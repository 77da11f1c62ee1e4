------------------------------ MODULE Bootstrap ------------------------------
(***************************************************************************)
(* The project's own tooling (internal/bootstrap, command/build.go): "mage *)
(* Bootstrap" installs the pinned tools from verified archives, warms the  *)
(* Go module cache and builds the frontend and the linear-sync workspace;  *)
(* "build" compiles the project from what bootstrap left.  Both decide     *)
(* what is still good by the manifests and hashes earlier commands wrote,  *)
(* so what they leave when they fail or die counts.  Downloads, renames    *)
(* and child processes fail, and files are edited meanwhile.               *)
(*                                                                         *)
(* An archive is known by its hash; content that is no archive's is        *)
(* Altered.  Sources and lock files are versions.                          *)
(***************************************************************************)
EXTENDS Integers, Sequences, FiniteSets

CONSTANTS
  Tools,        \* tools with a pinned archive
  Versioned,    \* the tools whose directory carries the version: the toolchains
  Stages,       \* what a bootstrap does, in order: tools and phases
  Unfit,        \* archives whose entries are refused: a name twice, one that leaves the directory
  Bare,         \* archives without the executable their tool is run by
  MaxPin,       \* bound: archives of a tool
  MaxEdits,     \* bound: edits of pins, sources and lock files
  MaxFaults,    \* bound: failures, deaths, damaged files
  MaxCommands   \* bound: commands run

NpmAttempts == 3

Spaces == {"frontend", "linear"}

Phases == {"gophase", "goinstall"} \cup Spaces

Optional == "midicat"

Pins == 1..MaxPin

Absent == 0

Altered == -1

ASSUME BootstrapAssumption ==
  /\ Versioned \subseteq Tools /\ Tools \cap Phases = {}
  /\ Stages \in Seq(Tools \cup Phases)
  /\ \A i, j \in 1..Len(Stages) : Stages[i] = Stages[j] => i = j
  /\ {"gophase", "frontend"} \subseteq {Stages[i] : i \in 1..Len(Stages)}
  /\ Unfit \subseteq Tools \X Pins /\ Bare \subseteq Tools \X Pins
  /\ MaxPin \in Nat \ {0} /\ {MaxEdits, MaxFaults, MaxCommands} \subseteq Nat

VARIABLES
  pin,      \* config/toolchain.toml: the archive of each tool, the version of the optional one
  install,  \* install directories: the manifest's archive, and the content
  cache,    \* downloaded archives: absent, good, bad
  golock,   \* go.mod and go.sum
  gosrc,    \* Go sources
  gobin,    \* the optional tool, as go install left it
  modcache, \* lock versions whose modules are in the module cache
  signature,\* go-mod-lock.sha256: the lock version the cache is said to be for
  space,    \* npm workspaces: source, lock file, what was built, the manifest
  root,     \* binaries in the repository root: their sources, and the frontend they embed
  pinned,   \* the daemon binary under .tools, its sources
  litter,   \* partial downloads, staging and backup directories
  cmd,      \* the command that runs
  last,     \* how the last command ended
  touched,  \* history: what was edited or damaged since the last command started
  torn,     \* history: what was ever edited between its being used and its being recorded
  used

files == <<pin, install, cache, golock, gosrc, gobin, modcache, signature, space, root, pinned, litter>>

vars == <<pin, install, cache, golock, gosrc, gobin, modcache, signature, space, root, pinned, litter, cmd, last, touched, torn, used>>

NoInstall == [manifest |-> Absent, content |-> Absent]

\* A lock file: its version, and what go or npm made of it.
Committed(v) == [version |-> v, shape |-> "committed"]

NoLock == [version |-> 0, shape |-> "none"]

\* go or npm had it its way once; it leaves the file alone then.
Written(lock, shape) == IF lock.shape = "committed" THEN [lock EXCEPT !.shape = shape] ELSE lock

GoLock(v) == [mod |-> Committed(v), sum |-> Committed(v)]

Nothing == <<0, NoLock>>

Idle == [pc |-> "idle", kind |-> "none", stage |-> 0, backup |-> NoInstall, before |-> NoLock, found |-> <<>>,
        installed |-> {}, litter |-> {}, read |-> <<>>, attempt |-> 0, clean |-> TRUE]

Init ==
  /\ pin = [t \in Tools \cup {Optional} |-> 1]
  /\ install = [d \in Tools \X (0..MaxPin) |-> NoInstall]
  /\ cache = [a \in Tools \X Pins |-> "absent"]
  /\ golock = GoLock(1)
  /\ gosrc = 1
  /\ gobin = 0
  /\ modcache = {}
  /\ signature = [mod |-> NoLock, sum |-> NoLock]
  /\ space = [w \in Spaces |-> [src |-> 1, lock |-> Committed(1), modules |-> FALSE, dist |-> Nothing,
                               manifest |-> Nothing]]
  /\ root = [src |-> 0, dist |-> Nothing]
  /\ pinned = 0
  /\ litter = {}
  /\ cmd = Idle
  /\ last = "none"
  /\ touched = {}
  /\ torn = {}
  /\ used = [edits |-> 0, faults |-> 0, commands |-> 0]

At(pc) == cmd.pc = pc

Stage == Stages[cmd.stage]

Dir(t) == <<t, IF t \in Versioned THEN pin[t] ELSE 0>>

End(result) == cmd' = Idle /\ last' = result

\* The next stage of the bootstrap, or its end.
NextStage ==
  IF cmd.stage = Len(Stages) THEN End("ok")
  ELSE cmd' = [cmd EXCEPT !.pc = "stage", !.stage = @ + 1, !.backup = NoInstall, !.before = NoLock, !.attempt = 0]
       /\ last' = last

-----------------------------------------------------------------------------
\* Installs

\* The manifest is of the archive, and every file is as the manifest says.
InstalledMatches(d, sha) == install[d].manifest = sha /\ install[d].content = sha

\* Every tool has a pin, with its address and hash, or module and version.
validateManifestForPlatform == \A t \in DOMAIN pin : pin[t] # Absent

\* The pins are read once; incomplete ones end it.
readBootstrapManifest ==
  /\ At("pins")
  /\ IF validateManifestForPlatform THEN cmd' = [cmd EXCEPT !.pc = "stage"] /\ last' = last ELSE End("failed")
  /\ UNCHANGED <<files, touched, torn, used>>

Archive == <<Stage, pin[Stage]>>

\* Once installed, a tool must have its executable.
ExpectExecutable == IF Archive \in Bare THEN End("failed") ELSE NextStage

\* Tools the manifest has are verified, and only installed when they do not match.
installPin ==
  /\ At("stage") /\ Stage \in Tools
  /\ IF InstalledMatches(Dir(Stage), pin[Stage]) THEN ExpectExecutable
     ELSE cmd' = [cmd EXCEPT !.pc = "acquire"] /\ last' = last
  /\ UNCHANGED <<files, touched, torn, used>>

InstallVars == <<pin, golock, gosrc, gobin, modcache, signature, space, root, pinned, touched, torn, used>>

Goes(pc) == cmd' = [cmd EXCEPT !.pc = pc] /\ UNCHANGED last

\* A fault: an archive that does not verify ends the bootstrap.
FaultAcquire ==
  /\ At("acquire")
  /\ IF cache[Archive] = "good" THEN Goes("extract") ELSE IF cache[Archive] = "absent" THEN Goes("fetch") ELSE End("failed")
  /\ UNCHANGED <<install, cache, litter>> /\ UNCHANGED InstallVars

\* A cached archive is used if it verifies, and removed if not.
Acquire ==
  /\ At("acquire")
  /\ IF cache[Archive] = "good" THEN Goes("extract") /\ UNCHANGED cache
     ELSE Goes("fetch") /\ cache' = [cache EXCEPT ![Archive] = "absent"]
  /\ UNCHANGED <<install, litter>> /\ UNCHANGED InstallVars

\* The body goes to a partial file ...
Fetch ==
  /\ At("fetch")
  /\ Goes("verify")
  /\ litter' = litter \cup {"partial"}
  /\ UNCHANGED <<install, cache>> /\ UNCHANGED InstallVars

\* ... which becomes the cached archive once it verifies.
VerifySHA256 ==
  /\ At("verify")
  /\ Goes("extract")
  /\ cache' = [cache EXCEPT ![Archive] = "good"]
  /\ litter' = litter \ {"partial"}
  /\ UNCHANGED install /\ UNCHANGED InstallVars

\* Every entry has a name of its own that stays in the directory.
inspectArchive(a) == a \notin Unfit

\* The archive is verified again and every entry looked at before a staging
\* directory is made beside the install.
ExtractVerified ==
  /\ At("extract")
  /\ IF cache[Archive] = "good" /\ inspectArchive(Archive)
     THEN Goes("unpack") /\ litter' = litter \cup {"staging"}
     ELSE End("failed") /\ UNCHANGED litter
  /\ UNCHANGED <<install, cache>> /\ UNCHANGED InstallVars

\* Entry by entry it is unpacked there; nothing in place is touched ...
extractArchive ==
  /\ At("unpack")
  /\ Goes("inventory")
  /\ UNCHANGED <<install, cache, litter>> /\ UNCHANGED InstallVars

\* ... and the manifest of the files written.
InstallStaged ==
  /\ At("inventory")
  /\ Goes("promote")
  /\ UNCHANGED <<install, cache, litter>> /\ UNCHANGED InstallVars

\* PromoteAtomically: what is in place is moved aside ...
PromoteAside ==
  /\ At("promote")
  /\ cmd' = [cmd EXCEPT !.pc = "swap", !.backup = install[Dir(Stage)]] /\ UNCHANGED last
  /\ install' = [install EXCEPT ![Dir(Stage)] = NoInstall]
  /\ litter' = IF install[Dir(Stage)] = NoInstall THEN litter ELSE litter \cup {"backup"}
  /\ UNCHANGED cache /\ UNCHANGED InstallVars

\* ... the new one is moved in ...
Promote ==
  /\ At("swap")
  /\ install' = [install EXCEPT ![Dir(Stage)] = [manifest |-> pin[Stage], content |-> pin[Stage]]]
  /\ litter' = litter \ {"staging"}
  /\ Goes("cleanup")
  /\ UNCHANGED cache /\ UNCHANGED InstallVars

\* ... and the old one goes.
RemoveBackup ==
  /\ At("cleanup")
  /\ litter' = litter \ {"backup"}
  /\ ExpectExecutable
  /\ UNCHANGED <<install, cache>> /\ UNCHANGED InstallVars

-----------------------------------------------------------------------------
\* runGoPhase

\* A fault: the signature is written with the lock files read, before the download.
FaultGoLockBefore ==
  /\ At("stage") /\ Stage = "gophase"
  /\ cmd' = [cmd EXCEPT !.pc = "download", !.before = golock]
  /\ signature' = golock
  /\ UNCHANGED <<pin, install, cache, golock, gosrc, gobin, modcache, space, root, pinned, litter, last, touched, torn, used>>

GoLockBefore ==
  /\ At("stage") /\ Stage = "gophase"
  /\ cmd' = [cmd EXCEPT !.pc = "download", !.before = golock]
  /\ UNCHANGED <<files, last, touched, torn, used>>

\* "go mod download all" fills the cache for the lock files as they are, and
\* may write to them.
GoModDownload(mod, sum) ==
  /\ At("download")
  /\ modcache' = modcache \cup {golock.mod.version}
  /\ golock' = [mod |-> Written(golock.mod, mod), sum |-> Written(golock.sum, sum)]
  /\ cmd' = [cmd EXCEPT !.pc = "sign"]
  /\ UNCHANGED <<pin, install, cache, gosrc, gobin, signature, space, root, pinned, litter, last, touched, torn, used>>

\* The lock files of before are what the cache is said to be for.
GoModLockSignature ==
  /\ At("sign")
  /\ signature' = cmd.before
  /\ cmd' = [cmd EXCEPT !.pc = "project"]
  /\ UNCHANGED <<pin, install, cache, golock, gosrc, gobin, modcache, space, root, pinned, litter, last, touched, torn, used>>

\* go.sum is as before, or only has lines more.
goSumIsSupersetExpansion ==
  \/ golock.sum = cmd.before.sum
  \/ cmd.before.sum.shape = "committed" /\ golock.sum = [cmd.before.sum EXCEPT !.shape = "expanded"]

\* A fault: lines the go command added to go.sum stay.
FaultRestoreGoLock ==
  golock' = IF goSumIsSupersetExpansion THEN [cmd.before EXCEPT !.sum = golock.sum] ELSE cmd.before

\* Whatever happened, the lock files are put back as they were found; but a
\* go.mod that changed is all that is put back then.
RestoreGoLock ==
  golock' = IF golock.mod = cmd.before.mod THEN cmd.before ELSE [golock EXCEPT !.mod = cmd.before.mod]

BuildProject ==
  /\ At("project")
  /\ pinned' = gosrc
  /\ RestoreGoLock
  /\ IF golock.mod = cmd.before.mod /\ goSumIsSupersetExpansion THEN NextStage ELSE End("failed")
  /\ UNCHANGED <<pin, install, cache, gosrc, gobin, modcache, signature, space, root, litter, touched, torn, used>>

\* A tool go install once left there stays, whatever is pinned now; one that
\* cannot be installed is done without.
installGoInstallTools ==
  /\ At("stage") /\ Stage = "goinstall"
  /\ gobin' \in IF gobin # 0 THEN {gobin} ELSE {0, pin[Optional]}
  /\ NextStage
  /\ UNCHANGED <<pin, install, cache, golock, gosrc, modcache, signature, space, root, pinned, litter, touched, torn, used>>

-----------------------------------------------------------------------------
\* runFrontendBuild and runLinearSync

Current(w) == <<space[w].src, space[w].lock>>

\* The manifest is of the sources and lock files as they are.
FrontendDistFresh ==
  space["frontend"].manifest = Current("frontend") /\ space["frontend"].dist # Nothing

\* For linear-sync it is of the lock files alone.
npmInstallMatches ==
  space["linear"].manifest[2] = space["linear"].lock /\ space["linear"].dist # Nothing

Fresh(w) == IF w = "frontend" THEN FrontendDistFresh ELSE npmInstallMatches

runFrontendBuild ==
  /\ At("stage") /\ Stage \in Spaces
  /\ IF Fresh(Stage) THEN NextStage
     ELSE cmd' = [cmd EXCEPT !.pc = "ci", !.before = space[Stage].lock] /\ last' = last
  /\ UNCHANGED <<files, touched, torn, used>>

\* npm ci installs what the lock file says; it removes what was there first,
\* the manifest too.
npmCI(shape) ==
  /\ At("ci")
  /\ space' = [space EXCEPT ![Stage].modules = TRUE, ![Stage].lock = Written(@, shape), ![Stage].manifest = Nothing]
  /\ cmd' = [cmd EXCEPT !.pc = "npmbuild", !.attempt = 0]
  /\ UNCHANGED <<pin, install, cache, golock, gosrc, gobin, modcache, signature, root, pinned, litter, last, touched, torn, used>>

\* Its lock file as it was found.
RestoreLock(w) == space' = [space EXCEPT ![w].lock = cmd.before]

\* npm ci failed, with nothing or half of it installed; it is tried three times.
runNpmCIWithRetry ==
  /\ At("ci")
  /\ IF cmd.attempt + 1 < NpmAttempts
     THEN /\ cmd' = [cmd EXCEPT !.attempt = @ + 1, !.clean = FALSE]
          /\ space' = [space EXCEPT ![Stage].modules = FALSE, ![Stage].manifest = Nothing]
          /\ last' = last
     ELSE /\ RestoreLock(Stage)
          /\ End("failed")
  /\ UNCHANGED <<pin, install, cache, golock, gosrc, gobin, modcache, signature, root, pinned, litter, touched, torn, used>>

npmBuild ==
  /\ At("npmbuild")
  /\ space' = [space EXCEPT ![Stage].dist = Current(Stage)]
  /\ cmd' = [cmd EXCEPT !.pc = "manifest"]
  /\ UNCHANGED <<pin, install, cache, golock, gosrc, gobin, modcache, signature, root, pinned, litter, last, touched, torn, used>>

lockInputsMatch(w) == space[w].lock = cmd.before

\* Lock files that changed are put back, and the build does not count; what
\* was built is then recorded as being of the sources as they are now.
WriteFrontendBuildManifest ==
  /\ At("manifest")
  /\ IF lockInputsMatch(Stage)
     THEN space' = [space EXCEPT ![Stage].manifest = Current(Stage)] /\ NextStage
     ELSE RestoreLock(Stage) /\ End("failed")
  /\ UNCHANGED <<pin, install, cache, golock, gosrc, gobin, modcache, signature, root, pinned, litter, touched, torn, used>>

-----------------------------------------------------------------------------
\* build

\* Nothing is built on a module cache that is not of these lock files.
ensureGoModCacheFresh ==
  /\ At("build")
  /\ IF signature = golock
     THEN cmd' = [cmd EXCEPT !.pc = "dist"] /\ last' = last
     ELSE End("failed")
  /\ UNCHANGED <<files, touched, torn, used>>

\* The frontend is built again when it is not fresh, without npm ci.
ensureFrontendDistFresh ==
  /\ At("dist")
  /\ IF FrontendDistFresh THEN cmd' = [cmd EXCEPT !.pc = "compile"] /\ UNCHANGED <<space, last>>
     ELSE IF ~space["frontend"].modules THEN End("failed") /\ UNCHANGED space
     ELSE /\ space' = [space EXCEPT !["frontend"].dist = Current("frontend")]
          /\ cmd' = [cmd EXCEPT !.pc = "distmanifest"]
          /\ UNCHANGED last
  /\ UNCHANGED <<pin, install, cache, golock, gosrc, gobin, modcache, signature, root, pinned, litter, touched, torn, used>>

RecordDist ==
  /\ At("distmanifest")
  /\ space' = [space EXCEPT !["frontend"].manifest = Current("frontend")]
  /\ cmd' = [cmd EXCEPT !.pc = "compile"]
  /\ UNCHANGED <<pin, install, cache, golock, gosrc, gobin, modcache, signature, root, pinned, litter, last, touched, torn, used>>

\* The pinned go compiles every package, modules from the cache only.
runBuild ==
  /\ At("compile")
  /\ IF golock.mod.version \in modcache
     THEN root' = [src |-> gosrc, dist |-> space["frontend"].dist] /\ cmd' = [cmd EXCEPT !.pc = "copy"] /\ last' = last
     ELSE End("failed") /\ root' = root
  /\ UNCHANGED <<pin, install, cache, golock, gosrc, gobin, modcache, signature, space, pinned, litter, touched, torn, used>>

\* refreshPinnedGolcProject truncates the daemon binary in place ...
TruncatePinned ==
  /\ At("copy")
  /\ pinned' = Altered
  /\ cmd' = [cmd EXCEPT !.pc = "copying"]
  /\ UNCHANGED <<pin, install, cache, golock, gosrc, gobin, modcache, signature, space, root, litter, last, touched, torn, used>>

\* ... and copies the one just built over it.
refreshPinnedGolcProject ==
  /\ At("copying")
  /\ pinned' = root.src
  /\ End("built")
  /\ UNCHANGED <<pin, install, cache, golock, gosrc, gobin, modcache, signature, space, root, litter, touched, torn, used>>

-----------------------------------------------------------------------------
\* tools update: the source of metadata there is proposes the pins it read, and
\* they are written to five files, one after the other

UpdateVars == <<install, cache, gosrc, gobin, modcache, signature, root, pinned, litter, touched, torn, used>>

\* What is there is proposed again, unless a toolchain has no pin or go.sum no
\* line for what go.mod requires.
Proposable == (\A t \in Versioned : pin[t] # Absent) /\ golock.mod.version = golock.sum.version

Propose == [pin |-> pin, go |-> golock, npm |-> space["linear"].lock]

\* A check ends here.
BuildToolsUpdateProposal(write) ==
  /\ At("propose")
  /\ IF Proposable /\ write
     THEN cmd' = [cmd EXCEPT !.pc = "writepins", !.read = Propose] /\ last' = last
     ELSE End(IF Proposable THEN "checked" ELSE "failed")
  /\ UNCHANGED <<pin, golock, space>> /\ UNCHANGED UpdateVars

\* config/toolchain.toml
applyToolchainTOMLProposal ==
  /\ At("writepins")
  /\ pin' = cmd.read.pin
  /\ Goes("writemod")
  /\ UNCHANGED <<golock, space>> /\ UNCHANGED UpdateVars

applyGoModProposal ==
  /\ At("writemod")
  /\ golock' = [golock EXCEPT !.mod = cmd.read.go.mod]
  /\ Goes("writesum")
  /\ UNCHANGED <<pin, space>> /\ UNCHANGED UpdateVars

applyGoSumProposal ==
  /\ At("writesum")
  /\ golock' = [golock EXCEPT !.sum = cmd.read.go.sum]
  /\ Goes("writenpm")
  /\ UNCHANGED <<pin, space>> /\ UNCHANGED UpdateVars

\* package.json and package-lock.json are encoded anew, their keys sorted
applyPackageLockProposal ==
  /\ At("writenpm")
  /\ space' = [space EXCEPT !["linear"].lock = Written(cmd.read.npm, "sorted")]
  /\ End("updated")
  /\ UNCHANGED <<pin, golock>> /\ UNCHANGED UpdateVars

-----------------------------------------------------------------------------
\* What starts, what fails, what changes

Locks == <<golock, [w \in Spaces |-> space[w].lock]>>

Start(kind, pc) ==
  /\ At("idle")
  /\ used.commands < MaxCommands
  /\ used' = [used EXCEPT !.commands = @ + 1]
  /\ cmd' = [Idle EXCEPT !.pc = pc, !.kind = kind, !.stage = 1, !.found = Locks,
                       !.litter = litter, !.installed = {d \in DOMAIN install : install[d] # NoInstall}]
  /\ last' = "none"
  /\ touched' = {}
  /\ UNCHANGED <<files, torn>>

runBootstrap == Start("bootstrap", "pins")

runToolsUpdate == Start("update", "propose")

startBuild == Start("build", "build")

Fault(n) ==
  /\ used.faults < MaxFaults
  /\ used' = [used EXCEPT !.faults = @ + n]

\* What the deferred removals of a step that failed take away.
Cleared ==
  IF cmd.pc = "verify" THEN {"partial"}
  ELSE IF cmd.pc \in {"unpack", "inventory", "promote"} THEN {"staging"}
  ELSE IF cmd.pc = "swap" THEN {"staging", "backup"} ELSE {}

\* The install that was moved aside is moved back.
MovedBack == IF At("swap") THEN [install EXCEPT ![Dir(Stage)] = cmd.backup] ELSE install

\* A fetch fails or brings something else, a rename (tried for 90 seconds) or a
\* process fails: the command ends.  What was staged is removed, and lock files
\* are restored.
StepFails ==
  /\ Fault(1)
  /\ End("failed")
  /\ \/ /\ cmd.pc \in {"fetch", "verify", "unpack", "inventory", "promote", "swap", "cleanup"}
        /\ install' = MovedBack
        /\ litter' = litter \ Cleared
        /\ UNCHANGED <<golock, space>>
     \/ /\ cmd.pc \in {"download", "sign", "project"}
        /\ RestoreGoLock
        /\ UNCHANGED <<install, space, litter>>
     \/ /\ cmd.pc \in {"npmbuild", "manifest"}
        /\ RestoreLock(Stage)
        /\ UNCHANGED <<install, golock, litter>>
     \/ /\ cmd.pc \in {"dist", "compile", "copying", "writemod", "writesum", "writenpm"}
        /\ UNCHANGED <<install, golock, space, litter>>
  /\ UNCHANGED <<pin, cache, gosrc, gobin, modcache, signature, root, pinned, touched, torn>>

\* A step fails, and then what should undo it: the partial download or what was
\* staged cannot be removed, the install moved aside cannot be moved back, which
\* PromoteAtomically ignores, or the lock files cannot be restored, which the
\* deferred functions report.
UndoFails ==
  /\ Fault(1)
  /\ End("unrestored")
  /\ \/ /\ cmd.pc \in {"verify", "unpack", "inventory", "promote", "swap"}
        /\ install' = MovedBack
        /\ litter' = litter \ {"backup"}
        /\ UNCHANGED pinned
     \/ /\ At("swap") /\ cmd.backup # NoInstall
        /\ litter' \in {litter, litter \ {"staging"}}
        /\ UNCHANGED <<install, pinned>>
     \/ /\ cmd.pc \in {"download", "sign", "project"} /\ golock # cmd.before
        /\ pinned' \in IF At("project") THEN {pinned, gosrc} ELSE {pinned}
        /\ UNCHANGED <<install, litter>>
     \/ /\ cmd.pc \in {"ci", "npmbuild", "manifest"} /\ space[Stage].lock # cmd.before
        /\ At("ci") => cmd.attempt + 1 = NpmAttempts
        /\ UNCHANGED <<install, litter, pinned>>
  /\ UNCHANGED <<pin, cache, golock, gosrc, gobin, modcache, signature, space, root, touched, torn>>

\* The command dies where it is, and nothing is put back.
Die ==
  /\ Fault(1)
  /\ ~At("idle")
  /\ End("died")
  /\ UNCHANGED <<files, touched, torn>>

\* Where what a command just used is about to be recorded.
Unrecorded(what) ==
  \/ what = "go" /\ At("download")
  \/ what = "spaces" /\ cmd.pc \in {"manifest", "distmanifest"}

Touch(what) ==
  /\ touched' = touched \cup {what}
  /\ torn' = IF Unrecorded(what) THEN torn \cup {what} ELSE torn
  /\ cmd' = IF At("idle") THEN cmd ELSE [cmd EXCEPT !.clean = FALSE]
  /\ last' = last

\* Files under .tools are damaged.
Damage ==
  /\ Fault(1)
  /\ Touch("tools")
  /\ \/ \E d \in DOMAIN install :
          /\ install[d].content # Absent
          /\ install' = [install EXCEPT ![d].content = Altered]
          /\ UNCHANGED cache
     \/ \E a \in DOMAIN cache :
          /\ cache[a] = "good"
          /\ cache' = [cache EXCEPT ![a] = "bad"]
          /\ UNCHANGED install
  /\ UNCHANGED <<pin, golock, gosrc, gobin, modcache, signature, space, root, pinned, litter>>

\* Pins, sources and lock files are edited, or pulled.
Edit ==
  /\ used.edits < MaxEdits
  /\ used' = [used EXCEPT !.edits = @ + 1]
  /\ \/ /\ \E t \in DOMAIN pin, p \in {Absent} \cup Pins : pin[t] < MaxPin /\ p # pin[t] /\ pin' = [pin EXCEPT ![t] = p]
        /\ cmd.kind \in {"none", "update"}   \* a bootstrap reads the pins once, when it starts
        /\ Touch("tools")
        /\ UNCHANGED <<golock, gosrc, space>>
     \/ /\ golock' = GoLock(golock.mod.version + 1)
        /\ Touch("go")
        /\ UNCHANGED <<pin, gosrc, space>>
     \/ /\ gosrc' = gosrc + 1
        /\ Touch("source")
        /\ UNCHANGED <<pin, golock, space>>
     \/ /\ \E w \in Spaces : \/ space' = [space EXCEPT ![w].src = @ + 1]
                             \/ space' = [space EXCEPT ![w].lock = Committed(@.version + 1)]
        /\ Touch("spaces")
        /\ UNCHANGED <<pin, golock, gosrc>>
  /\ UNCHANGED <<install, cache, gobin, modcache, signature, root, pinned, litter>>

Shapes == {"committed", "expanded", "rewritten"}

Command ==
  \/ readBootstrapManifest \/ installPin \/ Acquire \/ Fetch \/ VerifySHA256 \/ ExtractVerified \/ extractArchive \/ InstallStaged
  \/ PromoteAside \/ Promote \/ RemoveBackup
  \/ (\E write \in BOOLEAN : BuildToolsUpdateProposal(write))
  \/ applyToolchainTOMLProposal \/ applyGoModProposal \/ applyGoSumProposal \/ applyPackageLockProposal
  \/ GoLockBefore \/ (\E s \in Shapes : GoModDownload("committed", s)) \/ GoModDownload("rewritten", "expanded") \/ GoModLockSignature \/ BuildProject \/ installGoInstallTools
  \/ runFrontendBuild \/ (\E s \in {"committed", "rewritten"} : npmCI(s)) \/ runNpmCIWithRetry
  \/ npmBuild \/ WriteFrontendBuildManifest
  \/ ensureGoModCacheFresh \/ ensureFrontendDistFresh \/ RecordDist \/ runBuild
  \/ TruncatePinned \/ refreshPinnedGolcProject

Next == runBootstrap \/ startBuild \/ runToolsUpdate \/ Command \/ StepFails \/ UndoFails \/ Die \/ Damage \/ Edit

\* A command goes on.
Spec == Init /\ [][Next]_vars /\ WF_vars(Command)

-----------------------------------------------------------------------------
\* Properties

TypeOK ==
  /\ pin \in [Tools \cup {Optional} -> 0..MaxPin] /\ gobin \in 0..MaxPin
  /\ \A d \in DOMAIN install : install[d].manifest \in 0..MaxPin /\ install[d].content \in -1..MaxPin
  /\ \A a \in DOMAIN cache : cache[a] \in {"absent", "good", "bad"}
  /\ golock.sum.shape \in Shapes /\ signature.sum.version \in 0..(MaxEdits + 1)
  /\ last \in {"none", "ok", "built", "checked", "updated", "failed", "unrestored", "died"}
  /\ cmd.stage \in 0..Len(Stages) /\ cmd.attempt \in 0..(NpmAttempts - 1)

\* A stage after a tool's own runs on exactly the archive pinned for it,
\* whatever earlier bootstraps left half done or somebody damaged before, unless
\* it is damaged after it was verified (installPin, InstalledMatches).
RunsOnPinnedTools ==
  cmd.kind = "bootstrap" /\ "tools" \notin touched =>
    \A i \in 1..(cmd.stage - 1) : Stages[i] \in Tools => install[Dir(Stages[i])].content = pin[Stages[i]]

\* When the recorded signature is that of the lock files, so that a build does
\* not ask for a bootstrap, the module cache has their modules: also after a
\* bootstrap failed or died half way (runGoPhase's order).  Only lock files
\* edited between its reading them and the download break this: it signs what
\* it read and fetches what is there.
SignedCacheIsWarm ==
  "go" \notin torn /\ signature = golock => signature.mod.version \in modcache

\* A frontend that counts as fresh was built from the sources and lock files as
\* they are, and linear-sync from its lock files, unless they were edited
\* between the build and the record of it (FrontendDistFresh, npmInstallMatches,
\* WriteFrontendBuildManifest).
FreshIsBuilt ==
  "spaces" \notin torn =>
    /\ FrontendDistFresh => space["frontend"].dist = Current("frontend")
    /\ npmInstallMatches => space["linear"].dist[2] = space["linear"].lock

\* A command that neither dies nor fails in restoring them leaves every lock file
\* as it found it, whatever the go command or npm made of them and at whatever
\* step it failed (the deferred restores of runGoPhase, runFrontendBuild and
\* runLinearSync).  Only go.sum is left as it is when go.mod changed as well.
LocksAsFound ==
  [][~At("idle") /\ cmd' = Idle /\ last' \notin {"unrestored", "died"} /\ touched = {} =>
       \/ Locks' = cmd.found
       \/ /\ cmd.kind = "update"
          /\ golock' = cmd.found[1]
          /\ \A w \in Spaces : space'[w].lock.version = cmd.found[2][w].version
       \/ golock.mod # cmd.found[1].mod /\ golock'.mod = cmd.found[1].mod]_vars

\* A command that reported success left everything current: a bootstrap the
\* signature, the frontend and the daemon binary, a build also the binaries in
\* the root, with that frontend in them (run, runBuild).
SuccessIsCurrent ==
  last \in {"ok", "built"} /\ touched = {} /\ torn = {} =>
    /\ pinned = gosrc
    /\ signature = golock
    /\ space["frontend"].dist = Current("frontend")
    /\ last = "built" => root = [src |-> gosrc, dist |-> Current("frontend")]

\* What bootstrap leaves behind can be relied on after any failure: a signed
\* cache is warm, a fresh build is of these sources, success is of these pins.
LeftInOrder ==
  /\ TypeOK
  /\ RunsOnPinnedTools
  /\ SignedCacheIsWarm
  /\ FreshIsBuilt
  /\ SuccessIsCurrent

\* A bootstrap in which nothing fails and nothing is edited succeeds, whatever
\* commands that failed or died before it left behind: half an install, an
\* install moved aside, a bad download, node modules without a manifest.  It
\* may only refuse pins that are incomplete, an archive it would not unpack or
\* that lacks the tool's executable, and lock files go or npm just rewrote.
CleanBootstrapSucceeds ==
  [][cmd.kind = "bootstrap" /\ cmd.clean /\ last' = "failed" /\ used' = used =>
       \/ At("pins")
       \/ At("extract") /\ Archive \in Unfit
       \/ cmd.pc \in {"stage", "cleanup"} /\ Stage \in Tools /\ Archive \in Bare
       \/ At("project") /\ ~(golock.mod = cmd.before.mod /\ goSumIsSupersetExpansion)
       \/ At("manifest") /\ ~lockInputsMatch(Stage)]_vars

\* A command that neither dies nor fails in removing them leaves no partial
\* download, staging or backup directory behind, at whatever step it failed (the
\* deferred removals of Acquire and InstallStaged), except the backup of an
\* install that was replaced.
OnlyDeathLitters ==
  [][~At("idle") /\ cmd' = Idle /\ last' \notin {"unrestored", "died"} =>
       litter' \subseteq cmd.litter \cup (IF At("cleanup") THEN {"backup"} ELSE {})]_vars

\* Every tool a command found installed is installed when it ends, unless it
\* dies, whether the archive was refused, a download failed or the new install
\* could not be moved in (PromoteAtomically); one that could not be moved back
\* either is still in the backup directory.
InstallsStay ==
  [][~At("idle") /\ cmd' = Idle /\ last' # "died" =>
       \A d \in cmd.installed :
         \/ install'[d] # NoInstall
         \/ last' = "unrestored" /\ At("swap") /\ d = Dir(Stage) /\ "backup" \in litter']_vars

\* A bootstrap that fails puts back what it touched, the lock files and the tools
\* installed before it, and removes its own partial files, when its undoing does
\* not fail too; even then no installed tool is lost, but for one moved aside.
FailuresAreUndone ==
  /\ LocksAsFound
  /\ OnlyDeathLitters
  /\ InstallsStay

\* Every command ends, npm ci failing over and over included.
CommandsEnd == []<>At("idle")

\* Every command ends, and a bootstrap that meets no fault ends in success.
BootstrapSettles ==
  /\ CleanBootstrapSucceeds
  /\ CommandsEnd
=============================================================================
