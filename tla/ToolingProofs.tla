---------------------------- MODULE ToolingProofs ----------------------------
(***************************************************************************)
(* Proofs about the project's own tooling (Bootstrap), for any tools,      *)
(* stages, archives, edits, failures, deaths and damage; and about the     *)
(* layers of its configuration (ProjectConfig), for any keys, texts,       *)
(* declarations and writers.                                               *)
(***************************************************************************)
EXTENDS Bootstrap, ProjectConfig, FiniteSetTheorems, SequenceTheorems, WellFoundedInduction, TLAPS

-----------------------------------------------------------------------------
\* The inductive invariant of the tooling

\* Where a command is in its steps
InstallPcs == {"acquire", "fetch", "verify", "extract", "unpack", "inventory", "promote", "swap", "cleanup"}

GoPcs == {"download", "sign", "project"}

NpmPcs == {"ci", "npmbuild", "manifest"}

BuildPcs == {"build", "dist", "distmanifest", "compile", "copy", "copying"}

WritePcs == {"writepins", "writemod", "writesum", "writenpm"}

\* What each kind of command does, and on which stage.
KindOf(pc) ==
  IF pc = "idle" THEN "none" ELSE IF pc \in BuildPcs THEN "build"
  ELSE IF pc \in {"propose"} \cup WritePcs THEN "update" ELSE "bootstrap"

GoLockRecord == [version : Nat \ {0}, shape : Shapes]

GoLocks == [mod : GoLockRecord, sum : GoLockRecord]

NpmLock == [version : Nat \ {0}, shape : {"committed", "rewritten", "sorted"}]

InstallRecord == [manifest : 0..MaxPin, content : (-1)..MaxPin]

PinRecord == [Tools \cup {Optional} -> 0..MaxPin]

Pcs == {"idle", "pins", "stage", "propose"} \cup InstallPcs \cup GoPcs \cup NpmPcs \cup BuildPcs \cup WritePcs

Found == (GoLocks \X [Spaces -> NpmLock]) \cup {<<>>}

Proposal == [pin : PinRecord, go : GoLocks, npm : NpmLock]

CmdRecord ==
  [pc : Pcs, kind : {"none", "bootstrap", "build", "update"}, stage : 0..Len(Stages), backup : InstallRecord,
   before : GoLocks \cup NpmLock \cup {NoLock}, found : Found,
   installed : SUBSET (Tools \X (0..MaxPin)), litter : SUBSET {"partial", "staging", "backup"},
   read : Proposal \cup {<<>>}, attempt : 0..(NpmAttempts - 1), clean : BOOLEAN]

Built == Nat \X (NpmLock \cup {NoLock})

SpaceRecord == [src : Nat, lock : NpmLock, modules : BOOLEAN, dist : Built, manifest : Built]

BootTypes ==
  /\ pin \in PinRecord /\ gobin \in 0..MaxPin
  /\ install \in [Tools \X (0..MaxPin) -> InstallRecord]
  /\ cache \in [Tools \X Pins -> {"absent", "good", "bad"}]
  /\ golock \in GoLocks /\ gosrc \in Nat
  /\ signature \in GoLocks \cup {[mod |-> NoLock, sum |-> NoLock]}
  /\ space \in [Spaces -> SpaceRecord]
  /\ litter \subseteq {"partial", "staging", "backup"}
  /\ cmd \in CmdRecord
  /\ last \in {"none", "ok", "built", "checked", "updated", "failed", "unrestored", "died"}
  /\ used \in [edits : 0..MaxEdits, faults : Nat, commands : Nat]

CmdFits ==
  /\ At("idle") => cmd = Idle
  /\ cmd.kind = KindOf(cmd.pc)
  /\ ~At("idle") => cmd.stage > 0 /\ last = "none" /\ cmd.found \in GoLocks \X [Spaces -> NpmLock]
  /\ cmd.pc \in InstallPcs => Stage \in Tools
  /\ cmd.pc \in GoPcs => Stage = "gophase" /\ cmd.before \in GoLocks
  /\ cmd.pc \in NpmPcs => Stage \in Spaces /\ cmd.before \in NpmLock
  /\ cmd.pc \in WritePcs => cmd.read \in Proposal
  /\ cmd.kind = "bootstrap" /\ ~At("pins") => \A t \in DOMAIN pin : pin[t] # Absent

\* Versions are counted from the edits.
UpTo(lock) == lock.mod.version <= used.edits + 1 /\ lock.sum.version <= used.edits + 1

VersionsCounted ==
  /\ UpTo(golock) /\ UpTo(signature)
  /\ cmd.pc \in GoPcs => UpTo(cmd.before)
  /\ cmd.pc \in WritePcs => UpTo(cmd.read.go)

\* The modules of a signature were downloaded before it was written.
Warm ==
  "go" \notin torn =>
    /\ signature.mod = NoLock \/ signature.mod.version \in modcache
    /\ At("download") => golock.mod.version = cmd.before.mod.version
    /\ At("sign") => cmd.before.mod.version \in modcache

\* A frontend manifest is of no later sources than these.
ManifestIsPast ==
  LET f == space["frontend"]
  IN f.manifest # Nothing =>
       /\ f.manifest[1] <= f.src /\ f.manifest[2].version <= f.lock.version
       /\ f.manifest[2].version = f.lock.version => f.manifest[2] = f.lock

\* npm ci takes the manifest away before what it is of changes.
Wiped ==
  /\ cmd.pc \in {"npmbuild", "manifest"} => space[Stage].manifest = Nothing
  /\ cmd.attempt > 0 => At("ci") /\ space[Stage].manifest = Nothing

Recorded ==
  "spaces" \notin torn =>
    /\ space["frontend"].manifest = Current("frontend") => space["frontend"].dist = Current("frontend")
    /\ space["linear"].manifest # Nothing => space["linear"].dist[2] = space["linear"].manifest[2]
    /\ At("manifest") => space[Stage].dist = Current(Stage)
    /\ At("distmanifest") => space["frontend"].dist = Current("frontend")

\* The tools of the stages that are over are the pinned ones.
ToolsReady ==
  cmd.kind = "bootstrap" /\ "tools" \notin touched =>
    /\ \A i \in 1..(cmd.stage - 1) : Stages[i] \in Tools => install[Dir(Stages[i])].content = pin[Stages[i]]
    /\ At("cleanup") => install[Dir(Stage)].content = pin[Stage]

\* An install that was there is there, or moved aside for the moment.
InstallsKept ==
  \A d \in cmd.installed :
    IF At("swap") /\ d = Dir(Stage) THEN cmd.backup # NoInstall ELSE install[d] # NoInstall

\* What the command itself has lying about.
OwnLitter ==
  IF At("verify") THEN {"partial"} ELSE IF cmd.pc \in {"unpack", "inventory", "promote"} THEN {"staging"}
  ELSE IF At("swap") THEN {"staging", "backup"} ELSE IF At("cleanup") THEN {"backup"} ELSE {}

LitterIsOwn ==
  ~At("idle") =>
    /\ litter \subseteq cmd.litter \cup OwnLitter
    /\ At("swap") /\ cmd.backup # NoInstall => "backup" \in litter

\* Where the lock files are as they were found, and where what was found is kept.
LocksKept ==
  ~At("idle") /\ touched = {} =>
    /\ cmd.pc \in GoPcs => cmd.before = cmd.found[1]
    /\ At("download") \/ cmd.pc \notin GoPcs => golock = cmd.found[1]
    /\ \A w \in Spaces : (cmd.pc \in NpmPcs /\ w = Stage) \/ space[w].lock = cmd.found[2][w]
    /\ cmd.pc \in NpmPcs => cmd.before = cmd.found[2][Stage]
    /\ cmd.pc \in WritePcs => cmd.read.go = cmd.found[1] /\ cmd.read.npm = cmd.found[2]["linear"]

Passed(p) == \E i \in 1..(cmd.stage - 1) : Stages[i] = p

\* A stage that is over left everything current, and so did the steps of a build.
PassedIsCurrent ==
  touched = {} /\ torn = {} =>
    /\ At("project") => signature = cmd.before
    /\ cmd.kind = "bootstrap" /\ Passed("gophase") => pinned = gosrc /\ signature = golock
    /\ cmd.kind = "bootstrap" /\ Passed("frontend") => space["frontend"].dist = Current("frontend")
    /\ cmd.pc \in BuildPcs \ {"build"} => signature = golock
    /\ cmd.pc \in {"distmanifest", "compile", "copy", "copying"} => space["frontend"].dist = Current("frontend")
    /\ cmd.pc \in {"copy", "copying"} => root = [src |-> gosrc, dist |-> Current("frontend")]

\* Failures a bootstrap is not to blame for were counted.
CleanGoesOn ==
  /\ cmd.clean /\ cmd.pc \in {"extract"} => cache[Archive] = "good"
  /\ cmd.attempt > 0 => ~cmd.clean

BootInv ==
  /\ CmdFits
  /\ VersionsCounted
  /\ Warm
  /\ ManifestIsPast
  /\ Wiped
  /\ Recorded
  /\ ToolsReady
  /\ InstallsKept
  /\ LitterIsOwn
  /\ LocksKept
  /\ PassedIsCurrent
  /\ SuccessIsCurrent
  /\ CleanGoesOn

-----------------------------------------------------------------------------
\* Types

\* The stages are tools and phases, each once, and the numbers are numbers.
LEMMA BootBounds ==
  /\ Len(Stages) \in Nat \ {0} /\ MaxPin \in Nat \ {0} /\ MaxEdits \in Nat
  /\ \A i \in 1..Len(Stages) : Stages[i] \in Tools \cup Phases
  /\ \A i, j \in 1..Len(Stages) : Stages[i] = Stages[j] => i = j
  /\ \E i \in 1..Len(Stages) : Stages[i] = "gophase"
  /\ \E i \in 1..Len(Stages) : Stages[i] = "frontend"
  /\ Tools \cap Phases = {}
BY BootstrapAssumption

\* A tool has a directory.
LEMMA DirIn == ASSUME BootTypes, NEW t \in Tools PROVE Dir(t) \in Tools \X (0..MaxPin) /\ pin[t] \in 0..MaxPin
BY BootBounds DEF BootTypes, PinRecord, Dir

\* The stage under way is one of them.
LEMMA StageIn ==
  ASSUME BootTypes, CmdFits, ~At("idle")
  PROVE  cmd.stage \in 1..Len(Stages) /\ Stage \in Tools \cup Phases
<1>1. cmd.stage \in 1..Len(Stages)
  BY BootBounds DEF BootTypes, CmdRecord, CmdFits
<1> QED BY <1>1, BootBounds DEF Stage

\* What the end of a stage makes of the command.
Moves ==
  /\ cmd.stage < Len(Stages)
  /\ cmd' \in CmdRecord
  /\ cmd'.pc = "stage" /\ cmd'.stage = cmd.stage + 1 /\ cmd'.attempt = 0
  /\ cmd'.kind = cmd.kind /\ cmd'.found = cmd.found /\ cmd'.installed = cmd.installed
  /\ cmd'.litter = cmd.litter /\ cmd'.clean = cmd.clean
  /\ last' = last

\* A stage ends: the next one begins, or the bootstrap is over.
LEMMA NextStageIs ==
  ASSUME BootTypes, CmdFits, ~At("idle"), NextStage
  PROVE  \/ cmd.stage = Len(Stages) /\ cmd' = Idle /\ last' = "ok"
         \/ Moves
<1>1. cmd.stage \in 1..Len(Stages) /\ cmd \in CmdRecord /\ Len(Stages) \in Nat
  BY StageIn, BootBounds DEF BootTypes
<1>2. CASE cmd.stage = Len(Stages)
  BY <1>2 DEF NextStage, End
<1>3. CASE cmd.stage # Len(Stages)
  <2>1. cmd' = [cmd EXCEPT !.pc = "stage", !.stage = @ + 1, !.backup = NoInstall, !.before = NoLock, !.attempt = 0]
        /\ last' = last
    BY <1>3 DEF NextStage
  <2>2. "stage" \in Pcs /\ NoInstall \in InstallRecord /\ 0 \in 0..(NpmAttempts - 1)
    BY BootBounds DEF Pcs, NoInstall, InstallRecord, Absent, NpmAttempts
  <2>3. cmd.stage + 1 \in 0..Len(Stages) /\ cmd.stage < Len(Stages)
    BY <1>1, <1>3
  <2> QED BY <1>1, <2>1, <2>2, <2>3 DEF Moves, CmdRecord
<1> QED BY <1>2, <1>3

\* The command when there is none
LEMMA IdleIs ==
  /\ Idle \in CmdRecord /\ Idle.pc = "idle" /\ Idle.kind = "none" /\ Idle.installed = {} /\ Idle.litter = {}
  /\ Idle.attempt = 0 /\ Idle.stage = 0 /\ Idle.clean = TRUE
<1>1. "idle" \in Pcs /\ NoInstall \in InstallRecord /\ 0 \in 0..(NpmAttempts - 1) /\ 0 \in 0..Len(Stages)
  BY BootBounds DEF Pcs, NoInstall, InstallRecord, Absent, NpmAttempts
<1>2. <<>> \in Found /\ <<>> \in Proposal \cup {<<>>}
  BY DEF Found
<1> QED BY <1>1, <1>2 DEF Idle, CmdRecord

\* A step within a command, or to its end.
Steps(ps) ==
  /\ cmd' \in CmdRecord /\ cmd'.pc \in ps
  /\ cmd'.kind = cmd.kind /\ cmd'.stage = cmd.stage /\ cmd'.found = cmd.found /\ cmd'.installed = cmd.installed
  /\ cmd'.litter = cmd.litter
  /\ last' = last

\* A step that only moves the command on to p.
LEMMA GoesSteps ==
  ASSUME BootTypes, NEW p \in Pcs, cmd' = [cmd EXCEPT !.pc = p], last' = last
  PROVE  /\ Steps({p}) /\ cmd'.clean = cmd.clean /\ cmd'.attempt = cmd.attempt /\ cmd'.before = cmd.before
         /\ cmd'.read = cmd.read /\ cmd'.backup = cmd.backup
BY DEF BootTypes, CmdRecord, Steps

-----------------------------------------------------------------------------
\* Where a command is

\* There is no command.
LEMMA FitsIdle == ASSUME cmd' = Idle PROVE CmdFits'
BY IdleIs DEF CmdFits, At, KindOf, InstallPcs, GoPcs, NpmPcs, WritePcs

\* The next stage begins.
LEMMA FitsMoves ==
  ASSUME BootTypes, CmdFits, cmd.kind = "bootstrap", cmd.pc \notin {"idle", "pins"}, Moves, pin' = pin
  PROVE  CmdFits'
<1>1. cmd'.pc = "stage" /\ cmd'.kind = "bootstrap" /\ cmd'.stage > 0 /\ cmd'.found \in GoLocks \X [Spaces -> NpmLock] /\ last' = "none"
  BY DEF Moves, CmdFits, At, BootTypes, CmdRecord
<1>2. \A t \in DOMAIN pin' : pin'[t] # Absent
  BY DEF CmdFits, At
<1> QED BY <1>1, <1>2 DEF CmdFits, At, KindOf, InstallPcs, GoPcs, NpmPcs, WritePcs, BuildPcs

\* The command goes on to p.
LEMMA FitsSteps ==
  ASSUME BootTypes, CmdFits, ~At("idle"), NEW p \in Pcs \ {"idle"}, Steps({p}), KindOf(p) = cmd.kind,
         p \in InstallPcs => Stage \in Tools,
         p \in GoPcs => Stage = "gophase" /\ cmd'.before \in GoLocks,
         p \in NpmPcs => Stage \in Spaces /\ cmd'.before \in NpmLock,
         p \in WritePcs => cmd'.read \in Proposal,
         cmd.kind = "bootstrap" /\ p # "pins" => \A t \in DOMAIN pin' : pin'[t] # Absent
  PROVE  CmdFits'
<1>1. cmd'.pc = p /\ cmd'.kind = cmd.kind /\ cmd'.stage = cmd.stage /\ cmd'.found = cmd.found /\ last' = last
  BY DEF Steps
<1>2. Stage' = Stage
  BY <1>1 DEF Stage
<1> QED BY <1>1, <1>2 DEF CmdFits, At

\* A bootstrap under way has all its pins.
LEMMA PinsThere ==
  ASSUME BootTypes, CmdFits, cmd.kind = "bootstrap", ~At("pins"), NEW t \in Tools
  PROVE  pin[t] \in Pins
<1>1. t \in DOMAIN pin /\ pin[t] \in 0..MaxPin
  BY DEF BootTypes, PinRecord
<1>2. pin[t] # 0
  BY <1>1 DEF CmdFits, Absent
<1> QED BY <1>1, <1>2, BootBounds DEF Pins

-----------------------------------------------------------------------------
\* Steps of an install

InstallStep ==
  \/ readBootstrapManifest \/ installPin \/ Acquire \/ Fetch \/ VerifySHA256 \/ ExtractVerified \/ extractArchive \/ InstallStaged
  \/ PromoteAside \/ Promote \/ RemoveBackup

\* What an install step may do with the command.
ToolPcs == {"pins", "stage"} \cup InstallPcs

Outcome ==
  \/ cmd' = Idle /\ last' = "failed"
  \/ NextStage /\ Stage \in Tools /\ cmd.pc \in {"stage", "cleanup"}
  \/ \E p \in {"stage"} \cup InstallPcs :
       cmd' = [cmd EXCEPT !.pc = p] /\ last' = last /\ (p \in InstallPcs => Stage \in Tools)
       /\ (At("pins") => \A t \in DOMAIN pin : pin[t] # Absent)
  \/ cmd' = [cmd EXCEPT !.pc = "swap", !.backup = install[Dir(Stage)]] /\ last' = last /\ Stage \in Tools /\ At("promote")

\* What the install steps leave alone.
LEMMA InstallStepIs ==
  ASSUME BootTypes, CmdFits, InstallStep
  PROVE  /\ UNCHANGED InstallVars
         /\ cmd.kind = "bootstrap" /\ cmd.pc \in ToolPcs /\ ~At("idle")
         /\ Outcome
<1>1. CASE readBootstrapManifest
  <2>1. /\ At("pins") /\ UNCHANGED <<files, touched, torn, used>>
        /\ \/ cmd' = [cmd EXCEPT !.pc = "stage"] /\ last' = last /\ \A t \in DOMAIN pin : pin[t] # Absent
           \/ cmd' = Idle /\ last' = "failed"
    BY <1>1 DEF readBootstrapManifest, validateManifestForPlatform, End
  <2> QED BY <2>1 DEF CmdFits, At, KindOf, BuildPcs, WritePcs, ToolPcs, InstallPcs, files, InstallVars, Outcome
<1>2. CASE installPin
  <2>1. At("stage") /\ Stage \in Tools /\ UNCHANGED <<files, touched, torn, used>>
        /\ (NextStage \/ (cmd' = Idle /\ last' = "failed") \/ (cmd' = [cmd EXCEPT !.pc = "acquire"] /\ last' = last))
    BY <1>2 DEF installPin, ExpectExecutable, End
  <2> QED BY <2>1 DEF CmdFits, At, KindOf, BuildPcs, WritePcs, ToolPcs, InstallPcs, files, InstallVars, Outcome
<1>3. CASE cmd.pc \in InstallPcs /\ (Acquire \/ Fetch \/ VerifySHA256 \/ extractArchive \/ InstallStaged \/ Promote)
  <2>1. \E p \in InstallPcs : Goes(p)
    BY <1>3 DEF Acquire, Fetch, VerifySHA256, extractArchive, InstallStaged, Promote, InstallPcs
  <2>2. UNCHANGED InstallVars
    BY <1>3 DEF Acquire, Fetch, VerifySHA256, extractArchive, InstallStaged, Promote
  <2> QED BY <1>3, <2>1, <2>2 DEF Goes, CmdFits, At, KindOf, BuildPcs, WritePcs, ToolPcs, InstallPcs, Outcome
<1>4. CASE ExtractVerified
  <2>1. At("extract") /\ UNCHANGED InstallVars /\ (Goes("unpack") \/ (cmd' = Idle /\ last' = "failed"))
    BY <1>4 DEF ExtractVerified, End
  <2> QED BY <2>1 DEF Goes, CmdFits, At, KindOf, BuildPcs, WritePcs, ToolPcs, InstallPcs, Outcome
<1>5. CASE PromoteAside
  <2>1. At("promote") /\ UNCHANGED InstallVars
        /\ cmd' = [cmd EXCEPT !.pc = "swap", !.backup = install[Dir(Stage)]] /\ last' = last
    BY <1>5 DEF PromoteAside
  <2> QED BY <2>1 DEF CmdFits, At, KindOf, BuildPcs, WritePcs, ToolPcs, InstallPcs, Outcome
<1>6. CASE RemoveBackup
  <2>1. At("cleanup") /\ UNCHANGED InstallVars /\ (NextStage \/ (cmd' = Idle /\ last' = "failed"))
    BY <1>6 DEF RemoveBackup, ExpectExecutable, End
  <2> QED BY <2>1 DEF CmdFits, At, KindOf, BuildPcs, WritePcs, ToolPcs, InstallPcs, Outcome
<1>7. Acquire \/ Fetch \/ VerifySHA256 \/ extractArchive \/ InstallStaged \/ Promote => cmd.pc \in InstallPcs
  BY DEF Acquire, Fetch, VerifySHA256, extractArchive, InstallStaged, Promote, At, InstallPcs
<1> QED BY <1>1, <1>2, <1>3, <1>4, <1>5, <1>6, <1>7 DEF InstallStep

\* What becomes of the command: it ends, its next stage begins, or it steps on.
LEMMA OutcomeIs ==
  ASSUME BootTypes, CmdFits, Outcome, pin' = pin, cmd.kind = "bootstrap", cmd.pc \in ToolPcs
  PROVE  /\ CmdFits' /\ cmd' \in CmdRecord
         /\ \/ cmd' = Idle /\ last' = "failed"
            \/ cmd' = Idle /\ last' = "ok" /\ cmd.stage = Len(Stages) /\ Stage \in Tools /\ cmd.pc \in {"stage", "cleanup"}
            \/ Moves /\ Stage \in Tools /\ cmd.pc \in {"stage", "cleanup"}
            \/ Steps({"stage"} \cup InstallPcs) /\ cmd'.attempt = cmd.attempt /\ cmd'.clean = cmd.clean
<1>0. ~At("idle") /\ "pins" # "idle"
  BY DEF ToolPcs, InstallPcs, At
<1>1. CASE cmd' = Idle /\ last' = "failed"
  BY <1>1, FitsIdle, IdleIs
<1>2. CASE NextStage /\ Stage \in Tools /\ cmd.pc \in {"stage", "cleanup"}
  <2>1. cmd.pc \notin {"idle", "pins"}
    BY <1>2
  <2>2. CASE Moves
    BY <1>2, <2>1, <2>2, FitsMoves DEF Moves
  <2>3. CASE cmd.stage = Len(Stages) /\ cmd' = Idle /\ last' = "ok"
    BY <1>2, <2>3, FitsIdle, IdleIs
  <2> QED BY <1>0, <1>2, <2>2, <2>3, NextStageIs
<1>3. ASSUME NEW p \in {"stage"} \cup InstallPcs, cmd' = [cmd EXCEPT !.pc = p], last' = last, p \in InstallPcs => Stage \in Tools,
             At("pins") => \A t \in DOMAIN pin : pin[t] # Absent
      PROVE  CmdFits' /\ Steps({"stage"} \cup InstallPcs) /\ cmd'.attempt = cmd.attempt /\ cmd'.clean = cmd.clean
  <2>1. p \in Pcs \ {"idle"} /\ KindOf(p) = "bootstrap" /\ p \notin GoPcs \cup NpmPcs \cup WritePcs
    BY DEF Pcs, InstallPcs, KindOf, BuildPcs, WritePcs, GoPcs, NpmPcs
  <2>2. Steps({p}) /\ cmd'.attempt = cmd.attempt /\ cmd'.clean = cmd.clean
    BY <1>3, <2>1, GoesSteps
  <2>3. \A t \in DOMAIN pin' : pin'[t] # Absent
    BY <1>3 DEF CmdFits
  <2>4. CmdFits'
    BY <1>0, <1>3, <2>1, <2>2, <2>3, FitsSteps
  <2> QED BY <2>1, <2>2, <2>4, <1>3 DEF Steps
<1>4. CASE cmd' = [cmd EXCEPT !.pc = "swap", !.backup = install[Dir(Stage)]] /\ last' = last /\ Stage \in Tools /\ At("promote")
  <2>1. install[Dir(Stage)] \in InstallRecord
    BY <1>4, DirIn DEF BootTypes
  <2>2. "swap" \in Pcs \ {"idle"} /\ "swap" \in InstallPcs /\ KindOf("swap") = "bootstrap" /\ "swap" \notin GoPcs \cup NpmPcs \cup WritePcs
    BY DEF Pcs, InstallPcs, KindOf, BuildPcs, WritePcs, GoPcs, NpmPcs
  <2>3. Steps({"swap"}) /\ cmd'.attempt = cmd.attempt /\ cmd'.clean = cmd.clean
    BY <1>4, <2>1, <2>2 DEF BootTypes, CmdRecord, Steps
  <2>4. \A t \in DOMAIN pin' : pin'[t] # Absent
    BY <1>4 DEF CmdFits, At
  <2>5. CmdFits'
    BY <1>0, <1>4, <2>2, <2>3, <2>4, FitsSteps
  <2> QED BY <2>2, <2>3, <2>5 DEF Steps
<1>5. CASE \E p \in {"stage"} \cup InstallPcs :
             cmd' = [cmd EXCEPT !.pc = p] /\ last' = last /\ (p \in InstallPcs => Stage \in Tools)
             /\ (At("pins") => \A t \in DOMAIN pin : pin[t] # Absent)
  <2>1. PICK p \in {"stage"} \cup InstallPcs :
             cmd' = [cmd EXCEPT !.pc = p] /\ last' = last /\ (p \in InstallPcs => Stage \in Tools)
             /\ (At("pins") => \A t \in DOMAIN pin : pin[t] # Absent)
    BY <1>5
  <2>2. CmdFits' /\ Steps({"stage"} \cup InstallPcs) /\ cmd'.attempt = cmd.attempt /\ cmd'.clean = cmd.clean
    BY <2>1, <1>3
  <2> QED BY <2>2 DEF Steps
<1> QED BY <1>1, <1>2, <1>4, <1>5 DEF Outcome

\* Types survive the steps of an install.
LEMMA InstallTypes ==
  ASSUME BootTypes, CmdFits, InstallStep
  PROVE  BootTypes' /\ CmdFits'
<1>1. UNCHANGED InstallVars /\ cmd.kind = "bootstrap" /\ cmd.pc \in ToolPcs /\ ~At("idle") /\ Outcome
  BY InstallStepIs
<1>2. CmdFits' /\ cmd' \in CmdRecord /\ last' \in {"failed", "ok", last}
  <2>1. pin' = pin
    BY <1>1 DEF InstallVars
  <2> QED BY <1>1, <2>1, OutcomeIs DEF Moves, Steps
<1>3. Acquire \/ Fetch \/ VerifySHA256 \/ ExtractVerified \/ PromoteAside \/ Promote \/ RemoveBackup => Stage \in Tools /\ cmd.pc \in InstallPcs
  BY DEF Acquire, Fetch, VerifySHA256, ExtractVerified, PromoteAside, Promote, RemoveBackup, CmdFits, At, InstallPcs
<1>4. install' \in [Tools \X (0..MaxPin) -> InstallRecord]
  <2>1. CASE PromoteAside
    <3>1. NoInstall \in InstallRecord
      BY BootBounds DEF NoInstall, InstallRecord, Absent
    <3> QED BY <2>1, <3>1, <1>3 DEF PromoteAside, BootTypes
  <2>2. CASE Promote
    <3>1. [manifest |-> pin[Stage], content |-> pin[Stage]] \in InstallRecord
      BY <2>2, <1>3, DirIn, BootBounds DEF InstallRecord
    <3> QED BY <2>2, <3>1, <1>3 DEF Promote, BootTypes
  <2>3. CASE ~PromoteAside /\ ~Promote
    <3>1. install' = install
      BY <2>3 DEF InstallStep, readBootstrapManifest, installPin, files, Acquire, Fetch, VerifySHA256, ExtractVerified,
             extractArchive, InstallStaged, RemoveBackup
    <3> QED BY <3>1 DEF BootTypes
  <2> QED BY <2>1, <2>2, <2>3
<1>5. cache' \in [Tools \X Pins -> {"absent", "good", "bad"}]
  <2>1. CASE Acquire
    BY <2>1 DEF Acquire, BootTypes
  <2>2. CASE VerifySHA256
    BY <2>2 DEF VerifySHA256, BootTypes
  <2>3. CASE ~Acquire /\ ~VerifySHA256
    <3>1. cache' = cache
      BY <2>3 DEF InstallStep, readBootstrapManifest, installPin, files, Fetch, ExtractVerified,
             extractArchive, InstallStaged, PromoteAside, Promote, RemoveBackup
    <3> QED BY <3>1 DEF BootTypes
  <2> QED BY <2>1, <2>2, <2>3
<1>6. litter' \subseteq {"partial", "staging", "backup"}
  <2>1. litter' \subseteq litter \cup {"partial", "staging", "backup"}
    BY DEF InstallStep, readBootstrapManifest, installPin, files, Acquire, Fetch, VerifySHA256, ExtractVerified,
             extractArchive, InstallStaged, PromoteAside, Promote, RemoveBackup
  <2> QED BY <2>1 DEF BootTypes
<1>7. UNCHANGED <<pin, golock, gosrc, gobin, signature, space, used>>
  BY <1>1 DEF InstallVars
<1> QED BY <1>2, <1>4, <1>5, <1>6, <1>7 DEF BootTypes

-----------------------------------------------------------------------------
\* Stages that are over

\* What a stage leaves is what the stages before it left, and its own.
LEMMA PassedMoves ==
  ASSUME BootTypes, CmdFits, ~At("idle"), Moves
  PROVE  \A p : Passed(p)' <=> Passed(p) \/ Stage = p
<1>1. cmd.stage \in 1..Len(Stages) /\ cmd'.stage = cmd.stage + 1 /\ Len(Stages) \in Nat
  BY StageIn, BootBounds DEF Moves
<1> QED BY <1>1 DEF Passed, Stage

\* After the last stage all are over.
LEMMA AllPassed ==
  ASSUME BootTypes, CmdFits, ~At("idle"), cmd.stage = Len(Stages), NEW p \in {"gophase", "frontend"}
  PROVE  Passed(p) \/ Stage = p
<1>1. cmd.stage \in 1..Len(Stages) /\ Len(Stages) \in Nat
  BY StageIn, BootBounds
<1>2. PICK i \in 1..Len(Stages) : Stages[i] = p
  BY BootBounds
<1> QED BY <1>1, <1>2 DEF Passed, Stage

\* A stage is not over while it goes on.
LEMMA NotPassed ==
  ASSUME BootTypes, CmdFits, ~At("idle")
  PROVE  ~Passed(Stage)
<1>1. cmd.stage \in 1..Len(Stages) /\ Len(Stages) \in Nat
  BY StageIn, BootBounds
<1> QED BY <1>1, BootBounds DEF Passed, Stage

\* No tool is called like a phase.
LEMMA ToolsAreNoPhases == Tools \cap {"gophase", "goinstall", "frontend", "linear"} = {}
BY BootBounds DEF Phases, Spaces

\* An install leaves what it does not install as it is.
LEMMA InstallElsewhere ==
  ASSUME BootTypes, BootInv, InstallStep
  PROVE  /\ VersionsCounted' /\ Warm' /\ ManifestIsPast' /\ Wiped' /\ Recorded'
         /\ LocksKept' /\ PassedIsCurrent' /\ SuccessIsCurrent'
<1>1. /\ UNCHANGED InstallVars /\ cmd.kind = "bootstrap" /\ cmd.pc \in ToolPcs /\ ~At("idle") /\ Outcome
      /\ CmdFits /\ cmd \in CmdRecord /\ last = "none"
  BY InstallStepIs DEF BootInv, CmdFits, BootTypes
<1>2. UNCHANGED <<pin, golock, gosrc, modcache, signature, space, root, pinned, touched, torn, used>>
  BY <1>1 DEF InstallVars
<1>3. \/ cmd' = Idle /\ last' = "failed"
      \/ cmd' = Idle /\ last' = "ok" /\ cmd.stage = Len(Stages) /\ Stage \in Tools /\ cmd.pc \in {"stage", "cleanup"}
      \/ Moves /\ Stage \in Tools /\ cmd.pc \in {"stage", "cleanup"}
      \/ Steps({"stage"} \cup InstallPcs) /\ cmd'.attempt = cmd.attempt /\ cmd'.clean = cmd.clean
  BY <1>1, <1>2, OutcomeIs
<1>4. cmd'.pc \in {"idle", "stage"} \cup InstallPcs
  BY <1>3, IdleIs DEF Moves, Steps
<1>5. cmd'.pc \notin GoPcs \cup NpmPcs \cup BuildPcs \cup WritePcs /\ cmd.pc \notin GoPcs \cup NpmPcs
  BY <1>1, <1>4 DEF ToolPcs, InstallPcs, GoPcs, NpmPcs, BuildPcs, WritePcs
<1>6. VersionsCounted'
  BY <1>2, <1>5 DEF BootInv, VersionsCounted, UpTo
<1>7. Warm'
  BY <1>2, <1>5 DEF BootInv, Warm, At, GoPcs
<1>8. ManifestIsPast'
  BY <1>2 DEF BootInv, ManifestIsPast
<1>9. Wiped' /\ Recorded'
  <2>1. ~(cmd.attempt > 0)
    BY <1>5 DEF BootInv, Wiped, At, NpmPcs
  <2>2. ~(cmd'.attempt > 0)
    BY <1>3, <2>1, IdleIs DEF Moves
  <2> QED BY <1>2, <1>5, <2>2 DEF BootInv, Wiped, Recorded, At, NpmPcs, BuildPcs, Current
<1>10. LocksKept'
  <2>1. At("idle")' \/ cmd'.found = cmd.found
    BY <1>3, IdleIs DEF At, Moves, Steps
  <2>2. "download" \in GoPcs
    BY DEF GoPcs
  <2> QED BY <1>1, <1>2, <1>5, <2>1, <2>2 DEF BootInv, LocksKept, At
<1>11. ASSUME NEW p \in {"gophase", "frontend"}, cmd'.kind = "bootstrap", Passed(p)'
       PROVE  Passed(p)
  <2>1. CASE Moves /\ Stage \in Tools
    BY <1>1, <1>11, <2>1, PassedMoves, ToolsAreNoPhases
  <2>2. CASE Steps({"stage"} \cup InstallPcs)
    BY <1>11, <2>2 DEF Passed, Steps
  <2> QED BY <1>3, <1>11, <2>1, <2>2, IdleIs
<1>12. PassedIsCurrent'
  BY <1>1, <1>2, <1>5, <1>11 DEF BootInv, PassedIsCurrent, At, GoPcs, BuildPcs, Current
<1>13. SuccessIsCurrent'
  <2>1. CASE last' = "ok"
    <3>1. cmd.stage = Len(Stages) /\ Stage \in Tools
      BY <1>1, <1>3, <2>1 DEF Moves, Steps
    <3>2. Passed("gophase") /\ Passed("frontend")
      BY <1>1, <3>1, AllPassed, ToolsAreNoPhases
    <3> QED BY <1>1, <1>2, <2>1, <3>2 DEF BootInv, PassedIsCurrent, SuccessIsCurrent, Current
  <2>2. CASE last' # "ok"
    BY <1>1, <1>3, <2>2 DEF SuccessIsCurrent, Moves, Steps
  <2> QED BY <2>1, <2>2
<1> QED BY <1>6, <1>7, <1>8, <1>9, <1>10, <1>12, <1>13

\* An install changes the directory of its own tool.
LEMMA InstallWhere ==
  ASSUME BootTypes, CmdFits, InstallStep, NEW d, d # Dir(Stage)
  PROVE  d \in Tools \X (0..MaxPin) => install'[d] = install[d]
BY DEF BootTypes, InstallStep, readBootstrapManifest, installPin, files, Acquire, Fetch, VerifySHA256, ExtractVerified,
       extractArchive, InstallStaged, PromoteAside, Promote, RemoveBackup

\* Only the two renames change what is installed.
LEMMA InstallAsideOrIn ==
  ASSUME BootTypes, CmdFits, InstallStep
  PROVE  PromoteAside \/ Promote \/ install' = install
BY DEF InstallStep, readBootstrapManifest, installPin, files, Acquire, Fetch, VerifySHA256, ExtractVerified,
       extractArchive, InstallStaged, RemoveBackup

\* A tool's stage is over when it was found installed, or was installed.
LEMMA NextByInstall ==
  ASSUME BootTypes, CmdFits, InstallStep, Moves
  PROVE  install' = install /\ (InstalledMatches(Dir(Stage), pin[Stage]) \/ RemoveBackup)
<1>1. cmd \in CmdRecord /\ cmd'.stage = cmd.stage + 1 /\ cmd.stage \in Nat
  BY BootBounds DEF BootTypes, Moves, CmdRecord
<1>2. ASSUME NEW p, cmd' = [cmd EXCEPT !.pc = p] PROVE FALSE
  BY <1>1, <1>2 DEF CmdRecord
<1>3. ASSUME NEW x, cmd' = [cmd EXCEPT !.pc = "swap", !.backup = x] PROVE FALSE
  BY <1>1, <1>3 DEF CmdRecord
<1>4. cmd' # Idle
  BY IdleIs, <1>1
<1>5. ~readBootstrapManifest /\ ~PromoteAside
  BY <1>2, <1>3, <1>4 DEF readBootstrapManifest, PromoteAside, End
<1>6. ~Acquire /\ ~Fetch /\ ~VerifySHA256 /\ ~extractArchive /\ ~InstallStaged /\ ~Promote
  BY <1>2 DEF Acquire, Fetch, VerifySHA256, extractArchive, InstallStaged, Promote, Goes
<1>7. ~ExtractVerified
  BY <1>2, <1>4 DEF ExtractVerified, Goes, End
<1>8. installPin => InstalledMatches(Dir(Stage), pin[Stage]) /\ install' = install
  BY <1>2 DEF installPin, files
<1>9. RemoveBackup => install' = install
  BY DEF RemoveBackup
<1> QED BY <1>5, <1>6, <1>7, <1>8, <1>9 DEF InstallStep

\* The tools of the stages that are over stay as they are.
LEMMA InstallReady == ASSUME BootTypes, BootInv, InstallStep PROVE ToolsReady'
<1>1. /\ UNCHANGED InstallVars /\ cmd.kind = "bootstrap" /\ cmd.pc \in ToolPcs /\ ~At("idle") /\ Outcome
      /\ CmdFits /\ cmd \in CmdRecord
  BY InstallStepIs DEF BootInv, BootTypes
<1>2. pin' = pin /\ touched' = touched
  BY <1>1 DEF InstallVars
<1>3. \/ cmd' = Idle
      \/ Moves /\ Stage \in Tools /\ cmd.pc \in {"stage", "cleanup"}
      \/ Steps({"stage"} \cup InstallPcs)
  BY <1>1, <1>2, OutcomeIs
<1>4. cmd.stage \in 1..Len(Stages) /\ Len(Stages) \in Nat
  BY <1>1, StageIn, BootBounds
<1>5. \A t : Dir(t)' = Dir(t)
  BY <1>2 DEF Dir
<1>6. SUFFICES ASSUME cmd'.kind = "bootstrap", "tools" \notin touched
               PROVE  /\ \A i \in 1..(cmd'.stage - 1) : Stages[i] \in Tools => install'[Dir(Stages[i])].content = pin[Stages[i]]
                      /\ At("cleanup")' => install'[Dir(Stage')].content = pin[Stage']
  BY <1>2, <1>5 DEF ToolsReady
<1>7. ASSUME NEW i \in 1..(cmd.stage - 1), Stages[i] \in Tools
      PROVE  install'[Dir(Stages[i])].content = pin[Stages[i]]
  <2>1. Stages[i] # Stage
    BY <1>4, BootBounds DEF Stage
  <2>2. Dir(Stages[i]) # Dir(Stage) /\ Dir(Stages[i]) \in Tools \X (0..MaxPin)
    BY <1>7, <2>1, DirIn DEF Dir
  <2> QED BY <1>1, <1>6, <1>7, <2>2, InstallWhere DEF BootInv, ToolsReady
<1>8. CASE cmd' = Idle
  BY <1>6, <1>8, IdleIs
<1>9. CASE Moves /\ Stage \in Tools
  <2>1. install'[Dir(Stage)].content = pin[Stage]
    <3>1. RemoveBackup => At("cleanup")
      BY DEF RemoveBackup
    <3> QED BY <1>1, <1>6, <1>9, <3>1, NextByInstall DEF BootInv, ToolsReady, InstalledMatches
  <2>2. cmd'.stage - 1 = cmd.stage /\ cmd'.pc = "stage"
    BY <1>4, <1>9 DEF Moves
  <2>3. ASSUME NEW i \in 1..cmd.stage, Stages[i] \in Tools
        PROVE  install'[Dir(Stages[i])].content = pin[Stages[i]]
    <3>1. CASE i = cmd.stage
      BY <2>1, <3>1 DEF Stage
    <3>2. CASE i # cmd.stage
      BY <1>4, <1>7, <2>3, <3>2
    <3> QED BY <3>1, <3>2
  <2> QED BY <2>2, <2>3 DEF At
<1>10. CASE Steps({"stage"} \cup InstallPcs)
  <2>1. cmd'.stage = cmd.stage /\ Stage' = Stage
    BY <1>10 DEF Steps, Stage
  <2>2. ASSUME cmd'.pc = "cleanup" PROVE install'[Dir(Stage)].content = pin[Stage]
    <3>1. CASE Promote
      <4>1. Stage \in Tools
        BY <1>1, <3>1 DEF Promote, CmdFits, At, InstallPcs
      <4> QED BY <3>1, <4>1, DirIn DEF Promote, BootTypes
    <3>2. cmd' # [cmd EXCEPT !.pc = "swap", !.backup = install[Dir(Stage)]]
      BY <2>2, <1>1 DEF CmdRecord
    <3>3. \A p : p # "cleanup" => cmd' # [cmd EXCEPT !.pc = p]
      BY <2>2, <1>1 DEF CmdRecord
    <3>4. cmd' # Idle
      BY <2>2, IdleIs
    <3>5. ~installPin /\ ~RemoveBackup /\ ~readBootstrapManifest
      <4>1. ~NextStage
        BY <1>1, <1>4, <2>1, <3>4, NextStageIs DEF Moves
      <4> QED BY <3>3, <3>4, <4>1 DEF installPin, RemoveBackup, ExpectExecutable, readBootstrapManifest, End
    <3>6. ~Acquire /\ ~Fetch /\ ~VerifySHA256 /\ ~extractArchive /\ ~InstallStaged /\ ~ExtractVerified /\ ~PromoteAside
      BY <3>2, <3>3, <3>4 DEF Acquire, Fetch, VerifySHA256, extractArchive, InstallStaged, ExtractVerified, PromoteAside, Goes, End
    <3> QED BY <3>1, <3>5, <3>6 DEF InstallStep
  <2> QED BY <1>7, <2>1, <2>2 DEF At
<1> QED BY <1>3, <1>8, <1>9, <1>10

\* An install is moved in only after what was there is moved aside.
LEMMA SwapByAside ==
  ASSUME BootTypes, BootInv, InstallStep, cmd'.pc = "swap"
  PROVE  PromoteAside
<1>1. ~At("idle") /\ CmdFits /\ cmd \in CmdRecord
  BY InstallStepIs DEF BootInv, BootTypes
<1>2. ~NextStage
  BY <1>1, IdleIs, NextStageIs DEF Moves
<1>3. \A p : p # "swap" => cmd' # [cmd EXCEPT !.pc = p]
  BY <1>1 DEF CmdRecord
<1> QED BY <1>2, <1>3, IdleIs DEF InstallStep, readBootstrapManifest, installPin, ExpectExecutable, Acquire, Fetch, VerifySHA256,
           ExtractVerified, extractArchive, InstallStaged, Promote, RemoveBackup, Goes, End

\* What was installed is installed, or moved aside.
LEMMA InstallKept == ASSUME BootTypes, BootInv, InstallStep PROVE InstallsKept'
<1>1. /\ UNCHANGED InstallVars /\ cmd.kind = "bootstrap" /\ cmd.pc \in ToolPcs /\ ~At("idle") /\ Outcome
      /\ CmdFits /\ cmd \in CmdRecord
  BY InstallStepIs DEF BootInv, BootTypes
<1>2. pin' = pin
  BY <1>1 DEF InstallVars
<1>3. cmd' = Idle \/ cmd'.installed = cmd.installed
  BY <1>1, <1>2, OutcomeIs DEF Moves, Steps
<1>4. SUFFICES ASSUME cmd'.installed = cmd.installed, NEW d \in cmd.installed
               PROVE  IF At("swap")' /\ d = Dir(Stage)' THEN cmd'.backup # NoInstall ELSE install'[d] # NoInstall
  BY <1>3, IdleIs DEF InstallsKept
<1>5. d \in Tools \X (0..MaxPin) /\ (IF At("swap") /\ d = Dir(Stage) THEN cmd.backup # NoInstall ELSE install[d] # NoInstall)
  BY DEF BootInv, InstallsKept, BootTypes, CmdRecord
<1>6. CASE PromoteAside
  <2>1. cmd'.pc = "swap" /\ cmd'.backup = install[Dir(Stage)] /\ cmd'.stage = cmd.stage /\ cmd.pc = "promote"
    BY <1>1, <1>6 DEF PromoteAside, CmdRecord, At
  <2>2. Dir(Stage)' = Dir(Stage)
    BY <1>2, <2>1 DEF Stage, Dir
  <2> QED BY <1>5, <2>1, <2>2, <1>1, InstallWhere DEF At
<1>7. CASE Promote
  <2>1. Stage \in Tools /\ pin[Stage] \in Pins
    BY <1>1, <1>7, PinsThere DEF Promote, CmdFits, At, InstallPcs
  <2>2. ~At("swap")'
    BY <1>1, <1>7 DEF Promote, Goes, CmdRecord, At
  <2>3. CASE d = Dir(Stage)
    <3>1. install'[d] = [manifest |-> pin[Stage], content |-> pin[Stage]]
      BY <1>5, <1>7, <2>3 DEF Promote, BootTypes
    <3> QED BY <2>1, <2>2, <3>1 DEF NoInstall, Absent, Pins
  <2>4. CASE d # Dir(Stage)
    BY <1>1, <1>5, <2>2, <2>4, InstallWhere
  <2> QED BY <2>3, <2>4
<1>8. CASE ~PromoteAside /\ ~Promote
  <2>1. install' = install /\ ~At("swap")
    BY <1>8 DEF InstallStep, readBootstrapManifest, installPin, files, Acquire, Fetch, VerifySHA256, ExtractVerified,
           extractArchive, InstallStaged, RemoveBackup, At
  <2>2. cmd'.pc # "swap"
    BY <1>8, SwapByAside
  <2> QED BY <1>5, <2>1, <2>2 DEF At
<1> QED BY <1>6, <1>7, <1>8

\* An install clears away what it no longer needs.
LEMMA InstallLitter == ASSUME BootTypes, BootInv, InstallStep PROVE LitterIsOwn'
<1>1. /\ UNCHANGED InstallVars /\ cmd.kind = "bootstrap" /\ cmd.pc \in ToolPcs /\ ~At("idle") /\ Outcome
      /\ CmdFits /\ cmd \in CmdRecord /\ litter \subseteq cmd.litter \cup OwnLitter
  BY InstallStepIs DEF BootInv, BootTypes, LitterIsOwn
<1>2. pin' = pin
  BY <1>1 DEF InstallVars
<1>3. cmd' = Idle \/ (cmd'.litter = cmd.litter /\ (Moves \/ Steps({"stage"} \cup InstallPcs)))
  BY <1>1, <1>2, OutcomeIs DEF Moves, Steps
<1>4. ASSUME cmd'.pc = "swap", cmd'.backup # NoInstall PROVE "backup" \in litter'
  <2>1. PromoteAside
    BY <1>4, SwapByAside
  <2>2. cmd'.backup = install[Dir(Stage)]
    BY <1>1, <2>1 DEF PromoteAside, CmdRecord
  <2> QED BY <1>4, <2>1, <2>2 DEF PromoteAside
<1>5. SUFFICES ASSUME cmd' # Idle, cmd'.litter = cmd.litter, Moves \/ Steps({"stage"} \cup InstallPcs)
               PROVE  litter' \subseteq cmd.litter \cup OwnLitter'
  BY <1>4, <1>3, IdleIs DEF LitterIsOwn, At
<1>6. ASSUME NEW p, Goes(p) PROVE cmd'.pc = p
  BY <1>1, <1>6 DEF Goes, CmdRecord
<1>7. CASE readBootstrapManifest \/ installPin \/ Acquire
  <2>1. litter' = litter /\ OwnLitter = {}
    BY <1>7 DEF readBootstrapManifest, installPin, Acquire, files, OwnLitter, At
  <2> QED BY <1>1, <2>1
<1>8. CASE Fetch
  BY <1>1, <1>6, <1>8 DEF Fetch, OwnLitter, At
<1>9. CASE VerifySHA256
  BY <1>1, <1>6, <1>9 DEF VerifySHA256, OwnLitter, At
<1>10. CASE ExtractVerified
  BY <1>1, <1>5, <1>6, <1>10 DEF ExtractVerified, OwnLitter, At, End
<1>11. CASE extractArchive
  BY <1>1, <1>6, <1>11 DEF extractArchive, OwnLitter, At
<1>12. CASE InstallStaged
  BY <1>1, <1>6, <1>12 DEF InstallStaged, OwnLitter, At
<1>13. CASE PromoteAside
  <2>1. cmd'.pc = "swap" /\ cmd.pc = "promote"
    BY <1>1, <1>13 DEF PromoteAside, CmdRecord, At
  <2>2. litter' \subseteq litter \cup {"backup"}
    BY <1>13 DEF PromoteAside
  <2> QED BY <1>1, <2>1, <2>2 DEF OwnLitter, At
<1>14. CASE Promote
  BY <1>1, <1>6, <1>14 DEF Promote, OwnLitter, At
<1>15. CASE RemoveBackup
  BY <1>1, <1>15 DEF RemoveBackup, OwnLitter, At
<1> QED BY <1>7, <1>8, <1>9, <1>10, <1>11, <1>12, <1>13, <1>14, <1>15 DEF InstallStep

\* An archive is unpacked that was verified.
LEMMA InstallClean == ASSUME BootTypes, BootInv, InstallStep PROVE CleanGoesOn'
<1>1. /\ UNCHANGED InstallVars /\ cmd.kind = "bootstrap" /\ cmd.pc \in ToolPcs /\ ~At("idle") /\ Outcome
      /\ CmdFits /\ cmd \in CmdRecord /\ (cmd.attempt > 0 => ~cmd.clean)
  BY InstallStepIs DEF BootInv, BootTypes, CleanGoesOn
<1>2. pin' = pin
  BY <1>1 DEF InstallVars
<1>3. \/ cmd' = Idle
      \/ Moves
      \/ Steps({"stage"} \cup InstallPcs) /\ cmd'.attempt = cmd.attempt /\ cmd'.clean = cmd.clean
  BY <1>1, <1>2, OutcomeIs
<1>4. cmd'.attempt > 0 => ~cmd'.clean
  BY <1>1, <1>3, IdleIs DEF Moves
<1>5. ASSUME cmd'.pc = "extract" PROVE cache'[Archive'] = "good"
  <2>1. Archive' = Archive
    <3>1. cmd'.stage = cmd.stage
      BY <1>3, <1>5, IdleIs DEF Moves, Steps
    <3> QED BY <1>2, <3>1 DEF Archive, Stage
  <2>2. cmd' # Idle /\ ~Moves
    BY <1>5, IdleIs DEF Moves
  <2>3. ~NextStage
    BY <1>1, <2>2, NextStageIs
  <2>4. \A p : p # "extract" => cmd' # [cmd EXCEPT !.pc = p]
    BY <1>1, <1>5 DEF CmdRecord
  <2>5. cmd' # [cmd EXCEPT !.pc = "swap", !.backup = install[Dir(Stage)]]
    BY <1>1, <1>5 DEF CmdRecord
  <2>6. CASE Acquire
    BY <2>1, <2>4, <2>6 DEF Acquire, Goes
  <2>7. CASE VerifySHA256
    <3>1. Stage \in Tools
      BY <1>1, <2>7 DEF VerifySHA256, CmdFits, At, InstallPcs
    <3>2. pin[Stage] \in Pins
      BY <1>1, <2>7, <3>1, PinsThere DEF VerifySHA256, At
    <3>3. Archive \in Tools \X Pins
      BY <3>1, <3>2 DEF Archive
    <3> QED BY <2>1, <2>7, <3>3 DEF VerifySHA256, BootTypes
  <2>8. ~readBootstrapManifest /\ ~installPin /\ ~Fetch /\ ~ExtractVerified /\ ~extractArchive /\ ~InstallStaged
    BY <2>2, <2>3, <2>4 DEF readBootstrapManifest, installPin, ExpectExecutable, Fetch, ExtractVerified, extractArchive, InstallStaged, Goes, End
  <2>9. ~PromoteAside /\ ~Promote /\ ~RemoveBackup
    BY <2>2, <2>3, <2>4, <2>5 DEF PromoteAside, Promote, RemoveBackup, ExpectExecutable, Goes, End
  <2> QED BY <2>6, <2>7, <2>8, <2>9 DEF InstallStep
<1> QED BY <1>4, <1>5 DEF CleanGoesOn

-----------------------------------------------------------------------------
\* What a step leaves alone

\* A step that installs nothing.
LEMMA NoInstalling ==
  ASSUME BootTypes, BootInv, ~At("idle"), cmd.pc \notin InstallPcs, UNCHANGED <<install, litter, touched>>,
         \/ cmd' = Idle
         \/ pin' = pin /\ Moves /\ Stage \notin Tools
         \/ \E p : Steps({p}) /\ p \notin InstallPcs /\ (cmd'.attempt > 0 => ~cmd'.clean) /\ (pin' = pin \/ cmd.kind # "bootstrap")
  PROVE  ToolsReady' /\ InstallsKept' /\ LitterIsOwn' /\ CleanGoesOn'
<1>1. /\ CmdFits /\ cmd \in CmdRecord /\ (cmd.attempt > 0 => ~cmd.clean) /\ cmd.stage \in 1..Len(Stages) /\ Len(Stages) \in Nat
      /\ litter \subseteq cmd.litter \cup OwnLitter /\ OwnLitter = {} /\ ~At("swap") /\ ToolsReady /\ InstallsKept
  <2>1. CmdFits /\ cmd \in CmdRecord /\ (cmd.attempt > 0 => ~cmd.clean) /\ litter \subseteq cmd.litter \cup OwnLitter /\ ToolsReady /\ InstallsKept
    BY DEF BootInv, BootTypes, LitterIsOwn, CleanGoesOn
  <2>2. OwnLitter = {} /\ ~At("swap")
    BY DEF OwnLitter, At, InstallPcs
  <2> QED BY <2>1, <2>2, StageIn, BootBounds
<1>2. CASE cmd' = Idle
  BY <1>2, IdleIs DEF ToolsReady, InstallsKept, LitterIsOwn, CleanGoesOn, At
<1>3. CASE pin' = pin /\ Moves /\ Stage \notin Tools
  <2>1. cmd'.pc = "stage" /\ cmd'.stage - 1 = cmd.stage /\ cmd'.kind = cmd.kind /\ cmd'.installed = cmd.installed
        /\ cmd'.litter = cmd.litter /\ cmd'.attempt = 0
    BY <1>1, <1>3 DEF Moves
  <2>2. ASSUME cmd.kind = "bootstrap", "tools" \notin touched, NEW i \in 1..cmd.stage, Stages[i] \in Tools
        PROVE  install[Dir(Stages[i])].content = pin[Stages[i]]
    <3>1. i \in 1..(cmd.stage - 1)
      BY <1>1, <1>3, <2>2 DEF Stage
    <3> QED BY <1>1, <2>2, <3>1 DEF ToolsReady
  <2>3. \A t : Dir(t)' = Dir(t)
    BY <1>3 DEF Dir
  <2>4. ToolsReady'
    BY <1>3, <2>1, <2>2, <2>3 DEF ToolsReady, At
  <2> QED BY <1>1, <2>1, <2>4 DEF InstallsKept, LitterIsOwn, CleanGoesOn, At
<1>4. ASSUME NEW p, Steps({p}), p \notin InstallPcs, cmd'.attempt > 0 => ~cmd'.clean, pin' = pin \/ cmd.kind # "bootstrap"
      PROVE  ToolsReady' /\ InstallsKept' /\ LitterIsOwn' /\ CleanGoesOn'
  <2>1. cmd'.pc = p /\ cmd'.stage = cmd.stage /\ cmd'.kind = cmd.kind /\ cmd'.installed = cmd.installed
        /\ cmd'.litter = cmd.litter
    BY <1>4 DEF Steps
  <2>2. p \notin {"cleanup", "swap", "extract"}
    BY <1>4 DEF InstallPcs
  <2>3. ToolsReady'
    BY <1>1, <1>4, <2>1, <2>2 DEF ToolsReady, Dir, At
  <2> QED BY <1>1, <1>4, <2>1, <2>2, <2>3 DEF InstallsKept, LitterIsOwn, CleanGoesOn, At
<1> QED BY <1>2, <1>3, <1>4

\* A step that touches no workspace.
LEMMA NoNpm ==
  ASSUME BootTypes, BootInv, UNCHANGED <<space, torn>>, cmd'.pc \notin {"npmbuild", "manifest", "distmanifest"},
         cmd'.attempt = 0 \/ (cmd'.attempt = cmd.attempt /\ ~At("ci"))
  PROVE  ManifestIsPast' /\ Wiped' /\ Recorded'
<1>1. ~(cmd'.attempt > 0)
  BY DEF BootInv, Wiped, BootTypes, CmdRecord, NpmAttempts
<1> QED BY <1>1 DEF BootInv, ManifestIsPast, Wiped, Recorded, Current, At

\* A step that leaves modules and signature alone.
LEMMA NoGo ==
  ASSUME BootInv, UNCHANGED <<signature, modcache, torn>>, cmd'.pc \notin GoPcs
  PROVE  Warm'
BY DEF BootInv, Warm, At, GoPcs

\* A step that edits nothing.
LEMMA NoVersions ==
  ASSUME BootInv, UNCHANGED <<golock, signature, used>>, cmd'.pc \notin GoPcs \cup WritePcs
  PROVE  VersionsCounted'
BY DEF BootInv, VersionsCounted, UpTo

\* Before the end of a command there is no result.
LEMMA NoResult == ASSUME last' \notin {"ok", "built"} PROVE SuccessIsCurrent'
BY DEF SuccessIsCurrent

\* Lock files the next step does not touch either.
LEMMA LocksStay ==
  ASSUME BootTypes, BootInv, ~At("idle"), UNCHANGED <<golock, space, touched>>, cmd.pc \notin GoPcs \cup NpmPcs \cup WritePcs,
         \/ cmd' = Idle
         \/ cmd'.pc \notin GoPcs \cup NpmPcs \cup WritePcs /\ cmd'.found = cmd.found
  PROVE  LocksKept'
<1>1. "download" \in GoPcs
  BY DEF GoPcs
<1> QED BY <1>1, IdleIs DEF BootInv, LocksKept, At

-----------------------------------------------------------------------------
\* The Go phase

\* go and npm change the shape of a lock file, not its version.
LEMMA WrittenIs ==
  ASSUME NEW lock \in GoLockRecord, NEW s \in Shapes
  PROVE  Written(lock, s) \in GoLockRecord /\ Written(lock, s).version = lock.version
BY DEF Written, GoLockRecord

\* The lock files are read (goLockBefore in runGoPhase).
LEMMA GoLockBeforeInv == ASSUME BootTypes, BootInv, GoLockBefore PROVE BootTypes' /\ BootInv'
<1>1. /\ cmd.pc = "stage" /\ Stage = "gophase" /\ cmd' = [cmd EXCEPT !.pc = "download", !.before = golock]
      /\ UNCHANGED <<pin, install, cache, golock, gosrc, gobin, modcache, signature, space, root, pinned, litter, last, touched, torn, used>>
      /\ cmd \in CmdRecord /\ CmdFits /\ golock \in GoLocks /\ last = "none" /\ cmd.kind = "bootstrap"
  BY DEF GoLockBefore, files, At, BootTypes, BootInv, CmdFits, KindOf, BuildPcs, WritePcs
<1>2. "download" \in Pcs \ {"idle"} /\ "download" \notin InstallPcs \cup NpmPcs \cup WritePcs /\ KindOf("download") = "bootstrap"
  BY DEF Pcs, GoPcs, InstallPcs, NpmPcs, WritePcs, KindOf, BuildPcs
<1>3. /\ Steps({"download"}) /\ cmd'.pc = "download" /\ cmd'.before = golock /\ cmd'.attempt = cmd.attempt /\ cmd'.clean = cmd.clean
      /\ cmd'.found = cmd.found /\ cmd'.stage = cmd.stage /\ cmd'.kind = cmd.kind
  BY <1>1, <1>2 DEF CmdRecord, Steps
<1>4. BootTypes'
  BY <1>1, <1>3 DEF BootTypes, Steps
<1>5. \A t \in DOMAIN pin : pin[t] # Absent
  BY <1>1 DEF CmdFits, At
<1>6. CmdFits'
  BY <1>1, <1>2, <1>3, <1>5, FitsSteps DEF BootInv, At
<1>7. ToolsReady' /\ InstallsKept' /\ LitterIsOwn' /\ CleanGoesOn'
  BY <1>1, <1>2, <1>3, NoInstalling DEF At, InstallPcs, BootInv, CleanGoesOn
<1>8. ManifestIsPast' /\ Wiped' /\ Recorded' /\ SuccessIsCurrent'
  BY <1>1, <1>3, NoNpm, NoResult DEF At
<1>9. VersionsCounted'
  BY <1>1, <1>2, <1>3 DEF BootInv, VersionsCounted, UpTo
<1>10. Warm'
  BY <1>1, <1>3 DEF BootInv, Warm, At
<1>11. LocksKept'
  BY <1>1, <1>2, <1>3 DEF BootInv, LocksKept, At, GoPcs, NpmPcs
<1>12. PassedIsCurrent'
  BY <1>1, <1>3 DEF BootInv, PassedIsCurrent, Passed, At, BuildPcs, Current
<1> QED BY <1>4, <1>6, <1>7, <1>8, <1>9, <1>10, <1>11, <1>12 DEF BootInv

\* The module cache is filled, and the lock files perhaps written to (go mod download).
LEMMA GoModDownloadInv ==
  ASSUME BootTypes, BootInv, NEW m \in Shapes, NEW s \in Shapes, GoModDownload(m, s)
  PROVE  BootTypes' /\ BootInv'
<1>1. /\ cmd.pc = "download" /\ cmd' = [cmd EXCEPT !.pc = "sign"]
      /\ modcache' = modcache \cup {golock.mod.version}
      /\ golock' = [mod |-> Written(golock.mod, m), sum |-> Written(golock.sum, s)]
      /\ UNCHANGED <<pin, install, cache, gosrc, gobin, signature, space, root, pinned, litter, last, touched, torn, used>>
      /\ cmd \in CmdRecord /\ CmdFits /\ golock \in GoLocks /\ last = "none" /\ cmd.kind = "bootstrap"
      /\ Stage = "gophase" /\ cmd.before \in GoLocks
  BY DEF GoModDownload, At, BootTypes, BootInv, CmdFits, KindOf, BuildPcs, WritePcs, GoPcs
<1>2. "sign" \in Pcs \ {"idle"} /\ "sign" \notin InstallPcs \cup NpmPcs \cup WritePcs /\ KindOf("sign") = "bootstrap"
  BY DEF Pcs, GoPcs, InstallPcs, NpmPcs, WritePcs, KindOf, BuildPcs
<1>3. /\ Steps({"sign"}) /\ cmd'.pc = "sign" /\ cmd'.before = cmd.before /\ cmd'.attempt = cmd.attempt /\ cmd'.clean = cmd.clean
      /\ cmd'.found = cmd.found /\ cmd'.stage = cmd.stage /\ cmd'.kind = cmd.kind
  BY <1>1, <1>2 DEF CmdRecord, Steps
<1>4. /\ golock' \in GoLocks
      /\ golock'.mod.version = golock.mod.version /\ golock'.sum.version = golock.sum.version
  <2>1. golock.mod \in GoLockRecord /\ golock.sum \in GoLockRecord
    BY <1>1 DEF GoLocks
  <2>2. Written(golock.mod, m) \in GoLockRecord /\ Written(golock.mod, m).version = golock.mod.version
    BY <2>1, WrittenIs
  <2>3. Written(golock.sum, s) \in GoLockRecord /\ Written(golock.sum, s).version = golock.sum.version
    BY <2>1, WrittenIs
  <2> QED BY <1>1, <2>2, <2>3 DEF GoLocks
<1>5. BootTypes'
  BY <1>1, <1>3, <1>4 DEF BootTypes, Steps
<1>6. CmdFits'
  <2>1. \A t \in DOMAIN pin : pin[t] # Absent
    BY <1>1 DEF CmdFits, At
  <2> QED BY <1>1, <1>2, <1>3, <2>1, FitsSteps DEF At
<1>7. ToolsReady' /\ InstallsKept' /\ LitterIsOwn' /\ CleanGoesOn'
  BY <1>1, <1>2, <1>3, NoInstalling DEF At, InstallPcs, BootInv, CleanGoesOn
<1>8. ManifestIsPast' /\ Wiped' /\ Recorded' /\ SuccessIsCurrent'
  BY <1>1, <1>3, NoNpm, NoResult DEF At
<1>9. VersionsCounted'
  BY <1>1, <1>2, <1>3, <1>4 DEF BootInv, VersionsCounted, UpTo, GoPcs
<1>10. Warm'
  BY <1>1, <1>3 DEF BootInv, Warm, At
<1>11. LocksKept'
  BY <1>1, <1>2, <1>3 DEF BootInv, LocksKept, At, GoPcs, NpmPcs
<1>12. ~Passed("gophase")
  BY <1>1, NotPassed DEF At
<1>13. PassedIsCurrent'
  BY <1>1, <1>3, <1>12 DEF BootInv, PassedIsCurrent, Passed, At, BuildPcs, Current
<1> QED BY <1>5, <1>6, <1>7, <1>8, <1>9, <1>10, <1>11, <1>13 DEF BootInv

\* The signature of what was read is written (goModLockSignature).
LEMMA GoModLockSignatureInv == ASSUME BootTypes, BootInv, GoModLockSignature PROVE BootTypes' /\ BootInv'
<1>1. /\ cmd.pc = "sign" /\ cmd' = [cmd EXCEPT !.pc = "project"] /\ signature' = cmd.before
      /\ UNCHANGED <<pin, install, cache, golock, gosrc, gobin, modcache, space, root, pinned, litter, last, touched, torn, used>>
      /\ cmd \in CmdRecord /\ CmdFits /\ last = "none" /\ cmd.kind = "bootstrap"
      /\ Stage = "gophase" /\ cmd.before \in GoLocks
  BY DEF GoModLockSignature, At, BootTypes, BootInv, CmdFits, KindOf, BuildPcs, WritePcs, GoPcs
<1>2. "project" \in Pcs \ {"idle"} /\ "project" \notin InstallPcs \cup NpmPcs \cup WritePcs /\ KindOf("project") = "bootstrap"
  BY DEF Pcs, GoPcs, InstallPcs, NpmPcs, WritePcs, KindOf, BuildPcs
<1>3. /\ Steps({"project"}) /\ cmd'.pc = "project" /\ cmd'.before = cmd.before /\ cmd'.attempt = cmd.attempt /\ cmd'.clean = cmd.clean
      /\ cmd'.found = cmd.found /\ cmd'.stage = cmd.stage /\ cmd'.kind = cmd.kind
  BY <1>1, <1>2 DEF CmdRecord, Steps
<1>4. BootTypes'
  BY <1>1, <1>3 DEF BootTypes, Steps
<1>5. CmdFits'
  <2>1. \A t \in DOMAIN pin : pin[t] # Absent
    BY <1>1 DEF CmdFits, At
  <2> QED BY <1>1, <1>2, <1>3, <2>1, FitsSteps DEF At
<1>6. ToolsReady' /\ InstallsKept' /\ LitterIsOwn' /\ CleanGoesOn'
  BY <1>1, <1>2, <1>3, NoInstalling DEF At, InstallPcs, BootInv, CleanGoesOn
<1>7. ManifestIsPast' /\ Wiped' /\ Recorded' /\ SuccessIsCurrent'
  BY <1>1, <1>3, NoNpm, NoResult DEF At
<1>8. VersionsCounted'
  BY <1>1, <1>2, <1>3 DEF BootInv, VersionsCounted, UpTo, GoPcs
<1>9. Warm'
  BY <1>1, <1>3 DEF BootInv, Warm, At
<1>10. LocksKept'
  BY <1>1, <1>2, <1>3 DEF BootInv, LocksKept, At, GoPcs, NpmPcs
<1>11. ~Passed("gophase")
  BY <1>1, NotPassed DEF At
<1>12. PassedIsCurrent'
  BY <1>1, <1>3, <1>11 DEF BootInv, PassedIsCurrent, Passed, At, BuildPcs, Current
<1> QED BY <1>4, <1>5, <1>6, <1>7, <1>8, <1>9, <1>10, <1>12 DEF BootInv

\* What the lock files are restored to.
LEMMA RestoreGoLockIs ==
  ASSUME BootTypes, BootInv, cmd.pc \in GoPcs, RestoreGoLock
  PROVE  /\ golock' \in GoLocks /\ UpTo(golock')
         /\ golock.mod = cmd.before.mod => golock' = cmd.before
         /\ golock'.mod = cmd.before.mod
<1>1. golock \in GoLocks /\ cmd.before \in GoLocks /\ UpTo(golock) /\ UpTo(cmd.before)
  BY DEF BootTypes, BootInv, CmdFits, VersionsCounted
<1> QED BY <1>1 DEF RestoreGoLock, GoLocks, UpTo

\* The daemon is built, and the lock files put back (runGoPhase).
LEMMA BuildProjectInv == ASSUME BootTypes, BootInv, BuildProject PROVE BootTypes' /\ BootInv'
<1>1. /\ cmd.pc = "project" /\ RestoreGoLock /\ pinned' = gosrc
      /\ \/ NextStage /\ golock.mod = cmd.before.mod
         \/ cmd' = Idle /\ last' = "failed"
      /\ UNCHANGED <<pin, install, cache, gosrc, gobin, modcache, signature, space, root, litter, touched, torn, used>>
      /\ cmd \in CmdRecord /\ CmdFits /\ last = "none" /\ cmd.kind = "bootstrap"
      /\ Stage = "gophase" /\ cmd.before \in GoLocks
  BY DEF BuildProject, End, At, BootTypes, BootInv, CmdFits, KindOf, BuildPcs, WritePcs, GoPcs
<1>2. cmd.pc \in GoPcs /\ cmd.pc \notin InstallPcs \cup NpmPcs \cup WritePcs /\ ~At("idle") /\ Stage \notin Tools
  BY <1>1, ToolsAreNoPhases DEF GoPcs, InstallPcs, NpmPcs, WritePcs, At
<1>3. /\ golock' \in GoLocks /\ UpTo(golock') /\ golock'.mod = cmd.before.mod
      /\ golock.mod = cmd.before.mod => golock' = cmd.before
  BY <1>1, <1>2, RestoreGoLockIs
<1>4. \/ cmd' = Idle /\ last' = "failed"
      \/ cmd' = Idle /\ last' = "ok" /\ cmd.stage = Len(Stages) /\ golock' = cmd.before
      \/ Moves /\ golock' = cmd.before
  BY <1>1, <1>2, <1>3, NextStageIs
<1>5. cmd' \in CmdRecord /\ cmd'.pc \in {"idle", "stage"} /\ cmd'.attempt = 0 /\ last' \in {"failed", "ok", "none"}
  BY <1>1, <1>4, IdleIs DEF Moves
<1>6. BootTypes'
  BY <1>1, <1>3, <1>5 DEF BootTypes
<1>7. CmdFits'
  BY <1>1, <1>2, <1>4, FitsIdle, FitsMoves DEF At
<1>8. ToolsReady' /\ InstallsKept' /\ LitterIsOwn' /\ CleanGoesOn'
  BY <1>1, <1>2, <1>4, NoInstalling
<1>9. ManifestIsPast' /\ Wiped' /\ Recorded'
  BY <1>1, <1>5, NoNpm
<1>10. VersionsCounted' /\ Warm'
  <2>1. cmd'.pc \notin GoPcs \cup WritePcs
    BY <1>5 DEF GoPcs, WritePcs
  <2> QED BY <1>1, <1>3, <2>1, NoGo DEF BootInv, VersionsCounted, UpTo
<1>11. LocksKept'
  <2>1. CASE Moves /\ golock' = cmd.before
    BY <1>1, <1>2, <2>1 DEF BootInv, LocksKept, At, GoPcs, NpmPcs, WritePcs, Moves
  <2>2. CASE cmd' = Idle
    BY <2>2, IdleIs DEF LocksKept, At
  <2> QED BY <1>4, <2>1, <2>2
<1>12. touched = {} /\ torn = {} => signature = cmd.before /\ (Passed("frontend") => space["frontend"].dist = Current("frontend"))
  BY <1>1 DEF BootInv, PassedIsCurrent, At
<1>13. PassedIsCurrent'
  <2>1. CASE Moves /\ golock' = cmd.before
    <3>1. Passed("frontend")' => Passed("frontend")
      BY <1>1, <1>2, <2>1, PassedMoves
    <3> QED BY <1>1, <1>5, <1>12, <2>1, <3>1 DEF PassedIsCurrent, At, BuildPcs, Current
  <2>2. CASE cmd' = Idle
    BY <2>2, IdleIs DEF PassedIsCurrent, At, BuildPcs
  <2> QED BY <1>4, <2>1, <2>2
<1>14. SuccessIsCurrent'
  <2>1. CASE last' = "ok"
    <3>1. cmd.stage = Len(Stages) /\ golock' = cmd.before
      BY <1>1, <1>4, <2>1 DEF Moves
    <3>2. Passed("frontend")
      BY <1>1, <1>2, <3>1, AllPassed
    <3> QED BY <1>1, <1>12, <2>1, <3>1, <3>2 DEF SuccessIsCurrent, Current
  <2> QED BY <1>5, <2>1, NoResult
<1> QED BY <1>6, <1>7, <1>8, <1>9, <1>10, <1>11, <1>13, <1>14 DEF BootInv

\* A stage that changes nothing the invariant is about, and is none it names.
LEMMA StageOverInv ==
  ASSUME BootTypes, BootInv, cmd.kind = "bootstrap", cmd.pc = "stage", NextStage, Stage \notin Tools,
         UNCHANGED <<pin, install, cache, golock, gosrc, modcache, signature, space, root, pinned, litter, touched, torn, used>>,
         gobin' \in 0..MaxPin, Stage # "gophase",
         Stage = "frontend" /\ touched = {} /\ torn = {} => space["frontend"].dist = Current("frontend")
  PROVE  BootTypes' /\ BootInv'
<1>1. /\ cmd \in CmdRecord /\ CmdFits /\ last = "none" /\ ~At("idle")
      /\ cmd.pc \notin GoPcs \cup NpmPcs \cup WritePcs \cup InstallPcs
  BY DEF BootInv, BootTypes, CmdFits, At, GoPcs, NpmPcs, WritePcs, InstallPcs
<1>2. \/ cmd' = Idle /\ last' = "ok" /\ cmd.stage = Len(Stages)
      \/ Moves
  BY <1>1, NextStageIs
<1>3. cmd' \in CmdRecord /\ cmd'.pc \in {"idle", "stage"} /\ cmd'.attempt = 0 /\ last' \in {"ok", "none"}
  BY <1>1, <1>2, IdleIs DEF Moves
<1>4. BootTypes'
  BY <1>3 DEF BootTypes
<1>5. CmdFits'
  BY <1>1, <1>2, FitsIdle, FitsMoves
<1>6. ToolsReady' /\ InstallsKept' /\ LitterIsOwn' /\ CleanGoesOn'
  BY <1>1, <1>2, NoInstalling
<1>7. cmd'.pc \notin GoPcs \cup NpmPcs \cup WritePcs
  BY <1>3 DEF GoPcs, NpmPcs, WritePcs
<1>8. ManifestIsPast' /\ Wiped' /\ Recorded' /\ VersionsCounted' /\ Warm'
  BY <1>3, <1>7, NoNpm, NoGo, NoVersions
<1>9. LocksKept'
  BY <1>1, <1>2, <1>7, LocksStay DEF Moves
<1>10. ASSUME touched = {}, torn = {}
       PROVE  /\ Passed("gophase") => pinned = gosrc /\ signature = golock
              /\ Passed("frontend") \/ Stage = "frontend" => space["frontend"].dist = Current("frontend")
  BY <1>10 DEF BootInv, PassedIsCurrent
<1>11. PassedIsCurrent'
  <2>1. CASE Moves
    <3>1. (Passed("frontend")' => Passed("frontend") \/ Stage = "frontend") /\ (Passed("gophase")' => Passed("gophase"))
      BY <1>1, <2>1, PassedMoves
    <3> QED BY <1>3, <1>10, <3>1 DEF PassedIsCurrent, At, BuildPcs, Current
  <2>2. CASE cmd' = Idle
    BY <2>2, IdleIs DEF PassedIsCurrent, At, BuildPcs
  <2> QED BY <1>2, <2>1, <2>2
<1>12. SuccessIsCurrent'
  <2>1. CASE last' = "ok"
    <3>1. cmd.stage = Len(Stages)
      BY <1>1, <1>2, <2>1 DEF Moves
    <3>2. Passed("gophase") /\ (Passed("frontend") \/ Stage = "frontend")
      BY <1>1, <3>1, AllPassed
    <3> QED BY <1>10, <2>1, <3>2 DEF SuccessIsCurrent, Current
  <2> QED BY <1>3, <2>1, NoResult
<1> QED BY <1>4, <1>5, <1>6, <1>8, <1>9, <1>11, <1>12 DEF BootInv

\* The optional tools (installGoInstallTools).
LEMMA GoInstallInv == ASSUME BootTypes, BootInv, installGoInstallTools PROVE BootTypes' /\ BootInv'
<1>1. /\ cmd.pc = "stage" /\ Stage = "goinstall" /\ NextStage /\ gobin' \in {gobin, 0, pin[Optional]}
      /\ UNCHANGED <<pin, install, cache, golock, gosrc, modcache, signature, space, root, pinned, litter, touched, torn, used>>
      /\ cmd.kind = "bootstrap"
  BY DEF installGoInstallTools, At, BootInv, CmdFits, KindOf, BuildPcs, WritePcs
<1>2. gobin' \in 0..MaxPin
  BY <1>1, BootBounds DEF BootTypes, PinRecord
<1>3. Stage \notin Tools /\ Stage # "gophase" /\ Stage # "frontend"
  BY <1>1, ToolsAreNoPhases
<1> QED BY <1>1, <1>2, <1>3, StageOverInv

-----------------------------------------------------------------------------
\* The npm workspaces

\* The workspaces, and what they count as.
LEMMA SpacesAre ==
  ASSUME BootTypes
  PROVE  /\ "frontend" \in Spaces /\ "linear" \in Spaces /\ Spaces = {"frontend", "linear"}
         /\ \A w \in Spaces : space[w] \in SpaceRecord /\ Current(w) \in Nat \X NpmLock /\ Current(w) # Nothing
         /\ \A n, lock : lock \in NpmLock => <<n, lock>> # Nothing
         /\ Nothing \in Built /\ Nat \X NpmLock \subseteq Built
<1>1. \A lock \in NpmLock : lock # NoLock
  BY DEF NpmLock, NoLock
<1>2. \A n, lock : lock \in NpmLock => <<n, lock>> # Nothing
  BY <1>1 DEF Nothing
<1>3. \A w \in Spaces : space[w] \in SpaceRecord /\ Current(w) \in Nat \X NpmLock /\ Current(w) # Nothing
  BY <1>2 DEF BootTypes, SpaceRecord, Current
<1>4. Nothing \in Built /\ Nat \X NpmLock \subseteq Built
  BY DEF Built, Nothing
<1> QED BY <1>2, <1>3, <1>4 DEF Spaces

\* What npm may make of a lock file
LEMMA NpmWritten ==
  ASSUME NEW lock \in NpmLock, NEW s \in {"committed", "rewritten", "sorted"}
  PROVE  Written(lock, s) \in NpmLock /\ Written(lock, s).version = lock.version
BY DEF Written, NpmLock

\* Where an npm workspace is under way
LEMMA NpmPhase ==
  ASSUME BootTypes, BootInv, cmd.pc \in NpmPcs
  PROVE  /\ Stage \in Spaces /\ Stage \notin Tools /\ Stage # "gophase" /\ cmd.before \in NpmLock
         /\ cmd.kind = "bootstrap" /\ ~At("idle") /\ last = "none" /\ cmd \in CmdRecord /\ CmdFits
         /\ cmd.pc \notin GoPcs \cup WritePcs \cup InstallPcs \cup {"idle", "pins"}
         /\ \A t \in DOMAIN pin : pin[t] # Absent
         /\ ~Passed(Stage)
<1>1. /\ CmdFits /\ cmd \in CmdRecord /\ cmd.pc \notin GoPcs \cup WritePcs \cup InstallPcs \cup {"idle", "pins"} /\ cmd.pc \notin BuildPcs
      /\ cmd.pc \notin {"propose"}
  BY DEF BootTypes, BootInv, GoPcs, WritePcs, InstallPcs, NpmPcs, BuildPcs
<1>2. cmd.kind = "bootstrap" /\ ~At("idle") /\ Stage \in Spaces /\ cmd.before \in NpmLock
  BY <1>1 DEF CmdFits, KindOf, At
<1> QED BY <1>1, <1>2, NotPassed, ToolsAreNoPhases DEF CmdFits, Spaces, At

\* A workspace is fresh, or npm ci begins (runFrontendBuild, runLinearSync).
LEMMA RunFrontendInv == ASSUME BootTypes, BootInv, runFrontendBuild PROVE BootTypes' /\ BootInv'
<1>1. /\ cmd.pc = "stage" /\ Stage \in Spaces
      /\ UNCHANGED <<pin, install, cache, golock, gosrc, gobin, modcache, signature, space, root, pinned, litter, touched, torn, used>>
      /\ cmd \in CmdRecord /\ CmdFits /\ cmd.kind = "bootstrap" /\ last = "none" /\ gobin \in 0..MaxPin
  BY DEF runFrontendBuild, files, At, BootTypes, BootInv, CmdFits, KindOf, BuildPcs, WritePcs
<1>2. Stage \notin Tools /\ Stage # "gophase" /\ ~At("idle")
  BY <1>1, ToolsAreNoPhases DEF Spaces, At
<1>3. CASE Fresh(Stage)
  <2>1. NextStage
    BY <1>3 DEF runFrontendBuild
  <2>2. Stage = "frontend" /\ touched = {} /\ torn = {} => space["frontend"].dist = Current("frontend")
    BY <1>3 DEF Fresh, FrontendDistFresh, BootInv, Recorded
  <2> QED BY <1>1, <1>2, <2>1, <2>2, StageOverInv
<1>4. CASE ~Fresh(Stage)
  <2>1. cmd' = [cmd EXCEPT !.pc = "ci", !.before = space[Stage].lock] /\ last' = last
    BY <1>4 DEF runFrontendBuild
  <2>2. space[Stage].lock \in NpmLock
    BY <1>1 DEF BootTypes, SpaceRecord
  <2>3. "ci" \in Pcs \ {"idle"} /\ "ci" \notin InstallPcs \cup GoPcs \cup WritePcs \cup BuildPcs /\ KindOf("ci") = "bootstrap"
    BY DEF Pcs, GoPcs, InstallPcs, NpmPcs, WritePcs, KindOf, BuildPcs
  <2>4. /\ Steps({"ci"}) /\ cmd'.pc = "ci" /\ cmd'.before = space[Stage].lock /\ cmd'.attempt = cmd.attempt /\ cmd'.clean = cmd.clean
        /\ cmd'.found = cmd.found /\ cmd'.stage = cmd.stage /\ cmd'.kind = cmd.kind
    BY <1>1, <2>1, <2>2, <2>3 DEF CmdRecord, Steps
  <2>5. BootTypes'
    BY <1>1, <2>1, <2>4 DEF BootTypes, Steps
  <2>6. CmdFits'
    <3>1. \A t \in DOMAIN pin : pin[t] # Absent
      BY <1>1 DEF CmdFits, At
    <3> QED BY <1>1, <1>2, <2>2, <2>3, <2>4, <3>1, FitsSteps
  <2>7. ToolsReady' /\ InstallsKept' /\ LitterIsOwn' /\ CleanGoesOn'
    BY <1>1, <1>2, <2>3, <2>4, NoInstalling DEF InstallPcs, BootInv, CleanGoesOn
  <2>8. ManifestIsPast' /\ Wiped' /\ Recorded' /\ SuccessIsCurrent'
    BY <1>1, <2>1, <2>4, NoNpm, NoResult DEF At
  <2>9. VersionsCounted' /\ Warm'
    BY <1>1, <2>3, <2>4, NoVersions, NoGo
  <2>10. LocksKept'
    <3>1. Stage' = Stage
      BY <2>4 DEF Stage
    <3> QED BY <1>1, <1>2, <2>3, <2>4, <3>1 DEF BootInv, LocksKept, At, GoPcs, NpmPcs
  <2>11. PassedIsCurrent'
    BY <1>1, <2>3, <2>4 DEF BootInv, PassedIsCurrent, Passed, At, BuildPcs, Current
  <2> QED BY <2>5, <2>6, <2>7, <2>8, <2>9, <2>10, <2>11 DEF BootInv
<1> QED BY <1>3, <1>4

\* A step of npm that goes on in the phase.
LEMMA NpmStepInv ==
  ASSUME BootTypes, BootInv, cmd.pc \in NpmPcs, NEW p \in NpmPcs, Steps({p}), cmd'.before = cmd.before,
         cmd'.attempt > 0 => ~cmd'.clean,
         UNCHANGED <<pin, install, cache, golock, gosrc, gobin, modcache, signature, root, pinned, litter, touched, torn, used>>,
         space' \in [Spaces -> SpaceRecord],
         \A w \in Spaces : w # Stage => space'[w] = space[w],
         space'[Stage].manifest = Nothing, space'[Stage].src = space[Stage].src,
         cmd'.attempt > 0 => p = "ci",
         p = "manifest" => space'[Stage].dist = <<space'[Stage].src, space'[Stage].lock>>
  PROVE  BootTypes' /\ BootInv'
<1>1. /\ Stage \in Spaces /\ Stage # "gophase" /\ cmd.before \in NpmLock /\ cmd.kind = "bootstrap" /\ ~At("idle") /\ last = "none"
      /\ cmd \in CmdRecord /\ CmdFits /\ cmd.pc \notin GoPcs \cup WritePcs \cup InstallPcs \cup {"idle", "pins"}
      /\ \A t \in DOMAIN pin : pin[t] # Absent
      /\ ~Passed(Stage)
  BY NpmPhase
<1>2. p \in Pcs \ {"idle"} /\ p \notin InstallPcs \cup GoPcs \cup WritePcs \cup BuildPcs /\ KindOf(p) = "bootstrap"
  BY DEF Pcs, GoPcs, InstallPcs, NpmPcs, WritePcs, KindOf, BuildPcs
<1>3. /\ cmd'.pc = p /\ cmd'.found = cmd.found /\ cmd'.stage = cmd.stage /\ cmd'.kind = cmd.kind /\ last' = last
      /\ cmd' \in CmdRecord /\ Stage' = Stage
  BY DEF Steps, Stage
<1>4. BootTypes'
  BY <1>3 DEF BootTypes
<1>5. CmdFits'
  BY <1>1, <1>2, <1>3, FitsSteps
<1>6. ToolsReady' /\ InstallsKept' /\ LitterIsOwn' /\ CleanGoesOn'
  BY <1>1, <1>2, NoInstalling
<1>7. VersionsCounted' /\ Warm' /\ SuccessIsCurrent'
  BY <1>1, <1>2, <1>3, NoVersions, NoGo, NoResult
<1>8. \A w \in Spaces : Current(w)' = <<space'[w].src, space'[w].lock>>
  BY DEF Current
<1>9. ManifestIsPast'
  BY SpacesAre DEF BootInv, ManifestIsPast
<1>10. Wiped'
  BY <1>3 DEF Wiped, At
<1>11. Recorded'
  <2>1. Stage = "frontend" => space'["frontend"].manifest # Current("frontend")'
    BY <1>4, SpacesAre DEF BootTypes, SpaceRecord, Current
  <2>2. Stage # "frontend" => space'["frontend"] = space["frontend"] /\ Current("frontend")' = Current("frontend")
    BY SpacesAre DEF Current
  <2>3. Stage # "linear" => space'["linear"] = space["linear"]
    BY SpacesAre
  <2>4. p # "distmanifest"
    BY <1>2 DEF BuildPcs
  <2> QED BY <1>1, <1>3, <1>8, <2>1, <2>2, <2>3, <2>4 DEF BootInv, Recorded, At
<1>12. LocksKept'
  <2>1. "download" \in GoPcs
    BY DEF GoPcs
  <2> QED BY <1>1, <1>2, <1>3, <2>1 DEF BootInv, LocksKept, At
<1>13. PassedIsCurrent'
  <2>1. Passed("frontend") => space'["frontend"] = space["frontend"]
    BY <1>1, SpacesAre
  <2> QED BY <1>1, <1>2, <1>3, <2>1 DEF BootInv, PassedIsCurrent, Passed, At, BuildPcs, GoPcs, Current
<1> QED BY <1>4, <1>5, <1>6, <1>7, <1>9, <1>10, <1>11, <1>12, <1>13 DEF BootInv

\* npm ci goes well (runNpmCIWithRetry).
LEMMA NpmCIInv ==
  ASSUME BootTypes, BootInv, NEW s \in {"committed", "rewritten"}, npmCI(s)
  PROVE  BootTypes' /\ BootInv'
<1>1. /\ cmd.pc = "ci" /\ cmd' = [cmd EXCEPT !.pc = "npmbuild", !.attempt = 0]
      /\ space' = [space EXCEPT ![Stage].modules = TRUE, ![Stage].lock = Written(@, s), ![Stage].manifest = Nothing]
      /\ UNCHANGED <<pin, install, cache, golock, gosrc, gobin, modcache, signature, root, pinned, litter, last, touched, torn, used>>
  BY DEF npmCI, At
<1>2. cmd.pc \in NpmPcs /\ "npmbuild" \in NpmPcs /\ "npmbuild" \in Pcs
  BY <1>1 DEF NpmPcs, Pcs
<1>3. Stage \in Spaces /\ cmd \in CmdRecord
  BY <1>2, NpmPhase
<1>4. /\ Steps({"npmbuild"}) /\ cmd'.before = cmd.before /\ cmd'.attempt = 0
  <2>1. 0 \in 0..(NpmAttempts - 1)
    BY DEF NpmAttempts
  <2>2. cmd' \in CmdRecord
    BY <1>1, <1>2, <1>3, <2>1 DEF CmdRecord
  <2> QED BY <1>1, <1>3, <2>2 DEF CmdRecord, Steps
<1>5. space[Stage] \in SpaceRecord /\ Written(space[Stage].lock, s) \in NpmLock /\ Nothing \in Built
  BY <1>3, SpacesAre, NpmWritten DEF SpaceRecord
<1>6. space'[Stage] = [space[Stage] EXCEPT !.modules = TRUE, !.lock = Written(space[Stage].lock, s), !.manifest = Nothing]
      /\ \A w \in Spaces : w # Stage => space'[w] = space[w]
  BY <1>1, <1>3, <1>5 DEF BootTypes, SpaceRecord
<1>7. space' \in [Spaces -> SpaceRecord] /\ space'[Stage].manifest = Nothing /\ space'[Stage].src = space[Stage].src
  <2>1. space'[Stage] \in SpaceRecord /\ space'[Stage].manifest = Nothing /\ space'[Stage].src = space[Stage].src
    BY <1>5, <1>6 DEF SpaceRecord
  <2>2. DOMAIN space' = Spaces /\ space' = [w \in Spaces |-> space'[w]]
    BY <1>1 DEF BootTypes
  <2> QED BY <1>6, <2>1, <2>2 DEF BootTypes
<1> QED BY <1>1, <1>2, <1>4, <1>6, <1>7, NpmStepInv

\* The sources are built (runFrontendBuild).
LEMMA NpmBuildInv == ASSUME BootTypes, BootInv, npmBuild PROVE BootTypes' /\ BootInv'
<1>1. /\ cmd.pc = "npmbuild" /\ cmd' = [cmd EXCEPT !.pc = "manifest"]
      /\ space' = [space EXCEPT ![Stage].dist = Current(Stage)]
      /\ UNCHANGED <<pin, install, cache, golock, gosrc, gobin, modcache, signature, root, pinned, litter, last, touched, torn, used>>
  BY DEF npmBuild, At
<1>2. cmd.pc \in NpmPcs /\ "manifest" \in NpmPcs /\ "manifest" \in Pcs
  BY <1>1 DEF NpmPcs, Pcs
<1>3. Stage \in Spaces /\ cmd \in CmdRecord /\ space[Stage].manifest = Nothing /\ ~(cmd.attempt > 0)
  BY <1>1, <1>2, NpmPhase DEF BootInv, Wiped, At
<1>4. /\ Steps({"manifest"}) /\ cmd'.before = cmd.before /\ cmd'.attempt = cmd.attempt
  BY <1>1, <1>2, <1>3, GoesSteps
<1>5. space[Stage] \in SpaceRecord /\ Current(Stage) \in Built /\ Current(Stage) = <<space[Stage].src, space[Stage].lock>>
  BY <1>3, SpacesAre DEF Current
<1>6. space'[Stage] = [space[Stage] EXCEPT !.dist = Current(Stage)]
      /\ \A w \in Spaces : w # Stage => space'[w] = space[w]
  BY <1>1, <1>3, <1>5 DEF BootTypes, SpaceRecord
<1>7. /\ space' \in [Spaces -> SpaceRecord] /\ space'[Stage].manifest = Nothing /\ space'[Stage].src = space[Stage].src
      /\ space'[Stage].dist = <<space'[Stage].src, space'[Stage].lock>>
  <2>1. space'[Stage] \in SpaceRecord /\ space'[Stage].manifest = Nothing /\ space'[Stage].src = space[Stage].src
        /\ space'[Stage].dist = <<space'[Stage].src, space'[Stage].lock>>
    BY <1>3, <1>5, <1>6 DEF SpaceRecord
  <2>2. DOMAIN space' = Spaces /\ space' = [w \in Spaces |-> space'[w]]
    BY <1>1 DEF BootTypes
  <2> QED BY <1>6, <2>1, <2>2 DEF BootTypes
<1> QED BY <1>1, <1>2, <1>3, <1>4, <1>6, <1>7, NpmStepInv

\* The phase fails, and the lock file is as it was found.
LEMMA NpmFailsInv ==
  ASSUME BootTypes, BootInv, cmd.pc \in NpmPcs, space[Stage].manifest = Nothing, RestoreLock(Stage), cmd' = Idle, last' = "failed",
         UNCHANGED <<pin, install, cache, golock, gosrc, gobin, modcache, signature, root, pinned, litter, touched, torn>>,
         used' \in [edits : 0..MaxEdits, faults : Nat, commands : Nat], used'.edits = used.edits
  PROVE  BootTypes' /\ BootInv'
<1>1. /\ Stage \in Spaces /\ cmd.before \in NpmLock /\ ~At("idle") /\ cmd.pc \notin InstallPcs
  BY NpmPhase
<1>2. /\ space[Stage] \in SpaceRecord
      /\ space'[Stage] = [space[Stage] EXCEPT !.lock = cmd.before]
      /\ \A w \in Spaces : w # Stage => space'[w] = space[w]
  BY <1>1, SpacesAre DEF RestoreLock, BootTypes, SpaceRecord
<1>3. space' \in [Spaces -> SpaceRecord]
  <2>1. space'[Stage] \in SpaceRecord
    BY <1>1, <1>2 DEF SpaceRecord
  <2>2. DOMAIN space' = Spaces /\ space' = [w \in Spaces |-> space'[w]]
    BY DEF BootTypes, RestoreLock
  <2> QED BY <1>2, <2>1, <2>2 DEF BootTypes
<1>4. space'[Stage].manifest = Nothing /\ space'[Stage].dist = space[Stage].dist
  BY <1>2 DEF SpaceRecord
<1>5. BootTypes' /\ CmdFits'
  BY <1>3, IdleIs, FitsIdle DEF BootTypes
<1>6. ToolsReady' /\ InstallsKept' /\ LitterIsOwn' /\ CleanGoesOn' /\ SuccessIsCurrent'
  BY <1>1, NoInstalling, NoResult
<1>7. "idle" \notin GoPcs \cup NpmPcs \cup WritePcs \cup BuildPcs /\ cmd'.pc = "idle" /\ cmd'.kind = "none" /\ cmd'.attempt = 0
  BY IdleIs DEF GoPcs, NpmPcs, WritePcs, BuildPcs
<1>8. VersionsCounted' /\ Warm' /\ Wiped' /\ LocksKept' /\ PassedIsCurrent'
  BY <1>7 DEF BootInv, VersionsCounted, UpTo, Warm, Wiped, LocksKept, PassedIsCurrent, At, BuildPcs, GoPcs
<1>9. ManifestIsPast'
  BY <1>2, <1>4, SpacesAre DEF BootInv, ManifestIsPast
<1>10. Recorded'
  <2>1. Stage = "frontend" => space'["frontend"].manifest # Current("frontend")'
    BY <1>3, <1>4, SpacesAre DEF SpaceRecord, Current
  <2>2. Stage # "frontend" => space'["frontend"] = space["frontend"] /\ Current("frontend")' = Current("frontend")
    BY <1>2, SpacesAre DEF Current
  <2> QED BY <1>2, <1>4, <1>7, <2>1, <2>2, SpacesAre DEF BootInv, Recorded, At
<1> QED BY <1>5, <1>6, <1>8, <1>9, <1>10 DEF BootInv

\* npm ci fails and is tried again, or given up (runNpmCIWithRetry).
LEMMA NpmRetryInv == ASSUME BootTypes, BootInv, runNpmCIWithRetry PROVE BootTypes' /\ BootInv'
<1>1. /\ cmd.pc = "ci" /\ cmd.pc \in NpmPcs /\ "ci" \in NpmPcs /\ "ci" \in Pcs
      /\ UNCHANGED <<pin, install, cache, golock, gosrc, gobin, modcache, signature, root, pinned, litter, touched, torn, used>>
  BY DEF runNpmCIWithRetry, At, NpmPcs, Pcs
<1>2. Stage \in Spaces /\ cmd \in CmdRecord /\ cmd.attempt \in 0..2
  BY <1>1, NpmPhase DEF CmdRecord, NpmAttempts
<1>3. CASE cmd.attempt + 1 < NpmAttempts
  <2>1. /\ cmd' = [cmd EXCEPT !.attempt = @ + 1, !.clean = FALSE] /\ last' = last
        /\ space' = [space EXCEPT ![Stage].modules = FALSE, ![Stage].manifest = Nothing]
    BY <1>3 DEF runNpmCIWithRetry
  <2>2. /\ Steps({"ci"}) /\ cmd'.before = cmd.before /\ cmd'.clean = FALSE
    <3>1. cmd.attempt + 1 \in 0..(NpmAttempts - 1)
      BY <1>2, <1>3 DEF NpmAttempts
    <3>2. cmd' \in CmdRecord
      BY <1>2, <2>1, <3>1 DEF CmdRecord
    <3> QED BY <1>1, <1>2, <2>1, <3>2 DEF CmdRecord, Steps
  <2>3. space[Stage] \in SpaceRecord /\ Nothing \in Built
    BY <1>2, SpacesAre
  <2>4. space'[Stage] = [space[Stage] EXCEPT !.modules = FALSE, !.manifest = Nothing]
        /\ \A w \in Spaces : w # Stage => space'[w] = space[w]
    BY <1>2, <2>1, <2>3 DEF BootTypes, SpaceRecord
  <2>5. space' \in [Spaces -> SpaceRecord] /\ space'[Stage].manifest = Nothing /\ space'[Stage].src = space[Stage].src
    <3>1. space'[Stage] \in SpaceRecord /\ space'[Stage].manifest = Nothing /\ space'[Stage].src = space[Stage].src
      BY <2>3, <2>4 DEF SpaceRecord
    <3>2. DOMAIN space' = Spaces /\ space' = [w \in Spaces |-> space'[w]]
      BY <2>1 DEF BootTypes
    <3> QED BY <2>4, <3>1, <3>2 DEF BootTypes
  <2> QED BY <1>1, <2>2, <2>4, <2>5, NpmStepInv
<1>4. CASE ~(cmd.attempt + 1 < NpmAttempts)
  <2>1. RestoreLock(Stage) /\ cmd' = Idle /\ last' = "failed"
    BY <1>4 DEF runNpmCIWithRetry, End
  <2>2. space[Stage].manifest = Nothing
    BY <1>2, <1>4 DEF BootInv, Wiped, NpmAttempts
  <2>3. used' \in [edits : 0..MaxEdits, faults : Nat, commands : Nat] /\ used'.edits = used.edits
    BY <1>1 DEF BootTypes
  <2> QED BY <1>1, <2>1, <2>2, <2>3, NpmFailsInv
<1> QED BY <1>3, <1>4

\* The build is recorded, or does not count (writeFrontendBuildManifest).
LEMMA WriteManifestInv == ASSUME BootTypes, BootInv, WriteFrontendBuildManifest PROVE BootTypes' /\ BootInv'
<1>1. /\ cmd.pc = "manifest" /\ cmd.pc \in NpmPcs
      /\ UNCHANGED <<pin, install, cache, golock, gosrc, gobin, modcache, signature, root, pinned, litter, touched, torn, used>>
      /\ space[Stage].manifest = Nothing
  BY DEF WriteFrontendBuildManifest, At, NpmPcs, BootInv, Wiped
<1>2. /\ Stage \in Spaces /\ Stage \notin Tools /\ Stage # "gophase" /\ cmd.kind = "bootstrap" /\ ~At("idle") /\ last = "none"
      /\ cmd \in CmdRecord /\ CmdFits /\ cmd.pc \notin GoPcs \cup WritePcs \cup InstallPcs \cup {"idle", "pins"} /\ ~Passed(Stage)
  BY <1>1, NpmPhase
<1>3. CASE ~lockInputsMatch(Stage)
  <2>1. RestoreLock(Stage) /\ cmd' = Idle /\ last' = "failed"
    BY <1>3 DEF WriteFrontendBuildManifest, End
  <2>2. used' \in [edits : 0..MaxEdits, faults : Nat, commands : Nat] /\ used'.edits = used.edits
    BY <1>1 DEF BootTypes
  <2> QED BY <1>1, <2>1, <2>2, NpmFailsInv
<1>4. CASE lockInputsMatch(Stage)
  <2>1. space' = [space EXCEPT ![Stage].manifest = Current(Stage)] /\ NextStage /\ space[Stage].lock = cmd.before
    BY <1>4 DEF WriteFrontendBuildManifest, lockInputsMatch
  <2>2. \/ cmd' = Idle /\ last' = "ok" /\ cmd.stage = Len(Stages)
        \/ Moves
    BY <1>2, <2>1, NextStageIs
  <2>3. cmd' \in CmdRecord /\ cmd'.pc \in {"idle", "stage"} /\ cmd'.attempt = 0 /\ last' \in {"ok", "none"}
    BY <1>2, <2>2, IdleIs DEF Moves
  <2>4. /\ space[Stage] \in SpaceRecord /\ Current(Stage) \in Built /\ Current(Stage) = <<space[Stage].src, space[Stage].lock>>
        /\ space'[Stage] = [space[Stage] EXCEPT !.manifest = Current(Stage)]
        /\ \A w \in Spaces : w # Stage => space'[w] = space[w]
    BY <1>2, <2>1, SpacesAre DEF BootTypes, SpaceRecord, Current
  <2>5. space' \in [Spaces -> SpaceRecord]
    <3>1. space'[Stage] \in SpaceRecord
      BY <2>4 DEF SpaceRecord
    <3>2. DOMAIN space' = Spaces /\ space' = [w \in Spaces |-> space'[w]]
      BY <2>1 DEF BootTypes
    <3> QED BY <2>4, <3>1, <3>2 DEF BootTypes
  <2>6. /\ space'[Stage].manifest = Current(Stage) /\ space'[Stage].src = space[Stage].src
        /\ space'[Stage].lock = space[Stage].lock /\ space'[Stage].dist = space[Stage].dist
    BY <2>4 DEF SpaceRecord
  <2>7. \A w \in Spaces : Current(w)' = Current(w) /\ space'[w].dist = space[w].dist /\ space'[w].lock = space[w].lock
    BY <2>4, <2>6 DEF Current
  <2>8. BootTypes' /\ CmdFits'
    BY <1>1, <1>2, <2>2, <2>3, <2>5, FitsIdle, FitsMoves DEF BootTypes
  <2>9. ToolsReady' /\ InstallsKept' /\ LitterIsOwn' /\ CleanGoesOn'
    BY <1>1, <1>2, <2>2, NoInstalling
  <2>10. cmd'.pc \notin GoPcs \cup NpmPcs \cup WritePcs \cup BuildPcs
    BY <2>3 DEF GoPcs, NpmPcs, WritePcs, BuildPcs
  <2>11. VersionsCounted' /\ Warm'
    BY <1>1, <2>10, NoVersions, NoGo
  <2>12. Wiped'
    BY <2>3, <2>10 DEF Wiped, At, NpmPcs
  <2>13. ManifestIsPast'
    <3>1. CASE Stage = "frontend"
      <4>1. space["frontend"].src \in Nat /\ space["frontend"].lock.version \in Nat
        BY <3>1, <2>4 DEF SpaceRecord, NpmLock
      <4>2. space'["frontend"].manifest[1] = space'["frontend"].src /\ space'["frontend"].manifest[2] = space'["frontend"].lock
        BY <3>1, <2>4, <2>6
      <4> QED BY <3>1, <4>1, <4>2, <2>6 DEF ManifestIsPast
    <3>2. CASE Stage # "frontend"
      BY <3>2, <2>4, SpacesAre DEF BootInv, ManifestIsPast
    <3> QED BY <3>1, <3>2
  <2>14. "spaces" \notin torn => space[Stage].dist = Current(Stage)
    BY <1>1 DEF BootInv, Recorded, At
  <2>15. Recorded'
    <3>1. Stage = "linear" /\ "spaces" \notin torn => space'["linear"].dist[2] = space'["linear"].manifest[2]
      BY <2>4, <2>6, <2>14
    <3>2. Stage # "linear" => space'["linear"] = space["linear"]
      BY <2>4, SpacesAre
    <3>3. Stage = "frontend" /\ "spaces" \notin torn => space'["frontend"].dist = Current("frontend")'
      BY <2>6, <2>7, <2>14, SpacesAre
    <3>4. Stage # "frontend" => space'["frontend"] = space["frontend"] /\ Current("frontend")' = Current("frontend")
      BY <2>4, <2>7, SpacesAre
    <3> QED BY <1>1, <2>3, <3>1, <3>2, <3>3, <3>4 DEF BootInv, Recorded, At
  <2>16. LocksKept'
    <3>1. "download" \in GoPcs
      BY DEF GoPcs
    <3>2. touched = {} => golock = cmd.found[1] /\ \A w \in Spaces : space[w].lock = cmd.found[2][w]
      BY <1>1, <1>2, <2>1, <3>1 DEF BootInv, LocksKept, At
    <3>3. cmd' = Idle \/ cmd'.found = cmd.found
      BY <2>2 DEF Moves
    <3> QED BY <1>1, <2>7, <2>10, <3>1, <3>2, <3>3, IdleIs DEF LocksKept, At
  <2>17. ASSUME touched = {}, torn = {}
         PROVE  /\ Passed("gophase") => pinned = gosrc /\ signature = golock
                /\ Passed("frontend") \/ Stage = "frontend" => space["frontend"].dist = Current("frontend")
    BY <1>2, <2>14, <2>17 DEF BootInv, PassedIsCurrent
  <2>18. PassedIsCurrent'
    <3>1. CASE Moves
      <4>1. (Passed("frontend")' => Passed("frontend") \/ Stage = "frontend") /\ (Passed("gophase")' => Passed("gophase"))
        BY <1>2, <3>1, PassedMoves
      <4> QED BY <1>1, <2>3, <2>7, <2>10, <2>17, <4>1, SpacesAre DEF PassedIsCurrent, At
    <3>2. CASE cmd' = Idle
      BY <3>2, IdleIs DEF PassedIsCurrent, At, BuildPcs
    <3> QED BY <2>2, <3>1, <3>2
  <2>19. SuccessIsCurrent'
    <3>1. CASE last' = "ok"
      <4>1. cmd.stage = Len(Stages)
        BY <1>2, <2>2, <3>1 DEF Moves
      <4>2. Passed("gophase") /\ (Passed("frontend") \/ Stage = "frontend")
        BY <1>2, <4>1, AllPassed
      <4> QED BY <1>1, <2>7, <2>17, <3>1, <4>2, SpacesAre DEF SuccessIsCurrent
    <3> QED BY <2>3, <3>1, NoResult
  <2> QED BY <2>8, <2>9, <2>11, <2>12, <2>13, <2>15, <2>16, <2>18, <2>19 DEF BootInv
<1> QED BY <1>3, <1>4

-----------------------------------------------------------------------------
\* A command that ends

\* It ends: what it was doing no longer counts, unless it was a build that succeeded.
LEMMA EndsInv ==
  ASSUME BootTypes, BootInv, cmd' = Idle, last' \in {"failed", "unrestored", "died", "checked", "updated", "built"}, last' = "built" => SuccessIsCurrent',
         UNCHANGED <<cache, gosrc, gobin, modcache, signature, touched, torn>>, pin' \in PinRecord,
         golock' \in GoLocks, golock'.mod.version <= used.edits + 1, golock'.sum.version <= used.edits + 1,
         install' \in [Tools \X (0..MaxPin) -> InstallRecord], litter' \subseteq {"partial", "staging", "backup"},
         space' \in [Spaces -> SpaceRecord], space'["frontend"] = space["frontend"],
         space'["linear"].dist = space["linear"].dist, space'["linear"].manifest = space["linear"].manifest,
         used' \in [edits : 0..MaxEdits, faults : Nat, commands : Nat], used'.edits = used.edits
  PROVE  BootTypes' /\ BootInv'
<1>1. /\ cmd'.pc = "idle" /\ cmd'.kind = "none" /\ cmd'.attempt = 0 /\ cmd'.installed = {} /\ cmd' \in CmdRecord
      /\ "idle" \notin GoPcs \cup NpmPcs \cup BuildPcs \cup WritePcs \cup InstallPcs
  BY IdleIs DEF GoPcs, NpmPcs, WritePcs, BuildPcs, InstallPcs
<1>2. BootTypes' /\ CmdFits'
  BY <1>1, FitsIdle DEF BootTypes
<1>3. VersionsCounted' /\ Warm' /\ LocksKept' /\ LitterIsOwn' /\ PassedIsCurrent'
  BY <1>1 DEF BootInv, VersionsCounted, UpTo, Warm, LocksKept, LitterIsOwn, PassedIsCurrent, At, GoPcs, BuildPcs
<1>4. ToolsReady' /\ InstallsKept' /\ CleanGoesOn' /\ Wiped'
  BY <1>1 DEF ToolsReady, InstallsKept, CleanGoesOn, Wiped, At, NpmPcs
<1>5. ManifestIsPast' /\ Recorded'
  BY <1>1 DEF BootInv, ManifestIsPast, Recorded, Current, At
<1>6. SuccessIsCurrent'
  BY NoResult
<1> QED BY <1>2, <1>3, <1>4, <1>5, <1>6 DEF BootInv

\* Nothing changes but that.
LEMMA EndsOnly ==
  ASSUME BootTypes, BootInv, cmd' = Idle, last' \in {"failed", "died", "checked"}, UNCHANGED <<files, touched, torn>>,
         used' \in [edits : 0..MaxEdits, faults : Nat, commands : Nat], used'.edits = used.edits
  PROVE  BootTypes' /\ BootInv'
<1>1. /\ UNCHANGED <<cache, gosrc, gobin, modcache, signature, touched, torn>>
      /\ pin' \in PinRecord /\ golock' \in GoLocks /\ install' \in [Tools \X (0..MaxPin) -> InstallRecord]
      /\ space' = space /\ space \in [Spaces -> SpaceRecord] /\ litter' \subseteq {"partial", "staging", "backup"}
      /\ golock'.mod.version <= used.edits + 1 /\ golock'.sum.version <= used.edits + 1
  BY DEF files, BootTypes, BootInv, VersionsCounted, UpTo
<1> QED BY <1>1, EndsInv

\* A step that takes nothing from used.
LEMMA UsedSame ==
  ASSUME BootTypes, used' = used
  PROVE  used' \in [edits : 0..MaxEdits, faults : Nat, commands : Nat] /\ used'.edits = used.edits
BY DEF BootTypes

-----------------------------------------------------------------------------
\* build

\* Where a build is
LEMMA BuildPhase ==
  ASSUME BootTypes, BootInv, cmd.pc \in BuildPcs
  PROVE  /\ cmd.kind = "build" /\ ~At("idle") /\ last = "none" /\ cmd \in CmdRecord /\ CmdFits
         /\ cmd.pc \notin GoPcs \cup NpmPcs \cup WritePcs \cup InstallPcs \cup {"idle", "pins"} /\ ~(cmd.attempt > 0)
<1>1. CmdFits /\ cmd \in CmdRecord /\ cmd.pc \notin GoPcs \cup NpmPcs \cup WritePcs \cup InstallPcs \cup {"idle", "pins"}
  BY DEF BootTypes, BootInv, GoPcs, WritePcs, InstallPcs, NpmPcs, BuildPcs
<1>2. cmd.kind = "build" /\ ~At("idle") /\ last = "none"
  BY <1>1 DEF CmdFits, KindOf, At
<1>3. cmd.pc # "ci"
  BY DEF BuildPcs
<1> QED BY <1>1, <1>2, <1>3 DEF BootInv, Wiped, At

\* A build goes on to p.
LEMMA BuildStepInv ==
  ASSUME BootTypes, BootInv, cmd.pc \in BuildPcs, NEW p \in BuildPcs \ {"build"}, cmd' = [cmd EXCEPT !.pc = p], last' = last,
         UNCHANGED <<pin, install, cache, golock, gosrc, gobin, modcache, signature, litter, touched, torn, used>>,
         space' \in [Spaces -> SpaceRecord], space'["linear"] = space["linear"],
         space'["frontend"].src = space["frontend"].src, space'["frontend"].lock = space["frontend"].lock,
         space'["frontend"].manifest \in {space["frontend"].manifest, Current("frontend")},
         "spaces" \notin torn =>
           /\ space'["frontend"].manifest = Current("frontend") => space'["frontend"].dist = Current("frontend")
           /\ p = "distmanifest" => space'["frontend"].dist = Current("frontend"),
         touched = {} /\ torn = {} =>
           /\ signature = golock
           /\ p \in {"distmanifest", "compile", "copy", "copying"} => space'["frontend"].dist = Current("frontend")
           /\ p \in {"copy", "copying"} => root' = [src |-> gosrc, dist |-> Current("frontend")]
  PROVE  BootTypes' /\ BootInv'
<1>1. /\ cmd.kind = "build" /\ ~At("idle") /\ last = "none" /\ cmd \in CmdRecord /\ CmdFits
      /\ cmd.pc \notin GoPcs \cup NpmPcs \cup WritePcs \cup InstallPcs \cup {"idle", "pins"} /\ ~(cmd.attempt > 0)
  BY BuildPhase
<1>2. p \in Pcs \ {"idle"} /\ p \notin InstallPcs \cup GoPcs \cup NpmPcs \cup WritePcs \cup {"pins"} /\ KindOf(p) = "build"
  BY DEF Pcs, GoPcs, InstallPcs, NpmPcs, WritePcs, KindOf, BuildPcs
<1>3. /\ Steps({p}) /\ cmd'.clean = cmd.clean /\ cmd'.attempt = cmd.attempt
      /\ cmd'.pc = p /\ cmd'.found = cmd.found /\ cmd'.stage = cmd.stage /\ cmd'.kind = cmd.kind /\ cmd' \in CmdRecord
  BY <1>1, <1>2, GoesSteps DEF Steps
<1>4. BootTypes'
  BY <1>3 DEF BootTypes
<1>5. CmdFits'
  BY <1>1, <1>2, <1>3, FitsSteps
<1>6. ToolsReady' /\ InstallsKept' /\ LitterIsOwn' /\ CleanGoesOn'
  BY <1>1, <1>2, <1>3, NoInstalling
<1>7. VersionsCounted' /\ Warm' /\ SuccessIsCurrent'
  BY <1>1, <1>2, <1>3, NoVersions, NoGo, NoResult
<1>8. Current("frontend")' = Current("frontend") /\ Current("frontend") = <<space["frontend"].src, space["frontend"].lock>>
  BY DEF Current
<1>9. ManifestIsPast'
  <2>1. CASE space'["frontend"].manifest = space["frontend"].manifest
    BY <2>1 DEF BootInv, ManifestIsPast
  <2>2. CASE space'["frontend"].manifest = Current("frontend")
    <3>1. space["frontend"].src \in Nat /\ space["frontend"].lock.version \in Nat
      BY SpacesAre DEF SpaceRecord, NpmLock
    <3> QED BY <1>8, <2>2, <3>1 DEF ManifestIsPast
  <2> QED BY <2>1, <2>2
<1>10. Wiped'
  BY <1>1, <1>2, <1>3 DEF Wiped, NpmPcs
<1>11. Recorded'
  BY <1>2, <1>3, <1>8 DEF BootInv, Recorded, At, NpmPcs
<1>12. LocksKept'
  <2>1. "download" \in GoPcs
    BY DEF GoPcs
  <2>2. \A w \in Spaces : space'[w].lock = space[w].lock
    BY SpacesAre
  <2> QED BY <1>1, <1>2, <1>3, <2>1, <2>2 DEF BootInv, LocksKept, At
<1>13. PassedIsCurrent'
  BY <1>1, <1>2, <1>3, <1>8 DEF BootInv, PassedIsCurrent, At, GoPcs
<1> QED BY <1>4, <1>5, <1>6, <1>7, <1>9, <1>10, <1>11, <1>12, <1>13 DEF BootInv

\* It builds nothing on a module cache of other lock files.
LEMMA CacheFreshInv == ASSUME BootTypes, BootInv, ensureGoModCacheFresh PROVE BootTypes' /\ BootInv'
<1>1. /\ cmd.pc = "build" /\ cmd.pc \in BuildPcs /\ UNCHANGED <<files, touched, torn, used>> /\ "dist" \in BuildPcs \ {"build"}
      /\ "dist" \notin {"distmanifest", "compile", "copy", "copying"}
  BY DEF ensureGoModCacheFresh, At, BuildPcs
<1>2. CASE signature = golock
  <2>1. cmd' = [cmd EXCEPT !.pc = "dist"] /\ last' = last
    BY <1>2 DEF ensureGoModCacheFresh
  <2>2. UNCHANGED <<pin, install, cache, golock, gosrc, gobin, modcache, signature, space, litter, touched, torn, used>>
    BY <1>1 DEF files
  <2>3. /\ space \in [Spaces -> SpaceRecord]
        /\ "spaces" \notin torn => (space["frontend"].manifest = Current("frontend") => space["frontend"].dist = Current("frontend"))
    BY DEF BootTypes, BootInv, Recorded
  <2> QED BY <1>1, <1>2, <2>1, <2>2, <2>3, BuildStepInv
<1>3. CASE signature # golock
  <2>1. cmd' = Idle /\ last' = "failed"
    BY <1>3 DEF ensureGoModCacheFresh, End
  <2> QED BY <1>1, <2>1, UsedSame, EndsOnly
<1> QED BY <1>2, <1>3

\* It takes the frontend there is, or builds it again.
LEMMA DistFreshInv == ASSUME BootTypes, BootInv, ensureFrontendDistFresh PROVE BootTypes' /\ BootInv'
<1>1. /\ cmd.pc = "dist" /\ cmd.pc \in BuildPcs /\ {"compile", "distmanifest"} \subseteq BuildPcs \ {"build"}
      /\ UNCHANGED <<pin, install, cache, golock, gosrc, gobin, modcache, signature, root, pinned, litter, touched, torn, used>>
  BY DEF ensureFrontendDistFresh, At, BuildPcs
<1>2. touched = {} /\ torn = {} => signature = golock
  BY <1>1 DEF BootInv, PassedIsCurrent
<1>3. CASE FrontendDistFresh
  <2>1. cmd' = [cmd EXCEPT !.pc = "compile"] /\ UNCHANGED <<space, last>>
    BY <1>3 DEF ensureFrontendDistFresh
  <2>2. space \in [Spaces -> SpaceRecord] /\ ("spaces" \notin torn => space["frontend"].dist = Current("frontend"))
    BY <1>3 DEF BootTypes, BootInv, Recorded, FrontendDistFresh
  <2>3. torn = {} => "spaces" \notin torn
    OBVIOUS
  <2> QED BY <1>1, <1>2, <2>1, <2>2, <2>3, BuildStepInv
<1>4. CASE ~FrontendDistFresh /\ ~space["frontend"].modules
  <2>1. cmd' = Idle /\ last' = "failed" /\ UNCHANGED space
    BY <1>4 DEF ensureFrontendDistFresh, End
  <2> QED BY <1>1, <2>1, UsedSame, EndsOnly DEF files
<1>5. CASE ~FrontendDistFresh /\ space["frontend"].modules
  <2>1. cmd' = [cmd EXCEPT !.pc = "distmanifest"] /\ last' = last /\ space' = [space EXCEPT !["frontend"].dist = Current("frontend")]
    BY <1>5 DEF ensureFrontendDistFresh
  <2>2. space["frontend"] \in SpaceRecord /\ Current("frontend") \in Built
    BY SpacesAre
  <2>3. space'["frontend"] = [space["frontend"] EXCEPT !.dist = Current("frontend")] /\ space'["linear"] = space["linear"]
    BY <2>1, SpacesAre DEF BootTypes
  <2>4. space' \in [Spaces -> SpaceRecord]
    <3>1. space'["frontend"] \in SpaceRecord
      BY <2>2, <2>3 DEF SpaceRecord
    <3> QED BY <2>1, <3>1 DEF BootTypes
  <2>5. /\ space'["frontend"].src = space["frontend"].src /\ space'["frontend"].lock = space["frontend"].lock
        /\ space'["frontend"].manifest = space["frontend"].manifest /\ space'["frontend"].dist = Current("frontend")
    BY <2>2, <2>3 DEF SpaceRecord
  <2> QED BY <1>1, <1>2, <2>1, <2>3, <2>4, <2>5, BuildStepInv
<1> QED BY <1>3, <1>4, <1>5

\* It records what it built.
LEMMA RecordDistInv == ASSUME BootTypes, BootInv, RecordDist PROVE BootTypes' /\ BootInv'
<1>1. /\ cmd.pc = "distmanifest" /\ cmd.pc \in BuildPcs /\ "compile" \in BuildPcs \ {"build"}
      /\ UNCHANGED <<pin, install, cache, golock, gosrc, gobin, modcache, signature, root, pinned, litter, touched, torn, used>>
      /\ cmd' = [cmd EXCEPT !.pc = "compile"] /\ last' = last
      /\ space' = [space EXCEPT !["frontend"].manifest = Current("frontend")]
  BY DEF RecordDist, At, BuildPcs
<1>2. touched = {} /\ torn = {} => signature = golock
  BY <1>1 DEF BootInv, PassedIsCurrent, BuildPcs
<1>3. "spaces" \notin torn => space["frontend"].dist = Current("frontend")
  BY <1>1 DEF BootInv, Recorded, At
<1>4. space["frontend"] \in SpaceRecord /\ Current("frontend") \in Built
  BY SpacesAre
<1>5. space'["frontend"] = [space["frontend"] EXCEPT !.manifest = Current("frontend")] /\ space'["linear"] = space["linear"]
  BY <1>1, SpacesAre DEF BootTypes
<1>6. space' \in [Spaces -> SpaceRecord]
  <2>1. space'["frontend"] \in SpaceRecord
    BY <1>4, <1>5 DEF SpaceRecord
  <2> QED BY <1>1, <2>1 DEF BootTypes
<1>7. /\ space'["frontend"].src = space["frontend"].src /\ space'["frontend"].lock = space["frontend"].lock
      /\ space'["frontend"].manifest = Current("frontend") /\ space'["frontend"].dist = space["frontend"].dist
  BY <1>4, <1>5 DEF SpaceRecord
<1>8. torn = {} => "spaces" \notin torn
  OBVIOUS
<1> QED BY <1>1, <1>2, <1>3, <1>5, <1>6, <1>7, <1>8, BuildStepInv

\* It compiles what there is.
LEMMA RunBuildInv == ASSUME BootTypes, BootInv, runBuild PROVE BootTypes' /\ BootInv'
<1>1. /\ cmd.pc = "compile" /\ cmd.pc \in BuildPcs /\ "copy" \in BuildPcs \ {"build"}
      /\ UNCHANGED <<pin, install, cache, golock, gosrc, gobin, modcache, signature, space, pinned, litter, touched, torn, used>>
      /\ space \in [Spaces -> SpaceRecord]
  BY DEF runBuild, At, BuildPcs, BootTypes
<1>2. CASE golock.mod.version \in modcache
  <2>1. root' = [src |-> gosrc, dist |-> space["frontend"].dist] /\ cmd' = [cmd EXCEPT !.pc = "copy"] /\ last' = last
    BY <1>2 DEF runBuild
  <2>2. touched = {} /\ torn = {} => signature = golock /\ space["frontend"].dist = Current("frontend")
    BY <1>1 DEF BootInv, PassedIsCurrent, BuildPcs
  <2>3. "spaces" \notin torn => (space["frontend"].manifest = Current("frontend") => space["frontend"].dist = Current("frontend"))
    BY DEF BootInv, Recorded
  <2> QED BY <1>1, <2>1, <2>2, <2>3, BuildStepInv
<1>3. CASE golock.mod.version \notin modcache
  <2>1. cmd' = Idle /\ last' = "failed" /\ root' = root
    BY <1>3 DEF runBuild, End
  <2> QED BY <1>1, <2>1, UsedSame, EndsOnly DEF files
<1> QED BY <1>2, <1>3

\* The daemon binary is cut off before it is copied anew.
LEMMA TruncateInv == ASSUME BootTypes, BootInv, TruncatePinned PROVE BootTypes' /\ BootInv'
<1>1. /\ cmd.pc = "copy" /\ cmd.pc \in BuildPcs /\ "copying" \in BuildPcs \ {"build"} /\ cmd' = [cmd EXCEPT !.pc = "copying"]
      /\ UNCHANGED <<pin, install, cache, golock, gosrc, gobin, modcache, signature, space, root, litter, last, touched, torn, used>>
      /\ space \in [Spaces -> SpaceRecord]
  BY DEF TruncatePinned, At, BuildPcs, BootTypes
<1>2. touched = {} /\ torn = {} =>
        signature = golock /\ space["frontend"].dist = Current("frontend") /\ root = [src |-> gosrc, dist |-> Current("frontend")]
  BY <1>1 DEF BootInv, PassedIsCurrent, BuildPcs
<1>3. "spaces" \notin torn => (space["frontend"].manifest = Current("frontend") => space["frontend"].dist = Current("frontend"))
  BY DEF BootInv, Recorded
<1> QED BY <1>1, <1>2, <1>3, BuildStepInv

\* Copied, the build is over and everything current.
LEMMA RefreshInv == ASSUME BootTypes, BootInv, refreshPinnedGolcProject PROVE BootTypes' /\ BootInv'
<1>1. /\ cmd.pc = "copying" /\ cmd.pc \in BuildPcs /\ pinned' = root.src /\ cmd' = Idle /\ last' = "built"
      /\ UNCHANGED <<pin, install, cache, golock, gosrc, gobin, modcache, signature, space, root, litter, touched, torn, used>>
  BY DEF refreshPinnedGolcProject, At, BuildPcs, End
<1>2. touched = {} /\ torn = {} =>
        signature = golock /\ space["frontend"].dist = Current("frontend") /\ root = [src |-> gosrc, dist |-> Current("frontend")]
  BY <1>1 DEF BootInv, PassedIsCurrent, BuildPcs
<1>3. SuccessIsCurrent'
  BY <1>1, <1>2 DEF SuccessIsCurrent, Current
<1>4. /\ pin \in PinRecord /\ golock \in GoLocks /\ golock.mod.version <= used.edits + 1 /\ golock.sum.version <= used.edits + 1
      /\ install \in [Tools \X (0..MaxPin) -> InstallRecord] /\ litter \subseteq {"partial", "staging", "backup"}
      /\ space \in [Spaces -> SpaceRecord]
  BY DEF BootTypes, BootInv, VersionsCounted, UpTo
<1> QED BY <1>1, <1>3, <1>4, UsedSame, EndsInv

-----------------------------------------------------------------------------
\* tools update

\* Where an update is
LEMMA UpdatePhase ==
  ASSUME BootTypes, BootInv, cmd.pc \in {"propose"} \cup WritePcs
  PROVE  /\ cmd.kind = "update" /\ ~At("idle") /\ last = "none" /\ cmd \in CmdRecord /\ CmdFits
         /\ cmd.pc \notin GoPcs \cup NpmPcs \cup BuildPcs \cup InstallPcs \cup {"idle", "pins"} /\ ~(cmd.attempt > 0)
         /\ cmd.pc \in WritePcs => cmd.read \in Proposal /\ UpTo(cmd.read.go)
<1>1. CmdFits /\ cmd \in CmdRecord /\ cmd.pc \notin GoPcs \cup NpmPcs \cup BuildPcs \cup InstallPcs \cup {"idle", "pins"}
  BY DEF BootTypes, BootInv, GoPcs, WritePcs, InstallPcs, NpmPcs, BuildPcs
<1>2. cmd.kind = "update" /\ ~At("idle") /\ last = "none"
  BY <1>1 DEF CmdFits, KindOf, At
<1>3. cmd.pc # "ci"
  BY DEF WritePcs
<1> QED BY <1>1, <1>2, <1>3 DEF BootInv, Wiped, At, CmdFits, VersionsCounted

\* An update goes on to write the next file.
LEMMA UpdateStepInv ==
  ASSUME BootTypes, BootInv, cmd.pc \in {"propose"} \cup WritePcs, NEW p \in WritePcs, Steps({p}),
         cmd'.clean = cmd.clean, cmd'.attempt = cmd.attempt, cmd'.read \in Proposal, UpTo(cmd'.read.go),
         UNCHANGED <<install, cache, gosrc, gobin, modcache, signature, space, litter, touched, torn, used>>,
         pin' \in PinRecord, golock' \in GoLocks, UpTo(golock'),
         touched = {} => golock' = cmd.found[1] /\ cmd'.read.go = cmd.found[1] /\ cmd'.read.npm = cmd.found[2]["linear"]
  PROVE  BootTypes' /\ BootInv'
<1>1. /\ cmd.kind = "update" /\ ~At("idle") /\ last = "none" /\ cmd \in CmdRecord /\ CmdFits
      /\ cmd.pc \notin GoPcs \cup NpmPcs \cup BuildPcs \cup InstallPcs \cup {"idle", "pins"} /\ ~(cmd.attempt > 0)
  BY UpdatePhase
<1>2. p \in Pcs \ {"idle"} /\ p \notin InstallPcs \cup GoPcs \cup NpmPcs \cup BuildPcs \cup {"pins"} /\ KindOf(p) = "update"
  BY DEF Pcs, GoPcs, InstallPcs, NpmPcs, WritePcs, KindOf, BuildPcs
<1>3. cmd'.pc = p /\ cmd'.found = cmd.found /\ cmd'.stage = cmd.stage /\ cmd'.kind = cmd.kind /\ cmd' \in CmdRecord /\ last' = last
  BY DEF Steps
<1>4. BootTypes'
  BY <1>3 DEF BootTypes
<1>5. CmdFits'
  BY <1>1, <1>2, FitsSteps
<1>6. ToolsReady' /\ InstallsKept' /\ LitterIsOwn' /\ CleanGoesOn'
  BY <1>1, <1>2, NoInstalling
<1>7. VersionsCounted'
  BY <1>2, <1>3 DEF BootInv, VersionsCounted, UpTo
<1>8. Warm' /\ SuccessIsCurrent'
  BY <1>1, <1>2, <1>3, NoGo, NoResult
<1>9. ManifestIsPast' /\ Wiped' /\ Recorded'
  <2>1. cmd.pc # "ci" /\ p \notin {"npmbuild", "manifest", "distmanifest"}
    BY <1>1, <1>2 DEF NpmPcs, BuildPcs
  <2> QED BY <1>3, <2>1, NoNpm DEF At
<1>10. LocksKept'
  <2>1. touched = {} => \A w \in Spaces : space[w].lock = cmd.found[2][w]
    BY <1>1 DEF BootInv, LocksKept
  <2> QED BY <1>2, <1>3, <2>1 DEF LocksKept, At
<1>11. PassedIsCurrent'
  BY <1>1, <1>2, <1>3 DEF PassedIsCurrent, At, BuildPcs, GoPcs
<1> QED BY <1>4, <1>5, <1>6, <1>7, <1>8, <1>9, <1>10, <1>11 DEF BootInv

\* The proposal is read, or the command ends here.
LEMMA ProposalInv ==
  ASSUME BootTypes, BootInv, NEW write \in BOOLEAN, BuildToolsUpdateProposal(write)
  PROVE  BootTypes' /\ BootInv'
<1>1. /\ cmd.pc = "propose" /\ cmd.pc \in {"propose"} \cup WritePcs /\ "writepins" \in WritePcs /\ "writepins" \in Pcs
      /\ UNCHANGED <<pin, golock, space>> /\ UNCHANGED <<install, cache, gosrc, gobin, modcache, signature, root, pinned, litter, touched, torn, used>>
  BY DEF BuildToolsUpdateProposal, UpdateVars, At, WritePcs, Pcs
<1>2. CASE Proposable /\ write
  <2>1. cmd' = [cmd EXCEPT !.pc = "writepins", !.read = Propose] /\ last' = last
    BY <1>2 DEF BuildToolsUpdateProposal
  <2>2. space["linear"].lock \in NpmLock
    BY SpacesAre DEF SpaceRecord
  <2>3. Propose \in Proposal
    BY <2>2 DEF Propose, Proposal, BootTypes
  <2>4. Steps({"writepins"}) /\ cmd'.clean = cmd.clean /\ cmd'.attempt = cmd.attempt /\ cmd'.read = Propose
    BY <1>1, <2>1, <2>3 DEF BootTypes, CmdRecord, Steps
  <2>5. /\ pin \in PinRecord /\ golock \in GoLocks /\ UpTo(golock)
        /\ Propose.go = golock /\ Propose.npm = space["linear"].lock
    BY DEF Propose, BootTypes, BootInv, VersionsCounted
  <2>6. touched = {} => golock = cmd.found[1] /\ space["linear"].lock = cmd.found[2]["linear"]
    <3>1. ~At("idle") /\ cmd.pc \notin GoPcs \cup NpmPcs
      BY <1>1, UpdatePhase
    <3> QED BY <3>1, SpacesAre DEF BootInv, LocksKept
  <2>7. UpTo(golock') /\ UpTo(cmd'.read.go)
    BY <1>1, <2>4, <2>5 DEF UpTo
  <2> QED BY <1>1, <2>3, <2>4, <2>5, <2>6, <2>7, UpdateStepInv
<1>3. CASE ~(Proposable /\ write)
  <2>1. cmd' = Idle /\ last' \in {"checked", "failed"}
    BY <1>3 DEF BuildToolsUpdateProposal, End
  <2> QED BY <1>1, <2>1, UsedSame, EndsOnly DEF files
<1> QED BY <1>2, <1>3

\* The pins, go.mod and go.sum are written.
LEMMA WritesInv ==
  ASSUME BootTypes, BootInv, applyToolchainTOMLProposal \/ applyGoModProposal \/ applyGoSumProposal
  PROVE  BootTypes' /\ BootInv'
<1>1. /\ cmd.pc \in WritePcs
      /\ UNCHANGED <<install, cache, gosrc, gobin, modcache, signature, space, litter, touched, torn, used>>
  BY DEF applyToolchainTOMLProposal, applyGoModProposal, applyGoSumProposal, UpdateVars, At, WritePcs
<1>2. PICK p \in WritePcs : cmd' = [cmd EXCEPT !.pc = p] /\ last' = last
  BY DEF applyToolchainTOMLProposal, applyGoModProposal, applyGoSumProposal, Goes, WritePcs
<1>3. p \in Pcs
  BY DEF Pcs
<1>4. Steps({p}) /\ cmd'.clean = cmd.clean /\ cmd'.attempt = cmd.attempt /\ cmd'.read = cmd.read
  BY <1>2, <1>3, GoesSteps
<1>5. cmd.read \in Proposal /\ UpTo(cmd.read.go) /\ ~At("idle") /\ cmd.pc \notin GoPcs \cup NpmPcs
  BY <1>1, UpdatePhase
<1>6. pin \in PinRecord /\ golock \in GoLocks /\ UpTo(golock)
  BY DEF BootTypes, BootInv, VersionsCounted
<1>7. touched = {} => golock = cmd.found[1] /\ cmd.read.go = cmd.found[1] /\ cmd.read.npm = cmd.found[2]["linear"]
  BY <1>1, <1>5 DEF BootInv, LocksKept
<1>8. pin' \in PinRecord /\ golock' \in {golock, [golock EXCEPT !.mod = cmd.read.go.mod], [golock EXCEPT !.sum = cmd.read.go.sum]}
  BY <1>5, <1>6 DEF applyToolchainTOMLProposal, applyGoModProposal, applyGoSumProposal, Proposal
<1>9. golock' \in GoLocks /\ UpTo(golock') /\ (touched = {} => golock' = cmd.found[1])
  <2>1. cmd.read.go \in GoLocks
    BY <1>5 DEF Proposal
  <2> QED BY <1>5, <1>6, <1>7, <1>8, <2>1 DEF GoLocks, UpTo
<1>10. UpTo(golock') /\ UpTo(cmd'.read.go)
  BY <1>1, <1>4, <1>5, <1>9 DEF UpTo
<1> QED BY <1>1, <1>4, <1>5, <1>7, <1>8, <1>9, <1>10, UpdateStepInv

\* The npm files are written, their keys sorted, and the update is over.
LEMMA PackageLockInv == ASSUME BootTypes, BootInv, applyPackageLockProposal PROVE BootTypes' /\ BootInv'
<1>1. /\ cmd.pc \in WritePcs /\ cmd' = Idle /\ last' = "updated"
      /\ space' = [space EXCEPT !["linear"].lock = Written(cmd.read.npm, "sorted")]
      /\ UNCHANGED <<pin, golock, install, cache, gosrc, gobin, modcache, signature, litter, touched, torn, used>>
  BY DEF applyPackageLockProposal, UpdateVars, At, WritePcs, End
<1>2. cmd.read \in Proposal
  BY <1>1, UpdatePhase
<1>3. Written(cmd.read.npm, "sorted") \in NpmLock /\ space["linear"] \in SpaceRecord
  BY <1>2, NpmWritten, SpacesAre DEF Proposal
<1>4. space'["linear"] = [space["linear"] EXCEPT !.lock = Written(cmd.read.npm, "sorted")] /\ space'["frontend"] = space["frontend"]
  BY <1>1, SpacesAre DEF BootTypes
<1>5. space'["linear"] \in SpaceRecord /\ space'["linear"].dist = space["linear"].dist /\ space'["linear"].manifest = space["linear"].manifest
  BY <1>3, <1>4 DEF SpaceRecord
<1>6. space' \in [Spaces -> SpaceRecord]
  BY <1>1, <1>5 DEF BootTypes
<1>7. /\ pin \in PinRecord /\ golock \in GoLocks /\ golock.mod.version <= used.edits + 1 /\ golock.sum.version <= used.edits + 1
      /\ install \in [Tools \X (0..MaxPin) -> InstallRecord] /\ litter \subseteq {"partial", "staging", "backup"}
  BY DEF BootTypes, BootInv, VersionsCounted, UpTo
<1> QED BY <1>1, <1>4, <1>5, <1>6, <1>7, UsedSame, EndsInv

-----------------------------------------------------------------------------
\* What starts, and what fails

\* A command starts with what it finds.
LEMMA StartInv ==
  ASSUME BootTypes, BootInv, NEW kind \in {"bootstrap", "build", "update"}, NEW pc \in {"pins", "build", "propose"},
         KindOf(pc) = kind, Start(kind, pc)
  PROVE  BootTypes' /\ BootInv'
<1> DEFINE there == {d \in DOMAIN install : install[d] # NoInstall}
<1>1. /\ cmd' = [Idle EXCEPT !.pc = pc, !.kind = kind, !.stage = 1, !.found = Locks, !.litter = litter, !.installed = there]
      /\ last' = "none" /\ touched' = {}
      /\ used' = [used EXCEPT !.commands = @ + 1]
      /\ UNCHANGED <<pin, install, cache, golock, gosrc, gobin, modcache, signature, space, root, pinned, litter, torn>>
  BY DEF Start, files
<1>2. pc \in Pcs /\ pc \notin GoPcs \cup NpmPcs \cup WritePcs \cup InstallPcs \cup {"idle", "stage", "distmanifest"} /\ pc \notin BuildPcs \ {"build"}
  BY DEF Pcs, GoPcs, InstallPcs, NpmPcs, WritePcs, BuildPcs
<1>3. Locks = <<golock, [w \in Spaces |-> space[w].lock]>> /\ Locks \in GoLocks \X [Spaces -> NpmLock] /\ Locks \in Found
  BY SpacesAre DEF Locks, Found, BootTypes, SpaceRecord
<1>4. there \in SUBSET (Tools \X (0..MaxPin)) /\ 1 \in 0..Len(Stages) /\ litter \in SUBSET {"partial", "staging", "backup"}
  BY BootBounds DEF BootTypes
<1>5. Idle \in CmdRecord /\ Idle.attempt = 0 /\ Idle.clean = TRUE
  BY IdleIs
<1> HIDE DEF there
<1>6. cmd' \in CmdRecord
  BY <1>1, <1>2, <1>3, <1>4, <1>5 DEF CmdRecord
<1>7. /\ cmd'.pc = pc /\ cmd'.kind = kind /\ cmd'.stage = 1 /\ cmd'.found = Locks /\ cmd'.installed = there
      /\ cmd'.litter = litter /\ cmd'.attempt = 0 /\ cmd'.clean = TRUE
  BY <1>1, <1>5 DEF CmdRecord
<1>8. BootTypes'
  <2>1. used' \in [edits : 0..MaxEdits, faults : Nat, commands : Nat]
    BY <1>1 DEF BootTypes
  <2> QED BY <1>1, <1>6, <2>1 DEF BootTypes
<1>9. CmdFits'
  <2>1. cmd'.kind = "bootstrap" => At("pins")'
    BY <1>7 DEF At, KindOf, BuildPcs, WritePcs
  <2> QED BY <1>1, <1>2, <1>3, <1>7, <2>1 DEF CmdFits, At
<1>10. VersionsCounted'
  <2>1. used'.edits = used.edits
    BY <1>1 DEF BootTypes
  <2> QED BY <1>1, <1>2, <1>7, <2>1 DEF BootInv, VersionsCounted, UpTo
<1>11. Warm' /\ ManifestIsPast' /\ SuccessIsCurrent'
  BY <1>1, <1>2, <1>7, NoGo, NoResult DEF BootInv, ManifestIsPast
<1>12. Wiped' /\ Recorded'
  BY <1>1, <1>2, <1>7 DEF BootInv, Wiped, Recorded, At, NpmPcs, Current
<1>13. ToolsReady' /\ CleanGoesOn' /\ LitterIsOwn'
  BY <1>1, <1>2, <1>7 DEF ToolsReady, CleanGoesOn, LitterIsOwn, At, InstallPcs
<1>14. InstallsKept'
  BY <1>1, <1>2, <1>7 DEF InstallsKept, there, At, InstallPcs
<1>15. LocksKept'
  <2>1. "download" \in GoPcs
    BY DEF GoPcs
  <2> QED BY <1>1, <1>2, <1>3, <1>7, <2>1 DEF LocksKept, At
<1>16. PassedIsCurrent'
  BY <1>1, <1>2, <1>7 DEF PassedIsCurrent, Passed, At, GoPcs, BuildPcs
<1> QED BY <1>8, <1>9, <1>10, <1>11, <1>12, <1>13, <1>14, <1>15, <1>16 DEF BootInv

\* A fault costs nothing but itself.
LEMMA FaultIs ==
  ASSUME BootTypes, Fault(1)
  PROVE  used' \in [edits : 0..MaxEdits, faults : Nat, commands : Nat] /\ used'.edits = used.edits
BY DEF BootTypes, Fault

\* A step fails, and what it was in the middle of is put back.
LEMMA StepFailsInv == ASSUME BootTypes, BootInv, StepFails PROVE BootTypes' /\ BootInv'
<1>1. /\ cmd' = Idle /\ last' = "failed" /\ Fault(1)
      /\ UNCHANGED <<pin, cache, gosrc, gobin, modcache, signature, root, pinned, touched, torn>>
  BY DEF StepFails, End
<1>2. used' \in [edits : 0..MaxEdits, faults : Nat, commands : Nat] /\ used'.edits = used.edits
  BY <1>1, FaultIs
<1>3. /\ pin \in PinRecord /\ golock \in GoLocks /\ golock.mod.version <= used.edits + 1 /\ golock.sum.version <= used.edits + 1
      /\ install \in [Tools \X (0..MaxPin) -> InstallRecord] /\ litter \subseteq {"partial", "staging", "backup"}
      /\ space \in [Spaces -> SpaceRecord]
  BY DEF BootTypes, BootInv, VersionsCounted, UpTo
<1>4. CASE install' = MovedBack /\ litter' = litter \ Cleared /\ UNCHANGED <<golock, space>>
  <2>1. cmd.backup \in InstallRecord
    BY DEF BootTypes, CmdRecord
  <2>2. install' \in [Tools \X (0..MaxPin) -> InstallRecord]
    BY <1>3, <1>4, <2>1 DEF MovedBack
  <2> QED BY <1>1, <1>2, <1>3, <1>4, <2>2, EndsInv
<1>5. CASE cmd.pc \in GoPcs /\ RestoreGoLock /\ UNCHANGED <<install, space, litter>>
  <2>1. golock' \in GoLocks /\ golock'.mod.version <= used.edits + 1 /\ golock'.sum.version <= used.edits + 1
    BY <1>5, RestoreGoLockIs DEF UpTo
  <2> QED BY <1>1, <1>2, <1>3, <1>5, <2>1, EndsInv
<1>6. CASE cmd.pc \in {"npmbuild", "manifest"} /\ RestoreLock(Stage) /\ UNCHANGED <<install, golock, litter>>
  <2>1. cmd.pc \in NpmPcs /\ space[Stage].manifest = Nothing
    BY <1>6 DEF NpmPcs, BootInv, Wiped
  <2> QED BY <1>1, <1>2, <1>6, <2>1, NpmFailsInv
<1>7. CASE UNCHANGED <<install, golock, space, litter>>
  BY <1>1, <1>2, <1>7, EndsOnly DEF files
<1> QED BY <1>4, <1>5, <1>6, <1>7 DEF StepFails, GoPcs

\* Undoing a step fails too.
LEMMA UndoFailsInv == ASSUME BootTypes, BootInv, UndoFails PROVE BootTypes' /\ BootInv'
<1>1. /\ cmd' = Idle /\ last' = "unrestored" /\ Fault(1)
      /\ UNCHANGED <<pin, cache, golock, gosrc, gobin, modcache, signature, space, root, touched, torn>>
      /\ install' = install \/ install' = MovedBack
      /\ litter' \subseteq litter
  BY DEF UndoFails, End
<1>2. used' \in [edits : 0..MaxEdits, faults : Nat, commands : Nat] /\ used'.edits = used.edits
  BY <1>1, FaultIs
<1>3. /\ pin \in PinRecord /\ golock \in GoLocks /\ golock.mod.version <= used.edits + 1 /\ golock.sum.version <= used.edits + 1
      /\ install \in [Tools \X (0..MaxPin) -> InstallRecord] /\ litter \subseteq {"partial", "staging", "backup"}
      /\ space \in [Spaces -> SpaceRecord] /\ cmd.backup \in InstallRecord
  BY DEF BootTypes, BootInv, VersionsCounted, UpTo, CmdRecord
<1>4. install' \in [Tools \X (0..MaxPin) -> InstallRecord]
  BY <1>1, <1>3 DEF MovedBack
<1>5. litter' \subseteq {"partial", "staging", "backup"}
  BY <1>1, <1>3
<1> QED BY <1>1, <1>2, <1>3, <1>4, <1>5, EndsInv

\* A command dies.
LEMMA DieInv == ASSUME BootTypes, BootInv, Die PROVE BootTypes' /\ BootInv'
<1>1. cmd' = Idle /\ last' = "died" /\ Fault(1) /\ UNCHANGED <<files, touched, torn>>
  BY DEF Die, End
<1> QED BY <1>1, FaultIs, EndsOnly

-----------------------------------------------------------------------------
\* What changes meanwhile

\* A change from outside leaves the command where it is.
LEMMA TouchIs ==
  ASSUME BootTypes, BootInv, NEW what, Touch(what)
  PROVE  /\ touched' = touched \cup {what} /\ touched' # {} /\ last' = last
         /\ torn' \in {torn, torn \cup {what}} /\ (Unrecorded(what) => what \in torn')
         /\ cmd' \in CmdRecord /\ cmd'.pc = cmd.pc /\ cmd'.kind = cmd.kind /\ cmd'.stage = cmd.stage /\ cmd'.backup = cmd.backup
         /\ cmd'.before = cmd.before /\ cmd'.found = cmd.found /\ cmd'.installed = cmd.installed /\ cmd'.litter = cmd.litter
         /\ cmd'.read = cmd.read /\ cmd'.attempt = cmd.attempt /\ (cmd'.clean => At("idle")) /\ (At("idle") => cmd' = cmd)
<1>1. CASE At("idle")
  BY <1>1 DEF Touch, BootTypes
<1>2. CASE ~At("idle")
  BY <1>2 DEF Touch, BootTypes, CmdRecord
<1> QED BY <1>1, <1>2

\* What holds of the command and of success holds whatever is touched.
LEMMA TouchInv ==
  ASSUME BootTypes, BootInv, NEW what, Touch(what), pin' \in PinRecord, cmd.kind \in {"none", "update"} \/ pin' = pin
  PROVE  /\ CmdFits' /\ LocksKept' /\ PassedIsCurrent' /\ SuccessIsCurrent' /\ CleanGoesOn'
         /\ UNCHANGED litter => LitterIsOwn'
<1>1. /\ touched' # {} /\ last' = last
      /\ cmd' \in CmdRecord /\ cmd'.pc = cmd.pc /\ cmd'.kind = cmd.kind /\ cmd'.stage = cmd.stage /\ cmd'.backup = cmd.backup
      /\ cmd'.before = cmd.before /\ cmd'.found = cmd.found /\ cmd'.installed = cmd.installed /\ cmd'.litter = cmd.litter
      /\ cmd'.read = cmd.read /\ cmd'.attempt = cmd.attempt /\ (cmd'.clean => At("idle")) /\ (At("idle") => cmd' = cmd)
  BY TouchIs
<1>2. Stage' = Stage /\ OwnLitter' = OwnLitter
  BY <1>1 DEF Stage, OwnLitter, At
<1>3. CmdFits'
  BY <1>1, <1>2 DEF BootInv, CmdFits, At
<1>4. CleanGoesOn'
  BY <1>1, IdleIs DEF BootInv, CleanGoesOn, CmdFits, At
<1>5. LocksKept' /\ PassedIsCurrent' /\ SuccessIsCurrent'
  BY <1>1 DEF LocksKept, PassedIsCurrent, SuccessIsCurrent
<1>6. litter' = litter => LitterIsOwn'
  BY <1>1, <1>2 DEF BootInv, LitterIsOwn, At
<1> QED BY <1>3, <1>4, <1>5, <1>6

\* Damage to what is under .tools, or new pins: the tools are touched.
LEMMA ToolsTouched ==
  ASSUME BootTypes, BootInv, Touch("tools"), UNCHANGED <<golock, gosrc, gobin, modcache, signature, space, litter>>,
         pin' \in PinRecord, cmd.kind \in {"none", "update"} \/ pin' = pin,
         install' \in [Tools \X (0..MaxPin) -> InstallRecord], cache' \in [Tools \X Pins -> {"absent", "good", "bad"}],
         \A d \in DOMAIN install : install[d] # NoInstall => install'[d] # NoInstall,
         used' \in [edits : 0..MaxEdits, faults : Nat, commands : Nat], used'.edits >= used.edits
  PROVE  BootTypes' /\ BootInv'
<1>1. /\ "tools" \in touched' /\ last' = last /\ torn' \in {torn, torn \cup {"tools"}}
      /\ cmd' \in CmdRecord /\ cmd'.pc = cmd.pc /\ cmd'.kind = cmd.kind /\ cmd'.stage = cmd.stage /\ cmd'.backup = cmd.backup
      /\ cmd'.before = cmd.before /\ cmd'.installed = cmd.installed /\ cmd'.read = cmd.read /\ cmd'.attempt = cmd.attempt
  BY TouchIs
<1>2. Stage' = Stage
  BY <1>1 DEF Stage
<1>3. BootTypes'
  BY <1>1 DEF BootTypes
<1>4. CmdFits' /\ LocksKept' /\ PassedIsCurrent' /\ SuccessIsCurrent' /\ CleanGoesOn' /\ LitterIsOwn'
  BY TouchInv
<1>5. VersionsCounted'
  <2>1. used.edits \in Nat /\ used'.edits \in Nat
    BY DEF BootTypes
  <2>2. \A v \in Nat : v <= used.edits + 1 => v <= used'.edits + 1
    BY <2>1
  <2>3. golock \in GoLocks /\ (signature \in GoLocks \/ signature = [mod |-> NoLock, sum |-> NoLock]) 
        /\ (cmd.pc \in GoPcs => cmd.before \in GoLocks) /\ (cmd.pc \in WritePcs => cmd.read \in Proposal)
    BY DEF BootTypes, BootInv, CmdFits
  <2>4. \A l \in GoLocks \cup {[mod |-> NoLock, sum |-> NoLock]} : l.mod.version \in Nat /\ l.sum.version \in Nat
    BY DEF GoLocks, GoLockRecord, NoLock
  <2>5. \A l \in GoLocks \cup {[mod |-> NoLock, sum |-> NoLock]} : UpTo(l) => UpTo(l)'
    BY <2>2, <2>4 DEF UpTo
  <2> QED BY <1>1, <2>3, <2>5 DEF BootInv, VersionsCounted, Proposal, UpTo
<1>6. Warm'
  BY <1>1 DEF BootInv, Warm, At
<1>7. ManifestIsPast' /\ Wiped' /\ Recorded'
  BY <1>1, <1>2 DEF BootInv, ManifestIsPast, Wiped, Recorded, Current, At
<1>8. ToolsReady'
  BY <1>1 DEF ToolsReady
<1>9. InstallsKept'
  <2>1. SUFFICES ASSUME NEW d \in cmd.installed
                 PROVE  IF At("swap")' /\ d = Dir(Stage)' THEN cmd'.backup # NoInstall ELSE install'[d] # NoInstall
    BY <1>1 DEF InstallsKept
  <2>2. d \in DOMAIN install
    BY DEF BootTypes, CmdRecord
  <2>3. At("swap") => Dir(Stage)' = Dir(Stage)
    <3>1. At("swap") => cmd.kind = "bootstrap"
      BY DEF BootInv, CmdFits, At, KindOf, BuildPcs, WritePcs
    <3>2. pin' = pin => Dir(Stage)' = Dir(Stage)
      BY <1>2 DEF Dir
    <3> QED BY <3>1, <3>2
  <2> QED BY <1>1, <2>2, <2>3 DEF BootInv, InstallsKept, At
<1> QED BY <1>3, <1>4, <1>5, <1>6, <1>7, <1>8, <1>9 DEF BootInv

\* Files under .tools are damaged.
LEMMA DamageInv == ASSUME BootTypes, BootInv, Damage PROVE BootTypes' /\ BootInv'
<1>1. /\ Fault(1) /\ Touch("tools")
      /\ UNCHANGED <<pin, golock, gosrc, gobin, modcache, signature, space, root, pinned, litter>>
      /\ pin \in PinRecord
  BY DEF Damage, BootTypes
<1>2. used' \in [edits : 0..MaxEdits, faults : Nat, commands : Nat] /\ used'.edits >= used.edits
  <2>1. used.edits \in Nat
    BY DEF BootTypes
  <2> QED BY <1>1, <2>1, FaultIs
<1>3. ASSUME NEW d \in DOMAIN install, install[d].content # Absent, install' = [install EXCEPT ![d].content = Altered], cache' = cache
      PROVE  BootTypes' /\ BootInv'
  <2>1. install[d] \in InstallRecord /\ Altered \in (-1)..MaxPin
    BY BootBounds DEF BootTypes, Altered
  <2>2. [install[d] EXCEPT !.content = Altered] \in InstallRecord
    BY <2>1 DEF InstallRecord
  <2>3. install' = [install EXCEPT ![d] = [install[d] EXCEPT !.content = Altered]]
    BY <1>3
  <2>4. install' \in [Tools \X (0..MaxPin) -> InstallRecord]
    BY <2>2, <2>3 DEF BootTypes
  <2>5. [install[d] EXCEPT !.content = Altered] # NoInstall
    BY <2>1 DEF NoInstall, Altered, Absent, InstallRecord
  <2>6. \A e \in DOMAIN install : install[e] # NoInstall => install'[e] # NoInstall
    BY <2>3, <2>5
  <2> QED BY <1>1, <1>2, <1>3, <2>4, <2>6, ToolsTouched DEF BootTypes
<1>4. ASSUME NEW a \in DOMAIN cache, cache' = [cache EXCEPT ![a] = "bad"], install' = install
      PROVE  BootTypes' /\ BootInv'
  <2>1. cache' \in [Tools \X Pins -> {"absent", "good", "bad"}] /\ install \in [Tools \X (0..MaxPin) -> InstallRecord]
    BY <1>4 DEF BootTypes
  <2> QED BY <1>1, <1>2, <1>4, <2>1, ToolsTouched
<1>5. \/ \E d \in DOMAIN install : install[d].content # Absent /\ install' = [install EXCEPT ![d].content = Altered] /\ cache' = cache
      \/ \E a \in DOMAIN cache : cache' = [cache EXCEPT ![a] = "bad"] /\ install' = install
  BY DEF Damage
<1> QED BY <1>3, <1>4, <1>5

\* Sources and lock files only get later.
LEMMA SourcesTouched ==
  ASSUME BootTypes, BootInv, NEW what \in {"go", "source", "spaces"}, Touch(what),
         UNCHANGED <<pin, install, cache, gobin, modcache, signature, root, pinned, litter>>,
         golock' \in GoLocks, golock'.mod.version <= used'.edits + 1, golock'.sum.version <= used'.edits + 1, what # "go" => golock' = golock, gosrc' \in Nat,
         space' \in [Spaces -> SpaceRecord], what # "spaces" => space' = space,
         used' \in [edits : 0..MaxEdits, faults : Nat, commands : Nat], used'.edits = used.edits + 1,
         \A w \in Spaces :
           /\ space'[w].manifest = space[w].manifest /\ space'[w].dist = space[w].dist
           /\ space'[w].src >= space[w].src /\ space'[w].lock.version >= space[w].lock.version
           /\ space'[w].lock # space[w].lock => space'[w].lock.version > space[w].lock.version
  PROVE  BootTypes' /\ BootInv'
<1>1. /\ touched' = touched \cup {what} /\ last' = last /\ torn' \in {torn, torn \cup {what}} /\ (Unrecorded(what) => what \in torn')
      /\ cmd' \in CmdRecord /\ cmd'.pc = cmd.pc /\ cmd'.kind = cmd.kind /\ cmd'.stage = cmd.stage /\ cmd'.backup = cmd.backup
      /\ cmd'.before = cmd.before /\ cmd'.installed = cmd.installed /\ cmd'.read = cmd.read /\ cmd'.attempt = cmd.attempt
  BY TouchIs
<1>2. Stage' = Stage /\ \A t : Dir(t)' = Dir(t)
  BY <1>1 DEF Stage, Dir
<1>3. BootTypes'
  BY <1>1 DEF BootTypes
<1>4. CmdFits' /\ LocksKept' /\ PassedIsCurrent' /\ SuccessIsCurrent' /\ CleanGoesOn' /\ LitterIsOwn'
  BY TouchInv DEF BootTypes
<1>5. VersionsCounted'
  <2>1. used.edits \in Nat
    BY DEF BootTypes
  <2>2. golock' \in GoLocks /\ (signature \in GoLocks \/ signature = [mod |-> NoLock, sum |-> NoLock])
        /\ (cmd.pc \in GoPcs => cmd.before \in GoLocks) /\ (cmd.pc \in WritePcs => cmd.read \in Proposal)
    BY DEF BootTypes, BootInv, CmdFits
  <2>3. \A l \in GoLocks \cup {[mod |-> NoLock, sum |-> NoLock]} : l.mod.version \in Nat /\ l.sum.version \in Nat
    BY DEF GoLocks, GoLockRecord, NoLock
  <2>4. \A l \in GoLocks \cup {[mod |-> NoLock, sum |-> NoLock]} :
          UpTo(l) => l.mod.version <= used'.edits + 1 /\ l.sum.version <= used'.edits + 1
    BY <2>1, <2>3 DEF UpTo
  <2> QED BY <1>1, <2>2, <2>4 DEF BootInv, VersionsCounted, Proposal, UpTo
<1>6. Warm'
  <2>1. CASE what = "go" /\ At("download")
    <3>1. "go" \in torn'
      BY <1>1, <2>1 DEF Unrecorded
    <3> QED BY <3>1 DEF Warm
  <2>2. CASE At("download") /\ what # "go"
    BY <1>1, <2>2 DEF BootInv, Warm, At
  <2>3. CASE ~At("download")
    BY <1>1, <2>3 DEF BootInv, Warm, At
  <2> QED BY <2>1, <2>2, <2>3
<1>7. \A w \in Spaces : /\ space[w] \in SpaceRecord /\ space'[w] \in SpaceRecord
                        /\ space[w].src \in Nat /\ space'[w].src \in Nat
                        /\ space[w].lock.version \in Nat /\ space'[w].lock.version \in Nat
                        /\ Current(w)' = <<space'[w].src, space'[w].lock>> /\ Current(w) = <<space[w].src, space[w].lock>>
  BY SpacesAre DEF SpaceRecord, NpmLock, Current
<1>8. "frontend" \in Spaces /\ "linear" \in Spaces /\ Spaces = {"frontend", "linear"}
  BY SpacesAre
<1>9. ManifestIsPast'
  <2>1. SUFFICES ASSUME space["frontend"].manifest # Nothing
                 PROVE  /\ space["frontend"].manifest[1] <= space'["frontend"].src
                        /\ space["frontend"].manifest[2].version <= space'["frontend"].lock.version
                        /\ space["frontend"].manifest[2].version = space'["frontend"].lock.version =>
                             space["frontend"].manifest[2] = space'["frontend"].lock
    BY <1>8 DEF ManifestIsPast
  <2>2. /\ space["frontend"].manifest[1] <= space["frontend"].src
        /\ space["frontend"].manifest[2].version <= space["frontend"].lock.version
        /\ space["frontend"].manifest[2].version = space["frontend"].lock.version =>
             space["frontend"].manifest[2] = space["frontend"].lock
    BY <2>1 DEF BootInv, ManifestIsPast
  <2>3. space["frontend"].manifest[1] \in Nat /\ space["frontend"].manifest[2].version \in Nat
    BY <1>7, <1>8 DEF SpaceRecord, Built, NpmLock, NoLock
  <2>4. /\ space'["frontend"].src >= space["frontend"].src /\ space'["frontend"].lock.version >= space["frontend"].lock.version
        /\ space'["frontend"].lock # space["frontend"].lock => space'["frontend"].lock.version > space["frontend"].lock.version
    BY <1>8
  <2>5. space["frontend"].manifest[1] <= space'["frontend"].src
    BY <1>7, <1>8, <2>2, <2>3, <2>4
  <2>6. CASE space'["frontend"].lock = space["frontend"].lock
    BY <2>2, <2>5, <2>6
  <2>7. CASE space'["frontend"].lock # space["frontend"].lock
    BY <1>7, <1>8, <2>2, <2>3, <2>4, <2>5, <2>7
  <2> QED BY <2>6, <2>7
<1>10. Wiped'
  <2>1. cmd.pc \in NpmPcs => Stage \in Spaces
    BY DEF BootInv, CmdFits
  <2>2. cmd.attempt > 0 => cmd.pc = "ci"
    BY DEF BootInv, Wiped, At
  <2> QED BY <1>1, <1>2, <2>1, <2>2 DEF BootInv, Wiped, At, NpmPcs
<1>11. Recorded'
  <2>1. SUFFICES ASSUME "spaces" \notin torn'
                 PROVE  /\ space'["frontend"].manifest = Current("frontend")' => space'["frontend"].dist = Current("frontend")'
                        /\ space'["linear"].manifest # Nothing => space'["linear"].dist[2] = space'["linear"].manifest[2]
                        /\ At("manifest")' => space'[Stage'].dist = Current(Stage)'
                        /\ At("distmanifest")' => space'["frontend"].dist = Current("frontend")'
    BY DEF Recorded
  <2>2. /\ space["frontend"].manifest = Current("frontend") => space["frontend"].dist = Current("frontend")
        /\ space["linear"].manifest # Nothing => space["linear"].dist[2] = space["linear"].manifest[2]
        /\ At("manifest") => space[Stage].dist = Current(Stage)
        /\ At("distmanifest") => space["frontend"].dist = Current("frontend")
    BY <1>1, <2>1 DEF BootInv, Recorded
  <2>3. space'["linear"].manifest # Nothing => space'["linear"].dist[2] = space'["linear"].manifest[2]
    BY <1>8, <2>2
  <2>4. At("manifest")' \/ At("distmanifest")' => space' = space
    BY <1>1, <2>1 DEF Unrecorded, At
  <2>5. /\ At("manifest")' => space'[Stage'].dist = Current(Stage)'
        /\ At("distmanifest")' => space'["frontend"].dist = Current("frontend")'
    BY <1>1, <1>2, <2>2, <2>4 DEF At, Current
  <2>6. ASSUME space'["frontend"].manifest = Current("frontend")' PROVE Current("frontend")' = Current("frontend")
    <3>1. space["frontend"].manifest = <<space'["frontend"].src, space'["frontend"].lock>>
      BY <1>7, <1>8, <2>6
    <3>2. space["frontend"].manifest # Nothing
      BY <1>7, <1>8, <3>1, SpacesAre DEF SpaceRecord
    <3>3. space'["frontend"].src <= space["frontend"].src /\ space'["frontend"].lock.version <= space["frontend"].lock.version
      BY <3>1, <3>2 DEF BootInv, ManifestIsPast
    <3>4. space'["frontend"].src >= space["frontend"].src /\ space'["frontend"].lock.version >= space["frontend"].lock.version
          /\ (space'["frontend"].lock # space["frontend"].lock => space'["frontend"].lock.version > space["frontend"].lock.version)
      BY <1>8
    <3>5. space'["frontend"].src = space["frontend"].src /\ space'["frontend"].lock = space["frontend"].lock
      BY <1>7, <1>8, <3>3, <3>4
    <3> QED BY <1>7, <1>8, <3>5
  <2> QED BY <1>8, <2>2, <2>3, <2>5, <2>6
<1>12. ToolsReady' /\ InstallsKept'
  BY <1>1, <1>2 DEF BootInv, ToolsReady, InstallsKept, At
<1> QED BY <1>3, <1>4, <1>5, <1>6, <1>9, <1>10, <1>11, <1>12 DEF BootInv

\* Pins, sources and lock files are edited.
LEMMA EditInv == ASSUME BootTypes, BootInv, Edit PROVE BootTypes' /\ BootInv'
<1>1. /\ used.edits < MaxEdits /\ used' = [used EXCEPT !.edits = @ + 1]
      /\ UNCHANGED <<install, cache, gobin, modcache, signature, root, pinned, litter>>
  BY DEF Edit
<1>2. /\ used.edits \in Nat /\ used'.edits = used.edits + 1 /\ used'.edits >= used.edits
      /\ used' \in [edits : 0..MaxEdits, faults : Nat, commands : Nat]
  <2>1. used \in [edits : 0..MaxEdits, faults : Nat, commands : Nat] /\ MaxEdits \in Nat
    BY BootBounds DEF BootTypes
  <2>2. used.edits \in Nat /\ used.edits + 1 \in 0..MaxEdits /\ used.edits + 1 >= used.edits
    BY <1>1, <2>1
  <2>3. used'.edits = used.edits + 1
    BY <1>1, <2>1
  <2> QED BY <1>1, <2>1, <2>2, <2>3
<1>3. /\ pin \in PinRecord /\ golock \in GoLocks /\ UpTo(golock) /\ gosrc \in Nat /\ space \in [Spaces -> SpaceRecord]
      /\ install \in [Tools \X (0..MaxPin) -> InstallRecord] /\ cache \in [Tools \X Pins -> {"absent", "good", "bad"}]
  BY DEF BootTypes, BootInv, VersionsCounted
<1>4. \A w \in Spaces : space[w] \in SpaceRecord /\ space[w].src \in Nat /\ space[w].lock \in NpmLock /\ space[w].lock.version \in Nat
  BY SpacesAre DEF SpaceRecord, NpmLock
<1>5. ASSUME NEW t \in DOMAIN pin, NEW p \in {Absent} \cup Pins, pin' = [pin EXCEPT ![t] = p],
             cmd.kind \in {"none", "update"}, Touch("tools"), UNCHANGED <<golock, gosrc, space>>
      PROVE  BootTypes' /\ BootInv'
  <2>1. pin' \in PinRecord
    BY <1>3, <1>5, BootBounds DEF PinRecord, Absent, Pins
  <2> QED BY <1>1, <1>2, <1>3, <1>5, <2>1, ToolsTouched
<1>6. CASE golock' = GoLock(golock.mod.version + 1) /\ Touch("go") /\ UNCHANGED <<pin, gosrc, space>>
  <2>1. golock.mod.version \in Nat /\ golock.mod.version <= used.edits + 1
    BY <1>3 DEF GoLocks, GoLockRecord, UpTo
  <2>2. golock' \in GoLocks /\ golock'.mod.version = golock.mod.version + 1 /\ golock'.sum.version = golock.mod.version + 1
    BY <1>6, <2>1 DEF GoLock, Committed, GoLocks, GoLockRecord, Shapes
  <2>3. golock'.mod.version <= used'.edits + 1 /\ golock'.sum.version <= used'.edits + 1
    BY <1>2, <2>1, <2>2
  <2> QED BY <1>1, <1>2, <1>3, <1>4, <1>6, <2>2, <2>3, SourcesTouched
<1>7. CASE gosrc' = gosrc + 1 /\ Touch("source") /\ UNCHANGED <<pin, golock, space>>
  <2>1. golock.mod.version <= used'.edits + 1 /\ golock.sum.version <= used'.edits + 1
    BY <1>2, <1>3 DEF UpTo, GoLocks, GoLockRecord
  <2> QED BY <1>1, <1>2, <1>3, <1>4, <1>7, <2>1, SourcesTouched
<1>8. ASSUME NEW w \in Spaces, Touch("spaces"), UNCHANGED <<pin, golock, gosrc>>,
             \/ space' = [space EXCEPT ![w].src = @ + 1]
             \/ space' = [space EXCEPT ![w].lock = Committed(@.version + 1)]
      PROVE  BootTypes' /\ BootInv'
  <2>1. UpTo(golock)
    BY <1>3
  <2>2. \/ space'[w] = [space[w] EXCEPT !.src = space[w].src + 1]
        \/ space'[w] = [space[w] EXCEPT !.lock = Committed(space[w].lock.version + 1)]
    BY <1>3, <1>8
  <2>3. \A v \in Spaces : v # w => space'[v] = space[v]
    BY <1>3, <1>8
  <2>4. Committed(space[w].lock.version + 1) \in NpmLock /\ Committed(space[w].lock.version + 1).version = space[w].lock.version + 1
    BY <1>4, <1>8 DEF Committed, NpmLock
  <2>5. /\ space'[w] \in SpaceRecord /\ space'[w].manifest = space[w].manifest /\ space'[w].dist = space[w].dist
        /\ space'[w].src >= space[w].src
    BY <1>4, <1>8, <2>2, <2>4 DEF SpaceRecord
  <2>6. /\ space'[w].lock = space[w].lock \/ space'[w].lock = Committed(space[w].lock.version + 1)
    BY <1>4, <1>8, <2>2 DEF SpaceRecord
  <2>7. /\ space'[w].lock.version >= space[w].lock.version
        /\ space'[w].lock # space[w].lock => space'[w].lock.version > space[w].lock.version
    BY <1>4, <2>4, <2>6
  <2>8. space' \in [Spaces -> SpaceRecord]
    <3>1. DOMAIN space' = Spaces /\ space' = [v \in Spaces |-> space'[v]]
      BY <1>3, <1>8
    <3> QED BY <1>3, <2>3, <2>5, <3>1
  <2>9. \A v \in Spaces :
           /\ space'[v].manifest = space[v].manifest /\ space'[v].dist = space[v].dist
           /\ space'[v].src >= space[v].src /\ space'[v].lock.version >= space[v].lock.version
           /\ space'[v].lock # space[v].lock => space'[v].lock.version > space[v].lock.version
    BY <1>4, <2>3, <2>5, <2>7
  <2>10. golock.mod.version <= used'.edits + 1 /\ golock.sum.version <= used'.edits + 1
    BY <1>2, <1>3 DEF UpTo, GoLocks, GoLockRecord
  <2> QED BY <1>1, <1>2, <1>3, <1>8, <2>1, <2>8, <2>9, <2>10, SourcesTouched
<1>9. \/ \E t \in DOMAIN pin, p \in {Absent} \cup Pins :
            pin' = [pin EXCEPT ![t] = p] /\ cmd.kind \in {"none", "update"} /\ Touch("tools") /\ UNCHANGED <<golock, gosrc, space>>
      \/ golock' = GoLock(golock.mod.version + 1) /\ Touch("go") /\ UNCHANGED <<pin, gosrc, space>>
      \/ gosrc' = gosrc + 1 /\ Touch("source") /\ UNCHANGED <<pin, golock, space>>
      \/ \E w \in Spaces : /\ Touch("spaces") /\ UNCHANGED <<pin, golock, gosrc>>
                           /\ \/ space' = [space EXCEPT ![w].src = @ + 1]
                              \/ space' = [space EXCEPT ![w].lock = Committed(@.version + 1)]
  BY DEF Edit
<1>10. CASE \E t \in DOMAIN pin, p \in {Absent} \cup Pins :
             pin' = [pin EXCEPT ![t] = p] /\ cmd.kind \in {"none", "update"} /\ Touch("tools") /\ UNCHANGED <<golock, gosrc, space>>
  BY <1>5, <1>10
<1>11. CASE \E w \in Spaces : /\ Touch("spaces") /\ UNCHANGED <<pin, golock, gosrc>>
                              /\ \/ space' = [space EXCEPT ![w].src = @ + 1]
                                 \/ space' = [space EXCEPT ![w].lock = Committed(@.version + 1)]
  BY <1>8, <1>11
<1> QED BY <1>6, <1>7, <1>9, <1>10, <1>11

-----------------------------------------------------------------------------
\* All steps

\* What a fresh checkout has
LEMMA BootstrapStarts == ASSUME Init PROVE BootTypes /\ BootInv
<1>1. /\ cmd = Idle /\ cmd.pc = "idle" /\ cmd.kind = "none" /\ cmd.attempt = 0 /\ cmd.installed = {} /\ cmd \in CmdRecord
      /\ "idle" \notin GoPcs \cup NpmPcs \cup BuildPcs \cup WritePcs \cup InstallPcs
  BY IdleIs DEF Init, GoPcs, NpmPcs, WritePcs, BuildPcs, InstallPcs
<1>2. golock = GoLock(1) /\ GoLock(1) \in GoLocks /\ UpTo(golock)
  BY BootBounds DEF Init, GoLock, Committed, GoLocks, GoLockRecord, Shapes, UpTo
<1>3. NoInstall \in InstallRecord /\ 1 \in 0..MaxPin /\ 0 \in 0..MaxPin
  BY BootBounds DEF NoInstall, InstallRecord, Absent
<1>4. [src |-> 1, lock |-> Committed(1), modules |-> FALSE, dist |-> Nothing, manifest |-> Nothing] \in SpaceRecord
  BY DEF SpaceRecord, Committed, NpmLock, Nothing, Built
<1>5. used \in [edits : 0..MaxEdits, faults : Nat, commands : Nat] /\ used.edits = 0
  BY BootBounds DEF Init
<1>6. BootTypes
  BY <1>1, <1>2, <1>3, <1>4, <1>5 DEF Init, BootTypes, PinRecord
<1>7. CmdFits
  BY <1>1 DEF CmdFits, At, KindOf, IdleIs
<1>8. VersionsCounted
  BY <1>1, <1>2, <1>5 DEF Init, VersionsCounted, UpTo, NoLock
<1>9. Warm /\ LitterIsOwn /\ LocksKept /\ CleanGoesOn /\ ToolsReady /\ InstallsKept
  BY <1>1 DEF Init, Warm, LitterIsOwn, LocksKept, CleanGoesOn, ToolsReady, InstallsKept, At, GoPcs
<1>10. PassedIsCurrent /\ SuccessIsCurrent
  BY <1>1 DEF Init, PassedIsCurrent, SuccessIsCurrent, At, BuildPcs
<1>11. /\ space["frontend"].manifest = Nothing /\ space["linear"].manifest = Nothing /\ Current("frontend") # Nothing
  BY <1>6, SpacesAre DEF Init
<1>12. ManifestIsPast /\ Wiped /\ Recorded
  BY <1>1, <1>11 DEF ManifestIsPast, Wiped, Recorded, At, NpmPcs
<1> QED BY <1>6, <1>7, <1>8, <1>9, <1>10, <1>12 DEF BootInv

\* Every step of a command keeps the invariant.
LEMMA CommandInv == ASSUME BootTypes, BootInv, Command PROVE BootTypes' /\ BootInv'
<1>1. CASE InstallStep
  BY <1>1, InstallTypes, InstallElsewhere, InstallReady, InstallKept, InstallLitter, InstallClean DEF BootInv
<1>2. CASE GoLockBefore \/ GoModLockSignature \/ BuildProject \/ installGoInstallTools
  BY <1>2, GoLockBeforeInv, GoModLockSignatureInv, BuildProjectInv, GoInstallInv
<1>3. CASE (\E s \in Shapes : GoModDownload("committed", s)) \/ GoModDownload("rewritten", "expanded")
  BY <1>3, GoModDownloadInv DEF Shapes
<1>4. CASE runFrontendBuild \/ (\E s \in {"committed", "rewritten"} : npmCI(s)) \/ runNpmCIWithRetry \/ npmBuild \/ WriteFrontendBuildManifest
  BY <1>4, RunFrontendInv, NpmCIInv, NpmRetryInv, NpmBuildInv, WriteManifestInv
<1>5. CASE (\E write \in BOOLEAN : BuildToolsUpdateProposal(write)) \/ applyToolchainTOMLProposal \/ applyGoModProposal
           \/ applyGoSumProposal \/ applyPackageLockProposal
  BY <1>5, ProposalInv, WritesInv, PackageLockInv
<1>6. CASE ensureGoModCacheFresh \/ ensureFrontendDistFresh \/ RecordDist \/ runBuild \/ TruncatePinned \/ refreshPinnedGolcProject
  BY <1>6, CacheFreshInv, DistFreshInv, RecordDistInv, RunBuildInv, TruncateInv, RefreshInv
<1> QED BY <1>1, <1>2, <1>3, <1>4, <1>5, <1>6 DEF Command, InstallStep

\* Every step does.
LEMMA BootstrapKeeps == ASSUME BootTypes, BootInv, [Next]_vars PROVE BootTypes' /\ BootInv'
<1>1. CASE runBootstrap \/ startBuild \/ runToolsUpdate
  <2>1. KindOf("pins") = "bootstrap" /\ KindOf("build") = "build" /\ KindOf("propose") = "update"
    BY DEF KindOf, BuildPcs, WritePcs
  <2> QED BY <1>1, <2>1, StartInv DEF runBootstrap, startBuild, runToolsUpdate
<1>2. CASE Command
  BY <1>2, CommandInv
<1>3. CASE StepFails \/ UndoFails \/ Die \/ Damage \/ Edit
  BY <1>3, StepFailsInv, UndoFailsInv, DieInv, DamageInv, EditInv
<1>4. CASE UNCHANGED vars
  <2>1. Stage' = Stage /\ Archive' = Archive /\ OwnLitter' = OwnLitter
    BY <1>4 DEF vars, Stage, Archive, OwnLitter, At
  <2>2. (\A t : Dir(t)' = Dir(t)) /\ (\A w : Current(w)' = Current(w)) /\ (\A p : Passed(p)' = Passed(p))
    BY <1>4 DEF vars, Dir, Current, Passed
  <2>3. BootTypes' /\ CmdFits' /\ VersionsCounted' /\ Warm' /\ ManifestIsPast' /\ Wiped'
    BY <1>4, <2>1 DEF vars, BootTypes, BootInv, CmdFits, VersionsCounted, UpTo, Warm, ManifestIsPast, Wiped, At
  <2>4. Recorded' /\ ToolsReady' /\ InstallsKept' /\ LitterIsOwn' /\ LocksKept'
    BY <1>4, <2>1, <2>2 DEF vars, BootInv, Recorded, ToolsReady, InstallsKept, LitterIsOwn, LocksKept, At
  <2>5. PassedIsCurrent' /\ SuccessIsCurrent' /\ CleanGoesOn'
    BY <1>4, <2>1, <2>2 DEF vars, BootInv, PassedIsCurrent, SuccessIsCurrent, CleanGoesOn, At
  <2> QED BY <2>3, <2>4, <2>5 DEF BootInv
<1> QED BY <1>1, <1>2, <1>3, <1>4 DEF Next

\* The inductive invariant of the tooling holds whatever fails, dies, is damaged or edited.
THEOREM BootstrapInvariant == Spec => [](BootTypes /\ BootInv)
<1>1. Init => BootTypes /\ BootInv
  BY BootstrapStarts
<1>2. (BootTypes /\ BootInv) /\ [Next]_vars => (BootTypes /\ BootInv)'
  BY BootstrapKeeps
<1> QED BY <1>1, <1>2, PTL DEF Spec

-----------------------------------------------------------------------------
\* What bootstrap leaves can be relied on

\* The types of the model's own type invariant
LEMMA BootTypeOK == ASSUME BootTypes, BootInv PROVE TypeOK
<1>1. pin \in [Tools \cup {Optional} -> 0..MaxPin] /\ gobin \in 0..MaxPin
  BY DEF BootTypes, PinRecord
<1>2. \A d \in DOMAIN install : install[d].manifest \in 0..MaxPin /\ install[d].content \in -1..MaxPin
  BY DEF BootTypes, InstallRecord
<1>3. \A a \in DOMAIN cache : cache[a] \in {"absent", "good", "bad"}
  BY DEF BootTypes
<1>4. golock.sum.shape \in Shapes
  BY DEF BootTypes, GoLocks, GoLockRecord
<1>5. signature.sum.version \in 0..(MaxEdits + 1)
  <2>1. signature.sum.version \in Nat /\ signature.sum.version <= used.edits + 1 /\ used.edits \in 0..MaxEdits
    BY DEF BootTypes, BootInv, VersionsCounted, UpTo, GoLocks, GoLockRecord, NoLock
  <2> QED BY <2>1, BootBounds
<1>6. /\ last \in {"none", "ok", "built", "checked", "updated", "failed", "unrestored", "died"}
      /\ cmd.stage \in 0..Len(Stages) /\ cmd.attempt \in 0..(NpmAttempts - 1)
  BY DEF BootTypes, CmdRecord
<1> QED BY <1>1, <1>2, <1>3, <1>4, <1>5, <1>6 DEF TypeOK

\* A lock file that is there is not no lock file.
LEMMA LocksAreNot ==
  /\ \A l \in GoLockRecord : l # NoLock
  /\ \A l \in NpmLock : l # NoLock
BY DEF GoLockRecord, Shapes, NpmLock, NoLock

\* A signed cache is warm, a fresh build is of these sources, tools are the pinned ones.
LEMMA OrderFromInv == ASSUME BootTypes, BootInv PROVE LeftInOrder
<1>1. RunsOnPinnedTools
  BY DEF BootInv, ToolsReady, RunsOnPinnedTools
<1>2. SignedCacheIsWarm
  <2>1. golock.mod # NoLock
    BY LocksAreNot DEF BootTypes, GoLocks
  <2> QED BY <2>1 DEF BootInv, Warm, SignedCacheIsWarm
<1>3. FreshIsBuilt
  <2>1. space["linear"].lock # NoLock /\ Nothing[2] = NoLock
    BY SpacesAre, LocksAreNot DEF SpaceRecord, Nothing
  <2> QED BY <2>1 DEF BootInv, Recorded, FreshIsBuilt, FrontendDistFresh, npmInstallMatches
<1> QED BY <1>1, <1>2, <1>3, BootTypeOK DEF LeftInOrder, BootInv

\* What bootstrap leaves behind can be relied on after any failure: a build that
\* finds the recorded signature finds the modules, a frontend that counts as
\* fresh is of these sources, a stage runs on the pinned tools, and success is
\* of everything as it is.
THEOREM BootstrapLeftInOrder == Spec => []LeftInOrder
<1>1. BootTypes /\ BootInv => LeftInOrder
  BY OrderFromInv
<1> QED BY <1>1, BootstrapInvariant, PTL

-----------------------------------------------------------------------------
\* What a command that fails puts back

\* The end of a command that neither died nor failed in undoing what it did.
Ends == ~At("idle") /\ cmd' = Idle /\ last' \notin {"unrestored", "died"}

\* Where it can end, and what that changes.
PlainEnd ==
  /\ cmd.pc \notin GoPcs \cup NpmPcs \cup {"verify", "unpack", "inventory", "promote", "swap", "cleanup"}
  /\ UNCHANGED <<install, litter, golock>> /\ \A w \in Spaces : space'[w].lock = space[w].lock

FailedInstall ==
  /\ cmd.pc \in InstallPcs /\ install' = MovedBack /\ litter' = litter \ Cleared /\ UNCHANGED <<golock, space>>

LastCleanup == At("cleanup") /\ litter' \subseteq litter /\ UNCHANGED <<install, golock, space>>

GoEnd == cmd.pc \in GoPcs /\ RestoreGoLock /\ UNCHANGED <<install, litter, space>>

NpmEnd ==
  /\ cmd.pc \in NpmPcs /\ UNCHANGED <<install, litter, golock>>
  /\ space'[Stage].lock = cmd.before /\ \A w \in Spaces : w # Stage => space'[w] = space[w]

\* No command is like the one that goes on to p.
LEMMA GoesNotIdle == ASSUME BootTypes, NEW p, p # "idle", cmd' = [cmd EXCEPT !.pc = p] PROVE cmd' # Idle
BY IdleIs DEF BootTypes, CmdRecord

\* The same with fields before
LEMMA RunsOn == ASSUME BootTypes, NEW p, p # "idle", cmd'.pc = p PROVE cmd' # Idle
BY IdleIs

\* The ends of an install
LEMMA InstallEnds == ASSUME BootTypes, BootInv, InstallStep, Ends PROVE touched' = touched /\ (PlainEnd \/ LastCleanup)
<1>1. /\ UNCHANGED InstallVars /\ cmd.kind = "bootstrap" /\ cmd.pc \in ToolPcs /\ cmd \in CmdRecord
  BY InstallStepIs DEF BootInv, BootTypes
<1>2. UNCHANGED <<golock, space, touched>>
  BY <1>1 DEF InstallVars
<1>3. \A p : p # "idle" => ~Goes(p)
  BY GoesNotIdle DEF Goes, Ends
<1>4. ~Acquire /\ ~Fetch /\ ~VerifySHA256 /\ ~extractArchive /\ ~InstallStaged /\ ~Promote
  BY <1>3 DEF Acquire, Fetch, VerifySHA256, extractArchive, InstallStaged, Promote
<1>5. ~PromoteAside
  <2>1. PromoteAside => cmd'.pc = "swap"
    BY <1>1 DEF PromoteAside, CmdRecord
  <2> QED BY <2>1, IdleIs DEF Ends
<1>6. CASE readBootstrapManifest \/ installPin
  BY <1>2, <1>6 DEF readBootstrapManifest, installPin, files, PlainEnd, At, GoPcs, NpmPcs
<1>7. CASE ExtractVerified
  <2>1. litter' = litter
    BY <1>3, <1>7 DEF ExtractVerified
  <2> QED BY <1>2, <1>7, <2>1 DEF ExtractVerified, PlainEnd, At, GoPcs, NpmPcs
<1>8. CASE RemoveBackup
  BY <1>2, <1>8 DEF RemoveBackup, LastCleanup
<1> QED BY <1>2, <1>4, <1>5, <1>6, <1>7, <1>8 DEF InstallStep

\* The ends of the Go phase and of go install
LEMMA GoEnds ==
  ASSUME BootTypes, BootInv, Ends,
         \/ GoLockBefore \/ GoModLockSignature \/ BuildProject \/ installGoInstallTools
         \/ \E s \in Shapes : GoModDownload("committed", s)
         \/ GoModDownload("rewritten", "expanded")
  PROVE  touched' = touched /\ (PlainEnd \/ GoEnd)
<1>1. cmd \in CmdRecord
  BY DEF BootTypes
<1>2. ~GoLockBefore
  <2>1. GoLockBefore => cmd'.pc = "download"
    BY <1>1 DEF GoLockBefore, CmdRecord
  <2> QED BY <2>1, RunsOn DEF Ends
<1>3. ~GoModLockSignature
  BY GoesNotIdle DEF GoModLockSignature, Ends
<1>4. \A m, s : ~GoModDownload(m, s)
  BY GoesNotIdle DEF GoModDownload, Ends
<1>5. CASE BuildProject
  BY <1>5 DEF BuildProject, GoEnd, At, GoPcs
<1>6. CASE installGoInstallTools
  BY <1>6 DEF installGoInstallTools, PlainEnd, At, GoPcs, NpmPcs
<1> QED BY <1>2, <1>3, <1>4, <1>5, <1>6

\* The ends of the npm workspaces
LEMMA NpmEnds ==
  ASSUME BootTypes, BootInv, Ends,
         \/ runFrontendBuild \/ runNpmCIWithRetry \/ npmBuild \/ WriteFrontendBuildManifest
         \/ \E s \in {"committed", "rewritten"} : npmCI(s)
  PROVE  touched' = touched /\ (PlainEnd \/ NpmEnd)
<1>1. cmd \in CmdRecord /\ space \in [Spaces -> SpaceRecord]
  BY DEF BootTypes
<1>2. \A s : ~npmCI(s)
  <2>1. \A s : npmCI(s) => cmd'.pc = "npmbuild"
    BY <1>1 DEF npmCI, CmdRecord
  <2> QED BY <2>1, IdleIs DEF Ends
<1>3. ~npmBuild
  BY GoesNotIdle DEF npmBuild, Ends
<1>4. CASE runFrontendBuild
  BY <1>4 DEF runFrontendBuild, files, PlainEnd, At, GoPcs, NpmPcs
<1>5. ASSUME RestoreLock(Stage), cmd.pc \in NpmPcs
      PROVE  space'[Stage].lock = cmd.before /\ \A w \in Spaces : w # Stage => space'[w] = space[w]
  <2>1. Stage \in Spaces /\ space[Stage] \in SpaceRecord
    BY <1>5, NpmPhase, SpacesAre
  <2>2. space'[Stage] = [space[Stage] EXCEPT !.lock = cmd.before] /\ \A w \in Spaces : w # Stage => space'[w] = space[w]
    BY <1>1, <1>5, <2>1 DEF RestoreLock
  <2> QED BY <2>1, <2>2 DEF SpaceRecord
<1>6. CASE runNpmCIWithRetry
  <2>1. cmd.pc = "ci" /\ cmd.pc \in NpmPcs /\ UNCHANGED <<install, litter, golock, touched>>
    BY <1>6 DEF runNpmCIWithRetry, At, NpmPcs
  <2>2. cmd' # [cmd EXCEPT !.attempt = @ + 1, !.clean = FALSE]
    BY <1>1, <2>1, IdleIs DEF Ends, CmdRecord
  <2>3. RestoreLock(Stage)
    BY <1>6, <2>2 DEF runNpmCIWithRetry
  <2> QED BY <1>5, <2>1, <2>3 DEF NpmEnd
<1>7. CASE WriteFrontendBuildManifest
  <2>1. cmd.pc \in NpmPcs /\ UNCHANGED <<install, litter, golock, touched>>
    BY <1>7 DEF WriteFrontendBuildManifest, At, NpmPcs
  <2>2. CASE ~lockInputsMatch(Stage)
    BY <1>5, <1>7, <2>1, <2>2 DEF WriteFrontendBuildManifest, NpmEnd
  <2>3. CASE lockInputsMatch(Stage)
    <3>1. Stage \in Spaces /\ space[Stage] \in SpaceRecord /\ space[Stage].lock = cmd.before
      BY <2>1, <2>3, NpmPhase, SpacesAre DEF lockInputsMatch
    <3>2. space' = [space EXCEPT ![Stage].manifest = Current(Stage)]
      BY <1>7, <2>3 DEF WriteFrontendBuildManifest
    <3>3. space'[Stage] = [space[Stage] EXCEPT !.manifest = Current(Stage)] /\ \A w \in Spaces : w # Stage => space'[w] = space[w]
      BY <1>1, <3>1, <3>2
    <3>4. space'[Stage].lock = cmd.before
      BY <3>1, <3>3 DEF SpaceRecord
    <3> QED BY <2>1, <3>3, <3>4 DEF NpmEnd
  <2> QED BY <2>2, <2>3
<1> QED BY <1>2, <1>3, <1>4, <1>6, <1>7

\* The ends of a build
LEMMA BuildEnds ==
  ASSUME BootTypes, BootInv, Ends,
         ensureGoModCacheFresh \/ ensureFrontendDistFresh \/ RecordDist \/ runBuild \/ TruncatePinned \/ refreshPinnedGolcProject
  PROVE  touched' = touched /\ PlainEnd
<1>1. ~RecordDist /\ ~TruncatePinned
  BY GoesNotIdle DEF RecordDist, TruncatePinned, Ends
<1>2. CASE ensureGoModCacheFresh \/ runBuild \/ refreshPinnedGolcProject
  BY <1>2 DEF ensureGoModCacheFresh, runBuild, refreshPinnedGolcProject, files, PlainEnd, At, GoPcs, NpmPcs
<1>3. CASE ensureFrontendDistFresh
  <2>1. space' = space
    BY <1>3, GoesNotIdle DEF ensureFrontendDistFresh, Ends
  <2> QED BY <1>3, <2>1 DEF ensureFrontendDistFresh, PlainEnd, At, GoPcs, NpmPcs
<1> QED BY <1>1, <1>2, <1>3

\* The ends of an update that do not write the last file
LEMMA UpdateEnds ==
  ASSUME BootTypes, BootInv, Ends,
         \/ \E write \in BOOLEAN : BuildToolsUpdateProposal(write)
         \/ applyToolchainTOMLProposal \/ applyGoModProposal \/ applyGoSumProposal
  PROVE  touched' = touched /\ PlainEnd
<1>1. ~applyToolchainTOMLProposal /\ ~applyGoModProposal /\ ~applyGoSumProposal
  BY GoesNotIdle DEF applyToolchainTOMLProposal, applyGoModProposal, applyGoSumProposal, Goes, Ends
<1>2. ASSUME NEW write \in BOOLEAN, BuildToolsUpdateProposal(write) PROVE touched' = touched /\ PlainEnd
  BY <1>2 DEF BuildToolsUpdateProposal, UpdateVars, PlainEnd, At, GoPcs, NpmPcs
<1> QED BY <1>1, <1>2

\* The ends of a step that fails
LEMMA FailEnds ==
  ASSUME BootTypes, BootInv, StepFails
  PROVE  touched' = touched /\ (PlainEnd \/ FailedInstall \/ GoEnd \/ NpmEnd)
<1>1. touched' = touched
  BY DEF StepFails
<1>2. CASE /\ cmd.pc \in {"fetch", "verify", "unpack", "inventory", "promote", "swap", "cleanup"}
           /\ install' = MovedBack /\ litter' = litter \ Cleared /\ UNCHANGED <<golock, space>>
  BY <1>1, <1>2 DEF FailedInstall, InstallPcs
<1>3. CASE cmd.pc \in {"download", "sign", "project"} /\ RestoreGoLock /\ UNCHANGED <<install, space, litter>>
  BY <1>1, <1>3 DEF GoEnd, GoPcs
<1>4. CASE cmd.pc \in {"npmbuild", "manifest"} /\ RestoreLock(Stage) /\ UNCHANGED <<install, golock, litter>>
  <2>1. cmd.pc \in NpmPcs
    BY <1>4 DEF NpmPcs
  <2>2. Stage \in Spaces /\ space[Stage] \in SpaceRecord /\ space \in [Spaces -> SpaceRecord]
    BY <2>1, NpmPhase, SpacesAre DEF BootTypes
  <2>3. space'[Stage] = [space[Stage] EXCEPT !.lock = cmd.before] /\ \A w \in Spaces : w # Stage => space'[w] = space[w]
    BY <1>4, <2>2 DEF RestoreLock
  <2>4. space'[Stage].lock = cmd.before
    BY <2>2, <2>3 DEF SpaceRecord
  <2> QED BY <1>1, <1>4, <2>1, <2>3, <2>4 DEF NpmEnd
<1>5. CASE cmd.pc \in {"dist", "compile", "copying", "writemod", "writesum", "writenpm"} /\ UNCHANGED <<install, golock, space, litter>>
  BY <1>1, <1>5 DEF PlainEnd, GoPcs, NpmPcs
<1> QED BY <1>2, <1>3, <1>4, <1>5 DEF StepFails

\* Only UndoFails ends a command that way.
LEMMA Unrestored ==
  ASSUME BootTypes, BootInv, [Next]_vars, ~At("idle"), cmd' = Idle, last' = "unrestored"
  PROVE  UndoFails
<1>1. last = "none" /\ CmdFits
  BY DEF BootInv, CmdFits
<1>2. ~NextStage
  BY <1>1, NextStageIs DEF Moves
<1>3. ~Command
  <2>1. ~InstallStep
    BY <1>1, <1>2 DEF InstallStep, readBootstrapManifest, installPin, ExpectExecutable, Acquire, Fetch, VerifySHA256, ExtractVerified,
           extractArchive, InstallStaged, PromoteAside, Promote, RemoveBackup, Goes, End
  <2>2. \A m, s : ~GoModDownload(m, s)
    BY <1>1 DEF GoModDownload
  <2>3. ~GoLockBefore /\ ~GoModLockSignature /\ ~BuildProject /\ ~installGoInstallTools
    BY <1>1, <1>2 DEF GoLockBefore, GoModLockSignature, BuildProject, installGoInstallTools, End
  <2>4. ~runFrontendBuild /\ ~runNpmCIWithRetry /\ ~npmBuild /\ ~WriteFrontendBuildManifest /\ \A s : ~npmCI(s)
    BY <1>1, <1>2 DEF runFrontendBuild, runNpmCIWithRetry, npmBuild, WriteFrontendBuildManifest, npmCI, End
  <2>5. ~ensureGoModCacheFresh /\ ~ensureFrontendDistFresh /\ ~RecordDist /\ ~runBuild /\ ~TruncatePinned /\ ~refreshPinnedGolcProject
    BY <1>1 DEF ensureGoModCacheFresh, ensureFrontendDistFresh, RecordDist, runBuild, TruncatePinned, refreshPinnedGolcProject, End
  <2>6. \A write : ~BuildToolsUpdateProposal(write)
    BY <1>1 DEF BuildToolsUpdateProposal, End
  <2>7. ~applyToolchainTOMLProposal /\ ~applyGoModProposal /\ ~applyGoSumProposal /\ ~applyPackageLockProposal
    BY <1>1 DEF applyToolchainTOMLProposal, applyGoModProposal, applyGoSumProposal, applyPackageLockProposal, Goes, End
  <2> QED BY <2>1, <2>2, <2>3, <2>4, <2>5, <2>6, <2>7 DEF Command, InstallStep
<1>4. ~StepFails /\ ~Die /\ ~runBootstrap /\ ~startBuild /\ ~runToolsUpdate
  BY DEF StepFails, Die, runBootstrap, startBuild, runToolsUpdate, Start, End
<1>5. ASSUME NEW what, Touch(what) PROVE FALSE
  <2>1. cmd'.pc = cmd.pc
    BY <1>5, TouchIs
  <2> QED BY <2>1, IdleIs DEF At
<1>6. ~Damage /\ ~Edit /\ ~UNCHANGED vars
  BY <1>5, IdleIs DEF Damage, Edit, vars, At
<1> QED BY <1>3, <1>4, <1>6 DEF Next

\* So such a command ends in one of these ways.
LEMMA EndsAre ==
  ASSUME BootTypes, BootInv, [Next]_vars, Ends
  PROVE  touched' = touched /\ (PlainEnd \/ LastCleanup \/ FailedInstall \/ GoEnd \/ NpmEnd \/ applyPackageLockProposal)
<1>1. CASE Command
  <2>1. CASE InstallStep
    BY <2>1, InstallEnds
  <2>2. CASE applyPackageLockProposal
    BY <2>2 DEF applyPackageLockProposal, UpdateVars
  <2>3. CASE ~InstallStep /\ ~applyPackageLockProposal
    BY <1>1, <2>3, GoEnds, NpmEnds, BuildEnds, UpdateEnds DEF Command, InstallStep
  <2> QED BY <2>1, <2>2, <2>3
<1>2. CASE StepFails
  BY <1>2, FailEnds
<1>3. ~runBootstrap /\ ~startBuild /\ ~runToolsUpdate /\ ~UndoFails /\ ~Die
  BY DEF Ends, runBootstrap, startBuild, runToolsUpdate, Start, UndoFails, Die, End
<1>4. ASSUME NEW what, Touch(what) PROVE FALSE
  <2>1. cmd'.pc = cmd.pc
    BY <1>4, TouchIs
  <2> QED BY <2>1, IdleIs DEF Ends, At
<1>5. ~Damage /\ ~Edit
  BY <1>4 DEF Damage, Edit
<1>6. ~UNCHANGED vars
  BY IdleIs DEF Ends, vars, At
<1> QED BY <1>1, <1>2, <1>3, <1>5, <1>6 DEF Next

\* The lock files are as they were found: go.sum apart when go.mod changed too,
\* and the npm files apart that an update wrote with their keys sorted.
LEMMA EndsLocked ==
  ASSUME BootTypes, BootInv, [Next]_vars, Ends, touched = {}
  PROVE  \/ Locks' = cmd.found
         \/ /\ cmd.kind = "update"
            /\ golock' = cmd.found[1]
            /\ \A w \in Spaces : space'[w].lock.version = cmd.found[2][w].version
         \/ golock.mod # cmd.found[1].mod /\ golock'.mod = cmd.found[1].mod
<1>1. /\ ~At("idle") /\ LocksKept /\ cmd.found \in GoLocks \X [Spaces -> NpmLock] /\ "download" \in GoPcs
  BY DEF Ends, BootInv, CmdFits, GoPcs
<1>2. ASSUME golock' = cmd.found[1], \A w \in Spaces : space'[w].lock = cmd.found[2][w] PROVE Locks' = cmd.found
  BY <1>1, <1>2 DEF Locks
<1>3. CASE PlainEnd
  <2>1. golock' = cmd.found[1] /\ \A w \in Spaces : space'[w].lock = cmd.found[2][w]
    BY <1>1, <1>3 DEF PlainEnd, LocksKept, At
  <2> QED BY <1>2, <2>1
<1>4. CASE LastCleanup \/ FailedInstall
  <2>1. cmd.pc \in InstallPcs /\ UNCHANGED <<golock, space>>
    BY <1>4 DEF LastCleanup, FailedInstall, At, InstallPcs
  <2>2. cmd.pc \notin GoPcs \cup NpmPcs
    BY <2>1 DEF InstallPcs, GoPcs, NpmPcs
  <2>3. golock' = cmd.found[1] /\ \A w \in Spaces : space'[w].lock = cmd.found[2][w]
    BY <1>1, <2>1, <2>2 DEF LocksKept, At
  <2> QED BY <1>2, <2>3
<1>5. CASE GoEnd
  <2>1. cmd.pc \notin NpmPcs /\ cmd.before = cmd.found[1] /\ space' = space
    BY <1>1, <1>5 DEF GoEnd, LocksKept, GoPcs, NpmPcs
  <2>2. \A w \in Spaces : space'[w].lock = cmd.found[2][w]
    BY <1>1, <2>1 DEF LocksKept
  <2>3. golock'.mod = cmd.before.mod /\ (golock.mod = cmd.before.mod => golock' = cmd.before)
    BY <1>5, RestoreGoLockIs DEF GoEnd
  <2> QED BY <1>2, <2>1, <2>2, <2>3
<1>6. CASE NpmEnd
  <2>1. cmd.pc \in NpmPcs /\ cmd.pc \notin GoPcs /\ cmd.before = cmd.found[2][Stage] /\ golock' = golock
    BY <1>1, <1>6 DEF NpmEnd, LocksKept, GoPcs, NpmPcs
  <2>2. golock' = cmd.found[1] /\ \A w \in Spaces : space'[w].lock = cmd.found[2][w]
    BY <1>1, <1>6, <2>1 DEF LocksKept, At, NpmEnd
  <2> QED BY <1>2, <2>2
<1>7. CASE applyPackageLockProposal
  <2>1. /\ cmd.pc \in WritePcs /\ golock' = golock /\ space' = [space EXCEPT !["linear"].lock = Written(cmd.read.npm, "sorted")]
    BY <1>7 DEF applyPackageLockProposal, At, WritePcs
  <2>2. cmd.kind = "update" /\ cmd.read \in Proposal /\ cmd.pc \notin GoPcs \cup NpmPcs
    BY <2>1, UpdatePhase
  <2>3. golock' = cmd.found[1] /\ cmd.read.npm = cmd.found[2]["linear"] /\ space["frontend"].lock = cmd.found[2]["frontend"]
    BY <1>1, <2>1, <2>2, SpacesAre DEF LocksKept, At
  <2>4. Written(cmd.read.npm, "sorted").version = cmd.read.npm.version
    BY <2>2, NpmWritten DEF Proposal
  <2>5. space["linear"] \in SpaceRecord /\ space \in [Spaces -> SpaceRecord]
    BY SpacesAre DEF BootTypes
  <2>6. space'["linear"] = [space["linear"] EXCEPT !.lock = Written(cmd.read.npm, "sorted")] /\ space'["frontend"] = space["frontend"]
    BY <2>1, <2>5, SpacesAre
  <2>7. space'["linear"].lock = Written(cmd.read.npm, "sorted")
    BY <2>5, <2>6 DEF SpaceRecord
  <2> QED BY <2>2, <2>3, <2>4, <2>6, <2>7, SpacesAre
<1> QED BY <1>3, <1>4, <1>5, <1>6, <1>7, EndsAre

\* Nothing of its own is left lying about, but for a backup it could not remove.
LEMMA EndsTidy ==
  ASSUME BootTypes, BootInv, [Next]_vars, Ends
  PROVE  litter' \subseteq cmd.litter \cup (IF At("cleanup") THEN {"backup"} ELSE {})
<1>1. litter \subseteq cmd.litter \cup OwnLitter
  BY DEF Ends, BootInv, LitterIsOwn
<1>2. CASE PlainEnd
  BY <1>1, <1>2 DEF PlainEnd, OwnLitter, At
<1>3. CASE LastCleanup
  BY <1>1, <1>3 DEF LastCleanup, OwnLitter, At
<1>4. CASE FailedInstall
  BY <1>1, <1>4 DEF FailedInstall, OwnLitter, Cleared, At
<1>5. CASE GoEnd
  BY <1>1, <1>5 DEF GoEnd, OwnLitter, At, GoPcs
<1>6. CASE NpmEnd
  BY <1>1, <1>6 DEF NpmEnd, OwnLitter, At, NpmPcs
<1>7. CASE applyPackageLockProposal
  BY <1>1, <1>7 DEF applyPackageLockProposal, UpdateVars, OwnLitter, At
<1> QED BY <1>2, <1>3, <1>4, <1>5, <1>6, <1>7, EndsAre

\* What it found installed is installed.
LEMMA EndsInstalled ==
  ASSUME BootTypes, BootInv, [Next]_vars, Ends, NEW d \in cmd.installed
  PROVE  install'[d] # NoInstall
<1>1. d \in Tools \X (0..MaxPin) /\ (IF At("swap") /\ d = Dir(Stage) THEN cmd.backup # NoInstall ELSE install[d] # NoInstall)
  BY DEF BootInv, InstallsKept, BootTypes, CmdRecord
<1>2. CASE FailedInstall
  <2>1. CASE At("swap")
    <3>1. install' = [install EXCEPT ![Dir(Stage)] = cmd.backup]
      BY <1>2, <2>1 DEF FailedInstall, MovedBack
    <3>2. CASE d = Dir(Stage)
      BY <1>1, <2>1, <3>1, <3>2 DEF BootTypes
    <3>3. CASE d # Dir(Stage)
      BY <1>1, <3>1, <3>3 DEF BootTypes
    <3> QED BY <3>2, <3>3
  <2>2. CASE ~At("swap")
    BY <1>1, <1>2, <2>2 DEF FailedInstall, MovedBack
  <2> QED BY <2>1, <2>2
<1>3. CASE ~FailedInstall
  <2>1. install' = install /\ ~At("swap")
    BY <1>3, EndsAre DEF PlainEnd, LastCleanup, GoEnd, NpmEnd, applyPackageLockProposal, UpdateVars, At, GoPcs, NpmPcs
  <2> QED BY <1>1, <2>1
<1> QED BY <1>2, <1>3

\* What an install that could not be moved back leaves: the others are installed,
\* and it is in the backup directory.
LEMMA UndoLeaves ==
  ASSUME BootTypes, BootInv, UndoFails, NEW d \in cmd.installed
  PROVE  install'[d] # NoInstall \/ (last' = "unrestored" /\ At("swap") /\ d = Dir(Stage) /\ "backup" \in litter')
<1>1. d \in Tools \X (0..MaxPin) /\ (IF At("swap") /\ d = Dir(Stage) THEN cmd.backup # NoInstall ELSE install[d] # NoInstall)
  BY DEF BootInv, InstallsKept, BootTypes, CmdRecord
<1>2. last' = "unrestored"
  BY DEF UndoFails, End
<1>3. CASE install' = MovedBack
  <2>1. CASE At("swap") /\ d = Dir(Stage)
    <3>1. install' = [install EXCEPT ![d] = cmd.backup]
      BY <1>3, <2>1 DEF MovedBack
    <3> QED BY <1>1, <2>1, <3>1 DEF BootTypes
  <2>2. CASE ~(At("swap") /\ d = Dir(Stage))
    <3>1. install'[d] = install[d]
      BY <1>1, <1>3, <2>2 DEF MovedBack, BootTypes
    <3> QED BY <1>1, <2>2, <3>1
  <2> QED BY <2>1, <2>2
<1>4. CASE install' = install /\ At("swap") /\ cmd.backup # NoInstall /\ litter' \in {litter, litter \ {"staging"}}
  <2>1. "backup" \in litter
    BY <1>4 DEF BootInv, LitterIsOwn, At
  <2>2. "backup" \in litter'
    BY <1>4, <2>1
  <2> QED BY <1>1, <1>2, <1>4, <2>2
<1>5. CASE install' = install /\ ~At("swap")
  BY <1>1, <1>5
<1> QED BY <1>3, <1>4, <1>5 DEF UndoFails, At

\* A command that fails puts back what it touched, unless it dies or fails in
\* that too: the lock files are as it found them, it leaves no partial download,
\* staging or backup directory but one it could not remove, and every tool that
\* was installed is, or is in the backup directory it could not be moved from.
THEOREM BootstrapFailuresUndone == Spec => FailuresAreUndone
<1>1. ASSUME BootTypes, BootInv, [Next]_vars
      PROVE  ~At("idle") /\ cmd' = Idle /\ last' \notin {"unrestored", "died"} /\ touched = {} =>
                \/ Locks' = cmd.found
                \/ /\ cmd.kind = "update"
                   /\ golock' = cmd.found[1]
                   /\ \A w \in Spaces : space'[w].lock.version = cmd.found[2][w].version
                \/ golock.mod # cmd.found[1].mod /\ golock'.mod = cmd.found[1].mod
  BY <1>1, EndsLocked DEF Ends
<1>2. ASSUME BootTypes, BootInv, [Next]_vars
      PROVE  ~At("idle") /\ cmd' = Idle /\ last' \notin {"unrestored", "died"} =>
                litter' \subseteq cmd.litter \cup (IF At("cleanup") THEN {"backup"} ELSE {})
  BY <1>2, EndsTidy DEF Ends
<1>3. ASSUME BootTypes, BootInv, [Next]_vars
      PROVE  ~At("idle") /\ cmd' = Idle /\ last' # "died" =>
               \A d \in cmd.installed :
                 \/ install'[d] # NoInstall
                 \/ last' = "unrestored" /\ At("swap") /\ d = Dir(Stage) /\ "backup" \in litter'
  <2>1. CASE UndoFails
    BY <1>3, <2>1, UndoLeaves
  <2>2. CASE ~At("idle") /\ cmd' = Idle /\ last' = "unrestored"
    BY <1>3, <2>1, <2>2, Unrestored
  <2> QED BY <1>3, <2>2, EndsInstalled DEF Ends
<1>4. Spec => LocksAsFound
  BY <1>1, BootstrapInvariant, PTL DEF Spec, LocksAsFound
<1>5. Spec => OnlyDeathLitters
  BY <1>2, BootstrapInvariant, PTL DEF Spec, OnlyDeathLitters
<1>6. Spec => InstallsStay
  BY <1>3, BootstrapInvariant, PTL DEF Spec, InstallsStay
<1> QED BY <1>4, <1>5, <1>6 DEF FailuresAreUndone

-----------------------------------------------------------------------------
\* A bootstrap that meets no fault

\* Where a bootstrap can fail that nothing failed in
MayRefuse ==
  \/ At("pins")
  \/ At("extract") /\ Archive \in Unfit
  \/ cmd.pc \in {"stage", "cleanup"} /\ Stage \in Tools /\ Archive \in Bare
  \/ At("project") /\ ~(golock.mod = cmd.before.mod /\ goSumIsSupersetExpansion)
  \/ At("manifest") /\ ~lockInputsMatch(Stage)

\* No other step of such a bootstrap fails.
LEMMA CleanFails ==
  ASSUME BootTypes, BootInv, [Next]_vars, cmd.kind = "bootstrap", cmd.clean, last' = "failed", used' = used
  PROVE  MayRefuse
<1>1. /\ CmdFits /\ cmd \in CmdRecord /\ CleanGoesOn /\ ~At("idle") /\ last = "none"
  BY IdleIs DEF BootTypes, BootInv, CmdFits, At
<1>2. ~NextStage
  <2>1. NextStage => last' \in {"ok", "none"}
    BY <1>1, NextStageIs DEF Moves
  <2> QED BY <2>1
<1>3. CASE Command
  <2>1. CASE InstallStep
    <3>1. installPin \/ RemoveBackup => MayRefuse
      <4>1. ExpectExecutable => Archive \in Bare
        BY <1>2 DEF ExpectExecutable
      <4>2. RemoveBackup => Stage \in Tools
        BY <1>1 DEF RemoveBackup, CmdFits, At, InstallPcs
      <4> QED BY <1>1, <4>1, <4>2 DEF installPin, RemoveBackup, MayRefuse, At
    <3>2. ~Acquire /\ ~Fetch /\ ~VerifySHA256 /\ ~extractArchive /\ ~InstallStaged /\ ~PromoteAside /\ ~Promote
      BY <1>1 DEF Acquire, Fetch, VerifySHA256, extractArchive, InstallStaged, PromoteAside, Promote, Goes
    <3>3. CASE readBootstrapManifest
      BY <3>3 DEF readBootstrapManifest, MayRefuse
    <3>4. CASE ExtractVerified
      <4>1. At("extract") /\ ~(cache[Archive] = "good" /\ inspectArchive(Archive))
        BY <1>1, <3>4 DEF ExtractVerified, Goes
      <4> QED BY <1>1, <4>1 DEF CleanGoesOn, inspectArchive, MayRefuse, At
    <3> QED BY <2>1, <3>1, <3>2, <3>3, <3>4 DEF InstallStep
  <2>2. CASE \/ GoLockBefore \/ GoModLockSignature \/ BuildProject \/ installGoInstallTools
             \/ \E s \in Shapes : GoModDownload("committed", s)
             \/ GoModDownload("rewritten", "expanded")
    <3>1. ~GoLockBefore /\ ~GoModLockSignature /\ ~installGoInstallTools /\ \A m, s : ~GoModDownload(m, s)
      BY <1>1, <1>2 DEF GoLockBefore, GoModLockSignature, installGoInstallTools, GoModDownload
    <3>2. BuildProject => At("project") /\ ~(golock.mod = cmd.before.mod /\ goSumIsSupersetExpansion)
      BY <1>2 DEF BuildProject
    <3> QED BY <2>2, <3>1, <3>2 DEF MayRefuse
  <2>3. CASE \/ runFrontendBuild \/ runNpmCIWithRetry \/ npmBuild \/ WriteFrontendBuildManifest
             \/ \E s \in {"committed", "rewritten"} : npmCI(s)
    <3>1. ~runFrontendBuild /\ ~npmBuild /\ \A s : ~npmCI(s)
      BY <1>1, <1>2 DEF runFrontendBuild, npmBuild, npmCI
    <3>2. ~runNpmCIWithRetry
      <4>1. ~(cmd.attempt > 0) /\ cmd.attempt \in 0..2
        BY <1>1 DEF CleanGoesOn, CmdRecord, NpmAttempts
      <4>2. cmd.attempt + 1 < NpmAttempts
        BY <4>1 DEF NpmAttempts
      <4> QED BY <1>1, <4>2 DEF runNpmCIWithRetry
    <3>3. WriteFrontendBuildManifest => At("manifest") /\ ~lockInputsMatch(Stage)
      BY <1>2 DEF WriteFrontendBuildManifest
    <3> QED BY <2>3, <3>1, <3>2, <3>3 DEF MayRefuse
  <2>4. CASE \/ ensureGoModCacheFresh \/ ensureFrontendDistFresh \/ RecordDist \/ runBuild \/ TruncatePinned \/ refreshPinnedGolcProject
    <3>1. cmd.pc \in BuildPcs
      BY <2>4 DEF ensureGoModCacheFresh, ensureFrontendDistFresh, RecordDist, runBuild, TruncatePinned, refreshPinnedGolcProject, At, BuildPcs
    <3> QED BY <3>1, BuildPhase
  <2>5. CASE \/ \E write \in BOOLEAN : BuildToolsUpdateProposal(write)
             \/ applyToolchainTOMLProposal \/ applyGoModProposal \/ applyGoSumProposal \/ applyPackageLockProposal
    <3>1. cmd.pc \in {"propose"} \cup WritePcs
      BY <2>5 DEF BuildToolsUpdateProposal, applyToolchainTOMLProposal, applyGoModProposal, applyGoSumProposal,
             applyPackageLockProposal, At, WritePcs
    <3> QED BY <3>1, UpdatePhase
  <2> QED BY <1>3, <2>1, <2>2, <2>3, <2>4, <2>5 DEF Command, InstallStep
<1>4. ~StepFails /\ ~UndoFails /\ ~Die /\ ~Damage
  <2>1. Fault(1) => used' # used
    <3>1. used.faults \in Nat /\ used.faults + 1 # used.faults
      BY DEF BootTypes
    <3> QED BY <3>1 DEF Fault, BootTypes
  <2> QED BY <2>1 DEF StepFails, UndoFails, Die, Damage
<1>5. ~Edit
  BY <1>1, TouchIs DEF Edit
<1>6. ~runBootstrap /\ ~startBuild /\ ~runToolsUpdate /\ ~UNCHANGED vars
  BY <1>1 DEF runBootstrap, startBuild, runToolsUpdate, Start, vars
<1> QED BY <1>3, <1>4, <1>5, <1>6 DEF Next

\* A bootstrap in which nothing fails and nothing is edited or damaged does not
\* fail, whatever commands that failed or died left behind: it refuses only
\* incomplete pins, an archive it would not unpack or that lacks the tool's
\* executable, and lock files go or npm just rewrote.
THEOREM CleanBootstrapOk == Spec => CleanBootstrapSucceeds
<1>1. ASSUME BootTypes, BootInv, [Next]_vars
      PROVE  cmd.kind = "bootstrap" /\ cmd.clean /\ last' = "failed" /\ used' = used =>
               \/ At("pins")
               \/ At("extract") /\ Archive \in Unfit
               \/ cmd.pc \in {"stage", "cleanup"} /\ Stage \in Tools /\ Archive \in Bare
               \/ At("project") /\ ~(golock.mod = cmd.before.mod /\ goSumIsSupersetExpansion)
               \/ At("manifest") /\ ~lockInputsMatch(Stage)
  BY <1>1, CleanFails DEF MayRefuse
<1> QED BY <1>1, BootstrapInvariant, PTL DEF Spec, CleanBootstrapSucceeds

-----------------------------------------------------------------------------
\* The layers of the configuration: sequences of at most four

\* A sequence of length 1 is known by its members.
LEMMA IsSingle ==
  ASSUME NEW S, NEW a \in S, NEW s \in Seq(S),
         Len(s) = 1, s[1] = a
  PROVE  s = <<a>>
<1>1. <<a>> \in Seq(S) /\ Len(<<a>>) = 1
  OBVIOUS
<1>2. \A i \in 1 .. Len(s) : s[i] = <<a>>[i]
  OBVIOUS
<1> QED BY <1>1, <1>2, SeqEqual

\* A sequence of length 2 is known by its members.
LEMMA IsPair ==
  ASSUME NEW S, NEW a \in S, NEW b \in S, NEW s \in Seq(S),
         Len(s) = 2, s[1] = a, s[2] = b
  PROVE  s = <<a, b>>
<1>1. <<a, b>> \in Seq(S) /\ Len(<<a, b>>) = 2
  OBVIOUS
<1>2. \A i \in 1 .. Len(s) : s[i] = <<a, b>>[i]
  OBVIOUS
<1> QED BY <1>1, <1>2, SeqEqual

\* A sequence of length 3 is known by its members.
LEMMA IsTriple ==
  ASSUME NEW S, NEW a \in S, NEW b \in S, NEW c \in S, NEW s \in Seq(S),
         Len(s) = 3, s[1] = a, s[2] = b, s[3] = c
  PROVE  s = <<a, b, c>>
<1>1. <<a, b, c>> \in Seq(S) /\ Len(<<a, b, c>>) = 3
  OBVIOUS
<1>2. \A i \in 1 .. Len(s) : s[i] = <<a, b, c>>[i]
  OBVIOUS
<1> QED BY <1>1, <1>2, SeqEqual

\* A sequence of length 4 is known by its members.
LEMMA IsQuad ==
  ASSUME NEW S, NEW a \in S, NEW b \in S, NEW c \in S, NEW e \in S, NEW s \in Seq(S),
         Len(s) = 4, s[1] = a, s[2] = b, s[3] = c, s[4] = e
  PROVE  s = <<a, b, c, e>>
<1>1. <<a, b, c, e>> \in Seq(S) /\ Len(<<a, b, c, e>>) = 4
  OBVIOUS
<1>2. \A i \in 1 .. Len(s) : s[i] = <<a, b, c, e>>[i]
  OBVIOUS
<1> QED BY <1>1, <1>2, SeqEqual

\* Appending to at most two.
LEMMA Appends ==
  ASSUME NEW S, NEW a \in S, NEW b \in S, NEW c \in S
  PROVE  /\ Append(<<>>, a) = <<a>>
         /\ Append(<<a>>, b) = <<a, b>>
         /\ Append(<<a, b>>, c) = <<a, b, c>>
<1>1. <<>> \in Seq(S) /\ <<a>> \in Seq(S) /\ <<a, b>> \in Seq(S)
  OBVIOUS
<1>2. Append(<<>>, a) = <<a>>
  OBVIOUS
<1>3. Append(<<a>>, b) = <<a, b>>
  <2>1. /\ Append(<<a>>, b) \in Seq(S) /\ Len(Append(<<a>>, b)) = 2
        /\ Append(<<a>>, b)[1] = a /\ Append(<<a>>, b)[2] = b
    BY <1>1, AppendProperties
  <2> QED BY <2>1, IsPair
<1>4. Append(<<a, b>>, c) = <<a, b, c>>
  <2>1. /\ Append(<<a, b>>, c) \in Seq(S) /\ Len(Append(<<a, b>>, c)) = 3
        /\ Append(<<a, b>>, c)[1] = a /\ Append(<<a, b>>, c)[2] = b /\ Append(<<a, b>>, c)[3] = c
    BY <1>1, AppendProperties
  <2> QED BY <2>1, IsTriple
<1> QED BY <1>2, <1>3, <1>4

\* What the layers that declare a key concatenate to.
LEMMA Concats ==
  ASSUME NEW S, NEW a \in S, NEW b \in S, NEW c \in S
  PROVE  /\ <<>> \o <<>> \o <<>> = <<>>
         /\ <<a>> \o <<>> \o <<>> = <<a>>
         /\ <<>> \o <<b>> \o <<>> = <<b>>
         /\ <<>> \o <<>> \o <<c>> = <<c>>
         /\ <<a>> \o <<b>> \o <<>> = <<a, b>>
         /\ <<a>> \o <<>> \o <<c>> = <<a, c>>
         /\ <<>> \o <<b>> \o <<c>> = <<b, c>>
         /\ <<a>> \o <<b>> \o <<c>> = <<a, b, c>>
<1>1. /\ <<>> \in Seq(S) /\ <<a>> \in Seq(S) /\ <<b>> \in Seq(S) /\ <<c>> \in Seq(S)
      /\ <<a, b>> \in Seq(S)
  OBVIOUS
<1>2. /\ <<>> \o <<>> = <<>> /\ <<a>> \o <<>> = <<a>> /\ <<>> \o <<b>> = <<b>> /\ <<>> \o <<c>> = <<c>>
      /\ <<b>> \o <<>> = <<b>> /\ <<a, b>> \o <<>> = <<a, b>>
  BY <1>1, ConcatEmptySeq
<1>3. \A x, y \in S : <<x>> \o <<y>> = Append(<<x>>, y) /\ <<a, b>> \o <<y>> = Append(<<a, b>>, y)
  <2>1. ASSUME NEW x \in S, NEW y \in S
        PROVE  <<x>> \o <<y>> = Append(<<x>>, y) /\ <<a, b>> \o <<y>> = Append(<<a, b>>, y)
    <3>1. <<x>> \in Seq(S)
      OBVIOUS
    <3> QED BY <1>1, <3>1, AppendIsConcat
  <2> QED BY <2>1
<1>4. <<a>> \o <<b>> = <<a, b>> /\ <<a>> \o <<c>> = <<a, c>> /\ <<b>> \o <<c>> = <<b, c>>
      /\ <<a, b>> \o <<c>> = <<a, b, c>>
  <2>1. <<a>> \o <<b>> = <<a, b>>
    BY <1>3, Appends
  <2>2. <<a>> \o <<c>> = <<a, c>>
    BY <1>3, Appends
  <2>3. <<b>> \o <<c>> = <<b, c>>
    BY <1>3, Appends
  <2>4. <<a, b>> \o <<c>> = <<a, b, c>>
    <3>1. <<a, b>> \o <<c>> = Append(<<a, b>>, c)
      BY <1>3
    <3>2. Append(<<a, b>>, c) = <<a, b, c>>
      BY Appends
    <3> QED BY <3>1, <3>2
  <2> QED BY <2>1, <2>2, <2>3, <2>4
<1> QED BY <1>2, <1>4

\* One candidate: it is the answer, over the committed value.
LEMMA OneCandidate ==
  ASSUME NEW S, NEW a \in S, NEW d \in S, NEW s, s = <<a>>
  PROVE  s # <<>> /\ Last(s) = a /\ Append(Reverse(Front(s)), d) = <<d>>
<1>1. Front(s) = <<>>
  BY SMT DEF Front
<1>2. Reverse(<<>>) = <<>>
  BY SMT DEF Reverse
<1>3. Append(<<>>, d) = <<d>>
  OBVIOUS
<1>4. Last(s) = a
  BY SMT DEF Last
<1>5. s # <<>>
  OBVIOUS
<1> QED BY <1>1, <1>2, <1>3, <1>4, <1>5

\* Two candidates: the second is the answer, over the first.
LEMMA TwoCandidates ==
  ASSUME NEW S, NEW a \in S, NEW b \in S, NEW d \in S, NEW s, s = <<a, b>>
  PROVE  s # <<>> /\ Last(s) = b /\ Append(Reverse(Front(s)), d) = <<a, d>>
<1>1. Front(s) = <<a>>
  <2>1. \A i \in 1 .. 1 : s[i] \in S
    OBVIOUS
  <2>2. /\ SubSeq(s, 1, 1) \in Seq(S) /\ Len(SubSeq(s, 1, 1)) = 1
        /\ SubSeq(s, 1, 1)[1] = a
    BY <2>1, SubSeqProperties
  <2>3. Front(s) = SubSeq(s, 1, 1)
    BY DEF Front
  <2> QED BY <2>2, <2>3, IsSingle
<1>2. Reverse(<<a>>) = <<a>>
  BY SMT DEF Reverse
<1>3. Append(<<a>>, d) = <<a, d>>
  BY Appends
<1>4. Last(s) = b
  BY SMT DEF Last
<1>5. s # <<>>
  OBVIOUS
<1> QED BY <1>1, <1>2, <1>3, <1>4, <1>5

\* Three candidates: the third is the answer, over the second and the first.
LEMMA ThreeCandidates ==
  ASSUME NEW S, NEW a \in S, NEW b \in S, NEW c \in S, NEW d \in S, NEW s, s = <<a, b, c>>
  PROVE  s # <<>> /\ Last(s) = c /\ Append(Reverse(Front(s)), d) = <<b, a, d>>
<1>1. Front(s) = <<a, b>>
  <2>1. \A i \in 1 .. 2 : s[i] \in S
    OBVIOUS
  <2>2. /\ SubSeq(s, 1, 2) \in Seq(S) /\ Len(SubSeq(s, 1, 2)) = 2
        /\ SubSeq(s, 1, 2)[1] = a /\ SubSeq(s, 1, 2)[2] = b
    BY <2>1, SubSeqProperties
  <2>3. Front(s) = SubSeq(s, 1, 2)
    BY DEF Front
  <2> QED BY <2>2, <2>3, IsPair
<1>2. Reverse(<<a, b>>) = <<b, a>>
  BY SMT DEF Reverse
<1>3. Append(<<b, a>>, d) = <<b, a, d>>
  BY Appends
<1>4. Last(s) = c
  BY SMT DEF Last
<1>5. s # <<>>
  OBVIOUS
<1> QED BY <1>1, <1>2, <1>3, <1>4, <1>5

\* A layer before no other.
LEMMA PushOne ==
  ASSUME NEW S, NEW a \in S
  PROVE  <<a>> \o <<>> = <<a>>
<1>. DEFINE s == <<a>> \o <<>>
<1>1. <<a>> \in Seq(S) /\ <<>> \in Seq(S) /\ Len(<<a>>) = 1 /\ Len(<<>>) = 0
  OBVIOUS
<1>2. /\ s \in Seq(S) /\ Len(s) = 1
      /\ \A i \in 1 .. 1 : s[i] = IF i <= 1 THEN <<a>>[i] ELSE <<>>[i - 1]
  BY <1>1, ConcatProperties
<1>. HIDE DEF s
<1>3. s[1] = a
  BY <1>2
<1>5. s = <<a>>
  BY <1>2, <1>3, IsSingle
<1> QED BY <1>5 DEF s

\* A layer before another.
LEMMA PushTwo ==
  ASSUME NEW S, NEW a \in S, NEW b \in S
  PROVE  <<a>> \o <<b>> = <<a, b>>
<1>. DEFINE s == <<a>> \o <<b>>
<1>1. <<a>> \in Seq(S) /\ <<b>> \in Seq(S) /\ Len(<<a>>) = 1 /\ Len(<<b>>) = 1
  OBVIOUS
<1>2. /\ s \in Seq(S) /\ Len(s) = 2
      /\ \A i \in 1 .. 2 : s[i] = IF i <= 1 THEN <<a>>[i] ELSE <<b>>[i - 1]
  BY <1>1, ConcatProperties
<1>. HIDE DEF s
<1>3. s[1] = a /\ s[2] = b
  BY <1>2
<1>5. s = <<a, b>>
  BY <1>2, <1>3, IsPair
<1> QED BY <1>5 DEF s

\* A layer before two others.
LEMMA PushThree ==
  ASSUME NEW S, NEW a \in S, NEW b \in S, NEW c \in S
  PROVE  <<a>> \o <<b, c>> = <<a, b, c>>
<1>. DEFINE s == <<a>> \o <<b, c>>
<1>1. <<a>> \in Seq(S) /\ <<b, c>> \in Seq(S) /\ Len(<<a>>) = 1 /\ Len(<<b, c>>) = 2
  OBVIOUS
<1>2. /\ s \in Seq(S) /\ Len(s) = 3
      /\ \A i \in 1 .. 3 : s[i] = IF i <= 1 THEN <<a>>[i] ELSE <<b, c>>[i - 1]
  BY <1>1, ConcatProperties
<1>. HIDE DEF s
<1>3. s[1] = a /\ s[2] = b
  BY <1>2
<1>4. s[3] = c
  BY <1>2
<1>5. s = <<a, b, c>>
  BY <1>2, <1>3, <1>4, IsTriple
<1> QED BY <1>5 DEF s

\* A layer before three others.
LEMMA PushFour ==
  ASSUME NEW S, NEW a \in S, NEW b \in S, NEW c \in S, NEW e \in S
  PROVE  <<a>> \o <<b, c, e>> = <<a, b, c, e>>
<1>. DEFINE s == <<a>> \o <<b, c, e>>
<1>1. <<a>> \in Seq(S) /\ <<b, c, e>> \in Seq(S) /\ Len(<<a>>) = 1 /\ Len(<<b, c, e>>) = 3
  OBVIOUS
<1>2. /\ s \in Seq(S) /\ Len(s) = 4
      /\ \A i \in 1 .. 4 : s[i] = IF i <= 1 THEN <<a>>[i] ELSE <<b, c, e>>[i - 1]
  BY <1>1, ConcatProperties
<1>. HIDE DEF s
<1>3. s[1] = a /\ s[2] = b
  BY <1>2
<1>4. s[3] = c /\ s[4] = e
  BY <1>2
<1>5. s = <<a, b, c, e>>
  BY <1>2, <1>3, <1>4, IsQuad
<1> QED BY <1>5 DEF s


\* What the layers say of a key, and how resolveOne's answer names it.
UserSays(k) == Origin("user", user.values[k])
LocalSays(k) == Origin("local", local.values[k])
EnvSays(k) == Origin("env", env[k])

\* The answer's layer, and below it those it shadows.
Chain(r) == <<r.layer>> \o [i \in 1 .. Len(r.shadowed) |-> r.shadowed[i].layer]

\* A resolved record's chain of layers, with 0 below the answer.
LEMMA ChainOfOne ==
  ASSUME NEW S, NEW l \in S, NEW v, NEW r,
         r = Resolved(Origin(l, v), <<>>)
  PROVE  Chain(r) = <<l>> /\ r.layer = l /\ r.value = v
<1>1. r.layer = l /\ r.value = v /\ r.shadowed = <<>>
  BY DEF Resolved, Origin
<1>2. LET s == <<>> IN [i \in 1 .. Len(s) |-> s[i].layer] = <<>>
  BY SMT DEF Origin
<1>3. <<l>> \o <<>> = <<l>>
  BY PushOne
<1> QED BY <1>1, <1>2, <1>3 DEF Chain

\* A resolved record's chain of layers, with 1 below the answer.
LEMMA ChainOfTwo ==
  ASSUME NEW S, NEW l \in S, NEW v, NEW m \in S, NEW x, NEW r,
         r = Resolved(Origin(l, v), <<Origin(m, x)>>)
  PROVE  Chain(r) = <<l, m>> /\ r.layer = l /\ r.value = v
<1>1. r.layer = l /\ r.value = v /\ r.shadowed = <<Origin(m, x)>>
  BY DEF Resolved, Origin
<1>2. LET s == <<Origin(m, x)>> IN [i \in 1 .. Len(s) |-> s[i].layer] = <<m>>
  BY SMT DEF Origin
<1>3. <<l>> \o <<m>> = <<l, m>>
  BY PushTwo
<1> QED BY <1>1, <1>2, <1>3 DEF Chain

\* A resolved record's chain of layers, with 2 below the answer.
LEMMA ChainOfThree ==
  ASSUME NEW S, NEW l \in S, NEW v, NEW m \in S, NEW x, NEW n \in S, NEW y, NEW r,
         r = Resolved(Origin(l, v), <<Origin(m, x), Origin(n, y)>>)
  PROVE  Chain(r) = <<l, m, n>> /\ r.layer = l /\ r.value = v
<1>1. r.layer = l /\ r.value = v /\ r.shadowed = <<Origin(m, x), Origin(n, y)>>
  BY DEF Resolved, Origin
<1>2. LET s == <<Origin(m, x), Origin(n, y)>> IN [i \in 1 .. Len(s) |-> s[i].layer] = <<m, n>>
  BY SMT DEF Origin
<1>3. <<l>> \o <<m, n>> = <<l, m, n>>
  BY PushThree
<1> QED BY <1>1, <1>2, <1>3 DEF Chain

\* A resolved record's chain of layers, with 3 below the answer.
LEMMA ChainOfFour ==
  ASSUME NEW S, NEW l \in S, NEW v, NEW m \in S, NEW x, NEW n \in S, NEW y, NEW o \in S, NEW z, NEW r,
         r = Resolved(Origin(l, v), <<Origin(m, x), Origin(n, y), Origin(o, z)>>)
  PROVE  Chain(r) = <<l, m, n, o>> /\ r.layer = l /\ r.value = v
<1>1. r.layer = l /\ r.value = v /\ r.shadowed = <<Origin(m, x), Origin(n, y), Origin(o, z)>>
  BY DEF Resolved, Origin
<1>2. LET s == <<Origin(m, x), Origin(n, y), Origin(o, z)>> IN [i \in 1 .. Len(s) |-> s[i].layer] = <<m, n, o>>
  BY SMT DEF Origin
<1>3. <<l>> \o <<m, n, o>> = <<l, m, n, o>>
  BY PushFour
<1> QED BY <1>1, <1>2, <1>3 DEF Chain

\* What resolveOne answers, one line for each set of layers that say something.
AnswersOf(k) ==
  /\ user.values[k] = "" /\ local.values[k] = "" /\ env[k] = ""
       => resolveOne(k) = Resolved(resolveCommittedOrigin(k), <<>>)
  /\ user.values[k] # "" /\ local.values[k] = "" /\ env[k] = ""
       => resolveOne(k) = Resolved(UserSays(k), <<resolveCommittedOrigin(k)>>)
  /\ user.values[k] = "" /\ local.values[k] # "" /\ env[k] = ""
       => resolveOne(k) = Resolved(LocalSays(k), <<resolveCommittedOrigin(k)>>)
  /\ user.values[k] # "" /\ local.values[k] # "" /\ env[k] = ""
       => resolveOne(k) = Resolved(LocalSays(k), <<UserSays(k), resolveCommittedOrigin(k)>>)
  /\ user.values[k] = "" /\ local.values[k] = "" /\ env[k] # ""
       => resolveOne(k) = Resolved(EnvSays(k), <<resolveCommittedOrigin(k)>>)
  /\ user.values[k] # "" /\ local.values[k] = "" /\ env[k] # ""
       => resolveOne(k) = Resolved(EnvSays(k), <<UserSays(k), resolveCommittedOrigin(k)>>)
  /\ user.values[k] = "" /\ local.values[k] # "" /\ env[k] # ""
       => resolveOne(k) = Resolved(EnvSays(k), <<LocalSays(k), resolveCommittedOrigin(k)>>)
  /\ user.values[k] # "" /\ local.values[k] # "" /\ env[k] # ""
       => resolveOne(k) = Resolved(EnvSays(k), <<LocalSays(k), UserSays(k), resolveCommittedOrigin(k)>>)

\* The layers that declare a key, read off the concatenation.
LEMMA CandidatesAre ==
  ASSUME NEW k
  PROVE  Candidates(k) =
           Declaring("user", user.values[k]) \o Declaring("local", local.values[k]) \o Declaring("env", env[k])
BY DEF Candidates

\* resolveOne's answer, for each set of layers that declare the key.
LEMMA Answers ==
  ASSUME NEW k, resolveOne(k) # Refused
  PROVE  AnswersOf(k)
<1>. DEFINE S == {UserSays(k), LocalSays(k), EnvSays(k), resolveCommittedOrigin(k)}
            C == resolveCommittedOrigin(k)
<1>0. UserSays(k) \in S /\ LocalSays(k) \in S /\ EnvSays(k) \in S /\ C \in S
  OBVIOUS
<1>1. resolveOne(k) = IF Candidates(k) = <<>> THEN Resolved(C, <<>>)
                      ELSE Resolved(Last(Candidates(k)), Append(Reverse(Front(Candidates(k))), C))
  BY DEF resolveOne, Shadow
<1>2. /\ user.values[k] = "" => Declaring("user", user.values[k]) = <<>>
      /\ user.values[k] # "" => Declaring("user", user.values[k]) = <<UserSays(k)>>
      /\ local.values[k] = "" => Declaring("local", local.values[k]) = <<>>
      /\ local.values[k] # "" => Declaring("local", local.values[k]) = <<LocalSays(k)>>
      /\ env[k] = "" => Declaring("env", env[k]) = <<>>
      /\ env[k] # "" => Declaring("env", env[k]) = <<EnvSays(k)>>
  BY DEF Declaring, UserSays, LocalSays, EnvSays
<1>. HIDE DEF S, C
<1>3. ASSUME user.values[k] = "", local.values[k] = "", env[k] = ""
      PROVE  resolveOne(k) = Resolved(C, <<>>)
  <2>1. Candidates(k) = <<>> \o <<>> \o <<>>
    BY <1>3, <1>2, CandidatesAre
  <2>2. Candidates(k) = <<>>
    BY <2>1, <1>0, Concats
  <2> QED BY <1>1, <2>2
<1>4. ASSUME user.values[k] # "", local.values[k] = "", env[k] = ""
      PROVE  resolveOne(k) = Resolved(UserSays(k), <<C>>)
  <2>1. Candidates(k) = <<UserSays(k)>> \o <<>> \o <<>>
    BY <1>4, <1>2, CandidatesAre
  <2>2. Candidates(k) = <<UserSays(k)>>
    BY <2>1, <1>0, Concats
  <2>3. /\ Candidates(k) # <<>>
        /\ Last(Candidates(k)) = UserSays(k)
        /\ Append(Reverse(Front(Candidates(k))), C) = <<C>>
    BY <2>2, <1>0, OneCandidate
  <2> QED BY <1>1, <2>3
<1>5. ASSUME user.values[k] = "", local.values[k] # "", env[k] = ""
      PROVE  resolveOne(k) = Resolved(LocalSays(k), <<C>>)
  <2>1. Candidates(k) = <<>> \o <<LocalSays(k)>> \o <<>>
    BY <1>5, <1>2, CandidatesAre
  <2>2. Candidates(k) = <<LocalSays(k)>>
    BY <2>1, <1>0, Concats
  <2>3. /\ Candidates(k) # <<>>
        /\ Last(Candidates(k)) = LocalSays(k)
        /\ Append(Reverse(Front(Candidates(k))), C) = <<C>>
    BY <2>2, <1>0, OneCandidate
  <2> QED BY <1>1, <2>3
<1>6. ASSUME user.values[k] # "", local.values[k] # "", env[k] = ""
      PROVE  resolveOne(k) = Resolved(LocalSays(k), <<UserSays(k), C>>)
  <2>1. Candidates(k) = <<UserSays(k)>> \o <<LocalSays(k)>> \o <<>>
    BY <1>6, <1>2, CandidatesAre
  <2>2. Candidates(k) = <<UserSays(k), LocalSays(k)>>
    BY <2>1, <1>0, Concats
  <2>3. /\ Candidates(k) # <<>>
        /\ Last(Candidates(k)) = LocalSays(k)
        /\ Append(Reverse(Front(Candidates(k))), C) = <<UserSays(k), C>>
    BY <2>2, <1>0, TwoCandidates
  <2> QED BY <1>1, <2>3
<1>7. ASSUME user.values[k] = "", local.values[k] = "", env[k] # ""
      PROVE  resolveOne(k) = Resolved(EnvSays(k), <<C>>)
  <2>1. Candidates(k) = <<>> \o <<>> \o <<EnvSays(k)>>
    BY <1>7, <1>2, CandidatesAre
  <2>2. Candidates(k) = <<EnvSays(k)>>
    BY <2>1, <1>0, Concats
  <2>3. /\ Candidates(k) # <<>>
        /\ Last(Candidates(k)) = EnvSays(k)
        /\ Append(Reverse(Front(Candidates(k))), C) = <<C>>
    BY <2>2, <1>0, OneCandidate
  <2> QED BY <1>1, <2>3
<1>8. ASSUME user.values[k] # "", local.values[k] = "", env[k] # ""
      PROVE  resolveOne(k) = Resolved(EnvSays(k), <<UserSays(k), C>>)
  <2>1. Candidates(k) = <<UserSays(k)>> \o <<>> \o <<EnvSays(k)>>
    BY <1>8, <1>2, CandidatesAre
  <2>2. Candidates(k) = <<UserSays(k), EnvSays(k)>>
    BY <2>1, <1>0, Concats
  <2>3. /\ Candidates(k) # <<>>
        /\ Last(Candidates(k)) = EnvSays(k)
        /\ Append(Reverse(Front(Candidates(k))), C) = <<UserSays(k), C>>
    BY <2>2, <1>0, TwoCandidates
  <2> QED BY <1>1, <2>3
<1>9. ASSUME user.values[k] = "", local.values[k] # "", env[k] # ""
      PROVE  resolveOne(k) = Resolved(EnvSays(k), <<LocalSays(k), C>>)
  <2>1. Candidates(k) = <<>> \o <<LocalSays(k)>> \o <<EnvSays(k)>>
    BY <1>9, <1>2, CandidatesAre
  <2>2. Candidates(k) = <<LocalSays(k), EnvSays(k)>>
    BY <2>1, <1>0, Concats
  <2>3. /\ Candidates(k) # <<>>
        /\ Last(Candidates(k)) = EnvSays(k)
        /\ Append(Reverse(Front(Candidates(k))), C) = <<LocalSays(k), C>>
    BY <2>2, <1>0, TwoCandidates
  <2> QED BY <1>1, <2>3
<1>10. ASSUME user.values[k] # "", local.values[k] # "", env[k] # ""
      PROVE  resolveOne(k) = Resolved(EnvSays(k), <<LocalSays(k), UserSays(k), C>>)
  <2>1. Candidates(k) = <<UserSays(k)>> \o <<LocalSays(k)>> \o <<EnvSays(k)>>
    BY <1>10, <1>2, CandidatesAre
  <2>2. Candidates(k) = <<UserSays(k), LocalSays(k), EnvSays(k)>>
    BY <2>1, <1>0, Concats
  <2>3. /\ Candidates(k) # <<>>
        /\ Last(Candidates(k)) = EnvSays(k)
        /\ Append(Reverse(Front(Candidates(k))), C) = <<LocalSays(k), UserSays(k), C>>
    BY <2>2, <1>0, ThreeCandidates
  <2> QED BY <1>1, <2>3
<1> QED BY <1>3, <1>4, <1>5, <1>6, <1>7, <1>8, <1>9, <1>10 DEF AnswersOf, C

\* The chain of an answer is of the layers that declare the key, downwards.
LEMMA ChainDescends ==
  ASSUME NEW k, resolveOne(k) # Refused
  PROVE  LET chain == Chain(resolveOne(k)) IN
         /\ {chain[i] : i \in 1 .. Len(chain)} = Speaking(k)
         /\ \A i \in 2 .. Len(chain) : Rank[chain[i]] < Rank[chain[i - 1]]
         /\ user.values[k] = "" /\ local.values[k] = "" /\ env[k] = "" => resolveOne(k).layer = "committed"
<1>. DEFINE Layers == {"committed", "user", "local", "env"}
            chain == Chain(resolveOne(k))
            Descends == /\ {chain[i] : i \in 1 .. Len(chain)} = Speaking(k)
                        /\ \A i \in 2 .. Len(chain) : Rank[chain[i]] < Rank[chain[i - 1]]
                        /\ user.values[k] = "" /\ local.values[k] = "" /\ env[k] = "" => resolveOne(k).layer = "committed"
            value == IF IsRef(k) THEN "ref" ELSE committed[k].text
<1>1. AnswersOf(k)
  BY Answers
<1>2. resolveCommittedOrigin(k) = Origin("committed", value)
  BY DEF resolveCommittedOrigin
<1>3. "committed" \in Layers /\ "user" \in Layers /\ "local" \in Layers /\ "env" \in Layers
  OBVIOUS
<1>4. Rank["committed"] = 0 /\ Rank["user"] = 1 /\ Rank["local"] = 2 /\ Rank["env"] = 3
  BY DEF Rank
<1>. HIDE DEF Layers
<1>5. ASSUME user.values[k] = "" /\ local.values[k] = "" /\ env[k] = ""
      PROVE  Descends
  <2>. HIDE DEF value
  <2>1. resolveOne(k) = Resolved(Origin("committed", value), <<>>)
    BY <1>5, <1>1, <1>2 DEF AnswersOf, UserSays, LocalSays, EnvSays
  <2>2. Chain(resolveOne(k)) = <<"committed">> /\ resolveOne(k).layer = "committed"
    BY <2>1, <1>3, ChainOfOne
  <2>. HIDE DEF chain
  <2>6. chain = <<"committed">>
    BY <2>2 DEF chain
  <2>3. {chain[i] : i \in 1 .. Len(chain)} = {"committed"}
    BY <2>6
  <2>4. Speaking(k) = {"committed"}
    BY <1>5 DEF Speaking
  <2>5. \A i \in 2 .. Len(chain) : Rank[chain[i]] < Rank[chain[i - 1]]
    BY <2>6, <1>4
  <2> QED BY <2>2, <2>3, <2>4, <2>5, <1>5 DEF chain
<1>6. ASSUME user.values[k] # "" /\ local.values[k] = "" /\ env[k] = ""
      PROVE  Descends
  <2>. HIDE DEF value
  <2>1. resolveOne(k) = Resolved(Origin("user", user.values[k]), <<Origin("committed", value)>>)
    BY <1>6, <1>1, <1>2 DEF AnswersOf, UserSays, LocalSays, EnvSays
  <2>2. Chain(resolveOne(k)) = <<"user", "committed">> /\ resolveOne(k).layer = "user"
    BY <2>1, <1>3, ChainOfTwo
  <2>. HIDE DEF chain
  <2>6. chain = <<"user", "committed">>
    BY <2>2 DEF chain
  <2>3. {chain[i] : i \in 1 .. Len(chain)} = {"user", "committed"}
    BY <2>6
  <2>4. Speaking(k) = {"user", "committed"}
    BY <1>6 DEF Speaking
  <2>5. \A i \in 2 .. Len(chain) : Rank[chain[i]] < Rank[chain[i - 1]]
    BY <2>6, <1>4
  <2> QED BY <2>2, <2>3, <2>4, <2>5, <1>6 DEF chain
<1>7. ASSUME user.values[k] = "" /\ local.values[k] # "" /\ env[k] = ""
      PROVE  Descends
  <2>. HIDE DEF value
  <2>1. resolveOne(k) = Resolved(Origin("local", local.values[k]), <<Origin("committed", value)>>)
    BY <1>7, <1>1, <1>2 DEF AnswersOf, UserSays, LocalSays, EnvSays
  <2>2. Chain(resolveOne(k)) = <<"local", "committed">> /\ resolveOne(k).layer = "local"
    BY <2>1, <1>3, ChainOfTwo
  <2>. HIDE DEF chain
  <2>6. chain = <<"local", "committed">>
    BY <2>2 DEF chain
  <2>3. {chain[i] : i \in 1 .. Len(chain)} = {"local", "committed"}
    BY <2>6
  <2>4. Speaking(k) = {"local", "committed"}
    BY <1>7 DEF Speaking
  <2>5. \A i \in 2 .. Len(chain) : Rank[chain[i]] < Rank[chain[i - 1]]
    BY <2>6, <1>4
  <2> QED BY <2>2, <2>3, <2>4, <2>5, <1>7 DEF chain
<1>8. ASSUME user.values[k] # "" /\ local.values[k] # "" /\ env[k] = ""
      PROVE  Descends
  <2>. HIDE DEF value
  <2>1. resolveOne(k) = Resolved(Origin("local", local.values[k]), <<Origin("user", user.values[k]), Origin("committed", value)>>)
    BY <1>8, <1>1, <1>2 DEF AnswersOf, UserSays, LocalSays, EnvSays
  <2>2. Chain(resolveOne(k)) = <<"local", "user", "committed">> /\ resolveOne(k).layer = "local"
    BY <2>1, <1>3, ChainOfThree
  <2>. HIDE DEF chain
  <2>6. chain = <<"local", "user", "committed">>
    BY <2>2 DEF chain
  <2>3. {chain[i] : i \in 1 .. Len(chain)} = {"local", "user", "committed"}
    BY <2>6
  <2>4. Speaking(k) = {"local", "user", "committed"}
    BY <1>8 DEF Speaking
  <2>5. \A i \in 2 .. Len(chain) : Rank[chain[i]] < Rank[chain[i - 1]]
    BY <2>6, <1>4
  <2> QED BY <2>2, <2>3, <2>4, <2>5, <1>8 DEF chain
<1>9. ASSUME user.values[k] = "" /\ local.values[k] = "" /\ env[k] # ""
      PROVE  Descends
  <2>. HIDE DEF value
  <2>1. resolveOne(k) = Resolved(Origin("env", env[k]), <<Origin("committed", value)>>)
    BY <1>9, <1>1, <1>2 DEF AnswersOf, UserSays, LocalSays, EnvSays
  <2>2. Chain(resolveOne(k)) = <<"env", "committed">> /\ resolveOne(k).layer = "env"
    BY <2>1, <1>3, ChainOfTwo
  <2>. HIDE DEF chain
  <2>6. chain = <<"env", "committed">>
    BY <2>2 DEF chain
  <2>3. {chain[i] : i \in 1 .. Len(chain)} = {"env", "committed"}
    BY <2>6
  <2>4. Speaking(k) = {"env", "committed"}
    BY <1>9 DEF Speaking
  <2>5. \A i \in 2 .. Len(chain) : Rank[chain[i]] < Rank[chain[i - 1]]
    BY <2>6, <1>4
  <2> QED BY <2>2, <2>3, <2>4, <2>5, <1>9 DEF chain
<1>10. ASSUME user.values[k] # "" /\ local.values[k] = "" /\ env[k] # ""
      PROVE  Descends
  <2>. HIDE DEF value
  <2>1. resolveOne(k) = Resolved(Origin("env", env[k]), <<Origin("user", user.values[k]), Origin("committed", value)>>)
    BY <1>10, <1>1, <1>2 DEF AnswersOf, UserSays, LocalSays, EnvSays
  <2>2. Chain(resolveOne(k)) = <<"env", "user", "committed">> /\ resolveOne(k).layer = "env"
    BY <2>1, <1>3, ChainOfThree
  <2>. HIDE DEF chain
  <2>6. chain = <<"env", "user", "committed">>
    BY <2>2 DEF chain
  <2>3. {chain[i] : i \in 1 .. Len(chain)} = {"env", "user", "committed"}
    BY <2>6
  <2>4. Speaking(k) = {"env", "user", "committed"}
    BY <1>10 DEF Speaking
  <2>5. \A i \in 2 .. Len(chain) : Rank[chain[i]] < Rank[chain[i - 1]]
    BY <2>6, <1>4
  <2> QED BY <2>2, <2>3, <2>4, <2>5, <1>10 DEF chain
<1>11. ASSUME user.values[k] = "" /\ local.values[k] # "" /\ env[k] # ""
      PROVE  Descends
  <2>. HIDE DEF value
  <2>1. resolveOne(k) = Resolved(Origin("env", env[k]), <<Origin("local", local.values[k]), Origin("committed", value)>>)
    BY <1>11, <1>1, <1>2 DEF AnswersOf, UserSays, LocalSays, EnvSays
  <2>2. Chain(resolveOne(k)) = <<"env", "local", "committed">> /\ resolveOne(k).layer = "env"
    BY <2>1, <1>3, ChainOfThree
  <2>. HIDE DEF chain
  <2>6. chain = <<"env", "local", "committed">>
    BY <2>2 DEF chain
  <2>3. {chain[i] : i \in 1 .. Len(chain)} = {"env", "local", "committed"}
    BY <2>6
  <2>4. Speaking(k) = {"env", "local", "committed"}
    BY <1>11 DEF Speaking
  <2>5. \A i \in 2 .. Len(chain) : Rank[chain[i]] < Rank[chain[i - 1]]
    BY <2>6, <1>4
  <2> QED BY <2>2, <2>3, <2>4, <2>5, <1>11 DEF chain
<1>12. ASSUME user.values[k] # "" /\ local.values[k] # "" /\ env[k] # ""
      PROVE  Descends
  <2>. HIDE DEF value
  <2>1. resolveOne(k) = Resolved(Origin("env", env[k]), <<Origin("local", local.values[k]), Origin("user", user.values[k]), Origin("committed", value)>>)
    BY <1>12, <1>1, <1>2 DEF AnswersOf, UserSays, LocalSays, EnvSays
  <2>2. Chain(resolveOne(k)) = <<"env", "local", "user", "committed">> /\ resolveOne(k).layer = "env"
    BY <2>1, <1>3, ChainOfFour
  <2>. HIDE DEF chain
  <2>6. chain = <<"env", "local", "user", "committed">>
    BY <2>2 DEF chain
  <2>3. {chain[i] : i \in 1 .. Len(chain)} = {"env", "local", "user", "committed"}
    BY <2>6
  <2>4. Speaking(k) = {"env", "local", "user", "committed"}
    BY <1>12 DEF Speaking
  <2>5. \A i \in 2 .. Len(chain) : Rank[chain[i]] < Rank[chain[i - 1]]
    BY <2>6, <1>4
  <2> QED BY <2>2, <2>3, <2>4, <2>5, <1>12 DEF chain
<1>13. Descends
  BY <1>5, <1>6, <1>7, <1>8, <1>9, <1>10, <1>11, <1>12
<1> QED BY <1>13

-----------------------------------------------------------------------------
\* The layers: what the answers are worth

\* Every layer's value was checked when it was read, so the answer is allowed;
\* a literal of the committed files is allowed because "golc check" accepts it.
LEMMA AnswersAllowed ==
  ASSUME NEW k \in Keys, ValidateRepository, resolveOne(k) # Refused, ~IsRef(k)
  PROVE  resolveOne(k).value \in Allowed[k]
<1>1. AnswersOf(k)
  BY Answers
<1>2. /\ Declared(k) /\ Readable(user) /\ Readable(local)
      /\ env[k] # "" => env[k] \in Allowed[k]
  BY DEF resolveOne
<1>3. /\ user.values[k] # "" => user.values[k] \in Allowed[k]
      /\ local.values[k] # "" => local.values[k] \in Allowed[k]
  BY <1>2 DEF Readable
<1>4. resolveCommittedOrigin(k).value \in Allowed[k]
  BY <1>2 DEF ValidateRepository, ValidateConcern, validateDeclaredValue, resolveCommittedOrigin, Origin
<1>5. /\ UserSays(k).value = user.values[k] /\ LocalSays(k).value = local.values[k]
      /\ EnvSays(k).value = env[k]
  BY DEF UserSays, LocalSays, EnvSays, Origin
<1>6. \A o, s : Resolved(o, s).value = o.value
  BY DEF Resolved
<1>7. CASE env[k] # ""
  <2>1. \E s : resolveOne(k) = Resolved(EnvSays(k), s)
    BY <1>1, <1>7 DEF AnswersOf
  <2> QED BY <2>1, <1>2, <1>5, <1>6, <1>7
<1>8. CASE env[k] = "" /\ local.values[k] # ""
  <2>1. \E s : resolveOne(k) = Resolved(LocalSays(k), s)
    BY <1>1, <1>8 DEF AnswersOf
  <2> QED BY <2>1, <1>3, <1>5, <1>6, <1>8
<1>9. CASE env[k] = "" /\ local.values[k] = "" /\ user.values[k] # ""
  <2>1. \E s : resolveOne(k) = Resolved(UserSays(k), s)
    BY <1>1, <1>9 DEF AnswersOf
  <2> QED BY <2>1, <1>3, <1>5, <1>6, <1>9
<1>10. CASE env[k] = "" /\ local.values[k] = "" /\ user.values[k] = ""
  <2>1. resolveOne(k) = Resolved(resolveCommittedOrigin(k), <<>>)
    BY <1>1, <1>10 DEF AnswersOf
  <2> QED BY <2>1, <1>4, <1>6
<1> QED BY <1>7, <1>8, <1>9, <1>10

\* "config explain" asks for the same two layers the daemon is left with.
LEMMA ExplainIsResolve ==
  ASSUME NEW k \in Unlocked, user = Empty, env[k] = "", Unlocked \subseteq Keys
  PROVE  ResolveRuntime(k) = resolveOne(k)
<1>1. user.values[k] = "" /\ Readable(user)
  BY DEF Empty, Readable
<1>2. CASE ~Declared(k) \/ ~Readable(local)
  BY <1>2 DEF ResolveRuntime, resolveOne
<1>3. CASE Declared(k) /\ Readable(local)
  <2>1. resolveOne(k) = IF Candidates(k) = <<>> THEN Resolved(resolveCommittedOrigin(k), <<>>)
                        ELSE Resolved(Last(Candidates(k)), Shadow(Candidates(k), k))
    BY <1>1, <1>3 DEF resolveOne
  <2>2. \A o, s : Resolved(o, s).layer = o.layer
    BY DEF Resolved
  <2>3. CASE local.values[k] = ""
    <3>1. Candidates(k) = <<>> \o <<>> \o <<>>
      BY <1>1, <2>3 DEF Candidates, Declaring
    <3>2. <<>> \o <<>> = <<>>
      <4>1. <<>> \in Seq(Nat)
        BY EmptySeq
      <4> QED BY <4>1, ConcatEmptySeq
    <3>3. Candidates(k) = <<>>
      BY <3>1, <3>2
    <3> QED BY <1>3, <2>1, <2>3, <3>3 DEF ResolveRuntime
  <2>4. CASE local.values[k] # ""
    <3>. DEFINE S == {LocalSays(k), resolveCommittedOrigin(k)}
    <3>1. LocalSays(k) \in S /\ resolveCommittedOrigin(k) \in S
      OBVIOUS
    <3>2. Candidates(k) = <<>> \o <<LocalSays(k)>> \o <<>>
      BY <1>1, <2>4 DEF Candidates, Declaring, LocalSays
    <3>. HIDE DEF S
    <3>3. Candidates(k) = <<LocalSays(k)>>
      BY <3>1, <3>2, Concats
    <3>4. /\ Candidates(k) # <<>> /\ Last(Candidates(k)) = LocalSays(k)
          /\ Append(Reverse(Front(Candidates(k))), resolveCommittedOrigin(k)) = <<resolveCommittedOrigin(k)>>
      BY <3>1, <3>3, OneCandidate
    <3>5. resolveOne(k) = Resolved(LocalSays(k), <<resolveCommittedOrigin(k)>>)
      BY <2>1, <3>4 DEF Shadow
    <3> QED BY <1>3, <2>4, <3>5 DEF ResolveRuntime, LocalSays
  <2> QED BY <2>3, <2>4
<1> QED BY <1>2, <1>3

\* Whatever the layers hold, the highest that declares the key wins.
LEMMA TopLayerAlwaysWins == TopLayerWins
<1>. SUFFICES ASSUME NEW k \in Keys, resolveOne(k) # Refused
              PROVE  LET chain == Chain(resolveOne(k)) IN
                     /\ {chain[i] : i \in 1 .. Len(chain)} = Speaking(k)
                     /\ \A i \in 2 .. Len(chain) : Rank[chain[i]] < Rank[chain[i - 1]]
                     /\ k \notin Unlocked => resolveOne(k).layer = "committed"
  BY DEF TopLayerWins, Chain
<1>1. ASSUME k \notin Unlocked
      PROVE  user.values[k] = "" /\ local.values[k] = "" /\ env[k] = ""
  <2>1. /\ Readable(user) /\ Readable(local) /\ env[k] = ""
    BY <1>1 DEF resolveOne
  <2> QED BY <2>1, <1>1 DEF Readable
<1> QED BY <1>1, ChainDescends

-----------------------------------------------------------------------------
\* "config set"

\* What a "config set" is to write passed its checks, and so did the file.
SetsChecked ==
  \A s \in Setters : setter[s] # NotSetting =>
    /\ setter[s].key \in Unlocked
    /\ setter[s].value \in Allowed[setter[s].key]
    /\ Readable(setter[s].base)

ConfigInv == ConfigTypeOK /\ SetsChecked

\* A file with one text put into it.
Put(f, k, v) == [f EXCEPT !.values[k] = v]

\* The new file has the new value, and every other as it was.
LEMMA RenderedFile ==
  ASSUME NEW f \in File, NEW k \in Keys, NEW v \in Texts \cup {""}
  PROVE  /\ Put(f, k, v) \in File /\ Put(f, k, v).sound = f.sound
         /\ Put(f, k, v).values[k] = v
         /\ \A j \in Keys \ {k} : Put(f, k, v).values[j] = f.values[j]
BY DEF File, Put

\* An allowed value of an unlocked key leaves a readable file readable.
LEMMA RenderedReadable ==
  ASSUME NEW f \in File, Readable(f), NEW k \in Unlocked, NEW v \in Allowed[k]
  PROVE  Readable(Put(f, k, v))
<1>1. k \in Keys /\ v \in Texts \cup {""}
  BY ConfigAssumption
<1>2. /\ Put(f, k, v).sound = f.sound /\ Put(f, k, v).values[k] = v
      /\ \A j \in Keys \ {k} : Put(f, k, v).values[j] = f.values[j]
  BY <1>1, RenderedFile
<1> QED BY <1>2 DEF Readable

\* The file with nothing in it is a file.
LEMMA EmptyFile == Empty \in File
BY DEF Empty, File

\* Nobody sets anything at first.
LEMMA ConfigStarts == ConfigInit => ConfigInv
<1>. SUFFICES ASSUME ConfigInit PROVE ConfigInv
  OBVIOUS
<1>1. NotSetting \in [key : Keys \cup {""}, value : Texts \cup {""}, base : File]
  BY EmptyFile DEF NotSetting
<1>2. setter \in [Setters -> [key : Keys \cup {""}, value : Texts \cup {""}, base : File]]
  BY <1>1 DEF ConfigInit
<1>3. hands \in 0 .. MaxHands
  <2>1. MaxHands \in Nat /\ hands = MaxHands
    BY ConfigAssumption DEF ConfigInit
  <2> QED BY <2>1
<1>4. SetsChecked
  BY DEF ConfigInit, SetsChecked
<1> QED BY <1>2, <1>3, <1>4 DEF ConfigInit, ConfigInv, ConfigTypeOK

\* What "config set" reads and checks is what it keeps.
LEMMA WriteLocalKeeps ==
  ASSUME ConfigInv, NEW s \in Setters, NEW k \in Keys, NEW v \in Texts, WriteLocal(s, k, v)
  PROVE  ConfigInv'
<1>. DEFINE new == [key |-> k, value |-> v, base |-> local]
<1>1. /\ new \in [key : Keys \cup {""}, value : Texts \cup {""}, base : File]
      /\ new.key \in Unlocked /\ new.value \in Allowed[new.key] /\ Readable(new.base)
  BY DEF ConfigInv, ConfigTypeOK, WriteLocal, assertWritable
<1>. HIDE DEF new
<1>2. setter' = [setter EXCEPT ![s] = new]
  BY DEF WriteLocal, new
<1>3. UNCHANGED <<committed, user, env, local, hands>>
  BY DEF WriteLocal
<1>4. setter' \in [Setters -> [key : Keys \cup {""}, value : Texts \cup {""}, base : File]]
  BY <1>1, <1>2 DEF ConfigInv, ConfigTypeOK
<1>5. SetsChecked'
  BY <1>1, <1>2 DEF ConfigInv, ConfigTypeOK, SetsChecked, Readable
<1> QED BY <1>3, <1>4, <1>5 DEF ConfigInv, ConfigTypeOK

\* A setter that is done keeps nothing.
LEMMA SetterLeaves ==
  ASSUME ConfigInv, NEW s \in Setters, setter' = [setter EXCEPT ![s] = NotSetting]
  PROVE  /\ setter' \in [Setters -> [key : Keys \cup {""}, value : Texts \cup {""}, base : File]]
         /\ SetsChecked'
<1>1. NotSetting \in [key : Keys \cup {""}, value : Texts \cup {""}, base : File]
  BY EmptyFile DEF NotSetting
<1>2. setter' \in [Setters -> [key : Keys \cup {""}, value : Texts \cup {""}, base : File]]
  BY <1>1 DEF ConfigInv, ConfigTypeOK
<1>3. SetsChecked'
  BY DEF ConfigInv, ConfigTypeOK, SetsChecked, Readable
<1> QED BY <1>2, <1>3

\* What is renamed over golc.local.toml is a file, and one that can be read.
LEMMA RenderedByInv ==
  ASSUME ConfigInv, NEW s \in Setters, setter[s] # NotSetting
  PROVE  renderLocalDocument(s) \in File /\ Readable(renderLocalDocument(s))
<1>1. /\ setter[s].key \in Unlocked /\ setter[s].value \in Allowed[setter[s].key]
      /\ Readable(setter[s].base) /\ setter[s].base \in File
  BY DEF ConfigInv, ConfigTypeOK, SetsChecked
<1>2. setter[s].key \in Keys /\ setter[s].value \in Texts \cup {""}
  BY <1>1, ConfigAssumption
<1>3. renderLocalDocument(s) = Put(setter[s].base, setter[s].key, setter[s].value)
  BY DEF renderLocalDocument, Put
<1>4. Put(setter[s].base, setter[s].key, setter[s].value) \in File
  BY <1>1, <1>2, RenderedFile
<1>5. Readable(Put(setter[s].base, setter[s].key, setter[s].value))
  BY <1>1, RenderedReadable
<1> QED BY <1>3, <1>4, <1>5

\* The rename.
LEMMA RenameLocalKeeps ==
  ASSUME ConfigInv, NEW s \in Setters, RenameLocal(s)
  PROVE  ConfigInv'
<1>1. local' \in File
  BY RenderedByInv DEF RenameLocal
<1>2. /\ setter' \in [Setters -> [key : Keys \cup {""}, value : Texts \cup {""}, base : File]]
      /\ SetsChecked'
  BY SetterLeaves DEF RenameLocal
<1> QED BY <1>1, <1>2 DEF ConfigInv, ConfigTypeOK, RenameLocal

\* An edit by hand.
LEMMA EditLocalKeeps ==
  ASSUME ConfigInv, EditLocal
  PROVE  ConfigInv'
<1>1. local \in File /\ hands \in 0 .. MaxHands /\ MaxHands \in Nat
  BY ConfigAssumption DEF ConfigInv, ConfigTypeOK
<1>2. hands' \in 0 .. MaxHands
  <2>1. hands > 0 /\ hands' = hands - 1
    BY DEF EditLocal
  <2> QED BY <1>1, <2>1
<1>3. local' \in File
  <2>1. CASE local' = [local EXCEPT !.sound = FALSE]
    BY <1>1, <2>1 DEF File
  <2>2. ASSUME NEW k \in Keys, NEW t \in Texts \cup {""},
               local' = [local EXCEPT !.sound = TRUE, !.values[k] = t]
        PROVE  local' \in File
    BY <1>1, <2>2 DEF File
  <2> QED BY <2>1, <2>2 DEF EditLocal
<1>4. SetsChecked'
  BY DEF ConfigInv, SetsChecked, EditLocal, Readable
<1> QED BY <1>2, <1>3, <1>4 DEF ConfigInv, ConfigTypeOK, EditLocal

\* Every step of the configuration keeps the invariant.
LEMMA ConfigStepKeeps == ConfigInv /\ [ConfigNext]_configVars => ConfigInv'
<1>. SUFFICES ASSUME ConfigInv, [ConfigNext]_configVars PROVE ConfigInv'
  OBVIOUS
<1>1. ASSUME NEW s \in Setters, NEW k \in Keys, NEW v \in Texts, WriteLocal(s, k, v) PROVE ConfigInv'
  BY <1>1, WriteLocalKeeps
<1>2. ASSUME NEW s \in Setters, RenameLocal(s) PROVE ConfigInv'
  BY <1>2, RenameLocalKeeps
<1>3. ASSUME NEW s \in Setters, WriteFails(s) PROVE ConfigInv'
  <2>1. /\ setter' \in [Setters -> [key : Keys \cup {""}, value : Texts \cup {""}, base : File]]
        /\ SetsChecked'
    BY <1>3, SetterLeaves DEF WriteFails
  <2> QED BY <1>3, <2>1 DEF ConfigInv, ConfigTypeOK, WriteFails
<1>4. CASE EditLocal
  BY <1>4, EditLocalKeeps
<1>5. CASE UNCHANGED configVars
  BY <1>5 DEF configVars, ConfigInv, ConfigTypeOK, SetsChecked, Readable
<1> QED BY <1>1, <1>2, <1>3, <1>4, <1>5 DEF ConfigNext

\* The variables keep their types and what a "config set" is to write was checked.
THEOREM ConfigInvariant == ConfigSpec => []ConfigInv
<1>1. ConfigInit => ConfigInv
  BY ConfigStarts
<1>2. ConfigInv /\ [ConfigNext]_configVars => ConfigInv'
  BY ConfigStepKeeps
<1> QED BY <1>1, <1>2, PTL DEF ConfigSpec

-----------------------------------------------------------------------------
(* Where references lead: a key that refers to another has the text of it.  *)
(* The search follows the keys it has not followed yet, the property looks  *)
(* at all chains; they agree because two chains to a literal are the same   *)
(* chain, and a chain with a repetition never ends.                         *)


\* A set of numbers that is not empty has a least one.
LEMMA LeastOfNumbers ==
  ASSUME NEW S \in SUBSET Nat, S # {}
  PROVE  \E n \in S : \A m \in S : n <= m
<1> DEFINE R == OpToRel(<, Nat)
<1>1. IsWellFoundedOn(R, Nat)
  BY NatLessThanWellFounded
<1>2. \A m, n \in Nat : m < n => <<m, n>> \in R
  BY DEF OpToRel
<1> HIDE DEF R
<1>3. PICK n \in S : \A m \in S : ~(<<m, n>> \in R)
  BY <1>1, WFMin
<1>4. \A m \in S : ~(m < n)
  BY <1>2, <1>3
<1>5. \A m \in S : n <= m
  BY <1>4
<1> QED BY <1>5

\* The keys that c leads to from k, by references alone.
IsChain(c, n, k) ==
  /\ n \in Nat \ {0} /\ c \in [1..n -> Keys] /\ c[1] = k
  /\ \A i \in 2..n : committed[c[i - 1]].ref = c[i]

\* A chain that ends at a literal.
IsPath(c, n, k) == IsChain(c, n, k) /\ Declared(c[n]) /\ ~IsRef(c[n])

\* A path without a repetition that avoids some keys.
IsSearch(c, n, k, avoid) ==
  /\ IsPath(c, n, k)
  /\ \A i \in 1..n : c[i] \notin avoid
  /\ \A i, j \in 1..n : c[i] = c[j] => i = j

\* The literals a search can come to.
Reach(k, avoid) == {l \in Keys : \E c, n : IsSearch(c, n, k, avoid) /\ c[n] = l}

Typed == committed \in [Keys -> Declarations]

\* A declaration is nothing, a text, or a key.
LEMMA DeclarationFields ==
  ASSUME NEW v \in Declarations
  PROVE  v.ref = "" \/ (v.ref \in Keys /\ v # Unset)
<1>1. ASSUME NEW t, v = Literal(t) PROVE v.ref = ""
  <2>1. Literal(t).ref = ""
    BY DEF Literal
  <2> QED BY <1>1, <2>1
<1>2. Unset.ref = ""
  BY DEF Unset
<1>3. ASSUME NEW j \in Keys, v = RefTo(j) PROVE v.ref = j
  <2>1. RefTo(j).ref = j
    BY DEF RefTo
  <2> QED BY <1>3, <2>1
<1>4. "" \notin Keys
  BY ConfigAssumption
<1>5. v = Unset \/ (\E t \in Texts : v = Literal(t)) \/ (\E j \in Keys : v = RefTo(j))
  BY DEF Declarations
<1>6. CASE v = Unset
  BY <1>2, <1>6
<1>7. CASE \E t \in Texts : v = Literal(t)
  BY <1>1, <1>7
<1>8. CASE \E j \in Keys : v = RefTo(j)
  <2>1. PICK j \in Keys : v = RefTo(j)
    BY <1>8
  <2>2. v.ref = j
    BY <1>3, <2>1
  <2>3. v # Unset
    BY <1>2, <1>4, <2>2
  <2> QED BY <2>2, <2>3
<1> QED BY <1>5, <1>6, <1>7, <1>8

\* What a declaration refers to is a key.
LEMMA RefsAreKeys ==
  ASSUME Typed, NEW k \in Keys
  PROVE  /\ IsRef(k) => committed[k].ref \in Keys /\ Declared(k)
         /\ ~IsRef(k) => committed[k].ref = "" /\ committed[k].ref \notin Keys
<1> DEFINE v == committed[k]
<1>1. v \in Declarations
  BY DEF Typed
<1> HIDE DEF v
<1>2. v.ref = "" \/ (v.ref \in Keys /\ v # Unset)
  BY <1>1, DeclarationFields
<1>3. "" \notin Keys
  BY ConfigAssumption
<1>4. IsRef(k) <=> v.ref # ""
  BY DEF IsRef, v
<1>5. Declared(k) <=> v # Unset
  BY DEF Declared, v
<1>6. IsRef(k) => v.ref \in Keys /\ Declared(k)
  BY <1>2, <1>4, <1>5
<1>7. ~IsRef(k) => v.ref = "" /\ v.ref \notin Keys
  BY <1>3, <1>4
<1> QED BY <1>6, <1>7 DEF v

\* Paths from one key agree as far as both go.
LEMMA PathsAgree ==
  ASSUME Typed, NEW k \in Keys, NEW c, NEW n, NEW d, NEW m,
         IsChain(c, n, k), IsChain(d, m, k), n <= m
  PROVE  \A i \in 1..n : c[i] = d[i]
<1> DEFINE bad == {i \in 1..n : c[i] # d[i]}
<1>1. n \in Nat \ {0} /\ m \in Nat \ {0}
  BY DEF IsChain
<1>2. SUFFICES ASSUME bad # {} PROVE FALSE
  OBVIOUS
<1>3. bad \in SUBSET Nat
  BY <1>1
<1>4. PICK i \in bad : \A j \in bad : i <= j
  BY <1>2, <1>3, LeastOfNumbers
<1>5. i \in 1..n /\ i \in 1..m /\ c[i] # d[i]
  BY <1>1
<1>6. i # 1
  BY <1>5 DEF IsChain
<1>7. i \in 2..n /\ i \in 2..m /\ i - 1 \in 1..n
  BY <1>1, <1>5, <1>6
<1>8. i - 1 \notin bad
  <2>1. ~(i <= i - 1)
    BY <1>7
  <2> HIDE DEF bad
  <2> QED BY <1>4, <2>1
<1>9. c[i - 1] = d[i - 1]
  BY <1>7, <1>8
<1> QED BY <1>5, <1>7, <1>9 DEF IsChain

\* All paths from a key end at one literal.
LEMMA OneEnd ==
  ASSUME Typed, NEW k \in Keys, NEW c, NEW n, NEW d, NEW m,
         IsPath(c, n, k), IsPath(d, m, k)
  PROVE  c[n] = d[m]
<1>0. n \in Nat \ {0} /\ m \in Nat \ {0}
  BY DEF IsPath, IsChain
<1>1. ASSUME NEW a, NEW p, NEW b, NEW q, IsPath(a, p, k), IsPath(b, q, k), p <= q,
             p \in Nat \ {0}, q \in Nat \ {0}
      PROVE  a[p] = b[q]
  <2>1. a[p] = b[p]
    BY <1>1, PathsAgree DEF IsPath
  <2>2. CASE p = q
    BY <2>1, <2>2
  <2>3. CASE p # q
    <3>1. p + 1 \in 2..q /\ (p + 1) - 1 = p /\ p + 1 \in 1..q /\ p \in 1..q
      BY <1>1, <2>3
    <3>2. committed[b[p]].ref = b[p + 1] /\ b[p + 1] \in Keys /\ b[p] \in Keys
      BY <1>1, <3>1 DEF IsPath, IsChain
    <3>3. ~IsRef(b[p])
      BY <1>1, <2>1 DEF IsPath
    <3> QED BY <3>2, <3>3, RefsAreKeys
  <2> QED BY <2>2, <2>3
<1>2. CASE n <= m
  BY <1>0, <1>1, <1>2
<1>3. CASE m <= n
  BY <1>0, <1>1, <1>3
<1> QED BY <1>0, <1>2, <1>3

\* A path repeats nothing.
LEMMA PathsAreSimple ==
  ASSUME Typed, NEW k \in Keys, NEW c, NEW n, IsPath(c, n, k)
  PROVE  IsSearch(c, n, k, {})
<1>1. n \in Nat \ {0} /\ c \in [1..n -> Keys]
  BY DEF IsPath, IsChain
<1>2. ASSUME NEW i \in 1..n, NEW j \in 1..n, c[i] = c[j], i < j PROVE FALSE
  <2> DEFINE x == [a \in 1..(n - i + 1) |-> c[i + a - 1]]
             y == [a \in 1..(n - j + 1) |-> c[j + a - 1]]
  <2>1. n - i + 1 \in Nat \ {0} /\ n - j + 1 \in Nat \ {0} /\ n - j + 1 <= n - i + 1
    BY <1>1, <1>2
  <2>2. \A a \in 1..(n - i + 1) : i + a - 1 \in 1..n
    BY <1>1
  <2>3. \A a \in 1..(n - j + 1) : j + a - 1 \in 1..n
    BY <1>1
  <2>4. x \in [1..(n - i + 1) -> Keys] /\ y \in [1..(n - j + 1) -> Keys]
    BY <1>1, <2>2, <2>3
  <2>5. x[1] = c[i] /\ y[1] = c[i]
    BY <1>1, <1>2, <2>1
  <2>6. \A a \in 2..(n - i + 1) : committed[x[a - 1]].ref = x[a]
    <3>1. ASSUME NEW a \in 2..(n - i + 1) PROVE committed[x[a - 1]].ref = x[a]
      <4>1. a \in 1..(n - i + 1) /\ a - 1 \in 1..(n - i + 1) /\ i + a - 1 \in 2..n
            /\ i + (a - 1) - 1 = (i + a - 1) - 1
        BY <1>1
      <4>2. x[a] = c[i + a - 1] /\ x[a - 1] = c[(i + a - 1) - 1]
        BY <4>1
      <4> QED BY <4>1, <4>2 DEF IsPath, IsChain
    <3> QED BY <3>1
  <2>7. \A a \in 2..(n - j + 1) : committed[y[a - 1]].ref = y[a]
    <3>1. ASSUME NEW a \in 2..(n - j + 1) PROVE committed[y[a - 1]].ref = y[a]
      <4>1. a \in 1..(n - j + 1) /\ a - 1 \in 1..(n - j + 1) /\ j + a - 1 \in 2..n
            /\ j + (a - 1) - 1 = (j + a - 1) - 1
        BY <1>1
      <4>2. y[a] = c[j + a - 1] /\ y[a - 1] = c[(j + a - 1) - 1]
        BY <4>1
      <4> QED BY <4>1, <4>2 DEF IsPath, IsChain
    <3> QED BY <3>1
  <2>8. y[n - j + 1] = c[n] /\ x[n - j + 1] = c[i + (n - j)]
    BY <1>1, <1>2, <2>1
  <2>9. c[i] \in Keys
    BY <1>1
  <2> HIDE DEF x, y
  <2>10. IsChain(x, n - i + 1, c[i]) /\ IsChain(y, n - j + 1, c[i])
    BY <2>1, <2>4, <2>5, <2>6, <2>7 DEF IsChain
  <2>11. \A a \in 1..(n - j + 1) : y[a] = x[a]
    BY <2>1, <2>9, <2>10, PathsAgree
  <2>12. c[n] = c[i + (n - j)]
    BY <2>1, <2>8, <2>11
  <2> DEFINE p == i + (n - j)
  <2>13. p \in 1..n /\ p + 1 \in 2..n /\ p + 1 \in 1..n /\ (p + 1) - 1 = p
    BY <1>1, <1>2
  <2>14. committed[c[p]].ref = c[p + 1] /\ c[p + 1] \in Keys /\ c[p] \in Keys
    BY <1>1, <2>13 DEF IsPath, IsChain
  <2>15. ~IsRef(c[p])
    BY <2>12 DEF IsPath
  <2> QED BY <2>14, <2>15, RefsAreKeys
<1>3. \A i, j \in 1..n : c[i] = c[j] => i = j
  BY <1>1, <1>2
<1> QED BY <1>3 DEF IsSearch


\* Where a search starts: nowhere at a key it avoids or that nobody declares,
\* at a literal nowhere else, and from a reference as from what it refers to.
LEMMA ReachFollows ==
  ASSUME Typed, NEW k \in Keys, NEW avoid \in SUBSET Keys
  PROVE  /\ k \in avoid \/ ~Declared(k) => Reach(k, avoid) = {}
         /\ k \notin avoid /\ Declared(k) /\ ~IsRef(k) => Reach(k, avoid) = {k}
         /\ k \notin avoid /\ IsRef(k) =>
              Reach(k, avoid) = Reach(committed[k].ref, avoid \cup {k})
<1>1. ASSUME NEW c, NEW n, IsSearch(c, n, k, avoid)
      PROVE  /\ n \in Nat \ {0} /\ c \in [1..n -> Keys] /\ c[1] = k /\ k \notin avoid
             /\ n = 1 => Declared(k) /\ ~IsRef(k)
             /\ n # 1 => IsRef(k) /\ committed[k].ref = c[2]
  <2>1. n \in Nat \ {0} /\ c \in [1..n -> Keys] /\ c[1] = k /\ k \notin avoid
    BY <1>1 DEF IsSearch, IsPath, IsChain
  <2>2. n = 1 => Declared(k) /\ ~IsRef(k)
    BY <1>1, <2>1 DEF IsSearch, IsPath
  <2>3. ASSUME n # 1 PROVE IsRef(k) /\ committed[k].ref = c[2]
    <3>1. 2 \in 2..n /\ 2 \in 1..n /\ 2 - 1 = 1
      BY <2>1, <2>3
    <3>2. committed[c[2 - 1]].ref = c[2] /\ c[2] \in Keys
      BY <1>1, <2>1, <3>1 DEF IsSearch, IsPath, IsChain
    <3>3. committed[k].ref = c[2] /\ committed[k].ref \in Keys
      BY <2>1, <3>1, <3>2
    <3> QED BY <3>3, RefsAreKeys
  <2> QED BY <2>1, <2>2, <2>3
<1>2. ASSUME k \in avoid \/ ~Declared(k) PROVE Reach(k, avoid) = {}
  <2>1. \A c, n : ~IsSearch(c, n, k, avoid)
    BY <1>1, <1>2, RefsAreKeys
  <2> QED BY <2>1 DEF Reach
<1>3. ASSUME k \notin avoid, Declared(k), ~IsRef(k) PROVE Reach(k, avoid) = {k}
  <2>1. \A c, n : IsSearch(c, n, k, avoid) => n = 1 /\ c[1] = k
    BY <1>1, <1>3
  <2> DEFINE c == [i \in 1..1 |-> k]
  <2>2. c \in [1..1 -> Keys] /\ c[1] = k /\ 2..1 = {} /\ \A i \in 1..1 : i = 1
    OBVIOUS
  <2> HIDE DEF c
  <2>3. IsPath(c, 1, k)
    BY <1>3, <2>2 DEF IsPath, IsChain
  <2>4. IsSearch(c, 1, k, avoid)
    BY <1>3, <2>2, <2>3 DEF IsSearch
  <2>5. k \in Reach(k, avoid)
    BY <2>2, <2>4 DEF Reach
  <2>6. \A l \in Reach(k, avoid) : l = k
    BY <2>1 DEF Reach
  <2> QED BY <2>5, <2>6
<1>4. ASSUME k \notin avoid, IsRef(k)
      PROVE  Reach(k, avoid) = Reach(committed[k].ref, avoid \cup {k})
  <2> DEFINE r == committed[k].ref
  <2>0. r \in Keys
    BY <1>4, RefsAreKeys
  <2> HIDE DEF r
  <2>1. ASSUME NEW l \in Reach(k, avoid) PROVE l \in Reach(r, avoid \cup {k})
    <3>1. PICK c, n : IsSearch(c, n, k, avoid) /\ c[n] = l
      BY <2>1 DEF Reach
    <3>2. n \in Nat \ {0} /\ c \in [1..n -> Keys] /\ c[1] = k /\ n # 1 /\ c[2] = r
      BY <1>1, <1>4, <3>1 DEF r
    <3> DEFINE m == n - 1
               d == [i \in 1..m |-> c[i + 1]]
    <3>3. m \in Nat \ {0} /\ \A i \in 1..m : i + 1 \in 1..n /\ i + 1 # 1
      BY <3>2
    <3>4. d \in [1..m -> Keys] /\ d[1] = r /\ d[m] = l
      BY <3>1, <3>2, <3>3
    <3>5. ASSUME NEW i \in 2..m PROVE committed[d[i - 1]].ref = d[i]
      <4>1. i \in 1..m /\ i - 1 \in 1..m /\ i + 1 \in 2..n /\ (i + 1) - 1 = (i - 1) + 1
        BY <3>3
      <4>2. d[i] = c[i + 1] /\ d[i - 1] = c[(i + 1) - 1]
        BY <4>1
      <4> QED BY <3>1, <4>1, <4>2 DEF IsSearch, IsPath, IsChain
    <3>6. \A i \in 1..m : d[i] \notin avoid \cup {k}
      BY <3>1, <3>2, <3>3 DEF IsSearch
    <3>7. \A i, j \in 1..m : d[i] = d[j] => i = j
      <4> SUFFICES ASSUME NEW i \in 1..m, NEW j \in 1..m, d[i] = d[j] PROVE i = j
        OBVIOUS
      <4>1. c[i + 1] = c[j + 1] /\ i + 1 \in 1..n /\ j + 1 \in 1..n
        BY <3>3
      <4>2. i + 1 = j + 1
        BY <3>1, <4>1 DEF IsSearch
      <4> QED BY <3>3, <4>2
    <3>8. Declared(l) /\ ~IsRef(l)
      BY <3>1 DEF IsSearch, IsPath
    <3> HIDE DEF d, m
    <3>9. IsPath(d, m, r)
      BY <3>3, <3>4, <3>5, <3>8 DEF IsPath, IsChain
    <3>10. IsSearch(d, m, r, avoid \cup {k})
      BY <3>6, <3>7, <3>9 DEF IsSearch
    <3> QED BY <2>1, <3>4, <3>10 DEF Reach
  <2>2. ASSUME NEW l \in Reach(r, avoid \cup {k}) PROVE l \in Reach(k, avoid)
    <3>1. PICK d, m : IsSearch(d, m, r, avoid \cup {k}) /\ d[m] = l
      BY <2>2 DEF Reach
    <3>2. m \in Nat \ {0} /\ d \in [1..m -> Keys] /\ d[1] = r
      BY <3>1 DEF IsSearch, IsPath, IsChain
    <3> DEFINE n == m + 1
               c == [i \in 1..n |-> IF i = 1 THEN k ELSE d[i - 1]]
    <3>3. n \in Nat \ {0} /\ n # 1 /\ \A i \in 1..n : i # 1 => i - 1 \in 1..m
      BY <3>2
    <3>4. c \in [1..n -> Keys] /\ c[1] = k /\ c[n] = l
      BY <3>1, <3>2, <3>3
    <3>5. ASSUME NEW i \in 2..n PROVE committed[c[i - 1]].ref = c[i]
      <4>1. i \in 1..n /\ i # 1 /\ i - 1 \in 1..n /\ i - 1 \in 1..m /\ c[i] = d[i - 1]
        BY <3>2
      <4>2. CASE i = 2
        <5>1. i - 1 = 1 /\ c[i - 1] = k /\ c[i] = r
          BY <3>2, <4>1, <4>2
        <5> QED BY <5>1 DEF r
      <4>3. CASE i # 2
        <5>1. i - 1 \in 2..m /\ c[i - 1] = d[(i - 1) - 1]
          BY <3>2, <4>1, <4>3
        <5> QED BY <3>1, <4>1, <5>1 DEF IsSearch, IsPath, IsChain
      <4> QED BY <4>2, <4>3
    <3>6. \A i \in 1..n : c[i] \notin avoid
      BY <1>4, <3>1, <3>3 DEF IsSearch
    <3>7. \A i, j \in 1..n : c[i] = c[j] => i = j
      <4> SUFFICES ASSUME NEW i \in 1..n, NEW j \in 1..n, c[i] = c[j] PROVE i = j
        OBVIOUS
      <4>1. \A a \in 1..n : a # 1 => c[a] # k
        BY <3>1, <3>3 DEF IsSearch
      <4>2. CASE i = 1 \/ j = 1
        BY <3>4, <4>1, <4>2
      <4>3. CASE i # 1 /\ j # 1
        <5>1. d[i - 1] = d[j - 1] /\ i - 1 \in 1..m /\ j - 1 \in 1..m
          BY <3>3, <4>3
        <5>2. i - 1 = j - 1
          BY <3>1, <5>1 DEF IsSearch
        <5> QED BY <3>2, <5>2
      <4> QED BY <4>2, <4>3
    <3>8. Declared(l) /\ ~IsRef(l)
      BY <3>1 DEF IsSearch, IsPath
    <3> HIDE DEF c, n
    <3>9. IsPath(c, n, k)
      BY <3>3, <3>4, <3>5, <3>8 DEF IsPath, IsChain
    <3>10. IsSearch(c, n, k, avoid)
      BY <3>6, <3>7, <3>9 DEF IsSearch
    <3>11. l \in Keys
      BY <2>2 DEF Reach
    <3> QED BY <3>4, <3>10, <3>11 DEF Reach
  <2> QED BY <2>1, <2>2 DEF r, Reach
<1> QED BY <1>2, <1>3, <1>4


\* The text of the literal a search comes to, if it comes to one.
TextAt(k, avoid) ==
  IF Reach(k, avoid) = {} THEN "" ELSE committed[CHOOSE l \in Reach(k, avoid) : TRUE].text

\* The text at a key: none, its own, or that of the key it refers to.
LEMMA TextFollows ==
  ASSUME Typed, NEW k \in Keys, NEW avoid \in SUBSET Keys
  PROVE  TextAt(k, avoid) =
           IF k \in avoid \/ ~Declared(k) THEN ""
           ELSE IF ~IsRef(k) THEN committed[k].text
           ELSE TextAt(committed[k].ref, avoid \cup {k})
<1>1. CASE k \in avoid \/ ~Declared(k)
  BY <1>1, ReachFollows DEF TextAt
<1>2. CASE k \notin avoid /\ Declared(k) /\ ~IsRef(k)
  <2>1. Reach(k, avoid) = {k}
    BY <1>2, ReachFollows
  <2>2. (CHOOSE l \in {k} : TRUE) = k
    OBVIOUS
  <2>3. {k} # {}
    OBVIOUS
  <2>4. TextAt(k, avoid) = committed[k].text
    BY <2>1, <2>2, <2>3 DEF TextAt
  <2> QED BY <1>2, <2>4
<1>3. CASE k \notin avoid /\ Declared(k) /\ IsRef(k)
  <2>1. Reach(k, avoid) = Reach(committed[k].ref, avoid \cup {k})
    BY <1>3, ReachFollows
  <2>2. TextAt(k, avoid) = TextAt(committed[k].ref, avoid \cup {k})
    BY <2>1 DEF TextAt
  <2> QED BY <1>3, <2>2
<1> QED BY <1>1, <1>2, <1>3

\* The definition of Follow has a solution, so Follow is one.
LEMMA FollowUnfolds ==
  ASSUME Typed, NEW k \in Keys, NEW avoid \in SUBSET Keys
  PROVE  Follow[avoid][k] =
           IF k \in avoid \/ ~Declared(k) THEN ""
           ELSE IF ~IsRef(k) THEN committed[k].text
           ELSE Follow[avoid \cup {k}][committed[k].ref]
<1> DEFINE Step(f, a) == [j \in Keys |->
             IF j \in a \/ ~Declared(j) THEN ""
             ELSE IF ~IsRef(j) THEN committed[j].text
             ELSE f[a \cup {j}][committed[j].ref]]
           F == Follow
           g == [a \in SUBSET Keys |-> [j \in Keys |-> TextAt(j, a)]]
<1>1. F = CHOOSE f : f = [a \in SUBSET Keys |-> Step(f, a)]
  BY DEF Follow
<1>2. \A a \in SUBSET Keys : g[a] = [j \in Keys |-> TextAt(j, a)]
  OBVIOUS
<1> DEFINE H == [a \in SUBSET Keys |-> Step(g, a)]
<1>3. ASSUME NEW a \in SUBSET Keys PROVE g[a] = Step(g, a)
  <2>1. ASSUME NEW j \in Keys
        PROVE  TextAt(j, a) = IF j \in a \/ ~Declared(j) THEN ""
                              ELSE IF ~IsRef(j) THEN committed[j].text
                              ELSE g[a \cup {j}][committed[j].ref]
    <3>1. CASE IsRef(j)
      <4>1. committed[j].ref \in Keys /\ a \cup {j} \in SUBSET Keys
        BY <3>1, RefsAreKeys
      <4>2. g[a \cup {j}] = [i \in Keys |-> TextAt(i, a \cup {j})]
        BY <1>2, <4>1
      <4> HIDE DEF g
      <4>3. g[a \cup {j}][committed[j].ref] = TextAt(committed[j].ref, a \cup {j})
        BY <4>1, <4>2
      <4> QED BY <3>1, <4>3, TextFollows
    <3>2. CASE ~IsRef(j)
      BY <3>2, TextFollows
    <3> QED BY <3>1, <3>2
  <2> HIDE DEF g
  <2> QED BY <1>2, <2>1
<1> HIDE DEF Step, F
<1>4. g = [a \in SUBSET Keys |-> Step(g, a)]
  <2>1. g = [a \in SUBSET Keys |-> g[a]]
    OBVIOUS
  <2> HIDE DEF g
  <2> QED BY <1>3, <2>1
<1>5. F = [a \in SUBSET Keys |-> Step(F, a)]
  <2> HIDE DEF g
  <2> QED BY <1>1, <1>4
<1>6. F[avoid] = Step(F, avoid)
  BY <1>5
<1>7. F[avoid][k] = Step(F, avoid)[k]
  BY <1>6
<1> QED BY <1>7 DEF Step, F

\* Following references gives the text of the search, whatever was followed
\* before: every step leaves one key less to follow.
LEMMA FollowIsSearch ==
  ASSUME Typed
  PROVE  \A k \in Keys : \A avoid \in SUBSET Keys : Follow[avoid][k] = TextAt(k, avoid)
<1> DEFINE Agrees(k, a) == Follow[a][k] = TextAt(k, a)
           bad == {n \in Nat : \E k \in Keys : \E a \in SUBSET Keys :
                                 n = Cardinality(Keys \ a) /\ ~Agrees(k, a)}
<1>1. \A a : IsFiniteSet(Keys \ a) /\ Cardinality(Keys \ a) \in Nat
  BY ConfigAssumption, FS_Subset, FS_CardinalityType
<1>2. ASSUME bad # {} PROVE FALSE
  <2>1. bad \in SUBSET Nat
    OBVIOUS
  <2>2. PICK n \in bad : \A m \in bad : n <= m
    BY <1>2, <2>1, LeastOfNumbers
  <2>3. PICK k \in Keys, a \in SUBSET Keys : n = Cardinality(Keys \ a) /\ ~Agrees(k, a)
    BY <2>2
  <2> DEFINE b == a \cup {k}
  <2>4. /\ Follow[a][k] =
             IF k \in a \/ ~Declared(k) THEN ""
             ELSE IF ~IsRef(k) THEN committed[k].text ELSE Follow[b][committed[k].ref]
        /\ TextAt(k, a) =
             IF k \in a \/ ~Declared(k) THEN ""
             ELSE IF ~IsRef(k) THEN committed[k].text ELSE TextAt(committed[k].ref, b)
    BY FollowUnfolds, TextFollows
  <2>5. k \notin a /\ IsRef(k) /\ ~Agrees(committed[k].ref, b)
    BY <2>3, <2>4
  <2>6. committed[k].ref \in Keys /\ b \in SUBSET Keys
    BY <2>5, RefsAreKeys
  <2>7. Keys \ b = (Keys \ a) \ {k} /\ k \in Keys \ a
    BY <2>5
  <2>8. Cardinality(Keys \ b) = n - 1 /\ n \in Nat
    <3>1. IsFiniteSet(Keys \ a) /\ Cardinality(Keys \ a) \in Nat
      BY <1>1
    <3>2. Cardinality((Keys \ a) \ {k}) = Cardinality(Keys \ a) - 1
      <4> HIDE DEF b
      <4>1. k \in Keys \ a
        BY <2>7
      <4> QED BY <3>1, <4>1, FS_RemoveElement
    <3>3. n = Cardinality(Keys \ a)
      BY <2>3
    <3> QED BY <2>7, <3>1, <3>2, <3>3
  <2> HIDE DEF Agrees, b
  <2>9. Cardinality(Keys \ b) \in bad
    BY <1>1, <2>5, <2>6
  <2> HIDE DEF bad
  <2>10. n <= n - 1
    BY <2>2, <2>8, <2>9
  <2> QED BY <2>8, <2>10
<1> HIDE DEF Agrees
<1>3. \A k \in Keys : \A a \in SUBSET Keys : Agrees(k, a)
  BY <1>1, <1>2
<1> QED BY <1>3 DEF Agrees

\* So a reference resolves to the literal that some chain of references ends at.
LEMMA ReferencesReach ==
  ASSUME Typed
  PROVE  RefsReachLiteral
<1> SUFFICES ASSUME NEW k \in Keys
             PROVE  LET ends == {l \in {Last(c) : c \in Chains(k)} : Declared(l) /\ ~IsRef(l)}
                    IN  {resolveReference(k)} = IF ends = {} THEN {""} ELSE {committed[l].text : l \in ends}
  BY DEF RefsReachLiteral
<1> DEFINE ends == {l \in {Last(c) : c \in Chains(k)} : Declared(l) /\ ~IsRef(l)}
           R == Reach(k, {})
<1>1. resolveReference(k) = TextAt(k, {})
  BY FollowIsSearch DEF resolveReference
<1>2. ASSUME NEW l \in R PROVE l \in ends
  <2>1. PICK c, n : IsSearch(c, n, k, {}) /\ c[n] = l
    BY <1>2 DEF Reach
  <2>2. n \in Nat \ {0} /\ c \in [1..n -> Keys] /\ c[1] = k
        /\ (\A i \in 2..n : committed[c[i - 1]].ref = c[i])
        /\ Declared(l) /\ ~IsRef(l)
        /\ \A i, j \in 1..n : c[i] = c[j] => i = j
    BY <2>1 DEF IsSearch, IsPath, IsChain
  <2>3. n <= Cardinality(Keys)
    <3>1. c \in Injection(1..n, Keys)
      BY <2>2 DEF Injection, IsInjective
    <3>2. Cardinality(1..n) <= Cardinality(Keys)
      BY <3>1, ConfigAssumption, FS_Injection
    <3>3. Cardinality(1..n) = n
      <4>1. 1 \in Int /\ n \in Int /\ ~(1 > n)
        BY <2>2
      <4>2. Cardinality(1..n) = n - 1 + 1
        BY <4>1, FS_Interval
      <4> QED BY <2>2, <4>2
    <3> QED BY <3>2, <3>3
  <2>4. Cardinality(Keys) \in Nat
    BY ConfigAssumption, FS_CardinalityType
  <2>5. n \in 1..Cardinality(Keys)
    BY <2>2, <2>3, <2>4
  <2>6. c \in UNION {[1..m -> Keys] : m \in 1..Cardinality(Keys)}
    BY <2>2, <2>5
  <2>7. Len(c) = n /\ Last(c) = l
    BY <2>1, <2>2 DEF Last
  <2>8. c \in Chains(k)
    BY <2>2, <2>6, <2>7 DEF Chains
  <2> QED BY <2>2, <2>7, <2>8
<1>3. ASSUME NEW l \in ends PROVE l \in R
  <2>1. PICK c \in Chains(k) : Last(c) = l
    OBVIOUS
  <2>2. Declared(l) /\ ~IsRef(l)
    OBVIOUS
  <2>3. PICK n \in 1..Cardinality(Keys) : c \in [1..n -> Keys]
    BY <2>1 DEF Chains
  <2>4. Cardinality(Keys) \in Nat
    BY ConfigAssumption, FS_CardinalityType
  <2>5. n \in Nat \ {0} /\ Len(c) = n /\ l = c[n] /\ l \in Keys
    BY <2>1, <2>3, <2>4 DEF Last
  <2>6. IsPath(c, n, k)
    BY <2>1, <2>2, <2>3, <2>5 DEF Chains, IsPath, IsChain
  <2>7. IsSearch(c, n, k, {})
    BY <2>6, PathsAreSimple
  <2> QED BY <2>5, <2>7 DEF Reach
<1>4. ASSUME NEW l \in R, NEW m \in R PROVE l = m
  BY OneEnd DEF Reach, IsSearch
<1>5. ends = R
  BY <1>2, <1>3
<1> DEFINE texts(S) == IF S = {} THEN {""} ELSE {committed[l].text : l \in S}
<1> HIDE DEF ends, R
<1>6. ASSUME R = {}
     PROVE  {resolveReference(k)} = texts(R)
  <2>1. TextAt(k, {}) = ""
    BY <1>6 DEF TextAt, R
  <2> QED BY <1>1, <1>6, <2>1
<1>7. ASSUME R # {}
     PROVE  {resolveReference(k)} = texts(R)
  <2> DEFINE e == CHOOSE l \in R : TRUE
  <2>1. e \in R
    BY <1>7
  <2>2. R = {e}
    BY <1>4, <2>1
  <2>3. TextAt(k, {}) = committed[e].text
    BY <1>7 DEF TextAt, R
  <2> HIDE DEF e
  <2>4. {committed[l].text : l \in R} = {committed[e].text}
    BY <2>2
  <2> QED BY <1>1, <1>7, <2>3, <2>4
<1>8. {resolveReference(k)} = texts(R)
  BY <1>6, <1>7
<1>9. {resolveReference(k)} = texts(ends)
  <2> HIDE DEF texts
  <2> QED BY <1>5, <1>8
<1> QED BY <1>9 DEF texts, ends

\* Whatever the files and the environment hold and whoever edits them, a key
\* resolves to the value of the highest layer that declares it, a locked key to
\* its committed value, in an accepted repository to an allowed value, and
\* "config explain" names the value the daemon works with; a reference
\* resolves to the literal that the chain of references leads to, if any.
THEOREM LayersResolve == ConfigSpec => []ResolvesAsDeclared
<1>1. ConfigInv => ResolvesAsDeclared
  <2>. SUFFICES ASSUME ConfigInv PROVE ResolvesAsDeclared
    OBVIOUS
  <2>1. Typed
    BY DEF Typed, ConfigInv, ConfigTypeOK
  <2>2. RefsReachLiteral
    BY <2>1, ReferencesReach
  <2>3. TopLayerWins
    BY TopLayerAlwaysWins
  <2>4. ResolvesToAllowed
    BY AnswersAllowed DEF ResolvesToAllowed
  <2>5. ExplainAgrees
    BY ExplainIsResolve, ConfigAssumption DEF ExplainAgrees
  <2>6. ConfigTypeOK
    BY DEF ConfigInv
  <2> QED BY <2>2, <2>3, <2>4, <2>5, <2>6 DEF ResolvesAsDeclared
<1> QED BY <1>1, ConfigInvariant, PTL

\* Only a rename ends a "config set" with a new file.
LEMMA SetEnds ==
  ASSUME ConfigInv, [ConfigNext]_configVars, NEW s \in Setters,
         setter[s] # NotSetting, setter'[s] = NotSetting
  PROVE  local' = local \/ local' = renderLocalDocument(s)
<1>1. setter \in [Setters -> [key : Keys \cup {""}, value : Texts \cup {""}, base : File]]
  BY DEF ConfigInv, ConfigTypeOK
<1>2. ASSUME NEW t \in Setters, NEW k \in Keys, NEW v \in Texts, WriteLocal(t, k, v)
      PROVE  local' = local
  BY <1>2 DEF WriteLocal
<1>3. ASSUME NEW t \in Setters, RenameLocal(t)
      PROVE  local' = renderLocalDocument(s)
  <2>1. t = s
    BY <1>1, <1>3 DEF RenameLocal
  <2> QED BY <1>3, <2>1 DEF RenameLocal
<1>4. ASSUME NEW t \in Setters, WriteFails(t) PROVE local' = local
  BY <1>4 DEF WriteFails
<1>5. CASE EditLocal
  BY <1>5 DEF EditLocal
<1>6. CASE UNCHANGED configVars
  BY <1>6 DEF configVars
<1> QED BY <1>2, <1>3, <1>4, <1>5, <1>6 DEF ConfigNext

\* A "config set" changes the key it names and no other, provided the file is
\* the one it read, and never leaves a file that can no longer be read.
THEOREM SetsStayLocal == ConfigSpec => SetsAreLocal
<1>1. ASSUME ConfigInv, [ConfigNext]_configVars
      PROVE  \A s \in Setters :
               setter[s] # NotSetting /\ setter'[s] = NotSetting /\ local' # local
                 => Readable(local')
  BY <1>1, SetEnds, RenderedByInv
<1>2. ASSUME ConfigInv, [ConfigNext]_configVars
      PROVE  \A s \in Setters :
               setter[s] # NotSetting /\ setter'[s] = NotSetting /\ setter[s].base = local
                 => \A k \in Keys \ {setter[s].key} : local'.values[k] = local.values[k]
  <2>. SUFFICES ASSUME NEW s \in Setters, setter[s] # NotSetting, setter'[s] = NotSetting,
                       setter[s].base = local, NEW k \in Keys \ {setter[s].key}
                PROVE  local'.values[k] = local.values[k]
    OBVIOUS
  <2>1. CASE local' = local
    BY <2>1
  <2>2. CASE local' = renderLocalDocument(s)
    <3>1. /\ setter[s].key \in Keys /\ setter[s].value \in Texts \cup {""} /\ local \in File
      BY <1>2, ConfigAssumption DEF ConfigInv, ConfigTypeOK, SetsChecked
    <3>2. local' = Put(local, setter[s].key, setter[s].value)
      BY <2>2 DEF renderLocalDocument, Put
    <3> QED BY <3>1, <3>2, RenderedFile
  <2> QED BY <1>2, <2>1, <2>2, SetEnds
<1>3. ConfigSpec => SetLeavesReadable
  BY <1>1, ConfigInvariant, PTL DEF ConfigSpec, SetLeavesReadable
<1>4. ConfigSpec => SetTouchesOneKey
  BY <1>2, ConfigInvariant, PTL DEF ConfigSpec, SetTouchesOneKey
<1> QED BY <1>3, <1>4 DEF SetsAreLocal
==============================================================================
