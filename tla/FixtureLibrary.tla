---------------------------- MODULE FixtureLibrary ----------------------------
(***************************************************************************)
(* The fixture library (wails/svc_fixturelibrary.go, command/fixture.go,   *)
(* fixture/directory.go): the operator searches the Open Fixture Library,  *)
(* previews one of its fixtures or a file of their own, and adds what was  *)
(* previewed to the library directory, where "artnet serve" finds the      *)
(* definitions of the show's fixtures.  Every call of the frontend runs in *)
(* a goroutine of its own.                                                 *)
(*                                                                         *)
(* A fixture file is a definition: its stable key, and whether it decodes. *)
(***************************************************************************)
EXTENDS Naturals, FiniteSets

CONSTANTS
  Calls,        \* calls of the frontend under way at once
  Definitions,  \* what a fixture file may say: records with key, text and valid
  Catalog,      \* fixtures of the Open Fixture Library: the definition there
  Picks,        \* files the operator may pick, and what they say at first
  Slug,         \* stable key -> file name of a fixture of one's own
  OflName,      \* fixture of the catalog -> file name
  MaxCalls,     \* bound: calls of the frontend
  MaxTroubles   \* bound: failures of the network and the disk, files others write

Nobody == "nobody"

NoDefinition == [key |-> "none", text |-> 0, valid |-> FALSE]

\* A file that was not written to its end.
Half == [key |-> "none", text |-> 1, valid |-> FALSE]

NoName == "none"

Tokens == 1..MaxCalls

Indexes == {"makers", "fixtures"}

Names == {Slug[k] : k \in DOMAIN Slug} \cup {OflName[r] : r \in DOMAIN OflName}

Keys == DOMAIN Slug

ASSUME LibraryAssumption ==
  /\ {MaxCalls, MaxTroubles} \subseteq Nat
  /\ \A d \in Definitions : d.key \in Keys /\ d.valid \in BOOLEAN
  /\ \A r \in DOMAIN Catalog : Catalog[r] \in Definitions /\ r \in DOMAIN OflName
  /\ Picks \in [DOMAIN Picks -> Definitions]
  /\ NoDefinition \notin Definitions /\ NoName \notin Names /\ IsFiniteSet(Calls) /\ Nobody \notin Calls

VARIABLES
  library,    \* the library directory: file name -> definition
  picked,     \* the files the operator picks from
  staged,     \* the preview directory: token -> definition
  previewSeq, \* previewSeq
  registry,   \* previewRegistry: token -> file name
  shown,      \* what each preview showed the operator
  index,      \* the two indexes of the catalog: none, failed, fetched
  indexLock,  \* oflMu and oflFixtureIndexMu: who holds them
  fetches,    \* how often each index was fetched
  call,       \* calls under way
  replaced,   \* history: files replaced by a call that was told not to
  torn,       \* history: previews of a file that changed between its two readings
  strays,     \* history: staged files a failure left behind
  spent       \* calls made, troubles had

libraryVars == <<library, picked, staged, previewSeq, registry, shown, index, indexLock, fetches,
                call, replaced, torn, strays, spent>>

NoCall == [pc |-> "idle", of |-> "none", token |-> 0, overwrite |-> FALSE, seen |-> NoDefinition,
           dest |-> NoName]

Exists(name) == library[name] # NoDefinition

\* Decode and Validate: every channel of every mode is one the definition has,
\* no range overlaps another.
Decodes(d) == d.valid

LibraryInit ==
  /\ library \in [Names -> {d \in Definitions : d.valid} \cup {NoDefinition}]
  /\ picked = Picks
  /\ staged = [t \in Tokens |-> NoDefinition]
  /\ previewSeq = 0
  /\ registry = [t \in Tokens |-> NoName]
  /\ shown = [t \in Tokens |-> NoDefinition]
  /\ index = [i \in Indexes |-> "none"]
  /\ indexLock = [i \in Indexes |-> Nobody]
  /\ fetches = [i \in Indexes |-> 0]
  /\ call = [c \in Calls |-> NoCall]
  /\ replaced = {}
  /\ torn = {}
  /\ strays = {}
  /\ spent = [calls |-> 0, troubles |-> 0]

In(c, pc) == call[c].pc = pc

\* A call of the frontend.
Called(c, pc, of, token, overwrite) ==
  /\ In(c, "idle")
  /\ spent.calls < MaxCalls
  /\ spent' = [spent EXCEPT !.calls = @ + 1]
  /\ call' = [call EXCEPT ![c] = [NoCall EXCEPT !.pc = pc, !.of = of, !.token = token, !.overwrite = overwrite]]

Moves(c, pc) == call' = [call EXCEPT ![c].pc = pc]

Answered(c) == call' = [call EXCEPT ![c] = NoCall]

Trouble ==
  /\ spent.troubles < MaxTroubles
  /\ spent' = [spent EXCEPT !.troubles = @ + 1]

-----------------------------------------------------------------------------
\* SearchOFL

searchVars == <<library, picked, staged, previewSeq, registry, shown, replaced, torn, strays>>

SearchOFL(c) ==
  /\ Called(c, "makers", "none", 0, FALSE)
  /\ UNCHANGED <<searchVars, index, indexLock, fetches>>

\* The fixtures come after the makers; the search does without them.
AfterIndex(c, i) == IF i = "makers" THEN Moves(c, "fixtures") ELSE Answered(c)

\* loadOFLManufacturers and loadOFLFixtureIndex: what was fetched is used again,
\* and the lock is held while it is fetched.
loadOFLManufacturers(c, i) ==
  /\ In(c, i)
  /\ indexLock[i] = Nobody
  /\ IF index[i] = "fetched"
     THEN AfterIndex(c, i) /\ UNCHANGED indexLock
     ELSE /\ call' = [call EXCEPT ![c].pc = "fetch", ![c].of = i]
          /\ indexLock' = [indexLock EXCEPT ![i] = c]
  /\ UNCHANGED <<searchVars, index, fetches, spent>>

\* The catalog answers.
FetchIndex(c, i) ==
  /\ In(c, "fetch") /\ call[c].of = i
  /\ index' = [index EXCEPT ![i] = "fetched"]
  /\ fetches' = [fetches EXCEPT ![i] = @ + 1]
  /\ indexLock' = [indexLock EXCEPT ![i] = Nobody]
  /\ AfterIndex(c, i)
  /\ UNCHANGED <<searchVars, spent>>

\* It does not, or not in time: without the makers it counts as unreachable,
\* and the next search tries again.
FetchIndexFails(c, i) ==
  /\ In(c, "fetch") /\ call[c].of = i
  /\ Trouble
  /\ index' = [index EXCEPT ![i] = "failed"]
  /\ indexLock' = [indexLock EXCEPT ![i] = Nobody]
  /\ Answered(c)
  /\ UNCHANGED <<searchVars, fetches>>

-----------------------------------------------------------------------------
\* Previews

previewVars == <<picked, index, indexLock, fetches, replaced>>

\* A fault: the number is taken when the preview is registered.
FaultnextPreviewPath(c) ==
  /\ call' = [call EXCEPT ![c].token = previewSeq + 1, ![c].pc = IF @ = "import path" THEN "import" ELSE "copy"]
  /\ UNCHANGED previewSeq

\* Every preview has a file of its own.
nextPreviewPath(c) ==
  /\ call' = [call EXCEPT ![c].token = previewSeq + 1, ![c].pc = IF @ = "import path" THEN "import" ELSE "copy"]
  /\ previewSeq' = previewSeq + 1

PreviewPath(c) ==
  /\ call[c].pc \in {"import path", "copy path"}
  /\ nextPreviewPath(c)
  /\ UNCHANGED previewVars /\ UNCHANGED <<library, staged, registry, shown, torn, strays, spent>>

PreviewOFL(c, ref) ==
  /\ Called(c, "import path", ref, 0, FALSE)
  /\ UNCHANGED previewVars /\ UNCHANGED <<library, staged, previewSeq, registry, shown, torn, strays>>

\* What is fetched is normalised and written with its provenance; what is not
\* a fixture is refused and nothing stays.
runFixtureImport(c) ==
  /\ In(c, "import")
  /\ IF Catalog[call[c].of].valid
     THEN /\ staged' = [staged EXCEPT ![call[c].token] = Catalog[call[c].of]]
          /\ call' = [call EXCEPT ![c].pc = "register", ![c].seen = Catalog[call[c].of], ![c].dest = OflName[call[c].of]]
     ELSE Answered(c) /\ UNCHANGED staged
  /\ UNCHANGED previewVars /\ UNCHANGED <<library, previewSeq, registry, shown, torn, strays, spent>>

\* The fetch or the write fails; a partial file is removed.
ImportFails(c) ==
  /\ In(c, "import")
  /\ Trouble
  /\ Answered(c)
  /\ staged' = [staged EXCEPT ![call[c].token] = NoDefinition]
  /\ UNCHANGED previewVars /\ UNCHANGED <<library, previewSeq, registry, shown, torn, strays>>

PreviewFile(c, pick) ==
  /\ Called(c, "inspect", pick, 0, FALSE)
  /\ UNCHANGED previewVars /\ UNCHANGED <<library, staged, previewSeq, registry, shown, torn, strays>>

\* "fixture inspect" reads the file; only one that decodes is staged.
Inspect(c) ==
  /\ In(c, "inspect")
  /\ IF Decodes(picked[call[c].of])
     THEN call' = [call EXCEPT ![c].pc = "copy path", ![c].seen = picked[call[c].of],
                               ![c].dest = Slug[picked[call[c].of].key]]
     ELSE Answered(c)
  /\ UNCHANGED previewVars /\ UNCHANGED <<library, staged, previewSeq, registry, shown, torn, strays, spent>>

\* copyFileBytes reads it again ...
copyFileBytes(c) ==
  /\ In(c, "copy")
  /\ staged' = [staged EXCEPT ![call[c].token] = picked[call[c].of]]
  /\ torn' = IF picked[call[c].of] = call[c].seen THEN torn ELSE torn \cup {call[c].token}
  /\ Moves(c, "register")
  /\ UNCHANGED previewVars /\ UNCHANGED <<library, previewSeq, registry, shown, strays, spent>>

\* ... and leaves what it wrote when it fails.
CopyFails(c) ==
  /\ In(c, "copy")
  /\ Trouble
  /\ staged' = [staged EXCEPT ![call[c].token] = Half]
  /\ strays' = strays \cup {call[c].token}
  /\ Answered(c)
  /\ UNCHANGED previewVars /\ UNCHANGED <<library, previewSeq, registry, shown, torn>>

\* What an import wrote cannot be read back or pinned; its file stays.
ReadBackFails(c) ==
  /\ In(c, "register") /\ call[c].of \in DOMAIN Catalog
  /\ Trouble
  /\ strays' = strays \cup {call[c].token}
  /\ Answered(c)
  /\ UNCHANGED previewVars /\ UNCHANGED <<library, staged, previewSeq, registry, shown, torn>>

\* From now on the preview can be committed, under the name of what was shown.
registerPreviewDestination(c) ==
  /\ In(c, "register")
  /\ registry' = [registry EXCEPT ![call[c].token] = call[c].dest]
  /\ shown' = [shown EXCEPT ![call[c].token] = call[c].seen]
  /\ Answered(c)
  /\ UNCHANGED previewVars /\ UNCHANGED <<library, staged, previewSeq, torn, strays, spent>>

-----------------------------------------------------------------------------
\* CommitPreview and DiscardPreview

commitVars == <<picked, previewSeq, shown, index, indexLock, fetches, torn>>

\* A token the service gave out names a destination.  Tokens are given out by
\* the previews that showed something.
CommitPreview(c, t, overwrite) ==
  /\ shown[t] # NoDefinition
  /\ Called(c, "destination", "none", t, overwrite)
  /\ UNCHANGED commitVars /\ UNCHANGED <<library, staged, registry, replaced, strays>>

previewDestination(c) ==
  /\ In(c, "destination")
  /\ IF registry[call[c].token] = NoName THEN Answered(c)
     ELSE call' = [call EXCEPT ![c].pc = "stat", ![c].dest = registry[call[c].token]]
  /\ UNCHANGED commitVars /\ UNCHANGED <<library, staged, registry, replaced, strays, spent>>

\* A file that is there is only replaced when that was asked for.
refuseExisting(c) ==
  /\ In(c, "stat")
  /\ IF ~call[c].overwrite /\ Exists(call[c].dest) THEN Answered(c)
     ELSE call' = [call EXCEPT ![c].pc = "rename", ![c].seen = library[call[c].dest]]
  /\ UNCHANGED commitVars /\ UNCHANGED <<library, staged, registry, replaced, strays, spent>>

\* The staged file is moved; one that is gone is an error.
RenamePreview(c) ==
  /\ In(c, "rename")
  /\ LET t == call[c].token   dest == call[c].dest
     IN IF staged[t] = NoDefinition
        THEN Answered(c) /\ UNCHANGED <<library, staged, replaced>>
        ELSE /\ library' = [library EXCEPT ![dest] = staged[t]]
             /\ staged' = [staged EXCEPT ![t] = NoDefinition]
             /\ replaced' = IF Exists(dest) /\ ~call[c].overwrite THEN replaced \cup {<<t, call[c].seen>>} ELSE replaced
             /\ Moves(c, "forget")
  /\ UNCHANGED commitVars /\ UNCHANGED <<registry, strays, spent>>

\* The rename fails, as it always does from one volume to another.
RenameFails(c) ==
  /\ In(c, "rename")
  /\ Trouble
  /\ Answered(c)
  /\ UNCHANGED commitVars /\ UNCHANGED <<library, staged, registry, replaced, strays>>

forgetPreviewDestination(c) ==
  /\ In(c, "forget")
  /\ registry' = [registry EXCEPT ![call[c].token] = NoName]
  /\ Answered(c)
  /\ UNCHANGED commitVars /\ UNCHANGED <<library, staged, replaced, strays, spent>>

\* The registry forgets it first ...
DiscardPreview(c, t) ==
  /\ shown[t] # NoDefinition
  /\ Called(c, "remove", "none", t, FALSE)
  /\ registry' = [registry EXCEPT ![t] = NoName]
  /\ UNCHANGED commitVars /\ UNCHANGED <<library, staged, replaced, strays>>

\* ... then it is removed; one that is gone already is no error.
RemovePreview(c) ==
  /\ In(c, "remove")
  /\ staged' = [staged EXCEPT ![call[c].token] = NoDefinition]
  /\ Answered(c)
  /\ UNCHANGED commitVars /\ UNCHANGED <<library, registry, replaced, strays, spent>>

RemoveFails(c) ==
  /\ In(c, "remove")
  /\ Trouble
  /\ strays' = strays \cup {call[c].token}
  /\ Answered(c)
  /\ UNCHANGED commitVars /\ UNCHANGED <<library, staged, registry, replaced>>

-----------------------------------------------------------------------------
\* artnet serve

ListDirectory == {n \in Names : Exists(n)}

\* One file that does not decode, and the daemon does not start.
loadFixtureDirectory == \A n \in ListDirectory : Decodes(library[n])

\* Somebody saves the picked file.
EditPicked ==
  /\ Trouble
  /\ \E p \in DOMAIN picked, d \in Definitions : picked[p] # d /\ picked' = [picked EXCEPT ![p] = d]
  /\ UNCHANGED <<library, staged, previewSeq, registry, shown, index, indexLock, fetches, call, replaced, torn, strays>>

\* Somebody runs "fixture import" into the library, which replaces what is there.
ImportFromCommandLine ==
  /\ Trouble
  /\ \E r \in DOMAIN Catalog, n \in Names :
       /\ Catalog[r].valid
       /\ library' = [library EXCEPT ![n] = Catalog[r]]
  /\ UNCHANGED <<picked, staged, previewSeq, registry, shown, index, indexLock, fetches, call, replaced, torn, strays>>

-----------------------------------------------------------------------------

\* What a call does once it was made.
CallStep(c) ==
  \/ \E i \in Indexes : loadOFLManufacturers(c, i) \/ FetchIndex(c, i) \/ FetchIndexFails(c, i)
  \/ PreviewPath(c) \/ runFixtureImport(c) \/ ImportFails(c) \/ ReadBackFails(c)
  \/ Inspect(c) \/ copyFileBytes(c) \/ CopyFails(c) \/ registerPreviewDestination(c)
  \/ previewDestination(c) \/ refuseExisting(c) \/ RenamePreview(c) \/ RenameFails(c) \/ forgetPreviewDestination(c)
  \/ RemovePreview(c) \/ RemoveFails(c)

Searching == \E c \in Calls : SearchOFL(c) \/ CallStep(c)

Importing ==
  \/ \E c \in Calls :
       \/ \E r \in DOMAIN Catalog : PreviewOFL(c, r)
       \/ \E p \in DOMAIN picked : PreviewFile(c, p)
       \/ \E t \in Tokens : DiscardPreview(c, t) \/ (\E o \in BOOLEAN : CommitPreview(c, t, o))
       \/ CallStep(c)
  \/ EditPicked \/ ImportFromCommandLine

\* A goroutine goes on; every fetch has a timeout.
LibraryFairness == \A c \in Calls : WF_libraryVars(CallStep(c))

-----------------------------------------------------------------------------
\* Properties

LibraryTypeOK ==
  /\ \A n \in Names : library[n] \in Definitions \cup {NoDefinition}
  /\ previewSeq \in 0..MaxCalls /\ registry \in [Tokens -> Names \cup {NoName}]
  /\ indexLock \in [Indexes -> Calls \cup {Nobody}] /\ index \in [Indexes -> {"none", "failed", "fetched"}]

Resting == \A c \in Calls : In(c, "idle")

\* What a commit adds is what the preview showed the operator, however previews
\* overlap, unless the picked file changed while it was being previewed
\* (nextPreviewPath; PreviewFile inspects the file and copies it in two readings).
CommittedAsShown ==
  \A c \in Calls : In(c, "rename") /\ call[c].token \notin torn /\ staged[call[c].token] # NoDefinition =>
                     staged[call[c].token] = shown[call[c].token]

\* The daemon finds every file of the library in order, whatever was imported,
\* failed or given up, unless a picked file changed while it was being
\* previewed (loadFixtureDirectory refuses the directory for one bad file).
LibraryLoads == loadFixtureDirectory \/ torn # {}

\* A commit that was not told to replace replaces nothing that was there when
\* it looked, however calls overlap; it may replace what was added between its
\* look and its rename (CommitPreview).
ReplacesOnlyWhenAsked == \A r \in replaced : r[2] = NoDefinition

\* When nothing is under way, every staged file is one the operator can still
\* commit or discard, and every token they can commit has its file, unless a
\* disk failure or an artifact that could not be read back left it
\* (registerPreviewDestination, DiscardPreview).
NoStrays == Resting => \A t \in Tokens : (staged[t] # NoDefinition) = (registry[t] # NoName) \/ t \in strays

\* Each index is fetched once, however many searches overlap, one per key the
\* operator types (loadOFLManufacturers holds its lock across the fetch).
FetchedOnce == \A i \in Indexes : fetches[i] <= 1

\* Imports that overlap, fail or are abandoned leave a library that loads, that
\* holds what was previewed, and no files or fetches of their own.
LibraryIsSound ==
  /\ LibraryTypeOK
  /\ CommittedAsShown
  /\ LibraryLoads
  /\ ReplacesOnlyWhenAsked
  /\ NoStrays
  /\ FetchedOnce

\* Every call is answered, searches that wait for another's fetch included.
CallsAnswered == \A c \in Calls : []<>(In(c, "idle"))
=============================================================================
