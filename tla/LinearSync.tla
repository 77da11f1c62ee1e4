----------------------------- MODULE LinearSync -----------------------------
(***************************************************************************)
(* Traceability to Linear (internal/trace, command/linear.go): "linear     *)
(* preview" writes a plan of what would bring the remote objects in line   *)
(* with the planning files, "linear apply" carries a plan out and records  *)
(* what it achieved in the map, the journal and the report, "linear map    *)
(* migrate" rewrites the map.  The planning files, the remote objects and  *)
(* the calls to Linear change or fail around them at any step, and a       *)
(* command may die between two.  One command runs at a time: the code has  *)
(* no lock that would keep two apart.                                      *)
(*                                                                         *)
(* A plan's identity is a hash of all it says, so two plans are the same   *)
(* plan when they are equal.  Commands pass no baselines, so a plan has no *)
(* conflicts.                                                              *)
(***************************************************************************)
EXTENDS Integers, Sequences, FiniteSets

CONSTANTS
  N,           \* entities of the planning files, numbered as their IDs sort
  Kind,        \* 1..N -> their kinds
  Parent,      \* 1..N -> the entity above, 0 for what hangs on the project itself
  Files,       \* plan files
  MaxTitle,    \* bound: titles an entity may have
  MaxCommands, \* bound: commands run
  MaxObjects,  \* bound: remote objects ever created
  MaxEdits,    \* bound: edits of the planning files
  MaxHand,     \* bound: edits made in Linear by hand
  MaxFaults    \* bound: calls that fail, commands that die

Entities == 1..N

None == 0

Kinds == {"milestone", "phase", "requirement", "plan", "task"}

Titles == 1..MaxTitle

NoPlan == [none |-> TRUE]

NoJournal == [none |-> TRUE]

NotSeen == [title |-> 0, at |-> 0]

hierarchyRank(kind) ==
  CASE kind = "milestone" -> 0
    [] kind = "phase" -> 1
    [] kind \in {"requirement", "plan"} -> 2
    [] kind = "task" -> 3

\* What an entity hangs on is of a kind of its own, further up (parentKindRules).
ASSUME LinearAssumption ==
  /\ N \in Nat /\ MaxTitle \in Nat \ {0}
  /\ Kind \in [Entities -> Kinds]
  /\ Parent \in [Entities -> 0..N]
  /\ \A e \in Entities : Parent[e] # 0 => hierarchyRank(Kind[Parent[e]]) < hierarchyRank(Kind[e])
  /\ {MaxCommands, MaxObjects, MaxEdits, MaxHand, MaxFaults} \subseteq Nat

VARIABLES
  repo,     \* the catalog built from the planning files: title of each entity, 0 if absent
  map,      \* linear-map.json: the remote object each entity is linked to
  plans,    \* plan files
  journals, \* the journal beside each plan file
  remote,   \* the objects in Linear, in the order they were created
  cmd,      \* the command that runs
  used,     \* what was used of each bound
  lost      \* history: entities with an object nobody recorded, or no longer

vars == <<repo, map, plans, journals, remote, cmd, used, lost>>

NoCommand ==
  [pc |-> "idle", file |-> CHOOSE f \in Files : TRUE, plan |-> NoPlan, known |-> [e \in Entities |-> None],
   migrated |-> NoPlan, results |-> <<>>, made |-> None, read |-> 0, clean |-> TRUE]

Init ==
  /\ repo = [e \in Entities |-> 1]
  /\ map = [e \in Entities |-> None]
  /\ plans = [f \in Files |-> NoPlan]
  /\ journals = [f \in Files |-> NoJournal]
  /\ remote = <<>>
  /\ cmd = NoCommand
  /\ used = [commands |-> 0, edits |-> 0, hand |-> 0, faults |-> 0]
  /\ lost = {}

At(pc) == cmd.pc = pc

Found(u) == u # None /\ ~remote[u].gone

-----------------------------------------------------------------------------
\* The map, and the plan that follows from it

\* The entities with their titles; links of entities that are gone are gone.
MigrateV1ToV2 ==
  [intents |-> repo, links |-> [e \in Entities |-> IF repo[e] = 0 THEN None ELSE map[e]]]

\* Only objects the client knows a link to are ever read.
CaptureSnapshot(known) ==
  [e \in Entities |-> IF Found(known[e]) THEN [title |-> remote[known[e]].title, at |-> remote[known[e]].at]
                      ELSE NotSeen]

discoverObservations(migrated, known) ==
  LET records == CaptureSnapshot(known)
  IN [e \in Entities |-> IF migrated.links[e] # None /\ migrated.links[e] = known[e] THEN records[e]
                         ELSE NotSeen]

BuildPlan(migrated, observations) ==
  [intents |-> migrated.intents, links |-> migrated.links, seen |-> observations]

BuildCompletePreview(migrated, known) ==
  BuildPlan(migrated, discoverObservations(migrated, known))

SortsBefore(d, e) ==
  LET rd == hierarchyRank(Kind[d]) re == hierarchyRank(Kind[e])
  IN rd < re \/ (rd = re /\ d < e)

\* The operations of a plan: one per entity, by rank and then by ID, each after
\* as many as sort before it.
SortOperations(plan) ==
  LET planned == {e \in Entities : plan.intents[e] # 0}
  IN [i \in 1..Cardinality(planned) |->
        CHOOSE e \in planned : Cardinality({d \in planned : SortsBefore(d, e)}) = i - 1]

Operations(plan) == SortOperations(plan)

-----------------------------------------------------------------------------
\* linear preview --remote, linear map migrate

Start ==
  /\ At("idle")
  /\ used.commands < MaxCommands
  /\ used' = [used EXCEPT !.commands = @ + 1]

\* Ends the command; what it only held in memory is gone.
End == cmd' = NoCommand

buildRemotePreview(f) ==
  /\ Start
  /\ cmd' = [NoCommand EXCEPT !.pc = "previewing", !.file = f, !.migrated = MigrateV1ToV2,
                              !.known = MigrateV1ToV2.links]
  /\ UNCHANGED <<repo, map, plans, journals, remote, lost>>

writePreviewPlan ==
  /\ At("previewing")
  /\ plans' = [plans EXCEPT ![cmd.file] = BuildCompletePreview(cmd.migrated, cmd.known)]
  /\ End
  /\ UNCHANGED <<repo, map, journals, remote, used, lost>>

runLinearMapMigrate ==
  /\ Start
  /\ cmd' = [NoCommand EXCEPT !.pc = "migrating", !.migrated = MigrateV1ToV2]
  /\ UNCHANGED <<repo, map, plans, journals, remote, lost>>

\* Staged and renamed: the new map or the old one, never a part.
WriteMigration ==
  /\ At("migrating")
  /\ map' = cmd.migrated.links
  /\ lost' = lost \cup {e \in Entities : map[e] # None /\ map'[e] = None}
  /\ End
  /\ UNCHANGED <<repo, plans, journals, remote, used>>

-----------------------------------------------------------------------------
\* linear apply: guards

\* The plan file is read, and a client is made of the links of the moment.
newProcessLinearClient(f) ==
  /\ Start
  /\ plans[f] # NoPlan
  /\ cmd' = [NoCommand EXCEPT !.pc = "client", !.file = f, !.plan = plans[f], !.known = MigrateV1ToV2.links]
  /\ UNCHANGED <<repo, map, plans, journals, remote, lost>>

\* The map and the planning files are read again.
runLinearApply ==
  /\ At("client")
  /\ cmd' = [cmd EXCEPT !.pc = "migrated", !.migrated = MigrateV1ToV2]
  /\ UNCHANGED <<repo, map, plans, journals, remote, used, lost>>

\* A fault: a plan is taken for fresh because it was when it was written.
FaultValidatePlanFreshness(plan, migrated, known) == TRUE

ValidatePlanFreshness(plan, migrated, known) == BuildCompletePreview(migrated, known) = plan

fieldsMatch(u, plan, e) == Found(u) /\ remote[u].title = plan.intents[e]

\* Whether the journal lets the apply go on after what it says was achieved.
ResumePrefix(plan, journal) ==
  \/ journal = NoJournal
  \/ /\ journal # NoJournal
     /\ journal.plan = plan
     /\ \A i \in DOMAIN journal.results :
          /\ journal.results[i].id = Operations(plan)[i]
          /\ fieldsMatch(journal.results[i].uuid, plan, journal.results[i].id)

\* An entity waits for one above it that has neither an operation nor a link.
classifyBlocked(plan, links) ==
  {e \in Entities : /\ plan.intents[e] # 0 /\ Parent[e] # 0
                    /\ plan.intents[Parent[e]] = 0 /\ links[Parent[e]] = None}

RunApply ==
  /\ At("migrated")
  /\ LET journal == journals[cmd.file]
     IN IF /\ ValidatePlanFreshness(cmd.plan, cmd.migrated, cmd.known)
           /\ ResumePrefix(cmd.plan, journal)
        THEN cmd' = [cmd EXCEPT !.pc = "apply", !.results = IF journal = NoJournal THEN <<>> ELSE journal.results]
        ELSE End
  /\ UNCHANGED <<repo, map, plans, journals, remote, used, lost>>

-----------------------------------------------------------------------------
\* linear apply: operations

\* The operation under way.
Current == Operations(cmd.plan)[Len(cmd.results) + 1]

\* Nothing is left, or what is left may not be tried.
Finished ==
  ~(/\ Len(cmd.results) < Len(Operations(cmd.plan))
    /\ Current \notin classifyBlocked(cmd.plan, cmd.migrated.links))

\* An operation that was not achieved stops the apply.
Stop == cmd' = [cmd EXCEPT !.pc = "commit", !.made = None, !.read = 0]

\* The client also keeps what it created or updated.
remember(c, e, u) == [c EXCEPT !.known[e] = u]

Achieve(u) ==
  cmd' = [cmd EXCEPT !.pc = "apply", !.results = Append(@, [id |-> Current, uuid |-> u]), !.made = None, !.read = 0]

\* What hangs on the project has no parent in Linear.
resolveParentUUID(e) == IF Parent[e] = 0 THEN None ELSE cmd.known[Parent[e]]

ParentResolved(e) == Parent[e] = 0 \/ resolveParentUUID(e) # None

applyOperations ==
  /\ At("apply")
  /\ Finished
  /\ Stop
  /\ UNCHANGED <<repo, map, plans, journals, remote, used, lost>>

\* A fault: the object is updated whoever changed it since the preview.
FaultapplyLinkedOperation ==
  /\ At("apply") /\ ~Finished
  /\ LET e == Current
         u == cmd.plan.links[e]
     IN /\ u # None
        /\ IF fieldsMatch(u, cmd.plan, e) THEN Achieve(u)
           ELSE cmd' = [cmd EXCEPT !.pc = "update", !.read = IF Found(u) THEN remote[u].at ELSE 0]
  /\ UNCHANGED <<repo, map, plans, journals, remote, used, lost>>

\* The object is read: it is as it should be, or it is not as it was when the
\* plan was made, or it is to be updated.
applyLinkedOperation ==
  /\ At("apply") /\ ~Finished
  /\ LET e == Current
         u == cmd.plan.links[e]
     IN /\ u # None
        /\ IF fieldsMatch(u, cmd.plan, e) THEN Achieve(u)
           ELSE IF Found(u) /\ cmd.plan.seen[e] # NotSeen /\ remote[u].at # cmd.plan.seen[e].at THEN Stop
           ELSE cmd' = [cmd EXCEPT !.pc = "update", !.read = IF Found(u) THEN remote[u].at ELSE 0]
  /\ UNCHANGED <<repo, map, plans, journals, remote, used, lost>>

Overwritten(e, u) ==
  [remote[u] EXCEPT !.title = cmd.plan.intents[e], !.at = @ + 1, !.parent = resolveParentUUID(e)]

Overwrite(e, u) == remote' = [remote EXCEPT ![u] = Overwritten(e, u)]

\* The parent must be known and the object still be there.  The call carries
\* no condition: what it finds, it overwrites.
Update ==
  /\ At("update")
  /\ LET e == Current
         u == cmd.plan.links[e]
     IN IF ParentResolved(e) /\ Found(u)
        THEN /\ Overwrite(e, u)
             /\ cmd' = [remember(cmd, e, u) EXCEPT !.pc = "confirm", !.made = u, !.read = 0]
        ELSE remote' = remote /\ Stop
  /\ UNCHANGED <<repo, map, plans, journals, used, lost>>

NewObject(e) ==
  [of |-> e, title |-> cmd.plan.intents[e], at |-> 1, parent |-> resolveParentUUID(e), gone |-> FALSE, hand |-> 0]

Create(e) ==
  /\ Len(remote) < MaxObjects
  /\ remote' = Append(remote, NewObject(e))

\* Looking for an object by its marker finds nothing: the client cannot search.
applyUnlinkedOperation ==
  /\ At("apply") /\ ~Finished
  /\ LET e == Current
     IN /\ cmd.plan.links[e] = None
        /\ IF ParentResolved(e)
           THEN /\ Create(e)
                /\ cmd' = [remember(cmd, e, Len(remote')) EXCEPT !.pc = "confirm", !.made = Len(remote')]
           ELSE remote' = remote /\ Stop
  /\ UNCHANGED <<repo, map, plans, journals, used, lost>>

\* What was created for an entity without a link and is not achieved is lost.
LoseMade == lost' = lost \cup (IF cmd.plan.links[Current] = None THEN {Current} ELSE {})

confirmMutation ==
  /\ At("confirm")
  /\ IF fieldsMatch(cmd.made, cmd.plan, Current)
     THEN Achieve(cmd.made) /\ lost' = lost
     ELSE Stop /\ LoseMade
  /\ UNCHANGED <<repo, map, plans, journals, remote, used>>

-----------------------------------------------------------------------------
\* linear apply: the result

mergeApplyResultsIntoMap(links, results) ==
  [e \in Entities |-> IF \E i \in DOMAIN results : results[i].id = e
                      THEN results[CHOOSE i \in DOMAIN results : results[i].id = e].uuid
                      ELSE links[e]]

\* Nothing is written when nothing was achieved.
commitApplyResults ==
  /\ At("commit")
  /\ cmd.results = <<>>
  /\ End
  /\ UNCHANGED <<repo, map, plans, journals, remote, used, lost>>

\* CommitResultAtomically renames the map first ...
CommitMap ==
  /\ At("commit")
  /\ cmd.results # <<>>
  /\ map' = mergeApplyResultsIntoMap(cmd.migrated.links, cmd.results)
  /\ lost' = lost \cup {e \in Entities : map[e] # None /\ map'[e] = None}
  /\ cmd' = [cmd EXCEPT !.pc = "mapped"]
  /\ UNCHANGED <<repo, plans, journals, remote, used>>

\* ... then the journal, then the report.
CommitJournal ==
  /\ At("mapped")
  /\ journals' = [journals EXCEPT ![cmd.file] = [plan |-> cmd.plan, results |-> cmd.results]]
  /\ End
  /\ UNCHANGED <<repo, map, plans, remote, used, lost>>

-----------------------------------------------------------------------------
\* What goes wrong

Fault ==
  /\ used.faults < MaxFaults
  /\ used' = [used EXCEPT !.faults = @ + 1]

\* A call fails or times out before Linear did anything, or a read's answer is
\* lost: a preview ends, an apply stops.
CallFails ==
  /\ Fault
  /\ \/ At("previewing") /\ End /\ lost' = lost
     \/ At("migrated") /\ End /\ lost' = lost
     \/ /\ At("apply") /\ ~Finished
        /\ cmd' = [cmd EXCEPT !.pc = "commit", !.clean = FALSE]
        /\ lost' = lost
     \/ At("update") /\ cmd' = [cmd EXCEPT !.pc = "commit", !.clean = FALSE, !.read = 0] /\ lost' = lost
     \/ At("confirm") /\ cmd' = [cmd EXCEPT !.pc = "commit", !.clean = FALSE, !.made = None] /\ LoseMade
  /\ UNCHANGED <<repo, map, plans, journals, remote>>

\* The answer of a create or an update is lost: the client is terminated, and
\* the apply cannot tell what became of the object.
AnswerLost ==
  /\ Fault
  /\ At("update") \/ (At("apply") /\ ~Finished)
  /\ LET e == Current
         u == cmd.plan.links[e]
     IN /\ ParentResolved(e)
        /\ \/ /\ At("update") /\ Found(u)
              /\ Overwrite(e, u)
              /\ lost' = lost
           \/ /\ At("apply")
              /\ u = None
              /\ Create(e)
              /\ lost' = lost \cup {e}
        /\ cmd' = [cmd EXCEPT !.pc = "commit", !.clean = FALSE, !.read = 0]
  /\ UNCHANGED <<repo, map, plans, journals>>

\* The command dies: what it created and did not put into the map is lost.
Die ==
  /\ Fault
  /\ ~At("idle")
  /\ lost' = IF At("mapped") THEN lost
             ELSE lost \cup {e \in Entities : \E u \in DOMAIN remote :
                               /\ remote[u].of = e /\ map[e] # u
                               /\ u \in {cmd.results[i].uuid : i \in DOMAIN cmd.results} \cup {cmd.made}}
  /\ End
  /\ UNCHANGED <<repo, map, plans, journals, remote>>

-----------------------------------------------------------------------------
\* What changes around the commands

Disturb == cmd' = IF At("idle") THEN cmd ELSE [cmd EXCEPT !.clean = FALSE]

\* A planning file changes.  The catalog has an entity only with the one above it.
EditRepo(e, title) ==
  /\ used.edits < MaxEdits
  /\ title # repo[e]
  /\ \A d \in Entities : /\ d = Parent[e] /\ title # 0 => repo[d] # 0
                         /\ e = Parent[d] /\ title = 0 => repo[d] = 0
  /\ repo' = [repo EXCEPT ![e] = title]
  /\ used' = [used EXCEPT !.edits = @ + 1]
  /\ Disturb
  /\ UNCHANGED <<map, plans, journals, remote, lost>>

\* Someone changes an object in Linear ...
EditRemote(u, title) ==
  /\ used.hand < MaxHand
  /\ Found(u)
  /\ title # remote[u].title
  /\ remote' = [remote EXCEPT ![u] = [remote[u] EXCEPT !.title = title, !.at = @ + 1, !.hand = remote[u].at + 1]]
  /\ used' = [used EXCEPT !.hand = @ + 1]
  /\ Disturb
  /\ UNCHANGED <<repo, map, plans, journals, lost>>

\* ... or deletes it.
DeleteRemote(u) ==
  /\ used.hand < MaxHand
  /\ Found(u)
  /\ remote' = [remote EXCEPT ![u] = [remote[u] EXCEPT !.gone = TRUE]]
  /\ used' = [used EXCEPT !.hand = @ + 1]
  /\ Disturb
  /\ UNCHANGED <<repo, map, plans, journals, lost>>

Command ==
  \/ writePreviewPlan \/ WriteMigration
  \/ runLinearApply \/ RunApply
  \/ applyOperations \/ applyLinkedOperation \/ Update \/ applyUnlinkedOperation \/ confirmMutation
  \/ commitApplyResults \/ CommitMap \/ CommitJournal

Next ==
  \/ \E f \in Files : buildRemotePreview(f) \/ newProcessLinearClient(f)
  \/ runLinearMapMigrate
  \/ Command
  \/ CallFails \/ AnswerLost \/ Die
  \/ \E e \in Entities, title \in {0} \cup Titles : EditRepo(e, title)
  \/ \E u \in DOMAIN remote : DeleteRemote(u) \/ \E title \in Titles : EditRemote(u, title)

\* A command goes on: every call to Linear has a deadline.
Spec == Init /\ [][Next]_vars /\ WF_vars(Command)

-----------------------------------------------------------------------------
\* Properties

TypeOK ==
  /\ repo \in [Entities -> {0} \cup Titles]
  /\ map \in [Entities -> {None} \cup DOMAIN remote]
  /\ \A u \in DOMAIN remote : remote[u].of \in Entities /\ remote[u].title \in Titles
  /\ \A f \in Files : journals[f] # NoJournal => Len(journals[f].results) \in 1..N
  /\ cmd.pc \in {"idle", "previewing", "migrating", "client", "migrated", "apply", "update", "confirm",
                 "commit", "mapped"}
  /\ lost \subseteq Entities

\* The map, and what an apply is about to put there, links an entity to an
\* object that was created for it, and under the object created for the entity
\* above it (mergeApplyResultsIntoMap, resolveParentUUID).
LinksAreOwn ==
  /\ \A e \in Entities : map[e] # None => remote[map[e]].of = e
  /\ \A u \in DOMAIN remote :
       LET above == Parent[remote[u].of]
       IN IF above = 0 THEN remote[u].parent = None
          ELSE remote[u].parent # None /\ remote[remote[u].parent].of = above

\* Applying plans again, in whatever order they were made, old ones too, never
\* creates a second object for an entity, nor leaves one without its link, as
\* long as no create went unanswered, no apply died before it wrote the map,
\* and the map was not written while the entity was missing from the planning
\* files (ValidatePlanFreshness, commitApplyResults).  An entity of which one
\* of these is not so (lost) may get a second object at the next apply: the
\* client cannot search for what it made (linear.go:860).  The engine says it
\* cannot (engine.go:131: "found and treated as achieved instead of retried
\* into a duplicate"), and so does apply/model.go:95 of what is pending.
OneObjectPerEntity ==
  \A e \in Entities \ lost :
    LET objects == {u \in DOMAIN remote : remote[u].of = e}
    IN /\ Cardinality(objects) <= 1
       /\ At("idle") /\ objects # {} => map[e] \in objects

\* What a journal says was achieved is in the map: an apply that resumes after
\* it never skips an entity whose link a crash kept out of the map
\* (CommitResultAtomically writes the map first).
JournalNeedsMap ==
  \A f \in Files : journals[f] # NoJournal =>
    \A i \in DOMAIN journals[f].results :
      LET r == journals[f].results[i] IN r.id \notin lost => map[r.id] = r.uuid

\* An apply that passed its guards, had every call answered and nobody changing
\* anything meanwhile, achieves the whole plan, children after the objects they
\* hang on (SortOperations, resolveParentUUID, classifyBlocked).  A linked
\* object that somebody deleted is never created again; and an entity that was
\* removed and added again stands in the journal of an older apply as achieved
\* while the map has no link of it, so that what hangs on it is stuck.
CleanApplyCompletes ==
  /\ At("commit") /\ cmd.clean
  /\ \A e \in Entities : cmd.plan.links[e] # None => Found(cmd.plan.links[e])
  /\ \A e \in Entities : cmd.plan.intents[e] # 0 => e \notin lost
  => Len(cmd.results) = Len(Operations(cmd.plan))

\* Plans applied in whatever order, again, after failures and deaths: an entity
\* of which nothing was lost never has two objects and has its link whenever no
\* command runs, every link is of an object made for its entity, the map has
\* what a journal says was achieved, and an undisturbed apply does all it plans.
AppliesAreRight ==
  /\ TypeOK
  /\ OneObjectPerEntity
  /\ LinksAreOwn
  /\ JournalNeedsMap
  /\ CleanApplyCompletes

\* An apply overwrites an object only if the last change made to it by hand was
\* part of the preview, which a person reviewed, or came after the apply's own
\* last look at the object (applyLinkedOperation compares the time of update).
\* The second is a gap: apply/model.go:58 has the update itself "guarded by
\* expectedUpdatedAt", and the client does not pass it on (linear.go:895).
HandEditsSurvive ==
  [][\A u \in DOMAIN remote :
       /\ remote'[u].title # remote[u].title
       /\ remote'[u].hand = remote[u].hand
       => LET seen == cmd.plan.seen[remote[u].of]
          IN remote[u].hand <= seen.at \/ remote[u].hand > cmd.read]_vars

\* Every command ends, whatever fails and whatever the plan file, the journal
\* and the objects look like.
CommandsEnd == []<>At("idle")

\* Every command ends, and none undoes an edit made by hand in Linear that came
\* after the plan's preview and before the apply read the object.
EndsKeepingHandEdits ==
  /\ HandEditsSurvive
  /\ CommandsEnd
=============================================================================
