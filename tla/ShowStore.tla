----------------------------- MODULE ShowStore ------------------------------
(***************************************************************************)
(* internal/show/store.go and recovery.go: one .golc SQLite file, used by  *)
(* several short-lived processes (CLI commands, the desktop app, the API   *)
(* daemon).  Every SQL transaction, and every query outside one, is a      *)
(* step; between two of them other processes run and this one may crash.   *)
(* A command is Load, one edit of the loaded State, Save.                  *)
(*                                                                         *)
(* A State is its Revision and the set of edits it contains.  A checksum   *)
(* is the identity of the blob it was computed from.                       *)
(***************************************************************************)
EXTENDS Naturals, FiniteSets

CONSTANTS
    Procs,          \* processes that open the file
    Edits,          \* edits, each issued once
    KeepPoints,     \* recovery points the prune keeps (5 in the code; with 1 a
                    \* new point would prune the interrupted one it follows)
    MaxFaults,      \* bound: crashes and failed transactions
    MaxRecoveries,  \* bound: calls of AcceptRecoveryPoint, DiscardRecoveryPoints
    NoBlob          \* the empty show_state.blob of a file never saved

ASSUME StoreAssumption ==
    /\ KeepPoints \in Nat \ {0, 1}
    /\ MaxFaults \in Nat
    /\ MaxRecoveries \in Nat

States == [rev : Nat, val : SUBSET Edits]
Points == [id : Nat \ {0}, state : States]

ASSUME NoBlobAssumption == NoBlob \notin States

VARIABLES
    meta,           \* show_meta: revision, and the checksum of the blob
    blob,           \* show_state.blob
    points,         \* the rows of recovery_points
    nextId,         \* its AUTOINCREMENT
    op,             \* what each process is doing
    todo,           \* edits no command has tried yet
    faults,         \* faults still to come (bound)
    recoveries,     \* recovery calls still to come (bound)
    acked,          \* history: edits whose Save committed
    interrupted,    \* history: ids of the points whose Save never promoted
    lastInterrupted, \* history: the newest of them, until a Save or a discard; or 0
    acceptCut,      \* history: some AcceptRecoveryPoint was itself interrupted
    overlapped      \* history: a call began while another process was in one

diskVars == <<meta, blob, points, nextId>>
boundVars == <<todo, faults, recoveries>>
histVars == <<acked, interrupted, lastInterrupted, acceptCut, overlapped>>
storeVars == <<meta, blob, points, nextId, op, todo, faults, recoveries,
               acked, interrupted, lastInterrupted, acceptCut, overlapped>>

EmptyState == [rev |-> 0, val |-> {}]

Idle == [pc |-> "idle", sum |-> NoBlob, rev |-> 0, id |-> 0,
         edit |-> {}, draft |-> EmptyState]

-----------------------------------------------------------------------------
(* readMeta, offeredRecoveryRevision, DetectRecoveryPoints *)

Saved == blob # NoBlob
CurrentRevision == IF Saved THEN meta.rev ELSE 0

\* Fault: a point at the current revision is offered too; every point is
FaultOfferedFrom(threshold) == {r \in points : r.state.rev >= threshold}

OfferedAbove(threshold) == {r \in points : r.state.rev > threshold}
DetectRecoveryPoints == OfferedAbove(CurrentRevision)

\* Fault: the oldest points are kept
FaultPruneNewest(rows) ==
    {r \in rows : Cardinality({q \in rows : q.id < r.id}) < KeepPoints}

\* DELETE ... WHERE id NOT IN (SELECT id ... ORDER BY id DESC LIMIT 5)
Prune(rows) ==
    {r \in rows : Cardinality({q \in rows : q.id > r.id}) < KeepPoints}

\* Save's Revision++ on the State it was given
Bumped(state) == [state EXCEPT !.rev = @ + 1]

\* the process that ran a Save which stopped before its promote
LeavesPoint(p) ==
    /\ interrupted' = interrupted \cup {op[p].id}
    /\ lastInterrupted' = op[p].id
    /\ acceptCut' = (acceptCut \/ op[p].edit = {})
    /\ UNCHANGED <<acked, overlapped>>

\* a call of p begins
Begins(p) ==
    /\ op[p].pc = "idle"
    /\ overlapped' = (overlapped \/ \E q \in Procs \ {p} : op[q].pc # "idle")
    /\ UNCHANGED <<acked, interrupted, lastInterrupted, acceptCut>>

-----------------------------------------------------------------------------
StoreInit ==
    /\ meta = [rev |-> 0, sum |-> NoBlob]
    /\ blob = NoBlob
    /\ points = {}
    /\ nextId = 1
    /\ op = [p \in Procs |-> Idle]
    /\ todo = Edits
    /\ faults = MaxFaults
    /\ recoveries = MaxRecoveries
    /\ acked = {}
    /\ interrupted = {}
    /\ lastInterrupted = 0
    /\ acceptCut = FALSE
    /\ overlapped = FALSE

-----------------------------------------------------------------------------
(* A command: Load, the edit, Save *)

\* Load's readMeta.  A file never saved yields a fresh State at once.
LoadMeta(p, e) ==
    /\ Begins(p)
    /\ e \in todo
    /\ todo' = todo \ {e}
    /\ op' = [op EXCEPT ![p] =
                IF Saved
                THEN [Idle EXCEPT !.pc = "load", !.sum = meta.sum, !.edit = {e}]
                ELSE [Idle EXCEPT !.pc = "stage", !.edit = {e},
                                  !.draft = [rev |-> 1, val |-> {e}]]]
    /\ UNCHANGED <<faults, recoveries>>
    /\ UNCHANGED diskVars

\* decodeAndValidate reads the blob by a query of its own and compares its
\* checksum with the one readMeta returned
LoadBlob(p) ==
    /\ op[p].pc = "load"
    /\ op' = [op EXCEPT ![p] =
                IF blob = op[p].sum
                THEN [@ EXCEPT !.pc = "stage",
                               !.draft = Bumped([blob EXCEPT !.val = @ \cup op[p].edit])]
                ELSE [@ EXCEPT !.pc = "mismatch"]]
    /\ UNCHANGED diskVars
    /\ UNCHANGED boundVars
    /\ UNCHANGED histVars

\* the command reports the mismatch and ends
ReportMismatch(p) ==
    /\ op[p].pc = "mismatch"
    /\ op' = [op EXCEPT ![p] = Idle]
    /\ UNCHANGED diskVars
    /\ UNCHANGED boundVars
    /\ UNCHANGED histVars

\* the command, or validate, refuses the edited State before anything is written
Refuse(p) ==
    /\ op[p].pc = "stage"
    /\ op' = [op EXCEPT ![p] = Idle]
    /\ UNCHANGED diskVars
    /\ UNCHANGED boundVars
    /\ UNCHANGED histVars

\* stageRecoveryPoint: insert and prune, one transaction
StageRecoveryPoint(p) ==
    /\ op[p].pc = "stage"
    /\ points' = Prune(points \cup {[id |-> nextId, state |-> op[p].draft]})
    /\ nextId' = nextId + 1
    /\ op' = [op EXCEPT ![p].pc = "promote", ![p].id = nextId]
    /\ UNCHANGED <<meta, blob>>
    /\ UNCHANGED boundVars
    /\ UNCHANGED histVars

\* Fault: show_meta keeps the checksum of the blob before
FaultKeepChecksum(p) ==
    /\ op[p].pc = "promote"
    /\ meta' = [meta EXCEPT !.rev = op[p].draft.rev]
    /\ blob' = op[p].draft
    /\ op' = [op EXCEPT ![p] = Idle]
    /\ acked' = acked \cup op[p].edit
    /\ lastInterrupted' = 0
    /\ UNCHANGED <<points, nextId, interrupted, acceptCut, overlapped>>
    /\ UNCHANGED boundVars

\* Fault: the revision is raised once more than that of the recovery point
FaultBumpedTwice(p) ==
    /\ op[p].pc = "promote"
    /\ meta' = [rev |-> op[p].draft.rev + 1, sum |-> Bumped(op[p].draft)]
    /\ blob' = Bumped(op[p].draft)
    /\ op' = [op EXCEPT ![p] = Idle]
    /\ acked' = acked \cup op[p].edit
    /\ lastInterrupted' = 0
    /\ UNCHANGED <<points, nextId, interrupted, acceptCut, overlapped>>
    /\ UNCHANGED boundVars

\* promoteState: show_meta and show_state, one transaction
PromoteState(p) ==
    /\ op[p].pc = "promote"
    /\ meta' = [rev |-> op[p].draft.rev, sum |-> op[p].draft]
    /\ blob' = op[p].draft
    /\ op' = [op EXCEPT ![p] = Idle]
    /\ acked' = acked \cup op[p].edit
    /\ lastInterrupted' = 0
    /\ UNCHANGED <<points, nextId, interrupted, acceptCut, overlapped>>
    /\ UNCHANGED boundVars

\* promoteState fails (the file stays busy past busy_timeout, the disk is
\* full): Save returns the error with its recovery point already committed
PromoteFails(p) ==
    /\ op[p].pc = "promote"
    /\ faults > 0
    /\ faults' = faults - 1
    /\ op' = [op EXCEPT ![p] = Idle]
    /\ LeavesPoint(p)
    /\ UNCHANGED <<todo, recoveries>>
    /\ UNCHANGED diskVars

\* the process dies; what it committed stays
Crash(p) ==
    /\ op[p].pc # "idle"
    /\ faults > 0
    /\ faults' = faults - 1
    /\ op' = [op EXCEPT ![p] = Idle]
    /\ IF op[p].pc = "promote" THEN LeavesPoint(p) ELSE UNCHANGED histVars
    /\ UNCHANGED <<todo, recoveries>>
    /\ UNCHANGED diskVars

-----------------------------------------------------------------------------
(* Recovery *)

\* AcceptRecoveryPoint(id): the threshold, then the row, by two queries ...
AcceptThreshold(p, id) ==
    /\ Begins(p)
    /\ recoveries > 0
    /\ recoveries' = recoveries - 1
    /\ op' = [op EXCEPT ![p] = [Idle EXCEPT !.pc = "accept", !.id = id,
                                            !.rev = CurrentRevision]]
    /\ UNCHANGED <<todo, faults>>
    /\ UNCHANGED diskVars

\* ... refused when the row is gone or no longer offered, else given to Save,
\* which opens the file again and compares nothing
AcceptRow(p) ==
    LET offered == {r \in OfferedAbove(op[p].rev) : r.id = op[p].id} IN
    /\ op[p].pc = "accept"
    /\ \/ /\ offered = {}
          /\ op' = [op EXCEPT ![p] = Idle]
       \/ \E r \in offered :
             op' = [op EXCEPT ![p].pc = "stage", ![p].draft = Bumped(r.state)]
    /\ UNCHANGED diskVars
    /\ UNCHANGED boundVars
    /\ UNCHANGED histVars

\* DiscardRecoveryPoints: the threshold, then the DELETE
DiscardThreshold(p) ==
    /\ Begins(p)
    /\ recoveries > 0
    /\ recoveries' = recoveries - 1
    /\ op' = [op EXCEPT ![p] = [Idle EXCEPT !.pc = "discard", !.rev = CurrentRevision]]
    /\ UNCHANGED <<todo, faults>>
    /\ UNCHANGED diskVars

DiscardDelete(p) ==
    /\ op[p].pc = "discard"
    /\ points' = points \ OfferedAbove(op[p].rev)
    /\ op' = [op EXCEPT ![p] = Idle]
    /\ lastInterrupted' = 0
    /\ UNCHANGED <<meta, blob, nextId, acked, interrupted, acceptCut, overlapped>>
    /\ UNCHANGED boundVars

-----------------------------------------------------------------------------
SaveStep(p) == Refuse(p) \/ StageRecoveryPoint(p) \/ PromoteState(p)
Fault(p) == PromoteFails(p) \/ Crash(p)
Command(p) == (\E e \in Edits : LoadMeta(p, e)) \/ LoadBlob(p) \/ ReportMismatch(p)
Recovery(p) ==
    \/ \E r \in points : AcceptThreshold(p, r.id)
    \/ AcceptRow(p)
    \/ DiscardThreshold(p)
    \/ DiscardDelete(p)

StoreNext ==
    \E p \in Procs : Command(p) \/ SaveStep(p) \/ Fault(p) \/ Recovery(p)

StoreSpec == StoreInit /\ [][StoreNext]_storeVars

-----------------------------------------------------------------------------
(* Properties *)

Pcs == {"idle", "load", "mismatch", "stage", "promote", "accept", "discard", "migrate"}

\* Every column and every local variable has its type.
StoreTypeOK ==
    /\ meta \in [rev : Nat, sum : States \cup {NoBlob}]
    /\ blob \in States \cup {NoBlob}
    /\ points \subseteq Points
    /\ nextId \in Nat \ {0}
    /\ op \in [Procs -> [pc : Pcs, sum : States \cup {NoBlob}, rev : Nat,
                         id : Nat, edit : SUBSET Edits, draft : States]]
    /\ todo \subseteq Edits
    /\ faults \in 0 .. MaxFaults
    /\ recoveries \in 0 .. MaxRecoveries
    /\ acked \subseteq Edits
    /\ interrupted \subseteq Nat
    /\ lastInterrupted \in Nat
    /\ acceptCut \in BOOLEAN
    /\ overlapped \in BOOLEAN

\* Wherever a process dies or fails, the file loads: show_meta's checksum and
\* revision are those of the blob beside it.
FileLoads ==
    /\ Saved => meta.sum = blob /\ meta.rev = blob.rev
    /\ ~Saved => meta.rev = 0

\* Between any two transactions, and wherever a process dies, the file is
\* well formed and loads.
StoreInvariant ==
  /\ StoreTypeOK
  /\ FileLoads

\* The properties from here on are of commands that do
\* not overlap; Save compares nothing, and two at once lose edits.

\* No edit whose Save committed is ever missing from the file, also when later
\* Saves are interrupted and their points accepted.  It takes that no
\* AcceptRecoveryPoint was itself interrupted: such a one leaves a point two
\* revisions ahead, which outlives the next Save.
CommittedEditsSurvive ==
    (Saved /\ ~acceptCut /\ ~overlapped) => acked \subseteq blob.val

\* After a Save that completed no recovery point is offered (recovery.go: "the
\* normal clean-close case"), under the same condition.
CleanCloseOffersNothing ==
    (/\ Saved /\ lastInterrupted = 0 /\ ~acceptCut /\ ~overlapped
     /\ \A p \in Procs : op[p].pc # "promote")
        => DetectRecoveryPoints = {}

\* A recovery point that is offered was left by a Save that was interrupted,
\* or belongs to one still between its two transactions (recovery.go: "which
\* only happens when the process was interrupted").
OnlyInterruptedOffered ==
    ~overlapped =>
        \A r \in DetectRecoveryPoints :
            \/ r.id \in interrupted
            \/ \E p \in Procs : op[p].pc = "promote" /\ op[p].id = r.id

\* The work of an interrupted Save stays on offer, through later attempts that
\* fail too and through the pruning, until a Save completes or it is discarded.
InterruptedStaysOffered ==
    (lastInterrupted # 0 /\ ~overlapped) =>
        \E r \in DetectRecoveryPoints : r.id = lastInterrupted

\* What recovery.go promises of DetectRecoveryPoints: it offers the work of the
\* latest interrupted Save, nothing that was not interrupted, and nothing at all
\* after a clean close.
RecoveryOffers ==
  /\ CleanCloseOffersNothing
  /\ OnlyInterruptedOffered
  /\ InterruptedStaysOffered
=============================================================================
