------------------------------ MODULE ApiProofs ------------------------------
(***************************************************************************)
(* Proofs about the control API.                                           *)
(*                                                                         *)
(* Its answers are true (AnswersAreTrue) and a retry is replayed, not      *)
(* applied again (RetriesReplay), for any number of requests, keys and     *)
(* names, with another process saving the same file, keys that come and    *)
(* go, and a daemon that stops and dies.  What carries this is the         *)
(* critical section: what a handler loaded is all that was ever written,   *)
(* except what the other process overwrote.                                *)
(*                                                                         *)
(* Of its event stream, the ring buffer holds the latest events of this    *)
(* run of the daemon, whole and in order, for any number of publishers and *)
(* clients and any capacity; and with one publisher at a time every client *)
(* gets every event once and in order, or is told to resynchronise.  What  *)
(* a client is still to be sent lies in its channel, in the replay it was  *)
(* given, or with the publisher whose fan-out has not reached it.          *)
(***************************************************************************)
EXTENDS MutationPipeline, EventStream, FiniteSetTheorems, SequenceTheorems, TLAPS

AllNames == STRING \cup Others

FileType == [rev : Nat, pools : SUBSET AllNames]

Critical == {"locked", "checked", "loaded", "executed", "failed", "based", "prepared", "confirmed"}

Pcs == {"idle", "authed", "admitted", "waiting", "done", "lost"} \cup Critical

ReqType ==
  [pc : Pcs, in : Inputs, base : Nat, loaded : FileType, disturbed : BOOLEAN,
   wrote : BOOLEAN, status : Nat, rev : Nat]

IdemType == [actor : KeyIds, key : STRING, rev : Nat]

EnvTypes ==
  /\ keys \in [KeyIds -> {"absent", "valid", "revoked", "expired"}]
  /\ up \in BOOLEAN
  /\ events \in 0..MaxEvents
  /\ bucket \in [KeyIds -> 0..Burst]

Types ==
  /\ EnvTypes
  /\ lock \subseteq Requests
  /\ file \in FileType
  /\ req \in [Requests -> ReqType]
  /\ idem \subseteq IdemType
  /\ other \in [pc : {"idle", "loaded", "ended"}, loaded : FileType]
  /\ forgot \in BOOLEAN

\* The mutex is held by the one handler that is in its critical section.
OneInside ==
  /\ \A r \in Requests : r \in lock <=> req[r].pc \in Critical
  /\ \A q, r \in lock : q = r

\* all the names that requests of the daemon wrote
Written == UNION {Names(q) : q \in {p \in Requests : req[p].wrote}}

\* The file has what requests wrote, less what the other process overwrote,
\* and nothing that nobody asked for.
FileIsWritten ==
  /\ Written \subseteq file.pools \cup lost
  /\ file.pools \subseteq Others \cup Written
  /\ other.loaded.pools \subseteq Others \cup Written

\* The stage of a request q, and what it has loaded, when W was written and L
\* overwritten.
StageOf(q, W, L) ==
  /\ q.wrote => q.pc \in {"executed", "failed", "done", "lost"}
  /\ q.pc = "executed" => q.wrote
  /\ q.pc = "done" /\ q.wrote => q.status \in {200, 500}
  /\ q.pc = "done" /\ q.in.kind = "batch" /\ q.status = 200 => q.wrote
  /\ q.pc \in {"checked", "loaded", "executed", "failed"} => q.in.kind = "pool"
  /\ q.pc \in {"based", "prepared", "confirmed"} => q.in.kind = "batch"
  /\ q.pc \in {"loaded", "prepared", "confirmed"} =>
       /\ W \subseteq q.loaded.pools \cup L
       /\ q.loaded.pools \subseteq Others \cup W

\* The revision it named is the one it changes, when the file's is rev.
MatchOf(q, rev) ==
  q.in.ifMatch # NoMatch /\ ~q.disturbed =>
    /\ q.pc \in {"checked", "based"} => rev = q.in.ifMatch
    /\ q.pc \in {"loaded", "prepared", "confirmed"} \/ q.wrote => q.loaded.rev = q.in.ifMatch

\* A request that is being carried out found no answer under its key.
FirstOfKey(r) ==
  LET q == req[r] IN
  q.pc \in {"checked", "loaded", "executed", "failed"} /\ q.in.idem # NoIdem /\ ~forgot =>
    \A e \in idem : ~(e.actor = q.in.actor /\ e.key = q.in.idem)

\* A row a of a request q: it is over, "success" was written and answered with
\* success, "failure" was not, a dry run and a replay wrote nothing.
RowIsTrue(a, q) ==
  /\ q.pc = "done"
  /\ a.outcome = "success" => q.wrote /\ q.status = 200
  /\ a.outcome = "failure" => q.status # 200
  /\ a.outcome \in {"dry_run", "idempotent_replay"} => ~q.wrote

LogIsTrue == \A a \in audit : a.by \in Requests /\ RowIsTrue(a, req[a.by])

AInv ==
  /\ Types /\ OneInside /\ FileIsWritten /\ LogIsTrue
  /\ \A r \in Requests : StageOf(req[r], Written, lost) /\ MatchOf(req[r], file.rev)

\* a creation that was applied under an idempotency key and answered
Applied(r) ==
  Answered(r) /\ req[r].wrote /\ req[r].in.kind = "pool" /\ req[r].in.idem # NoIdem

\* Every answer kept is the one of a creation that was applied ...
EntriesAreApplied ==
  \A e \in idem : \E r \in Requests :
    Applied(r) /\ req[r].in.actor = e.actor /\ req[r].in.idem = e.key /\ req[r].rev = e.rev

\* ... and every creation that was applied has its answer kept, until one
\* expires or is lost.
AppliedAreKept ==
  ~forgot =>
    \A r \in Requests : Applied(r) =>
      \E e \in idem : req[r].in.actor = e.actor /\ req[r].in.idem = e.key

Twin(r, q) == Answered(r) /\ req[r].in = req[q].in /\ req[r].wrote

\* RetriesReplay of one request.
Replays(q) ==
  Answered(q) /\ req[q].in.kind = "pool" =>
    /\ req[q].wrote /\ req[q].in.idem # NoIdem /\ ~forgot =>
         \A r \in Requests \ {q} : ~Twin(r, q)
    /\ ~req[q].wrote => \E r \in Requests \ {q} : Twin(r, q) /\ req[r].rev = req[q].rev

RepInv ==
  /\ EntriesAreApplied /\ AppliedAreKept
  /\ \A r \in Requests : FirstOfKey(r) /\ Replays(r)

\* What the API asks of its clients: an idempotency key stands for one request
\* (Idempotency-Key, internal/api/idempotency.go).
OneRequestPerKey ==
  \A i, j \in Inputs :
    i.kind = "pool" /\ j.kind = "pool" /\ i.actor = j.actor /\ i.idem = j.idem /\ i.idem # NoIdem
      => i = j

-----------------------------------------------------------------------------
(* Frames *)

\* Steps that write nothing leave what was written.
LEMMA WrittenSame ==
  ASSUME \A q \in Requests : (req'[q].wrote <=> req[q].wrote)
                             /\ (req[q].wrote => req'[q].in = req[q].in)
  PROVE  Written' = Written
<1>1. \A q \in Requests : req[q].wrote => Names(q)' = Names(q)
  BY DEF Names
<1> QED
  BY <1>1 DEF Written

\* A write adds the names of its request.
LEMMA WrittenGrows ==
  ASSUME NEW r \in Requests, \A q \in Requests \ {r} : req'[q] = req[q],
         req'[r].wrote, req'[r].in = req[r].in
  PROVE  Written' = Written \cup Names(r)
<1>1. \A q \in Requests : Names(q)' = Names(q)
  BY DEF Names
<1>2. \A q \in Requests : req'[q].wrote <=> req[q].wrote \/ q = r
  BY DEF Names
<1> QED
  BY <1>1, <1>2 DEF Written

\* A handler enters and leaves its critical section with the mutex.
LEMMA InsideKeeps ==
  ASSUME OneInside, lock \subseteq Requests, NEW r \in Requests,
         \A q \in Requests \ {r} : req'[q] = req[q],
         \/ lock' = lock /\ (req'[r].pc \in Critical <=> req[r].pc \in Critical)
         \/ lock' = lock \ {r} /\ req'[r].pc \notin Critical
         \/ lock = {} /\ lock' = {r} /\ req'[r].pc \in Critical
  PROVE  OneInside' /\ lock' \subseteq Requests
<1>1. ASSUME NEW q \in Requests PROVE q \in lock' <=> req'[q].pc \in Critical
  BY DEF OneInside
<1>2. \A p, q \in lock' : p = q
  BY DEF OneInside
<1> QED
  BY <1>1, <1>2 DEF OneInside

\* The rows a step of r may add.
RowsOf(r, rows) == \A a \in rows : a.by = r /\ RowIsTrue(a, req'[r])

\* The log stays true: rows are of requests that are over.
LEMMA LogKeeps ==
  ASSUME LogIsTrue, NEW r \in Requests, NEW rows, RowsOf(r, rows), audit' = audit \cup rows,
         \A q \in Requests : req[q].pc = "done" => req'[q] = req[q]
  PROVE  LogIsTrue'
<1> SUFFICES ASSUME NEW a \in audit' PROVE a.by \in Requests /\ RowIsTrue(a, req'[a.by])
  BY DEF LogIsTrue, RowIsTrue
<1>1. CASE a \in rows
  BY <1>1 DEF RowsOf
<1>2. CASE a \in audit
  <2>1. a.by \in Requests /\ RowIsTrue(a, req[a.by])
    BY <1>2 DEF LogIsTrue
  <2>2. req'[a.by] = req[a.by]
    BY <2>1 DEF RowIsTrue
  <2> QED
    BY <2>1, <2>2
<1> QED
  BY <1>1, <1>2

\* The same without a row.
LEMMA LogSame ==
  ASSUME LogIsTrue, audit' = audit, \A q \in Requests : req[q].pc = "done" => req'[q] = req[q]
  PROVE  LogIsTrue'
BY DEF LogIsTrue, RowIsTrue

\* A step of one request that writes nothing.
LEMMA Moves ==
  ASSUME AInv, NEW r \in Requests, EnvTypes', NEW rec \in ReqType, req' = [req EXCEPT ![r] = rec],
         req[r].pc \notin {"done", "lost"},
         rec.in = req[r].in \/ req[r].pc = "idle",
         rec.wrote <=> req[r].wrote,
         StageOf(rec, Written, lost), MatchOf(rec, file.rev),
         UNCHANGED <<file, other, lost, forgot>>, idem' \subseteq IdemType,
         NEW rows, RowsOf(r, rows), audit' = audit \cup rows,
         \/ lock' = lock /\ (rec.pc \in Critical <=> req[r].pc \in Critical)
         \/ lock' = lock \ {r} /\ rec.pc \notin Critical
         \/ lock = {} /\ lock' = {r} /\ rec.pc \in Critical
  PROVE  AInv'
<1>1. /\ req' \in [Requests -> ReqType] /\ req'[r] = rec
      /\ \A q \in Requests \ {r} : req'[q] = req[q]
  BY DEF AInv, Types
<1>2. OneInside' /\ lock' \subseteq Requests
  BY <1>1, InsideKeeps DEF AInv, Types
<1>3. ~(req[r].pc = "idle" /\ req[r].wrote)
  BY DEF AInv, StageOf
<1>4. Written' = Written
  BY <1>1, <1>3, WrittenSame
<1>5. Types'
  BY <1>1, <1>2 DEF AInv, Types
<1>6. FileIsWritten'
  BY <1>4 DEF AInv, FileIsWritten
<1>7. LogIsTrue'
  BY <1>1, LogKeeps DEF AInv
<1>8. ASSUME NEW q \in Requests PROVE StageOf(req'[q], Written', lost') /\ MatchOf(req'[q], file'.rev)
  BY <1>1, <1>4 DEF AInv
<1> QED
  BY <1>2, <1>5, <1>6, <1>7, <1>8 DEF AInv

\* A status that fits what the request wrote: a write is answered with 200 or
\* 500, and only commitBatch answers a batch with 200.
Fitting(r, st) ==
  (req[r].wrote => st \in {200, 500}) /\ (req[r].in.kind = "batch" => st # 200)

\* A request is answered, with an error or with what it was to find out, and
\* its handler returns.
LEMMA Answers ==
  ASSUME AInv, NEW r \in Requests, EnvTypes', NEW st \in Nat, NEW rv \in Nat,
         req' = [req EXCEPT ![r] = [req[r] EXCEPT !.pc = "done", !.status = st, !.rev = rv]],
         req[r].pc \notin {"idle", "done", "lost"},
         Fitting(r, st),
         UNCHANGED <<file, other, lost, forgot, idem>>,
         NEW rows, RowsOf(r, rows), audit' = audit \cup rows,
         lock' = lock \ {r}
  PROVE  AInv'
<1> DEFINE rec == [req[r] EXCEPT !.pc = "done", !.status = st, !.rev = rv]
<1>1. req[r] \in ReqType
  BY DEF AInv, Types
<1>2. /\ rec \in ReqType /\ rec.pc = "done" /\ rec.in = req[r].in /\ rec.wrote = req[r].wrote
      /\ rec.loaded = req[r].loaded /\ rec.disturbed = req[r].disturbed /\ rec.status = st
  BY <1>1 DEF ReqType, Pcs
<1>6. req' = [req EXCEPT ![r] = rec]
  OBVIOUS
<1> HIDE DEF rec
<1>3. StageOf(rec, Written, lost) /\ MatchOf(rec, file.rev)
  BY <1>2 DEF AInv, StageOf, MatchOf, Fitting
<1>4. rec.pc \notin Critical
  BY <1>2 DEF Critical
<1>5. idem' \subseteq IdemType
  BY DEF AInv, Types
<1>7. lock' = lock \ {r} /\ rec.pc \notin Critical
  BY <1>4
<1> QED
  BY <1>2, <1>3, <1>5, <1>6, <1>7, Moves

\* Answer and To change the one request.
LEMMA AnswerIs ==
  ASSUME AInv, NEW r \in Requests, NEW st \in Nat, Answer(r, st)
  PROVE  req' = [req EXCEPT ![r] = [req[r] EXCEPT !.pc = "done", !.status = st, !.rev = req[r].rev]]
<1>1. req \in [Requests -> ReqType]
  BY DEF AInv, Types
<1>2. req[r] \in ReqType
  BY <1>1
<1>3. [[req[r] EXCEPT !.pc = "done"] EXCEPT !.status = st]
        = [req[r] EXCEPT !.pc = "done", !.status = st, !.rev = req[r].rev]
  BY <1>2 DEF ReqType
<1> QED
  BY <1>1, <1>3 DEF Answer

\* A handler goes on to pc; what it would change it has not changed yet.
LEMMA Proceeds ==
  ASSUME AInv, NEW r \in Requests, EnvTypes', NEW pc \in Pcs \ {"done", "lost", "idle"}, To(r, pc),
         req[r].pc \notin {"idle", "done", "lost"}, ~req[r].wrote,
         StageOf([req[r] EXCEPT !.pc = pc], Written, lost), MatchOf([req[r] EXCEPT !.pc = pc], file.rev),
         UNCHANGED <<file, other, lost, forgot, idem, audit, lock>>,
         pc \in Critical <=> req[r].pc \in Critical
  PROVE  AInv'
<1> DEFINE rec == [req[r] EXCEPT !.pc = pc]
<1>1. req[r] \in ReqType /\ req' = [req EXCEPT ![r] = rec]
  BY DEF AInv, Types, To
<1>2. rec \in ReqType /\ rec.pc = pc /\ rec.in = req[r].in /\ rec.wrote = req[r].wrote
  BY <1>1 DEF ReqType
<1>3. RowsOf(r, {}) /\ audit' = audit \cup {} /\ idem' \subseteq IdemType
  BY DEF RowsOf, AInv, Types
<1> HIDE DEF rec
<1>4. StageOf(rec, Written, lost) /\ MatchOf(rec, file.rev)
  BY DEF rec
<1> QED
  BY <1>1, <1>2, <1>3, <1>4, Moves

\* fireMutationObservers of a failure, a dry run or a replay.
LEMMA FiresRows ==
  ASSUME NEW r, NEW outcome, NEW subs, fireMutationObservers(r, outcome, subs),
         req'[r].pc = "done",
         \/ outcome = "failure" /\ req'[r].status # 200
         \/ outcome \in {"dry_run", "idempotent_replay"} /\ ~req'[r].wrote
  PROVE  \E rows : RowsOf(r, rows) /\ audit' = audit \cup rows
<1> DEFINE rows == {[by |-> r, sub |-> i, outcome |-> outcome] : i \in subs}
<1>1. audit' = audit \cup rows
  BY DEF fireMutationObservers, auditObserver
<1>2. \A a \in rows : a.by = r /\ a.outcome = outcome
  OBVIOUS
<1> HIDE DEF rows
<1>3. RowsOf(r, rows)
  BY <1>2 DEF RowsOf, RowIsTrue
<1> QED
  BY <1>1, <1>3

\* A handler that returns with a failure.
LEMMA Fails ==
  ASSUME AInv, NEW r \in Requests, EnvTypes', NEW st \in Nat, NEW subs, Return(r, "failure", subs, st),
         req[r].pc \notin {"idle", "done", "lost"}, st # 200, Fitting(r, st),
         UNCHANGED <<file, other, lost, forgot, idem>>
  PROVE  AInv'
<1>1. fireMutationObservers(r, "failure", subs) /\ Answer(r, st) /\ lock' = lock \ {r}
  BY DEF Return
<1>4. req'[r].pc = "done" /\ req'[r].status = st
  BY <1>1 DEF Answer, AInv, Types, ReqType
<1>2. PICK rows : RowsOf(r, rows) /\ audit' = audit \cup rows
  BY <1>1, <1>4, FiresRows
<1>3. req[r].rev \in Nat
  BY DEF AInv, Types, ReqType
<1>6. req' = [req EXCEPT ![r] = [req[r] EXCEPT !.pc = "done", !.status = st, !.rev = req[r].rev]]
  BY <1>1, AnswerIs
<1> QED
  BY <1>1, <1>2, <1>3, <1>6, Answers

\* A request that never waited for the mutex is refused or done, with a row of
\* its failure or none.
LEMMA Refused ==
  ASSUME AInv, NEW r \in Requests, EnvTypes', NEW st \in Nat, Answer(r, st),
         req[r].pc \in {"authed", "admitted"}, lock' = lock, req[r].in.kind = "batch" => st # 200,
         UNCHANGED <<file, other, lost, forgot, idem>>,
         \E rows : RowsOf(r, rows) /\ audit' = audit \cup rows
  PROVE  AInv'
<1>1. r \notin lock
  BY DEF AInv, OneInside, Critical
<1>2. lock' = lock \ {r} /\ req[r].pc \notin {"idle", "done", "lost"} /\ Fitting(r, st)
  BY <1>1 DEF AInv, StageOf, Fitting
<1>3. req[r].rev \in Nat
  BY DEF AInv, Types, ReqType
<1>4. PICK rows : RowsOf(r, rows) /\ audit' = audit \cup rows
  OBVIOUS
<1> QED
  BY <1>2, <1>3, <1>4, AnswerIs, Answers

-----------------------------------------------------------------------------
(* Before the mutex *)

\* Authentication.
LEMMA AuthKeeps ==
  ASSUME AInv, NEW r \in Requests, AuthMiddleware(r)
  PROVE  AInv'
<1>1. PICK in \in Inputs :
        req' = [req EXCEPT ![r].in = in,
                           ![r].pc = IF IsAPIKeyValid(in.actor) THEN "authed" ELSE "done",
                           ![r].status = IF IsAPIKeyValid(in.actor) THEN 0 ELSE 401]
  BY DEF AuthMiddleware
<1>2. PICK pc \in {"authed", "done"}, st \in Nat :
        /\ pc = (IF IsAPIKeyValid(in.actor) THEN "authed" ELSE "done")
        /\ st = (IF IsAPIKeyValid(in.actor) THEN 0 ELSE 401)
  OBVIOUS
<1> DEFINE rec == [req[r] EXCEPT !.in = in, !.pc = pc, !.status = st]
<1>3. /\ req[r].pc = "idle" /\ UNCHANGED <<file, keys, daemon, bucket, lock, idem, audit, other, lost, forgot>>
      /\ req[r] \in ReqType /\ req \in [Requests -> ReqType]
  BY DEF AuthMiddleware, At, AInv, Types
<1>4. req' = [req EXCEPT ![r] = rec]
  <2>1. req' = [req EXCEPT ![r].in = in, ![r].pc = pc, ![r].status = st]
    BY <1>1, <1>2, Zenon
  <2> QED
    BY <1>3, <2>1
<1>5. /\ rec \in ReqType /\ rec.pc = pc /\ rec.in = in /\ rec.wrote = req[r].wrote
      /\ rec.status = st
  BY <1>3 DEF ReqType, Pcs
<1> HIDE DEF rec
<1>6. ~req[r].wrote
  BY <1>3 DEF AInv, StageOf
<1>7. StageOf(rec, Written, lost) /\ MatchOf(rec, file.rev)
  BY <1>2, <1>5, <1>6 DEF StageOf, MatchOf
<1>8. rec.pc \notin Critical /\ req[r].pc \notin Critical
  BY <1>2, <1>3, <1>5 DEF Critical
<1>9. EnvTypes' /\ idem' \subseteq IdemType
  BY <1>3 DEF AInv, Types, EnvTypes, daemon
<1>10. RowsOf(r, {}) /\ audit' = audit \cup {}
  BY <1>3 DEF RowsOf
<1> QED
  BY <1>3, <1>4, <1>5, <1>7, <1>8, <1>9, <1>10, Moves

\* No row.
LEMMA NoRows == ASSUME NEW r, audit' = audit PROVE \E rows : RowsOf(r, rows) /\ audit' = audit \cup rows
<1>1. RowsOf(r, {}) /\ audit' = audit \cup {}
  BY DEF RowsOf
<1> QED
  BY <1>1

\* The rate limit.
LEMMA RateKeeps ==
  ASSUME AInv, NEW r \in Requests, RateLimitMiddleware(r)
  PROVE  AInv'
<1>1. /\ req[r].pc = "authed" /\ UNCHANGED <<file, keys, daemon, lock, idem, audit, other, lost, forgot>>
      /\ req[r] \in ReqType /\ req[r].in \in InputSpace
  BY PipelineAssumption DEF RateLimitMiddleware, At, AInv, Types, ReqType
<1>2. req[r].in.actor \in KeyIds
  BY <1>1 DEF InputSpace
<1>3. CASE allow(req[r].in.actor) /\ bucket' = [bucket EXCEPT ![req[r].in.actor] = @ - 1] /\ To(r, "admitted")
  <2>1. EnvTypes'
    <3>1. keys' = keys /\ up' = up /\ events' = events
      BY <1>1 DEF daemon
    <3>2. bucket \in [KeyIds -> 0..Burst] /\ bucket[req[r].in.actor] > 0
      BY <1>3 DEF AInv, Types, EnvTypes, allow
    <3>3. bucket[req[r].in.actor] - 1 \in 0..Burst
      BY <1>2, <3>2, PipelineAssumption
    <3>4. bucket' \in [KeyIds -> 0..Burst]
      BY <1>3, <3>2, <3>3
    <3> QED
      BY <3>1, <3>4 DEF AInv, Types, EnvTypes
  <2> DEFINE rec == [req[r] EXCEPT !.pc = "admitted"]
  <2>2. /\ rec.pc = "admitted" /\ rec.in = req[r].in /\ rec.wrote = req[r].wrote
        /\ rec.loaded = req[r].loaded /\ rec.disturbed = req[r].disturbed
    BY <1>1 DEF ReqType
  <2>3. ~req[r].wrote
    BY <1>1 DEF AInv, StageOf
  <2> HIDE DEF rec
  <2>4. StageOf(rec, Written, lost) /\ MatchOf(rec, file.rev)
    BY <2>2, <2>3 DEF StageOf, MatchOf
  <2>5. "admitted" \in Pcs \ {"done", "lost", "idle"} /\ ("admitted" \in Critical <=> req[r].pc \in Critical)
    BY <1>1 DEF Pcs, Critical
  <2> QED
    BY <1>1, <1>3, <2>1, <2>3, <2>4, <2>5, Proceeds DEF rec
<1>4. CASE Answer(r, 429) /\ UNCHANGED bucket
  <2>1. EnvTypes'
    BY <1>1, <1>4 DEF AInv, Types, EnvTypes, daemon
  <2>2. \E rows : RowsOf(r, rows) /\ audit' = audit \cup rows
    BY <1>1, NoRows
  <2>3. 429 \in Nat /\ 429 # 200 /\ req[r].pc \in {"authed", "admitted"}
    BY <1>1
  <2> QED
    BY <1>1, <1>4, <2>1, <2>2, <2>3, Refused
<1> QED
  BY <1>3, <1>4 DEF RateLimitMiddleware

\* Steps that leave the keys, the buckets and the daemon alone.
LEMMA EnvSame ==
  ASSUME AInv, UNCHANGED <<keys, daemon, bucket>>
  PROVE  EnvTypes'
BY DEF AInv, Types, EnvTypes, daemon

\* A handler that begins to wait.
LEMMA Waits ==
  ASSUME AInv, NEW r \in Requests, req[r].pc = "admitted", To(r, "waiting"),
         UNCHANGED <<file, keys, daemon, bucket, lock, idem, audit, other, lost, forgot>>
  PROVE  AInv'
<1> DEFINE rec == [req[r] EXCEPT !.pc = "waiting"]
<1>1. req[r] \in ReqType /\ EnvTypes'
  BY EnvSame DEF AInv, Types
<1>2. /\ rec.pc = "waiting" /\ rec.in = req[r].in /\ rec.wrote = req[r].wrote
      /\ rec.loaded = req[r].loaded /\ rec.disturbed = req[r].disturbed
  BY <1>1 DEF ReqType
<1>3. ~req[r].wrote
  BY DEF AInv, StageOf
<1> HIDE DEF rec
<1>4. StageOf(rec, Written, lost) /\ MatchOf(rec, file.rev)
  BY <1>2, <1>3 DEF StageOf, MatchOf
<1>5. "waiting" \in Pcs \ {"done", "lost", "idle"} /\ ("waiting" \in Critical <=> req[r].pc \in Critical)
  BY DEF Pcs, Critical
<1> QED
  BY <1>1, <1>3, <1>4, <1>5, Proceeds DEF rec

\* The heads of mutate and of runBatch.
LEMMA HeadsKeep ==
  ASSUME AInv, NEW r \in Requests, mutate(r) \/ translateBatch(r)
  PROVE  AInv'
<1>1. /\ req[r].pc = "admitted" /\ UNCHANGED <<file, keys, daemon, bucket, lock, idem, other, lost, forgot>>
      /\ EnvTypes'
  BY EnvSame DEF mutate, translateBatch, At
<1>2. CASE To(r, "waiting") /\ UNCHANGED audit
  BY <1>1, <1>2, Waits
<1>3. ASSUME NEW st \in Nat \ {200}, NEW subs, fireMutationObservers(r, "failure", subs), Answer(r, st) PROVE AInv'
  <2>2. req'[r].pc = "done" /\ req'[r].status = st
    BY <1>3 DEF Answer, AInv, Types, ReqType
  <2>1. \E rows : RowsOf(r, rows) /\ audit' = audit \cup rows
    BY <1>3, <2>2, FiresRows
  <2> QED
    BY <1>1, <1>3, <2>1, Refused
<1>4. CASE Answer(r, 400) /\ UNCHANGED audit
  <2>1. \E rows : RowsOf(r, rows) /\ audit' = audit \cup rows
    BY <1>4, NoRows
  <2>2. 400 \in Nat /\ 400 # 200
    OBVIOUS
  <2> QED
    BY <1>1, <1>4, <2>1, <2>2, Refused
<1>5. CASE mutate(r)
  BY <1>2, <1>3, <1>5 DEF mutate
<1>6. CASE translateBatch(r)
  <2>1. CASE \E i \in Subs(r) : /\ fireMutationObservers(r, "failure", {i})
                                 /\ Answer(r, IF req[r].in.names[i] = NoPool THEN 400 ELSE 403)
    <3>1. PICK i \in Subs(r) : /\ fireMutationObservers(r, "failure", {i})
                               /\ Answer(r, IF req[r].in.names[i] = NoPool THEN 400 ELSE 403)
      BY <2>1
    <3>2. (IF req[r].in.names[i] = NoPool THEN 400 ELSE 403) \in Nat \ {200}
      OBVIOUS
    <3> QED
      BY <1>3, <3>1, <3>2
  <2>2. \/ Answer(r, 400) /\ UNCHANGED audit
        \/ To(r, "waiting") /\ UNCHANGED audit
        \/ \E i \in Subs(r) : /\ fireMutationObservers(r, "failure", {i})
                              /\ Answer(r, IF req[r].in.names[i] = NoPool THEN 400 ELSE 403)
    BY <1>6 DEF translateBatch, Answer, To, fireMutationObservers, auditObserver
  <2> QED
    BY <1>2, <1>4, <2>1, <2>2
<1> QED
  BY <1>5, <1>6

-----------------------------------------------------------------------------
(* The critical section *)

\* A step of a handler that goes on, to rec, with no row.
LEMMA GoesOn ==
  ASSUME AInv, NEW r \in Requests, NEW rec \in ReqType, req' = [req EXCEPT ![r] = rec],
         req[r].pc \notin {"idle", "done", "lost"}, rec.in = req[r].in, ~rec.wrote, ~req[r].wrote,
         StageOf(rec, Written, lost), MatchOf(rec, file.rev),
         UNCHANGED <<file, keys, daemon, bucket, idem, audit, other, lost, forgot>>,
         \/ lock' = lock /\ (rec.pc \in Critical <=> req[r].pc \in Critical)
         \/ lock = {} /\ lock' = {r} /\ rec.pc \in Critical
  PROVE  AInv'
<1>1. RowsOf(r, {}) /\ audit' = audit \cup {} /\ idem' \subseteq IdemType
  BY DEF RowsOf, AInv, Types
<1> QED
  BY <1>1, EnvSame, Moves

\* The mutex is taken.
LEMMA LockKeeps ==
  ASSUME AInv, NEW r \in Requests, Lock(r)
  PROVE  AInv'
<1> DEFINE rec == [req[r] EXCEPT !.pc = "locked", !.disturbed = FALSE]
<1>1. /\ req[r].pc = "waiting" /\ lock = {} /\ lock' = {r}
      /\ UNCHANGED <<file, keys, daemon, bucket, idem, audit, other, lost, forgot>>
      /\ req[r] \in ReqType /\ req \in [Requests -> ReqType]
      /\ req' = [req EXCEPT ![r].pc = "locked", ![r].disturbed = FALSE]
  BY DEF Lock, At, AInv, Types
<1>2. req' = [req EXCEPT ![r] = rec]
  BY <1>1
<1>3. rec \in ReqType /\ rec.pc = "locked" /\ rec.in = req[r].in /\ rec.wrote = req[r].wrote
  BY <1>1 DEF ReqType, Pcs, Critical
<1>4. ~req[r].wrote
  BY <1>1 DEF AInv, StageOf
<1> HIDE DEF rec
<1>5. StageOf(rec, Written, lost) /\ MatchOf(rec, file.rev) /\ rec.pc \in Critical
  BY <1>3, <1>4 DEF StageOf, MatchOf, Critical
<1> QED
  BY <1>1, <1>2, <1>3, <1>4, <1>5, GoesOn

\* A dry run and a replay are answered.
LEMMA DryOrReplayKeeps ==
  ASSUME AInv, NEW r \in Requests, dryRunMutate(r) \/ replay(r)
  PROVE  AInv'
<1>1. /\ req[r].pc = "locked" /\ UNCHANGED <<file, keys, daemon, bucket, idem, other, lost, forgot>>
      /\ lock' = lock \ {r} /\ req[r] \in ReqType /\ req \in [Requests -> ReqType]
  BY DEF dryRunMutate, replay, Holds, At, Return, AInv, Types
<1>2. ~req[r].wrote /\ req[r].rev \in Nat /\ req[r].in.kind # "batch"
  BY <1>1 DEF AInv, StageOf, ReqType, dryRunMutate, replay
<1>3. ASSUME NEW st \in Nat, NEW rv \in Nat, NEW outcome \in {"dry_run", "idempotent_replay"},
             req' = [req EXCEPT ![r] = [req[r] EXCEPT !.pc = "done", !.status = st, !.rev = rv]],
             fireMutationObservers(r, outcome, {1})
      PROVE  AInv'
  <2>1. req'[r].pc = "done" /\ req'[r].wrote = req[r].wrote
    BY <1>1, <1>3 DEF ReqType
  <2>2. PICK rows : RowsOf(r, rows) /\ audit' = audit \cup rows
    BY <1>2, <1>3, <2>1, FiresRows
  <2>3. Fitting(r, st)
    BY <1>2 DEF Fitting
  <2> QED
    BY <1>1, <1>2, <1>3, <2>2, <2>3, EnvSame, Answers
<1>4. CASE dryRunMutate(r)
  <2>1. \E st \in Nat : fireMutationObservers(r, "dry_run", {1}) /\ Answer(r, st)
    <3>1. PICK s \in (IF Names(r) \cap file.pools = {} THEN {200, 500} ELSE {500}) :
            Return(r, "dry_run", {1}, s)
      BY <1>4, Zenon DEF dryRunMutate
    <3>2. s \in Nat
      OBVIOUS
    <3>3. fireMutationObservers(r, "dry_run", {1}) /\ Answer(r, s)
      BY <3>1 DEF Return
    <3> QED
      BY <3>2, <3>3, Zenon
  <2>2. PICK st \in Nat : fireMutationObservers(r, "dry_run", {1}) /\ Answer(r, st)
    BY <2>1, Zenon
  <2>4. req' = [req EXCEPT ![r] = [req[r] EXCEPT !.pc = "done", !.status = st, !.rev = req[r].rev]]
    BY <2>2, AnswerIs
  <2>5. "dry_run" \in {"dry_run", "idempotent_replay"}
    OBVIOUS
  <2> QED
    BY <1>2, <1>3, <2>2, <2>4, <2>5
<1>5. CASE replay(r)
  <2>1. PICK e \in lookup(r) :
          /\ fireMutationObservers(r, "idempotent_replay", {1})
          /\ req' = [req EXCEPT ![r].pc = "done", ![r].status = 200, ![r].rev = e.rev]
    BY <1>5, Zenon DEF replay
  <2>2. e.rev \in Nat /\ 200 \in Nat
    BY DEF AInv, Types, IdemType, lookup
  <2>3. [[[req[r] EXCEPT !.pc = "done"] EXCEPT !.status = 200] EXCEPT !.rev = e.rev]
          = [req[r] EXCEPT !.pc = "done", !.status = 200, !.rev = e.rev]
    BY <1>1 DEF ReqType
  <2>4. req' = [req EXCEPT ![r] = [req[r] EXCEPT !.pc = "done", !.status = 200, !.rev = e.rev]]
    BY <1>1, <2>1, <2>3
  <2>5. "idempotent_replay" \in {"dry_run", "idempotent_replay"}
    OBVIOUS
  <2> QED
    BY <1>3, <2>1, <2>2, <2>4, <2>5
<1> QED
  BY <1>4, <1>5

\* The revision is checked.
LEMMA CheckKeeps ==
  ASSUME AInv, NEW r \in Requests, checkRevision(r)
  PROVE  AInv'
<1>1. /\ req[r].pc = "locked" /\ req[r].in.kind = "pool" /\ EnvTypes'
      /\ UNCHANGED <<file, keys, daemon, bucket, idem, other, lost, forgot>>
      /\ req[r] \in ReqType
  BY EnvSame DEF checkRevision, Holds, At, AInv, Types
<1>2. CASE Matches(r) /\ To(r, "checked") /\ UNCHANGED <<lock, audit>>
  <2> DEFINE rec == [req[r] EXCEPT !.pc = "checked"]
  <2>1. /\ rec \in ReqType /\ rec.pc = "checked" /\ rec.in = req[r].in /\ rec.wrote = req[r].wrote
        /\ req' = [req EXCEPT ![r] = rec]
    BY <1>1, <1>2 DEF ReqType, Pcs, Critical, To, AInv, Types
  <2>2. ~req[r].wrote
    BY <1>1 DEF AInv, StageOf
  <2> HIDE DEF rec
  <2>3. req[r].in.ifMatch # NoMatch => file.rev = req[r].in.ifMatch
    BY <1>2 DEF Matches
  <2>4. StageOf(rec, Written, lost) /\ MatchOf(rec, file.rev)
    BY <1>1, <2>1, <2>2, <2>3 DEF StageOf, MatchOf
  <2>5. rec.pc \in Critical /\ req[r].pc \in Critical
    BY <1>1, <2>1 DEF Critical
  <2> QED
    BY <1>1, <1>2, <2>1, <2>2, <2>4, <2>5, GoesOn
<1>3. ASSUME NEW st \in Refusals(r), Return(r, "failure", {1}, st) PROVE AInv'
  <2>1. st \in Nat /\ st # 200
    BY DEF Refusals
  <2>2. Fitting(r, st)
    BY <1>1, <2>1 DEF AInv, StageOf, Fitting
  <2> QED
    BY <1>1, <1>3, <2>1, <2>2, Fails
<1> QED
  BY <1>2, <1>3 DEF checkRevision

\* The file is loaded: for a creation, or for a batch.
LEMMA LoadKeeps ==
  ASSUME AInv, NEW r \in Requests, NEW pc \in {"loaded", "prepared"},
         req[r].pc = (IF pc = "loaded" THEN "checked" ELSE "based"),
         req' = [req EXCEPT ![r].pc = pc, ![r].loaded = file],
         UNCHANGED <<file, keys, daemon, bucket, lock, idem, audit, other, lost, forgot>>
  PROVE  AInv'
<1> DEFINE rec == [req[r] EXCEPT !.pc = pc, !.loaded = file]
<1>1. req[r] \in ReqType /\ req \in [Requests -> ReqType] /\ file \in FileType
  BY DEF AInv, Types
<1>2. req' = [req EXCEPT ![r] = rec]
  BY <1>1
<1>3. /\ rec \in ReqType /\ rec.pc = pc /\ rec.in = req[r].in /\ rec.wrote = req[r].wrote
      /\ rec.loaded = file /\ rec.disturbed = req[r].disturbed
  BY <1>1 DEF ReqType, Pcs, Critical
<1> HIDE DEF rec
<1>4. StageOf(req[r], Written, lost) /\ MatchOf(req[r], file.rev) /\ FileIsWritten
  BY DEF AInv
<1>5. ~req[r].wrote /\ req[r].in.kind = (IF pc = "loaded" THEN "pool" ELSE "batch")
  BY <1>4 DEF StageOf
<1>6. StageOf(rec, Written, lost)
  BY <1>3, <1>4, <1>5 DEF StageOf, FileIsWritten
<1>7. MatchOf(rec, file.rev)
  BY <1>3, <1>4, <1>5 DEF MatchOf
<1>8. rec.pc \in Critical /\ req[r].pc \in Critical
  BY <1>3 DEF Critical
<1> QED
  BY <1>2, <1>3, <1>5, <1>6, <1>7, <1>8, GoesOn DEF Critical

\* The file is written: by the one handler inside, from what it loaded, which
\* was everything that had been written.
LEMMA WriteKeeps ==
  ASSUME AInv, NEW r \in Requests, req[r].pc \in {"loaded", "confirmed"}, EnvTypes',
         NEW rec \in ReqType, req' = [req EXCEPT ![r] = rec],
         rec.pc \in {"executed", "failed", "done"}, rec.wrote,
         rec.in = req[r].in, rec.loaded = req[r].loaded, rec.disturbed = req[r].disturbed,
         rec.pc # "done" => req[r].pc = "loaded", rec.pc = "done" => rec.status \in {200, 500},
         NEW n \in Nat, file' = [rev |-> n, pools |-> req[r].loaded.pools \cup Names(r)],
         UNCHANGED <<idem, other, lost, forgot>>,
         NEW rows, RowsOf(r, rows), audit' = audit \cup rows,
         lock' = IF rec.pc = "done" THEN lock \ {r} ELSE lock
  PROVE  AInv'
<1>1. /\ req' \in [Requests -> ReqType] /\ req'[r] = rec /\ req[r] \in ReqType
      /\ \A q \in Requests \ {r} : req'[q] = req[q]
      /\ StageOf(req[r], Written, lost) /\ MatchOf(req[r], file.rev) /\ FileIsWritten
  BY DEF AInv, Types
<1>2. Written' = Written \cup Names(r)
  BY <1>1, WrittenGrows
<1>3. ~req[r].wrote /\ Written \subseteq req[r].loaded.pools \cup lost
      /\ req[r].loaded.pools \subseteq Others \cup Written
  BY <1>1 DEF StageOf
<1>4. OneInside' /\ lock' \subseteq Requests
  <2>1. req[r].pc \in Critical /\ (rec.pc \in Critical <=> rec.pc # "done")
    BY DEF Critical
  <2> QED
    BY <1>1, <2>1, InsideKeeps DEF AInv, Types
<1>5. Names(r) \subseteq STRING
  <2>1. req[r].in.names \in Seq(STRING)
    BY <1>1, PipelineAssumption DEF ReqType, InputSpace
  <2> QED
    BY <2>1 DEF Names
<1>6. file' \in FileType
  <2>1. req[r].loaded.pools \subseteq AllNames
    BY <1>1 DEF ReqType, FileType
  <2> QED
    BY <1>5, <2>1 DEF FileType, AllNames
<1>7. Types'
  BY <1>1, <1>4, <1>6 DEF AInv, Types
<1>8. FileIsWritten'
  BY <1>1, <1>2, <1>3 DEF FileIsWritten
<1>9. LogIsTrue'
  BY <1>1, LogKeeps DEF AInv
<1>10. StageOf(rec, Written', lost') /\ MatchOf(rec, file'.rev)
  BY <1>1 DEF StageOf, MatchOf
<1>11. ASSUME NEW q \in Requests \ {r}
       PROVE  StageOf(req'[q], Written', lost') /\ MatchOf(req'[q], file'.rev)
  <2>1. req[q].pc \notin Critical
    <3>1. r \in lock
      BY DEF AInv, OneInside, Critical
    <3>2. q \notin lock
      BY <3>1, <1>11 DEF AInv, OneInside
    <3> QED
      BY <3>2 DEF AInv, OneInside
  <2>2. StageOf(req[q], Written, lost) /\ MatchOf(req[q], file.rev)
    BY DEF AInv
  <2>3. StageOf(req[q], Written', lost')
    BY <2>1, <2>2 DEF StageOf, Critical
  <2>4. MatchOf(req[q], file'.rev)
    BY <2>1, <2>2 DEF MatchOf, Critical
  <2> QED
    BY <1>1, <2>3, <2>4
<1> QED
  BY <1>1, <1>4, <1>7, <1>8, <1>9, <1>10, <1>11 DEF AInv

\* A handler goes on to pc, one stage further, with nothing else changed.
LEMMA StepsOn ==
  ASSUME AInv, NEW r \in Requests, NEW pc \in {"failed", "confirmed"}, To(r, pc),
         req[r].pc = (IF pc = "failed" THEN "loaded" ELSE "prepared"),
         UNCHANGED <<file, keys, daemon, bucket, lock, idem, audit, other, lost, forgot>>
  PROVE  AInv'
<1> DEFINE rec == [req[r] EXCEPT !.pc = pc]
<1>1. req[r] \in ReqType /\ req \in [Requests -> ReqType] /\ StageOf(req[r], Written, lost)
      /\ MatchOf(req[r], file.rev)
  BY DEF AInv, Types
<1>2. req' = [req EXCEPT ![r] = rec]
  BY <1>1 DEF To
<1>3. /\ rec \in ReqType /\ rec.pc = pc /\ rec.in = req[r].in /\ rec.wrote = req[r].wrote
      /\ rec.loaded = req[r].loaded /\ rec.disturbed = req[r].disturbed
  BY <1>1 DEF ReqType, Pcs, Critical
<1> HIDE DEF rec
<1>4. ~req[r].wrote /\ StageOf(rec, Written, lost) /\ MatchOf(rec, file.rev)
  BY <1>1, <1>3 DEF StageOf, MatchOf
<1>5. rec.pc \in Critical /\ req[r].pc \in Critical
  BY <1>3 DEF Critical
<1> QED
  BY <1>2, <1>3, <1>4, <1>5, GoesOn DEF Critical

\* Execute of "pool create": the load and the save.
LEMMA ExecuteKeeps ==
  ASSUME AInv, NEW r \in Requests, ExecuteLoad(r) \/ ExecuteSave(r)
  PROVE  AInv'
<1>1. CASE ExecuteLoad(r)
  <2>1. /\ req[r].pc = "checked" /\ req' = [req EXCEPT ![r].pc = "loaded", ![r].loaded = file]
        /\ UNCHANGED <<file, keys, daemon, bucket, lock, idem, audit, other, lost, forgot>>
    BY <1>1 DEF ExecuteLoad, Holds, At
  <2> QED
    BY <2>1, LoadKeeps
<1>2. CASE ExecuteSave(r)
  <2>1. /\ req[r].pc = "loaded" /\ req[r] \in ReqType /\ req \in [Requests -> ReqType]
        /\ UNCHANGED <<keys, daemon, bucket, lock, idem, audit, other, lost, forgot>>
    BY <1>2 DEF ExecuteSave, Holds, At, AInv, Types
  <2>2. ASSUME NEW pc \in {"executed", "failed"}, file' = With(req[r].loaded, Names(r)),
               req' = [req EXCEPT ![r].pc = pc, ![r].wrote = TRUE]
        PROVE  AInv'
    <3> DEFINE rec == [req[r] EXCEPT !.pc = pc, !.wrote = TRUE]
    <3>1. req' = [req EXCEPT ![r] = rec]
      BY <2>1, <2>2
    <3>2. /\ rec \in ReqType /\ rec.pc = pc /\ rec.in = req[r].in /\ rec.wrote
          /\ rec.loaded = req[r].loaded /\ rec.disturbed = req[r].disturbed
      BY <2>1, <2>2 DEF ReqType, Pcs, Critical
    <3> HIDE DEF rec
    <3>3. PICK n \in Nat : n = req[r].loaded.rev + 1
      BY <2>1 DEF ReqType, FileType
    <3>4. file' = [rev |-> n, pools |-> req[r].loaded.pools \cup Names(r)]
      BY <2>2, <3>3 DEF With
    <3>5. EnvTypes' /\ RowsOf(r, {}) /\ audit' = audit \cup {}
      BY <2>1, EnvSame DEF RowsOf
    <3> QED
      BY <2>1, <2>2, <3>1, <3>2, <3>4, <3>5, WriteKeeps
  <2>3. CASE To(r, "failed") /\ UNCHANGED file
    BY <2>1, <2>3, StepsOn
  <2> QED
    BY <1>2, <2>2, <2>3 DEF ExecuteSave
<1> QED
  BY <1>1, <1>2

\* The answer of a creation, with its row and its entry.
LEMMA StoreKeeps ==
  ASSUME AInv, NEW r \in Requests, store(r)
  PROVE  AInv'
<1>1. /\ req[r].pc = "executed" /\ req[r] \in ReqType
      /\ lock' = lock \ {r} /\ StageOf(req[r], Written, lost) /\ MatchOf(req[r], file.rev)
      /\ UNCHANGED <<file, keys, daemon, bucket, other, lost, forgot>>
  BY DEF store, Holds, At, AInv, Types
<1>2. file.rev \in Nat /\ req \in [Requests -> ReqType]
  BY DEF AInv, Types, FileType
<1>0. PICK rv \in Nat, st \in Nat : rv = file.rev /\ st = 200
  BY <1>2
<1> DEFINE rec == [req[r] EXCEPT !.pc = "done", !.status = st, !.rev = rv]
<1>3. /\ rec \in ReqType /\ rec.pc = "done" /\ rec.in = req[r].in /\ rec.wrote = req[r].wrote
      /\ rec.loaded = req[r].loaded /\ rec.disturbed = req[r].disturbed /\ rec.status = st
  <2>1. req[r] \in ReqType
    BY <1>1
  <2> QED
    BY <2>1 DEF ReqType, Pcs
<1>4. /\ req' \in [Requests -> ReqType] /\ req'[r] = rec
      /\ \A q \in Requests \ {r} : req'[q] = req[q]
  <2>1. req' = [req EXCEPT ![r].pc = "done", ![r].status = st, ![r].rev = rv]
    BY <1>0 DEF store
  <2>2. [[[req[r] EXCEPT !.pc = "done"] EXCEPT !.status = st] EXCEPT !.rev = rv] = rec
    BY <1>1 DEF ReqType
  <2>3. req' = [req EXCEPT ![r] = rec]
    BY <1>2, <2>1, <2>2
  <2> HIDE DEF rec
  <2> QED
    BY <1>2, <1>3, <2>3
<1> HIDE DEF rec
<1>5. req[r].wrote
  BY <1>1 DEF StageOf
<1>6. Written' = Written
  BY <1>3, <1>4, WrittenSame
<1>7. OneInside' /\ lock' \subseteq Requests
  <2>1. rec.pc \notin Critical
    BY <1>3 DEF Critical
  <2> QED
    BY <1>1, <1>4, <2>1, InsideKeeps DEF AInv, Types
<1>8. idem' \subseteq IdemType
  <2>1. /\ req[r].in.actor \in KeyIds /\ req[r].in.idem \in STRING /\ file.rev \in Nat
    <3>1. req[r].in \in InputSpace
      BY <1>1, PipelineAssumption DEF ReqType
    <3> QED
      BY <1>2, <3>1 DEF InputSpace
  <2>2. [actor |-> req[r].in.actor, key |-> req[r].in.idem, rev |-> file.rev] \in IdemType
    BY <2>1 DEF IdemType
  <2>3. idem \subseteq IdemType
    BY DEF AInv, Types
  <2> QED
    BY <2>2, <2>3 DEF store
<1>9. Types'
  BY <1>1, <1>4, <1>7, <1>8, EnvSame DEF AInv, Types
<1>10. FileIsWritten'
  BY <1>1, <1>6 DEF AInv, FileIsWritten
<1>11. LogIsTrue'
  <2> DEFINE rows == {[by |-> r, sub |-> i, outcome |-> "success"] : i \in {1}}
  <2>1. audit' = audit \cup rows
    BY DEF store, fireMutationObservers, auditObserver
  <2>2. \A a \in rows : a.by = r /\ a.outcome = "success"
    OBVIOUS
  <2> HIDE DEF rows
  <2>3. RowsOf(r, rows)
    BY <1>0, <1>3, <1>4, <1>5, <2>2 DEF RowsOf, RowIsTrue
  <2> QED
    BY <1>1, <1>4, <2>1, <2>3, LogKeeps DEF AInv
<1>12. StageOf(rec, Written, lost) /\ MatchOf(rec, file.rev)
  BY <1>0, <1>1, <1>3, <1>5 DEF StageOf, MatchOf
<1>13. ASSUME NEW q \in Requests PROVE StageOf(req'[q], Written', lost') /\ MatchOf(req'[q], file'.rev)
  BY <1>1, <1>4, <1>6, <1>12 DEF AInv
<1> QED
  BY <1>7, <1>9, <1>10, <1>11, <1>13 DEF AInv

\* A creation that failed is answered.
LEMMA ResultKeeps ==
  ASSUME AInv, NEW r \in Requests, translateResult(r)
  PROVE  AInv'
<1>1. /\ req[r].pc = "failed" /\ Return(r, "failure", {1}, 500) /\ EnvTypes'
      /\ UNCHANGED <<file, other, lost, forgot, idem>>
  BY EnvSame DEF translateResult, Holds, At
<1>2. 500 \in Nat /\ 500 # 200 /\ Fitting(r, 500)
  BY DEF Fitting
<1> QED
  BY <1>1, <1>2, Fails

\* A batch before its commit: the base is taken, the sub-requests are run on a
\* copy, the base is confirmed.
LEMMA BatchKeeps ==
  ASSUME AInv, NEW r \in Requests, runBatch(r) \/ NewTempCopy(r) \/ confirmBase(r)
  PROVE  AInv'
<1>1. /\ req[r].pc \in {"locked", "based", "prepared"} /\ EnvTypes'
      /\ UNCHANGED <<file, keys, daemon, bucket, idem, other, lost, forgot>>
      /\ req[r] \in ReqType
  BY EnvSame DEF runBatch, NewTempCopy, confirmBase, Holds, At, AInv, Types
<1>2. ASSUME NEW st \in Nat \ {200}, NEW subs, Return(r, "failure", subs, st) PROVE AInv'
  <2>1. Fitting(r, st)
    BY <1>1, <1>2 DEF AInv, StageOf, Fitting
  <2> QED
    BY <1>1, <1>2, <2>1, Fails
<1>3. 412 \in Nat \ {200} /\ 500 \in Nat \ {200} /\ Refusals(r) \cup {500} \subseteq Nat \ {200}
  BY DEF Refusals
<1>4. CASE runBatch(r)
  <2>1. CASE Matches(r) /\ req' = [req EXCEPT ![r].pc = "based", ![r].base = file.rev]
             /\ UNCHANGED <<lock, audit>>
    <3>1. req[r].pc = "locked" /\ req[r].in.kind = "batch"
      BY <1>4 DEF runBatch, Holds, At
    <3>2. PICK rv \in Nat : rv = file.rev
      BY DEF AInv, Types, FileType
    <3> DEFINE rec == [req[r] EXCEPT !.pc = "based", !.base = rv]
    <3>3. /\ rec \in ReqType /\ rec.pc = "based" /\ rec.in = req[r].in /\ rec.wrote = req[r].wrote
      BY <1>1 DEF ReqType, Pcs, Critical
    <3>4. req' = [req EXCEPT ![r] = rec]
      <4>1. req \in [Requests -> ReqType] /\ req' = [req EXCEPT ![r].pc = "based", ![r].base = rv]
        BY <2>1, <3>2 DEF AInv, Types
      <4> QED
        BY <4>1
    <3> HIDE DEF rec
    <3>5. ~req[r].wrote
      BY <3>1 DEF AInv, StageOf
    <3>6. req[r].in.ifMatch # NoMatch => file.rev = req[r].in.ifMatch
      BY <2>1 DEF Matches
    <3>7. StageOf(rec, Written, lost) /\ MatchOf(rec, file.rev)
      BY <3>1, <3>3, <3>5, <3>6 DEF StageOf, MatchOf
    <3>8. rec.pc \in Critical /\ req[r].pc \in Critical
      BY <3>1, <3>3 DEF Critical
    <3> QED
      BY <1>1, <2>1, <3>1, <3>3, <3>4, <3>5, <3>7, <3>8, GoesOn
  <2> QED
    BY <1>2, <1>3, <1>4, <2>1 DEF runBatch
<1>5. CASE NewTempCopy(r)
  <2>1. req[r].pc = "based"
    BY <1>5 DEF NewTempCopy, Holds, At
  <2>2. CASE req' = [req EXCEPT ![r].pc = "prepared", ![r].loaded = file] /\ UNCHANGED <<lock, audit>>
    BY <1>1, <2>1, <2>2, LoadKeeps
  <2>3. CASE \E i \in Subs(r) : Return(r, "failure", {i}, 500)
    BY <1>2, <1>3, <2>3
  <2>5. CASE Return(r, "failure", Subs(r), 500)
    BY <1>2, <1>3, <2>5
  <2>4. \/ req' = [req EXCEPT ![r].pc = "prepared", ![r].loaded = file] /\ UNCHANGED <<lock, audit>>
        \/ \E i \in Subs(r) : Return(r, "failure", {i}, 500)
        \/ Return(r, "failure", Subs(r), 500)
    BY <1>5, Zenon DEF NewTempCopy
  <2> QED
    BY <2>2, <2>3, <2>4, <2>5
<1>6. CASE confirmBase(r)
  <2>1. req[r].pc = "prepared"
    BY <1>6 DEF confirmBase, Holds, At
  <2>2. CASE To(r, "confirmed") /\ UNCHANGED <<lock, audit>>
    BY <1>1, <2>1, <2>2, StepsOn
  <2> QED
    BY <1>2, <1>3, <1>6, <2>2 DEF confirmBase
<1> QED
  BY <1>4, <1>5, <1>6

\* The commit of a batch: one write, or none.
LEMMA CommitKeeps ==
  ASSUME AInv, NEW r \in Requests, commitBatch(r)
  PROVE  AInv'
<1>1. /\ req[r].pc = "confirmed" /\ lock' = lock \ {r} /\ EnvTypes'
      /\ UNCHANGED <<keys, daemon, bucket, idem, other, lost, forgot>>
      /\ req[r] \in ReqType /\ req \in [Requests -> ReqType]
  BY EnvSame DEF commitBatch, Holds, At, AInv, Types
<1>2. PICK wrote \in BOOLEAN, closed \in BOOLEAN :
       /\ closed => wrote
       /\ file' = IF wrote THEN [rev |-> req[r].base + 1,
                                 pools |-> req[r].loaded.pools \cup Names(r)]
                  ELSE file
       /\ fireMutationObservers(r, IF closed THEN "success" ELSE "failure", Subs(r))
       /\ req' = [req EXCEPT ![r].pc = "done", ![r].wrote = wrote,
                             ![r].status = IF closed THEN 200 ELSE 500,
                             ![r].rev = req[r].base + 1]
  BY Zenon DEF commitBatch
<1>3. PICK n \in Nat, st \in Nat, outcome \in {"success", "failure"} :
        /\ n = req[r].base + 1 /\ st = (IF closed THEN 200 ELSE 500)
        /\ outcome = (IF closed THEN "success" ELSE "failure")
  BY <1>1 DEF ReqType
<1> DEFINE rec == [req[r] EXCEPT !.pc = "done", !.wrote = wrote, !.status = st, !.rev = n]
<1>4. req' = [req EXCEPT ![r] = rec]
  <2>1. req' = [req EXCEPT ![r].pc = "done", ![r].wrote = wrote, ![r].status = st, ![r].rev = n]
    BY <1>2, <1>3, Zenon
  <2>2. [[[[req[r] EXCEPT !.pc = "done"] EXCEPT !.wrote = wrote] EXCEPT !.status = st] EXCEPT !.rev = n] = rec
    BY <1>1 DEF ReqType
  <2> QED
    BY <1>1, <2>1, <2>2
<1>5. /\ rec \in ReqType /\ rec.pc = "done" /\ rec.in = req[r].in /\ rec.wrote = wrote
      /\ rec.loaded = req[r].loaded /\ rec.disturbed = req[r].disturbed /\ rec.status = st
  <2>1. req[r] \in ReqType
    BY <1>1
  <2> QED
    BY <2>1 DEF ReqType, Pcs
<1>6. audit' = audit \cup {[by |-> r, sub |-> i, outcome |-> outcome] : i \in Subs(r)}
  BY <1>2, <1>3, Zenon DEF fireMutationObservers, auditObserver
<1> DEFINE rows == {[by |-> r, sub |-> i, outcome |-> outcome] : i \in Subs(r)}
<1>7. \A a \in rows : a.by = r /\ a.outcome = outcome
  OBVIOUS
<1> HIDE DEF rows
<1>8. CASE wrote
  <2>1. file' = [rev |-> n, pools |-> req[r].loaded.pools \cup Names(r)]
    BY <1>2, <1>3, <1>8
  <2> HIDE DEF rec
  <2>3. req'[r] = rec
    BY <1>1, <1>4
  <2>4. rec.status \in {200, 500} /\ (outcome = "success" <=> rec.status = 200)
    BY <1>3, <1>5
  <2>5. RowsOf(r, rows)
    BY <1>3, <1>5, <1>7, <1>8, <2>3, <2>4 DEF RowsOf, RowIsTrue
  <2>2. RowsOf(r, rows) /\ audit' = audit \cup rows
    BY <1>6, <2>5 DEF rows
  <2> QED
    BY <1>1, <1>4, <1>5, <1>8, <2>1, <2>2, <2>4, WriteKeeps
<1>9. CASE ~wrote
  <2>1. ~req[r].wrote /\ req[r].wrote \in BOOLEAN
    BY <1>1 DEF AInv, StageOf, ReqType
  <2>2. rec = [req[r] EXCEPT !.pc = "done", !.status = st, !.rev = n]
    BY <1>1, <1>9, <2>1 DEF ReqType
  <2>3. outcome = "failure" /\ file' = file
    BY <1>2, <1>3, <1>9
  <2>4. fireMutationObservers(r, "failure", Subs(r))
    BY <1>6, <2>3 DEF fireMutationObservers, auditObserver
  <2>8. req'[r].pc = "done" /\ req'[r].status = st /\ st = 500
    BY <1>1, <1>2, <1>3, <1>4, <1>5, <1>9
  <2>5. PICK rs : RowsOf(r, rs) /\ audit' = audit \cup rs
    BY <2>4, <2>8, FiresRows
  <2>6. req' = [req EXCEPT ![r] = [req[r] EXCEPT !.pc = "done", !.status = st, !.rev = n]]
    BY <1>4, <2>2
  <2> HIDE DEF rec
  <2>7. /\ req[r].pc \notin {"idle", "done", "lost"} /\ EnvTypes' /\ lock' = lock \ {r}
        /\ UNCHANGED <<file, other, lost, forgot, idem>>
    BY <1>1, <2>3
  <2>9. st \in Nat /\ n \in Nat /\ Fitting(r, st)
    BY <1>3, <2>1, <2>8 DEF Fitting
  <2> QED
    BY <2>5, <2>6, <2>7, <2>9, Answers
<1> QED
  BY <1>8, <1>9

-----------------------------------------------------------------------------
(* Keys, time, the other process and the daemon *)

\* Minting and revoking a key through the API.
LEMMA KeyRequestsKeep ==
  ASSUME AInv, NEW r \in Requests, registerMintAPIKey(r) \/ registerRevokeAPIKey(r)
  PROVE  AInv'
<1>1. /\ req[r].pc = "admitted" /\ UNCHANGED <<file, daemon, bucket, lock, idem, audit, other, lost, forgot>>
      /\ keys \in [KeyIds -> {"absent", "valid", "revoked", "expired"}]
  BY DEF registerMintAPIKey, registerRevokeAPIKey, At, AInv, Types, EnvTypes
<1>2. keys' \in [KeyIds -> {"absent", "valid", "revoked", "expired"}]
  BY <1>1 DEF registerMintAPIKey, registerRevokeAPIKey, RevokeAPIKey
<1>3. EnvTypes'
  BY <1>1, <1>2 DEF AInv, Types, EnvTypes, daemon
<1>4. \E rows : RowsOf(r, rows) /\ audit' = audit \cup rows
  BY <1>1, NoRows
<1>8. req[r].in.kind # "batch"
  BY DEF registerMintAPIKey, registerRevokeAPIKey
<1>5. ASSUME NEW st \in Nat, Answer(r, st) PROVE AInv'
  BY <1>1, <1>3, <1>4, <1>5, <1>8, Refused
<1>6. 200 \in Nat /\ 400 \in Nat /\ 403 \in Nat /\ 500 \in Nat
  OBVIOUS
<1>7. Answer(r, 200) \/ Answer(r, 400) \/ Answer(r, 403) \/ Answer(r, 500)
  BY Zenon DEF registerMintAPIKey, registerRevokeAPIKey
<1> QED
  BY <1>5, <1>6, <1>7

\* Steps that touch neither the requests nor the file nor the log.
LEMMA Around ==
  ASSUME AInv, EnvTypes', UNCHANGED <<file, req, lock, audit, lost>>,
         idem' \subseteq IdemType, forgot' \in BOOLEAN,
         other' \in [pc : {"idle", "loaded", "ended"}, loaded : FileType],
         other'.loaded.pools \subseteq Others \cup Written
  PROVE  AInv'
<1>1. Written' = Written
  BY WrittenSame
<1>2. Types' /\ OneInside' /\ LogIsTrue'
  BY DEF AInv, Types, OneInside, LogIsTrue
<1>3. FileIsWritten'
  BY <1>1 DEF AInv, FileIsWritten
<1>4. \A q \in Requests : StageOf(req'[q], Written', lost') /\ MatchOf(req'[q], file'.rev)
  BY <1>1 DEF AInv
<1> QED
  BY <1>2, <1>3, <1>4 DEF AInv

\* An event is counted.
LEMMA EventCounts ==
  ASSUME AInv, Event
  PROVE  events' \in 0..MaxEvents
BY PipelineAssumption DEF AInv, Types, EnvTypes, Event

\* Tokens, keys, entries, the load of the other process, a stop and a start.
LEMMA EnvironmentKeeps ==
  ASSUME AInv,
         \/ \E k \in KeyIds : Refill(k) \/ runAPIKeyCreate(k) \/ runAPIKeyRevoke(k) \/ KeyExpires(k)
         \/ EntryExpires \/ OtherLoads \/ Shutdown \/ NewServer
  PROVE  AInv'
<1>1. /\ EnvTypes /\ idem \subseteq IdemType /\ forgot \in BOOLEAN /\ file \in FileType
      /\ other \in [pc : {"idle", "loaded", "ended"}, loaded : FileType] /\ FileIsWritten
  BY DEF AInv, Types
<1>2. other.loaded.pools \subseteq Others \cup Written /\ file.pools \subseteq Others \cup Written
  BY <1>1 DEF FileIsWritten
<1>3. CASE \E k \in KeyIds : Refill(k)
  <2>1. PICK k \in KeyIds : Refill(k)
    BY <1>3
  <2>2. bucket \in [KeyIds -> 0..Burst] /\ bucket[k] < Burst /\ bucket' = [bucket EXCEPT ![k] = @ + 1]
    BY <1>1, <2>1 DEF Refill, EnvTypes
  <2>3. bucket[k] + 1 \in 0..Burst
    BY <2>2, PipelineAssumption
  <2>4. bucket' \in [KeyIds -> 0..Burst]
    BY <2>2, <2>3
  <2>5. EnvTypes'
    BY <1>1, <2>1, <2>4, EventCounts DEF Refill, EnvTypes
  <2> QED
    BY <1>1, <1>2, <2>1, <2>5, Around DEF Refill
<1>4. CASE \E k \in KeyIds : runAPIKeyCreate(k) \/ runAPIKeyRevoke(k) \/ KeyExpires(k)
  <2>1. PICK k \in KeyIds : runAPIKeyCreate(k) \/ runAPIKeyRevoke(k) \/ KeyExpires(k)
    BY <1>4
  <2>2. /\ Event /\ UNCHANGED <<file, up, bucket, lock, idem, req, audit, other, lost, forgot>>
    BY <2>1 DEF runAPIKeyCreate, runAPIKeyRevoke, KeyExpires
  <2>3. keys' \in [KeyIds -> {"absent", "valid", "revoked", "expired"}]
    BY <1>1, <2>1 DEF runAPIKeyCreate, runAPIKeyRevoke, KeyExpires, RevokeAPIKey, EnvTypes
  <2>4. EnvTypes'
    BY <1>1, <2>2, <2>3, EventCounts DEF EnvTypes
  <2> QED
    BY <1>1, <1>2, <2>2, <2>4, Around
<1>5. CASE EntryExpires
  <2>1. /\ Event /\ idem' \subseteq idem /\ forgot' = TRUE
        /\ UNCHANGED <<file, keys, up, bucket, lock, req, audit, other, lost>>
    BY <1>5 DEF EntryExpires
  <2>2. EnvTypes'
    BY <1>1, <2>1, EventCounts DEF EnvTypes
  <2> QED
    BY <1>1, <1>2, <2>1, <2>2, Around
<1>6. CASE OtherLoads
  <2>1. /\ Event /\ other' = [pc |-> "loaded", loaded |-> file]
        /\ UNCHANGED <<file, keys, up, bucket, lock, idem, req, audit, lost, forgot>>
    BY <1>6 DEF OtherLoads
  <2>2. EnvTypes'
    BY <1>1, <2>1, EventCounts DEF EnvTypes
  <2>3. /\ other' \in [pc : {"idle", "loaded", "ended"}, loaded : FileType]
        /\ other'.loaded.pools \subseteq Others \cup Written
    BY <1>1, <1>2, <2>1
  <2> QED
    BY <1>1, <2>1, <2>2, <2>3, Around
<1>7. CASE Shutdown
  <2>1. /\ Event /\ up' = FALSE
        /\ UNCHANGED <<file, keys, bucket, lock, idem, req, audit, other, lost, forgot>>
    BY <1>7 DEF Shutdown
  <2>2. EnvTypes'
    BY <1>1, <2>1, EventCounts DEF EnvTypes
  <2> QED
    BY <1>1, <1>2, <2>1, <2>2, Around
<1>8. CASE NewServer
  <2>1. /\ Event /\ up' = TRUE /\ idem' = {} /\ bucket' = [k \in KeyIds |-> Burst] /\ forgot' = TRUE
        /\ UNCHANGED <<file, keys, lock, req, audit, other, lost>>
    BY <1>8 DEF NewServer
  <2>2. bucket' \in [KeyIds -> 0..Burst]
    BY <2>1, PipelineAssumption
  <2>3. EnvTypes'
    BY <1>1, <2>1, <2>2, EventCounts DEF EnvTypes
  <2> QED
    BY <1>1, <1>2, <2>1, <2>3, Around
<1> QED
  BY <1>3, <1>4, <1>5, <1>6, <1>7, <1>8

\* The other process saves: what it overwrites is lost, and the handler inside
\* is disturbed.
LEMMA OtherSavesKeeps ==
  ASSUME AInv, OtherSaves
  PROVE  AInv'
<1>1. /\ Event /\ UNCHANGED <<keys, up, bucket, lock, idem, audit, forgot>>
      /\ lost' = lost \cup (file.pools \ file'.pools)
      /\ other' = [other EXCEPT !.pc = "ended"]
      /\ req' = [r \in Requests |-> IF r \in lock THEN [req[r] EXCEPT !.disturbed = TRUE] ELSE req[r]]
  BY DEF OtherSaves
<1>2. /\ EnvTypes /\ req \in [Requests -> ReqType] /\ FileIsWritten /\ OneInside /\ LogIsTrue
      /\ other \in [pc : {"idle", "loaded", "ended"}, loaded : FileType]
  BY DEF AInv, Types
<1>3. PICK n \in Others : file' = [rev |-> other.loaded.rev + 1, pools |-> other.loaded.pools \cup {n}]
  BY DEF OtherSaves, With
<1>4. file' \in FileType /\ file'.pools = other.loaded.pools \cup {n}
  <2>1. other.loaded.rev + 1 \in Nat /\ other.loaded.pools \in SUBSET AllNames
    BY <1>2 DEF FileType
  <2>2. other.loaded.pools \cup {n} \in SUBSET AllNames
    BY <2>1 DEF AllNames
  <2> QED
    BY <1>3, <2>1, <2>2 DEF FileType
<1>5. ASSUME NEW q \in Requests
      PROVE  /\ req'[q] \in ReqType /\ req'[q].pc = req[q].pc /\ req'[q].in = req[q].in
             /\ req'[q].wrote = req[q].wrote /\ req'[q].loaded = req[q].loaded
             /\ req'[q].status = req[q].status
             /\ q \in lock => req'[q].disturbed
             /\ q \notin lock => req'[q] = req[q]
  <2>1. req[q] \in ReqType
    BY <1>2
  <2>2. CASE q \in lock
    <3>1. req'[q] = [req[q] EXCEPT !.disturbed = TRUE]
      BY <1>1, <2>2
    <3> QED
      BY <2>1, <2>2, <3>1 DEF ReqType
  <2>3. CASE q \notin lock
    <3>1. req'[q] = req[q]
      BY <1>1, <2>3
    <3> QED
      BY <2>1, <2>3, <3>1
  <2> QED
    BY <2>2, <2>3
<1>6. Written' = Written
  BY <1>5, WrittenSame
<1>7. EnvTypes'
  BY <1>1, <1>2, EventCounts DEF EnvTypes
<1>8. req' \in [Requests -> ReqType]
  BY <1>1, <1>5
<1>9. other' \in [pc : {"idle", "loaded", "ended"}, loaded : FileType] /\ other'.loaded = other.loaded
  BY <1>1, <1>2
<1>10. Types'
  BY <1>1, <1>4, <1>7, <1>8, <1>9 DEF AInv, Types
<1>11. OneInside'
  BY <1>1, <1>2, <1>5 DEF OneInside
<1>12. FileIsWritten'
  BY <1>1, <1>2, <1>4, <1>6, <1>9 DEF FileIsWritten
<1>13. LogIsTrue'
  <2>1. \A q \in Requests : req[q].pc = "done" => q \notin lock
    BY <1>2 DEF OneInside, Critical
  <2> QED
    BY <1>1, <1>2, <2>1, LogSame
<1>14. ASSUME NEW q \in Requests PROVE StageOf(req'[q], Written', lost')
  <2>1. StageOf(req[q], Written, lost) /\ lost \subseteq lost'
    BY <1>1 DEF AInv
  <2> QED
    BY <1>5, <1>6, <2>1 DEF StageOf
<1>15. ASSUME NEW q \in Requests PROVE MatchOf(req'[q], file'.rev)
  <2>1. MatchOf(req[q], file.rev) /\ (q \in lock <=> req[q].pc \in Critical)
    BY <1>2 DEF AInv, OneInside
  <2>2. CASE q \in lock
    BY <1>5, <2>2 DEF MatchOf
  <2>3. CASE q \notin lock
    BY <1>5, <2>1, <2>3 DEF MatchOf, Critical
  <2> QED
    BY <2>2, <2>3
<1> QED
  BY <1>10, <1>11, <1>12, <1>13, <1>14, <1>15 DEF AInv

\* The daemon dies with its handlers.
LEMMA CrashKeeps ==
  ASSUME AInv, Crash
  PROVE  AInv'
<1>1. /\ Event /\ up' = FALSE /\ lock' = {} /\ UNCHANGED <<file, keys, bucket, idem, audit, other, lost, forgot>>
      /\ req' = [r \in Requests |-> IF r \in InFlight THEN [req[r] EXCEPT !.pc = "lost"] ELSE req[r]]
  BY DEF Crash
<1>2. EnvTypes /\ req \in [Requests -> ReqType] /\ FileIsWritten /\ OneInside /\ LogIsTrue
  BY DEF AInv, Types
<1>3. ASSUME NEW q \in Requests
      PROVE  /\ req'[q] \in ReqType /\ req'[q].in = req[q].in /\ req'[q].wrote = req[q].wrote
             /\ req'[q].loaded = req[q].loaded /\ req'[q].disturbed = req[q].disturbed
             /\ \/ req'[q].pc = "lost" /\ req[q].pc # "done"
                \/ req'[q] = req[q] /\ req[q].pc \in {"idle", "done", "lost"}
  <2>1. req[q] \in ReqType
    BY <1>2
  <2>2. CASE q \in InFlight
    <3>1. req'[q] = [req[q] EXCEPT !.pc = "lost"] /\ req[q].pc # "done"
      BY <1>1, <2>2 DEF InFlight
    <3> QED
      BY <2>1, <3>1 DEF ReqType, Pcs
  <2>3. CASE q \notin InFlight
    <3>1. req'[q] = req[q] /\ req[q].pc \in {"idle", "done", "lost"}
      BY <1>1, <2>3 DEF InFlight
    <3> QED
      BY <2>1, <3>1
  <2> QED
    BY <2>2, <2>3
<1>4. Written' = Written
  BY <1>3, WrittenSame
<1>5. EnvTypes'
  BY <1>1, <1>2, EventCounts DEF EnvTypes
<1>6. req' \in [Requests -> ReqType]
  BY <1>1, <1>3
<1>7. Types'
  BY <1>1, <1>5, <1>6 DEF AInv, Types
<1>8. OneInside'
  <2>1. \A q \in Requests : req'[q].pc \notin Critical
    BY <1>3 DEF Critical
  <2> QED
    BY <1>1, <2>1 DEF OneInside
<1>9. FileIsWritten'
  BY <1>1, <1>2, <1>4 DEF FileIsWritten
<1>10. LogIsTrue'
  BY <1>1, <1>2, <1>3, LogSame
<1>11. ASSUME NEW q \in Requests PROVE StageOf(req'[q], Written', lost') /\ MatchOf(req'[q], file'.rev)
  <2>1. StageOf(req[q], Written, lost) /\ MatchOf(req[q], file.rev)
    BY DEF AInv
  <2>2. CASE req'[q] = req[q]
    BY <1>1, <1>4, <2>1, <2>2
  <2>3. CASE req'[q].pc = "lost"
    BY <1>3, <2>1, <2>3 DEF StageOf, MatchOf
  <2> QED
    BY <1>3, <2>2, <2>3
<1> QED
  BY <1>7, <1>8, <1>9, <1>10, <1>11 DEF AInv

-----------------------------------------------------------------------------
(* The theorems *)

\* The program starts with nothing written.
LEMMA InitAInv == Init => AInv
<1> SUFFICES ASSUME Init PROVE AInv
  OBVIOUS
<1>1. (CHOOSE i \in Inputs : TRUE) \in Inputs
  BY PipelineAssumption
<1>2. Blank \in FileType /\ Blank.pools = {}
  BY DEF Blank, FileType
<1>3. /\ Idle \in ReqType /\ Idle.pc = "idle" /\ Idle.wrote = FALSE
  BY <1>1, <1>2 DEF Idle, ReqType, Pcs
<1>4. req \in [Requests -> ReqType] /\ \A q \in Requests : req[q] = Idle
  BY <1>3 DEF Init
<1>5. EnvTypes
  BY PipelineAssumption DEF Init, EnvTypes
<1>6. Types
  BY <1>2, <1>4, <1>5 DEF Init, Types
<1>7. Written = {}
  BY <1>3, <1>4 DEF Written
<1>8. FileIsWritten
  BY <1>2, <1>7 DEF Init, FileIsWritten
<1>9. OneInside
  BY <1>3, <1>4 DEF Init, OneInside, Critical
<1>10. LogIsTrue
  BY DEF Init, LogIsTrue
<1>11. \A q \in Requests : StageOf(req[q], Written, lost) /\ MatchOf(req[q], file.rev)
  BY <1>3, <1>4 DEF StageOf, MatchOf
<1> QED
  BY <1>6, <1>8, <1>9, <1>10, <1>11 DEF AInv

\* Every step keeps the invariant.
LEMMA NextAInv == AInv /\ [Next]_vars => AInv'
<1> SUFFICES ASSUME AInv, [Next]_vars PROVE AInv'
  OBVIOUS
<1>1. CASE UNCHANGED vars
  <2>1. /\ UNCHANGED <<file, req, lock, audit, lost, keys, daemon, bucket, idem, forgot, other>>
    BY <1>1 DEF vars, daemon
  <2>2. EnvTypes'
    BY <2>1, EnvSame
  <2> QED
    BY <2>1, <2>2, Around DEF AInv, Types, FileIsWritten
<1>2. ASSUME NEW r \in Requests, AuthMiddleware(r) \/ Lock(r) PROVE AInv'
  BY <1>2, AuthKeeps, LockKeeps
<1>3. ASSUME NEW r \in Requests, Handle(r) PROVE AInv'
  BY <1>3, RateKeeps, HeadsKeep, DryOrReplayKeeps, CheckKeeps, ExecuteKeeps, StoreKeeps, ResultKeeps,
     BatchKeeps, CommitKeeps, KeyRequestsKeep DEF Handle
<1>4. CASE \/ \E k \in KeyIds : Refill(k) \/ runAPIKeyCreate(k) \/ runAPIKeyRevoke(k) \/ KeyExpires(k)
           \/ EntryExpires \/ OtherLoads \/ Shutdown \/ NewServer
  BY <1>4, EnvironmentKeeps
<1> QED
  BY <1>1, <1>2, <1>3, <1>4, OtherSavesKeeps, CrashKeeps DEF Next

\* The critical section, what it loads and what it writes, in every reachable
\* state.
THEOREM PipelineInvariance == Spec => []AInv
<1>1. AInv /\ [Next]_vars => AInv'
  BY NextAInv
<1> QED
  BY <1>1, InitAInv, PTL DEF Spec

\* What a client was answered is what the file holds: an edit answered with
\* success is there, of one refused with a 4xx nothing is, a batch is there as a
\* whole or not at all, If-Match was honoured, and the audit log says the same
\* (mutate, runBatch, internal/api).
THEOREM AnswersTrue == Spec => []AnswersAreTrue
<1>1. AInv => AnswersAreTrue
  <2> SUFFICES ASSUME AInv PROVE AnswersAreTrue
    OBVIOUS
  <2>1. Types /\ FileIsWritten /\ LogIsTrue
    BY DEF AInv
  <2>2. \A r \in Requests : req[r] \in ReqType
    BY <2>1 DEF Types
  <2>3. TypeOK
    <3>1. file.rev \in Nat /\ lock \subseteq Requests /\ EnvTypes
      BY <2>1 DEF Types, FileType
    <3>2. \A r \in Requests : req[r].in \in Inputs /\ req[r].wrote \in BOOLEAN
      BY <2>2 DEF ReqType
    <3>3. \A a \in audit : a.by \in Requests
      BY <2>1 DEF LogIsTrue
    <3> QED
      BY <3>1, <3>2, <3>3 DEF TypeOK, EnvTypes
  <2>4. AnsweredEditsSurvive
    <3>1. \A r \in Requests : req[r].wrote => Names(r) \subseteq Written
      BY DEF Written
    <3> QED
      BY <2>1, <3>1 DEF AnsweredEditsSurvive, FileIsWritten
  <2>5. IfMatchHonoured
    <3>1. \A r \in Requests : MatchOf(req[r], file.rev)
      BY DEF AInv
    <3> QED
      BY <3>1 DEF IfMatchHonoured, MatchOf
  <2>6. BatchAllOrNothing
    <3>1. ASSUME NEW r \in Requests, ~req[r].wrote, NEW n \in Names(r), n \in file.pools
          PROVE  n \in Others \/ \E q \in Requests \ {r} : n \in Names(q) /\ req[q].wrote
      <4>1. n \in Others \/ n \in Written
        BY <2>1, <3>1 DEF FileIsWritten
      <4> QED
        BY <3>1, <4>1 DEF Written
    <3>2. ASSUME NEW r \in Requests, req[r].wrote PROVE Names(r) \subseteq file.pools \cup lost
      <4>1. Names(r) \subseteq Written
        BY <3>2 DEF Written
      <4> QED
        BY <2>1, <4>1 DEF FileIsWritten
    <3>3. \A r \in Requests : req[r].in.kind = "batch" /\ Answered(r) => req[r].wrote
      BY DEF AInv, StageOf, Answered
    <3> QED
      BY <3>1, <3>2, <3>3 DEF BatchAllOrNothing
  <2>7. AuditTellsTheTruth
    BY <2>1 DEF LogIsTrue, RowIsTrue, AuditTellsTheTruth, Answered
  <2>8. RefusedLeaveNothing
    BY DEF AInv, StageOf, RefusedLeaveNothing
  <2> QED
    BY <2>3, <2>4, <2>5, <2>6, <2>7, <2>8 DEF AnswersAreTrue
<1> QED
  BY <1>1, PipelineInvariance, PTL

-----------------------------------------------------------------------------
(* Retries *)

\* Nothing a client or a retry can see of q changes.
SameOf(q) ==
  /\ req'[q].pc = req[q].pc /\ req'[q].in = req[q].in /\ req'[q].wrote = req[q].wrote
  /\ req'[q].status = req[q].status /\ req'[q].rev = req[q].rev

\* q is being carried out and no creation is answered by this step.
NotYet(q) ==
  /\ req[q].pc # "done"
  /\ ~(req'[q].pc = "done" /\ req'[q].status = 200 /\ req'[q].in.kind = "pool")
  /\ FirstOfKey(q)'

\* Steps that answer no creation.
LEMMA RepSame ==
  ASSUME RepInv, idem' = idem, forgot' = forgot, \A q \in Requests : SameOf(q) \/ NotYet(q)
  PROVE  RepInv'
<1>1. ASSUME NEW q \in Requests
      PROVE  /\ Answered(q) => SameOf(q)
             /\ Answered(q)' /\ req'[q].in.kind = "pool" => SameOf(q)
             /\ Applied(q)' <=> Applied(q)
             /\ SameOf(q) => (Answered(q)' <=> Answered(q))
  BY DEF SameOf, NotYet, Answered, Applied
<1>2. EntriesAreApplied'
  <2> SUFFICES ASSUME NEW e \in idem
               PROVE  \E r \in Requests :
                        Applied(r)' /\ req'[r].in.actor = e.actor /\ req'[r].in.idem = e.key
                        /\ req'[r].rev = e.rev
    BY DEF EntriesAreApplied
  <2>1. PICK r \in Requests :
          Applied(r) /\ req[r].in.actor = e.actor /\ req[r].in.idem = e.key /\ req[r].rev = e.rev
    BY DEF RepInv, EntriesAreApplied
  <2>2. SameOf(r) /\ Applied(r)'
    BY <1>1, <2>1 DEF Applied
  <2> QED
    BY <2>1, <2>2 DEF SameOf
<1>3. AppliedAreKept'
  <2> SUFFICES ASSUME ~forgot, NEW r \in Requests, Applied(r)'
               PROVE  \E e \in idem : req'[r].in.actor = e.actor /\ req'[r].in.idem = e.key
    BY DEF AppliedAreKept
  <2>1. Applied(r) /\ SameOf(r)
    BY <1>1 DEF Applied
  <2>2. PICK e \in idem : req[r].in.actor = e.actor /\ req[r].in.idem = e.key
    BY <2>1 DEF RepInv, AppliedAreKept
  <2> QED
    BY <2>1, <2>2 DEF SameOf
<1>4. ASSUME NEW q \in Requests PROVE FirstOfKey(q)'
  <2>1. CASE NotYet(q)
    BY <2>1 DEF NotYet
  <2>2. CASE SameOf(q)
    <3>1. FirstOfKey(q)
      BY DEF RepInv
    <3> QED
      BY <2>2, <3>1 DEF FirstOfKey, SameOf
  <2> QED
    BY <2>1, <2>2
<1>5. ASSUME NEW q \in Requests PROVE Replays(q)'
  <2> SUFFICES ASSUME Answered(q)', req'[q].in.kind = "pool"
               PROVE  /\ req'[q].wrote /\ req'[q].in.idem # NoIdem /\ ~forgot =>
                           \A r \in Requests \ {q} : ~Twin(r, q)'
                      /\ ~req'[q].wrote =>
                           \E r \in Requests \ {q} : Twin(r, q)' /\ req'[r].rev = req'[q].rev
    BY DEF Replays
  <2>1. SameOf(q) /\ Answered(q) /\ Replays(q)
    BY <1>1 DEF RepInv
  <2>2. ASSUME NEW r \in Requests PROVE Twin(r, q)' => Twin(r, q)
    <3>1. Twin(r, q)' => req'[r].in.kind = "pool" /\ Answered(r)'
      BY DEF Twin
    <3>2. Twin(r, q)' => SameOf(r)
      BY <1>1, <3>1
    <3> QED
      BY <1>1, <2>1, <3>1, <3>2 DEF Twin, SameOf
  <2>3. ASSUME NEW r \in Requests, Twin(r, q) PROVE Twin(r, q)' /\ req'[r].rev = req[r].rev
    BY <1>1, <2>1, <2>3 DEF Twin, SameOf
  <2>4. req'[q].wrote /\ req'[q].in.idem # NoIdem /\ ~forgot => \A r \in Requests \ {q} : ~Twin(r, q)'
    BY <2>1, <2>2 DEF Replays, SameOf
  <2>5. ASSUME ~req'[q].wrote
        PROVE  \E r \in Requests \ {q} : Twin(r, q)' /\ req'[r].rev = req'[q].rev
    <3>1. PICK r \in Requests \ {q} : Twin(r, q) /\ req[r].rev = req[q].rev
      BY <2>1, <2>5 DEF Replays, SameOf
    <3> QED
      BY <2>1, <2>3, <3>1 DEF SameOf
  <2> QED
    BY <2>4, <2>5
<1> QED
  BY <1>2, <1>3, <1>4, <1>5 DEF RepInv

\* Steps of one request r that answer no creation.
LEMMA RepMoves ==
  ASSUME RepInv, NEW r \in Requests, \A q \in Requests \ {r} : req'[q] = req[q],
         idem' = idem, forgot' = forgot, req[r].pc # "done",
         ~(req'[r].pc = "done" /\ req'[r].status = 200 /\ req'[r].in.kind = "pool"),
         req'[r].pc \in {"checked", "loaded", "executed", "failed"} =>
           req'[r].in = req[r].in /\ req[r].pc \in {"checked", "loaded", "executed", "failed"}
  PROVE  RepInv'
<1>1. \A q \in Requests \ {r} : SameOf(q)
  BY DEF SameOf
<1>2. FirstOfKey(r)
  BY DEF RepInv
<1>3. FirstOfKey(r)'
  BY <1>2 DEF FirstOfKey
<1>4. NotYet(r)
  BY <1>3 DEF NotYet
<1> QED
  BY <1>1, <1>4, RepSame

\* A request is answered, not with success or not as a creation.
LEMMA RepAnswers ==
  ASSUME AInv, RepInv, NEW r \in Requests, NEW st \in Nat, Answer(r, st),
         st # 200 \/ req[r].in.kind # "pool", req[r].pc # "done", idem' = idem, forgot' = forgot
  PROVE  RepInv'
<1>1. req \in [Requests -> ReqType] /\ req[r] \in ReqType
  BY DEF AInv, Types
<1>2. req' = [req EXCEPT ![r] = [req[r] EXCEPT !.pc = "done", !.status = st, !.rev = req[r].rev]]
  BY AnswerIs
<1>3. /\ req'[r].pc = "done" /\ req'[r].status = st /\ req'[r].in = req[r].in
      /\ \A q \in Requests \ {r} : req'[q] = req[q]
  BY <1>1, <1>2 DEF ReqType
<1> QED
  BY <1>3, RepMoves

\* A handler goes on.
LEMMA RepTo ==
  ASSUME AInv, RepInv, NEW r \in Requests, NEW pc, To(r, pc),
         req[r].pc # "done", pc # "done", idem' = idem, forgot' = forgot,
         pc \in {"checked", "loaded", "executed", "failed"} =>
           req[r].pc \in {"checked", "loaded", "executed", "failed"}
  PROVE  RepInv'
<1>1. req \in [Requests -> ReqType] /\ req[r] \in ReqType
  BY DEF AInv, Types
<1>2. req'[r] = [req[r] EXCEPT !.pc = pc] /\ \A q \in Requests \ {r} : req'[q] = req[q]
  BY <1>1 DEF To
<1>3. req'[r].pc = pc /\ req'[r].in = req[r].in
  BY <1>1, <1>2 DEF ReqType
<1> QED
  BY <1>2, <1>3, RepMoves

\* Before the mutex.
LEMMA RepHeads ==
  ASSUME AInv, RepInv, NEW r \in Requests,
         AuthMiddleware(r) \/ RateLimitMiddleware(r) \/ mutate(r) \/ translateBatch(r) \/ Lock(r)
         \/ registerMintAPIKey(r) \/ registerRevokeAPIKey(r)
  PROVE  RepInv'
<1>1. idem' = idem /\ forgot' = forgot /\ req \in [Requests -> ReqType] /\ req[r] \in ReqType
  BY DEF AuthMiddleware, RateLimitMiddleware, mutate, translateBatch, Lock, registerMintAPIKey,
         registerRevokeAPIKey, AInv, Types
<1>2. req[r].pc # "done"
  BY DEF AuthMiddleware, RateLimitMiddleware, mutate, translateBatch, Lock, registerMintAPIKey,
         registerRevokeAPIKey, At
<1>3. ASSUME NEW st \in Nat \ {200}, Answer(r, st) PROVE RepInv'
  BY <1>1, <1>2, <1>3, RepAnswers
<1>4. ASSUME NEW pc \in {"admitted", "waiting"}, To(r, pc) PROVE RepInv'
  BY <1>1, <1>2, <1>4, RepTo
<1>5. 400 \in Nat \ {200} /\ 403 \in Nat \ {200} /\ 429 \in Nat \ {200} /\ 500 \in Nat \ {200}
  OBVIOUS
<1>6. CASE AuthMiddleware(r)
  <2>1. PICK in \in Inputs :
          req' = [req EXCEPT ![r].in = in,
                             ![r].pc = IF IsAPIKeyValid(in.actor) THEN "authed" ELSE "done",
                             ![r].status = IF IsAPIKeyValid(in.actor) THEN 0 ELSE 401]
    BY <1>6 DEF AuthMiddleware
  <2>2. PICK pc \in {"authed", "done"}, st \in Nat :
          /\ pc = (IF IsAPIKeyValid(in.actor) THEN "authed" ELSE "done")
          /\ st = (IF IsAPIKeyValid(in.actor) THEN 0 ELSE 401)
    OBVIOUS
  <2>3. req' = [req EXCEPT ![r].in = in, ![r].pc = pc, ![r].status = st]
    BY <2>1, <2>2, Zenon
  <2>4. req'[r].pc = pc /\ req'[r].status = st /\ \A q \in Requests \ {r} : req'[q] = req[q]
    <3>1. /\ req'[r] = [[[req[r] EXCEPT !.in = in] EXCEPT !.pc = pc] EXCEPT !.status = st]
          /\ \A q \in Requests \ {r} : req'[q] = req[q]
      BY <1>1, <2>3
    <3>2. req[r] \in ReqType
      BY <1>1
    <3> QED
      BY <3>1, <3>2 DEF ReqType
  <2>5. st # 200
    BY <2>2
  <2> QED
    BY <1>1, <1>2, <2>4, <2>5, RepMoves
<1>7. CASE RateLimitMiddleware(r)
  BY <1>3, <1>4, <1>5, <1>7 DEF RateLimitMiddleware
<1>8. CASE mutate(r)
  BY <1>3, <1>4, <1>5, <1>8 DEF mutate
<1>9. CASE translateBatch(r)
  <2>1. \/ Answer(r, 400)
        \/ To(r, "waiting")
        \/ \E i \in Subs(r) : /\ fireMutationObservers(r, "failure", {i})
                              /\ Answer(r, IF req[r].in.names[i] = NoPool THEN 400 ELSE 403)
    BY <1>9 DEF translateBatch, Answer, To, fireMutationObservers, auditObserver
  <2>2. CASE \E i \in Subs(r) : /\ fireMutationObservers(r, "failure", {i})
                                 /\ Answer(r, IF req[r].in.names[i] = NoPool THEN 400 ELSE 403)
    <3>1. PICK i \in Subs(r) : /\ fireMutationObservers(r, "failure", {i})
                               /\ Answer(r, IF req[r].in.names[i] = NoPool THEN 400 ELSE 403)
      BY <2>2
    <3>2. (IF req[r].in.names[i] = NoPool THEN 400 ELSE 403) \in Nat \ {200}
      OBVIOUS
    <3> QED
      BY <1>3, <3>1, <3>2
  <2> QED
    BY <1>3, <1>4, <1>5, <2>1, <2>2
<1>10. CASE Lock(r)
  <2>1. /\ req'[r] = [[req[r] EXCEPT !.pc = "locked"] EXCEPT !.disturbed = FALSE]
        /\ \A q \in Requests \ {r} : req'[q] = req[q]
    BY <1>1, <1>10 DEF Lock
  <2>2. req'[r].pc = "locked"
    BY <1>1, <2>1 DEF ReqType
  <2> QED
    BY <1>1, <1>2, <2>1, <2>2, RepMoves
<1>11. CASE registerMintAPIKey(r) \/ registerRevokeAPIKey(r)
  <2>1. req[r].in.kind # "pool"
    BY <1>11 DEF registerMintAPIKey, registerRevokeAPIKey
  <2>2. ASSUME NEW st \in Nat, Answer(r, st) PROVE RepInv'
    BY <1>1, <1>2, <2>1, <2>2, RepAnswers
  <2>3. Answer(r, 200) \/ Answer(r, 400) \/ Answer(r, 403) \/ Answer(r, 500)
    BY <1>11, Zenon DEF registerMintAPIKey, registerRevokeAPIKey
  <2>4. 200 \in Nat /\ 400 \in Nat /\ 403 \in Nat /\ 500 \in Nat
    OBVIOUS
  <2> QED
    BY <2>2, <2>3, <2>4
<1> QED
  BY <1>6, <1>7, <1>8, <1>9, <1>10, <1>11

\* The stages of a creation and of a batch, but for the two answers of a
\* creation.
LEMMA RepStages ==
  ASSUME AInv, RepInv, NEW r \in Requests,
         dryRunMutate(r) \/ checkRevision(r) \/ ExecuteLoad(r) \/ ExecuteSave(r) \/ translateResult(r)
         \/ runBatch(r) \/ NewTempCopy(r) \/ confirmBase(r) \/ commitBatch(r)
  PROVE  RepInv'
<1>1. idem' = idem /\ forgot' = forgot /\ req \in [Requests -> ReqType] /\ req[r] \in ReqType
  BY DEF dryRunMutate, checkRevision, ExecuteLoad, ExecuteSave, translateResult, runBatch, NewTempCopy,
         confirmBase, commitBatch, AInv, Types
<1>2. req[r].pc # "done"
  BY DEF dryRunMutate, checkRevision, ExecuteLoad, ExecuteSave, translateResult, runBatch, NewTempCopy,
         confirmBase, commitBatch, Holds, At
<1>3. ASSUME NEW st \in Nat, NEW outcome, NEW subs, Return(r, outcome, subs, st),
             st # 200 \/ req[r].in.kind # "pool"
      PROVE  RepInv'
  BY <1>1, <1>2, <1>3, RepAnswers DEF Return
<1>4. 412 \in Nat /\ 500 \in Nat /\ 412 # 200 /\ 500 # 200
      /\ \A st \in Refusals(r) \cup {500} : st \in Nat /\ st # 200
  BY DEF Refusals
<1>5. ASSUME NEW pc \in {"loaded", "prepared"},
             req[r].pc = (IF pc = "loaded" THEN "checked" ELSE "based"),
             req' = [req EXCEPT ![r].pc = pc, ![r].loaded = file]
      PROVE  RepInv'
  <2>1. /\ req'[r] = [[req[r] EXCEPT !.pc = pc] EXCEPT !.loaded = file]
        /\ \A q \in Requests \ {r} : req'[q] = req[q]
    BY <1>1, <1>5
  <2>2. req'[r].pc = pc /\ req'[r].in = req[r].in
    BY <1>1, <2>1 DEF ReqType
  <2> QED
    BY <1>1, <1>2, <1>5, <2>1, <2>2, RepMoves
<1>6. CASE dryRunMutate(r)
  <2>1. req[r].in.kind # "pool"
    BY <1>6 DEF dryRunMutate
  <2>2. PICK st \in (IF Names(r) \cap file.pools = {} THEN {200, 500} ELSE {500}) :
          Return(r, "dry_run", {1}, st)
    BY <1>6, Zenon DEF dryRunMutate
  <2>3. st \in Nat /\ Answer(r, st)
    BY <2>2 DEF Return
  <2>4. \E s \in Nat : Answer(r, s)
    BY <2>3, Zenon
  <2>5. PICK s \in Nat : Answer(r, s)
    BY <2>4, Zenon
  <2> QED
    BY <1>1, <1>2, <2>1, <2>5, RepAnswers
<1>7. CASE checkRevision(r)
  <2>1. CASE To(r, "checked")
    <3>1. /\ req'[r] = [req[r] EXCEPT !.pc = "checked"]
          /\ \A q \in Requests \ {r} : req'[q] = req[q]
      BY <1>1, <2>1 DEF To
    <3>2. req'[r].pc = "checked" /\ req'[r].in = req[r].in
      BY <1>1, <3>1 DEF ReqType
    <3>3. req[r].in.idem = NoIdem
          \/ \A e \in idem : ~(e.actor = req[r].in.actor /\ e.key = req[r].in.idem)
      BY <1>7 DEF checkRevision, lookup
    <3>4. NotYet(r)
      BY <1>1, <1>2, <3>2, <3>3 DEF NotYet, FirstOfKey
    <3>5. \A q \in Requests \ {r} : SameOf(q)
      BY <3>1 DEF SameOf
    <3> QED
      BY <1>1, <3>4, <3>5, RepSame
  <2>2. To(r, "checked") \/ \E st \in Refusals(r) : Return(r, "failure", {1}, st)
    BY <1>7, Zenon DEF checkRevision
  <2> QED
    BY <1>3, <1>4, <2>1, <2>2
<1>8. CASE ExecuteLoad(r)
  BY <1>5, <1>8 DEF ExecuteLoad, Holds, At
<1>9. CASE ExecuteSave(r)
  <2>1. req[r].pc = "loaded"
    BY <1>9 DEF ExecuteSave, Holds, At
  <2>2. ASSUME NEW pc \in {"executed", "failed"}, req' = [req EXCEPT ![r].pc = pc, ![r].wrote = TRUE]
        PROVE  RepInv'
    <3>1. /\ req'[r] = [[req[r] EXCEPT !.pc = pc] EXCEPT !.wrote = TRUE]
          /\ \A q \in Requests \ {r} : req'[q] = req[q]
      BY <1>1, <2>2
    <3>2. req'[r].pc = pc /\ req'[r].in = req[r].in
      BY <1>1, <3>1 DEF ReqType
    <3> QED
      BY <1>1, <1>2, <2>1, <2>2, <3>1, <3>2, RepMoves
  <2>3. CASE To(r, "failed")
    BY <1>1, <1>2, <2>1, <2>3, RepTo
  <2> QED
    BY <1>9, <2>2, <2>3 DEF ExecuteSave
<1>10. CASE translateResult(r)
  BY <1>3, <1>4, <1>10 DEF translateResult
<1>11. CASE runBatch(r)
  <2>1. CASE req' = [req EXCEPT ![r].pc = "based", ![r].base = file.rev]
    <3>1. /\ req'[r] = [[req[r] EXCEPT !.pc = "based"] EXCEPT !.base = file.rev]
          /\ \A q \in Requests \ {r} : req'[q] = req[q]
      BY <1>1, <2>1
    <3>2. req'[r].pc = "based"
      BY <1>1, <3>1 DEF ReqType
    <3> QED
      BY <1>1, <1>2, <3>1, <3>2, RepMoves
  <2>2. \/ req' = [req EXCEPT ![r].pc = "based", ![r].base = file.rev]
        \/ \E st \in Refusals(r) \cup {500} : Return(r, "failure", Subs(r), st)
    BY <1>11, Zenon DEF runBatch
  <2> QED
    BY <1>3, <1>4, <2>1, <2>2
<1>12. CASE NewTempCopy(r)
  <2>1. req[r].pc = "based"
    BY <1>12 DEF NewTempCopy, Holds, At
  <2>2. CASE \E i \in Subs(r) : Return(r, "failure", {i}, 500)
    BY <1>3, <1>4, <2>2
  <2>3. \/ req' = [req EXCEPT ![r].pc = "prepared", ![r].loaded = file]
        \/ \E i \in Subs(r) : Return(r, "failure", {i}, 500)
        \/ Return(r, "failure", Subs(r), 500)
    BY <1>12, Zenon DEF NewTempCopy
  <2>4. CASE Return(r, "failure", Subs(r), 500)
    BY <1>3, <1>4, <2>4
  <2>5. CASE req' = [req EXCEPT ![r].pc = "prepared", ![r].loaded = file]
    <3>1. "prepared" \in {"loaded", "prepared"} /\ "prepared" # "loaded"
      OBVIOUS
    <3> QED
      BY <1>5, <2>1, <2>5, <3>1
  <2> QED
    BY <2>2, <2>3, <2>4, <2>5
<1>13. CASE confirmBase(r)
  <2>1. \/ To(r, "confirmed") \/ Return(r, "failure", Subs(r), 412)
        \/ Return(r, "failure", Subs(r), 500)
    BY <1>13, Zenon DEF confirmBase
  <2>2. CASE To(r, "confirmed")
    BY <1>1, <1>2, <2>2, RepTo
  <2> QED
    BY <1>3, <1>4, <2>1, <2>2
<1>14. CASE commitBatch(r)
  <2>1. req[r].in.kind = "batch"
    BY <1>14 DEF commitBatch, Holds, At, AInv, StageOf
  <2>2. PICK wrote \in BOOLEAN, closed \in BOOLEAN :
         /\ closed => wrote
         /\ file' = IF wrote THEN [rev |-> req[r].base + 1,
                                   pools |-> req[r].loaded.pools \cup Names(r)]
                    ELSE file
         /\ fireMutationObservers(r, IF closed THEN "success" ELSE "failure", Subs(r))
         /\ req' = [req EXCEPT ![r].pc = "done", ![r].wrote = wrote,
                               ![r].status = IF closed THEN 200 ELSE 500,
                               ![r].rev = req[r].base + 1]
    BY <1>14, Zenon DEF commitBatch
  <2>3. PICK st, n : st = (IF closed THEN 200 ELSE 500) /\ n = req[r].base + 1
    OBVIOUS
  <2>4. req' = [req EXCEPT ![r].pc = "done", ![r].wrote = wrote, ![r].status = st, ![r].rev = n]
    BY <2>2, <2>3, Zenon
  <2>5. /\ req'[r] = [[[[req[r] EXCEPT !.pc = "done"] EXCEPT !.wrote = wrote] EXCEPT !.status = st]
                        EXCEPT !.rev = n]
        /\ \A q \in Requests \ {r} : req'[q] = req[q]
    BY <1>1, <2>4
  <2>6. req'[r].pc = "done" /\ req'[r].in = req[r].in
    BY <1>1, <2>5 DEF ReqType
  <2> QED
    BY <1>1, <1>2, <2>1, <2>5, <2>6, RepMoves
<1> QED
  BY <1>6, <1>7, <1>8, <1>9, <1>10, <1>11, <1>12, <1>13, <1>14

\* A replay is answered with what the request it repeats was answered.
LEMMA RepReplays ==
  ASSUME AInv, RepInv, OneRequestPerKey, NEW r \in Requests, replay(r)
  PROVE  RepInv'
<1>1. /\ idem' = idem /\ forgot' = forgot /\ req \in [Requests -> ReqType] /\ req[r] \in ReqType
      /\ req[r].pc = "locked" /\ req[r].in.kind = "pool" /\ req[r].in.idem # NoIdem
  BY DEF replay, Holds, At, AInv, Types
<1>2. ~req[r].wrote
  BY <1>1 DEF AInv, StageOf
<1>3. PICK e \in lookup(r) :
        /\ fireMutationObservers(r, "idempotent_replay", {1})
        /\ req' = [req EXCEPT ![r].pc = "done", ![r].status = 200, ![r].rev = e.rev]
  BY Zenon DEF replay
<1>4. e \in idem /\ e.actor = req[r].in.actor /\ e.key = req[r].in.idem
  BY DEF lookup
<1>5. \A q \in Requests \ {r} : req'[q] = req[q]
  BY <1>1, <1>3
<1>6. /\ req'[r].pc = "done" /\ req'[r].status = 200 /\ req'[r].rev = e.rev
      /\ req'[r].in = req[r].in /\ req'[r].wrote = req[r].wrote
  <2>1. req'[r] = [[[req[r] EXCEPT !.pc = "done"] EXCEPT !.status = 200] EXCEPT !.rev = e.rev]
    BY <1>1, <1>3
  <2>2. req[r] \in ReqType
    BY <1>1
  <2> QED
    BY <2>1, <2>2 DEF ReqType
<1>7. PICK t \in Requests :
        Applied(t) /\ req[t].in.actor = e.actor /\ req[t].in.idem = e.key /\ req[t].rev = e.rev
  BY <1>4 DEF RepInv, EntriesAreApplied
<1>8. t # r /\ req'[t] = req[t] /\ req[t].in = req[r].in
  <2>1. t # r
    BY <1>1, <1>7 DEF Applied, Answered
  <2>2. req[t].in \in Inputs /\ req[r].in \in Inputs
    BY <1>1 DEF ReqType
  <2>3. /\ req[t].in.kind = "pool" /\ req[t].in.actor = req[r].in.actor
        /\ req[t].in.idem = req[r].in.idem
    BY <1>4, <1>7 DEF Applied
  <2> QED
    BY <1>1, <1>5, <2>1, <2>2, <2>3 DEF OneRequestPerKey
<1>9. ASSUME NEW q \in Requests PROVE (Applied(q)' <=> Applied(q)) /\ (Applied(q) => q # r)
  BY <1>1, <1>2, <1>5, <1>6 DEF Applied, Answered
<1>10. EntriesAreApplied'
  <2> SUFFICES ASSUME NEW d \in idem
               PROVE  \E q \in Requests :
                        Applied(q)' /\ req'[q].in.actor = d.actor /\ req'[q].in.idem = d.key
                        /\ req'[q].rev = d.rev
    BY <1>1 DEF EntriesAreApplied
  <2>1. PICK q \in Requests :
          Applied(q) /\ req[q].in.actor = d.actor /\ req[q].in.idem = d.key /\ req[q].rev = d.rev
    BY DEF RepInv, EntriesAreApplied
  <2> QED
    BY <1>5, <1>9, <2>1
<1>11. AppliedAreKept'
  <2> SUFFICES ASSUME ~forgot, NEW q \in Requests, Applied(q)'
               PROVE  \E d \in idem : req'[q].in.actor = d.actor /\ req'[q].in.idem = d.key
    BY <1>1 DEF AppliedAreKept
  <2>1. Applied(q) /\ req'[q] = req[q]
    BY <1>5, <1>9
  <2> QED
    BY <2>1 DEF RepInv, AppliedAreKept
<1>12. ASSUME NEW q \in Requests PROVE FirstOfKey(q)'
  <2>1. FirstOfKey(q)
    BY DEF RepInv
  <2> QED
    BY <1>1, <1>5, <1>6, <2>1 DEF FirstOfKey
<1>13. Replays(r)'
  <2>1. Twin(t, r)'
    BY <1>6, <1>7, <1>8 DEF Twin, Applied, Answered
  <2> QED
    BY <1>2, <1>6, <1>7, <1>8, <2>1 DEF Replays
<1>14. ASSUME NEW q \in Requests \ {r} PROVE Replays(q)'
  <2>1. Replays(q)
    BY DEF RepInv
  <2>2. ASSUME NEW p \in Requests PROVE (Twin(p, q)' <=> Twin(p, q)) /\ (Twin(p, q) => p # r)
    BY <1>1, <1>2, <1>5, <1>6 DEF Twin, Answered
  <2>3. Answered(q)' <=> Answered(q)
    BY <1>5 DEF Answered
  <2> QED
    BY <1>1, <1>5, <2>1, <2>2, <2>3 DEF Replays
<1> QED
  BY <1>10, <1>11, <1>12, <1>13, <1>14 DEF RepInv

\* A creation that is answered was the first of its key.
LEMMA RepStores ==
  ASSUME AInv, RepInv, NEW r \in Requests, store(r)
  PROVE  RepInv'
<1>1. /\ forgot' = forgot /\ req \in [Requests -> ReqType] /\ req[r] \in ReqType
      /\ req[r].pc = "executed" /\ r \in lock
  BY DEF store, Holds, At, AInv, Types
<1>2. req[r].wrote /\ req[r].in.kind = "pool" /\ FirstOfKey(r)
  BY <1>1 DEF AInv, StageOf, RepInv
<1>3. PICK rv : rv = file.rev
  OBVIOUS
<1>4. req' = [req EXCEPT ![r].pc = "done", ![r].status = 200, ![r].rev = rv]
  BY <1>3 DEF store
<1>5. \A q \in Requests \ {r} : req'[q] = req[q]
  BY <1>1, <1>4
<1>6. /\ req'[r].pc = "done" /\ req'[r].status = 200 /\ req'[r].rev = rv
      /\ req'[r].in = req[r].in /\ req'[r].wrote = req[r].wrote
  <2>1. req'[r] = [[[req[r] EXCEPT !.pc = "done"] EXCEPT !.status = 200] EXCEPT !.rev = rv]
    BY <1>1, <1>4
  <2>2. req[r] \in ReqType
    BY <1>1
  <2> QED
    BY <2>1, <2>2 DEF ReqType
<1> DEFINE new == [actor |-> req[r].in.actor, key |-> req[r].in.idem, rev |-> rv]
<1>7. /\ req[r].in.idem = NoIdem => idem' = idem
      /\ req[r].in.idem # NoIdem => idem' = idem \cup {new}
      /\ new.actor = req[r].in.actor /\ new.key = req[r].in.idem /\ new.rev = rv
  BY <1>3 DEF store
<1> HIDE DEF new
<1>8. ~Answered(r) /\ Answered(r)'
  BY <1>1, <1>6 DEF Answered
<1>9. ASSUME NEW q \in Requests \ {r}
      PROVE  (Answered(q)' <=> Answered(q)) /\ (Applied(q)' <=> Applied(q))
  BY <1>5 DEF Applied, Answered
<1>10. Applied(r)' <=> req[r].in.idem # NoIdem
  BY <1>2, <1>6, <1>8 DEF Applied
<1>11. \A q \in Requests : Applied(q) => q # r
  BY <1>8 DEF Applied
<1>12. EntriesAreApplied'
  <2> SUFFICES ASSUME NEW d \in idem'
               PROVE  \E q \in Requests :
                        Applied(q)' /\ req'[q].in.actor = d.actor /\ req'[q].in.idem = d.key
                        /\ req'[q].rev = d.rev
    BY DEF EntriesAreApplied
  <2>1. CASE d \in idem
    <3>1. PICK q \in Requests :
            Applied(q) /\ req[q].in.actor = d.actor /\ req[q].in.idem = d.key /\ req[q].rev = d.rev
      BY <2>1 DEF RepInv, EntriesAreApplied
    <3> QED
      BY <1>5, <1>9, <1>11, <3>1
  <2>2. CASE d = new /\ req[r].in.idem # NoIdem
    BY <1>6, <1>7, <1>10, <2>2
  <2> QED
    BY <1>7, <2>1, <2>2
<1>13. AppliedAreKept'
  <2> SUFFICES ASSUME ~forgot, NEW q \in Requests, Applied(q)'
               PROVE  \E d \in idem' : req'[q].in.actor = d.actor /\ req'[q].in.idem = d.key
    BY <1>1 DEF AppliedAreKept
  <2>1. CASE q = r
    BY <1>6, <1>7, <1>10, <2>1
  <2>2. CASE q # r
    <3>1. PICK d \in idem : req[q].in.actor = d.actor /\ req[q].in.idem = d.key
      BY <1>9, <2>2 DEF RepInv, AppliedAreKept
    <3> QED
      BY <1>5, <1>7, <2>2, <3>1
  <2> QED
    BY <2>1, <2>2
<1>14. ASSUME NEW q \in Requests PROVE FirstOfKey(q)'
  <2>1. req'[q].pc \notin {"checked", "loaded", "executed", "failed"}
    <3>1. CASE q = r
      BY <1>6, <3>1
    <3>2. CASE q # r
      BY <1>1, <1>5, <3>2 DEF AInv, OneInside, Critical
    <3> QED
      BY <3>1, <3>2
  <2> QED
    BY <2>1 DEF FirstOfKey
<1>15. ASSUME ~forgot, req[r].in.idem # NoIdem, NEW q \in Requests, Answered(q), req[q].wrote,
              req[q].in = req[r].in
       PROVE  FALSE
  <2>1. Applied(q)
    BY <1>2, <1>15 DEF Applied
  <2>2. PICK d \in idem : req[q].in.actor = d.actor /\ req[q].in.idem = d.key
    BY <1>15, <2>1 DEF RepInv, AppliedAreKept
  <2> QED
    BY <1>1, <1>2, <1>15, <2>2 DEF FirstOfKey
<1>16. Replays(r)'
  <2>1. ASSUME NEW q \in Requests \ {r}, Twin(q, r)', ~forgot, req[r].in.idem # NoIdem PROVE FALSE
    <3>1. Answered(q) /\ req[q].wrote /\ req[q].in = req[r].in
      BY <1>5, <1>6, <1>9, <2>1 DEF Twin
    <3> QED
      BY <1>15, <2>1, <3>1
  <2> QED
    BY <1>1, <1>2, <1>6, <2>1 DEF Replays
<1>17. ASSUME NEW q \in Requests \ {r} PROVE Replays(q)'
  <2> SUFFICES ASSUME Answered(q)', req'[q].in.kind = "pool"
               PROVE  /\ req'[q].wrote /\ req'[q].in.idem # NoIdem /\ ~forgot =>
                           \A p \in Requests \ {q} : ~Twin(p, q)'
                      /\ ~req'[q].wrote =>
                           \E p \in Requests \ {q} : Twin(p, q)' /\ req'[p].rev = req'[q].rev
    BY <1>1 DEF Replays
  <2>1. Replays(q) /\ Answered(q) /\ req'[q] = req[q]
    BY <1>5, <1>9 DEF RepInv
  <2>2. ASSUME NEW p \in Requests \ {r} PROVE Twin(p, q)' <=> Twin(p, q)
    BY <1>5, <1>9, <2>1 DEF Twin
  <2>3. ASSUME req'[q].wrote, req'[q].in.idem # NoIdem, ~forgot, NEW p \in Requests \ {q}, Twin(p, q)'
        PROVE  FALSE
    <3>1. CASE p = r
      <4>1. req[q].in = req[r].in /\ req[q].wrote
        BY <1>6, <2>1, <2>3, <3>1 DEF Twin
      <4> QED
        BY <1>15, <2>1, <2>3, <4>1
    <3>2. CASE p # r
      BY <2>1, <2>2, <2>3, <3>2 DEF Replays
    <3> QED
      BY <3>1, <3>2
  <2>4. ASSUME ~req'[q].wrote
        PROVE  \E p \in Requests \ {q} : Twin(p, q)' /\ req'[p].rev = req'[q].rev
    <3>1. PICK p \in Requests \ {q} : Twin(p, q) /\ req[p].rev = req[q].rev
      BY <2>1, <2>4 DEF Replays
    <3>2. p # r
      BY <1>8, <3>1 DEF Twin
    <3> QED
      BY <1>5, <2>1, <2>2, <3>1, <3>2
  <2> QED
    BY <2>3, <2>4
<1> QED
  BY <1>12, <1>13, <1>14, <1>16, <1>17 DEF RepInv

\* What happens around the requests answers none of them.
LEMMA RepAround ==
  ASSUME AInv, RepInv,
         \/ \E k \in KeyIds : Refill(k) \/ runAPIKeyCreate(k) \/ runAPIKeyRevoke(k) \/ KeyExpires(k)
         \/ OtherLoads \/ OtherSaves \/ Shutdown \/ Crash \/ UNCHANGED vars
  PROVE  RepInv'
<1>1. idem' = idem /\ forgot' = forgot /\ req \in [Requests -> ReqType]
  BY DEF Refill, runAPIKeyCreate, runAPIKeyRevoke, KeyExpires, OtherLoads, OtherSaves, Shutdown, Crash,
         vars, AInv, Types
<1>2. CASE req' = req
  <2>1. \A q \in Requests : SameOf(q)
    BY <1>2 DEF SameOf
  <2> QED
    BY <1>1, <2>1, RepSame
<1>3. CASE OtherSaves
  <2>1. ASSUME NEW q \in Requests PROVE SameOf(q)
    <3>1. req'[q] = [req[q] EXCEPT !.disturbed = TRUE] \/ req'[q] = req[q]
      BY <1>3 DEF OtherSaves
    <3>2. req[q] \in ReqType
      BY <1>1
    <3> QED
      BY <3>1, <3>2 DEF ReqType, SameOf
  <2> QED
    BY <1>1, <2>1, RepSame
<1>4. CASE Crash
  <2>1. ASSUME NEW q \in Requests PROVE SameOf(q) \/ NotYet(q)
    <3>1. CASE q \in InFlight
      <4>1. req'[q] = [req[q] EXCEPT !.pc = "lost"] /\ req[q].pc # "done" /\ req[q] \in ReqType
        BY <1>1, <1>4, <3>1 DEF Crash, InFlight
      <4>2. req'[q].pc = "lost"
        BY <4>1 DEF ReqType
      <4> QED
        BY <4>1, <4>2 DEF NotYet, FirstOfKey
    <3>2. CASE q \notin InFlight
      BY <1>4, <3>2 DEF Crash, SameOf
    <3> QED
      BY <3>1, <3>2
  <2> QED
    BY <1>1, <2>1, RepSame
<1> QED
  BY <1>2, <1>3, <1>4 DEF Refill, runAPIKeyCreate, runAPIKeyRevoke, KeyExpires, OtherLoads, Shutdown, vars

\* Entries are forgotten: one by its age, all by a restart.
LEMMA RepForgets ==
  ASSUME RepInv, idem' \subseteq idem, forgot' = TRUE, req' = req
  PROVE  RepInv'
<1>1. EntriesAreApplied'
  BY DEF RepInv, EntriesAreApplied, Applied, Answered
<1>2. AppliedAreKept' /\ \A q \in Requests : FirstOfKey(q)'
  BY DEF AppliedAreKept, FirstOfKey
<1>3. \A q \in Requests : Replays(q)'
  BY DEF RepInv, Replays, Twin, Answered
<1> QED
  BY <1>1, <1>2, <1>3 DEF RepInv

\* Every answer kept is that of a creation that was applied, every creation
\* that was applied has its answer kept, and every retry was answered with one,
\* in every reachable state.
THEOREM ReplayInvariance == OneRequestPerKey => (Spec => []RepInv)
<1> SUFFICES ASSUME OneRequestPerKey PROVE Spec => []RepInv
  OBVIOUS
<1>1. Init => RepInv
  <2> SUFFICES ASSUME Init PROVE RepInv
    OBVIOUS
  <2>1. idem = {} /\ \A q \in Requests : req[q].pc = "idle"
    BY DEF Init, Idle
  <2> QED
    BY <2>1 DEF RepInv, EntriesAreApplied, AppliedAreKept, FirstOfKey, Replays, Applied, Answered
<1>2. AInv /\ RepInv /\ [Next]_vars => RepInv'
  <2> SUFFICES ASSUME AInv, RepInv, [Next]_vars PROVE RepInv'
    OBVIOUS
  <2>1. ASSUME NEW r \in Requests, AuthMiddleware(r) \/ Lock(r) PROVE RepInv'
    BY <2>1, RepHeads
  <2>2. ASSUME NEW r \in Requests, Handle(r) PROVE RepInv'
    BY <2>2, RepHeads, RepStages, RepReplays, RepStores DEF Handle
  <2>3. CASE EntryExpires
    BY <2>3, RepForgets DEF EntryExpires
  <2>4. CASE NewServer
    BY <2>4, RepForgets DEF NewServer
  <2>5. CASE \/ \E k \in KeyIds : Refill(k) \/ runAPIKeyCreate(k) \/ runAPIKeyRevoke(k) \/ KeyExpires(k)
             \/ OtherLoads \/ OtherSaves \/ Shutdown \/ Crash \/ UNCHANGED vars
    BY <2>5, RepAround
  <2> QED
    BY <2>1, <2>2, <2>3, <2>4, <2>5 DEF Next
<1> QED
  BY <1>1, <1>2, PipelineInvariance, PTL DEF Spec

\* Of requests with the same idempotency key one is applied, until an entry
\* expires or the daemon restarts, and a retry is answered with the revision of
\* the one that was (idempotencyStore, internal/api).
THEOREM RetriesAreReplayed == OneRequestPerKey => (Spec => []RetriesReplay)
<1> SUFFICES ASSUME OneRequestPerKey PROVE Spec => []RetriesReplay
  OBVIOUS
<1>1. RepInv => RetriesReplay
  <2> SUFFICES ASSUME RepInv, NEW q \in Requests, Answered(q), req[q].in.kind = "pool",
                      NEW twins, twins = {r \in Requests \ {q} :
                                            Answered(r) /\ req[r].in = req[q].in /\ req[r].wrote}
               PROVE  IF req[q].wrote
                      THEN req[q].in.idem # NoIdem /\ twins # {} => forgot
                      ELSE \E r \in twins : req[r].rev = req[q].rev
    BY DEF RetriesReplay
  <2>1. Replays(q) /\ \A r \in Requests \ {q} : r \in twins <=> Twin(r, q)
    BY DEF RepInv, Twin
  <2>2. \A r \in twins : r \in Requests \ {q}
    OBVIOUS
  <2> QED
    BY <2>1, <2>2 DEF Replays
<1>2. Spec => []RepInv
  BY ReplayInvariance
<1> QED
  BY <1>1, <1>2, PTL

-----------------------------------------------------------------------------
\* The event stream

AnyEvent == [boot : Nat, seq : Nat]

\* The buffer's length is bounded by its capacity and by what was published.
BufferBounded ==
    /\ boot \in Nat
    /\ nextSeq \in Nat
    /\ buffer \in Seq(AnyEvent)
    /\ Len(buffer) <= Capacity
    /\ Len(buffer) <= nextSeq

IInv == BufferBounded /\ BufferIsLatest

-----------------------------------------------------------------------------
\* Trimming keeps a sequence's last n elements, in their order.
LEMMA NewestIsSuffix ==
    ASSUME NEW S, NEW s \in Seq(S), NEW n \in Nat \ {0}
    PROVE  /\ Newest(s, n) \in Seq(S)
           /\ Len(Newest(s, n)) = (IF Len(s) > n THEN n ELSE Len(s))
           /\ \A i \in 1 .. Len(Newest(s, n)) :
                 Newest(s, n)[i] = s[i + Len(s) - Len(Newest(s, n))]
<1>1. Len(s) \in Nat
    OBVIOUS
<1>2. CASE Len(s) > n
  <2>1. Newest(s, n) = SubSeq(s, Len(s) - n + 1, Len(s))
    BY <1>2 DEF Newest
  <2>2. Len(s) - n + 1 \in 1 .. Len(s) /\ Len(s) - (Len(s) - n + 1) + 1 = n
    BY <1>1, <1>2
  <2>3. \A i \in (Len(s) - n + 1) .. Len(s) : s[i] \in S
    BY <1>1, <2>2
  <2>4. /\ SubSeq(s, Len(s) - n + 1, Len(s)) \in Seq(S)
        /\ Len(SubSeq(s, Len(s) - n + 1, Len(s))) = n
        /\ \A i \in 1 .. n :
              SubSeq(s, Len(s) - n + 1, Len(s))[i] = s[Len(s) - n + 1 + i - 1]
    BY <1>1, <2>2, <2>3
  <2>5. \A i \in 1 .. n : Len(s) - n + 1 + i - 1 = i + Len(s) - n
    BY <1>1
  <2> QED
    BY <1>2, <2>1, <2>4, <2>5
<1>3. CASE ~(Len(s) > n)
  <2>1. Newest(s, n) = s
    BY <1>3 DEF Newest
  <2>2. \A i \in 1 .. Len(s) : i + Len(s) - Len(s) = i
    BY <1>1
  <2> QED
    BY <1>3, <2>1, <2>2
<1> QED
    BY <1>2, <1>3

\* A fresh daemon's empty buffer.
LEMMA InitIInv == StreamInit => IInv
BY StreamAssumption DEF StreamInit, IInv, BufferBounded, BufferIsLatest

\* Publishing under the mutex, a restart, and everything else anyone does.
LEMMA NextIInv == IInv /\ [StreamNext]_eventVars => IInv'
<1> SUFFICES ASSUME IInv, [StreamNext]_eventVars PROVE IInv'
    OBVIOUS
<1>1. ASSUME NEW p \in Publishers, AppendEvent(p) PROVE IInv'
  <2> DEFINE ev == [boot |-> boot, seq |-> nextSeq + 1]
             s  == Append(buffer, ev)
  <2>1. /\ boot \in Nat /\ nextSeq \in Nat /\ buffer \in Seq(AnyEvent)
        /\ Len(buffer) \in Nat /\ Len(buffer) <= Capacity /\ Len(buffer) <= nextSeq
        /\ Capacity \in Nat \ {0}
    BY StreamAssumption DEF IInv, BufferBounded
  <2>2. ev \in AnyEvent
    BY <2>1 DEF AnyEvent
  <2>3. s \in Seq(AnyEvent) /\ Len(s) = Len(buffer) + 1
    BY <2>1, <2>2
  <2>4. buffer' = Newest(s, Capacity) /\ nextSeq' = nextSeq + 1 /\ boot' = boot
    BY <1>1 DEF AppendEvent
  <2>5. \A i \in 1 .. Len(s) : s[i] = [boot |-> boot, seq |-> nextSeq + 1 - Len(s) + i]
    <3> SUFFICES ASSUME NEW i \in 1 .. Len(s)
                 PROVE  s[i] = [boot |-> boot, seq |-> nextSeq + 1 - Len(s) + i]
      OBVIOUS
    <3>1. CASE i = Len(buffer) + 1
      BY <2>1, <2>2, <2>3, <3>1
    <3>2. CASE i \in 1 .. Len(buffer)
      <4>1. s[i] = buffer[i]
        BY <2>1, <2>2, <3>2
      <4>2. buffer[i] = [boot |-> boot, seq |-> nextSeq - Len(buffer) + i]
        BY <3>2 DEF IInv, BufferIsLatest
      <4>3. nextSeq - Len(buffer) + i = nextSeq + 1 - Len(s) + i
        BY <2>1, <2>3, <3>2
      <4> QED
        BY <4>1, <4>2, <4>3
    <3> QED
      BY <2>1, <2>3, <3>1, <3>2
  <2> HIDE DEF s, ev
  <2>6. /\ buffer' \in Seq(AnyEvent)
        /\ Len(buffer') = (IF Len(s) > Capacity THEN Capacity ELSE Len(s))
        /\ \A i \in 1 .. Len(buffer') : buffer'[i] = s[i + Len(s) - Len(buffer')]
    BY <2>1, <2>3, <2>4, NewestIsSuffix
  <2>7. /\ Len(buffer') \in Nat /\ Len(buffer') <= Capacity /\ Len(buffer') <= nextSeq'
        /\ Len(buffer') <= Len(s)
    BY <2>1, <2>3, <2>4, <2>6
  <2>8. BufferBounded'
    BY <2>1, <2>4, <2>6, <2>7 DEF BufferBounded
  <2>9. ASSUME NEW i \in 1 .. Len(buffer')
        PROVE  buffer'[i] = [boot |-> boot', seq |-> nextSeq' - Len(buffer') + i]
    <3>1. i + Len(s) - Len(buffer') \in 1 .. Len(s)
      BY <2>3, <2>1, <2>7
    <3>2. buffer'[i] = [boot |-> boot, seq |-> nextSeq + 1 - Len(s) + (i + Len(s) - Len(buffer'))]
      BY <2>5, <2>6, <3>1
    <3>3. nextSeq + 1 - Len(s) + (i + Len(s) - Len(buffer')) = nextSeq' - Len(buffer') + i
      BY <2>1, <2>3, <2>4, <2>7
    <3> QED
      BY <2>4, <3>2, <3>3
  <2>10. BufferIsLatest'
    BY <2>9 DEF BufferIsLatest
  <2> QED
    BY <2>8, <2>10 DEF IInv
<1>2. ASSUME Restart PROVE IInv'
  <2>1. buffer' = <<>> /\ nextSeq' = 0 /\ boot' \in Nat
    BY <1>2 DEF Restart, IInv, BufferBounded
  <2> QED
    BY <2>1, StreamAssumption DEF IInv, BufferBounded, BufferIsLatest
<1>3. CASE UNCHANGED streamVars
    BY <1>3 DEF streamVars, IInv, BufferBounded, BufferIsLatest
<1> QED
    BY <1>1, <1>2, <1>3 DEF StreamNext, FanOut, Send, Offer, PublishDone, Subscribe, SendReplay,
       SendLive, Disconnect, Revoke, RevocationTick, eventVars, streamVars

-----------------------------------------------------------------------------
\* At all times the buffer is exactly the latest events of this run, without a
\* hole, a duplicate or a swap, and never longer than its capacity.
THEOREM BufferHoldsLatest == StreamSpec => []BufferIsLatest
<1>1. IInv => BufferIsLatest
    BY DEF IInv
<1> QED
    BY <1>1, InitIInv, NextIInv, PTL DEF StreamSpec
-----------------------------------------------------------------------------
(* Delivery to one client.  Publishing is not atomic: the event is in the     *)
(* buffer before it is in the channels, and a client may come, go or be sent  *)
(* a replay in between.  Sent(c) is where the client stands in the sequence   *)
(* of this run: what is queued for it starts just behind.                     *)

\* What the API guarantees its order for: a single goroutine publishes.
OnePublisher == \A p, q \in Publishers : p = q

Pending(c) == IF \E p \in Publishers : c \in pub[p].to THEN 1 ELSE 0
Resyncs(c) == outbox[c] = <<NoEvent>>
Live(c) == nextSeq - Len(channel[c]) - Pending(c)
Sent(c) == IF Resyncs(c) THEN Live(c) ELSE Live(c) - Len(outbox[c])

\* the client's id has left the buffer: whatever comes, it will be resynced
Stale(c) == lastId[c] > 0 /\ lastId[c] < nextSeq - Len(buffer)

\* A closed connection has nothing queued.
ClosedIsEmpty ==
    \A c \in Clients \ open :
        outbox[c] = <<>> /\ channel[c] = <<>> /\ \A p \in Publishers : c \notin pub[p].to

\* What a publisher has in its hands is the latest event.
HandsLatest ==
    \A p \in Publishers :
        pub[p] = Quiet \/ (pub[p].event = [boot |-> boot, seq |-> nextSeq] /\ nextSeq > 0)

\* All that was published in this run, and nothing after.
HistoryIsNumbered ==
    /\ \A s \in 1 .. nextSeq : [boot |-> boot, seq |-> s] \in history
    /\ \A ev \in history : ev.boot <= boot /\ (ev.boot = boot => ev.seq <= nextSeq)
    /\ nextSeq > 0 => buffer # <<>>

\* The queue of a client runs from where it stands to the latest event.
QueueRuns(c) ==
    /\ Sent(c) >= 0
    /\ \A i \in 1 .. Len(channel[c]) : channel[c][i] = [boot |-> boot, seq |-> Live(c) + i]
    /\ Resyncs(c) \/ \A i \in 1 .. Len(outbox[c]) :
                         outbox[c][i] = [boot |-> boot, seq |-> Sent(c) + i]

\* It knows of what is before its queue, unless it is about to be resynced,
\* and of nothing in it; and of all earlier runs.
KnowsBefore(c) ==
    /\ known[c] \subseteq history
    /\ \A ev \in known[c] : ev.boot = boot => ev.seq <= Sent(c)
    /\ c \in open /\ ~Resyncs(c) =>
          \A s \in 1 .. nextSeq : s <= Sent(c) => [boot |-> boot, seq |-> s] \in known[c]
    /\ c \in open \/ lastId[c] > 0 => \A ev \in history : ev.boot # boot => ev \in known[c]

\* The id it would reconnect with is where it stands, or has left the buffer.
IdIsPlace(c) ==
    /\ lastId[c] <= nextSeq
    /\ Resyncs(c) => Stale(c)
    /\ lastId[c] > 0 /\ ~Stale(c) =>
          /\ c \in open => lastId[c] = Sent(c)
          /\ c \notin open =>
               \A s \in 1 .. nextSeq :
                  [boot |-> boot, seq |-> s] \in known[c] <=> s <= lastId[c]

KeepsUp(c) == QueueRuns(c) /\ KnowsBefore(c) /\ IdIsPlace(c)

DInv ==
    /\ IInv /\ StreamTypeOK /\ ClosedIsEmpty /\ HandsLatest /\ HistoryIsNumbered
    /\ \A c \in Clients \ behind : KeepsUp(c)
-----------------------------------------------------------------------------
\* What a client stands at depends on its own connection only.
LEMMA KeepsUpFrame ==
    ASSUME NEW c \in Clients, KeepsUp(c), UNCHANGED streamVars, history' = history,
           channel'[c] = channel[c], outbox'[c] = outbox[c], Pending(c)' = Pending(c),
           (c \in open') <=> (c \in open), lastId'[c] = lastId[c], known'[c] = known[c]
    PROVE  KeepsUp(c)'
<1>1. boot' = boot /\ nextSeq' = nextSeq /\ buffer' = buffer
    BY DEF streamVars
<1>2. /\ Resyncs(c)' <=> Resyncs(c)
      /\ Live(c)' = Live(c)
      /\ Stale(c)' <=> Stale(c)
    BY <1>1 DEF Resyncs, Live, Stale
<1>3. Sent(c)' = Sent(c)
    BY <1>2 DEF Sent
<1>4. QueueRuns(c)'
    BY <1>1, <1>2, <1>3 DEF KeepsUp, QueueRuns
<1>5. KnowsBefore(c)'
    BY <1>1, <1>2, <1>3 DEF KeepsUp, KnowsBefore
<1>6. IdIsPlace(c)'
    BY <1>1, <1>2, <1>3 DEF KeepsUp, IdIsPlace
<1> QED
    BY <1>4, <1>5, <1>6 DEF KeepsUp

\* The numbers a client's place is computed from.
LEMMA PlaceTypes ==
    ASSUME DInv, NEW c \in Clients
    PROVE  /\ boot \in Nat \ {0} /\ nextSeq \in Nat /\ lastId[c] \in Nat
           /\ Len(buffer) \in Nat /\ Len(buffer) <= nextSeq
           /\ Len(channel[c]) \in Nat /\ Len(outbox[c]) \in Nat
           /\ channel[c] \in Seq(Events) /\ outbox[c] \in Seq(Events \cup {NoEvent})
           /\ Pending(c) \in {0, 1} /\ Live(c) \in Int /\ Sent(c) \in Int
           /\ Sent(c) <= Live(c) /\ Live(c) <= nextSeq
<1>1. /\ boot \in Nat \ {0} /\ nextSeq \in Nat /\ lastId[c] \in Nat
      /\ Len(buffer) \in Nat /\ Len(buffer) <= nextSeq
      /\ channel[c] \in Seq(Events) /\ outbox[c] \in Seq(Events \cup {NoEvent})
    BY StreamAssumption DEF DInv, StreamTypeOK, IInv, BufferBounded
<1>2. Len(channel[c]) \in Nat /\ Len(outbox[c]) \in Nat
    BY <1>1
<1>3. Pending(c) \in {0, 1}
    BY DEF Pending
<1>4. Live(c) \in Int /\ Live(c) <= nextSeq
    BY <1>1, <1>2, <1>3 DEF Live
<1>5. Sent(c) \in Int /\ Sent(c) <= Live(c)
    BY <1>2, <1>4 DEF Sent
<1> QED
    BY <1>1, <1>2, <1>3, <1>4, <1>5

\* With one publisher an event is in its hands for a client exactly when the
\* client is in that publisher's list.
LEMMA PendingIs ==
    ASSUME OnePublisher, NEW p \in Publishers, NEW c
    PROVE  Pending(c) = (IF c \in pub[p].to THEN 1 ELSE 0)
<1>1. (\E q \in Publishers : c \in pub[q].to) <=> c \in pub[p].to
    BY DEF OnePublisher
<1> QED
    BY <1>1 DEF Pending

\* What is on its way to a client is what comes after its place.
LEMMA OnItsWayIs ==
    ASSUME DInv, NEW c \in Clients \ behind, c \in open, NEW ev \in history, ev.boot = boot
    PROVE  /\ ev.seq > Live(c) => OnItsWay(c, ev)
           /\ ~Resyncs(c) /\ ev.seq > Sent(c) => OnItsWay(c, ev)
           /\ OnItsWay(c, ev) => ev.seq > Sent(c)
<1>1. /\ ev \in Events /\ ev = [boot |-> boot, seq |-> ev.seq]
      /\ ev.seq \in Nat /\ ev.seq <= nextSeq
  <2>1. ev \in Events
    BY DEF DInv, StreamTypeOK
  <2>2. ev = [boot |-> boot, seq |-> ev.seq] /\ ev.seq \in Nat
    BY <2>1 DEF Events
  <2> QED
    BY <2>1, <2>2 DEF DInv, HistoryIsNumbered
<1>2. QueueRuns(c)
    BY DEF DInv, KeepsUp
<1>3. ASSUME ev.seq > Live(c) PROVE OnItsWay(c, ev)
  <2>1. PICK k \in Nat : k = ev.seq - Live(c) /\ k > 0
    BY <1>1, <1>3, PlaceTypes
  <2>2. CASE k <= Len(channel[c])
    <3>1. k \in 1 .. Len(channel[c]) /\ Live(c) + k = ev.seq
      BY <1>1, <2>1, <2>2, PlaceTypes
    <3>2. channel[c][k] = ev
      BY <1>1, <1>2, <3>1 DEF QueueRuns
    <3> QED
      BY <3>1, <3>2 DEF OnItsWay
  <2>3. CASE ~(k <= Len(channel[c]))
    <3>1. Pending(c) = 1 /\ ev.seq = nextSeq
      <4>1. PICK n \in Nat, w \in {0, 1} : n = Len(channel[c]) /\ w = Pending(c)
        BY PlaceTypes
      <4>2. Live(c) = nextSeq - n - w /\ nextSeq \in Nat
        BY <4>1, PlaceTypes DEF Live
      <4>3. k > n /\ k = ev.seq - (nextSeq - n - w) /\ ev.seq \in Nat /\ ev.seq <= nextSeq
        BY <1>1, <2>1, <2>3, <4>1, <4>2
      <4>4. w = 1 /\ ev.seq = nextSeq
        BY <2>1, <4>1, <4>2, <4>3
      <4> QED
        BY <4>1, <4>4
    <3>2. PICK p \in Publishers : c \in pub[p].to
      BY <3>1 DEF Pending
    <3>3. pub[p].event = [boot |-> boot, seq |-> nextSeq]
      BY <3>2 DEF DInv, HandsLatest, Quiet
    <3> QED
      BY <1>1, <3>1, <3>2, <3>3 DEF OnItsWay
  <2> QED
    BY <2>2, <2>3
<1>4. ASSUME ~Resyncs(c), ev.seq > Sent(c) PROVE OnItsWay(c, ev)
  <2>1. CASE ev.seq > Live(c)
    BY <1>3, <2>1
  <2>2. CASE ~(ev.seq > Live(c))
    <3>1. PICK k \in Nat : k = ev.seq - Sent(c) /\ k > 0
      BY <1>1, <1>4, PlaceTypes
    <3>2. Sent(c) = Live(c) - Len(outbox[c])
      BY <1>4 DEF Sent
    <3>3. k \in 1 .. Len(outbox[c]) /\ Sent(c) + k = ev.seq
      BY <1>1, <2>2, <3>1, <3>2, PlaceTypes
    <3>4. outbox[c][k] = ev
      BY <1>1, <1>2, <1>4, <3>3 DEF QueueRuns
    <3> QED
      BY <3>3, <3>4 DEF OnItsWay
  <2> QED
    BY <2>1, <2>2
<1>5. ASSUME OnItsWay(c, ev) PROVE ev.seq > Sent(c)
  <2>1. ASSUME NEW p \in Publishers, pub[p].event = ev, c \in pub[p].to PROVE ev.seq > Sent(c)
    <3>1. Pending(c) = 1 /\ pub[p].event = [boot |-> boot, seq |-> nextSeq]
      BY <2>1 DEF Pending, DInv, HandsLatest, Quiet
    <3>2. ev.seq = nextSeq
      BY <2>1, <3>1
    <3>3. Live(c) < nextSeq
      BY <3>1, PlaceTypes DEF Live
    <3> QED
      BY <3>2, <3>3, PlaceTypes
  <2>2. ASSUME NEW i \in 1 .. Len(channel[c]), channel[c][i] = ev PROVE ev.seq > Sent(c)
    <3>1. ev.seq = Live(c) + i
      <4>1. ev = [boot |-> boot, seq |-> Live(c) + i]
        BY <1>2, <2>2 DEF QueueRuns
      <4> QED
        BY <4>1
    <3> QED
      BY <2>2, <3>1, PlaceTypes
  <2>3. ASSUME NEW i \in 1 .. Len(outbox[c]), outbox[c][i] = ev PROVE ev.seq > Sent(c)
    <3>1. CASE Resyncs(c)
      <4>1. ev = NoEvent
        BY <2>3, <3>1 DEF Resyncs
      <4> QED
        BY <4>1, PlaceTypes DEF NoEvent
    <3>2. CASE ~Resyncs(c)
      <4>1. ev.seq = Sent(c) + i
        <5>1. ev = [boot |-> boot, seq |-> Sent(c) + i]
          BY <1>2, <2>3, <3>2 DEF QueueRuns
        <5> QED
          BY <5>1
      <4> QED
        BY <2>3, <4>1, PlaceTypes
    <3> QED
      BY <3>1, <3>2
  <2> QED
    BY <1>5, <2>1, <2>2, <2>3 DEF OnItsWay
<1> QED
    BY <1>3, <1>4, <1>5

\* An event is its run and its number.
LEMMA EventIs ==
    ASSUME NEW ev \in Events
    PROVE  ev = [boot |-> ev.boot, seq |-> ev.seq] /\ ev.boot \in Nat \ {0} /\ ev.seq \in Nat \ {0}
           /\ ev # NoEvent
BY StreamAssumption DEF Events, NoEvent

\* The buffer's bounds, and when an id of this run is too old for it.
LEMMA ResyncIs ==
    ASSUME DInv, NEW c \in Clients, lastId[c] > 0, lastId[c] <= nextSeq
    PROVE  Resync(lastId[c]) <=> Stale(c)
<1>1. /\ nextSeq \in Nat /\ nextSeq > 0 /\ lastId[c] \in Nat /\ Len(buffer) \in Nat
      /\ Len(buffer) <= nextSeq /\ buffer \in Seq(AnyEvent)
    BY PlaceTypes DEF DInv, IInv, BufferBounded
<1>2. buffer # <<>> /\ Len(buffer) > 0
    BY <1>1 DEF DInv, HistoryIsNumbered
<1>3. /\ buffer[1] = [boot |-> boot, seq |-> nextSeq - Len(buffer) + 1]
      /\ buffer[Len(buffer)] = [boot |-> boot, seq |-> nextSeq - Len(buffer) + Len(buffer)]
    BY <1>1, <1>2 DEF DInv, IInv, BufferIsLatest
<1>4. Oldest = nextSeq - Len(buffer) + 1 /\ Latest = nextSeq
    BY <1>1, <1>3 DEF Oldest, Latest
<1> QED
    BY <1>1, <1>2, <1>4 DEF Resync, Stale

\* A replay is the events from the id on to the latest, in order.
LEMMA ReplayIs ==
    ASSUME DInv, NEW c \in Clients, lastId[c] > 0, lastId[c] <= nextSeq, ~Stale(c)
    PROVE  /\ Replay(lastId[c]) \in Seq(Events)
           /\ Len(Replay(lastId[c])) = nextSeq - lastId[c]
           /\ \A i \in 1 .. (nextSeq - lastId[c]) :
                 Replay(lastId[c])[i] = [boot |-> boot, seq |-> lastId[c] + i]
<1>1. /\ nextSeq \in Nat /\ lastId[c] \in Nat /\ Len(buffer) \in Nat
      /\ Len(buffer) <= nextSeq /\ buffer \in Seq(Events)
    BY PlaceTypes DEF DInv, StreamTypeOK
<1>2. Replay(lastId[c]) = After(lastId[c])
    BY ResyncIs DEF Replay
<1>3. PICK k \in Nat : k = lastId[c] - (nextSeq - Len(buffer)) /\ k <= Len(buffer)
    BY <1>1 DEF Stale
<1>4. PICK L \in Nat : L = Len(buffer)
    BY <1>1
<1> DEFINE later == {i \in 1 .. Len(buffer) : buffer[i].seq > lastId[c]}
<1>5. later = (k + 1) .. L
  <2>1. \A i \in 1 .. L : buffer[i].seq = nextSeq - L + i
    <3>1. \A i \in 1 .. L : buffer[i] = [boot |-> boot, seq |-> nextSeq - L + i]
      BY <1>4 DEF DInv, IInv, BufferIsLatest
    <3>2. ASSUME NEW i \in 1 .. L PROVE buffer[i].seq = nextSeq - L + i
      <4>1. PICK m : m = nextSeq - L + i
        OBVIOUS
      <4>2. buffer[i] = [boot |-> boot, seq |-> m]
        BY <3>1, <3>2, <4>1
      <4> QED
        BY <4>1, <4>2
    <3> QED
      BY <3>2
  <2>2. \A i \in 1 .. L : buffer[i].seq > lastId[c] <=> i > k
    BY <1>1, <1>3, <1>4, <2>1
  <2> QED
    BY <1>3, <1>4, <2>2
<1>6. Cardinality(later) = L - k
  <2>1. Cardinality((k + 1) .. L) = IF k + 1 > L THEN 0 ELSE L - (k + 1) + 1
    BY FS_Interval, k + 1 \in Int, L \in Int
  <2>2. L - (k + 1) + 1 = L - k /\ (k + 1 > L => L - k = 0)
    BY <1>3, <1>4
  <2> QED
    BY <1>5, <2>1, <2>2
<1>7. \A i \in later : Cardinality({j \in later : j <= i}) = i - k
  <2> SUFFICES ASSUME NEW i \in later PROVE Cardinality({j \in later : j <= i}) = i - k
    OBVIOUS
  <2>1. i \in Nat /\ i > k /\ i <= L
    BY <1>3, <1>4, <1>5
  <2>2. {j \in later : j <= i} = (k + 1) .. i
    BY <1>3, <1>4, <1>5, <2>1
  <2>3. Cardinality((k + 1) .. i) = IF k + 1 > i THEN 0 ELSE i - (k + 1) + 1
    BY <2>1, FS_Interval, k + 1 \in Int, i \in Int
  <2>4. i - (k + 1) + 1 = i - k /\ ~(k + 1 > i)
    BY <2>1
  <2> QED
    BY <2>2, <2>3, <2>4
<1>8. \A n \in 1 .. (L - k) : (CHOOSE i \in later : Cardinality({j \in later : j <= i}) = n) = k + n
  <2> SUFFICES ASSUME NEW n \in 1 .. (L - k)
               PROVE  (CHOOSE i \in later : Cardinality({j \in later : j <= i}) = n) = k + n
    OBVIOUS
  <2>1. k + n \in later
    BY <1>3, <1>4, <1>5
  <2>2. \A i \in later : i \in Nat
    BY <1>3, <1>4, <1>5
  <2>3. \A i \in later : Cardinality({j \in later : j <= i}) = n <=> i = k + n
    BY <1>3, <1>7, <2>2
  <2> HIDE DEF later
  <2> QED
    BY <2>1, <2>3
<1>9. After(lastId[c]) = [n \in 1 .. (L - k) |-> buffer[k + n]]
  <2>1. After(lastId[c]) = [n \in 1 .. Cardinality(later) |->
           buffer[CHOOSE i \in later : Cardinality({j \in later : j <= i}) = n]]
    BY DEF After
  <2> HIDE DEF later
  <2> QED
    BY <1>6, <1>8, <2>1
<1>10. L - k = nextSeq - lastId[c] /\ L - k \in Nat
    BY <1>1, <1>3, <1>4
<1>11. \A n \in 1 .. (L - k) : /\ k + n \in 1 .. L
                               /\ nextSeq - L + (k + n) = lastId[c] + n
  <2>1. PICK a \in Nat, id \in Nat : a = nextSeq /\ id = lastId[c]
    BY <1>1
  <2>2. k = id - (a - L) /\ k <= L
    BY <1>3, <1>4, <2>1
  <2>3. \A n \in 1 .. (L - k) : k + n \in 1 .. L /\ a - L + (k + n) = id + n
    BY <2>2
  <2> QED
    BY <2>1, <2>3
<1>12. \A n \in 1 .. (L - k) : /\ buffer[k + n] \in Events
                               /\ buffer[k + n] = [boot |-> boot, seq |-> lastId[c] + n]
    BY <1>1, <1>4, <1>11 DEF DInv, IInv, BufferIsLatest
<1>13. PICK M \in Nat : M = L - k
    BY <1>10
<1>14. [n \in 1 .. M |-> buffer[k + n]] \in Seq(Events)
       /\ Len([n \in 1 .. M |-> buffer[k + n]]) = M
  <2>1. PICK f : f = [n \in 1 .. M |-> buffer[k + n]]
    OBVIOUS
  <2>2. f \in [1 .. M -> Events]
    BY <1>12, <1>13, <2>1
  <2>3. f \in Seq(Events)
    BY <2>2, SeqDef
  <2>4. Len(f) = M
    BY <2>2, <2>3, LenProperties
  <2> QED
    BY <2>1, <2>3, <2>4
<1>15. PICK rep : rep = Replay(lastId[c])
    OBVIOUS
<1>16. rep = [n \in 1 .. M |-> buffer[k + n]]
    BY <1>2, <1>9, <1>13, <1>15
<1>17. nextSeq - lastId[c] = M
    BY <1>10, <1>13
<1>18. \A n \in 1 .. M : rep[n] = [boot |-> boot, seq |-> lastId[c] + n]
    BY <1>12, <1>13, <1>16
<1> QED
    BY <1>14, <1>15, <1>16, <1>17, <1>18

-----------------------------------------------------------------------------
\* A fresh daemon.
LEMMA InitDInv == StreamInit => DInv
<1> SUFFICES ASSUME StreamInit PROVE DInv
    OBVIOUS
<1>1. IInv
    BY InitIInv
<1>2. StreamTypeOK
    BY StreamAssumption DEF StreamInit, StreamTypeOK, Quiet
<1>3. ClosedIsEmpty /\ HandsLatest /\ HistoryIsNumbered
    BY DEF StreamInit, ClosedIsEmpty, HandsLatest, HistoryIsNumbered, Quiet
<1>4. ASSUME NEW c \in Clients PROVE KeepsUp(c)
  <2>1. /\ Pending(c) = 0 /\ nextSeq = 0 /\ channel[c] = <<>> /\ outbox[c] = <<>>
        /\ lastId[c] = 0 /\ known[c] = {} /\ c \notin open
    BY DEF StreamInit, Pending, Quiet
  <2>2. ~Resyncs(c) /\ Live(c) = 0 /\ Sent(c) = 0
    <3>1. <<>> # <<NoEvent>> /\ Len(<<>>) = 0
      OBVIOUS
    <3>2. Len(channel[c]) = 0 /\ Len(outbox[c]) = 0 /\ ~Resyncs(c)
      BY <2>1, <3>1 DEF Resyncs
    <3>3. Live(c) = 0
      <4>1. nextSeq = 0 /\ Pending(c) = 0
        BY <2>1
      <4>2. Live(c) = 0 - 0 - 0
        BY <3>2, <4>1, Zenon DEF Live
      <4> QED
        BY <4>2
    <3> QED
      BY <3>2, <3>3 DEF Sent
  <2> QED
    BY <2>1, <2>2 DEF KeepsUp, QueueRuns, KnowsBefore, IdIsPlace
<1> QED
    BY <1>1, <1>2, <1>3, <1>4 DEF DInv

\* Every action keeps the types.
LEMMA NextTypes == DInv /\ [StreamNext]_eventVars => StreamTypeOK'
<1> SUFFICES ASSUME DInv, [StreamNext]_eventVars PROVE StreamTypeOK'
    OBVIOUS
<1>0. StreamTypeOK /\ IInv /\ IInv'
    BY NextIInv DEF DInv
<1>1. ASSUME NEW p \in Publishers, AppendEvent(p) PROVE StreamTypeOK'
  <2> DEFINE ev == [boot |-> boot, seq |-> nextSeq + 1]
  <2>1. ev \in Events /\ nextSeq' \in 0 .. MaxPublished
    BY <1>0, <1>1, StreamAssumption DEF StreamTypeOK, AppendEvent, Events
  <2>2. Append(buffer, ev) \in Seq(Events)
    BY <1>0, <2>1 DEF StreamTypeOK
  <2>3. buffer' \in Seq(Events)
    BY <1>1, <2>2, NewestIsSuffix, StreamAssumption DEF AppendEvent
  <2>4. Len(buffer') <= Capacity
    BY <1>0 DEF IInv, BufferBounded
  <2>5. pub' \in [Publishers -> [event : Events \cup {NoEvent}, to : SUBSET Clients]]
    BY <1>0, <1>1, <2>1 DEF StreamTypeOK, AppendEvent
  <2>6. history' \subseteq Events
    BY <1>0, <1>1, <2>1 DEF StreamTypeOK, AppendEvent
  <2> QED
    BY <1>0, <1>1, <2>1, <2>3, <2>4, <2>5, <2>6 DEF StreamTypeOK, AppendEvent, connVars
<1>2. ASSUME NEW p \in Publishers, NEW c \in Clients, Offer(p, c) PROVE StreamTypeOK'
  <2>1. pub[p].event \in Events
    <3>1. pub[p] # Quiet
      BY <1>2 DEF Offer, Quiet
    <3>2. pub[p].event = [boot |-> boot, seq |-> nextSeq] /\ nextSeq > 0
      BY <3>1 DEF DInv, HandsLatest
    <3> QED
      BY <1>0, <3>2, StreamAssumption DEF StreamTypeOK, Events
  <2>2. /\ channel' \in [Clients -> Seq(Events)]
        /\ \A d \in Clients : Len(channel'[d]) <= Capacity
    <3>1. CASE Len(channel[c]) < Capacity
      <4>1. channel' = [channel EXCEPT ![c] = Append(@, pub[p].event)]
        BY <1>2, <3>1 DEF Offer
      <4>2. Append(channel[c], pub[p].event) \in Seq(Events)
            /\ Len(Append(channel[c], pub[p].event)) = Len(channel[c]) + 1
        BY <1>0, <2>1 DEF StreamTypeOK
      <4>3. Len(channel[c]) + 1 <= Capacity
        BY <1>0, <3>1, StreamAssumption DEF StreamTypeOK
      <4> QED
        BY <1>0, <4>1, <4>2, <4>3 DEF StreamTypeOK
    <3>2. CASE ~(Len(channel[c]) < Capacity)
      BY <1>0, <1>2, <3>2 DEF StreamTypeOK, Offer
    <3> QED
      BY <3>1, <3>2
  <2>3. pub' \in [Publishers -> [event : Events \cup {NoEvent}, to : SUBSET Clients]]
    BY <1>0, <1>2 DEF StreamTypeOK, Offer
  <2>4. behind' \subseteq Clients
    BY <1>0, <1>2 DEF StreamTypeOK, Offer
  <2> QED
    BY <1>0, <1>2, <2>2, <2>3, <2>4 DEF StreamTypeOK, Offer, streamVars
<1>3. ASSUME NEW p \in Publishers, PublishDone(p) PROVE StreamTypeOK'
  <2>1. pub' \in [Publishers -> [event : Events \cup {NoEvent}, to : SUBSET Clients]]
    BY <1>0, <1>3 DEF StreamTypeOK, PublishDone, Quiet
  <2> QED
    BY <1>0, <1>3, <2>1 DEF StreamTypeOK, PublishDone, streamVars, connVars
<1>4. ASSUME NEW c \in Clients, Subscribe(c) PROVE StreamTypeOK'
  <2>1. outbox' \in [Clients -> Seq(Events \cup {NoEvent})]
    <3>1. Replay(lastId[c]) \in Seq(Events) \/ Resync(lastId[c])
      <4>1. lastId[c] \in Nat /\ nextSeq \in Nat
        BY PlaceTypes
      <4>2. CASE lastId[c] = 0
        BY <4>2 DEF Replay
      <4>3. CASE lastId[c] > nextSeq
        <5>1. CASE buffer = <<>>
          BY <4>1, <4>3, <5>1 DEF Resync
        <5>2. CASE buffer # <<>>
          <6>1. Len(buffer) \in Nat \ {0} /\ Len(buffer) <= nextSeq
            BY <5>2, <1>0 DEF StreamTypeOK, IInv, BufferBounded
          <6>2. buffer[Len(buffer)] = [boot |-> boot, seq |-> nextSeq - Len(buffer) + Len(buffer)]
            BY <1>0, <6>1 DEF IInv, BufferIsLatest
          <6>3. Latest = nextSeq
            BY <4>1, <6>1, <6>2 DEF Latest
          <6> QED
            BY <4>1, <4>3, <5>2, <6>3 DEF Resync
        <5> QED
          BY <5>1, <5>2
      <4>4. CASE lastId[c] > 0 /\ lastId[c] <= nextSeq
        BY <4>4, ResyncIs, ReplayIs
      <4> QED
        BY <4>1, <4>2, <4>3, <4>4
    <3>2. (IF Resync(lastId[c]) THEN <<NoEvent>> ELSE Replay(lastId[c]))
             \in Seq(Events \cup {NoEvent})
      <4>1. <<NoEvent>> \in Seq(Events \cup {NoEvent})
        OBVIOUS
      <4>2. Replay(lastId[c]) \in Seq(Events) => Replay(lastId[c]) \in Seq(Events \cup {NoEvent})
        BY SeqMonotonic
      <4> QED
        BY <3>1, <4>1, <4>2
    <3> QED
      BY <1>0, <1>4, <3>2 DEF StreamTypeOK, Subscribe
  <2>2. known' \in [Clients -> SUBSET Events]
    BY <1>0, <1>4 DEF StreamTypeOK, Subscribe
  <2>3. channel' \in [Clients -> Seq(Events)] /\ \A d \in Clients : Len(channel'[d]) <= Capacity
    BY <1>0, <1>4, StreamAssumption DEF StreamTypeOK, Subscribe
  <2> QED
    BY <1>0, <1>4, <2>1, <2>2, <2>3 DEF StreamTypeOK, Subscribe, streamVars
<1>5. ASSUME NEW c \in Clients, SendReplay(c) PROVE StreamTypeOK'
  <2>1. /\ Head(outbox[c]) \in Events \cup {NoEvent}
        /\ Tail(outbox[c]) \in Seq(Events \cup {NoEvent})
    BY <1>0, <1>5 DEF StreamTypeOK, SendReplay
  <2>2. outbox' \in [Clients -> Seq(Events \cup {NoEvent})]
    BY <1>0, <1>5, <2>1 DEF StreamTypeOK, SendReplay
  <2>3. /\ known' \in [Clients -> SUBSET Events]
        /\ lastId' \in [Clients -> 0 .. MaxPublished]
    <3>1. CASE Head(outbox[c]) = NoEvent
      BY <1>0, <1>5, <3>1 DEF StreamTypeOK, SendReplay, ReceiveResync
    <3>2. CASE Head(outbox[c]) # NoEvent
      <4>1. Head(outbox[c]) \in Events /\ Head(outbox[c]).seq \in 0 .. MaxPublished
        BY <2>1, <3>2 DEF Events
      <4> QED
        <5>1. Receive(c, Head(outbox[c]))
          BY <1>5, <3>2 DEF SendReplay
        <5>2. PICK e : e = Head(outbox[c])
          OBVIOUS
        <5> QED
          BY <1>0, <4>1, <5>1, <5>2 DEF StreamTypeOK, Receive
    <3> QED
      BY <3>1, <3>2
  <2> QED
    BY <1>0, <1>5, <2>2, <2>3 DEF StreamTypeOK, SendReplay, streamVars
<1>6. ASSUME NEW c \in Clients, SendLive(c) PROVE StreamTypeOK'
  <2>1. /\ Head(channel[c]) \in Events /\ Tail(channel[c]) \in Seq(Events)
        /\ Len(Tail(channel[c])) <= Capacity
    BY <1>0, <1>6, StreamAssumption DEF StreamTypeOK, SendLive
  <2>2. Head(channel[c]).seq \in 0 .. MaxPublished
    BY <2>1 DEF Events
  <2>3. /\ channel' \in [Clients -> Seq(Events)] /\ \A d \in Clients : Len(channel'[d]) <= Capacity
        /\ known' \in [Clients -> SUBSET Events]
        /\ lastId' \in [Clients -> 0 .. MaxPublished]
    BY <1>0, <1>6, <2>1, <2>2 DEF StreamTypeOK, SendLive, Receive
  <2> QED
    BY <1>0, <1>6, <2>3 DEF StreamTypeOK, SendLive, streamVars
<1>7. ASSUME NEW c \in Clients, Unsubscribe(c),
             UNCHANGED <<lastId, valid, history, known, behind>>, UNCHANGED streamVars,
             drops' \in 0 .. MaxDrops
      PROVE  StreamTypeOK'
  <2>1. pub' \in [Publishers -> [event : Events \cup {NoEvent}, to : SUBSET Clients]]
    BY <1>0, <1>7 DEF StreamTypeOK, Unsubscribe
  <2>2. /\ channel' \in [Clients -> Seq(Events)] /\ \A d \in Clients : Len(channel'[d]) <= Capacity
        /\ outbox' \in [Clients -> Seq(Events \cup {NoEvent})]
        /\ open' \subseteq Clients
    BY <1>0, <1>7, StreamAssumption DEF StreamTypeOK, Unsubscribe
  <2> QED
    BY <1>0, <1>7, <2>1, <2>2 DEF StreamTypeOK, streamVars
<1>8. ASSUME NEW c \in Clients, Revoke(c) PROVE StreamTypeOK'
    BY <1>0, <1>8 DEF StreamTypeOK, Revoke, streamVars, connVars
<1>9. ASSUME Restart PROVE StreamTypeOK'
    BY <1>0, <1>9, StreamAssumption DEF StreamTypeOK, Restart, Quiet
<1>10. CASE UNCHANGED eventVars
    BY <1>0, <1>10 DEF StreamTypeOK, eventVars
<1>11. ASSUME NEW c \in Clients, Disconnect(c) PROVE StreamTypeOK'
  <2>1. /\ Unsubscribe(c) /\ UNCHANGED <<lastId, valid, history, known, behind>> /\ UNCHANGED streamVars
        /\ drops > 0 /\ drops' = drops - 1
    BY <1>11 DEF Disconnect
  <2>2. drops' \in 0 .. MaxDrops
    BY <1>0, <2>1, StreamAssumption DEF StreamTypeOK
  <2> QED
    BY <1>7, <2>1, <2>2
<1>12. ASSUME NEW c \in Clients, RevocationTick(c) PROVE StreamTypeOK'
  <2>1. /\ Unsubscribe(c) /\ UNCHANGED <<lastId, valid, history, known, behind>> /\ UNCHANGED streamVars
        /\ drops' = drops
    BY <1>12 DEF RevocationTick
  <2>2. drops' \in 0 .. MaxDrops
    BY <1>0, <2>1 DEF StreamTypeOK
  <2> QED
    BY <1>7, <2>1, <2>2
<1> QED
    BY <1>1, <1>2, <1>3, <1>4, <1>5, <1>6, <1>8, <1>9, <1>10, <1>11, <1>12 DEF StreamNext, FanOut, Send

-----------------------------------------------------------------------------
\* Publishing: the event is after every open client's place; a closed client's
\* id stays where it is, or leaves the buffer.
LEMMA AppendKeeps ==
    ASSUME OnePublisher, DInv, StreamTypeOK', IInv', NEW p \in Publishers, AppendEvent(p)
    PROVE  DInv'
<1> DEFINE ev == [boot |-> boot, seq |-> nextSeq + 1]
           s  == Append(buffer, ev)
<1>1. /\ pub[p] = Quiet /\ boot' = boot /\ nextSeq' = nextSeq + 1
      /\ buffer' = Newest(s, Capacity) /\ history' = history \cup {ev}
      /\ pub' = [pub EXCEPT ![p] = [event |-> ev, to |-> open]]
      /\ open' = open /\ channel' = channel /\ outbox' = outbox
      /\ lastId' = lastId /\ known' = known /\ behind' = behind
    BY DEF AppendEvent, connVars
<1>2. /\ nextSeq \in Nat /\ boot \in Nat /\ Len(buffer) \in Nat /\ Len(buffer) <= nextSeq
      /\ buffer \in Seq(AnyEvent) /\ Capacity \in Nat \ {0} /\ open \subseteq Clients
      /\ pub \in [Publishers -> [event : Events \cup {NoEvent}, to : SUBSET Clients]]
    BY StreamAssumption DEF DInv, IInv, BufferBounded, StreamTypeOK
<1>3. /\ buffer' # <<>> /\ Len(buffer') \in Nat
      /\ nextSeq' - Len(buffer') >= nextSeq - Len(buffer)
  <2>1. ev \in AnyEvent
    BY <1>2 DEF AnyEvent
  <2>2. s \in Seq(AnyEvent) /\ Len(s) = Len(buffer) + 1
    BY <1>2, <2>1
  <2> HIDE DEF s, ev
  <2>3. /\ buffer' \in Seq(AnyEvent)
        /\ Len(buffer') = (IF Len(s) > Capacity THEN Capacity ELSE Len(s))
    BY <1>1, <1>2, <2>2, NewestIsSuffix
  <2>4. Len(buffer') \in Nat \ {0} /\ Len(buffer') <= Len(buffer) + 1
    BY <1>2, <2>2, <2>3
  <2>5. buffer' # <<>>
    BY <2>4
  <2> QED
    BY <1>1, <1>2, <2>4, <2>5
<1>4. pub'[p] = [event |-> ev, to |-> open] /\ \A q \in Publishers : q = p
    BY <1>1, <1>2 DEF OnePublisher
<1>5. \A c : Pending(c) = 0 /\ Pending(c)' = (IF c \in open THEN 1 ELSE 0)
  <2>1. \A c : ~(\E q \in Publishers : c \in pub[q].to)
    BY <1>1, <1>4 DEF Quiet
  <2>2. \A c : (\E q \in Publishers : c \in pub'[q].to) <=> c \in open
    BY <1>4
  <2> QED
    BY <2>1, <2>2 DEF Pending
<1>6. ClosedIsEmpty'
    BY <1>1, <1>4 DEF DInv, ClosedIsEmpty
<1>7. HandsLatest'
    BY <1>1, <1>2, <1>4 DEF HandsLatest
<1>8. HistoryIsNumbered'
  <2>1. ASSUME NEW k \in 1 .. nextSeq' PROVE [boot |-> boot', seq |-> k] \in history'
    <3>1. k \in 1 .. nextSeq \/ k = nextSeq + 1
      BY <1>1, <1>2, <2>1
    <3> QED
      BY <1>1, <3>1 DEF DInv, HistoryIsNumbered
  <2>2. ASSUME NEW e \in history' PROVE e.boot <= boot' /\ (e.boot = boot' => e.seq <= nextSeq')
    <3>1. CASE e = ev
      BY <1>1, <1>2, <3>1
    <3>2. CASE e \in history
      <4>1. e.seq \in Nat /\ e.boot <= boot /\ (e.boot = boot => e.seq <= nextSeq)
        BY <3>2, EventIs DEF DInv, StreamTypeOK, HistoryIsNumbered
      <4> QED
        BY <1>1, <1>2, <4>1
    <3> QED
      BY <1>1, <2>2, <3>1, <3>2
  <2> QED
    BY <1>3, <2>1, <2>2 DEF HistoryIsNumbered
<1>9. ASSUME NEW c \in Clients \ behind PROVE KeepsUp(c)'
  <2>1. /\ KeepsUp(c) /\ (Resyncs(c)' <=> Resyncs(c))
        /\ Len(channel[c]) \in Nat /\ Len(outbox[c]) \in Nat /\ lastId[c] \in Nat
        /\ Sent(c) \in Int /\ Live(c) \in Int
    BY <1>1, PlaceTypes DEF DInv, Resyncs
  <2>2. Stale(c) => Stale(c)'
    BY <1>1, <1>2, <1>3, <2>1 DEF Stale
  <2>3. ev \notin known[c] /\ \A e \in known[c] : e \in Events /\ e # ev
    <3>1. \A e \in history : e # ev
      <4>1. \A e \in history : e.boot = boot => e.seq <= nextSeq
        BY DEF DInv, HistoryIsNumbered
      <4>2. ~(nextSeq + 1 <= nextSeq) /\ ev.boot = boot /\ ev.seq = nextSeq + 1
        BY <1>2
      <4> QED
        BY <4>1, <4>2
    <3> QED
      BY <2>1, <3>1 DEF KeepsUp, KnowsBefore, DInv, StreamTypeOK
  <2>4. CASE c \in open
    <3>1. Live(c)' = Live(c)
      <4>1. Pending(c) = 0 /\ Pending(c)' = 1
        BY <1>5, <2>4
      <4>2. nextSeq' = nextSeq + 1 /\ channel' = channel
        BY <1>1
      <4>3. Live(c) = nextSeq - Len(channel[c]) - Pending(c)
        BY DEF Live
      <4>4. Live(c)' = nextSeq' - Len(channel'[c]) - Pending(c)'
        BY DEF Live
      <4>5. PICK a \in Nat, b \in Nat : a = nextSeq /\ b = Len(channel[c])
        BY <1>2, <2>1
      <4>6. Live(c) = a - b - 0
        BY <4>1, <4>3, <4>5, Zenon
      <4>7. Live(c)' = (a + 1) - b - 1
        BY <4>1, <4>2, <4>4, <4>5, Zenon
      <4>8. (a + 1) - b - 1 = a - b - 0
        OBVIOUS
      <4> QED
        BY <4>6, <4>7, <4>8
    <3>2. Sent(c)' = Sent(c)
      BY <1>1, <2>1, <3>1 DEF Sent
    <3>3. QueueRuns(c)'
      BY <1>1, <2>1, <3>1, <3>2 DEF KeepsUp, QueueRuns
    <3>4. KnowsBefore(c)'
      <4>1. known'[c] \subseteq history' /\ \A e \in known'[c] : e.boot = boot' => e.seq <= Sent(c)'
        BY <1>1, <2>1, <3>2 DEF KeepsUp, KnowsBefore
      <4>2. ASSUME ~Resyncs(c)', NEW k \in 1 .. nextSeq', k <= Sent(c)'
            PROVE  [boot |-> boot', seq |-> k] \in known'[c]
        <5>1. k <= Sent(c) /\ Sent(c) <= nextSeq
          BY <3>2, <4>2, PlaceTypes, <2>1, <1>2
        <5>2. k \in 1 .. nextSeq
          BY <1>1, <1>2, <2>1, <4>2, <5>1
        <5> QED
          BY <1>1, <2>1, <2>4, <4>2, <5>1, <5>2 DEF KeepsUp, KnowsBefore
      <4>3. \A e \in history' : e.boot # boot' => e \in known'[c]
        BY <1>1, <2>1, <2>4 DEF KeepsUp, KnowsBefore
      <4> QED
        BY <4>1, <4>2, <4>3 DEF KnowsBefore
    <3>5. IdIsPlace(c)'
      BY <1>1, <1>2, <2>1, <2>2, <2>4, <3>2 DEF KeepsUp, IdIsPlace
    <3> QED
      BY <3>3, <3>4, <3>5 DEF KeepsUp
  <2>5. CASE c \notin open
    <3>1. channel[c] = <<>> /\ outbox[c] = <<>> /\ ~Resyncs(c) /\ ~Resyncs(c)'
      BY <2>1, <2>5 DEF DInv, ClosedIsEmpty, Resyncs
    <3>2. Len(channel'[c]) = 0 /\ Len(outbox'[c]) = 0 /\ Pending(c)' = 0
      BY <1>1, <1>5, <2>5, <3>1
    <3>3. Live(c)' = nextSeq'
      BY <1>1, <1>2, <3>2 DEF Live
    <3>4. Sent(c)' = nextSeq'
      BY <1>1, <1>2, <3>1, <3>2, <3>3 DEF Sent
    <3>5. QueueRuns(c)'
      BY <1>1, <1>2, <3>2, <3>4 DEF QueueRuns
    <3>6. KnowsBefore(c)'
      <4>1. known'[c] \subseteq history'
        BY <1>1, <2>1 DEF KeepsUp, KnowsBefore
      <4>2. \A e \in known'[c] : e.boot = boot' => e.seq <= Sent(c)'
        BY <4>1, <1>8, <3>4 DEF HistoryIsNumbered
      <4>3. lastId'[c] > 0 => \A e \in history' : e.boot # boot' => e \in known'[c]
        BY <1>1, <2>1 DEF KeepsUp, KnowsBefore
      <4> QED
        BY <1>1, <2>5, <4>1, <4>2, <4>3 DEF KnowsBefore
    <3>7. IdIsPlace(c)'
      <4>1. lastId'[c] <= nextSeq'
        BY <1>1, <1>2, <2>1 DEF KeepsUp, IdIsPlace
      <4>2. ASSUME lastId'[c] > 0, ~Stale(c)', NEW k \in 1 .. nextSeq'
            PROVE  [boot |-> boot', seq |-> k] \in known'[c] <=> k <= lastId'[c]
        <5>1. k \in 1 .. nextSeq \/ k = nextSeq + 1
          BY <1>1, <1>2
        <5>2. CASE k \in 1 .. nextSeq
          BY <1>1, <2>1, <2>2, <2>5, <4>2, <5>2 DEF KeepsUp, IdIsPlace
        <5>3. CASE k = nextSeq + 1
          <6>1. lastId[c] <= nextSeq /\ ~(k <= lastId[c])
            BY <1>2, <2>1, <5>3 DEF KeepsUp, IdIsPlace
          <6> QED
            BY <1>1, <2>3, <5>3, <6>1
        <5> QED
          BY <5>1, <5>2, <5>3
      <4> QED
        BY <1>1, <2>5, <3>1, <4>1, <4>2 DEF IdIsPlace
    <3> QED
      BY <3>5, <3>6, <3>7 DEF KeepsUp
  <2> QED
    BY <2>4, <2>5
<1> QED
    BY <1>1, <1>6, <1>7, <1>8, <1>9 DEF DInv

\* Offering: what was in the publisher's hands is at the channel's end, or the
\* client has fallen behind.
LEMMA OfferKeeps ==
    ASSUME OnePublisher, DInv, StreamTypeOK', IInv', NEW p \in Publishers, NEW c \in Clients, Offer(p, c)
    PROVE  DInv'
<1>1. /\ c \in pub[p].to /\ pub' = [pub EXCEPT ![p].to = @ \ {c}] /\ UNCHANGED streamVars
      /\ open' = open /\ outbox' = outbox /\ lastId' = lastId /\ history' = history
      /\ known' = known /\ behind \subseteq behind'
    BY DEF Offer
<1>2. /\ pub \in [Publishers -> [event : Events \cup {NoEvent}, to : SUBSET Clients]]
      /\ channel \in [Clients -> Seq(Events)]
      /\ boot' = boot /\ nextSeq' = nextSeq /\ buffer' = buffer
    BY <1>1 DEF DInv, StreamTypeOK, streamVars
<1>3. /\ \A q \in Publishers : q = p
      /\ pub'[p] = [pub[p] EXCEPT !.to = @ \ {c}]
      /\ pub'[p].to = pub[p].to \ {c} /\ pub'[p].event = pub[p].event
      /\ pub[p] # Quiet
    BY <1>1, <1>2 DEF OnePublisher, Quiet
<1>4. c \in open
    BY <1>1 DEF DInv, ClosedIsEmpty
<1>5. \A d \in Clients : d # c => channel'[d] = channel[d]
    BY <1>2 DEF Offer
<1>6. ClosedIsEmpty'
  <2> SUFFICES ASSUME NEW d \in Clients \ open'
               PROVE  (outbox[d] = <<>> /\ channel[d] = <<>> /\ \A q \in Publishers : d \notin pub[q].to)'
    BY DEF ClosedIsEmpty
  <2>1. d # c /\ outbox[d] = <<>> /\ channel[d] = <<>> /\ d \notin pub[p].to
    BY <1>1, <1>4 DEF DInv, ClosedIsEmpty
  <2> QED
    BY <1>1, <1>3, <1>5, <2>1
<1>7. HandsLatest'
    BY <1>2, <1>3 DEF DInv, HandsLatest
<1>8. HistoryIsNumbered'
    BY <1>1, <1>2 DEF DInv, HistoryIsNumbered
<1>9. ASSUME NEW d \in Clients \ behind', d # c PROVE KeepsUp(d)'
  <2>1. KeepsUp(d)
    BY <1>1, <1>9 DEF DInv
  <2>2. (\E q \in Publishers : d \in pub'[q].to) <=> (\E q \in Publishers : d \in pub[q].to)
    BY <1>3, <1>9
  <2>3. Pending(d)' = Pending(d)
    BY <2>2 DEF Pending
  <2> QED
    BY <1>1, <1>5, <1>9, <2>1, <2>3, KeepsUpFrame
<1>10. ASSUME c \notin behind' PROVE KeepsUp(c)'
  <2>1. c \notin behind /\ KeepsUp(c)
    BY <1>1, <1>10 DEF DInv
  <2>2. channel' = [channel EXCEPT ![c] = Append(@, pub[p].event)]
    BY <1>10 DEF Offer
  <2>3. pub[p].event = [boot |-> boot, seq |-> nextSeq]
    BY <1>3 DEF DInv, HandsLatest
  <2>4. Pending(c) = 1 /\ Pending(c)' = 0
    BY <1>1, <1>3 DEF Pending
  <2>5. /\ channel'[c] = Append(channel[c], pub[p].event)
        /\ Len(channel'[c]) = Len(channel[c]) + 1
        /\ \A i \in 1 .. Len(channel[c]) : channel'[c][i] = channel[c][i]
        /\ channel'[c][Len(channel[c]) + 1] = pub[p].event
    <3>1. pub[p].event \in Events \cup {NoEvent} /\ channel[c] \in Seq(Events \cup {NoEvent})
      BY <1>2
    <3> QED
      BY <1>2, <2>2, <3>1
  <2>6. PICK a \in Nat, b \in Nat, l \in Int :
             a = nextSeq /\ b = Len(channel[c]) /\ l = Live(c)
    BY PlaceTypes
  <2>7. l = a - b - 1
    <3>1. Live(c) = nextSeq - Len(channel[c]) - Pending(c)
      BY DEF Live
    <3> QED
      BY <2>4, <2>6, <3>1, Zenon
  <2>8. Live(c)' = a - (b + 1) - 0
    <3>1. Live(c)' = nextSeq' - Len(channel'[c]) - Pending(c)'
      BY DEF Live
    <3> QED
      BY <1>2, <2>4, <2>5, <2>6, <3>1, Zenon
  <2>9. Live(c)' = Live(c) /\ l + (b + 1) = a
    <3>1. a - (b + 1) - 0 = a - b - 1 /\ (a - b - 1) + (b + 1) = a
      OBVIOUS
    <3>2. Live(c)' = Live(c)
      BY <2>6, <2>7, <2>8, <3>1, Zenon
    <3>3. l + (b + 1) = a
      BY <2>7, <3>1
    <3> QED
      BY <3>2, <3>3
  <2>10. (Resyncs(c)' <=> Resyncs(c)) /\ (Stale(c)' <=> Stale(c))
    BY <1>1, <1>2 DEF Resyncs, Stale
  <2>11. Sent(c)' = Sent(c)
    BY <1>1, <2>9, <2>10 DEF Sent
  <2>12. ASSUME NEW i \in 1 .. Len(channel'[c])
         PROVE  channel'[c][i] = [boot |-> boot', seq |-> Live(c)' + i]
    <3>1. i \in 1 .. b \/ i = b + 1
      BY <2>5, <2>6
    <3>2. CASE i \in 1 .. b
      BY <1>2, <2>1, <2>5, <2>6, <2>9, <3>2 DEF KeepsUp, QueueRuns
    <3>3. CASE i = b + 1
      BY <1>2, <2>3, <2>5, <2>6, <2>9, <3>3
    <3> QED
      BY <3>1, <3>2, <3>3
  <2>13. QueueRuns(c)'
    BY <1>1, <1>2, <2>1, <2>10, <2>11, <2>12 DEF KeepsUp, QueueRuns
  <2>14. KnowsBefore(c)' /\ IdIsPlace(c)'
    BY <1>1, <1>2, <2>1, <2>10, <2>11 DEF KeepsUp, KnowsBefore, IdIsPlace
  <2> QED
    BY <2>13, <2>14 DEF KeepsUp
<1> QED
    BY <1>6, <1>7, <1>8, <1>9, <1>10 DEF DInv

\* A fan-out that is over, and steps that leave the connections alone.
LEMMA QuietKeeps ==
    ASSUME DInv, StreamTypeOK', IInv', UNCHANGED streamVars, UNCHANGED connVars,
           UNCHANGED <<lastId, history, known, behind>>,
           \A q \in Publishers : pub'[q] = pub[q] \/ (pub'[q] = Quiet /\ pub[q].to = {})
    PROVE  DInv'
<1>1. /\ boot' = boot /\ nextSeq' = nextSeq /\ buffer' = buffer
      /\ open' = open /\ channel' = channel /\ outbox' = outbox
      /\ \A q \in Publishers : pub'[q].to = pub[q].to
    BY DEF streamVars, connVars, Quiet
<1>2. ClosedIsEmpty' /\ HandsLatest' /\ HistoryIsNumbered'
    BY <1>1 DEF DInv, ClosedIsEmpty, HandsLatest, HistoryIsNumbered
<1>3. ASSUME NEW d \in Clients \ behind' PROVE KeepsUp(d)'
  <2>1. Pending(d)' = Pending(d)
    BY <1>1 DEF Pending
  <2> QED
    BY <1>1, <2>1, KeepsUpFrame DEF DInv
<1> QED
    BY <1>2, <1>3 DEF DInv

\* A client comes: it is given what is after its id, or a resync, or it just
\* opened the show.
LEMMA SubscribeKeeps ==
    ASSUME DInv, StreamTypeOK', IInv', NEW c \in Clients, Subscribe(c)
    PROVE  DInv'
<1>1. /\ c \notin open /\ open' = open \cup {c} /\ UNCHANGED streamVars
      /\ channel' = [channel EXCEPT ![c] = <<>>]
      /\ outbox' = [outbox EXCEPT ![c] =
                       IF Resync(lastId[c]) THEN <<NoEvent>> ELSE Replay(lastId[c])]
      /\ known' = [known EXCEPT ![c] = IF lastId[c] = 0 THEN history ELSE @]
      /\ pub' = pub /\ lastId' = lastId /\ history' = history /\ behind' = behind
    BY DEF Subscribe
<1>2. /\ boot' = boot /\ nextSeq' = nextSeq /\ buffer' = buffer
      /\ \A d \in Clients : d # c => /\ channel'[d] = channel[d] /\ outbox'[d] = outbox[d]
                                     /\ known'[d] = known[d]
      /\ channel'[c] = <<>>
      /\ outbox'[c] = (IF Resync(lastId[c]) THEN <<NoEvent>> ELSE Replay(lastId[c]))
      /\ known'[c] = (IF lastId[c] = 0 THEN history ELSE known[c])
    BY <1>1 DEF DInv, StreamTypeOK, streamVars
<1>3. ClosedIsEmpty' /\ HandsLatest' /\ HistoryIsNumbered'
    BY <1>1, <1>2 DEF DInv, ClosedIsEmpty, HandsLatest, HistoryIsNumbered
<1>4. ASSUME NEW d \in Clients \ behind', d # c PROVE KeepsUp(d)'
  <2>1. Pending(d)' = Pending(d)
    BY <1>1 DEF Pending
  <2> QED
    BY <1>1, <1>2, <1>4, <2>1, KeepsUpFrame DEF DInv
<1>5. ASSUME c \notin behind PROVE KeepsUp(c)'
  <2>1. KeepsUp(c) /\ lastId[c] \in Nat /\ nextSeq \in Nat /\ lastId[c] <= nextSeq
    BY <1>5, PlaceTypes DEF DInv, KeepsUp, IdIsPlace
  <2>2. Pending(c)' = 0 /\ Len(channel'[c]) = 0
    BY <1>1, <1>2 DEF DInv, ClosedIsEmpty, Pending
  <2>3. Live(c)' = nextSeq
    <3>1. Live(c)' = nextSeq' - Len(channel'[c]) - Pending(c)'
      BY DEF Live
    <3>2. PICK a \in Nat : a = nextSeq
      BY <2>1
    <3>3. Live(c)' = a - 0 - 0
      BY <1>2, <2>2, <3>1, <3>2, Zenon
    <3> QED
      BY <3>2, <3>3
  <2>4. \A ev \in history : ev.boot = boot => ev.seq <= nextSeq
    BY DEF DInv, HistoryIsNumbered
  <2>5. Stale(c)' <=> Stale(c)
    BY <1>1, <1>2 DEF Stale
  <2>6. known[c] \subseteq history
    BY <2>1 DEF KeepsUp, KnowsBefore
  <2>7. CASE lastId[c] = 0
    <3>1. outbox'[c] = <<>> /\ known'[c] = history
      BY <1>2, <2>7 DEF Resync, Replay
    <3>2. ~Resyncs(c)' /\ Len(outbox'[c]) = 0
      BY <3>1 DEF Resyncs
    <3>3. Sent(c)' = nextSeq
      BY <2>1, <2>3, <3>2 DEF Sent
    <3>4. QueueRuns(c)'
      BY <1>2, <2>1, <2>2, <3>2, <3>3 DEF QueueRuns
    <3>5. KnowsBefore(c)'
      BY <1>1, <1>2, <2>4, <3>1, <3>3 DEF KnowsBefore, DInv, HistoryIsNumbered
    <3>6. IdIsPlace(c)'
      BY <1>1, <1>2, <2>1, <2>7, <3>2 DEF IdIsPlace
    <3> QED
      BY <3>4, <3>5, <3>6 DEF KeepsUp
  <2>8. CASE lastId[c] > 0 /\ Stale(c)
    <3>1. outbox'[c] = <<NoEvent>> /\ known'[c] = known[c]
      BY <1>2, <2>1, <2>8, ResyncIs
    <3>2. Resyncs(c)' /\ Sent(c)' = nextSeq
      BY <2>3, <3>1 DEF Resyncs, Sent
    <3>3. QueueRuns(c)'
      BY <1>2, <2>1, <2>2, <3>2 DEF QueueRuns
    <3>4. KnowsBefore(c)'
      <4>1. \A ev \in known[c] : ev.boot = boot => ev.seq <= nextSeq
        BY <2>4, <2>6
      <4>2. \A ev \in history : ev.boot # boot => ev \in known[c]
        BY <2>1, <2>8 DEF KeepsUp, KnowsBefore
      <4> QED
        BY <1>1, <1>2, <2>6, <3>1, <3>2, <4>1, <4>2 DEF KnowsBefore
    <3>5. IdIsPlace(c)'
      BY <1>1, <1>2, <2>1, <2>5, <2>8 DEF IdIsPlace
    <3> QED
      BY <3>3, <3>4, <3>5 DEF KeepsUp
  <2>9. CASE lastId[c] > 0 /\ ~Stale(c)
    <3>1. outbox'[c] = Replay(lastId[c]) /\ known'[c] = known[c]
      BY <1>2, <2>1, <2>9, ResyncIs
    <3>2. PICK id \in Nat, a \in Nat : id = lastId[c] /\ a = nextSeq /\ id <= a
      BY <2>1
    <3>3. /\ Len(outbox'[c]) = a - id
          /\ \A i \in 1 .. (a - id) : outbox'[c][i] = [boot |-> boot, seq |-> id + i]
      BY <2>1, <2>9, <3>1, <3>2, ReplayIs
    <3>4. ~Resyncs(c)'
      <4>1. SUFFICES ASSUME outbox'[c] = <<NoEvent>> PROVE FALSE
        BY DEF Resyncs
      <4>2. Len(outbox'[c]) = 1 /\ outbox'[c][1] = NoEvent
        BY <4>1
      <4>3. 1 \in 1 .. (a - id)
        BY <3>3, <4>2
      <4>4. NoEvent = [boot |-> boot, seq |-> id + 1]
        BY <3>3, <4>2, <4>3
      <4>5. boot = 0
        BY <4>4 DEF NoEvent
      <4> QED
        BY <4>5, PlaceTypes
    <3>5. Sent(c)' = id
      <4>1. Sent(c)' = Live(c)' - Len(outbox'[c])
        BY <3>4 DEF Sent
      <4>2. Sent(c)' = a - (a - id)
        BY <2>3, <3>2, <3>3, <4>1, Zenon
      <4> QED
        BY <4>2
    <3>6. QueueRuns(c)'
      <4>1. \A i \in 1 .. Len(outbox'[c]) : outbox'[c][i] = [boot |-> boot', seq |-> Sent(c)' + i]
        BY <1>2, <3>3, <3>5
      <4> QED
        BY <2>2, <3>5, <4>1 DEF QueueRuns
    <3>7. \A k \in 1 .. nextSeq : [boot |-> boot, seq |-> k] \in known[c] <=> k <= id
      BY <1>1, <2>1, <2>9, <3>2 DEF KeepsUp, IdIsPlace
    <3>8. KnowsBefore(c)'
      <4>1. ASSUME NEW ev \in known[c], ev.boot = boot PROVE ev.seq <= id
        <5>1. ev = [boot |-> boot, seq |-> ev.seq] /\ ev.seq \in Nat \ {0} /\ ev.seq <= nextSeq
          BY <2>4, <2>6, <4>1, EventIs DEF DInv, StreamTypeOK
        <5>2. ev.seq \in 1 .. nextSeq
          BY <2>1, <5>1
        <5> QED
          BY <3>7, <5>1, <5>2
      <4>2. \A ev \in history : ev.boot # boot => ev \in known[c]
        BY <2>1, <2>9 DEF KeepsUp, KnowsBefore
      <4> QED
        BY <1>1, <1>2, <2>6, <3>1, <3>5, <3>7, <4>1, <4>2 DEF KnowsBefore
    <3>9. IdIsPlace(c)'
      BY <1>1, <1>2, <2>1, <3>2, <3>4, <3>5 DEF IdIsPlace
    <3> QED
      BY <3>6, <3>8, <3>9 DEF KeepsUp
  <2> QED
    BY <2>1, <2>7, <2>8, <2>9
<1> QED
    BY <1>1, <1>3, <1>4, <1>5 DEF DInv

\* A replayed event or a resync is sent: the client's place moves by one, or is
\* where the resync took it.
LEMMA SendReplayKeeps ==
    ASSUME DInv, StreamTypeOK', IInv', NEW c \in Clients, SendReplay(c)
    PROVE  DInv'
<1>1. /\ c \in open /\ outbox[c] # <<>> /\ UNCHANGED streamVars
      /\ outbox' = [outbox EXCEPT ![c] = Tail(@)]
      /\ open' = open /\ channel' = channel /\ pub' = pub /\ history' = history /\ behind' = behind
    BY DEF SendReplay
<1>2. /\ boot' = boot /\ nextSeq' = nextSeq /\ buffer' = buffer
      /\ outbox \in [Clients -> Seq(Events \cup {NoEvent})]
      /\ outbox'[c] = Tail(outbox[c])
      /\ \A d \in Clients : d # c => /\ outbox'[d] = outbox[d] /\ known'[d] = known[d]
                                     /\ lastId'[d] = lastId[d]
    BY <1>1 DEF DInv, StreamTypeOK, streamVars, SendReplay, Receive, ReceiveResync
<1>3. ClosedIsEmpty' /\ HandsLatest' /\ HistoryIsNumbered'
    BY <1>1, <1>2 DEF DInv, ClosedIsEmpty, HandsLatest, HistoryIsNumbered
<1>4. \A d : Pending(d)' = Pending(d)
    BY <1>1 DEF Pending
<1>5. ASSUME NEW d \in Clients \ behind', d # c PROVE KeepsUp(d)'
    BY <1>1, <1>2, <1>4, <1>5, KeepsUpFrame DEF DInv
<1>6. ASSUME c \notin behind PROVE KeepsUp(c)'
  <2>1. /\ KeepsUp(c) /\ lastId[c] \in Nat /\ nextSeq \in Nat /\ Live(c) \in Int /\ Sent(c) \in Int
        /\ Sent(c) <= Live(c) /\ Live(c) <= nextSeq
    BY <1>6, PlaceTypes DEF DInv
  <2>2. Live(c)' = Live(c)
    BY <1>1, <1>2, <1>4 DEF Live
  <2>3. /\ Len(outbox[c]) \in Nat \ {0} /\ Len(outbox'[c]) = Len(outbox[c]) - 1
        /\ Head(outbox[c]) = outbox[c][1]
        /\ \A i \in 1 .. Len(outbox'[c]) : outbox'[c][i] = outbox[c][i + 1]
    BY <1>1, <1>2
  <2>4. CASE Resyncs(c)
    <3>1. Head(outbox[c]) = NoEvent /\ outbox'[c] = <<>>
      BY <1>2, <2>4 DEF Resyncs
    <3>2. /\ lastId' = lastId
          /\ known'[c] = known[c] \cup {ev \in history : ~OnItsWay(c, ev)}
      BY <3>1 DEF SendReplay, ReceiveResync, DInv, StreamTypeOK
    <3>3. ~Resyncs(c)' /\ Len(outbox'[c]) = 0
      BY <3>1 DEF Resyncs
    <3>4. Sent(c) = Live(c) /\ Sent(c)' = Sent(c)
      BY <2>1, <2>2, <2>4, <3>3 DEF Sent
    <3>5. QueueRuns(c)'
      BY <1>1, <1>2, <2>1, <2>2, <3>3, <3>4 DEF KeepsUp, QueueRuns
    <3>6. KnowsBefore(c)'
      <4>1. known'[c] \subseteq history'
        BY <1>1, <2>1, <3>2 DEF KeepsUp, KnowsBefore
      <4>2. ASSUME NEW ev \in known'[c], ev.boot = boot PROVE ev.seq <= Sent(c)
        <5>1. CASE ev \in known[c]
          BY <2>1, <4>2, <5>1 DEF KeepsUp, KnowsBefore
        <5>2. CASE ev \in history /\ ~OnItsWay(c, ev)
          <6>1. ~(ev.seq > Live(c)) /\ ev.seq \in Nat
            BY <1>1, <1>6, <4>2, <5>2, OnItsWayIs, EventIs DEF DInv, StreamTypeOK
          <6> QED
            BY <2>1, <3>4, <6>1
        <5> QED
          BY <3>2, <4>2, <5>1, <5>2
      <4>3. ASSUME NEW k \in 1 .. nextSeq, k <= Sent(c)
            PROVE  [boot |-> boot, seq |-> k] \in known'[c]
        <5>1. PICK ev : ev = [boot |-> boot, seq |-> k]
          OBVIOUS
        <5>2. ev \in history /\ ev.boot = boot /\ ev.seq = k
          BY <5>1 DEF DInv, HistoryIsNumbered
        <5>3. ~OnItsWay(c, ev)
          <6>1. ~(k > Sent(c))
            BY <2>1, <4>3
          <6> QED
            BY <1>1, <1>6, <5>2, <6>1, OnItsWayIs
        <5> QED
          BY <3>2, <5>1, <5>2, <5>3
      <4>4. \A ev \in history : ev.boot # boot => ev \in known'[c]
        BY <1>1, <2>1, <3>2 DEF KeepsUp, KnowsBefore
      <4> QED
        BY <1>1, <1>2, <3>4, <4>1, <4>2, <4>3, <4>4 DEF KnowsBefore
    <3>7. IdIsPlace(c)'
      <4>1. Stale(c)'
        BY <1>2, <2>1, <2>4, <3>2 DEF KeepsUp, IdIsPlace, Stale
      <4> QED
        BY <1>2, <2>1, <3>2, <3>3, <4>1 DEF KeepsUp, IdIsPlace
    <3> QED
      BY <3>5, <3>6, <3>7 DEF KeepsUp
  <2>5. CASE ~Resyncs(c)
    <3>1. \A i \in 1 .. Len(outbox[c]) : outbox[c][i] = [boot |-> boot, seq |-> Sent(c) + i]
      BY <2>1, <2>5 DEF KeepsUp, QueueRuns
    <3>2. PICK m \in Nat, n \in Nat \ {0} : m = Sent(c) /\ n = Len(outbox[c])
      BY <2>1, <2>3 DEF KeepsUp, QueueRuns
    <3>3. PICK ev : ev = [boot |-> boot, seq |-> m + 1]
      OBVIOUS
    <3>4. Head(outbox[c]) = ev /\ ev # NoEvent
      <4>1. 1 \in 1 .. n
        BY <3>2
      <4>2. boot # 0
        BY PlaceTypes
      <4>3. Head(outbox[c]) = ev
        BY <2>3, <3>1, <3>2, <3>3, <4>1
      <4> QED
        BY <3>3, <4>2, <4>3 DEF NoEvent
    <3>5. lastId'[c] = m + 1 /\ known'[c] = known[c] \cup {ev}
      <4>1. Receive(c, ev)
        BY <3>4 DEF SendReplay
      <4> QED
        BY <3>3, <4>1 DEF Receive, DInv, StreamTypeOK
    <3>6. \A i \in 1 .. Len(outbox'[c]) : outbox'[c][i] = [boot |-> boot, seq |-> (m + 1) + i]
      <4>1. \A i \in 1 .. (n - 1) : i + 1 \in 1 .. n /\ m + (i + 1) = (m + 1) + i
        OBVIOUS
      <4> QED
        BY <2>3, <3>1, <3>2, <4>1
    <3>7. ~Resyncs(c)'
      <4>1. SUFFICES ASSUME outbox'[c] = <<NoEvent>> PROVE FALSE
        BY DEF Resyncs
      <4>2. Len(outbox'[c]) = 1 /\ outbox'[c][1] = NoEvent
        BY <4>1
      <4>3. NoEvent = [boot |-> boot, seq |-> (m + 1) + 1]
        BY <3>6, <4>2
      <4>4. boot = 0
        BY <4>3 DEF NoEvent
      <4> QED
        BY <4>4, PlaceTypes
    <3>8. Sent(c)' = m + 1
      <4>1. Sent(c) = Live(c) - Len(outbox[c]) /\ Sent(c)' = Live(c)' - Len(outbox'[c])
        BY <2>5, <3>7 DEF Sent
      <4>2. PICK l \in Int : l = Live(c)
        BY <2>1
      <4>3. m = l - n
        BY <3>2, <4>1, <4>2
      <4>4. Sent(c)' = l - (n - 1)
        BY <2>2, <2>3, <3>2, <4>1, <4>2, Zenon
      <4> QED
        BY <4>3, <4>4
    <3>9. m + 1 <= nextSeq
      <4>1. m = Live(c) - n
        BY <2>5, <3>2 DEF Sent
      <4> QED
        BY <2>1, <3>2, <4>1
    <3>10. QueueRuns(c)'
      BY <1>1, <1>2, <2>1, <2>2, <3>6, <3>8 DEF KeepsUp, QueueRuns
    <3>11. KnowsBefore(c)'
      <4>1. known'[c] \subseteq history
        <5>1. m + 1 \in 1 .. nextSeq
          BY <2>1, <3>2, <3>9
        <5> QED
          BY <2>1, <3>3, <3>5, <5>1 DEF KeepsUp, KnowsBefore, DInv, HistoryIsNumbered
      <4>2. ASSUME NEW e \in known'[c], e.boot = boot PROVE e.seq <= m + 1
        <5>1. CASE e = ev
          BY <3>3, <5>1
        <5>2. CASE e \in known[c]
          <6>1. e.seq <= m /\ e.seq \in Nat
            BY <2>1, <3>2, <4>2, <5>2, EventIs DEF KeepsUp, KnowsBefore, DInv, StreamTypeOK
          <6> QED
            BY <6>1
        <5> QED
          BY <3>5, <4>2, <5>1, <5>2
      <4>3. ASSUME NEW k \in 1 .. nextSeq, k <= m + 1
            PROVE  [boot |-> boot, seq |-> k] \in known'[c]
        <5>1. k <= m \/ k = m + 1
          BY <2>1, <4>3
        <5> QED
          BY <1>1, <2>1, <2>5, <3>2, <3>3, <3>5, <5>1 DEF KeepsUp, KnowsBefore
      <4>4. \A e \in history : e.boot # boot => e \in known'[c]
        BY <1>1, <2>1, <3>5 DEF KeepsUp, KnowsBefore
      <4> QED
        BY <1>1, <1>2, <3>8, <4>1, <4>2, <4>3, <4>4 DEF KnowsBefore
    <3>12. IdIsPlace(c)'
      BY <1>1, <1>2, <3>5, <3>7, <3>8, <3>9 DEF IdIsPlace
    <3> QED
      BY <3>10, <3>11, <3>12 DEF KeepsUp
  <2> QED
    BY <2>4, <2>5
<1> QED
    BY <1>1, <1>3, <1>5, <1>6 DEF DInv

\* A live event is sent: the client's place moves by one.
LEMMA SendLiveKeeps ==
    ASSUME DInv, StreamTypeOK', IInv', NEW c \in Clients, SendLive(c)
    PROVE  DInv'
<1>1. /\ c \in open /\ outbox[c] = <<>> /\ channel[c] # <<>> /\ UNCHANGED streamVars
      /\ Receive(c, Head(channel[c])) /\ channel' = [channel EXCEPT ![c] = Tail(@)]
      /\ open' = open /\ outbox' = outbox /\ pub' = pub /\ history' = history /\ behind' = behind
    BY DEF SendLive
<1>2. /\ boot' = boot /\ nextSeq' = nextSeq /\ buffer' = buffer
      /\ channel \in [Clients -> Seq(Events)] /\ channel'[c] = Tail(channel[c])
      /\ \A d \in Clients : d # c => /\ channel'[d] = channel[d] /\ known'[d] = known[d]
                                     /\ lastId'[d] = lastId[d]
    BY <1>1 DEF DInv, StreamTypeOK, streamVars, Receive
<1>3. ClosedIsEmpty' /\ HandsLatest' /\ HistoryIsNumbered'
    BY <1>1, <1>2 DEF DInv, ClosedIsEmpty, HandsLatest, HistoryIsNumbered
<1>4. \A d : Pending(d)' = Pending(d)
    BY <1>1 DEF Pending
<1>5. ASSUME NEW d \in Clients \ behind', d # c PROVE KeepsUp(d)'
    BY <1>1, <1>2, <1>4, <1>5, KeepsUpFrame DEF DInv
<1>6. ASSUME c \notin behind PROVE KeepsUp(c)'
  <2>1. /\ KeepsUp(c) /\ nextSeq \in Nat /\ Live(c) \in Int /\ Pending(c) \in {0, 1}
    BY <1>6, PlaceTypes DEF DInv
  <2>2. /\ Len(channel[c]) \in Nat \ {0} /\ Len(channel'[c]) = Len(channel[c]) - 1
        /\ Head(channel[c]) = channel[c][1]
        /\ \A i \in 1 .. Len(channel'[c]) : channel'[c][i] = channel[c][i + 1]
    BY <1>1, <1>2
  <2>3. ~Resyncs(c) /\ ~Resyncs(c)' /\ Len(outbox[c]) = 0 /\ Len(outbox'[c]) = 0
    <3>1. outbox[c] = <<>> /\ outbox'[c] = <<>>
      BY <1>1
    <3> QED
      BY <3>1 DEF Resyncs
  <2>4. Sent(c) = Live(c)
    <3>1. Sent(c) = Live(c) - 0
      BY <2>3 DEF Sent
    <3> QED
      BY <2>1, <3>1
  <2>5. PICK m \in Nat, n \in Nat \ {0}, a \in Nat, b \in Nat :
            m = Sent(c) /\ n = Len(channel[c]) /\ a = nextSeq /\ b = Pending(c)
    <3>1. Sent(c) \in Nat
      BY <2>1, <2>4 DEF KeepsUp, QueueRuns
    <3>2. Pending(c) \in Nat
      BY <2>1
    <3> QED
      BY <2>1, <2>2, <3>1, <3>2
  <2>6. m = a - n - b /\ m + 1 <= a
    <3>1. m = a - n - b
      BY <2>4, <2>5 DEF Live
    <3> QED
      BY <3>1
  <2>7. Live(c)' = m + 1
    <3>1. Live(c)' = nextSeq' - Len(channel'[c]) - Pending(c)'
      BY DEF Live
    <3>2. Live(c)' = a - (n - 1) - b
      BY <1>2, <1>4, <2>2, <2>5, <3>1, Zenon
    <3> QED
      BY <2>6, <3>2
  <2>8. Sent(c)' = m + 1
    <3>1. Sent(c)' = (m + 1) - 0
      BY <2>3, <2>7 DEF Sent
    <3> QED
      BY <3>1
  <2>9. PICK ev : ev = [boot |-> boot, seq |-> m + 1]
    OBVIOUS
  <2>10. \A i \in 1 .. n : channel[c][i] = [boot |-> boot, seq |-> m + i]
    BY <2>1, <2>4, <2>5 DEF KeepsUp, QueueRuns
  <2>11. Head(channel[c]) = ev
    <3>1. 1 \in 1 .. n
      OBVIOUS
    <3> QED
      BY <2>2, <2>9, <2>10, <3>1
  <2>12. lastId'[c] = m + 1 /\ known'[c] = known[c] \cup {ev}
    BY <1>1, <2>9, <2>11 DEF Receive, DInv, StreamTypeOK
  <2>13. \A i \in 1 .. Len(channel'[c]) : channel'[c][i] = [boot |-> boot, seq |-> (m + 1) + i]
    <3>1. \A i \in 1 .. (n - 1) : i + 1 \in 1 .. n /\ m + (i + 1) = (m + 1) + i
      OBVIOUS
    <3> QED
      BY <2>2, <2>5, <2>10, <3>1
  <2>14. QueueRuns(c)'
    BY <1>1, <1>2, <2>3, <2>7, <2>8, <2>13 DEF QueueRuns
  <2>15. KnowsBefore(c)'
    <3>1. known'[c] \subseteq history
      <4>1. m + 1 \in 1 .. nextSeq
        BY <2>5, <2>6
      <4> QED
        BY <2>1, <2>9, <2>12, <4>1 DEF KeepsUp, KnowsBefore, DInv, HistoryIsNumbered
    <3>2. ASSUME NEW e \in known'[c], e.boot = boot PROVE e.seq <= m + 1
      <4>1. CASE e = ev
        BY <2>9, <4>1
      <4>2. CASE e \in known[c]
        <5>1. e.seq <= m /\ e.seq \in Nat
          BY <2>1, <2>5, <3>2, <4>2, EventIs DEF KeepsUp, KnowsBefore, DInv, StreamTypeOK
        <5> QED
          BY <5>1
      <4> QED
        BY <2>12, <3>2, <4>1, <4>2
    <3>3. ASSUME NEW k \in 1 .. nextSeq, k <= m + 1
          PROVE  [boot |-> boot, seq |-> k] \in known'[c]
      <4>1. k <= m \/ k = m + 1
        BY <2>1, <3>3
      <4> QED
        BY <1>1, <2>1, <2>3, <2>5, <2>9, <2>12, <4>1 DEF KeepsUp, KnowsBefore
    <3>4. \A e \in history : e.boot # boot => e \in known'[c]
      BY <1>1, <2>1, <2>12 DEF KeepsUp, KnowsBefore
    <3> QED
      BY <1>1, <1>2, <2>8, <3>1, <3>2, <3>3, <3>4 DEF KnowsBefore
  <2>16. IdIsPlace(c)'
    BY <1>1, <1>2, <2>3, <2>5, <2>6, <2>8, <2>12 DEF IdIsPlace
  <2> QED
    BY <2>14, <2>15, <2>16 DEF KeepsUp
<1> QED
    BY <1>1, <1>3, <1>5, <1>6 DEF DInv

\* A connection ends: the id the client would come back with is its place, or
\* one that will be resynced.
LEMMA UnsubscribeKeeps ==
    ASSUME DInv, StreamTypeOK', IInv', NEW c \in Clients, c \in open, Unsubscribe(c),
           UNCHANGED streamVars, UNCHANGED <<lastId, history, known, behind>>
    PROVE  DInv'
<1>1. /\ open' = open \ {c} /\ channel' = [channel EXCEPT ![c] = <<>>]
      /\ outbox' = [outbox EXCEPT ![c] = <<>>]
      /\ pub' = [p \in Publishers |-> [pub[p] EXCEPT !.to = @ \ {c}]]
      /\ boot' = boot /\ nextSeq' = nextSeq /\ buffer' = buffer
      /\ lastId' = lastId /\ history' = history /\ known' = known /\ behind' = behind
    BY DEF Unsubscribe, streamVars
<1>2. /\ channel'[c] = <<>> /\ outbox'[c] = <<>>
      /\ \A d \in Clients : d # c => channel'[d] = channel[d] /\ outbox'[d] = outbox[d]
      /\ pub \in [Publishers -> [event : Events \cup {NoEvent}, to : SUBSET Clients]]
    BY <1>1 DEF DInv, StreamTypeOK
<1>3. \A p \in Publishers : /\ pub'[p].to = pub[p].to \ {c} /\ pub'[p].event = pub[p].event
                            /\ pub[p] = Quiet => pub'[p] = Quiet
  <2> SUFFICES ASSUME NEW p \in Publishers
               PROVE  /\ pub'[p].to = pub[p].to \ {c} /\ pub'[p].event = pub[p].event
                      /\ pub[p] = Quiet => pub'[p] = Quiet
    OBVIOUS
  <2>1. pub'[p] = [pub[p] EXCEPT !.to = @ \ {c}]
    BY <1>1
  <2>2. pub[p] \in [event : Events \cup {NoEvent}, to : SUBSET Clients]
    BY <1>2
  <2>3. pub'[p] = [event |-> pub[p].event, to |-> pub[p].to \ {c}]
    BY <2>1, <2>2
  <2>4. pub[p] = Quiet => pub'[p] = Quiet
    <3>1. ASSUME pub[p] = Quiet PROVE pub'[p] = Quiet
      <4>1. pub[p].event = NoEvent /\ pub[p].to = {}
        BY <3>1 DEF Quiet
      <4>2. pub[p].to \ {c} = {}
        BY <4>1
      <4> QED
        BY <2>3, <4>1, <4>2 DEF Quiet
    <3> QED
      BY <3>1
  <2> QED
    BY <2>3, <2>4
<1>4. ClosedIsEmpty'
  <2> SUFFICES ASSUME NEW d \in Clients \ open'
               PROVE  (outbox[d] = <<>> /\ channel[d] = <<>> /\ \A p \in Publishers : d \notin pub[p].to)'
    BY DEF ClosedIsEmpty
  <2>1. CASE d = c
    BY <1>2, <1>3, <2>1
  <2>2. CASE d # c
    <3>1. outbox[d] = <<>> /\ channel[d] = <<>> /\ \A p \in Publishers : d \notin pub[p].to
      BY <1>1, <2>2 DEF DInv, ClosedIsEmpty
    <3> QED
      BY <1>2, <1>3, <2>2, <3>1
  <2> QED
    BY <2>1, <2>2
<1>5. HandsLatest' /\ HistoryIsNumbered'
    BY <1>1, <1>3 DEF DInv, HandsLatest, HistoryIsNumbered
<1>6. ASSUME NEW d \in Clients \ behind', d # c PROVE KeepsUp(d)'
  <2>1. (\E p \in Publishers : d \in pub'[p].to) <=> (\E p \in Publishers : d \in pub[p].to)
    BY <1>3, <1>6
  <2>2. Pending(d)' = Pending(d)
    BY <2>1 DEF Pending
  <2> QED
    BY <1>1, <1>2, <1>6, <2>2, KeepsUpFrame DEF DInv
<1>7. ASSUME c \notin behind PROVE KeepsUp(c)'
  <2>1. KeepsUp(c) /\ lastId[c] \in Nat /\ nextSeq \in Nat
    BY <1>7, PlaceTypes DEF DInv
  <2>2. ~Resyncs(c)' /\ Len(outbox'[c]) = 0 /\ Len(channel'[c]) = 0
    BY <1>2 DEF Resyncs
  <2>3. Pending(c)' = 0
    BY <1>3 DEF Pending
  <2>4. PICK a \in Nat : a = nextSeq
    BY <2>1
  <2>5. Live(c)' = a
    <3>1. Live(c)' = nextSeq' - Len(channel'[c]) - Pending(c)'
      BY DEF Live
    <3>2. Live(c)' = a - 0 - 0
      BY <1>1, <2>2, <2>3, <2>4, <3>1, Zenon
    <3> QED
      BY <3>2
  <2>6. Sent(c)' = a
    <3>1. Sent(c)' = a - 0
      BY <2>2, <2>5 DEF Sent
    <3> QED
      BY <3>1
  <2>7. Stale(c)' <=> Stale(c)
    BY <1>1 DEF Stale
  <2>8. QueueRuns(c)'
    BY <2>2, <2>6 DEF QueueRuns
  <2>9. KnowsBefore(c)'
    <3>1. known[c] \subseteq history /\ \A ev \in history : ev.boot # boot => ev \in known[c]
      BY <2>1 DEF KeepsUp, KnowsBefore
    <3>2. \A ev \in known[c] : ev.boot = boot => ev.seq <= a
      BY <2>4, <3>1 DEF DInv, HistoryIsNumbered
    <3> QED
      BY <1>1, <2>6, <3>1, <3>2 DEF KnowsBefore
  <2>10. IdIsPlace(c)'
    <3>1. ASSUME lastId[c] > 0, ~Stale(c), NEW k \in 1 .. nextSeq
          PROVE  [boot |-> boot, seq |-> k] \in known[c] <=> k <= lastId[c]
      <4>1. lastId[c] = Sent(c) /\ ~Resyncs(c)
        BY <2>1, <3>1 DEF KeepsUp, IdIsPlace
      <4>2. k <= Sent(c) => [boot |-> boot, seq |-> k] \in known[c]
        BY <2>1, <4>1 DEF KeepsUp, KnowsBefore
      <4>3. [boot |-> boot, seq |-> k] \in known[c] => k <= Sent(c)
        <5>1. PICK ev : ev = [boot |-> boot, seq |-> k]
          OBVIOUS
        <5>2. ev.boot = boot /\ ev.seq = k
          BY <5>1
        <5>3. ev \in known[c] => ev.seq <= Sent(c)
          BY <2>1, <5>2 DEF KeepsUp, KnowsBefore
        <5> QED
          BY <5>1, <5>2, <5>3
      <4> QED
        BY <4>1, <4>2, <4>3
    <3>2. lastId[c] <= nextSeq
      BY <2>1 DEF KeepsUp, IdIsPlace
    <3> QED
      BY <1>1, <2>2, <2>7, <3>1, <3>2 DEF IdIsPlace
  <2> QED
    BY <2>8, <2>9, <2>10 DEF KeepsUp
<1> QED
    BY <1>1, <1>4, <1>5, <1>6, <1>7 DEF DInv

\* A restart: whoever holds an id has fallen behind, the others start afresh.
LEMMA RestartKeeps ==
    ASSUME DInv, StreamTypeOK', IInv', Restart
    PROVE  DInv'
<1>1. /\ boot' = boot + 1 /\ nextSeq' = 0 /\ buffer' = <<>> /\ open' = {}
      /\ channel' = [c \in Clients |-> <<>>] /\ outbox' = [c \in Clients |-> <<>>]
      /\ pub' = [p \in Publishers |-> Quiet]
      /\ behind' = behind \cup {c \in Clients : lastId[c] # 0}
      /\ lastId' = lastId /\ history' = history /\ known' = known
    BY DEF Restart
<1>2. \A ev \in history : ev.boot < boot' /\ ev.boot # boot'
  <2> SUFFICES ASSUME NEW ev \in history PROVE ev.boot < boot' /\ ev.boot # boot'
    OBVIOUS
  <2>1. ev.boot \in Nat /\ boot \in Nat /\ ev.boot <= boot
    BY EventIs DEF DInv, StreamTypeOK, HistoryIsNumbered
  <2> QED
    BY <1>1, <2>1
<1>3. ClosedIsEmpty' /\ HandsLatest'
    BY <1>1 DEF ClosedIsEmpty, HandsLatest, Quiet
<1>4. HistoryIsNumbered'
  <2>1. \A ev \in history : ev.boot <= boot'
    <3> SUFFICES ASSUME NEW ev \in history PROVE ev.boot <= boot'
      OBVIOUS
    <3>1. ev.boot \in Nat /\ boot \in Nat /\ ev.boot <= boot
      BY EventIs DEF DInv, StreamTypeOK, HistoryIsNumbered
    <3> QED
      BY <1>1, <3>1
  <2> QED
    BY <1>1, <1>2, <2>1 DEF HistoryIsNumbered
<1>5. ASSUME NEW c \in Clients \ behind' PROVE KeepsUp(c)'
  <2>1. c \notin behind /\ lastId'[c] = 0 /\ channel'[c] = <<>> /\ outbox'[c] = <<>>
    BY <1>1
  <2>2. ~Resyncs(c)' /\ Len(outbox'[c]) = 0 /\ Len(channel'[c]) = 0
    BY <2>1 DEF Resyncs
  <2>3. Pending(c)' = 0
    BY <1>1 DEF Pending, Quiet
  <2>4. Live(c)' = 0
    <3>1. Live(c)' = nextSeq' - Len(channel'[c]) - Pending(c)'
      BY DEF Live
    <3>2. Live(c)' = 0 - 0 - 0
      BY <1>1, <2>2, <2>3, <3>1, Zenon
    <3> QED
      BY <3>2
  <2>5. Sent(c)' = 0
    <3>1. Sent(c)' = 0 - 0
      BY <2>2, <2>4 DEF Sent
    <3> QED
      BY <3>1
  <2>6. QueueRuns(c)' /\ IdIsPlace(c)'
    BY <1>1, <2>1, <2>2, <2>5 DEF QueueRuns, IdIsPlace
  <2>7. known[c] \subseteq history
    BY <2>1 DEF DInv, KeepsUp, KnowsBefore
  <2>8. KnowsBefore(c)'
    BY <1>1, <1>2, <2>1, <2>7 DEF KnowsBefore
  <2> QED
    BY <2>6, <2>8 DEF KeepsUp
<1> QED
    BY <1>3, <1>4, <1>5 DEF DInv

\* Every step keeps every client that kept up at its place.
LEMMA NextDInv == OnePublisher /\ DInv /\ [StreamNext]_eventVars => DInv'
<1> SUFFICES ASSUME OnePublisher, DInv, [StreamNext]_eventVars PROVE DInv'
    OBVIOUS
<1>0. StreamTypeOK' /\ IInv'
    BY NextTypes, NextIInv DEF DInv
<1>1. ASSUME NEW p \in Publishers, AppendEvent(p) PROVE DInv'
    BY <1>0, <1>1, AppendKeeps
<1>2. ASSUME NEW p \in Publishers, NEW c \in Clients, Offer(p, c) PROVE DInv'
    BY <1>0, <1>2, OfferKeeps
<1>3. ASSUME NEW p \in Publishers, PublishDone(p) PROVE DInv'
  <2>1. \A q \in Publishers : pub'[q] = pub[q] \/ (pub'[q] = Quiet /\ pub[q].to = {})
    BY <1>3 DEF PublishDone, DInv, StreamTypeOK
  <2> QED
    BY <1>0, <1>3, <2>1, QuietKeeps DEF PublishDone
<1>4. ASSUME NEW c \in Clients, Subscribe(c) PROVE DInv'
    BY <1>0, <1>4, SubscribeKeeps
<1>5. ASSUME NEW c \in Clients, Send(c) PROVE DInv'
    BY <1>0, <1>5, SendReplayKeeps, SendLiveKeeps DEF Send
<1>6. ASSUME NEW c \in Clients, Disconnect(c) PROVE DInv'
    BY <1>0, <1>6, UnsubscribeKeeps DEF Disconnect
<1>7. ASSUME NEW c \in Clients, RevocationTick(c) PROVE DInv'
    BY <1>0, <1>7, UnsubscribeKeeps DEF RevocationTick
<1>8. ASSUME NEW c \in Clients, Revoke(c) PROVE DInv'
    BY <1>0, <1>8, QuietKeeps DEF Revoke
<1>9. CASE Restart
    BY <1>0, <1>9, RestartKeeps
<1>10. CASE UNCHANGED eventVars
    BY <1>0, <1>10, QuietKeeps DEF eventVars, streamVars, connVars
<1> QED
    BY <1>1, <1>2, <1>3, <1>4, <1>5, <1>6, <1>7, <1>8, <1>9, <1>10 DEF StreamNext, FanOut

\* The place of each client gives what the run checks: no silent gap ...
LEMMA NoGapFromPlace == DInv => NoSilentGapIfKeepingUp
<1> SUFFICES ASSUME DInv, NEW c \in Clients \ behind, NEW ev \in history \ known[c],
                    ~OnItsWay(c, ev), ~Recoverable(c, ev)
             PROVE  FALSE
    BY DEF NoSilentGapIfKeepingUp, Gap
<1>1. /\ KeepsUp(c) /\ lastId[c] \in Nat /\ lastId[c] > 0 /\ nextSeq \in Nat /\ ~Resyncs(c)
      /\ ~Resync(lastId[c]) /\ lastId[c] <= nextSeq /\ Sent(c) \in Int
    BY PlaceTypes DEF DInv, Recoverable, Resyncs, KeepsUp, IdIsPlace
<1>2. ~Stale(c)
    BY <1>1, ResyncIs
<1>3. ev.boot = boot
    BY <1>1 DEF KeepsUp, KnowsBefore
<1>4. /\ ev = [boot |-> boot, seq |-> ev.seq] /\ ev.seq \in Nat \ {0} /\ ev.seq <= nextSeq
    BY <1>3, EventIs DEF DInv, StreamTypeOK, HistoryIsNumbered
<1>5. ev.seq \in 1 .. nextSeq
    BY <1>1, <1>4
<1>6. CASE c \in open
  <2>1. ~(ev.seq > Sent(c))
    BY <1>1, <1>3, <1>6, OnItsWayIs
  <2>2. ev.seq <= Sent(c)
    BY <1>1, <1>4, <2>1
  <2> QED
    BY <1>1, <1>4, <1>5, <1>6, <2>2 DEF KeepsUp, KnowsBefore
<1>7. CASE c \notin open
  <2>1. ~(ev.seq <= lastId[c])
    BY <1>1, <1>2, <1>4, <1>5, <1>7 DEF KeepsUp, IdIsPlace
  <2>2. PICK k \in Nat : k = ev.seq - lastId[c]
    BY <1>1, <1>4, <2>1
  <2>3. k \in 1 .. (nextSeq - lastId[c]) /\ lastId[c] + k = ev.seq
    BY <1>1, <1>4, <2>1, <2>2
  <2>4. k \in 1 .. Len(Replay(lastId[c])) /\ Replay(lastId[c])[k] = ev
    BY <1>1, <1>2, <1>4, <2>3, ReplayIs
  <2> QED
    BY <2>4 DEF Recoverable
<1> QED
    BY <1>6, <1>7

\* ... and a queue in order, of events that are new.
LEMMA OrderFromPlace == DInv => QueuedOnceInOrder
<1> SUFFICES ASSUME DInv, NEW c \in Clients \ behind
             PROVE  LET queue == outbox[c] \o channel[c] IN
                    \A i \in 1 .. Len(queue) :
                       /\ queue[i] \notin known[c]
                       /\ \A j \in 1 .. (i - 1) : queue[j].seq < queue[i].seq
    BY DEF QueuedOnceInOrder
<1> DEFINE queue == outbox[c] \o channel[c]
<1>1. /\ KeepsUp(c) /\ outbox[c] \in Seq(Events \cup {NoEvent})
      /\ channel[c] \in Seq(Events \cup {NoEvent}) /\ Sent(c) \in Int /\ Live(c) \in Int
      /\ known[c] \subseteq Events
    BY PlaceTypes, SeqMonotonic DEF DInv, StreamTypeOK
<1>2. PICK m \in Nat, l \in Nat, n \in Nat, o \in Nat :
          m = Sent(c) /\ l = Live(c) /\ n = Len(channel[c]) /\ o = Len(outbox[c])
  <2>1. Sent(c) \in Nat /\ Live(c) \in Nat
    BY <1>1, PlaceTypes DEF KeepsUp, QueueRuns
  <2> QED
    BY <1>1, <2>1
<1>3. /\ Len(queue) = o + n
      /\ \A i \in 1 .. (o + n) : queue[i] = IF i <= o THEN outbox[c][i] ELSE channel[c][i - o]
  <2> DEFINE S == Events \cup {NoEvent}
  <2>1. outbox[c] \in Seq(S) /\ channel[c] \in Seq(S)
    BY <1>1
  <2> HIDE DEF S
  <2>2. /\ Len(outbox[c] \o channel[c]) = Len(outbox[c]) + Len(channel[c])
        /\ \A i \in 1 .. (Len(outbox[c]) + Len(channel[c])) :
              (outbox[c] \o channel[c])[i] = IF i <= Len(outbox[c]) THEN outbox[c][i]
                                            ELSE channel[c][i - Len(outbox[c])]
    BY <2>1, ConcatProperties
  <2> QED
    BY <1>2, <2>2
<1> HIDE DEF queue
<1>4. \A i \in 1 .. n : channel[c][i] = [boot |-> boot, seq |-> l + i]
    BY <1>1, <1>2 DEF KeepsUp, QueueRuns
<1>5. \A ev \in known[c] : ev.boot = boot => ev.seq <= m
    BY <1>1, <1>2 DEF KeepsUp, KnowsBefore
<1>6. CASE Resyncs(c)
  <2>1. o = 1 /\ outbox[c][1] = NoEvent /\ m = l
    BY <1>2, <1>6 DEF Resyncs, Sent
  <2>2. queue[1] = NoEvent
    <3>1. 1 \in 1 .. (o + n) /\ 1 <= o
      BY <2>1
    <3> QED
      BY <1>3, <2>1, <3>1
  <2>3. \A i \in 1 .. (o + n) : i # 1 => queue[i] = [boot |-> boot, seq |-> l + (i - 1)]
    <3>1. \A i \in 1 .. (o + n) : i # 1 => ~(i <= o) /\ i - o \in 1 .. n /\ i - o = i - 1
      BY <2>1
    <3> QED
      BY <1>3, <1>4, <3>1
  <2>4. ASSUME NEW i \in 1 .. (o + n) PROVE queue[i] \notin known[c]
    <3>1. CASE i = 1
      BY <1>1, <2>2, <3>1, EventIs
    <3>2. CASE i # 1
      <4>1. queue[i].boot = boot /\ queue[i].seq = l + (i - 1)
        <5>1. queue[i] = [boot |-> boot, seq |-> l + (i - 1)]
          BY <2>3, <2>4, <3>2
        <5> QED
          BY <5>1
      <4>2. ~(l + (i - 1) <= m)
        BY <2>1, <2>4, <3>2
      <4> QED
        BY <1>5, <4>1, <4>2
    <3> QED
      BY <3>1, <3>2
  <2>5. ASSUME NEW i \in 1 .. (o + n), NEW j \in 1 .. (i - 1) PROVE queue[j].seq < queue[i].seq
    <3>1. i # 1 /\ j \in 1 .. (o + n)
      BY <2>5
    <3>2. queue[i].seq = l + (i - 1)
      <4>1. queue[i] = [boot |-> boot, seq |-> l + (i - 1)]
        BY <2>3, <2>5, <3>1
      <4> QED
        BY <4>1
    <3>3. CASE j = 1
      <4>1. queue[j].seq = 0
        BY <2>2, <3>3 DEF NoEvent
      <4>2. 0 < l + (i - 1)
        BY <3>1
      <4> QED
        BY <3>2, <4>1, <4>2
    <3>4. CASE j # 1
      <4>1. queue[j].seq = l + (j - 1)
        <5>1. queue[j] = [boot |-> boot, seq |-> l + (j - 1)]
          BY <2>3, <3>1, <3>4
        <5> QED
          BY <5>1
      <4>2. l + (j - 1) < l + (i - 1)
        BY <3>1
      <4> QED
        BY <3>2, <4>1, <4>2
    <3> QED
      BY <3>3, <3>4
  <2> QED
    BY <1>3, <2>4, <2>5 DEF queue
<1>7. CASE ~Resyncs(c)
  <2>1. m = l - o /\ \A i \in 1 .. o : outbox[c][i] = [boot |-> boot, seq |-> m + i]
    BY <1>1, <1>2, <1>7 DEF KeepsUp, QueueRuns, Sent
  <2>2. \A i \in 1 .. (o + n) : queue[i] = [boot |-> boot, seq |-> m + i]
    <3>1. \A i \in 1 .. (o + n) : IF i <= o THEN i \in 1 .. o
                                  ELSE i - o \in 1 .. n /\ l + (i - o) = m + i
      BY <2>1
    <3> QED
      BY <1>3, <1>4, <2>1, <3>1
  <2>3. ASSUME NEW i \in 1 .. (o + n) PROVE queue[i] \notin known[c]
    <3>0. queue[i] = [boot |-> boot, seq |-> m + i]
      BY <2>2, <2>3
    <3>1. queue[i].boot = boot /\ queue[i].seq = m + i
      BY <3>0
    <3>2. ~(m + i <= m)
      OBVIOUS
    <3> QED
      BY <1>5, <3>1, <3>2
  <2>4. ASSUME NEW i \in 1 .. (o + n), NEW j \in 1 .. (i - 1) PROVE queue[j].seq < queue[i].seq
    <3>1. j \in 1 .. (o + n) /\ m + j < m + i
      OBVIOUS
    <3>2. queue[i] = [boot |-> boot, seq |-> m + i] /\ queue[j] = [boot |-> boot, seq |-> m + j]
      BY <2>2, <3>1
    <3>3. queue[i].seq = m + i /\ queue[j].seq = m + j
      BY <3>2
    <3> QED
      BY <3>1, <3>3
  <2> QED
    BY <1>3, <2>3, <2>4 DEF queue
<1> QED
    BY <1>6, <1>7

\* The place invariant holds throughout.
THEOREM DeliveryInvariance == OnePublisher => (StreamSpec => []DInv)
<1> SUFFICES ASSUME OnePublisher PROVE StreamSpec => []DInv
    OBVIOUS
<1>1. DInv /\ [StreamNext]_eventVars => DInv'
    BY NextDInv
<1> QED
    BY <1>1, InitDInv, PTL DEF StreamSpec

\* With one publishing goroutine, any number of clients that come, go and are
\* dropped, and any capacity: a client is handed each event once and in order,
\* and one whose channel never overflowed, with no id of an earlier run, misses
\* none without being told (eventBroadcaster.publish and subscribe,
\* handleEventStream).
THEOREM EventsDelivered == OnePublisher => (StreamSpec => []DeliveredOnceInOrder)
<1> SUFFICES ASSUME OnePublisher PROVE StreamSpec => []DeliveredOnceInOrder
    OBVIOUS
<1>1. DInv => DeliveredOnceInOrder
    BY NoGapFromPlace, OrderFromPlace DEF DInv, DeliveredOnceInOrder
<1>2. StreamSpec => []DInv
    BY DeliveryInvariance
<1> QED
    BY <1>1, <1>2, PTL
==============================================================================
