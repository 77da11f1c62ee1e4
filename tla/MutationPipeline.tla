-------------------------- MODULE MutationPipeline ---------------------------
(***************************************************************************)
(* The HTTP control API of the daemon (internal/api): a request passes     *)
(* authentication, the rate limit and the scope test, waits for the        *)
(* mutation mutex, and then runs a "pool create", a dry run of it or a     *)
(* batch.  Handlers of several requests run concurrently; another process  *)
(* (the command line) loads and saves the same show file, which no lock    *)
(* protects; keys are minted, revoked and expire; the daemon may stop or   *)
(* die.  The file is its revision and the names of its pools.              *)
(***************************************************************************)
EXTENDS Integers, FiniteSets, Sequences

CONSTANTS
  Requests,     \* HTTP requests, a retry being another request
  Inputs,       \* what a request may ask for: see InputSpace
  KeyIds,       \* API keys
  Minted,       \* the sets of keys that may exist at the start
  Scopes,       \* KeyIds -> the set of scopes the key was minted with
  Others,       \* names another process adds
  Burst,        \* tokens of a key's bucket
  MaxEvents     \* bound on what happens around the requests: see Event

\* The lowest revision is the one of a file that was never saved.
NoMatch == -1     \* no If-Match header
BadMatch == -2    \* one that is no number

NoIdem == "none"  \* no Idempotency-Key header

NoPool == "none"

Blank == [rev |-> 0, pools |-> {}]

\* names: the pools a request or a batch asks for, in order.  For "mint" and
\* "revoke", on is the key it is about.
InputSpace ==
  [kind : {"pool", "dry", "batch", "mint", "revoke"}, actor : KeyIds, on : KeyIds,
   names : Seq(STRING), ifMatch : {NoMatch, BadMatch} \cup Nat, idem : STRING]

ASSUME PipelineAssumption ==
  /\ Inputs \subseteq InputSpace /\ Inputs # {}
  /\ Scopes \in [KeyIds -> SUBSET {"playback", "authoring", "admin"}]
  /\ Minted \subseteq SUBSET KeyIds
  /\ Burst \in Nat \ {0}
  /\ MaxEvents \in Nat

VARIABLES
  file,      \* the show file
  keys,      \* KeyIds -> "absent", "valid", "revoked" or "expired" (api_keys)
  up,        \* the daemon accepts requests
  events,    \* how many events there were
  bucket,    \* KeyIds -> tokens left (keyRateLimiter)
  lock,      \* the handlers that hold mutationMutex
  idem,      \* idempotencyStore: [actor, key, rev]
  req,       \* the handler of each request
  audit,     \* rows of audit_log: [by, sub, outcome]
  other,     \* the other process: what it has loaded
  lost,      \* history: pools that a save of the other process overwrote
  forgot     \* history: an idempotency entry expired or was lost in a restart

vars == <<file, keys, up, events, bucket, lock, idem, req, audit, other, lost, forgot>>

daemon == <<up, events>>

Idle ==
  [pc |-> "idle", in |-> CHOOSE i \in Inputs : TRUE, base |-> 0, loaded |-> Blank,
   disturbed |-> FALSE, wrote |-> FALSE, status |-> 0, rev |-> 0]

\* Time passing, another process, a command on the keys, the daemon stopping:
\* MaxEvents of these, wherever they fall.
Event ==
  /\ events < MaxEvents
  /\ events' = events + 1

-----------------------------------------------------------------------------
\* Answers

\* One row per sub-request.  A row that cannot be written is dropped and the
\* mutation goes on: what is said below of the rows is said of those there are.
auditObserver(rows) == audit' = audit \cup rows

fireMutationObservers(r, outcome, subs) ==
  auditObserver({[by |-> r, sub |-> i, outcome |-> outcome] : i \in subs})

Answer(r, status) == req' = [req EXCEPT ![r].pc = "done", ![r].status = status]

\* A locked handler returns: observers, answer, unlock.
Return(r, outcome, subs, status) ==
  /\ fireMutationObservers(r, outcome, subs)
  /\ Answer(r, status)
  /\ lock' = lock \ {r}

Names(r) == {req[r].in.names[i] : i \in 1..Len(req[r].in.names)}

Subs(r) == 1..Len(req[r].in.names)

At(r, pc) == req[r].pc = pc

To(r, pc) == req' = [req EXCEPT ![r].pc = pc]

-----------------------------------------------------------------------------
\* Before the lock

\* api.IsAPIKeyValid of the record found for the token.
IsAPIKeyValid(k) == keys[k] = "valid"

AuthMiddleware(r) ==
  /\ up
  /\ At(r, "idle")
  /\ \E in \in Inputs :
       req' = [req EXCEPT ![r].in = in,
                          ![r].pc = IF IsAPIKeyValid(in.actor) THEN "authed" ELSE "done",
                          ![r].status = IF IsAPIKeyValid(in.actor) THEN 0 ELSE 401]
  /\ UNCHANGED <<file, keys, daemon, bucket, lock, idem, audit, other, lost, forgot>>

allow(k) == bucket[k] > 0

RateLimitMiddleware(r) ==
  /\ At(r, "authed")
  /\ \/ /\ allow(req[r].in.actor)
        /\ bucket' = [bucket EXCEPT ![req[r].in.actor] = @ - 1]
        /\ To(r, "admitted")
     \/ /\ ~allow(req[r].in.actor)
        /\ Answer(r, 429)
        /\ UNCHANGED bucket
  /\ UNCHANGED <<file, keys, daemon, lock, idem, audit, other, lost, forgot>>

\* A token comes back with time.
Refill(k) ==
  /\ Event
  /\ bucket[k] < Burst
  /\ bucket' = [bucket EXCEPT ![k] = @ + 1]
  /\ UNCHANGED <<file, keys, up, lock, idem, req, audit, other, lost, forgot>>

RequireScope(r, scope) == scope \in Scopes[req[r].in.actor]

requiredScopeForRoute == "authoring"   \* the routes are "pool create" alone

\* The head of mutate: the scope test, with its audit row.
mutate(r) ==
  /\ At(r, "admitted")
  /\ req[r].in.kind \in {"pool", "dry"}
  /\ \/ /\ RequireScope(r, requiredScopeForRoute)
        /\ To(r, "waiting")
        /\ UNCHANGED audit
     \/ /\ ~RequireScope(r, requiredScopeForRoute)
        /\ fireMutationObservers(r, "failure", {1})
        /\ Answer(r, 403)
  /\ UNCHANGED <<file, keys, daemon, bucket, lock, idem, other, lost, forgot>>

\* The head of runBatch: every sub-request is translated and its scope tested
\* before anything runs.
translateBatch(r) ==
  /\ At(r, "admitted")
  /\ req[r].in.kind = "batch"
  /\ \/ /\ Subs(r) = {}
        /\ Answer(r, 400)
        /\ UNCHANGED audit
     \/ /\ Subs(r) # {}
        /\ RequireScope(r, requiredScopeForRoute)
        /\ NoPool \notin Names(r)
        /\ To(r, "waiting")
        /\ UNCHANGED audit
     \/ \E i \in Subs(r) :
          /\ req[r].in.names[i] = NoPool \/ ~RequireScope(r, requiredScopeForRoute)
          /\ \A j \in 1..(i - 1) :
               req[r].in.names[j] # NoPool /\ RequireScope(r, requiredScopeForRoute)
          /\ fireMutationObservers(r, "failure", {i})
          /\ Answer(r, IF req[r].in.names[i] = NoPool THEN 400 ELSE 403)
  /\ UNCHANGED <<file, keys, daemon, bucket, lock, idem, other, lost, forgot>>

\* A fault: nobody waits for the lock.
FaultNoLock(r) ==
  /\ At(r, "waiting")
  /\ lock' = lock \cup {r}
  /\ req' = [req EXCEPT ![r].pc = "locked", ![r].disturbed = FALSE]
  /\ UNCHANGED <<file, keys, daemon, bucket, idem, audit, other, lost, forgot>>

Lock(r) ==
  /\ At(r, "waiting")
  /\ lock = {}
  /\ lock' = {r}
  /\ req' = [req EXCEPT ![r].pc = "locked", ![r].disturbed = FALSE]
  /\ UNCHANGED <<file, keys, daemon, bucket, idem, audit, other, lost, forgot>>

-----------------------------------------------------------------------------
\* One mutation

Holds(r, pc) == r \in lock /\ At(r, pc)

\* A fault: the dry run answers without unlocking.
FaultKeepLock(r) ==
  /\ Holds(r, "locked")
  /\ req[r].in.kind = "dry"
  /\ \E status \in IF Names(r) \cap file.pools = {} THEN {200, 500} ELSE {500} :
       fireMutationObservers(r, "dry_run", {1}) /\ Answer(r, status)
  /\ UNCHANGED <<file, keys, daemon, bucket, lock, idem, other, lost, forgot>>

\* The copy is what changes; the file does not.
dryRunMutate(r) ==
  /\ Holds(r, "locked")
  /\ req[r].in.kind = "dry"
  /\ \E status \in IF Names(r) \cap file.pools = {} THEN {200, 500} ELSE {500} :
       Return(r, "dry_run", {1}, status)
  /\ UNCHANGED <<file, keys, daemon, bucket, idem, other, lost, forgot>>

\* A fault: any answer this key was given.
FaultAnyEntry(r) == {e \in idem : e.actor = req[r].in.actor}

lookup(r) ==
  {e \in idem : e.actor = req[r].in.actor /\ e.key = req[r].in.idem}

replay(r) ==
  /\ Holds(r, "locked")
  /\ req[r].in.kind = "pool"
  /\ req[r].in.idem # NoIdem
  /\ \E e \in lookup(r) :
       /\ fireMutationObservers(r, "idempotent_replay", {1})
       /\ req' = [req EXCEPT ![r].pc = "done", ![r].status = 200, ![r].rev = e.rev]
  /\ lock' = lock \ {r}
  /\ UNCHANGED <<file, keys, daemon, bucket, idem, other, lost, forgot>>

\* The entry's time to live is over.
EntryExpires ==
  /\ Event
  /\ \E e \in idem : idem' = idem \ {e}
  /\ forgot' = TRUE
  /\ UNCHANGED <<file, keys, up, bucket, lock, req, audit, other, lost>>

\* No If-Match, or one that names the current revision.
Matches(r) == req[r].in.ifMatch \in {NoMatch, file.rev}

\* The answers to an If-Match that is not honoured: it cannot be parsed, names
\* another revision, or the revision of the file cannot be read.
Refusals(r) ==
  LET m == req[r].in.ifMatch
  IN  {s \in {400, 412, 500} :
         \/ s = 400 /\ m = BadMatch
         \/ s = 412 /\ m \notin {NoMatch, BadMatch, file.rev}
         \/ s = 500 /\ m \notin {NoMatch, BadMatch}}

checkRevision(r) ==
  /\ Holds(r, "locked")
  /\ req[r].in.kind = "pool"
  /\ req[r].in.idem = NoIdem \/ lookup(r) = {}
  /\ \/ /\ Matches(r)
        /\ To(r, "checked")
        /\ UNCHANGED <<lock, audit>>
     \/ \E status \in Refusals(r) : Return(r, "failure", {1}, status)
  /\ UNCHANGED <<file, keys, daemon, bucket, idem, other, lost, forgot>>

\* Execute of "pool create": Load, then Save of what was loaded.
ExecuteLoad(r) ==
  /\ Holds(r, "checked")
  /\ req' = [req EXCEPT ![r].pc = "loaded", ![r].loaded = file]
  /\ UNCHANGED <<file, keys, daemon, bucket, lock, idem, audit, other, lost, forgot>>

With(s, names) == [rev |-> s.rev + 1, pools |-> s.pools \cup names]

\* Save refuses a name that is taken.  It may fail before it writes, and, when
\* the database cannot be closed, after.
ExecuteSave(r) ==
  /\ Holds(r, "loaded")
  /\ \/ /\ Names(r) \cap req[r].loaded.pools = {}
        /\ file' = With(req[r].loaded, Names(r))
        /\ req' = [req EXCEPT ![r].pc = "executed", ![r].wrote = TRUE]
     \/ /\ Names(r) \cap req[r].loaded.pools = {}
        /\ file' = With(req[r].loaded, Names(r))
        /\ req' = [req EXCEPT ![r].pc = "failed", ![r].wrote = TRUE]
     \/ To(r, "failed") /\ UNCHANGED file
  /\ UNCHANGED <<keys, daemon, bucket, lock, idem, audit, other, lost, forgot>>

\* The revision in the answer is read after the command ended.
store(r) ==
  /\ Holds(r, "executed")
  /\ fireMutationObservers(r, "success", {1})
  /\ idem' = IF req[r].in.idem = NoIdem THEN idem
             ELSE idem \cup {[actor |-> req[r].in.actor, key |-> req[r].in.idem,
                              rev |-> file.rev]}
  /\ req' = [req EXCEPT ![r].pc = "done", ![r].status = 200, ![r].rev = file.rev]
  /\ lock' = lock \ {r}
  /\ UNCHANGED <<file, keys, daemon, bucket, other, lost, forgot>>

translateResult(r) ==
  /\ Holds(r, "failed")
  /\ Return(r, "failure", {1}, 500)
  /\ UNCHANGED <<file, keys, daemon, bucket, idem, other, lost, forgot>>

-----------------------------------------------------------------------------
\* A batch

runBatch(r) ==
  /\ Holds(r, "locked")
  /\ req[r].in.kind = "batch"
  /\ \/ /\ Matches(r)
        /\ req' = [req EXCEPT ![r].pc = "based", ![r].base = file.rev]
        /\ UNCHANGED <<lock, audit>>
     \/ \E status \in Refusals(r) \cup {500} : Return(r, "failure", Subs(r), status)
  /\ UNCHANGED <<file, keys, daemon, bucket, idem, other, lost, forgot>>

\* A sub-request that fails: its name is taken, in the file or by an earlier
\* sub-request.
Culpable(r, i) ==
  \/ req[r].in.names[i] \in file.pools
  \/ \E j \in 1..(i - 1) : req[r].in.names[j] = req[r].in.names[i]

\* The sub-requests run one after the other on a copy of the file.
NewTempCopy(r) ==
  /\ Holds(r, "based")
  /\ \/ /\ \A i \in Subs(r) : ~Culpable(r, i)
        /\ req' = [req EXCEPT ![r].pc = "prepared", ![r].loaded = file]
        /\ UNCHANGED <<lock, audit>>
     \/ \E i \in Subs(r) :
          /\ Culpable(r, i)
          /\ \A j \in 1..(i - 1) : ~Culpable(r, j)
          /\ Return(r, "failure", {i}, 500)
     \/ Return(r, "failure", Subs(r), 500)   \* the copy cannot be made or read
  /\ UNCHANGED <<file, keys, daemon, bucket, idem, other, lost, forgot>>

confirmBase(r) ==
  /\ Holds(r, "prepared")
  /\ \/ /\ file.rev = req[r].base
        /\ To(r, "confirmed")
        /\ UNCHANGED <<lock, audit>>
     \/ /\ file.rev # req[r].base
        /\ Return(r, "failure", Subs(r), 412)
     \/ Return(r, "failure", Subs(r), 500)   \* the revision cannot be read
  /\ UNCHANGED <<file, keys, daemon, bucket, idem, other, lost, forgot>>

\* One save for the whole batch, numbered from the base.
commitBatch(r) ==
  /\ Holds(r, "confirmed")
  /\ \E wrote, closed \in BOOLEAN :
       /\ closed => wrote
       /\ file' = IF wrote THEN [rev |-> req[r].base + 1,
                                 pools |-> req[r].loaded.pools \cup Names(r)]
                  ELSE file
       /\ fireMutationObservers(r, IF closed THEN "success" ELSE "failure", Subs(r))
       /\ req' = [req EXCEPT ![r].pc = "done", ![r].wrote = wrote,
                             ![r].status = IF closed THEN 200 ELSE 500,
                             ![r].rev = req[r].base + 1]
  /\ lock' = lock \ {r}
  /\ UNCHANGED <<keys, daemon, bucket, idem, other, lost, forgot>>

-----------------------------------------------------------------------------
\* Keys: the operations of the API take neither the lock nor an audit row

registerMintAPIKey(r) ==
  /\ At(r, "admitted")
  /\ req[r].in.kind = "mint"
  /\ \/ /\ RequireScope(r, "admin")
        /\ keys[req[r].in.on] = "absent"
        /\ keys' = [keys EXCEPT ![req[r].in.on] = "valid"]
        /\ Answer(r, 200)
     \/ /\ ~RequireScope(r, "admin")
        /\ Answer(r, 403)
        /\ UNCHANGED keys
     \/ Answer(r, 400) /\ UNCHANGED keys   \* no valid scope or duration
  /\ UNCHANGED <<file, daemon, bucket, lock, idem, audit, other, lost, forgot>>

\* Only a key that was not revoked before can be.
RevokeAPIKey(k) ==
  /\ keys[k] \in {"valid", "expired"}
  /\ keys' = [keys EXCEPT ![k] = "revoked"]

registerRevokeAPIKey(r) ==
  /\ At(r, "admitted")
  /\ req[r].in.kind = "revoke"
  /\ \/ /\ RequireScope(r, "admin")
        /\ RevokeAPIKey(req[r].in.on)
        /\ Answer(r, 200)
     \/ /\ ~RequireScope(r, "admin")
        /\ Answer(r, 403)
        /\ UNCHANGED keys
     \/ /\ RequireScope(r, "admin")
        /\ keys[req[r].in.on] \in {"absent", "revoked"}
        /\ Answer(r, 500)
        /\ UNCHANGED keys
  /\ UNCHANGED <<file, daemon, bucket, lock, idem, audit, other, lost, forgot>>

\* The same on the command line, and the passing of time.
runAPIKeyCreate(k) ==
  /\ Event
  /\ keys[k] = "absent"
  /\ keys' = [keys EXCEPT ![k] = "valid"]
  /\ UNCHANGED <<file, up, bucket, lock, idem, req, audit, other, lost, forgot>>

runAPIKeyRevoke(k) ==
  /\ Event
  /\ RevokeAPIKey(k)
  /\ UNCHANGED <<file, up, bucket, lock, idem, req, audit, other, lost, forgot>>

KeyExpires(k) ==
  /\ Event
  /\ keys[k] = "valid"
  /\ keys' = [keys EXCEPT ![k] = "expired"]
  /\ UNCHANGED <<file, up, bucket, lock, idem, req, audit, other, lost, forgot>>

-----------------------------------------------------------------------------
\* The other process: "pool create" on the command line

OtherLoads ==
  /\ Event
  /\ other.pc = "idle"
  /\ other' = [pc |-> "loaded", loaded |-> file]
  /\ UNCHANGED <<file, keys, up, bucket, lock, idem, req, audit, lost, forgot>>

OtherSaves ==
  /\ Event
  /\ other.pc = "loaded"
  /\ \E n \in Others \ other.loaded.pools :
       file' = With(other.loaded, {n})
  /\ lost' = lost \cup (file.pools \ file'.pools)
  /\ other' = [other EXCEPT !.pc = "ended"]
  /\ req' = [r \in Requests |-> IF r \in lock THEN [req[r] EXCEPT !.disturbed = TRUE] ELSE req[r]]
  /\ UNCHANGED <<keys, up, bucket, lock, idem, audit, forgot>>

-----------------------------------------------------------------------------
\* The daemon

InFlight == {r \in Requests : req[r].pc \notin {"idle", "done", "lost"}}

\* A graceful stop: running handlers end.
Shutdown ==
  /\ Event
  /\ up
  /\ up' = FALSE
  /\ UNCHANGED <<file, keys, bucket, lock, idem, req, audit, other, lost, forgot>>

\* The process dies with its handlers, its mutex and what is in memory.
Crash ==
  /\ Event
  /\ up
  /\ up' = FALSE
  /\ lock' = {}
  /\ req' = [r \in Requests |-> IF r \in InFlight THEN [req[r] EXCEPT !.pc = "lost"] ELSE req[r]]
  /\ UNCHANGED <<file, keys, bucket, idem, audit, other, lost, forgot>>

NewServer ==
  /\ Event
  /\ ~up
  /\ InFlight = {}
  /\ up' = TRUE
  /\ idem' = {}
  /\ bucket' = [k \in KeyIds |-> Burst]
  /\ forgot' = TRUE
  /\ UNCHANGED <<file, keys, lock, req, audit, other, lost>>

-----------------------------------------------------------------------------
Init ==
  /\ file = Blank
  /\ \E minted \in Minted :
       keys = [k \in KeyIds |-> IF k \in minted THEN "valid" ELSE "absent"]
  /\ up = TRUE
  /\ events = 0
  /\ bucket = [k \in KeyIds |-> Burst]
  /\ lock = {}
  /\ idem = {}
  /\ req = [r \in Requests |-> Idle]
  /\ audit = {}
  /\ other = [pc |-> "idle", loaded |-> Blank]
  /\ lost = {}
  /\ forgot = FALSE

Handle(r) ==
  \/ RateLimitMiddleware(r) \/ mutate(r) \/ translateBatch(r)
  \/ dryRunMutate(r) \/ replay(r) \/ checkRevision(r)
  \/ ExecuteLoad(r) \/ ExecuteSave(r) \/ store(r) \/ translateResult(r)
  \/ runBatch(r) \/ NewTempCopy(r) \/ confirmBase(r) \/ commitBatch(r)
  \/ registerMintAPIKey(r) \/ registerRevokeAPIKey(r)

Next ==
  \/ \E r \in Requests : AuthMiddleware(r) \/ Lock(r) \/ Handle(r)
  \/ \E k \in KeyIds : Refill(k) \/ runAPIKeyCreate(k) \/ runAPIKeyRevoke(k) \/ KeyExpires(k)
  \/ EntryExpires \/ OtherLoads \/ OtherSaves
  \/ Shutdown \/ Crash \/ NewServer

\* A goroutine that can run does, and sync.Mutex starves nobody.
Fairness == \A r \in Requests : WF_vars(Handle(r)) /\ SF_vars(Lock(r))

Spec == Init /\ [][Next]_vars /\ Fairness

-----------------------------------------------------------------------------
TypeOK ==
  /\ file.rev \in Nat
  /\ keys \in [KeyIds -> {"absent", "valid", "revoked", "expired"}]
  /\ up \in BOOLEAN
  /\ events \in 0..MaxEvents
  /\ bucket \in [KeyIds -> 0..Burst]
  /\ lock \subseteq Requests
  /\ \A r \in Requests : req[r].in \in Inputs /\ req[r].wrote \in BOOLEAN
  /\ \A a \in audit : a.by \in Requests

Answered(r) == req[r].pc = "done" /\ req[r].status = 200

\* A mutation that was answered with success is in the file for good: no other
\* request of the daemon overwrites it, however the handlers interleave.  Only
\* a save of another process, which the mutex does not know, can.
AnsweredEditsSurvive ==
  \A r \in Requests :
    Answered(r) /\ req[r].wrote => Names(r) \subseteq file.pools \cup lost

\* A request with If-Match that was answered with success changed the revision
\* it named, unless another process saved while it held the lock.
IfMatchHonoured ==
  \A r \in Requests :
    Answered(r) /\ req[r].wrote /\ req[r].in.ifMatch # NoMatch =>
      req[r].loaded.rev = req[r].in.ifMatch \/ req[r].disturbed

\* Of requests with the same idempotency key one is applied, until the entry
\* expires or the daemon restarts, and a request that was answered without
\* being applied was answered with the revision of one that asked the same.
RetriesReplay ==
  \A q \in Requests :
    Answered(q) /\ req[q].in.kind = "pool" =>
      LET twins == {r \in Requests \ {q} :
                      Answered(r) /\ req[r].in = req[q].in /\ req[r].wrote}
      IN  IF req[q].wrote
          THEN req[q].in.idem # NoIdem /\ twins # {} => forgot
          ELSE \E r \in twins : req[r].rev = req[q].rev

\* A request refused with one of these statuses wrote nothing.  An answer of 500
\* says nothing of the file: a Save may fail after its transaction
\* (ExecuteSave, commitBatch).
RefusedLeaveNothing ==
  \A r \in Requests :
    req[r].pc = "done" /\ req[r].status \in {400, 401, 403, 412, 429} => ~req[r].wrote

\* A batch is all or nothing: answered with success it was written; written, all
\* its pools are in the file but for what another process overwrote; not
\* written, a pool that only this request names is not in the file.
BatchAllOrNothing ==
  \A r \in Requests : req[r].in.kind = "batch" =>
    /\ Answered(r) => req[r].wrote
    /\ IF req[r].wrote THEN Names(r) \subseteq file.pools \cup lost
       ELSE \A n \in Names(r) \cap file.pools :
              n \in Others \/ \E q \in Requests \ {r} : n \in Names(q) /\ req[q].wrote

\* The audit log does not lie: a row says "success" only of a request that
\* wrote the file and, if it was answered, was answered with success; "failure"
\* only of one that was not; and a dry run or a replay wrote nothing.
AuditTellsTheTruth ==
  \A a \in audit :
    /\ a.outcome = "success" => req[a.by].wrote /\ (req[a.by].pc = "done" => Answered(a.by))
    /\ a.outcome = "failure" => ~Answered(a.by)
    /\ a.outcome \in {"dry_run", "idempotent_replay"} => ~req[a.by].wrote

\* What a client was answered is what the file holds: an edit answered with
\* success is there, of one refused with a 4xx nothing is, a batch is there as a
\* whole or not at all, and the audit log says the same.
AnswersAreTrue ==
  /\ TypeOK
  /\ AnsweredEditsSurvive
  /\ IfMatchHonoured
  /\ RefusedLeaveNothing
  /\ BatchAllOrNothing
  /\ AuditTellsTheTruth

\* Every request that was admitted is answered, or the daemon died with it: no
\* handler keeps the lock.
EveryRequestIsAnswered ==
  \A r \in Requests : req[r].pc = "admitted" ~> req[r].pc \in {"done", "lost"}
=============================================================================
