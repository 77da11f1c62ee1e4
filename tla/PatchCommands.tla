---------------------------- MODULE PatchCommands ----------------------------
(***************************************************************************)
(* Commands on the rig: pools and their members, deployments and their     *)
(* addressed instances, and the two-step edit of a pool: "pool update" or  *)
(* "pool substitute" writes an impact plan to a file, "pool apply" applies *)
(* it if the show is still the one it was computed from                    *)
(* (internal/command/pool.go, deployment.go; internal/pool, deployment,    *)
(* substitution).                                                          *)
(***************************************************************************)
EXTENDS ShowState

CONSTANTS
  Fixtures,   \* fixture definitions, by stable key
  Additions,  \* what "--add" may ask for: sequences of fixtures and widths
  MaxPlans    \* plan files ever written

ASSUME PatchAssumption ==
  /\ Additions \subseteq Seq([fixture : Fixtures, width : Nat \ {0}])
  /\ MaxPlans \in Nat

NoAddress == <<0, 0>>

-----------------------------------------------------------------------------
\* Addresses

\* Instance keeps no width, so an existing instance is taken to be as wide as
\* the fixture that is being placed.
overlapsExisting(taken, at, width) ==
  \E t \in taken :
    /\ t[1] = at[1]
    /\ at[2] <= t[2] + width - 1
    /\ t[2] <= at[2] + width - 1

Before(x, y) == x[1] < y[1] \/ (x[1] = y[1] /\ x[2] <= y[2])

NextFreeAddressFrom(taken, width, start) ==
  LET free == {at \in (start[1]..MaxUniverse) \X (1..Channels) :
                 /\ Before(start, at)
                 /\ at[2] + width - 1 <= Channels
                 /\ ~overlapsExisting(taken, at, width)}
  IN  IF free = {} THEN NoAddress
      ELSE CHOOSE at \in free : \A other \in free : Before(at, other)

TakenIn(s, d) == {i.at : i \in {j \in s.instances : j.dep = d}}

\* The addresses proposed for the first n added members in one deployment, each
\* search seeing the proposals before it.
Proposals(s, d, add, start) ==
  LET upTo[n \in 0..Len(add)] ==
        IF n = 0 THEN <<>>
        ELSE Append(upTo[n - 1],
               NextFreeAddressFrom(
                 TakenIn(s, d) \cup {upTo[n - 1][j] : j \in 1..(n - 1)},
                 add[n].width, start))
  IN  upTo

Proposed(s, d, add, start) == Proposals(s, d, add, start)[Len(add)]

-----------------------------------------------------------------------------
\* Impact plans

deploymentUsesPool(s, d, p) == \E i \in s.instances : i.dep = d /\ i.pool = p

\* The deployments in which every added member gets an instance.
Affected(s, req) ==
  {d \in Ids(s, "deployment") :
     deploymentUsesPool(s, d, req.pool) \/ d \in req.attach}

\* What "pool update" accepts.
parsePoolUpdateArgs ==
  [pool : Ids(show, "pool"),
   add : Additions,
   remove : SUBSET {m.id : m \in show.members},
   attach : SUBSET Ids(show, "deployment"),
   start : {<<1, 1>>, <<1, 2>>}]

\* The request can be planned: its pool, members and deployments exist, and
\* every deployment has room.
Plannable(s, req) ==
  /\ req.pool \in Ids(s, "pool")
  /\ req.remove \subseteq {m.id : m \in {x \in s.members : x.pool = req.pool}}
  /\ req.attach \subseteq Ids(s, "deployment")
  /\ \A d \in Affected(s, req) : \A n \in 1..Len(req.add) :
       Proposed(s, d, req.add, req.start)[n] # NoAddress

\* BuildImpactPlan: the request, the revision and the walk of the dependents.
BuildImpactPlan(s, req) ==
  [req |-> req,
   revision |-> s.revision,
   adds |-> {[dep |-> d, n |-> n, at |-> Proposed(s, d, req.add, req.start)[n]] :
               d \in Affected(s, req), n \in 1..Len(req.add)},
   drops |-> {i.id : i \in {j \in s.instances :
                              j.pool = req.pool /\ j.member \in req.remove}},
   ungroups |-> {r \in s.groupRefs : r.pool = req.pool /\ r.member \in req.remove}]

\* plan_id is the digest of the body: the body as it was when it was hashed.
writeImpactPlan(plan) ==
  /\ plans' = plans \cup {[body |-> plan, id |-> plan]}
  /\ UNCHANGED <<show, applied>>

runPoolUpdate ==
  /\ Cardinality(plans) < MaxPlans
  /\ \E req \in parsePoolUpdateArgs :
       /\ Plannable(show, req)
       /\ writeImpactPlan(BuildImpactPlan(show, req))

\* Every member of one fixture is replaced by one of the other, at the
\* default width.
BuildSubstitutionPlan(p, from, to) ==
  LET gone == {m.id : m \in {x \in show.members : x.pool = p /\ x.fixture = from}}
      req == [pool |-> p, remove |-> gone, attach |-> {}, start |-> <<1, 1>>,
              add |-> [n \in 1..Cardinality(gone) |-> [fixture |-> to, width |-> 1]]]
  IN  /\ gone # {}
      /\ Plannable(show, req)
      /\ writeImpactPlan(BuildImpactPlan(show, req))

runPoolSubstitute ==
  /\ Cardinality(plans) < MaxPlans
  /\ \E p \in Ids(show, "pool"), from, to \in Fixtures : BuildSubstitutionPlan(p, from, to)

\* Somebody edits a plan file by hand: the digest inside it stays.
EditPlanFile ==
  \E p \in plans :
    /\ p.body = p.id
    /\ p.body.drops # {}
    /\ plans' = (plans \ {p}) \cup
                {[p EXCEPT !.body = [p.body EXCEPT !.drops = {}, !.req.remove = {}]]}
    /\ UNCHANGED <<show, applied>>

ValidatePlanIntegrity(p) == p.body = p.id

\* A fault: the plan only has to be possible still.
FaultStillPossible(p) == Plannable(show, p.body.req)

\* The plan recomputed from the current show must be the same plan.
ValidatePlanFreshness(p) ==
  /\ Plannable(show, p.body.req)
  /\ BuildImpactPlan(show, p.body.req) = p.id

\* pool.Apply: drop the removed members with their instances and group
\* references, mint the added members, then one instance per "add" operation.
Apply(s, plan) ==
  LET req == plan.req
      count == Len(req.add)
      member(n) == s.minted + n
      rank(d) == Cardinality({e \in Affected(s, req) : e < d})
      instance(op) == [id |-> s.minted + count * (1 + rank(op.dep)) + op.n,
                       dep |-> op.dep, pool |-> req.pool,
                       member |-> member(op.n), at |-> op.at]
      stays(x) == ~(x.pool = req.pool /\ x.member \in req.remove)
  IN  [s EXCEPT
         !.members = {m \in @ : ~(m.pool = req.pool /\ m.id \in req.remove)}
                       \cup {[pool |-> req.pool, id |-> member(n),
                              fixture |-> req.add[n].fixture] : n \in 1..count},
         !.instances = {i \in @ : stays(i)} \cup {instance(op) : op \in plan.adds},
         !.groupRefs = {r \in @ : stays(r)},
         !.minted = @ + count + Cardinality(plan.adds)]

runPoolApply ==
  \E p \in plans :
    LET s == Scrubbed(Apply(show, p.body)) IN
    /\ ValidatePlanIntegrity(p)
    /\ ValidatePlanFreshness(p)
    /\ validate(s)
    /\ show' = [s EXCEPT !.revision = @ + 1]
    /\ applied' = Append(applied, [plan |-> p.body, at |-> show.revision])
    /\ UNCHANGED plans

-----------------------------------------------------------------------------
\* Pools

runPoolCreate == \E n \in Names : Save(Created("pool", n, NoVal))

runPoolRename ==
  \E o \in Objs(show, "pool"), n \in Names : Save(Edited(o, n, o.val))

\* A fault: the instances of the pool stay.
FaultKeepInstances(o) ==
  [Removed(o) EXCEPT
     !.members = {m \in @ : m.pool # o.id},
     !.groupRefs = {r \in @ : r.pool # o.id}]

\* The pool goes with its members; its instances and the group references to
\* it go too.
DeletePool(o) ==
  [Removed(o) EXCEPT
     !.members = {m \in @ : m.pool # o.id},
     !.instances = {i \in @ : i.pool # o.id},
     !.groupRefs = {r \in @ : r.pool # o.id}]

runPoolDelete == \E o \in Objs(show, "pool") : Save(DeletePool(o))

-----------------------------------------------------------------------------
\* Deployments

runDeploymentCreate ==
  \E n \in Names : Save(Created("deployment", n, NoVal))

runDeploymentActivate ==
  \E o \in Objs(show, "deployment") : Save(Activated("deployment", o))

runDeploymentRename ==
  \E o \in Objs(show, "deployment"), n \in Names : Save(Edited(o, n, o.val))

DeleteDeployment(o) == [Removed(o) EXCEPT !.instances = {i \in @ : i.dep # o.id}]

runDeploymentDelete == \E o \in Objs(show, "deployment") : Save(DeleteDeployment(o))

\* "deployment instance reassign": a part that is not given stays as it is, and
\* the collision test takes every fixture to be one channel wide.
parseDeploymentInstanceReassignArgs ==
  {a \in (0..MaxUniverse) \X (0..Channels + 1) : a # NoAddress}

Reassign(i, at) ==
  /\ ValidateInstanceAddress([i EXCEPT !.at = at])
  /\ ~overlapsExisting(TakenIn([show EXCEPT !.instances = @ \ {i}], i.dep), at, 1)
  /\ Save([show EXCEPT !.instances = (@ \ {i}) \cup {[i EXCEPT !.at = at]}])

runDeploymentInstanceReassign ==
  \E i \in show.instances, a \in parseDeploymentInstanceReassignArgs :
    Reassign(i, <<IF a[1] > 0 THEN a[1] ELSE i.at[1], IF a[2] > 0 THEN a[2] ELSE i.at[2]>>)
=============================================================================
