-------------------------- MODULE LinearSyncProofs --------------------------
(***************************************************************************)
(* Proofs about LinearSync.  The invariant is about the files, the command *)
(* at hand and the objects: what a plan, a journal and a command link an   *)
(* entity to was created for it; an object that was not lost is in the map *)
(* or known to the apply that created it; and an apply nobody disturbed    *)
(* knows where everything is that it did not come to yet.                  *)
(***************************************************************************)
EXTENDS LinearSync, FiniteSetTheorems, SequenceTheorems, TLAPS

-----------------------------------------------------------------------------
\* The order of the operations

\* Every kind has a rank.
LEMMA RankIsNumber == \A e \in Entities : hierarchyRank(Kind[e]) \in 0..3
BY LinearAssumption DEF Kinds, hierarchyRank

\* Operations are in a strict order, and any two are in some order.
LEMMA SortsStrictly ==
  /\ \A e \in Entities : ~SortsBefore(e, e)
  /\ \A c, d, e \in Entities : SortsBefore(c, d) /\ SortsBefore(d, e) => SortsBefore(c, e)
  /\ \A d, e \in Entities : d # e => SortsBefore(d, e) \/ SortsBefore(e, d)
<1>. DEFINE rank(e) == hierarchyRank(Kind[e])
<1>1. \A e \in Entities : rank(e) \in Int /\ e \in Int
  BY RankIsNumber, LinearAssumption DEF Entities
<1>2. \A d, e \in Entities : SortsBefore(d, e) <=> rank(d) < rank(e) \/ (rank(d) = rank(e) /\ d < e)
  BY DEF SortsBefore
<1>. HIDE DEF rank
<1>3. \A e \in Entities : ~SortsBefore(e, e)
  BY <1>1, <1>2
<1>4. ASSUME NEW c \in Entities, NEW d \in Entities, NEW e \in Entities, SortsBefore(c, d), SortsBefore(d, e)
      PROVE  SortsBefore(c, e)
  BY <1>1, <1>2, <1>4
<1>5. ASSUME NEW d \in Entities, NEW e \in Entities, d # e
      PROVE  SortsBefore(d, e) \/ SortsBefore(e, d)
  BY <1>1, <1>2, <1>5
<1> QED BY <1>3, <1>4, <1>5

\* The entities a plan has an operation for.
Planned(plan) == {e \in Entities : plan.intents[e] # 0}

\* How many operations sort before an entity's.
Place(plan, e) == Cardinality({d \in Planned(plan) : SortsBefore(d, e)})

\* There are finitely many entities.
LEMMA EntitiesFinite ==
  /\ IsFiniteSet(Entities) /\ Cardinality(Entities) = N
  /\ \A plan : IsFiniteSet(Planned(plan)) /\ Cardinality(Planned(plan)) \in 0..N
<1>1. IsFiniteSet(Entities) /\ Cardinality(Entities) = N
  BY FS_Interval, LinearAssumption DEF Entities
<1>2. ASSUME NEW plan
      PROVE  IsFiniteSet(Planned(plan)) /\ Cardinality(Planned(plan)) \in 0..N
  <2>1. Planned(plan) \in SUBSET Entities
    BY DEF Planned
  <2>2. IsFiniteSet(Planned(plan)) /\ Cardinality(Planned(plan)) <= N
    BY <1>1, <2>1, FS_Subset
  <2>3. Cardinality(Planned(plan)) \in Nat
    BY <2>2, FS_CardinalityType
  <2> QED BY <2>2, <2>3, LinearAssumption
<1> QED BY <1>1, <1>2

\* Places count up along the order.
LEMMA PlacesCount ==
  ASSUME NEW plan
  PROVE  /\ \A e \in Planned(plan) : Place(plan, e) \in 0..(Cardinality(Planned(plan)) - 1)
         /\ \A d, e \in Planned(plan) : SortsBefore(d, e) => Place(plan, d) < Place(plan, e)
<1>. DEFINE P == Planned(plan)
            Below(e) == {d \in P : SortsBefore(d, e)}
<1>1. IsFiniteSet(P) /\ P \subseteq Entities
  BY EntitiesFinite DEF Planned
<1>2. ASSUME NEW e \in P
      PROVE  /\ IsFiniteSet(Below(e)) /\ Place(plan, e) = Cardinality(Below(e)) /\ Place(plan, e) \in Nat
             /\ IsFiniteSet(Below(e) \cup {e}) /\ Cardinality(Below(e) \cup {e}) = Place(plan, e) + 1
  <2>1. IsFiniteSet(Below(e))
    BY <1>1, FS_Subset
  <2>2. e \notin Below(e)
    BY <1>1, SortsStrictly
  <2>3. IsFiniteSet(Below(e) \cup {e}) /\ Cardinality(Below(e) \cup {e}) = Cardinality(Below(e)) + 1
    BY <2>1, <2>2, FS_AddElement
  <2>4. Cardinality(Below(e)) \in Nat
    BY <2>1, FS_CardinalityType
  <2>5. Place(plan, e) = Cardinality(Below(e))
    BY DEF Place
  <2> QED BY <2>1, <2>3, <2>4, <2>5
<1>3. ASSUME NEW e \in P
      PROVE  Place(plan, e) \in 0..(Cardinality(P) - 1)
  <2>1. Below(e) \cup {e} \in SUBSET P
    OBVIOUS
  <2>2. Cardinality(Below(e) \cup {e}) <= Cardinality(P)
    BY <1>1, <2>1, FS_Subset
  <2>3. Cardinality(P) \in Nat
    BY <1>1, FS_CardinalityType
  <2>4. Cardinality(Below(e) \cup {e}) = Place(plan, e) + 1 /\ Place(plan, e) \in Nat
    BY <1>2
  <2>. HIDE DEF P, Below
  <2> QED BY <2>2, <2>3, <2>4
<1>4. ASSUME NEW d \in P, NEW e \in P, SortsBefore(d, e)
      PROVE  Place(plan, d) < Place(plan, e)
  <2>1. Below(d) \cup {d} \in SUBSET Below(e)
    BY <1>1, <1>4, SortsStrictly
  <2>2. Cardinality(Below(d) \cup {d}) <= Cardinality(Below(e))
    BY <1>2, <2>1, FS_Subset
  <2>3. /\ Cardinality(Below(d) \cup {d}) = Place(plan, d) + 1 /\ Place(plan, d) \in Nat
        /\ Cardinality(Below(e)) = Place(plan, e) /\ Place(plan, e) \in Nat
    BY <1>2
  <2>. HIDE DEF P, Below
  <2> QED BY <2>2, <2>3
<1> QED BY <1>3, <1>4

\* Every place is some entity's.
LEMMA PlacesTaken ==
  ASSUME NEW plan, NEW i \in 1..Cardinality(Planned(plan))
  PROVE  \E e \in Planned(plan) : Place(plan, e) = i - 1
<1>. DEFINE P == Planned(plan)
            n == Cardinality(P)
            f == [e \in P |-> Place(plan, e) + 1]
<1>1. IsFiniteSet(P) /\ n \in Nat /\ P \subseteq Entities
  BY EntitiesFinite, FS_CardinalityType DEF Planned
<1>2. IsFiniteSet(1..n) /\ Cardinality(1..n) = n
  BY <1>1, FS_Interval
<1>3. \A e \in P : Place(plan, e) \in 0..(n - 1)
  BY PlacesCount
<1>4. f \in [P -> 1..n]
  <2>. HIDE DEF P, n
  <2>1. \A e \in P : Place(plan, e) + 1 \in 1..n
    BY <1>1, <1>3
  <2> QED BY <2>1
<1>5. \A d, e \in P : f[d] = f[e] => d = e
  <2>1. ASSUME NEW d \in P, NEW e \in P, d # e PROVE f[d] # f[e]
    <3>1. SortsBefore(d, e) \/ SortsBefore(e, d)
      BY <1>1, <2>1, SortsStrictly
    <3>2. Place(plan, d) < Place(plan, e) \/ Place(plan, e) < Place(plan, d)
      BY <3>1, PlacesCount
    <3>3. Place(plan, d) \in Int /\ Place(plan, e) \in Int
      BY <1>3
    <3>4. f[d] = Place(plan, d) + 1 /\ f[e] = Place(plan, e) + 1
      OBVIOUS
    <3>. HIDE DEF f
    <3> QED BY <3>2, <3>3, <3>4
  <2> QED BY <2>1
<1>6. f \in Injection(P, 1..n)
  BY <1>4, <1>5 DEF Injection, IsInjective
<1>7. f \in Surjection(P, 1..n)
  BY <1>1, <1>2, <1>6, FS_Injection
<1>8. PICK e \in P : f[e] = i
  BY <1>7 DEF Surjection
<1>9. Place(plan, e) = i - 1
  <2>1. f[e] = Place(plan, e) + 1
    OBVIOUS
  <2>2. Place(plan, e) \in Int
    BY <1>3
  <2>. HIDE DEF f
  <2> QED BY <1>8, <2>1, <2>2
<1> QED BY <1>9

\* The operations of a plan: each planned entity once, in order.
LEMMA OperationsSorted ==
  ASSUME NEW plan
  PROVE  /\ Len(Operations(plan)) = Cardinality(Planned(plan))
         /\ Len(Operations(plan)) \in 0..N
         /\ \A i \in 1..Len(Operations(plan)) :
              /\ Operations(plan)[i] \in Entities /\ plan.intents[Operations(plan)[i]] # 0
              /\ Place(plan, Operations(plan)[i]) = i - 1
         /\ \A i, j \in 1..Len(Operations(plan)) : Operations(plan)[i] = Operations(plan)[j] => i = j
         /\ \A e \in Entities : plan.intents[e] # 0 => \E i \in 1..Len(Operations(plan)) : Operations(plan)[i] = e
         /\ \A i, j \in 1..Len(Operations(plan)) :
              SortsBefore(Operations(plan)[i], Operations(plan)[j]) => i < j
<1>. DEFINE P == Planned(plan)
            n == Cardinality(P)
<1>1. n \in 0..N /\ P \subseteq Entities
  BY EntitiesFinite DEF Planned
<1>2. Operations(plan) = [i \in 1..n |-> CHOOSE e \in P : Place(plan, e) = i - 1]
  BY DEF Operations, SortOperations, Place, Planned
<1>. HIDE DEF P, n
<1>3. Len(Operations(plan)) = n
  BY <1>1, <1>2, LinearAssumption
<1>4. \A i \in 1..n : Operations(plan)[i] \in P /\ Place(plan, Operations(plan)[i]) = i - 1
  <2>1. ASSUME NEW i \in 1..n
        PROVE  Operations(plan)[i] \in P /\ Place(plan, Operations(plan)[i]) = i - 1
    <3>1. \E e \in P : Place(plan, e) = i - 1
      BY PlacesTaken DEF P, n
    <3>2. Operations(plan)[i] = CHOOSE e \in P : Place(plan, e) = i - 1
      BY <1>2
    <3> QED BY <3>1, <3>2
  <2> QED BY <2>1
<1>5. \A i, j \in 1..n : Operations(plan)[i] = Operations(plan)[j] => i = j
  <2>1. ASSUME NEW i \in 1..n, NEW j \in 1..n, Operations(plan)[i] = Operations(plan)[j]
        PROVE  i = j
    <3>1. i - 1 = j - 1
      BY <1>4, <2>1
    <3> QED BY <3>1
  <2> QED BY <2>1
<1>6. \A i, j \in 1..n : SortsBefore(Operations(plan)[i], Operations(plan)[j]) => i < j
  <2>1. ASSUME NEW i \in 1..n, NEW j \in 1..n, SortsBefore(Operations(plan)[i], Operations(plan)[j])
        PROVE  i < j
    <3>1. Place(plan, Operations(plan)[i]) < Place(plan, Operations(plan)[j])
      BY <1>4, <2>1, PlacesCount DEF P
    <3>2. i - 1 < j - 1
      BY <1>4, <3>1
    <3> QED BY <3>2
  <2> QED BY <2>1
<1>7. \A e \in P : \E i \in 1..n : Operations(plan)[i] = e
  <2>1. ASSUME NEW e \in P PROVE \E i \in 1..n : Operations(plan)[i] = e
    <3>. DEFINE i == Place(plan, e) + 1
    <3>1. Place(plan, e) \in 0..(n - 1)
      BY PlacesCount DEF P, n
    <3>2. i \in 1..n /\ i - 1 = Place(plan, e)
      BY <1>1, <3>1, LinearAssumption
    <3>. HIDE DEF i
    <3>3. Place(plan, Operations(plan)[i]) = Place(plan, e) /\ Operations(plan)[i] \in P
      BY <1>4, <3>2
    <3>4. Place(plan, e) \in Int
      BY <3>1
    <3>5. ~SortsBefore(e, Operations(plan)[i]) /\ ~SortsBefore(Operations(plan)[i], e)
      <4>1. ASSUME NEW c \in P, NEW d \in P, SortsBefore(c, d) PROVE Place(plan, c) < Place(plan, d)
        BY <4>1, PlacesCount DEF P
      <4> QED BY <3>3, <3>4, <4>1
    <3>6. Operations(plan)[i] = e
      BY <1>1, <3>3, <3>5, SortsStrictly
    <3> QED BY <3>2, <3>6
  <2> QED BY <2>1
<1>8. \A e \in Entities : plan.intents[e] # 0 <=> e \in P
  BY DEF P, Planned
<1> QED BY <1>1, <1>3, <1>4, <1>5, <1>6, <1>7, <1>8 DEF n, P

-----------------------------------------------------------------------------
\* The inductive invariant

Pcs == {"idle", "previewing", "migrating", "client", "migrated", "apply", "update", "confirm", "commit", "mapped"}

\* An apply that passed its guards and did not write the map yet.
Applying == cmd.pc \in {"apply", "update", "confirm", "commit"}

Guarded == Applying \/ At("mapped")

HasPlan == Guarded \/ At("client") \/ At("migrated")

HasMigrated == Guarded \/ At("previewing") \/ At("migrating") \/ At("migrated")

Links == [Entities -> Nat]

Catalogs == [Entities -> 0..MaxTitle]

Objects == [of : Entities, title : Titles, at : Nat \ {0}, parent : Nat, gone : BOOLEAN, hand : Nat]

SeenRecord == [title : 0..MaxTitle, at : Nat]

PlanRecord == [intents : Catalogs, links : Links, seen : [Entities -> SeenRecord]]

MigratedRecord == [intents : Catalogs, links : Links]

Result == [id : Entities, uuid : Nat]

JournalRecord == [plan : PlanRecord, results : Seq(Result)]

CmdRecord ==
  [pc : Pcs, file : Files \cup {NoCommand.file}, plan : PlanRecord \cup {NoPlan}, known : Links,
   migrated : MigratedRecord \cup {NoPlan}, results : Seq(Result), made : Nat, read : Nat, clean : BOOLEAN]

\* u is an object that was created for e.
Own(objects, e, u) == u \in 1..Len(objects) /\ objects[u].of = e

OwnLinks(objects, links) == \A e \in Entities : links[e] # None => Own(objects, e, links[e])

OwnResults(objects, results) == \A i \in 1..Len(results) : Own(objects, results[i].id, results[i].uuid)

\* Results are of the first operations of their plan, in order.
FirstOf(plan, results) ==
  /\ Len(results) <= Len(Operations(plan))
  /\ \A i \in 1..Len(results) : results[i].id = Operations(plan)[i]

\* What a plan links and did not see is gone for good.
SeenUnlessGone(objects, plan) ==
  \A e \in Entities : plan.links[e] # None /\ plan.seen[e] = NotSeen => objects[plan.links[e]].gone

\* The catalog has an entity only with the one above it.
Whole(catalog) == \A e \in Entities : catalog[e] # 0 /\ Parent[e] # 0 => catalog[Parent[e]] # 0

FileTypes ==
  /\ repo \in Catalogs /\ map \in Links
  /\ plans \in [Files -> PlanRecord \cup {NoPlan}]
  /\ journals \in [Files -> JournalRecord \cup {NoJournal}]
  /\ remote \in Seq(Objects)
  /\ lost \subseteq Entities

PlansFit ==
  \A f \in Files : plans[f] # NoPlan => OwnLinks(remote, plans[f].links) /\ SeenUnlessGone(remote, plans[f])

JournalsFit ==
  \A f \in Files : journals[f] # NoJournal =>
    /\ OwnResults(remote, journals[f].results)
    /\ FirstOf(journals[f].plan, journals[f].results) /\ journals[f].results # <<>>

\* A journal's results are in the map.
JournalsInMap ==
  \A f \in Files : journals[f] # NoJournal =>
    \A i \in 1..Len(journals[f].results) :
      LET r == journals[f].results[i] IN r.id \notin lost => map[r.id] = r.uuid

\* Objects hang on objects of the entity above, and a change by hand is no
\* later than the last change.
ObjectFits(objects, u) ==
  /\ objects[u].hand <= objects[u].at
  /\ LET above == Parent[objects[u].of]
     IN IF above = 0 THEN objects[u].parent = None ELSE Own(objects, above, objects[u].parent)

ObjectsFit == \A u \in 1..Len(remote) : ObjectFits(remote, u)

FilesInv ==
  FileTypes /\ OwnLinks(remote, map) /\ PlansFit /\ JournalsFit /\ JournalsInMap /\ ObjectsFit /\ Whole(repo)

\* What a command has at hand.
CmdFits ==
  /\ HasPlan => cmd.plan \in PlanRecord /\ OwnLinks(remote, cmd.plan.links) /\ SeenUnlessGone(remote, cmd.plan)
  /\ HasPlan \/ At("previewing") => cmd.file \in Files
  /\ HasMigrated => /\ cmd.migrated \in MigratedRecord /\ OwnLinks(remote, cmd.migrated.links)
                    /\ Whole(cmd.migrated.intents)
  /\ At("previewing") => cmd.known = cmd.migrated.links
  /\ ~Guarded => cmd.results = <<>>
  /\ At("mapped") => cmd.results # <<>>
  /\ ~At("confirm") => cmd.made = None
  /\ OwnLinks(remote, cmd.known) /\ OwnResults(remote, cmd.results)

\* The operation under way is the next one.
OperationsInOrder ==
  /\ Guarded => FirstOf(cmd.plan, cmd.results)
  /\ At("update") \/ At("confirm") => Len(cmd.results) < Len(Operations(cmd.plan))
  /\ At("update") => cmd.plan.links[Current] # None
  /\ At("confirm") => /\ Own(remote, Current, cmd.made) /\ cmd.known[Current] = cmd.made
                      /\ cmd.plan.links[Current] # None => cmd.made = cmd.plan.links[Current]

\* The map is as the command read it, until the command writes it.
MapAsRead ==
  /\ HasMigrated /\ ~At("mapped") =>
       \A e \in Entities : cmd.migrated.links[e] = IF cmd.migrated.intents[e] = 0 THEN None ELSE map[e]
  /\ Guarded => cmd.plan.intents = cmd.migrated.intents /\ cmd.plan.links = cmd.migrated.links

\* What was achieved for a linked entity was achieved on its object.
ResultsAsLinked ==
  /\ Applying => \A i \in 1..Len(cmd.results) :
       LET r == cmd.results[i]
       IN cmd.plan.links[r.id] # None /\ r.id \notin lost => r.uuid = cmd.plan.links[r.id]
  /\ At("mapped") => \A i \in 1..Len(cmd.results) :
       cmd.results[i].id \notin lost => map[cmd.results[i].id] = cmd.results[i].uuid

\* An update is of an object without a change by hand that the plan did not
\* see, or that came after the last look at it.
HandsSeen ==
  At("update") =>
    LET u == cmd.plan.links[Current]
    IN Found(u) => /\ cmd.read <= remote[u].at
                   /\ remote[u].hand <= cmd.plan.seen[Current].at \/ remote[u].hand > cmd.read

\* Of the entities of the plan none was lost.
NoneLost == \A e \in Entities : cmd.plan.intents[e] # 0 => e \notin lost

AllFound == \A e \in Entities : cmd.plan.links[e] # None => Found(cmd.plan.links[e])

\* No operation on e is under way or over.
Undone(e) ==
  /\ \A i \in 1..Len(cmd.results) : cmd.results[i].id # e
  /\ ~(At("confirm") /\ e = Current)

AsSeen(e) ==
  cmd.plan.links[e] # None /\ Found(cmd.plan.links[e]) => remote[cmd.plan.links[e]].at = cmd.plan.seen[e].at

\* An undisturbed apply knows every link there is and every object it made, and
\* finds what it did not come to yet as the plan saw it.
CleanKnows ==
  /\ cmd.clean /\ At("client") => cmd.known = MigrateV1ToV2.links
  /\ cmd.clean /\ At("migrated") => cmd.known = cmd.migrated.links
  /\ cmd.clean /\ Applying /\ ~At("commit") =>
       /\ \A e \in Entities : cmd.plan.links[e] # None => cmd.known[e] = cmd.plan.links[e]
       /\ NoneLost => \A i \in 1..Len(cmd.results) : cmd.known[cmd.results[i].id] = cmd.results[i].uuid
       /\ \A e \in Entities : Undone(e) => AsSeen(e)
       /\ At("confirm") => fieldsMatch(cmd.made, cmd.plan, Current)

CleanDone ==
  cmd.clean /\ At("commit") /\ NoneLost /\ AllFound => Len(cmd.results) = Len(Operations(cmd.plan))

CommandInv ==
  /\ cmd \in CmdRecord
  /\ CmdFits /\ OperationsInOrder /\ MapAsRead /\ ResultsAsLinked /\ HandsSeen /\ CleanKnows /\ CleanDone

\* An object is in the map, or the apply that created it still knows it.
InFlight(e, u) ==
  /\ Applying
  /\ cmd.plan.links[e] = None /\ cmd.plan.intents[e] # 0
  /\ \/ \E i \in 1..Len(cmd.results) : cmd.results[i].id = e /\ cmd.results[i].uuid = u
     \/ At("confirm") /\ Current = e /\ cmd.made = u

Recorded ==
  \A u \in 1..Len(remote) :
    remote[u].of \notin lost => map[remote[u].of] = u \/ InFlight(remote[u].of, u)

LinearInv == FilesInv /\ CommandInv /\ Recorded

-----------------------------------------------------------------------------
\* What a change of the objects keeps

\* Objects are only added, and keep whose they are; gone objects stay gone.
Grows(r, s) ==
  /\ r \in Seq(Objects) /\ s \in Seq(Objects)
  /\ Len(r) <= Len(s)
  /\ \A u \in 1..Len(r) : s[u].of = r[u].of /\ r[u].at <= s[u].at /\ (r[u].gone => s[u].gone)

\* What was an entity's object stays it.
LEMMA GrowthKeepsOwn ==
  ASSUME NEW r, NEW s, Grows(r, s)
  PROVE  /\ \A e, u : Own(r, e, u) => Own(s, e, u)
         /\ \A links : OwnLinks(r, links) => OwnLinks(s, links)
         /\ \A results : OwnResults(r, results) => OwnResults(s, results)
<1>1. \A e, u : Own(r, e, u) => Own(s, e, u)
  <2>1. Len(r) \in Nat /\ Len(s) \in Nat
    BY DEF Grows
  <2> QED BY <2>1 DEF Own, Grows
<1>2. \A links : OwnLinks(r, links) => OwnLinks(s, links)
  BY <1>1 DEF OwnLinks
<1>3. \A results : OwnResults(r, results) => OwnResults(s, results)
  BY <1>1 DEF OwnResults
<1> QED BY <1>1, <1>2, <1>3

\* What a plan links without having seen it stays gone.
LEMMA GrowthKeepsGone ==
  ASSUME NEW r, NEW s, Grows(r, s), NEW plan, OwnLinks(r, plan.links), SeenUnlessGone(r, plan)
  PROVE  SeenUnlessGone(s, plan)
<1>1. \A e \in Entities : plan.links[e] # None => plan.links[e] \in 1..Len(r)
  BY DEF OwnLinks, Own
<1> QED BY <1>1 DEF SeenUnlessGone, Grows

\* Nothing changes.
LEMMA GrowthStays ==
  ASSUME NEW r \in Seq(Objects)
  PROVE  Grows(r, r)
<1>1. \A u \in 1..Len(r) : r[u] \in Objects
  BY ElementOfSeq
<1>2. \A u \in 1..Len(r) : r[u].at \in Nat
  BY <1>1 DEF Objects
<1> QED BY <1>2 DEF Grows

\* An object is created.
LEMMA GrowthCreates ==
  ASSUME NEW r \in Seq(Objects), NEW o \in Objects
  PROVE  /\ Grows(r, Append(r, o)) /\ Append(r, o)[Len(r) + 1] = o /\ Len(Append(r, o)) = Len(r) + 1
         /\ \A u \in 1..Len(r) : Append(r, o)[u] = r[u]
<1>. DEFINE s == Append(r, o)
<1>1. s \in Seq(Objects) /\ Len(s) = Len(r) + 1 /\ s[Len(r) + 1] = o /\ \A u \in 1..Len(r) : s[u] = r[u]
  BY AppendProperties
<1>2. \A u \in 1..Len(r) : r[u].at \in Nat
  <2>1. \A u \in 1..Len(r) : r[u] \in Objects
    BY ElementOfSeq
  <2> QED BY <2>1 DEF Objects
<1>3. Len(r) \in Nat
  OBVIOUS
<1>. HIDE DEF s
<1>4. Grows(r, s)
  BY <1>1, <1>2, <1>3 DEF Grows
<1> QED BY <1>1, <1>4 DEF s

\* The objects with one of them changed.
Changed(r, u, o) == [r EXCEPT ![u] = o]

\* An object changes.
LEMMA GrowthChanges ==
  ASSUME NEW r \in Seq(Objects), NEW u \in 1..Len(r), NEW o \in Objects,
         o.of = r[u].of, r[u].at <= o.at, r[u].gone => o.gone
  PROVE  /\ Grows(r, Changed(r, u, o)) /\ Changed(r, u, o)[u] = o /\ Len(Changed(r, u, o)) = Len(r)
         /\ \A v \in 1..Len(r) : v # u => Changed(r, u, o)[v] = r[v]
<1>. DEFINE s == Changed(r, u, o)
<1>1. s \in Seq(Objects) /\ Len(s) = Len(r) /\ \A v \in 1..Len(r) : s[v] = IF v = u THEN o ELSE r[v]
  BY ExceptSeq DEF Changed
<1>2. \A v \in 1..Len(r) : r[v].at \in Nat
  <2>1. \A v \in 1..Len(r) : r[v] \in Objects
    BY ElementOfSeq
  <2> QED BY <2>1 DEF Objects
<1>3. Len(r) \in Nat
  OBVIOUS
<1>. HIDE DEF s
<1>4. Grows(r, s)
  BY <1>1, <1>2, <1>3 DEF Grows
<1> QED BY <1>1, <1>4 DEF s

\* The objects that were there before still hang where they should.
LEMMA GrowthKeepsFits ==
  ASSUME NEW r, NEW s, Grows(r, s), NEW u \in 1..Len(r), s[u] = r[u], ObjectFits(r, u)
  PROVE  ObjectFits(s, u)
BY GrowthKeepsOwn DEF ObjectFits

\* What the objects and what is lost may do to the files.
LEMMA FilesStay ==
  ASSUME FilesInv, Grows(remote, remote'), lost \subseteq lost', lost' \subseteq Entities,
         UNCHANGED <<repo, map, plans, journals>>, ObjectsFit'
  PROVE  FilesInv'
<1>1. FileTypes'
  BY DEF FilesInv, FileTypes, Grows
<1>2. OwnLinks(remote, map)'
  BY GrowthKeepsOwn DEF FilesInv
<1>3. PlansFit'
  BY GrowthKeepsOwn, GrowthKeepsGone DEF FilesInv, PlansFit
<1>4. JournalsFit'
  BY GrowthKeepsOwn DEF FilesInv, JournalsFit
<1>5. JournalsInMap'
  BY DEF FilesInv, JournalsInMap
<1>6. Whole(repo)'
  BY DEF FilesInv
<1> QED BY <1>1, <1>2, <1>3, <1>4, <1>5, <1>6 DEF FilesInv

\* The same when nothing happens to the objects.
LEMMA FilesQuiet ==
  ASSUME FilesInv, lost \subseteq lost', lost' \subseteq Entities, UNCHANGED <<repo, map, plans, journals, remote>>
  PROVE  FilesInv'
<1>1. Grows(remote, remote')
  BY GrowthStays DEF FilesInv, FileTypes
<1>2. ObjectsFit'
  BY DEF FilesInv, ObjectsFit
<1> QED BY <1>1, <1>2, FilesStay

-----------------------------------------------------------------------------
\* The command

\* Nothing is at hand when no command runs.
LEMMA NothingAtHand ==
  /\ NoCommand \in CmdRecord
  /\ NoCommand.pc = "idle" /\ NoCommand.results = <<>> /\ NoCommand.made = None
  /\ NoCommand.known = [e \in Entities |-> None] /\ NoCommand.clean = TRUE /\ NoCommand.read = 0
<1>1. [e \in Entities |-> None] \in Links /\ <<>> \in Seq(Result)
  BY DEF Links, None
<1> QED BY <1>1 DEF NoCommand, CmdRecord, Pcs, None

\* A command that ends leaves nothing to be said.
LEMMA CommandEnds ==
  ASSUME cmd' = NoCommand
  PROVE  CommandInv'
<1>1. cmd' \in CmdRecord /\ cmd'.pc = "idle" /\ cmd'.results = <<>> /\ cmd'.made = None
      /\ cmd'.known = [e \in Entities |-> None]
  BY NothingAtHand
<1>2. OwnLinks(remote', cmd'.known) /\ OwnResults(remote', cmd'.results)
  <2>1. Len(<<>>) = 0 /\ 1..0 = {}
    OBVIOUS
  <2> QED BY <1>1, <2>1 DEF OwnLinks, OwnResults, None
<1>3. CmdFits'
  BY <1>1, <1>2 DEF CmdFits, HasPlan, HasMigrated, Guarded, Applying, At
<1>4. OperationsInOrder' /\ MapAsRead' /\ ResultsAsLinked' /\ HandsSeen' /\ CleanKnows' /\ CleanDone'
  BY <1>1 DEF OperationsInOrder, MapAsRead, ResultsAsLinked, HandsSeen, CleanKnows, CleanDone, HasPlan, HasMigrated,
              Guarded, Applying, At
<1> QED BY <1>1, <1>3, <1>4 DEF CommandInv

\* The objects are where they were when the command neither created one nor
\* knows one that the map does not.
LEMMA RecordedStays ==
  ASSUME Recorded, ~Applying, UNCHANGED <<map, remote>>, lost \subseteq lost'
  PROVE  Recorded'
BY DEF Recorded, InFlight

-----------------------------------------------------------------------------
\* Previews and migrations

\* The map and the catalog of the moment.
LEMMA MigratedFits ==
  ASSUME FilesInv
  PROVE  /\ MigrateV1ToV2 \in MigratedRecord
         /\ OwnLinks(remote, MigrateV1ToV2.links) /\ Whole(MigrateV1ToV2.intents)
         /\ MigrateV1ToV2.links \in Links
         /\ \A e \in Entities : MigrateV1ToV2.links[e] = IF MigrateV1ToV2.intents[e] = 0 THEN None ELSE map[e]
<1>1. MigrateV1ToV2.intents = repo
      /\ MigrateV1ToV2.links = [e \in Entities |-> IF repo[e] = 0 THEN None ELSE map[e]]
  BY DEF MigrateV1ToV2
<1>2. MigrateV1ToV2.links \in Links
  BY <1>1 DEF FilesInv, FileTypes, Links, None
<1>3. MigrateV1ToV2 \in MigratedRecord
  BY <1>1, <1>2 DEF FilesInv, FileTypes, MigratedRecord, MigrateV1ToV2
<1>4. OwnLinks(remote, MigrateV1ToV2.links)
  BY <1>1 DEF FilesInv, OwnLinks
<1> QED BY <1>1, <1>2, <1>3, <1>4 DEF FilesInv

\* A preview begins.
LEMMA buildRemotePreviewKeeps ==
  ASSUME LinearInv, NEW f \in Files, buildRemotePreview(f)
  PROVE  LinearInv'
<1>. USE DEF LinearInv
<1>1. FilesInv'
  BY FilesQuiet DEF buildRemotePreview, FilesInv, FileTypes
<1>2. ~Applying /\ Recorded'
  BY RecordedStays DEF buildRemotePreview, Start, At, Applying
<1>3. /\ cmd' \in CmdRecord /\ cmd'.pc = "previewing" /\ cmd'.file = f
      /\ cmd'.known = cmd'.migrated.links /\ cmd'.migrated = MigrateV1ToV2
      /\ cmd'.results = <<>> /\ cmd'.made = None
  BY NothingAtHand, MigratedFits DEF buildRemotePreview, CmdRecord, Pcs
<1>4. OwnLinks(remote', cmd'.known) /\ OwnResults(remote', cmd'.results)
  <2>1. Len(<<>>) = 0 /\ 1..0 = {}
    OBVIOUS
  <2> QED BY <1>3, <2>1, MigratedFits DEF OwnResults, buildRemotePreview
<1>5. CmdFits'
  BY <1>3, <1>4, MigratedFits DEF CmdFits, HasPlan, HasMigrated, Guarded, Applying, At, buildRemotePreview
<1>6. MapAsRead'
  BY <1>3, MigratedFits DEF MapAsRead, HasMigrated, Guarded, Applying, At, buildRemotePreview
<1>7. OperationsInOrder' /\ ResultsAsLinked' /\ HandsSeen' /\ CleanKnows' /\ CleanDone'
  BY <1>3 DEF OperationsInOrder, ResultsAsLinked, HandsSeen, CleanKnows, CleanDone, Guarded, Applying, At
<1> QED BY <1>1, <1>2, <1>3, <1>5, <1>6, <1>7 DEF CommandInv

\* What a preview finds.
LEMMA PreviewFits ==
  ASSUME NEW migrated \in MigratedRecord, NEW known \in Links, remote \in Seq(Objects),
         OwnLinks(remote, migrated.links), OwnLinks(remote, known)
  PROVE  LET plan == BuildCompletePreview(migrated, known)
         IN /\ plan \in PlanRecord
            /\ plan.intents = migrated.intents /\ plan.links = migrated.links
            /\ known = migrated.links => SeenUnlessGone(remote, plan)
            /\ \A e \in Entities : known[e] # None /\ known[e] = migrated.links[e] /\ Found(known[e])
                 => plan.seen[e].at = remote[known[e]].at
<1>. DEFINE plan == BuildCompletePreview(migrated, known)
<1>1. plan = [intents |-> migrated.intents, links |-> migrated.links,
              seen |-> discoverObservations(migrated, known)]
  BY DEF BuildCompletePreview, BuildPlan
<1>2. \A u \in 1..Len(remote) : remote[u] \in Objects
  BY ElementOfSeq
<1>3. \A u \in 1..Len(remote) : /\ remote[u].title \in Titles /\ remote[u].at \in Nat \ {0}
                                /\ [title |-> remote[u].title, at |-> remote[u].at] \in SeenRecord
  <2>1. MaxTitle \in Nat
    BY LinearAssumption
  <2>2. \A u \in 1..Len(remote) : remote[u].title \in 1..MaxTitle /\ remote[u].at \in Nat \ {0}
    BY <1>2 DEF Objects, Titles
  <2>3. \A u \in 1..Len(remote) : remote[u].title \in 0..MaxTitle /\ remote[u].at \in Nat
    BY <2>1, <2>2
  <2> QED BY <2>2, <2>3 DEF SeenRecord, Titles
<1>4. NotSeen \in SeenRecord /\ NotSeen.at = 0
  BY LinearAssumption DEF NotSeen, SeenRecord
<1>5. ASSUME NEW e \in Entities
      PROVE  CaptureSnapshot(known)[e] \in SeenRecord
    <2>1. CASE Found(known[e])
      <3>1. known[e] \in 1..Len(remote)
        BY <2>1 DEF OwnLinks, Own, Found
      <3>2. CaptureSnapshot(known)[e] = [title |-> remote[known[e]].title, at |-> remote[known[e]].at]
        BY <2>1 DEF CaptureSnapshot
      <3> QED BY <1>3, <3>1, <3>2
    <2>2. CASE ~Found(known[e])
      <3>1. CaptureSnapshot(known)[e] = NotSeen
        BY <2>2 DEF CaptureSnapshot
      <3> QED BY <1>4, <3>1
    <2> QED BY <2>1, <2>2
<1>6. \A e \in Entities : plan.seen[e] = IF migrated.links[e] # None /\ migrated.links[e] = known[e]
                                         THEN CaptureSnapshot(known)[e] ELSE NotSeen
  BY <1>1 DEF discoverObservations
<1>7. plan.seen \in [Entities -> SeenRecord]
  <2>1. plan.seen = discoverObservations(migrated, known)
    BY <1>1
  <2>2. \A e \in Entities : (IF migrated.links[e] # None /\ migrated.links[e] = known[e]
                             THEN CaptureSnapshot(known)[e] ELSE NotSeen) \in SeenRecord
    BY <1>4, <1>5
  <2> QED BY <2>1, <2>2 DEF discoverObservations
<1>8. plan \in PlanRecord /\ plan.intents = migrated.intents /\ plan.links = migrated.links
  <2>1. migrated.intents \in Catalogs /\ migrated.links \in Links
    BY DEF MigratedRecord
  <2>2. plan = [intents |-> migrated.intents, links |-> migrated.links, seen |-> plan.seen]
    BY <1>1
  <2>. HIDE DEF plan
  <2> QED BY <1>7, <2>1, <2>2 DEF PlanRecord
<1>. HIDE DEF plan
<1>9. ASSUME NEW e \in Entities, known[e] # None, known[e] = migrated.links[e], Found(known[e])
      PROVE  plan.seen[e].at = remote[known[e]].at /\ plan.seen[e].at # 0
  <2>1. plan.seen[e] = [title |-> remote[known[e]].title, at |-> remote[known[e]].at]
    BY <1>6, <1>9 DEF CaptureSnapshot
  <2>2. known[e] \in 1..Len(remote)
    BY <1>9 DEF OwnLinks, Own
  <2> QED BY <1>3, <2>1, <2>2
<1>10. ASSUME known = migrated.links, NEW e \in Entities, plan.links[e] # None, plan.seen[e] = NotSeen
       PROVE  remote[plan.links[e]].gone
  BY <1>4, <1>8, <1>9, <1>10 DEF Found
<1>11. known = migrated.links => SeenUnlessGone(remote, plan)
  BY <1>10 DEF SeenUnlessGone
<1> QED BY <1>8, <1>9, <1>11 DEF plan

\* A preview is written.
LEMMA writePreviewPlanKeeps ==
  ASSUME LinearInv, writePreviewPlan
  PROVE  LinearInv'
<1>. USE DEF LinearInv
<1>. DEFINE plan == BuildCompletePreview(cmd.migrated, cmd.known)
<1>1. /\ cmd.migrated \in MigratedRecord /\ OwnLinks(remote, cmd.migrated.links)
      /\ cmd.known = cmd.migrated.links /\ cmd.known \in Links /\ cmd.file \in Files /\ remote \in Seq(Objects)
  BY DEF writePreviewPlan, CommandInv, CmdFits, HasMigrated, CmdRecord, FilesInv, FileTypes
<1>2. plan \in PlanRecord /\ OwnLinks(remote, plan.links) /\ SeenUnlessGone(remote, plan)
  BY <1>1, PreviewFits
<1>3. plans' = [plans EXCEPT ![cmd.file] = plan]
  BY DEF writePreviewPlan
<1>. HIDE DEF plan
<1>4. FileTypes' /\ PlansFit'
  BY <1>1, <1>2, <1>3 DEF writePreviewPlan, FilesInv, FileTypes, PlansFit
<1>5. OwnLinks(remote, map)' /\ JournalsFit' /\ JournalsInMap' /\ ObjectsFit' /\ Whole(repo)'
  BY DEF writePreviewPlan, FilesInv, JournalsFit, JournalsInMap, ObjectsFit
<1>6. CommandInv'
  BY CommandEnds DEF writePreviewPlan, End
<1>7. Recorded'
  BY RecordedStays DEF writePreviewPlan, At, Applying
<1> QED BY <1>4, <1>5, <1>6, <1>7 DEF FilesInv

\* A migration begins.
LEMMA runLinearMapMigrateKeeps ==
  ASSUME LinearInv, runLinearMapMigrate
  PROVE  LinearInv'
<1>. USE DEF LinearInv
<1>1. FilesInv'
  BY FilesQuiet DEF runLinearMapMigrate, FilesInv, FileTypes
<1>2. ~Applying /\ Recorded'
  BY RecordedStays DEF runLinearMapMigrate, Start, At, Applying
<1>3. /\ cmd' \in CmdRecord /\ cmd'.pc = "migrating" /\ cmd'.migrated = MigrateV1ToV2
      /\ cmd'.results = <<>> /\ cmd'.made = None /\ cmd'.known = [e \in Entities |-> None]
  BY NothingAtHand, MigratedFits DEF runLinearMapMigrate, CmdRecord, Pcs
<1>4. OwnLinks(remote', cmd'.known) /\ OwnResults(remote', cmd'.results)
  <2>1. Len(<<>>) = 0 /\ 1..0 = {}
    OBVIOUS
  <2> QED BY <1>3, <2>1 DEF OwnResults, OwnLinks, None
<1>5. CmdFits'
  BY <1>3, <1>4, MigratedFits DEF CmdFits, HasPlan, HasMigrated, Guarded, Applying, At, runLinearMapMigrate
<1>6. MapAsRead'
  BY <1>3, MigratedFits DEF MapAsRead, HasMigrated, Guarded, Applying, At, runLinearMapMigrate
<1>7. OperationsInOrder' /\ ResultsAsLinked' /\ HandsSeen' /\ CleanKnows' /\ CleanDone'
  BY <1>3 DEF OperationsInOrder, ResultsAsLinked, HandsSeen, CleanKnows, CleanDone, Guarded, Applying, At
<1> QED BY <1>1, <1>2, <1>3, <1>5, <1>6, <1>7 DEF CommandInv

\* The map is rewritten: a link that is dropped is lost.
LEMMA WriteMigrationKeeps ==
  ASSUME LinearInv, WriteMigration
  PROVE  LinearInv'
<1>. USE DEF LinearInv
<1>1. cmd.migrated \in MigratedRecord /\ OwnLinks(remote, cmd.migrated.links)
  BY DEF WriteMigration, CommandInv, CmdFits, HasMigrated
<1>2. \A e \in Entities : map'[e] = map[e] \/ map'[e] = None
  BY DEF WriteMigration, CommandInv, MapAsRead, HasMigrated, At
<1>3. /\ lost' = lost \cup {e \in Entities : map[e] # None /\ map'[e] = None}
      /\ map' = cmd.migrated.links /\ UNCHANGED <<repo, plans, journals, remote>>
  BY DEF WriteMigration
<1>4. \A e \in Entities : e \notin lost' /\ map[e] # None => map'[e] = map[e] /\ e \notin lost
  BY <1>2, <1>3
<1>5. FileTypes' /\ OwnLinks(remote, map)'
  BY <1>1, <1>3 DEF FilesInv, FileTypes, MigratedRecord
<1>6. PlansFit' /\ JournalsFit' /\ ObjectsFit' /\ Whole(repo)'
  BY <1>3 DEF FilesInv, PlansFit, JournalsFit, ObjectsFit
<1>7. JournalsInMap'
  <2>. SUFFICES ASSUME NEW f \in Files, journals[f] # NoJournal, NEW i \in 1..Len(journals[f].results),
                       journals[f].results[i].id \notin lost'
                PROVE  map'[journals[f].results[i].id] = journals[f].results[i].uuid
    BY <1>3 DEF JournalsInMap
  <2>. DEFINE r == journals[f].results[i]
  <2>1. r \in Result
    BY ElementOfSeq DEF FilesInv, FileTypes, JournalRecord
  <2>2. r.id \in Entities
    BY <2>1 DEF Result
  <2>3. r.uuid # None
    BY DEF FilesInv, JournalsFit, OwnResults, Own, None
  <2>4. r.id \notin lost => map[r.id] = r.uuid
    BY DEF FilesInv, JournalsInMap
  <2>5. r.id \notin lost
    BY <1>3
  <2> QED BY <1>4, <2>2, <2>3, <2>4, <2>5
<1>8. CommandInv'
  BY CommandEnds DEF WriteMigration, End
<1>9. Recorded'
  <2>1. \A u \in 1..Len(remote) : remote[u].of \in Entities /\ u # None
    <3>1. \A u \in 1..Len(remote) : remote[u] \in Objects
      BY ElementOfSeq DEF FilesInv, FileTypes
    <3> QED BY <3>1 DEF Objects, None
  <2>2. ~Applying
    BY DEF WriteMigration, At, Applying
  <2>3. \A u \in 1..Len(remote) : remote[u].of \notin lost => map[remote[u].of] = u
    BY <2>2 DEF Recorded, InFlight
  <2>4. lost \subseteq lost'
    BY <1>3
  <2> QED BY <1>3, <1>4, <2>1, <2>3, <2>4 DEF Recorded
<1> QED BY <1>5, <1>6, <1>7, <1>8, <1>9 DEF FilesInv

-----------------------------------------------------------------------------
\* An apply and its guards

\* A plan file is read.
LEMMA newProcessLinearClientKeeps ==
  ASSUME LinearInv, NEW f \in Files, newProcessLinearClient(f)
  PROVE  LinearInv'
<1>. USE DEF LinearInv
<1>1. FilesInv'
  BY FilesQuiet DEF newProcessLinearClient, FilesInv, FileTypes
<1>2. Recorded'
  BY RecordedStays DEF newProcessLinearClient, Start, At, Applying
<1>3. plans[f] \in PlanRecord /\ OwnLinks(remote, plans[f].links) /\ SeenUnlessGone(remote, plans[f])
  BY DEF newProcessLinearClient, FilesInv, FileTypes, PlansFit
<1>4. /\ cmd' \in CmdRecord /\ cmd'.pc = "client" /\ cmd'.file = f /\ cmd'.plan = plans[f]
      /\ cmd'.known = MigrateV1ToV2.links /\ cmd'.results = <<>> /\ cmd'.made = None
  BY <1>3, NothingAtHand, MigratedFits DEF newProcessLinearClient, CmdRecord, Pcs
<1>5. OwnLinks(remote', cmd'.known) /\ OwnResults(remote', cmd'.results)
  <2>1. Len(<<>>) = 0 /\ 1..0 = {}
    OBVIOUS
  <2> QED BY <1>4, <2>1, MigratedFits DEF OwnResults, newProcessLinearClient
<1>6. CmdFits'
  BY <1>3, <1>4, <1>5 DEF CmdFits, HasPlan, HasMigrated, Guarded, Applying, At, newProcessLinearClient
<1>7. CleanKnows'
  <2>1. MigrateV1ToV2' = MigrateV1ToV2
    BY DEF MigrateV1ToV2, newProcessLinearClient
  <2> QED BY <1>4, <2>1 DEF CleanKnows, Applying, At
<1>8. OperationsInOrder' /\ ResultsAsLinked' /\ HandsSeen' /\ MapAsRead' /\ CleanDone'
  BY <1>4 DEF OperationsInOrder, ResultsAsLinked, HandsSeen, MapAsRead, HasMigrated, CleanDone, Guarded, Applying, At
<1> QED BY <1>1, <1>2, <1>4, <1>6, <1>7, <1>8 DEF CommandInv

\* The map and the planning files are read.
LEMMA runLinearApplyKeeps ==
  ASSUME LinearInv, runLinearApply
  PROVE  LinearInv'
<1>. USE DEF LinearInv
<1>1. FilesInv'
  BY FilesQuiet DEF runLinearApply, FilesInv, FileTypes
<1>2. Recorded'
  BY RecordedStays DEF runLinearApply, Start, At, Applying
<1>3. /\ cmd \in CmdRecord /\ cmd.results = <<>> /\ cmd.made = None /\ cmd.file \in Files
      /\ cmd.plan \in PlanRecord /\ OwnLinks(remote, cmd.plan.links) /\ SeenUnlessGone(remote, cmd.plan)
      /\ OwnLinks(remote, cmd.known) /\ OwnResults(remote, cmd.results)
      /\ cmd.clean => cmd.known = MigrateV1ToV2.links
  BY DEF CommandInv, CmdFits, CleanKnows, runLinearApply, HasPlan, Guarded, Applying, At
<1>4. /\ cmd' \in CmdRecord /\ cmd'.pc = "migrated" /\ cmd'.file = cmd.file /\ cmd'.plan = cmd.plan
      /\ cmd'.known = cmd.known /\ cmd'.results = <<>> /\ cmd'.made = None /\ cmd'.clean = cmd.clean
      /\ cmd'.migrated = MigrateV1ToV2
  BY <1>3, MigratedFits DEF runLinearApply, CmdRecord, Pcs
<1>5. CmdFits'
  BY <1>3, <1>4, MigratedFits DEF CmdFits, HasPlan, HasMigrated, Guarded, Applying, At, runLinearApply
<1>6. CleanKnows'
  BY <1>3, <1>4 DEF CleanKnows, Applying, At
<1>7. MapAsRead'
  BY <1>4, MigratedFits DEF MapAsRead, HasMigrated, Guarded, Applying, At, runLinearApply
<1>8. OperationsInOrder' /\ ResultsAsLinked' /\ HandsSeen' /\ CleanDone'
  BY <1>4 DEF OperationsInOrder, ResultsAsLinked, HandsSeen, CleanDone, Guarded, Applying, At
<1> QED BY <1>1, <1>2, <1>4, <1>5, <1>6, <1>7, <1>8 DEF CommandInv

\* A plan that is fresh is about the map and the catalog of the moment.
LEMMA FreshPlan ==
  ASSUME LinearInv, At("migrated"), ValidatePlanFreshness(cmd.plan, cmd.migrated, cmd.known)
  PROVE  /\ cmd.plan.intents = cmd.migrated.intents /\ cmd.plan.links = cmd.migrated.links
         /\ \A e \in Entities : cmd.plan.links[e] # None /\ cmd.known[e] = cmd.plan.links[e] /\ Found(cmd.known[e])
                 => remote[cmd.plan.links[e]].at = cmd.plan.seen[e].at
<1>1. /\ cmd.migrated \in MigratedRecord /\ OwnLinks(remote, cmd.migrated.links)
      /\ cmd.known \in Links /\ OwnLinks(remote, cmd.known) /\ remote \in Seq(Objects)
  BY DEF LinearInv, CommandInv, CmdFits, HasMigrated, CmdRecord, FilesInv, FileTypes
<1>2. BuildCompletePreview(cmd.migrated, cmd.known) = cmd.plan
  BY DEF ValidatePlanFreshness
<1> QED BY <1>1, <1>2, PreviewFits

\* What results are of, when they are of the first operations of a plan.
LEMMA ResultsInOrder ==
  ASSUME NEW plan, NEW results \in Seq(Result), FirstOf(plan, results)
  PROVE  /\ Len(results) \in Nat /\ Len(Operations(plan)) \in Nat /\ Len(results) <= Len(Operations(plan))
         /\ \A i \in 1..Len(results) : /\ results[i].id \in Entities /\ plan.intents[results[i].id] # 0
                                       /\ results[i].id = Operations(plan)[i]
                                       /\ i \in 1..Len(Operations(plan))
         /\ \A i, j \in 1..Len(results) : results[i].id = results[j].id => i = j
         /\ Len(results) < Len(Operations(plan)) =>
              LET next == Operations(plan)[Len(results) + 1]
              IN /\ next \in Entities /\ plan.intents[next] # 0
                 /\ \A i \in 1..Len(results) : results[i].id # next
<1>1. Len(results) \in Nat /\ Len(Operations(plan)) \in Nat /\ Len(results) <= Len(Operations(plan))
  BY OperationsSorted, LinearAssumption DEF FirstOf
<1>2. \A i \in 1..Len(results) : i \in 1..Len(Operations(plan)) /\ results[i].id = Operations(plan)[i]
  BY <1>1 DEF FirstOf
<1>3. \A i \in 1..Len(Operations(plan)) : Operations(plan)[i] \in Entities /\ plan.intents[Operations(plan)[i]] # 0
  BY OperationsSorted
<1>4. \A i, j \in 1..Len(Operations(plan)) : Operations(plan)[i] = Operations(plan)[j] => i = j
  BY OperationsSorted
<1>5. \A i \in 1..Len(results) : results[i].id \in Entities /\ plan.intents[results[i].id] # 0
  BY <1>2, <1>3
<1>6. \A i, j \in 1..Len(results) : results[i].id = results[j].id => i = j
  BY <1>2, <1>4
<1>7. ASSUME Len(results) < Len(Operations(plan))
      PROVE  LET next == Operations(plan)[Len(results) + 1]
             IN /\ next \in Entities /\ plan.intents[next] # 0
                /\ \A i \in 1..Len(results) : results[i].id # next
  <2>1. Len(results) + 1 \in 1..Len(Operations(plan)) /\ \A i \in 1..Len(results) : i # Len(results) + 1
    BY <1>1, <1>7
  <2> QED BY <1>2, <1>3, <1>4, <2>1
<1> QED BY <1>1, <1>2, <1>5, <1>6, <1>7

\* The results an apply goes on from.
Resumed(f) == IF journals[f] = NoJournal THEN <<>> ELSE journals[f].results

\* What a journal lets an apply go on from.
LEMMA JournalFits ==
  ASSUME LinearInv, NEW plan, NEW f \in Files, ResumePrefix(plan, journals[f])
  PROVE  /\ Resumed(f) \in Seq(Result) /\ OwnResults(remote, Resumed(f)) /\ FirstOf(plan, Resumed(f))
         /\ \A i \in 1..Len(Resumed(f)) :
              /\ Resumed(f)[i] \in Result
              /\ Resumed(f)[i].id \notin lost => map[Resumed(f)[i].id] = Resumed(f)[i].uuid
<1>. DEFINE results == Resumed(f)
<1>1. CASE journals[f] = NoJournal
  <2>1. results = <<>> /\ Len(<<>>) = 0 /\ 1..0 = {} /\ <<>> \in Seq(Result)
    BY <1>1 DEF Resumed
  <2>. HIDE DEF results
  <2>2. 0 <= Len(Operations(plan))
    BY OperationsSorted, LinearAssumption
  <2> QED BY <2>1, <2>2 DEF OwnResults, FirstOf, results
<1>2. CASE journals[f] # NoJournal
  <2>1. results = journals[f].results /\ journals[f].plan = plan /\ journals[f] \in JournalRecord
    BY <1>2 DEF ResumePrefix, LinearInv, FilesInv, FileTypes, Resumed
  <2>. HIDE DEF results
  <2>2. results \in Seq(Result)
    BY <2>1 DEF JournalRecord
  <2>3. \A i \in 1..Len(results) : results[i] \in Result
    BY <2>2, ElementOfSeq
  <2>4. OwnResults(remote, results) /\ FirstOf(plan, results)
    BY <1>2, <2>1 DEF LinearInv, FilesInv, JournalsFit
  <2>5. \A i \in 1..Len(results) : results[i].id \notin lost => map[results[i].id] = results[i].uuid
    BY <1>2, <2>1 DEF LinearInv, FilesInv, JournalsInMap
  <2> QED BY <2>2, <2>3, <2>4, <2>5 DEF results
<1> QED BY <1>1, <1>2

\* An apply begins, or is refused.
LEMMA RunApplyKeeps ==
  ASSUME LinearInv, RunApply
  PROVE  LinearInv'
<1>. USE DEF LinearInv
<1>1. FilesInv'
  BY FilesQuiet DEF RunApply, FilesInv, FileTypes
<1>2. Recorded'
  BY RecordedStays DEF RunApply, Start, At, Applying
<1>3. CASE cmd' = NoCommand
  BY <1>1, <1>2, <1>3, CommandEnds
<1>4. CASE cmd' # NoCommand
  <2>. DEFINE results == Resumed(cmd.file)
  <2>1. /\ At("migrated") /\ ValidatePlanFreshness(cmd.plan, cmd.migrated, cmd.known)
        /\ ResumePrefix(cmd.plan, journals[cmd.file])
        /\ cmd' = [cmd EXCEPT !.pc = "apply", !.results = results]
    BY <1>4 DEF RunApply, End, Resumed
  <2>2. /\ cmd \in CmdRecord /\ cmd.made = None /\ cmd.file \in Files
        /\ cmd.plan \in PlanRecord /\ OwnLinks(remote, cmd.plan.links) /\ SeenUnlessGone(remote, cmd.plan)
        /\ cmd.migrated \in MigratedRecord /\ OwnLinks(remote, cmd.migrated.links) /\ Whole(cmd.migrated.intents)
        /\ OwnLinks(remote, cmd.known)
        /\ cmd.clean => cmd.known = cmd.migrated.links
        /\ \A e \in Entities : cmd.migrated.links[e] = IF cmd.migrated.intents[e] = 0 THEN None ELSE map[e]
    BY <2>1 DEF CommandInv, CmdFits, CleanKnows, MapAsRead, HasPlan, HasMigrated, Guarded, Applying, At
  <2>3. /\ cmd.plan.intents = cmd.migrated.intents /\ cmd.plan.links = cmd.migrated.links
        /\ \A e \in Entities : cmd.plan.links[e] # None /\ cmd.known[e] = cmd.plan.links[e] /\ Found(cmd.known[e])
                 => remote[cmd.plan.links[e]].at = cmd.plan.seen[e].at
    BY <2>1, FreshPlan
  <2>4. /\ results \in Seq(Result) /\ OwnResults(remote, results) /\ FirstOf(cmd.plan, results)
        /\ \A i \in 1..Len(results) : /\ results[i] \in Result
                                      /\ results[i].id \notin lost => map[results[i].id] = results[i].uuid
    BY <2>1, <2>2, JournalFits
  <2>. HIDE DEF results
  <2>5. /\ cmd' \in CmdRecord /\ cmd'.pc = "apply" /\ cmd'.file = cmd.file /\ cmd'.plan = cmd.plan
        /\ cmd'.known = cmd.known /\ cmd'.results = results /\ cmd'.made = None /\ cmd'.clean = cmd.clean
        /\ cmd'.migrated = cmd.migrated
    BY <2>1, <2>2, <2>4 DEF CmdRecord, Pcs
  <2>6. UNCHANGED <<map, remote, lost>>
    BY DEF RunApply
  <2>7. CmdFits'
    BY <2>2, <2>4, <2>5, <2>6 DEF CmdFits, HasPlan, HasMigrated, Guarded, Applying, At
  <2>8. OperationsInOrder'
    BY <2>4, <2>5 DEF OperationsInOrder, Guarded, Applying, At
  <2>9. MapAsRead'
    BY <2>2, <2>3, <2>5, <2>6 DEF MapAsRead, HasMigrated, Guarded, Applying, At
  <2>10. \A i \in 1..Len(results) : results[i].id \in Entities /\ cmd.plan.intents[results[i].id] # 0
    BY <2>4, ResultsInOrder
  <2>11. \A i \in 1..Len(results) : results[i].id \notin lost => cmd.plan.links[results[i].id] = results[i].uuid
    BY <2>2, <2>3, <2>4, <2>10
  <2>12. ResultsAsLinked'
    BY <2>5, <2>6, <2>11 DEF ResultsAsLinked, Applying, At
  <2>13. CleanKnows'
    <3>1. cmd.clean => \A e \in Entities : cmd.plan.links[e] # None => cmd.known[e] = cmd.plan.links[e]
      BY <2>2, <2>3
    <3>2. cmd.clean => \A e \in Entities : AsSeen(e)'
      BY <2>3, <2>5, <2>6, <3>1 DEF AsSeen, Found
    <3>3. cmd.clean /\ NoneLost' => \A i \in 1..Len(results) : cmd.known[results[i].id] = results[i].uuid
      BY <2>2, <2>3, <2>5, <2>6, <2>10, <2>11 DEF NoneLost
    <3> QED BY <2>5, <3>1, <3>2, <3>3 DEF CleanKnows, At
  <2>14. HandsSeen' /\ CleanDone'
    BY <2>5 DEF HandsSeen, CleanDone, At
  <2> QED BY <1>1, <1>2, <2>5, <2>7, <2>8, <2>9, <2>12, <2>13, <2>14 DEF CommandInv
<1> QED BY <1>3, <1>4

-----------------------------------------------------------------------------
\* An apply under way

\* What an apply that passed its guards has at hand.
LEMMA AtHand ==
  ASSUME LinearInv, Applying
  PROVE  /\ cmd \in CmdRecord /\ cmd.file \in Files /\ cmd.plan \in PlanRecord /\ cmd.migrated \in MigratedRecord
         /\ cmd.results \in Seq(Result) /\ cmd.known \in Links
         /\ OwnLinks(remote, cmd.plan.links) /\ SeenUnlessGone(remote, cmd.plan)
         /\ OwnLinks(remote, cmd.migrated.links) /\ Whole(cmd.plan.intents)
         /\ OwnLinks(remote, cmd.known) /\ OwnResults(remote, cmd.results)
         /\ FirstOf(cmd.plan, cmd.results)
         /\ cmd.plan.intents = cmd.migrated.intents /\ cmd.plan.links = cmd.migrated.links
         /\ \A e \in Entities : cmd.migrated.links[e] = IF cmd.migrated.intents[e] = 0 THEN None ELSE map[e]
         /\ remote \in Seq(Objects) /\ lost \subseteq Entities
<1>1. HasPlan /\ HasMigrated /\ Guarded /\ ~At("mapped")
  BY DEF HasPlan, HasMigrated, Guarded, Applying, At
<1>2. cmd.plan.intents = cmd.migrated.intents /\ cmd.plan.links = cmd.migrated.links
  BY <1>1 DEF LinearInv, CommandInv, MapAsRead
<1>3. CmdFits /\ OperationsInOrder /\ MapAsRead /\ cmd \in CmdRecord
  BY DEF LinearInv, CommandInv
<1> QED BY <1>1, <1>2, <1>3 DEF CmdFits, OperationsInOrder, MapAsRead, LinearInv, FilesInv, FileTypes, CmdRecord

\* The operation under way, its entity, its object.
LEMMA NextOperation ==
  ASSUME LinearInv, Applying, Len(cmd.results) < Len(Operations(cmd.plan))
  PROVE  /\ Current \in Entities /\ cmd.plan.intents[Current] # 0 /\ cmd.plan.intents[Current] \in Titles
         /\ \A i \in 1..Len(cmd.results) : cmd.results[i].id # Current
         /\ cmd.plan.links[Current] # None =>
              /\ cmd.plan.links[Current] \in 1..Len(remote) /\ remote[cmd.plan.links[Current]].of = Current
              /\ remote[cmd.plan.links[Current]] \in Objects
<1>1. cmd.results \in Seq(Result) /\ FirstOf(cmd.plan, cmd.results) /\ cmd.plan \in PlanRecord
      /\ OwnLinks(remote, cmd.plan.links) /\ remote \in Seq(Objects)
  BY AtHand
<1>2. Current \in Entities /\ cmd.plan.intents[Current] # 0 /\ \A i \in 1..Len(cmd.results) : cmd.results[i].id # Current
  BY <1>1, ResultsInOrder DEF Current
<1>3. cmd.plan.intents[Current] \in Titles
  <2>1. cmd.plan.intents[Current] \in 0..MaxTitle /\ MaxTitle \in Nat
    BY <1>1, <1>2, LinearAssumption DEF PlanRecord, Catalogs
  <2> QED BY <1>2, <2>1 DEF Titles
<1>4. cmd.plan.links[Current] # None =>
        cmd.plan.links[Current] \in 1..Len(remote) /\ remote[cmd.plan.links[Current]].of = Current
  BY <1>1, <1>2 DEF OwnLinks, Own
<1>5. \A u \in 1..Len(remote) : remote[u] \in Objects
  BY <1>1, ElementOfSeq
<1> QED BY <1>2, <1>3, <1>4, <1>5

\* An undisturbed apply knows the object of the entity above.
LEMMA ParentKnown ==
  ASSUME LinearInv, Applying, ~At("commit"), Len(cmd.results) < Len(Operations(cmd.plan)), cmd.clean, NoneLost
  PROVE  ParentResolved(Current)
<1>. DEFINE e == Current
            p == Parent[e]
            ops == Operations(cmd.plan)
<1>1. /\ cmd.results \in Seq(Result) /\ FirstOf(cmd.plan, cmd.results) /\ Whole(cmd.plan.intents)
      /\ OwnResults(remote, cmd.results)
  BY AtHand
<1>2. e \in Entities /\ cmd.plan.intents[e] # 0
  BY NextOperation
<1>3. CASE p = 0
  BY <1>3 DEF ParentResolved
<1>4. CASE p # 0
  <2>1. p \in Entities
    <3>1. p \in 0..N
      BY <1>2, LinearAssumption
    <3> QED BY <1>4, <3>1, LinearAssumption DEF Entities
  <2>2. cmd.plan.intents[p] # 0
    BY <1>1, <1>2, <1>4, <2>1 DEF Whole
  <2>3. SortsBefore(p, e)
    BY <1>2, <1>4, LinearAssumption DEF SortsBefore
  <2>4. PICK j \in 1..Len(ops) : ops[j] = p
    BY <2>1, <2>2, OperationsSorted
  <2>5. Len(cmd.results) \in Nat /\ Len(ops) \in Nat
    BY <1>1, ResultsInOrder
  <2>6. Len(cmd.results) + 1 \in 1..Len(ops) /\ e = ops[Len(cmd.results) + 1]
    BY <2>5 DEF Current
  <2>. HIDE DEF ops, e, p
  <2>7. j < Len(cmd.results) + 1
    <3>1. \A i, k \in 1..Len(ops) : SortsBefore(ops[i], ops[k]) => i < k
      BY OperationsSorted DEF ops
    <3> QED BY <2>3, <2>4, <2>6, <3>1
  <2>8. j \in 1..Len(cmd.results)
    BY <2>4, <2>5, <2>7
  <2>9. cmd.results[j].id = p
    BY <1>1, <2>4, <2>8, ResultsInOrder DEF ops
  <2>10. cmd.known[p] = cmd.results[j].uuid
    <3>1. CleanKnows
      BY DEF LinearInv, CommandInv
    <3> QED BY <2>8, <2>9, <3>1 DEF CleanKnows
  <2>11. cmd.results[j].uuid # None
    BY <1>1, <2>8 DEF OwnResults, Own, None
  <2> QED BY <2>10, <2>11 DEF ParentResolved, resolveParentUUID, e, p
<1> QED BY <1>3, <1>4

\* An undisturbed apply finds the object as the plan saw it.
LEMMA ObjectAsSeen ==
  ASSUME LinearInv, At("apply"), Len(cmd.results) < Len(Operations(cmd.plan)), cmd.clean,
         cmd.plan.links[Current] # None, Found(cmd.plan.links[Current])
  PROVE  remote[cmd.plan.links[Current]].at = cmd.plan.seen[Current].at
<1>1. Applying /\ ~At("commit") /\ ~At("confirm")
  BY DEF Applying, At
<1>2. Current \in Entities /\ \A i \in 1..Len(cmd.results) : cmd.results[i].id # Current
  BY <1>1, NextOperation
<1>3. Undone(Current)
  BY <1>1, <1>2 DEF Undone
<1>4. CleanKnows
  BY DEF LinearInv, CommandInv
<1> QED BY <1>1, <1>2, <1>3, <1>4 DEF CleanKnows, AsSeen

\* An apply that stops keeps what it achieved.
LEMMA StopKeeps ==
  ASSUME LinearInv, Applying, Grows(remote, remote'), lost \subseteq lost', lost' \subseteq Entities,
         UNCHANGED <<repo, map, plans, journals>>, ObjectsFit',
         cmd' \in CmdRecord, cmd'.pc = "commit", cmd'.made = None,
         cmd'.file = cmd.file, cmd'.plan = cmd.plan, cmd'.migrated = cmd.migrated,
         cmd'.results = cmd.results, cmd'.known = cmd.known, CleanDone'
  PROVE  FilesInv' /\ CommandInv'
<1>1. FilesInv'
  BY FilesStay DEF LinearInv
<1>2. /\ cmd.file \in Files /\ cmd.plan \in PlanRecord /\ cmd.migrated \in MigratedRecord
      /\ OwnLinks(remote, cmd.plan.links) /\ SeenUnlessGone(remote, cmd.plan)
      /\ OwnLinks(remote, cmd.migrated.links) /\ Whole(cmd.plan.intents)
      /\ OwnLinks(remote, cmd.known) /\ OwnResults(remote, cmd.results)
      /\ FirstOf(cmd.plan, cmd.results)
      /\ cmd.plan.intents = cmd.migrated.intents /\ cmd.plan.links = cmd.migrated.links
      /\ \A e \in Entities : cmd.migrated.links[e] = IF cmd.migrated.intents[e] = 0 THEN None ELSE map[e]
  BY AtHand
<1>3. /\ OwnLinks(remote', cmd.plan.links) /\ SeenUnlessGone(remote', cmd.plan)
      /\ OwnLinks(remote', cmd.migrated.links)
      /\ OwnLinks(remote', cmd.known) /\ OwnResults(remote', cmd.results)
  BY <1>2, GrowthKeepsOwn, GrowthKeepsGone
<1>4. CmdFits'
  BY <1>2, <1>3 DEF CmdFits, HasPlan, HasMigrated, Guarded, Applying, At
<1>5. OperationsInOrder' /\ MapAsRead'
  BY <1>2 DEF OperationsInOrder, MapAsRead, HasMigrated, Guarded, Applying, At
<1>6. ResultsAsLinked'
  <2>1. ResultsAsLinked
    BY DEF LinearInv, CommandInv
  <2> QED BY <2>1 DEF ResultsAsLinked, Applying, At
<1>7. HandsSeen' /\ CleanKnows'
  BY DEF HandsSeen, CleanKnows, At
<1> QED BY <1>1, <1>4, <1>5, <1>6, <1>7 DEF CommandInv

\* An object that was made and not recorded when the apply stops is lost.
LEMMA StopRecords ==
  ASSUME LinearInv, Applying, lost \subseteq lost', map' = map,
         Len(remote') = Len(remote), \A u \in 1..Len(remote) : remote'[u].of = remote[u].of,
         cmd'.pc = "commit", cmd'.plan = cmd.plan, cmd'.results = cmd.results,
         At("confirm") => Current \in lost' \/ cmd.plan.links[Current] # None
  PROVE  Recorded'
<1>. SUFFICES ASSUME NEW u \in 1..Len(remote), remote[u].of \notin lost'
              PROVE  map[remote[u].of] = u \/ InFlight(remote[u].of, u)'
  BY DEF Recorded
<1>1. map[remote[u].of] = u \/ InFlight(remote[u].of, u)
  BY DEF LinearInv, Recorded
<1>2. CASE map[remote[u].of] = u
  BY <1>2
<1>3. CASE InFlight(remote[u].of, u)
  <2>1. \E i \in 1..Len(cmd.results) : cmd.results[i].id = remote[u].of /\ cmd.results[i].uuid = u
    BY <1>3 DEF InFlight
  <2> QED BY <1>3, <2>1 DEF InFlight, Applying
<1> QED BY <1>1, <1>2, <1>3

-----------------------------------------------------------------------------
\* The operations

\* What stopping does to the command.
LEMMA StopDoes ==
  ASSUME LinearInv, Applying, Stop
  PROVE  /\ cmd' \in CmdRecord /\ cmd'.pc = "commit" /\ cmd'.made = None
         /\ cmd'.file = cmd.file /\ cmd'.plan = cmd.plan /\ cmd'.migrated = cmd.migrated
         /\ cmd'.results = cmd.results /\ cmd'.known = cmd.known /\ cmd'.clean = cmd.clean
<1>1. cmd \in CmdRecord
  BY AtHand
<1> QED BY <1>1 DEF Stop, CmdRecord, Pcs, None

\* Nothing is left to do, or nothing that may be tried.
LEMMA applyOperationsKeeps ==
  ASSUME LinearInv, applyOperations
  PROVE  LinearInv'
<1>1. Applying /\ ~At("confirm") /\ Stop /\ UNCHANGED <<repo, map, plans, journals, remote, lost>>
  BY DEF applyOperations, Applying, At
<1>2. /\ remote \in Seq(Objects) /\ lost \subseteq Entities /\ FirstOf(cmd.plan, cmd.results)
      /\ cmd.results \in Seq(Result) /\ Whole(cmd.plan.intents)
  BY <1>1, AtHand
<1>3. Len(cmd.results) = Len(Operations(cmd.plan))
  <2>1. SUFFICES ASSUME Len(cmd.results) < Len(Operations(cmd.plan)) PROVE FALSE
    <3>1. Len(cmd.results) \in Nat /\ Len(Operations(cmd.plan)) \in Nat
          /\ Len(cmd.results) <= Len(Operations(cmd.plan))
      BY <1>2, ResultsInOrder
    <3> QED BY <3>1
  <2>2. Current \in classifyBlocked(cmd.plan, cmd.migrated.links)
    BY <2>1 DEF applyOperations, Finished
  <2>3. Current \in Entities /\ cmd.plan.intents[Current] # 0 /\ Parent[Current] # 0
        /\ cmd.plan.intents[Parent[Current]] = 0
    BY <2>2 DEF classifyBlocked
  <2> QED BY <1>2, <2>3 DEF Whole
<1>4. CleanDone'
  BY <1>1, <1>3, StopDoes DEF CleanDone
<1>5. Grows(remote, remote') /\ ObjectsFit'
  BY <1>1, <1>2, GrowthStays DEF LinearInv, FilesInv, ObjectsFit
<1>6. FilesInv' /\ CommandInv'
  BY <1>1, <1>2, <1>4, <1>5, StopDoes, StopKeeps
<1>7. Recorded'
  BY <1>1, StopDoes, StopRecords
<1> QED BY <1>6, <1>7 DEF LinearInv

\* An operation is achieved: on the object of the link, or on the one that the
\* apply made for an entity without one.
LEMMA AchieveKeeps ==
  ASSUME LinearInv, At("apply") \/ At("confirm"), Len(cmd.results) < Len(Operations(cmd.plan)),
         NEW u, Achieve(u), Own(remote, Current, u),
         UNCHANGED <<repo, map, plans, journals, remote, lost>>,
         cmd.plan.links[Current] # None => u = cmd.plan.links[Current],
         At("confirm") => cmd.made = u,
         cmd.clean => cmd.known[Current] = u
  PROVE  LinearInv'
<1>1. Applying /\ ~At("commit")
  BY DEF Applying, At
<1>2. /\ cmd \in CmdRecord /\ cmd.file \in Files /\ cmd.plan \in PlanRecord /\ cmd.migrated \in MigratedRecord
      /\ cmd.results \in Seq(Result) /\ cmd.known \in Links
      /\ OwnLinks(remote, cmd.plan.links) /\ SeenUnlessGone(remote, cmd.plan)
      /\ OwnLinks(remote, cmd.migrated.links) /\ Whole(cmd.plan.intents)
      /\ OwnLinks(remote, cmd.known) /\ OwnResults(remote, cmd.results)
      /\ FirstOf(cmd.plan, cmd.results)
      /\ cmd.plan.intents = cmd.migrated.intents /\ cmd.plan.links = cmd.migrated.links
      /\ \A e \in Entities : cmd.migrated.links[e] = IF cmd.migrated.intents[e] = 0 THEN None ELSE map[e]
      /\ remote \in Seq(Objects) /\ lost \subseteq Entities
  BY <1>1, AtHand
<1>3. Current \in Entities /\ cmd.plan.intents[Current] # 0 /\ \A i \in 1..Len(cmd.results) : cmd.results[i].id # Current
  BY <1>1, NextOperation
<1>. DEFINE e == Current
            new == [id |-> e, uuid |-> u]
            n == Len(cmd.results)
            results == Append(cmd.results, new)
<1>4. u \in Nat /\ Len(remote) \in Nat
  BY <1>2 DEF Own
<1>5. new \in Result
  BY <1>3, <1>4 DEF Result
<1>6. /\ results \in Seq(Result) /\ Len(results) = n + 1 /\ results[n + 1] = new
      /\ \A i \in 1..n : results[i] = cmd.results[i]
  BY <1>2, <1>5, AppendProperties
<1>7. n \in Nat /\ Len(Operations(cmd.plan)) \in Nat /\ n < Len(Operations(cmd.plan))
  BY <1>2, ResultsInOrder
<1>8. e = Operations(cmd.plan)[n + 1]
  BY DEF Current
<1>9. new.id = e /\ new.uuid = u
  OBVIOUS
<1>10. /\ cmd' \in CmdRecord /\ cmd'.pc = "apply" /\ cmd'.made = None /\ cmd'.results = results
       /\ cmd'.file = cmd.file /\ cmd'.plan = cmd.plan /\ cmd'.migrated = cmd.migrated
       /\ cmd'.known = cmd.known /\ cmd'.clean = cmd.clean
  BY <1>2, <1>6 DEF Achieve, CmdRecord, Pcs, None
<1>. HIDE DEF new, n, results, e
<1>11. \A i \in 1..(n + 1) : i \in 1..n \/ i = n + 1
  BY <1>7
<1>12. OwnResults(remote, results)
  BY <1>2, <1>6, <1>9, <1>11 DEF OwnResults, n, e
<1>13. FirstOf(cmd.plan, results)
  <2>1. Len(results) <= Len(Operations(cmd.plan))
    BY <1>6, <1>7
  <2> QED BY <1>2, <1>6, <1>8, <1>9, <1>11, <2>1 DEF FirstOf, n
<1>14. FilesInv'
  BY <1>2, FilesQuiet DEF LinearInv
<1>15. CmdFits'
  BY <1>2, <1>10, <1>12 DEF CmdFits, HasPlan, HasMigrated, Guarded, Applying, At
<1>16. OperationsInOrder' /\ MapAsRead' /\ HandsSeen' /\ CleanDone'
  BY <1>2, <1>10, <1>13 DEF OperationsInOrder, MapAsRead, HandsSeen, CleanDone, HasMigrated, Guarded, Applying, At
<1>17. ResultsAsLinked'
  <2>1. ResultsAsLinked
    BY DEF LinearInv, CommandInv
  <2>2. \A i \in 1..n : cmd.plan.links[results[i].id] # None /\ results[i].id \notin lost
                        => results[i].uuid = cmd.plan.links[results[i].id]
    BY <1>1, <1>6, <2>1 DEF ResultsAsLinked, n
  <2>3. cmd.plan.links[e] # None => u = cmd.plan.links[e]
    BY DEF e
  <2>4. \A i \in 1..(n + 1) : cmd.plan.links[results[i].id] # None /\ results[i].id \notin lost
                              => results[i].uuid = cmd.plan.links[results[i].id]
    BY <1>6, <1>9, <1>11, <2>2, <2>3
  <2> QED BY <1>6, <1>10, <2>4 DEF ResultsAsLinked, At
<1>18. CleanKnows'
  <2>1. CleanKnows
    BY DEF LinearInv, CommandInv
  <2>2. NoneLost' <=> NoneLost
    BY <1>10 DEF NoneLost
  <2>3. cmd.clean /\ NoneLost => \A i \in 1..n : cmd.known[results[i].id] = results[i].uuid
    BY <1>1, <1>6, <2>1 DEF CleanKnows, n
  <2>4. cmd.clean => cmd.known[e] = u
    BY DEF e
  <2>5. cmd.clean /\ NoneLost => \A i \in 1..(n + 1) : cmd.known[results[i].id] = results[i].uuid
    BY <1>6, <1>9, <1>11, <2>3, <2>4
  <2>6. ASSUME NEW d \in Entities, Undone(d)' PROVE Undone(d)
    <3>1. \A i \in 1..(n + 1) : results[i].id # d
      BY <1>6, <1>10, <2>6 DEF Undone
    <3>2. n + 1 \in 1..(n + 1) /\ \A i \in 1..n : i \in 1..(n + 1)
      BY <1>7
    <3>3. e # d /\ \A i \in 1..n : cmd.results[i].id # d
      BY <1>6, <1>9, <3>1, <3>2
    <3> QED BY <3>3 DEF Undone, n, e
  <2>7. \A d \in Entities : AsSeen(d)' <=> AsSeen(d)
    BY <1>10 DEF AsSeen, Found
  <2>8. cmd.clean => \A d \in Entities : Undone(d)' => AsSeen(d)'
    BY <1>1, <2>1, <2>6, <2>7 DEF CleanKnows
  <2>9. cmd.clean => \A d \in Entities : cmd.plan.links[d] # None => cmd.known[d] = cmd.plan.links[d]
    BY <1>1, <2>1 DEF CleanKnows
  <2> QED BY <1>6, <1>10, <2>2, <2>5, <2>8, <2>9 DEF CleanKnows, At
<1>19. Recorded'
  <2>. SUFFICES ASSUME NEW v \in 1..Len(remote), remote[v].of \notin lost, map[remote[v].of] # v
                PROVE  InFlight(remote[v].of, v)'
    BY DEF Recorded
  <2>. DEFINE d == remote[v].of
  <2>1. InFlight(d, v)
    BY DEF LinearInv, Recorded
  <2>2. cmd.plan.links[d] = None /\ cmd.plan.intents[d] # 0
    BY <2>1 DEF InFlight
  <2>3. \E i \in 1..(n + 1) : results[i].id = d /\ results[i].uuid = v
    <3>1. CASE \E i \in 1..n : cmd.results[i].id = d /\ cmd.results[i].uuid = v
      BY <1>6, <1>7, <3>1
    <3>2. CASE At("confirm") /\ e = d /\ cmd.made = v
      <4>1. n + 1 \in 1..(n + 1)
        BY <1>7
      <4> QED BY <1>6, <1>9, <3>2, <4>1
    <3> QED BY <2>1, <3>1, <3>2 DEF InFlight, n, e
  <2> QED BY <1>6, <1>10, <2>2, <2>3 DEF InFlight, Applying
<1> QED BY <1>10, <1>14, <1>15, <1>16, <1>17, <1>18, <1>19 DEF LinearInv, CommandInv

\* A linked object is as it should be, is not what it was, or is to be updated.
LEMMA applyLinkedOperationKeeps ==
  ASSUME LinearInv, applyLinkedOperation
  PROVE  LinearInv'
<1>. DEFINE e == Current
            u == cmd.plan.links[e]
<1>1. Applying /\ ~At("confirm") /\ ~At("commit") /\ At("apply")
  BY DEF applyLinkedOperation, Applying, At
<1>2. UNCHANGED <<repo, map, plans, journals, remote, lost>> /\ u # None
  BY DEF applyLinkedOperation
<1>3. Len(cmd.results) < Len(Operations(cmd.plan))
  BY DEF applyLinkedOperation, Finished
<1>4. /\ e \in Entities /\ u \in 1..Len(remote) /\ remote[u].of = e /\ remote[u] \in Objects
      /\ \A i \in 1..Len(cmd.results) : cmd.results[i].id # e
  BY <1>1, <1>2, <1>3, NextOperation
<1>5. CleanKnows
  BY DEF LinearInv, CommandInv
<1>6. /\ cmd \in CmdRecord /\ cmd.file \in Files /\ cmd.plan \in PlanRecord /\ cmd.migrated \in MigratedRecord
      /\ OwnLinks(remote, cmd.plan.links) /\ SeenUnlessGone(remote, cmd.plan)
      /\ OwnLinks(remote, cmd.migrated.links) /\ Whole(cmd.plan.intents)
      /\ OwnLinks(remote, cmd.known) /\ OwnResults(remote, cmd.results)
      /\ FirstOf(cmd.plan, cmd.results)
      /\ cmd.plan.intents = cmd.migrated.intents /\ cmd.plan.links = cmd.migrated.links
      /\ \A d \in Entities : cmd.migrated.links[d] = IF cmd.migrated.intents[d] = 0 THEN None ELSE map[d]
      /\ remote \in Seq(Objects) /\ lost \subseteq Entities
  BY <1>1, AtHand
<1>7. \/ Achieve(u)
      \/ Stop /\ Found(u) /\ remote[u].at # cmd.plan.seen[e].at
      \/ /\ ~(Found(u) /\ cmd.plan.seen[e] # NotSeen /\ remote[u].at # cmd.plan.seen[e].at)
         /\ cmd' = [cmd EXCEPT !.pc = "update", !.read = IF Found(u) THEN remote[u].at ELSE 0]
  BY DEF applyLinkedOperation
<1>. HIDE DEF u
<1>8. CASE Achieve(u)
  <2>1. cmd.clean => cmd.known[e] = u
    BY <1>1, <1>2, <1>4, <1>5 DEF CleanKnows, u
  <2>2. Own(remote, e, u)
    BY <1>4 DEF Own
  <2> QED BY <1>1, <1>2, <1>3, <1>8, <2>1, <2>2, AchieveKeeps DEF u
<1>9. CASE Stop /\ Found(u) /\ remote[u].at # cmd.plan.seen[e].at
  <2>1. ~cmd.clean
    BY <1>1, <1>2, <1>3, <1>9, ObjectAsSeen DEF u
  <2>2. CleanDone'
    BY <1>1, <1>9, <2>1, StopDoes DEF CleanDone
  <2>3. Grows(remote, remote') /\ ObjectsFit'
    BY <1>2, <1>6, GrowthStays DEF LinearInv, FilesInv, ObjectsFit
  <2>4. FilesInv' /\ CommandInv'
    BY <1>1, <1>2, <1>6, <1>9, <2>2, <2>3, StopDoes, StopKeeps
  <2>5. Recorded'
    BY <1>1, <1>2, <1>9, StopDoes, StopRecords
  <2> QED BY <2>4, <2>5 DEF LinearInv
<1>10. CASE /\ ~(Found(u) /\ cmd.plan.seen[e] # NotSeen /\ remote[u].at # cmd.plan.seen[e].at)
            /\ cmd' = [cmd EXCEPT !.pc = "update", !.read = IF Found(u) THEN remote[u].at ELSE 0]
  <2>. DEFINE at == IF Found(u) THEN remote[u].at ELSE 0
  <2>1. at \in Nat
    BY <1>4 DEF Objects
  <2>2. /\ cmd' \in CmdRecord /\ cmd'.pc = "update" /\ cmd'.made = cmd.made /\ cmd'.read = at
        /\ cmd'.file = cmd.file /\ cmd'.plan = cmd.plan /\ cmd'.migrated = cmd.migrated
        /\ cmd'.results = cmd.results /\ cmd'.known = cmd.known /\ cmd'.clean = cmd.clean
    BY <1>6, <1>10, <2>1 DEF CmdRecord, Pcs
  <2>. HIDE DEF at
  <2>3. cmd'.made = None
    BY <1>1, <2>2 DEF LinearInv, CommandInv, CmdFits
  <2>4. FilesInv'
    BY <1>2, <1>6, FilesQuiet DEF LinearInv
  <2>5. CmdFits'
    BY <1>2, <1>6, <2>2, <2>3 DEF CmdFits, HasPlan, HasMigrated, Guarded, Applying, At
  <2>6. Current' = Current
    BY <2>2 DEF Current
  <2>7. OperationsInOrder'
    BY <1>2, <1>3, <1>6, <2>2, <2>6 DEF OperationsInOrder, Guarded, Applying, At, u
  <2>8. MapAsRead' /\ CleanDone'
    BY <1>2, <1>6, <2>2 DEF MapAsRead, CleanDone, HasMigrated, Guarded, Applying, At
  <2>9. ResultsAsLinked'
    <3>1. ResultsAsLinked
      BY DEF LinearInv, CommandInv
    <3> QED BY <1>1, <1>2, <2>2, <3>1 DEF ResultsAsLinked, At
  <2>10. HandsSeen'
    <3>. SUFFICES ASSUME Found(u) PROVE at <= remote[u].at /\ remote[u].hand <= cmd.plan.seen[e].at
      BY <1>2, <2>2, <2>6 DEF HandsSeen, At, Found, u
    <3>1. at = remote[u].at /\ remote[u].at \in Nat /\ remote[u].hand \in Nat
      BY <1>4 DEF at, Objects
    <3>2. cmd.plan.seen[e] # NotSeen
      BY <1>2, <1>4, <1>6 DEF SeenUnlessGone, Found, u
    <3>3. remote[u].at = cmd.plan.seen[e].at
      BY <1>10, <3>2
    <3>4. remote[u].hand <= remote[u].at
      BY <1>4 DEF LinearInv, FilesInv, ObjectsFit, ObjectFits
    <3> QED BY <3>1, <3>3, <3>4
  <2>11. CleanKnows'
    <3>1. \A d \in Entities : Undone(d)' => Undone(d)
      BY <1>1, <2>2 DEF Undone, At
    <3>2. \A d \in Entities : AsSeen(d)' <=> AsSeen(d)
      BY <1>2, <2>2 DEF AsSeen, Found
    <3>3. NoneLost' <=> NoneLost
      BY <1>2, <2>2 DEF NoneLost
    <3> QED BY <1>1, <1>5, <2>2, <3>1, <3>2, <3>3 DEF CleanKnows, At
  <2>12. Recorded'
    <3>1. \A d \in Entities, v \in 1..Len(remote) : InFlight(d, v) => InFlight(d, v)'
      BY <1>1, <2>2 DEF InFlight, Applying
    <3>2. \A v \in 1..Len(remote) : remote[v].of \in Entities
      <4>1. \A v \in 1..Len(remote) : remote[v] \in Objects
        BY <1>6, ElementOfSeq
      <4> QED BY <4>1 DEF Objects
    <3> QED BY <1>2, <3>1, <3>2 DEF LinearInv, Recorded
  <2> QED BY <2>2, <2>4, <2>5, <2>7, <2>8, <2>9, <2>10, <2>11, <2>12 DEF LinearInv, CommandInv
<1> QED BY <1>7, <1>8, <1>9, <1>10

\* The parent that a call is given.
LEMMA ParentFits ==
  ASSUME LinearInv, Applying, Len(cmd.results) < Len(Operations(cmd.plan)), ParentResolved(Current)
  PROVE  /\ resolveParentUUID(Current) \in Nat
         /\ IF Parent[Current] = 0 THEN resolveParentUUID(Current) = None
            ELSE Own(remote, Parent[Current], resolveParentUUID(Current))
<1>1. Current \in Entities /\ cmd.known \in Links /\ OwnLinks(remote, cmd.known)
  BY AtHand, NextOperation
<1>2. CASE Parent[Current] = 0
  BY <1>2 DEF resolveParentUUID, None
<1>3. CASE Parent[Current] # 0
  <2>1. Parent[Current] \in Entities
    <3>1. Parent[Current] \in 0..N
      BY <1>1, LinearAssumption
    <3> QED BY <1>3, <3>1, LinearAssumption DEF Entities
  <2>2. resolveParentUUID(Current) = cmd.known[Parent[Current]] /\ cmd.known[Parent[Current]] # None
    BY <1>3 DEF ParentResolved, resolveParentUUID
  <2> QED BY <1>1, <1>3, <2>1, <2>2 DEF OwnLinks, Links
<1> QED BY <1>2, <1>3

\* An object is overwritten.
LEMMA OverwriteFits ==
  ASSUME LinearInv, Applying, Len(cmd.results) < Len(Operations(cmd.plan)), ParentResolved(Current),
         NEW u, u = cmd.plan.links[Current], u # None, Overwrite(Current, u)
  PROVE  /\ Grows(remote, remote') /\ ObjectsFit' /\ Len(remote') = Len(remote)
         /\ Own(remote', Current, u) /\ remote'[u].title = cmd.plan.intents[Current]
         /\ remote'[u].gone = remote[u].gone /\ remote'[u].hand = remote[u].hand
         /\ \A v \in 1..Len(remote) : v # u => remote'[v] = remote[v]
<1>. DEFINE e == Current
            o == Overwritten(e, u)
<1>1. /\ remote \in Seq(Objects) /\ u \in 1..Len(remote) /\ remote[u].of = e /\ remote[u] \in Objects
      /\ cmd.plan.intents[e] \in Titles
  BY AtHand, NextOperation
<1>2. /\ resolveParentUUID(e) \in Nat
      /\ IF Parent[e] = 0 THEN resolveParentUUID(e) = None ELSE Own(remote, Parent[e], resolveParentUUID(e))
  BY ParentFits
<1>. HIDE DEF e
<1>3. /\ remote[u].at \in Nat \ {0} /\ remote[u].hand \in Nat /\ remote[u].hand <= remote[u].at
  BY <1>1 DEF Objects, LinearInv, FilesInv, ObjectsFit, ObjectFits
<1>4. remote[u].at + 1 \in Nat \ {0} /\ remote[u].at <= remote[u].at + 1 /\ remote[u].hand <= remote[u].at + 1
  <2>. DEFINE at == remote[u].at
              hand == remote[u].hand
  <2>1. at \in Nat /\ hand \in Nat /\ hand <= at
    BY <1>3
  <2>. HIDE DEF at, hand
  <2>2. at + 1 \in Nat \ {0} /\ at <= at + 1 /\ hand <= at + 1
    BY <2>1
  <2> QED BY <2>2 DEF at, hand
<1>5. /\ o.of = e /\ o.title = cmd.plan.intents[e] /\ o.at = remote[u].at + 1 /\ o.parent = resolveParentUUID(e)
      /\ o.gone = remote[u].gone /\ o.hand = remote[u].hand /\ o \in Objects
  BY <1>1, <1>2, <1>4 DEF Overwritten, Objects
<1>6. remote' = Changed(remote, u, o)
  BY DEF Overwrite, Changed, e
<1>. HIDE DEF o
<1>7. /\ Grows(remote, remote') /\ remote'[u] = o /\ Len(remote') = Len(remote)
      /\ \A v \in 1..Len(remote) : v # u => remote'[v] = remote[v]
  <2>1. o.of = remote[u].of /\ remote[u].at <= o.at /\ (remote[u].gone => o.gone)
    BY <1>1, <1>4, <1>5
  <2>2. o \in Objects
    BY <1>5
  <2>3. remote \in Seq(Objects) /\ u \in 1..Len(remote)
    BY <1>1
  <2> QED BY <1>6, <2>1, <2>2, <2>3, GrowthChanges
<1>8. ObjectsFit'
  <2>1. ASSUME NEW v \in 1..Len(remote), v # u PROVE ObjectFits(remote', v)
    BY <1>7, <2>1, GrowthKeepsFits DEF LinearInv, FilesInv, ObjectsFit
  <2>2. ObjectFits(remote', u)
    <3>1. Parent[e] # 0 => Own(remote', Parent[e], o.parent)
      BY <1>2, <1>5, <1>7, GrowthKeepsOwn
    <3>2. o.hand <= o.at
      BY <1>4, <1>5
    <3> QED BY <1>2, <1>5, <1>7, <3>1, <3>2 DEF ObjectFits
  <2> QED BY <1>7, <2>1, <2>2 DEF ObjectsFit
<1>9. Own(remote', e, u)
  BY <1>1, <1>5, <1>7 DEF Own
<1> QED BY <1>5, <1>7, <1>8, <1>9 DEF e

\* An object is created.
LEMMA CreateFits ==
  ASSUME LinearInv, Applying, Len(cmd.results) < Len(Operations(cmd.plan)), ParentResolved(Current), Create(Current)
  PROVE  /\ Grows(remote, remote') /\ ObjectsFit' /\ Len(remote') = Len(remote) + 1 /\ Len(remote) \in Nat
         /\ Own(remote', Current, Len(remote')) /\ remote'[Len(remote')].title = cmd.plan.intents[Current]
         /\ remote'[Len(remote')].gone = FALSE
         /\ \A v \in 1..Len(remote) : remote'[v] = remote[v]
<1>. DEFINE e == Current
            o == NewObject(e)
            n == Len(remote)
<1>1. remote \in Seq(Objects) /\ e \in Entities /\ cmd.plan.intents[e] \in Titles
  BY AtHand, NextOperation
<1>2. /\ resolveParentUUID(e) \in Nat
      /\ IF Parent[e] = 0 THEN resolveParentUUID(e) = None ELSE Own(remote, Parent[e], resolveParentUUID(e))
  BY ParentFits
<1>3. remote' = Append(remote, NewObject(e))
  BY DEF Create
<1>. HIDE DEF e
<1>4. /\ o.of = e /\ o.title = cmd.plan.intents[e] /\ o.at = 1 /\ o.parent = resolveParentUUID(e)
      /\ o.gone = FALSE /\ o.hand = 0 /\ o \in Objects
  BY <1>1, <1>2 DEF NewObject, Objects
<1>. HIDE DEF o
<1>5. /\ Grows(remote, remote') /\ remote'[n + 1] = o /\ Len(remote') = n + 1
      /\ \A v \in 1..n : remote'[v] = remote[v]
  BY <1>1, <1>3, <1>4, GrowthCreates DEF o
<1>6. n \in Nat
  BY <1>1
<1>. HIDE DEF n
<1>7. \A v \in 1..(n + 1) : v \in 1..n \/ v = n + 1
  BY <1>6
<1>8. n + 1 \in 1..(n + 1)
  BY <1>6
<1>9. ObjectsFit'
  <2>1. ASSUME NEW v \in 1..n PROVE ObjectFits(remote', v)
    BY <1>5, GrowthKeepsFits DEF LinearInv, FilesInv, ObjectsFit, n
  <2>2. ObjectFits(remote', n + 1)
    <3>1. Parent[e] # 0 => Own(remote', Parent[e], o.parent)
      BY <1>2, <1>4, <1>5, GrowthKeepsOwn
    <3>2. o.hand <= o.at
      BY <1>4
    <3> QED BY <1>2, <1>4, <1>5, <3>1, <3>2 DEF ObjectFits
  <2> QED BY <1>5, <1>7, <2>1, <2>2 DEF ObjectsFit
<1>10. Own(remote', e, n + 1)
  BY <1>4, <1>5, <1>8 DEF Own
<1> QED BY <1>4, <1>5, <1>6, <1>9, <1>10 DEF e, n

\* A call was answered with an object: it is the link's, or a new one.
LEMMA AnswerKeeps ==
  ASSUME LinearInv, At("apply") \/ At("update"), Len(cmd.results) < Len(Operations(cmd.plan)), NEW u,
         Grows(remote, remote'), ObjectsFit', Own(remote', Current, u),
         remote'[u].title = cmd.plan.intents[Current], u # None, ~remote'[u].gone,
         \A v \in 1..Len(remote) : v # u => remote'[v] = remote[v],
         \A v \in 1..Len(remote') : v \in 1..Len(remote) \/ (v = u /\ cmd.plan.links[Current] = None),
         cmd.plan.links[Current] # None => u = cmd.plan.links[Current],
         UNCHANGED <<repo, map, plans, journals, lost>>,
         cmd' \in CmdRecord, cmd'.pc = "confirm", cmd'.made = u,
         cmd'.known = [cmd.known EXCEPT ![Current] = u],
         cmd'.file = cmd.file, cmd'.plan = cmd.plan, cmd'.migrated = cmd.migrated,
         cmd'.results = cmd.results, cmd'.clean = cmd.clean
  PROVE  LinearInv'
<1>. DEFINE e == Current
<1>1. Applying /\ ~At("commit") /\ ~At("confirm")
  BY DEF Applying, At
<1>2. /\ cmd.file \in Files /\ cmd.plan \in PlanRecord /\ cmd.migrated \in MigratedRecord
      /\ OwnLinks(remote, cmd.plan.links) /\ SeenUnlessGone(remote, cmd.plan)
      /\ OwnLinks(remote, cmd.migrated.links) /\ Whole(cmd.plan.intents) /\ cmd.known \in Links
      /\ OwnLinks(remote, cmd.known) /\ OwnResults(remote, cmd.results)
      /\ FirstOf(cmd.plan, cmd.results)
      /\ cmd.plan.intents = cmd.migrated.intents /\ cmd.plan.links = cmd.migrated.links
      /\ \A d \in Entities : cmd.migrated.links[d] = IF cmd.migrated.intents[d] = 0 THEN None ELSE map[d]
      /\ remote \in Seq(Objects) /\ lost \subseteq Entities
  BY <1>1, AtHand
<1>3. e \in Entities /\ cmd.plan.intents[e] # 0 /\ \A i \in 1..Len(cmd.results) : cmd.results[i].id # e
  BY <1>1, NextOperation
<1>4. Current' = e
  BY DEF Current
<1>5. FilesInv'
  BY <1>2, FilesStay DEF LinearInv
<1>6. cmd'.known[e] = u /\ \A d \in Entities : d # e => cmd'.known[d] = cmd.known[d]
  BY <1>2, <1>3 DEF Links
<1>7. /\ OwnLinks(remote', cmd.plan.links) /\ SeenUnlessGone(remote', cmd.plan)
      /\ OwnLinks(remote', cmd.migrated.links)
      /\ OwnLinks(remote', cmd.known) /\ OwnResults(remote', cmd.results)
  BY <1>2, GrowthKeepsOwn, GrowthKeepsGone
<1>8. OwnLinks(remote', cmd'.known)
  BY <1>6, <1>7 DEF OwnLinks
<1>9. CmdFits'
  BY <1>2, <1>7, <1>8 DEF CmdFits, HasPlan, HasMigrated, Guarded, Applying, At
<1>10. OperationsInOrder'
  BY <1>2, <1>4, <1>6 DEF OperationsInOrder, Guarded, Applying, At
<1>11. MapAsRead' /\ HandsSeen' /\ CleanDone'
  BY <1>2 DEF MapAsRead, HandsSeen, CleanDone, HasMigrated, Guarded, Applying, At
<1>12. ResultsAsLinked'
  <2>1. ResultsAsLinked
    BY DEF LinearInv, CommandInv
  <2> QED BY <1>1, <2>1 DEF ResultsAsLinked, At
<1>13. CleanKnows'
  <2>1. CleanKnows
    BY DEF LinearInv, CommandInv
  <2>2. \A d \in Entities : Undone(d)' => d # e /\ Undone(d)
    BY <1>1, <1>4 DEF Undone, At
  <2>3. ASSUME NEW d \in Entities, d # e, AsSeen(d) PROVE AsSeen(d)'
    <3>1. SUFFICES ASSUME cmd.plan.links[d] # None PROVE AsSeen(d)'
      BY DEF AsSeen
    <3>2. cmd.plan.links[d] \in 1..Len(remote) /\ remote[cmd.plan.links[d]].of = d
      BY <1>2, <3>1 DEF OwnLinks, Own
    <3>3. cmd.plan.links[d] # u
      <4>1. SUFFICES ASSUME cmd.plan.links[d] = u PROVE FALSE
        OBVIOUS
      <4>2. remote'[u].of = d
        BY <3>2, <4>1 DEF Grows
      <4> QED BY <2>3, <4>2 DEF Own
    <3>4. remote'[cmd.plan.links[d]] = remote[cmd.plan.links[d]]
      BY <3>2, <3>3
    <3> QED BY <2>3, <3>4 DEF AsSeen, Found
  <2>4. cmd.clean => \A d \in Entities : Undone(d)' => AsSeen(d)'
    BY <1>1, <2>1, <2>2, <2>3 DEF CleanKnows
  <2>5. cmd.clean => \A d \in Entities : cmd.plan.links[d] # None => cmd'.known[d] = cmd.plan.links[d]
    BY <1>1, <1>6, <2>1 DEF CleanKnows
  <2>6. NoneLost' <=> NoneLost
    BY DEF NoneLost
  <2>7. cmd.results \in Seq(Result) /\ \A i \in 1..Len(cmd.results) : cmd.results[i].id \in Entities
    BY <1>1, <1>2, AtHand, ResultsInOrder
  <2>8. cmd.clean /\ NoneLost => \A i \in 1..Len(cmd.results) : cmd'.known[cmd.results[i].id] = cmd.results[i].uuid
    BY <1>1, <1>3, <1>6, <2>1, <2>7 DEF CleanKnows
  <2>9. fieldsMatch(cmd.made, cmd.plan, Current)'
    BY <1>4 DEF fieldsMatch, Found
  <2> QED BY <2>4, <2>5, <2>6, <2>8, <2>9 DEF CleanKnows, At
<1>14. Recorded'
  <2>. SUFFICES ASSUME NEW v \in 1..Len(remote'), remote'[v].of \notin lost, map[remote'[v].of] # v
                PROVE  InFlight(remote[v].of, v)'
    BY DEF Recorded
  <2>1. CASE v = u /\ cmd.plan.links[e] = None
    <3>1. remote'[v].of = e
      BY <2>1 DEF Own
    <3> QED BY <1>3, <1>4, <2>1, <3>1 DEF InFlight, Applying, At
  <2>2. CASE v \in 1..Len(remote)
    <3>1. remote'[v].of = remote[v].of
      BY <2>2 DEF Grows
    <3>2. InFlight(remote[v].of, v)
      BY <2>2, <3>1 DEF LinearInv, Recorded
    <3> QED BY <1>1, <3>1, <3>2 DEF InFlight, Applying
  <2> QED BY <2>1, <2>2
<1> QED BY <1>5, <1>9, <1>10, <1>11, <1>12, <1>13, <1>14 DEF LinearInv, CommandInv

\* An update that may not be made stops the apply; one that is made is read back.
LEMMA UpdateKeeps ==
  ASSUME LinearInv, Update
  PROVE  LinearInv'
<1>. DEFINE e == Current
            u == cmd.plan.links[e]
<1>1. Applying /\ ~At("confirm") /\ ~At("commit") /\ At("update") /\ UNCHANGED <<repo, map, plans, journals, lost>>
  BY DEF Update, Applying, At
<1>2. Len(cmd.results) < Len(Operations(cmd.plan)) /\ u # None
  BY <1>1 DEF LinearInv, CommandInv, OperationsInOrder
<1>3. cmd \in CmdRecord /\ remote \in Seq(Objects) /\ lost \subseteq Entities /\ cmd.plan \in PlanRecord
      /\ cmd.known \in Links
  BY <1>1, AtHand
<1>4. e \in Entities /\ u \in 1..Len(remote)
  BY <1>1, <1>2, NextOperation
<1>5. CASE ParentResolved(e) /\ Found(u)
  <2>1. Overwrite(e, u) /\ cmd' = [remember(cmd, e, u) EXCEPT !.pc = "confirm", !.made = u, !.read = 0]
    BY <1>5 DEF Update
  <2>2. u \in Nat
    BY <1>4
  <2>3. [cmd.known EXCEPT ![e] = u] \in Links
    BY <1>3, <2>2 DEF Links
  <2>4. /\ Grows(remote, remote') /\ ObjectsFit' /\ Len(remote') = Len(remote)
        /\ Own(remote', e, u) /\ remote'[u].title = cmd.plan.intents[e]
        /\ remote'[u].gone = remote[u].gone
        /\ \A v \in 1..Len(remote) : v # u => remote'[v] = remote[v]
    BY <1>1, <1>2, <1>5, <2>1, OverwriteFits
  <2>. HIDE DEF u, e
  <2>5. /\ cmd' \in CmdRecord /\ cmd'.pc = "confirm" /\ cmd'.made = u
        /\ cmd'.known = [cmd.known EXCEPT ![e] = u]
        /\ cmd'.file = cmd.file /\ cmd'.plan = cmd.plan /\ cmd'.migrated = cmd.migrated
        /\ cmd'.results = cmd.results /\ cmd'.clean = cmd.clean
    BY <1>3, <2>1, <2>2, <2>3 DEF CmdRecord, Pcs, remember
  <2>6. ~remote'[u].gone /\ u # None
    BY <1>2, <1>5, <2>4 DEF Found
  <2> QED BY <1>1, <1>2, <2>4, <2>5, <2>6, AnswerKeeps DEF u, e
<1>6. CASE ~(ParentResolved(e) /\ Found(u))
  <2>1. Stop /\ remote' = remote
    BY <1>6 DEF Update
  <2>2. CleanDone'
    <3>. SUFFICES ASSUME cmd.clean, NoneLost, AllFound PROVE FALSE
      BY <1>1, <2>1, StopDoes DEF CleanDone, NoneLost, AllFound, Found
    <3>1. ParentResolved(e)
      BY <1>1, <1>2, ParentKnown
    <3>2. Found(u)
      BY <1>2, <1>4 DEF AllFound
    <3> QED BY <1>6, <3>1, <3>2
  <2>3. Grows(remote, remote') /\ ObjectsFit'
    BY <1>3, <2>1, GrowthStays DEF LinearInv, FilesInv, ObjectsFit
  <2>4. FilesInv' /\ CommandInv'
    BY <1>1, <1>3, <2>1, <2>2, <2>3, StopDoes, StopKeeps
  <2>5. Recorded'
    BY <1>1, <2>1, StopDoes, StopRecords
  <2> QED BY <2>4, <2>5 DEF LinearInv
<1> QED BY <1>5, <1>6

\* An object is created for an entity without a link, under its parent.
LEMMA applyUnlinkedOperationKeeps ==
  ASSUME LinearInv, applyUnlinkedOperation
  PROVE  LinearInv'
<1>. DEFINE e == Current
            u == Len(remote')
<1>1. Applying /\ ~At("confirm") /\ ~At("commit") /\ At("apply") /\ UNCHANGED <<repo, map, plans, journals, lost>>
  BY DEF applyUnlinkedOperation, Applying, At
<1>2. Len(cmd.results) < Len(Operations(cmd.plan)) /\ cmd.plan.links[e] = None
  BY DEF applyUnlinkedOperation, Finished
<1>3. cmd \in CmdRecord /\ remote \in Seq(Objects) /\ lost \subseteq Entities /\ cmd.plan \in PlanRecord
      /\ cmd.known \in Links
  BY <1>1, AtHand
<1>4. CASE ParentResolved(e)
  <2>1. Create(e) /\ cmd' = [remember(cmd, e, u) EXCEPT !.pc = "confirm", !.made = u]
    BY <1>4 DEF applyUnlinkedOperation
  <2>2. /\ Grows(remote, remote') /\ ObjectsFit' /\ Len(remote') = Len(remote) + 1 /\ Len(remote) \in Nat
        /\ Own(remote', e, u) /\ remote'[u].title = cmd.plan.intents[e]
        /\ remote'[u].gone = FALSE
        /\ \A v \in 1..Len(remote) : remote'[v] = remote[v]
    BY <1>1, <1>2, <1>4, <2>1, CreateFits
  <2>3. u \in Nat /\ u # None /\ \A v \in 1..Len(remote') : v \in 1..Len(remote) \/ v = u
    BY <2>2 DEF None
  <2>4. [cmd.known EXCEPT ![e] = u] \in Links
    BY <1>3, <2>3 DEF Links
  <2>. HIDE DEF u, e
  <2>5. /\ cmd' \in CmdRecord /\ cmd'.pc = "confirm" /\ cmd'.made = u
        /\ cmd'.known = [cmd.known EXCEPT ![e] = u]
        /\ cmd'.file = cmd.file /\ cmd'.plan = cmd.plan /\ cmd'.migrated = cmd.migrated
        /\ cmd'.results = cmd.results /\ cmd'.clean = cmd.clean
    BY <1>3, <2>1, <2>3, <2>4 DEF CmdRecord, Pcs, remember
  <2>6. ~remote'[u].gone
    BY <2>2
  <2> QED BY <1>1, <1>2, <2>2, <2>3, <2>5, <2>6, AnswerKeeps DEF e
<1>5. CASE ~ParentResolved(e)
  <2>1. Stop /\ remote' = remote
    BY <1>5 DEF applyUnlinkedOperation
  <2>2. CleanDone'
    <3>. SUFFICES ASSUME cmd.clean, NoneLost PROVE FALSE
      BY <1>1, <2>1, StopDoes DEF CleanDone, NoneLost
    <3>1. ParentResolved(e)
      BY <1>1, <1>2, ParentKnown
    <3> QED BY <1>5, <3>1
  <2>3. Grows(remote, remote') /\ ObjectsFit'
    BY <1>3, <2>1, GrowthStays DEF LinearInv, FilesInv, ObjectsFit
  <2>4. FilesInv' /\ CommandInv'
    BY <1>1, <1>3, <2>1, <2>2, <2>3, StopDoes, StopKeeps
  <2>5. Recorded'
    BY <1>1, <2>1, StopDoes, StopRecords
  <2> QED BY <2>4, <2>5 DEF LinearInv
<1> QED BY <1>4, <1>5

\* The object is read back: the operation is achieved, or the apply stops.
LEMMA confirmMutationKeeps ==
  ASSUME LinearInv, confirmMutation
  PROVE  LinearInv'
<1>. DEFINE e == Current
<1>1. Applying /\ ~At("commit") /\ At("confirm") /\ UNCHANGED <<repo, map, plans, journals, remote>>
  BY DEF confirmMutation, Applying, At
<1>2. /\ Len(cmd.results) < Len(Operations(cmd.plan))
      /\ Own(remote, e, cmd.made) /\ cmd.known[e] = cmd.made
      /\ cmd.plan.links[e] # None => cmd.made = cmd.plan.links[e]
  BY <1>1 DEF LinearInv, CommandInv, OperationsInOrder
<1>3. remote \in Seq(Objects) /\ lost \subseteq Entities /\ e \in Entities
  BY <1>1, <1>2, AtHand, NextOperation
<1>4. CASE fieldsMatch(cmd.made, cmd.plan, e)
  <2>1. Achieve(cmd.made) /\ lost' = lost
    BY <1>4 DEF confirmMutation
  <2> QED BY <1>1, <1>2, <2>1, AchieveKeeps
<1>5. CASE ~fieldsMatch(cmd.made, cmd.plan, e)
  <2>1. Stop /\ LoseMade
    BY <1>5 DEF confirmMutation
  <2>2. lost \subseteq lost' /\ lost' \subseteq Entities /\ (e \in lost' \/ cmd.plan.links[e] # None)
    BY <1>3, <2>1 DEF LoseMade
  <2>3. ~cmd.clean
    BY <1>1, <1>5 DEF LinearInv, CommandInv, CleanKnows
  <2>4. CleanDone'
    BY <1>1, <2>1, <2>3, StopDoes DEF CleanDone
  <2>5. Grows(remote, remote') /\ ObjectsFit'
    BY <1>1, <1>3, GrowthStays DEF LinearInv, FilesInv, ObjectsFit
  <2>6. FilesInv' /\ CommandInv'
    BY <1>1, <2>1, <2>2, <2>4, <2>5, StopDoes, StopKeeps
  <2>7. Recorded'
    BY <1>1, <2>1, <2>2, StopDoes, StopRecords
  <2> QED BY <2>6, <2>7 DEF LinearInv
<1> QED BY <1>4, <1>5

-----------------------------------------------------------------------------
\* The result is written

\* Nothing was achieved, nothing is written.
LEMMA commitApplyResultsKeeps ==
  ASSUME LinearInv, commitApplyResults
  PROVE  LinearInv'
<1>1. At("commit") /\ cmd.results = <<>> /\ End /\ UNCHANGED <<repo, map, plans, journals, remote, lost>>
  BY DEF commitApplyResults
<1>2. FilesInv'
  BY <1>1, FilesQuiet DEF LinearInv, FilesInv, FileTypes
<1>3. CommandInv'
  BY <1>1, CommandEnds DEF End
<1>4. \A e, u : ~InFlight(e, u)
  <2>1. 1..Len(cmd.results) = {} /\ ~At("confirm")
    BY <1>1 DEF At
  <2> QED BY <2>1 DEF InFlight
<1>5. Recorded'
  BY <1>1, <1>4 DEF LinearInv, Recorded
<1> QED BY <1>2, <1>3, <1>5 DEF LinearInv

\* What is merged into the map: the results, each for its entity, over the links.
LEMMA MergeFits ==
  ASSUME NEW plan, NEW results \in Seq(Result), FirstOf(plan, results), NEW links \in Links
  PROVE  LET merged == mergeApplyResultsIntoMap(links, results)
         IN /\ merged \in Links
            /\ \A i \in 1..Len(results) : merged[results[i].id] = results[i].uuid
            /\ \A e \in Entities : (\A i \in 1..Len(results) : results[i].id # e) => merged[e] = links[e]
<1>. DEFINE merged == mergeApplyResultsIntoMap(links, results)
            value(e) == IF \E i \in DOMAIN results : results[i].id = e
                        THEN results[CHOOSE i \in DOMAIN results : results[i].id = e].uuid
                        ELSE links[e]
<1>1. merged = [e \in Entities |-> value(e)]
  BY DEF mergeApplyResultsIntoMap
<1>2. DOMAIN results = 1..Len(results)
  OBVIOUS
<1>3. \A i \in 1..Len(results) : results[i].uuid \in Nat /\ results[i].id \in Entities
  <2>1. \A i \in 1..Len(results) : results[i] \in Result
    BY ElementOfSeq
  <2> QED BY <2>1 DEF Result
<1>4. ASSUME NEW i \in 1..Len(results)
      PROVE  value(results[i].id) = results[i].uuid
  <2>. DEFINE e == results[i].id
              j == CHOOSE k \in DOMAIN results : results[k].id = e
  <2>1. \E k \in DOMAIN results : results[k].id = e
    BY <1>2
  <2>2. j \in 1..Len(results) /\ results[j].id = e
    BY <1>2, <2>1
  <2>3. j = i
    BY <2>2, ResultsInOrder
  <2>4. value(e) = results[j].uuid
    BY <2>1
  <2> QED BY <2>3, <2>4
<1>5. \A e \in Entities : (\A i \in 1..Len(results) : results[i].id # e) => value(e) = links[e]
  BY <1>2
<1>6. \A e \in Entities : value(e) \in Nat
  <2>1. ASSUME NEW e \in Entities PROVE value(e) \in Nat
    <3>1. CASE \E i \in 1..Len(results) : results[i].id = e
      <4>1. PICK i \in 1..Len(results) : results[i].id = e
        BY <3>1
      <4>2. value(e) = results[i].uuid
        BY <1>4, <4>1
      <4>. HIDE DEF value
      <4> QED BY <1>3, <4>1, <4>2
    <3>2. CASE \A i \in 1..Len(results) : results[i].id # e
      <4>1. value(e) = links[e]
        BY <1>5, <3>2
      <4>. HIDE DEF value
      <4> QED BY <4>1 DEF Links
    <3> QED BY <3>1, <3>2
  <2> QED BY <2>1
<1>. HIDE DEF value
<1>7. \A e \in Entities : merged[e] = value(e)
  BY <1>1
<1>8. merged \in Links
  BY <1>1, <1>6 DEF Links
<1>. HIDE DEF merged
<1> QED BY <1>3, <1>4, <1>5, <1>7, <1>8 DEF merged

\* The map is written: no link of an object that was not lost is.
LEMMA CommitMapKeeps ==
  ASSUME LinearInv, CommitMap
  PROVE  LinearInv'
<1>1. Applying /\ At("commit") /\ ~At("confirm") /\ ~At("update") /\ cmd.results # <<>>
      /\ UNCHANGED <<repo, plans, journals, remote>>
      /\ map' = mergeApplyResultsIntoMap(cmd.migrated.links, cmd.results)
      /\ lost' = lost \cup {e \in Entities : map[e] # None /\ map'[e] = None}
      /\ cmd' = [cmd EXCEPT !.pc = "mapped"]
  BY DEF CommitMap, Applying, At
<1>2. /\ cmd \in CmdRecord /\ cmd.file \in Files /\ cmd.plan \in PlanRecord /\ cmd.migrated \in MigratedRecord
      /\ cmd.results \in Seq(Result)
      /\ OwnLinks(remote, cmd.plan.links) /\ SeenUnlessGone(remote, cmd.plan)
      /\ OwnLinks(remote, cmd.migrated.links) /\ Whole(cmd.plan.intents)
      /\ OwnLinks(remote, cmd.known) /\ OwnResults(remote, cmd.results)
      /\ FirstOf(cmd.plan, cmd.results)
      /\ cmd.plan.intents = cmd.migrated.intents /\ cmd.plan.links = cmd.migrated.links
      /\ \A e \in Entities : cmd.migrated.links[e] = IF cmd.migrated.intents[e] = 0 THEN None ELSE map[e]
      /\ remote \in Seq(Objects) /\ lost \subseteq Entities
  BY <1>1, AtHand
<1>3. cmd.migrated.links \in Links
  BY <1>2 DEF MigratedRecord
<1>4. /\ map' \in Links
      /\ \A i \in 1..Len(cmd.results) : map'[cmd.results[i].id] = cmd.results[i].uuid
      /\ \A e \in Entities : (\A i \in 1..Len(cmd.results) : cmd.results[i].id # e)
                               => map'[e] = cmd.migrated.links[e]
  BY <1>1, <1>2, <1>3, MergeFits
<1>5. \A i \in 1..Len(cmd.results) : cmd.results[i].id \in Entities /\ cmd.plan.intents[cmd.results[i].id] # 0
  BY <1>2, ResultsInOrder
<1>6. OwnLinks(remote, map')
  <2>1. ASSUME NEW e \in Entities, map'[e] # None PROVE Own(remote, e, map'[e])
    <3>1. CASE \E i \in 1..Len(cmd.results) : cmd.results[i].id = e
      BY <1>2, <1>4, <3>1 DEF OwnResults
    <3>2. CASE \A i \in 1..Len(cmd.results) : cmd.results[i].id # e
      BY <1>2, <1>4, <2>1, <3>2 DEF OwnLinks
    <3> QED BY <3>1, <3>2
  <2> QED BY <2>1 DEF OwnLinks
<1>7. ASSUME NEW e \in Entities, e \notin lost', map[e] # None PROVE map'[e] = map[e]
  <2>1. CASE \E i \in 1..Len(cmd.results) : cmd.results[i].id = e
    <3>1. PICK i \in 1..Len(cmd.results) : cmd.results[i].id = e
      BY <2>1
    <3>2. cmd.plan.links[e] = map[e]
      BY <1>2, <1>5, <3>1
    <3>3. cmd.results[i].uuid = cmd.plan.links[e]
      <4>1. ResultsAsLinked
        BY DEF LinearInv, CommandInv
      <4>2. e \notin lost
        BY <1>1, <1>7
      <4> QED BY <1>1, <1>7, <3>1, <3>2, <4>1, <4>2 DEF ResultsAsLinked
    <3> QED BY <1>4, <3>1, <3>2, <3>3
  <2>2. CASE \A i \in 1..Len(cmd.results) : cmd.results[i].id # e
    <3>1. map'[e] # None
      BY <1>1, <1>7
    <3> QED BY <1>2, <1>4, <2>2, <3>1
  <2> QED BY <2>1, <2>2
<1>8. lost \subseteq lost' /\ lost' \subseteq Entities
  BY <1>1, <1>2
<1>9. FilesInv'
  <2>1. FileTypes' /\ OwnLinks(remote, map)'
    BY <1>1, <1>4, <1>6, <1>8 DEF LinearInv, FilesInv, FileTypes
  <2>2. PlansFit' /\ JournalsFit' /\ ObjectsFit' /\ Whole(repo)'
    BY <1>1 DEF LinearInv, FilesInv, PlansFit, JournalsFit, ObjectsFit
  <2>3. JournalsInMap'
    <3>. SUFFICES ASSUME NEW f \in Files, journals[f] # NoJournal, NEW i \in 1..Len(journals[f].results),
                         journals[f].results[i].id \notin lost'
                  PROVE  map'[journals[f].results[i].id] = journals[f].results[i].uuid
      BY <1>1 DEF JournalsInMap
    <3>. DEFINE r == journals[f].results[i]
    <3>1. r \in Result
      BY ElementOfSeq DEF LinearInv, FilesInv, FileTypes, JournalRecord
    <3>2. r.id \in Entities
      BY <3>1 DEF Result
    <3>3. r.uuid # None
      BY DEF LinearInv, FilesInv, JournalsFit, OwnResults, Own, None
    <3>4. map[r.id] = r.uuid
      BY <1>8 DEF LinearInv, FilesInv, JournalsInMap
    <3>. HIDE DEF r
    <3>5. r.id \notin lost'
      BY DEF r
    <3>6. map'[r.id] = r.uuid
      BY <1>7, <3>2, <3>3, <3>4, <3>5
    <3> QED BY <3>6 DEF r
  <2> QED BY <2>1, <2>2, <2>3 DEF FilesInv
<1>10. /\ cmd' \in CmdRecord /\ cmd'.pc = "mapped" /\ cmd'.made = cmd.made
       /\ cmd'.file = cmd.file /\ cmd'.plan = cmd.plan /\ cmd'.migrated = cmd.migrated
       /\ cmd'.results = cmd.results /\ cmd'.known = cmd.known
  BY <1>1, <1>2 DEF CmdRecord, Pcs
<1>11. cmd.made = None
  BY <1>1 DEF LinearInv, CommandInv, CmdFits
<1>12. CmdFits'
  BY <1>1, <1>2, <1>10, <1>11 DEF CmdFits, HasPlan, HasMigrated, Guarded, Applying, At
<1>13. OperationsInOrder' /\ MapAsRead' /\ HandsSeen' /\ CleanKnows' /\ CleanDone'
  BY <1>2, <1>10 DEF OperationsInOrder, MapAsRead, HandsSeen, CleanKnows, CleanDone, Guarded, Applying, At
<1>14. ResultsAsLinked'
  BY <1>4, <1>10 DEF ResultsAsLinked, Applying, At
<1>15. Recorded'
  <2>. SUFFICES ASSUME NEW u \in 1..Len(remote), remote[u].of \notin lost'
                PROVE  map'[remote[u].of] = u
    BY <1>1 DEF Recorded
  <2>. DEFINE e == remote[u].of
  <2>1. e \in Entities /\ u # None
    <3>1. remote[u] \in Objects
      BY <1>2, ElementOfSeq
    <3> QED BY <3>1 DEF Objects, None
  <2>2. map[e] = u \/ InFlight(e, u)
    BY <1>8 DEF LinearInv, Recorded
  <2>3. CASE map[e] = u
    BY <1>7, <2>1, <2>3
  <2>4. CASE InFlight(e, u)
    <3>1. PICK i \in 1..Len(cmd.results) : cmd.results[i].id = e /\ cmd.results[i].uuid = u
      BY <1>1, <2>4 DEF InFlight
    <3> QED BY <1>4, <3>1
  <2> QED BY <2>2, <2>3, <2>4
<1> QED BY <1>9, <1>10, <1>12, <1>13, <1>14, <1>15 DEF LinearInv, CommandInv

\* The journal is written, and says what the map says already.
LEMMA CommitJournalKeeps ==
  ASSUME LinearInv, CommitJournal
  PROVE  LinearInv'
<1>. DEFINE journal == [plan |-> cmd.plan, results |-> cmd.results]
<1>1. At("mapped") /\ Guarded /\ HasPlan /\ ~Applying
      /\ UNCHANGED <<repo, map, plans, remote, lost>> /\ End
      /\ journals' = [journals EXCEPT ![cmd.file] = journal]
  BY DEF CommitJournal, Guarded, HasPlan, Applying, At
<1>2. /\ cmd \in CmdRecord /\ cmd.file \in Files /\ cmd.plan \in PlanRecord
      /\ OwnResults(remote, cmd.results) /\ FirstOf(cmd.plan, cmd.results) /\ cmd.results # <<>>
      /\ \A i \in 1..Len(cmd.results) : cmd.results[i].id \notin lost
                                          => map[cmd.results[i].id] = cmd.results[i].uuid
  BY <1>1 DEF LinearInv, CommandInv, CmdFits, OperationsInOrder, ResultsAsLinked
<1>3. cmd.results \in Seq(Result)
  BY <1>2 DEF CmdRecord
<1>4. journal \in JournalRecord /\ journal.plan = cmd.plan /\ journal.results = cmd.results
  BY <1>2, <1>3 DEF JournalRecord
<1>. HIDE DEF journal
<1>5. FileTypes'
  BY <1>1, <1>4 DEF LinearInv, FilesInv, FileTypes
<1>6. \A f \in Files : journals'[f] = IF f = cmd.file THEN journal ELSE journals[f]
  BY <1>1 DEF LinearInv, FilesInv, FileTypes
<1>7. JournalsFit'
  BY <1>1, <1>2, <1>4, <1>6 DEF LinearInv, FilesInv, JournalsFit
<1>8. JournalsInMap'
  BY <1>1, <1>2, <1>4, <1>6 DEF LinearInv, FilesInv, JournalsInMap
<1>9. OwnLinks(remote, map)' /\ PlansFit' /\ ObjectsFit' /\ Whole(repo)'
  BY <1>1 DEF LinearInv, FilesInv, PlansFit, ObjectsFit
<1>10. CommandInv'
  BY <1>1, CommandEnds DEF End
<1>11. Recorded'
  BY <1>1, RecordedStays DEF LinearInv
<1> QED BY <1>5, <1>7, <1>8, <1>9, <1>10, <1>11 DEF LinearInv, FilesInv

-----------------------------------------------------------------------------
\* What goes wrong

\* A command ends without having written anything or made anything.
LEMMA EndsQuietly ==
  ASSUME LinearInv, ~Applying, cmd' = NoCommand, UNCHANGED <<repo, map, plans, journals, remote, lost>>
  PROVE  LinearInv'
<1>1. FilesInv'
  BY FilesQuiet DEF LinearInv, FilesInv, FileTypes
<1>2. CommandInv' /\ Recorded'
  BY CommandEnds, RecordedStays DEF LinearInv
<1> QED BY <1>1, <1>2 DEF LinearInv

\* A call that fails stops an apply.
LEMMA CallFailsKeeps ==
  ASSUME LinearInv, CallFails
  PROVE  LinearInv'
<1>1. UNCHANGED <<repo, map, plans, journals, remote>>
  BY DEF CallFails
<1>2. CASE (At("previewing") \/ At("migrated")) /\ End /\ lost' = lost
  BY <1>1, <1>2, EndsQuietly DEF End, Applying, At
<1>3. ASSUME Applying, At("confirm") => Current \in lost' \/ cmd.plan.links[Current] # None,
             lost \subseteq lost', lost' \subseteq Entities,
             cmd' \in CmdRecord, cmd'.pc = "commit", cmd'.made = None, ~cmd'.clean,
             cmd'.file = cmd.file, cmd'.plan = cmd.plan, cmd'.migrated = cmd.migrated,
             cmd'.results = cmd.results, cmd'.known = cmd.known
      PROVE  LinearInv'
  <2>1. CleanDone'
    BY <1>3 DEF CleanDone
  <2>2. Grows(remote, remote') /\ ObjectsFit'
    BY <1>1, GrowthStays DEF LinearInv, FilesInv, FileTypes, ObjectsFit
  <2>3. FilesInv' /\ CommandInv'
    BY <1>1, <1>3, <2>1, <2>2, StopKeeps
  <2>4. Recorded'
    BY <1>1, <1>3, StopRecords
  <2> QED BY <2>3, <2>4 DEF LinearInv
<1>4. lost \subseteq Entities /\ cmd \in CmdRecord /\ (~At("confirm") => cmd.made = None)
  BY DEF LinearInv, FilesInv, FileTypes, CommandInv, CmdFits
<1>5. CASE At("apply") /\ cmd' = [cmd EXCEPT !.pc = "commit", !.clean = FALSE] /\ lost' = lost
  <2>1. Applying /\ ~At("confirm") /\ cmd.made = None
    BY <1>4, <1>5 DEF Applying, At
  <2>2. /\ cmd' \in CmdRecord /\ cmd'.pc = "commit" /\ cmd'.made = None /\ ~cmd'.clean
        /\ cmd'.file = cmd.file /\ cmd'.plan = cmd.plan /\ cmd'.migrated = cmd.migrated
        /\ cmd'.results = cmd.results /\ cmd'.known = cmd.known
    BY <1>4, <1>5, <2>1 DEF CmdRecord, Pcs
  <2> QED BY <1>3, <1>4, <1>5, <2>1, <2>2
<1>6. CASE At("update") /\ cmd' = [cmd EXCEPT !.pc = "commit", !.clean = FALSE, !.read = 0] /\ lost' = lost
  <2>1. Applying /\ ~At("confirm") /\ cmd.made = None
    BY <1>4, <1>6 DEF Applying, At
  <2>2. /\ cmd' \in CmdRecord /\ cmd'.pc = "commit" /\ cmd'.made = None /\ ~cmd'.clean
        /\ cmd'.file = cmd.file /\ cmd'.plan = cmd.plan /\ cmd'.migrated = cmd.migrated
        /\ cmd'.results = cmd.results /\ cmd'.known = cmd.known
    BY <1>4, <1>6, <2>1 DEF CmdRecord, Pcs
  <2> QED BY <1>3, <1>4, <1>6, <2>1, <2>2
<1>7. CASE At("confirm") /\ cmd' = [cmd EXCEPT !.pc = "commit", !.clean = FALSE, !.made = None] /\ LoseMade
  <2>1. Applying
    BY <1>7 DEF Applying, At
  <2>2. /\ cmd' \in CmdRecord /\ cmd'.pc = "commit" /\ cmd'.made = None /\ ~cmd'.clean
        /\ cmd'.file = cmd.file /\ cmd'.plan = cmd.plan /\ cmd'.migrated = cmd.migrated
        /\ cmd'.results = cmd.results /\ cmd'.known = cmd.known
    BY <1>4, <1>7 DEF CmdRecord, Pcs, None
  <2>3. Len(cmd.results) < Len(Operations(cmd.plan))
    BY <1>7 DEF LinearInv, CommandInv, OperationsInOrder
  <2>4. Current \in Entities
    BY <2>1, <2>3, NextOperation
  <2>5. lost \subseteq lost' /\ lost' \subseteq Entities /\ (Current \in lost' \/ cmd.plan.links[Current] # None)
    BY <1>4, <1>7, <2>4 DEF LoseMade
  <2> QED BY <1>3, <2>1, <2>2, <2>5
<1> QED BY <1>2, <1>5, <1>6, <1>7 DEF CallFails

\* What a create whose answer was lost made is lost.
LEMMA AnswerLostKeeps ==
  ASSUME LinearInv, AnswerLost
  PROVE  LinearInv'
<1>. DEFINE e == Current
            u == cmd.plan.links[e]
<1>1. /\ At("update") \/ (At("apply") /\ ~Finished)
      /\ ParentResolved(e) /\ UNCHANGED <<repo, map, plans, journals>>
      /\ cmd' = [cmd EXCEPT !.pc = "commit", !.clean = FALSE, !.read = 0]
      /\ \/ At("update") /\ Found(u) /\ Overwrite(e, u) /\ lost' = lost
         \/ At("apply") /\ u = None /\ Create(e) /\ lost' = lost \cup {e}
  BY DEF AnswerLost
<1>2. Applying /\ ~At("confirm")
  BY <1>1 DEF Applying, At
<1>3. Len(cmd.results) < Len(Operations(cmd.plan)) /\ (At("update") => u # None)
  BY <1>1 DEF LinearInv, CommandInv, OperationsInOrder, Finished
<1>4. lost \subseteq Entities /\ cmd \in CmdRecord /\ cmd.made = None /\ e \in Entities
  BY <1>2, <1>3, NextOperation DEF LinearInv, FilesInv, FileTypes, CommandInv, CmdFits
<1>5. /\ cmd' \in CmdRecord /\ cmd'.pc = "commit" /\ cmd'.made = None /\ ~cmd'.clean
      /\ cmd'.file = cmd.file /\ cmd'.plan = cmd.plan /\ cmd'.migrated = cmd.migrated
      /\ cmd'.results = cmd.results /\ cmd'.known = cmd.known
  BY <1>1, <1>4 DEF CmdRecord, Pcs
<1>6. CleanDone'
  BY <1>5 DEF CleanDone
<1>. HIDE DEF u
<1>7. CASE At("update") /\ Overwrite(e, u) /\ lost' = lost
  <2>1. /\ Grows(remote, remote') /\ ObjectsFit' /\ Len(remote') = Len(remote)
    BY <1>1, <1>2, <1>3, <1>7, OverwriteFits DEF u
  <2>2. FilesInv' /\ CommandInv'
    BY <1>1, <1>2, <1>4, <1>5, <1>6, <1>7, <2>1, StopKeeps
  <2>3. \A v \in 1..Len(remote) : remote'[v].of = remote[v].of
    BY <2>1 DEF Grows
  <2>4. Recorded'
    BY <1>1, <1>2, <1>5, <1>7, <2>1, <2>3, StopRecords
  <2> QED BY <2>2, <2>4 DEF LinearInv
<1>8. CASE At("apply") /\ Create(e) /\ lost' = lost \cup {e}
  <2>1. /\ Grows(remote, remote') /\ ObjectsFit' /\ Len(remote') = Len(remote) + 1 /\ Len(remote) \in Nat
        /\ Own(remote', e, Len(remote'))
    BY <1>1, <1>2, <1>3, <1>8, CreateFits
  <2>2. lost \subseteq lost' /\ lost' \subseteq Entities /\ e \in lost'
    BY <1>4, <1>8
  <2>3. FilesInv' /\ CommandInv'
    BY <1>1, <1>2, <1>5, <1>6, <2>1, <2>2, StopKeeps
  <2>4. Recorded'
    <3>. SUFFICES ASSUME NEW v \in 1..Len(remote'), remote'[v].of \notin lost', map[remote'[v].of] # v
                  PROVE  InFlight(remote[v].of, v)' /\ remote'[v].of = remote[v].of
      BY <1>1 DEF Recorded
    <3>1. v \in 1..Len(remote) \/ v = Len(remote')
      BY <2>1
    <3>2. v # Len(remote')
      BY <2>1, <2>2 DEF Own
    <3>3. remote'[v].of = remote[v].of
      BY <2>1, <3>1, <3>2 DEF Grows
    <3>4. InFlight(remote[v].of, v)
      BY <1>1, <2>2, <3>1, <3>2, <3>3 DEF LinearInv, Recorded
    <3>5. InFlight(remote[v].of, v)'
      BY <1>2, <1>5, <3>3, <3>4 DEF InFlight, Applying
    <3> QED BY <3>3, <3>5
  <2> QED BY <2>3, <2>4 DEF LinearInv
<1> QED BY <1>1, <1>7, <1>8

\* A command that dies loses what it made and did not write.
LEMMA DieKeeps ==
  ASSUME LinearInv, Die
  PROVE  LinearInv'
<1>1. UNCHANGED <<repo, map, plans, journals, remote>> /\ cmd' = NoCommand
  BY DEF Die, End
<1>2. lost \subseteq lost' /\ lost' \subseteq Entities
  BY DEF Die, LinearInv, FilesInv, FileTypes
<1>3. FilesInv' /\ CommandInv'
  BY <1>1, <1>2, FilesQuiet, CommandEnds DEF LinearInv
<1>4. Recorded'
  <2>. SUFFICES ASSUME NEW u \in 1..Len(remote), remote[u].of \notin lost', map[remote[u].of] # u
                PROVE  FALSE
    BY <1>1 DEF Recorded
  <2>. DEFINE e == remote[u].of
  <2>1. InFlight(e, u)
    BY <1>2 DEF LinearInv, Recorded
  <2>2. Applying
    BY <2>1 DEF InFlight
  <2>3. cmd.results \in Seq(Result) /\ remote \in Seq(Objects)
    BY <2>2, AtHand
  <2>4. e \in Entities /\ DOMAIN remote = 1..Len(remote) /\ DOMAIN cmd.results = 1..Len(cmd.results)
    <3>1. remote[u] \in Objects
      BY <2>3, ElementOfSeq
    <3> QED BY <2>3, <3>1 DEF Objects
  <2>5. u \in {cmd.results[i].uuid : i \in DOMAIN cmd.results} \cup {cmd.made}
    BY <2>1, <2>4 DEF InFlight
  <2>6. ~At("mapped")
    BY <2>2 DEF Applying, At
  <2> QED BY <2>4, <2>5, <2>6 DEF Die
<1> QED BY <1>3, <1>4 DEF LinearInv

-----------------------------------------------------------------------------
\* What changes around the commands

\* A command that is disturbed has at hand what it had, and is not clean.
LEMMA Disturbed ==
  ASSUME LinearInv, Disturb, UNCHANGED <<map, plans, journals, lost>>,
         Grows(remote, remote'), ObjectsFit', Len(remote') = Len(remote),
         repo' \in Catalogs, Whole(repo'), HandsSeen'
  PROVE  LinearInv'
<1>1. cmd \in CmdRecord
  BY DEF LinearInv, CommandInv
<1>2. /\ cmd' \in CmdRecord /\ cmd'.pc = cmd.pc /\ cmd'.file = cmd.file /\ cmd'.plan = cmd.plan
      /\ cmd'.known = cmd.known /\ cmd'.migrated = cmd.migrated /\ cmd'.results = cmd.results
      /\ cmd'.made = cmd.made /\ (cmd'.pc # "idle" => ~cmd'.clean)
  BY <1>1 DEF Disturb, CmdRecord, At
<1>3. FilesInv'
  <2>1. FileTypes'
    BY DEF LinearInv, FilesInv, FileTypes, Grows
  <2>2. OwnLinks(remote, map)' /\ JournalsFit'
    BY GrowthKeepsOwn DEF LinearInv, FilesInv, JournalsFit
  <2>3. PlansFit'
    BY GrowthKeepsOwn, GrowthKeepsGone DEF LinearInv, FilesInv, PlansFit
  <2>4. JournalsInMap'
    BY DEF LinearInv, FilesInv, JournalsInMap
  <2> QED BY <2>1, <2>2, <2>3, <2>4 DEF FilesInv
<1>4. Current' = Current
  BY <1>2 DEF Current
<1>6. CmdFits'
  <2>1. CmdFits
    BY DEF LinearInv, CommandInv
  <2>2. HasPlan => /\ cmd.plan \in PlanRecord /\ OwnLinks(remote', cmd.plan.links)
                   /\ SeenUnlessGone(remote', cmd.plan)
    BY <2>1, GrowthKeepsOwn, GrowthKeepsGone DEF CmdFits
  <2>3. HasMigrated => cmd.migrated \in MigratedRecord /\ OwnLinks(remote', cmd.migrated.links)
    BY <2>1, GrowthKeepsOwn DEF CmdFits
  <2>4. OwnLinks(remote', cmd.known) /\ OwnResults(remote', cmd.results)
    BY <2>1, GrowthKeepsOwn DEF CmdFits
  <2> QED BY <1>2, <2>1, <2>2, <2>3, <2>4 DEF CmdFits, HasPlan, HasMigrated, Guarded, Applying, At
<1>7. OperationsInOrder'
  <2>1. OperationsInOrder
    BY DEF LinearInv, CommandInv
  <2>2. At("confirm") => Own(remote', Current, cmd.made)
    BY <2>1, GrowthKeepsOwn DEF OperationsInOrder
  <2> QED BY <1>2, <1>4, <2>1, <2>2 DEF OperationsInOrder, Guarded, Applying, At
<1>8. MapAsRead'
  <2>1. MapAsRead
    BY DEF LinearInv, CommandInv
  <2> QED BY <1>2, <2>1 DEF MapAsRead, HasMigrated, Guarded, Applying, At
<1>9. ResultsAsLinked'
  <2>1. ResultsAsLinked
    BY DEF LinearInv, CommandInv
  <2> QED BY <1>2, <2>1 DEF ResultsAsLinked, Applying, At
<1>10. CleanKnows' /\ CleanDone'
  <2>1. cmd'.pc = "idle" \/ ~cmd'.clean
    BY <1>2
  <2> QED BY <2>1 DEF CleanKnows, CleanDone, Applying, At
<1>11. Recorded'
  <2>1. \A e, u : InFlight(e, u) => InFlight(e, u)'
    BY <1>2, <1>4 DEF InFlight, Applying, At
  <2>2. \A u \in 1..Len(remote) : remote'[u].of = remote[u].of
    BY DEF Grows
  <2> QED BY <2>1, <2>2 DEF LinearInv, Recorded
<1> QED BY <1>2, <1>3, <1>6, <1>7, <1>8, <1>9, <1>10, <1>11 DEF LinearInv, CommandInv

\* A planning file changes.
LEMMA EditRepoKeeps ==
  ASSUME LinearInv, NEW e \in Entities, NEW title \in {0} \cup Titles, EditRepo(e, title)
  PROVE  LinearInv'
<1>1. repo' = [repo EXCEPT ![e] = title] /\ Disturb /\ UNCHANGED <<map, plans, journals, remote, lost>>
      /\ \A d \in Entities : /\ d = Parent[e] /\ title # 0 => repo[d] # 0
                             /\ e = Parent[d] /\ title = 0 => repo[d] = 0
  BY DEF EditRepo
<1>2. repo \in Catalogs /\ Whole(repo) /\ remote \in Seq(Objects) /\ cmd \in CmdRecord
  BY DEF LinearInv, FilesInv, FileTypes, CommandInv
<1>3. repo' \in Catalogs
  <2>1. title \in 0..MaxTitle
    BY LinearAssumption DEF Titles
  <2> QED BY <1>1, <1>2, <2>1 DEF Catalogs
<1>4. \A d \in Entities : repo'[d] = IF d = e THEN title ELSE repo[d]
  BY <1>1, <1>2 DEF Catalogs
<1>5. Whole(repo')
  <2>. SUFFICES ASSUME NEW d \in Entities, repo'[d] # 0, Parent[d] # 0
                PROVE  repo'[Parent[d]] # 0
    BY DEF Whole
  <2>1. Parent[d] \in Entities
    <3>1. Parent[d] \in 0..N
      BY LinearAssumption
    <3> QED BY <3>1, LinearAssumption DEF Entities
  <2>2. Parent[d] # d
    <3>1. hierarchyRank(Kind[Parent[d]]) < hierarchyRank(Kind[d])
      BY LinearAssumption
    <3>2. hierarchyRank(Kind[d]) \in 0..3
      BY RankIsNumber
    <3> QED BY <3>1, <3>2
  <2>3. CASE d = e
    BY <1>1, <1>4, <2>1, <2>2, <2>3
  <2>4. CASE d # e
    <3>1. repo[d] # 0 /\ repo[Parent[d]] # 0
      BY <1>2, <1>4, <2>4 DEF Whole
    <3>2. Parent[d] = e => title # 0
      BY <1>1, <3>1
    <3> QED BY <1>4, <2>1, <3>1, <3>2
  <2> QED BY <2>3, <2>4
<1>6. Grows(remote, remote') /\ ObjectsFit' /\ Len(remote') = Len(remote)
  BY <1>1, <1>2, GrowthStays DEF LinearInv, FilesInv, ObjectsFit
<1>7. HandsSeen'
  <2>1. HandsSeen
    BY DEF LinearInv, CommandInv
  <2>2. cmd'.pc = cmd.pc /\ cmd'.plan = cmd.plan /\ cmd'.results = cmd.results /\ cmd'.read = cmd.read
    BY <1>1, <1>2 DEF Disturb, CmdRecord
  <2> QED BY <1>1, <2>1, <2>2 DEF HandsSeen, At, Current, Found
<1> QED BY <1>1, <1>3, <1>5, <1>6, <1>7, Disturbed

\* An object is changed by hand, or deleted.
LEMMA HandKeeps ==
  ASSUME LinearInv, Disturb, UNCHANGED <<repo, map, plans, journals, lost>>,
         NEW u \in 1..Len(remote), Found(u), NEW o \in Objects, remote' = [remote EXCEPT ![u] = o],
         o.of = remote[u].of, o.parent = remote[u].parent, remote[u].at <= o.at, o.hand <= o.at,
         o.gone \/ o.hand > remote[u].at
  PROVE  LinearInv'
<1>1. remote \in Seq(Objects) /\ cmd \in CmdRecord /\ repo \in Catalogs /\ Whole(repo)
  BY DEF LinearInv, FilesInv, FileTypes, CommandInv
<1>2. /\ Grows(remote, remote') /\ remote'[u] = o /\ Len(remote') = Len(remote)
      /\ \A v \in 1..Len(remote) : v # u => remote'[v] = remote[v]
  <2>1. remote' = Changed(remote, u, o)
    BY DEF Changed
  <2>2. remote[u].gone => o.gone
    BY DEF Found
  <2>3. remote \in Seq(Objects) /\ o.of = remote[u].of /\ remote[u].at <= o.at
    BY <1>1
  <2>4. /\ Grows(remote, Changed(remote, u, o)) /\ Changed(remote, u, o)[u] = o
        /\ Len(Changed(remote, u, o)) = Len(remote)
        /\ \A v \in 1..Len(remote) : v # u => Changed(remote, u, o)[v] = remote[v]
    BY <2>2, <2>3, GrowthChanges
  <2> QED BY <2>1, <2>4
<1>3. ObjectsFit'
  <2>1. ASSUME NEW v \in 1..Len(remote), v # u PROVE ObjectFits(remote', v)
    BY <1>2, <2>1, GrowthKeepsFits DEF LinearInv, FilesInv, ObjectsFit
  <2>2. ObjectFits(remote', u)
    <3>1. ObjectFits(remote, u)
      BY DEF LinearInv, FilesInv, ObjectsFit
    <3>2. \A a, p : Own(remote, a, p) => Own(remote', a, p)
      BY <1>2, GrowthKeepsOwn
    <3> QED BY <1>2, <3>1, <3>2 DEF ObjectFits
  <2> QED BY <1>2, <2>1, <2>2 DEF ObjectsFit
<1>4. HandsSeen'
  <2>1. HandsSeen
    BY DEF LinearInv, CommandInv
  <2>2. cmd'.pc = cmd.pc /\ cmd'.plan = cmd.plan /\ cmd'.results = cmd.results /\ cmd'.read = cmd.read
    BY <1>1 DEF Disturb, CmdRecord
  <2>3. Current' = Current /\ (At("update")' <=> At("update"))
    BY <2>2 DEF At, Current
  <2>. DEFINE w == cmd.plan.links[Current]
  <2>4. SUFFICES ASSUME At("update"), w # None, ~remote'[w].gone
                 PROVE  cmd.read <= remote'[w].at
                        /\ (remote'[w].hand <= cmd.plan.seen[Current].at \/ remote'[w].hand > cmd.read)
    BY <2>2, <2>3 DEF HandsSeen, Found
  <2>5. Applying /\ Len(cmd.results) < Len(Operations(cmd.plan))
    BY <2>4 DEF LinearInv, CommandInv, OperationsInOrder, Applying, At
  <2>6. w \in 1..Len(remote) /\ remote[w] \in Objects
    BY <2>4, <2>5, NextOperation
  <2>7. Found(w)
    BY <1>2, <2>4, <2>6 DEF Grows, Found
  <2>8. cmd.read <= remote[w].at
        /\ (remote[w].hand <= cmd.plan.seen[Current].at \/ remote[w].hand > cmd.read)
    BY <2>1, <2>4, <2>7 DEF HandsSeen
  <2>. HIDE DEF w
  <2>9. CASE w # u
    BY <1>2, <2>6, <2>8, <2>9
  <2>10. CASE w = u
    <3>1. cmd.read \in Nat /\ remote[u].at \in Nat /\ o.at \in Nat /\ o.hand \in Nat
      BY <1>1, <2>6, <2>10 DEF CmdRecord, Objects
    <3>2. o.hand > remote[u].at /\ cmd.read <= remote[u].at
      BY <1>2, <2>4, <2>8, <2>10
    <3>3. cmd.read <= o.at /\ o.hand > cmd.read
      BY <3>1, <3>2
    <3> QED BY <1>2, <2>10, <3>3
  <2> QED BY <2>9, <2>10 DEF w
<1> QED BY <1>1, <1>2, <1>3, <1>4, Disturbed

\* Someone changes an object in Linear.
LEMMA EditRemoteKeeps ==
  ASSUME LinearInv, NEW u \in DOMAIN remote, NEW title \in Titles, EditRemote(u, title)
  PROVE  LinearInv'
<1>. DEFINE o == [remote[u] EXCEPT !.title = title, !.at = @ + 1, !.hand = remote[u].at + 1]
<1>1. remote \in Seq(Objects)
  BY DEF LinearInv, FilesInv, FileTypes
<1>2. u \in 1..Len(remote) /\ remote[u] \in Objects
  <2>1. u \in 1..Len(remote)
    BY <1>1
  <2> QED BY <1>1, <2>1, ElementOfSeq
<1>3. remote[u].at \in Nat \ {0}
  BY <1>2 DEF Objects
<1>4. remote[u].at + 1 \in Nat \ {0} /\ remote[u].at <= remote[u].at + 1 /\ remote[u].at + 1 > remote[u].at
      /\ remote[u].at + 1 \in Nat /\ remote[u].at + 1 <= remote[u].at + 1
  <2>. DEFINE at == remote[u].at
  <2>1. at \in Nat
    BY <1>3
  <2>. HIDE DEF at
  <2>2. at + 1 \in Nat \ {0} /\ at <= at + 1 /\ at + 1 > at /\ at + 1 \in Nat /\ at + 1 <= at + 1
    BY <2>1
  <2> QED BY <2>2 DEF at
<1>5. /\ o \in Objects /\ o.of = remote[u].of /\ o.parent = remote[u].parent
      /\ o.at = remote[u].at + 1 /\ o.hand = remote[u].at + 1
  BY <1>2, <1>4 DEF Objects
<1>6. /\ remote' = [remote EXCEPT ![u] = o] /\ Found(u) /\ Disturb
      /\ UNCHANGED <<repo, map, plans, journals, lost>>
  BY DEF EditRemote
<1>. HIDE DEF o
<1> QED BY <1>2, <1>4, <1>5, <1>6, HandKeeps

\* Someone deletes an object in Linear.
LEMMA DeleteRemoteKeeps ==
  ASSUME LinearInv, NEW u \in DOMAIN remote, DeleteRemote(u)
  PROVE  LinearInv'
<1>. DEFINE o == [remote[u] EXCEPT !.gone = TRUE]
<1>1. remote \in Seq(Objects)
  BY DEF LinearInv, FilesInv, FileTypes
<1>2. u \in 1..Len(remote) /\ remote[u] \in Objects
  <2>1. u \in 1..Len(remote)
    BY <1>1
  <2> QED BY <1>1, <2>1, ElementOfSeq
<1>3. /\ o \in Objects /\ o.of = remote[u].of /\ o.parent = remote[u].parent
      /\ o.at = remote[u].at /\ o.hand = remote[u].hand /\ o.gone = TRUE
  BY <1>2 DEF Objects
<1>4. remote[u].at <= o.at /\ o.hand <= o.at
  <2>1. remote[u].at \in Nat
    BY <1>2 DEF Objects
  <2>2. remote[u].hand <= remote[u].at
    BY <1>2 DEF LinearInv, FilesInv, ObjectsFit, ObjectFits
  <2> QED BY <1>3, <2>1, <2>2
<1>5. /\ remote' = [remote EXCEPT ![u] = o] /\ Found(u) /\ Disturb
      /\ UNCHANGED <<repo, map, plans, journals, lost>>
  BY DEF DeleteRemote
<1>. HIDE DEF o
<1> QED BY <1>2, <1>3, <1>4, <1>5, HandKeeps

-----------------------------------------------------------------------------
\* The invariant, and what it says

\* At first there is nothing in Linear, in the map and in the files.
LEMMA InitFits == Init => LinearInv
<1>. SUFFICES ASSUME Init PROVE LinearInv
  OBVIOUS
<1>1. /\ repo = [e \in Entities |-> 1] /\ map = [e \in Entities |-> None]
      /\ plans = [f \in Files |-> NoPlan] /\ journals = [f \in Files |-> NoJournal]
      /\ remote = <<>> /\ cmd = NoCommand /\ lost = {}
  BY DEF Init
<1>2. remote \in Seq(Objects) /\ 1..Len(remote) = {}
  BY <1>1
<1>3. FileTypes
  <2>1. 1 \in 0..MaxTitle
    BY LinearAssumption
  <2> QED BY <1>1, <1>2, <2>1 DEF FileTypes, Catalogs, Links, None
<1>4. FilesInv
  <2>1. OwnLinks(remote, map)
    BY <1>1 DEF OwnLinks
  <2>2. PlansFit
    BY <1>1 DEF PlansFit
  <2>3. JournalsFit /\ JournalsInMap
    BY <1>1 DEF JournalsFit, JournalsInMap
  <2>4. ObjectsFit
    BY <1>2 DEF ObjectsFit
  <2>5. Whole(repo)
    <3>1. \A e \in Entities : Parent[e] # 0 => Parent[e] \in Entities
      <4>1. ASSUME NEW e \in Entities, Parent[e] # 0 PROVE Parent[e] \in Entities
        <5>1. Parent[e] \in 0..N
          BY LinearAssumption
        <5> QED BY <4>1, <5>1, LinearAssumption DEF Entities
      <4> QED BY <4>1
    <3> QED BY <1>1, <3>1 DEF Whole
  <2> QED BY <1>3, <2>1, <2>2, <2>3, <2>4, <2>5 DEF FilesInv
<1>5. cmd \in CmdRecord /\ cmd.pc = "idle" /\ cmd.results = <<>> /\ cmd.made = None
      /\ cmd.known = [e \in Entities |-> None]
  BY <1>1, NothingAtHand
<1>6. OwnLinks(remote, cmd.known) /\ OwnResults(remote, cmd.results)
  <2>1. Len(<<>>) = 0 /\ 1..0 = {}
    OBVIOUS
  <2> QED BY <1>5, <2>1 DEF OwnLinks, OwnResults, None
<1>7. CommandInv
  BY <1>5, <1>6 DEF CommandInv, CmdFits, OperationsInOrder, MapAsRead, ResultsAsLinked, HandsSeen, CleanKnows,
                    CleanDone, HasPlan, HasMigrated, Guarded, Applying, At
<1>8. Recorded
  BY <1>2 DEF Recorded
<1> QED BY <1>4, <1>7, <1>8 DEF LinearInv

\* Every step keeps the invariant.
LEMMA NextKeeps == LinearInv /\ [Next]_vars => LinearInv'
<1>. SUFFICES ASSUME LinearInv, [Next]_vars PROVE LinearInv'
  OBVIOUS
<1>1. ASSUME NEW f \in Files, buildRemotePreview(f) \/ newProcessLinearClient(f) PROVE LinearInv'
  BY <1>1, buildRemotePreviewKeeps, newProcessLinearClientKeeps
<1>2. CASE runLinearMapMigrate
  BY <1>2, runLinearMapMigrateKeeps
<1>3. CASE Command
  BY <1>3, writePreviewPlanKeeps, WriteMigrationKeeps, runLinearApplyKeeps, RunApplyKeeps, applyOperationsKeeps,
     applyLinkedOperationKeeps, UpdateKeeps, applyUnlinkedOperationKeeps, confirmMutationKeeps,
     commitApplyResultsKeeps, CommitMapKeeps, CommitJournalKeeps DEF Command
<1>4. CASE CallFails \/ AnswerLost \/ Die
  BY <1>4, CallFailsKeeps, AnswerLostKeeps, DieKeeps
<1>5. ASSUME NEW e \in Entities, NEW title \in {0} \cup Titles, EditRepo(e, title) PROVE LinearInv'
  BY <1>5, EditRepoKeeps
<1>6. ASSUME NEW u \in DOMAIN remote, DeleteRemote(u) \/ \E title \in Titles : EditRemote(u, title)
      PROVE  LinearInv'
  BY <1>6, DeleteRemoteKeeps, EditRemoteKeeps
<1>7. CASE UNCHANGED vars
  <2>1. UNCHANGED <<repo, map, plans, journals, remote, cmd, lost>>
    BY <1>7 DEF vars
  <2>2. FilesInv'
    BY <2>1, FilesQuiet DEF LinearInv, FilesInv, FileTypes
  <2>3. CmdFits' /\ OperationsInOrder' /\ MapAsRead' /\ ResultsAsLinked' /\ HandsSeen'
    BY <2>1 DEF LinearInv, CommandInv, CmdFits, OperationsInOrder, MapAsRead, ResultsAsLinked, HandsSeen,
       HasPlan, HasMigrated, Guarded, Applying, At, Current, Found
  <2>4. CleanKnows' /\ CleanDone'
    BY <2>1 DEF LinearInv, CommandInv, CleanKnows, CleanDone, Applying, At, Current, Undone, AsSeen, NoneLost,
       AllFound, fieldsMatch, Found, MigrateV1ToV2
  <2>5. Recorded'
    BY <2>1 DEF LinearInv, Recorded, InFlight, Applying, At, Current
  <2> QED BY <2>1, <2>2, <2>3, <2>4, <2>5 DEF LinearInv, CommandInv
<1> QED BY <1>1, <1>2, <1>3, <1>4, <1>5, <1>6, <1>7 DEF Next

\* Whatever commands are run, calls fail and files and objects are changed, the
\* invariant holds.
THEOREM LinearInvariant == Spec => []LinearInv
BY InitFits, NextKeeps, PTL DEF Spec

\* An object that was not lost is the only one of its entity.
LEMMA OnlyObject ==
  ASSUME LinearInv, NEW e \in Entities, e \notin lost,
         NEW u \in 1..Len(remote), NEW v \in 1..Len(remote), remote[u].of = e, remote[v].of = e
  PROVE  u = v
<1>1. map[e] = u \/ InFlight(e, u)
  BY DEF LinearInv, Recorded
<1>2. map[e] = v \/ InFlight(e, v)
  BY DEF LinearInv, Recorded
<1>3. ASSUME NEW w, InFlight(e, w) PROVE map[e] = None
  <2>1. Applying /\ cmd.plan.links[e] = None /\ cmd.plan.intents[e] # 0
    BY <1>3 DEF InFlight
  <2> QED BY <2>1, AtHand
<1>4. u # None /\ v # None
  BY DEF None
<1>5. CASE map[e] = u
  BY <1>2, <1>3, <1>4, <1>5
<1>6. CASE InFlight(e, u) /\ InFlight(e, v)
  <2>1. Applying
    BY <1>6 DEF InFlight
  <2>2. cmd.results \in Seq(Result) /\ FirstOf(cmd.plan, cmd.results)
    BY <2>1, AtHand
  <2>3. At("confirm") => \A i \in 1..Len(cmd.results) : cmd.results[i].id # Current
    <3>1. At("confirm") => Len(cmd.results) < Len(Operations(cmd.plan))
      BY DEF LinearInv, CommandInv, OperationsInOrder
    <3> QED BY <2>1, <3>1, NextOperation
  <2>4. \A i, j \in 1..Len(cmd.results) : cmd.results[i].id = cmd.results[j].id => i = j
    BY <2>2, ResultsInOrder
  <2>5. CASE At("confirm") /\ Current = e
    BY <1>6, <2>3, <2>5 DEF InFlight
  <2>6. CASE ~(At("confirm") /\ Current = e)
    <3>1. PICK i \in 1..Len(cmd.results) : cmd.results[i].id = e /\ cmd.results[i].uuid = u
      BY <1>6, <2>6 DEF InFlight
    <3>2. PICK j \in 1..Len(cmd.results) : cmd.results[j].id = e /\ cmd.results[j].uuid = v
      BY <1>6, <2>6 DEF InFlight
    <3>3. i = j
      BY <2>4, <3>1, <3>2
    <3> QED BY <3>1, <3>2, <3>3
  <2> QED BY <2>5, <2>6
<1> QED BY <1>1, <1>2, <1>3, <1>4, <1>5, <1>6

\* The invariant says that applies are right.
LEMMA InvariantSuffices == LinearInv => AppliesAreRight
<1>. SUFFICES ASSUME LinearInv PROVE AppliesAreRight
  OBVIOUS
<1>1. /\ remote \in Seq(Objects) /\ DOMAIN remote = 1..Len(remote) /\ lost \subseteq Entities
      /\ repo \in Catalogs /\ map \in Links /\ cmd \in CmdRecord /\ OwnLinks(remote, map)
  BY DEF LinearInv, FilesInv, FileTypes, CommandInv
<1>2. \A u \in 1..Len(remote) : remote[u] \in Objects
  BY <1>1, ElementOfSeq
<1>3. \A f \in Files : journals[f] # NoJournal =>
        /\ journals[f].results \in Seq(Result) /\ DOMAIN journals[f].results = 1..Len(journals[f].results)
        /\ Len(journals[f].results) \in 1..N
  <2>. SUFFICES ASSUME NEW f \in Files, journals[f] # NoJournal
                PROVE  /\ journals[f].results \in Seq(Result)
                       /\ DOMAIN journals[f].results = 1..Len(journals[f].results)
                       /\ Len(journals[f].results) \in 1..N
    OBVIOUS
  <2>. DEFINE results == journals[f].results
  <2>1. journals[f] \in JournalRecord
    BY DEF LinearInv, FilesInv, FileTypes
  <2>2. results \in Seq(Result)
    BY <2>1 DEF JournalRecord
  <2>3. FirstOf(journals[f].plan, results) /\ results # <<>>
    BY DEF LinearInv, FilesInv, JournalsFit
  <2>. HIDE DEF results
  <2>4. Len(results) \in Nat \ {0}
    BY <2>2, <2>3, EmptySeq
  <2>5. Len(results) <= Len(Operations(journals[f].plan)) /\ Len(Operations(journals[f].plan)) \in 0..N
    BY <2>3, OperationsSorted DEF FirstOf
  <2>6. Len(results) \in 1..N
    BY <2>4, <2>5, LinearAssumption
  <2>7. DOMAIN results = 1..Len(results)
    BY <2>2
  <2> QED BY <2>2, <2>6, <2>7 DEF results
<1>4. TypeOK
  <2>1. repo \in [Entities -> {0} \cup Titles]
    <3>1. \A t \in 0..MaxTitle : t \in {0} \cup Titles
      BY LinearAssumption DEF Titles
    <3> QED BY <1>1, <3>1 DEF Catalogs
  <2>2. map \in [Entities -> {None} \cup DOMAIN remote]
    <3>1. \A e \in Entities : map[e] \in {None} \cup DOMAIN remote
      BY <1>1 DEF OwnLinks, Own
    <3> QED BY <1>1, <3>1 DEF Links
  <2>3. \A u \in DOMAIN remote : remote[u].of \in Entities /\ remote[u].title \in Titles
    BY <1>1, <1>2 DEF Objects
  <2>4. cmd.pc \in Pcs
    BY <1>1 DEF CmdRecord
  <2> QED BY <1>1, <1>3, <2>1, <2>2, <2>3, <2>4 DEF TypeOK, Pcs
<1>5. OneObjectPerEntity
  <2>. SUFFICES ASSUME NEW e \in Entities \ lost
                PROVE  LET objects == {u \in DOMAIN remote : remote[u].of = e}
                       IN /\ Cardinality(objects) <= 1
                          /\ At("idle") /\ objects # {} => map[e] \in objects
    BY DEF OneObjectPerEntity
  <2>. DEFINE objects == {u \in DOMAIN remote : remote[u].of = e}
  <2>1. \A u, v \in objects : u = v
    BY <1>1, OnlyObject
  <2>2. Cardinality(objects) <= 1
    <3>1. CASE objects = {}
      BY <3>1, FS_EmptySet
    <3>2. CASE objects # {}
      <4>1. PICK u : u \in objects
        BY <3>2
      <4>2. objects = {u}
        BY <2>1, <4>1
      <4>3. Cardinality({u}) = 1
        BY FS_Singleton
      <4>. HIDE DEF objects
      <4> QED BY <4>2, <4>3
    <3> QED BY <3>1, <3>2
  <2>3. ASSUME At("idle"), objects # {} PROVE map[e] \in objects
    <3>1. PICK u : u \in objects
      BY <2>3
    <3>2. ~InFlight(e, u)
      BY <2>3 DEF InFlight, Applying, At
    <3>3. map[e] = u
      BY <1>1, <3>1, <3>2 DEF LinearInv, Recorded
    <3> QED BY <3>1, <3>3
  <2> QED BY <2>2, <2>3
<1>6. LinksAreOwn
  <2>1. \A e \in Entities : map[e] # None => remote[map[e]].of = e
    BY <1>1 DEF OwnLinks, Own
  <2>2. \A u \in DOMAIN remote :
          LET above == Parent[remote[u].of]
          IN IF above = 0 THEN remote[u].parent = None
             ELSE remote[u].parent # None /\ remote[remote[u].parent].of = above
    BY <1>1 DEF LinearInv, FilesInv, ObjectsFit, ObjectFits, Own, None
  <2> QED BY <2>1, <2>2 DEF LinksAreOwn
<1>7. JournalNeedsMap
  BY <1>3 DEF JournalNeedsMap, LinearInv, FilesInv, JournalsInMap
<1>8. CleanApplyCompletes
  BY DEF CleanApplyCompletes, LinearInv, CommandInv, CleanDone, NoneLost, AllFound
<1> QED BY <1>4, <1>5, <1>6, <1>7, <1>8 DEF AppliesAreRight

\* Applies that fail or die half-way and are run again, of old plans too, leave
\* at most one object for each entity of which nothing was lost, linked and hung
\* where it belongs, and a journal that the map agrees with.
THEOREM AppliesRight == Spec => []AppliesAreRight
BY LinearInvariant, InvariantSuffices, PTL

\* What a step may do to what was written by hand.
HandsOff ==
  \A u \in DOMAIN remote :
    /\ remote'[u].title # remote[u].title
    /\ remote'[u].hand = remote[u].hand
    => LET seen == cmd.plan.seen[remote[u].of]
       IN remote[u].hand <= seen.at \/ remote[u].hand > cmd.read

\* An update overwrites what it may.
LEMMA OverwriteHandsOff ==
  ASSUME LinearInv, At("update"), ParentResolved(Current),
         NEW u, u = cmd.plan.links[Current], Found(u), Overwrite(Current, u)
  PROVE  HandsOff
<1>1. Applying /\ Len(cmd.results) < Len(Operations(cmd.plan)) /\ u # None
  BY DEF LinearInv, CommandInv, OperationsInOrder, Applying, At
<1>2. u \in 1..Len(remote) /\ remote[u].of = Current /\ remote \in Seq(Objects)
  BY <1>1, AtHand, NextOperation
<1>3. \A v \in 1..Len(remote) : v # u => remote'[v] = remote[v]
  BY <1>1, OverwriteFits
<1>4. remote[u].hand <= cmd.plan.seen[Current].at \/ remote[u].hand > cmd.read
  BY DEF LinearInv, CommandInv, HandsSeen
<1>5. DOMAIN remote = 1..Len(remote)
  BY <1>2
<1> QED BY <1>2, <1>3, <1>4, <1>5 DEF HandsOff

\* Every step leaves alone what was written by hand unseen.
LEMMA NextHandsOff == LinearInv /\ [Next]_vars => [HandsOff]_vars
<1>. SUFFICES ASSUME LinearInv, [Next]_vars PROVE [HandsOff]_vars
  OBVIOUS
<1>1. remote \in Seq(Objects) /\ DOMAIN remote = 1..Len(remote)
  BY DEF LinearInv, FilesInv, FileTypes
<1>2. CASE remote' = remote
  BY <1>2 DEF HandsOff
<1>3. ASSUME Applying, Len(cmd.results) < Len(Operations(cmd.plan)), ParentResolved(Current), Create(Current)
      PROVE  HandsOff
  <2>1. \A v \in 1..Len(remote) : remote'[v] = remote[v]
    BY <1>3, CreateFits
  <2> QED BY <1>1, <2>1 DEF HandsOff
<1>4. CASE Update
  <2>1. CASE ParentResolved(Current) /\ Found(cmd.plan.links[Current])
    BY <1>4, <2>1, OverwriteHandsOff DEF Update
  <2>2. CASE ~(ParentResolved(Current) /\ Found(cmd.plan.links[Current]))
    BY <1>2, <1>4, <2>2 DEF Update
  <2> QED BY <2>1, <2>2
<1>5. CASE applyUnlinkedOperation
  <2>1. Applying /\ Len(cmd.results) < Len(Operations(cmd.plan))
    BY <1>5 DEF applyUnlinkedOperation, Applying, At, Finished
  <2> QED BY <1>2, <1>3, <1>5, <2>1 DEF applyUnlinkedOperation
<1>6. CASE AnswerLost
  <2>1. CASE At("update")
    <3>1. ~At("apply")
      BY <2>1 DEF At
    <3> QED BY <1>6, <2>1, <3>1, OverwriteHandsOff DEF AnswerLost
  <2>2. CASE At("apply") /\ ~Finished
    <3>1. Applying /\ Len(cmd.results) < Len(Operations(cmd.plan)) /\ ~At("update")
      BY <2>2 DEF Applying, At, Finished
    <3> QED BY <1>3, <1>6, <3>1 DEF AnswerLost
  <2> QED BY <1>6, <2>1, <2>2 DEF AnswerLost
<1>7. ASSUME NEW u \in DOMAIN remote, NEW title \in Titles, EditRemote(u, title) PROVE HandsOff
  <2>. DEFINE o == [remote[u] EXCEPT !.title = title, !.at = @ + 1, !.hand = remote[u].at + 1]
  <2>1. remote[u] \in Objects
    BY <1>1, ElementOfSeq
  <2>2. o.hand = remote[u].at + 1 /\ remote[u].hand \in Nat /\ remote[u].at \in Nat
    BY <2>1 DEF Objects
  <2>3. remote[u].hand <= remote[u].at
    BY <1>1 DEF LinearInv, FilesInv, ObjectsFit, ObjectFits
  <2>4. o.hand # remote[u].hand
    BY <2>2, <2>3
  <2>5. remote' = [remote EXCEPT ![u] = o]
    BY <1>7 DEF EditRemote
  <2>. HIDE DEF o
  <2>6. \A v \in DOMAIN remote : v = u \/ remote'[v] = remote[v]
    BY <1>1, <2>5
  <2>7. remote'[u] = o
    BY <1>1, <2>5
  <2> QED BY <2>4, <2>6, <2>7 DEF HandsOff
<1>8. ASSUME NEW u \in DOMAIN remote, DeleteRemote(u) PROVE HandsOff
  <2>. DEFINE o == [remote[u] EXCEPT !.gone = TRUE]
  <2>1. remote[u] \in Objects
    BY <1>1, ElementOfSeq
  <2>2. o.title = remote[u].title
    BY <2>1 DEF Objects
  <2>3. remote' = [remote EXCEPT ![u] = o]
    BY <1>8 DEF DeleteRemote
  <2>. HIDE DEF o
  <2>4. \A v \in DOMAIN remote : v = u \/ remote'[v] = remote[v]
    BY <1>1, <2>3
  <2>5. remote'[u] = o
    BY <1>1, <2>3
  <2> QED BY <2>2, <2>4, <2>5 DEF HandsOff
<1>9. CASE \E f \in Files : buildRemotePreview(f) \/ newProcessLinearClient(f)
  BY <1>2, <1>9 DEF buildRemotePreview, newProcessLinearClient
<1>10. CASE runLinearMapMigrate \/ CallFails \/ Die
  BY <1>2, <1>10 DEF runLinearMapMigrate, CallFails, Die
<1>11. CASE Command
  <2>1. CASE writePreviewPlan \/ WriteMigration \/ runLinearApply \/ RunApply
    BY <1>2, <2>1 DEF writePreviewPlan, WriteMigration, runLinearApply, RunApply
  <2>2. CASE applyOperations \/ applyLinkedOperation \/ confirmMutation
    BY <1>2, <2>2 DEF applyOperations, applyLinkedOperation, confirmMutation
  <2>3. CASE commitApplyResults \/ CommitMap \/ CommitJournal
    BY <1>2, <2>3 DEF commitApplyResults, CommitMap, CommitJournal
  <2> QED BY <1>4, <1>5, <1>11, <2>1, <2>2, <2>3 DEF Command
<1>12. CASE \E e \in Entities, title \in {0} \cup Titles : EditRepo(e, title)
  BY <1>2, <1>12 DEF EditRepo
<1>13. CASE UNCHANGED vars
  BY <1>13
<1> QED BY <1>6, <1>7, <1>8, <1>9, <1>10, <1>11, <1>12, <1>13 DEF Next

\* No apply overwrites what was written by hand in Linear, unless the preview
\* saw it or it was written after the apply's own last look.
THEOREM HandEditsKept == Spec => HandEditsSurvive
<1>1. [HandsOff]_vars => [\A u \in DOMAIN remote :
         /\ remote'[u].title # remote[u].title
         /\ remote'[u].hand = remote[u].hand
         => LET seen == cmd.plan.seen[remote[u].of]
            IN remote[u].hand <= seen.at \/ remote[u].hand > cmd.read]_vars
  BY DEF HandsOff
<1> QED BY <1>1, LinearInvariant, NextHandsOff, PTL DEF Spec, HandEditsSurvive
=============================================================================
