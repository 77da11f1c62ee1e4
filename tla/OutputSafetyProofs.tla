------------------------- MODULE OutputSafetyProofs -------------------------
(***************************************************************************)
(* Proofs about the daemon's safety state, for any fixtures, groups and    *)
(* scene and any number of connections, requests and hotkeys.              *)
(***************************************************************************)
EXTENDS OutputSafety, FiniteSetTheorems, TLAPS

\* the maps from some of the keys in K to levels
LevelMaps(K) == UNION {[D -> Levels] : D \in SUBSET K}
MastersType == [grand : Levels, groups : LevelMaps(Groups)]
HandlerType == [pc : {"idle", "route", "store"}, auto : BOOLEAN, key : Groups \cup {"grand"},
                level : Levels, loaded : MastersType]
TickType == [pc : {"idle", "blackout", "stopAll", "masters"}, values : LevelMaps(Instances),
             dark : BOOLEAN]

\* the types the steps rely on: TypeOK, and those of the clients
SafetyTypes ==
    /\ flags \subseteq Flags
    /\ revoked \in BOOLEAN
    /\ masters \in MastersType
    /\ asSet \in MastersType
    /\ desk \in LevelMaps(Faders)
    /\ handler \in [Handlers -> HandlerType]
    /\ tick \in TickType
    /\ output \in [Instances -> Levels]
    /\ requests \in 0 .. MaxRequests
    /\ held \subseteq Flags
    /\ clear \subseteq Hotkeys
    /\ panel \in [pc : {"idle", "send"}, control : Controls, on : BOOLEAN]
    /\ DOMAIN reader = Hotkeys \cup {"poll"}
    /\ overlapped \in BOOLEAN
    /\ late \in Nat

\* until two requests set masters at once, the one that does has loaded what
\* was last set
OneSetsMasters ==
    ~overlapped =>
        /\ masters = asSet
        /\ \A h \in Handlers : handler[h].pc = "store" => handler[h].loaded = masters
        /\ \A h, o \in Handlers : handler[h].pc = "store" /\ handler[o].pc = "store" => h = o

\* the requests of automations that were admitted and are still being served
Admitted == {h \in Handlers : handler[h].pc # "idle" /\ handler[h].auto}

\* once revoked, every such request that is carried out was admitted before
RevokeCounts ==
    /\ late <= Cardinality(Handlers)
    /\ revoked => late + Cardinality(Admitted) <= Cardinality(Handlers)

\* a tick that has passed a load of a flag that is held has seen it
HeldIsSeen ==
    /\ held \subseteq flags
    /\ tick.pc = "stopAll" => "blackout" \notin held
    /\ tick.pc = "masters" => held = {} \/ tick.dark

SInv == SafetyTypes /\ OneSetsMasters /\ RevokeCounts /\ HeldIsSeen

-----------------------------------------------------------------------------
(* The maps of levels *)

\* What it is to be a map of levels.
LEMMA LevelMapsDef ==
    ASSUME NEW K, NEW f
    PROVE  f \in LevelMaps(K) <=> f \in [DOMAIN f -> Levels] /\ DOMAIN f \subseteq K
BY DEF LevelMaps

\* Setting a key of K keeps a map of levels one.
LEMMA PutIsMap ==
    ASSUME NEW K, NEW f \in LevelMaps(K), NEW k \in K, NEW v \in Levels
    PROVE  Put(f, k, v) \in LevelMaps(K)
<1> DEFINE D == DOMAIN f \cup {k}
<1>1. f \in [DOMAIN f -> Levels] /\ D \in SUBSET K
    BY LevelMapsDef
<1>2. Put(f, k, v) \in [D -> Levels]
    BY <1>1 DEF Put
<1> QED
    BY <1>1, <1>2 DEF LevelMaps

\* So does releasing keys.
LEMMA WithoutIsMap ==
    ASSUME NEW K, NEW f \in LevelMaps(K), NEW ks
    PROVE  Without(f, ks) \in LevelMaps(K)
<1> DEFINE D == DOMAIN f \ ks
<1>1. f \in [DOMAIN f -> Levels] /\ D \in SUBSET K
    BY LevelMapsDef
<1>2. Without(f, ks) \in [D -> Levels]
    BY <1>1 DEF Without
<1> QED
    BY <1>1, <1>2 DEF LevelMaps

\* The empty map is a map of levels.
LEMMA EmptyIsMap ==
    ASSUME NEW K
    PROVE  EmptyMap \in LevelMaps(K)
<1>1. EmptyMap \in [{} -> Levels] /\ {} \in SUBSET K
    BY DEF EmptyMap
<1> QED
    BY <1>1 DEF LevelMaps

\* Setting one master keeps the masters' type.
LEMMA WithMasterType ==
    ASSUME NEW m \in MastersType, NEW key \in Groups \cup {"grand"}, NEW level \in Levels
    PROVE  WithMaster(m, key, level) \in MastersType
<1>1. m.groups \in LevelMaps(Groups)
    BY DEF MastersType
<1>2. CASE key = "grand"
    BY <1>2 DEF WithMaster, MastersType
<1>3. CASE key # "grand"
  <2>1. Put(m.groups, key, level) \in LevelMaps(Groups)
    BY <1>1, <1>3, PutIsMap
  <2> QED
    BY <1>3, <2>1 DEF WithMaster, MastersType
<1> QED
    BY <1>2, <1>3

\* The idle records have their types.
LEMMA IdleTypes ==
    /\ IdentityMasters \in MastersType
    /\ HandlerIdle \in HandlerType /\ HandlerIdle.pc = "idle" /\ HandlerIdle.auto = FALSE
    /\ TickIdle \in TickType /\ TickIdle.pc = "idle"
    /\ PanelIdle \in [pc : {"idle", "send"}, control : Controls, on : BOOLEAN]
<1>1. IdentityMasters \in MastersType
    BY EmptyIsMap DEF IdentityMasters, MastersType, Levels
<1>2. HandlerIdle \in HandlerType /\ HandlerIdle.pc = "idle" /\ HandlerIdle.auto = FALSE
    BY <1>1 DEF HandlerIdle, HandlerType, Levels
<1>3. TickIdle \in TickType /\ TickIdle.pc = "idle"
    BY EmptyIsMap DEF TickIdle, TickType
<1>4. PanelIdle \in [pc : {"idle", "send"}, control : Controls, on : BOOLEAN]
    BY DEF PanelIdle, Controls, Flags
<1> QED
    BY <1>1, <1>2, <1>3, <1>4

\* What a tick composes of the scene and the desk is a map of levels.
LEMMA ComposedIsMap ==
    ASSUME NEW overrides \in LevelMaps(Faders)
    PROVE  ApplyDeskOverrides(EngineFrame, overrides) \in LevelMaps(Instances)
<1> DEFINE programmed == IF EngineFrame = NoFrame THEN {} ELSE DOMAIN EngineFrame
           overridden == {f[1] : f \in DOMAIN overrides}
           D == programmed \cup overridden
<1>1. overrides \in [DOMAIN overrides -> Levels] /\ DOMAIN overrides \subseteq Faders
    BY LevelMapsDef
<1>2. \A f \in Faders : f[1] \in Instances
    BY SafetyAssumption
<1>3. D \in SUBSET Instances
    BY <1>1, <1>2, SafetyAssumption
<1>4. \A i \in programmed : EngineFrame[i] \in Levels
    BY SafetyAssumption
<1>5. ApplyDeskOverrides(EngineFrame, overrides)
        = [i \in D |-> IF <<i, "intensity">> \in DOMAIN overrides
                       THEN overrides[<<i, "intensity">>]
                       ELSE IF i \in programmed THEN EngineFrame[i] ELSE 0]
    BY DEF ApplyDeskOverrides
<1> HIDE DEF programmed, overridden
<1>6. ApplyDeskOverrides(EngineFrame, overrides) \in [D -> Levels]
    BY <1>1, <1>4, <1>5 DEF Levels
<1> QED
    BY <1>3, <1>6 DEF LevelMaps

\* An encoded frame has a level for every instance, and every level is 0 when
\* it is encoded dark.
LEMMA EncodedIsOutput ==
    ASSUME NEW values \in LevelMaps(Instances), NEW dark \in BOOLEAN, NEW m
    PROVE  /\ Encoded(values, dark, m) \in [Instances -> Levels]
           /\ dark => Encoded(values, dark, m) = Zero
<1>1. values \in [DOMAIN values -> Levels]
    BY LevelMapsDef
<1>2. \A i \in Instances : EffectiveMultiplier(i, m) \in {0, 1}
    BY DEF EffectiveMultiplier
<1>3. \A i \in DOMAIN values \cap Instances : values[i] * EffectiveMultiplier(i, m) \in Levels
    BY <1>1, <1>2 DEF Levels
<1> QED
    BY <1>3 DEF Encoded, Zero, Levels

-----------------------------------------------------------------------------
(* The requests being served *)

\* Of the connections being served, those with an automation's request never
\* outnumber the connections there are (daemon.handle admits one each).
LEMMA ServedBound ==
    ASSUME NEW S \in SUBSET Handlers
    PROVE  /\ IsFiniteSet(S) /\ Cardinality(S) \in Nat /\ Cardinality(Handlers) \in Nat
           /\ Cardinality(S) <= Cardinality(Handlers)
BY SafetyAssumption, FS_Subset, FS_CardinalityType

\* A request that ends is no longer counted, and one of the desk or of an
\* operator never was.
LEMMA AdmittedChanges ==
    ASSUME NEW h \in Handlers, handler \in [Handlers -> HandlerType], NEW r \in HandlerType,
           handler' = [handler EXCEPT ![h] = r]
    PROVE  /\ Admitted' \in SUBSET Handlers
           /\ h \in Admitted /\ (r.pc = "idle" \/ ~r.auto)
                => Cardinality(Admitted') = Cardinality(Admitted) - 1
           /\ h \notin Admitted /\ (r.pc = "idle" \/ ~r.auto) => Admitted' = Admitted
           /\ h \in Admitted /\ r.pc # "idle" /\ r.auto => Admitted' = Admitted
<1>0. Admitted \in SUBSET Handlers
    BY DEF Admitted
<1>1. ASSUME h \in Admitted, r.pc = "idle" \/ ~r.auto
      PROVE  Cardinality(Admitted') = Cardinality(Admitted) - 1
  <2>1. Admitted' = Admitted \ {h}
    BY <1>1 DEF Admitted
  <2> QED
    BY <1>0, <1>1, <2>1, ServedBound, FS_RemoveElement
<1>2. ASSUME h \notin Admitted, r.pc = "idle" \/ ~r.auto PROVE Admitted' = Admitted
    BY <1>2 DEF Admitted
<1>3. ASSUME h \in Admitted, r.pc # "idle", r.auto PROVE Admitted' = Admitted
    BY <1>3 DEF Admitted
<1>4. Admitted' \in SUBSET Handlers
    BY DEF Admitted
<1> QED
    BY <1>1, <1>2, <1>3, <1>4

\* A request that ends, carried out or refused, keeps the count.
LEMMA RequestEnds ==
    ASSUME SInv, NEW h \in Handlers, handler[h].pc # "idle",
           handler' = [handler EXCEPT ![h] = HandlerIdle], revoked' = revoked,
           late' = late \/ (late' = late + 1 /\ handler[h].auto /\ revoked)
    PROVE  RevokeCounts' /\ late' \in Nat
<1>a. handler \in [Handlers -> HandlerType] /\ late \in Nat /\ revoked \in BOOLEAN
    BY DEF SInv, SafetyTypes
<1>b. Admitted' \in SUBSET Handlers /\ Admitted \in SUBSET Handlers
    BY <1>a, IdleTypes, AdmittedChanges DEF Admitted
<1>c. /\ Cardinality(Admitted) \in Nat /\ Cardinality(Admitted') \in Nat
      /\ Cardinality(Handlers) \in Nat
    BY <1>b, ServedBound
<1>1. CASE h \in Admitted
  <2>1. Cardinality(Admitted') = Cardinality(Admitted) - 1
    BY <1>1, <1>a, IdleTypes, AdmittedChanges
  <2> QED
    BY <1>a, <1>c, <2>1 DEF SInv, RevokeCounts
<1>2. CASE h \notin Admitted
  <2>1. Admitted' = Admitted
    BY <1>2, <1>a, IdleTypes, AdmittedChanges
  <2>2. late' = late
    BY <1>2 DEF Admitted
  <2> QED
    BY <1>a, <2>1, <2>2 DEF SInv, RevokeCounts
<1> QED
    BY <1>1, <1>2

\* Setting or lifting blackout, stop-all or revoke.
LEMMA SetKeeps ==
    ASSUME SInv, NEW control \in Controls, NEW on, Set(control, on),
           control = "revoke" => on \in BOOLEAN, tick' = tick
    PROVE  /\ flags' \subseteq Flags /\ revoked' \in BOOLEAN /\ held' \subseteq Flags
           /\ HeldIsSeen'
           /\ control # "revoke" => revoked' = revoked
<1>1. flags' \subseteq Flags
    BY DEF Set, SInv, SafetyTypes, Controls
<1>2. revoked' \in BOOLEAN /\ (control # "revoke" => revoked' = revoked)
    BY DEF Set, SInv, SafetyTypes
<1>3. held' = held \cap flags'
    BY DEF Set
<1>4. HeldIsSeen' /\ held' \subseteq Flags
    BY <1>3 DEF SInv, SafetyTypes, HeldIsSeen
<1> QED
    BY <1>1, <1>2, <1>4

\* A revoke, or its lifting, starts the count anew.
LEMMA CountsAnew ==
    ASSUME late' = 0
    PROVE  RevokeCounts' /\ late' \in Nat
<1>1. Admitted' \in SUBSET Handlers
    BY DEF Admitted
<1>2. /\ Cardinality(Admitted)' \in Nat /\ Cardinality(Handlers) \in Nat
      /\ Cardinality(Admitted)' <= Cardinality(Handlers)
    BY <1>1, ServedBound
<1> QED
    BY <1>2 DEF RevokeCounts

\* The daemon as it starts.
LEMMA InitSInv == Init => SInv
<1> SUFFICES ASSUME Init PROVE SInv
    OBVIOUS
<1>1. SafetyTypes
  <2>1. output \in [Instances -> Levels]
    BY DEF Init, Zero, Levels
  <2>2. handler \in [Handlers -> HandlerType]
    BY IdleTypes DEF Init
  <2>3. requests \in 0 .. MaxRequests /\ late \in Nat
    BY SafetyAssumption DEF Init
  <2>4. DOMAIN reader = Hotkeys \cup {"poll"}
    BY DEF Init
  <2>5. /\ flags \subseteq Flags /\ revoked \in BOOLEAN /\ held \subseteq Flags
        /\ clear \subseteq Hotkeys /\ overlapped \in BOOLEAN
    BY DEF Init
  <2>6. /\ masters \in MastersType /\ asSet \in MastersType /\ desk \in LevelMaps(Faders)
        /\ tick \in TickType
        /\ panel \in [pc : {"idle", "send"}, control : Controls, on : BOOLEAN]
    BY IdleTypes, EmptyIsMap DEF Init
  <2> QED
    BY <2>1, <2>2, <2>3, <2>4, <2>5, <2>6 DEF SafetyTypes
<1>2. OneSetsMasters
    BY IdleTypes DEF Init, OneSetsMasters
<1>3. RevokeCounts
  <2>1. Cardinality(Handlers) \in Nat
    BY ServedBound
  <2> QED
    BY <2>1 DEF Init, RevokeCounts
<1>4. HeldIsSeen
    BY IdleTypes DEF Init, HeldIsSeen
<1> QED
    BY <1>1, <1>2, <1>3, <1>4 DEF SInv

\* A connection goes on with its request, or ends it.
LEMMA ServeKeeps ==
    ASSUME SInv, NEW h \in Handlers, (\E source \in {"manual", "automation"} : Handle(h, source))
                                     \/ Route(h) \/ StoreMasters(h)
    PROVE  SInv'
<1>a. /\ handler \in [Handlers -> HandlerType] /\ handler[h] \in HandlerType
      /\ requests \in 0 .. MaxRequests /\ MaxRequests \in Nat
    BY SafetyAssumption DEF SInv, SafetyTypes
<1>b. HandlerIdle \in HandlerType /\ HandlerIdle.pc = "idle" /\ HandlerIdle.auto = FALSE
    BY IdleTypes
<1>1. ASSUME NEW source \in {"manual", "automation"}, Handle(h, source) PROVE SInv'
  <2>1. /\ handler[h].pc = "idle" /\ requests > 0 /\ requests' = requests - 1
        /\ UNCHANGED <<flags, revoked, masters, desk, tick, output, reader, panel, asSet, held,
                       overlapped, late, clear>>
    BY <1>1 DEF Handle, safetyVars, clientVars
  <2>2. CASE handler' = handler
    BY <1>a, <2>1, <2>2 DEF SInv, SafetyTypes, OneSetsMasters, RevokeCounts, Admitted, HeldIsSeen
  <2>3. CASE handler' # handler
    <3> DEFINE r == [handler[h] EXCEPT !.pc = "route", !.auto = source = "automation"]
    <3>1. r \in HandlerType /\ r.pc = "route" /\ (r.auto => source = "automation")
      BY <1>a DEF HandlerType
    <3>2. handler' = [handler EXCEPT ![h] = r] /\ ~(revoked /\ source = "automation")
      BY <1>1, <1>a, <2>3 DEF Handle, HandlerType
    <3> HIDE DEF r
    <3>3. SafetyTypes'
      BY <1>a, <2>1, <3>1, <3>2 DEF SInv, SafetyTypes
    <3>4. OneSetsMasters'
      BY <1>a, <2>1, <3>1, <3>2 DEF SInv, OneSetsMasters
    <3>5. RevokeCounts'
      <4>1. CASE revoked
        <5>1. ~r.auto /\ h \notin Admitted
          BY <2>1, <3>1, <3>2, <4>1 DEF Admitted
        <5>2. Admitted' = Admitted
          BY <1>a, <3>1, <3>2, <5>1, AdmittedChanges
        <5> QED
          BY <2>1, <5>2 DEF SInv, RevokeCounts
      <4>2. CASE ~revoked
        BY <2>1, <4>2 DEF SInv, RevokeCounts
      <4> QED
        BY <4>1, <4>2
    <3>6. HeldIsSeen'
      BY <2>1 DEF SInv, HeldIsSeen
    <3> QED
      BY <3>3, <3>4, <3>5, <3>6 DEF SInv
  <2> QED
    BY <2>2, <2>3
<1>2. ASSUME Done(h)
      PROVE  /\ handler[h].pc = "route" /\ handler' = [handler EXCEPT ![h] = HandlerIdle]
             /\ handler' \in [Handlers -> HandlerType]
             /\ UNCHANGED <<tick, output, requests, reader, panel, asSet, overlapped>>
    BY <1>2, <1>a, <1>b DEF Done, clientVars
<1>3. ASSUME Done(h), masters' = masters PROVE OneSetsMasters'
    BY <1>2, <1>3, <1>a, <1>b DEF SInv, OneSetsMasters
<1>4. ASSUME NEW control \in Controls, NEW on \in BOOLEAN, SetFlag(h, control, on) PROVE SInv'
  <2>1. /\ Done(h) /\ Set(control, on) /\ clear' = {} /\ UNCHANGED <<masters, desk>>
        /\ control = "revoke" => late' = 0
        /\ control # "revoke" =>
              late' = late \/ (late' = late + 1 /\ handler[h].auto /\ revoked)
    BY <1>4 DEF SetFlag
  <2>2. /\ flags' \subseteq Flags /\ revoked' \in BOOLEAN /\ held' \subseteq Flags /\ HeldIsSeen'
        /\ control # "revoke" => revoked' = revoked
    BY <1>2, <2>1, SetKeeps
  <2>3. RevokeCounts' /\ late' \in Nat
    BY <1>2, <2>1, <2>2, CountsAnew, RequestEnds
  <2>4. SafetyTypes'
    BY <1>2, <2>1, <2>2, <2>3 DEF SInv, SafetyTypes
  <2> QED
    BY <1>3, <2>1, <2>2, <2>3, <2>4 DEF SInv
<1>5. ASSUME NEW key \in Groups \cup {"grand"}, NEW level, LoadMasters(h, key, level) PROVE SInv'
  <2>1. /\ handler[h].pc = "route"
        /\ UNCHANGED <<flags, revoked, masters, desk, tick, output, requests, reader, panel, asSet,
                       held, late, clear>>
    BY <1>5 DEF LoadMasters, safetyVars, clientVars
  <2>2. overlapped' \in BOOLEAN
        /\ (~overlapped' => ~overlapped /\ \A o \in Handlers \ {h} : handler[o].pc # "store")
    BY <1>5, Zenon DEF LoadMasters
  <2>3. CASE level \notin Levels
    <3>1. handler' = [handler EXCEPT ![h] = HandlerIdle]
      BY <1>5, <2>3 DEF LoadMasters
    <3>2. SafetyTypes'
      BY <1>a, <1>b, <2>1, <2>2, <3>1 DEF SInv, SafetyTypes
    <3>3. OneSetsMasters'
      BY <1>a, <1>b, <2>1, <2>2, <3>1 DEF SInv, OneSetsMasters
    <3>4. RevokeCounts'
      BY <2>1, <3>1, RequestEnds
    <3>5. HeldIsSeen'
      BY <2>1 DEF SInv, HeldIsSeen
    <3> QED
      BY <3>2, <3>3, <3>4, <3>5 DEF SInv
  <2>4. CASE level \in Levels
    <3> DEFINE r == [pc |-> "store", auto |-> handler[h].auto, key |-> key, level |-> level,
                     loaded |-> masters]
    <3>1. r \in HandlerType /\ r.pc = "store" /\ r.auto = handler[h].auto /\ r.loaded = masters
      BY <1>a, <2>4 DEF HandlerType, SInv, SafetyTypes
    <3>2. handler' = [handler EXCEPT ![h] = r]
      BY <1>5, <2>4 DEF LoadMasters
    <3> HIDE DEF r
    <3>3. SafetyTypes'
      BY <1>a, <2>1, <2>2, <3>1, <3>2 DEF SInv, SafetyTypes
    <3>4. OneSetsMasters'
      BY <1>a, <2>1, <2>2, <3>1, <3>2 DEF SInv, OneSetsMasters
    <3>5. RevokeCounts'
      <4>1. h \in Admitted <=> handler[h].auto
        BY <2>1 DEF Admitted
      <4>2. handler[h].auto \in BOOLEAN
        BY <1>a DEF HandlerType
      <4>3. Admitted' = Admitted
        BY <1>a, <3>1, <3>2, <4>1, <4>2, AdmittedChanges
      <4> QED
        BY <2>1, <4>3 DEF SInv, RevokeCounts
    <3>6. HeldIsSeen'
      BY <2>1 DEF SInv, HeldIsSeen
    <3> QED
      BY <3>3, <3>4, <3>5, <3>6 DEF SInv
  <2> QED
    BY <2>3, <2>4
<1>6. ASSUME Late(h), revoked' = revoked, handler[h].pc # "idle",
             handler' = [handler EXCEPT ![h] = HandlerIdle]
      PROVE  RevokeCounts' /\ late' \in Nat
    BY <1>6, RequestEnds DEF Late
<1>7. CASE StoreMasters(h)
  <2>1. /\ handler[h].pc = "store" /\ handler' = [handler EXCEPT ![h] = HandlerIdle]
        /\ masters' = WithMaster(handler[h].loaded, handler[h].key, handler[h].level)
        /\ asSet' = WithMaster(asSet, handler[h].key, handler[h].level) /\ Late(h)
        /\ UNCHANGED <<flags, revoked, desk, tick, output, requests, reader, panel, held,
                       overlapped, clear>>
    BY <1>7 DEF StoreMasters, clientVars
  <2>2. /\ handler[h].loaded \in MastersType /\ handler[h].key \in Groups \cup {"grand"}
        /\ handler[h].level \in Levels /\ asSet \in MastersType
    BY <1>a DEF HandlerType, SInv, SafetyTypes
  <2>3. masters' \in MastersType /\ asSet' \in MastersType
    BY <2>1, <2>2, WithMasterType
  <2>4. RevokeCounts' /\ late' \in Nat
    BY <1>6, <2>1
  <2>5. SafetyTypes'
    BY <1>a, <1>b, <2>1, <2>3, <2>4 DEF SInv, SafetyTypes
  <2>6. OneSetsMasters'
    <3>1. \A o \in Handlers : ~overlapped => handler'[o].pc # "store"
      BY <1>a, <1>b, <2>1 DEF SInv, OneSetsMasters
    <3>2. ~overlapped => handler[h].loaded = asSet
      BY <2>1 DEF SInv, OneSetsMasters
    <3> QED
      BY <2>1, <3>1, <3>2 DEF OneSetsMasters
  <2>7. HeldIsSeen'
    BY <2>1 DEF SInv, HeldIsSeen
  <2> QED
    BY <2>4, <2>5, <2>6, <2>7 DEF SInv
<1>8. ASSUME Done(h), Late(h), desk' \in LevelMaps(Faders),
             UNCHANGED <<flags, revoked, masters, held, clear>>
      PROVE  SInv'
  <2>1. RevokeCounts' /\ late' \in Nat
    BY <1>2, <1>6, <1>8
  <2>2. SafetyTypes'
    BY <1>2, <1>8, <2>1 DEF SInv, SafetyTypes
  <2>3. HeldIsSeen'
    BY <1>2, <1>8 DEF SInv, HeldIsSeen
  <2> QED
    BY <1>3, <1>8, <2>1, <2>2, <2>3 DEF SInv
<1>9. ASSUME NEW fader \in Faders, NEW level, SetAttribute(h, fader, level) PROVE SInv'
  <2>1. desk' \in LevelMaps(Faders)
    BY <1>9, PutIsMap DEF SetAttribute, SInv, SafetyTypes
  <2> QED
    BY <1>8, <1>9, <2>1 DEF SetAttribute
<1>10. ASSUME NEW faders, ClearFaders(h, faders) PROVE SInv'
  <2>1. desk' \in LevelMaps(Faders)
    BY <1>10, WithoutIsMap DEF ClearFaders, SInv, SafetyTypes
  <2> QED
    BY <1>8, <1>10, <2>1 DEF ClearFaders
<1>11. CASE Route(h)
  <2>1. CASE \E q \in SafetyRequests : SetFlag(h, q[1], q[2])
    <3>1. PICK q \in SafetyRequests : SetFlag(h, q[1], q[2])
      BY <2>1
    <3>2. q[1] \in Controls /\ q[2] \in BOOLEAN
      BY DEF SafetyRequests
    <3> QED
      BY <1>4, <3>1, <3>2
  <2>2. CASE \E q \in MasterRequests : LoadMasters(h, q[1], q[2])
    <3>1. PICK q \in MasterRequests : LoadMasters(h, q[1], q[2])
      BY <2>2
    <3>2. q[1] \in Groups \cup {"grand"}
      BY DEF MasterRequests
    <3> QED
      BY <1>5, <3>1, <3>2
  <2>3. CASE \E q \in DeskRequests : SetAttribute(h, q[1], q[2])
    <3>1. PICK q \in DeskRequests : SetAttribute(h, q[1], q[2])
      BY <2>3
    <3>2. q[1] \in Faders
      BY DEF DeskRequests
    <3> QED
      BY <1>9, <3>1, <3>2
  <2>4. CASE \E q \in ClearRequests : ClearFaders(h, q)
    BY <1>10, <2>4
  <2> QED
    BY <1>11, <2>1, <2>2, <2>3, <2>4 DEF Route
<1> QED
    BY <1>1, <1>7, <1>11

\* The worker's tick: a flag that stays on is seen at one of the two loads.
LEMMA TickKeeps ==
    ASSUME SInv, Tick
    PROVE  SInv'
<1>a. /\ tick \in TickType /\ desk \in LevelMaps(Faders) /\ flags \subseteq Flags
      /\ held \subseteq flags /\ output \in [Instances -> Levels]
    BY DEF SInv, SafetyTypes, HeldIsSeen
<1>1. ASSUME tick' \in TickType, output' \in [Instances -> Levels], held' \subseteq Flags,
             HeldIsSeen', UNCHANGED <<flags, revoked, masters, desk, handler, requests, reader,
                                      panel, asSet, overlapped, late, clear>>
      PROVE  SInv'
    BY <1>1 DEF SInv, SafetyTypes, OneSetsMasters, RevokeCounts, Admitted
<1>2. CASE TickRead
  <2>1. UNCHANGED <<flags, revoked, masters, desk, handler, requests, reader, panel, asSet,
                    overlapped, late, clear>>
    BY <1>2 DEF TickRead, safetyVars, clientVars
  <2> DEFINE values == ApplyDeskOverrides(EngineFrame, desk)
  <2>2. CASE output' = Zero /\ UNCHANGED <<tick, held>>
    <3>1. Zero \in [Instances -> Levels]
      BY DEF Zero, Levels
    <3>2. HeldIsSeen' /\ held' \subseteq Flags
      BY <2>1, <2>2 DEF SInv, SafetyTypes, HeldIsSeen
    <3> QED
      BY <1>1, <1>a, <2>1, <2>2, <3>1, <3>2
  <2>3. CASE /\ tick' = [pc |-> "blackout", values |-> values, dark |-> FALSE]
             /\ held' = flags /\ UNCHANGED output
    <3>1. values \in LevelMaps(Instances)
      BY <1>a, ComposedIsMap
    <3>2. tick' \in TickType /\ tick'.pc = "blackout"
      BY <2>3, <3>1 DEF TickType
    <3>3. HeldIsSeen'
      BY <2>1, <2>3, <3>2 DEF HeldIsSeen
    <3> QED
      BY <1>1, <1>a, <2>1, <2>3, <3>2, <3>3
  <2> QED
    BY <1>2, <2>2, <2>3 DEF TickRead
<1>3. CASE TickBlackout
  <2>1. /\ tick.pc = "blackout"
        /\ UNCHANGED <<flags, revoked, masters, desk, handler, requests, reader, panel, asSet,
                       overlapped, late, clear, output, held>>
    BY <1>3 DEF TickBlackout, safetyVars, clientVars
  <2>2. CASE "blackout" \in flags
    <3>1. tick' \in TickType /\ tick'.pc = "masters" /\ tick'.dark
      BY <1>3, <1>a, <2>2 DEF TickBlackout, TickType
    <3>2. HeldIsSeen'
      BY <1>a, <2>1, <3>1 DEF HeldIsSeen
    <3> QED
      BY <1>1, <1>a, <2>1, <3>1, <3>2
  <2>3. CASE "blackout" \notin flags
    <3>1. tick' \in TickType /\ tick'.pc = "stopAll"
      BY <1>3, <1>a, <2>3 DEF TickBlackout, TickType
    <3>2. HeldIsSeen'
      BY <1>a, <2>1, <2>3, <3>1 DEF HeldIsSeen
    <3> QED
      BY <1>1, <1>a, <2>1, <3>1, <3>2
  <2> QED
    BY <2>2, <2>3
<1>4. CASE TickStopAll
  <2>1. /\ tick.pc = "stopAll"
        /\ UNCHANGED <<flags, revoked, masters, desk, handler, requests, reader, panel, asSet,
                       overlapped, late, clear, output, held>>
    BY <1>4 DEF TickStopAll, safetyVars, clientVars
  <2>2. tick' \in TickType /\ tick'.pc = "masters" /\ (tick'.dark <=> "stopAll" \in flags)
    <3>2. tick' = [tick EXCEPT !.pc = "masters", !.dark = "stopAll" \in flags]
      BY <1>4 DEF TickStopAll
    <3>3. CASE "stopAll" \in flags
      <4>1. tick' = [tick EXCEPT !.pc = "masters", !.dark = TRUE]
        BY <3>2, <3>3, Zenon
      <4> QED
        BY <4>1, <1>a, <3>3 DEF TickType
    <3>4. CASE "stopAll" \notin flags
      <4>1. tick' = [tick EXCEPT !.pc = "masters", !.dark = FALSE]
        <5>1. ("stopAll" \in flags) = FALSE
          BY <3>4
        <5> QED
          BY <3>2, <5>1, Zenon
      <4> QED
        BY <4>1, <1>a, <3>4 DEF TickType
    <3> QED
      BY <3>3, <3>4
  <2>3. held = {} \/ "stopAll" \in flags
    BY <1>a, <2>1 DEF SInv, HeldIsSeen, Flags
  <2>4. HeldIsSeen'
    BY <1>a, <2>1, <2>2, <2>3 DEF HeldIsSeen
  <2> QED
    BY <1>1, <1>a, <2>1, <2>2, <2>4
<1>5. CASE TickEncode
  <2>1. /\ tick.pc = "masters" /\ output' = Encoded(tick.values, tick.dark, masters)
        /\ tick' = TickIdle
        /\ UNCHANGED <<flags, revoked, masters, desk, handler, requests, reader, panel, asSet,
                       overlapped, late, clear, held>>
    BY <1>5 DEF TickEncode, safetyVars, clientVars
  <2>2. tick.values \in LevelMaps(Instances) /\ tick.dark \in BOOLEAN
    BY <1>a DEF TickType
  <2>3. output' \in [Instances -> Levels]
    BY <2>1, <2>2, EncodedIsOutput
  <2>4. HeldIsSeen'
    BY <1>a, <2>1, IdleTypes DEF HeldIsSeen
  <2> QED
    BY <1>1, <1>a, <2>1, <2>3, <2>4, IdleTypes
<1> QED
    BY <1>2, <1>3, <1>4, <1>5 DEF Tick

\* The hotkeys, the status poll and the panel.
LEMMA ClientsKeep ==
    ASSUME SInv, \/ \E r \in DOMAIN reader : Read(r)
                 \/ \E r \in Hotkeys : HotkeySends(r)
                 \/ toggle
                 \/ \E control \in Controls, on \in BOOLEAN : Blackout(control, on)
    PROVE  SInv'
<1>a. DOMAIN reader = Hotkeys \cup {"poll"} /\ clear \subseteq Hotkeys /\ Hotkeys \subseteq Controls
    BY SafetyAssumption DEF SInv, SafetyTypes
<1>1. ASSUME UNCHANGED <<flags, revoked, masters, desk, handler, tick, output, requests, asSet,
                         held, overlapped, late>>,
             DOMAIN reader' = DOMAIN reader, clear' \subseteq Hotkeys,
             panel' \in [pc : {"idle", "send"}, control : Controls, on : BOOLEAN]
      PROVE  SInv'
    BY <1>1 DEF SInv, SafetyTypes, OneSetsMasters, RevokeCounts, Admitted, HeldIsSeen
<1>2. ASSUME NEW r \in DOMAIN reader, Read(r) PROVE SInv'
  <2>1. /\ UNCHANGED <<flags, revoked, masters, desk, handler, tick, output, requests, asSet,
                       held, overlapped, late, panel>>
    BY <1>2 DEF Read, StartRead, ReadStopAll, ReadRevoke, ReadVars, safetyVars
  <2>2. DOMAIN reader' = DOMAIN reader
    BY <1>2 DEF Read, StartRead, ReadStopAll, ReadRevoke
  <2>3. clear' \subseteq Hotkeys
    BY <1>2, <1>a DEF Read, StartRead, ReadStopAll, ReadRevoke
  <2> QED
    BY <1>1, <2>1, <2>2, <2>3 DEF SInv, SafetyTypes
<1>3. ASSUME NEW control \in Controls, NEW on, control = "revoke" => on \in BOOLEAN,
             Set(control, on), late' = IF control = "revoke" THEN 0 ELSE late,
             UNCHANGED <<masters, desk, handler, tick, output, requests, asSet, overlapped>>,
             DOMAIN reader' = DOMAIN reader, clear' \subseteq Hotkeys,
             panel' \in [pc : {"idle", "send"}, control : Controls, on : BOOLEAN]
      PROVE  SInv'
  <2>1. /\ flags' \subseteq Flags /\ revoked' \in BOOLEAN /\ held' \subseteq Flags /\ HeldIsSeen'
        /\ control # "revoke" => revoked' = revoked
    BY <1>3, SetKeeps
  <2>2. RevokeCounts' /\ late' \in Nat
    <3>1. CASE control = "revoke"
      BY <1>3, <3>1, CountsAnew
    <3>2. CASE control # "revoke"
      BY <1>3, <2>1, <3>2 DEF SInv, SafetyTypes, RevokeCounts, Admitted
    <3> QED
      BY <3>1, <3>2
  <2>3. SafetyTypes'
    BY <1>3, <2>1, <2>2 DEF SInv, SafetyTypes
  <2>4. OneSetsMasters'
    BY <1>3 DEF SInv, OneSetsMasters
  <2> QED
    BY <2>1, <2>2, <2>3, <2>4 DEF SInv
<1>4. ASSUME NEW r \in Hotkeys, HotkeySends(r) PROVE SInv'
  <2>1. r \in Controls /\ (r = "revoke" => nextToggleValue(r) \in BOOLEAN)
    BY <1>a DEF nextToggleValue
  <2>2. /\ Set(r, nextToggleValue(r)) /\ late' = IF r = "revoke" THEN 0 ELSE late
        /\ UNCHANGED <<masters, desk, handler, tick, output, requests, asSet, overlapped, panel>>
        /\ DOMAIN reader' = DOMAIN reader /\ clear' \subseteq Hotkeys
    BY <1>4, <1>a DEF HotkeySends
  <2> QED
    BY <1>3, <2>1, <2>2 DEF SInv, SafetyTypes
<1>5. CASE toggle
  <2>1. panel.control \in Controls /\ panel.on \in BOOLEAN
    BY DEF SInv, SafetyTypes
  <2>2. /\ Set(panel.control, panel.on) /\ late' = IF panel.control = "revoke" THEN 0 ELSE late
        /\ UNCHANGED <<masters, desk, handler, tick, output, requests, asSet, overlapped, reader>>
        /\ clear' \subseteq Hotkeys /\ panel' = PanelIdle
    BY <1>5 DEF toggle
  <2> QED
    BY <1>3, <2>1, <2>2, IdleTypes
<1>6. ASSUME NEW control \in Controls, NEW on \in BOOLEAN, Blackout(control, on) PROVE SInv'
  <2>1. panel' \in [pc : {"idle", "send"}, control : Controls, on : BOOLEAN]
    BY <1>6, IdleTypes DEF Blackout
  <2>2. UNCHANGED <<flags, revoked, masters, desk, handler, tick, output, requests, reader, asSet,
                    held, overlapped, late, clear>>
    BY <1>6 DEF Blackout, safetyVars
  <2> QED
    BY <1>1, <1>a, <2>1, <2>2
<1> QED
    BY <1>2, <1>4, <1>5, <1>6

\* Every step keeps the invariant.
LEMMA NextSInv == SInv /\ [Next]_vars => SInv'
<1>1. ASSUME SInv, UNCHANGED vars PROVE SInv'
    BY <1>1 DEF vars, SInv, SafetyTypes, OneSetsMasters, RevokeCounts, Admitted, HeldIsSeen
<1>2. ASSUME SInv, Next PROVE SInv'
    BY <1>2, TickKeeps, ServeKeeps, ClientsKeep DEF Next
<1> QED
    BY <1>1, <1>2

\* The invariant holds in every behaviour of the daemon and its clients.
THEOREM SafetyInvariance == Spec => []SInv
BY InitSInv, NextSInv, PTL DEF Spec

\* Every master stands where it was last set unless two requests set masters at
\* once, and after a revoke no more requests of automations are carried out
\* than there are connections, however requests and ticks interleave.
THEOREM RequestsAlwaysStand == Spec => []RequestsStand
<1>1. ASSUME SInv PROVE RequestsStand
  <2>1. /\ DOMAIN desk \subseteq Faders /\ \A f \in DOMAIN desk : desk[f] \in Levels
        /\ DOMAIN tick.values \subseteq Instances
        /\ tick.pc \in {"idle", "blackout", "stopAll", "masters"}
    BY <1>1, LevelMapsDef DEF SInv, SafetyTypes, TickType
  <2>2. TypeOK
    BY <1>1, <2>1 DEF SInv, SafetyTypes, TypeOK, HandlerType, MastersType, LevelMaps
  <2>3. MastersAsSet
    BY <1>1 DEF SInv, OneSetsMasters, MastersAsSet
  <2>4. RevokeIsPrompt
    BY <1>1 DEF SInv, RevokeCounts, RevokeIsPrompt
  <2> QED
    BY <2>2, <2>3, <2>4 DEF RequestsStand
<1> QED
    BY <1>1, SafetyInvariance, PTL

\* A frame composed while blackout, or while stop-all, was on throughout has
\* every intensity out, whatever the scene, the desk and the masters say.
THEOREM HeldFlagDarkens == Spec => HeldFlagIsDark
<1>1. SInv /\ [Next]_vars => [(Encodes /\ held # {}) => Dark']_vars
  <2> SUFFICES ASSUME SInv, [Next]_vars, Encodes, held # {} PROVE Dark'
    OBVIOUS
  <2>1. tick.pc = "masters" /\ tick'.pc = "idle"
    BY DEF Encodes
  <2>2. Next
    BY <2>1 DEF vars
  <2>3. \A h \in Handlers : (\E source \in {"manual", "automation"} : Handle(h, source))
                            \/ Route(h) \/ StoreMasters(h) => tick' = tick
    BY DEF Handle, Route, SetFlag, LoadMasters, SetAttribute, ClearFaders, Done, StoreMasters
  <2>4. \A r : Read(r) \/ HotkeySends(r) => tick' = tick
    BY DEF Read, StartRead, ReadStopAll, ReadRevoke, ReadVars, HotkeySends
  <2>5. toggle \/ (\E control \in Controls, on \in BOOLEAN : Blackout(control, on)) => tick' = tick
    BY DEF toggle, Blackout
  <2>6. Tick
    BY <2>1, <2>2, <2>3, <2>4, <2>5 DEF Next
  <2>7. output' = Encoded(tick.values, tick.dark, masters)
    BY <2>1, <2>6 DEF Tick, TickRead, TickBlackout, TickStopAll, TickEncode
  <2>8. tick.values \in LevelMaps(Instances) /\ tick.dark = TRUE
    BY <2>1 DEF SInv, SafetyTypes, TickType, HeldIsSeen
  <2>9. output' = Zero
    BY <2>7, <2>8, EncodedIsOutput
  <2> QED
    BY <2>9 DEF Dark, Zero
<1> QED
    BY <1>1, SafetyInvariance, PTL DEF Spec, HeldFlagIsDark
=============================================================================
