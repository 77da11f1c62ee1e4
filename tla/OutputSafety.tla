---------------------------- MODULE OutputSafety ----------------------------
(***************************************************************************)
(* internal/artnet/safety.go and desk.go: the blackout, stop-all, revoke   *)
(* and master state and the manual desk, which the daemon's IPC handlers   *)
(* change, one goroutine per connection, while the worker's tick goroutine *)
(* reads them.  The flags and the masters are atomics under no lock, so    *)
(* every Load and Store is a step; the desk changes under a mutex, in one. *)
(*                                                                         *)
(* The clients are the artnet commands (internal/command/artnet.go), which *)
(* the desk of the desktop and its MIDI dispatch use too, the panel of     *)
(* safety buttons, held to what the selected surface has                   *)
(* (internal/wails/svc_safety.go), the safety hotkeys, which read the      *)
(* status to know what to toggle to (hotkey.go), and the status poll.      *)
(*                                                                         *)
(* A level is 0 or 1 (out or full): a product of levels is 1 exactly when  *)
(* every factor is.  Desk capabilities are the intensity, which blackout   *)
(* and masters act on, and one other.                                      *)
(***************************************************************************)
EXTENDS Naturals, FiniteSets

CONSTANTS
    Instances,      \* fixture instances
    Groups,         \* pool groups
    Member,         \* Member[i]: the groups of instance i (buildMembership)
    EngineFrame,    \* CurrentFrame: programmed intensity by instance, or NoFrame
    Faders,         \* the desk's faders: instance and capability
    Handlers,       \* connections being served at once
    Hotkeys,        \* safety controls with a registered hotkey
    MaxPresses,     \* bound: hotkeys pressed and panel buttons clicked
    MaxRequests,    \* bound: requests in one behaviour
    NoFrame         \* nil: the engine is idle

Flags == {"blackout", "stopAll"}
Controls == Flags \cup {"revoke"}
Levels == {0, 1}
Invalid == 2        \* a level outside [0,1]

ASSUME SafetyAssumption ==
    /\ Member \in [Instances -> SUBSET Groups]
    /\ EngineFrame = NoFrame \/
          (DOMAIN EngineFrame \subseteq Instances
             /\ \A i \in DOMAIN EngineFrame : EngineFrame[i] \in Levels)
    /\ Faders \subseteq Instances \X {"intensity", "other"}
    /\ Hotkeys \subseteq Controls
    /\ MaxRequests \in Nat /\ MaxPresses \in Nat
    /\ IsFiniteSet(Handlers)

VARIABLES
    flags,      \* the flags of Flags that are on
    revoked,    \* revokeAutomation
    masters,    \* the masterLevels snapshot: grand, and groups with a level
    desk,       \* the override map: level of each fader that is overridden
    handler,    \* each connection: where it is, its request, what it loaded
    tick,       \* the tick goroutine: where it is, the values it composed
    output,     \* intensity of each instance in the latest encoded frame
    requests,   \* requests still to come (bound)
    reader,     \* hotkeys and the status poll: where they are, what they read
    shown,      \* the output state the frontend was last told
    panel,      \* the safety button that was clicked: where its call is
    presses,    \* presses and clicks still to come (bound)
    asSet,      \* history: the masters, each at the level last stored for it
    held,       \* history: flags on ever since the current tick began
    overlapped, \* history: two requests set masters at once
    late,       \* history: requests of automations carried out since the revoke
    clear       \* history: hotkeys pressed with no flag on, none set since

safetyVars == <<flags, revoked, masters, desk>>
clientVars == <<reader, shown, panel, presses>>
vars == <<flags, revoked, masters, desk, handler, tick, output, requests,
          reader, shown, panel, presses, asSet, held, overlapped, late, clear>>

EmptyMap == [k \in {} |-> 0]
IdentityMasters == [grand |-> 1, groups |-> EmptyMap]
HandlerIdle == [pc |-> "idle", auto |-> FALSE, key |-> "grand", level |-> 0, loaded |-> IdentityMasters]
ReaderIdle == [pc |-> "idle", dark |-> FALSE, revoked |-> FALSE]
PanelIdle == [pc |-> "idle", control |-> "blackout", on |-> FALSE]
TickIdle == [pc |-> "idle", values |-> EmptyMap, dark |-> FALSE]
Zero == [i \in Instances |-> 0]

\* a map with k set to v, and without the keys of ks
Put(f, k, v) == [j \in DOMAIN f \cup {k} |-> IF j = k THEN v ELSE f[j]]
Without(f, ks) == [j \in DOMAIN f \ ks |-> f[j]]

Init ==
    /\ flags = {}
    /\ revoked = FALSE
    /\ masters = IdentityMasters
    /\ desk = EmptyMap
    /\ handler = [h \in Handlers |-> HandlerIdle]
    /\ tick = TickIdle
    /\ output = Zero
    /\ requests = MaxRequests
    /\ asSet = IdentityMasters
    /\ held = {}
    /\ reader = [r \in Hotkeys \cup {"poll"} |-> ReaderIdle]
    /\ shown = "none"
    /\ panel = PanelIdle
    /\ presses = MaxPresses
    /\ overlapped = FALSE
    /\ late = 0
    /\ clear = {}

-----------------------------------------------------------------------------
(* IPC handlers *)

\* Fault: the source is not looked at
FaultHandle(h, source) ==
    /\ handler[h].pc = "idle"
    /\ requests > 0
    /\ requests' = requests - 1
    /\ handler' = [handler EXCEPT ![h].pc = "route", ![h].auto = source = "automation"]
    /\ UNCHANGED <<tick, output, asSet, held, overlapped, late, clear>>
    /\ UNCHANGED <<safetyVars, clientVars>>

\* daemon.handle: a request of an automation is refused while revoked
Handle(h, source) ==
    /\ handler[h].pc = "idle"
    /\ requests > 0
    /\ requests' = requests - 1
    /\ handler' = IF revoked /\ source = "automation" THEN handler
                  ELSE [handler EXCEPT ![h].pc = "route", ![h].auto = source = "automation"]
    /\ UNCHANGED <<tick, output, asSet, held, overlapped, late, clear>>
    /\ UNCHANGED <<safetyVars, clientVars>>

\* what a request of h adds to the automations carried out while revoked
Late(h) == late' = IF handler[h].auto /\ revoked THEN late + 1 ELSE late

\* a route that needs one step ends its request
Done(h) ==
    /\ handler[h].pc = "route"
    /\ handler' = [handler EXCEPT ![h] = HandlerIdle]
    /\ UNCHANGED <<tick, output, requests, asSet, overlapped>>
    /\ UNCHANGED clientVars

\* setBlackout, setStopAll and setRevokeAutomation
Set(control, on) ==
    /\ flags' = IF control = "revoke" THEN flags
                ELSE IF on THEN flags \cup {control} ELSE flags \ {control}
    /\ revoked' = IF control = "revoke" THEN on ELSE revoked
    /\ held' = held \cap flags'

\* handleSafetyToggle
SetFlag(h, control, on) ==
    /\ Done(h)
    /\ Set(control, on)
    /\ clear' = {}
    /\ late' = IF control = "revoke" THEN 0 ELSE IF handler[h].auto /\ revoked THEN late + 1 ELSE late
    /\ UNCHANGED <<masters, desk>>

\* handleMasterSet, setGrandMaster and setGroupMaster: a level out of range is
\* refused; else the current snapshot is loaded ...
LoadMasters(h, key, level) ==
    /\ handler[h].pc = "route"
    /\ handler' = [handler EXCEPT ![h] =
                     IF level \in Levels
                     THEN [pc |-> "store", auto |-> handler[h].auto, key |-> key, level |-> level,
                           loaded |-> masters]
                     ELSE HandlerIdle]
    /\ overlapped' = (overlapped \/ \E o \in Handlers \ {h} : handler[o].pc = "store")
    /\ UNCHANGED <<tick, output, requests, asSet, held, late, clear>>
    /\ UNCHANGED <<safetyVars, clientVars>>

WithMaster(m, key, level) ==
    IF key = "grand" THEN [m EXCEPT !.grand = level]
                     ELSE [m EXCEPT !.groups = Put(@, key, level)]

\* ... and a changed copy of what was loaded is stored
StoreMasters(h) ==
    /\ handler[h].pc = "store"
    /\ masters' = WithMaster(handler[h].loaded, handler[h].key, handler[h].level)
    /\ asSet' = WithMaster(asSet, handler[h].key, handler[h].level)
    /\ handler' = [handler EXCEPT ![h] = HandlerIdle]
    /\ Late(h)
    /\ UNCHANGED <<flags, revoked, desk, tick, output, requests, held, overlapped, clear>>
    /\ UNCHANGED clientVars

\* handleDeskSet: setAttribute, a value out of range is refused
SetAttribute(h, fader, level) ==
    /\ Done(h)
    /\ desk' = IF level \in Levels THEN Put(desk, fader, level) ELSE desk
    /\ Late(h)
    /\ UNCHANGED <<flags, revoked, masters, held, clear>>

\* handleDeskClear and handleDeskClearAll: clearAttribute, clearInstance,
\* clearAll, each a set of faders that is released
ClearFaders(h, faders) ==
    /\ Done(h)
    /\ desk' = Without(desk, faders)
    /\ Late(h)
    /\ UNCHANGED <<flags, revoked, masters, held, clear>>

FadersOf(i) == {f \in Faders : f[1] = i}

\* artnet safety blackout, stop-all and revoke-automation
SafetyRequests == Controls \X BOOLEAN

\* artnet master set: any number is sent
MasterRequests == (Groups \cup {"grand"}) \X (Levels \cup {Invalid})

\* artnet desk set: any number is sent
DeskRequests == Faders \X (Levels \cup {Invalid})

\* artnet desk clear, of a capability or of an instance, and clear-all
ClearRequests == {Faders} \cup {FadersOf(i) : i \in Instances} \cup {{f} : f \in Faders}

Route(h) ==
    \/ \E q \in SafetyRequests : SetFlag(h, q[1], q[2])
    \/ \E q \in MasterRequests : LoadMasters(h, q[1], q[2])
    \/ \E q \in DeskRequests : SetAttribute(h, q[1], q[2])
    \/ \E q \in ClearRequests : ClearFaders(h, q)

-----------------------------------------------------------------------------
(* Clients that read the status: newPlaybackStatusPayload loads blackout,   *)
(* stop-all when that is off, and revoke                                    *)

ReadVars == <<handler, tick, output, requests, asSet, held, overlapped, late, panel>>

\* a hotkey is pressed, or the poll ticks, and blackout is loaded
StartRead(r) ==
    /\ reader[r].pc = "idle"
    /\ IF r = "poll" THEN UNCHANGED <<presses, clear>>
       ELSE /\ presses > 0
            /\ presses' = presses - 1
            /\ clear' = IF flags = {} THEN clear \cup {r} ELSE clear \ {r}
    /\ reader' = [reader EXCEPT ![r].pc = IF "blackout" \in flags THEN "revoke" ELSE "stopAll",
                                ![r].dark = "blackout" \in flags]
    /\ UNCHANGED shown
    /\ UNCHANGED <<safetyVars, ReadVars>>

ReadStopAll(r) ==
    /\ reader[r].pc = "stopAll"
    /\ reader' = [reader EXCEPT ![r].pc = "revoke", ![r].dark = "stopAll" \in flags]
    /\ UNCHANGED <<shown, presses, clear>>
    /\ UNCHANGED <<safetyVars, ReadVars>>

\* the controlling source: blackout hides a revoke
Source(dark, rev) == IF dark THEN "blackout" ELSE IF rev THEN "revoked" ELSE "live"

\* the poll's snapshot is shown; a hotkey goes on to its request
ReadRevoke(r) ==
    /\ reader[r].pc = "revoke"
    /\ reader' = [reader EXCEPT ![r] = IF r = "poll" THEN ReaderIdle ELSE [@ EXCEPT !.pc = "send", !.revoked = revoked]]
    /\ shown' = IF r = "poll" THEN Source(reader[r].dark, revoked) ELSE shown
    /\ UNCHANGED <<presses, clear>>
    /\ UNCHANGED <<safetyVars, ReadVars>>

\* what a press asks for: blackout and stop-all go by the one output state
nextToggleValue(r) ==
    IF r = "revoke" THEN Source(reader[r].dark, reader[r].revoked) # "revoked" ELSE ~reader[r].dark

\* listen: the request, of a manual source
HotkeySends(r) ==
    /\ reader[r].pc = "send"
    /\ Set(r, nextToggleValue(r))
    /\ clear' = clear \cap {r}
    /\ late' = IF r = "revoke" THEN 0 ELSE late
    /\ reader' = [reader EXCEPT ![r] = ReaderIdle]
    /\ UNCHANGED <<masters, desk, handler, tick, output, requests, asSet, overlapped, shown, panel, presses>>

-----------------------------------------------------------------------------
(* The panel of the desktop: SafetyService *)

\* The selected surface need not have the control.
authorizeSafety == BOOLEAN

Blackout(control, on) ==
    /\ panel.pc = "idle" /\ presses > 0
    /\ presses' = presses - 1
    /\ \E permitted \in authorizeSafety :
          panel' = IF permitted THEN [pc |-> "send", control |-> control, on |-> on] ELSE PanelIdle
    /\ UNCHANGED <<handler, tick, output, requests, reader, shown, asSet, held, overlapped, late, clear>>
    /\ UNCHANGED safetyVars

toggle ==
    /\ panel.pc = "send"
    /\ Set(panel.control, panel.on)
    /\ clear' = {}
    /\ late' = IF panel.control = "revoke" THEN 0 ELSE late
    /\ panel' = PanelIdle
    /\ UNCHANGED <<masters, desk, handler, tick, output, requests, reader, shown, presses, asSet, overlapped>>

-----------------------------------------------------------------------------
(* The worker's tick *)

\* applyDeskOverrides: an overridden instance is there even if the frame
\* does not have it; without an intensity of its own it stays out
ApplyDeskOverrides(frame, overrides) ==
    LET programmed == IF frame = NoFrame THEN {} ELSE DOMAIN frame
        overridden == {f[1] : f \in DOMAIN overrides}
    IN  [i \in programmed \cup overridden |->
            IF <<i, "intensity">> \in DOMAIN overrides THEN overrides[<<i, "intensity">>]
            ELSE IF i \in programmed THEN frame[i] ELSE 0]

\* effectiveMultiplier
EffectiveMultiplier(i, m) ==
    IF m.grand = 1 /\ \A g \in Member[i] \cap DOMAIN m.groups : m.groups[g] = 1
    THEN 1 ELSE 0

\* the intensities in the universe buffers: out where the frame has no value
Encoded(values, dark, m) ==
    [i \in Instances |->
        IF i \in DOMAIN values /\ ~dark THEN values[i] * EffectiveMultiplier(i, m)
                                        ELSE 0]

\* Fault: a tick without desk overrides does nothing
FaultDeskOnly == DOMAIN desk = {}

\* tick returns at once without a frame and without overrides
NothingToDo == EngineFrame = NoFrame /\ DOMAIN desk = {}

\* tick's reads of the frame and of the desk.  A frame without values is
\* encoded as it is.
TickRead ==
    LET values == ApplyDeskOverrides(EngineFrame, desk) IN
    /\ tick.pc = "idle"
    /\ ~NothingToDo
    /\ IF DOMAIN values = {}
       THEN output' = Zero /\ UNCHANGED <<tick, held>>
       ELSE /\ tick' = [pc |-> "blackout", values |-> values, dark |-> FALSE]
            /\ held' = flags
            /\ UNCHANGED output
    /\ UNCHANGED <<handler, requests, asSet, overlapped, late, clear>>
    /\ UNCHANGED <<safetyVars, clientVars>>

\* applyOverrides: blackout.Load() || stopAll.Load(), the second only when
\* the first is off
TickBlackout ==
    /\ tick.pc = "blackout"
    /\ tick' = IF "blackout" \in flags
               THEN [tick EXCEPT !.pc = "masters", !.dark = TRUE]
               ELSE [tick EXCEPT !.pc = "stopAll"]
    /\ UNCHANGED <<handler, output, requests, asSet, held, overlapped, late, clear>>
    /\ UNCHANGED <<safetyVars, clientVars>>

TickStopAll ==
    /\ tick.pc = "stopAll"
    /\ tick' = [tick EXCEPT !.pc = "masters", !.dark = "stopAll" \in flags]
    /\ UNCHANGED <<handler, output, requests, asSet, held, overlapped, late, clear>>
    /\ UNCHANGED <<safetyVars, clientVars>>

\* Fault: the desk is laid over the safety transform
FaultDeskLast ==
    LET safe == Encoded(tick.values, tick.dark, masters) IN
    /\ tick.pc = "masters"
    /\ output' = [i \in Instances |-> ApplyDeskOverrides(safe, desk)[i]]
    /\ tick' = TickIdle
    /\ UNCHANGED <<handler, requests, asSet, held, overlapped, late, clear>>
    /\ UNCHANGED <<safetyVars, clientVars>>

\* currentMasters, the transform, and the buffers handed to the senders
TickEncode ==
    /\ tick.pc = "masters"
    /\ output' = Encoded(tick.values, tick.dark, masters)
    /\ tick' = TickIdle
    /\ UNCHANGED <<handler, requests, asSet, held, overlapped, late, clear>>
    /\ UNCHANGED <<safetyVars, clientVars>>

-----------------------------------------------------------------------------
Tick == TickRead \/ TickBlackout \/ TickStopAll \/ TickEncode

Read(r) == StartRead(r) \/ ReadStopAll(r) \/ ReadRevoke(r)

Hotkey(r) == ReadStopAll(r) \/ ReadRevoke(r) \/ HotkeySends(r)

Next ==
    \/ Tick
    \/ \E h \in Handlers :
          \/ \E source \in {"manual", "automation"} : Handle(h, source)
          \/ Route(h)
          \/ StoreMasters(h)
    \/ \E r \in DOMAIN reader : Read(r)
    \/ \E r \in Hotkeys : HotkeySends(r)
    \/ toggle \/ \E control \in Controls, on \in BOOLEAN : Blackout(control, on)

\* the worker's ticker and the status poll keep firing; a hotkey's goroutine
\* goes on
Spec ==
    /\ Init /\ [][Next]_vars /\ WF_vars(Tick) /\ WF_vars(Read("poll"))
    /\ \A r \in Hotkeys : WF_vars(Hotkey(r))

-----------------------------------------------------------------------------
(* Properties *)

\* Every variable has its type.
TypeOK ==
    LET mastersType == [grand : Levels, groups : UNION {[G -> Levels] : G \in SUBSET Groups}]
    IN
    /\ flags \subseteq Flags
    /\ revoked \in BOOLEAN
    /\ masters \in mastersType
    /\ asSet \in mastersType
    /\ DOMAIN desk \subseteq Faders /\ \A f \in DOMAIN desk : desk[f] \in Levels
    /\ handler \in [Handlers -> [pc : {"idle", "route", "store"}, auto : BOOLEAN,
                                 key : Groups \cup {"grand"}, level : Levels,
                                 loaded : mastersType]]
    /\ tick.pc \in {"idle", "blackout", "stopAll", "masters"}
    /\ DOMAIN tick.values \subseteq Instances
    /\ output \in [Instances -> Levels]
    /\ requests \in 0 .. MaxRequests
    /\ held \subseteq Flags
    /\ clear \subseteq Hotkeys

Dark == output = Zero
Encodes == tick.pc = "masters" /\ tick'.pc = "idle"

\* A frame composed while blackout, or while stop-all, was on throughout has
\* every intensity out, whatever the scene, the desk and the masters say and
\* whatever is set meanwhile (desk.go: Blackout/Stop-All "always wins over a
\* manual desk fader").  It takes one flag throughout: handing over from one to
\* the other between the two loads is seen as neither.
HeldFlagIsDark == [][(Encodes /\ held # {}) => Dark']_vars

\* Every master stands where it was last set: setting one preserves the
\* others (setGrandMaster, setGroupMaster), unless two requests set masters at
\* once: each stores a copy of what it loaded.
MastersAsSet ==
    ~overlapped /\ (\A h \in Handlers : handler[h].pc # "store") => masters = asSet

\* Blackout reaches the output: it goes out, unless blackout is lifted
\* (setBlackout: "takes effect within one tick period").  True while a scene
\* plays; with an idle engine a released desk leaves nothing to encode.
BlackoutTakesEffect ==
    ("blackout" \in flags) ~> (Dark \/ "blackout" \notin flags)

\* Releasing the desk reaches the output: an instance that only the desk had
\* lit goes out, unless the desk is used again.
DeskReleaseTakesEffect ==
    (DOMAIN desk = {}) ~>
        \/ DOMAIN desk # {}
        \/ \A i \in Instances :
              output[i] = 0 \/ (EngineFrame # NoFrame /\ i \in DOMAIN EngineFrame)

\* After a revoke no more requests of automations are carried out than were
\* being served when it came: each is admitted before its route runs, and none
\* is admitted afterwards (daemon.handle).
RevokeIsPrompt == late <= Cardinality(Handlers)

\* What an operator asked of the masters and of the automation is what the
\* daemon holds, however requests and ticks interleave.
RequestsStand ==
  /\ TypeOK
  /\ MastersAsSet
  /\ RevokeIsPrompt

\* The frontend comes to show a blackout or stop-all that stays, whichever of
\* the two it is (pollStatus, newPlaybackStatusPayload).
StatusCatchesUp == <>[](flags # {}) => <>[](shown = "blackout")

\* Pressed with neither flag on, the blackout hotkey darkens the output, unless
\* another safety request comes (listen, nextToggleValue, the worker's tick).
HotkeyDarkens == ("blackout" \in clear) ~> (Dark \/ "blackout" \notin clear)

\* What an operator asks reaches the wire and the status in the end: a blackout,
\* from the desk or by hotkey, darkens, and a released desk gives way.
ReachesTheOutput ==
  /\ BlackoutTakesEffect
  /\ DeskReleaseTakesEffect
  /\ StatusCatchesUp
  /\ HotkeyDarkens
=============================================================================
