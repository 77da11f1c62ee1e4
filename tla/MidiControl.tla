----------------------------- MODULE MidiControl -----------------------------
(***************************************************************************)
(* MIDI control of a show (internal/wails/svc_midi.go, internal/midi,      *)
(* internal/deskmidi): a dispatch goroutine takes the driver's messages    *)
(* and gives each to the learn session that waits for one, or plays it on  *)
(* what the active surface and the desk map it to.  Calls of the frontend  *)
(* run each on a goroutine of its own: they learn and remove mappings, and *)
(* select the surface.  The show is loaded and saved whole, here and by    *)
(* other processes; the service dispatches on copies of the mappings.      *)
(*                                                                         *)
(* Fader positions are 0, 1 and 2, the middle being where a new fader's    *)
(* marker is.  One control of each kind: a scene, its layer, a safety      *)
(* control, a master.                                                      *)
(***************************************************************************)
EXTENDS Integers, Sequences, FiniteSets, Functions

CONSTANTS
  Surfaces,     \* operator surfaces
  Faders,       \* keys that send control changes
  Buttons,      \* keys that send notes
  Clients,      \* frontend calls in progress at once
  Controls,     \* kinds of control a surface can have
  Buffer,       \* messages the driver holds, midiEventBufferSize
  MaxEvents,    \* bound: messages
  MaxRequests,     \* bound: calls
  MaxEdits,     \* bound: saves of other processes, and failing loads of the driver's
  None

Positions == 0..2

Marker == 1

Keys == Faders \cup Buttons

ASSUME MidiAssumption ==
  /\ Faders \cap Buttons = {}
  /\ Controls \subseteq {"scene", "layer", "safety", "master"}
  /\ {Buffer, MaxEvents, MaxRequests, MaxEdits} \subseteq Nat
  /\ None \notin Surfaces /\ None \notin Clients /\ None \notin Keys

VARIABLES
  doc,        \* the show: surfaces and desk mappings, the scene and its layer
  stale,      \* history: the calls whose show was saved over since they loaded or saved it
  attached,   \* the driver, attached until the program ends: how far its goroutine is with copying the desk
              \* mappings, and those it loaded
  queue,      \* messages the driver decoded
  disp,       \* the dispatch goroutine
  learning,   \* the call whose learn session gets the messages
  box,        \* each call's session channel: a key, or None
  active,     \* the surface whose mappings are live
  cached,     \* its mappings, as last copied
  deskCached, \* the desk mappings, as last copied
  deskLoaded,
  takeovers,  \* soft takeover of the faders that sent something
  call,       \* the calls
  out,        \* the daemon: safety control, master and desk levels
  pending,    \* feedback to be sent to the frontend, by mapping
  shown,      \* what the frontend shows of each mapping
  crossed,    \* history: a save undid another, or a copy was made of a show since saved over
  spent       \* what was used of each bound, and the identifiers mappings were given

show == <<doc, stale>>

midiService == <<attached, queue, learning, box, active, cached, deskCached, deskLoaded, takeovers>>

push == <<pending, shown>>

midiVars == <<show, midiService, push, disp, call, out, crossed, spent>>

NoCall == [pc |-> "idle", kind |-> "none", surface |-> None, target |-> None, id |-> 0, key |-> None,
           doc |-> <<>>]

NoEvent == [pc |-> "idle", key |-> None, value |-> 0, to |-> None, enabled |-> FALSE]

Mapping(id, k, t) == [id |-> id, key |-> k, target |-> t]

\* Every surface has all controls; one has a fader mapped to the master.
MidiInit ==
  /\ \E s \in Surfaces, k \in Faders :
       LET first == {Mapping(1, k, "master")}
       IN /\ doc = [surfaces |-> [x \in Surfaces |-> [there |-> TRUE, assigned |-> Controls,
                                                     mappings |-> IF x = s THEN first ELSE {}]],
                    desk |-> {}, scene |-> TRUE, layer |-> TRUE]
          /\ active = s
          /\ cached = first
  /\ stale = {}
  /\ attached = [pc |-> "none", desk |-> {}]
  /\ queue = <<>>
  /\ disp = NoEvent
  /\ learning = None
  /\ box = [c \in Clients |-> None]
  /\ deskCached = {}
  /\ deskLoaded = FALSE
  /\ takeovers = <<>>
  /\ call = [c \in Clients |-> NoCall]
  /\ out = [safety |-> FALSE, master |-> 2, desk |-> 0]
  /\ pending = <<>>
  /\ shown = <<>>
  /\ crossed = FALSE
  /\ spent = [events |-> 0, calls |-> 0, edits |-> 0, ids |-> 1]

\* The show is saved by c, or by none of the calls.
SavedBy(c) == stale' = {x \in Clients \ {c} : call[x].pc \in {"save", "refresh"}}

Put(f, k, v) == [x \in DOMAIN f \cup {k} |-> IF x = k THEN v ELSE f[x]]

-----------------------------------------------------------------------------
\* Driver

AttachDriver ==
  /\ attached.pc = "none"
  /\ attached' = [attached EXCEPT !.pc = "load"]
  /\ UNCHANGED <<show, push, queue, learning, box, active, cached, deskCached, deskLoaded, takeovers, disp, call, out,
                 crossed, spent>>

\* The show is loaded unless somebody copied its desk mappings already.
ensureDeskMappingsLoaded ==
  /\ attached.pc = "load"
  /\ attached' = IF deskLoaded THEN [attached EXCEPT !.pc = "on"] ELSE [pc |-> "copy", desk |-> doc.desk]
  /\ UNCHANGED <<show, push, queue, learning, box, active, cached, deskCached, deskLoaded, takeovers, disp, call, out,
                 crossed, spent>>

LoadFails ==
  /\ attached.pc = "load" /\ ~deskLoaded
  /\ spent.edits < MaxEdits
  /\ spent' = [spent EXCEPT !.edits = @ + 1]
  /\ attached' = [attached EXCEPT !.pc = "on"]
  /\ UNCHANGED <<show, push, queue, learning, box, active, cached, deskCached, deskLoaded, takeovers, disp, call, out,
                 crossed>>

\* What was loaded is copied, whatever a call copied in between.
CopyLoaded ==
  /\ attached.pc = "copy"
  /\ deskCached' = attached.desk /\ deskLoaded' = TRUE
  /\ attached' = [pc |-> "on", desk |-> {}]
  /\ UNCHANGED <<show, push, queue, learning, box, active, cached, takeovers, disp, call, out, crossed, spent>>

\* A message comes; it is dropped when the buffer is full.
Listen(k, v) ==
  /\ attached.pc # "none"
  /\ spent.events < MaxEvents
  /\ k \in Buttons => v # Marker
  /\ spent' = [spent EXCEPT !.events = @ + 1]
  /\ queue' = IF Len(queue) < Buffer THEN Append(queue, [key |-> k, value |-> v]) ELSE queue
  /\ UNCHANGED <<show, push, attached, learning, box, active, cached, deskCached, deskLoaded, takeovers, disp, call,
                 out, crossed>>

-----------------------------------------------------------------------------
\* Dispatch

route ==
  /\ attached.pc = "on" /\ disp.pc = "idle" /\ queue # <<>>
  /\ disp' = [NoEvent EXCEPT !.pc = IF learning = None THEN "surface" ELSE "capture",
                             !.key = Head(queue).key, !.value = Head(queue).value, !.to = learning]
  /\ queue' = Tail(queue)
  /\ UNCHANGED <<show, push, attached, learning, box, active, cached, deskCached, deskLoaded, takeovers, call, out,
                 crossed, spent>>

\* The session's channel holds one key; more are dropped.
Capture ==
  /\ disp.pc = "capture"
  /\ box' = [box EXCEPT ![disp.to] = IF @ = None THEN disp.key ELSE @]
  /\ disp' = NoEvent
  /\ UNCHANGED <<show, push, attached, queue, learning, active, cached, deskCached, deskLoaded, takeovers, call,
                 out, crossed, spent>>

NewTakeoverState == [armed |-> FALSE, app |-> Marker, last |-> None]

takeoverStateFor(id) == IF id \in DOMAIN takeovers THEN takeovers[id] ELSE NewTakeoverState

\* A fader is caught when it reaches or crosses the marker, seen from where it
\* was last; caught, it carries the marker along.
Update(t, v) ==
  LET crosses == \/ t.last # None /\ t.last <= t.app /\ v >= t.app
                 \/ t.last # None /\ t.last >= t.app /\ v <= t.app
      armed == t.armed \/ crosses
  IN [armed |-> armed, app |-> IF armed THEN v ELSE t.app, last |-> v]

\* What a message does to a mapping: the takeover after it, whether it is
\* armed, whether it just was, and the level it gives.
Arbitrated(id, k, v) ==
  IF k \in Buttons
  THEN [takeovers |-> takeovers, armed |-> TRUE, edge |-> v > 0, level |-> IF v > 0 THEN 2 ELSE 0, app |-> v]
  ELSE LET t == Update(takeoverStateFor(id), v)
       IN [takeovers |-> Put(takeovers, id, t), armed |-> t.armed, edge |-> t.armed /\ ~takeoverStateFor(id).armed,
           level |-> t.app, app |-> t.app]

Feedback(a) == [armed |-> a.armed, app |-> a.app, physical |-> disp.value]

emitMidiFeedback(id, a) == pending' = Put(pending, id, Feedback(a))

Mapped(mappings) == {m \in mappings : m.key = disp.key}

\* The daemon after the request for a safety control or a master.
Requested(target, level) ==
  CASE target = "safety" -> [out EXCEPT !.safety = TRUE]
    [] target = "master" -> [out EXCEPT !.master = level]
    [] OTHER -> out

\* Scenes, layers and safety controls act on the edge, masters on every message
\* of a caught fader.  A scene or layer that is gone does nothing.  (A request
\* the daemon does not answer is logged and changes nothing.)
dispatchMapping(m, a) ==
  LET fires == IF m.target = "master" THEN a.armed ELSE a.edge
      layer == m.target = "layer" /\ fires /\ doc.scene
      scene == m.target = "scene" /\ fires /\ doc.scene
  IN /\ disp' = [disp EXCEPT !.pc = IF layer THEN "layer" ELSE "desk", !.enabled = doc.layer]
     /\ doc' = doc
     /\ IF scene THEN SavedBy(None) ELSE UNCHANGED stale
     /\ out' = IF fires THEN Requested(m.target, a.level) ELSE out

dispatchToActiveSurface ==
  /\ disp.pc = "surface"
  /\ IF active = None \/ Mapped(cached) = {}
     THEN disp' = [disp EXCEPT !.pc = "desk"] /\ UNCHANGED <<show, out, takeovers, pending>>
     ELSE LET m == CHOOSE x \in Mapped(cached) : TRUE
              a == Arbitrated(m.id, disp.key, disp.value)
          IN /\ takeovers' = a.takeovers
             /\ dispatchMapping(m, a)
             /\ emitMidiFeedback(m.id, a)
  /\ UNCHANGED <<attached, queue, learning, box, active, cached, deskCached, deskLoaded, shown, call,
                 crossed, spent>>

\* The layer is set to the opposite of what was read.
dispatchLayerToggle ==
  /\ disp.pc = "layer"
  /\ doc' = IF doc.scene THEN [doc EXCEPT !.layer = ~disp.enabled] ELSE doc
  /\ IF doc.scene THEN SavedBy(None) ELSE UNCHANGED stale
  /\ disp' = [disp EXCEPT !.pc = "desk"]
  /\ UNCHANGED <<midiService, push, call, out, crossed, spent>>

\* The driver could not load the desk mappings: it is tried again.
LoadLazily ==
  /\ disp.pc = "desk" /\ ~deskLoaded
  /\ disp' = [disp EXCEPT !.pc = "mapped"]
  /\ attached' = [attached EXCEPT !.pc = "load"]
  /\ UNCHANGED <<show, push, queue, learning, box, active, cached, deskCached, deskLoaded, takeovers, call, out, crossed,
                 spent>>

dispatchToDeskMappings ==
  /\ \/ disp.pc = "desk" /\ deskLoaded
     \/ disp.pc = "mapped" /\ attached.pc = "on"
  /\ disp' = NoEvent
  /\ IF Mapped(deskCached) = {} THEN UNCHANGED <<out, takeovers, pending>>
     ELSE LET m == CHOOSE x \in Mapped(deskCached) : TRUE
              a == Arbitrated(m.id, disp.key, disp.value)
          IN /\ takeovers' = a.takeovers
             /\ emitMidiFeedback(m.id, [a EXCEPT !.app = a.level])
             /\ out' = IF a.armed THEN [out EXCEPT !.desk = a.level] ELSE out
  /\ UNCHANGED <<show, attached, queue, learning, box, active, cached, deskCached, deskLoaded, shown, call,
                 crossed, spent>>

-----------------------------------------------------------------------------
\* EventPusher: per tick, the latest of each mapping

\* The latest of each mapping replaces what the frontend shows of it.
Merged == [m \in DOMAIN shown \cup DOMAIN pending |-> IF m \in DOMAIN pending THEN pending[m] ELSE shown[m]]

flushFeedback ==
  /\ pending # <<>>
  /\ shown' = Merged
  /\ pending' = <<>>
  /\ UNCHANGED <<show, midiService, disp, call, out, crossed, spent>>

-----------------------------------------------------------------------------
\* Calls

CallAt(c, pc) == call[c].pc = pc

Advance(c, pc) == call' = [call EXCEPT ![c].pc = pc]

\* A call returns; a session it opened, and that is still the one, is closed.
Answer(c) ==
  /\ call' = [call EXCEPT ![c] = NoCall]
  /\ learning' = IF learning = c THEN None ELSE learning
  /\ box' = [box EXCEPT ![c] = None]

Begin(c, kind, pc, surface, target, id) ==
  /\ CallAt(c, "idle") /\ c = CHOOSE x \in Clients : CallAt(x, "idle")
  /\ spent.calls < MaxRequests
  /\ spent' = [spent EXCEPT !.calls = @ + 1]
  /\ call' = [call EXCEPT ![c] = [NoCall EXCEPT !.pc = pc, !.kind = kind, !.surface = surface, !.target = target,
                                               !.id = id]]
  /\ UNCHANGED <<show, midiService, push, disp, out, crossed>>

\* Nothing is learned without a driver, or while a session is open.
StartLearn(c, s, target) == attached.pc # "none" /\ learning = None /\ Begin(c, "learn", "load", s, target, 0)

StartDeskLearn(c) == attached.pc # "none" /\ learning = None /\ Begin(c, "desklearn", "open", None, "desk", 0)

RemoveMapping(c, s, id) == Begin(c, "remove", "load", s, None, id)

RemoveDeskMapping(c, id) == Begin(c, "deskremove", "load", None, None, id)

SetActiveSurface(c, s) == Begin(c, "activate", "load", s, None, 0)

\* The control exists, and is one of the surface.
Authorize(s, target) ==
  /\ doc.surfaces[s].there
  /\ target \in doc.surfaces[s].assigned
  /\ target \in {"scene", "layer"} => doc.scene

\* Whether the call goes on with the show it loads.
Admitted(c) ==
  LET k == call[c].kind  s == call[c].surface
  IN CASE k = "learn" -> Authorize(s, call[c].target)
       [] k \in {"remove", "activate"} -> doc.surfaces[s].there
       [] OTHER -> TRUE

After(k) ==
  CASE k = "learn" -> "open" [] k = "activate" -> "refresh" [] OTHER -> "save"

\* The show as loaded, with the mapping gone when it is to be removed.
Loaded(c) ==
  LET k == call[c].kind
  IN CASE k = "remove" -> [doc EXCEPT !.surfaces[call[c].surface].mappings = {m \in @ : m.id # call[c].id}]
       [] k = "deskremove" -> [doc EXCEPT !.desk = {m \in @ : m.id # call[c].id}]
       [] OTHER -> doc

Load(c) ==
  /\ CallAt(c, "load")
  /\ IF Admitted(c)
     THEN /\ call' = [call EXCEPT ![c].pc = After(call[c].kind), ![c].doc = Loaded(c)]
          /\ UNCHANGED <<learning, box>>
     ELSE Answer(c)
  /\ stale' = stale \ {c}
  /\ UNCHANGED <<doc, push, attached, queue, active, cached, deskCached, deskLoaded, takeovers, disp, out, crossed,
                 spent>>

OpenSession(c) ==
  /\ CallAt(c, "open")
  /\ learning' = c
  /\ box' = [box EXCEPT ![c] = None]
  /\ Advance(c, "capture")
  /\ UNCHANGED <<show, push, attached, queue, active, cached, deskCached, deskLoaded, takeovers, disp, out, crossed,
                 spent>>

CaptureCandidate(c) ==
  /\ CallAt(c, "capture") /\ box[c] # None
  /\ call' = [call EXCEPT ![c].pc = "reload", ![c].key = box[c]]
  /\ box' = [box EXCEPT ![c] = None]
  /\ UNCHANGED <<show, push, attached, queue, learning, active, cached, deskCached, deskLoaded, takeovers, disp, out,
                 crossed, spent>>

\* The window closes after a time, or at CancelLearn.
LearnTimeout(c) ==
  /\ CallAt(c, "capture")
  /\ Answer(c)
  /\ stale' = stale \ {c}
  /\ UNCHANGED <<doc, push, attached, queue, active, cached, deskCached, deskLoaded, takeovers, disp, out, crossed,
                 spent>>

\* The session gets no more messages; its call returns as at a timeout, or with
\* a key that came just before.
CancelLearn ==
  /\ learning # None
  /\ spent.calls < MaxRequests
  /\ spent' = [spent EXCEPT !.calls = @ + 1]
  /\ learning' = None
  /\ UNCHANGED <<show, push, attached, queue, box, active, cached, deskCached, deskLoaded, takeovers, disp, call,
                 out, crossed>>

\* The mappings of d the call is about.
Own(c, d) == IF call[c].kind \in {"desklearn", "deskremove"} THEN d.desk ELSE d.surfaces[call[c].surface].mappings

\* A key is mapped once on a surface, and once on the desk.
ProposeMapping(c) == \A m \in Own(c, doc) : m.key # call[c].key

\* A mapping is named anew, by a random identifier.
Learned(c, d) ==
  LET m == Mapping(spent.ids + 1, call[c].key, call[c].target)
  IN IF call[c].kind = "desklearn" THEN [d EXCEPT !.desk = @ \cup {m}]
     ELSE [d EXCEPT !.surfaces[call[c].surface].mappings = @ \cup {m}]

\* A fault: the mapping goes into the show as it was before the capture.
FaultReload(c) ==
  /\ CallAt(c, "reload")
  /\ IF (call[c].kind = "desklearn" \/ doc.surfaces[call[c].surface].there) /\ ProposeMapping(c)
     THEN /\ call' = [call EXCEPT ![c].pc = "save",
                                  ![c].doc = Learned(c, IF call[c].kind = "learn" THEN call[c].doc ELSE doc)]
          /\ spent' = [spent EXCEPT !.ids = @ + 1]
          /\ UNCHANGED <<learning, box>>
     ELSE Answer(c) /\ UNCHANGED spent
  /\ stale' = stale \ {c}
  /\ UNCHANGED <<doc, push, attached, queue, active, cached, deskCached, deskLoaded, takeovers, disp, out, crossed>>

\* The show is loaded again when a key came, as it may have changed; whether
\* the control is still one of the surface is not asked again.
Reload(c) ==
  /\ CallAt(c, "reload")
  /\ IF (call[c].kind = "desklearn" \/ doc.surfaces[call[c].surface].there) /\ ProposeMapping(c)
     THEN /\ call' = [call EXCEPT ![c].pc = "save", ![c].doc = Learned(c, doc)]
          /\ spent' = [spent EXCEPT !.ids = @ + 1]
          /\ UNCHANGED <<learning, box>>
     ELSE Answer(c) /\ UNCHANGED spent
  /\ stale' = stale \ {c}
  /\ UNCHANGED <<doc, push, attached, queue, active, cached, deskCached, deskLoaded, takeovers, disp, out, crossed>>

Save(c) ==
  /\ CallAt(c, "save")
  /\ doc' = call[c].doc
  /\ SavedBy(c)
  /\ crossed' = (crossed \/ c \in stale)
  /\ Advance(c, "refresh")
  /\ UNCHANGED <<midiService, push, disp, out, spent>>

\* A fault: what is dispatched on stays as it was.
FaultrefreshActiveSurfaceMappings(c) ==
  IF call[c].kind = "activate" THEN active' = call[c].surface /\ cached' = Own(c, call[c].doc)
  ELSE UNCHANGED <<active, cached>>

\* The mappings that are live are those of the show just saved, or selected.
refreshActiveSurfaceMappings(c) ==
  /\ active' = IF call[c].kind = "activate" THEN call[c].surface ELSE active
  /\ cached' = IF active' = call[c].surface THEN Own(c, call[c].doc) ELSE cached

refreshDeskMappings(c) == deskCached' = Own(c, call[c].doc) /\ deskLoaded' = TRUE

Refresh(c) ==
  /\ CallAt(c, "refresh")
  /\ IF call[c].kind \in {"desklearn", "deskremove"}
     THEN refreshDeskMappings(c) /\ UNCHANGED <<active, cached>>
     ELSE refreshActiveSurfaceMappings(c) /\ UNCHANGED <<deskCached, deskLoaded>>
  /\ takeovers' = Restrict(takeovers, DOMAIN takeovers \ {call[c].id})
  /\ crossed' = (crossed \/ c \in stale)
  /\ stale' = stale \ {c}
  /\ Answer(c)
  /\ UNCHANGED <<doc, push, attached, queue, disp, out, spent>>

\* The show cannot be loaded or saved.
CallFails(c) ==
  /\ call[c].pc \in {"load", "reload", "save"}
  /\ Answer(c)
  /\ stale' = stale \ {c}
  /\ UNCHANGED <<doc, push, attached, queue, active, cached, deskCached, deskLoaded, takeovers, disp, out, crossed,
                 spent>>

-----------------------------------------------------------------------------
\* Other processes save the show: the scene is deleted, its mappings stay; or a
\* surface is removed.
Outside ==
  /\ spent.edits < MaxEdits
  /\ spent' = [spent EXCEPT !.edits = @ + 1]
  /\ SavedBy(None)
  /\ \/ /\ doc.scene
        /\ doc' = [doc EXCEPT !.scene = FALSE,
                              !.surfaces = [s \in Surfaces |-> [doc.surfaces[s] EXCEPT !.assigned = @ \ {"scene", "layer"}]]]
     \/ \E s \in Surfaces :
          /\ doc.surfaces[s].there
          /\ doc' = [doc EXCEPT !.surfaces[s] = [there |-> FALSE, assigned |-> {}, mappings |-> {}]]
  /\ UNCHANGED <<midiService, push, disp, call, out, crossed>>

Dispatch ==
  \/ route \/ Capture \/ dispatchToActiveSurface \/ dispatchLayerToggle \/ dispatchToDeskMappings
  \/ LoadLazily \/ ensureDeskMappingsLoaded \/ CopyLoaded

Proceed(c) ==
  \/ Load(c) \/ OpenSession(c) \/ CaptureCandidate(c) \/ LearnTimeout(c) \/ Reload(c) \/ Save(c) \/ Refresh(c)
  \/ CallFails(c)

Calls(c) ==
  \/ StartDeskLearn(c)
  \/ \E s \in Surfaces : SetActiveSurface(c, s) \/ \E t \in Controls : StartLearn(c, s, t)
  \/ \E s \in Surfaces, m \in UNION {doc.surfaces[x].mappings : x \in Surfaces} : RemoveMapping(c, s, m.id)
  \/ \E m \in doc.desk : RemoveDeskMapping(c, m.id)

MidiNext ==
  \/ AttachDriver \/ LoadFails \/ (\E k \in Keys, v \in Positions : Listen(k, v))
  \/ Dispatch \/ flushFeedback \/ CancelLearn \/ Outside
  \/ \E c \in Clients : Calls(c) \/ Proceed(c)

\* The dispatch goroutine and the pusher run, and calls go on: a session's
\* timer fires.
MidiSpec ==
  /\ MidiInit /\ [][MidiNext]_midiVars
  /\ WF_midiVars(Dispatch) /\ WF_midiVars(flushFeedback) /\ \A c \in Clients : WF_midiVars(Proceed(c))

-----------------------------------------------------------------------------
\* Properties

Mappings == doc.desk \cup UNION {doc.surfaces[s].mappings : s \in Surfaces}

MidiTypeOK ==
  /\ \A m \in Mappings : m.id \in 1..spent.ids /\ m.key \in Keys
  /\ learning \in Clients \cup {None} /\ active \in Surfaces \cup {None}
  /\ Len(queue) <= Buffer
  /\ \A i \in DOMAIN takeovers : takeovers[i].app \in Positions /\ takeovers[i].last \in Positions
  /\ out.master \in Positions /\ out.desk \in Positions

\* A key drives one control of a surface, and one of the desk, however two
\* learns and the saves of others fall between their loads and saves
\* (ProposeMapping against the show loaded after the capture).
OneMappingPerKey ==
  \A ms \in {doc.surfaces[s].mappings : s \in Surfaces} \cup {doc.desk} :
    \A m, n \in ms : m.key = n.key => m = n

\* A learn waits for seconds; what was saved meanwhile is not undone by it:
\* unless somebody saves between its load and its save, the show differs only
\* by its mapping (StartLearn loads again after the capture).
LearnKeepsEdits ==
  [][\A c \in Clients : CallAt(c, "save") /\ call'[c].pc = "refresh" /\ c \notin stale =>
       /\ doc'.scene = doc.scene /\ doc'.layer = doc.layer
       /\ \A s \in Surfaces : doc'.surfaces[s].there = doc.surfaces[s].there
                              /\ doc'.surfaces[s].assigned = doc.surfaces[s].assigned
       /\ \A s \in Surfaces \ {call[c].surface} : doc'.surfaces[s] = doc.surfaces[s]
       /\ call[c].surface # None => doc'.desk = doc.desk
       /\ call[c].kind \in {"learn", "desklearn"} => Own(c, doc) \subseteq Own(c, doc')]_midiVars

\* Messages are dispatched on the mappings of the show: a mapping removed is
\* dead, and one learned live, when the call returns, unless the surface was
\* removed elsewhere or another save came between the call's own save and its
\* copying (refreshActiveSurfaceMappings).
DispatchesOnSavedMappings ==
  ~crossed /\ (\A c \in Clients : ~CallAt(c, "refresh")) /\ active # None /\ doc.surfaces[active].there =>
    cached = doc.surfaces[active].mappings

\* Once the pusher has caught up, the frontend shows each fader as the
\* arbitration left it: feedback between two ticks is overwritten, never lost
\* (EventPusher.flush takes the map in one step).
FeedbackIsLatest ==
  disp.pc = "idle" /\ pending = <<>> =>
    \A i \in DOMAIN takeovers :
      shown[i] = [armed |-> takeovers[i].armed, app |-> takeovers[i].app, physical |-> takeovers[i].last]

\* The mappings saved, the ones events are dispatched on and the feedback a
\* surface shows agree, though callbacks, edits and learning run at once.
MappingsAgree ==
  /\ MidiTypeOK
  /\ OneMappingPerKey
  /\ DispatchesOnSavedMappings
  /\ FeedbackIsLatest

\* A fader that has not been caught moves nothing: the first level it gives is
\* at or beyond the marker it was shown, seen from where it was before
\* (TakeoverState.Update), also when the mapping changed under it.
NoJumpPastMarker ==
  [][\A i \in DOMAIN takeovers' : takeovers'[i].armed =>
       \/ i \in DOMAIN takeovers /\ takeovers[i].armed
       \/ /\ i \in DOMAIN takeovers /\ takeovers[i].last # None
          /\ (takeovers[i].last - Marker) * (takeovers'[i].last - Marker) <= 0]_midiVars

\* A learn session ends, and messages are played again: a session left open
\* would swallow every message (the deferred clearing of s.learning).
MessagesPlayAgain == learning # None ~> learning = None

\* Learning a control keeps the edits made while it listened, and ends; a fader
\* away from the value it controls moves nothing until it reaches it.
LearnsAndTakesOver ==
  /\ LearnKeepsEdits
  /\ MessagesPlayAgain
  /\ NoJumpPastMarker

\* Every call returns.
CallsReturn == \A c \in Clients : []<>CallAt(c, "idle")
=============================================================================
