------------------------- MODULE ProgrammingCommands -------------------------
(***************************************************************************)
(* Commands on what is played and on what surrounds it: the programmer,    *)
(* themes, presets, chases, motions, scenes and their layers, blends,      *)
(* tempo, operator surfaces, MIDI mappings, notes and scripts              *)
(* (internal/command/programming.go, scene.go, playback.go,                *)
(* operatorsurface.go, note.go, script.go, show.go; internal/programming,  *)
(* scene, operatorsurface, deskmidi).                                      *)
(***************************************************************************)
EXTENDS ShowState

CONSTANT Tempos   \* beats per minute that ValidateBPM accepts

\* A reference that was never minted.
Unknown == -1

-----------------------------------------------------------------------------
\* The programmer

\* Selections a command line can name: nothing, or one target.
Selections == {{}} \cup {{t} : t \in Targets(show)}
                   \cup {{[to |-> "pool", id |-> Unknown]}}

runProgrammerSet ==
  \E sel \in Selections :
    /\ Resolves(show, sel)
    /\ Save([show EXCEPT !.touched = @ \cup Resolve(show, sel)])

runProgrammerClear == Save([show EXCEPT !.touched = {}])

-----------------------------------------------------------------------------
\* Themes and presets

\* A fault: the layers are disabled and keep the reference.
FaultOnlyDisable(s, kind, id) ==
  [s EXCEPT !.layers =
     {IF l.kind = kind /\ l.ref = id THEN [l EXCEPT !.enabled = FALSE] ELSE l : l \in @}]

\* The layers that played a deleted object lose the reference and are disabled.
ScrubLayerRef(s, kind, id) ==
  [s EXCEPT !.layers =
     {IF l.kind = kind /\ l.ref = id
      THEN [l EXCEPT !.ref = NoRef, !.enabled = FALSE] ELSE l : l \in @}]

runThemeCreate == \E n \in Names, v \in Vals : Save(Created("theme", n, v))

runThemeRename ==
  \E o \in Objs(show, "theme"), n \in Names : Save(Edited(o, n, o.val))

ThemeDeleted(o) == ScrubLayerRef(Removed(o), "color_theme", o.id)

runThemeDelete == \E o \in Objs(show, "theme") : Save(ThemeDeleted(o))

\* The preset captures what the programmer has touched.
runPresetRecord ==
  \E n \in Names :
    Save([Created("preset", n, NoVal) EXCEPT
            !.captured = @ \cup {[preset |-> Mint, instance |-> i] : i \in show.touched}])

runPresetRename ==
  \E o \in Objs(show, "preset"), n \in Names : Save(Edited(o, n, o.val))

PresetDeleted(o) ==
  ScrubLayerRef([Removed(o) EXCEPT !.captured = {c \in @ : c.preset # o.id}],
                "base_look", o.id)

runPresetDelete == \E o \in Objs(show, "preset") : Save(PresetDeleted(o))

-----------------------------------------------------------------------------
\* Chases (the payload is the step unit and duration) and motions

runChaseCreate ==
  \E n \in Names, v \in Vals :
    Save([Created("chase", n, v) EXCEPT
            !.steps = @ \cup {[chase |-> Mint, list |-> <<>>]}])

\* At least one of name, unit and duration changes.
runChaseUpdate ==
  \E o \in Objs(show, "chase"), n \in Names, v \in Vals : Save(Edited(o, n, v))

Permutations(n) == {f \in [1..n -> 1..n] : \A i, j \in 1..n : f[i] = f[j] => i = j}

reorderChaseSteps(c, order) ==
  [show EXCEPT !.steps = (@ \ {c}) \cup
     {[c EXCEPT !.list = [i \in 1..Len(c.list) |-> c.list[order[i]]]]}]

runChaseReorder ==
  \E c \in show.steps : \E order \in Permutations(Len(c.list)) :
    Save(reorderChaseSteps(c, order))

runChaseDuplicate ==
  \E o \in Objs(show, "chase"), n \in Names : \E c \in show.steps :
    /\ c.chase = o.id
    /\ Save([Created("chase", n, o.val) EXCEPT
               !.steps = @ \cup {[chase |-> Mint, list |-> c.list]}])

ChaseDeleted(o) ==
  ScrubLayerRef([Removed(o) EXCEPT !.steps = {c \in @ : c.chase # o.id}], "chase", o.id)

runChaseDelete == \E o \in Objs(show, "chase") : Save(ChaseDeleted(o))

runMotionCreate == \E n \in Names : Save(Created("motion", n, NoVal))

runMotionRename ==
  \E o \in Objs(show, "motion"), n \in Names : Save(Edited(o, n, o.val))

runMotionDuplicate ==
  \E o \in Objs(show, "motion"), n \in Names : Save(Created("motion", n, o.val))

MotionDeleted(o) == ScrubLayerRef(Removed(o), "motion", o.id)

runMotionDelete == \E o \in Objs(show, "motion") : Save(MotionDeleted(o))

-----------------------------------------------------------------------------
\* Scenes.  show.order is the list of scenes.

newLayers(id) ==
  {[scene |-> id, kind |-> k, ref |-> NoRef, enabled |-> FALSE, sel |-> {}] :
     k \in LayerKinds}

runSceneCreate ==
  \E n \in Names :
    Save([Created("scene", n, NoVal) EXCEPT
            !.order = Append(@, Mint), !.layers = @ \cup newLayers(Mint)])

runSceneRename ==
  \E o \in Objs(show, "scene"), n \in Names : Save(Edited(o, n, o.val))

\* The copy is not active and has the layers of the original.
runSceneDuplicate ==
  \E o \in Objs(show, "scene"), n \in Names :
    Save([Created("scene", n, o.val) EXCEPT
            !.order = Append(@, Mint),
            !.layers = @ \cup {[l EXCEPT !.scene = Mint] :
                                 l \in {x \in show.layers : x.scene = o.id}}])

\* The surfaces lose the scene and its layers; their MIDI mappings stay.
ScrubSceneReferences(s, id) ==
  [s EXCEPT !.controls = {c \in @ : ~(c.to \in {"scene", "layer"} /\ c.id = id)}]

SceneDeleted(o) ==
  ScrubSceneReferences(
    [Removed(o) EXCEPT !.order = Dropped(@, o.id),
                       !.layers = {l \in @ : l.scene # o.id}], o.id)

runSceneDelete == \E o \in Objs(show, "scene") : Save(SceneDeleted(o))

runSceneActivate == \E o \in Objs(show, "scene") : Save(Activated("scene", o))

\* "playback switch" saves the same edit; the engine follows the file.
runPlaybackSwitch == \E o \in Objs(show, "scene") : Save(Activated("scene", o))

\* A scene that the new list does not hold is gone.
reorderScenes(order) ==
  LET list == [i \in 1..Len(show.order) |-> show.order[order[i]]]
      kept == {list[i] : i \in 1..Len(list)}
  IN  [show EXCEPT !.order = list,
                   !.objs = {o \in @ : o.kind = "scene" => o.id \in kept},
                   !.layers = {l \in @ : l.scene \in kept}]

runSceneReorder ==
  \E order \in Permutations(Len(show.order)) : Save(reorderScenes(order))

\* What "scene layer set" accepts.
parseSceneLayerSetArgs ==
  [kind : LayerKinds,
   ref : {NoRef, Unknown} \cup UNION {Ids(show, RefKind[k]) : k \in LayerKinds},
   disable : BOOLEAN, sel : Selections]

\* The parts of the selection that the command line does not name stay; the
\* reference is the one named, or none.
runSceneLayerSet ==
  \E l \in show.layers, arg \in parseSceneLayerSetArgs :
    /\ l.kind = arg.kind
    /\ Save([show EXCEPT !.layers = (@ \ {l}) \cup
               {[l EXCEPT !.ref = arg.ref, !.enabled = ~arg.disable,
                          !.sel = {t \in @ : \A u \in arg.sel : u.to # t.to} \cup arg.sel]}])

-----------------------------------------------------------------------------
\* Blends, tempo, notes, scripts, and saving as it is

runBlendCreate == \E n \in Names, v \in Vals : Save(Created("blend", n, v))

runBlendRename ==
  \E o \in Objs(show, "blend"), n \in Names : Save(Edited(o, n, o.val))

runBlendDelete == \E o \in Objs(show, "blend") : Save(Removed(o))

runPlaybackBPMSet == \E b \in Tempos : Save([show EXCEPT !.bpm = b])

\* The tempo of the taps, when they give one that is valid.
runPlaybackBPMTap == \E b \in Tempos : Save([show EXCEPT !.bpm = b])

runNoteCreate == \E n \in Names, v \in Vals : Save(Created("note", n, v))

runNoteEdit ==
  \E o \in Objs(show, "note"), n \in Names, v \in Vals : Save(Edited(o, n, v))

runNoteDelete == \E o \in Objs(show, "note") : Save(Removed(o))

runScriptCreate == \E n \in Names, v \in Vals : Save(Created("script", n, v))

runScriptEdit == \E o \in Objs(show, "script"), v \in Vals : Save(Edited(o, o.name, v))

runScriptProfileSet ==
  \E o \in Objs(show, "script"), v \in Vals : Save(Edited(o, o.name, v))

runScriptDelete == \E o \in Objs(show, "script") : Save(Removed(o))

runShowSave == Save(show)

-----------------------------------------------------------------------------
\* Operator surfaces

runOperatorSurfaceCreate == \E n \in Names : Save(Created("surface", n, NoVal))

\* The controls a selector on the command line can resolve to.
resolveControlRef ==
  [to : {"scene"}, id : Ids(show, "scene"), layer : {""}]
    \cup [to : {"layer"}, id : Ids(show, "scene"), layer : LayerKinds]
    \cup [to : {"group"}, id : Ids(show, "group"), layer : {""}]
    \cup [to : {"grand", "safety"}, id : {NoRef}, layer : {""}]

OnSurface(o, ref) == [surface |-> o.id, to |-> ref.to, id |-> ref.id, layer |-> ref.layer]

runOperatorSurfaceAssign ==
  \E o \in Objs(show, "surface"), ref \in resolveControlRef :
    Save([show EXCEPT !.controls = @ \cup {OnSurface(o, ref)}])

runOperatorSurfaceUnassign ==
  \E o \in Objs(show, "surface"), ref \in resolveControlRef :
    Save([show EXCEPT !.controls = @ \ {OnSurface(o, ref)}])

SurfaceRemoved(o) ==
  [Removed(o) EXCEPT !.controls = {c \in @ : c.surface # o.id},
                     !.midi = {m \in @ : m.surface # o.id}]

runOperatorSurfaceRemove == \E o \in Objs(show, "surface") : Save(SurfaceRemoved(o))

\* operatorsurface.AddMidiMapping refuses a key the surface already uses.
AddMidiMapping(o, key, ref) ==
  /\ \A m \in show.midi : m.surface = o.id => m.key # key
  /\ Save([show EXCEPT !.minted = @ + 1, !.midi = @ \cup
             {[surface |-> o.id, id |-> Mint, key |-> key, target |-> OnSurface(o, ref)]}])

\* deskmidi.AddMapping refuses a key another fader uses.
AddMapping(key, instance) ==
  /\ \A d \in show.desk : d.key # key
  /\ Save([show EXCEPT !.minted = @ + 1, !.desk = @ \cup
             {[id |-> Mint, key |-> key, instance |-> instance]}])

RemoveMapping ==
  \E m \in show.midi : Save([show EXCEPT !.midi = @ \ {m}])

RemoveDeskMapping ==
  \E d \in show.desk : Save([show EXCEPT !.desk = @ \ {d}])
=============================================================================
