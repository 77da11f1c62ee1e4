---------------------------- MODULE ShowAuthoring ----------------------------
(***************************************************************************)
(* Any sequence of authoring commands on one show file.  What the commands *)
(* keep true is of two sorts: what validate tests on every Save, and what  *)
(* no test looks at and each command must keep by itself.  The properties  *)
(* are about the second sort, and about the two together: that the tests   *)
(* never refuse a command that has every reason to succeed.                *)
(***************************************************************************)
EXTENDS PatchCommands, ProgrammingCommands

CONSTANT Shows   \* the saved shows a session may start from

authoringVars == <<show, plans, applied>>

AuthoringInit ==
  /\ show \in Shows
  /\ plans = {}
  /\ applied = <<>>

PatchNext ==
  \/ runPoolCreate \/ runPoolRename \/ runPoolDelete
  \/ runPoolUpdate \/ runPoolSubstitute \/ EditPlanFile
  \/ runDeploymentCreate \/ runDeploymentActivate \/ runDeploymentRename
  \/ runDeploymentDelete \/ runDeploymentInstanceReassign

ProgrammingNext ==
  \/ runProgrammerSet \/ runProgrammerClear
  \/ runThemeCreate \/ runThemeRename \/ runThemeDelete
  \/ runPresetRecord \/ runPresetRename \/ runPresetDelete
  \/ runChaseCreate \/ runChaseUpdate \/ runChaseReorder
  \/ runChaseDuplicate \/ runChaseDelete
  \/ runMotionCreate \/ runMotionRename \/ runMotionDuplicate \/ runMotionDelete
  \/ runSceneCreate \/ runSceneRename \/ runSceneDuplicate \/ runSceneDelete
  \/ runSceneActivate \/ runSceneReorder \/ runSceneLayerSet
  \/ runBlendCreate \/ runBlendRename \/ runBlendDelete
  \/ runPlaybackBPMSet \/ runPlaybackBPMTap \/ runPlaybackSwitch

SurroundingsNext ==
  \/ runNoteCreate \/ runNoteEdit \/ runNoteDelete
  \/ runScriptCreate \/ runScriptEdit \/ runScriptProfileSet \/ runScriptDelete
  \/ runShowSave
  \/ runOperatorSurfaceCreate \/ runOperatorSurfaceAssign
  \/ runOperatorSurfaceUnassign \/ runOperatorSurfaceRemove
  \/ RemoveMapping \/ RemoveDeskMapping
  \/ \E o \in Objs(show, "surface"), key \in Keys, ref \in resolveControlRef :
       AddMidiMapping(o, key, ref)
  \/ \E key \in Keys, i \in InstanceIds(show) : AddMapping(key, i)

\* Plans that were not applied, and those that the show has moved past.
Pending == {p \in plans : \A a \in 1..Len(applied) : applied[a].plan # p.id}

LeftBehind == {p \in Pending : p.id.revision < show.revision}

\* The bounds of a session: its number of saves, and that it leaves a plan
\* behind only while there is room to try applying it, which then ends it.
AuthoringNext ==
  /\ show.revision < MaxRevision
  /\ \/ runPoolApply
     \/ /\ LeftBehind = {}
        /\ Pending # {} => show.revision + 1 < MaxRevision
        /\ PatchNext \/ ProgrammingNext \/ SurroundingsNext

AuthoringSpec == AuthoringInit /\ [][AuthoringNext]_authoringVars

-----------------------------------------------------------------------------
ShowTypeOK ==
  /\ show.revision \in 1..MaxRevision
  /\ show.minted \in Nat
  /\ \A o \in show.objs : o.kind \in Kinds /\ o.id \in 1..show.minted /\ o.name \in Names
  /\ show.active \subseteq {o.id : o \in show.objs}
  /\ \A i \in show.instances : i.id \in 1..show.minted
  /\ \A l \in show.layers : l.kind \in LayerKinds /\ l.enabled \in BOOLEAN
  /\ \A d \in show.desk : d.key \in Keys
  /\ applied \in Seq([plan : {p.id : p \in plans}, at : 1..MaxRevision])

\* Whatever was deleted, renamed or repatched, the active scene of a saved show
\* compiles, if a tempo was ever set: no command can leave a scene that the
\* engine refuses (playback.Compile against Save's scrubbing).
ActiveSceneCompiles == show.bpm # 0 => SceneCompiles(show)

\* Deleting an object that exists is never refused: what each delete command
\* cleans up by itself, and what Save scrubs, is everything validate looks at.
\* A delete detaches the layers that refer to its object (ScrubLayerRef), as
\* programming.go:999 says: it "never fails with
\* GOLC_SCENE_LAYER_DANGLING_REFERENCE".  The desktop's comments say the
\* opposite of the same routes (svc_programming.go:206, 226, 267, 312: an object
\* "referenced by an enabled scene layer's Ref is rejected").
DeleteNeverRefused ==
  /\ \A o \in Objs(show, "pool") : validate(Scrubbed(DeletePool(o)))
  /\ \A o \in Objs(show, "deployment") : validate(Scrubbed(DeleteDeployment(o)))
  /\ \A o \in Objs(show, "theme") : validate(Scrubbed(ThemeDeleted(o)))
  /\ \A o \in Objs(show, "preset") : validate(Scrubbed(PresetDeleted(o)))
  /\ \A o \in Objs(show, "chase") : validate(Scrubbed(ChaseDeleted(o)))
  /\ \A o \in Objs(show, "motion") : validate(Scrubbed(MotionDeleted(o)))
  /\ \A o \in Objs(show, "scene") : validate(Scrubbed(SceneDeleted(o)))
  /\ \A o \in Objs(show, "surface") : validate(Scrubbed(SurfaceRemoved(o)))

\* Every instance belongs to a deployment, a pool and a member of that pool
\* that exist.  validate does not test this: the commands that remove pools,
\* members and deployments must.
InstancesHaveMembers(s) ==
  \A i \in s.instances :
    /\ i.dep \in Ids(s, "deployment")
    /\ \E m \in s.members : m.id = i.member /\ m.pool = i.pool
    /\ i.pool \in Ids(s, "pool")

\* No two instances of a deployment start at the same address, whichever of
\* their addresses came from a plan's search and which from a reassignment.
\* Their channels may overlap all the same: an instance does not record its
\* width, and the search takes those there to be as wide as the one it places,
\* so a narrow fixture fits inside a wider one (impact.go:52, "REMAINING GAP";
\* against deployment/model.go:156, "rather than ever returning a colliding
\* address").
StartsDistinct(s) ==
  \A i, j \in s.instances : i.dep = j.dep /\ i.at = j.at => i = j

\* No sequence of accepted commands saves a show that its readers refuse, one
\* with an instance of nothing, or one that patches two fixtures of a
\* deployment at one start address.
SavedShowIsWhole ==
  /\ ShowTypeOK
  /\ ActiveSceneCompiles
  /\ InstancesHaveMembers(show)
  /\ StartsDistinct(show)

\* A plan is applied at the revision it was reviewed at, as it was reviewed,
\* and once: a second "pool apply" of the file finds it stale.
AppliedAsReviewed ==
  \A a \in 1..Len(applied) :
    /\ applied[a].plan.revision = applied[a].at
    /\ \E p \in plans : p.id = applied[a].plan
    /\ \A b \in 1..Len(applied) : applied[a].plan = applied[b].plan => a = b
-----------------------------------------------------------------------------
\* The fields of a show.State.
IsState(s) ==
  s = [revision |-> s.revision, minted |-> s.minted, bpm |-> s.bpm, objs |-> s.objs,
       active |-> s.active, order |-> s.order, steps |-> s.steps, members |-> s.members,
       instances |-> s.instances, groupRefs |-> s.groupRefs, layers |-> s.layers,
       controls |-> s.controls, midi |-> s.midi, desk |-> s.desk, touched |-> s.touched,
       captured |-> s.captured]

\* What every command leaves in the state it hands to Save.
Tidy(s) ==
  /\ IsState(s)
  /\ s.revision \in 1..MaxRevision /\ s.minted \in Nat
  /\ s.objs \subseteq [kind : Kinds, id : 1..s.minted, name : Names, val : Vals \cup {NoVal}]
  /\ \A a, b \in s.objs : a.id = b.id => a = b
  /\ s.active \subseteq {o.id : o \in s.objs}
  /\ s.order \in Seq(Nat)
  /\ Ids(s, "scene") \subseteq {s.order[i] : i \in 1..Len(s.order)}
  /\ s.members \subseteq [pool : Nat, id : Nat, fixture : Fixtures]
  /\ s.instances \subseteq [id : 1..s.minted, dep : Nat, pool : Nat, member : Nat, at : Nat \X Nat]
  /\ s.layers \subseteq [scene : Nat, kind : LayerKinds, ref : Int, enabled : BOOLEAN,
                         sel : SUBSET [to : {"pool", "group", "instance", "fixture"}, id : Int]]
  /\ \A d \in s.desk : d.key \in Keys
  /\ IsFiniteSet(s.objs) /\ IsFiniteSet(s.members)
  /\ InstancesHaveMembers(s)
  /\ StartsDistinct(s)

\* A state that Save wrote: it passed the tests, and no selection dangles.
SavedShow(s) ==
  /\ Tidy(s)
  /\ validate(s)
  /\ \A l \in s.layers : l.sel \subseteq Targets(s)

\* A session starts from a show that was saved.
ASSUME ShowsAssumption == \A s \in Shows : SavedShow(s)
=============================================================================
