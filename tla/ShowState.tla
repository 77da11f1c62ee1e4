------------------------------ MODULE ShowState ------------------------------
(***************************************************************************)
(* The show.State a command loads, edits and saves, and the part of Save   *)
(* that looks at its contents: the scrubbing and the validation            *)
(* (internal/show/state.go, store.go and the packages they call).          *)
(*                                                                         *)
(* A command is atomic here: what happens when two processes interleave    *)
(* their Load and Save, or crash in between, is in ShowStore.  An object   *)
(* is found by name in the code; names are unique per kind, so an action   *)
(* picks the object.  A usage error, a name that does not exist and a      *)
(* refused Save leave the file alone, so they are not steps.               *)
(***************************************************************************)
EXTENDS Integers, FiniteSets, Sequences

CONSTANTS
  Names,        \* the names a user gives
  Vals,         \* accepted payloads: a note's body, a script's profile, ...
  Keys,         \* MIDI (channel, kind, number) triples
  Channels,     \* addresses of a universe (512 in the code)
  MaxUniverse,  \* universes the address search scans (64 in the code)
  MaxRevision   \* bound on the number of saves

ASSUME ShowStateAssumption ==
  /\ Channels \in Nat \ {0}
  /\ MaxUniverse \in Nat \ {0}
  /\ MaxRevision \in Nat

VARIABLES
  show,     \* the saved show.State
  plans,    \* impact plan files on disk
  applied   \* history: the plans that were applied, in order

Kinds == {"pool", "deployment", "group", "theme", "preset", "chase", "motion",
          "scene", "blend", "surface", "script", "note"}

LayerKinds == {"base_look", "color_theme", "chase", "motion"}

\* What a layer of each kind refers to.
RefKind == [base_look |-> "preset", color_theme |-> "theme",
            chase |-> "chase", motion |-> "motion"]

NoRef == 0   \* the zero UUID

NoVal == 0   \* an object without a payload

-----------------------------------------------------------------------------
\* Reading a state

Objs(s, k) == {o \in s.objs : o.kind = k}

Ids(s, k) == {o.id : o \in Objs(s, k)}

InstanceIds(s) == {i.id : i \in s.instances}

\* The things a programming.Selection can name.
Targets(s) ==
  {[to |-> "pool", id |-> i] : i \in Ids(s, "pool")}
    \cup {[to |-> "group", id |-> i] : i \in Ids(s, "group")}
    \cup {[to |-> "instance", id |-> i] : i \in InstanceIds(s)}
    \cup {[to |-> "fixture", id |-> m.id] : m \in s.members}

\* programming.Resolve: it fails on the first dangling reference, and
\* otherwise gives the instances the selection matches.
Resolves(s, sel) == sel \subseteq Targets(s)

Resolve(s, sel) ==
  {i.id : i \in {j \in s.instances :
     \/ [to |-> "pool", id |-> j.pool] \in sel
     \/ [to |-> "instance", id |-> j.id] \in sel
     \/ [to |-> "fixture", id |-> j.member] \in sel
     \/ \E r \in s.groupRefs :
          /\ r.pool = j.pool
          /\ r.member = j.member
          /\ [to |-> "group", id |-> r.group] \in sel}}

\* playback.Compile of the active scene: every layer's selection resolves and
\* its reference exists.  The tempo is tested before the layers.
compileLayer(s, l) ==
  /\ Resolves(s, l.sel)
  /\ l.ref = NoRef \/ l.ref \in Ids(s, RefKind[l.kind])

SceneCompiles(s) ==
  /\ s.bpm # 0
  /\ \A l \in s.layers : l.scene \in s.active => compileLayer(s, l)

-----------------------------------------------------------------------------
\* What Save does to a state before it writes it

ScrubDanglingSelections(s) ==
  [s EXCEPT !.layers = {[l EXCEPT !.sel = @ \cap Targets(s)] : l \in @}]

ScrubDangling(s) ==
  [s EXCEPT !.desk = {d \in @ : d.instance \in InstanceIds(s)}]

ValidateUniqueNames(s) ==
  \A a, b \in s.objs : a.kind = b.kind /\ a.name = b.name => a = b

ValidateSingleActive(s) ==
  \A k \in {"deployment", "scene"} : Cardinality(s.active \cap Ids(s, k)) <= 1

ValidateInstanceAddress(i) == i.at[1] >= 1 /\ i.at[2] \in 1..Channels

ValidateGroupReferences(s) ==
  \A r \in s.groupRefs :
    \E m \in s.members : m.pool = r.pool /\ m.id = r.member /\ m.pool \in Ids(s, "pool")

ValidateLayerReferences(s) ==
  \A l \in s.layers : l.ref = NoRef \/ l.ref \in Ids(s, RefKind[l.kind])

ValidateSurfaces(s) ==
  \A c \in s.controls :
    /\ c.to \in {"scene", "layer"} => c.id \in Ids(s, "scene")
    /\ c.to = "group" => c.id \in Ids(s, "group")

ValidateDesk(s) ==
  /\ \A a, b \in s.desk : a.key = b.key => a = b
  /\ \A d \in s.desk : d.instance \in InstanceIds(s)

validate(s) ==
  /\ ValidateUniqueNames(s)
  /\ ValidateSingleActive(s)
  /\ \A i \in s.instances : ValidateInstanceAddress(i)
  /\ ValidateGroupReferences(s)
  /\ ValidateLayerReferences(s)
  /\ ValidateSurfaces(s)
  /\ ValidateDesk(s)

Scrubbed(s) == ScrubDangling(ScrubDanglingSelections(s))

\* show.Save of an edited state: scrub, validate, write the next revision.
Save(s) ==
  /\ validate(Scrubbed(s))
  /\ show' = [Scrubbed(s) EXCEPT !.revision = @ + 1]
  /\ UNCHANGED <<plans, applied>>

-----------------------------------------------------------------------------
\* Edits that are the same for every kind of object

\* A UUID never used before.
Mint == show.minted + 1

Created(k, n, v) ==
  [show EXCEPT !.objs = @ \cup {[kind |-> k, id |-> Mint, name |-> n, val |-> v]},
               !.minted = @ + 1]

Edited(o, n, v) ==
  [show EXCEPT !.objs = (@ \ {o}) \cup {[o EXCEPT !.name = n, !.val = v]}]

Removed(o) == [show EXCEPT !.objs = @ \ {o}, !.active = @ \ {o.id}]

Activated(k, o) ==
  [show EXCEPT !.active = (@ \ Ids(show, k)) \cup {o.id}]

\* The list without its element x, which is there.
Dropped(seq, x) ==
  LET n == CHOOSE i \in 1..Len(seq) : seq[i] = x
  IN  SubSeq(seq, 1, n - 1) \o SubSeq(seq, n + 1, Len(seq))
=============================================================================
