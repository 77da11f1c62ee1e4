---------------------------- MODULE MCLinearSync ----------------------------
(* The commands that keep the project's own files: Linear's map, for a      *)
(* milestone and a phase below it, whose ID sorts first; and the            *)
(* configuration.  They share no state, so a behaviour is of one of them,   *)
(* or is a committed configuration that nobody changes (references).        *)
EXTENDS LinearSync, ProjectConfig

VARIABLE part

MCKind == <<"phase", "milestone">>

MCParent == <<2, 0>>

MCAllowed == [log |-> {"a", "b"}, remote |-> {"a"}, go |-> {"a", "b"}]

MCUser == {Empty, [Empty EXCEPT !.sound = FALSE]}
          \cup {[Empty EXCEPT !.values[k] = "a"] : k \in {"remote", "go"}}

MCInit ==
  /\ part \in {"linear", "layers", "references"}
  /\ Init
  /\ IF part = "references" THEN committed \in [Keys -> Declarations]
     ELSE committed = [k \in Keys |-> Literal("a")]
  /\ IF part = "layers"
     THEN /\ user \in MCUser
          /\ \E key \in {"remote", "go"}, t \in Texts \cup {""} : env = [k \in Keys |-> IF k = key THEN t ELSE ""]
     ELSE user = Empty /\ env = [k \in Keys |-> ""]
  /\ local = Empty
  /\ ConfigInit

MCNext ==
  /\ UNCHANGED part
  /\ \/ part = "linear" /\ Next /\ UNCHANGED configVars
     \/ part = "layers" /\ ConfigNext /\ UNCHANGED vars

MCSpec ==
  /\ MCInit
  /\ [][MCNext]_<<vars, configVars, part>>
  /\ WF_vars(Command)
=============================================================================
