--------------------------- MODULE MCOutputSafety ---------------------------
(* Two fixtures: the scene lights a, which is in the group g; b has the desk *)
(* only.                                                                     *)
EXTENDS OutputSafety

MCInstances == {"a", "b"}
MCMember == [i \in MCInstances |-> IF i = "a" THEN {"g"} ELSE {}]
MCFaders == {<<"b", "intensity">>, <<"b", "other">>}
Lit == [i \in {"a"} |-> 1]
=============================================================================
