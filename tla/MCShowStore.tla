---------------------------- MODULE MCShowStore -----------------------------
(* Instances of ShowStore.  Edits and processes are interchangeable. *)
EXTENDS ShowMigration, TLC

CONSTANTS e1, e2, e3, e4, cli, app

TwoProcs == {cli, app}
ThreeEdits == {e1, e2, e3}
FourEdits == {e1, e2, e3, e4}
Symmetry == Permutations(FourEdits) \cup Permutations(TwoProcs)
=============================================================================
