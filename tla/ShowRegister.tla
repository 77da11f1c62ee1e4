---------------------------- MODULE ShowRegister ----------------------------
(***************************************************************************)
(* What internal/show promises of a show file, whoever uses it and however *)
(* often they crash: a reader sees nothing or one whole State, and a State *)
(* comes to be seen only after it was drafted.  A draft is one revision on *)
(* from a State that was seen or drafted, with at most one edit more.  All *)
(* of it ends where two processes migrate the file at once.                *)
(***************************************************************************)
EXTENDS Naturals

CONSTANTS
    Edits,      \* what commands add to a show
    NoShow      \* what is seen of a file never saved

VARIABLES
    seen,       \* what Load reads
    crossed,    \* two migrations of the file ran at once
    drafts      \* the States a crash or a save to come can bring up

States == [rev : Nat, val : SUBSET Edits]
Base == IF seen = NoShow THEN {[rev |-> 0, val |-> {}]} ELSE {seen}

Init ==
    /\ seen \in States \cup {NoShow}
    /\ drafts \subseteq States
    /\ crossed = FALSE

\* a State is drafted or kept, and drafts may be dropped
Draft ==
    /\ \E base \in drafts \cup Base, more \in {{}} \cup {{e} : e \in Edits} :
          drafts' \subseteq drafts \cup Base
                              \cup {[rev |-> base.rev + 1, val |-> base.val \cup more]}
    /\ UNCHANGED seen
    /\ crossed => crossed'

\* a draft is seen from now on
Commit ==
    /\ seen' \in drafts
    /\ drafts' \subseteq drafts
    /\ UNCHANGED crossed

\* two migrations at once may swap in the file that one of them was copying
Lose ==
    /\ crossed /\ crossed'
    /\ seen' = NoShow
    /\ drafts' \subseteq drafts

Next == Draft \/ Commit \/ Lose

Spec == Init /\ [][Next]_<<seen, drafts, crossed>>
=============================================================================
