----------------------------- MODULE MCBootstrap -----------------------------
(* A tool in a fixed directory, a toolchain, and all the phases. *)
EXTENDS Bootstrap

MCUnfit == {<<"node", 2>>}
MCBare == {<<"mage", 2>>}
MCStages == <<"mage", "gophase", "goinstall", "node", "frontend", "linear">>
=============================================================================
