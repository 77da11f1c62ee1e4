---------------------------- MODULE MCDesktopApp ----------------------------
(* DesktopApp on a small instance. *)
EXTENDS DesktopApp
=============================================================================
