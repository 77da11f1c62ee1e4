---------------------------- MODULE MCMidiControl ----------------------------
(* A surface, a fader and a button, two calls of the frontend at once. *)
EXTENDS MidiControl
=============================================================================
