--------------------------- MODULE MCScriptSession ---------------------------
(* Two invocations of one script, the second a short one, and a stop of it. *)
EXTENDS ScriptSession

MCNameOf == [c \in Runs \cup Stops |-> "s"]

MCModes == <<{"run", "debug"}, {"run"}>>

MCJobs == <<BOOLEAN, {FALSE}>>

MCSources ==
  <<{<<"edit", "edit">>, <<"log", "scope">>, <<"unknown">>, <<"params">>, <<"bogus">>}, {<<>>}>>
=============================================================================
