---------------------------- MODULE MCEventStream ---------------------------
(* The API's event stream and the desktop's two feeds on small instances.   *)
(* The three share no state, so a behaviour is of one of them.              *)
EXTENDS EventStream, DesktopFeeds

VARIABLE part

MCInit ==
  /\ part \in {"api", "script", "log"}
  /\ StreamInit /\ ScriptInit /\ LogInit

MCNext ==
  /\ UNCHANGED part
  /\ \/ part = "api" /\ StreamNext /\ UNCHANGED <<scriptVars, logVars>>
     \/ part = "script" /\ ScriptNext /\ UNCHANGED <<eventVars, logVars>>
     \/ part = "log" /\ LogNext /\ UNCHANGED <<eventVars, scriptVars>>

MCSpec ==
  /\ MCInit
  /\ [][MCNext]_<<eventVars, scriptVars, logVars, part>>
  /\ StreamFairness
  /\ ScriptFairness

\* What must end does: the connection of a revoked key is closed, the end of a
\* script reaches the window, and a stopped stream sends nothing.
StreamsEnd ==
  /\ RevokedIsClosed
  /\ SilentOnceStopped
  /\ EndsReachTheWindow
=============================================================================
