--------------------------- MODULE MCOutputWorker ---------------------------
(* The daemon's worker and the fixture library it starts from, on small     *)
(* instances.  The worker, the searches and the imports share no state, so  *)
(* a behaviour is of one of the three.                                      *)
EXTENDS OutputWorker, FixtureLibrary

VARIABLE part

Plain(k, n) == [key |-> k, text |-> n, valid |-> TRUE]
MCDefinitions == {Plain("spot", 1), Plain("spot", 2), [key |-> "spot", text |-> 3, valid |-> FALSE]}
MCCatalog == [ref \in {"acme/spot"} |-> Plain("spot", 2)]
MCPicks == [p \in {"mine"} |-> Plain("spot", 1)]
MCSlug == [k \in {"spot"} |-> "spot.yaml"]
MCOflName == [r \in {"acme/spot"} |-> "acme_spot.json"]

MCInit ==
  /\ part \in {"worker", "search", "import"}
  /\ Init /\ LibraryInit
  /\ part # "worker" => \A t \in Targets : targets[t] = "absent"
  /\ \A n \in ListDirectory : part = "import" /\ n \in {Slug[k] : k \in Keys}

MCNext ==
  /\ UNCHANGED part
  /\ \/ part = "worker" /\ Next /\ UNCHANGED libraryVars
     \/ part = "search" /\ Searching /\ UNCHANGED vars
     \/ part = "import" /\ Importing /\ UNCHANGED vars

MCSpec ==
  /\ MCInit
  /\ [][MCNext]_<<vars, libraryVars, part>>
  /\ Fairness
  /\ LibraryFairness

\* Nobody waits for ever: a cancelled Run returns and its goroutines end in the
\* end (ShutdownDrains), and every call on the fixture library is answered.
WaitersAreServed ==
  /\ ShutdownDrains
  /\ CallsAnswered
=============================================================================
