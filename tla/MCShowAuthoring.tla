--------------------------- MODULE MCShowAuthoring ---------------------------
(* A session on a show that has one of everything, each thing in use. *)
EXTENDS ShowAuthoring

Layer(s, k, r, e) == [scene |-> s, kind |-> k, ref |-> r, enabled |-> TRUE, sel |-> e]

Control(t, i, l) == [surface |-> 14, to |-> t, id |-> i, layer |-> l]

Named(k, i, n) == [kind |-> k, id |-> i, name |-> n, val |-> 0]

FullShow ==
  [revision |-> 1, minted |-> 18, bpm |-> 120,
   objs |-> {Named("pool", 1, "a"), Named("deployment", 4, "a"), Named("group", 7, "a"),
             Named("theme", 8, "a"), Named("preset", 9, "a"), Named("chase", 10, "a"),
             Named("motion", 11, "a"), Named("scene", 12, "a"), Named("blend", 13, "a"),
             Named("surface", 14, "a"), Named("script", 17, "a"), Named("note", 18, "a")},
   active |-> {4, 12},
   order |-> <<12>>,
   steps |-> {[chase |-> 10, list |-> <<1, 2>>]},
   members |-> {[pool |-> 1, id |-> 2, fixture |-> "f"], [pool |-> 1, id |-> 3, fixture |-> "f"]},
   instances |-> {[id |-> 5, dep |-> 4, pool |-> 1, member |-> 2, at |-> <<1, 1>>],
                  [id |-> 6, dep |-> 4, pool |-> 1, member |-> 3, at |-> <<1, 3>>]},
   groupRefs |-> {[group |-> 7, pool |-> 1, member |-> 2]},
   layers |-> {Layer(12, "base_look", 9, {[to |-> "group", id |-> 7]}),
               Layer(12, "color_theme", 8, {[to |-> "pool", id |-> 1]}),
               Layer(12, "chase", 10, {[to |-> "instance", id |-> 5]}),
               Layer(12, "motion", 11, {[to |-> "fixture", id |-> 2]})},
   controls |-> {Control("scene", 12, ""), Control("layer", 12, "chase"),
                 Control("group", 7, ""), Control("grand", 0, "")},
   midi |-> {[surface |-> 14, id |-> 15, key |-> "k", target |-> Control("scene", 12, "")]},
   desk |-> {[id |-> 16, key |-> "k", instance |-> 5]},
   touched |-> {5},
   captured |-> {[preset |-> 9, instance |-> 5]}]

Fixture(f, w) == [fixture |-> f, width |-> w]

\* Nothing, one wide fixture, or a wide and a narrow one.
MCAdditions == {<<>>, <<Fixture("f", 2)>>, <<Fixture("f", 2), Fixture("g", 1)>>}

MCShows == {FullShow}
=============================================================================
