------------------------- MODULE MCMutationPipeline --------------------------
(* Requests of an author and of a key that may only manage keys. *)
EXTENDS MutationPipeline

In(kind, actor, names, ifMatch, key) ==
  [kind |-> kind, actor |-> actor, on |-> "author", names |-> names,
   ifMatch |-> ifMatch, idem |-> key]

MCScopes == [author |-> {"authoring"}, keeper |-> {"admin"}]

\* A retried creation, conditional ones, a dry run, batches that are good, clash
\* with themselves or with a creation, are conditional, malformed or empty, and
\* the operations on keys, some by a key without the scope.
MCInputs ==
  {In("pool", "author", <<"a">>, NoMatch, "i"), In("pool", "author", <<"b">>, 0, "j"),
   In("pool", "keeper", <<"a">>, NoMatch, NoIdem),
   In("dry", "author", <<"a">>, NoMatch, NoIdem),
   In("batch", "author", <<"c", "d">>, 0, NoIdem), In("batch", "author", <<"c", "a", "c">>, NoMatch, NoIdem),
   In("batch", "author", <<"c", NoPool>>, NoMatch, NoIdem), In("batch", "author", <<>>, NoMatch, NoIdem),
   In("mint", "keeper", <<>>, NoMatch, NoIdem), In("revoke", "keeper", <<>>, NoMatch, NoIdem),
   In("mint", "author", <<>>, NoMatch, NoIdem), In("revoke", "author", <<>>, NoMatch, NoIdem)}
=============================================================================
