----------------------------- MODULE MCIngestion -----------------------------
(***************************************************************************)
(* Ingestion on small instances: an application that depends on a cache    *)
(* and a database, each of them ingested by a request of its own.          *)
(***************************************************************************)
EXTENDS Ingestion, TLC

CONSTANTS app, cache, db

Leaf(e) == [entity |-> e, dependencies |-> <<>>]

\* The application's dependencies in a fixed order, the order of the payload.
Stack == {[entity |-> app, dependencies |-> <<cache, db>>], Leaf(cache), Leaf(db)}

Pair == {[entity |-> app, dependencies |-> <<db>>], Leaf(db)}

Single == {Leaf(app)}

Symmetry == Permutations(Handlers)
=============================================================================
