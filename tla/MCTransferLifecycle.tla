------------------------ MODULE MCTransferLifecycle -------------------------
(***************************************************************************)
(* TransferLifecycle on small instances.  Request threads and transfer     *)
(* identifiers are interchangeable, entities are when all start alike.     *)
(***************************************************************************)
EXTENDS TransferLifecycle, TLC

Symmetry == Permutations(Handlers) \cup Permutations(Transfers) \cup Permutations(Entities)
=============================================================================
