--------------------------- MODULE MCEvidencePack ----------------------------
(***************************************************************************)
(* EvidencePack on small instances.                                        *)
(***************************************************************************)
EXTENDS EvidencePack, TLC

Symmetry == Permutations(Handlers) \cup Permutations(Transfers)
=============================================================================
