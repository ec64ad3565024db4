----------------------------- MODULE MCAccounts ------------------------------
(***************************************************************************)
(* Accounts on a small instance.  Threads and the identifiers of rows are  *)
(* interchangeable.                                                        *)
(***************************************************************************)
EXTENDS Accounts, TLC

Symmetry ==
    Permutations(Handlers) \cup Permutations(CompanyIds)
    \cup Permutations(UserIds) \cup Permutations(KeyIds)
=============================================================================
