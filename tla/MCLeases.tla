------------------------------ MODULE MCLeases ------------------------------
(* A small ledger: two IDs over six instants, room for two entries or one. *)
EXTENDS Leases, TLC

Interchangeable == Permutations(LeaseIds)
=============================================================================
