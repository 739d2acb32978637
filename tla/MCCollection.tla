---------------------------- MODULE MCCollection ----------------------------
(* Two providers, each of either kind, and two subscriptions. *)
EXTENDS Collection

CONSTANTS pa, pb, ia, ib

BothRegistered == <<pa, pb>>
=============================================================================
