---------------------------- MODULE MCSelection -----------------------------
(* Two work accounts and one in reserve.  What is left counts from 0 to 3: *)
(* from 2 an account is used as usual; critical mode begins when there is  *)
(* no more than 1, and ends above 2.                                       *)
EXTENDS Selection

CONSTANTS a, b, r

Preferred == <<a, b, r>>
=============================================================================
