--------------------------- MODULE MCCodexBridge ---------------------------
(* Conversations `one` and `two`; `one` runs the sub-agent `sub`. *)
EXTENDS CodexBridge, TLC

CONSTANTS one, two, sub

RunBy == one :> one @@ two :> two @@ sub :> one
Alone == one :> one
Interchangeable == Permutations(Accounts)
=============================================================================
