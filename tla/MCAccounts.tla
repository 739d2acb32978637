----------------------------- MODULE MCAccounts -----------------------------
(* Three parts of the system that share no state, each by itself: parking  *)
(* and enrollment of two slots and two subscriptions that can change       *)
(* places; the record of one Codex home that two subscriptions sign in to  *)
(* in turn; and what wakes tell of themselves and of an account's pace.    *)
(* What a record says of windows does not depend on plans, nor what it     *)
(* says of plans on windows or the time: either changes while the rest of  *)
(* it stays.                                                               *)
(* Subscriptions are alike, and so are slots and plans.                    *)
EXTENDS Parking, CodexHomes, Insights, TLC

VARIABLE part
all == <<part, vars, homes, insights>>

HomesGone == /\ clock = 0 /\ auth = 0 /\ window = 0 /\ plan = 0 /\ plans = 0 /\ upsets = 0 /\ talk = 0
             /\ record = [h \in Homes |-> NoRecord]
ParkingGone == policy = [s \in Slots |-> Gone] /\ parked = policy /\ command = [c \in Commands |-> Idle] /\ minded = {}
InsightsGone == InsightsInit /\ varies = "use"

AccountsInit ==
  \/ part = "parking" /\ Init /\ HomesGone /\ InsightsGone
  \/ part = "windows" /\ HomesInit /\ Cardinality({plan[s] : s \in Accounts}) = 1 /\ ParkingGone /\ InsightsGone
  \/ part = "plans" /\ HomesInit /\ ParkingGone /\ InsightsGone
  \/ part = "insights" /\ InsightsInit /\ ParkingGone /\ HomesGone

ParkingRuns == part = "parking" /\ Next /\ UNCHANGED <<part, homes, insights>>
HomesRun == /\ \/ part = "windows" /\ HomesNext /\ UNCHANGED plan
               \/ part = "plans" /\ HomesNext /\ UNCHANGED <<window, clock>>
            /\ UNCHANGED <<part, vars, insights>>
InsightsRun == part = "insights" /\ InsightsNext /\ UNCHANGED <<part, vars, homes>>

AccountsNext == ParkingRuns \/ HomesRun \/ InsightsRun

AccountsSpec == AccountsInit /\ [][AccountsNext]_all

Interchangeable == Permutations(Slots) \cup Permutations(Subscriptions) \cup Permutations(Plans)

=============================================================================
