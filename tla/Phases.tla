------------------------------- MODULE Phases -------------------------------
(***************************************************************************)
(* At which minute of a five-hour cycle each Claude account's window is    *)
(* opened (native/src/phase.rs), so that the windows end apart.            *)
(***************************************************************************)
EXTENDS Integers, Sequences, FiniteSetsExt, Functions

CONSTANTS Cycle,   \* CYCLE_MINUTES, in steps of the grid
          Arc      \* for how long an account has its turn

(* A policy: its pattern, the accounts in order of preference with their    *)
(* weights, and how many of them make a cluster.                            *)
Patterns == {"maintain", "staggered", "clustered", "synced"}

(* A weight of nothing, or less, is one. *)
Weight(policy, slot) == IF policy.weights[slot] <= 0 THEN 1 ELSE policy.weights[slot]

GroupSize(policy) ==
  LET n == Len(policy.prefer)
      wished == CASE policy.pattern = "synced" -> n
                  [] policy.pattern = "clustered" -> policy.warmGroup
                  [] OTHER -> 1
  IN Max({1, Min({wished, n})})

Cluster(policy, i) == (i - 1) \div GroupSize(policy)
Together(policy, i, j) == Cluster(policy, i) = Cluster(policy, j)

WeightOf(policy, positions) == SumFunction([i \in positions |-> Weight(policy, policy.prefer[i])])
Before(policy, i) ==
  WeightOf(policy, {j \in DOMAIN policy.prefer : Cluster(policy, j) < Cluster(policy, i)})
Total(policy) == WeightOf(policy, DOMAIN policy.prefer)

(* Half to even, to the grid. *)
RoundedTies(num, den) ==
  LET low == num \div den
      twice == 2 * (num % den)
  IN IF twice > den \/ (twice = den /\ low % 2 = 1) THEN low + 1 ELSE low

(* Slip: each account is given its share, not where its share begins. *)
OffsetOfShare(policy, i) ==
  RoundedTies(Cycle * WeightOf(policy, {j \in DOMAIN policy.prefer : Together(policy, i, j)}), Total(policy)) % Cycle

(* Where the share of the cycle begins that the account's cluster has. *)
Offset(policy, i) == RoundedTies(Cycle * Before(policy, i), Total(policy)) % Cycle

Scheduled(policy) == policy.pattern # "maintain" /\ Len(policy.prefer) > 1

(* The arc is one-sided: a window opened early would end early. *)
AtPhase(offset, minute) == (minute - offset) % Cycle < Arc

-----------------------------------------------------------------------------
(* Properties *)

Share(policy, i) == WeightOf(policy, {j \in DOMAIN policy.prefer : Together(policy, i, j)})

(* Accounts of different clusters whose shares are longer than a turn and a *)
(* step of the grid never have their turn together; those of one cluster    *)
(* always do, and every cluster has one in each cycle, however the shares   *)
(* are rounded and wrapped.  The next turn after an account's begins its    *)
(* share later, to within a step.                                           *)
Apart(policy) ==
  LET turns(minute) == {i \in DOMAIN policy.prefer : AtPhase(Offset(policy, i), minute)}
      long == \A i \in DOMAIN policy.prefer : Cycle * Share(policy, i) > (Arc + 1) * Total(policy)
      clusters == {Cluster(policy, i) : i \in DOMAIN policy.prefer}
  IN Scheduled(policy) =>
       /\ \A i \in DOMAIN policy.prefer : \E minute \in 0 .. Cycle - 1 : i \in turns(minute)
       /\ \A minute \in 0 .. Cycle - 1 : \A i \in turns(minute) : \A j \in DOMAIN policy.prefer :
            Together(policy, i, j) => j \in turns(minute)
       /\ long => \A minute \in 0 .. Cycle - 1 : \A i, j \in turns(minute) : Together(policy, i, j)
       /\ long => \A i, j \in DOMAIN policy.prefer :
            Cluster(policy, j) = (Cluster(policy, i) + 1) % (Max(clusters) + 1) =>
              LET held == IF Cluster(policy, j) = Cluster(policy, i) THEN Cycle
                          ELSE (Offset(policy, j) - Offset(policy, i)) % Cycle
                  error == held * Total(policy) - Cycle * Share(policy, i)
              IN - Total(policy) <= error /\ error <= Total(policy)

=============================================================================
