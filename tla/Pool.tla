-------------------------------- MODULE Pool --------------------------------
(***************************************************************************)
(* How much the accounts of one provider can still be used, and when that  *)
(* will be more (native/src/capacity.rs).                                  *)
(*                                                                         *)
(* Every window of an account is a share of what the account is worth.     *)
(* What an account can give is limited by each of its windows; a provider  *)
(* has the sum of its accounts.  A window whose reset has passed counts as *)
(* full.  Accounts whose conversion is unknown are given equal weights, or *)
(* make the sum incomplete.                                                *)
(***************************************************************************)
EXTENDS Integers, Sequences, FiniteSets, FiniteSetsExt, Functions

CONSTANTS Whole,                       \* a full window: 100 %
          Margin5h, Margin7d, Margin7dWork,   \* what automation leaves of a window
          FloorPercent,                \* what it leaves in critical mode
          Day, EightDays               \* how far ahead is looked

Nothing == -1

(* An account, as the snapshot and the policy have it: whether its reading  *)
(* is fresh, what blocks it, the subscription behind it, its windows, and   *)
(* what these are worth: weekly and fiveHour where they are calibrated, and *)
(* the multiplier of its plan.  Instants count from now.                    *)
WindowNames == {"300", "10080"}

-----------------------------------------------------------------------------
(* One account *)

(* New-Hotpl8CapacityWindow *)
CapacityWindow(window, full) ==
  LET rolledOver == window.reset = 0 IN
  [left |-> IF rolledOver THEN Whole ELSE window.left,
   reset |-> IF rolledOver \/ ~ window.confirmed THEN Nothing ELSE window.reset,
   valid |-> rolledOver \/ window.left \in 0 .. Whole,
   full |-> full]

(* A lone account with a weekly window only needs no conversion. *)
Weekly(a, alone) ==
  IF a.weekly = Nothing /\ alone /\ DOMAIN a.windows = {"10080"} THEN 1 ELSE a.weekly

Windows(a, alone) ==
  [w \in DOMAIN a.windows |->
     CapacityWindow(a.windows[w], IF w = "10080" THEN Weekly(a, alone) ELSE a.fiveHour)]

(* The window a session runs into first: the short one, if there is one. *)
IsPrimary(w, windows) == w = "300" \/ (w = "10080" /\ "300" \notin DOMAIN windows)

(* For the headroom of the moment the primary window weighs what the plan   *)
(* says, and the others keep their proportion to it.                        *)
Weight(a, windows, alone) ==
  LET primary == {w \in DOMAIN windows : IsPrimary(w, windows)}
      full == IF primary = {} THEN Nothing ELSE windows[CHOOSE w \in primary : TRUE].full
  IN [weight |-> IF a.multiplier # Nothing THEN a.multiplier
                 ELSE IF full # Nothing THEN full
                 ELSE IF alone THEN 1 ELSE Nothing,
      full |-> full,
      basis |-> IF a.multiplier # Nothing \/ full = Nothing THEN "plan" ELSE "calibrated"]

Proportioned(windows, by) ==
  [w \in DOMAIN windows |->
     [windows[w] EXCEPT !.full = IF IsPrimary(w, windows) THEN by.weight
                                 ELSE IF by.full = Nothing \/ @ = Nothing THEN Nothing
                                 ELSE (@ * by.weight) \div by.full]]

Unconverted(windows) == {w \in DOMAIN windows : windows[w].full = Nothing}

(* What one account comes to. *)
Measured(a, alone, headroom) ==
  LET plain == Windows(a, alone)
      by == Weight(a, plain, alone)
      windows == IF headroom THEN Proportioned(plain, by) ELSE plain
      weekly == IF headroom THEN by.weight ELSE Weekly(a, alone)
      known == a.fresh /\ windows # <<>> /\ \A w \in DOMAIN windows : windows[w].valid
      empty == {w \in DOMAIN windows : windows[w].left = 0}
      knownZero == known /\ a.block \in {"quota", "other"} /\ empty # {}
  IN [fresh |-> known,
      windows |-> windows,
      weekly |-> weekly,
      basis |-> IF headroom THEN by.basis ELSE "calibrated",
      scaled |-> known /\ weekly # Nothing /\ (headroom \/ Unconverted(windows) = {}),
      blocked |-> a.block # "none",
      knownZero |-> knownZero,
      refillExpected |-> knownZero /\ a.block = "quota"
                           /\ \A w \in empty : windows[w].reset # Nothing,
      reserve |-> a.reserve]

(* Of the accounts that share a subscription the first one counts. *)
Counted(accounts) ==
  {i \in DOMAIN accounts :
     accounts[i].enabled /\ \A j \in 1 .. i - 1 : accounts[j].enabled => accounts[j].stream # accounts[i].stream}

Margin(window, reserve, emergency) ==
  IF emergency /\ ~ reserve THEN FloorPercent
  ELSE IF window = "300" THEN Margin5h
  ELSE IF reserve THEN Margin7d ELSE Margin7dWork

(* Slip: every window is full as soon as one of them is. *)
LeftAtAny(window, at) == IF at > 0 THEN Whole ELSE window.left

(* What is left of a window at an instant ahead: windows that have been     *)
(* reset by then are full.                                                  *)
LeftAt(window, at) == IF window.reset \in 0 .. at THEN Whole ELSE window.left

(* Get-Hotpl8CapacityAmount, in parts of Whole: the least any of its        *)
(* windows allows, and nothing when one may not be used any more.           *)
Amount(m, at, emergency) ==
  IF \E w \in DOMAIN m.windows :
       LET left == LeftAt(m.windows[w], at)
       IN left = 0 \/ left < Margin(w, m.reserve, emergency)
  THEN 0
  ELSE Min({m.windows[w].full * LeftAt(m.windows[w], at) : w \in DOMAIN m.windows \ Unconverted(m.windows)}
             \union {m.weekly * Whole})

-----------------------------------------------------------------------------
(* The provider *)

Usable(m) == m.fresh /\ (~ m.blocked \/ m.knownZero)

(* Accounts that cannot be compared weigh the same, by the window a session *)
(* runs into first.                                                         *)
EqualWeights(m) ==
  [m EXCEPT !.weekly = 1, !.scaled = TRUE, !.basis = "equal",
            !.windows = [w \in DOMAIN @ |-> [@[w] EXCEPT !.full = IF IsPrimary(w, m.windows) THEN 1 ELSE Nothing]]]

Incomparable(measured) ==
  \/ \E i \in DOMAIN measured : ~ measured[i].scaled \/ measured[i].weekly = Nothing
  \/ Cardinality({measured[i].basis : i \in DOMAIN measured}) > 1

(* For the headroom only accounts that can be used, or are known to be      *)
(* empty, count.                                                            *)
Comparable(usable) ==
  IF Incomparable(usable) THEN [i \in DOMAIN usable |-> EqualWeights(usable[i])] ELSE usable

AccountsOf(accounts, headroom) ==
  LET alone == Cardinality({i \in DOMAIN accounts : accounts[i].enabled}) = 1
      usable(all) == Comparable(Restrict(all, {i \in DOMAIN all : Usable(all[i])}))
      measured == [i \in Counted(accounts) |-> Measured(accounts[i], alone, headroom)]
  IN IF headroom THEN usable(measured) ELSE measured

DenominatorKnown(ms) ==
  /\ ms # <<>>
  /\ \A i \in DOMAIN ms : ms[i].weekly # Nothing
  /\ Cardinality({ms[i].basis : i \in DOMAIN ms}) <= 1
Total(ms) == SumFunction([i \in DOMAIN ms |-> ms[i].weekly * Whole])
Complete(ms) ==
  DenominatorKnown(ms) /\ \A i \in DOMAIN ms : ms[i].scaled /\ (ms[i].blocked => ms[i].knownZero)
ProjectionComplete(ms) == Complete(ms) /\ \A i \in DOMAIN ms : ms[i].blocked => ms[i].refillExpected

(* A hold, a pause or a policy that does not switch leaves the selected     *)
(* account only.                                                            *)
Other(i, use) == use.restricted /\ i # use.selected

SumOver(S, amount(_)) == SumFunction([i \in S |-> amount(i)])

Solid(ms, use) ==
  SumOver({i \in DOMAIN ms : ms[i].scaled /\ ~ ms[i].blocked /\ ~ Other(i, use)},
          LAMBDA i : Amount(ms[i], 0, use.emergency))

Unknown(ms) ==
  SumOver({i \in DOMAIN ms : /\ ~ (ms[i].scaled /\ ms[i].knownZero)
                             /\ ~ ms[i].scaled \/ ms[i].blocked
                             /\ ms[i].weekly # Nothing},
          LAMBDA i : ms[i].weekly * Whole)

(* What there will be at an instant ahead if nothing is used until then.    *)
(* Accounts stay blocked but for those whose empty windows are to be reset. *)
Future(ms, at, use) ==
  SumOver({i \in DOMAIN ms : (ms[i].blocked => ms[i].refillExpected) /\ ~ Other(i, use)},
          LAMBDA i : Amount(ms[i], at, use.emergency))

Resets(ms) ==
  UNION {{ms[i].windows[w].reset : w \in DOMAIN ms[i].windows} \ {Nothing} :
         i \in {j \in DOMAIN ms : Usable(ms[j])}}

(* The first reset after which there is more. *)
FirstGain(ms, use) ==
  LET gains == {at \in Resets(ms) : at <= EightDays /\ Future(ms, at, use) > Solid(ms, use)}
  IN IF Complete(ms) /\ gains # {} THEN Min(gains) ELSE Nothing

(* What is said of the provider, the first gain being known. *)
Summed(ms, use, gain) ==
  [complete |-> Complete(ms),
   projectionComplete |-> ProjectionComplete(ms),
   total |-> IF DenominatorKnown(ms) THEN Total(ms) ELSE Nothing,
   usable |-> Solid(ms, use),
   unknown |-> Unknown(ms),
   nextResetAt |-> IF gain <= Day THEN gain ELSE Nothing,
   laterRefillAt |-> IF gain > Day THEN gain ELSE Nothing,
   gain |-> IF gain = Nothing THEN 0 ELSE Future(ms, gain, use) - Solid(ms, use)]

(* Get-Hotpl8ProviderCapacity *)
ProviderCapacity(accounts, use) ==
  LET summed(ms) == Summed(ms, use, FirstGain(ms, use)) IN summed(AccountsOf(accounts, use.headroom))

-----------------------------------------------------------------------------
(* Properties *)

(* The parts shown are parts of one whole: what can be used, what is not    *)
(* known, and what the next reset brings never come to more.                *)
SharesAddUp(accounts, use) ==
  LET addUp(c) == c.total # Nothing =>
                    /\ 0 <= c.usable /\ 0 <= c.gain
                    /\ c.usable + c.unknown <= c.total
                    /\ c.usable + c.gain <= c.total
  IN addUp(ProviderCapacity(accounts, use))

(* The same accounts some time later, nothing of them used: windows were    *)
(* reset at their instants, and whoever was out of quota is let in again    *)
(* once none of his windows is empty.                                       *)
After(accounts, t) ==
  LET later(window) == [window EXCEPT !.reset = IF @ = Nothing THEN @ ELSE Max({0, @ - t})]
      empty(window) == window.reset # 0 /\ window.left = 0
  IN [i \in DOMAIN accounts |->
       LET windows == [w \in DOMAIN accounts[i].windows |-> later(accounts[i].windows[w])]
       IN [accounts[i] EXCEPT
            !.windows = windows,
            !.block = IF @ = "quota" /\ \A w \in DOMAIN windows : ~ empty(windows[w]) THEN "none" ELSE @]]

(* When the projection is complete and no account was left out, a refill    *)
(* that is announced takes place: at that instant, calculated anew, there   *)
(* is as much as was promised.  And it is the first: before it, or ever     *)
(* within the horizon if none is announced, there is not more, as long as   *)
(* every reset is confirmed.                                                *)
RefillComesTrue(accounts, use) ==
  LET usableAt(t) == ProviderCapacity(After(accounts, t), use).usable
      confirmed == \A i \in DOMAIN accounts : \A w \in DOMAIN accounts[i].windows : accounts[i].windows[w].confirmed
      promised(c, at) ==
        c.projectionComplete /\ DOMAIN AccountsOf(accounts, use.headroom) = Counted(accounts) =>
          /\ at # Nothing => usableAt(at) >= c.usable + c.gain
          /\ confirmed =>
               \A t \in 1 .. (IF at = Nothing THEN EightDays ELSE at - 1) : usableAt(t) <= c.usable
      told(c) == promised(c, Max({c.nextResetAt, c.laterRefillAt}))
  IN told(ProviderCapacity(accounts, use))

=============================================================================
