----------------------------- MODULE Selection ------------------------------
(***************************************************************************)
(* Which Claude account is the active one (native/src/decision.rs,         *)
(* critical.rs, claude.rs, claude_tick.rs).                                *)
(*                                                                         *)
(* Every wake decides on the readings it has: work accounts before reserve *)
(* ones, healthy before degraded, then as the policy prefers; but it stays *)
(* with an account that is as good, or nearly.  When every work account is *)
(* low, critical mode takes the one with most left instead, and stays with *)
(* it for a while.  What critical mode has to remember is in a file of its *)
(* own, written after the switch.                                          *)
(***************************************************************************)
EXTENDS Integers, Sequences, FiniteSets

CONSTANTS Prefer,       \* the accounts, as the policy prefers them
          Reserve,      \* those kept in reserve
          Most,         \* what is left of a full account
          Floor, Enter, Exit,   \* critical: floorPercent, enterPercent, exitPercent
          Dwell, Advantage,     \* critical: dwellSeconds, advantagePercent (in tenths)
          Margin, Hysteresis,   \* margin5h, hysteresis
          WeekMargin,   \* margin7d
          MaxUpsets     \* bound: how many kinds of upset there are in a behaviour

Accounts == {Prefer[i] : i \in DOMAIN Prefer}
NoAccount == "none"

ASSUME ThresholdsAssumption ==
  /\ {Floor, Enter, Exit, Margin, Hysteresis, WeekMargin, Dwell, Advantage, Most, MaxUpsets} \subseteq Nat
  /\ Floor <= Enter /\ Enter < Exit /\ Exit <= Most   \* assert_critical_policy

(* A policy names an account once, and in reserve only accounts it prefers. *)
ASSUME AccountsAssumption ==
  /\ Prefer \in Seq(Accounts) /\ NoAccount \notin Accounts
  /\ \A i, j \in DOMAIN Prefer : Prefer[i] = Prefer[j] => i = j
  /\ Reserve \subseteq Accounts

VARIABLES
  reading,  \* what the last reading of each account says
  active,   \* the account cswap has active
  record,   \* critical-claude.json: the mode, and how long ago it was last selected
  wake,     \* the wake that runs: where it is, and the account it moves to
  hold,     \* whether the owner holds the selection
  upsets,   \* what has upset the wakes: the user switched, or held; a wake died
  calm,     \* from here on readings stay, and nobody interferes
  since     \* history: how long ago a wake last moved, as far as the dwell goes

vars == <<reading, active, record, wake, hold, upsets, calm, since>>

-----------------------------------------------------------------------------
(* Critical mode *)

Place(a) == CHOOSE i \in DOMAIN Prefer : Prefer[i] = a
Work == Accounts \ Reserve
Left(a) == reading[a].left

(* The work accounts whose reading is fresh, and that are not blocked. *)
Known == {a \in Work : reading[a].fresh}

(* It is harder to leave than to stay out. *)
Threshold(state) == IF state.active THEN Exit ELSE Enter

Critical(state) ==
  /\ Known # {}
  /\ \A a \in Known : Left(a) <= Threshold(state)
  /\ \E a \in Known : Left(a) > 0

Candidates == {a \in Known : Left(a) > 0 /\ Left(a) >= Floor}

(* Slip: the account that is active comes last among equals. *)
HeldLast(a, b, previous) ==
  \/ Left(a) > Left(b)
  \/ /\ Left(a) = Left(b)
     /\ a # previous
     /\ b = previous \/ Place(a) < Place(b)

(* The most that is left; among equals the active account, then the first. *)
Ahead(a, b, previous) ==
  \/ Left(a) > Left(b)
  \/ /\ Left(a) = Left(b)
     /\ b # previous
     /\ a = previous \/ Place(a) < Place(b)

Fullest(previous) ==
  CHOOSE a \in Candidates : \A b \in Candidates \ {a} : Ahead(a, b, previous)

(* Slip: any advantage is enough at once. *)
TooSoonNever(best, previous, state) == Left(best) <= Left(previous)

(* It is not worth to move yet: too soon, as far as is known, or for too   *)
(* little.                                                                 *)
TooSoon(best, previous, state) ==
  \/ ~ state.known \/ state.age < Dwell
  \/ Left(best) * 10 < Left(previous) * (10 + Advantage)

CriticalChoice(previous, state) ==
  IF Candidates = {} THEN NoAccount
  ELSE IF /\ previous \in Candidates
          /\ TooSoon(Fullest(previous), previous, state)
       THEN previous
       ELSE Fullest(previous)

-----------------------------------------------------------------------------
(* The decision *)

(* In critical mode a work account may go down to the floor. *)
Eligible(critical) ==
  {a \in Accounts : /\ reading[a].fresh
                    /\ Left(a) > 0
                    /\ Left(a) >= (IF critical /\ a \in Work THEN Floor ELSE Margin)
                    /\ a \in Reserve => ~ reading[a].degraded}

Tier(a) == <<a \in Reserve, reading[a].degraded>>

(* Of two degraded accounts the one with more of its week left, then as *)
(* preferred.                                                           *)
Ranked(a, b) ==
  IF reading[a].degraded /\ Left(a) # Left(b) THEN Left(a) > Left(b)
  ELSE Place(a) < Place(b)

(* Slip: what is degraded comes last, also before what is in reserve. *)
BeforeHealthy(a, b) ==
  \/ ~ reading[a].degraded /\ reading[b].degraded
  \/ reading[a].degraded = reading[b].degraded /\ Ranked(a, b)

(* Work before reserve, healthy before degraded. *)
Before(a, b) ==
  \/ a \in Work /\ b \in Reserve
  \/ /\ (a \in Reserve) = (b \in Reserve)
     /\ \/ ~ reading[a].degraded /\ reading[b].degraded
        \/ reading[a].degraded = reading[b].degraded /\ Ranked(a, b)

First(of) == CHOOSE a \in of : \A b \in of \ {a} : Before(a, b)

(* The best has hardly more to give than one of its own kind. *)
NoBetter(best, previous) ==
  /\ Tier(best) = Tier(previous)
  /\ IF reading[best].degraded THEN Left(best) <= Left(previous)
     ELSE Left(best) < Margin + Hysteresis

(* Slip: an account stays active whether or not it may still be used. *)
RetainedAnyway(best, previous, eligible) ==
  best # previous /\ NoBetter(best, previous)

(* The active account stays if it may be used and the best is no better. *)
Retained(best, previous, eligible) ==
  /\ previous \in eligible
  /\ best # previous /\ NoBetter(best, previous)

Proposed(previous, state) ==
  LET critical == Critical(state)
      eligible == Eligible(critical)
  IN IF critical /\ Candidates # {} THEN CriticalChoice(previous, state)
     ELSE IF eligible = {} THEN NoAccount
     ELSE IF Retained(First(eligible), previous, eligible) THEN previous
     ELSE First(eligible)

-----------------------------------------------------------------------------
(* A wake *)

Asleep == [at |-> "asleep"]

(* The week has no less left than the window that binds: an account whose  *)
(* week is low is low.                                                     *)
Readings == [left : 0 .. Most, degraded : {FALSE}, fresh : {TRUE}]
            \cup [left : 0 .. WeekMargin - 1, degraded : {TRUE}, fresh : {TRUE}]
            \cup [left : {0}, degraded : {FALSE}, fresh : {FALSE}]

Init ==
  /\ reading \in [Accounts -> Readings]
  /\ active \in Accounts
  /\ record = [active |-> FALSE, known |-> FALSE, age |-> Dwell]
  /\ wake = Asleep
  /\ hold = FALSE
  /\ upsets = {}
  /\ calm = FALSE
  /\ since = Dwell

(* The readings are decided on.  A hold stops the switch, nothing else. *)
Wake ==
  LET to == Proposed(active, record) IN
  /\ wake = Asleep
  /\ wake' = IF to \notin {NoAccount, active} /\ ~ hold
             THEN [at |-> "switching", from |-> active, to |-> to, overtaken |-> FALSE]
             ELSE [at |-> "saving", switched |-> FALSE]
  /\ UNCHANGED <<reading, active, record, hold, upsets, calm, since>>

(* The last look, under the action lock: no control state was written      *)
(* since, and what was decided still comes out.  The active account is not *)
(* read again.  cswap moves, or says that it did not, which ends the wake. *)
Switch ==
  /\ wake.at = "switching"
  /\ \/ /\ wake.overtaken \/ Proposed(wake.from, record) # wake.to
        /\ wake' = [at |-> "saving", switched |-> FALSE]
        /\ UNCHANGED <<active, since>>
     \/ /\ ~ wake.overtaken /\ Proposed(wake.from, record) = wake.to
        /\ active' = wake.to
        /\ since' = 0
        /\ wake' = [at |-> "saving", switched |-> TRUE]
     \/ /\ ~ calm
        /\ wake' = Asleep
        /\ UNCHANGED <<active, since>>
  /\ UNCHANGED <<reading, record, hold, upsets, calm>>

(* When the active account was selected, if that is known. *)
SelectedAt(switched) == IF switched \/ ~ record.known THEN 0 ELSE record.age

(* What critical mode has to remember is saved. *)
Save ==
  /\ wake.at = "saving"
  /\ record' = [active |-> Critical(record), known |-> TRUE, age |-> SelectedAt(wake.switched)]
  /\ wake' = Asleep
  /\ UNCHANGED <<reading, active, hold, upsets, calm, since>>

-----------------------------------------------------------------------------
(* The surroundings *)

Upset(kind) == upsets' = upsets \cup {kind} /\ Cardinality(upsets') <= MaxUpsets

(* The wake dies between the switch and the save, or cannot write. *)
Die ==
  /\ ~ calm
  /\ wake.at = "saving"
  /\ Upset("died")
  /\ wake' = Asleep
  /\ UNCHANGED <<reading, active, record, hold, calm, since>>

(* Work uses an account up, a window begins anew, a reading goes stale. *)
Observe(a) ==
  /\ ~ calm /\ wake = Asleep
  /\ \E now \in Readings \ {reading[a]} : reading' = [reading EXCEPT ![a] = now]
  /\ UNCHANGED <<active, record, wake, hold, upsets, calm, since>>

(* The user switches, or holds the selection, or lets it go. *)
Interfere ==
  /\ ~ calm
  /\ \/ /\ Upset("switched")
        /\ active' \in Accounts \ {active}
        /\ UNCHANGED <<hold, wake>>
     \/ /\ Upset("held")
        /\ hold' = ~ hold
        /\ wake' = IF wake.at = "switching" THEN [wake EXCEPT !.overtaken = TRUE] ELSE wake
        /\ UNCHANGED active
  /\ since' = 0
  /\ UNCHANGED <<reading, record, calm>>

Older(age) == IF age < Dwell THEN age + 1 ELSE age

(* The history is kept as long as nobody but the wakes switches or holds. *)
Followed(age) == IF upsets \subseteq {"died"} THEN Older(age) ELSE age

(* A minute passes between two wakes. *)
Tick ==
  /\ wake = Asleep
  /\ record.age < Dwell \/ Followed(since) # since
  /\ record' = [record EXCEPT !.age = Older(@)]
  /\ since' = Followed(since)
  /\ UNCHANGED <<reading, active, wake, hold, upsets, calm>>

Settle ==
  /\ ~ calm /\ ~ hold
  /\ calm' = TRUE
  /\ UNCHANGED <<reading, active, record, wake, hold, upsets, since>>

Next ==
  \/ Wake
  \/ Switch
  \/ Save
  \/ Die
  \/ \E a \in Accounts : Observe(a)
  \/ Interfere
  \/ Tick
  \/ Settle

(* Wakes follow each other and end, and time passes between them. *)
Fairness == SF_vars(Wake) /\ WF_vars(Switch \/ Save) /\ SF_vars(Tick)

Spec == Init /\ [][Next]_vars /\ Fairness

-----------------------------------------------------------------------------
(* Properties *)

(* Every variable has its type. *)
TypeOK ==
  /\ reading \in [Accounts -> Readings]
  /\ active \in Accounts
  /\ record \in [active : BOOLEAN, known : BOOLEAN, age : 0 .. Dwell]
  /\ wake \in [at : {"asleep"}] \cup [at : {"switching"}, from : Accounts, to : Accounts, overtaken : BOOLEAN]
              \cup [at : {"saving"}, switched : BOOLEAN]
  /\ hold \in BOOLEAN /\ calm \in BOOLEAN
  /\ upsets \in SUBSET {"switched", "held", "died"} /\ Cardinality(upsets) <= MaxUpsets
  /\ since \in 0 .. Dwell

Moves == wake.at = "switching" /\ wake'.at = "saving" /\ active' # active

(* In critical mode an account that can still be used is not left again    *)
(* before it has been active for the dwell time, and only for one that has *)
(* more left (capacity.md: "Dwell and a required advantage prevent         *)
(* constant bouncing").                                                    *)
Dwelt == Moves /\ Critical(record) /\ active \in Candidates =>
           Left(active') > Left(active) /\ since >= Dwell

(* So it is as long as only the wakes switch, and none dies before it has  *)
(* saved.                                                                  *)
DwellKept == [][upsets = {} => Dwelt]_vars

(* So it would be if the wakes that died did not matter.                   *)
DwellKeptThroughDeaths == [][upsets \subseteq {"died"} => Dwelt]_vars

(* A reserve account is not taken while a work account may be used, and no *)
(* account is taken whose reading is missing or says that nothing is left. *)
TakenWell ==
  [][Moves => /\ reading[active'].fresh /\ Left(active') > 0
              /\ active' \in Reserve =>
                   \A a \in Work : ~ (reading[a].fresh /\ Left(a) >= Margin /\ Left(a) > 0)]_vars

(* While readings stay, the wakes do not move to and fro: the selection    *)
(* comes to rest, and not on an account that cannot be used if another can *)
(* be.                                                                     *)
ComesToRest == <>[]calm => <>[][~ Moves]_vars
NotStuck ==
  calm ~> active \in Eligible(Critical(record)) \/ Eligible(Critical(record)) = {}
Settles == ComesToRest /\ NotStuck

(* Critical mode is left only for a fresh reading above the exit threshold *)
(* (capacity.md: "It exits only after a fresh reading exceeds the exit     *)
(* threshold").                                                            *)
LeftByReading ==
  [][record.active /\ ~ record'.active => \E a \in Work : reading[a].fresh /\ Left(a) > Exit]_vars
=============================================================================
