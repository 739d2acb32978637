----------------------------- MODULE CodexHomes -----------------------------
(***************************************************************************)
(* What a collection learns of one Codex home, and what it keeps           *)
(* (native/src/codex_read.rs, codex_collect.rs).                           *)
(*                                                                         *)
(* A home is read by a conversation with the program Codex ships, which    *)
(* answers for whoever is signed in when it is asked.  Anyone may sign in  *)
(* between two of its answers, so one reading may speak of two             *)
(* subscriptions.  What is kept of a home carries over to the next reading *)
(* only if both name the same one.                                         *)
(***************************************************************************)
EXTENDS Integers, FiniteSets

CONSTANTS Homes,
          Accounts,     \* the subscriptions that may be signed in
          Plans,        \* what a subscription's plan may be called
          Length,       \* how long a window is
          Confirm,      \* how far apart two readings have to be to confirm it
          Near,         \* how much the time of a reset may differ between them
          MaxTime, MaxSignIns, MaxUpsets   \* bounds

(* A plan that has no name is told as "unknown", never as the empty name.  *)
ASSUME HomesConstants ==
  /\ {Length, Confirm} \subseteq Nat \ {0}
  /\ {Near, MaxTime, MaxSignIns, MaxUpsets} \subseteq Nat
  /\ Plans # {} /\ {"", "unknown"} \cap Plans = {}

VARIABLES
  clock,
  auth,     \* auth.json of each home: who is signed in, and which edition it is
  window,   \* the service: whether each subscription's window floats, or when it ends
  plan,     \* the service: each subscription's plan
  plans,    \* history: the plans each subscription has had
  upsets,   \* how often a window began, ended early, or a plan changed
  talk,     \* the conversation that runs
  record    \* codex-state.json

service == <<window, plan, plans, upsets>>
homes == <<clock, auth, service, talk, record>>

None == [none |-> TRUE]
Nobody == <<>>

NoRecord == [identity |-> Nobody, windows |-> None, receipt |-> None,
             plan |-> "", previousPlan |-> ""]
Silent == [at |-> "idle"]

HomesInit ==
  /\ clock = 0
  /\ auth \in [Homes -> [who : Accounts, edition : {0}]]
  /\ window = [s \in Accounts |-> [floats |-> TRUE, ends |-> 0]]
  /\ plan \in [Accounts -> Plans]
  /\ plans = [s \in Accounts |-> {plan[s]}]
  /\ upsets = 0
  /\ talk = Silent
  /\ record = [h \in Homes |-> NoRecord]

-----------------------------------------------------------------------------
(* What the record of a home becomes *)

Same(old, identity) == old.identity = identity

(* Two readings of about the same reset, of a window in use. *)
Agree(old, seen) ==
  /\ old # None /\ old.used > 0 /\ seen.used > 0
  /\ old.reset - seen.reset \in -Near .. Near

(* Slip: two readings that agree are enough, however close. *)
AnchorAtOnce(old, seen) ==
  IF seen.reset <= clock THEN "expired"
  ELSE IF Agree(old, seen) THEN "observed-active" ELSE "unconfirmed"

(* A window that has begun keeps the time of its reset; one that has not   *)
(* is always a whole window away from it.  Two readings of a window in use *)
(* tell them apart, if they are far enough from each other.                *)
Anchor(old, seen) ==
  IF seen.reset <= clock THEN "expired"
  ELSE IF /\ Agree(old, seen)
          /\ clock - old.at >= Confirm \/ old.anchor = "observed-active"
       THEN "observed-active" ELSE "unconfirmed"

Window(old, seen) ==
  [reset |-> seen.reset, used |-> seen.used, anchor |-> Anchor(old, seen),
   at |-> clock, floated |-> seen.floated, edition |-> seen.edition]

Identity == <<talk.email, talk.account>>

(* Slip: what was known of the home still holds. *)
KeptOfHome(old) == old

(* What still holds of the last record, now that this subscription is seen. *)
Kept(old) == IF Same(old, Identity) THEN old ELSE NoRecord

(* Slip: any plan read before was this subscription's. *)
ReplacedOfHome(old) == old.plan \notin {"", "unknown", talk.plan} /\ talk.plan # "unknown"

(* The plan that this one took the place of. *)
Replaced(old) ==
  Same(old, Identity) /\ old.plan \notin {"", "unknown", talk.plan} /\ talk.plan # "unknown"

(* Slip: the sign-in is not compared with the one before. *)
ReceiptAlways(now) == [digest |-> now, email |-> talk.email, account |-> now.who]

(* A receipt says which subscription these very bytes sign in. *)
Receipt(now) ==
  IF now = talk.before
  THEN [digest |-> now, email |-> talk.email, account |-> now.who]
  ELSE None

Updated(old) ==
  [identity |-> Identity,
   windows |-> Window(Kept(old).windows, talk.seen),
   receipt |-> Receipt(auth[talk.home]),
   plan |-> IF talk.plan # "unknown" \/ Kept(old).plan = "" THEN talk.plan ELSE old.plan,
   previousPlan |-> IF Replaced(old) THEN old.plan ELSE Kept(old).previousPlan]

-----------------------------------------------------------------------------
(* The conversation *)

(* The lock of the home is taken, the program started, and its sign-in     *)
(* looked at before anything is asked.                                     *)
Open(h) ==
  /\ talk = Silent
  /\ talk' = [at |-> "account", home |-> h, before |-> auth[h]]
  /\ UNCHANGED <<clock, auth, service, record>>

(* account/read *)
AskAccount ==
  /\ talk.at = "account"
  /\ \E said \in {plan[auth[talk.home].who], "unknown"} :
       talk' = [at |-> "limits", home |-> talk.home, before |-> talk.before,
                email |-> auth[talk.home].who, plan |-> said]
  /\ UNCHANGED <<clock, auth, service, record>>

(* account/rateLimits/read *)
AskLimits ==
  /\ talk.at = "limits"
  /\ LET w == window[auth[talk.home].who] IN
     \E used \in {0, 1} :
       talk' = [at |-> "describe", home |-> talk.home, before |-> talk.before,
                email |-> talk.email, plan |-> talk.plan,
                seen |-> [reset |-> IF w.floats THEN clock + Length ELSE w.ends,
                          used |-> used, floated |-> w.floats, edition |-> auth[talk.home].edition]]
  /\ UNCHANGED <<clock, auth, service, record>>

(* auth.json is read for what account/read leaves out. *)
Describe ==
  /\ talk.at = "describe"
  /\ talk' = [at |-> "receipt", home |-> talk.home, before |-> talk.before,
              email |-> talk.email, plan |-> talk.plan, seen |-> talk.seen,
              account |-> auth[talk.home].who]
  /\ UNCHANGED <<clock, auth, service, record>>

(* The sign-in is looked at again, and what was read is saved.             *)
Save ==
  /\ talk.at = "receipt"
  /\ record' = [record EXCEPT ![talk.home] = Updated(@)]
  /\ talk' = Silent
  /\ UNCHANGED <<clock, auth, service>>

(* Time is up, or the wake dies: the proof that was there stays.  Codex     *)
(* refused: it goes.                                                       *)
TimedOut ==
  /\ talk # Silent
  /\ talk' = Silent
  /\ UNCHANGED <<clock, auth, service, record>>

Refused ==
  /\ talk.at \in {"account", "limits", "describe"}
  /\ record' = [record EXCEPT ![talk.home].receipt = None]
  /\ talk' = Silent
  /\ UNCHANGED <<clock, auth, service>>

-----------------------------------------------------------------------------
(* The surroundings *)

(* Somebody signs in, or Codex renews the sign-in, which changes the file. *)
SignIn(h, s) ==
  /\ auth[h].edition < MaxSignIns
  /\ \A g \in Homes \ {h} : auth[g].edition <= auth[h].edition
  /\ auth' = [auth EXCEPT ![h] = [who |-> s, edition |-> @.edition + 1]]
  /\ UNCHANGED <<clock, service, talk, record>>

(* The service: the first use of a window begins it; it ends in its time,  *)
(* or because the service starts it over.                                  *)
Turn(s) ==
  /\ upsets < MaxUpsets
  /\ upsets' = upsets + 1
  /\ window' = [window EXCEPT ![s] = IF @.floats THEN [floats |-> FALSE, ends |-> clock + Length]
                                     ELSE [floats |-> TRUE, ends |-> 0]]
  /\ UNCHANGED <<clock, auth, plan, plans, talk, record>>

ChangePlan(s) ==
  /\ upsets < MaxUpsets
  /\ upsets' = upsets + 1
  /\ \E p \in Plans \ {plan[s]} :
       /\ plan' = [plan EXCEPT ![s] = p]
       /\ plans' = [plans EXCEPT ![s] = @ \cup {p}]
  /\ UNCHANGED <<clock, auth, window, talk, record>>

(* A conversation takes less time than the clock counts. *)
Tick ==
  /\ clock < MaxTime
  /\ talk = Silent
  /\ clock' = clock + 1
  /\ UNCHANGED <<auth, service, talk, record>>

HomesNext ==
  \/ \E h \in Homes : Open(h)
  \/ AskAccount
  \/ AskLimits
  \/ Describe
  \/ Save
  \/ TimedOut
  \/ Refused
  \/ \E h \in Homes, s \in Accounts : SignIn(h, s)
  \/ \E s \in Accounts : Turn(s) \/ ChangePlan(s)
  \/ Tick

HomesSpec == HomesInit /\ [][HomesNext]_homes

-----------------------------------------------------------------------------
(* Properties *)

Credentials == [who : Accounts, edition : 0 .. MaxSignIns]

(* Every variable has its type. *)
HomesTypeOK ==
  /\ clock \in 0 .. MaxTime
  /\ auth \in [Homes -> Credentials]
  /\ window \in [Accounts -> [floats : BOOLEAN, ends : 0 .. MaxTime + Length]]
  /\ plan \in [Accounts -> Plans] /\ plans \in [Accounts -> SUBSET Plans]
  /\ upsets \in 0 .. MaxUpsets
  /\ talk # Silent => talk.home \in Homes
  /\ \A h \in Homes :
       /\ record[h].identity \in (Accounts \X Accounts) \cup {Nobody}
       /\ record[h].windows # None =>
            record[h].windows.anchor \in {"unconfirmed", "observed-active", "expired"}
       /\ record[h].receipt # None => record[h].receipt.digest \in Credentials
       /\ record[h].plan \in Plans \cup {"", "unknown"}
       /\ record[h].previousPlan \in Plans \cup {""}

(* A reading that speaks of one subscription. *)
OfOne(h) == record[h].identity # Nobody /\ record[h].identity[1] = record[h].identity[2]

(* Two readings that agree need not be of one window: somebody may sign in *)
(* between the answers of one conversation.  What is kept then moves by as *)
(* much as they may differ, and this often it does not come to as much as  *)
(* two readings are apart.                                                 *)
Steady == (MaxSignIns + 2) * Near < Confirm

(* A window said to have begun had begun when it was read, whoever signed  *)
(* in between the readings that say so: warming relies on it.              *)
AnchorTrue ==
  \A h \in Homes : OfOne(h) /\ record[h].windows.anchor = "observed-active"
                     => ~ record[h].windows.floated

(* A receipt names the one subscription that its bytes sign in: a session  *)
(* that connects takes the account from it without asking Codex again.     *)
ReceiptTrue ==
  \A h \in Homes : record[h].receipt # None =>
    LET r == record[h].receipt IN r.email = r.account /\ r.account = r.digest.who

(* A change of plan is only told of a subscription that had both plans:    *)
(* it is the evidence that a subscription has lapsed.                      *)
PlanChangeTrue ==
  \A h \in Homes : OfOne(h) /\ record[h].previousPlan # "" =>
    {record[h].previousPlan, record[h].plan} \subseteq plans[record[h].identity[2]]

(* codex_collect.rs: what is recorded of a home is true of the subscription *)
(* that is signed in to it: where its window is anchored, the receipt, and  *)
(* a change of its plan.                                                    *)
HomeRecordTrue == AnchorTrue /\ ReceiptTrue /\ PlanChangeTrue
=============================================================================
