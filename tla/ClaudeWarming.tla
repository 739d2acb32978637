--------------------------- MODULE ClaudeWarming ---------------------------
(***************************************************************************)
(* The requests a wake sends of its own accord: one that opens a cold      *)
(* account's five-hour window, and one that tests a sign-in which          *)
(* claude-swap has stopped testing (native/src/claude_tick.rs, warming.rs, *)
(* automation.rs).                                                         *)
(*                                                                         *)
(* Three files remember what was sent: the attempts of the day, the        *)
(* receipts of the warming requests, and the marks of when each account    *)
(* was last asked.  A wake holds tick.lock, so there is one at a time, but *)
(* it can die between any two of its writes, and another program may keep  *)
(* a file from being read for a moment.                                    *)
(***************************************************************************)
EXTENDS Integers

CONSTANTS Slots,         \* Claude accounts of the policy
          Identities,    \* subscriptions a slot can come to hold
          DayLength,     \* a UTC day
          WindowLength,  \* five hours
          Slack,         \* five minutes by which a window may seem longer
          Verification,  \* fifteen minutes
          Floor,         \* warmFloorMin
          Staleness,     \* staleQuarantineS
          DailyLimit,    \* automation.dailyAttemptLimit
          Fragile,       \* which files may be unreadable for a moment
          MaxSignIns,    \* bound: sign-ins a slot sees
          MaxTime        \* bound: where the clock stops

ASSUME ConstantsAssumption ==
  /\ {DayLength, WindowLength, Floor, Staleness, DailyLimit} \subseteq Nat \ {0}
  /\ {Slack, Verification, MaxSignIns, MaxTime} \subseteq Nat
  /\ Fragile \subseteq {"budget", "receipts", "marks", "credentials"}

SpentAfter == 2
NoTime == -1
NoSlot == "no slot"
Nobody == "nobody"

VARIABLES
  clock,     \* UTC
  signIn,    \* what each slot holds: a subscription, and its stored sign-in
  budget,    \* attempt-budget.json
  receipts,  \* warm-outcomes.json
  marks,     \* warm-state.json
  wake,      \* the wake that runs, and what it has in memory
  due,       \* history: until when a slot's last request speaks for it
  asked,     \* history: requests sent to a slot in the name of its last day
  warmedAt,  \* history: when a slot was last sent a warming request
  tests,     \* history: failed tests of the sign-in a slot holds now
  lost       \* history: slots whose last request may not have been marked

files == <<budget, receipts, marks>>
history == <<due, asked, warmedAt, tests, lost>>
vars == <<clock, signIn, files, wake, history>>

-----------------------------------------------------------------------------
(* What the files say *)

NoReceipt == [who |-> Nobody, outcome |-> "none", sent |-> NoTime, expires |-> NoTime]
NoReceipts == [s \in Slots |-> NoReceipt]

Requested(who, now) ==
  [who |-> who, outcome |-> "requested", sent |-> now, expires |-> now + WindowLength]

Over == {"failed", "account_changed", "expired"}

(* A receipt as the latest reading leaves it.  A window that is seen open, *)
(* and can be the one the request opened, lasts as long as the provider    *)
(* says.                                                                   *)
Updated(r, reading, now) ==
  IF r = NoReceipt \/ reading.state = "absent" THEN r
  ELSE IF r.who # reading.who THEN [r EXCEPT !.outcome = "account_changed"]
  ELSE IF r.outcome \in Over THEN r
  ELSE IF now >= r.expires THEN [r EXCEPT !.outcome = "expired"]
  ELSE IF /\ reading.state = "open"
          /\ reading.observed > r.sent
          /\ reading.reset > now
          /\ reading.reset <= r.sent + WindowLength + Slack
       THEN [r EXCEPT !.outcome = "observed-active", !.expires = reading.reset]
  ELSE IF r.outcome \in {"sent", "requested"} /\ now - r.sent >= Verification
       THEN [r EXCEPT !.outcome = "unconfirmed"]
  ELSE r

Pending(r, who, now) == r.who = who /\ r.outcome \notin Over /\ r.expires > now

Day(t) == t \div DayLength

NoCount == [s \in Slots |-> 0]
NoBudget == [day |-> 0, count |-> NoCount]

SpentToday(ledger, s, now) == IF ledger.day = Day(now) THEN ledger.count[s] ELSE 0

(* Slip: the counts of today start over. *)
AttemptAddedAfresh(ledger, s, now) ==
  [day |-> Day(now), count |-> [NoCount EXCEPT ![s] = 1]]

(* One more request counted: today's counts are kept, earlier days dropped. *)
AttemptAdded(ledger, s, now) ==
  [day   |-> Day(now),
   count |-> [t \in Slots |-> SpentToday(ledger, t, now) + (IF t = s THEN 1 ELSE 0)]]

NoDead == [mark |-> NoTime, fails |-> 0]
NoMarks == [warm  |-> [s \in Slots |-> NoTime],
            probe |-> [s \in Slots |-> NoTime],
            dead  |-> [s \in Slots |-> NoDead]]

Since(at, length, now) == at = NoTime \/ now - at >= length

(* Slip: a third test is needed. *)
SpentLater(m, s, stored) == m.dead[s].fails > SpentAfter /\ m.dead[s].mark = stored

(* A stored sign-in that failed its test twice, unchanged, is dead. *)
Spent(m, s, stored) == m.dead[s].fails >= SpentAfter /\ m.dead[s].mark = stored

(* Slip: only a request that worked is marked. *)
WarmMarkedIfSent(m, s, ok, now) == IF ok THEN [m EXCEPT !.warm[s] = now] ELSE m

(* Marked whether the request worked or not. *)
WarmMarked(m, s, ok, now) == [m EXCEPT !.warm[s] = now]

(* The count goes on only while the sign-in is the one that failed before, *)
(* and never for one that cannot be read.                                  *)
ProbeMarked(m, s, ok, stored, now) ==
  LET was == m.dead[s]
      dead == IF ok THEN NoDead
              ELSE IF stored = NoTime THEN was
              ELSE IF was.mark = stored THEN [was EXCEPT !.fails = @ + 1]
              ELSE [mark |-> stored, fails |-> 1]
  IN [m EXCEPT !.dead[s] = dead, !.probe[s] = now]

(* What a read may come to: the content, or nothing at all. *)
Read(file, content, nothing) ==
  {content} \cup (IF file \in Fragile THEN {nothing} ELSE {})

-----------------------------------------------------------------------------
(* A wake *)

Asleep == [at |-> "asleep", kind |-> "none", now |-> 0, slot |-> NoSlot, ok |-> FALSE,
           seen |-> [s \in Slots |-> [state |-> "absent", who |-> Nobody]],
           receipts |-> NoReceipts, marks |-> NoMarks]

(* What claude-swap may list of a slot: nothing usable, no window open, a  *)
(* window and its reset as read at some time, or a sign-in it no longer    *)
(* tests.                                                                  *)
Readings(s) ==
  LET of(state, observed, reset) ==
        [state |-> state, who |-> signIn[s].who, observed |-> observed, reset |-> reset]
  IN {of("absent", NoTime, NoTime), of("cold", NoTime, NoTime), of("stuck", NoTime, NoTime)}
     \cup {of("open", observed, reset) :
             observed \in {clock - 1, clock} \cap Nat,
             reset \in (clock + 1) .. (clock + WindowLength)}

Init ==
  /\ clock = 0
  /\ signIn \in [Slots -> [who : Identities, mark : {0}]]
  /\ budget = NoBudget
  /\ receipts = NoReceipts
  /\ marks = NoMarks
  /\ wake = Asleep
  /\ due = [s \in Slots |-> [who |-> Nobody, until |-> NoTime]]
  /\ asked = [s \in Slots |-> [day |-> 0, count |-> 0]]
  /\ warmedAt = [s \in Slots |-> NoTime]
  /\ tests = [s \in Slots |-> 0]
  /\ lost = {}

(* The request of a slot no longer speaks for it, or for as long as the    *)
(* window it opened.                                                       *)
DueAfter(s, old, new) ==
  IF new = old THEN due[s]
  ELSE IF new.outcome = "account_changed" THEN [due[s] EXCEPT !.until = NoTime]
  ELSE IF new.outcome = "observed-active" THEN [due[s] EXCEPT !.until = new.expires]
  ELSE due[s]

(* The wake reads its accounts and brings the receipts up to date.  With   *)
(* none to keep it writes nothing, so receipts it could not read survive.  *)
Observe ==
  /\ wake.at = "asleep"
  /\ \E seen \in [Slots -> UNION {Readings(s) : s \in Slots}],
        known \in Read("receipts", receipts, NoReceipts) :
       LET updated == [s \in Slots |-> Updated(known[s], seen[s], clock)] IN
       /\ \A s \in Slots : seen[s] \in Readings(s)
       /\ wake' = [Asleep EXCEPT
            !.at = "observed", !.receipts = updated,
            !.seen = [s \in Slots |-> [state |-> seen[s].state, who |-> seen[s].who]]]
       /\ receipts' = IF updated = NoReceipts THEN receipts ELSE updated
       /\ due' = [s \in Slots |-> DueAfter(s, known[s], updated[s])]
  /\ UNCHANGED <<clock, signIn, budget, marks, asked, warmedAt, tests, lost>>

(* Switching comes in between.  The marks are then read, and which stuck   *)
(* sign-ins are dead is settled by the sign-ins stored at that moment.     *)
ReadMarks ==
  /\ wake.at = "observed"
  /\ \E known \in Read("marks", marks, NoMarks),
        stored \in [Slots -> {NoTime} \cup 0 .. MaxSignIns] :
       /\ \A s \in Slots : stored[s] \in Read("credentials", signIn[s].mark, NoTime)
       /\ wake' = [wake EXCEPT
            !.at = "warm", !.now = clock, !.marks = known,
            !.seen = [s \in Slots |->
                        IF @[s].state = "stuck" /\ Spent(known, s, stored[s])
                        THEN [@[s] EXCEPT !.state = "dead"] ELSE @[s]]]
       /\ lost' = IF known # marks THEN Slots
                  ELSE lost \cup {s \in Slots : stored[s] = NoTime}
  /\ UNCHANGED <<clock, signIn, files, due, asked, warmedAt, tests>>

(* A day's attempts are not used up.  Pauses, work hours, exclusions, the  *)
(* turn of the account and the last look under action-control.lock may     *)
(* stop any request; see ControlGate.                                      *)
WithinBudget(s) == SpentToday(budget, s, wake.now) < DailyLimit

TakeUpWarm(s) ==
  /\ wake.at = "warm"
  /\ wake.seen[s].state = "cold"
  /\ Since(wake.marks.warm[s], Floor, wake.now)
  /\ WithinBudget(s)
  /\ ~ Pending(wake.receipts[s], wake.seen[s].who, wake.now)
  /\ wake' = [wake EXCEPT !.at = "attempt", !.kind = "warm", !.slot = s]
  /\ UNCHANGED <<clock, signIn, files, history>>

TakeUpProbe(s) ==
  /\ wake.at = "probe"
  /\ wake.seen[s].state = "stuck"
  /\ Since(wake.marks.probe[s], Staleness, wake.now)
  /\ WithinBudget(s)
  /\ wake' = [wake EXCEPT !.at = "attempt", !.kind = "probe", !.slot = s]
  /\ UNCHANGED <<clock, signIn, files, history>>

(* No account is left to ask. *)
PassOn ==
  /\ \/ wake.at = "warm" /\ wake' = [wake EXCEPT !.at = "probe"]
     \/ wake.at = "probe" /\ wake' = Asleep
  /\ UNCHANGED <<clock, signIn, files, history>>

(* The attempt is counted before anything is sent. *)
AddAttempt ==
  /\ wake.at = "attempt"
  /\ \E ledger \in Read("budget", budget, NoBudget) :
       budget' = AttemptAdded(ledger, wake.slot, wake.now)
  /\ wake' = [wake EXCEPT !.at = IF wake.kind = "warm" THEN "request" ELSE "send"]
  /\ UNCHANGED <<clock, signIn, receipts, marks, history>>

(* Slip: the receipt is kept in memory until the answer is known. *)
SaveRequestedLater ==
  /\ wake.at = "request"
  /\ LET kept == [wake.receipts EXCEPT
                    ![wake.slot] = Requested(wake.seen[wake.slot].who, wake.now)]
     IN wake' = [wake EXCEPT !.at = "send", !.receipts = kept]
  /\ UNCHANGED <<clock, signIn, files, history>>

(* The receipt is on disk before the request leaves. *)
SaveRequested ==
  /\ wake.at = "request"
  /\ LET kept == [wake.receipts EXCEPT
                    ![wake.slot] = Requested(wake.seen[wake.slot].who, wake.now)]
     IN /\ receipts' = kept
        /\ wake' = [wake EXCEPT !.at = "send", !.receipts = kept]
  /\ UNCHANGED <<clock, signIn, budget, marks, history>>

(* One whole run of the native program: it may take a minute and a half,   *)
(* and only its exit status is known of it.                                *)
Send ==
  LET s == wake.slot
      today == IF asked[s].day = Day(wake.now) THEN asked[s].count ELSE 0
  IN
  /\ wake.at = "send"
  /\ \E ok \in BOOLEAN :
       /\ wake' = [wake EXCEPT !.at = IF wake.kind = "warm" THEN "answer" ELSE "mark",
                               !.ok = ok]
       /\ tests' = IF wake.kind = "probe"
                   THEN [tests EXCEPT ![s] = IF ok THEN 0 ELSE @ + 1] ELSE tests
  /\ asked' = [asked EXCEPT ![s] = [day |-> Day(wake.now), count |-> today + 1]]
  /\ IF wake.kind = "warm"
     THEN /\ due' = [due EXCEPT ![s] = [who   |-> wake.seen[s].who,
                                        until |-> wake.receipts[s].expires]]
          /\ warmedAt' = [warmedAt EXCEPT ![s] = clock]
     ELSE UNCHANGED <<due, warmedAt>>
  /\ UNCHANGED <<clock, signIn, files, lost>>

(* A request that failed no longer stands in the way of another. *)
SaveAnswer ==
  LET s == wake.slot
      kept == [wake.receipts EXCEPT ![s].outcome = IF wake.ok THEN "sent" ELSE "failed"]
  IN
  /\ wake.at = "answer"
  /\ receipts' = kept
  /\ wake' = [wake EXCEPT !.at = "mark", !.receipts = kept]
  /\ due' = IF wake.ok THEN due ELSE [due EXCEPT ![s].until = NoTime]
  /\ UNCHANGED <<clock, signIn, budget, marks, asked, warmedAt, tests, lost>>

(* The marks are kept if they can be.  One account of a kind is asked in a *)
(* wake: the loop ends here.                                               *)
SaveMarks ==
  LET s == wake.slot IN
  /\ wake.at = "mark"
  /\ \E stored \in Read("credentials", signIn[s].mark, NoTime) :
       LET next == IF wake.kind = "warm" THEN WarmMarked(wake.marks, s, wake.ok, clock)
                   ELSE ProbeMarked(wake.marks, s, wake.ok, stored, clock)
       IN /\ wake' = IF wake.kind = "warm"
                     THEN [wake EXCEPT !.at = "probe", !.kind = "none", !.slot = NoSlot,
                                       !.ok = FALSE, !.marks = next]
                     ELSE Asleep
          /\ \/ /\ marks' = next
                /\ lost' = IF stored = NoTime THEN lost \cup {s} ELSE lost
             \/ marks' = marks /\ lost' = lost \cup {s}
  /\ UNCHANGED <<clock, signIn, budget, receipts, due, asked, warmedAt, tests>>

-----------------------------------------------------------------------------
(* The surroundings *)

(* A wake is killed, or one of its writes fails, which ends it. *)
Die ==
  /\ wake.at # "asleep"
  /\ wake' = Asleep
  /\ lost' = IF wake.at \in {"answer", "mark"} THEN lost \cup {wake.slot} ELSE lost
  /\ UNCHANGED <<clock, signIn, files, due, asked, warmedAt, tests>>

(* Someone signs in again: as the same subscription, or as another one. *)
SignIn(s) ==
  /\ signIn[s].mark < MaxSignIns
  /\ \E who \in Identities :
       signIn' = [signIn EXCEPT ![s] = [who |-> who, mark |-> @.mark + 1]]
  /\ tests' = [tests EXCEPT ![s] = 0]
  /\ UNCHANGED <<clock, files, wake, due, asked, warmedAt, lost>>

Tick ==
  /\ clock < MaxTime
  /\ clock' = clock + 1
  /\ UNCHANGED <<signIn, files, wake, history>>

Next ==
  \/ Observe
  \/ ReadMarks
  \/ \E s \in Slots : TakeUpWarm(s) \/ TakeUpProbe(s) \/ SignIn(s)
  \/ PassOn
  \/ AddAttempt
  \/ SaveRequested
  \/ Send
  \/ SaveAnswer
  \/ SaveMarks
  \/ Die
  \/ Tick

Spec == Init /\ [][Next]_vars

-----------------------------------------------------------------------------
(* Properties *)

Time == Nat \cup {NoTime}
Outcomes == {"none", "requested", "sent", "failed", "unconfirmed", "observed-active"} \cup Over
Receipt == [who : Identities \cup {Nobody}, outcome : Outcomes, sent : Time, expires : Time]
Marks == [warm : [Slots -> Time], probe : [Slots -> Time],
          dead : [Slots -> [mark : Time, fails : Nat]]]
Reading == [state : {"absent", "cold", "open", "stuck", "dead"},
            who : Identities \cup {Nobody}]
Wake == [at : {"asleep", "observed", "warm", "probe", "attempt", "request", "send", "answer", "mark"},
         kind : {"none", "warm", "probe"}, now : Nat, slot : Slots \cup {NoSlot},
         ok : BOOLEAN, seen : [Slots -> Reading], receipts : [Slots -> Receipt], marks : Marks]

(* Every variable has its type. *)
TypeOK ==
  /\ clock \in Nat
  /\ signIn \in [Slots -> [who : Identities, mark : Nat]]
  /\ budget \in [day : Nat, count : [Slots -> Nat]]
  /\ receipts \in [Slots -> Receipt]
  /\ marks \in Marks
  /\ wake \in Wake
  /\ due \in [Slots -> [who : Identities \cup {Nobody}, until : Time]]
  /\ asked \in [Slots -> [day : Nat, count : Nat]]
  /\ warmedAt \in [Slots -> Time]
  /\ tests \in [Slots -> Nat]
  /\ lost \subseteq Slots

Warming(s) == wake.at = "send" /\ wake.kind = "warm" /\ wake.slot = s

(* No account is sent a second request to open a window that its first one *)
(* may have opened, even if the wake died with the first one on its way    *)
(* (docs/operations.md: "Pending receipts suppress duplicate requests      *)
(* through their bounded five-hour expiry, including across crashes").     *)
DuplicatesSuppressed ==
  \A s \in Slots :
    Warming(s) => due[s].who # wake.seen[s].who \/ due[s].until <= clock

(* No account is sent more requests in the name of a UTC date than the     *)
(* policy allows, warming and tests together (docs/operations.md: "The     *)
(* daily limit counts actual dispatch attempts per provider and slot on    *)
(* the UTC date, including failures and recovery probes").                 *)
BudgetKept == \A s \in Slots : asked[s].count <= DailyLimit

(* A request that failed is not repeated at every wake: two requests to    *)
(* open a window of one account are the floor apart, unless the first      *)
(* could not be written down.                                              *)
FloorKept ==
  \A s \in Slots :
    Warming(s) /\ s \notin lost => Since(warmedAt[s], Floor, clock)

(* The requests an account is sent are few and far between.                *)
Sparing == BudgetKept /\ FloorKept

(* A stored sign-in that failed its test twice is left alone until it is   *)
(* another one, unless a test could not be written down.                   *)
DeadLeftAlone == \A s \in Slots \ lost : tests[s] <= SpentAfter
=============================================================================
