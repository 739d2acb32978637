------------------------ MODULE ClaudeWarmingProofs ------------------------
(***************************************************************************)
(* Proofs about the requests a wake sends of its own accord, for any set   *)
(* of accounts and subscriptions and any length of day, window and floor.  *)
(***************************************************************************)
EXTENDS ClaudeWarming, TLAPS

-----------------------------------------------------------------------------
(* Inductive invariants *)

Late == {"warm", "probe", "attempt", "request", "send", "answer", "mark"}
Asking == {"attempt", "request", "send", "answer", "mark"}

(* What the place of a wake says of the rest of it. *)
Placed ==
  /\ wake.at \in Late => wake.now <= clock
  /\ wake.at \in Asking => wake.slot \in Slots /\ wake.kind \in {"warm", "probe"}
  /\ wake.at \in {"request", "answer"} => wake.kind = "warm"

(* The ledger speaks for every request sent, and the one on its way. *)
BudgetInv ==
  /\ \A s \in Slots : asked[s].count <= DailyLimit
  /\ \A s \in Slots : asked[s].day <= budget.day
  /\ budget.day <= Day(clock)
  /\ wake.at \in Late => budget.day <= Day(wake.now)
  /\ \A s \in Slots : asked[s].day = budget.day => asked[s].count <= budget.count[s]
  /\ wake.at = "attempt" => SpentToday(budget, wake.slot, wake.now) < DailyLimit
  /\ wake.at \in {"request", "send"} =>
       /\ budget.day = Day(wake.now)
       /\ budget.count[wake.slot] \in 1 .. DailyLimit
       /\ asked[wake.slot].day = budget.day =>
            asked[wake.slot].count + 1 <= budget.count[wake.slot]

PendingWarm(s) ==
  wake.at \in {"answer", "mark"} /\ wake.kind = "warm" /\ wake.slot = s

(* The marks, on disk and in memory, are no older than the last request. *)
FloorInv ==
  /\ \A s \in Slots : warmedAt[s] <= clock
  /\ \A s \in Slots \ lost : ~ PendingWarm(s) => warmedAt[s] <= marks.warm[s]
  /\ wake.at \in Late =>
       \A s \in Slots \ lost : ~ PendingWarm(s) => warmedAt[s] <= wake.marks.warm[s]
  /\ wake.at \in {"attempt", "request", "send"} /\ wake.kind = "warm" =>
       Since(wake.marks.warm[wake.slot], Floor, wake.now)

(* A receipt lasts as long as the request it was written for. *)
ReceiptInv ==
  /\ \A s \in Slots : due[s].until > clock =>
       receipts[s].outcome \notin Over /\ due[s].until <= receipts[s].expires
  /\ wake.at # "asleep" => wake.receipts = receipts
  /\ wake.at \in {"observed", "warm"} =>
       \A s \in Slots : wake.seen[s].state = "cold" =>
         \/ receipts[s] = NoReceipt
         \/ receipts[s].who = wake.seen[s].who
         \/ receipts[s].outcome \in Over
  /\ wake.at \in {"attempt", "request", "send"} /\ wake.kind = "warm" =>
       due[wake.slot].until <= clock
  /\ wake.at = "send" /\ wake.kind = "warm" => receipts[wake.slot].outcome = "requested"

PendingProbe(s) == wake.at = "mark" /\ wake.kind = "probe" /\ wake.slot = s

(* The marks count every failed test of the sign-in a slot holds. *)
Counted(m, s) ==
  tests[s] = 0 \/ (m.dead[s].mark = signIn[s].mark /\ tests[s] <= m.dead[s].fails)

DeadInv ==
  /\ \A s \in Slots \ lost : tests[s] <= SpentAfter
  /\ \A s \in Slots \ lost : ~ PendingProbe(s) => Counted(marks, s)
  /\ wake.at \in Late => \A s \in Slots \ lost : ~ PendingProbe(s) =>
       /\ Counted(wake.marks, s)
       /\ wake.seen[s].state = "stuck" => tests[s] < SpentAfter
  /\ wake.at \in {"attempt", "send"} /\ wake.kind = "probe" =>
       wake.seen[wake.slot].state = "stuck"
  /\ \A s \in Slots \ lost : PendingProbe(s) =>
       /\ wake.ok => tests[s] = 0
       /\ \/ tests[s] <= 1
          \/ /\ wake.marks.dead[s].mark = signIn[s].mark
             /\ tests[s] <= wake.marks.dead[s].fails + 1
-----------------------------------------------------------------------------
(* The operators *)

(* Days are counted, and do not run backwards. *)
LEMMA Days ==
  /\ \A t \in Nat : Day(t) \in Nat
  /\ \A t, u \in Nat : t <= u => Day(t) <= Day(u)
  BY ConstantsAssumption DEF Day

(* A receipt brought up to date is a receipt. *)
LEMMA UpdatedType ==
  ASSUME NEW r \in Receipt, NEW reading, NEW now \in Nat,
         reading.state = "open" => reading.reset \in Nat
  PROVE  Updated(r, reading, now) \in Receipt
  BY DEF Updated, Receipt, Outcomes, Over, Time

(* What the budget file holds counts natural numbers. *)
LEMMA LedgerType ==
  ASSUME NEW ledger \in [day : Nat, count : [Slots -> Nat]],
         NEW s \in Slots, NEW now \in Nat
  PROVE  /\ SpentToday(ledger, s, now) \in Nat
         /\ AttemptAdded(ledger, s, now) \in [day : Nat, count : [Slots -> Nat]]
  BY Days DEF SpentToday, AttemptAdded

(* Marks stay marks. *)
LEMMA MarksType ==
  ASSUME NEW m \in Marks, NEW s \in Slots, NEW ok, NEW stored \in Time, NEW now \in Nat
  PROVE  /\ WarmMarked(m, s, ok, now) \in Marks
         /\ ProbeMarked(m, s, ok, stored, now) \in Marks
<1>1. WarmMarked(m, s, ok, now) \in Marks
  BY DEF WarmMarked, Marks, Time
<1>2. ProbeMarked(m, s, ok, stored, now) \in Marks
  <2> DEFINE was == m.dead[s]
             dead == IF ok THEN NoDead
                     ELSE IF stored = NoTime THEN was
                     ELSE IF was.mark = stored THEN [was EXCEPT !.fails = @ + 1]
                     ELSE [mark |-> stored, fails |-> 1]
  <2>1. was \in [mark : Time, fails : Nat]
    BY DEF Marks
  <2>2. dead \in [mark : Time, fails : Nat]
    BY <2>1 DEF NoDead, Time
  <2> HIDE DEF dead
  <2>3. [m EXCEPT !.dead[s] = dead, !.probe[s] = now] \in Marks
    BY <2>2 DEF Marks, Time
  <2> QED
    BY <2>3 DEF ProbeMarked, dead, was
<1> QED
  BY <1>1, <1>2

(* Nothing at all is a content every file can have. *)
LEMMA NothingType ==
  /\ NoReceipt \in Receipt
  /\ NoReceipts \in [Slots -> Receipt]
  /\ NoBudget \in [day : Nat, count : [Slots -> Nat]]
  /\ NoMarks \in Marks
  /\ Asleep \in Wake
<1>1. NoReceipt \in Receipt
  BY DEF NoReceipt, Receipt, Outcomes, Time
<1>2. NoReceipts \in [Slots -> Receipt]
  BY <1>1 DEF NoReceipts
<1>3. NoBudget \in [day : Nat, count : [Slots -> Nat]]
  BY DEF NoBudget, NoCount
<1>4. NoMarks \in Marks
  BY DEF NoMarks, Marks, NoDead, Time
<1>5. Asleep \in Wake
  BY <1>2, <1>4 DEF Asleep, Wake, Reading
<1> QED
  BY <1>1, <1>2, <1>3, <1>4, <1>5

-----------------------------------------------------------------------------
(* Types *)

LEMMA InitTypes == Init => TypeOK /\ Placed
<1>1. Init => wake.at = "asleep"
  BY DEF Init, Asleep
<1>2. Init => TypeOK
  BY NothingType DEF Init, TypeOK, Time
<1> QED
  BY <1>1, <1>2 DEF Placed, Late, Asking

LEMMA ObserveTypes ==
  ASSUME TypeOK, Observe
  PROVE  TypeOK'
<1>1. PICK seen \in [Slots -> UNION {Readings(s) : s \in Slots}],
           known \in Read("receipts", receipts, NoReceipts) :
        LET updated == [s \in Slots |-> Updated(known[s], seen[s], clock)] IN
        /\ \A s \in Slots : seen[s] \in Readings(s)
        /\ wake' = [Asleep EXCEPT
             !.at = "observed", !.receipts = updated,
             !.seen = [s \in Slots |-> [state |-> seen[s].state, who |-> seen[s].who]]]
        /\ receipts' = IF updated = NoReceipts THEN receipts ELSE updated
        /\ due' = [s \in Slots |-> DueAfter(s, known[s], updated[s])]
  BY DEF Observe
<1> DEFINE updated == [s \in Slots |-> Updated(known[s], seen[s], clock)]
           shown == [s \in Slots |-> [state |-> seen[s].state, who |-> seen[s].who]]
<1>2. known \in [Slots -> Receipt]
  BY NothingType DEF Read, TypeOK
<1>3. \A s \in Slots : /\ seen[s].state \in {"absent", "cold", "open", "stuck"}
                       /\ seen[s].who \in Identities
                       /\ seen[s].state = "open" => seen[s].reset \in Nat
  BY <1>1, ConstantsAssumption DEF Readings, TypeOK
<1>4. updated \in [Slots -> Receipt]
  BY <1>2, <1>3, UpdatedType DEF TypeOK
<1>5. shown \in [Slots -> Reading]
  BY <1>3 DEF Reading
<1>6. \A s \in Slots : DueAfter(s, known[s], updated[s]) \in
                         [who : Identities \cup {Nobody}, until : Time]
  <2> SUFFICES ASSUME NEW s \in Slots
               PROVE  DueAfter(s, known[s], updated[s]) \in
                        [who : Identities \cup {Nobody}, until : Time]
    OBVIOUS
  <2>1. updated[s].expires \in Time
    BY <1>4 DEF Receipt
  <2> HIDE DEF updated
  <2>2. due[s] \in [who : Identities \cup {Nobody}, until : Time]
    BY DEF TypeOK
  <2> QED
    BY <2>1, <2>2 DEF DueAfter, Time
<1> HIDE DEF updated, shown
<1>7. wake' = [Asleep EXCEPT !.at = "observed", !.receipts = updated, !.seen = shown]
  BY <1>1 DEF updated, shown
<1>8. wake' \in Wake
  BY <1>4, <1>5, <1>7, NothingType DEF Wake
<1>9. receipts' \in [Slots -> Receipt]
  BY <1>1, <1>4 DEF TypeOK, updated
<1>10. due' \in [Slots -> [who : Identities \cup {Nobody}, until : Time]]
  BY <1>1, <1>6 DEF updated
<1> QED
  BY <1>8, <1>9, <1>10 DEF TypeOK, Observe

LEMMA ReadMarksTypes ==
  ASSUME TypeOK, ReadMarks
  PROVE  TypeOK'
<1>1. PICK known \in Read("marks", marks, NoMarks),
           stored \in [Slots -> {NoTime} \cup 0 .. MaxSignIns] :
        /\ wake' = [wake EXCEPT
             !.at = "warm", !.now = clock, !.marks = known,
             !.seen = [s \in Slots |->
                         IF @[s].state = "stuck" /\ Spent(known, s, stored[s])
                         THEN [@[s] EXCEPT !.state = "dead"] ELSE @[s]]]
        /\ lost' = IF known # marks THEN Slots
                   ELSE lost \cup {s \in Slots : stored[s] = NoTime}
  BY DEF ReadMarks
<1> DEFINE shown == [s \in Slots |->
                       IF wake.seen[s].state = "stuck" /\ Spent(known, s, stored[s])
                       THEN [wake.seen[s] EXCEPT !.state = "dead"] ELSE wake.seen[s]]
<1>2. known \in Marks
  BY NothingType DEF Read, TypeOK
<1>3. wake.seen \in [Slots -> Reading]
  BY DEF TypeOK, Wake
<1>4. shown \in [Slots -> Reading]
  BY <1>3 DEF Reading
<1>5. wake' = [wake EXCEPT !.at = "warm", !.now = clock, !.marks = known, !.seen = shown]
  BY <1>1
<1> HIDE DEF shown
<1>6. wake' \in Wake
  BY <1>2, <1>4, <1>5 DEF TypeOK, Wake
<1>7. lost' \subseteq Slots
  BY <1>1 DEF TypeOK
<1> QED
  BY <1>6, <1>7 DEF TypeOK, ReadMarks, files

LEMMA TakeUpTypes ==
  ASSUME TypeOK, NEW s \in Slots, TakeUpWarm(s) \/ TakeUpProbe(s)
  PROVE  TypeOK'
<1>1. wake' \in Wake
  BY DEF TypeOK, TakeUpWarm, TakeUpProbe, Wake
<1> QED
  BY <1>1 DEF TypeOK, TakeUpWarm, TakeUpProbe, files, history

LEMMA PassOnTypes ==
  ASSUME TypeOK, PassOn
  PROVE  TypeOK'
<1>1. wake' \in Wake
  BY NothingType DEF TypeOK, PassOn, Wake
<1> QED
  BY <1>1 DEF TypeOK, PassOn, files, history

LEMMA AddAttemptTypes ==
  ASSUME TypeOK, Placed, AddAttempt
  PROVE  TypeOK'
<1>1. wake.slot \in Slots /\ wake.now \in Nat
  BY DEF TypeOK, Placed, AddAttempt, Asking, Wake
<1>2. PICK ledger \in Read("budget", budget, NoBudget) :
        budget' = AttemptAdded(ledger, wake.slot, wake.now)
  BY DEF AddAttempt
<1>3. ledger \in [day : Nat, count : [Slots -> Nat]]
  BY NothingType DEF Read, TypeOK
<1>4. budget' \in [day : Nat, count : [Slots -> Nat]]
  BY <1>1, <1>2, <1>3, LedgerType
<1>5. wake' \in Wake
  BY DEF TypeOK, AddAttempt, Wake
<1> QED
  BY <1>4, <1>5 DEF TypeOK, AddAttempt, history

(* The receipts in memory with that of a request. *)
LEMMA RequestedType ==
  ASSUME NEW known \in [Slots -> Receipt], NEW s \in Slots,
         NEW who \in Identities \cup {Nobody}, NEW now \in Nat
  PROVE  [known EXCEPT ![s] = Requested(who, now)] \in [Slots -> Receipt]
<1>1. Requested(who, now) \in Receipt
  BY ConstantsAssumption DEF Requested, Receipt, Outcomes, Time
<1> QED
  BY <1>1

LEMMA SaveRequestedTypes ==
  ASSUME TypeOK, Placed, SaveRequested
  PROVE  TypeOK'
<1> DEFINE kept == [wake.receipts EXCEPT
                      ![wake.slot] = Requested(wake.seen[wake.slot].who, wake.now)]
<1>1. wake.slot \in Slots /\ wake.now \in Nat /\ wake.receipts \in [Slots -> Receipt]
  BY DEF TypeOK, Placed, SaveRequested, Asking, Wake
<1>2. wake.seen[wake.slot].who \in Identities \cup {Nobody}
  BY <1>1 DEF TypeOK, Wake, Reading
<1>3. kept \in [Slots -> Receipt]
  BY <1>1, <1>2, RequestedType
<1> HIDE DEF kept
<1>4. receipts' = kept /\ wake' = [wake EXCEPT !.at = "send", !.receipts = kept]
  BY DEF SaveRequested, kept
<1>5. wake' \in Wake
  BY <1>3, <1>4 DEF TypeOK, Wake
<1> QED
  BY <1>3, <1>4, <1>5 DEF TypeOK, SaveRequested, history

LEMMA SendTypes ==
  ASSUME TypeOK, Placed, Send
  PROVE  TypeOK'
<1>1. wake.slot \in Slots /\ wake.now \in Nat /\ wake.receipts \in [Slots -> Receipt]
  BY DEF TypeOK, Placed, Send, Asking, Wake
<1>2. wake.seen[wake.slot].who \in Identities \cup {Nobody}
  BY <1>1 DEF TypeOK, Wake, Reading
<1>3. wake.receipts[wake.slot].expires \in Time
  BY <1>1 DEF Receipt
<1>4. wake' \in Wake
  BY DEF TypeOK, Send, Wake
<1>5. tests' \in [Slots -> Nat]
  BY <1>1 DEF TypeOK, Send
<1>6. asked' \in [Slots -> [day : Nat, count : Nat]]
  <2> DEFINE today == IF asked[wake.slot].day = Day(wake.now) THEN asked[wake.slot].count ELSE 0
  <2>1. today \in Nat /\ Day(wake.now) \in Nat
    BY <1>1, Days DEF TypeOK
  <2>2. asked' = [asked EXCEPT ![wake.slot] = [day |-> Day(wake.now), count |-> today + 1]]
    BY DEF Send
  <2> HIDE DEF today
  <2> QED
    BY <1>1, <2>1, <2>2 DEF TypeOK
<1>7. due' \in [Slots -> [who : Identities \cup {Nobody}, until : Time]]
  <2> DEFINE entry == [who |-> wake.seen[wake.slot].who,
                       until |-> wake.receipts[wake.slot].expires]
  <2>1. entry \in [who : Identities \cup {Nobody}, until : Time]
    BY <1>2, <1>3
  <2>2. due' = due \/ due' = [due EXCEPT ![wake.slot] = entry]
    BY DEF Send
  <2> HIDE DEF entry
  <2> QED
    BY <1>1, <2>1, <2>2 DEF TypeOK
<1>8. warmedAt' \in [Slots -> Time]
  BY <1>1 DEF TypeOK, Send, Time
<1> QED
  BY <1>4, <1>5, <1>6, <1>7, <1>8 DEF TypeOK, Send, files

LEMMA SaveAnswerTypes ==
  ASSUME TypeOK, Placed, SaveAnswer
  PROVE  TypeOK'
<1> DEFINE kept == [wake.receipts EXCEPT
                      ![wake.slot].outcome = IF wake.ok THEN "sent" ELSE "failed"]
<1>1. wake.slot \in Slots /\ wake.receipts \in [Slots -> Receipt]
  BY DEF TypeOK, Placed, SaveAnswer, Asking, Wake
<1>2. kept \in [Slots -> Receipt]
  BY <1>1 DEF Receipt, Outcomes, Over
<1> HIDE DEF kept
<1>3. receipts' = kept /\ wake' = [wake EXCEPT !.at = "mark", !.receipts = kept]
  BY DEF SaveAnswer, kept
<1>4. wake' \in Wake
  BY <1>2, <1>3 DEF TypeOK, Wake
<1>5. due' \in [Slots -> [who : Identities \cup {Nobody}, until : Time]]
  BY <1>1 DEF TypeOK, SaveAnswer, Time
<1> QED
  BY <1>2, <1>3, <1>4, <1>5 DEF TypeOK, SaveAnswer

LEMMA SaveMarksTypes ==
  ASSUME TypeOK, Placed, SaveMarks
  PROVE  TypeOK'
<1>1. wake.slot \in Slots /\ wake.marks \in Marks /\ clock \in Nat
  BY DEF TypeOK, Placed, SaveMarks, Asking, Wake
<1>2. PICK stored \in Read("credentials", signIn[wake.slot].mark, NoTime) :
        LET next == IF wake.kind = "warm"
                    THEN WarmMarked(wake.marks, wake.slot, wake.ok, clock)
                    ELSE ProbeMarked(wake.marks, wake.slot, wake.ok, stored, clock)
        IN /\ wake' = IF wake.kind = "warm"
                      THEN [wake EXCEPT !.at = "probe", !.kind = "none", !.slot = NoSlot,
                                        !.ok = FALSE, !.marks = next]
                      ELSE Asleep
           /\ \/ /\ marks' = next
                 /\ lost' = IF stored = NoTime THEN lost \cup {wake.slot} ELSE lost
              \/ marks' = marks /\ lost' = lost \cup {wake.slot}
  BY DEF SaveMarks
<1> DEFINE next == IF wake.kind = "warm"
                   THEN WarmMarked(wake.marks, wake.slot, wake.ok, clock)
                   ELSE ProbeMarked(wake.marks, wake.slot, wake.ok, stored, clock)
<1>3. stored \in Time
  BY <1>1 DEF Read, TypeOK, Time
<1>4. next \in Marks
  BY <1>1, <1>3, MarksType
<1> HIDE DEF next
<1>5. /\ wake' = IF wake.kind = "warm"
                 THEN [wake EXCEPT !.at = "probe", !.kind = "none", !.slot = NoSlot,
                                   !.ok = FALSE, !.marks = next]
                 ELSE Asleep
      /\ marks' \in {marks, next}
      /\ lost' \subseteq lost \cup {wake.slot}
  BY <1>2 DEF next
<1>6. wake' \in Wake
  BY <1>4, <1>5, NothingType DEF TypeOK, Wake
<1> QED
  BY <1>1, <1>4, <1>5, <1>6 DEF TypeOK, SaveMarks

LEMMA OutsideTypes ==
  ASSUME TypeOK, Placed, Die \/ Tick \/ \E s \in Slots : SignIn(s)
  PROVE  TypeOK'
<1>1. CASE Die
  <2>1. wake' \in Wake
    BY <1>1, NothingType DEF Die
  <2>2. lost' \subseteq Slots
    BY <1>1 DEF TypeOK, Placed, Asking, Die
  <2> QED
    BY <1>1, <2>1, <2>2 DEF TypeOK, Die, files
<1>2. CASE Tick
  BY <1>2 DEF TypeOK, Tick, files, history
<1>3. CASE \E s \in Slots : SignIn(s)
  BY <1>3 DEF TypeOK, SignIn, files
<1> QED
  BY <1>1, <1>2, <1>3

LEMMA NextTypes ==
  ASSUME TypeOK, Placed, [Next]_vars
  PROVE  TypeOK'
<1>1. CASE UNCHANGED vars
  BY <1>1 DEF TypeOK, vars, files, history
<1>2. CASE Next
  BY <1>2, ObserveTypes, ReadMarksTypes, TakeUpTypes, PassOnTypes, AddAttemptTypes,
     SaveRequestedTypes, SendTypes, SaveAnswerTypes, SaveMarksTypes, OutsideTypes
     DEF Next
<1> QED
  BY <1>1, <1>2

LEMMA NextPlaced ==
  ASSUME TypeOK, Placed, [Next]_vars
  PROVE  Placed'
<1> USE DEF Placed, Late, Asking
<1>1. CASE UNCHANGED vars
  BY <1>1 DEF vars
<1>2. CASE Observe
  BY <1>2 DEF Observe, Asleep
<1>3. CASE ReadMarks
  BY <1>3 DEF ReadMarks, TypeOK, Wake
<1>4. CASE \E s \in Slots : TakeUpWarm(s) \/ TakeUpProbe(s)
  BY <1>4 DEF TakeUpWarm, TakeUpProbe, TypeOK, Wake
<1>5. CASE \E s \in Slots : SignIn(s)
  BY <1>5 DEF SignIn
<1>6. CASE PassOn
  BY <1>6 DEF PassOn, Asleep, TypeOK, Wake
<1>7. CASE AddAttempt
  BY <1>7 DEF AddAttempt, TypeOK, Wake
<1>8. CASE SaveRequested
  BY <1>8 DEF SaveRequested, TypeOK, Wake
<1>9. CASE Send
  BY <1>9 DEF Send, TypeOK, Wake
<1>10. CASE SaveAnswer
  BY <1>10 DEF SaveAnswer, TypeOK, Wake
<1>11. CASE SaveMarks
  BY <1>11 DEF SaveMarks, Asleep, TypeOK, Wake
<1>12. CASE Die
  BY <1>12 DEF Die, Asleep
<1>13. CASE Tick
  BY <1>13 DEF Tick, TypeOK, Wake
<1> QED
  BY <1>1, <1>2, <1>3, <1>4, <1>5, <1>6, <1>7, <1>8, <1>9, <1>10, <1>11, <1>12, <1>13
     DEF Next

(* Every reachable state has its types. *)
THEOREM TypeCorrect == Spec => [](TypeOK /\ Placed)
<1>1. TypeOK /\ Placed /\ [Next]_vars => (TypeOK /\ Placed)'
  BY NextTypes, NextPlaced
<1> QED
  BY <1>1, InitTypes, PTL DEF Spec

-----------------------------------------------------------------------------
(* The attempts of a day *)

LEMMA InitBudget == Init => BudgetInv
<1> SUFFICES ASSUME Init PROVE BudgetInv
  OBVIOUS
<1>1. Day(0) \in Nat /\ DailyLimit \in Nat
  BY Days, ConstantsAssumption
<1>2. clock = 0 /\ budget = [day |-> 0, count |-> NoCount] /\ wake.at = "asleep"
  BY DEF Init, NoBudget, Asleep
<1>3. \A s \in Slots : asked[s].day = 0 /\ asked[s].count = 0
  BY DEF Init
<1> QED
  BY <1>1, <1>2, <1>3 DEF BudgetInv, Late, NoCount

(* Counting an attempt keeps the day's count of every account. *)
LEMMA AddAttemptBudget ==
  ASSUME TypeOK, Placed, BudgetInv, AddAttempt, "budget" \notin Fragile
  PROVE  BudgetInv'
<1> DEFINE today == Day(wake.now)
<1>1. /\ wake.slot \in Slots /\ wake.now \in Nat /\ wake.at = "attempt"
      /\ wake.now <= clock /\ clock \in Nat
  BY DEF TypeOK, Placed, AddAttempt, Asking, Late, Wake
<1>2. budget' = AttemptAdded(budget, wake.slot, wake.now)
  BY DEF AddAttempt, Read
<1>3. /\ today \in Nat /\ Day(clock) \in Nat /\ today <= Day(clock)
      /\ budget.day \in Nat /\ budget.day <= today
  BY <1>1, Days DEF TypeOK, BudgetInv, Late
<1>4. /\ budget'.day = today
      /\ \A s \in Slots : budget'.count[s] = SpentToday(budget, s, wake.now)
                                             + (IF s = wake.slot THEN 1 ELSE 0)
  BY <1>2 DEF AttemptAdded
<1>5. \A s \in Slots : SpentToday(budget, s, wake.now) \in Nat
  BY <1>1, LedgerType DEF TypeOK
<1>6. SpentToday(budget, wake.slot, wake.now) < DailyLimit /\ DailyLimit \in Nat
  BY <1>1, ConstantsAssumption DEF BudgetInv
<1>7. \A s \in Slots : /\ asked[s].day \in Nat /\ asked[s].count \in Nat
                       /\ asked[s].day <= budget.day
                       /\ asked[s].count <= DailyLimit
  BY DEF TypeOK, BudgetInv
<1>8. \A s \in Slots : asked[s].day = today =>
        asked[s].count <= SpentToday(budget, s, wake.now)
  BY <1>3, <1>7 DEF SpentToday, BudgetInv
<1>9. /\ asked' = asked /\ clock' = clock
      /\ wake'.at \in {"request", "send"} /\ wake'.now = wake.now /\ wake'.slot = wake.slot
  BY DEF AddAttempt, TypeOK, Wake, history
<1> HIDE DEF today
<1>10. /\ \A s \in Slots : asked'[s].count <= DailyLimit
       /\ \A s \in Slots : asked'[s].day <= budget'.day
       /\ budget'.day <= Day(clock)
  BY <1>3, <1>4, <1>7, <1>9
<1>11. \A s \in Slots : asked'[s].day = budget'.day => asked'[s].count <= budget'.count[s]
  BY <1>4, <1>5, <1>7, <1>8, <1>9
<1>12. /\ budget'.count[wake.slot] \in 1 .. DailyLimit
       /\ asked[wake.slot].day = today =>
            asked[wake.slot].count + 1 <= budget'.count[wake.slot]
  BY <1>1, <1>4, <1>5, <1>6, <1>7, <1>8
<1>13. Day(wake'.now) = today /\ Day(clock') = Day(clock)
  BY <1>9 DEF today
<1> QED
  BY <1>3, <1>4, <1>9, <1>10, <1>11, <1>12, <1>13 DEF BudgetInv

(* A request is sent on the strength of its own count. *)
LEMMA SendBudget ==
  ASSUME TypeOK, Placed, BudgetInv, Send
  PROVE  BudgetInv'
<1> DEFINE today == IF asked[wake.slot].day = Day(wake.now) THEN asked[wake.slot].count ELSE 0
<1>1. /\ wake.slot \in Slots /\ wake.now \in Nat /\ wake.at = "send"
  BY DEF TypeOK, Placed, Send, Asking, Wake
<1>2. /\ budget.day = Day(wake.now) /\ budget.day \in Nat
      /\ budget.count[wake.slot] \in 1 .. DailyLimit
      /\ asked[wake.slot].day = budget.day =>
           asked[wake.slot].count + 1 <= budget.count[wake.slot]
  BY <1>1 DEF BudgetInv, TypeOK
<1>3. today + 1 \in Nat /\ today + 1 <= budget.count[wake.slot]
  BY <1>1, <1>2 DEF TypeOK
<1>4. asked' = [asked EXCEPT ![wake.slot] = [day |-> Day(wake.now), count |-> today + 1]]
  BY DEF Send
<1>5. /\ budget' = budget /\ clock' = clock
      /\ wake'.at \in {"answer", "mark"} /\ wake'.now = wake.now /\ wake'.slot = wake.slot
  BY DEF Send, TypeOK, Wake, files
<1> HIDE DEF today
<1>6. /\ asked'[wake.slot].day = budget.day
      /\ asked'[wake.slot].count = today + 1
      /\ \A s \in Slots \ {wake.slot} : asked'[s] = asked[s]
  BY <1>1, <1>2, <1>4 DEF TypeOK
<1>7. \A s \in Slots : asked'[s].count <= DailyLimit
  BY <1>1, <1>2, <1>3, <1>6, ConstantsAssumption DEF BudgetInv
<1>8. \A s \in Slots : asked'[s].day <= budget'.day
  BY <1>1, <1>2, <1>5, <1>6 DEF BudgetInv
<1>9. \A s \in Slots : asked'[s].day = budget'.day => asked'[s].count <= budget'.count[s]
  BY <1>1, <1>2, <1>3, <1>5, <1>6 DEF BudgetInv
<1>10. budget'.day <= Day(clock') /\ budget'.day <= Day(wake'.now)
  BY <1>1, <1>2, <1>5 DEF BudgetInv, Late
<1> QED
  BY <1>5, <1>7, <1>8, <1>9, <1>10 DEF BudgetInv

(* The ledger's invariant is kept by every step. *)
LEMMA NextBudget ==
  ASSUME TypeOK, Placed, BudgetInv, [Next]_vars, "budget" \notin Fragile
  PROVE  BudgetInv'
<1>1. CASE UNCHANGED vars
  BY <1>1 DEF vars, files, history, BudgetInv, SpentToday, Day
<1>2. CASE Observe
  BY <1>2 DEF Observe, Asleep, BudgetInv, Late, Day
<1>3. CASE ReadMarks
  <2>1. /\ wake'.at = "warm" /\ wake'.now = clock
        /\ UNCHANGED <<clock, budget, asked>>
    BY <1>3 DEF ReadMarks, TypeOK, Wake, files
  <2> QED
    BY <2>1 DEF BudgetInv, Day
<1>4. ASSUME NEW s \in Slots, TakeUpWarm(s) \/ TakeUpProbe(s)
      PROVE  BudgetInv'
  <2>1. /\ wake.at \in Late /\ wake'.at = "attempt" /\ wake'.slot = s /\ wake'.now = wake.now
        /\ SpentToday(budget, s, wake.now) < DailyLimit
        /\ UNCHANGED <<clock, budget, asked>>
    BY <1>4 DEF TakeUpWarm, TakeUpProbe, WithinBudget, TypeOK, Wake, files, history, Late
  <2> QED
    BY <2>1 DEF BudgetInv, Day, SpentToday
<1>5. CASE \E s \in Slots : SignIn(s)
  BY <1>5 DEF SignIn, files, BudgetInv, Day, SpentToday
<1>6. CASE PassOn
  <2>1. /\ wake'.at \in {"probe", "asleep"} /\ UNCHANGED <<clock, budget, asked>>
        /\ wake'.at = "probe" => wake.at \in Late /\ wake'.now = wake.now
    BY <1>6 DEF PassOn, Asleep, TypeOK, Wake, files, history, Late
  <2> QED
    BY <2>1 DEF BudgetInv, Day, Late
<1>7. CASE AddAttempt
  BY <1>7, AddAttemptBudget
<1>8. CASE SaveRequested
  <2>1. /\ wake.at = "request" /\ wake'.at = "send" /\ UNCHANGED <<clock, budget, asked>>
        /\ wake'.now = wake.now /\ wake'.slot = wake.slot
    BY <1>8 DEF SaveRequested, TypeOK, Wake, history
  <2> QED
    BY <2>1 DEF BudgetInv, Day, Late
<1>9. CASE Send
  BY <1>9, SendBudget
<1>10. CASE SaveAnswer
  <2>1. /\ wake.at = "answer" /\ wake'.at = "mark" /\ UNCHANGED <<clock, budget, asked>>
        /\ wake'.now = wake.now
    BY <1>10 DEF SaveAnswer, TypeOK, Wake
  <2> QED
    BY <2>1 DEF BudgetInv, Day, Late
<1>11. CASE SaveMarks
  <2>1. /\ wake.at = "mark" /\ wake'.at \in {"probe", "asleep"}
        /\ UNCHANGED <<clock, budget, asked>>
        /\ wake'.at = "probe" => wake'.now = wake.now
    BY <1>11 DEF SaveMarks, Asleep, TypeOK, Wake
  <2> QED
    BY <2>1 DEF BudgetInv, Day, Late
<1>12. CASE Die
  BY <1>12 DEF Die, Asleep, files, BudgetInv, Day, Late
<1>13. CASE Tick
  <2>1. Day(clock) \in Nat /\ Day(clock') \in Nat /\ Day(clock) <= Day(clock')
    BY <1>13, Days DEF Tick, TypeOK
  <2>2. UNCHANGED <<wake, budget, asked>> /\ budget.day \in Nat
    BY <1>13 DEF Tick, files, history, TypeOK
  <2> QED
    BY <2>1, <2>2 DEF BudgetInv, SpentToday, Day
<1> QED
  BY <1>1, <1>2, <1>3, <1>4, <1>5, <1>6, <1>7, <1>8, <1>9, <1>10, <1>11, <1>12, <1>13
     DEF Next

-----------------------------------------------------------------------------
(* The floor between two requests *)

LEMMA InitFloor == Init => FloorInv
  BY DEF Init, FloorInv, Asleep, NoMarks, NoTime, Late

(* What every step does to the floor's part of the state, unless it sends  *)
(* a request, reads the marks or keeps them.                               *)
LEMMA FloorFrame ==
  ASSUME TypeOK, Placed, FloorInv,
         UNCHANGED <<warmedAt, marks, lost>>, clock' >= clock, clock' \in Nat,
         \/ wake'.at \in {"asleep", "observed"} /\ wake.at \notin {"answer", "mark"}
         \/ /\ wake.at \in Late /\ wake'.at \in Late
            /\ wake'.marks = wake.marks /\ wake'.now = wake.now
            /\ \A s \in Slots : PendingWarm(s) => PendingWarm(s)'
            /\ wake'.at \in {"attempt", "request", "send"} /\ wake'.kind = "warm" =>
                 Since(wake.marks.warm[wake'.slot], Floor, wake.now)
  PROVE  FloorInv'
<1>1. \A s \in Slots : warmedAt[s] <= clock'
  BY DEF FloorInv, TypeOK, Time, NoTime
<1>2. CASE wake'.at \in {"asleep", "observed"} /\ wake.at \notin {"answer", "mark"}
  BY <1>1, <1>2 DEF FloorInv, PendingWarm, Late
<1>3. CASE /\ wake.at \in Late /\ wake'.at \in Late
           /\ wake'.marks = wake.marks /\ wake'.now = wake.now
           /\ \A s \in Slots : PendingWarm(s) => PendingWarm(s)'
           /\ wake'.at \in {"attempt", "request", "send"} /\ wake'.kind = "warm" =>
                Since(wake.marks.warm[wake'.slot], Floor, wake.now)
  <2>1. \A s \in Slots \ lost : ~ PendingWarm(s)' =>
          warmedAt[s] <= marks.warm[s] /\ warmedAt[s] <= wake.marks.warm[s]
    BY <1>3 DEF FloorInv
  <2> QED
    BY <1>1, <1>3, <2>1 DEF FloorInv, Since
<1> QED
  BY <1>2, <1>3

(* Marks that are read with nothing lost are the marks on disk. *)
LEMMA ReadMarksFloor ==
  ASSUME TypeOK, FloorInv, ReadMarks
  PROVE  FloorInv'
<1>1. /\ wake.at = "observed" /\ wake'.at = "warm"
      /\ UNCHANGED <<warmedAt, marks, clock>>
  BY DEF ReadMarks, TypeOK, Wake, files
<1>2. lost' = Slots \/ (wake'.marks = marks /\ lost \subseteq lost')
  BY DEF ReadMarks, TypeOK, Wake
<1>3. \A s \in Slots \ lost : warmedAt[s] <= marks.warm[s]
  BY <1>1 DEF FloorInv, PendingWarm
<1> QED
  BY <1>1, <1>2, <1>3 DEF FloorInv

(* A request is remembered by no mark until it is marked. *)
LEMMA SendFloor ==
  ASSUME TypeOK, Placed, FloorInv, Send
  PROVE  FloorInv'
<1>1. /\ wake.at = "send" /\ wake.slot \in Slots /\ wake.kind \in {"warm", "probe"}
      /\ wake'.at = (IF wake.kind = "warm" THEN "answer" ELSE "mark")
      /\ wake'.kind = wake.kind /\ wake'.slot = wake.slot /\ wake'.marks = wake.marks
      /\ UNCHANGED <<marks, lost, clock>> /\ clock \in Nat
  BY DEF Placed, Asking, Send, TypeOK, Wake, files
<1>2. \A s \in Slots : warmedAt'[s] = IF wake.kind = "warm" /\ s = wake.slot
                                      THEN clock ELSE warmedAt[s]
  BY <1>1 DEF Send, TypeOK
<1>3. \A s \in Slots \ lost : warmedAt[s] <= marks.warm[s] /\ warmedAt[s] <= wake.marks.warm[s]
  BY <1>1 DEF FloorInv, PendingWarm, Late
<1>4. \A s \in Slots : warmedAt[s] <= clock
  BY DEF FloorInv
<1> QED
  BY <1>1, <1>2, <1>3, <1>4 DEF FloorInv, PendingWarm

(* A request is marked no earlier than it was sent. *)
LEMMA SaveMarksFloor ==
  ASSUME TypeOK, Placed, FloorInv, SaveMarks
  PROVE  FloorInv'
<1>1. /\ wake.at = "mark" /\ wake.slot \in Slots /\ wake.kind \in {"warm", "probe"}
      /\ UNCHANGED <<warmedAt, clock>> /\ wake.marks \in Marks
      /\ \A s \in Slots : warmedAt[s] <= clock
  BY DEF Placed, Asking, SaveMarks, TypeOK, Wake, FloorInv
<1>2. \A s \in Slots \ lost : (wake.kind = "warm" => s # wake.slot) =>
        warmedAt[s] <= marks.warm[s] /\ warmedAt[s] <= wake.marks.warm[s]
  BY <1>1 DEF FloorInv, PendingWarm, Late
<1>3. CASE wake.kind = "warm"
  <2> DEFINE next == WarmMarked(wake.marks, wake.slot, wake.ok, clock)
  <2>1. /\ wake'.at = "probe" /\ wake'.kind = "none" /\ wake'.marks = next
        /\ \/ marks' = next /\ lost \subseteq lost'
           \/ marks' = marks /\ lost' = lost \cup {wake.slot}
    BY <1>3 DEF SaveMarks, TypeOK, Wake
  <2>2. next.warm = [wake.marks.warm EXCEPT ![wake.slot] = clock]
    BY <1>1 DEF WarmMarked, Marks
  <2>3. \A s \in Slots \ lost : warmedAt[s] <= next.warm[s]
    BY <1>1, <1>2, <2>2 DEF Marks
  <2> HIDE DEF next
  <2>4. \A s \in Slots \ lost' : warmedAt[s] <= marks'.warm[s]
    BY <1>2, <2>1, <2>3
  <2> QED
    BY <1>1, <2>1, <2>3, <2>4 DEF FloorInv
<1>4. CASE wake.kind = "probe"
  <2>1. PICK stored : \/ /\ marks' = ProbeMarked(wake.marks, wake.slot, wake.ok, stored, clock)
                         /\ lost \subseteq lost'
                      \/ marks' = marks /\ lost' = lost \cup {wake.slot}
    BY <1>4 DEF SaveMarks
  <2>2. ProbeMarked(wake.marks, wake.slot, wake.ok, stored, clock).warm = wake.marks.warm
    BY <1>1 DEF ProbeMarked, Marks
  <2>3. \A s \in Slots \ lost' : warmedAt[s] <= marks'.warm[s]
    BY <1>2, <1>4, <2>1, <2>2
  <2>4. wake'.at = "asleep"
    BY <1>4 DEF SaveMarks, Asleep
  <2> QED
    BY <1>1, <2>3, <2>4 DEF FloorInv, Late
<1> QED
  BY <1>1, <1>3, <1>4

(* The marks' part for the floor is kept by every step. *)
LEMMA NextFloor ==
  ASSUME TypeOK, Placed, FloorInv, [Next]_vars
  PROVE  FloorInv'
<1>0. clock \in Nat
  BY DEF TypeOK
<1>1. CASE UNCHANGED vars
  BY <1>1 DEF vars, files, history, FloorInv, PendingWarm, Since
<1>2. CASE Observe
  <2>1. /\ wake.at = "asleep" /\ wake'.at = "observed"
        /\ UNCHANGED <<warmedAt, marks, lost, clock>>
    BY <1>2 DEF Observe, Asleep
  <2> QED
    BY <1>0, <2>1, FloorFrame
<1>3. CASE ReadMarks
  BY <1>3, ReadMarksFloor
<1>4. ASSUME NEW s \in Slots, TakeUpWarm(s) \/ TakeUpProbe(s)
      PROVE  FloorInv'
  <2>1. /\ wake.at \in {"warm", "probe"} /\ wake'.at = "attempt" /\ wake'.slot = s
        /\ wake'.now = wake.now /\ wake'.marks = wake.marks
        /\ wake'.kind = "warm" => Since(wake.marks.warm[s], Floor, wake.now)
        /\ UNCHANGED <<warmedAt, marks, lost, clock>>
    BY <1>4 DEF TakeUpWarm, TakeUpProbe, TypeOK, Wake, files, history
  <2> QED
    BY <1>0, <2>1, FloorFrame DEF Late, PendingWarm
<1>5. CASE \E s \in Slots : SignIn(s)
  BY <1>5 DEF SignIn, files, FloorInv, PendingWarm, Since
<1>6. CASE PassOn
  <2>1. /\ wake.at \in {"warm", "probe"} /\ UNCHANGED <<warmedAt, marks, lost, clock>>
        /\ \/ wake'.at = "asleep"
           \/ wake'.at = "probe" /\ wake'.now = wake.now /\ wake'.marks = wake.marks
    BY <1>6 DEF PassOn, Asleep, TypeOK, Wake, files, history
  <2> QED
    BY <1>0, <2>1, FloorFrame DEF Late, PendingWarm
<1>7. CASE AddAttempt \/ SaveRequested \/ SaveAnswer
  <2>1. /\ wake.at \in {"attempt", "request", "answer"}
        /\ wake'.at \in {"request", "send", "mark"} /\ (wake.at = "answer" <=> wake'.at = "mark")
        /\ wake'.kind = wake.kind /\ wake'.slot = wake.slot
        /\ wake'.now = wake.now /\ wake'.marks = wake.marks
        /\ UNCHANGED <<warmedAt, marks, lost, clock>>
    BY <1>7 DEF AddAttempt, SaveRequested, SaveAnswer, TypeOK, Wake, history
  <2>2. wake'.at \in {"attempt", "request", "send"} /\ wake'.kind = "warm" =>
          Since(wake.marks.warm[wake'.slot], Floor, wake.now)
    BY <2>1 DEF FloorInv
  <2> QED
    BY <1>0, <2>1, <2>2, FloorFrame DEF Late, PendingWarm
<1>8. CASE Send
  BY <1>8, SendFloor
<1>9. CASE SaveMarks
  BY <1>9, SaveMarksFloor
<1>10. CASE Die
  <2>1. /\ wake'.at = "asleep" /\ UNCHANGED <<warmedAt, marks, clock>>
        /\ lost' = IF wake.at \in {"answer", "mark"} THEN lost \cup {wake.slot} ELSE lost
    BY <1>10 DEF Die, Asleep, files
  <2> QED
    BY <2>1 DEF FloorInv, PendingWarm, Late
<1>11. CASE Tick
  <2>1. clock' = clock + 1 /\ UNCHANGED <<wake, warmedAt, marks, lost>>
    BY <1>11 DEF Tick, files, history
  <2>2. \A s \in Slots : warmedAt[s] <= clock'
    BY <1>0, <2>1 DEF FloorInv, TypeOK, Time, NoTime
  <2> QED
    BY <2>1, <2>2 DEF FloorInv, PendingWarm, Since
<1> QED
  BY <1>1, <1>2, <1>3, <1>4, <1>5, <1>6, <1>7, <1>8, <1>9, <1>10, <1>11 DEF Next

(* No account is sent more requests of a UTC date than the policy allows,  *)
(* and two that open a window of one account are the floor apart, unless   *)
(* the first could not be written down.  The file of the attempts has to   *)
(* be readable: one that is not reads as no attempts at all                *)
(* (automation.rs).                                                        *)
THEOREM RequestsSpared ==
  ASSUME "budget" \notin Fragile
  PROVE  Spec => []Sparing
<1>1. Init => TypeOK /\ Placed /\ BudgetInv /\ FloorInv
  BY InitTypes, InitBudget, InitFloor
<1>2. TypeOK /\ Placed /\ BudgetInv /\ FloorInv /\ [Next]_vars
        => (TypeOK /\ Placed /\ BudgetInv /\ FloorInv)'
  BY NextTypes, NextPlaced, NextBudget, NextFloor
<1>3. TypeOK /\ Placed /\ BudgetInv /\ FloorInv => Sparing
  <2> SUFFICES ASSUME TypeOK, Placed, BudgetInv, FloorInv PROVE Sparing
    OBVIOUS
  <2>1. BudgetKept
    BY DEF BudgetInv, BudgetKept
  <2>2. FloorKept
    <3> SUFFICES ASSUME NEW s \in Slots, Warming(s), s \notin lost
                 PROVE  Since(warmedAt[s], Floor, clock)
      BY DEF FloorKept
    <3>1. /\ warmedAt[s] <= wake.marks.warm[s]
          /\ Since(wake.marks.warm[s], Floor, wake.now)
          /\ wake.now <= clock
      BY DEF Warming, FloorInv, PendingWarm, Placed, Late
    <3>2. /\ warmedAt[s] \in Time /\ wake.marks.warm[s] \in Time
          /\ wake.now \in Nat /\ clock \in Nat /\ Floor \in Nat
      BY ConstantsAssumption DEF TypeOK, Wake, Marks
    <3> QED
      BY <3>1, <3>2 DEF Since, Time, NoTime
  <2> QED
    BY <2>1, <2>2 DEF Sparing
<1> QED
  BY <1>1, <1>2, <1>3, PTL DEF Spec

-----------------------------------------------------------------------------
(* The receipts *)

LEMMA InitReceipts == Init => ReceiptInv
  BY DEF Init, ReceiptInv, Asleep, NoTime

(* A receipt brought up to date still speaks for its request; it is of the *)
(* subscription that was read, or over.                                    *)
LEMMA UpdatedReceipt ==
  ASSUME TypeOK, NEW s \in Slots, NEW r \in Receipt, NEW reading,
         reading.state = "open" => reading.reset \in Nat,
         due[s].until > clock => r.outcome \notin Over /\ due[s].until <= r.expires
  PROVE  LET new == Updated(r, reading, clock) IN
         /\ DueAfter(s, r, new).until > clock =>
              new.outcome \notin Over /\ DueAfter(s, r, new).until <= new.expires
         /\ new = NoReceipt => r = NoReceipt
         /\ reading.state = "cold" =>
              \/ new = NoReceipt
              \/ new.who = reading.who
              \/ new.outcome \in Over
<1> DEFINE new == Updated(r, reading, clock)
<1>1. /\ clock \in Nat /\ due[s] \in [who : Identities \cup {Nobody}, until : Time]
      /\ new \in Receipt
  BY UpdatedType DEF TypeOK
<1>2. \/ new = r
      \/ new # r /\ new.outcome = "account_changed"
      \/ new # r /\ new.outcome = "expired" /\ r.expires <= clock
      \/ new # r /\ new.outcome = "observed-active"
      \/ new # r /\ new.outcome = "unconfirmed" /\ new.expires = r.expires
  BY <1>1 DEF Updated, Receipt, Outcomes, Over, Time, NoTime
<1>3. /\ DueAfter(s, r, new).until > clock =>
           new.outcome \notin Over /\ DueAfter(s, r, new).until <= new.expires
  <2> HIDE DEF new
  <2>1. CASE new = r
    BY <2>1 DEF DueAfter
  <2>2. CASE new # r /\ new.outcome = "account_changed"
    BY <1>1, <2>2 DEF DueAfter, NoTime
  <2>3. CASE new # r /\ new.outcome = "expired" /\ r.expires <= clock
    BY <1>1, <2>3 DEF DueAfter, Receipt, Time, NoTime
  <2>4. CASE new # r /\ new.outcome = "observed-active"
    BY <1>1, <2>4 DEF DueAfter, Receipt, Time, NoTime, Over
  <2>5. CASE new # r /\ new.outcome = "unconfirmed" /\ new.expires = r.expires
    BY <1>1, <2>5 DEF DueAfter, Over
  <2> QED
    BY <1>2, <2>1, <2>2, <2>3, <2>4, <2>5
<1>4. new = NoReceipt => r = NoReceipt
  BY <1>2 DEF NoReceipt
<1>5. reading.state = "cold" =>
        new = NoReceipt \/ new.who = reading.who \/ new.outcome \in Over
  BY <1>1 DEF Updated, Receipt, Over, Time
<1> QED
  BY <1>3, <1>4, <1>5

LEMMA ObserveReceipts ==
  ASSUME TypeOK, ReceiptInv, Observe, "receipts" \notin Fragile
  PROVE  ReceiptInv'
<1>1. PICK seen \in [Slots -> UNION {Readings(s) : s \in Slots}] :
        LET updated == [s \in Slots |-> Updated(receipts[s], seen[s], clock)] IN
        /\ \A s \in Slots : seen[s] \in Readings(s)
        /\ wake' = [Asleep EXCEPT
             !.at = "observed", !.receipts = updated,
             !.seen = [s \in Slots |-> [state |-> seen[s].state, who |-> seen[s].who]]]
        /\ receipts' = IF updated = NoReceipts THEN receipts ELSE updated
        /\ due' = [s \in Slots |-> DueAfter(s, receipts[s], updated[s])]
  BY DEF Observe, Read
<1> DEFINE updated == [s \in Slots |-> Updated(receipts[s], seen[s], clock)]
<1>2. \A s \in Slots : seen[s].state = "open" => seen[s].reset \in Nat
  <2>1. \A s \in Slots : seen[s] \in Readings(s)
    BY <1>1
  <2>2. clock \in Nat /\ WindowLength \in Nat
    BY ConstantsAssumption DEF TypeOK
  <2> QED
    BY <2>1, <2>2 DEF Readings
<1>3. \A s \in Slots :
        /\ DueAfter(s, receipts[s], updated[s]).until > clock =>
             /\ updated[s].outcome \notin Over
             /\ DueAfter(s, receipts[s], updated[s]).until <= updated[s].expires
        /\ updated[s] = NoReceipt => receipts[s] = NoReceipt
        /\ seen[s].state = "cold" =>
             \/ updated[s] = NoReceipt
             \/ updated[s].who = seen[s].who
             \/ updated[s].outcome \in Over
  <2> SUFFICES ASSUME NEW s \in Slots
               PROVE
        /\ DueAfter(s, receipts[s], updated[s]).until > clock =>
             /\ updated[s].outcome \notin Over
             /\ DueAfter(s, receipts[s], updated[s]).until <= updated[s].expires
        /\ updated[s] = NoReceipt => receipts[s] = NoReceipt
        /\ seen[s].state = "cold" =>
             \/ updated[s] = NoReceipt
             \/ updated[s].who = seen[s].who
             \/ updated[s].outcome \in Over
    OBVIOUS
  <2>1. receipts[s] \in Receipt
    BY DEF TypeOK
  <2>2. due[s].until > clock =>
          receipts[s].outcome \notin Over /\ due[s].until <= receipts[s].expires
    BY DEF ReceiptInv
  <2>3. updated[s] = Updated(receipts[s], seen[s], clock)
    OBVIOUS
  <2> HIDE DEF updated
  <2> QED
    BY <1>2, <2>1, <2>2, <2>3, UpdatedReceipt
<1>4. updated = NoReceipts => receipts = NoReceipts
  <2> SUFFICES ASSUME updated = NoReceipts PROVE receipts = NoReceipts
    OBVIOUS
  <2>1. \A s \in Slots : updated[s] = NoReceipt
    BY DEF NoReceipts
  <2> HIDE DEF updated
  <2>2. \A s \in Slots : receipts[s] = NoReceipt
    BY <1>3, <2>1
  <2> QED
    BY <2>2 DEF TypeOK, NoReceipts
<1>5. /\ receipts' = updated /\ clock' = clock
      /\ wake'.at = "observed" /\ wake'.receipts = updated
      /\ \A s \in Slots : /\ wake'.seen[s].state = seen[s].state
                          /\ wake'.seen[s].who = seen[s].who
                          /\ due'[s] = DueAfter(s, receipts[s], updated[s])
  BY <1>1, <1>4 DEF Asleep, Observe
<1> HIDE DEF updated
<1> QED
  BY <1>3, <1>5 DEF ReceiptInv

(* The receipt of a request is written before the request leaves. *)
LEMMA SaveRequestedReceipts ==
  ASSUME TypeOK, Placed, ReceiptInv, SaveRequested
  PROVE  ReceiptInv'
<1>1. /\ wake.at = "request" /\ wake.kind = "warm" /\ wake.slot \in Slots
      /\ wake'.at = "send" /\ wake'.kind = wake.kind /\ wake'.slot = wake.slot
      /\ wake'.receipts = receipts' /\ UNCHANGED <<clock, due>>
  BY DEF SaveRequested, Placed, Asking, TypeOK, Wake, history
<1>2. receipts' = [receipts EXCEPT
                     ![wake.slot] = Requested(wake.seen[wake.slot].who, wake.now)]
  BY <1>1 DEF SaveRequested, ReceiptInv
<1>3. /\ receipts'[wake.slot].outcome = "requested"
      /\ \A s \in Slots \ {wake.slot} : receipts'[s] = receipts[s]
  BY <1>1, <1>2 DEF TypeOK, Requested
<1>4. ~ (due[wake.slot].until > clock)
  <2>1. due[wake.slot].until <= clock
    BY <1>1 DEF ReceiptInv
  <2>2. due[wake.slot].until \in Int /\ clock \in Int
    BY <1>1 DEF TypeOK, Time, NoTime
  <2> QED
    BY <2>1, <2>2
<1> QED
  BY <1>1, <1>3, <1>4 DEF ReceiptInv

(* The request sent is due for as long as its receipt. *)
LEMMA SendReceipts ==
  ASSUME TypeOK, Placed, ReceiptInv, Send
  PROVE  ReceiptInv'
<1>1. /\ wake.at = "send" /\ wake.slot \in Slots /\ wake.kind \in {"warm", "probe"}
      /\ wake'.at \in {"answer", "mark"} /\ wake'.receipts = wake.receipts
      /\ wake.receipts = receipts /\ UNCHANGED <<clock, receipts>>
  BY DEF Send, Placed, Asking, TypeOK, Wake, ReceiptInv, files
<1>2. CASE wake.kind = "warm"
  <2>1. /\ receipts[wake.slot].outcome \notin Over
        /\ receipts[wake.slot].expires \in Time
    BY <1>1, <1>2 DEF ReceiptInv, Over, TypeOK, Receipt
  <2>2. due' = [due EXCEPT ![wake.slot] = [who   |-> wake.seen[wake.slot].who,
                                           until |-> receipts[wake.slot].expires]]
    BY <1>1, <1>2 DEF Send
  <2>3. /\ due'[wake.slot].until = receipts[wake.slot].expires
        /\ \A s \in Slots \ {wake.slot} : due'[s] = due[s]
    BY <1>1, <2>2 DEF TypeOK
  <2>4. \A s \in Slots : due'[s].until > clock =>
          receipts[s].outcome \notin Over /\ due'[s].until <= receipts[s].expires
    BY <2>1, <2>3 DEF ReceiptInv, Time, NoTime
  <2> QED
    BY <1>1, <2>4 DEF ReceiptInv
<1>3. CASE wake.kind = "probe"
  BY <1>1, <1>3 DEF Send, ReceiptInv
<1> QED
  BY <1>1, <1>2, <1>3

(* A request that failed is due no longer. *)
LEMMA SaveAnswerReceipts ==
  ASSUME TypeOK, Placed, ReceiptInv, SaveAnswer
  PROVE  ReceiptInv'
<1>1. /\ wake.at = "answer" /\ wake.slot \in Slots /\ wake.receipts = receipts
      /\ wake'.at = "mark" /\ wake'.receipts = receipts' /\ clock' = clock /\ clock \in Nat
  BY DEF SaveAnswer, Placed, Asking, TypeOK, Wake, ReceiptInv
<1>2. receipts' = [receipts EXCEPT
                     ![wake.slot].outcome = IF wake.ok THEN "sent" ELSE "failed"]
  BY <1>1 DEF SaveAnswer
<1>3. /\ receipts'[wake.slot].outcome = (IF wake.ok THEN "sent" ELSE "failed")
      /\ receipts'[wake.slot].expires = receipts[wake.slot].expires
      /\ \A s \in Slots \ {wake.slot} : receipts'[s] = receipts[s]
  BY <1>1, <1>2 DEF TypeOK, Receipt
<1>4. /\ wake.ok => due' = due
      /\ ~ wake.ok => /\ due'[wake.slot].until = NoTime
                      /\ \A s \in Slots \ {wake.slot} : due'[s] = due[s]
  BY <1>1 DEF SaveAnswer, TypeOK
<1>5. \A s \in Slots : due'[s].until > clock =>
        receipts'[s].outcome \notin Over /\ due'[s].until <= receipts'[s].expires
  BY <1>1, <1>3, <1>4 DEF ReceiptInv, Over, NoTime
<1> QED
  BY <1>1, <1>5 DEF ReceiptInv

(* The receipts' invariant is kept by every step. *)
LEMMA NextReceipts ==
  ASSUME TypeOK, Placed, ReceiptInv, [Next]_vars, "receipts" \notin Fragile
  PROVE  ReceiptInv'
<1>1. CASE UNCHANGED vars
  BY <1>1 DEF vars, files, history, ReceiptInv
<1>2. CASE Observe
  BY <1>2, ObserveReceipts
<1>3. CASE ReadMarks
  <2>1. /\ wake.at = "observed" /\ wake'.at = "warm" /\ wake'.receipts = wake.receipts
        /\ \A s \in Slots : /\ wake'.seen[s].who = wake.seen[s].who
                            /\ wake'.seen[s].state = "cold" => wake.seen[s].state = "cold"
        /\ UNCHANGED <<clock, receipts, due>>
    BY <1>3 DEF ReadMarks, TypeOK, Wake, Reading, files
  <2> QED
    BY <2>1 DEF ReceiptInv
<1>4. ASSUME NEW s \in Slots, TakeUpWarm(s)
      PROVE  ReceiptInv'
  <2>1. /\ wake.at = "warm" /\ wake'.at = "attempt" /\ wake'.slot = s
        /\ wake'.receipts = wake.receipts /\ UNCHANGED <<clock, receipts, due>>
        /\ wake.seen[s].state = "cold"
        /\ ~ Pending(receipts[s], wake.seen[s].who, wake.now)
        /\ wake.now <= clock
    BY <1>4 DEF TakeUpWarm, TypeOK, Wake, ReceiptInv, Placed, Late, files, history
  <2>2. due[s].until <= clock
    <3> SUFFICES ASSUME due[s].until > clock PROVE FALSE
      BY DEF TypeOK, Time, NoTime
    <3>1. receipts[s].outcome \notin Over /\ due[s].until <= receipts[s].expires
      BY DEF ReceiptInv
    <3>2. receipts[s].expires > wake.now
      <4>1. /\ receipts[s].expires \in Int /\ due[s].until \in Int
            /\ clock \in Int /\ wake.now \in Int
        BY DEF TypeOK, Wake, Receipt, Time, NoTime
      <4> QED
        BY <2>1, <3>1, <4>1
    <3>3. receipts[s] = NoReceipt \/ receipts[s].who = wake.seen[s].who
      BY <2>1, <3>1 DEF ReceiptInv
    <3>4. receipts[s] # NoReceipt
      BY <3>2 DEF NoReceipt, NoTime, TypeOK, Wake
    <3> QED
      BY <2>1, <3>1, <3>2, <3>3, <3>4 DEF Pending
  <2> QED
    BY <2>1, <2>2 DEF ReceiptInv
<1>5. ASSUME NEW s \in Slots, TakeUpProbe(s)
      PROVE  ReceiptInv'
  <2>1. /\ wake.at = "probe" /\ wake'.at = "attempt" /\ wake'.kind = "probe"
        /\ wake'.receipts = wake.receipts /\ UNCHANGED <<clock, receipts, due>>
    BY <1>5 DEF TakeUpProbe, TypeOK, Wake, files, history
  <2> QED
    BY <2>1 DEF ReceiptInv
<1>6. CASE \E s \in Slots : SignIn(s)
  BY <1>6 DEF SignIn, files, ReceiptInv
<1>7. CASE PassOn
  <2>1. /\ wake.at \in {"warm", "probe"} /\ UNCHANGED <<clock, receipts, due>>
        /\ \/ wake'.at = "asleep"
           \/ wake'.at = "probe" /\ wake'.receipts = wake.receipts
    BY <1>7 DEF PassOn, Asleep, TypeOK, Wake, files, history
  <2> QED
    BY <2>1 DEF ReceiptInv
<1>8. CASE AddAttempt
  <2>1. /\ wake.at = "attempt" /\ wake'.at = (IF wake.kind = "warm" THEN "request" ELSE "send")
        /\ wake'.kind = wake.kind /\ wake'.slot = wake.slot
        /\ wake'.receipts = wake.receipts /\ UNCHANGED <<clock, receipts, due>>
    BY <1>8 DEF AddAttempt, TypeOK, Wake, history
  <2> QED
    BY <2>1 DEF ReceiptInv
<1>9. CASE SaveRequested
  BY <1>9, SaveRequestedReceipts
<1>10. CASE Send
  BY <1>10, SendReceipts
<1>11. CASE SaveAnswer
  BY <1>11, SaveAnswerReceipts
<1>12. CASE SaveMarks
  <2>1. /\ wake.at = "mark" /\ UNCHANGED <<clock, receipts, due>>
        /\ \/ wake'.at = "asleep"
           \/ wake'.at = "probe" /\ wake'.receipts = wake.receipts
    BY <1>12 DEF SaveMarks, Asleep, TypeOK, Wake
  <2> QED
    BY <2>1 DEF ReceiptInv
<1>13. CASE Die
  BY <1>13 DEF Die, Asleep, files, ReceiptInv
<1>14. CASE Tick
  <2>1. clock' = clock + 1 /\ UNCHANGED <<wake, receipts, due>> /\ clock \in Nat
    BY <1>14 DEF Tick, files, history, TypeOK
  <2>2. \A s \in Slots : due[s].until \in Time
    BY DEF TypeOK
  <2>3. wake.at \in {"attempt", "request", "send"} /\ wake.kind = "warm" => wake.slot \in Slots
    BY DEF Placed, Asking
  <2> QED
    BY <2>1, <2>2, <2>3 DEF ReceiptInv, Time, NoTime
<1> QED
  BY <1>1, <1>2, <1>3, <1>4, <1>5, <1>6, <1>7, <1>8, <1>9, <1>10, <1>11, <1>12, <1>13, <1>14
     DEF Next

(* No account is sent a second request to open a window that its first one *)
(* may have opened, as long as the receipts can be read: receipts that     *)
(* cannot be read suppress nothing (warming.rs).                           *)
THEOREM WarmedOnce ==
  ASSUME "receipts" \notin Fragile
  PROVE  Spec => []DuplicatesSuppressed
<1>1. Init => TypeOK /\ Placed /\ ReceiptInv
  BY InitTypes, InitReceipts
<1>2. TypeOK /\ Placed /\ ReceiptInv /\ [Next]_vars => (TypeOK /\ Placed /\ ReceiptInv)'
  BY NextTypes, NextPlaced, NextReceipts
<1>3. TypeOK /\ Placed /\ ReceiptInv => DuplicatesSuppressed
  BY DEF ReceiptInv, DuplicatesSuppressed, Warming
<1> QED
  BY <1>1, <1>2, <1>3, PTL DEF Spec

-----------------------------------------------------------------------------
(* The tests of a sign-in *)

LEMMA InitDead == Init => DeadInv
  BY DEF Init, DeadInv, Asleep, Counted, PendingProbe, Late, SpentAfter

(* Steps that neither test a sign-in nor read or keep a mark. *)
LEMMA DeadFrame ==
  ASSUME TypeOK, Placed, DeadInv,
         UNCHANGED <<tests, signIn, marks>>, lost \subseteq lost',
         \/ wake'.at \in {"asleep", "observed"} /\ (wake.at = "mark" => wake.slot \in lost')
         \/ /\ wake.at \in Late /\ wake'.at \in Late
            /\ wake'.marks = wake.marks /\ wake'.seen = wake.seen /\ wake'.ok = wake.ok
            /\ \A s \in Slots : PendingProbe(s) <=> PendingProbe(s)'
            /\ wake'.at \in {"attempt", "send"} /\ wake'.kind = "probe" =>
                 wake.seen[wake'.slot].state = "stuck"
  PROVE  DeadInv'
<1>1. \A s \in Slots \ lost' : tests[s] <= SpentAfter
  BY DEF DeadInv
<1>2. CASE wake'.at \in {"asleep", "observed"} /\ (wake.at = "mark" => wake.slot \in lost')
  <2>1. \A s \in Slots \ lost' : Counted(marks, s)
    BY <1>2 DEF DeadInv, PendingProbe
  <2> QED
    BY <1>1, <1>2, <2>1 DEF DeadInv, PendingProbe, Late, Counted
<1>3. CASE /\ wake.at \in Late /\ wake'.at \in Late
           /\ wake'.marks = wake.marks /\ wake'.seen = wake.seen /\ wake'.ok = wake.ok
           /\ \A s \in Slots : PendingProbe(s) <=> PendingProbe(s)'
           /\ wake'.at \in {"attempt", "send"} /\ wake'.kind = "probe" =>
                wake.seen[wake'.slot].state = "stuck"
  <2>1. \A s \in Slots \ lost' : ~ PendingProbe(s)' =>
          /\ Counted(marks, s) /\ Counted(wake.marks, s)
          /\ wake.seen[s].state = "stuck" => tests[s] < SpentAfter
    BY <1>3 DEF DeadInv
  <2>2. \A s \in Slots \ lost' : PendingProbe(s)' =>
          /\ wake.ok => tests[s] = 0
          /\ \/ tests[s] <= 1
             \/ /\ wake.marks.dead[s].mark = signIn[s].mark
                /\ tests[s] <= wake.marks.dead[s].fails + 1
    BY <1>3 DEF DeadInv
  <2> QED
    BY <1>1, <1>3, <2>1, <2>2 DEF DeadInv, Counted
<1> QED
  BY <1>2, <1>3

(* A sign-in that is not seen dead has failed fewer tests than that, unless *)
(* the marks or the sign-in itself could not be read.                      *)
LEMMA ReadMarksDead ==
  ASSUME TypeOK, DeadInv, ReadMarks
  PROVE  DeadInv'
<1>1. PICK known \in Read("marks", marks, NoMarks),
           stored \in [Slots -> {NoTime} \cup 0 .. MaxSignIns] :
        /\ \A s \in Slots : stored[s] \in Read("credentials", signIn[s].mark, NoTime)
        /\ wake' = [wake EXCEPT
             !.at = "warm", !.now = clock, !.marks = known,
             !.seen = [s \in Slots |->
                         IF @[s].state = "stuck" /\ Spent(known, s, stored[s])
                         THEN [@[s] EXCEPT !.state = "dead"] ELSE @[s]]]
        /\ lost' = IF known # marks THEN Slots
                   ELSE lost \cup {s \in Slots : stored[s] = NoTime}
  BY DEF ReadMarks
<1>2. /\ wake.at = "observed" /\ wake'.at = "warm" /\ wake'.marks = known
      /\ UNCHANGED <<tests, signIn, marks>>
  BY <1>1 DEF ReadMarks, TypeOK, Wake, files
<1>3. \A s \in Slots : wake'.seen[s].state = "stuck" => ~ Spent(known, s, stored[s])
  BY <1>1 DEF TypeOK, Wake, Reading
<1>4. \A s \in Slots \ lost' : known = marks /\ s \notin lost /\ stored[s] = signIn[s].mark
  BY <1>1 DEF Read
<1>5. \A s \in Slots \ lost : Counted(marks, s) /\ tests[s] <= SpentAfter
  BY <1>2 DEF DeadInv, PendingProbe
<1>6. \A s \in Slots \ lost' : wake'.seen[s].state = "stuck" => tests[s] < SpentAfter
  <2> SUFFICES ASSUME NEW s \in Slots \ lost', wake'.seen[s].state = "stuck"
               PROVE  tests[s] < SpentAfter
    OBVIOUS
  <2>1. Counted(marks, s) /\ ~ Spent(marks, s, signIn[s].mark)
    BY <1>3, <1>4, <1>5
  <2>2. tests[s] \in Nat /\ marks.dead[s].fails \in Nat
    BY DEF TypeOK, Marks
  <2> QED
    BY <2>1, <2>2 DEF Counted, Spent, SpentAfter
<1> QED
  BY <1>2, <1>4, <1>5, <1>6 DEF DeadInv, PendingProbe, Counted

LEMMA SendDead ==
  ASSUME TypeOK, Placed, DeadInv, Send
  PROVE  DeadInv'
<1>1. /\ wake.at = "send" /\ wake.slot \in Slots /\ wake.kind \in {"warm", "probe"}
      /\ wake'.at = (IF wake.kind = "warm" THEN "answer" ELSE "mark")
      /\ wake'.kind = wake.kind /\ wake'.slot = wake.slot
      /\ wake'.marks = wake.marks /\ wake'.seen = wake.seen /\ wake'.ok \in BOOLEAN
      /\ UNCHANGED <<signIn, marks, lost>>
  BY DEF Send, Placed, Asking, TypeOK, Wake, files
<1>2. \A s \in Slots \ lost :
        /\ tests[s] \in Nat /\ tests[s] <= SpentAfter
        /\ Counted(marks, s) /\ Counted(wake.marks, s)
        /\ wake.seen[s].state = "stuck" => tests[s] < SpentAfter
  BY <1>1 DEF DeadInv, PendingProbe, Late, TypeOK
<1>3. CASE wake.kind = "warm"
  <2>1. tests' = tests
    BY <1>3 DEF Send
  <2> QED
    BY <1>1, <1>2, <1>3, <2>1 DEF DeadInv, PendingProbe, Counted
<1>4. CASE wake.kind = "probe"
  <2>1. /\ tests'[wake.slot] = IF wake'.ok THEN 0 ELSE tests[wake.slot] + 1
        /\ \A s \in Slots \ {wake.slot} : tests'[s] = tests[s]
    BY <1>1, <1>4 DEF Send, TypeOK, Wake
  <2>2. wake.seen[wake.slot].state = "stuck"
    BY <1>1, <1>4 DEF DeadInv
  <2>3. \A s \in Slots \ lost : tests'[s] <= SpentAfter
    BY <1>2, <2>1, <2>2 DEF SpentAfter
  <2>4. \A s \in Slots \ lost : s # wake.slot =>
          /\ Counted(marks, s)' /\ Counted(wake.marks, s)'
          /\ wake'.seen[s].state = "stuck" => tests'[s] < SpentAfter
    BY <1>1, <1>2, <2>1 DEF Counted
  <2>5. wake.slot \notin lost =>
          /\ wake'.ok => tests'[wake.slot] = 0
          /\ \/ tests'[wake.slot] <= 1
             \/ /\ wake'.marks.dead[wake.slot].mark = signIn[wake.slot].mark
                /\ tests'[wake.slot] <= wake'.marks.dead[wake.slot].fails + 1
    <3>1. wake.marks.dead[wake.slot].fails \in Nat
      BY <1>1 DEF TypeOK, Wake, Marks
    <3> QED
      BY <1>1, <1>2, <2>1, <3>1 DEF Counted
  <2> QED
    BY <1>1, <1>4, <2>3, <2>4, <2>5 DEF DeadInv, PendingProbe
<1> QED
  BY <1>1, <1>3, <1>4

(* Once a test is marked the marks count it. *)
LEMMA ProbeCounted ==
  ASSUME TypeOK, NEW s \in Slots, NEW m \in Marks, NEW ok, NEW now,
         ok => tests[s] = 0,
         \/ tests[s] <= 1
         \/ m.dead[s].mark = signIn[s].mark /\ tests[s] <= m.dead[s].fails + 1
  PROVE  Counted(ProbeMarked(m, s, ok, signIn[s].mark, now), s)
<1> DEFINE dead == ProbeMarked(m, s, ok, signIn[s].mark, now).dead
<1>1. /\ tests[s] \in Nat /\ m.dead[s].fails \in Nat /\ signIn[s].mark # NoTime
      /\ m.dead[s] \in [mark : Time, fails : Nat]
  BY DEF TypeOK, Marks, NoTime
<1>2. CASE ok
  BY <1>2 DEF Counted
<1>3. CASE ~ ok /\ m.dead[s].mark = signIn[s].mark
  <2>1. dead[s] = [m.dead[s] EXCEPT !.fails = @ + 1]
    BY <1>1, <1>3 DEF ProbeMarked, Marks
  <2>2. dead[s].mark = signIn[s].mark /\ dead[s].fails = m.dead[s].fails + 1
    BY <1>1, <1>3, <2>1
  <2> HIDE DEF dead
  <2>3. tests[s] <= dead[s].fails
    BY <1>1, <2>2
  <2> QED
    BY <2>2, <2>3 DEF Counted, dead
<1>4. CASE ~ ok /\ m.dead[s].mark # signIn[s].mark
  <2>1. dead[s] = [mark |-> signIn[s].mark, fails |-> 1]
    BY <1>1, <1>4 DEF ProbeMarked, Marks
  <2>2. tests[s] <= 1
    BY <1>4
  <2> HIDE DEF dead
  <2> QED
    BY <2>1, <2>2 DEF Counted, dead
<1> QED
  BY <1>2, <1>3, <1>4

LEMMA SaveMarksDead ==
  ASSUME TypeOK, Placed, DeadInv, SaveMarks
  PROVE  DeadInv'
<1>1. /\ wake.at = "mark" /\ wake.slot \in Slots /\ wake.kind \in {"warm", "probe"}
      /\ wake.marks \in Marks /\ UNCHANGED <<tests, signIn>>
  BY DEF SaveMarks, Placed, Asking, TypeOK, Wake
<1>2. \A s \in Slots \ lost : (wake.kind = "probe" => s # wake.slot) =>
        /\ Counted(marks, s) /\ Counted(wake.marks, s)
        /\ wake.seen[s].state = "stuck" => tests[s] < SpentAfter
  BY <1>1 DEF DeadInv, PendingProbe, Late
<1>3. \A s \in Slots \ lost : tests[s] <= SpentAfter
  BY DEF DeadInv
<1>4. CASE wake.kind = "warm"
  <2> DEFINE next == WarmMarked(wake.marks, wake.slot, wake.ok, clock)
  <2>1. /\ wake'.at = "probe" /\ wake'.kind = "none" /\ wake'.marks = next
        /\ wake'.seen = wake.seen /\ lost \subseteq lost' /\ marks' \in {marks, next}
    BY <1>4 DEF SaveMarks, TypeOK, Wake
  <2>2. next.dead = wake.marks.dead
    BY <1>1 DEF WarmMarked, Marks
  <2> HIDE DEF next
  <2>3. \A s \in Slots \ lost' : Counted(marks', s) /\ Counted(next, s)
    BY <1>2, <1>4, <2>1, <2>2 DEF Counted
  <2> QED
    BY <1>1, <1>2, <1>3, <1>4, <2>1, <2>3 DEF DeadInv, PendingProbe, Counted
<1>5. CASE wake.kind = "probe"
  <2>1. PICK stored \in Read("credentials", signIn[wake.slot].mark, NoTime) :
          \/ /\ marks' = ProbeMarked(wake.marks, wake.slot, wake.ok, stored, clock)
             /\ lost' = IF stored = NoTime THEN lost \cup {wake.slot} ELSE lost
          \/ marks' = marks /\ lost' = lost \cup {wake.slot}
    BY <1>5 DEF SaveMarks
  <2>2. wake'.at = "asleep" /\ lost \subseteq lost'
    BY <1>5, <2>1 DEF SaveMarks, Asleep
  <2>3. \A s \in Slots \ lost' : Counted(marks', s)
    <3> SUFFICES ASSUME NEW s \in Slots \ lost' PROVE Counted(marks', s)
      OBVIOUS
    <3>1. CASE s # wake.slot
      <4>1. ProbeMarked(wake.marks, wake.slot, wake.ok, stored, clock).dead[s]
              = wake.marks.dead[s]
        BY <1>1, <3>1 DEF ProbeMarked, Marks
      <4>2. Counted(marks, s) /\ Counted(wake.marks, s)
        BY <1>2, <2>2, <3>1
      <4> QED
        BY <2>1, <4>1, <4>2 DEF Counted
    <3>2. CASE s = wake.slot
      <4>1. /\ stored = signIn[s].mark
            /\ marks' = ProbeMarked(wake.marks, s, wake.ok, stored, clock)
        BY <2>1, <3>2 DEF Read
      <4>2. PendingProbe(s) /\ s \notin lost
        BY <1>1, <1>5, <2>2, <3>2 DEF PendingProbe
      <4>3. /\ wake.ok => tests[s] = 0
            /\ \/ tests[s] <= 1
               \/ /\ wake.marks.dead[s].mark = signIn[s].mark
                  /\ tests[s] <= wake.marks.dead[s].fails + 1
        BY <4>2 DEF DeadInv
      <4> QED
        BY <1>1, <4>1, <4>3, ProbeCounted
    <3> QED
      BY <3>1, <3>2
  <2> QED
    BY <1>1, <1>3, <2>2, <2>3 DEF DeadInv, PendingProbe, Late, Counted
<1> QED
  BY <1>1, <1>4, <1>5

(* The marks' part for the tests is kept by every step. *)
LEMMA NextDead ==
  ASSUME TypeOK, Placed, DeadInv, [Next]_vars
  PROVE  DeadInv'
<1>1. CASE UNCHANGED vars
  BY <1>1 DEF vars, files, history, DeadInv, PendingProbe, Counted
<1>2. CASE Observe
  <2>1. /\ wake.at = "asleep" /\ wake'.at = "observed"
        /\ UNCHANGED <<tests, signIn, marks, lost>>
    BY <1>2 DEF Observe, Asleep
  <2> QED
    BY <2>1, DeadFrame
<1>3. CASE ReadMarks
  BY <1>3, ReadMarksDead
<1>4. ASSUME NEW s \in Slots, TakeUpWarm(s) \/ TakeUpProbe(s)
      PROVE  DeadInv'
  <2>1. /\ wake.at \in {"warm", "probe"} /\ wake'.at = "attempt" /\ wake'.slot = s
        /\ wake'.marks = wake.marks /\ wake'.seen = wake.seen /\ wake'.ok = wake.ok
        /\ wake'.kind = "probe" => wake.seen[s].state = "stuck"
        /\ UNCHANGED <<tests, signIn, marks, lost>>
    BY <1>4 DEF TakeUpWarm, TakeUpProbe, TypeOK, Wake, files, history
  <2> QED
    BY <2>1, DeadFrame DEF Late, PendingProbe
<1>5. ASSUME NEW t \in Slots, SignIn(t)
      PROVE  DeadInv'
  <2>1. /\ tests'[t] = 0
        /\ \A s \in Slots \ {t} : tests'[s] = tests[s] /\ signIn'[s] = signIn[s]
        /\ UNCHANGED <<wake, marks, lost>>
    BY <1>5 DEF SignIn, TypeOK, files
  <2>2. \A s \in Slots \ lost : tests'[s] <= SpentAfter
    BY <2>1 DEF DeadInv, SpentAfter
  <2>3. \A s \in Slots : /\ Counted(marks, s) => Counted(marks, s)'
                         /\ Counted(wake.marks, s) => Counted(wake.marks, s)'
                         /\ PendingProbe(s)' <=> PendingProbe(s)
    BY <2>1 DEF Counted, PendingProbe
  <2>4. wake.at \in Late => \A s \in Slots \ lost :
          ~ PendingProbe(s) /\ wake.seen[s].state = "stuck" => tests'[s] < SpentAfter
    BY <2>1 DEF DeadInv, SpentAfter
  <2>5. \A s \in Slots \ lost : PendingProbe(s) =>
          /\ wake.ok => tests'[s] = 0
          /\ \/ tests'[s] <= 1
             \/ /\ wake.marks.dead[s].mark = signIn'[s].mark
                /\ tests'[s] <= wake.marks.dead[s].fails + 1
    BY <2>1 DEF DeadInv
  <2> QED
    BY <2>1, <2>2, <2>3, <2>4, <2>5 DEF DeadInv
<1>6. CASE PassOn
  <2>1. /\ wake.at \in {"warm", "probe"} /\ UNCHANGED <<tests, signIn, marks, lost>>
        /\ \/ wake'.at = "asleep"
           \/ /\ wake'.at = "probe" /\ wake'.marks = wake.marks
              /\ wake'.seen = wake.seen /\ wake'.ok = wake.ok
    BY <1>6 DEF PassOn, Asleep, TypeOK, Wake, files, history
  <2> QED
    BY <2>1, DeadFrame DEF Late, PendingProbe
<1>7. CASE AddAttempt \/ SaveRequested \/ SaveAnswer
  <2>1. /\ wake.at \in {"attempt", "request", "answer"}
        /\ wake'.at = (CASE wake.at = "attempt" /\ wake.kind = "warm" -> "request"
                         [] wake.at = "attempt" /\ wake.kind # "warm" -> "send"
                         [] wake.at = "request" -> "send"
                         [] wake.at = "answer" -> "mark")
        /\ wake'.kind = wake.kind /\ wake'.slot = wake.slot
        /\ wake'.marks = wake.marks /\ wake'.seen = wake.seen /\ wake'.ok = wake.ok
        /\ UNCHANGED <<tests, signIn, marks, lost>>
    BY <1>7 DEF AddAttempt, SaveRequested, SaveAnswer, TypeOK, Wake, history
  <2>2. wake.at \in {"request", "answer"} => wake.kind = "warm"
    BY DEF Placed
  <2>3. wake'.at \in {"attempt", "send"} /\ wake'.kind = "probe" =>
          wake.seen[wake'.slot].state = "stuck"
    BY <2>1, <2>2 DEF DeadInv
  <2>4. \A s \in Slots : ~ PendingProbe(s) /\ ~ PendingProbe(s)'
    BY <2>1, <2>2 DEF PendingProbe
  <2> QED
    BY <2>1, <2>3, <2>4, DeadFrame DEF Late
<1>8. CASE Send
  BY <1>8, SendDead
<1>9. CASE SaveMarks
  BY <1>9, SaveMarksDead
<1>10. CASE Die
  <2>1. /\ wake'.at = "asleep" /\ UNCHANGED <<tests, signIn, marks>>
        /\ lost' = IF wake.at \in {"answer", "mark"} THEN lost \cup {wake.slot} ELSE lost
    BY <1>10 DEF Die, Asleep, files
  <2> QED
    BY <2>1, DeadFrame
<1>11. CASE Tick
  BY <1>11 DEF Tick, files, history, DeadInv, PendingProbe, Counted
<1> QED
  BY <1>1, <1>2, <1>3, <1>4, <1>5, <1>6, <1>7, <1>8, <1>9, <1>10, <1>11 DEF Next

(* A stored sign-in that failed its test twice is left alone until it is   *)
(* another one, unless a test of it could not be written down or the marks *)
(* or the sign-in itself could not be read.                                *)
THEOREM SpentSignInsRest == Spec => []DeadLeftAlone
<1>1. Init => TypeOK /\ Placed /\ DeadInv
  BY InitTypes, InitDead
<1>2. TypeOK /\ Placed /\ DeadInv /\ [Next]_vars => (TypeOK /\ Placed /\ DeadInv)'
  BY NextTypes, NextPlaced, NextDead
<1>3. DeadInv => DeadLeftAlone
  BY DEF DeadInv, DeadLeftAlone
<1> QED
  BY <1>1, <1>2, <1>3, PTL DEF Spec
=============================================================================
