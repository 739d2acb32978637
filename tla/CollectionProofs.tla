-------------------------- MODULE CollectionProofs --------------------------
(***************************************************************************)
(* Proofs about the schedule of the collector, for any number of providers *)
(* and subscriptions and any lengths of the waits.                         *)
(***************************************************************************)
EXTENDS Collection, TLAPS

-----------------------------------------------------------------------------
(* Inductive invariants *)

(* A wait after a failure that is not over. *)
Waits(entry) == entry.failures > 0 /\ entry.wait > 0

(* What a wake makes of a provider's record, unless it ends a conflict. *)
Follows(old, new) ==
  \/ new = old
  \/ new.failures = 0
  \/ new.local
  \/ new = Failed(old, FALSE)

Done == {Registered[i] : i \in 1 .. wake.next - 1}

(* A wake's memory of the schedule against the file it began with. *)
WaitInv ==
  /\ wake.at = "collecting" => \A p \in Providers :
       /\ Follows(collector[p], wake.collector[p])
       /\ p \notin Done => wake.collector[p] = collector[p]
       /\ Waits(collector[p]) => /\ wake.collector[p] = collector[p]
                                 /\ p \in Done => wake.status[p] = "unavailable"
  /\ wake.at = "published" => \A p \in Providers :
       /\ Follows(collector[p], wake.collector[p]) \/ status[p] = "duplicate"
       /\ Waits(collector[p]) => wake.collector[p] = collector[p]

(* What is kept of a home is what it holds, once that has been shown. *)
CapacityInv ==
  /\ \A p \in Codex \ unread : known[p] = home[p]
  /\ NoDoubleCapacity

-----------------------------------------------------------------------------
(* The operators *)

(* Waits grow with the failures, up to the longest. *)
LEMMA Delays ==
  /\ \A f \in 1 .. FailureLimit : Delay(f) \in 1 .. LongestDelay
  /\ \A f \in 1 .. FailureLimit :
       Delay(Least(f + 1, FailureLimit)) >= Least(2 * Delay(f), LongestDelay)
<1>1. /\ FirstDelay \in Nat \ {0} /\ LongestDelay \in Nat \ {0}
      /\ FailureLimit \in Nat \ {0}
  BY ConstantsAssumption
<1>2. \A f \in Nat \ {0} :
        \/ f = 1 /\ Delay(f) = Least(FirstDelay, LongestDelay)
        \/ f = 2 /\ Delay(f) = Least(FirstDelay * 2, LongestDelay)
        \/ f = 3 /\ Delay(f) = Least(FirstDelay * 4, LongestDelay)
        \/ f >= 4 /\ Delay(f) = Least(FirstDelay * 8, LongestDelay)
  BY <1>1 DEF Delay, Doublings, Least
<1>3. \A f \in 1 .. FailureLimit : Delay(f) \in 1 .. LongestDelay
  BY <1>1, <1>2 DEF Least
<1>4. ASSUME NEW f \in 1 .. FailureLimit
      PROVE  Delay(Least(f + 1, FailureLimit)) >= Least(2 * Delay(f), LongestDelay)
  <2>1. CASE f = FailureLimit
    BY <1>1, <1>3, <2>1, FailureAssumption DEF Least
  <2>2. CASE f < FailureLimit
    <3>1. Least(f + 1, FailureLimit) = f + 1 /\ f + 1 \in Nat \ {0} /\ f \in Nat \ {0}
      BY <1>1, <2>2 DEF Least
    <3>2. f >= 4 => Delay(f + 1) = Delay(f) /\ Delay(f) = Delay(FailureLimit)
      BY <1>1, <1>2, <2>2, <3>1
    <3>3. CASE f >= 4
      BY <1>1, <3>1, <3>2, <3>3, FailureAssumption DEF Least
    <3>4. CASE f < 4
      BY <1>1, <1>2, <3>1, <3>4 DEF Least
    <3> QED
      BY <3>1, <3>3, <3>4
  <2> QED
    BY <1>1, <2>1, <2>2
<1> QED
  BY <1>3, <1>4

LEMMA EntryTypes ==
  /\ NoRecord \in Entry
  /\ \A healthy \in {ShortPoll, LongPoll} : Succeeded(healthy) \in Entry
  /\ \A old \in Entry, local \in BOOLEAN : Failed(old, local) \in Entry
<1> USE ConstantsAssumption
<1>1. NoRecord \in Entry
  BY DEF NoRecord, Entry
<1>2. \A healthy \in {ShortPoll, LongPoll} : Succeeded(healthy) \in Entry
  BY DEF Succeeded, Entry, Most, Least
<1>3. ASSUME NEW old \in Entry, NEW local \in BOOLEAN
      PROVE  Failed(old, local) \in Entry
  <2> DEFINE prior == IF old.local /\ ~ local THEN 0 ELSE old.failures
             failures == Least(prior + 1, FailureLimit)
             wait == IF local THEN LocalDelay ELSE Delay(failures)
  <2>1. prior \in 0 .. FailureLimit
    BY DEF Entry
  <2> HIDE DEF prior
  <2>2. failures \in 1 .. FailureLimit
    BY <2>1 DEF Least
  <2> HIDE DEF failures
  <2>3. wait \in 0 .. LongestDelay
    BY <2>2, Delays
  <2> HIDE DEF wait
  <2>4. [failures |-> failures, local |-> local, wait |-> wait] \in Entry
    BY <2>2, <2>3 DEF Entry
  <2> QED
    BY <2>4 DEF Failed, failures, prior, wait
<1> QED
  BY <1>1, <1>2, <1>3

(* The providers are those of the list, each at one place. *)
LEMMA Places ==
  /\ \A i \in 1 .. Len(Registered) : Registered[i] \in Providers
  /\ Providers = {Registered[i] : i \in 1 .. Len(Registered)}
  /\ Len(Registered) \in Nat
  BY ConstantsAssumption DEF Providers, ToSet

-----------------------------------------------------------------------------
(* Types *)

Wake == [at : {"asleep", "collecting", "published"}, scheduled : BOOLEAN,
         next : 1 .. Len(Registered) + 1, collector : [Providers -> Entry],
         status : [Providers -> Shown], tried : SUBSET Providers]

LEMMA AsleepType == Asleep \in Wake
  BY EntryTypes, Places DEF Asleep, Wake, Shown

LEMMA InitTypes == Init => TypeOK
<1> SUFFICES ASSUME Init PROVE TypeOK
  OBVIOUS
<1>1. wake \in Wake
  BY AsleepType DEF Init
<1>2. collector \in [Providers -> Entry]
  BY EntryTypes DEF Init
<1>3. signIns \in 0 .. MaxSignIns
  BY ConstantsAssumption DEF Init
<1>4. /\ driver \in [Providers -> {"claude", "codex"}]
      /\ home \in [Providers -> Identities]
      /\ known \in [Providers -> Identities \cup {Nobody}]
      /\ status \in [Providers -> Shown]
      /\ calm \in BOOLEAN /\ unread \subseteq Codex
  BY DEF Init, Shown
<1> QED
  BY <1>1, <1>2, <1>3, <1>4 DEF TypeOK, Wake

LEMMA ReadTypes ==
  ASSUME TypeOK, Read
  PROVE  TypeOK'
<1> DEFINE p == Registered[wake.next]
<1>1. PICK outcome \in Outcomes,
           healthy \in (IF p \in Codex THEN {ShortPoll, LongPoll} ELSE {ShortPoll}) :
        wake' = [wake EXCEPT
          !.next = @ + 1,
          !.collector[p] = IF outcome = "answered" THEN Succeeded(healthy)
                           ELSE Failed(wake.collector[p], outcome = "unwritten"),
          !.status[p] = IF outcome = "answered" THEN "ok" ELSE "unavailable",
          !.tried = @ \cup {p}]
  BY DEF Read
<1> DEFINE new == IF outcome = "answered" THEN Succeeded(healthy)
                  ELSE Failed(wake.collector[p], outcome = "unwritten")
<1>2. /\ wake.next \in 1 .. Len(Registered) /\ p \in Providers /\ wake \in Wake
  BY Places DEF Read, Reading, TypeOK, Wake
<1>3. new \in Entry
  BY <1>2, EntryTypes DEF Wake
<1> HIDE DEF new
<1>4. wake'.next = wake.next + 1 /\ wake.next + 1 \in 1 .. Len(Registered) + 1
  BY <1>1, <1>2, Places DEF Wake
<1>5. wake' \in Wake
  <2>1. wake' = [wake EXCEPT
          !.next = wake.next + 1,
          !.collector = [wake.collector EXCEPT ![p] = new],
          !.status = [wake.status EXCEPT
                        ![p] = IF outcome = "answered" THEN "ok" ELSE "unavailable"],
          !.tried = wake.tried \cup {p}]
    BY <1>1, <1>2 DEF Wake, new
  <2>2. /\ [wake.collector EXCEPT ![p] = new] \in [Providers -> Entry]
        /\ [wake.status EXCEPT ![p] = IF outcome = "answered" THEN "ok" ELSE "unavailable"]
             \in [Providers -> Shown]
        /\ wake.tried \cup {p} \in SUBSET Providers
    BY <1>2, <1>3 DEF Wake, Shown
  <2> HIDE DEF p
  <2> QED
    BY <1>2, <1>4, <2>1, <2>2 DEF Wake
<1>6. known' \in [Providers -> Identities \cup {Nobody}]
  BY <1>2 DEF Read, TypeOK
<1> QED
  BY <1>5, <1>6 DEF Read, TypeOK, Wake, Codex

LEMMA PassOverTypes ==
  ASSUME TypeOK, PassOver
  PROVE  TypeOK'
<1> DEFINE p == Registered[wake.next]
           shown == IF wake.collector[p].failures > 0 THEN "unavailable" ELSE wake.status[p]
<1>1. /\ wake.next \in 1 .. Len(Registered) /\ p \in Providers /\ wake \in Wake
      /\ wake.next + 1 \in 1 .. Len(Registered) + 1
  BY Places DEF PassOver, Reading, TypeOK, Wake
<1>2. shown \in Shown
  BY <1>1 DEF Wake, Shown
<1>3. wake' = [wake EXCEPT !.next = wake.next + 1,
                           !.status = [wake.status EXCEPT ![p] = shown]]
  BY <1>1 DEF PassOver, Wake
<1> HIDE DEF p, shown
<1>4. wake' \in Wake
  BY <1>1, <1>2, <1>3 DEF Wake
<1> QED
  BY <1>4 DEF PassOver, TypeOK, Wake, Codex, files

(* A wake as it is settled. *)
LEMMA SettledType ==
  ASSUME TypeOK
  PROVE  /\ Settled \in Wake
         /\ Settled.at = "published"
         /\ \A p \in Providers :
              /\ Settled.status[p] = IF p \in Conflicting(wake.status) THEN "duplicate"
                                     ELSE wake.status[p]
              /\ Settled.collector[p] = IF p \in Conflicting(wake.status)
                                        THEN Failed(wake.collector[p], FALSE)
                                        ELSE wake.collector[p]
<1> DEFINE twice == Conflicting(wake.status)
           shown == [p \in Providers |-> IF p \in twice THEN "duplicate" ELSE wake.status[p]]
           entries == [p \in Providers |-> IF p \in twice THEN Failed(wake.collector[p], FALSE)
                                           ELSE wake.collector[p]]
<1>1. wake \in Wake /\ twice \subseteq Providers
  BY DEF TypeOK, Wake, Conflicting, Codex
<1>2. shown \in [Providers -> Shown]
  BY <1>1 DEF Wake, Shown
<1>3. entries \in [Providers -> Entry]
  BY <1>1, EntryTypes DEF Wake
<1>4. Settled = [wake EXCEPT !.at = "published", !.scheduled = FALSE,
                             !.tried = wake.tried \cup twice,
                             !.status = shown, !.collector = entries]
  BY <1>1 DEF Settled, Wake
<1> HIDE DEF twice, shown, entries
<1>5. /\ Settled \in Wake /\ Settled.at = "published"
      /\ Settled.status = shown /\ Settled.collector = entries
  BY <1>1, <1>2, <1>3, <1>4 DEF Wake
<1> QED
  BY <1>5 DEF twice, shown, entries

LEMMA NextTypes ==
  ASSUME TypeOK, [Next]_vars
  PROVE  TypeOK'
<1>1. CASE UNCHANGED vars
  BY <1>1 DEF TypeOK, vars, files, Codex
<1>2. ASSUME NEW scheduled \in BOOLEAN, Begin(scheduled)
      PROVE  TypeOK'
  <2>1. wake' \in Wake
    BY <1>2, AsleepType DEF Begin, TypeOK, Wake
  <2> QED
    BY <1>2, <2>1 DEF Begin, TypeOK, Wake, Codex, files
<1>3. CASE Read
  BY <1>3, ReadTypes
<1>4. CASE PassOver
  BY <1>4, PassOverTypes
<1>5. CASE Publish
  <2>1. Settled \in Wake
    BY SettledType
  <2>2. wake' = Settled /\ status' = Settled.status
    BY <1>5 DEF Publish
  <2> QED
    BY <1>5, <2>1, <2>2 DEF Publish, TypeOK, Wake, Codex
<1>6. CASE Record
  <2>1. wake' \in Wake /\ collector' \in [Providers -> Entry]
    BY <1>6, AsleepType DEF Record, TypeOK
  <2> QED
    BY <1>6, <2>1 DEF Record, TypeOK, Wake, Codex
<1>7. CASE Die
  <2>1. wake' \in Wake
    BY <1>7, AsleepType DEF Die
  <2> QED
    BY <1>7, <2>1 DEF Die, TypeOK, Wake, Codex, files
<1>8. ASSUME NEW p \in Codex, SignIn(p)
      PROVE  TypeOK'
  BY <1>8, ConstantsAssumption DEF SignIn, TypeOK, Codex, files
<1>9. CASE Settle
  BY <1>9 DEF Settle, TypeOK, Codex, files
<1>10. CASE Tick
  <2>1. \A p \in Providers : [collector[p] EXCEPT !.wait = Most(0, @ - 1)] \in Entry
    <3> SUFFICES ASSUME NEW p \in Providers
                 PROVE  [collector[p] EXCEPT !.wait = Most(0, @ - 1)] \in Entry
      OBVIOUS
    <3> DEFINE left == Most(0, collector[p].wait - 1)
    <3>1. collector[p] \in Entry /\ LongestDelay \in Nat
      BY ConstantsAssumption DEF TypeOK
    <3>2. left \in 0 .. LongestDelay
      BY <3>1 DEF Entry, Most
    <3> HIDE DEF left
    <3>3. [collector[p] EXCEPT !.wait = left] \in Entry
      BY <3>1, <3>2 DEF Entry
    <3> QED
      BY <3>3 DEF left
  <2>2. collector' \in [Providers -> Entry]
    BY <1>10, <2>1 DEF Tick
  <2> QED
    BY <1>10, <2>2 DEF Tick, TypeOK, Codex
<1> QED
  BY <1>1, <1>2, <1>3, <1>4, <1>5, <1>6, <1>7, <1>8, <1>9, <1>10 DEF Next

(* Every reachable state has its types: no wait is ever longer than the    *)
(* longest, however often a provider failed.                               *)
THEOREM TypeCorrect == Spec => []TypeOK
  BY InitTypes, NextTypes, PTL DEF Spec

-----------------------------------------------------------------------------
(* A subscription is not counted twice *)

LEMMA PublishCapacity ==
  ASSUME TypeOK, CapacityInv, Publish
  PROVE  CapacityInv'
<1>1. /\ status' = Settled.status /\ UNCHANGED <<driver, home, known>>
      /\ unread' = unread \ {p \in Codex \cap wake.tried :
                             wake.status[p] = "ok" /\ known[p] = home[p]}
  BY DEF Publish
<1>2. Codex' = Codex /\ Codex \subseteq Providers
  BY <1>1 DEF Codex
<1>3. \A p \in Codex \ unread' : known[p] = home[p]
  BY <1>1 DEF CapacityInv
<1>4. \A p \in Codex : status'[p] = "ok" =>
        wake.status[p] = "ok" /\ p \notin Conflicting(wake.status)
  BY <1>1, <1>2, SettledType
<1>5. \A p, q \in Codex \ unread' :
        p # q /\ status'[p] = "ok" /\ status'[q] = "ok" => home[p] # home[q]
  BY <1>3, <1>4 DEF Conflicting
<1> QED
  BY <1>1, <1>2, <1>3, <1>5 DEF CapacityInv, NoDoubleCapacity

LEMMA NextCapacity ==
  ASSUME TypeOK, CapacityInv, [Next]_vars
  PROVE  CapacityInv'
<1> USE DEF CapacityInv, NoDoubleCapacity, Codex
<1>1. CASE UNCHANGED vars
  BY <1>1 DEF vars, files
<1>2. CASE \E scheduled \in BOOLEAN : Begin(scheduled)
  BY <1>2 DEF Begin, files
<1>3. CASE Read
  BY <1>3 DEF Read, TypeOK
<1>4. CASE PassOver
  BY <1>4 DEF PassOver, files
<1>5. CASE Publish
  BY <1>5, PublishCapacity
<1>6. CASE Record
  BY <1>6 DEF Record
<1>7. CASE Die
  BY <1>7 DEF Die, files
<1>8. CASE \E p \in Codex : SignIn(p)
  BY <1>8 DEF SignIn, TypeOK, files
<1>9. CASE Settle
  BY <1>9 DEF Settle, files
<1>10. CASE Tick
  BY <1>10 DEF Tick
<1> QED
  BY <1>1, <1>2, <1>3, <1>4, <1>5, <1>6, <1>7, <1>8, <1>9, <1>10 DEF Next

(* Two providers are never both offered on the strength of one             *)
(* subscription, but while a home signed in anew has not been shown.       *)
THEOREM CapacityCountedOnce == Spec => []NoDoubleCapacity
<1>1. Init => CapacityInv
  BY DEF Init, CapacityInv, NoDoubleCapacity
<1>2. TypeOK /\ CapacityInv /\ [Next]_vars => CapacityInv'
  BY NextCapacity
<1>3. CapacityInv => NoDoubleCapacity
  BY DEF CapacityInv
<1> QED
  BY <1>1, <1>2, <1>3, TypeCorrect, PTL DEF Spec

-----------------------------------------------------------------------------
(* Waits are kept *)

(* A provider that is read was due, and one that is due does not wait.     *)
LEMMA ReadWaits ==
  ASSUME TypeOK, WaitInv, Read
  PROVE  WaitInv'
<1> DEFINE p == Registered[wake.next]
<1>1. /\ wake.at = "collecting" /\ wake.next \in 1 .. Len(Registered) /\ p \in Providers
      /\ wake \in Wake /\ Due(p, wake.collector[p], wake.scheduled)
      /\ UNCHANGED <<collector, status>>
  BY Places DEF Read, Reading, TypeOK, Wake
<1>2. PICK outcome \in Outcomes,
           healthy \in (IF p \in Codex THEN {ShortPoll, LongPoll} ELSE {ShortPoll}) :
        wake' = [wake EXCEPT
          !.next = @ + 1,
          !.collector[p] = IF outcome = "answered" THEN Succeeded(healthy)
                           ELSE Failed(wake.collector[p], outcome = "unwritten"),
          !.status[p] = IF outcome = "answered" THEN "ok" ELSE "unavailable",
          !.tried = @ \cup {p}]
  BY DEF Read
<1> DEFINE new == IF outcome = "answered" THEN Succeeded(healthy)
                  ELSE Failed(wake.collector[p], outcome = "unwritten")
<1>3. /\ wake'.at = "collecting" /\ wake'.next = wake.next + 1
      /\ wake'.collector[p] = new
      /\ \A q \in Providers \ {p} : /\ wake'.collector[q] = wake.collector[q]
                                    /\ wake'.status[q] = wake.status[q]
  BY <1>1, <1>2 DEF Wake
<1>4. p \notin Done /\ Done' = Done \cup {p}
  <2>1. \A i \in 1 .. wake.next - 1 : Registered[i] # p
    BY <1>1, ConstantsAssumption
  <2>2. 1 .. wake'.next - 1 = (1 .. wake.next - 1) \cup {wake.next}
    BY <1>1, <1>3
  <2> QED
    BY <2>1, <2>2 DEF Done
<1>5. wake.collector[p] = collector[p]
  BY <1>1, <1>4 DEF WaitInv
<1>6. ~ Waits(collector[p])
  BY <1>1, <1>5 DEF Due, Waits
<1>7. Follows(collector[p], new)
  BY <1>5 DEF Follows, Succeeded, Failed
<1> HIDE DEF new, p
<1>8. ASSUME NEW q \in Providers
      PROVE  /\ Follows(collector[q], wake'.collector[q])
             /\ q \notin Done' => wake'.collector[q] = collector[q]
             /\ Waits(collector[q]) => /\ wake'.collector[q] = collector[q]
                                       /\ q \in Done' => wake'.status[q] = "unavailable"
  <2>1. CASE q = p
    BY <1>3, <1>4, <1>6, <1>7, <2>1
  <2>2. CASE q # p
    <3>1. /\ Follows(collector[q], wake.collector[q])
          /\ q \notin Done => wake.collector[q] = collector[q]
          /\ Waits(collector[q]) => /\ wake.collector[q] = collector[q]
                                    /\ q \in Done => wake.status[q] = "unavailable"
      BY <1>1 DEF WaitInv
    <3> QED
      BY <1>3, <1>4, <2>2, <3>1
  <2> QED
    BY <2>1, <2>2
<1> QED
  BY <1>1, <1>3, <1>8 DEF WaitInv

(* One that waits is passed over and shown as unavailable. *)
LEMMA PassOverWaits ==
  ASSUME TypeOK, WaitInv, PassOver
  PROVE  WaitInv'
<1> DEFINE p == Registered[wake.next]
<1>1. /\ wake.at = "collecting" /\ wake.next \in 1 .. Len(Registered) /\ p \in Providers
      /\ wake \in Wake /\ UNCHANGED <<collector, status>>
  BY Places DEF PassOver, Reading, TypeOK, Wake, files
<1>2. /\ wake'.at = "collecting" /\ wake'.next = wake.next + 1
      /\ wake'.collector = wake.collector
      /\ wake'.status[p] = IF wake.collector[p].failures > 0 THEN "unavailable"
                           ELSE wake.status[p]
      /\ \A q \in Providers \ {p} : wake'.status[q] = wake.status[q]
  BY <1>1 DEF PassOver, Wake
<1>3. Done' = Done \cup {p}
  <2>1. 1 .. wake'.next - 1 = (1 .. wake.next - 1) \cup {wake.next}
    BY <1>1, <1>2
  <2> QED
    BY <2>1 DEF Done
<1> HIDE DEF p
<1>4. ASSUME NEW q \in Providers
      PROVE  /\ Follows(collector[q], wake'.collector[q])
             /\ q \notin Done' => wake'.collector[q] = collector[q]
             /\ Waits(collector[q]) => /\ wake'.collector[q] = collector[q]
                                       /\ q \in Done' => wake'.status[q] = "unavailable"
  <2>1. /\ Follows(collector[q], wake.collector[q])
        /\ q \notin Done => wake.collector[q] = collector[q]
        /\ Waits(collector[q]) => /\ wake.collector[q] = collector[q]
                                  /\ q \in Done => wake.status[q] = "unavailable"
    BY <1>1 DEF WaitInv
  <2>2. Waits(collector[p]) => wake'.status[p] = "unavailable"
    BY <1>1, <1>2 DEF WaitInv, Waits
  <2> QED
    BY <1>2, <1>3, <2>1, <2>2
<1> QED
  BY <1>1, <1>2, <1>4 DEF WaitInv

(* One that waits is shown as unavailable, so it is in no conflict. *)
LEMMA PublishWaits ==
  ASSUME TypeOK, WaitInv, Publish
  PROVE  WaitInv'
<1>1. /\ wake.at = "collecting" /\ wake.next > Len(Registered) /\ wake \in Wake
      /\ wake' = Settled /\ status' = Settled.status /\ collector' = collector
  BY DEF Publish, Checked, TypeOK, Wake
<1>2. Done = Providers
  <2>1. wake.next - 1 = Len(Registered)
    BY <1>1, Places DEF Wake
  <2> QED
    BY <2>1, Places DEF Done
<1>3. ASSUME NEW p \in Providers
      PROVE  /\ Follows(collector[p], Settled.collector[p]) \/ Settled.status[p] = "duplicate"
             /\ Waits(collector[p]) => Settled.collector[p] = collector[p]
  <2>1. /\ Follows(collector[p], wake.collector[p])
        /\ Waits(collector[p]) => /\ wake.collector[p] = collector[p]
                                  /\ wake.status[p] = "unavailable"
    BY <1>1, <1>2 DEF WaitInv
  <2>2. p \in Conflicting(wake.status) => wake.status[p] = "ok"
    BY DEF Conflicting
  <2>3. /\ Settled.status[p] = IF p \in Conflicting(wake.status) THEN "duplicate"
                               ELSE wake.status[p]
        /\ Settled.collector[p] = IF p \in Conflicting(wake.status)
                                  THEN Failed(wake.collector[p], FALSE)
                                  ELSE wake.collector[p]
    BY SettledType
  <2> QED
    BY <2>1, <2>2, <2>3
<1>4. Settled.at = "published"
  BY SettledType
<1> QED
  BY <1>1, <1>3, <1>4 DEF WaitInv

LEMMA NextWaits ==
  ASSUME TypeOK, WaitInv, [Next]_vars
  PROVE  WaitInv'
<1>1. CASE UNCHANGED vars
  BY <1>1 DEF vars, files, WaitInv, Done
<1>2. ASSUME NEW scheduled \in BOOLEAN, Begin(scheduled)
      PROVE  WaitInv'
  <2>1. /\ wake'.at = "collecting" /\ wake'.next = 1 /\ wake'.collector = collector
        /\ UNCHANGED <<collector, status>>
    BY <1>2 DEF Begin, Asleep, files
  <2>2. Done' = {}
    BY <2>1 DEF Done
  <2> QED
    BY <2>1, <2>2 DEF WaitInv, Follows
<1>3. CASE Read
  BY <1>3, ReadWaits
<1>4. CASE PassOver
  BY <1>4, PassOverWaits
<1>5. CASE Publish
  BY <1>5, PublishWaits
<1>6. CASE Record \/ Die
  BY <1>6 DEF Record, Die, Asleep, WaitInv
<1>7. CASE \E p \in Codex : SignIn(p)
  BY <1>7 DEF SignIn, files, WaitInv, Done
<1>8. CASE Settle
  BY <1>8 DEF Settle, files, WaitInv, Done
<1>9. CASE Tick
  BY <1>9 DEF Tick, WaitInv
<1> QED
  BY <1>1, <1>2, <1>3, <1>4, <1>5, <1>6, <1>7, <1>8, <1>9 DEF Next

(* What a wake records of a provider that was refused again. *)
LEMMA RefusedAgain ==
  ASSUME NEW old \in Entry, NEW new \in Entry, Follows(old, new),
         old.failures > 0, ~ old.local, new # old, new.failures > 0, ~ new.local
  PROVE  new.wait >= Least(2 * Delay(old.failures), LongestDelay)
<1>1. new = Failed(old, FALSE)
  <2>1. new.failures # 0
    BY DEF Entry
  <2> QED
    BY <2>1, Zenon DEF Follows
<1>2. new.wait = Delay(Least(old.failures + 1, FailureLimit))
  BY <1>1 DEF Failed
<1>3. old.failures \in 1 .. FailureLimit
  BY ConstantsAssumption DEF Entry
<1> QED
  BY <1>2, <1>3, Delays

(* A wait after a failure is neither cut short nor drawn out by a wake,    *)
(* and a provider that refuses again waits at least twice as long.         *)
THEOREM WaitsAlwaysKept == Spec => WaitsKept
<1> DEFINE Kept ==
      wake' = Asleep /\ wake # Asleep =>
        \A p \in Providers :
          LET old == collector[p]
              new == collector'[p]
              again == /\ old.failures > 0 /\ ~ old.local /\ new # old
                       /\ new.failures > 0 /\ ~ new.local
                       /\ status[p] # "duplicate"
          IN /\ old.failures > 0 /\ old.wait > 0 => new = old
             /\ again => new.wait >= Least(2 * Delay(old.failures), LongestDelay)
<1>1. Init => WaitInv
  BY DEF Init, WaitInv, Asleep
<1>2. TypeOK /\ WaitInv /\ [Next]_vars => WaitInv'
  BY NextWaits
<1>3. TypeOK /\ WaitInv /\ [Next]_vars => [Kept]_vars
  <2> SUFFICES ASSUME TypeOK, WaitInv, [Next]_vars, wake' = Asleep, wake # Asleep
               PROVE  Kept
    BY DEF vars
  <2>1. Record \/ Die
    <3>1. Next
      BY DEF vars
    <3>2. /\ ~ Read /\ ~ PassOver /\ ~ Publish
          /\ \A scheduled \in BOOLEAN : ~ Begin(scheduled)
      <4>1. wake'.at = "asleep"
        BY DEF Asleep
      <4>2. wake \in Wake
        BY DEF TypeOK, Wake
      <4>3. Read => wake'.at = "collecting"
        BY <4>2 DEF Read, Reading, Wake
      <4>4. PassOver => wake'.at = "collecting"
        BY <4>2 DEF PassOver, Reading, Wake
      <4>5. \A scheduled \in BOOLEAN : Begin(scheduled) => wake'.at = "collecting"
        BY DEF Begin, Asleep
      <4>6. Publish => wake'.at = "published"
        BY SettledType DEF Publish
      <4> QED
        BY <4>1, <4>3, <4>4, <4>5, <4>6
    <3>3. ~ Settle /\ ~ Tick /\ \A p \in Codex : ~ SignIn(p)
      BY DEF Settle, Tick, SignIn
    <3> QED
      BY <3>1, <3>2, <3>3 DEF Next
  <2>2. CASE Die
    BY <2>2 DEF Die, files
  <2>3. CASE Record
    <3>1. collector' = wake.collector /\ wake.at = "published"
      BY <2>3 DEF Record
    <3>2. ASSUME NEW p \in Providers
          PROVE  /\ collector[p].failures > 0 /\ collector[p].wait > 0
                      => collector'[p] = collector[p]
                 /\ /\ collector[p].failures > 0 /\ ~ collector[p].local
                    /\ collector'[p] # collector[p]
                    /\ collector'[p].failures > 0 /\ ~ collector'[p].local
                    /\ status[p] # "duplicate"
                    => collector'[p].wait >= Least(2 * Delay(collector[p].failures), LongestDelay)
      <4>1. /\ Follows(collector[p], collector'[p]) \/ status[p] = "duplicate"
            /\ Waits(collector[p]) => collector'[p] = collector[p]
        BY <3>1 DEF WaitInv
      <4>2. collector[p] \in Entry /\ collector'[p] \in Entry
        BY <3>1 DEF TypeOK
      <4> QED
        BY <4>1, <4>2, RefusedAgain DEF Waits
    <3> QED
      BY <3>2
  <2> QED
    BY <2>1, <2>2, <2>3
<1> HIDE DEF Kept
<1>4. Spec => [][Kept]_vars
  BY <1>1, <1>2, <1>3, TypeCorrect, PTL DEF Spec
<1> QED
  BY <1>4 DEF WaitsKept, Kept
=============================================================================
