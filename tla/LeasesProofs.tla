---------------------------- MODULE LeasesProofs ----------------------------
(***************************************************************************)
(* Proofs about the agent pause ledger, for any set of IDs, owners and     *)
(* durations, any capacity, any delay and any clock bound.  And about the  *)
(* delivery of releases, for any number of releases and retries: whatever  *)
(* dies in an update, what is in force can be used, and no dashboard is    *)
(* given up on its way to it.                                              *)
(***************************************************************************)
EXTENDS Leases, Delivery, WellFoundedInduction, TLAPS

(* An entry of any of the four shapes has the type of an entry. *)
LEMMA EntryTypes ==
  ASSUME NEW now \in Nat
  PROVE  /\ Absent \in Entry
         /\ Tombstone(now) \in Entry
         /\ \A owner \in Owners, minutes \in Durations :
              Acquired(owner, minutes, now) \in Entry
         /\ \A e \in Entry : Released(e, now) \in Entry
<1> USE DEF Entry, Time, NoTime
<1>1. Absent \in Entry
  BY DEF Absent, NoOwner
<1>2. Tombstone(now) \in Entry
  BY ConstantsAssumption DEF ConstantsAssumption, Tombstone, NoOwner
<1>3. ASSUME NEW owner \in Owners, NEW minutes \in Durations
      PROVE  Acquired(owner, minutes, now) \in Entry
  BY ConstantsAssumption DEF ConstantsAssumption, Acquired
<1>4. ASSUME NEW e \in Entry
      PROVE  Released(e, now) \in Entry
  <2>1. Later(e.retain, now + Retention) \in Time
    BY ConstantsAssumption DEF ConstantsAssumption, Later
  <2> QED
    BY <2>1 DEF Released
<1> QED
  BY <1>1, <1>2, <1>3, <1>4

(* Pruning keeps an entry whole or drops it, and drops it only once its    *)
(* retention has passed.                                                   *)
LEMMA PruningIsForgetting ==
  ASSUME TypeOK, NEW now \in Nat
  PROVE  /\ Pruned(now) \in [LeaseIds -> Entry]
         /\ \A id \in LeaseIds :
              \/ Pruned(now)[id] = ledger[id] /\ ledger[id].retain > now
              \/ Pruned(now)[id] = Absent /\ ledger[id].retain <= now
  BY EntryTypes DEF TypeOK, Pruned, Entry, Time, NoTime

(* What a step that replaces the ledger writes, and what it records. *)
Written(id, now) ==
  LET entries == Pruned(now) IN
  \/ /\ entries[id] = Absent
     /\ \E owner \in Owners, minutes \in Durations :
          /\ ledger' = [entries EXCEPT ![id] = Acquired(owner, minutes, now)]
          /\ promised' = [promised EXCEPT ![id] = now + minutes]
          /\ ended' = ended
  \/ /\ entries[id] # Absent
     /\ entries[id].released = NoTime
     /\ ledger' = [entries EXCEPT ![id] = Released(entries[id], now)]
     /\ promised' = [promised EXCEPT ![id] = NoTime]
     /\ ended' = [ended EXCEPT ![id] = now]
  \/ /\ entries[id] = Absent
     /\ ledger' = [entries EXCEPT ![id] = Tombstone(now)]
     /\ promised' = [promised EXCEPT ![id] = NoTime]
     /\ ended' = [ended EXCEPT ![id] = now]

Kind ==
  \/ UNCHANGED <<clock, ledger, promised, ended>>
  \/ /\ UNCHANGED <<ledger, promised, ended>>
     /\ clock' = clock + 1
  \/ /\ UNCHANGED clock
     /\ \E id \in LeaseIds, now \in 0 .. clock : Written(id, now)

(* Every step leaves the ledger alone, moves the clock, or writes one of   *)
(* three things.                                                           *)
LEMMA StepKinds ==
  ASSUME TypeOK, [Next]_vars
  PROVE  Kind
<1>1. CASE \E id \in LeaseIds : TurnedAway(id)
  BY <1>1 DEF TurnedAway, Refuse, Unwritten, Kind
<1>2. ASSUME NEW id \in LeaseIds, NEW owner \in Owners, NEW minutes \in Durations,
             NEW now \in RequestTimes, Acquire(id, owner, minutes, now)
      PROVE  Kind
  <2>1. CASE Unwritten
    BY <2>1 DEF Unwritten, Kind
  <2>2. CASE ~ Unwritten
    <3>1. /\ Pruned(now)[id] = Absent
          /\ ledger' = [Pruned(now) EXCEPT ![id] = Acquired(owner, minutes, now)]
          /\ promised' = [promised EXCEPT ![id] = now + minutes]
          /\ UNCHANGED <<clock, ended>>
      BY <1>2, <2>2 DEF Acquire, Refuse, Save, Acquired
    <3> QED
      BY <3>1 DEF Kind, Written, RequestTimes
  <2> QED
    BY <2>1, <2>2
<1>3. ASSUME NEW id \in LeaseIds, NEW now \in RequestTimes, Release(id, now)
      PROVE  Kind
  <2>1. CASE Unwritten
    BY <2>1 DEF Unwritten, Kind
  <2>2. CASE ~ Unwritten
    <3>1. /\ Pruned(now)[id].released = NoTime
          /\ ledger' = [Pruned(now) EXCEPT ![id] =
                          IF Pruned(now)[id] = Absent THEN Tombstone(now)
                          ELSE Released(Pruned(now)[id], now)]
          /\ promised' = [promised EXCEPT ![id] = NoTime]
          /\ ended' = [ended EXCEPT ![id] = now]
          /\ UNCHANGED clock
      BY <1>3, <2>2 DEF Release, Refuse, Save
    <3> QED
      BY <3>1 DEF Kind, Written, RequestTimes
  <2> QED
    BY <2>1, <2>2
<1>4. CASE \E minutes \in PauseMinutes : SetPause(minutes)
  BY <1>4 DEF SetPause, Kind
<1>5. CASE Tick
  BY <1>5 DEF Tick, Kind
<1>6. CASE Share
  BY <1>6 DEF Share, Kind
<1>7. CASE UNCHANGED vars
  BY <1>7 DEF vars, Kind
<1> QED
  BY <1>1, <1>2, <1>3, <1>4, <1>5, <1>6, <1>7 DEF Next

-----------------------------------------------------------------------------
(* Type correctness *)

(* A write keeps the three variables it touches well typed. *)
LEMMA WritingTypes ==
  ASSUME TypeOK, NEW id \in LeaseIds, NEW now \in 0 .. clock, Written(id, now)
  PROVE  /\ ledger' \in [LeaseIds -> Entry]
         /\ promised' \in [LeaseIds -> Time]
         /\ ended' \in [LeaseIds -> Time]
<1>1. now \in Nat
  BY DEF TypeOK
<1>2. Pruned(now) \in [LeaseIds -> Entry]
  BY <1>1, PruningIsForgetting
<1>3. \A e \in Entry : [Pruned(now) EXCEPT ![id] = e] \in [LeaseIds -> Entry]
  BY <1>2
<1>4. \A t \in Time : /\ [promised EXCEPT ![id] = t] \in [LeaseIds -> Time]
                      /\ [ended EXCEPT ![id] = t] \in [LeaseIds -> Time]
  BY DEF TypeOK
<1>5. now \in Time /\ NoTime \in Time /\ \A m \in Durations : now + m \in Time
  BY <1>1, ConstantsAssumption DEF ConstantsAssumption, Time
<1>6. Pruned(now)[id] \in Entry
  BY <1>2
<1> QED
  BY <1>1, <1>3, <1>4, <1>5, <1>6, EntryTypes DEF Written, TypeOK

(* An answer has the type of an answer. *)
LEMMA AnswerTypes ==
  /\ NoAnswer \in Answer
  /\ \A id \in LeaseIds :
       /\ \A code \in {"collector_busy", "lease_state_invalid", "lease_conflict",
                       "lease_capacity", "state_write_failed"} :
            Refused(code, id) \in Answer
       /\ \A e \in Entry :
            /\ Ended(id, e) \in Answer
            /\ \A now \in Nat : Granted(id, e, now) \in Answer
<1> USE DEF Answer
<1>1. NoAnswer \in Answer
  BY DEF NoAnswer, Time, NoTime
<1>2. ASSUME NEW id \in LeaseIds,
             NEW code \in {"collector_busy", "lease_state_invalid", "lease_conflict",
                           "lease_capacity", "state_write_failed"}
      PROVE  Refused(code, id) \in Answer
  BY DEF Refused, NoAnswer, Time, NoTime
<1>3. ASSUME NEW id \in LeaseIds, NEW e \in Entry
      PROVE  Ended(id, e) \in Answer
  BY DEF Ended, Entry
<1>4. ASSUME NEW id \in LeaseIds, NEW e \in Entry, NEW now \in Nat
      PROVE  Granted(id, e, now) \in Answer
  BY DEF Granted, Entry
<1> QED
  BY <1>1, <1>2, <1>3, <1>4

(* What a request leaves in the remaining variables has its type. *)
LEMMA RemainingTypes ==
  ASSUME TypeOK, [Next]_vars
  PROVE  /\ manual' \in Time
         /\ readable' \in SUBSET {"leases", "pause"}
         /\ answer' \in Answer
<1>1. CASE \E id \in LeaseIds : TurnedAway(id)
  BY <1>1, AnswerTypes DEF TurnedAway, Refuse, Unwritten, TypeOK
<1>2. ASSUME NEW id \in LeaseIds, NEW owner \in Owners, NEW minutes \in Durations,
             NEW now \in RequestTimes, Acquire(id, owner, minutes, now)
      PROVE  /\ manual' = manual /\ readable' = readable
             /\ answer' \in Answer
  <2>1. now \in Nat
    BY DEF TypeOK, RequestTimes
  <2>2. Pruned(now)[id] \in Entry /\ Acquired(owner, minutes, now) \in Entry
    BY <2>1, PruningIsForgetting, EntryTypes
  <2>3. \E e \in Entry, code \in {"lease_conflict", "lease_capacity", "state_write_failed"} :
          answer' \in {Refused(code, id), Granted(id, e, now)}
    BY <1>2, <2>2 DEF Acquire, Refuse
  <2>4. manual' = manual /\ readable' = readable
    BY <1>2 DEF Acquire, Refuse, Unwritten, Save
  <2> QED
    BY <2>1, <2>3, <2>4, AnswerTypes
<1>3. ASSUME NEW id \in LeaseIds, NEW now \in RequestTimes, Release(id, now)
      PROVE  /\ manual' = manual /\ readable' = readable
             /\ answer' \in Answer
  <2>1. now \in Nat
    BY DEF TypeOK, RequestTimes
  <2>2. /\ Pruned(now)[id] \in Entry
        /\ Tombstone(now) \in Entry
        /\ Released(Pruned(now)[id], now) \in Entry
    BY <2>1, PruningIsForgetting, EntryTypes
  <2>3. \E e \in Entry, code \in {"lease_capacity", "state_write_failed"} :
          answer' \in {Refused(code, id), Ended(id, e)}
    BY <1>3, <2>2 DEF Release, Refuse
  <2>4. manual' = manual /\ readable' = readable
    BY <1>3 DEF Release, Refuse, Unwritten, Save
  <2> QED
    BY <2>3, <2>4, AnswerTypes
<1>4. CASE \E minutes \in PauseMinutes : SetPause(minutes)
  BY <1>4, AnswerTypes, ConstantsAssumption DEF ConstantsAssumption, SetPause, TypeOK, Time
<1>5. CASE Tick
  BY <1>5, AnswerTypes DEF Tick, TypeOK
<1>6. CASE Share
  BY <1>6, AnswerTypes DEF Share, TypeOK
<1>7. CASE UNCHANGED vars
  BY <1>7 DEF vars, TypeOK
<1> QED
  BY <1>1, <1>2, <1>3, <1>4, <1>5, <1>6, <1>7 DEF Next, TypeOK

LEMMA InitTypes == Init => TypeOK
  BY AnswerTypes, EntryTypes DEF Init, TypeOK, Time, NoTime

LEMMA StepTypes == TypeOK /\ [Next]_vars => TypeOK'
<1> SUFFICES ASSUME TypeOK, [Next]_vars PROVE TypeOK'
  OBVIOUS
<1>1. Kind
  BY StepKinds
<1>2. /\ clock' \in Nat
      /\ ledger' \in [LeaseIds -> Entry]
      /\ promised' \in [LeaseIds -> Time]
      /\ ended' \in [LeaseIds -> Time]
  BY <1>1, WritingTypes DEF Kind, TypeOK
<1> QED
  BY <1>2, RemainingTypes DEF TypeOK

(* Every variable of the ledger's model keeps its type (leases.ps1). *)
THEOREM TypeCorrect == Spec => []TypeOK
  BY InitTypes, StepTypes, PTL DEF Spec

-----------------------------------------------------------------------------
(* The inductive invariant.  The properties speak of what callers were     *)
(* promised and of what is in force; the ledger holds expiry, release and  *)
(* retention.  IInv ties them together: a live entry is the promise that   *)
(* was made, no other promise outlives its expiry, and a release is kept   *)
(* with a retention that covers it.                                        *)

Live(id) == ledger[id].acquired # NoTime /\ ledger[id].released = NoTime

Kept1(id) == ledger[id] = Absent \/ ValidEntry(ledger[id])

Promise(id) ==
  IF Live(id) THEN promised[id] = ledger[id].until ELSE promised[id] <= clock

Retained(id) ==
  ended[id] # NoTime /\ clock < ended[id] + Retention
    => /\ ledger[id].released # NoTime
       /\ ledger[id].retain >= ended[id] + Retention

IInv ==
  /\ TypeOK
  /\ \A id \in LeaseIds : Kept1(id) /\ Promise(id) /\ Retained(id)

LEMMA InitIInv == Init => IInv
<1> SUFFICES ASSUME Init PROVE IInv
  OBVIOUS
<1>1. TypeOK
  BY InitTypes
<1> QED
  BY <1>1 DEF Init, IInv, Kept1, Promise, Retained, Live, Absent, NoTime

(* Of the three things a step can write, each keeps the entry it writes    *)
(* valid, its promise and its retention.                                   *)
LEMMA WritingKeepsSubject ==
  ASSUME IInv, clock' = clock, NEW id \in LeaseIds, NEW now \in 0 .. clock,
         Written(id, now)
  PROVE  Kept1(id)' /\ Promise(id)' /\ Retained(id)'
<1>1. TypeOK /\ now \in Nat /\ clock \in Nat /\ Retention \in Nat
  BY ConstantsAssumption DEF ConstantsAssumption, IInv, TypeOK
<1>2. Pruned(now) \in [LeaseIds -> Entry]
  BY <1>1, PruningIsForgetting
<1>3. \/ Pruned(now)[id] = ledger[id] /\ ledger[id].retain > now
      \/ Pruned(now)[id] = Absent /\ ledger[id].retain <= now
  BY <1>1, PruningIsForgetting
<1>4. ledger[id] \in Entry /\ promised[id] \in Time /\ ended[id] \in Time
  BY <1>1 DEF TypeOK
<1>5. CASE /\ Pruned(now)[id] = Absent
           /\ \E owner \in Owners, minutes \in Durations :
                /\ ledger' = [Pruned(now) EXCEPT ![id] = Acquired(owner, minutes, now)]
                /\ promised' = [promised EXCEPT ![id] = now + minutes]
                /\ ended' = ended
  <2>1. PICK owner \in Owners, minutes \in Durations :
          /\ ledger'[id] = Acquired(owner, minutes, now)
          /\ promised'[id] = now + minutes
          /\ ended'[id] = ended[id]
    BY <1>1, <1>2, <1>5 DEF TypeOK
  <2>2. minutes \in Nat \ {0}
    BY ConstantsAssumption DEF ConstantsAssumption
  <2>3. ~ (ended[id] # NoTime /\ clock < ended[id] + Retention)
    BY <1>1, <1>3, <1>4, <1>5 DEF IInv, Retained, Absent, Entry, Time, NoTime
  <2>4. Kept1(id)'
    BY <1>1, <2>1, <2>2 DEF Kept1, ValidEntry, Acquired, NoTime
  <2>5. Promise(id)'
    BY <1>1, <2>1, <2>2 DEF Promise, Live, Acquired, NoTime
  <2>6. Retained(id)'
    BY <2>1, <2>3 DEF Retained
  <2> QED
    BY <2>4, <2>5, <2>6
<1>6. CASE /\ Pruned(now)[id] # Absent
           /\ Pruned(now)[id].released = NoTime
           /\ ledger' = [Pruned(now) EXCEPT ![id] = Released(Pruned(now)[id], now)]
           /\ promised' = [promised EXCEPT ![id] = NoTime]
           /\ ended' = [ended EXCEPT ![id] = now]
  <2>1. /\ ledger'[id] = Released(ledger[id], now)
        /\ promised'[id] = NoTime
        /\ ended'[id] = now
    BY <1>1, <1>2, <1>3, <1>6 DEF TypeOK
  <2>2. ValidEntry(ledger[id]) /\ ledger[id].released = NoTime
    BY <1>3, <1>6 DEF IInv, Kept1
  <2>3. /\ ledger'[id].released = now
        /\ ledger'[id].acquired = ledger[id].acquired
        /\ ledger'[id].owner = ledger[id].owner
        /\ ledger'[id].minutes = ledger[id].minutes
        /\ ledger'[id].until = ledger[id].until
        /\ ledger'[id].retain = Later(ledger[id].retain, now + Retention)
    BY <1>4, <2>1 DEF Released, Entry
  <2>4. /\ ledger'[id].retain >= now + Retention
        /\ ledger'[id].retain >= ledger[id].retain
    BY <1>1, <1>4, <2>3 DEF Later, Entry, Time, NoTime
  <2>5. /\ ledger[id].acquired # NoTime
        /\ ledger[id].owner \in Owners /\ ledger[id].minutes \in Durations
        /\ ledger[id].until = ledger[id].acquired + ledger[id].minutes
        /\ ledger[id].retain >= ledger[id].until + Retention
    BY <2>2 DEF ValidEntry
  <2>6. ledger'[id].retain >= ledger[id].until + Retention
    <3>1. ledger'[id].retain \in Int
      BY <1>1, <1>4, <2>3 DEF Later, Entry, Time, NoTime
    <3> QED
      BY <1>1, <1>4, <2>4, <2>5, <3>1 DEF Entry, Time, NoTime
  <2>7. Kept1(id)'
    BY <2>3, <2>4, <2>5, <2>6 DEF Kept1, ValidEntry
  <2> QED
    BY <1>1, <2>1, <2>3, <2>4, <2>7 DEF Promise, Live, Retained, NoTime
<1>7. CASE /\ Pruned(now)[id] = Absent
           /\ ledger' = [Pruned(now) EXCEPT ![id] = Tombstone(now)]
           /\ promised' = [promised EXCEPT ![id] = NoTime]
           /\ ended' = [ended EXCEPT ![id] = now]
  <2>1. /\ ledger'[id] = Tombstone(now)
        /\ promised'[id] = NoTime
        /\ ended'[id] = now
    BY <1>1, <1>2, <1>7 DEF TypeOK
  <2> QED
    BY <1>1, <2>1
    DEF Kept1, ValidEntry, Promise, Live, Retained, Tombstone, NoTime
<1> QED
  BY <1>5, <1>6, <1>7 DEF Written

(* Every other entry is left alone, or dropped once it binds nobody.       *)
LEMMA WritingKeepsOthers ==
  ASSUME IInv, clock' = clock, NEW id \in LeaseIds, NEW now \in 0 .. clock,
         Written(id, now), NEW other \in LeaseIds \ {id}
  PROVE  Kept1(other)' /\ Promise(other)' /\ Retained(other)'
<1>1. TypeOK /\ now \in Nat /\ clock \in Nat /\ Retention \in Nat
  BY ConstantsAssumption DEF ConstantsAssumption, IInv, TypeOK
<1>2. Pruned(now) \in [LeaseIds -> Entry]
  BY <1>1, PruningIsForgetting
<1>3. /\ ledger'[other] = Pruned(now)[other]
      /\ promised'[other] = promised[other]
      /\ ended'[other] = ended[other]
  BY <1>1, <1>2 DEF Written, TypeOK
<1>4. ledger[other] \in Entry /\ promised[other] \in Time /\ ended[other] \in Time
  BY <1>1 DEF TypeOK
<1>5. Kept1(other) /\ Promise(other) /\ Retained(other)
  BY DEF IInv
<1>6. CASE Pruned(now)[other] = ledger[other]
  BY <1>3, <1>5, <1>6 DEF Kept1, Promise, Live, Retained
<1>7. CASE Pruned(now)[other] = Absent /\ ledger[other].retain <= now
  <2>1. promised[other] <= clock
    <3>1. CASE Live(other)
      BY <1>1, <1>4, <1>5, <1>7, <3>1
      DEF Live, Promise, Kept1, ValidEntry, Absent, Entry, Time, NoTime
    <3> QED
      BY <1>5, <3>1 DEF Promise
  <2>2. ~ (ended[other] # NoTime /\ clock < ended[other] + Retention)
    BY <1>1, <1>4, <1>5, <1>7 DEF Retained, Entry, Time, NoTime
  <2> QED
    BY <1>3, <1>7, <2>1, <2>2 DEF Kept1, Promise, Live, Retained, Absent
<1> QED
  BY <1>1, <1>6, <1>7, PruningIsForgetting

LEMMA StepIInv == IInv /\ [Next]_vars => IInv'
<1> SUFFICES ASSUME IInv, [Next]_vars PROVE IInv'
  OBVIOUS
<1>1. TypeOK'
  BY StepTypes DEF IInv
<1>2. Kind
  BY StepKinds DEF IInv
<1>3. ASSUME NEW id \in LeaseIds
      PROVE  Kept1(id)' /\ Promise(id)' /\ Retained(id)'
  <2>1. Kept1(id) /\ Promise(id) /\ Retained(id)
    BY DEF IInv
  <2>2. CASE UNCHANGED <<clock, ledger, promised, ended>>
    BY <2>1, <2>2 DEF Kept1, Promise, Live, Retained
  <2>3. CASE UNCHANGED <<ledger, promised, ended>> /\ clock' = clock + 1
    <3>1. /\ clock \in Nat /\ Retention \in Nat
          /\ promised[id] \in Time /\ ended[id] \in Time
      BY ConstantsAssumption DEF ConstantsAssumption, IInv, TypeOK
    <3> QED
      BY <2>1, <2>3, <3>1 DEF Kept1, Promise, Live, Retained, Time, NoTime
  <2>4. CASE UNCHANGED clock /\ \E s \in LeaseIds, now \in 0 .. clock : Written(s, now)
    BY <2>4, WritingKeepsSubject, WritingKeepsOthers
  <2> QED
    BY <1>2, <2>2, <2>3, <2>4 DEF Kind
<1> QED
  BY <1>1, <1>3 DEF IInv

(* A ledger leases.ps1 wrote is always one pause.rs accepts.               *)
THEOREM LedgerAlwaysAccepted == Spec => []LedgerAccepted
<1>1. IInv => LedgerAccepted
  BY DEF IInv, LedgerAccepted, Kept, Kept1
<1> QED
  BY <1>1, InitIInv, StepIInv, PTL DEF Spec

(* A release is remembered for the whole retention, whatever late or       *)
(* repeated requests follow it.                                            *)
THEOREM ReleasesStick == Spec => []ReleaseSticks
<1>1. IInv => ReleaseSticks
  BY DEF IInv, ReleaseSticks, Retained
<1> QED
  BY <1>1, InitIInv, StepIInv, PTL DEF Spec

(* Automation is paused exactly while somebody is owed a pause, until the  *)
(* last of them ends (pause.rs).                                           *)
THEOREM PausesAreExact == Spec => []PauseExact
<1>1. ASSUME IInv PROVE PauseExact
  <2>1. clock \in Nat /\ manual \in Time
    BY <1>1 DEF IInv, TypeOK
  <2>2. ASSUME NEW id \in LeaseIds
        PROVE  IF id \in Active(clock)
               THEN promised[id] = ledger[id].until /\ promised[id] > clock
               ELSE promised[id] <= clock
    <3>1. /\ ledger[id] \in Entry /\ promised[id] \in Time
          /\ Kept1(id) /\ Promise(id)
      BY <1>1 DEF IInv, TypeOK
    <3>2. ledger[id].released = NoTime /\ ledger[id].until > clock => Live(id)
      BY <2>1, <3>1 DEF Live, Kept1, ValidEntry, Absent, Entry, Time, NoTime
    <3> QED
      BY <2>1, <3>1, <3>2 DEF Active, Promise, Live, Entry, Time, NoTime
  <2> DEFINE due  == {t \in {manual} \cup {promised[id] : id \in LeaseIds} : t > clock}
             ends == {ledger[id].until : id \in Active(clock)}
                     \cup {t \in {manual} : t > clock}
  <2>3. due = ends
    <3>1. \A t : t \in due <=> t \in ends
      BY <1>1, <2>1, <2>2 DEF Active, IInv, TypeOK, Time, NoTime
    <3> QED
      BY <3>1
  <2>4. ASSUME ~ Pause(clock).invalid
        PROVE  /\ Pause(clock).paused = (ends # {})
               /\ ends # {} => Pause(clock).until = Max(ends)
    BY <2>4 DEF Pause
  <2> HIDE DEF ends
  <2> QED
    BY <2>3, <2>4 DEF PauseExact
<1> QED
  BY <1>1, InitIInv, StepIInv, PTL DEF Spec

-----------------------------------------------------------------------------
(* What callers are told                                                   *)

LEMMA MaxIs ==
  ASSUME NEW S \in SUBSET Int, S # {}, NEW b \in Int, \A s \in S : s <= b
  PROVE  Max(S) \in S /\ \A s \in S : Max(S) >= s
<1> DEFINE below == {b - s : s \in S}
           less == OpToRel(<, Nat)
<1>1. below \subseteq Nat /\ below # {}
  <2>1. S \subseteq Int
    OBVIOUS
  <2>2. \A s \in S : b - s \in Nat
    BY <2>1
  <2> QED
    BY <2>2
<1>2. IsWellFoundedOn(less, Nat)
  BY NatLessThanWellFounded
<1>3. \A x, y \in Nat : y < x => <<y, x>> \in less
  BY DEF OpToRel
<1> HIDE DEF less
<1>4. PICK x \in below : \A y \in below : ~ (<<y, x>> \in less)
  BY <1>1, <1>2, WFMin
<1>5. \A y \in below : ~ (y < x)
  BY <1>1, <1>3, <1>4
<1>6. PICK top \in S : x = b - top
  BY <1>4
<1>7. \A s \in S : top >= s
  <2>1. \A s \in S : ~ (b - s < b - top)
    BY <1>5, <1>6
  <2> QED
    BY <2>1
<1> QED
  BY <1>7 DEF Max

(* No lease lasts longer from now than the longest one.                    *)
Bounded(id) == ledger[id].until <= clock + Longest

BInv == IInv /\ \A id \in LeaseIds : Bounded(id)

LEMMA InitBounded == Init => BInv
<1> SUFFICES ASSUME Init PROVE BInv
  OBVIOUS
<1>1. IInv
  BY InitIInv
<1>2. Longest \in Nat
  BY ConstantsAssumption DEF ConstantsAssumption
<1> QED
  BY <1>1, <1>2 DEF Init, BInv, Bounded, Absent, NoTime

LEMMA StepBounded == BInv /\ [Next]_vars => BInv'
<1> SUFFICES ASSUME BInv, [Next]_vars PROVE BInv'
  OBVIOUS
<1>1. IInv /\ IInv' /\ TypeOK
  BY StepIInv DEF BInv, IInv
<1>2. Kind
  BY <1>1, StepKinds
<1>3. clock \in Nat /\ Longest \in Nat
  BY <1>1, ConstantsAssumption DEF ConstantsAssumption, TypeOK
<1>4. ASSUME NEW id \in LeaseIds
      PROVE  ledger'[id].until <= clock' + Longest
  <2>1. ledger[id] \in Entry /\ ledger[id].until <= clock + Longest
    BY <1>1 DEF BInv, Bounded, TypeOK
  <2>2. CASE UNCHANGED <<clock, ledger>>
    BY <2>1, <2>2
  <2>3. CASE UNCHANGED ledger /\ clock' = clock + 1
    BY <1>3, <2>1, <2>3 DEF Entry, Time, NoTime
  <2>4. ASSUME NEW subject \in LeaseIds, NEW now \in 0 .. clock, Written(subject, now), clock' = clock
        PROVE  ledger'[id].until <= clock + Longest
    <3>1. Pruned(now) \in [LeaseIds -> Entry] /\ Absent.until <= clock + Longest
      BY <1>1, <1>3, PruningIsForgetting DEF Absent, NoTime
    <3>2. Pruned(now)[id].until <= clock + Longest /\ Pruned(now)[subject] \in Entry
      BY <1>1, <1>3, <2>1, <3>1, PruningIsForgetting
    <3>3. CASE id # subject
      <4>1. ledger'[id] = Pruned(now)[id]
        BY <2>4, <3>1, <3>3 DEF Written
      <4> QED
        BY <3>2, <4>1
    <3>4. CASE id = subject
      <4>1. \/ \E owner \in Owners, minutes \in Durations :
                 ledger'[id] = Acquired(owner, minutes, now)
            \/ ledger'[id] = Released(Pruned(now)[id], now)
            \/ ledger'[id] = Tombstone(now)
        BY <2>4, <3>1, <3>4 DEF Written
      <4>2. CASE \E owner \in Owners, minutes \in Durations :
                   ledger'[id] = Acquired(owner, minutes, now)
        <5>1. PICK owner \in Owners, minutes \in Durations :
                ledger'[id] = Acquired(owner, minutes, now)
          BY <4>2
        <5>2. minutes \in 1 .. Longest
          BY ConstantsAssumption DEF ConstantsAssumption
        <5> QED
          BY <1>3, <5>1, <5>2 DEF Acquired
      <4>3. CASE ledger'[id] = Released(Pruned(now)[id], now)
        <5>1. ledger'[id].until = Pruned(now)[id].until
          BY <3>2, <3>4, <4>3 DEF Released, Entry
        <5> QED
          BY <3>2, <5>1
      <4>4. CASE ledger'[id] = Tombstone(now)
        BY <1>3, <4>4 DEF Tombstone, NoTime
      <4> QED
        BY <4>1, <4>2, <4>3, <4>4
    <3> QED
      BY <3>3, <3>4
  <2> QED
    BY <1>2, <2>2, <2>3, <2>4 DEF Kind
<1> QED
  BY <1>1, <1>4 DEF BInv, Bounded

(* A lease in force pauses automation until it ends at least.              *)
PauseCovers == \A id \in Active(clock) : Pause(clock).invalid \/ Pause(clock).until >= ledger[id].until

LEMMA LeasesCovered == BInv => PauseCovers
<1> SUFFICES ASSUME BInv, NEW id \in Active(clock), ~ Pause(clock).invalid
             PROVE  Pause(clock).until >= ledger[id].until
  BY DEF PauseCovers
<1> DEFINE ends == {ledger[l].until : l \in Active(clock)} \cup {t \in {manual} : t > clock}
           top == Later(clock + Longest, manual)
<1>1. clock \in Nat /\ manual \in Int /\ Longest \in Nat
  BY ConstantsAssumption DEF ConstantsAssumption, BInv, IInv, TypeOK, Time, NoTime
<1>2. \A l \in LeaseIds : ledger[l].until \in Int /\ ledger[l].until <= clock + Longest
  BY DEF BInv, Bounded, IInv, TypeOK, Entry, Time, NoTime
<1>3. top \in Int /\ clock + Longest <= top /\ manual <= top
  BY <1>1 DEF Later
<1>4. Active(clock) \subseteq LeaseIds
  BY DEF Active
<1> HIDE DEF top
<1>5. ends \subseteq Int /\ ledger[id].until \in ends
  BY <1>1, <1>2, <1>4
<1>6. \A t \in ends : t <= top
  BY <1>1, <1>2, <1>3, <1>4
<1>7. Pause(clock).until = Max(ends)
  BY <1>5 DEF Pause
<1> HIDE DEF ends
<1> QED
  BY <1>3, <1>5, <1>6, <1>7, MaxIs

(* An ID that a request no longer finds is not in force.                   *)
LEMMA GoneNotActive ==
  ASSUME IInv, NEW now \in 0 .. clock, NEW id \in LeaseIds, Pruned(now)[id] = Absent
  PROVE  id \notin Active(clock)
<1>1. TypeOK /\ clock \in Nat /\ now \in Nat /\ Retention \in Nat
  BY ConstantsAssumption DEF ConstantsAssumption, IInv, TypeOK
<1>2. ledger[id] \in Entry /\ Kept1(id)
  BY <1>1 DEF IInv, TypeOK
<1>3. ledger[id] = Absent \/ ledger[id].retain <= now
  BY <1>1, PruningIsForgetting
<1> QED
  BY <1>1, <1>2, <1>3 DEF Active, Kept1, ValidEntry, Absent, Entry, Time, NoTime

SaidInv == BInv /\ AnswersTrue

LEMMA StepSaid == SaidInv /\ [Next]_vars => AnswersTrue'
<1> SUFFICES ASSUME SaidInv, [Next]_vars PROVE AnswersTrue'
  OBVIOUS
<1>1. BInv /\ BInv' /\ IInv /\ TypeOK /\ PauseCovers
  BY StepBounded, LeasesCovered DEF SaidInv, BInv, IInv
<1>2. PauseCovers'
  <2>1. (BInv => PauseCovers)'
    BY LeasesCovered, PTL
  <2> QED
    BY <1>1, <2>1
<1>3. clock \in Nat
  BY <1>1 DEF TypeOK
<1>4. CASE answer'.code \notin {"ok", "lease_capacity"}
  BY <1>4 DEF AnswersTrue, SaidTrue, FullLedgerHoldsNoneBack
<1>5. CASE UNCHANGED vars
  BY <1>5 DEF SaidInv, AnswersTrue, SaidTrue, FullLedgerHoldsNoneBack, vars, Active, Pause,
     LedgerInvalid, Kept
<1>6. ASSUME NEW id \in LeaseIds, NEW now \in 0 .. clock, Pruned(now)[id] = Absent,
             Refuse(id, "lease_capacity")
      PROVE  AnswersTrue'
  <2>1. id \notin Active(clock)
    BY <1>1, <1>6, GoneNotActive
  <2>2. answer'.code = "lease_capacity" /\ answer'.id = id
    BY <1>6 DEF Refuse, Refused, NoAnswer
  <2>3. Active(clock)' = Active(clock)
    BY <1>6 DEF Refuse, Unwritten, Active
  <2> QED
    BY <2>1, <2>2, <2>3 DEF AnswersTrue, SaidTrue, FullLedgerHoldsNoneBack
(* The ID it names is in force now as it was when the request read it.     *)
<1>7. ASSUME NEW id \in LeaseIds, NEW e \in Entry, NEW now \in 0 .. clock,
             answer' = Granted(id, e, now), ledger'[id] = e, clock' = clock
      PROVE  AnswersTrue'
  <2>1. /\ answer'.code = "ok" /\ answer'.id = id /\ answer'.until = e.until
        /\ answer'.active <=> e.released = NoTime /\ e.until > now
        /\ answer'.released <=> e.released # NoTime
    BY <1>7 DEF Granted
  <2>2. ASSUME answer'.active, answer'.until > clock'
        PROVE  Pause(clock)'.invalid \/ Pause(clock)'.until >= answer'.until
    <3>1. id \in Active(clock)'
      BY <1>7, <2>1, <2>2 DEF Active
    <3> QED
      BY <1>2, <1>7, <2>1, <3>1 DEF PauseCovers
  <2>3. answer'.released => id \notin Active(clock)'
    BY <1>7, <2>1 DEF Active
  <2> QED
    BY <2>1, <2>2, <2>3 DEF AnswersTrue, SaidTrue, FullLedgerHoldsNoneBack
<1>8. ASSUME NEW id \in LeaseIds, NEW e, answer' = Ended(id, e), ledger'[id].released # NoTime
      PROVE  AnswersTrue'
  <2>1. /\ answer'.code = "ok" /\ answer'.id = id
        /\ ~ answer'.active /\ answer'.released
    BY <1>8 DEF Ended
  <2>2. id \notin Active(clock)'
    BY <1>8 DEF Active
  <2> QED
    BY <2>1, <2>2 DEF AnswersTrue, SaidTrue, FullLedgerHoldsNoneBack
<1>9. CASE \E id \in LeaseIds : TurnedAway(id)
  BY <1>4, <1>9 DEF TurnedAway, Refuse, Refused, NoAnswer
<1>10. CASE (\E minutes \in PauseMinutes : SetPause(minutes)) \/ Tick \/ Share
  BY <1>4, <1>10 DEF SetPause, Tick, Share, NoAnswer
<1>11. ASSUME NEW id \in LeaseIds, NEW owner \in Owners, NEW minutes \in Durations,
              NEW now \in RequestTimes, Acquire(id, owner, minutes, now)
       PROVE  AnswersTrue'
  <2>1. now \in 0 .. clock /\ now \in Nat
    BY <1>3 DEF RequestTimes
  <2> DEFINE entry == Pruned(now)[id]
             fresh == Acquired(owner, minutes, now)
  <2>2. /\ Pruned(now) \in [LeaseIds -> Entry] /\ fresh \in Entry
        /\ entry = ledger[id] \/ entry = Absent
        /\ ledger[id] \in Entry
    BY <1>1, <2>1, PruningIsForgetting, EntryTypes DEF TypeOK
  <2>3. CASE \E code \in {"lease_conflict", "state_write_failed"} : Refuse(id, code)
    BY <1>4, <2>3 DEF Refuse, Refused, NoAnswer
  <2>4. CASE entry = Absent /\ Refuse(id, "lease_capacity")
    BY <1>6, <2>1, <2>4
  <2>5. CASE entry # Absent /\ answer' = Granted(id, entry, now) /\ Unwritten
    <3>1. entry = ledger[id] /\ ledger'[id] = ledger[id] /\ clock' = clock
      BY <2>2, <2>5 DEF Unwritten
    <3> QED
      BY <1>7, <2>1, <2>2, <2>5, <3>1
  <2>6. CASE Save(id, [Pruned(now) EXCEPT ![id] = fresh]) /\ answer' = Granted(id, fresh, now)
    <3>1. ledger'[id] = fresh /\ clock' = clock
      BY <2>2, <2>6 DEF Save
    <3> QED
      BY <1>7, <2>1, <2>2, <2>6, <3>1
  <2> QED
    BY <1>11, <2>3, <2>4, <2>5, <2>6 DEF Acquire
<1>12. ASSUME NEW id \in LeaseIds, NEW now \in RequestTimes, Release(id, now)
       PROVE  AnswersTrue'
  <2>1. now \in 0 .. clock /\ now \in Nat
    BY <1>3 DEF RequestTimes
  <2> DEFINE entry == Pruned(now)[id]
             over == IF entry = Absent THEN Tombstone(now) ELSE Released(entry, now)
  <2>2. /\ Pruned(now) \in [LeaseIds -> Entry] /\ entry \in Entry
        /\ entry = ledger[id] \/ entry = Absent
    BY <1>1, <2>1, PruningIsForgetting
  <2>3. CASE Refuse(id, "state_write_failed")
    BY <1>4, <2>3 DEF Refuse, Refused, NoAnswer
  <2>4. CASE entry = Absent /\ Refuse(id, "lease_capacity")
    BY <1>6, <2>1, <2>4
  <2>5. CASE entry # Absent /\ entry.released # NoTime /\ answer' = Ended(id, entry) /\ Unwritten
    <3>1. entry = ledger[id] /\ ledger'[id] = ledger[id]
      BY <2>2, <2>5 DEF Unwritten
    <3> QED
      BY <1>8, <2>5, <3>1
  <2>6. CASE Save(id, [Pruned(now) EXCEPT ![id] = over]) /\ answer' = Ended(id, over)
    <3>1. over.released = now
      BY <2>2 DEF Tombstone, Released, Entry
    <3>2. ledger'[id] = over
      BY <2>2, <2>6 DEF Save
    <3>3. ledger'[id].released # NoTime
      BY <2>1, <3>1, <3>2 DEF NoTime
    <3> QED
      BY <1>8, <2>6, <3>3
  <2> QED
    BY <1>12, <2>3, <2>4, <2>5, <2>6 DEF Release
<1> QED
  BY <1>5, <1>9, <1>10, <1>11, <1>12 DEF Next

(* What a caller of leases.ps1 is told of its lease is so the moment it is *)
(* told, and a full ledger refuses nobody whose lease is in force.         *)
THEOREM AnswersAreTrue == Spec => []AnswersTrue
<1>1. Init => AnswersTrue
  BY DEF Init, NoAnswer, AnswersTrue, SaidTrue, FullLedgerHoldsNoneBack
<1> QED
  BY <1>1, InitBounded, StepBounded, StepSaid, PTL DEF Spec, SaidInv

-----------------------------------------------------------------------------
(* Refinement *)

LEMMA WritingKeepsContract ==
  ASSUME IInv, UNCHANGED clock, NEW id \in LeaseIds, NEW now \in 0 .. clock,
         Written(id, now)
  PROVE  Contract!Request
<1>1. TypeOK /\ now \in Nat /\ clock \in Nat /\ Retention \in Nat
  BY ConstantsAssumption DEF ConstantsAssumption, IInv, TypeOK
<1>2. Pruned(now) \in [LeaseIds -> Entry]
  BY <1>1, PruningIsForgetting
<1>3. ledger[id] \in Entry
  BY <1>1 DEF TypeOK
<1>4. ASSUME Pruned(now)[id] = Absent PROVE Contract!Forgettable(id)
  <2>1. ledger[id] = Absent \/ ledger[id].retain <= now
    BY <1>1, <1>4, PruningIsForgetting
  <2>2. Absent.retain <= clock
    BY <1>1 DEF Absent, NoTime
  <2>3. ledger[id].retain <= clock
    BY <1>1, <1>3, <2>1, <2>2 DEF Entry, Time, NoTime
  <2> QED
    BY <2>3 DEF Contract!Forgettable, Shown
<1>5. Contract!Move(id, Shown(ledger'[id]))
  <2>1. CASE /\ Pruned(now)[id] = Absent
             /\ \E owner \in Owners, minutes \in Durations :
                  /\ ledger' = [Pruned(now) EXCEPT ![id] = Acquired(owner, minutes, now)]
                  /\ promised' = [promised EXCEPT ![id] = now + minutes]
                  /\ ended' = ended
    <3>1. PICK owner \in Owners, minutes \in Durations :
            ledger'[id] = Acquired(owner, minutes, now)
      BY <1>2, <2>1
    <3>2. Shown(ledger'[id]) = [until |-> now + minutes, stage |-> "held",
                                keep |-> now + minutes + Retention]
      BY <1>1, <3>1 DEF Shown, Acquired, Absent, NoTime
    <3> QED
      BY <1>4, <2>1, <3>2 DEF Contract!Move, Contract!Grant
  <2>2. CASE /\ Pruned(now)[id] # Absent
             /\ Pruned(now)[id].released = NoTime
             /\ ledger' = [Pruned(now) EXCEPT ![id] = Released(Pruned(now)[id], now)]
             /\ promised' = [promised EXCEPT ![id] = NoTime]
             /\ ended' = [ended EXCEPT ![id] = now]
    <3>1. /\ ledger'[id] = Released(ledger[id], now)
          /\ ledger[id].released = NoTime
          /\ ledger[id].retain > now
      BY <1>1, <1>2, <2>2, PruningIsForgetting
    <3>2. /\ ledger'[id].until = ledger[id].until
          /\ ledger'[id].released = now
          /\ ledger'[id].retain = Later(ledger[id].retain, now + Retention)
      BY <1>1, <1>3, <3>1 DEF Released, Entry
    <3>3. ledger'[id].retain >= ledger[id].retain
      BY <1>1, <1>3, <3>2 DEF Later, Entry, Time, NoTime
    <3>4. Shown(ledger'[id]) = [until |-> ledger[id].until, stage |-> "over",
                                keep |-> ledger'[id].retain]
      BY <1>1, <3>2 DEF Shown, Absent, NoTime
    <3>5. Shown(ledger[id]).stage = "held"
      BY <1>1, <3>1 DEF Shown, Absent, NoTime
    <3> QED
      BY <3>3, <3>4, <3>5 DEF Contract!Move, Contract!End, Shown
  <2>3. CASE /\ Pruned(now)[id] = Absent
             /\ ledger' = [Pruned(now) EXCEPT ![id] = Tombstone(now)]
             /\ promised' = [promised EXCEPT ![id] = NoTime]
             /\ ended' = [ended EXCEPT ![id] = now]
    <3>1. ledger'[id] = Tombstone(now)
      BY <1>2, <2>3
    <3>2. Shown(ledger'[id]) = [until |-> NoTime, stage |-> "over", keep |-> now + Retention]
      BY <1>1, <3>1 DEF Shown, Tombstone, Absent, NoTime
    <3> QED
      BY <1>4, <2>3, <3>2 DEF Contract!Move, Contract!Cancel
  <2> QED
    BY <2>1, <2>2, <2>3 DEF Written
<1>6. ASSUME NEW other \in LeaseIds \ {id}
      PROVE  \/ Shown(ledger'[other]) = Shown(ledger[other])
             \/ /\ Contract!Forgettable(other)
                /\ Shown(ledger'[other]) = Contract!Free
  <2>1. ledger'[other] = Pruned(now)[other]
    BY <1>2 DEF Written
  <2>2. CASE Pruned(now)[other] = ledger[other]
    BY <2>1, <2>2
  <2>3. CASE Pruned(now)[other] = Absent /\ ledger[other].retain <= now
    <3>1. ledger[other].retain <= clock
      BY <1>1, <2>3 DEF TypeOK, Entry, Time, NoTime
    <3> QED
      BY <2>1, <2>3, <3>1
      DEF Contract!Forgettable, Contract!Free, Shown, Absent
  <2> QED
    BY <1>1, <2>2, <2>3, PruningIsForgetting
<1> QED
  BY <1>5, <1>6 DEF Contract!Request, Shown

(* The ledger implements the contract agents are given: an expiry is fixed *)
(* when it is granted, a request moves no ID but its own, and an ID is     *)
(* free again only after its retention.                                    *)
THEOREM LedgerKeepsContract == Spec => KeepsContract
<1>1. Init => Contract!Init
  BY DEF Init, Contract!Init, Contract!Free, Shown, Absent
<1>2. ASSUME IInv, [Next]_vars
      PROVE  Contract!Next \/ UNCHANGED <<clock, [id \in LeaseIds |-> Shown(ledger[id])]>>
  <2>1. Kind
    BY <1>2, StepKinds DEF IInv
  <2>2. CASE UNCHANGED <<clock, ledger, promised, ended>>
    BY <2>2
  <2>3. CASE UNCHANGED <<ledger, promised, ended>> /\ clock' = clock + 1
    BY <1>2, <2>3 DEF Contract!Next, Contract!Tick, IInv, TypeOK
  <2>4. CASE UNCHANGED clock /\ \E id \in LeaseIds, now \in 0 .. clock : Written(id, now)
    BY <1>2, <2>4, WritingKeepsContract DEF Contract!Next
  <2> QED
    BY <2>1, <2>2, <2>3, <2>4 DEF Kind
<1> QED
  BY <1>1, <1>2, InitIInv, StepIInv, PTL DEF Spec, KeepsContract, Contract!Spec

-----------------------------------------------------------------------------
(* Delivery: the inductive invariant.  What an update has found out and     *)
(* done by each of its steps is what taking it back, or closing it, relies  *)
(* on, wherever it is interrupted.                                          *)

Looking == {"looking", "staging", "receipt", "preflight", "waiting", "pruning"}
Restoring == {"recovering", "restoring", "restored", "forgetting"}
Changing == {"draining", "pointing", "activating", "checking", "undoing", "undone",
             "rejecting", "recording", "closing"}
Alone == {"restoring", "restored"} \cup Changing

AnyRelease == Releases \cup {None}
Transaction == [open : {TRUE}, previous : AnyRelease, candidate : Releases]
Updates == [at : Looking \cup Restoring \cup Changing, current : AnyRelease, sha : AnyRelease]
Dashboards == [at : {"closed", "relay", "opening", "open", "script", "scripted"},
               last : AnyRelease, release : AnyRelease]

TypesInv ==
  /\ main \in Releases /\ pointer \in AnyRelease /\ previous \in AnyRelease
  /\ transaction \in Transaction \cup {NoTransaction}
  /\ runner \in Updates \cup {Idle}
  /\ command \in {Idle} \cup [at : {"leased"}] \cup [at : {"running"}, release : Releases]
  /\ dashboard \in Dashboards

SchemaInv == schema \in 0 .. Latest

Newer(sha, release) == sha > release

(* What an update knows at its step.  A transaction is open while anything  *)
(* changes, and not before; what is to come is newer than what is in force, *)
(* is there, and reads the state; and who closes a transaction knows that   *)
(* what is in force was healthy.                                            *)
Known(r) ==
  /\ r.at \in Looking => ~ transaction.open
  /\ r.at \in Restoring \cup Changing => transaction.open
  /\ r.at \in Changing => transaction.previous = r.current
  /\ r.at \in Alone => command = Idle
  /\ r.at \in {"staging", "receipt", "preflight", "waiting", "draining", "pointing"} =>
       pointer = r.current /\ Newer(r.sha, pointer) /\ r.sha \in Releases
  /\ r.at \in {"receipt", "preflight", "waiting", "draining", "pointing"} => r.sha \in places
  /\ r.at \in {"waiting", "draining", "pointing"} => Reads(r.sha)
  /\ r.at \in {"activating", "checking", "recording"} => pointer = r.sha /\ r.sha \in Releases
  /\ r.at \in {"restored", "forgetting"} => pointer = transaction.previous
  /\ r.at = "undone" => pointer = r.current
  /\ r.at = "rejecting" => r.current \in {None, pointer}
  /\ r.at \in {"recording", "closing"} => pointer \in healthy \cup {None}

(* What is gone back to was healthy, and a command runs what is in force.   *)
StandingInv ==
  /\ transaction.open => transaction.previous \in healthy \cup {None}
  /\ command.at = "running" => command.release = pointer

DeliveryInv ==
  /\ TypesInv /\ SchemaInv /\ Known(runner) /\ StandingInv
  /\ SelectedReadable /\ InPlace /\ NeverSilentlyHealthy

-----------------------------------------------------------------------------
(* Each step of a delivery keeps it *)

LEMMA ReleasesType ==
  /\ Latest \in Nat /\ None \notin Releases
  /\ \A r \in Releases : r \in Int /\ r >= 1 /\ r <= Latest
BY ReleasesAssumption DEF None, Releases

LEMMA KnownIdle == Known(Idle)
BY DEF Known, Idle, Looking, Restoring, Changing, Alone

LEMMA AtWork ==
  ASSUME TypesInv, runner.at # "idle"
  PROVE  runner \in Updates
BY DEF TypesInv, Idle

LEMMA GoneTo ==
  ASSUME runner \in Updates, NEW step \in Looking \cup Restoring \cup Changing, GoTo(step)
  PROVE  /\ runner' \in Updates /\ runner'.at = step
         /\ runner'.current = runner.current /\ runner'.sha = runner.sha
BY DEF GoTo, Updates

(* The files, the programs and the state stay: only the update moves on.    *)
LEMMA MovesOn ==
  ASSUME DeliveryInv, runner' \in Updates \cup {Idle}, Known(runner'), main' \in Releases,
         UNCHANGED <<files, schema, command, dashboard, healthy>>
  PROVE  DeliveryInv'
<1>1. /\ pointer' = pointer /\ transaction' = transaction /\ previous' = previous
      /\ places' = places /\ schema' = schema /\ command' = command
      /\ dashboard' = dashboard /\ healthy' = healthy
  BY DEF files
<1>2. TypesInv' /\ SchemaInv'
  BY <1>1 DEF DeliveryInv, TypesInv, SchemaInv
<1>3. Known(runner)'
  BY <1>1 DEF Known, Reads
<1>4. StandingInv'
  BY <1>1 DEF DeliveryInv, StandingInv
<1>5. SelectedReadable' /\ InPlace' /\ NeverSilentlyHealthy'
  BY <1>1 DEF DeliveryInv, SelectedReadable, InPlace, NeverSilentlyHealthy, Reads, Held
<1> QED
  BY <1>2, <1>3, <1>4, <1>5 DEF DeliveryInv

LEMMA Stops ==
  ASSUME DeliveryInv, Stop, main' \in Releases, UNCHANGED <<files, schema, command, dashboard, healthy>>
  PROVE  DeliveryInv'
<1>1. runner' = Idle
  BY DEF Stop
<1>2. Known(runner')
  BY <1>1, KnownIdle
<1> QED
  BY <1>1, <1>2, MovesOn

Beside == UNCHANGED <<main, command, dashboard>>

LEMMA StartKeeps ==
  ASSUME DeliveryInv, Start, Beside, UNCHANGED <<schema, healthy>>
  PROVE  DeliveryInv'
<1>1. runner' = [at |-> IF transaction.open THEN "recovering" ELSE "looking", current |-> None, sha |-> None]
  BY DEF Start
<1>2. runner' \in Updates
  BY <1>1 DEF Updates, AnyRelease, Looking, Restoring
<1>3. Known(runner')
  <2>1. CASE transaction.open
    <3>1. runner'.at = "recovering"
      BY <1>1, <2>1
    <3> QED
      BY <2>1, <3>1 DEF Known, Looking, Restoring, Changing, Alone
  <2>2. CASE ~ transaction.open
    <3>1. runner'.at = "looking"
      BY <1>1, <2>2
    <3> QED
      BY <2>2, <3>1 DEF Known, Looking, Restoring, Changing, Alone
  <2> QED
    BY <2>1, <2>2
<1> QED
  BY <1>2, <1>3, MovesOn DEF Start, Beside, DeliveryInv, TypesInv

LEMMA RecoverKeeps ==
  ASSUME DeliveryInv, Recover, Beside, UNCHANGED <<schema, healthy>>
  PROVE  DeliveryInv'
<1>1. runner.at = "recovering" /\ runner \in Updates /\ transaction.open /\ main' \in Releases
  BY AtWork DEF Recover, At, DeliveryInv, TypesInv, Known, Restoring, Beside
<1>2. CASE Stop
  BY <1>1, <1>2, Stops DEF Recover, Beside
<1>3. CASE command = Idle /\ GoTo("restoring")
  <2>1. runner' \in Updates /\ runner'.at = "restoring"
    BY <1>1, <1>3, GoneTo DEF Restoring
  <2>2. Known(runner')
    BY <1>1, <1>3, <2>1 DEF Known, Looking, Restoring, Changing, Alone
  <2> QED
    BY <1>1, <2>1, <2>2, MovesOn DEF Recover, Beside
<1>4. CASE transaction.previous = None /\ pointer = None /\ GoTo("forgetting")
  <2>1. runner' \in Updates /\ runner'.at = "forgetting"
    BY <1>1, <1>4, GoneTo DEF Restoring
  <2>2. Known(runner')
    BY <1>1, <1>4, <2>1 DEF Known, Looking, Restoring, Changing, Alone
  <2> QED
    BY <1>1, <2>1, <2>2, MovesOn DEF Recover, Beside
<1> QED
  BY <1>2, <1>3, <1>4 DEF Recover

LEMMA RestoredKeeps ==
  ASSUME DeliveryInv, Restored, Beside, UNCHANGED <<schema, healthy>>
  PROVE  DeliveryInv'
<1>1. /\ runner.at = "restored" /\ runner \in Updates /\ transaction.open
      /\ pointer = transaction.previous /\ main' \in Releases
  BY AtWork DEF Restored, At, DeliveryInv, TypesInv, Known, Restoring, Beside
<1>2. CASE Stop
  BY <1>1, <1>2, Stops DEF Restored, Beside
<1>3. CASE GoTo("forgetting")
  <2>1. runner' \in Updates /\ runner'.at = "forgetting"
    BY <1>1, <1>3, GoneTo DEF Restoring
  <2>2. Known(runner')
    BY <1>1, <2>1 DEF Known, Looking, Restoring, Changing, Alone
  <2> QED
    BY <1>1, <2>1, <2>2, MovesOn DEF Restored, Beside
<1> QED
  BY <1>2, <1>3 DEF Restored

LEMMA LookKeeps ==
  ASSUME DeliveryInv, Look, Beside, UNCHANGED <<schema, healthy>>
  PROVE  DeliveryInv'
<1>1. /\ runner.at = "looking" /\ ~ transaction.open /\ main' \in Releases /\ main \in Releases
      /\ pointer \in AnyRelease
  BY DEF Look, At, DeliveryInv, TypesInv, Known, Looking, Beside
<1>2. CASE Stop
  BY <1>1, <1>2, Stops DEF Look, Beside
<1>3. CASE /\ pointer # main /\ ~ (main < pointer)
           /\ runner' = [at |-> "staging", current |-> pointer, sha |-> main]
  <2>1. /\ runner' \in Updates /\ runner'.at = "staging"
        /\ runner'.current = pointer /\ runner'.sha = main
    BY <1>1, <1>3 DEF Updates, AnyRelease, Looking
  <2>2. Newer(main, pointer)
    <3>1. main \in Int /\ pointer \in Int
      BY <1>1, ReleasesType DEF AnyRelease, None
    <3> QED
      BY <1>3, <3>1 DEF Newer
  <2>3. Known(runner')
    BY <1>1, <2>1, <2>2 DEF Known, Looking, Restoring, Changing, Alone
  <2> QED
    BY <1>1, <2>1, <2>3, MovesOn DEF Look, Beside
<1> QED
  BY <1>2, <1>3 DEF Look

LEMMA PreflightKeeps ==
  ASSUME DeliveryInv, Preflight, Beside, UNCHANGED <<schema, healthy>>
  PROVE  DeliveryInv'
<1>1. /\ runner.at = "preflight" /\ runner \in Updates /\ ~ transaction.open /\ main' \in Releases
      /\ pointer = runner.current /\ Newer(runner.sha, pointer) /\ runner.sha \in Releases
      /\ runner.sha \in places
  BY AtWork DEF Preflight, At, DeliveryInv, TypesInv, Known, Looking, Beside
<1>2. CASE Stop
  BY <1>1, <1>2, Stops DEF Preflight, Beside
<1>3. CASE Answers(runner.sha) /\ GoTo("waiting")
  <2>1. /\ runner' \in Updates /\ runner'.at = "waiting"
        /\ runner'.current = runner.current /\ runner'.sha = runner.sha
    BY <1>1, <1>3, GoneTo DEF Looking
  <2>2. Known(runner')
    BY <1>1, <1>3, <2>1 DEF Known, Answers, Looking, Restoring, Changing, Alone
  <2> QED
    BY <1>1, <2>1, <2>2, MovesOn DEF Preflight, Beside
<1> QED
  BY <1>2, <1>3 DEF Preflight

(* What an update that changes something falls back to.                     *)
LEMMA FailKeeps ==
  ASSUME DeliveryInv, Fail, Beside, UNCHANGED <<files, schema, healthy>>,
         runner.at \in {"draining", "activating", "checking"}
  PROVE  DeliveryInv'
<1>1. /\ runner \in Updates /\ transaction.open /\ main' \in Releases /\ command = Idle
      /\ transaction.previous = runner.current
  BY AtWork DEF DeliveryInv, TypesInv, Known, Changing, Alone, Beside
<1>2. CASE runner.current = None
  <2>1. runner' \in Updates /\ runner'.at = "rejecting" /\ runner'.current = runner.current
    BY <1>1, <1>2, GoneTo DEF Changing, Fail
  <2>2. Known(runner')
    BY <1>1, <1>2, <2>1 DEF Known, Looking, Restoring, Changing, Alone
  <2> QED
    BY <1>1, <2>1, <2>2, MovesOn DEF Beside
<1>3. CASE runner.current # None
  <2>1. runner' \in Updates /\ runner'.at = "undoing" /\ runner'.current = runner.current
    BY <1>1, <1>3, GoneTo DEF Changing, Fail
  <2>2. Known(runner')
    BY <1>1, <1>3, <2>1 DEF Known, Looking, Restoring, Changing, Alone
  <2> QED
    BY <1>1, <2>1, <2>2, MovesOn DEF Beside
<1> QED
  BY <1>2, <1>3

LEMMA DrainKeeps ==
  ASSUME DeliveryInv, Drain, Beside, UNCHANGED <<schema, healthy>>
  PROVE  DeliveryInv'
<1>1. /\ runner.at = "draining" /\ runner \in Updates /\ transaction.open /\ main' \in Releases
      /\ command = Idle /\ transaction.previous = runner.current
      /\ pointer = runner.current /\ Newer(runner.sha, pointer) /\ runner.sha \in Releases
      /\ runner.sha \in places /\ Reads(runner.sha)
  BY AtWork DEF Drain, At, DeliveryInv, TypesInv, Known, Changing, Alone, Beside
<1>2. CASE Fail
  BY <1>1, <1>2, FailKeeps DEF Drain
<1>3. CASE GoTo("pointing")
  <2>1. /\ runner' \in Updates /\ runner'.at = "pointing"
        /\ runner'.current = runner.current /\ runner'.sha = runner.sha
    BY <1>1, <1>3, GoneTo DEF Changing
  <2>2. Known(runner')
    BY <1>1, <2>1 DEF Known, Looking, Restoring, Changing, Alone
  <2> QED
    BY <1>1, <2>1, <2>2, MovesOn DEF Drain, Beside
<1> QED
  BY <1>2, <1>3 DEF Drain

LEMMA UndoneKeeps ==
  ASSUME DeliveryInv, Undone, Beside, UNCHANGED <<schema, healthy>>
  PROVE  DeliveryInv'
<1>1. /\ runner.at = "undone" /\ runner \in Updates /\ transaction.open /\ main' \in Releases
      /\ command = Idle /\ transaction.previous = runner.current /\ pointer = runner.current
  BY AtWork DEF Undone, At, DeliveryInv, TypesInv, Known, Changing, Alone, Beside
<1>2. CASE Stop
  BY <1>1, <1>2, Stops DEF Undone, Beside
<1>3. CASE GoTo("rejecting")
  <2>1. runner' \in Updates /\ runner'.at = "rejecting" /\ runner'.current = runner.current
    BY <1>1, <1>3, GoneTo DEF Changing
  <2>2. Known(runner')
    BY <1>1, <2>1 DEF Known, Looking, Restoring, Changing, Alone
  <2> QED
    BY <1>1, <2>1, <2>2, MovesOn DEF Undone, Beside
<1> QED
  BY <1>2, <1>3 DEF Undone

(* The release in force changes while the runner is alone: what was held is *)
(* what dashboards hold.                                                    *)
LEMMA Selects ==
  ASSUME DeliveryInv, NEW release \in AnyRelease, pointer' = release,
         release = None \/ Reads(release), release \in places \cup {None}, transaction.open,
         command = Idle, runner' \in Updates, Known(runner)', Beside,
         UNCHANGED <<transaction, previous, places, schema, healthy>>
  PROVE  DeliveryInv'
<1>1. TypesInv' /\ SchemaInv'
  BY DEF DeliveryInv, TypesInv, SchemaInv, Beside
<1>2. StandingInv'
  BY DEF DeliveryInv, StandingInv, Beside, Idle
<1>3. SelectedReadable'
  BY DEF SelectedReadable, Reads
<1>4. InPlace'
  BY DEF DeliveryInv, InPlace, Held, Beside
<1>5. NeverSilentlyHealthy'
  BY DEF NeverSilentlyHealthy
<1> QED
  BY <1>1, <1>2, <1>3, <1>4, <1>5 DEF DeliveryInv

LEMMA RestoreKeeps ==
  ASSUME DeliveryInv, Restore, Beside, UNCHANGED <<schema, healthy>>
  PROVE  DeliveryInv'
<1>1. /\ runner.at = "restoring" /\ runner \in Updates /\ transaction.open /\ main' \in Releases
      /\ command = Idle
  BY AtWork DEF Restore, At, DeliveryInv, TypesInv, Known, Restoring, Alone, Beside
<1>2. CASE Stop /\ UNCHANGED pointer
  BY <1>1, <1>2, Stops DEF Restore, Beside, files
<1>3. CASE Answers(transaction.previous) /\ pointer' = transaction.previous /\ GoTo("restored")
  <2>1. /\ runner' \in Updates /\ runner'.at = "restored"
    BY <1>1, <1>3, GoneTo DEF Restoring
  <2>2. Known(runner)'
    BY <1>1, <1>3, <2>1 DEF Known, Looking, Restoring, Changing, Alone, Restore, Beside
  <2>3. transaction.previous \in AnyRelease
    <3>1. ~ NoTransaction.open
      BY DEF NoTransaction
    <3>2. transaction \in Transaction
      BY <1>1, <3>1, Zenon DEF DeliveryInv, TypesInv
    <3> QED
      BY <3>2 DEF Transaction
  <2>4. transaction.previous \in places \cup {None}
    BY <1>1 DEF DeliveryInv, InPlace
  <2> QED
    BY <1>1, <1>3, <2>1, <2>2, <2>3, <2>4, Selects DEF Restore, Answers
<1> QED
  BY <1>2, <1>3 DEF Restore

LEMMA PointKeeps ==
  ASSUME DeliveryInv, Point, Beside, UNCHANGED <<schema, healthy>>
  PROVE  DeliveryInv'
<1>1. /\ runner.at = "pointing" /\ runner \in Updates /\ transaction.open
      /\ command = Idle /\ transaction.previous = runner.current
      /\ runner.sha \in Releases /\ runner.sha \in places /\ Reads(runner.sha)
  BY AtWork DEF Point, At, DeliveryInv, TypesInv, Known, Changing, Alone
<1>2. /\ runner' \in Updates /\ runner'.at = "activating"
      /\ runner'.current = runner.current /\ runner'.sha = runner.sha
  BY <1>1, GoneTo DEF Changing, Point
<1>3. Known(runner)'
  BY <1>1, <1>2 DEF Known, Looking, Restoring, Changing, Alone, Point, Beside
<1> QED
  BY <1>1, <1>2, <1>3, Selects DEF Point, AnyRelease

LEMMA UndoKeeps ==
  ASSUME DeliveryInv, Undo, Beside, UNCHANGED <<schema, healthy>>
  PROVE  DeliveryInv'
<1>1. /\ runner.at = "undoing" /\ runner \in Updates /\ transaction.open /\ main' \in Releases
      /\ command = Idle /\ transaction.previous = runner.current
  BY AtWork DEF Undo, At, DeliveryInv, TypesInv, Known, Changing, Alone, Beside
<1>2. CASE Stop /\ UNCHANGED pointer
  BY <1>1, <1>2, Stops DEF Undo, Beside, files
<1>3. CASE Answers(runner.current) /\ pointer' = runner.current /\ GoTo("undone")
  <2>1. /\ runner' \in Updates /\ runner'.at = "undone" /\ runner'.current = runner.current
    BY <1>1, <1>3, GoneTo DEF Changing
  <2>2. Known(runner)'
    BY <1>1, <1>3, <2>1 DEF Known, Looking, Restoring, Changing, Alone, Undo, Beside
  <2>3. runner.current \in AnyRelease
    BY <1>1 DEF Updates
  <2>4. runner.current \in places \cup {None}
    BY <1>1 DEF DeliveryInv, InPlace
  <2> QED
    BY <1>1, <1>3, <2>1, <2>2, <2>3, <2>4, Selects DEF Undo, Answers
<1> QED
  BY <1>2, <1>3 DEF Undo

(* Files no property but this update's step is about.                       *)
LEMMA Notes ==
  ASSUME DeliveryInv, runner' \in Updates \cup {Idle}, Known(runner'), previous' = previous, Beside,
         UNCHANGED <<pointer, transaction, places, schema, healthy>>
  PROVE  DeliveryInv'
<1>1. TypesInv' /\ SchemaInv'
  BY DEF DeliveryInv, TypesInv, SchemaInv, Beside
<1>2. Known(runner)' /\ StandingInv'
  BY DEF DeliveryInv, StandingInv, Known, Reads, Beside
<1>3. SelectedReadable' /\ InPlace' /\ NeverSilentlyHealthy'
  BY DEF DeliveryInv, SelectedReadable, InPlace, NeverSilentlyHealthy, Reads, Held, Beside
<1> QED
  BY <1>1, <1>2, <1>3 DEF DeliveryInv

(* A transaction is closed by who knows that what is in force was healthy.  *)
LEMMA Closes ==
  ASSUME DeliveryInv, transaction' = NoTransaction, pointer \in healthy \cup {None},
         runner' \in Updates \cup {Idle}, Known(runner)', Beside,
         UNCHANGED <<pointer, previous, places, schema, healthy>>
  PROVE  DeliveryInv'
<1>1. TypesInv' /\ SchemaInv'
  BY DEF DeliveryInv, TypesInv, SchemaInv, Beside
<1>2. ~ transaction'.open
  BY DEF NoTransaction
<1>3. StandingInv'
  BY <1>2 DEF DeliveryInv, StandingInv, Beside
<1>4. SelectedReadable' /\ NeverSilentlyHealthy'
  BY DEF DeliveryInv, SelectedReadable, NeverSilentlyHealthy, Reads
<1>5. InPlace'
  BY <1>2 DEF DeliveryInv, InPlace, Held, Beside
<1> QED
  BY <1>1, <1>3, <1>4, <1>5 DEF DeliveryInv

LEMMA ForgetKeeps ==
  ASSUME DeliveryInv, Forget, Beside, UNCHANGED <<schema, healthy>>
  PROVE  DeliveryInv'
<1>1. /\ runner.at = "forgetting" /\ runner \in Updates /\ transaction.open
      /\ pointer = transaction.previous /\ transaction.previous \in healthy \cup {None}
  BY AtWork DEF Forget, At, DeliveryInv, TypesInv, Known, StandingInv, Restoring
<1>2. CASE UNCHANGED <<transaction, runner>>
  BY <1>1, <1>2, Notes DEF Forget, DeliveryInv
<1>3. CASE transaction' = NoTransaction /\ GoTo("looking")
  <2>1. runner' \in Updates /\ runner'.at = "looking"
    BY <1>1, <1>3, GoneTo DEF Looking
  <2>2. Known(runner)'
    BY <1>3, <2>1 DEF Known, Looking, Restoring, Changing, Alone, NoTransaction
  <2> QED
    BY <1>1, <1>3, <2>1, <2>2, Closes DEF Forget
<1> QED
  BY <1>2, <1>3 DEF Forget

LEMMA RejectKeeps ==
  ASSUME DeliveryInv, Reject, Beside, UNCHANGED <<schema, healthy>>
  PROVE  DeliveryInv'
<1>1. /\ runner.at = "rejecting" /\ runner \in Updates /\ transaction.open /\ command = Idle
      /\ transaction.previous = runner.current /\ runner.current \in {None, pointer}
      /\ transaction.previous \in healthy \cup {None}
  BY AtWork DEF Reject, At, DeliveryInv, TypesInv, Known, StandingInv, Changing, Alone
<1>2. CASE runner.current = None
  <2>1. runner' = Idle
    BY <1>2 DEF Reject, Stop
  <2>2. Known(runner')
    BY <2>1, KnownIdle
  <2> QED
    BY <2>1, <2>2, Notes DEF Reject
<1>3. CASE runner.current # None
  <2>1. runner' \in Updates /\ runner'.at = "closing" /\ runner'.current = runner.current
    BY <1>1, <1>3, GoneTo DEF Changing, Reject
  <2>2. Known(runner')
    BY <1>1, <1>3, <2>1 DEF Known, Looking, Restoring, Changing, Alone
  <2> QED
    BY <2>1, <2>2, Notes DEF Reject
<1> QED
  BY <1>2, <1>3

LEMMA SucceedKeeps ==
  ASSUME DeliveryInv, Succeed, Beside, UNCHANGED <<schema, healthy>>
  PROVE  DeliveryInv'
<1>1. /\ runner.at = "recording" /\ runner \in Updates /\ transaction.open /\ command = Idle
      /\ transaction.previous = runner.current /\ pointer \in healthy \cup {None}
      /\ runner.current \in AnyRelease
  BY AtWork DEF Succeed, At, DeliveryInv, TypesInv, Known, Changing, Alone, Updates
<1>2. runner' \in Updates /\ runner'.at = "closing" /\ runner'.current = runner.current
  BY <1>1, GoneTo DEF Changing, Succeed
<1>3. previous' \in AnyRelease /\ previous' \in places \cup {None}
  <2>1. runner.current \in places \cup {None} /\ previous \in places \cup {None}
    BY <1>1 DEF DeliveryInv, InPlace
  <2> QED
    BY <1>1, <2>1 DEF Succeed, DeliveryInv, TypesInv
<1>4. Known(runner)'
  BY <1>1, <1>2 DEF Known, Looking, Restoring, Changing, Alone, Succeed, Beside
<1>5. TypesInv' /\ SchemaInv'
  BY <1>2, <1>3 DEF DeliveryInv, TypesInv, SchemaInv, Beside, Succeed
<1>6. StandingInv' /\ SelectedReadable' /\ NeverSilentlyHealthy'
  BY DEF DeliveryInv, StandingInv, SelectedReadable, NeverSilentlyHealthy, Reads, Beside, Succeed
<1>7. InPlace'
  BY <1>3 DEF DeliveryInv, InPlace, Held, Beside, Succeed
<1> QED
  BY <1>4, <1>5, <1>6, <1>7 DEF DeliveryInv

LEMMA CloseKeeps ==
  ASSUME DeliveryInv, Close, Beside, UNCHANGED <<schema, healthy>>
  PROVE  DeliveryInv'
<1>1. /\ runner.at = "closing" /\ runner \in Updates /\ pointer \in healthy \cup {None}
  BY AtWork DEF Close, At, DeliveryInv, TypesInv, Known
<1>2. CASE Stop
  <2>1. runner' = Idle
    BY <1>2 DEF Stop
  <2>2. Known(runner)'
    BY <2>1 DEF Known, Idle, Looking, Restoring, Changing, Alone
  <2> QED
    BY <1>1, <2>1, <2>2, Closes DEF Close
<1>3. CASE GoTo("pruning")
  <2>1. runner' \in Updates /\ runner'.at = "pruning"
    BY <1>1, <1>3, GoneTo DEF Looking
  <2>2. Known(runner)'
    BY <2>1 DEF Known, Looking, Restoring, Changing, Alone, Close, NoTransaction
  <2> QED
    BY <1>1, <2>1, <2>2, Closes DEF Close
<1> QED
  BY <1>2, <1>3 DEF Close

LEMMA StageKeeps ==
  ASSUME DeliveryInv, Stage, Beside, UNCHANGED <<schema, healthy>>
  PROVE  DeliveryInv'
<1>1. /\ runner.at = "staging" /\ runner \in Updates /\ ~ transaction.open /\ main' \in Releases
      /\ pointer = runner.current /\ Newer(runner.sha, pointer) /\ runner.sha \in Releases
  BY AtWork DEF Stage, At, DeliveryInv, TypesInv, Known, Looking, Beside
<1>2. CASE Stop /\ UNCHANGED places
  BY <1>1, <1>2, Stops DEF Stage, Beside, files
<1>3. CASE runner.sha \in places /\ GoTo("preflight") /\ UNCHANGED places
  <2>1. /\ runner' \in Updates /\ runner'.at = "preflight"
        /\ runner'.current = runner.current /\ runner'.sha = runner.sha
    BY <1>1, <1>3, GoneTo DEF Looking
  <2>2. Known(runner')
    BY <1>1, <1>3, <2>1 DEF Known, Looking, Restoring, Changing, Alone
  <2> QED
    BY <1>1, <1>3, <2>1, <2>2, MovesOn DEF Stage, Beside, files
<1>4. CASE places' = places \cup {runner.sha} /\ GoTo("receipt")
  <2>1. /\ runner' \in Updates /\ runner'.at = "receipt"
        /\ runner'.current = runner.current /\ runner'.sha = runner.sha
    BY <1>1, <1>4, GoneTo DEF Looking
  <2>2. Known(runner)'
    BY <1>1, <1>4, <2>1 DEF Known, Looking, Restoring, Changing, Alone, Stage
  <2>3. TypesInv' /\ SchemaInv'
    BY <2>1 DEF DeliveryInv, TypesInv, SchemaInv, Beside, Stage
  <2>4. StandingInv' /\ SelectedReadable' /\ NeverSilentlyHealthy'
    BY DEF DeliveryInv, StandingInv, SelectedReadable, NeverSilentlyHealthy, Reads, Beside, Stage
  <2>5. InPlace'
    BY <1>4 DEF DeliveryInv, InPlace, Held, Beside, Stage
  <2> QED
    BY <2>2, <2>3, <2>4, <2>5 DEF DeliveryInv
<1> QED
  BY <1>2, <1>3, <1>4 DEF Stage

LEMMA ReceiptKeeps ==
  ASSUME DeliveryInv, Receipt, Beside, UNCHANGED <<schema, healthy>>
  PROVE  DeliveryInv'
<1>1. /\ runner.at = "receipt" /\ runner \in Updates /\ ~ transaction.open
      /\ pointer = runner.current /\ Newer(runner.sha, pointer) /\ runner.sha \in Releases
      /\ runner.sha \in places
  BY AtWork DEF Receipt, At, DeliveryInv, TypesInv, Known, Looking
<1>2. /\ runner' \in Updates /\ runner'.at = "preflight"
      /\ runner'.current = runner.current /\ runner'.sha = runner.sha
  BY <1>1, GoneTo DEF Looking, Receipt
<1>3. Known(runner')
  BY <1>1, <1>2 DEF Known, Looking, Restoring, Changing, Alone
<1> QED
  BY <1>2, <1>3, Notes DEF Receipt

LEMMA BeginKeeps ==
  ASSUME DeliveryInv, Begin, Beside, UNCHANGED <<schema, healthy>>
  PROVE  DeliveryInv'
<1>1. /\ runner.at = "waiting" /\ runner \in Updates /\ ~ transaction.open /\ main' \in Releases
      /\ pointer = runner.current /\ Newer(runner.sha, pointer) /\ runner.sha \in Releases
      /\ runner.sha \in places /\ Reads(runner.sha)
  BY AtWork DEF Begin, At, DeliveryInv, TypesInv, Known, Looking, Beside
<1>2. CASE Stop /\ UNCHANGED transaction
  BY <1>1, <1>2, Stops DEF Begin, Beside, files
<1>3. CASE /\ command = Idle /\ GoTo("draining")
           /\ transaction' = [open |-> TRUE, previous |-> runner.current, candidate |-> runner.sha]
  <2>1. /\ runner' \in Updates /\ runner'.at = "draining"
        /\ runner'.current = runner.current /\ runner'.sha = runner.sha
    BY <1>1, <1>3, GoneTo DEF Changing
  <2>2. /\ transaction'.open /\ transaction'.previous = runner.current
        /\ transaction' \in Transaction
    BY <1>1, <1>3 DEF Transaction, Updates
  <2>3. Known(runner)'
    BY <1>1, <1>3, <2>1, <2>2 DEF Known, Looking, Restoring, Changing, Alone, Begin, Beside, Reads
  <2>4. TypesInv' /\ SchemaInv'
    BY <2>1, <2>2 DEF DeliveryInv, TypesInv, SchemaInv, Beside, Begin
  <2>5. pointer \in healthy \cup {None}
    BY <1>1 DEF DeliveryInv, NeverSilentlyHealthy
  <2>6. StandingInv' /\ SelectedReadable' /\ NeverSilentlyHealthy'
    BY <1>1, <2>2, <2>5 DEF DeliveryInv, StandingInv, SelectedReadable, NeverSilentlyHealthy, Reads,
         Beside, Begin
  <2>7. InPlace'
    BY <1>1, <2>2 DEF DeliveryInv, InPlace, Held, Beside, Begin
  <2> QED
    BY <2>3, <2>4, <2>6, <2>7 DEF DeliveryInv
<1> QED
  BY <1>2, <1>3 DEF Begin

(* What may be come back to, or is held open, stays.                        *)
LEMMA PruneKeeps ==
  ASSUME DeliveryInv, Prune, Beside, UNCHANGED <<schema, healthy>>
  PROVE  DeliveryInv'
<1>1. runner.at = "pruning" /\ ~ transaction.open /\ main' \in Releases
  BY DEF Prune, At, DeliveryInv, TypesInv, Known, Looking, Beside
<1>2. CASE UNCHANGED places
  BY <1>1, <1>2, Stops DEF Prune, Beside, files
<1>3. CASE LET others == places \ KeptReleases IN places' = places \ ((others \ Newest(others)) \ Held)
  <2>1. /\ places \cap KeptReleases \subseteq places' /\ places \cap Held \subseteq places'
        /\ places' \subseteq places
    BY <1>3
  <2>2. runner' = Idle
    BY DEF Prune, Stop
  <2>3. Known(runner)'
    BY <2>2 DEF Known, Idle, Looking, Restoring, Changing, Alone
  <2>4. TypesInv' /\ SchemaInv'
    BY <2>2 DEF DeliveryInv, TypesInv, SchemaInv, Beside, Prune
  <2>5. StandingInv' /\ SelectedReadable' /\ NeverSilentlyHealthy'
    BY DEF DeliveryInv, StandingInv, SelectedReadable, NeverSilentlyHealthy, Reads, Beside, Prune
  <2>6. InPlace'
    <3>1. Held' = Held /\ pointer' = pointer /\ previous' = previous /\ ~ transaction'.open
      BY <1>1 DEF Held, Beside, Prune
    <3>2. {pointer, previous} \cup Held \subseteq places \cup {None}
      BY DEF DeliveryInv, InPlace
    <3>3. {pointer, previous} \cup Held \subseteq places' \cup {None}
      BY <2>1, <3>2 DEF KeptReleases
    <3> QED
      BY <3>1, <3>3 DEF InPlace
  <2> QED
    BY <2>3, <2>4, <2>5, <2>6 DEF DeliveryInv
<1> QED
  BY <1>2, <1>3 DEF Prune

(* A release writes the state for itself and newer ones.                    *)
LEMMA SchemaGrows ==
  ASSUME SchemaInv, NEW release \in Releases, Reads(release), schema' \in {schema, SchemaAfter(release)}
  PROVE  /\ SchemaInv' /\ schema' <= release
         /\ \A other \in AnyRelease : Reads(other) /\ (other = release \/ Newer(other, release)) => schema' <= other
<1>1. /\ schema \in Int /\ 0 <= schema /\ schema <= Latest /\ release \in Int /\ release >= 1
      /\ release <= Latest /\ schema <= release /\ Latest \in Int
  BY ReleasesType DEF SchemaInv, Reads
<1>2. schema' = schema \/ schema' = release
  BY <1>1 DEF SchemaAfter, Max2
<1>3. schema' \in Int /\ 0 <= schema' /\ schema' <= Latest /\ schema' <= release
  BY <1>1, <1>2
<1>4. ASSUME NEW other \in AnyRelease, Reads(other), other = release \/ Newer(other, release)
      PROVE  schema' <= other
  <2>1. other \in Int
    BY ReleasesType DEF AnyRelease, None
  <2> QED
    BY <1>1, <1>2, <1>4, <2>1 DEF Reads, Newer
<1> QED
  BY <1>1, <1>3, <1>4 DEF SchemaInv

LEMMA ActivateKeeps ==
  ASSUME DeliveryInv, Activate, Beside, UNCHANGED healthy
  PROVE  DeliveryInv'
<1>1. /\ runner.at = "activating" /\ runner \in Updates /\ transaction.open /\ command = Idle
      /\ transaction.previous = runner.current /\ pointer = runner.sha /\ runner.sha \in Releases
      /\ SchemaInv /\ SelectedReadable
  BY AtWork DEF Activate, At, DeliveryInv, TypesInv, Known, Changing, Alone
<1>2. /\ runner' \in Updates /\ runner'.current = runner.current /\ runner'.sha = runner.sha
      /\ runner'.at \in {"checking", "rejecting", "undoing"}
      /\ runner'.at = "rejecting" => runner.current = None
  <2>1. \/ GoTo("checking")
        \/ GoTo("rejecting") /\ runner.current = None
        \/ GoTo("undoing")
    BY DEF Activate, Fail
  <2> QED
    BY <1>1, <2>1, GoneTo DEF Changing
<1>3. /\ pointer' = pointer /\ transaction' = transaction /\ previous' = previous /\ places' = places
  BY DEF Activate, files
<1>4. Known(runner)'
  BY <1>1, <1>2, <1>3 DEF Known, Looking, Restoring, Changing, Alone, Beside
<1>5. SchemaInv' /\ SelectedReadable'
  <2>1. Reads(runner.sha)
    BY <1>1, ReleasesType DEF SelectedReadable
  <2>2. SchemaInv' /\ schema' <= runner.sha
    BY <1>1, <2>1, SchemaGrows DEF Activate
  <2> QED
    BY <1>1, <1>3, <2>2 DEF SelectedReadable, Reads
<1>6. TypesInv'
  BY <1>2, <1>3 DEF DeliveryInv, TypesInv, Beside
<1>7. StandingInv' /\ InPlace' /\ NeverSilentlyHealthy'
  BY <1>3 DEF DeliveryInv, StandingInv, InPlace, NeverSilentlyHealthy, Held, Beside
<1> QED
  BY <1>4, <1>5, <1>6, <1>7 DEF DeliveryInv

LEMMA HealthKeeps ==
  ASSUME DeliveryInv, Health, Beside, UNCHANGED schema
  PROVE  DeliveryInv'
<1>1. /\ runner.at = "checking" /\ runner \in Updates /\ transaction.open /\ command = Idle
      /\ transaction.previous = runner.current /\ pointer = runner.sha /\ runner.sha \in Releases
  BY AtWork DEF Health, At, DeliveryInv, TypesInv, Known, Changing, Alone
<1>2. CASE Fail /\ UNCHANGED healthy
  BY <1>1, <1>2, FailKeeps DEF Health
<1>3. CASE GoTo("recording") /\ healthy' = healthy \cup {runner.sha}
  <2>1. /\ runner' \in Updates /\ runner'.at = "recording"
        /\ runner'.current = runner.current /\ runner'.sha = runner.sha
    BY <1>1, <1>3, GoneTo DEF Changing
  <2>2. /\ pointer' = pointer /\ transaction' = transaction /\ previous' = previous /\ places' = places
    BY DEF Health, files
  <2>3. Known(runner)'
    BY <1>1, <1>3, <2>1, <2>2 DEF Known, Looking, Restoring, Changing, Alone, Beside
  <2>4. TypesInv' /\ SchemaInv'
    BY <2>1, <2>2 DEF DeliveryInv, TypesInv, SchemaInv, Beside
  <2>5. StandingInv' /\ SelectedReadable' /\ InPlace' /\ NeverSilentlyHealthy'
    BY <1>3, <2>2 DEF DeliveryInv, StandingInv, SelectedReadable, InPlace, NeverSilentlyHealthy, Reads,
         Held, Beside
  <2> QED
    BY <2>3, <2>4, <2>5 DEF DeliveryInv
<1> QED
  BY <1>2, <1>3 DEF Health

LEMMA RunnerKeeps ==
  ASSUME DeliveryInv, RunnerStep
  PROVE  DeliveryInv'
<1>1. Beside
  BY DEF RunnerStep, Beside
<1>2. CASE Activate /\ UNCHANGED healthy
  BY <1>1, <1>2, ActivateKeeps
<1>3. CASE Health /\ UNCHANGED schema
  BY <1>1, <1>3, HealthKeeps
<1>4. CASE UNCHANGED <<schema, healthy>>
  <2>1. CASE Start \/ Recover \/ Restore \/ Restored \/ Forget
    BY <1>1, <1>4, <2>1, StartKeeps, RecoverKeeps, RestoreKeeps, RestoredKeeps, ForgetKeeps
  <2>2. CASE Look \/ Stage \/ Receipt \/ Preflight \/ Begin
    BY <1>1, <1>4, <2>2, LookKeeps, StageKeeps, ReceiptKeeps, PreflightKeeps, BeginKeeps
  <2>3. CASE Drain \/ Point \/ Undo \/ Undone \/ Reject
    BY <1>1, <1>4, <2>3, DrainKeeps, PointKeeps, UndoKeeps, UndoneKeeps, RejectKeeps
  <2>4. CASE Succeed \/ Close \/ Prune
    BY <1>1, <1>4, <2>4, SucceedKeeps, CloseKeeps, PruneKeeps
  <2> QED
    BY <1>2, <1>3, <1>1, <1>4, <2>1, <2>2, <2>3, <2>4 DEF RunnerStep
<1> QED
  BY <1>2, <1>3, <1>4 DEF RunnerStep

-----------------------------------------------------------------------------
(* Commands, dashboards and the surroundings keep it                        *)

LEMMA CommandKeeps ==
  ASSUME DeliveryInv, CommandStep
  PROVE  DeliveryInv'
<1>1. /\ main' = main /\ pointer' = pointer /\ transaction' = transaction /\ previous' = previous
      /\ places' = places /\ runner' = runner /\ dashboard' = dashboard /\ healthy' = healthy
  BY DEF CommandStep, files
<1>2. CASE Lease /\ UNCHANGED schema
  <2>1. runner.at \notin Alone /\ command' = [at |-> "leased"] /\ command'.at = "leased"
    BY <1>2 DEF Lease, Drained, Alone, Changing
  <2>2. TypesInv' /\ SchemaInv'
    BY <1>1, <1>2, <2>1 DEF DeliveryInv, TypesInv, SchemaInv
  <2>3. Known(runner)' /\ StandingInv'
    BY <1>1, <1>2, <2>1 DEF DeliveryInv, Known, StandingInv, Reads
  <2>4. SelectedReadable' /\ InPlace' /\ NeverSilentlyHealthy'
    BY <1>1, <1>2, <2>1 DEF DeliveryInv, SelectedReadable, InPlace, NeverSilentlyHealthy, Reads, Held
  <2> QED
    BY <2>2, <2>3, <2>4 DEF DeliveryInv
<1>3. CASE Open /\ UNCHANGED schema
  <2>1. runner.at \notin Alone
    BY <1>3 DEF Open, DeliveryInv, Known, Idle
  <2>2. \/ command' = Idle
        \/ /\ pointer \in Releases /\ command' = [at |-> "running", release |-> pointer]
           /\ command'.at = "running" /\ command'.release = pointer
    BY <1>3 DEF Open, DeliveryInv, TypesInv, AnyRelease
  <2>3. TypesInv' /\ SchemaInv'
    BY <1>1, <1>3, <2>2 DEF DeliveryInv, TypesInv, SchemaInv
  <2>4. Known(runner)' /\ StandingInv'
    BY <1>1, <1>3, <2>1, <2>2 DEF DeliveryInv, Known, StandingInv, Reads, Idle
  <2>5. Held' \subseteq Held \cup {pointer}
    BY <1>1, <2>2 DEF Held, Idle
  <2>6. SelectedReadable' /\ InPlace' /\ NeverSilentlyHealthy'
    BY <1>1, <1>3, <2>5 DEF DeliveryInv, SelectedReadable, InPlace, NeverSilentlyHealthy, Reads
  <2> QED
    BY <2>3, <2>4, <2>6 DEF DeliveryInv
<1>4. CASE Run
  <2>1. /\ command.at = "running" /\ command.release = pointer /\ pointer \in Releases
        /\ command' = Idle /\ runner.at \notin Alone /\ schema' \in {schema, SchemaAfter(pointer)}
    BY <1>4 DEF Run, DeliveryInv, TypesInv, StandingInv, Known, Idle
  <2>2. Reads(pointer) /\ SchemaInv
    BY <2>1, ReleasesType DEF DeliveryInv, SelectedReadable
  <2>3. /\ SchemaInv' /\ schema' <= pointer
        /\ \A other \in AnyRelease : Reads(other) /\ (other = pointer \/ Newer(other, pointer)) => schema' <= other
    BY <2>1, <2>2, SchemaGrows
  <2>4. TypesInv'
    BY <1>1, <2>1 DEF DeliveryInv, TypesInv
  <2>5. runner.at \in {"waiting", "draining", "pointing"} => Reads(runner.sha)'
    BY <1>1, <2>3 DEF DeliveryInv, Known, AnyRelease, Reads
  <2>6. Known(runner)' /\ StandingInv'
    BY <1>1, <2>1, <2>5 DEF DeliveryInv, Known, StandingInv, Idle
  <2>7. Held' \subseteq Held
    BY <1>1, <2>1 DEF Held, Idle
  <2>8. InPlace' /\ NeverSilentlyHealthy'
    BY <1>1, <2>7 DEF DeliveryInv, InPlace, NeverSilentlyHealthy
  <2>9. SelectedReadable'
    BY <1>1, <2>3 DEF SelectedReadable, Reads
  <2> QED
    BY <2>3, <2>4, <2>6, <2>8, <2>9 DEF DeliveryInv
<1> QED
  BY <1>2, <1>3, <1>4 DEF CommandStep

(* A dashboard only comes to hold what is in place.                         *)
LEMMA DashboardMoves ==
  ASSUME DeliveryInv, dashboard' \in Dashboards,
         dashboard'.at \in {"open", "scripted"} => dashboard'.release \in places \cup {None},
         UNCHANGED <<main, files, schema, runner, command, healthy>>
  PROVE  DeliveryInv'
<1>1. /\ main' = main /\ pointer' = pointer /\ transaction' = transaction /\ previous' = previous
      /\ places' = places /\ runner' = runner /\ command' = command /\ healthy' = healthy
      /\ schema' = schema
  BY DEF files
<1>2. TypesInv' /\ SchemaInv' /\ Known(runner)' /\ StandingInv'
  BY <1>1 DEF DeliveryInv, TypesInv, SchemaInv, Known, StandingInv, Reads
<1>3. Held' \subseteq Held \cup places \cup {None}
  BY <1>1 DEF Held
<1>4. SelectedReadable' /\ InPlace' /\ NeverSilentlyHealthy'
  BY <1>1, <1>3 DEF DeliveryInv, SelectedReadable, InPlace, NeverSilentlyHealthy, Reads
<1> QED
  BY <1>2, <1>4 DEF DeliveryInv

LEMMA DashboardKeeps ==
  ASSUME DeliveryInv, DashboardStep \/ (Use /\ UNCHANGED <<main, files, schema, runner, command, healthy>>)
  PROVE  DeliveryInv'
<1>1. UNCHANGED <<main, files, schema, runner, command, healthy>>
  BY DEF DashboardStep
<1>2. /\ dashboard \in Dashboards /\ dashboard.last \in AnyRelease /\ dashboard.release \in AnyRelease
      /\ pointer \in AnyRelease /\ None \in AnyRelease
      /\ pointer \in places \cup {None}
  BY DEF DeliveryInv, TypesInv, Dashboards, InPlace, AnyRelease
<1>3. /\ Closed \in Dashboards /\ LeftToScript(None) \in Dashboards
      /\ LeftToScript(dashboard.last) \in Dashboards
      /\ [Closed EXCEPT !.at = "relay"] \in Dashboards
      /\ Closed.at = "closed" /\ LeftToScript(None).at = "script"
      /\ LeftToScript(dashboard.last).at = "script"
      /\ [Closed EXCEPT !.at = "relay"].at = "relay"
  BY <1>2 DEF Closed, LeftToScript, Dashboards
<1>4. /\ dashboard' \in Dashboards
      /\ dashboard'.at \in {"open", "scripted"} => dashboard'.release \in places \cup {None}
  <2>1. CASE ReadPointer
    BY <1>2, <1>3, <2>1 DEF ReadPointer, Dashboards
  <2>2. CASE OpenDashboard
    BY <1>2, <1>3, <2>2 DEF OpenDashboard, Dashboards
  <2>3. CASE Script
    BY <1>2, <1>3, <2>3 DEF Script, Dashboards
  <2>4. CASE HandOff
    BY <1>2, <1>3, <2>4 DEF HandOff, Dashboards
  <2>5. CASE Use
    BY <1>2, <1>3, <2>5 DEF Use
  <2> QED
    BY <2>1, <2>2, <2>3, <2>4, <2>5 DEF DashboardStep
<1> QED
  BY <1>1, <1>4, DashboardMoves

LEMMA SurroundingsKeep ==
  ASSUME DeliveryInv, Surroundings
  PROVE  DeliveryInv'
<1>1. main \in Releases /\ runner \in Updates \cup {Idle} /\ Known(runner)
  BY DEF DeliveryInv, TypesInv
<1>2. CASE Die /\ UNCHANGED <<main, schema, command, dashboard, calm, healthy>>
  BY <1>1, <1>2, Stops DEF Die
<1>3. CASE Use /\ UNCHANGED <<main, files, schema, runner, command, calm, healthy>>
  BY <1>3, DashboardKeeps
<1>4. CASE Advance /\ UNCHANGED <<files, schema, runner, command, dashboard, calm, healthy>>
  <2>1. main' \in Releases
    <3>1. main \in Int /\ main >= 1 /\ main < Latest /\ main' = main + 1 /\ Latest \in Int
      BY <1>1, <1>4, ReleasesType DEF Advance
    <3> QED
      BY <3>1 DEF Releases
  <2> QED
    BY <1>1, <1>4, <2>1, MovesOn
<1>5. CASE Settle /\ UNCHANGED <<main, files, schema, runner, command, dashboard, healthy>>
  BY <1>1, <1>5, MovesOn
<1> QED
  BY <1>2, <1>3, <1>4, <1>5 DEF Surroundings

LEMMA DeliveryKeeps == DeliveryInv /\ [DeliveryNext]_delivery => DeliveryInv'
<1> SUFFICES ASSUME DeliveryInv, [DeliveryNext]_delivery
             PROVE  DeliveryInv'
  OBVIOUS
<1>1. CASE UNCHANGED delivery
  BY <1>1, MovesOn DEF delivery, files, DeliveryInv, TypesInv
<1>2. CASE DeliveryNext
  BY <1>2, RunnerKeeps, CommandKeeps, DashboardKeeps, SurroundingsKeep DEF DeliveryNext
<1> QED
  BY <1>1, <1>2

LEMMA DeliveryBegins == DeliveryInit => DeliveryInv
<1> SUFFICES ASSUME DeliveryInit
             PROVE  DeliveryInv
  OBVIOUS
<1>1. 1 \in Releases /\ SchemaInv
  <2>1. Latest \in Nat /\ Latest >= 1
    BY ReleasesAssumption
  <2>2. schema = 0
    BY DEF DeliveryInit
  <2> QED
    BY <2>1, <2>2 DEF SchemaInv, Releases
<1>2. TypesInv
  BY <1>1 DEF DeliveryInit, TypesInv, AnyRelease, Closed, Dashboards
<1>3. ~ transaction.open /\ pointer = None /\ previous = None
  BY DEF DeliveryInit, NoTransaction
<1>4. Known(runner)
  BY KnownIdle DEF DeliveryInit
<1>5. StandingInv /\ SelectedReadable /\ NeverSilentlyHealthy
  BY <1>3 DEF DeliveryInit, StandingInv, SelectedReadable, NeverSilentlyHealthy, Idle
<1>6. Held = {}
  BY DEF DeliveryInit, Held, Idle, Closed
<1>7. InPlace
  BY <1>3, <1>6 DEF InPlace
<1> QED
  BY <1>1, <1>2, <1>4, <1>5, <1>7 DEF DeliveryInv

(* Wherever an update fails or dies, and whatever state newer releases      *)
(* wrote: what is in force reads the state and is in place, as is what may  *)
(* come back and what runs; and without a transaction that says otherwise   *)
(* it was found healthy.                                                    *)
THEOREM InForceStaysUsable == DeliverySpec => []InForceUsable
<1>1. DeliveryInv => InForceUsable
  BY DEF DeliveryInv, InForceUsable
<1> QED
  BY <1>1, DeliveryBegins, DeliveryKeeps, PTL DEF DeliverySpec

(* No dashboard is closed on its way to a release that is in force: what    *)
(* the pointer names is in place when launch.ps1 looks.                     *)
THEOREM DashboardsNotGivenUp == DeliverySpec => NoneGivenUp
<1> DEFINE Carried == dashboard.at \in {"relay", "opening", "script"} /\ pointer # None => dashboard' # Closed
<1>1. DeliveryInv /\ [DeliveryNext]_delivery => [Carried]_delivery
  <2> SUFFICES ASSUME DeliveryInv, DeliveryNext, dashboard.at \in {"relay", "opening", "script"}, pointer # None
               PROVE  dashboard' # Closed
    OBVIOUS
  <2>1. /\ pointer \in places /\ dashboard \in Dashboards
        /\ Closed.at = "closed" /\ LeftToScript(dashboard.last).at = "script"
    BY DEF DeliveryInv, TypesInv, InPlace, Closed, LeftToScript
  <2>2. dashboard'.at # "closed"
    <3>1. CASE dashboard' = dashboard
      BY <3>1
    <3>2. CASE ReadPointer
      BY <2>1, <3>2 DEF ReadPointer
    <3>3. CASE OpenDashboard
      BY <2>1, <3>3 DEF OpenDashboard, Dashboards
    <3>4. CASE Script
      BY <2>1, <3>4 DEF Script
    <3> QED
      BY <3>1, <3>2, <3>3, <3>4
        DEF DeliveryNext, RunnerStep, CommandStep, DashboardStep, Surroundings, HandOff, Use
  <2> QED
    BY <2>1, <2>2
<1>2. DeliverySpec => [][Carried]_delivery
  BY <1>1, DeliveryBegins, DeliveryKeeps, PTL DEF DeliverySpec
<1> QED
  BY <1>2 DEF NoneGivenUp
=============================================================================
