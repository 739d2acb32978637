--------------------------- MODULE ParkingProofs ---------------------------
(***************************************************************************)
(* Proofs about parking and enrollment, for any slots and subscriptions.   *)
(* The types hold of any number of commands; that no account is forgotten  *)
(* holds of one command at a time, whose deaths, retries and edits beside  *)
(* it are of every order.  And about the record of a Codex home, for any   *)
(* homes, accounts, plans and failures: it never tells a caller who trusts *)
(* it of another account than the one that is signed in.  And about what a *)
(* wake tells of itself and of an account's use, for any limits, spacings  *)
(* and caps that let the last hours be kept.                               *)
(***************************************************************************)
EXTENDS Parking, CodexHomes, Insights, TLAPS, FiniteSetTheorems, WellFoundedInduction

-----------------------------------------------------------------------------
(* The inductive invariant *)

Park == {"records", "keep", "save"}

(* A command that runs is about a slot. *)
Slotted == \A c \in Commands : command[c].at # "idle" => command[c].slot \in Slots

(* An edit only goes from the settings of enrollment to chosen ones. *)
NoLater(a, b) == a = "default" \/ a = b

(* What a command that parks has in memory is what the files said, but for *)
(* settings edited since.                                                  *)
ParkInv(c) ==
  LET k == command[c]
      s == k.slot IN
  /\ k.at = "policy" => NoLater(k.expected[s].settings, policy[s].settings)
  /\ k.at \in Park =>
       /\ policy[s] # Gone /\ k.next[s] = Gone /\ k.record \in Record
       /\ \A t \in Slots \ {s} : k.next[t] = Gone <=> policy[t] = Gone
       /\ NoLater(k.expected[s].settings, k.record.settings)
       /\ NoLater(k.record.settings, policy[s].settings)
  /\ k.at = "keep" =>
       k.records = [t \in Slots |-> IF t = s THEN k.record
                                    ELSE IF k.next[t] # Gone THEN Gone
                                    ELSE parked[t]]
  /\ k.at = "save" => parked[s] = k.record

(* A command drops records only of accounts that are enrolled, or that     *)
(* were restored to another slot.                                          *)
EnrollInv(c) ==
  LET k == command[c]
      s == k.slot IN
  /\ k.at \in {"match", "settings", "drop", "discard"} => policy[s] # Gone
  /\ k.at = "settings" /\ k.identity # "unknown" => k.record.who \in {policy[s].who, "unknown"}
  /\ k.at = "discard" =>
       k.records = [t \in Slots |-> IF t \in k.drop THEN Gone ELSE parked[t]]

Inv == NeverForgotten /\ \A c \in Commands : ParkInv(c) /\ EnrollInv(c)

-----------------------------------------------------------------------------
(* Types *)

Command == [at : Places, slot : Slots \cup {"none"}, expected : Policy, next : Policy,
            records : Records, record : Record \cup {Gone}, drop : SUBSET Slots,
            identity : Subscriptions \cup {"unknown"}]

LEMMA IdleType == Idle \in Command
  BY DEF Idle, Command, Places, Policy, Records

(* An account or a record is not gone. *)
LEMMA NotGone == Gone \notin Account /\ Gone \notin Record
  BY ConstantsAssumption DEF Gone, Account, Record

(* A step of a command that leaves the files alone. *)
LEMMA ProceedTypes ==
  ASSUME TypeOK, NEW c \in Commands, NEW state \in Command, Proceed(c, state),
         policy' \in Policy, parked' \in Records, minded' \subseteq Slots
  PROVE  TypeOK'
  BY DEF TypeOK, Proceed, Command

LEMMA ParkTypes ==
  ASSUME TypeOK, Slotted, NEW c \in Commands, ParkStep(c)
  PROVE  TypeOK'
<1> DEFINE k == command[c]
<1>0. /\ k \in Command /\ policy \in Policy /\ parked \in Records /\ minded \subseteq Slots
  BY DEF TypeOK, Command
<1>1. ASSUME NEW s \in Slots, BeginPark(c, s)
      PROVE  TypeOK'
  <2>1. [Idle EXCEPT !.at = "hash", !.slot = s] \in Command
    BY IdleType DEF Command, Places
  <2> QED
    BY <1>0, <1>1, <2>1, ProceedTypes DEF BeginPark
<1>2. CASE HashPolicy(c)
  <2>1. [k EXCEPT !.at = "policy", !.expected = policy] \in Command
    BY <1>0 DEF Command, Places
  <2> QED
    BY <1>0, <1>2, <2>1, ProceedTypes DEF HashPolicy
<1>3. CASE ReadPolicy(c)
  <2>1. CASE End(c)
    BY <1>0, <1>3, <2>1, IdleType, ProceedTypes DEF ReadPolicy, End
  <2>2. CASE ~ End(c)
    <3> DEFINE s == k.slot
    <3>1. PICK who \in {policy[s].who, "unknown"} :
            Proceed(c, [k EXCEPT !.at = "records", !.next = [policy EXCEPT ![s] = Gone],
                                 !.record = [who |-> who, settings |-> policy[s].settings]])
      BY <1>3, <2>2 DEF ReadPolicy
    <3>2. policy[s] # Gone
      BY <1>3, <2>2 DEF ReadPolicy
    <3>3. [policy EXCEPT ![s] = Gone] \in Policy
      BY <1>0 DEF Policy
    <3>4. policy[s] \in Account
      BY <1>0, <1>3, <3>2 DEF Policy, Slotted, ReadPolicy
    <3>5. [who |-> who, settings |-> policy[s].settings] \in Record
      BY <3>4 DEF Account, Record
    <3>6. [k EXCEPT !.at = "records", !.next = [policy EXCEPT ![s] = Gone],
                    !.record = [who |-> who, settings |-> policy[s].settings]] \in Command
      BY <1>0, <3>3, <3>5 DEF Command, Places
    <3> QED
      BY <1>0, <1>3, <3>1, <3>6, ProceedTypes DEF ReadPolicy
  <2> QED
    BY <2>1, <2>2
<1>4. CASE ReadRecords(c)
  <2>1. RecordsWith(c) \in Records
    BY <1>0 DEF RecordsWith, Records, Command
  <2>2. [k EXCEPT !.at = "keep", !.records = RecordsWith(c)] \in Command
    BY <1>0, <2>1 DEF Command, Places
  <2> QED
    BY <1>0, <1>4, <2>2, ProceedTypes DEF ReadRecords
<1>5. CASE WriteRecords(c)
  <2>1. [k EXCEPT !.at = "save"] \in Command /\ k.records \in Records
    BY <1>0 DEF Command, Places
  <2> QED
    BY <1>0, <1>5, <2>1, ProceedTypes DEF WriteRecords
<1>6. CASE SavePolicy(c)
  <2>1. policy' \in Policy
    BY <1>0, <1>6 DEF SavePolicy, Command
  <2> QED
    BY <1>0, <1>6, <2>1, IdleType, ProceedTypes DEF SavePolicy, End
<1> QED
  BY <1>1, <1>2, <1>3, <1>4, <1>5, <1>6 DEF ParkStep

(* What a look at the records leaves in memory. *)
LEMMA ReadRecordEffect ==
  ASSUME TypeOK, NEW c \in Commands, ReadRecord(c), ~ End(c)
  PROVE  /\ command'[c].at \in {"settings", "drop"}
         /\ command'[c].slot = command[c].slot
         /\ command'[c].at = "settings" /\ command'[c].identity # "unknown" =>
              command'[c].record.who \in {policy[command[c].slot].who, "unknown"}
         /\ \A d \in Commands \ {c} : command'[d] = command[d]
<1> DEFINE s == command[c].slot
           Own(from, who) ==
             who # "unknown" => who = policy[s].who /\ from.who \in {who, "unknown"}
<1>1. command[c] \in Command
  BY DEF TypeOK, Command
<1>2. \/ \E drop : Proceed(c, [command[c] EXCEPT !.at = "drop", !.drop = drop])
      \/ \E found, drop, who :
           /\ Own(found, who)
           /\ Proceed(c, [command[c] EXCEPT !.at = "settings", !.record = found, !.drop = drop,
                                            !.identity = who])
  <2>1. \A who : \A t \in Slots : t \in Matching(s, who) =>
          who = "unknown" \/ parked[t].who \in {who, "unknown"}
    BY DEF Matching
  <2>2. \A who : Matching(s, who) \subseteq Slots
    BY DEF Matching
  <2>3. PICK who \in {policy[s].who, "unknown"} \ {"gone"} :
          \E stale :
            \/ Proceed(c, [command[c] EXCEPT !.at = "drop", !.drop = stale])
            \/ \E t \in Matching(s, who) :
                 Proceed(c, [command[c] EXCEPT !.at = "settings", !.record = parked[t],
                                               !.drop = stale \cup {t}, !.identity = who])
    BY DEF ReadRecord
  <2>4. \A t \in Matching(s, who) : Own(parked[t], who)
    BY <2>1, <2>2, <2>3
  <2> QED
    BY <2>3, <2>4
<1>3. CASE \E drop : Proceed(c, [command[c] EXCEPT !.at = "drop", !.drop = drop])
  BY <1>1, <1>3 DEF Proceed, TypeOK, Command
<1>4. CASE \E found, drop, who :
             /\ Own(found, who)
             /\ Proceed(c, [command[c] EXCEPT !.at = "settings", !.record = found, !.drop = drop,
                                              !.identity = who])
  BY <1>1, <1>4 DEF Proceed, TypeOK, Command
<1> QED
  BY <1>2, <1>3, <1>4

LEMMA EnrollTypes ==
  ASSUME TypeOK, Slotted, NEW c \in Commands, EnrollStep(c)
  PROVE  TypeOK'
<1> DEFINE k == command[c]
           s == k.slot
<1>0. /\ k \in Command /\ policy \in Policy /\ parked \in Records /\ minded \subseteq Slots
      /\ k.at # "idle" => s \in Slots
  BY DEF TypeOK, Command, Slotted
<1>1. ASSUME NEW t \in Slots, BeginAdd(c, t) \/ BeginUnpark(c, t)
      PROVE  TypeOK'
  <2>1. /\ [Idle EXCEPT !.at = "drop", !.slot = t, !.drop = {t}] \in Command
        /\ [Idle EXCEPT !.at = "enroll", !.slot = t] \in Command
    BY IdleType DEF Command, Places
  <2>2. \E state \in Command : Proceed(c, state)
    BY <1>1, <2>1 DEF BeginAdd, BeginUnpark
  <2> QED
    BY <1>0, <1>1, <2>2, ProceedTypes DEF BeginAdd, BeginUnpark
<1>2. CASE Enroll(c)
  <2>1. CASE End(c) /\ UNCHANGED <<policy, minded>>
    BY <1>0, <1>2, <2>1, IdleType, ProceedTypes DEF Enroll, End
  <2>2. CASE ~ (End(c) /\ UNCHANGED <<policy, minded>>)
    <3>1. PICK who \in Subscriptions :
            policy' = [policy EXCEPT ![s] = [who |-> who, settings |-> "default"]]
      BY <1>2, <2>2 DEF Enroll
    <3>2. [who |-> who, settings |-> "default"] \in Account
      BY DEF Account, Settings
    <3>3. /\ s \in Slots /\ minded' = minded \cup {s}
          /\ Proceed(c, [k EXCEPT !.at = "match"])
      BY <1>0, <1>2, <2>2 DEF Enroll
    <3>4. [k EXCEPT !.at = "match"] \in Command
      BY <1>0 DEF Command, Places
    <3>5. policy' \in Policy
      BY <1>0, <3>1, <3>2 DEF Policy
    <3> QED
      BY <1>0, <1>2, <3>3, <3>4, <3>5, ProceedTypes DEF Enroll
  <2> QED
    BY <2>1, <2>2
<1>3. CASE ReadRecord(c)
  <2>1. PICK who \in {policy[s].who, "unknown"} \ {"gone"} :
          LET found == Matching(s, who)
              stale == IF found # {s} /\ parked[s] # Gone THEN {s} ELSE {}
          IN \/ found \cup stale = {} /\ End(c)
             \/ /\ found = {} /\ stale # {}
                /\ Proceed(c, [k EXCEPT !.at = "drop", !.drop = stale])
             \/ \E t \in found :
                  Proceed(c, [k EXCEPT !.at = "settings", !.record = parked[t],
                                       !.drop = stale \cup {t}, !.identity = who])
    BY <1>3 DEF ReadRecord
  <2> DEFINE found == Matching(s, who)
             stale == IF found # {s} /\ parked[s] # Gone THEN {s} ELSE {}
  <2>2. s \in Slots /\ found \subseteq Slots /\ stale \subseteq Slots
    BY <1>0, <1>3 DEF ReadRecord, Matching
  <2> HIDE DEF found, stale
  <2>3. [k EXCEPT !.at = "drop", !.drop = stale] \in Command
    BY <1>0, <2>2 DEF Command, Places
  <2>6. who \in Subscriptions \cup {"unknown"}
    BY <1>0, <2>2 DEF Policy, Account, Gone
  <2>4. \A t \in found : [k EXCEPT !.at = "settings", !.record = parked[t],
                                   !.drop = stale \cup {t}, !.identity = who] \in Command
    BY <1>0, <2>2, <2>6 DEF Command, Places, Records
  <2>5. \E state \in Command : Proceed(c, state)
    BY <2>1, <2>3, <2>4, IdleType DEF End, found, stale
  <2> QED
    BY <1>0, <1>3, <2>5, ProceedTypes DEF ReadRecord
<1>4. CASE RestoreSettings(c)
  <2>1. [k EXCEPT !.at = "drop"] \in Command /\ k.record.settings \in Settings /\ s \in Slots
    BY <1>0, <1>4 DEF RestoreSettings, Command, Places, Record, Gone, Settings
  <2>2. policy[s] # Gone => [policy EXCEPT ![s].settings = k.record.settings] \in Policy
    BY <1>0, <2>1 DEF Policy, Account
  <2>3. policy' \in Policy
    BY <1>0, <1>4, <2>2 DEF RestoreSettings
  <2> QED
    BY <1>0, <1>4, <2>1, <2>3, ProceedTypes DEF RestoreSettings
<1>5. CASE DropRecord(c)
  <2> DEFINE left == [t \in Slots |-> IF t \in k.drop THEN Gone ELSE parked[t]]
  <2>1. left \in Records
    BY <1>0 DEF Records
  <2> HIDE DEF left
  <2>2. [k EXCEPT !.at = "discard", !.records = left] \in Command
    BY <1>0, <2>1 DEF Command, Places
  <2> QED
    BY <1>0, <1>5, <2>2, ProceedTypes DEF DropRecord, left
<1>6. CASE WriteDropped(c)
  <2>1. k.records \in Records
    BY <1>0 DEF Command
  <2> QED
    BY <1>0, <1>6, <2>1, IdleType, ProceedTypes DEF WriteDropped, End
<1> QED
  BY <1>1, <1>2, <1>3, <1>4, <1>5, <1>6 DEF EnrollStep

LEMMA NextTypes ==
  ASSUME TypeOK, Slotted, [Next]_vars
  PROVE  TypeOK'
<1>0. policy \in Policy /\ parked \in Records /\ minded \subseteq Slots
  BY DEF TypeOK
<1>1. CASE UNCHANGED vars
  BY <1>1 DEF TypeOK, vars
<1>2. CASE \E c \in Parkers : ParkStep(c)
  BY <1>2, ParkTypes DEF Commands
<1>3. CASE \E c \in Enrollers : EnrollStep(c)
  BY <1>3, EnrollTypes DEF Commands
<1>4. ASSUME NEW c \in Commands, Retry(c) \/ Die(c)
      PROVE  TypeOK'
  <2>1. command[c] \in Command
    BY DEF TypeOK, Command
  <2>2. /\ [command[c] EXCEPT !.at = "hash"] \in Command
        /\ [command[c] EXCEPT !.at = "drop"] \in Command
    BY <2>1 DEF Command, Places
  <2>3. \E state \in Command : Proceed(c, state)
    BY <1>4, <2>2, IdleType DEF Retry, Die, End
  <2> QED
    BY <1>0, <1>4, <2>3, ProceedTypes DEF Retry, Die
<1>5. ASSUME NEW s \in Slots, Edit(s)
      PROVE  TypeOK'
  <2>1. policy[s] \in Account
    BY <1>0, <1>5 DEF Edit, Policy
  <2>2. policy' \in Policy
    BY <1>0, <1>5, <2>1 DEF Edit, Policy, Account, Settings
  <2> QED
    BY <1>5, <2>2 DEF Edit, TypeOK
<1> QED
  BY <1>1, <1>2, <1>3, <1>4, <1>5 DEF Next

LEMMA NextSlotted ==
  ASSUME TypeOK, Slotted, [Next]_vars
  PROVE  Slotted'
<1>1. ASSUME NEW c \in Commands, NEW state, Proceed(c, state),
             state.at # "idle" => state.slot \in Slots
      PROVE  Slotted'
  BY <1>1 DEF Slotted, Proceed, TypeOK
<1>2. \A c \in Commands : End(c) => Slotted'
  BY <1>1 DEF End, Idle
<1>3. CASE UNCHANGED vars \/ \E s \in Slots : Edit(s)
  BY <1>3 DEF Slotted, vars, Edit
<1>4. ASSUME NEW c \in Commands, ~ End(c), ParkStep(c) \/ EnrollStep(c) \/ Retry(c)
      PROVE  Slotted'
  <2>1. command[c] \in Command
    BY DEF TypeOK, Command
  <2>2. CASE \E s \in Slots : BeginPark(c, s) \/ BeginAdd(c, s) \/ BeginUnpark(c, s)
    <3>1. PICK s \in Slots : BeginPark(c, s) \/ BeginAdd(c, s) \/ BeginUnpark(c, s)
      BY <2>2
    <3>2. CASE BeginPark(c, s) \/ BeginAdd(c, s)
      BY <1>1, <3>2 DEF BeginPark, BeginAdd, Idle
    <3>3. CASE BeginUnpark(c, s)
      BY <1>1, <3>3 DEF BeginUnpark, Idle
    <3> QED
      BY <3>1, <3>2, <3>3
  <2>3. CASE \A s \in Slots : ~ BeginPark(c, s) /\ ~ BeginAdd(c, s) /\ ~ BeginUnpark(c, s)
    <3> DEFINE Stays == /\ command'[c].slot = command[c].slot /\ command[c].at # "idle"
                        /\ \A d \in Commands \ {c} : command'[d] = command[d]
    <3> USE <1>4, <2>1 DEF Proceed, TypeOK, Command
    <3>2. HashPolicy(c) \/ ReadRecords(c) \/ WriteRecords(c) => Stays
      BY DEF HashPolicy, ReadRecords, WriteRecords
    <3>3. ReadPolicy(c) => Stays
      BY DEF ReadPolicy
    <3>4. ~ SavePolicy(c) /\ ~ WriteDropped(c)
      BY DEF SavePolicy, WriteDropped
    <3>5. Enroll(c) => Stays
      BY DEF Enroll
    <3>6. ReadRecord(c) => Stays
      BY ReadRecordEffect DEF ReadRecord
    <3>7. RestoreSettings(c) \/ DropRecord(c) \/ Retry(c) => Stays
      BY DEF RestoreSettings, DropRecord, Retry
    <3>1. Stays
      BY <2>3, <3>2, <3>3, <3>4, <3>5, <3>6, <3>7 DEF ParkStep, EnrollStep
    <3> QED
      BY <3>1 DEF Slotted
  <2> QED
    BY <2>2, <2>3
<1> QED
  BY <1>2, <1>3, <1>4 DEF Next, Die, Commands

(* Every reachable state has its types, whatever commands run at a time. *)
THEOREM TypeCorrect == Spec => [](TypeOK /\ Slotted)
<1>1. Init => TypeOK /\ Slotted
  BY IdleType DEF Init, TypeOK, Slotted, Policy, Records, Command, Idle
<1>2. TypeOK /\ Slotted /\ [Next]_vars => (TypeOK /\ Slotted)'
  BY NextTypes, NextSlotted
<1> QED
  BY <1>1, <1>2, PTL DEF Spec

-----------------------------------------------------------------------------
(* One command at a time *)

(* A step that changes neither file and leaves the command where it holds  *)
(* nothing.                                                                *)
LEMMA EndKeeps ==
  ASSUME Inv, TypeOK, NEW c \in Commands, \A d \in Commands : d = c,
         UNCHANGED <<policy, parked>>, minded' \subseteq minded,
         command'[c].at \in {"idle", "hash", "enroll"}
  PROVE  Inv' /\ LeavesAsChosen
  BY DEF Inv, NeverForgotten, ParkInv, EnrollInv, Park, LeavesAsChosen

LEMMA ParkKeeps ==
  ASSUME Inv, TypeOK, Slotted, NEW c \in Commands, \A d \in Commands : d = c,
         ParkStep(c)
  PROVE  Inv' /\ LeavesAsChosen
<1> DEFINE k == command[c]
           s == k.slot
<1>0. /\ k \in Command /\ policy \in Policy /\ parked \in Records
      /\ k.at # "idle" => s \in Slots
      /\ NeverForgotten /\ ParkInv(c)
  BY DEF TypeOK, Command, Slotted, Inv
<1>1. ASSUME NEW t \in Slots, BeginPark(c, t)
      PROVE  Inv' /\ LeavesAsChosen
  <2>1. command'[c].at = "hash"
    BY <1>1 DEF BeginPark, Proceed, TypeOK, Idle
  <2> QED
    BY <1>1, <2>1, EndKeeps DEF BeginPark
<1>2. CASE HashPolicy(c)
  <2>1. /\ command'[c].at = "policy" /\ command'[c].expected = policy
        /\ UNCHANGED <<policy, parked, minded>>
    BY <1>0, <1>2 DEF HashPolicy, Proceed, TypeOK, Command
  <2>2. ParkInv(c)'
    BY <2>1, <1>0, <1>2 DEF ParkInv, Park, NoLater, HashPolicy, Proceed, TypeOK, Command
  <2>3. EnrollInv(c)'
    BY <2>1 DEF EnrollInv
  <2> QED
    BY <1>0, <2>1, <2>2, <2>3 DEF Inv, NeverForgotten, LeavesAsChosen
<1>3. CASE ReadPolicy(c)
  <2>0. UNCHANGED <<policy, parked, minded>> /\ k.at = "policy" /\ s \in Slots
    BY <1>0, <1>3 DEF ReadPolicy
  <2>1. CASE End(c)
    BY <2>0, <2>1, EndKeeps DEF End, Proceed, Idle, TypeOK
  <2>2. CASE ~ End(c)
    <3>1. PICK who \in {policy[s].who, "unknown"} :
            Proceed(c, [k EXCEPT !.at = "records", !.next = [policy EXCEPT ![s] = Gone],
                                 !.record = [who |-> who, settings |-> policy[s].settings]])
      BY <1>3, <2>2 DEF ReadPolicy
    <3>2. policy[s] # Gone /\ policy[s] \in Account
      BY <1>0, <1>3, <2>0, <2>2 DEF ReadPolicy, Policy
    <3>3. /\ command'[c].at = "records" /\ command'[c].slot = s
          /\ command'[c].next = [policy EXCEPT ![s] = Gone]
          /\ command'[c].record = [who |-> who, settings |-> policy[s].settings]
          /\ command'[c].expected = k.expected
      BY <1>0, <3>1 DEF Proceed, TypeOK, Command
    <3>4. /\ [who |-> who, settings |-> policy[s].settings] \in Record
          /\ NoLater(k.expected[s].settings, policy[s].settings)
      BY <1>0, <2>0, <3>2 DEF Account, Record, ParkInv
    <3>5. /\ [policy EXCEPT ![s] = Gone][s] = Gone
          /\ \A t \in Slots \ {s} : [policy EXCEPT ![s] = Gone][t] = policy[t]
      BY <1>0, <2>0 DEF Policy
    <3>6. ParkInv(c)'
      BY <2>0, <3>2, <3>3, <3>4, <3>5 DEF ParkInv, Park, NoLater
    <3>7. EnrollInv(c)'
      BY <3>3 DEF EnrollInv
    <3> QED
      BY <1>0, <2>0, <3>6, <3>7 DEF Inv, NeverForgotten, LeavesAsChosen
  <2> QED
    BY <2>1, <2>2
<1>4. CASE ReadRecords(c)
  <2>1. /\ k.at = "records" /\ s \in Slots /\ UNCHANGED <<policy, parked, minded>>
        /\ command'[c].at = "keep" /\ command'[c].records = RecordsWith(c)
        /\ command'[c].slot = s /\ command'[c].next = k.next
        /\ command'[c].record = k.record /\ command'[c].expected = k.expected
    BY <1>0, <1>4 DEF ReadRecords, Proceed, TypeOK, Command
  <2>2. RecordsWith(c) = [t \in Slots |-> IF t = s THEN k.record
                                          ELSE IF k.next[t] # Gone THEN Gone
                                          ELSE parked[t]]
    BY DEF RecordsWith, Enrolled
  <2>3. ParkInv(c)'
    BY <1>0, <2>1, <2>2 DEF ParkInv, Park
  <2>4. EnrollInv(c)'
    BY <2>1 DEF EnrollInv
  <2> QED
    BY <1>0, <2>1, <2>3, <2>4 DEF Inv, NeverForgotten, LeavesAsChosen
<1>5. CASE WriteRecords(c)
  <2>1. /\ k.at = "keep" /\ s \in Slots /\ UNCHANGED <<policy, minded>>
        /\ parked' = k.records /\ command'[c].at = "save"
        /\ command'[c].slot = s /\ command'[c].next = k.next
        /\ command'[c].record = k.record /\ command'[c].expected = k.expected
    BY <1>0, <1>5 DEF WriteRecords, Proceed, TypeOK, Command
  <2>2. /\ policy[s] # Gone
        /\ \A t \in Slots \ {s} : k.next[t] = Gone <=> policy[t] = Gone
        /\ parked' = [t \in Slots |-> IF t = s THEN k.record
                                      ELSE IF k.next[t] # Gone THEN Gone
                                      ELSE parked[t]]
    BY <1>0, <2>1 DEF ParkInv, Park
  <2>3. NeverForgotten'
    BY <1>0, <2>1, <2>2 DEF NeverForgotten, TypeOK
  <2>4. ParkInv(c)'
    BY <1>0, <2>1, <2>2 DEF ParkInv, Park
  <2>5. EnrollInv(c)'
    BY <2>1 DEF EnrollInv
  <2> QED
    BY <2>1, <2>3, <2>4, <2>5 DEF Inv, LeavesAsChosen
<1>6. CASE SavePolicy(c)
  <2>1. /\ k.at = "save" /\ s \in Slots /\ UNCHANGED <<parked, minded>>
        /\ command'[c].at = "idle"
        /\ policy' = IF policy = k.expected THEN k.next ELSE policy
    BY <1>0, <1>6 DEF SavePolicy, End, Proceed, Idle, TypeOK
  <2>2. /\ policy[s] # Gone /\ k.next[s] = Gone /\ k.record \in Record /\ parked[s] = k.record
        /\ \A t \in Slots \ {s} : k.next[t] = Gone <=> policy[t] = Gone
        /\ NoLater(k.expected[s].settings, k.record.settings)
        /\ NoLater(k.record.settings, policy[s].settings)
    BY <1>0, <2>1 DEF ParkInv, Park
  <2>3. ParkInv(c)' /\ EnrollInv(c)'
    BY <2>1 DEF ParkInv, EnrollInv, Park
  <2>4. NeverForgotten'
    BY <1>0, <2>1, <2>2, NotGone DEF NeverForgotten, TypeOK
  <2>5. LeavesAsChosen
    BY <2>1, <2>2 DEF LeavesAsChosen, NoLater
  <2> QED
    BY <2>3, <2>4, <2>5 DEF Inv
<1> QED
  BY <1>1, <1>2, <1>3, <1>4, <1>5, <1>6 DEF ParkStep

LEMMA EnrollKeeps ==
  ASSUME Inv, TypeOK, Slotted, NEW c \in Commands, \A d \in Commands : d = c,
         EnrollStep(c)
  PROVE  Inv' /\ LeavesAsChosen
<1> DEFINE k == command[c]
           s == k.slot
<1>0. /\ k \in Command /\ policy \in Policy /\ parked \in Records
      /\ k.at # "idle" => s \in Slots
      /\ NeverForgotten /\ EnrollInv(c)
  BY DEF TypeOK, Command, Slotted, Inv
<1>1. ASSUME NEW t \in Slots, BeginAdd(c, t) \/ BeginUnpark(c, t)
      PROVE  Inv' /\ LeavesAsChosen
  <2>1. UNCHANGED <<policy, parked, minded>>
    BY <1>1 DEF BeginAdd, BeginUnpark
  <2>2. \/ command'[c].at = "enroll"
        \/ policy[t] # Gone /\ command'[c].at = "drop" /\ command'[c].slot = t
    <3>1. \A state : Proceed(c, state) => command'[c] = state
      BY DEF Proceed, TypeOK
    <3>2. CASE BeginAdd(c, t) \/ (BeginUnpark(c, t) /\ policy[t] = Gone)
      <4>1. Proceed(c, [Idle EXCEPT !.at = "enroll", !.slot = t])
        BY <3>2 DEF BeginAdd, BeginUnpark
      <4> QED
        BY <3>1, <4>1 DEF Idle
    <3>3. CASE BeginUnpark(c, t) /\ policy[t] # Gone
      <4>1. Proceed(c, [Idle EXCEPT !.at = "drop", !.slot = t, !.drop = {t}])
        BY <3>3 DEF BeginUnpark
      <4> QED
        BY <3>1, <3>3, <4>1 DEF Idle
    <3> QED
      BY <1>1, <3>2, <3>3
  <2>3. CASE command'[c].at = "enroll"
    BY <2>1, <2>3, EndKeeps
  <2>4. CASE policy[t] # Gone /\ command'[c].at = "drop" /\ command'[c].slot = t
    <3>1. ParkInv(c)' /\ EnrollInv(c)'
      BY <2>1, <2>4 DEF ParkInv, EnrollInv, Park
    <3> QED
      BY <1>0, <2>1, <3>1 DEF Inv, NeverForgotten, LeavesAsChosen
  <2> QED
    BY <2>2, <2>3, <2>4
<1>2. CASE Enroll(c)
  <2>0. k.at = "enroll" /\ s \in Slots /\ parked' = parked
    BY <1>0, <1>2 DEF Enroll
  <2>1. CASE End(c) /\ UNCHANGED <<policy, minded>>
    BY <2>0, <2>1, EndKeeps DEF End, Proceed, TypeOK, Idle
  <2>2. CASE ~ (End(c) /\ UNCHANGED <<policy, minded>>)
    <3>1. PICK who \in Subscriptions :
            policy' = [policy EXCEPT ![s] = [who |-> who, settings |-> "default"]]
      BY <1>2, <2>2 DEF Enroll
    <3>2. [who |-> who, settings |-> "default"] # Gone
      BY ConstantsAssumption DEF Gone
    <3>3. /\ minded' = minded \cup {s}
          /\ command'[c].at = "match" /\ command'[c].slot = s
      BY <1>0, <1>2, <2>2 DEF Enroll, Proceed, TypeOK, Command
    <3>4. policy'[s] # Gone /\ \A t \in Slots \ {s} : policy'[t] = policy[t]
      BY <1>0, <2>0, <3>1, <3>2 DEF Policy
    <3>5. NeverForgotten' /\ LeavesAsChosen
      BY <1>0, <2>0, <3>3, <3>4 DEF NeverForgotten, LeavesAsChosen, TypeOK
    <3>6. ParkInv(c)' /\ EnrollInv(c)'
      BY <3>3, <3>4 DEF ParkInv, EnrollInv, Park
    <3> QED
      BY <3>5, <3>6 DEF Inv
  <2> QED
    BY <2>1, <2>2
<1>3. CASE ReadRecord(c)
  <2>0. k.at = "match" /\ s \in Slots /\ policy[s] # Gone /\ UNCHANGED <<policy, parked, minded>>
    BY <1>0, <1>3 DEF ReadRecord, EnrollInv
  <2>1. CASE End(c)
    BY <2>0, <2>1, EndKeeps DEF End, Proceed, TypeOK, Idle
  <2>2. CASE ~ End(c)
    <3>1. /\ command'[c].at \in {"settings", "drop"} /\ command'[c].slot = s
          /\ command'[c].at = "settings" /\ command'[c].identity # "unknown" =>
               command'[c].record.who \in {policy[s].who, "unknown"}
      BY <1>3, <2>2, ReadRecordEffect
    <3>2. ParkInv(c)' /\ EnrollInv(c)'
      BY <2>0, <3>1 DEF ParkInv, EnrollInv, Park
    <3> QED
      BY <1>0, <2>0, <3>2 DEF Inv, NeverForgotten, LeavesAsChosen
  <2> QED
    BY <2>1, <2>2
<1>4. CASE RestoreSettings(c)
  <2>1. /\ s \in Slots /\ policy[s] # Gone /\ UNCHANGED <<parked, minded>>
        /\ policy' = [policy EXCEPT ![s].settings = k.record.settings]
        /\ command'[c].at = "drop" /\ command'[c].slot = s
    BY <1>0, <1>4 DEF RestoreSettings, EnrollInv, Proceed, TypeOK, Command
  <2>2. policy[s] \in Account
    BY <1>0, <2>1 DEF Policy
  <2>3. [policy[s] EXCEPT !.settings = k.record.settings].who \in Subscriptions
    BY <2>2 DEF Account
  <2>4. policy'[s] # Gone /\ \A t \in Slots \ {s} : policy'[t] = policy[t]
    <3>1. policy'[s] = [policy[s] EXCEPT !.settings = k.record.settings]
      BY <1>0, <2>1 DEF Policy
    <3> QED
      BY <1>0, <2>1, <2>3, <3>1, ConstantsAssumption DEF Gone, Policy
  <2>5. NeverForgotten' /\ LeavesAsChosen
    BY <1>0, <2>1, <2>4 DEF NeverForgotten, LeavesAsChosen, TypeOK
  <2>6. ParkInv(c)' /\ EnrollInv(c)'
    BY <2>1, <2>4 DEF ParkInv, EnrollInv, Park
  <2> QED
    BY <2>5, <2>6 DEF Inv
<1>5. CASE DropRecord(c)
  <2>1. /\ s \in Slots /\ policy[s] # Gone /\ UNCHANGED <<policy, parked, minded>>
        /\ command'[c].at = "discard" /\ command'[c].slot = s /\ command'[c].drop = k.drop
        /\ command'[c].records = [t \in Slots |-> IF t \in k.drop THEN Gone ELSE parked[t]]
    BY <1>0, <1>5 DEF DropRecord, EnrollInv, Proceed, TypeOK, Command
  <2>2. ParkInv(c)' /\ EnrollInv(c)'
    BY <2>1 DEF ParkInv, EnrollInv, Park
  <2> QED
    BY <1>0, <2>1, <2>2 DEF Inv, NeverForgotten, LeavesAsChosen
<1>6. CASE WriteDropped(c)
  <2>1. /\ s \in Slots /\ policy[s] # Gone /\ policy' = policy
        /\ minded' = minded \ (k.drop \ {s}) /\ command'[c].at = "idle"
        /\ parked' = [t \in Slots |-> IF t \in k.drop THEN Gone ELSE parked[t]]
    BY <1>0, <1>6 DEF WriteDropped, EnrollInv, End, Proceed, Idle, TypeOK
  <2>2. NeverForgotten'
    BY <1>0, <2>1 DEF NeverForgotten, TypeOK
  <2>3. ParkInv(c)' /\ EnrollInv(c)'
    BY <2>1 DEF ParkInv, EnrollInv, Park
  <2> QED
    BY <2>1, <2>2, <2>3 DEF Inv, LeavesAsChosen
<1> QED
  BY <1>1, <1>2, <1>3, <1>4, <1>5, <1>6 DEF EnrollStep

(* A step over, or the death of the command. *)
LEMMA RetryKeeps ==
  ASSUME Inv, TypeOK, Slotted, NEW c \in Commands, \A d \in Commands : d = c,
         Retry(c) \/ Die(c)
  PROVE  Inv' /\ LeavesAsChosen
<1> DEFINE k == command[c]
<1>0. k \in Command /\ UNCHANGED <<policy, parked, minded>>
  BY DEF TypeOK, Command, Retry, Die
<1>1. \/ command'[c].at \in {"idle", "hash"}
      \/ k.at = "discard" /\ command'[c].at = "drop" /\ command'[c].slot = k.slot
  BY <1>0 DEF Retry, Die, End, Proceed, Idle, TypeOK, Command
<1>2. CASE command'[c].at \in {"idle", "hash"}
  BY <1>0, <1>2, EndKeeps
<1>3. CASE k.at = "discard" /\ command'[c].at = "drop" /\ command'[c].slot = k.slot
  <2>1. policy[k.slot] # Gone /\ NeverForgotten
    BY <1>3 DEF Inv, EnrollInv
  <2>2. ParkInv(c)' /\ EnrollInv(c)'
    BY <1>0, <1>3, <2>1 DEF ParkInv, EnrollInv, Park
  <2> QED
    BY <1>0, <2>1, <2>2 DEF Inv, NeverForgotten, LeavesAsChosen
<1> QED
  BY <1>1, <1>2, <1>3

(* An edit beside a command changes neither who is enrolled nor what is    *)
(* kept, and only ever chooses settings.                                   *)
LEMMA EditKeeps ==
  ASSUME Inv, TypeOK, Slotted, NEW t \in Slots, Edit(t)
  PROVE  Inv' /\ LeavesAsChosen
<1>0. /\ policy \in Policy /\ UNCHANGED <<parked, command, minded>>
      /\ policy[t] # Gone /\ policy[t].settings = "default"
      /\ policy' = [policy EXCEPT ![t].settings = "chosen"]
  BY DEF TypeOK, Edit
<1>1. /\ policy[t] \in Account
      /\ policy'[t] = [policy[t] EXCEPT !.settings = "chosen"]
      /\ \A u \in Slots \ {t} : policy'[u] = policy[u]
  BY <1>0 DEF Policy
<1>2. policy'[t].settings = "chosen" /\ policy'[t] # Gone
  BY <1>1 DEF Account, Gone
<1>3. \A u \in Slots : /\ policy'[u] = Gone <=> policy[u] = Gone
                       /\ policy'[u].who = policy[u].who
                       /\ \A a : NoLater(a, policy[u].settings)
                                   => NoLater(a, policy'[u].settings)
  BY <1>0, <1>1, <1>2 DEF NoLater
<1>4. NeverForgotten' /\ LeavesAsChosen
  BY <1>0, <1>3 DEF Inv, NeverForgotten, LeavesAsChosen, TypeOK
<1>5. ASSUME NEW c \in Commands
      PROVE  ParkInv(c)' /\ EnrollInv(c)'
  <2>1. command[c].at # "idle" => command[c].slot \in Slots
    BY DEF Slotted
  <2>2. ParkInv(c) /\ EnrollInv(c)
    BY DEF Inv
  <2>3. ParkInv(c)'
    BY <1>0, <1>3, <2>1, <2>2 DEF ParkInv, Park
  <2>4. EnrollInv(c)'
    BY <1>0, <1>3, <2>1, <2>2 DEF EnrollInv
  <2> QED
    BY <2>3, <2>4
<1> QED
  BY <1>4, <1>5 DEF Inv

LEMMA NextKeeps ==
  ASSUME Inv, TypeOK, Slotted, [Next]_vars, \A c, d \in Commands : c = d
  PROVE  Inv' /\ (LeavesAsChosen \/ UNCHANGED vars)
<1>1. CASE UNCHANGED vars
  BY <1>1 DEF vars, Inv, NeverForgotten, ParkInv, EnrollInv, Park
<1>2. CASE Next
  BY <1>2, ParkKeeps, EnrollKeeps, RetryKeeps, EditKeeps DEF Next, Commands
<1> QED
  BY <1>1, <1>2

(* Every account is enrolled, or a record of it is kept, at every moment   *)
(* of every command, if commands are run one at a time: nothing in the     *)
(* code keeps two of them apart.                                           *)
THEOREM NobodyForgotten ==
  ASSUME \A c, d \in Commands : c = d
  PROVE  Spec => []NeverForgotten
<1>1. Init => Inv
  BY NotGone DEF Init, Inv, NeverForgotten, ParkInv, EnrollInv, Park, Idle
<1>2. Inv /\ TypeOK /\ Slotted /\ [Next]_vars => Inv'
  BY NextKeeps
<1>3. Inv => NeverForgotten
  BY DEF Inv
<1> QED
  BY <1>1, <1>2, <1>3, TypeCorrect, PTL DEF Spec

(* An account leaves the policy only with its settings as they are in its  *)
(* record, and one that is known takes no settings known to be another's,  *)
(* if commands are run one at a time.                                      *)
THEOREM ParkedWithItsSettings ==
  ASSUME \A c, d \in Commands : c = d
  PROVE  Spec => ParkedAsChosen
<1>1. Init => Inv
  BY NotGone DEF Init, Inv, NeverForgotten, ParkInv, EnrollInv, Park, Idle
<1>2. Inv /\ TypeOK /\ Slotted /\ [Next]_vars => Inv' /\ [LeavesAsChosen]_vars
  BY NextKeeps
<1>3. Inv => TakesItsOwn
  BY DEF Inv, EnrollInv, TakesItsOwn
<1>4. Inv /\ TypeOK /\ Slotted /\ [Next]_vars => Inv' /\ [LeavesAsChosen /\ TakesItsOwn]_vars
  BY <1>2, <1>3
<1>5. Spec => [][LeavesAsChosen /\ TakesItsOwn]_vars
  BY <1>1, <1>4, TypeCorrect, PTL DEF Spec
<1> QED
  BY <1>5 DEF ParkedAsChosen

-----------------------------------------------------------------------------
(* The record of a Codex home: the inductive invariant                      *)

SignIns == [who : Accounts, edition : Nat]
SeenWindow == [reset : Int, used : {0, 1}, floated : BOOLEAN, edition : Nat]
KeptWindow == [reset : Int, used : {0, 1}, floated : BOOLEAN, edition : Nat, at : Int,
               anchor : {"unconfirmed", "observed-active", "expired"}]
KeptReceipt == [digest : SignIns, email : Accounts, account : Accounts]
HomeRecord == [identity : (Accounts \X Accounts) \cup {Nobody}, windows : KeptWindow \cup {None},
               receipt : KeptReceipt \cup {None}, plan : Plans \cup {"", "unknown"},
               previousPlan : Plans \cup {""}]

(* The service: a window that has begun ends within its length from now,    *)
(* and a plan a subscription has is one it has had.                         *)
ServiceInv ==
  /\ clock \in Nat
  /\ auth \in [Homes -> SignIns]
  /\ window \in [Accounts -> [floats : BOOLEAN, ends : Int]]
  /\ plan \in [Accounts -> Plans] /\ plans \in [Accounts -> SUBSET Plans]
  /\ \A s \in Accounts : window[s].ends <= clock + Length /\ plan[s] \in plans[s]

(* The sign-in looked at before the conversation is the one that is there,  *)
(* or an older one.                                                         *)
BeforeInv ==
  LET now == auth[talk.home] IN
  /\ talk.home \in Homes /\ talk.before \in SignIns
  /\ talk.before.edition <= now.edition
  /\ talk.before.edition = now.edition => talk.before = now

(* Who answers is who is signed in, if nobody signed in since.              *)
AccountRead ==
  /\ talk.email \in Accounts
  /\ talk.before = auth[talk.home] => talk.email = auth[talk.home].who
  /\ talk.plan = "unknown" \/ talk.plan \in plans[talk.email]

(* A window that has not begun is a whole length away from its reset, and   *)
(* no window is further away than that.                                     *)
LimitsRead ==
  /\ talk.seen \in SeenWindow
  /\ talk.seen.reset <= clock + Length
  /\ talk.seen.floated => talk.seen.reset = clock + Length

Described ==
  /\ talk.account \in Accounts
  /\ talk.before = auth[talk.home] => talk.account = auth[talk.home].who

TalkInv ==
  talk = Silent \/ /\ talk.at \in {"account", "limits", "describe", "receipt"}
                   /\ BeforeInv
                   /\ talk.at # "account" => AccountRead
                   /\ talk.at \in {"describe", "receipt"} => LimitsRead
                   /\ talk.at = "receipt" => Described

(* How far the time of a reset can have moved by the time the sign-in had   *)
(* changed that often.                                                      *)
Drift(edition) == Near * (1 + edition)

(* What was true of a window when it was read.  One that is said to have    *)
(* begun ends, but for the drift, as long before its length is over as two  *)
(* readings are apart, which is what tells it from one that has not.        *)
WindowKept(w) ==
  w # None => /\ w.at <= clock /\ w.reset <= w.at + Length
              /\ w.floated => w.reset = w.at + Length
              /\ w.anchor = "observed-active" =>
                   ~ w.floated /\ w.reset + Confirm <= w.at + Length + Drift(w.edition)

ReceiptKept(r) == r # None => r.email = r.account /\ r.account = r.digest.who

(* A record of one subscription holds plans of that one.                    *)
PlansKept(r) ==
  r.identity # Nobody /\ r.identity[1] = r.identity[2] =>
    LET had == plans[r.identity[2]] IN
    /\ r.plan \in had \cup {"unknown"}
    /\ r.previousPlan # "" => r.previousPlan \in had /\ r.plan \in had

RecordInv ==
  /\ record \in [Homes -> HomeRecord]
  /\ \A h \in Homes :
       /\ record[h].identity # Nobody => record[h].windows # None
       /\ WindowKept(record[h].windows)
       /\ ReceiptKept(record[h].receipt)
       /\ PlansKept(record[h])

HomesInv == ServiceInv /\ TalkInv /\ RecordInv

(* If the sign-in is still the one a window was read by, then that window   *)
(* runs on, or it ended early and the one that runs now began later.        *)
StillRead(w, at, h) ==
  /\ w.edition <= auth[h].edition
  /\ ~ w.floated /\ w.edition = auth[h].edition =>
       LET now == window[auth[h].who] IN
       now.floats \/ now.ends = w.reset \/ now.ends >= at + Length

(* So of two windows read by one sign-in one after the other.               *)
ReadAfter(w, seen) ==
  w # None => /\ w.edition <= seen.edition
              /\ ~ w.floated /\ ~ seen.floated /\ w.edition = seen.edition =>
                   seen.reset = w.reset \/ seen.reset >= w.at + Length

SignInsInv ==
  /\ Steady
  /\ \A h \in Homes :
       /\ auth[h].edition <= MaxSignIns
       /\ record[h].windows # None => StillRead(record[h].windows, record[h].windows.at, h)
  /\ talk # Silent /\ talk.at \in {"describe", "receipt"} =>
       /\ StillRead(talk.seen, clock, talk.home)
       /\ ReadAfter(record[talk.home].windows, talk.seen)

-----------------------------------------------------------------------------
(* Each step keeps it *)

LEMMA LengthType == Length \in Nat /\ Confirm \in Nat /\ Length > 0 /\ Confirm > 0
<1>1. Length \in Nat \ {0} /\ Confirm \in Nat \ {0}
  BY HomesConstants, Zenon
<1> QED
  BY <1>1

LEMMA NearType == Near \in Nat /\ MaxSignIns \in Nat /\ Confirm \in Nat
<1>1. Near \in Nat /\ MaxSignIns \in Nat
  BY HomesConstants, Zenon
<1> QED
  BY <1>1, LengthType

LEMMA DriftBounded ==
  ASSUME NEW e \in Nat
  PROVE  /\ Drift(e) \in Nat /\ Near <= Drift(e)
         /\ Steady /\ e <= MaxSignIns => Drift(e) + Near < Confirm
         /\ \A f \in Nat : e < f => Drift(e) + Near <= Drift(f)
<1>1. ASSUME NEW a \in Nat, NEW b \in Nat, a <= b
      PROVE  Near * a \in Nat /\ Near * a <= Near * b
  <2>1. PICK d \in Nat : b = a + d
    <3>1. b - a \in Nat /\ b = a + (b - a)
      BY <1>1
    <3> QED
      BY <3>1
  <2>2. Near * (a + d) = Near * a + Near * d /\ Near * d \in Nat /\ Near * a \in Nat
    BY NearType
  <2> QED
    BY <2>1, <2>2
<1>2. Near * (1 + e) = Near + Near * e /\ Near * (2 + e) = Near * (1 + e) + Near
  BY NearType
<1>3. Near * 0 <= Near * e /\ Near * 0 = 0 /\ Near * e \in Nat
  <2>1. 0 \in Nat /\ e \in Nat /\ 0 <= e
    OBVIOUS
  <2>2. Near * 0 <= Near * e /\ Near * 0 \in Nat
    BY <1>1, <2>1
  <2>3. Near * e \in Nat
    BY <1>1, <2>1
  <2> QED
    BY <2>2, <2>3, NearType
<1>4. Drift(e) \in Nat /\ Near <= Drift(e)
  BY <1>2, <1>3, NearType DEF Drift
<1>5. ASSUME Steady, e <= MaxSignIns
      PROVE  Drift(e) + Near < Confirm
  <2>1. 2 + e \in Nat /\ MaxSignIns + 2 \in Nat /\ 2 + e <= MaxSignIns + 2
    BY <1>5, NearType
  <2>2. Near * (2 + e) <= Near * (MaxSignIns + 2) /\ Near * (MaxSignIns + 2) \in Nat
    BY <1>1, <2>1
  <2>3. Near * (MaxSignIns + 2) = (MaxSignIns + 2) * Near
    BY NearType
  <2> QED
    BY <1>2, <1>4, <1>5, <2>2, <2>3, NearType DEF Drift, Steady
<1>6. ASSUME NEW f \in Nat, e < f
      PROVE  Drift(e) + Near <= Drift(f)
  <2>1. 2 + e \in Nat /\ 1 + f \in Nat /\ 2 + e <= 1 + f
    BY <1>6
  <2>2. Near * (2 + e) <= Near * (1 + f)
    BY <1>1, <2>1
  <2> QED
    BY <1>2, <2>2 DEF Drift
<1> QED
  BY <1>4, <1>5, <1>6

LEMMA NamesApart == /\ "" \notin Plans /\ "unknown" \notin Plans
                    /\ \A e \in Accounts \X Accounts : e # Nobody
<1>1. "" \notin Plans /\ "unknown" \notin Plans
  BY HomesConstants, Zenon
<1>2. ASSUME NEW e \in Accounts \X Accounts
      PROVE  e # <<>>
  OBVIOUS
<1> QED
  BY <1>1, <1>2 DEF Nobody

LEMMA NoRecordType == NoRecord \in HomeRecord /\ Nobody \notin Accounts \X Accounts
BY NamesApart DEF NoRecord, HomeRecord

(* What is recorded stays true while time passes and plans are added.      *)
LEMMA RecordsStay ==
  ASSUME RecordInv, UNCHANGED record, clock \in Int, clock' \in Int, clock <= clock',
         \A s \in Accounts : plans[s] \subseteq plans'[s]
  PROVE  RecordInv'
<1>1. ASSUME NEW h \in Homes
      PROVE  /\ WindowKept(record[h].windows)'
             /\ ReceiptKept(record[h].receipt)'
             /\ PlansKept(record[h])'
  <2>1. record[h] \in HomeRecord
    BY DEF RecordInv
  <2>2. WindowKept(record[h].windows)'
    <3>1. record[h].windows # None => record[h].windows.at \in Int
      BY <2>1 DEF HomeRecord, KeptWindow
    <3> QED
      BY <3>1 DEF RecordInv, WindowKept
  <2>3. ReceiptKept(record[h].receipt)'
    BY DEF RecordInv, ReceiptKept
  <2>4. PlansKept(record[h])'
    <3>1. record[h].identity # Nobody => record[h].identity[2] \in Accounts
      BY <2>1 DEF HomeRecord
    <3> QED
      BY <3>1 DEF RecordInv, PlansKept
  <2> QED
    BY <2>2, <2>3, <2>4
<1> QED
  BY <1>1 DEF RecordInv

LEMMA OpenKeeps ==
  ASSUME HomesInv, NEW h \in Homes, Open(h)
  PROVE  HomesInv'
<1>1. ServiceInv' /\ RecordInv'
  BY RecordsStay DEF Open, HomesInv, ServiceInv, service, RecordInv, WindowKept, ReceiptKept, PlansKept
<1>2. auth[h] \in SignIns /\ auth[h].edition \in Nat
  BY DEF HomesInv, ServiceInv, SignIns
<1>3. /\ talk' = [at |-> "account", home |-> h, before |-> auth[h]]
      /\ talk'.at = "account" /\ talk'.home = h /\ talk'.before = auth[h] /\ auth' = auth
  BY DEF Open
<1>4. BeforeInv'
  BY <1>2, <1>3 DEF BeforeInv
<1>5. TalkInv'
  BY <1>3, <1>4 DEF TalkInv
<1> QED
  BY <1>1, <1>5 DEF HomesInv

LEMMA AskAccountKeeps ==
  ASSUME HomesInv, AskAccount
  PROVE  HomesInv'
<1>1. ServiceInv' /\ RecordInv'
  BY RecordsStay DEF AskAccount, HomesInv, ServiceInv, service, RecordInv, WindowKept, ReceiptKept, PlansKept
<1>2. talk.at = "account" /\ BeforeInv
  BY DEF AskAccount, HomesInv, TalkInv, Silent
<1>3. auth[talk.home] \in SignIns /\ auth[talk.home].who \in Accounts
  BY <1>2 DEF HomesInv, ServiceInv, SignIns, BeforeInv
<1>4. PICK said \in {plan[auth[talk.home].who], "unknown"} :
        talk' = [at |-> "limits", home |-> talk.home, before |-> talk.before,
                 email |-> auth[talk.home].who, plan |-> said]
  BY DEF AskAccount
<1>5. /\ talk'.at = "limits" /\ talk'.home = talk.home /\ talk'.before = talk.before
      /\ talk'.email = auth[talk.home].who /\ talk'.plan = said
      /\ auth' = auth /\ plans' = plans
  BY <1>4 DEF AskAccount, service
<1>6. said = "unknown" \/ said \in plans[auth[talk.home].who]
  BY <1>3 DEF HomesInv, ServiceInv
<1>7. BeforeInv'
  BY <1>2, <1>5 DEF BeforeInv
<1>8. AccountRead'
  BY <1>3, <1>5, <1>6 DEF AccountRead
<1> QED
  BY <1>1, <1>5, <1>7, <1>8 DEF HomesInv, TalkInv

LEMMA AskLimitsKeeps ==
  ASSUME HomesInv, AskLimits
  PROVE  HomesInv'
<1>1. ServiceInv' /\ RecordInv'
  BY RecordsStay DEF AskLimits, HomesInv, ServiceInv, service, RecordInv, WindowKept, ReceiptKept, PlansKept
<1>2. talk.at = "limits" /\ BeforeInv /\ AccountRead
  BY DEF AskLimits, HomesInv, TalkInv, Silent
<1> DEFINE w == window[auth[talk.home].who]
           reset == IF w.floats THEN clock + Length ELSE w.ends
<1>3. /\ w \in [floats : BOOLEAN, ends : Int] /\ w.ends <= clock + Length
      /\ clock \in Int /\ Length \in Int
  BY <1>2, LengthType DEF HomesInv, ServiceInv, SignIns, BeforeInv
<1>4. PICK used \in {0, 1} :
        talk' = [at |-> "describe", home |-> talk.home, before |-> talk.before,
                 email |-> talk.email, plan |-> talk.plan,
                 seen |-> [reset |-> reset, used |-> used, floated |-> w.floats,
                           edition |-> auth[talk.home].edition]]
  BY DEF AskLimits
<1>5. /\ talk'.at = "describe" /\ talk'.home = talk.home /\ talk'.before = talk.before
      /\ talk'.email = talk.email /\ talk'.plan = talk.plan
      /\ talk'.seen = [reset |-> reset, used |-> used, floated |-> w.floats,
                       edition |-> auth[talk.home].edition]
      /\ auth' = auth /\ plans' = plans /\ clock' = clock
  BY <1>4 DEF AskLimits, service
<1>6. reset \in Int /\ reset <= clock + Length
  BY <1>3
<1>7. w.floats => reset = clock + Length
  OBVIOUS
<1>8. LimitsRead'
  <2> HIDE DEF reset
  <2>1. talk'.seen \in SeenWindow
    <3>1. auth[talk.home].edition \in Nat
      BY <1>2 DEF HomesInv, ServiceInv, SignIns, BeforeInv
    <3> QED
      BY <1>3, <1>5, <1>6, <3>1 DEF SeenWindow
  <2> QED
    BY <1>5, <1>6, <1>7, <2>1 DEF LimitsRead
<1>9. BeforeInv' /\ AccountRead'
  BY <1>2, <1>5 DEF BeforeInv, AccountRead
<1> QED
  BY <1>1, <1>5, <1>8, <1>9 DEF HomesInv, TalkInv

LEMMA DescribeKeeps ==
  ASSUME HomesInv, Describe
  PROVE  HomesInv'
<1>1. ServiceInv' /\ RecordInv'
  BY RecordsStay DEF Describe, HomesInv, ServiceInv, service, RecordInv, WindowKept, ReceiptKept, PlansKept
<1>2. talk.at = "describe" /\ BeforeInv /\ AccountRead /\ LimitsRead
  BY DEF Describe, HomesInv, TalkInv, Silent
<1>3. /\ talk'.at = "receipt" /\ talk'.home = talk.home /\ talk'.before = talk.before
      /\ talk'.email = talk.email /\ talk'.plan = talk.plan /\ talk'.seen = talk.seen
      /\ talk'.account = auth[talk.home].who
      /\ auth' = auth /\ plans' = plans /\ clock' = clock
  BY DEF Describe, service
<1>4. auth[talk.home].who \in Accounts
  BY <1>2 DEF HomesInv, ServiceInv, SignIns, BeforeInv
<1>5. BeforeInv' /\ AccountRead' /\ LimitsRead'
  BY <1>2, <1>3 DEF BeforeInv, AccountRead, LimitsRead
<1>6. Described'
  BY <1>3, <1>4 DEF Described
<1> QED
  BY <1>1, <1>3, <1>5, <1>6 DEF HomesInv, TalkInv

(* A reading tells a window that has begun from one that floats.           *)
LEMMA WindowTyped ==
  ASSUME ServiceInv, LimitsRead, NEW kept \in KeptWindow \cup {None}, WindowKept(kept),
         Steady, talk.seen.edition <= MaxSignIns, ReadAfter(kept, talk.seen)
  PROVE  /\ Window(kept, talk.seen) \in KeptWindow
         /\ WindowKept(Window(kept, talk.seen))
<1> DEFINE seen == talk.seen
           w == Window(kept, seen)
           anchor == Anchor(kept, seen)
<1>1. /\ seen \in SeenWindow /\ seen.reset \in Int /\ clock \in Int /\ Length \in Int
      /\ seen.used \in {0, 1} /\ seen.floated \in BOOLEAN /\ seen.edition \in Nat
      /\ seen.reset <= clock + Length /\ Length > 0 /\ Confirm \in Int /\ Confirm > 0
      /\ Near \in Int
  BY LengthType, NearType DEF LimitsRead, SeenWindow, ServiceInv
<1>2. anchor \in {"unconfirmed", "observed-active", "expired"}
  BY DEF Anchor
<1>3. /\ w = [reset |-> seen.reset, used |-> seen.used, anchor |-> anchor,
               at |-> clock, floated |-> seen.floated, edition |-> seen.edition]
      /\ w.reset = seen.reset /\ w.at = clock /\ w.anchor = anchor /\ w.floated = seen.floated
      /\ w.edition = seen.edition
  BY DEF Window
<1>4. w \in KeptWindow
  <2> HIDE DEF w, anchor
  <2> QED
    BY <1>1, <1>2, <1>3 DEF KeptWindow
<1>5. ASSUME anchor = "observed-active"
      PROVE  ~ seen.floated /\ seen.reset + Confirm <= clock + Length + Drift(seen.edition)
  <2>1. /\ kept # None /\ kept.reset - seen.reset \in -Near .. Near
        /\ clock - kept.at >= Confirm \/ kept.anchor = "observed-active"
    BY <1>5 DEF Anchor, Agree
  <2>2. /\ kept \in KeptWindow /\ kept.at \in Int /\ kept.reset \in Int /\ kept.edition \in Nat
        /\ kept.floated \in BOOLEAN
    BY <2>1 DEF KeptWindow
  <2>3. /\ kept.at <= clock /\ kept.reset <= kept.at + Length
        /\ seen.reset <= kept.reset + Near
        /\ seen.floated => seen.reset = clock + Length
    BY <1>1, <2>1, <2>2 DEF WindowKept, LimitsRead
  <2>4. /\ Drift(seen.edition) \in Int /\ Near <= Drift(seen.edition)
        /\ Drift(seen.edition) + Near < Confirm
    BY <1>1, DriftBounded
  <2>5. CASE clock - kept.at >= Confirm
    BY <1>1, <2>2, <2>3, <2>4, <2>5
  <2>6. CASE kept.anchor = "observed-active"
    <3>1. ~ kept.floated /\ kept.reset + Confirm <= kept.at + Length + Drift(kept.edition)
      BY <2>1, <2>6 DEF WindowKept
    <3>2. /\ kept.edition <= seen.edition
          /\ ~ seen.floated /\ kept.edition = seen.edition =>
               seen.reset = kept.reset \/ seen.reset >= kept.at + Length
      BY <2>1, <3>1 DEF ReadAfter
    <3>3. /\ Drift(kept.edition) \in Int
          /\ kept.edition < seen.edition => Drift(kept.edition) + Near <= Drift(seen.edition)
      BY <1>1, <2>2, DriftBounded
    <3>4. CASE kept.edition < seen.edition
      <4> HIDE DEF seen
      <4> QED
        BY <1>1, <2>2, <2>3, <2>4, <3>1, <3>3, <3>4
    <3>5. CASE kept.edition = seen.edition
      <4>1. Drift(kept.edition) = Drift(seen.edition)
        BY <3>5
      <4> HIDE DEF seen
      <4>2. ~ seen.floated
        BY <1>1, <2>2, <2>3, <2>4, <3>1, <4>1
      <4>3. seen.reset = kept.reset \/ seen.reset >= kept.at + Length
        BY <3>2, <3>5, <4>2
      <4> QED
        BY <1>1, <2>2, <2>3, <2>4, <3>1, <4>1, <4>2, <4>3
    <3> QED
      BY <1>1, <2>2, <3>2, <3>4, <3>5
  <2> QED
    BY <2>1, <2>5, <2>6
<1>6. WindowKept(w)
  <2> HIDE DEF w, anchor
  <2>1. w.at <= clock /\ w.reset <= w.at + Length
    BY <1>1, <1>3
  <2>2. w.floated => w.reset = w.at + Length
    BY <1>3 DEF LimitsRead
  <2>3. w.anchor = "observed-active" =>
          ~ w.floated /\ w.reset + Confirm <= w.at + Length + Drift(w.edition)
    BY <1>3, <1>5
  <2> QED
    BY <2>1, <2>2, <2>3 DEF WindowKept
<1> QED
  BY <1>4, <1>6

(* What is still held of the last record is of the one now seen.           *)
LEMMA KeptTyped ==
  ASSUME NEW old \in HomeRecord, WindowKept(old.windows), PlansKept(old)
  PROVE  /\ Kept(old) \in HomeRecord
         /\ WindowKept(Kept(old).windows)
         /\ Kept(old).plan # "" \/ Kept(old).previousPlan # "" =>
              Kept(old) = old /\ old.identity = Identity
<1>1. CASE Same(old, Identity)
  BY <1>1 DEF Kept, Same
<1>2. CASE ~ Same(old, Identity)
  <2>1. Kept(old) = NoRecord
    BY <1>2 DEF Kept
  <2>2. NoRecord.windows = None /\ NoRecord.plan = "" /\ NoRecord.previousPlan = ""
    BY DEF NoRecord
  <2> QED
    BY <2>1, <2>2, NoRecordType DEF WindowKept
<1> QED
  BY <1>1, <1>2

LEMMA SaveKeeps ==
  ASSUME HomesInv, SignInsInv, Save
  PROVE  HomesInv'
<1> DEFINE h == talk.home
           old == record[h]
           new == Updated(old)
           w == Window(Kept(old).windows, talk.seen)
           receipt == Receipt(auth[h])
           said == IF talk.plan # "unknown" \/ Kept(old).plan = "" THEN talk.plan ELSE old.plan
           before == IF Replaced(old) THEN old.plan ELSE Kept(old).previousPlan
<1>1. /\ talk.at = "receipt" /\ BeforeInv /\ AccountRead /\ LimitsRead /\ Described
      /\ h \in Homes
  BY DEF Save, HomesInv, TalkInv, Silent, BeforeInv
<1>2. /\ record' = [record EXCEPT ![h] = new] /\ talk' = Silent
      /\ auth' = auth /\ plans' = plans /\ clock' = clock /\ plan' = plan /\ window' = window
  BY DEF Save, service
<1>3. /\ old \in HomeRecord /\ WindowKept(old.windows) /\ PlansKept(old)
  BY <1>1 DEF HomesInv, RecordInv
<1>4. /\ Kept(old) \in HomeRecord /\ WindowKept(Kept(old).windows)
      /\ Kept(old).plan # "" \/ Kept(old).previousPlan # "" =>
           Kept(old) = old /\ old.identity = Identity
  <2> HIDE DEF old
  <2> QED
    BY <1>3, KeptTyped
<1>5. w \in KeptWindow /\ WindowKept(w)
  <2>1. Kept(old).windows \in KeptWindow \cup {None}
    BY <1>4 DEF HomeRecord
  <2>2. Steady /\ talk.seen.edition <= auth[h].edition /\ auth[h].edition <= MaxSignIns
        /\ ReadAfter(old.windows, talk.seen)
    BY <1>1 DEF SignInsInv, StillRead, Silent
  <2>3. talk.seen.edition \in Nat /\ auth[h].edition \in Nat /\ MaxSignIns \in Nat
    BY <1>1, NearType DEF LimitsRead, SeenWindow, HomesInv, ServiceInv, SignIns
  <2>4. talk.seen.edition <= MaxSignIns
    BY <2>2, <2>3
  <2>5. ReadAfter(Kept(old).windows, talk.seen)
    <3>1. Kept(old) = old \/ Kept(old) = NoRecord
      BY DEF Kept
    <3>2. NoRecord.windows = None
      BY DEF NoRecord
    <3> QED
      BY <2>2, <3>1, <3>2 DEF ReadAfter
  <2> QED
    BY <1>1, <1>4, <2>1, <2>2, <2>4, <2>5, WindowTyped DEF HomesInv
<1>6. receipt \in KeptReceipt \cup {None} /\ ReceiptKept(receipt)
  <2>1. CASE auth[h] = talk.before
    <3>1. receipt = [digest |-> auth[h], email |-> talk.email, account |-> auth[h].who]
      BY <2>1 DEF Receipt
    <3>2. talk.email = auth[h].who /\ auth[h] \in SignIns /\ auth[h].who \in Accounts
      BY <1>1, <2>1 DEF AccountRead, HomesInv, ServiceInv, SignIns
    <3> QED
      BY <3>1, <3>2 DEF KeptReceipt, ReceiptKept
  <2>2. CASE auth[h] # talk.before
    BY <2>2 DEF Receipt, ReceiptKept
  <2> QED
    BY <2>1, <2>2
<1>7. Identity = <<talk.email, talk.account>> /\ Identity \in Accounts \X Accounts
  BY <1>1 DEF Identity, AccountRead, Described
<1>8. /\ new = [identity |-> Identity, windows |-> w, receipt |-> receipt,
                 plan |-> said, previousPlan |-> before]
      /\ new.identity = Identity /\ new.windows = w /\ new.receipt = receipt
      /\ new.plan = said /\ new.previousPlan = before
  BY DEF Updated
<1>9. talk.plan \in Plans \cup {"unknown"}
  BY <1>1 DEF AccountRead, HomesInv, ServiceInv
<1>10. /\ old.plan \in Plans \cup {"", "unknown"}
       /\ Kept(old).previousPlan \in Plans \cup {""}
  BY <1>3, <1>4 DEF HomeRecord
<1>11. /\ said \in Plans \cup {"", "unknown"} /\ before \in Plans \cup {""}
  BY <1>9, <1>10 DEF Replaced
<1>12. new \in HomeRecord
  <2> HIDE DEF new, w, receipt, said, before
  <2> QED
    BY <1>5, <1>6, <1>7, <1>8, <1>11 DEF HomeRecord
<1>13. ASSUME talk.email = talk.account
       PROVE  LET had == plans[talk.account] IN
              /\ said \in had \cup {"unknown"}
              /\ before # "" => before \in had /\ said \in had
  <2> DEFINE had == plans[talk.account]
  <2>1. /\ had \subseteq Plans
        /\ talk.plan = "unknown" \/ talk.plan \in had
    BY <1>1, <1>13 DEF AccountRead, Described, HomesInv, ServiceInv
  <2>2. ASSUME old.identity = Identity
        PROVE  /\ old.plan \in had \cup {"unknown"}
               /\ old.previousPlan # "" => old.previousPlan \in had /\ old.plan \in had
    <3>1. /\ Identity # Nobody /\ Identity[1] = talk.email /\ Identity[2] = talk.account
      <4>1. Identity # Nobody
        BY <1>7, NamesApart
      <4>2. Identity[1] = talk.email /\ Identity[2] = talk.account
        BY <1>7
      <4> QED
        BY <4>1, <4>2
    <3> QED
      BY <1>3, <1>13, <2>2, <3>1 DEF PlansKept
  <2>3. CASE Replaced(old)
    <3>1. old.identity = Identity /\ old.plan # "unknown" /\ talk.plan # "unknown"
      BY <2>3 DEF Replaced, Same
    <3> QED
      BY <2>1, <2>2, <2>3, <3>1
  <2>4. CASE ~ Replaced(old)
    <3>1. CASE Kept(old).plan # "" \/ Kept(old).previousPlan # ""
      <4>1. Kept(old) = old /\ old.identity = Identity
        BY <1>4, <3>1
      <4>2. /\ old.plan \in had \cup {"unknown"}
            /\ old.previousPlan # "" => old.previousPlan \in had /\ old.plan \in had
        BY <2>2, <4>1
      <4>4. "" \notin had /\ "unknown" \notin had
        BY <2>1, NamesApart
      <4>3. before = old.previousPlan /\ said = IF talk.plan # "unknown" \/ old.plan = ""
                                                THEN talk.plan ELSE old.plan
        BY <2>4, <4>1
      <4> HIDE DEF before, said, old, had
      <4>5. old.plan # ""
        BY <4>2, <4>4, Zenon
      <4>6. said \in had \cup {"unknown"}
        BY <2>1, <4>2, <4>3, <4>5
      <4>7. old.plan \in had => said \in had
        BY <2>1, <4>3, <4>5
      <4> QED
        BY <4>2, <4>3, <4>6, <4>7 DEF had
    <3>2. CASE Kept(old).plan = "" /\ Kept(old).previousPlan = ""
      BY <2>1, <2>4, <3>2
    <3> QED
      BY <3>1, <3>2
  <2> QED
    BY <2>3, <2>4
<1>14. PlansKept(new)
  <2>1. Identity[1] = talk.email /\ Identity[2] = talk.account
    BY <1>7
  <2> HIDE DEF new, said, before
  <2> QED
    BY <1>8, <1>13, <2>1 DEF PlansKept
<1>15. RecordInv'
  <2>1. None \notin KeptWindow
    BY DEF None, KeptWindow
  <2>2. \A g \in Homes : record'[g] = IF g = h THEN new ELSE record[g]
    BY <1>2 DEF HomesInv, RecordInv
  <2>3. record' \in [Homes -> HomeRecord]
    <3> HIDE DEF new
    <3> QED
      BY <1>2, <1>12 DEF HomesInv, RecordInv
  <2>4. ASSUME NEW g \in Homes
        PROVE  /\ record'[g].identity # Nobody => record'[g].windows # None
               /\ WindowKept(record[g].windows)'
               /\ ReceiptKept(record[g].receipt)'
               /\ PlansKept(record[g])'
    <3> HIDE DEF new, w, receipt
    <3>1. CASE g = h
      BY <1>2, <1>5, <1>6, <1>8, <1>14, <2>1, <2>2, <3>1 DEF WindowKept, ReceiptKept, PlansKept
    <3>2. CASE g # h
      BY <1>2, <2>2, <3>2 DEF HomesInv, RecordInv, WindowKept, ReceiptKept, PlansKept
    <3> QED
      BY <3>1, <3>2
  <2> QED
    BY <2>3, <2>4 DEF RecordInv
<1> QED
  BY <1>2, <1>15 DEF HomesInv, ServiceInv, TalkInv

LEMMA TimedOutKeeps ==
  ASSUME HomesInv, TimedOut
  PROVE  HomesInv'
BY RecordsStay DEF TimedOut, HomesInv, ServiceInv, service, TalkInv, RecordInv,
     WindowKept, ReceiptKept, PlansKept

LEMMA RefusedKeeps ==
  ASSUME HomesInv, Refused
  PROVE  HomesInv'
<1> DEFINE h == talk.home
           new == [record[h] EXCEPT !.receipt = None]
<1>1. h \in Homes
  BY DEF Refused, HomesInv, TalkInv, Silent, BeforeInv
<1>2. /\ record' = [record EXCEPT ![h] = new] /\ talk' = Silent
      /\ plans' = plans /\ clock' = clock
  BY DEF Refused, service
<1>3. /\ record[h] \in HomeRecord /\ new \in HomeRecord
      /\ new.identity = record[h].identity /\ new.windows = record[h].windows
      /\ new.receipt = None /\ new.plan = record[h].plan
      /\ new.previousPlan = record[h].previousPlan
  BY <1>1 DEF HomesInv, RecordInv, HomeRecord
<1>4. \A g \in Homes : record'[g] = IF g = h THEN new ELSE record[g]
  BY <1>2 DEF HomesInv, RecordInv
<1>5. record' \in [Homes -> HomeRecord]
  <2> HIDE DEF new
  <2> QED
    BY <1>2, <1>3 DEF HomesInv, RecordInv
<1>6. ASSUME NEW g \in Homes
      PROVE  /\ record'[g].identity # Nobody => record'[g].windows # None
             /\ WindowKept(record[g].windows)'
             /\ ReceiptKept(record[g].receipt)'
             /\ PlansKept(record[g])'
  <2> HIDE DEF new
  <2> QED
    BY <1>1, <1>2, <1>3, <1>4 DEF HomesInv, RecordInv, WindowKept, ReceiptKept, PlansKept
<1>7. RecordInv'
  BY <1>5, <1>6 DEF RecordInv
<1> QED
  BY <1>2, <1>7 DEF Refused, HomesInv, ServiceInv, service, TalkInv

LEMMA SignInKeeps ==
  ASSUME HomesInv, NEW h \in Homes, NEW s \in Accounts, SignIn(h, s)
  PROVE  HomesInv'
<1> DEFINE now == [who |-> s, edition |-> auth[h].edition + 1]
<1>1. /\ auth' = [auth EXCEPT ![h] = now]
      /\ clock' = clock /\ plans' = plans /\ talk' = talk /\ record' = record
      /\ window' = window /\ plan' = plan
  BY DEF SignIn, service
<1>2. auth \in [Homes -> SignIns] /\ auth[h].edition \in Nat /\ clock \in Int
  BY DEF HomesInv, ServiceInv, SignIns
<1>3. now \in SignIns /\ now.edition = auth[h].edition + 1
  BY <1>2 DEF SignIns
<1>4. ServiceInv'
  BY <1>1, <1>2, <1>3 DEF HomesInv, ServiceInv
<1>5. RecordInv'
  BY <1>1, <1>2, RecordsStay DEF HomesInv
<1>6. CASE talk = Silent
  BY <1>1, <1>4, <1>5, <1>6 DEF HomesInv, TalkInv
<1>7. CASE talk # Silent
  <2>1. BeforeInv /\ talk.before.edition \in Nat /\ auth[talk.home].edition \in Nat
    BY <1>2, <1>7 DEF HomesInv, TalkInv, BeforeInv, SignIns
  <2>2. auth'[talk.home] = IF talk.home = h THEN now ELSE auth[talk.home]
    BY <1>1, <1>2, <2>1 DEF BeforeInv
  <2>3. talk.home = h => talk.before.edition < now.edition
    BY <1>2, <1>3, <2>1 DEF BeforeInv
  <2>4. \/ auth'[talk.home] = auth[talk.home]
        \/ /\ talk.before # auth'[talk.home]
           /\ talk.before.edition <= auth'[talk.home].edition
           /\ talk.before.edition # auth'[talk.home].edition
    <3> HIDE DEF now
    <3>1. talk.home = h => /\ talk.before.edition <= now.edition
                           /\ talk.before.edition # now.edition
      BY <1>2, <1>3, <2>1, <2>3
    <3> QED
      BY <2>2, <3>1
  <2>5. BeforeInv'
    BY <1>1, <2>1, <2>4 DEF BeforeInv
  <2>6. /\ AccountRead => AccountRead'
        /\ LimitsRead => LimitsRead'
        /\ Described => Described'
    BY <1>1, <2>4 DEF AccountRead, LimitsRead, Described
  <2>7. TalkInv'
    BY <1>1, <1>7, <2>5, <2>6 DEF HomesInv, TalkInv
  <2> QED
    BY <1>4, <1>5, <2>7 DEF HomesInv
<1> QED
  BY <1>6, <1>7

LEMMA ServiceKeeps ==
  ASSUME HomesInv, NEW s \in Accounts, Turn(s) \/ ChangePlan(s)
  PROVE  HomesInv'
<1>1. clock \in Int /\ Length \in Int /\ Length > 0 /\ clock >= 0
  BY LengthType DEF HomesInv, ServiceInv
<1>2. CASE Turn(s)
  <2> DEFINE w == IF window[s].floats THEN [floats |-> FALSE, ends |-> clock + Length]
                  ELSE [floats |-> TRUE, ends |-> 0]
  <2>1. /\ window' = [window EXCEPT ![s] = w]
        /\ clock' = clock /\ auth' = auth /\ plan' = plan /\ plans' = plans
        /\ talk' = talk /\ record' = record
    BY <1>2 DEF Turn
  <2>2. w \in [floats : BOOLEAN, ends : Int] /\ w.ends <= clock + Length
    <3>1. w.ends = IF window[s].floats THEN clock + Length ELSE 0
      OBVIOUS
    <3>2. w.ends \in Int /\ w.ends <= clock + Length
      BY <1>1, <3>1
    <3> QED
      BY <1>1, <3>2
  <2>3. ServiceInv'
    <3> HIDE DEF w
    <3> QED
      BY <2>1, <2>2 DEF HomesInv, ServiceInv
  <2>4. RecordInv'
    BY <1>1, <2>1, RecordsStay DEF HomesInv
  <2>5. TalkInv'
    BY <2>1 DEF HomesInv, TalkInv, BeforeInv, AccountRead, LimitsRead, Described
  <2> QED
    BY <2>3, <2>4, <2>5 DEF HomesInv
<1>3. CASE ChangePlan(s)
  <2>1. PICK p \in Plans \ {plan[s]} : /\ plan' = [plan EXCEPT ![s] = p]
                                      /\ plans' = [plans EXCEPT ![s] = @ \cup {p}]
    BY <1>3 DEF ChangePlan
  <2>2. /\ clock' = clock /\ auth' = auth /\ window' = window
        /\ talk' = talk /\ record' = record
    BY <1>3 DEF ChangePlan
  <2>3. /\ plan' \in [Accounts -> Plans] /\ plans' \in [Accounts -> SUBSET Plans]
        /\ \A t \in Accounts : plan'[t] \in plans'[t] /\ plans[t] \subseteq plans'[t]
    BY <2>1 DEF HomesInv, ServiceInv
  <2>4. ServiceInv'
    BY <2>2, <2>3 DEF HomesInv, ServiceInv
  <2>5. RecordInv'
    BY <1>1, <2>2, <2>3, RecordsStay DEF HomesInv
  <2>6. /\ BeforeInv => BeforeInv'
        /\ LimitsRead => LimitsRead'
        /\ Described => Described'
        /\ AccountRead => AccountRead'
    BY <2>2, <2>3 DEF BeforeInv, AccountRead, LimitsRead, Described
  <2>7. TalkInv'
    <3>1. CASE talk = Silent
      BY <2>2, <3>1 DEF TalkInv
    <3>2. CASE talk # Silent
      <4>1. talk'.at = talk.at /\ talk' = talk
        BY <2>2
      <4>2. /\ talk.at \in {"account", "limits", "describe", "receipt"}
            /\ BeforeInv
            /\ talk.at # "account" => AccountRead
            /\ talk.at \in {"describe", "receipt"} => LimitsRead
            /\ talk.at = "receipt" => Described
        BY <3>2 DEF HomesInv, TalkInv
      <4> QED
        BY <2>6, <4>1, <4>2 DEF TalkInv
    <3> QED
      BY <3>1, <3>2
  <2> QED
    BY <2>4, <2>5, <2>7 DEF HomesInv
<1> QED
  BY <1>2, <1>3

LEMMA TickKeeps ==
  ASSUME HomesInv, Tick
  PROVE  HomesInv'
<1>1. /\ clock' = clock + 1 /\ talk = Silent /\ talk' = talk /\ auth' = auth
      /\ window' = window /\ plan' = plan /\ plans' = plans /\ record' = record
  BY DEF Tick, service
<1>2. clock \in Nat /\ Length \in Nat /\ \A s \in Accounts : window[s].ends \in Int
  BY LengthType DEF HomesInv, ServiceInv
<1>3. clock' \in Nat /\ clock <= clock'
  BY <1>1, <1>2
<1>4. \A s \in Accounts : window[s].ends <= clock + Length => window[s].ends <= clock' + Length
  BY <1>1, <1>2
<1>5. ServiceInv'
  BY <1>1, <1>3, <1>4 DEF HomesInv, ServiceInv
<1>6. RecordInv'
  BY <1>1, <1>2, <1>3, RecordsStay DEF HomesInv
<1> QED
  BY <1>1, <1>5, <1>6 DEF HomesInv, TalkInv

LEMMA HomesKeep == HomesInv /\ SignInsInv /\ [HomesNext]_homes => HomesInv'
<1> SUFFICES ASSUME HomesInv, SignInsInv, [HomesNext]_homes
             PROVE  HomesInv'
  OBVIOUS
<1>1. CASE UNCHANGED homes
  BY <1>1 DEF homes, service, HomesInv, ServiceInv, TalkInv, BeforeInv, AccountRead, LimitsRead,
       Described, RecordInv, WindowKept, ReceiptKept, PlansKept
<1>2. CASE HomesNext
  <2>1. CASE \E h \in Homes : Open(h)
    BY <2>1, OpenKeeps
  <2>2. CASE AskAccount
    BY <2>2, AskAccountKeeps
  <2>3. CASE AskLimits
    BY <2>3, AskLimitsKeeps
  <2>4. CASE Describe
    BY <2>4, DescribeKeeps
  <2>5. CASE Save
    BY <2>5, SaveKeeps
  <2>6. CASE TimedOut
    BY <2>6, TimedOutKeeps
  <2>7. CASE Refused
    BY <2>7, RefusedKeeps
  <2>8. CASE \E h \in Homes, s \in Accounts : SignIn(h, s)
    BY <2>8, SignInKeeps
  <2>9. CASE \E s \in Accounts : Turn(s) \/ ChangePlan(s)
    BY <2>9, ServiceKeeps
  <2>10. CASE Tick
    BY <2>10, TickKeeps
  <2> QED
    BY <1>2, <2>1, <2>2, <2>3, <2>4, <2>5, <2>6, <2>7, <2>8, <2>9, <2>10 DEF HomesNext
<1> QED
  BY <1>1, <1>2

(* What the sign-ins were read by                                           *)
LEMMA SignInsKeep == HomesInv /\ SignInsInv /\ [HomesNext]_homes => SignInsInv'
<1> SUFFICES ASSUME HomesInv, SignInsInv, [HomesNext]_homes
             PROVE  SignInsInv'
  OBVIOUS
<1> USE DEF Steady
<1>1. CASE UNCHANGED homes
  BY <1>1 DEF homes, service, SignInsInv, StillRead, ReadAfter
<1>2. ASSUME NEW h \in Homes, Open(h)
      PROVE  SignInsInv'
  <2>1. talk'.at = "account"
    BY <1>2 DEF Open
  <2> QED
    BY <1>2, <2>1 DEF Open, service, SignInsInv, StillRead
<1>3. CASE AskAccount
  <2>1. talk'.at = "limits"
    BY <1>3 DEF AskAccount
  <2> QED
    BY <1>3, <2>1 DEF AskAccount, service, SignInsInv, StillRead
<1>4. CASE AskLimits
  <2>1. talk.at = "limits" /\ BeforeInv /\ talk.home \in Homes
    BY <1>4 DEF AskLimits, HomesInv, TalkInv, Silent, BeforeInv
  <2> DEFINE h == talk.home
             w == window[auth[h].who]
             seen == talk'.seen
  <2>2. /\ talk'.home = h /\ talk' # Silent
        /\ seen.reset = IF w.floats THEN clock + Length ELSE w.ends
        /\ seen.floated = w.floats /\ seen.edition = auth[h].edition
        /\ auth' = auth /\ window' = window /\ clock' = clock /\ record' = record
    BY <1>4 DEF AskLimits, service, Silent
  <2>3. auth[h].edition \in Nat
    BY <2>1 DEF HomesInv, ServiceInv, SignIns
  <2>4. StillRead(talk.seen, clock, talk.home)'
    BY <2>2, <2>3 DEF StillRead
  <2>5. ReadAfter(record[talk.home].windows, talk.seen)'
    <3> SUFFICES ASSUME record[h].windows # None
                 PROVE  LET kept == record[h].windows IN
                        /\ kept.edition <= seen.edition
                        /\ ~ kept.floated /\ ~ seen.floated /\ kept.edition = seen.edition =>
                             seen.reset = kept.reset \/ seen.reset >= kept.at + Length
      BY <2>2 DEF ReadAfter
    <3>1. StillRead(record[h].windows, record[h].windows.at, h)
      BY <2>1 DEF SignInsInv
    <3> QED
      BY <2>2, <3>1 DEF StillRead
  <2>6. \A g \in Homes :
          /\ auth'[g].edition <= MaxSignIns
          /\ record'[g].windows # None => StillRead(record[g].windows, record[g].windows.at, g)'
    BY <2>2 DEF SignInsInv, StillRead
  <2> QED
    BY <2>4, <2>5, <2>6 DEF SignInsInv
<1>5. CASE Describe
  <2>1. /\ talk.at = "describe" /\ talk # Silent /\ talk'.seen = talk.seen /\ talk'.home = talk.home
        /\ auth' = auth /\ window' = window /\ clock' = clock /\ record' = record
    BY <1>5 DEF Describe, service, Silent
  <2> QED
    BY <2>1 DEF SignInsInv, StillRead, ReadAfter
<1>6. CASE Save
  <2> DEFINE h == talk.home
             new == Updated(record[h])
  <2>1. /\ talk.at = "receipt" /\ talk # Silent /\ BeforeInv /\ h \in Homes
        /\ record' = [record EXCEPT ![h] = new] /\ talk' = Silent
        /\ auth' = auth /\ window' = window /\ clock' = clock
    BY <1>6 DEF Save, service, Silent, HomesInv, TalkInv, BeforeInv
  <2>2. \A g \in Homes : record'[g] = IF g = h THEN new ELSE record[g]
    BY <2>1 DEF HomesInv, RecordInv
  <2>3. /\ new.windows.at = clock /\ new.windows.reset = talk.seen.reset
        /\ new.windows.floated = talk.seen.floated /\ new.windows.edition = talk.seen.edition
    BY DEF Updated, Window
  <2>4. StillRead(talk.seen, clock, h)
    BY <2>1 DEF SignInsInv
  <2>5. ASSUME NEW g \in Homes, record'[g].windows # None
        PROVE  StillRead(record[g].windows, record[g].windows.at, g)'
    <3> HIDE DEF new
    <3>1. CASE g = h
      BY <2>1, <2>2, <2>3, <2>4, <3>1 DEF StillRead
    <3>2. CASE g # h
      BY <2>1, <2>2, <2>5, <3>2 DEF SignInsInv, StillRead
    <3> QED
      BY <3>1, <3>2
  <2> QED
    BY <2>1, <2>5 DEF SignInsInv
<1>7. CASE TimedOut
  BY <1>7 DEF TimedOut, service, SignInsInv, StillRead
<1>8. CASE Refused
  <2> DEFINE h == talk.home
             new == [record[h] EXCEPT !.receipt = None]
  <2>1. /\ h \in Homes /\ record' = [record EXCEPT ![h] = new] /\ talk' = Silent
        /\ auth' = auth /\ window' = window /\ clock' = clock
    BY <1>8 DEF Refused, service, Silent, HomesInv, TalkInv, BeforeInv
  <2>2. new.windows = record[h].windows
    BY <2>1 DEF HomesInv, RecordInv, HomeRecord
  <2>3. \A g \in Homes : record'[g].windows = record[g].windows
    <3> HIDE DEF new
    <3> QED
      BY <2>1, <2>2 DEF HomesInv, RecordInv
  <2> QED
    BY <2>1, <2>3 DEF SignInsInv, StillRead
<1>9. ASSUME NEW h \in Homes, NEW s \in Accounts, SignIn(h, s)
      PROVE  SignInsInv'
  <2> DEFINE now == [who |-> s, edition |-> auth[h].edition + 1]
  <2>1. /\ auth' = [auth EXCEPT ![h] = now] /\ auth[h].edition < MaxSignIns
        /\ clock' = clock /\ window' = window /\ talk' = talk /\ record' = record
    BY <1>9 DEF SignIn, service
  <2>2. /\ \A g \in Homes : auth[g].edition \in Nat /\ auth'[g] = IF g = h THEN now ELSE auth[g]
        /\ MaxSignIns \in Nat
    BY <2>1, NearType DEF HomesInv, ServiceInv, SignIns
  <2>3. ASSUME NEW g \in Homes, NEW w, NEW at, StillRead(w, at, g), w.edition \in Nat
        PROVE  /\ w.edition <= auth'[g].edition
               /\ ~ w.floated /\ w.edition = auth'[g].edition =>
                    LET seen == window[auth'[g].who] IN
                    seen.floats \/ seen.ends = w.reset \/ seen.ends >= at + Length
    <3>1. CASE g = h
      <4>1. auth'[g].edition = auth[g].edition + 1
        BY <2>2, <3>1
      <4>2. w.edition < auth'[g].edition
        BY <2>2, <2>3, <4>1 DEF StillRead
      <4> QED
        BY <2>2, <2>3, <4>1, <4>2
    <3>2. CASE g # h
      BY <2>2, <2>3, <3>2 DEF StillRead
    <3> QED
      BY <3>1, <3>2
  <2>4. \A g \in Homes : auth'[g].edition <= MaxSignIns
    BY <2>1, <2>2 DEF SignInsInv
  <2>5. ASSUME NEW g \in Homes, record[g].windows # None
        PROVE  StillRead(record[g].windows, record[g].windows.at, g)'
    <3>1. record[g].windows.edition \in Nat
      BY <2>5 DEF HomesInv, RecordInv, HomeRecord, KeptWindow
    <3>2. StillRead(record[g].windows, record[g].windows.at, g)
      BY <2>5 DEF SignInsInv
    <3> QED
      BY <2>1, <2>3, <3>1, <3>2 DEF StillRead
  <2>6. ASSUME talk # Silent, talk.at \in {"describe", "receipt"}
        PROVE  /\ StillRead(talk.seen, clock, talk.home)'
               /\ ReadAfter(record[talk.home].windows, talk.seen)'
    <3>1. talk.home \in Homes /\ talk.seen.edition \in Nat
      BY <2>6 DEF HomesInv, TalkInv, BeforeInv, LimitsRead, SeenWindow
    <3>2. StillRead(talk.seen, clock, talk.home) /\ ReadAfter(record[talk.home].windows, talk.seen)
      BY <2>6 DEF SignInsInv
    <3>3. StillRead(talk.seen, clock, talk.home)'
      BY <2>1, <2>3, <3>1, <3>2 DEF StillRead
    <3> QED
      BY <2>1, <3>2, <3>3 DEF ReadAfter
  <2> QED
    BY <2>1, <2>4, <2>5, <2>6 DEF SignInsInv
<1>10. ASSUME NEW s \in Accounts, Turn(s)
       PROVE  SignInsInv'
  <2> DEFINE now == IF window[s].floats THEN [floats |-> FALSE, ends |-> clock + Length]
                    ELSE [floats |-> TRUE, ends |-> 0]
  <2>1. /\ window' = [window EXCEPT ![s] = now] /\ clock' = clock /\ auth' = auth
        /\ talk' = talk /\ record' = record
    BY <1>10 DEF Turn
  <2>2. /\ \A a \in Accounts : window'[a] = window[a] \/ window'[a].floats
                                \/ window'[a].ends = clock + Length
        /\ clock \in Int /\ Length \in Int /\ \A g \in Homes : auth[g].who \in Accounts
    BY <2>1, LengthType DEF HomesInv, ServiceInv, SignIns
  <2>3. ASSUME NEW g \in Homes, NEW w, NEW at \in Int, at <= clock, StillRead(w, at, g)
        PROVE  /\ w.edition <= auth[g].edition
               /\ ~ w.floated /\ w.edition = auth[g].edition =>
                    LET seen == window'[auth[g].who] IN
                    seen.floats \/ seen.ends = w.reset \/ seen.ends >= at + Length
    BY <2>2, <2>3 DEF StillRead
  <2>4. ASSUME NEW g \in Homes, record[g].windows # None
        PROVE  StillRead(record[g].windows, record[g].windows.at, g)'
    <3>1. record[g].windows.at \in Int /\ record[g].windows.at <= clock
      BY <2>4 DEF HomesInv, RecordInv, HomeRecord, KeptWindow, WindowKept
    <3>2. StillRead(record[g].windows, record[g].windows.at, g)
      BY <2>4 DEF SignInsInv
    <3> QED
      BY <2>1, <2>3, <3>1, <3>2 DEF StillRead
  <2>5. ASSUME talk # Silent, talk.at \in {"describe", "receipt"}
        PROVE  /\ StillRead(talk.seen, clock, talk.home)'
               /\ ReadAfter(record[talk.home].windows, talk.seen)'
    <3>1. talk.home \in Homes /\ clock \in Int /\ clock <= clock
      BY <2>2, <2>5 DEF HomesInv, TalkInv, BeforeInv
    <3>2. StillRead(talk.seen, clock, talk.home) /\ ReadAfter(record[talk.home].windows, talk.seen)
      BY <2>5 DEF SignInsInv
    <3>3. StillRead(talk.seen, clock, talk.home)'
      BY <2>1, <2>3, <3>1, <3>2 DEF StillRead
    <3> QED
      BY <2>1, <3>2, <3>3 DEF ReadAfter
  <2> QED
    BY <2>1, <2>4, <2>5 DEF SignInsInv
<1>11. ASSUME NEW s \in Accounts, ChangePlan(s)
       PROVE  SignInsInv'
  BY <1>11 DEF ChangePlan, SignInsInv, StillRead, ReadAfter
<1>12. CASE Tick
  BY <1>12 DEF Tick, service, SignInsInv, StillRead
<1> QED
  BY <1>1, <1>2, <1>3, <1>4, <1>5, <1>6, <1>7, <1>8, <1>9, <1>10, <1>11, <1>12 DEF HomesNext

LEMMA HomesBegin == HomesInit => HomesInv
<1> SUFFICES ASSUME HomesInit
             PROVE  HomesInv
  OBVIOUS
<1>1. clock \in Nat /\ 0 <= clock + Length
  BY LengthType DEF HomesInit
<1>2. auth \in [Homes -> SignIns]
  BY DEF HomesInit, SignIns
<1>3. /\ window \in [Accounts -> [floats : BOOLEAN, ends : Int]]
      /\ \A s \in Accounts : window[s].ends = 0
  BY DEF HomesInit
<1>4. /\ plan \in [Accounts -> Plans] /\ plans \in [Accounts -> SUBSET Plans]
      /\ \A s \in Accounts : plan[s] \in plans[s]
  BY DEF HomesInit
<1>5. ServiceInv
  BY <1>1, <1>2, <1>3, <1>4 DEF ServiceInv
<1>6. RecordInv
  <2>1. \A h \in Homes : record[h] = NoRecord
    BY DEF HomesInit
  <2>2. record \in [Homes -> HomeRecord]
    BY NoRecordType DEF HomesInit
  <2>3. NoRecord.windows = None /\ NoRecord.receipt = None /\ NoRecord.identity = Nobody
    BY DEF NoRecord
  <2> QED
    BY <2>1, <2>2, <2>3 DEF RecordInv, WindowKept, ReceiptKept, PlansKept
<1> QED
  BY <1>5, <1>6 DEF HomesInv, TalkInv, HomesInit

(* Whoever signs in to a home between two answers of its program, and       *)
(* whenever a window begins, starts over or a plan changes: a window said   *)
(* to have begun had begun, a receipt names whom its bytes sign in, and a   *)
(* change of plan is told of a subscription that had both plans.  The times *)
(* of a window's reset may differ from reading to reading, if the sign-in   *)
(* does not change so often that they come to differ by as much as two      *)
(* readings are apart.                                                      *)
THEOREM HomesToldTruly ==
  ASSUME Steady
  PROVE  HomesSpec => []HomeRecordTrue
<1>1. HomesInv => HomeRecordTrue
  <2> SUFFICES ASSUME HomesInv, NEW h \in Homes
               PROVE  /\ OfOne(h) /\ record[h].windows.anchor = "observed-active"
                            => ~ record[h].windows.floated
                      /\ record[h].receipt # None => ReceiptKept(record[h].receipt)
                      /\ OfOne(h) /\ record[h].previousPlan # "" =>
                           {record[h].previousPlan, record[h].plan} \subseteq plans[record[h].identity[2]]
    BY DEF HomeRecordTrue, AnchorTrue, ReceiptTrue, PlanChangeTrue, ReceiptKept
  <2> DEFINE w == record[h].windows
  <2>1. /\ record[h] \in HomeRecord /\ WindowKept(w) /\ ReceiptKept(record[h].receipt)
        /\ PlansKept(record[h])
        /\ record[h].identity # Nobody => w # None
    BY DEF HomesInv, RecordInv
  <2>2. ASSUME OfOne(h), w.anchor = "observed-active", w.floated
        PROVE  FALSE
    <3>1. w # None /\ w \in KeptWindow
      <4>1. record[h].identity # Nobody
        BY <2>2 DEF OfOne
      <4>2. w \in KeptWindow \cup {None}
        BY <2>1 DEF HomeRecord
      <4> QED
        BY <2>1, <4>1, <4>2, Zenon
    <3> HIDE DEF w
    <3> QED
      BY <2>1, <2>2, <3>1 DEF WindowKept
  <2>3. OfOne(h) /\ record[h].previousPlan # "" =>
          {record[h].previousPlan, record[h].plan} \subseteq plans[record[h].identity[2]]
    <3> DEFINE had == plans[record[h].identity[2]]
    <3> SUFFICES ASSUME OfOne(h), record[h].previousPlan # ""
                 PROVE  record[h].previousPlan \in had /\ record[h].plan \in had
      BY Zenon
    <3>1. record[h].identity # Nobody /\ record[h].identity[1] = record[h].identity[2]
      BY DEF OfOne
    <3>2. PlansKept(record[h])
      BY <2>1
    <3> QED
      BY <3>1, <3>2 DEF PlansKept
  <2> QED
    BY <2>1, <2>2, <2>3
<1>2. HomesInit => SignInsInv
  <2> SUFFICES ASSUME HomesInit
               PROVE  SignInsInv
    OBVIOUS
  <2>1. \A h \in Homes : record[h].windows = None
    BY DEF HomesInit, NoRecord
  <2>2. \A h \in Homes : auth[h].edition = 0
    BY DEF HomesInit
  <2> QED
    BY <2>1, <2>2, NearType DEF HomesInit, SignInsInv
<1> QED
  BY <1>1, <1>2, HomesBegin, HomesKeep, SignInsKeep, PTL DEF HomesSpec

-----------------------------------------------------------------------------
(* Least and greatest *)

LEMMA LeastOf ==
  ASSUME NEW T \in SUBSET Nat, T # {} PROVE \E x \in T : \A y \in T : x <= y
<1>1. T \subseteq Nat
  OBVIOUS
<1> DEFINE less == OpToRel(<, Nat)
<1>2. IsWellFoundedOn(less, Nat)
  BY NatLessThanWellFounded
<1>3. \A x, y \in Nat : y < x => <<y, x>> \in less
  BY DEF OpToRel
<1> HIDE DEF less
<1>4. PICK x \in T : \A y \in T : ~ (<<y, x>> \in less)
  BY <1>1, <1>2, WFMin
<1>5. \A y \in T : ~ (y < x)
  BY <1>1, <1>3, <1>4
<1> QED
  BY <1>1, <1>5

LEMMA GreatestOf ==
  ASSUME NEW B \in Nat, NEW T \in SUBSET (0 .. B), T # {}
  PROVE  \E x \in T : \A y \in T : y <= x
<1> DEFINE missing == {B - x : x \in T}
<1>1. missing \in SUBSET Nat /\ missing # {}
  OBVIOUS
<1>2. PICK m \in missing : \A n \in missing : m <= n
  BY <1>1, LeastOf
<1>3. PICK x \in T : m = B - x
  BY <1>2
<1>4. \A y \in T : B - x <= B - y
  BY <1>2, <1>3
<1> QED
  BY <1>4

-----------------------------------------------------------------------------
(* What a wake tells: the inductive invariant                               *)

Evidences == [started : Int, completed : Int, ok : BOOLEAN, io : BOOLEAN]
Reading == [used : 0 .. Full, reset : Nat, at : Nat]
Rates == [left : Int, by : Int]
Forecasts == [pace : {"ahead", "behind", "on track"}, lasts : BOOLEAN, recent : Rates \cup {Nothing},
              used : 1 .. Full, reset : Nat, at : Nat]
Steadies == [since : Nat, used : 0 .. Full, reset : Nat, last : Nat]
Waking == [at : {"begun", "read", "sampled", "noted", "published"}, collector : Evidences, active : Nat,
           reading : Reading \cup {Nothing}, forecast : Forecasts \cup {Nothing}, steady : BOOLEAN,
           changed : BOOLEAN]
Events == [slot : Nat, at : Nat]

InsightsTypes ==
  /\ time \in Nat /\ begun \in Int /\ begun <= time
  /\ account \in [used : 0 .. Full, reset : Nat, steady : Steadies \cup {Nothing}]
  /\ wake \in Waking \cup {Asleep}
  /\ collector \in Evidences /\ done \in [at : Int, ok : BOOLEAN, io : BOOLEAN]
  /\ status \in [collector : Evidences, active : Nat, forecast : Forecasts \cup {Nothing}, steady : BOOLEAN,
                 changed : BOOLEAN]
  /\ samples \in SUBSET Reading /\ IsFiniteSet(samples)
  /\ activity \in Seq(Events)

Ended(evidence) == [at |-> evidence.completed, ok |-> evidence.ok, io |-> evidence.io]

(* The file tells of the latest wake that it began, and else what was known *)
(* of an earlier one, no later than the snapshot's; the snapshot tells of   *)
(* the latest collection that was published.                                *)
HealthInv ==
  /\ collector.started = begun /\ done = Ended(status.collector)
  /\ Never <= begun /\ done.at <= time
  /\ begun = Never => collector = Unmarked /\ done.at = Never
  /\ done.at = Never => status.collector = Unmarked
  /\ done.at # Never => 0 <= status.collector.started /\ status.collector.started <= done.at
  /\ collector.completed < done.at \/ Ended(collector) = done
  /\ wake # Asleep =>
       /\ wake.collector.started = begun /\ 0 <= begun
       /\ wake.at # "published" => begun > done.at
       /\ wake.at \in {"sampled", "noted"} => begun <= wake.collector.completed /\ wake.collector.completed <= time
       /\ wake.at = "published" => Ended(wake.collector) = done /\ begun <= done.at

(* All events after the n-th are later than the snapshot, and the n-th is   *)
(* the change it shows, unless the record is full of later ones.            *)
RecordedAt(events, shown, n) ==
  /\ \A i \in DOMAIN events : i > n => events[i].at > shown.collector.completed
  /\ n = 0 => Len(events) = MostEvents
  /\ n > 0 => events[n].slot = shown.active /\ events[n].at >= shown.collector.started

ChangeInv ==
  /\ Len(activity) <= MostEvents /\ \A i \in DOMAIN activity : activity[i].at <= time
  /\ status.changed => \E n \in 0 .. Len(activity) : RecordedAt(activity, status, n)
  /\ wake # Asleep =>
       /\ wake.at \in {"begun", "read", "sampled"} => ~ wake.changed
       /\ wake.at = "noted" /\ wake.changed =>
            /\ Len(activity) > 0 /\ activity[Len(activity)].slot = wake.active
            /\ activity[Len(activity)].at >= wake.collector.started

PaceRight(f) ==
  f # Nothing =>
    /\ f.lasts <=> f.used * Cycle <= Full * (Cycle - (f.reset - f.at))
    /\ f.pace = "ahead" => ~ f.lasts
    /\ f.pace = "behind" => f.lasts

PaceInv ==
  /\ PaceRight(status.forecast)
  /\ status.steady => status.forecast.recent # Nothing
  /\ wake # Asleep =>
       /\ PaceRight(wake.forecast)
       /\ wake.steady => wake.forecast.recent # Nothing

(* An account is used more and more until its cycle ends.                   *)
Until(s, reset, used) == s.reset <= reset /\ (s.reset = reset => s.used <= used)

HasRead == wake # Asleep /\ wake.at = "read" /\ wake.reading # Nothing

UseInv ==
  /\ account.reset > time /\ account.reset <= time + Cycle
  /\ account.reset = time + Cycle => account.used = 0
  /\ \A s \in samples : s.at <= time /\ Until(s, account.reset, account.used)
  /\ wake # Asleep /\ wake.at = "begun" => wake.reading = Nothing
  /\ HasRead =>
       /\ wake.reading.at <= time /\ Until(wake.reading, account.reset, account.used)
       /\ \A s \in samples : s.at <= wake.reading.at /\ Until(s, wake.reading.reset, wake.reading.used)

(* Samples of one cycle are a spacing apart, and later ones of no earlier   *)
(* cycle.                                                                   *)
InOrder(rows) ==
  \A s, other \in rows : s.at < other.at => s.reset <= other.reset
Spaced(rows) ==
  \A s, other \in rows : s.reset = other.reset /\ s.at <= other.at => s = other \/ other.at - s.at >= Spacing

(* The samples that are kept of a time.                                     *)
Covered(rows, reset, t) == \E s \in rows : s.reset = reset /\ t - Spacing < s.at /\ s.at <= t

Horizon == IF HasRead THEN wake.reading.at ELSE time

(* While an account is read steadily there is, at each of these times, a    *)
(* sample less than a spacing old, for as long as that may be asked for.    *)
SteadyInv ==
  LET st == account.steady IN
  st # Nothing =>
    /\ st.since <= st.last /\ st.last <= time
    /\ \A s \in samples : s.reset = st.reset /\ s.at <= st.since => s.used <= st.used
    /\ Horizon - st.since <= Lately - Spacing =>
         \A t \in st.since .. st.last : Covered(samples, st.reset, t)

InsightsInv ==
  InsightsTypes /\ HealthInv /\ ChangeInv /\ PaceInv /\ UseInv /\ InOrder(samples) /\ Spaced(samples) /\ SteadyInv

LEMMA Sizes ==
  /\ Full \in Nat \ {0} /\ Cycle \in Nat \ {0} /\ Early \in Nat \ {0} /\ Spacing \in Nat \ {0}
  /\ MostEvents \in Nat \ {0} /\ MostRows \in Nat \ {0} /\ Lately \in Nat \ {0}
  /\ Fresh \in Nat /\ Stall \in Nat /\ Overdue \in Nat /\ MaxWakes \in Nat /\ MaxMishaps \in Nat
  /\ Stored \in Nat /\ Stored >= Lately /\ MostRows * Spacing >= Lately
BY InsightsAssumption

-----------------------------------------------------------------------------
(* Rows                                                                     *)

LEMMA EarliestRow ==
  ASSUME NEW rows \in SUBSET Reading, rows # {}
  PROVE  \E s \in rows : \A other \in rows : s.at <= other.at
<1> DEFINE times == {s.at : s \in rows}
<1>1. times \in SUBSET Nat /\ times # {}
  BY DEF Reading
<1>2. PICK x \in times : \A y \in times : x <= y
  BY <1>1, LeastOf
<1> QED
  BY <1>2

LEMMA LatestRow ==
  ASSUME NEW rows \in SUBSET Reading, rows # {}, NEW B \in Nat, \A s \in rows : s.at <= B /\ s.reset <= B
  PROVE  \E s \in rows : \A other \in rows : ~ Later(other, s)
<1> DEFINE times == {s.at : s \in rows}
<1>1. times \in SUBSET (0 .. B) /\ times # {}
  BY DEF Reading
<1>2. PICK x \in times : \A y \in times : y <= x
  BY <1>1, GreatestOf
<1> DEFINE resets == {s.reset : s \in {row \in rows : row.at = x}}
<1>3. resets \in SUBSET (0 .. B) /\ resets # {}
  BY <1>2 DEF Reading
<1>4. PICK y \in resets : \A z \in resets : z <= y
  BY <1>3, GreatestOf
<1>5. PICK s \in rows : s.at = x /\ s.reset = y
  BY <1>4
<1>6. ASSUME NEW other \in rows PROVE ~ Later(other, s)
  <2>1. other.at <= x /\ (other.at = x => other.reset <= y)
    BY <1>2, <1>4
  <2>2. other.at \in Nat /\ other.reset \in Nat /\ s.at \in Nat /\ s.reset \in Nat
    BY DEF Reading
  <2> QED
    BY <2>1, <2>2, <1>5 DEF Later
<1> QED
  BY <1>5, <1>6

(* Of rows a spacing apart, those less than the cap's worth of spacings     *)
(* after a row are fewer than the cap.                                      *)
LEMMA FewLater ==
  ASSUME NEW s \in Reading, NEW late \in SUBSET Reading,
         \A x, y \in late : x # y => x.at - y.at >= Spacing \/ y.at - x.at >= Spacing,
         \A x \in late : x.at - s.at >= Spacing /\ x.at - s.at < MostRows * Spacing
  PROVE  Cardinality(late) < MostRows
<1> DEFINE f == [x \in late |-> (x.at - s.at) \div Spacing]
<1>1. Spacing \in Nat \ {0} /\ MostRows \in Nat \ {0} /\ MostRows - 1 \in Nat
  BY Sizes
<1>2. \A d \in Nat : d >= Spacing /\ d < MostRows * Spacing => d \div Spacing \in 1 .. (MostRows - 1)
  <2> SUFFICES ASSUME NEW d \in Nat, d >= Spacing, d < MostRows * Spacing
               PROVE  d \div Spacing \in 1 .. (MostRows - 1)
    OBVIOUS
  <2> DEFINE q == d \div Spacing
  <2>1. q \in Int /\ q * Spacing <= d /\ d < (q + 1) * Spacing
    BY <1>1
  <2> HIDE DEF q
  <2>2. q >= 1
    BY <2>1, <1>1
  <2>3. q < MostRows
    <3> SUFFICES ASSUME q >= MostRows PROVE FALSE
      BY <2>1, <1>1
    <3>1. q * Spacing >= MostRows * Spacing
      BY <1>1, <2>1
    <3> QED
      BY <3>1, <2>1, <1>1
  <2>4. q \in 1 .. (MostRows - 1)
    BY <2>1, <2>2, <2>3, <1>1
  <2> QED
    BY <2>4 DEF q
<1>3. \A d, e \in Nat : e - d >= Spacing => d \div Spacing # e \div Spacing
  <2> SUFFICES ASSUME NEW d \in Nat, NEW e \in Nat, e - d >= Spacing, d \div Spacing = e \div Spacing
               PROVE  FALSE
    OBVIOUS
  <2> DEFINE q == d \div Spacing
             q2 == e \div Spacing
  <2>1. q \in Int /\ q * Spacing <= d /\ e < (q2 + 1) * Spacing
    BY <1>1
  <2>2. q = q2
    OBVIOUS
  <2> HIDE DEF q, q2
  <2>3. (q + 1) * Spacing = q * Spacing + Spacing
    BY <1>1, <2>1
  <2> DEFINE p == q * Spacing
  <2>4. p \in Int
    BY <1>1, <2>1
  <2>5. e < p + Spacing
    BY <2>1, <2>2, <2>3
  <2>6. p <= d
    BY <2>1
  <2> HIDE DEF p
  <2> QED
    BY <2>4, <2>5, <2>6, <1>1
<1>4. \A x \in late : x.at \in Nat /\ x.at - s.at \in Nat
  <2> SUFFICES ASSUME NEW x \in late PROVE x.at \in Nat /\ x.at - s.at \in Nat
    OBVIOUS
  <2>1. x.at \in Nat /\ s.at \in Nat
    BY DEF Reading
  <2>2. x.at - s.at >= Spacing
    OBVIOUS
  <2> QED
    BY <2>1, <2>2, <1>1
<1>5. f \in [late -> 1 .. (MostRows - 1)]
  BY <1>2, <1>4
<1>6. \A x, y \in late : x # y => f[x] # f[y]
  <2> SUFFICES ASSUME NEW x \in late, NEW y \in late, x # y PROVE f[x] # f[y]
    OBVIOUS
  <2>1. x.at - y.at >= Spacing \/ y.at - x.at >= Spacing
    OBVIOUS
  <2>2. s.at \in Nat
    BY DEF Reading
  <2>3. (x.at - s.at) - (y.at - s.at) >= Spacing \/ (y.at - s.at) - (x.at - s.at) >= Spacing
    BY <1>4, <2>1, <2>2
  <2> QED
    BY <1>3, <1>4, <2>3
<1>7. f \in Injection(late, 1 .. (MostRows - 1))
  BY <1>5, <1>6 DEF Injection, IsInjective
<1>8. IsFiniteSet(1 .. (MostRows - 1)) /\ Cardinality(1 .. (MostRows - 1)) = MostRows - 1
  BY <1>1, FS_Interval
<1>9. Cardinality(late) <= MostRows - 1 /\ IsFiniteSet(late)
  BY <1>7, <1>8, FS_Injection
<1> QED
  BY <1>1, <1>9, FS_CardinalityType

LEMMA NewestAmong == \A rows : Newest(rows) \subseteq rows
BY DEF Newest

(* A row that no row is later than is kept. *)
LEMMA LastIsKept ==
  ASSUME NEW rows, NEW s \in rows, \A other \in rows : ~ Later(other, s)
  PROVE  s \in Newest(rows)
<1>1. {other \in rows : Later(other, s)} = {}
  OBVIOUS
<1>2. Cardinality({}) < MostRows
  BY FS_EmptySet, Sizes
<1> QED
  BY <1>1, <1>2 DEF Newest

-----------------------------------------------------------------------------
(* The forecast                                                             *)

LEMMA RecentIs ==
  ASSUME NEW used \in Nat, NEW at \in Nat, NEW valid \in SUBSET Reading
  PROVE  Recent(used, at, valid) \in Rates \cup {Nothing}
<1> DEFINE first == CHOOSE s \in valid : \A other \in valid : s.at <= other.at
           span == at - first.at
<1>1. CASE Cardinality(valid) >= 3
  <2>1. valid # {}
    BY <1>1, FS_EmptySet
  <2>2. first \in Reading
    <3>1. \E s \in valid : \A other \in valid : s.at <= other.at
      BY <2>1, EarliestRow
    <3> QED
      BY <3>1
  <2>3. first.at \in Nat /\ first.used \in Nat
    BY <2>2, Sizes DEF Reading
  <2> HIDE DEF first
  <2>4. (Full - used) * span \in Int /\ used - first.used \in Int
    BY <2>3, Sizes
  <2>5. [left |-> (Full - used) * span, by |-> used - first.used] \in Rates
    BY <2>4 DEF Rates
  <2> QED
    BY <2>5 DEF Recent, first
<1>2. CASE ~ (Cardinality(valid) >= 3)
  BY <1>2 DEF Recent
<1> QED
  BY <1>1, <1>2

LEMMA ForecastIs ==
  ASSUME NEW used \in 0 .. Full, NEW reset \in Nat, NEW at \in Nat, NEW now \in Nat, NEW rows \in SUBSET Reading
  PROVE  /\ Forecast(used, reset, at, now, rows) \in Forecasts \cup {Nothing}
         /\ PaceRight(Forecast(used, reset, at, now, rows))
         /\ Forecast(used, reset, at, now, rows) # Nothing =>
              Forecast(used, reset, at, now, rows).recent
                = Recent(used, at, {s \in rows : Valid(s, used, reset, at)})
<1> DEFINE over == Cycle - (reset - at)
           ahead == used * Cycle - Full * over
           valid == {s \in rows : Valid(s, used, reset, at)}
           lasts == (Full - used) * over >= (Cycle - over) * used
           pace == IF 10 * ahead >= Full * Cycle THEN "ahead"
                   ELSE IF -10 * ahead >= Full * Cycle THEN "behind" ELSE "on track"
           f == [pace |-> pace, lasts |-> lasts, recent |-> Recent(used, at, valid),
                 used |-> used, reset |-> reset, at |-> at]
<1>1. Forecast(used, reset, at, now, rows)
        = IF used \notin 1 .. Full \/ now - at > Fresh \/ reset <= now \/ over < Early \/ over > Cycle THEN Nothing ELSE f
  BY DEF Forecast, Over
<1>2. used \in Nat /\ over \in Int /\ Full \in Nat \ {0} /\ Cycle \in Nat \ {0}
  BY Sizes
<1>3. lasts <=> used * Cycle <= Full * over
  <2>1. (Full - used) * over = Full * over - used * over
    BY <1>2
  <2>2. (Cycle - over) * used = used * Cycle - used * over
    BY <1>2
  <2>3. Full * over \in Int /\ used * over \in Int /\ used * Cycle \in Int
    BY <1>2
  <2> DEFINE fo == Full * over
             uo == used * over
             uc == used * Cycle
  <2>4. (fo - uo >= uc - uo) <=> uc <= fo
    <3>1. fo \in Int /\ uo \in Int /\ uc \in Int
      BY <2>3
    <3> HIDE DEF fo, uo, uc
    <3> QED
      BY <3>1
  <2> QED
    BY <2>1, <2>2, <2>4
<1>4. Full * Cycle \in Nat \ {0} /\ ahead \in Int
  BY <1>2
<1>5. /\ pace \in {"ahead", "behind", "on track"}
      /\ pace = "ahead" => ahead > 0
      /\ pace = "behind" => ahead < 0
  <2> DEFINE fc == Full * Cycle
  <2>1. fc \in Nat \ {0} /\ ahead \in Int
    BY <1>4
  <2> HIDE DEF fc, ahead
  <2>2. CASE 10 * ahead >= fc
    <3>1. ahead > 0
      BY <2>1, <2>2
    <3> QED
      BY <2>2, <3>1 DEF fc
  <2>3. CASE ~ (10 * ahead >= fc) /\ -10 * ahead >= fc
    <3>1. ahead < 0
      BY <2>1, <2>3
    <3> QED
      BY <2>3, <3>1 DEF fc
  <2>4. CASE ~ (10 * ahead >= fc) /\ ~ (-10 * ahead >= fc)
    BY <2>4 DEF fc
  <2> QED
    BY <2>2, <2>3, <2>4
<1>6. /\ ahead > 0 => ~ (used * Cycle <= Full * over)
      /\ ahead < 0 => used * Cycle <= Full * over
  <2> DEFINE fo == Full * over
             uc == used * Cycle
  <2>1. fo \in Int /\ uc \in Int
    BY <1>2
  <2>2. ahead = uc - fo
    OBVIOUS
  <2> HIDE DEF fo, uc, ahead
  <2>3. (ahead > 0 => ~ (uc <= fo)) /\ (ahead < 0 => uc <= fo)
    BY <2>1, <2>2
  <2> QED
    BY <2>3 DEF fo, uc
<1>7. PaceRight(f)
  <2>1. f.lasts = lasts /\ f.pace = pace /\ f.used = used /\ f.reset = reset /\ f.at = at
    BY Zenon
  <2> HIDE DEF f, lasts, pace, ahead
  <2> QED
    BY <2>1, <1>3, <1>5, <1>6 DEF PaceRight
<1>8. PaceRight(Nothing)
  BY DEF PaceRight
<1>9. ASSUME used \in 1 .. Full PROVE f \in Forecasts
  <2>1. valid \in SUBSET Reading
    OBVIOUS
  <2>2. Recent(used, at, valid) \in Rates \cup {Nothing}
    BY <1>2, <2>1, RecentIs
  <2>3. lasts \in BOOLEAN
    OBVIOUS
  <2> HIDE DEF valid, lasts, pace
  <2> QED
    BY <1>5, <1>9, <2>2, <2>3 DEF Forecasts
<1>10. f.recent = Recent(used, at, valid)
  BY Zenon
<1> HIDE DEF f, valid, over
<1> QED
  BY <1>1, <1>7, <1>8, <1>9, <1>10 DEF valid

-----------------------------------------------------------------------------
(* The sample that is kept                                                  *)

(* What a new row finds stored: nothing that is later, nor of a later cycle. *)
Before(rows, r) == \A s \in rows : s.at <= r.at /\ s.reset <= r.reset

(* Adding a row keeps rows in order and, if it is apart from the last, a    *)
(* spacing apart.                                                           *)
LEMMA RowAdded ==
  ASSUME NEW rows \in SUBSET Reading, NEW r \in Reading, Before(rows, r), InOrder(rows), Spaced(rows)
  PROVE  /\ InOrder(rows \cup {r})
         /\ (\A last \in rows : (\A s \in rows : ~ Later(s, last)) => last.reset # r.reset \/ Apart(r, last))
              => Spaced(rows \cup {r})
<1>1. \A s \in rows \cup {r} : s \in Reading /\ s.at \in Nat /\ s.reset \in Nat
  BY DEF Reading
<1>2. InOrder(rows \cup {r})
  BY <1>1, Sizes DEF InOrder, Before
<1>3. ASSUME \A last \in rows : (\A s \in rows : ~ Later(s, last)) => last.reset # r.reset \/ Apart(r, last)
      PROVE  Spaced(rows \cup {r})
  <2>1. ASSUME NEW s \in rows, s.reset = r.reset PROVE r.at - s.at >= Spacing
    <3>1. \A x \in rows : x.at <= r.at + r.reset /\ x.reset <= r.at + r.reset
      BY <1>1 DEF Before
    <3>2. r.at + r.reset \in Nat /\ rows # {}
      BY <1>1
    <3>3. PICK last \in rows : \A x \in rows : ~ Later(x, last)
      BY <3>1, <3>2, LatestRow
    <3>4. s.at <= last.at /\ (s.at = last.at => s.reset <= last.reset)
      BY <1>1, <3>3 DEF Later
    <3>5. s.reset <= last.reset
      BY <1>1, <3>4 DEF InOrder
    <3>6. last.reset = r.reset
      BY <1>1, <2>1, <3>5 DEF Before
    <3>7. r.at - last.at >= Spacing
      BY <1>3, <3>3, <3>6 DEF Apart
    <3> QED
      BY <1>1, <3>4, <3>7, Sizes
  <2>2. \A s \in rows : s.at <= r.at
    BY DEF Before
  <2> SUFFICES ASSUME NEW s \in rows \cup {r}, NEW other \in rows \cup {r}, s.reset = other.reset,
                      s.at <= other.at, s # other
               PROVE  other.at - s.at >= Spacing
    BY DEF Spaced
  <2>3. CASE s \in rows /\ other \in rows
    BY <2>3 DEF Spaced
  <2>4. CASE s \in rows /\ other = r
    BY <2>1, <2>4
  <2>5. CASE s = r /\ other \in rows
    <3>1. r.at - other.at >= Spacing
      BY <2>1, <2>5
    <3> QED
      BY <1>1, <2>5, <3>1, Sizes
  <2> QED
    BY <2>3, <2>4, <2>5
<1> QED
  BY <1>2, <1>3

LEMMA FewerRows ==
  ASSUME NEW rows, NEW few \in SUBSET rows
  PROVE  (InOrder(rows) => InOrder(few)) /\ (Spaced(rows) => Spaced(few))
BY DEF InOrder, Spaced

(* A sample of the cycle that runs is kept until it is as old as the cap on *)
(* the rows allows for, and one less than a spacing old always is.          *)
LEMMA RowsKept ==
  ASSUME NEW base \in SUBSET Reading, IsFiniteSet(base), NEW r \in Reading, NEW now \in Nat, r.at <= now,
         Before(base, r), InOrder(base), Spaced(base)
  PROVE  LET rows == KeptSamples(base, r, now) IN
         /\ rows \subseteq base \cup {r} /\ IsFiniteSet(rows)
         /\ InOrder(rows) /\ Spaced(rows)
         /\ \A s \in base :
              s.reset = r.reset /\ now - Stored < s.at /\ now - s.at < MostRows * Spacing => s \in rows
         /\ Covered(rows, r.reset, r.at)
<1> DEFINE stored == {s \in base : now - Stored < s.at /\ s.at <= now}
           add == \A last \in stored : (\A s \in stored : ~ Later(s, last)) => last.reset # r.reset \/ Apart(r, last)
           all == IF add THEN stored \cup {r} ELSE stored
           rows == Newest(all)
<1>1. rows = KeptSamples(base, r, now)
  BY DEF KeptSamples
<1>2. stored \subseteq base /\ stored \in SUBSET Reading /\ all \in SUBSET Reading /\ all \subseteq base \cup {r}
  OBVIOUS
<1>3. IsFiniteSet(base \cup {r})
  BY FS_AddElement
<1>4. rows \subseteq all
  BY NewestAmong
<1>5. IsFiniteSet(rows)
  BY <1>2, <1>3, <1>4, FS_Subset
<1>6. \A s \in base \cup {r} : s \in Reading /\ s.at \in Nat /\ s.reset \in Nat
  BY DEF Reading
<1>7. InOrder(stored) /\ Spaced(stored) /\ Before(stored, r)
  BY <1>2, FewerRows DEF Before
<1>8. InOrder(all) /\ Spaced(all)
  <2> DEFINE few == stored
  <2>1. few \in SUBSET Reading /\ InOrder(few) /\ Spaced(few) /\ Before(few, r)
    BY <1>2, <1>7
  <2> HIDE DEF few
  <2>2. /\ InOrder(few \cup {r})
        /\ (\A last \in few : (\A s \in few : ~ Later(s, last)) => last.reset # r.reset \/ Apart(r, last))
              => Spaced(few \cup {r})
    BY <2>1, RowAdded
  <2>3. /\ InOrder(stored \cup {r})
        /\ add => Spaced(stored \cup {r})
    BY <2>2 DEF few
  <2> HIDE DEF stored, add
  <2> QED
    BY <1>7, <2>3
<1>9. InOrder(rows) /\ Spaced(rows)
  <2> HIDE DEF all, rows
  <2> QED
    BY <1>4, <1>8, FewerRows
<1>10. \A s \in all : s.at <= r.at /\ s.reset <= r.reset
  BY <1>2, <1>6, <1>7 DEF Before
<1>11. ASSUME NEW s \in base, s.reset = r.reset, now - Stored < s.at, now - s.at < MostRows * Spacing
       PROVE  s \in rows
  <2>1. s.at <= r.at /\ s.at <= now
    BY <1>6 DEF Before
  <2>2. s \in all
    BY <1>11, <2>1
  <2> DEFINE late == {other \in all : Later(other, s)}
  <2>3. late \in SUBSET Reading /\ late \subseteq all /\ s \in Reading
    BY <1>2
  <2>4. ASSUME NEW x \in late
        PROVE  x.reset = r.reset /\ x.at > s.at /\ x.at <= r.at
    <3>1. x.at <= r.at /\ x.reset <= r.reset /\ x \in Reading
      BY <1>10, <2>3
    <3>2. x.at > s.at \/ (x.at = s.at /\ x.reset > s.reset)
      BY DEF Later
    <3>3. x.at \in Nat /\ x.reset \in Nat /\ s.at \in Nat /\ s.reset \in Nat /\ r.reset \in Nat
      BY <3>1, <1>6 DEF Reading
    <3>4. x.at > s.at
      BY <1>11, <3>1, <3>2, <3>3
    <3>5. s.reset <= x.reset
      BY <1>8, <2>2, <2>3, <3>4 DEF InOrder
    <3> QED
      BY <1>11, <3>1, <3>3, <3>4, <3>5
  <2>5. \A x \in late : x \in Reading /\ x \in all /\ x.at \in Nat
    BY <2>3 DEF Reading
  <2> HIDE DEF late, all, add, stored
  <2>6. ASSUME NEW x \in late, NEW y \in late, x # y
        PROVE  x.at - y.at >= Spacing \/ y.at - x.at >= Spacing
    <3>1. x.reset = y.reset /\ x \in all /\ y \in all /\ x.at \in Nat /\ y.at \in Nat
      BY <2>4, <2>5
    <3>2. x.at <= y.at \/ y.at <= x.at
      BY <3>1
    <3> QED
      BY <1>8, <2>6, <3>1, <3>2 DEF Spaced
  <2>7. ASSUME NEW x \in late PROVE x.at - s.at >= Spacing /\ x.at - s.at < MostRows * Spacing
    <3>1. x.reset = s.reset /\ x.at > s.at /\ x.at <= r.at /\ x \in all /\ x.at \in Nat /\ s.at \in Nat /\ r.at \in Nat
      BY <1>6, <1>11, <2>4, <2>5
    <3>2. x # s /\ s.at <= x.at
      BY <3>1
    <3>3. x.at - s.at >= Spacing
      BY <1>8, <2>2, <3>1, <3>2 DEF Spaced
    <3> DEFINE cap == MostRows * Spacing
    <3>4. cap \in Nat /\ now - s.at < cap
      BY <1>11, Sizes
    <3> HIDE DEF cap
    <3>5. x.at - s.at < cap
      BY <3>1, <3>4
    <3> QED
      BY <3>3, <3>5 DEF cap
  <2>8. Cardinality(late) < MostRows
    BY <2>3, <2>6, <2>7, FewLater
  <2> QED
    BY <2>2, <2>8 DEF Newest, late
<1>12. Covered(rows, r.reset, r.at)
  <2>1. r.at \in Nat /\ r.at <= r.at /\ r.at - Spacing < r.at
    BY <1>6, Sizes
  <2>2. CASE add
    <3>1. r \in all
      BY <2>2
    <3>2. \A other \in all : ~ Later(other, r)
      BY <1>2, <1>6, <1>10 DEF Later
    <3>3. r \in rows
      BY <3>1, <3>2, LastIsKept
    <3> QED
      BY <2>1, <3>3 DEF Covered
  <2>3. CASE ~ add
    <3>1. PICK last \in stored : (\A s \in stored : ~ Later(s, last)) /\ last.reset = r.reset /\ ~ Apart(r, last)
      BY <2>3
    <3>2. last \in rows
      BY <2>3, <3>1, LastIsKept
    <3>3. last.at <= r.at /\ r.at - Spacing < last.at
      BY <1>2, <1>6, <1>7, <3>1, Sizes DEF Apart, Before
    <3> QED
      BY <3>1, <3>2, <3>3 DEF Covered
  <2> QED
    BY <2>2, <2>3
<1> QED
  BY <1>1, <1>2, <1>4, <1>5, <1>9, <1>11, <1>12

LEMMA ThreeRows ==
  ASSUME NEW rows, IsFiniteSet(rows), NEW a \in rows, NEW b \in rows, NEW c \in rows, a # b, b # c, a # c
  PROVE  Cardinality(rows) >= 3
<1>1. IsFiniteSet({a}) /\ Cardinality({a}) = 1
  BY FS_Singleton
<1> DEFINE one == {a}
<1>2. IsFiniteSet(one) /\ Cardinality(one) = 1 /\ b \notin one
  BY <1>1
<1> HIDE DEF one
<1>3. IsFiniteSet(one \cup {b}) /\ Cardinality(one \cup {b}) = 2
  BY <1>2, FS_AddElement
<1>4. IsFiniteSet({a} \cup {b}) /\ Cardinality({a} \cup {b}) = 2
  BY <1>3 DEF one
<1> DEFINE two == {a} \cup {b}
<1>5. c \notin two
  OBVIOUS
<1>6. IsFiniteSet(two) /\ Cardinality(two) = 2
  BY <1>4
<1> HIDE DEF two
<1>7. IsFiniteSet(two \cup {c}) /\ Cardinality(two \cup {c}) = 3
  BY <1>5, <1>6, FS_AddElement
<1>8. (two \cup {c}) \in SUBSET rows
  BY DEF two
<1>9. Cardinality(two \cup {c}) <= Cardinality(rows)
  BY <1>8, FS_Subset
<1>10. Cardinality(rows) \in Nat
  BY FS_CardinalityType
<1> QED
  BY <1>7, <1>9, <1>10

(* Read steadily for more than two spacings while it was used, an account   *)
(* has three samples of the last hours, and the first of them had less      *)
(* used.                                                                    *)
LEMMA SteadyHasRate ==
  ASSUME NEW rows \in SUBSET Reading, IsFiniteSet(rows), NEW r \in Reading, NEW since \in Nat, NEW used \in Nat,
         \A s \in rows : s.at <= r.at /\ (s.reset = r.reset => s.used <= r.used),
         \A s \in rows : s.reset = r.reset /\ s.at <= since => s.used <= used,
         \A t \in since .. (r.at - 1) : Covered(rows, r.reset, t),
         r.at - since \in (2 * Spacing + 1) .. (Lately - Spacing), used < r.used
  PROVE  Recent(r.used, r.at, {s \in rows : Valid(s, r.used, r.reset, r.at)}) # Nothing
<1> DEFINE valid == {s \in rows : Valid(s, r.used, r.reset, r.at)}
           first == CHOOSE s \in valid : \A other \in valid : s.at <= other.at
<1>1. /\ \A s \in rows : s.at \in Nat /\ s.used \in Nat /\ s.reset \in Nat
      /\ r.at \in Nat /\ r.used \in Nat /\ r.reset \in Nat
  BY DEF Reading
<1>2. ASSUME NEW t \in since .. (r.at - 1)
      PROVE  \E s \in valid : t - Spacing < s.at /\ s.at <= t
  <2>1. PICK s \in rows : s.reset = r.reset /\ t - Spacing < s.at /\ s.at <= t
    BY DEF Covered
  <2>2. r.at - Lately <= s.at
    BY <1>1, <2>1, Sizes
  <2>3. s \in valid
    BY <1>1, <2>1, <2>2 DEF Valid
  <2> QED
    BY <2>1, <2>3
<1>3. /\ since \in since .. (r.at - 1) /\ since + Spacing \in since .. (r.at - 1)
      /\ since + 2 * Spacing \in since .. (r.at - 1)
  BY <1>1, Sizes
<1>4. PICK a \in valid : since - Spacing < a.at /\ a.at <= since
  BY <1>2, <1>3
<1>5. PICK b \in valid : since < b.at /\ b.at <= since + Spacing
  <2> DEFINE t == since + Spacing
  <2>1. t \in since .. (r.at - 1) /\ t - Spacing = since
    BY <1>3, Sizes
  <2> HIDE DEF t, valid
  <2>2. \E s \in valid : t - Spacing < s.at /\ s.at <= t
    BY <1>2, <2>1
  <2> QED
    BY <2>1, <2>2 DEF t
<1>6. PICK c \in valid : since + Spacing < c.at /\ c.at <= since + 2 * Spacing
  <2> DEFINE t == since + 2 * Spacing
  <2>1. t \in since .. (r.at - 1) /\ t - Spacing = since + Spacing
    BY <1>3, Sizes
  <2> HIDE DEF t, valid
  <2>2. \E s \in valid : t - Spacing < s.at /\ s.at <= t
    BY <1>2, <2>1
  <2> QED
    BY <2>1, <2>2 DEF t
<1>7. valid \in SUBSET rows /\ valid \in SUBSET Reading
  OBVIOUS
<1>8. IsFiniteSet(valid)
  BY <1>7, FS_Subset
<1>9. a.at < b.at /\ b.at < c.at /\ a.at \in Nat /\ b.at \in Nat /\ c.at \in Nat
  BY <1>1, <1>4, <1>5, <1>6, <1>7, Sizes
<1>10. a # b /\ b # c /\ a # c
  BY <1>9
<1>11. first \in valid /\ \A other \in valid : first.at <= other.at
  <2> HIDE DEF valid
  <2>1. valid # {}
    BY <1>4
  <2>2. \E s \in valid : \A other \in valid : s.at <= other.at
    BY <1>7, <2>1, EarliestRow
  <2> QED
    BY <2>2
<1>12. first.reset = r.reset /\ r.at - Lately <= first.at /\ first.at \in Nat /\ first.used \in Nat
  <2> HIDE DEF first
  <2> QED
    BY <1>11, <1>1 DEF Valid
<1>13. Cardinality(valid) >= 3
  <2> HIDE DEF valid
  <2> QED
    BY <1>8, <1>10, ThreeRows
<1>14. first.at <= since
  <2>1. first.at <= a.at
    BY <1>11
  <2> HIDE DEF first, valid
  <2> QED
    BY <1>4, <1>9, <1>12, <2>1
<1>15. first.used <= used
  <2>1. first \in rows
    BY <1>11
  <2> HIDE DEF first, valid
  <2> QED
    BY <1>12, <1>14, <2>1
<1>16. r.at - first.at \in Spacing .. Lately /\ r.used > first.used
  <2> HIDE DEF first, valid
  <2> QED
    BY <1>1, <1>12, <1>14, <1>15, Sizes
<1>17. Recent(r.used, r.at, valid)
         = [left |-> (Full - r.used) * (r.at - first.at), by |-> r.used - first.used]
  <2> HIDE DEF valid
  <2> QED
    BY <1>13, <1>16 DEF Recent, first
<1>18. \A x, y : [left |-> x, by |-> y] # Nothing
  BY DEF Nothing
<1> QED
  BY <1>17, <1>18

-----------------------------------------------------------------------------
(* Types *)

(* A wake that is at something runs. *)
LEMMA WakeRuns ==
  ASSUME wake \in Waking \cup {Asleep}
  PROVE  /\ wake.at \in {"begun", "read", "sampled", "noted", "published"} => wake \in Waking
         /\ wake # Asleep <=> wake \in Waking
<1>1. Asleep.at = "asleep"
  BY DEF Asleep
<1>2. wake \in Waking => wake.at \in {"begun", "read", "sampled", "noted", "published"}
  BY DEF Waking
<1>3. "asleep" \notin {"begun", "read", "sampled", "noted", "published"}
  OBVIOUS
<1> QED
  BY <1>1, <1>2, <1>3, Zenon

(* What a sample does to the wake, and to what is kept. *)
LEMMA SampleIs ==
  ASSUME InsightsTypes, Sample
  PROVE  /\ wake \in Waking /\ wake.at = "read" /\ wake' \in Waking /\ wake'.at = "sampled"
         /\ wake'.collector = [wake.collector EXCEPT !.completed = time]
         /\ wake'.active = wake.active /\ wake'.reading = wake.reading /\ wake'.changed = wake.changed
         /\ PaceRight(wake'.forecast)
<1>1. wake.at = "read" /\ wake \in Waking
  BY WakeRuns DEF Sample, InsightsTypes
<1> DEFINE r == wake.reading
<1>2. PICK seen \in {samples, {}}, base \in {samples, {}}, written \in BOOLEAN :
        LET forecast == IF r = Nothing THEN Nothing ELSE Forecast(r.used, r.reset, r.at, time, seen)
            good == seen = samples /\ base = samples /\ written
        IN /\ IF good THEN UNCHANGED mishaps ELSE Mishap
           /\ samples' = CASE ~ written -> samples
                          [] written /\ forecast = Nothing -> {s \in base : time - Stored < s.at}
                          [] OTHER -> KeptSamples(base, r, time)
           /\ account' = [account EXCEPT !.steady = IF good /\ forecast # Nothing THEN Since(@, r) ELSE Nothing]
           /\ wake' = [wake EXCEPT !.at = "sampled", !.collector.completed = time, !.forecast = forecast,
                        !.steady = /\ good /\ forecast # Nothing /\ account'.steady.used < r.used
                                   /\ r.at - account'.steady.since \in 2 * Spacing + 1 .. Lately - Spacing]
  BY DEF Sample
<1> DEFINE forecast == IF r = Nothing THEN Nothing ELSE Forecast(r.used, r.reset, r.at, time, seen)
           steady == /\ seen = samples /\ base = samples /\ written
                     /\ forecast # Nothing /\ account'.steady.used < r.used
                     /\ r.at - account'.steady.since \in 2 * Spacing + 1 .. Lately - Spacing
<1>3. forecast \in Forecasts \cup {Nothing} /\ PaceRight(forecast)
  <2>1. CASE r = Nothing
    BY <2>1 DEF PaceRight
  <2>2. CASE r # Nothing
    <3>1. r \in Reading
      BY <1>1, <2>2 DEF Waking
    <3>2. r.used \in 0 .. Full /\ r.reset \in Nat /\ r.at \in Nat /\ time \in Nat /\ seen \in SUBSET Reading
      BY <3>1 DEF Reading, InsightsTypes
    <3> HIDE DEF r
    <3> QED
      BY <2>2, <3>2, ForecastIs
  <2> QED
    BY <2>1, <2>2
<1>4. wake' = [wake EXCEPT !.at = "sampled", !.collector.completed = time, !.forecast = forecast, !.steady = steady]
  BY <1>2, Zenon
<1>5. steady \in BOOLEAN
  OBVIOUS
<1>6. time \in Int
  BY DEF InsightsTypes
<1> HIDE DEF forecast, steady
<1>7. wake.collector \in Evidences /\ [wake.collector EXCEPT !.completed = time] \in Evidences
  BY <1>1, <1>6 DEF Waking, Evidences
<1>8. wake' \in Waking
  BY <1>1, <1>3, <1>4, <1>5, <1>7 DEF Waking
<1>9. /\ wake'.at = "sampled" /\ wake'.collector = [wake.collector EXCEPT !.completed = time]
      /\ wake'.active = wake.active /\ wake'.reading = wake.reading /\ wake'.changed = wake.changed
      /\ wake'.forecast = forecast
  BY <1>1, <1>4 DEF Waking
<1> QED
  BY <1>1, <1>3, <1>8, <1>9

LEMMA SteadyIs ==
  ASSUME NEW steady \in Steadies \cup {Nothing}, NEW r \in Reading
  PROVE  Since(steady, r) \in Steadies
<1>1. r.at \in Nat /\ r.used \in 0 .. Full /\ r.reset \in Nat
  BY DEF Reading
<1>2. steady # Nothing => [steady EXCEPT !.last = r.at] \in Steadies
  BY <1>1 DEF Steadies
<1>3. [since |-> r.at, used |-> r.used, reset |-> r.reset, last |-> r.at] \in Steadies
  BY <1>1 DEF Steadies
<1> QED
  BY <1>2, <1>3 DEF Since

(* What a read does to the wake. *)
LEMMA ReadIs ==
  ASSUME InsightsTypes, Read
  PROVE  /\ wake.at = "begun" /\ wake \in Waking /\ wake' \in Waking /\ wake'.at = "read"
         /\ wake'.collector.started = wake.collector.started
         /\ wake'.forecast = wake.forecast /\ wake'.steady = wake.steady /\ wake'.changed = wake.changed
         /\ wake'.reading \in {wake.reading, [used |-> account.used, reset |-> account.reset, at |-> time]}
<1> DEFINE x == [used |-> account.used, reset |-> account.reset, at |-> time]
           old == wake.collector
<1>1. wake.at = "begun" /\ wake \in Waking
  BY WakeRuns DEF Read, InsightsTypes
<1>2. \/ \E active \in IF varies = "account" THEN 1 .. 2 ELSE {1} :
           wake' = [wake EXCEPT !.at = "read", !.active = active, !.collector = [old EXCEPT !.ok = TRUE, !.io = FALSE],
                                !.reading = x]
      \/ wake' = [wake EXCEPT !.at = "read"]
      \/ \E io \in BOOLEAN : wake' = [wake EXCEPT !.at = "read", !.collector = [old EXCEPT !.ok = FALSE, !.io = io]]
  BY Zenon DEF Read
<1>3. old \in Evidences
  BY <1>1 DEF Waking
<1>4. x \in Reading
  BY DEF Reading, InsightsTypes
<1>5. \A a \in IF varies = "account" THEN 1 .. 2 ELSE {1} : a \in Nat
  OBVIOUS
<1> HIDE DEF x
<1>6. CASE \E active \in IF varies = "account" THEN 1 .. 2 ELSE {1} :
           wake' = [wake EXCEPT !.at = "read", !.active = active, !.collector = [old EXCEPT !.ok = TRUE, !.io = FALSE],
                                !.reading = x]
  <2> DEFINE e == [old EXCEPT !.ok = TRUE, !.io = FALSE]
  <2>1. PICK active \in Nat : wake' = [wake EXCEPT !.at = "read", !.active = active, !.collector = e, !.reading = x]
    BY <1>5, <1>6, Zenon
  <2>2. e \in Evidences /\ e.started = old.started
    BY <1>3 DEF Evidences
  <2> HIDE DEF e
  <2>3. wake' \in Waking
    BY <1>1, <1>4, <2>1, <2>2 DEF Waking
  <2>4. /\ wake'.at = "read" /\ wake'.collector = e /\ wake'.forecast = wake.forecast
        /\ wake'.steady = wake.steady /\ wake'.changed = wake.changed /\ wake'.reading = x
    BY <1>1, <2>1 DEF Waking
  <2> QED
    BY <1>1, <2>2, <2>3, <2>4 DEF x
<1>7. CASE wake' = [wake EXCEPT !.at = "read"]
  BY <1>1, <1>7 DEF Waking
<1>8. CASE \E io \in BOOLEAN : wake' = [wake EXCEPT !.at = "read", !.collector = [old EXCEPT !.ok = FALSE, !.io = io]]
  <2>1. PICK io \in BOOLEAN : wake' = [wake EXCEPT !.at = "read", !.collector = [old EXCEPT !.ok = FALSE, !.io = io]]
    BY <1>8
  <2> DEFINE e == [old EXCEPT !.ok = FALSE, !.io = io]
  <2>2. e \in Evidences /\ e.started = old.started
    BY <1>3 DEF Evidences
  <2>3. wake' = [wake EXCEPT !.at = "read", !.collector = e]
    BY <2>1, Zenon
  <2> HIDE DEF e
  <2>4. wake' \in Waking
    BY <1>1, <2>2, <2>3 DEF Waking
  <2>5. /\ wake'.at = "read" /\ wake'.collector = e /\ wake'.forecast = wake.forecast
        /\ wake'.steady = wake.steady /\ wake'.changed = wake.changed /\ wake'.reading = wake.reading
    BY <1>1, <2>3 DEF Waking
  <2> QED
    BY <1>1, <2>2, <2>4, <2>5
<1> QED
  BY <1>2, <1>6, <1>7, <1>8

LEMMA WakeTyped == ASSUME InsightsTypes, InsightsNext PROVE (wake \in Waking \cup {Asleep})'
<1> USE DEF InsightsTypes
<1>1. time \in Nat /\ status.active \in Nat
  OBVIOUS
<1>2. CASE Begin
  <2>1. collector' \in Evidences
    BY <1>1, <1>2 DEF Begin, Evidences
  <2>2. wake' = [at |-> "begun", collector |-> collector', active |-> status.active, reading |-> Nothing,
                 forecast |-> Nothing, steady |-> FALSE, changed |-> FALSE]
    BY <1>2 DEF Begin
  <2> QED
    BY <1>1, <2>1, <2>2 DEF Waking
<1>3. CASE Read
  BY <1>3, ReadIs
<1>4. CASE Sample
  BY <1>4, SampleIs
<1>5. CASE Note
  <2>1. wake \in Waking
    BY <1>5, WakeRuns DEF Note
  <2> QED
    BY <1>5, <2>1 DEF Note, Waking
<1>6. CASE Publish
  <2>1. wake \in Waking
    BY <1>6, WakeRuns DEF Publish
  <2> QED
    BY <1>6, <2>1 DEF Publish, Waking
<1>7. CASE Trail \/ WakeDies
  BY <1>7 DEF Trail, WakeDies
<1>8. CASE Surprise \/ TimePasses
  BY <1>8 DEF Surprise, TimePasses
<1> QED
  BY <1>2, <1>3, <1>4, <1>5, <1>6, <1>7, <1>8 DEF InsightsNext

LEMMA NotedIs ==
  ASSUME NEW events \in Seq(Events), NEW event \in Events, Len(events) <= MostEvents
  PROVE  /\ Noted(events, event) \in Seq(Events) /\ Len(Noted(events, event)) <= MostEvents
         /\ Len(Noted(events, event)) > 0
         /\ Noted(events, event)[Len(Noted(events, event))] = event
         /\ Len(events) < MostEvents =>
              /\ Len(Noted(events, event)) = Len(events) + 1
              /\ \A i \in 1 .. Len(events) : Noted(events, event)[i] = events[i]
         /\ Len(events) = MostEvents =>
              /\ Len(Noted(events, event)) = MostEvents
              /\ \A i \in 1 .. (MostEvents - 1) : Noted(events, event)[i] = events[i + 1]
<1>1. MostEvents \in Nat \ {0} /\ Len(events) \in Nat
  BY Sizes
<1>2. CASE Len(events) < MostEvents
  BY <1>1, <1>2 DEF Noted
<1>3. CASE Len(events) = MostEvents
  <2> DEFINE kept == SubSeq(events, 2, MostEvents)
  <2>1. kept \in Seq(Events) /\ Len(kept) = MostEvents - 1 /\ \A i \in 1 .. (MostEvents - 1) : kept[i] = events[i + 1]
    BY <1>1, <1>3
  <2>2. Noted(events, event) = kept \o <<event>>
    <3>1. Len(events) - MostEvents + 2 = 2 /\ ~ (Len(events) < MostEvents)
      BY <1>1, <1>3
    <3> QED
      BY <1>3, <3>1, Zenon DEF Noted
  <2> HIDE DEF kept
  <2> QED
    BY <1>1, <1>3, <2>1, <2>2
<1> QED
  BY <1>1, <1>2, <1>3

(* What a sample leaves of the rows. *)
LEMMA SampledRows ==
  ASSUME InsightsTypes, UseInv, InOrder(samples), Spaced(samples), Sample
  PROVE  /\ samples' \in SUBSET Reading /\ IsFiniteSet(samples')
         /\ InOrder(samples') /\ Spaced(samples')
         /\ \A s \in samples' : s \in samples \/ (wake.reading # Nothing /\ s = wake.reading)
<1> DEFINE r == wake.reading
<1>1. wake.at = "read" /\ wake \in Waking /\ wake # Asleep
  BY WakeRuns DEF Sample, InsightsTypes
<1>2. PICK seen \in {samples, {}}, base \in {samples, {}}, written \in BOOLEAN :
        LET forecast == IF r = Nothing THEN Nothing ELSE Forecast(r.used, r.reset, r.at, time, seen)
            good == seen = samples /\ base = samples /\ written
        IN /\ IF good THEN UNCHANGED mishaps ELSE Mishap
           /\ samples' = CASE ~ written -> samples
                          [] written /\ forecast = Nothing -> {s \in base : time - Stored < s.at}
                          [] OTHER -> KeptSamples(base, r, time)
           /\ account' = [account EXCEPT !.steady = IF good /\ forecast # Nothing THEN Since(@, r) ELSE Nothing]
           /\ wake' = [wake EXCEPT !.at = "sampled", !.collector.completed = time, !.forecast = forecast,
                        !.steady = /\ good /\ forecast # Nothing /\ account'.steady.used < r.used
                                   /\ r.at - account'.steady.since \in 2 * Spacing + 1 .. Lately - Spacing]
  BY DEF Sample
<1> DEFINE forecast == IF r = Nothing THEN Nothing ELSE Forecast(r.used, r.reset, r.at, time, seen)
<1>3. samples' = CASE ~ written -> samples
                   [] written /\ forecast = Nothing -> {s \in base : time - Stored < s.at}
                   [] OTHER -> KeptSamples(base, r, time)
  BY <1>2
<1>4. base \in SUBSET Reading /\ IsFiniteSet(base) /\ base \subseteq samples /\ InOrder(base) /\ Spaced(base)
  BY FS_EmptySet, FewerRows DEF InsightsTypes
<1>5. CASE ~ written
  BY <1>3, <1>5 DEF InsightsTypes
<1>6. CASE written /\ forecast = Nothing
  <2> DEFINE rows == {s \in base : time - Stored < s.at}
  <2>1. samples' = rows
    BY <1>3, <1>6
  <2>2. rows \in SUBSET base
    OBVIOUS
  <2> HIDE DEF rows
  <2>3. IsFiniteSet(rows) /\ InOrder(rows) /\ Spaced(rows)
    BY <1>4, <2>2, FS_Subset, FewerRows
  <2> QED
    BY <1>4, <2>1, <2>2, <2>3
<1>7. CASE written /\ forecast # Nothing
  <2>1. samples' = KeptSamples(base, r, time)
    BY <1>3, <1>7
  <2>2. r # Nothing
    BY <1>7
  <2>3. r \in Reading /\ r.at <= time /\ time \in Nat
    BY <1>1, <2>2 DEF UseInv, HasRead, InsightsTypes, Waking
  <2>4. Before(base, r)
    BY <1>1, <1>4, <2>2 DEF UseInv, HasRead, Until, Before
  <2> HIDE DEF r, forecast
  <2>5. LET rows == KeptSamples(base, r, time) IN
          /\ rows \subseteq base \cup {r} /\ IsFiniteSet(rows) /\ InOrder(rows) /\ Spaced(rows)
    BY <1>4, <2>3, <2>4, RowsKept, Zenon
  <2>6. /\ samples' \subseteq base \cup {r} /\ IsFiniteSet(samples') /\ InOrder(samples') /\ Spaced(samples')
    BY <2>1, <2>5
  <2>7. \A s \in samples' : s \in samples \/ s = r
    BY <1>4, <2>6
  <2>8. samples' \in SUBSET Reading
    BY <1>4, <2>3, <2>6
  <2> QED
    BY <2>2, <2>6, <2>7, <2>8 DEF r
<1> QED
  BY <1>5, <1>6, <1>7

LEMMA TypesKept ==
  ASSUME InsightsTypes, HealthInv, ChangeInv, UseInv, InOrder(samples), Spaced(samples), InsightsNext
  PROVE  InsightsTypes'
<1> USE DEF InsightsTypes
<1>1. (wake \in Waking \cup {Asleep})'
  BY WakeTyped
<1>2. time \in Nat /\ begun \in Int /\ begun <= time
  OBVIOUS
<1>3. CASE Begin
  <2>1. collector' \in Evidences
    BY <1>2, <1>3 DEF Begin, Evidences
  <2> QED
    BY <1>1, <1>2, <1>3, <2>1 DEF Begin
<1>4. CASE Read
  BY <1>1, <1>4 DEF Read, files
<1>5. CASE Sample
  <2>1. account' \in [used : 0 .. Full, reset : Nat, steady : Steadies \cup {Nothing}]
    <3> DEFINE r == wake.reading
    <3>1. PICK g, forecast :
            /\ account' = [account EXCEPT !.steady = IF g /\ forecast # Nothing THEN Since(@, r) ELSE Nothing]
            /\ r = Nothing => forecast = Nothing
      BY <1>5 DEF Sample
    <3>2. r # Nothing => r \in Reading
      BY <1>5, WakeRuns DEF Sample, Waking
    <3>3. account.steady \in Steadies \cup {Nothing}
      OBVIOUS
    <3> DEFINE steady == IF g /\ forecast # Nothing THEN Since(account.steady, r) ELSE Nothing
    <3>4. steady \in Steadies \cup {Nothing}
      BY <3>1, <3>2, <3>3, SteadyIs
    <3>5. account' = [account EXCEPT !.steady = steady]
      BY <3>1
    <3> HIDE DEF steady
    <3> QED
      BY <3>4, <3>5
  <2>2. samples' \in SUBSET Reading /\ IsFiniteSet(samples')
    BY <1>5, SampledRows
  <2>3. UNCHANGED <<time, collector, status, activity, begun, done>>
    BY <1>5 DEF Sample
  <2> QED
    BY <1>1, <2>1, <2>2, <2>3
<1>6. CASE Note
  <2>1. UNCHANGED <<time, account, collector, status, samples, begun, done>>
    BY <1>6 DEF Note
  <2>2. activity' \in Seq(Events)
    <3>1. wake.active \in Nat
      BY <1>6, WakeRuns DEF Note, Waking
    <3>2. [slot |-> wake.active, at |-> time] \in Events
      BY <3>1 DEF Events
    <3>3. Noted(activity, [slot |-> wake.active, at |-> time]) \in Seq(Events)
      BY <3>2, NotedIs DEF ChangeInv
    <3> QED
      BY <1>6, <3>3 DEF Note
  <2> QED
    BY <1>1, <2>1, <2>2
<1>7. CASE Publish
  <2>1. wake \in Waking
    BY <1>7, WakeRuns DEF Publish
  <2>2. wake.collector \in Evidences
    BY <2>1 DEF Waking
  <2>3. done' \in [at : Int, ok : BOOLEAN, io : BOOLEAN]
    BY <1>7, <2>2 DEF Publish, Evidences
  <2>4. status' \in [collector : Evidences, active : Nat, forecast : Forecasts \cup {Nothing}, steady : BOOLEAN,
                     changed : BOOLEAN]
    BY <1>7, <2>1 DEF Publish, Waking
  <2> QED
    BY <1>1, <1>7, <2>3, <2>4 DEF Publish
<1>8. CASE Trail
  <2>1. wake \in Waking
    BY <1>8, WakeRuns DEF Trail
  <2>2. collector' \in Evidences
    BY <1>8, <2>1 DEF Trail, Waking
  <2> QED
    BY <1>1, <1>8, <2>2 DEF Trail
<1>9. CASE WakeDies
  BY <1>1, <1>9 DEF WakeDies, files
<1> DEFINE Accounted == [used : 0 .. Full, reset : Nat, steady : Steadies \cup {Nothing}]
<1>a. account \in Accounted /\ 0 \in 0 .. Full
  BY Sizes
<1>b. \A used \in 0 .. Full, reset \in Nat : [account EXCEPT !.used = used, !.reset = reset] \in Accounted
  BY <1>a
<1>10. CASE Surprise
  <2>1. time + Cycle \in Nat
    BY <1>2, Sizes
  <2>2. account' = [account EXCEPT !.used = 0, !.reset = time + Cycle]
    BY <1>10 DEF Surprise
  <2>3. account' \in Accounted
    BY <1>a, <1>b, <2>1, <2>2
  <2> QED
    BY <1>1, <1>10, <2>3 DEF Surprise, files
<1>11. CASE TimePasses
  <2>1. account' \in [used : 0 .. Full, reset : Nat, steady : Steadies \cup {Nothing}]
    <3>1. time' = time + 1 /\ time' + Cycle \in Nat
      <4>1. time' = time + 1
        BY <1>11, Zenon DEF TimePasses
      <4> QED
        BY <1>2, <4>1, Sizes
    <3>2. CASE account.reset = time'
      <4>1. account' = [account EXCEPT !.used = 0, !.reset = time' + Cycle]
        BY <1>11, <3>2 DEF TimePasses
      <4> QED
        BY <1>a, <1>b, <3>1, <4>1
    <3>3. CASE account.reset # time'
      <4>1. PICK more \in IF varies = "use" /\ account.used < Full THEN {0, 1} ELSE {0} :
              account' = [account EXCEPT !.used = @ + more]
        BY <1>11, <3>3 DEF TimePasses
      <4>2. account.used + more \in 0 .. Full
        BY <1>a, Sizes
      <4>3. account' = [account EXCEPT !.used = account.used + more]
        BY <4>1
      <4> QED
        BY <4>2, <4>3
    <3> QED
      BY <3>2, <3>3
  <2> QED
    BY <1>1, <1>11, <2>1 DEF TimePasses, files
<1> QED
  BY <1>3, <1>4, <1>5, <1>6, <1>7, <1>8, <1>9, <1>10, <1>11 DEF InsightsNext

-----------------------------------------------------------------------------
(* The evidence of the collector *)

LEMMA EndedIs ==
  ASSUME NEW e \in Evidences
  PROVE  /\ Ended(e).at = e.completed /\ Ended(e).ok = e.ok /\ Ended(e).io = e.io
         /\ e.started \in Int /\ e.completed \in Int
BY DEF Ended, Evidences

LEMMA HealthKept == ASSUME InsightsTypes, HealthInv, InsightsNext PROVE HealthInv'
<1>1. /\ time \in Nat /\ begun \in Int /\ begun <= time /\ collector \in Evidences
      /\ status.collector \in Evidences /\ done \in [at : Int, ok : BOOLEAN, io : BOOLEAN] /\ done.at \in Int
      /\ collector.started \in Int /\ collector.completed \in Int
      /\ wake \in Waking \cup {Asleep}
  BY DEF InsightsTypes, Evidences
<1>2. wake \in Waking => wake.collector \in Evidences /\ wake.collector.started \in Int /\ wake.collector.completed \in Int
  BY DEF Waking, Evidences
<1>3. Never \in Int /\ Never = -1
  BY DEF Never
<1>4. CASE Begin
  <2>1. /\ collector' = [collector EXCEPT !.started = time] /\ begun' = time
        /\ UNCHANGED <<time, status, done>>
        /\ wake' = [at |-> "begun", collector |-> collector', active |-> status.active, reading |-> Nothing,
                    forecast |-> Nothing, steady |-> FALSE, changed |-> FALSE]
        /\ time > done.at
    BY <1>4 DEF Begin
  <2>2. /\ collector'.started = time /\ collector'.completed = collector.completed
        /\ Ended(collector') = Ended(collector)
    BY <1>1, <2>1 DEF Ended, Evidences
  <2>3. wake'.at = "begun" /\ wake'.collector = collector'
    BY <2>1
  <2>4. begun' # Never
    BY <1>1, <1>3, <2>1
  <2>5. wake'.at = "begun" => wake'.at # "published" /\ wake'.at \notin {"sampled", "noted"}
    OBVIOUS
  <2>6. (wake # Asleep =>
           /\ wake.collector.started = begun /\ 0 <= begun
           /\ wake.at # "published" => begun > done.at
           /\ wake.at \in {"sampled", "noted"} => begun <= wake.collector.completed /\ wake.collector.completed <= time
           /\ wake.at = "published" => Ended(wake.collector) = done /\ begun <= done.at)'
    <3>1. wake'.collector.started = begun' /\ 0 <= begun' /\ begun' > done'.at
      <4>1. begun' = time /\ done' = done /\ 0 <= time /\ time > done.at
        BY <1>1, <2>1
      <4>2. wake'.collector.started = begun'
        BY <2>2, <2>3, <4>1
      <4> QED
        BY <4>1, <4>2
    <3> QED
      BY <2>3, <2>5, <3>1, Zenon
  <2>7. collector'.completed < done'.at \/ Ended(collector') = done'
    <3>1. collector.completed < done.at \/ Ended(collector) = done
      BY DEF HealthInv
    <3>2. done' = done
      BY <2>1
    <3> QED
      BY <2>2, <3>1, <3>2, Zenon
  <2> QED
    BY <1>1, <1>3, <2>1, <2>2, <2>4, <2>6, <2>7 DEF HealthInv
<1>5. CASE Read
  <2>1. wake.at = "begun" /\ wake \in Waking /\ wake # Asleep
    BY <1>1, <1>5, ReadIs, WakeRuns
  <2>2. UNCHANGED <<time, collector, status, begun, done>>
    BY <1>5 DEF Read, files
  <2>3. wake'.at = "read" /\ wake'.collector.started = wake.collector.started
    BY <1>5, ReadIs
  <2> QED
    BY <1>1, <2>1, <2>2, <2>3 DEF HealthInv
<1>6. CASE Sample
  <2>1. /\ wake.at = "read" /\ wake \in Waking /\ wake'.at = "sampled" /\ wake # Asleep
        /\ wake'.collector = [wake.collector EXCEPT !.completed = time]
    BY <1>6, SampleIs, WakeRuns DEF InsightsTypes
  <2>2. UNCHANGED <<time, collector, status, begun, done>>
    BY <1>6 DEF Sample
  <2>3. wake'.collector.started = wake.collector.started /\ wake'.collector.completed = time
    BY <1>2, <2>1 DEF Evidences
  <2> QED
    BY <1>1, <2>1, <2>2, <2>3 DEF HealthInv
<1>7. CASE Note
  <2>1. wake.at = "sampled" /\ wake \in Waking /\ wake # Asleep
    BY <1>1, <1>7, WakeRuns DEF Note
  <2>2. UNCHANGED <<time, collector, status, begun, done>>
    BY <1>7 DEF Note
  <2>3. wake'.at = "noted" /\ wake'.collector = wake.collector
    BY <1>7, <2>1 DEF Note, Waking
  <2> QED
    BY <1>1, <2>1, <2>2, <2>3 DEF HealthInv
<1>8. CASE Publish
  <2>1. wake.at = "noted" /\ wake \in Waking /\ wake # Asleep
    BY <1>1, <1>8, WakeRuns DEF Publish
  <2>2. UNCHANGED <<time, collector, begun>>
    BY <1>8 DEF Publish
  <2>3. wake'.at = "published" /\ wake'.collector = wake.collector /\ status'.collector = wake.collector
        /\ done' = Ended(wake.collector)
    BY <1>8, <2>1 DEF Publish, Waking, Ended
  <2>4. done'.at = wake.collector.completed
    BY <1>2, <2>1, <2>3, EndedIs
  <2>5. collector.completed < begun
    <3>1. collector.completed < done.at \/ collector.completed = done.at
      BY <1>1, EndedIs DEF HealthInv
    <3>2. done.at < begun
      BY <2>1 DEF HealthInv
    <3> QED
      BY <1>1, <3>1, <3>2
  <2> QED
    BY <1>1, <1>2, <1>3, <2>1, <2>2, <2>3, <2>4, <2>5 DEF HealthInv
<1>9. CASE Trail
  <2>1. wake.at = "published" /\ wake \in Waking /\ wake # Asleep
    BY <1>1, <1>9, WakeRuns DEF Trail
  <2>2. UNCHANGED <<time, status, begun, done>> /\ collector' = wake.collector /\ wake' = Asleep
    BY <1>9 DEF Trail
  <2>3. begun # Never
    BY <1>1, <1>3, <2>1 DEF HealthInv
  <2> QED
    BY <1>1, <2>1, <2>2, <2>3 DEF HealthInv
<1>10. CASE WakeDies
  BY <1>1, <1>10 DEF WakeDies, files, HealthInv
<1>11. CASE Surprise
  BY <1>1, <1>11 DEF Surprise, files, HealthInv
<1>12. CASE TimePasses
  <2>1. time' = time + 1 /\ UNCHANGED <<wake, collector, status, begun, done>>
    BY <1>12 DEF TimePasses, files
  <2> QED
    BY <1>1, <1>2, <2>1 DEF HealthInv
<1> QED
  BY <1>4, <1>5, <1>6, <1>7, <1>8, <1>9, <1>10, <1>11, <1>12 DEF InsightsNext

(* What a reader makes of the file and of the snapshot is what became of    *)
(* the collections.                                                         *)
LEMMA HealthToldTruly == ASSUME InsightsTypes, HealthInv PROVE HealthTrue
<1>1. /\ time \in Nat /\ begun \in Int /\ begun <= time /\ collector \in Evidences
      /\ status.collector \in Evidences /\ done \in [at : Int, ok : BOOLEAN, io : BOOLEAN] /\ done.at \in Int
      /\ collector.started \in Int /\ collector.completed \in Int
      /\ status.collector.started \in Int /\ status.collector.completed \in Int
      /\ Stall \in Nat /\ Overdue \in Nat
  BY Sizes DEF InsightsTypes, Evidences
<1>2. Never = -1
  BY DEF Never
<1>3. done.at = status.collector.completed /\ done.ok = status.collector.ok /\ done.io = status.collector.io
  BY <1>1, EndedIs DEF HealthInv
<1>4. Unmarked.started = -1 /\ Unmarked.completed = -1
  BY <1>2 DEF Unmarked
<1>5. CASE begun = Never
  <2>1. collector = Unmarked /\ status.collector = Unmarked
    BY <1>5 DEF HealthInv
  <2> QED
    BY <1>5, <2>1 DEF HealthTrue, Truth, Health, Evidence
<1>6. CASE begun # Never /\ begun > done.at
  <2>1. collector.started = begun /\ begun >= 0
    BY <1>1, <1>2, <1>6 DEF HealthInv
  <2>2. collector # Unmarked
    BY <1>1, <1>4, <2>1
  <2>3. Evidence = collector
    <3>1. FileNewer(status.collector, collector)
      BY <1>1, <1>3, <1>6, <2>1 DEF FileNewer
    <3> QED
      BY <2>2, <3>1 DEF Evidence
  <2>4. collector.completed < collector.started
    <3>1. collector.completed <= done.at
      BY <1>1, EndedIs DEF HealthInv
    <3> QED
      BY <1>1, <1>6, <2>1, <3>1
  <2>5. ~ (collector.started > time) /\ collector.started <= time
    BY <1>1, <2>1
  <2>6. Health(collector, time) = IF time - collector.started > Stall THEN "stalled" ELSE "collecting"
    BY <2>2, <2>4, <2>5 DEF Health
  <2>7. Truth = IF time - begun > Stall THEN "stalled" ELSE "collecting"
    BY <1>6 DEF Truth
  <2> QED
    BY <2>1, <2>3, <2>6, <2>7 DEF HealthTrue
<1>7. CASE begun # Never /\ ~ (begun > done.at)
  <2> DEFINE told == IF time - done.at > Overdue THEN "overdue"
                     ELSE IF done.io THEN "not written" ELSE IF ~ done.ok THEN "incomplete" ELSE "completed"
  <2>1. begun >= 0 /\ begun <= done.at /\ done.at # Never /\ done.at <= time
    BY <1>1, <1>2, <1>7 DEF HealthInv
  <2>2. ASSUME NEW e \in Evidences, e # Unmarked, e.started <= e.completed, e.completed = done.at, e.ok = done.ok, e.io = done.io
        PROVE  Health(e, time) = told
    <3>1. e.started \in Int /\ e.completed \in Int
      BY <2>2, EndedIs
    <3>2. ~ (e.started > time) /\ ~ (e.completed < e.started)
      BY <1>1, <2>1, <2>2, <3>1
    <3> QED
      BY <2>2, <3>2 DEF Health
  <2>3. Truth = told
    BY <1>7 DEF Truth
  <2>4. Health(Evidence, time) = told
    <3>1. CASE collector.completed < done.at
      <4>1. ~ FileNewer(status.collector, collector)
        BY <1>1, <1>2, <1>3, <1>7, <2>1, <3>1 DEF FileNewer, HealthInv
      <4>2. Evidence = status.collector
        BY <4>1 DEF Evidence
      <4>3. status.collector.started <= status.collector.completed /\ status.collector # Unmarked
        BY <1>1, <1>2, <1>3, <1>4, <2>1 DEF HealthInv
      <4> HIDE DEF told
      <4> QED
        BY <1>1, <1>3, <2>2, <4>2, <4>3
    <3>2. CASE Ended(collector) = done
      <4>1. collector.completed = done.at /\ collector.ok = done.ok /\ collector.io = done.io
        BY <1>1, <3>2, EndedIs
      <4>2. FileNewer(status.collector, collector)
        BY <1>1, <1>3, <4>1 DEF FileNewer
      <4>3. collector # Unmarked /\ collector.started <= collector.completed
        BY <1>1, <1>4, <2>1, <4>1 DEF HealthInv
      <4>4. Evidence = collector
        BY <4>2, <4>3 DEF Evidence
      <4> HIDE DEF told
      <4> QED
        BY <1>1, <2>2, <4>1, <4>3, <4>4
    <3> QED
      BY <3>1, <3>2 DEF HealthInv
  <2> QED
    BY <2>3, <2>4 DEF HealthTrue
<1> QED
  BY <1>5, <1>6, <1>7

-----------------------------------------------------------------------------
(* Changes of account *)

(* An event that is later than the snapshot hides no change it shows. *)
LEMMA NotedAfter ==
  ASSUME NEW events \in Seq(Events), Len(events) <= MostEvents, NEW event \in Events, NEW shown,
         shown.collector.completed \in Int, event.at > shown.collector.completed,
         NEW n \in 0 .. Len(events), RecordedAt(events, shown, n)
  PROVE  \E m \in 0 .. Len(Noted(events, event)) : RecordedAt(Noted(events, event), shown, m)
<1> DEFINE new == Noted(events, event)
<1>1. /\ new \in Seq(Events) /\ Len(new) <= MostEvents /\ Len(new) > 0 /\ new[Len(new)] = event
      /\ Len(events) < MostEvents =>
           /\ Len(new) = Len(events) + 1 /\ \A i \in 1 .. Len(events) : new[i] = events[i]
      /\ Len(events) = MostEvents =>
           /\ Len(new) = MostEvents /\ \A i \in 1 .. (MostEvents - 1) : new[i] = events[i + 1]
  BY NotedIs
<1> HIDE DEF new
<1>2. DOMAIN new = 1 .. Len(new) /\ Len(new) \in Nat /\ Len(events) \in Nat /\ DOMAIN events = 1 .. Len(events)
      /\ MostEvents \in Nat \ {0}
  BY <1>1, Sizes
<1>3. CASE Len(events) < MostEvents
  <2>1. n > 0 /\ n \in 1 .. Len(events) /\ n \in 0 .. Len(new) /\ new[n] = events[n]
    <3>1. Len(new) = Len(events) + 1 /\ \A i \in 1 .. Len(events) : new[i] = events[i]
      BY <1>1, <1>3
    <3>2. n # 0
      <4>1. n = 0 => Len(events) = MostEvents
        BY Zenon DEF RecordedAt
      <4> DEFINE k == Len(events)
      <4>2. k \in Nat /\ k < MostEvents /\ MostEvents \in Nat
        BY <1>2, <1>3
      <4> HIDE DEF k
      <4>3. k # MostEvents
        BY <4>2
      <4> QED
        BY <4>1, <4>3, Zenon DEF k
    <3>3. n > 0 /\ n \in 1 .. Len(events) /\ n \in 0 .. Len(new)
      BY <1>2, <3>1, <3>2
    <3> QED
      BY <3>1, <3>3
  <2>2. ASSUME NEW i \in 1 .. Len(new), i > n PROVE new[i].at > shown.collector.completed
    <3>1. CASE i = Len(new)
      BY <1>1, <3>1
    <3>2. CASE i # Len(new)
      <4>a. Len(new) = Len(events) + 1 /\ \A j \in 1 .. Len(events) : new[j] = events[j]
        BY <1>1, <1>3
      <4>b. i \in 1 .. Len(events)
        BY <1>2, <3>2, <4>a
      <4>1. i \in 1 .. Len(events) /\ new[i] = events[i]
        BY <4>a, <4>b
      <4>2. events[i].at > shown.collector.completed
        BY <1>2, <2>2, <4>1 DEF RecordedAt
      <4> QED
        BY <4>1, <4>2
    <3> QED
      BY <3>1, <3>2
  <2>3. RecordedAt(new, shown, n)
    <3>1. \A i \in DOMAIN new : i > n => new[i].at > shown.collector.completed
      BY <1>2, <2>2
    <3>2. new[n].slot = shown.active /\ new[n].at >= shown.collector.started
      BY <2>1 DEF RecordedAt
    <3>3. n # 0
      BY <2>1
    <3> QED
      BY <3>1, <3>2, <3>3 DEF RecordedAt
  <2> QED
    BY <2>1, <2>3 DEF new
<1>4. CASE Len(events) = MostEvents
  <2> DEFINE m == IF n = 0 THEN 0 ELSE n - 1
  <2>1. m \in 0 .. Len(new) /\ m \in Nat /\ n <= m + 1 /\ m < MostEvents
    BY <1>1, <1>2, <1>4
  <2>2. ASSUME NEW i \in 1 .. Len(new), i > m PROVE new[i].at > shown.collector.completed
    <3>1. CASE i = Len(new)
      BY <1>1, <3>1
    <3>2. CASE i # Len(new)
      <4>1. i \in 1 .. (MostEvents - 1) /\ i + 1 \in 1 .. Len(events) /\ i + 1 > n
        BY <1>1, <1>2, <1>4, <2>1, <2>2, <3>2
      <4>2. new[i] = events[i + 1]
        BY <1>1, <1>4, <4>1
      <4>3. events[i + 1].at > shown.collector.completed
        BY <1>2, <4>1 DEF RecordedAt
      <4> QED
        BY <4>2, <4>3
    <3> QED
      BY <3>1, <3>2
  <2>3. ASSUME m > 0 PROVE new[m].slot = shown.active /\ new[m].at >= shown.collector.started
    <3>1. m = n - 1 /\ n > 0 /\ m \in 1 .. (MostEvents - 1) /\ m + 1 = n
      BY <1>2, <1>4, <2>3
    <3> HIDE DEF m
    <3>2. new[m] = events[n]
      BY <1>1, <1>4, <3>1
    <3> QED
      BY <3>1, <3>2 DEF RecordedAt
  <2> HIDE DEF m
  <2>4. RecordedAt(new, shown, m)
    BY <1>1, <1>2, <1>4, <2>2, <2>3 DEF RecordedAt
  <2> QED
    BY <2>1, <2>4 DEF new
<1>5. Len(events) < MostEvents \/ Len(events) = MostEvents
  <2> DEFINE k == Len(events)
  <2>1. k \in Nat /\ k <= MostEvents /\ MostEvents \in Nat
    BY <1>2
  <2> HIDE DEF k
  <2>2. k < MostEvents \/ k = MostEvents
    BY <2>1
  <2> QED
    BY <2>2 DEF k
<1> QED
  BY <1>3, <1>4, <1>5

LEMMA ChangeKept == ASSUME InsightsTypes, HealthInv, ChangeInv, InsightsNext PROVE ChangeInv'
<1>1. /\ time \in Nat /\ begun \in Int /\ begun <= time /\ done.at \in Int /\ activity \in Seq(Events)
      /\ status.collector \in Evidences /\ status.collector.completed \in Int /\ status.collector.started \in Int
      /\ wake \in Waking \cup {Asleep} /\ Len(activity) \in Nat /\ Len(activity) <= MostEvents
      /\ MostEvents \in Nat \ {0}
  BY Sizes DEF InsightsTypes, Evidences, ChangeInv
<1>2. \A i \in DOMAIN activity : activity[i] \in Events /\ activity[i].at \in Nat /\ activity[i].at <= time
  <2>1. \A i \in DOMAIN activity : activity[i] \in Events
    BY <1>1
  <2>2. \A e \in Events : e.at \in Nat
    BY DEF Events
  <2> QED
    BY <2>1, <2>2 DEF ChangeInv
<1>3. ASSUME UNCHANGED <<activity, status>>, time' \in Nat, time' >= time
      PROVE  /\ Len(activity') <= MostEvents /\ \A i \in DOMAIN activity' : activity'[i].at <= time'
             /\ status'.changed => \E n \in 0 .. Len(activity') : RecordedAt(activity', status', n)
  <2>1. \A i \in DOMAIN activity' : activity'[i].at <= time'
    BY <1>1, <1>2, <1>3
  <2>2. status'.changed => \E n \in 0 .. Len(activity') : RecordedAt(activity', status', n)
    BY <1>3 DEF ChangeInv, RecordedAt
  <2> QED
    BY <1>1, <1>3, <2>1, <2>2
<1> DEFINE Carried(w) ==
      /\ w.at \in {"begun", "read", "sampled"} => ~ w.changed
      /\ w.at = "noted" /\ w.changed =>
            /\ Len(activity) > 0 /\ activity[Len(activity)].slot = w.active
            /\ activity[Len(activity)].at >= w.collector.started
<1>4. wake # Asleep => Carried(wake)
  BY DEF ChangeInv
<1>5. ASSUME UNCHANGED <<activity, status>>, time' \in Nat, time' >= time, wake' # Asleep => Carried(wake')
      PROVE  ChangeInv'
  BY <1>3, <1>5 DEF ChangeInv
<1> HIDE DEF Carried
<1>6. CASE Begin
  <2>1. UNCHANGED <<activity, status, time>>
    BY <1>6 DEF Begin
  <2>2. wake'.at = "begun" /\ wake'.changed = FALSE
    BY <1>6 DEF Begin
  <2>3. Carried(wake')
    BY <2>2 DEF Carried
  <2> QED
    BY <1>1, <1>5, <2>1, <2>3
<1>7. CASE Read
  <2>1. UNCHANGED <<activity, status, time>>
    BY <1>7 DEF Read, files
  <2>2. wake.at = "begun" /\ wake # Asleep /\ wake'.at = "read" /\ wake'.changed = wake.changed
    BY <1>1, <1>7, ReadIs, WakeRuns
  <2>3. Carried(wake')
    BY <1>4, <2>2 DEF Carried
  <2> QED
    BY <1>1, <1>5, <2>1, <2>3
<1>8. CASE Sample
  <2>1. UNCHANGED <<activity, status, time>>
    BY <1>8 DEF Sample
  <2>2. wake.at = "read" /\ wake # Asleep /\ wake'.at = "sampled" /\ wake'.changed = wake.changed
    BY <1>1, <1>8, SampleIs, WakeRuns
  <2>3. Carried(wake')
    BY <1>4, <2>2 DEF Carried
  <2> QED
    BY <1>1, <1>5, <2>1, <2>3
<1>9. CASE Note
  <2>1. wake.at = "sampled" /\ wake \in Waking /\ wake # Asleep /\ ~ wake.changed
    BY <1>1, <1>4, <1>9, WakeRuns DEF Note, Carried
  <2>2. UNCHANGED <<status, time, begun, done>>
    BY <1>9 DEF Note
  <2>3. CASE wake' = [wake EXCEPT !.at = "noted"] /\ UNCHANGED activity
    <3>1. wake'.at = "noted" /\ ~ wake'.changed
      BY <2>1, <2>3 DEF Waking
    <3>2. Carried(wake')
      BY <3>1 DEF Carried
    <3> QED
      BY <1>1, <1>5, <2>2, <2>3, <3>2
  <2>4. CASE /\ wake' = [wake EXCEPT !.at = "noted", !.changed = TRUE]
             /\ activity' = Noted(activity, [slot |-> wake.active, at |-> time])
    <3> DEFINE event == [slot |-> wake.active, at |-> time]
               new == Noted(activity, event)
    <3>1. event \in Events /\ event.slot = wake.active /\ event.at = time
      BY <1>1, <2>1 DEF Waking, Events
    <3>2. /\ wake'.at = "noted" /\ wake'.active = wake.active /\ wake'.collector = wake.collector
          /\ wake # Asleep
      BY <2>1, <2>4 DEF Waking
    <3>3. activity' = new
      BY <2>4
    <3> HIDE DEF event
    <3>4. /\ new \in Seq(Events) /\ Len(new) <= MostEvents /\ Len(new) > 0 /\ new[Len(new)] = event
          /\ Len(activity) < MostEvents =>
               /\ Len(new) = Len(activity) + 1 /\ \A i \in 1 .. Len(activity) : new[i] = activity[i]
          /\ Len(activity) = MostEvents =>
               /\ Len(new) = MostEvents /\ \A i \in 1 .. (MostEvents - 1) : new[i] = activity[i + 1]
      BY <1>1, <3>1, NotedIs
    <3> HIDE DEF new
    <3>5. begun <= time /\ wake.collector.started = begun /\ begun > done.at /\ done.at = status.collector.completed
      BY <1>1, <2>1, EndedIs DEF HealthInv
    <3>6. event.at > status.collector.completed
      BY <1>1, <3>1, <3>5
    <3>7. \A i \in DOMAIN new : new[i].at <= time
      <4>1. DOMAIN new = 1 .. Len(new) /\ DOMAIN activity = 1 .. Len(activity) /\ Len(new) \in Nat
        BY <1>1, <3>4
      <4>a. new[Len(new)].at <= time
        BY <1>1, <3>1, <3>4
      <4> SUFFICES ASSUME NEW i \in 1 .. Len(new), i # Len(new) PROVE new[i].at <= time
        BY <4>1, <4>a
      <4>2. CASE Len(activity) < MostEvents
        <5>a. Len(new) = Len(activity) + 1 /\ \A j \in 1 .. Len(activity) : new[j] = activity[j]
          BY <3>4, <4>2
        <5>b. i \in 1 .. Len(activity)
          BY <1>1, <4>1, <5>a
        <5>1. i \in 1 .. Len(activity) /\ new[i] = activity[i]
          BY <5>a, <5>b
        <5> QED
          BY <1>2, <4>1, <5>1
      <4>3. CASE Len(activity) = MostEvents
        <5>1. i \in 1 .. (MostEvents - 1) /\ i + 1 \in 1 .. Len(activity)
          BY <1>1, <3>4, <4>1, <4>3
        <5>2. new[i] = activity[i + 1]
          BY <3>4, <4>3, <5>1
        <5> QED
          BY <1>2, <4>1, <5>1, <5>2
      <4> QED
        BY <1>1, <4>2, <4>3
    <3>8. status.changed => \E n \in 0 .. Len(new) : RecordedAt(new, status, n)
      <4> SUFFICES ASSUME status.changed PROVE \E n \in 0 .. Len(new) : RecordedAt(new, status, n)
        OBVIOUS
      <4>1. PICK n \in 0 .. Len(activity) : RecordedAt(activity, status, n)
        BY DEF ChangeInv
      <4> DEFINE shown == status
      <4>2. RecordedAt(activity, shown, n) /\ shown.collector.completed \in Int /\ event.at > shown.collector.completed
        BY <1>1, <3>6, <4>1
      <4> HIDE DEF shown
      <4>3. \E m \in 0 .. Len(Noted(activity, event)) : RecordedAt(Noted(activity, event), shown, m)
        BY <1>1, <3>1, <4>2, NotedAfter
      <4> QED
        BY <4>3 DEF shown, new
    <3>9. activity' = new /\ status' = status /\ time' = time
      BY <2>2, <3>3
    <3>10. Len(new) > 0 /\ new[Len(new)].slot = wake.active /\ new[Len(new)].at >= wake.collector.started
      BY <1>1, <3>1, <3>4, <3>5
    <3>11. (wake # Asleep =>
              /\ wake.at \in {"begun", "read", "sampled"} => ~ wake.changed
              /\ wake.at = "noted" /\ wake.changed =>
                    /\ Len(activity) > 0 /\ activity[Len(activity)].slot = wake.active
                    /\ activity[Len(activity)].at >= wake.collector.started)'
      <4>1. wake'.at \notin {"begun", "read", "sampled"}
        BY <3>2
      <4>2. Len(activity') > 0 /\ activity'[Len(activity')].slot = wake'.active
            /\ activity'[Len(activity')].at >= wake'.collector.started
        BY <3>2, <3>9, <3>10
      <4> QED
        BY <4>1, <4>2, Zenon
    <3>12. /\ Len(activity') <= MostEvents /\ \A i \in DOMAIN activity' : activity'[i].at <= time'
           /\ status'.changed => \E n \in 0 .. Len(activity') : RecordedAt(activity', status', n)
      BY <3>4, <3>7, <3>8, <3>9
    <3> QED
      BY <3>11, <3>12 DEF ChangeInv
  <2> QED
    BY <1>9, <2>3, <2>4 DEF Note
<1>10. CASE Publish
  <2>1. wake.at = "noted" /\ wake \in Waking /\ wake # Asleep
    BY <1>1, <1>10, WakeRuns DEF Publish
  <2>2. UNCHANGED <<activity, time>>
    BY <1>10 DEF Publish
  <2>3. /\ status'.changed = wake.changed /\ status'.active = wake.active /\ status'.collector = wake.collector
        /\ wake'.at = "published"
    BY <1>10, <2>1 DEF Publish, Waking
  <2>4. wake.changed => RecordedAt(activity', status', Len(activity'))
    <3> SUFFICES ASSUME wake.changed PROVE RecordedAt(activity', status', Len(activity'))
      OBVIOUS
    <3>1. Len(activity) > 0 /\ activity[Len(activity)].slot = wake.active
          /\ activity[Len(activity)].at >= wake.collector.started
      BY <1>4, <2>1 DEF Carried
    <3>2. DOMAIN activity = 1 .. Len(activity)
      BY <1>1
    <3> QED
      <4>1. activity' = activity /\ Len(activity) # 0
        BY <1>1, <2>2, <3>1
      <4>2. \A i \in DOMAIN activity' : ~ (i > Len(activity'))
        BY <1>1, <3>2, <4>1
      <4> QED
        BY <2>3, <3>1, <4>1, <4>2 DEF RecordedAt
  <2>5. status'.changed => \E n \in 0 .. Len(activity') : RecordedAt(activity', status', n)
    BY <1>1, <2>2, <2>3, <2>4
  <2>6. wake'.at \notin {"begun", "read", "sampled"} /\ wake'.at # "noted"
    BY <2>3
  <2>7. Len(activity') <= MostEvents /\ \A i \in DOMAIN activity' : activity'[i].at <= time'
    BY <1>1, <1>2, <2>2
  <2> QED
    BY <2>5, <2>6, <2>7, Zenon DEF ChangeInv
<1>11. CASE Trail
  BY <1>1, <1>5, <1>11 DEF Trail
<1>12. CASE WakeDies
  BY <1>1, <1>5, <1>12 DEF WakeDies, files
<1>13. CASE Surprise
  BY <1>1, <1>4, <1>5, <1>13 DEF Surprise, files
<1>14. CASE TimePasses
  <2>1. time' = time + 1 /\ UNCHANGED <<activity, status, wake>>
    BY <1>14 DEF TimePasses, files
  <2> QED
    BY <1>1, <1>4, <1>5, <2>1
<1> QED
  BY <1>6, <1>7, <1>8, <1>9, <1>10, <1>11, <1>12, <1>13, <1>14 DEF InsightsNext

LEMMA ChangesToldTruly == ASSUME InsightsTypes, ChangeInv PROVE ChangesNoted
<1> SUFFICES ASSUME status.changed
             PROVE  \/ \E i \in DOMAIN activity :
                          activity[i].slot = status.active /\ activity[i].at >= status.collector.started
                    \/ /\ Len(activity) = MostEvents
                       /\ \A i \in DOMAIN activity : activity[i].at > status.collector.completed
  BY DEF ChangesNoted
<1>1. PICK n \in 0 .. Len(activity) : RecordedAt(activity, status, n)
  BY DEF ChangeInv
<1>2. activity \in Seq(Events)
  BY DEF InsightsTypes
<1>3. DOMAIN activity = 1 .. Len(activity) /\ Len(activity) \in Nat
  BY <1>2
<1>4. CASE n = 0
  BY <1>1, <1>3, <1>4 DEF RecordedAt
<1>5. CASE n > 0
  BY <1>1, <1>3, <1>5 DEF RecordedAt
<1> QED
  BY <1>3, <1>4, <1>5

-----------------------------------------------------------------------------
(* The pace, and how much an account is used *)

(* A wake that calls an account steadily read and used has a recent rate. *)
LEMMA SteadySample ==
  ASSUME InsightsInv, Sample, wake'.steady
  PROVE  wake'.forecast.recent # Nothing
<1> DEFINE r == wake.reading
           st == account.steady
<1>1. wake.at = "read" /\ wake \in Waking /\ wake # Asleep
  BY WakeRuns DEF Sample, InsightsInv, InsightsTypes
<1>2. PICK seen \in {samples, {}}, base \in {samples, {}}, written \in BOOLEAN :
        LET forecast == IF r = Nothing THEN Nothing ELSE Forecast(r.used, r.reset, r.at, time, seen)
            good == seen = samples /\ base = samples /\ written
        IN /\ IF good THEN UNCHANGED mishaps ELSE Mishap
           /\ samples' = CASE ~ written -> samples
                          [] written /\ forecast = Nothing -> {s \in base : time - Stored < s.at}
                          [] OTHER -> KeptSamples(base, r, time)
           /\ account' = [account EXCEPT !.steady = IF good /\ forecast # Nothing THEN Since(@, r) ELSE Nothing]
           /\ wake' = [wake EXCEPT !.at = "sampled", !.collector.completed = time, !.forecast = forecast,
                        !.steady = /\ good /\ forecast # Nothing /\ account'.steady.used < r.used
                                   /\ r.at - account'.steady.since \in 2 * Spacing + 1 .. Lately - Spacing]
  BY DEF Sample, InsightsInv
<1> DEFINE forecast == IF r = Nothing THEN Nothing ELSE Forecast(r.used, r.reset, r.at, time, seen)
           steady == /\ seen = samples /\ base = samples /\ written
                     /\ forecast # Nothing /\ account'.steady.used < r.used
                     /\ r.at - account'.steady.since \in 2 * Spacing + 1 .. Lately - Spacing
<1>3. wake' = [wake EXCEPT !.at = "sampled", !.collector.completed = time, !.forecast = forecast, !.steady = steady]
  BY <1>2, Zenon
<1>4. wake'.forecast = forecast /\ (wake'.steady = steady)
  <2> HIDE DEF forecast, steady
  <2> QED
    BY <1>1, <1>3 DEF Waking
<1>5. /\ seen = samples /\ forecast # Nothing /\ r # Nothing /\ account'.steady.used < r.used
      /\ r.at - account'.steady.since \in 2 * Spacing + 1 .. Lately - Spacing
  <2>1. steady
    BY <1>4
  <2> QED
    BY <2>1, Zenon
<1>6. account'.steady = Since(st, r)
  <2> DEFINE new == IF (seen = samples /\ base = samples /\ written) /\ forecast # Nothing THEN Since(st, r) ELSE Nothing
  <2>1. account' = [account EXCEPT !.steady = new]
    BY <1>2, Zenon
  <2>2. steady
    BY <1>4
  <2>3. new = Since(st, r)
    BY <2>2, Zenon
  <2>4. account'.steady = new
    <3> HIDE DEF new
    <3> QED
      BY <2>1 DEF InsightsInv, InsightsTypes
  <2> QED
    BY <2>3, <2>4
<1>7. r \in Reading /\ HasRead
  BY <1>1, <1>5 DEF Waking, HasRead
<1>8. r.at \in Nat /\ r.used \in 0 .. Full /\ r.used \in Nat /\ r.reset \in Nat /\ time \in Nat /\ r.at <= time
  BY <1>7, Sizes DEF Reading, UseInv, InsightsInv, InsightsTypes
<1>9. st # Nothing /\ st.last = r.at - 1 /\ st.reset = r.reset /\ account'.steady = [st EXCEPT !.last = r.at]
  <2> SUFFICES ASSUME ~ (st # Nothing /\ st.last = r.at - 1 /\ st.reset = r.reset) PROVE FALSE
    BY <1>6 DEF Since
  <2>1. account'.steady = [since |-> r.at, used |-> r.used, reset |-> r.reset, last |-> r.at]
    BY <1>6 DEF Since
  <2>2. account'.steady.since = r.at
    BY <2>1
  <2> QED
    BY <1>5, <1>8, <2>2, Sizes
<1>10. st \in Steadies
  BY <1>9 DEF InsightsInv, InsightsTypes
<1>11. /\ st.since \in Nat /\ st.used \in Nat /\ account'.steady.since = st.since /\ account'.steady.used = st.used
  BY <1>9, <1>10 DEF Steadies
<1>12. r.at - st.since \in (2 * Spacing + 1) .. (Lately - Spacing) /\ st.used < r.used
  BY <1>5, <1>11
<1>13. \A s \in samples : s.at <= r.at /\ (s.reset = r.reset => s.used <= r.used)
  BY <1>7 DEF InsightsInv, UseInv, Until
<1>14. \A s \in samples : s.reset = r.reset /\ s.at <= st.since => s.used <= st.used
  BY <1>9 DEF InsightsInv, SteadyInv
<1>15. \A t \in st.since .. (r.at - 1) : Covered(samples, r.reset, t)
  <2>1. Horizon = r.at
    BY <1>7 DEF Horizon
  <2>2. Horizon - st.since <= Lately - Spacing
    BY <1>8, <1>11, <1>12, <2>1, Sizes
  <2> QED
    BY <1>9, <2>2 DEF InsightsInv, SteadyInv
<1> DEFINE since == st.since
           used == st.used
<1>16. samples \in SUBSET Reading /\ IsFiniteSet(samples) /\ since \in Nat /\ used \in Nat
  BY <1>11 DEF InsightsInv, InsightsTypes
<1>17. /\ \A s \in samples : s.reset = r.reset /\ s.at <= since => s.used <= used
       /\ \A t \in since .. (r.at - 1) : Covered(samples, r.reset, t)
       /\ r.at - since \in (2 * Spacing + 1) .. (Lately - Spacing) /\ used < r.used
  BY <1>12, <1>14, <1>15
<1>18. forecast = Forecast(r.used, r.reset, r.at, time, samples)
  BY <1>5, Zenon
<1> HIDE DEF since, used, r, forecast
<1>19. Recent(r.used, r.at, {s \in samples : Valid(s, r.used, r.reset, r.at)}) # Nothing
  <2> DEFINE rows == samples
  <2>1. /\ rows \in SUBSET Reading /\ IsFiniteSet(rows)
        /\ \A s \in rows : s.at <= r.at /\ (s.reset = r.reset => s.used <= r.used)
        /\ \A s \in rows : s.reset = r.reset /\ s.at <= since => s.used <= used
        /\ \A t \in since .. (r.at - 1) : Covered(rows, r.reset, t)
    BY <1>13, <1>16, <1>17
  <2> HIDE DEF rows
  <2>2. Recent(r.used, r.at, {s \in rows : Valid(s, r.used, r.reset, r.at)}) # Nothing
    BY <1>7, <1>16, <1>17, <2>1, SteadyHasRate
  <2> QED
    BY <2>2 DEF rows
<1>20. forecast.recent = Recent(r.used, r.at, {s \in samples : Valid(s, r.used, r.reset, r.at)})
  <2> DEFINE x == r.used
             y == r.reset
             z == r.at
             rows == samples
  <2>1. x \in 0 .. Full /\ y \in Nat /\ z \in Nat /\ time \in Nat /\ rows \in SUBSET Reading
    BY <1>8, <1>16
  <2>2. forecast = Forecast(x, y, z, time, rows) /\ forecast # Nothing
    BY <1>5, <1>18
  <2> HIDE DEF x, y, z, rows
  <2>3. forecast.recent = Recent(x, z, {s \in rows : Valid(s, x, y, z)})
    BY <2>1, <2>2, ForecastIs
  <2> QED
    BY <2>3 DEF x, y, z, rows
<1> QED
  BY <1>4, <1>19, <1>20

LEMMA PaceKept == ASSUME InsightsInv, InsightsNext PROVE PaceInv'
<1>1. wake \in Waking \cup {Asleep}
  BY DEF InsightsInv, InsightsTypes
<1>2. PaceInv
  BY DEF InsightsInv
<1>3. CASE Begin
  <2>1. wake'.forecast = Nothing /\ ~ wake'.steady /\ status' = status
    BY <1>3 DEF Begin
  <2> QED
    BY <1>2, <2>1 DEF PaceInv, PaceRight
<1>4. CASE Read
  <2>1. wake # Asleep /\ wake'.forecast = wake.forecast /\ wake'.steady = wake.steady
    BY <1>1, <1>4, ReadIs, WakeRuns DEF InsightsInv
  <2>2. status' = status
    BY <1>4 DEF Read, files
  <2> QED
    BY <1>2, <2>1, <2>2 DEF PaceInv, PaceRight
<1>5. CASE Sample
  <2>1. PaceRight(wake'.forecast)
    BY <1>5, SampleIs DEF InsightsInv
  <2>2. wake'.steady => wake'.forecast.recent # Nothing
    BY <1>5, SteadySample
  <2>3. status' = status
    BY <1>5 DEF Sample
  <2> QED
    BY <1>2, <2>1, <2>2, <2>3 DEF PaceInv, PaceRight
<1>6. CASE Note
  <2>1. wake \in Waking /\ wake # Asleep
    BY <1>1, <1>6, WakeRuns DEF Note
  <2>2. wake'.forecast = wake.forecast /\ wake'.steady = wake.steady
    BY <1>6, <2>1 DEF Note, Waking
  <2>3. status' = status
    BY <1>6 DEF Note
  <2> QED
    BY <1>2, <2>1, <2>2, <2>3 DEF PaceInv, PaceRight
<1>7. CASE Publish
  <2>1. wake \in Waking /\ wake # Asleep
    BY <1>1, <1>7, WakeRuns DEF Publish
  <2>2. /\ wake'.forecast = wake.forecast /\ wake'.steady = wake.steady
        /\ status'.forecast = wake.forecast /\ status'.steady = wake.steady
    BY <1>7, <2>1 DEF Publish, Waking
  <2> QED
    BY <1>2, <2>1, <2>2 DEF PaceInv, PaceRight
<1>8. CASE Trail
  <2>1. wake' = Asleep /\ status' = status
    BY <1>8 DEF Trail
  <2> QED
    BY <1>2, <2>1 DEF PaceInv, PaceRight
<1>9. CASE WakeDies
  <2>1. wake' = Asleep /\ status' = status
    BY <1>9 DEF WakeDies, files
  <2> QED
    BY <1>2, <2>1 DEF PaceInv, PaceRight
<1>10. CASE Surprise \/ TimePasses
  <2>1. wake' = wake /\ status' = status
    BY <1>10 DEF Surprise, TimePasses, files
  <2> QED
    BY <1>2, <2>1 DEF PaceInv, PaceRight
<1> QED
  BY <1>3, <1>4, <1>5, <1>6, <1>7, <1>8, <1>9, <1>10 DEF InsightsNext

LEMMA UseKept == ASSUME InsightsInv, InsightsNext PROVE UseInv'
<1>1. /\ wake \in Waking \cup {Asleep} /\ time \in Nat /\ Cycle \in Nat \ {0}
      /\ account.used \in 0 .. Full /\ account.reset \in Nat /\ samples \in SUBSET Reading
      /\ InsightsTypes /\ UseInv
  BY Sizes DEF InsightsInv, InsightsTypes
<1>2. \A s \in Reading : s.at \in Nat /\ s.reset \in Nat /\ s.used \in 0 .. Full
  BY DEF Reading
<1>3. wake \in Waking => wake.reading \in Reading \cup {Nothing}
  BY DEF Waking
<1> DEFINE Rising(a, t) == a.reset > t /\ a.reset <= t + Cycle /\ (a.reset = t + Cycle => a.used = 0)
           Passed(rows, a, t) == \A s \in rows : s.at <= t /\ Until(s, a.reset, a.used)
           Read1(w, rows, a, t) ==
             w # Asleep /\ w.at = "read" /\ w.reading # Nothing =>
               /\ w.reading.at <= t /\ Until(w.reading, a.reset, a.used)
               /\ \A s \in rows : s.at <= w.reading.at /\ Until(s, w.reading.reset, w.reading.used)
           Begun(w) == w # Asleep /\ w.at = "begun" => w.reading = Nothing
<1>4. Rising(account, time) /\ Passed(samples, account, time) /\ Read1(wake, samples, account, time) /\ Begun(wake)
  BY <1>1 DEF UseInv, HasRead
<1>5. ASSUME Rising(account', time'), Passed(samples', account', time'), Read1(wake', samples', account', time'), Begun(wake')
      PROVE  UseInv'
  BY <1>5, Zenon DEF UseInv, HasRead
<1>6. ASSUME wake'.at \notin {"begun", "read"} PROVE Read1(wake', samples', account', time') /\ Begun(wake')
  BY <1>6
<1>7. Asleep.at \notin {"begun", "read"}
  BY DEF Asleep
<1>8. CASE Begin
  <2>1. UNCHANGED <<time, account, samples>> /\ wake'.at = "begun" /\ wake'.reading = Nothing
    BY <1>8 DEF Begin
  <2>2. Read1(wake', samples', account', time') /\ Begun(wake')
    BY <2>1
  <2>3. Rising(account', time') /\ Passed(samples', account', time')
    BY <1>4, <2>1
  <2> HIDE DEF Rising, Passed, Read1, Begun
  <2> QED
    BY <1>5, <2>2, <2>3
<1>9. CASE Read
  <2>1. /\ wake.at = "begun" /\ wake # Asleep /\ wake'.at = "read"
        /\ wake'.reading \in {wake.reading, [used |-> account.used, reset |-> account.reset, at |-> time]}
    BY <1>1, <1>9, ReadIs, WakeRuns
  <2>2. UNCHANGED <<time, account, samples>>
    BY <1>9 DEF Read, files
  <2>3. wake.reading = Nothing
    BY <1>4, <2>1
  <2>4. ASSUME wake'.reading # Nothing
        PROVE  /\ wake'.reading.at = time /\ wake'.reading.reset = account.reset /\ wake'.reading.used = account.used
    BY <2>1, <2>3, <2>4
  <2>5. Read1(wake', samples', account', time')
    <3> SUFFICES ASSUME wake'.reading # Nothing
                 PROVE  /\ wake'.reading.at <= time /\ Until(wake'.reading, account.reset, account.used)
                        /\ \A s \in samples : s.at <= wake'.reading.at /\ Until(s, wake'.reading.reset, wake'.reading.used)
      BY <2>2
    <3>1. Until(wake'.reading, account.reset, account.used)
      BY <1>1, <2>4 DEF Until
    <3>2. \A s \in samples : s.at <= time /\ Until(s, account.reset, account.used)
      BY <1>4
    <3> QED
      BY <1>1, <2>4, <3>1, <3>2
  <2>6. Begun(wake')
    BY <2>1
  <2>7. Rising(account', time') /\ Passed(samples', account', time')
    BY <1>4, <2>2
  <2> HIDE DEF Rising, Passed, Read1, Begun
  <2> QED
    BY <1>5, <2>5, <2>6, <2>7
<1>10. CASE Sample
  <2>1. wake.at = "read" /\ wake # Asleep /\ wake'.at = "sampled"
    BY <1>1, <1>10, SampleIs, WakeRuns
  <2>2. \A s \in samples' : s \in samples \/ (wake.reading # Nothing /\ s = wake.reading)
    BY <1>10, SampledRows DEF InsightsInv
  <2>3. time' = time
    BY <1>10 DEF Sample
  <2>4. account'.reset = account.reset /\ account'.used = account.used
    <3>1. PICK x : account' = [account EXCEPT !.steady = x]
      BY <1>10 DEF Sample
    <3> QED
      BY <1>1, <3>1 DEF InsightsTypes
  <2>5. Passed(samples', account', time')
    BY <1>4, <2>1, <2>2, <2>3, <2>4
  <2>6. Rising(account', time')
    BY <1>4, <2>3, <2>4
  <2>7. Read1(wake', samples', account', time') /\ Begun(wake')
    BY <1>6, <2>1
  <2> HIDE DEF Rising, Passed, Read1, Begun
  <2> QED
    BY <1>5, <2>5, <2>6, <2>7
<1>11. CASE Note \/ Publish \/ Trail \/ WakeDies
  <2>1. UNCHANGED <<time, account, samples>>
    BY <1>11 DEF Note, Publish, Trail, WakeDies, files
  <2>2. wake'.at \notin {"begun", "read"}
    <3>1. CASE Note
      BY <1>1, <3>1, WakeRuns DEF Note, Waking
    <3>2. CASE Publish
      BY <1>1, <3>2, WakeRuns DEF Publish, Waking
    <3>3. CASE Trail \/ WakeDies
      BY <1>7, <3>3 DEF Trail, WakeDies
    <3> QED
      BY <1>11, <3>1, <3>2, <3>3
  <2>3. Rising(account', time') /\ Passed(samples', account', time')
    BY <1>4, <2>1
  <2>4. Read1(wake', samples', account', time') /\ Begun(wake')
    BY <1>6, <2>2
  <2> HIDE DEF Rising, Passed, Read1, Begun
  <2> QED
    BY <1>5, <2>3, <2>4
(* The cycle begins anew, or more is used of the one that runs. *)
<1>12. ASSUME UNCHANGED <<wake, samples>>, time' \in Nat, time' >= time, account'.reset \in Nat, account'.used \in 0 .. Full,
              \/ account'.reset > account.reset
              \/ account'.reset = account.reset /\ account'.used >= account.used,
              Rising(account', time')
       PROVE  UseInv'
  <2>1. ASSUME NEW s \in Reading, Until(s, account.reset, account.used) PROVE Until(s, account'.reset, account'.used)
    BY <1>1, <1>2, <1>12, <2>1 DEF Until
  <2>2. Passed(samples', account', time')
    BY <1>1, <1>2, <1>4, <1>12, <2>1
  <2>3. Read1(wake', samples', account', time')
    <3> SUFFICES ASSUME wake # Asleep, wake.at = "read", wake.reading # Nothing
                 PROVE  /\ wake.reading.at <= time' /\ Until(wake.reading, account'.reset, account'.used)
                        /\ \A s \in samples : s.at <= wake.reading.at /\ Until(s, wake.reading.reset, wake.reading.used)
      BY <1>12
    <3>1. wake.reading \in Reading
      BY <1>1, <1>3
    <3>2. /\ wake.reading.at <= time /\ Until(wake.reading, account.reset, account.used)
          /\ \A s \in samples : s.at <= wake.reading.at /\ Until(s, wake.reading.reset, wake.reading.used)
      BY <1>4
    <3>3. wake.reading.at <= time'
      BY <1>1, <1>2, <1>12, <3>1, <3>2
    <3> QED
      BY <2>1, <3>1, <3>2, <3>3
  <2>4. Begun(wake')
    BY <1>4, <1>12
  <2> HIDE DEF Rising, Passed, Read1, Begun
  <2> QED
    BY <1>5, <1>12, <2>2, <2>3, <2>4
<1>13. account \in [used : 0 .. Full, reset : Nat, steady : Steadies \cup {Nothing}] /\ Full \in Nat
  BY <1>1, Sizes DEF InsightsTypes
<1>14. CASE Surprise
  <2>1. UNCHANGED <<wake, samples, time>> /\ account' = [account EXCEPT !.used = 0, !.reset = time + Cycle]
    BY <1>14 DEF Surprise, files
  <2>2. account'.used = 0 /\ account'.reset = time + Cycle
    BY <1>13, <2>1
  <2>3. account'.reset > account.reset \/ (account'.reset = account.reset /\ account'.used >= account.used)
    BY <1>1, <1>4, <2>2
  <2>4. Rising(account', time')
    BY <1>1, <2>1, <2>2
  <2>5. time' \in Nat /\ time' >= time /\ account'.reset \in Nat /\ account'.used \in 0 .. Full
    BY <1>1, <1>13, <2>1, <2>2
  <2> HIDE DEF Rising
  <2> QED
    BY <1>12, <2>1, <2>3, <2>4, <2>5
<1>15. CASE TimePasses
  <2>1. UNCHANGED <<wake, samples>> /\ time' = time + 1
    BY <1>15, Zenon DEF TimePasses, files
  <2>2. CASE account.reset = time'
    <3>1. account' = [account EXCEPT !.used = 0, !.reset = time' + Cycle]
      BY <1>15, <2>2, Zenon DEF TimePasses
    <3>2. account'.used = 0 /\ account'.reset = time' + Cycle
      BY <1>13, <3>1
    <3>3. time' \in Nat /\ time' >= time /\ account'.reset \in Nat /\ account'.reset > account.reset /\ 0 \in 0 .. Full
      BY <1>1, <1>13, <2>1, <2>2, <3>2
    <3>4. Rising(account', time')
      <4>1. account'.reset > time' /\ account'.reset <= time' + Cycle
        <5> DEFINE a == account'.reset
                   t == time'
        <5>1. t \in Nat /\ a = t + Cycle /\ Cycle \in Nat \ {0}
          BY <1>1, <3>2, <3>3
        <5> HIDE DEF a, t
        <5>2. a > t /\ a <= t + Cycle
          BY <5>1
        <5> QED
          BY <5>2 DEF a, t
      <4> QED
        BY <3>2, <4>1
    <3> HIDE DEF Rising
    <3> QED
      BY <1>12, <2>1, <3>2, <3>3, <3>4
  <2>3. CASE account.reset # time'
    <3>1. PICK more \in IF varies = "use" /\ account.used < Full THEN {0, 1} ELSE {0} :
            account' = [account EXCEPT !.used = @ + more]
      BY <1>15, <2>3, Zenon DEF TimePasses
    <3>2. account.used + more \in 0 .. Full /\ more >= 0
      BY <1>1, <1>13
    <3>3. account'.used = account.used + more /\ account'.reset = account.reset
      BY <1>13, <3>1
    <3>4. time' \in Nat /\ time' >= time /\ account'.reset \in Nat /\ account'.used \in 0 .. Full
          /\ account'.reset = account.reset /\ account'.used >= account.used
      BY <1>1, <1>13, <2>1, <3>2, <3>3
    <3>5. account.reset > time' /\ account.reset < time' + Cycle
      BY <1>1, <1>4, <2>1, <2>3
    <3>6. Rising(account', time')
      BY <1>1, <3>4, <3>5, <2>1
    <3> HIDE DEF Rising
    <3> QED
      BY <1>12, <2>1, <3>4, <3>6
  <2> QED
    BY <2>2, <2>3
<1> QED
  BY <1>8, <1>9, <1>10, <1>11, <1>14, <1>15 DEF InsightsNext

LEMMA RowsInOrder == ASSUME InsightsInv, InsightsNext PROVE InOrder(samples)' /\ Spaced(samples)'
<1>1. CASE Sample
  <2>1. InOrder(samples') /\ Spaced(samples')
    BY <1>1, SampledRows DEF InsightsInv
  <2> QED
    BY <2>1 DEF InOrder, Spaced
<1>2. CASE ~ Sample
  <2>1. samples' = samples
    BY <1>2 DEF InsightsNext, Begin, Read, Note, Publish, Trail, WakeDies, Surprise, TimePasses, files
  <2> QED
    BY <2>1 DEF InsightsInv, InOrder, Spaced
<1> QED
  BY <1>1, <1>2

-----------------------------------------------------------------------------
(* What is kept while an account is read steadily *)

LEMMA HorizonIs ==
  ASSUME InsightsTypes, UseInv
  PROVE  Horizon \in Nat /\ Horizon <= time /\ (HasRead => Horizon = wake.reading.at) /\ (~ HasRead => Horizon = time)
<1>1. HasRead => wake.reading \in Reading /\ wake.reading.at <= time
  BY DEF HasRead, InsightsTypes, Waking, UseInv
<1>2. wake.reading \in Reading => wake.reading.at \in Nat
  BY DEF Reading
<1> QED
  BY <1>1, <1>2 DEF Horizon, InsightsTypes

LEMMA SteadyStays ==
  ASSUME InsightsInv, InsightsTypes', UNCHANGED <<account.steady, samples>>, time' >= time, Horizon' >= Horizon, Horizon' \in Nat
  PROVE  SteadyInv'
<1> DEFINE st == account.steady
<1>1. SteadyInv /\ InsightsTypes /\ UseInv /\ time \in Nat /\ time' \in Nat
  BY DEF InsightsInv, InsightsTypes
<1>2. Horizon \in Nat
  BY <1>1, HorizonIs
<1> SUFFICES ASSUME st # Nothing
             PROVE  /\ st.since <= st.last /\ st.last <= time'
                    /\ \A s \in samples : s.reset = st.reset /\ s.at <= st.since => s.used <= st.used
                    /\ Horizon' - st.since <= Lately - Spacing =>
                         \A t \in st.since .. st.last : Covered(samples, st.reset, t)
  BY DEF SteadyInv
<1>3. /\ st.since <= st.last /\ st.last <= time
      /\ \A s \in samples : s.reset = st.reset /\ s.at <= st.since => s.used <= st.used
      /\ Horizon - st.since <= Lately - Spacing =>
           \A t \in st.since .. st.last : Covered(samples, st.reset, t)
  BY <1>1 DEF SteadyInv
<1>4. st.since \in Nat /\ st.last \in Nat
  <2>1. st \in Steadies
    BY <1>1 DEF InsightsTypes
  <2> QED
    BY <2>1 DEF Steadies
<1>5. Horizon' - st.since <= Lately - Spacing => Horizon - st.since <= Lately - Spacing
  BY <1>2, <1>4, Sizes
<1>6. st.last <= time'
  BY <1>1, <1>3, <1>4
<1> HIDE DEF st
<1> QED
  BY <1>3, <1>5, <1>6

(* A sample of an account that is read steadily. *)
LEMMA SteadySampled ==
  ASSUME InsightsInv, Sample, InsightsTypes', UseInv'
  PROVE  SteadyInv'
<1> DEFINE r == wake.reading
           st == account.steady
           new == account'.steady
<1>1. wake.at = "read" /\ wake \in Waking /\ wake # Asleep
  BY WakeRuns DEF Sample, InsightsInv, InsightsTypes
<1>2. PICK seen \in {samples, {}}, base \in {samples, {}}, written \in BOOLEAN :
        LET forecast == IF r = Nothing THEN Nothing ELSE Forecast(r.used, r.reset, r.at, time, seen)
            good == seen = samples /\ base = samples /\ written
        IN /\ IF good THEN UNCHANGED mishaps ELSE Mishap
           /\ samples' = CASE ~ written -> samples
                          [] written /\ forecast = Nothing -> {s \in base : time - Stored < s.at}
                          [] OTHER -> KeptSamples(base, r, time)
           /\ account' = [account EXCEPT !.steady = IF good /\ forecast # Nothing THEN Since(@, r) ELSE Nothing]
           /\ wake' = [wake EXCEPT !.at = "sampled", !.collector.completed = time, !.forecast = forecast,
                        !.steady = /\ good /\ forecast # Nothing /\ account'.steady.used < r.used
                                   /\ r.at - account'.steady.since \in 2 * Spacing + 1 .. Lately - Spacing]
  BY DEF Sample
<1> DEFINE forecast == IF r = Nothing THEN Nothing ELSE Forecast(r.used, r.reset, r.at, time, seen)
           good == seen = samples /\ base = samples /\ written
<1>3. time' = time /\ time \in Nat
  BY DEF Sample, InsightsInv, InsightsTypes
<1>4. new = IF good /\ forecast # Nothing THEN Since(st, r) ELSE Nothing
  <2> DEFINE x == IF good /\ forecast # Nothing THEN Since(st, r) ELSE Nothing
  <2>1. account' = [account EXCEPT !.steady = x]
    BY <1>2, Zenon
  <2>2. account \in [used : 0 .. Full, reset : Nat, steady : Steadies \cup {Nothing}]
    BY DEF InsightsInv, InsightsTypes
  <2> HIDE DEF x
  <2>3. new = x
    BY <2>1, <2>2
  <2> QED
    BY <2>3 DEF x
<1>5. CASE ~ (good /\ forecast # Nothing)
  BY <1>4, <1>5, Zenon DEF SteadyInv
<1>6. CASE good /\ forecast # Nothing
  <2>1. r # Nothing /\ base = samples /\ written /\ new = Since(st, r)
    BY <1>4, <1>6, Zenon
  <2>2. samples' = KeptSamples(samples, r, time)
    <3>1. samples' = CASE ~ written -> samples
                       [] written /\ forecast = Nothing -> {s \in base : time - Stored < s.at}
                       [] OTHER -> KeptSamples(base, r, time)
      BY <1>2
    <3> HIDE DEF forecast, r
    <3> QED
      BY <1>6, <2>1, <3>1
  <2>3. r \in Reading /\ HasRead
    BY <1>1, <2>1 DEF Waking, HasRead
  <2>4. /\ r.at \in Nat /\ r.used \in Nat /\ r.reset \in Nat /\ r.at <= time
        /\ \A s \in samples : s.at <= r.at /\ Until(s, r.reset, r.used)
    BY <2>3, Sizes DEF Reading, UseInv, HasRead, InsightsInv
  <2>5. st \in Steadies \cup {Nothing}
    BY DEF InsightsInv, InsightsTypes
  <2>6. /\ new \in Steadies /\ new.since \in Nat /\ new.used \in Nat /\ new.last = r.at /\ new.reset = r.reset
    <3>1. new \in Steadies
      BY <2>1, <2>3, <2>5, SteadyIs
    <3>2. new.since \in Nat /\ new.used \in Nat
      BY <3>1 DEF Steadies
    <3>3. new.last = r.at /\ new.reset = r.reset
      <4>1. CASE st # Nothing /\ st.last = r.at - 1 /\ st.reset = r.reset
        <5>1. new = [st EXCEPT !.last = r.at] /\ st \in Steadies
          BY <2>1, <2>5, <4>1 DEF Since
        <5> QED
          BY <4>1, <5>1 DEF Steadies
      <4>2. CASE ~ (st # Nothing /\ st.last = r.at - 1 /\ st.reset = r.reset)
        <5>1. new = [since |-> r.at, used |-> r.used, reset |-> r.reset, last |-> r.at]
          BY <2>1, <4>2 DEF Since
        <5> QED
          BY <5>1
      <4> QED
        BY <4>1, <4>2
    <3> QED
      BY <3>1, <3>2, <3>3
  (* It is read for the first time, or once more. *)
  <2>7. \/ new.since = r.at /\ new.used = r.used
        \/ /\ st # Nothing /\ st.last = r.at - 1 /\ st.reset = r.reset
           /\ new.since = st.since /\ new.used = st.used /\ st.since <= st.last
    <3>1. CASE st # Nothing /\ st.last = r.at - 1 /\ st.reset = r.reset
      <4>1. new = [st EXCEPT !.last = r.at] /\ st \in Steadies
        BY <2>1, <2>5, <3>1 DEF Since
      <4>2. new.since = st.since /\ new.used = st.used
        BY <4>1 DEF Steadies
      <4>3. st.since <= st.last
        BY <3>1 DEF InsightsInv, SteadyInv
      <4> QED
        BY <3>1, <4>2, <4>3
    <3>2. CASE ~ (st # Nothing /\ st.last = r.at - 1 /\ st.reset = r.reset)
      <4>1. new = [since |-> r.at, used |-> r.used, reset |-> r.reset, last |-> r.at]
        BY <2>1, <3>2 DEF Since
      <4> QED
        BY <4>1
    <3> QED
      BY <3>1, <3>2
  <2>8. st # Nothing =>
          /\ \A s \in samples : s.reset = st.reset /\ s.at <= st.since => s.used <= st.used
          /\ Horizon - st.since <= Lately - Spacing =>
               \A t \in st.since .. st.last : Covered(samples, st.reset, t)
    BY DEF InsightsInv, SteadyInv
  <2>9. Horizon = r.at
    BY <2>3 DEF Horizon
  <2>10. /\ samples' \subseteq samples \cup {r}
         /\ \A s \in samples :
              s.reset = r.reset /\ time - Stored < s.at /\ time - s.at < MostRows * Spacing => s \in samples'
         /\ Covered(samples', r.reset, r.at)
    <3> DEFINE rows == samples
    <3>1. rows \in SUBSET Reading /\ IsFiniteSet(rows) /\ InOrder(rows) /\ Spaced(rows) /\ Before(rows, r)
      BY <2>4 DEF InsightsInv, InsightsTypes, Before, Until
    <3>2. time \in Nat /\ r.at <= time /\ r \in Reading
      BY <1>3, <2>3, <2>4
    <3>3. samples' = KeptSamples(rows, r, time)
      BY <2>2
    <3> HIDE DEF rows, r
    <3>4. LET kept == KeptSamples(rows, r, time) IN
            /\ kept \subseteq rows \cup {r}
            /\ \A s \in rows :
                 s.reset = r.reset /\ time - Stored < s.at /\ time - s.at < MostRows * Spacing => s \in kept
            /\ Covered(kept, r.reset, r.at)
      BY <3>1, <3>2, RowsKept, Zenon
    <3> QED
      BY <3>3, <3>4 DEF rows
  <2> DEFINE since == new.since
             used == new.used
  <2>11. since <= r.at
    BY <2>4, <2>6, <2>7
  <2>12. ASSUME NEW s \in samples', s.reset = r.reset, s.at <= since PROVE s.used <= used
    <3>1. CASE s \in samples
      BY <2>4, <2>7, <2>8, <2>12, <3>1 DEF Until
    <3>2. CASE s = r
      <4>1. since = r.at
        BY <2>4, <2>6, <2>7, <2>12, <3>2
      <4>2. used = r.used
        <5> SUFFICES ASSUME st.last = r.at - 1, since = st.since, st.since <= st.last PROVE FALSE
          BY <2>7
        <5> QED
          BY <2>4, <4>1
      <4> QED
        BY <2>4, <3>2, <4>2
    <3> QED
      BY <2>10, <3>1, <3>2
  <2>13. ASSUME time - since <= Lately - Spacing, NEW t \in since .. r.at
         PROVE  Covered(samples', r.reset, t)
    <3>1. CASE t = r.at
      BY <2>10, <3>1
    <3>2. CASE t # r.at
      <4>1. t \in since .. (r.at - 1) /\ since # r.at /\ t \in Nat
        BY <2>4, <2>6, <3>2
      <4>2. st # Nothing /\ st.last = r.at - 1 /\ st.reset = r.reset /\ since = st.since
        BY <2>7, <4>1
      <4>3. Horizon - st.since <= Lately - Spacing
        <5>1. r.at - since <= Lately - Spacing
          BY <1>3, <2>4, <2>6, <2>13, Sizes
        <5> QED
          BY <2>9, <4>2, <5>1
      <4>4. Covered(samples, r.reset, t)
        BY <2>8, <4>1, <4>2, <4>3
      <4>5. PICK s \in samples : s.reset = r.reset /\ t - Spacing < s.at /\ s.at <= t
        BY <4>4 DEF Covered
      <4>6. s.at \in Nat
        BY DEF InsightsInv, InsightsTypes, Reading
      <4>7. time - s.at < Lately
        BY <1>3, <2>6, <2>13, <4>1, <4>5, <4>6, Sizes
      <4> DEFINE cap == MostRows * Spacing
      <4>8. cap \in Nat /\ cap >= Lately
        BY Sizes
      <4> HIDE DEF cap
      <4>9. time - Stored < s.at /\ time - s.at < cap
        BY <1>3, <4>6, <4>7, <4>8, Sizes
      <4>10. s \in samples'
        BY <2>10, <4>5, <4>9 DEF cap
      <4> QED
        BY <4>5, <4>10 DEF Covered
    <3> QED
      BY <3>1, <3>2
  <2>14. Horizon' = time
    <3>1. wake'.at = "sampled"
      BY SampleIs DEF InsightsInv
    <3> QED
      BY <1>3, <3>1 DEF Horizon, HasRead
  <2> QED
    BY <1>3, <2>4, <2>6, <2>11, <2>12, <2>13, <2>14, Zenon DEF SteadyInv
<1> QED
  BY <1>5, <1>6

LEMMA SteadyKept == ASSUME InsightsInv, InsightsNext, InsightsTypes', UseInv' PROVE SteadyInv'
<1>1. Horizon \in Nat /\ Horizon <= time /\ (HasRead => Horizon = wake.reading.at) /\ (~ HasRead => Horizon = time)
  BY HorizonIs DEF InsightsInv
<1>2. Horizon' \in Nat /\ Horizon' <= time' /\ (HasRead' => Horizon' = wake'.reading.at) /\ (~ HasRead' => Horizon' = time')
  <2>1. (Horizon \in Nat /\ Horizon <= time /\ (HasRead => Horizon = wake.reading.at) /\ (~ HasRead => Horizon = time))'
    BY HorizonIs, PTL
  <2> QED
    BY <2>1
<1>3. time \in Nat /\ wake \in Waking \cup {Asleep}
  BY DEF InsightsInv, InsightsTypes
<1>4. ASSUME UNCHANGED <<account, samples, time>>, ~ HasRead' PROVE SteadyInv'
  <2>1. Horizon' >= Horizon /\ time' >= time
    BY <1>1, <1>2, <1>3, <1>4
  <2> QED
    BY <1>2, <1>4, <2>1, SteadyStays
<1>5. ASSUME wake'.at # "read" PROVE ~ HasRead'
  BY <1>5 DEF HasRead
<1>6. Asleep.at # "read"
  BY DEF Asleep
<1>7. CASE Begin
  BY <1>4, <1>5, <1>7 DEF Begin
<1>8. CASE Read
  <2>1. UNCHANGED <<account, samples, time>>
    BY <1>8 DEF Read, files
  <2>2. /\ wake.at = "begun" /\ wake # Asleep
        /\ wake'.reading \in {wake.reading, [used |-> account.used, reset |-> account.reset, at |-> time]}
    BY <1>3, <1>8, ReadIs, WakeRuns DEF InsightsInv
  <2>3. wake.reading = Nothing
    BY <2>2 DEF InsightsInv, UseInv
  <2>4. HasRead' => wake'.reading.at = time
    BY <2>2, <2>3 DEF HasRead
  <2>5. Horizon' >= Horizon /\ time' >= time
    BY <1>1, <1>2, <1>3, <2>1, <2>4
  <2> QED
    BY <1>2, <2>1, <2>5, SteadyStays
<1>9. CASE Sample
  BY <1>9, SteadySampled
<1>10. CASE Note \/ Publish
  <2>1. wake \in Waking
    BY <1>3, <1>10, WakeRuns DEF Note, Publish
  <2>2. wake'.at # "read"
    BY <1>10, <2>1 DEF Note, Publish, Waking
  <2> QED
    BY <1>4, <1>5, <1>10, <2>2 DEF Note, Publish
<1>11. CASE Trail \/ WakeDies
  BY <1>4, <1>5, <1>6, <1>11 DEF Trail, WakeDies, files
<1>12. ASSUME UNCHANGED <<wake, samples, account.steady>>, time' >= time PROVE SteadyInv'
  <2>1. HasRead' <=> HasRead
    BY <1>12 DEF HasRead
  <2>2. time' \in Nat
    BY DEF InsightsTypes
  <2>3. Horizon' >= Horizon
    BY <1>1, <1>2, <1>3, <1>12, <2>1, <2>2
  <2> QED
    BY <1>2, <1>12, <2>3, SteadyStays
<1>13. account \in [used : 0 .. Full, reset : Nat, steady : Steadies \cup {Nothing}]
  BY DEF InsightsInv, InsightsTypes
<1>14. CASE Surprise
  <2>1. UNCHANGED <<wake, samples, time>> /\ account' = [account EXCEPT !.used = 0, !.reset = time + Cycle]
    BY <1>14 DEF Surprise, files
  <2>2. account'.steady = account.steady
    BY <1>13, <2>1
  <2> QED
    BY <1>3, <1>12, <2>1, <2>2
<1>15. CASE TimePasses
  <2>1. UNCHANGED <<wake, samples>> /\ time' = time + 1
    BY <1>15, Zenon DEF TimePasses, files
  <2>2. account'.steady = account.steady
    <3>1. \/ account' = [account EXCEPT !.used = 0, !.reset = time' + Cycle]
          \/ \E more \in IF varies = "use" /\ account.used < Full THEN {0, 1} ELSE {0} :
               account' = [account EXCEPT !.used = @ + more]
      BY <1>15, Zenon DEF TimePasses
    <3> QED
      BY <1>13, <3>1
  <2>3. time' >= time
    BY <1>3, <2>1
  <2> QED
    BY <1>12, <2>1, <2>2, <2>3
<1> QED
  BY <1>7, <1>8, <1>9, <1>10, <1>11, <1>14, <1>15 DEF InsightsNext

-----------------------------------------------------------------------------
(* What is told is true *)

LEMMA InsightsBegin == InsightsInit => InsightsInv
<1> SUFFICES ASSUME InsightsInit PROVE InsightsInv
  OBVIOUS
<1> USE DEF InsightsInit
<1>1. Never = -1
  BY DEF Never
<1>2. Unmarked \in Evidences /\ Unmarked.started = -1 /\ Unmarked.completed = -1 /\ Unmarked.ok = FALSE /\ Unmarked.io = FALSE
  BY <1>1 DEF Unmarked, Evidences
<1>3. Ended(Unmarked) = done
  BY <1>1, <1>2 DEF Ended
<1>4. status = [collector |-> Unmarked, active |-> 0, forecast |-> Nothing, steady |-> FALSE, changed |-> FALSE]
  OBVIOUS
<1>5. /\ status.collector = Unmarked /\ status.forecast = Nothing /\ status.steady = FALSE /\ status.changed = FALSE
      /\ status \in [collector : Evidences, active : Nat, forecast : Forecasts \cup {Nothing}, steady : BOOLEAN,
                     changed : BOOLEAN]
  BY <1>2, <1>4
<1>6. InsightsTypes
  <2>1. account \in [used : 0 .. Full, reset : Nat, steady : Steadies \cup {Nothing}]
    BY Sizes
  <2>2. done \in [at : Int, ok : BOOLEAN, io : BOOLEAN]
    BY <1>1
  <2>3. IsFiniteSet({})
    BY FS_EmptySet
  <2>4. begun \in Int /\ begun <= time
    BY <1>1
  <2> QED
    BY <1>2, <1>5, <2>1, <2>2, <2>3, <2>4 DEF InsightsTypes
<1>7. HealthInv
  BY <1>1, <1>2, <1>3, <1>5 DEF HealthInv
<1>8. ChangeInv
  BY <1>5, Sizes DEF ChangeInv
<1>9. PaceInv
  BY <1>5 DEF PaceInv, PaceRight
<1>10. UseInv
  BY Sizes DEF UseInv, HasRead
<1>11. InOrder(samples) /\ Spaced(samples)
  BY DEF InOrder, Spaced
<1>12. SteadyInv
  BY DEF SteadyInv
<1> QED
  BY <1>6, <1>7, <1>8, <1>9, <1>10, <1>11, <1>12 DEF InsightsInv

LEMMA InsightsKeep == InsightsInv /\ [InsightsNext]_insights => InsightsInv'
<1> SUFFICES ASSUME InsightsInv, [InsightsNext]_insights PROVE InsightsInv'
  OBVIOUS
<1>1. CASE InsightsNext
  <2>1. InsightsTypes'
    BY <1>1, TypesKept DEF InsightsInv
  <2>2. HealthInv' /\ ChangeInv'
    BY <1>1, HealthKept, ChangeKept DEF InsightsInv
  <2>3. PaceInv' /\ UseInv'
    BY <1>1, PaceKept, UseKept
  <2>4. InOrder(samples)' /\ Spaced(samples)'
    BY <1>1, RowsInOrder
  <2>5. SteadyInv'
    BY <1>1, <2>1, <2>3, SteadyKept
  <2> QED
    BY <2>1, <2>2, <2>3, <2>4, <2>5 DEF InsightsInv
<1>2. CASE UNCHANGED insights
  BY <1>2 DEF insights, InsightsInv, InsightsTypes, HealthInv, ChangeInv, RecordedAt, PaceInv, PaceRight, UseInv,
     Until, HasRead, InOrder, Spaced, SteadyInv, Horizon, Covered, Ended
<1> QED
  BY <1>1, <1>2

(* Whichever write of a wake fails and wherever it dies, whatever an        *)
(* account is used for and whenever its cycle ends: a reader is told what   *)
(* became of the collections; an account is said to last if no more of it   *)
(* is used than of its cycle is over, and one that is read steadily has a   *)
(* rate of the last hours; and a change that is shown was recorded.         *)
THEOREM InsightsAreTrue == InsightsSpec => []InsightsTrue
<1>1. InsightsInv => InsightsTrue
  <2> SUFFICES ASSUME InsightsInv PROVE InsightsTrue
    OBVIOUS
  <2>1. HealthTrue
    BY HealthToldTruly DEF InsightsInv
  <2>2. ChangesNoted
    BY ChangesToldTruly DEF InsightsInv
  <2>3. PaceTrue
    BY DEF InsightsInv, PaceInv, PaceRight, PaceTrue
  <2> QED
    BY <2>1, <2>2, <2>3 DEF InsightsTrue
<1> QED
  BY <1>1, InsightsBegin, InsightsKeep, PTL DEF InsightsSpec
=============================================================================
