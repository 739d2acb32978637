------------------------------ MODULE Parking ------------------------------
(***************************************************************************)
(* Parking takes an account out of policy.json and keeps in parked.json    *)
(* what is needed to bring it back (src/parking.ps1, and the enrollment in *)
(* src/management.ps1 that restores it).                                   *)
(*                                                                         *)
(* Each of the two files is replaced under tick.lock and                   *)
(* action-control.lock, in a step of its own.  policy.json is saved only   *)
(* if it is still the file that was hashed; parked.json is read without a  *)
(* lock and saved without a look at what is there.                         *)
(***************************************************************************)
EXTENDS FiniteSets

CONSTANTS Slots,          \* where accounts live
          Subscriptions,  \* what a slot can hold
          Parkers,        \* programs that park accounts
          Enrollers       \* programs that enroll them, or bring them back

Commands == Parkers \cup Enrollers

ASSUME ConstantsAssumption == {"gone", "unknown"} \cap Subscriptions = {}

(* Settings an account is enrolled with, and settings someone chose. *)
Settings == {"default", "chosen"}

Account == [who : Subscriptions, settings : Settings]
Record == [who : Subscriptions \cup {"unknown"}, settings : Settings]
Gone == [who |-> "gone", settings |-> "default"]

VARIABLES
  policy,   \* policy.json: what each slot is enrolled with
  parked,   \* parked.json: the record kept of a slot
  command,  \* where each command is, and what it has in memory
  minded    \* history: slots whose account has to be somewhere

vars == <<policy, parked, command, minded>>

Enrolled(p) == {s \in Slots : p[s] # Gone}

Idle == [at |-> "idle", slot |-> "none",
         expected |-> [s \in Slots |-> Gone], next |-> [s \in Slots |-> Gone],
         records |-> [s \in Slots |-> Gone], record |-> Gone, drop |-> {},
         identity |-> "unknown"]

Proceed(c, state) == command' = [command EXCEPT ![c] = state]
End(c) == Proceed(c, Idle)

Init ==
  /\ policy \in [Slots -> Account]
  /\ parked = [s \in Slots |-> Gone]
  /\ command = [c \in Commands |-> Idle]
  /\ minded = Slots

-----------------------------------------------------------------------------
(* Park *)

BeginPark(c, s) ==
  /\ command[c].at = "idle"
  /\ Proceed(c, [Idle EXCEPT !.at = "hash", !.slot = s])
  /\ UNCHANGED <<policy, parked, minded>>

HashPolicy(c) ==
  /\ command[c].at = "hash"
  /\ Proceed(c, [command[c] EXCEPT !.at = "policy", !.expected = policy])
  /\ UNCHANGED <<policy, parked, minded>>

(* The record is made of the policy as it reads now; whose account it is,  *)
(* is not always known.                                                    *)
ReadPolicy(c) ==
  LET s == command[c].slot IN
  /\ command[c].at = "policy"
  /\ \/ policy[s] = Gone /\ End(c)
     \/ /\ policy[s] # Gone
        /\ \E who \in {policy[s].who, "unknown"} :
             Proceed(c, [command[c] EXCEPT
               !.at = "records",
               !.next = [policy EXCEPT ![s] = Gone],
               !.record = [who |-> who, settings |-> policy[s].settings]])
  /\ UNCHANGED <<policy, parked, minded>>

(* Slip: a leftover record of the account is kept. *)
RecordsLeftOver(c) ==
  [t \in Slots |-> IF parked[t] # Gone THEN parked[t]
                   ELSE IF t = command[c].slot THEN command[c].record
                   ELSE Gone]

(* The records to keep: an enrolled account wins over a leftover record. *)
RecordsWith(c) ==
  [t \in Slots |-> IF t = command[c].slot THEN command[c].record
                   ELSE IF t \in Enrolled(command[c].next) THEN Gone
                   ELSE parked[t]]

ReadRecords(c) ==
  /\ command[c].at = "records"
  /\ Proceed(c, [command[c] EXCEPT !.at = "keep", !.records = RecordsWith(c)])
  /\ UNCHANGED <<policy, parked, minded>>

(* Slip: the record is left for after the policy. *)
WriteRecordsLater(c) ==
  /\ command[c].at = "keep"
  /\ Proceed(c, [command[c] EXCEPT !.at = "save"])
  /\ UNCHANGED <<policy, parked, minded>>

(* Record first. *)
WriteRecords(c) ==
  /\ command[c].at = "keep"
  /\ parked' = command[c].records
  /\ Proceed(c, [command[c] EXCEPT !.at = "save"])
  /\ UNCHANGED <<policy, minded>>

SavePolicy(c) ==
  /\ command[c].at = "save"
  /\ policy' = IF policy = command[c].expected THEN command[c].next ELSE policy
  /\ End(c)
  /\ UNCHANGED <<parked, minded>>

(* A wake or another writer holds tick.lock: what is guarded by the wait   *)
(* for it is done over from the start.                                     *)
Retry(c) ==
  /\ \/ command[c].at \in {"keep", "save"} /\ Proceed(c, [command[c] EXCEPT !.at = "hash"])
     \/ command[c].at = "discard" /\ Proceed(c, [command[c] EXCEPT !.at = "drop"])
  /\ UNCHANGED <<policy, parked, minded>>

-----------------------------------------------------------------------------
(* Enroll, and bring back *)

BeginAdd(c, s) ==
  /\ command[c].at = "idle"
  /\ Proceed(c, [Idle EXCEPT !.at = "enroll", !.slot = s])
  /\ UNCHANGED <<policy, parked, minded>>

(* An account that is enrolled already only has its record cleared. *)
BeginUnpark(c, s) ==
  /\ command[c].at = "idle" /\ parked[s] # Gone
  /\ Proceed(c, IF policy[s] # Gone
                THEN [Idle EXCEPT !.at = "drop", !.slot = s, !.drop = {s}]
                ELSE [Idle EXCEPT !.at = "enroll", !.slot = s])
  /\ UNCHANGED <<policy, parked, minded>>

(* One edit of the policy: it is refused if another one came in between,   *)
(* and so it is as good as made in one step.  A slot may have come to hold *)
(* another subscription.                                                   *)
Enroll(c) ==
  LET s == command[c].slot IN
  /\ command[c].at = "enroll"
  /\ \/ policy[s] # Gone /\ End(c) /\ UNCHANGED <<policy, minded>>
     \/ /\ policy[s] = Gone
        /\ \E who \in Subscriptions :
             policy' = [policy EXCEPT ![s] = [who |-> who, settings |-> "default"]]
        /\ minded' = minded \cup {s}
        /\ Proceed(c, [command[c] EXCEPT !.at = "match"])
  /\ UNCHANGED parked

(* Slip: the record of the slot, whoever it holds now. *)
MatchingSlot(s, who) ==
  IF parked[s] # Gone THEN {s} ELSE {t \in Slots : who # "unknown" /\ parked[t].who = who}

(* The record of the slot, unless it is known to be of another             *)
(* subscription; else one of the same subscription from another slot.      *)
Matching(s, who) ==
  LET own == {t \in Slots : /\ t = s /\ parked[t] # Gone
                            /\ parked[t].who \in {who, "unknown"} \/ who = "unknown"}
      moved == {t \in Slots : who # "unknown" /\ parked[t].who = who}
  IN IF own # {} THEN own ELSE moved

ReadRecord(c) ==
  LET s == command[c].slot IN
  /\ command[c].at = "match"
  /\ \E who \in {policy[s].who, "unknown"} \ {"gone"} :
       LET found == Matching(s, who)
           stale == IF found # {s} /\ parked[s] # Gone THEN {s} ELSE {}
       IN \/ found \cup stale = {} /\ End(c)
          \/ /\ found = {} /\ stale # {}
             /\ Proceed(c, [command[c] EXCEPT !.at = "drop", !.drop = stale])
          \/ \E t \in found :
               Proceed(c, [command[c] EXCEPT !.at = "settings", !.record = parked[t],
                                             !.drop = stale \cup {t}, !.identity = who])
  /\ UNCHANGED <<policy, parked, minded>>

RestoreSettings(c) ==
  LET s == command[c].slot IN
  /\ command[c].at = "settings"
  /\ policy' = IF policy[s] = Gone THEN policy
               ELSE [policy EXCEPT ![s].settings = command[c].record.settings]
  /\ Proceed(c, [command[c] EXCEPT !.at = "drop"])
  /\ UNCHANGED <<parked, minded>>

DropRecord(c) ==
  /\ command[c].at = "drop"
  /\ Proceed(c, [command[c] EXCEPT
       !.at = "discard",
       !.records = [t \in Slots |-> IF t \in command[c].drop THEN Gone ELSE parked[t]]])
  /\ UNCHANGED <<policy, parked, minded>>

(* A record that was restored to another slot is not minded any more. *)
WriteDropped(c) ==
  /\ command[c].at = "discard"
  /\ parked' = command[c].records
  /\ minded' = minded \ (command[c].drop \ {command[c].slot})
  /\ End(c)
  /\ UNCHANGED policy

-----------------------------------------------------------------------------
(* The surroundings *)

(* Another command edits the settings of an account.  An edit that is      *)
(* taken back at once is left out: no hash tells of it.                    *)
Edit(s) ==
  /\ policy[s] # Gone /\ policy[s].settings = "default"
  /\ policy' = [policy EXCEPT ![s].settings = "chosen"]
  /\ UNCHANGED <<parked, command, minded>>

(* A command dies, waits too long for tick.lock, or has an edit refused. *)
Die(c) ==
  /\ command[c].at # "idle"
  /\ End(c)
  /\ UNCHANGED <<policy, parked, minded>>

ParkStep(c) ==
  \/ \E s \in Slots : BeginPark(c, s)
  \/ HashPolicy(c) \/ ReadPolicy(c) \/ ReadRecords(c) \/ WriteRecords(c) \/ SavePolicy(c)

EnrollStep(c) ==
  \/ \E s \in Slots : BeginAdd(c, s) \/ BeginUnpark(c, s)
  \/ Enroll(c) \/ ReadRecord(c) \/ RestoreSettings(c) \/ DropRecord(c) \/ WriteDropped(c)

Next ==
  \/ \E c \in Parkers : ParkStep(c)
  \/ \E c \in Enrollers : EnrollStep(c)
  \/ \E c \in Commands : Retry(c) \/ Die(c)
  \/ \E s \in Slots : Edit(s)

Spec == Init /\ [][Next]_vars

-----------------------------------------------------------------------------
(* Properties *)

Places == {"idle", "hash", "policy", "records", "keep", "save",
           "enroll", "match", "settings", "drop", "discard"}

Policy == [Slots -> Account \cup {Gone}]
Records == [Slots -> Record \cup {Gone}]

(* Every variable has its type. *)
TypeOK ==
  /\ policy \in Policy
  /\ parked \in Records
  /\ command \in [Commands -> [at : Places, slot : Slots \cup {"none"},
                               expected : Policy, next : Policy, records : Records,
                               record : Record \cup {Gone}, drop : SUBSET Slots,
                               identity : Subscriptions \cup {"unknown"}]]
  /\ minded \subseteq Slots

(* "Record first: a crash before the policy save leaves a record that the  *)
(* still-enrolled account overrides, never an account that was forgotten"  *)
(* (parking.ps1:119).  Every account is enrolled, or a record of it is     *)
(* kept, at every moment of every command.                                 *)
NeverForgotten == \A s \in minded : policy[s] # Gone \/ parked[s] # Gone

(* An account leaves the policy only with its settings as they are in its  *)
(* record: an edit of them made while it is being parked, a record left    *)
(* from before and a park that was done over do not come in between        *)
(* (parking.ps1 Invoke-Hotpl8Park).                                        *)
LeavesAsChosen ==
  \A s \in Slots : policy[s] # Gone /\ policy'[s] = Gone
                     => parked'[s].settings = policy[s].settings

(* An account that is known takes no settings that are known to be another *)
(* one's, though the slot was that one's when it was parked.               *)
TakesItsOwn ==
  \A c \in Commands : command[c].at = "settings" /\ command[c].identity # "unknown"
                        => command[c].record.who \in {policy[command[c].slot].who, "unknown"}

(* Settings go with the account and come back to no other.                 *)
ParkedAsChosen == [][LeavesAsChosen /\ TakesItsOwn]_vars
=============================================================================
