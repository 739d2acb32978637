------------------------------- MODULE Leases -------------------------------
(***************************************************************************)
(* The agent pause ledger: written by src/leases.ps1, read by              *)
(* native/src/pause.rs, next to the pause a person sets                    *)
(* (src/management.ps1).                                                   *)
(*                                                                         *)
(* A writer holds tick.lock from before it reads the ledger until it has   *)
(* replaced it, and a reader sees a whole file, so one request is one      *)
(* step.  Its clock is older: the agent interface reads it before it asks  *)
(* for the lock.  A request therefore carries any instant of the last      *)
(* MaxDelay, which covers any number of callers, repeated, late, reordered *)
(* and abandoned requests alike.                                           *)
(***************************************************************************)
EXTENDS Integers, FiniteSets, FiniteSetsExt

CONSTANTS LeaseIds, Owners, Durations, Retention,
          Longest,    \* the longest lease a request may ask for: 1440 minutes
          PauseMinutes, \* the pauses a person sets; resuming is 0
          Capacity,   \* entries the ledger holds: 256
          MaxDelay,   \* bound: how late a request reaches the ledger
          MaxTime     \* bound: where the clock stops

ASSUME ConstantsAssumption ==
  /\ Longest \in Nat
  /\ Durations \subseteq 1 .. Longest
  /\ PauseMinutes \subseteq Nat
  /\ Retention \in Nat \ {0}
  /\ Capacity \in Nat
  /\ MaxDelay \in Nat
  /\ MaxTime \in Nat

NoTime == -1
NoOwner == "none"

VARIABLES
  clock,      \* UTC, in units the durations and the retention share
  ledger,     \* automation-leases.json: one entry per ID, Absent when it has none
  manual,     \* automation-pause.json: the end of the pause a person set
  readable,   \* which of the two files can be read and pass validation
  answer,     \* what the step just made answered its caller
  promised,   \* history: the expiry an ID was granted, until it is released
  ended       \* history: when an ID was last recorded as released

vars == <<clock, ledger, manual, readable, answer, promised, ended>>

-----------------------------------------------------------------------------
(* Entries *)

Absent == [owner |-> NoOwner, minutes |-> 0, acquired |-> NoTime,
           until |-> NoTime, released |-> NoTime, retain |-> NoTime]

Acquired(owner, minutes, now) ==
  [owner |-> owner, minutes |-> minutes, acquired |-> now,
   until |-> now + minutes, released |-> NoTime,
   retain |-> now + minutes + Retention]

Tombstone(now) ==
  [owner |-> NoOwner, minutes |-> 0, acquired |-> NoTime,
   until |-> NoTime, released |-> now, retain |-> now + Retention]

Later(a, b) == IF a < b THEN b ELSE a

(* Slip: a release keeps the retention of the expiry. *)
ReleasedKeepsRetention(entry, now) == [entry EXCEPT !.released = now]

(* Slip: a release moves the expiry to the moment of the release. *)
ReleasedMovesExpiry(entry, now) ==
  [entry EXCEPT !.released = now, !.until = now, !.retain = Later(@, now + Retention)]

Released(entry, now) ==
  [entry EXCEPT !.released = now, !.retain = Later(@, now + Retention)]

(* Slip: entries are pruned when they expire. *)
PrunedAtExpiry(now) ==
  [id \in LeaseIds |-> IF ledger[id].until > now THEN ledger[id] ELSE Absent]

(* The entries a request made at `now` still sees. *)
Pruned(now) ==
  [id \in LeaseIds |-> IF ledger[id].retain > now THEN ledger[id] ELSE Absent]

Kept(entries) == {id \in LeaseIds : entries[id] # Absent}

-----------------------------------------------------------------------------
(* The reader *)

(* What read_ledger accepts of one entry; anything else makes the whole    *)
(* ledger invalid, and automation stays paused.                            *)
ValidEntry(e) ==
  IF e.acquired = NoTime
  THEN /\ e.owner = NoOwner /\ e.minutes = 0 /\ e.until = NoTime
       /\ e.released # NoTime
       /\ e.retain >= e.released + Retention
  ELSE /\ e.owner \in Owners /\ e.minutes \in Durations
       /\ e.until = e.acquired + e.minutes
       /\ e.retain >= e.until + Retention
       /\ e.released # NoTime => e.retain >= e.released + Retention

LedgerInvalid ==
  \/ "leases" \notin readable
  \/ \E id \in Kept(ledger) : ~ ValidEntry(ledger[id])

(* Slip: a lease lasts through the instant it ends. *)
ActiveThroughEnd(now) ==
  {id \in LeaseIds : /\ ledger[id].released = NoTime
                     /\ ledger[id].until >= now}

(* The leases in force at `now`. *)
Active(now) ==
  {id \in LeaseIds : /\ ledger[id].released = NoTime
                     /\ ledger[id].until > now}

(* The pause in force at `now`.  An invalid one has no end. *)
Pause(now) ==
  LET ends == {ledger[id].until : id \in Active(now)}
              \cup {t \in {manual} : t > now}
      invalid == LedgerInvalid \/ "pause" \notin readable
  IN [paused  |-> invalid \/ ends # {},
      invalid |-> invalid,
      until   |-> IF invalid \/ ends = {} THEN NoTime ELSE Max(ends)]

-----------------------------------------------------------------------------
(* The writer *)

NoAnswer == [code |-> "none", id |-> "none", until |-> NoTime,
             active |-> FALSE, released |-> FALSE]

Refused(code, id) == [NoAnswer EXCEPT !.code = code, !.id = id]

(* Slip: a retry is told about the expiry alone. *)
GrantedByExpiry(id, e, now) ==
  [code |-> "ok", id |-> id, until |-> e.until, active |-> e.until > now,
   released |-> e.released # NoTime]

Granted(id, e, now) ==
  [code |-> "ok", id |-> id, until |-> e.until,
   active |-> e.released = NoTime /\ e.until > now,
   released |-> e.released # NoTime]

Ended(id, e) ==
  [code |-> "ok", id |-> id, until |-> e.until, active |-> FALSE,
   released |-> TRUE]

Init ==
  /\ clock = 0
  /\ ledger = [id \in LeaseIds |-> Absent]
  /\ manual = NoTime
  /\ readable = {"leases", "pause"}
  /\ answer = NoAnswer
  /\ promised = [id \in LeaseIds |-> NoTime]
  /\ ended = [id \in LeaseIds |-> NoTime]

Unwritten == UNCHANGED <<clock, ledger, manual, readable, promised, ended>>

(* A refused request leaves everything as it was. *)
Refuse(id, code) == answer' = Refused(code, id) /\ Unwritten

(* The clock a request read before it asked for the lock. *)
RequestTimes == {now \in 0 .. clock : now >= clock - MaxDelay}

(* What stops a request before it has looked at the entries: a wake or     *)
(* another writer holds tick.lock, which no request waits for, or the      *)
(* ledger cannot be trusted.                                               *)
TurnedAway(id) ==
  \/ Refuse(id, "collector_busy")
  \/ LedgerInvalid /\ Refuse(id, "lease_state_invalid")

(* Replacing the file needs action-control.lock and a disk: it can fail,   *)
(* and the ledger is then the one that was there.                          *)
Save(id, entries) ==
  /\ ledger' = entries
  /\ UNCHANGED <<clock, manual, readable>>

Acquire(id, owner, minutes, now) ==
  LET entries == Pruned(now)
      entry   == entries[id]
      fresh   == Acquired(owner, minutes, now)
  IN /\ ~ LedgerInvalid
     /\ \/ /\ entry # Absent
           /\ \/ entry.acquired = NoTime
              \/ entry.owner # owner
              \/ entry.minutes # minutes
           /\ Refuse(id, "lease_conflict")
        \/ /\ entry # Absent
           /\ entry.acquired # NoTime
           /\ entry.owner = owner
           /\ entry.minutes = minutes
           /\ answer' = Granted(id, entry, now)
           /\ Unwritten
        \/ /\ entry = Absent
           /\ \/ /\ Cardinality(Kept(entries)) >= Capacity
                 /\ Refuse(id, "lease_capacity")
              \/ /\ Cardinality(Kept(entries)) < Capacity
                 /\ \/ Refuse(id, "state_write_failed")
                    \/ /\ Save(id, [entries EXCEPT ![id] = fresh])
                       /\ answer' = Granted(id, fresh, now)
                       /\ promised' = [promised EXCEPT ![id] = fresh.until]
                       /\ UNCHANGED ended

(* Slip: room is asked for before the entry is looked up. *)
ReleaseAsksForRoom(id, now) ==
  /\ ~ LedgerInvalid
  /\ Cardinality(Kept(Pruned(now))) >= Capacity
  /\ Refuse(id, "lease_capacity")

Release(id, now) ==
  LET entries == Pruned(now)
      entry   == entries[id]
      over    == IF entry = Absent THEN Tombstone(now) ELSE Released(entry, now)
  IN /\ ~ LedgerInvalid
     /\ \/ /\ entry # Absent
           /\ entry.released # NoTime
           /\ answer' = Ended(id, entry)
           /\ Unwritten
        \/ /\ entry = Absent
           /\ Cardinality(Kept(entries)) >= Capacity
           /\ Refuse(id, "lease_capacity")
        \/ /\ entry = Absent => Cardinality(Kept(entries)) < Capacity
           /\ entry.released = NoTime
           /\ \/ Refuse(id, "state_write_failed")
              \/ /\ Save(id, [entries EXCEPT ![id] = over])
                 /\ answer' = Ended(id, over)
                 /\ promised' = [promised EXCEPT ![id] = NoTime]
                 /\ ended' = [ended EXCEPT ![id] = now]

(* hotpl8 pause and hotpl8 resume (0 minutes).  The clock is read once the *)
(* lock is held.                                                           *)
SetPause(minutes) ==
  /\ manual' = clock + minutes
  /\ answer' = NoAnswer
  /\ UNCHANGED <<clock, ledger, readable, promised, ended>>

-----------------------------------------------------------------------------
(* The surroundings *)

Tick ==
  /\ clock < MaxTime
  /\ clock' = clock + 1
  /\ answer' = NoAnswer
  /\ UNCHANGED <<ledger, manual, readable, promised, ended>>

(* Another program holds one of the files open, or lets go of it. *)
Share ==
  /\ readable' \in {{"leases", "pause"}, {"leases"}, {"pause"}}
  /\ answer' = NoAnswer
  /\ UNCHANGED <<clock, ledger, manual, promised, ended>>

Next ==
  \/ \E id \in LeaseIds : TurnedAway(id)
  \/ \E id \in LeaseIds, owner \in Owners, minutes \in Durations, now \in RequestTimes :
       Acquire(id, owner, minutes, now)
  \/ \E id \in LeaseIds, now \in RequestTimes : Release(id, now)
  \/ \E minutes \in PauseMinutes : SetPause(minutes)
  \/ Tick
  \/ Share

Spec == Init /\ [][Next]_vars

-----------------------------------------------------------------------------
(* Properties *)

Time == Nat \cup {NoTime}

Entry == [owner : Owners \cup {NoOwner}, minutes : Durations \cup {0},
          acquired : Time, until : Time, released : Time, retain : Time]

Answer == [code : {"none", "ok", "collector_busy", "lease_state_invalid",
                   "lease_conflict", "lease_capacity", "state_write_failed"},
           id : LeaseIds \cup {"none"}, until : Time,
           active : BOOLEAN, released : BOOLEAN]

(* Every variable has its type. *)
TypeOK ==
  /\ clock \in Nat
  /\ ledger \in [LeaseIds -> Entry]
  /\ manual \in Time
  /\ readable \in SUBSET {"leases", "pause"}
  /\ answer \in Answer
  /\ promised \in [LeaseIds -> Time]
  /\ ended \in [LeaseIds -> Time]

(* The PowerShell writer never saves a ledger that the compiled reader     *)
(* refuses: a refused one would keep automation paused until a person      *)
(* repaired the file.  The hard case is a release after the lease expired, *)
(* which has to lengthen a retention that was long enough before.          *)
LedgerAccepted == \A id \in Kept(ledger) : ValidEntry(ledger[id])

(* Automation is paused exactly while a person's pause lasts or a lease    *)
(* lasts that was granted and not released since, and until the latest of  *)
(* those ends - whatever else was acquired, released, retried, resumed or  *)
(* pruned meanwhile (pause.rs lease_pause and pause).                      *)
PauseExact ==
  LET due == {t \in {manual} \cup {promised[id] : id \in LeaseIds} : t > clock}
      now == Pause(clock)
  IN now.invalid \/ /\ now.paused = (due # {})
                    /\ now.paused => now.until = Max(due)

(* A released ID stays released for the whole retention after the release, *)
(* through retries, pruning by other callers and acquisitions that arrive  *)
(* late: a delayed acquisition cannot start a pause its job has ended.     *)
ReleaseSticks ==
  \A id \in LeaseIds :
    ended[id] # NoTime /\ clock < ended[id] + Retention
      => ledger[id].released # NoTime

(* What a caller is told is so: an ID called active is not released and    *)
(* automation is paused until its expiry at least; one called released is  *)
(* not holding automation back.  And a full ledger refuses newcomers only: *)
(* no request about a lease that is holding automation back is refused for *)
(* want of room, so its job can always end it.                             *)
SaidTrue ==
  answer.code = "ok" =>
    /\ answer.active =>
         /\ ~ answer.released
         /\ answer.until > clock =>
              Pause(clock).invalid \/ Pause(clock).until >= answer.until
    /\ answer.released => answer.id \notin Active(clock)

FullLedgerHoldsNoneBack ==
  answer.code = "lease_capacity" => answer.id \notin Active(clock)
AnswersTrue == SaidTrue /\ FullLedgerHoldsNoneBack

(* The ledger keeps the contract agents are given. *)
Shown(e) ==
  [until |-> e.until,
   stage |-> IF e = Absent THEN "free" ELSE IF e.released = NoTime THEN "held" ELSE "over",
   keep  |-> e.retain]

Contract == INSTANCE LeaseContract WITH
  lease <- [id \in LeaseIds |-> Shown(ledger[id])]

KeepsContract == Contract!Spec
=============================================================================
