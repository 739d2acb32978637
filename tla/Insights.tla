------------------------------ MODULE Insights ------------------------------
(***************************************************************************)
(* What is made of the readings besides their numbers, and what is told of *)
(* the collector itself (native/src/insights.rs, forecast.rs, activity.rs, *)
(* and the writes of wake.rs).                                             *)
(*                                                                         *)
(* A wake marks collector.json, reads an account, keeps a sample of it and *)
(* notes a change of account in files of their own, publishes status.json, *)
(* which holds the wake's evidence too, and writes collector.json once     *)
(* more.  Any of the writes may fail, and a wake may die between any two.  *)
(***************************************************************************)
EXTENDS Integers, Sequences, FiniteSets

CONSTANTS
  Full,          \* all of an account
  Cycle,         \* how long its weekly limit lasts
  Early,         \* how much of it has to be over for a forecast
  Fresh,         \* how old a reading may be
  Stall, Overdue, \* when a wake is taken to have stalled, and a collection to be overdue
  Spacing, Lately, Stored, MostRows,  \* of the samples that are kept
  MostEvents,    \* how many events are kept
  MaxWakes, MaxMishaps   \* bounds

(* Times are in one unit.  The code: half an hour, six hours and two weeks; *)
(* a reading is fresh for a quarter of an hour.  Its cap is 4096 rows for   *)
(* all accounts and limits, and MostRows is the share of one of them.       *)
ASSUME InsightsAssumption ==
  /\ {Full, Cycle, Early, Spacing, MostEvents, MostRows, Lately} \subseteq Nat \ {0}
  /\ {Fresh, Stall, Overdue, MaxWakes, MaxMishaps} \subseteq Nat
  /\ Stored \in Nat /\ Stored >= Lately /\ MostRows * Spacing >= Lately

VARIABLES
  varies,      \* what varies from wake to wake: how a read ends, the account in use, or how much of it
  time, mishaps,
  account,     \* how much of it is used, until when; history: since when it is read steadily
  wake,        \* the wake that runs
  collector,   \* collector.json
  status,      \* status.json
  samples,     \* usage-history.json, whose rows are ordered by time
  activity,    \* activity.json
  begun,       \* history: when the latest wake began, and the latest collection that was published
  done

insights == <<varies, time, mishaps, account, wake, collector, status, samples, activity, begun, done>>

Never == -1
Nothing == [none |-> TRUE]
Unmarked == [started |-> Never, completed |-> Never, ok |-> FALSE, io |-> FALSE]
Asleep == [at |-> "asleep"]

InsightsInit ==
  /\ varies \in {"outcome", "account", "use"} /\ time = 0 /\ mishaps = 0
  /\ account = [used |-> 0, reset |-> Cycle, steady |-> Nothing]
  /\ wake = Asleep
  /\ collector = Unmarked
  /\ status = [collector |-> Unmarked, active |-> 0, forecast |-> Nothing, steady |-> FALSE, changed |-> FALSE]
  /\ samples = {} /\ activity = <<>>
  /\ begun = Never /\ done = [at |-> Never, ok |-> FALSE, io |-> FALSE]

-----------------------------------------------------------------------------
(* The pace of an account *)

Valid(sample, used, reset, at) ==
  sample.reset = reset /\ sample.used <= used /\ at - Lately <= sample.at /\ sample.at <= at

(* The rate of the last hours, if they hold three samples of this cycle and *)
(* the first of them is long enough ago.                                    *)
Recent(used, at, valid) ==
  LET first == CHOOSE s \in valid : \A other \in valid : s.at <= other.at
      span == at - first.at
  IN IF Cardinality(valid) >= 3 /\ span \in Spacing .. Lately /\ used > first.used
     THEN [left |-> (Full - used) * span, by |-> used - first.used]
     ELSE Nothing

(* Slip: what is over of a cycle and what is left of it change places.      *)
OverReversed(reset, at) == reset - at

Over(reset, at) == Cycle - (reset - at)

(* forecast: where a reading is heading at the average rate of its cycle.   *)
Forecast(used, reset, at, now, rows) ==
  LET over == Over(reset, at)
      ahead == used * Cycle - Full * over       \* of Full * Cycle
  IN IF used \notin 1 .. Full \/ now - at > Fresh \/ reset <= now \/ over < Early \/ over > Cycle THEN Nothing
     ELSE [pace |-> IF 10 * ahead >= Full * Cycle THEN "ahead"
                    ELSE IF -10 * ahead >= Full * Cycle THEN "behind" ELSE "on track",
           lasts |-> (Full - used) * over >= (Cycle - over) * used,
           recent |-> Recent(used, at, {s \in rows : Valid(s, used, reset, at)}),
           used |-> used, reset |-> reset, at |-> at]

(* Slip: a sample at the very spacing is not taken. *)
Beyond(row, last) == row.at - last.at > Spacing

Apart(row, last) == row.at - last.at >= Spacing

(* Of one stream no two rows are of one time, unless its cycle ended then.  *)
Later(s, other) == s.at > other.at \/ (s.at = other.at /\ s.reset > other.reset)

Newest(rows) == {s \in rows : Cardinality({other \in rows : Later(other, s)}) < MostRows}

(* update_history: one sample for each spacing, or whenever the cycle       *)
(* changes.                                                                 *)
KeptSamples(rows, row, now) ==
  LET stored == {s \in rows : now - Stored < s.at /\ s.at <= now}
      add == \A last \in stored : (\A s \in stored : ~ Later(s, last)) => last.reset # row.reset \/ Apart(row, last)
  IN Newest(IF add THEN stored \cup {row} ELSE stored)

-----------------------------------------------------------------------------
(* The evidence of the collector *)

(* Slip: the file is taken, whatever the snapshot says. *)
FileFirst(shown, file) == TRUE

(* read_snapshot: a failed last write leaves the mark of an earlier wake    *)
(* beside a newer snapshot.                                                 *)
FileNewer(shown, file) ==
  shown.completed = Never \/ file.started > shown.completed \/ file.completed >= shown.completed

Evidence == IF collector # Unmarked /\ FileNewer(status.collector, collector) THEN collector ELSE status.collector

(* health *)
Health(c, now) ==
  CASE c = Unmarked -> "no evidence"
    [] c # Unmarked /\ c.started > now -> "invalid"
    [] c # Unmarked /\ c.started <= now /\ c.completed < c.started ->
         IF now - c.started > Stall THEN "stalled" ELSE "collecting"
    [] OTHER -> IF now - c.completed > Overdue THEN "overdue"
                ELSE IF c.io THEN "not written"
                ELSE IF ~ c.ok THEN "incomplete" ELSE "completed"

-----------------------------------------------------------------------------
(* A wake *)

files == <<collector, status, samples, activity>>

Begin ==
  /\ wake = Asleep /\ time > done.at /\ time > begun
  /\ collector' = [collector EXCEPT !.started = time]
  /\ wake' = [at |-> "begun", collector |-> collector', active |-> status.active, reading |-> Nothing, forecast |-> Nothing,
              steady |-> FALSE, changed |-> FALSE]
  /\ begun' = time
  /\ UNCHANGED <<varies, time, mishaps, account, status, samples, activity, done>>

(* The account is read, or it is not due and stays as it was, or it, or our *)
(* own state beside it, fails.                                              *)
Read ==
  LET old == wake.collector IN
  /\ wake.at = "begun"
  /\ \/ \E active \in IF varies = "account" THEN 1 .. 2 ELSE {1} :
          wake' = [wake EXCEPT !.at = "read", !.active = active,
                               !.collector = [old EXCEPT !.ok = TRUE, !.io = FALSE],
                               !.reading = [used |-> account.used, reset |-> account.reset, at |-> time]]
     \/ varies = "outcome" /\ old.completed # Never /\ wake' = [wake EXCEPT !.at = "read"]
     \/ varies = "outcome" /\ \E io \in BOOLEAN : wake' = [wake EXCEPT !.at = "read", !.collector = [old EXCEPT !.ok = FALSE, !.io = io]]
  /\ UNCHANGED <<varies, time, mishaps, account, files, begun, done>>

(* The account has been read in every unit since then, in this cycle. *)
Since(steady, r) ==
  IF steady # Nothing /\ steady.last = r.at - 1 /\ steady.reset = r.reset THEN [steady EXCEPT !.last = r.at]
  ELSE [since |-> r.at, used |-> r.used, reset |-> r.reset, last |-> r.at]

Mishap == mishaps < MaxMishaps /\ mishaps' = mishaps + 1

(* add_native_insights: the forecast, and the sample for the next one.  The *)
(* file is read for each; one that cannot be read is begun anew, and one    *)
(* that cannot be written costs nothing else.                               *)
Sample ==
  LET r == wake.reading IN
  /\ wake.at = "read"
  /\ \E seen, base \in {samples, {}}, written \in BOOLEAN :
       LET forecast == IF r = Nothing THEN Nothing ELSE Forecast(r.used, r.reset, r.at, time, seen)
           good == seen = samples /\ base = samples /\ written
       IN /\ IF good THEN UNCHANGED mishaps ELSE Mishap
          /\ samples' = CASE ~ written -> samples
                          [] written /\ forecast = Nothing -> {s \in base : time - Stored < s.at}
                          [] OTHER -> KeptSamples(base, r, time)
          /\ account' = [account EXCEPT !.steady = IF good /\ forecast # Nothing THEN Since(@, r) ELSE Nothing]
          /\ wake' = [wake EXCEPT !.at = "sampled", !.collector.completed = time, !.forecast = forecast,
                        !.steady = /\ good /\ forecast # Nothing /\ account'.steady.used < r.used
                                   /\ r.at - account'.steady.since \in 2 * Spacing + 1 .. Lately - Spacing]
  /\ UNCHANGED <<varies, time, collector, status, activity, begun, done>>

Changed == wake.active # 0 /\ status.active # 0 /\ wake.active # status.active

(* add_action_event: the newest are kept. *)
Noted(events, event) ==
  (IF Len(events) < MostEvents THEN events ELSE SubSeq(events, Len(events) - MostEvents + 2, Len(events))) \o <<event>>

(* What changed since the last snapshot is noted before this one is         *)
(* published.                                                               *)
Note ==
  /\ wake.at = "sampled"
  /\ \/ ~ Changed /\ wake' = [wake EXCEPT !.at = "noted"] /\ UNCHANGED <<mishaps, activity>>
     \/ /\ Changed /\ wake' = [wake EXCEPT !.at = "noted", !.changed = TRUE]
        /\ activity' = Noted(activity, [slot |-> wake.active, at |-> time]) /\ UNCHANGED mishaps
     \/ Changed /\ wake' = [wake EXCEPT !.at = "noted"] /\ Mishap /\ UNCHANGED activity
  /\ UNCHANGED <<varies, time, account, collector, status, samples, begun, done>>

Publish ==
  /\ wake.at = "noted"
  /\ status' = [collector |-> wake.collector, active |-> wake.active, forecast |-> wake.forecast,
              steady |-> wake.steady, changed |-> wake.changed]
  /\ done' = [at |-> wake.collector.completed, ok |-> wake.collector.ok, io |-> wake.collector.io]
  /\ wake' = [wake EXCEPT !.at = "published"]
  /\ UNCHANGED <<varies, time, mishaps, account, collector, samples, activity, begun>>

Trail ==
  /\ wake.at = "published"
  /\ collector' = wake.collector /\ wake' = Asleep
  /\ UNCHANGED <<varies, time, mishaps, account, status, samples, activity, begun, done>>

(* It is killed, or a write it cannot do without fails. *)
WakeDies ==
  /\ wake # Asleep /\ Mishap
  /\ wake' = Asleep
  /\ UNCHANGED <<varies, time, account, files, begun, done>>

-----------------------------------------------------------------------------
(* The service and time *)

(* The cycle ends early. *)
Surprise ==
  /\ varies = "use" /\ Mishap /\ account' = [account EXCEPT !.used = 0, !.reset = time + Cycle]
  /\ UNCHANGED <<varies, time, wake, files, begun, done>>

(* In the course of time more is used, and a cycle ends. *)
TimePasses ==
  /\ time < MaxWakes /\ time' = time + 1
  /\ IF account.reset = time' THEN account' = [account EXCEPT !.used = 0, !.reset = time' + Cycle]
     ELSE \E more \in IF varies = "use" /\ account.used < Full THEN {0, 1} ELSE {0} :
            account' = [account EXCEPT !.used = @ + more]
  /\ UNCHANGED <<varies, mishaps, wake, files, begun, done>>

InsightsNext ==
  Begin \/ Read \/ Sample \/ Note \/ Publish \/ Trail \/ WakeDies \/ Surprise \/ TimePasses

InsightsSpec == InsightsInit /\ [][InsightsNext]_insights

-----------------------------------------------------------------------------
(* Properties *)

(* What has become of the collections, for who could watch them. *)
Truth ==
  IF begun = Never THEN "no evidence"
  ELSE IF begun > done.at THEN IF time - begun > Stall THEN "stalled" ELSE "collecting"
  ELSE IF time - done.at > Overdue THEN "overdue"
  ELSE IF done.io THEN "not written" ELSE IF ~ done.ok THEN "incomplete" ELSE "completed"

(* insights.rs:24: whichever write failed and wherever a wake died, a       *)
(* reader is told what became of the collections: one that was published is *)
(* not called stalled, nor one that died completed.                         *)
HealthTrue == Health(Evidence, time) = Truth

(* forecast.rs:37: an account lasts if no more of it is used than of its    *)
(* cycle is over, and its pace does not contradict that; and an account     *)
(* that is read steadily while it is used has a rate of the last hours.     *)
PaceTrue ==
  LET f == status.forecast IN
  /\ f # Nothing =>
       /\ f.lasts <=> f.used * Cycle <= Full * (Cycle - (f.reset - f.at))
       /\ f.pace = "ahead" => ~ f.lasts
       /\ f.pace = "behind" => f.lasts
  /\ status.steady => f.recent # Nothing

(* insights.rs:326: a change of account that a snapshot shows is recorded    *)
(* from the wake that saw it, unless it could not be written or the record  *)
(* is full of later ones, wherever a later wake dies.                       *)
ChangesNoted ==
  status.changed =>
    \/ \E i \in DOMAIN activity : activity[i].slot = status.active /\ activity[i].at >= status.collector.started
    \/ Len(activity) = MostEvents /\ \A i \in DOMAIN activity : activity[i].at > status.collector.completed

(* insights.rs, forecast.rs: what is told of the collector, of an account's *)
(* pace and of its changes is true, whatever write failed.                  *)
InsightsTrue == HealthTrue /\ PaceTrue /\ ChangesNoted

=============================================================================
