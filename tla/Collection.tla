----------------------------- MODULE Collection -----------------------------
(***************************************************************************)
(* When each provider is read, and what a wake leaves behind               *)
(* (native/src/wake.rs, collection.rs, runtime.rs).                        *)
(*                                                                         *)
(* A wake reads the providers that are due one after the other, compares   *)
(* the subscriptions it found, replaces status.json, and only then         *)
(* collector.json, which says when each provider is next due.  It can be   *)
(* killed between any two of these.  A person may ask for a wake at any    *)
(* time; a provider that failed is left alone whoever asks.                *)
(*                                                                         *)
(* Times are kept as what is left of a wait: the code compares             *)
(* nextAttemptAt with the present and with nothing else.  A wake is short  *)
(* beside the waits it sets: time passes between wakes.                    *)
(***************************************************************************)
EXTENDS Integers, Sequences, FiniteSets, SequencesExt

CONSTANTS Registered,    \* the providers, in the order a wake reads them
          Identities,    \* subscriptions
          ShortPoll,     \* a minute: the shortest time between two readings
          LongPoll,      \* five minutes: a healthy Codex provider's beat
          LocalDelay,    \* a minute: after a failure to write our own files
          FirstDelay,    \* five minutes: after a provider's first failure
          LongestDelay,  \* half an hour
          FailureLimit,  \* where the count of failures stops
          MaxSignIns     \* bound: how often a home is signed in anew

Providers == ToSet(Registered)

ASSUME ConstantsAssumption ==
  /\ {ShortPoll, LongPoll, LocalDelay, FirstDelay, LongestDelay, FailureLimit}
       \subseteq Nat \ {0}
  /\ MaxSignIns \in Nat
  /\ ShortPoll <= LongPoll /\ LongPoll <= LongestDelay /\ LocalDelay <= LongestDelay
  /\ Registered \in Seq(Providers) /\ Registered # <<>>
  /\ \A i, j \in 1 .. Len(Registered) : Registered[i] = Registered[j] => i = j

Nobody == "nobody"

VARIABLES
  driver,    \* the routine that reads each provider
  home,      \* the subscription each Codex provider's home is signed in to
  signIns,   \* how often anyone signed in
  collector, \* collector.json: per provider, failures and what is left of the wait
  known,     \* codex-state.json of each Codex provider: the subscription last read
  status,    \* status.json: how each provider is shown
  wake,      \* the wake that runs, and what it has in memory
  calm,      \* from here on everything answers, nothing dies, nobody signs in
  unread     \* history: homes signed in anew and not shown since

files == <<collector, known, status>>
vars == <<driver, home, signIns, files, wake, calm, unread>>

Codex == {p \in Providers : driver[p] = "codex"}

-----------------------------------------------------------------------------
(* The schedule *)

NoRecord == [failures |-> 0, local |-> FALSE, wait |-> 0]

Least(a, b) == IF a <= b THEN a ELSE b
Most(a, b) == IF a >= b THEN a ELSE b

Doublings == <<1, 2, 4, 8>>

(* The wait doubles with each failure, up to a limit. *)
Delay(failures) == Least(FirstDelay * Doublings[Least(failures, 4)], LongestDelay)

(* The count of failures stops when the wait has become the longest. *)
ASSUME FailureAssumption == Delay(FailureLimit) = LongestDelay

(* Slip: a request by a person cancels the wait. *)
DueWhenAsked(p, record, scheduled) == record.wait = 0 \/ ~ scheduled

(* A healthy provider is read whenever it is asked for, and one that wants *)
(* to be read every minute on every wake.  Neither cancels a wait after a  *)
(* failure.                                                                *)
Due(p, record, scheduled) ==
  \/ record.wait = 0
  \/ record.failures = 0 /\ (~ scheduled \/ p \notin Codex)

Succeeded(healthy) ==
  [failures |-> 0, local |-> FALSE, wait |-> Most(ShortPoll, Least(healthy, LongPoll))]

(* A failure to write our own state is tried again at the next wake, and   *)
(* the provider's first refusal after it counts as the first.              *)
Failed(old, local) ==
  LET prior == IF old.local /\ ~ local THEN 0 ELSE old.failures
      failures == Least(prior + 1, FailureLimit)
  IN [failures |-> failures, local |-> local,
      wait |-> IF local THEN LocalDelay ELSE Delay(failures)]

-----------------------------------------------------------------------------
(* A wake *)

Asleep == [at |-> "asleep", scheduled |-> FALSE, next |-> 1,
           collector |-> [p \in Providers |-> NoRecord],
           status |-> [p \in Providers |-> "unavailable"], tried |-> {}]

Init ==
  /\ driver \in [Providers -> {"claude", "codex"}]
  /\ home \in [Providers -> Identities]
  /\ home[Registered[1]] = CHOOSE who \in Identities : TRUE
  /\ signIns = 0
  /\ collector = [p \in Providers |-> NoRecord]
  /\ known = [p \in Providers |-> Nobody]
  /\ status = [p \in Providers |-> "unavailable"]
  /\ wake = Asleep
  /\ calm = FALSE
  /\ unread = Codex

(* tick.lock is taken, and collector.json marked: what it says of the      *)
(* providers stays.                                                        *)
Begin(scheduled) ==
  /\ wake.at = "asleep"
  /\ wake' = [Asleep EXCEPT !.at = "collecting", !.scheduled = scheduled,
                            !.collector = collector, !.status = status]
  /\ UNCHANGED <<driver, home, signIns, files, calm, unread>>

(* What a reading may come to: an answer for at least one account, none or *)
(* an error, or our own state that could not be written.                   *)
Outcomes == IF calm THEN {"answered"} ELSE {"answered", "refused", "unwritten"}

Reading == wake.at = "collecting" /\ wake.next <= Len(Registered)

(* A provider that is due is read.  A Codex provider saves the             *)
(* subscription it read for by itself, before the wake saves anything.     *)
Read ==
  LET p == Registered[wake.next] IN
  /\ Reading
  /\ Due(p, wake.collector[p], wake.scheduled)
  /\ \E outcome \in Outcomes :
       /\ \E healthy \in (IF p \in Codex THEN {ShortPoll, LongPoll} ELSE {ShortPoll}) :
            LET old == wake.collector[p]
                new == IF outcome = "answered" THEN Succeeded(healthy)
                       ELSE Failed(old, outcome = "unwritten")
            IN wake' = [wake EXCEPT
                 !.next = @ + 1,
                 !.collector[p] = new,
                 !.status[p] = IF outcome = "answered" THEN "ok" ELSE "unavailable",
                 !.tried = @ \cup {p}]
       /\ known' = IF p \in Codex /\ outcome = "answered"
                   THEN [known EXCEPT ![p] = home[p]] ELSE known
  /\ UNCHANGED <<driver, home, signIns, collector, status, calm, unread>>

(* One that is not is shown as it was, or as left alone. *)
PassOver ==
  LET p == Registered[wake.next] IN
  /\ Reading
  /\ ~ Due(p, wake.collector[p], wake.scheduled)
  /\ wake' = [wake EXCEPT
       !.next = @ + 1,
       !.status[p] = IF wake.collector[p].failures > 0 THEN "unavailable" ELSE @]
  /\ UNCHANGED <<driver, home, signIns, files, calm, unread>>

(* Slip: only what this wake has read is compared. *)
ConflictingNow(shown) ==
  {p \in Codex \cap wake.tried :
     /\ shown[p] = "ok"
     /\ \E q \in (Codex \cap wake.tried) \ {p} : shown[q] = "ok" /\ known[q] = known[p]}

(* Codex providers shown as usable under one subscription, whether read by *)
(* this wake or an earlier one.                                            *)
Conflicting(shown) ==
  {p \in Codex : /\ shown[p] = "ok"
                 /\ \E q \in Codex \ {p} : shown[q] = "ok" /\ known[q] = known[p]}

Checked == wake.at = "collecting" /\ wake.next > Len(Registered)

(* Both owners of one subscription are taken out, and count as failing.    *)
Settled ==
  LET twice == Conflicting(wake.status) IN
  [wake EXCEPT
     !.at = "published",
     !.scheduled = FALSE,
     !.tried = @ \cup twice,
     !.status = [p \in Providers |-> IF p \in twice THEN "duplicate" ELSE @[p]],
     !.collector = [p \in Providers |-> IF p \in twice THEN Failed(@[p], FALSE) ELSE @[p]]]

(* Slip: the times are saved first. *)
PublishLate ==
  /\ Checked
  /\ wake' = Settled
  /\ collector' = Settled.collector
  /\ UNCHANGED <<driver, home, signIns, known, status, calm, unread>>

(* status.json is replaced whole. *)
Publish ==
  /\ Checked
  /\ wake' = Settled
  /\ status' = Settled.status
  /\ unread' = unread \ {p \in Codex \cap wake.tried :
                          wake.status[p] = "ok" /\ known[p] = home[p]}
  /\ UNCHANGED <<driver, home, signIns, collector, known, calm>>

(* collector.json follows, and the wake ends. *)
Record ==
  /\ wake.at = "published"
  /\ collector' = wake.collector
  /\ wake' = Asleep
  /\ UNCHANGED <<driver, home, signIns, known, status, calm, unread>>

-----------------------------------------------------------------------------
(* The surroundings *)

(* A wake is killed, or one of its own writes fails, which ends it. *)
Die ==
  /\ ~ calm
  /\ wake.at # "asleep"
  /\ wake' = Asleep
  /\ UNCHANGED <<driver, home, signIns, files, calm, unread>>

SignIn(p) ==
  /\ ~ calm
  /\ signIns < MaxSignIns
  /\ \E who \in Identities \ {home[p]} : home' = [home EXCEPT ![p] = who]
  /\ signIns' = signIns + 1
  /\ unread' = unread \cup {p}
  /\ UNCHANGED <<driver, files, wake, calm>>

Settle ==
  /\ ~ calm
  /\ \A p, q \in Codex : p # q => home[p] # home[q]
  /\ calm' = TRUE
  /\ UNCHANGED <<driver, home, signIns, files, wake, unread>>

Tick ==
  /\ wake.at = "asleep"
  /\ collector' = [p \in Providers |-> [collector[p] EXCEPT !.wait = Most(0, @ - 1)]]
  /\ UNCHANGED <<driver, home, signIns, known, status, wake, calm, unread>>

Next ==
  \/ \E scheduled \in BOOLEAN : Begin(scheduled)
  \/ Read
  \/ PassOver
  \/ Publish
  \/ Record
  \/ Die
  \/ \E p \in Codex : SignIn(p)
  \/ Settle
  \/ Tick

(* The scheduler starts a wake every minute and every read has a time      *)
(* limit, so wakes follow each other with time between them.  Nobody has   *)
(* to ask, and nothing has to go wrong.                                    *)
Fairness ==
  /\ WF_vars(\E scheduled \in BOOLEAN : Begin(scheduled))
  /\ WF_vars(Read \/ PassOver)
  /\ WF_vars(Publish)
  /\ WF_vars(Record)
  /\ SF_vars(Tick)

Spec == Init /\ [][Next]_vars /\ Fairness

-----------------------------------------------------------------------------
(* Properties *)

Entry == [failures : 0 .. FailureLimit, local : BOOLEAN, wait : 0 .. LongestDelay]
Shown == {"unavailable", "ok", "duplicate"}

(* Every variable has its type: no wait is longer than the longest. *)
TypeOK ==
  /\ driver \in [Providers -> {"claude", "codex"}]
  /\ home \in [Providers -> Identities]
  /\ signIns \in 0 .. MaxSignIns
  /\ collector \in [Providers -> Entry]
  /\ known \in [Providers -> Identities \cup {Nobody}]
  /\ status \in [Providers -> Shown]
  /\ wake \in [at : {"asleep", "collecting", "published"}, scheduled : BOOLEAN,
               next : 1 .. Len(Registered) + 1, collector : [Providers -> Entry],
               status : [Providers -> Shown], tried : SUBSET Providers]
  /\ calm \in BOOLEAN
  /\ unread \subseteq Codex

(* A wait after a failure is neither cut short nor drawn out by a wake,    *)
(* whoever asked for it and whatever died before, and a provider that      *)
(* refuses again once it is over waits twice as long, up to the longest    *)
(* wait (collection.rs: "The times outlive the scheduler, a manual refresh *)
(* and a restart").                                                        *)
WaitsKept ==
  [][wake' = Asleep /\ wake # Asleep =>
       \A p \in Providers :
         LET old == collector[p]
             new == collector'[p]
             again == /\ old.failures > 0 /\ ~ old.local /\ new # old
                      /\ new.failures > 0 /\ ~ new.local
                      /\ status[p] # "duplicate"
         IN /\ old.failures > 0 /\ old.wait > 0 => new = old
            /\ again => new.wait >= Least(2 * Delay(old.failures), LongestDelay)]_vars

(* Two providers are not both offered on the strength of one subscription, *)
(* unless a home was signed in anew and has not been shown since           *)
(* (runtime.rs: "Two providers signed into the same subscription are not   *)
(* two lots of capacity").                                                 *)
NoDoubleCapacity ==
  \A p, q \in Codex \ unread :
    p # q /\ status[p] = "ok" /\ status[q] = "ok" => home[p] # home[q]

(* Whatever failed, died or conflicted before, once providers answer and   *)
(* homes differ every provider comes to be shown as readable, and stays:   *)
(* no wait, no remembered conflict and no half-written wake keeps one out. *)
Recovers == calm ~> [](\A p \in Providers : status[p] = "ok")
=============================================================================
