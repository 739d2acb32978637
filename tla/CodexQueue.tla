----------------------------- MODULE CodexQueue -----------------------------
(***************************************************************************)
(* Which Codex homes one collection reads, and for how long                *)
(* (native/src/codex_collect.rs).                                          *)
(*                                                                         *)
(* A collection has one time budget and reads home after home, the one     *)
(* whose last attempt is oldest first.  A home that someone else is        *)
(* reading is asked for again until its share of the time is over.  A home *)
(* for which no time is left keeps its place, and one that said it was     *)
(* asked too often is left alone for a while.  The places are saved at the *)
(* end, so a collection that dies leaves them as they were.                *)
(***************************************************************************)
EXTENDS Integers, Sequences, FiniteSets, SequencesExt

CONSTANTS Homes,
          Sound,       \* homes that answer quickly whenever they are asked
          Budget,      \* BUDGET_MS: the time of one collection
          ReadBudget,  \* READ_BUDGET_MS: the most of it one home gets
          BusyPause,   \* BUSY_PAUSE_MS
          Quick,       \* how long an answer takes
          Lengths,     \* how long the other homes may take
          Holds,       \* how long another reader may hold them
          RetryAfter   \* how long a home that refused is left alone

ConstantsAssumption ==
  /\ Sound \subseteq Homes
  /\ {Budget, ReadBudget, BusyPause, Quick, RetryAfter} \subseteq Nat \ {0}
  /\ Lengths \subseteq Nat \ {0} /\ Holds \subseteq Nat
  /\ Quick <= ReadBudget /\ ReadBudget <= Budget

VARIABLES
  queue,     \* codex-state.json: the homes, the oldest attempt first
  retry,     \* codex-state.json: what is left of each home's retryAfter
  disabled,  \* the homes the policy switches off
  run,       \* the collection that runs: where it is, and the time it has used
  result,    \* what the last saved collection found of each home
  since      \* history: which homes were tried since each home last was

vars == <<queue, retry, disabled, run, result, since>>

Least(a, b) == IF a <= b THEN a ELSE b

Idle == [at |-> 0, spent |-> 0, found |-> [h \in Homes |-> "none"]]

Init ==
  /\ queue \in {order \in [1 .. Cardinality(Homes) -> Homes] : IsInjective(order)}
  /\ retry = [h \in Homes |-> 0]
  /\ disabled = {}
  /\ run = Idle
  /\ result = [h \in Homes |-> "none"]
  /\ since = [h \in Homes |-> {}]

Start ==
  /\ run.at = 0
  /\ run' = [Idle EXCEPT !.at = 1]
  /\ UNCHANGED <<queue, retry, disabled, result, since>>

Running == run.at \in 1 .. Len(queue)
Current == queue[run.at]

(* The time one home gets: its share, or what is left. *)
Share(spent) == Least(Budget - spent, ReadBudget)

(* One home asked for: what it comes to and the time it takes, if another  *)
(* reader holds it for that long and it then needs that long to answer.    *)
(* No read is started that would begin past the share.                     *)
ReadWithin(share, held, needs) ==
  IF held > 0 /\ held + BusyPause >= share
  THEN [said |-> "home_busy", took |-> (IF share > BusyPause THEN share - BusyPause ELSE 0)]
  ELSE IF held + needs <= share
  THEN [said |-> "ok", took |-> held + needs]
  ELSE [said |-> "timeout", took |-> share]

Found(said, took) ==
  run' = [run EXCEPT !.at = @ + 1, !.spent = @ + took, !.found[Current] = said]

(* A home that is not asked: switched off, out of time, or left alone. *)
PassOver ==
  /\ Running
  /\ \/ Current \in disabled /\ Found("disabled", 0)
     \/ Current \notin disabled /\ run.spent >= Budget /\ Found("collection_budget", 0)
     \/ /\ Current \notin disabled /\ run.spent < Budget /\ retry[Current] > 0
        /\ Found("backoff", 0)
  /\ UNCHANGED <<queue, retry, disabled, result, since>>

(* A home that is asked.  An answer may be that it was asked too often, or *)
(* another failure; a sound home's never is.                               *)
Read ==
  /\ Running
  /\ Current \notin disabled /\ run.spent < Budget /\ retry[Current] = 0
  /\ \E held \in (IF Current \in Sound THEN {0} ELSE Holds),
        needs \in (IF Current \in Sound THEN {Quick} ELSE Lengths) :
       LET read == ReadWithin(Share(run.spent), held, needs) IN
       \/ Found(read.said, read.took)
       \/ /\ read.said = "ok" /\ Current \notin Sound
          /\ \E failure \in {"rate_limited", "refused"} : Found(failure, read.took)
  /\ UNCHANGED <<queue, retry, disabled, result, since>>

(* Slip: a home there was no time for counts as tried. *)
TriedAll(found) == {h \in Homes : found[h] # "backoff"}

(* The homes whose time of last attempt moves on. *)
Tried(found) == {h \in Homes : found[h] \notin {"collection_budget", "backoff"}}

(* Slip: the places stay as they were. *)
Unsorted(order, tried) == order

(* The oldest attempt first; homes keep their order among themselves. *)
Requeued(order, tried) ==
  SelectSeq(order, LAMBDA h : h \notin tried) \o SelectSeq(order, LAMBDA h : h \in tried)

Asked(found) == {h \in Homes : found[h] \notin {"collection_budget", "backoff", "disabled"}}

After(h) == {g \in Asked(run.found) : \E i, j \in DOMAIN queue : queue[i] = h /\ queue[j] = g /\ i < j}

Save ==
  /\ run.at > Len(queue)
  /\ queue' = Requeued(queue, Tried(run.found))
  /\ retry' = [h \in Homes |-> IF run.found[h] = "rate_limited" THEN RetryAfter
                               ELSE IF run.found[h] = "backoff" THEN retry[h] ELSE 0]
  /\ result' = run.found
  /\ run' = Idle
  /\ since' = [h \in Homes |->
       IF h \in Asked(run.found) THEN After(h)
       ELSE IF run.found[h] = "collection_budget" THEN since[h] \cup Asked(run.found)
       ELSE {}]
  /\ UNCHANGED disabled

-----------------------------------------------------------------------------
(* The surroundings *)

(* The wake dies before it has saved, or codex-state.json cannot be written. *)
(* Nothing is written before the end, so where it dies makes no difference.  *)
Die ==
  /\ run.at > Len(queue)
  /\ run' = Idle
  /\ UNCHANGED <<queue, retry, disabled, result, since>>

Switch(h) ==
  /\ run.at = 0
  /\ h \notin Sound
  /\ disabled' = IF h \in disabled THEN disabled \ {h} ELSE disabled \cup {h}
  /\ UNCHANGED <<queue, retry, run, result, since>>

Tick ==
  /\ run.at = 0
  /\ \E h \in Homes : retry[h] > 0
  /\ retry' = [h \in Homes |-> IF retry[h] > 0 THEN retry[h] - 1 ELSE 0]
  /\ UNCHANGED <<queue, disabled, run, result, since>>

Next ==
  \/ Start
  \/ PassOver
  \/ Read
  \/ Save
  \/ Die
  \/ \E h \in Homes : Switch(h)
  \/ Tick

(* Collections follow each other whatever the user does in between, every  *)
(* read ends (its share is a limit), and not every collection dies before  *)
(* it has saved.                                                           *)
Fairness ==
  /\ SF_vars(Start)
  /\ SF_vars(PassOver \/ Read)
  /\ SF_vars(Save)

Spec == Init /\ [][Next]_vars /\ Fairness

-----------------------------------------------------------------------------
(* Properties *)

Said == {"none", "ok", "timeout", "home_busy", "rate_limited", "refused",
         "collection_budget", "backoff", "disabled"}

(* Every variable has its type, and every home is in the queue once. *)
TypeOK ==
  /\ queue \in [1 .. Cardinality(Homes) -> Homes] /\ IsInjective(queue)
  /\ retry \in [Homes -> 0 .. RetryAfter]
  /\ disabled \subseteq Homes \ Sound
  /\ run \in [at : 0 .. Cardinality(Homes) + 1, spent : Nat, found : [Homes -> Said]]
  /\ result \in [Homes -> Said]
  /\ since \in [Homes -> SUBSET Homes]

(* A home for which there was no time is not passed over again for one     *)
(* that was tried in its stead: the homes take turns.                      *)
TurnsTaken ==
  [][\A h \in Homes :
       run.at > Len(queue) /\ result' = run.found /\ run.found[h] = "collection_budget"
         => since[h] \cap Asked(run.found) = {}]_vars

(* A home that answers quickly is read again and again, however slow the   *)
(* others are (codex_collect.rs: "Oldest attempt first, so a slow large    *)
(* fleet cannot starve its last accounts").  This is what the comment says *)
(* and not what the code does: a home that gets what is left of the time   *)
(* is cut short, and counts as tried all the same.                         *)
EveryoneRead == \A h \in Sound : []<>(result[h] = "ok")

(* A home that answers quickly is asked again and again, however slow the  *)
(* others are.                                                             *)
EveryoneAsked == \A h \in Sound : []<>(result[h] \in {"ok", "timeout"})

(* The collection has come to a home with less time left than it needs.    *)
CutShort(h) == Running /\ Current = h /\ Budget - run.spent \in 1 .. Quick - 1

(* A home that answers quickly is read again and again, if it is not cut   *)
(* short for ever.                                                         *)
ReadUnlessCutShort == \A h \in Sound : <>[]~CutShort(h) => []<>(result[h] = "ok")
=============================================================================
