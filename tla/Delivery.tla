------------------------------ MODULE Delivery ------------------------------
(***************************************************************************)
(* An installation that updates itself (delivery/runner.py, launch.ps1,    *)
(* native/src/door.rs, watch.rs).                                          *)
(*                                                                         *)
(* The runner follows the main branch: it stages a release, checks it,     *)
(* waits until no command runs, writes down what it is about to do, moves  *)
(* the one pointer every command starts by, and asks the release whether   *)
(* it is healthy.  It may fail or die anywhere; the next run takes up what *)
(* was written down.  State outlives releases, so an older one may be      *)
(* unable to read it.  Commands hold the installation together; dashboards *)
(* stay open for days, hold nothing, and look at the pointer themselves.   *)
(*                                                                         *)
(* Releases are numbered as main brings them, 0 stands for none.  Files    *)
(* are modelled as on Windows: what a running program holds open is not    *)
(* taken away.                                                             *)
(***************************************************************************)
EXTENDS Integers, FiniteSets

CONSTANTS Latest,      \* bound: the last release main comes to
          Advancing,   \* the releases that write state older ones cannot read
          Keep         \* KEEP_RELEASES

ASSUME ReleasesAssumption == Latest \in Nat \ {0} /\ Keep \in Nat /\ Advancing \subseteq 1 .. Latest

Releases == 1 .. Latest
None == 0
NoTransaction == [open |-> FALSE]

VARIABLES
  main,         \* the revision main is at
  pointer,      \* current.json: the release in force
  transaction,  \* transaction.json
  previous, rejected,   \* previous.json, rejected.json
  places,       \* the releases that are in place
  receipts,     \* the releases a digest receipt was written for
  schema,       \* the last advancing release that has written state
  runner,       \* the update that runs: where it is, and what it knows
  command,      \* a command or a wake of the collector
  dashboard,    \* a dashboard and what opened it
  calm,         \* from here on only releases fail, and they do so for good
  healthy       \* history: the releases that were found healthy, or restored
delivery == <<main, pointer, transaction, previous, rejected, places, receipts, schema,
              runner, command, dashboard, calm, healthy>>
files == <<pointer, transaction, previous, rejected, places, receipts>>

Idle == [at |-> "idle"]
Reads(release) == schema <= release
Max2(a, b) == IF a > b THEN a ELSE b
SchemaAfter(release) == IF release \in Advancing THEN Max2(schema, release) ELSE schema

-----------------------------------------------------------------------------
(* The runner *)

At(step) == runner.at = step
(* runtime.lock and the locks of the writers, held alone. *)
Drained == runner.at \in {"restoring", "restored", "draining", "pointing", "activating", "checking",
                          "undoing", "undone", "rejecting", "recording", "closing"}
GoTo(step) == runner' = [runner EXCEPT !.at = step]
Stop == runner' = Idle

(* An adapter that is asked may fail, for good reasons or for none. *)
Answers(release) == Reads(release)
Fails(release) == ~ calm \/ ~ Reads(release)

Start ==
  /\ At("idle")
  /\ runner' = [at |-> IF transaction.open THEN "recovering" ELSE "looking", current |-> None, sha |-> None]
  /\ UNCHANGED files

(* Slip: what the pointer names already is taken for installed. *)
RecoverForward ==
  /\ At("recovering")
  /\ IF pointer = transaction.candidate THEN transaction' = NoTransaction /\ GoTo("looking")
     ELSE GoTo("forgetting") /\ UNCHANGED transaction
  /\ UNCHANGED <<pointer, previous, rejected, places, receipts>>

(* recover(): what an update that was interrupted had begun is taken back. *)
(* Without a release to go back to, an operator has to look.               *)
Recover ==
  /\ At("recovering")
  /\ \/ transaction.previous # None /\ command = Idle /\ GoTo("restoring")
     \/ transaction.previous # None /\ command # Idle /\ ~ calm /\ Stop
     \/ transaction.previous = None /\ pointer # None /\ Stop
     \/ transaction.previous = None /\ pointer = None /\ GoTo("forgetting")
  /\ UNCHANGED files

(* Slip: the release before is selected without being asked. *)
RestoreUnasked ==
  /\ At("restoring")
  /\ pointer' = transaction.previous /\ GoTo("restored")
  /\ UNCHANGED <<transaction, previous, rejected, places, receipts>>

Restore ==
  /\ At("restoring")
  /\ \/ Answers(transaction.previous) /\ pointer' = transaction.previous /\ GoTo("restored")
     \/ Fails(transaction.previous) /\ Stop /\ UNCHANGED pointer
  /\ UNCHANGED <<transaction, previous, rejected, places, receipts>>

Restored ==
  /\ At("restored")
  /\ \/ Answers(pointer) /\ GoTo("forgetting")
     \/ Fails(pointer) /\ Stop
  /\ UNCHANGED files

(* The interrupted revision is rejected, then the transaction is closed. *)
Forget ==
  /\ At("forgetting")
  /\ IF rejected # transaction.candidate
     THEN rejected' = transaction.candidate /\ UNCHANGED <<transaction, runner>>
     ELSE transaction' = NoTransaction /\ GoTo("looking") /\ UNCHANGED rejected
  /\ UNCHANGED <<pointer, previous, places, receipts>>

(* Slip: a revision that failed is tried again. *)
Tried(sha) == FALSE

(* That revision failed before. *)
Rejected(sha) == rejected = sha

Look ==
  /\ At("looking")
  /\ IF pointer = main \/ main < pointer \/ Rejected(main) THEN Stop
     ELSE runner' = [at |-> "staging", current |-> pointer, sha |-> main]
  /\ UNCHANGED files

(* A release is moved into place in one step, once it reads the state that *)
(* there is; its receipt follows.  One in place without a receipt is not   *)
(* trusted.                                                                *)
Stage ==
  /\ At("staging")
  /\ IF runner.sha \in places
     THEN /\ IF runner.sha \in receipts THEN GoTo("preflight") ELSE Stop
          /\ UNCHANGED places
     ELSE \/ Answers(runner.sha) /\ places' = places \cup {runner.sha} /\ GoTo("receipt")
          \/ Fails(runner.sha) /\ Stop /\ UNCHANGED places
  /\ UNCHANGED <<pointer, transaction, previous, rejected, receipts>>

Receipt ==
  /\ At("receipt")
  /\ receipts' = receipts \cup {runner.sha}
  /\ GoTo("preflight")
  /\ UNCHANGED <<pointer, transaction, previous, rejected, places>>

Preflight ==
  /\ At("preflight")
  /\ \/ Answers(runner.sha) /\ main = runner.sha /\ GoTo("waiting")
     \/ (Fails(runner.sha) \/ main # runner.sha) /\ Stop
  /\ UNCHANGED files

(* Alone, the runner writes down what it is about to do. *)
Begin ==
  /\ At("waiting")
  /\ \/ /\ command = Idle
        /\ transaction' = [open |-> TRUE, previous |-> runner.current, candidate |-> runner.sha]
        /\ GoTo("draining")
     \/ command # Idle /\ ~ calm /\ Stop /\ UNCHANGED transaction
  /\ UNCHANGED <<pointer, previous, rejected, places, receipts>>

Fail == GoTo(IF runner.current = None THEN "rejecting" ELSE "undoing")

Drain ==
  /\ At("draining")
  /\ GoTo("pointing") \/ (Fails(runner.sha) /\ Fail)
  /\ UNCHANGED files

Point ==
  /\ At("pointing")
  /\ pointer' = runner.sha
  /\ GoTo("activating")
  /\ UNCHANGED <<transaction, previous, rejected, places, receipts>>

(* Activation may have advanced the state by the time it fails. *)
Activate ==
  /\ At("activating")
  /\ schema' \in {schema, SchemaAfter(runner.sha)}
  /\ GoTo("checking") \/ Fail
  /\ UNCHANGED files

Health ==
  /\ At("checking")
  /\ \/ GoTo("recording") /\ healthy' = healthy \cup {runner.sha}
     \/ Fail /\ UNCHANGED healthy
  /\ UNCHANGED files

(* The release before is asked whether it can read what is there now, and  *)
(* made the one in force again; if it cannot, everything stays.            *)
Undo ==
  /\ At("undoing")
  /\ \/ Answers(runner.current) /\ pointer' = runner.current /\ GoTo("undone")
     \/ Fails(runner.current) /\ Stop /\ UNCHANGED pointer
  /\ UNCHANGED <<transaction, previous, rejected, places, receipts>>

Undone ==
  /\ At("undone")
  /\ \/ Answers(pointer) /\ GoTo("rejecting")
     \/ Fails(pointer) /\ Stop
  /\ UNCHANGED files

Reject ==
  /\ At("rejecting")
  /\ rejected' = runner.sha
  /\ IF runner.current = None THEN Stop ELSE GoTo("closing")
  /\ UNCHANGED <<pointer, transaction, previous, places, receipts>>

Succeed ==
  /\ At("recording")
  /\ previous' = IF runner.current = None THEN previous ELSE runner.current
  /\ GoTo("closing")
  /\ UNCHANGED <<pointer, transaction, rejected, places, receipts>>

Close ==
  /\ At("closing")
  /\ transaction' = NoTransaction
  /\ IF runner.sha = pointer THEN GoTo("pruning") ELSE Stop
  /\ UNCHANGED <<pointer, previous, rejected, places, receipts>>

(* Slip: the release before is not kept. *)
Needed == {pointer, rejected}

(* The releases an update or an operator may come back to. *)
KeptReleases == {pointer, previous, rejected}

(* The releases a running program holds open. *)
Held == (IF dashboard.at \in {"open", "scripted"} THEN {dashboard.release} ELSE {})
          \cup (IF command.at = "running" THEN {command.release} ELSE {})
Newest(S) == {r \in S : Cardinality({q \in S : q > r}) < Keep}

(* prune(): the others go, but for the newest; or none, if it cannot be    *)
(* told what is in use.                                                    *)
Prune ==
  /\ At("pruning")
  /\ LET others == places \ KeptReleases IN
       \/ places' = places \ ((others \ Newest(others)) \ Held)
       \/ ~ calm /\ UNCHANGED places
  /\ Stop
  /\ UNCHANGED <<pointer, transaction, previous, rejected, receipts>>

Die ==
  /\ ~ calm /\ runner # Idle
  /\ Stop
  /\ UNCHANGED files

-----------------------------------------------------------------------------
(* Commands and wakes *)

(* in_force(): the lease first, then the pointer. *)
Lease ==
  /\ command = Idle /\ ~ Drained
  /\ command' = [at |-> "leased"]

(* A command that finds no release ends; a lease ends with its command. *)
Open ==
  /\ command.at = "leased"
  /\ command' = IF pointer = None THEN Idle ELSE [at |-> "running", release |-> pointer]

Run ==
  /\ command.at = "running"
  /\ schema' \in {schema, SchemaAfter(command.release)}
  /\ command' = Idle

-----------------------------------------------------------------------------
(* Dashboards *)

Closed == [at |-> "closed", last |-> None, release |-> None]

(* Slip: a release that handed off to itself is the end of it. *)
Surrendered(last) == Closed

(* What shown() does not open itself it leaves to launch.ps1, which looks  *)
(* at the pointer afresh and opens what it names.                          *)
LeftToScript(last) == [at |-> "script", last |-> None, release |-> None]

(* shown(): the release the pointer names is read, then opened, unless it  *)
(* is the one that has just handed off.                                    *)
ReadPointer ==
  /\ dashboard.at = "relay"
  /\ dashboard' = IF pointer \in {None, dashboard.last} THEN LeftToScript(dashboard.last)
                  ELSE [at |-> "opening", last |-> dashboard.last, release |-> pointer]

OpenDashboard ==
  /\ dashboard.at = "opening"
  /\ dashboard' = IF dashboard.release \in places THEN [dashboard EXCEPT !.at = "open"]
                  ELSE LeftToScript(dashboard.last)

(* launch.ps1: reads and opens, as long as what it opened is handed off. *)
Script ==
  /\ dashboard.at = "script"
  /\ dashboard' = IF pointer = None \/ pointer \notin places THEN Closed
                  ELSE [at |-> "scripted", last |-> None, release |-> pointer]

(* Release::look(): another release has come into force. *)
HandOff ==
  /\ dashboard.at \in {"open", "scripted"}
  /\ pointer \notin {None, dashboard.release}
  /\ dashboard' = IF dashboard.at = "scripted" THEN LeftToScript(None)
                  ELSE [at |-> "relay", last |-> dashboard.release, release |-> None]

(* The user opens a dashboard, or closes it. *)
Use ==
  /\ ~ calm
  /\ dashboard' = IF dashboard = Closed THEN [Closed EXCEPT !.at = "relay"] ELSE Closed
  /\ dashboard.at \in {"closed", "open", "scripted"}

-----------------------------------------------------------------------------
DeliveryInit ==
  /\ main = 1
  /\ pointer = None /\ transaction = NoTransaction
  /\ previous = None /\ rejected = None
  /\ places = {} /\ receipts = {} /\ schema = 0
  /\ runner = Idle /\ command = Idle /\ dashboard = Closed
  /\ calm = FALSE /\ healthy = {}

Advance == ~ calm /\ main < Latest /\ main' = main + 1
Settle == ~ calm /\ calm' = TRUE

RunnerStep ==
  /\ \/ /\ \/ Start \/ Recover \/ Restore \/ Restored \/ Forget
           \/ Look \/ Stage \/ Receipt \/ Preflight \/ Begin
           \/ Drain \/ Point \/ Undo \/ Undone \/ Reject
           \/ Succeed \/ Close \/ Prune
        /\ UNCHANGED <<schema, healthy>>
     \/ Activate /\ UNCHANGED healthy
     \/ Health /\ UNCHANGED schema
  /\ UNCHANGED <<main, command, dashboard, calm>>

CommandStep ==
  /\ \/ (Lease \/ Open) /\ UNCHANGED schema
     \/ Run
  /\ UNCHANGED <<main, files, runner, dashboard, calm, healthy>>

DashboardStep ==
  /\ ReadPointer \/ OpenDashboard \/ Script \/ HandOff
  /\ UNCHANGED <<main, files, schema, runner, command, calm, healthy>>

Surroundings ==
  \/ Die /\ UNCHANGED <<main, schema, command, dashboard, calm, healthy>>
  \/ Use /\ UNCHANGED <<main, files, schema, runner, command, calm, healthy>>
  \/ Advance /\ UNCHANGED <<files, schema, runner, command, dashboard, calm, healthy>>
  \/ Settle /\ UNCHANGED <<main, files, schema, runner, command, dashboard, healthy>>

DeliveryNext == RunnerStep \/ CommandStep \/ DashboardStep \/ Surroundings

(* The updater is started again and again and goes on; it waits for the     *)
(* commands there are, which end.  Dashboards look every second.            *)
DeliveryFairness == SF_delivery(RunnerStep) /\ WF_delivery(CommandStep /\ command # Idle) /\ WF_delivery(DashboardStep)

DeliverySpec == DeliveryInit /\ [][DeliveryNext]_delivery /\ DeliveryFairness

-----------------------------------------------------------------------------
(* Properties *)

(* Every variable has its type. *)
DeliveryTypeOK ==
  /\ main \in Releases /\ {pointer, previous, rejected} \subseteq Releases \cup {None}
  /\ transaction = NoTransaction
     \/ transaction \in [open : {TRUE}, previous : Releases \cup {None}, candidate : Releases]
  /\ places \subseteq Releases /\ receipts \subseteq Releases /\ healthy \subseteq Releases
  /\ schema \in Advancing \cup {0}
  /\ command \in {Idle} \cup [at : {"leased"}] \cup [at : {"running"}, release : Releases]
  /\ dashboard \in [at : {"closed", "relay", "opening", "open", "script", "scripted"},
                    last : Releases \cup {None}, release : Releases \cup {None}]
  /\ calm \in BOOLEAN

(* The release in force can read the state, whatever newer releases wrote   *)
(* before they were taken back ("so recovery cannot select a bad reader").  *)
SelectedReadable == pointer # None => Reads(pointer)

(* What is in force, or may come to be again, or runs, is in place.         *)
InPlace ==
  {pointer, previous} \cup Held \cup (IF transaction.open THEN {transaction.previous} ELSE {})
    \subseteq places \cup {None}

(* "An interrupted activation is never silently declared healthy": unless a *)
(* transaction says otherwise, what is in force was found healthy.          *)
NeverSilentlyHealthy == ~ transaction.open /\ pointer # None => pointer \in healthy

(* runner.py: the release in force can read the state, what runs, is in     *)
(* force or may come back is in place, and an interrupted activation is not *)
(* taken for a healthy one.                                                 *)
InForceUsable == SelectedReadable /\ InPlace /\ NeverSilentlyHealthy

(* An operator has to look: the first release of all was interrupted, or    *)
(* the one before cannot read what the new one wrote.                       *)
LeftToOperator ==
  /\ transaction.open
  /\ \/ transaction.previous = None /\ pointer # None
     \/ transaction.previous # None /\ ~ Reads(transaction.previous)

(* Main is in force, or failed, or was moved into place without a receipt.  *)
Followed ==
  /\ ~ transaction.open
  /\ pointer = main \/ rejected = main \/ main \in places \ receipts

(* Once main stays and only releases fail, the updates come to an end: main *)
(* is followed as far as it can be, whatever was interrupted before.        *)
Converges == <>calm => <>[](Followed \/ LeftToOperator)

Shows(release) == dashboard.at \in {"open", "scripted"} /\ dashboard.release = release

(* No dashboard is given up on its way to a release that is in force.       *)
NoneGivenUp ==
  [][dashboard.at \in {"relay", "opening", "script"} /\ pointer # None => dashboard' # Closed]_delivery

(* A dashboard comes to show the release in force, and none is given up on  *)
(* the way there.                                                           *)
DashboardsFollow ==
  /\ NoneGivenUp
  /\ <>calm => <>[](dashboard = Closed \/ Shows(pointer))
=============================================================================
