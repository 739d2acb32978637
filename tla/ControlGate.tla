---------------------------- MODULE ControlGate ----------------------------
(***************************************************************************)
(* The boundary every automatic action is authorized inside                *)
(* (native/src/control.rs, src/provider-actions.ps1), the programs that    *)
(* act through it - a wake of the collector, and an admission of a Codex   *)
(* session, which no wake excludes - and the programs that change what     *)
(* they act by (src/management.ps1).                                       *)
(*                                                                         *)
(* An actor reads the settings under action-control.lock, works for        *)
(* seconds without it, and takes it again for one last look before each    *)
(* act; the act itself runs after the lock is let go.  A writer takes      *)
(* tick.lock and then action-control.lock.  A hold is a file placed by     *)
(* hand, under no lock at all.                                             *)
(***************************************************************************)
EXTENDS Integers, FiniteSets

CONSTANTS Wakes,      \* runs of the collector: scheduled, or asked for
          Routes,     \* admissions and launches of Codex
          Savers,     \* commands that edit policy.json
          Pausers,    \* commands and agents that pause automation
          MaxTime     \* bound: where the clock stops

ASSUME ConstantsAssumption ==
  /\ MaxTime \in Nat
  /\ \A p \in Wakes : p \notin Routes \cup Savers \cup Pausers
  /\ \A p \in Routes : p \notin Savers \cup Pausers
  /\ \A p \in Savers : p \notin Pausers
  /\ "free" \notin Wakes \cup Routes \cup Savers \cup Pausers

Actors == Wakes \cup Routes
Writers == Savers \cup Pausers
Processes == Actors \cup Writers

VARIABLES
  clock,     \* UTC
  files,     \* what is in policy.json, automation-pause.json and hold.json
  previous,  \* policy.previous.json
  tick,      \* who holds tick.lock
  gate,      \* who holds action-control.lock
  pc,        \* where each process is
  known,     \* an actor: the generation it read the policy under
  draft,     \* a saver: the hash it expects, and the policy it would save
  todo,      \* what an actor still means to do
  event      \* what the step just made admitted or did

vars == <<clock, files, previous, tick, gate, pc, known, draft, todo, event>>

-----------------------------------------------------------------------------
(* Control state *)

(* A policy is told apart by its mode and by whose edits it contains. *)
Modes == {"automate", "monitor"}
Policy == [mode : Modes, edits : SUBSET Savers]
FirstPolicy == [mode |-> "automate", edits |-> {}]

(* A pause and a hold are the instants they end at. *)
Files == [policy : Policy, pause : Nat, hold : Nat]

FirstFiles == [policy |-> FirstPolicy, pause |-> 0, hold |-> 0]

NoDraft == [expected |-> FirstPolicy, next |-> FirstPolicy]

Paused == files.pause > clock
Held == files.hold > clock

(* What a kind of action needs of the settings it is decided under: the    *)
(* decision's suppressions that are about control, not about accounts.     *)
Rebinding == "rebind"   \* cswap switch, or moving a running session
Acting == {"warm", "probe"}
Intents == {"admit", Rebinding} \cup Acting

Permits(intent, policy) ==
  \/ intent = "admit"
  \/ /\ policy.mode = "automate"
     /\ ~ Paused
     /\ intent = Rebinding => ~ Held

-----------------------------------------------------------------------------
(* Locks *)

Nobody == "free"
NoEvent == [kind |-> "none", who |-> Nobody, intent |-> "admit"]
Note(kind, p, intent) == event' = [kind |-> kind, who |-> p, intent |-> intent]
Quiet == event' = NoEvent

Goto(p, place) == pc' = [pc EXCEPT ![p] = place]

(* A process that ends, by returning or by dying, lets go of what it held. *)
Left(lock, p) == IF lock = p THEN Nobody ELSE lock
Leave(p) ==
  /\ Goto(p, "idle")
  /\ tick' = Left(tick, p)
  /\ gate' = Left(gate, p)
  /\ known' = [known EXCEPT ![p] = FirstFiles]
  /\ draft' = [draft EXCEPT ![p] = NoDraft]
  /\ todo' = [todo EXCEPT ![p] = {}]

(* Places where a process waits, at most a second, for action-control.lock. *)
AtGate == {"snapshot", "authorize", "publish"}

Enters(p) == gate = Nobody /\ gate' = p
Exits == gate' = Nobody

-----------------------------------------------------------------------------
(* Actors *)

Init ==
  /\ clock = 0
  /\ files = FirstFiles
  /\ previous = FirstPolicy
  /\ tick = Nobody
  /\ gate = Nobody
  /\ pc = [p \in Processes |-> "idle"]
  /\ known = [p \in Processes |-> FirstFiles]
  /\ draft = [p \in Processes |-> NoDraft]
  /\ todo = [p \in Processes |-> {}]
  /\ event = NoEvent

(* Two wakes never run at once: the second finds the lock held and leaves. *)
BeginWake(w) ==
  /\ pc[w] = "idle" /\ tick = Nobody
  /\ tick' = w
  /\ Goto(w, "snapshot") /\ Quiet
  /\ UNCHANGED <<clock, files, previous, gate, known, draft, todo>>

(* A session asks to be admitted; one that runs asks in the background     *)
(* whether it should be moved.                                             *)
BeginRoute(r, intent) ==
  /\ pc[r] = "idle"
  /\ todo' = [todo EXCEPT ![r] = {intent}]
  /\ Goto(r, "snapshot") /\ Quiet
  /\ UNCHANGED <<clock, files, previous, tick, gate, known, draft>>

(* The files are named before the policy is read ... *)
SnapshotBefore(a) ==
  /\ pc[a] = "snapshot" /\ Enters(a)
  /\ known' = [known EXCEPT ![a] = files]
  /\ Goto(a, "reread") /\ Quiet
  /\ UNCHANGED <<clock, files, previous, tick, draft, todo>>

(* ... and after: what was read has to be what both names stand for. *)
SnapshotAfter(a) ==
  /\ pc[a] = "reread" /\ Quiet
  /\ \/ known[a] # files /\ Leave(a)
     \/ /\ known[a] = files
        /\ Goto(a, "look") /\ Exits
        /\ UNCHANGED <<tick, known, draft, todo>>
  /\ UNCHANGED <<clock, files, previous>>

(* A wake that finds automation paused, or its policy in monitor mode,     *)
(* reads and does nothing else.  What its accounts call for is any part of *)
(* what is left.                                                           *)
Look(w) ==
  /\ pc[w] = "look" /\ Quiet
  /\ \E wanted \in SUBSET (Acting \cup {Rebinding}) :
       /\ Paused \/ known[w].policy.mode = "monitor" => wanted = {}
       /\ todo' = [todo EXCEPT ![w] = wanted]
  /\ Goto(w, "next")
  /\ UNCHANGED <<clock, files, previous, tick, gate, known, draft>>

(* An admission has its accounts read by native programs, and is decided   *)
(* a first time with what they say.                                        *)
ReadNatively(r) ==
  /\ pc[r] = "look" /\ Quiet
  /\ \/ /\ \A intent \in todo[r] : Permits(intent, known[r].policy)
        /\ Goto(r, "next")
        /\ UNCHANGED <<tick, gate, known, draft, todo>>
     \/ Leave(r)
  /\ UNCHANGED <<clock, files, previous>>

(* Switching comes first, then one warming request, then one probe. *)
First(wanted) ==
  IF Rebinding \in wanted THEN Rebinding
  ELSE IF "warm" \in wanted THEN "warm"
  ELSE IF "probe" \in wanted THEN "probe"
  ELSE "admit"

(* Over with what was taken up, whether it was done or not. *)
Drop(a) == todo' = [todo EXCEPT ![a] = @ \ {First(@)}]

(* A wake does not ask to switch while a hold lasts. *)
TakeUp(a) ==
  /\ pc[a] = "next" /\ todo[a] # {} /\ Quiet
  /\ \/ /\ ~ (a \in Wakes /\ First(todo[a]) = Rebinding /\ Held)
        /\ Goto(a, "authorize")
        /\ UNCHANGED todo
     \/ /\ a \in Wakes /\ First(todo[a]) = Rebinding /\ Held
        /\ Drop(a)
        /\ UNCHANGED pc
  /\ UNCHANGED <<clock, files, previous, tick, gate, known, draft>>

(* Refused at the boundary: the wake goes on to what is next, quietly; an  *)
(* admission has failed.                                                   *)
Refuse(a) ==
  IF a \in Wakes
  THEN Drop(a) /\ Goto(a, "next") /\ gate' = Left(gate, a) /\ UNCHANGED <<tick, known, draft>>
  ELSE Leave(a)

(* Slip: the generation is not compared. *)
ActionAuthorizationUncompared(a) ==
  /\ pc[a] = "authorize" /\ Enters(a) /\ Quiet
  /\ Goto(a, "decide")
  /\ UNCHANGED <<clock, files, previous, tick, known, draft, todo>>

(* The last look before acting.  The files have to be the ones the policy  *)
(* was read under ...                                                      *)
ActionAuthorization(a) ==
  /\ pc[a] = "authorize" /\ gate = Nobody /\ Quiet
  /\ \/ known[a] # files /\ Refuse(a)
     \/ /\ known[a] = files
        /\ Enters(a)
        /\ Goto(a, "decide")
        /\ UNCHANGED <<tick, known, draft, todo>>
  /\ UNCHANGED <<clock, files, previous>>

(* ... and the decision is made once more, with the pause and the hold as  *)
(* they are now.  No program runs before the lock is let go.               *)
Decide(a) ==
  LET intent == First(todo[a]) IN
  /\ pc[a] = "decide"
  /\ \/ /\ Permits(intent, known[a].policy)
        /\ Note("admitted", a, intent)
        /\ Goto(a, "act") /\ Exits
        /\ UNCHANGED <<tick, known, draft, todo>>
     \/ ~ Permits(intent, known[a].policy) /\ Quiet /\ Refuse(a)
  /\ UNCHANGED <<clock, files, previous>>

Act(a) ==
  /\ pc[a] = "act"
  /\ Note("done", a, First(todo[a]))
  /\ Drop(a)
  /\ Goto(a, "next")
  /\ UNCHANGED <<clock, files, previous, tick, gate, known, draft>>

(* The decision may no longer be for this account, whatever the settings   *)
(* say; and a switch the native program refuses ends the wake.             *)
Forgo(a) ==
  /\ pc[a] \in {"decide", "act"} /\ Quiet
  /\ \/ pc[a] = "decide" /\ Refuse(a)
     \/ pc[a] = "act" /\ First(todo[a]) = Rebinding /\ Leave(a)
  /\ UNCHANGED <<clock, files, previous>>

Done(a) ==
  /\ pc[a] = "next" /\ todo[a] = {} /\ Quiet
  /\ Leave(a)
  /\ UNCHANGED <<clock, files, previous>>

-----------------------------------------------------------------------------
(* Writers *)

(* An edit is prepared outside any lock: the file is hashed first, and     *)
(* read afterwards, so that an edit in between is noticed when saving.     *)
HashPolicy(s) ==
  /\ pc[s] = "idle" /\ s \notin files.policy.edits /\ Quiet
  /\ draft' = [draft EXCEPT ![s].expected = files.policy]
  /\ Goto(s, "hashed")
  /\ UNCHANGED <<clock, files, previous, tick, gate, known, todo>>

ReadPolicy(s) ==
  /\ pc[s] = "hashed" /\ Quiet
  /\ \E mode \in Modes :
       draft' = [draft EXCEPT ![s].next = [mode  |-> mode,
                                           edits |-> files.policy.edits \cup {s}]]
  /\ Goto(s, "write")
  /\ UNCHANGED <<clock, files, previous, tick, gate, known, todo>>

BeginPause(p) ==
  /\ pc[p] = "idle" /\ Quiet
  /\ Goto(p, "write")
  /\ UNCHANGED <<clock, files, previous, tick, gate, known, draft, todo>>

(* Slip: a writer leaves tick.lock alone. *)
TakeTickUnlocked(w) ==
  /\ pc[w] = "write" /\ Quiet
  /\ Goto(w, "publish")
  /\ UNCHANGED <<clock, files, previous, tick, gate, known, draft, todo>>

(* tick.lock is not waited for: a wake that holds it fails the command. *)
TakeTick(w) ==
  /\ pc[w] = "write" /\ Quiet
  /\ \/ /\ tick = Nobody
        /\ tick' = w
        /\ Goto(w, "publish")
        /\ UNCHANGED <<gate, known, draft, todo>>
     \/ tick # Nobody /\ Leave(w)
  /\ UNCHANGED <<clock, files, previous>>

TakeGate(w) ==
  /\ pc[w] = "publish" /\ Enters(w) /\ Quiet
  /\ Goto(w, IF w \in Savers THEN "save" ELSE "pause")
  /\ UNCHANGED <<clock, files, previous, tick, known, draft, todo>>

(* Slip: no hash is expected. *)
UnexpectedHash(s) == FALSE

PolicyChanged(s) == files.policy # draft[s].expected

(* Slip: a save that is refused forgets to let its locks go. *)
KeepPreviousLocked(s) ==
  /\ pc[s] = "save" /\ Quiet
  /\ \/ PolicyChanged(s) /\ Goto(s, "idle") /\ UNCHANGED previous
     \/ ~ PolicyChanged(s) /\ previous' = files.policy /\ Goto(s, "replace")
  /\ UNCHANGED <<clock, files, tick, gate, known, draft, todo>>

(* The policy that is replaced is kept beside the new one. *)
KeepPrevious(s) ==
  /\ pc[s] = "save" /\ Quiet
  /\ \/ /\ PolicyChanged(s)
        /\ Leave(s)
        /\ UNCHANGED previous
     \/ /\ ~ PolicyChanged(s)
        /\ previous' = files.policy
        /\ Goto(s, "replace")
        /\ UNCHANGED <<tick, gate, known, draft, todo>>
  /\ UNCHANGED <<clock, files>>

ReplacePolicy(s) ==
  /\ pc[s] = "replace"
  /\ files' = [files EXCEPT !.policy = draft[s].next]
  /\ Note("saved", s, "admit")
  /\ Leave(s)
  /\ UNCHANGED <<clock, previous>>

(* A pause, or a resumption of automation: an end that has come. *)
WritePause(p) ==
  /\ pc[p] = "pause" /\ Quiet
  /\ \E until \in clock .. MaxTime : files' = [files EXCEPT !.pause = until]
  /\ Leave(p)
  /\ UNCHANGED <<clock, previous>>

-----------------------------------------------------------------------------
(* The surroundings *)

(* action-control.lock stayed busy for the second a process waits for it. *)
GiveUp(p) ==
  /\ pc[p] \in AtGate /\ gate # Nobody /\ Quiet
  /\ IF pc[p] = "authorize" THEN Refuse(p) ELSE Leave(p)
  /\ UNCHANGED <<clock, files, previous>>

(* A process can end at any point; the system lets go of its locks. *)
Die(p) ==
  /\ pc[p] # "idle" /\ Quiet
  /\ Leave(p)
  /\ UNCHANGED <<clock, files, previous>>

PlaceHold ==
  /\ \E until \in 0 .. MaxTime : files' = [files EXCEPT !.hold = until]
  /\ Quiet
  /\ UNCHANGED <<clock, previous, tick, gate, pc, known, draft, todo>>

Tick ==
  /\ clock < MaxTime
  /\ clock' = clock + 1
  /\ Quiet
  /\ UNCHANGED <<files, previous, tick, gate, pc, known, draft, todo>>

ActorStep(a) ==
  \/ a \in Wakes /\ (BeginWake(a) \/ Look(a))
  \/ a \in Routes /\ ReadNatively(a)
  \/ SnapshotBefore(a) \/ SnapshotAfter(a)
  \/ TakeUp(a) \/ ActionAuthorization(a) \/ Decide(a) \/ Act(a) \/ Forgo(a) \/ Done(a)

WriterStep(w) ==
  \/ w \in Savers /\ (HashPolicy(w) \/ ReadPolicy(w) \/ KeepPrevious(w) \/ ReplacePolicy(w))
  \/ w \in Pausers /\ (BeginPause(w) \/ WritePause(w))
  \/ TakeTick(w) \/ TakeGate(w)

Next ==
  \/ \E a \in Actors : ActorStep(a)
  \/ \E r \in Routes, intent \in {"admit", Rebinding} : BeginRoute(r, intent)
  \/ \E w \in Writers : WriterStep(w)
  \/ \E p \in Processes : GiveUp(p) \/ Die(p)
  \/ PlaceHold
  \/ Tick

(* What a process does once it has begun: programs it runs are bounded in  *)
(* time, and so is every wait for a lock.                                  *)
Proceeds(p) ==
  \/ p \in Actors /\ pc[p] # "idle" /\ ActorStep(p)
  \/ p \in Writers /\ pc[p] # "idle" /\ WriterStep(p)
  \/ GiveUp(p)

Fairness == \A p \in Processes : WF_vars(Proceeds(p))

Spec == Init /\ [][Next]_vars
FairSpec == Spec /\ Fairness

-----------------------------------------------------------------------------
(* Properties *)

Places == {"idle", "snapshot", "reread", "look", "next", "authorize", "decide", "act",
           "hashed", "write", "publish", "save", "replace", "pause"}

(* Every variable has its type. *)
TypeOK ==
  /\ clock \in Nat
  /\ files \in Files
  /\ previous \in Policy
  /\ tick \in Processes \cup {Nobody}
  /\ gate \in Processes \cup {Nobody}
  /\ pc \in [Processes -> Places]
  /\ known \in [Processes -> Files]
  /\ draft \in [Processes -> [expected : Policy, next : Policy]]
  /\ todo \in [Processes -> SUBSET Intents]
  /\ event \in [kind : {"none", "admitted", "done", "saved"},
                who : Processes \cup {Nobody}, intent : Intents]

(* Nothing is admitted but under the settings of that very moment: not by  *)
(* a policy that was replaced while native programs ran, not into a pause  *)
(* that began meanwhile, not into a hold someone has just placed           *)
(* (control.rs action_authorization and provider_action_context).          *)
AdmittedUnderControl ==
  event.kind = "admitted" => Permits(event.intent, files.policy)

(* A command that turned automation off and answered is obeyed at once by  *)
(* the collector: whatever a wake does to an account, the policy in force  *)
(* while it does it allows actions, and no pause is.  The authorization    *)
(* alone would let one straggler through; it is tick.lock that does not.   *)
WakesObeyAtOnce ==
  event.kind = "done" /\ event.who \in Wakes => files.policy.mode = "automate" /\ ~ Paused

(* Edits of the policy are never undone by edits that were prepared beside *)
(* them: one of the two is refused instead (management.ps1                 *)
(* Save-Hotpl8Policy).                                                     *)
NoEditLost == [][files.policy.edits \subseteq files'.policy.edits]_vars

(* Whoever takes a lock lets it go, however its work goes. *)
LocksComeFree ==
  \A p \in Processes : /\ tick = p ~> tick # p
                       /\ gate = p ~> gate # p
=============================================================================
