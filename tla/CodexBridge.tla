---------------------------- MODULE CodexBridge ----------------------------
(***************************************************************************)
(* The bridge between a T3 conversation and native Codex                   *)
(* (class CodexBridge, src/src/t3-codex.mjs).  It admits the owner's turns *)
(* one at a time, each on an account the broker has just validated; moves  *)
(* the one process-wide account only between turns; and continues, once, a *)
(* turn that ended on a usage limit.                                       *)
(*                                                                         *)
(* The bridge is one event loop.  A promise that is ready runs before the  *)
(* next event (Ready); everything between two awaits is one step.  Native  *)
(* Codex, the broker, the waiter program and the owner are external: they  *)
(* may do whatever the code is prepared for, at any time.                  *)
(***************************************************************************)
EXTENDS Naturals, Sequences, SequencesExt

CONSTANTS Threads,    \* conversations and their sub-agents
          Host,       \* thread -> the thread that takes a continue for it
          Accounts,   \* what the broker can answer
          NoAccount,  \* the bridge has no account it trusts
          Refused,    \* requests native may refuse
          Woken,      \* threads native gives turns to on its own
          MaxSerial,  \* bound: jobs queued when another one arrives
          MaxInbox    \* bound: messages from native waiting to be read

Direct == {t \in Threads : Host[t] = t}

ASSUME ConstantsAssumption ==
  /\ Threads # {}
  /\ Host \in [Threads -> Threads]
  /\ \A t \in Threads : Host[t] \in Direct
  /\ NoAccount \notin Accounts
  /\ MaxSerial \in Nat /\ MaxInbox \in Nat

VARIABLES
  route,     \* the account the bridge believes native uses
  routing,   \* the validation under way: for whom, at what, to which account
  active,    \* threads the bridge was told are in a turn
  reserved,  \* admissions native has not answered, per thread
  waiters,   \* the continue a thread has coming
  known,     \* threads whose lineage the bridge has
  serial,    \* the promise queue: jobs, the first one under way
  stage,     \* where the first job is
  inbox,     \* what native has written and the bridge has not read
  running,   \* threads that really are in a turn
  account,   \* the account native really uses
  owed       \* history: threads whose failure asks for a continue

bridge == <<route, routing, active, reserved, waiters, known, serial, stage>>
native == <<inbox, running, account>>
vars == <<bridge, native, owed>>

Free == [by |-> "none", at |-> "none", to |-> NoAccount]
Asking(who) == [by |-> who, at |-> "ask", to |-> NoAccount]
Applying(who, a) == [by |-> who, at |-> "login", to |-> a]

Message(what, t, ok) == [what |-> what, thread |-> t, ok |-> ok]
Job(kind, t) == [kind |-> kind, thread |-> t, mine |-> TRUE]
AnyThread == CHOOSE t \in Threads : TRUE

Working == active # {} \/ \E t \in Threads : reserved[t] > 0

(* A waiter that has said yes once stands: queued, held, or asked again.   *)
Due == {"again", "due", "held"}

Init ==
  /\ route \in Accounts /\ account = route
  /\ routing = Free
  /\ active = {} /\ running = {}
  /\ reserved = [t \in Threads |-> 0]
  /\ waiters = [t \in Threads |-> "none"]
  /\ known = Direct
  /\ serial = <<>> /\ stage = "idle"
  /\ inbox = <<>>
  /\ owed = [t \in Threads |-> FALSE]

-----------------------------------------------------------------------------
(* Native Codex, external *)

Says(m) == inbox' = Append(inbox, m)

(* A turn/start on a thread in a turn adds to that turn.  Otherwise native *)
(* answers, begins a turn, and then announces it.                          *)
NativeTakes(kind, t, answer) ==
  /\ \/ /\ kind \in Refused \/ (kind = "compact" /\ t \in running)
        /\ Says(Message(answer, t, FALSE)) /\ UNCHANGED running
     \/ /\ t \in running /\ kind # "compact"
        /\ Says(Message(answer, t, TRUE)) /\ UNCHANGED running
     \/ /\ t \notin running
        /\ running' = running \cup {t}
        /\ inbox' = inbox \o <<Message(answer, t, TRUE), Message("started", t, TRUE)>>
  /\ UNCHANGED account

Answers(request) == IF request \in Refused THEN BOOLEAN ELSE {TRUE}

(* A turn nobody asked native for, begun from one of the same conversation *)
NativeWakes(t) ==
  /\ t \in Woken \ running /\ Len(inbox) < MaxInbox
  /\ \E u \in running : Host[u] = Host[t]
  /\ running' = running \cup {t}
  /\ Says(Message("started", t, FALSE))
  /\ UNCHANGED <<bridge, account, owed>>

NativeEnds(t) ==
  /\ t \in running /\ Len(inbox) < MaxInbox
  /\ running' = running \ {t}
  /\ \E ok \in BOOLEAN : Says(Message("completed", t, ok))
  /\ UNCHANGED <<bridge, account, owed>>

-----------------------------------------------------------------------------
(* The owner's messages *)

(* stopWaiting: a job of a waiter that is gone finds itself no longer its  *)
(* thread's.                                                               *)
Orphan(jobs, T) ==
  [i \in DOMAIN jobs |-> IF jobs[i].kind = "continue" /\ jobs[i].thread \in T
                         THEN [jobs[i] EXCEPT !.mine = FALSE] ELSE jobs[i]]

ClientTurn(t) ==
  /\ t \in Direct
  /\ waiters' = [waiters EXCEPT ![t] = "none"]
  /\ owed' = [owed EXCEPT ![t] = FALSE]
  /\ \/ /\ t \in active /\ Len(inbox) < MaxInbox
        /\ serial' = Orphan(serial, {t})
        /\ NativeTakes("owner", t, "appended")
     \/ /\ t \notin active /\ Len(serial) < MaxSerial
        /\ serial' = Append(Orphan(serial, {t}), Job("owner", t))
        /\ UNCHANGED native
  /\ UNCHANGED <<route, routing, active, reserved, known, stage>>

ClientCompact(t) ==
  /\ t \in Direct /\ Len(serial) < MaxSerial
  /\ serial' = Append(serial, Job("compact", t))
  /\ UNCHANGED <<route, routing, active, reserved, waiters, known, stage,
                 native, owed>>

-----------------------------------------------------------------------------
(* The promise queue *)

NextJob == serial' = Tail(serial) /\ stage' = "idle"
GiveUp(t) == waiters' = [waiters EXCEPT ![t] = "none"]

CheckConfig ==
  /\ stage' = "config"
  /\ \E ok \in Answers("config") : Says(Message("config", Head(serial).thread, ok))
  /\ UNCHANGED <<serial, waiters, running, account>>

(* dispatch, up to its first await *)
Dispatch ==
  LET job == Head(serial) IN
  /\ stage = "idle" /\ serial # <<>> /\ job.kind # "continue"
  /\ IF job.kind = "owner" /\ job.thread \in active
     THEN NativeTakes("owner", job.thread, "appended") /\ NextJob
          /\ UNCHANGED waiters
     ELSE CheckConfig
  /\ UNCHANGED <<route, routing, active, reserved, known, owed>>

(* resume, up to its first await *)
Resume ==
  LET job == Head(serial) IN
  /\ stage = "idle" /\ serial # <<>> /\ job.kind = "continue"
  /\ \/ /\ ~job.mine
        /\ NextJob /\ UNCHANGED <<waiters, native>>
     \/ /\ job.mine /\ job.thread \in active
        /\ NextJob /\ GiveUp(job.thread) /\ UNCHANGED native
     \/ /\ job.mine /\ job.thread \notin active
        /\ CheckConfig
  /\ UNCHANGED <<route, routing, active, reserved, known, owed>>

(* An admission abandons a background validation, but not its login.       *)
CanSelect == stage = "select" /\ routing.at # "login"

Select ==
  /\ CanSelect
  /\ routing' = Asking("admit")
  /\ stage' = "routing"
  /\ UNCHANGED <<route, active, reserved, waiters, known, serial, native, owed>>

(* Slip: the waiter is not looked at again after the validation. *)
AdmitUnlooked ==
  LET t == Head(serial).thread IN
  /\ stage = "admitted"
  /\ reserved' = [reserved EXCEPT ![t] = @ + 1]
  /\ IF Head(serial).kind = "continue"
     THEN /\ GiveUp(t)
          /\ stage' = "sent" /\ UNCHANGED serial
          /\ owed' = [owed EXCEPT ![t] = FALSE]
          /\ NativeTakes("continue", t, "continued")
     ELSE /\ NativeTakes(Head(serial).kind, t, "reply") /\ NextJob
          /\ UNCHANGED <<waiters, owed>>
  /\ UNCHANGED <<route, routing, active, known>>

(* dispatch and resume, after the account is settled.  A continue keeps    *)
(* the queue until native answers it.                                      *)
Admit ==
  LET job == Head(serial)
      t == job.thread
  IN
  /\ stage = "admitted"
  /\ \/ /\ job.kind # "continue"
        /\ reserved' = [reserved EXCEPT ![t] = @ + 1]
        /\ NativeTakes(job.kind, t, "reply") /\ NextJob
        /\ UNCHANGED <<waiters, owed>>
     \/ /\ job.kind = "continue" /\ job.mine
        /\ GiveUp(t)
        /\ reserved' = [reserved EXCEPT ![t] = @ + 1]
        /\ NativeTakes("continue", t, "continued")
        /\ stage' = "sent" /\ UNCHANGED serial
        /\ owed' = [owed EXCEPT ![t] = FALSE]
     \/ /\ job.kind = "continue" /\ ~job.mine
        /\ NextJob
        /\ UNCHANGED <<reserved, waiters, native, owed>>
  /\ UNCHANGED <<route, routing, active, known>>

Fail ==
  LET job == Head(serial) IN
  /\ stage \in {"refused", "deferred"}
  /\ waiters' = IF job.kind = "continue" /\ job.mine
                THEN [waiters EXCEPT ![job.thread] =
                        IF stage = "deferred" THEN "held" ELSE "none"]
                ELSE waiters
  /\ NextJob
  /\ UNCHANGED <<route, routing, active, reserved, known, native, owed>>

-----------------------------------------------------------------------------
(* Account selection *)

(* observe: a publication or a quota notification *)
Observe ==
  /\ Working /\ routing = Free
  /\ routing' = Asking("observe")
  /\ UNCHANGED <<route, active, reserved, waiters, known, serial, stage,
                 native, owed>>

Settle(outcome) ==
  /\ routing' = Free
  /\ stage' = IF routing.by = "admit" THEN outcome ELSE stage

BrokerFails ==
  /\ routing.at = "ask"
  /\ Settle("refused")
  /\ UNCHANGED <<route, active, reserved, waiters, known, serial, native, owed>>

Login(a) ==
  /\ routing' = Applying(routing.by, a)
  /\ \E ok \in Answers("login") :
       /\ Says(Message("login", AnyThread, ok))
       /\ account' = IF ok THEN a ELSE account
  /\ UNCHANGED <<stage, running>>

(* Slip: only an admission asks what is running. *)
BrokerAnswersUnchecked(a) ==
  /\ routing.at = "ask"
  /\ \/ a = route /\ Settle("admitted") /\ UNCHANGED native
     \/ a # route /\ Working /\ routing.by = "admit" /\ Settle("deferred")
        /\ UNCHANGED native
     \/ a # route /\ (~Working \/ routing.by = "observe") /\ Login(a)
  /\ UNCHANGED <<route, active, reserved, waiters, known, serial, owed>>

(* selectNow, after the broker has answered: what runs now decides. *)
BrokerAnswers(a) ==
  /\ routing.at = "ask"
  /\ \/ a = route /\ Settle("admitted") /\ UNCHANGED native
     \/ a # route /\ Working /\ Settle("deferred") /\ UNCHANGED native
     \/ a # route /\ ~Working /\ Login(a)
  /\ UNCHANGED <<route, active, reserved, waiters, known, serial, owed>>

-----------------------------------------------------------------------------
(* The waiter program, external *)

WaiterReady(t) ==
  /\ waiters[t] \in {"asked", "again"} /\ Len(serial) < MaxSerial
  /\ waiters' = [waiters EXCEPT ![t] = "due"]
  /\ serial' = Append(serial, Job("continue", t))
  /\ UNCHANGED <<route, routing, active, reserved, known, stage, native, owed>>

WaiterStandsDown(t) ==
  /\ waiters[t] \in {"asked", "again"}
  /\ GiveUp(t)
  /\ UNCHANGED <<route, routing, active, reserved, known, serial, stage,
                 native, owed>>

-----------------------------------------------------------------------------
(* What native says.  A reply to a request of the bridge's own settles it  *)
(* and nothing else; every other message also lets held continues go on.   *)

Hear(what) == inbox # <<>> /\ Head(inbox).what = what

Drained(waiting, threads, admissions) ==
  [t \in Threads |->
     IF waiting[t] = "held" /\ threads = {} /\ \A u \in Threads : admissions[u] = 0
     THEN "again" ELSE waiting[t]]

HearConfig ==
  /\ Hear("config") /\ stage = "config"
  /\ stage' = IF Head(inbox).ok THEN "select" ELSE "refused"
  /\ inbox' = Tail(inbox)
  /\ UNCHANGED <<route, routing, active, reserved, waiters, known, serial,
                 running, account, owed>>

HearLogin ==
  /\ Hear("login")
  /\ route' = IF Head(inbox).ok THEN routing.to ELSE NoAccount
  /\ Settle(IF Head(inbox).ok THEN "admitted" ELSE "refused")
  /\ inbox' = Tail(inbox)
  /\ UNCHANGED <<active, reserved, waiters, known, serial, running, account, owed>>

HearContinued ==
  /\ Hear("continued")
  /\ reserved' = [reserved EXCEPT ![Head(inbox).thread] = @ - 1]
  /\ NextJob
  /\ inbox' = Tail(inbox)
  /\ UNCHANGED <<route, routing, active, waiters, known, running, account, owed>>

(* Reservations go by the request's id: an appended message has none. *)
HearReply ==
  /\ Hear("reply") \/ Hear("appended")
  /\ reserved' = IF Hear("reply")
                 THEN [reserved EXCEPT ![Head(inbox).thread] = @ - 1]
                 ELSE reserved
  /\ waiters' = Drained(waiters, active, reserved')
  /\ inbox' = Tail(inbox)
  /\ UNCHANGED <<route, routing, active, known, serial, stage, running, account, owed>>

HearStarted ==
  /\ Hear("started")
  /\ active' = active \cup {Head(inbox).thread}
  /\ inbox' = Tail(inbox)
  /\ UNCHANGED <<route, routing, reserved, waiters, known, serial, stage,
                 running, account, owed>>

(* wait: whom to watch for when the turn of thread t hit the limit, the    *)
(* turns of `threads` going on                                             *)
Watched(t, threads) ==
  {h \in {Host[t]} :
     /\ h # t => waiters[h] = "none" /\ h \notin threads
     /\ waiters[h] \notin Due}

(* watch, for the first time: it ends the thread's other waiter. *)
Watching(watched) == [t \in Threads |-> IF t \in watched THEN "asked" ELSE waiters[t]]

Watch(watched) ==
  /\ serial' = Orphan(serial, watched)
  /\ owed' = [t \in Threads |-> t \in watched \/ owed[t]]

(* learn, when the sub-agent is one the bridge has not heard of *)
Learn(t, limited) ==
  IF limited /\ t \notin known
  THEN \E ok \in Answers("read") :
         inbox' = Append(Tail(inbox), Message("learned", t, ok))
  ELSE inbox' = Tail(inbox)

(* Slip: a held continue is left for the next message. *)
HearCompletedUndrained ==
  LET t == Head(inbox).thread
      limited == ~Head(inbox).ok /\ route # NoAccount
      watched == IF limited /\ t \in known THEN Watched(t, active \ {t}) ELSE {}
  IN
  /\ Hear("completed")
  /\ active' = active \ {t}
  /\ Watch(watched) /\ waiters' = Watching(watched)
  /\ Learn(t, limited)
  /\ UNCHANGED <<route, routing, reserved, known, stage, running, account>>

(* Native reports the turns of a thread in order, so the id that the code  *)
(* compares is always that of the turn it holds active.                    *)
HearCompleted ==
  LET t == Head(inbox).thread
      limited == ~Head(inbox).ok /\ route # NoAccount
      watched == IF limited /\ t \in known THEN Watched(t, active \ {t}) ELSE {}
  IN
  /\ Hear("completed")
  /\ active' = active \ {t}
  /\ Watch(watched) /\ waiters' = Drained(Watching(watched), active', reserved)
  /\ Learn(t, limited)
  /\ UNCHANGED <<route, routing, reserved, known, stage, running, account>>

(* learn's answer, and the wait that was put off for it *)
HearLearned ==
  LET t == Head(inbox).thread
      watched == IF Head(inbox).ok THEN Watched(t, active) ELSE {}
  IN
  /\ Hear("learned")
  /\ known' = IF Head(inbox).ok THEN known \cup {t} ELSE known
  /\ Watch(watched) /\ waiters' = Watching(watched)
  /\ inbox' = Tail(inbox)
  /\ UNCHANGED <<route, routing, active, reserved, stage, running, account>>

-----------------------------------------------------------------------------
(* A promise that is ready: no event is looked at before it. *)
Ready ==
  \/ stage = "idle" /\ serial # <<>>
  \/ stage \in {"admitted", "refused", "deferred"}
  \/ CanSelect

Continuation == Dispatch \/ Resume \/ Select \/ Admit \/ Fail

Event ==
  \/ \E t \in Threads : ClientTurn(t) \/ ClientCompact(t)
  \/ \E t \in Threads : WaiterReady(t) \/ WaiterStandsDown(t)
  \/ \E t \in Threads : NativeWakes(t) \/ NativeEnds(t)
  \/ Observe \/ BrokerFails \/ \E a \in Accounts : BrokerAnswers(a)
  \/ HearConfig \/ HearLogin \/ HearContinued \/ HearReply
  \/ HearStarted \/ HearCompleted \/ HearLearned

Next == Continuation \/ (~Ready /\ Event)

Spec == Init /\ [][Next]_vars

-----------------------------------------------------------------------------
(* Properties *)

(* Every variable keeps its type; a reservation is given up only once.     *)
TypeOK ==
  /\ route \in Accounts \cup {NoAccount} /\ account \in Accounts
  /\ routing \in [by : {"none", "observe", "admit"}, at : {"none", "ask", "login"},
                  to : Accounts \cup {NoAccount}]
  /\ active \subseteq Threads /\ running \subseteq Threads /\ known \subseteq Threads
  /\ reserved \in [Threads -> Nat]
  /\ waiters \in [Threads -> {"none", "asked"} \cup Due]
  /\ serial \in Seq([kind : {"owner", "compact", "continue"}, thread : Threads,
                     mine : BOOLEAN])
  /\ stage \in {"idle", "config", "select", "routing", "admitted", "refused",
                "deferred", "sent"}
  /\ inbox \in Seq([what : {"config", "login", "continued", "reply", "appended",
                            "started", "completed", "learned"},
                    thread : Threads, ok : BOOLEAN])
  /\ owed \in [Threads -> BOOLEAN]

(* The bridge has no way to know of a turn of t yet: its announcement is   *)
(* still on its way, behind or itself that of a turn native was asked for, *)
(* and no answer is on its way that would give up a reservation.           *)
Unannounced(t) ==
  /\ \E i \in DOMAIN inbox :
       /\ inbox[i].what = "started" /\ inbox[i].thread = t
       /\ \E j \in 1..i : inbox[j].what = "started" /\ inbox[j].ok
  /\ \A i \in DOMAIN inbox : inbox[i].what \notin {"reply", "continued"}

(* Native's account is never changed under a turn that is going on, of a   *)
(* conversation or of a sub-agent, however the broker's answer, a          *)
(* background validation and the owner's message interleave: the check     *)
(* after the answer (selectNow) sees every such turn but one native has    *)
(* answered for, or was not asked for by name, and not announced.          *)
AccountKept ==
  [][account' # account => \A t \in running : Unannounced(t)]_vars

(* A continue is sent only for a failure the bridge has not answered, and  *)
(* the owner has not: at most once for each, and never after the owner     *)
(* wrote, at whichever await of resume that was.                           *)
ContinueOwed ==
  [][stage' = "sent" /\ stage # "sent" => owed[Head(serial).thread]]_vars

(* A held continue always has something to wait for: whatever it was held  *)
(* for, something will still be heard of that lets it go on (drained).     *)
HeldHasWork ==
  (\E t \in Threads : waiters[t] = "held") => Working \/ inbox # <<>>

(* 'a continue is never sent into running work': as the bridge knows it.   *)
ContinueIntoIdle ==
  [][stage' = "sent" /\ stage # "sent" => Head(serial).thread \notin active]_vars
=============================================================================
