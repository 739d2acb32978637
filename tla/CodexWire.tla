----------------------------- MODULE CodexWire -----------------------------
(***************************************************************************)
(* One read of one Codex home (native/src/codex_read.rs, process.rs): the  *)
(* program Codex ships is started in it, asked up to four questions, and   *)
(* stopped.                                                                *)
(*                                                                         *)
(* Four act at once: the one that asks; a thread that reads what the       *)
(* program prints and hands it on; the program, which may print anything   *)
(* at any time, or nothing, or leave; and someone else who wants the same  *)
(* home.  One clock runs for all the questions.                            *)
(***************************************************************************)
EXTENDS CodexProgram

CONSTANTS
  Plans,         \* which questions a read asks, by their numbers
  Patience,      \* how long a read may take
  Grace,         \* how long the program has to leave by itself
  Room,          \* lines the channel holds
  MaxOdd         \* bound: how often the program prints what it should not

ASSUME WireAssumption ==
  /\ {Patience, Grace, Room} \subseteq Nat \ {0}
  /\ Plans \subseteq Seq(1 .. 4) \ {<<>>}

VARIABLES
  lock,      \* who holds the lock of the home
  asks,      \* the questions of this read
  pc,        \* where the read is
  next,      \* which of the questions it asks
  left,      \* the time it has left
  answers,   \* what it was answered so far
  outcome,   \* what came of it
  program,   \* whether it runs, runs with its input and output closed, or has gone
  printed,   \* the line it has printed and nobody has read
  odd,       \* how often it printed what it should not
  reader,    \* the thread that reads its lines
  inHand,      \* the line the thread has in hand
  heard,     \* the channel
  receiver,  \* whether someone receives from it
  grace      \* the time the program has left to leave

read == <<asks, answers, outcome>>
thread == <<reader, inHand>>
wire == <<lock, read, pc, next, left, program, printed, odd, thread, heard, receiver, grace>>

(* Lines: an answer, right or refused or without a result; a notice; and    *)
(* what no answer can be.  A result names the question it is for.           *)
Silence == [text |-> "none"]
TooLong == [text |-> "too long"]
Broken == [text |-> "broken"]
Answer(id, error, result) == [text |-> "message", id |-> id, error |-> error, result |-> result]
Notice == Answer(0, "", <<>>)
Right(id) == {Answer(id, "", <<id, kind>>) : kind \in IF id = 2 THEN {"subscription", "key"} ELSE {"plain"}}
Wrong(id) == {Answer(id, "403", <<>>), Answer(id, "", <<>>)}

Still ==
  /\ next = 1 /\ answers = <<>> /\ program = "none" /\ printed = Silence /\ odd = 0
  /\ reader = "none" /\ inHand = Silence /\ heard = <<>> /\ receiver = FALSE /\ grace = Grace

WireInit ==
  /\ lock \in {"free", "other"} /\ asks \in Plans
  /\ pc = "start" /\ left = Patience /\ outcome = "" /\ Still

(* A read that came to nothing, long ago. *)
WireOver ==
  /\ lock = "free" /\ asks = <<>>
  /\ pc = "done" /\ left = 0 /\ outcome = "home_missing" /\ Still

Question == asks[next]
Alive == program \in {"running", "shut"}

-----------------------------------------------------------------------------
(* The one that asks *)

(* read_home_as: a home that is missing or busy is said before a program    *)
(* that is.                                                                 *)
BeginRead ==
  /\ pc = "start"
  /\ \/ pc' = "done" /\ outcome' = "home_missing" /\ UNCHANGED lock
     \/ lock # "free" /\ pc' = "done" /\ outcome' = "home_busy" /\ UNCHANGED lock
     \/ lock = "free" /\ lock' = "ours" /\ pc' = "locked" /\ UNCHANGED outcome
  /\ UNCHANGED <<asks, answers, next, left, program, printed, odd, thread, heard, receiver, grace>>

Start ==
  /\ pc = "locked"
  /\ \/ /\ \E name \in {"codex_missing", "transport_failed"} : outcome' = name
        /\ pc' = "unlock" /\ UNCHANGED <<program, reader, receiver>>
     \/ /\ program' = "running" /\ reader' = "reads" /\ receiver' = TRUE
        /\ pc' = "ask" /\ UNCHANGED outcome
  /\ UNCHANGED <<lock, asks, answers, next, left, printed, odd, inHand, heard, grace>>

(* The wire goes first, and with it the program's input, which is how it is *)
(* told to leave.                                                           *)
End(name) == pc' = "stop" /\ outcome' = name /\ receiver' = FALSE /\ heard' = <<>>

(* Wire.say: a program that has closed its input has gone. *)
Ask ==
  /\ pc = "ask"
  /\ IF program # "running" THEN End("process_exited")
     ELSE pc' = "hear" /\ UNCHANGED <<outcome, receiver, heard>>
  /\ UNCHANGED <<lock, asks, answers, next, left, program, printed, odd, thread, grace>>

(* conversation: each answer in its turn.  A key is not a subscription.     *)
Take(result) ==
  /\ answers' = Append(answers, result)
  /\ IF result = <<2, "key">> THEN End("subscription_login_required") /\ UNCHANGED next
     ELSE IF next = Len(asks) THEN End("account") /\ UNCHANGED next
     ELSE /\ pc' = "ask" /\ next' = next + 1 /\ heard' = Tail(heard)
          /\ UNCHANGED <<outcome, receiver>>

(* Slip: every line is waited for as long as the whole read may take.       *)
Rearmed(time) == Patience

(* Every question shares the time that is left. *)
Shared(time) == time

(* Wire.ask: what is heard is for the question, or is passed over. *)
Hear ==
  /\ pc = "hear" /\ left > 0 /\ heard # <<>> /\ left' = Shared(left)
  /\ IF Head(heard) = TooLong THEN End("response_too_large") /\ UNCHANGED <<answers, next>>
     ELSE LET said == Said(Head(heard), Question) IN
       \/ /\ said.says = "nothing" /\ heard' = Tail(heard)
          /\ UNCHANGED <<pc, answers, next, outcome, receiver>>
       \/ said.says = "failed" /\ End(said.name) /\ UNCHANGED <<answers, next>>
       \/ said.says = "result" /\ Take(said.result)
  /\ UNCHANGED <<lock, asks, program, printed, odd, thread, grace>>

(* There is no more time, or nothing more to hear. *)
StopHearing ==
  /\ pc = "hear"
  /\ \/ left = 0 /\ End("timeout")
     \/ left > 0 /\ heard = <<>> /\ reader = "ended" /\ End("process_exited")
  /\ UNCHANGED <<lock, asks, answers, next, left, program, printed, odd, thread, grace>>

(* Slip: a program that was told to leave is taken to have left. *)
ToldToLeave == TRUE

(* process.rs stop: it has left, or its time to leave is over and it is     *)
(* ended.                                                                   *)
Leaves == ~ Alive \/ grace = 0

Stop ==
  /\ pc = "stop" /\ Leaves
  /\ pc' = "unlock" /\ program' = IF grace = 0 THEN "gone" ELSE program
  /\ UNCHANGED <<lock, read, next, left, printed, odd, thread, heard, receiver, grace>>

Unlock ==
  /\ pc = "unlock" /\ pc' = "done" /\ lock' = "free"
  /\ UNCHANGED <<read, next, left, program, printed, odd, thread, heard, receiver, grace>>

-----------------------------------------------------------------------------
(* The thread that reads *)

ReadLine ==
  /\ reader = "reads" /\ inHand = Silence
  /\ \/ printed # Silence /\ inHand' = printed /\ printed' = Silence /\ UNCHANGED reader
     \/ printed = Silence /\ program \in {"shut", "gone"} /\ reader' = "ended" /\ UNCHANGED <<inHand, printed>>
  /\ UNCHANGED <<lock, read, pc, next, left, program, odd, heard, receiver, grace>>

(* A full channel is waited for; nothing is read after a line too long, or  *)
(* when nobody receives.                                                    *)
HandOn ==
  /\ inHand # Silence /\ inHand' = Silence
  /\ \/ ~ receiver /\ reader' = "ended" /\ UNCHANGED heard
     \/ /\ receiver /\ Len(heard) < Room /\ heard' = Append(heard, inHand)
        /\ reader' = IF inHand = TooLong THEN "ended" ELSE reader
  /\ UNCHANGED <<lock, read, pc, next, left, program, printed, odd, receiver, grace>>

-----------------------------------------------------------------------------
(* The program, time, and someone else *)

(* It answers what it is asked, refuses, answers again what it was asked    *)
(* before, notes something, or prints what nobody can read.                 *)
Prints ==
  /\ program = "running" /\ printed = Silence /\ pc \in {"ask", "hear", "stop"}
  /\ \/ printed' = Notice /\ UNCHANGED odd
     \/ pc = "hear" /\ printed' \in Right(Question) /\ UNCHANGED odd
     \/ /\ odd < MaxOdd /\ odd' = odd + 1
        /\ \/ printed' \in {Broken, TooLong}
           \/ \E i \in 1 .. next : printed' \in Right(asks[i]) \union Wrong(asks[i])
  /\ UNCHANGED <<lock, read, pc, next, left, program, thread, heard, receiver, grace>>

(* It may close what it reads and writes and live on. *)
Leave ==
  /\ Alive /\ \E state \in {"shut", "gone"} \ {program} : program' = state
  /\ UNCHANGED <<lock, read, pc, next, left, printed, odd, thread, heard, receiver, grace>>

Tick ==
  /\ \/ left > 0 /\ left' = left - 1 /\ UNCHANGED grace
     \/ pc = "stop" /\ grace > 0 /\ grace' = grace - 1 /\ UNCHANGED left
  /\ UNCHANGED <<lock, read, pc, next, program, printed, odd, thread, heard, receiver>>

(* Whoever starts Codex in a home holds its lock. *)
Other ==
  /\ \/ lock = "free" /\ lock' = "other"
     \/ lock = "other" /\ lock' = "free"
  /\ UNCHANGED <<read, pc, next, left, program, printed, odd, thread, heard, receiver, grace>>

ReadStep == BeginRead \/ Start \/ Ask \/ Hear \/ StopHearing \/ Stop \/ Unlock

WireNext == ReadStep \/ ReadLine \/ HandOn \/ Prints \/ Leave \/ Tick \/ Other

(* The system runs threads that can run, and time passes.  The program may  *)
(* do nothing for ever.                                                     *)
WireFairness ==
  WF_wire(ReadStep) /\ WF_wire(ReadLine) /\ WF_wire(HandOn) /\ WF_wire(Tick)

-----------------------------------------------------------------------------
(* Properties *)

(* codex_read.rs:304: an answer is taken for the question it answers and no *)
(* other, whatever the program prints and however late; and what is told    *)
(* of a read that failed is what happened.                                  *)
ToldTruly ==
  /\ \A i \in DOMAIN answers : answers[i][1] = asks[i]
  /\ outcome = "account" => Len(answers) = Len(asks) /\ <<2, "key">> \notin Range(answers)
  /\ outcome = "timeout" => left = 0
  /\ outcome = "process_exited" => program # "running"
  /\ outcome \in {"home_busy", "home_missing"} => program = "none"

(* codex_read.rs:486: Codex runs in a home only while its lock is held.     *)
LockedWhileRunning == Alive => lock = "ours"

(* codex_read.rs: what one read tells is the program's answer to that       *)
(* read's own questions, or what happened to it; and the lock of the home   *)
(* is kept for as long as its program can touch the home.                   *)
ReadTruly == ToldTruly /\ LockedWhileRunning

(* However much the program prints, and if it never answers, the read comes *)
(* to an end, and leaves no program, no thread and no lock behind.          *)
ReadEnds == (pc # "done") ~> (pc = "done" /\ ~ Alive /\ reader # "reads" /\ lock # "ours")

=============================================================================
