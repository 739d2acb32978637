------------------------- MODULE CodexBridgeProofs -------------------------
(***************************************************************************)
(* Proofs about the bridge, for any conversations and sub-agents, any      *)
(* accounts and any number of messages and jobs.                           *)
(***************************************************************************)
EXTENDS CodexBridge, FiniteSetTheorems, WellFoundedInduction, TLAPS

-----------------------------------------------------------------------------
(* What the bridge will come to know                                       *)

Begins(m, u) == m.what = "started" /\ m.thread = u
Completes(m, u) == m.what = "completed" /\ m.thread = u

(* Thread u is in a turn, as the bridge knows it once it has read the      *)
(* first i messages of q, A being the threads it was told of before.       *)
Live(u, q, A, i) ==
  \/ u \in A /\ \A j \in 1 .. i : ~ Completes(q[j], u)
  \/ \E k \in 1 .. i : Begins(q[k], u) /\ \A j \in (k + 1) .. i : ~ Completes(q[j], u)

Given(m, t) == m.what \in {"reply", "continued"} /\ m.thread = t

Replies(q, t) == {i \in 1 .. Len(q) : Given(q[i], t)}

-----------------------------------------------------------------------------
(* Inductive invariants *)

(* The answer to a continue comes while the queue waits for it, and once.  *)
Single(q, at) ==
  \A i \in 1 .. Len(q) : q[i].what = "continued" =>
    at = "sent" /\ \A j \in 1 .. Len(q) : q[j].what = "continued" => i = j

(* The queue of jobs and the validation that the first one waits for.      *)
StageInv ==
  /\ stage # "idle" => serial # <<>>
  /\ routing.by = "admit" => stage = "routing"
  /\ stage = "deferred" => Working
  /\ Single(inbox, stage)

(* What has been read and what is to be read tell together which turns are *)
(* going on; a turn nobody asked for is announced while another goes on;   *)
(* and each reservation has its answer coming.                             *)
Announced(q, A, R) ==
  /\ \A u \in Threads : u \in R <=> Live(u, q, A, Len(q))
  /\ \A i \in 1 .. Len(q) : q[i].what = "started" /\ ~ q[i].ok =>
       \E u \in Threads : Live(u, q, A, i - 1)

AnnounceInv == Announced(inbox, active, running)

Counts(r, q) == \A t \in Threads : r[t] = Cardinality(Replies(q, t))
CountInv == Counts(reserved, inbox)

(* Job p is a continue that its waiter stands behind and that has not been *)
(* sent.                                                                   *)
Standing(jobs, at, p) ==
  jobs[p].kind = "continue" /\ jobs[p].mine /\ ~ (p = 1 /\ at = "sent")

(* There is one such job for a waiter that is due and none for another.    *)
Backed(waiting, jobs, at) ==
  /\ \A p \in 1 .. Len(jobs) :
       Standing(jobs, at, p) => waiting[jobs[p].thread] = "due"
  /\ \A p, q \in 1 .. Len(jobs) :
       Standing(jobs, at, p) /\ Standing(jobs, at, q) /\ jobs[p].thread = jobs[q].thread
         => p = q

(* Every waiter is for a failure that has not been answered.               *)
WaiterInv ==
  /\ \A t \in Threads : waiters[t] # "none" => owed[t]
  /\ Backed(waiters, serial, stage)

(* The messages after which held continues may go on                       *)
Pending(q) ==
  \E i \in 1 .. Len(q) : q[i].what \in {"started", "completed", "reply", "appended"}

(* The answer to a continue finds a turn going on or comes before one.     *)
Followed(q, A) ==
  \A i \in 1 .. Len(q) : q[i].what = "continued" =>
    \/ \E u \in Threads : Live(u, q, A, i)
    \/ \E j \in (i + 1) .. Len(q) : q[j].what = "started"

Held == \E t \in Threads : waiters[t] = "held"

(* A held continue has something to wait for, and a continue that is being *)
(* sent leaves something for the others to wait for.                       *)
WaitsInv == Held => Working \/ Pending(inbox)
HeldInv == WaitsInv /\ Followed(inbox, active)

-----------------------------------------------------------------------------
(* Sequences *)

Messages == [what : {"config", "login", "continued", "reply", "appended",
                     "started", "completed", "learned"},
             thread : Threads, ok : BOOLEAN]
Jobs == [kind : {"owner", "compact", "continue"}, thread : Threads, mine : BOOLEAN]

LEMMA AppendFacts ==
  ASSUME NEW S, NEW q \in Seq(S), NEW m \in S
  PROVE  /\ Append(q, m) \in Seq(S) /\ Append(q, m) # <<>>
         /\ Len(Append(q, m)) = Len(q) + 1
         /\ \A i \in 1 .. Len(q) : Append(q, m)[i] = q[i]
         /\ Append(q, m)[Len(q) + 1] = m
OBVIOUS

LEMMA TailFacts ==
  ASSUME NEW S, NEW q \in Seq(S), q # <<>>
  PROVE  /\ Tail(q) \in Seq(S)
         /\ Len(Tail(q)) = Len(q) - 1 /\ Len(q) >= 1
         /\ \A i \in 1 .. Len(q) - 1 : Tail(q)[i] = q[i + 1]
         /\ Head(q) = q[1] /\ Head(q) \in S
OBVIOUS

LEMMA TwoAppended ==
  ASSUME NEW S, NEW q \in Seq(S), NEW m \in S, NEW n \in S
  PROVE  q \o <<m, n>> = Append(Append(q, m), n)
OBVIOUS

(* A job of a waiter that is gone stays where it is in the queue.          *)
LEMMA OrphanFacts ==
  ASSUME NEW jobs \in Seq(Jobs), NEW T
  PROVE  /\ Orphan(jobs, T) \in Seq(Jobs)
         /\ Len(Orphan(jobs, T)) = Len(jobs)
         /\ jobs # <<>> => Orphan(jobs, T) # <<>>
         /\ \A i \in 1 .. Len(jobs) :
              /\ Orphan(jobs, T)[i].kind = jobs[i].kind
              /\ Orphan(jobs, T)[i].thread = jobs[i].thread
              /\ Orphan(jobs, T)[i].mine <=>
                   (jobs[i].mine /\ ~ (jobs[i].kind = "continue" /\ jobs[i].thread \in T))
<1> DEFINE new(i) == IF jobs[i].kind = "continue" /\ jobs[i].thread \in T
                     THEN [jobs[i] EXCEPT !.mine = FALSE] ELSE jobs[i]
<1>1. DOMAIN jobs = 1 .. Len(jobs) /\ Len(jobs) \in Nat
  OBVIOUS
<1>2. ASSUME NEW i \in 1 .. Len(jobs)
      PROVE  /\ new(i) \in Jobs
             /\ new(i).kind = jobs[i].kind
             /\ new(i).thread = jobs[i].thread
             /\ new(i).mine <=> (jobs[i].mine /\ ~ (jobs[i].kind = "continue" /\ jobs[i].thread \in T))
  <2>1. jobs[i] \in Jobs
    OBVIOUS
  <2>2. CASE jobs[i].kind = "continue" /\ jobs[i].thread \in T
    <3>1. new(i) = [jobs[i] EXCEPT !.mine = FALSE]
      BY <2>2
    <3>2. /\ [jobs[i] EXCEPT !.mine = FALSE] \in Jobs
          /\ [jobs[i] EXCEPT !.mine = FALSE].kind = jobs[i].kind
          /\ [jobs[i] EXCEPT !.mine = FALSE].thread = jobs[i].thread
          /\ [jobs[i] EXCEPT !.mine = FALSE].mine = FALSE
      BY <2>1 DEF Jobs
    <3> HIDE DEF new
    <3>3. ~ new(i).mine
      BY <3>1, <3>2, Zenon
    <3>4. QED
      BY <2>2, <3>1, <3>2, <3>3, Zenon
  <2>3. CASE ~ (jobs[i].kind = "continue" /\ jobs[i].thread \in T)
    <3>1. new(i) = jobs[i]
      BY <2>3
    <3> HIDE DEF new
    <3>2. QED
      BY <2>1, <2>3, <3>1, Zenon
  <2>4. QED
    BY <2>2, <2>3
<1>3. Orphan(jobs, T) = [i \in 1 .. Len(jobs) |-> new(i)]
  BY <1>1 DEF Orphan
<1> HIDE DEF new
<1>4. Orphan(jobs, T) \in Seq(Jobs) /\ Len(Orphan(jobs, T)) = Len(jobs)
  BY <1>1, <1>2, <1>3
<1>5. jobs # <<>> => Orphan(jobs, T) # <<>>
  BY <1>4
<1>6. \A i \in 1 .. Len(jobs) : Orphan(jobs, T)[i] = new(i)
  BY <1>3
<1>7. QED
  BY <1>2, <1>4, <1>5, <1>6

-----------------------------------------------------------------------------
(* Answers on their way *)

LEMMA RepliesAre ==
  ASSUME NEW q \in Seq(Messages), NEW t
  PROVE  IsFiniteSet(Replies(q, t)) /\ Cardinality(Replies(q, t)) \in Nat
<1>1. IsFiniteSet(1 .. Len(q))
  BY FS_Interval
<1>2. Replies(q, t) \subseteq 1 .. Len(q)
  BY DEF Replies
<1>3. QED
  BY <1>1, <1>2, FS_Subset, FS_CardinalityType

LEMMA RepliesSaid ==
  ASSUME NEW q \in Seq(Messages), NEW m \in Messages, NEW t
  PROVE  Cardinality(Replies(Append(q, m), t)) =
           IF Given(m, t) THEN Cardinality(Replies(q, t)) + 1 ELSE Cardinality(Replies(q, t))
<1>1. Replies(Append(q, m), t) =
        IF Given(m, t) THEN Replies(q, t) \cup {Len(q) + 1} ELSE Replies(q, t)
  BY AppendFacts DEF Replies
<1>2. Len(q) + 1 \notin Replies(q, t)
  BY DEF Replies
<1>3. QED
  BY <1>1, <1>2, RepliesAre, FS_AddElement

LEMMA RepliesHeard ==
  ASSUME NEW q \in Seq(Messages), q # <<>>, NEW t
  PROVE  Cardinality(Replies(q, t)) =
           IF Given(Head(q), t) THEN Cardinality(Replies(Tail(q), t)) + 1
                                ELSE Cardinality(Replies(Tail(q), t))
<1> DEFINE rest == {i \in Replies(q, t) : i # 1}
           back == [i \in rest |-> i - 1]
<1>1. rest \subseteq Replies(q, t) /\ IsFiniteSet(rest)
  BY RepliesAre, FS_Subset
<1>2. \A i \in rest : i \in 2 .. Len(q) /\ Given(q[i], t)
  BY DEF Replies
<1>3. \A i \in rest : i - 1 \in Replies(Tail(q), t)
  BY <1>2, TailFacts DEF Replies
<1>4. \A k \in Replies(Tail(q), t) : k + 1 \in rest /\ k = (k + 1) - 1
  BY TailFacts DEF Replies
<1>5. back \in Bijection(rest, Replies(Tail(q), t))
  <2>1. back \in Injection(rest, Replies(Tail(q), t))
    BY <1>2, <1>3 DEF Injection, IsInjective
  <2>2. back \in Surjection(rest, Replies(Tail(q), t))
    BY <1>3, <1>4 DEF Surjection
  <2>3. QED
    BY <2>1, <2>2 DEF Bijection
<1>6. Cardinality(rest) = Cardinality(Replies(Tail(q), t))
  BY <1>1, <1>5, FS_Bijection DEF ExistsBijection
<1>7. Replies(q, t) = IF Given(Head(q), t) THEN rest \cup {1} ELSE rest
  BY TailFacts DEF Replies
<1>8. 1 \notin rest
  OBVIOUS
<1> HIDE DEF rest
<1>9. QED
  BY <1>1, <1>6, <1>7, <1>8, FS_AddElement

(* What a message adds to the count of reservations, and what the reading  *)
(* of one takes away.                                                      *)
LEMMA CountsSaid ==
  ASSUME NEW q \in Seq(Messages), NEW m \in Messages, NEW r, NEW s, Counts(r, q),
         \A t \in Threads : s[t] = IF Given(m, t) THEN r[t] + 1 ELSE r[t]
  PROVE  Counts(s, Append(q, m))
BY RepliesSaid DEF Counts

LEMMA CountsHeard ==
  ASSUME NEW q \in Seq(Messages), q # <<>>, NEW r, NEW s, Counts(r, q),
         \A t \in Threads : s[t] = IF Given(Head(q), t) THEN r[t] - 1 ELSE r[t]
  PROVE  /\ Counts(s, Tail(q))
         /\ \A t \in Threads : s[t] \in Nat
<1> SUFFICES ASSUME NEW t \in Threads
             PROVE  s[t] = Cardinality(Replies(Tail(q), t)) /\ s[t] \in Nat
  BY DEF Counts
<1>1. r[t] = Cardinality(Replies(q, t))
  BY DEF Counts
<1>2. Tail(q) \in Seq(Messages)
  BY TailFacts
<1>3. Cardinality(Replies(Tail(q), t)) \in Nat
  BY <1>2, RepliesAre
<1>4. QED
  BY <1>1, <1>3, RepliesHeard

LEMMA CountsType ==
  ASSUME NEW q \in Seq(Messages), NEW r \in [Threads -> Int], Counts(r, q)
  PROVE  r \in [Threads -> Nat]
BY RepliesAre DEF Counts

LEMMA SingleNone ==
  ASSUME NEW q \in Seq(Messages), NEW at, Single(q, at), at # "sent"
  PROVE  \A i \in 1 .. Len(q) : q[i].what # "continued"
BY DEF Single

LEMMA SingleSaid ==
  ASSUME NEW q \in Seq(Messages), NEW m \in Messages, NEW at, NEW then, Single(q, at),
         \/ m.what # "continued" /\ (at = "sent" => then = "sent")
         \/ at # "sent" /\ then = "sent"
  PROVE  Single(Append(q, m), then)
BY AppendFacts DEF Single

LEMMA SingleHeard ==
  ASSUME NEW q \in Seq(Messages), q # <<>>, NEW at, NEW then, Single(q, at),
         at = "sent" => then = "sent" \/ Head(q).what = "continued"
  PROVE  Single(Tail(q), then)
<1> SUFFICES ASSUME NEW i \in 1 .. Len(Tail(q)), Tail(q)[i].what = "continued"
             PROVE  then = "sent" /\ \A j \in 1 .. Len(Tail(q)) :
                                      Tail(q)[j].what = "continued" => i = j
  BY DEF Single
<1>1. q[i + 1].what = "continued" /\ i + 1 \in 1 .. Len(q) /\ 1 \in 1 .. Len(q)
  BY TailFacts
<1>2. at = "sent" /\ q[1].what # "continued"
  BY <1>1 DEF Single
<1>3. ASSUME NEW j \in 1 .. Len(Tail(q)), Tail(q)[j].what = "continued"
      PROVE  i = j
  <2>1. q[j + 1].what = "continued" /\ j + 1 \in 1 .. Len(q)
    BY <1>3, TailFacts
  <2>2. QED
    BY <1>1, <2>1 DEF Single
<1>4. QED
  BY <1>2, <1>3, TailFacts

-----------------------------------------------------------------------------
(* Types, the queue and the reservations                                   *)

TypeInv == TypeOK /\ StageInv /\ CountInv

LEMMA MessageType ==
  ASSUME NEW what \in {"config", "login", "continued", "reply", "appended",
                       "started", "completed", "learned"},
         NEW t \in Threads, NEW ok \in BOOLEAN
  PROVE  /\ Message(what, t, ok) \in Messages
         /\ Message(what, t, ok).what = what
         /\ Message(what, t, ok).thread = t
         /\ Message(what, t, ok).ok = ok
BY DEF Message, Messages

(* Native takes a request: it answers, and announces the turn it begins.   *)
LEMMA TakesEffect ==
  ASSUME TypeOK, NEW kind, NEW t \in Threads,
         NEW answer \in {"continued", "reply", "appended"},
         NativeTakes(kind, t, answer)
  PROVE  /\ account' = account /\ running' \subseteq Threads
         /\ inbox' \in Seq(Messages)
         /\ \/ /\ running' = running
               /\ \E ok \in BOOLEAN : inbox' = Append(inbox, Message(answer, t, ok))
            \/ /\ t \notin running /\ running' = running \cup {t}
               /\ inbox' = Append(Append(inbox, Message(answer, t, TRUE)),
                                  Message("started", t, TRUE))
<1> inbox \in Seq(Messages)
  BY DEF TypeOK, Messages
<1>1. CASE running' = running /\ inbox' = Append(inbox, Message(answer, t, FALSE))
  <2>1. Message(answer, t, FALSE) \in Messages
    BY MessageType
  <2>2. inbox' \in Seq(Messages)
    BY <1>1, <2>1, AppendFacts
  <2>3. QED
    BY <1>1, <2>2 DEF NativeTakes, TypeOK
<1>2. CASE running' = running /\ inbox' = Append(inbox, Message(answer, t, TRUE))
  <2>1. Message(answer, t, TRUE) \in Messages
    BY MessageType
  <2>2. inbox' \in Seq(Messages)
    BY <1>2, <2>1, AppendFacts
  <2>3. QED
    BY <1>2, <2>2 DEF NativeTakes, TypeOK
<1>3. CASE /\ t \notin running /\ running' = running \cup {t}
           /\ inbox' = inbox \o <<Message(answer, t, TRUE), Message("started", t, TRUE)>>
  <2>1. Message(answer, t, TRUE) \in Messages /\ Message("started", t, TRUE) \in Messages
    BY MessageType
  <2>2. Append(inbox, Message(answer, t, TRUE)) \in Seq(Messages)
    BY <2>1, AppendFacts
  <2> DEFINE first == Message(answer, t, TRUE)
             second == Message("started", t, TRUE)
  <2>3. inbox' = Append(Append(inbox, first), second)
    <3>1. inbox' = inbox \o <<first, second>>
      BY <1>3
    <3>2. first \in Messages /\ second \in Messages
      BY <2>1
    <3> HIDE DEF first, second
    <3>3. QED
      BY <3>1, <3>2, TwoAppended
  <2>4. inbox' \in Seq(Messages)
    BY <2>1, <2>2, <2>3, AppendFacts
  <2>5. QED
    BY <1>3, <2>3, <2>4 DEF NativeTakes, TypeOK
<1>4. QED
  BY <1>1, <1>2, <1>3 DEF NativeTakes, Says

(* The count and the one answer, for the three things that happen to the   *)
(* messages: a request is taken, another message comes, one is read.       *)
LEMMA TakesCounted ==
  ASSUME TypeInv, NEW kind, NEW t \in Threads,
         NEW answer \in {"continued", "reply", "appended"},
         NativeTakes(kind, t, answer),
         reserved' = IF answer = "appended" THEN reserved
                     ELSE [reserved EXCEPT ![t] = @ + 1],
         NEW then,
         \/ answer # "continued" /\ (stage = "sent" => then = "sent")
         \/ stage # "sent" /\ then = "sent"
  PROVE  /\ reserved' \in [Threads -> Nat] /\ inbox' \in Seq(Messages)
         /\ CountInv' /\ Single(inbox', then)
<1> inbox \in Seq(Messages) /\ reserved \in [Threads -> Nat]
  BY DEF TypeInv, TypeOK, Messages
<1>1. reserved' \in [Threads -> Nat]
  OBVIOUS
<1>2. ASSUME NEW ok \in BOOLEAN
      PROVE  LET q == Append(inbox, Message(answer, t, ok)) IN
             q \in Seq(Messages) /\ Counts(reserved', q) /\ Single(q, then)
  <2> DEFINE m == Message(answer, t, ok)
  <2>1. m \in Messages /\ m.what = answer /\ m.thread = t
    BY MessageType
  <2>2. \A u \in Threads :
          reserved'[u] = IF Given(m, u) THEN reserved[u] + 1 ELSE reserved[u]
    <3>1. \A u \in Threads : Given(m, u) <=> answer # "appended" /\ u = t
      BY <2>1 DEF Given
    <3> HIDE DEF m
    <3>2. QED
      BY <3>1
  <2> HIDE DEF m
  <2>3. Append(inbox, m) \in Seq(Messages)
    BY <2>1, AppendFacts
  <2>4. Counts(reserved', Append(inbox, m))
    BY <2>1, <2>2, CountsSaid DEF TypeInv, CountInv
  <2>5. Single(Append(inbox, m), then)
    BY <2>1, SingleSaid DEF TypeInv, StageInv
  <2>6. QED
    BY <2>3, <2>4, <2>5 DEF m
<1>3. CASE \E ok \in BOOLEAN : inbox' = Append(inbox, Message(answer, t, ok))
  BY <1>1, <1>2, <1>3 DEF CountInv
<1>4. CASE inbox' = Append(Append(inbox, Message(answer, t, TRUE)), Message("started", t, TRUE))
  <2> DEFINE q == Append(inbox, Message(answer, t, TRUE))
             m == Message("started", t, TRUE)
  <2>1. q \in Seq(Messages) /\ Counts(reserved', q) /\ Single(q, then)
    BY <1>2
  <2>2. m \in Messages /\ m.what = "started"
    BY MessageType
  <2>3. inbox' = Append(q, m)
    BY <1>4
  <2> HIDE DEF q, m
  <2>4. \A u \in Threads : ~ Given(m, u)
    BY <2>2 DEF Given
  <2>5. Counts(reserved', Append(q, m))
    BY <2>1, <2>2, <2>4, CountsSaid
  <2>6. Single(Append(q, m), then)
    BY <2>1, <2>2, SingleSaid
  <2>7. QED
    BY <1>1, <2>1, <2>2, <2>3, <2>5, <2>6, AppendFacts DEF CountInv
<1>5. QED
  BY <1>3, <1>4, TakesEffect DEF TypeInv

LEMMA SaysCounted ==
  ASSUME TypeInv, NEW m \in Messages, m.what \notin {"continued", "reply"},
         inbox' = Append(inbox, m), reserved' = reserved,
         NEW then, stage = "sent" => then = "sent"
  PROVE  inbox' \in Seq(Messages) /\ CountInv' /\ Single(inbox', then)
<1> inbox \in Seq(Messages)
  BY DEF TypeInv, TypeOK, Messages
<1>1. \A u \in Threads : ~ Given(m, u)
  BY DEF Given
<1>2. Counts(reserved', Append(inbox, m))
  BY <1>1, CountsSaid DEF TypeInv, CountInv
<1>3. Single(Append(inbox, m), then)
  BY SingleSaid DEF TypeInv, StageInv
<1>4. QED
  BY <1>2, <1>3, AppendFacts DEF CountInv

LEMMA HeardCounted ==
  ASSUME TypeInv, inbox # <<>>,
         reserved' = IF Head(inbox).what \in {"reply", "continued"}
                     THEN [reserved EXCEPT ![Head(inbox).thread] = @ - 1]
                     ELSE reserved,
         NEW then, stage = "sent" => then = "sent" \/ Head(inbox).what = "continued"
  PROVE  /\ reserved' \in [Threads -> Nat] /\ Tail(inbox) \in Seq(Messages)
         /\ Counts(reserved', Tail(inbox)) /\ Single(Tail(inbox), then)
<1> inbox \in Seq(Messages) /\ reserved \in [Threads -> Nat]
  BY DEF TypeInv, TypeOK, Messages
<1>1. Head(inbox) \in Messages /\ Head(inbox).thread \in Threads
  <2>1. Head(inbox) \in Messages
    BY TailFacts
  <2>2. QED
    BY <2>1 DEF Messages
<1>2. \A u \in Threads :
        reserved'[u] = IF Given(Head(inbox), u) THEN reserved[u] - 1 ELSE reserved[u]
  BY <1>1 DEF Given
<1>3. /\ Counts(reserved', Tail(inbox))
      /\ \A u \in Threads : reserved'[u] \in Nat
  BY <1>2, CountsHeard DEF TypeInv, CountInv
<1>4. DOMAIN reserved' = Threads /\ reserved' = [u \in Threads |-> reserved'[u]]
  OBVIOUS
<1>5. reserved' \in [Threads -> Nat]
  BY <1>3, <1>4
<1>6. Single(Tail(inbox), then)
  BY SingleHeard DEF TypeInv, StageInv
<1>7. QED
  BY <1>3, <1>5, <1>6, TailFacts

LEMMA InitTyped == ConstantsAssumption /\ Init => TypeInv
<1> SUFFICES ASSUME ConstantsAssumption, Init PROVE TypeInv
  OBVIOUS
<1>1. TypeOK
  BY DEF Init, TypeOK, Free, Direct, ConstantsAssumption
<1>2. StageInv
  BY DEF Init, StageInv, Single, Free
<1>3. CountInv
  <2>1. \A t \in Threads : Replies(<<>>, t) = {}
    BY DEF Replies
  <2>2. QED
    BY <2>1, FS_EmptySet DEF Init, CountInv, Counts
<1>4. QED
  BY <1>1, <1>2, <1>3 DEF TypeInv

LEMMA ClientTurnTyped == ASSUME TypeInv, ~ Ready, NEW t \in Threads, ClientTurn(t) PROVE TypeInv'
<1> serial \in Seq(Jobs) /\ inbox \in Seq(Messages)
  BY DEF TypeInv, TypeOK, Jobs, Messages
<1>1. /\ waiters' \in [Threads -> {"none", "asked"} \cup Due] /\ owed' \in [Threads -> BOOLEAN]
      /\ <<route, routing, active, reserved, known, stage>>' =
           <<route, routing, active, reserved, known, stage>>
  BY DEF ClientTurn, TypeInv, TypeOK
<1>2. /\ Orphan(serial, {t}) \in Seq(Jobs)
      /\ serial # <<>> => Orphan(serial, {t}) # <<>>
  BY OrphanFacts
<1>3. CASE serial' = Orphan(serial, {t}) /\ NativeTakes("owner", t, "appended")
  <2>1. inbox' \in Seq(Messages) /\ CountInv' /\ Single(inbox', stage)
    BY <1>1, <1>3, TakesCounted
  <2>2. account' = account /\ running' \subseteq Threads
    BY <1>3, TakesEffect DEF TypeInv
  <2>3. TypeOK'
    BY <1>1, <1>2, <1>3, <2>1, <2>2 DEF TypeInv, TypeOK, Jobs, Messages
  <2>4. StageInv'
    BY <1>1, <1>2, <1>3, <2>1 DEF TypeInv, StageInv, Working
  <2>5. QED
    BY <2>1, <2>3, <2>4 DEF TypeInv
<1>4. CASE serial' = Append(Orphan(serial, {t}), Job("owner", t)) /\ UNCHANGED native
  <2>1. Job("owner", t) \in Jobs
    BY DEF Job, Jobs
  <2>2. serial' \in Seq(Jobs) /\ serial' # <<>>
    BY <1>2, <1>4, <2>1, AppendFacts
  <2>3. TypeOK'
    BY <1>1, <1>4, <2>2 DEF TypeInv, TypeOK, Jobs, Messages, native
  <2>4. StageInv'
    BY <1>1, <1>4, <2>2 DEF TypeInv, StageInv, Working, native
  <2>5. CountInv'
    BY <1>1, <1>4 DEF TypeInv, CountInv, native
  <2>6. QED
    BY <2>3, <2>4, <2>5 DEF TypeInv
<1>5. QED
  BY <1>3, <1>4 DEF ClientTurn

LEMMA JobsAdded ==
  ASSUME TypeInv, NEW j \in Jobs, serial' = Append(serial, j),
         waiters' \in [Threads -> {"none", "asked"} \cup Due],
         UNCHANGED <<route, routing, active, reserved, known, stage, native, owed>>
  PROVE  TypeInv'
<1>1. serial \in Seq(Jobs)
  BY DEF TypeInv, TypeOK, Jobs
<1>2. serial' \in Seq(Jobs) /\ serial' # <<>>
  BY <1>1, AppendFacts
<1>3. TypeOK'
  BY <1>2 DEF TypeInv, TypeOK, Jobs, native
<1>4. StageInv'
  BY <1>2 DEF TypeInv, StageInv, Working, native
<1>5. CountInv'
  BY DEF TypeInv, CountInv, native
<1>6. QED
  BY <1>3, <1>4, <1>5 DEF TypeInv

LEMMA ClientCompactTyped == ASSUME TypeInv, NEW t \in Threads, ClientCompact(t) PROVE TypeInv'
<1>1. Job("compact", t) \in Jobs
  BY DEF Job, Jobs
<1>2. waiters' \in [Threads -> {"none", "asked"} \cup Due]
  BY DEF ClientCompact, TypeInv, TypeOK
<1>3. QED
  BY <1>1, <1>2, JobsAdded DEF ClientCompact

LEMMA WaiterReadyTyped == ASSUME TypeInv, NEW t \in Threads, WaiterReady(t) PROVE TypeInv'
<1>1. Job("continue", t) \in Jobs
  BY DEF Job, Jobs
<1>2. waiters' \in [Threads -> {"none", "asked"} \cup Due]
  BY DEF WaiterReady, TypeInv, TypeOK, Due
<1>3. QED
  BY <1>1, <1>2, JobsAdded DEF WaiterReady

LEMMA WaiterStandsDownTyped ==
  ASSUME TypeInv, NEW t \in Threads, WaiterStandsDown(t) PROVE TypeInv'
<1>1. TypeOK'
  BY DEF WaiterStandsDown, GiveUp, TypeInv, TypeOK, native
<1>2. StageInv'
  BY DEF WaiterStandsDown, TypeInv, StageInv, Working, native
<1>3. CountInv'
  BY DEF WaiterStandsDown, TypeInv, CountInv, native
<1>4. QED
  BY <1>1, <1>2, <1>3 DEF TypeInv

LEMMA CheckConfigTyped ==
  ASSUME TypeInv, serial # <<>>, stage = "idle", CheckConfig,
         UNCHANGED <<route, routing, active, reserved, known, owed>>
  PROVE  TypeInv'
<1>1. Head(serial).thread \in Threads
  <2>1. serial \in Seq(Jobs)
    BY DEF TypeInv, TypeOK, Jobs
  <2>2. Head(serial) \in Jobs
    BY <2>1, TailFacts
  <2>3. QED
    BY <2>2 DEF Jobs
<1>2. PICK ok \in BOOLEAN : inbox' = Append(inbox, Message("config", Head(serial).thread, ok))
  BY DEF CheckConfig, Answers, Says
<1>3. /\ Message("config", Head(serial).thread, ok) \in Messages
      /\ Message("config", Head(serial).thread, ok).what = "config"
  BY <1>1, MessageType
<1>4. /\ stage' = "config"
      /\ UNCHANGED <<serial, waiters, running, account>>
  BY DEF CheckConfig
<1>5. inbox' \in Seq(Messages) /\ CountInv' /\ Single(inbox', "config")
  BY <1>2, <1>3, SaysCounted
<1>6. TypeOK'
  BY <1>4, <1>5 DEF TypeInv, TypeOK, Messages
<1>7. StageInv'
  BY <1>4, <1>5 DEF TypeInv, StageInv
<1>8. QED
  BY <1>5, <1>6, <1>7 DEF TypeInv

LEMMA JobsType ==
  ASSUME TypeInv, serial # <<>>
  PROVE  /\ serial \in Seq(Jobs) /\ Tail(serial) \in Seq(Jobs)
         /\ Head(serial) \in Jobs /\ Head(serial).thread \in Threads
         /\ Head(serial).kind \in {"owner", "compact", "continue"}
         /\ Head(serial).mine \in BOOLEAN
         /\ Head(serial) = serial[1]
<1>1. serial \in Seq(Jobs)
  BY DEF TypeInv, TypeOK, Jobs
<1>2. Head(serial) \in Jobs /\ Tail(serial) \in Seq(Jobs) /\ Head(serial) = serial[1]
  BY <1>1, TailFacts
<1>3. QED
  BY <1>1, <1>2 DEF Jobs

LEMMA DispatchTyped == ASSUME TypeInv, Dispatch PROVE TypeInv'
<1> DEFINE t == Head(serial).thread
<1> USE DEF Dispatch
<1>1. t \in Threads /\ Tail(serial) \in Seq(Jobs)
  BY JobsType
<1>2. CASE NativeTakes("owner", t, "appended") /\ NextJob /\ UNCHANGED waiters
  <2>1. serial' = Tail(serial) /\ stage' = "idle"
    BY <1>2 DEF NextJob
  <2>2. inbox' \in Seq(Messages) /\ CountInv' /\ Single(inbox', "idle")
    BY <1>1, <1>2, TakesCounted
  <2>3. account' = account /\ running' \subseteq Threads
    BY <1>1, <1>2, TakesEffect DEF TypeInv
  <2>4. TypeOK'
    BY <1>1, <1>2, <2>1, <2>2, <2>3 DEF TypeInv, TypeOK, Jobs, Messages
  <2>5. StageInv'
    BY <2>1, <2>2 DEF TypeInv, StageInv
  <2>6. QED
    BY <2>2, <2>4, <2>5 DEF TypeInv
<1>3. CASE CheckConfig
  BY <1>3, CheckConfigTyped
<1>4. QED
  BY <1>2, <1>3

LEMMA ResumeTyped == ASSUME TypeInv, Resume PROVE TypeInv'
<1> DEFINE t == Head(serial).thread
<1> USE DEF Resume
<1>1. t \in Threads /\ Tail(serial) \in Seq(Jobs)
  BY JobsType
<1>2. CASE NextJob /\ (UNCHANGED waiters \/ GiveUp(t)) /\ UNCHANGED native
  <2>1. serial' = Tail(serial) /\ stage' = "idle"
    BY <1>2 DEF NextJob
  <2>2. TypeOK'
    BY <1>1, <1>2, <2>1 DEF TypeInv, TypeOK, Jobs, native, GiveUp
  <2>3. StageInv'
    BY <1>2, <2>1 DEF TypeInv, StageInv, Single, native
  <2>4. CountInv'
    BY <1>2 DEF TypeInv, CountInv, native
  <2>5. QED
    BY <2>2, <2>3, <2>4 DEF TypeInv
<1>3. CASE CheckConfig
  BY <1>3, CheckConfigTyped
<1>4. QED
  BY <1>2, <1>3

LEMMA SelectTyped == ASSUME TypeInv, Select PROVE TypeInv'
<1> USE DEF Select
<1>1. TypeOK'
  BY DEF TypeInv, TypeOK, native, Asking
<1>2. StageInv'
  BY DEF TypeInv, StageInv, Single, native, Asking, CanSelect
<1>3. CountInv'
  BY DEF TypeInv, CountInv, native
<1>4. QED
  BY <1>1, <1>2, <1>3 DEF TypeInv

LEMMA AdmitTyped == ASSUME TypeInv, Admit PROVE TypeInv'
<1> DEFINE t == Head(serial).thread
<1> USE DEF Admit
<1>1. serial # <<>> /\ stage = "admitted"
  BY DEF TypeInv, StageInv
<1>2. /\ t \in Threads /\ Tail(serial) \in Seq(Jobs)
      /\ Head(serial).kind \in {"owner", "compact", "continue"}
  BY <1>1, JobsType
<1>3. CASE /\ reserved' = [reserved EXCEPT ![t] = @ + 1]
           /\ NativeTakes(Head(serial).kind, t, "reply") /\ NextJob
           /\ UNCHANGED <<waiters, owed>>
  <2>1. serial' = Tail(serial) /\ stage' = "idle"
    BY <1>3 DEF NextJob
  <2>2. /\ reserved' \in [Threads -> Nat] /\ inbox' \in Seq(Messages)
        /\ CountInv' /\ Single(inbox', "idle")
    BY <1>1, <1>2, <1>3, TakesCounted
  <2>3. account' = account /\ running' \subseteq Threads
    BY <1>2, <1>3, TakesEffect DEF TypeInv
  <2>4. TypeOK'
    BY <1>2, <1>3, <2>1, <2>2, <2>3 DEF TypeInv, TypeOK, Jobs, Messages
  <2>5. StageInv'
    BY <1>1, <2>1, <2>2 DEF TypeInv, StageInv
  <2>6. QED
    BY <2>2, <2>4, <2>5 DEF TypeInv
<1>4. CASE /\ GiveUp(t)
           /\ reserved' = [reserved EXCEPT ![t] = @ + 1]
           /\ NativeTakes("continue", t, "continued")
           /\ stage' = "sent" /\ UNCHANGED serial
           /\ owed' = [owed EXCEPT ![t] = FALSE]
  <2>1. /\ reserved' \in [Threads -> Nat] /\ inbox' \in Seq(Messages)
        /\ CountInv' /\ Single(inbox', "sent")
    BY <1>1, <1>2, <1>4, TakesCounted
  <2>2. account' = account /\ running' \subseteq Threads
    BY <1>2, <1>4, TakesEffect DEF TypeInv
  <2>3. TypeOK'
    BY <1>2, <1>4, <2>1, <2>2 DEF TypeInv, TypeOK, Messages, GiveUp
  <2>4. StageInv'
    BY <1>1, <1>4, <2>1 DEF TypeInv, StageInv
  <2>5. QED
    BY <2>1, <2>3, <2>4 DEF TypeInv
<1>5. CASE NextJob /\ UNCHANGED <<reserved, waiters, native, owed>>
  <2>1. serial' = Tail(serial) /\ stage' = "idle"
    BY <1>5 DEF NextJob
  <2>2. TypeOK'
    BY <1>2, <1>5, <2>1 DEF TypeInv, TypeOK, Jobs, native
  <2>3. StageInv'
    BY <1>1, <1>5, <2>1 DEF TypeInv, StageInv, Single, native
  <2>4. CountInv'
    BY <1>5 DEF TypeInv, CountInv, native
  <2>5. QED
    BY <2>2, <2>3, <2>4 DEF TypeInv
<1>6. QED
  BY <1>3, <1>4, <1>5

LEMMA FailTyped == ASSUME TypeInv, Fail PROVE TypeInv'
<1> USE DEF Fail
<1>1. serial # <<>> /\ serial' = Tail(serial) /\ stage' = "idle"
  BY DEF TypeInv, StageInv, NextJob
<1>2. Head(serial).thread \in Threads /\ Tail(serial) \in Seq(Jobs)
  BY <1>1, JobsType
<1>3. waiters' \in [Threads -> {"none", "asked"} \cup Due]
  BY <1>2 DEF TypeInv, TypeOK, Due
<1>4. TypeOK'
  BY <1>1, <1>2, <1>3 DEF TypeInv, TypeOK, Jobs, native
<1>5. StageInv'
  BY <1>1 DEF TypeInv, StageInv, Single, native
<1>6. CountInv'
  BY DEF TypeInv, CountInv, native
<1>7. QED
  BY <1>4, <1>5, <1>6 DEF TypeInv

LEMMA ObserveTyped == ASSUME TypeInv, Observe PROVE TypeInv'
<1> USE DEF Observe
<1>1. TypeOK'
  BY DEF TypeInv, TypeOK, native, Asking
<1>2. StageInv'
  BY DEF TypeInv, StageInv, Single, native, Asking, Working
<1>3. CountInv'
  BY DEF TypeInv, CountInv, native
<1>4. QED
  BY <1>1, <1>2, <1>3 DEF TypeInv

LEMMA BrokerFailsTyped == ASSUME TypeInv, ~ Ready, BrokerFails PROVE TypeInv'
<1> USE DEF BrokerFails, Settle, Ready
<1>1. TypeOK'
  BY DEF TypeInv, TypeOK, native, Free
<1>2. StageInv'
  BY DEF TypeInv, StageInv, Single, native, Free
<1>3. CountInv'
  BY DEF TypeInv, CountInv, native
<1>4. QED
  BY <1>1, <1>2, <1>3 DEF TypeInv

LEMMA BrokerAnswersTyped ==
  ASSUME TypeInv, ConstantsAssumption, ~ Ready, NEW a \in Accounts, BrokerAnswers(a)
  PROVE  TypeInv'
<1> USE DEF BrokerAnswers
<1>1. ASSUME NEW outcome \in {"admitted", "deferred"}, Settle(outcome), UNCHANGED native,
             outcome = "deferred" => Working
      PROVE  TypeInv'
  <2>1. TypeOK'
    BY <1>1 DEF TypeInv, TypeOK, native, Free, Settle
  <2>2. StageInv'
    BY <1>1 DEF TypeInv, StageInv, Single, native, Free, Settle, Ready, Working
  <2>3. CountInv'
    BY <1>1 DEF TypeInv, CountInv, native
  <2>4. QED
    BY <2>1, <2>2, <2>3 DEF TypeInv
<1>2. CASE Login(a)
  <2>1. AnyThread \in Threads
    BY DEF AnyThread, ConstantsAssumption
  <2>2. PICK ok \in BOOLEAN :
          /\ inbox' = Append(inbox, Message("login", AnyThread, ok))
          /\ account' = IF ok THEN a ELSE account
    BY <1>2 DEF Login, Answers, Says
  <2>3. /\ Message("login", AnyThread, ok) \in Messages
        /\ Message("login", AnyThread, ok).what = "login"
    BY <2>1, MessageType
  <2>4. inbox' \in Seq(Messages) /\ CountInv' /\ Single(inbox', stage)
    BY <2>2, <2>3, SaysCounted
  <2>5. /\ routing' = Applying(routing.by, a)
        /\ UNCHANGED <<stage, running>>
    BY <1>2 DEF Login
  <2>6. TypeOK'
    BY <2>2, <2>4, <2>5 DEF TypeInv, TypeOK, Messages, Applying
  <2>7. StageInv'
    BY <2>4, <2>5 DEF TypeInv, StageInv, Applying, Working
  <2>8. QED
    BY <2>4, <2>6, <2>7 DEF TypeInv
<1>3. CASE Settle("admitted") /\ UNCHANGED native
  BY <1>1, <1>3
<1>4. CASE Working /\ Settle("deferred") /\ UNCHANGED native
  BY <1>1, <1>4
<1>5. QED
  BY <1>2, <1>3, <1>4

(* A turn that native begins or ends by itself *)
LEMMA NativeTyped ==
  ASSUME TypeInv, NEW t \in Threads, NativeWakes(t) \/ NativeEnds(t) PROVE TypeInv'
<1>1. PICK what \in {"started", "completed"}, ok \in BOOLEAN :
        inbox' = Append(inbox, Message(what, t, ok))
  BY DEF NativeWakes, NativeEnds, Says
<1>2. /\ Message(what, t, ok) \in Messages
      /\ Message(what, t, ok).what = what
  BY MessageType
<1>3. UNCHANGED <<bridge, account, owed>> /\ running' \subseteq Threads
  BY DEF NativeWakes, NativeEnds, TypeInv, TypeOK
<1>4. inbox' \in Seq(Messages) /\ CountInv' /\ Single(inbox', stage)
  BY <1>1, <1>2, <1>3, SaysCounted DEF bridge
<1>5. TypeOK'
  BY <1>3, <1>4 DEF TypeInv, TypeOK, Messages, bridge
<1>6. StageInv'
  BY <1>3, <1>4 DEF TypeInv, StageInv, bridge, Working
<1>7. QED
  BY <1>4, <1>5, <1>6 DEF TypeInv

LEMMA InboxType ==
  ASSUME TypeInv, inbox # <<>>
  PROVE  /\ inbox \in Seq(Messages) /\ Tail(inbox) \in Seq(Messages)
         /\ Head(inbox) \in Messages /\ Head(inbox).thread \in Threads
         /\ Head(inbox).ok \in BOOLEAN
         /\ Head(inbox) = inbox[1] /\ 1 \in 1 .. Len(inbox)
<1>1. inbox \in Seq(Messages)
  BY DEF TypeInv, TypeOK, Messages
<1>2. /\ Head(inbox) \in Messages /\ Tail(inbox) \in Seq(Messages)
      /\ Head(inbox) = inbox[1] /\ 1 \in 1 .. Len(inbox)
  BY <1>1, TailFacts
<1>3. QED
  BY <1>1, <1>2 DEF Messages

(* The answer to a continue finds the queue waiting for it.                *)
LEMMA ContinuedWhileSent ==
  ASSUME TypeInv, Hear("continued") PROVE stage = "sent" /\ serial # <<>>
BY InboxType DEF Hear, TypeInv, StageInv, Single

LEMMA HearConfigTyped == ASSUME TypeInv, HearConfig PROVE TypeInv'
<1> USE DEF HearConfig, Hear
<1>1. stage' \in {"select", "refused"} /\ stage = "config"
  OBVIOUS
<1>2. Tail(inbox) \in Seq(Messages) /\ Counts(reserved', Tail(inbox)) /\ Single(Tail(inbox), stage')
  BY HeardCounted
<1>3. TypeOK'
  BY <1>1, <1>2 DEF TypeInv, TypeOK, Messages
<1>4. StageInv'
  BY <1>1, <1>2 DEF TypeInv, StageInv
<1>5. QED
  BY <1>2, <1>3, <1>4 DEF TypeInv, CountInv

LEMMA HearLoginTyped == ASSUME TypeInv, ~ Ready, HearLogin PROVE TypeInv'
<1> USE DEF HearLogin, Hear
<1>1. /\ routing' = Free
      /\ stage' = IF routing.by = "admit"
                  THEN IF Head(inbox).ok THEN "admitted" ELSE "refused" ELSE stage
  BY DEF Settle
<1>2. stage = "sent" => stage' = "sent"
  BY <1>1 DEF TypeInv, StageInv
<1>3. Tail(inbox) \in Seq(Messages) /\ Counts(reserved', Tail(inbox)) /\ Single(Tail(inbox), stage')
  BY <1>2, HeardCounted
<1>4. TypeOK'
  BY <1>1, <1>3 DEF TypeInv, TypeOK, Messages, Free
<1>5. StageInv'
  BY <1>1, <1>3 DEF TypeInv, StageInv, Free, Ready
<1>6. QED
  BY <1>3, <1>4, <1>5 DEF TypeInv, CountInv

LEMMA HearContinuedTyped == ASSUME TypeInv, HearContinued PROVE TypeInv'
<1> USE DEF HearContinued
<1>1. stage = "sent" /\ serial # <<>>
  BY ContinuedWhileSent
<1>2. serial' = Tail(serial) /\ stage' = "idle" /\ Tail(serial) \in Seq(Jobs)
  BY <1>1, JobsType DEF NextJob
<1>3. /\ reserved' \in [Threads -> Nat] /\ Tail(inbox) \in Seq(Messages)
      /\ Counts(reserved', Tail(inbox)) /\ Single(Tail(inbox), "idle")
  BY HeardCounted DEF Hear
<1>4. TypeOK'
  BY <1>2, <1>3 DEF TypeInv, TypeOK, Jobs, Messages
<1>5. StageInv'
  BY <1>1, <1>2, <1>3 DEF TypeInv, StageInv
<1>6. QED
  BY <1>3, <1>4, <1>5 DEF TypeInv, CountInv

LEMMA DrainedType ==
  ASSUME NEW waiting \in [Threads -> {"none", "asked"} \cup Due], NEW threads, NEW admissions
  PROVE  Drained(waiting, threads, admissions) \in [Threads -> {"none", "asked"} \cup Due]
BY DEF Drained, Due

LEMMA HearReplyNat == ASSUME TypeInv, HearReply PROVE reserved' \in [Threads -> Nat]
<1>1. reserved' = IF Head(inbox).what \in {"reply", "continued"}
                  THEN [reserved EXCEPT ![Head(inbox).thread] = @ - 1]
                  ELSE reserved
  BY DEF HearReply, Hear
<1>2. inbox # <<>>
  BY DEF HearReply, Hear
<1>3. QED
  BY <1>1, <1>2, HeardCounted

LEMMA HearReplyTyped == ASSUME TypeInv, ~ Ready, HearReply PROVE TypeInv'
<1> USE DEF HearReply
<1>1. inbox # <<>>
  BY DEF Hear
<1>2. reserved' = IF Head(inbox).what \in {"reply", "continued"}
                  THEN [reserved EXCEPT ![Head(inbox).thread] = @ - 1]
                  ELSE reserved
  BY DEF Hear
<1>3. /\ reserved' \in [Threads -> Nat] /\ Tail(inbox) \in Seq(Messages)
      /\ Counts(reserved', Tail(inbox)) /\ Single(Tail(inbox), stage)
  BY <1>1, <1>2, HeardCounted
<1>4. waiters' \in [Threads -> {"none", "asked"} \cup Due]
  BY DrainedType DEF TypeInv, TypeOK
<1>5. TypeOK'
  BY <1>3, <1>4 DEF TypeInv, TypeOK, Messages
<1>6. StageInv'
  BY <1>3 DEF TypeInv, StageInv, Ready
<1>7. QED
  BY <1>3, <1>5, <1>6 DEF TypeInv, CountInv

LEMMA HearStartedTyped == ASSUME TypeInv, ~ Ready, HearStarted PROVE TypeInv'
<1> USE DEF HearStarted, Hear
<1>1. Head(inbox).thread \in Threads
  BY InboxType
<1>2. Tail(inbox) \in Seq(Messages) /\ Counts(reserved', Tail(inbox)) /\ Single(Tail(inbox), stage)
  BY HeardCounted
<1>3. TypeOK'
  BY <1>1, <1>2 DEF TypeInv, TypeOK, Messages
<1>4. StageInv'
  BY <1>2 DEF TypeInv, StageInv, Ready
<1>5. QED
  BY <1>2, <1>3, <1>4 DEF TypeInv, CountInv

LEMMA WatchTyped ==
  ASSUME TypeInv, NEW watched, Watch(watched)
  PROVE  /\ serial' \in Seq(Jobs) /\ (serial # <<>> => serial' # <<>>)
         /\ owed' \in [Threads -> BOOLEAN]
         /\ Watching(watched) \in [Threads -> {"none", "asked"} \cup Due]
<1>1. serial \in Seq(Jobs)
  BY DEF TypeInv, TypeOK, Jobs
<1>2. serial' \in Seq(Jobs) /\ (serial # <<>> => serial' # <<>>)
  BY <1>1, OrphanFacts DEF Watch
<1>3. Watching(watched) \in [Threads -> {"none", "asked"} \cup Due]
  BY DEF Watching, TypeInv, TypeOK
<1>4. owed' \in [Threads -> BOOLEAN]
  BY DEF Watch, TypeInv, TypeOK
<1>5. QED
  BY <1>2, <1>3, <1>4

LEMMA HearCompletedTyped == ASSUME TypeInv, ~ Ready, HearCompleted PROVE TypeInv'
<1> DEFINE t == Head(inbox).thread
           limited == ~ Head(inbox).ok /\ route # NoAccount
           watched == IF limited /\ t \in known THEN Watched(t, active \ {t}) ELSE {}
<1>1. /\ Hear("completed") /\ active' = active \ {t}
      /\ Watch(watched) /\ waiters' = Drained(Watching(watched), active', reserved)
      /\ Learn(t, limited)
      /\ UNCHANGED <<route, routing, reserved, known, stage, running, account>>
  BY DEF HearCompleted
<1>2. t \in Threads /\ inbox # <<>> /\ Head(inbox).what = "completed"
  BY <1>1, InboxType DEF Hear
<1> HIDE DEF watched, limited
<1>3. /\ serial' \in Seq(Jobs) /\ (serial # <<>> => serial' # <<>>)
      /\ owed' \in [Threads -> BOOLEAN]
      /\ waiters' \in [Threads -> {"none", "asked"} \cup Due]
  BY <1>1, WatchTyped, DrainedType
<1>4. /\ Tail(inbox) \in Seq(Messages) /\ Counts(reserved', Tail(inbox))
      /\ Single(Tail(inbox), stage)
  BY <1>1, <1>2, HeardCounted
<1>5. inbox' \in Seq(Messages) /\ Counts(reserved', inbox') /\ Single(inbox', stage)
  <2>1. CASE inbox' = Tail(inbox)
    BY <1>4, <2>1
  <2>2. CASE \E ok \in BOOLEAN : inbox' = Append(Tail(inbox), Message("learned", t, ok))
    <3>1. PICK ok \in BOOLEAN : inbox' = Append(Tail(inbox), Message("learned", t, ok))
      BY <2>2
    <3> DEFINE m == Message("learned", t, ok)
    <3>2. m \in Messages /\ m.what = "learned"
      BY <1>2, MessageType
    <3>3. inbox' = Append(Tail(inbox), m)
      BY <3>1
    <3> HIDE DEF m
    <3>4. \A u \in Threads : ~ Given(m, u)
      BY <3>2 DEF Given
    <3>5. Counts(reserved', Append(Tail(inbox), m))
      BY <1>4, <3>2, <3>4, CountsSaid
    <3>6. Single(Append(Tail(inbox), m), stage)
      BY <1>4, <3>2, SingleSaid
    <3>7. QED
      BY <1>4, <3>2, <3>3, <3>5, <3>6, AppendFacts
  <2>3. QED
    BY <1>1, <2>1, <2>2 DEF Learn, Answers
<1>6. TypeOK'
  BY <1>1, <1>3, <1>5 DEF TypeInv, TypeOK, Jobs, Messages
<1>7. StageInv'
  BY <1>1, <1>3, <1>5 DEF TypeInv, StageInv, Ready
<1>8. QED
  BY <1>5, <1>6, <1>7 DEF TypeInv, CountInv

LEMMA HearLearnedTyped == ASSUME TypeInv, ~ Ready, HearLearned PROVE TypeInv'
<1> DEFINE t == Head(inbox).thread
           watched == IF Head(inbox).ok THEN Watched(t, active) ELSE {}
<1>1. /\ Hear("learned")
      /\ known' = IF Head(inbox).ok THEN known \cup {t} ELSE known
      /\ Watch(watched) /\ waiters' = Watching(watched)
      /\ inbox' = Tail(inbox)
      /\ UNCHANGED <<route, routing, active, reserved, stage, running, account>>
  BY DEF HearLearned
<1>2. t \in Threads /\ inbox # <<>> /\ Head(inbox).what = "learned"
  BY <1>1, InboxType DEF Hear
<1> HIDE DEF watched
<1>3. /\ serial' \in Seq(Jobs) /\ (serial # <<>> => serial' # <<>>)
      /\ owed' \in [Threads -> BOOLEAN]
      /\ waiters' \in [Threads -> {"none", "asked"} \cup Due]
  BY <1>1, WatchTyped
<1>4. /\ Tail(inbox) \in Seq(Messages) /\ Counts(reserved', Tail(inbox))
      /\ Single(Tail(inbox), stage)
  BY <1>1, <1>2, HeardCounted
<1>5. known' \subseteq Threads
  BY <1>1, <1>2 DEF TypeInv, TypeOK
<1>6. TypeOK'
  BY <1>1, <1>3, <1>4, <1>5 DEF TypeInv, TypeOK, Jobs, Messages
<1>7. StageInv'
  BY <1>1, <1>3, <1>4 DEF TypeInv, StageInv, Ready, Working
<1>8. QED
  BY <1>1, <1>4, <1>6, <1>7 DEF TypeInv, CountInv

LEMMA StepTyped == ConstantsAssumption /\ TypeInv /\ [Next]_vars => TypeInv'
<1> SUFFICES ASSUME ConstantsAssumption, TypeInv, [Next]_vars PROVE TypeInv'
  OBVIOUS
<1>1. CASE Continuation
  BY <1>1, DispatchTyped, ResumeTyped, SelectTyped, AdmitTyped, FailTyped DEF Continuation
<1>2. CASE ~ Ready /\ Event
  <2>1. CASE \E t \in Threads : ClientTurn(t) \/ ClientCompact(t)
    BY <1>2, <2>1, ClientTurnTyped, ClientCompactTyped
  <2>2. CASE \E t \in Threads : WaiterReady(t) \/ WaiterStandsDown(t)
    BY <1>2, <2>2, WaiterReadyTyped, WaiterStandsDownTyped
  <2>3. CASE \E t \in Threads : NativeWakes(t) \/ NativeEnds(t)
    BY <1>2, <2>3, NativeTyped
  <2>4. CASE Observe \/ BrokerFails \/ \E a \in Accounts : BrokerAnswers(a)
    BY <1>2, <2>4, ObserveTyped, BrokerFailsTyped, BrokerAnswersTyped
  <2>5. CASE HearConfig \/ HearLogin \/ HearContinued \/ HearReply
    BY <1>2, <2>5, HearConfigTyped, HearLoginTyped, HearContinuedTyped, HearReplyTyped
  <2>6. CASE HearStarted \/ HearCompleted \/ HearLearned
    BY <1>2, <2>6, HearStartedTyped, HearCompletedTyped, HearLearnedTyped
  <2>7. QED
    BY <1>2, <2>1, <2>2, <2>3, <2>4, <2>5, <2>6 DEF Event
<1>3. CASE UNCHANGED vars
  <2>1. TypeOK'
    BY <1>3 DEF TypeInv, TypeOK, vars, bridge, native
  <2>2. StageInv'
    BY <1>3 DEF TypeInv, StageInv, Single, Working, vars, bridge, native
  <2>3. CountInv'
    BY <1>3 DEF TypeInv, CountInv, vars, bridge, native
  <2>4. QED
    BY <2>1, <2>2, <2>3 DEF TypeInv
<1>4. QED
  BY <1>1, <1>2, <1>3 DEF Next

(* Every variable keeps its type: no answer gives a reservation up twice,  *)
(* and no step finds the queue of jobs empty that takes its first.         *)
THEOREM TypeCorrect == Spec => [](TypeOK /\ StageInv /\ CountInv)
<1>1. ConstantsAssumption
  BY ConstantsAssumption
<1>2. Spec => []TypeInv
  BY <1>1, InitTyped, StepTyped, PTL DEF Spec
<1>3. TypeInv => TypeOK /\ StageInv /\ CountInv
  BY DEF TypeInv
<1>4. QED
  BY <1>2, <1>3, PTL

-----------------------------------------------------------------------------
(* Continues and the waiters behind them                                   *)

States == {"none", "asked"} \cup Due

LEMMA JobThreads ==
  ASSUME NEW jobs \in Seq(Jobs) PROVE \A p \in 1 .. Len(jobs) : jobs[p].thread \in Threads
<1>1. \A p \in 1 .. Len(jobs) : jobs[p] \in Jobs
  OBVIOUS
<1>2. QED
  BY <1>1 DEF Jobs

(* A waiter that was not due may change, and the queue may go on with the  *)
(* first job.                                                              *)
LEMMA BackedSame ==
  ASSUME NEW jobs \in Seq(Jobs), NEW w, NEW x, NEW at, NEW then, Backed(w, jobs, at),
         \A t \in Threads : w[t] = "due" => x[t] = "due",
         at = "sent" => then = "sent"
  PROVE  Backed(x, jobs, then)
<1>1. \A p \in 1 .. Len(jobs) : jobs[p].thread \in Threads
  BY JobThreads
<1>2. QED
  BY <1>1 DEF Backed, Standing

LEMMA BackedAppended ==
  ASSUME NEW jobs \in Seq(Jobs), NEW j \in Jobs, j.kind # "continue",
         NEW w, NEW at, Backed(w, jobs, at)
  PROVE  Backed(w, Append(jobs, j), at)
<1> DEFINE new == Append(jobs, j)
<1>1. \A p \in 1 .. Len(new) : Standing(new, at, p) =>
        p \in 1 .. Len(jobs) /\ Standing(jobs, at, p) /\ new[p] = jobs[p]
  BY AppendFacts DEF Standing
<1> HIDE DEF new
<1>2. QED
  BY <1>1 DEF Backed, new

(* The waiter's own job comes in only when it has no other.                *)
LEMMA BackedDue ==
  ASSUME NEW jobs \in Seq(Jobs), NEW j \in Jobs, NEW at,
         NEW w \in [Threads -> States], Backed(w, jobs, at), w[j.thread] # "due"
  PROVE  Backed([w EXCEPT ![j.thread] = "due"], Append(jobs, j), at)
<1> DEFINE new == Append(jobs, j)
           due == [w EXCEPT ![j.thread] = "due"]
<1>1. \A p \in 1 .. Len(jobs) : jobs[p].thread \in Threads
  BY JobThreads
<1>2. j.thread \in Threads
  BY DEF Jobs
<1>3. \A t \in Threads : due[t] = IF t = j.thread THEN "due" ELSE w[t]
  BY <1>2
<1>4. \A p \in 1 .. Len(new) : Standing(new, at, p) =>
        \/ p = Len(jobs) + 1 /\ new[p] = j
        \/ p \in 1 .. Len(jobs) /\ Standing(jobs, at, p) /\ new[p] = jobs[p]
  BY AppendFacts DEF Standing
<1>5. \A p \in 1 .. Len(jobs) : Standing(jobs, at, p) => jobs[p].thread # j.thread
  BY DEF Backed
<1> HIDE DEF new, due
<1>6. \A p \in 1 .. Len(new) : Standing(new, at, p) => due[new[p].thread] = "due"
  BY <1>1, <1>2, <1>3, <1>4 DEF Backed
<1>7. \A p, q \in 1 .. Len(new) :
        Standing(new, at, p) /\ Standing(new, at, q) /\ new[p].thread = new[q].thread => p = q
  BY <1>4, <1>5 DEF Backed
<1>8. QED
  BY <1>6, <1>7 DEF Backed, new, due

LEMMA BackedOrphaned ==
  ASSUME NEW jobs \in Seq(Jobs), NEW T, NEW w, NEW x, NEW at, Backed(w, jobs, at),
         \A t \in Threads \ T : w[t] = "due" => x[t] = "due"
  PROVE  Backed(x, Orphan(jobs, T), at)
<1> DEFINE new == Orphan(jobs, T)
<1>1. \A p \in 1 .. Len(new) : Standing(new, at, p) =>
        /\ p \in 1 .. Len(jobs) /\ Standing(jobs, at, p)
        /\ new[p].thread = jobs[p].thread /\ jobs[p].thread \in Threads \ T
  <2>1. \A p \in 1 .. Len(jobs) : jobs[p].thread \in Threads
    BY JobThreads
  <2>2. QED
    BY <2>1, OrphanFacts DEF Standing
<1> HIDE DEF new
<1>2. QED
  BY <1>1 DEF Backed, new

(* The first job is done: its own waiter may go.                           *)
LEMMA BackedNext ==
  ASSUME NEW jobs \in Seq(Jobs), jobs # <<>>, NEW w, NEW x, NEW at, Backed(w, jobs, at),
         \A t \in Threads : w[t] = "due" =>
           \/ x[t] = "due"
           \/ t = jobs[1].thread /\ Standing(jobs, at, 1)
  PROVE  Backed(x, Tail(jobs), "idle")
<1> DEFINE new == Tail(jobs)
<1>1. \A p \in 1 .. Len(new) :
        /\ 1 \in 1 .. Len(jobs) /\ p + 1 \in 1 .. Len(jobs) /\ p + 1 # 1
        /\ new[p] = jobs[p + 1] /\ jobs[p + 1].thread \in Threads
  <2>1. \A p \in 1 .. Len(jobs) : jobs[p].thread \in Threads
    BY JobThreads
  <2>2. \A p \in 1 .. Len(new) :
          /\ 1 \in 1 .. Len(jobs) /\ p + 1 \in 1 .. Len(jobs) /\ p + 1 # 1
          /\ new[p] = jobs[p + 1]
    BY TailFacts
  <2>3. QED
    BY <2>1, <2>2
<1> HIDE DEF new
<1>2. \A p \in 1 .. Len(new) : Standing(new, "idle", p) => Standing(jobs, at, p + 1)
  BY <1>1 DEF Standing
<1>3. \A p \in 1 .. Len(new) : Standing(new, "idle", p) => x[new[p].thread] = "due"
  BY <1>1, <1>2 DEF Backed
<1>4. ASSUME NEW p \in 1 .. Len(new), NEW q \in 1 .. Len(new), Standing(new, "idle", p),
             Standing(new, "idle", q), new[p].thread = new[q].thread
      PROVE  p = q
  <2>1. p + 1 = q + 1
    BY <1>1, <1>2, <1>4 DEF Backed
  <2>2. QED
    BY <2>1
<1>5. QED
  BY <1>3, <1>4 DEF Backed, new

(* The first job is sent, and its waiter is gone.                          *)
LEMMA BackedSent ==
  ASSUME NEW jobs \in Seq(Jobs), jobs # <<>>, NEW w, NEW x, NEW at, Backed(w, jobs, at),
         Standing(jobs, at, 1),
         \A t \in Threads : w[t] = "due" => x[t] = "due" \/ t = jobs[1].thread
  PROVE  Backed(x, jobs, "sent")
<1>1. \A p \in 1 .. Len(jobs) : jobs[p].thread \in Threads /\ 1 \in 1 .. Len(jobs)
  BY JobThreads
<1>2. \A p \in 1 .. Len(jobs) : Standing(jobs, "sent", p) => Standing(jobs, at, p) /\ p # 1
  BY DEF Standing
<1>3. QED
  BY <1>1, <1>2 DEF Backed

LEMMA WaiterTypes ==
  ASSUME TypeInv
  PROVE  /\ waiters \in [Threads -> States] /\ owed \in [Threads -> BOOLEAN]
         /\ serial \in Seq(Jobs)
BY DEF TypeInv, TypeOK, States, Jobs

(* Steps that leave the jobs, the waiters and what is owed alone           *)
LEMMA WaiterStays ==
  ASSUME TypeInv, WaiterInv, UNCHANGED <<serial, waiters, owed>>,
         stage = "sent" => stage' = "sent"
  PROVE  WaiterInv'
BY WaiterTypes, BackedSame DEF WaiterInv

(* An event moves the queue on only for the admission it waited for.       *)
LEMMA SettleKeepsSent ==
  ASSUME TypeInv, NEW outcome, Settle(outcome), stage = "sent" PROVE stage' = "sent"
BY DEF Settle, TypeInv, StageInv

LEMMA DispatchWaits == ASSUME TypeInv, WaiterInv, Dispatch PROVE WaiterInv'
<1> USE DEF Dispatch
<1>1. CASE NextJob /\ UNCHANGED waiters
  <2>1. serial' = Tail(serial) /\ stage' = "idle" /\ serial \in Seq(Jobs)
    BY <1>1, WaiterTypes DEF NextJob
  <2>2. Backed(waiters', serial', stage')
    BY <1>1, <2>1, BackedNext DEF WaiterInv
  <2>3. QED
    BY <1>1, <2>2 DEF WaiterInv
<1>2. CASE CheckConfig
  BY <1>2, WaiterStays DEF CheckConfig
<1>3. QED
  BY <1>1, <1>2

LEMMA ResumeWaits == ASSUME TypeInv, WaiterInv, Resume PROVE WaiterInv'
<1> DEFINE job == Head(serial)
<1> USE DEF Resume
<1>1. serial # <<>> /\ stage = "idle" /\ job.kind = "continue"
  OBVIOUS
<1>2. /\ serial \in Seq(Jobs) /\ waiters \in [Threads -> States]
      /\ job = serial[1] /\ job.thread \in Threads
  BY <1>1, JobsType, WaiterTypes
<1>3. CASE NextJob /\ UNCHANGED waiters
  <2>1. Backed(waiters', serial', stage')
    BY <1>1, <1>2, <1>3, BackedNext DEF WaiterInv, NextJob
  <2>2. QED
    BY <1>3, <2>1 DEF WaiterInv
<1>4. CASE job.mine /\ NextJob /\ GiveUp(job.thread)
  <2>1. Standing(serial, stage, 1)
    BY <1>1, <1>2, <1>4 DEF Standing
  <2>2. \A t \in Threads : waiters'[t] = IF t = job.thread THEN "none" ELSE waiters[t]
    BY <1>2, <1>4 DEF GiveUp
  <2>3. Backed(waiters', serial', stage')
    BY <1>1, <1>2, <1>4, <2>1, <2>2, BackedNext DEF WaiterInv, NextJob
  <2>4. QED
    BY <2>2, <2>3 DEF WaiterInv
<1>5. CASE CheckConfig
  BY <1>5, WaiterStays DEF CheckConfig
<1>6. QED
  BY <1>3, <1>4, <1>5

LEMMA AdmitWaits == ASSUME TypeInv, WaiterInv, Admit PROVE WaiterInv'
<1> DEFINE job == Head(serial)
<1> USE DEF Admit
<1>1. serial # <<>> /\ stage = "admitted"
  BY DEF TypeInv, StageInv
<1>2. /\ serial \in Seq(Jobs) /\ waiters \in [Threads -> States]
      /\ owed \in [Threads -> BOOLEAN]
      /\ job = serial[1] /\ job.thread \in Threads
  BY <1>1, JobsType, WaiterTypes
<1>3. CASE NextJob /\ UNCHANGED <<waiters, owed>>
  <2>1. Backed(waiters', serial', stage')
    BY <1>1, <1>2, <1>3, BackedNext DEF WaiterInv, NextJob
  <2>2. QED
    BY <1>3, <2>1 DEF WaiterInv
<1>4. CASE /\ job.kind = "continue" /\ job.mine /\ GiveUp(job.thread)
           /\ stage' = "sent" /\ UNCHANGED serial
           /\ owed' = [owed EXCEPT ![job.thread] = FALSE]
  <2>1. Standing(serial, stage, 1)
    BY <1>1, <1>2, <1>4 DEF Standing
  <2>2. \A t \in Threads :
          /\ waiters'[t] = IF t = job.thread THEN "none" ELSE waiters[t]
          /\ t # job.thread => owed'[t] = owed[t]
    BY <1>2, <1>4 DEF GiveUp
  <2>3. Backed(waiters', serial', stage')
    <3>1. \A t \in Threads :
            waiters[t] = "due" => waiters'[t] = "due" \/ t = serial[1].thread
      BY <1>2, <2>2
    <3>2. Backed(waiters', serial, "sent")
      BY <1>1, <1>2, <2>1, <3>1, BackedSent DEF WaiterInv
    <3>3. QED
      BY <1>4, <3>2
  <2>4. QED
    BY <2>2, <2>3 DEF WaiterInv
<1>5. QED
  BY <1>3, <1>4

LEMMA FailWaits == ASSUME TypeInv, WaiterInv, Fail PROVE WaiterInv'
<1> DEFINE job == Head(serial)
<1> USE DEF Fail
<1>1. serial # <<>> /\ stage # "sent" /\ serial' = Tail(serial) /\ stage' = "idle"
  BY DEF TypeInv, StageInv, NextJob
<1>2. /\ serial \in Seq(Jobs) /\ waiters \in [Threads -> States]
      /\ job = serial[1] /\ job.thread \in Threads
  BY <1>1, JobsType, WaiterTypes
<1>3. CASE ~ (job.kind = "continue" /\ job.mine)
  <2>1. waiters' = waiters
    BY <1>3
  <2>2. Backed(waiters', serial', stage')
    BY <1>1, <1>2, <2>1, BackedNext DEF WaiterInv
  <2>3. QED
    BY <2>1, <2>2 DEF WaiterInv
<1>4. CASE job.kind = "continue" /\ job.mine
  <2>1. Standing(serial, stage, 1)
    BY <1>1, <1>2, <1>4 DEF Standing
  <2>2. \A t \in Threads : t # job.thread => waiters'[t] = waiters[t]
    BY <1>2, <1>4
  <2>3. Backed(waiters', serial', stage')
    <3>1. \A t \in Threads : waiters[t] = "due" =>
            waiters'[t] = "due" \/ (t = serial[1].thread /\ Standing(serial, stage, 1))
      BY <1>2, <2>1, <2>2
    <3>2. Backed(waiters', Tail(serial), "idle")
      BY <1>1, <1>2, <3>1, BackedNext DEF WaiterInv
    <3>3. QED
      BY <1>1, <3>2
  <2>4. owed[job.thread]
    <3>1. 1 \in 1 .. Len(serial)
      BY <1>1, <1>2
    <3>2. waiters[job.thread] = "due"
      BY <1>2, <2>1, <3>1 DEF WaiterInv, Backed
    <3>3. QED
      BY <1>2, <3>2 DEF WaiterInv
  <2>5. QED
    BY <2>2, <2>3, <2>4 DEF WaiterInv
<1>5. QED
  BY <1>3, <1>4

LEMMA ClientWaits ==
  ASSUME TypeInv, WaiterInv, NEW t \in Threads, ClientTurn(t) \/ ClientCompact(t)
  PROVE  WaiterInv'
<1>1. /\ serial \in Seq(Jobs) /\ waiters \in [Threads -> States]
      /\ owed \in [Threads -> BOOLEAN]
  BY WaiterTypes
<1>2. CASE ClientTurn(t)
  <2> DEFINE left == Orphan(serial, {t})
  <2>1. /\ stage' = stage /\ waiters' = [waiters EXCEPT ![t] = "none"]
        /\ owed' = [owed EXCEPT ![t] = FALSE]
        /\ serial' = left \/ serial' = Append(left, Job("owner", t))
    BY <1>2 DEF ClientTurn
  <2>2. \A u \in Threads : /\ waiters'[u] = IF u = t THEN "none" ELSE waiters[u]
                           /\ u # t => owed'[u] = owed[u]
    BY <1>1, <2>1
  <2>3. left \in Seq(Jobs) /\ Backed(waiters', left, stage)
    BY <1>1, <2>2, OrphanFacts, BackedOrphaned DEF WaiterInv
  <2> DEFINE new == Job("owner", t)
  <2>4. /\ new \in Jobs /\ new.kind # "continue"
        /\ serial' = left \/ serial' = Append(left, new)
    BY <2>1 DEF Job, Jobs
  <2> HIDE DEF left, new
  <2>5. Backed(waiters', serial', stage')
    BY <2>1, <2>3, <2>4, BackedAppended
  <2>6. QED
    BY <2>2, <2>5 DEF WaiterInv
<1>3. CASE ClientCompact(t)
  <2>1. /\ serial' = Append(serial, Job("compact", t))
        /\ UNCHANGED <<stage, waiters, owed>>
    BY <1>3 DEF ClientCompact
  <2> DEFINE new == Job("compact", t)
  <2>2. /\ new \in Jobs /\ new.kind # "continue"
        /\ serial' = Append(serial, new)
    BY <2>1 DEF Job, Jobs
  <2> HIDE DEF new
  <2>3. Backed(waiters', serial', stage')
    BY <1>1, <2>1, <2>2, BackedAppended DEF WaiterInv
  <2>4. QED
    BY <2>1, <2>3 DEF WaiterInv
<1>4. QED
  BY <1>2, <1>3

LEMMA WaiterWaits ==
  ASSUME TypeInv, WaiterInv, NEW t \in Threads, WaiterReady(t) \/ WaiterStandsDown(t)
  PROVE  WaiterInv'
<1>1. /\ serial \in Seq(Jobs) /\ waiters \in [Threads -> States]
      /\ UNCHANGED <<stage, owed>> /\ waiters[t] \in {"asked", "again"}
  BY WaiterTypes DEF WaiterReady, WaiterStandsDown
<1>2. CASE WaiterReady(t)
  <2>1. /\ serial' = Append(serial, Job("continue", t))
        /\ waiters' = [waiters EXCEPT ![t] = "due"]
    BY <1>2 DEF WaiterReady
  <2> DEFINE new == Job("continue", t)
  <2>2. /\ new \in Jobs /\ serial' = Append(serial, new)
        /\ waiters' = [waiters EXCEPT ![new.thread] = "due"]
        /\ waiters[new.thread] # "due"
    <3>1. new \in Jobs /\ new.thread = t
      BY DEF Job, Jobs
    <3> HIDE DEF new
    <3>2. QED
      BY <1>1, <2>1, <3>1 DEF new
  <2> HIDE DEF new
  <2>3. Backed(waiters', serial', stage')
    <3>1. Backed([waiters EXCEPT ![new.thread] = "due"], Append(serial, new), stage)
      BY <1>1, <2>2, BackedDue DEF WaiterInv
    <3>2. QED
      BY <1>1, <2>2, <3>1
  <2>4. QED
    BY <1>1, <2>1, <2>3 DEF WaiterInv
<1>3. CASE WaiterStandsDown(t)
  <2>1. serial' = serial /\ waiters' = [waiters EXCEPT ![t] = "none"]
    BY <1>3 DEF WaiterStandsDown, GiveUp
  <2>2. \A u \in Threads : waiters'[u] = IF u = t THEN "none" ELSE waiters[u]
    BY <1>1, <2>1
  <2>3. Backed(waiters', serial', stage')
    BY <1>1, <2>1, <2>2, BackedSame DEF WaiterInv
  <2>4. QED
    BY <1>1, <2>2, <2>3 DEF WaiterInv
<1>4. QED
  BY <1>2, <1>3

LEMMA BrokerWaits ==
  ASSUME TypeInv, WaiterInv,
         Select \/ Observe \/ BrokerFails \/ HearConfig \/ HearLogin \/ HearStarted
           \/ (\E a \in Accounts : BrokerAnswers(a))
           \/ (\E t \in Threads : NativeWakes(t) \/ NativeEnds(t))
  PROVE  WaiterInv'
<1>1. CASE Select \/ Observe \/ HearConfig \/ HearStarted
  BY <1>1, WaiterStays DEF Select, CanSelect, Observe, HearConfig, HearStarted
<1>2. CASE BrokerFails \/ HearLogin
  <2>1. UNCHANGED <<serial, waiters, owed>> /\ \E outcome : Settle(outcome)
    BY <1>2 DEF BrokerFails, HearLogin
  <2>2. QED
    BY <2>1, SettleKeepsSent, WaiterStays
<1>3. CASE \E a \in Accounts : BrokerAnswers(a)
  <2>1. UNCHANGED <<serial, waiters, owed>> /\ (stage' = stage \/ \E outcome : Settle(outcome))
    BY <1>3 DEF BrokerAnswers, Login
  <2>2. QED
    BY <2>1, SettleKeepsSent, WaiterStays
<1>4. CASE \E t \in Threads : NativeWakes(t) \/ NativeEnds(t)
  BY <1>4, WaiterStays DEF NativeWakes, NativeEnds, bridge
<1>5. QED
  BY <1>1, <1>2, <1>3, <1>4

LEMMA HearContinuedWaits == ASSUME TypeInv, WaiterInv, HearContinued PROVE WaiterInv'
<1>1. serial # <<>> /\ serial \in Seq(Jobs)
  BY ContinuedWhileSent, WaiterTypes DEF HearContinued
<1>2. serial' = Tail(serial) /\ stage' = "idle" /\ UNCHANGED <<waiters, owed>>
  BY DEF HearContinued, NextJob
<1>3. Backed(waiters', serial', stage')
  BY <1>1, <1>2, BackedNext DEF WaiterInv
<1>4. QED
  BY <1>2, <1>3 DEF WaiterInv

LEMMA DrainedKeeps ==
  ASSUME NEW w \in [Threads -> States], NEW threads, NEW admissions, NEW t \in Threads
  PROVE  /\ w[t] = "due" => Drained(w, threads, admissions)[t] = "due"
         /\ Drained(w, threads, admissions)[t] # "none" => w[t] # "none"
         /\ Drained(w, threads, admissions)[t] = "held" => w[t] = "held"
BY DEF Drained

LEMMA HearReplyWaits == ASSUME TypeInv, WaiterInv, HearReply PROVE WaiterInv'
<1>1. serial \in Seq(Jobs) /\ waiters \in [Threads -> States]
  BY WaiterTypes
<1>2. UNCHANGED <<serial, stage, owed>> /\ waiters' = Drained(waiters, active, reserved')
  BY DEF HearReply
<1>3. Backed(waiters', serial', stage')
  BY <1>1, <1>2, DrainedKeeps, BackedSame DEF WaiterInv
<1>4. QED
  BY <1>1, <1>2, <1>3, DrainedKeeps DEF WaiterInv

(* A waiter is made for a failed turn.                                     *)
LEMMA WatchWaits ==
  ASSUME TypeInv, WaiterInv, NEW watched, Watch(watched), stage' = stage,
         waiters' = Watching(watched)
           \/ \E threads, admissions : waiters' = Drained(Watching(watched), threads, admissions)
  PROVE  WaiterInv'
<1>1. /\ serial \in Seq(Jobs) /\ waiters \in [Threads -> States]
      /\ serial' = Orphan(serial, watched)
  BY WaiterTypes DEF Watch
<1>2. /\ Watching(watched) \in [Threads -> States]
      /\ \A t \in Threads : /\ t \notin watched => Watching(watched)[t] = waiters[t]
                            /\ owed'[t] <=> t \in watched \/ owed[t]
  BY <1>1 DEF Watching, Watch, States
<1>3. \A t \in Threads : /\ waiters'[t] # "none" => Watching(watched)[t] # "none"
                         /\ Watching(watched)[t] = "due" => waiters'[t] = "due"
  BY <1>2, DrainedKeeps
<1>4. Backed(waiters', serial', stage')
  BY <1>1, <1>2, <1>3, BackedOrphaned DEF WaiterInv
<1>5. QED
  BY <1>2, <1>3, <1>4 DEF WaiterInv

LEMMA StepWaits == TypeInv /\ WaiterInv /\ [Next]_vars => WaiterInv'
<1> SUFFICES ASSUME TypeInv, WaiterInv, [Next]_vars PROVE WaiterInv'
  OBVIOUS
<1>1. CASE Continuation
  BY <1>1, DispatchWaits, ResumeWaits, AdmitWaits, FailWaits, BrokerWaits DEF Continuation
<1>2. CASE Event
  <2>1. CASE \E t \in Threads : ClientTurn(t) \/ ClientCompact(t)
    BY <2>1, ClientWaits
  <2>2. CASE \E t \in Threads : WaiterReady(t) \/ WaiterStandsDown(t)
    BY <2>2, WaiterWaits
  <2>3. CASE \/ Observe \/ BrokerFails \/ HearConfig \/ HearLogin \/ HearStarted
             \/ \E a \in Accounts : BrokerAnswers(a)
             \/ \E t \in Threads : NativeWakes(t) \/ NativeEnds(t)
    BY <2>3, BrokerWaits
  <2>4. CASE HearContinued \/ HearReply
    BY <2>4, HearContinuedWaits, HearReplyWaits
  <2>5. CASE HearCompleted \/ HearLearned
    BY <2>5, WatchWaits DEF HearCompleted, HearLearned
  <2>6. QED
    BY <1>2, <2>1, <2>2, <2>3, <2>4, <2>5 DEF Event
<1>3. CASE UNCHANGED vars
  BY <1>3, WaiterStays DEF vars, bridge
<1>4. QED
  BY <1>1, <1>2, <1>3 DEF Next

LEMMA SentByAdmission ==
  ASSUME TypeInv, Next, stage' = "sent", stage # "sent"
  PROVE  /\ stage = "admitted" /\ serial # <<>>
         /\ Head(serial).kind = "continue" /\ Head(serial).mine
<1>1. CASE Admit
  BY <1>1 DEF Admit, NextJob, TypeInv, StageInv
<1>2. CASE Dispatch \/ Resume \/ Select \/ Fail
  BY <1>2 DEF Dispatch, Resume, Select, Fail, NextJob, CheckConfig
<1>3. CASE Event
  <2>1. CASE \E t \in Threads : \/ ClientTurn(t) \/ ClientCompact(t)
                                \/ WaiterReady(t) \/ WaiterStandsDown(t)
                                \/ NativeWakes(t) \/ NativeEnds(t)
    BY <2>1 DEF ClientTurn, ClientCompact, WaiterReady, WaiterStandsDown, NativeWakes,
       NativeEnds, bridge
  <2>2. CASE Observe \/ HearReply \/ HearStarted \/ HearCompleted \/ HearLearned
    BY <2>2 DEF Observe, HearReply, HearStarted, HearCompleted, HearLearned
  <2>3. CASE BrokerFails \/ \E a \in Accounts : BrokerAnswers(a)
    BY <2>3 DEF BrokerFails, BrokerAnswers, Settle, Login
  <2>4. CASE HearConfig \/ HearLogin \/ HearContinued
    BY <2>4 DEF HearConfig, HearLogin, HearContinued, Settle, NextJob
  <2>5. QED
    BY <1>3, <2>1, <2>2, <2>3, <2>4 DEF Event
<1>4. QED
  BY <1>1, <1>2, <1>3 DEF Next, Continuation

(* A continue is sent only for a failure that neither the bridge nor the   *)
(* owner has answered since (resume, t3-codex.mjs): at most once for each, *)
(* whatever comes in at the awaits of resume.                              *)
THEOREM ContinuedOnce == Spec => ContinueOwed
<1>1. ConstantsAssumption
  BY ConstantsAssumption
<1>2. Init => WaiterInv
  BY DEF Init, WaiterInv, Backed
<1>3. ASSUME TypeInv, WaiterInv, [Next]_vars
      PROVE  [stage' = "sent" /\ stage # "sent" => owed[Head(serial).thread]]_vars
  <2>1. CASE UNCHANGED vars
    BY <2>1
  <2>2. CASE Next /\ stage' = "sent" /\ stage # "sent"
    <3>1. serial # <<>> /\ Head(serial).kind = "continue" /\ Head(serial).mine
      BY <1>3, <2>2, SentByAdmission
    <3>2. /\ serial \in Seq(Jobs) /\ Head(serial) = serial[1]
          /\ Head(serial).thread \in Threads
      BY <1>3, <3>1, JobsType
    <3>3. 1 \in 1 .. Len(serial)
      BY <3>1, <3>2
    <3>4. Standing(serial, stage, 1)
      BY <2>2, <3>1, <3>2 DEF Standing
    <3>5. waiters[Head(serial).thread] = "due"
      BY <1>3, <3>2, <3>3, <3>4 DEF WaiterInv, Backed
    <3>6. owed[Head(serial).thread]
      BY <1>3, <3>2, <3>5 DEF WaiterInv
    <3>7. QED
      BY <3>6
  <2>3. QED
    BY <1>3, <2>1, <2>2
<1>4. QED
  BY <1>1, <1>2, <1>3, InitTyped, StepTyped, StepWaits, PTL DEF Spec, ContinueOwed

-----------------------------------------------------------------------------
(* Turns that go on                                                        *)

LEMMA LiveNow ==
  ASSUME NEW q \in Seq(Messages), NEW A, NEW u PROVE Live(u, q, A, 0) <=> u \in A
BY DEF Live

(* A message that comes says nothing of those before it.                   *)
LEMMA LiveBefore ==
  ASSUME NEW q \in Seq(Messages), NEW m \in Messages, NEW A, NEW u, NEW i \in 0 .. Len(q)
  PROVE  Live(u, Append(q, m), A, i) <=> Live(u, q, A, i)
<1> DEFINE new == Append(q, m)
<1>1. \A j \in 1 .. i : new[j] = q[j]
  BY AppendFacts
<1>2. \A k \in 1 .. i : \A j \in (k + 1) .. i : j \in 1 .. i
  OBVIOUS
<1> HIDE DEF new
<1>3. Live(u, new, A, i) <=> Live(u, q, A, i)
  BY <1>1, <1>2 DEF Live
<1>4. QED
  BY <1>3 DEF new

LEMMA LiveSaid ==
  ASSUME NEW q \in Seq(Messages), NEW m \in Messages, NEW A, NEW u
  PROVE  Live(u, Append(q, m), A, Len(q) + 1) <=>
           Begins(m, u) \/ (Live(u, q, A, Len(q)) /\ ~ Completes(m, u))
<1> DEFINE new == Append(q, m)
           n == Len(q)
<1>1. /\ n \in Nat /\ new[n + 1] = m
      /\ \A j \in 1 .. n : new[j] = q[j]
  BY AppendFacts
<1> HIDE DEF new, n
<1>2. (u \in A /\ \A j \in 1 .. (n + 1) : ~ Completes(new[j], u))
        <=> (u \in A /\ \A j \in 1 .. n : ~ Completes(q[j], u)) /\ ~ Completes(m, u)
  BY <1>1
<1>3. \A k \in 1 .. n : (\A j \in (k + 1) .. (n + 1) : ~ Completes(new[j], u))
        <=> (\A j \in (k + 1) .. n : ~ Completes(q[j], u)) /\ ~ Completes(m, u)
  BY <1>1
<1>4. \A j \in ((n + 1) + 1) .. (n + 1) : ~ Completes(new[j], u)
  BY <1>1
<1>5. (\E k \in 1 .. (n + 1) : Begins(new[k], u) /\
         \A j \in (k + 1) .. (n + 1) : ~ Completes(new[j], u))
        <=> \/ Begins(m, u)
            \/ (\E k \in 1 .. n : Begins(q[k], u) /\
                  \A j \in (k + 1) .. n : ~ Completes(q[j], u)) /\ ~ Completes(m, u)
  <2>1. \A k \in 1 .. (n + 1) : k \in 1 .. n \/ k = n + 1
    BY <1>1
  <2>2. \A k \in 1 .. n : k \in 1 .. (n + 1)
    BY <1>1
  <2>3. n + 1 \in 1 .. (n + 1)
    BY <1>1
  <2>4. QED
    BY <1>1, <1>3, <1>4, <2>1, <2>2, <2>3
<1>6. Live(u, new, A, n + 1) <=> Begins(m, u) \/ (Live(u, q, A, n) /\ ~ Completes(m, u))
  BY <1>2, <1>5 DEF Live
<1>7. QED
  BY <1>6 DEF new, n

(* A message that is read moves from what will be known to what is known.  *)
LEMMA LiveHeard ==
  ASSUME NEW q \in Seq(Messages), q # <<>>, NEW A, NEW B, NEW u,
         u \in B <=> Begins(Head(q), u) \/ (u \in A /\ ~ Completes(Head(q), u)),
         NEW i \in 0 .. Len(q) - 1
  PROVE  Live(u, Tail(q), B, i) <=> Live(u, q, A, i + 1)
<1> DEFINE new == Tail(q)
           m == Head(q)
<1>1. /\ i \in Nat /\ i + 1 \in 1 .. Len(q) /\ q[1] = m
      /\ \A j \in 1 .. i : new[j] = q[j + 1]
  BY TailFacts
<1>2. u \in B <=> Begins(m, u) \/ (u \in A /\ ~ Completes(m, u))
  OBVIOUS
<1> HIDE DEF new, m
<1>3. ASSUME NEW k \in 0 .. i
      PROVE  (\A j \in (k + 1) .. i : ~ Completes(new[j], u))
               <=> \A j \in (k + 2) .. (i + 1) : ~ Completes(q[j], u)
  <2>1. ASSUME \A j \in (k + 1) .. i : ~ Completes(new[j], u),
               NEW j \in (k + 2) .. (i + 1)
        PROVE  ~ Completes(q[j], u)
    <3>1. j - 1 \in (k + 1) .. i /\ j - 1 \in 1 .. i /\ (j - 1) + 1 = j
      BY <1>1
    <3>2. QED
      BY <1>1, <2>1, <3>1
  <2>2. ASSUME \A j \in (k + 2) .. (i + 1) : ~ Completes(q[j], u),
               NEW j \in (k + 1) .. i
        PROVE  ~ Completes(new[j], u)
    <3>1. j + 1 \in (k + 2) .. (i + 1) /\ j \in 1 .. i
      BY <1>1
    <3>2. QED
      BY <1>1, <2>2, <3>1
  <2>3. QED
    BY <2>1, <2>2
<1>4. (\A j \in 1 .. i : ~ Completes(new[j], u))
        <=> \A j \in 2 .. (i + 1) : ~ Completes(q[j], u)
  <2>1. 0 \in 0 .. i /\ 0 + 1 = 1 /\ 0 + 2 = 2
    BY <1>1
  <2>2. (\A j \in (0 + 1) .. i : ~ Completes(new[j], u))
          <=> \A j \in (0 + 2) .. (i + 1) : ~ Completes(q[j], u)
    BY <1>3, <2>1, Zenon
  <2>3. QED
    BY <2>1, <2>2
<1>5. (\A j \in 1 .. (i + 1) : ~ Completes(q[j], u))
        <=> ~ Completes(m, u) /\ \A j \in 2 .. (i + 1) : ~ Completes(q[j], u)
  <2>1. \A j \in 1 .. (i + 1) : j = 1 \/ j \in 2 .. (i + 1)
    BY <1>1
  <2>2. \A j \in 2 .. (i + 1) : j \in 1 .. (i + 1)
    BY <1>1
  <2>3. 1 \in 1 .. (i + 1)
    BY <1>1
  <2>4. QED
    BY <1>1, <2>1, <2>2, <2>3
<1>6. (\E k \in 1 .. (i + 1) : Begins(q[k], u) /\
         \A j \in (k + 1) .. (i + 1) : ~ Completes(q[j], u))
        <=> \/ Begins(m, u) /\ \A j \in 2 .. (i + 1) : ~ Completes(q[j], u)
            \/ \E k \in 1 .. i : Begins(new[k], u) /\ \A j \in (k + 1) .. i : ~ Completes(new[j], u)
  <2>1. ASSUME NEW k \in 1 .. (i + 1), Begins(q[k], u),
               \A j \in (k + 1) .. (i + 1) : ~ Completes(q[j], u), k # 1
        PROVE  \E l \in 1 .. i : Begins(new[l], u) /\ \A j \in (l + 1) .. i : ~ Completes(new[j], u)
    <3>1. k - 1 \in 1 .. i /\ k - 1 \in 0 .. i /\ (k - 1) + 1 = k /\ (k - 1) + 2 = k + 1
      BY <1>1, <2>1
    <3>2. Begins(new[k - 1], u)
      BY <1>1, <2>1, <3>1
    <3>3. \A j \in ((k - 1) + 2) .. (i + 1) : ~ Completes(q[j], u)
      BY <2>1, <3>1
    <3>4. \A j \in ((k - 1) + 1) .. i : ~ Completes(new[j], u)
      BY <1>3, <3>1, <3>3
    <3>5. QED
      BY <3>1, <3>2, <3>4
  <2>2. ASSUME NEW l \in 1 .. i, Begins(new[l], u),
               \A j \in (l + 1) .. i : ~ Completes(new[j], u)
        PROVE  \E k \in 1 .. (i + 1) : Begins(q[k], u) /\
                 \A j \in (k + 1) .. (i + 1) : ~ Completes(q[j], u)
    <3>1. l + 1 \in 1 .. (i + 1) /\ l \in 0 .. i /\ (l + 1) + 1 = l + 2
      BY <1>1
    <3>2. Begins(q[l + 1], u)
      BY <1>1, <2>2
    <3>3. \A j \in ((l + 1) + 1) .. (i + 1) : ~ Completes(q[j], u)
      BY <1>3, <2>2, <3>1
    <3>4. QED
      BY <3>1, <3>2, <3>3
  <2>3. 1 \in 1 .. (i + 1) /\ 1 + 1 = 2
    BY <1>1
  <2>4. QED
    BY <1>1, <2>1, <2>2, <2>3
<1>7. Live(u, new, B, i) <=> Live(u, q, A, i + 1)
  BY <1>2, <1>4, <1>5, <1>6 DEF Live
<1>8. QED
  BY <1>7 DEF new

LEMMA LeastOf ==
  ASSUME NEW T \in SUBSET Nat, T # {} PROVE \E x \in T : \A y \in T : x <= y
<1>1. T \subseteq Nat
  OBVIOUS
<1> DEFINE less == OpToRel(<, Nat)
<1>2. IsWellFoundedOn(less, Nat)
  BY NatLessThanWellFounded
<1>3. \A x, y \in Nat : y < x => <<y, x>> \in less
  BY DEF OpToRel
<1> HIDE DEF less
<1>4. PICK x \in T : \A y \in T : ~ (<<y, x>> \in less)
  BY <1>1, <1>2, WFMin
<1>5. \A y \in T : ~ (y < x)
  BY <1>1, <1>3, <1>4
<1>6. \A y \in T : x <= y
  BY <1>1, <1>5
<1>7. QED
  BY <1>6

-----------------------------------------------------------------------------
(* Announcements                                                           *)

LEMMA AnnouncedSaid ==
  ASSUME NEW q \in Seq(Messages), NEW m \in Messages, NEW A, NEW R, NEW S,
         Announced(q, A, R),
         \A u \in Threads : u \in S <=> Begins(m, u) \/ (u \in R /\ ~ Completes(m, u)),
         m.what = "started" /\ ~ m.ok => \E u \in Threads : u \in R
  PROVE  Announced(Append(q, m), A, S)
<1> DEFINE new == Append(q, m)
<1>1. \A u \in Threads : u \in S <=> Live(u, new, A, Len(q) + 1)
  BY LiveSaid DEF Announced
<1>2. Len(new) = Len(q) + 1 /\ Len(q) \in 0 .. Len(q)
  BY AppendFacts
<1>3. ASSUME NEW i \in 1 .. Len(new), new[i].what = "started", ~ new[i].ok
      PROVE  \E u \in Threads : Live(u, new, A, i - 1)
  <2>1. i - 1 \in 0 .. Len(q)
    BY <1>2
  <2>2. \A u : Live(u, new, A, i - 1) <=> Live(u, q, A, i - 1)
    BY <2>1, LiveBefore
  <2>3. CASE i \in 1 .. Len(q)
    <3>1. new[i] = q[i]
      BY <2>3, AppendFacts
    <3>2. \E u \in Threads : Live(u, q, A, i - 1)
      BY <1>3, <2>3, <3>1 DEF Announced
    <3>3. QED
      BY <2>2, <3>2
  <2>4. CASE i = Len(q) + 1
    <3>1. new[i] = m /\ i - 1 = Len(q)
      BY <2>4, AppendFacts
    <3>2. \E u \in Threads : Live(u, q, A, Len(q))
      BY <1>3, <3>1 DEF Announced
    <3>3. QED
      BY <2>2, <3>1, <3>2
  <2>5. QED
    BY <1>2, <2>3, <2>4
<1> HIDE DEF new
<1>4. QED
  BY <1>1, <1>2, <1>3 DEF Announced, new

LEMMA AnnouncedHeard ==
  ASSUME NEW q \in Seq(Messages), q # <<>>, NEW A, NEW B, NEW R, Announced(q, A, R),
         \A u \in Threads : u \in B <=> Begins(Head(q), u) \/ (u \in A /\ ~ Completes(Head(q), u))
  PROVE  Announced(Tail(q), B, R)
<1> DEFINE new == Tail(q)
<1>1. /\ Len(new) = Len(q) - 1 /\ Len(new) \in Nat /\ Len(q) \in Nat
      /\ \A i \in 1 .. Len(new) : new[i] = q[i + 1]
  BY TailFacts
<1>2. \A u \in Threads : \A i \in 0 .. Len(new) : Live(u, new, B, i) <=> Live(u, q, A, i + 1)
  BY <1>1, LiveHeard
<1> HIDE DEF new
<1>3. \A u \in Threads : u \in R <=> Live(u, new, B, Len(new))
  <2>1. Len(new) \in 0 .. Len(new) /\ Len(new) + 1 = Len(q)
    BY <1>1
  <2>2. QED
    BY <1>2, <2>1 DEF Announced
<1>4. ASSUME NEW i \in 1 .. Len(new), new[i].what = "started", ~ new[i].ok
      PROVE  \E u \in Threads : Live(u, new, B, i - 1)
  <2>1. i - 1 \in 0 .. Len(new) /\ (i - 1) + 1 = (i + 1) - 1 /\ i + 1 \in 1 .. Len(q)
    BY <1>1
  <2>2. \E u \in Threads : Live(u, q, A, (i + 1) - 1)
    BY <1>1, <1>4, <2>1 DEF Announced
  <2>3. QED
    BY <1>2, <2>1, <2>2
<1>5. QED
  BY <1>3, <1>4 DEF Announced, new

(* A message that tells of no turn *)
LEMMA AnnouncedAside ==
  ASSUME NEW q \in Seq(Messages), NEW m \in Messages, NEW A, NEW R, Announced(q, A, R),
         m.what \notin {"started", "completed"}
  PROVE  Announced(Append(q, m), A, R)
BY AnnouncedSaid DEF Begins, Completes

LEMMA AnnouncedRead ==
  ASSUME NEW q \in Seq(Messages), q # <<>>, NEW A, NEW R, Announced(q, A, R),
         Head(q).what \notin {"started", "completed"}
  PROVE  Announced(Tail(q), A, R)
BY AnnouncedHeard DEF Begins, Completes

LEMMA TakesAnnounced ==
  ASSUME TypeInv, AnnounceInv, NEW kind, NEW t \in Threads,
         NEW answer \in {"continued", "reply", "appended"},
         NativeTakes(kind, t, answer), active' = active
  PROVE  AnnounceInv'
<1>1. inbox \in Seq(Messages)
  BY DEF TypeInv, TypeOK, Messages
<1>2. ASSUME NEW ok \in BOOLEAN
      PROVE  LET q == Append(inbox, Message(answer, t, ok)) IN
             q \in Seq(Messages) /\ Announced(q, active, running)
  <2> DEFINE m == Message(answer, t, ok)
  <2>1. m \in Messages /\ m.what \notin {"started", "completed"}
    BY MessageType
  <2> HIDE DEF m
  <2>2. Append(inbox, m) \in Seq(Messages) /\ Announced(Append(inbox, m), active, running)
    BY <1>1, <2>1, AppendFacts, AnnouncedAside DEF AnnounceInv
  <2>3. QED
    BY <2>2 DEF m
<1>3. CASE running' = running /\ \E ok \in BOOLEAN : inbox' = Append(inbox, Message(answer, t, ok))
  BY <1>2, <1>3 DEF AnnounceInv
<1>4. CASE /\ running' = running \cup {t}
           /\ inbox' = Append(Append(inbox, Message(answer, t, TRUE)), Message("started", t, TRUE))
  <2> DEFINE q == Append(inbox, Message(answer, t, TRUE))
             m == Message("started", t, TRUE)
  <2>1. q \in Seq(Messages) /\ Announced(q, active, running)
    BY <1>2
  <2>2. m \in Messages /\ m.what = "started" /\ m.thread = t /\ m.ok
    BY MessageType
  <2>3. inbox' = Append(q, m)
    BY <1>4
  <2> HIDE DEF q, m
  <2>4. \A u \in Threads : u \in running' <=> Begins(m, u) \/ (u \in running /\ ~ Completes(m, u))
    BY <1>4, <2>2 DEF Begins, Completes
  <2>5. Announced(Append(q, m), active, running')
    BY <2>1, <2>2, <2>4, AnnouncedSaid
  <2>6. QED
    BY <2>3, <2>5 DEF AnnounceInv
<1>5. QED
  BY <1>3, <1>4, TakesEffect DEF TypeInv

LEMMA SaysAnnounced ==
  ASSUME TypeInv, AnnounceInv, NEW m \in Messages, inbox' = Append(inbox, m),
         m.what \notin {"started", "completed"}, UNCHANGED <<active, running>>
  PROVE  AnnounceInv'
<1>1. inbox \in Seq(Messages)
  BY DEF TypeInv, TypeOK, Messages
<1>2. Announced(Append(inbox, m), active, running)
  BY <1>1, AnnouncedAside DEF AnnounceInv
<1>3. QED
  BY <1>2 DEF AnnounceInv

LEMMA HeardAnnounced ==
  ASSUME TypeInv, AnnounceInv, inbox # <<>>, inbox' = Tail(inbox),
         Head(inbox).what \notin {"started", "completed"}, UNCHANGED <<active, running>>
  PROVE  AnnounceInv'
<1>1. inbox \in Seq(Messages)
  BY DEF TypeInv, TypeOK, Messages
<1>2. Announced(Tail(inbox), active, running)
  BY <1>1, AnnouncedRead DEF AnnounceInv
<1>3. QED
  BY <1>2 DEF AnnounceInv

LEMMA CheckConfigAnnounced ==
  ASSUME TypeInv, AnnounceInv, serial # <<>>, CheckConfig, active' = active PROVE AnnounceInv'
<1>1. Head(serial).thread \in Threads
  BY JobsType
<1>2. PICK ok \in BOOLEAN : inbox' = Append(inbox, Message("config", Head(serial).thread, ok))
  BY DEF CheckConfig, Answers, Says
<1> DEFINE m == Message("config", Head(serial).thread, ok)
<1>3. m \in Messages /\ m.what = "config" /\ inbox' = Append(inbox, m)
  BY <1>1, <1>2, MessageType
<1> HIDE DEF m
<1>4. running' = running
  BY DEF CheckConfig
<1>5. QED
  BY <1>3, <1>4, SaysAnnounced

LEMMA StepAnnounced ==
  ConstantsAssumption /\ TypeInv /\ AnnounceInv /\ [Next]_vars => AnnounceInv'
<1> SUFFICES ASSUME ConstantsAssumption, TypeInv, AnnounceInv, [Next]_vars PROVE AnnounceInv'
  OBVIOUS
<1>1. inbox \in Seq(Messages)
  BY DEF TypeInv, TypeOK, Messages
<1>2. CASE UNCHANGED <<inbox, active, running>>
  BY <1>2 DEF AnnounceInv
<1>3. CASE Dispatch \/ Resume
  <2>1. active' = active /\ serial # <<>> /\ Head(serial).thread \in Threads
    BY <1>3, JobsType DEF Dispatch, Resume
  <2>2. \/ CheckConfig \/ UNCHANGED native
        \/ NativeTakes("owner", Head(serial).thread, "appended")
    BY <1>3 DEF Dispatch, Resume
  <2>3. QED
    BY <1>2, <2>1, <2>2, CheckConfigAnnounced, TakesAnnounced DEF native
<1>4. CASE Admit
  <2>1. active' = active /\ Head(serial).thread \in Threads
    BY <1>4, JobsType DEF Admit, TypeInv, StageInv
  <2>2. \/ NativeTakes(Head(serial).kind, Head(serial).thread, "reply")
        \/ NativeTakes("continue", Head(serial).thread, "continued")
        \/ UNCHANGED native
    BY <1>4 DEF Admit
  <2>3. QED
    BY <1>2, <2>1, <2>2, TakesAnnounced DEF native
<1>5. CASE \E t \in Threads : ClientTurn(t)
  <2>1. PICK t \in Threads : ClientTurn(t)
    BY <1>5
  <2>2. active' = active /\ (NativeTakes("owner", t, "appended") \/ UNCHANGED native)
    BY <2>1 DEF ClientTurn
  <2>3. QED
    BY <1>2, <2>2, TakesAnnounced DEF native
<1>6. CASE \E t \in Threads : NativeWakes(t)
  <2>1. PICK t \in Threads : NativeWakes(t)
    BY <1>6
  <2> DEFINE m == Message("started", t, FALSE)
  <2>2. m \in Messages /\ m.what = "started" /\ m.thread = t
    BY MessageType
  <2>3. /\ inbox' = Append(inbox, m) /\ active' = active /\ running' = running \cup {t}
        /\ \E u \in Threads : u \in running
    BY <2>1 DEF NativeWakes, Says, bridge, TypeInv, TypeOK
  <2> HIDE DEF m
  <2>4. \A u \in Threads : u \in running' <=> Begins(m, u) \/ (u \in running /\ ~ Completes(m, u))
    BY <2>2, <2>3 DEF Begins, Completes
  <2>5. Announced(Append(inbox, m), active, running')
    BY <1>1, <2>2, <2>3, <2>4, AnnouncedSaid DEF AnnounceInv
  <2>6. QED
    BY <2>3, <2>5 DEF AnnounceInv
<1>7. CASE \E t \in Threads : NativeEnds(t)
  <2>1. PICK t \in Threads : NativeEnds(t)
    BY <1>7
  <2>2. PICK ok \in BOOLEAN : inbox' = Append(inbox, Message("completed", t, ok))
    BY <2>1 DEF NativeEnds, Says
  <2> DEFINE m == Message("completed", t, ok)
  <2>3. /\ m \in Messages /\ m.what = "completed" /\ m.thread = t
        /\ inbox' = Append(inbox, m)
    BY <2>2, MessageType
  <2>4. active' = active /\ running' = running \ {t}
    BY <2>1 DEF NativeEnds, bridge
  <2> HIDE DEF m
  <2>5. \A u \in Threads : u \in running' <=> Begins(m, u) \/ (u \in running /\ ~ Completes(m, u))
    BY <2>3, <2>4 DEF Begins, Completes
  <2>6. Announced(Append(inbox, m), active, running')
    BY <1>1, <2>3, <2>5, AnnouncedSaid DEF AnnounceInv
  <2>7. QED
    BY <2>3, <2>4, <2>6 DEF AnnounceInv
<1>8. CASE \E a \in Accounts : BrokerAnswers(a)
  <2>1. PICK a \in Accounts : BrokerAnswers(a)
    BY <1>8
  <2>2. CASE UNCHANGED native
    BY <1>2, <2>1, <2>2 DEF native, BrokerAnswers
  <2>3. CASE Login(a)
    <3>1. AnyThread \in Threads
      BY DEF AnyThread, ConstantsAssumption
    <3>2. PICK ok \in BOOLEAN : inbox' = Append(inbox, Message("login", AnyThread, ok))
      BY <2>3 DEF Login, Answers, Says
    <3> DEFINE m == Message("login", AnyThread, ok)
    <3>3. m \in Messages /\ m.what = "login" /\ inbox' = Append(inbox, m)
      BY <3>1, <3>2, MessageType
    <3> HIDE DEF m
    <3>4. UNCHANGED <<active, running>>
      BY <2>1, <2>3 DEF BrokerAnswers, Login
    <3>5. QED
      BY <3>3, <3>4, SaysAnnounced
  <2>4. QED
    BY <2>1, <2>2, <2>3 DEF BrokerAnswers
<1>9. CASE HearConfig \/ HearLogin \/ HearContinued \/ HearReply \/ HearLearned
  <2>1. /\ inbox # <<>> /\ inbox' = Tail(inbox)
        /\ Head(inbox).what \notin {"started", "completed"}
        /\ UNCHANGED <<active, running>>
    BY <1>9 DEF HearConfig, HearLogin, HearContinued, HearReply, HearLearned, Hear
  <2>2. QED
    BY <2>1, HeardAnnounced
<1>10. CASE HearStarted
  <2>1. /\ inbox # <<>> /\ Head(inbox).what = "started" /\ inbox' = Tail(inbox)
        /\ active' = active \cup {Head(inbox).thread} /\ running' = running
    BY <1>10 DEF HearStarted, Hear
  <2>2. \A u \in Threads :
          u \in active' <=> Begins(Head(inbox), u) \/ (u \in active /\ ~ Completes(Head(inbox), u))
    BY <2>1 DEF Begins, Completes
  <2>3. Announced(Tail(inbox), active', running)
    BY <1>1, <2>1, <2>2, AnnouncedHeard DEF AnnounceInv
  <2>4. QED
    BY <2>1, <2>3 DEF AnnounceInv
<1>11. CASE HearCompleted
  <2> DEFINE t == Head(inbox).thread
  <2>1. /\ inbox # <<>> /\ Head(inbox).what = "completed"
        /\ active' = active \ {t} /\ running' = running
    BY <1>11 DEF HearCompleted, Hear
  <2>2. \/ inbox' = Tail(inbox)
        \/ \E ok \in BOOLEAN : inbox' = Append(Tail(inbox), Message("learned", t, ok))
    BY <1>11 DEF HearCompleted, Learn, Answers
  <2>3. \A u \in Threads :
          u \in active' <=> Begins(Head(inbox), u) \/ (u \in active /\ ~ Completes(Head(inbox), u))
    BY <2>1 DEF Begins, Completes
  <2>4. Tail(inbox) \in Seq(Messages) /\ Announced(Tail(inbox), active', running)
    BY <1>1, <2>1, <2>3, TailFacts, AnnouncedHeard DEF AnnounceInv
  <2>5. CASE inbox' = Tail(inbox)
    BY <2>1, <2>4, <2>5 DEF AnnounceInv
  <2>6. ASSUME NEW ok \in BOOLEAN, inbox' = Append(Tail(inbox), Message("learned", t, ok))
        PROVE  AnnounceInv'
    <3> DEFINE m == Message("learned", t, ok)
    <3>1. t \in Threads
      BY <2>1, InboxType
    <3>2. m \in Messages /\ m.what = "learned" /\ inbox' = Append(Tail(inbox), m)
      BY <2>6, <3>1, MessageType
    <3> HIDE DEF m
    <3>3. Announced(Append(Tail(inbox), m), active', running)
      BY <2>4, <3>2, AnnouncedAside
    <3>4. QED
      BY <2>1, <3>2, <3>3 DEF AnnounceInv
  <2>7. QED
    BY <2>2, <2>5, <2>6
<1>12. CASE \/ Select \/ Fail \/ Observe \/ BrokerFails
            \/ \E t \in Threads : ClientCompact(t) \/ WaiterReady(t) \/ WaiterStandsDown(t)
            \/ UNCHANGED vars
  BY <1>2, <1>12 DEF Select, Fail, Observe, BrokerFails, ClientCompact, WaiterReady,
     WaiterStandsDown, vars, bridge, native
<1>13. QED
  BY <1>3, <1>4, <1>5, <1>6, <1>7, <1>8, <1>9, <1>10, <1>11, <1>12
     DEF Next, Continuation, Event

(* Only a login changes native's account, and only when the bridge knows   *)
(* of nothing that is going on.                                            *)
LEMMA AccountByLogin ==
  ASSUME TypeInv, [Next]_vars, account' # account
  PROVE  ~ Working
<1>1. CASE \E a \in Accounts : BrokerAnswers(a)
  BY <1>1 DEF BrokerAnswers, native
<1>2. CASE Dispatch \/ Resume \/ Admit \/ \E t \in Threads : ClientTurn(t)
  BY <1>2 DEF Dispatch, Resume, Admit, ClientTurn, CheckConfig, NativeTakes, native
<1>3. CASE \E t \in Threads : NativeWakes(t) \/ NativeEnds(t)
  BY <1>3 DEF NativeWakes, NativeEnds
<1>4. CASE HearConfig \/ HearLogin \/ HearContinued \/ HearReply
             \/ HearStarted \/ HearCompleted \/ HearLearned
  BY <1>4 DEF HearConfig, HearLogin, HearContinued, HearReply, HearStarted, HearCompleted,
     HearLearned
<1>5. CASE \/ Select \/ Fail \/ Observe \/ BrokerFails
           \/ \E t \in Threads : ClientCompact(t) \/ WaiterReady(t) \/ WaiterStandsDown(t)
           \/ UNCHANGED vars
  BY <1>5 DEF Select, Fail, Observe, BrokerFails, ClientCompact, WaiterReady,
     WaiterStandsDown, vars, native
<1>6. QED
  BY <1>1, <1>2, <1>3, <1>4, <1>5 DEF Next, Continuation, Event

(* A turn that goes on while the bridge knows of nothing is announced, and *)
(* so is one native was asked for, before it.                              *)
LEMMA IdleUnannounced ==
  ASSUME TypeInv, AnnounceInv, ~ Working, NEW t \in running
  PROVE  Unannounced(t)
<1>1. /\ inbox \in Seq(Messages) /\ active = {} /\ t \in Threads
      /\ \A u \in Threads : reserved[u] = 0
  <2>1. \A u \in Threads : reserved[u] \in Nat /\ ~ (reserved[u] > 0)
    BY DEF TypeInv, TypeOK, Working
  <2>2. QED
    BY <2>1 DEF TypeInv, TypeOK, Messages, Working
<1> DEFINE starts == {i \in 1 .. Len(inbox) : inbox[i].what = "started"}
<1>2. \A u \in Threads : \A n \in 0 .. Len(inbox) : Live(u, inbox, active, n) =>
        \E k \in 1 .. n : k \in starts /\ inbox[k].thread = u
  BY <1>1 DEF Live, Begins
<1>3. \A i \in 1 .. Len(inbox) : inbox[i].what \notin {"reply", "continued"}
  <2>1. SUFFICES ASSUME NEW i \in 1 .. Len(inbox), inbox[i].what \in {"reply", "continued"}
                 PROVE  FALSE
    OBVIOUS
  <2>2. inbox[i].thread \in Threads
    <3>1. inbox[i] \in Messages
      BY <1>1
    <3>2. QED
      BY <3>1 DEF Messages
  <2>3. i \in Replies(inbox, inbox[i].thread)
    BY <2>1 DEF Replies, Given
  <2>4. Cardinality(Replies(inbox, inbox[i].thread)) = 0
    BY <1>1, <2>2 DEF TypeInv, CountInv, Counts
  <2>5. Replies(inbox, inbox[i].thread) = {}
    BY <1>1, <2>4, RepliesAre, FS_EmptySet
  <2>6. QED
    BY <2>3, <2>5
<1>4. PICK k \in 1 .. Len(inbox) : k \in starts /\ inbox[k].thread = t
  BY <1>1, <1>2 DEF AnnounceInv, Announced
<1>5. PICK first \in starts : \A i \in starts : first <= i
  <2>1. starts \in SUBSET Nat /\ starts # {}
    BY <1>1, <1>4
  <2> HIDE DEF starts
  <2>2. QED
    BY <2>1, LeastOf
<1>6. inbox[first].ok
  <2>1. SUFFICES ASSUME ~ inbox[first].ok PROVE FALSE
    OBVIOUS
  <2>2. PICK u \in Threads : Live(u, inbox, active, first - 1)
    BY <2>1 DEF AnnounceInv, Announced
  <2>3. PICK i \in 1 .. (first - 1) : i \in starts
    BY <1>1, <1>2, <2>2
  <2>4. QED
    BY <1>5, <2>3
<1>7. first \in 1 .. k
  BY <1>4, <1>5
<1>8. DOMAIN inbox = 1 .. Len(inbox)
  BY <1>1
<1>9. QED
  BY <1>3, <1>4, <1>6, <1>7, <1>8 DEF Unannounced

(* Native's account never changes under a turn that the bridge has been    *)
(* told of or has asked for and native has not answered for (selectNow,    *)
(* dispatch, resume and mark, t3-codex.mjs), however many conversations,   *)
(* jobs and messages there are.                                            *)
THEOREM AccountUndisturbed == Spec => AccountKept
<1>1. ConstantsAssumption
  BY ConstantsAssumption
<1>2. Init => AnnounceInv
  BY DEF Init, AnnounceInv, Announced, Live
<1>3. ASSUME TypeInv, AnnounceInv, [Next]_vars
      PROVE  [account' # account => \A t \in running : Unannounced(t)]_vars
  BY <1>3, AccountByLogin, IdleUnannounced
<1>4. QED
  BY <1>1, <1>2, <1>3, InitTyped, StepTyped, StepAnnounced, PTL DEF Spec, AccountKept

-----------------------------------------------------------------------------
(* Held continues                                                          *)

LEMMA FollowedSaid ==
  ASSUME NEW q \in Seq(Messages), NEW m \in Messages, NEW A, Followed(q, A),
         m.what = "continued" => \E u \in Threads : Live(u, q, A, Len(q))
  PROVE  Followed(Append(q, m), A)
<1> DEFINE new == Append(q, m)
<1>1. /\ Len(new) = Len(q) + 1 /\ Len(q) \in Nat /\ new[Len(q) + 1] = m
      /\ \A i \in 1 .. Len(q) : new[i] = q[i]
  BY AppendFacts
<1>2. ASSUME NEW i \in 1 .. Len(q), new[i].what = "continued"
      PROVE  \/ \E u \in Threads : Live(u, new, A, i)
             \/ \E j \in (i + 1) .. Len(new) : new[j].what = "started"
  <2>1. CASE \E u \in Threads : Live(u, q, A, i)
    <3>1. PICK u \in Threads : Live(u, q, A, i)
      BY <2>1
    <3>2. i \in 0 .. Len(q)
      OBVIOUS
    <3>3. Live(u, new, A, i)
      BY <3>1, <3>2, LiveBefore
    <3>4. QED
      BY <3>3
  <2>2. CASE \E j \in (i + 1) .. Len(q) : q[j].what = "started"
    <3>1. PICK j \in (i + 1) .. Len(q) : q[j].what = "started"
      BY <2>2
    <3>2. j \in (i + 1) .. Len(new) /\ new[j] = q[j]
      BY <1>1
    <3> HIDE DEF new
    <3>3. QED
      BY <3>1, <3>2
  <2>3. q[i].what = "continued"
    BY <1>1, <1>2
  <2>4. QED
    BY <2>1, <2>2, <2>3 DEF Followed
<1>3. ASSUME m.what = "continued"
      PROVE  \E u \in Threads : Live(u, new, A, Len(q) + 1)
  BY <1>3, LiveSaid DEF Completes
<1>4. \A i \in 1 .. Len(new) : i \in 1 .. Len(q) \/ i = Len(q) + 1
  BY <1>1
<1> HIDE DEF new
<1>5. Followed(new, A)
  BY <1>1, <1>2, <1>3, <1>4 DEF Followed
<1>6. QED
  BY <1>5 DEF new

(* An announcement follows everything before it.                           *)
LEMMA FollowedStarted ==
  ASSUME NEW q \in Seq(Messages), NEW m \in Messages, NEW A, m.what = "started"
  PROVE  Followed(Append(q, m), A)
<1> DEFINE new == Append(q, m)
<1>1. /\ Len(new) = Len(q) + 1 /\ Len(q) \in Nat /\ new[Len(q) + 1] = m
  BY AppendFacts
<1> HIDE DEF new
<1>2. ASSUME NEW i \in 1 .. Len(new), new[i].what = "continued"
      PROVE  Len(q) + 1 \in (i + 1) .. Len(new)
  <2>1. i # Len(q) + 1
    BY <1>1, <1>2
  <2>2. QED
    BY <1>1, <2>1
<1>3. Followed(new, A)
  BY <1>1, <1>2 DEF Followed
<1>4. QED
  BY <1>3 DEF new

LEMMA FollowedHeard ==
  ASSUME NEW q \in Seq(Messages), q # <<>>, NEW A, NEW B, Followed(q, A),
         \A u \in Threads : u \in B <=> Begins(Head(q), u) \/ (u \in A /\ ~ Completes(Head(q), u))
  PROVE  Followed(Tail(q), B)
<1> DEFINE new == Tail(q)
<1>1. /\ Len(new) = Len(q) - 1 /\ Len(new) \in Nat /\ Len(q) \in Nat
      /\ \A i \in 1 .. Len(new) : new[i] = q[i + 1]
  BY TailFacts
<1>2. \A u \in Threads : \A i \in 0 .. Len(new) : Live(u, new, B, i) <=> Live(u, q, A, i + 1)
  BY <1>1, LiveHeard
<1> HIDE DEF new
<1>3. ASSUME NEW i \in 1 .. Len(new), new[i].what = "continued"
      PROVE  \/ \E u \in Threads : Live(u, new, B, i)
             \/ \E j \in (i + 1) .. Len(new) : new[j].what = "started"
  <2>1. i + 1 \in 1 .. Len(q) /\ q[i + 1].what = "continued" /\ i \in 0 .. Len(new)
    BY <1>1, <1>3
  <2>2. CASE \E u \in Threads : Live(u, q, A, i + 1)
    BY <1>2, <2>1, <2>2
  <2>3. CASE \E j \in ((i + 1) + 1) .. Len(q) : q[j].what = "started"
    <3>1. PICK j \in ((i + 1) + 1) .. Len(q) : q[j].what = "started"
      BY <2>3
    <3>2. /\ j - 1 \in (i + 1) .. Len(new) /\ j - 1 \in 1 .. Len(new)
          /\ (j - 1) + 1 = j
      BY <1>1
    <3>3. new[j - 1].what = "started"
      BY <1>1, <3>1, <3>2
    <3>4. QED
      BY <3>2, <3>3
  <2>4. QED
    BY <2>1, <2>2, <2>3 DEF Followed
<1>4. Followed(new, B)
  BY <1>3 DEF Followed
<1>5. QED
  BY <1>4 DEF new

(* A continue that native takes adds to a turn or begins one.              *)
LEMMA TakesFollowed ==
  ASSUME TypeInv, AnnounceInv, Followed(inbox, active), "continue" \notin Refused,
         NEW kind, NEW t \in Threads, NEW answer \in {"continued", "reply", "appended"},
         NativeTakes(kind, t, answer), answer = "continued" => kind = "continue",
         active' = active
  PROVE  Followed(inbox', active')
<1>1. inbox \in Seq(Messages)
  BY DEF TypeInv, TypeOK, Messages
<1>2. CASE running' = running /\ \E ok \in BOOLEAN : inbox' = Append(inbox, Message(answer, t, ok))
  <2>1. PICK ok \in BOOLEAN : inbox' = Append(inbox, Message(answer, t, ok))
    BY <1>2
  <2> DEFINE m == Message(answer, t, ok)
  <2>2. m \in Messages /\ m.what = answer /\ inbox' = Append(inbox, m)
    BY <2>1, MessageType
  <2> HIDE DEF m
  <2>3. ASSUME answer = "continued"
        PROVE  \E u \in Threads : Live(u, inbox, active, Len(inbox))
    <3>1. t \in running \/ (t \notin running /\ running' = running \cup {t})
      BY <2>3 DEF NativeTakes
    <3>2. t \in running
      BY <1>2, <3>1
    <3>3. QED
      BY <3>2 DEF AnnounceInv, Announced
  <2>4. Followed(Append(inbox, m), active)
    BY <1>1, <2>2, <2>3, FollowedSaid
  <2>5. QED
    BY <2>2, <2>4
<1>3. CASE inbox' = Append(Append(inbox, Message(answer, t, TRUE)), Message("started", t, TRUE))
  <2> DEFINE q == Append(inbox, Message(answer, t, TRUE))
             m == Message("started", t, TRUE)
  <2>1. q \in Seq(Messages) /\ m \in Messages /\ m.what = "started"
    <3>1. Message(answer, t, TRUE) \in Messages
      BY MessageType
    <3>2. q \in Seq(Messages)
      BY <1>1, <3>1, AppendFacts
    <3>3. QED
      BY <3>2, MessageType
  <2>2. inbox' = Append(q, m)
    BY <1>3
  <2> HIDE DEF q, m
  <2>3. QED
    BY <2>1, <2>2, FollowedStarted
<1>4. QED
  BY <1>2, <1>3, TakesEffect DEF TypeInv

(* What a step does to the messages and to the turns the bridge knows of   *)
LEMMA Traffic ==
  ASSUME ConstantsAssumption, TypeInv, [Next]_vars
  PROVE  \/ UNCHANGED <<inbox, active>>
         \/ /\ \E kind : \E t \in Threads, answer \in {"continued", "reply", "appended"} :
                 NativeTakes(kind, t, answer) /\ (answer = "continued" => kind = "continue")
            /\ active' = active
         \/ /\ \E m \in Messages : m.what # "continued" /\ inbox' = Append(inbox, m)
            /\ active' = active
         \/ /\ inbox # <<>>
            /\ \A u \in Threads : u \in active' <=>
                 Begins(Head(inbox), u) \/ (u \in active /\ ~ Completes(Head(inbox), u))
            /\ \/ inbox' = Tail(inbox)
               \/ \E m \in Messages : m.what # "continued" /\ inbox' = Append(Tail(inbox), m)
<1>1. CASE Dispatch \/ Resume
  <2>1. active' = active /\ serial # <<>> /\ Head(serial).thread \in Threads
    BY <1>1, JobsType DEF Dispatch, Resume
  <2>2. CASE CheckConfig
    <3>1. PICK ok \in BOOLEAN : inbox' = Append(inbox, Message("config", Head(serial).thread, ok))
      BY <2>2 DEF CheckConfig, Answers, Says
    <3>2. /\ Message("config", Head(serial).thread, ok) \in Messages
          /\ Message("config", Head(serial).thread, ok).what = "config"
      BY <2>1, MessageType
    <3>3. QED
      BY <2>1, <3>1, <3>2
  <2>3. CASE UNCHANGED native
    BY <2>1, <2>3 DEF native
  <2>4. CASE NativeTakes("owner", Head(serial).thread, "appended")
    BY <2>1, <2>4
  <2>5. QED
    BY <1>1, <2>2, <2>3, <2>4 DEF Dispatch, Resume
<1>2. CASE Admit
  <2>1. active' = active /\ Head(serial).thread \in Threads
    BY <1>2, JobsType DEF Admit, TypeInv, StageInv
  <2>2. \/ NativeTakes(Head(serial).kind, Head(serial).thread, "reply")
        \/ NativeTakes("continue", Head(serial).thread, "continued")
        \/ UNCHANGED native
    BY <1>2 DEF Admit
  <2>3. QED
    BY <2>1, <2>2 DEF native
<1>3. CASE \E t \in Threads : ClientTurn(t)
  <2>1. PICK t \in Threads : ClientTurn(t)
    BY <1>3
  <2>2. active' = active /\ (NativeTakes("owner", t, "appended") \/ UNCHANGED native)
    BY <2>1 DEF ClientTurn
  <2>3. QED
    BY <2>2 DEF native
<1>4. CASE \E t \in Threads : NativeWakes(t) \/ NativeEnds(t)
  <2>1. PICK t \in Threads : NativeWakes(t) \/ NativeEnds(t)
    BY <1>4
  <2>2. PICK what \in {"started", "completed"}, ok \in BOOLEAN :
          inbox' = Append(inbox, Message(what, t, ok)) /\ active' = active
    BY <2>1 DEF NativeWakes, NativeEnds, Says, bridge
  <2>3. Message(what, t, ok) \in Messages /\ Message(what, t, ok).what # "continued"
    BY MessageType
  <2>4. QED
    BY <2>2, <2>3
<1>5. CASE \E a \in Accounts : BrokerAnswers(a)
  <2>1. PICK a \in Accounts : BrokerAnswers(a)
    BY <1>5
  <2>2. CASE UNCHANGED native
    BY <2>1, <2>2 DEF native, BrokerAnswers
  <2>3. CASE Login(a)
    <3>1. AnyThread \in Threads
      BY DEF AnyThread, ConstantsAssumption
    <3>2. PICK ok \in BOOLEAN : inbox' = Append(inbox, Message("login", AnyThread, ok))
      BY <2>3 DEF Login, Answers, Says
    <3>3. Message("login", AnyThread, ok) \in Messages /\ Message("login", AnyThread, ok).what = "login"
      BY <3>1, MessageType
    <3>4. active' = active
      BY <2>1 DEF BrokerAnswers
    <3>5. QED
      BY <3>2, <3>3, <3>4
  <2>4. QED
    BY <2>1, <2>2, <2>3 DEF BrokerAnswers
<1>6. CASE HearConfig \/ HearLogin \/ HearContinued \/ HearReply \/ HearLearned
  <2>1. /\ inbox # <<>> /\ inbox' = Tail(inbox) /\ active' = active
        /\ Head(inbox).what \notin {"started", "completed"}
    BY <1>6 DEF HearConfig, HearLogin, HearContinued, HearReply, HearLearned, Hear
  <2>2. QED
    BY <2>1 DEF Begins, Completes
<1>7. CASE HearStarted
  <2>1. /\ inbox # <<>> /\ Head(inbox).what = "started" /\ inbox' = Tail(inbox)
        /\ active' = active \cup {Head(inbox).thread}
    BY <1>7 DEF HearStarted, Hear
  <2>2. QED
    BY <2>1 DEF Begins, Completes
<1>8. CASE HearCompleted
  <2> DEFINE t == Head(inbox).thread
  <2>1. /\ inbox # <<>> /\ Head(inbox).what = "completed" /\ active' = active \ {t}
    BY <1>8 DEF HearCompleted, Hear
  <2>2. \/ inbox' = Tail(inbox)
        \/ \E ok \in BOOLEAN : inbox' = Append(Tail(inbox), Message("learned", t, ok))
    BY <1>8 DEF HearCompleted, Learn, Answers
  <2>3. \A ok \in BOOLEAN : /\ Message("learned", t, ok) \in Messages
                            /\ Message("learned", t, ok).what = "learned"
    BY <2>1, InboxType, MessageType
  <2>4. \A u \in Threads :
          u \in active' <=> Begins(Head(inbox), u) \/ (u \in active /\ ~ Completes(Head(inbox), u))
    BY <2>1 DEF Begins, Completes
  <2>5. \/ inbox' = Tail(inbox)
        \/ \E m \in Messages : m.what # "continued" /\ inbox' = Append(Tail(inbox), m)
    BY <2>2, <2>3
  <2>6. QED
    BY <2>1, <2>4, <2>5
<1>9. CASE \/ Select \/ Fail \/ Observe \/ BrokerFails
           \/ \E t \in Threads : ClientCompact(t) \/ WaiterReady(t) \/ WaiterStandsDown(t)
           \/ UNCHANGED vars
  BY <1>9 DEF Select, Fail, Observe, BrokerFails, ClientCompact, WaiterReady,
     WaiterStandsDown, vars, bridge, native
<1>10. QED
  BY <1>1, <1>2, <1>3, <1>4, <1>5, <1>6, <1>7, <1>8, <1>9 DEF Next, Continuation, Event

LEMMA StepFollowed ==
  ASSUME ConstantsAssumption, TypeInv, AnnounceInv, Followed(inbox, active),
         "continue" \notin Refused, [Next]_vars
  PROVE  Followed(inbox', active')
<1>1. inbox \in Seq(Messages)
  BY DEF TypeInv, TypeOK, Messages
<1>2. CASE UNCHANGED <<inbox, active>>
  BY <1>2
<1>3. CASE /\ \E kind : \E t \in Threads, answer \in {"continued", "reply", "appended"} :
                NativeTakes(kind, t, answer) /\ (answer = "continued" => kind = "continue")
           /\ active' = active
  BY <1>3, TakesFollowed
<1>4. CASE /\ \E m \in Messages : m.what # "continued" /\ inbox' = Append(inbox, m)
           /\ active' = active
  BY <1>1, <1>4, FollowedSaid
<1>5. CASE /\ inbox # <<>>
           /\ \A u \in Threads : u \in active' <=>
                Begins(Head(inbox), u) \/ (u \in active /\ ~ Completes(Head(inbox), u))
           /\ \/ inbox' = Tail(inbox)
              \/ \E m \in Messages : m.what # "continued" /\ inbox' = Append(Tail(inbox), m)
  <2>1. Tail(inbox) \in Seq(Messages) /\ Followed(Tail(inbox), active')
    BY <1>1, <1>5, TailFacts, FollowedHeard
  <2>2. QED
    BY <1>5, <2>1, FollowedSaid
<1>6. QED
  BY <1>2, <1>3, <1>4, <1>5, Traffic

LEMMA PendingSaid ==
  ASSUME NEW q \in Seq(Messages), NEW m \in Messages, Pending(q) PROVE Pending(Append(q, m))
BY AppendFacts DEF Pending

LEMMA PendingHeard ==
  ASSUME NEW q \in Seq(Messages), q # <<>>, Pending(q),
         Head(q).what \notin {"started", "completed", "reply", "appended"}
  PROVE  Pending(Tail(q))
<1>1. PICK i \in 1 .. Len(q) : q[i].what \in {"started", "completed", "reply", "appended"}
  BY DEF Pending
<1>2. i # 1
  BY <1>1, TailFacts
<1>3. i - 1 \in 1 .. Len(Tail(q)) /\ Tail(q)[i - 1] = q[i]
  BY <1>2, TailFacts
<1>4. QED
  BY <1>1, <1>3 DEF Pending

LEMMA TakesPending ==
  ASSUME TypeInv, NEW kind, NEW t \in Threads,
         NEW answer \in {"continued", "reply", "appended"},
         NativeTakes(kind, t, answer), Pending(inbox)
  PROVE  Pending(inbox')
<1>1. inbox \in Seq(Messages)
  BY DEF TypeInv, TypeOK, Messages
<1>2. \A ok \in BOOLEAN : Message(answer, t, ok) \in Messages /\ Message("started", t, ok) \in Messages
  BY MessageType
<1>3. \A ok \in BOOLEAN : /\ Append(inbox, Message(answer, t, ok)) \in Seq(Messages)
                          /\ Pending(Append(inbox, Message(answer, t, ok)))
  BY <1>1, <1>2, AppendFacts, PendingSaid
<1>4. Pending(Append(Append(inbox, Message(answer, t, TRUE)), Message("started", t, TRUE)))
  BY <1>2, <1>3, PendingSaid
<1>5. \/ \E ok \in BOOLEAN : inbox' = Append(inbox, Message(answer, t, ok))
      \/ inbox' = Append(Append(inbox, Message(answer, t, TRUE)), Message("started", t, TRUE))
  BY TakesEffect DEF TypeInv
<1>6. QED
  BY <1>3, <1>4, <1>5

(* A step that holds nothing back, gives nothing up and hears nothing      *)
LEMMA WaitsStay ==
  ASSUME TypeInv, WaitsInv, Held' => Held, Working => Working',
         Pending(inbox) => Pending(inbox')
  PROVE  WaitsInv'
BY DEF WaitsInv

LEMMA DrainedWaits ==
  ASSUME TypeInv, NEW w \in [Threads -> States], NEW A, NEW r \in [Threads -> Nat],
         NEW t \in Threads, Drained(w, A, r)[t] = "held"
  PROVE  A # {} \/ \E u \in Threads : r[u] > 0
<1>1. ~ (w[t] = "held" /\ A = {} /\ \A u \in Threads : r[u] = 0)
  BY DEF Drained
<1>2. w[t] = "held"
  BY DEF Drained
<1>3. \A u \in Threads : r[u] = 0 \/ r[u] > 0
  OBVIOUS
<1>4. QED
  BY <1>1, <1>2, <1>3

LEMMA SaidWaits ==
  ASSUME TypeInv, WaitsInv, NEW m \in Messages, inbox' = Append(inbox, m),
         UNCHANGED <<waiters, active, reserved>>
  PROVE  WaitsInv'
<1>1. inbox \in Seq(Messages)
  BY DEF TypeInv, TypeOK, Messages
<1>2. QED
  BY <1>1, PendingSaid, WaitsStay DEF Held, Working

LEMMA CheckConfigHolds ==
  ASSUME TypeInv, WaitsInv, serial # <<>>, CheckConfig, UNCHANGED <<active, reserved>>
  PROVE  WaitsInv'
<1>1. Head(serial).thread \in Threads
  BY JobsType
<1>2. PICK ok \in BOOLEAN : inbox' = Append(inbox, Message("config", Head(serial).thread, ok))
  BY DEF CheckConfig, Answers, Says
<1>3. Message("config", Head(serial).thread, ok) \in Messages
  BY <1>1, MessageType
<1>4. QED
  BY <1>2, <1>3, SaidWaits DEF CheckConfig

LEMMA QueueHolds ==
  ASSUME TypeInv, WaitsInv, Dispatch \/ Resume \/ Select \/ Fail PROVE WaitsInv'
<1>1. CASE Dispatch
  <2>1. CASE CheckConfig
    BY <1>1, <2>1, CheckConfigHolds DEF Dispatch
  <2>2. CASE NativeTakes("owner", Head(serial).thread, "appended") /\ UNCHANGED waiters
    <3>1. Head(serial).thread \in Threads
      BY <1>1, JobsType DEF Dispatch
    <3>2. Pending(inbox) => Pending(inbox')
      BY <2>2, <3>1, TakesPending
    <3>3. QED
      BY <1>1, <2>2, <3>2, WaitsStay DEF Dispatch, Held, Working
  <2>3. QED
    BY <1>1, <2>1, <2>2 DEF Dispatch
<1>2. CASE Resume
  <2>1. CASE CheckConfig
    BY <1>2, <2>1, CheckConfigHolds DEF Resume
  <2>2. CASE UNCHANGED native /\ (UNCHANGED waiters \/ GiveUp(Head(serial).thread))
    <3>1. Held' => Held
      BY <2>2 DEF Held, GiveUp, TypeInv, TypeOK
    <3>2. QED
      BY <1>2, <2>2, <3>1, WaitsStay DEF Resume, Working, native
  <2>3. QED
    BY <1>2, <2>1, <2>2 DEF Resume
<1>3. CASE Select
  BY <1>3, WaitsStay DEF Select, Held, Working, native
<1>4. CASE Fail
  <2>1. UNCHANGED <<active, reserved, inbox>>
    BY <1>4 DEF Fail, native
  <2>2. CASE stage = "deferred"
    BY <2>1, <2>2 DEF TypeInv, StageInv, WaitsInv, Working
  <2>3. CASE stage = "refused"
    <3>1. Held' => Held
      BY <1>4, <2>3 DEF Fail, Held, TypeInv, TypeOK
    <3>2. QED
      BY <2>1, <3>1, WaitsStay DEF Working
  <2>4. QED
    BY <1>4, <2>2, <2>3 DEF Fail
<1>5. QED
  BY <1>1, <1>2, <1>3, <1>4

LEMMA AdmitHolds == ASSUME TypeInv, WaitsInv, Admit PROVE WaitsInv'
<1> DEFINE t == Head(serial).thread
<1>1. t \in Threads
  BY JobsType DEF Admit, TypeInv, StageInv
<1>2. CASE reserved' = [reserved EXCEPT ![t] = @ + 1]
  <2>1. reserved'[t] > 0
    BY <1>1, <1>2 DEF TypeInv, TypeOK
  <2>2. QED
    BY <1>1, <2>1 DEF WaitsInv, Working
<1>3. CASE UNCHANGED <<reserved, waiters, native>>
  BY <1>3, WaitsStay DEF Admit, Held, Working, native
<1>4. QED
  BY <1>2, <1>3 DEF Admit

LEMMA OwnerHolds ==
  ASSUME TypeInv, WaitsInv, NEW t \in Threads,
         \/ ClientTurn(t) \/ ClientCompact(t) \/ WaiterReady(t) \/ WaiterStandsDown(t)
  PROVE  WaitsInv'
<1>1. UNCHANGED <<active, reserved>>
  BY DEF ClientTurn, ClientCompact, WaiterReady, WaiterStandsDown
<1>2. Held' => Held
  BY DEF ClientTurn, ClientCompact, WaiterReady, WaiterStandsDown, GiveUp, Held, TypeInv, TypeOK
<1>3. inbox' = inbox \/ NativeTakes("owner", t, "appended")
  BY DEF ClientTurn, ClientCompact, WaiterReady, WaiterStandsDown, native
<1>4. Pending(inbox) => Pending(inbox')
  BY <1>3, TakesPending
<1>5. QED
  BY <1>1, <1>2, <1>4, WaitsStay DEF Working

LEMMA NativeHolds ==
  ASSUME TypeInv, WaitsInv, NEW t \in Threads, NativeWakes(t) \/ NativeEnds(t) PROVE WaitsInv'
<1>1. PICK what \in {"started", "completed"}, ok \in BOOLEAN :
        inbox' = Append(inbox, Message(what, t, ok))
  BY DEF NativeWakes, NativeEnds, Says
<1>2. Message(what, t, ok) \in Messages
  BY MessageType
<1>3. QED
  BY <1>1, <1>2, SaidWaits DEF NativeWakes, NativeEnds, bridge

LEMMA BrokerHolds ==
  ASSUME ConstantsAssumption, TypeInv, WaitsInv,
         Observe \/ BrokerFails \/ \E a \in Accounts : BrokerAnswers(a)
  PROVE  WaitsInv'
<1>1. UNCHANGED <<waiters, active, reserved>>
  BY DEF Observe, BrokerFails, BrokerAnswers
<1>2. CASE UNCHANGED inbox
  BY <1>1, <1>2, WaitsStay DEF Held, Working
<1>3. CASE \E a \in Accounts : Login(a)
  <2>1. AnyThread \in Threads
    BY DEF AnyThread, ConstantsAssumption
  <2>2. PICK ok \in BOOLEAN : inbox' = Append(inbox, Message("login", AnyThread, ok))
    BY <1>3 DEF Login, Answers, Says
  <2>3. Message("login", AnyThread, ok) \in Messages
    BY <2>1, MessageType
  <2>4. QED
    BY <1>1, <2>2, <2>3, SaidWaits
<1>4. QED
  BY <1>2, <1>3 DEF Observe, BrokerFails, BrokerAnswers, native

LEMMA HearHolds ==
  ASSUME TypeInv, WaitsInv, Followed(inbox, active),
         \/ HearConfig \/ HearLogin \/ HearContinued \/ HearReply
         \/ HearStarted \/ HearCompleted \/ HearLearned
  PROVE  WaitsInv'
<1>1. inbox # <<>>
  BY DEF HearConfig, HearLogin, HearContinued, HearReply, HearStarted, HearCompleted,
     HearLearned, Hear
<1>2. /\ inbox \in Seq(Messages) /\ Head(inbox) = inbox[1] /\ 1 \in 1 .. Len(inbox)
      /\ Head(inbox).thread \in Threads
  BY <1>1, InboxType
<1>3. waiters \in [Threads -> States] /\ reserved \in [Threads -> Nat] /\ active \subseteq Threads
  BY DEF TypeInv, TypeOK, States
<1>4. CASE HearConfig \/ HearLogin \/ HearLearned
  <2>1. /\ inbox' = Tail(inbox) /\ UNCHANGED <<active, reserved>>
        /\ Head(inbox).what \notin {"started", "completed", "reply", "appended"}
    BY <1>4 DEF HearConfig, HearLogin, HearLearned, Hear
  <2>2. Held' => Held
    BY <1>4 DEF HearConfig, HearLogin, HearLearned, Held, Watching
  <2>3. Pending(inbox) => Pending(inbox')
    BY <1>1, <1>2, <2>1, PendingHeard
  <2>4. QED
    BY <2>1, <2>2, <2>3, WaitsStay DEF Working
<1>5. CASE HearContinued
  <2>1. /\ inbox' = Tail(inbox) /\ UNCHANGED <<waiters, active>>
        /\ Head(inbox).what = "continued"
    BY <1>5 DEF HearContinued, Hear
  <2>2. CASE \E u \in Threads : Live(u, inbox, active, 1)
    <3>1. \A u \in Threads : ~ Begins(inbox[1], u)
      BY <1>2, <2>1 DEF Begins
    <3>2. active # {}
      BY <2>2, <3>1 DEF Live
    <3>3. QED
      BY <2>1, <3>2 DEF WaitsInv, Working
  <2>3. CASE \E j \in (1 + 1) .. Len(inbox) : inbox[j].what = "started"
    <3>1. PICK j \in (1 + 1) .. Len(inbox) : inbox[j].what = "started"
      BY <2>3
    <3>2. j - 1 \in 1 .. Len(Tail(inbox)) /\ Tail(inbox)[j - 1] = inbox[j]
      BY <1>1, <1>2, <3>1, TailFacts
    <3>3. Pending(inbox')
      BY <2>1, <3>1, <3>2 DEF Pending
    <3>4. QED
      BY <3>3 DEF WaitsInv
  <2>4. QED
    BY <1>2, <2>1, <2>2, <2>3 DEF Followed
<1>6. CASE HearReply
  <2>1. waiters' = Drained(waiters, active, reserved') /\ active' = active
    BY <1>6 DEF HearReply
  <2>2. reserved' \in [Threads -> Nat]
    BY <1>6, HearReplyNat
  <2>3. Held' => Working'
    BY <1>3, <2>1, <2>2, DrainedWaits DEF Held, Working
  <2>4. QED
    BY <2>3 DEF WaitsInv
<1>7. CASE HearStarted
  <2>1. active' # {}
    BY <1>7 DEF HearStarted
  <2>2. QED
    BY <2>1 DEF WaitsInv, Working
<1>8. CASE HearCompleted
  <2>1. PICK watched : /\ waiters' = Drained(Watching(watched), active', reserved)
                       /\ reserved' = reserved
    BY <1>8 DEF HearCompleted
  <2>2. Watching(watched) \in [Threads -> States]
    BY <1>3 DEF Watching, States
  <2>3. Held' => Working'
    BY <1>3, <2>1, <2>2, DrainedWaits DEF Held, Working
  <2>4. QED
    BY <2>3 DEF WaitsInv
<1>9. QED
  BY <1>4, <1>5, <1>6, <1>7, <1>8

LEMMA StepHeld ==
  ASSUME ConstantsAssumption, TypeInv, AnnounceInv, HeldInv, "continue" \notin Refused, [Next]_vars
  PROVE  HeldInv'
<1>1. Followed(inbox', active')
  BY StepFollowed DEF HeldInv
<1>2. CASE Continuation
  BY <1>1, <1>2, QueueHolds, AdmitHolds DEF Continuation, HeldInv
<1>3. CASE Event
  <2>1. CASE \E t \in Threads : \/ ClientTurn(t) \/ ClientCompact(t)
                                \/ WaiterReady(t) \/ WaiterStandsDown(t)
    BY <1>1, <2>1, OwnerHolds DEF HeldInv
  <2>2. CASE \E t \in Threads : NativeWakes(t) \/ NativeEnds(t)
    BY <1>1, <2>2, NativeHolds DEF HeldInv
  <2>3. CASE Observe \/ BrokerFails \/ \E a \in Accounts : BrokerAnswers(a)
    BY <1>1, <2>3, BrokerHolds DEF HeldInv
  <2>4. CASE \/ HearConfig \/ HearLogin \/ HearContinued \/ HearReply
             \/ HearStarted \/ HearCompleted \/ HearLearned
    BY <1>1, <2>4, HearHolds DEF HeldInv
  <2>5. QED
    BY <1>3, <2>1, <2>2, <2>3, <2>4 DEF Event
<1>4. CASE UNCHANGED vars
  BY <1>1, <1>4, WaitsStay DEF HeldInv, Held, Working, vars, bridge, native
<1>5. QED
  BY <1>2, <1>3, <1>4 DEF Next

(* Unless native refuses a continue, one that is held is never forgotten:  *)
(* something will still be heard after which drained lets it go on.        *)
THEOREM HeldNotForgotten ==
  ASSUME "continue" \notin Refused PROVE Spec => []HeldHasWork
<1>1. ConstantsAssumption
  BY ConstantsAssumption
<1>2. Init => AnnounceInv /\ HeldInv
  BY DEF Init, AnnounceInv, Announced, Live, HeldInv, WaitsInv, Held, Followed
<1>3. TypeInv /\ AnnounceInv /\ HeldInv /\ [Next]_vars => HeldInv'
  BY <1>1, StepHeld
<1>4. TypeInv /\ HeldInv => HeldHasWork
  BY DEF TypeInv, TypeOK, HeldInv, WaitsInv, Held, Pending, HeldHasWork
<1>5. QED
  BY <1>1, <1>2, <1>3, <1>4, InitTyped, StepTyped, StepAnnounced, PTL DEF Spec
=============================================================================
