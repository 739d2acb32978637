------------------------- MODULE ControlGateProofs -------------------------
(***************************************************************************)
(* Proofs about the control boundary, for any number of wakes, admissions  *)
(* and writers, and any clock bound.                                       *)
(***************************************************************************)
EXTENDS ControlGate, TLAPS

(* Leaving, refusing and dropping keep the types. *)
LEMMA LeavingTypes ==
  ASSUME TypeOK, NEW p \in Processes
  PROVE  /\ Leave(p) => /\ pc' \in [Processes -> Places]
                        /\ tick' \in Processes \cup {Nobody}
                        /\ gate' \in Processes \cup {Nobody}
                        /\ known' \in [Processes -> Files]
                        /\ draft' \in [Processes -> [expected : Policy, next : Policy]]
                        /\ todo' \in [Processes -> SUBSET Intents]
         /\ Refuse(p) => /\ pc' \in [Processes -> Places]
                         /\ tick' \in Processes \cup {Nobody}
                         /\ gate' \in Processes \cup {Nobody}
                         /\ known' \in [Processes -> Files]
                         /\ draft' \in [Processes -> [expected : Policy, next : Policy]]
                         /\ todo' \in [Processes -> SUBSET Intents]
<1>1. FirstPolicy \in Policy
  BY DEF FirstPolicy, Policy, Modes
<1>2. FirstFiles \in Files /\ NoDraft \in [expected : Policy, next : Policy]
  BY <1>1 DEF FirstFiles, Files, NoDraft
<1>3. "idle" \in Places /\ "next" \in Places
  BY DEF Places
<1> HIDE DEF Places
<1>4. ASSUME Leave(p)
      PROVE  /\ pc' \in [Processes -> Places]
             /\ tick' \in Processes \cup {Nobody}
             /\ gate' \in Processes \cup {Nobody}
             /\ known' \in [Processes -> Files]
             /\ draft' \in [Processes -> [expected : Policy, next : Policy]]
             /\ todo' \in [Processes -> SUBSET Intents]
  BY <1>2, <1>3, <1>4 DEF TypeOK, Leave, Goto, Left
<1>5. ASSUME Refuse(p), ~ Leave(p)
      PROVE  /\ pc' \in [Processes -> Places]
             /\ tick' \in Processes \cup {Nobody}
             /\ gate' \in Processes \cup {Nobody}
             /\ known' \in [Processes -> Files]
             /\ draft' \in [Processes -> [expected : Policy, next : Policy]]
             /\ todo' \in [Processes -> SUBSET Intents]
  BY <1>3, <1>5 DEF TypeOK, Refuse, Drop, Goto, Left
<1> QED
  BY <1>4, <1>5

(* What a step announces is an event. *)
LEMMA EventTypes ==
  ASSUME NEW p \in Processes, NEW intent \in Intents,
         NEW kind \in {"none", "admitted", "done", "saved"}
  PROVE  /\ Quiet => event' \in [kind : {"none", "admitted", "done", "saved"},
                                 who : Processes \cup {Nobody}, intent : Intents]
         /\ Note(kind, p, intent) => event' \in [kind : {"none", "admitted", "done", "saved"},
                                                 who : Processes \cup {Nobody}, intent : Intents]
  BY DEF Quiet, NoEvent, Note, Intents

(* What is taken up is an intent. *)
LEMMA FirstType == \A wanted : First(wanted) \in Intents
  BY DEF First, Intents, Acting, Rebinding

(* The types hold at the start. *)
LEMMA InitTypes == Init => TypeOK
<1>1. FirstPolicy \in Policy
  BY DEF FirstPolicy, Policy, Modes
<1>2. FirstFiles \in Files /\ NoDraft \in [expected : Policy, next : Policy]
  BY <1>1 DEF FirstFiles, Files, NoDraft
<1> QED
  BY <1>1, <1>2 DEF Init, TypeOK, Places, NoEvent, Intents

(* Every step keeps the types. *)
LEMMA StepTypes == TypeOK /\ [Next]_vars => TypeOK'
<1> SUFFICES ASSUME TypeOK, [Next]_vars PROVE TypeOK'
  OBVIOUS
<1> USE FirstType DEF TypeOK
<1>1. ASSUME NEW a \in Actors, ActorStep(a) PROVE TypeOK'
  <2> a \in Processes
    BY DEF Processes
  <2>1. CASE BeginWake(a)
    BY <2>1, EventTypes DEF BeginWake, Goto, Places, Intents
  <2>2. CASE Look(a)
    BY <2>2, EventTypes DEF Look, Goto, Places, Intents
  <2>3. CASE ReadNatively(a)
    BY <2>3, EventTypes, LeavingTypes DEF ReadNatively, Goto, Places, Intents
  <2>4. CASE SnapshotBefore(a)
    BY <2>4, EventTypes DEF SnapshotBefore, Enters, Goto, Places, Intents
  <2>5. CASE SnapshotAfter(a)
    BY <2>5, EventTypes, LeavingTypes DEF SnapshotAfter, Exits, Goto, Places, Intents
  <2>6. CASE TakeUp(a)
    BY <2>6, EventTypes DEF TakeUp, Drop, Goto, Places, Intents
  <2>7. CASE ActionAuthorization(a)
    BY <2>7, EventTypes, LeavingTypes DEF ActionAuthorization, Enters, Goto, Places, Intents
  <2>8. CASE Decide(a)
    BY <2>8, EventTypes, LeavingTypes DEF Decide, Exits, Goto, Places, Intents
  <2>9. CASE Act(a)
    BY <2>9, EventTypes DEF Act, Drop, Goto, Places, Intents
  <2>10. CASE Forgo(a)
    BY <2>10, EventTypes, LeavingTypes DEF Forgo, Intents
  <2>11. CASE Done(a)
    BY <2>11, EventTypes, LeavingTypes DEF Done, Intents
  <2> QED
    BY <1>1, <2>1, <2>2, <2>3, <2>4, <2>5, <2>6, <2>7, <2>8, <2>9, <2>10, <2>11 DEF ActorStep
<1>2. ASSUME NEW r \in Routes, NEW intent \in {"admit", Rebinding}, BeginRoute(r, intent)
      PROVE  TypeOK'
  BY <1>2, EventTypes DEF BeginRoute, Goto, Places, Intents, Processes, Actors
<1>3. ASSUME NEW w \in Writers, WriterStep(w) PROVE TypeOK'
  <2> w \in Processes
    BY DEF Processes
  <2>1. CASE HashPolicy(w)
    BY <2>1, EventTypes DEF HashPolicy, Goto, Places, Intents, Files
  <2>2. CASE w \in Savers /\ ReadPolicy(w)
    <3>1. PICK mode \in Modes :
            draft' = [draft EXCEPT ![w].next = [mode |-> mode, edits |-> files.policy.edits \cup {w}]]
      BY <2>2 DEF ReadPolicy
    <3>2. [mode |-> mode, edits |-> files.policy.edits \cup {w}] \in Policy
      BY <2>2 DEF Files, Policy
    <3>3. draft' \in [Processes -> [expected : Policy, next : Policy]]
      BY <3>1, <3>2
    <3> QED
      BY <2>2, <3>3, EventTypes DEF ReadPolicy, Goto, Places, Intents
  <2>3. CASE BeginPause(w)
    BY <2>3, EventTypes DEF BeginPause, Goto, Places, Intents
  <2>4. CASE WritePause(w)
    <3>1. PICK until \in clock .. MaxTime : files' = [files EXCEPT !.pause = until]
      BY <2>4 DEF WritePause
    <3>2. until \in Nat
      BY ConstantsAssumption DEF ConstantsAssumption
    <3>3. files' \in Files
      BY <3>1, <3>2 DEF Files
    <3> QED
      BY <2>4, <3>3, EventTypes, LeavingTypes DEF WritePause, Intents
  <2>5. CASE TakeTick(w)
    BY <2>5, EventTypes, LeavingTypes DEF TakeTick, Goto, Places, Intents
  <2>6. CASE TakeGate(w)
    BY <2>6, EventTypes DEF TakeGate, Enters, Goto, Places, Intents
  <2>7. CASE KeepPrevious(w)
    BY <2>7, EventTypes, LeavingTypes DEF KeepPrevious, Goto, Places, Intents, Files
  <2>8. CASE ReplacePolicy(w)
    BY <2>8, EventTypes, LeavingTypes DEF ReplacePolicy, Intents, Files
  <2> QED
    BY <1>3, <2>1, <2>2, <2>3, <2>4, <2>5, <2>6, <2>7, <2>8 DEF WriterStep
<1>4. ASSUME NEW p \in Processes, GiveUp(p) \/ Die(p) PROVE TypeOK'
  BY <1>4, EventTypes, LeavingTypes DEF GiveUp, Die, Intents
<1>5. CASE PlaceHold
  BY <1>5, ConstantsAssumption DEF PlaceHold, ConstantsAssumption, Files, Quiet, NoEvent, Intents
<1>6. CASE Tick
  BY <1>6 DEF Tick, Quiet, NoEvent, Intents
<1>7. CASE UNCHANGED vars
  BY <1>7 DEF vars
<1> QED
  BY <1>1, <1>2, <1>3, <1>4, <1>5, <1>6, <1>7 DEF Next

(* Every variable keeps its type. *)
THEOREM TypeCorrect == Spec => []TypeOK
  BY InitTypes, StepTypes, PTL DEF Spec

-----------------------------------------------------------------------------
(* The inductive invariant: who is where, and what cannot change while it  *)
(* is there.                                                               *)

InGate == {"reread", "decide", "save", "replace", "pause"}
InTick == {"publish", "save", "replace", "pause"}
ActorPlaces == {"idle", "snapshot", "reread", "look", "next", "authorize", "decide", "act"}
SaverPlaces == {"idle", "hashed", "write", "publish", "save", "replace"}
PauserPlaces == {"idle", "write", "publish", "pause"}

(* Everyone keeps to the places of its kind. *)
Role(p) ==
  /\ p \in Actors => pc[p] \in ActorPlaces
  /\ p \in Savers => pc[p] \in SaverPlaces
  /\ p \in Pausers => pc[p] \in PauserPlaces

(* A lock is held by whoever is where it is needed. *)
Holds(p) ==
  /\ pc[p] \in InGate => gate = p
  /\ p \in Wakes /\ pc[p] # "idle" => tick = p
  /\ p \in Writers /\ pc[p] \in InTick => tick = p

(* The policy an actor goes by is still in force: for a wake all along,    *)
(* since tick.lock keeps every writer out, and for an admission while it   *)
(* holds action-control.lock.                                              *)
PolicyStands(p) ==
  /\ p \in Wakes /\ pc[p] \in {"look", "next", "authorize", "decide", "act"}
       => known[p].policy = files.policy
  /\ p \in Actors /\ pc[p] = "decide" => known[p].policy = files.policy

(* What a wake has been admitted to do it may still do when it does it. *)
MayStill(p) ==
  p \in Wakes =>
    /\ todo[p] \subseteq Acting \cup {Rebinding}
    /\ pc[p] \in {"authorize", "decide", "act"} => todo[p] # {}
    /\ pc[p] = "act" => files.policy.mode = "automate" /\ ~ Paused

(* An edit contains every edit the policy it expects contains. *)
DraftGrows(p) ==
  p \in Savers =>
    /\ pc[p] # "idle" => draft[p].expected.edits \subseteq files.policy.edits
    /\ pc[p] \in {"write", "publish", "save", "replace"}
         => draft[p].expected.edits \subseteq draft[p].next.edits
    /\ pc[p] = "replace" => draft[p].expected = files.policy

Sound(p) == Role(p) /\ Holds(p) /\ PolicyStands(p) /\ MayStill(p) /\ DraftGrows(p)

EventsSound == AdmittedUnderControl /\ WakesObeyAtOnce

IInv == TypeOK /\ (\A p \in Processes : Sound(p)) /\ EventsSound

(* The kinds of processes do not overlap, and none is called free. *)
LEMMA Kinds ==
  /\ \A w \in Wakes : w \in Actors /\ w \notin Routes /\ w \notin Writers
  /\ \A a \in Actors : a \notin Writers /\ a \notin Savers /\ a \notin Pausers
  /\ \A s \in Savers : s \notin Pausers /\ s \in Writers /\ s \notin Actors
  /\ \A p \in Pausers : p \notin Savers /\ p \in Writers /\ p \notin Actors
  /\ \A r \in Routes : r \notin Wakes /\ r \in Actors
  /\ \A p \in Processes : p # Nobody
  BY ConstantsAssumption DEF ConstantsAssumption, Actors, Writers, Processes, Nobody

(* It holds at the start. *)
LEMMA InitIInv == Init => IInv
<1> SUFFICES ASSUME Init PROVE IInv
  OBVIOUS
<1>1. TypeOK
  BY InitTypes
<1>2. ASSUME NEW p \in Processes PROVE Sound(p)
  BY DEF Init, Sound, Role, Holds, PolicyStands, MayStill, DraftGrows, InGate, InTick,
         ActorPlaces, SaverPlaces, PauserPlaces, FirstFiles, FirstPolicy, NoDraft
<1>3. EventsSound
  BY DEF Init, EventsSound, AdmittedUnderControl, WakesObeyAtOnce, NoEvent
<1> QED
  BY <1>1, <1>2, <1>3 DEF IInv

(* What a step of p that changes no file leaves as it is. *)
Moves(p) ==
  /\ clock' = clock /\ files' = files
  /\ \A q \in Processes \ {p} : /\ pc'[q] = pc[q] /\ known'[q] = known[q]
                               /\ draft'[q] = draft[q] /\ todo'[q] = todo[q]
  /\ tick' = tick \/ tick = Nobody \/ tick = p
  /\ gate' = gate \/ gate = Nobody \/ gate = p

(* Such a step disturbs nobody else. *)
LEMMA OthersStaySound ==
  ASSUME IInv, NEW p \in Processes, Moves(p)
  PROVE  \A q \in Processes \ {p} : Sound(q)'
<1> SUFFICES ASSUME NEW q \in Processes \ {p} PROVE Sound(q)'
  OBVIOUS
<1>1. Sound(q) /\ q # Nobody
  BY Kinds DEF IInv
<1>2. Role(q)' /\ PolicyStands(q)' /\ DraftGrows(q)'
  BY <1>1 DEF Moves, Sound, Role, PolicyStands, DraftGrows
<1>3. Holds(q)'
  BY <1>1 DEF Moves, Sound, Holds
<1>4. MayStill(q)'
  BY <1>1 DEF Moves, Sound, MayStill, Paused
<1> QED
  BY <1>2, <1>3, <1>4 DEF Sound

(* Leaving is sound, and so is being refused. *)
LEMMA LeavingSound ==
  ASSUME IInv, NEW p \in Processes, files' = files, clock' = clock
  PROVE  /\ Leave(p) => Moves(p) /\ Sound(p)'
         /\ p \in Actors /\ pc[p] \in {"authorize", "decide"} /\ Refuse(p)
              => Moves(p) /\ Sound(p)'
<1> USE Kinds
<1>0. Sound(p) /\ TypeOK
  BY DEF IInv
<1>1. ASSUME Leave(p) PROVE Moves(p) /\ Sound(p)'
  BY <1>0, <1>1 DEF TypeOK, Leave, Left, Goto, Moves, Sound, Role, Holds, PolicyStands,
     MayStill, DraftGrows, InGate, InTick, ActorPlaces, SaverPlaces, PauserPlaces
<1>2. ASSUME p \in Actors, pc[p] \in {"authorize", "decide"}, Refuse(p), ~ Leave(p)
      PROVE  Moves(p) /\ Sound(p)'
  <2>1. Drop(p) /\ Goto(p, "next") /\ gate' = Left(gate, p) /\ UNCHANGED <<tick, known, draft>>
    BY <1>2 DEF Refuse
  <2>2. Moves(p)
    BY <1>0, <2>1 DEF TypeOK, Drop, Goto, Left, Moves
  <2>3. pc'[p] = "next" /\ todo'[p] \subseteq todo[p]
    BY <1>0, <2>1 DEF TypeOK, Drop, Goto
  <2>4. Role(p)' /\ Holds(p)'
    BY <1>0, <1>2, <2>1, <2>3 DEF Sound, Role, Holds, InGate, InTick, ActorPlaces
  <2>5. PolicyStands(p)' /\ MayStill(p)' /\ DraftGrows(p)'
    BY <1>0, <1>2, <2>1, <2>3 DEF Sound, PolicyStands, MayStill, DraftGrows
  <2> QED
    BY <2>2, <2>4, <2>5 DEF Sound
<1> QED
  BY <1>1, <1>2

(* What is taken up of something is part of it, and of a wake's wants it   *)
(* is never an admission.                                                  *)
LEMMA FirstOfWake ==
  \A wanted \in SUBSET (Acting \cup {Rebinding}) :
    wanted # {} => First(wanted) \in wanted /\ First(wanted) # "admit"
  BY DEF First, Acting, Rebinding

(* A step that says nothing leaves nothing to answer for. *)
LEMMA QuietSound == Quiet => EventsSound'
  BY DEF Quiet, NoEvent, EventsSound, AdmittedUnderControl, WakesObeyAtOnce

(* Every step of an actor is sound. *)
LEMMA ActorStepSound ==
  ASSUME IInv, NEW a \in Actors, ActorStep(a)
  PROVE  Moves(a) /\ Sound(a)' /\ EventsSound'
<1> a \in Processes
  BY DEF Processes
<1>0. Sound(a) /\ TypeOK
  BY DEF IInv
<1> USE <1>0, Kinds, QuietSound DEF Goto
<1>1. CASE a \in Wakes /\ BeginWake(a)
  BY <1>1 DEF TypeOK, Moves, Sound, Role, Holds, PolicyStands, MayStill, DraftGrows, InGate, InTick, ActorPlaces,
     BeginWake
<1>2. CASE a \in Wakes /\ Look(a)
  BY <1>2 DEF TypeOK, Moves, Sound, Role, Holds, PolicyStands, MayStill, DraftGrows, InGate, InTick, ActorPlaces,
     Look
<1>3. CASE a \in Routes /\ ReadNatively(a)
  BY <1>3, LeavingSound DEF TypeOK, Moves, Sound, Role, Holds, PolicyStands, MayStill, DraftGrows, InGate, InTick, ActorPlaces,
     ReadNatively
<1>4. CASE SnapshotBefore(a)
  BY <1>4 DEF TypeOK, Moves, Sound, Role, Holds, PolicyStands, MayStill, DraftGrows, InGate, InTick, ActorPlaces,
     SnapshotBefore, Enters
<1>5. CASE SnapshotAfter(a)
  BY <1>5, LeavingSound DEF TypeOK, Moves, Sound, Role, Holds, PolicyStands, MayStill, DraftGrows, InGate, InTick, ActorPlaces,
     SnapshotAfter, Exits
<1>6. CASE TakeUp(a)
  BY <1>6 DEF TypeOK, Moves, Sound, Role, Holds, PolicyStands, MayStill, DraftGrows, InGate, InTick, ActorPlaces,
     TakeUp, Drop
<1>7. CASE ActionAuthorization(a)
  BY <1>7, LeavingSound DEF TypeOK, Moves, Sound, Role, Holds, PolicyStands, MayStill, DraftGrows, InGate, InTick, ActorPlaces,
     ActionAuthorization, Enters
<1>8. CASE Decide(a)
  <2> DEFINE intent == First(todo[a])
  <2>1. CASE Permits(intent, known[a].policy) /\ Note("admitted", a, intent) /\ Goto(a, "act")
             /\ Exits /\ UNCHANGED <<tick, known, draft, todo>> /\ UNCHANGED <<clock, files, previous>>
    <3>1. Permits(intent, files.policy) /\ gate = a
      BY <1>8, <2>1 DEF Decide, Sound, PolicyStands, Holds, InGate
    <3>2. a \in Wakes => files.policy.mode = "automate" /\ ~ Paused
      BY <1>8, <3>1, FirstOfWake DEF Decide, Sound, MayStill, Permits
    <3>3. Moves(a)
      BY <2>1, <3>1 DEF TypeOK, Moves, Exits
    <3>4. Sound(a)'
      BY <1>8, <2>1, <3>2 DEF TypeOK, Decide, Exits, Paused, Sound, Role, Holds, PolicyStands, MayStill, DraftGrows, InGate, InTick, ActorPlaces
    <3>5. EventsSound'
      BY <2>1, <3>1 DEF Note, EventsSound, AdmittedUnderControl, WakesObeyAtOnce, Permits, Paused, Held
    <3> QED
      BY <3>3, <3>4, <3>5
  <2>2. CASE Quiet /\ Refuse(a) /\ UNCHANGED <<clock, files, previous>>
    BY <1>8, <2>2, LeavingSound DEF Decide
  <2> QED
    BY <1>8, <2>1, <2>2 DEF Decide
<1>9. CASE Act(a)
  <2>1. Moves(a) /\ Sound(a)'
    BY <1>9 DEF TypeOK, Act, Drop, Moves, Sound, Role, Holds, PolicyStands, MayStill, DraftGrows, InGate, InTick, ActorPlaces
  <2>2. EventsSound'
    BY <1>9 DEF Act, Note, EventsSound, AdmittedUnderControl, WakesObeyAtOnce, Paused, Sound, MayStill
  <2> QED
    BY <2>1, <2>2
<1>10. CASE Forgo(a)
  BY <1>10, LeavingSound DEF Forgo
<1>11. CASE Done(a)
  BY <1>11, LeavingSound DEF Done
<1> QED
  BY <1>1, <1>2, <1>3, <1>4, <1>5, <1>6, <1>7, <1>8, <1>9, <1>10, <1>11 DEF ActorStep

(* Every step of a writer that changes no file of the three is sound. *)
LEMMA WriterStepSound ==
  ASSUME IInv, TypeOK', NEW w \in Writers, WriterStep(w), files' = files
  PROVE  Moves(w) /\ Sound(w)' /\ EventsSound'
<1> w \in Processes
  BY DEF Processes
<1>0. Sound(w) /\ TypeOK
  BY DEF IInv
<1> USE <1>0, Kinds, QuietSound DEF Goto
<1>1. CASE w \in Savers /\ HashPolicy(w)
  BY <1>1 DEF TypeOK, Moves, Sound, Role, Holds, PolicyStands, MayStill, DraftGrows,
         InGate, InTick, SaverPlaces, PauserPlaces, HashPolicy
<1>2. CASE w \in Savers /\ ReadPolicy(w)
  BY <1>2 DEF TypeOK, Moves, Sound, Role, Holds, PolicyStands, MayStill, DraftGrows,
         InGate, InTick, SaverPlaces, PauserPlaces, ReadPolicy
<1>3. CASE w \in Pausers /\ BeginPause(w)
  BY <1>3 DEF TypeOK, Moves, Sound, Role, Holds, PolicyStands, MayStill, DraftGrows,
         InGate, InTick, SaverPlaces, PauserPlaces, BeginPause
<1>4. CASE TakeTick(w)
  BY <1>4, LeavingSound DEF TypeOK, Moves, Sound, Role, Holds, PolicyStands, MayStill, DraftGrows,
         InGate, InTick, SaverPlaces, PauserPlaces, TakeTick
<1>5. CASE TakeGate(w)
  BY <1>5 DEF TypeOK, Moves, Sound, Role, Holds, PolicyStands, MayStill, DraftGrows,
         InGate, InTick, SaverPlaces, PauserPlaces, TakeGate, Enters
<1>6. CASE w \in Savers /\ KeepPrevious(w)
  BY <1>6, LeavingSound DEF TypeOK, Moves, Sound, Role, Holds, PolicyStands, MayStill, DraftGrows,
         InGate, InTick, SaverPlaces, PauserPlaces, KeepPrevious, PolicyChanged
<1>7. CASE w \in Savers /\ ReplacePolicy(w)
  <2>1. Leave(w) /\ clock' = clock
    BY <1>7 DEF ReplacePolicy
  <2>2. EventsSound'
    BY <1>7 DEF ReplacePolicy, Note, EventsSound, AdmittedUnderControl, WakesObeyAtOnce
  <2> QED
    BY <2>1, <2>2, LeavingSound
<1>8. CASE w \in Pausers /\ WritePause(w)
  BY <1>8, LeavingSound DEF WritePause
<1> QED
  BY <1>1, <1>2, <1>3, <1>4, <1>5, <1>6, <1>7, <1>8 DEF WriterStep

(* Whoever publishes holds both locks: no wake is at work, and nobody is   *)
(* deciding.                                                               *)
LEMMA PublishingAlone ==
  ASSUME IInv, NEW w \in Writers, pc[w] \in {"replace", "pause"}
  PROVE  /\ \A a \in Wakes : pc[a] = "idle"
         /\ \A q \in Processes \ {w} : pc[q] \notin InGate
<1> w \in Processes
  BY DEF Processes
<1>1. tick = w /\ gate = w
  BY DEF IInv, Sound, Holds, InGate, InTick
<1>2. ASSUME NEW a \in Wakes PROVE pc[a] = "idle"
  BY <1>1, Kinds DEF IInv, Sound, Holds, Processes, Actors
<1>3. ASSUME NEW q \in Processes \ {w} PROVE pc[q] \notin InGate
  BY <1>1 DEF IInv, Sound, Holds
<1> QED
  BY <1>2, <1>3

(* Replacing the policy, or a pause, is sound for everyone. *)
LEMMA PublishingSound ==
  ASSUME IInv, TypeOK', NEW w \in Writers,
         (w \in Savers /\ ReplacePolicy(w)) \/ (w \in Pausers /\ WritePause(w))
  PROVE  /\ \A q \in Processes : Sound(q)'
         /\ EventsSound'
         /\ files.policy.edits \subseteq files'.policy.edits
<1> w \in Processes
  BY DEF Processes
<1>0. TypeOK /\ Leave(w) /\ clock' = clock
  BY DEF IInv, ReplacePolicy, WritePause
<1>1. pc[w] \in {"replace", "pause"}
  BY DEF ReplacePolicy, WritePause
<1>2. files.policy.edits \subseteq files'.policy.edits
  BY <1>0 DEF IInv, Sound, DraftGrows, ReplacePolicy, WritePause, TypeOK, Files, Policy
<1>3. EventsSound'
  BY QuietSound DEF ReplacePolicy, WritePause, Note, EventsSound, AdmittedUnderControl,
                    WakesObeyAtOnce
<1>4. ASSUME NEW q \in Processes PROVE Sound(q)'
  <2>1. Sound(q) /\ q # Nobody
    BY Kinds DEF IInv
  <2>2. CASE q = w
    BY <1>0, <2>2, Kinds DEF TypeOK, Leave, Left, Goto, Sound, Role, Holds, PolicyStands,
       MayStill, DraftGrows, InGate, InTick, ActorPlaces, SaverPlaces, PauserPlaces
  <2>3. CASE q # w
    <3>1. /\ pc'[q] = pc[q] /\ known'[q] = known[q] /\ draft'[q] = draft[q]
          /\ todo'[q] = todo[q]
      BY <1>0, <2>3 DEF TypeOK, Leave, Goto
    <3>2. /\ q \in Wakes => pc[q] = "idle"
          /\ pc[q] \notin InGate
      BY <1>1, <2>3, PublishingAlone
    <3>3. Role(q)' /\ PolicyStands(q)' /\ MayStill(q)'
      BY <2>1, <3>1, <3>2 DEF Sound, Role, PolicyStands, MayStill, InGate
    <3>4. Holds(q)'
      BY <1>0, <2>1, <2>3, <3>1, <3>2 DEF Sound, Holds, Leave, Left
    <3>5. DraftGrows(q)'
      BY <1>2, <2>1, <3>1, <3>2 DEF Sound, DraftGrows, InGate
    <3> QED
      BY <3>3, <3>4, <3>5 DEF Sound
  <2> QED
    BY <2>2, <2>3
<1> QED
  BY <1>2, <1>3, <1>4

(* Every step keeps the invariant, and every edit. *)
LEMMA StepIInv ==
  IInv /\ [Next]_vars => IInv' /\ files.policy.edits \subseteq files'.policy.edits
<1> SUFFICES ASSUME IInv, [Next]_vars
             PROVE  IInv' /\ files.policy.edits \subseteq files'.policy.edits
  OBVIOUS
<1>0. TypeOK /\ TypeOK'
  BY StepTypes DEF IInv
<1>1. ASSUME NEW p \in Processes, Moves(p), Sound(p)', EventsSound'
      PROVE  IInv' /\ files.policy.edits \subseteq files'.policy.edits
  BY <1>0, <1>1, OthersStaySound DEF IInv, Moves
<1>2. ASSUME NEW a \in Actors, ActorStep(a)
      PROVE  IInv' /\ files.policy.edits \subseteq files'.policy.edits
  BY <1>1, <1>2, ActorStepSound DEF Processes
<1>3. ASSUME NEW r \in Routes, NEW intent \in {"admit", Rebinding}, BeginRoute(r, intent)
      PROVE  IInv' /\ files.policy.edits \subseteq files'.policy.edits
  <2>1. r \in Processes /\ Sound(r)
    BY DEF IInv, Processes, Actors
  <2>2. Moves(r) /\ Sound(r)'
    BY <1>0, <1>3, <2>1, Kinds DEF BeginRoute, Goto, TypeOK, Moves, Sound, Role, Holds,
       PolicyStands, MayStill, DraftGrows, InGate, InTick, ActorPlaces
  <2> QED
    BY <1>1, <1>3, <2>1, <2>2, QuietSound DEF BeginRoute
<1>4. ASSUME NEW w \in Writers, WriterStep(w)
      PROVE  IInv' /\ files.policy.edits \subseteq files'.policy.edits
  <2>1. CASE files' = files
    BY <1>0, <1>1, <1>4, <2>1, WriterStepSound DEF Processes
  <2>2. CASE (w \in Savers /\ ReplacePolicy(w)) \/ (w \in Pausers /\ WritePause(w))
    BY <1>0, <2>2, PublishingSound DEF IInv
  <2> QED
    BY <1>4, <2>1, <2>2 DEF WriterStep, HashPolicy, ReadPolicy, BeginPause, TakeTick,
                            TakeGate, KeepPrevious
<1>5. ASSUME NEW p \in Processes, GiveUp(p) \/ Die(p)
      PROVE  IInv' /\ files.policy.edits \subseteq files'.policy.edits
  <2>1. files' = files /\ clock' = clock /\ Quiet
    BY <1>5 DEF GiveUp, Die
  <2>2. pc[p] = "authorize" => p \in Actors
    BY DEF IInv, Sound, Role, SaverPlaces, PauserPlaces, Processes, Writers
  <2>3. Moves(p) /\ Sound(p)'
    BY <1>5, <2>1, <2>2, LeavingSound DEF GiveUp, Die
  <2> QED
    BY <1>1, <2>1, <2>3, QuietSound
<1>6. CASE PlaceHold \/ Tick \/ UNCHANGED vars
  <2>1. UNCHANGED <<tick, gate, pc, known, draft, todo>> /\ files'.policy = files.policy
    BY <1>0, <1>6 DEF PlaceHold, Tick, vars, TypeOK, Files
  <2>2. ~ Paused => ~ Paused'
    BY <1>0, <1>6, ConstantsAssumption DEF PlaceHold, Tick, vars, TypeOK, Files, Paused,
                                           ConstantsAssumption
  <2>3. \A p \in Processes : Sound(p)'
    BY <2>1, <2>2 DEF IInv, Sound, Role, Holds, PolicyStands, MayStill, DraftGrows
  <2>4. EventsSound'
    BY <1>6, QuietSound DEF PlaceHold, Tick, vars, IInv, EventsSound, AdmittedUnderControl,
                            WakesObeyAtOnce, Permits, Paused, Held
  <2> QED
    BY <1>0, <2>1, <2>3, <2>4 DEF IInv
<1> QED
  BY <1>2, <1>3, <1>4, <1>5, <1>6 DEF Next

(* No action is admitted but under the settings of that very moment        *)
(* (control.rs action_authorization), for any number of processes.         *)
THEOREM AlwaysAdmittedUnderControl == Spec => []AdmittedUnderControl
<1>1. IInv => AdmittedUnderControl
  BY DEF IInv, EventsSound
<1> QED
  BY <1>1, InitIInv, StepIInv, PTL DEF Spec

(* No wake acts on an account once automation has been turned off          *)
(* (tick.lock, wake.rs collect), for any number of processes.              *)
THEOREM WakesAlwaysObey == Spec => []WakesObeyAtOnce
<1>1. IInv => WakesObeyAtOnce
  BY DEF IInv, EventsSound
<1> QED
  BY <1>1, InitIInv, StepIInv, PTL DEF Spec

(* No edit of the policy undoes another (management.ps1                    *)
(* Save-Hotpl8Policy), for any number of editors.                          *)
THEOREM EditsNeverLost == Spec => NoEditLost
<1>1. IInv /\ [Next]_vars => [files.policy.edits \subseteq files'.policy.edits]_vars
  BY StepIInv
<1> QED
  BY <1>1, InitIInv, StepIInv, PTL DEF Spec, NoEditLost

=============================================================================
