------------------------------ MODULE MCApart ------------------------------
(* Two parts of the system that share no state, each by itself: the queue   *)
(* of Codex homes, with three homes of which one is never at fault, and the *)
(* delivery of three releases, of which one writes state the one before it  *)
(* cannot read.  Which one runs is chosen at the start.                     *)
EXTENDS Delivery, SequencesExt

CONSTANTS Homes, Sound, Budget, ReadBudget, BusyPause, Quick, Lengths, Holds, RetryAfter

VARIABLES part,
          queue, retry, disabled, run, result, since

Q == INSTANCE CodexQueue

ASSUME QueueAssumption == Q!ConstantsAssumption

queueVars == <<queue, retry, disabled, run, result, since>>
all == <<part, queueVars, delivery>>

Init ==
  /\ part \in {"queue", "delivery"}
  /\ Q!Init /\ DeliveryInit
  /\ part # "queue" => queue = SetToSeq(Homes)

QueueRuns == part = "queue" /\ Q!Next /\ UNCHANGED <<part, delivery>>
DeliveryRuns == part = "delivery" /\ DeliveryNext /\ UNCHANGED <<part, queueVars>>

Next == QueueRuns \/ DeliveryRuns

Fairness == (part = "queue" => Q!Fairness) /\ (part = "delivery" => DeliveryFairness)

Spec == Init /\ [][Next]_all /\ Fairness

-----------------------------------------------------------------------------
(* codex_collect.rs: homes for which there was no time take turns, and a    *)
(* home that answers quickly is asked again and again, however slow others  *)
(* are.  It is also read again and again, unless its turn keeps coming when *)
(* less than an answer takes is left of a collection's time.                *)
QueueTakesTurns ==
  Q!TurnsTaken /\ (part = "queue" => Q!EveryoneAsked /\ Q!ReadUnlessCutShort)

(* runner.py, door.rs, watch.rs: updates come to an end, and the dashboards *)
(* follow them.                                                             *)
DeliveredInTheEnd == Converges /\ DashboardsFollow

=============================================================================
