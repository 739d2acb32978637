-------------------------- MODULE MCCodexAdmission --------------------------
(* The admission of a session to one of two homes with two subscriptions:  *)
(* enough for a reading to change the choice, for a home to be set aside   *)
(* while the other is tried, and for one sign-in to take the place of      *)
(* another.  And, each by itself, one read of one home, of everything or   *)
(* of who is signed in, which shares no state with it.                     *)
EXTENDS CodexAdmission, CodexWire, TLC

CONSTANTS a, b, x, y

VARIABLE part

TwoPlans == {<<1, 2, 3, 4>>, <<1, 2, 4>>}
Preferred == <<a, b>>
TimeFor(refresh) == IF refresh THEN 3 ELSE 5
WaitFor(refresh, background) == IF background THEN 0 ELSE IF refresh THEN 1 ELSE 2

Asked == [background |-> FALSE, previous |-> Nowhere, account |-> Nobody, exclude |-> {}]
              @@ [operation |-> "select"]
AllRequests ==
  {Asked, [Asked EXCEPT !.previous = a], [Asked EXCEPT !.exclude = {a}],
   [Asked EXCEPT !.operation = "connect"],
   [Asked EXCEPT !.background = TRUE, !.previous = b],
   [Asked EXCEPT !.operation = "refresh", !.previous = a, !.account = x]}

bothVars == <<part, vars, wire>>

BothInit ==
  /\ part \in {"request", "read"}
  /\ Init
  /\ control.stop = "" /\ (control.hold => held = {})
  /\ part = "read" =>
       ~ control.hold /\ held = {} /\ \A h \in Homes : signed[h] = x /\ record[h].who = Nobody /\ shown[h] = 0
  /\ IF part = "read" THEN WireInit ELSE WireOver

RequestRuns == part = "request" /\ Next /\ UNCHANGED <<part, wire>>
ReadRuns == part = "read" /\ WireNext /\ UNCHANGED <<part, vars>>

(* What does not run has come to rest: its fairness asks nothing. *)
BothSpec ==
  BothInit /\ [][RequestRuns \/ ReadRuns]_bothVars /\ WF_vars(Step) /\ WireFairness

=============================================================================
