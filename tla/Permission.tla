----------------------------- MODULE Permission -----------------------------
(***************************************************************************)
(* What may be done with which account: the decision every actor asks for  *)
(* (native/src/decision.rs), for its intent, under the settings and the    *)
(* safety state of the moment.  Which account is proposed is decided       *)
(* elsewhere (Selection); here it is given.                                *)
(***************************************************************************)
EXTENDS Naturals, Sequences, FiniteSets

Nobody == "none"
Good == "eligible"
Intents == {"observe", "admit", "rebind", "refresh", "control", "warm", "probe"}

VARIABLES table,    \* what is observed of the accounts, a row each
          context   \* for whom, for what and under which settings a decision is asked for

Row == [id : STRING, identity : STRING, reason : STRING]
Asking == [intent : Intents, previous : STRING, pin : STRING, proposed : STRING, actionSlot : STRING,
           mode : {"automate", "monitor"}, hold : BOOLEAN, paused : BOOLEAN, switching : BOOLEAN, actionEnabled : BOOLEAN,
           actionEligible : BOOLEAN, actionBlock : BOOLEAN, safetyInvalid : BOOLEAN, identityKnown : BOOLEAN]

(* The observations and the context are a decision's own. *)
TypeOfInputs == table \in Seq(Row) /\ context \in Asking

(* A row is one account's observation: its id, the identity behind it where *)
(* it is known, and the reason it may not be chosen for.                    *)
Rows(rows, id) == {i \in DOMAIN rows : rows[i].id = id}
SameIdentity(rows, i) ==
  {j \in DOMAIN rows : rows[i].identity # Nobody /\ rows[j].identity = rows[i].identity}

(* Duplicates are all excluded; which came first does not matter. *)
Distinct(rows) ==
  [i \in DOMAIN rows |->
     IF Cardinality(Rows(rows, rows[i].id)) > 1 THEN [rows[i] EXCEPT !.reason = "duplicate_observation"]
     ELSE IF Cardinality(SameIdentity(rows, i)) > 1 THEN [rows[i] EXCEPT !.reason = "duplicate_subscription"]
     ELSE rows[i]]

Unbound(row) ==
  row.reason \in {"disabled", "binding_changed", "duplicate_observation", "duplicate_subscription"}

EligibleIds(rows) == {rows[i].id : i \in {j \in DOMAIN rows : rows[j].reason = Good}}

(* The one row of an account that is still the one an action was meant for. *)
BoundTo(rows, id) == \E i \in DOMAIN rows : Rows(rows, id) = {i} /\ ~ Unbound(rows[i])
ValidFor(rows, id) == \E i \in Rows(rows, id) : rows[i].reason \in {Good, "below_margin"}

Acting(c) == c.intent \in {"warm", "probe"}
Answer(target, suppression) == [target |-> target, suppression |-> suppression]

(* A token is refreshed for the account it was issued for, whatever the     *)
(* settings say.                                                            *)
Refresh(rows, c) ==
  Answer(c.previous,
         IF c.previous = Nobody \/ ~ c.identityKnown THEN "binding_unknown"
         ELSE IF ~ BoundTo(rows, c.previous) THEN "binding_changed" ELSE Nobody)

(* Permission for an operation its caller has prepared. *)
ActOn(rows, c) ==
  Answer(c.actionSlot,
         IF c.actionSlot = Nobody \/ Cardinality(Rows(rows, c.actionSlot)) # 1 THEN "action_target_unknown"
         ELSE IF ~ BoundTo(rows, c.actionSlot) THEN "binding_changed"
         ELSE IF c.intent = "warm" /\ ~ ValidFor(rows, c.actionSlot) THEN "action_ineligible"
         ELSE IF ~ c.actionEligible THEN "action_ineligible" ELSE Nobody)

Pinned(rows, c) ==
  IF BoundTo(rows, c.pin) THEN Answer(c.pin, Nobody) ELSE Answer(c.proposed, "binding_changed")

(* A hold keeps the account that is in use, or nothing. *)
Held(rows, c) ==
  IF c.previous = Nobody THEN Answer(Nobody, "binding_unknown")
  ELSE IF c.previous \notin EligibleIds(rows) THEN Answer(Nobody, "held_account_unavailable")
  ELSE Answer(c.previous, IF c.intent = "rebind" THEN "selection_held" ELSE Nobody)

Wanted(rows, c) ==
  CASE Acting(c) -> ActOn(rows, c)
    [] c.intent = "admit" /\ c.pin # Nobody -> Pinned(rows, c)
    [] ~ Acting(c) /\ ~ (c.intent = "admit" /\ c.pin # Nobody) /\ c.hold -> Held(rows, c)
    [] OTHER -> Answer(c.proposed, Nobody)

(* Slip: a pause is for switching only. *)
SettingsSwitching(c) ==
  IF c.mode # "automate" THEN "monitor_only"
  ELSE IF c.intent = "rebind" /\ c.paused THEN "automation_paused"
  ELSE IF c.intent = "rebind" /\ ~ c.switching THEN "switching_disabled"
  ELSE IF Acting(c) /\ ~ c.actionEnabled THEN "action_disabled"
  ELSE IF c.actionBlock THEN "action_blocked" ELSE Nobody

(* What the settings say against doing anything of one's own accord. *)
Settings(c) ==
  IF c.mode # "automate" THEN "monitor_only"
  ELSE IF c.paused THEN "automation_paused"
  ELSE IF c.intent = "rebind" /\ ~ c.switching THEN "switching_disabled"
  ELSE IF Acting(c) /\ ~ c.actionEnabled THEN "action_disabled"
  ELSE IF c.actionBlock THEN "action_blocked" ELSE Nobody

FirstReason(reasons) ==
  IF \A i \in DOMAIN reasons : reasons[i] = Nobody THEN Nobody
  ELSE reasons[CHOOSE i \in DOMAIN reasons : reasons[i] # Nobody /\ \A j \in 1 .. i - 1 : reasons[j] = Nobody]

(* Get-Hotpl8ProviderDecision *)
ProviderDecision(observed, c) ==
  LET rows == Distinct(observed)
      wanted == Wanted(rows, c)
      rebind == c.intent = "rebind"
  IN IF c.intent = "control" THEN Answer(c.previous, Nobody)
     ELSE IF c.safetyInvalid THEN Answer(c.proposed, "safety_state_invalid")
     ELSE IF c.intent = "refresh" THEN Refresh(rows, c)
     ELSE Answer(wanted.target,
                 FirstReason(<<IF rebind \/ Acting(c) THEN Settings(c) ELSE Nobody,
                         wanted.suppression,
                         IF rebind /\ c.previous = Nobody THEN "binding_unknown" ELSE Nobody,
                         IF wanted.target = Nobody THEN "unavailable" ELSE Nobody,
                         IF c.intent = "observe" THEN "observe_only" ELSE Nobody>>))

Permitted(rows, c) == ProviderDecision(rows, c).suppression = Nobody

-----------------------------------------------------------------------------
(* Properties *)

(* The same context with one more thing against acting. *)
Stricter(c) ==
  {[c EXCEPT !.mode = "monitor"], [c EXCEPT !.paused = TRUE], [c EXCEPT !.switching = FALSE],
   [c EXCEPT !.actionEnabled = FALSE], [c EXCEPT !.actionEligible = FALSE],
   [c EXCEPT !.actionBlock = TRUE], [c EXCEPT !.safetyInvalid = TRUE], [c EXCEPT !.identityKnown = FALSE]}

(* Nothing that speaks against acting ever opens a way: with it the answer  *)
(* is the same as without, or no.  A hold never moves anybody: what it      *)
(* permits of its own accord stays on the account in use.  No account that  *)
(* is one of two under one name or one subscription is acted on, and while  *)
(* settings forbid acting only admissions and a token's refresh go on.      *)
Restrained(rows, c) ==
  LET decided == ProviderDecision(rows, c) IN
  Permitted(rows, c) /\ c.intent # "control" =>
    /\ \A s \in Stricter(c) : Permitted(rows, s) => ProviderDecision(rows, s) = decided
    /\ c.intent \in {"refresh", "warm", "probe"} \/ (c.intent = "admit" /\ c.pin # Nobody) =>
         \A i, j \in DOMAIN rows :
           decided.target \in {rows[i].id, rows[j].id} /\ i # j =>
             /\ rows[i].id # rows[j].id
             /\ rows[i].identity = rows[j].identity => rows[i].identity = Nobody
    /\ c.hold /\ c.intent \in {"admit", "rebind"} /\ (c.pin = Nobody \/ c.intent = "rebind") =>
         decided.target = c.previous /\ c.intent = "admit"
    /\ c.paused \/ c.mode # "automate" \/ c.actionBlock => c.intent \in {"admit", "refresh"}

(* decision.rs: nothing that speaks against acting ever opens a way, a hold *)
(* moves nobody, and an ambiguous account is not acted on.                  *)
PermissionRestrained == Restrained(table, context)

=============================================================================
