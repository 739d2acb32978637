--------------------------- MODULE CodexAdmission ---------------------------
(***************************************************************************)
(* The account a T3 session is given (native/src/route.rs).                *)
(*                                                                         *)
(* A request is decided on what the last collection shows, the account     *)
(* chosen is read anew, and the decision is made again with what that      *)
(* reading says; only then is its sign-in handed out, and only if nothing  *)
(* it rests on has changed meanwhile.  A home that another reader has is   *)
(* set aside and tried again until the time is up.  While all this goes    *)
(* on, collections are saved, people sign in, and policy and holds change. *)
(***************************************************************************)
EXTENDS Integers, Sequences, FiniteSets, FiniteSetsExt

CONSTANTS Order,          \* the homes, in the order the policy prefers them
          Subscriptions,
          Budget(_),      \* SELECT_BUDGET_MS, REFRESH_BUDGET_MS
          ReadBudget,     \* READ_BUDGET_MS
          LockWait(_, _), \* how long a home that another reader has is waited for
          Requests,       \* the requests that may be made
          MaxUpsets       \* bound: how often the surroundings change during one request

Homes == {Order[i] : i \in DOMAIN Order}
Nobody == "nobody"
Nowhere == "nowhere"

Operations == {"select", "refresh", "exec", "connect"}

(* A policy names a home once. *)
ASSUME HomesAssumption ==
  /\ Order \in Seq(Homes) /\ Nowhere \notin Homes
  /\ \A i, j \in DOMAIN Order : Order[i] = Order[j] => i = j
  /\ Nobody \notin Subscriptions

ASSUME RequestsAssumption ==
  Requests \subseteq [operation : Operations, background : BOOLEAN,
                      previous : Homes \cup {Nowhere}, account : Subscriptions \cup {Nobody},
                      exclude : SUBSET Homes]
ASSUME TimesAssumption ==
  /\ ReadBudget \in Nat \ {0} /\ MaxUpsets \in Nat
  /\ \A refresh, background \in BOOLEAN :
       LockWait(refresh, background) \in Nat /\ Budget(refresh) \in Nat \ {0}
  /\ Budget(TRUE) <= Budget(FALSE)

VARIABLES
  signed,   \* auth.json of each home: whose sign-in it holds
  record,   \* codex-state.json: whose each home is, and whether a receipt is fresh
  shown,    \* status.json: with how much room each home is shown
  held,     \* the homes another reader has
  control,  \* what policy and control say, and how often that changed
  upsets,   \* how often the surroundings changed
  route     \* the request: where it is and what it has in memory

surroundings == <<signed, record, shown, held, control, upsets>>
vars == <<surroundings, route>>

-----------------------------------------------------------------------------
(* The decision *)

(* Rooms: none that may be used, some, more. *)
Rooms == 0 .. 2
Place(h) == CHOOSE i \in DOMAIN Order : Order[i] = h

(* What a request may be given of the accounts considered. *)
Usable(rows) == {h \in DOMAIN rows : rows[h] > 0}

Best(rows) ==
  CHOOSE h \in Usable(rows) : \A g \in Usable(rows) :
     rows[g] < rows[h] \/ (rows[g] = rows[h] /\ Place(h) <= Place(g))

Given(h) == [to |-> h, why |-> ""]
Not(why) == [to |-> Nowhere, why |-> why]

(* A refresh is for the account the session has.  A hold keeps a session   *)
(* where it is; work nobody waits for is also stopped by the mode, a pause *)
(* and the switch, which are named before anything else.                   *)
Decision(rows, request) ==
  LET previous == request.previous IN
  IF request.operation = "refresh"
  THEN IF previous = Nowhere \/ request.account = Nobody THEN Not("binding_unknown")
       ELSE IF previous \in DOMAIN rows THEN Given(previous) ELSE Not("unavailable")
  ELSE IF request.background /\ control.stop # "" THEN Not(control.stop)
  ELSE IF control.hold
  THEN IF previous = Nowhere THEN Not("binding_unknown")
       ELSE IF previous \notin Usable(rows) THEN Not("unavailable")
       ELSE IF request.background THEN Not("selection_held") ELSE Given(previous)
  ELSE IF request.background /\ previous = Nowhere THEN Not("binding_unknown")
  ELSE IF Usable(rows) = {} THEN Not("unavailable") ELSE Given(Best(rows))

-----------------------------------------------------------------------------
(* The request *)

Asleep == [at |-> "idle"]
Fresh == [h \in {} |-> 0]
Ended(why) == [at |-> "answered", to |-> Nowhere, why |-> why, spent |-> route.spent]

Init ==
  /\ signed \in [Homes -> Subscriptions]
  /\ record \in [Homes -> [who : Subscriptions, receipt : {TRUE}] \cup [who : {Nobody}, receipt : {FALSE}]]
  /\ shown \in [Homes -> Rooms]
  /\ held \in SUBSET Homes
  /\ control \in [stop : {"", "paused"}, hold : BOOLEAN, edition : {0}]
  /\ upsets = 0
  /\ route = Asleep

Known(h) == route.known[h]
Twice(known) == \E g, h \in Homes : g # h /\ known[g].who = known[h].who /\ known[g].who # Nobody

(* The accounts considered: those that a collection has read.  If the last *)
(* one only failed for want of the lock, it counts with what was kept; one *)
(* that was refused, or is not shown, has no room, and may be refreshed.   *)
Considered(request) == {h \in Homes \ request.exclude : record[h].who # Nobody}

Begin(request) ==
  /\ route = Asleep
  /\ route' =
       IF Twice(record)
       THEN [at |-> "answered", to |-> Nowhere, why |-> "duplicate_identity", spent |-> 0]
       ELSE [at |-> "choose", request |-> request, edition |-> control.edition, known |-> record,
             rows |-> [h \in Considered(request) |-> shown[h]],
             validated |-> Fresh, busy |-> Fresh, locked |-> {}, tried |-> {}, settled |-> 0,
             spent |-> 0, selected |-> Nowhere, waited |-> 0, read |-> Nobody, receipt |-> FALSE]
  /\ UNCHANGED surroundings

Request == route.request
Refresh == Request.operation = "refresh"
Limit == Budget(Refresh)
OutOfTime == route.spent >= Limit

(* Slip: one pass for each account. *)
PassesFew(settled) == settled < Len(Order)

(* Every account may be read, and one more pass chooses among those read. *)
Passes(settled) == settled <= Len(Order)

Without(rows, h) == [g \in DOMAIN rows \ {h} |-> rows[g]]
With(rows, h, room) == [g \in DOMAIN rows \cup {h} |-> IF g = h THEN room ELSE rows[g]]

(* A receipt holds while the bytes it was made of are there. *)
Connected(h, state) ==
  Request.operation = "connect" /\ state[h].receipt /\ state[h].who = signed[h]

GiveUp ==
  /\ route.at = "choose"
  /\ \/ ~ Passes(route.settled) /\ route' = Ended(IF route.locked = {} THEN "unavailable" ELSE "account_busy")
     \/ /\ Passes(route.settled) /\ OutOfTime
        /\ route' = Ended(IF route.locked = {} THEN "validation_timeout" ELSE "account_busy")
  /\ UNCHANGED surroundings

Choosing == route.at = "choose" /\ Passes(route.settled) /\ ~ OutOfTime

(* Nothing may be given: the homes set aside come back. *)
TryAside ==
  /\ Choosing
  /\ Decision(route.rows, Request).to = Nowhere
  /\ DOMAIN route.busy # {}
  /\ route' = [route EXCEPT !.rows = [h \in DOMAIN @ \cup DOMAIN route.busy |->
                                         IF h \in DOMAIN @ THEN @[h] ELSE route.busy[h]],
                            !.busy = Fresh]
  /\ UNCHANGED surroundings

Refuse ==
  /\ Choosing
  /\ Decision(route.rows, Request).to = Nowhere
  /\ DOMAIN route.busy = {}
  /\ route' = Ended(Decision(route.rows, Request).why)
  /\ UNCHANGED surroundings

(* An account is chosen: one read already is not read again, and one to be *)
(* connected is not read if its receipt holds.                             *)
Choose ==
  LET h == Decision(route.rows, Request).to IN
  /\ Choosing
  /\ h # Nowhere
  /\ route' =
       IF h \in DOMAIN route.validated
       THEN [route EXCEPT !.at = "judge", !.selected = h, !.read = route.validated[h], !.receipt = FALSE]
       ELSE IF Connected(h, route.known)
       THEN [route EXCEPT !.at = "judge", !.selected = h, !.read = signed[h], !.receipt = TRUE]
       ELSE [route EXCEPT !.at = "read", !.selected = h, !.waited = route.spent, !.receipt = FALSE]
  /\ UNCHANGED surroundings

Reading == route.at = "read" /\ ~ OutOfTime

RunOut ==
  /\ route.at = "read" /\ OutOfTime
  /\ route' = Ended(IF route.locked = {} /\ route.waited = route.spent
                    THEN "validation_timeout" ELSE "account_busy")
  /\ UNCHANGED surroundings

Waited == route.spent - route.waited

(* Slip: a home that was busy once is not waited for again. *)
WaitsOnce == route.selected \notin route.locked /\ Waited < LockWait(Refresh, Request.background)

Waits == Waited < LockWait(Refresh, Request.background)

(* Another reader has the home: it is waited for, for a while. *)
Wait ==
  /\ Reading
  /\ route.selected \in held
  /\ Waits
  /\ route' = [route EXCEPT !.spent = @ + 1]
  /\ UNCHANGED surroundings

(* It is set aside.  A refresh, and work nobody waits for, end here. *)
SetAside ==
  LET h == route.selected IN
  /\ Reading
  /\ h \in held
  /\ ~ Waits
  /\ route' = IF Refresh \/ Request.background THEN Ended("account_busy")
              ELSE [route EXCEPT !.at = "choose", !.locked = @ \cup {h},
                                 !.busy = With(@, h, route.rows[h]), !.rows = Without(@, h)]
  /\ UNCHANGED surroundings

(* Slip: every reading may take its full time. *)
ReadTimeFull(spent) == ReadBudget

(* A reading may take no longer than the request has left. *)
ReadTime(spent) == Min({ReadBudget, Limit - spent})

(* The home is read: it answers for whoever is signed in, or it fails.     *)
ReadHome ==
  LET h == route.selected IN
  /\ Reading
  /\ h \notin held
  /\ \E took \in {1, ReadTime(route.spent)}, answered \in BOOLEAN :
       route' = [route EXCEPT !.at = "judge", !.spent = @ + took, !.locked = @ \ {h},
                              !.read = IF answered THEN signed[h] ELSE Nobody,
                              !.tried = @ \cup {h}]
  /\ UNCHANGED surroundings

Valid == route.read # Nobody /\ route.read = Known(route.selected).who

Dropped ==
  IF Refresh THEN Ended("refresh_failed")
  ELSE [route EXCEPT !.at = "choose", !.settled = @ + 1, !.rows = Without(@, route.selected)]

Authorizing(state) == [state EXCEPT !.at = "authorize", !.settled = @ + 1]

(* The reading names another subscription, or failed: the account is out.  *)
Reject ==
  /\ route.at = "judge"
  /\ ~ Valid \/ (Refresh /\ route.read # Request.account)
  /\ route' = Dropped
  /\ UNCHANGED surroundings

(* What is not decided again: a refresh, and what a receipt answers for. *)
Accept ==
  /\ route.at = "judge"
  /\ Valid /\ (Refresh => route.read = Request.account)
  /\ Refresh \/ route.receipt
  /\ route' = Authorizing(route)
  /\ UNCHANGED surroundings

(* The decision is made again with the room that the reading found.  What  *)
(* was read stays with the request if another account comes out first.     *)
Reconsider ==
  LET h == route.selected IN
  /\ route.at = "judge"
  /\ Valid /\ ~ Refresh /\ ~ route.receipt
  /\ \E room \in (IF h \in DOMAIN route.validated THEN {route.rows[h]} ELSE Rooms) :
       LET rows == With(route.rows, h, room)
           second == Decision(rows, Request)
           now == [route EXCEPT !.rows = rows, !.validated = With(@, h, route.read)]
       IN route' = IF second.to = h THEN Authorizing(now)
                   ELSE IF second.to # Nowhere THEN [now EXCEPT !.at = "choose", !.settled = @ + 1]
                   ELSE [now EXCEPT !.at = "choose", !.settled = @ + 1, !.rows = Without(rows, h)]
  /\ UNCHANGED surroundings

(* Slip: nothing is looked at again. *)
UnchangedNever(h) == TRUE

(* The record of the account chosen still says what it said, and so does   *)
(* the receipt if the account comes from one.                              *)
Unchanged(h) == /\ record[h].who = Known(h).who
                /\ route.receipt => Connected(h, record)

(* The short boundary in which nothing changes: the answer is given if     *)
(* what it rests on is as it was, and the decision comes out the same.     *)
Authorize ==
  LET h == route.selected IN
  /\ route.at = "authorize"
  /\ route' =
       IF control.edition # route.edition THEN Ended("state_changed")
       ELSE IF ~ Unchanged(h) THEN Ended("binding_changed")
       ELSE IF Decision(route.rows, Request).to # h THEN Ended("state_changed")
       ELSE [at |-> "answered", to |-> h, why |-> "", spent |-> route.spent, token |-> route.read,
             request |-> Request, room |-> route.rows[h], tried |-> route.tried,
             receipt |-> route.receipt]
  /\ UNCHANGED surroundings

-----------------------------------------------------------------------------
(* The surroundings *)

Upset ==
  /\ route # Asleep /\ route.at # "answered"
  /\ upsets < MaxUpsets
  /\ upsets' = upsets + 1
  /\ UNCHANGED route

(* Another reader takes a home's lock, or lets it go. *)
Hold(h) ==
  /\ Upset
  /\ held' = IF h \in held THEN held \ {h} ELSE held \cup {h}
  /\ UNCHANGED <<signed, record, shown, control>>

(* Somebody signs in, and a collection may have read it by now. *)
SignIn(h, s) ==
  /\ Upset
  /\ signed[h] # s
  /\ signed' = [signed EXCEPT ![h] = s]
  /\ record' \in {record, [record EXCEPT ![h] = [who |-> s, receipt |-> TRUE]]}
  /\ UNCHANGED <<shown, held, control>>

(* A collection is saved that has read this home. *)
Collected(h) ==
  /\ Upset
  /\ record[h].who # signed[h]
  /\ record' = [record EXCEPT ![h] = [who |-> signed[h], receipt |-> TRUE]]
  /\ UNCHANGED <<signed, shown, held, control>>

(* The owner stops automation, or holds the selection, or lets it go. *)
Command ==
  /\ Upset
  /\ \E stop \in {"", "paused"}, hold \in BOOLEAN :
       control' = [stop |-> stop, hold |-> hold, edition |-> control.edition + 1]
  /\ UNCHANGED <<signed, record, shown, held>>

Step ==
  \/ GiveUp
  \/ TryAside
  \/ Refuse
  \/ Choose
  \/ RunOut
  \/ Wait
  \/ SetAside
  \/ ReadHome
  \/ Reject
  \/ Accept
  \/ Reconsider
  \/ Authorize

Next ==
  \/ \E request \in Requests : Begin(request)
  \/ Step
  \/ \E h \in Homes : Hold(h) \/ Collected(h)
  \/ \E h \in Homes, s \in Subscriptions : SignIn(h, s)
  \/ Command

(* The program that answers the request runs on by itself. *)
Spec == Init /\ [][Next]_vars /\ WF_vars(Step)

-----------------------------------------------------------------------------
(* Properties *)

Answered == route.at = "answered"

(* Every variable has its type. *)
TypeOK ==
  /\ signed \in [Homes -> Subscriptions]
  /\ record \in [Homes -> [who : Subscriptions \cup {Nobody}, receipt : BOOLEAN]]
  /\ shown \in [Homes -> Rooms]
  /\ held \subseteq Homes
  /\ control \in [stop : {"", "paused"}, hold : BOOLEAN, edition : 0 .. MaxUpsets]
  /\ upsets \in 0 .. MaxUpsets
  /\ route.at \in {"idle", "choose", "read", "judge", "authorize", "answered"}
  /\ route.at \notin {"idle", "answered"} =>
       /\ route.request \in Requests
       /\ DOMAIN route.rows \cap DOMAIN route.busy = {}
       /\ route.settled \in 0 .. Len(Order) + 1

(* A sign-in that is handed out is the one of the subscription that the    *)
(* account is recorded for at that moment; for a session that starts work  *)
(* it was read, and had room, within this very request.                    *)
HandedOutTrue ==
  [][route # Asleep /\ Answered' /\ route'.to # Nowhere /\ ~ Answered =>
       LET answer == route' IN
       /\ answer.token = record[answer.to].who
       /\ answer.request.operation \in {"select", "exec"} =>
            answer.to \in answer.tried /\ answer.room > 0]_vars

WithinBudget == route # Asleep => route.spent <= IF Answered THEN Budget(FALSE) ELSE Limit

ToldUnavailable ==
  route.at = "choose" /\ Answered' /\ route'.why = "unavailable" /\ ~ Refresh

(* Unless the selection is held, or policy or control changed meanwhile,   *)
(* an admission is not told that nothing is available while an account it  *)
(* has read could serve it, or one could that it never tried.              *)
UnavailableTrue ==
  [][ToldUnavailable /\ ~ control.hold /\ control.edition = route.edition =>
       /\ Usable(route.rows) = {}
       /\ \A h \in Homes : Known(h).who = Nobody \/ h \in Request.exclude \/ h \in route.tried
                           \/ shown[h] = 0]_vars

(* Every request is answered, also if all homes are held for ever, and it  *)
(* keeps to its time, whatever readers and homes do: a session waits.      *)
AnsweredInTime == []WithinBudget /\ (route.at = "choose" ~> Answered)
=============================================================================
