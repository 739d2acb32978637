------------------------ MODULE CodexAdmissionProofs ------------------------
(***************************************************************************)
(* Proofs about the admission of a session, for any number of homes and    *)
(* subscriptions, any requests, any times, and any number of changes while *)
(* it is decided.                                                          *)
(***************************************************************************)
EXTENDS CodexAdmission, CodexWire, TLAPS, FiniteSetTheorems, WellFoundedInduction

-----------------------------------------------------------------------------
(* Inductive invariants *)

Names == Subscriptions \cup {Nobody}
Partly(S) == UNION {[H -> S] : H \in SUBSET Homes}

Running ==
  [at : {"choose", "read", "judge", "authorize"}, request : Requests, edition : Nat,
   known : [Homes -> [who : Names, receipt : BOOLEAN]],
   rows : Partly(Rooms), validated : Partly(Subscriptions), busy : Partly(Rooms),
   locked : SUBSET Homes, tried : SUBSET Homes, settled : 0 .. Len(Order) + 1,
   spent : Nat, selected : Homes \cup {Nowhere}, waited : Nat, read : Names, receipt : BOOLEAN]

(* The surroundings have their types.                                      *)
AroundInv ==
  /\ signed \in [Homes -> Subscriptions]
  /\ record \in [Homes -> [who : Names, receipt : BOOLEAN]]
  /\ shown \in [Homes -> Rooms]
  /\ held \subseteq Homes
  /\ control \in [stop : {"", "paused"}, hold : BOOLEAN, edition : Nat]
  /\ upsets \in 0 .. MaxUpsets /\ control.edition <= upsets

Runs == route \in Running
RouteType == route = Asleep \/ route.at = "answered" \/ Runs

(* The account a request has come to is one it considers; it was read, or  *)
(* it came with a receipt, and the reading is of the account's own         *)
(* subscription once that has been judged.                                 *)
ChosenInv ==
  /\ DOMAIN route.rows \cap DOMAIN route.busy = {}
  /\ route.at # "choose" => route.selected \in DOMAIN route.rows
  /\ route.at \in {"read", "judge"} => route.settled <= Len(Order)
  /\ DOMAIN route.validated \subseteq route.tried
  /\ \A h \in DOMAIN route.validated : route.validated[h] = Known(h).who
  /\ route.receipt => Request.operation = "connect"
  /\ route.at = "read" => ~ route.receipt
  /\ route.at \in {"judge", "authorize"} /\ ~ route.receipt => route.selected \in route.tried
  /\ route.at = "judge" /\ (route.receipt \/ route.selected \in DOMAIN route.validated) => Valid
  /\ route.at = "authorize" => Valid

(* The account under judgement has only just been read. *)
JustRead == route.at = "judge" /\ ~ route.receipt /\ route.selected \notin DOMAIN route.validated

(* What has not been tried is as it was shown; what has been tried and     *)
(* still stands has been validated; and while the settings stay, every     *)
(* pass has settled a home of its own.                                     *)
TriedInv ==
  /\ \A h \in Homes : \/ Known(h).who = Nobody \/ h \in Request.exclude
                      \/ h \in route.tried \/ shown[h] = 0
                      \/ h \in DOMAIN route.rows \cup DOMAIN route.busy
  /\ \A h \in DOMAIN route.rows \ route.tried : route.rows[h] = shown[h]
  /\ \A h \in DOMAIN route.busy \ route.tried : route.busy[h] = shown[h]
  /\ \A h \in route.tried \cap (DOMAIN route.rows \cup DOMAIN route.busy) :
       \/ h \in DOMAIN route.validated
       \/ route.at \in {"judge", "authorize"} /\ h = route.selected
  /\ route.at = "read" => route.selected \notin DOMAIN route.validated
  /\ route.edition <= control.edition
  /\ control.edition = route.edition =>
       /\ route.at \in {"read", "judge"} => Decision(route.rows, Request).to = route.selected
       /\ route.at # "authorize" =>
            route.settled + (IF JustRead THEN 1 ELSE 0) <= Cardinality(route.tried)

TimeInv == route.spent <= Limit

IInv == AroundInv /\ RouteType /\ (Runs => ChosenInv /\ TriedInv /\ TimeInv)

-----------------------------------------------------------------------------
(* The operators *)

LEMMA PartlyIs ==
  ASSUME NEW S, NEW f
  PROVE  f \in Partly(S) <=>
           DOMAIN f \subseteq Homes /\ f = [h \in DOMAIN f |-> f[h]] /\ \A h \in DOMAIN f : f[h] \in S
  BY DEF Partly

LEMMA FreshType == ASSUME NEW S PROVE Fresh \in Partly(S) /\ DOMAIN Fresh = {}
  BY PartlyIs DEF Fresh

LEMMA WithIs ==
  ASSUME NEW S, NEW f \in Partly(S), NEW h \in Homes, NEW v \in S
  PROVE  /\ With(f, h, v) \in Partly(S) /\ DOMAIN With(f, h, v) = DOMAIN f \cup {h}
         /\ With(f, h, v)[h] = v /\ \A g \in DOMAIN f \ {h} : With(f, h, v)[g] = f[g]
<1>1. DOMAIN f \subseteq Homes /\ \A g \in DOMAIN f : f[g] \in S
  BY PartlyIs
<1> DEFINE w == [g \in DOMAIN f \cup {h} |-> IF g = h THEN v ELSE f[g]]
<1>2. w \in [DOMAIN f \cup {h} -> S] /\ DOMAIN f \cup {h} \in SUBSET Homes
  BY <1>1
<1>3. w \in Partly(S)
  BY <1>2 DEF Partly
<1> QED
  BY <1>3 DEF With

LEMMA WithSame ==
  ASSUME NEW S, NEW f \in Partly(S), NEW h \in DOMAIN f PROVE With(f, h, f[h]) = f
<1>1. f = [g \in DOMAIN f |-> f[g]]
  BY PartlyIs
<1>2. DOMAIN f \cup {h} = DOMAIN f
  OBVIOUS
<1> QED
  BY <1>1, <1>2 DEF With

LEMMA WithoutIs ==
  ASSUME NEW S, NEW f \in Partly(S), NEW h
  PROVE  /\ Without(f, h) \in Partly(S) /\ DOMAIN Without(f, h) = DOMAIN f \ {h}
         /\ \A g \in DOMAIN f \ {h} : Without(f, h)[g] = f[g]
<1>1. DOMAIN f \subseteq Homes /\ \A g \in DOMAIN f : f[g] \in S
  BY PartlyIs
<1>2. Without(f, h) \in [DOMAIN f \ {h} -> S] /\ DOMAIN f \ {h} \in SUBSET Homes
  BY <1>1 DEF Without
<1>3. Without(f, h) \in Partly(S)
  BY <1>2 DEF Partly
<1> QED
  BY <1>3 DEF Without

LEMMA PlaceIs == \A h \in Homes : Place(h) \in DOMAIN Order /\ Order[Place(h)] = h
  BY DEF Place, Homes

LEMMA HomesCounted ==
  IsFiniteSet(Homes) /\ Cardinality(Homes) \in Nat /\ Cardinality(Homes) <= Len(Order)
<1>1. Order \in Seq(Homes) /\ Len(Order) \in Nat /\ DOMAIN Order = 1 .. Len(Order)
  BY HomesAssumption
<1>2. Order \in Surjection(1 .. Len(Order), Homes)
  BY <1>1 DEF Surjection, Homes
<1>3. IsFiniteSet(1 .. Len(Order)) /\ Cardinality(1 .. Len(Order)) = Len(Order)
  BY <1>1, FS_Interval
<1>4. IsFiniteSet(Homes) /\ Cardinality(Homes) <= Len(Order)
  BY <1>2, <1>3, FS_Surjection
<1> QED
  BY <1>4, FS_CardinalityType

LEMMA LeastOf ==
  ASSUME NEW T \in SUBSET Nat, T # {} PROVE \E x \in T : \A y \in T : x <= y
<1> DEFINE before == OpToRel(<, Nat)
<1>1. IsWellFoundedOn(before, Nat)
  BY NatLessThanWellFounded
<1>2. \A x, y \in Nat : y < x => <<y, x>> \in before
  BY DEF OpToRel
<1> HIDE DEF before
<1>3. T \subseteq Nat
  OBVIOUS
<1>4. PICK x \in T : \A y \in T : ~ (<<y, x>> \in before)
  BY <1>1, <1>3, WFMin
<1>5. \A y \in T : ~ (y < x)
  BY <1>2, <1>3, <1>4
<1> QED
  BY <1>3, <1>5

LEMMA BoundsAre == MaxUpsets \in Nat /\ ReadBudget \in Nat \ {0}
  BY TimesAssumption

(* The best account is one that may be used. *)
LEMMA BestIs ==
  ASSUME NEW rows \in Partly(Rooms), Usable(rows) # {}
  PROVE  Best(rows) \in Usable(rows)
<1>1. Usable(rows) \subseteq Homes /\ \A h \in Usable(rows) : rows[h] \in {1, 2}
  BY PartlyIs DEF Usable, Rooms
<1>2. PICK S \in SUBSET Usable(rows) :
        /\ S # {}
        /\ \A h \in S, g \in Usable(rows) : rows[g] < rows[h] \/ (rows[g] = rows[h] /\ g \in S)
  <2> DEFINE Full == {h \in Usable(rows) : rows[h] = 2}
  <2>1. CASE Full = {}
    BY <1>1, <2>1
  <2>2. CASE Full # {}
    <3>1. \A h \in Full, g \in Usable(rows) : rows[g] < rows[h] \/ (rows[g] = rows[h] /\ g \in Full)
      BY <1>1
    <3> QED
      BY <2>2, <3>1
  <2> QED
    BY <2>1, <2>2
<1> DEFINE places == {Place(h) : h \in S}
<1>3. places \in SUBSET Nat /\ places # {}
  BY <1>1, <1>2, PlaceIs, HomesAssumption
<1>4. PICK first \in places : \A p \in places : first <= p
  BY <1>3, LeastOf
<1>5. PICK h \in S : first = Place(h)
  BY <1>4
<1>6. \A g \in S : Place(h) <= Place(g)
  BY <1>4, <1>5
<1>7. \A g \in Usable(rows) : rows[g] < rows[h] \/ (rows[g] = rows[h] /\ Place(h) <= Place(g))
  BY <1>2, <1>6
<1> QED
  BY <1>2, <1>7 DEF Best

LEMMA RequestIs ==
  ASSUME NEW request \in Requests
  PROVE  /\ request.operation \in Operations /\ request.background \in BOOLEAN
         /\ request.previous \in Homes \cup {Nowhere} /\ request.exclude \subseteq Homes
         /\ request.account \in Subscriptions \cup {Nobody}
<1>1. PICK r \in [operation : Operations, background : BOOLEAN,
                  previous : Homes \cup {Nowhere}, account : Subscriptions \cup {Nobody},
                  exclude : SUBSET Homes] : request = r
  BY RequestsAssumption
<1> QED
  BY <1>1

(* What a decision comes to is one of the accounts considered, for a       *)
(* session one that may be used; and it is called unavailable only when    *)
(* nothing may be used, or the selection is held.                          *)
LEMMA DecisionIs ==
  ASSUME NEW rows \in Partly(Rooms), NEW request \in Requests,
         control.stop \in {"", "paused"}
  PROVE  LET d == Decision(rows, request) IN
         /\ d.to # Nowhere => d.to \in DOMAIN rows /\ d.to \in Homes
         /\ d.to # Nowhere /\ request.operation # "refresh" => d.to \in Usable(rows)
         /\ d.why = "unavailable" /\ request.operation # "refresh" /\ ~ control.hold
              => Usable(rows) = {}
<1>1. DOMAIN rows \subseteq Homes /\ Usable(rows) \subseteq DOMAIN rows
  BY PartlyIs DEF Usable
<1>2. Usable(rows) # {} => Best(rows) \in Usable(rows)
  BY BestIs
<1>3. request.previous \in Homes \cup {Nowhere}
  BY RequestIs
<1> QED
  BY <1>1, <1>2, <1>3 DEF Decision, Given, Not

LEMMA ReadTimeIs ==
  ASSUME NEW spent \in Nat, Limit \in Nat, spent < Limit
  PROVE  ReadTime(spent) \in Nat /\ ReadTime(spent) <= Limit - spent
<1> DEFINE rest == Limit - spent
<1>1. rest \in Nat /\ ReadBudget \in Nat
  BY TimesAssumption
<1> HIDE DEF rest
<1>2. \E x \in {ReadBudget, rest} : \A y \in {ReadBudget, rest} : x =< y
  BY <1>1
<1>3. Min({ReadBudget, rest}) \in {ReadBudget, rest} /\ Min({ReadBudget, rest}) <= rest
  BY <1>1, <1>2 DEF Min
<1> QED
  BY <1>1, <1>3 DEF ReadTime, rest

-----------------------------------------------------------------------------
(* The invariant is inductive *)

LEMMA RunsIs ==
  ASSUME Runs
  PROVE  /\ route.at \in {"choose", "read", "judge", "authorize"}
         /\ route.request \in Requests /\ route.edition \in Nat
         /\ route.known \in [Homes -> [who : Names, receipt : BOOLEAN]]
         /\ route.rows \in Partly(Rooms) /\ route.busy \in Partly(Rooms)
         /\ route.validated \in Partly(Subscriptions)
         /\ route.locked \subseteq Homes /\ route.tried \subseteq Homes
         /\ route.settled \in 0 .. Len(Order) + 1 /\ route.spent \in Nat /\ route.waited \in Nat
         /\ route.selected \in Homes \cup {Nowhere} /\ route.read \in Names
         /\ route.receipt \in BOOLEAN
  BY DEF Runs, Running

LEMMA LimitIs == Limit \in Nat \ {0} /\ Limit <= Budget(FALSE) /\ Budget(FALSE) \in Nat
<1> DEFINE short == Budget(TRUE)
           long == Budget(FALSE)
<1>1. short \in Nat \ {0} /\ long \in Nat \ {0} /\ short <= long
  BY TimesAssumption
<1>2. Refresh = TRUE \/ Refresh = FALSE
  BY DEF Refresh
<1>3. Limit = short \/ Limit = long
  BY <1>2, Zenon DEF Limit
<1> HIDE DEF short, long
<1>4. Limit \in Nat \ {0} /\ Limit <= long /\ long \in Nat
  BY <1>1, <1>3
<1> QED
  BY <1>4 DEF long

(* A request that is answered asks nothing more of the invariant. *)
LEMMA EndedKeeps ==
  ASSUME IInv, route'.at = "answered", UNCHANGED surroundings PROVE IInv'
<1>1. AroundInv'
  BY DEF IInv, AroundInv, surroundings
<1>2. ~ Runs'
  BY DEF Runs, Running
<1> QED
  BY <1>1, <1>2 DEF IInv, RouteType

LEMMA AroundSame == ASSUME IInv, UNCHANGED surroundings PROVE AroundInv'
  BY DEF IInv, AroundInv, surroundings

LEMMA BeginKeeps ==
  ASSUME IInv, NEW request \in Requests, Begin(request) PROVE IInv'
<1>1. CASE Twice(record)
  BY <1>1, EndedKeeps DEF Begin
<1>2. CASE ~ Twice(record)
  <2> DEFINE rows == [h \in Considered(request) |-> shown[h]]
  <2>1. /\ route' = [at |-> "choose", request |-> request, edition |-> control.edition, known |-> record,
             rows |-> rows,
             validated |-> Fresh, busy |-> Fresh, locked |-> {}, tried |-> {}, settled |-> 0,
             spent |-> 0, selected |-> Nowhere, waited |-> 0, read |-> Nobody, receipt |-> FALSE]
        /\ UNCHANGED surroundings
    BY <1>2 DEF Begin
  <2>2. AroundInv'
    BY <2>1, AroundSame
  <2>3. AroundInv
    BY DEF IInv
  <2>4. \A h \in Homes : shown[h] \in Rooms
    BY <2>3 DEF AroundInv
  <2>5. rows \in Partly(Rooms) /\ DOMAIN rows = Considered(request) /\ Considered(request) \subseteq Homes
    <3>1. rows \in [Considered(request) -> Rooms] /\ Considered(request) \in SUBSET Homes
      BY <2>4 DEF Considered
    <3> QED
      BY <3>1 DEF Partly
  <2>6. Fresh \in Partly(Subscriptions) /\ Fresh \in Partly(Rooms) /\ DOMAIN Fresh = {}
    BY FreshType
  <2> HIDE DEF rows
  <2>7. Runs'
    <3>1. Len(Order) \in Nat
      BY HomesAssumption
    <3>2. record \in [Homes -> [who : Names, receipt : BOOLEAN]] /\ control.edition \in Nat
      BY <2>3 DEF AroundInv
    <3> QED
      BY <2>1, <2>5, <2>6, <3>1, <3>2 DEF Runs, Running, Names
  <2>8. ChosenInv'
    BY <2>1, <2>6 DEF ChosenInv, Known
  <2>9. TriedInv'
    <3>1. \A h \in Homes : \/ record[h].who = Nobody \/ h \in request.exclude
                            \/ shown[h] = 0 \/ h \in DOMAIN rows
      BY <2>3, <2>5 DEF AroundInv, Considered
    <3>2. \A h \in DOMAIN rows : rows[h] = shown[h]
      BY <2>5 DEF rows
    <3>3. Cardinality({}) = 0 /\ control.edition \in Nat
      BY FS_EmptySet, <2>3 DEF AroundInv
    <3> QED
      BY <2>1, <2>6, <3>1, <3>2, <3>3 DEF TriedInv, Known, Request, JustRead, surroundings
  <2>10. TimeInv'
    <3>1. (Limit \in Nat \ {0})'
      BY LimitIs, PTL
    <3> QED
      BY <2>1, <3>1 DEF TimeInv
  <2> QED
    BY <2>2, <2>7, <2>8, <2>9, <2>10 DEF IInv, RouteType
<1> QED
  BY <1>1, <1>2
LEMMA AtRuns ==
  ASSUME IInv, route.at \in {"choose", "read", "judge", "authorize"}
  PROVE  AroundInv /\ Runs /\ ChosenInv /\ TriedInv /\ TimeInv
  BY DEF IInv, RouteType, Asleep

LEMMA RequestSame ==
  ASSUME route'.request = route.request PROVE Request' = Request /\ Limit' = Limit
  BY DEF Request, Refresh, Limit

LEMMA GiveUpKeeps == IInv /\ (GiveUp \/ Refuse \/ RunOut \/ Authorize) => IInv'
<1> SUFFICES ASSUME IInv, GiveUp \/ Refuse \/ RunOut \/ Authorize PROVE IInv'
  OBVIOUS
<1>0. \A why : Ended(why).at = "answered"
  BY DEF Ended
<1>1. route'.at = "answered" /\ UNCHANGED surroundings
  <2>1. CASE GiveUp
    BY <1>0, <2>1, Zenon DEF GiveUp
  <2>2. CASE Refuse
    BY <1>0, <2>2, Zenon DEF Refuse
  <2>3. CASE RunOut
    BY <1>0, <2>3, Zenon DEF RunOut
  <2>4. CASE Authorize
    BY <2>4 DEF Authorize, Ended
  <2> QED
    BY <2>1, <2>2, <2>3, <2>4
<1> QED
  BY <1>1, EndedKeeps

LEMMA TryAsideKeeps == ASSUME IInv, TryAside PROVE IInv'
<1> DEFINE rows == [h \in DOMAIN route.rows \cup DOMAIN route.busy |->
                      IF h \in DOMAIN route.rows THEN route.rows[h] ELSE route.busy[h]]
<1>1. AroundInv /\ Runs /\ ChosenInv /\ TriedInv /\ TimeInv
  BY AtRuns DEF TryAside, Choosing
<1>2. /\ UNCHANGED surroundings /\ route.at = "choose"
      /\ route' = [route EXCEPT !.rows = rows, !.busy = Fresh]
  BY DEF TryAside, Choosing
<1>3. /\ rows \in Partly(Rooms) /\ DOMAIN rows = DOMAIN route.rows \cup DOMAIN route.busy
      /\ \A h \in DOMAIN route.rows : rows[h] = route.rows[h]
      /\ \A h \in DOMAIN route.busy \ DOMAIN route.rows : rows[h] = route.busy[h]
  <2>1. /\ DOMAIN route.rows \subseteq Homes /\ \A h \in DOMAIN route.rows : route.rows[h] \in Rooms
        /\ DOMAIN route.busy \subseteq Homes /\ \A h \in DOMAIN route.busy : route.busy[h] \in Rooms
    BY <1>1, RunsIs, PartlyIs
  <2>2. rows \in [DOMAIN route.rows \cup DOMAIN route.busy -> Rooms]
    BY <2>1
  <2>3. DOMAIN route.rows \cup DOMAIN route.busy \in SUBSET Homes
    BY <2>1
  <2> QED
    BY <2>2, <2>3 DEF Partly
<1> HIDE DEF rows
<1>4. Runs'
  BY <1>1, <1>2, <1>3, FreshType DEF Runs, Running
<1>5. /\ route'.rows = rows /\ route'.busy = Fresh /\ DOMAIN Fresh = {}
      /\ route'.at = "choose" /\ route'.selected = route.selected /\ route'.settled = route.settled
      /\ route'.validated = route.validated /\ route'.tried = route.tried /\ route'.known = route.known
      /\ route'.receipt = route.receipt /\ route'.request = route.request /\ route'.spent = route.spent
      /\ route'.read = route.read /\ route'.edition = route.edition
  BY <1>1, <1>2, FreshType DEF Runs, Running
<1>6. ChosenInv'
  BY <1>1, <1>2, <1>3, <1>5 DEF ChosenInv, Known, Request
<1>7. TriedInv'
  <2>1. ~ JustRead /\ ~ JustRead'
    BY <1>2, <1>5 DEF JustRead
  <2> QED
    BY <1>1, <1>2, <1>3, <1>5, <2>1 DEF TriedInv, ChosenInv, Known, Request, surroundings
<1>8. TimeInv'
  BY <1>1, <1>5, RequestSame DEF TimeInv
<1> QED
  BY <1>2, <1>4, <1>6, <1>7, <1>8, AroundSame DEF IInv, RouteType

LEMMA ChooseKeeps == ASSUME IInv, Choose PROVE IInv'
<1> DEFINE h == Decision(route.rows, Request).to
<1>1. AroundInv /\ Runs /\ ChosenInv /\ TriedInv /\ TimeInv
  BY AtRuns DEF Choose, Choosing
<1>2. /\ UNCHANGED surroundings /\ route.at = "choose" /\ route.settled <= Len(Order)
      /\ h # Nowhere
  BY DEF Choose, Choosing, Passes
<1>3. h \in DOMAIN route.rows /\ h \in Homes
  <2>1. control.stop \in {"", "paused"}
    BY <1>1 DEF AroundInv
  <2> QED
    BY <1>1, <1>2, <2>1, RunsIs, DecisionIs DEF Request
<1>4. \E at \in {"judge", "read"}, found \in Names, receipt \in BOOLEAN, waited \in Nat :
        /\ route' = [route EXCEPT !.at = at, !.selected = h, !.read = found, !.receipt = receipt,
                                  !.waited = waited]
        /\ at = "read" => ~ receipt /\ h \notin DOMAIN route.validated
        /\ receipt => Request.operation = "connect"
        /\ at = "judge" => /\ receipt \/ h \in DOMAIN route.validated
                           /\ found # Nobody /\ found = Known(h).who
  <2>0. Nobody \notin Subscriptions /\ Names = Subscriptions \cup {Nobody}
    BY HomesAssumption DEF Names
  <2>1. CASE h \in DOMAIN route.validated
    <3>1. route' = [route EXCEPT !.at = "judge", !.selected = h, !.read = route.validated[h],
                                 !.receipt = FALSE]
      BY <2>1 DEF Choose
    <3>2. route.validated[h] \in Subscriptions /\ route.validated[h] = Known(h).who
      BY <1>1, <2>1, RunsIs, PartlyIs DEF ChosenInv
    <3>3. route' = [route EXCEPT !.at = "judge", !.selected = h, !.read = route.validated[h],
                                 !.receipt = FALSE, !.waited = route.waited]
      BY <1>1, <3>1 DEF Runs, Running
    <3> QED
      BY <1>1, <2>0, <2>1, <3>2, <3>3, RunsIs
  <2>2. CASE h \notin DOMAIN route.validated /\ Connected(h, route.known)
    <3>1. route' = [route EXCEPT !.at = "judge", !.selected = h, !.read = signed[h], !.receipt = TRUE]
      BY <2>2 DEF Choose
    <3>2. signed[h] \in Subscriptions /\ signed[h] = Known(h).who /\ Request.operation = "connect"
      BY <1>1, <1>3, <2>2 DEF AroundInv, Connected, Known
    <3>3. route' = [route EXCEPT !.at = "judge", !.selected = h, !.read = signed[h],
                                 !.receipt = TRUE, !.waited = route.waited]
      BY <1>1, <3>1 DEF Runs, Running
    <3> QED
      BY <1>1, <2>0, <3>2, <3>3, RunsIs
  <2>3. CASE h \notin DOMAIN route.validated /\ ~ Connected(h, route.known)
    <3>1. route' = [route EXCEPT !.at = "read", !.selected = h, !.waited = route.spent, !.receipt = FALSE]
      BY <2>3 DEF Choose
    <3>3. route' = [route EXCEPT !.at = "read", !.selected = h, !.read = route.read,
                                 !.receipt = FALSE, !.waited = route.spent]
      BY <1>1, <3>1 DEF Runs, Running
    <3> QED
      BY <1>1, <2>3, <3>3, RunsIs
  <2> QED
    BY <2>1, <2>2, <2>3
<1>5. PICK at \in {"judge", "read"}, found \in Names, receipt \in BOOLEAN, waited \in Nat :
        /\ route' = [route EXCEPT !.at = at, !.selected = h, !.read = found, !.receipt = receipt,
                                  !.waited = waited]
        /\ at = "read" => ~ receipt /\ h \notin DOMAIN route.validated
        /\ receipt => Request.operation = "connect"
        /\ at = "judge" => /\ receipt \/ h \in DOMAIN route.validated
                           /\ found # Nobody /\ found = Known(h).who
  BY <1>4
<1>6. /\ route'.rows = route.rows /\ route'.busy = route.busy
      /\ route'.at = at /\ route'.selected = h /\ route'.settled = route.settled
      /\ route'.validated = route.validated /\ route'.tried = route.tried /\ route'.known = route.known
      /\ route'.receipt = receipt /\ route'.request = route.request /\ route'.spent = route.spent
      /\ route'.read = found /\ route'.edition = route.edition
  BY <1>1, <1>5 DEF Runs, Running
<1>8. (Decision(route.rows, Request))'.to = h
  BY <1>2, <1>6, RequestSame DEF Decision, surroundings
<1> HIDE DEF h
<1>9. Runs'
  BY <1>1, <1>3, <1>5 DEF Runs, Running
<1>10. ChosenInv'
  BY <1>1, <1>2, <1>3, <1>5, <1>6 DEF ChosenInv, Known, Request, Valid
<1>11. TriedInv'
  <2>1. ~ JustRead /\ ~ JustRead'
    BY <1>2, <1>5, <1>6 DEF JustRead
  <2> QED
    BY <1>1, <1>2, <1>3, <1>5, <1>6, <1>8, <2>1 DEF TriedInv, Known, Request, surroundings
<1>12. TimeInv'
  BY <1>1, <1>6, RequestSame DEF TimeInv
<1> QED
  BY <1>2, <1>9, <1>10, <1>11, <1>12, AroundSame DEF IInv, RouteType
LEMMA WaitKeeps == ASSUME IInv, Wait PROVE IInv'
<1>1. AroundInv /\ Runs /\ ChosenInv /\ TriedInv /\ TimeInv
  BY AtRuns DEF Wait, Reading
<1>2. /\ UNCHANGED surroundings /\ route.at = "read" /\ ~ OutOfTime
      /\ route' = [route EXCEPT !.spent = @ + 1]
  BY DEF Wait, Reading
<1>3. /\ route'.rows = route.rows /\ route'.busy = route.busy
      /\ route'.at = "read" /\ route'.selected = route.selected /\ route'.settled = route.settled
      /\ route'.validated = route.validated /\ route'.tried = route.tried /\ route'.known = route.known
      /\ route'.receipt = route.receipt /\ route'.request = route.request
      /\ route'.spent = route.spent + 1 /\ route'.read = route.read /\ route'.edition = route.edition
  BY <1>1, <1>2 DEF Runs, Running
<1>4. Runs'
  BY <1>1, <1>2 DEF Runs, Running
<1>5. ChosenInv'
  BY <1>1, <1>2, <1>3 DEF ChosenInv, Known, Request
<1>6. TriedInv'
  <2>1. ~ JustRead /\ ~ JustRead'
    BY <1>2, <1>3 DEF JustRead
  <2>2. (Decision(route.rows, Request))' = Decision(route.rows, Request)
    BY <1>2, <1>3, RequestSame DEF Decision, surroundings
  <2> QED
    BY <1>1, <1>2, <1>3, <2>1, <2>2 DEF TriedInv, Known, Request, surroundings
<1>7. TimeInv'
  BY <1>1, <1>2, <1>3, RequestSame, RunsIs, LimitIs DEF TimeInv, OutOfTime
<1> QED
  BY <1>2, <1>4, <1>5, <1>6, <1>7, AroundSame DEF IInv, RouteType

LEMMA SetAsideKeeps == ASSUME IInv, SetAside PROVE IInv'
<1> DEFINE h == route.selected
           rows == Without(route.rows, h)
           busy == With(route.busy, h, route.rows[h])
<1>1. AroundInv /\ Runs /\ ChosenInv /\ TriedInv /\ TimeInv
  BY AtRuns DEF SetAside, Reading
<1>2. UNCHANGED surroundings /\ route.at = "read"
  BY DEF SetAside, Reading
<1>3. CASE Refresh \/ Request.background
  BY <1>2, <1>3, EndedKeeps DEF SetAside, Ended
<1>4. CASE ~ (Refresh \/ Request.background)
  <2>1. route' = [route EXCEPT !.at = "choose", !.locked = @ \cup {h}, !.busy = busy, !.rows = rows]
    BY <1>4 DEF SetAside
  <2>2. h \in Homes /\ h \in DOMAIN route.rows /\ route.rows[h] \in Rooms
    BY <1>1, <1>2, RunsIs, PartlyIs DEF ChosenInv
  <2>3. /\ rows \in Partly(Rooms) /\ DOMAIN rows = DOMAIN route.rows \ {h}
        /\ \A g \in DOMAIN route.rows \ {h} : rows[g] = route.rows[g]
        /\ busy \in Partly(Rooms) /\ DOMAIN busy = DOMAIN route.busy \cup {h}
        /\ busy[h] = route.rows[h] /\ \A g \in DOMAIN route.busy \ {h} : busy[g] = route.busy[g]
    <3>1. route.rows \in Partly(Rooms) /\ route.busy \in Partly(Rooms)
      BY <1>1, RunsIs
    <3> HIDE DEF h
    <3>2. /\ rows \in Partly(Rooms) /\ DOMAIN rows = DOMAIN route.rows \ {h}
          /\ \A g \in DOMAIN route.rows \ {h} : rows[g] = route.rows[g]
      BY <3>1, WithoutIs
    <3>3. /\ busy \in Partly(Rooms) /\ DOMAIN busy = DOMAIN route.busy \cup {h}
          /\ busy[h] = route.rows[h] /\ \A g \in DOMAIN route.busy \ {h} : busy[g] = route.busy[g]
      <4> DEFINE v == route.rows[h]
                 f == route.busy
      <4>1. f \in Partly(Rooms) /\ h \in Homes /\ v \in Rooms
        BY <2>2, <3>1
      <4> HIDE DEF f, v
      <4>2. /\ With(f, h, v) \in Partly(Rooms) /\ DOMAIN With(f, h, v) = DOMAIN f \cup {h}
            /\ With(f, h, v)[h] = v /\ \A g \in DOMAIN f \ {h} : With(f, h, v)[g] = f[g]
        BY <4>1, WithIs
      <4> QED
        BY <4>2 DEF f, v
    <3> QED
      BY <3>2, <3>3
  <2> HIDE DEF rows, busy
  <2>4. /\ route'.rows = rows /\ route'.busy = busy
        /\ route'.at = "choose" /\ route'.selected = h /\ route'.settled = route.settled
        /\ route'.validated = route.validated /\ route'.tried = route.tried /\ route'.known = route.known
        /\ route'.receipt = route.receipt /\ route'.request = route.request
        /\ route'.spent = route.spent /\ route'.read = route.read /\ route'.edition = route.edition
    BY <1>1, <2>1 DEF Runs, Running
  <2> HIDE DEF h
  <2>5. Runs'
    BY <1>1, <2>1, <2>2, <2>3 DEF Runs, Running
  <2>6. ChosenInv'
    BY <1>1, <2>2, <2>3, <2>4 DEF ChosenInv, Known, Request
  <2>7. TriedInv'
    <3>1. ~ JustRead /\ ~ JustRead'
      BY <1>2, <2>4 DEF JustRead
    <3> QED
      BY <1>1, <1>2, <2>2, <2>3, <2>4, <3>1 DEF TriedInv, Known, Request, surroundings
  <2>8. TimeInv'
    BY <1>1, <2>4, RequestSame DEF TimeInv
  <2> QED
    BY <1>2, <2>5, <2>6, <2>7, <2>8, AroundSame DEF IInv, RouteType
<1> QED
  BY <1>3, <1>4

LEMMA ReadHomeKeeps == ASSUME IInv, ReadHome PROVE IInv'
<1> DEFINE h == route.selected
<1>1. AroundInv /\ Runs /\ ChosenInv /\ TriedInv /\ TimeInv
  BY AtRuns DEF ReadHome, Reading
<1>2. UNCHANGED surroundings /\ route.at = "read" /\ ~ OutOfTime
  BY DEF ReadHome, Reading
<1>3. PICK took \in {1, ReadTime(route.spent)}, answered \in BOOLEAN :
        route' = [route EXCEPT !.at = "judge", !.spent = @ + took, !.locked = @ \ {h},
                               !.read = IF answered THEN signed[h] ELSE Nobody,
                               !.tried = @ \cup {h}]
  BY DEF ReadHome
<1> DEFINE found == IF answered THEN signed[h] ELSE Nobody
<1>4. h \in Homes /\ h \in DOMAIN route.rows /\ route.receipt = FALSE
  BY <1>1, <1>2, RunsIs, PartlyIs DEF ChosenInv
<1>5. found \in Names
  BY <1>1, <1>4 DEF AroundInv, Names
<1>6. took \in Nat /\ route.spent + took \in Nat /\ route.spent + took <= Limit
  <2>1. route.spent \in Nat /\ Limit \in Nat /\ route.spent < Limit
    BY <1>1, <1>2, RunsIs, LimitIs DEF OutOfTime
  <2>2. ReadTime(route.spent) \in Nat /\ ReadTime(route.spent) <= Limit - route.spent
    BY <2>1, ReadTimeIs
  <2> QED
    BY <1>3, <2>1, <2>2
<1>7. /\ route'.rows = route.rows /\ route'.busy = route.busy
      /\ route'.at = "judge" /\ route'.selected = h /\ route'.settled = route.settled
      /\ route'.validated = route.validated /\ route'.tried = route.tried \cup {h}
      /\ route'.known = route.known
      /\ route'.receipt = FALSE /\ route'.request = route.request
      /\ route'.spent = route.spent + took /\ route'.edition = route.edition
  BY <1>1, <1>3, <1>4 DEF Runs, Running
<1>8. route' = [route EXCEPT !.at = "judge", !.spent = route.spent + took, !.locked = route.locked \ {h},
                             !.read = found, !.tried = route.tried \cup {h}]
  BY <1>1, <1>3 DEF Runs, Running
<1> HIDE DEF h, found
<1>9. Runs'
  BY <1>1, <1>4, <1>5, <1>6, <1>8 DEF Runs, Running
<1>10. h \notin DOMAIN route.validated /\ h \notin route.tried
  BY <1>1, <1>2, <1>4 DEF TriedInv, h
<1>11. ChosenInv'
  BY <1>1, <1>2, <1>4, <1>7, <1>10 DEF ChosenInv, Known, Request, h
<1>12. TriedInv'
  <2>1. ~ JustRead /\ JustRead'
    BY <1>2, <1>7, <1>10 DEF JustRead
  <2>2. (Decision(route.rows, Request))' = Decision(route.rows, Request)
    BY <1>2, <1>7, RequestSame DEF Decision, surroundings
  <2>3. IsFiniteSet(route.tried)
    BY <1>1, RunsIs, HomesCounted, FS_Subset
  <2>4. Cardinality(route.tried \cup {h}) = Cardinality(route.tried) + 1
        /\ Cardinality(route.tried) \in Nat
    BY <1>10, <2>3, FS_AddElement, FS_CardinalityType
  <2>5. control.edition = route.edition =>
          route.settled + 1 <= Cardinality(route.tried \cup {h})
    <3>1. control.edition = route.edition => route.settled + 0 <= Cardinality(route.tried)
      BY <1>1, <1>2, <2>1 DEF TriedInv
    <3> QED
      BY <1>1, <2>4, <3>1, RunsIs
  <2> QED
    BY <1>1, <1>2, <1>4, <1>7, <2>1, <2>2, <2>5 DEF TriedInv, Known, Request, surroundings, h
<1>13. TimeInv'
  BY <1>6, <1>7, RequestSame DEF TimeInv
<1> QED
  BY <1>2, <1>9, <1>11, <1>12, <1>13, AroundSame DEF IInv, RouteType
LEMMA RejectKeeps == ASSUME IInv, Reject PROVE IInv'
<1> DEFINE h == route.selected
           rows == Without(route.rows, h)
<1>1. AroundInv /\ Runs /\ ChosenInv /\ TriedInv /\ TimeInv
  BY AtRuns DEF Reject
<1>2. /\ UNCHANGED surroundings /\ route.at = "judge" /\ route' = Dropped
      /\ ~ Valid \/ Refresh
  BY DEF Reject
<1>3. CASE Refresh
  BY <1>2, <1>3, EndedKeeps DEF Dropped, Ended
<1>4. CASE ~ Refresh
  <2>1. route' = [route EXCEPT !.at = "choose", !.settled = route.settled + 1, !.rows = rows]
    BY <1>2, <1>4 DEF Dropped
  <2>2. route.rows \in Partly(Rooms) /\ h \in DOMAIN route.rows
    BY <1>1, <1>2, RunsIs DEF ChosenInv
  <2>3. /\ rows \in Partly(Rooms) /\ DOMAIN rows = DOMAIN route.rows \ {h}
        /\ \A g \in DOMAIN route.rows \ {h} : rows[g] = route.rows[g]
    <3> HIDE DEF h
    <3> QED
      BY <2>2, WithoutIs
  <2> HIDE DEF rows
  <2>4. /\ route'.rows = rows /\ route'.busy = route.busy
        /\ route'.at = "choose" /\ route'.selected = h /\ route'.settled = route.settled + 1
        /\ route'.validated = route.validated /\ route'.tried = route.tried /\ route'.known = route.known
        /\ route'.receipt = route.receipt /\ route'.request = route.request
        /\ route'.spent = route.spent /\ route'.read = route.read /\ route'.edition = route.edition
    BY <1>1, <2>1 DEF Runs, Running
  <2>5. h \in route.tried /\ JustRead /\ route.settled + 1 \in 0 .. Len(Order) + 1
    <3>1. Len(Order) \in Nat
      BY HomesAssumption
    <3> QED
      BY <1>1, <1>2, <1>4, <3>1, RunsIs DEF ChosenInv, JustRead
  <2>6. Runs'
    BY <1>1, <2>1, <2>3, <2>5 DEF Runs, Running
  <2> HIDE DEF h
  <2>7. ChosenInv'
    BY <1>1, <2>3, <2>4 DEF ChosenInv, Known, Request
  <2>8. TriedInv'
    <3>1. ~ JustRead'
      BY <2>4 DEF JustRead
    <3>2. h \notin DOMAIN route.busy
      BY <1>1, <2>2 DEF ChosenInv
    <3>3. control.edition = route.edition => route.settled + 1 + 0 <= Cardinality(route.tried)
      <4>1. control.edition = route.edition => route.settled + 1 <= Cardinality(route.tried)
        BY <1>1, <1>2, <2>5 DEF TriedInv
      <4> QED
        BY <1>1, <4>1, RunsIs
    <3>4. \A g \in route.tried \cap (DOMAIN rows \cup DOMAIN route.busy) : g \in DOMAIN route.validated
      BY <1>1, <2>3, <3>2 DEF TriedInv, h
    <3> QED
      BY <1>1, <1>2, <2>2, <2>3, <2>4, <2>5, <3>1, <3>3, <3>4 DEF TriedInv, Known, Request, surroundings
  <2>9. TimeInv'
    BY <1>1, <2>4, RequestSame DEF TimeInv
  <2> QED
    BY <1>2, <2>6, <2>7, <2>8, <2>9, AroundSame DEF IInv, RouteType
<1> QED
  BY <1>3, <1>4

LEMMA AcceptKeeps == ASSUME IInv, Accept PROVE IInv'
<1>1. AroundInv /\ Runs /\ ChosenInv /\ TriedInv /\ TimeInv
  BY AtRuns DEF Accept
<1>2. /\ UNCHANGED surroundings /\ route.at = "judge" /\ Valid
      /\ route' = [route EXCEPT !.at = "authorize", !.settled = route.settled + 1]
  BY DEF Accept, Authorizing
<1>3. /\ route'.rows = route.rows /\ route'.busy = route.busy
      /\ route'.at = "authorize" /\ route'.selected = route.selected
      /\ route'.validated = route.validated /\ route'.tried = route.tried /\ route'.known = route.known
      /\ route'.receipt = route.receipt /\ route'.request = route.request
      /\ route'.spent = route.spent /\ route'.read = route.read /\ route'.edition = route.edition
  BY <1>1, <1>2 DEF Runs, Running
<1>4. Runs'
  <2>1. route.settled + 1 \in 0 .. Len(Order) + 1
    BY <1>1, <1>2, RunsIs, HomesAssumption DEF ChosenInv
  <2> QED
    BY <1>1, <1>2, <2>1 DEF Runs, Running
<1>5. ChosenInv'
  BY <1>1, <1>2, <1>3 DEF ChosenInv, Known, Request, Valid
<1>6. TriedInv'
  BY <1>1, <1>2, <1>3 DEF TriedInv, Known, Request, surroundings
<1>7. TimeInv'
  BY <1>1, <1>3, RequestSame DEF TimeInv
<1> QED
  BY <1>2, <1>4, <1>5, <1>6, <1>7, AroundSame DEF IInv, RouteType
LEMMA ReconsiderKeeps == ASSUME IInv, Reconsider PROVE IInv'
<1> DEFINE h == route.selected
<1>1. AroundInv /\ Runs /\ ChosenInv /\ TriedInv /\ TimeInv
  BY AtRuns DEF Reconsider
<1>2. /\ UNCHANGED surroundings /\ route.at = "judge" /\ Valid /\ ~ Refresh /\ route.receipt = FALSE
  BY <1>1, RunsIs DEF Reconsider
<1>3. PICK room \in (IF h \in DOMAIN route.validated THEN {route.rows[h]} ELSE Rooms) :
       LET rows == With(route.rows, h, room)
           second == Decision(rows, Request)
           now == [route EXCEPT !.rows = rows, !.validated = With(@, h, route.read)]
       IN route' = IF second.to = h THEN Authorizing(now)
                   ELSE IF second.to # Nowhere THEN [now EXCEPT !.at = "choose", !.settled = @ + 1]
                   ELSE [now EXCEPT !.at = "choose", !.settled = @ + 1, !.rows = Without(rows, h)]
  BY DEF Reconsider
<1> DEFINE rows == With(route.rows, h, room)
           validated == With(route.validated, h, route.read)
           second == Decision(rows, Request).to
<1>4. /\ h \in Homes /\ h \in DOMAIN route.rows /\ h \in route.tried /\ h \notin DOMAIN route.busy
      /\ room \in Rooms /\ route.read \in Subscriptions /\ route.read = Known(h).who
  <2>1. h \in DOMAIN route.rows /\ h \in route.tried /\ h \notin DOMAIN route.busy
    BY <1>1, <1>2 DEF ChosenInv
  <2>2. h \in Homes /\ route.rows[h] \in Rooms
    BY <1>1, <2>1, RunsIs, PartlyIs
  <2>3. route.read \in Subscriptions /\ route.read = Known(h).who
    BY <1>1, <1>2, RunsIs DEF Valid, Names
  <2> QED
    BY <1>3, <2>1, <2>2, <2>3
<1>5. /\ rows \in Partly(Rooms) /\ DOMAIN rows = DOMAIN route.rows
      /\ \A g \in DOMAIN route.rows \ {h} : rows[g] = route.rows[g]
  <2> DEFINE f == route.rows
  <2>1. f \in Partly(Rooms) /\ h \in Homes /\ room \in Rooms /\ h \in DOMAIN f
    BY <1>1, <1>4, RunsIs
  <2> HIDE DEF f, h
  <2>2. /\ With(f, h, room) \in Partly(Rooms) /\ DOMAIN With(f, h, room) = DOMAIN f \cup {h}
        /\ \A g \in DOMAIN f \ {h} : With(f, h, room)[g] = f[g]
    BY <2>1, WithIs
  <2> QED
    BY <2>1, <2>2 DEF f
<1>6. /\ validated \in Partly(Subscriptions) /\ DOMAIN validated = DOMAIN route.validated \cup {h}
      /\ validated[h] = route.read
      /\ \A g \in DOMAIN route.validated \ {h} : validated[g] = route.validated[g]
  <2> DEFINE f == route.validated
             v == route.read
  <2>1. f \in Partly(Subscriptions) /\ h \in Homes /\ v \in Subscriptions
    BY <1>1, <1>4, RunsIs
  <2> HIDE DEF f, h, v
  <2>2. /\ With(f, h, v) \in Partly(Subscriptions) /\ DOMAIN With(f, h, v) = DOMAIN f \cup {h}
        /\ With(f, h, v)[h] = v /\ \A g \in DOMAIN f \ {h} : With(f, h, v)[g] = f[g]
    BY <2>1, WithIs
  <2> QED
    BY <2>1, <2>2 DEF f, v
(* What was validated before comes out again while the settings stay. *)
<1>7. control.edition = route.edition /\ second # h => JustRead
  <2>1. CASE h \in DOMAIN route.validated
    <3>1. room = route.rows[h]
      BY <1>3, <2>1
    <3> DEFINE f == route.rows
    <3>2. f \in Partly(Rooms) /\ h \in DOMAIN f
      BY <1>1, <1>4, RunsIs
    <3> HIDE DEF f, h
    <3>3. With(f, h, f[h]) = f
      BY <3>2, WithSame
    <3>4. rows = route.rows
      BY <3>1, <3>3 DEF f
    <3>5. control.edition = route.edition => Decision(route.rows, Request).to = h
      BY <1>1, <1>2 DEF TriedInv, h
    <3> QED
      BY <3>4, <3>5
  <2>2. CASE h \notin DOMAIN route.validated
    BY <1>2, <2>2 DEF JustRead
  <2> QED
    BY <2>1, <2>2
<1> DEFINE less == Without(rows, h)
<1>8. /\ less \in Partly(Rooms) /\ DOMAIN less = DOMAIN rows \ {h}
      /\ \A g \in DOMAIN rows \ {h} : less[g] = rows[g]
  <2> HIDE DEF h, rows
  <2> QED
    BY <1>5, WithoutIs
<1>9. \E at \in {"authorize", "choose"}, rest \in {rows, less} :
        /\ route' = [route EXCEPT !.at = at, !.settled = route.settled + 1, !.rows = rest,
                                  !.validated = validated]
        /\ at = "authorize" => rest = rows
        /\ at = "choose" => second # h
  <2> DEFINE now == [route EXCEPT !.rows = rows, !.validated = validated]
  <2>1. CASE second = h
    <3>1. route' = [now EXCEPT !.at = "authorize", !.settled = @ + 1]
      BY <1>3, <2>1 DEF Authorizing
    <3>2. route' = [route EXCEPT !.at = "authorize", !.settled = route.settled + 1, !.rows = rows,
                                 !.validated = validated]
      <4> HIDE DEF rows, validated
      <4> QED
        BY <1>1, <3>1 DEF Runs, Running
    <3> QED
      BY <3>2
  <2>2. CASE second # h /\ second # Nowhere
    <3>1. route' = [now EXCEPT !.at = "choose", !.settled = @ + 1]
      BY <1>3, <2>2
    <3>2. route' = [route EXCEPT !.at = "choose", !.settled = route.settled + 1, !.rows = rows,
                                 !.validated = validated]
      <4> HIDE DEF rows, validated
      <4> QED
        BY <1>1, <3>1 DEF Runs, Running
    <3> QED
      BY <2>2, <3>2
  <2>3. CASE second # h /\ second = Nowhere
    <3>1. route' = [now EXCEPT !.at = "choose", !.settled = @ + 1, !.rows = less]
      BY <1>3, <2>3
    <3>2. route' = [route EXCEPT !.at = "choose", !.settled = route.settled + 1, !.rows = less,
                                 !.validated = validated]
      <4> HIDE DEF rows, validated, less
      <4> QED
        BY <1>1, <3>1 DEF Runs, Running
    <3> QED
      BY <2>3, <3>2
  <2> QED
    BY <2>1, <2>2, <2>3
<1>10. PICK at \in {"authorize", "choose"}, rest \in {rows, less} :
        /\ route' = [route EXCEPT !.at = at, !.settled = route.settled + 1, !.rows = rest,
                                  !.validated = validated]
        /\ at = "authorize" => rest = rows
        /\ at = "choose" => second # h
  BY <1>9
<1> HIDE DEF rows, validated, less, second
<1>11. /\ rest \in Partly(Rooms) /\ DOMAIN rest \subseteq DOMAIN route.rows
       /\ DOMAIN route.rows \ {h} \subseteq DOMAIN rest /\ (at = "authorize" => h \in DOMAIN rest)
       /\ \A g \in DOMAIN rest \ {h} : rest[g] = route.rows[g]
  BY <1>4, <1>5, <1>8, <1>10
<1>12. /\ route'.rows = rest /\ route'.busy = route.busy
       /\ route'.at = at /\ route'.selected = h /\ route'.settled = route.settled + 1
       /\ route'.validated = validated /\ route'.tried = route.tried /\ route'.known = route.known
       /\ route'.receipt = FALSE /\ route'.request = route.request
       /\ route'.spent = route.spent /\ route'.read = route.read /\ route'.edition = route.edition
  BY <1>1, <1>2, <1>10 DEF Runs, Running
<1>13. route.settled + 1 \in 0 .. Len(Order) + 1
  BY <1>1, <1>2, RunsIs, HomesAssumption DEF ChosenInv
<1>14. Runs'
  BY <1>1, <1>6, <1>10, <1>11, <1>13 DEF Runs, Running
<1>15. ChosenInv'
  <2> HIDE DEF h
  <2>1. \A g \in DOMAIN validated : validated[g] = Known(g).who
    BY <1>1, <1>4, <1>6 DEF ChosenInv
  <2>2. Valid' = Valid
    BY <1>12 DEF Valid, Known, h
  <2> QED
    BY <1>1, <1>2, <1>4, <1>6, <1>10, <1>11, <1>12, <2>1, <2>2 DEF ChosenInv, Known, Request
<1>16. TriedInv'
  <2>1. ~ JustRead'
    BY <1>10, <1>12 DEF JustRead
  <2>2. control.edition = route.edition /\ at = "choose" => route.settled + 1 + 0 <= Cardinality(route.tried)
    <3>1. control.edition = route.edition /\ at = "choose" => route.settled + 1 <= Cardinality(route.tried)
      BY <1>1, <1>2, <1>7, <1>10 DEF TriedInv
    <3> QED
      BY <1>1, <3>1, RunsIs
  <2>3. \A g \in route.tried \cap (DOMAIN rest \cup DOMAIN route.busy) : g \in DOMAIN validated
    BY <1>1, <1>2, <1>6, <1>11 DEF TriedInv
  <2> HIDE DEF h
  <2> QED
    BY <1>1, <1>2, <1>4, <1>10, <1>11, <1>12, <2>1, <2>2, <2>3 DEF TriedInv, Known, Request, surroundings
<1>17. TimeInv'
  BY <1>1, <1>12, RequestSame DEF TimeInv
<1> QED
  BY <1>2, <1>10, <1>12, <1>14, <1>15, <1>16, <1>17, AroundSame DEF IInv, RouteType
(* What changes around a request leaves it as it is; and once the settings *)
(* have changed, nothing is claimed of the decisions made under them.      *)
LEMMA UpsetKeeps ==
  ASSUME IInv,
         \/ \E h \in Homes : Hold(h) \/ Collected(h)
         \/ \E h \in Homes, s \in Subscriptions : SignIn(h, s)
         \/ Command
  PROVE  IInv'
<1>1. /\ route' = route /\ shown' = shown
      /\ route # Asleep /\ route.at # "answered" /\ upsets < MaxUpsets /\ upsets' = upsets + 1
  BY DEF Hold, Collected, SignIn, Command, Upset
<1>2. AroundInv /\ Runs /\ ChosenInv /\ TriedInv /\ TimeInv
  BY <1>1 DEF IInv, RouteType
<1>3. /\ upsets' \in 0 .. MaxUpsets /\ control.edition <= upsets'
      /\ control.edition + 1 <= upsets' /\ control.edition \in Nat
  <2>1. upsets \in 0 .. MaxUpsets /\ control.edition \in Nat /\ control.edition <= upsets
    BY <1>2 DEF AroundInv
  <2> QED
    BY <1>1, <2>1, BoundsAre
<1>4. \A h \in Homes, s \in Subscriptions :
        [record EXCEPT ![h] = [who |-> s, receipt |-> TRUE]]
          \in [Homes -> [who : Names, receipt : BOOLEAN]]
  BY <1>2 DEF AroundInv, Names
<1>5. AroundInv' /\ (control' = control \/ control'.edition = control.edition + 1)
  <2>1. CASE \E h \in Homes : Hold(h)
    <3>1. held' \subseteq Homes /\ UNCHANGED <<signed, record, shown, control>>
      BY <1>2, <2>1 DEF Hold, AroundInv
    <3> QED
      BY <1>1, <1>2, <1>3, <3>1 DEF AroundInv
  <2>2. CASE \E h \in Homes : Collected(h)
    <3>1. PICK h \in Homes : Collected(h)
      BY <2>2
    <3>2. record' = [record EXCEPT ![h] = [who |-> signed[h], receipt |-> TRUE]] /\ signed[h] \in Subscriptions
      BY <1>2, <3>1 DEF Collected, AroundInv
    <3>3. record' \in [Homes -> [who : Names, receipt : BOOLEAN]] /\ UNCHANGED <<signed, shown, held, control>>
      BY <1>4, <3>1, <3>2 DEF Collected
    <3> QED
      BY <1>1, <1>2, <1>3, <3>3 DEF AroundInv
  <2>3. CASE \E h \in Homes, s \in Subscriptions : SignIn(h, s)
    <3>1. PICK h \in Homes, s \in Subscriptions : SignIn(h, s)
      BY <2>3
    <3>2. /\ signed' = [signed EXCEPT ![h] = s] /\ UNCHANGED <<shown, held, control>>
          /\ record' \in {record, [record EXCEPT ![h] = [who |-> s, receipt |-> TRUE]]}
      BY <3>1 DEF SignIn
    <3>3. record' \in [Homes -> [who : Names, receipt : BOOLEAN]]
      <4>1. record \in [Homes -> [who : Names, receipt : BOOLEAN]]
        BY <1>2 DEF AroundInv
      <4>2. [record EXCEPT ![h] = [who |-> s, receipt |-> TRUE]]
              \in [Homes -> [who : Names, receipt : BOOLEAN]]
        BY <1>4
      <4> QED
        BY <3>2, <4>1, <4>2, Zenon
    <3> QED
      BY <1>1, <1>2, <1>3, <3>2, <3>3 DEF AroundInv
  <2>4. CASE Command
    <3> DEFINE later == control.edition + 1
    <3>0. later \in Nat /\ later <= upsets'
      BY <1>3
    <3>1. PICK stop \in {"", "paused"}, hold \in BOOLEAN :
            control' = [stop |-> stop, hold |-> hold, edition |-> control.edition + 1]
      BY <2>4 DEF Command
    <3>3. /\ control' \in [stop : {"", "paused"}, hold : BOOLEAN, edition : Nat]
          /\ control'.edition <= upsets' /\ control'.edition = control.edition + 1
      <4>1. control' = [stop |-> stop, hold |-> hold, edition |-> later]
        BY <3>1
      <4> HIDE DEF later
      <4>2. control' \in [stop : {"", "paused"}, hold : BOOLEAN, edition : Nat] /\ control'.edition = later
        BY <3>0, <4>1
      <4> QED
        BY <3>0, <4>2 DEF later
    <3>4. UNCHANGED <<signed, record, shown, held>>
      BY <2>4 DEF Command
    <3> QED
      BY <1>1, <1>2, <1>3, <3>3, <3>4 DEF AroundInv
  <2> QED
    BY <2>1, <2>2, <2>3, <2>4
<1>6. Runs' /\ TimeInv'
  BY <1>1, <1>2, RequestSame DEF Runs, TimeInv
<1>7. ChosenInv'
  BY <1>1, <1>2 DEF ChosenInv, Known, Request, Valid
<1>8. TriedInv'
  <2>1. control.edition \in Nat /\ route.edition \in Nat
    BY <1>2, RunsIs DEF AroundInv
  <2>2. CASE control' = control
    <3>1. (Decision(route.rows, Request))' = Decision(route.rows, Request) /\ JustRead' = JustRead
      BY <1>1, <2>2, RequestSame DEF Decision, JustRead
    <3> QED
      BY <1>1, <1>2, <2>2, <3>1 DEF TriedInv, Known, Request
  <2>3. CASE control'.edition = control.edition + 1
    <3>1. control'.edition # route.edition /\ route.edition <= control'.edition
      BY <1>2, <2>1, <2>3 DEF TriedInv
    <3> QED
      BY <1>1, <1>2, <3>1 DEF TriedInv, Known, Request
  <2> QED
    BY <1>5, <2>2, <2>3
<1> QED
  BY <1>5, <1>6, <1>7, <1>8 DEF IInv, RouteType

LEMMA Inductive == IInv /\ [Next]_vars => IInv'
<1> SUFFICES ASSUME IInv, [Next]_vars PROVE IInv'
  OBVIOUS
<1>1. CASE \E request \in Requests : Begin(request)
  BY <1>1, BeginKeeps
<1>2. CASE Step
  BY <1>2, GiveUpKeeps, TryAsideKeeps, ChooseKeeps, WaitKeeps, SetAsideKeeps, ReadHomeKeeps,
     RejectKeeps, AcceptKeeps, ReconsiderKeeps DEF Step
<1>3. CASE \/ \E h \in Homes : Hold(h) \/ Collected(h)
           \/ \E h \in Homes, s \in Subscriptions : SignIn(h, s)
           \/ Command
  BY <1>3, UpsetKeeps
<1>4. CASE UNCHANGED vars
  <2>1. route' = route /\ UNCHANGED surroundings
    BY <1>4 DEF vars
  <2>2. Runs' = Runs /\ RouteType' = RouteType /\ ChosenInv' = ChosenInv /\ TimeInv' = TimeInv
    BY <2>1, RequestSame DEF Runs, RouteType, ChosenInv, TimeInv, Known, Request, Valid
  <2>3. TriedInv' = TriedInv
    <3>1. (Decision(route.rows, Request))' = Decision(route.rows, Request) /\ JustRead' = JustRead
      BY <2>1, RequestSame DEF Decision, JustRead, surroundings
    <3> QED
      BY <2>1, <3>1 DEF TriedInv, Known, Request, surroundings
  <2> QED
    BY <2>1, <2>2, <2>3, AroundSame DEF IInv
<1> QED
  BY <1>1, <1>2, <1>3, <1>4 DEF Next

LEMMA Initial == Init => IInv
<1> SUFFICES ASSUME Init PROVE IInv
  OBVIOUS
<1>1. shown \in [Homes -> Rooms]
  BY DEF Init
<1>2. record \in [Homes -> [who : Names, receipt : BOOLEAN]]
  <2> DEFINE S == [who : Subscriptions, receipt : {TRUE}] \cup [who : {Nobody}, receipt : {FALSE}]
             T == [who : Names, receipt : BOOLEAN]
  <2>1. record \in [Homes -> S]
    BY DEF Init
  <2>2. \A v \in S : v \in T
    BY DEF Names
  <2> HIDE DEF S, T
  <2>3. record \in [Homes -> T]
    BY <2>1, <2>2
  <2> QED
    BY <2>3 DEF T
<1>3. upsets \in 0 .. MaxUpsets /\ control.edition <= upsets
      /\ control \in [stop : {"", "paused"}, hold : BOOLEAN, edition : Nat]
  <2>1. upsets = 0
    BY DEF Init
  <2>2. upsets \in 0 .. MaxUpsets /\ 0 <= upsets
    BY <2>1, BoundsAre
  <2>3. PICK stop \in {"", "paused"}, hold \in BOOLEAN :
          control = [stop |-> stop, hold |-> hold, edition |-> 0]
    BY DEF Init
  <2>4. control \in [stop : {"", "paused"}, hold : BOOLEAN, edition : Nat] /\ control.edition = 0
    BY <2>3
  <2> QED
    BY <2>2, <2>4, Zenon
<1>4. route = Asleep /\ ~ Runs
  BY DEF Init, Asleep, Runs, Running
<1> QED
  BY <1>1, <1>2, <1>3, <1>4 DEF Init, IInv, AroundInv, RouteType

LEMMA Invariant == Spec => []IInv
  BY Initial, Inductive, PTL DEF Spec

-----------------------------------------------------------------------------
(* Theorems *)

(* route.rs: the variables keep their types, an account is either          *)
(* considered or set aside, and the passes stay within their bound.        *)
THEOREM TypeCorrect == Spec => []TypeOK
<1>1. IInv => TypeOK
  <2> SUFFICES ASSUME IInv PROVE TypeOK
    OBVIOUS
  <2>1. control \in [stop : {"", "paused"}, hold : BOOLEAN, edition : 0 .. MaxUpsets]
    <3>1. /\ control \in [stop : {"", "paused"}, hold : BOOLEAN, edition : Nat]
          /\ upsets \in 0 .. MaxUpsets /\ control.edition <= upsets
      BY DEF IInv, AroundInv
    <3> DEFINE now == control.edition
    <3>2. now \in Nat /\ now <= upsets /\ upsets \in 0 .. MaxUpsets
      BY <3>1
    <3>3. now \in 0 .. MaxUpsets
      <4> HIDE DEF now
      <4> QED
        BY <3>2, BoundsAre
    <3> QED
      BY <3>1, <3>3
  <2>2. CASE route = Asleep
    BY <2>1, <2>2 DEF IInv, AroundInv, TypeOK, Names, Asleep
  <2>3. CASE route.at = "answered"
    BY <2>1, <2>3 DEF IInv, AroundInv, TypeOK, Names
  <2>4. CASE Runs
    BY <2>1, <2>4, RunsIs DEF IInv, AroundInv, ChosenInv, TypeOK, Names
  <2> QED
    BY <2>2, <2>3, <2>4 DEF IInv, RouteType
<1> QED
  BY <1>1, Invariant, PTL
LEMMA StepRuns == ASSUME IInv, Step PROVE Runs
<1>1. route.at \in {"choose", "read", "judge", "authorize"}
  BY DEF Step, GiveUp, TryAside, Refuse, Choose, RunOut, Wait, SetAside, ReadHome, Reject,
         Accept, Reconsider, Authorize, Choosing, Reading
<1> QED
  BY <1>1, AtRuns

(* An answer either gives up, or is given in the boundary. *)
LEMMA AnswersAre ==
  ASSUME IInv, Step, Answered'
  PROVE  Authorize \/ \E why : route' = Ended(why)
<1>0. Runs
  BY StepRuns
<1>1. CASE GiveUp \/ Refuse \/ RunOut
  BY <1>1, Zenon DEF GiveUp, Refuse, RunOut
<1>2. CASE TryAside
  <2>1. route'.at = "choose"
    BY <1>0, <1>2 DEF TryAside, Choosing, Runs, Running
  <2> QED
    BY <2>1 DEF Answered
<1>3. CASE Choose
  <2>1. route'.at \in {"judge", "read"}
    BY <1>0, <1>3 DEF Choose, Runs, Running
  <2> QED
    BY <2>1 DEF Answered
<1>4. CASE Wait
  <2>1. route'.at = "read"
    BY <1>0, <1>4 DEF Wait, Reading, Runs, Running
  <2> QED
    BY <2>1 DEF Answered
<1>5. CASE SetAside
  <2>1. CASE Refresh \/ Request.background
    BY <1>5, <2>1, Zenon DEF SetAside
  <2>2. CASE ~ (Refresh \/ Request.background)
    <3>1. route'.at = "choose"
      BY <1>0, <1>5, <2>2 DEF SetAside, Runs, Running
    <3> QED
      BY <3>1 DEF Answered
  <2> QED
    BY <2>1, <2>2
<1>6. CASE ReadHome
  <2>1. route'.at = "judge"
    BY <1>0, <1>6 DEF ReadHome, Runs, Running
  <2> QED
    BY <2>1 DEF Answered
<1>7. CASE Reject
  <2>1. CASE Refresh
    BY <1>7, <2>1, Zenon DEF Reject, Dropped
  <2>2. CASE ~ Refresh
    <3>1. route'.at = "choose"
      BY <1>0, <1>7, <2>2 DEF Reject, Dropped, Runs, Running
    <3> QED
      BY <3>1 DEF Answered
  <2> QED
    BY <2>1, <2>2
<1>8. CASE Accept
  <2>1. route'.at = "authorize"
    BY <1>0, <1>8 DEF Accept, Authorizing, Runs, Running
  <2> QED
    BY <2>1 DEF Answered
<1>9. CASE Reconsider
  <2>1. route'.at \in {"authorize", "choose"}
    BY <1>0, <1>9 DEF Reconsider, Authorizing, Runs, Running
  <2> QED
    BY <2>1 DEF Answered
<1> QED
  BY <1>1, <1>2, <1>3, <1>4, <1>5, <1>6, <1>7, <1>8, <1>9 DEF Step

LEMMA OthersAnswerNothing ==
  ASSUME [Next]_vars, route # Asleep, Answered', ~ Answered PROVE Step
<1>1. CASE UNCHANGED vars
  BY <1>1 DEF vars, Answered
<1>2. CASE \E request \in Requests : Begin(request)
  BY <1>2 DEF Begin
<1>3. CASE \/ \E h \in Homes : Hold(h) \/ Collected(h)
           \/ \E h \in Homes, s \in Subscriptions : SignIn(h, s)
           \/ Command
  BY <1>3 DEF Hold, Collected, SignIn, Command, Upset, Answered
<1> QED
  BY <1>1, <1>2, <1>3 DEF Next

(* route.rs: a sign-in that is handed out is the one of the subscription   *)
(* the account is recorded for at that moment, and a session that starts   *)
(* work gets an account that was read, and had room, within its request.   *)
THEOREM HandsOutTrue == Spec => HandedOutTrue
<1> DEFINE Handed ==
      route # Asleep /\ Answered' /\ route'.to # Nowhere /\ ~ Answered =>
       LET answer == route' IN
       /\ answer.token = record[answer.to].who
       /\ answer.request.operation \in {"select", "exec"} =>
            answer.to \in answer.tried /\ answer.room > 0
<1>1. IInv /\ [Next]_vars => Handed
  <2> SUFFICES ASSUME IInv, [Next]_vars, route # Asleep, Answered', route'.to # Nowhere, ~ Answered
               PROVE  /\ route'.token = record[route'.to].who
                      /\ route'.request.operation \in {"select", "exec"} =>
                           route'.to \in route'.tried /\ route'.room > 0
    OBVIOUS
  <2> DEFINE h == route.selected
  <2>1. Authorize
    <3>1. \A why : Ended(why).to = Nowhere
      BY DEF Ended
    <3> QED
      BY <3>1, AnswersAre, OthersAnswerNothing
  <2>2. AroundInv /\ Runs /\ ChosenInv
    BY <2>1, AtRuns DEF Authorize
  <2>3. /\ route.at = "authorize" /\ Unchanged(h) /\ Decision(route.rows, Request).to = h
        /\ route'.to = h /\ route'.token = route.read /\ route'.request = Request
        /\ route'.room = route.rows[h] /\ route'.tried = route.tried
    BY <2>1 DEF Authorize, Ended
  <2>4. route'.token = record[route'.to].who
    BY <2>2, <2>3 DEF ChosenInv, Valid, Unchanged
  <2>5. ASSUME route'.request.operation \in {"select", "exec"}
        PROVE  route'.to \in route'.tried /\ route'.room > 0
    <3>1. h \in route.tried
      BY <2>2, <2>3, <2>5 DEF ChosenInv
    <3>2. h \in Usable(route.rows)
      <4>1. h # Nowhere /\ Request.operation # "refresh" /\ Request \in Requests
        BY <2>2, <2>3, <2>5, RunsIs DEF Request
      <4>2. control.stop \in {"", "paused"} /\ route.rows \in Partly(Rooms)
        BY <2>2, RunsIs DEF AroundInv
      <4> QED
        BY <2>3, <4>1, <4>2, DecisionIs
    <3> QED
      BY <2>3, <3>1, <3>2 DEF Usable
  <2> QED
    BY <2>4, <2>5
<1> QED
  BY <1>1, Invariant, PTL DEF Spec, HandedOutTrue

(* route.rs: unless the selection is held, or the settings changed         *)
(* meanwhile, a session is told that nothing is available only when        *)
(* nothing it considers may be used, and every account that was shown with *)
(* room has been tried; the passes are enough to try them all.             *)
THEOREM UnavailableIsTrue == Spec => UnavailableTrue
<1>1. IInv /\ [Next]_vars =>
        (ToldUnavailable /\ ~ control.hold /\ control.edition = route.edition =>
           /\ Usable(route.rows) = {}
           /\ \A h \in Homes : Known(h).who = Nobody \/ h \in Request.exclude \/ h \in route.tried
                               \/ shown[h] = 0)
  <2> SUFFICES ASSUME IInv, [Next]_vars, ToldUnavailable, ~ control.hold, control.edition = route.edition
               PROVE  /\ Usable(route.rows) = {}
                      /\ \A h \in Homes : Known(h).who = Nobody \/ h \in Request.exclude
                                          \/ h \in route.tried \/ shown[h] = 0
    OBVIOUS
  <2>1. route.at = "choose" /\ Answered' /\ route'.why = "unavailable" /\ ~ Refresh /\ ~ Answered
    BY DEF ToldUnavailable, Answered
  <2>2. AroundInv /\ Runs /\ ChosenInv /\ TriedInv
    BY <2>1, AtRuns
  <2>3. Step
    <3>1. route # Asleep
      BY <2>1 DEF Asleep
    <3> QED
      BY <2>1, <3>1, OthersAnswerNothing
  <2>4. GiveUp \/ Refuse
    <3>1. ~ TryAside
      <4> SUFFICES ASSUME TryAside PROVE FALSE
        OBVIOUS
      <4>1. route'.at = "choose"
        BY <2>1, <2>2 DEF TryAside, Runs, Running
      <4> QED
        BY <2>1, <4>1 DEF Answered
    <3>2. ~ Choose
      <4> SUFFICES ASSUME Choose PROVE FALSE
        OBVIOUS
      <4>1. route'.at \in {"judge", "read"}
        BY <2>2 DEF Choose, Runs, Running
      <4> QED
        BY <2>1, <4>1 DEF Answered
    <3> QED
      BY <2>1, <2>3, <3>1, <3>2 DEF Step, RunOut, Wait, SetAside, ReadHome, Reject, Accept,
                                   Reconsider, Authorize, Reading
  <2>5. \A why : Ended(why).why = why
    BY DEF Ended
  <2>6. ~ GiveUp
    <3>1. Passes(route.settled)
      <4>1. route.settled + 0 <= Cardinality(route.tried)
        BY <2>1, <2>2 DEF TriedInv, JustRead
      <4>2. Cardinality(route.tried) \in Nat /\ Cardinality(route.tried) <= Cardinality(Homes)
        BY <2>2, RunsIs, HomesCounted, FS_Subset, FS_CardinalityType
      <4>3. Len(Order) \in Nat
        BY HomesAssumption
      <4>4. route.settled \in Nat
        BY <2>2, <4>3, RunsIs
      <4> QED
        BY <4>1, <4>2, <4>3, <4>4, HomesCounted DEF Passes
    <3>2. SUFFICES ASSUME GiveUp PROVE FALSE
      OBVIOUS
    <3>3. route' = Ended(IF route.locked = {} THEN "validation_timeout" ELSE "account_busy")
      BY <3>1, <3>2 DEF GiveUp
    <3>4. route'.why \in {"validation_timeout", "account_busy"}
      BY <2>5, <3>3
    <3> QED
      BY <2>1, <3>4
  <2>7. Refuse
    BY <2>4, <2>6
  <2>8. DOMAIN route.busy = {} /\ Decision(route.rows, Request).why = "unavailable"
    BY <2>1, <2>5, <2>7 DEF Refuse
  <2>9. Usable(route.rows) = {}
    <3>1. Request.operation # "refresh" /\ Request \in Requests /\ route.rows \in Partly(Rooms)
      BY <2>1, <2>2, RunsIs DEF Refresh, Request
    <3>2. control.stop \in {"", "paused"}
      BY <2>2 DEF AroundInv
    <3> QED
      BY <2>8, <3>1, <3>2, DecisionIs
  <2>10. ASSUME NEW h \in Homes, h \in DOMAIN route.rows, h \notin route.tried PROVE shown[h] = 0
    <3>1. route.rows[h] = shown[h] /\ route.rows[h] \in Rooms
      BY <2>2, <2>10, RunsIs, PartlyIs DEF TriedInv
    <3>2. ~ (route.rows[h] > 0)
      BY <2>9, <2>10 DEF Usable
    <3> QED
      BY <3>1, <3>2 DEF Rooms
  <2> QED
    BY <2>2, <2>8, <2>9, <2>10 DEF TriedInv
<1> QED
  BY <1>1, Invariant, PTL DEF Spec, UnavailableTrue
(* route.rs: a request keeps to its time while it runs, and has kept to    *)
(* the longer of the two budgets when it is answered, however long readers *)
(* and homes take.                                                         *)
THEOREM TimeIsKept == Spec => []WithinBudget
<1> DEFINE Kept == Answered => route.spent <= Budget(FALSE)
<1>1. Init => Kept
  <2>1. Init => route = Asleep
    BY DEF Init
  <2>2. Asleep.at = "idle"
    BY DEF Asleep
  <2> QED
    BY <2>1, <2>2 DEF Answered
<1>2. IInv /\ Kept /\ [Next]_vars => Kept'
  <2> SUFFICES ASSUME IInv, Kept, [Next]_vars, Answered' PROVE route'.spent <= Budget(FALSE)
    OBVIOUS
  <2> DEFINE long == Budget(FALSE)
  <2>1. CASE route = Asleep
    <3>1. \E request \in Requests : Begin(request)
      <4>1. ~ Answered /\ ~ Runs
        BY <2>1 DEF Asleep, Answered, Runs, Running
      <4>2. ~ Step
        BY <4>1, StepRuns
      <4>3. route' # route
        BY <4>1 DEF Answered
      <4> QED
        BY <4>2, <4>3 DEF Next, vars, Hold, Collected, SignIn, Command, Upset
    <3>2. route'.spent = 0
      BY <3>1 DEF Begin, Answered
    <3> HIDE DEF long
    <3>3. long \in Nat => 0 <= long
      OBVIOUS
    <3> QED
      BY <3>2, <3>3, LimitIs DEF long
  <2>2. CASE route # Asleep /\ Answered
    <3>1. ~ Runs
      BY <2>2 DEF Answered, Runs, Running
    <3>2. ~ Step
      BY <3>1, StepRuns
    <3>3. route' = route
      BY <2>2, <3>2 DEF Next, vars, Begin, Hold, Collected, SignIn, Command, Upset, Answered
    <3> QED
      BY <2>2, <3>3
  <2>3. CASE route # Asleep /\ ~ Answered
    <3>1. Step
      BY <2>3, OthersAnswerNothing
    <3>2. Runs /\ TimeInv
      BY <3>1, StepRuns DEF IInv
    <3>3. route'.spent = route.spent
      <4>1. CASE Authorize
        BY <4>1 DEF Authorize, Ended
      <4>2. CASE \E why : route' = Ended(why)
        BY <4>2 DEF Ended
      <4> QED
        BY <3>1, <4>1, <4>2, AnswersAre
    <3>4. route.spent \in Nat /\ route.spent <= Limit /\ Limit \in Nat /\ Limit <= long /\ long \in Nat
      BY <3>2, RunsIs, LimitIs DEF TimeInv
    <3> DEFINE short == Limit
    <3>5. route.spent <= long
      <4> HIDE DEF long, short
      <4>1. short \in Nat /\ route.spent <= short /\ short <= long
        BY <3>4 DEF short
      <4> QED
        BY <3>4, <4>1
    <3> QED
      BY <3>3, <3>5
  <2> QED
    BY <2>1, <2>2, <2>3
<1>3. IInv /\ Kept => WithinBudget
  <2> SUFFICES ASSUME IInv, Kept, route # Asleep, ~ Answered PROVE route.spent <= Limit
    BY DEF WithinBudget
  <2> QED
    BY DEF IInv, RouteType, TimeInv, Answered
<1> QED
  BY <1>1, <1>2, <1>3, Invariant, PTL DEF Spec
-----------------------------------------------------------------------------
(* One read of one home *)

Results == (1 .. 4) \X {"plain", "subscription", "key"}
Lines == {TooLong, Broken, Notice} \cup UNION {Right(id) \cup Wrong(id) : id \in 1 .. 4}

WireType ==
  /\ pc \in {"start", "locked", "ask", "hear", "stop", "unlock", "done"}
  /\ program \in {"none", "running", "shut", "gone"} /\ receiver \in BOOLEAN
  /\ left \in Nat /\ asks \in Seq(1 .. 4) /\ answers \in Seq(Results)
  /\ printed \in Lines \cup {Silence} /\ inHand \in Lines \cup {Silence} /\ heard \in Seq(Lines)

(* The lock is held from before the program is started until after it has *)
(* gone.                                                                   *)
LockInv ==
  /\ Alive => pc \in {"ask", "hear", "stop"}
  /\ pc \in {"locked", "ask", "hear", "stop", "unlock"} => lock = "ours"
  /\ pc \in {"start", "locked"} => program = "none"
  /\ pc \in {"ask", "hear", "stop"} => program # "none"

(* As many answers have been taken as questions were asked, each the answer *)
(* to its own; a thread that has ended while it is listened to had nothing *)
(* more to read, or has told of a line too long.                           *)
TurnInv ==
  /\ Len(answers) <= Len(asks)
  /\ pc # "done" => next \in 1 .. Len(asks)
  /\ pc \in {"start", "locked", "ask", "hear"} => Len(answers) = next - 1
  /\ pc \in {"start", "locked", "ask", "hear"} => outcome = ""

AnswerInv ==
  /\ \A i \in DOMAIN answers : answers[i][1] = asks[i]
  /\ pc \in {"start", "locked", "ask", "hear"} => \A i \in DOMAIN answers : answers[i] # <<2, "key">>

HeardInv ==
  /\ receiver <=> pc \in {"ask", "hear"}
  /\ receiver /\ reader = "ended" =>
       program \in {"shut", "gone"} \/ \E i \in DOMAIN heard : heard[i] = TooLong

ToldInv ==
  /\ outcome = "account" => Len(answers) = Len(asks) /\ \A i \in DOMAIN answers : answers[i] # <<2, "key">>
  /\ outcome = "timeout" => left = 0
  /\ outcome = "process_exited" => program # "running"
  /\ outcome \in {"home_busy", "home_missing"} => program = "none"

WireInv == WireType /\ LockInv /\ TurnInv /\ AnswerInv /\ HeardInv /\ ToldInv

LEMMA LinesAre ==
  /\ Silence \notin Lines /\ TooLong \in Lines /\ Broken \in Lines /\ Notice \in Lines
  /\ \A id \in 1 .. 4 : Right(id) \subseteq Lines /\ Wrong(id) \subseteq Lines
<1>1. /\ Silence.text = "none" /\ TooLong.text = "too long" /\ Broken.text = "broken"
      /\ Notice.text = "message"
  BY DEF Silence, TooLong, Broken, Notice, Answer
<1>0. \A id, error, result : Answer(id, error, result).text = "message"
  BY DEF Answer
<1>2. \A id \in 1 .. 4 : \A line \in Right(id) \cup Wrong(id) : line.text = "message"
  BY <1>0, Zenon DEF Right, Wrong
<1> QED
  BY <1>1, <1>2 DEF Lines

(* A result is of the question it is for. *)
LEMMA SaidIs ==
  ASSUME NEW line \in Lines, NEW id \in 1 .. 4, line # TooLong, Said(line, id).says = "result"
  PROVE  Said(line, id).result \in Results /\ Said(line, id).result[1] = id
<1>1. CASE line = Broken
  BY <1>1 DEF Broken, Said
<1>2. CASE line = Notice
  BY <1>2 DEF Notice, Answer, Said, Nothing
<1>3. CASE \E i \in 1 .. 4 : line \in Right(i)
  <2>1. PICK i \in 1 .. 4, kind \in {"plain", "subscription", "key"} :
          line = [text |-> "message", id |-> i, error |-> "", result |-> <<i, kind>>]
    BY <1>3 DEF Right, Answer
  <2>2. line.text = "message" /\ line.id = i /\ line.result = <<i, kind>>
    BY <2>1
  <2>3. line.id = id /\ Said(line, id).result = line.result
    BY <2>2 DEF Said, Nothing
  <2>4. <<i, kind>> \in Results /\ <<i, kind>>[1] = i
    BY DEF Results
  <2> QED
    BY <2>2, <2>3, <2>4
<1>4. CASE \E i \in 1 .. 4 : line \in Wrong(i)
  <2>1. PICK i \in 1 .. 4, error \in {"403", ""} :
          line = [text |-> "message", id |-> i, error |-> error, result |-> <<>>]
    BY <1>4 DEF Wrong, Answer
  <2>2. line.text = "message" /\ line.result = <<>>
    BY <2>1
  <2> QED
    BY <2>2 DEF Said, Nothing
<1> QED
  BY <1>1, <1>2, <1>3, <1>4 DEF Lines

LEMMA WireBegins == WireInit \/ WireOver => WireInv
<1> SUFFICES ASSUME WireInit \/ WireOver PROVE WireInv
  OBVIOUS
<1>1. Patience \in Nat /\ Patience # 0
  BY WireAssumption
<1>2. asks \in Seq(1 .. 4) /\ Len(asks) \in Nat /\ (pc # "done" => Len(asks) >= 1)
  <2>1. CASE WireInit
    <3>1. asks \in Seq(1 .. 4) /\ asks # <<>>
      BY <2>1, WireAssumption, Zenon DEF WireInit
    <3> QED
      BY <3>1
  <2>2. CASE WireOver
    BY <2>2 DEF WireOver
  <2> QED
    BY <2>1, <2>2
<1>3. /\ next = 1 /\ answers = <<>> /\ program = "none" /\ printed = Silence
      /\ reader = "none" /\ inHand = Silence /\ heard = <<>> /\ receiver = FALSE
  BY DEF WireInit, WireOver, Still
<1>4. pc \in {"start", "done"} /\ left \in Nat
  <2>1. left = Patience \/ left = 0
    BY DEF WireInit, WireOver
  <2>2. pc \in {"start", "done"}
    BY Zenon DEF WireInit, WireOver
  <2> QED
    BY <1>1, <2>1, <2>2
<1>5. WireType
  <2>1. answers \in Seq(Results) /\ heard \in Seq(Lines)
    BY <1>3
  <2> QED
    BY <1>2, <1>3, <1>4, <2>1 DEF WireType
<1>6. LockInv /\ HeardInv
  BY <1>3, <1>4 DEF LockInv, HeardInv, Alive
<1>9. (pc # "done" => outcome = "") /\ outcome \in {"", "home_missing"}
  BY Zenon DEF WireInit, WireOver
<1>7. TurnInv
  <2>1. Len(answers) = 0 /\ Len(answers) <= Len(asks) /\ Len(answers) = next - 1
    BY <1>2, <1>3
  <2>2. pc # "done" => next \in 1 .. Len(asks)
    BY <1>2, <1>3
  <2> QED
    BY <1>9, <2>1, <2>2, Zenon DEF TurnInv
<1>8. AnswerInv /\ ToldInv
  <2>1. DOMAIN answers = {}
    BY <1>3
  <2> QED
    BY <1>3, <1>4, <1>9, <2>1 DEF AnswerInv, ToldInv
<1> QED
  BY <1>5, <1>6, <1>7, <1>8 DEF WireInv

LEMMA BeginReadTruly == ASSUME WireInv, BeginRead PROVE WireInv'
<1>1. WireType'
  BY LinesAre DEF WireInv, WireType, BeginRead, read, thread
<1>2. LockInv'
  BY DEF WireInv, LockInv, Alive, BeginRead, read, thread
<1>3. TurnInv'
  BY DEF WireInv, TurnInv, BeginRead, read, thread
<1>4. AnswerInv'
  BY DEF WireInv, AnswerInv, BeginRead, read, thread
<1>5. HeardInv'
  BY DEF WireInv, HeardInv, BeginRead, read, thread
<1>6. ToldInv'
  BY DEF WireInv, TurnInv, LockInv, ToldInv, BeginRead, read, thread
<1> QED
  BY <1>1, <1>2, <1>3, <1>4, <1>5, <1>6 DEF WireInv

LEMMA StartTruly == ASSUME WireInv, Start PROVE WireInv'
<1>1. WireType'
  BY LinesAre DEF WireInv, WireType, Start, read, thread
<1>2. LockInv'
  BY DEF WireInv, LockInv, Alive, Start, read, thread
<1>3. TurnInv'
  BY DEF WireInv, TurnInv, Start, read, thread
<1>4. AnswerInv'
  BY DEF WireInv, AnswerInv, Start, read, thread
<1>5. HeardInv'
  BY DEF WireInv, HeardInv, Start, read, thread
<1>6. ToldInv'
  BY DEF WireInv, TurnInv, ToldInv, Start, read, thread
<1> QED
  BY <1>1, <1>2, <1>3, <1>4, <1>5, <1>6 DEF WireInv

LEMMA AskTruly == ASSUME WireInv, Ask PROVE WireInv'
<1>1. WireType'
  <2>1. <<>> \in Seq(Lines)
    OBVIOUS
  <2> QED
    BY <2>1 DEF WireInv, WireType, Ask, End, read, thread
<1>2. LockInv'
  BY DEF WireInv, LockInv, Alive, Ask, End, read, thread
<1>3. TurnInv'
  BY DEF WireInv, TurnInv, Ask, End, read, thread
<1>4. AnswerInv'
  BY DEF WireInv, AnswerInv, Ask, End, read, thread
<1>5. HeardInv'
  BY DEF WireInv, HeardInv, Ask, End, read, thread
<1>6. ToldInv'
  BY DEF WireInv, ToldInv, Ask, End, read, thread
<1> QED
  BY <1>1, <1>2, <1>3, <1>4, <1>5, <1>6 DEF WireInv

LEMMA StopHearingTruly == ASSUME WireInv, StopHearing PROVE WireInv'
<1>1. WireType'
  <2>1. <<>> \in Seq(Lines)
    OBVIOUS
  <2> QED
    BY <2>1 DEF WireInv, WireType, StopHearing, End, read, thread
<1>2. LockInv'
  BY DEF WireInv, LockInv, Alive, StopHearing, End, read, thread
<1>3. TurnInv'
  BY DEF WireInv, TurnInv, StopHearing, End, read, thread
<1>4. AnswerInv'
  BY DEF WireInv, AnswerInv, StopHearing, End, read, thread
<1>5. HeardInv'
  BY DEF WireInv, HeardInv, StopHearing, End, read, thread
<1>6. ToldInv'
  BY DEF WireInv, HeardInv, ToldInv, StopHearing, End, read, thread
<1> QED
  BY <1>1, <1>2, <1>3, <1>4, <1>5, <1>6 DEF WireInv

LEMMA StopTruly == ASSUME WireInv, Stop PROVE WireInv'
<1>1. WireType'
  BY LinesAre DEF WireInv, WireType, Stop, Leaves, read, thread
<1>2. LockInv'
  BY DEF WireInv, LockInv, Alive, Stop, Leaves, read, thread
<1>3. TurnInv'
  BY DEF WireInv, TurnInv, Stop, Leaves, read, thread
<1>4. AnswerInv'
  BY DEF WireInv, AnswerInv, Stop, Leaves, read, thread
<1>5. HeardInv'
  BY DEF WireInv, HeardInv, Stop, Leaves, read, thread
<1>6. ToldInv'
  BY DEF WireInv, LockInv, ToldInv, Stop, Leaves, read, thread
<1> QED
  BY <1>1, <1>2, <1>3, <1>4, <1>5, <1>6 DEF WireInv

LEMMA UnlockTruly == ASSUME WireInv, Unlock PROVE WireInv'
<1>1. WireType'
  BY LinesAre DEF WireInv, WireType, Unlock, read, thread
<1>2. LockInv'
  BY DEF WireInv, LockInv, Alive, Unlock, read, thread
<1>3. TurnInv'
  BY DEF WireInv, TurnInv, Unlock, read, thread
<1>4. AnswerInv'
  BY DEF WireInv, AnswerInv, Unlock, read, thread
<1>5. HeardInv'
  BY DEF WireInv, HeardInv, Unlock, read, thread
<1>6. ToldInv'
  BY DEF WireInv, ToldInv, Unlock, read, thread
<1> QED
  BY <1>1, <1>2, <1>3, <1>4, <1>5, <1>6 DEF WireInv

LEMMA ReadLineTruly == ASSUME WireInv, ReadLine PROVE WireInv'
<1>1. WireType'
  BY LinesAre DEF WireInv, WireType, ReadLine, read, thread
<1>2. LockInv'
  BY DEF WireInv, LockInv, Alive, ReadLine, read, thread
<1>3. TurnInv'
  BY DEF WireInv, TurnInv, ReadLine, read, thread
<1>4. AnswerInv'
  BY DEF WireInv, AnswerInv, ReadLine, read, thread
<1>5. HeardInv'
  BY DEF WireInv, HeardInv, ReadLine, read, thread
<1>6. ToldInv'
  BY DEF WireInv, ToldInv, ReadLine, read, thread
<1> QED
  BY <1>1, <1>2, <1>3, <1>4, <1>5, <1>6 DEF WireInv

LEMMA HandOnTruly == ASSUME WireInv, HandOn PROVE WireInv'
<1>1. WireType'
  BY LinesAre DEF WireInv, WireType, HandOn, read, thread
<1>2. LockInv'
  BY DEF WireInv, LockInv, Alive, HandOn, read, thread
<1>3. TurnInv'
  BY DEF WireInv, TurnInv, HandOn, read, thread
<1>4. AnswerInv'
  BY DEF WireInv, AnswerInv, HandOn, read, thread
<1>5. HeardInv'
  BY DEF WireInv, HeardInv, HandOn, read, thread
<1>6. ToldInv'
  BY DEF WireInv, ToldInv, HandOn, read, thread
<1> QED
  BY <1>1, <1>2, <1>3, <1>4, <1>5, <1>6 DEF WireInv

LEMMA PrintsTruly == ASSUME WireInv, Prints PROVE WireInv'
<1>1. WireType'
  <2>0. asks \in Seq(1 .. 4) /\ next \in 1 .. Len(asks)
    BY DEF WireInv, WireType, TurnInv, Prints
  <2>1. \A i \in 1 .. next : asks[i] \in 1 .. 4
    BY <2>0
  <2>2. Question \in 1 .. 4
    BY <2>0 DEF Question
  <2>3. printed' \in Lines
    BY <2>1, <2>2, LinesAre DEF Prints
  <2> QED
    BY <2>3 DEF WireInv, WireType, Prints, read, thread
<1>2. LockInv'
  BY DEF WireInv, LockInv, Alive, Prints, read, thread
<1>3. TurnInv'
  BY DEF WireInv, TurnInv, Prints, read, thread
<1>4. AnswerInv'
  BY DEF WireInv, AnswerInv, Prints, read, thread
<1>5. HeardInv'
  BY DEF WireInv, HeardInv, Prints, read, thread
<1>6. ToldInv'
  BY DEF WireInv, ToldInv, Prints, read, thread
<1> QED
  BY <1>1, <1>2, <1>3, <1>4, <1>5, <1>6 DEF WireInv

LEMMA LeaveTruly == ASSUME WireInv, Leave PROVE WireInv'
<1>1. WireType'
  BY LinesAre DEF WireInv, WireType, Leave, read, thread
<1>2. LockInv'
  BY DEF WireInv, LockInv, Alive, Leave, read, thread
<1>3. TurnInv'
  BY DEF WireInv, TurnInv, Leave, read, thread
<1>4. AnswerInv'
  BY DEF WireInv, AnswerInv, Leave, read, thread
<1>5. HeardInv'
  BY DEF WireInv, HeardInv, Leave, read, thread
<1>6. ToldInv'
  BY DEF WireInv, ToldInv, Alive, Leave, read, thread
<1> QED
  BY <1>1, <1>2, <1>3, <1>4, <1>5, <1>6 DEF WireInv

LEMMA TickTruly == ASSUME WireInv, Tick PROVE WireInv'
<1>1. WireType'
  BY LinesAre DEF WireInv, WireType, Tick, read, thread
<1>2. LockInv'
  BY DEF WireInv, LockInv, Alive, Tick, read, thread
<1>3. TurnInv'
  BY DEF WireInv, TurnInv, Tick, read, thread
<1>4. AnswerInv'
  BY DEF WireInv, AnswerInv, Tick, read, thread
<1>5. HeardInv'
  BY DEF WireInv, HeardInv, Tick, read, thread
<1>6. ToldInv'
  BY DEF WireInv, ToldInv, Tick, read, thread
<1> QED
  BY <1>1, <1>2, <1>3, <1>4, <1>5, <1>6 DEF WireInv

LEMMA OtherTruly == ASSUME WireInv, Other PROVE WireInv'
<1>1. WireType'
  BY LinesAre DEF WireInv, WireType, Other, read, thread
<1>2. LockInv'
  BY DEF WireInv, LockInv, Alive, Other, read, thread
<1>3. TurnInv'
  BY DEF WireInv, TurnInv, Other, read, thread
<1>4. AnswerInv'
  BY DEF WireInv, AnswerInv, Other, read, thread
<1>5. HeardInv'
  BY DEF WireInv, HeardInv, Other, read, thread
<1>6. ToldInv'
  BY DEF WireInv, ToldInv, Other, read, thread
<1> QED
  BY <1>1, <1>2, <1>3, <1>4, <1>5, <1>6 DEF WireInv

LEMMA HearTruly == ASSUME WireInv, Hear PROVE WireInv'
<1> DEFINE line == Head(heard)
           said == Said(line, Question)
<1>1. /\ pc = "hear" /\ left \in Nat /\ left > 0 /\ left' = left /\ heard # <<>>
      /\ UNCHANGED <<lock, asks, program, printed, odd, reader, inHand, grace>>
  BY DEF WireInv, WireType, Hear, Shared, thread
<1>2. line \in Lines /\ Question \in 1 .. 4 /\ Tail(heard) \in Seq(Lines) /\ <<>> \in Seq(Lines)
  <2>1. /\ asks \in Seq(1 .. 4) /\ next \in 1 .. Len(asks) /\ heard \in Seq(Lines)
    BY <1>1 DEF WireInv, WireType, TurnInv
  <2>2. Question \in 1 .. 4
    BY <2>1 DEF Question
  <2> QED
    BY <1>1, <2>1, <2>2
<1>3. ASSUME NEW name, End(name), UNCHANGED <<answers, next>>,
             name \notin {"account", "timeout", "process_exited", "home_busy", "home_missing"}
      PROVE  WireInv'
  <2>1. WireType'
    BY <1>1, <1>2, <1>3 DEF WireInv, WireType, End
  <2>2. LockInv' /\ HeardInv'
    BY <1>1, <1>3 DEF WireInv, LockInv, HeardInv, End, Alive
  <2>3. TurnInv'
    BY <1>1, <1>3 DEF WireInv, TurnInv, End
  <2>4. AnswerInv' /\ ToldInv'
    BY <1>1, <1>3 DEF WireInv, AnswerInv, ToldInv, End
  <2> QED
    BY <2>1, <2>2, <2>3, <2>4 DEF WireInv
<1>4. CASE line = TooLong
  <2>1. End("response_too_large") /\ UNCHANGED <<answers, next>>
    BY <1>4 DEF Hear
  <2> QED
    BY <1>3, <2>1
<1> HIDE DEF line, said
<1>5. ASSUME line # TooLong, heard' = Tail(heard), receiver' = receiver, pc' \in {"ask", "hear"}
      PROVE  HeardInv'
  <2>1. heard \in Seq(Lines)
    BY DEF WireInv, WireType
  <2>2. \A i \in DOMAIN heard : heard[i] = TooLong => i - 1 \in DOMAIN heard' /\ heard'[i - 1] = TooLong
    BY <1>1, <1>5, <2>1 DEF line
  <2> QED
    BY <1>1, <1>5, <2>2 DEF WireInv, HeardInv
<1>6. CASE line # TooLong /\ said.says = "nothing" /\ heard' = Tail(heard)
             /\ UNCHANGED <<pc, answers, next, outcome, receiver>>
  <2>1. WireType'
    BY <1>1, <1>2, <1>6 DEF WireInv, WireType
  <2>2. LockInv' /\ HeardInv'
    BY <1>1, <1>5, <1>6 DEF WireInv, LockInv, Alive
  <2>3. TurnInv'
    BY <1>1, <1>6 DEF WireInv, TurnInv
  <2>4. AnswerInv' /\ ToldInv'
    BY <1>1, <1>6 DEF WireInv, AnswerInv, ToldInv
  <2> QED
    BY <2>1, <2>2, <2>3, <2>4 DEF WireInv
<1>7. CASE line # TooLong /\ said.says = "failed" /\ End(said.name) /\ UNCHANGED <<answers, next>>
  <2>1. said.name \in {"invalid_json", "authentication_required", "access_denied", "rate_limited",
                       "rpc_failed", "invalid_response"}
    BY <1>7 DEF said, Said, Refusal, Nothing
  <2> QED
    BY <1>3, <1>7, <2>1
<1>8. CASE line # TooLong /\ said.says = "result" /\ Take(said.result)
  <2> DEFINE result == said.result
  <2>1. result \in Results /\ result[1] = Question
    BY <1>2, <1>8, SaidIs DEF said
  <2>2. /\ answers \in Seq(Results) /\ Len(answers) = next - 1 /\ next \in 1 .. Len(asks)
        /\ asks \in Seq(1 .. 4) /\ answers' = Append(answers, result)
    BY <1>1, <1>8 DEF WireInv, WireType, TurnInv, Take
  <2>3. /\ answers' \in Seq(Results) /\ Len(answers') = next /\ Len(answers') <= Len(asks)
        /\ DOMAIN answers' = 1 .. next /\ answers'[next] = result
        /\ \A i \in 1 .. next - 1 : answers'[i] = answers[i] /\ i \in DOMAIN answers
        /\ \A i \in 1 .. next : i = next \/ i \in 1 .. next - 1
    BY <2>1, <2>2
  <2>4. \A i \in DOMAIN answers' : answers'[i][1] = asks[i]
    BY <2>1, <2>3 DEF WireInv, AnswerInv, Question
  <2>5. result # <<2, "key">> => \A i \in DOMAIN answers' : answers'[i] # <<2, "key">>
    BY <1>1, <2>3 DEF WireInv, AnswerInv
  <2> HIDE DEF result
  <2>6. CASE /\ result = <<2, "key">>
             /\ End("subscription_login_required") /\ UNCHANGED next
    <3>1. WireType'
      BY <1>1, <1>2, <2>3, <2>6 DEF WireInv, WireType, End
    <3>2. LockInv' /\ HeardInv'
      BY <1>1, <2>6 DEF WireInv, LockInv, HeardInv, End, Alive
    <3>3. TurnInv' /\ AnswerInv' /\ ToldInv'
      BY <1>1, <2>2, <2>3, <2>4, <2>6 DEF WireInv, TurnInv, AnswerInv, ToldInv, End
    <3> QED
      BY <3>1, <3>2, <3>3 DEF WireInv
  <2>7. CASE /\ result # <<2, "key">> /\ next = Len(asks)
             /\ End("account") /\ UNCHANGED next
    <3>1. WireType'
      BY <1>1, <1>2, <2>3, <2>7 DEF WireInv, WireType, End
    <3>2. LockInv' /\ HeardInv'
      BY <1>1, <2>7 DEF WireInv, LockInv, HeardInv, End, Alive
    <3>3. TurnInv' /\ AnswerInv' /\ ToldInv'
      BY <1>1, <2>2, <2>3, <2>4, <2>5, <2>7 DEF WireInv, TurnInv, AnswerInv, ToldInv, End
    <3> QED
      BY <3>1, <3>2, <3>3 DEF WireInv
  <2>8. CASE /\ result # <<2, "key">> /\ next # Len(asks)
             /\ pc' = "ask" /\ next' = next + 1 /\ heard' = Tail(heard)
             /\ UNCHANGED <<outcome, receiver>>
    <3>1. WireType'
      BY <1>1, <1>2, <2>3, <2>8 DEF WireInv, WireType
    <3>2. LockInv' /\ HeardInv'
      BY <1>1, <1>5, <1>8, <2>8 DEF WireInv, LockInv, Alive
    <3>3. next' \in 1 .. Len(asks') /\ Len(answers') = next' - 1
      BY <1>1, <2>2, <2>3, <2>8
    <3>4. TurnInv' /\ AnswerInv' /\ ToldInv'
      BY <1>1, <2>3, <2>4, <2>5, <2>8, <3>3 DEF WireInv, TurnInv, AnswerInv, ToldInv
    <3> QED
      BY <3>1, <3>2, <3>4 DEF WireInv
  <2> QED
    BY <1>8, <2>6, <2>7, <2>8 DEF Take, result
<1> QED
  BY <1>4, <1>6, <1>7, <1>8 DEF Hear, line, said

LEMMA WireInductive == WireInv /\ [WireNext]_wire => WireInv'
<1>1. WireInv /\ UNCHANGED wire => WireInv'
  <2> SUFFICES ASSUME WireInv, UNCHANGED wire PROVE WireInv'
    OBVIOUS
  <2>1. UNCHANGED <<lock, asks, answers, outcome, pc, next, left, program, printed, reader, inHand, heard, receiver>>
    BY DEF wire, read, thread
  <2>2. WireType' /\ LockInv'
    BY <2>1 DEF WireInv, WireType, LockInv, Alive
  <2>3. TurnInv' /\ AnswerInv'
    BY <2>1 DEF WireInv, TurnInv, AnswerInv
  <2>4. HeardInv' /\ ToldInv'
    BY <2>1 DEF WireInv, HeardInv, ToldInv
  <2> QED
    BY <2>2, <2>3, <2>4 DEF WireInv
<1> QED
  BY <1>1, BeginReadTruly, StartTruly, AskTruly, HearTruly, StopHearingTruly, StopTruly, UnlockTruly,
     ReadLineTruly, HandOnTruly, PrintsTruly, LeaveTruly, TickTruly, OtherTruly DEF WireNext, ReadStep

(* codex_read.rs, process.rs: whatever Codex prints and however late, an   *)
(* answer is taken for the question it answers, what is told of a failed   *)
(* read is what happened, and Codex runs in a home under its lock alone;   *)
(* for any time, any room in the channel and any number of odd lines.      *)
THEOREM ReadsTruly == (WireInit \/ WireOver) /\ [][WireNext]_wire => []ReadTruly
<1>1. WireInv => ReadTruly
  <2> SUFFICES ASSUME WireInv PROVE ReadTruly
    OBVIOUS
  <2>1. LockedWhileRunning
    BY DEF WireInv, LockInv, LockedWhileRunning
  <2>2. ToldTruly
    BY DEF WireInv, AnswerInv, ToldInv, ToldTruly, Range
  <2> QED
    BY <2>1, <2>2 DEF ReadTruly
<1> QED
  BY <1>1, WireBegins, WireInductive, PTL
=============================================================================
