------------------------------- MODULE MCRules -------------------------------
(* The pure rules of the program, each over every input of a bounded set:    *)
(* a state is one input of one rule, and the invariants hold of its result.  *)
(* What a rule is given in one piece, a document, is chosen in MCDocuments.  *)
EXTENDS Integers, Permission

(* Numbers of two digits with up to two behind the point, and every limit    *)
(* close enough to be met.                                                   *)
D == INSTANCE Decimals WITH MaxMant <- 24, MaxScale <- 2, Word <- 4, WordDigits <- 1, Wide <- 3000, Chunk <- 1
C == INSTANCE Pool WITH Whole <- 3, Margin5h <- 1, Margin7d <- 2, Margin7dWork <- 1, FloorPercent <- 1,
                        Day <- 2, EightDays <- 5
R == INSTANCE Readings WITH Whole <- 2, MaxAge <- 2, Ahead <- 1, Models <- {"opus"}
S == INSTANCE Phases WITH Cycle <- 30, Arc <- 2
V == INSTANCE Values WITH Most32 <- 7, Most64 <- 31, Reserved <- {<<"b", "b">>}, MaxDigits <- 3
T == INSTANCE Instants WITH DayTicks <- 5, LastYear <- 1700, MaxOffset <- 3

VARIABLES rule,   \* which module's
          seed,   \* a first part of the input
          input   \* the rest of it, once chosen
vars == <<rule, seed, input, table, context>>

Documents == INSTANCE MCDocuments WITH document <- seed

Numerals == {n \in [is : {"number"}, neg : BOOLEAN, mant : 0 .. 24, scale : 0 .. 2] : n.neg => n.mant # 0}

(* One account of the pool, alone; or two, of one subscription or of two.    *)
Gauge == [left : {0, 1, 3}, reset : {-1, 0, 1, 4}, confirmed : BOOLEAN]
SureGauge == {w \in Gauge : w.confirmed \/ w.reset > 0}
Account(windows, block, worth, stream, reserve) ==
  [enabled |-> TRUE, fresh |-> TRUE, block |-> block, stream |-> stream, reserve |-> reserve,
   windows |-> windows, weekly |-> worth[1], fiveHour |-> worth[2], multiplier |-> worth[3]]
Worths == {<<2, 2, -1>>, <<-1, -1, 2>>}
FullAccounts ==
  {Account(windows, block, worth, "x", FALSE) :
     windows \in [{"10080"} -> SureGauge]
                   \union [{"300", "10080"} -> {w \in SureGauge : w.confirmed /\ w.left # 3}],
     block \in {"none", "quota"}, worth \in Worths}
WeeklyAccounts ==
  {Account(windows, block, worth, stream, reserve) :
     windows \in [{"10080"} -> {w \in SureGauge : w.confirmed /\ w.reset # 0 /\ w.left # 1}],
     block \in {"none", "other"}, worth \in {<<2, 2, -1>>, <<-1, -1, -1>>},
     stream \in {"x", "y"}, reserve \in {FALSE}}
Uses ==
  {[headroom |-> TRUE, restricted |-> FALSE, emergency |-> FALSE, selected |-> 1],
   [headroom |-> FALSE, restricted |-> TRUE, emergency |-> FALSE, selected |-> 2],
   [headroom |-> FALSE, restricted |-> FALSE, emergency |-> TRUE, selected |-> 1]}

(* Contexts with at most one thing against acting: Restrained adds another.  *)
Free == [mode |-> "automate", paused |-> FALSE, switching |-> TRUE, actionEnabled |-> TRUE,
         actionEligible |-> TRUE, actionBlock |-> FALSE, safetyInvalid |-> FALSE, identityKnown |-> TRUE]
Observed == [id : {"a", "b"}, identity : {"x", Nobody}, reason : {Good, "below_margin", "stale"}]
Tables == {<<>>} \union [{1} -> Observed] \union [{1, 2} -> Observed]
Asked == [intent : Intents, previous : {Nobody, "a", "b"}, pin : {Nobody, "a"}, hold : BOOLEAN,
          actionSlot : {Nobody, "b"}]
Context(asked, settings, proposed) ==
  [field \in DOMAIN asked \union DOMAIN settings \union {"proposed"} |->
     IF field \in DOMAIN asked THEN asked[field]
     ELSE IF field \in DOMAIN settings THEN settings[field] ELSE proposed]
NoQuestion ==
  Context([intent |-> "control", previous |-> Nobody, pin |-> Nobody, hold |-> FALSE, actionSlot |-> Nobody],
          Free, Nobody)

Chars == {" ", "-", ".", "1", "2", ":", "a", "A", "~"}
Slots == <<"s1", "s2", "s3">>
Weights == {0, 1, 2, 6}

Truth == [used : 0 .. 2, resetAt : 1 .. 5]
Zone == [before : -3 .. 3, after : -3 .. 3, change : 40 .. 45]

Texts == {<<>>} \cup {<<c>> : c \in Chars} \cup {<<c, d>> : c, d \in Chars}
Scalars ==
  {V!Null, V!Bool(TRUE), V!Bool(FALSE), V!Number("int", -8, 1), V!Number("long", 31, 1), V!Number("long", -32, 1)}
    \cup {V!Number(k, n, 1) : k \in {"int", "long"}, n \in {-2, 0, 1, 2, 7}}
    \cup {V!Number(k, n, 2) : k \in {"decimal", "double"}, n \in {-1, 0, 2, 3, 5}}
    \cup {V!Text(t) : t \in Texts} \cup {V!Object("x", <<>>), V!List(<<V!Null>>)}
SortKeys ==
  {V!Null, V!Bool(TRUE), V!Bool(FALSE), V!Number("int", -2, 1), V!Number("int", 1, 1), V!Number("double", 2, 2)}
    \cup {V!Text(t) : t \in {<<>>, <<"a">>, <<"A">>, <<"-">>, <<"1">>, <<"a", "-">>, <<"a", "1">>, <<"a", "2">>,
                             <<"a", "b">>, <<"-", "a">>, <<"1", ":">>, <<"2", ":">>, <<"~">>, <<"a", "-", "b">>}}
Names == {<<"a">>, <<"A">>, <<"b">>, <<"b", "b">>}
Member(name) == [name |-> name, value |-> V!Bool(TRUE)]
Objects ==
  {V!Object("x", <<>>)} \cup {V!Object("x", <<Member(n)>>) : n \in Names}
    \cup {V!Object("x", <<Member(n), Member(m)>>) : n \in Names \ {<<"A">>}, m \in {<<"A">>, <<"b">>}}
Singly(object) ==
  \A i, j \in DOMAIN object.members :
    V!Lower(object.members[i].name) = V!Lower(object.members[j].name) => i = j

Seeds ==
  [decimals |-> Numerals, pool |-> Uses, readings |-> Truth, permission |-> Tables,
   phases |-> S!Patterns, instants |-> 0 .. 60,
   values |-> Scalars, lists |-> SortKeys, members |-> {object \in Objects : Singly(object)}]

Init == /\ \/ rule \in DOMAIN Seeds /\ seed \in Seeds[rule]
           \/ Documents!Init
        /\ input = <<>>
        /\ table = <<>> /\ context = NoQuestion

Choose(chosen) == input = <<>> /\ input' = chosen /\ UNCHANGED <<rule, seed, table, context>>

ChooseDecimals == rule = "decimals" /\ \E b \in Numerals : Choose(<<b>>)
ChoosePool ==
  /\ rule = "pool"
  /\ \/ \E a \in FullAccounts : Choose(<<<<a>>>>)
     \/ \E a, b \in WeeklyAccounts : Choose(<<<<a, b>>>>)
     \/ \E a \in FullAccounts, b \in WeeklyAccounts :
          b.stream = "y" /\ b.block = "none" /\ Choose(<<<<a, b>>>>)
ChooseReadings ==
  rule = "readings" /\ \E week \in Truth, seen \in 0 .. 5, now \in 0 .. 8 : Choose(<<week, seen, now>>)
ChoosePermission ==
  /\ rule = "permission"
  /\ \E asked \in Asked, settings \in {Free} \union Stricter(Free),
        proposed \in EligibleIds(Distinct(seed)) \union {Nobody} :
       /\ input = <<>> /\ input' = <<"asked">> /\ UNCHANGED <<rule, seed>>
       /\ table' = seed /\ context' = Context(asked, settings, proposed)
ChoosePhases ==
  /\ rule = "phases"
  /\ \E n \in 1 .. 3, weights \in [{"s1", "s2", "s3"} -> Weights], group \in 0 .. 3 :
       /\ seed # "clustered" => group = 0
       /\ \A i \in n + 1 .. 3 : weights[Slots[i]] = 0
       /\ Choose(<<[pattern |-> seed, prefer |-> SubSeq(Slots, 1, n), weights |-> weights, warmGroup |-> group]>>)
ChooseInstant ==
  /\ rule = "instants"
  /\ \/ \E day \in {0, 1, 27, 28, 57, 58, 59, 60, 365, 366}, time \in {0, 4}, offset \in {-2, 0, 3} :
          Choose(<<seed * 31 * 366 + day, time, offset>>)
     \/ \E zone \in Zone : Choose(<<seed + 10, zone>>)

ChooseValues ==
  \/ rule = "values" /\ \E other \in Scalars : Choose(<<other>>)
  \/ rule = "lists" /\ \E b, c \in SortKeys, n \in 1 .. 3 : Choose(SubSeq(<<seed, b, c>>, 1, n))
  \/ rule = "members" /\ \E name \in Names : Choose(<<name>>)

Next == \/ ChooseDecimals \/ ChooseValues \/ ChoosePool \/ ChooseReadings
        \/ ChoosePermission \/ ChoosePhases \/ ChooseInstant
        \/ Documents!Next /\ UNCHANGED <<input, table, context>>

Spec == Init /\ [][Next]_vars

Calculated(module) == rule = module /\ input # <<>>

-----------------------------------------------------------------------------
(* num.rs: what two decimals give is the exact result rounded once, and the *)
(* order of two is that of their values.  time.rs: a timestamp that is      *)
(* written is read back as the same instant, and a time of this machine is  *)
(* one its clocks showed.  ps.rs: of two values one is less exactly if they *)
(* are not equal, no whole number goes round, a list is sorted only if      *)
(* there is one way to sort it, and members are found by their names.       *)
RuntimeExact ==
  /\ Calculated("decimals") => D!Exact(seed, input[1])
  /\ Calculated("instants") =>
       IF Len(input) = 3 THEN T!ReadBack(input[1], input[2], input[3]) ELSE T!ReadLocally(input[1], input[2])
  /\ Calculated("values") => V!ComparedTrue(seed, input[1]) /\ V!ArithmeticTrue(seed, input[1])
  /\ Calculated("lists") => V!SortedTrue(input) /\ V!UniqueTrue(input)
  /\ Calculated("members") => V!MembersTrue(seed, input[1], V!Number("int", 1, 1))

(* observation.rs, contract.rs: a kept reading tells the truth later, or    *)
(* nothing, whichever windows were reset since it was read.  capacity.rs:   *)
(* the parts of a provider's capacity never come to more than the whole,    *)
(* and the refill that is announced takes place, no earlier and no later.   *)
CapacityTrue ==
  /\ Calculated("readings") => R!ToldTrue(seed, input[1], input[2], input[3])
  /\ Calculated("pool") => C!SharesAddUp(input[1], seed) /\ C!RefillComesTrue(input[1], seed)

(* phase.rs: accounts of different clusters have their turns apart, those   *)
(* of one cluster together, and each has one in every cycle.                *)
TurnsApart == Calculated("phases") => S!Apart(input[1])

(* normalize.rs, definition.rs: a policy that is accepted is kept to as it  *)
(* was written, whichever version it was written in.                        *)
PolicyHonoured == Documents!PolicyHonoured

(* json.rs, codex_read.rs, door.rs: a text that is handed on, written and   *)
(* read again says what it said.                                            *)
TextsKept == Documents!TextsKept

(* report.rs, dashboard.rs, notices: whoever looks at a snapshot is told the *)
(* same of it, wherever and whenever he looks.                              *)
ViewsAgree == Documents!ViewsAgree

=============================================================================
