------------------------------- MODULE Values -------------------------------
(***************************************************************************)
(* The values and operators of PowerShell, as far as the compiled program  *)
(* has them (native/src/ps.rs): comparison across types, arithmetic with   *)
(* its widening, sorting, sets of texts, members of objects.  What         *)
(* PowerShell would answer differently from machine to machine, or is not  *)
(* modelled in the program, is "unreadable"; what PowerShell refuses       *)
(* "throws".                                                               *)
(*                                                                         *)
(* A number is an exact fraction with a type; the rounding of decimals is  *)
(* the subject of Decimals.  A text is a sequence of characters, of which  *)
(* there are few; "~" stands for every character outside of ASCII.         *)
(***************************************************************************)
EXTENDS Integers, Sequences, SequencesExt, FiniteSets

CONSTANTS Most32, Most64,   \* the largest whole numbers of 32 and 64 bits
          Reserved,         \* member names PowerShell answers itself
          MaxDigits         \* more significant digits than this are not read: 15

Unreadable == [k |-> "unreadable"]
Throws == [k |-> "throws"]
Null == [k |-> "null"]
Bool(b) == [k |-> "bool", b |-> b]
Text(t) == [k |-> "text", t |-> t]
Number(k, num, den) == [k |-> k, num |-> num, den |-> den]
List(items) == [k |-> "list", items |-> items]
(* An object is its identity and its members, in order. *)
Object(id, members) == [k |-> "object", id |-> id, members |-> members]

IsNumber(v) == v.k \in {"int", "long", "decimal", "double"}
Read(v) == v.k \notin {"unreadable", "throws"}
Truth(b) == IF b THEN "true" ELSE "false"

-----------------------------------------------------------------------------
(* Texts *)

Numerals == <<"0", "1", "2", "3", "4", "5", "6", "7", "8", "9">>
CharOrder == <<" ", "-", ".">> \o Numerals \o <<":", "A", "B", "a", "b", "~">>
Rank(c) == CHOOSE i \in DOMAIN CharOrder : CharOrder[i] = c
LowerChar(c) == IF c = "A" THEN "a" ELSE IF c = "B" THEN "b" ELSE c
Lower(t) == [i \in DOMAIN t |-> LowerChar(t[i])]
IsDigit(c) == c \in Range(Numerals)
Printable(t) == \A i \in DOMAIN t : t[i] # "~"
Alphanumeric(t) == \A i \in DOMAIN t : IsDigit(t[i]) \/ t[i] \in {"a", "b", "A", "B"}
Hyphenated(t) == \A i \in DOMAIN t : t[i] = "-" \/ Alphanumeric(<<t[i]>>)

SameText(l, r, caseSensitive) ==
  IF l = r THEN "true"
  ELSE IF Printable(l) /\ Printable(r) THEN Truth(~ caseSensitive /\ Lower(l) = Lower(r))
  ELSE "unreadable"

Sign(n) == IF n < 0 THEN "less" ELSE IF n > 0 THEN "greater" ELSE "equal"
Differences(l, r) == {i \in DOMAIN l \cap DOMAIN r : l[i] # r[i]}
FirstOf(S) == CHOOSE i \in S : \A j \in S : i <= j
Lexical(l, r) ==
  IF Differences(l, r) = {} THEN Sign(Len(l) - Len(r))
  ELSE LET i == FirstOf(Differences(l, r)) IN Sign(Rank(l[i]) - Rank(r[i]))

TrimmedHyphens(t) == SubSeq(t, 1, FirstOf({n \in 0 .. Len(t) : \A i \in n + 1 .. Len(t) : t[i] = "-"}))

(* Only what every culture orders alike has an order: letters and digits,   *)
(* texts that differ in digits only, and hyphens that do not decide.        *)
Shaped(l, r) ==
  /\ Len(l) = Len(r) /\ Printable(l) /\ Printable(r)
  /\ \A i \in DOMAIN l : l[i] = r[i] \/ (IsDigit(l[i]) /\ IsDigit(r[i]))

OrderLowered(l, r) ==
  IF (Alphanumeric(l) /\ Alphanumeric(r)) \/ Shaped(l, r) THEN Lexical(l, r)
  ELSE IF ~ Hyphenated(l) \/ ~ Hyphenated(r) THEN "unreadable"
  ELSE IF Differences(l, r) # {}
       THEN LET i == FirstOf(Differences(l, r)) IN
            IF l[i] = "-" \/ r[i] = "-" THEN "unreadable" ELSE Lexical(l, r)
  ELSE IF Len(l) # Len(r) /\ TrimmedHyphens(l) = TrimmedHyphens(r) THEN "unreadable"
  ELSE Sign(Len(l) - Len(r))
OrderText(l, r) == OrderLowered(Lower(l), Lower(r))

-----------------------------------------------------------------------------
(* Numbers *)

Compared(x, y) == Sign(x.num * y.den - y.num * x.den)
Whole(k, n) == Number(k, n, 1)
Digits(t) == t # <<>> /\ \A i \in DOMAIN t : IsDigit(t[i])
DigitOf(c) == Rank(c) - Rank("0")
DigitsValue(t) == FoldLeft(LAMBDA sum, c : 10 * sum + DigitOf(c), 0, t)

Trimmed(t) ==
  LET solid == {i \in DOMAIN t : t[i] # " "} IN
  IF solid = {} THEN <<>> ELSE SubSeq(t, FirstOf(solid), CHOOSE i \in solid : \A j \in solid : j <= i)

Significant(t) == Cardinality({i \in DOMAIN t : \E j \in 1 .. i : t[j] # "0"})
(* A text that spells a number; "no number" is plainly none. *)
NoNumber == [k |-> "no number"]
Spelled(body, negative) ==
  LET points == {i \in DOMAIN body : body[i] = "."}
      at == IF points = {} THEN Len(body) + 1 ELSE FirstOf(points)
      whole == SubSeq(body, 1, at - 1)
      fraction == SubSeq(body, at + 1, Len(body))
      value == DigitsValue(whole \o fraction)
  IN IF ~ Digits(whole) \/ (points # {} /\ ~ Digits(fraction)) THEN NoNumber
     ELSE IF Significant(whole) + Len(fraction) > MaxDigits THEN Unreadable
     ELSE Number(IF points # {} THEN "double" ELSE IF value <= Most32 THEN "int" ELSE "long",
                 IF negative THEN - value ELSE value, 10 ^ Len(fraction))
SpelledTrimmed(t) ==
  IF t = <<>> THEN Unreadable
  ELSE IF t[1] = "-" THEN Spelled(Tail(t), TRUE) ELSE Spelled(t, FALSE)
PlainlyNone(t) == Printable(t) /\ \A i \in DOMAIN t : ~ IsDigit(t[i])
ParseNumber(t) ==
  LET found(spelled) == IF spelled = NoNumber /\ ~ PlainlyNone(t) THEN Unreadable ELSE spelled
  IN IF t = <<>> THEN Whole("int", 0) ELSE found(SpelledTrimmed(Trimmed(t)))

(* [string]: the numbers here are wholes and halves; "ab" is False and "ba" *)
(* True.                                                                    *)
Printed(n) ==
  LET places == {e \in 1 .. 9 : e = 1 \/ n >= 10 ^ (e - 1)} IN
  [i \in 1 .. Cardinality(places) |-> Numerals[1 + ((n \div 10 ^ (Cardinality(places) - i)) % 10)]]
AsText(v) ==
  IF v.k = "null" THEN <<>>
  ELSE IF v.k = "bool" THEN IF v.b THEN <<"b", "a">> ELSE <<"a", "b">>
  ELSE IF v.k = "text" THEN v.t
  ELSE LET n == IF v.num < 0 THEN - v.num ELSE v.num IN
       (IF v.num < 0 THEN <<"-">> ELSE <<>>) \o Printed(n \div v.den)
         \o (IF n % v.den = 0 THEN <<>> ELSE <<".", "5">>)

(* [bool], of what is no list *)
Truthy(v) ==
  IF v.k = "null" THEN FALSE
  ELSE IF v.k = "bool" THEN v.b
  ELSE IF IsNumber(v) THEN v.num # 0
  ELSE IF v.k = "text" THEN v.t # <<>>
  ELSE TRUE

(* An operand of arithmetic: null is 0, a text the number it spells. *)
Operand(v) ==
  LET spelled(n) == IF n = NoNumber THEN Throws ELSE n IN
  IF v.k = "null" THEN Whole("int", 0)
  ELSE IF v.k = "bool" THEN Whole("int", IF v.b THEN 1 ELSE 0)
  ELSE IF v.k = "text" THEN spelled(ParseNumber(v.t))
  ELSE IF IsNumber(v) THEN v ELSE Unreadable

Fits(k, n) == IF k = "int" THEN n \in - Most32 - 1 .. Most32 ELSE n \in - Most64 - 1 .. Most64
Fraction(k, num, den) == IF den < 0 THEN Number(k, - num, - den) ELSE Number(k, num, den)

Combined(op, x, y) ==
  IF op = "add" THEN <<x.num * y.den + y.num * x.den, x.den * y.den>>
  ELSE IF op = "sub" THEN <<x.num * y.den - y.num * x.den, x.den * y.den>>
  ELSE IF op = "mul" THEN <<x.num * y.num, x.den * y.den>>
  ELSE <<x.num * y.den, x.den * y.num>>

(* Slip: a result that does not fit is taken as it comes out. *)
WholeWrapped(k, pair) ==
  LET n == pair[1] \div pair[2]
      most == IF k = "int" THEN Most32 ELSE Most64
  IN Whole(k, ((n + most + 1) % (2 * most + 2)) - most - 1)

(* Whole numbers stay whole as long as the result is one that fits. *)
WholeOrDouble(k, pair) ==
  IF pair[1] % pair[2] = 0 /\ Fits(k, pair[1] \div pair[2]) THEN Whole(k, pair[1] \div pair[2])
  ELSE Number("double", pair[1], pair[2])

Arithmetic(op, x, y) ==
  LET kinds == {x.k, y.k}
      pair == Combined(op, x, y)
      found(k) == Fraction(k, pair[1], pair[2])
      k == IF kinds = {"int"} THEN "int" ELSE "long"
  IN IF op = "div" /\ y.num = 0
     THEN IF "decimal" \notin kinds /\ "double" \in kinds THEN Unreadable ELSE Throws
     ELSE IF "decimal" \in kinds THEN found("decimal")
     ELSE IF "double" \in kinds THEN found("double")
     ELSE WholeOrDouble(k, <<found(k).num, found(k).den>>)

Operated(op, l, r) ==
  LET of(x, y) == IF ~ Read(x) THEN x ELSE IF ~ Read(y) THEN y ELSE Arithmetic(op, x, y)
  IN of(Operand(l), Operand(r))

Add(l, r) ==
  IF l.k = "null" THEN (IF r.k \in {"list", "object"} THEN Unreadable ELSE r)
  ELSE IF l.k = "text" THEN (IF r.k \in {"list", "object"} THEN Unreadable ELSE Text(l.t \o AsText(r)))
  ELSE IF ~ IsNumber(l) THEN Unreadable ELSE Operated("add", l, r)
Sub(l, r) == Operated("sub", l, r)
Mul(l, r) == IF l.k = "null" THEN Null ELSE IF ~ IsNumber(l) THEN Unreadable ELSE Operated("mul", l, r)
Div(l, r) == Operated("div", l, r)

(* [long]: half to even. *)
ToLong(x) ==
  LET below == x.num \div x.den
      twice == 2 * (x.num % x.den)
  IN IF twice > x.den \/ (twice = x.den /\ below % 2 = 1) THEN below + 1 ELSE below

-----------------------------------------------------------------------------
(* Comparison *)

(* -eq: the type of the left operand decides. *)
Equal(l, r, caseSensitive) ==
  LET number(n) == IF n = Throws THEN "false"
                   ELSE IF n = Unreadable THEN "unreadable" ELSE Truth(Compared(l, n) = "equal") IN
  IF l.k = "null" THEN Truth(r.k = "null")
  ELSE IF l.k = "list" THEN "unreadable"
  ELSE IF r.k = "null" THEN "false"
  ELSE IF l.k = "object" THEN IF r.k = "object" THEN Truth(l.id = r.id) ELSE "unreadable"
  ELSE IF r.k \in {"list", "object"} THEN "unreadable"
  ELSE IF l.k = "bool" THEN Truth(l.b = Truthy(r))
  ELSE IF l.k = "text" THEN SameText(l.t, AsText(r), caseSensitive)
  ELSE number(Operand(r))

(* -lt, -le, -gt, -ge *)
Compare(l, r) ==
  LET number(n) == IF Read(n) THEN Compared(l, n) ELSE n.k IN
  IF l.k = "null"
  THEN IF r.k = "null" THEN "equal"
       ELSE IF r.k \in {"text", "bool"} THEN "less"
       ELSE IF ~ IsNumber(r) THEN "unreadable"
       ELSE IF r.num < 0 THEN "greater" ELSE "less"
  ELSE IF l.k \in {"bool", "text"} /\ r.k = "null" THEN "greater"
  ELSE IF l.k = "text" /\ r.k \notin {"list", "object"} THEN OrderText(l.t, AsText(r))
  ELSE IF ~ IsNumber(l) THEN "unreadable"
  ELSE IF r.k = "null" THEN IF l.num < 0 THEN "less" ELSE "greater"
  ELSE number(Operand(r))

(* -in, -contains: every item is the left operand. *)
IsIn(v, items) ==
  LET answers == [i \in DOMAIN items |-> Equal(items[i], v, FALSE)]
      decided == {i \in DOMAIN items : answers[i] # "false"}
  IN IF decided = {} THEN "false" ELSE answers[FirstOf(decided)]

-----------------------------------------------------------------------------
(* Lists *)

(* One key of Sort-Object. *)
OrderKeys(l, r) ==
  LET negative(v) == IsNumber(v) /\ v.num < 0 IN
  IF l.k = "null" /\ r.k = "null" THEN "equal"
  ELSE IF l.k = "null" THEN IF negative(r) THEN "unreadable" ELSE "less"
  ELSE IF r.k = "null" THEN IF negative(l) THEN "unreadable" ELSE "greater"
  ELSE IF l.k = "bool" /\ r.k = "bool"
  THEN IF l.b = r.b THEN "equal" ELSE IF r.b THEN "less" ELSE "greater"
  ELSE IF l.k = "text" /\ r.k = "text" THEN OrderText(l.t, r.t)
  ELSE IF IsNumber(l) /\ IsNumber(r) THEN Compared(l, r)
  ELSE "unreadable"

(* Slip: items that tie stay as they come. *)
TieAsItComes(l, r) == FALSE

(* Windows PowerShell's sort is not stable: items that tie and differ have  *)
(* no order of their own.                                                   *)
TieUnsettled(l, r) == l # r

(* Insertion by the first item from behind that is not greater. *)
InsertKey(sorted, item) ==
  LET greater(n) == \A i \in n + 1 .. Len(sorted) : OrderKeys(sorted[i], item) = "greater"
      at == FirstOf({n \in 0 .. Len(sorted) : greater(n)})
      met == IF at = 0 THEN "less" ELSE OrderKeys(sorted[at], item)
  IN IF met = "unreadable" \/ (met = "equal" /\ TieUnsettled(sorted[at], item)) THEN <<Unreadable>>
     ELSE SubSeq(sorted, 1, at) \o <<item>> \o SubSeq(sorted, at + 1, Len(sorted))
Sort(items) ==
  FoldLeft(LAMBDA sorted, item : IF sorted = <<Unreadable>> THEN sorted ELSE InsertKey(sorted, item), <<>>, items)

(* Select-Object -Unique, for texts and for whole numbers of one type. *)
Distinguishable(l, r) ==
  \/ l.k = "text" /\ r.k = "text" /\ (l = r \/ (Printable(l.t) /\ Printable(r.t) /\ Lower(l.t) # Lower(r.t)))
  \/ l.k = r.k /\ l.k \in {"int", "long"}
Unique(items) ==
  LET firsts == {i \in DOMAIN items : \A j \in 1 .. i - 1 : items[j] # items[i]} IN
  IF \E i \in DOMAIN items : \/ items[i].k \notin {"text", "int", "long"}
                             \/ \E j \in 1 .. i - 1 : ~ Distinguishable(items[j], items[i])
  THEN <<Unreadable>>
  ELSE [n \in 1 .. Cardinality(firsts) |->
          items[CHOOSE i \in firsts : Cardinality({j \in firsts : j <= i}) = n]]

(* Measure-Object -Minimum: a null counts as nothing, at first. *)
MeasureMin(items) ==
  FoldLeft(LAMBDA low, v : IF low = Null THEN (IF v = Null THEN Null ELSE Number("double", v.num, v.den))
                           ELSE IF v = Null THEN (IF low.num < 0 THEN low ELSE Null)
                           ELSE IF Compared(v, low) = "less" THEN Number("double", v.num, v.den) ELSE low,
           Null, items)

(* [math]::Max and Min: the second argument is converted to the type of the *)
(* first.                                                                   *)
MathPick(first, second, max) ==
  LET converted == IF first.k \in {"int", "long"} THEN Whole(first.k, ToLong(second))
                   ELSE Number(first.k, second.num, second.den)
      order == Compared(first, converted)
  IN IF first.k = "int" /\ ~ Fits("int", converted.num) THEN Throws
     ELSE IF (order = "less") = max THEN converted ELSE first

-----------------------------------------------------------------------------
(* Members *)

(* A member is found by its name, whatever the case. *)
Find(members, name) ==
  LET found == {i \in DOMAIN members : Lower(members[i].name) = Lower(name)} IN
  IF found = {} THEN 0 ELSE FirstOf(found)

Get(object, name) ==
  LET i == Find(object.members, name) IN
  IF i # 0 THEN object.members[i].value
  ELSE IF Lower(name) \in Reserved THEN Unreadable ELSE Null

Removed(members, i) == SubSeq(members, 1, i - 1) \o SubSeq(members, i + 1, Len(members))

SetMember(object, name, value) ==
  LET i == Find(object.members, name) IN
  IF i = 0 THEN Throws ELSE [object EXCEPT !.members[i].value = value]
AddMember(object, name, value, force) ==
  LET i == Find(object.members, name)
      rest == IF i = 0 THEN object.members ELSE Removed(object.members, i)
  IN IF i # 0 /\ ~ force THEN Throws
     ELSE [object EXCEPT !.members = Append(rest, [name |-> name, value |-> value])]
RemoveMember(object, name) ==
  LET i == Find(object.members, name) IN
  IF i = 0 THEN object ELSE [object EXCEPT !.members = Removed(@, i)]

-----------------------------------------------------------------------------
(* Properties *)

Opposite(order) == IF order = "less" THEN "greater" ELSE IF order = "greater" THEN "less" ELSE order
Ordered(order) == order \in {"less", "equal", "greater"}

(* Two values are equal exactly if neither is less, where both can be told, *)
(* and the order turns round with the operands, where their types do not    *)
(* decide it.                                                               *)
ComparedTrue(l, r) ==
  LET agree(order, back, equal) ==
     /\ (Ordered(order) /\ equal \in {"true", "false"}) => (equal = "true") = (order = "equal")
     /\ (Ordered(order) /\ Ordered(back) /\ ((l.k = "text") = (r.k = "text") \/ "null" \in {l.k, r.k}))
          => back = Opposite(order)
  IN agree(Compare(l, r), Compare(r, l), Equal(l, r, FALSE))

(* What is added can be taken away again, what is multiplied divided, and   *)
(* no whole number ever goes round.                                         *)
SameValue(x, y) == Read(x) /\ Read(y) => Compared(x, y) = "equal"
ArithmeticTrue(l, r) ==
  IsNumber(l) =>
    /\ \A sum \in {Add(l, r)} : Read(sum) => SameValue(Sub(sum, r), l)
    /\ \A product \in {Mul(l, r)} : Read(product) => SameValue(Div(product, r), l)
    /\ \A x \in {Add(l, r), Sub(l, r), Mul(l, r), Div(l, r)} :
         x.k \in {"int", "long"} => x.den = 1 /\ Fits(x.k, x.num)
    /\ IsNumber(r) => \A max \in BOOLEAN :
         LET picked == MathPick(l, r, max) IN
         picked # Throws => picked.k = l.k /\ Compared(picked, l) # (IF max THEN "less" ELSE "greater")

(* A list is sorted only if there is one way to sort it. *)
InOrder(items) == \A i, j \in DOMAIN items : i < j => OrderKeys(items[i], items[j]) \in {"less", "equal"}
Rearranged(items) ==
  {[i \in DOMAIN items |-> items[f[i]]] : f \in {g \in [DOMAIN items -> DOMAIN items] : IsInjective(g)}}
SortedTrue(items) ==
  /\ Sort(items) # <<Unreadable>> => {way \in Rearranged(items) : InOrder(way)} = {Sort(items)}
  /\ (\A i \in DOMAIN items : IsNumber(items[i])) =>
       /\ \A i \in DOMAIN items : Compared(MeasureMin(items), items[i]) # "greater"
       /\ \E i \in DOMAIN items : Compared(MeasureMin(items), items[i]) = "equal"

(* Of what PowerShell takes for the same, one is left. *)
UniqueTrue(items) ==
  Unique(items) # <<Unreadable>> =>
    /\ \A i \in DOMAIN items : IsIn(items[i], Unique(items)) = "true"
    /\ \A i, j \in DOMAIN Unique(items) : Equal(Unique(items)[i], Unique(items)[j], FALSE) = "true" => i = j

(* A member that was written is read by its name in any case, the others    *)
(* are as they were, and no name is there twice.                            *)
MembersTrue(object, name, value) ==
  \A after \in {SetMember(object, name, value), AddMember(object, name, value, TRUE),
                AddMember(object, name, value, FALSE), RemoveMember(object, name)} :
    Read(after) =>
      /\ \A i, j \in DOMAIN after.members : Lower(after.members[i].name) = Lower(after.members[j].name) => i = j
      /\ \A i \in DOMAIN object.members : LET other == object.members[i].name IN
           Lower(other) # Lower(name) => Get(after, other) = object.members[i].value
      /\ Get(after, Lower(name)) \in {value, Null, Unreadable}
      /\ after # RemoveMember(object, name) => Get(after, name) = value

=============================================================================
