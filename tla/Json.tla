--------------------------------- MODULE Json ---------------------------------
(***************************************************************************)
(* The reader and the writer of JSON (native/src/json.rs, and the spelling *)
(* of a double in num.rs).                                                 *)
(*                                                                         *)
(* A text is a sequence of tokens: <<"{">>, <<",">>, <<"word", "true">>,   *)
(* <<"string", pieces>>, <<"number", spelling>>; blanks between them are   *)
(* left out.  A character is written plain, after a backslash, or as one   *)
(* or two units; "\n" stands for every control character, "e'" for every   *)
(* other character beyond ASCII, "cat" for those of two units, and "date"  *)
(* for the letters /Date( together.                                        *)
(***************************************************************************)
EXTENDS Integers, Sequences, SequencesExt, FiniteSets

CONSTANTS MaxDepth, AskedDepth, MaxForeign,  \* 20, 2 and 100
          Forbidden,                         \* names PowerShell answers itself
          MostInt, MostLong,                 \* of 32 and 64 bits
          MostMantissa, MostPlaces,          \* of a decimal: 96 bits, 28 digits
          MostPower, LeastPower,             \* of a full double
          Precision, Smallest                \* exponents from 15, or below -4, are written

Modes == {"file", "asked", "foreign"}
Editions == {"desktop", "core"}
Refused == <<"refused">>
Null == <<"null">>
Bool(b) == <<"bool", b>>
Text(t) == <<"text", t>>
Int32(n) == <<"int", n>>
Int64(n) == <<"long", n>>
(* neg, and mant in units of 10^-scale; of a double, in units of 10^power *)
Decimal(neg, mant, scale) == <<"decimal", [neg |-> neg, mant |-> mant, scale |-> scale]>>
List(items) == <<"list", items>>
Object(members) == <<"object", members>>         \* in order, each [name, value]

Digits(n) ==
  LET count == CHOOSE c \in 1 .. 10 : n < 10 ^ c /\ (c = 1 \/ n >= 10 ^ (c - 1)) IN
  [i \in 1 .. count |-> (n \div 10 ^ (count - i)) % 10]
Value(digits) == FoldLeft(LAMBDA sum, d : 10 * sum + d, 0, digits)

RECURSIVE Reduced(_, _)
Reduced(mant, power) ==
  IF mant = 0 THEN <<0, 0>> ELSE IF mant % 10 = 0 THEN Reduced(mant \div 10, power + 1) ELSE <<mant, power>>
Double(neg, mant, power) ==
  LET least == Reduced(mant, power) IN <<"double", [neg |-> neg, mant |-> least[1], power |-> least[2]]>>
(* The power of ten of the first digit. *)
Exponent(x) == x.power + Len(Digits(x.mant)) - 1

-----------------------------------------------------------------------------
(* Reading *)

Plain(c) == c \in {"a", "A", "b", "date"}
Printable(name) == \A i \in DOMAIN name : Plain(name[i]) \/ name[i] \in {"\"", "\\"}
Lower(name) == [i \in DOMAIN name |-> IF name[i] = "A" THEN "a" ELSE name[i]]
Unnamed(name) == name = <<>> \/ ~ Printable(name) \/ Lower(name) \in Forbidden

(* A string's characters, or that it is none.  Two units are one character. *)
Scanned(pieces) ==
  LET Next(read, piece) ==
        CASE read.half # (piece = <<"unit", "low">>) -> [read EXCEPT !.ok = FALSE]
          [] piece = <<"unit", "low">> -> [read EXCEPT !.half = FALSE, !.chars = Append(@, "cat")]
          [] piece = <<"unit", "high">> -> [read EXCEPT !.half = TRUE]
          [] piece[1] = "plain" /\ piece[2] = "\n" -> [read EXCEPT !.ok = FALSE]
          [] piece[1] = "escape" /\ piece[2] \notin {"\"", "\\", "\n"} -> [read EXCEPT !.ok = FALSE]
          [] OTHER -> [read EXCEPT !.chars = Append(@, piece[2])]
      end == FoldLeft(Next, [ok |-> TRUE, half |-> FALSE, chars |-> <<>>], pieces)
  IN [end EXCEPT !.ok = @ /\ ~ end.half]
StringOf(pieces, mode) ==
  LET read == Scanned(pieces) IN
  IF ~ read.ok \/ (mode # "foreign" /\ Contains(read.chars, "date")) THEN Refused ELSE Text(read.chars)

(* dbl: no double is infinite.  One an exponent spells is a full one. *)
Finite(double) == IF Exponent(double[2]) > MostPower THEN Refused ELSE double
Full(double) == IF double[2].mant # 0 /\ Exponent(double[2]) < LeastPower THEN Refused ELSE Finite(double)

(* A spelling: a sign, digits, digits behind a point, and a power of ten. *)
NumberOf(s, mode, edition) ==
  LET mant == Value(s.whole \o s.fraction)
      places == Len(s.fraction)
      signed == IF s.neg THEN - mant ELSE mant
      written == places <= MostPlaces /\ mant <= MostMantissa /\ ~ (s.neg /\ mant = 0)
      isLong == mant <= MostLong
      double == Double(s.neg /\ mant # 0, mant, (IF s.powered THEN s.power[1] ELSE 0) - places)
  IN IF \/ s.whole = <<>> \/ (Len(s.whole) > 1 /\ s.whole[1] = 0)
        \/ (s.point /\ s.fraction = <<>>) \/ (s.powered /\ s.power = <<>>)
     THEN Refused
     ELSE IF mode = "foreign" /\ ~ s.powered /\ (~ written \/ (places = 0 /\ ~ isLong)) THEN Finite(double)
     ELSE IF ~ written THEN Refused
     ELSE IF s.powered THEN Full(double)
     ELSE IF places = 0 THEN
       IF ~ isLong THEN Refused ELSE IF edition = "desktop" /\ mant <= MostInt THEN Int32(signed) ELSE Int64(signed)
     ELSE IF edition = "desktop" THEN Decimal(s.neg, mant, places) ELSE Finite(double)

Deepest(mode) ==
  IF mode = "foreign" THEN MaxForeign ELSE IF mode = "asked" THEN MaxDepth + AskedDepth ELSE MaxDepth

(* What is read at a place, and the place behind it. *)
Read(v, at) == [v |-> v, at |-> at]
Stop == Read(Refused, 0)
At(text, at) == IF at \in DOMAIN text THEN text[at] ELSE <<"end">>
(* A name is looked for as it is written. *)
KnownAsWritten(members, name) == \E i \in DOMAIN members : members[i].name = name
Known(members, name) == \E i \in DOMAIN members : Lower(members[i].name) = Lower(name)
Words == [true |-> Bool(TRUE), false |-> Bool(FALSE), null |-> Null]

NameAt(text, at, mode) == IF At(text, at)[1] = "string" THEN StringOf(At(text, at)[2], mode) ELSE Refused
NameTaken(members, name, mode) ==
  name # Refused /\ IF Unnamed(name[2]) THEN mode = "foreign" ELSE ~ Known(members, name[2])

RECURSIVE ReadValue(_, _, _, _, _), ReadMember(_, _, _, _, _, _, _), ReadItem(_, _, _, _, _, _)
RECURSIVE ReadMembers(_, _, _, _, _, _), ReadItems(_, _, _, _, _, _)
ReadValue(text, at, depth, mode, edition) ==
  LET token == At(text, at) IN
  CASE depth > Deepest(mode) -> Stop
    [] token[1] = "{" ->
         IF At(text, at + 1) = <<"}">> THEN Read(Object(<<>>), at + 2)
         ELSE ReadMembers(text, at + 1, depth, mode, edition, <<>>)
    [] token[1] = "[" ->
         IF At(text, at + 1) = <<"]">> THEN Read(List(<<>>), at + 2)
         ELSE ReadItems(text, at + 1, depth, mode, edition, <<>>)
    [] token[1] = "string" -> Read(StringOf(token[2], mode), at + 1)
    [] token[1] = "word" /\ token[2] \in DOMAIN Words -> Read(Words[token[2]], at + 1)
    [] token[1] = "number" -> Read(NumberOf(token[2], mode, edition), at + 1)
    [] OTHER -> Stop
ReadMembers(text, at, depth, mode, edition, members) ==
  LET name == NameAt(text, at, mode) IN
  IF ~ NameTaken(members, name, mode) \/ At(text, at + 1) # <<":">> THEN Stop
  ELSE ReadMember(text, depth, mode, edition, members, name[2], ReadValue(text, at + 2, depth + 1, mode, edition))
ReadMember(text, depth, mode, edition, members, name, value) ==
  LET kept == IF Unnamed(name) THEN members ELSE Append(members, [name |-> name, value |-> value.v]) IN
  IF value.v = Refused THEN Stop
  ELSE IF At(text, value.at) = <<",">> THEN ReadMembers(text, value.at + 1, depth, mode, edition, kept)
  ELSE IF At(text, value.at) = <<"}">> THEN Read(Object(kept), value.at + 1)
  ELSE Stop
ReadItems(text, at, depth, mode, edition, items) ==
  ReadItem(text, depth, mode, edition, items, ReadValue(text, at, depth + 1, mode, edition))
ReadItem(text, depth, mode, edition, items, value) ==
  IF value.v = Refused THEN Stop
  ELSE IF At(text, value.at) = <<",">>
       THEN ReadItems(text, value.at + 1, depth, mode, edition, Append(items, value.v))
  ELSE IF At(text, value.at) = <<"]">> THEN Read(List(Append(items, value.v)), value.at + 1)
  ELSE Stop

(* A document is an object and nothing behind it; another program may say   *)
(* any value.                                                               *)
Entirely(text, mode, read) ==
  IF (mode # "foreign" /\ At(text, 1) # <<"{">>) \/ read.at # Len(text) + 1 THEN Refused ELSE read.v
Parse(text, mode, edition) == Entirely(text, mode, ReadValue(text, 1, 0, mode, edition))
OrNull(v) == IF v = Refused THEN Null ELSE v     \* read_or_null

-----------------------------------------------------------------------------
(* Writing *)

Spelling(neg, whole, fraction, powered, power) ==
  [neg |-> neg, whole |-> whole, point |-> fraction # <<>>, fraction |-> fraction, powered |-> powered, power |-> power]
Whole(n) == Spelling(n < 0, Digits(IF n < 0 THEN - n ELSE n), <<>>, FALSE, <<>>)
(* mant, with a point before its last places digits *)
Pointed(neg, mant, places) ==
  LET count == IF Len(Digits(mant)) > places THEN Len(Digits(mant)) ELSE places + 1
      digits == [i \in 1 .. count |-> (mant \div 10 ^ (count - i)) % 10]
  IN Spelling(neg, SubSeq(digits, 1, count - places), SubSeq(digits, count - places + 1, count), FALSE, <<>>)
General(x) ==
  LET digits == Digits(x.mant) IN
  IF Exponent(x) >= Precision \/ Exponent(x) < Smallest
  THEN Spelling(x.neg, <<digits[1]>>, Tail(digits), TRUE, <<Exponent(x)>>)
  ELSE IF x.power >= 0 THEN Pointed(x.neg, x.mant * 10 ^ x.power, 0)
  ELSE Pointed(x.neg, x.mant, - x.power)
DoubleJson(x, edition) ==
  LET general == General(x) IN
  IF edition = "desktop" THEN IF x.mant = 0 THEN Whole(0) ELSE general
  ELSE IF x.mant = 0 THEN Pointed(x.neg, 0, 1)
  ELSE IF ~ general.point /\ ~ general.powered THEN [general EXCEPT !.point = TRUE, !.fraction = <<0>>]
  ELSE general

WrittenChar(c) ==
  CASE c \in {"\"", "\\"} -> <<<<"escape", c>>>>
    [] Plain(c) -> <<<<"plain", c>>>>
    [] c = "cat" -> <<<<"unit", "high">>, <<"unit", "low">>>>
    [] OTHER -> <<<<"unit", c>>>>
WrittenText(t) == <<"string", FlattenSeq([i \in DOMAIN t |-> WrittenChar(t[i])])>>

(* Texts, one after another with commas between, if there are all of them. *)
Joined(texts) == FlattenSeq([i \in DOMAIN texts |-> IF i = 1 THEN texts[i] ELSE <<<<",">>>> \o texts[i]])

Bracketed(texts, open, close) ==
  IF \E i \in DOMAIN texts : texts[i] = Refused THEN Refused
  ELSE <<<<open>>>> \o Joined(texts) \o <<<<close>>>>
Named(name, text) == IF text = Refused THEN Refused ELSE <<WrittenText(name), <<":">>>> \o text
Scalar(v, edition) ==
  CASE v[1] = "null" -> <<"word", "null">>
    [] v[1] = "bool" -> <<"word", IF v[2] THEN "true" ELSE "false">>
    [] v[1] \in {"int", "long"} -> <<"number", Whole(v[2])>>
    [] v[1] = "decimal" -> <<"number", Pointed(v[2].neg, v[2].mant, v[2].scale)>>
    [] v[1] = "double" -> <<"number", DoubleJson(v[2], edition)>>
    [] v[1] = "text" -> WrittenText(v[2])

RECURSIVE Write(_, _, _, _)
Write(v, depth, limit, edition) ==
  IF depth > limit THEN Refused
  ELSE IF v[1] = "list"
       THEN Bracketed([i \in DOMAIN v[2] |-> Write(v[2][i], depth + 1, limit, edition)], "[", "]")
  ELSE IF v[1] = "object"
       THEN Bracketed([i \in DOMAIN v[2] |-> Named(v[2][i].name, Write(v[2][i].value, depth + 1, limit, edition))], "{", "}")
  ELSE <<Scalar(v, edition)>>
Written(v, limit, edition) == Write(v, 0, limit, edition)

-----------------------------------------------------------------------------
(* What they are for *)

IsNumber(v) == v[1] \in {"int", "long", "decimal", "double"}
Scaled(v) ==      \* its size, in units of a power of ten
  CASE v[1] \in {"int", "long"} -> <<v[2], 0>>
    [] v[1] = "decimal" -> <<IF v[2].neg THEN - v[2].mant ELSE v[2].mant, - v[2].scale>>
    [] v[1] = "double" -> <<IF v[2].neg THEN - v[2].mant ELSE v[2].mant, v[2].power>>
SameNumber(v, w) ==
  LET least == IF Scaled(v)[2] < Scaled(w)[2] THEN Scaled(v)[2] ELSE Scaled(w)[2]
      Units(x) == Scaled(x)[1] * 10 ^ (Scaled(x)[2] - least)
  IN Units(v) = Units(w)
RECURSIVE Same(_, _)
Same(v, w) ==
  IF IsNumber(v) THEN IsNumber(w) /\ SameNumber(v, w)
  ELSE /\ v[1] = w[1]
       /\ CASE v[1] = "list" -> Len(v[2]) = Len(w[2]) /\ \A i \in DOMAIN v[2] : Same(v[2][i], w[2][i])
            [] v[1] = "object" ->
                 /\ Len(v[2]) = Len(w[2])
                 /\ \A i \in DOMAIN v[2] : v[2][i].name = w[2][i].name /\ Same(v[2][i].value, w[2][i].value)
            [] OTHER -> v = w

(* No member without a name or of the name of another, and no -0. *)
RECURSIVE Tidy(_)
Tidy(v) ==
  CASE v[1] \in {"double", "decimal"} -> v[2].neg => v[2].mant # 0
    [] v[1] = "list" -> \A i \in DOMAIN v[2] : Tidy(v[2][i])
    [] v[1] = "object" ->
         /\ \A i \in DOMAIN v[2] : Tidy(v[2][i].value) /\ ~ Unnamed(v[2][i].name)
         /\ \A i, j \in DOMAIN v[2] : Lower(v[2][i].name) = Lower(v[2][j].name) => i = j
    [] OTHER -> TRUE
(* No /Date( in a text, and no double closer to zero than a full one. *)
RECURSIVE Fileable(_)
Fileable(v) ==
  CASE v[1] = "text" -> ~ Contains(v[2], "date")
    [] v[1] = "double" -> v[2].mant # 0 => Exponent(v[2]) >= LeastPower
    [] v[1] = "list" -> \A i \in DOMAIN v[2] : Fileable(v[2][i])
    [] v[1] = "object" -> \A i \in DOMAIN v[2] : Fileable(v[2][i].value) /\ ~ Contains(v[2][i].name, "date")
    [] OTHER -> TRUE

(* What is written no deeper than files are read is read again, as the same *)
(* data; and from then on its text stays as it is.                          *)
Stays(v, again, second, edition) ==
  /\ again # Refused /\ Same(v, again)
  /\ second # Refused /\ Written(Parse(second, "file", edition), MaxDepth, edition) = second
Returns(v, again, edition) == Stays(v, again, Written(again, MaxDepth, edition), edition)
Returned(v, text, edition) == text # Refused => Returns(v, Parse(text, "file", edition), edition)
ReadAgain(v, edition) ==
  v[1] = "object" /\ Tidy(v) /\ Fileable(v) => Returned(v, Written(v, MaxDepth, edition), edition)

(* A file is read as a question and as another program's message too, the  *)
(* same; a message is read for no more than it names, and what is read of  *)
(* it may be kept in a file.                                               *)
Alike(file, asked, foreign, edition) ==
  /\ file # Refused => foreign = file /\ asked = file /\ Fileable(file)
  /\ OrNull(file) = Null \/ Tidy(OrNull(file))
  /\ foreign # Refused => Tidy(foreign) /\ ReadAgain(foreign, edition)
ReadAlike(text, edition) ==
  Alike(Parse(text, "file", edition), Parse(text, "asked", edition), Parse(text, "foreign", edition), edition)

=============================================================================
