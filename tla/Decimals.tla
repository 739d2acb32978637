------------------------------ MODULE Decimals ------------------------------
(***************************************************************************)
(* The decimal numbers of Windows PowerShell (native/src/num.rs): a sign,  *)
(* a whole number of limited size and how many of its digits are behind    *)
(* the point.  What does not fit is rounded, half to even, to as many      *)
(* digits as do.  A result the program would have to guess is "unreadable",*)
(* one PowerShell refuses "throws".                                        *)
(***************************************************************************)
EXTENDS Integers, FiniteSetsExt

CONSTANTS MaxMant,    \* the largest whole number: 2^96 - 1
          MaxScale,   \* the most digits behind the point: 28
          Word,       \* below this a product is taken the short way: 2^32
          WordDigits, \* the digits a product of two words may have beyond one: 19
          Wide,       \* the largest number in between: 2^128 - 1
          Chunk       \* how many digits a division goes on by: 9

Unreadable == [is |-> "unreadable"]
Throws == [is |-> "throws"]
IsNumber(d) == d.is = "number"
Number(neg, mant, scale) == [is |-> "number", neg |-> neg, mant |-> mant, scale |-> scale]

(* The value without its last digits, rounded half to even. *)
DropDigits(value, digits) ==
  LET power == 10 ^ digits
      kept == value \div power
      twice == 2 * (value % power)
  IN IF twice > power \/ (twice = power /\ kept % 2 = 1) THEN kept + 1 ELSE kept

(* A zero that came out of a negative operand would be printed differently. *)
Done(neg, mant, scale, negative) ==
  IF mant > MaxMant \/ scale > MaxScale \/ (mant = 0 /\ negative) THEN Unreadable
  ELSE Number(neg /\ mant # 0, mant, scale)

(* As few digits are dropped as it takes for the rest to fit; one more if  *)
(* rounding carried it over the limit.                                     *)
Fitted(neg, value, scale, negative) ==
  LET most == Max({0, scale - MaxScale})
      fewest == CHOOSE d \in most .. most + 40 :
                  /\ value \div 10 ^ d <= MaxMant
                  /\ d > most => value \div 10 ^ (d - 1) > MaxMant
      drop == IF DropDigits(value, fewest) > MaxMant THEN fewest + 1 ELSE fewest
  IN IF drop > scale THEN Throws
     ELSE Done(neg, DropDigits(value, drop), scale - drop, negative)

Times(a, b) ==
  LET product == a.mant * b.mant
      scale == a.scale + b.scale
      neg == a.neg # b.neg
      negative == a.neg \/ b.neg
  IN IF a.mant < Word /\ b.mant < Word
     THEN IF scale > MaxScale + WordDigits THEN Done(FALSE, 0, 0, negative)
          ELSE IF scale > MaxScale
          THEN Done(neg, DropDigits(product, scale - MaxScale), MaxScale, negative)
          ELSE Done(neg, product, scale, negative)
     ELSE IF product > Wide THEN Unreadable
     ELSE IF product = 0 THEN Done(FALSE, 0, 0, negative)
     ELSE Fitted(neg, product, scale, negative)

(* The whole number at a larger scale. *)
At(d, scale) == d.mant * 10 ^ (scale - d.scale)
Signed(d, scale) == IF d.neg THEN - At(d, scale) ELSE At(d, scale)
Aligned(a, b) == Max({a.scale, b.scale})
TooWide(a, b) == At(a, Aligned(a, b)) > Wide \/ At(b, Aligned(a, b)) > Wide
Size(n) == IF n < 0 THEN - n ELSE n

Plus(a, b) ==
  LET scale == Aligned(a, b)
      sum == Signed(a, scale) + Signed(b, scale)
      negative == a.neg \/ b.neg
  IN IF TooWide(a, b) \/ Size(sum) > Wide THEN Unreadable
     ELSE IF Size(sum) > MaxMant THEN Fitted(sum < 0, Size(sum), scale, negative)
     ELSE Done(sum < 0, Size(sum), scale, negative)

Minus(a, b) == IF b.mant = 0 THEN Plus(a, b) ELSE Plus(a, [b EXCEPT !.neg = ~ @])

(* Two of one sign are compared at one scale; two so far apart that one of *)
(* them would not fit are unreadable.                                      *)
Below0(d) == d.neg /\ d.mant # 0
Readable(a, b) == TooWide(a, b) => (a.mant = 0 /\ b.mant = 0) \/ Below0(a) # Below0(b)
Compare(a, b) ==
  LET scale == Aligned(a, b) IN
  IF a.mant = 0 /\ b.mant = 0 THEN 0
  ELSE IF Below0(a) # Below0(b) THEN IF Below0(a) THEN -1 ELSE 1
  ELSE Signed(a, scale) - Signed(b, scale)

-----------------------------------------------------------------------------
(* Division *)

(* How many more digits the quotient can take. *)
Room(quotient, scale) ==
  Max({p \in 0 .. Chunk : p = 0 \/ (scale + p <= MaxScale /\ quotient * 10 ^ p <= MaxMant)})

Overlong(quotient, scale) ==
  Room(quotient, scale) < Chunk /\ Room(quotient, scale) + scale < 0

(* Slip: what is left of the division does not count when a digit is given *)
(* back.                                                                   *)
GivenBackBlunt(quotient, scale, sticky) ==
  [quotient |-> DropDigits(quotient, 1), scale |-> scale - 1]

(* A quotient that outgrew the limit gives one digit back. *)
GivenBack(quotient, scale, sticky) ==
  LET kept == quotient \div 10
      rest == quotient % 10
  IN [quotient |-> IF rest > 5 \/ (rest = 5 /\ (sticky \/ kept % 2 = 1)) THEN kept + 1 ELSE kept,
      scale |-> scale - 1]

Stop(quotient, scale, inexact) == [is |-> "number", quotient |-> quotient, scale |-> scale, inexact |-> inexact]

Shrunk(state, inexact) == IF state.scale < 0 THEN Throws ELSE Stop(state.quotient, state.scale, inexact)

(* Digit by digit, or as many at once as there is room for. *)
RECURSIVE Divided(_, _, _, _, _)
Divided(quotient, rest, scale, divisor, inexact) ==
  LET room == IF scale = MaxScale THEN 0 ELSE Room(quotient, scale)
      up == 2 * rest > divisor \/ (2 * rest = divisor /\ quotient % 2 = 1)
      scaled == rest * 10 ^ room
      next == quotient * 10 ^ room + scaled \div divisor
      lift == Min({Chunk, - scale})
  IN IF rest = 0
     THEN IF scale >= 0 THEN Stop(quotient, scale, inexact)
          ELSE IF quotient * 10 ^ lift > MaxMant THEN Throws
          ELSE Divided(quotient * 10 ^ lift, 0, scale + lift, divisor, inexact)
     ELSE IF scale # MaxScale /\ Overlong(quotient, scale) THEN Throws
     ELSE IF room = 0
     THEN IF up /\ quotient + 1 > MaxMant THEN Shrunk(GivenBack(quotient + 1, scale, TRUE), TRUE)
          ELSE Stop(IF up THEN quotient + 1 ELSE quotient, scale, TRUE)
     ELSE IF scaled > Wide \/ next > Wide THEN Unreadable
     ELSE IF next > MaxMant
     THEN Shrunk(GivenBack(next, scale + room, scaled % divisor # 0), TRUE)
     ELSE Divided(next, scaled % divisor, scale + room, divisor, TRUE)

(* Without the zeros behind the point that a division left. *)
RECURSIVE Trimmed(_, _)
Trimmed(quotient, scale) ==
  IF scale > 0 /\ quotient # 0 /\ quotient % 10 = 0 THEN Trimmed(quotient \div 10, scale - 1)
  ELSE [quotient |-> quotient, scale |-> scale]

Over(a, b) ==
  LET found == Divided(a.mant \div b.mant, a.mant % b.mant, a.scale - b.scale, b.mant, FALSE)
      short == IF found.inexact THEN Trimmed(found.quotient, found.scale)
               ELSE [quotient |-> found.quotient, scale |-> found.scale]
  IN IF b.mant = 0 THEN Throws
     ELSE IF ~ IsNumber(found) THEN found
     ELSE IF short.scale < 0 THEN Unreadable
     ELSE Done(a.neg # b.neg, short.quotient, short.scale, a.neg \/ b.neg)

-----------------------------------------------------------------------------
(* Rounding *)

(* [math]::Round(x, 1), [math]::Round(x), [long]x: half to even *)
RoundOne(d) ==
  IF d.scale <= 1 THEN d ELSE Done(d.neg, DropDigits(d.mant, d.scale - 1), 1, d.neg)
RoundNone(d) == Done(d.neg, DropDigits(d.mant, d.scale), 0, d.neg)

Floor(d) ==
  LET power == 10 ^ d.scale IN
  Done(d.neg, d.mant \div power + (IF d.neg /\ d.mant % power # 0 THEN 1 ELSE 0), 0, d.neg)

(* '{0:0.#}', '{0:N1}', '{0:0}': as many digits as are shown, half away    *)
(* from zero.                                                              *)
Shown(d, digits) ==
  IF d.scale <= digits THEN At(d, digits)
  ELSE LET power == 10 ^ (d.scale - digits)
       IN d.mant \div power + (IF 2 * (d.mant % power) >= power THEN 1 ELSE 0)

-----------------------------------------------------------------------------
(* Properties *)

(* The whole number nearest to num / den at a scale, half to even. *)
Nearest(num, den, scale) ==
  LET twice == 2 * num * 10 ^ scale
      below == (num * 10 ^ scale) \div den
      middle == (2 * below + 1) * den
  IN IF twice < middle \/ (twice = middle /\ below % 2 = 0) THEN below ELSE below + 1

(* The result is the exact one or, at the last scale there is room for, the *)
(* nearest to it (less the zeros it ends in).                              *)
RoundedOnce(result, neg, num, den) ==
  IsNumber(result) =>
    /\ result.neg = (neg /\ result.mant # 0)
    /\ \/ result.mant * den = num * 10 ^ result.scale
       \/ \E last \in result.scale .. MaxScale :
             /\ result.mant * 10 ^ (last - result.scale) = Nearest(num, den, last)
             /\ last = MaxScale \/ Nearest(num, den, last + 1) > MaxMant

(* Refused only if there is no room for the whole part. *)
RefusedForRoom(result, num, den) == result = Throws => Nearest(num, den, 0) > MaxMant

(* What two decimals give is the exact result rounded once, however it was *)
(* computed, and the order of two is that of their values.                 *)
Exact(a, b) ==
  LET scale == a.scale + b.scale
      sum == Signed(a, scale) + Signed(b, scale)
      less == Signed(a, scale) - Signed(b, scale)
  IN /\ RoundedOnce(Times(a, b), a.neg # b.neg, a.mant * b.mant, 10 ^ scale)
     /\ RoundedOnce(Plus(a, b), sum < 0, Size(sum), 10 ^ scale)
     /\ RoundedOnce(Minus(a, b), less < 0, Size(less), 10 ^ scale)
     /\ RefusedForRoom(Times(a, b), a.mant * b.mant, 10 ^ scale)
     /\ RefusedForRoom(Plus(a, b), Size(sum), 10 ^ scale)
     /\ b.mant # 0 =>
          /\ RoundedOnce(Over(a, b), a.neg # b.neg, a.mant * 10 ^ b.scale, b.mant * 10 ^ a.scale)
          /\ RefusedForRoom(Over(a, b), a.mant * 10 ^ b.scale, b.mant * 10 ^ a.scale)
     /\ Readable(a, b) => (Compare(a, b) < 0) = (less < 0)

=============================================================================
