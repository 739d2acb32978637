------------------------------ MODULE Instants ------------------------------
(***************************************************************************)
(* Timestamps (native/src/time.rs): instants counted from the first day of *)
(* year 1, the offset they were written with, dates and days of the week,  *)
(* and times without an offset, which are this machine's.                  *)
(***************************************************************************)
EXTENDS Integers, Sequences

CONSTANTS DayTicks,    \* ticks of a day
          LastYear,    \* the last year there is: 9999
          MaxOffset    \* the largest offset: 14 hours

Refused == [ticks |-> -1, offset |-> 0]
Dto(ticks, offset) == [ticks |-> ticks, offset |-> offset]

-----------------------------------------------------------------------------
(* The calendar *)

Leap(year) == year % 4 = 0 /\ (year % 100 # 0 \/ year % 400 = 0)

DaysInMonth(year, month) ==
  CASE month = 2 -> IF Leap(year) THEN 29 ELSE 28
    [] month \in {4, 6, 9, 11} -> 30
    [] OTHER -> 31

RECURSIVE DaysOfMonths(_, _)
DaysOfMonths(year, months) ==
  IF months = 0 THEN 0 ELSE DaysInMonth(year, months) + DaysOfMonths(year, months - 1)

(* Days from the first day of year 1. *)
DaysBefore(year, month, day) ==
  LET y == year - 1 IN
  y * 365 + y \div 4 - y \div 100 + y \div 400 + DaysOfMonths(year, month - 1) + day - 1

(* From a year that is not too late, on to the one the day is in. *)
RECURSIVE YearFrom(_, _)
YearFrom(year, days) ==
  LET length == IF Leap(year) THEN 366 ELSE 365 IN
  IF days < length THEN <<year, days>> ELSE YearFrom(year + 1, days - length)

RECURSIVE MonthFrom(_, _, _)
MonthFrom(year, month, days) ==
  IF days < DaysInMonth(year, month) THEN <<year, month, days + 1>>
  ELSE MonthFrom(year, month + 1, days - DaysInMonth(year, month))

DateOf(days) ==
  LET guess == 1 + days \div 366
      found == YearFrom(guess, days - DaysBefore(guess, 1, 1))
  IN MonthFrom(found[1], 1, found[2])

MaxTicks == (DaysBefore(LastYear, 12, 31) + 1) * DayTicks - 1
InRange(ticks) == ticks \in 0 .. MaxTicks

-----------------------------------------------------------------------------
(* Written and read *)

Wall(dto) == dto.ticks + dto.offset

(* The fields of the clock that shows the instant with its offset. *)
Fields(dto) ==
  LET date == DateOf(Wall(dto) \div DayTicks)
  IN [year |-> date[1], month |-> date[2], day |-> date[3], time |-> Wall(dto) % DayTicks]

IsDate(f) ==
  /\ f.year \in 1 .. LastYear /\ f.month \in 1 .. 12
  /\ f.day \in 1 .. DaysInMonth(f.year, f.month) /\ f.time \in 0 .. DayTicks - 1

WallOf(f) == DaysBefore(f.year, f.month, f.day) * DayTicks + f.time

At(wall, offset) ==
  IF offset \in - MaxOffset .. MaxOffset /\ InRange(wall - offset) THEN Dto(wall - offset, offset) ELSE Refused

Parse(f, offset) == IF IsDate(f) THEN At(WallOf(f), offset) ELSE Refused

(* A zone: its offset before and after the instant its clocks change at. *)
OffsetAt(zone, ticks) == IF ticks < zone.change THEN zone.before ELSE zone.after

(* A wall time without an offset, settled in two steps. *)
Local(wall, zone) ==
  LET guess == wall - OffsetAt(zone, wall) IN
  IF ~ InRange(wall) \/ ~ InRange(guess) THEN Refused
  ELSE At(wall, OffsetAt(zone, guess))

ParseExternal(f, zone) == IF IsDate(f) THEN Local(WallOf(f), zone) ELSE Refused

InZone(dto, zone) == Dto(dto.ticks, OffsetAt(zone, dto.ticks))

(* Both the instant and what its clock shows stay in range. *)
PlusTicks(dto, ticks) ==
  LET sum == Dto(dto.ticks + ticks, dto.offset) IN
  IF InRange(sum.ticks) /\ InRange(Wall(sum)) THEN sum ELSE Refused

Since(a, b) == a.ticks - b.ticks

(* Sunday is 0; the first day of year 1 was a Monday. *)
DayOfWeek(dto) == (Wall(dto) \div DayTicks + 1) % 7

-----------------------------------------------------------------------------
(* Properties *)

NextDate(f) ==
  CASE f.day < DaysInMonth(f.year, f.month) -> [f EXCEPT !.day = @ + 1]
    [] f.day = DaysInMonth(f.year, f.month) /\ f.month < 12 -> [f EXCEPT !.day = 1, !.month = @ + 1]
    [] OTHER -> [f EXCEPT !.day = 1, !.month = 1, !.year = @ + 1]

(* What is written is read back as the same instant with the same offset,   *)
(* a day later is the calendar's next date and day of the week, four        *)
(* centuries later is the same date and day, and nothing out of range       *)
(* comes back.                                                              *)
ReadBack(days, time, offset) ==
  LET dto == Dto(days * DayTicks + time - offset, offset)
      tomorrow == PlusTicks(dto, DayTicks)
      centuries == PlusTicks(dto, 146097 * DayTicks)
  IN InRange(dto.ticks) =>
       /\ Parse(Fields(dto), offset) = dto
       /\ tomorrow = Refused <=> ~ InRange(dto.ticks + DayTicks) \/ ~ InRange(Wall(dto) + DayTicks)
       /\ tomorrow # Refused =>
            /\ Fields(tomorrow) = NextDate(Fields(dto))
            /\ DayOfWeek(tomorrow) = (DayOfWeek(dto) + 1) % 7
       /\ centuries # Refused =>
            /\ Fields(centuries) = [Fields(dto) EXCEPT !.year = @ + 400]
            /\ DayOfWeek(centuries) = DayOfWeek(dto)

(* A time of this machine is read as an instant this machine's clocks       *)
(* showed it at, if there was one; a time the clocks skipped is read no     *)
(* further off than they moved.                                             *)
ReadLocally(wall, zone) ==
  LET shown == {t \in wall - MaxOffset .. wall + MaxOffset : t + OffsetAt(zone, t) = wall}
      found == Local(wall, zone)
      moved == zone.after - zone.before
  IN found # Refused =>
       /\ shown # {} => found.ticks \in shown /\ Wall(InZone(found, zone)) = wall
       /\ shown = {} => Wall(InZone(found, zone)) - wall \in {- moved, moved}

=============================================================================
