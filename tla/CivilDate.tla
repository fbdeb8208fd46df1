------------------------------- MODULE CivilDate -------------------------------
(***************************************************************************)
(* The civil date of a day counted from the epoch, as vault-core computes  *)
(* it by hand for every timestamp of documents, audit, bin and reports,    *)
(* against a calendar that is turned over one day at a time.               *)
(*                                                                         *)
(* The time of the day is what remains of the seconds, and left out.       *)
(***************************************************************************)
EXTENDS Integers

CONSTANT MaxDay  \* bound: last day looked at

\* What the proofs assume of the bound.
Limits == MaxDay \in Nat

VARIABLES day,   \* days since 1970-01-01
          date   \* the date of the calendar on the wall

vars == <<day, date>>

\* Mutant: the leap day of every fourth year is counted into the year.
LongYear(doe) == (doe + doe \div 36524 - doe \div 146096) \div 365

\* Year of the era of four hundred years, from the day of the era.
YearOfEra(doe) == (doe - doe \div 1460 + doe \div 36524 - doe \div 146096) \div 365

\* civil_from_epoch; div_euclid and rem_euclid are TLA+'s \div and %.
Civil(d) ==
    LET z == d + 719468
        doe == z % 146097
        yoe == YearOfEra(doe)
        doy == doe - (365 * yoe + yoe \div 4 - yoe \div 100)
        mp == (5 * doy + 2) \div 153
        m == IF mp < 10 THEN mp + 3 ELSE mp - 9
    IN  [year |-> yoe + 400 * (z \div 146097) + (IF m <= 2 THEN 1 ELSE 0),
         month |-> m,
         day |-> doy - (153 * mp + 2) \div 5 + 1]

Leap(y) == y % 4 = 0 /\ (y % 100 # 0 \/ y % 400 = 0)

DaysIn(y, m) == CASE m = 2 -> IF Leap(y) THEN 29 ELSE 28
                  [] m \in {4, 6, 9, 11} -> 30
                  [] OTHER -> 31

Tomorrow(c) ==
    IF c.day < DaysIn(c.year, c.month) THEN [c EXCEPT !.day = @ + 1]
    ELSE IF c.month < 12 THEN [year |-> c.year, month |-> c.month + 1, day |-> 1]
    ELSE [year |-> c.year + 1, month |-> 1, day |-> 1]

TypeOK ==
    /\ day \in 0..MaxDay
    /\ date \in [year : 1970..(1970 + MaxDay \div 365), month : 1..12, day : 1..31]

Init == day = 0 /\ date = [year |-> 1970, month |-> 1, day |-> 1]

Midnight == day < MaxDay /\ day' = day + 1 /\ date' = Tomorrow(date)

Next == Midnight

Spec == Init /\ [][Next]_vars

-----------------------------------------------------------------------------
\* The computed date is the one of the Gregorian calendar, through leap days, the
\* leap century 2000 and the common century 2100.
DatesAreGregorian == Civil(day) = date
=============================================================================
