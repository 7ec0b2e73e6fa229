--------------------------- MODULE DatetimeProofs ---------------------------
(***************************************************************************)
(* Proofs about Datetime: for every day, however far from 1970, the date   *)
(* that the code computes is the calendar's, and while the year has four   *)
(* digits the client's text is the program's and can be read back.         *)
(*                                                                         *)
(* A day is taken apart twice.  The code finds the era, the year and the   *)
(* day of the year by divisions that leave the leap days out; IsDayOf      *)
(* gives the same day as so many centuries, fours of years, years and days *)
(* of which no part is too large.  The next day in these parts is either   *)
(* the next day of the year or the first of March, and either way the      *)
(* calendar's next date (NextDay).  The walk's invariant is then that the  *)
(* calendar shows what the code computes (InStep).                         *)
(***************************************************************************)
EXTENDS Datetime, Sequences, TLAPS

(***************************************************************************)
(* The days of an era, which is 400 years that begin in March.             *)
(***************************************************************************)

\* A day of an era: of year y in it, whose hundreds, fours and rest are h, q and k,
\* the day r, from the first of March on.
IsDayOf(doe, h, q, k, r) ==
  /\ h \in 0..3 /\ q \in 0..24 /\ k \in 0..3 /\ r \in 0..365
  /\ doe = 36524 * h + 1461 * q + 365 * k + r
  /\ r = 365 => k = 3 /\ (q = 24 => h = 3)

\* Every day of an era is one.
LEMMA DaySplits ==
  ASSUME NEW doe \in Nat, doe < 146097
  PROVE  \E h, q, k, r : IsDayOf(doe, h, q, k, r)
  <1>1. PICK h \in 0..3 : /\ doe >= 36524 * h
                          /\ h < 3 => doe < 36524 * h + 36524
    <2>1. CASE doe < 36524
      BY <2>1
    <2>2. CASE doe >= 36524 /\ doe < 73048
      BY <2>2
    <2>3. CASE doe >= 73048 /\ doe < 109572
      BY <2>3
    <2>4. CASE doe >= 109572
      BY <2>4
    <2> QED
      BY <2>1, <2>2, <2>3, <2>4
  <1>2. PICK c \in Nat : c <= 36524 /\ doe = 36524 * h + c /\ (c = 36524 => h = 3)
    BY <1>1
  <1>3. PICK q \in 0..24 : 1461 * q <= c /\ c < 1461 * q + 1461
    <2>1. c \div 1461 \in 0..24
      BY <1>2
    <2>2. 1461 * (c \div 1461) <= c /\ c < 1461 * (c \div 1461) + 1461
      OBVIOUS
    <2> QED
      BY <2>1, <2>2
  <1>4. PICK f \in Nat : f <= 1460 /\ c = 1461 * q + f
    BY <1>3
  <1>5. CASE f = 1460
    <2>1. IsDayOf(doe, h, q, 3, 365)
      BY <1>2, <1>4, <1>5 DEF IsDayOf
    <2> QED
      BY <2>1
  <1>6. CASE f # 1460
    <2>1. PICK k \in 0..3 : 365 * k <= f /\ f < 365 * k + 365
      <3>1. CASE f < 365
        BY <3>1
      <3>2. CASE f >= 365 /\ f < 730
        BY <3>2
      <3>3. CASE f >= 730 /\ f < 1095
        BY <3>3
      <3>4. CASE f >= 1095
        BY <1>4, <1>6, <3>4
      <3> QED
        BY <3>1, <3>2, <3>3, <3>4
    <2>2. PICK r \in 0..364 : f = 365 * k + r
      BY <2>1
    <2>3. IsDayOf(doe, h, q, k, r)
      BY <1>2, <1>4, <2>2 DEF IsDayOf
    <2> QED
      BY <2>3
  <1> QED
    BY <1>5, <1>6

\* How the years before it are counted.
LEMMA YearSplits ==
  ASSUME NEW h \in 0..3, NEW q \in 0..24, NEW k \in 0..3
  PROVE  LET y == 100 * h + 4 * q + k
         IN  y \in 0..399 /\ y \div 4 = 25 * h + q /\ y \div 100 = h
  OBVIOUS

\* YearOfEra finds its year: the leap days that it leaves out and puts back are
\* those before the day.
LEMMA YearOfDay ==
  ASSUME NEW doe \in Nat, doe < 146097, NEW h, NEW q, NEW k, NEW r, IsDayOf(doe, h, q, k, r)
  PROVE  YearOfEra(doe) = 100 * h + 4 * q + k
  <1> USE DEF IsDayOf
  <1>0. h \in 0..3 /\ q \in 0..24 /\ k \in 0..3 /\ r \in 0..365
    OBVIOUS
  <1>1. PICK a \in Int : a = doe \div 1460 /\ 1460 * a <= doe /\ doe < 1460 * a + 1460
    OBVIOUS
  <1>2. PICK b \in Int : b = doe \div 36524 /\ 36524 * b <= doe /\ doe < 36524 * b + 36524
    OBVIOUS
  <1>3. PICK c \in Int : c = doe \div 146096 /\ 146096 * c <= doe /\ doe < 146096 * c + 146096
    OBVIOUS
  <1>4. b - c = h
    <2>1. CASE doe < 146096
      <3>1. c = 0
        BY <1>3, <2>1
      <3>2. b = h
        BY <1>2, <2>1
      <3> QED
        BY <3>1, <3>2
    <2>2. CASE doe = 146096
      BY <1>2, <1>3, <2>2
    <2> QED
      BY <2>1, <2>2
  <1>5. a = 25 * h + q \/ a = 25 * h + q + 1
    BY <1>1
  <1>6. a = 25 * h + q + 1 <=> 24 * h + q + 365 * k + r >= 1460
    BY <1>1, <1>5
  <1>7. 365 * (100 * h + 4 * q + k) <= doe - a + h /\ doe - a + h < 365 * (100 * h + 4 * q + k) + 365
    BY <1>5, <1>6
  <1>8. (doe - a + h) \div 365 = 100 * h + 4 * q + k
    BY <1>7
  <1> QED
    BY <1>1, <1>2, <1>3, <1>4, <1>8 DEF YearOfEra

(***************************************************************************)
(* The days of a year, and the calendar's steps.                           *)
(***************************************************************************)

\* The date of the day r of a year that begins with the March of y.
MarchDate(y, r) ==
  LET mp == (5 * r + 2) \div 153
      m  == IF mp < 10 THEN mp + 3 ELSE mp - 9
  IN  [year  |-> y + (IF m <= 2 THEN 1 ELSE 0),
       month |-> m,
       day   |-> r - (153 * mp + 2) \div 5 + 1]

Date(y, m, d) == [year |-> y, month |-> m, day |-> d]

\* Its months, and where they begin.
InMonth(r, m, d) ==
  \/ m = 3  /\ d = r + 1   /\ d <= 31
  \/ m = 4  /\ d = r - 30  /\ d <= 30
  \/ m = 5  /\ d = r - 60  /\ d <= 31
  \/ m = 6  /\ d = r - 91  /\ d <= 30
  \/ m = 7  /\ d = r - 121 /\ d <= 31
  \/ m = 8  /\ d = r - 152 /\ d <= 31
  \/ m = 9  /\ d = r - 183 /\ d <= 30
  \/ m = 10 /\ d = r - 213 /\ d <= 31
  \/ m = 11 /\ d = r - 244 /\ d <= 30
  \/ m = 12 /\ d = r - 274 /\ d <= 31
  \/ m = 1  /\ d = r - 305 /\ d <= 31
  \/ m = 2  /\ d = r - 336 /\ d <= 29

\* Every day of a year falls into a month.
LEMMA MonthOfDay ==
  ASSUME NEW r \in 0..365
  PROVE  \E m \in 1..12, d \in 1..31 : InMonth(r, m, d)
  <1>1. CASE r <= 91
    BY <1>1 DEF InMonth
  <1>2. CASE r > 91 /\ r <= 183
    BY <1>2 DEF InMonth
  <1>3. CASE r > 183 /\ r <= 274
    BY <1>3 DEF InMonth
  <1>4. CASE r > 274
    BY <1>4 DEF InMonth
  <1> QED
    BY <1>1, <1>2, <1>3, <1>4

\* The month and its day, as the code computes them, are those of the table.
LEMMA MarchDateIs ==
  ASSUME NEW y \in Int, NEW r \in 0..365, NEW m \in 1..12, NEW d \in 1..31, InMonth(r, m, d)
  PROVE  MarchDate(y, r) = Date(y + (IF m <= 2 THEN 1 ELSE 0), m, d)
  <1> DEFINE mp == (5 * r + 2) \div 153
  <1>1. /\ m = IF mp < 10 THEN mp + 3 ELSE mp - 9
        /\ d = r - ((153 * mp + 2) \div 5) + 1
    <2>1. mp = IF m >= 3 THEN m - 3 ELSE m + 9
      BY DEF InMonth
    <2> HIDE DEF mp
    <2> QED
      BY <2>1 DEF InMonth
  <1> HIDE DEF mp
  <1>2. MarchDate(y, r) = [year  |-> y + (IF m <= 2 THEN 1 ELSE 0), month |-> m,
                           day   |-> r - ((153 * mp + 2) \div 5) + 1]
    BY <1>1 DEF MarchDate, mp
  <1> QED
    BY <1>1, <1>2 DEF Date

\* The days of a month, without CASE.
LEMMA DaysInIs ==
  ASSUME NEW y \in Int, NEW m \in 1..12
  PROVE  DaysIn(y, m) = IF m = 2 THEN (IF IsLeap(y) THEN 29 ELSE 28)
                        ELSE IF m \in {4, 6, 9, 11} THEN 30 ELSE 31
  <1>1. CASE m \in {4, 6, 9, 11}
    <2>1. DaysIn(y, m) = 30
      <3>1. m # 2
        BY <1>1
      <3> QED
        BY <1>1, <3>1, Zenon DEF DaysIn
    <2> QED
      BY <1>1, <2>1
  <1>2. CASE m = 2
    <2>1. DaysIn(y, m) = IF IsLeap(y) THEN 29 ELSE 28
      <3>1. m \notin {4, 6, 9, 11}
        BY <1>2
      <3> QED
        BY <1>2, <3>1, Zenon DEF DaysIn
    <2> QED
      BY <1>2, <2>1
  <1>3. CASE m \notin {4, 6, 9, 11} /\ m # 2
    BY <1>3, Zenon DEF DaysIn
  <1> QED
    BY <1>1, <1>2, <1>3

\* The next date, without EXCEPT.
LEMMA AfterIs ==
  ASSUME NEW y \in Int, NEW m \in 1..12, NEW d \in 1..31, d <= DaysIn(y, m)
  PROVE  After(Date(y, m, d)) =
           IF d < DaysIn(y, m) THEN Date(y, m, d + 1)
           ELSE IF m < 12 THEN Date(y, m + 1, 1) ELSE Date(y + 1, 1, 1)
  <1> DEFINE D == Date(y, m, d)
  <1>1. D.year = y /\ D.month = m /\ D.day = d
    BY DEF Date
  <1>2. /\ [D EXCEPT !.day = @ + 1] = Date(y, m, d + 1)
        /\ [D EXCEPT !.month = @ + 1, !.day = 1] = Date(y, m + 1, 1)
    <2>1. /\ [D EXCEPT !.day = @ + 1] = Date(y, m, d + 1)
          /\ [D EXCEPT !.month = @ + 1] = Date(y, m + 1, d)
          /\ [Date(y, m + 1, d) EXCEPT !.day = 1] = Date(y, m + 1, 1)
      BY DEF Date
    <2> HIDE DEF D
    <2> QED
      BY <2>1
  <1>3. DaysIn(y, m) \in Int
    BY DaysInIs
  <1> HIDE DEF D
  <1>4. CASE d < DaysIn(y, m)
    <2>1. After(D) = [D EXCEPT !.day = @ + 1]
      <3>1. d # DaysIn(y, m)
        BY <1>3, <1>4
      <3> QED
        BY <1>1, <1>4, <3>1, Zenon DEF After
    <2> QED
      BY <1>2, <1>4, <2>1 DEF D
  <1>5. CASE ~ (d < DaysIn(y, m)) /\ m < 12
    <2>1. d = DaysIn(y, m)
      BY <1>3, <1>5
    <2>2. After(D) = [D EXCEPT !.month = @ + 1, !.day = 1]
      BY <1>1, <1>5, <2>1, Zenon DEF After
    <2> QED
      BY <1>2, <1>5, <2>2 DEF D
  <1>6. CASE ~ (d < DaysIn(y, m)) /\ ~ (m < 12)
    <2>1. After(D) = Date(y + 1, 1, 1)
      BY <1>1, <1>6, Zenon DEF After, Date
    <2> QED
      BY <1>6, <2>1 DEF D
  <1> QED
    BY <1>4, <1>5, <1>6

\* The date before, without EXCEPT.
LEMMA BeforeIs ==
  ASSUME NEW y \in Int, NEW m \in 1..12, NEW d \in 1..31
  PROVE  Before(Date(y, m, d)) =
           IF d > 1 THEN Date(y, m, d - 1)
           ELSE IF m > 1 THEN Date(y, m - 1, DaysIn(y, m - 1)) ELSE Date(y - 1, 12, 31)
  <1> DEFINE D == Date(y, m, d)
  <1>1. D.year = y /\ D.month = m /\ D.day = d
    BY DEF Date
  <1>2. /\ [D EXCEPT !.day = @ - 1] = Date(y, m, d - 1)
        /\ [D EXCEPT !.month = @ - 1, !.day = DaysIn(y, m - 1)]
             = Date(y, m - 1, DaysIn(y, m - 1))
    <2>1. /\ [D EXCEPT !.day = @ - 1] = Date(y, m, d - 1)
          /\ [D EXCEPT !.month = @ - 1] = Date(y, m - 1, d)
          /\ [Date(y, m - 1, d) EXCEPT !.day = DaysIn(y, m - 1)]
               = Date(y, m - 1, DaysIn(y, m - 1))
      BY DEF Date
    <2> HIDE DEF D
    <2> QED
      BY <2>1
  <1> HIDE DEF D
  <1>4. CASE d > 1
    <2>1. d # 1
      BY <1>4
    <2>2. Before(D) = [D EXCEPT !.day = @ - 1]
      BY <1>1, <1>4, <2>1, Zenon DEF Before
    <2> QED
      BY <1>2, <1>4, <2>2 DEF D
  <1>5. CASE ~ (d > 1) /\ m > 1
    <2>1. d = 1
      BY <1>5
    <2>2. Before(D) = [D EXCEPT !.month = @ - 1, !.day = DaysIn(D.year, D.month - 1)]
      BY <1>1, <1>5, <2>1, Zenon DEF Before
    <2> QED
      BY <1>1, <1>2, <1>5, <2>2 DEF D
  <1>6. CASE ~ (d > 1) /\ ~ (m > 1)
    <2>1. Before(D) = Date(y - 1, 12, 31)
      BY <1>1, <1>6, Zenon DEF Before, Date
    <2> QED
      BY <1>6, <2>1 DEF D
  <1> QED
    BY <1>4, <1>5, <1>6

\* A date of the calendar.
Valid(e) ==
  \E y \in Int, m \in 1..12, d \in 1..31 : d <= DaysIn(y, m) /\ e = Date(y, m, d)

\* The calendar goes back the way it came.
LEMMA BeforeAfter ==
  ASSUME NEW e, Valid(e)
  PROVE  Valid(After(e)) /\ Before(After(e)) = e
  <1>1. PICK y \in Int, m \in 1..12, d \in 1..31 : d <= DaysIn(y, m) /\ e = Date(y, m, d)
    BY DEF Valid
  <1>2. DaysIn(y, m) \in 28..31
    BY DaysInIs
  <1>3. CASE d < DaysIn(y, m)
    <2>1. d + 1 \in 1..31 /\ d + 1 <= DaysIn(y, m) /\ d + 1 > 1 /\ (d + 1) - 1 = d
      BY <1>2, <1>3
    <2>2. After(e) = Date(y, m, d + 1)
      BY <1>1, <1>3, AfterIs
    <2>3. Before(Date(y, m, d + 1)) = Date(y, m, d)
      BY <2>1, BeforeIs
    <2> QED
      BY <1>1, <2>1, <2>2, <2>3 DEF Valid
  <1>4. CASE ~ (d < DaysIn(y, m)) /\ m < 12
    <2>1. m + 1 \in 1..12 /\ m + 1 > 1 /\ (m + 1) - 1 = m /\ 1 \in 1..31 /\ ~ (1 > 1)
          /\ d = DaysIn(y, m)
      BY <1>1, <1>2, <1>4
    <2>2. After(e) = Date(y, m + 1, 1)
      BY <1>1, <1>4, AfterIs
    <2>3. Before(Date(y, m + 1, 1)) = Date(y, m, d)
      BY <2>1, BeforeIs
    <2>4. 1 <= DaysIn(y, m + 1)
      BY <2>1, DaysInIs
    <2> QED
      BY <1>1, <2>1, <2>2, <2>3, <2>4 DEF Valid
  <1>5. CASE ~ (d < DaysIn(y, m)) /\ ~ (m < 12)
    <2>1. m = 12 /\ DaysIn(y, m) = 31 /\ d = 31
      BY <1>1, <1>2, <1>5, DaysInIs
    <2>2. After(e) = Date(y + 1, 1, 1)
      BY <1>1, <1>5, AfterIs
    <2>3. Before(Date(y + 1, 1, 1)) = Date(y, 12, 31)
      <3>1. y + 1 \in Int /\ (y + 1) - 1 = y /\ 1 \in 1..12 /\ 1 \in 1..31 /\ ~ (1 > 1)
        OBVIOUS
      <3> QED
        BY <3>1, BeforeIs
    <2>4. 1 <= DaysIn(y + 1, 1) /\ y + 1 \in Int /\ 1 \in 1..12 /\ 1 \in 1..31
      BY DaysInIs
    <2> QED
      BY <1>1, <2>1, <2>2, <2>3, <2>4 DEF Valid
  <1> QED
    BY <1>3, <1>4, <1>5

(***************************************************************************)
(* The date that the code computes.                                        *)
(***************************************************************************)

\* The era a day is in, and its place in it.
InEra(days, era, doe) ==
  era \in Int /\ doe \in Nat /\ doe < 146097 /\ days + 719468 = 146097 * era + doe

YearIn(era, h, q, k) == 400 * era + 100 * h + 4 * q + k

\* Every day is in an era.
LEMMA EraOfDay ==
  ASSUME NEW days \in Int
  PROVE  \E era, doe : InEra(days, era, doe)
  <1>1. InEra(days, (days + 719468) \div 146097, (days + 719468) % 146097)
    BY SMT DEF InEra
  <1>2. PICK era, doe : era = (days + 719468) \div 146097 /\ doe = (days + 719468) % 146097
    BY SMT
  <1> QED
    BY <1>1, <1>2, SMT

\* The parts of a day of an era are numbers in their ranges.
LEMMA YearOfDaySplits ==
  ASSUME NEW h \in 0..3, NEW q \in 0..24, NEW k \in 0..3
  PROVE  LET y == 100 * h + 4 * q + k
         IN  365 * y + (y \div 4) - (y \div 100) = 36524 * h + 1461 * q + 365 * k
  <1> DEFINE y == 100 * h + 4 * q + k
  <1>1. y \div 4 = 25 * h + q /\ y \div 100 = h
    BY YearSplits, SMT
  <1> QED
    BY <1>1, SMT

\* The date of a day, by its year and its place in it.
LEMMA CivilDateIs ==
  ASSUME NEW days \in Int, NEW era, NEW doe, InEra(days, era, doe),
         NEW h, NEW q, NEW k, NEW r, IsDayOf(doe, h, q, k, r)
  PROVE  CivilDate(days) = MarchDate(YearIn(era, h, q, k), r)
  <1> DEFINE shifted == days + 719468
             quot == TruncDiv(IF shifted >= 0 THEN shifted ELSE shifted - 146096, 146097)
             rest == shifted - quot * 146097
             yoe == YearOfEra(rest)
             doy == rest - (365 * yoe + (yoe \div 4) - (yoe \div 100))
  <1>1. h \in 0..3 /\ q \in 0..24 /\ k \in 0..3 /\ r \in 0..365
        /\ doe = 36524 * h + 1461 * q + 365 * k + r
    BY SMT DEF IsDayOf
  <1> USE DEF InEra
  <1>2. quot = era
    <2>1. CASE shifted >= 0
      <3>1. shifted \div 146097 = era
        BY SMT
      <3> QED
        BY <2>1, <3>1, SMT DEF TruncDiv
    <2>2. CASE shifted < 0
      <3>1. PICK n \in Nat : n = -(shifted - 146096) /\ n = 146096 - 146097 * era - doe
        BY <2>2, SMT
      <3>2. n \div 146097 = -era
        BY <3>1, SMT
      <3>3. shifted - 146096 < 0
        BY <2>2, SMT
      <3> QED
        BY <2>2, <3>1, <3>2, <3>3, SMT DEF TruncDiv
    <2> QED
      BY <2>1, <2>2, SMT
  <1>3. rest = doe
    BY <1>2, SMT
  <1>4. yoe = 100 * h + 4 * q + k
    BY <1>3, YearOfDay, SMT
  <1>5. doy = r
    <2>1. 365 * yoe + (yoe \div 4) - (yoe \div 100) = 36524 * h + 1461 * q + 365 * k
      BY <1>1, <1>4, YearOfDaySplits, SMT
    <2> HIDE DEF rest, yoe
    <2> QED
      BY <1>1, <1>3, <2>1, SMT
  <1> DEFINE mp == (5 * doy + 2) \div 153
             m  == IF mp < 10 THEN mp + 3 ELSE mp - 9
  <1>6. CivilDate(days) = [year  |-> yoe + quot * 400 + (IF m <= 2 THEN 1 ELSE 0),
                           month |-> m,
                           day   |-> doy - ((153 * mp + 2) \div 5) + 1]
    BY SMT DEF CivilDate
  <1> HIDE DEF quot, rest, yoe, doy
  <1>7. CivilDate(days) = [year  |-> 400 * era + 100 * h + 4 * q + k + (IF m <= 2 THEN 1 ELSE 0),
                           month |-> m,
                           day   |-> doy - ((153 * mp + 2) \div 5) + 1]
    <2>1. yoe + quot * 400 = 400 * era + 100 * h + 4 * q + k
      BY <1>1, <1>2, <1>4, SMT
    <2> HIDE DEF m, mp
    <2> QED
      BY <1>6, <2>1, SMT
  <1> QED
    BY <1>5, <1>7, SMT DEF MarchDate, YearIn

\* Which years are leap years, by their place in the era.
LEMMA LeapIs ==
  ASSUME NEW era \in Int, NEW h \in 0..3, NEW q \in 0..24, NEW k \in 0..3
  PROVE  IsLeap(400 * era + 100 * h + 4 * q + k + 1) <=> k = 3 /\ (q = 24 => h = 3)
  <1> DEFINE y == 400 * era + 100 * h + 4 * q + k + 1
  <1>1. y % 4 = 0 <=> k = 3
    BY SMT
  <1>2. y % 100 = 0 <=> k = 3 /\ q = 24
    BY SMT
  <1>3. y % 400 = 0 <=> k = 3 /\ q = 24 /\ h = 3
    BY SMT
  <1> HIDE DEF y
  <1>4. IsLeap(y) <=> k = 3 /\ (q = 24 => h = 3)
    BY <1>1, <1>2, <1>3, SMT DEF IsLeap
  <1> QED
    BY <1>4, SMT DEF y

\* A day of a year is a date of the calendar.
LEMMA MarchDateValid ==
  ASSUME NEW y \in Int, NEW r \in 0..365, r = 365 => IsLeap(y + 1)
  PROVE  Valid(MarchDate(y, r))
  <1>1. PICK m \in 1..12, d \in 1..31 : InMonth(r, m, d)
    BY MonthOfDay
  <1>2. MarchDate(y, r) = Date(y + (IF m <= 2 THEN 1 ELSE 0), m, d)
    BY <1>1, MarchDateIs
  <1>3. CASE m > 2
    <2>1. d <= DaysIn(y, m)
      BY <1>1, <1>3, DaysInIs DEF InMonth
    <2>2. MarchDate(y, r) = Date(y, m, d)
      BY <1>2, <1>3
    <2> QED
      BY <2>1, <2>2 DEF Valid
  <1>4. CASE m <= 2
    <2>1. d <= DaysIn(y + 1, m)
      BY <1>1, <1>4, DaysInIs DEF InMonth
    <2>2. MarchDate(y, r) = Date(y + 1, m, d) /\ y + 1 \in Int
      BY <1>2, <1>4
    <2> QED
      BY <2>1, <2>2 DEF Valid
  <1> QED
    BY <1>3, <1>4

\* The next day of the same year, and the first of the next year.
LEMMA AfterMarchDate ==
  ASSUME NEW y \in Int, NEW r \in 0..365
  PROVE  /\ r < 364 \/ (r = 364 /\ IsLeap(y + 1)) =>
              After(MarchDate(y, r)) = MarchDate(y, r + 1)
         /\ (r = 364 /\ ~ IsLeap(y + 1)) \/ (r = 365 /\ IsLeap(y + 1)) =>
              After(MarchDate(y, r)) = MarchDate(y + 1, 0)
  <1>1. PICK m \in 1..12, d \in 1..31 : InMonth(r, m, d)
    BY MonthOfDay
  <1>2. PICK z \in Int : z = y + (IF m <= 2 THEN 1 ELSE 0)
    OBVIOUS
  <1>3. MarchDate(y, r) = Date(z, m, d)
    BY <1>1, <1>2, MarchDateIs
  <1>4. PICK n \in Int : n = DaysIn(z, m)
    BY DaysInIs
  <1>5. n = IF m = 2 THEN (IF IsLeap(z) THEN 29 ELSE 28)
            ELSE IF m \in {4, 6, 9, 11} THEN 30 ELSE 31
    BY <1>4, DaysInIs
  <1>6. ASSUME d <= n
        PROVE  After(MarchDate(y, r)) =
                 IF d < n THEN Date(z, m, d + 1)
                 ELSE IF m < 12 THEN Date(z, m + 1, 1) ELSE Date(z + 1, 1, 1)
    BY <1>3, <1>4, <1>6, AfterIs
  <1>7. ASSUME r < 364 \/ (r = 364 /\ IsLeap(y + 1))
        PROVE  After(MarchDate(y, r)) = MarchDate(y, r + 1)
    <2>1. r + 1 \in 0..365
      BY <1>7
    <2>2. CASE d < n
      <3>1. InMonth(r + 1, m, d + 1) /\ d + 1 \in 1..31
        BY <1>1, <1>5, <2>2 DEF InMonth
      <3>2. MarchDate(y, r + 1) = Date(z, m, d + 1)
        BY <1>2, <2>1, <3>1, MarchDateIs
      <3> QED
        BY <1>6, <2>2, <3>2
    <2>3. CASE ~ (d < n) /\ m < 12
      <3>1. d = n /\ m # 2
        BY <1>1, <1>2, <1>5, <1>7, <2>3 DEF InMonth
      <3>2. InMonth(r + 1, m + 1, 1) /\ m + 1 \in 1..12 /\ 1 \in 1..31
        BY <1>1, <1>5, <2>3, <3>1 DEF InMonth
      <3>3. MarchDate(y, r + 1) = Date(z, m + 1, 1)
        <4>1. MarchDate(y, r + 1) = Date(y + (IF m + 1 <= 2 THEN 1 ELSE 0), m + 1, 1)
          BY <2>1, <3>2, MarchDateIs
        <4>2. z = y + (IF m + 1 <= 2 THEN 1 ELSE 0)
          BY <1>2, <3>1
        <4> QED
          BY <4>1, <4>2
      <3> QED
        BY <1>6, <2>3, <3>1, <3>3
    <2>4. CASE ~ (d < n) /\ ~ (m < 12)
      <3>1. d = n /\ m = 12 /\ z = y
        BY <1>1, <1>2, <1>5, <2>4 DEF InMonth
      <3>2. InMonth(r + 1, 1, 1) /\ 1 \in 1..12 /\ 1 \in 1..31
        BY <1>1, <1>5, <3>1 DEF InMonth
      <3>3. MarchDate(y, r + 1) = Date(y + 1, 1, 1)
        <4>1. MarchDate(y, r + 1) = Date(y + (IF 1 <= 2 THEN 1 ELSE 0), 1, 1)
          BY <2>1, <3>2, MarchDateIs
        <4> QED
          BY <4>1
      <3> QED
        BY <1>6, <2>4, <3>1, <3>3
    <2> QED
      BY <2>2, <2>3, <2>4
  <1>8. ASSUME (r = 364 /\ ~ IsLeap(y + 1)) \/ (r = 365 /\ IsLeap(y + 1))
        PROVE  After(MarchDate(y, r)) = MarchDate(y + 1, 0)
    <2>1. m = 2 /\ z = y + 1
      BY <1>1, <1>2, <1>8 DEF InMonth
    <2>2. d = n
      BY <1>1, <1>5, <1>8, <2>1 DEF InMonth
    <2>3. InMonth(0, 3, 1) /\ 3 \in 1..12 /\ 1 \in 1..31 /\ 0 \in 0..365 /\ y + 1 \in Int
      BY DEF InMonth
    <2>4. MarchDate(y + 1, 0) = Date(y + 1 + (IF 3 <= 2 THEN 1 ELSE 0), 3, 1)
      BY <2>3, MarchDateIs
    <2>5. MarchDate(y + 1, 0) = Date(y + 1, 3, 1)
      BY <2>4
    <2> QED
      BY <1>6, <2>1, <2>2, <2>5
  <1> QED
    BY <1>7, <1>8

\* The next day's date is the calendar's next date.
LEMMA NextDay ==
  ASSUME NEW days \in Int
  PROVE  Valid(CivilDate(days)) /\ CivilDate(days + 1) = After(CivilDate(days))
  <1>1. PICK era, doe : InEra(days, era, doe)
    BY EraOfDay
  <1>2. PICK h, q, k, r : IsDayOf(doe, h, q, k, r)
    <2>1. doe \in Nat /\ doe < 146097
      BY <1>1, SMT DEF InEra
    <2> QED
      BY <2>1, DaySplits, SMT
  <1>3. /\ h \in 0..3 /\ q \in 0..24 /\ k \in 0..3 /\ r \in 0..365
        /\ doe = 36524 * h + 1461 * q + 365 * k + r
        /\ r = 365 => k = 3 /\ (q = 24 => h = 3)
    BY <1>2, SMT DEF IsDayOf
  <1>4. PICK y \in Int : y = 400 * era + 100 * h + 4 * q + k
    <2>1. era \in Int
      BY <1>1, SMT DEF InEra
    <2> QED
      BY <1>3, <2>1, SMT
  <1>5. CivilDate(days) = MarchDate(y, r)
    <2>1. CivilDate(days) = MarchDate(YearIn(era, h, q, k), r)
      BY <1>1, <1>2, CivilDateIs, SMT
    <2> QED
      BY <1>4, <2>1 DEF YearIn
  <1>6. IsLeap(y + 1) <=> k = 3 /\ (q = 24 => h = 3)
    <2>1. IsLeap(400 * era + 100 * h + 4 * q + k + 1) <=> k = 3 /\ (q = 24 => h = 3)
      <3>1. era \in Int
        BY <1>1, SMT DEF InEra
      <3> QED
        BY <1>3, <3>1, LeapIs
    <2> QED
      BY <1>4, <2>1
  <1>7. Valid(CivilDate(days))
    BY <1>3, <1>5, <1>6, MarchDateValid
  <1>8. CASE r < 364 \/ (r = 364 /\ IsLeap(y + 1))
    <2>1. InEra(days + 1, era, doe + 1) /\ days + 1 \in Int
      BY <1>1, <1>3, <1>6, <1>8, SMT DEF InEra
    <2>2. IsDayOf(doe + 1, h, q, k, r + 1)
      BY <1>3, <1>6, <1>8, SMT DEF IsDayOf
    <2>3. CivilDate(days + 1) = MarchDate(y, r + 1)
      <3>1. CivilDate(days + 1) = MarchDate(YearIn(era, h, q, k), r + 1)
        BY <2>1, <2>2, CivilDateIs, SMT
      <3> QED
        BY <1>4, <3>1 DEF YearIn
    <2> QED
      BY <1>3, <1>5, <1>7, <1>8, <2>3, AfterMarchDate
  <1>9. CASE ~ (r < 364 \/ (r = 364 /\ IsLeap(y + 1)))
    <2>1. (r = 364 /\ ~ IsLeap(y + 1)) \/ (r = 365 /\ IsLeap(y + 1))
      BY <1>3, <1>6, <1>9, SMT
    <2>2. After(MarchDate(y, r)) = MarchDate(y + 1, 0)
      BY <1>3, <2>1, AfterMarchDate
    <2>3. ASSUME NEW era2, NEW doe2, InEra(days + 1, era2, doe2),
                 NEW h2, NEW q2, NEW k2, IsDayOf(doe2, h2, q2, k2, 0),
                 400 * era2 + 100 * h2 + 4 * q2 + k2 = y + 1
          PROVE  CivilDate(days + 1) = MarchDate(y + 1, 0)
      <3>1. days + 1 \in Int
        BY SMT
      <3> QED
        <4>1. CivilDate(days + 1) = MarchDate(YearIn(era2, h2, q2, k2), 0)
          BY <2>3, <3>1, CivilDateIs, SMT
        <4> QED
          BY <2>3, <4>1 DEF YearIn
    <2>4. CASE k < 3
      <3>1. IsDayOf(doe + 1, h, q, k + 1, 0)
        BY <1>3, <1>6, <2>1, <2>4, SMT DEF IsDayOf
      <3>2. /\ InEra(days + 1, era, doe + 1)
            /\ 400 * era + 100 * h + 4 * q + (k + 1) = y + 1
        BY <1>1, <1>3, <1>4, <1>6, <2>1, <2>4, SMT DEF InEra
      <3> QED
        BY <1>5, <1>7, <2>2, <2>3, <3>1, <3>2, SMT
    <2>5. CASE k = 3 /\ q < 24
      <3>1. IsDayOf(doe + 1, h, q + 1, 0, 0)
        BY <1>3, <1>6, <2>1, <2>5, SMT DEF IsDayOf
      <3>2. /\ InEra(days + 1, era, doe + 1)
            /\ 400 * era + 100 * h + 4 * (q + 1) + 0 = y + 1
        BY <1>1, <1>3, <1>4, <1>6, <2>1, <2>5, SMT DEF InEra
      <3> QED
        BY <1>5, <1>7, <2>2, <2>3, <3>1, <3>2, SMT
    <2>6. CASE k = 3 /\ q = 24 /\ h < 3
      <3>1. IsDayOf(doe + 1, h + 1, 0, 0, 0)
        BY <1>3, <1>6, <2>1, <2>6, SMT DEF IsDayOf
      <3>2. /\ InEra(days + 1, era, doe + 1)
            /\ 400 * era + 100 * (h + 1) + 4 * 0 + 0 = y + 1
        BY <1>1, <1>3, <1>4, <1>6, <2>1, <2>6, SMT DEF InEra
      <3> QED
        BY <1>5, <1>7, <2>2, <2>3, <3>1, <3>2, SMT
    <2>7. CASE k = 3 /\ q = 24 /\ h = 3
      <3>1. IsDayOf(0, 0, 0, 0, 0)
        BY SMT DEF IsDayOf
      <3>2. /\ InEra(days + 1, era + 1, 0)
            /\ 400 * (era + 1) + 100 * 0 + 4 * 0 + 0 = y + 1
        BY <1>1, <1>3, <1>4, <1>6, <2>1, <2>7, SMT DEF InEra
      <3> QED
        BY <1>5, <1>7, <2>2, <2>3, <3>1, <3>2, SMT
    <2> QED
      BY <1>3, <2>4, <2>5, <2>6, <2>7, SMT
  <1> QED
    BY <1>7, <1>8, <1>9, SMT

(***************************************************************************)
(* The moments of a day.                                                   *)
(***************************************************************************)

\* Products of natural numbers are natural numbers: what the provers need for
\* every argument about multiples of a length that is not known.
LEMMA Product == \A a, b \in Nat : a * b \in Nat
  OBVIOUS

\* No multiple of b lies between two others.
LEMMA Multiple ==
  ASSUME NEW b \in Nat, NEW q \in Int, NEW s \in Int, NEW t \in Int,
         q * b = t - s, t - s < b, s - t < b
  PROVE  q = 0 \/ b = 0
  <1>1. CASE q >= 1
    <2>1. (q - 1) * b \in Nat
      BY <1>1, Product
    <2>2. (q - 1) * b = q * b - b
      OBVIOUS
    <2> QED
      BY <2>1, <2>2
  <1>2. CASE q <= -1
    <2>1. (-q - 1) * b \in Nat
      <3>1. -q - 1 \in Nat
        BY <1>2
      <3> QED
        BY <3>1, Product
    <2>2. (-q - 1) * b = -(q * b) - b
      OBVIOUS
    <2> QED
      BY <2>1, <2>2
  <1> QED
    BY <1>1, <1>2

\* Quotient and remainder.
LEMMA DivMod ==
  ASSUME NEW b \in Nat \ {0}, NEW x \in Int
  PROVE  /\ x \div b \in Int /\ x % b \in Int /\ x % b >= 0 /\ x % b < b
         /\ x = (x \div b) * b + (x % b)
  OBVIOUS

\* Quotient and remainder are the only ones.
LEMMA DivModIs ==
  ASSUME NEW b \in Nat \ {0}, NEW n \in Int, NEW s \in Int, s >= 0, s < b
  PROVE  (n * b + s) \div b = n /\ (n * b + s) % b = s
  <1>1. PICK x \in Int : x = n * b + s
    OBVIOUS
  <1>2. PICK q \in Int, r \in Int : q = x \div b /\ r = x % b
    BY <1>1, DivMod
  <1>3. r >= 0 /\ r < b /\ x = q * b + r
    BY <1>2, DivMod
  <1>4. (q - n) * b = s - r
    <2>1. (q - n) * b = q * b - n * b
      OBVIOUS
    <2> QED
      BY <1>1, <1>3, <2>1
  <1>5. q - n = 0
    BY <1>3, <1>4, Multiple
  <1>6. q = n
    BY <1>5
  <1>7. r = s
    BY <1>1, <1>3, <1>6
  <1> QED
    BY <1>1, <1>2, <1>6, <1>7

\* The moment s of the day n.
LEMMA MomentOfDay ==
  ASSUME NEW n \in Int, NEW s \in Int, s >= 0, s < SECS_PER_DAY
  PROVE  /\ DaySecs(n * SECS_PER_DAY + s) = s
         /\ Days(n * SECS_PER_DAY + s) = n
  <1>1. PICK b \in Nat \ {0} : b = SECS_PER_DAY
    BY ClockAssumption
  <1>2. PICK ts \in Int : ts = n * b + s
    BY <1>1
  <1>3. TruncRem(s, b) = s
    <2>1. s = 0 * b + s
      OBVIOUS
    <2>2. s \div b = 0
      <3>1. (0 * b + s) \div b = 0
        BY <1>1, DivModIs
      <3> QED
        BY <2>1, <3>1
    <2> QED
      BY <2>2 DEF TruncRem, TruncDiv
  <1>4. TruncRem(s + b, b) = s
    <2>1. s + b = 1 * b + s
      OBVIOUS
    <2>2. (s + b) \div b = 1
      <3>1. (1 * b + s) \div b = 1
        BY <1>1, DivModIs
      <3> QED
        BY <2>1, <3>1
    <2> QED
      BY <2>2 DEF TruncRem, TruncDiv
  <1>5. CASE ts >= 0
    <2>1. TruncDiv(ts, b) = n
      <3>1. (n * b + s) \div b = n
        BY <1>1, DivModIs
      <3> QED
        BY <1>2, <1>5, <3>1 DEF TruncDiv
    <2>2. TruncRem(ts, b) = s
      BY <1>2, <2>1 DEF TruncRem
    <2>3. DaySecs(ts) = s
      BY <1>1, <1>4, <2>2 DEF DaySecs
    <2>4. Days(ts) = n
      BY <1>1, <1>5, <2>1 DEF Days
    <2> QED
      BY <1>1, <1>2, <2>3, <2>4
  <1>6. CASE ts < 0 /\ s = 0
    <2>1. TruncDiv(ts, b) = n
      <3>1. -ts = (-n) * b + 0
        BY <1>2, <1>6
      <3>2. ((-n) * b + 0) \div b = -n
        BY DivModIs
      <3>3. (-ts) \div b = -n
        BY <3>1, <3>2
      <3> QED
        BY <1>6, <3>3 DEF TruncDiv
    <2>2. TruncRem(ts, b) = 0
      BY <1>2, <1>6, <2>1 DEF TruncRem
    <2>3. DaySecs(ts) = s
      BY <1>1, <1>4, <1>6, <2>2 DEF DaySecs
    <2>4. Days(ts) = n
      BY <1>1, <1>6, <2>1, <2>3 DEF Days
    <2> QED
      BY <1>1, <1>2, <2>3, <2>4
  <1>7. CASE ts < 0 /\ s > 0
    <2>1. TruncDiv(ts, b) = n + 1
      <3>1. -ts = (-n - 1) * b + (b - s)
        <4>1. (-n - 1) * b = -(n * b) - b
          OBVIOUS
        <4> QED
          BY <1>2, <4>1
      <3>2. ((-n - 1) * b + (b - s)) \div b = -n - 1
        BY <1>1, <1>7, DivModIs
      <3>3. (-ts) \div b = -n - 1
        BY <3>1, <3>2
      <3> QED
        BY <1>7, <3>3 DEF TruncDiv
    <2>2. TruncRem(ts, b) = s - b
      <3>1. b * (n + 1) = n * b + b
        OBVIOUS
      <3> QED
        BY <1>2, <2>1, <3>1 DEF TruncRem
    <2>3. DaySecs(ts) = s
      <3>1. s - b + b = s
        OBVIOUS
      <3> QED
        BY <1>1, <1>3, <2>2, <3>1 DEF DaySecs
    <2>4. Days(ts) = n
      BY <1>1, <1>7, <2>1, <2>3 DEF Days
    <2> QED
      BY <1>1, <1>2, <2>3, <2>4
  <1> QED
    BY <1>5, <1>6, <1>7

\* Hours, minutes and seconds make up the moment.
LEMMA TimeAddsUp ==
  ASSUME NEW ts, NEW s \in Int, s >= 0, DaySecs(ts) = s
  PROVE  LET t == TimeOfDay(ts)
         IN  s = t.hour * SECS_PER_HOUR + t.minute * SECS_PER_MIN + t.second
  <1>1. PICK b \in Nat \ {0}, c \in Nat \ {0} : b = SECS_PER_HOUR /\ c = SECS_PER_MIN /\ b % c = 0
    BY ClockAssumption
  <1>2. PICK h \in Int, rest \in Int : /\ h = s \div b /\ rest = s % b
                                       /\ s = h * b + rest /\ rest >= 0
    BY <1>1, DivMod
  <1>3. PICK m \in Int, sec \in Int : /\ m = rest \div c /\ sec = rest % c
                                      /\ rest = m * c + sec /\ sec >= 0 /\ sec < c
    BY <1>1, <1>2, DivMod
  <1>4. PICK k \in Int : b = k * c
    <2>1. b = (b \div c) * c + 0 /\ b \div c \in Int
      BY <1>1, DivMod
    <2>2. PICK k \in Int : k = b \div c
      BY <2>1
    <2>3. b = k * c
      BY <2>1, <2>2
    <2> QED
      BY <2>3
  <1>5. s % c = sec
    <2>1. s = (h * k + m) * c + sec
      <3>1. (h * k + m) * c = (h * k) * c + m * c /\ (h * k) * c = h * (k * c)
        OBVIOUS
      <3> QED
        BY <1>2, <1>3, <1>4, <3>1
    <2>2. h * k + m \in Int
      OBVIOUS
    <2>3. ((h * k + m) * c + sec) % c = sec
      BY <1>3, <2>2, DivModIs
    <2> QED
      BY <2>1, <2>3
  <1>6. TimeOfDay(ts) = [hour |-> h, minute |-> m, second |-> sec]
    BY <1>1, <1>2, <1>3, <1>5 DEF TimeOfDay
  <1>7. s = h * b + m * c + sec
    <2>1. h * b \in Int /\ m * c \in Int
      OBVIOUS
    <2>2. s = h * b + (m * c + sec)
      BY <1>2, <1>3, Zenon
    <2>3. PICK x \in Int, y \in Int : x = h * b /\ y = m * c
      BY <2>1
    <2>4. x + (y + sec) = x + y + sec
      OBVIOUS
    <2> QED
      BY <2>2, <2>3, <2>4, Zenon
  <1> QED
    BY <1>1, <1>6, <1>7

(***************************************************************************)
(* The walk.                                                               *)
(***************************************************************************)

\* The calendar shows what the code computes.
InStep == day \in Int /\ date = CivilDate(day)

\* The walk starts in step: 1 January, 1970 + 400 * e, is day 146097 * e.
LEMMA InStepInit == Init => InStep
  <1> SUFFICES ASSUME Init
               PROVE  InStep
    OBVIOUS
  <1>1. PICK e \in Int : /\ day = e * 146097
                         /\ date = [year |-> 1970 + 400 * e, month |-> 1, day |-> 1]
    BY ClockAssumption, SMT DEF Init
  <1>2. InEra(day, e + 4, 135080) /\ day \in Int
    BY <1>1, SMT DEF InEra
  <1>3. IsDayOf(135080, 3, 17, 1, 306)
    BY SMT DEF IsDayOf
  <1>4. CivilDate(day) = MarchDate(YearIn(e + 4, 3, 17, 1), 306)
    BY <1>2, <1>3, CivilDateIs, SMT
  <1>5. YearIn(e + 4, 3, 17, 1) = 1969 + 400 * e /\ 1969 + 400 * e \in Int
    BY SMT DEF YearIn
  <1>6. MarchDate(1969 + 400 * e, 306) = Date(1969 + 400 * e + (IF 1 <= 2 THEN 1 ELSE 0), 1, 1)
    <2>1. InMonth(306, 1, 1) /\ 306 \in 0..365 /\ 1 \in 1..12 /\ 1 \in 1..31
      BY SMT DEF InMonth
    <2>2. \A y \in Int : MarchDate(y, 306) = Date(y + (IF 1 <= 2 THEN 1 ELSE 0), 1, 1)
      BY <2>1, MarchDateIs
    <2> QED
      BY <1>5, <2>2, SMT
  <1>7. 1969 + 400 * e + (IF 1 <= 2 THEN 1 ELSE 0) = 1970 + 400 * e
    BY SMT
  <1>8. date = CivilDate(day)
    BY <1>1, <1>4, <1>5, <1>6, <1>7, SMT DEF Date
  <1> QED
    BY <1>2, <1>8, SMT DEF InStep

\* A day forward, or back, keeps it in step.
LEMMA InStepStep == InStep /\ [Next]_vars => InStep'
  <1> SUFFICES ASSUME InStep, [Next]_vars
               PROVE  InStep'
    OBVIOUS
  <1>1. CASE Forward
    <2>1. day' \in Int /\ day' = day + 1 /\ date' = After(date)
      BY <1>1 DEF Forward, InStep
    <2>2. CivilDate(day + 1) = After(CivilDate(day))
      BY NextDay DEF InStep
    <2> QED
      BY <2>1, <2>2 DEF InStep
  <1>2. CASE Backward
    <2>1. day' \in Int /\ day' = day - 1 /\ date' = Before(date)
      BY <1>2 DEF Backward, InStep
    <2>2. PICK n \in Int : n = day - 1 /\ n + 1 = day
      BY DEF InStep
    <2>3. Valid(CivilDate(n)) /\ CivilDate(n + 1) = After(CivilDate(n))
      BY NextDay
    <2>4. Before(CivilDate(day)) = CivilDate(n)
      BY <2>2, <2>3, BeforeAfter
    <2> QED
      BY <2>1, <2>2, <2>4 DEF InStep
  <1>3. CASE UNCHANGED vars
    BY <1>3 DEF vars, InStep
  <1> QED
    BY <1>1, <1>2, <1>3 DEF Next

\* For every day, however far from 1970, and every length of hours and minutes:
\* timestamp_to_parts agrees with the calendar.
THEOREM DatesAreRight == Spec => []PartsAreTheDate
  <1>1. InStep => PartsAreTheDate
    <2> SUFFICES ASSUME InStep, NEW s \in 0..(SECS_PER_DAY - 1),
                        NEW ts, ts = day * SECS_PER_DAY + s
                 PROVE  /\ CivilDate(Days(ts)) = date
                        /\ LET t == TimeOfDay(ts)
                           IN  ts - day * SECS_PER_DAY
                                 = t.hour * SECS_PER_HOUR + t.minute * SECS_PER_MIN + t.second
      BY Zenon DEF PartsAreTheDate, Moments
    <2>1. day \in Int /\ SECS_PER_DAY \in Nat \ {0}
      BY ClockAssumption DEF InStep
    <2>2. s \in Int /\ s >= 0 /\ s < SECS_PER_DAY
      BY <2>1
    <2>3. DaySecs(ts) = s /\ Days(ts) = day
      BY <2>1, <2>2, MomentOfDay
    <2>4. LET t == TimeOfDay(ts)
          IN  s = t.hour * SECS_PER_HOUR + t.minute * SECS_PER_MIN + t.second
      BY <2>2, <2>3, TimeAddsUp
    <2>5. ts - day * SECS_PER_DAY = s
      BY <2>1, <2>2
    <2> QED
      BY <2>3, <2>4, <2>5 DEF InStep
  <1> QED
    BY <1>1, InStepInit, InStepStep, PTL DEF Spec

(***************************************************************************)
(* Digits.                                                                 *)
(***************************************************************************)

\* The digit of a number at ones, tens and so on.
Digit(val, place) == 48 + ((val \div place) % 10)

\* Powers of ten.
LEMMA Powers ==
  /\ 10^0 = 1 /\ 10^1 = 10 /\ 10^2 = 100 /\ 10^3 = 1000 /\ 10^4 = 10000
  /\ 10^5 = 100000 /\ 10^6 = 1000000 /\ 10^7 = 10000000 /\ 10^8 = 100000000
  BY SMT

\* A digit as a character.
LEMMA CharIsDigit ==
  ASSUME NEW val \in Int, 0 <= val, val <= 9
  PROVE  Char(val) = 48 + val
  BY DEF Char

\* What write_decimal_2 and write_decimal_4 write.
LEMMA TwoDigits ==
  ASSUME NEW val \in Int, 0 <= val, val < 100
  PROVE  WriteDecimal2(val) = <<Digit(val, 10), Digit(val, 1)>>
  <1>1. /\ val \div 10 \in 0..9 /\ val % 10 \in 0..9
        /\ (val \div 10) % 10 = val \div 10 /\ (val \div 1) % 10 = val % 10
    OBVIOUS
  <1>2. Char(val \div 10) = 48 + (val \div 10) /\ Char(val % 10) = 48 + (val % 10)
    BY <1>1, CharIsDigit
  <1> QED
    BY <1>1, <1>2 DEF WriteDecimal2, Digit

LEMMA FourDigits ==
  ASSUME NEW val \in Int, 0 <= val, val < 10000
  PROVE  WriteDecimal4(val) = <<Digit(val, 1000), Digit(val, 100), Digit(val, 10), Digit(val, 1)>>
  <1>1. /\ val \div 1000 \in 0..9 /\ (val \div 100) % 10 \in 0..9
        /\ (val \div 10) % 10 \in 0..9 /\ val % 10 \in 0..9
        /\ (val \div 1000) % 10 = val \div 1000 /\ (val \div 1) % 10 = val % 10
    BY SMT
  <1>2. /\ Char(val \div 1000) = 48 + (val \div 1000)
        /\ Char((val \div 100) % 10) = 48 + ((val \div 100) % 10)
        /\ Char((val \div 10) % 10) = 48 + ((val \div 10) % 10)
        /\ Char(val % 10) = 48 + (val % 10)
    BY <1>1, CharIsDigit, SMT
  <1> QED
    BY <1>1, <1>2, SMT DEF WriteDecimal4, Digit

\* How many digits the client writes.
LEMMA PaddedLen ==
  ASSUME NEW val \in Int, NEW width \in {2, 4}, 0 <= val, val < 10^width
  PROVE  (CHOOSE k \in width..9 : val < 10^k /\ (k > width => val >= 10^(k - 1))) = width
  <1>1. width \in width..9 /\ val < 10^width /\ (width > width => val >= 10^(width - 1))
    BY SMT
  <1>2. ASSUME NEW k \in width..9, val < 10^k, k > width => val >= 10^(k - 1)
        PROVE  k = width
    <2>1. CASE width = 2
      <3>1. \/ k = 2 \/ k = 3 \/ k = 4 \/ k = 5 \/ k = 6 \/ k = 7 \/ k = 8 \/ k = 9
        BY <2>1
      <3>2. CASE k = 2
        BY <2>1, <3>2
      <3>3. CASE k # 2
        <4>1. /\ 3 - 1 = 2 /\ 4 - 1 = 3 /\ 5 - 1 = 4 /\ 6 - 1 = 5
              /\ 7 - 1 = 6 /\ 8 - 1 = 7 /\ 9 - 1 = 8
          OBVIOUS
        <4>2. 10^(k - 1) \in {10^2, 10^3, 10^4, 10^5, 10^6, 10^7, 10^8}
          BY <3>1, <3>3, <4>1
        <4>3. val >= 10^(k - 1)
          BY <1>2, <2>1, <3>1, <3>3
        <4>4. val < 100 /\ 10^(k - 1) >= 100
          BY <2>1, <4>2, Powers, SMT
        <4>5. PICK w \in Int : w = 10^(k - 1)
          BY <4>2, Powers, SMT
        <4> QED
          BY <4>3, <4>4, <4>5, SMT
      <3> QED
        BY <3>2, <3>3
    <2>2. CASE width = 4
      <3>1. \/ k = 4 \/ k = 5 \/ k = 6 \/ k = 7 \/ k = 8 \/ k = 9
        BY <2>2
      <3>2. CASE k = 4
        BY <2>2, <3>2
      <3>3. CASE k # 4
        <4>1. 5 - 1 = 4 /\ 6 - 1 = 5 /\ 7 - 1 = 6 /\ 8 - 1 = 7 /\ 9 - 1 = 8
          OBVIOUS
        <4>2. 10^(k - 1) \in {10^4, 10^5, 10^6, 10^7, 10^8}
          BY <3>1, <3>3, <4>1
        <4>3. val >= 10^(k - 1)
          BY <1>2, <2>2, <3>1, <3>3
        <4>4. val < 10000 /\ 10^(k - 1) >= 10000
          BY <2>2, <4>2, Powers, SMT
        <4>5. PICK w \in Int : w = 10^(k - 1)
          BY <4>2, Powers, SMT
        <4> QED
          BY <4>3, <4>4, <4>5, SMT
      <3> QED
        BY <3>2, <3>3
    <2> QED
      BY <2>1, <2>2
  <1> QED
    BY <1>1, <1>2, Zenon

\* What format! writes.
LEMMA PaddedTwo ==
  ASSUME NEW val \in Int, 0 <= val, val < 100
  PROVE  Padded(val, 2) = <<Digit(val, 10), Digit(val, 1)>>
  <1> DEFINE len == CHOOSE k \in 2..9 : val < 10^k /\ (k > 2 => val >= 10^(k - 1))
  <1>1. len = 2
    BY PaddedLen, Powers
  <1>2. Padded(val, 2) = [n \in 1..len |-> 48 + ((val \div 10^(len - n)) % 10)]
    BY Zenon DEF Padded
  <1> HIDE DEF len
  <1>3. Padded(val, 2) = [n \in 1..2 |-> 48 + ((val \div 10^(2 - n)) % 10)]
    BY <1>1, <1>2
  <1>4. 2 - 1 = 1 /\ 2 - 2 = 0
    OBVIOUS
  <1> QED
    BY <1>3, <1>4, Powers DEF Digit

LEMMA PaddedFour ==
  ASSUME NEW val \in Int, 0 <= val, val < 10000
  PROVE  Padded(val, 4) = <<Digit(val, 1000), Digit(val, 100), Digit(val, 10), Digit(val, 1)>>
  <1> DEFINE len == CHOOSE k \in 4..9 : val < 10^k /\ (k > 4 => val >= 10^(k - 1))
  <1>1. len = 4
    BY PaddedLen, Powers, SMT
  <1>2. Padded(val, 4) = [n \in 1..len |-> 48 + ((val \div 10^(len - n)) % 10)]
    BY SMT DEF Padded
  <1> HIDE DEF len
  <1>3. Padded(val, 4) = [n \in 1..4 |-> 48 + ((val \div 10^(4 - n)) % 10)]
    BY <1>1, <1>2, SMT
  <1>4. 4 - 1 = 3 /\ 4 - 2 = 2 /\ 4 - 3 = 1 /\ 4 - 4 = 0
    OBVIOUS
  <1> QED
    BY <1>3, <1>4, Powers, SMT DEF Digit

(***************************************************************************)
(* The program's text and the client's.                                    *)
(***************************************************************************)

\* Hours, minutes and seconds have two digits: with the 86400, 3600 and 60 of the
\* code, and in any other clock that HH:MM:SS can show.
ShownInTwo ==
  /\ SECS_PER_DAY <= 100 * SECS_PER_HOUR
  /\ SECS_PER_HOUR <= 100 * SECS_PER_MIN
  /\ SECS_PER_MIN <= 100

\* A number that is shown with as many digits as bound has zeros.
Short(val, bound) == val \in Int /\ 0 <= val /\ val < bound

\* What is below k times b has a quotient below k.
LEMMA Quotient ==
  ASSUME NEW b \in Nat \ {0}, NEW x \in Int, NEW k \in Nat, x >= 0, x < k * b
  PROVE  x \div b \in Int /\ x \div b >= 0 /\ x \div b < k
  <1>1. PICK q \in Int, r \in Int : q = x \div b /\ r >= 0 /\ r < b /\ x = q * b + r
    BY DivMod
  <1>2. q >= 0
    <2>1. CASE q <= -1
      <3>1. -q - 1 \in Nat
        BY <2>1
      <3>2. (-q - 1) * b \in Nat
        BY <3>1, Product
      <3>3. (-q - 1) * b = -(q * b) - b
        OBVIOUS
      <3> QED
        BY <1>1, <3>2, <3>3
    <2> QED
      BY <2>1
  <1>3. q < k
    <2>1. CASE q >= k
      <3>1. q - k \in Nat
        BY <2>1
      <3>2. (q - k) * b \in Nat
        BY <3>1, Product
      <3>3. (q - k) * b = q * b - k * b
        OBVIOUS
      <3> QED
        BY <1>1, <3>2, <3>3
    <2> QED
      BY <2>1
  <1> QED
    BY <1>1, <1>2, <1>3

\* The time of day is shown by two digits each.
LEMMA TimeIsShort ==
  ASSUME ShownInTwo, NEW ts, NEW s \in Int, s >= 0, s < SECS_PER_DAY, DaySecs(ts) = s
  PROVE  LET t == TimeOfDay(ts)
         IN  Short(t.hour, 100) /\ Short(t.minute, 100) /\ Short(t.second, 100)
  <1>1. PICK a \in Nat \ {0}, b \in Nat \ {0}, c \in Nat \ {0} :
          a = SECS_PER_DAY /\ b = SECS_PER_HOUR /\ c = SECS_PER_MIN
    BY ClockAssumption
  <1>2. a <= 100 * b /\ b <= 100 * c /\ c <= 100 /\ s < a
    BY <1>1 DEF ShownInTwo
  <1>3. Short(s \div b, 100)
    BY <1>2, Quotient DEF Short
  <1>4. Short((s % b) \div c, 100)
    <2>1. PICK r \in Int : r = s % b /\ r >= 0 /\ r < b
      BY DivMod
    <2>2. r < 100 * c
      BY <1>2, <2>1
    <2>3. r \div c \in Int /\ r \div c >= 0 /\ r \div c < 100
      BY <2>1, <2>2, Quotient
    <2> QED
      BY <2>1, <2>3 DEF Short
  <1>5. Short(s % c, 100)
    <2>1. PICK r \in Int : r = s % c /\ r >= 0 /\ r < c
      BY DivMod
    <2> QED
      BY <1>2, <2>1 DEF Short
  <1>6. PICK x, y, z : x = s \div b /\ y = (s % b) \div c /\ z = s % c
    OBVIOUS
  <1>7. TimeOfDay(ts) = [hour |-> x, minute |-> y, second |-> z]
    BY <1>1, <1>6, Zenon DEF TimeOfDay
  <1>8. /\ TimeOfDay(ts).hour = x /\ TimeOfDay(ts).minute = y
        /\ TimeOfDay(ts).second = z
    BY <1>7
  <1> QED
    BY <1>3, <1>4, <1>5, <1>6, <1>8, Zenon

\* The years that four digits show.
LEMMA UpTo ==
  ASSUME NEW last \in Nat, NEW val \in 0..last
  PROVE  Short(val, last + 1)
  BY DEF Short

LEMMA YearIsShort ==
  ASSUME NEW y, ShownInFour(y)
  PROVE  Short(y, 10000)
  <1>1. PICK last \in Nat : last = 9999
    BY SMT
  <1>2. y \in 0..last
    BY <1>1, SMT DEF ShownInFour
  <1>3. Short(y, last + 1)
    BY <1>2, UpTo
  <1>4. last + 1 = 10000
    BY <1>1, SMT
  <1> QED
    BY <1>3, <1>4, SMT

\* Month and day are shown by two digits each.
LEMMA DateIsShort ==
  ASSUME NEW d, Valid(d)
  PROVE  /\ d = [year |-> d.year, month |-> d.month, day |-> d.day]
         /\ d.year \in Int /\ Short(d.month, 100) /\ Short(d.day, 100)
  <1>1. PICK y \in Int, m \in 1..12, k \in 1..31 : d = Date(y, m, k)
    BY DEF Valid
  <1> QED
    BY <1>1 DEF Date, Short

\* The client's digits are the program's.
LEMMA SameText ==
  ASSUME ShownInTwo, NEW n \in Int, NEW s \in Int, s >= 0, s < SECS_PER_DAY,
         ShownInFour(CivilDate(n).year), NEW ts, ts = n * SECS_PER_DAY + s
  PROVE  ClientTimestamp(ts) = FormatTimestamp(ts)
  <1>1. DaySecs(ts) = s /\ Days(ts) = n
    BY MomentOfDay
  <1> DEFINE d == CivilDate(n)
             t == TimeOfDay(ts)
  <1>2. Short(t.hour, 100) /\ Short(t.minute, 100) /\ Short(t.second, 100)
    BY <1>1, TimeIsShort
  <1>3. Short(d.month, 100) /\ Short(d.day, 100) /\ Short(d.year, 10000)
    <2>1. Valid(d)
      BY NextDay
    <2>2. d.year \in Int /\ Short(d.month, 100) /\ Short(d.day, 100)
      <3> HIDE DEF d
      <3> QED
        BY <2>1, DateIsShort
    <2>3. ShownInFour(d.year)
      OBVIOUS
    <2> HIDE DEF d
    <2>4. Short(d.year, 10000)
      BY <2>3, YearIsShort, SMT
    <2> QED
      BY <2>2, <2>4
  <1>4. \A val : Short(val, 100) => Padded(val, 2) = WriteDecimal2(val)
    BY PaddedTwo, TwoDigits DEF Short
  <1>5. \A val : Short(val, 10000) => Padded(val, 4) = WriteDecimal4(val)
    BY PaddedFour, FourDigits, SMT DEF Short
  <1>6. ClientTimestamp(ts) =
          Padded(d.year, 4) \o <<45>> \o Padded(d.month, 2) \o <<45>> \o Padded(d.day, 2)
            \o <<32>> \o Padded(t.hour, 2) \o <<58>> \o Padded(t.minute, 2)
            \o <<58>> \o Padded(t.second, 2)
    BY <1>1 DEF ClientTimestamp
  <1>7. FormatTimestamp(ts) =
          WriteDecimal4(d.year) \o <<45>> \o WriteDecimal2(d.month) \o <<45>>
            \o WriteDecimal2(d.day) \o <<32>> \o WriteDecimal2(t.hour) \o <<58>>
            \o WriteDecimal2(t.minute) \o <<58>> \o WriteDecimal2(t.second)
    BY <1>1 DEF FormatTimestamp
  <1> HIDE DEF d, t
  <1>8. /\ Padded(d.year, 4) = WriteDecimal4(d.year)
        /\ Padded(d.month, 2) = WriteDecimal2(d.month)
        /\ Padded(d.day, 2) = WriteDecimal2(d.day)
        /\ Padded(t.hour, 2) = WriteDecimal2(t.hour)
        /\ Padded(t.minute, 2) = WriteDecimal2(t.minute)
        /\ Padded(t.second, 2) = WriteDecimal2(t.second)
    BY <1>2, <1>3, <1>4, <1>5
  <1> QED
    BY <1>6, <1>7, <1>8, Zenon

\* For every day of a year with four digits, and every moment of it: the client's
\* format! and the program's write_decimal_2 and write_decimal_4 make one text.
THEOREM SameForTheClient == ShownInTwo => (Spec => []ClientSignsTheSameText)
  <1> SUFFICES ASSUME ShownInTwo
               PROVE  Spec => []ClientSignsTheSameText
    OBVIOUS
  <1>1. InStep => ClientSignsTheSameText
    <2> SUFFICES ASSUME InStep, ShownInFour(date.year), NEW s \in 0..(SECS_PER_DAY - 1),
                        NEW ts, ts = day * SECS_PER_DAY + s
                 PROVE  ClientTimestamp(ts) = FormatTimestamp(ts)
      BY Zenon DEF ClientSignsTheSameText, Moments
    <2>1. day \in Int /\ ShownInFour(CivilDate(day).year)
      BY Zenon DEF InStep
    <2>2. SECS_PER_DAY \in Nat
      BY ClockAssumption
    <2>3. s \in Int /\ s >= 0 /\ s < SECS_PER_DAY
      BY <2>2
    <2> QED
      BY <2>1, <2>3, SameText
  <1> QED
    BY <1>1, InStepInit, InStepStep, PTL DEF Spec

(***************************************************************************)
(* The text, character by character.                                       *)
(***************************************************************************)

\* A text and one, or two, characters more.
ThenOne(s, a) == s \o <<a>>
ThenTwo(s, a, b) == s \o <<a, b>>

Has(s, n) == s \in Seq(Int) /\ Len(s) = n

\* The characters of such a text.
LEMMA OneLonger ==
  ASSUME NEW s, NEW a \in Int, NEW n \in Nat, Has(s, n)
  PROVE  /\ Has(ThenOne(s, a), n + 1)
         /\ \A k \in 1..n : ThenOne(s, a)[k] = s[k]
         /\ ThenOne(s, a)[n + 1] = a
  BY DEF ThenOne, Has

LEMMA TwoLonger ==
  ASSUME NEW s, NEW a \in Int, NEW b \in Int, NEW n \in Nat, Has(s, n)
  PROVE  /\ Has(ThenTwo(s, a, b), n + 2)
         /\ \A k \in 1..n : ThenTwo(s, a, b)[k] = s[k]
         /\ ThenTwo(s, a, b)[n + 1] = a /\ ThenTwo(s, a, b)[n + 2] = b
  BY DEF ThenTwo, Has

\* Every digit is one.
LEMMA DigitIs ==
  ASSUME NEW val \in Int, NEW place \in {1, 10, 100, 1000}
  PROVE  Digit(val, place) \in Int /\ IsDigit(Digit(val, place))
  <1>1. CASE place = 1
    BY <1>1 DEF Digit, IsDigit
  <1>2. CASE place = 10
    BY <1>2 DEF Digit, IsDigit
  <1>3. CASE place = 100
    BY <1>3, SMT DEF Digit, IsDigit
  <1>4. CASE place = 1000
    BY <1>4, SMT DEF Digit, IsDigit
  <1> QED
    BY <1>1, <1>2, <1>3, <1>4

\* What digits spell.
LEMMA TwoSpell ==
  ASSUME NEW val, Short(val, 100)
  PROVE  10 * (Digit(val, 10) - 48) + (Digit(val, 1) - 48) = val
  BY SMT DEF Digit, Short

LEMMA FourSpell ==
  ASSUME NEW val, Short(val, 10000)
  PROVE  10 * (10 * (10 * (Digit(val, 1000) - 48) + (Digit(val, 100) - 48))
                 + (Digit(val, 10) - 48)) + (Digit(val, 1) - 48) = val
  BY SMT DEF Digit, Short

\* What the characters at two, or the first four, places spell: the recursion of
\* Spelled, unfolded.
LEMMA SpelledTwo ==
  ASSUME NEW text, NEW from \in Nat, NEW a \in Int, NEW b \in Int,
         text[from] = a, text[from + 1] = b
  PROVE  Spelled(text, from, from + 1) = 10 * (a - 48) + (b - 48)
  <1> DEFINE value[n \in (from - 1)..(from + 1)] ==
               IF n < from THEN 0 ELSE 10 * value[n - 1] + (text[n] - 48)
             g == [n \in (from - 1)..(from + 1) |->
                     IF n < from THEN 0
                     ELSE IF n = from THEN 10 * 0 + (a - 48)
                     ELSE 10 * (a - 48) + (b - 48)]
  <1>1. g = [n \in (from - 1)..(from + 1) |->
               IF n < from THEN 0 ELSE 10 * g[n - 1] + (text[n] - 48)]
    <2>1. g[from - 1] = 0 /\ g[from] = a - 48 /\ g[from + 1] = 10 * (a - 48) + (b - 48)
      OBVIOUS
    <2>2. ASSUME NEW n \in (from - 1)..(from + 1)
          PROVE  g[n] = IF n < from THEN 0 ELSE 10 * g[n - 1] + (text[n] - 48)
      <3> HIDE DEF g
      <3>1. CASE n = from - 1
        BY <2>1, <3>1
      <3>2. CASE n = from
        BY <2>1, <3>2
      <3>3. CASE n = from + 1
        <4>1. n - 1 = from /\ ~ (n < from)
          BY <3>3
        <4> QED
          BY <2>1, <3>3, <4>1
      <3> QED
        BY <3>1, <3>2, <3>3
    <2> QED
      BY <2>2
  <1>2. value = [n \in (from - 1)..(from + 1) |->
                   IF n < from THEN 0 ELSE 10 * value[n - 1] + (text[n] - 48)]
    <2> HIDE DEF g
    <2> QED
      BY <1>1, Zenon
  <1>3. Spelled(text, from, from + 1) = value[from + 1]
    BY Zenon DEF Spelled
  <1> HIDE DEF value, g
  <1>4. value[from - 1] = 0
    BY <1>2
  <1>5. value[from] = a - 48
    BY <1>2, <1>4
  <1>6. value[from + 1] = 10 * (a - 48) + (b - 48)
    <2>1. (from + 1) - 1 = from /\ ~ (from + 1 < from) /\ from + 1 \in (from - 1)..(from + 1)
      OBVIOUS
    <2>2. value[from + 1] = 10 * value[from] + (text[from + 1] - 48)
      BY <1>2, <2>1
    <2> QED
      BY <1>5, <2>2
  <1> QED
    BY <1>3, <1>6

LEMMA SpelledFour ==
  ASSUME NEW text, text[1] \in Int, text[2] \in Int, text[3] \in Int, text[4] \in Int
  PROVE  Spelled(text, 1, 4) =
           10 * (10 * (10 * (text[1] - 48) + (text[2] - 48)) + (text[3] - 48)) + (text[4] - 48)
  <1>0. PICK a \in Int, b \in Int, c \in Int, d \in Int :
          text[1] = a /\ text[2] = b /\ text[3] = c /\ text[4] = d
    OBVIOUS
  <1> DEFINE value[n \in (1 - 1)..4] ==
               IF n < 1 THEN 0 ELSE 10 * value[n - 1] + (text[n] - 48)
             g == [n \in (1 - 1)..4 |->
                     IF n < 1 THEN 0
                     ELSE IF n = 1 THEN a - 48
                     ELSE IF n = 2 THEN 10 * (a - 48) + (b - 48)
                     ELSE IF n = 3 THEN 10 * (10 * (a - 48) + (b - 48)) + (c - 48)
                     ELSE 10 * (10 * (10 * (a - 48) + (b - 48)) + (c - 48)) + (d - 48)]
  <1>1. g = [n \in (1 - 1)..4 |->
               IF n < 1 THEN 0 ELSE 10 * g[n - 1] + (text[n] - 48)]
    <2>1. /\ g[0] = 0 /\ g[1] = a - 48 /\ g[2] = 10 * (a - 48) + (b - 48)
          /\ g[3] = 10 * (10 * (a - 48) + (b - 48)) + (c - 48)
          /\ g[4] = 10 * (10 * (10 * (a - 48) + (b - 48)) + (c - 48)) + (d - 48)
      OBVIOUS
    <2>2. ASSUME NEW n \in (1 - 1)..4
          PROVE  g[n] = IF n < 1 THEN 0 ELSE 10 * g[n - 1] + (text[n] - 48)
      <3> HIDE DEF g
      <3>1. n = 0 \/ n = 1 \/ n = 2 \/ n = 3 \/ n = 4
        OBVIOUS
      <3> QED
        BY <1>0, <2>1, <3>1
    <2> QED
      BY <2>2
  <1>2. value = [n \in (1 - 1)..4 |->
                   IF n < 1 THEN 0 ELSE 10 * value[n - 1] + (text[n] - 48)]
    <2> HIDE DEF g
    <2> QED
      BY <1>1, Zenon
  <1>3. Spelled(text, 1, 4) = value[4]
    BY Zenon DEF Spelled
  <1> HIDE DEF value, g
  <1>4. value[0] = 0
    BY <1>2
  <1>5. value[1] = a - 48
    BY <1>0, <1>2, <1>4
  <1>6. value[2] = 10 * (a - 48) + (b - 48)
    BY <1>0, <1>2, <1>5
  <1>7. value[3] = 10 * (10 * (a - 48) + (b - 48)) + (c - 48)
    BY <1>0, <1>2, <1>6
  <1>8. value[4] = 10 * (10 * (10 * (a - 48) + (b - 48)) + (c - 48)) + (d - 48)
    BY <1>0, <1>2, <1>7
  <1> QED
    BY <1>0, <1>3, <1>8

\* What FormatTimestamp makes of a date and a time of day.
TextOfMoment(y, m, d, h, i, s) ==
  WriteDecimal4(y) \o <<45>> \o WriteDecimal2(m) \o <<45>> \o WriteDecimal2(d)
    \o <<32>> \o WriteDecimal2(h) \o <<58>> \o WriteDecimal2(i) \o <<58>>
    \o WriteDecimal2(s)

\* Every place of the text holds the digit it should, and they spell the parts.
LEMMA TextReads ==
  ASSUME NEW y, NEW m, NEW d, NEW h, NEW i, NEW s,
         Short(y, 10000), Short(m, 100), Short(d, 100),
         Short(h, 100), Short(i, 100), Short(s, 100), NEW text,
         text = TextOfMoment(y, m, d, h, i, s)
  PROVE  /\ \A n \in DigitPlaces : IsDigit(text[n])
         /\ Spelled(text, 1, 4) = y /\ Spelled(text, 6, 7) = m /\ Spelled(text, 9, 10) = d
         /\ Spelled(text, 12, 13) = h /\ Spelled(text, 15, 16) = i
         /\ Spelled(text, 18, 19) = s
  <1>1. \A val \in Int :
          /\ Digit(val, 1000) \in Int /\ IsDigit(Digit(val, 1000))
          /\ Digit(val, 100) \in Int /\ IsDigit(Digit(val, 100))
          /\ Digit(val, 10) \in Int /\ IsDigit(Digit(val, 10))
          /\ Digit(val, 1) \in Int /\ IsDigit(Digit(val, 1))
    BY DigitIs
  <1>2. y \in Int /\ m \in Int /\ d \in Int /\ h \in Int /\ i \in Int /\ s \in Int
    BY DEF Short
  <1> DEFINE y1 == Digit(y, 1000)  y2 == Digit(y, 100)  y3 == Digit(y, 10)  y4 == Digit(y, 1)
             m1 == Digit(m, 10)  m2 == Digit(m, 1)
             d1 == Digit(d, 10)  d2 == Digit(d, 1)
             h1 == Digit(h, 10)  h2 == Digit(h, 1)
             i1 == Digit(i, 10)  i2 == Digit(i, 1)
             s1 == Digit(s, 10)  s2 == Digit(s, 1)
  <1>3. y1 \in Int /\ y2 \in Int /\ y3 \in Int /\ y4 \in Int
    BY <1>1, <1>2
  <1>4. IsDigit(y1) /\ IsDigit(y2) /\ IsDigit(y3) /\ IsDigit(y4)
    BY <1>1, <1>2
  <1>5. /\ m1 \in Int /\ m2 \in Int /\ d1 \in Int /\ d2 \in Int
        /\ h1 \in Int /\ h2 \in Int /\ i1 \in Int /\ i2 \in Int
        /\ s1 \in Int /\ s2 \in Int
    BY <1>1, <1>2
  <1>6. /\ IsDigit(m1) /\ IsDigit(m2) /\ IsDigit(d1) /\ IsDigit(d2)
         /\ IsDigit(h1) /\ IsDigit(h2) /\ IsDigit(i1) /\ IsDigit(i2)
         /\ IsDigit(s1) /\ IsDigit(s2)
    BY <1>1, <1>2
  <1>7. \A val : Short(val, 100) => WriteDecimal2(val) = <<Digit(val, 10), Digit(val, 1)>>
    BY TwoDigits DEF Short
  <1>8. WriteDecimal4(y) = <<y1, y2, y3, y4>>
    BY FourDigits, SMT DEF Short
  <1>9. /\ WriteDecimal2(m) = <<m1, m2>> /\ WriteDecimal2(d) = <<d1, d2>>
        /\ WriteDecimal2(h) = <<h1, h2>> /\ WriteDecimal2(i) = <<i1, i2>>
        /\ WriteDecimal2(s) = <<s1, s2>>
    BY <1>7
  <1> HIDE DEF y1, y2, y3, y4, m1, m2, d1, d2, h1, h2, i1, i2, s1, s2
  <1> DEFINE t1 == <<y1, y2, y3, y4>>
             t2 == ThenOne(t1, 45)
             t3 == ThenTwo(t2, m1, m2)
             t4 == ThenOne(t3, 45)
             t5 == ThenTwo(t4, d1, d2)
             t6 == ThenOne(t5, 32)
             t7 == ThenTwo(t6, h1, h2)
             t8 == ThenOne(t7, 58)
             t9 == ThenTwo(t8, i1, i2)
             t10 == ThenOne(t9, 58)
             t11 == ThenTwo(t10, s1, s2)
  <1>10. text = t11
    BY <1>8, <1>9, SMT DEF TextOfMoment, ThenOne, ThenTwo
  <1>11. /\ text[1] = y1 /\ text[2] = y2 /\ text[3] = y3 /\ text[4] = y4
         /\ text[6] = m1 /\ text[7] = m2 /\ text[9] = d1 /\ text[10] = d2
         /\ text[12] = h1 /\ text[13] = h2 /\ text[15] = i1 /\ text[16] = i2
         /\ text[18] = s1 /\ text[19] = s2
    <2>1. /\ Has(t1, 4)
          /\ t1[1] = y1 /\ t1[2] = y2 /\ t1[3] = y3 /\ t1[4] = y4
      BY <1>3 DEF Has
    <2> HIDE DEF t1
    <2>2. /\ Has(t2, 5)
          /\ t2[1] = y1 /\ t2[2] = y2 /\ t2[3] = y3 /\ t2[4] = y4
      <3>1. t2 = ThenOne(t1, 45)
        OBVIOUS
      <3> HIDE DEF t2
      <3>2. /\ Has(t2, 5) /\ (\A k \in 1..4 : t2[k] = t1[k])
            /\ t2[5] = 45
        BY <2>1, <3>1, OneLonger
      <3> QED
        BY <2>1, <3>2
    <2> HIDE DEF t2
    <2>3. /\ Has(t3, 7)
          /\ t3[1] = y1 /\ t3[2] = y2 /\ t3[3] = y3 /\ t3[4] = y4 /\ t3[6] = m1
          /\ t3[7] = m2
      <3>1. t3 = ThenTwo(t2, m1, m2)
        OBVIOUS
      <3> HIDE DEF t3
      <3>2. /\ Has(t3, 7) /\ (\A k \in 1..5 : t3[k] = t2[k])
            /\ t3[6] = m1 /\ t3[7] = m2
        BY <1>5, <2>2, <3>1, TwoLonger
      <3> QED
        BY <2>2, <3>2
    <2> HIDE DEF t3
    <2>4. /\ Has(t4, 8)
          /\ t4[1] = y1 /\ t4[2] = y2 /\ t4[3] = y3 /\ t4[4] = y4 /\ t4[6] = m1
          /\ t4[7] = m2
      <3>1. t4 = ThenOne(t3, 45)
        OBVIOUS
      <3> HIDE DEF t4
      <3>2. /\ Has(t4, 8) /\ (\A k \in 1..7 : t4[k] = t3[k])
            /\ t4[8] = 45
        BY <2>3, <3>1, OneLonger
      <3> QED
        BY <2>3, <3>2
    <2> HIDE DEF t4
    <2>5. /\ Has(t5, 10)
          /\ t5[1] = y1 /\ t5[2] = y2 /\ t5[3] = y3 /\ t5[4] = y4 /\ t5[6] = m1
          /\ t5[7] = m2 /\ t5[9] = d1 /\ t5[10] = d2
      <3>1. t5 = ThenTwo(t4, d1, d2)
        OBVIOUS
      <3> HIDE DEF t5
      <3>2. /\ Has(t5, 10) /\ (\A k \in 1..8 : t5[k] = t4[k])
            /\ t5[9] = d1 /\ t5[10] = d2
        BY <1>5, <2>4, <3>1, TwoLonger
      <3> QED
        BY <2>4, <3>2
    <2> HIDE DEF t5
    <2>6. /\ Has(t6, 11)
          /\ t6[1] = y1 /\ t6[2] = y2 /\ t6[3] = y3 /\ t6[4] = y4 /\ t6[6] = m1
          /\ t6[7] = m2 /\ t6[9] = d1 /\ t6[10] = d2
      <3>1. t6 = ThenOne(t5, 32)
        OBVIOUS
      <3> HIDE DEF t6
      <3>2. /\ Has(t6, 11) /\ (\A k \in 1..10 : t6[k] = t5[k])
            /\ t6[11] = 32
        BY <2>5, <3>1, OneLonger
      <3> QED
        BY <2>5, <3>2
    <2> HIDE DEF t6
    <2>7. /\ Has(t7, 13)
          /\ t7[1] = y1 /\ t7[2] = y2 /\ t7[3] = y3 /\ t7[4] = y4 /\ t7[6] = m1
          /\ t7[7] = m2 /\ t7[9] = d1 /\ t7[10] = d2 /\ t7[12] = h1 /\ t7[13] = h2
      <3>1. t7 = ThenTwo(t6, h1, h2)
        OBVIOUS
      <3> HIDE DEF t7
      <3>2. /\ Has(t7, 13) /\ (\A k \in 1..11 : t7[k] = t6[k])
            /\ t7[12] = h1 /\ t7[13] = h2
        BY <1>5, <2>6, <3>1, TwoLonger
      <3> QED
        BY <2>6, <3>2
    <2> HIDE DEF t7
    <2>8. /\ Has(t8, 14)
          /\ t8[1] = y1 /\ t8[2] = y2 /\ t8[3] = y3 /\ t8[4] = y4 /\ t8[6] = m1
          /\ t8[7] = m2 /\ t8[9] = d1 /\ t8[10] = d2 /\ t8[12] = h1 /\ t8[13] = h2
      <3>1. t8 = ThenOne(t7, 58)
        OBVIOUS
      <3> HIDE DEF t8
      <3>2. /\ Has(t8, 14) /\ (\A k \in 1..13 : t8[k] = t7[k])
            /\ t8[14] = 58
        BY <2>7, <3>1, OneLonger
      <3> QED
        BY <2>7, <3>2
    <2> HIDE DEF t8
    <2>9. /\ Has(t9, 16)
          /\ t9[1] = y1 /\ t9[2] = y2 /\ t9[3] = y3 /\ t9[4] = y4 /\ t9[6] = m1
          /\ t9[7] = m2 /\ t9[9] = d1 /\ t9[10] = d2 /\ t9[12] = h1 /\ t9[13] = h2
          /\ t9[15] = i1 /\ t9[16] = i2
      <3>1. t9 = ThenTwo(t8, i1, i2)
        OBVIOUS
      <3> HIDE DEF t9
      <3>2. /\ Has(t9, 16) /\ (\A k \in 1..14 : t9[k] = t8[k])
            /\ t9[15] = i1 /\ t9[16] = i2
        BY <1>5, <2>8, <3>1, TwoLonger
      <3> QED
        BY <2>8, <3>2
    <2> HIDE DEF t9
    <2>10. /\ Has(t10, 17)
           /\ t10[1] = y1 /\ t10[2] = y2 /\ t10[3] = y3 /\ t10[4] = y4 /\ t10[6] = m1
           /\ t10[7] = m2 /\ t10[9] = d1 /\ t10[10] = d2 /\ t10[12] = h1 /\ t10[13] = h2
           /\ t10[15] = i1 /\ t10[16] = i2
      <3>1. t10 = ThenOne(t9, 58)
        OBVIOUS
      <3> HIDE DEF t10
      <3>2. /\ Has(t10, 17) /\ (\A k \in 1..16 : t10[k] = t9[k])
            /\ t10[17] = 58
        BY <2>9, <3>1, OneLonger
      <3> QED
        BY <2>9, <3>2
    <2> HIDE DEF t10
    <2>11. /\ Has(t11, 19)
           /\ t11[1] = y1 /\ t11[2] = y2 /\ t11[3] = y3 /\ t11[4] = y4 /\ t11[6] = m1
           /\ t11[7] = m2 /\ t11[9] = d1 /\ t11[10] = d2 /\ t11[12] = h1 /\ t11[13] = h2
           /\ t11[15] = i1 /\ t11[16] = i2 /\ t11[18] = s1 /\ t11[19] = s2
      <3>1. t11 = ThenTwo(t10, s1, s2)
        OBVIOUS
      <3> HIDE DEF t11
      <3>2. /\ Has(t11, 19) /\ (\A k \in 1..17 : t11[k] = t10[k])
            /\ t11[18] = s1 /\ t11[19] = s2
        BY <1>5, <2>10, <3>1, TwoLonger
      <3> QED
        BY <2>10, <3>2
    <2> QED
      BY <1>10, <2>11
  <1>12. \A n \in DigitPlaces : IsDigit(text[n])
    <2>1. \A n \in DigitPlaces : n \in {1, 2, 3, 4, 6, 7, 9, 10, 12, 13, 15, 16, 18, 19}
      BY DEF DigitPlaces
    <2> QED
      BY <1>4, <1>6, <1>11, <2>1
  <1>13. Spelled(text, 1, 4) = y
    <2>1. Spelled(text, 1, 4)
            = 10 * (10 * (10 * (y1 - 48) + (y2 - 48)) + (y3 - 48)) + (y4 - 48)
      BY <1>3, <1>11, SpelledFour
    <2> QED
      BY <2>1, FourSpell, SMT DEF y1, y2, y3, y4
  <1>14. Spelled(text, 6, 7) = m
    <2>1. Spelled(text, 6, 6 + 1) = 10 * (m1 - 48) + (m2 - 48)
      BY <1>5, <1>11, SpelledTwo
    <2> QED
      BY <2>1, TwoSpell DEF m1, m2
  <1>15. Spelled(text, 9, 10) = d
    <2>1. Spelled(text, 9, 9 + 1) = 10 * (d1 - 48) + (d2 - 48)
      BY <1>5, <1>11, SpelledTwo
    <2> QED
      BY <2>1, TwoSpell DEF d1, d2
  <1>16. Spelled(text, 12, 13) = h
    <2>1. Spelled(text, 12, 12 + 1) = 10 * (h1 - 48) + (h2 - 48)
      BY <1>5, <1>11, SpelledTwo
    <2> QED
      BY <2>1, TwoSpell DEF h1, h2
  <1>17. Spelled(text, 15, 16) = i
    <2>1. Spelled(text, 15, 15 + 1) = 10 * (i1 - 48) + (i2 - 48)
      BY <1>5, <1>11, SpelledTwo
    <2> QED
      BY <2>1, TwoSpell DEF i1, i2
  <1>18. Spelled(text, 18, 19) = s
    <2>1. Spelled(text, 18, 18 + 1) = 10 * (s1 - 48) + (s2 - 48)
      BY <1>5, <1>11, SpelledTwo
    <2> QED
      BY <2>1, TwoSpell DEF s1, s2
  <1> QED
    BY <1>12, <1>13, <1>14, <1>15, <1>16, <1>17, <1>18

\* For every day of a year with four digits, and every moment of it: the text that
\* members sign determines the date and the time it was made from.
THEOREM TimesAreReadBack == ShownInTwo => (Spec => []TextDeterminesTime)
  <1> SUFFICES ASSUME ShownInTwo
               PROVE  Spec => []TextDeterminesTime
    OBVIOUS
  <1>1. InStep => TextDeterminesTime
    <2> SUFFICES ASSUME InStep, ShownInFour(date.year), NEW x \in 0..(SECS_PER_DAY - 1),
                        NEW ts, ts = day * SECS_PER_DAY + x
                 PROVE  ReadsBack(ts)
      BY Zenon DEF TextDeterminesTime, Moments
    <2>1. day \in Int /\ date = CivilDate(day)
      BY Zenon DEF InStep
    <2>2. x \in Int /\ x >= 0 /\ x < SECS_PER_DAY
      BY ClockAssumption
    <2>3. DaySecs(ts) = x /\ Days(ts) = day
      BY <2>1, <2>2, MomentOfDay
    <2>4. PICK h, i, s : TimeOfDay(ts) = [hour |-> h, minute |-> i, second |-> s]
      BY Zenon DEF TimeOfDay
    <2>5. Short(h, 100) /\ Short(i, 100) /\ Short(s, 100)
      <3>1. TimeOfDay(ts).hour = h /\ TimeOfDay(ts).minute = i /\ TimeOfDay(ts).second = s
        BY <2>4
      <3>2. LET t == TimeOfDay(ts)
            IN  Short(t.hour, 100) /\ Short(t.minute, 100) /\ Short(t.second, 100)
        BY <2>2, <2>3, TimeIsShort
      <3> QED
        BY <3>1, <3>2
    <2>6. Valid(date)
      BY <2>1, NextDay
    <2>7. PICK y, m, d : date = [year |-> y, month |-> m, day |-> d]
      BY <2>6, DateIsShort
    <2>8. date.year = y /\ date.month = m /\ date.day = d
      BY <2>7
    <2>9. Short(y, 10000) /\ Short(m, 100) /\ Short(d, 100)
      <3>1. ShownInFour(y)
        BY <2>8, Zenon
      <3>2. Short(y, 10000)
        BY <3>1, YearIsShort, SMT
      <3> QED
        BY <2>6, <2>8, <3>2, DateIsShort
    <2>10. FormatTimestamp(ts) = TextOfMoment(y, m, d, h, i, s)
      <3>1. /\ CivilDate(Days(ts)).year = y /\ CivilDate(Days(ts)).month = m
            /\ CivilDate(Days(ts)).day = d
        BY <2>1, <2>3, <2>8
      <3>2. TimeOfDay(ts).hour = h /\ TimeOfDay(ts).minute = i /\ TimeOfDay(ts).second = s
        BY <2>4
      <3> QED
        BY <3>1, <3>2 DEF FormatTimestamp, TextOfMoment
    <2> DEFINE text == FormatTimestamp(ts)
    <2>11. /\ \A n \in DigitPlaces : IsDigit(text[n])
           /\ Spelled(text, 1, 4) = y /\ Spelled(text, 6, 7) = m /\ Spelled(text, 9, 10) = d
           /\ Spelled(text, 12, 13) = h /\ Spelled(text, 15, 16) = i
           /\ Spelled(text, 18, 19) = s
      <3> HIDE DEF text
      <3>1. text = TextOfMoment(y, m, d, h, i, s)
        BY <2>10 DEF text
      <3> QED
        BY <2>5, <2>9, <3>1, TextReads
    <2> QED
      BY <2>1, <2>4, <2>7, <2>11, Zenon DEF ReadsBack
  <1> QED
    BY <1>1, InStepInit, InStepStep, PTL DEF Spec

=============================================================================
