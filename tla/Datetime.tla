------------------------------ MODULE Datetime ------------------------------
(***************************************************************************)
(* utils/datetime.rs: how the expiry of a message is rendered, checked     *)
(* against a calendar that is turned one day at a time.                    *)
(***************************************************************************)
EXTENDS Integers, Sequences

CONSTANTS
  SECS_PER_DAY, SECS_PER_HOUR, SECS_PER_MIN,  \* 86400, 3600 and 60 in the code
  Eras,      \* which 400-year eras around 1970 to start in
  Horizon    \* bound: days walked from the start, either way

VARIABLES
  day,       \* days since 1970-01-01
  date,      \* the date of that day, by the calendar
  walked     \* days walked from the start

vars == <<day, date, walked>>

ASSUME ClockAssumption ==
  /\ SECS_PER_MIN \in Nat \ {0}
  /\ SECS_PER_HOUR \in Nat \ {0} /\ SECS_PER_HOUR % SECS_PER_MIN = 0
  /\ SECS_PER_DAY \in Nat \ {0} /\ SECS_PER_DAY % SECS_PER_HOUR = 0
  /\ Eras \subseteq Int /\ Horizon \in Nat

(***************************************************************************)
(* The code.  Division and remainder of i64 round towards zero.            *)
(***************************************************************************)
TruncDiv(a, b) == IF a >= 0 THEN a \div b ELSE -((-a) \div b)
TruncRem(a, b) == a - b * TruncDiv(a, b)

DaySecs(ts) == TruncRem(TruncRem(ts, SECS_PER_DAY) + SECS_PER_DAY, SECS_PER_DAY)

Days(ts) ==
  TruncDiv(ts, SECS_PER_DAY) - (IF ts < 0 /\ DaySecs(ts) > 0 THEN 1 ELSE 0)

\* Mutant: the centuries' missing leap days are forgotten.
YearOfEraJulian(doe) == (doe - doe \div 1460 - doe \div 146096) \div 365

YearOfEra(doe) ==
  (doe - doe \div 1460 + doe \div 36524 - doe \div 146096) \div 365

\* Years begin in March: 719468 days lie between 0000-03-01 and 1970-01-01.
CivilDate(days) ==
  LET shifted == days + 719468
      era == TruncDiv(IF shifted >= 0 THEN shifted ELSE shifted - 146096, 146097)
      doe == shifted - era * 146097
      yoe == YearOfEra(doe)
      doy == doe - (365 * yoe + yoe \div 4 - yoe \div 100)
      mp  == (5 * doy + 2) \div 153
      m   == IF mp < 10 THEN mp + 3 ELSE mp - 9
  IN  [year  |-> yoe + era * 400 + (IF m <= 2 THEN 1 ELSE 0),
       month |-> m,
       day   |-> doy - (153 * mp + 2) \div 5 + 1]

TimeOfDay(ts) ==
  [hour   |-> DaySecs(ts) \div SECS_PER_HOUR,
   minute |-> (DaySecs(ts) % SECS_PER_HOUR) \div SECS_PER_MIN,
   second |-> DaySecs(ts) % SECS_PER_MIN]

\* b'0' + val as u8, without overflow checks.
Char(val) == (48 + (val % 256)) % 256

WriteDecimal2(val) == <<Char(val \div 10), Char(val % 10)>>

\* Mutant: the hundreds are not reduced modulo 10.
WriteDecimal4Raw(val) ==
  <<Char(val \div 1000), Char(val \div 100), Char((val \div 10) % 10), Char(val % 10)>>

WriteDecimal4(val) ==
  <<Char(val \div 1000), Char((val \div 100) % 10), Char((val \div 10) % 10), Char(val % 10)>>

\* "YYYY-MM-DD HH:MM:SS", for a year that is not negative.
FormatTimestamp(ts) ==
  LET d == CivilDate(Days(ts))
      t == TimeOfDay(ts)
  IN  WriteDecimal4(d.year) \o <<45>> \o WriteDecimal2(d.month) \o <<45>>
        \o WriteDecimal2(d.day) \o <<32>> \o WriteDecimal2(t.hour) \o <<58>>
        \o WriteDecimal2(t.minute) \o <<58>> \o WriteDecimal2(t.second)

(***************************************************************************)
(* The text that a client signs: bench/src/helpers.rs computes the date    *)
(* and the time in the same way, and leaves the digits to format!.         *)
(***************************************************************************)

\* Mutant: "{val}", without the zeros in front.
Unpadded(val, width) ==
  LET len == CHOOSE k \in 1..9 : val < 10^k /\ (k > 1 => val >= 10^(k - 1))
  IN  [n \in 1..len |-> 48 + ((val \div 10^(len - n)) % 10)]

\* "{val:0width}", of a value that is not negative: as many digits as it takes.
Padded(val, width) ==
  LET len == CHOOSE k \in width..9 : val < 10^k /\ (k > width => val >= 10^(k - 1))
  IN  [n \in 1..len |-> 48 + ((val \div 10^(len - n)) % 10)]

ClientTimestamp(ts) ==
  LET d == CivilDate(Days(ts))
      t == TimeOfDay(ts)
  IN  Padded(d.year, 4) \o <<45>> \o Padded(d.month, 2) \o <<45>> \o Padded(d.day, 2)
        \o <<32>> \o Padded(t.hour, 2) \o <<58>> \o Padded(t.minute, 2)
        \o <<58>> \o Padded(t.second, 2)

(***************************************************************************)
(* The calendar, by its rules.                                             *)
(***************************************************************************)
IsLeap(year) == year % 4 = 0 /\ (year % 100 = 0 => year % 400 = 0)

DaysIn(year, month) ==
  CASE month \in {4, 6, 9, 11} -> 30
    [] month = 2 -> IF IsLeap(year) THEN 29 ELSE 28
    [] OTHER -> 31

After(d) ==
  CASE d.day < DaysIn(d.year, d.month) -> [d EXCEPT !.day = @ + 1]
    [] d.day = DaysIn(d.year, d.month) /\ d.month < 12 ->
         [d EXCEPT !.month = @ + 1, !.day = 1]
    [] OTHER -> [year |-> d.year + 1, month |-> 1, day |-> 1]

Before(d) ==
  CASE d.day > 1 -> [d EXCEPT !.day = @ - 1]
    [] d.day = 1 /\ d.month > 1 ->
         [d EXCEPT !.month = @ - 1, !.day = DaysIn(d.year, d.month - 1)]
    [] OTHER -> [year |-> d.year - 1, month |-> 12, day |-> 31]

\* 400 years are 146097 days and repeat.
Init ==
  /\ \E e \in Eras : /\ day = e * 146097
                     /\ date = [year |-> 1970 + 400 * e, month |-> 1, day |-> 1]
  /\ walked = 0

Forward ==
  /\ walked \in 0..(Horizon - 1)
  /\ day' = day + 1 /\ date' = After(date) /\ walked' = walked + 1

Backward ==
  /\ -walked \in 0..(Horizon - 1)
  /\ day' = day - 1 /\ date' = Before(date) /\ walked' = walked - 1

Next == Forward \/ Backward

Spec == Init /\ [][Next]_vars

(***************************************************************************)
(* Properties                                                              *)
(***************************************************************************)

\* The moments of the day the walk is at.
Moments == {day * SECS_PER_DAY + s : s \in 0..(SECS_PER_DAY - 1)}

\* timestamp_to_parts agrees with the calendar at every moment, across leap
\* years, centuries, eras and the epoch, and never falls into a neighbouring day.
PartsAreTheDate ==
  \A ts \in Moments :
    /\ CivilDate(Days(ts)) = date
    /\ LET t == TimeOfDay(ts)
       IN  ts - day * SECS_PER_DAY
             = t.hour * SECS_PER_HOUR + t.minute * SECS_PER_MIN + t.second

IsDigit(c) == c \in 48..57

\* What two, or four, characters spell.
Spelled(text, from, to) ==
  LET value[n \in (from - 1)..to] ==
        IF n < from THEN 0 ELSE 10 * value[n - 1] + (text[n] - 48)
  IN  value[to]

DigitPlaces == (1..19) \ {5, 8, 11, 14, 17}

\* datetime.rs:1 says that a timestamp is formatted as "YYYY-MM-DD HH:MM:SS".
TextIsADate ==
  \A ts \in Moments : \A n \in DigitPlaces : IsDigit(FormatTimestamp(ts)[n])

\* As far as four digits go.
ShownInFour(year) == year \in 0..9999

\* A client that renders the expiry with format! and the program, which does it
\* by hand, arrive at the same text while the year has four digits: otherwise no
\* signature of the client's would ever verify.
ClientSignsTheSameText ==
  ShownInFour(date.year) => \A ts \in Moments : ClientTimestamp(ts) = FormatTimestamp(ts)

ReadsBack(ts) ==
  LET text == FormatTimestamp(ts)
  IN  /\ \A n \in DigitPlaces : IsDigit(text[n])
      /\ [year  |-> Spelled(text, 1, 4),
          month |-> Spelled(text, 6, 7),
          day   |-> Spelled(text, 9, 10)] = date
      /\ [hour |-> Spelled(text, 12, 13), minute |-> Spelled(text, 15, 16),
          second |-> Spelled(text, 18, 19)] = TimeOfDay(ts)

\* While the year has four digits, the text that members sign can be read back as
\* the date it was made from, so that two expiries never look the same.
TextDeterminesTime == ShownInFour(date.year) => \A ts \in Moments : ReadsBack(ts)

=============================================================================
