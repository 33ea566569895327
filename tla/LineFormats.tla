---------------------------- MODULE LineFormats ----------------------------
(***************************************************************************)
(* The conversions a log line goes through: the CSV row and the UTF-8      *)
(* check of archive_parser.cpp and the times of time_utils.cpp.            *)
(*                                                                         *)
(* A definition placed directly above another under a name that extends    *)
(* its name is a faulty variant of it, used only to show that a property   *)
(* notices the fault.                                                      *)
(***************************************************************************)
EXTENDS Integers, Sequences, FiniteSets, SequencesExt, FiniteSetsExt

\* The bytes of a text that the parsers tell apart.
Comma == [k |-> "comma"]
Quote == [k |-> "quote"]

\* The members of a set of numbers, smallest first.
Ascending(S) ==
  [j \in 1..Cardinality(S) |-> CHOOSE x \in S : Cardinality({y \in S : y < x}) = j - 1]

-----------------------------------------------------------------------------
(* parseCsvRow.                                                            *)

CsvStart == [fields |-> <<>>, field |-> <<>>, quoted |-> FALSE, closed |-> FALSE,
             skip |-> FALSE, ok |-> TRUE]

\* One round of the loop; skip is the second quote of a doubled one.
CsvByteClosed(st, text, i) ==
  LET b == text[i] IN
  CASE ~st.ok -> st
    [] st.quoted /\ b = Quote -> [st EXCEPT !.quoted = FALSE, !.closed = TRUE]
    [] st.quoted -> [st EXCEPT !.field = Append(@, b)]
    [] b = Comma -> [st EXCEPT !.fields = Append(@, st.field), !.field = <<>>, !.closed = FALSE]
    [] st.closed -> [st EXCEPT !.ok = FALSE]
    [] b = Quote -> [st EXCEPT !.quoted = TRUE, !.ok = st.field = <<>>]
    [] OTHER -> [st EXCEPT !.field = Append(@, b)]
CsvByte(st, text, i) ==
  LET b == text[i] IN
  CASE ~st.ok -> st
    [] st.skip -> [st EXCEPT !.skip = FALSE]
    [] st.quoted /\ b = Quote ->
         IF i < Len(text) /\ text[i + 1] = Quote
         THEN [st EXCEPT !.field = Append(@, Quote), !.skip = TRUE]
         ELSE [st EXCEPT !.quoted = FALSE, !.closed = TRUE]
    [] st.quoted -> [st EXCEPT !.field = Append(@, b)]
    [] b = Comma -> [st EXCEPT !.fields = Append(@, st.field), !.field = <<>>, !.closed = FALSE]
    [] st.closed -> [st EXCEPT !.ok = FALSE]
    [] b = Quote -> [st EXCEPT !.quoted = TRUE, !.ok = st.field = <<>>]
    [] OTHER -> [st EXCEPT !.field = Append(@, b)]

\* The fields of a row, as the only member of a set, or no member.
ParseCsvRow(text) ==
  LET end == FoldLeft(LAMBDA st, i : CsvByte(st, text, i), CsvStart, [i \in 1..Len(text) |-> i])
  IN IF end.ok /\ ~end.quoted THEN {Append(end.fields, end.field)} ELSE {}

-----------------------------------------------------------------------------
(* validUtf8.                                                              *)

SequenceLength(first) ==
  CASE first <= 127 -> 1
    [] first \in 194..223 -> 2
    [] first \in 224..239 -> 3
    [] first \in 240..244 -> 4
    [] OTHER -> 0

\* The code point of a sequence whose first byte is first.
CodePoint(bytes) ==
  LET lead == CASE Len(bytes) = 1 -> bytes[1]
                [] Len(bytes) = 2 -> bytes[1] % 32
                [] Len(bytes) = 3 -> bytes[1] % 16
                [] OTHER -> bytes[1] % 8
  IN FoldLeft(LAMBDA cp, b : (cp * 64) + (b % 64), lead, Tail(bytes))

Allowed(bytes) ==
  ~(\/ Len(bytes) = 3 /\ CodePoint(bytes) < 2048
    \/ Len(bytes) = 4 /\ CodePoint(bytes) < 65536
    \/ CodePoint(bytes) \in 55296..57343 \/ CodePoint(bytes) > 1114111)

ValidUtf8(text) ==
  LET valid[i \in 1..Len(text) + 1] ==
        \/ i = Len(text) + 1
        \/ LET n == SequenceLength(text[i]) IN
           /\ n # 0 /\ i + n <= Len(text) + 1
           /\ \A j \in i + 1 .. i + n - 1 : text[j] \in 128..191
           /\ Allowed(SubSeq(text, i, i + n - 1))
           /\ valid[i + n]
  IN valid[1]

-----------------------------------------------------------------------------
(* Times.  An instant is the day since 1970, rounded down, the second of   *)
(* that day and the millisecond of that second.                            *)

Leap(y) == y % 4 = 0 /\ (y % 100 # 0 \/ y % 400 = 0)
MonthLength(y, m) ==
  CASE m \in {4, 6, 9, 11} -> 30 [] m = 2 -> IF Leap(y) THEN 29 ELSE 28 [] OTHER -> 31
LeapsBefore(y) == (y - 1) \div 4 - (y - 1) \div 100 + (y - 1) \div 400
DaysBeforeYear(y) == 365 * (y - 1970) + LeapsBefore(y) - LeapsBefore(1970)
DaysBeforeMonth(y, m) == FoldLeft(LAMBDA n, k : n + MonthLength(y, k), 0, [k \in 1..m - 1 |-> k])

\* timegm: fields out of range carry over.
Timegm(c) ==
  LET y == c.year + ((c.month - 1) \div 12)
      m == ((c.month - 1) % 12) + 1
      secs == 3600 * c.hour + 60 * c.minute + c.second
  IN [day |-> DaysBeforeYear(y) + DaysBeforeMonth(y, m) + c.day - 1 + (secs \div 86400),
      sec |-> secs % 86400]

\* The time_t n seconds later; |n| is at most a day.
Later(t, n) == [day |-> t.day + ((t.sec + n) \div 86400), sec |-> (t.sec + n) % 86400]

\* gmtime_r.
Gmtime(t) ==
  LET guesses == {1970 + (t.day \div 365), 1970 + (t.day \div 366)}
      y == CHOOSE v \in Min(guesses) - 1 .. Max(guesses) + 1 :
             DaysBeforeYear(v) <= t.day /\ t.day < DaysBeforeYear(v + 1)
      yday == t.day - DaysBeforeYear(y)
      m == CHOOSE v \in 1..12 :
             DaysBeforeMonth(y, v) <= yday /\ yday < DaysBeforeMonth(y, v) + MonthLength(y, v)
  IN [year |-> y, month |-> m, day |-> yday - DaysBeforeMonth(y, m) + 1,
      hour |-> t.sec \div 3600, minute |-> (t.sec % 3600) \div 60, second |-> t.sec % 60]

Civil(c) == [year |-> c.year, month |-> c.month, day |-> c.day, hour |-> c.hour,
             minute |-> c.minute, second |-> c.second]
ValidCalendarTime(c) == Gmtime(Timegm(c)) = Civil(c)

ValidOffset(z) ==
  z.hours <= 14 /\ z.minutes <= 59 /\ ~(z.hours = 14 /\ z.minutes # 0)
OffsetSeconds(z) == (IF z.sign = "-" THEN -60 ELSE 60) * (z.hours * 60 + z.minutes)

Instant(c) ==
  LET t == Later(Timegm(c), -OffsetSeconds(c.zone)) IN [day |-> t.day, sec |-> t.sec, ms |-> c.ms]

\* parseIso8601Milliseconds: the instant in a set, or no member.  The pattern
\* asks for four digits of the year and three of the milliseconds.
ParseIso(c) ==
  IF c.ms \in 0..999 /\ c.digits = 4 /\ ValidCalendarTime(c) /\ ValidOffset(c.zone)
  THEN {Instant(c)} ELSE {}

Utc == [sign |-> "+", hours |-> 0, minutes |-> 0]

\* How many characters %Y of strftime prints a year with: glibc does not
\* fill it up to four.
YearDigits(y) ==
  IF y < 0 THEN 2 ELSE IF y < 10 THEN 1 ELSE IF y < 100 THEN 2
  ELSE IF y < 1000 THEN 3 ELSE IF y < 10000 THEN 4 ELSE 5

\* formatUtcMilliseconds.  C divides towards zero, so that before 1970 the
\* second is the next one and the milliseconds are negative.
FormatUtc(t) ==
  LET below == t.day < 0 /\ t.ms > 0
      c == Gmtime(IF below THEN Later(t, 1) ELSE t)
  IN [year |-> c.year, digits |-> YearDigits(c.year), month |-> c.month, day |-> c.day,
      hour |-> c.hour, minute |-> c.minute, second |-> c.second,
      ms |-> IF below THEN t.ms - 1000 ELSE t.ms, zone |-> Utc]

\* The instants that are read back as they were printed.
Legible(t) ==
  (t.day >= 0 \/ t.ms = 0) /\ DaysBeforeYear(1000) <= t.day /\ t.day < DaysBeforeYear(10000)
=============================================================================
