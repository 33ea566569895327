-------------------------- MODULE LineFormatsCheck --------------------------
(***************************************************************************)
(* The conversions of LineFormats against reference definitions, over all  *)
(* short texts and over times at the edges of the calendar.                *)
(***************************************************************************)
EXTENDS LineFormats

CONSTANTS
  CsvBytes, MaxCsv,      \* bytes and length of CSV texts
  Utf8Bytes, MaxUtf8,    \* bytes and length of UTF-8 texts
  Times                  \* times in the format of ISO 8601

VARIABLES csv, utf8, time

samples == <<csv, utf8, time>>

NoTime == [year |-> 1970, digits |-> 4, month |-> 1, day |-> 1, hour |-> 0, minute |-> 0, second |-> 0,
           ms |-> 0, zone |-> Utc]
NoSample == csv = <<>> /\ utf8 = <<>> /\ time = NoTime

\* One symbol more, or a time.
NextSample ==
  \/ /\ utf8 = <<>> /\ time = NoTime /\ Len(csv) < MaxCsv
     /\ \E b \in CsvBytes : csv' = Append(csv, b)
     /\ UNCHANGED <<utf8, time>>
  \/ /\ csv = <<>> /\ time = NoTime /\ Len(utf8) < MaxUtf8
     /\ \E b \in Utf8Bytes : utf8' = Append(utf8, b)
     /\ UNCHANGED <<csv, time>>
  \/ /\ NoSample /\ time' \in Times
     /\ UNCHANGED <<csv, utf8>>

-----------------------------------------------------------------------------
(* A CSV cell is a text without commas and quotes, or a text in quotes     *)
(* whose own quotes are doubled; a row is cells with commas between them.  *)

Unquoted(s) == \A i \in DOMAIN s : s[i] \notin {Comma, Quote}
\* How many quotes stand directly before position i.
QuotesBefore(s, i) ==
  LET run == {j \in 0..i - 1 : \A k \in j + 1 .. i - 1 : s[k] = Quote} IN i - 1 - Min(run)
Doubled(s) ==
  \A i \in DOMAIN s : s[i] = Quote /\ (i = Len(s) \/ s[i + 1] # Quote) => QuotesBefore(s, i) % 2 = 1
Undoubled(s) ==
  LET kept == {i \in DOMAIN s : s[i] = Quote => QuotesBefore(s, i) % 2 = 0}
      order == Ascending(kept)
  IN [i \in DOMAIN order |-> s[order[i]]]
Inner(s) == SubSeq(s, 2, Len(s) - 1)
Cell(s) ==
  \/ Unquoted(s)
  \/ Len(s) >= 2 /\ s[1] = Quote /\ s[Len(s)] = Quote /\ Doubled(Inner(s))
CellValue(s) == IF Unquoted(s) THEN s ELSE Undoubled(Inner(s))

\* The rows a text can be read as.
Rows(text) ==
  LET commas == {i \in DOMAIN text : text[i] = Comma}
      cut(C) == LET at == Ascending(C \cup {0, Len(text) + 1})
                IN [j \in 1..Len(at) - 1 |-> SubSeq(text, at[j] + 1, at[j + 1] - 1)]
      rows == {cut(C) : C \in SUBSET commas}
  IN {[j \in DOMAIN r |-> CellValue(r[j])] : r \in {q \in rows : \A j \in DOMAIN q : Cell(q[j])}}

\* parseCsvRow accepts exactly the rows, and returns the values of their cells.
CsvIsReference == ParseCsvRow(csv) = Rows(csv)

\* The sequences RFC 3629 allows, as its grammar lists them.
Tails(bytes) == \A i \in DOMAIN bytes : bytes[i] \in 128..191
Encoding(b) ==
  \/ Len(b) = 1 /\ b[1] \in 0..127
  \/ Len(b) = 2 /\ b[1] \in 194..223 /\ Tails(Tail(b))
  \/ Len(b) = 3 /\ Tails(Tail(b))
     /\ \/ b[1] = 224 /\ b[2] \in 160..191
        \/ b[1] \in 225..236 \cup 238..239
        \/ b[1] = 237 /\ b[2] \in 128..159
  \/ Len(b) = 4 /\ Tails(Tail(b))
     /\ \/ b[1] = 240 /\ b[2] \in 144..191
        \/ b[1] \in 241..243
        \/ b[1] = 244 /\ b[2] \in 128..143

\* validUtf8 accepts exactly the concatenations of allowed sequences: no
\* overlong forms, no surrogates, nothing cut off.
Utf8IsReference ==
  LET ends[i \in 0..Len(utf8)] ==
        i = 0 \/ \E n \in 1..4 : n <= i /\ Encoding(SubSeq(utf8, i - n + 1, i)) /\ ends[i - n]
  IN ValidUtf8(utf8) <=> ends[Len(utf8)]

\* parseIso8601Milliseconds accepts exactly the dates of the calendar with an
\* offset of at most fourteen hours, although timegm carries wrong fields over.
TimeIsReference ==
  ParseIso(time) # {} <=>
    /\ time.month \in 1..12 /\ time.day \in 1..MonthLength(time.year, time.month)
    /\ time.hour \in 0..23 /\ time.minute \in 0..59 /\ time.second \in 0..59
    /\ time.zone.minutes <= 59 /\ time.zone.hours * 60 + time.zone.minutes <= 14 * 60

\* A time that is accepted and formatted in UTC is read again exactly when it
\* is a whole second or after 1970 and its year in UTC has four digits, and it
\* is the same instant then.
TimeRoundTrip ==
  \A t \in ParseIso(time) : ParseIso(FormatUtc(t)) = IF Legible(t) THEN {t} ELSE {}

\* Each conversion gives what its reference definition says.
FormatsAreReference == CsvIsReference /\ Utf8IsReference /\ TimeIsReference /\ TimeRoundTrip
=============================================================================
