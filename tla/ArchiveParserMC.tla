--------------------------- MODULE ArchiveParserMC ---------------------------
(* The instance of ArchiveParser and LineFormatsCheck for TLC. *)
EXTENDS ArchiveParser, LineFormatsCheck

At(y, h, ms, z) == Time([year |-> y, digits |-> 4, month |-> IF y < 1970 THEN 12 ELSE 1,
                         day |-> IF y < 1970 THEN 31 ELSE 1, hour |-> h, minute |-> 0,
                         second |-> 0, ms |-> ms, zone |-> z])
East == [sign |-> "+", hours |-> 8, minutes |-> 0]
Noon == At(2024, 12, 500, East)
NoHour == At(2024, 24, 0, Utc)
\* What a device whose clock starts at its local epoch writes.
LocalEpoch == At(1970, 0, 500, East)
WholeSecondBefore == At(1969, 12, 0, Utc)
\* The ends of the years that have four digits in UTC.
West == [sign |-> "-", hours |-> 8, minutes |-> 0]
Year1000 == At(999, 23, 0, West)
Year999 == At(999, 12, 0, West)
Year10000 == Time([year |-> 9999, digits |-> 4, month |-> 12, day |-> 31, hour |-> 23, minute |-> 0,
                   second |-> 0, ms |-> 0, zone |-> West])

Pair(key, value) == <<Word(key), Equals, Word(value)>>
Level == Pair("level", "INFO")
Module == Pair("module", "m")
Runtime(stamp, tokens) ==
  FoldLeft(LAMBDA text, t : text \o <<Space>> \o t, <<stamp>>, tokens)
Plain == Runtime(Noon, <<Level, Module>>)

\* A line of the given length, 13 or more.
Long(n) == Runtime(Noon, <<Level, Module, Pair("event", "x") \o [i \in 1..n - 13 |-> Word("x")]>>)

\* Lines at the length limit and next to it, and one of every fault.
Valid ==
  {Plain, Plain \o <<Space>>, Plain \o <<CR>>, Long(MaxLine),
   Runtime(Noon, <<Level, Module, Pair("device", "d")>>), Runtime(Noon, <<Level, Module, Pair("sn", "p")>>)}
Old ==
  {Runtime(t, <<Level, Module>>) : t \in {LocalEpoch, WholeSecondBefore, Year1000, Year999, Year10000}}
Faulty ==
  {<<>>, <<Noon>>, <<Bom>> \o Plain, <<Bad>> \o Plain, Runtime(NoHour, <<Level, Module>>),
   Runtime(Noon, <<Module>>), Runtime(Noon, <<Level, Module, Level>>),
   Runtime(Noon, <<Level, <<>>, Module>>), Runtime(Noon, <<Level, Module \o <<Equals>> >>),
   Runtime(Noon, <<Level, <<Word("module"), Equals>> >>),
   Runtime(Noon, <<Pair("level", "LOUD"), Module>>),
   Runtime(Noon, <<Level, Module, Pair("device", "e")>>),
   Runtime(Noon, <<Level, Module, Pair("sn", "q")>>), Long(MaxLine + 1), Long(MaxLine + 2)}

Ends == {<<LF>>, <<CR, LF>>}
LastEnds == Ends \cup {<<>>, <<CR>>}
RuntimeFiles(first, second) ==
  {l \o e : l \in first, e \in LastEnds}
    \cup {l \o e \o m \o f : l \in first, m \in second, e \in Ends, f \in LastEnds}

Row(profile, sn, content) ==
  [profile |-> profile, device |-> <<Word("d")>>, station |-> <<Word("s")>>, workOrder |-> <<>>,
   productSn |-> sn, content |-> content]

RuntimeArchives ==
  {Row("kv_runtime_v1", sn, f) : sn \in {<<>>, <<Word("p")>>},
     f \in (RuntimeFiles(Valid, Valid \cup Faulty) \cup RuntimeFiles(Old \cup Faulty, {Plain})) \ {<<>>}}

-----------------------------------------------------------------------------
Csv(cells) == FoldLeft(LAMBDA text, c : text \o <<Comma>> \o c, Head(cells), Tail(cells))
Head2(key, value) == Csv(<< <<Word(key)>>, <<value>> >>)
Cells(words) == [i \in DOMAIN words |-> <<Word(words[i])>>]
TestRow(lower, upper, verdict) ==
  Csv(<< <<Word("p1")>>, <<Word("n1")>>, <<Number(lower)>>, <<Number(upper)>>, <<Number(2)>>,
         <<Word("V")>>, <<Word(verdict)>> >>)
Report ==
  << Head2("ReportVersion", Word("1.2")), Head2("DeviceId", Word("d")),
     Head2("WorkOrder", Word("w")), Head2("ProductSN", Word("p")), Head2("TestedAt", Noon),
     Head2("OverallResult", Word("NG")), Csv(Cells(Columns)),
     TestRow(1, 3, "PASS"), TestRow(3, 3, "NG") >>

\* The report with one of its lines replaced.
Changes ==
  {<<i, <<>> >> : i \in {1, 7, 9}} \cup {<<i, <<Bad>> \o Report[i]>> : i \in {3, 8}}
    \cup {<<1, <<Bom>> \o Report[1]>>, <<2, <<Bom>> \o Report[2]>>, <<2, Report[3]>>,
          <<1, Head2("ReportVersion", Word("1.3"))>>, <<2, Head2("DeviceId", Word("e"))>>,
          <<4, Head2("ProductSN", Word("q"))>>, <<5, Head2("TestedAt", NoHour)>>, <<5, Head2("TestedAt", LocalEpoch)>>,
          <<5, Head2("TestedAt", Word("x"))>>, <<6, Head2("OverallResult", Word("x"))>>,
          <<6, <<Word("OverallResult"), Comma>> >>, <<7, Report[8]>>, <<8, Report[7]>>,
          <<8, TestRow(4, 3, "PASS")>>, <<8, TestRow(1, 3, "x")>>,
          <<9, <<Quote>> \o TestRow(1, 3, "NG")>>,
          <<9, Csv(<< <<Quote, Word("p1"), Quote>> >>) \o Tail(TestRow(1, 3, "NG"))>>,
          <<9, Report[9] \o <<Comma, Word("x")>> >>}
Reports ==
  {[Report EXCEPT ![c[1]] = c[2]] : c \in Changes \cup {<<1, Report[1]>>}}
    \cup {SubSeq(Report, 1, n) : n \in 1..8}
Joined(lines, end, last) ==
  FoldLeft(LAMBDA text, l : text \o end \o l, Head(lines), Tail(lines)) \o last

FctArchives ==
  {Row("fct_csv_v1", sn, Joined(r, e, f)) : sn \in {<<>>, <<Word("p")>>}, r \in Reports,
                                            e \in Ends, f \in LastEnds}

Other == Row("other", <<>>, Plain)
OldArchives == {Row("kv_runtime_v1", <<>>, l \o <<LF>>) : l \in Old} \cup {Other}
AllArchives == RuntimeArchives \cup FctArchives \cup {Other}

\* The file as archived, cut short, changed in its last symbol, or not there.
DamagedDisk(a) ==
  {a.content, Front(a.content), Front(a.content) \o <<Bad>>, Missing, Unreadable}
-----------------------------------------------------------------------------
CsvAlphabet == {Comma, Quote, [k |-> "a"]}

\* The bytes at the borders of the ranges of RFC 3629.
Utf8Alphabet == {0, 127, 128, 143, 144, 159, 160, 191, 193, 194, 224, 237, 240, 244, 245}

EdgeZones == {Utc, [sign |-> "+", hours |-> 14, minutes |-> 0],
              [sign |-> "-", hours |-> 14, minutes |-> 0],
              [sign |-> "+", hours |-> 14, minutes |-> 1], [sign |-> "-", hours |-> 0, minutes |-> 60]}

EdgeTimes ==
  [year : {0, 999, 1000, 1969, 1970, 2000, 2024, 2100, 9999}, digits : {4},
   month : {0, 1, 2, 4, 12, 13}, day : {0, 1, 28, 29, 30, 31, 32}, hour : {0, 23, 24},
   minute : {0, 60}, second : {0, 59, 60}, ms : {0, 999}, zone : EdgeZones]
=============================================================================
