--------------------------- MODULE ArchiveParser ---------------------------
(***************************************************************************)
(* parseArchive of archive_parser.cpp: one archived file is read once, cut *)
(* into physical lines with a buffer of bounded size, each line is parsed  *)
(* by the profile of its device, and the size and the digest of what was   *)
(* read are compared with the archive's row.                               *)
(*                                                                         *)
(* A file is a sequence of symbols, each standing for one byte or for a    *)
(* text the parser never looks into (a word, a number, a time); positions  *)
(* and lengths count symbols.  The digest of a file is the file.           *)
(*                                                                         *)
(* A definition placed directly above another under a name that extends    *)
(* its name is a faulty variant of it, used only to show that a property   *)
(* notices the fault.                                                      *)
(***************************************************************************)
EXTENDS LineFormats

CONSTANTS
  Archives,   \* the rows: [profile, device, station, workOrder, productSn, content]
  Disk(_),    \* row -> the files that may lie at its path
  MaxLine     \* max_line_bytes

ASSUME MaxLineAssumption == MaxLine \in Nat \ {0}

LF == [k |-> "LF"]
CR == [k |-> "CR"]
Space == [k |-> "space"]
Equals == [k |-> "equals"]
Bom == [k |-> "bom"]
Bad == [k |-> "bad"]                            \* makes a text invalid UTF-8
Word(w) == [k |-> "word", w |-> w]
Number(n) == [k |-> "number", n |-> n]
Time(c) == [k |-> "time", c |-> c]

Missing == <<[k |-> "missing"]>>
Unreadable == <<[k |-> "unreadable"]>>

VARIABLES
  archive,   \* the row
  file,      \* what lies at its path
  step,      \* "start", "read", "end"
  pos,       \* absolute_offset: symbols read
  line,      \* the line buffer
  overflow,  \* line_overflow
  begin,     \* line_offset
  number,    \* line_number
  header,    \* fct_header: the values of the first six lines
  columns,   \* fct_table_header_seen
  result     \* ArchiveParseResult

vars == <<archive, file, step, pos, line, overflow, begin, number, header, columns, result>>
\* What a line can change.
ParserState == [header |-> header, columns |-> columns, result |-> result]

Success == [success |-> TRUE, code |-> "", line |-> 0, documents |-> <<>>]
Failure(code, n) == [success |-> FALSE, code |-> code, line |-> n, documents |-> <<>>]

\* fail: the first failure stays.
Fail(st, code, n) ==
  [st EXCEPT !.result = IF st.result.success THEN Failure(code, n) ELSE st.result]

\* The pieces of a text between the occurrences of a symbol.
Pieces(text, symbol) ==
  LET add(pieces, s) == IF s = symbol THEN Append(pieces, <<>>)
                        ELSE [pieces EXCEPT ![Len(pieces)] = Append(@, s)]
  IN FoldLeft(add, << <<>> >>, text)

BaseDocument(a, l) ==
  [offset |-> l.offset, length |-> l.length, occurredAt |-> {}, level |-> <<>>, module |-> <<>>,
   code |-> <<>>, event |-> <<>>, workOrder |-> a.workOrder, productSn |-> a.productSn]

Levels == {"TRACE", "DEBUG", "INFO", "WARN", "ERROR", "CRITICAL"}
ValidLevel(value) == \E l \in Levels : value = <<Word(l)>>

-----------------------------------------------------------------------------
(* kv_runtime_v1.                                                          *)

\* The tokens behind the first space; a space at the end adds none.
Tokens(text) ==
  LET all == Pieces(text, Space) IN IF Last(all) = <<>> THEN Front(all) ELSE all
KeyOf(token) == Pieces(token, Equals)[1]
ValueOf(token) == Pieces(token, Equals)[2]
ValidTokenNoValue(token) == Len(Pieces(token, Equals)) = 2 /\ KeyOf(token) # <<>>
ValidToken(token) == Len(Pieces(token, Equals)) = 2 /\ KeyOf(token) # <<>> /\ ValueOf(token) # <<>>

\* The values of a key: one, or none.
ValuesOf(tokens, key) ==
  {ValueOf(tokens[i]) : i \in {j \in DOMAIN tokens : KeyOf(tokens[j]) = <<Word(key)>>}}
ValueOr(tokens, key, default) ==
  IF ValuesOf(tokens, key) = {} THEN default ELSE CHOOSE v \in ValuesOf(tokens, key) : TRUE

ValidTokens(tokens) ==
  /\ \A i \in DOMAIN tokens : ValidToken(tokens[i])
  /\ \A i, j \in DOMAIN tokens : i # j => KeyOf(tokens[i]) # KeyOf(tokens[j])
  /\ ValuesOf(tokens, "module") # {}
  /\ \E v \in ValuesOf(tokens, "level") : ValidLevel(v)

OtherMetadata(a, tokens) ==
  \/ \E key \in {"device", "source_device"} : ValuesOf(tokens, key) \ {a.device} # {}
  \/ ValuesOf(tokens, "station") \ {a.station} # {}
  \/ a.productSn # <<>> /\ ValuesOf(tokens, "sn") \ {a.productSn} # {}

RuntimeDocument(a, l, tokens, instant) ==
  [BaseDocument(a, l) EXCEPT
     !.occurredAt = {FormatUtc(instant)},
     !.level = ValueOr(tokens, "level", <<>>), !.module = ValueOr(tokens, "module", <<>>),
     !.code = LET v == ValueOr(tokens, "code", <<>>) IN IF v = <<Word("-")>> THEN <<>> ELSE v,
     !.event = ValueOr(tokens, "event", <<>>),
     !.productSn = ValueOr(tokens, "sn", @)]

ParseRuntimeLine(a, l, st) ==
  LET space == SelectInSeq(l.text, LAMBDA s : s = Space)
      stamp == SubSeq(l.text, 1, space - 1)
      instants == IF Len(stamp) = 1 /\ stamp[1].k = "time" THEN ParseIso(stamp[1].c) ELSE {}
      tokens == Tokens(SubSeq(l.text, space + 1, Len(l.text)))
  IN CASE l.text = <<>> -> Fail(st, "RUNTIME_LOG_FORMAT_INVALID", l.number)
       [] Contains(l.text, Bad) -> Fail(st, "INVALID_UTF8", l.number)
       [] space = 0 -> Fail(st, "RUNTIME_LOG_FORMAT_INVALID", l.number)
       [] instants = {} -> Fail(st, "RUNTIME_LOG_TIME_INVALID", l.number)
       [] ~ValidTokens(tokens) -> Fail(st, "RUNTIME_LOG_FORMAT_INVALID", l.number)
       [] OtherMetadata(a, tokens) -> Fail(st, "RUNTIME_LOG_METADATA_MISMATCH", l.number)
       [] OTHER ->
            [st EXCEPT !.result.documents =
               Append(@, RuntimeDocument(a, l, tokens, CHOOSE t \in instants : TRUE))]

-----------------------------------------------------------------------------
(* fct_csv_v1.                                                             *)

HeaderKeys == <<"ReportVersion", "DeviceId", "WorkOrder", "ProductSN", "TestedAt", "OverallResult">>
Columns == <<"TestPoint", "TestName", "LowerLimit", "UpperLimit", "Measured", "Unit", "Result">>
Verdicts == {<<Word("PASS")>>, <<Word("NG")>>}

TestedAt(h) ==
  LET text == h[5] IN IF Len(text) = 1 /\ text[1].k = "time" THEN ParseIso(text[1].c) ELSE {}

ValidHeader(a, h) ==
  /\ h[2] = a.device /\ h[1] = <<Word("1.2")>>
  /\ a.workOrder # <<>> => h[3] = a.workOrder
  /\ a.productSn # <<>> => h[4] = a.productSn
  /\ TestedAt(h) # {} /\ h[6] \in Verdicts

IsNumber(text) == Len(text) = 1 /\ text[1].k = "number"
ValidRow(fields) ==
  /\ Len(fields) = 7 /\ \A i \in 1..6 : fields[i] # <<>>
  /\ \A i \in 3..5 : IsNumber(fields[i])
  /\ fields[3][1].n <= fields[4][1].n /\ fields[7] \in Verdicts

FctDocument(a, l, h, fields) ==
  LET ng == fields[7] = <<Word("NG")>> IN
  [BaseDocument(a, l) EXCEPT
     !.occurredAt = {FormatUtc(t) : t \in TestedAt(h)}, !.workOrder = h[3], !.productSn = h[4],
     !.level = <<Word(IF ng THEN "ERROR" ELSE "INFO")>>, !.module = <<Word("fct")>>,
     !.code = IF ng THEN <<Word("FCT_LIMIT_FAIL")>> ELSE <<>>, !.event = fields[1] \o <<Word(":")>> \o fields[2]]

ParseFctLine(a, l, st) ==
  LET text == IF l.number = 1 /\ l.text # <<>> /\ Head(l.text) = Bom THEN Tail(l.text) ELSE l.text
      fields == CHOOSE f \in ParseCsvRow(text) : TRUE
      filled == Append(st.header, fields[2])
  IN CASE l.text = <<>> -> Fail(st, "FCT_CSV_FORMAT_INVALID", l.number)
       [] Contains(l.text, Bad) -> Fail(st, "INVALID_UTF8", l.number)
       [] ParseCsvRow(text) = {} -> Fail(st, "FCT_CSV_FORMAT_INVALID", l.number)
       [] l.number <= 6 ->
            IF Len(fields) # 2 \/ fields[1] # <<Word(HeaderKeys[l.number])>> \/ fields[2] = <<>>
            THEN Fail(st, "FCT_CSV_HEADER_INVALID", l.number)
            ELSE IF l.number = 6 /\ ~ValidHeader(a, filled)
            THEN Fail(st, "FCT_CSV_METADATA_MISMATCH", l.number)
            ELSE [st EXCEPT !.header = filled]
       [] l.number = 7 ->
            IF fields # [i \in 1..7 |-> <<Word(Columns[i])>>]
            THEN Fail(st, "FCT_CSV_HEADER_INVALID", l.number) ELSE [st EXCEPT !.columns = TRUE]
       [] ~st.columns \/ ~ValidRow(fields) -> Fail(st, "FCT_CSV_ROW_INVALID", l.number)
       [] OTHER ->
            [st EXCEPT !.result.documents = Append(@, FctDocument(a, l, st.header, fields))]

-----------------------------------------------------------------------------
(* The file.                                                               *)

ProcessLine(a, l, st) ==
  CASE ~st.result.success -> st
    [] a.profile = "kv_runtime_v1" -> ParseRuntimeLine(a, l, st)
    [] a.profile = "fct_csv_v1" -> ParseFctLine(a, l, st)

FinishParser(a, st) ==
  LET code == IF a.profile = "kv_runtime_v1" THEN "RUNTIME_LOG_EMPTY" ELSE "FCT_CSV_EMPTY"
      empty == st.result.documents = <<>> \/ (a.profile = "fct_csv_v1" /\ ~st.columns)
  IN IF st.result.success /\ empty THEN Fail(st, code, 0) ELSE st

\* What happens to the buffered line at a line feed and at the end.
EndLineKeepCr(st) ==
  IF overflow \/ Len(line) > MaxLine THEN Fail(st, "LINE_TOO_LONG", number)
  ELSE ProcessLine(archive, [number |-> number, offset |-> begin, length |-> Len(line), text |-> line], st)
EndLine(st) ==
  LET text == IF line # <<>> /\ Last(line) = CR THEN Front(line) ELSE line
  IN IF overflow \/ Len(text) > MaxLine THEN Fail(st, "LINE_TOO_LONG", number)
     ELSE ProcessLine(archive, [number |-> number, offset |-> begin, length |-> Len(text), text |-> text], st)

Init ==
  /\ archive \in Archives /\ file \in Disk(archive)
  /\ step = "start" /\ pos = 0 /\ line = <<>> /\ overflow = FALSE /\ begin = 0 /\ number = 1
  /\ header = <<>> /\ columns = FALSE /\ result = Success

Stop(r) == step' = "end" /\ result' = r
UnchangedScan == UNCHANGED <<archive, file, pos, line, overflow, begin, number, header, columns>>

Open ==
  /\ step = "start"
  /\ UnchangedScan
  /\ IF archive.profile \notin {"kv_runtime_v1", "fct_csv_v1"}
     THEN Stop(Failure("PARSER_PROFILE_UNSUPPORTED", 0))
     ELSE IF file = Missing THEN Stop(Failure("ARCHIVE_FILE_NOT_FOUND", 0))
     ELSE IF file = Unreadable THEN Stop(Failure("ARCHIVE_FILE_OPEN_FAILED", 0))
     ELSE step' = "read" /\ UNCHANGED result

\* A symbol of the buffer that read filled; how the file is cut into buffers
\* makes no difference.
ReadLineFeed ==
  /\ step = "read" /\ pos < Len(file) /\ file[pos + 1] = LF
  /\ LET st == EndLine(ParserState)
     IN header' = st.header /\ columns' = st.columns /\ result' = st.result
  /\ line' = <<>> /\ overflow' = FALSE /\ begin' = pos + 1 /\ number' = number + 1
  /\ pos' = pos + 1
  /\ UNCHANGED <<archive, file, step>>

ReadOtherAtMax ==
  /\ step = "read" /\ pos < Len(file) /\ file[pos + 1] # LF
  /\ line' = IF Len(line) < MaxLine THEN Append(line, file[pos + 1]) ELSE line
  /\ overflow' = (overflow \/ Len(line) >= MaxLine)
  /\ pos' = pos + 1
  /\ UNCHANGED <<archive, file, step, begin, number, header, columns, result>>
ReadOther ==
  /\ step = "read" /\ pos < Len(file) /\ file[pos + 1] # LF
  /\ IF Len(line) <= MaxLine
     THEN line' = Append(line, file[pos + 1]) /\ UNCHANGED overflow
     ELSE overflow' = TRUE /\ UNCHANGED line
  /\ pos' = pos + 1
  /\ UNCHANGED <<archive, file, step, begin, number, header, columns, result>>

\* read returns an error, or close does.
ReadFails ==
  /\ step = "read" /\ UnchangedScan
  /\ \/ Stop(Failure("ARCHIVE_FILE_READ_FAILED", 0))
     \/ pos = Len(file) /\ Stop(Failure("ARCHIVE_FILE_CLOSE_FAILED", 0))

\* The checks of size and digest override what the lines said.
EndOfFileTrusting ==
  /\ step = "read" /\ pos = Len(file)
  /\ LET st == IF line # <<>> \/ overflow THEN EndLine(ParserState) ELSE ParserState
     IN /\ Stop(IF st.result.success /\ file # archive.content
                THEN Failure("ARCHIVE_SHA256_MISMATCH", 0) ELSE FinishParser(archive, st).result)
        /\ header' = st.header /\ columns' = st.columns
  /\ UNCHANGED <<archive, file, pos, line, overflow, begin, number>>
EndOfFile ==
  /\ step = "read" /\ pos = Len(file)
  /\ LET st == IF line # <<>> \/ overflow THEN EndLine(ParserState) ELSE ParserState
     IN /\ Stop(CASE pos # Len(archive.content) -> Failure("ARCHIVE_SIZE_MISMATCH", 0)
                  [] file # archive.content -> Failure("ARCHIVE_SHA256_MISMATCH", 0)
                  [] OTHER -> FinishParser(archive, st).result)
        /\ header' = st.header /\ columns' = st.columns
  /\ UNCHANGED <<archive, file, pos, line, overflow, begin, number>>

Next == Open \/ ReadLineFeed \/ ReadOther \/ ReadFails \/ EndOfFile

Spec == Init /\ [][Next]_vars

-----------------------------------------------------------------------------
(* parseDocument of parsed_batch_reader.cpp, and what load checks of a     *)
(* document against its archive: what the index builder accepts of a       *)
(* document.  The fields copied from the row are left out.                 *)
AcceptedByReader(d, size) ==
  /\ d.length # 0 /\ d.level # <<>> /\ d.module # <<>>
  /\ \E c \in d.occurredAt : ParseIso(c) # {}
  /\ d.offset <= size /\ d.length <= size - d.offset

-----------------------------------------------------------------------------
(* Properties.                                                             *)

\* The physical lines of a text: what lies between line feeds, without one
\* carriage return at its end; nothing behind the last line feed is no line.
PhysicalLines(text) ==
  LET feeds == {i \in DOMAIN text : text[i] = LF}
      starts == {i \in {1} \cup {f + 1 : f \in feeds} : i <= Len(text)}
      order == Ascending(starts)
      stop(i) == Min({f \in feeds : f >= i} \cup {Len(text) + 1}) - 1
      cut(i) == IF stop(i) >= i /\ text[stop(i)] = CR THEN stop(i) - 1 ELSE stop(i)
  IN [n \in DOMAIN order |->
        [number |-> n, offset |-> order[n] - 1, length |-> cut(order[n]) - order[n] + 1,
         text |-> SubSeq(text, order[n], cut(order[n]))]]

\* What the lines of a text come to when each is looked at as a whole.
LineByLine(a, text) ==
  FoldLeft(LAMBDA st, l : IF l.length > MaxLine THEN Fail(st, "LINE_TOO_LONG", l.number)
                          ELSE ProcessLine(a, l, st),
           [header |-> <<>>, columns |-> FALSE, result |-> Success], PhysicalLines(text))

\* Reading byte by byte into a buffer of MaxLine + 1 bytes, with CRLF taken
\* apart and lines that do not fit thrown away, comes to the same result as
\* parsing the physical lines of the archived file: the same documents, or
\* the first line at fault and its code.
ScanIsLineByLine ==
  step = "end" /\ file = archive.content /\ result.code \notin
      {"PARSER_PROFILE_UNSUPPORTED", "ARCHIVE_FILE_READ_FAILED", "ARCHIVE_FILE_CLOSE_FAILED"} =>
    result = FinishParser(archive, LineByLine(archive, file)).result

\* Every document of a parsed file is found again in the file: its byte range
\* is a whole physical line without its terminator, and the documents are the
\* lines of the file in their order, all of them.
DocumentsAreLines ==
  step = "end" /\ result.success =>
    LET lines == PhysicalLines(archive.content)
        skipped == IF archive.profile = "fct_csv_v1" THEN 7 ELSE 0
    IN /\ Len(result.documents) = Len(lines) - skipped
       /\ \A i \in DOMAIN result.documents :
            LET d == result.documents[i] IN
            SubSeq(file, d.offset + 1, d.offset + d.length) = lines[i + skipped].text

\* A file that is not the archived one is never parsed successfully, and is
\* reported as damaged, not as a file with a faulty line, whatever its lines
\* look like.
DamageIsReported ==
  step = "end" /\ file # archive.content => ~result.success /\ result.line = 0

\* The instants the lines of a file name, as the parser reads them.
InstantsOf(a, text, i) ==
  IF a.profile = "fct_csv_v1" THEN TestedAt(LineByLine(a, text).header)
  ELSE ParseIso(PhysicalLines(text)[i].text[1].c)

\* The index builder accepts the documents of a file that was parsed
\* successfully, all but those whose time comes out of formatUtcMilliseconds
\* as a text that parseIso8601Milliseconds refuses: a fraction of a second
\* before 1970, printed with a sign, and years in UTC before 1000 or after
\* 9999, printed with fewer or more than four digits.
ReadableByBatchReader ==
  step = "end" /\ result.success =>
    \A i \in DOMAIN result.documents :
      AcceptedByReader(result.documents[i], Len(archive.content))
        <=> \A t \in InstantsOf(archive, archive.content, i) : Legible(t)

\* A bad file affects only its own records: what the parser accepts of a file,
\* the index builder accepts too.  A document it refuses makes the whole batch
\* unreadable, with the documents of all other archives in it.
BadFileIsIsolated ==
  step = "end" /\ result.success =>
    \A i \in DOMAIN result.documents :
      AcceptedByReader(result.documents[i], Len(archive.content))
=============================================================================
