--------------------------- MODULE ArchivePaging ---------------------------
(***************************************************************************)
(* GET /api/v1/archives and GET /api/v1/archives/{id}: the checks of a     *)
(* query (archive_controller.cpp), the cursor (archive_cursor.cpp) and the *)
(* statements (archive_repository.cpp), with one client that follows       *)
(* next_cursor from page to page while the upload server inserts rows.     *)
(*                                                                         *)
(* A row gets its archived_at when its upload is completed and is inserted *)
(* later, so that rows turn up in any order of archived_at and of id.      *)
(*                                                                         *)
(* A definition placed directly above another under a name that extends    *)
(* its name is a faulty variant of it, used only to show that a property   *)
(* notices the fault.                                                      *)
(***************************************************************************)
EXTENDS Integers, Sequences, FiniteSets, SequencesExt, FiniteSetsExt

CONSTANTS
  Rows,            \* rows that are or will be in archive_file: [id, at, work_order, device_id]
  Lists,           \* the list requests a client may begin with
  Details,         \* the detail requests
  Base, Width,     \* an integer of the cursor is Width digits to the base Base
  DefaultPageSize, MaxPageSize, MaxTimeRange,
  MaxWalks         \* bound: walks and details per behaviour

ASSUME ConfigAssumption ==
  /\ Base \in Nat \ {0, 1} /\ Width \in Nat \ {0}
  /\ DefaultPageSize \in 1..MaxPageSize /\ MaxTimeRange \in Nat \ {0}

Absent == -1      \* the parameter is not in the request
Malformed == -2   \* it is, and cannot be parsed

VARIABLES
  table,     \* archive_file
  request,   \* the request of the client
  phase,     \* of the client: "idle", "asked", "queried", "detail"
  answer,    \* the last answer: [code, items, cursor]
  shown,     \* the items of the walk so far
  start,     \* the rows that were in the table when the walk began
  walks      \* walks and details begun

pagingVars == <<table, request, phase, answer, shown, start, walks>>

-----------------------------------------------------------------------------
(* The cursor.  The URL-safe base64 of the sixteen bytes is one to one; a  *)
(* cursor is those bytes.                                                  *)

Power[k \in 0..Width] == IF k = 0 THEN 1 ELSE Power[k - 1] * Base
Digits(n) == [i \in 1..Width |-> (n \div Power[Width - i]) % Base]
Number(digits) ==
  LET n[i \in 0..Width] == IF i = 0 THEN 0 ELSE n[i - 1] * Base + digits[i] IN n[Width]
MaxTimestamp == (Power[Width] \div 2) - 1

EncodeCursor(c) == Digits(c.at) \o Digits(c.id)

\* The cursor in a set, or no member.
DecodeCursor(text) ==
  IF Len(text) # 2 * Width THEN {}
  ELSE LET at == Number(SubSeq(text, 1, Width))
           id == Number(SubSeq(text, Width + 1, 2 * Width))
       IN IF at > MaxTimestamp \/ at = 0 \/ id = 0 THEN {} ELSE {[at |-> at, id |-> id]}

-----------------------------------------------------------------------------
\* archive_id is the primary key, and both keys of the order fit the cursor.
ASSUME RowsAssumption ==
  /\ IsFiniteSet(Rows)
  /\ \A r \in Rows : r.at \in 1..MaxTimestamp /\ r.id \in 1..Power[Width] - 1
  /\ \A r, s \in Rows : r.id = s.id => r = s

\* A client begins a walk without a cursor, or with one that is refused.
ASSUME RequestsAssumption ==
  /\ \A req \in Lists : /\ {"filters", "from", "to", "cursor"} \subseteq DOMAIN req
                        /\ "id" \notin DOMAIN req
                        /\ DecodeCursor(req.cursor) = {}
  /\ \A req \in Details : "id" \in DOMAIN req

-----------------------------------------------------------------------------
(* parseArchiveQuery.                                                      *)

\* The time range: both ends or none, not reversed, not too long.
ValidRange(req) ==
  \/ req.from = Absent /\ req.to = Absent
  \/ /\ req.from \notin {Absent, Malformed} /\ req.to \notin {Absent, Malformed}
     /\ req.from <= req.to /\ req.to - req.from <= MaxTimeRange

ParseQuery(req) ==
  IF \/ req.unknown \/ req.badFilter \/ ~ValidRange(req)
     \/ DOMAIN req.filters \cap {"work_order", "product_sn"} = {} /\ req.from = Absent
     \/ req.pageSize # Absent /\ req.pageSize \notin 1..MaxPageSize
  THEN "InvalidArgument"
  ELSE IF req.cursor # <<>> /\ DecodeCursor(req.cursor) = {} THEN "InvalidCursor" ELSE "Ok"
PageSize(req) == IF req.pageSize = Absent THEN DefaultPageSize ELSE req.pageSize

-----------------------------------------------------------------------------
(* createListTask.                                                         *)

Matches(req, r) ==
  /\ \A f \in DOMAIN req.filters : r[f] = req.filters[f]
  /\ req.from # Absent => req.from <= r.at /\ r.at <= req.to

\* The condition of the cursor.
BehindTime(r, c) == r.at < c.at
BehindAgain(r, c) == r.at < c.at \/ (r.at = c.at /\ r.id <= c.id)
Behind(r, c) == r.at < c.at \/ (r.at = c.at /\ r.id < c.id)

\* ORDER BY archived_at DESC, archive_id DESC.
Precedes(r, s) == r.at > s.at \/ (r.at = s.at /\ r.id > s.id)
InOrder(S) ==
  [n \in 1..Cardinality(S) |->
     CHOOSE r \in S : Cardinality({s \in S : Precedes(s, r)}) = n - 1]

Selected(req) ==
  InOrder({r \in table : Matches(req, r) /\ \A c \in DecodeCursor(req.cursor) : Behind(r, c)})

\* LIMIT page_size + 1; the row too many only says that there is more.
Page(req) ==
  LET rows == SubSeq(Selected(req), 1, Min({Len(Selected(req)), PageSize(req) + 1}))
      more == Len(rows) > PageSize(req)
  IN [items |-> IF more THEN SubSeq(rows, 1, PageSize(req)) ELSE rows, hasMore |-> more]

NextCursor(page) ==
  IF page.hasMore /\ page.items # <<>>
  THEN EncodeCursor([at |-> Last(page.items).at, id |-> Last(page.items).id]) ELSE <<>>

-----------------------------------------------------------------------------
ListAnswer(code, items, cursor) == [code |-> code, items |-> items, cursor |-> cursor]
NoAnswer == ListAnswer("", <<>>, <<>>)
NoRequest == [token |-> "none"]

PagingInit ==
  /\ table \in SUBSET Rows
  /\ request = NoRequest /\ phase = "idle" /\ answer = NoAnswer
  /\ shown = <<>> /\ start = {} /\ walks = 0

\* createInsertTask of the upload server.
NewRow ==
  /\ \E r \in Rows \ table : table' = table \cup {r}
  /\ UNCHANGED <<request, phase, answer, shown, start, walks>>

\* A client begins a walk.
BeginWalk ==
  /\ phase = "idle" /\ walks < MaxWalks
  /\ \E req \in Lists : request' = req
  /\ phase' = "asked" /\ walks' = walks + 1 /\ shown' = <<>> /\ start' = table
  /\ answer' = NoAnswer
  /\ UNCHANGED table

AskDetail ==
  /\ phase = "idle" /\ walks < MaxWalks
  /\ \E req \in Details : request' = req
  /\ phase' = "asked" /\ walks' = walks + 1 /\ shown' = <<>> /\ start' = {}
  /\ answer' = NoAnswer
  /\ UNCHANGED table

\* It asks for the next page with the cursor of the last one.
FollowCursor ==
  /\ phase = "idle" /\ answer.code = "Ok" /\ answer.cursor # <<>>
  /\ request' = [request EXCEPT !.cursor = answer.cursor]
  /\ phase' = "asked" /\ answer' = NoAnswer
  /\ UNCHANGED <<table, shown, start, walks>>

Refuse(code) == phase' = "idle" /\ answer' = ListAnswer(code, <<>>, <<>>)

\* The handler of the list, up to the statement.
HandleListSilent ==
  /\ phase = "asked" /\ "id" \notin DOMAIN request
  /\ request.token = "right" /\ ParseQuery(request) = "Ok"
  /\ phase' = "queried" /\ UNCHANGED <<table, request, answer, shown, start, walks>>
HandleList ==
  /\ phase = "asked" /\ "id" \notin DOMAIN request
  /\ \/ request.token = "none" /\ Refuse("AuthRequired")
     \/ request.token = "wrong" /\ Refuse("OperatorTokenInvalid")
     \/ request.token = "right" /\ ParseQuery(request) # "Ok" /\ Refuse(ParseQuery(request))
     \/ /\ request.token = "right" /\ ParseQuery(request) = "Ok"
        /\ phase' = "queried" /\ UNCHANGED answer
  /\ UNCHANGED <<table, request, shown, start, walks>>

\* MySQL answers the list, and the response is built from it.
ListRows ==
  /\ phase = "queried"
  /\ \E page \in {Page(request)} :
     /\ answer' = ListAnswer("Ok", page.items, NextCursor(page))
     /\ shown' = shown \o page.items
  /\ phase' = "idle"
  /\ UNCHANGED <<table, request, start, walks>>

\* The handler of the detail, up to the statement, and its answer.
HandleDetail ==
  /\ phase = "asked" /\ "id" \in DOMAIN request
  /\ \/ request.token = "none" /\ Refuse("AuthRequired")
     \/ request.token = "wrong" /\ Refuse("OperatorTokenInvalid")
     \/ request.token = "right" /\ request.id \in {0, Malformed} /\ Refuse("InvalidArgument")
     \/ /\ request.token = "right" /\ request.id \notin {0, Malformed}
        /\ phase' = "detail" /\ UNCHANGED answer
  /\ UNCHANGED <<table, request, shown, start, walks>>

FindRow ==
  /\ phase = "detail" /\ phase' = "idle"
  /\ LET found == {r \in table : r.id = request.id}
     IN answer' = IF found = {} THEN ListAnswer("ArchiveNotFound", <<>>, <<>>)
                  ELSE ListAnswer("Ok", SetToSeq(found), <<>>)
  /\ UNCHANGED <<table, request, shown, start, walks>>

\* MySQL does not answer, or with an error.
MySqlUnavailable ==
  /\ phase \in {"queried", "detail"} /\ Refuse("MySqlUnavailable")
  /\ UNCHANGED <<table, request, shown, start, walks>>

PagingNext ==
  \/ NewRow \/ BeginWalk \/ AskDetail \/ FollowCursor \/ HandleList \/ ListRows
  \/ HandleDetail \/ FindRow \/ MySqlUnavailable

PagingSpec == PagingInit /\ [][PagingNext]_pagingVars

\* A client that follows cursors, a server that handles its requests and MySQL
\* that answers or fails.
Steps == FollowCursor \/ HandleList \/ HandleDetail \/ ListRows \/ FindRow \/ MySqlUnavailable
PagingFairness == WF_pagingVars(Steps)

-----------------------------------------------------------------------------
(* Properties.                                                             *)

\* Over all pages of a walk the rows come strictly in the order of the list:
\* none is shown twice, none out of order, although rows are inserted between
\* the pages and several rows may have the same archived_at.
Descending == \A i \in 1..Len(shown) - 1 : Precedes(shown[i], shown[i + 1])

Walking ==
  IF \/ walks = 0 \/ "id" \in DOMAIN request
     \/ phase = "idle" /\ answer.code # "Ok"
  THEN "idle"
  ELSE IF phase = "idle" /\ answer.cursor = <<>> THEN "done" ELSE "walk"

Listed(S) == IF "filters" \in DOMAIN request THEN {r \in S : Matches(request, r)} ELSE S

\* A client that has got a page without next_cursor has been shown every row of
\* its list that was there when it began.
WalkComplete == Walking = "done" => Listed(start) \subseteq {shown[i] : i \in DOMAIN shown}

\* The pages a client gets by following cursors are those of PagedWalk: no row
\* that was there at the beginning is lost, and none is passed over on the way.
Walk == INSTANCE PagedWalk WITH
  Row <- Rows, Before <- Precedes,
  table <- Listed(table), start <- Listed(start),
  shown <- {shown[i] : i \in DOMAIN shown}, status <- Walking
ImplementsPagedWalk == Walk!Spec

\* Every walk ends: the last page is reached, or the client is told of an error.
WalkEnds == []<>(Walking # "walk")
=============================================================================
