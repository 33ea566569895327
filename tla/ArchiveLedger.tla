--------------------------- MODULE ArchiveLedger ---------------------------
(***************************************************************************)
(* What the upload API promises, without sessions, files, handlers or      *)
(* failures: each upload is entered in the ledger at most once, under an   *)
(* archive_id of its own and with the content declared for it; entries     *)
(* never change; clients hear ARCHIVED with the entry, or FAILED, and an   *)
(* upload reported FAILED is never entered.                                *)
(***************************************************************************)
CONSTANTS Uploads, Declared, None

VARIABLES
  ledger,   \* ledger[u]: the ArchiveRecord of u and the content readable under it
  answers   \* verdicts clients have been given

ArchivedAnswer(u, rec) == [u |-> u, verdict |-> "ARCHIVED", rec |-> rec]
FailedAnswer(u) == [u |-> u, verdict |-> "FAILED", rec |-> None]

Init ==
  /\ ledger = [u \in Uploads |-> None]
  /\ answers = {}

Publish(u) ==
  /\ ledger[u] = None
  /\ FailedAnswer(u) \notin answers
  /\ ledger'[u] # None
  /\ ledger'[u].content = Declared[u]
  /\ \A v \in Uploads \ {u} :
       /\ ledger'[v] = ledger[v]
       /\ ledger[v] # None => ledger[v].rec.id # ledger'[u].rec.id
  /\ UNCHANGED answers

AnswerArchived(u) ==
  /\ ledger[u] # None
  /\ answers' = answers \cup {ArchivedAnswer(u, ledger[u].rec)}
  /\ UNCHANGED ledger

AnswerFailed(u) ==
  /\ ledger[u] = None
  /\ answers' = answers \cup {FailedAnswer(u)}
  /\ UNCHANGED ledger

Next == \E u \in Uploads : Publish(u) \/ AnswerArchived(u) \/ AnswerFailed(u)

Spec == Init /\ [][Next]_<<ledger, answers>>
=============================================================================
