------------------------------ MODULE StatusPages ------------------------------
(***************************************************************************)
(* adapters/github_action.py: how collect_pr_snapshot reads the commit      *)
(* statuses of the head.  _paginate_list reads them page by page, newest    *)
(* first, while apps go on reporting; then one loop keeps the first row of  *)
(* every context.                                                           *)
(*                                                                         *)
(* A new report shifts the whole list, so a page shows rows the page before *)
(* it already showed, or, when a page of reports or more came in between,   *)
(* rows nobody saw.                                                         *)
(***************************************************************************)
EXTENDS Naturals, Sequences

CONSTANTS
  Spelling,     \* the contexts as the apps spell them
  Key,          \* the contexts up to case (str.casefold)
  Fold,         \* the key of a spelling
  NoContext,    \* a row without a usable context
  PageSize,     \* rows per page (100)
  MaxPages,     \* DEFAULT_MAX_PAGES
  Initial,      \* bound on the reports before the read
  MaxReports    \* bound on all reports

ASSUME ContextAssumption ==
  /\ Fold \in [Spelling -> Key]
  /\ NoContext \notin Spelling

ASSUME PageAssumption ==
  /\ PageSize \in Nat \ {0}
  /\ MaxPages \in Nat \ {0}
  /\ Initial \in Nat
  /\ MaxReports \in Nat

VARIABLES
  reports,      \* every status of the head, oldest first; its id is its index
  start,        \* how many there were when the first page was read (history)
  pc,
  offset,       \* how many rows the pages read so far took up
  rows,         \* status_rows: the ids in the order read
  next,         \* the row the loop looks at
  seen,         \* seen_contexts
  taken,        \* the ids of the statuses appended to checks
  errors        \* how many collection_errors

vars == <<reports, start, pc, offset, rows, next, seen, taken, errors>>

(* `valid' stands for the tests on state, sha and url.                      *)
Report == [context : Spelling \cup {NoContext}, valid : BOOLEAN]

HasContext(i) == reports[i].context # NoContext
(* The context as it is spelled.                                             *)
FaultyContextKey(i) == reports[i].context
ContextKey(i) == Fold[reports[i].context]

-----------------------------------------------------------------------------
(* An app reports a status: it becomes the first row of the list.           *)
PostStatus ==
  /\ pc = "read"
  /\ Len(reports) < MaxReports
  /\ \E r \in Report : reports' = Append(reports, r)
  /\ UNCHANGED <<start, pc, offset, rows, next, seen, taken, errors>>

(* The page filled up with rows that are not there.                          *)
FaultyPage == [j \in 1 .. PageSize |-> Len(reports) - offset - j + 1]
(* The ids on the page that starts after `offset' rows, newest first.       *)
Remaining == IF offset >= Len(reports) THEN 0 ELSE Len(reports) - offset
PageLength == IF Remaining < PageSize THEN Remaining ELSE PageSize
Page == [j \in 1 .. PageLength |-> Len(reports) - offset - j + 1]

(* A short page is the last one.                                            *)
ReadPage ==
  /\ pc = "read"
  /\ offset < MaxPages * PageSize
  /\ start' = IF offset = 0 THEN Len(reports) ELSE start
  /\ rows' = rows \o Page
  /\ offset' = offset + PageSize
  /\ pc' = IF PageLength < PageSize THEN "scan" ELSE "read"
  /\ UNCHANGED <<reports, next, seen, taken, errors>>

(* The RuntimeError of a read, of a row that is no object, or of one page   *)
(* too many: what was read is dropped and the collection is incomplete.     *)
(* The fault: it is dropped and nothing is said.                             *)
FaultyReadFails ==
  /\ pc = "read"
  /\ rows' = <<>>
  /\ pc' = "scan"
  /\ UNCHANGED <<reports, start, offset, next, seen, taken, errors>>
ReadFails ==
  /\ pc = "read"
  /\ rows' = <<>>
  /\ errors' = errors + 1
  /\ pc' = "scan"
  /\ UNCHANGED <<reports, start, offset, next, seen, taken>>

-----------------------------------------------------------------------------
Row == rows[next]
AtRow == pc = "scan" /\ next <= Len(rows)

Advance ==
  /\ next' = next + 1
  /\ UNCHANGED <<reports, start, pc, offset, rows>>

MissingContext ==
  /\ AtRow
  /\ ~HasContext(Row)
  /\ errors' = errors + 1
  /\ Advance
  /\ UNCHANGED <<seen, taken>>

(* An older entry never contributes.                                        *)
SkipOlder ==
  /\ AtRow
  /\ HasContext(Row)
  /\ ContextKey(Row) \in seen
  /\ Advance
  /\ UNCHANGED <<seen, taken, errors>>

(* The context is marked before the row is validated.  The fault: after.    *)
FaultyReject ==
  /\ AtRow
  /\ HasContext(Row)
  /\ ContextKey(Row) \notin seen
  /\ ~reports[Row].valid
  /\ errors' = errors + 1
  /\ Advance
  /\ UNCHANGED <<seen, taken>>
Reject ==
  /\ AtRow
  /\ HasContext(Row)
  /\ ContextKey(Row) \notin seen
  /\ ~reports[Row].valid
  /\ seen' = seen \cup {ContextKey(Row)}
  /\ errors' = errors + 1
  /\ Advance
  /\ UNCHANGED taken

Take ==
  /\ AtRow
  /\ HasContext(Row)
  /\ ContextKey(Row) \notin seen
  /\ reports[Row].valid
  /\ seen' = seen \cup {ContextKey(Row)}
  /\ taken' = taken \cup {Row}
  /\ Advance
  /\ UNCHANGED errors

Finish ==
  /\ pc = "scan"
  /\ next > Len(rows)
  /\ pc' = "done"
  /\ UNCHANGED <<reports, start, offset, rows, next, seen, taken, errors>>

Init ==
  /\ \E n \in 0 .. Initial : reports \in [1 .. n -> Report]
  /\ start = 0
  /\ pc = "read"
  /\ offset = 0
  /\ rows = <<>>
  /\ next = 1
  /\ seen = {}
  /\ taken = {}
  /\ errors = 0

Next ==
  \/ PostStatus \/ ReadPage \/ ReadFails
  \/ MissingContext \/ SkipOlder \/ Reject \/ Take \/ Finish

Spec == Init /\ [][Next]_vars

-----------------------------------------------------------------------------
(* The ids read are ids of reports, and so on.                              *)
TypeOK ==
  /\ reports \in Seq(Report)
  /\ start \in 0 .. Len(reports)
  /\ pc \in {"read", "scan", "done"}
  /\ offset \in Nat
  /\ rows \in Seq(1 .. Len(reports))
  /\ next \in 1 .. Len(rows) + 1
  /\ seen \subseteq Key
  /\ taken \subseteq 1 .. Len(reports)
  /\ errors \in Nat

(* Rows of one context, up to case.                                         *)
SameContext(i, j) ==
  /\ HasContext(i)
  /\ HasContext(j)
  /\ Fold[reports[i].context] = Fold[reports[j].context]

(* Whatever is reported between two pages, a status is kept only if no      *)
(* report of its context was newer when the read began, valid or not: a     *)
(* malformed latest entry is never replaced by a historical one.            *)
NeverOutdated == \A i \in taken : \A j \in i + 1 .. start : ~SameContext(i, j)

(* One status per context, whatever its case and however often the shifted  *)
(* pages repeat it.                                                         *)
OnePerContext == \A i, j \in taken : SameContext(i, j) => i = j

(* A read that left no error has a status of every context that had been    *)
(* reported when it began.                                                  *)
NoContextLost ==
  pc = "done" /\ errors = 0 =>
    \A j \in 1 .. start : \E i \in taken : SameContext(i, j)
=============================================================================
