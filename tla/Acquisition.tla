------------------------------ MODULE Acquisition ------------------------------
(***************************************************************************)
(* adapters/github_action.py: main acquires one snapshot of a pull request  *)
(* (collect_pr_snapshot) through GitHubReadClient.get_json, with its        *)
(* rate-limit retries, and ends with a bundle, an UNAVAILABLE bundle or an  *)
(* error.                                                                   *)
(*                                                                         *)
(* Every request may succeed, be rate limited or fail.  Where the failure   *)
(* goes depends on the read: some propagate it, some record it as a         *)
(* collection error, some forget it.  The pull request may be pushed to at  *)
(* any time, and a list asked for one head may hold rows of another, which  *)
(* the client sorts out by itself.                                          *)
(***************************************************************************)
EXTENDS Naturals, Sequences

CONSTANTS
  Retries,      \* rate_limit_retries
  MaxPages,     \* DEFAULT_MAX_PAGES
  MaxPushes     \* bound on the pushes to the pull request

ASSUME AcquisitionAssumption ==
  /\ Retries \in Nat
  /\ MaxPages \in Nat \ {0}
  /\ MaxPushes \in Nat

(* The requests of collect_pr_snapshot in the order they are made.  The     *)
(* fault: the files after the checks.                                       *)
FaultyReads == <<"pull", "repo", "ref", "check_runs", "statuses", "files",
                 "workflow_runs", "compare">>
Reads == <<"pull", "repo", "ref", "files", "check_runs", "statuses",
           "workflow_runs", "compare">>
Read == {Reads[i] : i \in 1 .. Len(Reads)}

Paged == {"files", "check_runs", "statuses", "workflow_runs"}
(* Asked for the recorded head; the files are those of the current one.     *)
ByHead == {"check_runs", "statuses", "workflow_runs"}
Recorded == {"check_runs", "statuses"}       \* a failure is a collection error
Forgotten == {"workflow_runs", "compare"}    \* a failure leaves no trace

VARIABLES
  head,         \* the current head of the pull request, as a number of pushes
  pc,           \* the index in Reads of the read under way
  page,         \* its page
  attempt,      \* its attempt, counted from 0
  heads,        \* the heads of the rows that each read has acquired
  pages,        \* the pages they are from
  kept,         \* the heads of those that are left in the snapshot
  whole,        \* the reads that came to their last page
  errors,       \* collection_errors, as the reads they are about
  limited,      \* the reads that ran out of retries (history)
  outcome

client == <<pc, page, attempt, heads, pages, kept, whole, errors, limited, outcome>>
vars == <<head, client>>

Now == Reads[pc]
Running == outcome = "running" /\ pc <= Len(Reads)

-----------------------------------------------------------------------------
Push ==
  /\ outcome = "running"
  /\ head < MaxPushes
  /\ head' = head + 1
  /\ UNCHANGED client

-----------------------------------------------------------------------------
(* The compare request is left out when the base is current main.           *)
NextRead ==
  /\ pc' = pc + 1
  /\ page' = 1
  /\ attempt' = 0

SkipCompare ==
  /\ Running
  /\ Now = "compare"
  /\ NextRead
  /\ UNCHANGED <<head, heads, pages, kept, whole, errors, limited, outcome>>

(* A response in shape: the rows of one page, or one object.  A status that    *)
(* names no head is of the one that was asked for; a check run that names none  *)
(* is `odd' below, and a workflow run that names none is left out.           *)
ShownHeads ==
  IF Now \in ByHead THEN SUBSET (0 .. head)
  ELSE IF Now \in {"pull", "files"} THEN {{head}} ELSE {{}}
Receive ==
  /\ \E shown \in ShownHeads : heads' = [heads EXCEPT ![Now] = @ \cup shown]
  /\ pages' = [pages EXCEPT ![Now] = @ \cup {page}]
  /\ UNCHANGED <<head, kept, limited, outcome>>

LastPage ==
  /\ Running
  /\ Receive
  /\ whole' = whole \cup {Now}
  /\ NextRead
  /\ UNCHANGED errors

FullPage ==
  /\ Running
  /\ Now \in Paged
  /\ page < MaxPages
  /\ Receive
  /\ page' = page + 1
  /\ attempt' = 0
  /\ UNCHANGED <<pc, whole, errors>>

(* Rate limited, with a wait the client accepts.                            *)
(* One attempt too many.                                                    *)
FaultyRetryBound ==
  /\ Running
  /\ attempt <= Retries
  /\ attempt' = attempt + 1
  /\ UNCHANGED <<head, pc, page, heads, pages, kept, whole, errors, limited, outcome>>
(* No bound on the attempts (their count wraps around to stay finite).      *)
FaultyRetry ==
  /\ Running
  /\ attempt' = (attempt + 1) % (Retries + 1)
  /\ UNCHANGED <<head, pc, page, heads, pages, kept, whole, errors, limited, outcome>>
Retry ==
  /\ Running
  /\ attempt < Retries
  /\ attempt' = attempt + 1
  /\ UNCHANGED <<head, pc, page, heads, pages, kept, whole, errors, limited, outcome>>

(* What becomes of the RuntimeError of a read.  The rows of the pages before *)
(* it are dropped.  The fault keeps them.                                   *)
FaultyHandle(verdict) ==
  IF Now \in Recorded \cup Forgotten
  THEN /\ errors' = IF Now \in Recorded THEN errors \cup {Now} ELSE errors
       /\ NextRead
       /\ UNCHANGED <<heads, pages, outcome>>
  ELSE /\ outcome' = verdict
       /\ UNCHANGED <<pc, page, attempt, heads, pages, errors>>
Handle(verdict) ==
  IF Now \in Recorded \cup Forgotten
  THEN /\ errors' = IF Now \in Recorded THEN errors \cup {Now} ELSE errors
       /\ heads' = [heads EXCEPT ![Now] = {}]
       /\ pages' = [pages EXCEPT ![Now] = {}]
       /\ NextRead
       /\ UNCHANGED outcome
  ELSE /\ outcome' = verdict
       /\ UNCHANGED <<pc, page, attempt, heads, pages, errors>>

(* Rate limited on the last attempt, or with too long a wait.               *)
Exhausted ==
  /\ Running
  /\ limited' = limited \cup {Now}
  /\ Handle("unavailable")
  /\ UNCHANGED <<head, kept, whole>>

(* Any other HTTP error, no connection, too large or no JSON, rows that are *)
(* no list, one page too many.                                              *)
ReadFails ==
  /\ Running
  /\ Handle("error")
  /\ UNCHANGED <<head, kept, whole, limited>>

(* An exception that is no RuntimeError, such as one of http.client, passes *)
(* every handler up to that of main.                                        *)
Unhandled ==
  /\ Running
  /\ outcome' = "error"
  /\ UNCHANGED <<head, pc, page, attempt, heads, pages, kept, whole, errors, limited>>

(* Rows of another head are sorted out.                                     *)
OfHead(r) == heads[r] \cap heads["pull"]

(* The lists of which a row is dropped for its head with a collection error:   *)
(* a check run always, a status unless one of its context that is of the head  *)
(* came before it, a workflow run never.  The fault: a check run goes without. *)
FaultyRowErrors == {r \in {"statuses"} : heads[r] # {} /\ OfHead(r) = {}}
RowErrors ==
  {r \in {"check_runs", "statuses"} :
     \/ r = "check_runs" /\ heads[r] # OfHead(r)
     \/ r = "statuses" /\ heads[r] # {} /\ OfHead(r) = {}}

(* The rows become a snapshot, and run_cloud_bundle judges it: an incomplete  *)
(* collection is a blocker, and the pull request may have others.  Rows may   *)
(* be dropped for what else they lack, or a status for one of another head    *)
(* before it.  A failed merge-base read, which comes last, is no error.       *)
Bundle ==
  /\ outcome = "running"
  /\ pc > Len(Reads)
  /\ \E odd \in SUBSET {r \in {"files", "check_runs", "statuses"} : heads[r] # {}} :
       /\ errors' = errors \cup RowErrors \cup odd
       /\ \E lost \in SUBSET (odd \cup {"workflow_runs"}) :
            kept' = [r \in ByHead |-> IF r \in lost THEN {} ELSE OfHead(r)]
  /\ outcome' \in IF errors' = {} THEN {"ready", "attention"} ELSE {"attention"}
  /\ UNCHANGED <<head, pc, page, attempt, heads, pages, whole, limited>>

Client ==
  \/ SkipCompare \/ LastPage \/ FullPage \/ Retry
  \/ Exhausted \/ ReadFails \/ Unhandled \/ Bundle

Init ==
  /\ head = 0
  /\ pc = 1
  /\ page = 1
  /\ attempt = 0
  /\ heads = [r \in Read |-> {}]
  /\ pages = [r \in Read |-> {}]
  /\ kept = [r \in ByHead |-> {}]
  /\ whole = {}
  /\ errors = {}
  /\ limited = {}
  /\ outcome = "running"

Next == Push \/ Client

Spec == Init /\ [][Next]_vars

(* urlopen has a timeout and the waits are bounded, so the client goes on.  *)
FairSpec == Spec /\ WF_vars(Client)

-----------------------------------------------------------------------------
Outcome == {"running", "ready", "attention", "unavailable", "error"}

(* The values of the variables; an attempt is one of Retries + 1.           *)
TypeOK ==
  /\ head \in 0 .. MaxPushes
  /\ pc \in 1 .. Len(Reads) + 1
  /\ page \in 1 .. MaxPages
  /\ attempt \in 0 .. Retries
  /\ heads \in [Read -> SUBSET (0 .. MaxPushes)]
  /\ pages \in [Read -> SUBSET (1 .. MaxPages)]
  /\ kept \in [ByHead -> SUBSET (0 .. MaxPushes)]
  /\ whole \subseteq Read
  /\ errors \subseteq Read
  /\ limited \subseteq Read
  /\ outcome \in Outcome

(* What a bundle says of files, check runs and statuses is all there was or *)
(* nothing: the rows of a read that broke off are never among the evidence, *)
(* and only a collection that lost nothing can be ready.                    *)
AllOrNothing ==
  /\ outcome \in {"ready", "attention"} =>
       \A r \in {"files", "check_runs", "statuses"} :
         r \notin whole => pages[r] = {}
  /\ outcome = "ready" => {"files", "check_runs", "statuses"} \subseteq whole

(* The summary of an UNAVAILABLE bundle says that no CI evidence was        *)
(* acquired: a rate limit is given that outcome only by a read that comes   *)
(* before the check runs and statuses.                                      *)
UnavailableBeforeCI ==
  outcome = "unavailable" =>
    /\ limited # {}
    /\ heads["check_runs"] = {} /\ heads["statuses"] = {}

(* What a bundle judges is of the head it names, wherever the pull request   *)
(* has moved and whatever rows were listed with it.  And a ready bundle has   *)
(* not got there by leaving evidence out: every check run that was listed, on *)
(* whichever page, is of that head, and where statuses were listed there is   *)
(* one of that head among them.                                             *)
EvidenceOfHead ==
  outcome \in {"ready", "attention"} =>
    /\ \A r \in ByHead : kept[r] \subseteq heads["pull"]
    /\ outcome = "ready" =>
         /\ heads["check_runs"] \subseteq kept["check_runs"]
         /\ heads["statuses"] # {} => kept["statuses"] # {}

(* main ends, even when GitHub rate limits every request.                   *)
EventuallyEnds == <>(outcome # "running")

(* CHANGELOG.md: rate-limit exhaustion yields UNAVAILABLE or                *)
(* INSUFFICIENT_EVIDENCE evidence, never a passing result.                  *)
RateLimitNeverPasses == limited # {} => outcome # "ready"

(* README.md: the terminal action rebinds every observation to the expected *)
(* head; the changed files of a snapshot would be those of its head.        *)
FilesOfHead ==
  outcome \in {"ready", "attention"} => heads["files"] \subseteq heads["pull"]
=============================================================================
