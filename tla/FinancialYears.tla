--------------------------- MODULE FinancialYears ---------------------------
(***************************************************************************)
(* FinancialYearsService: creating, opening and closing a year.  Closing   *)
(* is four statements - load, count the unfinished vouchers, total the     *)
(* ledger, freeze - with no lock on the vouchers between them.             *)
(***************************************************************************)
EXTENDS Books

\* What blocks closing.  A Rejected voucher does not.
Unfinished == {"Draft", "PendingApproval", "Approved"}

UnfinishedIn(y) ==
  {v \in Vouchers : Exists(v) /\ voucher[v].year = y /\ voucher[v].status \in Unfinished}

PostedIn(y) ==
  {v \in Vouchers : Exists(v) /\ voucher[v].year = y /\ voucher[v].status = "Posted"}

\* Income and expenditure are sums over the ledger lines of Posted vouchers.
SummedIn(y) == {v \in PostedIn(y) : ledger[v] # <<>>}

YearMemory ==
  [op : {"open", "close"}, pc : {"count", "total", "write"}, year : Years,
   needs : SUBSET {"sums", "count"}, figures : Figures]

YearRequest(op, pc, y) ==
  [op |-> op, pc |-> pc, year |-> y,
   needs |-> IF op = "close" THEN {"sums", "count"} ELSE {}, figures |-> NoFigures]

YearAt(r, op, pc) == request[r] # Idle /\ request[r].op = op /\ request[r].pc = pc

-----------------------------------------------------------------------------

\* The exclusion constraint keeps ranges apart; a year is one identifier here.
CreateYear(r) ==
  /\ request[r] = Idle
  /\ \E y \in Years :
       /\ year[y].status = "absent"
       /\ year' = [year EXCEPT ![y].status = "upcoming"]
  /\ UNCHANGED <<voucher, ledger, sequence, request, approvals>>

OpenLoad(r) ==
  /\ \E y \in Years :
       /\ year[y].status \in {"upcoming", "open"}
       /\ Accept(r, YearRequest("open", "write", y))
  /\ UNCHANGED <<tables, approvals>>

\* Clears the current year and opens this one, in one transaction.
OpenWrite(r) ==
  /\ YearAt(r, "open", "write")
  /\ year' = [y \in Years |->
       IF y = request[r].year
       THEN [year[y] EXCEPT !.status = "open", !.current = TRUE]
       ELSE [year[y] EXCEPT !.current = FALSE]]
  /\ Finish(r)
  /\ UNCHANGED <<voucher, ledger, sequence, approvals>>

CloseLoad(r) ==
  /\ \E y \in Years :
       /\ year[y].status \in {"upcoming", "open"}
       /\ Accept(r, YearRequest("close", "count", y))
  /\ UNCHANGED <<tables, approvals>>

\* Mutant: an Approved voucher does not count as unfinished.
BugCloseCount(r) ==
  /\ YearAt(r, "close", "count")
  /\ \A v \in UnfinishedIn(request[r].year) : voucher[v].status = "Approved"
  /\ Advance(r, "total")
  /\ UNCHANGED <<tables, approvals>>

CloseCount(r) ==
  /\ YearAt(r, "close", "count")
  /\ UnfinishedIn(request[r].year) = {}
  /\ Advance(r, "total")
  /\ UNCHANGED <<tables, approvals>>

\* liveTotals issues its two queries together, on separate connections.
TotalSums(r) ==
  /\ YearAt(r, "close", "total")
  /\ "sums" \in request[r].needs
  /\ request' = [request EXCEPT ![r].needs = @ \ {"sums"},
                   ![r].figures.summed = SummedIn(request[r].year)]
  /\ UNCHANGED <<tables, approvals>>

TotalCount(r) ==
  /\ YearAt(r, "close", "total")
  /\ "count" \in request[r].needs
  /\ request' = [request EXCEPT ![r].needs = @ \ {"count"},
                   ![r].figures.counted = PostedIn(request[r].year)]
  /\ UNCHANGED <<tables, approvals>>

CloseWrite(r) ==
  /\ YearAt(r, "close", "total")
  /\ request[r].needs = {}
  /\ year' = [year EXCEPT ![request[r].year] =
       [status |-> "closed", current |-> FALSE, figures |-> request[r].figures]]
  /\ Finish(r)
  /\ UNCHANGED <<voucher, ledger, sequence, approvals>>

YearStep(r) ==
  \/ CreateYear(r)
  \/ OpenLoad(r) \/ OpenWrite(r)
  \/ CloseLoad(r) \/ CloseCount(r) \/ TotalSums(r) \/ TotalCount(r) \/ CloseWrite(r)
=============================================================================
