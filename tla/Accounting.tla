------------------------------ MODULE Accounting ------------------------------
(***************************************************************************)
(* The accounting core: vouchers and financial years served side by side   *)
(* over the same tables.                                                   *)
(***************************************************************************)
EXTENDS Vouchers, FinancialYears

Init == BooksInit

Next == \E r \in Requests : VoucherStep(r) \/ YearStep(r) \/ Abort(r)

Spec == Init /\ [][Next]_vars

Approval == [id : Vouchers, by : Users, saw : Posting, passed : Posting]

\* The shape of every table and of every handler's memory.
TypeOK ==
  /\ voucher \in [Vouchers -> {Absent} \cup VoucherRow]
  /\ ledger \in [Vouchers -> Seq(Posting)]
  /\ sequence \in [Years -> Nat]
  /\ year \in [Years -> YearRow]
  /\ request \in [Requests -> {Idle} \cup CreateMemory \cup VoucherMemory \cup YearMemory]
  /\ approvals \subseteq Approval
-----------------------------------------------------------------------------
(* What holds however requests overlap, because a row is written under the *)
(* rules of the database.                                                  *)

\* A voucher is in the ledger at most once, and exactly when its posting stamp
\* is set: two post requests, or a post and a stale write of any other kind,
\* never leave a posting without its stamp or a stamp without its posting.
\* (VouchersService.post and UNIQUE voucher_line.)
PostedOnce ==
  \A v \in Vouchers :
    /\ Len(ledger[v]) <= 1
    /\ ledger[v] # <<>> <=> Exists(v) /\ voucher[v].posted

\* Every posting is of a date and coding that an approval let through for that
\* voucher, even when the voucher was edited while the post was in flight.
\* (VouchersService.post reads the coding before its transaction.)
PostedWasApproved ==
  \A v \in Vouchers : \A i \in DOMAIN ledger[v] :
    \E a \in approvals : a.id = v /\ a.passed = ledger[v][i]

\* Approval is a second pair of eyes: no approval was given by the voucher's
\* own creator unless the setting allows it, and the stamp on an Approved or
\* stamped voucher is of somebody who may give one.
\* (assertNotSelfApproval, and decidedBy through edits and stale writes.)
SecondPairOfEyes ==
  /\ \A a \in approvals : MayDecide(a.by, voucher[a.id])
  /\ \A v \in Vouchers :
       Exists(v) /\ (voucher[v].posted \/ voucher[v].status = "Approved") =>
         voucher[v].decider \in Approvers /\ MayDecide(voucher[v].decider, voucher[v])

\* Once a voucher carries its posting stamp its date and coding never change,
\* even after a stale write has moved its status off Posted and the triggers
\* that guard a Posted row no longer apply.
PostedContentFrozen ==
  [][\A v \in Vouchers :
       Exists(v) /\ voucher[v].posted =>
         /\ voucher'[v].posted
         /\ voucher'[v].year = voucher[v].year
         /\ voucher'[v].content = voucher[v].content]_vars

\* A reference is printed on one voucher only: no two vouchers, and no two
\* requests holding one they have not inserted yet, share one.  It rests on
\* voucher_sequences alone; the unique key is only a second line of defence.
RefsHandedOnce ==
  /\ \A v, w \in Vouchers :
       Exists(v) /\ Exists(w) /\ v # w => voucher[v].ref # voucher[w].ref
  /\ \A r \in Requests : request[r].pc = "insert" =>
       /\ \A v \in Vouchers : Exists(v) => voucher[v].ref # request[r].ref
       /\ \A s \in Requests \ {r} :
            request[s].pc = "insert" => request[s].ref # request[r].ref

-----------------------------------------------------------------------------
(* What the service checks promise.  These hold while one request at a     *)
(* time is served; with two in flight each has a counterexample.           *)

\* Only Posted touches the ledger, and what it holds is the voucher as it
\* stands: its date and its coding.  (README, The voucher lifecycle.)
OnlyPostedTouchesLedger ==
  \A v \in Vouchers : ledger[v] # <<>> => voucher[v].status = "Posted"

LedgerMatchesVoucher ==
  \A v \in Vouchers : \A i \in DOMAIN ledger[v] :
    ledger[v][i] = [year |-> voucher[v].year, content |-> voucher[v].content]

\* What an approval lets through is what its handler had loaded, not a later
\* edit.  (README, The voucher lifecycle: approval is a second pair of eyes.)
ApprovedAsReviewed == \A a \in approvals : a.saw = a.passed

\* Approved and posted entries are corrected by a further entry, never
\* rewritten.  (The comment above EDITABLE.)
ApprovedNeverRewritten ==
  [][\A v \in Vouchers :
       Exists(v) /\ voucher[v].status \in {"Approved", "Posted"} =>
         /\ voucher'[v].year = voucher[v].year
         /\ voucher'[v].content = voucher[v].content]_vars

\* The figures of a closed year are those of the ledger: nothing is posted
\* into the year after its totals were taken.  (README, Closing a year.)
ClosedFiguresStand ==
  \A y \in Years : year[y].status = "closed" =>
    /\ year[y].figures.summed = SummedIn(y)
    /\ year[y].figures.counted = PostedIn(y)

\* A year with unposted vouchers will not close: none of a closed year's
\* vouchers is still on its way to the ledger.  (README, Closing a year.)
ClosedYearIsFinished ==
  \A y \in Years : year[y].status = "closed" => UnfinishedIn(y) = {}

\* A closed year is over: its figures stand and none of its vouchers is left behind.
\* (close: count, totals and freeze are three statements.)
ClosedYearIsOver == ClosedFiguresStand /\ ClosedYearIsFinished

\* Closing refuses further postings: no posting is dated in a year that is
\* closed when it is written.  (README, Closing a year.)
ClosedRefusesPostings ==
  [][\A v \in Vouchers : \A i \in DOMAIN ledger'[v] \ DOMAIN ledger[v] :
       year[ledger'[v][i].year].status # "closed"]_vars

\* A closed year cannot be reopened.  (README, and FinancialYearsService.open.)
ClosedIsFinal ==
  [][\A y \in Years : year[y].status = "closed" => year'[y] = year[y]]_vars

\* Served one request at a time, the services implement the atomic lifecycle:
\* every statement of a handler is a step of AtomicBooks or no step at all.
Promise == INSTANCE AtomicBooks WITH
  status    <- [v \in Vouchers |-> voucher[v].status],
  entry     <- [v \in Vouchers |->
                 IF Exists(v) THEN [year |-> voucher[v].year, content |-> voucher[v].content]
                 ELSE <<>>],
  posted    <- UNION {{[voucher |-> v, entry |-> ledger[v][i]] : i \in DOMAIN ledger[v]}
                      : v \in Vouchers},
  phase     <- [y \in Years |-> year[y].status],
  published <- [y \in Years |->
                 {[voucher |-> v, entry |-> ledger[v][1]] : v \in year[y].figures.summed}]

ImplementsPromise == Promise!Spec
=============================================================================
