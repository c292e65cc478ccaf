------------------------------ MODULE Vouchers ------------------------------
(***************************************************************************)
(* VouchersService: the receipt, payment, contra and journal lifecycle.    *)
(* Every handler loads the row, checks it, looks up the financial year of  *)
(* the voucher's date, and only then writes - by id, with no condition on  *)
(* the status it checked.                                                  *)
(***************************************************************************)
EXTENDS Books, FiniteSets

\* Mutants of the status lists: one status too many.
BugCancellable == {"Draft", "PendingApproval", "Posted"}
BugSubmittable == {"Draft", "Rejected", "Cancelled"}

Editable == {"Draft", "PendingApproval", "Rejected"}
Cancellable == {"Draft", "PendingApproval"}
Submittable == {"Draft", "Rejected"}

\* assertMayAct
MayAct(u, row) == u \in ManageAll \/ row.creator = u

\* assertNotSelfApproval
MayDecide(u, row) == row.creator = u => AllowSelfApproval

CreateMemory ==
  [pc : {"resolve", "allocate", "insert"}, op : {"create", "raise"},
   user : Users, year : Years, content : Contents, ref : Ref]

VoucherMemory ==
  [pc : {"load", "resolve", "write"},
   op : {"update", "submit", "approve", "reject", "post", "cancel"},
   user : Users, id : Vouchers, year : Years, content : Contents]

NoRef == [in |-> 0, no |-> 0]

\* What a handler keeps of the row it loaded: the date and the coding.
Remember(op, pc, u, v, y, c) ==
  [pc |-> pc, op |-> op, user |-> u, id |-> v, year |-> y, content |-> c]

RememberRow(op, pc, u, v) ==
  Remember(op, pc, u, v, voucher[v].year, voucher[v].content)

At(r, op, pc) == request[r] # Idle /\ request[r].op = op /\ request[r].pc = pc

-----------------------------------------------------------------------------
(* create and raiseForApproval *)

\* A create from the vouchers screen, or one another module raises: it will
\* carry on into submit.
CreateBegin(r) ==
  /\ \E op \in {"create", "raise"}, u \in Users, y \in Years, c \in Contents :
       Accept(r, [pc |-> "resolve", op |-> op, user |-> u, year |-> y,
                  content |-> c, ref |-> NoRef])
  /\ UNCHANGED <<tables, approvals>>

\* resolveOpenYear, on the date of the new voucher or of the loaded one.
ResolveOpenYear(r) ==
  /\ request[r] # Idle
  /\ request[r].pc = "resolve"
  /\ year[request[r].year].status \in {"upcoming", "open"}
  /\ Advance(r, IF request[r].op \in {"create", "raise"} THEN "allocate" ELSE "write")
  /\ UNCHANGED <<tables, approvals>>

\* Mutant: the next number is looked up, not drawn.
BugAllocateRef(r) ==
  /\ request[r] # Idle
  /\ request[r].pc = "allocate"
  /\ LET y == request[r].year
     IN /\ sequence[y] <= MaxRef
        /\ request' = [request EXCEPT ![r].pc = "insert",
                         ![r].ref = [in |-> CalendarYear[y], no |-> sequence[y]]]
  /\ UNCHANGED <<voucher, ledger, sequence, year, approvals>>

\* allocateRef commits on its own, so an insert that fails leaves a gap.
AllocateRef(r) ==
  /\ request[r] # Idle
  /\ request[r].pc = "allocate"
  /\ LET y == request[r].year
     IN /\ sequence[y] <= MaxRef
        /\ sequence' = [sequence EXCEPT ![y] = @ + 1]
        /\ request' = [request EXCEPT ![r].pc = "insert",
                         ![r].ref = [in |-> CalendarYear[y], no |-> sequence[y]]]
  /\ UNCHANGED <<voucher, ledger, year, approvals>>

CreateInsert(r) ==
  /\ request[r] # Idle
  /\ request[r].pc = "insert"
  /\ \E v \in Vouchers :
       /\ ~Exists(v)
       /\ UniqueRef(request[r].ref)
       /\ voucher' = [voucher EXCEPT ![v] =
            [status |-> "Draft", year |-> request[r].year,
             content |-> request[r].content, creator |-> request[r].user,
             decider |-> NoUser, posted |-> FALSE, ref |-> request[r].ref]]
       /\ IF request[r].op = "create"
          THEN Finish(r)
          ELSE request' = [request EXCEPT ![r] =
                 Remember("submit", "load", request[r].user, v,
                          request[r].year, request[r].content)]
  /\ UNCHANGED <<ledger, sequence, year, approvals>>

-----------------------------------------------------------------------------
(* update *)

UpdateLoad(r) ==
  /\ \E u \in Users, v \in Vouchers, y \in Years, c \in Contents :
       /\ Exists(v)
       /\ MayAct(u, voucher[v])
       /\ voucher[v].status \in Editable
       /\ Accept(r, Remember("update", "resolve", u, v, y, c))
  /\ UNCHANGED <<tables, approvals>>

\* The transaction that replaces the lines and returns the voucher to Draft.
UpdateWrite(r) ==
  /\ At(r, "update", "write")
  /\ LET v == request[r].id
     IN /\ GuardPostedVoucherLine(v)
        /\ UpdateVoucherRow(v, [voucher[v] EXCEPT
             !.status = "Draft", !.year = request[r].year,
             !.content = request[r].content, !.decider = NoUser])
  /\ Finish(r)
  /\ UNCHANGED <<ledger, sequence, year, approvals>>

-----------------------------------------------------------------------------
(* submit *)

SubmitLoad(r) ==
  /\ \E u \in Users, v \in Vouchers :
       /\ Exists(v)
       /\ MayAct(u, voucher[v])
       /\ voucher[v].status \in Submittable
       /\ Accept(r, RememberRow("submit", "resolve", u, v))
  /\ UNCHANGED <<tables, approvals>>

\* The second half of raiseForApproval.
RaiseSubmitLoad(r) ==
  /\ At(r, "submit", "load")
  /\ voucher[request[r].id].status \in Submittable
  /\ request' = [request EXCEPT ![r] =
       RememberRow("submit", "resolve", request[r].user, request[r].id)]
  /\ UNCHANGED <<tables, approvals>>

\* Mutant: the wire spelling of the status is written to the row.
BugSubmitWrite(r) ==
  /\ At(r, "submit", "write")
  /\ UpdateVoucherRow(request[r].id, [voucher[request[r].id] EXCEPT
       !.status = "Pending Approval", !.decider = NoUser])
  /\ Finish(r)
  /\ UNCHANGED <<ledger, sequence, year, approvals>>

SubmitWrite(r) ==
  /\ At(r, "submit", "write")
  /\ UpdateVoucherRow(request[r].id, [voucher[request[r].id] EXCEPT
       !.status = "PendingApproval", !.decider = NoUser])
  /\ Finish(r)
  /\ UNCHANGED <<ledger, sequence, year, approvals>>

-----------------------------------------------------------------------------
(* approve and reject *)

\* Mutant: no check for self-approval.
BugApproveLoad(r) ==
  /\ \E u \in Approvers, v \in Vouchers :
       /\ Exists(v)
       /\ voucher[v].status = "PendingApproval"
       /\ Accept(r, RememberRow("approve", "resolve", u, v))
  /\ UNCHANGED <<tables, approvals>>

ApproveLoad(r) ==
  /\ \E u \in Approvers, v \in Vouchers :
       /\ Exists(v)
       /\ voucher[v].status = "PendingApproval"
       /\ MayDecide(u, voucher[v])
       /\ Accept(r, RememberRow("approve", "resolve", u, v))
  /\ UNCHANGED <<tables, approvals>>

ApproveWrite(r) ==
  /\ At(r, "approve", "write")
  /\ LET v == request[r].id
     IN /\ UpdateVoucherRow(v, [voucher[v] EXCEPT
             !.status = "Approved", !.decider = request[r].user])
        /\ approvals' = approvals \cup
             {[id |-> v, by |-> request[r].user,
               saw |-> [year |-> request[r].year, content |-> request[r].content],
               passed |-> [year |-> voucher[v].year, content |-> voucher[v].content]]}
  /\ Finish(r)
  /\ UNCHANGED <<ledger, sequence, year>>

RejectLoad(r) ==
  /\ \E u \in Approvers, v \in Vouchers :
       /\ Exists(v)
       /\ voucher[v].status = "PendingApproval"
       /\ MayDecide(u, voucher[v])
       /\ Accept(r, RememberRow("reject", "write", u, v))
  /\ UNCHANGED <<tables, approvals>>

RejectWrite(r) ==
  /\ At(r, "reject", "write")
  /\ UpdateVoucherRow(request[r].id, [voucher[request[r].id] EXCEPT
       !.status = "Rejected", !.decider = request[r].user])
  /\ Finish(r)
  /\ UNCHANGED <<ledger, sequence, year, approvals>>

-----------------------------------------------------------------------------
(* post *)

PostLoad(r) ==
  /\ \E u \in Posters, v \in Vouchers :
       /\ Exists(v)
       /\ voucher[v].status = "Approved"
       /\ Accept(r, RememberRow("post", "resolve", u, v))
  /\ UNCHANGED <<tables, approvals>>

\* Mutants: the lines are dated with the day of posting; the lines are read
\* again inside the transaction.
PostAs(r, posting) ==
  /\ At(r, "post", "write")
  /\ LET v == request[r].id
     IN /\ UniqueVoucherLine(v)
        /\ ledger' = [ledger EXCEPT ![v] = Append(@, posting)]
        /\ UpdateVoucherRow(v, [voucher[v] EXCEPT !.status = "Posted", !.posted = TRUE])
  /\ Finish(r)
  /\ UNCHANGED <<sequence, year, approvals>>
BugPostToday(r) ==
  \E y \in Years : year[y].status = "open" /\
    PostAs(r, [year |-> y, content |-> request[r].content])
BugPostReread(r) ==
  PostAs(r, [year |-> voucher[request[r].id].year,
             content |-> voucher[request[r].id].content])

\* One transaction: the ledger lines, built from the row as it was loaded, and
\* the status.
PostWrite(r) ==
  /\ At(r, "post", "write")
  /\ LET v == request[r].id
     IN /\ UniqueVoucherLine(v)
        /\ ledger' = [ledger EXCEPT ![v] =
             Append(@, [year |-> request[r].year, content |-> request[r].content])]
        /\ UpdateVoucherRow(v, [voucher[v] EXCEPT !.status = "Posted", !.posted = TRUE])
  /\ Finish(r)
  /\ UNCHANGED <<sequence, year, approvals>>

-----------------------------------------------------------------------------
(* cancel *)

CancelLoad(r) ==
  /\ \E u \in Users, v \in Vouchers :
       /\ Exists(v)
       /\ MayAct(u, voucher[v])
       /\ voucher[v].status \in Cancellable
       /\ Accept(r, RememberRow("cancel", "write", u, v))
  /\ UNCHANGED <<tables, approvals>>

CancelWrite(r) ==
  /\ At(r, "cancel", "write")
  /\ UpdateVoucherRow(request[r].id, [voucher[request[r].id] EXCEPT
       !.status = "Cancelled"])
  /\ Finish(r)
  /\ UNCHANGED <<ledger, sequence, year, approvals>>

-----------------------------------------------------------------------------

VoucherStep(r) ==
  \/ CreateBegin(r) \/ ResolveOpenYear(r) \/ AllocateRef(r) \/ CreateInsert(r)
  \/ UpdateLoad(r) \/ UpdateWrite(r)
  \/ SubmitLoad(r) \/ RaiseSubmitLoad(r) \/ SubmitWrite(r)
  \/ ApproveLoad(r) \/ ApproveWrite(r)
  \/ RejectLoad(r) \/ RejectWrite(r)
  \/ PostLoad(r) \/ PostWrite(r)
  \/ CancelLoad(r) \/ CancelWrite(r)
=============================================================================
