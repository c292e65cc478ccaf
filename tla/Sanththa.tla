------------------------------ MODULE Sanththa ------------------------------
(***************************************************************************)
(* SanththaService: the yearly subscription of members.  The register row  *)
(* and the receipt voucher that banks it are written in different          *)
(* transactions: record raises the receipt first and inserts the row last, *)
(* update rewrites the receipt, submits it again and changes the row last. *)
(*                                                                         *)
(* The voucher desk is one step an operation (Vouchers models its insides),*)
(* and works while a handler is in flight.                                 *)
(***************************************************************************)
EXTENDS FiniteSets

CONSTANTS Members, Years, Amounts, Vouchers, Requests, Null

ASSUME NullAssumption == Null \notin Vouchers \cup Amounts

VARIABLES
  active,     \* members.is_active
  rate,       \* the sanththa_rates table, Null where a year has none
  enrolled,   \* the sanththa_enrolments table
  payment,    \* the sanththa_payments table, by member and year
  voucher,    \* the receipts and other vouchers at the desk
  request     \* what each handler remembers

tables == <<active, rate, enrolled, payment, voucher>>
vars == <<tables, request>>

-----------------------------------------------------------------------------
(* Rows and memories *)

Dues == Members \X Years
NoDue == <<Null, Null>>

Voided == {"Rejected", "Cancelled"}
Correctable == {"Draft", "PendingApproval", "Rejected"}
Submittable == {"Draft", "Rejected"}

Unpaid == [amount |-> Null, receipt |-> Null]
PaymentRow == [amount : Amounts, receipt : Vouchers]

\* A voucher the service codes says whose subscription it receipts; the lines the
\* desk writes itself say nothing of subscriptions.
Unraised == [status |-> "Absent"]
VoucherRow ==
  [status : {"Draft", "PendingApproval", "Approved", "Rejected", "Posted", "Cancelled"},
   kind : {"receipt", "payment"}, due : Dues \cup {NoDue}, amount : Amounts \cup {Null}]

Receipt(due, amount) == [status |-> "Draft", kind |-> "receipt", due |-> due, amount |-> amount]
Other(kind) == [status |-> "Draft", kind |-> kind, due |-> NoDue, amount |-> Null]

Idle == [pc |-> "idle"]
Memory ==
  [pc : {"price", "raise", "submit", "assert", "insert"}, op : {"record"},
   due : Dues, amount : Amounts \cup {Null}, receipt : Vouchers \cup {Null}]
  \cup [pc : {"rewrite", "submit", "write"}, op : {"update"},
        due : Dues, amount : Amounts, receipt : Vouchers]
  \cup [pc : {"insert", "paid", "delete"}, op : {"enrol", "unenrol"}, due : Dues]

Paid(due) == payment[due] # Unpaid
Raised(v) == voucher[v] # Unraised
TiedTo(v) == {due \in Dues : payment[due].receipt = v}

-----------------------------------------------------------------------------
(* Steps of a handler *)

Accept(r, memory) ==
  /\ request[r] = Idle
  /\ request' = [request EXCEPT ![r] = memory]

At(r, op, pc) == request[r] # Idle /\ request[r].op = op /\ request[r].pc = pc
Advance(r, pc) == request' = [request EXCEPT ![r].pc = pc]
Finish(r) == request' = [request EXCEPT ![r] = Idle]

\* A check throws, a statement is refused by a constraint or the process stops.
Abort(r) ==
  /\ request[r] # Idle
  /\ Finish(r)
  /\ UNCHANGED tables

-----------------------------------------------------------------------------
(* record *)

\* Mutant: nobody looks for an earlier payment.
BugMayPay(due) == TRUE
MayPay(due) == ~Paid(due)

\* The amount and the receipt of the request, Null when it names none.
RecordLoad(r) ==
  /\ \E due \in Dues, amount \in Amounts \cup {Null}, v \in Vouchers \cup {Null} :
       /\ MayPay(due)
       /\ Accept(r, [pc |-> "price", op |-> "record", due |-> due,
                     amount |-> amount, receipt |-> v])
  /\ UNCHANGED tables

\* rateForOrFail, only when the request names no amount.
RecordPrice(r) ==
  /\ At(r, "record", "price")
  /\ LET m == request[r]
         amount == IF m.amount = Null THEN rate[m.due[2]] ELSE m.amount
     IN /\ amount # Null
        /\ request' = [request EXCEPT ![r].amount = amount,
             ![r].pc = IF m.receipt = Null THEN "raise" ELSE "assert"]
  /\ UNCHANGED tables

\* raiseReceipt, as far as the draft.
RaiseDraft(r) ==
  /\ At(r, "record", "raise")
  /\ \E v \in Vouchers :
       /\ ~Raised(v)
       /\ voucher' = [voucher EXCEPT ![v] = Receipt(request[r].due, request[r].amount)]
       /\ request' = [request EXCEPT ![r].receipt = v, ![r].pc = "submit"]
  /\ UNCHANGED <<active, rate, enrolled, payment>>

\* vouchers.submit, of a receipt raised or rewritten just before.
SubmitReceipt(r) ==
  /\ \/ At(r, "record", "submit") /\ Advance(r, "insert")
     \/ At(r, "update", "submit") /\ Advance(r, "write")
  /\ voucher[request[r].receipt].status \in Submittable
  /\ voucher' = [voucher EXCEPT ![request[r].receipt].status = "PendingApproval"]
  /\ UNCHANGED <<active, rate, enrolled, payment>>

\* assertReceipt, of a receipt the request names.
RecordAssert(r) ==
  /\ At(r, "record", "assert")
  /\ LET v == request[r].receipt
     IN /\ Raised(v)
        /\ voucher[v].kind = "receipt"
        /\ voucher[v].status \notin Voided
        /\ TiedTo(v) = {}
  /\ Advance(r, "insert")
  /\ UNCHANGED tables

\* Mutant: the table has no index on the receipt.
BugUnused(v) == TRUE
Unused(v) == TiedTo(v) = {}     \* one_payment_per_receipt

RecordInsert(r) ==
  /\ At(r, "record", "insert")
  /\ ~Paid(request[r].due)      \* one_payment_per_member_per_year
  /\ Unused(request[r].receipt)
  /\ payment' = [payment EXCEPT ![request[r].due] =
       [amount |-> request[r].amount, receipt |-> request[r].receipt]]
  /\ Finish(r)
  /\ UNCHANGED <<active, rate, enrolled, voucher>>

-----------------------------------------------------------------------------
(* update *)

UpdateLoad(r) ==
  /\ \E due \in Dues, amount \in Amounts :
       /\ Paid(due)
       /\ voucher[payment[due].receipt].status \in Correctable
       /\ Accept(r, [pc |-> "rewrite", op |-> "update", due |-> due, amount |-> amount,
                     receipt |-> payment[due].receipt])
  /\ UNCHANGED tables

\* vouchers.update: the lines are replaced and the receipt returns to Draft.  It
\* keeps its kind, so a voucher of the other kind is refused.
UpdateRewrite(r) ==
  /\ At(r, "update", "rewrite")
  /\ voucher[request[r].receipt].status \in Correctable
  /\ voucher[request[r].receipt].kind = "receipt"
  /\ voucher' = [voucher EXCEPT ![request[r].receipt] = Receipt(request[r].due, request[r].amount)]
  /\ Advance(r, "submit")
  /\ UNCHANGED <<active, rate, enrolled, payment>>

Corrected(row, m) == [row EXCEPT !.amount = m.amount]

UpdateWrite(r) ==
  /\ At(r, "update", "write")
  /\ payment' = [payment EXCEPT ![request[r].due] = Corrected(@, request[r])]
  /\ Finish(r)
  /\ UNCHANGED <<active, rate, enrolled, voucher>>

-----------------------------------------------------------------------------
(* setRate, enrol, unenrol, and the register's own update *)

SetRate ==
  /\ \E y \in Years, amount \in Amounts : rate' = [rate EXCEPT ![y] = amount]
  /\ UNCHANGED <<active, enrolled, payment, voucher, request>>

EnrolLoad(r) ==
  /\ \E due \in Dues \ enrolled :
       /\ active[due[1]]
       /\ Accept(r, [pc |-> "insert", op |-> "enrol", due |-> due])
  /\ UNCHANGED tables

EnrolInsert(r) ==
  /\ At(r, "enrol", "insert")
  /\ request[r].due \notin enrolled
  /\ enrolled' = enrolled \cup {request[r].due}
  /\ Finish(r)
  /\ UNCHANGED <<active, rate, payment, voucher>>

UnenrolLoad(r) ==
  /\ \E due \in enrolled : Accept(r, [pc |-> "paid", op |-> "unenrol", due |-> due])
  /\ UNCHANGED tables

\* Mutant: whoever has paid is taken off as well.
BugUnenrollable(due) == due \in enrolled
Unenrollable(due) == ~Paid(due)

UnenrolPaid(r) ==
  /\ At(r, "unenrol", "paid")
  /\ Unenrollable(request[r].due)
  /\ Advance(r, "delete")
  /\ UNCHANGED tables

UnenrolDelete(r) ==
  /\ At(r, "unenrol", "delete")
  /\ request[r].due \in enrolled
  /\ enrolled' = enrolled \ {request[r].due}
  /\ Finish(r)
  /\ UNCHANGED <<active, rate, payment, voucher>>

\* SponsorsService.update and retire.
SetMembership ==
  /\ \E m \in Members : active' = [active EXCEPT ![m] = ~@]
  /\ UNCHANGED <<rate, enrolled, payment, voucher, request>>

-----------------------------------------------------------------------------
(* The voucher desk *)

Become(from, to) ==
  \E v \in Vouchers :
    /\ voucher[v].status \in from
    /\ voucher' = [voucher EXCEPT ![v].status = to]

Desk ==
  /\ \/ \E v \in Vouchers, kind \in {"receipt", "payment"} :
          ~Raised(v) /\ voucher' = [voucher EXCEPT ![v] = Other(kind)]
     \/ \E v \in Vouchers :
          /\ voucher[v].status \in Correctable
          /\ voucher' = [voucher EXCEPT ![v] = Other(@.kind)]
     \/ Become(Submittable, "PendingApproval")
     \/ Become({"PendingApproval"}, "Approved")
     \/ Become({"PendingApproval"}, "Rejected")
     \/ Become({"Draft", "PendingApproval"}, "Cancelled")
     \/ Become({"Approved"}, "Posted")
  /\ UNCHANGED <<active, rate, enrolled, payment, request>>

-----------------------------------------------------------------------------

Init ==
  /\ active = [m \in Members |-> TRUE]
  /\ rate = [y \in Years |-> Null]
  /\ enrolled = {}
  /\ payment = [due \in Dues |-> Unpaid]
  /\ voucher = [v \in Vouchers |-> Unraised]
  /\ request = [r \in Requests |-> Idle]

Step(r) ==
  \/ RecordLoad(r) \/ RecordPrice(r) \/ RaiseDraft(r) \/ SubmitReceipt(r)
  \/ RecordAssert(r) \/ RecordInsert(r)
  \/ UpdateLoad(r) \/ UpdateRewrite(r) \/ UpdateWrite(r)
  \/ EnrolLoad(r) \/ EnrolInsert(r)
  \/ UnenrolLoad(r) \/ UnenrolPaid(r) \/ UnenrolDelete(r)
  \/ Abort(r)

Next == (\E r \in Requests : Step(r)) \/ SetRate \/ SetMembership \/ Desk

Spec == Init /\ [][Next]_vars

-----------------------------------------------------------------------------
(* Properties *)

\* The shape of the tables and of the memories.
TypeOK ==
  /\ active \in [Members -> BOOLEAN]
  /\ rate \in [Years -> Amounts \cup {Null}]
  /\ enrolled \subseteq Dues
  /\ payment \in [Dues -> PaymentRow \cup {Unpaid}]
  /\ voucher \in [Vouchers -> VoucherRow \cup {Unraised}]
  /\ request \in [Requests -> Memory \cup {Idle}]

\* However two collectors and the desk overlap, no receipt evidences two
\* subscriptions, and each evidences with a receipt that was really raised.
\* (assertReceipt, one_payment_per_receipt.)
EachOnItsOwnReceipt ==
  \A due \in Dues : Paid(due) =>
    /\ TiedTo(payment[due].receipt) = {due}
    /\ Raised(payment[due].receipt)
    /\ voucher[payment[due].receipt].kind = "receipt"

\* What the service coded for a subscription is that subscription's receipt, and for
\* its amount: money is receipted once, and the register says what the receipt says.
\* (record: validate everything before creating the voucher.)
ReceiptsMatchRegister ==
  \A v \in Vouchers : Raised(v) /\ voucher[v].due # NoDue =>
    /\ payment[voucher[v].due].receipt = v
    /\ payment[voucher[v].due].amount = voucher[v].amount

\* A subscription is not taken on a receipt that was rejected or cancelled.
\* (assertReceipt: a subscription cannot be evidenced by it.)
TakenOnLiveReceipt ==
  \A due \in Dues : ~Paid(due) /\ payment'[due] # Unpaid =>
    voucher[payment'[due].receipt].status \notin {"Rejected", "Cancelled"}

\* Whoever has paid a year stays enrolled for it.  (unenrol: correct the payment
\* first.)
PaidStaysEnrolled == \A due \in enrolled : Paid(due) => due \in enrolled'
=============================================================================
