---------------------------- MODULE SanththaProofs ----------------------------
(***************************************************************************)
(* Proofs about Sanththa, for any members, years, vouchers and collectors  *)
(* at work at once: a subscription is on a receipt, a real one, and on one *)
(* that is no other subscription's.                                        *)
(*                                                                         *)
(* The index on the receipt keeps two rows apart; that the receipt is one  *)
(* has to travel with the handler from the step that raised it, or found   *)
(* it, to the insert, while the desk works on the same voucher.            *)
(*                                                                         *)
(* Until two collectors, or a collector and the desk, are first at work at *)
(* once, what a handler found still stands when it goes on (AloneInv), and *)
(* until one is stopped half way every receipt but the one in hand says    *)
(* what the register says (MatchInv).                                      *)
(***************************************************************************)
EXTENDS MCSanththa, TLAPS

RecordMemory ==
  [pc : {"price", "raise", "submit", "assert", "insert"}, op : {"record"},
   due : Dues, amount : Amounts \cup {Null}, receipt : Vouchers \cup {Null}]
UpdateMemory ==
  [pc : {"rewrite", "submit", "write"}, op : {"update"},
   due : Dues, amount : Amounts, receipt : Vouchers]
ListMemory ==
  [pc : {"insert", "paid", "delete"}, op : {"enrol", "unenrol"}, due : Dues]

\* A memory is of one of three kinds, told apart by its operation.
LEMMA MemoryKinds ==
  ASSUME TypeOK, NEW r \in Requests, request[r] # Idle
  PROVE  /\ request[r].op = "record" => request[r] \in RecordMemory
         /\ request[r].op = "update" => request[r] \in UpdateMemory
         /\ request[r].op \in {"enrol", "unenrol"} => request[r] \in ListMemory
         /\ request[r].due \in Dues
  BY DEF TypeOK, Memory, RecordMemory, UpdateMemory, ListMemory

\* What a recording handler holds: an amount once priced, a voucher once one is
\* raised or named, and a receipt where it goes on to the register.
Holding(m) ==
  m # Idle /\ m.op = "record" =>
    /\ m.pc # "price" => m.amount \in Amounts
    /\ m.pc \in {"submit", "assert", "insert"} => m.receipt \in Vouchers
    /\ m.pc \in {"submit", "insert"} => Raised(m.receipt) /\ voucher[m.receipt].kind = "receipt"

\* A handler that corrects a subscription has found it paid.
Recorded(m) == m # Idle /\ m.op = "update" => Paid(m.due)

SanththaInv ==
  /\ TypeOK
  /\ \A r \in Requests : Holding(request[r])
  /\ \A r \in Requests : Recorded(request[r])
  /\ EachOnItsOwnReceipt

-----------------------------------------------------------------------------
(* The rows *)

\* A voucher that was raised has a row, and one that was not has none of its fields.
LEMMA RaisedRow ==
  ASSUME TypeOK, NEW v \in Vouchers
  PROVE  /\ Raised(v) <=> voucher[v] \in VoucherRow
         /\ voucher[v].status # "Absent" => Raised(v)
  BY DEF TypeOK, Raised, Unraised, VoucherRow

\* A paid subscription has a row.
LEMMA PaidRow ==
  ASSUME TypeOK, NEW due \in Dues
  PROVE  /\ Paid(due) <=> payment[due] \in PaymentRow
         /\ Paid(due) <=> payment[due].receipt \in Vouchers
  BY NullAssumption DEF TypeOK, Paid, Unpaid, PaymentRow

-----------------------------------------------------------------------------
(* Vouchers are never taken back, and never change their kind. *)

KindsKept ==
  \A v \in Vouchers : Raised(v) => Raised(v)' /\ voucher'[v].kind = voucher[v].kind

\* A change of status is no more than that.
LEMMA StatusStep ==
  ASSUME TypeOK, NEW v \in Vouchers, Raised(v),
         NEW s \in {"Draft", "PendingApproval", "Approved", "Rejected", "Posted", "Cancelled"},
         voucher' = [voucher EXCEPT ![v].status = s]
  PROVE  KindsKept /\ voucher' \in [Vouchers -> VoucherRow \cup {Unraised}]
<1>1. voucher[v] \in VoucherRow
  BY RaisedRow
<1>2. [voucher[v] EXCEPT !.status = s] \in VoucherRow
  BY <1>1 DEF VoucherRow
<1>3. voucher'[v] \in VoucherRow /\ voucher'[v].kind = voucher[v].kind
  BY <1>1, <1>2 DEF TypeOK, VoucherRow
<1>4. \A w \in Vouchers \ {v} : voucher'[w] = voucher[w]
  BY DEF TypeOK
<1>5. voucher'[v] # Unraised
  BY <1>3 DEF VoucherRow, Unraised
<1> QED
  BY <1>2, <1>3, <1>4, <1>5 DEF KindsKept, Raised, TypeOK

\* A row written anew, over none or over one of the same kind.
LEMMA RowStep ==
  ASSUME TypeOK, NEW v \in Vouchers, NEW row \in VoucherRow,
         Raised(v) => row.kind = voucher[v].kind,
         voucher' = [voucher EXCEPT ![v] = row]
  PROVE  KindsKept /\ voucher' \in [Vouchers -> VoucherRow \cup {Unraised}]
<1>1. row # Unraised
  BY DEF VoucherRow, Unraised
<1> QED
  BY <1>1 DEF KindsKept, Raised, TypeOK

\* The desk may do what it likes with a voucher, but for its kind.
LEMMA DeskStep ==
  ASSUME TypeOK, Desk
  PROVE  KindsKept /\ voucher' \in [Vouchers -> VoucherRow \cup {Unraised}]
<1>1. ASSUME NEW from, NEW to \in {"Draft", "PendingApproval", "Approved", "Rejected",
                                   "Posted", "Cancelled"},
             "Absent" \notin from, Become(from, to)
      PROVE  KindsKept /\ voucher' \in [Vouchers -> VoucherRow \cup {Unraised}]
  <2>1. PICK v \in Vouchers : voucher[v].status \in from
                              /\ voucher' = [voucher EXCEPT ![v].status = to]
    BY <1>1 DEF Become
  <2>2. Raised(v)
    BY <1>1, <2>1, RaisedRow
  <2> QED
    BY <2>1, <2>2, StatusStep
<1>2. \A kind \in {"receipt", "payment"} : Other(kind) \in VoucherRow /\ Other(kind).kind = kind
  BY DEF Other, VoucherRow
<1>3. ASSUME NEW v \in Vouchers, NEW kind \in {"receipt", "payment"}, ~Raised(v),
             voucher' = [voucher EXCEPT ![v] = Other(kind)]
      PROVE  KindsKept /\ voucher' \in [Vouchers -> VoucherRow \cup {Unraised}]
  BY <1>2, <1>3, RowStep
<1>4. ASSUME NEW v \in Vouchers, voucher[v].status \in Correctable,
             voucher' = [voucher EXCEPT ![v] = Other(@.kind)]
      PROVE  KindsKept /\ voucher' \in [Vouchers -> VoucherRow \cup {Unraised}]
  <2>1. voucher[v] \in VoucherRow
    BY <1>4, RaisedRow DEF Correctable
  <2>2. voucher[v].kind \in {"receipt", "payment"}
    BY <2>1 DEF VoucherRow
  <2>3. voucher' = [voucher EXCEPT ![v] = Other(voucher[v].kind)]
    BY <1>4 DEF TypeOK
  <2> QED
    BY <1>2, <2>2, <2>3, RowStep
<1> QED
  BY <1>1, <1>3, <1>4 DEF Desk, Submittable

\* A handler writes receipts over receipts, or over nothing.
LEMMA ReceiptStep ==
  ASSUME SanththaInv, NEW r \in Requests,
         RaiseDraft(r) \/ UpdateRewrite(r) \/ SubmitReceipt(r)
  PROVE  KindsKept /\ voucher' \in [Vouchers -> VoucherRow \cup {Unraised}]
<1> USE DEF SanththaInv
<1>1. \A due \in Dues, amount \in Amounts :
        Receipt(due, amount) \in VoucherRow /\ Receipt(due, amount).kind = "receipt"
  BY DEF Receipt, VoucherRow
<1>2. CASE RaiseDraft(r)
  <2>1. request[r].due \in Dues /\ request[r].amount \in Amounts
    BY <1>2, MemoryKinds DEF RaiseDraft, At, Holding
  <2>2. PICK v \in Vouchers :
          ~Raised(v)
          /\ voucher' = [voucher EXCEPT ![v] = Receipt(request[r].due, request[r].amount)]
    BY <1>2 DEF RaiseDraft
  <2> QED
    BY <1>1, <2>1, <2>2, RowStep
<1>3. CASE UpdateRewrite(r)
  <2>1. request[r] \in UpdateMemory
    BY <1>3, MemoryKinds DEF UpdateRewrite, At
  <2>2. request[r].due \in Dues /\ request[r].amount \in Amounts /\ request[r].receipt \in Vouchers
    BY <2>1 DEF UpdateMemory
  <2> QED
    BY <1>1, <1>3, <2>2, RowStep DEF UpdateRewrite
<1>4. CASE SubmitReceipt(r)
  <2>1. request[r].receipt \in Vouchers
    BY <1>4, MemoryKinds DEF SubmitReceipt, At, Holding, UpdateMemory
  <2>2. Raised(request[r].receipt)
    BY <1>4, <2>1, RaisedRow DEF SubmitReceipt, Submittable
  <2> QED
    BY <1>4, <2>1, <2>2, StatusStep DEF SubmitReceipt
<1> QED
  BY <1>2, <1>3, <1>4

\* No step takes a voucher back or changes its kind.
LEMMA VoucherStep ==
  ASSUME SanththaInv, [Next]_vars
  PROVE  KindsKept /\ voucher' \in [Vouchers -> VoucherRow \cup {Unraised}]
<1>1. CASE voucher' = voucher
  BY <1>1 DEF SanththaInv, TypeOK, KindsKept, Raised
<1>2. CASE Desk
  BY <1>2, DeskStep DEF SanththaInv
<1>3. ASSUME NEW r \in Requests, Step(r), voucher' # voucher
      PROVE  RaiseDraft(r) \/ UpdateRewrite(r) \/ SubmitReceipt(r)
  BY <1>3 DEF Step, RecordLoad, RecordPrice, RecordAssert, RecordInsert, UpdateLoad, UpdateWrite,
              EnrolLoad, EnrolInsert, UnenrolLoad, UnenrolPaid, UnenrolDelete, Abort, tables
<1> QED
  BY <1>1, <1>2, <1>3, ReceiptStep DEF Next, SetRate, SetMembership, vars, tables

-----------------------------------------------------------------------------
(* What a handler holds *)

\* Moving on within a memory changes its pc and nothing else.
LEMMA Advanced ==
  ASSUME TypeOK, NEW r \in Requests, request[r] # Idle, NEW pc, Advance(r, pc)
  PROVE  /\ request[r] \in RecordMemory =>
              /\ request'[r].op = "record" /\ request'[r].pc = pc
              /\ request'[r].amount = request[r].amount
              /\ request'[r].receipt = request[r].receipt
              /\ pc \in {"submit", "insert"} => request'[r] \in RecordMemory
         /\ request[r] \in UpdateMemory =>
              /\ request'[r].op = "update"
              /\ pc \in {"submit", "write"} => request'[r] \in UpdateMemory
         /\ request[r] \in ListMemory =>
              /\ request'[r].op \in {"enrol", "unenrol"}
              /\ pc = "delete" => request'[r] \in ListMemory
         /\ \A s \in Requests \ {r} : request'[s] = request[s]
         /\ request' = [request EXCEPT ![r] = request'[r]]
<1>1. /\ \A s \in Requests \ {r} : request'[s] = request[s]
      /\ request' = [request EXCEPT ![r] = request'[r]]
  BY DEF Advance, TypeOK
<1> DEFINE m == request[r]
           new == [m EXCEPT !.pc = pc]
<1>2. m \in RecordMemory => new.op = "record" /\ new.pc = pc /\ new.amount = m.amount
                            /\ new.receipt = m.receipt
                            /\ (pc \in {"submit", "insert"} => new \in RecordMemory)
  BY DEF RecordMemory
<1>3. m \in UpdateMemory => new.op = "update" /\ (pc \in {"submit", "write"} => new \in UpdateMemory)
  BY DEF UpdateMemory
<1>4. m \in ListMemory => new.op \in {"enrol", "unenrol"} /\ (pc = "delete" => new \in ListMemory)
  BY DEF ListMemory
<1>5. request'[r] = new
  BY DEF Advance, TypeOK
<1> HIDE DEF new
<1> QED
  BY <1>1, <1>2, <1>3, <1>4, <1>5

\* One handler's memory changes, to one of the right shape that holds what it should.
LEMMA MemoryStep ==
  ASSUME SanththaInv, KindsKept, NEW r \in Requests, request'[r] \in Memory \cup {Idle},
         request' = [request EXCEPT ![r] = request'[r]], Holding(request[r])'
  PROVE  /\ request' \in [Requests -> Memory \cup {Idle}]
         /\ \A s \in Requests : Holding(request[s])'
<1>1. ASSUME NEW s \in Requests \ {r} PROVE Holding(request[s])'
  <2>1. request'[s] = request[s] /\ Holding(request[s])
    BY DEF SanththaInv, TypeOK
  <2> QED
    BY <2>1 DEF Holding, KindsKept
<1> QED
  BY <1>1 DEF SanththaInv, TypeOK

\* And where none does, what is held still stands.
LEMMA MemoryKept ==
  ASSUME SanththaInv, KindsKept, request' = request
  PROVE  /\ request' \in [Requests -> Memory \cup {Idle}]
         /\ \A s \in Requests : Holding(request[s])'
  BY DEF SanththaInv, TypeOK, Holding, KindsKept

\* Whatever a handler of the register does, what it and the others hold is right.
LEMMA HandlerStep ==
  ASSUME SanththaInv, KindsKept, NEW r \in Requests, Step(r)
  PROVE  /\ request' \in [Requests -> Memory \cup {Idle}]
         /\ \A s \in Requests : Holding(request[s])'
<1> DEFINE m == request[r]
<1>0. TypeOK /\ Holding(m) /\ RecordMemory \cup UpdateMemory \cup ListMemory = Memory
  BY DEF SanththaInv, Memory, RecordMemory, UpdateMemory, ListMemory
<1>1. ASSUME NEW new \in Memory \cup {Idle}, request' = [request EXCEPT ![r] = new]
      PROVE  request'[r] = new /\ request'[r] \in Memory \cup {Idle}
             /\ request' = [request EXCEPT ![r] = request'[r]]
  BY <1>0, <1>1 DEF TypeOK
<1>2. CASE RecordLoad(r)
  <2>1. PICK due \in Dues, amount \in Amounts \cup {Null}, v \in Vouchers \cup {Null} :
          request' = [request EXCEPT ![r] = [pc |-> "price", op |-> "record", due |-> due,
                                             amount |-> amount, receipt |-> v]]
    BY <1>2 DEF RecordLoad, Accept
  <2> DEFINE new == [pc |-> "price", op |-> "record", due |-> due,
                     amount |-> amount, receipt |-> v]
  <2>2. new \in Memory /\ new.pc = "price"
    BY DEF Memory
  <2> HIDE DEF new
  <2>3. request'[r].pc = "price"
    BY <1>1, <2>1, <2>2 DEF new
  <2>4. Holding(request[r])'
    BY <2>3 DEF Holding
  <2> QED
    BY <1>1, <2>1, <2>2, <2>4, MemoryStep DEF new
<1>3. CASE RecordPrice(r)
  <2>1. m \in RecordMemory /\ m.due[2] \in Years
    BY <1>0, <1>3, MemoryKinds DEF RecordPrice, At, Dues
  <2> DEFINE amount == IF m.amount = Null THEN rate[m.due[2]] ELSE m.amount
             pc == IF m.receipt = Null THEN "raise" ELSE "assert"
             new == [m EXCEPT !.amount = amount, !.pc = pc]
  <2>2. amount \in Amounts
    BY <1>0, <1>3, <2>1 DEF RecordPrice, TypeOK, RecordMemory
  <2>3. request'[r] = new /\ request' = [request EXCEPT ![r] = request'[r]]
    BY <1>0, <1>3 DEF RecordPrice, TypeOK
  <2>4. pc \in {"raise", "assert"} /\ (pc = "assert" => m.receipt \in Vouchers)
    BY <2>1 DEF RecordMemory
  <2> HIDE DEF amount, pc
  <2>5. /\ new \in RecordMemory /\ new.op = "record" /\ new.amount = amount
        /\ new.pc = pc /\ new.receipt = m.receipt
    BY <2>1, <2>2, <2>4 DEF RecordMemory
  <2> HIDE DEF new
  <2>6. Holding(request[r])'
    BY <2>2, <2>3, <2>4, <2>5 DEF Holding
  <2> QED
    BY <1>0, <2>3, <2>5, <2>6, MemoryStep
<1>4. CASE RaiseDraft(r)
  <2>1. m \in RecordMemory /\ m.amount \in Amounts /\ m.due \in Dues
    BY <1>0, <1>4, MemoryKinds DEF RaiseDraft, At, Holding
  <2>2. PICK v \in Vouchers :
          /\ voucher' = [voucher EXCEPT ![v] = Receipt(m.due, m.amount)]
          /\ request' = [request EXCEPT ![r].receipt = v, ![r].pc = "submit"]
    BY <1>4 DEF RaiseDraft
  <2> DEFINE new == [m EXCEPT !.receipt = v, !.pc = "submit"]
  <2>3. request'[r] = new /\ request' = [request EXCEPT ![r] = request'[r]]
    BY <1>0, <2>2 DEF TypeOK
  <2>4. new \in RecordMemory /\ new.op = "record" /\ new.amount = m.amount
        /\ new.pc = "submit" /\ new.receipt = v
    BY <2>1 DEF RecordMemory
  <2>5. voucher'[v] # Unraised /\ voucher'[v].kind = "receipt"
    BY <1>0, <2>1, <2>2 DEF TypeOK, Unraised, Receipt
  <2> HIDE DEF new
  <2>6. Holding(request[r])'
    BY <2>1, <2>3, <2>4, <2>5 DEF Holding, Raised
  <2> QED
    BY <1>0, <2>3, <2>4, <2>6, MemoryStep
<1>5. CASE SubmitReceipt(r) /\ m.op = "record"
  <2>1. m # Idle /\ m.pc = "submit" /\ Advance(r, "insert")
    BY <1>5 DEF SubmitReceipt, At
  <2>2. m \in RecordMemory
    BY <1>0, <1>5, <2>1, MemoryKinds
  <2>3. /\ request'[r] \in RecordMemory
        /\ request'[r].pc = "insert"
        /\ request'[r].amount = m.amount /\ request'[r].receipt = m.receipt
        /\ request' = [request EXCEPT ![r] = request'[r]]
    BY <1>0, <2>1, <2>2, Advanced
  <2>4. /\ m.receipt \in Vouchers /\ m.amount \in Amounts
        /\ voucher'[m.receipt] # Unraised /\ voucher'[m.receipt].kind = "receipt"
    BY <1>0, <1>5, <2>1 DEF Holding, KindsKept, Raised
  <2>5. Holding(request[r])'
    BY <2>3, <2>4 DEF Holding, Raised
  <2> QED
    BY <1>0, <2>3, <2>5, MemoryStep DEF Holding
<1>6. CASE RecordAssert(r)
  <2>1. m # Idle /\ m.op = "record" /\ m.pc = "assert" /\ Advance(r, "insert")
    BY <1>6 DEF RecordAssert, At
  <2>2. m \in RecordMemory
    BY <1>0, <2>1, MemoryKinds
  <2>3. /\ request'[r] \in RecordMemory
        /\ request'[r].pc = "insert"
        /\ request'[r].amount = m.amount /\ request'[r].receipt = m.receipt
        /\ request' = [request EXCEPT ![r] = request'[r]]
    BY <1>0, <2>1, <2>2, Advanced
  <2>4. /\ m.receipt \in Vouchers /\ m.amount \in Amounts
        /\ voucher'[m.receipt] # Unraised /\ voucher'[m.receipt].kind = "receipt"
    BY <1>0, <1>6, <2>1 DEF Holding, KindsKept, RecordAssert, Raised
  <2>5. Holding(request[r])'
    BY <2>3, <2>4 DEF Holding, Raised
  <2> QED
    BY <1>0, <2>3, <2>5, MemoryStep DEF Holding
<1>7. CASE UpdateLoad(r)
  <2>1. PICK due \in Dues, amount \in Amounts :
          /\ Paid(due)
          /\ request' = [request EXCEPT ![r] =
               [pc |-> "rewrite", op |-> "update", due |-> due, amount |-> amount,
                receipt |-> payment[due].receipt]]
    BY <1>7 DEF UpdateLoad, Accept
  <2> DEFINE new == [pc |-> "rewrite", op |-> "update", due |-> due, amount |-> amount,
                     receipt |-> payment[due].receipt]
  <2>2. payment[due].receipt \in Vouchers
    BY <1>0, <2>1, PaidRow
  <2>3. new \in Memory /\ new.op = "update"
    BY <2>2 DEF Memory
  <2>4. request'[r] = new /\ request' = [request EXCEPT ![r] = request'[r]]
    BY <1>0, <2>1 DEF TypeOK
  <2> HIDE DEF new
  <2>5. Holding(request[r])'
    BY <2>3, <2>4 DEF Holding
  <2> QED
    BY <2>3, <2>4, <2>5, MemoryStep
<1>8. CASE UpdateRewrite(r) \/ (SubmitReceipt(r) /\ m.op # "record")
  <2>1. PICK pc \in {"submit", "write"} : m # Idle /\ m.op = "update" /\ Advance(r, pc)
    BY <1>8 DEF UpdateRewrite, SubmitReceipt, At
  <2>2. m \in UpdateMemory
    BY <1>0, <2>1, MemoryKinds
  <2>3. /\ request'[r] \in UpdateMemory /\ request'[r].op = "update"
        /\ request' = [request EXCEPT ![r] = request'[r]]
    BY <1>0, <2>1, <2>2, Advanced
  <2>4. Holding(request[r])'
    BY <2>3 DEF Holding
  <2> QED
    BY <1>0, <2>3, <2>4, MemoryStep DEF Holding
<1>9. CASE EnrolLoad(r) \/ UnenrolLoad(r)
  <2>1. PICK due \in Dues, pc \in {"insert", "paid"}, op \in {"enrol", "unenrol"} :
          request' = [request EXCEPT ![r] = [pc |-> pc, op |-> op, due |-> due]]
    BY <1>0, <1>9 DEF EnrolLoad, UnenrolLoad, Accept, TypeOK
  <2> DEFINE new == [pc |-> pc, op |-> op, due |-> due]
  <2>2. new \in ListMemory /\ new.op # "record"
    BY DEF ListMemory
  <2>3. request'[r] = new /\ request' = [request EXCEPT ![r] = request'[r]]
    BY <1>0, <2>1 DEF TypeOK
  <2> HIDE DEF new
  <2>4. Holding(request[r])'
    BY <2>2, <2>3 DEF Holding
  <2> QED
    BY <1>0, <2>2, <2>3, <2>4, MemoryStep
<1>10. CASE UnenrolPaid(r)
  <2>1. m # Idle /\ m.op = "unenrol" /\ Advance(r, "delete")
    BY <1>10 DEF UnenrolPaid, At
  <2>2. m \in ListMemory
    BY <1>0, <2>1, MemoryKinds
  <2>3. /\ request'[r] \in ListMemory /\ request'[r].op \in {"enrol", "unenrol"}
        /\ request' = [request EXCEPT ![r] = request'[r]]
    BY <1>0, <2>1, <2>2, Advanced
  <2>4. Holding(request[r])'
    BY <2>3 DEF Holding
  <2> QED
    BY <1>0, <2>3, <2>4, MemoryStep DEF Holding
<1>11. CASE RecordInsert(r) \/ UpdateWrite(r) \/ EnrolInsert(r) \/ UnenrolDelete(r) \/ Abort(r)
  <2>1. request' = [request EXCEPT ![r] = Idle]
    BY <1>11 DEF RecordInsert, UpdateWrite, EnrolInsert, UnenrolDelete, Abort, Finish
  <2>2. request'[r] = Idle
    BY <1>0, <2>1 DEF TypeOK
  <2>3. Holding(request[r])'
    BY <2>2 DEF Holding
  <2> QED
    BY <1>1, <2>1, <2>3, MemoryStep
<1> QED
  BY <1>2, <1>3, <1>4, <1>5, <1>6, <1>7, <1>8, <1>9, <1>10, <1>11 DEF Step

-----------------------------------------------------------------------------
(* The register *)

\* The register changes when a subscription is recorded or corrected, and only then.
LEMMA PaymentWriters ==
  ASSUME [Next]_vars
  PROVE  payment' = payment \/ \E r \in Requests : RecordInsert(r) \/ UpdateWrite(r)
  BY DEF Next, Step, RecordLoad, RecordPrice, RaiseDraft, SubmitReceipt, RecordAssert, UpdateLoad,
         UpdateRewrite, EnrolLoad, EnrolInsert, UnenrolLoad, UnenrolPaid, UnenrolDelete, Abort,
         SetRate, SetMembership, Desk, vars, tables

\* A correction changes the amount of the row it finds, and nothing of a row it does not.
LEMMA CorrectedRow ==
  ASSUME TypeOK, NEW due \in Dues, NEW m \in UpdateMemory
  PROVE  /\ Corrected(payment[due], m).receipt = payment[due].receipt
         /\ Paid(due) => Corrected(payment[due], m) \in PaymentRow
  BY PaidRow DEF TypeOK, Corrected, PaymentRow, UpdateMemory, Unpaid

\* A subscription once paid stays paid, on the same receipt, and the rows keep their shape.
LEMMA PaymentStep ==
  ASSUME SanththaInv, [Next]_vars
  PROVE  /\ payment' \in [Dues -> PaymentRow \cup {Unpaid}]
         /\ \A due \in Dues : Paid(due) => /\ payment'[due] \in PaymentRow
                                         /\ payment'[due].receipt = payment[due].receipt
<1>0. TypeOK
  BY DEF SanththaInv
<1>1. CASE payment' = payment
  BY <1>0, <1>1, PaidRow DEF TypeOK
<1>2. ASSUME NEW r \in Requests, RecordInsert(r)
      PROVE  /\ payment' \in [Dues -> PaymentRow \cup {Unpaid}]
             /\ \A due \in Dues : Paid(due) => /\ payment'[due] \in PaymentRow
                                             /\ payment'[due].receipt = payment[due].receipt
  <2>1. request[r] # Idle /\ request[r].op = "record" /\ request[r].pc = "insert"
    BY <1>2 DEF RecordInsert, At
  <2>2. request[r].due \in Dues
    BY <1>0, <2>1, MemoryKinds
  <2>3. request[r].amount \in Amounts /\ request[r].receipt \in Vouchers
    BY <2>1 DEF SanththaInv, Holding
  <2>4. [amount |-> request[r].amount, receipt |-> request[r].receipt] \in PaymentRow
    BY <2>3 DEF PaymentRow
  <2>5. \A due \in Dues \ {request[r].due} : payment'[due] = payment[due]
    BY <1>0, <1>2, <2>2 DEF RecordInsert, TypeOK
  <2>6. ~Paid(request[r].due)
    BY <1>2 DEF RecordInsert
  <2> QED
    BY <1>0, <1>2, <2>2, <2>4, <2>5, <2>6, PaidRow DEF RecordInsert, TypeOK
<1>3. ASSUME NEW r \in Requests, UpdateWrite(r)
      PROVE  /\ payment' \in [Dues -> PaymentRow \cup {Unpaid}]
             /\ \A due \in Dues : Paid(due) => /\ payment'[due] \in PaymentRow
                                             /\ payment'[due].receipt = payment[due].receipt
  <2>1. request[r] # Idle /\ request[r].op = "update"
    BY <1>3 DEF UpdateWrite, At
  <2>2. request[r].due \in Dues /\ request[r] \in UpdateMemory /\ Paid(request[r].due)
    BY <1>0, <2>1, MemoryKinds DEF SanththaInv, Recorded
  <2> DEFINE new == Corrected(payment[request[r].due], request[r])
  <2>3. new.receipt = payment[request[r].due].receipt /\ new \in PaymentRow
    BY <1>0, <2>2, CorrectedRow
  <2>4. payment' = [payment EXCEPT ![request[r].due] = new]
    BY <1>0, <1>3 DEF UpdateWrite, TypeOK
  <2> HIDE DEF new
  <2>5. payment'[request[r].due] = new
        /\ \A due \in Dues \ {request[r].due} : payment'[due] = payment[due]
    BY <1>0, <2>2, <2>4 DEF TypeOK
  <2> QED
    BY <1>0, <2>2, <2>3, <2>4, <2>5, PaidRow DEF TypeOK
<1> QED
  BY <1>1, <1>2, <1>3, PaymentWriters

\* A handler that corrects a subscription has found it, and nobody takes it off.
LEMMA RecordedStep ==
  ASSUME SanththaInv, [Next]_vars, NEW s \in Requests
  PROVE  Recorded(request[s])'
<1>0. TypeOK /\ \A due \in Dues : Paid(due) => Paid(due)'
  <2>1. PaymentRow \cap {Unpaid} = {}
    BY NullAssumption DEF PaymentRow, Unpaid
  <2> QED
    BY <2>1, PaymentStep DEF SanththaInv, Paid
<1>1. SUFFICES ASSUME request'[s] # Idle, request'[s].op = "update"
               PROVE  payment'[request'[s].due] # Unpaid
  BY DEF Recorded, Paid
<1>2. CASE request[s] # Idle /\ request[s].op = "update" /\ request'[s].due = request[s].due
  <2>1. request[s].due \in Dues /\ Paid(request[s].due)
    BY <1>0, <1>2, MemoryKinds DEF SanththaInv, Recorded
  <2> QED
    BY <1>0, <1>2, <2>1 DEF Paid
<1>3. CASE \E due \in Dues : Paid(due) /\ request'[s].due = due
  BY <1>0, <1>3 DEF Paid
<1>4. CASE request'[s] = request[s]
  BY <1>1, <1>2, <1>4
<1>5. ASSUME request'[s] # request[s]
      PROVE  \/ request[s] # Idle /\ request[s].op = "update" /\ request'[s].due = request[s].due
             \/ \E due \in Dues : Paid(due) /\ request'[s].due = due
  <2>1. PICK r \in Requests : Step(r)
    BY <1>5 DEF Next, SetRate, SetMembership, Desk, vars
  <2>2. ASSUME Finish(r) PROVE FALSE
    BY <1>0, <1>1, <1>5, <2>2 DEF Finish, TypeOK
  <2>3. CASE UpdateLoad(r)
    <3>1. PICK due \in Dues, amount \in Amounts :
            /\ Paid(due)
            /\ request' = [request EXCEPT ![r] =
                 [pc |-> "rewrite", op |-> "update", due |-> due, amount |-> amount,
                  receipt |-> payment[due].receipt]]
      BY <2>3 DEF UpdateLoad, Accept
    <3> QED
      BY <1>0, <1>5, <3>1 DEF TypeOK
  <2>4. CASE \E pc : Advance(r, pc) /\ request[r] # Idle
    <3>1. PICK pc : request' = [request EXCEPT ![r].pc = pc] /\ request[r] # Idle
      BY <2>4 DEF Advance
    <3>2. s = r /\ request'[s] = [request[s] EXCEPT !.pc = pc] /\ request[s] # Idle
      BY <1>0, <1>5, <3>1 DEF TypeOK
    <3>3. request[s] \in RecordMemory \cup UpdateMemory \cup ListMemory
      BY <1>0, <3>2 DEF TypeOK, Memory, RecordMemory, UpdateMemory, ListMemory
    <3>4. request'[s].op = request[s].op /\ request'[s].due = request[s].due
      BY <3>2, <3>3 DEF RecordMemory, UpdateMemory, ListMemory
    <3> QED
      BY <1>1, <3>2, <3>4
  <2>5. CASE RecordPrice(r) \/ RaiseDraft(r)
    <3>1. request[r] # Idle /\ request[r].op = "record"
      BY <2>5 DEF RecordPrice, RaiseDraft, At
    <3>2. request[r] \in RecordMemory
      BY <1>0, <3>1, MemoryKinds
    <3>3. s = r
      BY <1>0, <1>5, <2>5 DEF RecordPrice, RaiseDraft, TypeOK
    <3>4. request'[r].op = "record"
      BY <1>0, <2>5, <3>2 DEF RecordPrice, RaiseDraft, TypeOK, RecordMemory
    <3> QED
      BY <1>1, <3>3, <3>4
  <2>6. CASE RecordLoad(r) \/ EnrolLoad(r) \/ UnenrolLoad(r)
    <3>1. s = r /\ request'[s].op # "update"
      BY <1>0, <1>5, <2>6 DEF RecordLoad, EnrolLoad, UnenrolLoad, Accept, TypeOK
    <3> QED
      BY <1>1, <3>1
  <2>7. CASE SubmitReceipt(r) \/ RecordAssert(r) \/ UpdateRewrite(r) \/ UnenrolPaid(r)
    BY <2>4, <2>7 DEF SubmitReceipt, RecordAssert, UpdateRewrite, UnenrolPaid, At
  <2>8. CASE RecordInsert(r) \/ UpdateWrite(r) \/ EnrolInsert(r) \/ UnenrolDelete(r) \/ Abort(r)
    BY <2>2, <2>8 DEF RecordInsert, UpdateWrite, EnrolInsert, UnenrolDelete, Abort
  <2> QED
    BY <2>1, <2>3, <2>5, <2>6, <2>7, <2>8 DEF Step
<1> QED
  BY <1>2, <1>3, <1>4, <1>5

\* No two subscriptions come to stand on one receipt, whoever registers what.
LEMMA ReceiptsStep ==
  ASSUME SanththaInv, [Next]_vars
  PROVE  EachOnItsOwnReceipt'
<1>0. TypeOK /\ EachOnItsOwnReceipt
  BY DEF SanththaInv
<1> DEFINE Own(due) == /\ payment'[due].receipt \in Vouchers
                       /\ \A other \in Dues \ {due} : payment'[other].receipt # payment'[due].receipt
                       /\ voucher'[payment'[due].receipt] # Unraised
                       /\ voucher'[payment'[due].receipt].kind = "receipt"
<1>1. SUFFICES ASSUME NEW due \in Dues, payment'[due] # Unpaid PROVE Own(due)
  BY DEF EachOnItsOwnReceipt, Paid, TiedTo, Raised
<1>2. \A other \in Dues : Paid(other) =>
        /\ payment[other].receipt \in Vouchers
        /\ payment'[other].receipt = payment[other].receipt
        /\ \A third \in Dues \ {other} : payment[third].receipt # payment[other].receipt
        /\ voucher'[payment[other].receipt] # Unraised
        /\ voucher'[payment[other].receipt].kind = "receipt"
  <2> SUFFICES ASSUME NEW other \in Dues, Paid(other)
               PROVE  /\ payment[other].receipt \in Vouchers
                      /\ payment'[other].receipt = payment[other].receipt
                      /\ \A third \in Dues \ {other} : payment[third].receipt # payment[other].receipt
                      /\ voucher'[payment[other].receipt] # Unraised
                      /\ voucher'[payment[other].receipt].kind = "receipt"
    OBVIOUS
  <2>1. payment[other].receipt \in Vouchers
    BY <1>0, PaidRow
  <2>2. payment'[other].receipt = payment[other].receipt
    BY PaymentStep
  <2>3. \A third \in Dues \ {other} : payment[third].receipt # payment[other].receipt
    BY <1>0 DEF EachOnItsOwnReceipt, TiedTo
  <2>4. Raised(payment[other].receipt) /\ voucher[payment[other].receipt].kind = "receipt"
    BY <1>0 DEF EachOnItsOwnReceipt
  <2>5. voucher'[payment[other].receipt] # Unraised
        /\ voucher'[payment[other].receipt].kind = "receipt"
    BY <2>1, <2>4, VoucherStep DEF KindsKept, Raised
  <2> QED
    BY <2>1, <2>2, <2>3, <2>5
<1>3. \A other \in Dues : ~Paid(other) => payment[other].receipt = Null
  BY DEF Paid, Unpaid
<1>4. CASE \A other \in Dues : Paid(other) \/ payment'[other] = payment[other]
  <2>1. Paid(due)
    BY <1>1, <1>4 DEF Paid
  <2>2. \A other \in Dues : payment'[other].receipt = payment[other].receipt
    BY <1>2, <1>4
  <2> QED
    BY <1>2, <2>1, <2>2
<1>5. ASSUME NEW r \in Requests, RecordInsert(r) PROVE Own(due)
  <2> DEFINE new == request[r].due
             v == request[r].receipt
  <2>1. request[r] # Idle /\ request[r].op = "record" /\ request[r].pc = "insert"
    BY <1>5 DEF RecordInsert, At
  <2>2. new \in Dues
    BY <1>0, <2>1, MemoryKinds
  <2>3. v \in Vouchers /\ Raised(v) /\ voucher[v].kind = "receipt"
    BY <2>1 DEF SanththaInv, Holding
  <2>4. voucher'[v] # Unraised /\ voucher'[v].kind = "receipt"
    BY <2>3, VoucherStep DEF KindsKept, Raised
  <2>5. payment'[new].receipt = v /\ \A other \in Dues \ {new} : payment'[other] = payment[other]
    BY <1>0, <1>5, <2>2 DEF RecordInsert, TypeOK
  <2>6. \A other \in Dues : payment[other].receipt # v
    BY <1>5 DEF RecordInsert, Unused, TiedTo
  <2> HIDE DEF new, v
  <2>7. CASE due = new
    BY <2>2, <2>3, <2>4, <2>5, <2>6, <2>7
  <2>8. CASE due # new
    <3>1. Paid(due) /\ payment'[due] = payment[due]
      BY <1>1, <2>5, <2>8 DEF Paid
    <3> QED
      BY <1>2, <2>5, <2>6, <2>8, <3>1
  <2> QED
    BY <2>7, <2>8
<1>6. ASSUME NEW r \in Requests, UpdateWrite(r)
      PROVE  \A other \in Dues : Paid(other) \/ payment'[other] = payment[other]
  <2>1. request[r].due \in Dues /\ Paid(request[r].due)
    BY <1>0, <1>6, MemoryKinds DEF UpdateWrite, At, SanththaInv, Recorded
  <2> QED
    BY <1>0, <1>6, <2>1 DEF UpdateWrite, TypeOK
<1> QED
  BY <1>4, <1>5, <1>6, PaymentWriters

-----------------------------------------------------------------------------
(* The theorems *)

\* The books start empty and nothing is in flight.
LEMMA SanththaInit == Init => SanththaInv
<1> SUFFICES ASSUME Init PROVE SanththaInv
  OBVIOUS
<1>1. TypeOK
  BY DEF Init, TypeOK
<1>2. \A r \in Requests : Holding(request[r]) /\ Recorded(request[r])
  BY DEF Init, Holding, Recorded
<1>3. EachOnItsOwnReceipt
  BY DEF Init, EachOnItsOwnReceipt, Paid
<1> QED
  BY <1>1, <1>2, <1>3 DEF SanththaInv

\* Every step keeps the invariant.
LEMMA SanththaStep == SanththaInv /\ [Next]_vars => SanththaInv'
<1> SUFFICES ASSUME SanththaInv, [Next]_vars PROVE SanththaInv'
  OBVIOUS
<1>0. TypeOK
  BY DEF SanththaInv
<1>1. active' \in [Members -> BOOLEAN]
  BY <1>0 DEF TypeOK, Next, Step, SetRate, SetMembership, Desk, vars, tables, RecordLoad, RecordPrice,
              RaiseDraft, SubmitReceipt, RecordAssert, RecordInsert, UpdateLoad, UpdateRewrite,
              UpdateWrite, EnrolLoad, EnrolInsert, UnenrolLoad, UnenrolPaid, UnenrolDelete, Abort
<1>2. rate' \in [Years -> Amounts \cup {Null}]
  BY <1>0 DEF TypeOK, Next, Step, SetRate, SetMembership, Desk, vars, tables, RecordLoad, RecordPrice,
              RaiseDraft, SubmitReceipt, RecordAssert, RecordInsert, UpdateLoad, UpdateRewrite,
              UpdateWrite, EnrolLoad, EnrolInsert, UnenrolLoad, UnenrolPaid, UnenrolDelete, Abort
<1>3. enrolled' \subseteq Dues
  <2>1. CASE enrolled' = enrolled
    BY <1>0, <2>1 DEF TypeOK
  <2>2. ASSUME NEW r \in Requests, EnrolInsert(r) PROVE enrolled' \subseteq Dues
    BY <1>0, <2>2, MemoryKinds DEF EnrolInsert, At, TypeOK
  <2>3. ASSUME NEW r \in Requests, UnenrolDelete(r) PROVE enrolled' \subseteq Dues
    BY <1>0, <2>3 DEF UnenrolDelete, TypeOK
  <2>4. enrolled' = enrolled \/ \E r \in Requests : EnrolInsert(r) \/ UnenrolDelete(r)
    BY DEF Next, Step, SetRate, SetMembership, Desk, vars, tables, RecordLoad, RecordPrice,
           RaiseDraft, SubmitReceipt, RecordAssert, RecordInsert, UpdateLoad, UpdateRewrite,
           UpdateWrite, EnrolLoad, UnenrolLoad, UnenrolPaid, Abort
  <2> QED
    BY <2>1, <2>2, <2>3, <2>4
<1>4. KindsKept /\ voucher' \in [Vouchers -> VoucherRow \cup {Unraised}]
  BY VoucherStep
<1>5. payment' \in [Dues -> PaymentRow \cup {Unpaid}]
  BY PaymentStep
<1>6. /\ request' \in [Requests -> Memory \cup {Idle}]
      /\ \A s \in Requests : Holding(request[s])'
  <2>1. CASE request' = request
    BY <1>4, <2>1, MemoryKept
  <2>2. CASE request' # request
    <3>1. PICK r \in Requests : Step(r)
      BY <2>2 DEF Next, SetRate, SetMembership, Desk, vars
    <3> QED
      BY <1>4, <3>1, HandlerStep
  <2> QED
    BY <2>1, <2>2
<1>7. TypeOK'
  BY <1>1, <1>2, <1>3, <1>4, <1>5, <1>6 DEF TypeOK
<1>8. \A s \in Requests : Recorded(request[s])'
  BY RecordedStep
<1> QED
  BY <1>6, <1>7, <1>8, ReceiptsStep DEF SanththaInv

\* The invariant holds in every behaviour.
LEMMA SanththaInvariant == Spec => []SanththaInv
  BY SanththaInit, SanththaStep, PTL DEF Spec

\* The tables and the memories keep their shapes, however collectors and desk overlap.
THEOREM SanththaTypeCorrect == Spec => []TypeOK
<1>1. SanththaInv => TypeOK
  BY DEF SanththaInv
<1> QED
  BY <1>1, SanththaInvariant, PTL

\* However collectors and the desk overlap, no receipt evidences two subscriptions, and
\* each is on a voucher that was raised and is a receipt.
THEOREM EachOnItsOwnReceiptHolds == Spec => []EachOnItsOwnReceipt
<1>1. SanththaInv => EachOnItsOwnReceipt
  BY DEF SanththaInv
<1> QED
  BY <1>1, SanththaInvariant, PTL
-----------------------------------------------------------------------------
(* As long as handlers follow one another *)

Alone == \A r, s \in Requests : request[r] # Idle /\ request[s] # Idle => r = s

\* What a handler has found still stands when it goes on.
Fresh(m) ==
  /\ m # Idle /\ m.op = "record" =>
       /\ ~Paid(m.due)
       /\ m.pc = "submit" => voucher[m.receipt] = Receipt(m.due, m.amount)
       /\ m.pc \in {"submit", "insert"} => TiedTo(m.receipt) = {}
       /\ m.pc = "insert" => voucher[m.receipt].status \notin Voided
  /\ m # Idle /\ m.op = "update" =>
       /\ payment[m.due].receipt = m.receipt
       /\ m.pc \in {"submit", "write"} =>
            voucher[m.receipt].due = m.due /\ voucher[m.receipt].amount = m.amount
  /\ m # Idle /\ m.op = "unenrol" /\ m.pc = "delete" => ~Paid(m.due)

AloneInv == ~overlapped => Alone /\ \A r \in Requests : Fresh(request[r])

\* Until handlers overlap, a step leaves at most one in flight and lands in no other's way.
LEMMA NotYet ==
  ASSUME MCNext, ~overlapped'
  PROVE  /\ Next /\ ~overlapped /\ ~Meanwhile
         /\ \A r, s \in Requests : request'[r] # Idle /\ request'[s] # Idle => r = s
  BY DEF MCNext

\* A step is of a handler that is in flight or begins, and changes no other's memory.
LEMMA HandlerOf ==
  ASSUME SanththaInv, NEW r \in Requests, Step(r)
  PROVE  /\ request[r] # Idle \/ request'[r] # Idle
         /\ \A s \in Requests \ {r} : request'[s] = request[s]
<1>0. request \in [Requests -> Memory \cup {Idle}]
  BY DEF SanththaInv, TypeOK
<1>1. CASE RecordLoad(r) \/ UpdateLoad(r) \/ EnrolLoad(r) \/ UnenrolLoad(r)
  BY <1>0, <1>1 DEF RecordLoad, UpdateLoad, EnrolLoad, UnenrolLoad, Accept, Idle
<1>2. CASE RecordPrice(r) \/ RaiseDraft(r) \/ SubmitReceipt(r) \/ RecordAssert(r)
           \/ UpdateRewrite(r) \/ UnenrolPaid(r)
  BY <1>0, <1>2 DEF RecordPrice, RaiseDraft, SubmitReceipt, RecordAssert, UpdateRewrite,
                    UnenrolPaid, Advance, At
<1>3. CASE RecordInsert(r) \/ UpdateWrite(r) \/ EnrolInsert(r) \/ UnenrolDelete(r) \/ Abort(r)
  BY <1>0, <1>3 DEF RecordInsert, UpdateWrite, EnrolInsert, UnenrolDelete, Abort, Finish, At
<1> QED
  BY <1>1, <1>2, <1>3 DEF Step

\* Until handlers overlap, a step is of the only one in flight, or finds none.
LEMMA WhoseStep ==
  ASSUME SanththaInv, AloneInv, MCNext, ~overlapped'
  PROVE  \/ \E r \in Requests :
              Step(r) /\ \A s \in Requests \ {r} : request[s] = Idle /\ request'[s] = Idle
         \/ request' = request /\ tables' = tables
         \/ /\ SetRate \/ SetMembership \/ Desk
            /\ \A s \in Requests : request[s] = Idle /\ request'[s] = Idle
<1>0. ~overlapped /\ Alone /\ Next /\ ~Meanwhile
  BY NotYet DEF AloneInv
<1>1. ASSUME NEW r \in Requests, Step(r)
      PROVE  \A s \in Requests \ {r} : request[s] = Idle /\ request'[s] = Idle
  <2>1. CASE request[r] # Idle
    BY <1>0, <1>1, <2>1, HandlerOf DEF Alone
  <2>2. CASE request'[r] # Idle
    BY <1>1, <2>2, HandlerOf, NotYet
  <2> QED
    BY <1>1, <2>1, <2>2, HandlerOf
<1>2. CASE SetRate \/ SetMembership \/ Desk
  <2>1. request' = request
    BY <1>2 DEF SetRate, SetMembership, Desk
  <2> QED
    BY <1>0, <1>2, <2>1 DEF Meanwhile, Busy
<1> QED
  BY <1>0, <1>1, <1>2 DEF Next

\* Moving on within a memory changes its pc and nothing else.
LEMMA MovesOn ==
  ASSUME TypeOK, NEW r \in Requests, request[r] # Idle, NEW pc, Advance(r, pc)
  PROVE  /\ request'[r].op = request[r].op
         /\ request'[r].pc = pc
         /\ request'[r].due = request[r].due
         /\ request[r].op \in {"record", "update"} =>
              request'[r].receipt = request[r].receipt /\ request'[r].amount = request[r].amount
<1> DEFINE m == request[r]
           new == [m EXCEPT !.pc = pc]
<1>1. request'[r] = new
  BY DEF Advance, TypeOK
<1>2. m \in RecordMemory \/ m \in UpdateMemory \/ m \in ListMemory
  BY DEF TypeOK, Memory, RecordMemory, UpdateMemory, ListMemory
<1>3. CASE m \in RecordMemory
  BY <1>1, <1>3 DEF RecordMemory
<1>4. CASE m \in UpdateMemory
  BY <1>1, <1>4 DEF UpdateMemory
<1>5. CASE m \in ListMemory
  BY <1>1, <1>5 DEF ListMemory
<1> QED
  BY <1>2, <1>3, <1>4, <1>5

\* The draft a handler raises is nobody's yet.
LEMMA UnraisedIsFree ==
  ASSUME SanththaInv, NEW v \in Vouchers, ~Raised(v)
  PROVE  TiedTo(v) = {}
<1>1. ASSUME NEW due \in Dues, payment[due].receipt = v PROVE FALSE
  <2>1. Paid(due)
    BY <1>1, PaidRow DEF SanththaInv
  <2> QED
    BY <1>1, <2>1 DEF SanththaInv, EachOnItsOwnReceipt
<1> QED
  BY <1>1 DEF TiedTo

\* A handler that loads holds what it has just found.
LEMMA FreshLoad ==
  ASSUME SanththaInv, NEW r \in Requests,
         RecordLoad(r) \/ UpdateLoad(r) \/ EnrolLoad(r) \/ UnenrolLoad(r)
  PROVE  Fresh(request[r])'
<1>0. request \in [Requests -> Memory \cup {Idle}]
  BY DEF SanththaInv, TypeOK
<1>1. CASE RecordLoad(r)
  <2>1. payment' = payment
    BY <1>1 DEF RecordLoad, tables
  <2>2. PICK due \in Dues : /\ ~Paid(due)
                            /\ request'[r].op = "record" /\ request'[r].pc = "price"
                            /\ request'[r].due = due
    BY <1>0, <1>1 DEF RecordLoad, Accept, MayPay
  <2> QED
    BY <2>1, <2>2 DEF Fresh, Paid
<1>2. CASE UpdateLoad(r)
  <2>1. payment' = payment
    BY <1>2 DEF UpdateLoad, tables
  <2>2. PICK due \in Dues : /\ request'[r].op = "update" /\ request'[r].pc = "rewrite"
                            /\ request'[r].due = due /\ request'[r].receipt = payment[due].receipt
    BY <1>0, <1>2 DEF UpdateLoad, Accept
  <2> QED
    BY <2>1, <2>2 DEF Fresh
<1>3. CASE EnrolLoad(r) \/ UnenrolLoad(r)
  <2>1. request'[r].op \in {"enrol", "unenrol"} /\ request'[r].pc \in {"insert", "paid"}
    BY <1>0, <1>3 DEF EnrolLoad, UnenrolLoad, Accept
  <2> QED
    BY <2>1 DEF Fresh
<1> QED
  BY <1>1, <1>2, <1>3

\* What the only handler in flight remembers still stands after its step.
LEMMA FreshStep ==
  ASSUME SanththaInv, AloneInv, ~overlapped, NEW r \in Requests, Step(r)
  PROVE  Fresh(request[r])'
<1>0. TypeOK /\ Fresh(request[r]) /\ Holding(request[r])
  BY DEF SanththaInv, AloneInv
<1>1. CASE RecordPrice(r)
  <2>1. request[r] # Idle /\ request[r].op = "record" /\ payment' = payment
    BY <1>1 DEF RecordPrice, At, tables
  <2>2. request[r] \in RecordMemory
    BY <1>0, <2>1, MemoryKinds
  <2>3. /\ request'[r].op = "record" /\ request'[r].pc \in {"raise", "assert"}
        /\ request'[r].due = request[r].due
    BY <1>0, <1>1, <2>2 DEF RecordPrice, TypeOK, RecordMemory
  <2> QED
    BY <1>0, <2>1, <2>3 DEF Fresh, Paid
<1>2. CASE RaiseDraft(r)
  <2>1. request[r] # Idle /\ request[r].op = "record" /\ payment' = payment
    BY <1>2 DEF RaiseDraft, At
  <2>2. request[r] \in RecordMemory
    BY <1>0, <2>1, MemoryKinds
  <2>3. PICK v \in Vouchers :
          /\ ~Raised(v)
          /\ voucher' = [voucher EXCEPT ![v] = Receipt(request[r].due, request[r].amount)]
          /\ request' = [request EXCEPT ![r].receipt = v, ![r].pc = "submit"]
    BY <1>2 DEF RaiseDraft
  <2>4. /\ request'[r].op = "record" /\ request'[r].pc = "submit" /\ request'[r].receipt = v
        /\ request'[r].due = request[r].due /\ request'[r].amount = request[r].amount
    BY <1>0, <2>2, <2>3 DEF TypeOK, RecordMemory
  <2>5. voucher'[v] = Receipt(request[r].due, request[r].amount)
    BY <1>0, <2>3 DEF TypeOK
  <2>6. TiedTo(v) = {}
    BY <2>3, UnraisedIsFree
  <2> QED
    BY <1>0, <2>1, <2>4, <2>5, <2>6 DEF Fresh, Paid, TiedTo, Receipt
<1>3. CASE SubmitReceipt(r) /\ request[r].op = "record"
  <2>1. /\ request[r] # Idle /\ request[r].pc = "submit" /\ Advance(r, "insert")
        /\ payment' = payment
        /\ voucher' = [voucher EXCEPT ![request[r].receipt].status = "PendingApproval"]
    BY <1>3 DEF SubmitReceipt, At
  <2>2. /\ request'[r].op = "record" /\ request'[r].pc = "insert"
        /\ request'[r].due = request[r].due /\ request'[r].receipt = request[r].receipt
    BY <1>0, <1>3, <2>1, MovesOn
  <2>3. /\ request[r].receipt \in Vouchers
        /\ voucher[request[r].receipt] = Receipt(request[r].due, request[r].amount)
        /\ TiedTo(request[r].receipt) = {} /\ ~Paid(request[r].due)
    BY <1>0, <1>3, <2>1 DEF Holding, Fresh
  <2>4. voucher'[request[r].receipt].status = "PendingApproval"
    BY <1>0, <2>1, <2>3 DEF TypeOK, Receipt
  <2> QED
    BY <2>1, <2>2, <2>3, <2>4 DEF Fresh, Paid, TiedTo, Voided
<1>4. CASE SubmitReceipt(r) /\ request[r].op = "update"
  <2>1. /\ request[r] # Idle /\ request[r].pc = "submit" /\ Advance(r, "write")
        /\ payment' = payment
        /\ voucher[request[r].receipt].status \in Submittable
        /\ voucher' = [voucher EXCEPT ![request[r].receipt].status = "PendingApproval"]
    BY <1>4 DEF SubmitReceipt, At
  <2>2. /\ request'[r].op = "update" /\ request'[r].pc = "write"
        /\ request'[r].due = request[r].due /\ request'[r].receipt = request[r].receipt
        /\ request'[r].amount = request[r].amount
    BY <1>0, <1>4, <2>1, MovesOn
  <2>3. /\ request[r].receipt \in Vouchers
        /\ voucher[request[r].receipt].due = request[r].due
        /\ voucher[request[r].receipt].amount = request[r].amount
        /\ payment[request[r].due].receipt = request[r].receipt
    BY <1>0, <1>4, <2>1, MemoryKinds DEF Fresh, UpdateMemory
  <2>4. voucher[request[r].receipt] \in VoucherRow
    BY <1>0, <2>1, <2>3, RaisedRow DEF Submittable
  <2>5. /\ voucher'[request[r].receipt].due = request[r].due
        /\ voucher'[request[r].receipt].amount = request[r].amount
    BY <1>0, <2>1, <2>3, <2>4 DEF TypeOK, VoucherRow
  <2> QED
    BY <2>1, <2>2, <2>3, <2>5 DEF Fresh
<1>5. CASE RecordAssert(r)
  <2>1. /\ request[r] # Idle /\ request[r].op = "record" /\ Advance(r, "insert")
        /\ payment' = payment /\ voucher' = voucher
        /\ TiedTo(request[r].receipt) = {}
        /\ voucher[request[r].receipt].status \notin Voided
    BY <1>5 DEF RecordAssert, At, tables
  <2>2. /\ request'[r].op = "record" /\ request'[r].pc = "insert"
        /\ request'[r].due = request[r].due /\ request'[r].receipt = request[r].receipt
    BY <1>0, <2>1, MovesOn
  <2> QED
    BY <1>0, <2>1, <2>2 DEF Fresh, Paid, TiedTo
<1>6. CASE UpdateRewrite(r)
  <2>1. /\ request[r] # Idle /\ request[r].op = "update" /\ Advance(r, "submit")
        /\ payment' = payment
        /\ voucher' = [voucher EXCEPT ![request[r].receipt] = Receipt(request[r].due, request[r].amount)]
    BY <1>6 DEF UpdateRewrite, At
  <2>2. /\ request'[r].op = "update" /\ request'[r].pc = "submit"
        /\ request'[r].due = request[r].due /\ request'[r].receipt = request[r].receipt
        /\ request'[r].amount = request[r].amount
    BY <1>0, <2>1, MovesOn
  <2>3. request[r].receipt \in Vouchers /\ payment[request[r].due].receipt = request[r].receipt
    BY <1>0, <2>1, MemoryKinds DEF Fresh, UpdateMemory
  <2>4. /\ voucher'[request[r].receipt].due = request[r].due
        /\ voucher'[request[r].receipt].amount = request[r].amount
    BY <1>0, <2>1, <2>3 DEF TypeOK, Receipt
  <2> QED
    BY <2>1, <2>2, <2>3, <2>4 DEF Fresh
<1>7. CASE UnenrolPaid(r)
  <2>1. /\ request[r] # Idle /\ request[r].op = "unenrol" /\ Advance(r, "delete")
        /\ payment' = payment /\ ~Paid(request[r].due)
    BY <1>7 DEF UnenrolPaid, At, Unenrollable, tables
  <2>2. request'[r].op = "unenrol" /\ request'[r].due = request[r].due
    BY <1>0, <2>1, MovesOn
  <2> QED
    BY <2>1, <2>2 DEF Fresh, Paid
<1>8. CASE RecordInsert(r) \/ UpdateWrite(r) \/ EnrolInsert(r) \/ UnenrolDelete(r) \/ Abort(r)
  <2>1. request'[r] = Idle
    BY <1>0, <1>8 DEF RecordInsert, UpdateWrite, EnrolInsert, UnenrolDelete, Abort, Finish, TypeOK
  <2> QED
    BY <2>1 DEF Fresh
<1>9. CASE SubmitReceipt(r)
  BY <1>3, <1>4, <1>9 DEF SubmitReceipt, At
<1> QED
  BY <1>1, <1>2, <1>5, <1>6, <1>7, <1>8, <1>9, FreshLoad DEF Step

\* Until handlers overlap the one in flight goes on from what it found.
LEMMA AloneStep ==
  ASSUME SanththaInv, AloneInv, MCNext
  PROVE  AloneInv'
<1> SUFFICES ASSUME ~overlapped' PROVE Alone' /\ \A s \in Requests : Fresh(request[s])'
  BY DEF AloneInv
<1>0. ~overlapped /\ \A s \in Requests : Fresh(request[s])
  BY NotYet DEF AloneInv
<1>1. Alone'
  BY NotYet DEF Alone
<1>2. \A s \in Requests : request'[s] = Idle => Fresh(request[s])'
  BY DEF Fresh
<1>3. CASE request' = request /\ tables' = tables
  <2>1. request' = request /\ payment' = payment /\ voucher' = voucher
    BY <1>3 DEF tables
  <2>2. \A v : TiedTo(v)' = TiedTo(v)
    BY <2>1 DEF TiedTo
  <2>3. ASSUME NEW s \in Requests PROVE Fresh(request[s])'
    <3>1. Fresh(request[s])
      BY <1>0
    <3> QED
      BY <2>1, <2>2, <3>1 DEF Fresh, Paid
  <2> QED
    BY <1>1, <2>3
<1>4. CASE \E r \in Requests :
             Step(r) /\ \A s \in Requests \ {r} : request[s] = Idle /\ request'[s] = Idle
  <2>1. PICK r \in Requests :
               Step(r) /\ \A s \in Requests \ {r} : request[s] = Idle /\ request'[s] = Idle
    BY <1>4
  <2>2. Fresh(request[r])'
    BY <1>0, <2>1, FreshStep
  <2>3. ASSUME NEW s \in Requests \ {r} PROVE Fresh(request[s])'
    BY <1>2, <2>1
  <2> QED
    BY <1>1, <2>2, <2>3
<1>5. CASE /\ SetRate \/ SetMembership \/ Desk
           /\ \A s \in Requests : request[s] = Idle /\ request'[s] = Idle
  BY <1>1, <1>2, <1>5
<1> QED
  BY <1>3, <1>4, <1>5, WhoseStep

-----------------------------------------------------------------------------
(* Receipts and register, as long as nobody is stopped between them *)

\* A handler has touched a receipt and not yet the register.
InBetween(m) ==
  m # Idle /\ <<m.op, m.pc>> \in
    {<<"record", "submit">>, <<"record", "insert">>, <<"update", "submit">>, <<"update", "write">>}

Matches(v) == /\ payment[voucher[v].due].receipt = v
              /\ payment[voucher[v].due].amount = voucher[v].amount

\* The register says what a receipt says, but for the one a handler has in hand.
SettledBut(m) ==
  \A v \in Vouchers :
    Raised(v) /\ voucher[v].due # NoDue /\ ~(InBetween(m) /\ m.receipt = v) => Matches(v)

\* What is about to be registered says nothing of a subscription, or just that.
Told(m) ==
  m # Idle /\ m.op = "record" /\ m.pc = "insert" =>
    \/ voucher[m.receipt].due = NoDue
    \/ voucher[m.receipt].due = m.due /\ voucher[m.receipt].amount = m.amount

MatchInv ==
  ~overlapped /\ ~interrupted =>
    /\ \A v \in Vouchers : Raised(v) /\ voucher[v].due # NoDue
         /\ (\A r \in Requests : ~(InBetween(request[r]) /\ request[r].receipt = v)) => Matches(v)
    /\ \A r \in Requests : Told(request[r])

\* What the desk does to a voucher leaves what it says of subscriptions, or has it say
\* nothing of them.
LEMMA DeskSays ==
  ASSUME SanththaInv, Desk, NEW v \in Vouchers, Raised(v)', voucher'[v].due # NoDue
  PROVE  /\ Raised(v)
         /\ voucher'[v].due = voucher[v].due /\ voucher'[v].amount = voucher[v].amount
<1>0. voucher \in [Vouchers -> VoucherRow \cup {Unraised}]
  BY DEF SanththaInv, TypeOK
<1>1. ASSUME NEW from, NEW to, "Absent" \notin from, Become(from, to)
      PROVE  /\ Raised(v)
             /\ voucher'[v].due = voucher[v].due /\ voucher'[v].amount = voucher[v].amount
  <2>1. PICK w \in Vouchers : voucher[w].status \in from
                              /\ voucher' = [voucher EXCEPT ![w].status = to]
    BY <1>1 DEF Become
  <2>2. Raised(w)
    BY <1>1, <2>1, RaisedRow DEF SanththaInv
  <2>3. voucher[w] \in VoucherRow
    BY <2>2, RaisedRow DEF SanththaInv
  <2>4. voucher'[w].due = voucher[w].due /\ voucher'[w].amount = voucher[w].amount
    BY <1>0, <2>1, <2>3 DEF VoucherRow
  <2>5. v # w => voucher'[v] = voucher[v]
    BY <1>0, <2>1
  <2> QED
    BY <2>2, <2>4, <2>5 DEF Raised
<1>2. ASSUME NEW w \in Vouchers, NEW kind, voucher' = [voucher EXCEPT ![w] = Other(kind)]
      PROVE  /\ Raised(v)
             /\ voucher'[v].due = voucher[v].due /\ voucher'[v].amount = voucher[v].amount
  <2>1. v # w
    BY <1>0, <1>2 DEF Other
  <2>2. voucher'[v] = voucher[v]
    BY <1>0, <1>2, <2>1
  <2> QED
    BY <2>2 DEF Raised
<1>3. ASSUME NEW w \in Vouchers, voucher' = [voucher EXCEPT ![w] = Other(@.kind)]
      PROVE  voucher' = [voucher EXCEPT ![w] = Other(voucher[w].kind)]
  BY <1>0, <1>3
<1> QED
  BY <1>1, <1>2, <1>3 DEF Desk, Submittable

\* Where receipts and register stand and nobody lets a receipt go, they go on matching.
LEMMA SettledKept ==
  ASSUME NEW r \in Requests, SettledBut(request[r]), payment' = payment, voucher' = voucher,
         InBetween(request[r]) => InBetween(request'[r]) /\ request'[r].receipt = request[r].receipt
  PROVE  SettledBut(request[r])'
<1>1. \A v \in Vouchers : Matches(v)' <=> Matches(v)
  BY DEF Matches
<1>2. InBetween(request[r])' <=> InBetween(request'[r])
  BY DEF InBetween
<1> QED
  BY <1>1, <1>2 DEF SettledBut, Raised

\* Registering or correcting a subscription settles the receipt in hand, and no other
\* receipt speaks of that subscription.
LEMMA SettledByWrite ==
  ASSUME SanththaInv, NEW r \in Requests, SettledBut(request[r]), InBetween(request[r]),
         request'[r] = Idle, voucher' = voucher,
         NEW due \in Dues, NEW v \in Vouchers, v = request[r].receipt,
         payment[due].receipt \in {v, Null},
         payment'[due].receipt = v, \A other \in Dues \ {due} : payment'[other] = payment[other],
         voucher[v].due = NoDue \/ (voucher[v].due = due /\ voucher[v].amount = payment'[due].amount)
  PROVE  SettledBut(request[r])'
<1>1. ASSUME NEW w \in Vouchers, Raised(w), voucher[w].due # NoDue
      PROVE  payment'[voucher[w].due].receipt = w /\ payment'[voucher[w].due].amount = voucher[w].amount
  <2>1. CASE w = v
    BY <1>1, <2>1
  <2>2. CASE w # v
    <3>1. payment[voucher[w].due].receipt = w /\ payment[voucher[w].due].amount = voucher[w].amount
      BY <1>1, <2>2 DEF SettledBut, Matches
    <3>2. voucher[w].due \in Dues
      BY <1>1, RaisedRow DEF SanththaInv, VoucherRow
    <3>3. voucher[w].due # due
      BY <2>2, <3>1, NullAssumption
    <3> QED
      BY <3>1, <3>2, <3>3
  <2> QED
    BY <2>1, <2>2
<1> QED
  BY <1>1 DEF SettledBut, Raised, Matches

\* The step of the only handler in flight leaves the receipts it has let go matching.
LEMMA SettledStep ==
  ASSUME SanththaInv, AloneInv, ~overlapped, NEW r \in Requests, Step(r),
         SettledBut(request[r]), Told(request[r]), InBetween(request[r]) => ~Abort(r)
  PROVE  SettledBut(request[r])'
<1>0. TypeOK /\ Fresh(request[r]) /\ Holding(request[r])
  BY DEF SanththaInv, AloneInv
<1>1. CASE RecordLoad(r) \/ UpdateLoad(r) \/ EnrolLoad(r) \/ UnenrolLoad(r)
  <2>1. request[r] = Idle /\ payment' = payment /\ voucher' = voucher
    BY <1>1 DEF RecordLoad, UpdateLoad, EnrolLoad, UnenrolLoad, Accept, tables
  <2> QED
    BY <2>1, SettledKept DEF InBetween
<1>2. CASE RecordPrice(r) \/ RecordAssert(r) \/ UnenrolPaid(r) \/ EnrolInsert(r)
           \/ UnenrolDelete(r) \/ Abort(r)
  <2>1. payment' = payment /\ voucher' = voucher /\ ~InBetween(request[r])
    BY <1>2 DEF RecordPrice, RecordAssert, UnenrolPaid, EnrolInsert, UnenrolDelete, Abort, At,
                InBetween, tables
  <2> QED
    BY <2>1, SettledKept
<1>3. CASE RaiseDraft(r)
  <2>1. request[r] # Idle /\ request[r].op = "record" /\ request[r].pc = "raise" /\ payment' = payment
    BY <1>3 DEF RaiseDraft, At
  <2>2. request[r] \in RecordMemory
    BY <1>0, <2>1, MemoryKinds
  <2>3. PICK v \in Vouchers :
          /\ ~Raised(v)
          /\ voucher' = [voucher EXCEPT ![v] = Receipt(request[r].due, request[r].amount)]
          /\ request' = [request EXCEPT ![r].receipt = v, ![r].pc = "submit"]
    BY <1>3 DEF RaiseDraft
  <2>4. request'[r].op = "record" /\ request'[r].pc = "submit" /\ request'[r].receipt = v
    BY <1>0, <2>2, <2>3 DEF TypeOK, RecordMemory
  <2>5. request'[r] # Idle
    BY <2>4 DEF Idle
  <2>6. InBetween(request'[r]) /\ ~InBetween(request[r])
    BY <2>1, <2>4, <2>5 DEF InBetween
  <2>7. \A w \in Vouchers \ {v} : voucher'[w] = voucher[w]
    BY <1>0, <2>3 DEF TypeOK
  <2>8. ASSUME NEW w \in Vouchers \ {v}, voucher'[w] # Unraised, voucher'[w].due # NoDue
        PROVE  /\ payment'[voucher'[w].due].receipt = w
               /\ payment'[voucher'[w].due].amount = voucher'[w].amount
    BY <2>1, <2>6, <2>7, <2>8 DEF SettledBut, Raised, Matches
  <2>9. InBetween(request[r])' <=> InBetween(request'[r])
    BY DEF InBetween
  <2> QED
    BY <2>4, <2>6, <2>8, <2>9 DEF SettledBut, Raised, Matches
<1>4. CASE SubmitReceipt(r) \/ UpdateRewrite(r)
  <2>1. PICK pc \in {"insert", "write", "submit"} :
          /\ request[r] # Idle /\ request[r].op \in {"record", "update"} /\ Advance(r, pc)
          /\ payment' = payment
          /\ <<request[r].op, pc>> \in {<<"record", "insert">>, <<"update", "write">>, <<"update", "submit">>}
    BY <1>4 DEF SubmitReceipt, UpdateRewrite, At
  <2>2. /\ request'[r].op = request[r].op /\ request'[r].pc = pc
        /\ request'[r].receipt = request[r].receipt
    BY <1>0, <2>1, MovesOn
  <2>3. request'[r] # Idle
    BY <2>1, <2>2 DEF Idle
  <2>4. InBetween(request'[r])
    BY <2>1, <2>2, <2>3 DEF InBetween
  <2>5. request[r].receipt \in Vouchers
    BY <1>0, <1>4, MemoryKinds DEF SubmitReceipt, UpdateRewrite, At, Holding, UpdateMemory
  <2>6. \A w \in Vouchers \ {request[r].receipt} : voucher'[w] = voucher[w]
    BY <1>0, <1>4 DEF SubmitReceipt, UpdateRewrite, TypeOK
  <2>7. ASSUME NEW w \in Vouchers \ {request[r].receipt},
               voucher'[w] # Unraised, voucher'[w].due # NoDue
        PROVE  /\ payment'[voucher'[w].due].receipt = w
               /\ payment'[voucher'[w].due].amount = voucher'[w].amount
    BY <2>1, <2>6, <2>7 DEF SettledBut, Raised, Matches
  <2>8. InBetween(request[r])' <=> InBetween(request'[r])
    BY DEF InBetween
  <2> QED
    BY <2>2, <2>4, <2>7, <2>8 DEF SettledBut, Raised, Matches
<1>5. CASE RecordInsert(r)
  <2>1. /\ request[r] # Idle /\ request[r].op = "record" /\ request[r].pc = "insert"
        /\ ~Paid(request[r].due) /\ voucher' = voucher /\ Finish(r)
    BY <1>5 DEF RecordInsert, At
  <2>2. PICK due \in Dues, v \in Vouchers : due = request[r].due /\ v = request[r].receipt
    BY <1>0, <2>1, MemoryKinds DEF Holding
  <2>3. /\ payment' = [payment EXCEPT ![due] = [amount |-> request[r].amount, receipt |-> v]]
        /\ payment[due].receipt = Null
    BY <1>5, <2>1, <2>2 DEF RecordInsert, Paid, Unpaid
  <2>4. /\ payment'[due].receipt = v /\ payment'[due].amount = request[r].amount
        /\ \A other \in Dues \ {due} : payment'[other] = payment[other]
    BY <1>0, <2>3 DEF TypeOK
  <2>5. voucher[v].due = NoDue \/ (voucher[v].due = due /\ voucher[v].amount = payment'[due].amount)
    BY <2>1, <2>2, <2>4 DEF Told
  <2>6. InBetween(request[r]) /\ request'[r] = Idle
    BY <1>0, <2>1 DEF InBetween, Finish, TypeOK
  <2> QED
    BY <2>1, <2>2, <2>3, <2>4, <2>5, <2>6, SettledByWrite
<1>6. CASE UpdateWrite(r)
  <2>1. /\ request[r] # Idle /\ request[r].op = "update" /\ request[r].pc = "write"
        /\ voucher' = voucher /\ Finish(r)
    BY <1>6 DEF UpdateWrite, At
  <2>2. request[r] \in UpdateMemory
    BY <1>0, <2>1, MemoryKinds
  <2>3. PICK due \in Dues, v \in Vouchers : due = request[r].due /\ v = request[r].receipt
    BY <2>2 DEF UpdateMemory
  <2>4. /\ payment[due].receipt = v
        /\ voucher[v].due = due /\ voucher[v].amount = request[r].amount
    BY <1>0, <2>1, <2>3 DEF Fresh
  <2>5. payment[due] \in PaymentRow
    BY <1>0, <2>3, <2>4, PaidRow
  <2>6. payment' = [payment EXCEPT ![due] = [payment[due] EXCEPT !.amount = request[r].amount]]
    BY <1>0, <1>6, <2>3 DEF UpdateWrite, Corrected, TypeOK
  <2>7. /\ payment'[due].receipt = v /\ payment'[due].amount = request[r].amount
        /\ \A other \in Dues \ {due} : payment'[other] = payment[other]
    BY <1>0, <2>4, <2>5, <2>6 DEF TypeOK, PaymentRow
  <2>8. InBetween(request[r]) /\ request'[r] = Idle
    BY <1>0, <2>1 DEF InBetween, Finish, TypeOK
  <2> QED
    BY <2>1, <2>3, <2>4, <2>7, <2>8, SettledByWrite
<1> QED
  BY <1>1, <1>2, <1>3, <1>4, <1>5, <1>6 DEF Step

\* A receipt a request names, found tied to no subscription, speaks of none.
LEMMA ToldStep ==
  ASSUME SanththaInv, AloneInv, ~overlapped, NEW r \in Requests, Step(r), SettledBut(request[r])
  PROVE  Told(request[r])'
<1>0. TypeOK /\ Fresh(request[r]) /\ Holding(request[r])
  BY DEF SanththaInv, AloneInv
<1>1. CASE SubmitReceipt(r) /\ request[r].op = "record"
  <2>1. /\ request[r] # Idle /\ request[r].pc = "submit" /\ Advance(r, "insert")
        /\ voucher' = [voucher EXCEPT ![request[r].receipt].status = "PendingApproval"]
    BY <1>1 DEF SubmitReceipt, At
  <2>2. /\ request'[r].due = request[r].due /\ request'[r].receipt = request[r].receipt
        /\ request'[r].amount = request[r].amount
    BY <1>0, <1>1, <2>1, MovesOn
  <2>3. /\ request[r].receipt \in Vouchers
        /\ voucher[request[r].receipt] = Receipt(request[r].due, request[r].amount)
    BY <1>0, <1>1, <2>1 DEF Holding, Fresh
  <2>4. /\ voucher'[request[r].receipt].due = request[r].due
        /\ voucher'[request[r].receipt].amount = request[r].amount
    BY <1>0, <2>1, <2>3 DEF TypeOK, Receipt
  <2> QED
    BY <2>2, <2>4 DEF Told
<1>2. CASE RecordAssert(r)
  <2>1. /\ request[r] # Idle /\ request[r].op = "record" /\ request[r].pc = "assert"
        /\ Advance(r, "insert") /\ voucher' = voucher
        /\ Raised(request[r].receipt) /\ TiedTo(request[r].receipt) = {}
    BY <1>2 DEF RecordAssert, At, tables
  <2>2. request'[r].receipt = request[r].receipt
    BY <1>0, <2>1, MovesOn
  <2>3. PICK v \in Vouchers : v = request[r].receipt
    BY <1>0, <2>1 DEF Holding
  <2>4. voucher[v].due = NoDue
    <3> SUFFICES ASSUME voucher[v].due # NoDue PROVE FALSE
      OBVIOUS
    <3>1. voucher[v].due \in Dues
      BY <1>0, <2>1, <2>3, RaisedRow DEF VoucherRow
    <3>2. payment[voucher[v].due].receipt = v
      BY <2>1, <2>3 DEF SettledBut, InBetween, Matches
    <3> QED
      BY <2>1, <2>3, <3>1, <3>2 DEF TiedTo
  <2> QED
    BY <2>1, <2>2, <2>3, <2>4 DEF Told
<1>3. CASE RecordLoad(r) \/ UpdateLoad(r) \/ EnrolLoad(r) \/ UnenrolLoad(r)
  <2>1. request'[r].op # "record" \/ request'[r].pc = "price"
    BY <1>0, <1>3 DEF RecordLoad, UpdateLoad, EnrolLoad, UnenrolLoad, Accept, TypeOK
  <2> QED
    BY <2>1 DEF Told
<1>4. CASE RecordPrice(r) \/ RaiseDraft(r)
  <2>1. request[r] # Idle /\ request[r].op = "record"
    BY <1>4 DEF RecordPrice, RaiseDraft, At
  <2>2. request[r] \in RecordMemory
    BY <1>0, <2>1, MemoryKinds
  <2>3. request'[r].pc \in {"raise", "assert", "submit"}
    <3>1. CASE RecordPrice(r)
      BY <1>0, <2>2, <3>1 DEF RecordPrice, TypeOK, RecordMemory
    <3>2. CASE RaiseDraft(r)
      <4>1. PICK v : request' = [request EXCEPT ![r].receipt = v, ![r].pc = "submit"]
        BY <3>2 DEF RaiseDraft
      <4> QED
        BY <1>0, <2>2, <4>1 DEF TypeOK, RecordMemory
    <3> QED
      BY <1>4, <3>1, <3>2
  <2> QED
    BY <2>3 DEF Told
<1>5. CASE (SubmitReceipt(r) /\ request[r].op = "update") \/ UpdateRewrite(r) \/ UnenrolPaid(r)
  <2>1. PICK pc : request[r] # Idle /\ request[r].op \in {"update", "unenrol"} /\ Advance(r, pc)
    BY <1>5 DEF SubmitReceipt, UpdateRewrite, UnenrolPaid, At
  <2>2. request'[r].op # "record"
    BY <1>0, <2>1, MovesOn
  <2> QED
    BY <2>2 DEF Told
<1>6. CASE RecordInsert(r) \/ UpdateWrite(r) \/ EnrolInsert(r) \/ UnenrolDelete(r) \/ Abort(r)
  <2>1. request'[r] = Idle
    BY <1>0, <1>6 DEF RecordInsert, UpdateWrite, EnrolInsert, UnenrolDelete, Abort, Finish, TypeOK
  <2> QED
    BY <2>1 DEF Told
<1>7. CASE SubmitReceipt(r)
  BY <1>1, <1>5, <1>7 DEF SubmitReceipt, At
<1> QED
  BY <1>2, <1>3, <1>4, <1>5, <1>6, <1>7 DEF Step

\* A handler that goes on from what it found is refused by no index.
LEMMA NotStopped ==
  ASSUME SanththaInv, AloneInv, MCNext, ~overlapped, ~interrupted',
         NEW r \in Requests, InBetween(request[r])
  PROVE  ~Abort(r) /\ ~interrupted
<1>1. r \in Between
  BY DEF Between, Busy, InBetween
<1>2. ~Refused(r)
  BY DEF AloneInv, Fresh, Refused, At, Unused
<1> QED
  BY <1>1, <1>2 DEF MCNext

\* Until handlers overlap or one is stopped, receipts and register go on matching.
LEMMA MatchStep ==
  ASSUME SanththaInv, AloneInv, MatchInv, MCNext
  PROVE  MatchInv'
<1> SUFFICES ASSUME ~overlapped', ~interrupted' PROVE MatchInv'
  BY DEF MatchInv
<1>0. ~overlapped /\ ~interrupted
  BY NotYet DEF MCNext
<1>1. ASSUME NEW r \in Requests, Step(r),
             \A s \in Requests \ {r} : request[s] = Idle /\ request'[s] = Idle
      PROVE  MatchInv'
  <2>1. SettledBut(request[r])
    BY <1>0, <1>1 DEF MatchInv, SettledBut, InBetween
  <2>2. SettledBut(request[r])'
    BY <1>0, <1>1, <2>1, SettledStep, NotStopped DEF MatchInv
  <2>3. Told(request[r])'
    BY <1>0, <1>1, <2>1, ToldStep
  <2>4. \A s \in Requests : Told(request[s])'
    BY <1>1, <2>3 DEF Told
  <2> QED
    BY <2>2, <2>4 DEF MatchInv, SettledBut
<1>2. CASE request' = request /\ tables' = tables
  <2>1. request' = request /\ payment' = payment /\ voucher' = voucher
    BY <1>2 DEF tables
  <2> QED
    BY <1>0, <2>1 DEF MatchInv, Told, InBetween, Matches, Raised
<1>3. CASE /\ SetRate \/ SetMembership \/ Desk
           /\ \A s \in Requests : request[s] = Idle /\ request'[s] = Idle
  <2>1. \A s \in Requests : Told(request[s])' /\ ~InBetween(request[s])
    BY <1>3 DEF Told, InBetween
  <2>2. payment' = payment
    BY <1>3 DEF SetRate, SetMembership, Desk
  <2>3. ASSUME NEW v \in Vouchers, Raised(v)', voucher'[v].due # NoDue
        PROVE  /\ Raised(v)
               /\ voucher'[v].due = voucher[v].due /\ voucher'[v].amount = voucher[v].amount
    <3>1. CASE Desk
      BY <2>3, <3>1, DeskSays
    <3>2. CASE SetRate \/ SetMembership
      BY <2>3, <3>2 DEF SetRate, SetMembership, Raised
    <3> QED
      BY <1>3, <3>1, <3>2
  <2>4. ASSUME NEW v \in Vouchers, Raised(v)', voucher'[v].due # NoDue
        PROVE  Matches(v)'
    BY <1>0, <2>1, <2>2, <2>3, <2>4 DEF MatchInv, Matches
  <2> QED
    BY <2>1, <2>4 DEF MatchInv
<1> QED
  BY <1>0, <1>1, <1>2, <1>3, WhoseStep

-----------------------------------------------------------------------------
(* What the history shows *)

mcvars == <<vars, overlapped, interrupted>>

HistoryInv == SanththaInv /\ AloneInv /\ MatchInv

\* Nothing has overlapped, nobody was stopped and nothing is receipted at the start.
LEMMA HistoryInit == MCInit => HistoryInv
<1> SUFFICES ASSUME MCInit PROVE HistoryInv
  OBVIOUS
<1>1. SanththaInv
  BY SanththaInit DEF MCInit
<1>2. AloneInv
  BY DEF MCInit, Init, AloneInv, Alone, Fresh
<1>3. MatchInv
  BY DEF MCInit, Init, MatchInv, Told, Raised
<1> QED
  BY <1>1, <1>2, <1>3 DEF HistoryInv

\* Every step keeps the three together.
LEMMA HistoryStep == HistoryInv /\ [MCNext]_mcvars => HistoryInv'
<1> SUFFICES ASSUME HistoryInv, [MCNext]_mcvars PROVE HistoryInv'
  OBVIOUS
<1>1. CASE MCNext
  <2>1. SanththaInv'
    BY <1>1, SanththaStep DEF HistoryInv, MCNext
  <2> QED
    BY <1>1, <2>1, AloneStep, MatchStep DEF HistoryInv
<1>2. CASE UNCHANGED mcvars
  <2>1. SanththaInv'
    BY <1>2, SanththaStep DEF HistoryInv, mcvars
  <2>2. /\ request' = request /\ payment' = payment /\ voucher' = voucher
        /\ overlapped' = overlapped /\ interrupted' = interrupted
    BY <1>2 DEF mcvars, vars, tables
  <2>3. \A v : TiedTo(v)' = TiedTo(v)
    BY <2>2 DEF TiedTo
  <2>4. AloneInv'
    BY <2>2, <2>3 DEF HistoryInv, AloneInv, Alone, Fresh, Paid
  <2>5. MatchInv'
    BY <2>2 DEF HistoryInv, MatchInv, Told, InBetween, Matches, Raised
  <2> QED
    BY <2>1, <2>4, <2>5 DEF HistoryInv
<1> QED
  BY <1>1, <1>2

\* They hold in every behaviour.
LEMMA HistoryInvariant == MCSpec => []HistoryInv
  BY HistoryInit, HistoryStep, PTL DEF MCSpec, mcvars

\* As long as handlers follow one another and none is stopped after its receipt, what is
\* receipted is what is registered, and for the same amount.
THEOREM ReceiptsMatchHolds == MCSpec => []ReceiptsMatchUntilOverlap
<1>1. HistoryInv => ReceiptsMatchUntilOverlap
  <2> SUFFICES ASSUME HistoryInv, ~overlapped, ~interrupted, Between = {}
               PROVE  ReceiptsMatchRegister
    BY DEF ReceiptsMatchUntilOverlap
  <2>1. \A r \in Requests : ~InBetween(request[r])
    BY DEF Between, Busy, InBetween
  <2> QED
    BY <2>1 DEF HistoryInv, MatchInv, Matches, ReceiptsMatchRegister
<1> QED
  BY <1>1, HistoryInvariant, PTL

\* As long as handlers follow one another, no subscription is taken on a discarded
\* receipt and whoever has paid stays enrolled.
THEOREM PaidHolds == MCSpec => PaidUntilOverlap
<1>1. HistoryInv /\ [MCNext]_mcvars =>
        [~overlapped' => TakenOnLiveReceipt /\ PaidStaysEnrolled]_vars
  <2> SUFFICES ASSUME HistoryInv, MCNext, ~overlapped'
               PROVE  TakenOnLiveReceipt /\ PaidStaysEnrolled
    BY DEF mcvars
  <2>0. /\ ~overlapped /\ [Next]_vars /\ TypeOK
        /\ \A r \in Requests : Fresh(request[r]) /\ Holding(request[r]) /\ Recorded(request[r])
    BY NotYet DEF HistoryInv, AloneInv, SanththaInv
  <2>1. TakenOnLiveReceipt
    <3>1. CASE payment' = payment
      BY <3>1 DEF TakenOnLiveReceipt, Paid
    <3>2. ASSUME NEW r \in Requests, RecordInsert(r) PROVE TakenOnLiveReceipt
      <4>1. /\ request[r] # Idle /\ request[r].op = "record" /\ request[r].pc = "insert"
            /\ payment' = [payment EXCEPT ![request[r].due] =
                 [amount |-> request[r].amount, receipt |-> request[r].receipt]]
            /\ voucher' = voucher
        BY <3>2 DEF RecordInsert, At
      <4>2. request[r].due \in Dues /\ voucher[request[r].receipt].status \notin Voided
        BY <2>0, <4>1, MemoryKinds DEF Fresh
      <4>3. /\ payment'[request[r].due].receipt = request[r].receipt
            /\ \A due \in Dues \ {request[r].due} : payment'[due] = payment[due]
        BY <2>0, <4>1, <4>2 DEF TypeOK
      <4> QED
        BY <4>1, <4>2, <4>3 DEF TakenOnLiveReceipt, Paid, Voided
    <3>3. ASSUME NEW r \in Requests, UpdateWrite(r) PROVE TakenOnLiveReceipt
      <4>1. request[r].due \in Dues /\ Paid(request[r].due)
        BY <2>0, <3>3, MemoryKinds DEF UpdateWrite, At, Recorded
      <4>2. \A due \in Dues \ {request[r].due} : payment'[due] = payment[due]
        BY <2>0, <3>3, <4>1 DEF UpdateWrite, TypeOK
      <4> QED
        BY <4>1, <4>2 DEF TakenOnLiveReceipt, Paid
    <3> QED
      BY <2>0, <3>1, <3>2, <3>3, PaymentWriters
  <2>2. PaidStaysEnrolled
    <3>1. ASSUME NEW r \in Requests, UnenrolDelete(r) PROVE PaidStaysEnrolled
      BY <2>0, <3>1 DEF UnenrolDelete, At, Fresh, PaidStaysEnrolled
    <3>2. (\E r \in Requests : UnenrolDelete(r)) \/ enrolled \subseteq enrolled'
      BY <2>0 DEF Next, Step, SetRate, SetMembership, Desk, vars, tables, RecordLoad, RecordPrice,
             RaiseDraft, SubmitReceipt, RecordAssert, RecordInsert, UpdateLoad, UpdateRewrite,
             UpdateWrite, EnrolLoad, EnrolInsert, UnenrolLoad, UnenrolPaid, Abort
    <3> QED
      BY <3>1, <3>2 DEF PaidStaysEnrolled
  <2> QED
    BY <2>1, <2>2
<1> QED
  BY <1>1, HistoryInvariant, PTL DEF MCSpec, mcvars, PaidUntilOverlap
=============================================================================
