--------------------------- MODULE AccountingProofs ---------------------------
(***************************************************************************)
(* Proofs about Accounting, for any vouchers, years, users and contents:   *)
(* the shapes of the tables and memories with any number of requests in    *)
(* flight, and what the services mean while requests are served one at a   *)
(* time, wherever they stop.  The checks of each handler then still hold   *)
(* when it writes, so that only what is Posted is in the ledger and as it  *)
(* stands, a closed year is finished and final, and the services implement *)
(* AtomicBooks.                                                            *)
(***************************************************************************)
EXTENDS Accounting, TLAPS

(* Typing is not inductive alone: a handler that holds a voucher writes to  *)
(* its row, and the row has to be there.  Vouchers are never deleted.       *)
InFlightExists ==
  \A r \in Requests : request[r] \in VoucherMemory => Exists(request[r].id)

TypeInv == TypeOK /\ InFlightExists

-----------------------------------------------------------------------------
(* Lemmas about the operators the actions are built from. *)

\* A row that is there is a voucher row.
LEMMA RowType ==
  ASSUME TypeOK, NEW v \in Vouchers, Exists(v)
  PROVE  voucher[v] \in VoucherRow
  BY DEF TypeOK, Exists

\* The three kinds of memory are told apart by the operation they serve.
LEMMA MemoryKinds ==
  ASSUME TypeOK, NEW r \in Requests, request[r] # Idle
  PROVE  /\ request[r].op \in {"create", "raise"} => request[r] \in CreateMemory
         /\ request[r].op \in {"update", "submit", "approve", "reject", "post", "cancel"}
              => request[r] \in VoucherMemory
         /\ request[r].op \in {"open", "close"} => request[r] \in YearMemory
         /\ request[r].pc \in {"allocate", "insert"} => request[r] \in CreateMemory
         /\ request[r].pc = "load" => request[r] \in VoucherMemory
         /\ request[r].pc = "resolve" => request[r] \in CreateMemory \cup VoucherMemory
  <1>1. request[r] \in CreateMemory \cup VoucherMemory \cup YearMemory
    BY DEF TypeOK
  <1>2. CASE request[r] \in CreateMemory
    BY <1>2 DEF CreateMemory
  <1>3. CASE request[r] \in VoucherMemory
    BY <1>3 DEF VoucherMemory
  <1>4. CASE request[r] \in YearMemory
    BY <1>4 DEF YearMemory
  <1> QED
    BY <1>1, <1>2, <1>3, <1>4

\* A step that changes one slot keeps the request table well formed, and the
\* vouchers held by the handlers in it, when the new memory is and does.
LEMMA SlotUpdate ==
  ASSUME TypeInv, NEW r \in Requests,
         request' = [request EXCEPT ![r] = request'[r]],
         request'[r] \in {Idle} \cup CreateMemory \cup VoucherMemory \cup YearMemory,
         \A v \in Vouchers : voucher[v] # Absent => voucher'[v] # Absent,
         request'[r] \in VoucherMemory => voucher'[request'[r].id] # Absent
  PROVE  /\ request' \in [Requests -> {Idle} \cup CreateMemory \cup VoucherMemory \cup YearMemory]
         /\ InFlightExists'
  <1>1. request' \in [Requests -> {Idle} \cup CreateMemory \cup VoucherMemory \cup YearMemory]
    BY DEF TypeInv, TypeOK
  <1>2. ASSUME NEW s \in Requests, request'[s] \in VoucherMemory
        PROVE  voucher'[request'[s].id] # Absent
    <2>1. CASE s = r
      BY <2>1, <1>2
    <2>2. CASE s # r
      <3>1. request'[s] = request[s]
        BY <2>2 DEF TypeInv, TypeOK
      <3>2. request[s].id \in Vouchers /\ voucher[request[s].id] # Absent
        BY <3>1, <1>2 DEF TypeInv, InFlightExists, VoucherMemory, Exists
      <3> QED
        BY <3>1, <3>2
    <2> QED
      BY <2>1, <2>2
  <1> QED
    BY <1>1, <1>2 DEF InFlightExists, Exists

\* Writing a voucher row over an existing one keeps the table well formed.
LEMMA RowUpdate ==
  ASSUME TypeOK, NEW v \in Vouchers, voucher[v] # Absent,
         voucher' = [voucher EXCEPT ![v] = voucher'[v]], voucher'[v] \in VoucherRow
  PROVE  /\ voucher' \in [Vouchers -> {Absent} \cup VoucherRow]
         /\ \A w \in Vouchers : voucher[w] # Absent => voucher'[w] # Absent
  <1>1. Absent \notin VoucherRow
    BY DEF Absent, VoucherRow, VoucherStatus
  <1> QED
    BY <1>1 DEF TypeOK
\* A step that only moves one handler on.
LEMMA HandlerMoves ==
  ASSUME TypeInv, NEW r \in Requests, UNCHANGED <<tables, approvals>>,
         request' = [request EXCEPT ![r] = request'[r]],
         request'[r] \in {Idle} \cup CreateMemory \cup VoucherMemory \cup YearMemory,
         request'[r] \in VoucherMemory => voucher[request'[r].id] # Absent
  PROVE  TypeInv'
  <1>1. voucher' = voucher /\ ledger' = ledger /\ sequence' = sequence /\ year' = year
        /\ approvals' = approvals
    BY DEF tables
  <1>2. /\ request' \in [Requests -> {Idle} \cup CreateMemory \cup VoucherMemory \cup YearMemory]
        /\ InFlightExists'
    BY <1>1, SlotUpdate
  <1> QED
    BY <1>1, <1>2 DEF TypeInv, TypeOK

\* Starting an operation on a free slot.
LEMMA HandlerStarts ==
  ASSUME TypeInv, NEW r \in Requests, NEW m, Accept(r, m), UNCHANGED <<tables, approvals>>,
         m \in CreateMemory \cup VoucherMemory \cup YearMemory,
         m \in VoucherMemory => voucher[m.id] # Absent
  PROVE  TypeInv'
  <1>1. request' = [request EXCEPT ![r] = m]
    BY DEF Accept
  <1>2. request'[r] = m /\ request' = [request EXCEPT ![r] = request'[r]]
    BY <1>1 DEF TypeInv, TypeOK
  <1> QED
    BY <1>2, HandlerMoves

\* Ending a handler.
LEMMA HandlerEnds ==
  ASSUME TypeOK, NEW r \in Requests, Finish(r)
  PROVE  request'[r] = Idle /\ request' = [request EXCEPT ![r] = request'[r]]
  BY DEF TypeOK, Finish

\* A handler that holds a voucher overwrites its row and ends.
LEMMA HandlerOverwrites ==
  ASSUME TypeInv, NEW r \in Requests, Finish(r),
         request[r] \in VoucherMemory,
         voucher' = [voucher EXCEPT ![request[r].id] = voucher'[request[r].id]],
         voucher'[request[r].id] \in VoucherRow,
         ledger' \in [Vouchers -> Seq(Posting)],
         approvals' \subseteq Approval,
         UNCHANGED <<sequence, year>>
  PROVE  TypeInv'
  <1>1. request[r].id \in Vouchers /\ voucher[request[r].id] # Absent
    BY DEF TypeInv, InFlightExists, VoucherMemory, Exists
  <1>2. /\ voucher' \in [Vouchers -> {Absent} \cup VoucherRow]
        /\ \A w \in Vouchers : voucher[w] # Absent => voucher'[w] # Absent
    BY <1>1, RowUpdate DEF TypeInv
  <1>3. request'[r] = Idle /\ request' = [request EXCEPT ![r] = request'[r]]
    BY HandlerEnds DEF TypeInv
  <1>4. Idle \notin VoucherMemory
    BY DEF Idle, VoucherMemory
  <1>5. /\ request' \in [Requests -> {Idle} \cup CreateMemory \cup VoucherMemory \cup YearMemory]
        /\ InFlightExists'
    BY <1>2, <1>3, <1>4, SlotUpdate
  <1> QED
    BY <1>2, <1>5 DEF TypeInv, TypeOK

-----------------------------------------------------------------------------
(* Type correctness *)

\* The statements that start, move or end a handler without writing a table.
LEMMA TypeReads ==
  ASSUME TypeInv, NEW r \in Requests,
         \/ CreateBegin(r) \/ ResolveOpenYear(r) \/ UpdateLoad(r) \/ SubmitLoad(r)
         \/ RaiseSubmitLoad(r) \/ ApproveLoad(r) \/ RejectLoad(r) \/ PostLoad(r)
         \/ CancelLoad(r) \/ OpenLoad(r) \/ CloseLoad(r) \/ CloseCount(r)
         \/ TotalSums(r) \/ TotalCount(r) \/ Abort(r)
  PROVE  TypeInv'
  <1> USE DEF TypeInv
  <1>1. CASE CreateBegin(r)
    <2>1. PICK op \in {"create", "raise"}, u \in Users, y \in Years, c \in Contents :
            Accept(r, [pc |-> "resolve", op |-> op, user |-> u, year |-> y,
                       content |-> c, ref |-> NoRef])
      BY <1>1 DEF CreateBegin
    <2>2. [pc |-> "resolve", op |-> op, user |-> u, year |-> y,
           content |-> c, ref |-> NoRef] \in CreateMemory
      BY DEF CreateMemory, NoRef, Ref
    <2>3. [pc |-> "resolve", op |-> op, user |-> u, year |-> y,
           content |-> c, ref |-> NoRef] \notin VoucherMemory
      BY DEF VoucherMemory
    <2> QED
      BY <1>1, <2>1, <2>2, <2>3, HandlerStarts DEF CreateBegin
  <1>2. CASE ResolveOpenYear(r)
    <2> DEFINE next == IF request[r].op \in {"create", "raise"} THEN "allocate" ELSE "write"
    <2>1. request[r] \in CreateMemory \cup VoucherMemory
      BY <1>2, MemoryKinds DEF ResolveOpenYear
    <2>2. request' = [request EXCEPT ![r].pc = next] /\ request'[r] = [request[r] EXCEPT !.pc = next]
      BY <1>2 DEF ResolveOpenYear, Advance, TypeOK
    <2>3. request' = [request EXCEPT ![r] = request'[r]]
      BY <2>2 DEF TypeOK
    <2>4. CASE request[r] \in CreateMemory
      <3>1. request'[r] \in CreateMemory
        <4>1. CASE request[r].op \in {"create", "raise"}
          BY <2>2, <2>4, <4>1 DEF CreateMemory
        <4> QED
          BY <2>4, <4>1 DEF CreateMemory
      <3>2. request'[r] \notin VoucherMemory
        BY <3>1 DEF CreateMemory, VoucherMemory
      <3> QED
        BY <1>2, <2>3, <3>1, <3>2, HandlerMoves DEF ResolveOpenYear
    <2>5. CASE request[r] \in VoucherMemory
      <3>1. request'[r] \in VoucherMemory /\ request'[r].id = request[r].id
        BY <2>2, <2>5 DEF VoucherMemory
      <3>2. voucher[request'[r].id] # Absent
        BY <3>1, <2>5 DEF InFlightExists, Exists
      <3> QED
        BY <1>2, <2>3, <3>1, <3>2, HandlerMoves DEF ResolveOpenYear
    <2> QED
      BY <2>1, <2>4, <2>5
  <1>3. CASE UpdateLoad(r)
    <2>1. PICK u \in Users, v \in Vouchers, y \in Years, c \in Contents :
            Exists(v) /\ Accept(r, Remember("update", "resolve", u, v, y, c))
      BY <1>3 DEF UpdateLoad
    <2>2. Remember("update", "resolve", u, v, y, c) \in VoucherMemory
      BY DEF VoucherMemory, Remember
    <2>3. Remember("update", "resolve", u, v, y, c).id = v
      BY DEF Remember
    <2> QED
      BY <1>3, <2>1, <2>2, <2>3, HandlerStarts DEF UpdateLoad, Exists
  <1>4. ASSUME NEW op \in {"submit", "approve", "reject", "post", "cancel"},
               NEW pc \in {"resolve", "write"}, NEW u \in Users, NEW v \in Vouchers, Exists(v)
        PROVE  RememberRow(op, pc, u, v) \in VoucherMemory /\ RememberRow(op, pc, u, v).id = v
    <2>1. voucher[v].year \in Years /\ voucher[v].content \in Contents
      BY <1>4, RowType DEF VoucherRow
    <2> QED
      BY <2>1 DEF VoucherMemory, Remember, RememberRow
  <1>5. CASE SubmitLoad(r)
    <2>1. PICK u \in Users, v \in Vouchers :
            Exists(v) /\ Accept(r, RememberRow("submit", "resolve", u, v))
      BY <1>5 DEF SubmitLoad
    <2> QED
      BY <1>4, <1>5, <2>1, HandlerStarts DEF SubmitLoad, Exists
  <1>6. CASE RaiseSubmitLoad(r)
    <2>1. /\ request[r] \in VoucherMemory
          /\ request' = [request EXCEPT ![r] =
                RememberRow("submit", "resolve", request[r].user, request[r].id)]
      BY <1>6, MemoryKinds DEF RaiseSubmitLoad, At
    <2>2. request[r].user \in Users /\ request[r].id \in Vouchers /\ Exists(request[r].id)
      BY <2>1 DEF VoucherMemory, InFlightExists
    <2>3. request'[r] \in VoucherMemory /\ request'[r].id = request[r].id
          /\ request' = [request EXCEPT ![r] = request'[r]]
      BY <1>4, <2>1, <2>2 DEF TypeOK
    <2> QED
      BY <1>6, <2>2, <2>3, HandlerMoves DEF RaiseSubmitLoad, Exists
  <1>7. CASE ApproveLoad(r)
    <2>1. PICK u \in Approvers, v \in Vouchers :
            Exists(v) /\ Accept(r, RememberRow("approve", "resolve", u, v))
      BY <1>7 DEF ApproveLoad
    <2> QED
      BY <1>4, <1>7, <2>1, RolesAssumption, HandlerStarts DEF ApproveLoad, Exists
  <1>8. CASE RejectLoad(r)
    <2>1. PICK u \in Approvers, v \in Vouchers :
            Exists(v) /\ Accept(r, RememberRow("reject", "write", u, v))
      BY <1>8 DEF RejectLoad
    <2> QED
      BY <1>4, <1>8, <2>1, RolesAssumption, HandlerStarts DEF RejectLoad, Exists
  <1>9. CASE PostLoad(r)
    <2>1. PICK u \in Posters, v \in Vouchers :
            Exists(v) /\ Accept(r, RememberRow("post", "resolve", u, v))
      BY <1>9 DEF PostLoad
    <2> QED
      BY <1>4, <1>9, <2>1, RolesAssumption, HandlerStarts DEF PostLoad, Exists
  <1>10. CASE CancelLoad(r)
    <2>1. PICK u \in Users, v \in Vouchers :
            Exists(v) /\ Accept(r, RememberRow("cancel", "write", u, v))
      BY <1>10 DEF CancelLoad
    <2> QED
      BY <1>4, <1>10, <2>1, HandlerStarts DEF CancelLoad, Exists
  <1>11. YearMemory \cap VoucherMemory = {}
    BY DEF YearMemory, VoucherMemory
  <1>12. CASE OpenLoad(r) \/ CloseLoad(r)
    <2>1. PICK op \in {"open", "close"}, pc \in {"write", "count"}, y \in Years :
            Accept(r, YearRequest(op, pc, y))
      BY <1>12 DEF OpenLoad, CloseLoad
    <2>2. YearRequest(op, pc, y) \in YearMemory
      BY DEF YearMemory, YearRequest, NoFigures, Figures
    <2> QED
      BY <1>11, <1>12, <2>1, <2>2, HandlerStarts DEF OpenLoad, CloseLoad
  <1>13. CASE CloseCount(r)
    <2>1. /\ request[r] \in YearMemory
          /\ request' = [request EXCEPT ![r].pc = "total"]
      BY <1>13, MemoryKinds DEF CloseCount, YearAt, Advance
    <2>2. request'[r] \in YearMemory /\ request' = [request EXCEPT ![r] = request'[r]]
      BY <2>1 DEF TypeOK, YearMemory
    <2> QED
      BY <1>11, <1>13, <2>2, HandlerMoves DEF CloseCount
  <1>14. CASE TotalSums(r) \/ TotalCount(r)
    <2>1. SummedIn(request[r].year) \in SUBSET Vouchers /\ PostedIn(request[r].year) \in SUBSET Vouchers
      BY DEF SummedIn, PostedIn
    <2>2. request[r] \in YearMemory
      BY <1>14, MemoryKinds DEF TotalSums, TotalCount, YearAt
    <2>3. request'[r] \in YearMemory /\ request' = [request EXCEPT ![r] = request'[r]]
      <3>1. CASE TotalSums(r)
        BY <3>1, <2>1, <2>2 DEF TotalSums, TypeOK, YearMemory, Figures
      <3>2. CASE TotalCount(r)
        BY <3>2, <2>1, <2>2 DEF TotalCount, TypeOK, YearMemory, Figures
      <3> QED
        BY <1>14, <3>1, <3>2
    <2> QED
      BY <1>11, <1>14, <2>3, HandlerMoves DEF TotalSums, TotalCount
  <1>15. CASE Abort(r)
    <2>1. Idle \notin VoucherMemory
      BY DEF Idle, VoucherMemory
    <2> QED
      BY <1>15, <2>1, HandlerEnds, HandlerMoves DEF Abort
  <1> QED
    BY <1>1, <1>2, <1>3, <1>5, <1>6, <1>7, <1>8, <1>9, <1>10, <1>12, <1>13, <1>14, <1>15

\* The statements that write a table.
LEMMA TypeWrites ==
  ASSUME TypeInv, NEW r \in Requests,
         \/ AllocateRef(r) \/ CreateInsert(r) \/ UpdateWrite(r) \/ SubmitWrite(r)
         \/ ApproveWrite(r) \/ RejectWrite(r) \/ PostWrite(r) \/ CancelWrite(r)
         \/ CreateYear(r) \/ OpenWrite(r) \/ CloseWrite(r)
  PROVE  TypeInv'
  <1> USE DEF TypeInv
  <1>1. CASE AllocateRef(r)
    <2>1. request[r] \in CreateMemory
      BY <1>1, MemoryKinds DEF AllocateRef
    <2>2. request'[r] \in CreateMemory /\ request' = [request EXCEPT ![r] = request'[r]]
      BY <1>1, <2>1, CalendarAssumption DEF AllocateRef, TypeOK, CreateMemory, Ref
    <2>3. sequence' \in [Years -> Nat]
      <3>1. sequence' = [sequence EXCEPT ![request[r].year] = @ + 1]
        BY <1>1 DEF AllocateRef
      <3>2. request[r].year \in Years
        BY <2>1 DEF CreateMemory
      <3>3. sequence \in [Years -> Nat] /\ sequence[request[r].year] + 1 \in Nat
        BY <3>2 DEF TypeOK
      <3> QED
        BY <3>1, <3>2, <3>3
    <2>4. request'[r] \notin VoucherMemory
      BY <2>2 DEF CreateMemory, VoucherMemory
    <2>5. /\ request' \in [Requests -> {Idle} \cup CreateMemory \cup VoucherMemory \cup YearMemory]
          /\ InFlightExists'
      BY <1>1, <2>2, <2>4, SlotUpdate DEF AllocateRef
    <2> QED
      BY <1>1, <2>3, <2>5 DEF AllocateRef, TypeOK
  <1>2. CASE CreateInsert(r)
    <2> DEFINE row == [status |-> "Draft", year |-> request[r].year,
                       content |-> request[r].content, creator |-> request[r].user,
                       decider |-> NoUser, posted |-> FALSE, ref |-> request[r].ref]
               follow(v) == Remember("submit", "load", request[r].user, v,
                                     request[r].year, request[r].content)
    <2>1. request[r] \in CreateMemory
      BY <1>2, MemoryKinds DEF CreateInsert
    <2>2. PICK v \in Vouchers :
            /\ ~Exists(v)
            /\ voucher' = [voucher EXCEPT ![v] = row]
            /\ IF request[r].op = "create" THEN Finish(r)
               ELSE request' = [request EXCEPT ![r] = follow(v)]
      BY <1>2 DEF CreateInsert
    <2>3. row \in VoucherRow /\ row # Absent
      BY <2>1 DEF CreateMemory, VoucherRow, VoucherStatus, Absent
    <2>4. /\ voucher' \in [Vouchers -> {Absent} \cup VoucherRow]
          /\ voucher'[v] # Absent
          /\ \A w \in Vouchers : voucher[w] # Absent => voucher'[w] # Absent
      <3> HIDE DEF row
      <3> QED
        BY <2>2, <2>3 DEF TypeOK
    <2>5. follow(v) \in VoucherMemory /\ follow(v).id = v
      BY <2>1 DEF CreateMemory, VoucherMemory, Remember
    <2>6. /\ request' = [request EXCEPT ![r] = request'[r]]
          /\ request'[r] = Idle \/ request'[r] = follow(v)
      BY <2>2 DEF Finish, TypeOK
    <2>7. Idle \notin VoucherMemory
      BY DEF Idle, VoucherMemory
    <2>8. /\ request' \in [Requests -> {Idle} \cup CreateMemory \cup VoucherMemory \cup YearMemory]
          /\ InFlightExists'
      <3> HIDE DEF follow
      <3>1. CASE request'[r] = Idle
        BY <3>1, <2>4, <2>6, <2>7, SlotUpdate
      <3>2. CASE request'[r] = follow(v)
        <4>1. request'[r] \in VoucherMemory /\ voucher'[request'[r].id] # Absent
          BY <3>2, <2>4, <2>5
        <4> QED
          BY <4>1, <2>4, <2>6, SlotUpdate
      <3> QED
        BY <2>6, <3>1, <3>2
    <2> QED
      BY <1>2, <2>4, <2>8 DEF CreateInsert, TypeOK
  <1>3. ASSUME request[r] \in VoucherMemory
        PROVE  /\ request[r].id \in Vouchers
               /\ voucher[request[r].id] \in VoucherRow
               /\ request[r].user \in Users /\ request[r].year \in Years
               /\ request[r].content \in Contents
    BY <1>3, RowType DEF VoucherMemory, InFlightExists
  <1>4. CASE UpdateWrite(r)
    <2>1. request[r] \in VoucherMemory
      BY <1>4, MemoryKinds DEF UpdateWrite, At
    <2>2. voucher'[request[r].id] \in VoucherRow
          /\ voucher' = [voucher EXCEPT ![request[r].id] = voucher'[request[r].id]]
      BY <1>3, <1>4, <2>1 DEF UpdateWrite, UpdateVoucherRow, TypeOK, VoucherRow, VoucherStatus
    <2> QED
      BY <1>4, <2>1, <2>2, HandlerOverwrites DEF UpdateWrite, TypeOK
  <1>5. CASE SubmitWrite(r)
    <2>1. request[r] \in VoucherMemory
      BY <1>5, MemoryKinds DEF SubmitWrite, At
    <2>2. voucher'[request[r].id] \in VoucherRow
          /\ voucher' = [voucher EXCEPT ![request[r].id] = voucher'[request[r].id]]
      BY <1>3, <1>5, <2>1 DEF SubmitWrite, UpdateVoucherRow, TypeOK, VoucherRow, VoucherStatus
    <2> QED
      BY <1>5, <2>1, <2>2, HandlerOverwrites DEF SubmitWrite, TypeOK
  <1>6. CASE ApproveWrite(r)
    <2>1. request[r] \in VoucherMemory
      BY <1>6, MemoryKinds DEF ApproveWrite, At
    <2>2. voucher'[request[r].id] \in VoucherRow
          /\ voucher' = [voucher EXCEPT ![request[r].id] = voucher'[request[r].id]]
      BY <1>3, <1>6, <2>1 DEF ApproveWrite, UpdateVoucherRow, TypeOK, VoucherRow, VoucherStatus
    <2>3. [id |-> request[r].id, by |-> request[r].user,
           saw |-> [year |-> request[r].year, content |-> request[r].content],
           passed |-> [year |-> voucher[request[r].id].year,
                       content |-> voucher[request[r].id].content]] \in Approval
      BY <1>3, <2>1 DEF Approval, Posting, VoucherRow
    <2>4. approvals' \subseteq Approval
      BY <1>6, <2>3 DEF ApproveWrite, TypeOK
    <2> QED
      BY <1>6, <2>1, <2>2, <2>4, HandlerOverwrites DEF ApproveWrite, TypeOK
  <1>7. CASE RejectWrite(r)
    <2>1. request[r] \in VoucherMemory
      BY <1>7, MemoryKinds DEF RejectWrite, At
    <2>2. voucher'[request[r].id] \in VoucherRow
          /\ voucher' = [voucher EXCEPT ![request[r].id] = voucher'[request[r].id]]
      BY <1>3, <1>7, <2>1 DEF RejectWrite, UpdateVoucherRow, TypeOK, VoucherRow, VoucherStatus
    <2> QED
      BY <1>7, <2>1, <2>2, HandlerOverwrites DEF RejectWrite, TypeOK
  <1>8. CASE PostWrite(r)
    <2>1. request[r] \in VoucherMemory
      BY <1>8, MemoryKinds DEF PostWrite, At
    <2>2. voucher'[request[r].id] \in VoucherRow
          /\ voucher' = [voucher EXCEPT ![request[r].id] = voucher'[request[r].id]]
      BY <1>3, <1>8, <2>1 DEF PostWrite, UpdateVoucherRow, TypeOK, VoucherRow, VoucherStatus
    <2>3. [year |-> request[r].year, content |-> request[r].content] \in Posting
      BY <1>3, <2>1 DEF Posting
    <2>4. ledger' \in [Vouchers -> Seq(Posting)]
      BY <1>3, <1>8, <2>1, <2>3 DEF PostWrite, TypeOK
    <2> QED
      BY <1>8, <2>1, <2>2, <2>4, HandlerOverwrites DEF PostWrite, TypeOK
  <1>9. CASE CancelWrite(r)
    <2>1. request[r] \in VoucherMemory
      BY <1>9, MemoryKinds DEF CancelWrite, At
    <2>2. voucher'[request[r].id] \in VoucherRow
          /\ voucher' = [voucher EXCEPT ![request[r].id] = voucher'[request[r].id]]
      BY <1>3, <1>9, <2>1 DEF CancelWrite, UpdateVoucherRow, TypeOK, VoucherRow, VoucherStatus
    <2> QED
      BY <1>9, <2>1, <2>2, HandlerOverwrites DEF CancelWrite, TypeOK
  <1>10. CASE CreateYear(r)
    <2>1. year' \in [Years -> YearRow]
      BY <1>10 DEF CreateYear, TypeOK, YearRow, YearStatus
    <2> QED
      BY <1>10, <2>1 DEF CreateYear, TypeOK, InFlightExists, Exists
  <1>11. CASE OpenWrite(r) \/ CloseWrite(r)
    <2>1. request[r] \in YearMemory
      BY <1>11, MemoryKinds DEF OpenWrite, CloseWrite, YearAt
    <2>2. year' \in [Years -> YearRow]
      <3>1. CASE OpenWrite(r)
        BY <3>1 DEF OpenWrite, TypeOK, YearRow, YearStatus
      <3>2. CASE CloseWrite(r)
        BY <3>2, <2>1 DEF CloseWrite, TypeOK, YearRow, YearStatus, YearMemory
      <3> QED
        BY <1>11, <3>1, <3>2
    <2>3. Idle \notin VoucherMemory
      BY DEF Idle, VoucherMemory
    <2>4. /\ Finish(r)
          /\ voucher' = voucher /\ ledger' = ledger /\ sequence' = sequence
          /\ approvals' = approvals
      BY <1>11 DEF OpenWrite, CloseWrite
    <2>5. request'[r] = Idle /\ request' = [request EXCEPT ![r] = request'[r]]
      BY <2>4, HandlerEnds
    <2>6. /\ request' \in [Requests -> {Idle} \cup CreateMemory \cup VoucherMemory \cup YearMemory]
          /\ InFlightExists'
      BY <2>3, <2>4, <2>5, SlotUpdate
    <2> QED
      BY <2>2, <2>4, <2>6 DEF TypeOK
  <1> QED
    BY <1>1, <1>2, <1>4, <1>5, <1>6, <1>7, <1>8, <1>9, <1>10, <1>11

-----------------------------------------------------------------------------
(* Theorems. *)

\* Every step keeps the tables and the handlers' memories well formed.
LEMMA TypeStep ==
  ASSUME TypeInv, [Next]_vars
  PROVE  TypeInv'
  <1>1. CASE UNCHANGED vars
    BY <1>1 DEF TypeInv, TypeOK, InFlightExists, Exists, vars
  <1>2. CASE Next
    <2>1. PICK r \in Requests : VoucherStep(r) \/ YearStep(r) \/ Abort(r)
      BY <1>2 DEF Next
    <2> QED
      BY <2>1, TypeReads, TypeWrites DEF VoucherStep, YearStep
  <1> QED
    BY <1>1, <1>2

\* The initial tables are empty and every slot is idle.
LEMMA TypeInit ==
  ASSUME Init
  PROVE  TypeInv
  <1>1. Idle \notin VoucherMemory
    BY DEF Idle, VoucherMemory
  <1>2. TypeOK
    BY DEF Init, BooksInit, TypeOK, YearRow, YearStatus, Figures, NoFigures
  <1> QED
    BY <1>1, <1>2 DEF TypeInv, InFlightExists, Init, BooksInit

\* Whatever requests overlap, every row and every memory keeps its shape, and
\* a handler never holds a voucher that is not in the table.
THEOREM TypeCorrect == Spec => [](TypeOK /\ InFlightExists)
  <1>1. Init => TypeInv
    BY TypeInit
  <1>2. TypeInv /\ [Next]_vars => TypeInv'
    BY TypeStep
  <1> QED
    BY <1>1, <1>2, PTL DEF Spec, TypeInv

-----------------------------------------------------------------------------
(* The ledger and the posting stamp. *)

\* Every other step leaves the vouchers, the postings and the approvals alone.
LEMMA RowWriters ==
  ASSUME [Next]_vars
  PROVE  \/ UNCHANGED <<voucher, ledger, approvals>>
         \/ \E r \in Requests :
              \/ CreateInsert(r) \/ UpdateWrite(r) \/ SubmitWrite(r) \/ ApproveWrite(r)
              \/ RejectWrite(r) \/ PostWrite(r) \/ CancelWrite(r)
  <1>1. CASE UNCHANGED vars
    BY <1>1 DEF vars
  <1>2. CASE Next
    <2>1. PICK r \in Requests : VoucherStep(r) \/ YearStep(r) \/ Abort(r)
      BY <1>2 DEF Next
    <2>2. CASE YearStep(r)
      BY <2>2 DEF YearStep, CreateYear, OpenLoad, OpenWrite, CloseLoad, CloseCount,
                  TotalSums, TotalCount, CloseWrite, tables
    <2>3. CASE Abort(r)
      BY <2>3 DEF Abort, tables
    <2>4. CASE \/ CreateBegin(r) \/ ResolveOpenYear(r) \/ AllocateRef(r) \/ UpdateLoad(r)
               \/ SubmitLoad(r) \/ RaiseSubmitLoad(r) \/ ApproveLoad(r) \/ RejectLoad(r)
               \/ PostLoad(r) \/ CancelLoad(r)
      BY <2>4 DEF CreateBegin, ResolveOpenYear, AllocateRef, UpdateLoad, SubmitLoad,
                  RaiseSubmitLoad, ApproveLoad, RejectLoad, PostLoad, CancelLoad, tables
    <2> QED
      BY <2>1, <2>2, <2>3, <2>4 DEF VoucherStep
  <1> QED
    BY <1>1, <1>2

\* The new row a write by id stores: of the columns a write may not touch, the
\* creator and the posting stamp, only PostWrite sets the second.
LEMMA RowWrite ==
  ASSUME TypeInv, NEW r \in Requests,
         \/ UpdateWrite(r) \/ SubmitWrite(r) \/ ApproveWrite(r)
         \/ RejectWrite(r) \/ PostWrite(r) \/ CancelWrite(r)
  PROVE  /\ request[r] \in VoucherMemory
         /\ request[r].id \in Vouchers /\ Exists(request[r].id)
         /\ voucher[request[r].id] \in VoucherRow
         /\ voucher' = [voucher EXCEPT ![request[r].id] = voucher'[request[r].id]]
         /\ PostedWasApprovedCheck(voucher'[request[r].id])
         /\ voucher'[request[r].id] # Absent
         /\ voucher'[request[r].id].creator = voucher[request[r].id].creator
         /\ ~PostWrite(r) =>
              /\ voucher'[request[r].id].posted = voucher[request[r].id].posted
              /\ ledger' = ledger
         /\ ~UpdateWrite(r) =>
              /\ voucher'[request[r].id].year = voucher[request[r].id].year
              /\ voucher'[request[r].id].content = voucher[request[r].id].content
  <1> DEFINE id == request[r].id
             old == voucher[id]
  <1>1. request[r] \in VoucherMemory
    BY MemoryKinds DEF TypeInv, UpdateWrite, SubmitWrite, ApproveWrite, RejectWrite,
                       PostWrite, CancelWrite, At
  <1>2. id \in Vouchers /\ Exists(id) /\ old \in VoucherRow
    BY <1>1, RowType DEF TypeInv, InFlightExists, VoucherMemory
  <1>3. voucher \in [Vouchers -> {Absent} \cup VoucherRow]
    BY DEF TypeInv, TypeOK
  <1>4. PICK new :
          /\ voucher' = [voucher EXCEPT ![id] = new]
          /\ PostedWasApprovedCheck(new)
          /\ \/ /\ UpdateWrite(r)
                /\ new = [old EXCEPT !.status = "Draft", !.year = request[r].year,
                                     !.content = request[r].content, !.decider = NoUser]
             \/ /\ SubmitWrite(r)
                /\ new = [old EXCEPT !.status = "PendingApproval", !.decider = NoUser]
             \/ /\ ApproveWrite(r)
                /\ new = [old EXCEPT !.status = "Approved", !.decider = request[r].user]
             \/ /\ RejectWrite(r)
                /\ new = [old EXCEPT !.status = "Rejected", !.decider = request[r].user]
             \/ /\ PostWrite(r)
                /\ new = [old EXCEPT !.status = "Posted", !.posted = TRUE]
             \/ /\ CancelWrite(r)
                /\ new = [old EXCEPT !.status = "Cancelled"]
    BY DEF UpdateWrite, SubmitWrite, ApproveWrite, RejectWrite, PostWrite, CancelWrite,
           UpdateVoucherRow
  <1>5. voucher'[id] = new
    BY <1>2, <1>3, <1>4
  <1>6. new # Absent /\ new.creator = old.creator
    BY <1>2, <1>4 DEF VoucherRow, Absent
  <1>7. ~PostWrite(r) => new.posted = old.posted /\ ledger' = ledger
    <2>1. ~PostWrite(r) => new.posted = old.posted
      BY <1>2, <1>4 DEF VoucherRow
    <2>2. ~PostWrite(r) => ledger' = ledger
      BY <1>4 DEF UpdateWrite, SubmitWrite, ApproveWrite, RejectWrite, CancelWrite
    <2> QED
      BY <2>1, <2>2
  <1>8. ~UpdateWrite(r) => new.year = old.year /\ new.content = old.content
    BY <1>2, <1>4 DEF VoucherRow
  <1> QED
    BY <1>1, <1>2, <1>4, <1>5, <1>6, <1>7, <1>8

\* A voucher that was posted is not in the ledger twice, nor out of it.
LEMMA PostedOnceStep ==
  ASSUME TypeInv, PostedOnce, [Next]_vars
  PROVE  PostedOnce'
  <1>1. SUFFICES ASSUME NEW v \in Vouchers
                 PROVE  /\ Len(ledger'[v]) <= 1
                        /\ ledger'[v] # <<>> <=> voucher'[v] # Absent /\ voucher'[v].posted
    BY DEF PostedOnce, Exists
  <1>2. /\ Len(ledger[v]) <= 1
        /\ ledger[v] # <<>> <=> voucher[v] # Absent /\ voucher[v].posted
    BY DEF PostedOnce, Exists
  <1>3. CASE UNCHANGED <<voucher, ledger, approvals>>
    BY <1>2, <1>3
  <1>4. ASSUME NEW r \in Requests, CreateInsert(r)
        PROVE  /\ Len(ledger'[v]) <= 1
               /\ ledger'[v] # <<>> <=> voucher'[v] # Absent /\ voucher'[v].posted
    <2>1. PICK w \in Vouchers :
            \E row : /\ ~Exists(w) /\ row.posted = FALSE
                     /\ voucher' = [voucher EXCEPT ![w] = row] /\ ledger' = ledger
      BY <1>4 DEF CreateInsert
    <2>3. PICK row : /\ ~Exists(w) /\ row.posted = FALSE
                     /\ voucher' = [voucher EXCEPT ![w] = row] /\ ledger' = ledger
      BY <2>1
    <2>2. voucher'[v] = IF v = w THEN row ELSE voucher[v]
      BY <2>3 DEF TypeInv, TypeOK
    <2> QED
      BY <1>2, <2>3, <2>2 DEF Exists
  <1>5. ASSUME NEW r \in Requests,
               \/ UpdateWrite(r) \/ SubmitWrite(r) \/ ApproveWrite(r)
               \/ RejectWrite(r) \/ PostWrite(r) \/ CancelWrite(r)
        PROVE  /\ Len(ledger'[v]) <= 1
               /\ ledger'[v] # <<>> <=> voucher'[v] # Absent /\ voucher'[v].posted
    <2>1. CASE v # request[r].id
      <3>1. voucher'[v] = voucher[v]
        BY <1>5, <2>1, RowWrite DEF TypeInv, TypeOK
      <3>2. ledger'[v] = ledger[v]
        BY <1>5, <2>1, RowWrite DEF PostWrite, TypeInv, TypeOK
      <3> QED
        BY <1>2, <3>1, <3>2
    <2>2. CASE v = request[r].id /\ ~PostWrite(r)
      BY <1>2, <1>5, <2>2, RowWrite DEF Exists
    <2>3. CASE v = request[r].id /\ PostWrite(r)
      <3> DEFINE posting == [year |-> request[r].year, content |-> request[r].content]
      <3>1. /\ ledger[v] = <<>>
            /\ ledger' = [ledger EXCEPT ![v] = Append(ledger[v], posting)]
            /\ voucher' = [voucher EXCEPT ![v] =
                              [voucher[v] EXCEPT !.status = "Posted", !.posted = TRUE]]
        BY <2>3 DEF PostWrite, UniqueVoucherLine, UpdateVoucherRow
      <3>2. voucher[v] \in VoucherRow
        BY <1>5, <2>3, RowWrite
      <3>3. voucher'[v] # Absent /\ voucher'[v].posted
        BY <3>1, <3>2 DEF TypeInv, TypeOK, VoucherRow, Absent
      <3>4. ledger'[v] = <<posting>>
        BY <3>1 DEF TypeInv, TypeOK
      <3> QED
        BY <3>3, <3>4
    <2> QED
      BY <2>1, <2>2, <2>3
  <1> QED
    BY <1>3, <1>4, <1>5, RowWriters

\* A voucher is in the ledger at most once and exactly when it carries its
\* posting stamp, however many requests are in flight.
THEOREM PostedOnceHolds == Spec => []PostedOnce
  <1>1. Init => TypeInv /\ PostedOnce
    BY TypeInit DEF Init, BooksInit, PostedOnce, Exists
  <1>2. TypeInv /\ PostedOnce /\ [Next]_vars => (TypeInv /\ PostedOnce)'
    BY TypeStep, PostedOnceStep
  <1> QED
    BY <1>1, <1>2, PTL DEF Spec

\* What PostedContentFrozen asks of a step.
Frozen ==
  \A v \in Vouchers :
    Exists(v) /\ voucher[v].posted =>
      /\ voucher'[v].posted
      /\ voucher'[v].year = voucher[v].year
      /\ voucher'[v].content = voucher[v].content

\* The only write that replaces a date or a coding clears the decision stamp, and
\* the check constraint refuses that on a posted voucher.
LEMMA FrozenStep ==
  ASSUME TypeInv, [Next]_vars
  PROVE  Frozen
  <1>1. SUFFICES ASSUME NEW v \in Vouchers, Exists(v), voucher[v].posted
                 PROVE  /\ voucher'[v].posted
                        /\ voucher'[v].year = voucher[v].year
                        /\ voucher'[v].content = voucher[v].content
    BY DEF Frozen
  <1>2. CASE UNCHANGED <<voucher, ledger, approvals>>
    BY <1>1, <1>2
  <1>3. ASSUME NEW r \in Requests, CreateInsert(r)
        PROVE  voucher'[v] = voucher[v]
    BY <1>1, <1>3 DEF CreateInsert, TypeInv, TypeOK
  <1>4. ASSUME NEW r \in Requests, UpdateWrite(r)
        PROVE  voucher'[v] = voucher[v]
    <2>1. CASE v = request[r].id
      <3>1. voucher'[v] = [voucher[v] EXCEPT
               !.status = "Draft", !.year = request[r].year,
               !.content = request[r].content, !.decider = NoUser]
        BY <1>4, <2>1 DEF UpdateWrite, UpdateVoucherRow, TypeInv, TypeOK
      <3>2. voucher[v] \in VoucherRow
        BY <1>1, RowType DEF TypeInv
      <3>3. voucher'[v].posted /\ voucher'[v].decider = NoUser
        BY <1>1, <3>1, <3>2 DEF VoucherRow
      <3> QED
        BY <1>4, <2>1, <3>3, RowWrite DEF PostedWasApprovedCheck
    <2>2. CASE v # request[r].id
      BY <1>4, <2>2, RowWrite DEF TypeInv, TypeOK
    <2> QED
      BY <2>1, <2>2
  <1>5. ASSUME NEW r \in Requests,
               \/ SubmitWrite(r) \/ ApproveWrite(r) \/ RejectWrite(r)
               \/ PostWrite(r) \/ CancelWrite(r)
        PROVE  /\ voucher'[v].posted
               /\ voucher'[v].year = voucher[v].year
               /\ voucher'[v].content = voucher[v].content
    <2>1. CASE v # request[r].id
      BY <1>1, <1>5, <2>1, RowWrite DEF TypeInv, TypeOK
    <2>2. CASE v = request[r].id /\ PostWrite(r)
      <3>1. voucher[v] \in VoucherRow
        BY <1>1, RowType DEF TypeInv
      <3>2. voucher'[v] = [voucher[v] EXCEPT !.status = "Posted", !.posted = TRUE]
        BY <2>2 DEF PostWrite, UpdateVoucherRow, TypeInv, TypeOK
      <3> QED
        BY <3>1, <3>2 DEF VoucherRow
    <2>3. CASE v = request[r].id /\ ~PostWrite(r) /\ ~UpdateWrite(r)
      BY <1>1, <1>5, <2>3, RowWrite
    <2>4. CASE v = request[r].id /\ UpdateWrite(r)
      BY <1>1, <1>4, <2>4
    <2> QED
      BY <2>1, <2>2, <2>3, <2>4
  <1> QED
    BY <1>1, <1>2, <1>3, <1>4, <1>5, RowWriters

\* The date and the coding of a posted voucher never change, however many stale
\* writes are still to come.
THEOREM PostedContentFrozenHolds == Spec => PostedContentFrozen
  <1>1. Spec => []TypeInv
    BY TypeInit, TypeStep, PTL DEF Spec
  <1>2. TypeInv /\ [Next]_vars => [Frozen]_vars
    BY FrozenStep
  <1>3. Spec => [][Frozen]_vars
    BY <1>1, <1>2, PTL DEF Spec
  <1> QED
    BY <1>3 DEF PostedContentFrozen, Frozen

-----------------------------------------------------------------------------
(***************************************************************************)
(* What an approval is worth: who gave it, what it let through to the      *)
(* ledger, and the reference the voucher carries.                          *)
(***************************************************************************)

Writes(r) ==
  \/ UpdateWrite(r) \/ SubmitWrite(r) \/ ApproveWrite(r)
  \/ RejectWrite(r) \/ PostWrite(r) \/ CancelWrite(r)

\* What the writes by id make of a row, field by field, and what they leave alone.
LEMMA RowForms ==
  ASSUME TypeInv, NEW r \in Requests, Writes(r)
  PROVE  LET id == request[r].id old == voucher[id] new == voucher'[id]
         IN /\ \A v \in Vouchers \ {id} : voucher'[v] = voucher[v]
            /\ new.creator = old.creator /\ new.ref = old.ref
            /\ new.posted => new.decider # NoUser
            /\ new.status = "Approved" <=> ApproveWrite(r)
            /\ ApproveWrite(r) \/ RejectWrite(r) => new.decider = request[r].user
            /\ UpdateWrite(r) \/ SubmitWrite(r) => new.decider = NoUser
            /\ PostWrite(r) \/ CancelWrite(r) => new.decider = old.decider
            /\ ~UpdateWrite(r) => new.year = old.year /\ new.content = old.content
            /\ ~ApproveWrite(r) => approvals' = approvals
  <1> DEFINE id == request[r].id
             old == voucher[id]
  <1>1. /\ id \in Vouchers /\ old \in VoucherRow
        /\ voucher' = [voucher EXCEPT ![id] = voucher'[id]]
        /\ PostedWasApprovedCheck(voucher'[id])
    BY RowWrite DEF Writes
  <1>2. voucher \in [Vouchers -> {Absent} \cup VoucherRow]
    BY DEF TypeInv, TypeOK
  <1>3. CASE UpdateWrite(r)
    <2>1. voucher'[id] = [old EXCEPT !.status = "Draft", !.year = request[r].year,
                                     !.content = request[r].content, !.decider = NoUser]
      BY <1>1, <1>2, <1>3 DEF UpdateWrite, UpdateVoucherRow
    <2>2. ~ApproveWrite(r) /\ ~RejectWrite(r) /\ ~PostWrite(r) /\ ~CancelWrite(r)
      BY <1>3 DEF UpdateWrite, ApproveWrite, RejectWrite, PostWrite, CancelWrite, At
    <2> QED
      BY <1>1, <1>2, <1>3, <2>1, <2>2 DEF VoucherRow, PostedWasApprovedCheck, UpdateWrite
  <1>4. CASE SubmitWrite(r)
    <2>1. voucher'[id] = [old EXCEPT !.status = "PendingApproval", !.decider = NoUser]
      BY <1>1, <1>2, <1>4 DEF SubmitWrite, UpdateVoucherRow
    <2>2. ~ApproveWrite(r) /\ ~RejectWrite(r) /\ ~PostWrite(r) /\ ~CancelWrite(r)
      BY <1>4 DEF SubmitWrite, ApproveWrite, RejectWrite, PostWrite, CancelWrite, At
    <2> QED
      BY <1>1, <1>2, <1>4, <2>1, <2>2 DEF VoucherRow, PostedWasApprovedCheck, SubmitWrite
  <1>5. CASE ApproveWrite(r)
    <2>1. voucher'[id] = [old EXCEPT !.status = "Approved", !.decider = request[r].user]
      BY <1>1, <1>2, <1>5 DEF ApproveWrite, UpdateVoucherRow
    <2>2. ~UpdateWrite(r) /\ ~SubmitWrite(r) /\ ~PostWrite(r) /\ ~CancelWrite(r)
      BY <1>5 DEF ApproveWrite, UpdateWrite, SubmitWrite, PostWrite, CancelWrite, At
    <2> QED
      BY <1>1, <1>2, <1>5, <2>1, <2>2 DEF VoucherRow, PostedWasApprovedCheck
  <1>6. CASE RejectWrite(r)
    <2>1. voucher'[id] = [old EXCEPT !.status = "Rejected", !.decider = request[r].user]
      BY <1>1, <1>2, <1>6 DEF RejectWrite, UpdateVoucherRow
    <2>2. /\ ~UpdateWrite(r) /\ ~SubmitWrite(r) /\ ~PostWrite(r) /\ ~CancelWrite(r)
          /\ ~ApproveWrite(r)
      BY <1>6 DEF ApproveWrite, UpdateWrite, SubmitWrite, PostWrite, CancelWrite,
                  RejectWrite, At
    <2> QED
      BY <1>1, <1>2, <1>6, <2>1, <2>2 DEF VoucherRow, PostedWasApprovedCheck, RejectWrite
  <1>7. CASE PostWrite(r)
    <2>1. voucher'[id] = [old EXCEPT !.status = "Posted", !.posted = TRUE]
      BY <1>1, <1>2, <1>7 DEF PostWrite, UpdateVoucherRow
    <2>2. ~UpdateWrite(r) /\ ~SubmitWrite(r) /\ ~ApproveWrite(r) /\ ~RejectWrite(r)
      BY <1>7 DEF ApproveWrite, UpdateWrite, SubmitWrite, PostWrite, RejectWrite, At
    <2> QED
      BY <1>1, <1>2, <1>7, <2>1, <2>2 DEF VoucherRow, PostedWasApprovedCheck, PostWrite
  <1>8. CASE CancelWrite(r)
    <2>1. voucher'[id] = [old EXCEPT !.status = "Cancelled"]
      BY <1>1, <1>2, <1>8 DEF CancelWrite, UpdateVoucherRow
    <2>2. ~UpdateWrite(r) /\ ~SubmitWrite(r) /\ ~ApproveWrite(r) /\ ~RejectWrite(r)
      BY <1>8 DEF ApproveWrite, UpdateWrite, SubmitWrite, CancelWrite, RejectWrite, At
    <2> QED
      BY <1>1, <1>2, <1>8, <2>1, <2>2 DEF VoucherRow, PostedWasApprovedCheck, CancelWrite
  <1> QED
    BY <1>3, <1>4, <1>5, <1>6, <1>7, <1>8 DEF Writes

Loads(r) ==
  \/ UpdateLoad(r) \/ SubmitLoad(r) \/ RaiseSubmitLoad(r) \/ ApproveLoad(r)
  \/ RejectLoad(r) \/ PostLoad(r) \/ CancelLoad(r) \/ CreateInsert(r)

Same(m, n) ==
  n.op = m.op /\ n.user = m.user /\ n.id = m.id /\ n.year = m.year /\ n.content = m.content

\* A handler that holds a voucher after a step held it before and remembers the same,
\* or has just loaded it.
LEMMA MemoryKept ==
  ASSUME TypeInv, [Next]_vars, NEW s \in Requests, request'[s] \in VoucherMemory
  PROVE  \/ request[s] \in VoucherMemory /\ Same(request[s], request'[s])
         \/ Loads(s)
  <1> USE DEF TypeInv, TypeOK
  <1>0. Idle \notin VoucherMemory
    BY DEF Idle, VoucherMemory
  <1>1. CASE request'[s] = request[s]
    BY <1>1 DEF Same
  <1>2. CASE request'[s] # request[s]
    <2>1. PICK r \in Requests : VoucherStep(r) \/ YearStep(r) \/ Abort(r)
      BY <1>2 DEF Next, vars
    <2>2. ASSUME Finish(r) PROVE FALSE
      BY <1>0, <1>2, <2>2 DEF Finish
    <2>3. CASE ResolveOpenYear(r)
      <3>1. r = s /\ request[s] \in CreateMemory \cup VoucherMemory
        BY <1>2, <2>3, MemoryKinds DEF ResolveOpenYear, Advance
      <3>2. request'[s] = [request[s] EXCEPT !.pc = IF request[s].op \in {"create", "raise"}
                                                    THEN "allocate" ELSE "write"]
        BY <2>3, <3>1 DEF ResolveOpenYear, Advance
      <3>3. CASE request[s] \in VoucherMemory
        BY <3>2, <3>3 DEF VoucherMemory, Same
      <3>4. CASE request[s] \in CreateMemory
        BY <3>2, <3>4 DEF VoucherMemory, CreateMemory
      <3> QED
        BY <3>1, <3>3, <3>4
    <2>4. CASE CreateBegin(r)
      <3>1. r = s
        BY <1>2, <2>4 DEF CreateBegin, Accept
      <3>2. PICK op \in {"create", "raise"}, u \in Users, y \in Years, c \in Contents :
              request'[s] = [pc |-> "resolve", op |-> op, user |-> u, year |-> y,
                             content |-> c, ref |-> NoRef]
        BY <2>4, <3>1 DEF CreateBegin, Accept
      <3> QED
        BY <3>2 DEF VoucherMemory
    <2>5. CASE AllocateRef(r)
      <3>1. r = s /\ request[s] \in CreateMemory
        BY <1>2, <2>5, MemoryKinds DEF AllocateRef
      <3>2. request'[s].op = request[s].op
        BY <2>5, <3>1 DEF AllocateRef, CreateMemory
      <3> QED
        BY <3>1, <3>2 DEF CreateMemory, VoucherMemory
    <2>6. CASE OpenLoad(r) \/ CloseLoad(r)
      <3>1. r = s
        BY <1>2, <2>6 DEF OpenLoad, CloseLoad, Accept
      <3>2. PICK op \in {"open", "close"}, pc \in {"write", "count"}, y \in Years :
              request'[s] = YearRequest(op, pc, y)
        BY <2>6, <3>1 DEF OpenLoad, CloseLoad, Accept
      <3>3. YearRequest(op, pc, y).op = op
        BY DEF YearRequest
      <3> QED
        BY <3>2, <3>3 DEF VoucherMemory
    <2>7. CASE CloseCount(r) \/ TotalSums(r) \/ TotalCount(r)
      <3>1. r = s /\ request[s] \in YearMemory
        BY <1>2, <2>7, MemoryKinds DEF CloseCount, TotalSums, TotalCount, YearAt, Advance
      <3>2. request'[s].op = request[s].op
        BY <2>7, <3>1 DEF CloseCount, TotalSums, TotalCount, Advance, YearMemory
      <3> QED
        BY <3>1, <3>2 DEF YearMemory, VoucherMemory
    <2>8. CASE Loads(r)
      <3>1. r = s
        BY <1>2, <2>8 DEF Loads, UpdateLoad, SubmitLoad, RaiseSubmitLoad, ApproveLoad,
                          RejectLoad, PostLoad, CancelLoad, CreateInsert, Accept, Finish
      <3> QED
        BY <2>8, <3>1
    <2>9. CASE Writes(r) \/ OpenWrite(r) \/ CloseWrite(r) \/ Abort(r)
      BY <2>2, <2>9 DEF Writes, UpdateWrite, SubmitWrite, ApproveWrite, RejectWrite,
                        PostWrite, CancelWrite, OpenWrite, CloseWrite, Abort
    <2>10. CASE CreateYear(r)
      BY <1>2, <2>10 DEF CreateYear
    <2> QED
      BY <2>1, <2>3, <2>4, <2>5, <2>6, <2>7, <2>8, <2>9, <2>10
         DEF VoucherStep, YearStep, Loads, Writes
  <1> QED
    BY <1>1, <1>2

-----------------------------------------------------------------------------
(* A second pair of eyes.  Who decided is inductive only together with who *)
(* is about to decide: the check is made when the handler loads the row,   *)
(* and what makes it good for later is that a creator never changes.       *)

Eligible(u, v) == u \in Approvers /\ MayDecide(u, voucher[v])

DecidedInv ==
  /\ \A a \in approvals : Exists(a.id) /\ MayDecide(a.by, voucher[a.id])
  /\ \A v \in Vouchers : Exists(v) =>
       /\ voucher[v].decider # NoUser => Eligible(voucher[v].decider, v)
       /\ voucher[v].posted \/ voucher[v].status = "Approved" => voucher[v].decider # NoUser
  /\ \A r \in Requests :
       request[r] \in VoucherMemory /\ request[r].op \in {"approve", "reject"} =>
         Eligible(request[r].user, request[r].id)

\* Whether somebody may decide on a voucher never changes.
LEMMA EligibleStays ==
  ASSUME TypeInv, [Next]_vars, NEW v \in Vouchers, Exists(v), NEW u
  PROVE  Exists(v)' /\ (MayDecide(u, voucher[v]) <=> MayDecide(u, voucher'[v]))
  <1>1. CASE UNCHANGED <<voucher, ledger, approvals>>
    BY <1>1 DEF Exists
  <1>2. ASSUME NEW r \in Requests, CreateInsert(r)
        PROVE  voucher'[v] = voucher[v]
    BY <1>2 DEF CreateInsert, TypeInv, TypeOK
  <1>3. ASSUME NEW r \in Requests, Writes(r)
        PROVE  voucher'[v] # Absent /\ voucher'[v].creator = voucher[v].creator
    <2>1. CASE v = request[r].id
      BY <1>3, <2>1, RowWrite DEF Writes
    <2>2. CASE v # request[r].id
      BY <1>3, <2>2, RowForms DEF Exists
    <2> QED
      BY <2>1, <2>2
  <1> QED
    BY <1>1, <1>2, <1>3, RowWriters DEF Exists, MayDecide, Writes

LEMMA DecidedStep ==
  ASSUME TypeInv, DecidedInv, [Next]_vars
  PROVE  DecidedInv'
  <1> USE DEF TypeInv, TypeOK
  <1>1. ASSUME NEW r \in Requests, Writes(r)
        PROVE  /\ request[r] \in VoucherMemory /\ request[r].id \in Vouchers
               /\ Exists(request[r].id)
               /\ ApproveWrite(r) \/ RejectWrite(r) =>
                    Eligible(request[r].user, request[r].id)
    <2>1. /\ request[r] \in VoucherMemory /\ request[r].id \in Vouchers
          /\ Exists(request[r].id)
      BY <1>1, RowWrite DEF Writes
    <2>2. ApproveWrite(r) \/ RejectWrite(r) => request[r].op \in {"approve", "reject"}
      BY DEF ApproveWrite, RejectWrite, At
    <2> QED
      BY <2>1, <2>2 DEF DecidedInv
  <1>2. ASSUME NEW a \in approvals'
        PROVE  Exists(a.id)' /\ MayDecide(a.by, voucher'[a.id])
    <2>1. CASE a \in approvals
      <3>1. a.id \in Vouchers
        BY <2>1 DEF Approval
      <3> QED
        BY <2>1, <3>1, EligibleStays DEF DecidedInv
    <2>2. CASE a \notin approvals
      <3>1. PICK r \in Requests : ApproveWrite(r)
        BY <1>2, <2>2, RowWriters, RowForms DEF Writes, CreateInsert
      <3>2. a.id = request[r].id /\ a.by = request[r].user
        BY <1>2, <2>2, <3>1 DEF ApproveWrite
      <3>3. a.id \in Vouchers /\ Exists(a.id) /\ MayDecide(a.by, voucher[a.id])
        BY <1>1, <3>1, <3>2 DEF Writes, Eligible
      <3> QED
        BY <3>3, EligibleStays
    <2> QED
      BY <2>1, <2>2
  <1>3. ASSUME NEW v \in Vouchers, Exists(v)'
        PROVE  /\ voucher'[v].decider # NoUser => Eligible(voucher[v].decider, v)'
               /\ voucher'[v].posted \/ voucher'[v].status = "Approved"
                    => voucher'[v].decider # NoUser
    <2>1. CASE voucher'[v] = voucher[v]
      BY <1>3, <2>1 DEF DecidedInv, Eligible, Exists
    <2>2. ASSUME NEW r \in Requests, CreateInsert(r), voucher'[v] # voucher[v]
          PROVE  /\ voucher'[v].decider = NoUser /\ voucher'[v].posted = FALSE
                 /\ voucher'[v].status = "Draft"
      BY <2>2 DEF CreateInsert
    <2>3. ASSUME NEW r \in Requests, Writes(r), voucher'[v] # voucher[v]
          PROVE  /\ voucher'[v].decider # NoUser => Eligible(voucher[v].decider, v)'
                 /\ voucher'[v].posted \/ voucher'[v].status = "Approved"
                      => voucher'[v].decider # NoUser
      <3>1. v = request[r].id /\ Exists(v)
        BY <1>1, <2>3, RowForms
      <3>2. CASE ApproveWrite(r) \/ RejectWrite(r)
        <4>1. voucher'[v].decider = request[r].user /\ Eligible(voucher'[v].decider, v)
          BY <1>1, <2>3, <3>1, <3>2, RowForms
        <4>2. Eligible(voucher[v].decider, v)'
          BY <4>1, <3>1, EligibleStays DEF Eligible
        <4> QED
          BY <4>1, <4>2, NoUserAssumption, RolesAssumption DEF Eligible
      <3>3. CASE UpdateWrite(r) \/ SubmitWrite(r)
        <4>1. ~ApproveWrite(r)
          BY <3>3 DEF UpdateWrite, SubmitWrite, ApproveWrite, At
        <4> QED
          BY <2>3, <3>1, <3>3, <4>1, RowForms
      <3>4. CASE PostWrite(r) \/ CancelWrite(r)
        <4>1. ~ApproveWrite(r)
          BY <3>4 DEF PostWrite, CancelWrite, ApproveWrite, At
        <4>2. voucher'[v].decider = voucher[v].decider
          BY <2>3, <3>1, <3>4, RowForms
        <4>3. voucher[v].decider # NoUser => Eligible(voucher[v].decider, v)
          BY <3>1 DEF DecidedInv
        <4>4. voucher'[v].decider # NoUser => Eligible(voucher[v].decider, v)'
          BY <3>1, <4>2, <4>3, EligibleStays DEF Eligible
        <4> QED
          BY <2>3, <3>1, <4>1, <4>4, RowForms
      <3> QED
        BY <2>3, <3>2, <3>3, <3>4 DEF Writes
    <2>4. CASE UNCHANGED <<voucher, ledger, approvals>>
      BY <2>1, <2>4
    <2> QED
      BY <2>1, <2>2, <2>3, <2>4, RowWriters, Zenon DEF Writes
  <1>4. ASSUME NEW s \in Requests, request'[s] \in VoucherMemory,
               request'[s].op \in {"approve", "reject"}
        PROVE  Eligible(request[s].user, request[s].id)'
    <2>1. CASE request[s] \in VoucherMemory /\ Same(request[s], request'[s])
      <3>1. Eligible(request[s].user, request[s].id)
        BY <1>4, <2>1 DEF DecidedInv, Same
      <3>2. request[s].id \in Vouchers /\ Exists(request[s].id)
        BY <2>1 DEF InFlightExists, VoucherMemory
      <3> QED
        BY <2>1, <3>1, <3>2, EligibleStays DEF Eligible, Same
    <2>2. CASE ApproveLoad(s) \/ RejectLoad(s)
      <3>1. PICK u \in Approvers, v \in Vouchers, op \in {"approve", "reject"},
                 pc \in {"resolve", "write"} :
              /\ Exists(v) /\ MayDecide(u, voucher[v])
              /\ request'[s] = RememberRow(op, pc, u, v)
        BY <2>2 DEF ApproveLoad, RejectLoad, Accept
      <3> QED
        BY <3>1, EligibleStays DEF Eligible, RememberRow, Remember
    <2>3. CASE \/ UpdateLoad(s) \/ SubmitLoad(s) \/ RaiseSubmitLoad(s) \/ PostLoad(s)
               \/ CancelLoad(s) \/ CreateInsert(s)
      <3>1. request'[s] = Idle \/ request'[s].op \in {"update", "submit", "post", "cancel"}
        BY <2>3 DEF UpdateLoad, SubmitLoad, RaiseSubmitLoad, PostLoad, CancelLoad,
                    CreateInsert, Accept, RememberRow, Remember, Finish
      <3>2. Idle \notin VoucherMemory
        BY DEF Idle, VoucherMemory
      <3> QED
        BY <1>4, <3>1, <3>2
    <2> QED
      BY <1>4, <2>1, <2>2, <2>3, MemoryKept DEF Loads
  <1> QED
    BY <1>2, <1>3, <1>4 DEF DecidedInv

\* However requests overlap, no approval was given by the voucher's creator unless the
\* setting allows it, and the stamp on an approved or posted voucher is of somebody who
\* may give one.  (assertNotSelfApproval, decided_by.)
THEOREM SecondPairOfEyesHolds == Spec => []SecondPairOfEyes
  <1>1. Init => TypeInv /\ DecidedInv
    <2>1. Idle \notin VoucherMemory
      BY DEF Idle, VoucherMemory
    <2> QED
      BY <2>1, TypeInit DEF Init, BooksInit, DecidedInv, Exists
  <1>2. TypeInv /\ DecidedInv /\ [Next]_vars => (TypeInv /\ DecidedInv)'
    BY TypeStep, DecidedStep
  <1>3. TypeInv /\ DecidedInv => SecondPairOfEyes
    BY DEF DecidedInv, SecondPairOfEyes, Eligible
  <1> QED
    BY <1>1, <1>2, <1>3, PTL DEF Spec

-----------------------------------------------------------------------------
(* What reaches the ledger was let through.  A post writes what it loaded, *)
(* not what the row says by then: so the handler's memory has to be tied   *)
(* to an approval too, and an approved row to the approval that made it so. *)

Passed(v, y, c) ==
  \E a \in approvals : a.id = v /\ a.passed = [year |-> y, content |-> c]

PassedInv ==
  /\ \A v \in Vouchers : Exists(v) /\ voucher[v].status = "Approved" =>
       Passed(v, voucher[v].year, voucher[v].content)
  /\ \A r \in Requests : request[r] \in VoucherMemory /\ request[r].op = "post" =>
       Passed(request[r].id, request[r].year, request[r].content)
  /\ PostedWasApproved

\* An approval is never taken back.
LEMMA ApprovalsGrow ==
  ASSUME TypeInv, [Next]_vars
  PROVE  approvals \subseteq approvals'
  BY RowWriters, RowForms DEF Writes, CreateInsert, ApproveWrite

LEMMA PassedStep ==
  ASSUME TypeInv, PassedInv, [Next]_vars
  PROVE  PassedInv'
  <1> USE DEF TypeInv, TypeOK
  <1>1. ASSUME NEW v \in Vouchers, NEW y, NEW c, Passed(v, y, c)
        PROVE  Passed(v, y, c)'
    BY <1>1, ApprovalsGrow DEF Passed
  <1>2. ASSUME NEW v \in Vouchers, Exists(v)', voucher'[v].status = "Approved"
        PROVE  Passed(v, voucher[v].year, voucher[v].content)'
    <2>1. CASE voucher'[v] = voucher[v]
      <3>1. Passed(v, voucher[v].year, voucher[v].content)
        BY <1>2, <2>1 DEF PassedInv, Exists
      <3> QED
        BY <2>1, <3>1, ApprovalsGrow DEF Passed
    <2>2. ASSUME NEW r \in Requests, CreateInsert(r), voucher'[v] # voucher[v]
          PROVE  FALSE
      BY <1>2, <2>2 DEF CreateInsert
    <2>3. ASSUME NEW r \in Requests, Writes(r), voucher'[v] # voucher[v]
          PROVE  Passed(v, voucher[v].year, voucher[v].content)'
      <3>1. v = request[r].id /\ ApproveWrite(r) /\ ~UpdateWrite(r)
        <4>1. v = request[r].id
          BY <2>3, RowForms
        <4>2. ApproveWrite(r)
          BY <1>2, <2>3, <4>1, RowForms
        <4> QED
          BY <4>1, <4>2 DEF ApproveWrite, UpdateWrite, At
      <3>2. voucher'[v].year = voucher[v].year /\ voucher'[v].content = voucher[v].content
        BY <2>3, <3>1, RowForms
      <3> DEFINE given ==
            [id |-> v, by |-> request[r].user,
             saw |-> [year |-> request[r].year, content |-> request[r].content],
             passed |-> [year |-> voucher[v].year, content |-> voucher[v].content]]
      <3>3. given \in approvals'
        BY <3>1 DEF ApproveWrite
      <3>4. /\ given.id = v
            /\ given.passed = [year |-> voucher[v].year, content |-> voucher[v].content]
        OBVIOUS
      <3> QED
        BY <3>2, <3>3, <3>4 DEF Passed
    <2>4. CASE UNCHANGED <<voucher, ledger, approvals>>
      BY <2>1, <2>4
    <2> QED
      BY <2>1, <2>2, <2>3, <2>4, RowWriters, Zenon DEF Writes
  <1>3. ASSUME NEW s \in Requests, request'[s] \in VoucherMemory, request'[s].op = "post"
        PROVE  Passed(request[s].id, request[s].year, request[s].content)'
    <2>1. CASE request[s] \in VoucherMemory /\ Same(request[s], request'[s])
      <3>1. /\ Passed(request[s].id, request[s].year, request[s].content)
            /\ request[s].id \in Vouchers
        BY <1>3, <2>1 DEF PassedInv, Same, VoucherMemory
      <3> QED
        BY <2>1, <3>1, ApprovalsGrow DEF Passed, Same
    <2>2. CASE PostLoad(s)
      <3>1. PICK u \in Posters, v \in Vouchers :
              /\ Exists(v) /\ voucher[v].status = "Approved"
              /\ request'[s] = RememberRow("post", "resolve", u, v)
        BY <2>2 DEF PostLoad, Accept
      <3>2. Passed(v, voucher[v].year, voucher[v].content)
        BY <3>1 DEF PassedInv
      <3>3. /\ request'[s].id = v /\ request'[s].year = voucher[v].year
            /\ request'[s].content = voucher[v].content
        BY <3>1 DEF RememberRow, Remember
      <3> QED
        BY <3>2, <3>3, ApprovalsGrow DEF Passed
    <2>3. CASE \/ UpdateLoad(s) \/ SubmitLoad(s) \/ RaiseSubmitLoad(s) \/ ApproveLoad(s)
               \/ RejectLoad(s) \/ CancelLoad(s) \/ CreateInsert(s)
      <3>1. request'[s] = Idle
            \/ request'[s].op \in {"update", "submit", "approve", "reject", "cancel"}
        BY <2>3 DEF UpdateLoad, SubmitLoad, RaiseSubmitLoad, ApproveLoad, RejectLoad,
                    CancelLoad, CreateInsert, Accept, RememberRow, Remember, Finish
      <3>2. Idle \notin VoucherMemory
        BY DEF Idle, VoucherMemory
      <3> QED
        BY <1>3, <3>1, <3>2
    <2> QED
      BY <1>3, <2>1, <2>2, <2>3, MemoryKept DEF Loads
  <1>4. ASSUME NEW v \in Vouchers, NEW i \in DOMAIN ledger'[v]
        PROVE  \E a \in approvals' : a.id = v /\ a.passed = ledger'[v][i]
    <2>1. CASE ledger'[v] = ledger[v]
      BY <1>4, <2>1, ApprovalsGrow DEF PassedInv, PostedWasApproved
    <2>2. CASE ledger'[v] # ledger[v]
      <3>1. PICK r \in Requests : PostWrite(r)
        BY <2>2, RowWriters DEF CreateInsert, UpdateWrite, SubmitWrite, ApproveWrite,
                                RejectWrite, CancelWrite
      <3> DEFINE posting == [year |-> request[r].year, content |-> request[r].content]
      <3>2. /\ request[r] \in VoucherMemory /\ request[r].id \in Vouchers
            /\ request[r].op = "post"
        BY <3>1, RowWrite DEF PostWrite, At
      <3>3. \E a \in approvals' : a.id = request[r].id /\ a.passed = posting
        BY <3>2, ApprovalsGrow DEF PassedInv, Passed
      <3>4. v = request[r].id /\ ledger[v] = <<>> /\ ledger'[v] = Append(<<>>, posting)
        BY <2>2, <3>1, <3>2 DEF PostWrite, UniqueVoucherLine
      <3>5. ledger'[v][i] = posting
        <4> HIDE DEF posting
        <4>1. DOMAIN Append(<<>>, posting) = {1} /\ Append(<<>>, posting)[1] = posting
          OBVIOUS
        <4> QED
          BY <1>4, <3>4, <4>1
      <3> QED
        BY <3>3, <3>4, <3>5
    <2> QED
      BY <2>1, <2>2
  <1> QED
    BY <1>2, <1>3, <1>4 DEF PassedInv, PostedWasApproved

\* However requests overlap, every posting is of a date and coding that an approval of
\* that voucher let through.  (post, which reads the coding before its transaction.)
THEOREM PostedWasApprovedHolds == Spec => []PostedWasApproved
  <1>1. Init => TypeInv /\ PassedInv
    <2>1. Idle \notin VoucherMemory
      BY DEF Idle, VoucherMemory
    <2> QED
      BY <2>1, TypeInit DEF Init, BooksInit, PassedInv, Exists, PostedWasApproved
  <1>2. TypeInv /\ PassedInv /\ [Next]_vars => (TypeInv /\ PassedInv)'
    BY TypeStep, PassedStep
  <1>3. PassedInv => PostedWasApproved
    BY DEF PassedInv
  <1> QED
    BY <1>1, <1>2, <1>3, PTL DEF Spec

-----------------------------------------------------------------------------
(* References.  A sequence has moved past every number it handed out, to a *)
(* voucher or to a handler that has yet to insert one.                     *)

Holds(r) == request[r] \in CreateMemory /\ request[r].pc = "insert"

Drawn(ref) == \A y \in Years : ref.in = CalendarYear[y] => ref.no < sequence[y]

RefsInv ==
  /\ \A v \in Vouchers : Exists(v) => Drawn(voucher[v].ref)
  /\ \A r \in Requests : Holds(r) => Drawn(request[r].ref)
  /\ \A v, w \in Vouchers :
       Exists(v) /\ Exists(w) /\ v # w => voucher[v].ref # voucher[w].ref
  /\ \A r \in Requests : Holds(r) =>
       /\ \A v \in Vouchers : Exists(v) => voucher[v].ref # request[r].ref
       /\ \A s \in Requests \ {r} : Holds(s) => request[s].ref # request[r].ref

OneYearEach == \A y, z \in Years : CalendarYear[y] = CalendarYear[z] => y = z

\* A handler that holds a reference after a step held the same one before, or has
\* just drawn it.
LEMMA RefKept ==
  ASSUME TypeInv, [Next]_vars, NEW s \in Requests, Holds(s)'
  PROVE  \/ Holds(s) /\ request'[s] = request[s]
         \/ AllocateRef(s)
  <1> USE DEF TypeInv, TypeOK
  <1>1. CASE request'[s] = request[s]
    BY <1>1 DEF Holds
  <1>2. CASE request'[s] # request[s]
    <2>1. PICK r \in Requests : VoucherStep(r) \/ YearStep(r) \/ Abort(r)
      BY <1>2 DEF Next, vars
    <2>2. ASSUME Finish(r) PROVE FALSE
      BY <1>2, <2>2 DEF Finish, Holds, CreateMemory, Idle
    <2>3. CASE AllocateRef(r)
      BY <1>2, <2>3 DEF AllocateRef
    <2>4. CASE ResolveOpenYear(r)
      <3>1. r = s /\ request[s] \in CreateMemory \cup VoucherMemory
        BY <1>2, <2>4, MemoryKinds DEF ResolveOpenYear, Advance
      <3>2. request'[s].pc \in {"allocate", "write"}
        BY <2>4, <3>1 DEF ResolveOpenYear, Advance, CreateMemory, VoucherMemory
      <3> QED
        BY <3>2 DEF Holds
    <2>5. CASE CreateBegin(r) \/ OpenLoad(r) \/ CloseLoad(r)
      <3>1. r = s
        BY <1>2, <2>5 DEF CreateBegin, OpenLoad, CloseLoad, Accept
      <3>2. request'[s].pc \in {"resolve", "write", "count"}
        BY <2>5, <3>1 DEF CreateBegin, OpenLoad, CloseLoad, Accept, YearRequest
      <3> QED
        BY <3>2 DEF Holds
    <2>6. CASE CloseCount(r) \/ TotalSums(r) \/ TotalCount(r)
      <3>1. r = s /\ request[s] \in YearMemory
        BY <1>2, <2>6, MemoryKinds DEF CloseCount, TotalSums, TotalCount, YearAt, Advance
      <3>2. request'[s].op = request[s].op
        BY <2>6, <3>1 DEF CloseCount, TotalSums, TotalCount, Advance, YearMemory
      <3> QED
        BY <3>1, <3>2 DEF YearMemory, CreateMemory, Holds
    <2>7. CASE Loads(r)
      <3>1. r = s
        BY <1>2, <2>7 DEF Loads, UpdateLoad, SubmitLoad, RaiseSubmitLoad, ApproveLoad,
                          RejectLoad, PostLoad, CancelLoad, CreateInsert, Accept, Finish
      <3>2. request'[s] = Idle \/ request'[s].pc \in {"resolve", "write", "load"}
        BY <2>7, <3>1 DEF Loads, UpdateLoad, SubmitLoad, RaiseSubmitLoad, ApproveLoad,
             RejectLoad, PostLoad, CancelLoad, CreateInsert, Accept, Finish, RememberRow,
             Remember
      <3> QED
        BY <3>2 DEF Holds, CreateMemory, Idle
    <2>8. CASE Writes(r) \/ OpenWrite(r) \/ CloseWrite(r) \/ Abort(r)
      BY <2>2, <2>8 DEF Writes, UpdateWrite, SubmitWrite, ApproveWrite, RejectWrite,
                        PostWrite, CancelWrite, OpenWrite, CloseWrite, Abort
    <2>9. CASE CreateYear(r)
      BY <1>2, <2>9 DEF CreateYear
    <2> QED
      BY <2>1, <2>3, <2>4, <2>5, <2>6, <2>7, <2>8, <2>9
         DEF VoucherStep, YearStep, Loads, Writes
  <1> QED
    BY <1>1, <1>2

\* A voucher that is there after a step has the reference it had, or the one its
\* handler held.
LEMMA RefWritten ==
  ASSUME TypeInv, [Next]_vars, NEW v \in Vouchers, Exists(v)'
  PROVE  \/ Exists(v) /\ voucher'[v].ref = voucher[v].ref
         \/ \E r \in Requests :
              /\ CreateInsert(r) /\ Holds(r) /\ ~Exists(v)
              /\ voucher'[v].ref = request[r].ref
              /\ \A w \in Vouchers \ {v} : voucher'[w] = voucher[w]
  <1> USE DEF TypeInv, TypeOK
  <1>1. CASE voucher'[v] = voucher[v]
    BY <1>1 DEF Exists
  <1>2. ASSUME NEW r \in Requests, CreateInsert(r), voucher'[v] # voucher[v]
        PROVE  /\ CreateInsert(r) /\ Holds(r) /\ ~Exists(v)
               /\ voucher'[v].ref = request[r].ref
               /\ \A w \in Vouchers \ {v} : voucher'[w] = voucher[w]
    <2>1. Holds(r)
      BY <1>2, MemoryKinds DEF CreateInsert, Holds
    <2> DEFINE row == [status |-> "Draft", year |-> request[r].year,
                       content |-> request[r].content, creator |-> request[r].user,
                       decider |-> NoUser, posted |-> FALSE, ref |-> request[r].ref]
    <2>2. row.ref = request[r].ref
      OBVIOUS
    <2>3. \E w \in Vouchers : ~Exists(w) /\ voucher' = [voucher EXCEPT ![w] = row]
      BY <1>2 DEF CreateInsert
    <2> HIDE DEF row
    <2> QED
      BY <1>2, <2>1, <2>2, <2>3
  <1>3. ASSUME NEW r \in Requests, Writes(r), voucher'[v] # voucher[v]
        PROVE  Exists(v) /\ voucher'[v].ref = voucher[v].ref
    <2>1. v = request[r].id
      BY <1>3, RowForms
    <2> QED
      BY <1>3, <2>1, RowForms, RowWrite DEF Writes
  <1>4. CASE UNCHANGED <<voucher, ledger, approvals>>
    BY <1>1, <1>4
  <1> QED
    BY <1>1, <1>2, <1>3, <1>4, RowWriters, Zenon DEF Writes

\* Sequences only move forward.
LEMMA SequencesGrow ==
  ASSUME TypeInv, [Next]_vars
  PROVE  /\ \A y \in Years : sequence[y] \in Nat /\ sequence'[y] \in Nat
                             /\ sequence[y] <= sequence'[y]
         /\ \A ref \in Ref : Drawn(ref) => Drawn(ref)'
         /\ UNCHANGED sequence \/ \E r \in Requests : AllocateRef(r)
  <1> USE DEF TypeInv, TypeOK
  <1>1. UNCHANGED sequence \/ \E r \in Requests : AllocateRef(r)
    <2>1. CASE UNCHANGED vars
      BY <2>1 DEF vars
    <2>2. CASE Next
      <3>1. PICK r \in Requests : VoucherStep(r) \/ YearStep(r) \/ Abort(r)
        BY <2>2 DEF Next
      <3>2. CASE YearStep(r) \/ Abort(r)
        BY <3>2 DEF YearStep, CreateYear, OpenLoad, OpenWrite, CloseLoad, CloseCount,
                    TotalSums, TotalCount, CloseWrite, Abort, tables
      <3>3. CASE VoucherStep(r) /\ ~AllocateRef(r)
        BY <3>3 DEF VoucherStep, CreateBegin, ResolveOpenYear, CreateInsert, UpdateLoad,
                    UpdateWrite, SubmitLoad, RaiseSubmitLoad, SubmitWrite, ApproveLoad,
                    ApproveWrite, RejectLoad, RejectWrite, PostLoad, PostWrite, CancelLoad,
                    CancelWrite, tables
      <3> QED
        BY <3>1, <3>2, <3>3
    <2> QED
      BY <2>1, <2>2
  <1>2. \A y \in Years : sequence[y] \in Nat /\ sequence'[y] \in Nat
                         /\ sequence[y] <= sequence'[y]
    <2>1. CASE UNCHANGED sequence
      BY <2>1
    <2>2. ASSUME NEW r \in Requests, AllocateRef(r)
          PROVE  \A y \in Years : sequence[y] \in Nat /\ sequence'[y] \in Nat
                                  /\ sequence[y] <= sequence'[y]
      <3>1. sequence' = [sequence EXCEPT ![request[r].year] = sequence[request[r].year] + 1]
        BY <2>2 DEF AllocateRef
      <3> QED
        BY <3>1
    <2> QED
      BY <1>1, <2>1, <2>2
  <1>3. ASSUME NEW ref \in Ref, Drawn(ref)
        PROVE  Drawn(ref)'
    BY <1>2, <1>3 DEF Drawn, Ref
  <1> QED
    BY <1>1, <1>2, <1>3

LEMMA RefsStep ==
  ASSUME TypeInv, RefsInv, OneYearEach, [Next]_vars
  PROVE  RefsInv'
  <1> USE DEF TypeInv, TypeOK
  <1>0. /\ \A v \in Vouchers : Exists(v) => voucher[v].ref \in Ref
        /\ \A s \in Requests : Holds(s) => request[s].ref \in Ref /\ request[s].year \in Years
    <2>1. \A v \in Vouchers : Exists(v) => voucher[v].ref \in Ref
      BY RowType DEF VoucherRow
    <2> QED
      BY <2>1 DEF Holds, CreateMemory
  \* What AllocateRef draws is past everything drawn before.
  <1>1. ASSUME NEW s \in Requests, AllocateRef(s)
        PROVE  /\ \A ref \in Ref : Drawn(ref) => request'[s].ref # ref
               /\ Drawn(request[s].ref)'
               /\ voucher' = voucher
               /\ \A t \in Requests \ {s} : request'[t] = request[t]
    <2> DEFINE y == request[s].year
               new == [in |-> CalendarYear[y], no |-> sequence[y]]
    <2>1. request[s] \in CreateMemory /\ y \in Years
      BY <1>1, MemoryKinds DEF AllocateRef, CreateMemory
    <2>2. request'[s].ref = new
      BY <1>1, <2>1 DEF AllocateRef, CreateMemory
    <2>3. sequence'[y] = sequence[y] + 1 /\ sequence[y] \in Nat
      BY <1>1, <2>1 DEF AllocateRef
    <2>4. new.in = CalendarYear[y] /\ new.no = sequence[y]
      OBVIOUS
    <2>5. ASSUME NEW ref \in Ref, Drawn(ref)
          PROVE  ref # new
      BY <2>1, <2>3, <2>4, <2>5 DEF Drawn, Ref
    <2>6. ASSUME NEW z \in Years, new.in = CalendarYear[z]
          PROVE  new.no < sequence'[z]
      BY <2>1, <2>3, <2>4, <2>6 DEF OneYearEach
    <2>7. Drawn(request[s].ref)'
      BY <2>2, <2>6 DEF Drawn
    <2>8. /\ voucher' = voucher
          /\ \A t \in Requests \ {s} : request'[t] = request[t]
      BY <1>1 DEF AllocateRef
    <2> QED
      BY <2>2, <2>5, <2>7, <2>8
  <1>2. \A v \in Vouchers : Exists(v)' => Drawn(voucher[v].ref)'
    <2>1. SUFFICES ASSUME NEW v \in Vouchers, Exists(v)'
                   PROVE  Drawn(voucher[v].ref)'
      OBVIOUS
    <2>2. voucher'[v].ref \in Ref /\ Drawn(voucher'[v].ref)
      BY <1>0, <2>1, RefWritten DEF RefsInv
    <2> QED
      BY <2>2, SequencesGrow DEF Drawn
  <1>3. \A s \in Requests : Holds(s)' => Drawn(request[s].ref)'
    <2>1. SUFFICES ASSUME NEW s \in Requests, Holds(s)'
                   PROVE  Drawn(request[s].ref)'
      OBVIOUS
    <2>2. CASE AllocateRef(s)
      BY <1>1, <2>2
    <2>3. CASE Holds(s) /\ request'[s] = request[s]
      <3>1. request'[s].ref \in Ref /\ Drawn(request'[s].ref)
        BY <1>0, <2>3 DEF RefsInv
      <3> QED
        BY <3>1, SequencesGrow DEF Drawn
    <2> QED
      BY <2>1, <2>2, <2>3, RefKept
  <1>4. ASSUME NEW v \in Vouchers, NEW w \in Vouchers, Exists(v)', Exists(w)', v # w
        PROVE  voucher'[v].ref # voucher'[w].ref
    <2>1. CASE /\ Exists(v) /\ voucher'[v].ref = voucher[v].ref
               /\ Exists(w) /\ voucher'[w].ref = voucher[w].ref
      BY <1>4, <2>1 DEF RefsInv
    <2>2. ASSUME NEW r \in Requests, CreateInsert(r), Holds(r), ~Exists(v),
                 voucher'[v].ref = request[r].ref,
                 \A u \in Vouchers \ {v} : voucher'[u] = voucher[u]
          PROVE  voucher'[v].ref # voucher'[w].ref
      <3>1. Exists(w) /\ voucher'[w] = voucher[w]
        BY <1>4, <2>2 DEF Exists
      <3> QED
        BY <2>2, <3>1 DEF RefsInv
    <2>3. ASSUME NEW r \in Requests, CreateInsert(r), Holds(r), ~Exists(w),
                 voucher'[w].ref = request[r].ref,
                 \A u \in Vouchers \ {w} : voucher'[u] = voucher[u]
          PROVE  voucher'[v].ref # voucher'[w].ref
      <3>1. Exists(v) /\ voucher'[v] = voucher[v]
        BY <1>4, <2>3 DEF Exists
      <3> QED
        BY <2>3, <3>1 DEF RefsInv
    <2>4. /\ \/ Exists(v) /\ voucher'[v].ref = voucher[v].ref
             \/ \E r \in Requests :
                  /\ CreateInsert(r) /\ Holds(r) /\ ~Exists(v)
                  /\ voucher'[v].ref = request[r].ref
                  /\ \A u \in Vouchers \ {v} : voucher'[u] = voucher[u]
          /\ \/ Exists(w) /\ voucher'[w].ref = voucher[w].ref
             \/ \E r \in Requests :
                  /\ CreateInsert(r) /\ Holds(r) /\ ~Exists(w)
                  /\ voucher'[w].ref = request[r].ref
                  /\ \A u \in Vouchers \ {w} : voucher'[u] = voucher[u]
      BY <1>4, RefWritten
    <2> QED
      BY <2>1, <2>2, <2>3, <2>4
  <1>5. ASSUME NEW s \in Requests, Holds(s)', NEW v \in Vouchers, Exists(v)'
        PROVE  voucher'[v].ref # request'[s].ref
    <2>1. CASE AllocateRef(s)
      <3>1. voucher'[v].ref \in Ref /\ Drawn(voucher'[v].ref)
        BY <1>0, <1>1, <1>5, <2>1 DEF RefsInv, Exists
      <3> QED
        BY <1>1, <2>1, <3>1
    <2>2. CASE Holds(s) /\ request'[s] = request[s]
      <3>1. CASE Exists(v) /\ voucher'[v].ref = voucher[v].ref
        BY <2>2, <3>1 DEF RefsInv
      <3>2. ASSUME NEW r \in Requests, CreateInsert(r), Holds(r),
                   voucher'[v].ref = request[r].ref
            PROVE  voucher'[v].ref # request'[s].ref
        <4>1. r # s
          <5>1. request'[r].pc # "insert" \/ request'[r] = Idle
            BY <3>2 DEF CreateInsert, Finish, Remember
          <5> QED
            BY <2>2, <5>1 DEF Holds, CreateMemory, Idle
        <4> QED
          BY <2>2, <3>2, <4>1 DEF RefsInv
      <3> QED
        BY <1>5, <3>1, <3>2, RefWritten
    <2> QED
      BY <1>5, <2>1, <2>2, RefKept
  <1>6. ASSUME NEW s \in Requests, NEW t \in Requests \ {s}, Holds(s)', Holds(t)'
        PROVE  request'[t].ref # request'[s].ref
    <2>1. CASE Holds(s) /\ request'[s] = request[s] /\ Holds(t) /\ request'[t] = request[t]
      BY <2>1 DEF RefsInv
    <2>2. CASE AllocateRef(s)
      <3>1. request'[t] = request[t] /\ Holds(t)
        BY <1>1, <1>6, <2>2 DEF Holds
      <3> QED
        BY <1>0, <1>1, <2>2, <3>1 DEF RefsInv
    <2>3. CASE AllocateRef(t)
      <3>1. request'[s] = request[s] /\ Holds(s)
        BY <1>1, <1>6, <2>3 DEF Holds
      <3> QED
        BY <1>0, <1>1, <2>3, <3>1 DEF RefsInv
    <2> QED
      BY <1>6, <2>1, <2>2, <2>3, RefKept
  <1> QED
    BY <1>2, <1>3, <1>4, <1>5, <1>6 DEF RefsInv

\* When financial years start in different calendar years, a reference is handed out
\* once: to one voucher, or to one handler that has yet to insert it.  (allocateRef.)
THEOREM RefsHandedOnceHolds ==
  ASSUME OneYearEach
  PROVE  Spec => []RefsHandedOnce
  <1>1. Init => TypeInv /\ RefsInv
    <2>1. Idle \notin CreateMemory
      BY DEF Idle, CreateMemory
    <2> QED
      BY <2>1, TypeInit DEF Init, BooksInit, RefsInv, Exists, Holds
  <1>2. TypeInv /\ RefsInv /\ [Next]_vars => (TypeInv /\ RefsInv)'
    BY TypeStep, RefsStep
  <1>3. TypeInv /\ RefsInv => RefsHandedOnce
    <2>1. ASSUME TypeInv, NEW r \in Requests, request[r].pc = "insert"
          PROVE  Holds(r)
      BY <2>1, MemoryKinds DEF Holds, Idle, TypeInv
    <2> QED
      BY <2>1 DEF RefsInv, RefsHandedOnce
  <1> QED
    BY <1>1, <1>2, <1>3, PTL DEF Spec

-----------------------------------------------------------------------------
(* One request at a time *)

OneHandler == \A r, s \in Requests : r = s

OpenFor(y) == year[y].status \in {"upcoming", "open"}

-----------------------------------------------------------------------------
(* The invariant *)

\* A voucher is as the handler that loaded it found it, and where its year was
\* resolved the year is open.
VoucherAsLoaded(m) ==
  m \in VoucherMemory =>
    /\ m.op = "update" => voucher[m.id].status \in Editable
    /\ m.op = "submit" => voucher[m.id].status \in Submittable
    /\ m.op \in {"approve", "reject"} => voucher[m.id].status = "PendingApproval"
    /\ m.op = "post" => voucher[m.id].status = "Approved"
    /\ m.op = "cancel" => voucher[m.id].status \in Cancellable
    /\ m.op # "update" => m.year = voucher[m.id].year /\ m.content = voucher[m.id].content
    /\ m.op \in {"update", "submit", "approve", "post"} /\ m.pc = "write" => OpenFor(m.year)

NewAsResolved(m) ==
  m \in CreateMemory /\ m.pc \in {"allocate", "insert"} => OpenFor(m.year)

\* A year is still open, has no unfinished voucher once they were counted, and the
\* totals that were taken are those of the ledger.
YearAsLoaded(m) ==
  m \in YearMemory =>
    /\ OpenFor(m.year)
    /\ m.pc = "count" => m.needs = {"sums", "count"}
    /\ m.pc = "total" =>
         /\ UnfinishedIn(m.year) = {}
         /\ "sums" \notin m.needs => m.figures.summed = SummedIn(m.year)
         /\ "count" \notin m.needs => m.figures.counted = PostedIn(m.year)

AsLoaded == \A r \in Requests :
  VoucherAsLoaded(request[r]) /\ NewAsResolved(request[r]) /\ YearAsLoaded(request[r])

\* A closed year is not the current one, and no other has published anything.
YearsInv == \A y \in Years :
  /\ year[y].status = "closed" => ~year[y].current
  /\ year[y].status # "closed" => year[y].figures = NoFigures

BooksInv ==
  /\ PostedOnce /\ OnlyPostedTouchesLedger /\ LedgerMatchesVoucher
  /\ ClosedFiguresStand /\ ClosedYearIsFinished /\ YearsInv

SerialInv == TypeInv /\ BooksInv /\ AsLoaded

-----------------------------------------------------------------------------
(* The totals of a year *)

\* One voucher changes, and the others and their postings do not.
Changed(v) == \A w \in Vouchers \ {v} : voucher'[w] = voucher[w] /\ ledger'[w] = ledger[w]

\* A voucher that was not posted and is no longer under way in a year, nor posted in
\* it, leaves the totals of that year alone.
LEMMA TotalsStand ==
  ASSUME NEW y \in Years, NEW v \in Vouchers, Changed(v), voucher[v].status # "Posted",
         voucher'[v].year = y => voucher'[v].status \notin Unfinished \cup {"Posted"}
  PROVE  /\ UnfinishedIn(y)' \subseteq UnfinishedIn(y)
         /\ PostedIn(y)' = PostedIn(y)
         /\ SummedIn(y)' = SummedIn(y)
<1>1. \A w \in Vouchers : w \in UnfinishedIn(y)' => w \in UnfinishedIn(y)
  BY DEF Changed, UnfinishedIn, Exists
<1>2. \A w \in Vouchers : w \in PostedIn(y)' <=> w \in PostedIn(y)
  BY DEF Changed, PostedIn, Exists
<1>3. PostedIn(y)' = PostedIn(y)
  <2>1. PostedIn(y) \subseteq Vouchers /\ PostedIn(y)' \subseteq Vouchers
    BY DEF PostedIn
  <2> QED
    BY <1>2, <2>1
<1>4. v \notin PostedIn(y)
  BY DEF PostedIn
<1>5. \A w \in PostedIn(y) : ledger'[w] = ledger[w]
  BY <1>4 DEF Changed, PostedIn
<1>6. SummedIn(y)' = SummedIn(y)
  BY <1>3, <1>5 DEF SummedIn
<1>7. UnfinishedIn(y)' \subseteq UnfinishedIn(y)
  <2>1. UnfinishedIn(y)' \subseteq Vouchers
    BY DEF UnfinishedIn
  <2> QED
    BY <1>1, <2>1
<1> QED
  BY <1>3, <1>6, <1>7

\* A year that is closed is not open for anything.
LEMMA ClosedIsNotOpen ==
  ASSUME NEW y, year[y].status = "closed"
  PROVE  ~OpenFor(y)
  BY DEF OpenFor

-----------------------------------------------------------------------------
(* The books through the change of one voucher *)

LEMMA BooksThroughVoucher ==
  ASSUME TypeInv, BooksInv, PostedOnce', NEW v \in Vouchers, Changed(v), year' = year,
         voucher[v].status # "Posted",
         voucher'[v].status \in Unfinished \cup {"Posted"} => OpenFor(voucher'[v].year),
         \/ ledger'[v] = <<>>
         \/ /\ ledger'[v] = <<[year |-> voucher'[v].year, content |-> voucher'[v].content]>>
            /\ voucher'[v].status = "Posted"
  PROVE  BooksInv'
<1>1. OnlyPostedTouchesLedger' /\ LedgerMatchesVoucher'
  <2>1. ASSUME NEW w \in Vouchers
        PROVE  /\ ledger'[w] # <<>> => voucher'[w].status = "Posted"
               /\ \A i \in DOMAIN ledger'[w] :
                    ledger'[w][i] = [year |-> voucher'[w].year, content |-> voucher'[w].content]
    <3>1. CASE w # v
      BY <3>1 DEF BooksInv, Changed, OnlyPostedTouchesLedger, LedgerMatchesVoucher
    <3>2. CASE w = v /\ ledger'[v] = <<>>
      BY <3>2
    <3>3. CASE w = v /\ ledger'[v] # <<>>
      <4> DEFINE p == [year |-> voucher'[v].year, content |-> voucher'[v].content]
      <4>1. ledger'[v] = <<p>> /\ voucher'[v].status = "Posted"
        BY <3>3
      <4> HIDE DEF p
      <4>2. \A i \in DOMAIN <<p>> : <<p>>[i] = p
        OBVIOUS
      <4> QED
        BY <3>3, <4>1, <4>2 DEF p
    <3> QED
      BY <3>1, <3>2, <3>3
  <2> QED
    BY <2>1 DEF OnlyPostedTouchesLedger, LedgerMatchesVoucher
<1>2. ASSUME NEW y \in Years, year[y].status = "closed"
      PROVE  /\ UnfinishedIn(y)' \subseteq UnfinishedIn(y)
             /\ PostedIn(y)' = PostedIn(y)
             /\ SummedIn(y)' = SummedIn(y)
  <2>1. voucher'[v].year = y => voucher'[v].status \notin Unfinished \cup {"Posted"}
    BY <1>2, ClosedIsNotOpen
  <2> QED
    BY <2>1, TotalsStand
<1>3. ClosedFiguresStand' /\ ClosedYearIsFinished'
  BY <1>2 DEF BooksInv, ClosedFiguresStand, ClosedYearIsFinished
<1>4. YearsInv'
  BY DEF BooksInv, YearsInv
<1> QED
  BY <1>1, <1>3, <1>4 DEF BooksInv

\* What each write finds, and what it makes of the status.
LEMMA StatusForms ==
  ASSUME TypeInv, AsLoaded, NEW r \in Requests, Writes(r)
  PROVE  LET id == request[r].id old == voucher[id] new == voucher'[id]
         IN /\ UpdateWrite(r) => /\ old.status \in Editable /\ new.status = "Draft"
                                 /\ new.year = request[r].year
                                 /\ new.content = request[r].content
                                 /\ OpenFor(new.year)
            /\ SubmitWrite(r) => /\ old.status \in Submittable /\ new.status = "PendingApproval"
                                 /\ OpenFor(old.year)
            /\ ApproveWrite(r) => /\ old.status = "PendingApproval" /\ new.status = "Approved"
                                  /\ OpenFor(old.year)
            /\ RejectWrite(r) => old.status = "PendingApproval" /\ new.status = "Rejected"
            /\ PostWrite(r) => /\ old.status = "Approved" /\ new.status = "Posted"
                               /\ OpenFor(old.year)
                               /\ ledger[id] = <<>>
                               /\ ledger' = [ledger EXCEPT ![id] =
                                    <<[year |-> old.year, content |-> old.content]>>]
            /\ CancelWrite(r) => old.status \in Cancellable /\ new.status = "Cancelled"
<1> DEFINE m == request[r]
           id == m.id
           old == voucher[id]
<1>1. /\ m \in VoucherMemory /\ id \in Vouchers /\ old \in VoucherRow
  BY RowWrite DEF Writes
<1>2. voucher \in [Vouchers -> {Absent} \cup VoucherRow]
      /\ ledger \in [Vouchers -> Seq(Posting)]
  BY DEF TypeInv, TypeOK
<1>3. VoucherAsLoaded(m)
  BY DEF AsLoaded
<1>4. CASE UpdateWrite(r)
  <2>1. voucher'[id] = [old EXCEPT !.status = "Draft", !.year = m.year,
                                   !.content = m.content, !.decider = NoUser]
    BY <1>1, <1>2, <1>4 DEF UpdateWrite, UpdateVoucherRow
  <2>2. m.op = "update" /\ m.pc = "write"
    BY <1>4 DEF UpdateWrite, At
  <2>3. ~SubmitWrite(r) /\ ~ApproveWrite(r) /\ ~RejectWrite(r) /\ ~PostWrite(r) /\ ~CancelWrite(r)
    BY <2>2 DEF SubmitWrite, ApproveWrite, RejectWrite, PostWrite, CancelWrite, At
  <2> QED
    BY <1>1, <1>3, <2>1, <2>2, <2>3 DEF VoucherAsLoaded, VoucherRow
<1>5. CASE SubmitWrite(r)
  <2>1. voucher'[id] = [old EXCEPT !.status = "PendingApproval", !.decider = NoUser]
    BY <1>1, <1>2, <1>5 DEF SubmitWrite, UpdateVoucherRow
  <2>2. m.op = "submit" /\ m.pc = "write"
    BY <1>5 DEF SubmitWrite, At
  <2>3. ~UpdateWrite(r) /\ ~ApproveWrite(r) /\ ~RejectWrite(r) /\ ~PostWrite(r) /\ ~CancelWrite(r)
    BY <2>2 DEF UpdateWrite, ApproveWrite, RejectWrite, PostWrite, CancelWrite, At
  <2> QED
    BY <1>1, <1>3, <2>1, <2>2, <2>3 DEF VoucherAsLoaded, VoucherRow
<1>6. CASE ApproveWrite(r)
  <2>1. voucher'[id] = [old EXCEPT !.status = "Approved", !.decider = m.user]
    BY <1>1, <1>2, <1>6 DEF ApproveWrite, UpdateVoucherRow
  <2>2. m.op = "approve" /\ m.pc = "write"
    BY <1>6 DEF ApproveWrite, At
  <2>3. ~UpdateWrite(r) /\ ~SubmitWrite(r) /\ ~RejectWrite(r) /\ ~PostWrite(r) /\ ~CancelWrite(r)
    BY <2>2 DEF UpdateWrite, SubmitWrite, RejectWrite, PostWrite, CancelWrite, At
  <2> QED
    BY <1>1, <1>3, <2>1, <2>2, <2>3 DEF VoucherAsLoaded, VoucherRow
<1>7. CASE RejectWrite(r)
  <2>1. voucher'[id] = [old EXCEPT !.status = "Rejected", !.decider = m.user]
    BY <1>1, <1>2, <1>7 DEF RejectWrite, UpdateVoucherRow
  <2>2. m.op = "reject"
    BY <1>7 DEF RejectWrite, At
  <2>3. ~UpdateWrite(r) /\ ~SubmitWrite(r) /\ ~ApproveWrite(r) /\ ~PostWrite(r) /\ ~CancelWrite(r)
    BY <2>2 DEF UpdateWrite, SubmitWrite, ApproveWrite, PostWrite, CancelWrite, At
  <2> QED
    BY <1>1, <1>3, <2>1, <2>2, <2>3 DEF VoucherAsLoaded, VoucherRow
<1>8. CASE PostWrite(r)
  <2>1. voucher'[id] = [old EXCEPT !.status = "Posted", !.posted = TRUE]
    BY <1>1, <1>2, <1>8 DEF PostWrite, UpdateVoucherRow
  <2>2. m.op = "post" /\ m.pc = "write"
    BY <1>8 DEF PostWrite, At
  <2>3. ~UpdateWrite(r) /\ ~SubmitWrite(r) /\ ~ApproveWrite(r) /\ ~RejectWrite(r) /\ ~CancelWrite(r)
    BY <2>2 DEF UpdateWrite, SubmitWrite, ApproveWrite, RejectWrite, CancelWrite, At
  <2>4. m.year = old.year /\ m.content = old.content
    BY <1>1, <1>3, <2>2 DEF VoucherAsLoaded
  <2>5. ledger[id] = <<>>
        /\ ledger' = [ledger EXCEPT ![id] = Append(@, [year |-> m.year, content |-> m.content])]
    BY <1>8 DEF PostWrite, UniqueVoucherLine
  <2> DEFINE p == [year |-> old.year, content |-> old.content]
  <2>6. ledger' = [ledger EXCEPT ![id] = <<p>>]
    <3>1. ledger' = [ledger EXCEPT ![id] = Append(<<>>, p)]
      BY <1>1, <1>2, <2>4, <2>5
    <3>2. Append(<<>>, p) = <<p>>
      OBVIOUS
    <3> QED
      BY <3>1, <3>2
  <2>7. old.status = "Approved" /\ OpenFor(old.year)
    BY <1>1, <1>3, <2>2, <2>4 DEF VoucherAsLoaded
  <2>8. voucher'[id].status = "Posted"
    BY <1>1, <2>1 DEF VoucherRow
  <2> QED
    BY <2>3, <2>5, <2>6, <2>7, <2>8
<1>9. CASE CancelWrite(r)
  <2>1. voucher'[id] = [old EXCEPT !.status = "Cancelled"]
    BY <1>1, <1>2, <1>9 DEF CancelWrite, UpdateVoucherRow
  <2>2. m.op = "cancel"
    BY <1>9 DEF CancelWrite, At
  <2>3. ~UpdateWrite(r) /\ ~SubmitWrite(r) /\ ~ApproveWrite(r) /\ ~RejectWrite(r) /\ ~PostWrite(r)
    BY <2>2 DEF UpdateWrite, SubmitWrite, ApproveWrite, RejectWrite, PostWrite, At
  <2> QED
    BY <1>1, <1>3, <2>1, <2>2, <2>3 DEF VoucherAsLoaded, VoucherRow
<1> QED
  BY <1>4, <1>5, <1>6, <1>7, <1>8, <1>9 DEF Writes

\* A write by id keeps the books.
LEMMA BooksThroughWrite ==
  ASSUME SerialInv, PostedOnce', NEW r \in Requests, Writes(r)
  PROVE  /\ BooksInv'
         /\ Changed(request[r].id) /\ request[r].id \in Vouchers
         /\ voucher[request[r].id].status \notin {"Posted", "Cancelled"}
         /\ ledger[request[r].id] = <<>>
<1> DEFINE id == request[r].id
           old == voucher[id]
           new == voucher'[id]
<1>0. TypeInv /\ BooksInv /\ AsLoaded
  BY DEF SerialInv
<1>1. id \in Vouchers /\ Exists(id)
  BY <1>0, RowWrite DEF Writes
<1>2. ledger' = ledger \/ PostWrite(r)
  BY <1>0, RowWrite DEF Writes
<1>3. old.status \in {"Draft", "PendingApproval", "Rejected", "Approved"}
  BY <1>0, StatusForms DEF Writes, Editable, Submittable, Cancellable
<1>4. ledger[id] = <<>>
  BY <1>0, <1>1, <1>3 DEF BooksInv, OnlyPostedTouchesLedger
<1>5. Changed(id)
  BY <1>0, <1>1, <1>2, RowForms, StatusForms DEF Changed, TypeInv, TypeOK
<1>6. \/ ledger'[id] = <<>>
      \/ ledger'[id] = <<[year |-> new.year, content |-> new.content]>> /\ new.status = "Posted"
  <2>1. CASE PostWrite(r)
    <3>1. ~UpdateWrite(r)
      BY <2>1 DEF PostWrite, UpdateWrite, At
    <3>2. new.year = old.year /\ new.content = old.content
      BY <1>0, <3>1, RowForms
    <3>3. new.status = "Posted"
          /\ ledger' = [ledger EXCEPT ![id] = <<[year |-> old.year, content |-> old.content]>>]
      BY <1>0, <2>1, StatusForms
    <3> QED
      BY <1>0, <1>1, <3>2, <3>3 DEF TypeInv, TypeOK
  <2> QED
    BY <1>2, <1>4, <2>1
<1>7. new.status \in Unfinished \cup {"Posted"} => OpenFor(new.year)
  <2>1. UpdateWrite(r) => OpenFor(new.year)
    BY <1>0, StatusForms
  <2>2. ~UpdateWrite(r) => new.year = old.year
    BY <1>0, RowForms
  <2>3. SubmitWrite(r) \/ ApproveWrite(r) \/ PostWrite(r) => OpenFor(old.year)
    BY <1>0, StatusForms
  <2>4. RejectWrite(r) \/ CancelWrite(r) => new.status \in {"Rejected", "Cancelled"}
    BY <1>0, StatusForms
  <2> QED
    BY <2>1, <2>2, <2>3, <2>4 DEF Writes, Unfinished
<1>8. year' = year
  BY DEF Writes, UpdateWrite, SubmitWrite, ApproveWrite, RejectWrite, PostWrite, CancelWrite
<1> HIDE DEF id, old, new
<1>9. BooksInv'
  BY <1>0, <1>1, <1>3, <1>5, <1>6, <1>7, <1>8, BooksThroughVoucher DEF old, new
<1> QED
  BY <1>1, <1>3, <1>4, <1>5, <1>9 DEF id, old

-----------------------------------------------------------------------------
(* The books through the change of a year *)

YearWrites(r) == CreateYear(r) \/ OpenWrite(r) \/ CloseWrite(r)

\* What the writes of a year make of each row: an open or a closed one stays as it is
\* or loses its current mark, and one that is closed takes the totals of the ledger.
LEMMA YearForms ==
  ASSUME SerialInv, NEW r \in Requests, YearWrites(r), NEW y \in Years
  PROVE  /\ voucher' = voucher /\ ledger' = ledger
         /\ \/ year'[y] = year[y]
            \/ /\ year[y].status # "closed" /\ year'[y].status # "closed"
               /\ year'[y].figures = NoFigures
            \/ /\ CloseWrite(r) /\ y = request[r].year
               /\ OpenFor(y) /\ UnfinishedIn(y) = {}
               /\ year'[y].status = "closed" /\ ~year'[y].current
               /\ year'[y].figures.summed = SummedIn(y)
               /\ year'[y].figures.counted = PostedIn(y)
<1>1. /\ TypeInv /\ YearsInv /\ AsLoaded
      /\ year \in [Years -> YearRow] /\ year[y] \in YearRow
  BY DEF SerialInv, BooksInv, TypeInv, TypeOK
<1>2. CASE CreateYear(r)
  <2>1. PICK z \in Years :
          year[z].status = "absent" /\ year' = [year EXCEPT ![z].status = "upcoming"]
    BY <1>2 DEF CreateYear
  <2>2. CASE y = z
    <3>1. year'[y] = [year[y] EXCEPT !.status = "upcoming"] /\ year[y].status # "closed"
      BY <1>1, <2>1, <2>2
    <3>2. year'[y].status = "upcoming" /\ year'[y].figures = year[y].figures
      BY <1>1, <3>1 DEF YearRow
    <3> QED
      BY <1>1, <1>2, <3>1, <3>2 DEF YearsInv, CreateYear
  <2> QED
    BY <1>1, <1>2, <2>1, <2>2 DEF CreateYear
<1>3. CASE OpenWrite(r)
  <2>1. request[r] \in YearMemory
    BY <1>1, <1>3, MemoryKinds DEF OpenWrite, YearAt, TypeInv
  <2>2. OpenFor(request[r].year)
    BY <1>1, <2>1 DEF AsLoaded, YearAsLoaded
  <2>3. CASE y = request[r].year
    <3>1. year'[y] = [year[y] EXCEPT !.status = "open", !.current = TRUE]
      BY <1>3, <2>3 DEF OpenWrite
    <3>2. year'[y].status = "open" /\ year'[y].figures = year[y].figures
      BY <1>1, <3>1 DEF YearRow
    <3>3. year[y].status # "closed"
      BY <2>2, <2>3 DEF OpenFor
    <3> QED
      BY <1>1, <1>3, <3>2, <3>3 DEF YearsInv, OpenWrite
  <2>4. CASE y # request[r].year
    <3>1. year'[y] = [year[y] EXCEPT !.current = FALSE]
      BY <1>3, <2>4 DEF OpenWrite
    <3>2. year'[y].status = year[y].status /\ year'[y].figures = year[y].figures
      BY <1>1, <3>1 DEF YearRow
    <3>3. year[y].status = "closed" => year'[y] = year[y]
      BY <1>1, <3>1 DEF YearRow, YearsInv
    <3> QED
      BY <1>1, <1>3, <3>2, <3>3 DEF YearsInv, OpenWrite
  <2> QED
    BY <2>3, <2>4
<1>4. CASE CloseWrite(r)
  <2> DEFINE m == request[r]
             row == [status |-> "closed", current |-> FALSE, figures |-> m.figures]
  <2>1. m \in YearMemory /\ m.pc = "total" /\ m.needs = {}
    BY <1>1, <1>4, MemoryKinds DEF CloseWrite, YearAt, TypeInv
  <2>2. /\ OpenFor(m.year) /\ UnfinishedIn(m.year) = {}
        /\ m.figures.summed = SummedIn(m.year) /\ m.figures.counted = PostedIn(m.year)
    BY <1>1, <2>1 DEF AsLoaded, YearAsLoaded
  <2>3. year' = [year EXCEPT ![m.year] = row]
    BY <1>4 DEF CloseWrite
  <2>4. CASE y = m.year
    <3>1. year'[y] = row
      BY <1>1, <2>3, <2>4
    <3> QED
      BY <1>4, <2>2, <2>4, <3>1 DEF CloseWrite
  <2>5. CASE y # m.year
    BY <1>1, <1>4, <2>3, <2>5 DEF CloseWrite
  <2> QED
    BY <2>4, <2>5
<1> QED
  BY <1>2, <1>3, <1>4 DEF YearWrites

\* A write of a year keeps the books.
LEMMA BooksThroughYear ==
  ASSUME SerialInv, NEW r \in Requests, YearWrites(r)
  PROVE  BooksInv'
<1>1. /\ voucher' = voucher /\ ledger' = ledger
  BY DEF YearWrites, CreateYear, OpenWrite, CloseWrite
<1>2. \A y \in Years : /\ UnfinishedIn(y)' = UnfinishedIn(y)
                       /\ PostedIn(y)' = PostedIn(y) /\ SummedIn(y)' = SummedIn(y)
  BY <1>1 DEF UnfinishedIn, PostedIn, SummedIn, Exists
<1>3. PostedOnce' /\ OnlyPostedTouchesLedger' /\ LedgerMatchesVoucher'
  BY <1>1 DEF SerialInv, BooksInv, PostedOnce, OnlyPostedTouchesLedger,
              LedgerMatchesVoucher, Exists
<1>4. ASSUME NEW y \in Years
      PROVE  /\ year'[y].status = "closed" =>
                  /\ year'[y].figures.summed = SummedIn(y)
                  /\ year'[y].figures.counted = PostedIn(y)
                  /\ UnfinishedIn(y) = {} /\ ~year'[y].current
             /\ year'[y].status # "closed" => year'[y].figures = NoFigures
  BY YearForms DEF SerialInv, BooksInv, ClosedFiguresStand, ClosedYearIsFinished, YearsInv
<1>5. ClosedFiguresStand' /\ ClosedYearIsFinished' /\ YearsInv'
  BY <1>2, <1>4 DEF ClosedFiguresStand, ClosedYearIsFinished, YearsInv
<1> QED
  BY <1>3, <1>5 DEF BooksInv

-----------------------------------------------------------------------------
(* The insert of a new voucher *)

\* The voucher that was inserted.
InsertOf(r, v) ==
  /\ request[r] \in CreateMemory /\ ~Exists(v) /\ ledger[v] = <<>>
  /\ Changed(v) /\ ledger' = ledger /\ year' = year
  /\ voucher'[v].status = "Draft" /\ voucher'[v].year = request[r].year
  /\ voucher'[v].content = request[r].content
  /\ OpenFor(request[r].year)
  /\ \/ request'[r] = Idle
     \/ request'[r] = Remember("submit", "load", request[r].user, v,
                               request[r].year, request[r].content)

LEMMA InsertForm ==
  ASSUME SerialInv, NEW r \in Requests, CreateInsert(r)
  PROVE  \E v \in Vouchers : InsertOf(r, v)
<1> DEFINE m == request[r]
           row == [status |-> "Draft", year |-> m.year, content |-> m.content,
                   creator |-> m.user, decider |-> NoUser, posted |-> FALSE, ref |-> m.ref]
<1>1. TypeInv /\ BooksInv /\ AsLoaded /\ TypeOK
  BY DEF SerialInv, TypeInv
<1>2. m \in CreateMemory /\ m.pc = "insert"
  BY <1>1, MemoryKinds DEF CreateInsert
<1>3. OpenFor(m.year)
  BY <1>1, <1>2 DEF AsLoaded, NewAsResolved
<1>4. row.status = "Draft" /\ row.year = m.year /\ row.content = m.content
  OBVIOUS
<1>5. PICK v \in Vouchers :
        /\ ~Exists(v) /\ voucher' = [voucher EXCEPT ![v] = row]
        /\ \/ Finish(r)
           \/ request' = [request EXCEPT ![r] =
                Remember("submit", "load", m.user, v, m.year, m.content)]
  BY DEF CreateInsert
<1> HIDE DEF row
<1>6. voucher'[v] = row /\ \A w \in Vouchers \ {v} : voucher'[w] = voucher[w]
  BY <1>1, <1>5 DEF TypeOK
<1>7. ledger' = ledger /\ year' = year
  BY DEF CreateInsert
<1>8. ledger[v] = <<>>
  BY <1>1, <1>5 DEF BooksInv, PostedOnce
<1>9. \/ request'[r] = Idle
      \/ request'[r] = Remember("submit", "load", m.user, v, m.year, m.content)
  BY <1>1, <1>5 DEF Finish, TypeOK
<1> QED
  BY <1>2, <1>3, <1>4, <1>5, <1>6, <1>7, <1>8, <1>9 DEF InsertOf, Changed

LEMMA BooksThroughInsert ==
  ASSUME SerialInv, PostedOnce', NEW r \in Requests, NEW v \in Vouchers, InsertOf(r, v)
  PROVE  BooksInv'
<1>1. voucher[v].status # "Posted"
  BY DEF InsertOf, Exists, Absent
<1>2. ledger'[v] = <<>> /\ OpenFor(voucher'[v].year) /\ Changed(v) /\ year' = year
  BY DEF InsertOf
<1> QED
  BY <1>1, <1>2, BooksThroughVoucher DEF SerialInv

-----------------------------------------------------------------------------
(* What a handler remembers, while it is the only one *)

LEMMA IdleKnowsNothing ==
  /\ Idle \notin VoucherMemory /\ Idle \notin CreateMemory /\ Idle \notin YearMemory
  BY DEF Idle, VoucherMemory, CreateMemory, YearMemory

\* A handler that ends leaves nothing to be checked.
LEMMA LoadedWhenIdle ==
  ASSUME OneHandler, NEW r \in Requests, request'[r] = Idle
  PROVE  AsLoaded'
<1>1. \A s \in Requests : request'[s] = Idle
  BY DEF OneHandler
<1> QED
  BY <1>1, IdleKnowsNothing DEF AsLoaded, VoucherAsLoaded, NewAsResolved, YearAsLoaded

\* A statement that only reads leaves what was checked as it was.
LEMMA LoadedThroughRead ==
  ASSUME OneHandler, NEW r \in Requests, voucher' = voucher, ledger' = ledger, year' = year,
         VoucherAsLoaded(request'[r]), NewAsResolved(request'[r]), YearAsLoaded(request'[r])
  PROVE  AsLoaded'
<1>1. \A y \in Years : /\ UnfinishedIn(y)' = UnfinishedIn(y)
                       /\ PostedIn(y)' = PostedIn(y) /\ SummedIn(y)' = SummedIn(y)
  BY DEF UnfinishedIn, PostedIn, SummedIn, Exists
<1>2. VoucherAsLoaded(request[r])'
  BY DEF VoucherAsLoaded, OpenFor
<1>3. NewAsResolved(request[r])'
  BY DEF NewAsResolved, OpenFor
<1>4. YearAsLoaded(request[r])'
  <2>1. request'[r] \in YearMemory => request'[r].year \in Years
    BY DEF YearMemory
  <2> QED
    BY <1>1, <2>1 DEF YearAsLoaded, OpenFor
<1>5. \A s \in Requests : s = r
  BY DEF OneHandler
<1> QED
  BY <1>2, <1>3, <1>4, <1>5 DEF AsLoaded

\* The kinds of memory have no member in common.
LEMMA OneKind ==
  /\ CreateMemory \cap VoucherMemory = {}
  /\ CreateMemory \cap YearMemory = {}
  /\ VoucherMemory \cap YearMemory = {}
  BY DEF CreateMemory, VoucherMemory, YearMemory

\* The first statement of each operation on a voucher checks the row it loads.
LEMMA LoadedVoucher ==
  ASSUME SerialInv, OneHandler, NEW r \in Requests,
         \/ UpdateLoad(r) \/ SubmitLoad(r) \/ RaiseSubmitLoad(r) \/ ApproveLoad(r)
         \/ RejectLoad(r) \/ PostLoad(r) \/ CancelLoad(r)
  PROVE  AsLoaded'
<1>1. voucher' = voucher /\ ledger' = ledger /\ year' = year
  BY DEF UpdateLoad, SubmitLoad, RaiseSubmitLoad, ApproveLoad, RejectLoad, PostLoad,
         CancelLoad, tables
<1>2. TypeOK /\ TypeInv
  BY DEF SerialInv, TypeInv
<1>3. ASSUME NEW m, request' = [request EXCEPT ![r] = m],
             m.op = "update" => m.pc = "resolve" /\ voucher[m.id].status \in Editable,
             m.op = "submit" => m.pc = "resolve" /\ voucher[m.id].status \in Submittable,
             m.op = "approve" => m.pc = "resolve" /\ voucher[m.id].status = "PendingApproval",
             m.op = "reject" => voucher[m.id].status = "PendingApproval",
             m.op = "post" => m.pc = "resolve" /\ voucher[m.id].status = "Approved",
             m.op = "cancel" => voucher[m.id].status \in Cancellable,
             m.op # "update" => m.year = voucher[m.id].year /\ m.content = voucher[m.id].content,
             m.op \in {"update", "submit", "approve", "reject", "post", "cancel"}
      PROVE  AsLoaded'
  <2>1. request'[r] = m
    BY <1>2, <1>3 DEF TypeOK
  <2>2. VoucherAsLoaded(m)
    BY <1>3 DEF VoucherAsLoaded
  <2>3. NewAsResolved(m) /\ YearAsLoaded(m)
    BY <1>3 DEF NewAsResolved, YearAsLoaded, CreateMemory, YearMemory
  <2> QED
    BY <1>1, <2>1, <2>2, <2>3, LoadedThroughRead
<1>4. CASE UpdateLoad(r)
  <2>1. PICK u \in Users, v \in Vouchers, y \in Years, c \in Contents :
          /\ voucher[v].status \in Editable
          /\ Accept(r, Remember("update", "resolve", u, v, y, c))
    BY <1>4 DEF UpdateLoad
  <2> QED
    BY <1>3, <2>1 DEF Accept, Remember
<1>5. CASE SubmitLoad(r)
  <2>1. PICK u \in Users, v \in Vouchers :
          voucher[v].status \in Submittable /\ Accept(r, RememberRow("submit", "resolve", u, v))
    BY <1>5 DEF SubmitLoad
  <2> QED
    BY <1>3, <2>1 DEF Accept, RememberRow, Remember
<1>6. CASE RaiseSubmitLoad(r)
  <2>1. /\ voucher[request[r].id].status \in Submittable
        /\ request' = [request EXCEPT ![r] =
             RememberRow("submit", "resolve", request[r].user, request[r].id)]
    BY <1>6 DEF RaiseSubmitLoad
  <2> QED
    BY <1>3, <2>1 DEF RememberRow, Remember
<1>7. CASE ApproveLoad(r)
  <2>1. PICK u \in Approvers, v \in Vouchers :
          voucher[v].status = "PendingApproval" /\ Accept(r, RememberRow("approve", "resolve", u, v))
    BY <1>7 DEF ApproveLoad
  <2> QED
    BY <1>3, <2>1 DEF Accept, RememberRow, Remember
<1>8. CASE RejectLoad(r)
  <2>1. PICK u \in Approvers, v \in Vouchers :
          voucher[v].status = "PendingApproval" /\ Accept(r, RememberRow("reject", "write", u, v))
    BY <1>8 DEF RejectLoad
  <2> QED
    BY <1>3, <2>1 DEF Accept, RememberRow, Remember
<1>9. CASE PostLoad(r)
  <2>1. PICK u \in Posters, v \in Vouchers :
          voucher[v].status = "Approved" /\ Accept(r, RememberRow("post", "resolve", u, v))
    BY <1>9 DEF PostLoad
  <2> QED
    BY <1>3, <2>1 DEF Accept, RememberRow, Remember
<1>10. CASE CancelLoad(r)
  <2>1. PICK u \in Users, v \in Vouchers :
          voucher[v].status \in Cancellable /\ Accept(r, RememberRow("cancel", "write", u, v))
    BY <1>10 DEF CancelLoad
  <2> QED
    BY <1>3, <2>1 DEF Accept, RememberRow, Remember
<1> QED
  BY <1>4, <1>5, <1>6, <1>7, <1>8, <1>9, <1>10

\* The statements of create up to its insert, and the look-up of the year of the
\* voucher a handler holds.
LEMMA LoadedYearOfVoucher ==
  ASSUME SerialInv, OneHandler, NEW r \in Requests,
         CreateBegin(r) \/ ResolveOpenYear(r) \/ AllocateRef(r)
  PROVE  AsLoaded'
<1>1. voucher' = voucher /\ ledger' = ledger /\ year' = year
  BY DEF CreateBegin, ResolveOpenYear, AllocateRef, tables
<1>2. TypeOK /\ TypeInv /\ AsLoaded
  BY DEF SerialInv, TypeInv
<1>3. VoucherAsLoaded(request[r]) /\ NewAsResolved(request[r])
  BY <1>2 DEF AsLoaded
<1>4. CASE CreateBegin(r)
  <2>1. PICK op \in {"create", "raise"}, u \in Users, y \in Years, c \in Contents :
          Accept(r, [pc |-> "resolve", op |-> op, user |-> u, year |-> y,
                     content |-> c, ref |-> NoRef])
    BY <1>4 DEF CreateBegin
  <2>2. request'[r].pc = "resolve" /\ request'[r].op = op
    BY <1>2, <2>1 DEF Accept, TypeOK
  <2>3. VoucherAsLoaded(request'[r]) /\ NewAsResolved(request'[r]) /\ YearAsLoaded(request'[r])
    BY <2>2 DEF VoucherAsLoaded, NewAsResolved, YearAsLoaded, VoucherMemory, YearMemory
  <2> QED
    BY <1>1, <2>3, LoadedThroughRead
<1>5. CASE ResolveOpenYear(r)
  <2> DEFINE next == IF request[r].op \in {"create", "raise"} THEN "allocate" ELSE "write"
  <2>1. request[r] \in CreateMemory \cup VoucherMemory /\ OpenFor(request[r].year)
    BY <1>2, <1>5, MemoryKinds DEF ResolveOpenYear, OpenFor
  <2>2. request'[r] = [request[r] EXCEPT !.pc = next]
    BY <1>2, <1>5 DEF ResolveOpenYear, Advance, TypeOK
  <2>3. CASE request[r] \in VoucherMemory
    <3>1. /\ request'[r].op = request[r].op /\ request'[r].id = request[r].id
          /\ request'[r].year = request[r].year /\ request'[r].content = request[r].content
          /\ request'[r] \in VoucherMemory
      BY <2>2, <2>3 DEF VoucherMemory
    <3>2. VoucherAsLoaded(request'[r])
      BY <1>3, <2>1, <2>3, <3>1 DEF VoucherAsLoaded
    <3>3. NewAsResolved(request'[r]) /\ YearAsLoaded(request'[r])
      BY <3>1, OneKind DEF NewAsResolved, YearAsLoaded
    <3> QED
      BY <1>1, <3>2, <3>3, LoadedThroughRead
  <2>4. CASE request[r] \in CreateMemory
    <3>1. request'[r].year = request[r].year /\ request'[r] \in CreateMemory
      BY <2>2, <2>4 DEF CreateMemory
    <3>2. NewAsResolved(request'[r])
      BY <2>1, <3>1 DEF NewAsResolved
    <3>3. VoucherAsLoaded(request'[r]) /\ YearAsLoaded(request'[r])
      BY <3>1, OneKind DEF VoucherAsLoaded, YearAsLoaded
    <3> QED
      BY <1>1, <3>2, <3>3, LoadedThroughRead
  <2> QED
    BY <2>1, <2>3, <2>4
<1>6. CASE AllocateRef(r)
  <2> DEFINE ref == [in |-> CalendarYear[request[r].year], no |-> sequence[request[r].year]]
  <2>1. request[r] \in CreateMemory /\ request[r].pc = "allocate"
    BY <1>2, <1>6, MemoryKinds DEF AllocateRef
  <2>2. request'[r] = [request[r] EXCEPT !.pc = "insert", !.ref = ref]
    BY <1>2, <1>6 DEF AllocateRef, TypeOK
  <2>3. request'[r].op = request[r].op /\ request'[r].year = request[r].year
    BY <2>1, <2>2 DEF CreateMemory
  <2>4. OpenFor(request[r].year)
    BY <1>3, <2>1 DEF NewAsResolved
  <2>5. VoucherAsLoaded(request'[r]) /\ NewAsResolved(request'[r]) /\ YearAsLoaded(request'[r])
    BY <2>1, <2>3, <2>4 DEF VoucherAsLoaded, NewAsResolved, YearAsLoaded, CreateMemory,
                            VoucherMemory, YearMemory
  <2> QED
    BY <1>1, <2>5, LoadedThroughRead
<1> QED
  BY <1>4, <1>5, <1>6

\* The statements of open and close up to their write.
LEMMA LoadedYear ==
  ASSUME SerialInv, OneHandler, NEW r \in Requests,
         OpenLoad(r) \/ CloseLoad(r) \/ CloseCount(r) \/ TotalSums(r) \/ TotalCount(r)
  PROVE  AsLoaded'
<1>1. voucher' = voucher /\ ledger' = ledger /\ year' = year
  BY DEF OpenLoad, CloseLoad, CloseCount, TotalSums, TotalCount, tables
<1>2. TypeOK /\ TypeInv /\ AsLoaded
  BY DEF SerialInv, TypeInv
<1>3. ASSUME request'[r].op \in {"open", "close"}, YearAsLoaded(request'[r])
      PROVE  AsLoaded'
  <2>1. VoucherAsLoaded(request'[r]) /\ NewAsResolved(request'[r])
    BY <1>3 DEF VoucherAsLoaded, NewAsResolved, VoucherMemory, CreateMemory
  <2> QED
    BY <1>1, <1>3, <2>1, LoadedThroughRead
<1>4. CASE OpenLoad(r)
  <2>1. PICK y \in Years : OpenFor(y) /\ Accept(r, YearRequest("open", "write", y))
    BY <1>4 DEF OpenLoad, OpenFor
  <2>2. request'[r] = YearRequest("open", "write", y)
    BY <1>2, <2>1 DEF Accept, TypeOK
  <2>3. request'[r].op = "open" /\ request'[r].pc = "write" /\ request'[r].year = y
    BY <2>2 DEF YearRequest
  <2> QED
    BY <1>3, <2>1, <2>3 DEF YearAsLoaded
<1>5. CASE CloseLoad(r)
  <2>1. PICK y \in Years : OpenFor(y) /\ Accept(r, YearRequest("close", "count", y))
    BY <1>5 DEF CloseLoad, OpenFor
  <2>2. request'[r] = YearRequest("close", "count", y)
    BY <1>2, <2>1 DEF Accept, TypeOK
  <2>3. /\ request'[r].op = "close" /\ request'[r].pc = "count" /\ request'[r].year = y
        /\ request'[r].needs = {"sums", "count"}
    BY <2>2 DEF YearRequest
  <2> QED
    BY <1>3, <2>1, <2>3 DEF YearAsLoaded
<1>6. ASSUME CloseCount(r) \/ TotalSums(r) \/ TotalCount(r)
      PROVE  request[r] \in YearMemory /\ YearAsLoaded(request[r])
  BY <1>2, <1>6, MemoryKinds DEF CloseCount, TotalSums, TotalCount, YearAt, AsLoaded
<1>7. CASE CloseCount(r)
  <2>1. request'[r] = [request[r] EXCEPT !.pc = "total"]
    BY <1>2, <1>7 DEF CloseCount, Advance, TypeOK
  <2>2. /\ request'[r].op = "close" /\ request'[r].pc = "total"
        /\ request'[r].year = request[r].year /\ request'[r].needs = request[r].needs
    BY <1>6, <1>7, <2>1 DEF YearMemory, CloseCount, YearAt
  <2>3. request[r].pc = "count" /\ UnfinishedIn(request[r].year) = {}
    BY <1>7 DEF CloseCount, YearAt
  <2>4. OpenFor(request[r].year) /\ request[r].needs = {"sums", "count"}
    BY <1>6, <1>7, <2>3 DEF YearAsLoaded
  <2> QED
    BY <1>3, <2>2, <2>3, <2>4 DEF YearAsLoaded
<1>8. CASE TotalSums(r)
  <2> DEFINE f == [request[r].figures EXCEPT !.summed = SummedIn(request[r].year)]
  <2>0. /\ request[r].figures \in Figures
        /\ f.summed = SummedIn(request[r].year) /\ f.counted = request[r].figures.counted
    BY <1>6, <1>8 DEF YearMemory, Figures
  <2>1. request'[r] = [request[r] EXCEPT !.needs = @ \ {"sums"}, !.figures = f]
    BY <1>2, <1>6, <1>8 DEF TotalSums, TypeOK, YearMemory
  <2>11. request[r] \in YearMemory /\ request[r].op = "close" /\ request[r].pc = "total"
    BY <1>6, <1>8 DEF TotalSums, YearAt
  <2> HIDE DEF f
  <2>2. /\ request'[r].op = "close" /\ request'[r].pc = "total"
        /\ request'[r].year = request[r].year
        /\ request'[r].needs = request[r].needs \ {"sums"}
        /\ request'[r].figures.summed = SummedIn(request[r].year)
        /\ request'[r].figures.counted = request[r].figures.counted
    BY <2>0, <2>1, <2>11 DEF YearMemory
  <2>3. request[r].pc = "total"
    BY <1>8 DEF TotalSums, YearAt
  <2> QED
    BY <1>3, <1>6, <1>8, <2>2, <2>3 DEF YearAsLoaded
<1>9. CASE TotalCount(r)
  <2> DEFINE f == [request[r].figures EXCEPT !.counted = PostedIn(request[r].year)]
  <2>0. /\ request[r].figures \in Figures
        /\ f.counted = PostedIn(request[r].year) /\ f.summed = request[r].figures.summed
    BY <1>6, <1>9 DEF YearMemory, Figures
  <2>1. request'[r] = [request[r] EXCEPT !.needs = @ \ {"count"}, !.figures = f]
    BY <1>2, <1>6, <1>9 DEF TotalCount, TypeOK, YearMemory
  <2>11. request[r] \in YearMemory /\ request[r].op = "close" /\ request[r].pc = "total"
    BY <1>6, <1>9 DEF TotalCount, YearAt
  <2> HIDE DEF f
  <2>2. /\ request'[r].op = "close" /\ request'[r].pc = "total"
        /\ request'[r].year = request[r].year
        /\ request'[r].needs = request[r].needs \ {"count"}
        /\ request'[r].figures.counted = PostedIn(request[r].year)
        /\ request'[r].figures.summed = request[r].figures.summed
    BY <2>0, <2>1, <2>11 DEF YearMemory
  <2>3. request[r].pc = "total"
    BY <1>9 DEF TotalCount, YearAt
  <2> QED
    BY <1>3, <1>6, <1>9, <2>2, <2>3 DEF YearAsLoaded
<1> QED
  BY <1>4, <1>5, <1>7, <1>8, <1>9

\* A voucher another module raises is loaded again, as it was just inserted.
LEMMA LoadedInsert ==
  ASSUME SerialInv, OneHandler, NEW r \in Requests, NEW v \in Vouchers, InsertOf(r, v)
  PROVE  AsLoaded'
<1> DEFINE m == Remember("submit", "load", request[r].user, v,
                         request[r].year, request[r].content)
<1>1. CASE request'[r] = Idle
  BY <1>1, LoadedWhenIdle
<1>2. CASE request'[r] = m
  <2>1. /\ request'[r].op = "submit" /\ request'[r].pc = "load" /\ request'[r].id = v
        /\ request'[r].year = request[r].year /\ request'[r].content = request[r].content
    BY <1>2 DEF Remember
  <2>2. /\ voucher'[v].status \in Submittable /\ voucher'[v].year = request[r].year
        /\ voucher'[v].content = request[r].content
    BY DEF InsertOf, Submittable
  <2>3. VoucherAsLoaded(request[r])'
    BY <2>1, <2>2 DEF VoucherAsLoaded
  <2>4. NewAsResolved(request[r])' /\ YearAsLoaded(request[r])'
    BY <2>1 DEF NewAsResolved, YearAsLoaded, CreateMemory, YearMemory
  <2>5. \A s \in Requests : s = r
    BY DEF OneHandler
  <2> QED
    BY <2>3, <2>4, <2>5 DEF AsLoaded
<1> QED
  BY <1>1, <1>2 DEF InsertOf

-----------------------------------------------------------------------------
(* The invariant through every step *)

\* The statements that write no voucher, no posting and no year.
Reads(r) ==
  \/ CreateBegin(r) \/ ResolveOpenYear(r) \/ AllocateRef(r)
  \/ UpdateLoad(r) \/ SubmitLoad(r) \/ RaiseSubmitLoad(r) \/ ApproveLoad(r)
  \/ RejectLoad(r) \/ PostLoad(r) \/ CancelLoad(r)
  \/ OpenLoad(r) \/ CloseLoad(r) \/ CloseCount(r) \/ TotalSums(r) \/ TotalCount(r)
  \/ Abort(r)

LEMMA StepKinds ==
  ASSUME Next
  PROVE  \E r \in Requests : Reads(r) \/ CreateInsert(r) \/ Writes(r) \/ YearWrites(r)
  BY DEF Next, VoucherStep, YearStep, Reads, Writes, YearWrites

LEMMA ReadsLeaveTables ==
  ASSUME NEW r \in Requests, Reads(r)
  PROVE  voucher' = voucher /\ ledger' = ledger /\ year' = year
<1>1. CASE CreateBegin(r) \/ ResolveOpenYear(r) \/ AllocateRef(r)
  BY <1>1 DEF CreateBegin, ResolveOpenYear, AllocateRef, tables
<1>2. CASE \/ UpdateLoad(r) \/ SubmitLoad(r) \/ RaiseSubmitLoad(r) \/ ApproveLoad(r)
           \/ RejectLoad(r) \/ PostLoad(r) \/ CancelLoad(r)
  BY <1>2 DEF UpdateLoad, SubmitLoad, RaiseSubmitLoad, ApproveLoad, RejectLoad, PostLoad,
              CancelLoad, tables
<1>3. CASE \/ OpenLoad(r) \/ CloseLoad(r) \/ CloseCount(r) \/ TotalSums(r) \/ TotalCount(r)
           \/ Abort(r)
  BY <1>3 DEF OpenLoad, CloseLoad, CloseCount, TotalSums, TotalCount, Abort, tables
<1> QED
  BY <1>1, <1>2, <1>3 DEF Reads

LEMMA BooksStand ==
  ASSUME BooksInv, voucher' = voucher, ledger' = ledger, year' = year
  PROVE  BooksInv'
<1>1. \A y \in Years : /\ UnfinishedIn(y)' = UnfinishedIn(y)
                       /\ PostedIn(y)' = PostedIn(y) /\ SummedIn(y)' = SummedIn(y)
  BY DEF UnfinishedIn, PostedIn, SummedIn, Exists
<1>2. PostedOnce' /\ OnlyPostedTouchesLedger' /\ LedgerMatchesVoucher'
  BY DEF BooksInv, PostedOnce, OnlyPostedTouchesLedger, LedgerMatchesVoucher, Exists
<1>3. ClosedFiguresStand' /\ ClosedYearIsFinished' /\ YearsInv'
  BY <1>1 DEF BooksInv, ClosedFiguresStand, ClosedYearIsFinished, YearsInv
<1> QED
  BY <1>2, <1>3 DEF BooksInv

LEMMA SerialInit ==
  ASSUME Init
  PROVE  SerialInv
<1>1. TypeInv
  BY TypeInit
<1>2. AsLoaded
  BY IdleKnowsNothing DEF Init, BooksInit, AsLoaded, VoucherAsLoaded, NewAsResolved, YearAsLoaded
<1>3. BooksInv
  BY DEF Init, BooksInit, BooksInv, PostedOnce, Exists, OnlyPostedTouchesLedger,
         LedgerMatchesVoucher, ClosedFiguresStand, ClosedYearIsFinished, YearsInv
<1> QED
  BY <1>1, <1>2, <1>3 DEF SerialInv

LEMMA SerialStep ==
  ASSUME SerialInv, OneHandler, [Next]_vars
  PROVE  SerialInv'
<1>1. TypeInv /\ TypeInv' /\ PostedOnce'
  BY TypeStep, PostedOnceStep DEF SerialInv, BooksInv
<1>2. CASE UNCHANGED vars
  BY <1>1, <1>2, BooksStand DEF vars, SerialInv, AsLoaded, VoucherAsLoaded, NewAsResolved,
     YearAsLoaded, OpenFor, UnfinishedIn, PostedIn, SummedIn, Exists
<1>3. ASSUME NEW r \in Requests, Reads(r)
      PROVE  SerialInv'
  <2>1. BooksInv'
    BY <1>3, ReadsLeaveTables, BooksStand DEF SerialInv
  <2>2. CASE Abort(r)
    <3>1. request'[r] = Idle
      BY <1>1, <2>2 DEF Abort, Finish, TypeInv, TypeOK
    <3> QED
      BY <1>1, <2>1, <3>1, LoadedWhenIdle DEF SerialInv
  <2>3. CASE ~Abort(r)
    <3>1. AsLoaded'
      BY <1>3, <2>3, LoadedVoucher, LoadedYearOfVoucher, LoadedYear, Zenon DEF Reads
    <3> QED
      BY <1>1, <2>1, <3>1 DEF SerialInv
  <2> QED
    BY <2>2, <2>3
<1>4. ASSUME NEW r \in Requests, CreateInsert(r)
      PROVE  SerialInv'
  <2>1. PICK v \in Vouchers : InsertOf(r, v)
    BY <1>4, InsertForm
  <2> QED
    BY <1>1, <2>1, BooksThroughInsert, LoadedInsert DEF SerialInv
<1>5. ASSUME NEW r \in Requests, Writes(r)
      PROVE  SerialInv'
  <2>1. request'[r] = Idle
    BY <1>1, <1>5 DEF Writes, UpdateWrite, SubmitWrite, ApproveWrite, RejectWrite,
       PostWrite, CancelWrite, Finish, TypeInv, TypeOK
  <2> QED
    BY <1>1, <1>5, <2>1, BooksThroughWrite, LoadedWhenIdle DEF SerialInv
<1>6. ASSUME NEW r \in Requests, YearWrites(r)
      PROVE  SerialInv'
  <2>1. request'[r] = Idle
    BY <1>1, <1>6 DEF YearWrites, CreateYear, OpenWrite, CloseWrite, Finish, TypeInv, TypeOK
  <2> QED
    BY <1>1, <1>6, <2>1, BooksThroughYear, LoadedWhenIdle DEF SerialInv
<1> QED
  BY <1>2, <1>3, <1>4, <1>5, <1>6, StepKinds

LEMMA SerialInvariant ==
  ASSUME OneHandler
  PROVE  Spec => []SerialInv
<1>1. Init => SerialInv
  BY SerialInit
<1>2. SerialInv /\ [Next]_vars => SerialInv'
  BY SerialStep
<1> QED
  BY <1>1, <1>2, PTL DEF Spec

-----------------------------------------------------------------------------
(* Theorems *)

\* While one request is served at a time, only what is Posted is in the ledger, dated
\* and coded as the voucher stands.  (README, The voucher lifecycle.)
THEOREM OnlyPostedTouchesLedgerHolds ==
  ASSUME OneHandler
  PROVE  Spec => []OnlyPostedTouchesLedger
<1>1. SerialInv => OnlyPostedTouchesLedger
  BY DEF SerialInv, BooksInv
<1> QED
  BY <1>1, SerialInvariant, PTL

\* The same of the date and the coding: an edit never parts the ledger from the voucher.
THEOREM LedgerMatchesVoucherHolds ==
  ASSUME OneHandler
  PROVE  Spec => []LedgerMatchesVoucher
<1>1. SerialInv => LedgerMatchesVoucher
  BY DEF SerialInv, BooksInv
<1> QED
  BY <1>1, SerialInvariant, PTL

\* The totals a year was closed with are those of the ledger for good, and no voucher of
\* it is still on its way there.  (liveTotals and the freeze of close, resolveOpenYear.)
THEOREM ClosedYearIsOverHolds ==
  ASSUME OneHandler
  PROVE  Spec => []ClosedYearIsOver
<1>1. SerialInv => ClosedYearIsOver
  BY DEF SerialInv, BooksInv, ClosedYearIsOver
<1> QED
  BY <1>1, SerialInvariant, PTL

Final == \A y \in Years : year[y].status = "closed" => year'[y] = year[y]

LEMMA FinalStep ==
  ASSUME SerialInv, [Next]_vars
  PROVE  Final
<1>1. CASE year' = year
  BY <1>1 DEF Final
<1>2. ASSUME NEW r \in Requests, YearWrites(r)
      PROVE  Final
  <2>1. ASSUME NEW y \in Years, year[y].status = "closed"
        PROVE  year'[y] = year[y]
    BY <1>2, <2>1, YearForms, ClosedIsNotOpen
  <2> QED
    BY <2>1 DEF Final
<1>3. \A r \in Requests : CreateInsert(r) \/ Writes(r) => year' = year
  BY DEF CreateInsert, Writes, UpdateWrite, SubmitWrite, ApproveWrite, RejectWrite,
         PostWrite, CancelWrite
<1>4. CASE UNCHANGED vars
  BY <1>1, <1>4 DEF vars
<1> QED
  BY <1>1, <1>2, <1>3, <1>4, StepKinds, ReadsLeaveTables

\* A closed year is never opened, marked current or totalled again: opening another one
\* clears the current mark of a year that no longer carries it.  (open and close.)
THEOREM ClosedIsFinalHolds ==
  ASSUME OneHandler
  PROVE  Spec => ClosedIsFinal
<1>1. SerialInv /\ [Next]_vars => [Final]_vars
  BY FinalStep
<1>2. Spec => [][Final]_vars
  BY <1>1, SerialInvariant, PTL DEF Spec
<1> QED
  BY <1>2 DEF ClosedIsFinal, Final

NotRewritten ==
  \A v \in Vouchers :
    Exists(v) /\ voucher[v].status \in {"Approved", "Posted"} =>
      /\ voucher'[v].year = voucher[v].year
      /\ voucher'[v].content = voucher[v].content

LEMMA NotRewrittenStep ==
  ASSUME SerialInv, [Next]_vars
  PROVE  NotRewritten
<1>0. TypeInv /\ AsLoaded /\ BooksInv
  BY DEF SerialInv
<1>1. CASE voucher' = voucher
  BY <1>1 DEF NotRewritten
<1>2. ASSUME NEW r \in Requests, CreateInsert(r)
      PROVE  NotRewritten
  <2>1. PICK v \in Vouchers : InsertOf(r, v)
    BY <1>2, InsertForm
  <2> QED
    BY <2>1 DEF InsertOf, Changed, NotRewritten
<1>3. ASSUME NEW r \in Requests, Writes(r)
      PROVE  NotRewritten
  <2>1. \A v \in Vouchers \ {request[r].id} : voucher'[v] = voucher[v]
    BY <1>0, <1>3, RowForms
  <2>2. CASE UpdateWrite(r)
    <3>1. voucher[request[r].id].status \notin {"Approved", "Posted"}
      BY <1>0, <1>3, <2>2, StatusForms DEF Editable
    <3> QED
      BY <2>1, <3>1 DEF NotRewritten
  <2>3. CASE ~UpdateWrite(r)
    BY <1>0, <1>3, <2>1, <2>3, RowForms DEF NotRewritten
  <2> QED
    BY <2>2, <2>3
<1>4. \A r \in Requests : YearWrites(r) => voucher' = voucher
  BY DEF YearWrites, CreateYear, OpenWrite, CloseWrite
<1>5. CASE UNCHANGED vars
  BY <1>1, <1>5 DEF vars
<1> QED
  BY <1>1, <1>2, <1>3, <1>4, <1>5, StepKinds, ReadsLeaveTables

\* What was approved or posted is never rewritten: an edit is refused from Approved on.
\* (EDITABLE and update.)
THEOREM ApprovedNeverRewrittenHolds ==
  ASSUME OneHandler
  PROVE  Spec => ApprovedNeverRewritten
<1>1. SerialInv /\ [Next]_vars => [NotRewritten]_vars
  BY NotRewrittenStep
<1>2. Spec => [][NotRewritten]_vars
  BY <1>1, SerialInvariant, PTL DEF Spec
<1> QED
  BY <1>2 DEF ApprovedNeverRewritten, NotRewritten

-----------------------------------------------------------------------------
(* The services implement AtomicBooks.  The names below are what Accounting *)
(* puts for the variables of AtomicBooks.                                   *)

aStatus == [v \in Vouchers |-> voucher[v].status]

EntryOf(v) ==
  IF Exists(v) THEN [year |-> voucher[v].year, content |-> voucher[v].content] ELSE <<>>

aEntry == [v \in Vouchers |->
             IF Exists(v) THEN [year |-> voucher[v].year, content |-> voucher[v].content]
             ELSE <<>>]

aPosted ==
  UNION {{[voucher |-> v, entry |-> ledger[v][i]] : i \in DOMAIN ledger[v]} : v \in Vouchers}

aPhase == [y \in Years |-> year[y].status]

aPublished ==
  [y \in Years |-> {[voucher |-> v, entry |-> ledger[v][1]] : v \in year[y].figures.summed}]

\* What was published with a year stands while its figures do and the ledger only grows.
LEMMA PublishedStands ==
  ASSUME \A y \in Years : year'[y].figures = year[y].figures,
         \A y \in Years : \A v \in year[y].figures.summed : ledger'[v] = ledger[v]
  PROVE  aPublished' = aPublished
<1>1. ASSUME NEW y \in Years
      PROVE  {[voucher |-> v, entry |-> ledger'[v][1]] : v \in year'[y].figures.summed}
               = {[voucher |-> v, entry |-> ledger[v][1]] : v \in year[y].figures.summed}
  <2>1. year'[y].figures.summed = year[y].figures.summed
    OBVIOUS
  <2>2. \A v \in year[y].figures.summed : ledger'[v] = ledger[v]
    OBVIOUS
  <2> QED
    BY <2>1, <2>2
<1> QED
  BY <1>1 DEF aPublished

\* A voucher that was not in the ledger is in the totals of no year.
LEMMA NotPublished ==
  ASSUME SerialInv, NEW v \in Vouchers, ledger[v] = <<>>, NEW y \in Years
  PROVE  v \notin year[y].figures.summed
<1>1. CASE year[y].status = "closed"
  BY <1>1 DEF SerialInv, BooksInv, ClosedFiguresStand, SummedIn
<1>2. CASE year[y].status # "closed"
  BY <1>2 DEF SerialInv, BooksInv, YearsInv, NoFigures
<1> QED
  BY <1>1, <1>2

\* One voucher takes a status and an entry.
LEMMA OneBecomes ==
  ASSUME NEW v \in Vouchers, Changed(v)
  PROVE  /\ aStatus' = [aStatus EXCEPT ![v] = voucher'[v].status]
         /\ aEntry' = [aEntry EXCEPT ![v] = EntryOf(v)']
         /\ EntryOf(v)' = EntryOf(v) => aEntry' = aEntry
  BY DEF Changed, aStatus, aEntry, EntryOf, Exists

LEMMA InitRefines ==
  ASSUME Init
  PROVE  Promise!Init
<1>1. aStatus = [v \in Vouchers |-> "Absent"] /\ aEntry = [v \in Vouchers |-> <<>>]
  BY DEF Init, BooksInit, aStatus, aEntry, Exists, Absent
<1>2. aPosted = {}
  <2>1. \A v \in Vouchers : ledger[v] = <<>>
    BY DEF Init, BooksInit
  <2> QED
    BY <2>1 DEF aPosted
<1>3. aPhase = [y \in Years |-> "absent"]
  BY DEF Init, BooksInit, aPhase
<1>4. aPublished = [y \in Years |-> {}]
  BY DEF Init, BooksInit, aPublished, NoFigures
<1> QED
  BY <1>1, <1>2, <1>3, <1>4
     DEF Promise!Init, aStatus, aEntry, aPosted, aPhase, aPublished

LEMMA ReadsRefine ==
  ASSUME voucher' = voucher, ledger' = ledger, year' = year
  PROVE  UNCHANGED Promise!books
  BY DEF Promise!books, Exists

\* What one voucher becomes, where nothing is posted.
LEMMA VoucherRefines ==
  ASSUME SerialInv, NEW v \in Vouchers, Changed(v), ledger' = ledger, year' = year
  PROVE  /\ aStatus' = [aStatus EXCEPT ![v] = voucher'[v].status]
         /\ aEntry' = [aEntry EXCEPT ![v] = EntryOf(v)']
         /\ EntryOf(v)' = EntryOf(v) => aEntry' = aEntry
         /\ aPosted' = aPosted /\ aPhase' = aPhase /\ aPublished' = aPublished
  BY OneBecomes DEF aPosted, aPhase, aPublished

\* A voucher is raised, or edited.
LEMMA WriteRefines ==
  ASSUME SerialInv, NEW v \in Vouchers, Changed(v), ledger' = ledger, year' = year,
         voucher[v].status \in {"Absent", "Draft", "PendingApproval", "Rejected"},
         voucher'[v].status = "Draft",
         voucher'[v].year \in Years, voucher'[v].content \in Contents, OpenFor(voucher'[v].year)
  PROVE  Promise!Next
<1>1. PICK e \in Promise!Entry : e = [year |-> voucher'[v].year, content |-> voucher'[v].content]
  BY DEF Promise!Entry
<1>2. EntryOf(v)' = e
  BY <1>1 DEF EntryOf, Exists, Absent
<1>3. e.year = voucher'[v].year
  BY <1>1
<1>4. aPhase[e.year] \in {"upcoming", "open"} /\ aStatus[v] = voucher[v].status
  BY <1>3 DEF OpenFor, aPhase, aStatus
<1>5. Promise!Write(v, e)
  BY <1>2, <1>4, VoucherRefines
     DEF Promise!Write, Promise!Open, Promise!Become,
         aStatus, aEntry, aPosted, aPhase, aPublished
<1> QED
  BY <1>5 DEF Promise!Next

\* A voucher is submitted, decided or cancelled: its entry stands.
LEMMA StatusRefines ==
  ASSUME SerialInv, NEW v \in Vouchers, Exists(v), Changed(v), ledger' = ledger, year' = year,
         voucher'[v] # Absent, voucher'[v].year = voucher[v].year,
         voucher'[v].content = voucher[v].content,
         \/ /\ voucher[v].status \in {"Draft", "Rejected"}
            /\ voucher'[v].status = "PendingApproval" /\ OpenFor(voucher[v].year)
         \/ /\ voucher[v].status = "PendingApproval"
            /\ voucher'[v].status = "Approved" /\ OpenFor(voucher[v].year)
         \/ voucher[v].status = "PendingApproval" /\ voucher'[v].status = "Rejected"
         \/ voucher[v].status \in {"Draft", "PendingApproval"} /\ voucher'[v].status = "Cancelled"
  PROVE  Promise!Next
<1>1. EntryOf(v)' = EntryOf(v)
  BY DEF EntryOf, Exists
<1>2. voucher[v].year \in Years
  BY RowType DEF SerialInv, TypeInv, VoucherRow
<1>3. aEntry[v].year = voucher[v].year /\ aStatus[v] = voucher[v].status
  BY DEF aEntry, aStatus
<1>4. OpenFor(voucher[v].year) => aPhase[aEntry[v].year] \in {"upcoming", "open"}
  BY <1>2, <1>3 DEF OpenFor, aPhase
<1>5. /\ aStatus' = [aStatus EXCEPT ![v] = voucher'[v].status]
      /\ aEntry' = aEntry /\ aPosted' = aPosted /\ aPhase' = aPhase
      /\ aPublished' = aPublished
  BY <1>1, VoucherRefines
<1>6. Promise!Submit(v) \/ Promise!Approve(v) \/ Promise!Reject(v) \/ Promise!Cancel(v)
  <2>1. CASE voucher'[v].status = "PendingApproval"
    <3>1. Promise!Submit(v)
      BY <1>3, <1>4, <1>5, <2>1
         DEF Promise!Submit, Promise!Open, Promise!Become,
             aStatus, aEntry, aPosted, aPhase, aPublished
    <3> QED
      BY <3>1
  <2>2. CASE voucher'[v].status = "Approved"
    <3>1. Promise!Approve(v)
      BY <1>3, <1>4, <1>5, <2>2
         DEF Promise!Approve, Promise!Open, Promise!Become,
             aStatus, aEntry, aPosted, aPhase, aPublished
    <3> QED
      BY <3>1
  <2>3. CASE voucher'[v].status = "Rejected"
    <3>1. Promise!Reject(v)
      BY <1>3, <1>5, <2>3
         DEF Promise!Reject, Promise!Become, aStatus, aEntry, aPosted, aPhase, aPublished
    <3> QED
      BY <3>1
  <2>4. CASE voucher'[v].status = "Cancelled"
    <3>1. Promise!Cancel(v)
      BY <1>3, <1>5, <2>4
         DEF Promise!Cancel, Promise!Become, aStatus, aEntry, aPosted, aPhase, aPublished
    <3> QED
      BY <3>1
  <2> QED
    BY <2>1, <2>2, <2>3, <2>4
<1> QED
  BY <1>6 DEF Promise!Next

\* The lines of a voucher are in the ledger at the instant it becomes Posted.
LEMMA PostRefines ==
  ASSUME SerialInv, NEW v \in Vouchers, Exists(v), Changed(v), year' = year,
         voucher'[v] # Absent, voucher'[v].year = voucher[v].year,
         voucher'[v].content = voucher[v].content,
         voucher[v].status = "Approved", voucher'[v].status = "Posted",
         OpenFor(voucher[v].year), ledger[v] = <<>>,
         ledger'[v] = <<[year |-> voucher[v].year, content |-> voucher[v].content]>>
  PROVE  Promise!Next
<1> DEFINE e == [year |-> voucher[v].year, content |-> voucher[v].content]
<1>1. EntryOf(v)' = EntryOf(v)
  BY DEF EntryOf, Exists
<1>2. voucher[v].year \in Years
  BY RowType DEF SerialInv, TypeInv, VoucherRow
<1>3. aEntry[v] = e /\ aStatus[v] = "Approved"
  BY DEF aEntry, aStatus
<1>4. e.year = voucher[v].year
  OBVIOUS
<1>5. aPhase[aEntry[v].year] \in {"upcoming", "open"}
  BY <1>2, <1>3, <1>4 DEF OpenFor, aPhase
<1>6. aPublished' = aPublished
  <2>1. \A y \in Years : \A w \in year[y].figures.summed : w \in Vouchers
    BY DEF SerialInv, TypeInv, TypeOK, YearRow, Figures
  <2> QED
    BY <2>1, NotPublished, PublishedStands DEF Changed
<1>7. aPosted' = aPosted \cup {[voucher |-> v, entry |-> aEntry[v]]}
  <2> HIDE DEF e
  <2>1. ledger'[v] = <<e>>
    BY DEF e
  <2>2. DOMAIN <<e>> = {1} /\ <<e>>[1] = e
    OBVIOUS
  <2>3. DOMAIN ledger[v] = {}
    OBVIOUS
  <2>4. ASSUME NEW p
        PROVE  p \in aPosted' <=> p \in aPosted \cup {[voucher |-> v, entry |-> e]}
    <3>1. p \in aPosted' <=> \E w \in Vouchers : \E i \in DOMAIN ledger'[w] :
                               p = [voucher |-> w, entry |-> ledger'[w][i]]
      BY DEF aPosted
    <3>2. p \in aPosted <=> \E w \in Vouchers : \E i \in DOMAIN ledger[w] :
                              p = [voucher |-> w, entry |-> ledger[w][i]]
      BY DEF aPosted
    <3>3. (\E i \in DOMAIN ledger'[v] : p = [voucher |-> v, entry |-> ledger'[v][i]])
            <=> p = [voucher |-> v, entry |-> e]
      BY <2>1, <2>2
    <3>4. \A w \in Vouchers \ {v} : ledger'[w] = ledger[w]
      BY DEF Changed
    <3> QED
      BY <2>3, <3>1, <3>2, <3>3, <3>4
  <2> QED
    BY <1>3, <2>4
<1>8. aPhase' = aPhase
  BY DEF aPhase
<1>9. Promise!Post(v)
  BY <1>1, <1>3, <1>5, <1>6, <1>7, <1>8, OneBecomes
     DEF Promise!Post, Promise!Open, Promise!Become,
         aStatus, aEntry, aPosted, aPhase, aPublished
<1> QED
  BY <1>9 DEF Promise!Next

\* A year is created, opened or opened again, or closed with the postings it has then.
LEMMA YearRefines ==
  ASSUME SerialInv, NEW r \in Requests, YearWrites(r)
  PROVE  Promise!Next \/ UNCHANGED Promise!books
<1>1. /\ TypeInv /\ AsLoaded /\ BooksInv
      /\ year \in [Years -> YearRow] /\ \A y \in Years : year[y] \in YearRow
  BY DEF SerialInv, TypeInv, TypeOK
<1>2. /\ voucher' = voucher /\ ledger' = ledger
      /\ aStatus' = aStatus /\ aEntry' = aEntry /\ aPosted' = aPosted
  <2>1. voucher' = voucher /\ ledger' = ledger
    BY DEF YearWrites, CreateYear, OpenWrite, CloseWrite
  <2> QED
    BY <2>1 DEF aStatus, aEntry, aPosted, Exists
<1>3. ~CloseWrite(r) => aPublished' = aPublished
  <2>1. ASSUME ~CloseWrite(r), NEW y \in Years
        PROVE  year'[y].figures = year[y].figures
    BY <1>1, <2>1, YearForms DEF BooksInv, YearsInv
  <2> QED
    BY <1>2, <2>1, PublishedStands
<1>4. CASE CreateYear(r)
  <2>1. PICK y \in Years :
          year[y].status = "absent" /\ year' = [year EXCEPT ![y].status = "upcoming"]
    BY <1>4 DEF CreateYear
  <2>2. ~CloseWrite(r)
    BY <1>4 DEF CreateYear, CloseWrite, YearAt
  <2>3. year' = [year EXCEPT ![y] = [year[y] EXCEPT !.status = "upcoming"]]
    BY <2>1
  <2>4. [year[y] EXCEPT !.status = "upcoming"].status = "upcoming"
    BY <1>1 DEF YearRow
  <2>5. aPhase[y] = "absent" /\ aPhase' = [aPhase EXCEPT ![y] = "upcoming"]
    BY <1>1, <2>1, <2>3, <2>4 DEF aPhase
  <2>6. Promise!CreateYear(y)
    BY <1>2, <1>3, <2>2, <2>5
       DEF Promise!CreateYear, aStatus, aEntry, aPosted, aPhase, aPublished
  <2> QED
    BY <2>6 DEF Promise!Next
<1>5. CASE OpenWrite(r)
  <2>1. request[r] \in YearMemory /\ ~CloseWrite(r)
    BY <1>1, <1>5, MemoryKinds DEF OpenWrite, CloseWrite, YearAt, TypeInv
  <2>2. PICK y \in Years : y = request[r].year
    BY <2>1 DEF YearMemory
  <2>3. OpenFor(y)
    BY <1>1, <2>1, <2>2 DEF AsLoaded, YearAsLoaded
  <2>4. \A z \in Years : year'[z].status = IF z = y THEN "open" ELSE year[z].status
    BY <1>1, <1>5, <2>2 DEF OpenWrite, YearRow
  <2>5. aPhase' = [aPhase EXCEPT ![y] = "open"]
    BY <2>4 DEF aPhase
  <2>6. CASE year[y].status = "upcoming"
    <3>1. aPhase[y] = "upcoming"
      BY <2>6 DEF aPhase
    <3>2. Promise!OpenYear(y)
      BY <1>2, <1>3, <2>1, <2>5, <3>1
         DEF Promise!OpenYear, aStatus, aEntry, aPosted, aPhase, aPublished
    <3> QED
      BY <3>2 DEF Promise!Next
  <2>7. CASE year[y].status = "open"
    <3>1. aPhase' = aPhase
      BY <2>4, <2>7 DEF aPhase
    <3> QED
      BY <1>2, <1>3, <2>1, <3>1
         DEF Promise!books, aStatus, aEntry, aPosted, aPhase, aPublished
  <2> QED
    BY <2>3, <2>6, <2>7 DEF OpenFor
<1>6. CASE CloseWrite(r)
  <2> DEFINE row == [status |-> "closed", current |-> FALSE, figures |-> request[r].figures]
  <2>1. request[r] \in YearMemory /\ request[r].pc = "total" /\ request[r].needs = {}
    BY <1>1, <1>6, MemoryKinds DEF CloseWrite, YearAt, TypeInv
  <2>2. PICK y \in Years : y = request[r].year
    BY <2>1 DEF YearMemory
  <2>3. OpenFor(y) /\ UnfinishedIn(y) = {} /\ request[r].figures.summed = SummedIn(y)
    BY <1>1, <2>1, <2>2 DEF AsLoaded, YearAsLoaded
  <2>4. year' = [year EXCEPT ![y] = row]
    BY <1>6, <2>2 DEF CloseWrite
  <2>5. row.status = "closed" /\ row.figures = request[r].figures
    OBVIOUS
  <2> HIDE DEF row
  <2>6. aPhase' = [aPhase EXCEPT ![y] = "closed"]
    BY <1>1, <2>4, <2>5 DEF aPhase
  <2>7. aPhase[y] \in {"upcoming", "open"}
    BY <2>3 DEF aPhase, OpenFor
  <2>8. \A v \in Vouchers :
          aStatus[v] \in {"Draft", "PendingApproval", "Approved"} => aEntry[v].year # y
    <3>1. ASSUME NEW v \in Vouchers, voucher[v].status \in {"Draft", "PendingApproval", "Approved"}
          PROVE  aEntry[v].year # y
      <4>1. Exists(v)
        BY <3>1 DEF Exists, Absent
      <4>2. voucher[v].year # y
        BY <2>3, <3>1, <4>1 DEF UnfinishedIn, Unfinished
      <4> QED
        BY <4>1, <4>2 DEF aEntry
    <3> QED
      BY <3>1 DEF aStatus
  <2> DEFINE sums == {[voucher |-> v, entry |-> ledger[v][1]] : v \in SummedIn(y)}
             dated == {p \in aPosted : p.entry.year = y}
  <2>9. sums = dated
    <3>1. ASSUME NEW v \in Vouchers, NEW i \in DOMAIN ledger[v]
          PROVE  i = 1 /\ ledger[v] # <<>>
      <4>1. ledger[v] \in Seq(Posting) /\ Len(ledger[v]) <= 1
        BY <1>1 DEF BooksInv, PostedOnce, TypeInv, TypeOK
      <4> QED
        BY <3>1, <4>1
    <3>2. ASSUME NEW v \in Vouchers, ledger[v] # <<>>
          PROVE  /\ 1 \in DOMAIN ledger[v]
                 /\ ledger[v][1].year = voucher[v].year
                 /\ voucher[v].status = "Posted" /\ Exists(v)
      <4>1. ledger[v] \in Seq(Posting)
        BY <1>1 DEF TypeInv, TypeOK
      <4>2. 1 \in DOMAIN ledger[v]
        BY <3>2, <4>1
      <4>3. ledger[v][1] = [year |-> voucher[v].year, content |-> voucher[v].content]
        BY <1>1, <4>2 DEF BooksInv, LedgerMatchesVoucher
      <4> QED
        BY <1>1, <3>2, <4>2, <4>3 DEF BooksInv, OnlyPostedTouchesLedger, PostedOnce
    <3>3. \A v \in SummedIn(y) : v \in Vouchers /\ ledger[v] # <<>> /\ voucher[v].year = y
      BY DEF SummedIn, PostedIn
    <3>4. ASSUME NEW p \in sums
          PROVE  p \in dated
      <4>1. PICK v \in SummedIn(y) : p = [voucher |-> v, entry |-> ledger[v][1]]
        OBVIOUS
      <4>2. p.entry = ledger[v][1]
        BY <4>1
      <4>3. p \in aPosted
        BY <3>2, <3>3, <4>1 DEF aPosted
      <4> QED
        BY <3>2, <3>3, <4>2, <4>3
    <3>5. ASSUME NEW p \in dated
          PROVE  p \in sums
      <4>1. PICK v \in Vouchers : \E i \in DOMAIN ledger[v] :
              p = [voucher |-> v, entry |-> ledger[v][i]]
        BY DEF aPosted
      <4>2. ledger[v] # <<>> /\ p = [voucher |-> v, entry |-> ledger[v][1]]
        BY <3>1, <4>1
      <4>3. p.entry = ledger[v][1] /\ p.entry.year = y
        BY <4>2
      <4>4. voucher[v].year = y /\ voucher[v].status = "Posted" /\ Exists(v)
        BY <3>2, <4>2, <4>3
      <4>5. v \in SummedIn(y)
        BY <4>2, <4>4 DEF SummedIn, PostedIn
      <4> QED
        BY <4>2, <4>5
    <3> QED
      BY <3>4, <3>5
  <2>10. aPublished' = [aPublished EXCEPT ![y] = dated]
    <3> DEFINE pub(z) == {[voucher |-> v, entry |-> ledger[v][1]] : v \in year'[z].figures.summed}
    <3>1. \A z \in Years \ {y} : year'[z] = year[z]
      BY <1>1, <2>4
    <3>2. year'[y].figures.summed = SummedIn(y)
      BY <1>1, <2>3, <2>4, <2>5
    <3>3. aPublished' = [z \in Years |-> pub(z)]
      BY <1>2 DEF aPublished
    <3>4. pub(y) = dated
      BY <2>9, <3>2
    <3>5. \A z \in Years \ {y} : pub(z) = aPublished[z]
      BY <3>1 DEF aPublished
    <3>6. DOMAIN aPublished = Years
      BY DEF aPublished
    <3> HIDE DEF pub, dated
    <3>7. aPublished = [z \in Years |-> aPublished[z]]
      BY DEF aPublished
    <3> QED
      BY <3>3, <3>4, <3>5, <3>7
  <2>11. Promise!CloseYear(y)
    BY <1>2, <2>6, <2>7, <2>8, <2>10
       DEF Promise!CloseYear, Promise!Open, Promise!PostingsOf,
           aStatus, aEntry, aPosted, aPhase, aPublished
  <2> QED
    BY <2>11 DEF Promise!Next
<1> QED
  BY <1>4, <1>5, <1>6 DEF YearWrites

\* Every statement of a handler is a step of AtomicBooks, or none.
LEMMA StepRefines ==
  ASSUME SerialInv, SerialInv', [Next]_vars
  PROVE  Promise!Next \/ UNCHANGED Promise!books
<1>0. TypeInv /\ AsLoaded /\ BooksInv /\ TypeOK'
  BY DEF SerialInv, TypeInv
<1>1. CASE UNCHANGED vars
  BY <1>1, ReadsRefine DEF vars
<1>2. ASSUME NEW r \in Requests, Reads(r)
      PROVE  UNCHANGED Promise!books
  BY <1>2, ReadsLeaveTables, ReadsRefine
<1>3. ASSUME NEW r \in Requests, CreateInsert(r)
      PROVE  Promise!Next
  <2>1. PICK v \in Vouchers : InsertOf(r, v)
    BY <1>3, InsertForm
  <2>2. /\ voucher[v].status = "Absent"
        /\ request[r].year \in Years /\ request[r].content \in Contents
    BY <2>1 DEF InsertOf, Exists, Absent, CreateMemory
  <2> QED
    BY <2>1, <2>2, WriteRefines DEF InsertOf, OpenFor
<1>4. ASSUME NEW r \in Requests, Writes(r)
      PROVE  Promise!Next
  <2>1. PICK v \in Vouchers : v = request[r].id
    BY <1>0, <1>4, RowWrite DEF Writes
  <2>2. /\ Exists(v) /\ voucher[v] \in VoucherRow /\ voucher'[v] # Absent
        /\ year' = year /\ (~PostWrite(r) => ledger' = ledger)
    BY <1>0, <1>4, <2>1, RowWrite
       DEF Writes, UpdateWrite, SubmitWrite, ApproveWrite, RejectWrite, PostWrite, CancelWrite
  <2>3. Changed(v) /\ ledger[v] = <<>>
    BY <1>0, <1>4, <2>1, BooksThroughWrite DEF SerialInv, BooksInv
  <2>4. CASE UpdateWrite(r)
    <3>1. /\ voucher[v].status \in Editable /\ voucher'[v].status = "Draft"
          /\ OpenFor(voucher'[v].year)
      BY <1>0, <1>4, <2>1, <2>4, StatusForms
    <3>2. voucher'[v].year \in Years /\ voucher'[v].content \in Contents
      BY <1>0, <2>2 DEF TypeOK, VoucherRow
    <3>3. ~PostWrite(r)
      BY <2>4 DEF UpdateWrite, PostWrite, At
    <3> QED
      BY <2>2, <2>3, <3>1, <3>2, <3>3, WriteRefines DEF Editable
  <2>5. CASE SubmitWrite(r) \/ ApproveWrite(r) \/ RejectWrite(r) \/ CancelWrite(r)
    <3>1. ~PostWrite(r) /\ ~UpdateWrite(r)
      BY <2>5 DEF UpdateWrite, SubmitWrite, ApproveWrite, RejectWrite, PostWrite,
                  CancelWrite, At
    <3>2. voucher'[v].year = voucher[v].year /\ voucher'[v].content = voucher[v].content
      BY <1>0, <1>4, <2>1, <3>1, RowForms
    <3>3. \/ /\ voucher[v].status \in {"Draft", "Rejected"}
             /\ voucher'[v].status = "PendingApproval" /\ OpenFor(voucher[v].year)
          \/ /\ voucher[v].status = "PendingApproval"
             /\ voucher'[v].status = "Approved" /\ OpenFor(voucher[v].year)
          \/ voucher[v].status = "PendingApproval" /\ voucher'[v].status = "Rejected"
          \/ /\ voucher[v].status \in {"Draft", "PendingApproval"}
             /\ voucher'[v].status = "Cancelled"
      BY <1>0, <1>4, <2>1, <2>5, StatusForms DEF Submittable, Cancellable
    <3> QED
      BY <2>2, <2>3, <3>1, <3>2, <3>3, StatusRefines
  <2>6. CASE PostWrite(r)
    <3>1. ~UpdateWrite(r)
      BY <2>6 DEF UpdateWrite, PostWrite, At
    <3>2. voucher'[v].year = voucher[v].year /\ voucher'[v].content = voucher[v].content
      BY <1>0, <1>4, <2>1, <3>1, RowForms
    <3>3. /\ voucher[v].status = "Approved" /\ voucher'[v].status = "Posted"
          /\ OpenFor(voucher[v].year)
          /\ ledger' = [ledger EXCEPT ![v] =
               <<[year |-> voucher[v].year, content |-> voucher[v].content]>>]
      BY <1>0, <1>4, <2>1, <2>6, StatusForms
    <3>4. ledger'[v] = <<[year |-> voucher[v].year, content |-> voucher[v].content]>>
      BY <1>0, <3>3 DEF TypeInv, TypeOK
    <3> QED
      BY <2>2, <2>3, <3>2, <3>3, <3>4, PostRefines
  <2> QED
    BY <1>4, <2>4, <2>5, <2>6 DEF Writes
<1>5. ASSUME NEW r \in Requests, YearWrites(r)
      PROVE  Promise!Next \/ UNCHANGED Promise!books
  BY <1>5, YearRefines
<1> QED
  BY <1>1, <1>2, <1>3, <1>4, <1>5, StepKinds

\* While one request is served at a time, wherever it stops, the handlers implement the
\* atomic lifecycle: what the README promises of vouchers and of closing a year.
THEOREM ImplementsPromiseHolds ==
  ASSUME OneHandler
  PROVE  Spec => ImplementsPromise
<1>1. Init => Promise!Init
  BY InitRefines
<1>2. SerialInv /\ SerialInv' /\ [Next]_vars => [Promise!Next]_(Promise!books)
  BY StepRefines
<1>3. Spec => Promise!Spec
  BY <1>1, <1>2, SerialInvariant, PTL DEF Spec, Promise!Spec
<1> QED
  BY <1>3 DEF ImplementsPromise
=============================================================================
