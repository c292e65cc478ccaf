------------------------- MODULE FixedDepositsProofs -------------------------
(***************************************************************************)
(* Proofs about FixedDeposits, for any deposits, vouchers and principals.  *)
(* With any number of handlers in flight a deposit marked renewed has its  *)
(* successor; while they follow one another a settled deposit is final and *)
(* the chain of certificates is linear; and until one of them is stopped   *)
(* half way the register, the vouchers and the postings agree.             *)
(***************************************************************************)
EXTENDS MCFixedDeposits, FiniteSetTheorems, WellFoundedInduction, TLAPS

-----------------------------------------------------------------------------
(* The invariant *)

VoucherStatus == {"Absent", "Draft", "PendingApproval", "Approved", "Rejected", "Posted", "Cancelled"}
CodedEntry == [year : Years, content : Coding]

\* The two tables of the desk a deposit handler writes.
BooksOK ==
  /\ status \in [Vouchers -> VoucherStatus]
  /\ entry \in [Vouchers -> {<<>>} \cup CodedEntry]

\* A handler that has put a row in the register and is not done with it.
Placing(m) == m # Idle /\ m.op \in {"create", "renew"} /\ m.pc \in {"raise", "submit", "link", "undo"}

\* What a handler carries from one of its statements to the next.
Sound(m) ==
  m # Idle =>
    /\ m.op = "create" => Placing(m)
    /\ m.op = "renew" => m.previous \in Deposits
    /\ m.pc \in {"submit", "link"} => m.voucher \in Vouchers
    /\ m.op \in {"update", "mature"} => m.pc \in {"check", "write"}

\* Its row is there, linked to nothing but what it renews.
Kept(m) ==
  Placing(m) =>
    /\ Present(m.id)
    /\ m.op = "create" => deposit[m.id].renewedFrom = None
    /\ m.op = "renew" => deposit[m.id].renewedFrom \in {m.previous, None} /\ m.previous # m.id

Holding(m) == Sound(m) /\ Kept(m)

\* And it is nobody else's.
OwnRows ==
  \A r, s \in Requests :
    r # s /\ Placing(request[r]) /\ Placing(request[s]) => request[r].id # request[s].id

DepositInv ==
  /\ TypeOK /\ BooksOK
  /\ \A r \in Requests : Holding(request[r])
  /\ OwnRows
  /\ RenewedHasSuccessor

-----------------------------------------------------------------------------
(* Rows *)

\* A deposit that is there has a row, and one that is gone has no more than that.
LEMMA PresentRow ==
  ASSUME TypeOK, NEW d \in Deposits
  PROVE  /\ Present(d) <=> deposit[d] \in DepositRow
         /\ deposit[d].status \in Held \cup Settled => Present(d)
         /\ deposit[d].status = "absent" => ~Present(d)
         /\ Gone \cap DepositRow = {}
<1>1. \A x \in Gone : x.status \in {"absent", "deleted"}
  BY DEF Gone
<1>2. \A x \in DepositRow : x.status \in {"active", "matured", "renewed", "closed"}
  BY DEF DepositRow, Held, Settled
<1> QED
  BY <1>1, <1>2 DEF TypeOK, Present, Held, Settled

\* A memory in use.
LEMMA MemoryRow ==
  ASSUME TypeOK, NEW r \in Requests, request[r] # Idle
  PROVE  /\ request[r] \in Memory
         /\ request[r].id \in Deposits /\ request[r].amount \in Principals
         /\ request[r].previous \in Deposits \cup {None} /\ request[r].owed \in Principals
         /\ request[r].was \in Held /\ request[r].voucher \in Vouchers \cup {None}
         /\ request[r].op \in {"create", "update", "mature", "renew", "interest", "close"}
         /\ request[r].pc \in {"check", "write", "raise", "submit", "link", "undo"}
<1>1. request[r] \in Memory
  BY DEF TypeOK
<1> QED
  BY <1>1 DEF Memory

\* A new row.
LEMMA NewRow ==
  ASSUME NEW source \in {"bank", "endowment", "renewal", "opening"}, NEW principal \in Principals,
         NEW from \in Deposits \cup {None}
  PROVE  /\ New(source, principal, from) \in DepositRow
         /\ New(source, principal, from).renewedFrom = from
         /\ New(source, principal, from).status = "active"
  BY DEF New, DepositRow, Held

-----------------------------------------------------------------------------
(* The steps on the register *)

\* A row is put in under an id that was never used.
Inserted(d) ==
  /\ deposit[d].status = "absent"
  /\ deposit'[d] \in DepositRow /\ deposit'[d].status = "active"
  /\ deposit' \in [Deposits -> Gone \cup DepositRow]

\* A row is written over, and is linked as it was.
Amended(d) ==
  /\ Present(d)
  /\ deposit'[d] \in DepositRow
  /\ deposit'[d].renewedFrom = deposit[d].renewedFrom
  /\ \A e \in Deposits \ {d} : deposit'[e] = deposit[e]
  /\ deposit' \in [Deposits -> Gone \cup DepositRow]

\* A row is taken out, and what was linked to it no longer is.
TakenOut(d) ==
  /\ deposit'[d] \in Gone
  /\ \A e \in Deposits \ {d} :
       /\ ~Present(e) => deposit'[e] = deposit[e]
       /\ Present(e) =>
            /\ deposit'[e] \in DepositRow
            /\ deposit'[e].renewedFrom =
                 IF deposit[e].renewedFrom = d THEN None ELSE deposit[e].renewedFrom
  /\ deposit' \in [Deposits -> Gone \cup DepositRow]

\* create.
LEMMA CreateForm ==
  ASSUME DepositInv, NEW r \in Requests, Create(r)
  PROVE  \E d \in Deposits :
           /\ Inserted(d) /\ deposit'[d].renewedFrom = None
           /\ \A e \in Deposits \ {d} : deposit'[e] = deposit[e]
           /\ \/ request' = request
              \/ /\ request[r] = Idle /\ request' = [request EXCEPT ![r] = request'[r]]
                 /\ request'[r] \in Memory /\ request'[r] # Idle
                 /\ request'[r].op = "create" /\ request'[r].pc = "raise" /\ request'[r].id = d
<1>0. TypeOK
  BY DEF DepositInv
<1>1. PICK d \in Deposits, body \in Placement :
        /\ deposit[d].status = "absent"
        /\ deposit' = [deposit EXCEPT ![d] = New(body.source, body.principal, None)]
        /\ IF body.source = "opening"
           THEN UNCHANGED request
           ELSE Accept(r, [op |-> "create", pc |-> "raise", id |-> d,
                           amount |-> body.principal, previous |-> None,
                           owed |-> body.principal, was |-> "active", voucher |-> None])
  BY DEF Create
<1> DEFINE row == New(body.source, body.principal, None)
           m == [op |-> "create", pc |-> "raise", id |-> d, amount |-> body.principal,
                 previous |-> None, owed |-> body.principal, was |-> "active", voucher |-> None]
<1>2. body.source \in {"bank", "endowment", "opening"} /\ body.principal \in Principals
  BY DEF Placement
<1>3. row \in DepositRow /\ row.renewedFrom = None /\ row.status = "active"
  BY <1>2, NewRow
<1>4. m \in Memory /\ m.op = "create" /\ m.pc = "raise" /\ m.id = d
  BY <1>2 DEF Memory, Held
<1>5. m # Idle
  BY <1>4 DEF Idle
<1>6. deposit' = [deposit EXCEPT ![d] = row]
      /\ (request' = request \/ Accept(r, m))
  BY <1>1
<1> HIDE DEF row, m
<1>7. Inserted(d) /\ deposit'[d].renewedFrom = None
      /\ \A e \in Deposits \ {d} : deposit'[e] = deposit[e]
  BY <1>0, <1>1, <1>3, <1>6 DEF Inserted, TypeOK
<1>8. Accept(r, m) => /\ request[r] = Idle /\ request'[r] = m
                      /\ request' = [request EXCEPT ![r] = request'[r]]
  BY <1>0 DEF Accept, TypeOK
<1> QED
  BY <1>4, <1>5, <1>6, <1>7, <1>8

\* The transaction of renew.
LEMMA RenewForm ==
  ASSUME DepositInv, NEW r \in Requests, RenewWrite(r)
  PROVE  \E e \in Deposits :
           LET d == request[r].previous
           IN /\ d \in Deposits /\ d # e /\ Present(d)
              /\ Inserted(e) /\ deposit'[e].renewedFrom = d
              /\ deposit'[d] \in DepositRow /\ deposit'[d].status = "renewed"
              /\ deposit'[d].renewedFrom = deposit[d].renewedFrom
              /\ \A f \in Deposits \ {d, e} : deposit'[f] = deposit[f]
              /\ request' = [request EXCEPT ![r] = request'[r]]
              /\ request[r] # Idle /\ ~Placing(request[r]) /\ request[r].op = "renew"
              /\ request'[r] \in Memory /\ request'[r] # Idle
              /\ request'[r].op = "renew" /\ request'[r].pc = "raise" /\ request'[r].id = e
              /\ request'[r].previous = d
<1> DEFINE m == request[r]
           d == m.previous
<1>0. TypeOK
  BY DEF DepositInv
<1>1. m # Idle /\ m.op = "renew" /\ m.pc = "write" /\ Present(d) /\ m \in Memory
  BY <1>0, MemoryRow DEF RenewWrite, At
<1>2. d \in Deposits /\ m.amount \in Principals
  BY <1>0, <1>1, MemoryRow DEF DepositInv, Holding, Sound
<1>3. PICK e \in Deposits :
        /\ deposit[e].status = "absent"
        /\ deposit' = [deposit EXCEPT ![d].status = "renewed", ![e] = New("renewal", m.amount, d)]
        /\ request' = [request EXCEPT ![r].pc = "raise", ![r].id = e]
  BY DEF RenewWrite
<1> DEFINE row == New("renewal", m.amount, d)
           old == [deposit[d] EXCEPT !.status = "renewed"]
           new == [m EXCEPT !.pc = "raise", !.id = e]
<1>4. d # e /\ deposit[d] \in DepositRow
  BY <1>0, <1>1, <1>2, <1>3, PresentRow
<1>5. row \in DepositRow /\ row.renewedFrom = d /\ row.status = "active"
  BY <1>2, NewRow
<1>6. old \in DepositRow /\ old.status = "renewed" /\ old.renewedFrom = deposit[d].renewedFrom
  BY <1>4 DEF DepositRow, Settled
<1>7. new \in Memory /\ new.op = "renew" /\ new.pc = "raise" /\ new.id = e /\ new.previous = d
  BY <1>1 DEF Memory
<1>8. new # Idle
  BY <1>7 DEF Idle
<1>9. request'[r] = new /\ request' = [request EXCEPT ![r] = request'[r]]
  BY <1>0, <1>3 DEF TypeOK
<1> HIDE DEF row
<1>10. deposit' = [deposit EXCEPT ![d] = old, ![e] = row]
  BY <1>0, <1>2, <1>3, <1>4 DEF TypeOK, row
<1> HIDE DEF old, new
<1>11. /\ deposit'[d] = old /\ deposit'[e] = row
       /\ \A f \in Deposits \ {d, e} : deposit'[f] = deposit[f]
       /\ deposit' \in [Deposits -> Gone \cup DepositRow]
  BY <1>0, <1>2, <1>4, <1>5, <1>6, <1>10 DEF TypeOK
<1>12. ~Placing(m)
  BY <1>1 DEF Placing
<1> QED
  BY <1>1, <1>2, <1>3, <1>4, <1>5, <1>6, <1>7, <1>8, <1>9, <1>11, <1>12 DEF Inserted

\* The writes by id: the link, the closure, the principal and the maturity.
LEMMA AmendForm ==
  ASSUME DepositInv, NEW r \in Requests,
         LinkPlacement(r) \/ CloseWrite(r) \/ UpdateWrite(r) \/ MatureWrite(r)
  PROVE  LET m == request[r]
         IN /\ m # Idle /\ m.id \in Deposits /\ Amended(m.id)
            /\ LinkPlacement(r) \/ UpdateWrite(r) => deposit'[m.id].status = deposit[m.id].status
            /\ CloseWrite(r) => deposit'[m.id].status = "closed"
            /\ MatureWrite(r) => deposit'[m.id].status = "matured"
            /\ Finish(r)
<1> DEFINE m == request[r]
           d == m.id
<1>0. TypeOK
  BY DEF DepositInv
<1>1. m # Idle /\ Finish(r)
  BY DEF LinkPlacement, CloseWrite, UpdateWrite, MatureWrite, At
<1>2. d \in Deposits /\ m.amount \in Principals /\ m.voucher \in Vouchers \cup {None}
  BY <1>0, <1>1, MemoryRow
<1>3. Present(d)
  <2>1. CASE LinkPlacement(r)
    BY <2>1 DEF LinkPlacement, At, DepositInv, Holding, Sound, Kept, Placing
  <2> QED
    BY <2>1 DEF CloseWrite, UpdateWrite, MatureWrite
<1>4. deposit[d] \in DepositRow
  BY <1>0, <1>2, <1>3, PresentRow
<1> DEFINE linked == [deposit[d] EXCEPT !.placement = m.voucher]
           closed == [deposit[d] EXCEPT !.status = "closed", !.closure = m.voucher]
           edited == [deposit[d] EXCEPT !.principal = m.amount]
           matured == [deposit[d] EXCEPT !.status = "matured"]
<1>5. /\ linked \in DepositRow /\ linked.status = deposit[d].status
      /\ linked.renewedFrom = deposit[d].renewedFrom
  BY <1>2, <1>4 DEF DepositRow
<1>6. /\ closed \in DepositRow /\ closed.status = "closed"
      /\ closed.renewedFrom = deposit[d].renewedFrom
  BY <1>2, <1>4 DEF DepositRow, Settled
<1>7. /\ edited \in DepositRow /\ edited.status = deposit[d].status
      /\ edited.renewedFrom = deposit[d].renewedFrom
  BY <1>2, <1>4 DEF DepositRow
<1>8. /\ matured \in DepositRow /\ matured.status = "matured"
      /\ matured.renewedFrom = deposit[d].renewedFrom
  BY <1>4 DEF DepositRow, Held
<1>9. /\ LinkPlacement(r) => deposit' = [deposit EXCEPT ![d] = linked]
      /\ CloseWrite(r) => deposit' = [deposit EXCEPT ![d] = closed]
      /\ UpdateWrite(r) => deposit' = [deposit EXCEPT ![d] = edited]
      /\ MatureWrite(r) => deposit' = [deposit EXCEPT ![d] = matured]
  BY <1>0, <1>2 DEF LinkPlacement, CloseWrite, UpdateWrite, MatureWrite, TypeOK
<1> HIDE DEF linked, closed, edited, matured
<1>10. ASSUME NEW row \in DepositRow, deposit' = [deposit EXCEPT ![d] = row],
              row.renewedFrom = deposit[d].renewedFrom
       PROVE  Amended(d) /\ deposit'[d] = row
  BY <1>0, <1>2, <1>3, <1>10 DEF Amended, TypeOK
<1>11. /\ LinkPlacement(r) => Amended(d) /\ deposit'[d] = linked
       /\ CloseWrite(r) => Amended(d) /\ deposit'[d] = closed
       /\ UpdateWrite(r) => Amended(d) /\ deposit'[d] = edited
       /\ MatureWrite(r) => Amended(d) /\ deposit'[d] = matured
  BY <1>5, <1>6, <1>7, <1>8, <1>9, <1>10
<1> QED
  BY <1>1, <1>2, <1>5, <1>6, <1>7, <1>8, <1>11

\* What taking a row out makes of the others.
LEMMA DeleteForm ==
  ASSUME TypeOK, NEW d \in Deposits
  PROVE  /\ Delete(deposit, d) \in [Deposits -> Gone \cup DepositRow]
         /\ Delete(deposit, d)[d] \in Gone
         /\ \A e \in Deposits \ {d} :
              /\ ~Present(e) => Delete(deposit, d)[e] = deposit[e]
              /\ Present(e) =>
                   /\ Delete(deposit, d)[e] \in DepositRow
                   /\ Delete(deposit, d)[e].status = deposit[e].status
                   /\ Delete(deposit, d)[e].renewedFrom =
                        IF deposit[e].renewedFrom = d THEN None ELSE deposit[e].renewedFrom
<1>1. Delete(deposit, d)[d] \in Gone
  BY DEF Delete, Gone
<1>2. ASSUME NEW e \in Deposits \ {d}
      PROVE  /\ ~Present(e) => Delete(deposit, d)[e] = deposit[e]
             /\ Present(e) =>
                  /\ Delete(deposit, d)[e] \in DepositRow
                  /\ Delete(deposit, d)[e].status = deposit[e].status
                  /\ Delete(deposit, d)[e].renewedFrom =
                       IF deposit[e].renewedFrom = d THEN None ELSE deposit[e].renewedFrom
  <2>1. CASE ~Present(e)
    BY <2>1 DEF Delete, Present
  <2>2. CASE Present(e) /\ deposit[e].renewedFrom = d
    <3>1. Delete(deposit, d)[e] = [deposit[e] EXCEPT !.renewedFrom = None]
      BY <2>2 DEF Delete, Present
    <3>2. deposit[e] \in DepositRow
      BY <2>2, PresentRow
    <3> QED
      BY <2>2, <3>1, <3>2 DEF DepositRow
  <2>3. CASE Present(e) /\ deposit[e].renewedFrom # d
    <3>1. Delete(deposit, d)[e] = deposit[e]
      BY <2>3 DEF Delete, Present
    <3>2. deposit[e] \in DepositRow
      BY <2>3, PresentRow
    <3> QED
      BY <2>3, <3>1, <3>2
  <2> QED
    BY <2>1, <2>2, <2>3
<1>3. ASSUME NEW e \in Deposits PROVE Delete(deposit, d)[e] \in Gone \cup DepositRow
  BY <1>1, <1>2, PresentRow DEF TypeOK
<1>4. Delete(deposit, d) = [e \in Deposits |-> Delete(deposit, d)[e]]
  BY DEF Delete
<1> QED
  BY <1>1, <1>2, <1>3, <1>4

\* The two compensations: the row goes, and a renewal gives the old certificate the
\* status it had.
LEMMA UndoForm ==
  ASSUME DepositInv, NEW r \in Requests, UndoCreate(r) \/ UndoRenewal(r)
  PROVE  LET m == request[r]
         IN /\ Placing(m) /\ m.id \in Deposits /\ Finish(r)
            /\ \/ deposit' = deposit
               \/ /\ TakenOut(m.id)
                  /\ \A e \in Deposits \ {m.id} :
                       Present(e) => \/ deposit'[e].status = deposit[e].status
                                     \/ /\ m.op = "renew" /\ e = m.previous
                                        /\ deposit'[e].status = m.was
                  /\ m.op = "renew" => deposit'[m.previous].status \in Held
<1> DEFINE m == request[r]
           gone == Delete(deposit, m.id)
<1>0. TypeOK
  BY DEF DepositInv
<1>1. m # Idle /\ Finish(r) /\ m.pc = "undo" /\ m.op \in {"create", "renew"}
  BY DEF UndoCreate, UndoRenewal, At
<1>2. Placing(m) /\ m.id \in Deposits /\ m.was \in Held
  BY <1>0, <1>1, MemoryRow DEF Placing
<1>3. CASE deposit' = deposit
  BY <1>1, <1>2, <1>3
<1>4. CASE UndoCreate(r) /\ deposit' # deposit
  <2>1. deposit' = gone /\ m.op = "create"
    BY <1>4 DEF UndoCreate, At
  <2> QED
    BY <1>0, <1>1, <1>2, <2>1, DeleteForm DEF TakenOut
<1>5. CASE UndoRenewal(r) /\ deposit' # deposit
  <2> DEFINE p == m.previous
             row == [gone[p] EXCEPT !.status = m.was]
  <2>1. m.op = "renew" /\ p \in Deposits /\ p # m.id /\ Present(p)
    BY <1>2, <1>5 DEF UndoRenewal, At, DepositInv, Holding, Sound, Kept, Placing
  <2>2. deposit' = [gone EXCEPT ![p].status = m.was]
    BY <1>5 DEF UndoRenewal
  <2>3. gone[p] \in DepositRow /\ gone \in [Deposits -> Gone \cup DepositRow]
    BY <1>0, <1>2, <2>1, DeleteForm
  <2>4. row \in DepositRow /\ row.status = m.was /\ row.renewedFrom = gone[p].renewedFrom
    BY <1>2, <2>3 DEF DepositRow
  <2>5. deposit' = [gone EXCEPT ![p] = row]
    BY <2>1, <2>2, <2>3
  <2> HIDE DEF row, gone
  <2>6. /\ deposit'[p] = row /\ \A e \in Deposits \ {p} : deposit'[e] = gone[e]
        /\ deposit' \in [Deposits -> Gone \cup DepositRow]
    BY <2>1, <2>3, <2>4, <2>5
  <2>7. /\ gone[m.id] \in Gone
        /\ \A e \in Deposits \ {m.id} :
             /\ ~Present(e) => gone[e] = deposit[e]
             /\ Present(e) =>
                  /\ gone[e] \in DepositRow /\ gone[e].status = deposit[e].status
                  /\ gone[e].renewedFrom =
                       IF deposit[e].renewedFrom = m.id THEN None ELSE deposit[e].renewedFrom
    BY <1>0, <1>2, DeleteForm DEF gone
  <2>8. TakenOut(m.id)
    BY <1>2, <2>1, <2>4, <2>6, <2>7 DEF TakenOut
  <2>9. ASSUME NEW e \in Deposits \ {m.id}, Present(e)
        PROVE  deposit'[e].status = deposit[e].status
               \/ (m.op = "renew" /\ e = p /\ deposit'[e].status = m.was)
    BY <2>1, <2>4, <2>6, <2>7, <2>9
  <2> QED
    BY <1>1, <1>2, <2>1, <2>4, <2>6, <2>8, <2>9
<1> QED
  BY <1>3, <1>4, <1>5

-----------------------------------------------------------------------------
(* The desk *)

EntriesOK == \A v \in Vouchers : status[v] # "Absent" => entry[v] \in CodedEntry

\* A voucher is written.
LEMMA WriteStep ==
  ASSUME BooksOK, EntriesOK, NEW v \in Vouchers, NEW e \in CodedEntry, Desk!Write(v, e)
  PROVE  BooksOK' /\ EntriesOK'
<1>1. /\ status' = [status EXCEPT ![v] = "Draft"]
      /\ entry' = [entry EXCEPT ![v] = e]
  BY DEF Desk!Write, Desk!Become
<1> QED
  BY <1>1 DEF BooksOK, EntriesOK, VoucherStatus

\* A voucher that is there changes its status and nothing else.
LEMMA MoveStep ==
  ASSUME BooksOK, EntriesOK, NEW v \in Vouchers, NEW from, NEW to \in VoucherStatus,
         "Absent" \notin from, Desk!Become(v, from, to), entry' = entry
  PROVE  BooksOK' /\ EntriesOK'
<1>1. status[v] \in from /\ status' = [status EXCEPT ![v] = to]
  BY DEF Desk!Become
<1> QED
  BY <1>1 DEF BooksOK, EntriesOK, VoucherStatus

\* An edit keeps the shape of the lines.
LEMMA EditStep ==
  ASSUME BooksOK, EntriesOK, NEW v \in Vouchers, Edit(v)
  PROVE  BooksOK' /\ EntriesOK'
<1> DEFINE e == [entry[v] EXCEPT !.content.role = "edited"]
<1>1. entry[v] \in CodedEntry
  BY DEF Edit, EntriesOK
<1>2. e = [entry[v] EXCEPT !.content = [entry[v].content EXCEPT !.role = "edited"]]
  BY <1>1 DEF CodedEntry
<1>3. [entry[v].content EXCEPT !.role = "edited"] \in Coding
  BY <1>1 DEF CodedEntry, Coding
<1>4. e \in CodedEntry
  BY <1>1, <1>2, <1>3 DEF CodedEntry
<1>5. Desk!Write(v, e)
  BY DEF Edit
<1> HIDE DEF e
<1> QED
  BY <1>4, <1>5, WriteStep

LEMMA DeskBooks ==
  ASSUME BooksOK, EntriesOK, DeskStep
  PROVE  BooksOK' /\ EntriesOK'
<1>1. ASSUME NEW v \in Vouchers,
             Desk!Submit(v) \/ Desk!Approve(v) \/ Desk!Reject(v) \/ Desk!Cancel(v) \/ Desk!Post(v)
      PROVE  BooksOK' /\ EntriesOK'
  <2>1. CASE Desk!Submit(v)
    BY <2>1, MoveStep DEF Desk!Submit, VoucherStatus
  <2>2. CASE Desk!Approve(v)
    BY <2>2, MoveStep DEF Desk!Approve, VoucherStatus
  <2>3. CASE Desk!Reject(v)
    BY <2>3, MoveStep DEF Desk!Reject, VoucherStatus
  <2>4. CASE Desk!Cancel(v)
    BY <2>4, MoveStep DEF Desk!Cancel, VoucherStatus
  <2>5. CASE Desk!Post(v)
    BY <2>5, MoveStep DEF Desk!Post, VoucherStatus
  <2> QED
    BY <1>1, <2>1, <2>2, <2>3, <2>4, <2>5
<1>2. ASSUME NEW y \in Years, Desk!CreateYear(y) \/ Desk!OpenYear(y) \/ Desk!CloseYear(y)
      PROVE  BooksOK' /\ EntriesOK'
  <2>1. status' = status /\ entry' = entry
    BY <1>2 DEF Desk!CreateYear, Desk!OpenYear, Desk!CloseYear
  <2> QED
    BY <2>1 DEF BooksOK, EntriesOK
<1> QED
  BY <1>1, <1>2, EditStep DEF DeskStep

\* The lines a handler raises name deposits and natural amounts.
LEMMA RaisedLines ==
  ASSUME TypeOK, NEW r \in Requests, request[r] # Idle, Sound(request[r]),
         request[r].op \in {"create", "renew", "close", "interest"}
  PROVE  CodingOf(request[r]) \in Coding
<1> DEFINE m == request[r]
<1>1. m.id \in Deposits /\ m.amount \in Nat /\ m.owed \in Nat
  BY MemoryRow, PrincipalsAssumption
<1>2. m.op = "renew" => m.previous \in Deposits
  BY DEF Sound
<1>3. CASE m.op = "create"
  BY <1>1, <1>3 DEF CodingOf, Lines, Coding
<1>4. CASE m.op = "renew"
  BY <1>1, <1>2, <1>4 DEF CodingOf, Lines, Coding
<1>5. CASE m.op = "close"
  BY <1>1, <1>5 DEF CodingOf, Lines, Coding
<1>6. CASE m.op = "interest"
  BY <1>1, <1>6 DEF CodingOf, Lines, Coding
<1> QED
  BY <1>3, <1>4, <1>5, <1>6

\* A handler raises a voucher, submits it, or leaves the books alone.
LEMMA DepositBooks ==
  ASSUME DepositInv, NEW r \in Requests, DepositStep(r)
  PROVE  BooksOK' /\ EntriesOK'
<1>0. TypeOK /\ BooksOK /\ EntriesOK /\ Sound(request[r])
  BY DEF DepositInv, TypeOK, EntriesOK, CodedEntry, Holding
<1>1. CASE RaiseDraft(r)
  <2>1. CodingOf(request[r]) \in Coding
    BY <1>0, <1>1, RaisedLines DEF RaiseDraft, At
  <2>2. PICK v \in Vouchers, y \in Years :
          Desk!Write(v, [year |-> y, content |-> CodingOf(request[r])])
    BY <1>1 DEF RaiseDraft
  <2>3. [year |-> y, content |-> CodingOf(request[r])] \in CodedEntry
    BY <2>1 DEF CodedEntry
  <2> QED
    BY <1>0, <2>2, <2>3, WriteStep
<1>2. CASE RaiseSubmit(r)
  <2>1. request[r].voucher \in Vouchers
    BY <1>0, <1>2 DEF RaiseSubmit, At, Sound
  <2> QED
    BY <1>0, <1>2, <2>1, MoveStep DEF RaiseSubmit, Desk!Submit, VoucherStatus
<1>3. CASE UNCHANGED books
  BY <1>0, <1>3 DEF books, BooksOK, EntriesOK
<1> QED
  BY <1>1, <1>2, <1>3 DEF DepositStep, Create, RenewLoad, RenewWrite, InterestLoad, CloseLoad,
     CloseWrite, Refused, LinkPlacement, LinkFails, UndoCreate, UndoRenewal, UpdateLoad,
     UpdateCheck, UpdateWrite, MatureLoad, MatureWrite, Fail, Crash

-----------------------------------------------------------------------------
(* The handlers *)

\* A handler that goes on with the row it put in.
GoesOn(r) ==
  /\ Placing(request[r])
  /\ request'[r].id = request[r].id /\ request'[r].op = request[r].op
  /\ request'[r].previous = request[r].previous

\* A handler that has just put its row in, under an id nobody holds.
Begins(r) ==
  /\ request'[r].id \in Deposits /\ deposit[request'[r].id].status = "absent"
  /\ Kept(request[r])'

\* What a step of a handler leaves it with.
Proceeds(r) ==
  /\ request' = [request EXCEPT ![r] = request'[r]]
  /\ request'[r] \in {Idle} \cup Memory
  /\ Sound(request[r])'
  /\ Placing(request[r])' => GoesOn(r) \/ Begins(r)

\* It may be done.
LEMMA Finished ==
  ASSUME TypeOK, NEW r \in Requests, Finish(r)
  PROVE  Proceeds(r) /\ request'[r] = Idle
<1>1. request'[r] = Idle /\ request' = [request EXCEPT ![r] = request'[r]]
  BY DEF Finish, TypeOK
<1> QED
  BY <1>1 DEF Proceeds, Sound, Placing

\* It may have loaded a row, and has not put any in.
LEMMA Loaded ==
  ASSUME TypeOK, NEW r \in Requests, NEW m \in Memory, Accept(r, m), Sound(m),
         m # Idle, ~Placing(m)
  PROVE  Proceeds(r)
<1>1. request'[r] = m /\ request' = [request EXCEPT ![r] = request'[r]]
  BY DEF Accept, TypeOK
<1> QED
  BY <1>1 DEF Proceeds, Sound, Placing

\* It may take its next step.
LEMMA Moved ==
  ASSUME TypeOK, NEW r \in Requests, request[r] # Idle, Sound(request[r]),
         NEW pc \in {"write", "link", "undo"}, Advance(r, pc),
         request[r].op = "create" => pc \in {"link", "undo"},
         request[r].op \in {"update", "mature"} => pc = "write",
         request[r].op = "renew" => Placing(request[r]),
         pc = "link" => request[r].pc = "submit"
  PROVE  Proceeds(r)
<1> DEFINE m == request[r]
           new == [m EXCEPT !.pc = pc]
<1>1. request'[r] = new /\ request' = [request EXCEPT ![r] = request'[r]]
  BY DEF Advance, TypeOK
<1>2. m \in Memory
  BY MemoryRow
<1>3. /\ new \in Memory /\ new.pc = pc /\ new.op = m.op /\ new.id = m.id
      /\ new.previous = m.previous /\ new.voucher = m.voucher
  BY <1>2 DEF Memory
<1>4. new # Idle
  BY <1>3 DEF Idle
<1> HIDE DEF new
<1>5. Sound(request[r])'
  <2>1. m.op = "create" => pc \in {"link", "undo"}
    OBVIOUS
  <2> QED
    BY <1>1, <1>3, <1>4, <2>1 DEF Sound, Placing
<1>6. Placing(request[r])' => GoesOn(r)
  BY <1>1, <1>3, <1>4 DEF Sound, Placing, GoesOn
<1> QED
  BY <1>1, <1>3, <1>5, <1>6 DEF Proceeds

\* The handlers that load a deposit: renewal, closure, interest, update, maturity.
LEMMA LoadStep ==
  ASSUME DepositInv, NEW r \in Requests,
         RenewLoad(r) \/ CloseLoad(r) \/ InterestLoad(r) \/ UpdateLoad(r) \/ MatureLoad(r)
  PROVE  Proceeds(r)
<1>0. TypeOK
  BY DEF DepositInv
<1>1. ASSUME NEW d \in Deposits, Present(d)
      PROVE  deposit[d] \in DepositRow /\ deposit[d].principal \in Principals
             /\ deposit[d].placement \in Vouchers \cup {None}
  BY <1>0, <1>1, PresentRow DEF DepositRow
<1>2. \A d \in Deposits : deposit[d].status \in Held => Present(d)
  BY <1>0, PresentRow
<1>3. CASE RenewLoad(r)
  <2>1. PICK d \in Deposits, p \in Principals :
          deposit[d].status \in Held
          /\ Accept(r, [Remember("renew", "write", d, p) EXCEPT !.previous = d, !.voucher = None])
    BY <1>3 DEF RenewLoad
  <2> DEFINE m == [Remember("renew", "write", d, p) EXCEPT !.previous = d, !.voucher = None]
  <2>2. m \in Memory /\ m.op = "renew" /\ m.pc = "write" /\ m.previous = d
    BY <1>1, <1>2, <2>1 DEF Remember, Memory
  <2>3. m # Idle
    BY <2>2 DEF Idle
  <2>4. Accept(r, m)
    BY <2>1
  <2> HIDE DEF m
  <2> QED
    BY <1>0, <2>2, <2>3, <2>4, Loaded DEF Sound, Placing
<1>4. CASE CloseLoad(r)
  <2>1. PICK d \in Deposits :
          deposit[d].status \in Held
          /\ Accept(r, [Remember("close", "raise", d, deposit[d].principal) EXCEPT !.voucher = None])
    BY <1>4 DEF CloseLoad
  <2> DEFINE m == [Remember("close", "raise", d, deposit[d].principal) EXCEPT !.voucher = None]
  <2>2. m \in Memory /\ m.op = "close" /\ m.pc = "raise"
    BY <1>1, <1>2, <2>1 DEF Remember, Memory
  <2>3. m # Idle
    BY <2>2 DEF Idle
  <2>4. Accept(r, m)
    BY <2>1
  <2> HIDE DEF m
  <2> QED
    BY <1>0, <2>2, <2>3, <2>4, Loaded DEF Sound, Placing
<1>5. CASE InterestLoad(r)
  <2>1. PICK d \in Deposits :
          Present(d)
          /\ Accept(r, [Remember("interest", "raise", d, deposit[d].principal) EXCEPT
                          !.voucher = None, !.was = "active"])
    BY <1>5 DEF InterestLoad
  <2> DEFINE m == [Remember("interest", "raise", d, deposit[d].principal) EXCEPT
                     !.voucher = None, !.was = "active"]
  <2>2. m \in Memory /\ m.op = "interest" /\ m.pc = "raise"
    BY <1>1, <2>1 DEF Remember, Memory, Held
  <2>3. m # Idle
    BY <2>2 DEF Idle
  <2>4. Accept(r, m)
    BY <2>1
  <2> HIDE DEF m
  <2> QED
    BY <1>0, <2>2, <2>3, <2>4, Loaded DEF Sound, Placing
<1>6. CASE UpdateLoad(r) \/ MatureLoad(r)
  <2>1. PICK d \in Deposits, p \in Principals, op \in {"update", "mature"}, pc \in {"check", "write"} :
          deposit[d].status = "active" /\ Accept(r, Remember(op, pc, d, p))
    <3>1. CASE UpdateLoad(r)
      BY <3>1 DEF UpdateLoad
    <3>2. CASE MatureLoad(r)
      BY <1>1, <1>2, <3>2 DEF MatureLoad, Held
    <3> QED
      BY <1>6, <3>1, <3>2
  <2> DEFINE m == Remember(op, pc, d, p)
  <2>2. m \in Memory /\ m.op = op /\ m.pc = pc
    BY <1>1, <1>2, <2>1 DEF Remember, Memory, Held
  <2>3. m # Idle
    BY <2>2 DEF Idle
  <2>4. Accept(r, m)
    BY <2>1
  <2> HIDE DEF m
  <2> QED
    BY <1>0, <2>2, <2>3, <2>4, Loaded DEF Sound, Placing
<1> QED
  BY <1>3, <1>4, <1>5, <1>6

\* The draft is raised, and its id remembered.
LEMMA DraftStep ==
  ASSUME DepositInv, NEW r \in Requests, RaiseDraft(r)
  PROVE  Proceeds(r)
<1> DEFINE m == request[r]
<1>0. TypeOK /\ Sound(m) /\ m # Idle /\ m.pc = "raise"
      /\ m.op \in {"create", "renew", "close", "interest"}
  BY DEF DepositInv, Holding, RaiseDraft, At
<1>1. PICK v \in Vouchers : request' = [request EXCEPT ![r].pc = "submit", ![r].voucher = v]
  BY DEF RaiseDraft
<1> DEFINE new == [m EXCEPT !.pc = "submit", !.voucher = v]
<1>2. request'[r] = new /\ request' = [request EXCEPT ![r] = request'[r]]
  BY <1>0, <1>1 DEF TypeOK
<1>3. m \in Memory
  BY <1>0, MemoryRow
<1>4. /\ new \in Memory /\ new.pc = "submit" /\ new.op = m.op /\ new.id = m.id
      /\ new.previous = m.previous /\ new.voucher = v
  BY <1>3 DEF Memory
<1>5. new # Idle
  BY <1>4 DEF Idle
<1> HIDE DEF new
<1>6. Sound(request[r])'
  BY <1>0, <1>2, <1>4, <1>5 DEF Sound, Placing
<1>7. Placing(request[r])' => GoesOn(r)
  BY <1>0, <1>2, <1>4, <1>5 DEF Placing, GoesOn
<1> QED
  BY <1>2, <1>4, <1>6, <1>7 DEF Proceeds

\* The steps that put a row in.
LEMMA PlaceStep ==
  ASSUME DepositInv, NEW r \in Requests, Create(r) \/ RenewWrite(r), request' # request
  PROVE  Proceeds(r)
<1>0. TypeOK
  BY DEF DepositInv
<1>1. ASSUME NEW d \in Deposits, Inserted(d) PROVE Present(d)'
  BY <1>1 DEF Inserted, Present, DepositRow, Gone
<1>2. CASE Create(r)
  <2>1. PICK d \in Deposits :
          /\ Inserted(d) /\ deposit'[d].renewedFrom = None
          /\ request' = [request EXCEPT ![r] = request'[r]]
          /\ request'[r] \in Memory /\ request'[r] # Idle
          /\ request'[r].op = "create" /\ request'[r].pc = "raise" /\ request'[r].id = d
    BY <1>2, CreateForm
  <2>2. Begins(r)
    BY <1>1, <2>1 DEF Begins, Kept, Placing, Inserted
  <2>3. Sound(request[r])'
    BY <2>1 DEF Sound, Placing
  <2> QED
    BY <2>1, <2>2, <2>3 DEF Proceeds
<1>3. CASE RenewWrite(r)
  <2>1. PICK e \in Deposits :
          /\ request[r].previous \in Deposits /\ request[r].previous # e
          /\ Inserted(e) /\ deposit'[e].renewedFrom = request[r].previous
          /\ request' = [request EXCEPT ![r] = request'[r]]
          /\ request'[r] \in Memory /\ request'[r] # Idle
          /\ request'[r].op = "renew" /\ request'[r].pc = "raise" /\ request'[r].id = e
          /\ request'[r].previous = request[r].previous
    BY <1>3, RenewForm
  <2>2. Begins(r)
    BY <1>1, <2>1 DEF Begins, Kept, Placing, Inserted
  <2>3. Sound(request[r])'
    BY <2>1 DEF Sound, Placing
  <2> QED
    BY <2>1, <2>2, <2>3 DEF Proceeds
<1> QED
  BY <1>2, <1>3

\* Every step of a handler.
LEMMA HandlerStep ==
  ASSUME DepositInv, NEW r \in Requests, DepositStep(r), request' # request
  PROVE  Proceeds(r)
<1>0. TypeOK /\ Sound(request[r])
  BY DEF DepositInv, Holding
<1>1. CASE Create(r) \/ RenewWrite(r)
  BY <1>1, PlaceStep
<1>2. CASE RenewLoad(r) \/ CloseLoad(r) \/ InterestLoad(r) \/ UpdateLoad(r) \/ MatureLoad(r)
  BY <1>2, LoadStep
<1>3. CASE RaiseDraft(r)
  BY <1>3, DraftStep
<1>4. CASE Finish(r)
  BY <1>0, <1>4, Finished
<1>5. CASE RaiseSubmit(r) /\ ~Finish(r)
  BY <1>0, <1>5, Moved DEF RaiseSubmit, At, Placing
<1>6. CASE Refused(r) /\ ~Finish(r)
  BY <1>0, <1>6, Moved DEF Refused, At, Placing
<1>7. CASE UpdateCheck(r)
  BY <1>0, <1>7, Moved DEF UpdateCheck, At
<1>8. CASE LinkFails(r)
  BY <1>0, <1>8, Moved DEF LinkFails, At, Placing
<1>9. CloseWrite(r) \/ LinkPlacement(r) \/ UndoCreate(r) \/ UndoRenewal(r) \/ UpdateWrite(r)
      \/ MatureWrite(r) \/ Fail(r) \/ Crash(r) => Finish(r)
  BY DEF CloseWrite, LinkPlacement, UndoCreate, UndoRenewal, UpdateWrite, MatureWrite, Fail, Crash
<1> QED
  BY <1>1, <1>2, <1>3, <1>4, <1>5, <1>6, <1>7, <1>8, <1>9, Zenon DEF DepositStep

-----------------------------------------------------------------------------
(* The register *)

\* What a step leaves of a row that is there.
Stays(d) ==
  Present(d) => Present(d)' /\ deposit'[d].renewedFrom \in {deposit[d].renewedFrom, None}

\* The row a compensation takes out is its own, and it is done.
Removes(r, d) == Placing(request[r]) /\ d = request[r].id /\ Finish(r)

\* A step keeps the rows but the one it takes out, and a deposit marked renewed keeps
\* its successor: a compensation that takes it out restores the old status.
LEMMA RegisterStep ==
  ASSUME DepositInv, NEW r \in Requests, DepositStep(r)
  PROVE  /\ deposit' \in [Deposits -> Gone \cup DepositRow]
         /\ \A d \in Deposits : Stays(d) \/ Removes(r, d)
         /\ RenewedHasSuccessor'
<1>0. TypeOK /\ RenewedHasSuccessor /\ Gone \cap DepositRow = {}
  <2>1. Gone \cap DepositRow = {}
    BY DEF Gone, DepositRow, Held, Settled
  <2> QED
    BY <2>1 DEF DepositInv
<1>1. CASE deposit' = deposit
  BY <1>0, <1>1 DEF TypeOK, Stays, Present, RenewedHasSuccessor
<1>2. CASE Create(r)
  <2>1. PICK d \in Deposits :
          /\ Inserted(d) /\ deposit'[d].renewedFrom = None
          /\ \A e \in Deposits \ {d} : deposit'[e] = deposit[e]
    BY <1>2, CreateForm
  <2>2. ~Present(d)
    BY <1>0, <2>1, PresentRow DEF Inserted
  <2>3. \A e \in Deposits : Stays(e)
    BY <2>1, <2>2 DEF Stays, Present
  <2>4. RenewedHasSuccessor'
    BY <1>0, <2>1, <2>2 DEF Inserted, RenewedHasSuccessor, Present
  <2> QED
    BY <2>1, <2>3, <2>4 DEF Inserted
<1>3. CASE RenewWrite(r)
  <2> DEFINE d == request[r].previous
  <2>1. PICK e \in Deposits :
          /\ d \in Deposits /\ d # e /\ Present(d)
          /\ Inserted(e) /\ deposit'[e].renewedFrom = d
          /\ deposit'[d] \in DepositRow /\ deposit'[d].renewedFrom = deposit[d].renewedFrom
          /\ \A f \in Deposits \ {d, e} : deposit'[f] = deposit[f]
    BY <1>3, RenewForm
  <2> HIDE DEF d
  <2>2. ~Present(e)
    BY <1>0, <2>1, PresentRow DEF Inserted
  <2>3. ASSUME NEW f \in Deposits, Present(f)
        PROVE  Present(f)' /\ deposit'[f].renewedFrom = deposit[f].renewedFrom
    <3>1. CASE f = d
      BY <1>0, <2>1, <3>1 DEF Present
    <3>2. CASE f # d
      <4>1. deposit'[f] = deposit[f]
        BY <2>1, <2>2, <2>3, <3>2
      <4> QED
        BY <2>3, <4>1 DEF Present
    <3> QED
      BY <3>1, <3>2
  <2>4. deposit'[e] \notin Gone
    BY <1>0, <2>1 DEF Inserted
  <2>5. \A f \in Deposits : Stays(f)
    BY <2>3 DEF Stays
  <2>6. ASSUME NEW f \in Deposits, deposit'[f].status = "renewed"
        PROVE  \E g \in Deposits : Present(g)' /\ deposit'[g].renewedFrom = f
    <3>1. CASE f = d
      BY <2>1, <2>4, <3>1 DEF Present
    <3>2. CASE f # d
      <4>1. f # e
        BY <2>1, <2>6 DEF Inserted
      <4>2. PICK g \in Deposits : Present(g) /\ deposit[g].renewedFrom = f
        BY <1>0, <2>1, <2>6, <3>2, <4>1 DEF RenewedHasSuccessor
      <4>3. Present(g)' /\ deposit'[g].renewedFrom = f
        BY <2>3, <4>2
      <4> QED
        BY <4>3
    <3> QED
      BY <3>1, <3>2
  <2> QED
    BY <2>1, <2>5, <2>6 DEF Inserted, RenewedHasSuccessor
<1>4. CASE LinkPlacement(r) \/ CloseWrite(r) \/ UpdateWrite(r) \/ MatureWrite(r)
  <2> DEFINE d == request[r].id
  <2>1. d \in Deposits /\ Amended(d)
        /\ (deposit'[d].status = "renewed" => deposit[d].status = "renewed")
    BY <1>4, AmendForm
  <2> HIDE DEF d
  <2>2. \A e \in Deposits : Present(e) => Present(e)' /\ deposit'[e].renewedFrom = deposit[e].renewedFrom
    BY <1>0, <2>1 DEF Amended, Present
  <2>3. \A e \in Deposits : Stays(e)
    BY <2>2 DEF Stays
  <2>4. \A e \in Deposits : deposit'[e].status = "renewed" => deposit[e].status = "renewed"
    BY <2>1 DEF Amended
  <2>5. RenewedHasSuccessor'
    BY <1>0, <2>2, <2>4 DEF RenewedHasSuccessor
  <2> QED
    BY <2>1, <2>3, <2>5 DEF Amended
<1>5. CASE (UndoCreate(r) \/ UndoRenewal(r)) /\ deposit' # deposit
  <2> DEFINE m == request[r]
             d == m.id
  <2>1. /\ Placing(m) /\ d \in Deposits /\ Finish(r) /\ TakenOut(d)
        /\ \A e \in Deposits \ {d} :
             Present(e) => \/ deposit'[e].status = deposit[e].status
                           \/ m.op = "renew" /\ e = m.previous
        /\ m.op = "renew" => deposit'[m.previous].status \in Held
    BY <1>5, UndoForm
  <2>2. /\ m.op = "create" => deposit[d].renewedFrom = None
        /\ m.op = "renew" => deposit[d].renewedFrom \in {m.previous, None}
        /\ m.op \in {"create", "renew"}
    BY <2>1 DEF DepositInv, Holding, Kept, Placing
  <2> HIDE DEF d
  <2>3. \A e \in Deposits : Stays(e) \/ Removes(r, e)
    BY <1>0, <2>1 DEF TakenOut, Stays, Present, Removes, d
  <2>4. ASSUME NEW e \in Deposits, deposit'[e].status = "renewed"
        PROVE  \E g \in Deposits : Present(g)' /\ deposit'[g].renewedFrom = e
    <3>1. e # d /\ Present(e)
      <4>1. deposit'[e] \notin Gone
        BY <2>4 DEF Gone
      <4> QED
        BY <2>1, <4>1 DEF TakenOut, Present
    <3>2. ~(m.op = "renew" /\ e = m.previous)
      BY <2>1, <2>4 DEF Held
    <3>3. deposit[e].status = "renewed"
      BY <2>1, <2>4, <3>1, <3>2
    <3>4. PICK g \in Deposits : Present(g) /\ deposit[g].renewedFrom = e
      BY <1>0, <3>3 DEF RenewedHasSuccessor
    <3>5. g # d
      BY <2>2, <3>2, <3>4, NoneAssumption
    <3>6. deposit'[g] \in DepositRow /\ deposit'[g].renewedFrom = e
      BY <2>1, <3>1, <3>4, <3>5 DEF TakenOut
    <3> QED
      BY <1>0, <3>6 DEF Present
  <2> QED
    BY <2>1, <2>3, <2>4 DEF TakenOut, RenewedHasSuccessor
<1>6. deposit' = deposit \/ Create(r) \/ RenewWrite(r)
      \/ LinkPlacement(r) \/ CloseWrite(r) \/ UpdateWrite(r) \/ MatureWrite(r)
      \/ UndoCreate(r) \/ UndoRenewal(r)
  BY DEF DepositStep, RenewLoad, InterestLoad, CloseLoad, RaiseDraft, RaiseSubmit, Refused,
         LinkFails, UpdateLoad, UpdateCheck, MatureLoad, Fail, Crash
<1> QED
  BY <1>1, <1>2, <1>3, <1>4, <1>5, <1>6

-----------------------------------------------------------------------------
(* The invariant holds *)

LEMMA DepositInit ==
  ASSUME Init PROVE DepositInv
<1>1. deposit = [d \in Deposits |-> [status |-> "absent"]] /\ request = [r \in Requests |-> Idle]
      /\ status = [v \in Vouchers |-> "Absent"] /\ entry = [v \in Vouchers |-> <<>>]
  BY DEF Init, Desk!Init
<1>2. [status |-> "absent"] \in Gone
  BY DEF Gone
<1>3. TypeOK
  BY <1>1, <1>2 DEF TypeOK
<1>4. BooksOK
  BY <1>1 DEF BooksOK, VoucherStatus
<1>5. (\A r \in Requests : Holding(request[r])) /\ OwnRows
  BY <1>1 DEF Holding, Sound, Kept, Placing, OwnRows
<1>6. RenewedHasSuccessor
  BY <1>1 DEF RenewedHasSuccessor
<1> QED
  BY <1>3, <1>4, <1>5, <1>6 DEF DepositInv

\* One handler moves: its row stays its own, and so do the others'.
LEMMA RequestStep ==
  ASSUME DepositInv, NEW r \in Requests, DepositStep(r)
  PROVE  /\ request' \in [Requests -> {Idle} \cup Memory]
         /\ \A s \in Requests : Holding(request[s])'
         /\ OwnRows'
<1>0. TypeOK /\ OwnRows /\ \A s \in Requests : Sound(request[s]) /\ Kept(request[s])
  BY DEF DepositInv, Holding
<1>1. \A d \in Deposits : Stays(d) \/ Removes(r, d)
  BY RegisterStep
<1>2. \A s \in Requests : Placing(request[s]) => request[s].id \in Deposits
  BY <1>0, MemoryRow DEF Placing
<1>3. request' = request \/ Proceeds(r)
  BY HandlerStep
<1>4. \A s \in Requests \ {r} : request'[s] = request[s]
  BY <1>0, <1>3 DEF Proceeds, TypeOK
<1>5. Placing(request'[r]) => ~Finish(r)
  BY <1>0 DEF Finish, TypeOK, Placing
<1>6. ASSUME NEW s \in Requests, Placing(request[s]), Stays(request[s].id),
             request'[s].id = request[s].id, request'[s].op = request[s].op,
             request'[s].previous = request[s].previous
      PROVE  Kept(request[s])'
  <2>1. Kept(request[s])
    BY <1>0
  <2> QED
    BY <1>6, <2>1 DEF Kept, Stays, Placing
<1>7. request' \in [Requests -> {Idle} \cup Memory]
  BY <1>0, <1>3 DEF Proceeds, TypeOK
<1>8. ASSUME NEW s \in Requests PROVE Holding(request[s])'
  <2>1. Sound(request[s])'
    BY <1>0, <1>3, <1>4 DEF Proceeds, Sound, Placing
  <2>2. CASE ~Placing(request'[s])
    BY <2>1, <2>2 DEF Holding, Kept
  <2>3. CASE Placing(request'[s]) /\ s # r
    <3>1. request'[s] = request[s] /\ Placing(request[s])
      BY <1>4, <2>3
    <3>2. Stays(request[s].id)
      BY <1>0, <1>1, <1>2, <2>3, <3>1 DEF Removes, OwnRows
    <3> QED
      BY <1>6, <2>1, <3>1, <3>2 DEF Holding
  <2>4. CASE Placing(request'[s]) /\ s = r
    <3>1. CASE Begins(r) /\ request' # request
      BY <2>1, <2>4, <3>1 DEF Begins, Holding
    <3>2. CASE GoesOn(r) \/ request' = request
      <4>1. /\ Placing(request[r]) /\ request'[r].id = request[r].id
            /\ request'[r].op = request[r].op /\ request'[r].previous = request[r].previous
        BY <2>4, <3>2 DEF GoesOn
      <4>2. Stays(request[r].id)
        BY <1>1, <1>2, <1>5, <2>4, <4>1 DEF Removes
      <4> QED
        BY <1>6, <2>1, <2>4, <4>1, <4>2 DEF Holding
    <3> QED
      BY <1>3, <2>4, <3>1, <3>2 DEF Proceeds, Placing
  <2> QED
    BY <2>2, <2>3, <2>4
<1>9. ASSUME NEW s \in Requests, NEW t \in Requests, s # t,
             Placing(request'[s]), Placing(request'[t])
      PROVE  request'[s].id # request'[t].id
  <2>1. ASSUME NEW o \in Requests \ {r}, Placing(request'[o]), Placing(request'[r])
        PROVE  request'[o].id # request'[r].id
    <3>1. request'[o] = request[o] /\ Placing(request[o])
      BY <1>4, <2>1
    <3>2. CASE request' = request \/ GoesOn(r)
      BY <1>0, <2>1, <3>1, <3>2 DEF GoesOn, OwnRows
    <3>3. CASE Begins(r)
      <4>1. Present(request[o].id) /\ request[o].id \in Deposits
        BY <1>0, <1>2, <3>1 DEF Kept
      <4>2. ~Present(request'[r].id)
        BY <1>0, <3>3, PresentRow DEF Begins
      <4> QED
        BY <3>1, <4>1, <4>2
    <3> QED
      BY <1>3, <2>1, <3>2, <3>3 DEF Proceeds, Placing
  <2>2. CASE s # r /\ t # r
    BY <1>0, <1>4, <1>9, <2>2 DEF OwnRows
  <2> QED
    BY <1>9, <2>1, <2>2
<1>10. OwnRows'
  BY <1>9 DEF OwnRows, Placing
<1> QED
  BY <1>7, <1>8, <1>10

LEMMA DepositInvStep ==
  ASSUME DepositInv, [Next]_vars PROVE DepositInv'
<1>1. ASSUME NEW r \in Requests, DepositStep(r) PROVE DepositInv'
  <2>1. BooksOK' /\ EntriesOK'
    BY <1>1, DepositBooks
  <2>2. deposit' \in [Deposits -> Gone \cup DepositRow] /\ RenewedHasSuccessor'
    BY <1>1, RegisterStep
  <2>3. /\ request' \in [Requests -> {Idle} \cup Memory]
        /\ \A s \in Requests : Holding(request[s])'
        /\ OwnRows'
    BY <1>1, RequestStep
  <2>4. TypeOK'
    BY <2>1, <2>2, <2>3 DEF TypeOK, EntriesOK, CodedEntry
  <2> QED
    BY <2>1, <2>2, <2>3, <2>4 DEF DepositInv
<1>2. ASSUME UNCHANGED <<deposit, request>>, BooksOK', EntriesOK' PROVE DepositInv'
  <2>1. TypeOK'
    BY <1>2 DEF DepositInv, TypeOK, EntriesOK, CodedEntry
  <2>2. (\A r \in Requests : Holding(request[r])') /\ OwnRows' /\ RenewedHasSuccessor'
    BY <1>2 DEF DepositInv, Holding, Sound, Kept, Placing, Present, OwnRows, RenewedHasSuccessor
  <2> QED
    BY <1>2, <2>1, <2>2 DEF DepositInv
<1>3. BooksOK /\ EntriesOK
  BY DEF DepositInv, TypeOK, EntriesOK, CodedEntry
<1>4. CASE DeskStep
  BY <1>2, <1>3, <1>4, DeskBooks DEF DeskStep
<1>5. CASE UNCHANGED vars
  BY <1>2, <1>3, <1>5 DEF vars, books, BooksOK, EntriesOK
<1> QED
  BY <1>1, <1>4, <1>5 DEF Next

-----------------------------------------------------------------------------
(* Theorems *)

\* The register, the memories of the handlers and the lines of the vouchers keep
\* their shape whatever handlers, desk and years do.
THEOREM DepositTypeCorrect == Spec => []TypeOK
<1>1. Init => DepositInv
  BY DepositInit
<1>2. DepositInv /\ [Next]_vars => DepositInv'
  BY DepositInvStep
<1>3. DepositInv => TypeOK
  BY DEF DepositInv
<1> QED
  BY <1>1, <1>2, <1>3, PTL DEF Spec

\* A deposit marked renewed has the certificate it was renewed into, with any number
\* of handlers in flight, refused, failing and stopping.  (renew and its compensation.)
THEOREM RenewedHasSuccessorHolds == Spec => []RenewedHasSuccessor
<1>1. Init => DepositInv
  BY DepositInit
<1>2. DepositInv /\ [Next]_vars => DepositInv'
  BY DepositInvStep
<1>3. DepositInv => RenewedHasSuccessor
  BY DEF DepositInv
<1> QED
  BY <1>1, <1>2, <1>3, PTL DEF Spec

-----------------------------------------------------------------------------
(* One handler at a time *)

\* Handlers follow one another; the desk still works in between.
OneHandler == \A r, s \in Requests : r = s

\* What a deposit was renewed from is marked renewed.
Linked ==
  \A e \in Deposits : Present(e) /\ deposit[e].renewedFrom # None =>
    deposit[deposit[e].renewedFrom].status = "renewed"

\* What a handler found of a row is still so when it writes.
Fresh(m) ==
  m # Idle =>
    /\ m.op = "mature" => deposit[m.id].status = "active"
    /\ m.op = "close" => deposit[m.id].status \in Held
    /\ m.op = "renew" /\ m.pc = "write" => deposit[m.previous].status \in Held
    /\ m.op = "renew" /\ Placing(m) => deposit[m.id].renewedFrom = m.previous

SerialInv ==
  /\ DepositInv
  /\ ChainIsLinear /\ Linked
  /\ \A r \in Requests : Fresh(request[r])

\* A loaded row is as the handler found it.
LEMMA FreshLoad ==
  ASSUME TypeOK, NEW r \in Requests,
         RenewLoad(r) \/ CloseLoad(r) \/ InterestLoad(r) \/ UpdateLoad(r) \/ MatureLoad(r)
  PROVE  Fresh(request[r])'
<1>0. deposit' = deposit
  BY DEF RenewLoad, CloseLoad, InterestLoad, UpdateLoad, MatureLoad
<1>1. \A m : Accept(r, m) => request'[r] = m
  BY DEF Accept, TypeOK
<1>2. CASE RenewLoad(r)
  <2>1. PICK d \in Deposits, p \in Principals :
          deposit[d].status \in Held
          /\ Accept(r, [Remember("renew", "write", d, p) EXCEPT !.previous = d, !.voucher = None])
    BY <1>2 DEF RenewLoad
  <2>2. request'[r] = [Remember("renew", "write", d, p) EXCEPT !.previous = d, !.voucher = None]
    BY <1>1, <2>1
  <2>3. request'[r].op = "renew" /\ request'[r].pc = "write" /\ request'[r].previous = d
    BY <2>2 DEF Remember
  <2> QED
    BY <1>0, <2>1, <2>3 DEF Fresh, Placing
<1>3. CASE CloseLoad(r)
  <2>1. PICK d \in Deposits :
          deposit[d].status \in Held
          /\ Accept(r, [Remember("close", "raise", d, deposit[d].principal) EXCEPT !.voucher = None])
    BY <1>3 DEF CloseLoad
  <2>2. request'[r] = [Remember("close", "raise", d, deposit[d].principal) EXCEPT !.voucher = None]
    BY <1>1, <2>1
  <2>3. request'[r].op = "close" /\ request'[r].id = d
    BY <2>2 DEF Remember
  <2> QED
    BY <1>0, <2>1, <2>3 DEF Fresh
<1>4. CASE MatureLoad(r)
  <2>1. PICK d \in Deposits :
          deposit[d].status = "active"
          /\ Accept(r, Remember("mature", "write", d, deposit[d].principal))
    BY <1>4 DEF MatureLoad
  <2>2. request'[r] = Remember("mature", "write", d, deposit[d].principal)
    BY <1>1, <2>1
  <2>3. request'[r].op = "mature" /\ request'[r].id = d
    BY <2>2 DEF Remember
  <2> QED
    BY <1>0, <2>1, <2>3 DEF Fresh
<1>5. CASE InterestLoad(r)
  <2>1. PICK d \in Deposits :
          Accept(r, [Remember("interest", "raise", d, deposit[d].principal) EXCEPT
                       !.voucher = None, !.was = "active"])
    BY <1>5 DEF InterestLoad
  <2>2. request'[r] = [Remember("interest", "raise", d, deposit[d].principal) EXCEPT
                         !.voucher = None, !.was = "active"]
    BY <1>1, <2>1
  <2>3. request'[r].op = "interest"
    BY <2>2 DEF Remember
  <2> QED
    BY <2>3 DEF Fresh
<1>6. CASE UpdateLoad(r)
  <2>1. PICK d \in Deposits, p \in Principals, pc \in {"check", "write"} :
          Accept(r, Remember("update", pc, d, p))
    BY <1>6 DEF UpdateLoad
  <2>2. request'[r] = Remember("update", pc, d, p)
    BY <1>1, <2>1
  <2>3. request'[r].op = "update"
    BY <2>2 DEF Remember
  <2> QED
    BY <2>3 DEF Fresh
<1> QED
  BY <1>2, <1>3, <1>4, <1>5, <1>6

\* Alone, a handler finds at every statement what it left at the one before.
LEMMA FreshStep ==
  ASSUME OneHandler, SerialInv, NEW r \in Requests, DepositStep(r)
  PROVE  \A s \in Requests : Fresh(request[s])'
<1>0. TypeOK /\ Fresh(request[r]) /\ Sound(request[r])
  BY DEF SerialInv, DepositInv, Holding
<1>1. \A s \in Requests : s = r
  BY DEF OneHandler
<1>2. CASE RenewLoad(r) \/ CloseLoad(r) \/ InterestLoad(r) \/ UpdateLoad(r) \/ MatureLoad(r)
  BY <1>0, <1>1, <1>2, FreshLoad
<1>3. CASE Finish(r)
  <2>1. request'[r] = Idle
    BY <1>0, <1>3 DEF Finish, TypeOK
  <2> QED
    BY <1>1, <2>1 DEF Fresh
<1>4. CASE Create(r)
  <2>1. request' = request \/ request'[r].op = "create"
    BY <1>4, CreateForm DEF SerialInv
  <2>2. \A d \in Deposits : deposit[d].status # "absent" => deposit'[d] = deposit[d]
    BY <1>4 DEF Create
  <2>3. CASE request' = request /\ request[r] # Idle
    BY <1>4, <2>3 DEF Create
  <2> QED
    BY <1>1, <2>1, <2>3 DEF Fresh
<1>5. CASE RenewWrite(r)
  <2>1. request'[r].op = "renew" /\ request'[r].pc = "raise"
        /\ deposit'[request'[r].id].renewedFrom = request'[r].previous
    BY <1>5, RenewForm DEF SerialInv
  <2> QED
    BY <1>1, <2>1 DEF Fresh
<1>6. ASSUME NEW pc \in {"write", "submit", "link", "undo"}, deposit' = deposit,
             request[r] # Idle, request[r].op = "renew" => Placing(request[r]),
             request'[r].pc = pc, request'[r].op = request[r].op, request'[r].id = request[r].id,
             request'[r].previous = request[r].previous,
             pc = "write" => request[r].op = "update"
      PROVE  \A s \in Requests : Fresh(request[s])'
  BY <1>0, <1>1, <1>6 DEF Fresh
<1>7. ASSUME NEW pc \in {"write", "link", "undo"}, Advance(r, pc), request[r] # Idle
      PROVE  /\ request'[r].pc = pc /\ request'[r].op = request[r].op
             /\ request'[r].id = request[r].id /\ request'[r].previous = request[r].previous
  <2>1. request'[r] = [request[r] EXCEPT !.pc = pc]
    BY <1>0, <1>7 DEF Advance, TypeOK
  <2> QED
    BY <1>0, <1>7, <2>1, MemoryRow DEF Memory
<1>8. CASE RaiseDraft(r)
  <2>1. PICK v \in Vouchers : request' = [request EXCEPT ![r].pc = "submit", ![r].voucher = v]
    BY <1>8 DEF RaiseDraft
  <2>2. request'[r] = [request[r] EXCEPT !.pc = "submit", !.voucher = v]
    BY <1>0, <2>1 DEF TypeOK
  <2>3. request[r] \in Memory /\ request[r] # Idle /\ request[r].pc = "raise" /\ deposit' = deposit
    BY <1>0, <1>8, MemoryRow DEF RaiseDraft, At
  <2>4. /\ request'[r].pc = "submit" /\ request'[r].op = request[r].op
        /\ request'[r].id = request[r].id /\ request'[r].previous = request[r].previous
    BY <2>2, <2>3 DEF Memory
  <2> QED
    BY <1>6, <2>3, <2>4 DEF Placing
<1>9. CASE (RaiseSubmit(r) \/ Refused(r) \/ UpdateCheck(r) \/ LinkFails(r)) /\ ~Finish(r)
  BY <1>6, <1>7, <1>9 DEF RaiseSubmit, Refused, UpdateCheck, LinkFails, At, Placing
<1>10. CloseWrite(r) \/ LinkPlacement(r) \/ UndoCreate(r) \/ UndoRenewal(r) \/ UpdateWrite(r)
       \/ MatureWrite(r) \/ Fail(r) \/ Crash(r) => Finish(r)
  BY DEF CloseWrite, LinkPlacement, UndoCreate, UndoRenewal, UpdateWrite, MatureWrite, Fail, Crash
<1> QED
  BY <1>2, <1>3, <1>4, <1>5, <1>8, <1>9, <1>10, Zenon DEF DepositStep

\* Alone, a handler keeps the chain linear and settled deposits settled.
LEMMA ChainStep ==
  ASSUME SerialInv, NEW r \in Requests, DepositStep(r)
  PROVE  ChainIsLinear' /\ Linked' /\ SettledStays
<1>0. /\ DepositInv /\ TypeOK /\ ChainIsLinear /\ Linked /\ Fresh(request[r])
      /\ Gone \cap DepositRow = {}
  <2>1. Gone \cap DepositRow = {}
    BY DEF Gone, DepositRow, Held, Settled
  <2> QED
    BY <2>1 DEF SerialInv, DepositInv
<1>1. CASE deposit' = deposit
  BY <1>0, <1>1 DEF ChainIsLinear, Linked, Present, SettledStays
<1>2. CASE Create(r)
  <2>1. PICK d \in Deposits :
          /\ Inserted(d) /\ deposit'[d].renewedFrom = None
          /\ \A e \in Deposits \ {d} : deposit'[e] = deposit[e]
    BY <1>0, <1>2, CreateForm
  <2>2. deposit[d].status \notin Settled \cup {"renewed"}
    BY <2>1 DEF Inserted, Settled
  <2>3. \A e \in Deposits : Present(e)' /\ deposit'[e].renewedFrom # None =>
          e # d /\ Present(e) /\ deposit'[e] = deposit[e]
    BY <2>1 DEF Present
  <2>4. ChainIsLinear'
    BY <1>0, <2>3 DEF ChainIsLinear
  <2>5. \A e \in Deposits : deposit[e].status = "renewed" => deposit'[e] = deposit[e]
    BY <2>1, <2>2
  <2>6. Linked'
    <3>1. ASSUME NEW e \in Deposits, Present(e)', deposit'[e].renewedFrom # None
          PROVE  deposit'[deposit'[e].renewedFrom].status = "renewed"
      <4>1. Present(e) /\ deposit'[e] = deposit[e] /\ deposit[e] \in DepositRow
        BY <1>0, <2>3, <3>1, PresentRow
      <4>2. deposit[e].renewedFrom \in Deposits
        BY <3>1, <4>1 DEF DepositRow
      <4> QED
        BY <1>0, <2>5, <3>1, <4>1, <4>2 DEF Linked
    <3> QED
      BY <3>1 DEF Linked
  <2>7. SettledStays
    BY <2>1, <2>2 DEF SettledStays
  <2> QED
    BY <2>4, <2>6, <2>7
<1>3. CASE RenewWrite(r)
  <2> DEFINE d == request[r].previous
  <2>1. PICK e \in Deposits :
          /\ d \in Deposits /\ d # e /\ Present(d)
          /\ Inserted(e) /\ deposit'[e].renewedFrom = d
          /\ deposit'[d].status = "renewed" /\ deposit'[d].renewedFrom = deposit[d].renewedFrom
          /\ \A f \in Deposits \ {d, e} : deposit'[f] = deposit[f]
    BY <1>0, <1>3, RenewForm
  <2>2. deposit[d].status \in Held
    BY <1>0, <1>3 DEF RenewWrite, At, Fresh
  <2> HIDE DEF d
  <2>3. \A f \in Deposits : Present(f) => deposit[f].renewedFrom # d
    BY <1>0, <2>1, <2>2, NoneAssumption DEF Linked, Held
  <2>4. \A f \in Deposits : Present(f)' => f = e \/ (Present(f) /\ deposit'[f].renewedFrom = deposit[f].renewedFrom)
    BY <2>1 DEF Present
  <2>5. ChainIsLinear'
    BY <1>0, <2>1, <2>3, <2>4 DEF ChainIsLinear
  <2>6. \A f \in Deposits : deposit[f].status = "renewed" => deposit'[f].status = "renewed"
    BY <2>1 DEF Inserted
  <2>7. Linked'
    <3>1. ASSUME NEW f \in Deposits, Present(f)', deposit'[f].renewedFrom # None
          PROVE  deposit'[deposit'[f].renewedFrom].status = "renewed"
      <4>1. CASE f = e
        BY <2>1, <4>1
      <4>2. CASE f # e
        <5>1. Present(f) /\ deposit'[f].renewedFrom = deposit[f].renewedFrom
              /\ deposit[f] \in DepositRow
          BY <1>0, <2>4, <3>1, <4>2, PresentRow
        <5>2. deposit[f].renewedFrom \in Deposits
          BY <3>1, <5>1 DEF DepositRow
        <5> QED
          BY <1>0, <2>6, <3>1, <5>1, <5>2 DEF Linked
      <4> QED
        BY <4>1, <4>2
    <3> QED
      BY <3>1 DEF Linked
  <2>8. SettledStays
    BY <2>1, <2>2 DEF SettledStays, Settled, Held, Inserted
  <2> QED
    BY <2>5, <2>7, <2>8
<1>4. CASE LinkPlacement(r) \/ CloseWrite(r) \/ UpdateWrite(r) \/ MatureWrite(r)
  <2> DEFINE d == request[r].id
  <2>1. d \in Deposits /\ Amended(d)
        /\ (deposit[d].status \notin Held => deposit'[d].status = deposit[d].status)
    <3>1. request[r] # Idle /\ (MatureWrite(r) => request[r].op = "mature")
          /\ (CloseWrite(r) => request[r].op = "close")
      BY <1>4 DEF LinkPlacement, CloseWrite, UpdateWrite, MatureWrite, At
    <3>2. MatureWrite(r) \/ CloseWrite(r) => deposit[d].status \in Held
      BY <1>0, <3>1 DEF Fresh, Held
    <3> QED
      BY <1>0, <1>4, <3>2, AmendForm
  <2> HIDE DEF d
  <2>2. \A e \in Deposits : Present(e)' => Present(e) /\ deposit'[e].renewedFrom = deposit[e].renewedFrom
    BY <2>1 DEF Amended, Present
  <2>3. \A e \in Deposits : deposit[e].status \in Settled => deposit'[e].status = deposit[e].status
    BY <2>1 DEF Amended, Held, Settled
  <2>4. ChainIsLinear'
    BY <1>0, <2>2 DEF ChainIsLinear
  <2>5. Linked'
    <3>1. ASSUME NEW f \in Deposits, Present(f)', deposit'[f].renewedFrom # None
          PROVE  deposit'[deposit'[f].renewedFrom].status = "renewed"
      <4>1. Present(f) /\ deposit'[f].renewedFrom = deposit[f].renewedFrom
            /\ deposit[f] \in DepositRow
        BY <1>0, <2>2, <3>1, PresentRow
      <4>2. deposit[f].renewedFrom \in Deposits
        BY <3>1, <4>1 DEF DepositRow
      <4> QED
        BY <1>0, <2>3, <3>1, <4>1, <4>2 DEF Linked, Settled
    <3> QED
      BY <3>1 DEF Linked
  <2>6. SettledStays
    BY <2>3 DEF SettledStays
  <2> QED
    BY <2>4, <2>5, <2>6
<1>5. CASE (UndoCreate(r) \/ UndoRenewal(r)) /\ deposit' # deposit
  <2> DEFINE m == request[r]
             d == m.id
  <2>1. /\ Placing(m) /\ d \in Deposits /\ TakenOut(d)
        /\ \A e \in Deposits \ {d} :
             Present(e) => \/ deposit'[e].status = deposit[e].status
                           \/ m.op = "renew" /\ e = m.previous
    BY <1>0, <1>5, UndoForm
  <2>2. m.op = "renew" => m.previous # d /\ deposit[d].renewedFrom = m.previous /\ Present(d)
    BY <1>0, <2>1 DEF DepositInv, Holding, Kept, Placing, Fresh
  <2>3. m.pc = "undo" /\ m # Idle /\ m.op \in {"create", "renew"}
    BY <1>5 DEF UndoCreate, UndoRenewal, At
  <2> HIDE DEF d
  <2>4. \A e \in Deposits : Present(e)' =>
          e # d /\ Present(e)
          /\ deposit'[e].renewedFrom = IF deposit[e].renewedFrom = d THEN None ELSE deposit[e].renewedFrom
    BY <2>1 DEF TakenOut, Present
  <2>5. ChainIsLinear'
    BY <1>0, <2>4 DEF ChainIsLinear
  <2>6. Linked'
    <3>1. ASSUME NEW f \in Deposits, Present(f)', deposit'[f].renewedFrom # None
          PROVE  deposit'[deposit'[f].renewedFrom].status = "renewed"
      <4>1. f # d /\ Present(f) /\ deposit'[f].renewedFrom = deposit[f].renewedFrom
            /\ deposit[f].renewedFrom # d /\ deposit[f] \in DepositRow
        BY <1>0, <2>4, <3>1, PresentRow
      <4> DEFINE g == deposit[f].renewedFrom
      <4>2. g \in Deposits /\ deposit[g].status = "renewed"
        BY <1>0, <3>1, <4>1 DEF DepositRow, Linked
      <4>3. Present(g)
        BY <1>0, <4>2, PresentRow DEF Settled
      <4>4. ~(m.op = "renew" /\ g = m.previous)
        BY <1>0, <2>1, <2>2, <3>1, <4>1 DEF ChainIsLinear
      <4> HIDE DEF g
      <4>5. deposit'[g].status = "renewed"
        BY <2>1, <4>1, <4>2, <4>3, <4>4 DEF g
      <4> QED
        BY <4>1, <4>5 DEF g
    <3> QED
      BY <3>1 DEF Linked
  <2>7. SettledStays
    BY <2>1, <2>3, <2>4 DEF SettledStays, At
  <2> QED
    BY <2>5, <2>6, <2>7
<1>6. deposit' = deposit \/ Create(r) \/ RenewWrite(r)
      \/ LinkPlacement(r) \/ CloseWrite(r) \/ UpdateWrite(r) \/ MatureWrite(r)
      \/ UndoCreate(r) \/ UndoRenewal(r)
  BY DEF DepositStep, RenewLoad, InterestLoad, CloseLoad, RaiseDraft, RaiseSubmit, Refused,
         LinkFails, UpdateLoad, UpdateCheck, MatureLoad, Fail, Crash
<1> QED
  BY <1>1, <1>2, <1>3, <1>4, <1>5, <1>6

LEMMA SerialInit ==
  ASSUME Init PROVE SerialInv
<1>1. \A d \in Deposits : ~Present(d)
  BY DEF Init, Present, Gone
<1>2. \A r \in Requests : Fresh(request[r])
  BY DEF Init, Fresh
<1> QED
  BY <1>1, <1>2, DepositInit DEF SerialInv, ChainIsLinear, Linked

LEMMA SerialStep ==
  ASSUME OneHandler, SerialInv, [Next]_vars
  PROVE  SerialInv' /\ (SettledStays \/ UNCHANGED vars)
<1>1. DepositInv'
  BY DepositInvStep DEF SerialInv
<1>2. ASSUME UNCHANGED <<deposit, request>>
      PROVE  ChainIsLinear' /\ Linked' /\ SettledStays /\ \A r \in Requests : Fresh(request[r])'
  BY <1>2 DEF SerialInv, ChainIsLinear, Linked, Present, SettledStays, Fresh, Placing
<1>3. ASSUME NEW r \in Requests, DepositStep(r)
      PROVE  ChainIsLinear' /\ Linked' /\ SettledStays /\ \A s \in Requests : Fresh(request[s])'
  BY <1>3, ChainStep, FreshStep
<1>4. UNCHANGED <<deposit, request>> \/ \E r \in Requests : DepositStep(r)
  BY DEF Next, DeskStep, vars
<1>5. ChainIsLinear' /\ Linked' /\ SettledStays /\ \A r \in Requests : Fresh(request[r])'
  BY <1>2, <1>3, <1>4
<1> QED
  BY <1>1, <1>5 DEF SerialInv

\* While handlers follow one another a deposit is renewed into one certificate, so that
\* the chain can be walked from either end, whatever the desk does to the vouchers and
\* wherever a handler stops.  (renew, its compensation and renewalChain.)
THEOREM ChainIsLinearHolds ==
  ASSUME OneHandler PROVE Spec => []ChainIsLinear
<1>1. Init => SerialInv
  BY SerialInit
<1>2. SerialInv /\ [Next]_vars => SerialInv'
  BY SerialStep
<1>3. SerialInv => ChainIsLinear
  BY DEF SerialInv
<1> QED
  BY <1>1, <1>2, <1>3, PTL DEF Spec

\* While handlers follow one another a settled deposit is never settled again nor made
\* active, but by the compensation of a refused renewal.  (changeStatus, renew, close.)
THEOREM SettledIsFinalHolds ==
  ASSUME OneHandler PROVE Spec => SettledIsFinal
<1>1. Init => SerialInv
  BY SerialInit
<1>2. SerialInv /\ [Next]_vars => SerialInv'
  BY SerialStep
<1>3. SerialInv /\ [Next]_vars => [SettledStays]_vars
  BY SerialStep
<1> QED
  BY <1>1, <1>2, <1>3, PTL DEF Spec, SettledIsFinal

-----------------------------------------------------------------------------
(* One handler at a time that runs to its end *)

\* What was posted was raised, and the lines of what was raised name deposits that were placed.
Raised(v) == status[v] # "Absent"
Grounded ==
  /\ \A p \in posted : p.voucher \in Vouchers /\ Raised(p.voucher)
  /\ \A v \in Vouchers : Raised(v) => \A d \in Named(v) : deposit[d].status # "absent"

\* A row is at opening, being placed, or linked to the voucher that placed it.
RowPlaced(d) ==
  Present(d) /\ deposit[d].source # "opening"
  /\ (\A r \in Requests : Placing(request[r]) => request[r].id # d) =>
    /\ deposit[d].placement \in Vouchers /\ Raised(deposit[d].placement)
    /\ entry[deposit[d].placement].content.into = d

\* A voucher that places a principal is linked to its row, or about to be.
Places(v) ==
  Raised(v) /\ entry[v].content.role \in {"placement", "renewal"} =>
    LET d == entry[v].content.into
    IN /\ d \in Deposits /\ Present(d)
       /\ Live(v) => deposit[d].principal = entry[v].content.debit
       /\ \/ deposit[d].placement = v
          \/ \E r \in Requests : /\ Placing(request[r]) /\ request[r].pc \in {"submit", "link"}
                                 /\ request[r].id = d /\ request[r].voucher = v

\* A voucher that takes a principal off the books is of a settled deposit, or of one that is
\* about to be.
Settles(v) ==
  Live(v) /\ entry[v].content.from # None =>
    \/ deposit[entry[v].content.from].status \in Settled
    \/ \E r \in Requests : /\ At(r, {"close"}, "submit") \/ At(r, {"close"}, "link")
                           /\ request[r].id = entry[v].content.from /\ request[r].voucher = v

SettlesAlone ==
  \A v, w \in Vouchers :
    Live(v) /\ Live(w) /\ entry[v].content.from # None
    /\ entry[v].content.from = entry[w].content.from => v = w

\* What the handler knows of the books is so.
Knows(m) ==
  m # Idle =>
    /\ Placing(m) => deposit[m.id].principal = m.amount /\ deposit[m.id].placement = None
    /\ Placing(m) /\ m.pc \in {"raise", "undo"} =>
         \A v \in Vouchers : Raised(v) =>
           m.id \notin Named(v) /\ (m.op = "renew" /\ Live(v) => entry[v].content.from # m.previous)
    /\ Placing(m) /\ m.pc \in {"submit", "link"} =>
         Raised(m.voucher) /\ entry[m.voucher].content.into = m.id
    /\ m.pc = "submit" => CanSubmit(m.voucher)
    /\ m.op = "update" =>
         /\ Present(m.id) /\ m.voucher = deposit[m.id].placement
         /\ m.pc = "write" => m.amount = deposit[m.id].principal \/ PrincipalIsEditable(m.voucher)

RegisterInv ==
  /\ Grounded
  /\ \A d \in Deposits : RowPlaced(d)
  /\ \A v \in Vouchers : Places(v) /\ Settles(v)
  /\ SettlesAlone
  /\ \A r \in Requests : Knows(request[r])

\* The lines of a voucher that was raised.
LEMMA RaisedCoding ==
  ASSUME DepositInv, NEW v \in Vouchers, Raised(v)
  PROVE  /\ entry[v] \in CodedEntry
         /\ entry[v].content.into \in Deposits \cup {None}
         /\ entry[v].content.from \in Deposits \cup {None}
         /\ entry[v].content.debit \in Nat
         /\ Named(v) \subseteq Deposits
<1>1. entry[v] \in CodedEntry
  BY DEF DepositInv, TypeOK, CodedEntry, Raised
<1> QED
  BY <1>1 DEF CodedEntry, Coding, Named

\* What the desk does to the vouchers: none is raised, none comes back to life, and the
\* lines keep their amounts.
DeskForm ==
  /\ \A v \in Vouchers :
       /\ Raised(v)' <=> Raised(v)
       /\ Live(v)' => Live(v)
       /\ Raised(v) => /\ entry'[v].content.into = entry[v].content.into
                       /\ entry'[v].content.from = entry[v].content.from
                       /\ entry'[v].content.debit = entry[v].content.debit
                       /\ entry'[v].content.role \in {entry[v].content.role, "edited"}
  /\ \A p \in posted' : p \in posted \/ (p.voucher \in Vouchers /\ Raised(p.voucher)')

LEMMA DeskChanges ==
  ASSUME DepositInv, DeskStep
  PROVE  DeskForm
<1>0. BooksOK
  BY DEF DepositInv
<1>1. ASSUME NEW v \in Vouchers, NEW from, NEW to \in VoucherStatus, Desk!Become(v, from, to),
             "Absent" \notin from, "Cancelled" \notin from, to # "Absent", entry' = entry,
             posted' = posted \/ posted' = posted \cup {[voucher |-> v, entry |-> entry[v]]}
      PROVE  DeskForm
  <2>1. status[v] \in from /\ status' = [status EXCEPT ![v] = to]
    BY <1>1 DEF Desk!Become
  <2>2. status'[v] = to /\ \A w \in Vouchers \ {v} : status'[w] = status[w]
    BY <1>0, <2>1 DEF BooksOK
  <2>3. Raised(v)' /\ Raised(v) /\ Live(v)
    BY <1>1, <2>1, <2>2 DEF Raised, Live
  <2>4. \A w \in Vouchers : (Raised(w)' <=> Raised(w)) /\ (Live(w)' => Live(w))
    BY <2>2, <2>3 DEF Raised, Live
  <2>5. \A p \in posted' : p \in posted \/ (p.voucher \in Vouchers /\ Raised(p.voucher)')
    BY <1>1, <2>3
  <2> QED
    BY <1>1, <2>4, <2>5 DEF DeskForm
<1>2. ASSUME NEW v \in Vouchers,
             Desk!Submit(v) \/ Desk!Approve(v) \/ Desk!Reject(v) \/ Desk!Cancel(v) \/ Desk!Post(v)
      PROVE  DeskForm
  <2>1. CASE Desk!Submit(v)
    BY <1>1, <2>1 DEF Desk!Submit, VoucherStatus
  <2>2. CASE Desk!Approve(v)
    BY <1>1, <2>2 DEF Desk!Approve, VoucherStatus
  <2>3. CASE Desk!Reject(v)
    BY <1>1, <2>3 DEF Desk!Reject, VoucherStatus
  <2>4. CASE Desk!Cancel(v)
    BY <1>1, <2>4 DEF Desk!Cancel, VoucherStatus
  <2>5. CASE Desk!Post(v)
    BY <1>1, <2>5 DEF Desk!Post, VoucherStatus
  <2> QED
    BY <1>2, <2>1, <2>2, <2>3, <2>4, <2>5
<1>3. ASSUME NEW y \in Years, Desk!CreateYear(y) \/ Desk!OpenYear(y) \/ Desk!CloseYear(y)
      PROVE  DeskForm
  BY <1>3 DEF Desk!CreateYear, Desk!OpenYear, Desk!CloseYear, DeskForm, Raised, Live
<1>4. ASSUME NEW v \in Vouchers, Edit(v) PROVE DeskForm
  <2> DEFINE old == entry[v].content
             new == [old EXCEPT !.role = "edited"]
             e == [entry[v] EXCEPT !.content = new]
  <2>1. status[v] \in {"Draft", "PendingApproval", "Rejected"}
    BY <1>4 DEF Edit
  <2>2. entry[v] \in CodedEntry /\ old \in Coding
    BY <2>1, RaisedCoding DEF Raised, CodedEntry
  <2>3. /\ new.into = old.into /\ new.from = old.from /\ new.debit = old.debit
        /\ new.role = "edited" /\ e.content = new
    BY <2>2 DEF CodedEntry, Coding
  <2>4. /\ status' = [status EXCEPT ![v] = "Draft"] /\ entry' = [entry EXCEPT ![v] = e]
        /\ posted' = posted
    BY <1>4, <2>2 DEF Edit, Desk!Write, Desk!Become, CodedEntry
  <2> HIDE DEF old, new, e
  <2>5. /\ status'[v] = "Draft" /\ entry'[v] = e
        /\ \A w \in Vouchers \ {v} : status'[w] = status[w] /\ entry'[w] = entry[w]
    BY <1>0, <2>4 DEF BooksOK
  <2> QED
    BY <2>1, <2>3, <2>4, <2>5 DEF DeskForm, Raised, Live, old
<1> QED
  BY <1>2, <1>3, <1>4 DEF DeskStep

\* While no handler is in flight, the desk leaves the register as its vouchers say.
LEMMA DeskKeeps ==
  ASSUME DepositInv, RegisterInv, DeskStep, Quiet
  PROVE  RegisterInv'
<1>0. DeskForm
  BY DeskChanges
<1>1. deposit' = deposit /\ request' = request
  BY DEF DeskStep
<1>2. \A r \in Requests : request[r] = Idle /\ ~Placing(request[r])
  BY DEF Quiet, Placing
<1>3. \A v \in Vouchers : Named(v) = {entry[v].content.into, entry[v].content.from} \ {None}
  BY DEF Named
<1>4. \A v \in Vouchers : Live(v) => Raised(v)
  BY DEF Live, Raised
<1>5. Grounded'
  <2>1. \A p \in posted' : p.voucher \in Vouchers /\ Raised(p.voucher)'
    BY <1>0 DEF RegisterInv, Grounded, DeskForm
  <2>2. ASSUME NEW v \in Vouchers, Raised(v)', NEW d \in Named(v)' PROVE deposit'[d].status # "absent"
    BY <1>0, <1>1, <2>2 DEF RegisterInv, Grounded, DeskForm, Named
  <2> QED
    BY <2>1, <2>2 DEF Grounded
<1>6. ASSUME NEW d \in Deposits PROVE RowPlaced(d)'
  BY <1>0, <1>1, <1>2 DEF RegisterInv, RowPlaced, DeskForm, Present
<1>7. ASSUME NEW v \in Vouchers PROVE Places(v)' /\ Settles(v)'
  <2>1. Places(v)'
    BY <1>0, <1>1, <1>2 DEF RegisterInv, Places, DeskForm, Present
  <2>2. Settles(v)'
    BY <1>0, <1>1, <1>2, <1>4 DEF RegisterInv, Settles, DeskForm, At
  <2> QED
    BY <2>1, <2>2
<1>8. SettlesAlone'
  BY <1>0, <1>4 DEF RegisterInv, SettlesAlone, DeskForm
<1>9. \A r \in Requests : Knows(request[r])'
  BY <1>1, <1>2 DEF Knows
<1> QED
  BY <1>5, <1>6, <1>7, <1>8, <1>9 DEF RegisterInv

-----------------------------------------------------------------------------
(* The steps of the only handler *)

\* What the invariant says of the tables, when only one handler can be in flight.
LEMMA OnlyHandler ==
  ASSUME OneHandler, NEW r \in Requests
  PROVE  /\ \A s \in Requests : s = r
         /\ \A d \in Deposits :
              RowPlaced(d) <=>
                (Present(d) /\ deposit[d].source # "opening"
                 /\ (Placing(request[r]) => request[r].id # d) =>
                   /\ deposit[d].placement \in Vouchers /\ Raised(deposit[d].placement)
                   /\ entry[deposit[d].placement].content.into = d)
  BY DEF OneHandler, RowPlaced

\* A step that changes no table, of a handler that has no voucher under way.
LEMMA TablesStand ==
  ASSUME OneHandler, RegisterInv, NEW r \in Requests, books' = books, deposit' = deposit,
         request[r] # Idle => request[r].pc \notin {"submit", "link"},
         Placing(request[r]) => Placing(request[r])' /\ request'[r].id = request[r].id,
         Knows(request[r])'
  PROVE  RegisterInv'
<1>0. status' = status /\ entry' = entry /\ posted' = posted
  BY DEF books
<1>1. \A s \in Requests : s = r
  BY DEF OneHandler
<1>2. Grounded' /\ SettlesAlone'
  BY <1>0 DEF RegisterInv, Grounded, SettlesAlone, Raised, Named, Live
<1>3. ASSUME NEW d \in Deposits PROVE RowPlaced(d)'
  BY <1>0, <1>1 DEF RegisterInv, RowPlaced, Present, Raised
<1>4. ASSUME NEW v \in Vouchers PROVE Places(v)' /\ Settles(v)'
  <2>1. ~(Placing(request[r]) /\ request[r].pc \in {"submit", "link"})
        /\ ~At(r, {"close"}, "submit") /\ ~At(r, {"close"}, "link")
    BY DEF Placing, At
  <2>2. Places(v)'
    BY <1>0, <1>1, <2>1 DEF RegisterInv, Places, Present, Raised, Live
  <2>3. Settles(v)'
    BY <1>0, <1>1, <2>1 DEF RegisterInv, Settles, Live
  <2> QED
    BY <2>2, <2>3
<1> QED
  BY <1>1, <1>2, <1>3, <1>4 DEF RegisterInv

\* A row is loaded.
LEMMA LoadKeeps ==
  ASSUME OneHandler, DepositInv, RegisterInv, NEW r \in Requests,
         RenewLoad(r) \/ CloseLoad(r) \/ InterestLoad(r) \/ UpdateLoad(r) \/ MatureLoad(r)
  PROVE  RegisterInv'
<1>0. books' = books /\ deposit' = deposit /\ request[r] = Idle /\ TypeOK
  BY DEF RenewLoad, CloseLoad, InterestLoad, UpdateLoad, MatureLoad, Accept, DepositInv
<1>1. \A m : Accept(r, m) => request'[r] = m
  BY <1>0 DEF Accept, TypeOK
<1>2. CASE RenewLoad(r) \/ CloseLoad(r) \/ InterestLoad(r) \/ MatureLoad(r)
  <2>1. \/ request'[r].op = "renew" /\ request'[r].pc = "write"
        \/ request'[r].op \in {"close", "interest"} /\ request'[r].pc = "raise"
        \/ request'[r].op = "mature" /\ request'[r].pc = "write"
    <3>1. CASE RenewLoad(r)
      <4>1. PICK d \in Deposits, p \in Principals :
              Accept(r, [Remember("renew", "write", d, p) EXCEPT !.previous = d, !.voucher = None])
        BY <3>1 DEF RenewLoad
      <4>2. request'[r] = [Remember("renew", "write", d, p) EXCEPT !.previous = d, !.voucher = None]
        BY <1>1, <4>1
      <4> QED
        BY <4>2 DEF Remember
    <3>2. CASE CloseLoad(r)
      <4>1. PICK d \in Deposits :
              Accept(r, [Remember("close", "raise", d, deposit[d].principal) EXCEPT !.voucher = None])
        BY <3>2 DEF CloseLoad
      <4>2. request'[r] = [Remember("close", "raise", d, deposit[d].principal) EXCEPT !.voucher = None]
        BY <1>1, <4>1
      <4> QED
        BY <4>2 DEF Remember
    <3>3. CASE InterestLoad(r)
      <4>1. PICK d \in Deposits :
              Accept(r, [Remember("interest", "raise", d, deposit[d].principal) EXCEPT
                           !.voucher = None, !.was = "active"])
        BY <3>3 DEF InterestLoad
      <4>2. request'[r] = [Remember("interest", "raise", d, deposit[d].principal) EXCEPT
                             !.voucher = None, !.was = "active"]
        BY <1>1, <4>1
      <4> QED
        BY <4>2 DEF Remember
    <3>4. CASE MatureLoad(r)
      <4>1. PICK d \in Deposits : Accept(r, Remember("mature", "write", d, deposit[d].principal))
        BY <3>4 DEF MatureLoad
      <4>2. request'[r] = Remember("mature", "write", d, deposit[d].principal)
        BY <1>1, <4>1
      <4> QED
        BY <4>2 DEF Remember
    <3> QED
      BY <1>2, <3>1, <3>2, <3>3, <3>4
  <2>2. Knows(request[r])'
    BY <2>1 DEF Knows, Placing
  <2> QED
    BY <1>0, <2>2, TablesStand DEF Placing
<1>3. CASE UpdateLoad(r)
  <2>1. PICK d, p, pc :
          /\ d \in Deposits /\ p \in Principals
          /\ deposit[d].status = "active"
          /\ pc = IF p = deposit[d].principal THEN "write" ELSE "check"
          /\ Accept(r, Remember("update", pc, d, p))
    BY <1>3 DEF UpdateLoad
  <2>2. Present(d)
    BY <1>0, <2>1, PresentRow DEF Held
  <2>3. /\ request'[r].op = "update" /\ request'[r].pc = pc /\ request'[r].id = d
        /\ request'[r].amount = p /\ request'[r].voucher = deposit[d].placement
    BY <1>1, <2>1 DEF Remember
  <2>4. Knows(request[r])'
    BY <1>0, <2>1, <2>2, <2>3 DEF Knows, Placing, Present
  <2> QED
    BY <1>0, <2>4, TablesStand DEF Placing
<1> QED
  BY <1>2, <1>3

\* A voucher that was just written can be submitted.
LEMMA NotRefused ==
  ASSUME RegisterInv, NEW r \in Requests, request[r] # Idle, request[r].pc = "submit"
  PROVE  CanSubmit(request[r].voucher)
  BY DEF RegisterInv, Knows

\* A check passes or fails, a voucher is refused, a write fails.
LEMMA CheckKeeps ==
  ASSUME OneHandler, SerialInv, RegisterInv, NEW r \in Requests,
         Refused(r) \/ UpdateCheck(r) \/ Fail(r)
  PROVE  RegisterInv'
<1> DEFINE m == request[r]
<1>0. books' = books /\ deposit' = deposit /\ TypeOK /\ m # Idle
  BY DEF Refused, UpdateCheck, Fail, At, SerialInv, DepositInv
<1>1. m \in Memory /\ Knows(m)
  BY <1>0, MemoryRow DEF RegisterInv
<1>2. m.pc \notin {"submit", "link"}
  <2>1. m.pc # "submit"
    BY NotRefused DEF Refused, UpdateCheck, Fail, At
  <2>2. ASSUME At(r, {"close"}, "link") PROVE Present(m.id)
    <3>1. deposit[m.id].status \in Held /\ m.id \in Deposits
      BY <1>0, <2>2, MemoryRow DEF SerialInv, Fresh, At
    <3> QED
      BY <1>0, <3>1, PresentRow
  <2> QED
    BY <2>1, <2>2 DEF Refused, UpdateCheck, Fail, At
<1>3. CASE Finish(r) /\ ~Placing(m)
  <2>1. request'[r] = Idle
    BY <1>0, <1>3 DEF Finish, TypeOK
  <2> QED
    BY <1>0, <1>2, <1>3, <2>1, TablesStand DEF Knows
<1>4. CASE Refused(r) /\ Placing(m)
  <2>1. Advance(r, "undo") /\ m.pc = "raise" /\ m.op \in {"create", "renew"}
    BY <1>2, <1>4 DEF Refused, At, Placing
  <2>2. request'[r] = [m EXCEPT !.pc = "undo"]
    BY <1>0, <2>1 DEF Advance, TypeOK
  <2>3. /\ request'[r].pc = "undo" /\ request'[r].op = m.op /\ request'[r].id = m.id
        /\ request'[r].previous = m.previous /\ request'[r].amount = m.amount
        /\ request'[r] # Idle
    BY <1>1, <2>2 DEF Memory, Idle
  <2>4. Placing(request[r])'
    BY <2>1, <2>3 DEF Placing
  <2>5. Knows(request[r])'
    <3>1. status' = status /\ entry' = entry
      BY <1>0 DEF books
    <3> QED
      BY <1>0, <1>1, <1>4, <2>1, <2>3, <3>1 DEF Knows, Placing, Raised, Live, Named
  <2> QED
    BY <1>0, <1>2, <2>3, <2>4, <2>5, TablesStand
<1>5. CASE UpdateCheck(r)
  <2>1. Advance(r, "write") /\ m.op = "update" /\ PrincipalIsEditable(m.voucher)
    BY <1>5 DEF UpdateCheck, At
  <2>2. request'[r] = [m EXCEPT !.pc = "write"]
    BY <1>0, <2>1 DEF Advance, TypeOK
  <2>3. /\ request'[r].pc = "write" /\ request'[r].op = m.op /\ request'[r].id = m.id
        /\ request'[r].voucher = m.voucher
    BY <1>1, <2>2 DEF Memory
  <2>4. Knows(request[r])'
    <3>1. status' = status
      BY <1>0 DEF books
    <3> QED
      BY <1>0, <1>1, <2>1, <2>3, <3>1 DEF Knows, Placing, Present, PrincipalIsEditable
  <2> QED
    BY <1>0, <1>2, <2>1, <2>4, TablesStand DEF Placing
<1> QED
  <2>1. Refused(r) /\ ~Placing(m) => Finish(r)
    BY <1>2 DEF Refused, At, Placing
  <2>2. Fail(r) => Finish(r) /\ ~Placing(m)
    BY <1>2 DEF Fail, At, Placing
  <2> QED
    BY <1>3, <1>4, <1>5, <2>1, <2>2

\* What vouchers say as long as the books stand.
LEMMA BooksStand ==
  ASSUME OneHandler, RegisterInv, books' = books,
         \A d \in Deposits : deposit[d].status # "absent" => deposit'[d].status # "absent",
         \A v \in Vouchers : Raised(v) => Named(v) \subseteq Deposits
  PROVE  /\ Grounded' /\ SettlesAlone'
         /\ \A v : /\ Raised(v)' <=> Raised(v)
                   /\ Live(v)' <=> Live(v)
                   /\ entry'[v] = entry[v]
                   /\ Named(v)' = Named(v)
<1>1. status' = status /\ entry' = entry /\ posted' = posted
  BY DEF books
<1>2. \A v : /\ Raised(v)' <=> Raised(v)
             /\ Live(v)' <=> Live(v)
             /\ entry'[v] = entry[v]
             /\ Named(v)' = Named(v)
  BY <1>1 DEF Raised, Live, Named
<1>3. Grounded'
  <2>1. \A p \in posted' : p.voucher \in Vouchers /\ Raised(p.voucher)'
    BY <1>1, <1>2 DEF RegisterInv, Grounded
  <2>2. ASSUME NEW v \in Vouchers, Raised(v)', NEW d \in Named(v)' PROVE deposit'[d].status # "absent"
    BY <1>2, <2>2 DEF RegisterInv, Grounded
  <2> QED
    BY <2>1, <2>2 DEF Grounded
<1>4. SettlesAlone'
  BY <1>2 DEF RegisterInv, SettlesAlone
<1> QED
  BY <1>2, <1>3, <1>4

\* A deposit whose handler is done, and the vouchers about it.
Registered(d) ==
  Present(d) /\ deposit[d].source # "opening" =>
    /\ deposit[d].placement \in Vouchers /\ Raised(deposit[d].placement)
    /\ entry[deposit[d].placement].content.into = d

Placed(v) ==
  Raised(v) /\ entry[v].content.role \in {"placement", "renewal"} =>
    LET d == entry[v].content.into
    IN /\ d \in Deposits /\ Present(d) /\ deposit[d].placement = v
       /\ Live(v) => deposit[d].principal = entry[v].content.debit

SettledBy(v) ==
  Live(v) /\ entry[v].content.from # None => deposit[entry[v].content.from].status \in Settled

\* The invariant when the only handler has nothing under way.
LEMMA NothingUnderWay ==
  ASSUME OneHandler, NEW r \in Requests, RegisterInv
  PROVE  /\ \A d \in Deposits : (Placing(request[r]) => d # request[r].id) => Registered(d)
         /\ \A v \in Vouchers :
              /\ ~Placing(request[r]) \/ request[r].pc \notin {"submit", "link"} => Placed(v)
              /\ ~At(r, {"close"}, "submit") /\ ~At(r, {"close"}, "link") => SettledBy(v)
<1>1. \A s \in Requests : s = r
  BY DEF OneHandler
<1>2. ASSUME NEW d \in Deposits, Placing(request[r]) => d # request[r].id PROVE Registered(d)
  BY <1>1, <1>2 DEF RegisterInv, RowPlaced, Registered
<1>3. ASSUME NEW v \in Vouchers, ~Placing(request[r]) \/ request[r].pc \notin {"submit", "link"}
      PROVE  Placed(v)
  BY <1>1, <1>3 DEF RegisterInv, Places, Placed
<1>4. ASSUME NEW v \in Vouchers, ~At(r, {"close"}, "submit"), ~At(r, {"close"}, "link")
      PROVE  SettledBy(v)
  BY <1>1, <1>4 DEF RegisterInv, Settles, SettledBy
<1> QED
  BY <1>2, <1>3, <1>4

\* A handler's last write keeps the invariant if it leaves every deposit registered.
LEMMA Ended ==
  ASSUME OneHandler, DepositInv, RegisterInv, NEW r \in Requests, books' = books, Finish(r),
         \A d \in Deposits : deposit[d].status # "absent" => deposit'[d].status # "absent",
         \A d \in Deposits : Registered(d)',
         \A v \in Vouchers : Placed(v)' /\ SettledBy(v)'
  PROVE  RegisterInv'
<1>0. request'[r] = Idle /\ \A s \in Requests : s = r
  BY DEF Finish, DepositInv, TypeOK, OneHandler
<1>1. Grounded' /\ SettlesAlone'
  BY BooksStand, RaisedCoding
<1>2. ASSUME NEW d \in Deposits PROVE RowPlaced(d)'
  BY DEF RowPlaced, Registered
<1>3. ASSUME NEW v \in Vouchers PROVE Places(v)' /\ Settles(v)'
  BY DEF Places, Placed, Settles, SettledBy
<1>4. \A s \in Requests : Knows(request[s])'
  BY <1>0 DEF Knows
<1> QED
  BY <1>1, <1>2, <1>3, <1>4 DEF RegisterInv

\* What the writes by id put in the row.
LEMMA AmendValues ==
  ASSUME DepositInv, NEW r \in Requests,
         LinkPlacement(r) \/ CloseWrite(r) \/ UpdateWrite(r) \/ MatureWrite(r)
  PROVE  LET m == request[r]
         IN /\ deposit'[m.id].source = deposit[m.id].source
            /\ deposit'[m.id].principal =
                 IF UpdateWrite(r) THEN m.amount ELSE deposit[m.id].principal
            /\ deposit'[m.id].placement =
                 IF LinkPlacement(r) THEN m.voucher ELSE deposit[m.id].placement
<1> DEFINE m == request[r]
           d == m.id
<1>0. TypeOK
  BY DEF DepositInv
<1>1. d \in Deposits /\ Present(d) /\ deposit[d] \in DepositRow
  BY <1>0, AmendForm, PresentRow DEF Amended
<1>2. /\ LinkPlacement(r) => m.pc = "link" /\ m.op \in {"create", "renew"}
      /\ CloseWrite(r) => m.pc = "link" /\ m.op = "close"
      /\ UpdateWrite(r) => m.op = "update"
      /\ MatureWrite(r) => m.op = "mature"
  BY DEF LinkPlacement, CloseWrite, UpdateWrite, MatureWrite, At
<1>3. CASE LinkPlacement(r)
  <2>1. deposit'[d] = [deposit[d] EXCEPT !.placement = m.voucher]
    BY <1>0, <1>1, <1>3 DEF LinkPlacement, TypeOK
  <2> QED
    BY <1>1, <1>2, <1>3, <2>1 DEF DepositRow
<1>4. CASE CloseWrite(r)
  <2>1. deposit'[d] = [deposit[d] EXCEPT !.status = "closed", !.closure = m.voucher]
    BY <1>0, <1>1, <1>4 DEF CloseWrite, TypeOK
  <2> QED
    BY <1>1, <1>2, <1>4, <2>1 DEF DepositRow
<1>5. CASE UpdateWrite(r)
  <2>1. deposit'[d] = [deposit[d] EXCEPT !.principal = m.amount]
    BY <1>0, <1>1, <1>5 DEF UpdateWrite, TypeOK
  <2> QED
    BY <1>1, <1>2, <1>5, <2>1 DEF DepositRow
<1>6. CASE MatureWrite(r)
  <2>1. deposit'[d] = [deposit[d] EXCEPT !.status = "matured"]
    BY <1>0, <1>1, <1>6 DEF MatureWrite, TypeOK
  <2> QED
    BY <1>1, <1>2, <1>6, <2>1 DEF DepositRow
<1> QED
  BY <1>3, <1>4, <1>5, <1>6

\* The link, the closure, the principal and the maturity.
LEMMA AmendKeeps ==
  ASSUME OneHandler, SerialInv, RegisterInv, NEW r \in Requests,
         LinkPlacement(r) \/ CloseWrite(r) \/ UpdateWrite(r) \/ MatureWrite(r)
  PROVE  RegisterInv'
<1> DEFINE m == request[r]
<1>0. DepositInv /\ TypeOK /\ Knows(m) /\ Sound(m) /\ Fresh(m)
  BY DEF SerialInv, DepositInv, RegisterInv, Holding
<1>a. PICK i : i = m.id
  OBVIOUS
<1>1. /\ m # Idle /\ i \in Deposits /\ Finish(r) /\ books' = books
      /\ Present(i) /\ Present(i)' /\ deposit'[i] \in DepositRow
      /\ \A d \in Deposits \ {i} : deposit'[d] = deposit[d]
  <2>1. m # Idle /\ i \in Deposits /\ Amended(i) /\ Finish(r)
    BY <1>0, <1>a, AmendForm
  <2>2. Present(i)'
    <3>1. Gone \cap DepositRow = {}
      BY <1>0, <2>1, PresentRow
    <3> QED
      BY <2>1, <3>1 DEF Amended, Present
  <2>3. books' = books
    BY DEF LinkPlacement, CloseWrite, UpdateWrite, MatureWrite
  <2> QED
    BY <2>1, <2>2, <2>3 DEF Amended
<1>2. /\ deposit'[i].source = deposit[i].source
      /\ deposit'[i].principal = IF UpdateWrite(r) THEN m.amount ELSE deposit[i].principal
      /\ deposit'[i].placement = IF LinkPlacement(r) THEN m.voucher ELSE deposit[i].placement
  BY <1>0, <1>a, AmendValues
<1>3. /\ LinkPlacement(r) \/ UpdateWrite(r) => deposit'[i].status = deposit[i].status
      /\ CloseWrite(r) => deposit'[i].status = "closed"
      /\ MatureWrite(r) => deposit'[i].status = "matured"
  BY <1>0, <1>a, AmendForm
<1>4. /\ LinkPlacement(r) => Placing(m) /\ m.pc = "link"
      /\ CloseWrite(r) => m.op = "close" /\ m.pc = "link" /\ ~Placing(m)
      /\ UpdateWrite(r) => m.op = "update" /\ m.pc = "write" /\ ~Placing(m)
      /\ MatureWrite(r) => m.op = "mature" /\ m.pc = "write" /\ ~Placing(m)
  BY <1>1 DEF LinkPlacement, CloseWrite, UpdateWrite, MatureWrite, At, Placing
<1>5. \A d \in Deposits : deposit[d].status # "absent" => deposit'[d].status # "absent"
  <2>1. deposit'[i].status # "absent"
    BY <1>1 DEF DepositRow, Held, Settled
  <2> QED
    BY <1>1, <2>1
<1>6. \A v : /\ Raised(v)' <=> Raised(v)
             /\ Live(v)' <=> Live(v)
             /\ entry'[v] = entry[v]
  BY <1>0, <1>1, <1>5, BooksStand, RaisedCoding
<1>7. ASSUME NEW d \in Deposits PROVE Registered(d)'
  <2>1. CASE LinkPlacement(r) /\ d = i
    BY <1>0, <1>a, <1>1, <1>2, <1>4, <1>6, <2>1 DEF Registered, Knows, Sound
  <2>2. CASE ~(LinkPlacement(r) /\ d = i)
    <3>1. Registered(d)
      BY <1>a, <1>4, <2>2, NothingUnderWay
    <3>2. (Present(d)' <=> Present(d)) /\ deposit'[d].source = deposit[d].source
          /\ deposit'[d].placement = deposit[d].placement
      <4>1. CASE d = i
        BY <1>1, <1>2, <2>2, <4>1
      <4>2. CASE d # i
        BY <1>1, <4>2 DEF Present
      <4> QED
        BY <4>1, <4>2
    <3> QED
      BY <1>6, <3>1, <3>2 DEF Registered
  <2> QED
    BY <2>1, <2>2
<1>8. ASSUME NEW v \in Vouchers PROVE Placed(v)'
  <2> SUFFICES ASSUME Raised(v), entry[v].content.role \in {"placement", "renewal"}
               PROVE  Placed(v)'
    BY <1>6 DEF Placed
  <2>0. PICK d : d = entry[v].content.into
    OBVIOUS
  <2> SUFFICES /\ d \in Deposits /\ deposit'[d] \notin Gone /\ deposit'[d].placement = v
               /\ Live(v) => deposit'[d].principal = entry[v].content.debit
    BY <1>6, <2>0 DEF Placed, Present
  <2>1. CASE LinkPlacement(r)
    <3>1. /\ d \in Deposits /\ Present(d)
          /\ Live(v) => deposit[d].principal = entry[v].content.debit
          /\ deposit[d].placement = v \/ (i = d /\ m.voucher = v)
      BY <1>a, <2>0, OnlyHandler DEF RegisterInv, Places
    <3>2. deposit[i].placement = None
      BY <1>0, <1>a, <1>1, <1>4, <2>1 DEF Knows
    <3>3. None \notin Vouchers
      BY NoneAssumption
    <3>4. ~UpdateWrite(r)
      BY <1>4, <2>1
    <3>5. CASE d = i
      BY <1>a, <1>1, <1>2, <2>0, <2>1, <3>1, <3>2, <3>3, <3>4, <3>5 DEF Present
    <3>6. CASE d # i
      <4>1. deposit'[d] = deposit[d] /\ Present(d)'
        BY <1>1, <3>1, <3>6 DEF Present
      <4> QED
        BY <2>0, <2>1, <3>1, <3>3, <3>6, <4>1 DEF Present
    <3> QED
      BY <3>5, <3>6
  <2>2. CASE ~LinkPlacement(r)
    <3>1. /\ d \in Deposits /\ Present(d) /\ deposit[d].placement = v
          /\ Live(v) => deposit[d].principal = entry[v].content.debit
      BY <1>4, <2>0, <2>2, NothingUnderWay DEF Placed
    <3>2. CASE d # i
      <4>1. deposit'[d] = deposit[d] /\ Present(d)'
        BY <1>1, <3>1, <3>2 DEF Present
      <4> QED
        BY <2>0, <3>1, <4>1 DEF Present
    <3>3. CASE d = i
      <4>1. Present(d)' /\ deposit'[d].placement = v
        BY <1>1, <1>2, <2>2, <3>1, <3>3
      <4>2. Live(v) /\ UpdateWrite(r) => m.amount = deposit[i].principal
        <5>1. UpdateWrite(r) => m.amount = deposit[i].principal \/ PrincipalIsEditable(v)
          BY <1>0, <1>a, <1>1, <1>4, <3>1, <3>3 DEF Knows
        <5>2. Live(v) => ~PrincipalIsEditable(v)
          BY NoneAssumption DEF PrincipalIsEditable, Live
        <5> QED
          BY <5>1, <5>2
      <4>3. Live(v) => deposit'[d].principal = deposit[d].principal
        BY <1>2, <3>3, <4>2
      <4> QED
        BY <2>0, <3>1, <4>1, <4>3 DEF Present
    <3> QED
      BY <3>2, <3>3
  <2> QED
    BY <2>1, <2>2
<1>9. ASSUME NEW v \in Vouchers PROVE SettledBy(v)'
  <2> SUFFICES ASSUME Live(v), entry[v].content.from # None
               PROVE  deposit'[entry[v].content.from].status \in Settled
    BY <1>6 DEF SettledBy
  <2>0. PICK d : d = entry[v].content.from
    OBVIOUS
  <2>1. d \in Deposits
    BY <1>0, <2>0, RaisedCoding DEF Live, Raised
  <2>2. CASE CloseWrite(r) /\ d = i
    BY <1>3, <2>0, <2>2 DEF Settled
  <2>3. CASE CloseWrite(r) /\ d # i
    <3>1. deposit[d].status \in Settled
      BY <1>a, <2>0, <2>3, OnlyHandler DEF RegisterInv, Settles
    <3> QED
      BY <1>1, <2>0, <2>1, <2>3, <3>1
  <2>4. CASE ~CloseWrite(r)
    <3>1. ~At(r, {"close"}, "submit") /\ ~At(r, {"close"}, "link")
      BY <1>4, <2>4 DEF At, Placing
    <3>2. deposit[d].status \in Settled
      BY <2>0, <3>1, NothingUnderWay DEF SettledBy
    <3>3. MatureWrite(r) => d # i
      BY <1>0, <1>a, <1>1, <1>4, <3>2 DEF Fresh, Settled
    <3> QED
      BY <1>1, <1>3, <2>0, <2>1, <2>4, <3>2, <3>3
  <2> QED
    BY <2>2, <2>3, <2>4
<1> QED
  BY <1>0, <1>1, <1>5, <1>7, <1>8, <1>9, Ended

\* Taking a row out leaves what the others hold.
LEMMA DeleteValues ==
  ASSUME TypeOK, NEW d \in Deposits, NEW e \in Deposits \ {d}, Present(e)
  PROVE  LET row == Delete(deposit, d)[e]
         IN /\ row \in DepositRow /\ row.status = deposit[e].status
            /\ row.source = deposit[e].source /\ row.principal = deposit[e].principal
            /\ row.placement = deposit[e].placement
<1>1. deposit[e] \in DepositRow
  BY PresentRow
<1>2. CASE deposit[e].renewedFrom = d
  <2>1. Delete(deposit, d)[e] = [deposit[e] EXCEPT !.renewedFrom = None]
    BY <1>2 DEF Delete, Present
  <2> QED
    BY <1>1, <2>1 DEF DepositRow
<1>3. CASE deposit[e].renewedFrom # d
  <2>1. Delete(deposit, d)[e] = deposit[e]
    BY <1>3 DEF Delete, Present
  <2> QED
    BY <1>1, <2>1
<1> QED
  BY <1>2, <1>3

\* What a compensation does to the register.
Undone(r) ==
  LET m == request[r]
  IN /\ m.op = "renew" => /\ m.previous \in Deposits /\ m.previous # m.id
                          /\ Present(m.previous) /\ deposit[m.previous].status = "renewed"
     /\ deposit'[m.id] \in Gone
     /\ \A d \in Deposits \ {m.id} :
          /\ Present(d)' <=> Present(d)
          /\ Present(d) => /\ deposit'[d].source = deposit[d].source
                           /\ deposit'[d].principal = deposit[d].principal
                           /\ deposit'[d].placement = deposit[d].placement
                           /\ deposit'[d].status = IF m.op = "renew" /\ d = m.previous THEN m.was
                                                   ELSE deposit[d].status
          /\ ~Present(d) => deposit'[d] = deposit[d]

\* A compensation finds a row no voucher names, and removes it.
LEMMA UndoValues ==
  ASSUME OneHandler, SerialInv, RegisterInv, NEW r \in Requests, UndoCreate(r) \/ UndoRenewal(r)
  PROVE  Undone(r)
<1> DEFINE m == request[r]
<1>0. /\ DepositInv /\ TypeOK /\ Knows(m) /\ Sound(m) /\ Fresh(m) /\ Kept(m) /\ Linked
      /\ Finish(r) /\ books' = books
  BY DEF SerialInv, DepositInv, RegisterInv, Holding, UndoCreate, UndoRenewal
<1>a. PICK i, p : i = m.id /\ p = m.previous
  OBVIOUS
<1>1. m # Idle /\ m.pc = "undo" /\ Placing(m) /\ i \in Deposits /\ m.was \in Held
  BY <1>0, <1>a, MemoryRow DEF UndoCreate, UndoRenewal, At, Placing
<1>2. \A v \in Vouchers : Raised(v) => i \notin Named(v)
  BY <1>0, <1>a, <1>1 DEF Knows
<1>3. Deletable(i)
  BY <1>2 DEF Deletable, RegisterInv, Grounded
<1>4. m.op = "renew" => p \in Deposits /\ p # i /\ Present(p) /\ deposit[p].status = "renewed"
  <2>1. ASSUME m.op = "renew" PROVE p \in Deposits /\ p # i /\ deposit[p].status = "renewed"
    BY <1>0, <1>a, <1>1, <2>1, NoneAssumption DEF Sound, Kept, Fresh, Linked
  <2> QED
    BY <1>0, <2>1, PresentRow DEF Settled
<1>5. /\ ~Present(i)'
      /\ \A d \in Deposits \ {i} :
           /\ Present(d)' <=> Present(d)
           /\ Present(d) => /\ deposit'[d].source = deposit[d].source
                            /\ deposit'[d].principal = deposit[d].principal
                            /\ deposit'[d].placement = deposit[d].placement
                            /\ deposit'[d].status = IF m.op = "renew" /\ d = p THEN m.was
                                                    ELSE deposit[d].status
           /\ ~Present(d) => deposit'[d] = deposit[d]
  <2> DEFINE gone == Delete(deposit, i)
  <2>1. /\ gone[i] \in Gone /\ gone \in [Deposits -> Gone \cup DepositRow]
        /\ \A d \in Deposits \ {i} : ~Present(d) => gone[d] = deposit[d]
    BY <1>0, <1>1, DeleteForm
  <2>2. \A d \in Deposits \ {i} : Present(d) =>
          /\ gone[d] \in DepositRow /\ gone[d].status = deposit[d].status
          /\ gone[d].source = deposit[d].source /\ gone[d].principal = deposit[d].principal
          /\ gone[d].placement = deposit[d].placement
    BY <1>0, <1>1, DeleteValues
  <2>3. Gone \cap DepositRow = {}
    BY <1>0, <1>1, PresentRow
  <2>4. CASE m.op = "create"
    <3>1. deposit' = gone
      BY <1>a, <1>3, <2>4 DEF UndoCreate, UndoRenewal, At
    <3> QED
      BY <2>1, <2>2, <2>3, <2>4, <3>1 DEF Present
  <2>5. CASE m.op = "renew"
    <3>1. deposit' = [gone EXCEPT ![p].status = m.was]
      BY <1>a, <1>3, <1>4, <2>5 DEF UndoCreate, UndoRenewal, At
    <3>2. gone[p] \in DepositRow
      BY <1>4, <2>2, <2>5
    <3> DEFINE row == [gone[p] EXCEPT !.status = m.was]
    <3>3. /\ row \in DepositRow /\ row.status = m.was /\ row.source = gone[p].source
          /\ row.principal = gone[p].principal /\ row.placement = gone[p].placement
      BY <1>1, <3>2 DEF DepositRow
    <3>4. deposit' = [gone EXCEPT ![p] = row]
      BY <1>4, <2>1, <2>5, <3>1
    <3> HIDE DEF row, gone
    <3>5. deposit'[p] = row /\ \A d \in Deposits \ {p} : deposit'[d] = gone[d]
      BY <1>4, <2>1, <2>5, <3>4
    <3>6. ~Present(i)'
      BY <1>1, <1>4, <2>1, <2>5, <3>5 DEF Present
    <3>7. ASSUME NEW d \in Deposits \ {i}, d # p
          PROVE  /\ Present(d)' <=> Present(d)
                 /\ Present(d) => /\ deposit'[d].source = deposit[d].source
                                  /\ deposit'[d].principal = deposit[d].principal
                                  /\ deposit'[d].placement = deposit[d].placement
                                  /\ deposit'[d].status = deposit[d].status
                 /\ ~Present(d) => deposit'[d] = deposit[d]
      BY <2>1, <2>2, <2>3, <3>5, <3>7 DEF Present
    <3>8. /\ Present(p)' /\ Present(p)
          /\ deposit'[p].source = deposit[p].source /\ deposit'[p].principal = deposit[p].principal
          /\ deposit'[p].placement = deposit[p].placement /\ deposit'[p].status = m.was
      BY <1>4, <2>2, <2>3, <2>5, <3>3, <3>5 DEF Present
    <3> QED
      BY <2>5, <3>6, <3>7, <3>8
  <2> QED
    BY <1>1, <2>4, <2>5 DEF Placing
<1> QED
  BY <1>a, <1>4, <1>5 DEF Undone, Present

\* It keeps the invariant.
LEMMA UndoKeeps ==
  ASSUME OneHandler, SerialInv, RegisterInv, NEW r \in Requests, UndoCreate(r) \/ UndoRenewal(r)
  PROVE  RegisterInv'
<1> DEFINE m == request[r]
<1>0. /\ DepositInv /\ TypeOK /\ Knows(m) /\ Sound(m) /\ Fresh(m) /\ Kept(m) /\ Linked
      /\ Finish(r) /\ books' = books
  BY DEF SerialInv, DepositInv, RegisterInv, Holding, UndoCreate, UndoRenewal
<1>a. PICK i, p : i = m.id /\ p = m.previous
  OBVIOUS
<1>1. m # Idle /\ m.pc = "undo" /\ Placing(m) /\ i \in Deposits /\ m.was \in Held
  BY <1>0, <1>a, MemoryRow DEF UndoCreate, UndoRenewal, At, Placing
<1>2. \A v \in Vouchers : Raised(v) => i \notin Named(v)
  BY <1>0, <1>a, <1>1 DEF Knows
<1>3. Deletable(i)
  BY <1>2 DEF Deletable, RegisterInv, Grounded
<1>4. m.op = "renew" => p \in Deposits /\ p # i /\ Present(p) /\ deposit[p].status = "renewed"
  BY <1>a, UndoValues DEF Undone
<1>5. /\ ~Present(i)'
      /\ \A d \in Deposits \ {i} :
           /\ Present(d)' <=> Present(d)
           /\ Present(d) => /\ deposit'[d].source = deposit[d].source
                            /\ deposit'[d].principal = deposit[d].principal
                            /\ deposit'[d].placement = deposit[d].placement
                            /\ deposit'[d].status = IF m.op = "renew" /\ d = p THEN m.was
                                                    ELSE deposit[d].status
           /\ ~Present(d) => deposit'[d] = deposit[d]
  BY <1>a, UndoValues DEF Undone, Present
<1>6. \A d \in Deposits : deposit[d].status # "absent" => deposit'[d].status # "absent"
  <2>1. deposit'[i].status # "absent"
    <3>1. Delete(deposit, i)[i].status = "deleted"
      BY <1>1 DEF Delete
    <3>2. deposit'[i] = Delete(deposit, i)[i]
      <4>1. Delete(deposit, i) \in [Deposits -> Gone \cup DepositRow]
        BY <1>0, <1>1, DeleteForm
      <4> QED
        BY <1>a, <1>1, <1>3, <1>4, <4>1 DEF UndoCreate, UndoRenewal, At
    <3> QED
      BY <3>1, <3>2
  <2>2. m.was # "absent"
    BY <1>1 DEF Held
  <2> QED
    BY <1>5, <2>1, <2>2
<1>7. \A v : /\ Raised(v)' <=> Raised(v)
             /\ Live(v)' <=> Live(v)
             /\ entry'[v] = entry[v]
  BY <1>0, <1>6, BooksStand, RaisedCoding
<1>8. ASSUME NEW d \in Deposits PROVE Registered(d)'
  <2>1. CASE d = i
    BY <1>5, <2>1 DEF Registered
  <2>2. CASE d # i
    <3>1. Registered(d)
      BY <1>a, <2>2, NothingUnderWay
    <3> QED
      BY <1>5, <1>7, <2>2, <3>1 DEF Registered
  <2> QED
    BY <2>1, <2>2
<1>9. ASSUME NEW v \in Vouchers PROVE Placed(v)' /\ SettledBy(v)'
  <2>1. Placed(v) /\ SettledBy(v)
    BY <1>1, NothingUnderWay DEF At
  <2>2. Placed(v)'
    <3> SUFFICES ASSUME Raised(v), entry[v].content.role \in {"placement", "renewal"}
                 PROVE  Placed(v)'
      BY <1>7 DEF Placed
    <3>1. PICK d : d = entry[v].content.into
      OBVIOUS
    <3>2. d \in Deposits /\ Present(d) /\ deposit[d].placement = v
          /\ (Live(v) => deposit[d].principal = entry[v].content.debit)
      BY <2>1, <3>1 DEF Placed
    <3>3. d # i
      BY <1>2, <3>1, <3>2, NoneAssumption DEF Named
    <3> QED
      BY <1>5, <1>7, <3>1, <3>2, <3>3 DEF Placed
  <2>3. SettledBy(v)'
    <3> SUFFICES ASSUME Live(v), entry[v].content.from # None PROVE SettledBy(v)'
      BY <1>7 DEF SettledBy
    <3>1. PICK d : d = entry[v].content.from
      OBVIOUS
    <3>2. Raised(v)
      BY DEF Raised, Live
    <3>3. d \in Deposits /\ deposit[d].status \in Settled
      BY <1>0, <2>1, <3>1, <3>2, RaisedCoding DEF SettledBy
    <3>4. d # i /\ (m.op = "renew" => d # p)
      BY <1>0, <1>a, <1>1, <1>2, <3>1, <3>2 DEF Knows, Named
    <3>5. Present(d)
      BY <1>0, <3>3, PresentRow
    <3>6. deposit'[d].status \in Settled
      BY <1>5, <3>3, <3>4, <3>5
    <3> QED
      BY <1>7, <3>1, <3>6 DEF SettledBy
  <2> QED
    BY <2>2, <2>3
<1> QED
  BY <1>0, <1>6, <1>8, <1>9, Ended

\* A row is put in the register by a handler that had nothing under way.
LEMMA InsertKeeps ==
  ASSUME OneHandler, DepositInv, RegisterInv, NEW r \in Requests, NEW d \in Deposits,
         books' = books, request[r] # Idle => request[r].op = "renew" /\ request[r].pc = "write",
         deposit[d].status = "absent", deposit'[d] \in DepositRow,
         \A e \in Deposits \ {d} :
           /\ Present(e)' <=> Present(e)
           /\ Present(e) => /\ deposit'[e].source = deposit[e].source
                            /\ deposit'[e].principal = deposit[e].principal
                            /\ deposit'[e].placement = deposit[e].placement
                            /\ deposit'[e].status \in {deposit[e].status, "renewed"}
           /\ ~Present(e) => deposit'[e] = deposit[e],
         \/ request'[r] = Idle /\ deposit'[d].source = "opening"
         \/ /\ Placing(request'[r]) /\ request'[r].pc = "raise" /\ request'[r].id = d
            /\ deposit'[d].principal = request'[r].amount /\ deposit'[d].placement = None
            /\ request'[r].op = "renew" =>
                 request'[r].previous \in Deposits /\ deposit[request'[r].previous].status \in Held
  PROVE  RegisterInv'
<1>0. TypeOK /\ ~Placing(request[r]) /\ ~At(r, {"close"}, "submit") /\ ~At(r, {"close"}, "link")
  BY DEF DepositInv, Placing, At
<1>1. \A s \in Requests : s = r
  BY DEF OneHandler
<1>2. \A e \in Deposits : deposit[e].status # "absent" => deposit'[e].status # "absent"
  OBVIOUS
<1>3. /\ Grounded' /\ SettlesAlone'
      /\ \A v : /\ Raised(v)' <=> Raised(v)
                /\ Live(v)' <=> Live(v)
                /\ entry'[v] = entry[v]
                /\ Named(v)' = Named(v)
  BY <1>2, BooksStand, RaisedCoding
<1>4. \A v \in Vouchers : Raised(v) => d \notin Named(v)
  BY DEF RegisterInv, Grounded
<1>5. \A v \in Vouchers : Placed(v) /\ SettledBy(v)
  BY <1>0, NothingUnderWay
<1>6. ASSUME NEW e \in Deposits PROVE RowPlaced(e)'
  <2>1. CASE e = d
    BY <1>1, <2>1 DEF RowPlaced
  <2>2. CASE e # d
    <3>1. Registered(e)
      BY <1>0, NothingUnderWay
    <3> QED
      BY <1>3, <2>2, <3>1 DEF RowPlaced, Registered
  <2> QED
    BY <2>1, <2>2
<1>7. ASSUME NEW v \in Vouchers PROVE Places(v)' /\ Settles(v)'
  <2>1. Places(v)'
    <3> SUFFICES ASSUME Raised(v), entry[v].content.role \in {"placement", "renewal"}
                 PROVE  Places(v)'
      BY <1>3 DEF Places
    <3>1. PICK e : e = entry[v].content.into
      OBVIOUS
    <3>2. e \in Deposits /\ Present(e) /\ deposit[e].placement = v
          /\ (Live(v) => deposit[e].principal = entry[v].content.debit)
      BY <1>5, <3>1 DEF Placed
    <3>3. e # d
      BY <1>4, <3>1, <3>2, NoneAssumption DEF Named
    <3> QED
      BY <1>3, <3>1, <3>2, <3>3 DEF Places
  <2>2. Settles(v)'
    <3> SUFFICES ASSUME Live(v), entry[v].content.from # None PROVE Settles(v)'
      BY <1>3 DEF Settles
    <3>1. PICK e : e = entry[v].content.from
      OBVIOUS
    <3>2. Raised(v)
      BY DEF Raised, Live
    <3>3. e \in Deposits /\ deposit[e].status \in Settled /\ e # d
      BY <1>4, <1>5, <3>1, <3>2, RaisedCoding DEF SettledBy, Named
    <3>4. deposit'[e].status \in Settled
      <4>1. Present(e)
        BY <1>0, <3>3, PresentRow
      <4> QED
        BY <3>3, <4>1 DEF Settled
    <3> QED
      BY <1>3, <3>1, <3>4 DEF Settles
  <2> QED
    BY <2>1, <2>2
<1>8. \A s \in Requests : Knows(request[s])'
  <2>1. CASE request'[r] = Idle
    BY <1>1, <2>1 DEF Knows
  <2>2. CASE request'[r] # Idle
    <3>1. PICK n : n = request'[r]
      OBVIOUS
    <3>2. /\ n.pc = "raise" /\ n.op \in {"create", "renew"} /\ n.id = d
          /\ deposit'[d].principal = n.amount /\ deposit'[d].placement = None
          /\ n.op = "renew" => n.previous \in Deposits /\ deposit[n.previous].status \in Held
      BY <2>2, <3>1 DEF Placing
    <3>3. ASSUME NEW v \in Vouchers, Raised(v), n.op = "renew", Live(v)
          PROVE  entry[v].content.from # n.previous
      <4>1. n.previous # None /\ deposit[n.previous].status \notin Settled
        BY <3>2, <3>3, NoneAssumption DEF Held, Settled
      <4> QED
        BY <1>5, <3>3, <4>1 DEF SettledBy
    <3>4. \A v \in Vouchers : Raised(v)' =>
            n.id \notin Named(v)' /\ (n.op = "renew" /\ Live(v)' => entry'[v].content.from # n.previous)
      BY <1>3, <1>4, <3>2, <3>3
    <3>5. n.pc \notin {"submit", "link"} /\ n.op # "update"
      BY <3>2
    <3>6. Knows(request[r])'
      BY <3>1, <3>2, <3>4, <3>5 DEF Knows
    <3> QED
      BY <1>1, <3>6
  <2> QED
    BY <2>1, <2>2
<1> QED
  BY <1>3, <1>6, <1>7, <1>8 DEF RegisterInv

\* What create and the transaction of renew do to the register.
Puts(r, d) ==
  /\ books' = books /\ (request[r] # Idle => request[r].op = "renew" /\ request[r].pc = "write")
  /\ deposit[d].status = "absent" /\ deposit'[d] \in DepositRow
  /\ deposit'[d].status = "active" /\ deposit'[d].placement = None
  /\ \A e \in Deposits \ {d} :
       /\ Present(e)' <=> Present(e)
       /\ Present(e) => /\ deposit'[e].source = deposit[e].source
                        /\ deposit'[e].principal = deposit[e].principal
                        /\ deposit'[e].placement = deposit[e].placement
                        /\ \/ deposit'[e].status = deposit[e].status
                           \/ /\ deposit'[e].status = "renewed"
                              /\ request'[r] # Idle
                              /\ request'[r].op = "renew" /\ request'[r].previous = e
       /\ ~Present(e) => deposit'[e] = deposit[e]
  /\ \/ request'[r] = Idle /\ deposit'[d].source = "opening"
     \/ /\ Placing(request'[r]) /\ request'[r].pc = "raise" /\ request'[r].id = d
        /\ deposit'[d].principal = request'[r].amount /\ deposit'[d].source # "opening"
        /\ request'[r].op = "renew" =>
             /\ request'[r].previous \in Deposits
             /\ deposit[request'[r].previous].status \in Held
             /\ request[r] # Idle /\ request'[r].previous = request[r].previous
             /\ request'[r].owed = request[r].owed

\* create.
LEMMA CreatePuts ==
  ASSUME DepositInv, NEW r \in Requests, Create(r)
  PROVE  \E d \in Deposits : Puts(r, d)
<1>0. TypeOK /\ books' = books /\ request[r] = Idle
  BY DEF DepositInv, Create
<1>1. PICK d \in Deposits, body \in Placement :
        /\ deposit[d].status = "absent"
        /\ deposit' = [deposit EXCEPT ![d] = New(body.source, body.principal, None)]
        /\ IF body.source = "opening"
           THEN UNCHANGED request
           ELSE Accept(r, [op |-> "create", pc |-> "raise", id |-> d,
                           amount |-> body.principal, previous |-> None,
                           owed |-> body.principal, was |-> "active", voucher |-> None])
  BY DEF Create
<1>2. /\ deposit'[d] \in DepositRow /\ deposit'[d].source = body.source
      /\ deposit'[d].principal = body.principal /\ deposit'[d].placement = None
      /\ deposit'[d].status = "active"
      /\ \A e \in Deposits \ {d} : deposit'[e] = deposit[e]
  <2>1. body.source \in {"bank", "endowment", "opening"} /\ body.principal \in Principals
    BY DEF Placement
  <2>2. deposit'[d] = New(body.source, body.principal, None)
        /\ \A e \in Deposits \ {d} : deposit'[e] = deposit[e]
    BY <1>0, <1>1 DEF TypeOK
  <2> QED
    BY <2>1, <2>2 DEF New, DepositRow, Held
<1>3. \/ request'[r] = Idle /\ deposit'[d].source = "opening"
      \/ /\ Placing(request'[r]) /\ request'[r].pc = "raise" /\ request'[r].id = d
         /\ deposit'[d].principal = request'[r].amount /\ deposit'[d].source # "opening"
         /\ request'[r].op = "create"
  <2>1. CASE body.source = "opening"
    BY <1>0, <1>1, <1>2, <2>1
  <2>2. CASE body.source # "opening"
    <3>1. request'[r] = [op |-> "create", pc |-> "raise", id |-> d,
                         amount |-> body.principal, previous |-> None,
                         owed |-> body.principal, was |-> "active", voucher |-> None]
      BY <1>0, <1>1, <2>2 DEF Accept, TypeOK
    <3>2. /\ request'[r].op = "create" /\ request'[r].pc = "raise" /\ request'[r].id = d
          /\ request'[r].amount = body.principal /\ request'[r] # Idle
      BY <3>1 DEF Idle
    <3> QED
      BY <1>2, <2>2, <3>2 DEF Placing
  <2> QED
    BY <2>1, <2>2
<1> QED
  BY <1>0, <1>1, <1>2, <1>3 DEF Present, Puts

\* The transaction of renew.
LEMMA RenewPuts ==
  ASSUME SerialInv, NEW r \in Requests, RenewWrite(r)
  PROVE  \E d \in Deposits : Puts(r, d)
<1> DEFINE m == request[r]
<1>0. DepositInv /\ TypeOK /\ books' = books /\ m # Idle /\ m.op = "renew" /\ m.pc = "write" /\ Fresh(m)
  BY DEF SerialInv, DepositInv, RenewWrite, At
<1>a. PICK p : p = m.previous
  OBVIOUS
<1>1. m \in Memory /\ m.amount \in Principals /\ p \in Deposits /\ deposit[p].status \in Held
  BY <1>0, <1>a, MemoryRow DEF DepositInv, Holding, Sound, Fresh
<1>2. Present(p) /\ deposit[p] \in DepositRow
  BY <1>0, <1>1, PresentRow
<1>3. PICK d \in Deposits :
        /\ deposit[d].status = "absent"
        /\ deposit' = [deposit EXCEPT ![p].status = "renewed", ![d] = New("renewal", m.amount, p)]
        /\ request' = [request EXCEPT ![r].pc = "raise", ![r].id = d]
  BY <1>a DEF RenewWrite
<1>4. d # p
  BY <1>1, <1>3 DEF Held
<1> DEFINE old == [deposit[p] EXCEPT !.status = "renewed"]
           row == New("renewal", m.amount, p)
           new == [m EXCEPT !.pc = "raise", !.id = d]
<1>5. /\ old \in DepositRow /\ old.status = "renewed" /\ old.source = deposit[p].source
      /\ old.principal = deposit[p].principal /\ old.placement = deposit[p].placement
  BY <1>2 DEF DepositRow, Settled
<1>6. /\ row \in DepositRow /\ row.principal = m.amount /\ row.placement = None
      /\ row.status = "active" /\ row.source = "renewal"
  BY <1>1 DEF New, DepositRow, Held
<1>7. /\ new.op = "renew" /\ new.pc = "raise" /\ new.id = d /\ new.previous = p
      /\ new.amount = m.amount /\ new.owed = m.owed /\ new # Idle
  BY <1>0, <1>a, <1>1 DEF Memory, Idle
<1>8. request'[r] = new
  BY <1>0, <1>3 DEF TypeOK
<1>9. deposit' = [deposit EXCEPT ![p] = old, ![d] = row]
  BY <1>0, <1>1, <1>3, <1>4 DEF TypeOK
<1> HIDE DEF old, row, new
<1>10. deposit'[p] = old /\ deposit'[d] = row /\ \A e \in Deposits \ {p, d} : deposit'[e] = deposit[e]
  BY <1>0, <1>1, <1>4, <1>9 DEF TypeOK
<1>11. Gone \cap DepositRow = {}
  BY <1>0, <1>1, PresentRow
<1>12. ASSUME NEW e \in Deposits \ {d}
       PROVE  /\ Present(e)' <=> Present(e)
              /\ Present(e) => /\ deposit'[e].source = deposit[e].source
                               /\ deposit'[e].principal = deposit[e].principal
                               /\ deposit'[e].placement = deposit[e].placement
                               /\ \/ deposit'[e].status = deposit[e].status
                                  \/ deposit'[e].status = "renewed" /\ e = p
              /\ ~Present(e) => deposit'[e] = deposit[e]
  <2>1. CASE e = p
    BY <1>2, <1>5, <1>10, <1>11, <2>1 DEF Present
  <2>2. CASE e # p
    BY <1>10, <2>2 DEF Present
  <2> QED
    BY <2>1, <2>2
<1>13. /\ Placing(request'[r]) /\ request'[r].pc = "raise" /\ request'[r].id = d
       /\ deposit'[d].principal = request'[r].amount /\ deposit'[d].source # "opening"
       /\ request'[r].op = "renew" /\ request'[r].previous = p /\ p = request[r].previous
       /\ deposit[p].status \in Held /\ request'[r].owed = request[r].owed
  BY <1>a, <1>1, <1>6, <1>7, <1>8, <1>10 DEF Placing
<1>14. /\ books' = books /\ request[r] # Idle /\ request[r].op = "renew" /\ request[r].pc = "write"
       /\ deposit[d].status = "absent" /\ deposit'[d] \in DepositRow
       /\ deposit'[d].status = "active" /\ deposit'[d].placement = None
  BY <1>0, <1>3, <1>6, <1>10
<1>15. ASSUME NEW e \in Deposits \ {d}, Present(e)
       PROVE  \/ deposit'[e].status = deposit[e].status
              \/ /\ deposit'[e].status = "renewed"
                 /\ request'[r] # Idle
                 /\ request'[r].op = "renew" /\ request'[r].previous = e
  BY <1>12, <1>13, <1>15 DEF Placing
<1> QED
  BY <1>1, <1>12, <1>13, <1>14, <1>15 DEF Puts

\* Both keep the invariant.
LEMMA PutKeeps ==
  ASSUME OneHandler, SerialInv, RegisterInv, NEW r \in Requests, Create(r) \/ RenewWrite(r)
  PROVE  RegisterInv'
<1>1. DepositInv
  BY DEF SerialInv
<1>2. PICK d \in Deposits : Puts(r, d)
  BY <1>1, CreatePuts, RenewPuts
<1>3. deposit'[d].placement = None
  BY <1>2 DEF Puts
<1> QED
  BY <1>1, <1>2, <1>3, InsertKeeps DEF Puts

\* The lines a handler puts on its voucher.
LEMMA CodingLines ==
  ASSUME NEW m, m.op \in {"create", "renew", "close", "interest"}
  PROVE  LET c == CodingOf(m)
         IN /\ c.role \in {"placement", "renewal"} <=> m.op \in {"create", "renew"}
            /\ m.op \in {"create", "renew"} => c.into = m.id /\ c.debit = m.amount
            /\ m.op = "renew" => c.from = m.previous /\ c.credit = m.owed
            /\ m.op = "close" => c.from = m.id /\ c.credit = m.owed /\ c.into = None
            /\ m.op = "interest" => c.into = m.id
            /\ m.op \in {"create", "interest"} => c.from = None
            /\ c.role = "interest" => c.debit = 0
            /\ c.role = "closure" => c.into = None
<1>1. CASE m.op = "create"
  BY <1>1 DEF CodingOf, Lines
<1>2. CASE m.op = "renew"
  BY <1>2 DEF CodingOf, Lines
<1>3. CASE m.op = "close"
  BY <1>3 DEF CodingOf, Lines
<1>4. CASE m.op = "interest"
  BY <1>4 DEF CodingOf, Lines
<1> QED
  BY <1>1, <1>2, <1>3, <1>4

\* The first half of raiseForApproval.
LEMMA DraftKeeps ==
  ASSUME OneHandler, SerialInv, RegisterInv, NEW r \in Requests, RaiseDraft(r)
  PROVE  RegisterInv'
<1>0. DepositInv /\ TypeOK /\ BooksOK /\ deposit' = deposit /\ Linked
  BY DEF SerialInv, DepositInv, RaiseDraft
<1>1. PICK m : m = request[r]
  OBVIOUS
<1>2. /\ m # Idle /\ m \in Memory /\ m.pc = "raise" /\ m.id \in Deposits
      /\ m.op \in {"create", "renew", "close", "interest"}
      /\ Knows(m) /\ Sound(m) /\ Fresh(m) /\ Kept(m)
      /\ Placing(m) <=> m.op \in {"create", "renew"}
  <2>1. m # Idle /\ m.pc = "raise" /\ m.op \in {"create", "renew", "close", "interest"}
    BY <1>1 DEF RaiseDraft, At
  <2>2. Placing(m) <=> m.op \in {"create", "renew"}
    BY <2>1 DEF Placing
  <2> QED
    BY <1>0, <1>1, <2>1, <2>2, MemoryRow DEF DepositInv, Holding, SerialInv, RegisterInv
<1>3. PICK c : c = CodingOf(m)
  OBVIOUS
<1>4. PICK v \in Vouchers, y \in Years :
        /\ status[v] = "Absent" /\ Desk!Write(v, [year |-> y, content |-> c])
        /\ request' = [request EXCEPT ![r].pc = "submit", ![r].voucher = v]
  BY <1>1, <1>3 DEF RaiseDraft
<1>5. \A d \in {c.into, c.from} \ {None} : Present(d)
  BY <1>1, <1>3 DEF RaiseDraft
<1>6. /\ c.role \in {"placement", "renewal"} <=> m.op \in {"create", "renew"}
      /\ m.op \in {"create", "renew"} => c.into = m.id /\ c.debit = m.amount
      /\ m.op = "renew" => c.from = m.previous
      /\ m.op = "close" => c.from = m.id /\ c.into = None
      /\ m.op = "interest" => c.into = m.id
      /\ m.op \in {"create", "interest"} => c.from = None
  BY <1>2, <1>3, CodingLines
<1>7. /\ status'[v] = "Draft" /\ entry'[v] = [year |-> y, content |-> c] /\ Desk!Open(y)
      /\ \A w \in Vouchers \ {v} : status'[w] = status[w] /\ entry'[w] = entry[w]
      /\ posted' = posted /\ phase' = phase
  BY <1>0, <1>4 DEF Desk!Write, Desk!Become, BooksOK
<1>8. /\ ~Raised(v) /\ Raised(v)' /\ entry'[v].content = c
      /\ \A w \in Vouchers \ {v} :
           /\ Raised(w)' <=> Raised(w)
           /\ Live(w)' <=> Live(w)
           /\ entry'[w] = entry[w]
      /\ \A w \in Vouchers : Raised(w) => Raised(w)' /\ w # v
      /\ \A w \in Vouchers : Live(w) => Raised(w)
      /\ CanSubmit(v)'
  BY <1>4, <1>7 DEF Raised, Live, CanSubmit, Desk!Open
<1>9. PICK n : n = request'[r]
  OBVIOUS
<1>10. /\ n # Idle /\ n.op = m.op /\ n.pc = "submit" /\ n.id = m.id /\ n.amount = m.amount
       /\ n.previous = m.previous /\ n.voucher = v
       /\ Placing(n) <=> Placing(m)
  <2>1. n = [m EXCEPT !.pc = "submit", !.voucher = v]
    BY <1>0, <1>1, <1>4, <1>9 DEF TypeOK
  <2>2. /\ n.op = m.op /\ n.pc = "submit" /\ n.id = m.id /\ n.amount = m.amount
        /\ n.previous = m.previous /\ n.voucher = v /\ n # Idle
    BY <1>2, <2>1 DEF Memory, Idle
  <2> QED
    BY <1>2, <2>2 DEF Placing
<1>11. \A s \in Requests : s = r
  BY DEF OneHandler
<1>12. \A w \in Vouchers : Placed(w) /\ SettledBy(w)
  BY <1>1, <1>2, NothingUnderWay DEF At
<1>13. Grounded'
  <2>1. \A p \in posted' : p.voucher \in Vouchers /\ Raised(p.voucher)'
    BY <1>7, <1>8 DEF RegisterInv, Grounded
  <2>2. ASSUME NEW w \in Vouchers, Raised(w)', NEW d \in Named(w)' PROVE deposit'[d].status # "absent"
    <3>1. CASE w = v
      <4>1. Present(d)
        BY <1>5, <1>8, <2>2, <3>1 DEF Named
      <4>2. d \in Deposits
        <5>1. d \in {c.into, c.from} \ {None}
          BY <1>8, <2>2, <3>1 DEF Named
        <5>2. m.op = "renew" => m.previous \in Deposits
          BY <1>2 DEF Sound
        <5> QED
          BY <1>2, <1>6, <5>1, <5>2
      <4> QED
        BY <1>0, <4>1, <4>2, PresentRow
    <3>2. CASE w # v
      BY <1>0, <1>8, <2>2, <3>2 DEF RegisterInv, Grounded, Named
    <3> QED
      BY <3>1, <3>2
  <2> QED
    BY <2>1, <2>2 DEF Grounded
<1>14. ASSUME NEW d \in Deposits PROVE RowPlaced(d)'
  <2>1. CASE Placing(m) /\ d = m.id
    BY <1>9, <1>10, <2>1 DEF RowPlaced
  <2>2. CASE ~(Placing(m) /\ d = m.id)
    <3>1. Registered(d)
      BY <1>1, <2>2, NothingUnderWay
    <3> QED
      BY <1>0, <1>8, <3>1 DEF RowPlaced, Registered, Present
  <2> QED
    BY <2>1, <2>2
<1>15. ASSUME NEW w \in Vouchers PROVE Places(w)'
  <2>1. CASE w = v
    <3> SUFFICES ASSUME c.role \in {"placement", "renewal"} PROVE Places(v)'
      BY <1>8, <2>1 DEF Places
    <3>1. c.into = m.id /\ c.debit = m.amount /\ Placing(n) /\ Placing(m)
      BY <1>2, <1>6, <1>10
    <3>2. deposit[m.id] \notin Gone /\ deposit[m.id].principal = m.amount
      BY <1>2, <3>1 DEF Kept, Present, Knows
    <3>3. Placing(request[r])' /\ request'[r].pc = "submit" /\ request'[r].id = m.id
          /\ request'[r].voucher = v
      BY <1>9, <1>10, <3>1 DEF Placing
    <3> QED
      BY <1>0, <1>2, <1>8, <3>1, <3>2, <3>3 DEF Places, Present
  <2>2. CASE w # v
    BY <1>0, <1>8, <1>12, <2>2 DEF Places, Placed, Present
  <2> QED
    BY <2>1, <2>2
<1>16. ASSUME NEW w \in Vouchers PROVE Settles(w)'
  <2>1. CASE w = v
    <3> SUFFICES ASSUME c.from # None PROVE Settles(v)'
      BY <1>8, <2>1 DEF Settles
    <3>1. CASE m.op = "renew"
      <4>1. deposit[m.id].renewedFrom = m.previous /\ Present(m.id) /\ m.previous = c.from
        BY <1>2, <1>6, <3>1 DEF Fresh, Kept
      <4>2. deposit[c.from].status = "renewed"
        BY <1>0, <1>2, <4>1 DEF Linked
      <4> QED
        BY <1>0, <1>8, <4>2 DEF Settles, Settled
    <3>2. CASE m.op = "close"
      <4>1. At(r, {"close"}, "submit")' /\ request'[r].id = c.from /\ request'[r].voucher = v
        BY <1>6, <1>9, <1>10, <3>2 DEF At
      <4> QED
        BY <1>8, <4>1 DEF Settles
    <3> QED
      BY <1>2, <1>6, <3>1, <3>2
  <2>2. CASE w # v
    BY <1>0, <1>8, <1>12, <2>2 DEF Settles, SettledBy
  <2> QED
    BY <2>1, <2>2
<1>17. ASSUME NEW w \in Vouchers, w # v, Live(w), c.from # None
       PROVE  entry[w].content.from # c.from
  <2>1. CASE m.op = "renew"
    BY <1>2, <1>6, <1>8, <1>17, <2>1 DEF Knows
  <2>2. CASE m.op = "close"
    BY <1>2, <1>6, <1>12, <1>17, <2>2 DEF SettledBy, Fresh, Held, Settled
  <2> QED
    BY <1>2, <1>6, <1>17, <2>1, <2>2
<1>18. SettlesAlone'
  <2> SUFFICES ASSUME NEW u \in Vouchers, NEW w \in Vouchers, Live(u)', Live(w)',
                      entry'[u].content.from # None,
                      entry'[u].content.from = entry'[w].content.from, u # w
               PROVE  FALSE
    BY DEF SettlesAlone
  <2>1. CASE u = v
    BY <1>8, <1>17, <2>1
  <2>2. CASE w = v
    BY <1>8, <1>17, <2>2
  <2>3. CASE u # v /\ w # v
    BY <1>8, <2>3 DEF RegisterInv, SettlesAlone
  <2> QED
    BY <2>1, <2>2, <2>3
<1>19. \A s \in Requests : Knows(request[s])'
  <2>1. Placing(n) => deposit'[n.id].principal = n.amount /\ deposit'[n.id].placement = None
    BY <1>0, <1>2, <1>10 DEF Knows
  <2>2. Placing(n) => Raised(n.voucher)' /\ entry'[n.voucher].content.into = n.id
    BY <1>2, <1>6, <1>8, <1>10
  <2>3. CanSubmit(n.voucher)'
    BY <1>8, <1>10
  <2>4. n.pc \notin {"raise", "undo"} /\ n.op # "update"
    BY <1>2, <1>10
  <2>5. Knows(request[r])'
    BY <1>9, <2>1, <2>2, <2>3, <2>4 DEF Knows
  <2> QED
    BY <1>11, <2>5
<1> QED
  BY <1>13, <1>14, <1>15, <1>16, <1>18, <1>19 DEF RegisterInv

\* The second half of raiseForApproval.
LEMMA SubmitKeeps ==
  ASSUME OneHandler, SerialInv, RegisterInv, NEW r \in Requests, RaiseSubmit(r)
  PROVE  RegisterInv'
<1>0. DepositInv /\ TypeOK /\ BooksOK /\ deposit' = deposit
  BY DEF SerialInv, DepositInv, RaiseSubmit
<1>1. PICK m, v : m = request[r] /\ v = m.voucher
  OBVIOUS
<1>2. /\ m # Idle /\ m \in Memory /\ m.pc = "submit" /\ v \in Vouchers
      /\ m.op \in {"create", "renew", "close", "interest"} /\ Knows(m)
      /\ Placing(m) <=> m.op \in {"create", "renew"}
  <2>1. m # Idle /\ m.pc = "submit" /\ m.op \in {"create", "renew", "close", "interest"}
    BY <1>1 DEF RaiseSubmit, At
  <2>2. Placing(m) <=> m.op \in {"create", "renew"}
    BY <2>1 DEF Placing
  <2> QED
    BY <1>0, <1>1, <2>1, <2>2, MemoryRow DEF DepositInv, Holding, Sound, RegisterInv
<1>3. /\ status[v] \in {"Draft", "Rejected"} /\ status'[v] = "PendingApproval"
      /\ \A w \in Vouchers \ {v} : status'[w] = status[w]
      /\ entry' = entry /\ posted' = posted
  BY <1>0, <1>1, <1>2 DEF RaiseSubmit, Desk!Submit, Desk!Become, BooksOK
<1>4. \A w \in Vouchers : (Raised(w)' <=> Raised(w)) /\ (Live(w)' <=> Live(w)) /\ entry'[w] = entry[w]
  BY <1>3 DEF Raised, Live
<1>5. PICK n : n = request'[r]
  OBVIOUS
<1>6. \/ m.op = "interest" /\ n = Idle
      \/ /\ m.op \in {"create", "renew", "close"}
         /\ n # Idle /\ n.op = m.op /\ n.pc = "link" /\ n.id = m.id /\ n.voucher = v
         /\ n.amount = m.amount
  <2>1. CASE m.op = "interest"
    BY <1>0, <1>1, <1>5, <2>1 DEF RaiseSubmit, Finish, TypeOK
  <2>2. CASE m.op # "interest"
    <3>1. n = [m EXCEPT !.pc = "link"]
      BY <1>0, <1>1, <1>5, <2>2 DEF RaiseSubmit, Advance, TypeOK
    <3>2. n.op = m.op /\ n.pc = "link" /\ n.id = m.id /\ n.voucher = v /\ n.amount = m.amount
          /\ n # Idle
      BY <1>1, <1>2, <3>1 DEF Memory, Idle
    <3> QED
      BY <1>2, <2>2, <3>2
  <2> QED
    BY <2>1, <2>2
<1>7. Placing(m) <=> Placing(n)
  BY <1>2, <1>6 DEF Placing
<1>8. \A s \in Requests : s = r
  BY DEF OneHandler
<1>9. Grounded' /\ SettlesAlone'
  <2>1. \A p \in posted' : p.voucher \in Vouchers /\ Raised(p.voucher)'
    BY <1>3, <1>4 DEF RegisterInv, Grounded
  <2>2. ASSUME NEW w \in Vouchers, Raised(w)', NEW d \in Named(w)' PROVE deposit'[d].status # "absent"
    BY <1>0, <1>4, <2>2 DEF RegisterInv, Grounded, Named
  <2>3. SettlesAlone'
    BY <1>4 DEF RegisterInv, SettlesAlone
  <2> QED
    BY <2>1, <2>2, <2>3 DEF Grounded
<1>10. ASSUME NEW d \in Deposits PROVE RowPlaced(d)'
  <2>1. CASE Placing(n) /\ d = m.id
    BY <1>5, <1>6, <2>1 DEF RowPlaced, Placing
  <2>2. CASE ~(Placing(n) /\ d = m.id)
    <3>1. Registered(d)
      BY <1>1, <1>7, <2>2, NothingUnderWay
    <3> QED
      BY <1>0, <1>4, <3>1 DEF RowPlaced, Registered, Present
  <2> QED
    BY <2>1, <2>2
<1>11. ASSUME NEW w \in Vouchers PROVE Places(w)'
  <2> SUFFICES ASSUME Raised(w), entry[w].content.role \in {"placement", "renewal"}
               PROVE  Places(w)'
    BY <1>4 DEF Places
  <2>1. PICK d : d = entry[w].content.into
    OBVIOUS
  <2>2. /\ d \in Deposits /\ Present(d)
        /\ Live(w) => deposit[d].principal = entry[w].content.debit
        /\ deposit[d].placement = w \/ (Placing(m) /\ d = m.id /\ w = v)
    BY <1>1, <2>1, OnlyHandler DEF RegisterInv, Places
  <2>3. Placing(m) => Placing(request[r])' /\ request'[r].pc = "link" /\ request'[r].id = m.id
                      /\ request'[r].voucher = v
    BY <1>2, <1>5, <1>6 DEF Placing
  <2> QED
    BY <1>0, <1>4, <2>1, <2>2, <2>3 DEF Places, Present
<1>12. ASSUME NEW w \in Vouchers PROVE Settles(w)'
  <2> SUFFICES ASSUME Live(w), entry[w].content.from # None PROVE Settles(w)'
    BY <1>4 DEF Settles
  <2>1. PICK d : d = entry[w].content.from
    OBVIOUS
  <2>2. deposit[d].status \in Settled \/ (m.op = "close" /\ d = m.id /\ w = v)
    BY <1>1, <2>1, OnlyHandler DEF RegisterInv, Settles, At
  <2>3. m.op = "close" => At(r, {"close"}, "link")' /\ request'[r].id = m.id /\ request'[r].voucher = v
    BY <1>5, <1>6 DEF At
  <2> QED
    BY <1>0, <1>4, <2>1, <2>2, <2>3 DEF Settles
<1>13. \A s \in Requests : Knows(request[s])'
  <2>1. CASE n = Idle
    BY <1>5, <1>8, <2>1 DEF Knows
  <2>2. CASE n # Idle
    <3>1. Placing(n) => /\ deposit'[n.id].principal = n.amount /\ deposit'[n.id].placement = None
                        /\ Raised(n.voucher)' /\ entry'[n.voucher].content.into = n.id
      BY <1>0, <1>1, <1>2, <1>4, <1>6, <1>7, <2>2 DEF Knows
    <3>2. n.pc = "link" /\ n.op # "update"
      BY <1>6, <2>2
    <3>3. Knows(request[r])'
      BY <1>5, <3>1, <3>2 DEF Knows
    <3> QED
      BY <1>8, <3>3
  <2> QED
    BY <2>1, <2>2
<1> QED
  BY <1>9, <1>10, <1>11, <1>12, <1>13 DEF RegisterInv

\* A step of the only handler that is not a stop keeps the invariant, whatever it is.
LEMMA RegisterKeeps ==
  ASSUME OneHandler, SerialInv, RegisterInv, NEW r \in Requests, DepositStep(r), ~Stops(r)
  PROVE  RegisterInv'
<1>1. DepositInv
  BY DEF SerialInv
<1>2. CASE RenewLoad(r) \/ CloseLoad(r) \/ InterestLoad(r) \/ UpdateLoad(r) \/ MatureLoad(r)
  BY <1>1, <1>2, LoadKeeps
<1>3. CASE Refused(r) \/ UpdateCheck(r) \/ Fail(r)
  BY <1>3, CheckKeeps
<1>4. CASE LinkPlacement(r) \/ CloseWrite(r) \/ UpdateWrite(r) \/ MatureWrite(r)
  BY <1>4, AmendKeeps
<1>5. CASE UndoCreate(r) \/ UndoRenewal(r)
  BY <1>5, UndoKeeps
<1>6. ~LinkFails(r) /\ (Crash(r) => Refused(r) \/ Fail(r))
  BY DEF Stops
<1> QED
  BY <1>1, <1>2, <1>3, <1>4, <1>5, <1>6, PutKeeps, DraftKeeps, SubmitKeeps, Zenon
     DEF DepositStep

\* A step that changes nothing.
LEMMA RegisterStutters ==
  ASSUME RegisterInv, UNCHANGED vars
  PROVE  RegisterInv'
<1>1. /\ status' = status /\ entry' = entry /\ posted' = posted /\ phase' = phase
      /\ deposit' = deposit /\ request' = request
  BY DEF vars, books
<1>2. \A v : /\ Raised(v)' <=> Raised(v)
             /\ Live(v)' <=> Live(v)
             /\ Named(v)' = Named(v)
             /\ CanSubmit(v)' <=> CanSubmit(v)
             /\ PrincipalIsEditable(v)' <=> PrincipalIsEditable(v)
  BY <1>1 DEF Raised, Live, Named, CanSubmit, Desk!Open, PrincipalIsEditable
<1>3. Grounded' /\ SettlesAlone'
  BY <1>1, <1>2 DEF RegisterInv, Grounded, SettlesAlone
<1>4. ASSUME NEW d \in Deposits PROVE RowPlaced(d)'
  BY <1>1, <1>2 DEF RegisterInv, RowPlaced, Present
<1>5. ASSUME NEW v \in Vouchers PROVE Places(v)' /\ Settles(v)'
  <2>1. Places(v)'
    BY <1>1, <1>2 DEF RegisterInv, Places, Present
  <2>2. Settles(v)'
    BY <1>1, <1>2 DEF RegisterInv, Settles, At
  <2> QED
    BY <2>1, <2>2
<1>6. ASSUME NEW r \in Requests PROVE Knows(request[r])'
  BY <1>1, <1>2 DEF RegisterInv, Knows, Present
<1> QED
  BY <1>3, <1>4, <1>5, <1>6 DEF RegisterInv

\* What the invariant says of the register.
LEMMA RegisterShows ==
  ASSUME DepositInv, RegisterInv
  PROVE  PlacedOnBooks /\ PrincipalStandsOnBooks /\ PrincipalLeavesOnce
<1>1. PlacedOnBooks
  BY NoneAssumption DEF RegisterInv, RowPlaced, PlacedOnBooks, Placing
<1>2. PrincipalStandsOnBooks
  BY DEF RegisterInv, Places, PrincipalStandsOnBooks, Live, Raised
<1>3. PrincipalLeavesOnce
  <2> SUFFICES ASSUME NEW d \in Deposits
               PROVE  Cardinality({v \in Vouchers : Live(v) /\ entry[v].content.from = d}) <= 1
    BY DEF PrincipalLeavesOnce
  <2> DEFINE takers == {v \in Vouchers : Live(v) /\ entry[v].content.from = d}
  <2>1. \A v, w \in takers : v = w
    BY NoneAssumption DEF RegisterInv, SettlesAlone
  <2>2. CASE takers = {}
    BY <2>2, FS_EmptySet
  <2>3. CASE takers # {}
    <3>1. PICK v : v \in takers
      BY <2>3
    <3>2. takers = {v}
      BY <2>1, <3>1
    <3>3. Cardinality({v}) = 1
      BY FS_Singleton
    <3> QED
      BY <3>2, <3>3
  <2> QED
    BY <2>2, <2>3
<1> QED
  BY <1>1, <1>2, <1>3

\* At first nothing is registered and nothing raised.
LEMMA RegisterInit ==
  ASSUME Init PROVE RegisterInv
<1>1. \A v \in Vouchers : ~Raised(v) /\ ~Live(v)
  BY DEF Init, Desk!Init, Raised, Live
<1>2. \A d \in Deposits : ~Present(d)
  BY DEF Init, Present, Gone
<1>3. \A r \in Requests : Knows(request[r])
  BY DEF Init, Knows
<1>4. posted = {}
  BY DEF Init, Desk!Init
<1> QED
  BY <1>1, <1>2, <1>3, <1>4 DEF RegisterInv, Grounded, RowPlaced, Places, Settles, SettlesAlone

\* A step that stops no handler keeps the invariant.
LEMMA RegisterUnstopped ==
  ASSUME OneHandler, ~Interleaved, SerialInv, RegisterInv, [MCNext]_<<vars, crashed>>, ~crashed'
  PROVE  RegisterInv'
<1>1. CASE UNCHANGED vars
  BY <1>1, RegisterStutters
<1>2. CASE DeskStep
  <2>1. Quiet /\ DepositInv
    BY <1>2 DEF DeskStep, SerialInv
  <2> QED
    BY <1>2, <2>1, DeskKeeps
<1>3. ASSUME NEW r \in Requests, DepositStep(r), MCNext PROVE RegisterInv'
  <2>1. ~Stops(r)
    BY <1>3 DEF MCNext
  <2> QED
    BY <1>3, <2>1, RegisterKeeps
<1>4. MCNext \/ UNCHANGED vars
  BY DEF MCNext
<1> QED
  BY <1>1, <1>2, <1>3, <1>4 DEF MCNext, Next

\* While handlers follow one another, the desk works between them and none is stopped half
\* way, every deposit is on the books by the voucher it names, no principal is changed under
\* a voucher that may be posted, and none leaves the books twice, whatever the desk does to
\* the vouchers.  (create and its compensation, update, close, renew.)
THEOREM RegisterHolds ==
  ASSUME OneHandler, ~Interleaved
  PROVE  MCSpec => []RegisterUntilCrash
<1> DEFINE Inv == SerialInv /\ (~crashed => RegisterInv)
<1>1. MCInit => Inv
  <2> SUFFICES ASSUME MCInit PROVE Inv
    OBVIOUS
  <2>1. Init
    BY DEF MCInit
  <2>2. SerialInv
    BY <2>1, SerialInit
  <2> QED
    BY <2>1, <2>2, RegisterInit
<1>2. Inv /\ [MCNext]_<<vars, crashed>> => Inv'
  <2> SUFFICES ASSUME Inv, [MCNext]_<<vars, crashed>> PROVE Inv'
    OBVIOUS
  <2>1. [Next]_vars
    BY DEF MCNext
  <2>2. SerialInv /\ SerialInv' /\ DepositInv
    BY <2>1, SerialStep DEF SerialInv
  <2>3. ASSUME ~crashed' PROVE RegisterInv'
    <3>1. RegisterInv
      BY <2>3 DEF MCNext
    <3> QED
      BY <2>2, <2>3, <3>1, RegisterUnstopped
  <2> QED
    BY <2>2, <2>3
<1>3. Inv => RegisterUntilCrash
  BY RegisterShows DEF SerialInv, RegisterUntilCrash
<1> QED
  BY <1>1, <1>2, <1>3, PTL DEF MCSpec

-----------------------------------------------------------------------------
(* Sums over finite sets.  What is said of every finite set is shown of a     *)
(* least part that would refute it.                                           *)

\* Of sets of parts of a finite set one is least.
LEMMA LeastPart ==
  ASSUME NEW S, IsFiniteSet(S), NEW P \in SUBSET SUBSET S, P # {}
  PROVE  \E T \in P : \A U \in P : U \subseteq T => U = T
<1>1. IsWellFoundedOn(StrictSubsetOrdering(S), FiniteSubsetsOf(S))
  BY FS_StrictSubsetOrderingWellFounded
<1>2. P \subseteq FiniteSubsetsOf(S)
  BY FS_FiniteSubsetsOfFinite
<1>3. PICK T \in P : \A U \in P : ~(<<U, T>> \in StrictSubsetOrdering(S))
  BY <1>1, <1>2, WFMin
<1>4. ASSUME NEW U \in P, U \subseteq T PROVE U = T
  BY <1>3, <1>4 DEF StrictSubsetOrdering
<1> QED
  BY <1>4

\* The recursive function behind SumFunctionOnSet: take any element out and add it.
Picked(s) == CHOOSE x \in s : TRUE
Adds(f, g, S) ==
  g = [s \in SUBSET S |-> IF s = {} THEN 0 ELSE f[Picked(s)] + g[s \ {Picked(s)}]]

LEMMA PickedIsThere ==
  ASSUME NEW s, s # {} PROVE Picked(s) \in s
BY DEF Picked

LEMMA LeastNumber ==
  ASSUME NEW T \in SUBSET Nat, T # {}
  PROVE  \E x \in T : \A y \in T : x <= y
<1> DEFINE less == OpToRel(<, Nat)
<1>1. IsWellFoundedOn(less, Nat)
  BY NatLessThanWellFounded
<1>2. less = {ss \in Nat \X Nat : ss[1] < ss[2]}
  BY DEF OpToRel
<1> HIDE DEF less
<1>3. PICK x \in T : \A y \in T : ~(<<y, x>> \in less)
  BY <1>1, WFMin
<1>4. ASSUME NEW y \in T PROVE x <= y
  <2>1. <<y, x>> \in Nat \X Nat /\ <<y, x>>[1] = y /\ <<y, x>>[2] = x
    OBVIOUS
  <2>2. ~(y < x)
    BY <1>2, <1>3, <2>1
  <2> QED
    BY <2>2
<1> QED
  BY <1>4

UpTo(S, n) == {s \in SUBSET S : Cardinality(s) <= n}
AddsUpTo(f, g, S, n) ==
  g = [s \in UpTo(S, n) |-> IF s = {} THEN 0 ELSE f[Picked(s)] + g[s \ {Picked(s)}]]

\* The equations of a sum have a solution, for sets of any size.
LEMMA AddsExists ==
  ASSUME NEW f, NEW S, IsFiniteSet(S)
  PROVE  \E g : Adds(f, g, S)
<1> DEFINE P == {n \in Nat : ~\E g : AddsUpTo(f, g, S, n)}
<1>0. \A s \in SUBSET S : IsFiniteSet(s) /\ Cardinality(s) \in Nat
  BY FS_Subset, FS_CardinalityType
<1>1. ASSUME P # {} PROVE FALSE
  <2>1. PICK n \in P : \A m \in P : n <= m
    BY <1>1, LeastNumber
  <2>2. n # 0
    <3>1. ASSUME n = 0 PROVE FALSE
      <4>1. UpTo(S, 0) = {{}}
        BY <1>0, FS_EmptySet DEF UpTo
      <4>2. AddsUpTo(f, [s \in UpTo(S, 0) |-> 0], S, 0)
        BY <4>1 DEF AddsUpTo
      <4> QED
        BY <2>1, <3>1, <4>2
    <3> QED
      BY <3>1
  <2>3. PICK g : AddsUpTo(f, g, S, n - 1)
    BY <2>1, <2>2
  <2> DEFINE h == [s \in UpTo(S, n) |-> IF s = {} THEN 0 ELSE f[Picked(s)] + g[s \ {Picked(s)}]]
  <2>4. ASSUME NEW s \in UpTo(S, n), s # {}
        PROVE  h[s \ {Picked(s)}] = g[s \ {Picked(s)}]
    <3>1. s \ {Picked(s)} \in UpTo(S, n - 1) /\ s \ {Picked(s)} \in UpTo(S, n)
      <4>1. Picked(s) \in s
        BY <2>4, PickedIsThere
      <4>2. Cardinality(s \ {Picked(s)}) = Cardinality(s) - 1
        BY <1>0, <4>1, FS_RemoveElement DEF UpTo
      <4>3. s \ {Picked(s)} \in SUBSET S /\ Cardinality(s) <= n /\ n \in Nat /\ Cardinality(s) \in Nat
        BY <1>0 DEF UpTo
      <4> QED
        BY <4>2, <4>3 DEF UpTo
    <3> QED
      BY <2>3, <3>1 DEF AddsUpTo
  <2>5. AddsUpTo(f, h, S, n)
    BY <2>4 DEF AddsUpTo
  <2> QED
    BY <2>1, <2>5
<1>2. PICK g : AddsUpTo(f, g, S, Cardinality(S))
  BY <1>0, <1>1
<1>3. UpTo(S, Cardinality(S)) = SUBSET S
  BY FS_Subset DEF UpTo
<1> QED
  BY <1>2, <1>3 DEF AddsUpTo, Adds

LEMMA SumIs ==
  ASSUME NEW f, NEW S
  PROVE  SumFunctionOnSet(f, S) = (CHOOSE g : Adds(f, g, S))[S]
BY DEF SumFunctionOnSet, FoldFunctionOnSet, MapThenFoldSet, Adds, Picked

\* Two solutions agree where both are defined.
LEMMA AddsAgree ==
  ASSUME NEW f, NEW S, IsFiniteSet(S), NEW T \in SUBSET S, NEW g, NEW h, Adds(f, g, S), Adds(f, h, T)
  PROVE  \A s \in SUBSET T : g[s] = h[s]
<1>0. PICK P : P = {s \in SUBSET T : g[s] # h[s]}
  OBVIOUS
<1>1. ASSUME P # {} PROVE FALSE
  <2>0. IsFiniteSet(T) /\ P \in SUBSET SUBSET T
    BY <1>0, FS_Subset
  <2>1. PICK s \in P : \A U \in P : U \subseteq s => U = s
    BY <1>1, <2>0, LeastPart
  <2>2. s # {}
    BY <1>0, <2>1 DEF Adds
  <2>3. Picked(s) \in s
    BY <2>2, PickedIsThere
  <2>4. g[s \ {Picked(s)}] = h[s \ {Picked(s)}]
    BY <1>0, <2>1, <2>3
  <2> QED
    BY <1>0, <2>1, <2>2, <2>3, <2>4 DEF Adds
<1> QED
  BY <1>0, <1>1

LEMMA SumIsAny ==
  ASSUME NEW f, NEW S, IsFiniteSet(S), NEW T \in SUBSET S, NEW g, Adds(f, g, S)
  PROVE  SumFunctionOnSet(f, T) = g[T]
<1>1. IsFiniteSet(T) /\ T \in SUBSET T
  BY FS_Subset
<1>2. Adds(f, CHOOSE h : Adds(f, h, T), T)
  BY <1>1, AddsExists, Zenon
<1>3. \A h : Adds(f, h, T) => g[T] = h[T]
  BY <1>1, AddsAgree
<1>4. g[T] = (CHOOSE h : Adds(f, h, T))[T]
  BY <1>2, <1>3, Zenon
<1> QED
  BY <1>4, SumIs

LEMMA SumEmpty ==
  ASSUME NEW f PROVE SumFunctionOnSet(f, {}) = 0
<1>1. IsFiniteSet({})
  BY FS_EmptySet
<1>2. PICK g : Adds(f, g, {})
  BY <1>1, AddsExists
<1>3. SumFunctionOnSet(f, {}) = g[{}]
  BY <1>1, <1>2, SumIsAny
<1> QED
  BY <1>2, <1>3 DEF Adds

LEMMA SumPicked ==
  ASSUME NEW f, NEW S, IsFiniteSet(S), S # {}
  PROVE  SumFunctionOnSet(f, S) = f[Picked(S)] + SumFunctionOnSet(f, S \ {Picked(S)})
<1>1. PICK g : Adds(f, g, S)
  BY AddsExists
<1>2. SumFunctionOnSet(f, S) = g[S] /\ SumFunctionOnSet(f, S \ {Picked(S)}) = g[S \ {Picked(S)}]
  BY <1>1, SumIsAny
<1> QED
  BY <1>1, <1>2 DEF Adds

\* Whatever element is taken out first.
LEMMA SumRemove ==
  ASSUME NEW f, NEW S, IsFiniteSet(S), \A x \in S : f[x] \in Int
  PROVE  /\ SumFunctionOnSet(f, S) \in Int
         /\ \A x \in S : SumFunctionOnSet(f, S) = f[x] + SumFunctionOnSet(f, S \ {x})
<1> DEFINE Good(T) == /\ SumFunctionOnSet(f, T) \in Int
                      /\ \A x \in T : SumFunctionOnSet(f, T) = f[x] + SumFunctionOnSet(f, T \ {x})
<1>1. Good({})
  BY SumEmpty
<1>2. ASSUME NEW T \in SUBSET S, T # {}, \A U \in SUBSET T : U # T => Good(U)
      PROVE  Good(T)
  <2>1. PICK c \in T : c = Picked(T)
    BY <1>2, PickedIsThere
  <2>2. SumFunctionOnSet(f, T) = f[c] + SumFunctionOnSet(f, T \ {c})
    BY <1>2, <2>1, SumPicked, FS_Subset
  <2>3. ASSUME NEW x \in T PROVE Good(T \ {x})
    BY <1>2
  <2>4. \A x \in T : f[x] \in Int
    OBVIOUS
  <2>5. SumFunctionOnSet(f, T) \in Int
    BY <2>1, <2>2, <2>3, <2>4
  <2>6. ASSUME NEW x \in T, x # c
        PROVE  SumFunctionOnSet(f, T) = f[x] + SumFunctionOnSet(f, T \ {x})
    <3>1. SumFunctionOnSet(f, T \ {c}) = f[x] + SumFunctionOnSet(f, (T \ {c}) \ {x})
      BY <2>3, <2>6
    <3>2. SumFunctionOnSet(f, T \ {x}) = f[c] + SumFunctionOnSet(f, (T \ {c}) \ {x})
      <4>1. (T \ {c}) \ {x} = (T \ {x}) \ {c}
        OBVIOUS
      <4> QED
        BY <2>3, <2>6, <4>1
    <3>3. SumFunctionOnSet(f, (T \ {c}) \ {x}) \in Int
      <4>1. (T \ {c}) \ {x} \in SUBSET T /\ (T \ {c}) \ {x} # T
        OBVIOUS
      <4>2. Good((T \ {c}) \ {x})
        BY <1>2, <4>1
      <4> QED
        BY <4>2
    <3>4. f[x] \in Int /\ f[c] \in Int
      BY <2>4
    <3> HIDE DEF Good
    <3> QED
      BY <2>2, <3>1, <3>2, <3>3, <3>4
  <2> QED
    BY <2>1, <2>2, <2>5, <2>6
<1> HIDE DEF Good
<1>3. PICK P : P = {T \in SUBSET S : ~Good(T)}
  OBVIOUS
<1>4. ASSUME P # {} PROVE FALSE
  <2>1. PICK T \in P : \A U \in P : U \subseteq T => U = T
    BY <1>3, <1>4, LeastPart
  <2> QED
    BY <1>1, <1>2, <1>3, <2>1
<1>5. Good(S)
  BY <1>3, <1>4
<1> QED
  BY <1>5 DEF Good

\* A sum of nothing but zeros.
LEMMA SumZeros ==
  ASSUME NEW f, NEW S, IsFiniteSet(S), \A x \in S : f[x] = 0
  PROVE  SumFunctionOnSet(f, S) = 0
<1>1. PICK P : P = {T \in SUBSET S : SumFunctionOnSet(f, T) # 0}
  OBVIOUS
<1>2. ASSUME P # {} PROVE FALSE
  <2>0. P \in SUBSET SUBSET S
    BY <1>1
  <2>1. PICK T \in P : \A U \in P : U \subseteq T => U = T
    BY <1>2, <2>0, LeastPart
  <2>2. PICK x \in T : TRUE
    BY <1>1, <2>1, SumEmpty
  <2>3. T \in SUBSET S /\ IsFiniteSet(T)
    BY <1>1, FS_Subset
  <2>4. SumFunctionOnSet(f, T \ {x}) = 0
    BY <1>1, <2>1, <2>3
  <2>5. \A y \in T : f[y] \in Int /\ f[y] = 0
    BY <2>3
  <2>6. SumFunctionOnSet(f, T) = f[x] + SumFunctionOnSet(f, T \ {x})
    BY <2>3, <2>5, SumRemove
  <2> QED
    BY <1>1, <2>1, <2>4, <2>5, <2>6
<1> QED
  BY <1>1, <1>2

\* A sum with one term that counts.
LEMMA SumOne ==
  ASSUME NEW f, NEW S, IsFiniteSet(S), NEW x \in S, f[x] \in Int, \A y \in S \ {x} : f[y] = 0
  PROVE  SumFunctionOnSet(f, S) = f[x]
<1>1. \A y \in S : f[y] \in Int
  OBVIOUS
<1>2. SumFunctionOnSet(f, S) = f[x] + SumFunctionOnSet(f, S \ {x})
  BY <1>1, SumRemove
<1>3. SumFunctionOnSet(f, S \ {x}) = 0
  BY SumZeros, FS_Subset
<1> QED
  BY <1>2, <1>3

-----------------------------------------------------------------------------
(* The books *)

\* The ledger holds the postings of the vouchers that are Posted, and of no others.
Mirrored ==
  /\ IsFiniteSet(posted)
  /\ \A p \in posted : status[p.voucher] = "Posted"
  /\ \A v \in Vouchers : status[v] = "Posted" => \E p \in posted : p.voucher = v

\* Interest puts no principal on the books, and a closure only takes one off.
Says(v) ==
  Raised(v) => /\ entry[v].content.role = "interest" => entry[v].content.debit = 0
               /\ entry[v].content.role = "closure" => entry[v].content.into = None

\* The voucher a row is linked to placed it; a deposit held at opening is linked to none.
LinkedTo(d) ==
  Present(d) /\ deposit[d].placement # None =>
    /\ deposit[d].source # "opening"
    /\ Raised(deposit[d].placement) /\ entry[deposit[d].placement].content.role # "interest"

\* What a voucher takes off the books is the principal the register has.
Takes(v) ==
  Live(v) /\ entry[v].content.from # None =>
    deposit[entry[v].content.from].principal = entry[v].content.credit

\* A settled deposit has the voucher that settles it, or its renewal is about to raise it.
TakenOff(d) ==
  deposit[d].status \in Settled =>
    \/ \E v \in Vouchers : Raised(v) /\ entry[v].content.from = d
    \/ \E r \in Requests : /\ Placing(request[r]) /\ request[r].op = "renew"
                           /\ request[r].pc \in {"raise", "undo"} /\ request[r].previous = d

\* What a handler remembers of the register is still so.
Recalls(m) ==
  m # Idle =>
    /\ m.op = "renew" => deposit[m.previous].principal = m.owed
    /\ m.op = "close" => deposit[m.id].principal = m.owed
    /\ m.op = "update" => deposit[m.id].status = "active"
    /\ m.op = "close" /\ m.pc \in {"submit", "link"} =>
         Raised(m.voucher) /\ entry[m.voucher].content.from = m.id
    /\ Placing(m) => deposit[m.id].source # "opening"
    /\ Placing(m) /\ m.pc \in {"submit", "link"} => entry[m.voucher].content.role # "interest"

LedgerInv ==
  /\ Mirrored
  /\ \A v \in Vouchers : Says(v) /\ Takes(v)
  /\ \A d \in Deposits : LinkedTo(d) /\ TakenOff(d)
  /\ \A r \in Requests : Recalls(request[r])

\* A voucher that was not posted takes another status.
LEMMA StillMirrored ==
  ASSUME BooksOK, Grounded, Mirrored, NEW v \in Vouchers, NEW to, to # "Posted",
         status[v] # "Posted", status' = [status EXCEPT ![v] = to], posted' = posted
  PROVE  Mirrored'
<1>1. status'[v] = to /\ \A w \in Vouchers \ {v} : status'[w] = status[w]
  BY DEF BooksOK
<1>2. \A p \in posted : p.voucher \in Vouchers \ {v}
  BY DEF Grounded, Mirrored
<1> QED
  BY <1>1, <1>2 DEF Mirrored

\* The desk posts a voucher with its posting, and leaves what vouchers credit.
LEMMA DeskPosts ==
  ASSUME DepositInv, RegisterInv, Mirrored, DeskStep
  PROVE  /\ Mirrored'
         /\ \A v \in Vouchers : Raised(v) => entry'[v].content.credit = entry[v].content.credit
<1>0. BooksOK /\ Grounded
  BY DEF DepositInv, RegisterInv
<1>1. ASSUME NEW v \in Vouchers, NEW from, NEW to, Desk!Become(v, from, to),
             "Posted" \notin from, to # "Posted", posted' = posted
      PROVE  Mirrored'
  BY <1>0, <1>1, StillMirrored DEF Desk!Become
<1>2. ASSUME NEW v \in Vouchers, Desk!Post(v) PROVE Mirrored'
  <2>1. /\ status' = [status EXCEPT ![v] = "Posted"]
        /\ posted' = posted \cup {[voucher |-> v, entry |-> entry[v]]}
    BY <1>2 DEF Desk!Post, Desk!Become
  <2>2. status'[v] = "Posted" /\ \A w \in Vouchers \ {v} : status'[w] = status[w]
    BY <1>0, <2>1 DEF BooksOK
  <2>3. IsFiniteSet(posted')
    BY <2>1, FS_AddElement DEF Mirrored
  <2>4. \A p \in posted' : status'[p.voucher] = "Posted"
    <3>1. \A p \in posted : p.voucher \in Vouchers /\ status[p.voucher] = "Posted"
      BY <1>0 DEF Grounded, Mirrored
    <3> QED
      BY <2>1, <2>2, <3>1
  <2>5. ASSUME NEW w \in Vouchers, status'[w] = "Posted" PROVE \E p \in posted' : p.voucher = w
    <3>1. CASE w = v
      <4>1. [voucher |-> v, entry |-> entry[v]] \in posted'
        BY <2>1
      <4> QED
        BY <3>1, <4>1
    <3>2. CASE w # v
      BY <2>1, <2>2, <2>5, <3>2 DEF Mirrored
    <3> QED
      BY <3>1, <3>2
  <2> QED
    BY <2>3, <2>4, <2>5 DEF Mirrored
<1>3. ASSUME NEW v \in Vouchers, Edit(v)
      PROVE  /\ Mirrored'
             /\ \A w \in Vouchers : Raised(w) => entry'[w].content.credit = entry[w].content.credit
  <2> DEFINE new == [entry[v].content EXCEPT !.role = "edited"]
             e == [entry[v] EXCEPT !.content = new]
  <2>1. status[v] \in {"Draft", "PendingApproval", "Rejected"}
    BY <1>3 DEF Edit
  <2>2. entry[v] \in CodedEntry /\ entry[v].content \in Coding
    BY <2>1, RaisedCoding DEF Raised, CodedEntry
  <2>3. new.credit = entry[v].content.credit /\ e.content = new
    BY <2>2 DEF CodedEntry, Coding
  <2>4. /\ status' = [status EXCEPT ![v] = "Draft"] /\ entry' = [entry EXCEPT ![v] = e]
        /\ posted' = posted
    BY <1>3, <2>2 DEF Edit, Desk!Write, Desk!Become, CodedEntry
  <2> HIDE DEF new, e
  <2>5. entry'[v] = e /\ \A w \in Vouchers \ {v} : entry'[w] = entry[w]
    BY <1>0, <2>4 DEF BooksOK
  <2>6. Mirrored'
    BY <1>0, <2>1, <2>4, StillMirrored
  <2> QED
    BY <2>3, <2>5, <2>6
<1>4. ASSUME NEW y \in Years, Desk!CreateYear(y) \/ Desk!OpenYear(y) \/ Desk!CloseYear(y)
      PROVE  Mirrored' /\ entry' = entry
  BY <1>4 DEF Desk!CreateYear, Desk!OpenYear, Desk!CloseYear, Mirrored
<1>5. ASSUME NEW v \in Vouchers,
             Desk!Submit(v) \/ Desk!Approve(v) \/ Desk!Reject(v) \/ Desk!Cancel(v) \/ Desk!Post(v)
      PROVE  Mirrored' /\ entry' = entry
  <2>1. CASE Desk!Submit(v)
    BY <1>1, <2>1 DEF Desk!Submit
  <2>2. CASE Desk!Approve(v)
    BY <1>1, <2>2 DEF Desk!Approve
  <2>3. CASE Desk!Reject(v)
    BY <1>1, <2>3 DEF Desk!Reject
  <2>4. CASE Desk!Cancel(v)
    BY <1>1, <2>4 DEF Desk!Cancel
  <2>5. CASE Desk!Post(v)
    BY <1>2, <2>5 DEF Desk!Post
  <2> QED
    BY <1>5, <2>1, <2>2, <2>3, <2>4, <2>5
<1> QED
  BY <1>3, <1>4, <1>5 DEF DeskStep

\* While no handler is in flight, the desk leaves the books as the register has them.
LEMMA LedgerDesk ==
  ASSUME DepositInv, RegisterInv, LedgerInv, DeskStep, Quiet
  PROVE  LedgerInv'
<1>0. DeskForm
  BY DeskChanges
<1>1. /\ Mirrored'
      /\ \A v \in Vouchers : Raised(v) => entry'[v].content.credit = entry[v].content.credit
  BY DeskPosts DEF LedgerInv
<1>2. deposit' = deposit /\ request' = request
  BY DEF DeskStep
<1>3. \A r \in Requests : request[r] = Idle /\ ~Placing(request[r])
  BY DEF Quiet, Placing
<1>4. \A v \in Vouchers : Live(v) => Raised(v)
  BY DEF Live, Raised
<1>5. ASSUME NEW v \in Vouchers PROVE Says(v)' /\ Takes(v)'
  <2>1. Says(v)'
    BY <1>0 DEF LedgerInv, Says, DeskForm
  <2>2. Takes(v)'
    BY <1>0, <1>1, <1>2, <1>4 DEF LedgerInv, Takes, DeskForm
  <2> QED
    BY <2>1, <2>2
<1>6. ASSUME NEW d \in Deposits PROVE LinkedTo(d)' /\ TakenOff(d)'
  <2>1. LinkedTo(d)'
    <3> SUFFICES ASSUME Present(d), deposit[d].placement # None PROVE LinkedTo(d)'
      BY <1>2 DEF LinkedTo, Present
    <3>1. PICK v : v = deposit[d].placement
      OBVIOUS
    <3>2. v \in Vouchers
      <4>1. deposit[d] \in DepositRow
        BY PresentRow DEF DepositInv
      <4> QED
        BY <3>1, <4>1 DEF DepositRow
    <3>3. deposit[d].source # "opening" /\ Raised(v) /\ entry[v].content.role # "interest"
      BY <3>1 DEF LedgerInv, LinkedTo
    <3>4. Raised(v)' /\ entry'[v].content.role # "interest"
      BY <1>0, <3>2, <3>3 DEF DeskForm
    <3> QED
      BY <1>2, <3>1, <3>3, <3>4 DEF LinkedTo, Raised
  <2>2. TakenOff(d)'
    BY <1>0, <1>2, <1>3 DEF LedgerInv, TakenOff, DeskForm
  <2> QED
    BY <2>1, <2>2
<1>7. \A r \in Requests : Recalls(request[r])'
  BY <1>2, <1>3 DEF Recalls
<1> QED
  BY <1>1, <1>5, <1>6, <1>7 DEF LedgerInv

\* A step that changes no table, of a handler that goes on renewing if it had begun to.
LEMMA LedgerStands ==
  ASSUME OneHandler, LedgerInv, NEW r \in Requests, books' = books, deposit' = deposit,
         Placing(request[r]) /\ request[r].op = "renew" /\ request[r].pc \in {"raise", "undo"} =>
           /\ Placing(request[r])' /\ request'[r].op = "renew"
           /\ request'[r].pc \in {"raise", "undo"} /\ request'[r].previous = request[r].previous,
         Recalls(request[r])'
  PROVE  LedgerInv'
<1>0. status' = status /\ entry' = entry /\ posted' = posted
  BY DEF books
<1>1. \A s \in Requests : s = r
  BY DEF OneHandler
<1>2. Mirrored'
  BY <1>0 DEF LedgerInv, Mirrored
<1>3. \A v \in Vouchers : Says(v)' /\ Takes(v)'
  BY <1>0 DEF LedgerInv, Says, Takes, Raised, Live
<1>4. ASSUME NEW d \in Deposits PROVE LinkedTo(d)' /\ TakenOff(d)'
  <2>1. LinkedTo(d)'
    BY <1>0 DEF LedgerInv, LinkedTo, Present, Raised
  <2>2. TakenOff(d)'
    BY <1>0, <1>1 DEF LedgerInv, TakenOff, Raised
  <2> QED
    BY <2>1, <2>2
<1> QED
  BY <1>1, <1>2, <1>3, <1>4 DEF LedgerInv

\* A row is loaded.
LEMMA LedgerLoads ==
  ASSUME OneHandler, DepositInv, LedgerInv, NEW r \in Requests,
         RenewLoad(r) \/ CloseLoad(r) \/ InterestLoad(r) \/ UpdateLoad(r) \/ MatureLoad(r)
  PROVE  LedgerInv'
<1>0. books' = books /\ deposit' = deposit /\ request[r] = Idle /\ TypeOK
  BY DEF RenewLoad, CloseLoad, InterestLoad, UpdateLoad, MatureLoad, Accept, DepositInv
<1>1. \A m : Accept(r, m) => request'[r] = m
  BY <1>0 DEF Accept, TypeOK
<1>2. CASE RenewLoad(r)
  <2>1. PICK d \in Deposits, p \in Principals :
          Accept(r, [Remember("renew", "write", d, p) EXCEPT !.previous = d, !.voucher = None])
    BY <1>2 DEF RenewLoad
  <2>2. request'[r] = [Remember("renew", "write", d, p) EXCEPT !.previous = d, !.voucher = None]
    BY <1>1, <2>1
  <2>3. /\ request'[r].op = "renew" /\ request'[r].pc = "write" /\ request'[r].previous = d
        /\ request'[r].owed = deposit[d].principal
    BY <2>2 DEF Remember
  <2>4. Recalls(request[r])'
    BY <1>0, <2>3 DEF Recalls, Placing
  <2> QED
    BY <1>0, <2>4, LedgerStands DEF Placing
<1>3. CASE CloseLoad(r)
  <2>1. PICK d \in Deposits :
          Accept(r, [Remember("close", "raise", d, deposit[d].principal) EXCEPT !.voucher = None])
    BY <1>3 DEF CloseLoad
  <2>2. request'[r] = [Remember("close", "raise", d, deposit[d].principal) EXCEPT !.voucher = None]
    BY <1>1, <2>1
  <2>3. /\ request'[r].op = "close" /\ request'[r].pc = "raise" /\ request'[r].id = d
        /\ request'[r].owed = deposit[d].principal
    BY <2>2 DEF Remember
  <2>4. Recalls(request[r])'
    BY <1>0, <2>3 DEF Recalls, Placing
  <2> QED
    BY <1>0, <2>4, LedgerStands DEF Placing
<1>4. CASE InterestLoad(r) \/ MatureLoad(r)
  <2>1. request'[r].op \in {"interest", "mature"}
    <3>1. CASE InterestLoad(r)
      <4>1. PICK d \in Deposits :
              Accept(r, [Remember("interest", "raise", d, deposit[d].principal) EXCEPT
                           !.voucher = None, !.was = "active"])
        BY <3>1 DEF InterestLoad
      <4>2. request'[r] = [Remember("interest", "raise", d, deposit[d].principal) EXCEPT
                             !.voucher = None, !.was = "active"]
        BY <1>1, <4>1
      <4> QED
        BY <4>2 DEF Remember
    <3>2. CASE MatureLoad(r)
      <4>1. PICK d \in Deposits : Accept(r, Remember("mature", "write", d, deposit[d].principal))
        BY <3>2 DEF MatureLoad
      <4>2. request'[r] = Remember("mature", "write", d, deposit[d].principal)
        BY <1>1, <4>1
      <4> QED
        BY <4>2 DEF Remember
    <3> QED
      BY <1>4, <3>1, <3>2
  <2>2. Recalls(request[r])'
    BY <2>1 DEF Recalls, Placing
  <2> QED
    BY <1>0, <2>2, LedgerStands DEF Placing
<1>5. CASE UpdateLoad(r)
  <2>1. PICK d, p, pc :
          /\ d \in Deposits /\ p \in Principals
          /\ deposit[d].status = "active"
          /\ Accept(r, Remember("update", pc, d, p))
    BY <1>5 DEF UpdateLoad
  <2>2. request'[r].op = "update" /\ request'[r].id = d
    BY <1>1, <2>1 DEF Remember
  <2>3. Recalls(request[r])'
    BY <1>0, <2>1, <2>2 DEF Recalls, Placing
  <2> QED
    BY <1>0, <2>3, LedgerStands DEF Placing
<1> QED
  BY <1>2, <1>3, <1>4, <1>5

\* A check passes or fails, a voucher is refused, a write fails.
LEMMA LedgerChecks ==
  ASSUME OneHandler, SerialInv, RegisterInv, LedgerInv, NEW r \in Requests,
         Refused(r) \/ UpdateCheck(r) \/ Fail(r)
  PROVE  LedgerInv'
<1> DEFINE m == request[r]
<1>0. /\ books' = books /\ deposit' = deposit /\ TypeOK /\ m # Idle
      /\ Recalls(m)
  BY DEF Refused, UpdateCheck, Fail, At, SerialInv, DepositInv, LedgerInv
<1>1. status' = status /\ entry' = entry /\ m \in Memory
  BY <1>0, MemoryRow DEF books
<1>2. ASSUME NEW pc \in {"undo", "write"}, Advance(r, pc), m.op # "close"
      PROVE  /\ request'[r].op = m.op /\ request'[r].pc = pc /\ request'[r].previous = m.previous
             /\ request'[r] # Idle
             /\ Placing(m) \/ ~Placing(request'[r]) => Recalls(request[r])'
  <2>1. request'[r] = [m EXCEPT !.pc = pc]
    BY <1>0, <1>2 DEF Advance, TypeOK
  <2>2. /\ request'[r].pc = pc /\ request'[r].op = m.op /\ request'[r].id = m.id
        /\ request'[r].previous = m.previous /\ request'[r].owed = m.owed
        /\ request'[r].voucher = m.voucher /\ request'[r] # Idle
    BY <1>1, <2>1 DEF Memory, Idle
  <2>3. ASSUME Placing(m) \/ ~Placing(request'[r]) PROVE Recalls(request[r])'
    BY <1>0, <1>1, <1>2, <2>2, <2>3 DEF Recalls
  <2> QED
    BY <2>2, <2>3
<1>3. CASE Refused(r) /\ m.op \in {"create", "renew"}
  <2>1. Advance(r, "undo") /\ Placing(m)
    BY <1>3 DEF Refused, At, Placing
  <2>2. Placing(request[r])'
    BY <1>2, <1>3, <2>1 DEF Placing
  <2> QED
    BY <1>0, <1>2, <1>3, <2>1, <2>2, LedgerStands
<1>4. CASE UpdateCheck(r)
  <2>1. Advance(r, "write") /\ m.op = "update"
    BY <1>4 DEF UpdateCheck, At
  <2>2. ~Placing(m) /\ ~Placing(request'[r])
    BY <1>2, <2>1 DEF Placing
  <2> QED
    BY <1>0, <1>2, <2>1, <2>2, LedgerStands
<1>5. CASE Finish(r) /\ ~(Placing(m) /\ m.op = "renew" /\ m.pc \in {"raise", "undo"})
  <2>1. request'[r] = Idle
    BY <1>0, <1>5 DEF Finish, TypeOK
  <2>2. Recalls(request[r])'
    BY <2>1 DEF Recalls
  <2> QED
    BY <1>0, <1>5, <2>2, LedgerStands
<1> QED
  <2>1. Refused(r) => m.op \in {"create", "renew"} \/ (Finish(r) /\ ~Placing(m))
    BY DEF Refused, Placing
  <2>2. Fail(r) => Finish(r) /\ ~(m.pc \in {"raise", "undo"})
    BY DEF Fail, At
  <2> QED
    BY <1>3, <1>4, <1>5, <2>1, <2>2

\* The last write of a handler keeps the books, if it leaves what vouchers say of a
\* deposit's principal, its link and its settlement so.
LEMMA LedgerEnds ==
  ASSUME OneHandler, DepositInv, LedgerInv, NEW r \in Requests, books' = books, Finish(r),
         \A v \in Vouchers : Live(v) /\ entry[v].content.from # None =>
           deposit'[entry[v].content.from].principal = entry[v].content.credit,
         \A d \in Deposits : deposit'[d] \notin Gone /\ deposit'[d].placement # None =>
           /\ deposit'[d].source # "opening"
           /\ Raised(deposit'[d].placement) /\ entry[deposit'[d].placement].content.role # "interest",
         \A d \in Deposits : deposit'[d].status \in Settled =>
           \E v \in Vouchers : Raised(v) /\ entry[v].content.from = d
  PROVE  LedgerInv'
<1>0. status' = status /\ entry' = entry /\ posted' = posted
  BY DEF books
<1>1. \A s \in Requests : request'[s] = Idle
  BY DEF OneHandler, Finish, DepositInv, TypeOK
<1>2. Mirrored'
  BY <1>0 DEF LedgerInv, Mirrored
<1>3. \A v \in Vouchers : Says(v)' /\ Takes(v)'
  BY <1>0 DEF LedgerInv, Says, Takes, Raised, Live
<1>4. \A d \in Deposits : LinkedTo(d)'
  BY <1>0 DEF LinkedTo, Present, Raised
<1>5. \A d \in Deposits : TakenOff(d)'
  BY <1>0 DEF TakenOff, Raised
<1>6. \A s \in Requests : Recalls(request[s])'
  BY <1>1 DEF Recalls
<1> QED
  BY <1>2, <1>3, <1>4, <1>5, <1>6 DEF LedgerInv

\* The link, the closure, the principal and the maturity.
LEMMA LedgerAmends ==
  ASSUME OneHandler, SerialInv, RegisterInv, LedgerInv, NEW r \in Requests,
         LinkPlacement(r) \/ CloseWrite(r) \/ UpdateWrite(r) \/ MatureWrite(r)
  PROVE  LedgerInv'
<1>1. PICK m, i, w : m = request[r] /\ i = m.id /\ w = m.voucher
  OBVIOUS
<1>2. /\ DepositInv /\ TypeOK /\ Recalls(m) /\ Knows(m) /\ Sound(m)
      /\ books' = books /\ \A s \in Requests : s = r
  BY <1>1 DEF SerialInv, DepositInv, RegisterInv, LedgerInv, Holding, LinkPlacement, CloseWrite,
              UpdateWrite, MatureWrite, OneHandler
<1>3. /\ m # Idle /\ i \in Deposits /\ Amended(i) /\ Finish(r)
      /\ LinkPlacement(r) \/ UpdateWrite(r) => deposit'[i].status = deposit[i].status
      /\ MatureWrite(r) => deposit'[i].status = "matured"
  BY <1>1, <1>2, AmendForm
<1>4. /\ deposit'[i].source = deposit[i].source
      /\ deposit'[i].principal = IF UpdateWrite(r) THEN m.amount ELSE deposit[i].principal
      /\ deposit'[i].placement = IF LinkPlacement(r) THEN w ELSE deposit[i].placement
  BY <1>1, <1>2, AmendValues
<1>5. /\ LinkPlacement(r) => m.pc = "link" /\ m.op \in {"create", "renew"}
      /\ CloseWrite(r) => m.pc = "link" /\ m.op = "close"
      /\ UpdateWrite(r) => m.op = "update"
      /\ MatureWrite(r) => m.op = "mature"
      /\ m.pc \in {"link", "write"}
  BY <1>1 DEF LinkPlacement, CloseWrite, UpdateWrite, MatureWrite, At
<1>6. Present(i) /\ \A d \in Deposits \ {i} : deposit'[d] = deposit[d]
  BY <1>3 DEF Amended
<1>7. ASSUME NEW v \in Vouchers, Live(v), entry[v].content.from # None
      PROVE  deposit'[entry[v].content.from].principal = entry[v].content.credit
  <2>1. PICK d : d = entry[v].content.from
    OBVIOUS
  <2>2. d \in Deposits /\ deposit[d].principal = entry[v].content.credit
    BY <1>2, <1>7, <2>1, RaisedCoding DEF LedgerInv, Takes, Live, Raised
  <2>3. ASSUME UpdateWrite(r) PROVE d # i
    <3>1. deposit[i].status = "active" /\ m.op = "update"
      BY <1>1, <1>2, <1>3, <1>5, <2>3 DEF Recalls
    <3>2. deposit[d].status \in Settled
      BY <1>1, <1>2, <1>7, <2>1, <3>1 DEF RegisterInv, Settles, At
    <3> QED
      BY <3>1, <3>2 DEF Settled
  <2> QED
    BY <1>4, <1>6, <2>1, <2>2, <2>3
<1>8. ASSUME NEW d \in Deposits, deposit'[d] \notin Gone, deposit'[d].placement # None
      PROVE  /\ deposit'[d].source # "opening"
             /\ Raised(deposit'[d].placement)
             /\ entry[deposit'[d].placement].content.role # "interest"
  <2>1. CASE d = i /\ LinkPlacement(r)
    <3>1. Placing(m) /\ m.pc = "link"
      BY <1>3, <1>5, <2>1 DEF Placing
    <3>2. Raised(w) /\ entry[w].content.role # "interest" /\ deposit[i].source # "opening"
      BY <1>1, <1>2, <1>3, <3>1 DEF Knows, Recalls
    <3> QED
      BY <1>4, <2>1, <3>2
  <2>2. CASE ~(d = i /\ LinkPlacement(r))
    <3>1. Present(d) /\ deposit'[d].source = deposit[d].source
          /\ deposit'[d].placement = deposit[d].placement
      BY <1>4, <1>6, <1>8, <2>2 DEF Present
    <3> QED
      BY <1>8, <3>1 DEF LedgerInv, LinkedTo
  <2> QED
    BY <2>1, <2>2
<1>9. ASSUME NEW d \in Deposits, deposit'[d].status \in Settled
      PROVE  \E v \in Vouchers : Raised(v) /\ entry[v].content.from = d
  <2>1. CASE d = i /\ CloseWrite(r)
    <3>1. w \in Vouchers
      BY <1>1, <1>2, <1>3, <1>5, <2>1 DEF Sound
    <3>2. Raised(w) /\ entry[w].content.from = i
      BY <1>1, <1>2, <1>3, <1>5, <2>1 DEF Recalls
    <3> QED
      BY <2>1, <3>1, <3>2
  <2>2. CASE ~(d = i /\ CloseWrite(r))
    <3>1. deposit[d].status \in Settled
      BY <1>3, <1>6, <1>9, <2>2 DEF Settled
    <3>2. ~(request[r].pc \in {"raise", "undo"})
      BY <1>1, <1>5
    <3> QED
      BY <1>2, <3>1, <3>2 DEF LedgerInv, TakenOff
  <2> QED
    BY <2>1, <2>2
<1> QED
  BY <1>2, <1>3, <1>7, <1>8, <1>9, LedgerEnds

\* A compensation.
LEMMA LedgerUndoes ==
  ASSUME OneHandler, SerialInv, RegisterInv, RegisterInv', SerialInv', LedgerInv,
         NEW r \in Requests, UndoCreate(r) \/ UndoRenewal(r)
  PROVE  LedgerInv'
<1>1. PICK m, i, p : m = request[r] /\ i = m.id /\ p = m.previous
  OBVIOUS
<1>2. /\ DepositInv /\ TypeOK /\ Knows(m)
      /\ books' = books /\ Finish(r) /\ \A s \in Requests : s = r
      /\ m # Idle /\ m.pc = "undo" /\ m.op \in {"create", "renew"}
  BY <1>1 DEF SerialInv, DepositInv, RegisterInv, UndoCreate, UndoRenewal, OneHandler, At
<1>3. Placing(m) /\ i \in Deposits /\ m.was \in Held
  BY <1>1, <1>2, MemoryRow DEF Placing
<1>4. /\ deposit'[i] \in Gone
      /\ m.op = "renew" => Present(p)
      /\ \A d \in Deposits \ {i} :
           /\ deposit'[d] \notin Gone <=> Present(d)
           /\ Present(d) => /\ deposit'[d].source = deposit[d].source
                            /\ deposit'[d].principal = deposit[d].principal
                            /\ deposit'[d].placement = deposit[d].placement
                            /\ deposit'[d].status = IF m.op = "renew" /\ d = p THEN m.was
                                                    ELSE deposit[d].status
           /\ ~Present(d) => deposit'[d] = deposit[d]
  BY <1>1, UndoValues DEF Undone, Present
<1>5. \A v \in Vouchers : Raised(v) => i \notin Named(v)
  BY <1>1, <1>2, <1>3 DEF Knows
<1>6. ASSUME NEW v \in Vouchers, Live(v), entry[v].content.from # None
      PROVE  deposit'[entry[v].content.from].principal = entry[v].content.credit
  <2>1. PICK d : d = entry[v].content.from
    OBVIOUS
  <2>2. Raised(v) /\ d \in Deposits /\ deposit[d].principal = entry[v].content.credit
    BY <1>2, <1>6, <2>1, RaisedCoding DEF LedgerInv, Takes, Live, Raised
  <2>3. d # i
    BY <1>5, <1>6, <2>1, <2>2 DEF Named
  <2> QED
    BY <1>4, <2>1, <2>2, <2>3
<1>7. ASSUME NEW d \in Deposits, deposit'[d] \notin Gone, deposit'[d].placement # None
      PROVE  /\ deposit'[d].source # "opening"
             /\ Raised(deposit'[d].placement)
             /\ entry[deposit'[d].placement].content.role # "interest"
  BY <1>4, <1>7 DEF LedgerInv, LinkedTo
<1>8. ASSUME NEW d \in Deposits, deposit'[d].status \in Settled
      PROVE  \E v \in Vouchers : Raised(v) /\ entry[v].content.from = d
  <2>1. d # i
    BY <1>4, <1>8 DEF Gone, Settled
  <2>2. ~(m.op = "renew" /\ d = p) /\ deposit[d].status \in Settled
    BY <1>3, <1>4, <1>8, <2>1 DEF Held, Settled
  <2> QED
    BY <1>1, <1>2, <2>2 DEF LedgerInv, TakenOff
<1> QED
  BY <1>2, <1>6, <1>7, <1>8, LedgerEnds

\* A row is put in.
LEMMA LedgerPuts ==
  ASSUME OneHandler, SerialInv, RegisterInv, LedgerInv, NEW r \in Requests,
         Create(r) \/ RenewWrite(r)
  PROVE  LedgerInv'
<1>0. DepositInv /\ TypeOK
  BY DEF SerialInv, DepositInv
<1>1. PICK i \in Deposits : Puts(r, i)
  BY <1>0, CreatePuts, RenewPuts
<1>2. PICK n : n = request'[r]
  OBVIOUS
<1>3. /\ books' = books
      /\ request[r] # Idle => request[r].op = "renew" /\ request[r].pc = "write"
      /\ deposit[i].status = "absent" /\ deposit'[i].status = "active"
      /\ deposit'[i].placement = None
  BY <1>1 DEF Puts
<1>4. \A d \in Deposits \ {i} :
        /\ Present(d)' <=> Present(d)
        /\ Present(d) => /\ deposit'[d].source = deposit[d].source
                         /\ deposit'[d].principal = deposit[d].principal
                         /\ deposit'[d].placement = deposit[d].placement
                         /\ \/ deposit'[d].status = deposit[d].status
                            \/ n # Idle /\ n.op = "renew" /\ n.previous = d
        /\ ~Present(d) => deposit'[d] = deposit[d]
  BY <1>1, <1>2 DEF Puts
<1>5. n = Idle \/
      /\ Placing(n) /\ n.pc = "raise" /\ n.id = i /\ deposit'[i].source # "opening"
      /\ n.op = "renew" => /\ n.previous \in Deposits /\ deposit[n.previous].status \in Held
                           /\ request[r] # Idle /\ n.previous = request[r].previous
                           /\ n.owed = request[r].owed
  BY <1>1, <1>2 DEF Puts
<1>6. status' = status /\ entry' = entry /\ posted' = posted /\ \A s \in Requests : s = r
  BY <1>3 DEF books, OneHandler
<1>7. ~Placing(request[r])
  BY <1>3 DEF Placing
<1>8. Mirrored' /\ \A v \in Vouchers : Says(v)'
  BY <1>6 DEF LedgerInv, Mirrored, Says, Raised
<1>9. ASSUME NEW v \in Vouchers PROVE Takes(v)'
  <2> SUFFICES ASSUME Live(v), entry[v].content.from # None PROVE Takes(v)'
    BY <1>6 DEF Takes, Live
  <2>1. PICK d : d = entry[v].content.from
    OBVIOUS
  <2>2. Raised(v) /\ d \in Deposits /\ deposit[d].principal = entry[v].content.credit
    BY <1>0, <2>1, RaisedCoding DEF LedgerInv, Takes, Live, Raised
  <2>3. d # i
    BY <1>3, <2>1, <2>2 DEF RegisterInv, Grounded, Named
  <2> QED
    BY <1>4, <1>6, <2>1, <2>2, <2>3 DEF Takes
<1>10. ASSUME NEW d \in Deposits PROVE LinkedTo(d)'
  BY <1>3, <1>4, <1>6 DEF LedgerInv, LinkedTo, Raised
<1>11. ASSUME NEW d \in Deposits PROVE TakenOff(d)'
  <2> SUFFICES ASSUME deposit'[d].status \in Settled PROVE TakenOff(d)'
    BY DEF TakenOff
  <2>1. d # i
    BY <1>3 DEF Settled
  <2>2. CASE deposit'[d].status = deposit[d].status
    <3>1. \E v \in Vouchers : Raised(v) /\ entry[v].content.from = d
      BY <1>6, <1>7, <2>2 DEF LedgerInv, TakenOff
    <3> QED
      BY <1>6, <3>1 DEF TakenOff, Raised
  <2>3. CASE n # Idle /\ n.op = "renew" /\ n.previous = d
    BY <1>2, <1>5, <2>3 DEF TakenOff, Placing
  <2> QED
    BY <1>4, <2>1, <2>2, <2>3
<1>12. Recalls(request[r])'
  <2>1. CASE n = Idle
    BY <1>2, <2>1 DEF Recalls
  <2>2. CASE n # Idle
    <3>1. n.pc = "raise" /\ n.id = i /\ deposit'[i].source # "opening" /\ n.op \in {"create", "renew"}
      BY <1>5, <2>2 DEF Placing
    <3>2. ASSUME n.op = "renew" PROVE deposit'[n.previous].principal = n.owed
      <4>1. PICK d : d = n.previous
        OBVIOUS
      <4>2. d \in Deposits /\ d # i /\ Present(d)
        BY <1>0, <1>3, <1>5, <2>2, <3>2, <4>1, PresentRow DEF Held
      <4>3. deposit[d].principal = n.owed
        BY <1>3, <1>5, <2>2, <3>2, <4>1 DEF LedgerInv, Recalls
      <4> QED
        BY <1>4, <4>1, <4>2, <4>3
    <3> QED
      BY <1>2, <3>1, <3>2 DEF Recalls
  <2> QED
    BY <2>1, <2>2
<1> QED
  BY <1>6, <1>8, <1>9, <1>10, <1>11, <1>12 DEF LedgerInv

\* The first half of raiseForApproval.
LEMMA LedgerDrafts ==
  ASSUME OneHandler, SerialInv, RegisterInv, LedgerInv, NEW r \in Requests, RaiseDraft(r)
  PROVE  LedgerInv'
<1>0. DepositInv /\ TypeOK /\ BooksOK /\ deposit' = deposit /\ Linked /\ Grounded
  BY DEF SerialInv, DepositInv, RegisterInv, RaiseDraft
<1>1. PICK m, c, n : m = request[r] /\ c = CodingOf(m) /\ n = request'[r]
  OBVIOUS
<1>2. /\ m # Idle /\ m \in Memory /\ m.pc = "raise"
      /\ m.op \in {"create", "renew", "close", "interest"}
      /\ Sound(m) /\ Fresh(m) /\ Kept(m) /\ Recalls(m) /\ Knows(m)
      /\ Placing(m) <=> m.op \in {"create", "renew"}
  <2>1. m # Idle /\ m.pc = "raise" /\ m.op \in {"create", "renew", "close", "interest"}
    BY <1>1 DEF RaiseDraft, At
  <2>2. Placing(m) <=> m.op \in {"create", "renew"}
    BY <2>1 DEF Placing
  <2> QED
    BY <1>0, <1>1, <2>1, <2>2, MemoryRow
       DEF DepositInv, Holding, SerialInv, RegisterInv, LedgerInv
<1>3. PICK v \in Vouchers, y \in Years :
        /\ status[v] = "Absent" /\ Desk!Write(v, [year |-> y, content |-> c])
        /\ request' = [request EXCEPT ![r].pc = "submit", ![r].voucher = v]
  BY <1>1 DEF RaiseDraft
<1>4. /\ c.role \in {"placement", "renewal"} <=> m.op \in {"create", "renew"}
      /\ m.op = "renew" => c.from = m.previous /\ c.credit = m.owed
      /\ m.op = "close" => c.from = m.id /\ c.credit = m.owed /\ c.into = None
      /\ m.op \in {"create", "interest"} => c.from = None
      /\ c.role = "interest" => c.debit = 0
      /\ c.role = "closure" => c.into = None
  BY <1>1, <1>2, CodingLines
<1>5. /\ status' = [status EXCEPT ![v] = "Draft"] /\ posted' = posted
      /\ status'[v] = "Draft" /\ entry'[v].content = c
      /\ \A w \in Vouchers \ {v} : status'[w] = status[w] /\ entry'[w] = entry[w]
  BY <1>0, <1>3 DEF Desk!Write, Desk!Become, BooksOK
<1>6. /\ Raised(v)' /\ ~Raised(v)
      /\ \A w \in Vouchers \ {v} : (Raised(w)' <=> Raised(w)) /\ (Live(w)' <=> Live(w))
      /\ \A s \in Requests : s = r
  BY <1>3, <1>5 DEF Raised, Live, OneHandler
<1>7. /\ n # Idle /\ n.op = m.op /\ n.pc = "submit" /\ n.id = m.id
      /\ n.previous = m.previous /\ n.owed = m.owed /\ n.voucher = v
      /\ Placing(n) <=> Placing(m)
  <2>1. n = [m EXCEPT !.pc = "submit", !.voucher = v]
    BY <1>0, <1>1, <1>3 DEF TypeOK
  <2>2. /\ n.op = m.op /\ n.pc = "submit" /\ n.id = m.id
        /\ n.previous = m.previous /\ n.owed = m.owed /\ n.voucher = v /\ n # Idle
    BY <1>2, <2>1 DEF Memory, Idle
  <2> QED
    BY <1>2, <2>2 DEF Placing
<1>8. Mirrored'
  BY <1>0, <1>3, <1>5, StillMirrored DEF LedgerInv
<1>9. ASSUME NEW w \in Vouchers PROVE Says(w)' /\ Takes(w)'
  <2>1. CASE w = v
    <3>1. Says(v)'
      BY <1>4, <1>5 DEF Says
    <3>2. m.op \in {"renew", "close"} => deposit[c.from].principal = c.credit
      BY <1>2, <1>4 DEF Recalls
    <3>3. Takes(v)'
      BY <1>0, <1>2, <1>4, <1>5, <3>2 DEF Takes
    <3> QED
      BY <2>1, <3>1, <3>3
  <2>2. CASE w # v
    BY <1>0, <1>5, <1>6, <2>2 DEF LedgerInv, Says, Takes
  <2> QED
    BY <2>1, <2>2
<1>10. ASSUME NEW d \in Deposits PROVE LinkedTo(d)'
  <2> SUFFICES ASSUME Present(d), deposit[d].placement # None PROVE LinkedTo(d)'
    BY <1>0 DEF LinkedTo, Present
  <2>1. PICK w : w = deposit[d].placement
    OBVIOUS
  <2>2. w \in Vouchers
    <3>1. deposit[d] \in DepositRow
      BY <1>0, PresentRow
    <3> QED
      BY <2>1, <3>1 DEF DepositRow
  <2>3. deposit[d].source # "opening" /\ Raised(w) /\ entry[w].content.role # "interest"
    BY <2>1 DEF LedgerInv, LinkedTo
  <2>4. w # v
    BY <1>6, <2>3
  <2>5. Raised(w)' /\ entry'[w].content.role # "interest"
    BY <1>5, <1>6, <2>2, <2>3, <2>4
  <2> QED
    BY <1>0, <2>1, <2>3, <2>5 DEF LinkedTo, Raised
<1>11. ASSUME NEW d \in Deposits PROVE TakenOff(d)'
  <2> SUFFICES ASSUME deposit[d].status \in Settled
               PROVE  \E w \in Vouchers : Raised(w)' /\ entry'[w].content.from = d
    BY <1>0 DEF TakenOff, Raised
  <2>1. CASE \E w \in Vouchers : Raised(w) /\ entry[w].content.from = d
    BY <1>5, <1>6, <2>1
  <2>2. CASE m.op = "renew" /\ m.previous = d
    BY <1>4, <1>5, <1>6, <2>2
  <2> QED
    BY <1>1, <1>6, <2>1, <2>2 DEF LedgerInv, TakenOff
<1>12. Recalls(request[r])'
  <2>1. /\ n.op = "renew" => deposit'[n.previous].principal = n.owed
        /\ n.op = "close" => deposit'[n.id].principal = n.owed
        /\ Placing(n) => deposit'[n.id].source # "opening"
    BY <1>0, <1>2, <1>7 DEF Recalls
  <2>2. /\ n.op = "close" => Raised(v)' /\ entry'[v].content.from = n.id
        /\ Placing(n) => entry'[v].content.role # "interest"
    BY <1>2, <1>4, <1>5, <1>6, <1>7
  <2>3. n.op # "update"
    BY <1>2, <1>7
  <2> QED
    BY <1>1, <1>7, <2>1, <2>2, <2>3 DEF Recalls, Raised
<1> QED
  BY <1>6, <1>8, <1>9, <1>10, <1>11, <1>12 DEF LedgerInv

\* The second half.
LEMMA LedgerSubmits ==
  ASSUME OneHandler, SerialInv, RegisterInv, LedgerInv, NEW r \in Requests, RaiseSubmit(r)
  PROVE  LedgerInv'
<1>0. DepositInv /\ TypeOK /\ BooksOK /\ deposit' = deposit /\ Grounded
  BY DEF SerialInv, DepositInv, RegisterInv, RaiseSubmit
<1>1. PICK m, n, v : m = request[r] /\ n = request'[r] /\ v = m.voucher
  OBVIOUS
<1>2. /\ m # Idle /\ m \in Memory /\ m.pc = "submit" /\ v \in Vouchers
      /\ m.op \in {"create", "renew", "close", "interest"} /\ Recalls(m)
  <2>1. m # Idle /\ m.pc = "submit" /\ m.op \in {"create", "renew", "close", "interest"}
    BY <1>1 DEF RaiseSubmit, At
  <2> QED
    BY <1>0, <1>1, <2>1, MemoryRow DEF DepositInv, Holding, Sound, LedgerInv
<1>3. /\ status[v] \in {"Draft", "Rejected"} /\ status' = [status EXCEPT ![v] = "PendingApproval"]
      /\ entry' = entry /\ posted' = posted
  BY <1>0, <1>1, <1>2 DEF RaiseSubmit, Desk!Submit, Desk!Become
<1>4. \A w \in Vouchers : (Raised(w)' <=> Raised(w)) /\ (Live(w)' <=> Live(w))
  BY <1>0, <1>3 DEF Raised, Live, BooksOK
<1>5. \A s \in Requests : s = r
  BY DEF OneHandler
<1>6. Mirrored'
  BY <1>0, <1>2, <1>3, StillMirrored DEF LedgerInv
<1>7. \A w \in Vouchers : Says(w)' /\ Takes(w)'
  BY <1>0, <1>3, <1>4 DEF LedgerInv, Says, Takes
<1>8. ASSUME NEW d \in Deposits PROVE LinkedTo(d)'
  <2> SUFFICES ASSUME Present(d), deposit[d].placement # None PROVE LinkedTo(d)'
    BY <1>0 DEF LinkedTo, Present
  <2>1. PICK w : w = deposit[d].placement
    OBVIOUS
  <2>2. w \in Vouchers
    <3>1. deposit[d] \in DepositRow
      BY <1>0, PresentRow
    <3> QED
      BY <2>1, <3>1 DEF DepositRow
  <2>3. deposit[d].source # "opening" /\ Raised(w)' /\ entry[w].content.role # "interest"
    BY <1>4, <2>1, <2>2 DEF LedgerInv, LinkedTo
  <2> QED
    BY <1>0, <1>3, <2>1, <2>3 DEF LinkedTo, Raised
<1>9. ASSUME NEW d \in Deposits PROVE TakenOff(d)'
  <2> SUFFICES ASSUME deposit[d].status \in Settled
               PROVE  \E w \in Vouchers : Raised(w)' /\ entry'[w].content.from = d
    BY <1>0 DEF TakenOff, Raised
  <2>1. \E w \in Vouchers : Raised(w) /\ entry[w].content.from = d
    BY <1>1, <1>2, <1>5 DEF LedgerInv, TakenOff
  <2> QED
    BY <1>3, <1>4, <2>1
<1>10. Recalls(request[r])'
  <2>1. CASE m.op = "interest"
    <3>1. n = Idle
      BY <1>0, <1>1, <2>1 DEF RaiseSubmit, Finish, TypeOK
    <3> QED
      BY <1>1, <3>1 DEF Recalls
  <2>2. CASE m.op # "interest"
    <3>1. n = [m EXCEPT !.pc = "link"]
      BY <1>0, <1>1, <2>2 DEF RaiseSubmit, Advance, TypeOK
    <3>2. /\ n.op = m.op /\ n.pc = "link" /\ n.id = m.id /\ n.voucher = v
          /\ n.previous = m.previous /\ n.owed = m.owed /\ n # Idle
      BY <1>1, <1>2, <3>1 DEF Memory, Idle
    <3>3. Placing(m) <=> Placing(n)
      BY <1>2, <3>2 DEF Placing
    <3>4. m.op = "close" => Raised(v)' /\ entry'[v].content.from = m.id
      BY <1>1, <1>2, <1>3, <1>4 DEF Recalls
    <3>5. Placing(m) => entry'[v].content.role # "interest"
      BY <1>1, <1>2, <1>3 DEF Recalls
    <3>6. /\ m.op = "renew" => deposit'[m.previous].principal = m.owed
          /\ m.op = "close" => deposit'[m.id].principal = m.owed
          /\ Placing(m) => deposit'[m.id].source # "opening"
      BY <1>0, <1>2 DEF Recalls
    <3>7. n.op # "update"
      BY <1>2, <3>2
    <3> QED
      BY <1>1, <3>2, <3>3, <3>4, <3>5, <3>6, <3>7 DEF Recalls, Raised
  <2> QED
    BY <2>1, <2>2
<1> QED
  BY <1>5, <1>6, <1>7, <1>8, <1>9, <1>10 DEF LedgerInv

\* A step of the only handler that is not a stop keeps the books.
LEMMA LedgerKeeps ==
  ASSUME OneHandler, SerialInv, SerialInv', RegisterInv, RegisterInv', LedgerInv,
         NEW r \in Requests, DepositStep(r), ~Stops(r)
  PROVE  LedgerInv'
<1>1. DepositInv
  BY DEF SerialInv
<1>2. CASE RenewLoad(r) \/ CloseLoad(r) \/ InterestLoad(r) \/ UpdateLoad(r) \/ MatureLoad(r)
  BY <1>1, <1>2, LedgerLoads
<1>3. CASE Refused(r) \/ UpdateCheck(r) \/ Fail(r)
  BY <1>3, LedgerChecks
<1>4. CASE LinkPlacement(r) \/ CloseWrite(r) \/ UpdateWrite(r) \/ MatureWrite(r)
  BY <1>4, LedgerAmends
<1>5. CASE UndoCreate(r) \/ UndoRenewal(r)
  BY <1>5, LedgerUndoes
<1>6. CASE Create(r) \/ RenewWrite(r)
  BY <1>6, LedgerPuts
<1>7. ~LinkFails(r) /\ (Crash(r) => Refused(r) \/ Fail(r))
  BY DEF Stops
<1> QED
  BY <1>2, <1>3, <1>4, <1>5, <1>6, <1>7, LedgerDrafts, LedgerSubmits, Zenon DEF DepositStep

\* A step that changes nothing.
LEMMA LedgerStutters ==
  ASSUME LedgerInv, UNCHANGED vars
  PROVE  LedgerInv'
<1>1. status' = status /\ entry' = entry /\ posted' = posted /\ deposit' = deposit /\ request' = request
  BY DEF vars, books
<1>2. Mirrored' /\ \A v \in Vouchers : Says(v)' /\ Takes(v)'
  BY <1>1 DEF LedgerInv, Mirrored, Says, Takes, Raised, Live
<1>3. \A d \in Deposits : LinkedTo(d)'
  BY <1>1 DEF LedgerInv, LinkedTo, Present, Raised
<1>4. \A d \in Deposits : TakenOff(d)'
  BY <1>1 DEF LedgerInv, TakenOff, Raised
<1>5. \A r \in Requests : Recalls(request[r])'
  BY <1>1 DEF LedgerInv, Recalls, Raised
<1> QED
  BY <1>2, <1>3, <1>4, <1>5 DEF LedgerInv

\* A deposit whose vouchers were all posted as they were raised: what went into its head is
\* its principal, unless it was there at opening, and what came off it is the principal once
\* it was renewed or closed.
LEMMA PostingsCome ==
  ASSUME SerialInv, RegisterInv, LedgerInv, Quiet, NEW d \in Deposits, Present(d),
         \A v \in Vouchers : Raised(v) /\ d \in Named(v) =>
           status[v] = "Posted" /\ entry[v].content.role # "edited"
  PROVE  BookBalance(d) = IF deposit[d].status \in Held THEN deposit[d].principal ELSE 0
<1>0. /\ DepositInv /\ TypeOK /\ Grounded /\ Mirrored
      /\ d # None /\ deposit[d] \in DepositRow /\ deposit[d].principal \in Int
      /\ \A r \in Requests : request[r] = Idle
  <2>1. DepositInv /\ TypeOK /\ Grounded /\ Mirrored /\ deposit[d] \in DepositRow
    BY PresentRow DEF SerialInv, DepositInv, RegisterInv, LedgerInv
  <2>2. deposit[d].principal \in Principals
    BY <2>1 DEF DepositRow
  <2>3. d # None /\ deposit[d].principal \in Int
    BY <2>2, NoneAssumption, PrincipalsAssumption
  <2> QED
    BY <2>1, <2>3 DEF Quiet
<1>1. PICK moved, principal : moved = {p.voucher : p \in posted} /\ principal = deposit[d].principal
  OBVIOUS
<1>2. IsFiniteSet(moved)
  <2>1. [p \in posted |-> p.voucher] \in Surjection(posted, moved)
    BY <1>1 DEF Surjection
  <2> QED
    BY <1>0, <2>1, FS_Surjection DEF Mirrored
<1>3. \A v \in moved : v \in Vouchers /\ Raised(v) /\ Live(v) /\ status[v] = "Posted"
  BY <1>0, <1>1 DEF Grounded, Mirrored, Live
<1>4. \A v \in Vouchers : Raised(v) /\ d \in Named(v) => v \in moved /\ entry[v].content.role # "edited"
  BY <1>0, <1>1 DEF Mirrored
<1>5. PICK into : into = [v \in moved |-> IF entry[v].content.into = d THEN entry[v].content.debit ELSE 0]
  OBVIOUS
<1>6. PICK off : off = [v \in moved |-> IF entry[v].content.from = d THEN entry[v].content.credit ELSE 0]
  OBVIOUS
<1>7. BookBalance(d) = SumFunctionOnSet(into, moved) - SumFunctionOnSet(off, moved)
                       + (IF deposit[d].source = "opening" THEN principal ELSE 0)
  BY <1>1, <1>5, <1>6 DEF BookBalance
<1>8. ASSUME NEW v \in moved, entry[v].content.into = d, entry[v].content.debit # 0
      PROVE  deposit[d].placement = v /\ entry[v].content.debit = principal
  <2>1. d \in Named(v) /\ entry[v].content.role # "edited"
    BY <1>0, <1>3, <1>4, <1>8 DEF Named
  <2>2. entry[v].content \in Coding
    BY <1>0, <1>3, RaisedCoding DEF CodedEntry
  <2>3. entry[v].content.role \in {"placement", "renewal"}
    BY <1>0, <1>3, <1>8, <2>1, <2>2 DEF LedgerInv, Says, Coding
  <2> QED
    BY <1>0, <1>1, <1>3, <1>8, <2>3 DEF RegisterInv, Places, Placing
<1>9. SumFunctionOnSet(into, moved) = IF deposit[d].source = "opening" THEN 0 ELSE principal
  <2>1. CASE deposit[d].source = "opening"
    <3>1. deposit[d].placement = None
      BY <2>1 DEF LedgerInv, LinkedTo
    <3>2. \A v \in moved : into[v] = 0
      <4>1. None \notin Vouchers
        BY NoneAssumption
      <4> QED
        BY <1>3, <1>5, <1>8, <3>1, <4>1
    <3> QED
      BY <1>2, <2>1, <3>2, SumZeros
  <2>2. CASE deposit[d].source # "opening"
    <3>1. PICK w : w = deposit[d].placement
      OBVIOUS
    <3>2. w \in Vouchers /\ Raised(w) /\ entry[w].content.into = d
      BY <1>0, <2>2, <3>1 DEF RegisterInv, RowPlaced, Placing
    <3>3. d \in Named(w)
      BY <1>0, <3>2 DEF Named
    <3>4. w \in moved /\ entry[w].content.role # "edited"
      BY <1>4, <3>2, <3>3
    <3>5. entry[w].content.role \in {"placement", "renewal"}
      <4>1. entry[w].content \in Coding
        BY <1>0, <3>2, RaisedCoding DEF CodedEntry
      <4>2. entry[w].content.role # "interest"
        BY <3>1, <3>2, NoneAssumption DEF LedgerInv, LinkedTo
      <4>3. entry[w].content.role # "closure"
        BY <1>0, <3>2 DEF LedgerInv, Says
      <4> QED
        BY <3>4, <4>1, <4>2, <4>3 DEF Coding
    <3>6. entry[w].content.debit = principal
      BY <1>1, <1>3, <3>2, <3>4, <3>5 DEF RegisterInv, Places
    <3>7. into[w] = principal
      BY <1>5, <3>2, <3>4, <3>6
    <3>8. \A v \in moved \ {w} : into[v] = 0
      BY <1>5, <1>8, <3>1
    <3> QED
      BY <1>0, <1>1, <1>2, <2>2, <3>4, <3>7, <3>8, SumOne
  <2> QED
    BY <2>1, <2>2
<1>10. SumFunctionOnSet(off, moved) = IF deposit[d].status \in Held THEN 0 ELSE principal
  <2>1. CASE deposit[d].status \in Held
    <3>1. \A v \in moved : entry[v].content.from # d
      BY <1>0, <1>3, <2>1 DEF RegisterInv, Settles, At, Held, Settled
    <3>2. \A v \in moved : off[v] = 0
      BY <1>6, <3>1
    <3> QED
      BY <1>2, <2>1, <3>2, SumZeros
  <2>2. CASE deposit[d].status \notin Held
    <3>1. deposit[d].status \in Settled
      BY <1>0, <2>2 DEF DepositRow
    <3>2. PICK w \in Vouchers : Raised(w) /\ entry[w].content.from = d
      BY <1>0, <3>1 DEF LedgerInv, TakenOff, Placing
    <3>3. d \in Named(w)
      BY <1>0, <3>2 DEF Named
    <3>4. w \in moved
      BY <1>4, <3>2, <3>3
    <3>5. off[w] = principal
      BY <1>0, <1>1, <1>3, <1>6, <3>2, <3>4 DEF LedgerInv, Takes
    <3>6. \A v \in moved \ {w} : off[v] = 0
      <4>1. \A v \in moved \ {w} : entry[v].content.from # d
        BY <1>0, <1>3, <3>2, <3>4 DEF RegisterInv, SettlesAlone
      <4> QED
        BY <1>6, <4>1
    <3> QED
      BY <1>0, <1>1, <1>2, <2>2, <3>4, <3>5, <3>6, SumOne
  <2> QED
    BY <2>1, <2>2
<1> QED
  <2>1. principal \in Int
    BY <1>0, <1>1
  <2> QED
    BY <1>1, <1>7, <1>9, <1>10, <2>1

\* While handlers follow one another, the desk works between them and none is stopped half
\* way, the postings on the deposit head of every deposit whose vouchers were posted as they
\* were raised come to its principal while it is held and to nothing once it was renewed or
\* closed, however many deposits, vouchers and postings there are.  (records, create, renew,
\* close, recordInterest.)
THEOREM BooksHold ==
  ASSUME OneHandler, ~Interleaved
  PROVE  MCSpec => []BooksUntilCrash
<1> DEFINE Inv == SerialInv /\ (~crashed => RegisterInv /\ LedgerInv)
<1>1. MCInit => Inv
  <2> SUFFICES ASSUME MCInit PROVE Inv
    OBVIOUS
  <2>1. Init
    BY DEF MCInit
  <2>2. SerialInv
    BY <2>1, SerialInit
  <2>3. \A v \in Vouchers : status[v] = "Absent" /\ ~Raised(v) /\ ~Live(v)
    BY <2>1 DEF Init, Desk!Init, Raised, Live
  <2>4. \A d \in Deposits : ~Present(d) /\ deposit[d].status \notin Settled
    BY <2>1 DEF Init, Present, Gone, Settled
  <2>5. \A r \in Requests : Recalls(request[r])
    BY <2>1 DEF Init, Recalls
  <2>6. posted = {}
    BY <2>1 DEF Init, Desk!Init
  <2>7. Mirrored
    BY <2>3, <2>6, FS_EmptySet DEF Mirrored
  <2>8. LedgerInv
    BY <2>3, <2>4, <2>5, <2>7 DEF LedgerInv, Says, Takes, LinkedTo, TakenOff
  <2> QED
    BY <2>1, <2>2, <2>8, RegisterInit
<1>2. Inv /\ [MCNext]_<<vars, crashed>> => Inv'
  <2> SUFFICES ASSUME Inv, [MCNext]_<<vars, crashed>> PROVE Inv'
    OBVIOUS
  <2>1. [Next]_vars
    BY DEF MCNext
  <2>2. SerialInv /\ SerialInv' /\ DepositInv
    BY <2>1, SerialStep DEF SerialInv
  <2>3. ASSUME ~crashed' PROVE RegisterInv' /\ LedgerInv'
    <3>1. RegisterInv /\ LedgerInv
      BY <2>3 DEF MCNext
    <3>2. RegisterInv'
      BY <2>2, <2>3, <3>1, RegisterUnstopped
    <3>3. CASE UNCHANGED vars
      BY <3>1, <3>2, <3>3, LedgerStutters
    <3>4. CASE DeskStep
      <4>1. Quiet
        BY <3>4 DEF DeskStep
      <4> QED
        BY <2>2, <3>1, <3>2, <3>4, <4>1, LedgerDesk
    <3>5. ASSUME NEW r \in Requests, DepositStep(r), MCNext PROVE LedgerInv'
      <4>1. ~Stops(r)
        BY <2>3, <3>5 DEF MCNext
      <4> QED
        BY <2>2, <3>1, <3>2, <3>5, <4>1, LedgerKeeps
    <3>6. MCNext \/ UNCHANGED vars
      BY DEF MCNext
    <3> QED
      BY <3>2, <3>3, <3>4, <3>5, <3>6 DEF MCNext, Next
  <2> QED
    BY <2>2, <2>3
<1>3. Inv => BooksUntilCrash
  BY PostingsCome DEF BooksUntilCrash, BooksMatch, Raised
<1> QED
  BY <1>1, <1>2, <1>3, PTL DEF MCSpec
=============================================================================
