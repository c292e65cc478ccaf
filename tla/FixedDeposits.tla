---------------------------- MODULE FixedDeposits ----------------------------
(***************************************************************************)
(* FixedDepositsService: placing, editing, maturing, renewing and closing  *)
(* term deposits.  A deposit row and the voucher that puts its principal   *)
(* on the books are written in different transactions; the service checks  *)
(* first, writes the row, raises the voucher, links the two, and undoes    *)
(* the row when the voucher is refused.                                    *)
(*                                                                         *)
(* The vouchers are those of AtomicBooks: every operation of the voucher   *)
(* desk is one step here, so that what this module shows is what the       *)
(* deposit handlers themselves get right or wrong.                         *)
(***************************************************************************)
EXTENDS Integers, FiniteSets, Functions

CONSTANTS
  Vouchers, Years,
  Deposits,      \* deposit ids; an id that was deleted is not used again
  Principals,    \* amounts a deposit may hold
  Requests,      \* how many deposit handlers may be in flight
  None,          \* the null of an id
  Interleaved,   \* whether the voucher desk works while a handler is in flight
  MayCrash       \* whether a handler may stop between two statements

ASSUME PrincipalsAssumption == Principals \subseteq Nat \ {0}
ASSUME NoneAssumption == None \notin Deposits \cup Vouchers
ASSUME SwitchesAssumption == Interleaved \in BOOLEAN /\ MayCrash \in BOOLEAN

VARIABLES
  status, entry, posted, phase, published,   \* the books, as in AtomicBooks
  deposit,                                   \* the fixed_deposits table
  request                                    \* what each handler remembers

books == <<status, entry, posted, phase, published>>
vars == <<books, deposit, request>>

\* What the lines of a voucher say of deposits: the principal it debits to one
\* and credits off another.  A voucher changed at the desk is "edited".
Coding ==
  [role : {"placement", "renewal", "closure", "interest", "edited"},
   into : Deposits \cup {None}, debit : Nat,
   from : Deposits \cup {None}, credit : Nat]

Desk == INSTANCE AtomicBooks WITH Contents <- Coding

-----------------------------------------------------------------------------
(* Rows and memories *)

Held == {"active", "matured"}
Settled == {"renewed", "closed"}

Gone == {[status |-> "absent"], [status |-> "deleted"]}

DepositRow ==
  [status : Held \cup Settled,
   source : {"bank", "endowment", "renewal", "opening"},
   principal : Principals, renewedFrom : Deposits \cup {None},
   placement : Vouchers \cup {None}, closure : Vouchers \cup {None}]

\* What a placement asks for.
Placement == [source : {"bank", "endowment", "opening"}, principal : Principals]

Idle == [pc |-> "idle"]

Memory ==
  [op : {"create", "update", "mature", "renew", "interest", "close"},
   pc : {"check", "write", "raise", "submit", "link", "undo"},
   id : Deposits, amount : Principals,
   previous : Deposits \cup {None}, owed : Principals, was : Held,
   voucher : Vouchers \cup {None}]

Present(d) == deposit[d] \notin Gone

New(source, principal, renewedFrom) ==
  [status |-> "active", source |-> source, principal |-> principal,
   renewedFrom |-> renewedFrom, placement |-> None, closure |-> None]

\* What a handler remembers of the row it loaded.
Remember(op, pc, d, amount) ==
  [op |-> op, pc |-> pc, id |-> d, amount |-> amount, previous |-> None,
   owed |-> deposit[d].principal, was |-> deposit[d].status,
   voucher |-> deposit[d].placement]

Lines(role, into, debit, from, credit) ==
  [role |-> role, into |-> into, debit |-> debit, from |-> from, credit |-> credit]

CodingOf(m) ==
  CASE m.op = "create"   -> Lines("placement", m.id, m.amount, None, 0)
    [] m.op = "renew"    -> Lines("renewal", m.id, m.amount, m.previous, m.owed)
    [] m.op = "close"    -> Lines("closure", None, 0, m.id, m.owed)
    [] m.op = "interest" -> Lines("interest", m.id, 0, None, 0)

Named(v) == {entry[v].content.into, entry[v].content.from} \ {None}

\* A foreign key set to null on delete would have to change lines of a posted
\* voucher and ledger entries, and their triggers refuse that.
Deletable(d) == \A p \in posted : d \notin Named(p.voucher)

Delete(table, d) ==
  [e \in Deposits |->
     IF e = d THEN [status |-> "deleted"]
     ELSE IF table[e] \notin Gone /\ table[e].renewedFrom = d
          THEN [table[e] EXCEPT !.renewedFrom = None]
          ELSE table[e]]

-----------------------------------------------------------------------------
(* Steps of a handler *)

Accept(r, memory) ==
  /\ request[r] = Idle
  /\ request' = [request EXCEPT ![r] = memory]

At(r, ops, pc) == request[r] # Idle /\ request[r].op \in ops /\ request[r].pc = pc

Finish(r) == request' = [request EXCEPT ![r] = Idle]

Advance(r, pc) == request' = [request EXCEPT ![r].pc = pc]

\* create: the row, and for a deposit held at opening nothing more.
Create(r) ==
  /\ \E d \in Deposits, body \in Placement :
       /\ deposit[d].status = "absent"
       /\ deposit' = [deposit EXCEPT ![d] = New(body.source, body.principal, None)]
       /\ request[r] = Idle
       /\ IF body.source = "opening"
          THEN UNCHANGED request
          ELSE Accept(r, [op |-> "create", pc |-> "raise", id |-> d,
                          amount |-> body.principal, previous |-> None,
                          owed |-> body.principal, was |-> "active", voucher |-> None])
  /\ UNCHANGED books

\* Mutant: the old certificate keeps its status.
BugRenewWrite(r) ==
  /\ At(r, {"renew"}, "write")
  /\ Present(request[r].previous)
  /\ \E e \in Deposits :
       /\ deposit[e].status = "absent"
       /\ deposit' = [deposit EXCEPT
            ![e] = New("renewal", request[r].amount, request[r].previous)]
       /\ request' = [request EXCEPT ![r].pc = "raise", ![r].id = e]
  /\ UNCHANGED books

RenewLoad(r) ==
  /\ \E d \in Deposits, p \in Principals :
       /\ deposit[d].status \in Held
       /\ p >= deposit[d].principal
       /\ Accept(r, [Remember("renew", "write", d, p) EXCEPT
                       !.previous = d, !.voucher = None])
  /\ UNCHANGED <<books, deposit>>

\* One transaction: the old row is marked, the new one links back.
RenewWrite(r) ==
  /\ At(r, {"renew"}, "write")
  /\ Present(request[r].previous)
  /\ \E e \in Deposits :
       /\ deposit[e].status = "absent"
       /\ deposit' = [deposit EXCEPT
            ![request[r].previous].status = "renewed",
            ![e] = New("renewal", request[r].amount, request[r].previous)]
       /\ request' = [request EXCEPT ![r].pc = "raise", ![r].id = e]
  /\ UNCHANGED books

\* Mutant: a settled deposit may be closed.
BugCloseLoad(r) ==
  /\ \E d \in Deposits :
       /\ Present(d)
       /\ Accept(r, [Remember("close", "raise", d, deposit[d].principal) EXCEPT
                       !.voucher = None, !.was = "active"])
  /\ UNCHANGED <<books, deposit>>

CloseLoad(r) ==
  /\ \E d \in Deposits :
       /\ deposit[d].status \in Held
       /\ Accept(r, [Remember("close", "raise", d, deposit[d].principal) EXCEPT
                       !.voucher = None])
  /\ UNCHANGED <<books, deposit>>

\* recordInterest does not look at the status.
InterestLoad(r) ==
  /\ \E d \in Deposits :
       /\ Present(d)
       /\ Accept(r, [Remember("interest", "raise", d, deposit[d].principal) EXCEPT
                       !.voucher = None, !.was = "active"])
  /\ UNCHANGED <<books, deposit>>

\* raiseForApproval, first half: the lines may only name deposits that are there.
RaiseDraft(r) ==
  /\ At(r, {"create", "renew", "close", "interest"}, "raise")
  /\ LET coding == CodingOf(request[r])
     IN /\ \A d \in {coding.into, coding.from} \ {None} : Present(d)
        /\ \E v \in Vouchers, y \in Years :
             /\ status[v] = "Absent"
             /\ Desk!Write(v, [year |-> y, content |-> coding])
             /\ request' = [request EXCEPT ![r].pc = "submit", ![r].voucher = v]
  /\ UNCHANGED deposit

\* raiseForApproval, second half.
RaiseSubmit(r) ==
  /\ At(r, {"create", "renew", "close", "interest"}, "submit")
  /\ Desk!Submit(request[r].voucher)
  /\ IF request[r].op = "interest" THEN Finish(r) ELSE Advance(r, "link")
  /\ UNCHANGED deposit

CanSubmit(v) == status[v] \in {"Draft", "Rejected"} /\ Desk!Open(entry[v].year)

\* The voucher is refused: by its coding checks or a closed year before it is
\* inserted, or because the desk got to the draft before submit did.
Refused(r) ==
  /\ \/ At(r, {"create", "renew", "close", "interest"}, "raise")
     \/ /\ At(r, {"create", "renew", "close", "interest"}, "submit")
        /\ ~CanSubmit(request[r].voucher)
  /\ IF request[r].op \in {"create", "renew"} THEN Advance(r, "undo") ELSE Finish(r)
  /\ UNCHANGED <<books, deposit>>

LinkPlacement(r) ==
  /\ At(r, {"create", "renew"}, "link")
  /\ deposit' = [deposit EXCEPT ![request[r].id].placement = request[r].voucher]
  /\ Finish(r)
  /\ UNCHANGED books

UndoCreate(r) ==
  /\ At(r, {"create"}, "undo")
  /\ deposit' = IF Deletable(request[r].id) THEN Delete(deposit, request[r].id) ELSE deposit
  /\ Finish(r)
  /\ UNCHANGED books

\* Mutant: the old certificate stays marked renewed.
BugUndoRenewal(r) ==
  /\ At(r, {"renew"}, "undo")
  /\ deposit' = IF Deletable(request[r].id) THEN Delete(deposit, request[r].id) ELSE deposit
  /\ Finish(r)
  /\ UNCHANGED books

\* One transaction: the new row is deleted and the old status restored.
UndoRenewal(r) ==
  /\ At(r, {"renew"}, "undo")
  /\ LET m == request[r]
     IN deposit' = IF Deletable(m.id) /\ Present(m.previous)
                   THEN [Delete(deposit, m.id) EXCEPT ![m.previous].status = m.was]
                   ELSE deposit
  /\ Finish(r)
  /\ UNCHANGED books

CloseWrite(r) ==
  /\ At(r, {"close"}, "link")
  /\ Present(request[r].id)
  /\ deposit' = [deposit EXCEPT ![request[r].id].status = "closed",
                                ![request[r].id].closure = request[r].voucher]
  /\ Finish(r)
  /\ UNCHANGED books

\* update: the voucher is looked at only when the principal differs from the
\* loaded one, the principal is written either way.
UpdateLoad(r) ==
  /\ \E d \in Deposits, p \in Principals :
       /\ deposit[d].status = "active"
       /\ Accept(r, Remember("update", IF p = deposit[d].principal THEN "write" ELSE "check",
                            d, p))
  /\ UNCHANGED <<books, deposit>>

\* Mutant: a voucher that is not posted does not hold the principal.
BugPrincipalIsEditable(v) == v # None => status[v] # "Posted"

\* The placement voucher named by the loaded row is cancelled, or there is none.
PrincipalIsEditable(v) == v # None => status[v] = "Cancelled"

UpdateCheck(r) ==
  /\ At(r, {"update"}, "check")
  /\ PrincipalIsEditable(request[r].voucher)
  /\ Advance(r, "write")
  /\ UNCHANGED <<books, deposit>>

UpdateWrite(r) ==
  /\ At(r, {"update"}, "write")
  /\ Present(request[r].id)
  /\ deposit' = [deposit EXCEPT ![request[r].id].principal = request[r].amount]
  /\ Finish(r)
  /\ UNCHANGED books

\* Mutant: a settled deposit may be marked matured.
BugMatureLoad(r) ==
  /\ \E d \in Deposits :
       /\ Present(d)
       /\ Accept(r, [Remember("mature", "write", d, deposit[d].principal) EXCEPT
                       !.was = "active"])
  /\ UNCHANGED <<books, deposit>>

\* changeStatus, which the controller calls for matured only.
MatureLoad(r) ==
  /\ \E d \in Deposits :
       /\ deposit[d].status = "active"
       /\ Accept(r, Remember("mature", "write", d, deposit[d].principal))
  /\ UNCHANGED <<books, deposit>>

MatureWrite(r) ==
  /\ At(r, {"mature"}, "write")
  /\ Present(request[r].id)
  /\ deposit' = [deposit EXCEPT ![request[r].id].status = "matured"]
  /\ Finish(r)
  /\ UNCHANGED books

\* A check throws, the row a write names is gone, or the certificate number it
\* sets belongs to another deposit.
Fail(r) ==
  /\ \/ At(r, {"update"}, "check") /\ ~PrincipalIsEditable(request[r].voucher)
     \/ At(r, {"mature"}, "write") /\ ~Present(request[r].id)
     \/ At(r, {"update", "renew"}, "write")
     \/ At(r, {"close"}, "link") /\ ~Present(request[r].id)
  /\ Finish(r)
  /\ UNCHANGED <<books, deposit>>

\* The update that links the voucher fails after the voucher was raised.
LinkFails(r) ==
  /\ MayCrash
  /\ At(r, {"create", "renew"}, "link")
  /\ Advance(r, "undo")
  /\ UNCHANGED <<books, deposit>>

Crash(r) ==
  /\ MayCrash
  /\ request[r] # Idle
  /\ Finish(r)
  /\ UNCHANGED <<books, deposit>>

-----------------------------------------------------------------------------
(* The voucher desk and the years *)

Quiet == \A r \in Requests : request[r] = Idle

\* An edit keeps or changes the amounts; from then on the voucher no longer
\* says what the handler raised.
Edit(v) ==
  /\ status[v] \in {"Draft", "PendingApproval", "Rejected"}
  /\ Desk!Write(v, [entry[v] EXCEPT !.content.role = "edited"])

DeskStep ==
  /\ Interleaved \/ Quiet
  /\ \/ \E v \in Vouchers : \/ Edit(v) \/ Desk!Submit(v) \/ Desk!Approve(v)
                            \/ Desk!Reject(v) \/ Desk!Cancel(v) \/ Desk!Post(v)
     \/ \E y \in Years : Desk!CreateYear(y) \/ Desk!OpenYear(y) \/ Desk!CloseYear(y)
  /\ UNCHANGED <<deposit, request>>

DepositStep(r) ==
  \/ Create(r)
  \/ RenewLoad(r) \/ RenewWrite(r)
  \/ InterestLoad(r)
  \/ CloseLoad(r) \/ CloseWrite(r)
  \/ RaiseDraft(r) \/ RaiseSubmit(r) \/ Refused(r)
  \/ LinkPlacement(r) \/ LinkFails(r) \/ UndoCreate(r) \/ UndoRenewal(r)
  \/ UpdateLoad(r) \/ UpdateCheck(r) \/ UpdateWrite(r)
  \/ MatureLoad(r) \/ MatureWrite(r)
  \/ Fail(r) \/ Crash(r)

Init ==
  /\ Desk!Init
  /\ deposit = [d \in Deposits |-> [status |-> "absent"]]
  /\ request = [r \in Requests |-> Idle]

Next == DeskStep \/ \E r \in Requests : DepositStep(r)

Spec == Init /\ [][Next]_vars

-----------------------------------------------------------------------------
(* Properties *)

\* The shape of the register, of the memories, and of what vouchers say.
TypeOK ==
  /\ deposit \in [Deposits -> Gone \cup DepositRow]
  /\ request \in [Requests -> {Idle} \cup Memory]
  /\ \A v \in Vouchers : status[v] # "Absent" =>
       entry[v] \in [year : Years, content : Coding]

Live(v) == status[v] \notin {"Absent", "Cancelled"}

\* bookBalance of a record: the postings on the deposit head, and the principal
\* of a deposit that was already in the head's opening balance.
BookBalance(d) ==
  LET said(v) == entry[v].content
      moved == {p.voucher : p \in posted}
      into == [v \in moved |-> IF said(v).into = d THEN said(v).debit ELSE 0]
      off == [v \in moved |-> IF said(v).from = d THEN said(v).credit ELSE 0]
  IN SumFunctionOnSet(into, moved) - SumFunctionOnSet(off, moved)
     + (IF deposit[d].source = "opening" THEN deposit[d].principal ELSE 0)

\* bookDifference is nil: once every voucher raised for a deposit is posted as it
\* was raised, the deposit head holds its principal while it is held and nothing
\* after it was renewed or closed.  (records, and every handler that raises.)
BooksMatch ==
  Quiet => \A d \in Deposits :
    Present(d) /\ (\A v \in Vouchers : status[v] # "Absent" /\ d \in Named(v) =>
                     status[v] = "Posted" /\ entry[v].content.role # "edited") =>
      BookBalance(d) = IF deposit[d].status \in Held THEN deposit[d].principal ELSE 0

\* The row is removed if the voucher is refused: a deposit that is not being
\* placed any more was there at opening or is linked to the voucher that put its
\* principal on the books.  (Comment above create.)
PlacedOnBooks ==
  \A d \in Deposits :
    Present(d) /\ deposit[d].source # "opening"
    /\ (\A r \in Requests : request[r] # Idle /\ request[r].op \in {"create", "renew"} =>
          request[r].id # d) =>
      deposit[d].placement # None /\ entry[deposit[d].placement].content.into = d

\* While a voucher that put a principal on the books is not cancelled, the
\* register holds the same principal.  (assertPrincipalIsEditable.)
PrincipalStandsOnBooks ==
  \A d \in Deposits, v \in Vouchers :
    Present(d) /\ Live(v) /\ entry[v].content.role \in {"placement", "renewal"}
    /\ entry[v].content.into = d =>
      deposit[d].principal = entry[v].content.debit

\* The principal of a deposit is taken off the books by one voucher at most, the
\* receipt of its closure or the journal of its renewal: a settled deposit cannot
\* be closed or renewed again.  (close and renew.)
PrincipalLeavesOnce ==
  \A d \in Deposits :
    Cardinality({v \in Vouchers : Live(v) /\ entry[v].content.from = d}) <= 1

\* A deposit is renewed into one certificate, so that the chain of certificates
\* can be walked from either end.  (renew and renewalChain.)
ChainIsLinear ==
  \A d, e \in Deposits :
    Present(d) /\ Present(e) /\ deposit[d].renewedFrom # None
    /\ deposit[d].renewedFrom = deposit[e].renewedFrom => d = e

\* A deposit marked renewed always has the certificate it was renewed into, even
\* when renewals of it overlap and some are undone.  (renew and its compensation.)
RenewedHasSuccessor ==
  \A d \in Deposits : deposit[d].status = "renewed" =>
    \E e \in Deposits : Present(e) /\ deposit[e].renewedFrom = d

\* A settled deposit whose row stays keeps its status, unless its renewal is undone.
SettledStays ==
  \A d \in Deposits :
    deposit[d].status \in Settled /\ Present(d)'
    /\ (\A r \in Requests : At(r, {"renew"}, "undo") => request[r].previous # d) =>
      deposit'[d].status = deposit[d].status

\* While its row is there, a settled deposit cannot change again, except that a
\* refused renewal restores the status it found.  (changeStatus.)
SettledIsFinal == [][SettledStays]_vars
=============================================================================
