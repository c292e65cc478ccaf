-------------------------------- MODULE Books --------------------------------
(***************************************************************************)
(* The tables the accounting services share - vouchers, their sequences,   *)
(* the ledger and the financial years - with the rules PostgreSQL enforces *)
(* on them, and the requests in flight against them.                       *)
(*                                                                         *)
(* A request handler is a chain of awaited statements.  Each statement, or *)
(* each $transaction, is one atomic step of the model; whatever a handler  *)
(* remembers between two of them is a field of its record in `request`.    *)
(* Two requests therefore interleave exactly where two handlers can.       *)
(*                                                                         *)
(* A voucher date is represented by the financial year it falls in: years  *)
(* never overlap and never change their dates, so financial_year_id is a   *)
(* function of the date.  Everything else a clerk may edit (heads,         *)
(* amounts, mode, bank account, party) is its content.  The kind never     *)
(* changes and selects the sequence: the vouchers here are of one kind.    *)
(***************************************************************************)
EXTENDS Naturals, Sequences

CONSTANTS
  Vouchers,           \* voucher identifiers
  Years,              \* financial year identifiers
  Users,              \* signed-in users
  Contents,           \* what a voucher may say
  Requests,           \* request slots: how many handlers may be in flight
  NoUser,             \* the null of decided_by
  ManageAll,          \* users with voucher:manage-all
  Approvers,          \* users with voucher:approve
  Posters,            \* users with voucher:post
  AllowSelfApproval,  \* the accounting setting of that name
  CalendarYear,       \* the calendar year each financial year starts in
  MaxRef              \* bound: references one sequence may hand out

ASSUME NoUserAssumption == NoUser \notin Users
ASSUME RolesAssumption ==
  ManageAll \subseteq Users /\ Approvers \subseteq Users /\ Posters \subseteq Users
ASSUME SettingAssumption == AllowSelfApproval \in BOOLEAN
ASSUME CalendarAssumption == CalendarYear \in [Years -> Nat]
ASSUME MaxRefAssumption == MaxRef \in Nat

VARIABLES
  voucher,    \* the vouchers table, Absent where no row was inserted yet
  ledger,     \* the postings of each voucher, one per posting transaction
  sequence,   \* voucher_sequences.next_no of each year
  year,       \* the financial_years table
  request,    \* what each handler in flight remembers
  approvals   \* history: what every approval let through and who gave it

tables == <<voucher, ledger, sequence, year>>
vars == <<voucher, ledger, sequence, year, request, approvals>>

-----------------------------------------------------------------------------
(* Rows *)

VoucherStatus ==
  {"Draft", "PendingApproval", "Approved", "Rejected", "Posted", "Cancelled"}

YearStatus == {"absent", "upcoming", "open", "closed"}

Ref == [in : Nat, no : Nat]

Absent == [status |-> "Absent"]

\* decided_by and decided_at are set and cleared together, so one field stands
\* for both; `posted` says whether posted_at is set.
VoucherRow ==
  [status : VoucherStatus, year : Years, content : Contents, creator : Users,
   decider : Users \cup {NoUser}, posted : BOOLEAN, ref : Ref]

\* All the ledger lines one posting inserts: they share its date and come from
\* the coding lines the handler had loaded.
Posting == [year : Years, content : Contents]

\* Income and expenditure frozen on close, as the postings summed into them,
\* and the vouchers behind the frozen voucher count.
Figures == [summed : SUBSET Vouchers, counted : SUBSET Vouchers]

NoFigures == [summed |-> {}, counted |-> {}]

YearRow == [status : YearStatus, current : BOOLEAN, figures : Figures]

Exists(v) == voucher[v] # Absent

-----------------------------------------------------------------------------
(* Rules of the database *)

\* Mutants: rules of the database that were never migrated.
BugPostedWasApprovedCheck(row) == TRUE
BugUniqueVoucherLine(v) == TRUE

\* CHECK posted_was_approved: nothing posted is without its decision stamp.
PostedWasApprovedCheck(row) == row.posted => row.decider # NoUser

\* guard_posted_voucher: the financial columns of a Posted row are frozen.  The
\* status is not among them.
GuardPostedVoucher(old, new) ==
  old.status = "Posted" => new.year = old.year /\ new.content = old.content

\* guard_posted_voucher_line: the lines of a Posted voucher cannot be replaced.
GuardPostedVoucherLine(v) == voucher[v].status # "Posted"

\* UNIQUE voucher_line (voucher, line number): lines are numbered from 1, so a
\* second posting of the same voucher collides with the first.
UniqueVoucherLine(v) == ledger[v] = <<>>

\* UNIQUE vouchers_ref_key.
UniqueRef(ref) == \A v \in Vouchers : Exists(v) => voucher[v].ref # ref

\* UPDATE vouchers SET ... WHERE id = v: unconditional, but for the rules above.
UpdateVoucherRow(v, new) ==
  /\ PostedWasApprovedCheck(new)
  /\ GuardPostedVoucher(voucher[v], new)
  /\ voucher' = [voucher EXCEPT ![v] = new]

-----------------------------------------------------------------------------
(* Requests *)

Idle == [pc |-> "idle"]

Accept(r, memory) ==
  /\ request[r] = Idle
  /\ request' = [request EXCEPT ![r] = memory]

Advance(r, pc) == request' = [request EXCEPT ![r].pc = pc]

Finish(r) == request' = [request EXCEPT ![r] = Idle]

\* The handler ends without its next statement: a check threw, the database
\* refused the write, or the process died.  What it committed before stays.
Abort(r) ==
  /\ request[r] # Idle
  /\ Finish(r)
  /\ UNCHANGED <<tables, approvals>>

BooksInit ==
  /\ voucher = [v \in Vouchers |-> Absent]
  /\ ledger = [v \in Vouchers |-> <<>>]
  /\ sequence = [y \in Years |-> 1]
  /\ year = [y \in Years |->
               [status |-> "absent", current |-> FALSE, figures |-> NoFigures]]
  /\ request = [r \in Requests |-> Idle]
  /\ approvals = {}
=============================================================================
