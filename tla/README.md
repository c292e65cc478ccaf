# np-backend: a verification project

np-backend is the NestJS/Prisma/PostgreSQL server of a temple's accounts and
event register.  Every HTTP handler is a chain of awaited statements against one
database; handlers of different requests interleave freely between statements,
and nothing but the constraints and triggers of the database is checked at the
moment a row is written.  This directory models that: TLA+ modules for the
services, TLC configurations that check them, and theorems TLAPS proves.

Paths below are relative to the repository.

## 1. Inventory

Services live under `src/modules/<name>/<name>.service.ts` unless said otherwise.

| Component | State it keeps | Operations that change it | What is hard |
|---|---|---|---|
| vouchers | `vouchers`, `voucher_lines`, `voucher_sequences`, writes `ledger_entries` | create, raiseForApproval, update, submit, approve, reject, post, cancel | status checked on load and written later by id; posting from a row read before its transaction; reference drawn in its own statement |
| voucher-posting (`vouchers/voucher-posting.ts`) | none | buildPostingLines, journalLines, voucherTotal, journalIsBalanced | both legs must balance per fund; contra and journal sides; rounding of paise |
| financial-years | `financial_years` | create, open, close | close is count, two concurrent totals, freeze, with no lock on the vouchers |
| ledger | reads `ledger_entries` | none (books, cash and bank book) | running balances over pages |
| accounts | `accounts` tree, opening balances | create, update, deactivate | parent cycle check and write are separate statements; deactivation against use |
| funds, projects, activities, parties | masters with an `is_active` flag | create, update, deactivate (and party roles) | a record deactivated while another request is about to refer to it |
| bank-accounts | `bank_accounts` and the opening balance on the head | create, update, deactivate | two tables, one number |
| fixed-deposits | `fixed_deposits`, links to vouchers | create, update, changeStatus, renew, recordInterest, close | the deposit row and its voucher cannot share a transaction: compensation, crash between them, double close and double renewal |
| assets | `assets` | create, update, dispose | dispose twice; update after dispose |
| sanththa | yearly dues and payments per member | setting the due, recording and voiding a payment (raises a receipt) | receipt and payment row in different transactions |
| sponsors / members, event-sponsors | `members`, `event_type_sponsors` | register, number, resign; assign and release a slot | a slot freed and taken; member numbers |
| event-types | `event_types`, `event_slots` | create, update (grow/shrink), delete | shrinking a year while occurrences are being calendared |
| events | `events` | calendar, update, complete, cancel | standing sponsor inherited at one moment; status derived from dates |
| event-costings, event-budgets | `event_costings`, items, numbered versions | draft, edit, apply, discard | version numbers, one draft at a time, gap-free effective ranges |
| notifications | `notifications`, `notification_recipients` | publish, markRead, markAllRead, dismiss | audience resolved before the transaction |
| settings | one row of JSON per section | update | read-modify-write of a whole section (lost update) |
| roles, permissions | `role_permissions`, an in-process cache | replace a role's permissions | cache refilled by a read that started before the change |
| user-accounts | `users` | create, update, deactivate, reset password | "at least one active administrator" checked, then written |
| auth | `user_sessions`, JWTs | login, refresh (rotation), logout, change password | one refresh token used twice; logout racing a refresh |
| audit (`src/infrastructure/audit`) | `audit_logs`, append-only | record | failures are swallowed: an action may have no log |
| reports, search | none | none | consistency of several reads |
| database | constraints and triggers of `prisma/migrations` | - | what the code relies on and what it only hopes for |
| config, health, prisma, common, main | process wiring | - | the timeout interceptor answers the client but does not stop the handler |
| seed (`prisma/seed*`) | initial data | upserts | - |

Interactions.  Fixed deposits, sanththa and the event modules reach the books
only through `VouchersService.raiseForApproval`; every figure shown anywhere is a
sum over ledger entries of vouchers that are `Posted` (`LedgerQueryService`), or
of the same vouchers frozen by `FinancialYearsService.close`.  Vouchers ask
financial-years for the open year of a date, settings for the heads to post to,
and the masters for what may be coded.  The permission cache is shared by all
requests of one process.  Audit is called after the change, outside any
transaction.

What makes each correct: the *hazards* list of `PROJECT.json` names, line by
line, what can go wrong and the property that would show it, or why there is none.

## 2. Plan

Done, in this order:

1. **Core**: `Books`, `Vouchers`, `FinancialYears`, composed by `Accounting`;
   `AtomicBooks` as the abstract promise.
2. **FixedDeposits**, a client of the voucher lifecycle with compensations.
3. **SignIns** (accounts, passwords, sessions) and **RolePermissions** (the role
   matrix and its caches).
4. **EventCostings** (versions, drafts, application, effective periods); the event
   calendar: `EventTypes`, `EventSponsors`, `Events` over the tables of `Calendar`,
   composed by `EventCalendar`.
5. **Sanththa** on the pattern of FixedDeposits, without a compensation.
6. **Coding**: `validateCoding` and the ledger lines `buildPostingLines` makes.
7. **Masters**: `Chart` (heads, bank accounts), `Dimensions` (funds, projects,
   activities), `Settings`, `Assets`, composed with `Coding` by `Bookkeeping`.
8. **Proofs** of the invariants that hold however handlers overlap, and of what the
   services mean when handlers follow one another (section 6).

Left, in the order of what it would add: the default heads and parties of activities
and heads, with the counts `parties.update` takes of them; `Notifications`, a small
module of its own.

## 3. Modules and how they correspond to the code

**The common form.**  A handler is a chain of awaited statements.  Every
statement, or every `$transaction`, is one action; what the handler remembers from
one to the next is its record in `request`, and `pc` says which statement is next.
`...Load` reads and checks, `...Write` writes.  A statement after which nothing
remembered is used is an action of its own.  A write by id is unconditional, as
Prisma's `update({ where: { id } })` is, except for the constraints and triggers
of the database.  A handler may stop before any statement: a check threw, the
statement was refused, or the process died; what it had committed stays.

A `$transaction` is one atomic step although PostgreSQL runs it under READ
COMMITTED, where two may interleave.  That is sound where transactions only write
rows by id and insert: the first write takes the row lock, the second waits for it
and ends up after the first or aborted by a constraint, and every write is computed
from values loaded before the transaction.  It is not sound for
`setPermissions`, which deletes by a condition, and `RolePermissions` models that
one in two steps.

| Module | Models | Remarks |
|---|---|---|
| `Books` | the shared tables, the rules PostgreSQL enforces on them, requests | a voucher date is the year it falls in, for years never overlap; heads, amounts, mode, bank account and party together are the *content* of a voucher; `decider` stands for `decidedBy` and `decidedAt`; the reason of a rejection and `submittedAt` are left out; the kind never changes and selects the sequence, so the vouchers are of one kind |
| `Vouchers` | `VouchersService`, `VouchersController` | `validateCoding` is a free choice of content or an abort; `Coding` models its insides |
| `FinancialYears` | `FinancialYearsService` | close is load, count, two concurrent totals, freeze; the derived opening balance is left out |
| `Accounting` | the two together | the properties of the books |
| `AtomicBooks` | nothing: the promise | every operation at one instant |
| `FixedDeposits` | `FixedDepositsService` over `AtomicBooks` | the vouchers are atomic here, so a failure is one of the deposit handlers; content is what the lines say of deposits, and an edit at the desk turns it into "edited"; certificate, bank, dates, purpose and slot are data |
| `SignIns` | `AuthService`, `UserAccountsService` | tokens are the sessions they stand for, passwords are numbered; hashing, signing and throttling are left out; changes of name and address touch no modelled field |
| `RolePermissions` | `RolesService.setPermissions`, `PermissionsService` | rows carry the number of the change that inserted them, so that a delete takes exactly the rows it saw; expiry is a step |
| `EventCostings` | `EventCostingsService`, `costing-resolution.ts`, the exclusion constraint on periods | three instants to a temple day: its start in Colombo, which a named date means, and two readings of the clock, before and after midnight UTC; no two readings are alike; the quote of a version is the set of lines its amount was added up from |
| `Calendar` | the tables of the event calendar with their keys, triggers and cascades | one event type; a date is a day, and `YearLength` days make a year; a row is drawn from its ids once |
| `EventTypes` | `EventTypesService` | `syncSlots` is three statements, and a handler may be stopped between them |
| `EventSponsors` | `EventSponsorsService`, and what `PartiesService` and `SponsorsService` do to a party | retiring counts standing sponsorships and awaited occurrences in two statements |
| `Events` | `EventsService` | the status of an occurrence is derived from its dates, as `event-status.ts` does |
| `EventCalendar` | the three together, with vouchers that come to name occurrences and days that pass | the properties of the calendar |
| `Sanththa` | `SanththaService` beside a voucher desk | the desk is one step an operation and works while a handler is in flight |
| `Masters` | the master tables, the accounting settings, vouchers and the lines they were posted as | a body of an update leaves a field out with `Keep`; `Offers` are the bodies requests bring |
| `Chart` | `AccountsService`, `BankAccountsService` | the walk up the tree in `assertNotADescendant` is one action a head, each reading the tree anew |
| `Dimensions` | `FundsService`, `ProjectsService`, `ActivitiesService` | the default fund and project of an activity |
| `Settings` | `SettingsService` | of the five heads it names, cash and deposit; the copy of one server process |
| `Assets` | `AssetsService` | cost, rate and depreciation are left out |
| `Coding` | `validateCoding`, `voucher-posting.ts`, the balance trigger | amounts are whole cents; lines are numbered, and totals are sums over sets of numbers; the reads of a validation are one step, since whatever may change between two of them may also change before the voucher is posted |
| `Bookkeeping` | the masters and the vouchers coded to them | the properties of the masters |

`MCAccounting`, `MCFixedDeposits`, `MCSignIns`, `MCRolePermissions`,
`MCEventCostings`, `MCEventCalendar`, `MCSanththa` and `MCBookkeeping` give the
constants their values and the symmetries and bounds of a run.  All but the first
add a history variable, `overlapped` or `crashed` (and `interrupted`), that says
whether something happened while a handler was in flight, or whether one was
stopped half way; the properties named `...UntilOverlap` and `...UntilCrash` use it
(section 4).

`AccountingProofs`, `FixedDepositsProofs`, `SignInsProofs`, `RolePermissionsProofs`,
`EventCostingsProofs`, `CalendarProofs`, `SanththaProofs` and `BookkeepingProofs` hold
the theorems (section 6).

Definitions named `Bug...` are the mutants: each replaces one definition by what a
plausible mistake would make of it, and the property it is paired with in
`PROJECT.json` is then violated.

## 4. Runs

**What holds always and what holds until.**  Most checks of this code are a read
followed by a write, so that most of what a service promises is lost when another
request lands between the two (section 7).  Two kinds of property remain, and both
are checked on the same state space.  Some hold however handlers overlap, because
of a constraint, a trigger or a transaction.  The others are named
`...UntilOverlap` or `...UntilCrash`: the promise itself holds at every state
before something first happens while a handler is in flight (or before one is
first stopped half way).  They say that the sequential code keeps its promise
through any sequence of calls, and that nothing but an overlap (or a stop)
breaks it.

| Run | Instance | Shows |
|---|---|---|
| `serial` | one handler, two vouchers, two years, two contents, references up to 2 | the services implement `AtomicBooks`, stopped anywhere; what is Posted is in the ledger as it stands, a closed year is over, references are handed out once |
| `overlap` | two handlers, one voucher, two users | what survives any interleaving: posted once, posted as approved, by a second person, frozen; the tables keep their shape |
| `deposits` | one handler that may stop anywhere, a desk that waits for it, two vouchers, three deposits, two principals | the chain of certificates is linear and has no gap, settled is final, wherever handlers stop; until one does a deposit is on the books by its voucher, its principal stands and leaves once (`RegisterUntilCrash`), and the postings come to it (`BooksUntilCrash`) |
| `signins` | two handlers, two accounts, three sessions, two passwords | a rotated session is closed; until handlers overlap an administrator remains and a session follows role, activity and password and is rotated once |
| `roles` | two handlers, two instances, three permissions of which one is a key, two changes, fair | overlapping replacements collide instead of merging; every instance comes round once changes stop; until handlers overlap a replacement is served at once |
| `costings` | two handlers, three costings of a type and a slot, two days | versions never tie; until handlers overlap they are chained, quoted at their lines and kept, and past days keep their price |
| `costing_gap` | one handler, three costings of a type | violation: the periods of two versions leave a gap (section 7) |
| `planning` | two handlers, a type of up to two instances, one party | the calendar holds together and collection takes no sponsor; until handlers overlap or one is stopped in `syncSlots` slots follow the number and no sponsor is lost |
| `occurrences` | two handlers, one slot, two occurrences, one party, vouchers, a midnight | once a year; until handlers overlap what is complete has happened and stands, what a voucher names stays, the retired are free |
| `sanththa` | two handlers and a voucher desk, two members, one year, two amounts, two vouchers | each subscription is on a receipt of its own; until handlers overlap or one is stopped the register says what the receipts say |
| `chart` | two handlers, four heads, two bank accounts, the settings, two vouchers | types and bank heads hold however handlers overlap; until they do: the tree, settled openings, switching off last, the settings and their copy |
| `dimensions` | two handlers, two funds, a project, an activity, an asset, a voucher of each kind but contra | what is raised posts in balance, fund by fund; what was disposed of stays so; until handlers overlap openings, funds of projects, default codings and closed records stand |

**Bounds.**  Two handlers are enough for every race here: each is between a check
and a write of one handler and the writes of another.  Two vouchers, years,
deposits or sessions are the least that can be told apart; three where a property
compares two successors of one (renewals, rotations, versions).

- `MaxRef`, `MaxPasswords`, `MaxChanges`, `MaxId`, `MaxDay`, `MaxSlot`,
  `MaxAssigned`, `MaxEvent`, `LastDay`, `MaxInstances`: how many references,
  passwords, replacements, rows, days or instances there may be.  `planning` draws
  three slots, so that one is dropped and made again; `occurrences` has two
  occurrences and two days, so that both fall in one year.
- `TwoOverlap` (in four modules): once handlers have overlapped they are followed to
  their end and no third begins.  What must hold always is therefore checked
  after every overlap of two from every state one handler at a time can reach;
  `overlap`, `roles` and `costings` have no such bound and let overlap follow
  overlap.  `OverlapBound` leaves the last costing undrawn and the second day unpassed
  after an overlap.
- `SmallBound`: once a deposit handler stopped, or there is a third deposit, one
  amount, one voucher and no open year are left.
- `ListsBound`, `KindsBound`, `Offered` (sanththa): rates and lists are set beside at
  most one receipt; of a voucher of the wrong kind only its kind matters; after a
  stop handlers follow one another.
- `ChartBound`, `ChangesBound`, `Settling` (chart): two fields of heads may stand
  otherwise than seeded, one beside a voucher or a bank account; handlers overlap
  over heads and bank accounts; settings are changed in the seeded chart.
- `DimensionsBound`, `AssetBound`, `ActivityBound`, `Keeping` (dimensions):
  handlers overlap over assets; assets and activities are kept beside funds and
  projects, without vouchers, since nothing of a voucher names an asset or looks at
  an activity.

The tables' shape is an invariant too, `TypeOK` of each module: proved for all of
them (section 6), checked in `overlap`, and a part of `CalendarHolds` and of
`ChartIsTyped`.

Deadlock is not checked in the runs of `FixedDeposits`, `EventCostings` and
`EventCalendar`: when all vouchers, ids and days are used up nothing more can
happen.  In the others some action is always enabled.

Six more configurations show the disagreements of section 7.

## 5. Fairness

Safety needs none.  Nothing in the books must happen by itself: no timer, queue or
retry exists there, and a handler that stops halfway is not resumed, so those
modules state no liveness.  `RolePermissions` does: an entry expires after five
minutes of clock time, and a handler whose statement was answered goes on, so
`Fairness` assumes weak fairness of `Expire` and of `Continue`.  Nobody is obliged
to look a role up, to change it, or to restart an instance, and restarts may go on
for ever.

## 6. Proofs

TLAPS checks these for every value of the constants: any number of vouchers,
accounts, sessions, members, and of requests in flight where nothing else is said.
They rest on the named assumptions of the modules, and on those named here.

*`AccountingProofs`.*
`TypeCorrect`: the type invariant is not inductive, since a write uses the
voucher its handler remembers; it is strengthened by `InFlightExists`, that a
remembered voucher is in the table.  `PostedOnceHolds`: a voucher is in the ledger
at most once and exactly when it carries its posting stamp; the unique key on
voucher and line number is what refuses the second posting, and no stale write can
clear the stamp.  `PostedContentFrozenHolds`: an action property; the trigger
guards a row while it is Posted, and when a stale write takes it out of that status
the stamp that stays makes every further edit violate `posted_was_approved`.

`SecondPairOfEyesHolds`: `DecidedInv` adds that whoever has loaded a voucher to
approve it may, a right no later edit takes back, since the creator never changes.
`PostedWasApprovedHolds`: `PassedInv` adds that an Approved voucher stands as some
approval let it through, and that what a post handler has loaded was let through
when it loaded it; approvals are never forgotten.  `RefsHandedOnceHolds`: `RefsInv`
says that every reference in a row or in a handler's memory was drawn from a
sequence that is past it, and that no two of them hold the same.  It assumes `OneYearEach`,
that financial years start in different calendar years; without it the statement is
false (section 7).

The rest of the module is under `OneHandler`: at most one request is in flight.
`SerialInv` is `TypeInv /\ BooksInv /\ AsLoaded`.  `AsLoaded` is the point: what the
handler in flight found when it loaded the voucher and the year still holds when it
writes, because nobody else wrote meanwhile and its own reads change nothing.  With
it every write is one the atomic services could make, and `BooksInv` (only what is
Posted is in the ledger, as it stands; a closed year is finished and its figures
are those of the ledger) is preserved by each of them.  From it follow
`OnlyPostedTouchesLedgerHolds`, `LedgerMatchesVoucherHolds`,
`ClosedYearIsOverHolds`, the action properties `ClosedIsFinalHolds` and
`ApprovedNeverRewrittenHolds`, and `ImplementsPromiseHolds`: under the refinement
mapping of `Accounting` the initial state is one of `AtomicBooks`, every read is a
stutter, and every write is the operation of that name.

*`FixedDepositsProofs`.*
`DepositTypeCorrect` and `RenewedHasSuccessorHolds`, however handlers overlap and
stop: `DepositInv` adds that a handler between its row and its voucher holds a row
that is there and nobody else's (`Kept`, `OwnRows`), so that the compensation of a
renewal removes its own certificate only, and with it the mark of the deposit
renewed.
`ChainIsLinearHolds` and `SettledIsFinalHolds`, under `OneHandler`: what a deposit was
renewed from is marked renewed (`Linked`), and the freshness of what the handler
loaded (`Fresh`) makes the second renewal of a deposit
impossible, though any handler may stop between any two statements.
`RegisterHolds`, about `MCFixedDeposits`, under `OneHandler` and for a desk that waits
for the handler (`~Interleaved`): `RegisterInv` says of every row and every live
voucher either that the link between them is in place or which handler is about to
set it (`RowPlaced`, `Places`, `Settles`), and what that handler knows of both
(`Knows`).  A cancelled voucher gives its principal back, so all of it is about
vouchers that are live.
`BooksHold`, under the same hypotheses: the postings on the deposit head come to the
principal in the register.  `LedgerInv` says that the ledger holds the postings of what
is Posted and of nothing else (`Mirrored`), that interest moves no principal and a
closure puts none on (`Says`), that what a row is linked to did place it (`LinkedTo`),
that a voucher takes off exactly what the row had
(`Takes`), that a settled deposit has such a voucher or is about to (`TakenOff`), and that
what the handler in flight remembers of the register is still so (`Recalls`).  A deposit
whose vouchers are all posted as they were raised has then at most one posting into its
head and at most one off it, and the two sums of `BookBalance` are sums with one term
that is not zero, or none (`SumOne`, `SumZeros`), however many postings there are.

*`SignInsProofs`*, about `MCSignIns`.
`SignInTypeCorrect` and `RotatedIsClosedHolds` hold however handlers overlap; the
refresh transaction closes the old session with the insert of the new one, nothing
opens a session again, and `SessionInv` adds that whatever account or session a row
or a handler names is there.
`AdministratorStays` and `SessionsHold` use the history: as long as it says no two
handlers have met, at most one is in flight (`Alone`) and what it remembers is still
so (`UntilOverlap`).

*`RolePermissionsProofs`.*
`RoleTypeCorrect`.  `KeysAreKeptHolds`: every memory, cache entry and the table
hold the keys.  `GrantsAreOneChoiceHolds`, for a role with keys: the inductive
invariant says that stamps are used once (`StampsAreFresh`) and that a transaction
about to commit has seen the whole table or none of it (`SeenWholeOrNot`); if none,
the keys it inserts are there already and the primary key refuses them.
`role_races` shows that without keys the statement is false.
`InvalidatedHolds`, about `MCRolePermissions`: a look-up about to store holds what is
in the table (`LookupsAreFresh`), and the instance that replaced the permissions last
has them in its copy or is about to drop it (`ServesTheLast`).

*`EventCostingsProofs`.*
`CostingTypeCorrect` and `NoTiesHolds`.  The exclusion constraint keeps the periods of
a scope apart, but an empty period meets nothing and still covers the day its
instant falls on.  `CostingInv` rules it out by the clock: a version is ended at a
reading that no version began at, since no two readings are alike and a named start
is the start of a day (`ReadingsApart`).
`VersionsHold` and `PastHolds`, about `MCEventCostings`: until handlers overlap
(`Settled`) the one in flight knows what is so (`Fresh`), a costing is quoted at its
lines (`Quoted`), and the versions of a scope are numbered from 1 without a gap in the
order of their periods, the last of them in force (`Chained`).  That the version which
prices a past day keeps pricing it is then a matter of which version of the scope is
the latest to cover a day; that one exists is well-foundedness of the numbers.

*`CalendarProofs`*, about `MCEventCalendar`.
`CalendarHoldsAlways`: `CalendarInv` adds that ids of slots are drawn in order, so that
there is one left for each slot to be made, and that a handler that resizes has a
number to resize to.  `SponsorsHold` in its first half and everything of
`CalendarHolds` need no more: keys, cascades and the trigger on sponsors do it.
`OccurrencesHold` adds `AloneInv` (what the handler in flight has found and counted is
still so, `Fresh`).  `SlotsMatchHolds` and the other half of `SponsorsHold` add
`SyncInv`: between the three statements of `syncSlots` no slot in use is
beyond the number, then none is beyond it, then those missing are known.

*`SanththaProofs`.*
`SanththaTypeCorrect` and `EachOnItsOwnReceiptHolds`.  The unique index on the
receipt keeps two rows apart; that the receipt is one has to travel with the handler
from the step that raised or found it to the insert, while the desk works on the
same voucher (`SanththaInv`).
`ReceiptsMatchHolds` and `PaidHolds`, about `MCSanththa`, until handlers overlap or one
is stopped after its receipt: what the handler in flight found still stands (`Fresh`),
and a raised receipt and the row of its due name each other and agree on the amount
unless that handler is between writing the one and the other (`MatchInv`).

*`BookkeepingProofs`*, about `Bookkeeping` and `MCBookkeeping`.
`TypedHolds`: `MastersInv` adds what every memory looks like and what a handler knows
of rows whatever others do (`Knows`): rows are never deleted, the type of a head and
the head of a bank account never change, and so the checks on them cannot go stale.
It rests on `SeedTreeAssumption`: the seed inserts a head after its parent, which is of
its type (`prisma/seed-chart-of-accounts.ts:257`).
`MastersAreKept`, `AssetsAreKept`, `SettingsAreKeptSerially` and `TreeHolds` use the
history: until handlers overlap each of them still has what it checked (`Checked`, one
conjunct per kind of handler), so that the write is one the check allowed.  That what
was disposed of stays so needs none of it; the constraint refuses the rest.
`TreeHolds`: the heads `assertNotADescendant` has passed are a way up without the head
that moves (`Walked`).  A walk that ends leaves a set of heads that contains the parent
of each of its own and not the moving head (`Clear`), and no cycle can run through such
a set and the moved head.  The code gives a walk up after 32 heads and then lets the
move pass.  So the theorem assumes `Shallow`: every way up through 33 heads comes back
to one of them.  That holds of every chart of at most 32 levels, and without it the code
does not keep the chart a tree.

`PostingsBalanceHolds`, about `Bookkeeping`, however handlers overlap: `VouchersInv`
adds to each voucher that is raised that its body kept the shape `assertShape` asked for
and that its amount is the total of it.  The rest is about lines, of which there may be
any number.  A posting is two legs, each with amounts on one side only (`Leg`), and comes
on each side to the leg that is on it, in all and in each fund (`TwoLegs`).  The coding
leg comes to the lines one by one; the contra leg has one line for each fund and comes to
the same, fund by fund (`ContraLeg`, by `SumByParts`); a journal as written comes to the
two sides `journalIsBalanced` compared (`WrittenLeg`).  `InOrder` names the order lines
are written in by what it is; that every set of line numbers has one is `OrderExists`.
`LedgerBalances` carries it to the ledger: what was posted was such a posting when it was
posted, so the trial balance agrees, and every fund's does if journals, which may move
money between funds, are set aside.  It assumes that there are finitely many vouchers.

*Sums.*  Both modules with sums need that a sum over a finite set does not depend on the
order it is taken in, which is an induction over the set.  The library's induction rule
takes an operator and cannot be used, but `FS_StrictSubsetOrderingWellFounded` takes none:
of the sets that are a counterexample one has no smaller one in it (`LeastPart`), and
taking an element out of that one gives a contradiction.  `AddsExists` shows in this way
that the equations that define `SumFunctionOnSet` have a solution, and `SumRemove`,
`SumUnion`, `SumRenamed` and `SumByParts` what a reader expects of sums.  The lemmas the
two modules share are stated in each.

Only model-checked: `ChangesReachEveryInstance`, since TLAPS has neither ENABLED nor a rule
for fairness here, and the disagreements of section 7.  Every other property of a passing
run is a theorem.  No module declares a RECURSIVE operator.

## 7. Where the code and its documentation disagree

`PROJECT.json` runs one, a bug that needs no race.  `costing_gap`: `apply` ends the
version in force at the instant it runs, but a draft with a named start begins on
that day, so the days between are priced by no version of the scope
(`event-costings.service.ts:381`, against the comment at `:370`, "the periods meet
with no gap").

The others have a configuration here too.  Unless said otherwise they have one cause, a
row checked in one statement and written in another without a condition.
Each configuration lists several properties; keep one and run
`tlc -config <name>.cfg <MC module>` to see its behaviour.

| Configuration, module | Property | What happens |
|---|---|---|
| `books_races`, `MCAccounting` | `OnlyPostedTouchesLedger` | a voucher is posted and then cancelled, its postings stay |
| | `ApprovedAsReviewed` | an approval lets through an edit nobody reviewed (`vouchers.service.ts:314`) |
| | `ApprovedNeverRewritten` | an approved voucher is rewritten by an edit begun before |
| | `ClosedRefusesPostings` | a posting enters a year closed meanwhile (`vouchers.service.ts:366`) |
| | `ClosedYearIsFinished` | a year closes over a voucher that can still be posted |
| | `ClosedIsFinal` | an open that was under way undoes a close |
| `shared_ref`, `MCAccounting` | `RefsHandedOnce` | two years that start in one calendar year number alike (no race) |
| `deposits_races`, `MCFixedDeposits` | `SettledIsFinal` | a renewed deposit becomes matured again |
| | `PrincipalLeavesOnce` | two receipts take one principal off the books |
| | `ChainIsLinear` | one deposit is renewed into two |
| | `PlacedOnBooks` | the desk posts a placement before its handler submits it: the row stays, without its voucher |
| | `PrincipalStandsOnBooks` | the principal changes under its placement voucher; one handler stopped between voucher and link is enough, the row then names no voucher that an update could ask |
| `signins_races`, `MCSignIns` | `SomeAdministrator` | two administrators are demoted at once |
| | `SessionsFollowTheAccount` | a session opens after the account's sessions were revoked, with the old role |
| | `SessionsStandOnThePassword` | a session opens on a password that was just replaced |
| | `RotatedOnce` | one refresh token yields two sessions |
| `role_races`, `MCRolePermissions` | `GrantsAreOneChoice` | two replacements leave the union of both (DELETE and INSERT under READ COMMITTED) |
| | `InvalidatedAtOnce` | a cache fill stores old rows after the invalidation |
| `calendar_apart`, `MCEventCalendar` | `GeneralHasNoSponsor` | a type turns to collection while an occurrence of it names a sponsor (no race) |
| | `SponsorsKept` | an update from three instances to one stops before `syncSlots` has dropped the slots; a sponsor takes slot 3; growing to two counts no sponsor beyond it, and `syncSlots` drops slot 3 with the sponsor (`event-types.service.ts:183`, against the comment at `:258`; no race) |
| `chart_apart`, `MCBookkeeping` | `BankMirrorsHead` | the opening balance of a head is edited, its bank account keeps the old one (no race) |
| | `GroupingTakesNone` | a head becomes a grouping head while a voucher coded to it waits; posting does not look at the head again (no race) |
| `dimensions_apart`, `MCBookkeeping` | `DefaultsAgree` | a project without entries moves to another fund, activities default to it with the old one (no race) |

Met while modelling, and within what the models allow, without a configuration of
their own: the cash head is later set to the head the deposits are on, or both are
named in one body, since each is checked against the settings as stored
(`settings.service.ts:165`); a bank account over a head with postings starts with a
bank book that lacks them, for only postings made through the account carry it;
two updates of the settings that overlap lose one of them, and a look-up that
overlaps an update may keep the copy from before it for a minute; two
applications of one draft that overlap number it again, leaving a version 2
without a version 1; a subscription whose receipt is cancelled at the desk cannot be
corrected, since `update` first has to rewrite the receipt.

## 8. What is not modelled, and why

- *Reads* (ledger, reports, search, event-budgets, the views of every service) keep
  no state.  The rule they share, that only Posted vouchers count, is part of
  `FinancialYears`.
- *Notifications* are rows no other part reads: an audience taken at one instant, a
  read stamp and a dismissal per recipient, each written in one statement that
  overwrites nothing.
- *Audit* is an append nobody reads and whose failure is swallowed.
- *Parties* are modelled as far as the calendar asks for them; default parties of
  heads and activities are left out, and with them the counts of those.  *Members*
  are modelled as active or not; names, numbers and addresses are text.
- *Settings* of the temple are text; of the accounting section three heads, checked
  as the deposit head is, are left out, `allowSelfApproval` is a constant, and the
  copy is that of one server process.
- *Coding* leaves out the counterparty, the occurrence (but for `Cite` of the calendar)
  and the reference numbers of instruments.
- *HTTP*, validation of request bodies, throttling, signing and hashing, health checks
  and the process's configuration are wiring.  The timeout interceptor answers the
  client and lets the handler run, which is why no model ever stops a handler on a
  timeout and why a repeated request is simply another handler.
- The *seed* runs before the server and is the initial state.
