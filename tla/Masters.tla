------------------------------- MODULE Masters -------------------------------
(***************************************************************************)
(* The master tables the books are kept in - heads, bank accounts, funds,  *)
(* projects, activities, assets, the accounting settings - with the        *)
(* vouchers coded to them and the ledger lines those were posted as; and   *)
(* how a handler moves from statement to statement over them.              *)
(***************************************************************************)
EXTENDS Integers, Sequences, FiniteSets

CONSTANTS
  Heads, Banks, Funds, Projects, Activities, Assets, Vouchers,   \* ids
  Amounts,     \* opening balances
  Days,        \* dates
  SeedHeads,   \* the chart of accounts the temple starts from
  SeedFunds,   \* and its funds
  CashHead,    \* the head its cash is on
  Offers,      \* what requests ask for: a set of bodies for each endpoint
  Requests,
  Keep,        \* a field the body of an update leaves out
  Null

ASSUME IdsAssumption == Null \notin Heads \cup Banks \cup Funds \cup Projects \cup Days
ASSUME AmountsAssumption == 0 \in Amounts /\ Amounts \subseteq Int
ASSUME DaysAssumption == Days \subseteq Nat

VARIABLES
  head, bank, fund, project, activity, voucher, asset,
  setting,   \* the accounting row of the settings table
  cache,     \* the copy of it the server keeps
  request    \* what each handler remembers

chart == <<head, bank>>
dimensions == <<fund, project, activity>>
settings == <<setting, cache>>
tables == <<chart, dimensions, voucher, asset, settings>>
vars == <<tables, request>>

-----------------------------------------------------------------------------
(* Rows *)

Unborn == [active |-> FALSE]

Types == {"asset", "liability", "equity", "income", "expense"}
ProjectStatus == {"planning", "active", "onHold", "completed"}

HeadRow ==
  [type : Types, parent : Heads \cup {Null}, postable : BOOLEAN, active : BOOLEAN,
   opening : Amounts]
BankRow == [head : Heads, opening : Amounts, active : BOOLEAN]
FundRow == [opening : Amounts, active : BOOLEAN]
ProjectRow ==
  [fund : Funds, status : ProjectStatus, active : BOOLEAN]
ActivityRow ==
  [fund : Funds \cup {Null}, project : Projects \cup {Null}, active : BOOLEAN]

AssetRow ==
  [fund : Funds, status : {"inUse", "inStorage", "disposed"}, acquiredOn : Days,
   disposedOn : Days \cup {Null}]
SettingRow == [cash : Heads, deposit : Heads \cup {Null}]

ASSUME SeedAssumption ==
  /\ SeedHeads \in [Heads -> HeadRow \cup {Unborn}]
  /\ SeedFunds \in [Funds -> FundRow \cup {Unborn}]
  /\ CashHead \in Heads

\* The seed inserts parents before their children, which are of their type.
ASSUME SeedTreeAssumption ==
  LET seeded == {h \in Heads : SeedHeads[h] # Unborn}
      Parent(h) == SeedHeads[h].parent
  IN /\ \A h \in seeded : Parent(h) # Null =>
          Parent(h) \in seeded /\ SeedHeads[Parent(h)].type = SeedHeads[h].type
     /\ \A S \in SUBSET seeded : S # {} => \E h \in S : Parent(h) \notin S

Nominal == {"income", "expense"}

-----------------------------------------------------------------------------
(* Bodies, with the defaults of a create filled in *)

Kept(S) == S \cup {Keep}

NewHead == [type : Types, parent : Heads \cup {Null}, postable : BOOLEAN, opening : Amounts]
HeadPatch ==
  [parent : Kept(Heads \cup {Null}), postable : Kept(BOOLEAN), active : Kept(BOOLEAN),
   opening : Kept(Amounts)]

NewBank == [head : Heads, opening : Amounts]
BankPatch == [opening : Kept(Amounts), active : Kept(BOOLEAN)]

NewFund == [opening : Amounts]
FundPatch == [opening : Kept(Amounts), active : Kept(BOOLEAN)]

NewProject == [fund : Funds, status : ProjectStatus]
ProjectPatch == [fund : Kept(Funds), status : Kept(ProjectStatus), active : Kept(BOOLEAN)]

NewActivity == [fund : Funds \cup {Null}, project : Projects \cup {Null}]
ActivityPatch ==
  [fund : Kept(Funds \cup {Null}), project : Kept(Projects \cup {Null}), active : Kept(BOOLEAN)]

NewAsset == [fund : Funds, status : {"inUse", "inStorage", "disposed"}, acquiredOn : Days]
AssetPatch ==
  [fund : Kept(Funds), status : Kept({"inUse", "inStorage", "disposed"}), acquiredOn : Kept(Days)]

SettingPatch == [cash : Kept(Heads), deposit : Kept(Heads)]

ASSUME OffersAssumption ==
  /\ Offers.newHead \subseteq NewHead /\ Offers.head \subseteq HeadPatch
  /\ Offers.newBank \subseteq NewBank /\ Offers.bank \subseteq BankPatch
  /\ Offers.newFund \subseteq NewFund /\ Offers.fund \subseteq FundPatch
  /\ Offers.newProject \subseteq NewProject /\ Offers.project \subseteq ProjectPatch
  /\ Offers.newActivity \subseteq NewActivity /\ Offers.activity \subseteq ActivityPatch
  /\ Offers.newAsset \subseteq NewAsset /\ Offers.asset \subseteq AssetPatch
  /\ Offers.disposal \subseteq Days /\ Offers.setting \subseteq SettingPatch
ASSUME KeepAssumption ==
  /\ Keep \notin Heads \cup Funds \cup Projects \cup {Null}
  /\ Keep \notin Amounts \cup Days /\ Keep \notin BOOLEAN /\ Keep \notin ProjectStatus

-----------------------------------------------------------------------------
(* The ledger *)

Entries == UNION {{<<v, n>> : n \in DOMAIN voucher[v].entries} : v \in Vouchers}
Line(e) == voucher[e[1]].entries[e[2]]
EntriesOn(h) == {e \in Entries : Line(e).head = h}

-----------------------------------------------------------------------------
(* Handlers *)

Idle == [op |-> "idle"]

Accept(r, memory) ==
  /\ request[r] = Idle
  /\ request' = [request EXCEPT ![r] = memory]

At(r, op, pc) == request[r].op = op /\ request[r].pc = pc
Advance(r, pc) == request' = [request EXCEPT ![r].pc = pc]
Finish(r) == request' = [request EXCEPT ![r] = Idle]

\* A check throws, a statement is refused by a constraint or the process stops.  An
\* update of the settings that is written can only stop with the process, which drops
\* the copy as the update would.
Abort(r) ==
  /\ request[r] # Idle
  /\ ~At(r, "setting", "clear")
  /\ Finish(r)
  /\ UNCHANGED tables

\* Mutant: is_active has no default.
BugNew(body) == body

\* What an UPDATE with the fields of a body makes of a row.
Patched(row, body) ==
  [f \in DOMAIN row |-> IF f \in DOMAIN body /\ body[f] # Keep THEN body[f] ELSE row[f]]

\* The row an INSERT makes of a body: is_active is left to its default.
New(body) == [f \in DOMAIN body \cup {"active"} |-> IF f = "active" THEN TRUE ELSE body[f]]

Init ==
  /\ head = SeedHeads
  /\ fund = SeedFunds
  /\ bank = [b \in Banks |-> Unborn]
  /\ project = [p \in Projects |-> Unborn]
  /\ activity = [a \in Activities |-> Unborn]
  /\ voucher = [v \in Vouchers |-> [status |-> "Absent", entries |-> <<>>]]
  /\ asset = [a \in Assets |-> Unborn]
  /\ setting = [cash |-> CashHead, deposit |-> Null]
  /\ cache = Null
  /\ request = [r \in Requests |-> Idle]
=============================================================================
