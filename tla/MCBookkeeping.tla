---------------------------- MODULE MCBookkeeping ----------------------------
(* Model-checking instances of Bookkeeping, with a history: was a handler ever in  *)
(* flight while something else was done.                                           *)
EXTENDS Bookkeeping, TLC

CONSTANTS hc, h1, h2, hi, b1, f1, f2, p1

VARIABLE overlapped

Busy == {r \in Requests : request[r] # Idle}
TwoBusy == \E r, s \in Requests : r # s /\ request[r] # Idle /\ request[s] # Idle
Meanwhile == Busy # {} /\ request' = request /\ tables' # tables

MCInit == Init /\ overlapped = FALSE
MCNext ==
  /\ Next
  /\ overlapped' = (overlapped \/ Meanwhile \/ TwoBusy')
MCSpec == MCInit /\ [][MCNext]_<<vars, overlapped>>

\* As long as handlers follow one another the chart is a tree.  (assertNotADescendant.)
TreeUntilOverlap == ~overlapped => ChartIsATree

\* As long as handlers follow one another openings are settled by the first line, what
\* others hang on is switched off last, projects with lines keep their fund and saved
\* defaults agree.  (assertNoEntries, assertNoChildrenActive, FundsService.update,
\* ProjectsService.update, assertCodingIsUsable.)
MastersUntilOverlap ==
  [][~overlapped' =>
       OpeningsAreSettled /\ SwitchedOffLast /\ ProjectsKeepTheirFund /\ SavedDefaultsAgree]_vars

\* However handlers overlap, what was disposed of stays disposed; as long as they follow
\* one another, its record stands.  (disposal_is_consistent, AssetsService.update.)
AssetsUntilOverlap == [][DisposedForGood /\ (~overlapped' => ClosedRecordsStand)]_vars

\* As long as handlers follow one another deposits stay off the cash book, settings are
\* kept and the copy is what is stored.  (assertIsDepositHead, write, updateAccounting.)
SettingsUntilOverlap ==
  [][~overlapped' => DepositsOffTheCashBook /\ SettingsAreKept /\ CopyIsStored']_vars

(* Bound: handlers that overlap are followed to their end, and nothing after. *)
TwoOverlap ==
  overlapped => Busy # {} /\ \A r \in Requests : request[r] = Idle => request'[r] = Idle

-----------------------------------------------------------------------------
(* Bound: settings are changed and looked up in a chart as it was seeded, with a bank  *)
(* account perhaps, by one handler at a time; assets are kept beside funds alone.      *)
Settling ==
  \/ setting # [cash |-> CashHead, deposit |-> Null] \/ cache # Null
  \/ \E r \in Requests : request[r].op \in {"setting", "lookup"}
NoVoucher == \A v \in Vouchers : voucher[v].status = "Absent"
NoOpening == \A f \in Funds : fund[f] # Unborn => fund[f].opening = 0

Keeping ==
  \/ \E a \in Assets : asset[a] # Unborn
  \/ \E r \in Requests : request[r].op = "createAsset"
AssetBound ==
  Keeping =>
    /\ NoVoucher /\ NoOpening
    /\ \A r \in Requests : request[r].op \in {"idle", "createAsset", "asset", "dispose", "fund"}
    /\ \A p \in Projects : project[p] = Unborn
    /\ \A a \in Activities : activity[a] = Unborn

(* Bound: activities are kept while no voucher is raised and no opening set, since     *)
(* they only meet funds and projects.                                                  *)
ActivityBound ==
  (\E a \in Activities : activity[a] # Unborn) => NoVoucher /\ NoOpening

(* Bound: handlers overlap over assets; what is said of the others is said until they  *)
(* overlap.                                                                            *)
DimensionsBound == ~Settling /\ AssetBound /\ ActivityBound /\ (overlapped => Keeping)

Symmetry == Permutations(Requests) \cup Permutations(Vouchers)

-----------------------------------------------------------------------------
(* Bodies: an update changes one field *)

SeedHead(type) == [type |-> type, parent |-> Null, postable |-> TRUE, active |-> TRUE, opening |-> 0]
SeededHeads == [h \in Heads |-> IF h = h2 THEN Unborn ELSE SeedHead(IF h = hi THEN "income" ELSE "asset")]
SeededFunds == [f \in Funds |-> IF f = f1 THEN [opening |-> 0, active |-> TRUE] ELSE Unborn]

KeepAll(fields) == [f \in fields |-> Keep]
Set(fields, f, values) == {[KeepAll(fields) EXCEPT ![f] = x] : x \in values}

HeadFields == {"parent", "postable", "active", "opening"}
(* Bound: the fields of heads that stand otherwise than they were seeded, fewer once *)
(* a bank account or a voucher is there.                                             *)
Changes ==
  {c \in Heads \X HeadFields : head[c[1]] # Unborn /\ head[c[1]][c[2]] # SeedHead("asset")[c[2]]}
ChangesBound ==
  Cardinality(Changes) <= IF NoVoucher /\ \A b \in Banks : bank[b] = Unborn THEN 2 ELSE 1

(* Bound: handlers overlap over heads and bank accounts alone. *)
ChartBound ==
  /\ ChangesBound /\ (overlapped => NoVoucher)
  /\ (Settling => ~overlapped /\ NoVoucher /\ Changes = {})

Voucher(kind, mode, b, lines) == [kind |-> kind, mode |-> mode, bank |-> b, lines |-> lines]
Coded(h, f, p, amount, side) == [head |-> h, fund |-> f, project |-> p, amount |-> amount, side |-> side]

Nothing ==
  [newHead |-> {}, head |-> {}, newBank |-> {}, bank |-> {}, newFund |-> {}, fund |-> {},
   newProject |-> {}, project |-> {}, newActivity |-> {}, activity |-> {}, voucher |-> {},
   newAsset |-> {}, asset |-> {}, disposal |-> {}, setting |-> {}]

ChartOffers == [Nothing EXCEPT
  !.newHead = {[type |-> "asset", parent |-> h1, postable |-> TRUE, opening |-> 1],
               [type |-> "asset", parent |-> hi, postable |-> TRUE, opening |-> 0]},
  !.head = Set(HeadFields, "parent", {h1, h2}) \cup Set(HeadFields, "opening", {1})
           \cup Set(HeadFields, "postable", {FALSE}) \cup Set(HeadFields, "active", BOOLEAN),
  !.newBank = {[head |-> h1, opening |-> 0], [head |-> h1, opening |-> 1], [head |-> hi, opening |-> 0]},
  !.setting = Set({"cash", "deposit"}, "cash", {h1}) \cup Set({"cash", "deposit"}, "deposit", {hc, h1})
              \cup {[cash |-> h1, deposit |-> h1]},
  !.bank = Set({"opening", "active"}, "opening", {1}) \cup Set({"opening", "active"}, "active", {FALSE}),
  !.voucher = {Voucher("receipt", "cash", Null, <<Coded(h1, f1, Null, 1, Null)>>),
               Voucher("contra", "cash", Null, <<Coded(h1, f1, Null, 1, Null)>>),
               Voucher("contra", "bank", b1, <<Coded(hc, f1, Null, 1, Null)>>)}]

ProjectFields == {"fund", "status", "active"}
ActivityFields == {"fund", "project", "active"}
AssetFields == {"fund", "status", "acquiredOn"}

DimensionOffers == [Nothing EXCEPT
  !.newFund = {[opening |-> 0]},
  !.fund = Set({"opening", "active"}, "opening", {1}) \cup Set({"opening", "active"}, "active", BOOLEAN),
  !.newProject = [fund : {f1, f2}, status : {"planning"}],
  !.project = Set(ProjectFields, "fund", {f1, f2}) \cup Set(ProjectFields, "status", {"onHold", "planning"})
              \cup Set(ProjectFields, "active", {FALSE}),
  !.newAsset = [fund : {f1}, status : {"inUse", "disposed"}, acquiredOn : {1}],
  !.asset = Set(AssetFields, "fund", {f2}) \cup Set(AssetFields, "status", {"inStorage"})
            \cup Set(AssetFields, "acquiredOn", {2}),
  !.disposal = {1},
  !.newActivity = [fund : {f1}, project : {Null, p1}],
  !.activity = Set(ActivityFields, "fund", {f2}) \cup Set(ActivityFields, "project", {p1})
               \cup Set(ActivityFields, "active", {FALSE}),
  !.voucher = {Voucher("receipt", "cash", Null, <<Coded(hi, f1, p1, 1, Null), Coded(hi, f2, Null, 2, Null)>>),
               Voucher("receipt", "cash", Null, <<Coded(hi, f2, p1, 1, Null), Coded(hi, f2, Null, 2, Null)>>),
               Voucher("payment", "cash", Null, <<Coded(h1, f2, p1, 1, Null)>>),
               Voucher("journal", Null, Null, <<Coded(h1, f1, Null, 1, "debit"), Coded(hi, f2, p1, 1, "credit")>>),
               Voucher("journal", Null, Null, <<Coded(h1, f1, Null, 1, "debit"), Coded(hi, f2, p1, 2, "credit")>>)}]
=============================================================================
