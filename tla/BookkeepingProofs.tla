--------------------------- MODULE BookkeepingProofs ---------------------------
(***************************************************************************)
(* Proofs about Bookkeeping, for any heads, banks, funds, projects,        *)
(* activities, assets, vouchers and bodies.  However updates of the        *)
(* masters overlap the tables keep their shape and the heads their types;  *)
(* as long as handlers follow one another what each of them checked still  *)
(* holds when it writes; and what is raised and posted balances, whatever  *)
(* becomes of the masters.                                                 *)
(***************************************************************************)
EXTENDS MCBookkeeping, FiniteSetTheorems, WellFoundedInduction, TLAPS

-----------------------------------------------------------------------------
(* What handlers remember *)

Creating(op, pcs, bodies) == [op : {op}, pc : pcs, body : bodies]
Updating(op, pcs, ids, bodies) == [op : {op}, pc : pcs, id : ids, body : bodies]

HeadMemory ==
  [op : {"head"}, pc : {"parent", "walk", "opening", "postable", "active", "write"}, id : Heads,
   cursor : Heads \cup {Null}, depth : Nat, body : HeadPatch]

\* The loaded row with the body of the update over it.
ActivityBody ==
  [fund : Funds \cup {Null}, project : Projects \cup {Null}, active : Kept(BOOLEAN)]

Disposing == [op : {"dispose"}, pc : {"write"}, id : Assets, day : Days]
LookingUp == [op : {"lookup"}, pc : {"keep"}, value : SettingRow]
Merging == [op : {"setting"}, pc : {"write", "clear"}, body : SettingPatch, before : SettingRow]

Memory ==
  UNION {
    {Idle},
    Creating("createHead", {"write"}, NewHead), HeadMemory,
    Creating("createBank", {"free", "count", "write"}, NewBank),
    Updating("bank", {"count", "opening", "write"}, Banks, BankPatch),
    Updating("fund", {"opening", "active", "write"}, Funds, FundPatch),
    Creating("createProject", {"write"}, NewProject),
    Updating("project", {"count", "fund", "write"}, Projects, ProjectPatch),
    Updating("createActivity", {"fund", "project", "write"}, {Null}, NewActivity),
    Updating("activity", {"fund", "project", "write"}, Activities, ActivityBody),
    Creating("createAsset", {"write"}, NewAsset),
    Updating("asset", {"fund", "write"}, Assets, AssetPatch),
    Disposing, LookingUp,
    Creating("setting", {"cash", "deposit", "apart", "read"}, SettingPatch), Merging}

\* What a handler knows of rows, whatever others do to them: rows stay, and heads and bank
\* accounts keep what they were created with.
Knows(m) ==
  /\ m.op = "createHead" /\ m.body.parent # Null => Compatible(m.body.parent, m.body.type)
  /\ m.op = "head" =>
       /\ head[m.id] # Unborn
       /\ m.pc \in {"parent", "walk"} => m.body.parent \notin {Keep, Null}
       /\ m.pc # "parent" /\ m.body.parent \notin {Keep, Null} =>
            Compatible(m.body.parent, head[m.id].type)
       /\ m.pc = "walk" => m.cursor # Null /\ head[m.cursor] # Unborn
  /\ m.op = "createBank" => head[m.body.head] # Unborn /\ head[m.body.head].type = "asset"
  /\ m.op = "bank" => bank[m.id] # Unborn /\ (m.pc # "write" => m.body.opening # Keep)
  /\ m.op = "fund" => fund[m.id] # Unborn
  /\ m.op = "project" => project[m.id] # Unborn
  /\ m.op = "activity" => activity[m.id] # Unborn
  /\ m.op \in {"asset", "dispose"} => asset[m.id] # Unborn

\* What a handler checked and still counts on.  Another may undo it: until two are in
\* flight none does.
CheckedHead(m) ==
  /\ (m.pc \in {"postable", "active", "write"} /\ m.body.opening # Keep) => EntriesOn(m.id) = {}
  /\ (m.pc \in {"active", "write"} /\ m.body.postable = FALSE) => EntriesOn(m.id) = {}
  /\ (m.pc = "write" /\ m.body.active = FALSE) => ActiveChildren(m.id) = {}

\* Heads each below the next.
Chain(f, n) ==
  /\ \A i \in 0..n : head[f[i]] # Unborn
  /\ \A i \in 0..(n - 1) : head[f[i]].parent = f[i + 1]
Deep == \E f \in [0..MaxDepth -> Heads] : Chain(f, MaxDepth)

\* No way up from p leads to h.
Clear(h, p) ==
  \E S \in SUBSET Heads :
    p \in S /\ h \notin S /\ \A g \in S : head[g].parent \in S \cup {Null}

\* How far the walk up from a new parent has come: after it the head is not above the
\* parent, or the walk was given up.
Walked(m) ==
  m.body.parent \notin {Keep, Null} =>
    /\ m.pc = "parent" => m.depth = 0
    /\ m.pc = "walk" =>
         /\ m.depth < MaxDepth
         /\ \E f \in [0..m.depth -> Heads] :
              /\ f[0] = m.body.parent /\ f[m.depth] = m.cursor /\ Chain(f, m.depth)
              /\ \A i \in 0..(m.depth - 1) : f[i] # m.id
    /\ m.pc \notin {"parent", "walk"} => Clear(m.id, m.body.parent) \/ Deep

CheckedFund(m) ==
  /\ (m.pc \in {"active", "write"} /\ m.body.opening # Keep) => EntriesIn(m.id) = {}
  /\ (m.pc = "write" /\ m.body.active = FALSE) => OpenProjects(m.id) = {}

CheckedProject(m) ==
  m.body.fund \notin {Keep, project[m.id].fund} =>
    /\ m.pc \in {"fund", "write"} => EntriesOf(m.id) = {}
    /\ m.pc = "write" => TakesProjects(m.body.fund)

CheckedSetting(m) ==
  /\ (m.pc \in {"read", "write"} /\ m.body.deposit # Keep) => ~IsMoneyHead(m.body.deposit)
  /\ m.pc = "write" => m.before = setting

Checked(m) ==
  /\ m.op = "head" => CheckedHead(m) /\ Walked(m)
  /\ (m.op = "createBank" /\ m.pc = "write" /\ m.body.opening # 0) => EntriesOn(m.body.head) = {}
  /\ (m.op = "bank" /\ m.pc = "opening") => EntriesOn(bank[m.id].head) = {}
  /\ m.op = "fund" => CheckedFund(m)
  /\ m.op = "createProject" => TakesProjects(m.body.fund)
  /\ m.op = "project" => CheckedProject(m)
  /\ (m.op \in {"createActivity", "activity"} /\ m.pc = "write" /\ m.body.project # Null) =>
       CarriedIn(m.body.project, m.body.fund)
  /\ m.op \in {"asset", "dispose"} => HeldAsset(m.id)
  /\ m.op = "setting" => CheckedSetting(m)
  /\ m.op = "lookup" => m.value = setting

\* A head hangs below a head of its type.
TypesAgree ==
  \A h \in Heads : head[h] # Unborn /\ head[h].parent # Null => Compatible(head[h].parent, head[h].type)

\* A bank account posts through an asset head of its own.
BanksApart ==
  \A b, c \in Banks : bank[b] # Unborn /\ bank[c] # Unborn =>
    /\ head[bank[b].head] # Unborn /\ head[bank[b].head].type = "asset"
    /\ bank[b].head = bank[c].head => b = c

MastersInv ==
  /\ TypeOK
  /\ request \in [Requests -> Memory]
  /\ TypesAgree /\ BanksApart
  /\ \A r \in Requests : Knows(request[r])

-----------------------------------------------------------------------------
(* Memories and rows *)

\* The operation tells what is remembered.
LEMMA MemoryOf ==
  ASSUME NEW m \in Memory
  PROVE  /\ m.op = "idle" => m = Idle
         /\ m.op = "createHead" => m \in Creating("createHead", {"write"}, NewHead)
         /\ m.op = "head" => m \in HeadMemory
         /\ m.op = "createBank" => m \in Creating("createBank", {"free", "count", "write"}, NewBank)
         /\ m.op = "bank" => m \in Updating("bank", {"count", "opening", "write"}, Banks, BankPatch)
         /\ m.op = "fund" => m \in Updating("fund", {"opening", "active", "write"}, Funds, FundPatch)
         /\ m.op = "createProject" => m \in Creating("createProject", {"write"}, NewProject)
         /\ m.op = "project" =>
              m \in Updating("project", {"count", "fund", "write"}, Projects, ProjectPatch)
         /\ m.op = "createActivity" =>
              m \in Updating("createActivity", {"fund", "project", "write"}, {Null}, NewActivity)
         /\ m.op = "activity" =>
              m \in Updating("activity", {"fund", "project", "write"}, Activities, ActivityBody)
         /\ m.op = "createAsset" => m \in Creating("createAsset", {"write"}, NewAsset)
         /\ m.op = "asset" => m \in Updating("asset", {"fund", "write"}, Assets, AssetPatch)
         /\ m.op = "dispose" => m \in Disposing
         /\ m.op = "lookup" => m \in LookingUp
         /\ m.op = "setting" =>
              m \in Creating("setting", {"cash", "deposit", "apart", "read"}, SettingPatch) \cup Merging
  BY SMTT(60) DEF Memory, Idle, Creating, HeadMemory, Updating, Disposing, LookingUp, Merging

\* What an update makes of a row.
LEMMA PatchedHead ==
  ASSUME NEW row \in HeadRow, NEW body \in HeadPatch
  PROVE  LET new == Patched(row, body)
         IN /\ new \in HeadRow
            /\ new.type = row.type
            /\ new.parent = IF body.parent # Keep THEN body.parent ELSE row.parent
            /\ new.opening = IF body.opening # Keep THEN body.opening ELSE row.opening
            /\ new.postable = IF body.postable # Keep THEN body.postable ELSE row.postable
            /\ new.active = IF body.active # Keep THEN body.active ELSE row.active
<1>1. DOMAIN row = {"type", "parent", "postable", "active", "opening"}
  BY DEF HeadRow
<1>2. DOMAIN body = {"parent", "postable", "active", "opening"}
  BY DEF HeadPatch
<1> QED
  BY <1>1, <1>2 DEF Patched, HeadRow, HeadPatch, Kept

LEMMA PatchedBank ==
  ASSUME NEW row \in BankRow, NEW body \in BankPatch
  PROVE  Patched(row, body) \in BankRow /\ Patched(row, body).head = row.head
<1>1. DOMAIN row = {"head", "opening", "active"} /\ DOMAIN body = {"opening", "active"}
  BY DEF BankRow, BankPatch
<1> QED
  BY <1>1 DEF Patched, BankRow, BankPatch, Kept

LEMMA PatchedFund ==
  ASSUME NEW row \in FundRow, NEW body \in FundPatch
  PROVE  LET new == Patched(row, body)
         IN /\ new \in FundRow
            /\ new.opening = IF body.opening # Keep THEN body.opening ELSE row.opening
            /\ new.active = IF body.active # Keep THEN body.active ELSE row.active
<1>1. DOMAIN row = {"opening", "active"} /\ DOMAIN body = {"opening", "active"}
  BY DEF FundRow, FundPatch
<1> QED
  BY <1>1 DEF Patched, FundRow, FundPatch, Kept

LEMMA PatchedProject ==
  ASSUME NEW row \in ProjectRow, NEW body \in ProjectPatch
  PROVE  LET new == Patched(row, WithActivity(body))
         IN /\ new \in ProjectRow
            /\ new.fund = IF body.fund # Keep THEN body.fund ELSE row.fund
<1>1. WithActivity(body) \in ProjectPatch /\ WithActivity(body).fund = body.fund
  <2>1. ASSUME NEW b \in BOOLEAN
        PROVE  [body EXCEPT !.active = b] \in ProjectPatch /\ [body EXCEPT !.active = b].fund = body.fund
    BY DEF ProjectPatch, Kept
  <2>2. (body.status \in UnderWay) \in BOOLEAN
    OBVIOUS
  <2>3. CASE body.active = Keep /\ body.status # Keep
    <3>1. WithActivity(body) = [body EXCEPT !.active = body.status \in UnderWay]
      BY <2>3 DEF WithActivity
    <3> QED
      BY <2>1, <2>2, <3>1, Zenon
  <2>4. CASE ~(body.active = Keep /\ body.status # Keep)
    <3>1. WithActivity(body) = body
      BY <2>4, Zenon DEF WithActivity
    <3> QED
      BY <3>1
  <2> QED
    BY <2>3, <2>4
<1>2. \A b \in ProjectPatch : DOMAIN b = {"fund", "status", "active"}
  BY DEF ProjectPatch
<1>3. DOMAIN row = {"fund", "status", "active"}
  BY DEF ProjectRow
<1> QED
  BY <1>1, <1>2, <1>3 DEF Patched, ProjectRow, ProjectPatch, Kept

LEMMA PatchedActivity ==
  ASSUME NEW row \in ActivityRow, NEW body \in ActivityPatch
  PROVE  LET new == Patched(row, body)
         IN /\ new \in ActivityRow
            /\ new.fund = IF body.fund # Keep THEN body.fund ELSE row.fund
            /\ new.project = IF body.project # Keep THEN body.project ELSE row.project
<1>1. /\ DOMAIN row = {"fund", "project", "active"}
      /\ DOMAIN body = {"fund", "project", "active"}
  BY DEF ActivityRow, ActivityPatch
<1> QED
  BY <1>1 DEF Patched, ActivityRow, ActivityPatch, Kept

LEMMA PatchedAsset ==
  ASSUME NEW row \in AssetRow, NEW body \in AssetPatch
  PROVE  LET new == Patched(row, body)
         IN /\ new \in AssetRow
            /\ new.disposedOn = row.disposedOn
            /\ new.status = IF body.status # Keep THEN body.status ELSE row.status
<1>1. /\ DOMAIN row = {"fund", "status", "acquiredOn", "disposedOn"}
      /\ DOMAIN body = {"fund", "status", "acquiredOn"}
  BY DEF AssetRow, AssetPatch
<1> QED
  BY <1>1 DEF Patched, AssetRow, AssetPatch, Kept

LEMMA PatchedSetting ==
  ASSUME NEW row \in SettingRow, NEW body \in SettingPatch
  PROVE  LET new == Merged(row, body)
         IN /\ new \in SettingRow
            /\ new.cash = IF body.cash # Keep THEN body.cash ELSE row.cash
            /\ new.deposit = IF body.deposit # Keep THEN body.deposit ELSE row.deposit
<1>1. DOMAIN row = {"cash", "deposit"} /\ DOMAIN body = {"cash", "deposit"}
  BY DEF SettingRow, SettingPatch
<1> QED
  BY <1>1 DEF Merged, Patched, SettingRow, SettingPatch, Kept

\* The rows inserted.
LEMMA NewRows ==
  /\ \A body \in NewHead : /\ New(body) \in HeadRow
                           /\ New(body).type = body.type /\ New(body).parent = body.parent
  /\ \A body \in NewBank : New(body) \in BankRow /\ New(body).head = body.head
  /\ \A body \in NewFund : New(body) \in FundRow
  /\ \A body \in NewProject : New(body) \in ProjectRow /\ New(body).fund = body.fund
  /\ \A body \in NewActivity :
       New(body) \in ActivityRow /\ New(body).fund = body.fund /\ New(body).project = body.project
<1>1. ASSUME NEW body \in NewHead
      PROVE  /\ New(body) \in HeadRow
             /\ New(body).type = body.type /\ New(body).parent = body.parent
  <2>1. DOMAIN body = {"type", "parent", "postable", "opening"}
    BY DEF NewHead
  <2> QED
    BY <2>1 DEF New, NewHead, HeadRow
<1>2. ASSUME NEW body \in NewBank PROVE New(body) \in BankRow /\ New(body).head = body.head
  <2>1. DOMAIN body = {"head", "opening"}
    BY DEF NewBank
  <2> QED
    BY <2>1 DEF New, NewBank, BankRow
<1>3. ASSUME NEW body \in NewFund PROVE New(body) \in FundRow
  <2>1. DOMAIN body = {"opening"}
    BY DEF NewFund
  <2> QED
    BY <2>1 DEF New, NewFund, FundRow
<1>4. ASSUME NEW body \in NewProject PROVE New(body) \in ProjectRow /\ New(body).fund = body.fund
  <2>1. DOMAIN body = {"fund", "status"}
    BY DEF NewProject
  <2> QED
    BY <2>1 DEF New, NewProject, ProjectRow
<1>5. ASSUME NEW body \in NewActivity
      PROVE  /\ New(body) \in ActivityRow
             /\ New(body).fund = body.fund /\ New(body).project = body.project
  <2>1. DOMAIN body = {"fund", "project"}
    BY DEF NewActivity
  <2> QED
    BY <2>1 DEF New, NewActivity, ActivityRow
<1> QED
  BY <1>1, <1>2, <1>3, <1>4, <1>5

-----------------------------------------------------------------------------
(* The checks of an update of a head *)

\* The first check from the n-th on is the one called for with none called for before.
LEMMA FirstCheck ==
  ASSUME NEW n \in 1..5, NEW body, NEW i \in n..5, Calls(body, HeadChecks[i]),
         \A j \in n..(i - 1) : ~Calls(body, HeadChecks[j])
  PROVE  FromCheck(n, body) = HeadChecks[i]
<1> DEFINE First(k) == Calls(body, HeadChecks[k]) /\ \A j \in n..(k - 1) : ~Calls(body, HeadChecks[j])
           c == CHOOSE k \in n..5 : First(k)
<1>1. c \in n..5 /\ First(c)
  <2>1. \E k \in n..5 : First(k)
    OBVIOUS
  <2> HIDE DEF First
  <2> QED
    BY <2>1, Zenon
<1>2. c = i
  <2> HIDE DEF c
  <2>1. c < i => FALSE
    <3>1. c < i => c \in n..(i - 1)
      BY <1>1
    <3> QED
      BY <1>1, <3>1
  <2>2. i < c => FALSE
    <3>1. i < c => i \in n..(c - 1)
      BY <1>1
    <3> QED
      BY <1>1, <3>1
  <2> QED
    BY <1>1, <2>1, <2>2
<1> QED
  BY <1>2 DEF FromCheck

\* The checks in their order.
LEMMA Checks ==
  ASSUME NEW body
  PROVE  LET last == IF body.active = FALSE THEN "active" ELSE "write"
             later == IF body.postable = FALSE THEN "postable" ELSE last
             own == IF body.opening # Keep THEN "opening" ELSE later
         IN /\ FromCheck(4, body) = last
            /\ FromCheck(3, body) = later
            /\ FromCheck(2, body) = own
            /\ FromCheck(1, body) = IF body.parent \notin {Keep, Null} THEN "parent" ELSE own
<1>1. /\ HeadChecks[1] = "parent" /\ HeadChecks[2] = "opening" /\ HeadChecks[3] = "postable"
      /\ HeadChecks[4] = "active" /\ HeadChecks[5] = "write"
  BY DEF HeadChecks
<1>2. /\ Calls(body, HeadChecks[1]) <=> body.parent \notin {Keep, Null}
      /\ Calls(body, HeadChecks[2]) <=> body.opening # Keep
      /\ Calls(body, HeadChecks[3]) <=> body.postable = FALSE
      /\ Calls(body, HeadChecks[4]) <=> body.active = FALSE
      /\ Calls(body, HeadChecks[5])
  BY <1>1 DEF Calls
<1>3. FromCheck(4, body) = IF body.active = FALSE THEN "active" ELSE "write"
  <2>1. CASE body.active = FALSE
    <3>1. FromCheck(4, body) = HeadChecks[4]
      BY <1>2, <2>1, FirstCheck
    <3> QED
      BY <1>1, <2>1, <3>1
  <2>2. CASE body.active # FALSE
    <3>1. \A j \in 4..(5 - 1) : ~Calls(body, HeadChecks[j])
      <4>1. \A j \in 4..(5 - 1) : j = 4
        OBVIOUS
      <4> QED
        BY <1>2, <2>2, <4>1
    <3>2. FromCheck(4, body) = HeadChecks[5]
      <4>1. 5 \in 4..5 /\ 4 \in 1..5
        OBVIOUS
      <4> QED
        BY <1>2, <3>1, <4>1, FirstCheck
    <3> QED
      BY <1>1, <2>2, <3>2
  <2> QED
    BY <2>1, <2>2
<1>4. ASSUME NEW n \in 1..3, ~Calls(body, HeadChecks[n])
      PROVE  FromCheck(n, body) = FromCheck(n + 1, body)
  <2>1. PICK i \in (n + 1)..5 : /\ Calls(body, HeadChecks[i])
                               /\ \A j \in (n + 1)..(i - 1) : ~Calls(body, HeadChecks[j])
    <3>1. CASE Calls(body, HeadChecks[n + 1])
      BY <3>1
    <3>2. CASE ~Calls(body, HeadChecks[n + 1]) /\ n + 1 < 4 /\ Calls(body, HeadChecks[n + 2])
      <4>1. \A j \in (n + 1)..(n + 2 - 1) : j = n + 1
        OBVIOUS
      <4> QED
        BY <3>2, <4>1
    <3>3. CASE /\ ~Calls(body, HeadChecks[n + 1]) /\ n + 1 < 4 /\ ~Calls(body, HeadChecks[n + 2])
               /\ n + 2 < 4 /\ Calls(body, HeadChecks[n + 3])
      <4>1. \A j \in (n + 1)..(n + 3 - 1) : j = n + 1 \/ j = n + 2
        OBVIOUS
      <4> QED
        BY <3>3, <4>1
    <3>4. CASE \A j \in (n + 1)..4 : ~Calls(body, HeadChecks[j])
      <4>1. \A j \in (n + 1)..(5 - 1) : j \in (n + 1)..4
        OBVIOUS
      <4> QED
        BY <1>2, <3>4, <4>1
    <3>5. \/ Calls(body, HeadChecks[n + 1])
          \/ ~Calls(body, HeadChecks[n + 1]) /\ n + 1 < 4 /\ Calls(body, HeadChecks[n + 2])
          \/ /\ ~Calls(body, HeadChecks[n + 1]) /\ n + 1 < 4 /\ ~Calls(body, HeadChecks[n + 2])
             /\ n + 2 < 4 /\ Calls(body, HeadChecks[n + 3])
          \/ \A j \in (n + 1)..4 : ~Calls(body, HeadChecks[j])
      <4>1. \A j \in (n + 1)..4 : j = n + 1 \/ (j = n + 2 /\ n + 1 < 4) \/ (j = n + 3 /\ n + 2 < 4)
        OBVIOUS
      <4> QED
        BY <4>1
    <3> QED
      BY <3>1, <3>2, <3>3, <3>4, <3>5
  <2>2. \A j \in n..(i - 1) : j = n \/ j \in (n + 1)..(i - 1)
    OBVIOUS
  <2>3. FromCheck(n, body) = HeadChecks[i]
    BY <1>4, <2>1, <2>2, FirstCheck
  <2>4. FromCheck(n + 1, body) = HeadChecks[i]
    BY <2>1, FirstCheck
  <2> QED
    BY <2>3, <2>4
<1>5. ASSUME NEW n \in 1..3, Calls(body, HeadChecks[n])
      PROVE  FromCheck(n, body) = HeadChecks[n]
  BY <1>5, FirstCheck
<1>6. /\ FromCheck(3, body) = IF body.postable = FALSE THEN "postable" ELSE FromCheck(4, body)
      /\ FromCheck(2, body) = IF body.opening # Keep THEN "opening" ELSE FromCheck(3, body)
      /\ FromCheck(1, body) = IF body.parent \notin {Keep, Null} THEN "parent" ELSE FromCheck(2, body)
  <2>1. FromCheck(3, body) = IF Calls(body, HeadChecks[3]) THEN HeadChecks[3] ELSE FromCheck(3 + 1, body)
    BY <1>4, <1>5
  <2>2. FromCheck(2, body) = IF Calls(body, HeadChecks[2]) THEN HeadChecks[2] ELSE FromCheck(2 + 1, body)
    BY <1>4, <1>5
  <2>3. FromCheck(1, body) = IF Calls(body, HeadChecks[1]) THEN HeadChecks[1] ELSE FromCheck(1 + 1, body)
    BY <1>4, <1>5
  <2>4. 3 + 1 = 4 /\ 2 + 1 = 3 /\ 1 + 1 = 2
    OBVIOUS
  <2> QED
    BY <1>1, <1>2, <2>1, <2>2, <2>3, <2>4
<1> QED
  BY <1>3, <1>6

-----------------------------------------------------------------------------
(* From statement to statement *)

LEMMA MemoryParts ==
  /\ Idle \in Memory
  /\ Creating("createHead", {"write"}, NewHead) \subseteq Memory
  /\ HeadMemory \subseteq Memory
  /\ Creating("createBank", {"free", "count", "write"}, NewBank) \subseteq Memory
  /\ Updating("bank", {"count", "opening", "write"}, Banks, BankPatch) \subseteq Memory
  /\ Updating("fund", {"opening", "active", "write"}, Funds, FundPatch) \subseteq Memory
  /\ Creating("createProject", {"write"}, NewProject) \subseteq Memory
  /\ Updating("project", {"count", "fund", "write"}, Projects, ProjectPatch) \subseteq Memory
  /\ Updating("createActivity", {"fund", "project", "write"}, {Null}, NewActivity) \subseteq Memory
  /\ Updating("activity", {"fund", "project", "write"}, Activities, ActivityBody) \subseteq Memory
  /\ Creating("createAsset", {"write"}, NewAsset) \subseteq Memory
  /\ Updating("asset", {"fund", "write"}, Assets, AssetPatch) \subseteq Memory
  /\ Disposing \subseteq Memory /\ LookingUp \subseteq Memory /\ Merging \subseteq Memory
  /\ Creating("setting", {"cash", "deposit", "apart", "read"}, SettingPatch) \subseteq Memory
  BY DEF Memory

\* A handler that goes on to its next statement remembers the rest.
LEMMA GoesOn ==
  ASSUME NEW op, NEW pcs, NEW ids, NEW bodies, NEW pc \in pcs
  PROVE  /\ \A m \in Creating(op, pcs, bodies) :
              LET n == [m EXCEPT !.pc = pc]
              IN n \in Creating(op, pcs, bodies) /\ n.op = op /\ n.pc = pc /\ n.body = m.body
         /\ \A m \in Updating(op, pcs, ids, bodies) :
              LET n == [m EXCEPT !.pc = pc]
              IN /\ n \in Updating(op, pcs, ids, bodies)
                 /\ n.op = op /\ n.pc = pc /\ n.id = m.id /\ n.body = m.body
  BY DEF Creating, Updating

\* What a handler puts in its memory, in one form.
LEMMA Forms ==
  ASSUME request \in [Requests -> Memory], NEW r \in Requests
  PROVE  /\ \A m : Accept(r, m) => request[r] = Idle /\ request' = [request EXCEPT ![r] = m]
         /\ \A pc : Advance(r, pc) => request' = [request EXCEPT ![r] = [request[r] EXCEPT !.pc = pc]]
         /\ Finish(r) => request' = [request EXCEPT ![r] = Idle]
  BY DEF Accept, Advance, Finish

\* Rows stay, and heads keep their types.
HeadsStay ==
  \A h \in Heads : head[h] # Unborn => head'[h] # Unborn /\ head'[h].type = head[h].type
RowsStay ==
  /\ HeadsStay
  /\ \A b \in Banks : bank[b] # Unborn => bank'[b] # Unborn
  /\ \A f \in Funds : fund[f] # Unborn => fund'[f] # Unborn
  /\ \A p \in Projects : project[p] # Unborn => project'[p] # Unborn
  /\ \A a \in Activities : activity[a] # Unborn => activity'[a] # Unborn
  /\ \A a \in Assets : asset[a] # Unborn => asset'[a] # Unborn

\* So what a handler knows of them stays true.
LEMMA KnowsStays ==
  ASSUME RowsStay, NEW m \in Memory, Knows(m)
  PROVE  Knows(m)'
<1>1. m.op = "createHead" /\ m.body.parent # Null => m.body.parent \in Heads
  BY MemoryOf DEF Creating, NewHead
<1>2. m.op = "head" => /\ m.id \in Heads /\ m.cursor \in Heads \cup {Null}
                       /\ m.body.parent \notin {Keep, Null} => m.body.parent \in Heads
  BY MemoryOf DEF HeadMemory, HeadPatch, Kept
<1>3. m.op = "createBank" => m.body.head \in Heads
  BY MemoryOf DEF Creating, NewBank
<1>4. /\ m.op = "bank" => m.id \in Banks
      /\ m.op = "fund" => m.id \in Funds
      /\ m.op = "project" => m.id \in Projects
      /\ m.op = "activity" => m.id \in Activities
      /\ m.op \in {"asset", "dispose"} => m.id \in Assets
  BY MemoryOf DEF Updating, Disposing
<1>5. m.op = "createHead" /\ m.body.parent # Null => Compatible(m.body.parent, m.body.type)'
  BY <1>1 DEF Knows, RowsStay, HeadsStay, Compatible
<1>6. m.op = "head" =>
        /\ head'[m.id] # Unborn
        /\ m.pc \in {"parent", "walk"} => m.body.parent \notin {Keep, Null}
        /\ m.pc # "parent" /\ m.body.parent \notin {Keep, Null} =>
             Compatible(m.body.parent, head[m.id].type)'
        /\ m.pc = "walk" => m.cursor # Null /\ head'[m.cursor] # Unborn
  BY <1>2 DEF Knows, RowsStay, HeadsStay, Compatible
<1>7. m.op = "createBank" => head'[m.body.head] # Unborn /\ head'[m.body.head].type = "asset"
  BY <1>3 DEF Knows, RowsStay, HeadsStay
<1>8. /\ m.op = "bank" => bank'[m.id] # Unborn /\ (m.pc # "write" => m.body.opening # Keep)
      /\ m.op = "fund" => fund'[m.id] # Unborn
      /\ m.op = "project" => project'[m.id] # Unborn
      /\ m.op = "activity" => activity'[m.id] # Unborn
      /\ m.op \in {"asset", "dispose"} => asset'[m.id] # Unborn
  BY <1>4 DEF Knows, RowsStay, HeadsStay
<1> QED
  BY <1>5, <1>6, <1>7, <1>8 DEF Knows

\* What a step makes of the memories.
LEMMA MemoriesKnow ==
  ASSUME MastersInv, NEW r \in Requests, NEW m \in Memory, RowsStay, Knows(m)',
         request' = [request EXCEPT ![r] = m]
  PROVE  /\ request' \in [Requests -> Memory]
         /\ \A s \in Requests : Knows(request[s])'
<1>1. request' \in [Requests -> Memory] /\ request'[r] = m
      /\ \A s \in Requests \ {r} : request'[s] = request[s]
  BY DEF MastersInv
<1>2. ASSUME NEW s \in Requests PROVE Knows(request[s])'
  <2>1. CASE s = r
    <3>1. PICK n : n = request'[s]
      OBVIOUS
    <3>2. n = m
      BY <1>1, <2>1, <3>1
    <3> QED
      BY <3>1, <3>2
  <2>2. CASE s # r
    <3>1. PICK n : n = request[s] /\ n = request'[s]
      BY <1>1, <2>2
    <3>2. n \in Memory /\ Knows(n)
      BY <3>1 DEF MastersInv
    <3>3. Knows(n)'
      BY <3>2, KnowsStays
    <3> QED
      BY <3>1, <3>3
  <2> QED
    BY <2>1, <2>2
<1> QED
  BY <1>1, <1>2

\* A step that changes no table.
LEMMA TablesStand ==
  ASSUME MastersInv, tables' = tables
  PROVE  TypeOK' /\ TypesAgree' /\ BanksApart' /\ RowsStay
<1>1. /\ head' = head /\ bank' = bank /\ fund' = fund /\ project' = project
      /\ activity' = activity /\ asset' = asset /\ setting' = setting /\ cache' = cache
  BY DEF tables, chart, dimensions, settings
<1>2. TypeOK'
  BY <1>1 DEF MastersInv, TypeOK
<1>3. TypesAgree' /\ BanksApart'
  BY <1>1 DEF MastersInv, TypesAgree, BanksApart, Compatible
<1> QED
  BY <1>1, <1>2, <1>3 DEF RowsStay, HeadsStay

\* A handler that reads goes on with what it read.
LEMMA Reads ==
  ASSUME MastersInv, tables' = tables, NEW r \in Requests, NEW m \in Memory, Knows(m),
         request' = [request EXCEPT ![r] = m]
  PROVE  MastersInv'
<1>1. RowsStay /\ TypeOK' /\ TypesAgree' /\ BanksApart'
  BY TablesStand
<1>2. Knows(m)'
  BY <1>1, KnowsStays
<1> QED
  BY <1>1, <1>2, MemoriesKnow DEF MastersInv

-----------------------------------------------------------------------------
(* The reading steps *)

\* A handler goes on with what it read, and counts on no more than it checked.
GoesOnChecked(r) ==
  /\ tables' = tables
  /\ \E n \in Memory :
       /\ request' = [request EXCEPT ![r] = n]
       /\ n.op # "idle" /\ Knows(n)
       /\ Checked(request[r]) => Checked(n)

LEMMA WalksOn ==
  ASSUME NEW m \in HeadMemory, m.pc = "walk", m.body.parent \notin {Keep, Null}, Walked(m),
         m.cursor \in Heads, head[m.cursor] # Unborn, m.cursor # m.id,
         NEW above \in Heads \cup {Null}, above = head[m.cursor].parent,
         above # Null => above \in Heads /\ head[above] # Unborn,
         NEW n, n.id = m.id, n.body = m.body, n.cursor = above, n.depth = m.depth + 1,
         n.pc = "walk" => above # Null /\ n.depth # MaxDepth,
         n.pc # "walk" => n.pc # "parent" /\ (above = Null \/ n.depth = MaxDepth)
  PROVE  Walked(n)
<1>1. PICK d \in Nat : d = m.depth
  BY DEF HeadMemory
<1>2. PICK f \in [0..d -> Heads] :
        /\ f[0] = m.body.parent /\ f[d] = m.cursor /\ Chain(f, d)
        /\ \A i \in 0..(d - 1) : f[i] # m.id
  BY <1>1 DEF Walked
<1>3. d < MaxDepth /\ MaxDepth \in Nat
  BY <1>1 DEF Walked, MaxDepth
<1>4. \A i \in 0..d : f[i] # m.id
  <2>1. \A i \in 0..d : i = d \/ i \in 0..(d - 1)
    OBVIOUS
  <2> QED
    BY <1>2, <2>1
<1>5. CASE above = Null
  <2> DEFINE S == {f[i] : i \in 0..d}
  <2>1. m.body.parent \in S /\ m.id \notin S /\ S \in SUBSET Heads
    BY <1>2, <1>4
  <2>2. ASSUME NEW i \in 0..d PROVE head[f[i]].parent \in S \cup {Null}
    <3>1. CASE i = d
      BY <1>2, <1>5, <3>1
    <3>2. CASE i # d
      <4>1. i \in 0..(d - 1) /\ i + 1 \in 0..d
        BY <3>2
      <4> QED
        BY <1>2, <4>1 DEF Chain
    <3> QED
      BY <3>1, <3>2
  <2>3. \A g \in S : head[g].parent \in S \cup {Null}
    BY <2>2
  <2>4. Clear(m.id, m.body.parent)
    BY <2>1, <2>3 DEF Clear
  <2> QED
    BY <1>5, <2>4 DEF Walked
<1>6. CASE above # Null
  <2>1. PICK g : g = [i \in 0..(d + 1) |-> IF i = d + 1 THEN above ELSE f[i]]
    OBVIOUS
  <2>2. /\ g \in [0..(d + 1) -> Heads] /\ g[d + 1] = above
        /\ \A i \in 0..d : g[i] = f[i] /\ i \in 0..(d + 1)
    BY <1>6, <2>1
  <2>3. \A i \in 0..(d + 1) : head[g[i]] # Unborn
    <3>1. \A i \in 0..(d + 1) : i = d + 1 \/ i \in 0..d
      OBVIOUS
    <3> QED
      BY <1>2, <1>6, <2>2, <3>1 DEF Chain
  <2>4. \A i \in 0..((d + 1) - 1) : head[g[i]].parent = g[i + 1]
    <3>1. \A i \in 0..((d + 1) - 1) : i \in 0..d /\ (i = d \/ (i \in 0..(d - 1) /\ i + 1 \in 0..d))
      OBVIOUS
    <3> QED
      BY <1>2, <2>2, <3>1 DEF Chain
  <2>5. Chain(g, d + 1)
    BY <2>3, <2>4 DEF Chain
  <2>6. CASE n.pc = "walk"
    <3>1. d + 1 < MaxDepth
      BY <1>1, <1>3, <2>6
    <3>2. g[0] = m.body.parent /\ g[d + 1] = n.cursor
      BY <1>2, <2>2
    <3>3. \A i \in 0..((d + 1) - 1) : g[i] # m.id
      <4>1. \A i \in 0..((d + 1) - 1) : i \in 0..d
        OBVIOUS
      <4> QED
        BY <1>4, <2>2, <4>1
    <3>4. n.depth = d + 1
      BY <1>1
    <3> QED
      BY <2>2, <2>5, <2>6, <3>1, <3>2, <3>3, <3>4 DEF Walked
  <2>7. CASE n.pc # "walk"
    <3>1. d + 1 = MaxDepth
      BY <1>1, <1>6, <2>7
    <3>2. Deep
      BY <2>2, <2>5, <3>1 DEF Deep
    <3> QED
      BY <2>7, <3>2 DEF Walked
  <2> QED
    BY <2>6, <2>7
<1> QED
  BY <1>5, <1>6

LEMMA HeadReads ==
  ASSUME MastersInv, NEW r \in Requests,
         \/ HeadCreateLoad(r) \/ HeadLoad(r) \/ HeadParent(r) \/ HeadWalk(r)
         \/ HeadOpening(r) \/ HeadPostable(r) \/ HeadActive(r)
  PROVE  GoesOnChecked(r)
<1> DEFINE pcs == {"parent", "walk", "opening", "postable", "active", "write"}
<1>0. /\ tables' = tables /\ request \in [Requests -> Memory] /\ request[r] \in Memory
      /\ TypeOK /\ Knows(request[r])
  BY DEF HeadCreateLoad, HeadLoad, HeadParent, HeadWalk, HeadOpening, HeadPostable, HeadActive,
         MastersInv
<1>1. CASE HeadCreateLoad(r)
  <2>1. PICK body \in Offers.newHead :
          /\ body.parent # Null => Compatible(body.parent, body.type)
          /\ Accept(r, [op |-> "createHead", pc |-> "write", body |-> body])
    BY <1>1 DEF HeadCreateLoad
  <2> DEFINE m == [op |-> "createHead", pc |-> "write", body |-> body]
  <2>2. body \in NewHead
    BY OffersAssumption
  <2>3. m \in Memory
    BY <2>2, MemoryParts DEF Creating
  <2>4. Knows(m)
    BY <2>1 DEF Knows
  <2>5. request' = [request EXCEPT ![r] = m]
    BY <1>0, <2>1, Forms
  <2>6. m.op # "idle" /\ Checked(m)
    BY DEF Checked
  <2> HIDE DEF m
  <2> QED
    BY <1>0, <2>3, <2>4, <2>5, <2>6 DEF GoesOnChecked
<1>2. CASE HeadLoad(r)
  <2>1. PICK h \in Heads, body \in Offers.head :
          /\ head[h] # Unborn
          /\ Accept(r, [op |-> "head", pc |-> FromCheck(1, body), id |-> h,
                        cursor |-> Null, depth |-> 0, body |-> body])
    BY <1>2 DEF HeadLoad
  <2>2. PICK pc : pc = FromCheck(1, body)
    OBVIOUS
  <2> DEFINE m == [op |-> "head", pc |-> pc, id |-> h, cursor |-> Null, depth |-> 0, body |-> body]
  <2>3. pc \in pcs \ {"walk"} /\ (pc = "parent" <=> body.parent \notin {Keep, Null})
    BY <2>2, Checks
  <2>4. body \in HeadPatch
    BY OffersAssumption
  <2>5. m \in Memory
    BY <2>3, <2>4, MemoryParts DEF HeadMemory
  <2>6. Knows(m)
    BY <2>1, <2>3 DEF Knows
  <2>7. request' = [request EXCEPT ![r] = m]
    BY <1>0, <2>1, <2>2, Forms
  <2>8. /\ pc \in {"postable", "active", "write"} => body.opening = Keep
        /\ pc \in {"active", "write"} => body.postable # FALSE
        /\ pc = "write" => body.active # FALSE
    BY <2>2, Checks
  <2>9. m.op # "idle" /\ Checked(m)
    BY <2>3, <2>8 DEF Checked, CheckedHead, Walked
  <2> HIDE DEF m
  <2> QED
    BY <1>0, <2>5, <2>6, <2>7, <2>9 DEF GoesOnChecked
<1>3. ASSUME NEW m \in HeadMemory, request[r].op = "head", request' = [request EXCEPT ![r] = m],
             m.id = request[r].id, m.body = request[r].body,
             m.pc \in {"parent", "walk"} => m.body.parent \notin {Keep, Null},
             m.pc # "parent" /\ m.body.parent \notin {Keep, Null} =>
               Compatible(m.body.parent, head[m.id].type),
             m.pc = "walk" => m.cursor # Null /\ head[m.cursor] # Unborn,
             Checked(request[r]) => CheckedHead(m) /\ Walked(m)
      PROVE  GoesOnChecked(r)
  <2>1. m \in Memory /\ m.op = "head"
    BY <1>3, MemoryParts DEF HeadMemory
  <2>2. head[m.id] # Unborn
    BY <1>0, <1>3 DEF Knows
  <2>3. Knows(m)
    BY <1>3, <2>1, <2>2 DEF Knows
  <2>4. Checked(request[r]) => Checked(m)
    BY <1>3, <2>1 DEF Checked
  <2> QED
    BY <1>0, <1>3, <2>1, <2>3, <2>4 DEF GoesOnChecked
<1>4. CASE HeadParent(r) \/ HeadWalk(r) \/ HeadOpening(r) \/ HeadPostable(r) \/ HeadActive(r)
  <2>1. PICK m : m = request[r]
    OBVIOUS
  <2>2. m.op = "head" /\ m \in HeadMemory
    BY <1>0, <1>4, <2>1, MemoryOf DEF HeadParent, HeadWalk, HeadOpening, HeadPostable, HeadActive, At
  <2>3. /\ m.id \in Heads /\ m.cursor \in Heads \cup {Null} /\ m.depth \in Nat /\ m.pc \in pcs
        /\ m.body \in HeadPatch
        /\ DOMAIN m = {"op", "pc", "id", "cursor", "depth", "body"}
    BY <2>2 DEF HeadMemory
  <2>4. m.body.parent \in Heads \cup {Null, Keep}
    BY <2>3 DEF HeadPatch, Kept
  <2>5. CASE HeadParent(r)
    <3>1. /\ m.pc = "parent" /\ Compatible(m.body.parent, head[m.id].type)
          /\ request' = [request EXCEPT ![r].pc = "walk", ![r].cursor = m.body.parent]
      BY <2>1, <2>5 DEF HeadParent, At
    <3>2. m.body.parent \notin {Keep, Null} /\ m.body.parent \in Heads
      BY <1>0, <2>1, <2>2, <2>4, <3>1 DEF Knows
    <3>3. PICK n : n = [m EXCEPT !.pc = "walk", !.cursor = m.body.parent]
      OBVIOUS
    <3>4. /\ n \in HeadMemory /\ n.pc = "walk" /\ n.id = m.id /\ n.body = m.body
          /\ n.cursor = m.body.parent
      BY <2>2, <3>2, <3>3 DEF HeadMemory
    <3>5. request' = [request EXCEPT ![r] = n]
      BY <1>0, <2>1, <2>3, <3>1, <3>3
    <3>6. head[m.body.parent] # Unborn
      BY <3>1 DEF Compatible
    <3>7. CheckedHead(n)
      BY <3>4 DEF CheckedHead
    <3>8. Walked(m) => Walked(n)
      <4>1. n.depth = m.depth
        BY <2>2, <3>3 DEF HeadMemory
      <4>2. SUFFICES ASSUME m.depth = 0 PROVE Walked(n)
        BY <3>1, <3>2 DEF Walked
      <4>3. PICK f : f = [i \in 0..0 |-> m.body.parent]
        OBVIOUS
      <4>4. f \in [0..0 -> Heads] /\ f[0] = m.body.parent
        BY <3>2, <4>3
      <4>5. Chain(f, 0) /\ \A i \in 0..(0 - 1) : f[i] # m.id
        BY <3>6, <4>4 DEF Chain
      <4>6. 0 < MaxDepth
        BY DEF MaxDepth
      <4> QED
        BY <3>4, <4>1, <4>2, <4>4, <4>5, <4>6 DEF Walked
    <3>9. Checked(request[r]) => Walked(n)
      BY <2>1, <2>2, <3>8 DEF Checked
    <3> QED
      BY <1>3, <2>1, <2>2, <3>1, <3>2, <3>4, <3>5, <3>6, <3>7, <3>9
  <2>6. CASE HeadWalk(r)
    <3>1. PICK above, depth, pc :
            /\ above = head[m.cursor].parent /\ depth = m.depth + 1
            /\ pc = IF above = Null \/ depth = MaxDepth THEN FromCheck(2, m.body) ELSE "walk"
      OBVIOUS
    <3>2. /\ m.pc = "walk" /\ m.cursor # m.id
          /\ request' = [request EXCEPT ![r].cursor = above, ![r].depth = depth, ![r].pc = pc]
      BY <2>1, <2>6, <3>1 DEF HeadWalk, At, Climb
    <3>3. m.cursor \in Heads /\ head[m.cursor] # Unborn
      BY <1>0, <2>1, <2>2, <2>3, <3>2 DEF Knows
    <3>4. above \in Heads \cup {Null} /\ depth \in Nat
      <4>1. head \in [Heads -> HeadRow \cup {Unborn}]
        BY <1>0 DEF TypeOK
      <4>2. PICK row : row = head[m.cursor]
        OBVIOUS
      <4>3. row \in HeadRow
        BY <3>3, <4>1, <4>2
      <4> QED
        BY <2>3, <3>1, <4>2, <4>3 DEF HeadRow
    <3>5. above # Null => above \in Heads /\ head[above] # Unborn
      BY <3>1, <3>3, <3>4 DEF MastersInv, TypesAgree, Compatible
    <3>6. pc \in pcs \ {"parent"} /\ (pc = "walk" => above # Null)
      BY <3>1, Checks
    <3>7. PICK n : n = [m EXCEPT !.cursor = above, !.depth = depth, !.pc = pc]
      OBVIOUS
    <3>8. /\ n \in HeadMemory /\ n.pc = pc /\ n.id = m.id /\ n.body = m.body
          /\ n.cursor = above /\ n.depth = depth
      BY <2>2, <2>3, <3>4, <3>6, <3>7 DEF HeadMemory
    <3>9. request' = [request EXCEPT ![r] = n]
      BY <1>0, <2>1, <3>2, <3>7
    <3>10. m.body.parent \notin {Keep, Null} /\ Compatible(m.body.parent, head[m.id].type)
      BY <1>0, <2>1, <2>2, <3>2 DEF Knows
    <3>11. /\ pc \in {"postable", "active", "write"} => m.body.opening = Keep
           /\ pc \in {"active", "write"} => m.body.postable # FALSE
           /\ pc = "write" => m.body.active # FALSE
      BY <3>1, Checks
    <3>12. CheckedHead(n)
      BY <3>8, <3>11 DEF CheckedHead
    <3>13. Walked(m) => Walked(n)
      <4>1. /\ pc = "walk" => above # Null /\ depth # MaxDepth
            /\ pc # "walk" => pc # "parent" /\ (above = Null \/ depth = MaxDepth)
        BY <3>1, Checks
      <4>2. above = head[m.cursor].parent /\ n.depth = m.depth + 1
        BY <3>1, <3>8
      <4> QED
        BY <2>2, <3>2, <3>3, <3>4, <3>5, <3>8, <3>10, <4>1, <4>2, WalksOn
    <3>14. Checked(request[r]) => Walked(n)
      BY <2>1, <2>2, <3>13 DEF Checked
    <3> QED
      BY <1>3, <2>1, <2>2, <3>5, <3>6, <3>8, <3>9, <3>10, <3>12, <3>14
  <2>7. CASE HeadOpening(r) \/ HeadPostable(r) \/ HeadActive(r)
    <3>1. PICK pc :
            /\ Advance(r, pc) /\ pc \in {FromCheck(3, m.body), FromCheck(4, m.body), "write"}
            /\ \/ m.pc = "opening" /\ EntriesOn(m.id) = {} /\ pc = FromCheck(3, m.body)
               \/ m.pc = "postable" /\ EntriesOn(m.id) = {} /\ pc = FromCheck(4, m.body)
               \/ m.pc = "active" /\ ActiveChildren(m.id) = {}
      BY <2>1, <2>7 DEF HeadOpening, HeadPostable, HeadActive, At, Untouched
    <3>2. pc \in {"postable", "active", "write"}
      BY <3>1, Checks
    <3>3. m.pc \in {"opening", "postable", "active"}
      BY <2>1, <2>7 DEF HeadOpening, HeadPostable, HeadActive, At
    <3>4. PICK n : n = [m EXCEPT !.pc = pc]
      OBVIOUS
    <3>5. n \in HeadMemory /\ n.pc = pc /\ n.id = m.id /\ n.body = m.body
      BY <2>2, <3>2, <3>4 DEF HeadMemory
    <3>6. request' = [request EXCEPT ![r] = n]
      BY <1>0, <2>1, <3>1, <3>4, Forms
    <3>7. m.body.parent \notin {Keep, Null} => Compatible(m.body.parent, head[m.id].type)
      BY <1>0, <2>1, <2>2, <3>3 DEF Knows
    <3>8. /\ (m.pc = "opening" /\ pc \in {"active", "write"}) => m.body.postable # FALSE
          /\ (m.pc \in {"opening", "postable"} /\ pc = "write") => m.body.active # FALSE
      BY <3>1, Checks
    <3>9. CheckedHead(m) => CheckedHead(n)
      BY <3>1, <3>3, <3>5, <3>8 DEF CheckedHead
    <3>10. Checked(request[r]) => CheckedHead(n) /\ Walked(n)
      BY <2>1, <2>2, <3>2, <3>3, <3>5, <3>9 DEF Checked, Walked
    <3> QED
      BY <1>3, <2>1, <2>2, <3>2, <3>5, <3>6, <3>7, <3>10
  <2> QED
    BY <1>4, <2>5, <2>6, <2>7
<1> QED
  BY <1>1, <1>2, <1>4

\* A handler that checks goes on to its next statement.
LEMMA Advances ==
  ASSUME MastersInv, tables' = tables, NEW r \in Requests, NEW pc, Advance(r, pc),
         NEW n \in Memory, n = [request[r] EXCEPT !.pc = pc], n.op # "idle", Knows(n),
         Checked(request[r]) => Checked(n)
  PROVE  GoesOnChecked(r)
<1>1. request' = [request EXCEPT ![r] = n]
  BY Forms DEF MastersInv
<1> QED
  BY <1>1 DEF GoesOnChecked

LEMMA ReadsKept ==
  ASSUME MastersInv, NEW r \in Requests, GoesOnChecked(r)
  PROVE  MastersInv'
  BY Reads DEF GoesOnChecked

LEMMA BankReads ==
  ASSUME MastersInv, NEW r \in Requests,
         \/ BankCreateLoad(r) \/ BankCreateFree(r) \/ BankCreateCount(r)
         \/ BankLoad(r) \/ BankCount(r)
  PROVE  GoesOnChecked(r)
<1>0. /\ tables' = tables /\ request \in [Requests -> Memory] /\ request[r] \in Memory
      /\ Knows(request[r])
  BY DEF BankCreateLoad, BankCreateFree, BankCreateCount, BankLoad, BankCount, MastersInv
<1>1. CASE BankCreateLoad(r)
  <2>1. PICK body \in Offers.newBank :
          /\ Bankable(body.head)
          /\ Accept(r, [op |-> "createBank", pc |-> "free", body |-> body])
    BY <1>1 DEF BankCreateLoad
  <2> DEFINE m == [op |-> "createBank", pc |-> "free", body |-> body]
  <2>2. body \in NewBank
    BY OffersAssumption
  <2>3. m \in Memory
    BY <2>2, MemoryParts DEF Creating
  <2>4. Knows(m)
    BY <2>1 DEF Knows, Bankable
  <2>5. request' = [request EXCEPT ![r] = m]
    BY <1>0, <2>1, Forms
  <2>6. m.op # "idle" /\ Checked(m)
    BY DEF Checked
  <2> HIDE DEF m
  <2> QED
    BY <1>0, <2>3, <2>4, <2>5, <2>6 DEF GoesOnChecked
<1>2. CASE BankCreateFree(r) \/ BankCreateCount(r)
  <2>1. PICK pc :
          /\ Advance(r, pc) /\ pc \in {"count", "write"}
          /\ (pc = "write" /\ request[r].body.opening # 0) => EntriesOn(request[r].body.head) = {}
    BY <1>2 DEF BankCreateFree, BankCreateCount, Untouched
  <2>2. PICK m : m = request[r]
    OBVIOUS
  <2>3. m.op = "createBank" /\ m \in Creating("createBank", {"free", "count", "write"}, NewBank)
    BY <1>0, <1>2, <2>2, MemoryOf DEF BankCreateFree, BankCreateCount, At
  <2>4. PICK n : n = [m EXCEPT !.pc = pc]
    OBVIOUS
  <2>5. /\ n \in Creating("createBank", {"free", "count", "write"}, NewBank)
        /\ n.op = "createBank" /\ n.body = m.body
    BY <2>1, <2>3, <2>4 DEF Creating
  <2>6. n \in Memory /\ Knows(n)
    BY <1>0, <2>2, <2>3, <2>5, MemoryParts DEF Knows
  <2>7. n.op # "idle" /\ (Checked(m) => Checked(n))
    <3>1. n.pc = pc
      BY <2>3, <2>4 DEF Creating
    <3> QED
      BY <2>1, <2>2, <2>5, <3>1 DEF Checked
  <2> QED
    BY <1>0, <2>1, <2>2, <2>4, <2>6, <2>7, Advances
<1>3. CASE BankLoad(r)
  <2>1. PICK b \in Banks, body \in Offers.bank :
          /\ bank[b] # Unborn
          /\ Accept(r, [op |-> "bank", id |-> b, body |-> body,
                        pc |-> IF body.opening = Keep THEN "write" ELSE "count"])
    BY <1>3 DEF BankLoad
  <2>2. PICK m : m = [op |-> "bank", id |-> b, body |-> body,
                      pc |-> IF body.opening = Keep THEN "write" ELSE "count"]
    OBVIOUS
  <2>3. body \in BankPatch
    BY OffersAssumption
  <2>4. m \in Memory
    BY <2>2, <2>3, MemoryParts DEF Updating
  <2>5. Knows(m)
    BY <2>1, <2>2 DEF Knows
  <2>6. request' = [request EXCEPT ![r] = m]
    BY <1>0, <2>1, <2>2, Forms
  <2>7. m.op # "idle" /\ Checked(m)
    BY <2>2 DEF Checked
  <2> QED
    BY <1>0, <2>4, <2>5, <2>6, <2>7 DEF GoesOnChecked
<1>4. CASE BankCount(r)
  <2>1. PICK m : m = request[r]
    OBVIOUS
  <2>2. /\ m.op = "bank" /\ m.pc = "count"
        /\ m \in Updating("bank", {"count", "opening", "write"}, Banks, BankPatch)
    BY <1>0, <1>4, <2>1, MemoryOf DEF BankCount, At
  <2>3. PICK n : n = [m EXCEPT !.pc = "opening"]
    OBVIOUS
  <2>4. /\ n \in Updating("bank", {"count", "opening", "write"}, Banks, BankPatch)
        /\ n.op = "bank" /\ n.pc = "opening" /\ n.id = m.id /\ n.body = m.body
    BY <2>2, <2>3, GoesOn
  <2>5. n \in Memory /\ Knows(n)
    BY <1>0, <2>1, <2>2, <2>4, MemoryParts DEF Knows
  <2>6. n.op # "idle" /\ Checked(n)
    BY <1>4, <2>1, <2>4 DEF Checked, BankCount, Untouched
  <2> QED
    BY <1>0, <1>4, <2>1, <2>3, <2>5, <2>6, Advances DEF BankCount
<1> QED
  BY <1>1, <1>2, <1>3, <1>4

LEMMA FundReads ==
  ASSUME MastersInv, NEW r \in Requests, FundLoad(r) \/ FundOpening(r) \/ FundActive(r)
  PROVE  GoesOnChecked(r)
<1>0. /\ tables' = tables /\ request \in [Requests -> Memory] /\ request[r] \in Memory
      /\ Knows(request[r])
  BY DEF FundLoad, FundOpening, FundActive, MastersInv
<1>1. CASE FundLoad(r)
  <2>1. PICK f \in Funds, body \in Offers.fund :
          /\ fund[f] # Unborn
          /\ Accept(r, [op |-> "fund", pc |-> FirstFundCheck(body), id |-> f, body |-> body])
    BY <1>1 DEF FundLoad
  <2>2. PICK m : m = [op |-> "fund", pc |-> FirstFundCheck(body), id |-> f, body |-> body]
    OBVIOUS
  <2>3. body \in FundPatch /\ FirstFundCheck(body) \in {"opening", "active", "write"}
    BY OffersAssumption DEF FirstFundCheck
  <2>4. m \in Memory
    BY <2>2, <2>3, MemoryParts DEF Updating
  <2>5. Knows(m)
    BY <2>1, <2>2 DEF Knows
  <2>6. request' = [request EXCEPT ![r] = m]
    BY <1>0, <2>1, <2>2, Forms
  <2>7. m.op # "idle" /\ Checked(m)
    BY <2>2 DEF Checked, CheckedFund, FirstFundCheck
  <2> QED
    BY <1>0, <2>4, <2>5, <2>6, <2>7 DEF GoesOnChecked
<1>2. CASE FundOpening(r) \/ FundActive(r)
  <2>1. PICK pc :
          /\ Advance(r, pc)
          /\ \/ /\ request[r].pc = "opening" /\ EntriesIn(request[r].id) = {}
                /\ pc = IF request[r].body.active = FALSE THEN "active" ELSE "write"
             \/ request[r].pc = "active" /\ OpenProjects(request[r].id) = {} /\ pc = "write"
    BY <1>2 DEF FundOpening, FundActive, At
  <2>2. PICK m : m = request[r]
    OBVIOUS
  <2>3. m.op = "fund" /\ m \in Updating("fund", {"opening", "active", "write"}, Funds, FundPatch)
    BY <1>0, <1>2, <2>2, MemoryOf DEF FundOpening, FundActive, At
  <2>4. PICK n : n = [m EXCEPT !.pc = pc]
    OBVIOUS
  <2>5. /\ n \in Updating("fund", {"opening", "active", "write"}, Funds, FundPatch)
        /\ n.op = "fund" /\ n.pc = pc /\ n.id = m.id /\ n.body = m.body
    BY <2>1, <2>3, <2>4, GoesOn
  <2>6. n \in Memory /\ Knows(n)
    BY <1>0, <2>2, <2>3, <2>5, MemoryParts DEF Knows
  <2>7. n.op # "idle" /\ (Checked(m) => Checked(n))
    BY <2>1, <2>2, <2>3, <2>5 DEF Checked, CheckedFund
  <2> QED
    BY <1>0, <2>1, <2>2, <2>4, <2>6, <2>7, Advances
<1> QED
  BY <1>1, <1>2

LEMMA ProjectReads ==
  ASSUME MastersInv, NEW r \in Requests,
         ProjectCreateLoad(r) \/ ProjectLoad(r) \/ ProjectCount(r) \/ ProjectFund(r)
  PROVE  GoesOnChecked(r)
<1>0. /\ tables' = tables /\ request \in [Requests -> Memory] /\ request[r] \in Memory
      /\ Knows(request[r])
  BY DEF ProjectCreateLoad, ProjectLoad, ProjectCount, ProjectFund, MastersInv
<1>1. CASE ProjectCreateLoad(r)
  <2>1. PICK body \in Offers.newProject :
          /\ TakesProjects(body.fund)
          /\ Accept(r, [op |-> "createProject", pc |-> "write", body |-> body])
    BY <1>1 DEF ProjectCreateLoad
  <2>2. PICK m : m = [op |-> "createProject", pc |-> "write", body |-> body]
    OBVIOUS
  <2>3. m \in Memory
    BY <2>2, MemoryParts, OffersAssumption DEF Creating
  <2>4. Knows(m)
    BY <2>2 DEF Knows
  <2>5. request' = [request EXCEPT ![r] = m]
    BY <1>0, <2>1, <2>2, Forms
  <2>6. m.op # "idle" /\ Checked(m)
    BY <2>1, <2>2 DEF Checked
  <2> QED
    BY <1>0, <2>3, <2>4, <2>5, <2>6 DEF GoesOnChecked
<1>2. CASE ProjectLoad(r)
  <2>1. PICK p \in Projects, body \in Offers.project :
          /\ project[p] # Unborn
          /\ Accept(r, [op |-> "project", id |-> p, body |-> body,
                        pc |-> IF body.fund \in {Keep, project[p].fund} THEN "write" ELSE "count"])
    BY <1>2 DEF ProjectLoad
  <2>2. PICK m : m = [op |-> "project", id |-> p, body |-> body,
                      pc |-> IF body.fund \in {Keep, project[p].fund} THEN "write" ELSE "count"]
    OBVIOUS
  <2>3. body \in ProjectPatch
    BY OffersAssumption
  <2>4. m \in Memory
    BY <2>2, <2>3, MemoryParts DEF Updating
  <2>5. Knows(m)
    BY <2>1, <2>2 DEF Knows
  <2>6. request' = [request EXCEPT ![r] = m]
    BY <1>0, <2>1, <2>2, Forms
  <2>7. m.op # "idle" /\ Checked(m)
    BY <2>2 DEF Checked, CheckedProject
  <2> QED
    BY <1>0, <2>4, <2>5, <2>6, <2>7 DEF GoesOnChecked
<1>3. CASE ProjectCount(r) \/ ProjectFund(r)
  <2>1. PICK pc :
          /\ Advance(r, pc)
          /\ \/ pc = "fund" /\ EntriesOf(request[r].id) = {}
             \/ request[r].pc = "fund" /\ pc = "write" /\ TakesProjects(request[r].body.fund)
    BY <1>3 DEF ProjectCount, ProjectFund, At
  <2>2. PICK m : m = request[r]
    OBVIOUS
  <2>3. /\ m.op = "project"
        /\ m \in Updating("project", {"count", "fund", "write"}, Projects, ProjectPatch)
    BY <1>0, <1>3, <2>2, MemoryOf DEF ProjectCount, ProjectFund, At
  <2>4. PICK n : n = [m EXCEPT !.pc = pc]
    OBVIOUS
  <2>5. /\ n \in Updating("project", {"count", "fund", "write"}, Projects, ProjectPatch)
        /\ n.op = "project" /\ n.pc = pc /\ n.id = m.id /\ n.body = m.body
    BY <2>1, <2>3, <2>4, GoesOn
  <2>6. n \in Memory /\ Knows(n)
    BY <1>0, <2>2, <2>3, <2>5, MemoryParts DEF Knows
  <2>7. n.op # "idle" /\ (Checked(m) => Checked(n))
    BY <2>1, <2>2, <2>3, <2>5 DEF Checked, CheckedProject
  <2> QED
    BY <1>0, <2>1, <2>2, <2>4, <2>6, <2>7, Advances
<1> QED
  BY <1>1, <1>2, <1>3

LEMMA ActivityReads ==
  ASSUME MastersInv, NEW r \in Requests,
         ActivityLoad(r) \/ ActivityFund(r) \/ ActivityProject(r)
  PROVE  GoesOnChecked(r)
<1>0. /\ tables' = tables /\ request \in [Requests -> Memory] /\ request[r] \in Memory
      /\ Knows(request[r])
  BY DEF ActivityLoad, ActivityFund, ActivityProject, MastersInv
<1>1. ASSUME NEW body \in Offers.newActivity,
             Accept(r, [op |-> "createActivity", pc |-> "fund", id |-> Null, body |-> body])
      PROVE  GoesOnChecked(r)
  <2>1. PICK m : m = [op |-> "createActivity", pc |-> "fund", id |-> Null, body |-> body]
    OBVIOUS
  <2>2. body \in NewActivity
    BY OffersAssumption
  <2>3. m \in Memory
    BY <2>1, <2>2, MemoryParts DEF Updating
  <2>4. Knows(m)
    BY <2>1 DEF Knows
  <2>5. request' = [request EXCEPT ![r] = m]
    BY <1>0, <1>1, <2>1, Forms
  <2>6. m.op # "idle" /\ Checked(m)
    BY <2>1 DEF Checked
  <2> QED
    BY <1>0, <2>3, <2>4, <2>5, <2>6 DEF GoesOnChecked
<1>2. ASSUME NEW a \in Activities, NEW body \in Offers.activity, activity[a] # Unborn,
             Accept(r, [op |-> "activity", pc |-> "fund", id |-> a,
                        body |-> [Patched(activity[a], body) EXCEPT !.active = body.active]])
      PROVE  GoesOnChecked(r)
  <2>1. PICK row : row = Patched(activity[a], body)
    OBVIOUS
  <2>2. body \in ActivityPatch
    BY OffersAssumption
  <2>3. activity[a] \in ActivityRow
    BY <1>2 DEF MastersInv, TypeOK
  <2>4. row \in ActivityRow
    BY <2>1, <2>2, <2>3, PatchedActivity
  <2>5. PICK all : all = [row EXCEPT !.active = body.active]
    OBVIOUS
  <2>6. all \in ActivityBody
    BY <2>2, <2>4, <2>5 DEF ActivityRow, ActivityPatch, ActivityBody
  <2>7. PICK m : m = [op |-> "activity", pc |-> "fund", id |-> a, body |-> all]
    OBVIOUS
  <2>8. m \in Memory
    BY <2>6, <2>7, MemoryParts DEF Updating
  <2>9. Knows(m)
    BY <1>2, <2>7 DEF Knows
  <2>10. request' = [request EXCEPT ![r] = m]
    BY <1>0, <1>2, <2>1, <2>5, <2>7, Forms
  <2>11. m.op # "idle" /\ Checked(m)
    BY <2>7 DEF Checked
  <2> QED
    BY <1>0, <2>8, <2>9, <2>10, <2>11 DEF GoesOnChecked
<1>3. CASE ActivityFund(r) \/ ActivityProject(r)
  <2>1. PICK pc :
          /\ Advance(r, pc) /\ pc \in {"project", "write"}
          /\ (pc = "write" /\ request[r].body.project # Null) =>
               CarriedIn(request[r].body.project, request[r].body.fund)
    BY <1>3 DEF ActivityFund, ActivityProject
  <2>2. PICK m : m = request[r]
    OBVIOUS
  <2>3. m.op \in {"createActivity", "activity"}
    BY <1>3, <2>2 DEF ActivityFund, ActivityProject, Activity
  <2>4. PICK n : n = [m EXCEPT !.pc = pc]
    OBVIOUS
  <2>5. CASE m.op = "createActivity"
    <3>1. m \in Updating("createActivity", {"fund", "project", "write"}, {Null}, NewActivity)
      BY <1>0, <2>2, <2>5, MemoryOf
    <3>2. /\ n \in Updating("createActivity", {"fund", "project", "write"}, {Null}, NewActivity)
          /\ n.op = "createActivity" /\ n.pc = pc /\ n.body = m.body
      BY <2>1, <2>4, <3>1, GoesOn
    <3>3. n \in Memory /\ Knows(n)
      BY <3>2, MemoryParts DEF Knows
    <3>4. n.op # "idle" /\ (Checked(m) => Checked(n))
      BY <2>1, <2>2, <3>2 DEF Checked
    <3> QED
      BY <1>0, <2>1, <2>2, <2>4, <3>3, <3>4, Advances
  <2>6. CASE m.op = "activity"
    <3>1. m \in Updating("activity", {"fund", "project", "write"}, Activities, ActivityBody)
      BY <1>0, <2>2, <2>6, MemoryOf
    <3>2. /\ n \in Updating("activity", {"fund", "project", "write"}, Activities, ActivityBody)
          /\ n.op = "activity" /\ n.pc = pc /\ n.id = m.id /\ n.body = m.body
      BY <2>1, <2>4, <3>1, GoesOn
    <3>3. n \in Memory /\ Knows(n)
      BY <1>0, <2>2, <2>6, <3>2, MemoryParts DEF Knows
    <3>4. n.op # "idle" /\ (Checked(m) => Checked(n))
      BY <2>1, <2>2, <3>2 DEF Checked
    <3> QED
      BY <1>0, <2>1, <2>2, <2>4, <3>3, <3>4, Advances
  <2> QED
    BY <2>3, <2>5, <2>6
<1> QED
  BY <1>1, <1>2, <1>3 DEF ActivityLoad

LEMMA AssetReads ==
  ASSUME MastersInv, NEW r \in Requests,
         AssetCreateLoad(r) \/ AssetLoad(r) \/ AssetFund(r) \/ DisposeLoad(r)
  PROVE  GoesOnChecked(r)
<1>0. /\ tables' = tables /\ request \in [Requests -> Memory] /\ request[r] \in Memory
      /\ Knows(request[r])
  BY DEF AssetCreateLoad, AssetLoad, AssetFund, DisposeLoad, MastersInv
<1>1. CASE AssetCreateLoad(r)
  <2>1. PICK body \in Offers.newAsset :
          Accept(r, [op |-> "createAsset", pc |-> "write", body |-> body])
    BY <1>1 DEF AssetCreateLoad
  <2>2. PICK m : m = [op |-> "createAsset", pc |-> "write", body |-> body]
    OBVIOUS
  <2>3. m \in Memory
    BY <2>2, MemoryParts, OffersAssumption DEF Creating
  <2>4. Knows(m)
    BY <2>2 DEF Knows
  <2>5. request' = [request EXCEPT ![r] = m]
    BY <1>0, <2>1, <2>2, Forms
  <2>6. m.op # "idle" /\ Checked(m)
    BY <2>2 DEF Checked
  <2> QED
    BY <1>0, <2>3, <2>4, <2>5, <2>6 DEF GoesOnChecked
<1>2. CASE AssetLoad(r)
  <2>1. PICK a \in Assets, body \in Offers.asset :
          /\ HeldAsset(a)
          /\ Accept(r, [op |-> "asset", pc |-> IF body.fund = Keep THEN "write" ELSE "fund",
                        id |-> a, body |-> body])
    BY <1>2 DEF AssetLoad
  <2>2. PICK m : m = [op |-> "asset", pc |-> IF body.fund = Keep THEN "write" ELSE "fund",
                      id |-> a, body |-> body]
    OBVIOUS
  <2>3. body \in AssetPatch
    BY OffersAssumption
  <2>4. m \in Memory
    BY <2>2, <2>3, MemoryParts DEF Updating
  <2>5. Knows(m)
    BY <2>1, <2>2 DEF Knows, HeldAsset
  <2>6. request' = [request EXCEPT ![r] = m]
    BY <1>0, <2>1, <2>2, Forms
  <2>7. m.op # "idle" /\ Checked(m)
    BY <2>1, <2>2 DEF Checked
  <2> QED
    BY <1>0, <2>4, <2>5, <2>6, <2>7 DEF GoesOnChecked
<1>3. CASE AssetFund(r)
  <2>1. PICK m : m = request[r]
    OBVIOUS
  <2>2. m.op = "asset" /\ m \in Updating("asset", {"fund", "write"}, Assets, AssetPatch)
    BY <1>0, <1>3, <2>1, MemoryOf DEF AssetFund, At
  <2>3. PICK n : n = [m EXCEPT !.pc = "write"]
    OBVIOUS
  <2>4. /\ n \in Updating("asset", {"fund", "write"}, Assets, AssetPatch)
        /\ n.op = "asset" /\ n.id = m.id
    BY <2>2, <2>3, GoesOn
  <2>5. n \in Memory /\ Knows(n)
    BY <1>0, <2>1, <2>2, <2>4, MemoryParts DEF Knows
  <2>6. n.op # "idle" /\ (Checked(m) => Checked(n))
    BY <2>2, <2>4 DEF Checked
  <2> QED
    BY <1>0, <1>3, <2>1, <2>3, <2>5, <2>6, Advances DEF AssetFund
<1>4. CASE DisposeLoad(r)
  <2>1. PICK a \in Assets, day \in Offers.disposal :
          /\ HeldAsset(a)
          /\ Accept(r, [op |-> "dispose", pc |-> "write", id |-> a, day |-> day])
    BY <1>4 DEF DisposeLoad
  <2>2. PICK m : m = [op |-> "dispose", pc |-> "write", id |-> a, day |-> day]
    OBVIOUS
  <2>3. m \in Memory
    BY <2>2, MemoryParts, OffersAssumption DEF Disposing
  <2>4. Knows(m)
    BY <2>1, <2>2 DEF Knows, HeldAsset
  <2>5. request' = [request EXCEPT ![r] = m]
    BY <1>0, <2>1, <2>2, Forms
  <2>6. m.op # "idle" /\ Checked(m)
    BY <2>1, <2>2 DEF Checked
  <2> QED
    BY <1>0, <2>3, <2>4, <2>5, <2>6 DEF GoesOnChecked
<1> QED
  BY <1>1, <1>2, <1>3, <1>4

LEMMA SettingReads ==
  ASSUME MastersInv, NEW r \in Requests,
         \/ LookupLoad(r) \/ SettingLoad(r) \/ SettingCash(r) \/ SettingDeposit(r)
         \/ SettingApart(r) \/ SettingRead(r)
  PROVE  GoesOnChecked(r)
<1> DEFINE pcs == {"cash", "deposit", "apart", "read"}
<1>0. /\ tables' = tables /\ request \in [Requests -> Memory] /\ request[r] \in Memory
      /\ Knows(request[r]) /\ setting \in SettingRow
  BY DEF LookupLoad, SettingLoad, SettingCash, SettingDeposit, SettingApart, SettingRead, MastersInv,
         TypeOK
<1>1. CASE LookupLoad(r)
  <2>1. PICK m : m = [op |-> "lookup", pc |-> "keep", value |-> setting]
    OBVIOUS
  <2>2. m \in Memory
    BY <1>0, <2>1, MemoryParts DEF LookingUp
  <2>3. Knows(m)
    BY <2>1 DEF Knows
  <2>4. request' = [request EXCEPT ![r] = m]
    BY <1>0, <1>1, <2>1, Forms DEF LookupLoad
  <2>5. m.op # "idle" /\ Checked(m)
    BY <2>1 DEF Checked
  <2> QED
    BY <1>0, <2>2, <2>3, <2>4, <2>5 DEF GoesOnChecked
<1>2. CASE SettingLoad(r)
  <2>1. PICK body \in Offers.setting :
          Accept(r, [op |-> "setting", body |-> body,
                     pc |-> IF body.cash # Keep THEN "cash" ELSE AfterCash(body)])
    BY <1>2 DEF SettingLoad
  <2>2. PICK m : m = [op |-> "setting", body |-> body,
                      pc |-> IF body.cash # Keep THEN "cash" ELSE AfterCash(body)]
    OBVIOUS
  <2>3. body \in SettingPatch
    BY OffersAssumption
  <2>4. m \in Memory
    BY <2>2, <2>3, MemoryParts DEF Creating, AfterCash
  <2>5. Knows(m)
    BY <2>2 DEF Knows
  <2>6. request' = [request EXCEPT ![r] = m]
    BY <1>0, <2>1, <2>2, Forms
  <2>7. m.op # "idle" /\ Checked(m)
    BY <2>2 DEF Checked, CheckedSetting, AfterCash
  <2> QED
    BY <1>0, <2>4, <2>5, <2>6, <2>7 DEF GoesOnChecked
<1>3. CASE SettingCash(r) \/ SettingDeposit(r) \/ SettingApart(r) \/ SettingRead(r)
  <2>1. PICK m : m = request[r]
    OBVIOUS
  <2>2. m.op = "setting" /\ m.pc \in pcs
    BY <1>3, <2>1 DEF SettingCash, SettingDeposit, SettingApart, SettingRead, At
  <2>3. m \in Creating("setting", pcs, SettingPatch)
    BY <1>0, <2>1, <2>2, MemoryOf DEF Merging
  <2>4. CASE SettingCash(r) \/ SettingDeposit(r) \/ SettingApart(r)
    <3>1. PICK pc :
            /\ Advance(r, pc) /\ pc \in pcs
            /\ (pc = "read" /\ request[r].body.deposit # Keep) => ~IsMoneyHead(request[r].body.deposit)
      BY <2>4 DEF SettingCash, SettingDeposit, SettingApart, AfterCash
    <3>2. PICK n : n = [m EXCEPT !.pc = pc]
      OBVIOUS
    <3>3. /\ n \in Creating("setting", pcs, SettingPatch)
          /\ n.op = "setting" /\ n.pc = pc /\ n.body = m.body
      BY <2>3, <3>1, <3>2 DEF Creating
    <3>4. n \in Memory /\ Knows(n)
      BY <3>3, MemoryParts DEF Knows
    <3>5. n.op # "idle" /\ (Checked(m) => Checked(n))
      BY <2>1, <3>1, <3>3 DEF Checked, CheckedSetting
    <3> QED
      BY <1>0, <2>1, <3>1, <3>2, <3>4, <3>5, Advances
  <2>5. CASE SettingRead(r)
    <3>1. PICK n : n = [op |-> "setting", pc |-> "write", body |-> m.body, before |-> setting]
      OBVIOUS
    <3>2. n \in Memory
      BY <1>0, <2>3, <3>1, MemoryParts DEF Creating, Merging
    <3>3. Knows(n)
      BY <3>1 DEF Knows
    <3>4. request' = [request EXCEPT ![r] = n]
      BY <2>1, <2>5, <3>1 DEF SettingRead
    <3>5. n.op # "idle" /\ (Checked(m) => Checked(n))
      BY <2>1, <2>2, <2>5, <3>1 DEF Checked, CheckedSetting, SettingRead, At
    <3> QED
      BY <1>0, <2>1, <3>2, <3>3, <3>4, <3>5 DEF GoesOnChecked
  <2> QED
    BY <1>3, <2>4, <2>5
<1> QED
  BY <1>1, <1>2, <1>3

\* A handler that ends, and a step that is no handler's.
LEMMA Ends ==
  ASSUME MastersInv, NEW r \in Requests, RowsStay, Finish(r)
  PROVE  /\ request' \in [Requests -> Memory]
         /\ \A s \in Requests : Knows(request[s])'
<1>1. PICK m : m = Idle
  OBVIOUS
<1>2. m \in Memory /\ Knows(m)'
  BY <1>1, MemoryParts DEF Knows, Idle
<1>3. request' = [request EXCEPT ![r] = m]
  BY <1>1 DEF Finish
<1> QED
  BY <1>2, <1>3, MemoriesKnow

LEMMA NobodyMoves ==
  ASSUME MastersInv, RowsStay, request' = request
  PROVE  /\ request' \in [Requests -> Memory]
         /\ \A s \in Requests : Knows(request[s])'
<1>1. ASSUME NEW s \in Requests PROVE Knows(request[s])'
  <2>1. PICK n : n = request[s] /\ n = request'[s]
    OBVIOUS
  <2>2. n \in Memory /\ Knows(n)
    BY <2>1 DEF MastersInv
  <2>3. Knows(n)'
    BY <2>2, KnowsStays
  <2> QED
    BY <2>1, <2>3
<1> QED
  BY <1>1 DEF MastersInv

-----------------------------------------------------------------------------
(* The writing steps *)

\* A row is no missing row.
LEMMA Born ==
  /\ \A row \in HeadRow : row # Unborn
  /\ \A row \in BankRow : row # Unborn
  /\ \A row \in FundRow : row # Unborn
  /\ \A row \in ProjectRow : row # Unborn
  /\ \A row \in ActivityRow : row # Unborn
  /\ \A row \in AssetRow : row # Unborn
<1> DEFINE d(row) == DOMAIN row
<1>1. d(Unborn) = {"active"}
  BY DEF Unborn
<1>2. /\ \A row \in HeadRow : "type" \in d(row)
      /\ \A row \in BankRow : "head" \in d(row)
      /\ \A row \in FundRow : "opening" \in d(row)
      /\ \A row \in ProjectRow : "fund" \in d(row)
      /\ \A row \in ActivityRow : "fund" \in d(row)
      /\ \A row \in AssetRow : "fund" \in d(row)
  BY DEF HeadRow, BankRow, FundRow, ProjectRow, ActivityRow, AssetRow
<1> HIDE DEF d
<1>3. "type" # "active" /\ "head" # "active" /\ "opening" # "active" /\ "fund" # "active"
  OBVIOUS
<1> QED
  BY <1>1, <1>2, <1>3

\* One head is inserted or updated.
LEMMA HeadWritten ==
  ASSUME MastersInv, NEW h \in Heads, NEW row \in HeadRow,
         head[h] # Unborn => row.type = head[h].type,
         row.parent # Null => Compatible(row.parent, row.type),
         head' = [head EXCEPT ![h] = row]
  PROVE  head' \in [Heads -> HeadRow \cup {Unborn}] /\ HeadsStay /\ TypesAgree'
<1>1. head \in [Heads -> HeadRow \cup {Unborn}] /\ row # Unborn
  BY Born DEF MastersInv, TypeOK
<1>2. /\ head' \in [Heads -> HeadRow \cup {Unborn}] /\ head'[h] = row
      /\ \A g \in Heads : g # h => head'[g] = head[g]
  BY <1>1
<1>3. HeadsStay
  BY <1>1, <1>2 DEF HeadsStay
<1>4. ASSUME NEW g \in Heads, head'[g] # Unborn, head'[g].parent # Null
      PROVE  Compatible(head[g].parent, head[g].type)'
  <2>1. PICK new : new = head'[g]
    OBVIOUS
  <2>2. new \in HeadRow
    BY <1>2, <1>4, <2>1
  <2>3. new.parent \in Heads
    BY <1>4, <2>1, <2>2 DEF HeadRow
  <2>4. Compatible(new.parent, new.type)
    <3>1. CASE g = h
      BY <1>2, <1>4, <2>1, <3>1
    <3>2. CASE g # h
      BY <1>2, <1>4, <2>1, <3>2 DEF MastersInv, TypesAgree
    <3> QED
      BY <3>1, <3>2
  <2> QED
    BY <1>3, <2>1, <2>3, <2>4 DEF Compatible, HeadsStay
<1> QED
  BY <1>2, <1>3, <1>4 DEF TypesAgree

\* The heads stand.
LEMMA HeadsStand ==
  ASSUME MastersInv, head' = head
  PROVE  head' \in [Heads -> HeadRow \cup {Unborn}] /\ HeadsStay /\ TypesAgree'
  BY DEF MastersInv, TypeOK, HeadsStay, TypesAgree, Compatible

\* A bank account posts through a head.
LEMMA BankHeads ==
  ASSUME MastersInv, NEW b \in Banks, bank[b] # Unborn
  PROVE  bank[b] \in BankRow /\ bank[b].head \in Heads /\ head[bank[b].head] # Unborn
<1>1. bank[b] \in BankRow
  BY DEF MastersInv, TypeOK
<1>2. head[bank[b].head] # Unborn
  BY DEF MastersInv, BanksApart
<1> QED
  BY <1>1, <1>2 DEF BankRow

\* One bank account is inserted or updated.
LEMMA BankWritten ==
  ASSUME MastersInv, HeadsStay, NEW b \in Banks, NEW row \in BankRow,
         head[row.head] # Unborn, head[row.head].type = "asset",
         \A c \in Banks : c # b /\ bank[c] # Unborn => bank[c].head # row.head,
         bank' = [bank EXCEPT ![b] = row]
  PROVE  /\ bank' \in [Banks -> BankRow \cup {Unborn}] /\ BanksApart'
         /\ \A c \in Banks : bank[c] # Unborn => bank'[c] # Unborn
<1>1. bank \in [Banks -> BankRow \cup {Unborn}] /\ row # Unborn /\ row.head \in Heads
  BY Born DEF MastersInv, TypeOK, BankRow
<1>2. /\ bank' \in [Banks -> BankRow \cup {Unborn}] /\ bank'[b] = row
      /\ \A c \in Banks : c # b => bank'[c] = bank[c]
  BY <1>1
<1>3. ASSUME NEW c \in Banks, bank'[c] # Unborn
      PROVE  head'[bank'[c].head] # Unborn /\ head'[bank'[c].head].type = "asset"
  <2>1. CASE c = b
    BY <1>1, <1>2, <2>1 DEF HeadsStay
  <2>2. CASE c # b
    <3>1. bank[c] # Unborn /\ bank'[c] = bank[c]
      BY <1>2, <1>3, <2>2
    <3>2. bank[c].head \in Heads /\ head[bank[c].head] # Unborn /\ head[bank[c].head].type = "asset"
      BY <3>1, BankHeads DEF MastersInv, BanksApart
    <3> QED
      BY <3>1, <3>2 DEF HeadsStay
  <2> QED
    BY <2>1, <2>2
<1>4. ASSUME NEW c \in Banks, NEW e \in Banks, bank'[c] # Unborn, bank'[e] # Unborn,
             bank'[c].head = bank'[e].head
      PROVE  c = e
  <2>1. CASE c # b /\ e # b
    BY <1>2, <1>4, <2>1 DEF MastersInv, BanksApart
  <2>2. CASE c = b \/ e = b
    BY <1>2, <1>4, <2>2
  <2> QED
    BY <2>1, <2>2
<1>5. BanksApart'
  BY <1>3, <1>4 DEF BanksApart
<1> QED
  BY <1>1, <1>2, <1>5

\* The bank accounts stand.
LEMMA BanksStand ==
  ASSUME MastersInv, HeadsStay, bank' = bank
  PROVE  /\ bank' \in [Banks -> BankRow \cup {Unborn}] /\ BanksApart'
         /\ \A c \in Banks : bank[c] # Unborn => bank'[c] # Unborn
<1>1. ASSUME NEW c \in Banks, bank[c] # Unborn
      PROVE  head'[bank[c].head] # Unborn /\ head'[bank[c].head].type = "asset"
  <2>1. bank[c].head \in Heads /\ head[bank[c].head] # Unborn /\ head[bank[c].head].type = "asset"
    BY <1>1, BankHeads DEF MastersInv, BanksApart
  <2> QED
    BY <2>1 DEF HeadsStay
<1>2. BanksApart'
  BY <1>1 DEF MastersInv, BanksApart
<1> QED
  BY <1>2 DEF MastersInv, TypeOK

LEMMA HeadWrites ==
  ASSUME MastersInv, NEW r \in Requests, HeadCreate(r) \/ HeadWrite(r)
  PROVE  MastersInv'
<1>0. request \in [Requests -> Memory] /\ request[r] \in Memory /\ Knows(request[r])
  BY DEF MastersInv
<1>1. PICK m : m = request[r]
  OBVIOUS
<1>2. ASSUME NEW h \in Heads, NEW row \in HeadRow,
             head[h] # Unborn => row.type = head[h].type,
             row.parent # Null => Compatible(row.parent, row.type),
             head' = [head EXCEPT ![h] = row], Finish(r),
             UNCHANGED <<bank, dimensions, voucher, asset, settings>>
      PROVE  MastersInv'
  <2>1. head' \in [Heads -> HeadRow \cup {Unborn}] /\ HeadsStay /\ TypesAgree'
    BY <1>2, HeadWritten
  <2>2. TypeOK' /\ BanksApart' /\ RowsStay
    BY <1>2, <2>1, BanksStand DEF dimensions, settings, MastersInv, TypeOK, RowsStay
  <2> QED
    BY <1>2, <2>1, <2>2, Ends DEF MastersInv
<1>3. CASE HeadCreate(r)
  <2>1. m.op = "createHead" /\ m \in Creating("createHead", {"write"}, NewHead)
    BY <1>0, <1>1, <1>3, MemoryOf DEF HeadCreate, At
  <2>2. PICK h \in Heads : head[h] = Unborn /\ head' = [head EXCEPT ![h] = New(m.body)]
    BY <1>1, <1>3 DEF HeadCreate
  <2>3. PICK row : row = New(m.body)
    OBVIOUS
  <2>4. /\ row \in HeadRow
        /\ row.type = m.body.type /\ row.parent = m.body.parent
    BY <2>1, <2>3, NewRows DEF Creating
  <2>5. row.parent # Null => Compatible(row.parent, row.type)
    BY <1>0, <1>1, <2>1, <2>4 DEF Knows
  <2> QED
    BY <1>2, <1>3, <2>2, <2>3, <2>4, <2>5 DEF HeadCreate
<1>4. CASE HeadWrite(r)
  <2>1. m.op = "head" /\ m.pc = "write" /\ m \in HeadMemory
    BY <1>0, <1>1, <1>4, MemoryOf DEF HeadWrite, At
  <2>2. m.id \in Heads /\ m.body \in HeadPatch
    BY <2>1 DEF HeadMemory
  <2>3. head[m.id] # Unborn
        /\ (m.body.parent \notin {Keep, Null} => Compatible(m.body.parent, head[m.id].type))
    BY <1>0, <1>1, <2>1 DEF Knows
  <2>4. head[m.id] \in HeadRow
    BY <2>2, <2>3 DEF MastersInv, TypeOK
  <2>5. PICK row : row = Patched(head[m.id], m.body)
    OBVIOUS
  <2>6. /\ row \in HeadRow /\ row.type = head[m.id].type
        /\ row.parent = IF m.body.parent # Keep THEN m.body.parent ELSE head[m.id].parent
    BY <2>2, <2>4, <2>5, PatchedHead
  <2>7. row.parent # Null => Compatible(row.parent, row.type)
    BY <2>2, <2>3, <2>6 DEF MastersInv, TypesAgree
  <2>8. head' = [head EXCEPT ![m.id] = row]
    BY <1>1, <1>4, <2>5 DEF HeadWrite
  <2> QED
    BY <1>2, <1>4, <2>2, <2>6, <2>7, <2>8 DEF HeadWrite
<1> QED
  BY <1>3, <1>4

LEMMA BankWrites ==
  ASSUME MastersInv, NEW r \in Requests, BankCreate(r) \/ BankOpening(r) \/ BankWrite(r)
  PROVE  MastersInv'
<1>0. /\ request \in [Requests -> Memory] /\ request[r] \in Memory /\ Knows(request[r])
      /\ head \in [Heads -> HeadRow \cup {Unborn}]
  BY DEF MastersInv, TypeOK
<1>1. PICK m : m = request[r]
  OBVIOUS
<1>2. ASSUME NEW h \in Heads, head[h] # Unborn, NEW opening \in Amounts
      PROVE  LET row == [head[h] EXCEPT !.opening = opening]
             IN /\ row \in HeadRow /\ row.type = head[h].type
                /\ row.parent # Null => Compatible(row.parent, row.type)
  <2>1. PICK old : old = head[h]
    OBVIOUS
  <2>2. old \in HeadRow
    BY <1>0, <1>2, <2>1
  <2>3. PICK row : row = [old EXCEPT !.opening = opening]
    OBVIOUS
  <2>4. row \in HeadRow /\ row.type = old.type /\ row.parent = old.parent
    BY <2>2, <2>3 DEF HeadRow
  <2> QED
    BY <1>2, <2>1, <2>3, <2>4 DEF MastersInv, TypesAgree
<1>3. CASE BankCreate(r)
  <2>1. m.op = "createBank" /\ m \in Creating("createBank", {"free", "count", "write"}, NewBank)
    BY <1>0, <1>1, <1>3, MemoryOf DEF BankCreate, At
  <2>2. /\ m.body \in NewBank /\ m.body.head \in Heads /\ m.body.opening \in Amounts
        /\ head[m.body.head] # Unborn /\ head[m.body.head].type = "asset"
    BY <1>0, <1>1, <2>1 DEF Creating, NewBank, Knows
  <2>3. PICK b \in Banks : bank[b] = Unborn /\ FreeHead(m.body.head)
                           /\ bank' = [bank EXCEPT ![b] = New(m.body)]
    BY <1>1, <1>3 DEF BankCreate
  <2>4. head' = IF m.body.opening = 0 THEN head
                ELSE [head EXCEPT ![m.body.head].opening = m.body.opening]
    BY <1>1, <1>3 DEF BankCreate
  <2>5. head' \in [Heads -> HeadRow \cup {Unborn}] /\ HeadsStay /\ TypesAgree'
    <3>1. CASE m.body.opening = 0
      BY <2>4, <3>1, HeadsStand
    <3>2. CASE m.body.opening # 0
      <4>1. PICK row : row = [head[m.body.head] EXCEPT !.opening = m.body.opening]
        OBVIOUS
      <4>2. head' = [head EXCEPT ![m.body.head] = row]
        BY <2>4, <3>2, <4>1
      <4>3. /\ row \in HeadRow /\ row.type = head[m.body.head].type
            /\ row.parent # Null => Compatible(row.parent, row.type)
        BY <1>2, <2>2, <4>1
      <4> QED
        BY <2>2, <4>2, <4>3, HeadWritten
    <3> QED
      BY <3>1, <3>2
  <2>6. PICK row : row = New(m.body)
    OBVIOUS
  <2>7. row \in BankRow /\ row.head = m.body.head
    BY <2>2, <2>6, NewRows
  <2>8. \A c \in Banks : c # b /\ bank[c] # Unborn => bank[c].head # row.head
    BY <2>3, <2>7 DEF FreeHead
  <2>9. /\ bank' \in [Banks -> BankRow \cup {Unborn}] /\ BanksApart'
        /\ \A c \in Banks : bank[c] # Unborn => bank'[c] # Unborn
    <3>1. bank' = [bank EXCEPT ![b] = row]
      BY <2>3, <2>6
    <3>2. head[row.head] # Unborn /\ head[row.head].type = "asset"
      BY <2>2, <2>7
    <3> QED
      BY <2>5, <2>7, <2>8, <3>1, <3>2, BankWritten
  <2>10. TypeOK' /\ RowsStay
    BY <1>3, <2>5, <2>9 DEF BankCreate, dimensions, settings, MastersInv, TypeOK, RowsStay
  <2> QED
    BY <1>3, <2>5, <2>9, <2>10, Ends DEF BankCreate, MastersInv
<1>4. CASE BankOpening(r)
  <2>1. /\ m.op = "bank" /\ m.pc = "opening"
        /\ m \in Updating("bank", {"count", "opening", "write"}, Banks, BankPatch)
    BY <1>0, <1>1, <1>4, MemoryOf DEF BankOpening, At
  <2>2. /\ m.id \in Banks /\ m.body.opening \in Kept(Amounts)
        /\ bank[m.id] # Unborn /\ m.body.opening # Keep
    BY <1>0, <1>1, <2>1 DEF Updating, BankPatch, Knows
  <2>3. PICK h \in Heads : h = bank[m.id].head /\ head[h] # Unborn
    BY <2>2, BankHeads
  <2>4. PICK row : row = [head[h] EXCEPT !.opening = m.body.opening]
    OBVIOUS
  <2>5. /\ row \in HeadRow /\ row.type = head[h].type
        /\ row.parent # Null => Compatible(row.parent, row.type)
    BY <1>2, <2>2, <2>3, <2>4 DEF Kept
  <2>6. head' = [head EXCEPT ![h] = row]
    BY <1>1, <1>4, <2>3, <2>4 DEF BankOpening
  <2>7. head' \in [Heads -> HeadRow \cup {Unborn}] /\ HeadsStay /\ TypesAgree'
    BY <2>5, <2>6, HeadWritten
  <2>8. TypeOK' /\ BanksApart' /\ RowsStay
    BY <1>4, <2>7, BanksStand
       DEF BankOpening, dimensions, settings, MastersInv, TypeOK, RowsStay
  <2>9. PICK n : n = [m EXCEPT !.pc = "write"]
    OBVIOUS
  <2>10. /\ n \in Updating("bank", {"count", "opening", "write"}, Banks, BankPatch)
         /\ n.op = "bank" /\ n.pc = "write" /\ n.id = m.id
    BY <2>1, <2>9, GoesOn
  <2>11. n \in Memory /\ Knows(n)
    BY <2>2, <2>10, MemoryParts DEF Knows
  <2>12. Knows(n)'
    BY <2>8, <2>11, KnowsStays
  <2>13. request' = [request EXCEPT ![r] = n]
    BY <1>0, <1>1, <1>4, <2>9, Forms DEF BankOpening
  <2> QED
    BY <2>7, <2>8, <2>11, <2>12, <2>13, MemoriesKnow DEF MastersInv
<1>5. CASE BankWrite(r)
  <2>1. m.op = "bank" /\ m \in Updating("bank", {"count", "opening", "write"}, Banks, BankPatch)
    BY <1>0, <1>1, <1>5, MemoryOf DEF BankWrite, At
  <2>2. m.id \in Banks /\ m.body \in BankPatch /\ bank[m.id] # Unborn
    BY <1>0, <1>1, <2>1 DEF Updating, Knows
  <2>3. bank[m.id] \in BankRow
    BY <2>2, BankHeads
  <2>4. PICK row : row = Patched(bank[m.id], m.body)
    OBVIOUS
  <2>5. row \in BankRow /\ row.head = bank[m.id].head
    BY <2>2, <2>3, <2>4, PatchedBank
  <2>6. head[row.head] # Unborn /\ head[row.head].type = "asset"
        /\ \A c \in Banks : c # m.id /\ bank[c] # Unborn => bank[c].head # row.head
    BY <2>2, <2>5 DEF MastersInv, BanksApart
  <2>7. bank' = [bank EXCEPT ![m.id] = row] /\ head' = head
    BY <1>1, <1>5, <2>4 DEF BankWrite
  <2>8. head' \in [Heads -> HeadRow \cup {Unborn}] /\ HeadsStay /\ TypesAgree'
    BY <2>7, HeadsStand
  <2>9. /\ bank' \in [Banks -> BankRow \cup {Unborn}] /\ BanksApart'
        /\ \A c \in Banks : bank[c] # Unborn => bank'[c] # Unborn
    BY <2>2, <2>5, <2>6, <2>7, <2>8, BankWritten
  <2>10. TypeOK' /\ RowsStay
    BY <1>5, <2>8, <2>9 DEF BankWrite, dimensions, settings, MastersInv, TypeOK, RowsStay
  <2> QED
    BY <1>5, <2>8, <2>9, <2>10, Ends DEF BankWrite, MastersInv
<1> QED
  BY <1>3, <1>4, <1>5

\* A step that leaves heads and bank accounts alone.
LEMMA ChartStands ==
  ASSUME MastersInv, UNCHANGED chart
  PROVE  /\ head' \in [Heads -> HeadRow \cup {Unborn}] /\ bank' \in [Banks -> BankRow \cup {Unborn}]
         /\ TypesAgree' /\ BanksApart' /\ HeadsStay
         /\ \A b \in Banks : bank[b] # Unborn => bank'[b] # Unborn
  BY HeadsStand, BanksStand DEF chart

LEMMA FundWrites ==
  ASSUME MastersInv, FundCreate \/ \E r \in Requests : FundWrite(r)
  PROVE  MastersInv'
<1>1. ASSUME NEW f \in Funds, NEW row \in FundRow, fund' = [fund EXCEPT ![f] = row],
             UNCHANGED <<chart, project, activity, voucher, asset, settings>>
      PROVE  TypeOK' /\ TypesAgree' /\ BanksApart' /\ RowsStay
  <2>1. /\ fund' \in [Funds -> FundRow \cup {Unborn}]
        /\ \A g \in Funds : fund[g] # Unborn => fund'[g] # Unborn
    BY <1>1, Born DEF MastersInv, TypeOK
  <2> QED
    BY <1>1, <2>1, ChartStands DEF chart, settings, MastersInv, TypeOK, RowsStay
<1>2. CASE FundCreate
  <2>1. PICK f \in Funds, body \in Offers.newFund : fund' = [fund EXCEPT ![f] = New(body)]
    BY <1>2 DEF FundCreate
  <2>2. New(body) \in FundRow
    BY OffersAssumption, NewRows
  <2>3. PICK row : row = New(body)
    OBVIOUS
  <2>4. TypeOK' /\ TypesAgree' /\ BanksApart' /\ RowsStay
    BY <1>1, <1>2, <2>1, <2>2, <2>3 DEF FundCreate
  <2> QED
    BY <1>2, <2>4, NobodyMoves DEF FundCreate, MastersInv
<1>3. ASSUME NEW r \in Requests, FundWrite(r) PROVE MastersInv'
  <2>1. PICK m : m = request[r]
    OBVIOUS
  <2>2. m \in Memory /\ Knows(m) /\ m.op = "fund"
    BY <1>3, <2>1 DEF FundWrite, At, MastersInv
  <2>3. m.id \in Funds /\ m.body \in FundPatch /\ fund[m.id] # Unborn
    BY <2>2, MemoryOf DEF Updating, Knows
  <2>4. PICK row : row = Patched(fund[m.id], m.body)
    OBVIOUS
  <2>5. row \in FundRow
    BY <2>3, <2>4, PatchedFund DEF MastersInv, TypeOK
  <2>6. fund' = [fund EXCEPT ![m.id] = row]
    BY <1>3, <2>1, <2>4 DEF FundWrite
  <2>7. TypeOK' /\ TypesAgree' /\ BanksApart' /\ RowsStay
    BY <1>1, <1>3, <2>3, <2>5, <2>6 DEF FundWrite
  <2> QED
    BY <1>3, <2>7, Ends DEF FundWrite, MastersInv
<1> QED
  BY <1>2, <1>3

LEMMA ProjectWrites ==
  ASSUME MastersInv, NEW r \in Requests, ProjectCreate(r) \/ ProjectWrite(r)
  PROVE  MastersInv'
<1>1. PICK m : m = request[r]
  OBVIOUS
<1>2. m \in Memory /\ Knows(m)
  BY <1>1 DEF MastersInv
<1>3. PICK p \in Projects, row \in ProjectRow : project' = [project EXCEPT ![p] = row]
  <2>1. CASE ProjectCreate(r)
    <3>1. m.op = "createProject" /\ m.body \in NewProject
      BY <1>1, <1>2, <2>1, MemoryOf DEF ProjectCreate, At, Creating
    <3>2. New(m.body) \in ProjectRow
      BY <3>1, NewRows
    <3> QED
      BY <1>1, <2>1, <3>2 DEF ProjectCreate
  <2>2. CASE ProjectWrite(r)
    <3>1. m.op = "project"
      BY <1>1, <2>2 DEF ProjectWrite, At
    <3>2. m.id \in Projects /\ m.body \in ProjectPatch /\ project[m.id] # Unborn
      BY <1>2, <3>1, MemoryOf DEF Updating, Knows
    <3>3. project[m.id] \in ProjectRow
      BY <3>2 DEF MastersInv, TypeOK
    <3>4. Patched(project[m.id], WithActivity(m.body)) \in ProjectRow
      BY <3>2, <3>3, PatchedProject
    <3> QED
      BY <1>1, <2>2, <3>2, <3>4 DEF ProjectWrite
  <2> QED
    BY <2>1, <2>2
<1>4. UNCHANGED <<chart, fund, activity, voucher, asset, settings>> /\ Finish(r)
  BY DEF ProjectCreate, ProjectWrite
<1>5. /\ project' \in [Projects -> ProjectRow \cup {Unborn}]
      /\ \A q \in Projects : project[q] # Unborn => project'[q] # Unborn
  BY <1>3, Born DEF MastersInv, TypeOK
<1>6. TypeOK' /\ TypesAgree' /\ BanksApart' /\ RowsStay
  BY <1>4, <1>5, ChartStands DEF chart, settings, MastersInv, TypeOK, RowsStay
<1> QED
  BY <1>4, <1>6, Ends DEF MastersInv

LEMMA ActivityWrites ==
  ASSUME MastersInv, NEW r \in Requests, ActivityWrite(r)
  PROVE  MastersInv'
<1>1. PICK m : m = request[r]
  OBVIOUS
<1>2. m \in Memory /\ Knows(m) /\ m.op \in {"createActivity", "activity"}
  BY <1>1 DEF MastersInv, ActivityWrite, Activity
<1>3. PICK a \in Activities, row \in ActivityRow : activity' = [activity EXCEPT ![a] = row]
  <2>1. CASE m.op = "createActivity"
    <3>1. m.body \in NewActivity
      BY <1>2, <2>1, MemoryOf DEF Updating
    <3>2. New(m.body) \in ActivityRow
      BY <3>1, NewRows
    <3> QED
      BY <1>1, <2>1, <3>2 DEF ActivityWrite
  <2>2. CASE m.op = "activity"
    <3>1. m.id \in Activities /\ m.body \in ActivityBody /\ activity[m.id] # Unborn
      BY <1>2, <2>2, MemoryOf DEF Updating, Knows
    <3>2. m.body \in ActivityPatch
      BY <3>1 DEF ActivityBody, ActivityPatch, Kept
    <3>3. Patched(activity[m.id], m.body) \in ActivityRow
      BY <3>1, <3>2, PatchedActivity DEF MastersInv, TypeOK
    <3> QED
      BY <1>1, <2>2, <3>1, <3>3 DEF ActivityWrite
  <2> QED
    BY <1>2, <2>1, <2>2
<1>4. UNCHANGED <<chart, fund, project, voucher, asset, settings>> /\ Finish(r)
  BY DEF ActivityWrite
<1>5. /\ activity' \in [Activities -> ActivityRow \cup {Unborn}]
      /\ \A c \in Activities : activity[c] # Unborn => activity'[c] # Unborn
  BY <1>3, Born DEF MastersInv, TypeOK
<1>6. TypeOK' /\ TypesAgree' /\ BanksApart' /\ RowsStay
  BY <1>4, <1>5, ChartStands DEF chart, settings, MastersInv, TypeOK, RowsStay
<1> QED
  BY <1>4, <1>6, Ends DEF MastersInv

LEMMA AssetWrites ==
  ASSUME MastersInv, NEW r \in Requests, AssetCreate(r) \/ AssetWrite(r) \/ DisposeWrite(r)
  PROVE  MastersInv'
<1>1. PICK m : m = request[r]
  OBVIOUS
<1>2. m \in Memory /\ Knows(m)
  BY <1>1 DEF MastersInv
<1>3. PICK a \in Assets, row \in AssetRow : Keeps(r, a, row)
  <2>1. CASE AssetCreate(r)
    <3>1. m.op = "createAsset"
      BY <1>1, <2>1 DEF AssetCreate, At
    <3>2. m.body \in NewAsset
      BY <1>2, <3>1, MemoryOf DEF Creating
    <3>3. PICK row : row = [f \in DOMAIN m.body \cup {"disposedOn"} |->
                              IF f = "disposedOn" THEN Null ELSE m.body[f]]
      OBVIOUS
    <3>4. DOMAIN m.body = {"fund", "status", "acquiredOn"}
      BY <3>2 DEF NewAsset
    <3>5. row \in AssetRow
      BY <3>2, <3>3, <3>4 DEF NewAsset, AssetRow
    <3> QED
      BY <1>1, <2>1, <3>3, <3>5 DEF AssetCreate
  <2>2. CASE AssetWrite(r)
    <3>1. m.op = "asset"
      BY <1>1, <2>2 DEF AssetWrite, At
    <3>2. m.id \in Assets /\ m.body \in AssetPatch /\ asset[m.id] # Unborn
      BY <1>2, <3>1, MemoryOf DEF Updating, Knows
    <3>3. asset[m.id] \in AssetRow
      BY <3>2 DEF MastersInv, TypeOK
    <3>4. Patched(asset[m.id], m.body) \in AssetRow
      BY <3>2, <3>3, PatchedAsset
    <3> QED
      BY <1>1, <2>2, <3>2, <3>4 DEF AssetWrite
  <2>3. CASE DisposeWrite(r)
    <3>1. m.op = "dispose"
      BY <1>1, <2>3 DEF DisposeWrite, At
    <3>2. m.id \in Assets /\ m.day \in Days /\ asset[m.id] # Unborn
      BY <1>2, <3>1, MemoryOf DEF Disposing, Knows
    <3>3. asset[m.id] \in AssetRow
      BY <3>2 DEF MastersInv, TypeOK
    <3>4. [asset[m.id] EXCEPT !.status = "disposed", !.disposedOn = m.day] \in AssetRow
      BY <3>2, <3>3 DEF AssetRow
    <3> QED
      BY <1>1, <2>3, <3>2, <3>4 DEF DisposeWrite
  <2> QED
    BY <2>1, <2>2, <2>3
<1>4. UNCHANGED <<chart, dimensions, voucher, settings>> /\ Finish(r)
  BY <1>3 DEF Keeps
<1>5. /\ asset' \in [Assets -> AssetRow \cup {Unborn}]
      /\ \A c \in Assets : asset[c] # Unborn => asset'[c] # Unborn
  BY <1>3, Born DEF Keeps, MastersInv, TypeOK
<1>6. TypeOK' /\ TypesAgree' /\ BanksApart' /\ RowsStay
  BY <1>4, <1>5, ChartStands DEF dimensions, settings, MastersInv, TypeOK, RowsStay
<1> QED
  BY <1>4, <1>6, Ends DEF MastersInv

\* A step that changes the settings alone.
LEMMA SettingsMove ==
  ASSUME MastersInv, UNCHANGED <<chart, dimensions, voucher, asset>>,
         setting' \in SettingRow, cache' \in SettingRow \cup {Null}
  PROVE  TypeOK' /\ TypesAgree' /\ BanksApart' /\ RowsStay
  BY ChartStands DEF dimensions, MastersInv, TypeOK, RowsStay

LEMMA SettingWrites ==
  ASSUME MastersInv,
         \/ \E r \in Requests : LookupKeep(r) \/ SettingWrite(r) \/ SettingClear(r)
         \/ CacheExpires
  PROVE  MastersInv'
<1>0. setting \in SettingRow /\ cache \in SettingRow \cup {Null}
  BY DEF MastersInv, TypeOK
<1>1. ASSUME NEW r \in Requests, LookupKeep(r) PROVE MastersInv'
  <2>1. PICK m : m = request[r]
    OBVIOUS
  <2>2. m \in Memory /\ m.op = "lookup"
    BY <1>1, <2>1 DEF LookupKeep, At, MastersInv
  <2>3. cache' \in SettingRow
    BY <1>1, <2>1, <2>2, MemoryOf DEF LookupKeep, LookingUp
  <2>4. TypeOK' /\ TypesAgree' /\ BanksApart' /\ RowsStay
    BY <1>0, <1>1, <2>3, SettingsMove DEF LookupKeep
  <2> QED
    BY <1>1, <2>4, Ends DEF LookupKeep, MastersInv
<1>2. ASSUME NEW r \in Requests, SettingWrite(r) PROVE MastersInv'
  <2>1. PICK m : m = request[r]
    OBVIOUS
  <2>2. m \in Memory /\ m.op = "setting" /\ m.pc = "write"
    BY <1>2, <2>1 DEF SettingWrite, At, MastersInv
  <2>3. m \in Merging
    BY <2>2, MemoryOf DEF Creating
  <2>4. m.before \in SettingRow /\ m.body \in SettingPatch
    BY <2>3 DEF Merging
  <2>5. setting' \in SettingRow
    BY <1>2, <2>1, <2>4, PatchedSetting DEF SettingWrite
  <2>6. TypeOK' /\ TypesAgree' /\ BanksApart' /\ RowsStay
    BY <1>0, <1>2, <2>5, SettingsMove DEF SettingWrite
  <2>7. PICK n : n = [m EXCEPT !.pc = "clear"]
    OBVIOUS
  <2>8. n \in Merging /\ n.op = "setting"
    BY <2>3, <2>7 DEF Merging
  <2>9. n \in Memory /\ Knows(n)'
    BY <2>8, MemoryParts DEF Knows
  <2>10. request' = [request EXCEPT ![r] = n]
    BY <1>2, <2>1, <2>7, Forms DEF SettingWrite, MastersInv
  <2> QED
    BY <2>6, <2>9, <2>10, MemoriesKnow DEF MastersInv
<1>3. ASSUME NEW r \in Requests, SettingClear(r) PROVE MastersInv'
  <2>1. TypeOK' /\ TypesAgree' /\ BanksApart' /\ RowsStay
    BY <1>0, <1>3, SettingsMove DEF SettingClear
  <2> QED
    BY <1>3, <2>1, Ends DEF SettingClear, MastersInv
<1>4. CASE CacheExpires
  <2>1. TypeOK' /\ TypesAgree' /\ BanksApart' /\ RowsStay
    BY <1>0, <1>4, SettingsMove DEF CacheExpires
  <2> QED
    BY <1>4, <2>1, NobodyMoves DEF CacheExpires, MastersInv
<1> QED
  BY <1>1, <1>2, <1>3, <1>4

\* A handler stops.
LEMMA Aborts ==
  ASSUME MastersInv, NEW r \in Requests, Abort(r)
  PROVE  MastersInv'
<1>1. TypeOK' /\ TypesAgree' /\ BanksApart' /\ RowsStay
  BY TablesStand DEF Abort
<1> QED
  BY <1>1, Ends DEF Abort, MastersInv

\* Vouchers move on.
LEMMA VouchersMove ==
  ASSUME MastersInv, CodingNext
  PROVE  MastersInv'
<1>1. UNCHANGED <<chart, dimensions, asset, settings, request>>
  BY DEF CodingNext, Raise, Approve, Post
<1>2. TypeOK' /\ TypesAgree' /\ BanksApart' /\ RowsStay
  BY <1>1, ChartStands DEF dimensions, settings, MastersInv, TypeOK, RowsStay
<1> QED
  BY <1>1, <1>2, NobodyMoves DEF MastersInv

-----------------------------------------------------------------------------
(* The tables keep their shape *)

LEMMA MastersStart ==
  ASSUME Init
  PROVE  MastersInv
<1>1. request \in [Requests -> Memory]
  BY MemoryParts DEF Init
<1>2. TypesAgree
  BY SeedTreeAssumption DEF Init, TypesAgree, Compatible
<1>3. BanksApart
  BY DEF Init, BanksApart
<1>4. \A r \in Requests : Knows(request[r])
  BY DEF Init, Knows, Idle
<1>5. TypeOK
  BY SeedAssumption DEF Init, TypeOK, SettingRow
<1> QED
  BY <1>1, <1>2, <1>3, <1>4, <1>5 DEF MastersInv

LEMMA MastersStep ==
  ASSUME MastersInv, [Next]_vars
  PROVE  MastersInv'
<1>1. CASE UNCHANGED vars
  <2>1. TypeOK' /\ TypesAgree' /\ BanksApart' /\ RowsStay
    BY <1>1, TablesStand DEF vars
  <2> QED
    BY <1>1, <2>1, NobodyMoves DEF vars, MastersInv
<1>2. ASSUME NEW r \in Requests,
             \/ HeadStep(r) \/ BankStep(r) \/ FundStep(r) \/ ProjectStep(r) \/ ActivityStep(r)
             \/ AssetStep(r) \/ SettingStep(r) \/ Abort(r)
      PROVE  MastersInv'
  <2>1. CASE HeadStep(r)
    BY <2>1, HeadReads, ReadsKept, HeadWrites DEF HeadStep
  <2>2. CASE BankStep(r)
    BY <2>2, BankReads, ReadsKept, BankWrites DEF BankStep
  <2>3. CASE FundStep(r)
    BY <2>3, FundReads, ReadsKept, FundWrites DEF FundStep
  <2>4. CASE ProjectStep(r)
    BY <2>4, ProjectReads, ReadsKept, ProjectWrites DEF ProjectStep
  <2>5. CASE ActivityStep(r)
    BY <2>5, ActivityReads, ReadsKept, ActivityWrites DEF ActivityStep
  <2>6. CASE AssetStep(r)
    BY <2>6, AssetReads, ReadsKept, AssetWrites DEF AssetStep
  <2>7. CASE SettingStep(r)
    BY <2>7, SettingReads, ReadsKept, SettingWrites DEF SettingStep
  <2> QED
    BY <1>2, <2>1, <2>2, <2>3, <2>4, <2>5, <2>6, <2>7, Aborts
<1>3. CASE FundCreate \/ CacheExpires \/ CodingNext
  BY <1>3, FundWrites, SettingWrites, VouchersMove
<1> QED
  BY <1>1, <1>2, <1>3 DEF Next

\* However updates of the masters overlap, the tables keep their shape, a child is of its
\* parent's type and each bank account has an asset head of its own.  (AccountsService and
\* BankAccountsService.)
THEOREM TypedHolds == Spec => []ChartIsTyped
<1>1. MastersInv => ChartIsTyped
  BY DEF MastersInv, TypesAgree, BanksApart, Compatible, ChartIsTyped
<1> QED
  BY <1>1, MastersStart, MastersStep, PTL DEF Spec

-----------------------------------------------------------------------------
(* One handler at a time *)

\* As long as handlers follow one another what a handler checked still holds, and the copy
\* is what is stored, unless the update that is about to drop it is in flight.
SerialInv ==
  ~overlapped =>
    /\ ~TwoBusy
    /\ \A r \in Requests : Checked(request[r])
    /\ (\A r \in Requests : ~At(r, "setting", "clear")) => cache \in {Null, setting}

\* What was checked of tables nobody changes.
LEMMA CheckedStands ==
  ASSUME tables' = tables, NEW m, Checked(m)
  PROVE  Checked(m)'
<1>1. /\ head' = head /\ bank' = bank /\ fund' = fund /\ project' = project
      /\ activity' = activity /\ voucher' = voucher /\ asset' = asset
      /\ setting' = setting /\ cache' = cache
  BY DEF tables, chart, dimensions, settings
<1>2. Entries' = Entries /\ \A e : Line(e)' = Line(e)
  BY <1>1 DEF Entries, Line
<1>3. /\ \A h : EntriesOn(h)' = EntriesOn(h)
      /\ \A f : EntriesIn(f)' = EntriesIn(f)
      /\ \A p : EntriesOf(p)' = EntriesOf(p)
  BY <1>2 DEF EntriesOn, EntriesIn, EntriesOf
<1>4. /\ \A h : ActiveChildren(h)' = ActiveChildren(h)
      /\ \A f : OpenProjects(f)' = OpenProjects(f)
      /\ \A h : IsMoneyHead(h)' <=> IsMoneyHead(h)
  BY <1>1 DEF ActiveChildren, OpenProjects, IsMoneyHead, Accounting
<1>5. /\ m.op = "head" => CheckedHead(m)' /\ Walked(m)'
      /\ m.op = "fund" => CheckedFund(m)'
      /\ m.op = "project" => CheckedProject(m)'
      /\ m.op = "setting" => CheckedSetting(m)'
  BY <1>1, <1>3, <1>4
     DEF Checked, CheckedHead, Walked, Chain, Deep, Clear, CheckedFund, CheckedProject,
         CheckedSetting, TakesProjects
<1> QED
  BY <1>1, <1>3, <1>5 DEF Checked, TakesProjects, CarriedIn, HeldAsset, Disposed

\* A handler moves and nobody else is in flight.
LEMMA SerialMoves ==
  ASSUME request \in [Requests -> Memory], SerialInv, ~overlapped, ~TwoBusy',
         NEW r \in Requests, NEW n, request' = [request EXCEPT ![r] = n],
         request[r] # Idle \/ n # Idle, Checked(n)',
         (cache \in {Null, setting} \/ At(r, "setting", "clear")) =>
           (cache' \in {Null, setting'} \/ (n.op = "setting" /\ n.pc = "clear"))
  PROVE  SerialInv'
<1>1. request'[r] = n /\ \A s \in Requests : s # r => request'[s] = request[s]
  OBVIOUS
<1>2. ASSUME NEW s \in Requests, s # r PROVE request[s] = Idle /\ request'[s] = Idle
  BY <1>1, <1>2 DEF SerialInv, TwoBusy
<1>3. ASSUME NEW s \in Requests PROVE Checked(request[s])'
  <2>1. PICK k : k = request'[s]
    OBVIOUS
  <2>2. CASE s = r
    BY <1>1, <2>1, <2>2
  <2>3. CASE s # r
    <3>1. k = Idle
      BY <1>2, <2>1, <2>3
    <3>2. Checked(k)'
      BY <3>1 DEF Checked, Idle
    <3> QED
      BY <2>1, <3>2
  <2> QED
    BY <2>2, <2>3
<1>4. cache \in {Null, setting} \/ At(r, "setting", "clear")
  BY <1>2 DEF SerialInv, At, Idle
<1>5. (\A s \in Requests : ~At(s, "setting", "clear"))' => cache' \in {Null, setting'}
  BY <1>1, <1>4 DEF At
<1> QED
  BY <1>3, <1>5 DEF SerialInv

LEMMA SerialReads ==
  ASSUME request \in [Requests -> Memory], SerialInv, ~overlapped, ~TwoBusy',
         NEW r \in Requests, GoesOnChecked(r), ~At(r, "setting", "clear")
  PROVE  SerialInv'
<1>1. PICK n \in Memory : /\ request' = [request EXCEPT ![r] = n] /\ n.op # "idle"
                          /\ Checked(request[r]) => Checked(n)
  BY DEF GoesOnChecked
<1>2. n # Idle /\ tables' = tables /\ setting' = setting /\ cache' = cache
  BY <1>1 DEF Idle, GoesOnChecked, tables, settings
<1>3. Checked(n)
  BY <1>1 DEF SerialInv
<1>4. Checked(n)'
  BY <1>2, <1>3, CheckedStands
<1> QED
  BY <1>1, <1>2, <1>4, SerialMoves

LEMMA SerialEnds ==
  ASSUME request \in [Requests -> Memory], SerialInv, ~overlapped, ~TwoBusy',
         NEW r \in Requests, Finish(r), request[r] # Idle,
         (~At(r, "setting", "clear") /\ cache \in {Null, setting}) => cache' \in {Null, setting'},
         At(r, "setting", "clear") => cache' = Null
  PROVE  SerialInv'
<1>1. PICK n : n = Idle /\ request' = [request EXCEPT ![r] = n]
  BY DEF Finish
<1>2. Checked(n)'
  BY <1>1 DEF Checked, Idle
<1> QED
  BY <1>1, <1>2, SerialMoves

\* A step that is no handler's is taken while none is in flight, or changes nothing.
LEMMA SerialRests ==
  ASSUME SerialInv, ~overlapped, request' = request, ~Meanwhile,
         cache \in {Null, setting} => cache' \in {Null, setting'}
  PROVE  SerialInv'
<1>1. CASE tables' = tables
  <2>1. setting' = setting /\ cache' = cache
    BY <1>1 DEF tables, settings
  <2>2. ASSUME NEW s \in Requests PROVE Checked(request[s])'
    <3>1. PICK k : k = request[s] /\ k = request'[s]
      OBVIOUS
    <3>2. Checked(k)'
      BY <1>1, <3>1, CheckedStands DEF SerialInv
    <3> QED
      BY <3>1, <3>2
  <2> QED
    BY <2>1, <2>2 DEF SerialInv, TwoBusy, At
<1>2. CASE tables' # tables
  <2>1. \A s \in Requests : request[s] = Idle
    BY <1>2 DEF Meanwhile, Busy
  <2>2. ASSUME NEW s \in Requests PROVE Checked(request[s])'
    <3>1. PICK k : k = Idle /\ k = request'[s]
      BY <2>1
    <3>2. Checked(k)'
      BY <3>1 DEF Checked, Idle
    <3> QED
      BY <3>1, <3>2
  <2>3. cache \in {Null, setting}
    BY <2>1 DEF SerialInv, At, Idle
  <2> QED
    BY <2>1, <2>2, <2>3 DEF SerialInv, TwoBusy
<1> QED
  BY <1>1, <1>2

LEMMA SerialStart == MCInit => SerialInv
  BY DEF MCInit, Init, SerialInv, TwoBusy, Checked, At, Idle

LEMMA SerialStep ==
  ASSUME MastersInv, SerialInv, [MCNext]_<<vars, overlapped>>
  PROVE  SerialInv'
<1>0. request \in [Requests -> Memory]
  BY DEF MastersInv
<1>1. CASE UNCHANGED <<vars, overlapped>>
  <2>1. CASE overlapped
    BY <1>1, <2>1 DEF SerialInv
  <2>2. CASE ~overlapped
    BY <1>1, <2>2, SerialRests DEF vars, tables, settings, Meanwhile
  <2> QED
    BY <2>1, <2>2
<1>2. CASE overlapped'
  BY <1>2 DEF SerialInv
<1>3. ASSUME MCNext, ~overlapped' PROVE SerialInv'
  <2>0. ~overlapped /\ ~TwoBusy' /\ ~Meanwhile /\ Next
    BY <1>3 DEF MCNext
  <2>1. ASSUME NEW r \in Requests, Finish(r), ~At(r, "setting", "clear"), request[r].op # "idle",
               UNCHANGED settings
        PROVE  SerialInv'
    BY <1>0, <2>0, <2>1, SerialEnds DEF settings, Idle
  <2>2. ASSUME NEW r \in Requests, HeadStep(r) PROVE SerialInv'
    <3>1. ~At(r, "setting", "clear")
      BY <2>2 DEF HeadStep, HeadCreateLoad, HeadCreate, HeadLoad, HeadParent, HeadWalk, HeadOpening,
                  HeadPostable, HeadActive, HeadWrite, Accept, At, Idle
    <3>2. CASE HeadCreate(r) \/ HeadWrite(r)
      BY <2>1, <3>1, <3>2 DEF HeadCreate, HeadWrite, At
    <3> QED
      BY <1>0, <2>0, <2>2, <3>1, <3>2, HeadReads, SerialReads DEF HeadStep
  <2>3. ASSUME NEW r \in Requests, BankStep(r) PROVE SerialInv'
    <3>1. ~At(r, "setting", "clear")
      BY <2>3 DEF BankStep, BankCreateLoad, BankCreateFree, BankCreateCount, BankCreate, BankLoad,
                  BankCount, BankOpening, BankWrite, Accept, At, Idle
    <3>2. CASE BankCreate(r) \/ BankWrite(r)
      BY <2>1, <3>1, <3>2 DEF BankCreate, BankWrite, At
    <3>3. CASE BankOpening(r)
      <4>1. PICK m : m = request[r]
        OBVIOUS
      <4>2. m.op = "bank" /\ m \in Updating("bank", {"count", "opening", "write"}, Banks, BankPatch)
        BY <1>0, <3>3, <4>1, MemoryOf DEF BankOpening, At
      <4>3. PICK n : n = [m EXCEPT !.pc = "write"]
        OBVIOUS
      <4>4. n.op = "bank" /\ n.pc = "write"
        BY <4>2, <4>3, GoesOn
      <4>5. Checked(n)' /\ n # Idle
        BY <4>4 DEF Checked, Idle
      <4>6. request' = [request EXCEPT ![r] = n] /\ UNCHANGED settings
        BY <1>0, <3>3, <4>1, <4>3, Forms DEF BankOpening
      <4> QED
        BY <1>0, <2>0, <3>1, <4>5, <4>6, SerialMoves DEF settings
    <3> QED
      BY <1>0, <2>0, <2>3, <3>1, <3>2, <3>3, BankReads, SerialReads DEF BankStep
  <2>4. ASSUME NEW r \in Requests, FundStep(r) PROVE SerialInv'
    <3>1. ~At(r, "setting", "clear")
      BY <2>4 DEF FundStep, FundLoad, FundOpening, FundActive, FundWrite, Accept, At, Idle
    <3>2. CASE FundWrite(r)
      BY <2>1, <3>1, <3>2 DEF FundWrite, At
    <3> QED
      BY <1>0, <2>0, <2>4, <3>1, <3>2, FundReads, SerialReads DEF FundStep
  <2>5. ASSUME NEW r \in Requests, ProjectStep(r) PROVE SerialInv'
    <3>1. ~At(r, "setting", "clear")
      BY <2>5 DEF ProjectStep, ProjectCreateLoad, ProjectCreate, ProjectLoad, ProjectCount,
                  ProjectFund, ProjectWrite, Accept, At, Idle
    <3>2. CASE ProjectCreate(r) \/ ProjectWrite(r)
      BY <2>1, <3>1, <3>2 DEF ProjectCreate, ProjectWrite, At
    <3> QED
      BY <1>0, <2>0, <2>5, <3>1, <3>2, ProjectReads, SerialReads DEF ProjectStep
  <2>6. ASSUME NEW r \in Requests, ActivityStep(r) PROVE SerialInv'
    <3>1. ~At(r, "setting", "clear")
      BY <2>6 DEF ActivityStep, ActivityLoad, ActivityFund, ActivityProject, ActivityWrite, Activity,
                  Accept, At, Idle
    <3>2. CASE ActivityWrite(r)
      BY <2>1, <3>1, <3>2 DEF ActivityWrite, Activity
    <3> QED
      BY <1>0, <2>0, <2>6, <3>1, <3>2, ActivityReads, SerialReads DEF ActivityStep
  <2>7. ASSUME NEW r \in Requests, AssetStep(r) PROVE SerialInv'
    <3>1. ~At(r, "setting", "clear")
      BY <2>7 DEF AssetStep, AssetCreateLoad, AssetCreate, AssetLoad, AssetFund, AssetWrite,
                  DisposeLoad, DisposeWrite, Accept, At, Idle
    <3>2. CASE AssetCreate(r) \/ AssetWrite(r) \/ DisposeWrite(r)
      BY <2>1, <3>1, <3>2 DEF AssetCreate, AssetWrite, DisposeWrite, Keeps, At
    <3> QED
      BY <1>0, <2>0, <2>7, <3>1, <3>2, AssetReads, SerialReads DEF AssetStep
  <2>8. ASSUME NEW r \in Requests, SettingStep(r) PROVE SerialInv'
    <3>1. CASE LookupKeep(r)
      <4>1. request[r].op = "lookup" /\ cache' = request[r].value /\ setting' = setting /\ Finish(r)
        BY <3>1 DEF LookupKeep, At
      <4>2. cache' = setting
        BY <2>0, <4>1 DEF SerialInv, Checked
      <4> QED
        BY <1>0, <2>0, <4>1, <4>2, SerialEnds DEF At, Idle
    <3>2. CASE SettingWrite(r)
      <4>1. PICK m : m = request[r]
        OBVIOUS
      <4>2. m.op = "setting" /\ m.pc = "write" /\ m \in Merging
        BY <1>0, <3>2, <4>1, MemoryOf DEF SettingWrite, At, Creating
      <4>3. PICK n : n = [m EXCEPT !.pc = "clear"]
        OBVIOUS
      <4>4. n.op = "setting" /\ n.pc = "clear"
        BY <4>2, <4>3 DEF Merging
      <4>5. Checked(n)' /\ n # Idle
        BY <4>4 DEF Checked, CheckedSetting, Idle
      <4>6. request' = [request EXCEPT ![r] = n]
        BY <1>0, <3>2, <4>1, <4>3, Forms DEF SettingWrite
      <4> QED
        BY <1>0, <2>0, <4>4, <4>5, <4>6, SerialMoves
    <3>3. CASE SettingClear(r)
      BY <1>0, <2>0, <3>3, SerialEnds DEF SettingClear, At, Idle
    <3>4. CASE \/ LookupLoad(r) \/ SettingLoad(r) \/ SettingCash(r) \/ SettingDeposit(r)
               \/ SettingApart(r) \/ SettingRead(r)
      <4>1. ~At(r, "setting", "clear")
        BY <3>4 DEF LookupLoad, SettingLoad, SettingCash, SettingDeposit, SettingApart, SettingRead,
                    Accept, At, Idle
      <4> QED
        BY <1>0, <2>0, <3>4, <4>1, SettingReads, SerialReads
    <3> QED
      BY <2>8, <3>1, <3>2, <3>3, <3>4 DEF SettingStep
  <2>9. ASSUME NEW r \in Requests, Abort(r) PROVE SerialInv'
    <3>1. /\ Finish(r) /\ request[r] # Idle /\ ~At(r, "setting", "clear")
          /\ setting' = setting /\ cache' = cache
      BY <2>9 DEF Abort, tables, settings
    <3> QED
      BY <1>0, <2>0, <3>1, SerialEnds
  <2>10. CASE FundCreate \/ CacheExpires \/ CodingNext
    <3>1. request' = request /\ (cache \in {Null, setting} => cache' \in {Null, setting'})
      BY <2>10 DEF FundCreate, CacheExpires, CodingNext, Raise, Approve, Post, settings
    <3> QED
      BY <2>0, <3>1, SerialRests
  <2> QED
    BY <2>0, <2>2, <2>3, <2>4, <2>5, <2>6, <2>7, <2>8, <2>9, <2>10 DEF Next
<1> QED
  BY <1>1, <1>2, <1>3

-----------------------------------------------------------------------------
(* What was checked holds when it is written *)

MastersHold == OpeningsAreSettled /\ SwitchedOffLast /\ ProjectsKeepTheirFund /\ SavedDefaultsAgree

\* One head is inserted or updated, and nothing else of what is spoken of.
LEMMA HeadKept ==
  ASSUME head \in [Heads -> HeadRow \cup {Unborn}], UNCHANGED dimensions,
         NEW h \in Heads, NEW row, head' = [head EXCEPT ![h] = row],
         head[h] # Unborn =>
           /\ EntriesOn(h) # {} =>
                row.opening = head[h].opening /\ (head[h].postable => row.postable)
           /\ (head[h].active /\ ~row.active) => ActiveChildren(h) = {}
  PROVE  MastersHold
<1>1. head'[h] = row /\ \A g \in Heads : g # h => head'[g] = head[g]
  OBVIOUS
<1>2. OpeningsAreSettled
  BY <1>1 DEF OpeningsAreSettled, dimensions
<1>3. SwitchedOffLast
  <2>1. ASSUME NEW g \in Heads, head[g].active, ~head'[g].active
        PROVE  \A c \in Heads : ~(head[c].active /\ head[c].parent = g)
    <3>1. g = h
      BY <1>1, <2>1
    <3>2. head[h] # Unborn
      BY <2>1, <3>1 DEF Unborn
    <3>3. ActiveChildren(h) = {}
      BY <1>1, <2>1, <3>1, <3>2
    <3> QED
      BY <3>1, <3>3 DEF ActiveChildren
  <2> QED
    BY <2>1 DEF SwitchedOffLast, dimensions
<1>4. ProjectsKeepTheirFund /\ SavedDefaultsAgree
  BY DEF ProjectsKeepTheirFund, SavedDefaultsAgree, dimensions
<1> QED
  BY <1>2, <1>3, <1>4 DEF MastersHold

\* One fund is inserted or updated.
LEMMA FundKept ==
  ASSUME fund \in [Funds -> FundRow \cup {Unborn}], head' = head, project' = project,
         activity' = activity, NEW f \in Funds, NEW row, fund' = [fund EXCEPT ![f] = row],
         fund[f] # Unborn =>
           /\ EntriesIn(f) # {} => row.opening = fund[f].opening
           /\ (fund[f].active /\ ~row.active) => OpenProjects(f) = {}
  PROVE  MastersHold
<1>1. fund'[f] = row /\ \A g \in Funds : g # f => fund'[g] = fund[g]
  OBVIOUS
<1>2. OpeningsAreSettled
  BY <1>1 DEF OpeningsAreSettled
<1>3. SwitchedOffLast
  <2>1. ASSUME NEW g \in Funds, fund[g].active, ~fund'[g].active
        PROVE  \A p \in Projects : ~(/\ project[p].active /\ project[p].fund = g
                                     /\ project[p].status \in {"planning", "active"})
    <3>1. g = f
      BY <1>1, <2>1
    <3>2. fund[f] # Unborn
      BY <2>1, <3>1 DEF Unborn
    <3>3. OpenProjects(f) = {}
      BY <1>1, <2>1, <3>1, <3>2
    <3> QED
      BY <3>1, <3>3 DEF OpenProjects, UnderWay
  <2> QED
    BY <2>1 DEF SwitchedOffLast
<1>4. ProjectsKeepTheirFund /\ SavedDefaultsAgree
  BY DEF ProjectsKeepTheirFund, SavedDefaultsAgree
<1> QED
  BY <1>2, <1>3, <1>4 DEF MastersHold

\* Heads, funds, projects and activities stand.
LEMMA MastersKept ==
  ASSUME head' = head, UNCHANGED dimensions
  PROVE  MastersHold
  BY DEF MastersHold, OpeningsAreSettled, SwitchedOffLast, ProjectsKeepTheirFund, SavedDefaultsAgree,
         dimensions

LEMMA HeadWritesHold ==
  ASSUME MastersInv, NEW r \in Requests, Checked(request[r]), HeadCreate(r) \/ HeadWrite(r)
  PROVE  MastersHold
<1>0. head \in [Heads -> HeadRow \cup {Unborn}] /\ UNCHANGED dimensions
  BY DEF MastersInv, TypeOK, HeadCreate, HeadWrite
<1>1. PICK m : m = request[r]
  OBVIOUS
<1>2. m \in Memory /\ Knows(m) /\ Checked(m)
  BY <1>1 DEF MastersInv
<1>3. CASE HeadCreate(r)
  <2>1. PICK h, row : h \in Heads /\ head[h] = Unborn /\ head' = [head EXCEPT ![h] = row]
    BY <1>3 DEF HeadCreate
  <2> QED
    BY <1>0, <2>1, HeadKept
<1>4. CASE HeadWrite(r)
  <2>1. m.op = "head" /\ m.pc = "write"
    BY <1>1, <1>4 DEF HeadWrite, At
  <2>2. m.id \in Heads /\ m.body \in HeadPatch /\ head[m.id] # Unborn /\ CheckedHead(m)
    BY <1>2, <2>1, MemoryOf DEF HeadMemory, Knows, Checked
  <2>3. PICK old : old = head[m.id] /\ old \in HeadRow
    BY <1>0, <2>2
  <2>4. PICK row : row = Patched(old, m.body)
    OBVIOUS
  <2>5. /\ row.opening = IF m.body.opening # Keep THEN m.body.opening ELSE old.opening
        /\ row.postable = IF m.body.postable # Keep THEN m.body.postable ELSE old.postable
        /\ row.active = IF m.body.active # Keep THEN m.body.active ELSE old.active
    BY <2>2, <2>3, <2>4, PatchedHead
  <2>6. m.body.postable \in {TRUE, FALSE, Keep} /\ m.body.active \in {TRUE, FALSE, Keep}
    BY <2>2 DEF HeadPatch, Kept
  <2>7. /\ m.body.opening # Keep => EntriesOn(m.id) = {}
        /\ m.body.postable = FALSE => EntriesOn(m.id) = {}
        /\ m.body.active = FALSE => ActiveChildren(m.id) = {}
    BY <2>1, <2>2 DEF CheckedHead
  <2>8. EntriesOn(m.id) # {} => row.opening = old.opening
    BY <2>5, <2>7
  <2>9. EntriesOn(m.id) # {} => (old.postable => row.postable)
    BY <2>5, <2>6, <2>7
  <2>10. (old.active /\ ~row.active) => ActiveChildren(m.id) = {}
    BY <2>5, <2>6, <2>7
  <2>11. head' = [head EXCEPT ![m.id] = row]
    BY <1>1, <1>4, <2>3, <2>4 DEF HeadWrite
  <2> QED
    BY <1>0, <2>2, <2>3, <2>8, <2>9, <2>10, <2>11, HeadKept
<1> QED
  BY <1>3, <1>4

LEMMA BankWritesHold ==
  ASSUME MastersInv, NEW r \in Requests, Checked(request[r]), BankCreate(r) \/ BankOpening(r)
  PROVE  MastersHold
<1>0. head \in [Heads -> HeadRow \cup {Unborn}] /\ UNCHANGED dimensions
  BY DEF MastersInv, TypeOK, BankCreate, BankOpening
<1>1. PICK m : m = request[r]
  OBVIOUS
<1>2. m \in Memory /\ Knows(m) /\ Checked(m)
  BY <1>1 DEF MastersInv
<1>3. ASSUME NEW h \in Heads, head[h] # Unborn, NEW opening, EntriesOn(h) = {},
             head' = [head EXCEPT ![h].opening = opening]
      PROVE  MastersHold
  <2>1. PICK old : old = head[h] /\ old \in HeadRow
    BY <1>0, <1>3
  <2>2. PICK row : row = [old EXCEPT !.opening = opening]
    OBVIOUS
  <2>3. row.active = old.active
    BY <2>1, <2>2 DEF HeadRow
  <2>4. head' = [head EXCEPT ![h] = row]
    BY <1>3, <2>1, <2>2
  <2> QED
    BY <1>0, <1>3, <2>1, <2>3, <2>4, HeadKept
<1>4. CASE BankCreate(r)
  <2>1. m.op = "createBank" /\ m.pc = "write"
    BY <1>1, <1>4 DEF BankCreate, At
  <2>2. m.body.head \in Heads /\ head[m.body.head] # Unborn
    BY <1>2, <2>1, MemoryOf DEF Creating, NewBank, Knows
  <2>3. CASE m.body.opening = 0
    BY <1>0, <1>1, <1>4, <2>3, MastersKept DEF BankCreate
  <2>4. CASE m.body.opening # 0
    <3>1. EntriesOn(m.body.head) = {}
      BY <1>2, <2>1, <2>4 DEF Checked
    <3>2. head' = [head EXCEPT ![m.body.head].opening = m.body.opening]
      BY <1>1, <1>4, <2>4 DEF BankCreate
    <3> QED
      BY <1>3, <2>2, <3>1, <3>2
  <2> QED
    BY <2>3, <2>4
<1>5. CASE BankOpening(r)
  <2>1. m.op = "bank" /\ m.pc = "opening"
    BY <1>1, <1>5 DEF BankOpening, At
  <2>2. m.id \in Banks /\ bank[m.id] # Unborn /\ EntriesOn(bank[m.id].head) = {}
    BY <1>2, <2>1, MemoryOf DEF Updating, Knows, Checked
  <2>3. PICK h \in Heads : h = bank[m.id].head /\ head[h] # Unborn
    BY <2>2, BankHeads
  <2>4. head' = [head EXCEPT ![h].opening = m.body.opening]
    BY <1>1, <1>5, <2>3 DEF BankOpening
  <2> QED
    BY <1>3, <2>2, <2>3, <2>4
<1> QED
  BY <1>4, <1>5

LEMMA FundWritesHold ==
  ASSUME MastersInv, FundCreate \/ \E r \in Requests : FundWrite(r) /\ Checked(request[r])
  PROVE  MastersHold
<1>0. fund \in [Funds -> FundRow \cup {Unborn}] /\ head' = head /\ project' = project
      /\ activity' = activity
  BY DEF MastersInv, TypeOK, FundCreate, FundWrite, chart
<1>1. CASE FundCreate
  <2>1. PICK f, row : f \in Funds /\ fund[f] = Unborn /\ fund' = [fund EXCEPT ![f] = row]
    BY <1>1 DEF FundCreate
  <2> QED
    BY <1>0, <2>1, FundKept
<1>2. ASSUME NEW r \in Requests, FundWrite(r), Checked(request[r]) PROVE MastersHold
  <2>1. PICK m : m = request[r]
    OBVIOUS
  <2>2. m \in Memory /\ Knows(m) /\ Checked(m) /\ m.op = "fund" /\ m.pc = "write"
    BY <1>2, <2>1 DEF MastersInv, FundWrite, At
  <2>3. m.id \in Funds /\ m.body \in FundPatch /\ fund[m.id] # Unborn /\ CheckedFund(m)
    BY <2>2, MemoryOf DEF Updating, Knows, Checked
  <2>4. PICK old : old = fund[m.id] /\ old \in FundRow
    BY <1>0, <2>3
  <2>5. PICK row : row = Patched(old, m.body)
    OBVIOUS
  <2>6. /\ row.opening = IF m.body.opening # Keep THEN m.body.opening ELSE old.opening
        /\ row.active = IF m.body.active # Keep THEN m.body.active ELSE old.active
    BY <2>3, <2>4, <2>5, PatchedFund
  <2>7. m.body.active \in {TRUE, FALSE, Keep}
    BY <2>3 DEF FundPatch, Kept
  <2>8. /\ m.body.opening # Keep => EntriesIn(m.id) = {}
        /\ m.body.active = FALSE => OpenProjects(m.id) = {}
    BY <2>2, <2>3 DEF CheckedFund
  <2>9. EntriesIn(m.id) # {} => row.opening = old.opening
    BY <2>6, <2>8
  <2>10. (old.active /\ ~row.active) => OpenProjects(m.id) = {}
    BY <2>6, <2>7, <2>8
  <2>11. fund' = [fund EXCEPT ![m.id] = row]
    BY <1>2, <2>1, <2>4, <2>5 DEF FundWrite
  <2> QED
    BY <1>0, <2>3, <2>4, <2>9, <2>10, <2>11, FundKept
<1> QED
  BY <1>1, <1>2

\* Heads, funds and activities stand.
LEMMA ProjectKept ==
  ASSUME project \in [Projects -> ProjectRow \cup {Unborn}], head' = head, fund' = fund,
         activity' = activity, NEW p \in Projects, NEW row, project' = [project EXCEPT ![p] = row],
         (project[p] # Unborn /\ row.fund # project[p].fund) => EntriesOf(p) = {},
         (project[p] = Unborn \/ row.fund # project[p].fund) => TakesProjects(row.fund)
  PROVE  MastersHold
<1>1. project'[p] = row /\ \A q \in Projects : q # p => project'[q] = project[q]
  OBVIOUS
<1>2. OpeningsAreSettled /\ SwitchedOffLast /\ SavedDefaultsAgree
  BY DEF OpeningsAreSettled, SwitchedOffLast, SavedDefaultsAgree
<1>3. ASSUME NEW q \in Projects, project'[q] # Unborn
      PROVE  /\ (project[q] # Unborn /\ project'[q].fund # project[q].fund) =>
                  \A e \in Entries : Line(e).project # q
             /\ (project[q] = Unborn \/ project'[q].fund # project[q].fund) =>
                  fund[project'[q].fund].active
  <2>1. CASE q = p
    <3>1. EntriesOf(p) = {} => \A e \in Entries : Line(e).project # p
      BY DEF EntriesOf
    <3> QED
      BY <1>1, <2>1, <3>1 DEF TakesProjects
  <2>2. CASE q # p
    BY <1>1, <1>3, <2>2
  <2> QED
    BY <2>1, <2>2
<1> QED
  BY <1>2, <1>3 DEF MastersHold, ProjectsKeepTheirFund

LEMMA ProjectWritesHold ==
  ASSUME MastersInv, NEW r \in Requests, Checked(request[r]), ProjectCreate(r) \/ ProjectWrite(r)
  PROVE  MastersHold
<1>0. /\ project \in [Projects -> ProjectRow \cup {Unborn}] /\ head' = head /\ fund' = fund
      /\ activity' = activity
  BY DEF MastersInv, TypeOK, ProjectCreate, ProjectWrite, chart
<1>1. PICK m : m = request[r]
  OBVIOUS
<1>2. m \in Memory /\ Knows(m) /\ Checked(m)
  BY <1>1 DEF MastersInv
<1>3. CASE ProjectCreate(r)
  <2>1. m.op = "createProject"
    BY <1>1, <1>3 DEF ProjectCreate, At
  <2>2. m.body \in NewProject /\ TakesProjects(m.body.fund)
    BY <1>2, <2>1, MemoryOf DEF Creating, Checked
  <2>3. PICK row : row = New(m.body)
    OBVIOUS
  <2>4. row.fund = m.body.fund
    BY <2>2, <2>3, NewRows
  <2>5. PICK p \in Projects : project[p] = Unborn /\ project' = [project EXCEPT ![p] = row]
    BY <1>1, <1>3, <2>3 DEF ProjectCreate
  <2> QED
    BY <1>0, <2>2, <2>4, <2>5, ProjectKept
<1>4. CASE ProjectWrite(r)
  <2>1. m.op = "project" /\ m.pc = "write"
    BY <1>1, <1>4 DEF ProjectWrite, At
  <2>2. m.id \in Projects /\ m.body \in ProjectPatch /\ project[m.id] # Unborn /\ CheckedProject(m)
    BY <1>2, <2>1, MemoryOf DEF Updating, Knows, Checked
  <2>3. PICK old : old = project[m.id] /\ old \in ProjectRow
    BY <1>0, <2>2
  <2>4. PICK row : row = Patched(old, WithActivity(m.body))
    OBVIOUS
  <2>5. row.fund = IF m.body.fund # Keep THEN m.body.fund ELSE old.fund
    BY <2>2, <2>3, <2>4, PatchedProject
  <2>6. row.fund # old.fund => EntriesOf(m.id) = {} /\ TakesProjects(row.fund)
    BY <2>1, <2>2, <2>3, <2>5 DEF CheckedProject
  <2>7. project' = [project EXCEPT ![m.id] = row]
    BY <1>1, <1>4, <2>3, <2>4 DEF ProjectWrite
  <2> QED
    BY <1>0, <2>2, <2>3, <2>6, <2>7, ProjectKept
<1> QED
  BY <1>3, <1>4

LEMMA ActivityWritesHold ==
  ASSUME MastersInv, NEW r \in Requests, Checked(request[r]), ActivityWrite(r)
  PROVE  MastersHold
<1>0. /\ activity \in [Activities -> ActivityRow \cup {Unborn}] /\ head' = head /\ fund' = fund
      /\ project' = project
  BY DEF MastersInv, TypeOK, ActivityWrite, chart
<1>1. PICK m : m = request[r]
  OBVIOUS
<1>2. m \in Memory /\ Knows(m) /\ Checked(m) /\ m.op \in {"createActivity", "activity"} /\ m.pc = "write"
  BY <1>1 DEF MastersInv, ActivityWrite, Activity
<1>3. PICK a, row :
        /\ a \in Activities
        /\ activity' = [activity EXCEPT ![a] = row]
        /\ row.fund = m.body.fund /\ row.project = m.body.project
  <2>1. CASE m.op = "createActivity"
    <3>1. m.body \in NewActivity
      BY <1>2, <2>1, MemoryOf DEF Updating
    <3>2. PICK row : row = New(m.body)
      OBVIOUS
    <3>3. row.fund = m.body.fund /\ row.project = m.body.project
      BY <3>1, <3>2, NewRows
    <3> QED
      BY <1>1, <2>1, <3>2, <3>3 DEF ActivityWrite
  <2>2. CASE m.op = "activity"
    <3>1. m.id \in Activities /\ m.body \in ActivityBody /\ activity[m.id] # Unborn
      BY <1>2, <2>2, MemoryOf DEF Updating, Knows
    <3>2. m.body \in ActivityPatch /\ m.body.fund # Keep /\ m.body.project # Keep
      BY <3>1, KeepAssumption DEF ActivityBody, ActivityPatch, Kept
    <3>3. PICK row : row = Patched(activity[m.id], m.body)
      OBVIOUS
    <3>4. row.fund = m.body.fund /\ row.project = m.body.project
      BY <1>0, <3>1, <3>2, <3>3, PatchedActivity
    <3> QED
      BY <1>1, <2>2, <3>1, <3>3, <3>4 DEF ActivityWrite
  <2> QED
    BY <1>2, <2>1, <2>2
<1>4. m.body.project # Null => project[m.body.project].fund = m.body.fund
  BY <1>2 DEF Checked, CarriedIn
<1>5. SavedDefaultsAgree
  <2>1. ASSUME NEW c \in Activities, activity'[c] # activity[c], activity'[c].project # Null
        PROVE  project[activity'[c].project].fund = activity'[c].fund
    <3>1. c = a /\ activity'[c] = row
      BY <1>0, <1>3, <2>1
    <3> QED
      BY <1>3, <1>4, <2>1, <3>1
  <2> QED
    BY <2>1 DEF SavedDefaultsAgree
<1> QED
  BY <1>0, <1>5 DEF MastersHold, OpeningsAreSettled, SwitchedOffLast, ProjectsKeepTheirFund

LEMMA MastersHoldStep ==
  ASSUME MastersInv, \A r \in Requests : Checked(request[r]), Next
  PROVE  MastersHold
<1>1. ASSUME NEW r \in Requests, HeadStep(r) PROVE MastersHold
  <2>1. CASE HeadCreate(r) \/ HeadWrite(r)
    BY <2>1, HeadWritesHold
  <2>2. CASE ~(HeadCreate(r) \/ HeadWrite(r))
    BY <1>1, <2>2, HeadReads, MastersKept DEF HeadStep, GoesOnChecked, tables, chart
  <2> QED
    BY <2>1, <2>2
<1>2. ASSUME NEW r \in Requests, BankStep(r) PROVE MastersHold
  <2>1. CASE BankCreate(r) \/ BankOpening(r)
    BY <2>1, BankWritesHold
  <2>2. CASE BankWrite(r)
    BY <2>2, MastersKept DEF BankWrite
  <2>3. CASE ~(BankCreate(r) \/ BankOpening(r) \/ BankWrite(r))
    BY <1>2, <2>3, BankReads, MastersKept DEF BankStep, GoesOnChecked, tables, chart
  <2> QED
    BY <2>1, <2>2, <2>3
<1>3. ASSUME NEW r \in Requests, FundStep(r) PROVE MastersHold
  <2>1. CASE FundWrite(r)
    BY <2>1, FundWritesHold
  <2>2. CASE ~FundWrite(r)
    BY <1>3, <2>2, FundReads, MastersKept DEF FundStep, GoesOnChecked, tables, chart
  <2> QED
    BY <2>1, <2>2
<1>4. ASSUME NEW r \in Requests, ProjectStep(r) PROVE MastersHold
  <2>1. CASE ProjectCreate(r) \/ ProjectWrite(r)
    BY <2>1, ProjectWritesHold
  <2>2. CASE ~(ProjectCreate(r) \/ ProjectWrite(r))
    BY <1>4, <2>2, ProjectReads, MastersKept DEF ProjectStep, GoesOnChecked, tables, chart
  <2> QED
    BY <2>1, <2>2
<1>5. ASSUME NEW r \in Requests, ActivityStep(r) PROVE MastersHold
  <2>1. CASE ActivityWrite(r)
    BY <2>1, ActivityWritesHold
  <2>2. CASE ~ActivityWrite(r)
    BY <1>5, <2>2, ActivityReads, MastersKept DEF ActivityStep, GoesOnChecked, tables, chart
  <2> QED
    BY <2>1, <2>2
<1>6. ASSUME NEW r \in Requests, AssetStep(r) PROVE MastersHold
  <2>1. CASE AssetCreate(r) \/ AssetWrite(r) \/ DisposeWrite(r)
    BY <2>1, MastersKept DEF AssetCreate, AssetWrite, DisposeWrite, Keeps, chart
  <2>2. CASE ~(AssetCreate(r) \/ AssetWrite(r) \/ DisposeWrite(r))
    BY <1>6, <2>2, AssetReads, MastersKept DEF AssetStep, GoesOnChecked, tables, chart
  <2> QED
    BY <2>1, <2>2
<1>7. ASSUME NEW r \in Requests, SettingStep(r) PROVE MastersHold
  <2>1. CASE LookupKeep(r) \/ SettingWrite(r) \/ SettingClear(r)
    BY <2>1, MastersKept DEF LookupKeep, SettingWrite, SettingClear, chart
  <2>2. CASE ~(LookupKeep(r) \/ SettingWrite(r) \/ SettingClear(r))
    BY <1>7, <2>2, SettingReads, MastersKept DEF SettingStep, GoesOnChecked, tables, chart
  <2> QED
    BY <2>1, <2>2
<1>8. ASSUME NEW r \in Requests, Abort(r) PROVE MastersHold
  BY <1>8, MastersKept DEF Abort, tables, chart
<1>9. CASE CacheExpires \/ CodingNext
  BY <1>9, MastersKept DEF CacheExpires, CodingNext, Raise, Approve, Post, chart
<1> QED
  BY <1>1, <1>2, <1>3, <1>4, <1>5, <1>6, <1>7, <1>8, <1>9, FundWritesHold DEF Next

\* What is checked once.
Inv == MastersInv /\ SerialInv

LEMMA InvHolds == MCSpec => []Inv
<1>1. MCInit => Inv
  BY MastersStart, SerialStart DEF MCInit, Inv
<1>2. Inv /\ [MCNext]_<<vars, overlapped>> => Inv'
  <2> SUFFICES ASSUME Inv, [MCNext]_<<vars, overlapped>> PROVE Inv'
    OBVIOUS
  <2>1. [Next]_vars
    BY DEF MCNext
  <2> QED
    BY <2>1, MastersStep, SerialStep DEF Inv
<1> QED
  BY <1>1, <1>2, PTL DEF MCSpec

\* As long as handlers follow one another openings are settled by the first line, heads and
\* funds are switched off last, projects with lines keep their fund and saved defaults
\* agree.  (AccountsService, FundsService, ProjectsService, ActivitiesService.)
THEOREM MastersAreKept == MCSpec => MastersUntilOverlap
<1>1. ASSUME Inv, [MCNext]_<<vars, overlapped>>
      PROVE  [~overlapped' => OpeningsAreSettled /\ SwitchedOffLast /\ ProjectsKeepTheirFund
                              /\ SavedDefaultsAgree]_vars
  <2>1. CASE MCNext /\ ~overlapped'
    <3>1. Next /\ ~overlapped
      BY <2>1 DEF MCNext
    <3>2. \A r \in Requests : Checked(request[r])
      BY <1>1, <3>1 DEF Inv, SerialInv
    <3> QED
      BY <1>1, <3>1, <3>2, MastersHoldStep DEF Inv, MastersHold
  <2>2. CASE overlapped' \/ UNCHANGED vars
    BY <2>2
  <2> QED
    BY <1>1, <2>1, <2>2
<1> QED
  BY <1>1, InvHolds, PTL DEF MCSpec, MastersUntilOverlap

-----------------------------------------------------------------------------
(* The register of assets *)

\* disposal_is_consistent and disposed_after_acquired hold of every row.
LawfulInv == \A a \in Assets : asset[a] # Unborn => Lawful(asset[a])

\* The steps that leave the assets alone.
LEMMA AssetsStand ==
  ASSUME MastersInv, [Next]_vars,
         ~\E r \in Requests : AssetCreate(r) \/ AssetWrite(r) \/ DisposeWrite(r)
  PROVE  asset' = asset
<1>1. ASSUME NEW r \in Requests, AssetStep(r) PROVE asset' = asset
  BY <1>1, AssetReads DEF AssetStep, GoesOnChecked, tables
<1>2. ASSUME NEW r \in Requests,
             \/ HeadStep(r) \/ BankStep(r) \/ FundStep(r) \/ ProjectStep(r) \/ ActivityStep(r)
             \/ SettingStep(r) \/ Abort(r)
      PROVE  asset' = asset
  <2>1. CASE HeadStep(r)
    BY <2>1, HeadReads DEF HeadStep, HeadCreate, HeadWrite, GoesOnChecked, tables
  <2>2. CASE BankStep(r)
    BY <2>2, BankReads DEF BankStep, BankCreate, BankOpening, BankWrite, GoesOnChecked, tables
  <2>3. CASE FundStep(r)
    BY <2>3, FundReads DEF FundStep, FundWrite, GoesOnChecked, tables
  <2>4. CASE ProjectStep(r)
    BY <2>4, ProjectReads DEF ProjectStep, ProjectCreate, ProjectWrite, GoesOnChecked, tables
  <2>5. CASE ActivityStep(r)
    BY <2>5, ActivityReads DEF ActivityStep, ActivityWrite, GoesOnChecked, tables
  <2>6. CASE SettingStep(r)
    BY <2>6, SettingReads
       DEF SettingStep, LookupKeep, SettingWrite, SettingClear, GoesOnChecked, tables
  <2>7. CASE Abort(r)
    BY <2>7 DEF Abort, tables
  <2> QED
    BY <1>2, <2>1, <2>2, <2>3, <2>4, <2>5, <2>6, <2>7
<1>3. CASE FundCreate \/ CacheExpires \/ CodingNext
  BY <1>3 DEF FundCreate, CacheExpires, CodingNext, Raise, Approve, Post
<1>4. CASE UNCHANGED vars
  BY <1>4 DEF vars, tables
<1> QED
  BY <1>1, <1>2, <1>3, <1>4 DEF Next

\* One asset is inserted, edited or disposed of.
LEMMA AssetMoves ==
  ASSUME MastersInv, LawfulInv, NEW r \in Requests,
         AssetCreate(r) \/ AssetWrite(r) \/ DisposeWrite(r)
  PROVE  \E a \in Assets : \E row :
           /\ asset' = [asset EXCEPT ![a] = row] /\ Lawful(row)
           /\ (asset[a] # Unborn /\ Disposed(a)) => row.status = "disposed" /\ row.disposedOn # Null
           /\ Checked(request[r]) => asset[a] = Unborn \/ ~Disposed(a)
<1>1. PICK m : m = request[r]
  OBVIOUS
<1>2. m \in Memory /\ Knows(m)
  BY <1>1 DEF MastersInv
<1>3. CASE AssetCreate(r)
  <2>1. PICK a, row : a \in Assets /\ asset[a] = Unborn /\ Keeps(r, a, row)
    BY <1>3 DEF AssetCreate
  <2> QED
    BY <2>1 DEF Keeps
<1>4. CASE AssetWrite(r)
  <2>1. m.op = "asset"
    BY <1>1, <1>4 DEF AssetWrite, At
  <2>2. m.id \in Assets /\ m.body \in AssetPatch /\ asset[m.id] # Unborn
    BY <1>2, <2>1, MemoryOf DEF Updating, Knows
  <2>3. PICK old : old = asset[m.id] /\ old \in AssetRow
    BY <2>2 DEF MastersInv, TypeOK
  <2>4. PICK row : row = Patched(old, m.body)
    OBVIOUS
  <2>5. row.disposedOn = old.disposedOn
    BY <2>2, <2>3, <2>4, PatchedAsset
  <2>6. asset' = [asset EXCEPT ![m.id] = row] /\ Lawful(row)
    BY <1>1, <1>4, <2>3, <2>4 DEF AssetWrite, Keeps
  <2>7. Lawful(old)
    BY <2>2, <2>3 DEF LawfulInv
  <2>8. Disposed(m.id) => row.status = "disposed" /\ row.disposedOn # Null
    BY <2>3, <2>5, <2>6, <2>7 DEF Lawful, Disposed
  <2>9. Checked(m) => ~Disposed(m.id)
    BY <2>1 DEF Checked, HeldAsset
  <2> QED
    BY <1>1, <2>2, <2>6, <2>8, <2>9
<1>5. CASE DisposeWrite(r)
  <2>1. m.op = "dispose"
    BY <1>1, <1>5 DEF DisposeWrite, At
  <2>2. m.id \in Assets /\ m.day \in Days /\ asset[m.id] # Unborn
    BY <1>2, <2>1, MemoryOf DEF Disposing, Knows
  <2>3. PICK old : old = asset[m.id] /\ old \in AssetRow
    BY <2>2 DEF MastersInv, TypeOK
  <2>4. PICK row : row = [old EXCEPT !.status = "disposed", !.disposedOn = m.day]
    OBVIOUS
  <2>5. row.status = "disposed" /\ row.disposedOn # Null
    BY <2>2, <2>3, <2>4, IdsAssumption DEF AssetRow
  <2>6. asset' = [asset EXCEPT ![m.id] = row] /\ Lawful(row)
    BY <1>1, <1>5, <2>3, <2>4 DEF DisposeWrite, Keeps
  <2>7. Checked(m) => ~Disposed(m.id)
    BY <2>1 DEF Checked, HeldAsset
  <2> QED
    BY <1>1, <2>2, <2>5, <2>6, <2>7
<1> QED
  BY <1>3, <1>4, <1>5

LEMMA LawfulStep ==
  ASSUME MastersInv, LawfulInv, [Next]_vars
  PROVE  LawfulInv'
<1>1. CASE \E r \in Requests : AssetCreate(r) \/ AssetWrite(r) \/ DisposeWrite(r)
  <2>1. PICK a, row : a \in Assets /\ asset' = [asset EXCEPT ![a] = row] /\ Lawful(row)
    BY <1>1, AssetMoves
  <2>2. ASSUME NEW c \in Assets, asset'[c] # Unborn PROVE Lawful(asset'[c])
    BY <2>1, <2>2 DEF LawfulInv, MastersInv, TypeOK
  <2> QED
    BY <2>2 DEF LawfulInv, Lawful
<1>2. CASE ~\E r \in Requests : AssetCreate(r) \/ AssetWrite(r) \/ DisposeWrite(r)
  BY <1>2, AssetsStand DEF LawfulInv, Lawful
<1> QED
  BY <1>1, <1>2

\* However edits and disposals overlap, what was disposed of stays disposed; as long as they
\* follow one another its record stands.  (disposal_is_consistent, AssetsService.)
THEOREM AssetsAreKept == MCSpec => AssetsUntilOverlap
<1>1. MCInit => LawfulInv
  BY DEF MCInit, Init, LawfulInv
<1>2. ASSUME Inv, LawfulInv, [MCNext]_<<vars, overlapped>>
      PROVE  LawfulInv' /\ [DisposedForGood /\ (~overlapped' => ClosedRecordsStand)]_vars
  <2>1. [Next]_vars /\ MastersInv
    BY <1>2 DEF MCNext, Inv
  <2>2. CASE \E r \in Requests : AssetCreate(r) \/ AssetWrite(r) \/ DisposeWrite(r)
    <3>1. PICK r \in Requests : AssetCreate(r) \/ AssetWrite(r) \/ DisposeWrite(r)
      BY <2>2
    <3>2. PICK a, row :
            /\ a \in Assets
            /\ asset' = [asset EXCEPT ![a] = row]
            /\ (asset[a] # Unborn /\ Disposed(a)) => row.status = "disposed" /\ row.disposedOn # Null
            /\ Checked(request[r]) => asset[a] = Unborn \/ ~Disposed(a)
      BY <1>2, <2>1, <3>1, AssetMoves
    <3>3. DisposedForGood
      <4>1. ASSUME NEW c \in Assets, asset[c] # Unborn, Disposed(c)
            PROVE  asset'[c].status = "disposed" /\ asset'[c].disposedOn # Null
        <5>1. CASE c = a
          BY <2>1, <3>2, <4>1, <5>1 DEF MastersInv, TypeOK
        <5>2. CASE c # a
          <6>1. asset'[c] = asset[c]
            BY <2>1, <3>2, <5>2 DEF MastersInv, TypeOK
          <6>2. asset[c].status = "disposed" /\ asset[c].disposedOn # Null
            BY <1>2, <4>1 DEF LawfulInv, Lawful, Disposed
          <6> QED
            BY <6>1, <6>2
        <5> QED
          BY <5>1, <5>2
      <4> QED
        BY <4>1 DEF DisposedForGood
    <3>4. ~overlapped' /\ MCNext => Checked(request[r])
      BY <1>2 DEF MCNext, Inv, SerialInv
    <3>5. ~overlapped' /\ MCNext => ClosedRecordsStand
      BY <2>1, <3>2, <3>4 DEF ClosedRecordsStand, MastersInv, TypeOK
    <3> QED
      BY <1>2, <2>1, <3>3, <3>5, LawfulStep
  <2>3. CASE ~\E r \in Requests : AssetCreate(r) \/ AssetWrite(r) \/ DisposeWrite(r)
    <3>1. asset' = asset
      BY <2>1, <2>3, AssetsStand
    <3>2. DisposedForGood /\ ClosedRecordsStand
      BY <1>2, <3>1 DEF DisposedForGood, ClosedRecordsStand, Disposed, LawfulInv, Lawful
    <3> QED
      BY <1>2, <2>1, <3>2, LawfulStep
  <2> QED
    BY <2>2, <2>3
<1> QED
  BY <1>1, <1>2, InvHolds, PTL DEF MCSpec, AssetsUntilOverlap

-----------------------------------------------------------------------------
(* The settings *)

\* The steps that leave the settings alone.
LEMMA SettingStands ==
  ASSUME MastersInv, [Next]_vars, ~\E r \in Requests : SettingWrite(r)
  PROVE  setting' = setting
<1>1. ASSUME NEW r \in Requests, SettingStep(r) PROVE setting' = setting
  BY <1>1, SettingReads
     DEF SettingStep, LookupKeep, SettingClear, GoesOnChecked, tables, settings
<1>2. ASSUME NEW r \in Requests,
             \/ HeadStep(r) \/ BankStep(r) \/ FundStep(r) \/ ProjectStep(r) \/ ActivityStep(r)
             \/ AssetStep(r) \/ Abort(r)
      PROVE  setting' = setting
  <2>1. CASE HeadStep(r)
    BY <2>1, HeadReads DEF HeadStep, HeadCreate, HeadWrite, GoesOnChecked, tables, settings
  <2>2. CASE BankStep(r)
    BY <2>2, BankReads DEF BankStep, BankCreate, BankOpening, BankWrite, GoesOnChecked, tables, settings
  <2>3. CASE FundStep(r)
    BY <2>3, FundReads DEF FundStep, FundWrite, GoesOnChecked, tables, settings
  <2>4. CASE ProjectStep(r)
    BY <2>4, ProjectReads DEF ProjectStep, ProjectCreate, ProjectWrite, GoesOnChecked, tables, settings
  <2>5. CASE ActivityStep(r)
    BY <2>5, ActivityReads DEF ActivityStep, ActivityWrite, GoesOnChecked, tables, settings
  <2>6. CASE AssetStep(r)
    BY <2>6, AssetReads
       DEF AssetStep, AssetCreate, AssetWrite, DisposeWrite, Keeps, GoesOnChecked, tables, settings
  <2>7. CASE Abort(r)
    BY <2>7 DEF Abort, tables, settings
  <2> QED
    BY <1>2, <2>1, <2>2, <2>3, <2>4, <2>5, <2>6, <2>7
<1>3. CASE FundCreate \/ CacheExpires \/ CodingNext
  BY <1>3 DEF FundCreate, CacheExpires, CodingNext, Raise, Approve, Post, settings
<1>4. CASE UNCHANGED vars
  BY <1>4 DEF vars, tables, settings
<1> QED
  BY <1>1, <1>2, <1>3, <1>4 DEF Next

\* What an update that nobody overlapped makes of the settings.
LEMMA SettingMoves ==
  ASSUME MastersInv, NEW r \in Requests, SettingWrite(r), Checked(request[r]),
         cache \in {Null, setting}
  PROVE  /\ DepositsOffTheCashBook
         /\ \A f \in DOMAIN setting : setting'[f] # setting[f] => request[r].body[f] # Keep
<1>1. PICK m : m = request[r]
  OBVIOUS
<1>2. m \in Memory /\ m.op = "setting" /\ m.pc = "write" /\ Checked(m)
  BY <1>1 DEF SettingWrite, At, MastersInv
<1>3. m \in Merging
  BY <1>2, MemoryOf DEF Creating
<1>4. m.body \in SettingPatch /\ m.before = setting /\ setting \in SettingRow
  BY <1>2, <1>3 DEF Merging, Checked, CheckedSetting, MastersInv, TypeOK
<1>5. /\ setting'.cash = IF m.body.cash # Keep THEN m.body.cash ELSE setting.cash
      /\ setting'.deposit = IF m.body.deposit # Keep THEN m.body.deposit ELSE setting.deposit
  BY <1>1, <1>4, PatchedSetting DEF SettingWrite
<1>6. DOMAIN setting = {"cash", "deposit"}
  BY <1>4 DEF SettingRow
<1>7. Accounting = setting
  BY DEF Accounting
<1>8. m.body.deposit # Keep => /\ m.body.deposit # setting.cash
                               /\ \A b \in Banks : bank[b] # Unborn => bank[b].head # m.body.deposit
  BY <1>2, <1>7 DEF Checked, CheckedSetting, IsMoneyHead
<1>9. bank' = bank
  BY DEF SettingWrite, chart
<1> QED
  BY <1>1, <1>5, <1>6, <1>8, <1>9 DEF DepositsOffTheCashBook

\* As long as handlers follow one another deposits stay off the cash book, settings are kept
\* and the copy is what is stored.  (assertIsDepositHead, write, updateAccounting.)
THEOREM SettingsAreKeptSerially == MCSpec => SettingsUntilOverlap
<1>1. ASSUME Inv, [MCNext]_<<vars, overlapped>>
      PROVE  [~overlapped' => DepositsOffTheCashBook /\ SettingsAreKept /\ CopyIsStored']_vars
  <2>1. SUFFICES ASSUME MCNext, ~overlapped'
                 PROVE  DepositsOffTheCashBook /\ SettingsAreKept /\ CopyIsStored'
    BY <1>1
  <2>2. Next /\ ~overlapped /\ MastersInv /\ ~TwoBusy
        /\ \A r \in Requests : Checked(request[r])
    BY <1>1, <2>1 DEF MCNext, Inv, SerialInv
  <2>3. SerialInv'
    BY <1>1, <2>1, SerialStep DEF Inv
  <2>4. CopyIsStored'
    BY <2>1, <2>3 DEF SerialInv, CopyIsStored, At, Idle
  <2>5. CASE \E r \in Requests : SettingWrite(r)
    <3>1. PICK r \in Requests : SettingWrite(r)
      BY <2>5
    <3>2. \A s \in Requests : s # r => request[s] = Idle
      BY <2>2, <3>1 DEF TwoBusy, SettingWrite, At, Idle
    <3>3. cache \in {Null, setting}
      BY <1>1, <2>2, <3>1, <3>2 DEF Inv, SerialInv, SettingWrite, At, Idle
    <3>4. DepositsOffTheCashBook
          /\ \A f \in DOMAIN setting : setting'[f] # setting[f] => request[r].body[f] # Keep
      BY <2>2, <3>1, <3>3, SettingMoves
    <3>5. \A s \in Requests : At(s, "setting", "write") => s = r
      BY <3>2 DEF At, Idle
    <3> QED
      BY <2>4, <3>4, <3>5 DEF SettingsAreKept
  <2>6. CASE ~\E r \in Requests : SettingWrite(r)
    <3>1. setting' = setting
      BY <2>2, <2>6, SettingStands
    <3> QED
      BY <2>4, <3>1 DEF DepositsOffTheCashBook, SettingsAreKept
  <2> QED
    BY <2>5, <2>6
<1> QED
  BY <1>1, InvHolds, PTL DEF MCSpec, SettingsUntilOverlap

-----------------------------------------------------------------------------
(* The tree of heads *)

\* No head is more than MaxDepth levels down: a way up through so many heads comes back
\* to one of them.
Shallow ==
  \A f \in [0..MaxDepth -> Heads] :
    Chain(f, MaxDepth) => \E i, j \in 0..MaxDepth : i < j /\ f[i] = f[j]

\* In a tree that is shallow no walk is given up.
LEMMA NoWalkIsGivenUp ==
  ASSUME ChartIsATree, Shallow
  PROVE  ~Deep
<1> SUFFICES ASSUME Deep PROVE FALSE
  OBVIOUS
<1>1. MaxDepth \in Nat
  BY DEF MaxDepth
<1>2. PICK f \in [0..MaxDepth -> Heads] : Chain(f, MaxDepth)
  BY DEF Deep
<1>3. PICK i \in 0..MaxDepth, j \in 0..MaxDepth : i < j /\ f[i] = f[j]
  BY <1>2 DEF Shallow
<1> DEFINE S == {f[k] : k \in i..(j - 1)}
<1>4. \A k \in i..(j - 1) : k \in 0..(MaxDepth - 1) /\ k \in 0..MaxDepth /\ k + 1 \in 0..MaxDepth
  BY <1>1, <1>3
<1>5. S \in SUBSET {h \in Heads : head[h] # Unborn}
  BY <1>2, <1>4 DEF Chain
<1>6. i \in i..(j - 1)
  BY <1>3
<1>7. S # {}
  BY <1>6
<1>8. ASSUME NEW k \in i..(j - 1) PROVE head[f[k]].parent \in S
  <2>1. head[f[k]].parent = f[k + 1]
    BY <1>2, <1>4 DEF Chain
  <2>2. CASE k = j - 1
    <3>1. f[k + 1] = f[i]
      BY <1>3, <2>2
    <3> QED
      BY <1>6, <2>1, <3>1
  <2>3. CASE k # j - 1
    <3>1. k + 1 \in i..(j - 1)
      BY <2>3
    <3> QED
      BY <2>1, <3>1
  <2> QED
    BY <2>2, <2>3
<1>9. \A h \in S : head[h].parent \in S
  BY <1>8
<1> HIDE DEF S
<1> QED
  BY <1>5, <1>7, <1>9 DEF ChartIsATree

\* Heads stay where they are.
LEMMA ParentsStand ==
  ASSUME ChartIsATree,
         \A h \in Heads : /\ head'[h] # Unborn => head[h] # Unborn
                          /\ head'[h].parent = head[h].parent
  PROVE  ChartIsATree'
  BY DEF ChartIsATree

\* A head is created below another or as a root.
LEMMA TreeGrows ==
  ASSUME ChartIsATree, MastersInv, NEW h \in Heads, head[h] = Unborn, NEW row \in HeadRow,
         row.parent # Null => head[row.parent] # Unborn, head' = [head EXCEPT ![h] = row]
  PROVE  ChartIsATree'
<1>1. /\ head \in [Heads -> HeadRow \cup {Unborn}] /\ head'[h] = row
      /\ \A g \in Heads : g # h => head'[g] = head[g]
  BY DEF MastersInv, TypeOK
<1>2. ASSUME NEW S \in SUBSET Heads, \A g \in S : head'[g] # Unborn, S # {},
             \A g \in S : head'[g].parent \in S
      PROVE  FALSE
  <2>1. \A g \in S : g # h => head[g] # Unborn /\ head[g].parent \in S
    BY <1>1, <1>2
  <2>2. \A g \in S : g # h => head[g].parent # h
    <3>1. ASSUME NEW g \in S, g # h, head[g].parent = h PROVE FALSE
      <4>1. head[g] # Unborn /\ head[g].parent # Null
        BY <2>1, <3>1, IdsAssumption
      <4> QED
        BY <3>1, <4>1 DEF MastersInv, TypesAgree, Compatible
    <3> QED
      BY <3>1
  <2>3. S \ {h} # {}
    <3>1. CASE h \in S
      <4>1. row.parent \in S
        BY <1>1, <1>2, <3>1
      <4>2. row.parent # h
        BY <4>1, IdsAssumption
      <4> QED
        BY <4>1, <4>2
    <3>2. CASE h \notin S
      BY <1>2, <3>2
    <3> QED
      BY <3>1, <3>2
  <2>4. S \ {h} \in SUBSET {g \in Heads : head[g] # Unborn}
    BY <2>1
  <2>5. \A g \in S \ {h} : head[g].parent \in S \ {h}
    BY <2>1, <2>2
  <2> QED
    BY <2>3, <2>4, <2>5 DEF ChartIsATree
<1> QED
  BY <1>2 DEF ChartIsATree

\* A head is put below one it is not above.
LEMMA TreeMoves ==
  ASSUME ChartIsATree, MastersInv, NEW h \in Heads, NEW row, head[h] # Unborn,
         head' = [head EXCEPT ![h] = row],
         row.parent \notin {Null, head[h].parent} => Clear(h, row.parent)
  PROVE  ChartIsATree'
<1>1. /\ head \in [Heads -> HeadRow \cup {Unborn}] /\ head'[h] = row
      /\ \A g \in Heads : g # h => head'[g] = head[g]
  BY DEF MastersInv, TypeOK
<1>2. ASSUME NEW S \in SUBSET Heads, \A g \in S : head'[g] # Unborn, S # {},
             \A g \in S : head'[g].parent \in S
      PROVE  FALSE
  <2>1. S \in SUBSET {g \in Heads : head[g] # Unborn}
    BY <1>1, <1>2
  <2>2. \A g \in S : g # h => head[g].parent \in S
    BY <1>1, <1>2
  <2>3. CASE h \in S /\ row.parent # head[h].parent
    <3>1. row.parent \in S /\ row.parent # Null
      BY <1>1, <1>2, <2>3, IdsAssumption
    <3>2. PICK C \in SUBSET Heads : row.parent \in C /\ h \notin C
                                    /\ \A g \in C : head[g].parent \in C \cup {Null}
      BY <2>3, <3>1 DEF Clear
    <3>3. \A g \in S \cap C : head[g].parent \in S \cap C
      <4>1. ASSUME NEW g \in S \cap C PROVE head[g].parent \in S \cap C
        <5>1. head[g].parent \in S
          BY <2>2, <3>2
        <5>2. head[g].parent \in C \cup {Null} /\ head[g].parent # Null
          BY <3>2, <5>1, IdsAssumption
        <5> QED
          BY <5>1, <5>2
      <4> QED
        BY <4>1
    <3>4. S \cap C # {} /\ S \cap C \in SUBSET {g \in Heads : head[g] # Unborn}
      BY <2>1, <3>1, <3>2
    <3> QED
      BY <3>3, <3>4 DEF ChartIsATree
  <2>4. CASE ~(h \in S /\ row.parent # head[h].parent)
    <3>1. \A g \in S : head[g].parent \in S
      BY <1>1, <1>2, <2>2, <2>4
    <3> QED
      BY <1>2, <2>1, <3>1 DEF ChartIsATree
  <2> QED
    BY <2>3, <2>4
<1> QED
  BY <1>2 DEF ChartIsATree

\* The steps that leave the heads alone.
LEMMA HeadStands ==
  ASSUME MastersInv, [Next]_vars,
         ~\E r \in Requests : HeadCreate(r) \/ HeadWrite(r) \/ BankCreate(r) \/ BankOpening(r)
  PROVE  head' = head
<1>1. ASSUME NEW r \in Requests,
             \/ HeadStep(r) \/ BankStep(r) \/ FundStep(r) \/ ProjectStep(r) \/ ActivityStep(r)
             \/ AssetStep(r) \/ SettingStep(r) \/ Abort(r)
      PROVE  head' = head
  <2>1. CASE HeadStep(r)
    BY <2>1, HeadReads DEF HeadStep, GoesOnChecked, tables, chart
  <2>2. CASE BankStep(r)
    BY <2>2, BankReads DEF BankStep, BankWrite, GoesOnChecked, tables, chart
  <2>3. CASE FundStep(r)
    BY <2>3, FundReads DEF FundStep, FundWrite, GoesOnChecked, tables, chart
  <2>4. CASE ProjectStep(r)
    BY <2>4, ProjectReads DEF ProjectStep, ProjectCreate, ProjectWrite, GoesOnChecked, tables, chart
  <2>5. CASE ActivityStep(r)
    BY <2>5, ActivityReads DEF ActivityStep, ActivityWrite, GoesOnChecked, tables, chart
  <2>6. CASE AssetStep(r)
    BY <2>6, AssetReads
       DEF AssetStep, AssetCreate, AssetWrite, DisposeWrite, Keeps, GoesOnChecked, tables, chart
  <2>7. CASE SettingStep(r)
    BY <2>7, SettingReads
       DEF SettingStep, LookupKeep, SettingWrite, SettingClear, GoesOnChecked, tables, chart
  <2>8. CASE Abort(r)
    BY <2>8 DEF Abort, tables, chart
  <2> QED
    BY <1>1, <2>1, <2>2, <2>3, <2>4, <2>5, <2>6, <2>7, <2>8
<1>2. CASE FundCreate \/ CacheExpires \/ CodingNext
  BY <1>2 DEF FundCreate, CacheExpires, CodingNext, Raise, Approve, Post, chart
<1>3. CASE UNCHANGED vars
  BY <1>3 DEF vars, tables, chart
<1> QED
  BY <1>1, <1>2, <1>3 DEF Next

\* The opening balance of a head is set.
LEMMA OpeningIsSet ==
  ASSUME ChartIsATree, MastersInv, NEW h \in Heads, head[h] # Unborn, NEW opening,
         head' = [head EXCEPT ![h].opening = opening]
  PROVE  ChartIsATree'
<1>1. PICK old : old = head[h] /\ old \in HeadRow
  BY DEF MastersInv, TypeOK
<1>2. PICK row : row = [old EXCEPT !.opening = opening]
  OBVIOUS
<1>3. row.parent = old.parent
  BY <1>1, <1>2 DEF HeadRow
<1>4. head' = [head EXCEPT ![h] = row]
  BY <1>1, <1>2
<1> QED
  BY <1>1, <1>3, <1>4, TreeMoves

LEMMA TreeStep ==
  ASSUME MastersInv, ChartIsATree, Shallow, \A r \in Requests : Checked(request[r]), [Next]_vars
  PROVE  ChartIsATree'
<1>1. ASSUME NEW r \in Requests, HeadCreate(r) PROVE ChartIsATree'
  <2>1. PICK m : m = request[r]
    OBVIOUS
  <2>2. m \in Memory /\ Knows(m) /\ m.op = "createHead"
    BY <1>1, <2>1 DEF MastersInv, HeadCreate, At
  <2>3. m.body \in NewHead /\ (m.body.parent # Null => head[m.body.parent] # Unborn)
    BY <2>2, MemoryOf DEF Creating, Knows, Compatible
  <2>4. PICK row : row = New(m.body)
    OBVIOUS
  <2>5. row \in HeadRow /\ row.parent = m.body.parent
    BY <2>3, <2>4, NewRows
  <2>6. PICK h \in Heads : head[h] = Unborn /\ head' = [head EXCEPT ![h] = row]
    BY <1>1, <2>1, <2>4 DEF HeadCreate
  <2> QED
    BY <2>3, <2>5, <2>6, TreeGrows
<1>2. ASSUME NEW r \in Requests, HeadWrite(r) PROVE ChartIsATree'
  <2>1. PICK m : m = request[r]
    OBVIOUS
  <2>2. m \in Memory /\ Knows(m) /\ Checked(m) /\ m.op = "head" /\ m.pc = "write"
    BY <1>2, <2>1 DEF MastersInv, HeadWrite, At
  <2>3. m.id \in Heads /\ m.body \in HeadPatch /\ head[m.id] # Unborn /\ Walked(m)
    BY <2>2, MemoryOf DEF HeadMemory, Knows, Checked
  <2>4. PICK old : old = head[m.id] /\ old \in HeadRow
    BY <2>3 DEF MastersInv, TypeOK
  <2>5. PICK row : row = Patched(old, m.body)
    OBVIOUS
  <2>6. row.parent = IF m.body.parent # Keep THEN m.body.parent ELSE old.parent
    BY <2>3, <2>4, <2>5, PatchedHead
  <2>7. m.body.parent \notin {Keep, Null} => Clear(m.id, m.body.parent)
    BY <2>2, <2>3, NoWalkIsGivenUp DEF Walked
  <2>8. head' = [head EXCEPT ![m.id] = row]
    BY <1>2, <2>1, <2>4, <2>5 DEF HeadWrite
  <2> QED
    BY <2>3, <2>4, <2>6, <2>7, <2>8, TreeMoves
<1>3. ASSUME NEW r \in Requests, BankCreate(r) PROVE ChartIsATree'
  <2>1. PICK m : m = request[r]
    OBVIOUS
  <2>2. m \in Memory /\ Knows(m) /\ m.op = "createBank"
    BY <1>3, <2>1 DEF MastersInv, BankCreate, At
  <2>3. m.body.head \in Heads /\ head[m.body.head] # Unborn
    BY <2>2, MemoryOf DEF Creating, NewBank, Knows
  <2>4. CASE m.body.opening = 0
    BY <1>3, <2>1, <2>4, ParentsStand DEF BankCreate
  <2>5. CASE m.body.opening # 0
    BY <1>3, <2>1, <2>3, <2>5, OpeningIsSet DEF BankCreate
  <2> QED
    BY <2>4, <2>5
<1>4. ASSUME NEW r \in Requests, BankOpening(r) PROVE ChartIsATree'
  <2>1. PICK m : m = request[r]
    OBVIOUS
  <2>2. m \in Memory /\ Knows(m) /\ m.op = "bank"
    BY <1>4, <2>1 DEF MastersInv, BankOpening, At
  <2>3. m.id \in Banks /\ bank[m.id] # Unborn
    BY <2>2, MemoryOf DEF Updating, Knows
  <2>4. PICK h \in Heads : h = bank[m.id].head /\ head[h] # Unborn
    BY <2>3, BankHeads
  <2> QED
    BY <1>4, <2>1, <2>4, OpeningIsSet DEF BankOpening
<1>5. CASE ~\E r \in Requests : HeadCreate(r) \/ HeadWrite(r) \/ BankCreate(r) \/ BankOpening(r)
  BY <1>5, HeadStands, ParentsStand
<1> QED
  BY <1>1, <1>2, <1>3, <1>4, <1>5

\* As long as handlers follow one another, and no head is more than MaxDepth levels down, the
\* chart is a tree.  (assertNotADescendant, which gives up after so many levels.)
THEOREM TreeHolds == MCSpec /\ []Shallow => []TreeUntilOverlap
<1>1. MCInit => TreeUntilOverlap
  BY SeedTreeAssumption DEF MCInit, Init, TreeUntilOverlap, ChartIsATree
<1>2. Inv /\ Shallow /\ TreeUntilOverlap /\ [MCNext]_<<vars, overlapped>> => TreeUntilOverlap'
  <2> SUFFICES ASSUME Inv, Shallow, TreeUntilOverlap, [MCNext]_<<vars, overlapped>>, ~overlapped'
               PROVE  ChartIsATree'
    BY DEF TreeUntilOverlap
  <2>1. [Next]_vars /\ ~overlapped
    <3>1. CASE MCNext
      <4>1. Next /\ (overlapped' = (overlapped \/ Meanwhile \/ TwoBusy'))
        BY <3>1 DEF MCNext
      <4> QED
        BY <4>1, Zenon
    <3>2. CASE UNCHANGED <<vars, overlapped>>
      <4>1. vars' = vars /\ overlapped' = overlapped
        BY <3>2
      <4> QED
        BY <4>1, Zenon
    <3> QED
      BY <3>1, <3>2
  <2>2. MastersInv /\ ChartIsATree /\ \A r \in Requests : Checked(request[r])
    BY <2>1 DEF Inv, SerialInv, TreeUntilOverlap
  <2> QED
    BY <2>1, <2>2, TreeStep
<1> QED
  BY <1>1, <1>2, InvHolds, PTL DEF MCSpec

-----------------------------------------------------------------------------
(* Sums over finite sets *)

\* Of sets of parts of a finite set one is least.
LEMMA LeastPart ==
  ASSUME NEW S, IsFiniteSet(S), NEW P \in SUBSET SUBSET S, P # {}
  PROVE  \E T \in P : \A U \in P : U \subseteq T => U = T
<1>1. IsWellFoundedOn(StrictSubsetOrdering(S), FiniteSubsetsOf(S))
  BY FS_StrictSubsetOrderingWellFounded
<1>2. P \subseteq FiniteSubsetsOf(S)
  BY FS_FiniteSubsetsOfFinite
<1>3. PICK T \in P : \A U \in P : ~(<<U, T>> \in StrictSubsetOrdering(S))
  BY <1>1, <1>2, WFMin
<1>4. ASSUME NEW U \in P, U \subseteq T PROVE U = T
  BY <1>3, <1>4 DEF StrictSubsetOrdering
<1> QED
  BY <1>4

Picked(s) == CHOOSE x \in s : TRUE
Adds(f, g, S) ==
  g = [s \in SUBSET S |-> IF s = {} THEN 0 ELSE f[Picked(s)] + g[s \ {Picked(s)}]]

LEMMA PickedIsThere ==
  ASSUME NEW s, s # {} PROVE Picked(s) \in s
BY DEF Picked

LEMMA LeastNumber ==
  ASSUME NEW T \in SUBSET Nat, T # {}
  PROVE  \E x \in T : \A y \in T : x <= y
<1> DEFINE less == OpToRel(<, Nat)
<1>1. IsWellFoundedOn(less, Nat)
  BY NatLessThanWellFounded
<1>2. less = {ss \in Nat \X Nat : ss[1] < ss[2]}
  BY DEF OpToRel
<1> HIDE DEF less
<1>3. PICK x \in T : \A y \in T : ~(<<y, x>> \in less)
  BY <1>1, WFMin
<1>4. ASSUME NEW y \in T PROVE x <= y
  <2>1. <<y, x>> \in Nat \X Nat /\ <<y, x>>[1] = y /\ <<y, x>>[2] = x
    OBVIOUS
  <2>2. ~(y < x)
    BY <1>2, <1>3, <2>1
  <2> QED
    BY <2>2
<1> QED
  BY <1>4

UpTo(S, n) == {s \in SUBSET S : Cardinality(s) <= n}
AddsUpTo(f, g, S, n) ==
  g = [s \in UpTo(S, n) |-> IF s = {} THEN 0 ELSE f[Picked(s)] + g[s \ {Picked(s)}]]

\* The equations of a sum have a solution, for sets of any size.
LEMMA AddsExists ==
  ASSUME NEW f, NEW S, IsFiniteSet(S)
  PROVE  \E g : Adds(f, g, S)
<1> DEFINE P == {n \in Nat : ~\E g : AddsUpTo(f, g, S, n)}
<1>0. \A s \in SUBSET S : IsFiniteSet(s) /\ Cardinality(s) \in Nat
  BY FS_Subset, FS_CardinalityType
<1>1. ASSUME P # {} PROVE FALSE
  <2>1. PICK n \in P : \A m \in P : n <= m
    BY <1>1, LeastNumber
  <2>2. n # 0
    <3>1. ASSUME n = 0 PROVE FALSE
      <4>1. UpTo(S, 0) = {{}}
        BY <1>0, FS_EmptySet DEF UpTo
      <4>2. AddsUpTo(f, [s \in UpTo(S, 0) |-> 0], S, 0)
        BY <4>1 DEF AddsUpTo
      <4> QED
        BY <2>1, <3>1, <4>2
    <3> QED
      BY <3>1
  <2>3. PICK g : AddsUpTo(f, g, S, n - 1)
    BY <2>1, <2>2
  <2> DEFINE h == [s \in UpTo(S, n) |-> IF s = {} THEN 0 ELSE f[Picked(s)] + g[s \ {Picked(s)}]]
  <2>4. ASSUME NEW s \in UpTo(S, n), s # {}
        PROVE  h[s \ {Picked(s)}] = g[s \ {Picked(s)}]
    <3>1. s \ {Picked(s)} \in UpTo(S, n - 1) /\ s \ {Picked(s)} \in UpTo(S, n)
      <4>1. Picked(s) \in s
        BY <2>4, PickedIsThere
      <4>2. Cardinality(s \ {Picked(s)}) = Cardinality(s) - 1
        BY <1>0, <4>1, FS_RemoveElement DEF UpTo
      <4>3. s \ {Picked(s)} \in SUBSET S /\ Cardinality(s) <= n /\ n \in Nat /\ Cardinality(s) \in Nat
        BY <1>0 DEF UpTo
      <4> QED
        BY <4>2, <4>3 DEF UpTo
    <3> QED
      BY <2>3, <3>1 DEF AddsUpTo
  <2>5. AddsUpTo(f, h, S, n)
    BY <2>4 DEF AddsUpTo
  <2> QED
    BY <2>1, <2>5
<1>2. PICK g : AddsUpTo(f, g, S, Cardinality(S))
  BY <1>0, <1>1
<1>3. UpTo(S, Cardinality(S)) = SUBSET S
  BY FS_Subset DEF UpTo
<1> QED
  BY <1>2, <1>3 DEF AddsUpTo, Adds

LEMMA SumIs ==
  ASSUME NEW f, NEW S
  PROVE  SumFunctionOnSet(f, S) = (CHOOSE g : Adds(f, g, S))[S]
BY DEF SumFunctionOnSet, FoldFunctionOnSet, MapThenFoldSet, Adds, Picked

\* Two solutions agree where both are defined.
LEMMA AddsAgree ==
  ASSUME NEW f, NEW S, IsFiniteSet(S), NEW T \in SUBSET S, NEW g, NEW h, Adds(f, g, S), Adds(f, h, T)
  PROVE  \A s \in SUBSET T : g[s] = h[s]
<1>0. PICK P : P = {s \in SUBSET T : g[s] # h[s]}
  OBVIOUS
<1>1. ASSUME P # {} PROVE FALSE
  <2>0. IsFiniteSet(T) /\ P \in SUBSET SUBSET T
    BY <1>0, FS_Subset
  <2>1. PICK s \in P : \A U \in P : U \subseteq s => U = s
    BY <1>1, <2>0, LeastPart
  <2>2. s # {}
    BY <1>0, <2>1 DEF Adds
  <2>3. Picked(s) \in s
    BY <2>2, PickedIsThere
  <2>4. g[s \ {Picked(s)}] = h[s \ {Picked(s)}]
    BY <1>0, <2>1, <2>3
  <2> QED
    BY <1>0, <2>1, <2>2, <2>3, <2>4 DEF Adds
<1> QED
  BY <1>0, <1>1

LEMMA SumIsAny ==
  ASSUME NEW f, NEW S, IsFiniteSet(S), NEW T \in SUBSET S, NEW g, Adds(f, g, S)
  PROVE  SumFunctionOnSet(f, T) = g[T]
<1>1. IsFiniteSet(T) /\ T \in SUBSET T
  BY FS_Subset
<1>2. Adds(f, CHOOSE h : Adds(f, h, T), T)
  BY <1>1, AddsExists, Zenon
<1>3. \A h : Adds(f, h, T) => g[T] = h[T]
  BY <1>1, AddsAgree
<1>4. g[T] = (CHOOSE h : Adds(f, h, T))[T]
  BY <1>2, <1>3, Zenon
<1> QED
  BY <1>4, SumIs

LEMMA SumEmpty ==
  ASSUME NEW f PROVE SumFunctionOnSet(f, {}) = 0
<1>1. IsFiniteSet({})
  BY FS_EmptySet
<1>2. PICK g : Adds(f, g, {})
  BY <1>1, AddsExists
<1>3. SumFunctionOnSet(f, {}) = g[{}]
  BY <1>1, <1>2, SumIsAny
<1> QED
  BY <1>2, <1>3 DEF Adds

LEMMA SumPicked ==
  ASSUME NEW f, NEW S, IsFiniteSet(S), S # {}
  PROVE  SumFunctionOnSet(f, S) = f[Picked(S)] + SumFunctionOnSet(f, S \ {Picked(S)})
<1>1. PICK g : Adds(f, g, S)
  BY AddsExists
<1>2. SumFunctionOnSet(f, S) = g[S] /\ SumFunctionOnSet(f, S \ {Picked(S)}) = g[S \ {Picked(S)}]
  BY <1>1, SumIsAny
<1> QED
  BY <1>1, <1>2 DEF Adds

\* Whatever element is taken out first.
LEMMA SumRemove ==
  ASSUME NEW f, NEW S, IsFiniteSet(S), \A x \in S : f[x] \in Int
  PROVE  /\ SumFunctionOnSet(f, S) \in Int
         /\ \A x \in S : SumFunctionOnSet(f, S) = f[x] + SumFunctionOnSet(f, S \ {x})
<1> DEFINE Good(T) == /\ SumFunctionOnSet(f, T) \in Int
                      /\ \A x \in T : SumFunctionOnSet(f, T) = f[x] + SumFunctionOnSet(f, T \ {x})
<1>1. Good({})
  BY SumEmpty
<1>2. ASSUME NEW T \in SUBSET S, T # {}, \A U \in SUBSET T : U # T => Good(U)
      PROVE  Good(T)
  <2>1. PICK c \in T : c = Picked(T)
    BY <1>2, PickedIsThere
  <2>2. SumFunctionOnSet(f, T) = f[c] + SumFunctionOnSet(f, T \ {c})
    BY <1>2, <2>1, SumPicked, FS_Subset
  <2>3. ASSUME NEW x \in T PROVE Good(T \ {x})
    BY <1>2
  <2>4. \A x \in T : f[x] \in Int
    OBVIOUS
  <2>5. SumFunctionOnSet(f, T) \in Int
    BY <2>1, <2>2, <2>3, <2>4
  <2>6. ASSUME NEW x \in T, x # c
        PROVE  SumFunctionOnSet(f, T) = f[x] + SumFunctionOnSet(f, T \ {x})
    <3>1. SumFunctionOnSet(f, T \ {c}) = f[x] + SumFunctionOnSet(f, (T \ {c}) \ {x})
      BY <2>3, <2>6
    <3>2. SumFunctionOnSet(f, T \ {x}) = f[c] + SumFunctionOnSet(f, (T \ {c}) \ {x})
      <4>1. (T \ {c}) \ {x} = (T \ {x}) \ {c}
        OBVIOUS
      <4> QED
        BY <2>3, <2>6, <4>1
    <3>3. SumFunctionOnSet(f, (T \ {c}) \ {x}) \in Int
      <4>1. (T \ {c}) \ {x} \in SUBSET T /\ (T \ {c}) \ {x} # T
        OBVIOUS
      <4>2. Good((T \ {c}) \ {x})
        BY <1>2, <4>1
      <4> QED
        BY <4>2
    <3>4. f[x] \in Int /\ f[c] \in Int
      BY <2>4
    <3> HIDE DEF Good
    <3> QED
      BY <2>2, <3>1, <3>2, <3>3, <3>4
  <2> QED
    BY <2>1, <2>2, <2>5, <2>6
<1> HIDE DEF Good
<1>3. PICK P : P = {T \in SUBSET S : ~Good(T)}
  OBVIOUS
<1>4. ASSUME P # {} PROVE FALSE
  <2>1. PICK T \in P : \A U \in P : U \subseteq T => U = T
    BY <1>3, <1>4, LeastPart
  <2> QED
    BY <1>1, <1>2, <1>3, <2>1
<1>5. Good(S)
  BY <1>3, <1>4
<1> QED
  BY <1>5 DEF Good

LEMMA SumInt ==
  ASSUME NEW f, NEW S, IsFiniteSet(S), \A x \in S : f[x] \in Int
  PROVE  SumFunctionOnSet(f, S) \in Int
BY SumRemove

\* A sum is of the values on the set.
LEMMA SumSame ==
  ASSUME NEW f, NEW g, NEW S, IsFiniteSet(S), \A x \in S : f[x] \in Int /\ f[x] = g[x]
  PROVE  SumFunctionOnSet(f, S) = SumFunctionOnSet(g, S)
<1>1. PICK P : P = {T \in SUBSET S : SumFunctionOnSet(f, T) # SumFunctionOnSet(g, T)}
  OBVIOUS
<1>2. ASSUME P # {} PROVE FALSE
  <2>0. P \in SUBSET SUBSET S
    BY <1>1
  <2>1. PICK T \in P : \A U \in P : U \subseteq T => U = T
    BY <1>2, <2>0, LeastPart
  <2>2. PICK x \in T : TRUE
    BY <1>1, <2>1, SumEmpty
  <2>3. T \in SUBSET S /\ IsFiniteSet(T)
    BY <1>1, FS_Subset
  <2>4. SumFunctionOnSet(f, T \ {x}) = SumFunctionOnSet(g, T \ {x})
    BY <1>1, <2>1, <2>3
  <2>5. \A y \in T : f[y] \in Int /\ g[y] \in Int /\ f[y] = g[y]
    BY <2>3
  <2>6. /\ SumFunctionOnSet(f, T) = f[x] + SumFunctionOnSet(f, T \ {x})
        /\ SumFunctionOnSet(g, T) = g[x] + SumFunctionOnSet(g, T \ {x})
    BY <2>3, <2>5, SumRemove
  <2> QED
    BY <1>1, <2>1, <2>4, <2>5, <2>6
<1> QED
  BY <1>1, <1>2

\* A sum of nothing but zeros.
LEMMA SumZeros ==
  ASSUME NEW f, NEW S, IsFiniteSet(S), \A x \in S : f[x] = 0
  PROVE  SumFunctionOnSet(f, S) = 0
<1>1. PICK P : P = {T \in SUBSET S : SumFunctionOnSet(f, T) # 0}
  OBVIOUS
<1>2. ASSUME P # {} PROVE FALSE
  <2>0. P \in SUBSET SUBSET S
    BY <1>1
  <2>1. PICK T \in P : \A U \in P : U \subseteq T => U = T
    BY <1>2, <2>0, LeastPart
  <2>2. PICK x \in T : TRUE
    BY <1>1, <2>1, SumEmpty
  <2>3. T \in SUBSET S /\ IsFiniteSet(T)
    BY <1>1, FS_Subset
  <2>4. SumFunctionOnSet(f, T \ {x}) = 0
    BY <1>1, <2>1, <2>3
  <2>5. \A y \in T : f[y] \in Int /\ f[y] = 0
    BY <2>3
  <2>6. SumFunctionOnSet(f, T) = f[x] + SumFunctionOnSet(f, T \ {x})
    BY <2>3, <2>5, SumRemove
  <2> QED
    BY <1>1, <2>1, <2>4, <2>5, <2>6
<1> QED
  BY <1>1, <1>2

\* One value among zeros.
LEMMA SumOne ==
  ASSUME NEW f, NEW S, IsFiniteSet(S), NEW x \in S, f[x] \in Int, \A y \in S \ {x} : f[y] = 0
  PROVE  SumFunctionOnSet(f, S) = f[x]
<1>1. \A y \in S : f[y] \in Int
  OBVIOUS
<1>2. SumFunctionOnSet(f, S) = f[x] + SumFunctionOnSet(f, S \ {x})
  BY <1>1, SumRemove
<1>3. SumFunctionOnSet(f, S \ {x}) = 0
  BY SumZeros, FS_Subset
<1> QED
  BY <1>2, <1>3

\* Two sets that have nothing in common.
LEMMA SumUnion ==
  ASSUME NEW f, NEW S, IsFiniteSet(S), NEW R, IsFiniteSet(R), S \cap R = {},
         \A x \in S \cup R : f[x] \in Int
  PROVE  SumFunctionOnSet(f, S \cup R) = SumFunctionOnSet(f, S) + SumFunctionOnSet(f, R)
<1>1. PICK P : P = {T \in SUBSET S :
          SumFunctionOnSet(f, T \cup R) # SumFunctionOnSet(f, T) + SumFunctionOnSet(f, R)}
  OBVIOUS
<1>2. ASSUME P # {} PROVE FALSE
  <2>0. P \in SUBSET SUBSET S
    BY <1>1
  <2>1. PICK T \in P : \A U \in P : U \subseteq T => U = T
    BY <1>2, <2>0, LeastPart
  <2>2. T # {}
    <3>1. {} \cup R = R
      OBVIOUS
    <3>2. SumFunctionOnSet(f, R) \in Int
      BY SumInt
    <3>3. SumFunctionOnSet(f, {} \cup R) = SumFunctionOnSet(f, {}) + SumFunctionOnSet(f, R)
      BY <3>1, <3>2, SumEmpty
    <3> QED
      BY <1>1, <2>1, <3>3
  <2>3. PICK x \in T : TRUE
    BY <2>2
  <2>4. T \in SUBSET S /\ IsFiniteSet(T) /\ IsFiniteSet(T \cup R) /\ IsFiniteSet(T \ {x})
    BY <1>1, FS_Subset, FS_Union
  <2>5. SumFunctionOnSet(f, (T \ {x}) \cup R) = SumFunctionOnSet(f, T \ {x}) + SumFunctionOnSet(f, R)
    BY <1>1, <2>1, <2>4
  <2>6. (T \cup R) \ {x} = (T \ {x}) \cup R
    BY <2>4
  <2>7. SumFunctionOnSet(f, T \cup R) = f[x] + SumFunctionOnSet(f, (T \cup R) \ {x})
    BY <2>4, SumRemove
  <2>8. SumFunctionOnSet(f, T) = f[x] + SumFunctionOnSet(f, T \ {x})
    BY <2>4, SumRemove
  <2>9. SumFunctionOnSet(f, T \ {x}) \in Int /\ SumFunctionOnSet(f, R) \in Int /\ f[x] \in Int
    BY <2>4, SumInt
  <2>10. SumFunctionOnSet(f, T \cup R) = SumFunctionOnSet(f, T) + SumFunctionOnSet(f, R)
    <3>1. PICK t, r, y : t = SumFunctionOnSet(f, T \ {x}) /\ r = SumFunctionOnSet(f, R) /\ y = f[x]
      OBVIOUS
    <3>2. t \in Int /\ r \in Int /\ y \in Int
      BY <2>9, <3>1
    <3>3. SumFunctionOnSet(f, T \cup R) = y + (t + r)
      BY <2>5, <2>6, <2>7, <3>1
    <3>4. SumFunctionOnSet(f, T) = y + t
      BY <2>8, <3>1
    <3>5. y + (t + r) = (y + t) + r
      BY <3>2
    <3> QED
      BY <3>1, <3>3, <3>4, <3>5
  <2> QED
    BY <1>1, <2>1, <2>10
<1> QED
  BY <1>1, <1>2

\* The same values, under other names.
LEMMA SumRenamed ==
  ASSUME NEW f, NEW g, NEW S, NEW R, IsFiniteSet(S), NEW p \in Bijection(S, R),
         \A x \in S : f[x] \in Int /\ f[x] = g[p[x]]
  PROVE  SumFunctionOnSet(f, S) = SumFunctionOnSet(g, R)
<1>0. /\ p \in [S -> R]
      /\ \A x, y \in S : p[x] = p[y] => x = y
      /\ \A z \in R : \E x \in S : p[x] = z
  BY DEF Bijection, Injection, Surjection, IsInjective
<1>1. PICK P : P = {T \in SUBSET S :
          SumFunctionOnSet(f, T) # SumFunctionOnSet(g, {p[x] : x \in T})}
  OBVIOUS
<1>2. ASSUME P # {} PROVE FALSE
  <2>0. P \in SUBSET SUBSET S
    BY <1>1
  <2>1. PICK T \in P : \A U \in P : U \subseteq T => U = T
    BY <1>2, <2>0, LeastPart
  <2>2. T # {}
    <3>1. {p[x] : x \in {}} = {}
      OBVIOUS
    <3> QED
      BY <1>1, <2>1, <3>1, SumEmpty
  <2>3. PICK x \in T : TRUE
    BY <2>2
  <2>4. T \in SUBSET S /\ IsFiniteSet(T)
    BY <1>1, FS_Subset
  <2>5. SumFunctionOnSet(f, T \ {x}) = SumFunctionOnSet(g, {p[y] : y \in T \ {x}})
    BY <1>1, <2>1, <2>4
  <2>6. {p[y] : y \in T \ {x}} = {p[y] : y \in T} \ {p[x]}
    BY <1>0, <2>4
  <2>7. SumFunctionOnSet(f, T) = f[x] + SumFunctionOnSet(f, T \ {x})
    BY <2>4, SumRemove
  <2>8. IsFiniteSet({p[y] : y \in T})
    <3>1. [y \in T |-> p[y]] \in Surjection(T, {p[y] : y \in T})
      BY DEF Surjection
    <3> QED
      BY <2>4, <3>1, FS_Surjection
  <2>9. SumFunctionOnSet(g, {p[y] : y \in T}) = g[p[x]] + SumFunctionOnSet(g, {p[y] : y \in T} \ {p[x]})
    <3>1. \A z \in {p[y] : y \in T} : g[z] \in Int
      BY <2>4
    <3>2. p[x] \in {p[y] : y \in T}
      OBVIOUS
    <3> QED
      BY <2>8, <3>1, <3>2, SumRemove
  <2>10. f[x] = g[p[x]]
    BY <2>4
  <2> QED
    BY <1>1, <2>1, <2>5, <2>6, <2>7, <2>9, <2>10
<1>3. {p[x] : x \in S} = R
  BY <1>0
<1> QED
  BY <1>1, <1>2, <1>3

\* Each of S is in one part.
Splits(part, C, S) ==
  /\ \A c \in C : part[c] \in SUBSET S
  /\ \A x \in S : \E c \in C : x \in part[c]
  /\ \A c, d \in C : \A x \in S : x \in part[c] /\ x \in part[d] => c = d

\* Summed part by part.
LEMMA SumByParts ==
  ASSUME NEW f, NEW S, IsFiniteSet(S), NEW C, IsFiniteSet(C), NEW part, Splits(part, C, S), NEW g,
         \A x \in S : f[x] \in Int,
         \A c \in C : g[c] = SumFunctionOnSet(f, part[c])
  PROVE  SumFunctionOnSet(g, C) = SumFunctionOnSet(f, S)
<1>1. /\ \A c \in C : part[c] \in SUBSET S
      /\ \A x \in S : \E c \in C : x \in part[c]
      /\ \A c, d \in C : \A x \in S : x \in part[c] /\ x \in part[d] => c = d
  BY DEF Splits
<1>2. \A c \in C : IsFiniteSet(part[c]) /\ g[c] \in Int
  <2>1. ASSUME NEW c \in C PROVE IsFiniteSet(part[c]) /\ SumFunctionOnSet(f, part[c]) \in Int
    <3>1. part[c] \in SUBSET S /\ \A x \in part[c] : f[x] \in Int
      BY <1>1
    <3> QED
      BY <3>1, FS_Subset, SumInt
  <2> QED
    BY <2>1
<1>3. PICK P : P = {D \in SUBSET C :
          SumFunctionOnSet(g, D) # SumFunctionOnSet(f, {x \in S : \E c \in D : x \in part[c]})}
  OBVIOUS
<1>4. ASSUME P # {} PROVE FALSE
  <2>0. P \in SUBSET SUBSET C
    BY <1>3
  <2>1. PICK D \in P : \A U \in P : U \subseteq D => U = D
    BY <1>4, <2>0, LeastPart
  <2>2. D # {}
    <3>1. {x \in S : \E c \in {} : x \in part[c]} = {}
      OBVIOUS
    <3>2. SumFunctionOnSet(g, {}) = SumFunctionOnSet(f, {x \in S : \E c \in {} : x \in part[c]})
      BY <3>1, SumEmpty
    <3> QED
      BY <1>3, <3>2
  <2>3. PICK c \in D : TRUE
    BY <2>2
  <2>4. D \in SUBSET C /\ IsFiniteSet(D)
    BY <1>3, FS_Subset
  <2>5. PICK A, B : A = {x \in S : \E d \in D : x \in part[d]}
                    /\ B = {x \in S : \E d \in D \ {c} : x \in part[d]}
    OBVIOUS
  <2>6. SumFunctionOnSet(g, D \ {c}) = SumFunctionOnSet(f, B)
    <3>1. D \ {c} \in SUBSET C /\ D \ {c} \subseteq D /\ D \ {c} # D
      BY <2>4
    <3> QED
      BY <1>3, <2>1, <2>5, <3>1
  <2>7. SumFunctionOnSet(g, D) = g[c] + SumFunctionOnSet(g, D \ {c})
    <3>1. \A d \in D : g[d] \in Int
      BY <1>2, <2>4
    <3> QED
      BY <2>4, <3>1, SumRemove
  <2>8. SumFunctionOnSet(f, A) = SumFunctionOnSet(f, part[c]) + SumFunctionOnSet(f, B)
    <3>1. A = part[c] \cup B /\ part[c] \cap B = {} /\ part[c] \in SUBSET S /\ B \in SUBSET S
      BY <1>1, <2>4, <2>5
    <3>2. IsFiniteSet(part[c]) /\ IsFiniteSet(B) /\ \A x \in part[c] \cup B : f[x] \in Int
      BY <3>1, FS_Subset
    <3> QED
      BY <3>1, <3>2, SumUnion
  <2>9. g[c] = SumFunctionOnSet(f, part[c])
    BY <2>4
  <2>10. SumFunctionOnSet(g, D) = SumFunctionOnSet(f, A)
    BY <2>6, <2>7, <2>8, <2>9
  <2> QED
    BY <1>3, <2>1, <2>5, <2>10
<1>5. {x \in S : \E c \in C : x \in part[c]} = S
  BY <1>1
<1> QED
  BY <1>3, <1>4, <1>5

-----------------------------------------------------------------------------
(* The lines of a voucher *)

Increasing(at, I) ==
  /\ at \in [1..Cardinality(I) -> I]
  /\ \A m, n \in 1..Cardinality(I) : m < n => at[m] < at[n]

\* Any set of line numbers can be written down first to last.
LEMMA OrderExists ==
  ASSUME NEW N \in Nat, NEW I \in SUBSET (1..N)
  PROVE  \E at : Increasing(at, I)
<1>0. IsFiniteSet(1..N)
  BY FS_Interval
<1>1. PICK P : P = {T \in SUBSET (1..N) : ~\E at : Increasing(at, T)}
  OBVIOUS
<1>2. ASSUME P # {} PROVE FALSE
  <2>0. P \in SUBSET SUBSET (1..N)
    BY <1>1
  <2>1. PICK T \in P : \A U \in P : U \subseteq T => U = T
    <3>1. PICK S : S = 1..N
      OBVIOUS
    <3>2. IsFiniteSet(S) /\ P \in SUBSET SUBSET S
      BY <1>0, <2>0, <3>1
    <3> QED
      BY <1>2, <3>2, LeastPart
  <2>2. T \in SUBSET (1..N) /\ T \in SUBSET Nat
    BY <1>1
  <2>3. IsFiniteSet(T)
    BY <1>0, <2>2, FS_Subset, Zenon
  <2>4. T # {}
    <3>1. Increasing([m \in 1..0 |-> m], {})
      BY FS_EmptySet DEF Increasing
    <3> QED
      BY <1>1, <2>1, <3>1
  <2>5. PICK x \in T : \A y \in T : x <= y
    BY <2>2, <2>4, LeastNumber
  <2>6. PICK at : Increasing(at, T \ {x})
    <3>1. T \ {x} \in SUBSET (1..N) /\ T \ {x} \subseteq T /\ T \ {x} # T
      BY <2>2
    <3> QED
      BY <1>1, <2>1, <3>1, Zenon
  <2>7. Cardinality(T) \in Nat /\ Cardinality(T \ {x}) = Cardinality(T) - 1
    BY <2>3, FS_RemoveElement, FS_CardinalityType
  <2>8. PICK c \in Nat : c = Cardinality(T)
    BY <2>7
  <2>9. /\ at \in [1..(c - 1) -> T \ {x}]
        /\ \A m, n \in 1..(c - 1) : m < n => at[m] < at[n]
    BY <2>6, <2>7, <2>8 DEF Increasing
  <2>10. PICK new : new = [m \in 1..c |-> IF m = 1 THEN x ELSE at[m - 1]]
    OBVIOUS
  <2>11. \A m \in 1..c : m # 1 => m - 1 \in 1..(c - 1)
    OBVIOUS
  <2>12. \A m \in 1..c : new[m] \in T /\ (m # 1 => new[m] = at[m - 1] /\ new[m] \in T \ {x})
    BY <2>9, <2>10, <2>11
  <2>13. \A y \in T \ {x} : x < y
    BY <2>2, <2>5
  <2>14. ASSUME NEW m \in 1..c, NEW n \in 1..c, m < n PROVE new[m] < new[n]
    <3>1. n # 1 /\ new[n] = at[n - 1] /\ n - 1 \in 1..(c - 1)
      BY <2>11, <2>12, <2>14
    <3>2. CASE m = 1
      BY <2>10, <2>12, <2>13, <3>1, <3>2
    <3>3. CASE m # 1
      <4>1. new[m] = at[m - 1] /\ m - 1 \in 1..(c - 1) /\ m - 1 < n - 1
        BY <2>11, <2>12, <2>14, <3>3
      <4> QED
        BY <2>9, <3>1, <4>1
    <3> QED
      BY <3>2, <3>3
  <2>15. Increasing(new, T)
    BY <2>8, <2>10, <2>12, <2>14 DEF Increasing
  <2> QED
    BY <1>1, <2>1, <2>15
<1> QED
  BY <1>1, <1>2

\* Then each of them has its one place.
LEMMA OrderIs ==
  ASSUME NEW N \in Nat, NEW I \in SUBSET (1..N)
  PROVE  Cardinality(I) \in Nat /\ InOrder(I) \in Bijection(1..Cardinality(I), I)
<1>1. PICK at : at = InOrder(I)
  OBVIOUS
<1>2. Increasing(at, I)
  <2>1. \E a \in [1..Cardinality(I) -> I] :
          \A m, n \in 1..Cardinality(I) : m < n => a[m] < a[n]
    BY OrderExists, Zenon DEF Increasing
  <2> QED
    BY <1>1, <2>1, Zenon DEF InOrder, Increasing
<1>3. IsFiniteSet(I) /\ Cardinality(I) \in Nat
  <2>1. IsFiniteSet(1..N)
    BY FS_Interval
  <2>2. IsFiniteSet(I)
    BY <2>1, FS_Subset, Zenon
  <2> QED
    BY <2>2, FS_CardinalityType
<1>4. PICK c \in Nat : c = Cardinality(I)
  BY <1>3
<1>5. IsFiniteSet(1..c) /\ Cardinality(1..c) = c
  BY FS_Interval
<1>6. at \in Injection(1..c, I)
  <2>1. \A m, n \in 1..c : at[m] \in Int /\ (m < n => at[m] < at[n])
    <3>1. at \in [1..c -> I] /\ \A m, n \in 1..c : m < n => at[m] < at[n]
      BY <1>2, <1>4 DEF Increasing
    <3>2. \A m \in 1..c : at[m] \in I /\ at[m] \in 1..N
      BY <3>1
    <3> QED
      BY <3>1, <3>2
  <2>2. \A m, n \in 1..c : at[m] = at[n] => m = n
    <3>1. ASSUME NEW m \in 1..c, NEW n \in 1..c, m # n PROVE at[m] # at[n]
      <4>1. m < n \/ n < m
        BY <3>1
      <4> QED
        BY <2>1, <4>1
    <3> QED
      BY <3>1
  <2> QED
    BY <1>2, <1>4, <2>2 DEF Increasing, Injection, IsInjective
<1>7. at \in Surjection(1..c, I)
  BY <1>3, <1>4, <1>5, <1>6, FS_Injection
<1> QED
  BY <1>1, <1>3, <1>4, <1>6, <1>7 DEF Bijection

Sides == {"debit", "credit"}

\* What the lines come to, and the ledger lines on one side.
AmountOf(lines) == [i \in DOMAIN lines |-> lines[i].amount]
OnSide(lines, side) == [i \in DOMAIN lines |-> lines[i][side]]

LEMMA LinesAreFinite ==
  ASSUME NEW S, NEW lines \in Seq(S)
  PROVE  /\ Len(lines) \in Nat /\ DOMAIN lines = 1..Len(lines)
         /\ IsFiniteSet(DOMAIN lines)
         /\ \A I \in SUBSET DOMAIN lines : IsFiniteSet(I)
<1>1. Len(lines) \in Nat /\ DOMAIN lines = 1..Len(lines)
  OBVIOUS
<1>2. IsFiniteSet(DOMAIN lines)
  BY <1>1, FS_Interval
<1> QED
  BY <1>1, <1>2, FS_Subset, Zenon

LEMMA SumLinesIs ==
  ASSUME NEW lines \in Seq(VoucherLine), NEW I \in SUBSET DOMAIN lines
  PROVE  /\ SumLines(lines, I) = SumFunctionOnSet(AmountOf(lines), I)
         /\ SumLines(lines, I) \in Int
         /\ \A i \in DOMAIN lines : AmountOf(lines)[i] \in Int /\ AmountOf(lines)[i] = lines[i].amount
<1>1. \A i \in DOMAIN lines : AmountOf(lines)[i] = lines[i].amount /\ AmountOf(lines)[i] \in Int
  <2>1. \A i \in DOMAIN lines : lines[i] \in VoucherLine
    OBVIOUS
  <2>2. \A l \in VoucherLine : l.amount \in Int
    BY DEF VoucherLine
  <2> QED
    BY <2>1, <2>2 DEF AmountOf
<1>2. PICK f : f = [i \in I |-> lines[i].amount]
  OBVIOUS
<1>3. IsFiniteSet(I) /\ \A i \in I : f[i] \in Int /\ f[i] = AmountOf(lines)[i]
  BY <1>1, <1>2, LinesAreFinite
<1>4. SumFunctionOnSet(f, I) = SumFunctionOnSet(AmountOf(lines), I) /\ SumFunctionOnSet(f, I) \in Int
  BY <1>3, SumSame, SumInt
<1> QED
  BY <1>1, <1>2, <1>4 DEF SumLines

LEMMA TotalIs ==
  ASSUME NEW S, NEW lines \in Seq(S), NEW I \in SUBSET DOMAIN lines, NEW side,
         \A i \in DOMAIN lines : lines[i][side] \in Int
  PROVE  /\ Total(lines, I, side) = SumFunctionOnSet(OnSide(lines, side), I)
         /\ Total(lines, I, side) \in Int
<1>1. \A i \in DOMAIN lines : OnSide(lines, side)[i] = lines[i][side]
  BY DEF OnSide
<1>2. PICK f : f = [i \in I |-> lines[i][side]]
  OBVIOUS
<1>3. IsFiniteSet(I) /\ \A i \in I : f[i] \in Int /\ f[i] = OnSide(lines, side)[i]
  BY <1>1, <1>2, LinesAreFinite
<1>4. SumFunctionOnSet(f, I) = SumFunctionOnSet(OnSide(lines, side), I) /\ SumFunctionOnSet(f, I) \in Int
  BY <1>3, SumSame, SumInt
<1> QED
  BY <1>2, <1>4 DEF Total

LEMMA TotalOfNothing ==
  ASSUME NEW S, NEW lines \in Seq(S), NEW I \in SUBSET DOMAIN lines, NEW side,
         \A i \in DOMAIN lines : lines[i][side] = 0
  PROVE  Total(lines, I, side) = 0
<1>1. \A i \in I : OnSide(lines, side)[i] = 0
  BY DEF OnSide
<1>2. IsFiniteSet(I) /\ \A i \in DOMAIN lines : lines[i][side] \in Int
  BY LinesAreFinite
<1> QED
  BY <1>1, <1>2, TotalIs, SumZeros

\* Two legs of a voucher come to what each comes to.
LEMMA TotalOfBoth ==
  ASSUME NEW S, NEW a \in Seq(S), NEW b \in Seq(S), NEW side,
         \A i \in DOMAIN a : a[i][side] \in Int, \A i \in DOMAIN b : b[i][side] \in Int,
         NEW I \in SUBSET DOMAIN a, NEW J \in SUBSET DOMAIN b, NEW K \in SUBSET DOMAIN (a \o b),
         \A i \in DOMAIN a : i \in K <=> i \in I,
         \A j \in DOMAIN b : (Len(a) + j) \in K <=> j \in J
  PROVE  Total(a \o b, K, side) = Total(a, I, side) + Total(b, J, side)
<1>0. PICK m, n, c : m = Len(a) /\ n = Len(b) /\ c = a \o b
  OBVIOUS
<1>1. /\ m \in Nat /\ n \in Nat
      /\ c \in Seq(S) /\ DOMAIN c = 1..(m + n) /\ DOMAIN a = 1..m /\ DOMAIN b = 1..n
      /\ \A i \in 1..m : c[i] = a[i]
      /\ \A j \in 1..n : c[m + j] = b[j]
  BY <1>0
<1>2. \A i \in 1..(m + n) : i \in 1..m \/ (i - m \in 1..n /\ m + (i - m) = i)
  BY <1>1
<1>3. \A i \in DOMAIN c : c[i][side] \in Int
  <2>1. ASSUME NEW i \in DOMAIN c PROVE c[i][side] \in Int
    <3>1. CASE i \in 1..m
      BY <1>1, <3>1
    <3>2. CASE i - m \in 1..n /\ m + (i - m) = i
      <4>1. c[i] = b[i - m] /\ i - m \in DOMAIN b
        BY <1>1, <3>2
      <4> QED
        BY <4>1
    <3> QED
      BY <1>1, <1>2, <2>1, <3>1, <3>2
  <2> QED
    BY <2>1
<1>4. PICK L : L = {m + j : j \in J}
  OBVIOUS
<1>5. K = I \cup L /\ I \cap L = {} /\ I \in SUBSET DOMAIN c /\ L \in SUBSET DOMAIN c
  <2>1. I \in SUBSET (1..m) /\ J \in SUBSET (1..n) /\ K \in SUBSET (1..(m + n))
    BY <1>0, <1>1
  <2>2. \A j \in J : m + j \in 1..(m + n) /\ m + j \notin 1..m /\ m + j \in K
    BY <1>0, <1>1, <2>1
  <2>3. \A i \in I : i \in 1..(m + n) /\ i \in K
    BY <1>1, <2>1
  <2>4. \A k \in K : k \in I \/ k \in L
    <3>1. ASSUME NEW k \in K PROVE k \in I \/ k \in L
      <4>1. CASE k \in 1..m
        BY <1>1, <4>1
      <4>2. CASE k - m \in 1..n /\ m + (k - m) = k
        BY <1>0, <1>1, <1>4, <4>2
      <4> QED
        BY <1>2, <2>1, <4>1, <4>2
    <3> QED
      BY <3>1
  <2> QED
    BY <1>1, <1>4, <2>1, <2>2, <2>3, <2>4
<1>6. PICK f, g, h : f = OnSide(a, side) /\ g = OnSide(b, side) /\ h = OnSide(c, side)
  OBVIOUS
<1>7. /\ \A i \in DOMAIN a : f[i] = a[i][side]
      /\ \A i \in DOMAIN b : g[i] = b[i][side]
      /\ \A i \in DOMAIN c : h[i] = c[i][side]
  BY <1>6 DEF OnSide
<1>8. IsFiniteSet(I) /\ IsFiniteSet(J) /\ IsFiniteSet(L)
  BY <1>1, <1>5, LinesAreFinite
<1>9. SumFunctionOnSet(h, K) = SumFunctionOnSet(h, I) + SumFunctionOnSet(h, L)
  <2>1. \A x \in I \cup L : h[x] \in Int
    BY <1>3, <1>5, <1>7
  <2> QED
    BY <1>5, <1>8, <2>1, SumUnion
<1>10. SumFunctionOnSet(h, I) = SumFunctionOnSet(f, I)
  <2>1. \A x \in I : h[x] \in Int /\ h[x] = f[x]
    BY <1>1, <1>3, <1>5, <1>7
  <2> QED
    BY <1>8, <2>1, SumSame
<1>11. SumFunctionOnSet(g, J) = SumFunctionOnSet(h, L)
  <2>1. PICK p : p = [j \in J |-> m + j]
    OBVIOUS
  <2>2. J \in SUBSET Nat
    BY <1>1
  <2>3. p \in Bijection(J, L)
    <3>1. p \in [J -> L] /\ \A l \in L : \E j \in J : p[j] = l
      BY <1>4, <2>1
    <3>2. \A j, k \in J : p[j] = p[k] => j = k
      BY <1>1, <2>1, <2>2
    <3> QED
      BY <3>1, <3>2 DEF Bijection, Injection, Surjection, IsInjective
  <2>4. \A j \in J : g[j] \in Int /\ g[j] = h[p[j]]
    <3>1. ASSUME NEW j \in J PROVE g[j] \in Int /\ g[j] = h[p[j]]
      <4>1. j \in DOMAIN b /\ p[j] = m + j /\ m + j \in DOMAIN c /\ c[m + j] = b[j]
        BY <1>1, <1>4, <1>5, <2>1
      <4> QED
        BY <1>7, <4>1
    <3> QED
      BY <3>1
  <2> QED
    BY <1>8, <2>3, <2>4, SumRenamed
<1>12. /\ Total(c, K, side) = SumFunctionOnSet(h, K)
       /\ Total(a, I, side) = SumFunctionOnSet(f, I)
       /\ Total(b, J, side) = SumFunctionOnSet(g, J)
  <2>1. K \in SUBSET DOMAIN c
    BY <1>0
  <2> QED
    BY <1>1, <1>3, <1>6, <2>1, TotalIs
<1> QED
  BY <1>0, <1>9, <1>10, <1>11, <1>12

\* Ledger lines of one side: a sequence, with nothing on the other.
Leg(lines, side) ==
  /\ \E n \in Nat : lines = [i \in 1..n |-> lines[i]]
  /\ \A i \in DOMAIN lines : /\ lines[i][side] \in Int
                             /\ \A other \in Sides \ {side} : lines[i][other] = 0

LEMMA PostingIs ==
  ASSUME NEW h, NEW f, NEW p, NEW side \in Sides, NEW amount, NEW b
  PROVE  /\ Posting(h, f, p, side, amount, b).fund = f
         /\ Posting(h, f, p, side, amount, b)[side] = amount
         /\ \A other \in Sides \ {side} : Posting(h, f, p, side, amount, b)[other] = 0
<1>1. CASE side = "debit"
  BY <1>1 DEF Posting, Sides
<1>2. CASE side = "credit"
  BY <1>2 DEF Posting, Sides
<1> QED
  BY <1>1, <1>2 DEF Sides

LEMMA LegsAreSequences ==
  ASSUME NEW a, NEW b, NEW m \in Nat, NEW n \in Nat,
         a = [i \in 1..m |-> a[i]], b = [i \in 1..n |-> b[i]]
  PROVE  \E S : a \in Seq(S) /\ b \in Seq(S)
<1>1. PICK S : S = {a[i] : i \in 1..m} \cup {b[i] : i \in 1..n}
  OBVIOUS
<1>2. \A i \in 1..m : a[i] \in S
  BY <1>1
<1>3. \A i \in 1..n : b[i] \in S
  BY <1>1
<1>4. a \in [1..m -> S] /\ b \in [1..n -> S]
  BY <1>2, <1>3
<1>5. a \in Seq(S) /\ b \in Seq(S)
  BY <1>4
<1> QED
  BY <1>5

\* A voucher of two legs comes to its legs, in all and in each fund.
LEMMA TwoLegs ==
  ASSUME NEW a, NEW b, NEW s \in Sides, NEW t \in Sides, s # t, Leg(a, s), Leg(b, t)
  PROVE  /\ Total(a \o b, DOMAIN (a \o b), s) = Total(a, DOMAIN a, s)
         /\ Total(a \o b, DOMAIN (a \o b), t) = Total(b, DOMAIN b, t)
         /\ \A f : /\ Total(a \o b, OfFund(a \o b, f), s) = Total(a, OfFund(a, f), s)
                   /\ Total(a \o b, OfFund(a \o b, f), t) = Total(b, OfFund(b, f), t)
<1>1. PICK m \in Nat, n \in Nat : a = [i \in 1..m |-> a[i]] /\ b = [i \in 1..n |-> b[i]]
  BY DEF Leg
<1>2. PICK S : a \in Seq(S) /\ b \in Seq(S)
  BY <1>1, LegsAreSequences
<1>3. PICK c : c = a \o b
  OBVIOUS
<1>4. /\ DOMAIN a = 1..m /\ DOMAIN b = 1..n /\ Len(a) = m /\ DOMAIN c = 1..(m + n)
      /\ \A i \in 1..m : c[i] = a[i]
      /\ \A j \in 1..n : c[m + j] = b[j]
  BY <1>1, <1>2, <1>3
<1>5. /\ \A i \in DOMAIN a : a[i][s] \in Int /\ a[i][t] = 0 /\ a[i][t] \in Int
      /\ \A i \in DOMAIN b : b[i][t] \in Int /\ b[i][s] = 0 /\ b[i][s] \in Int
  BY DEF Leg
<1>6. ASSUME NEW I \in SUBSET DOMAIN a, NEW J \in SUBSET DOMAIN b, NEW K \in SUBSET DOMAIN c,
             \A i \in DOMAIN a : i \in K <=> i \in I,
             \A j \in DOMAIN b : (Len(a) + j) \in K <=> j \in J
      PROVE  Total(c, K, s) = Total(a, I, s) /\ Total(c, K, t) = Total(b, J, t)
  <2>1. /\ Total(c, K, s) = Total(a, I, s) + Total(b, J, s)
        /\ Total(c, K, t) = Total(a, I, t) + Total(b, J, t)
    <3>1. K \in SUBSET DOMAIN (a \o b)
      BY <1>3
    <3>2. ASSUME NEW side, side \in {s, t}
          PROVE  Total(a \o b, K, side) = Total(a, I, side) + Total(b, J, side)
      <4>1. \A i \in DOMAIN a : a[i][side] \in Int
        BY <1>5, <3>2
      <4>2. \A i \in DOMAIN b : b[i][side] \in Int
        BY <1>5, <3>2
      <4> QED
        BY <1>2, <1>6, <3>1, <4>1, <4>2, TotalOfBoth
    <3> QED
      BY <1>3, <3>2
  <2>2. Total(b, J, s) = 0 /\ Total(a, I, t) = 0
    BY <1>2, <1>5, TotalOfNothing
  <2>3. Total(a, I, s) \in Int /\ Total(b, J, t) \in Int
    BY <1>2, <1>5, TotalIs
  <2> QED
    BY <2>1, <2>2, <2>3
<1>7. Total(c, DOMAIN c, s) = Total(a, DOMAIN a, s) /\ Total(c, DOMAIN c, t) = Total(b, DOMAIN b, t)
  <2>1. \A i \in DOMAIN a : i \in DOMAIN c <=> i \in DOMAIN a
    BY <1>4
  <2>2. \A j \in DOMAIN b : (Len(a) + j) \in DOMAIN c <=> j \in DOMAIN b
    BY <1>4
  <2>3. DOMAIN a \in SUBSET DOMAIN a /\ DOMAIN b \in SUBSET DOMAIN b /\ DOMAIN c \in SUBSET DOMAIN c
    OBVIOUS
  <2> QED
    BY <1>6, <2>1, <2>2, <2>3
<1>8. ASSUME NEW f
      PROVE  /\ Total(c, OfFund(c, f), s) = Total(a, OfFund(a, f), s)
             /\ Total(c, OfFund(c, f), t) = Total(b, OfFund(b, f), t)
  <2>1. PICK I, J, K : I = OfFund(a, f) /\ J = OfFund(b, f) /\ K = OfFund(c, f)
    OBVIOUS
  <2>2. I \in SUBSET DOMAIN a /\ J \in SUBSET DOMAIN b /\ K \in SUBSET DOMAIN c
    BY <2>1 DEF OfFund
  <2>3. \A i \in DOMAIN a : i \in K <=> i \in I
    BY <1>4, <2>1 DEF OfFund
  <2>4. \A j \in DOMAIN b : (Len(a) + j) \in K <=> j \in J
    BY <1>4, <2>1 DEF OfFund
  <2>5. Total(c, K, s) = Total(a, I, s) /\ Total(c, K, t) = Total(b, J, t)
    BY <1>6, <2>2, <2>3, <2>4
  <2> QED
    BY <2>1, <2>5
<1> QED
  BY <1>3, <1>7, <1>8

\* The heads of the lines are credited or debited line by line.
LEMMA CodingLeg ==
  ASSUME NEW body \in VoucherBody, NEW side \in Sides
  PROVE  /\ Leg(CodingLines(body, side), side)
         /\ Total(CodingLines(body, side), DOMAIN CodingLines(body, side), side)
              = SumLines(body.lines, DOMAIN body.lines)
         /\ \A f : Total(CodingLines(body, side), OfFund(CodingLines(body, side), f), side)
                     = SumLines(body.lines, OfFund(body.lines, f))
<1>1. PICK lines, c : lines = body.lines /\ c = CodingLines(body, side)
  OBVIOUS
<1>2. lines \in Seq(VoucherLine)
  BY <1>1 DEF VoucherBody
<1>3. /\ c = [i \in DOMAIN lines |-> c[i]] /\ DOMAIN c = DOMAIN lines
      /\ \A i \in DOMAIN lines :
           c[i] = Posting(lines[i].head, lines[i].fund, lines[i].project, side, lines[i].amount,
                          BankAt(body.kind, lines[i].head))
  BY <1>1, Zenon DEF CodingLines
<1>4. \A i \in DOMAIN lines : /\ c[i].fund = lines[i].fund /\ c[i][side] = lines[i].amount
                              /\ \A other \in Sides \ {side} : c[i][other] = 0
  BY <1>3, PostingIs
<1>5. \A i \in DOMAIN lines : AmountOf(lines)[i] \in Int /\ AmountOf(lines)[i] = lines[i].amount
  BY <1>2, SumLinesIs
<1>6. PICK n \in Nat : DOMAIN lines = 1..n
  BY <1>2, LinesAreFinite
<1>7. Leg(c, side)
  BY <1>3, <1>4, <1>5, <1>6 DEF Leg
<1>8. ASSUME NEW I \in SUBSET DOMAIN lines PROVE Total(c, I, side) = SumLines(lines, I)
  <2>1. PICK S : c \in Seq(S)
    BY <1>3, <1>6, LegsAreSequences
  <2>2. Total(c, I, side) = SumFunctionOnSet(OnSide(c, side), I)
    BY <1>3, <1>4, <1>5, <2>1, TotalIs
  <2>3. \A i \in I : OnSide(c, side)[i] = AmountOf(lines)[i] /\ OnSide(c, side)[i] \in Int
    BY <1>3, <1>4, <1>5 DEF OnSide
  <2>4. IsFiniteSet(I)
    BY <1>2, LinesAreFinite
  <2>5. SumFunctionOnSet(OnSide(c, side), I) = SumFunctionOnSet(AmountOf(lines), I)
    BY <2>3, <2>4, SumSame
  <2> QED
    BY <1>2, <2>2, <2>5, SumLinesIs
<1>9. \A f : OfFund(c, f) = OfFund(lines, f) /\ OfFund(lines, f) \in SUBSET DOMAIN lines
  BY <1>3, <1>4 DEF OfFund
<1>10. DOMAIN lines \in SUBSET DOMAIN lines
  OBVIOUS
<1> QED
  BY <1>1, <1>3, <1>7, <1>8, <1>9, <1>10

\* The lines that first name their fund.
Firsts(lines) == {i \in DOMAIN lines : \A j \in 1..(i - 1) : lines[j].fund # lines[i].fund}

LEMMA OneFirstPerFund ==
  ASSUME NEW S, NEW lines \in Seq(S)
  PROVE  /\ \A i, j \in Firsts(lines) : lines[i].fund = lines[j].fund => i = j
         /\ \A i \in DOMAIN lines : \E j \in Firsts(lines) : lines[j].fund = lines[i].fund
<1>1. PICK n \in Nat : DOMAIN lines = 1..n
  BY LinesAreFinite
<1>2. ASSUME NEW i \in Firsts(lines), NEW j \in Firsts(lines), lines[i].fund = lines[j].fund
      PROVE  i = j
  <2>1. i \in 1..n /\ j \in 1..n
    BY <1>1 DEF Firsts
  <2>2. ~(i < j) /\ ~(j < i)
    <3>1. i < j => i \in 1..(j - 1)
      BY <2>1
    <3>2. j < i => j \in 1..(i - 1)
      BY <2>1
    <3> QED
      BY <1>2, <3>1, <3>2 DEF Firsts
  <2> QED
    BY <2>1, <2>2
<1>3. ASSUME NEW i \in DOMAIN lines
      PROVE  \E j \in Firsts(lines) : lines[j].fund = lines[i].fund
  <2>1. PICK T : T = {j \in DOMAIN lines : lines[j].fund = lines[i].fund}
    OBVIOUS
  <2>2. T \in SUBSET Nat /\ T # {} /\ T \in SUBSET (1..n)
    BY <1>1, <2>1
  <2>3. PICK j \in T : \A k \in T : j <= k
    BY <2>2, LeastNumber
  <2>4. \A k \in 1..(j - 1) : k \in 1..n /\ ~(j <= k)
    BY <2>2
  <2>5. \A k \in 1..(j - 1) : lines[k].fund # lines[j].fund
    BY <1>1, <2>1, <2>3, <2>4
  <2> QED
    BY <2>1, <2>5 DEF Firsts
<1> QED
  BY <1>2, <1>3

\* The cash or bank head takes the other side, in one line for each fund.
LEMMA ContraLeg ==
  ASSUME NEW body \in VoucherBody, NEW side \in Sides
  PROVE  /\ Leg(ContraLines(body, side), side)
         /\ Total(ContraLines(body, side), DOMAIN ContraLines(body, side), side)
              = SumLines(body.lines, DOMAIN body.lines)
         /\ \A f : Total(ContraLines(body, side), OfFund(ContraLines(body, side), f), side)
                     = SumLines(body.lines, OfFund(body.lines, f))
<1>1. PICK lines, c, first, k :
        /\ lines = body.lines /\ c = ContraLines(body, side)
        /\ first = InOrder(Firsts(lines)) /\ k = Cardinality(Firsts(lines))
  OBVIOUS
<1>2. lines \in Seq(VoucherLine)
  BY <1>1 DEF VoucherBody
<1>3. PICK n \in Nat : DOMAIN lines = 1..n
  BY <1>2, LinesAreFinite
<1>4. k \in Nat /\ first \in Bijection(1..k, Firsts(lines))
  <2>1. Firsts(lines) \in SUBSET (1..n)
    BY <1>3 DEF Firsts
  <2> QED
    BY <1>1, <2>1, OrderIs
<1>5. /\ DOMAIN first = 1..k
      /\ \A m \in 1..k : first[m] \in Firsts(lines) /\ first[m] \in DOMAIN lines
      /\ \A i \in Firsts(lines) : \E m \in 1..k : first[m] = i
      /\ \A l, m \in 1..k : first[l] = first[m] => l = m
  BY <1>4 DEF Bijection, Injection, Surjection, IsInjective, Firsts
<1>6. c = [m \in DOMAIN first |->
             Posting(SourceHead(body), lines[first[m]].fund, Null, side,
                     SumLines(lines, OfFund(lines, lines[first[m]].fund)), body.bank)]
  BY <1>1, Zenon DEF ContraLines, Firsts
<1>7. /\ DOMAIN c = 1..k /\ c = [m \in 1..k |-> c[m]]
      /\ \A m \in 1..k :
           /\ c[m].fund = lines[first[m]].fund
           /\ c[m][side] = SumLines(lines, OfFund(lines, lines[first[m]].fund))
           /\ \A other \in Sides \ {side} : c[m][other] = 0
  BY <1>5, <1>6, PostingIs
<1>8. \A f : OfFund(lines, f) \in SUBSET DOMAIN lines
  BY DEF OfFund
<1>9. \A f : SumLines(lines, OfFund(lines, f)) \in Int
  BY <1>2, <1>8, SumLinesIs
<1>10. Leg(c, side)
  BY <1>4, <1>7, <1>9 DEF Leg
<1>11. \A l, m \in 1..k : lines[first[l]].fund = lines[first[m]].fund => l = m
  BY <1>2, <1>5, OneFirstPerFund
<1>12. \A i \in DOMAIN lines : \E m \in 1..k : lines[first[m]].fund = lines[i].fund
  <2>1. ASSUME NEW i \in DOMAIN lines PROVE \E m \in 1..k : lines[first[m]].fund = lines[i].fund
    <3>1. PICK j \in Firsts(lines) : lines[j].fund = lines[i].fund
      BY <1>2, OneFirstPerFund
    <3>2. PICK m \in 1..k : first[m] = j
      BY <1>5
    <3> QED
      BY <3>1, <3>2
  <2> QED
    BY <2>1
<1>13. PICK S : c \in Seq(S)
  BY <1>4, <1>7, LegsAreSequences
<1>14. \A m \in 1..k : OnSide(c, side)[m] = c[m][side] /\ c[m][side] \in Int
  BY <1>7, <1>9 DEF OnSide
<1>15. Total(c, DOMAIN c, side) = SumLines(lines, DOMAIN lines)
  <2>1. PICK D, f, g, C, part :
          /\ D = DOMAIN lines /\ f = AmountOf(lines) /\ C = 1..k /\ g = OnSide(c, side)
          /\ part = [m \in 1..k |-> OfFund(lines, lines[first[m]].fund)]
    OBVIOUS
  <2>2. IsFiniteSet(D) /\ IsFiniteSet(C)
    BY <1>2, <1>4, <2>1, LinesAreFinite, FS_Interval
  <2>3. \A i \in D : f[i] \in Int
    BY <1>2, <2>1, SumLinesIs
  <2>4. \A m \in C : part[m] \in SUBSET D
    BY <1>8, <2>1
  <2>5. \A i \in D : \A m \in C : i \in part[m] <=> lines[i].fund = lines[first[m]].fund
    BY <2>1 DEF OfFund
  <2>6. \A i \in D : \E m \in C : i \in part[m]
    BY <1>12, <2>1, <2>5
  <2>7. \A l, m \in C : \A i \in D : i \in part[l] /\ i \in part[m] => l = m
    BY <1>11, <2>1, <2>5
  <2>8. \A m \in C : g[m] = SumFunctionOnSet(f, part[m])
    <3>1. ASSUME NEW m \in 1..k
          PROVE  OnSide(c, side)[m] = SumFunctionOnSet(AmountOf(lines), OfFund(lines, lines[first[m]].fund))
      BY <1>2, <1>7, <1>8, <1>14, SumLinesIs
    <3> QED
      BY <2>1, <3>1
  <2>9. DOMAIN lines \in SUBSET DOMAIN lines /\ DOMAIN c \in SUBSET DOMAIN c
    OBVIOUS
  <2>10. Total(c, DOMAIN c, side) = SumFunctionOnSet(g, C)
    BY <1>7, <1>13, <1>14, <2>1, <2>9, TotalIs
  <2>11. Splits(part, C, D)
    BY <2>4, <2>6, <2>7 DEF Splits
  <2>12. SumFunctionOnSet(g, C) = SumFunctionOnSet(f, D)
    BY <2>2, <2>3, <2>8, <2>11, SumByParts
  <2>13. SumLines(lines, DOMAIN lines) = SumFunctionOnSet(f, D)
    BY <1>2, <2>1, <2>9, SumLinesIs
  <2> QED
    BY <2>10, <2>12, <2>13
<1>16. ASSUME NEW f PROVE Total(c, OfFund(c, f), side) = SumLines(lines, OfFund(lines, f))
  <2>1. OfFund(c, f) \in SUBSET DOMAIN c
    BY DEF OfFund
  <2>2. Total(c, OfFund(c, f), side) = SumFunctionOnSet(OnSide(c, side), OfFund(c, f))
    BY <1>7, <1>13, <1>14, <2>1, TotalIs
  <2>3. CASE \E m \in 1..k : lines[first[m]].fund = f
    <3>1. PICK m \in 1..k : lines[first[m]].fund = f
      BY <2>3
    <3>2. OfFund(c, f) = {m}
      <4>1. \A l \in 1..k : c[l].fund = f <=> l = m
        BY <1>7, <1>11, <3>1
      <4>2. \A l : l \in OfFund(c, f) <=> l = m
        BY <1>7, <3>1, <4>1 DEF OfFund
      <4> QED
        BY <4>2
    <3>3. SumFunctionOnSet(OnSide(c, side), {m}) = OnSide(c, side)[m]
      <4>1. IsFiniteSet({m})
        BY FS_Singleton
      <4> QED
        BY <1>14, <4>1, SumOne
    <3> QED
      BY <1>7, <1>14, <2>2, <3>1, <3>2, <3>3
  <2>4. CASE ~\E m \in 1..k : lines[first[m]].fund = f
    <3>1. OfFund(c, f) = {} /\ OfFund(lines, f) = {}
      <4>1. \A l \in 1..k : c[l].fund # f
        BY <1>7, <2>4
      <4>2. \A i \in DOMAIN lines : lines[i].fund # f
        BY <1>12, <2>4
      <4> QED
        BY <1>7, <4>1, <4>2, Zenon DEF OfFund
    <3>2. SumLines(lines, {}) = 0
      BY <1>2, SumLinesIs, SumEmpty
    <3> QED
      BY <2>2, <3>1, <3>2, SumEmpty
  <2> QED
    BY <2>3, <2>4
<1> QED
  BY <1>1, <1>10, <1>15, <1>16

\* The lines of a journal are posted as written, one side after the other.
LEMMA WrittenLeg ==
  ASSUME NEW body \in VoucherBody, NEW side \in Sides
  PROVE  /\ Leg(AsWritten(body, side), side)
         /\ Total(AsWritten(body, side), DOMAIN AsWritten(body, side), side)
              = SumLines(body.lines, On(body.lines, side))
<1>1. PICK lines, c, at, k, I :
        /\ lines = body.lines /\ c = AsWritten(body, side) /\ I = On(lines, side)
        /\ at = InOrder(I) /\ k = Cardinality(I)
  OBVIOUS
<1>2. lines \in Seq(VoucherLine)
  BY <1>1 DEF VoucherBody
<1>3. I \in SUBSET DOMAIN lines
  BY <1>1 DEF On
<1>4. k \in Nat /\ at \in Bijection(1..k, I)
  <2>1. PICK n \in Nat : DOMAIN lines = 1..n
    BY <1>2, LinesAreFinite
  <2>2. I \in SUBSET (1..n)
    BY <1>3, <2>1
  <2> QED
    BY <1>1, <2>2, OrderIs
<1>5. DOMAIN at = 1..k /\ \A m \in 1..k : at[m] \in I /\ at[m] \in DOMAIN lines
  BY <1>3, <1>4 DEF Bijection, Injection, Surjection
<1>6. c = [m \in DOMAIN at |->
             Posting(lines[at[m]].head, lines[at[m]].fund, lines[at[m]].project, side,
                     lines[at[m]].amount, Null)]
  BY <1>1, Zenon DEF AsWritten
<1>7. /\ DOMAIN c = 1..k /\ c = [m \in 1..k |-> c[m]]
      /\ \A m \in 1..k : /\ c[m][side] = lines[at[m]].amount
                         /\ \A other \in Sides \ {side} : c[m][other] = 0
  BY <1>5, <1>6, PostingIs
<1>8. \A i \in DOMAIN lines : AmountOf(lines)[i] \in Int /\ AmountOf(lines)[i] = lines[i].amount
  BY <1>2, SumLinesIs
<1>9. \A m \in 1..k : c[m][side] \in Int /\ c[m][side] = AmountOf(lines)[at[m]]
  BY <1>5, <1>7, <1>8
<1>10. Leg(c, side)
  BY <1>4, <1>7, <1>9 DEF Leg
<1>11. Total(c, DOMAIN c, side) = SumLines(lines, I)
  <2>1. PICK S : c \in Seq(S)
    BY <1>4, <1>7, LegsAreSequences
  <2>2. DOMAIN c \in SUBSET DOMAIN c
    OBVIOUS
  <2>3. PICK D : D = 1..k
    OBVIOUS
  <2>4. Total(c, D, side) = SumFunctionOnSet(OnSide(c, side), D)
    BY <1>7, <1>9, <2>1, <2>2, <2>3, TotalIs
  <2>5. \A m \in D : OnSide(c, side)[m] \in Int /\ OnSide(c, side)[m] = AmountOf(lines)[at[m]]
    BY <1>7, <1>9, <2>3 DEF OnSide
  <2>6. IsFiniteSet(D) /\ at \in Bijection(D, I)
    BY <1>4, <2>3, FS_Interval
  <2>7. SumFunctionOnSet(OnSide(c, side), D) = SumFunctionOnSet(AmountOf(lines), I)
    BY <2>5, <2>6, SumRenamed
  <2> QED
    BY <1>2, <1>3, <1>7, <2>3, <2>4, <2>7, SumLinesIs
<1> QED
  BY <1>1, <1>10, <1>11

\* The two legs of a voucher balance when they come to as much.
LEMMA LegsBalance ==
  ASSUME NEW a, NEW b, NEW s \in Sides, NEW t \in Sides, s # t, Leg(a, s), Leg(b, t)
  PROVE  /\ Total(a, DOMAIN a, s) = Total(b, DOMAIN b, t) =>
              Balanced(a \o b) /\ Total(a \o b, DOMAIN (a \o b), "debit") = Total(a, DOMAIN a, s)
         /\ \A f : Total(a, OfFund(a, f), s) = Total(b, OfFund(b, f), t) =>
              BalancedOver(a \o b, OfFund(a \o b, f))
<1>1. (s = "debit" /\ t = "credit") \/ (s = "credit" /\ t = "debit")
  BY DEF Sides
<1> QED
  BY <1>1, TwoLegs DEF Balanced, BalancedOver

\* What a voucher of a good shape will post balances, comes to its amount and, unless it
\* is a journal, balances in each fund.  (buildPostingLines, journalIsBalanced.)
LEMMA GoodShapeBalances ==
  ASSUME NEW body \in VoucherBody, Shapely(body)
  PROVE  /\ Balanced(PostingLines(body))
         /\ Total(PostingLines(body), DOMAIN PostingLines(body), "debit") = VoucherTotal(body)
         /\ body.kind # "journal" =>
              \A f : BalancedOver(PostingLines(body), OfFund(PostingLines(body), f))
<1>0. "debit" \in Sides /\ "credit" \in Sides /\ "debit" # "credit"
  BY DEF Sides
<1>1. CASE body.kind = "journal"
  <2>1. PICK a, b : a = AsWritten(body, "debit") /\ b = AsWritten(body, "credit")
    OBVIOUS
  <2>2. PostingLines(body) = a \o b
    BY <1>1, <2>1 DEF PostingLines, JournalLines
  <2>3. /\ Leg(a, "debit") /\ Leg(b, "credit")
        /\ Total(a, DOMAIN a, "debit") = SumLines(body.lines, On(body.lines, "debit"))
        /\ Total(b, DOMAIN b, "credit") = SumLines(body.lines, On(body.lines, "credit"))
    BY <1>0, <2>1, WrittenLeg
  <2>4. SumLines(body.lines, On(body.lines, "debit")) = SumLines(body.lines, On(body.lines, "credit"))
    BY <1>1 DEF Shapely, JournalIsBalanced
  <2>5. VoucherTotal(body) = SumLines(body.lines, On(body.lines, "debit"))
    BY <1>1 DEF VoucherTotal
  <2> QED
    BY <1>0, <1>1, <2>2, <2>3, <2>4, <2>5, LegsBalance
<1>2. CASE body.kind # "journal"
  <2>1. VoucherTotal(body) = SumLines(body.lines, DOMAIN body.lines)
    BY <1>2 DEF VoucherTotal
  <2>2. ASSUME NEW s \in Sides, NEW t \in Sides, s # t, NEW a, NEW b,
               \/ a = CodingLines(body, s) /\ b = ContraLines(body, t)
               \/ a = ContraLines(body, s) /\ b = CodingLines(body, t)
        PROVE  /\ Balanced(a \o b)
               /\ Total(a \o b, DOMAIN (a \o b), "debit") = VoucherTotal(body)
               /\ \A f : BalancedOver(a \o b, OfFund(a \o b, f))
    <3>1. /\ Leg(a, s) /\ Leg(b, t)
          /\ Total(a, DOMAIN a, s) = SumLines(body.lines, DOMAIN body.lines)
          /\ Total(b, DOMAIN b, t) = SumLines(body.lines, DOMAIN body.lines)
          /\ \A f : /\ Total(a, OfFund(a, f), s) = SumLines(body.lines, OfFund(body.lines, f))
                    /\ Total(b, OfFund(b, f), t) = SumLines(body.lines, OfFund(body.lines, f))
      BY <2>2, CodingLeg, ContraLeg
    <3> QED
      BY <2>1, <2>2, <3>1, LegsBalance
  <2>3. CASE body.kind = "receipt"
    <3>1. PostingLines(body) = ContraLines(body, "debit") \o CodingLines(body, "credit")
      BY <2>3 DEF PostingLines
    <3> QED
      BY <1>0, <2>2, <3>1
  <2>4. CASE body.kind # "receipt"
    <3>1. PostingLines(body) = CodingLines(body, "debit") \o ContraLines(body, "credit")
      BY <1>2, <2>4 DEF PostingLines
    <3> QED
      BY <1>0, <2>2, <3>1
  <2> QED
    BY <2>3, <2>4
<1> QED
  BY <1>1, <1>2

-----------------------------------------------------------------------------
(* What is raised balances, and what is posted did *)

LedgerLines(lines) ==
  /\ \E n \in Nat : lines = [i \in 1..n |-> lines[i]]
  /\ \A i \in DOMAIN lines, side \in Sides : lines[i][side] \in Int

\* Lines that balance, come to the amount of the voucher and keep to its funds.
Serves(lines, body) ==
  /\ LedgerLines(lines)
  /\ Balanced(lines)
  /\ Total(lines, DOMAIN lines, "debit") = VoucherTotal(body)
  /\ body.kind # "journal" => \A f : BalancedOver(lines, OfFund(lines, f))

\* A voucher was raised with a good body, which stays; nothing is posted before its time.
Raised(row) ==
  /\ row = [status |-> row.status, body |-> row.body, amount |-> row.amount,
            entries |-> row.entries]
  /\ row.status \in {"Draft", "Approved", "Posted"}
  /\ row.body \in VoucherBody /\ Shapely(row.body)
  /\ row.amount = VoucherTotal(row.body)
  /\ IF row.status = "Posted" THEN Serves(row.entries, row.body) ELSE row.entries = <<>>

VouchersInv ==
  /\ voucher = [v \in Vouchers |-> voucher[v]]
  /\ \A v \in Vouchers :
       IF voucher[v].status = "Absent" THEN voucher[v].entries = <<>> ELSE Raised(voucher[v])

LEMMA PostingLinesServe ==
  ASSUME NEW body \in VoucherBody, Shapely(body)
  PROVE  Serves(PostingLines(body), body)
<1>1. LedgerLines(PostingLines(body))
  <2>1. ASSUME NEW a, NEW b, NEW s \in Sides, NEW t \in Sides, s # t, Leg(a, s), Leg(b, t)
        PROVE  LedgerLines(a \o b)
    <3>1. PICK m \in Nat, n \in Nat : a = [i \in 1..m |-> a[i]] /\ b = [i \in 1..n |-> b[i]]
      BY <2>1 DEF Leg
    <3>2. PICK S : a \in Seq(S) /\ b \in Seq(S)
      BY <3>1, LegsAreSequences
    <3>3. PICK c : c = a \o b
      OBVIOUS
    <3>4. /\ DOMAIN a = 1..m /\ DOMAIN b = 1..n /\ DOMAIN c = 1..(m + n)
          /\ c = [i \in 1..(m + n) |-> c[i]]
          /\ \A i \in 1..m : c[i] = a[i]
          /\ \A j \in 1..n : c[m + j] = b[j]
      <4>1. Len(a) = m /\ Len(b) = n /\ DOMAIN a = 1..m /\ DOMAIN b = 1..n
        BY <3>1, <3>2
      <4>2. c \in Seq(S) /\ DOMAIN c = 1..(m + n)
        <5>1. c \in Seq(S)
          BY <3>2, <3>3
        <5>2. Len(c) = Len(a) + Len(b)
          BY <3>2, <3>3
        <5>3. DOMAIN c = 1..Len(c)
          BY <5>1
        <5> QED
          BY <4>1, <5>1, <5>2, <5>3
      <4>3. \A i \in 1..m : c[i] = a[i]
        BY <3>2, <3>3, <4>1
      <4>4. \A j \in 1..n : c[m + j] = b[j]
        BY <3>2, <3>3, <4>1
      <4>5. c = [i \in 1..(m + n) |-> c[i]]
        BY <4>2
      <4> QED
        BY <4>1, <4>2, <4>3, <4>4, <4>5
    <3>5. \A side \in Sides : side = s \/ side = t
      BY <2>1 DEF Sides
    <3>6. /\ \A i \in 1..m, side \in Sides : a[i][side] \in Int
          /\ \A i \in 1..n, side \in Sides : b[i][side] \in Int
      BY <2>1, <3>4, <3>5 DEF Leg
    <3>7. ASSUME NEW i \in 1..(m + n), NEW side \in Sides PROVE c[i][side] \in Int
      <4>1. i \in 1..m \/ (i - m \in 1..n /\ m + (i - m) = i)
        OBVIOUS
      <4>2. CASE i \in 1..m
        BY <3>4, <3>6, <4>2
      <4>3. CASE i - m \in 1..n /\ m + (i - m) = i
        <5>1. c[i] = b[i - m]
          BY <3>4, <4>3
        <5> QED
          BY <3>6, <4>3, <5>1
      <4> QED
        BY <4>1, <4>2, <4>3
    <3>8. m + n \in Nat
      OBVIOUS
    <3> QED
      BY <3>3, <3>4, <3>7, <3>8 DEF LedgerLines
  <2>2. "debit" \in Sides /\ "credit" \in Sides /\ "debit" # "credit"
    BY DEF Sides
  <2> QED
    BY <2>1, <2>2, WrittenLeg, CodingLeg, ContraLeg DEF PostingLines, JournalLines
<1> QED
  BY <1>1, GoodShapeBalances DEF Serves

LEMMA VouchersStart ==
  ASSUME Init PROVE VouchersInv
BY DEF Init, VouchersInv

\* Nothing but the vouchers' own handlers touches them.
LEMMA VouchersStand ==
  ASSUME [Next]_vars, ~CodingNext
  PROVE  voucher' = voucher
<1>1. CASE UNCHANGED vars
  BY <1>1 DEF vars, tables
<1>2. ASSUME NEW r \in Requests, HeadStep(r) PROVE voucher' = voucher
  <2>1. CASE HeadCreate(r) \/ HeadWrite(r)
    BY <2>1 DEF HeadCreate, HeadWrite
  <2>2. CASE ~(HeadCreate(r) \/ HeadWrite(r))
    <3>1. tables' = tables
      BY <1>2, <2>2 DEF HeadStep, HeadCreateLoad, HeadLoad, HeadParent, HeadWalk, HeadOpening,
                        HeadPostable, HeadActive
    <3> QED
      BY <3>1 DEF tables
  <2> QED
    BY <2>1, <2>2
<1>3. ASSUME NEW r \in Requests, BankStep(r) PROVE voucher' = voucher
  BY <1>3 DEF BankStep, BankCreateLoad, BankCreateFree, BankCreateCount, BankCreate, BankLoad,
              BankCount, BankOpening, BankWrite, tables
<1>4. ASSUME NEW r \in Requests, FundStep(r) \/ ProjectStep(r) \/ ActivityStep(r)
      PROVE  voucher' = voucher
  BY <1>4 DEF FundStep, FundLoad, FundOpening, FundActive, FundWrite,
              ProjectStep, ProjectCreateLoad, ProjectCreate, ProjectLoad, ProjectCount,
              ProjectFund, ProjectWrite,
              ActivityStep, ActivityLoad, ActivityFund, ActivityProject, ActivityWrite, tables
<1>5. ASSUME NEW r \in Requests, AssetStep(r) PROVE voucher' = voucher
  BY <1>5 DEF AssetStep, AssetCreateLoad, AssetCreate, AssetLoad, AssetFund, AssetWrite,
              DisposeLoad, DisposeWrite, Keeps, tables
<1>6. ASSUME NEW r \in Requests, SettingStep(r) \/ Abort(r) PROVE voucher' = voucher
  BY <1>6 DEF SettingStep, LookupLoad, LookupKeep, SettingLoad, SettingCash, SettingDeposit,
              SettingApart, SettingRead, SettingWrite, SettingClear, Abort, tables
<1>7. CASE FundCreate \/ CacheExpires
  BY <1>7 DEF FundCreate, CacheExpires
<1> QED
  BY <1>1, <1>2, <1>3, <1>4, <1>5, <1>6, <1>7 DEF Next

LEMMA VouchersStep ==
  ASSUME VouchersInv, [Next]_vars
  PROVE  VouchersInv'
<1>1. ASSUME NEW v \in Vouchers, NEW row, voucher' = [voucher EXCEPT ![v] = row],
             row.status # "Absent", Raised(row)
      PROVE  VouchersInv'
  <2>1. /\ voucher' = [w \in Vouchers |-> voucher'[w]]
        /\ \A w \in Vouchers : voucher'[w] = IF w = v THEN row ELSE voucher[w]
    BY <1>1 DEF VouchersInv
  <2> QED
    BY <1>1, <2>1 DEF VouchersInv, Raised
<1>2. CASE Raise
  <2>1. PICK v \in Vouchers, body \in Offers.voucher :
          /\ ValidCoding(body)
          /\ voucher' = [voucher EXCEPT ![v] =
               [status |-> "Draft", body |-> body, amount |-> VoucherTotal(body), entries |-> <<>>]]
    BY <1>2 DEF Raise
  <2>2. body \in VoucherBody /\ Shapely(body)
    BY <2>1, VouchersAssumption DEF ValidCoding
  <2>3. Raised([status |-> "Draft", body |-> body, amount |-> VoucherTotal(body), entries |-> <<>>])
    BY <2>2 DEF Raised
  <2> QED
    BY <1>1, <2>1, <2>3
<1>3. CASE Approve
  <2>1. PICK v \in Vouchers :
          /\ voucher[v].status = "Draft"
          /\ voucher' = [voucher EXCEPT ![v].status = "Approved"]
    BY <1>3 DEF Approve
  <2>2. PICK old, row : old = voucher[v] /\ row = [old EXCEPT !.status = "Approved"]
    OBVIOUS
  <2>3. Raised(old)
    BY <2>1, <2>2 DEF VouchersInv
  <2>4. row = [status |-> "Approved", body |-> old.body, amount |-> old.amount, entries |-> <<>>]
    BY <2>1, <2>2, <2>3 DEF Raised
  <2>5. Raised(row) /\ row.status # "Absent"
    BY <2>3, <2>4 DEF Raised
  <2>6. voucher' = [voucher EXCEPT ![v] = row]
    BY <2>1, <2>2
  <2> QED
    BY <1>1, <2>5, <2>6
<1>4. CASE Post
  <2>1. PICK v \in Vouchers :
          /\ voucher[v].status = "Approved"
          /\ voucher' = [voucher EXCEPT ![v].status = "Posted",
                                        ![v].entries = PostingLines(voucher[v].body)]
    BY <1>4 DEF Post
  <2>2. PICK old, lines : old = voucher[v] /\ lines = PostingLines(old.body)
    OBVIOUS
  <2>3. Raised(old)
    BY <2>1, <2>2 DEF VouchersInv
  <2>4. PICK row : row = [status |-> "Posted", body |-> old.body, amount |-> old.amount, entries |-> lines]
    OBVIOUS
  <2>5. Serves(lines, old.body)
    BY <2>2, <2>3, PostingLinesServe DEF Raised
  <2>6. Raised(row) /\ row.status # "Absent"
    BY <2>3, <2>4, <2>5 DEF Raised
  <2>7. voucher' = [voucher EXCEPT ![v] = row]
    <3>1. PICK s, b, a, e : old = [status |-> s, body |-> b, amount |-> a, entries |-> e]
      BY <2>3 DEF Raised
    <3>2. row = [status |-> "Posted", body |-> b, amount |-> a, entries |-> lines]
      BY <2>4, <3>1
    <3>3. PICK half : half = [old EXCEPT !.status = "Posted"]
      OBVIOUS
    <3>4. half = [status |-> "Posted", body |-> b, amount |-> a, entries |-> e]
      BY <3>1, <3>3
    <3>5. [half EXCEPT !.entries = lines] = row
      BY <3>2, <3>4
    <3>6. row = [old EXCEPT !.status = "Posted", !.entries = lines]
      BY <3>3, <3>5
    <3> QED
      BY <2>1, <2>2, <3>6
  <2> QED
    BY <1>1, <2>6, <2>7
<1>5. CASE ~CodingNext
  BY <1>5, VouchersStand DEF VouchersInv
<1> QED
  BY <1>2, <1>3, <1>4, <1>5 DEF CodingNext

\* What a raised voucher will post balances and comes to its amount, and unless it is
\* a journal balances in every fund: the trigger at commit never fires, and the cash
\* of a restricted fund stays with it.  (buildPostingLines, journalIsBalanced.)
THEOREM PostingsBalanceHolds == Spec => []PostingsBalance
<1>1. VouchersInv => PostingsBalance
  <2>1. ASSUME VouchersInv, NEW v \in Vouchers, voucher[v].status # "Absent"
        PROVE  /\ Serves(PostingLines(voucher[v].body), voucher[v].body)
               /\ voucher[v].amount = VoucherTotal(voucher[v].body)
    <3>1. Raised(voucher[v])
      BY <2>1 DEF VouchersInv
    <3> QED
      BY <3>1, PostingLinesServe DEF Raised
  <2> QED
    BY <2>1 DEF PostingsBalance, Serves
<1> QED
  BY <1>1, VouchersStart, VouchersStep, PTL DEF Spec

\* What entries of the ledger come to on a side.
LedgerSum(E, side) == SumFunctionOnSet([e \in E |-> Line(e)[side]], E)

\* The entries in a fund, journals aside.
PaidIn(f) == {e \in EntriesIn(f) : voucher[e[1]].body.kind # "journal"}

TrialBalance == LedgerSum(Entries, "debit") = LedgerSum(Entries, "credit")

FundsBalance == \A f \in Funds : LedgerSum(PaidIn(f), "debit") = LedgerSum(PaidIn(f), "credit")

LEMMA EntriesAreLedgerLines ==
  ASSUME VouchersInv, NEW v \in Vouchers
  PROVE  LedgerLines(voucher[v].entries)
<1>1. CASE voucher[v].entries = <<>>
  <2>1. <<>> = [i \in 1..0 |-> <<>>[i]] /\ DOMAIN <<>> = {}
    OBVIOUS
  <2> QED
    BY <1>1, <2>1 DEF LedgerLines
<1>2. CASE voucher[v].entries # <<>>
  BY <1>2 DEF VouchersInv, Raised, Serves
<1> QED
  BY <1>1, <1>2

\* Entries come to what the vouchers they are of put among them.
LEMMA LedgerByVoucher ==
  ASSUME VouchersInv, IsFiniteSet(Vouchers), NEW side \in Sides, NEW chosen,
         \A v \in Vouchers : chosen[v] \in SUBSET DOMAIN voucher[v].entries,
         NEW E, \A v \in Vouchers : \A n \in chosen[v] : <<v, n>> \in E,
         \A e \in E : \E v \in Vouchers : \E n \in chosen[v] : e = <<v, n>>
  PROVE  LedgerSum(E, side) =
           SumFunctionOnSet([v \in Vouchers |-> Total(voucher[v].entries, chosen[v], side)], Vouchers)
<1>1. \A v \in Vouchers : LedgerLines(voucher[v].entries)
  BY EntriesAreLedgerLines
<1>2. PICK f, g, part, V :
        /\ f = [e \in E |-> Line(e)[side]]
        /\ g = [v \in Vouchers |-> Total(voucher[v].entries, chosen[v], side)]
        /\ part = [v \in Vouchers |-> {<<v, n>> : n \in chosen[v]}]
        /\ V = Vouchers
  OBVIOUS
<1>3. \A v \in V : \A n \in chosen[v] : <<v, n>> \in part[v] /\ <<v, n>> \in E
  BY <1>2
<1>4. \A v \in V : \A e \in part[v] : e[1] = v /\ e \in E
  BY <1>2
<1>5. ASSUME NEW v \in V, NEW n \in chosen[v]
      PROVE  /\ <<v, n>> \in part[v] /\ <<v, n>> \in E
             /\ f[<<v, n>>] = voucher[v].entries[n][side] /\ f[<<v, n>>] \in Int
  <2>1. <<v, n>> \in part[v] /\ <<v, n>> \in E
    BY <1>3
  <2>2. f[<<v, n>>] = voucher[v].entries[n][side]
    BY <1>2, <2>1 DEF Line
  <2>3. n \in DOMAIN voucher[v].entries
    BY <1>2
  <2> QED
    BY <1>1, <1>2, <2>1, <2>2, <2>3 DEF LedgerLines
<1>6. ASSUME NEW v \in V
      PROVE  IsFiniteSet(part[v]) /\ g[v] = SumFunctionOnSet(f, part[v])
  <2>1. PICK lines, D : lines = voucher[v].entries /\ D = chosen[v]
    OBVIOUS
  <2>2. PICK n \in Nat : lines = [i \in 1..n |-> lines[i]]
    BY <1>1, <1>2, <2>1 DEF LedgerLines
  <2>3. PICK S : lines \in Seq(S)
    BY <2>2, LegsAreSequences
  <2>4. D \in SUBSET DOMAIN lines /\ IsFiniteSet(D)
    BY <1>2, <2>1, <2>3, LinesAreFinite
  <2>5. PICK p : p = [i \in D |-> <<v, i>>]
    OBVIOUS
  <2>6. p \in Bijection(D, part[v])
    <3>1. p \in [D -> part[v]] /\ \A e \in part[v] : \E i \in D : p[i] = e
      BY <1>2, <2>1, <2>5
    <3>2. \A i, j \in D : p[i] = p[j] => i = j
      BY <2>5
    <3> QED
      BY <3>1, <3>2 DEF Bijection, Injection, Surjection, IsInjective
  <2>7. \A i \in D : OnSide(lines, side)[i] \in Int /\ OnSide(lines, side)[i] = f[p[i]]
    BY <1>5, <2>1, <2>4, <2>5 DEF OnSide
  <2>8. SumFunctionOnSet(OnSide(lines, side), D) = SumFunctionOnSet(f, part[v])
    BY <2>4, <2>6, <2>7, SumRenamed
  <2>9. Total(lines, D, side) = SumFunctionOnSet(OnSide(lines, side), D)
    <3>1. \A i \in DOMAIN lines : lines[i][side] \in Int
      BY <1>1, <1>2, <2>1 DEF LedgerLines
    <3> QED
      BY <2>3, <2>4, <3>1, TotalIs
  <2>10. IsFiniteSet(part[v])
    BY <2>4, <2>6, FS_Surjection DEF Bijection
  <2> QED
    BY <1>2, <2>1, <2>8, <2>9, <2>10
<1>7. IsFiniteSet(E)
  <2>1. PICK parts : parts = {part[v] : v \in V}
    OBVIOUS
  <2>2. [v \in V |-> part[v]] \in Surjection(V, parts)
    BY <2>1 DEF Surjection
  <2>3. IsFiniteSet(parts)
    BY <1>2, <2>2, FS_Surjection
  <2>4. \A S \in parts : IsFiniteSet(S)
    BY <1>6, <2>1
  <2>5. E = UNION parts
    <3>1. \A e \in E : \E v \in V : e \in part[v]
      BY <1>2, <1>3
    <3>2. \A S \in parts : \E v \in V : S = part[v]
      BY <2>1
    <3>3. \A v \in V : part[v] \in parts
      BY <2>1
    <3> QED
      BY <1>4, <3>1, <3>2, <3>3
  <2> QED
    BY <2>3, <2>4, <2>5, FS_UNION
<1>8. \A e \in E : f[e] \in Int
  <2>1. ASSUME NEW e \in E PROVE f[e] \in Int
    <3>1. PICK v \in V : \E n \in chosen[v] : e = <<v, n>>
      BY <1>2
    <3> QED
      BY <1>5, <3>1
  <2> QED
    BY <2>1
<1>9. \A v \in V : part[v] \in SUBSET E
  BY <1>4
<1>10. \A e \in E : \E v \in V : e \in part[v]
  BY <1>2, <1>3
<1>11. \A u, v \in V : \A e \in E : e \in part[u] /\ e \in part[v] => u = v
  BY <1>4
<1>12. SumFunctionOnSet(g, V) = SumFunctionOnSet(f, E)
  <2>1. \A v \in V : g[v] = SumFunctionOnSet(f, part[v])
    BY <1>6
  <2>2. IsFiniteSet(V)
    BY <1>2
  <2>3. Splits(part, V, E)
    BY <1>9, <1>10, <1>11 DEF Splits
  <2> QED
    BY <1>7, <1>8, <2>1, <2>2, <2>3, SumByParts
<1> QED
  BY <1>2, <1>12 DEF LedgerSum

\* Entries balance if those of each voucher do.
LEMMA LedgerPartBalances ==
  ASSUME VouchersInv, IsFiniteSet(Vouchers), NEW chosen,
         \A v \in Vouchers : chosen[v] \in SUBSET DOMAIN voucher[v].entries,
         \A v \in Vouchers : BalancedOver(voucher[v].entries, chosen[v]),
         NEW E, \A v \in Vouchers : \A n \in chosen[v] : <<v, n>> \in E,
         \A e \in E : \E v \in Vouchers : \E n \in chosen[v] : e = <<v, n>>
  PROVE  LedgerSum(E, "debit") = LedgerSum(E, "credit")
<1>1. [v \in Vouchers |-> Total(voucher[v].entries, chosen[v], "debit")] =
      [v \in Vouchers |-> Total(voucher[v].entries, chosen[v], "credit")]
  BY DEF BalancedOver
<1>2. "debit" \in Sides /\ "credit" \in Sides
  BY DEF Sides
<1>3. ASSUME NEW side \in Sides
      PROVE  LedgerSum(E, side) = SumFunctionOnSet(
               [v \in Vouchers |-> Total(voucher[v].entries, chosen[v], side)], Vouchers)
  BY LedgerByVoucher
<1> QED
  BY <1>1, <1>2, <1>3

\* As long as there are finitely many vouchers, the trial balance of the ledger agrees:
\* whatever was posted, and whatever became of the masters since, debits come to credits,
\* and but for journals they do in each fund.  (assert_voucher_balanced, buildPostingLines.)
THEOREM LedgerBalances ==
  ASSUME IsFiniteSet(Vouchers)
  PROVE  Spec => [](TrialBalance /\ FundsBalance)
<1>1. ASSUME VouchersInv PROVE TrialBalance /\ FundsBalance
  <2>1. \A lines : BalancedOver(lines, {})
    BY SumEmpty DEF BalancedOver, Total
  <2>2. ASSUME NEW v \in Vouchers
        PROVE  \/ DOMAIN voucher[v].entries = {}
               \/ Serves(voucher[v].entries, voucher[v].body)
    <3>1. CASE voucher[v].entries = <<>>
      BY <3>1
    <3>2. CASE voucher[v].entries # <<>>
      BY <1>1, <3>2 DEF VouchersInv, Raised
    <3> QED
      BY <3>1, <3>2
  <2>3. TrialBalance
    <3>1. PICK chosen : chosen = [v \in Vouchers |-> DOMAIN voucher[v].entries]
      OBVIOUS
    <3>2. \A v \in Vouchers : BalancedOver(voucher[v].entries, chosen[v])
      BY <2>1, <2>2, <3>1 DEF Serves, Balanced
    <3>3. \A v \in Vouchers : \A n \in chosen[v] : <<v, n>> \in Entries
      BY <3>1 DEF Entries
    <3>4. \A e \in Entries : \E v \in Vouchers : \E n \in chosen[v] : e = <<v, n>>
      BY <3>1 DEF Entries
    <3>5. \A v \in Vouchers : chosen[v] \in SUBSET DOMAIN voucher[v].entries
      BY <3>1
    <3> QED
      BY <1>1, <3>2, <3>3, <3>4, <3>5, LedgerPartBalances DEF TrialBalance
  <2>4. ASSUME NEW f \in Funds
        PROVE  LedgerSum(PaidIn(f), "debit") = LedgerSum(PaidIn(f), "credit")
    <3>1. PICK chosen : chosen =
            [v \in Vouchers |-> IF voucher[v].body.kind = "journal" THEN {}
                                ELSE OfFund(voucher[v].entries, f)]
      OBVIOUS
    <3>2. ASSUME NEW v \in Vouchers
          PROVE  /\ chosen[v] \in SUBSET DOMAIN voucher[v].entries
                 /\ BalancedOver(voucher[v].entries, chosen[v])
      <4>1. CASE voucher[v].body.kind = "journal"
        BY <2>1, <3>1, <4>1
      <4>2. CASE voucher[v].body.kind # "journal"
        <5>1. chosen[v] = OfFund(voucher[v].entries, f)
          BY <3>1, <4>2
        <5>2. OfFund(voucher[v].entries, f) \in SUBSET DOMAIN voucher[v].entries
          BY DEF OfFund
        <5>3. BalancedOver(voucher[v].entries, OfFund(voucher[v].entries, f))
          <6>1. CASE DOMAIN voucher[v].entries = {}
            <7>1. OfFund(voucher[v].entries, f) = {}
              BY <5>2, <6>1
            <7> QED
              BY <2>1, <7>1
          <6>2. CASE Serves(voucher[v].entries, voucher[v].body)
            BY <4>2, <6>2 DEF Serves
          <6> QED
            BY <2>2, <6>1, <6>2
        <5> QED
          BY <5>1, <5>2, <5>3
      <4> QED
        BY <4>1, <4>2
    <3>3. ASSUME NEW v \in Vouchers, NEW n \in DOMAIN voucher[v].entries
          PROVE  <<v, n>> \in PaidIn(f) <=> n \in chosen[v]
      <4>1. <<v, n>> \in Entries /\ Line(<<v, n>>) = voucher[v].entries[n] /\ <<v, n>>[1] = v
        BY DEF Entries, Line
      <4> QED
        BY <3>1, <4>1 DEF PaidIn, EntriesIn, OfFund
    <3>4. \A v \in Vouchers : \A n \in chosen[v] : <<v, n>> \in PaidIn(f)
      BY <3>2, <3>3
    <3>5. \A e \in PaidIn(f) : \E v \in Vouchers : \E n \in DOMAIN voucher[v].entries : e = <<v, n>>
      BY DEF PaidIn, EntriesIn, Entries
    <3>6. \A e \in PaidIn(f) : \E v \in Vouchers : \E n \in chosen[v] : e = <<v, n>>
      BY <3>3, <3>5
    <3>7. \A v \in Vouchers : chosen[v] \in SUBSET DOMAIN voucher[v].entries
      BY <3>2
    <3>8. \A v \in Vouchers : BalancedOver(voucher[v].entries, chosen[v])
      BY <3>2
    <3> QED
      BY <1>1, <3>4, <3>6, <3>7, <3>8, LedgerPartBalances
  <2> QED
    BY <2>3, <2>4 DEF FundsBalance
<1> QED
  BY <1>1, VouchersStart, VouchersStep, PTL DEF Spec
=============================================================================
