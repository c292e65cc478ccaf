----------------------------- MODULE Bookkeeping -----------------------------
(***************************************************************************)
(* The masters and the ledger together: heads, bank accounts, funds,       *)
(* projects and activities change while vouchers coded to them are raised  *)
(* and posted.                                                             *)
(***************************************************************************)
EXTENDS Chart, Dimensions, Assets, Coding

Next ==
  \/ \E r \in Requests :
       \/ HeadStep(r) \/ BankStep(r) \/ FundStep(r) \/ ProjectStep(r) \/ ActivityStep(r)
       \/ AssetStep(r) \/ SettingStep(r) \/ Abort(r)
  \/ FundCreate
  \/ CacheExpires
  \/ CodingNext

Spec == Init /\ [][Next]_vars

\* The shape of the tables.
TypeOK ==
  /\ head \in [Heads -> HeadRow \cup {Unborn}]
  /\ bank \in [Banks -> BankRow \cup {Unborn}]
  /\ fund \in [Funds -> FundRow \cup {Unborn}]
  /\ project \in [Projects -> ProjectRow \cup {Unborn}]
  /\ activity \in [Activities -> ActivityRow \cup {Unborn}]
  /\ asset \in [Assets -> AssetRow \cup {Unborn}]
  /\ setting \in SettingRow /\ cache \in SettingRow \cup {Null}

\* However updates of the masters overlap, the tables keep their shape, a child is of its
\* parent's type and a bank account posts through an asset head no other one posts
\* through.  (assertParentIsCompatible, BankAccountsService.create.)
ChartIsTyped ==
  /\ TypeOK
  /\ \A h \in Heads : head[h] # Unborn /\ head[h].parent # Null =>
       head[head[h].parent].type = head[h].type
  /\ \A b, c \in Banks : bank[b] # Unborn /\ bank[c] # Unborn =>
       /\ head[bank[b].head].type = "asset"
       /\ bank[b].head = bank[c].head => b = c

\* Every head hangs below a root: going up one reaches it.  (assertNotADescendant:
\* that would make the chart of accounts a loop.)
ChartIsATree ==
  \A S \in SUBSET {h \in Heads : head[h] # Unborn} :
    S # {} => \E h \in S : head[h].parent \notin S

\* What a raised voucher will post balances and comes to its amount, and unless it is
\* a journal balances in every fund: the trigger at commit never fires, and the cash
\* of a restricted fund stays with it.  (buildPostingLines, journalIsBalanced.)
PostingsBalance ==
  \A v \in Vouchers : voucher[v].status # "Absent" =>
    LET lines == PostingLines(voucher[v].body)
    IN /\ Balanced(lines)
       /\ Total(lines, DOMAIN lines, "debit") = voucher[v].amount
       /\ voucher[v].body.kind # "journal" => \A f \in Funds : BalancedOver(lines, OfFund(lines, f))

\* A head with ledger lines keeps its opening balance and goes on taking entries; a
\* fund with lines keeps its opening balance.  (assertNoEntries; its opening balance is
\* settled.)
OpeningsAreSettled ==
  /\ \A h \in Heads : head[h] # Unborn /\ EntriesOn(h) # {} =>
       head'[h].opening = head[h].opening /\ (head[h].postable => head'[h].postable)
  /\ \A f \in Funds : fund[f] # Unborn /\ EntriesIn(f) # {} => fund'[f].opening = fund[f].opening

\* A head is switched off only when no active head hangs below it, a fund only when no
\* project under way is carried in it.  (assertNoChildrenActive, FundsService.update.)
SwitchedOffLast ==
  /\ \A h \in Heads : head[h].active /\ ~head'[h].active =>
       \A c \in Heads : ~(head[c].active /\ head[c].parent = h)
  /\ \A f \in Funds : fund[f].active /\ ~fund'[f].active =>
       \A p \in Projects :
         ~(project[p].active /\ project[p].fund = f /\ project[p].status \in {"planning", "active"})

\* A project with ledger lines stays in its fund, and a project enters only a fund that
\* is open.  (ProjectsService.update: already has posted entries and cannot be moved.)
ProjectsKeepTheirFund ==
  \A p \in Projects : project'[p] # Unborn =>
    /\ project[p] # Unborn /\ project'[p].fund # project[p].fund =>
         \A e \in Entries : Line(e).project # p
    /\ project[p] = Unborn \/ project'[p].fund # project[p].fund => fund[project'[p].fund].active

\* When an activity is saved its default project is carried in its default fund.
\* (assertCodingIsUsable: the default project must be in the default fund.)
SavedDefaultsAgree ==
  \A a \in Activities : activity'[a] # activity[a] /\ activity'[a].project # Null =>
    project[activity'[a].project].fund = activity'[a].fund

\* However edits and disposals overlap, what was disposed of is not held again: the
\* edit would have to take the date back.  (dispose, disposal_is_consistent.)
DisposedForGood ==
  \A a \in Assets : asset[a] # Unborn /\ Disposed(a) =>
    asset'[a].status = "disposed" /\ asset'[a].disposedOn # Null

\* What was disposed of is a closed record.  (AssetsService.update and dispose.)
ClosedRecordsStand ==
  \A a \in Assets : asset[a] # Unborn /\ Disposed(a) => asset'[a] = asset[a]

\* A head chosen for the deposits while the cash head stays is no cash or bank head.
\* (assertIsDepositHead: would put deposits in the cash or bank book.)
DepositsOffTheCashBook ==
  setting'.deposit # setting.deposit /\ setting'.cash = setting.cash =>
    /\ setting'.deposit # setting.cash
    /\ \A b \in Banks : bank[b] # Unborn => bank[b].head # setting'.deposit

\* An update changes the settings it names and no other.  (write.)
SettingsAreKept ==
  \A r \in Requests : At(r, "setting", "write") /\ ~At(r, "setting", "write")' =>
    \A f \in DOMAIN setting : setting'[f] # setting[f] => request[r].body[f] # Keep

\* When no handler is in flight the copy the server keeps is what is stored: a new cash
\* head or approval rule holds from the answer on.  (updateAccounting.)
CopyIsStored == (\A r \in Requests : request[r] = Idle) => cache \in {Null, setting}

\* A bank account and its head give one opening balance.  (BankAccountsService.create:
\* lives on the ledger head and is mirrored here so they agree.)
BankMirrorsHead ==
  \A b \in Banks : bank[b] # Unborn => bank[b].opening = head[bank[b].head].opening

\* The default project of an activity is carried in its default fund.
\* (assertCodingIsUsable: the default project must be in the default fund.)
DefaultsAgree ==
  \A a \in Activities : activity[a] # Unborn /\ activity[a].project # Null =>
    project[activity[a].project].fund = activity[a].fund

\* A grouping head takes no entries.  (assertPostable.)
GroupingTakesNone ==
  \A h \in Heads : EntriesOn(h) # {} => head[h].postable
=============================================================================
