------------------------------ MODULE Settings ------------------------------
(***************************************************************************)
(* SettingsService: the heads money and deposits are booked to.  An update *)
(* checks the heads it names, reads the stored value, lays its fields over *)
(* it and writes the whole; the server keeps a copy for a minute.          *)
(***************************************************************************)
EXTENDS Masters

\* What accounting() answers: the copy kept, or the stored value.
Accounting == IF cache # Null THEN cache ELSE setting

-----------------------------------------------------------------------------
(* accounting, when no copy is kept: the value is read, and kept later on *)

LookupLoad(r) ==
  /\ cache = Null
  /\ Accept(r, [op |-> "lookup", pc |-> "keep", value |-> setting])
  /\ UNCHANGED tables

LookupKeep(r) ==
  /\ At(r, "lookup", "keep")
  /\ cache' = request[r].value
  /\ Finish(r)
  /\ UNCHANGED <<chart, dimensions, voucher, asset, setting>>

\* CACHE_TTL_MS have passed.
CacheExpires ==
  /\ cache # Null
  /\ cache' = Null
  /\ UNCHANGED <<chart, dimensions, voucher, asset, setting, request>>

-----------------------------------------------------------------------------
(* updateAccounting *)

AfterCash(body) == IF body.deposit # Keep THEN "deposit" ELSE "read"

SettingLoad(r) ==
  /\ \E body \in Offers.setting :
       Accept(r, [op |-> "setting", body |-> body,
                  pc |-> IF body.cash # Keep THEN "cash" ELSE AfterCash(body)])
  /\ UNCHANGED tables

AssetHead(h) == head[h] # Unborn /\ head[h].type = "asset" /\ head[h].postable

\* assertIsCashHead
SettingCash(r) ==
  /\ At(r, "setting", "cash")
  /\ AssetHead(request[r].body.cash)
  /\ Advance(r, AfterCash(request[r].body))
  /\ UNCHANGED tables

\* assertIsDepositHead, as far as the head itself.
SettingDeposit(r) ==
  /\ At(r, "setting", "deposit")
  /\ LET h == request[r].body.deposit IN AssetHead(h) /\ head[h].active
  /\ Advance(r, "apart")
  /\ UNCHANGED tables

IsMoneyHead(h) ==
  h = Accounting.cash \/ \E b \in Banks : bank[b] # Unborn /\ bank[b].head = h

SettingApart(r) ==
  /\ At(r, "setting", "apart")
  /\ ~IsMoneyHead(request[r].body.deposit)
  /\ Advance(r, "read")
  /\ UNCHANGED tables

SettingRead(r) ==
  /\ At(r, "setting", "read")
  /\ request' = [request EXCEPT
       ![r] = [op |-> "setting", pc |-> "write", body |-> @.body, before |-> setting]]
  /\ UNCHANGED tables

\* Mutant: a head the body leaves out is not set any more.
BugMerged(before, body) ==
  [f \in DOMAIN before |-> IF body[f] # Keep THEN body[f] ELSE IF f = "cash" THEN before[f] ELSE Null]

Merged(before, body) == Patched(before, body)

SettingWrite(r) ==
  /\ At(r, "setting", "write")
  /\ setting' = Merged(request[r].before, request[r].body)
  /\ Advance(r, "clear")
  /\ UNCHANGED <<chart, dimensions, voucher, asset, cache>>

\* After the audit: the copy is dropped.
SettingClear(r) ==
  /\ At(r, "setting", "clear")
  /\ cache' = Null
  /\ Finish(r)
  /\ UNCHANGED <<chart, dimensions, voucher, asset, setting>>

SettingStep(r) ==
  \/ LookupLoad(r) \/ LookupKeep(r)
  \/ SettingLoad(r) \/ SettingCash(r) \/ SettingDeposit(r) \/ SettingApart(r)
  \/ SettingRead(r) \/ SettingWrite(r) \/ SettingClear(r)
=============================================================================
