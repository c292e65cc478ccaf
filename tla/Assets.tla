------------------------------- MODULE Assets -------------------------------
(***************************************************************************)
(* AssetsService: the register of what the temple owns.  An asset is       *)
(* carried in a fund, edited while it is held, and disposed of on a date,  *)
(* after which it is a closed record.                                      *)
(***************************************************************************)
EXTENDS Masters

\* Mutant: the disposal need not go with a date.
BugLawful(row) == row.disposedOn # Null => row.disposedOn >= row.acquiredOn

\* disposal_is_consistent, disposed_after_acquired
Lawful(row) ==
  /\ row.status = "disposed" <=> row.disposedOn # Null
  /\ row.disposedOn # Null => row.disposedOn >= row.acquiredOn

Keeps(r, a, row) ==
  /\ Lawful(row)
  /\ asset' = [asset EXCEPT ![a] = row]
  /\ Finish(r)
  /\ UNCHANGED <<chart, dimensions, voucher, settings>>

AssetCreateLoad(r) ==
  /\ \E body \in Offers.newAsset :
       /\ fund[body.fund].active
       /\ Accept(r, [op |-> "createAsset", pc |-> "write", body |-> body])
  /\ UNCHANGED tables

AssetCreate(r) ==
  /\ At(r, "createAsset", "write")
  /\ \E a \in Assets :
       /\ asset[a] = Unborn
       /\ Keeps(r, a, [f \in DOMAIN request[r].body \cup {"disposedOn"} |->
                         IF f = "disposedOn" THEN Null ELSE request[r].body[f]])

Disposed(a) == asset[a].status = "disposed"

HeldAsset(a) == asset[a] # Unborn /\ ~Disposed(a)

AssetLoad(r) ==
  /\ \E a \in Assets, body \in Offers.asset :
       /\ HeldAsset(a)
       /\ body.status # "disposed"
       /\ Accept(r, [op |-> "asset", pc |-> IF body.fund = Keep THEN "write" ELSE "fund",
                     id |-> a, body |-> body])
  /\ UNCHANGED tables

AssetFund(r) ==
  /\ At(r, "asset", "fund")
  /\ fund[request[r].body.fund].active
  /\ Advance(r, "write")
  /\ UNCHANGED tables

AssetWrite(r) ==
  /\ At(r, "asset", "write")
  /\ Keeps(r, request[r].id, Patched(asset[request[r].id], request[r].body))

DisposeLoad(r) ==
  /\ \E a \in Assets, day \in Offers.disposal :
       /\ HeldAsset(a)
       /\ day >= asset[a].acquiredOn
       /\ Accept(r, [op |-> "dispose", pc |-> "write", id |-> a, day |-> day])
  /\ UNCHANGED tables

DisposeWrite(r) ==
  /\ At(r, "dispose", "write")
  /\ LET m == request[r]
     IN Keeps(r, m.id, [asset[m.id] EXCEPT !.status = "disposed", !.disposedOn = m.day])

AssetStep(r) ==
  \/ AssetCreateLoad(r) \/ AssetCreate(r)
  \/ AssetLoad(r) \/ AssetFund(r) \/ AssetWrite(r)
  \/ DisposeLoad(r) \/ DisposeWrite(r)
=============================================================================
