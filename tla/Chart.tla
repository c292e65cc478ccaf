-------------------------------- MODULE Chart --------------------------------
(***************************************************************************)
(* AccountsService and BankAccountsService: the tree of heads, and the     *)
(* bank accounts each of which posts through an asset head of its own.     *)
(* A head's opening balance is settled once the ledger has a line on it.   *)
(***************************************************************************)
EXTENDS Masters

-----------------------------------------------------------------------------
(* create a head *)

\* Mutant: a child may be of another type than its parent.
BugCompatible(h, type) == head[h] # Unborn

\* assertParentIsCompatible
Compatible(h, type) == head[h] # Unborn /\ head[h].type = type

HeadCreateLoad(r) ==
  /\ \E body \in Offers.newHead :
       /\ body.parent # Null => Compatible(body.parent, body.type)
       /\ body.type \in Nominal => body.opening = 0
       /\ Accept(r, [op |-> "createHead", pc |-> "write", body |-> body])
  /\ UNCHANGED tables

HeadCreate(r) ==
  /\ At(r, "createHead", "write")
  /\ \E h \in Heads :
       /\ head[h] = Unborn
       /\ head' = [head EXCEPT ![h] = New(request[r].body)]
  /\ Finish(r)
  /\ UNCHANGED <<bank, dimensions, voucher, asset, settings>>

-----------------------------------------------------------------------------
(* update a head: the checks its body calls for, in this order *)

HeadChecks == <<"parent", "opening", "postable", "active", "write">>

Calls(body, check) ==
  CASE check = "parent"   -> body.parent \notin {Keep, Null}
    [] check = "opening"  -> body.opening # Keep
    [] check = "postable" -> body.postable = FALSE
    [] check = "active"   -> body.active = FALSE
    [] check = "write"    -> TRUE

\* The first check from the n-th on that the body calls for.
FromCheck(n, body) ==
  HeadChecks[CHOOSE i \in n..5 :
    Calls(body, HeadChecks[i]) /\ \A j \in n..(i - 1) : ~Calls(body, HeadChecks[j])]

HeadLoad(r) ==
  /\ \E h \in Heads, body \in Offers.head :
       /\ head[h] # Unborn
       /\ body.parent # h
       /\ Accept(r, [op |-> "head", pc |-> FromCheck(1, body), id |-> h,
                     cursor |-> Null, depth |-> 0, body |-> body])
  /\ UNCHANGED tables

HeadParent(r) ==
  /\ At(r, "head", "parent")
  /\ Compatible(request[r].body.parent, head[request[r].id].type)
  /\ request' = [request EXCEPT ![r].pc = "walk", ![r].cursor = request[r].body.parent]
  /\ UNCHANGED tables

\* Mutant: only the new parent itself is looked at.
BugClimb(cursor) == Null
Climb(cursor) == head[cursor].parent

MaxDepth == 32

\* assertNotADescendant: one head a statement, up to the root or so many heads.
HeadWalk(r) ==
  /\ At(r, "head", "walk")
  /\ request[r].cursor # request[r].id
  /\ LET above == Climb(request[r].cursor)
         depth == request[r].depth + 1
     IN request' = [request EXCEPT ![r].cursor = above, ![r].depth = depth,
          ![r].pc = IF above = Null \/ depth = MaxDepth
                    THEN FromCheck(2, request[r].body) ELSE "walk"]
  /\ UNCHANGED tables

\* Mutant: an entry on the head does not matter.
BugUntouched(h) == TRUE
Untouched(h) == EntriesOn(h) = {}     \* assertNoEntries

HeadOpening(r) ==
  /\ At(r, "head", "opening")
  /\ head[request[r].id].type \notin Nominal
  /\ Untouched(request[r].id)
  /\ Advance(r, FromCheck(3, request[r].body))
  /\ UNCHANGED tables

HeadPostable(r) ==
  /\ At(r, "head", "postable")
  /\ Untouched(request[r].id)
  /\ Advance(r, FromCheck(4, request[r].body))
  /\ UNCHANGED tables

ActiveChildren(h) == {c \in Heads : head[c].active /\ head[c].parent = h}

HeadActive(r) ==
  /\ At(r, "head", "active")
  /\ ActiveChildren(request[r].id) = {}
  /\ Advance(r, "write")
  /\ UNCHANGED tables

HeadWrite(r) ==
  /\ At(r, "head", "write")
  /\ head' = [head EXCEPT ![request[r].id] = Patched(@, request[r].body)]
  /\ Finish(r)
  /\ UNCHANGED <<bank, dimensions, voucher, asset, settings>>

-----------------------------------------------------------------------------
(* bank accounts *)

Bankable(h) == head[h] # Unborn /\ head[h].type = "asset" /\ head[h].postable

FreeHead(h) == {b \in Banks : bank[b] # Unborn /\ bank[b].head = h} = {}

BankCreateLoad(r) ==
  /\ \E body \in Offers.newBank :
       /\ Bankable(body.head)
       /\ Accept(r, [op |-> "createBank", pc |-> "free", body |-> body])
  /\ UNCHANGED tables

BankCreateFree(r) ==
  /\ At(r, "createBank", "free")
  /\ FreeHead(request[r].body.head)
  /\ Advance(r, IF request[r].body.opening = 0 THEN "write" ELSE "count")
  /\ UNCHANGED tables

\* Inside the transaction, but at READ COMMITTED: a voucher may be posted
\* between the count and the commit.
BankCreateCount(r) ==
  /\ At(r, "createBank", "count")
  /\ Untouched(request[r].body.head)
  /\ Advance(r, "write")
  /\ UNCHANGED tables

BankCreate(r) ==
  /\ At(r, "createBank", "write")
  /\ LET body == request[r].body
     IN /\ \E b \in Banks :
             /\ bank[b] = Unborn
             /\ FreeHead(body.head)     \* bank_accounts_ledger_account_id_key
             /\ bank' = [bank EXCEPT ![b] = New(body)]
        /\ head' = IF body.opening = 0 THEN head
                   ELSE [head EXCEPT ![body.head].opening = body.opening]
  /\ Finish(r)
  /\ UNCHANGED <<dimensions, voucher, asset, settings>>

BankLoad(r) ==
  /\ \E b \in Banks, body \in Offers.bank :
       /\ bank[b] # Unborn
       /\ Accept(r, [op |-> "bank", id |-> b, body |-> body,
                     pc |-> IF body.opening = Keep THEN "write" ELSE "count"])
  /\ UNCHANGED tables

BankCount(r) ==
  /\ At(r, "bank", "count")
  /\ \A e \in Entries : Line(e).bank # request[r].id
  /\ Untouched(bank[request[r].id].head)
  /\ Advance(r, "opening")
  /\ UNCHANGED tables

BankOpening(r) ==
  /\ At(r, "bank", "opening")
  /\ head' = [head EXCEPT ![bank[request[r].id].head].opening = request[r].body.opening]
  /\ Advance(r, "write")
  /\ UNCHANGED <<bank, dimensions, voucher, asset, settings>>

BankWrite(r) ==
  /\ At(r, "bank", "write")
  /\ bank' = [bank EXCEPT ![request[r].id] = Patched(@, request[r].body)]
  /\ Finish(r)
  /\ UNCHANGED <<head, dimensions, voucher, asset, settings>>

-----------------------------------------------------------------------------

HeadStep(r) ==
  \/ HeadCreateLoad(r) \/ HeadCreate(r)
  \/ HeadLoad(r) \/ HeadParent(r) \/ HeadWalk(r) \/ HeadOpening(r) \/ HeadPostable(r)
  \/ HeadActive(r) \/ HeadWrite(r)

BankStep(r) ==
  \/ BankCreateLoad(r) \/ BankCreateFree(r) \/ BankCreateCount(r) \/ BankCreate(r)
  \/ BankLoad(r) \/ BankCount(r) \/ BankOpening(r) \/ BankWrite(r)
=============================================================================
