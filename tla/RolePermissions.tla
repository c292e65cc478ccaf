--------------------------- MODULE RolePermissions ---------------------------
(***************************************************************************)
(* RolesService.setPermissions and PermissionsService.forRole: the         *)
(* permissions granted to one role, which every instance of the server     *)
(* caches for five minutes.                                                *)
(*                                                                         *)
(* setPermissions runs DELETE and INSERT in one READ COMMITTED transaction *)
(* without locking the role: the delete takes the rows that were there     *)
(* when it began, so rows another transaction commits after that stay, and *)
(* the insert collides with them on the primary key or joins them.         *)
(***************************************************************************)
EXTENDS Naturals, FiniteSets

CONSTANTS
  Instances,     \* server processes
  Requests,      \* request slots, on any instance
  Permissions,   \* the catalogue
  Keys,          \* what the administrator role must keep; {} for other roles
  Nowhere,       \* no instance
  MaxChanges     \* bound: how often the permissions may be replaced

ASSUME KeysAssumption == Keys \subseteq Permissions
ASSUME NowhereAssumption == Nowhere \notin Instances
ASSUME MaxChangesAssumption == MaxChanges \in Nat

VARIABLES
  role,      \* the rows of role_permissions, each with the change that inserted it
  cache,     \* the cache entry of the role in each instance
  request,   \* what each handler in flight remembers
  change,    \* number of replacements begun, the stamp of the next one
  last,      \* history: the instance that replaced the permissions last
  chosen     \* history: the permissions that request asked for

vars == <<role, cache, request, change, last, chosen>>

Row == [code : Permissions, by : 0..MaxChanges]

Codes(rows) == {row.code : row \in rows}

NotCached == [pc |-> "none"]

\* expiresAt is only compared with the clock: an entry is valid or it is not.
Entry == [grants : SUBSET Permissions, valid : BOOLEAN]

Idle == [pc |-> "idle"]

Memory ==
  [pc : {"store"}, on : Instances, grants : SUBSET Permissions]
  \cup [pc : {"delete", "insert", "invalidate"}, on : Instances,
        grants : SUBSET Permissions, sees : SUBSET Row, by : 0..MaxChanges]

At(r, pc) == request[r].pc = pc

Finish(r) == request' = [request EXCEPT ![r] = Idle]

-----------------------------------------------------------------------------
(* forRole *)

\* Mutant: an entry is served for ever.
BugUsable(entry) == entry # NotCached

Usable(entry) == entry # NotCached /\ entry.valid

\* A hit changes nothing.  A miss reads the rows in one statement...
LookupRead(r) ==
  /\ At(r, "idle")
  /\ \E i \in Instances :
       /\ ~Usable(cache[i])
       /\ request' = [request EXCEPT ![r] =
            [pc |-> "store", on |-> i, grants |-> Codes(role)]]
  /\ UNCHANGED <<role, cache, change, last, chosen>>

\* ...and stores what it read when the answer is back.
LookupStore(r) ==
  /\ At(r, "store")
  /\ cache' = [cache EXCEPT ![request[r].on] =
                 [grants |-> request[r].grants, valid |-> TRUE]]
  /\ Finish(r)
  /\ UNCHANGED <<role, change, last, chosen>>

Expire(i) ==
  /\ Usable(cache[i])
  /\ cache' = [cache EXCEPT ![i].valid = FALSE]
  /\ UNCHANGED <<role, request, change, last, chosen>>

-----------------------------------------------------------------------------
(* setPermissions *)

Acceptable(grants) == Keys \subseteq grants

SetBegin(r) ==
  /\ At(r, "idle")
  /\ change < MaxChanges
  /\ change' = change + 1
  /\ \E i \in Instances, grants \in SUBSET Permissions :
       /\ Acceptable(grants)
       /\ request' = [request EXCEPT ![r] =
            [pc |-> "delete", on |-> i, grants |-> grants, sees |-> {}, by |-> change + 1]]
  /\ UNCHANGED <<role, cache, last, chosen>>

\* deleteMany takes the rows committed before it.  When another transaction is
\* about to delete the same rows it waits for that one; which of the two commits
\* first is left open here, for it makes no other difference.
SetDelete(r) ==
  /\ At(r, "delete")
  /\ request' = [request EXCEPT ![r].pc = "insert", ![r].sees = role]
  /\ UNCHANGED <<role, cache, change, last, chosen>>

Survivors(r) == role \ request[r].sees

\* Mutant: createMany skips duplicates.
BugSetCommit(r) ==
  /\ At(r, "insert")
  /\ LET m == request[r]
     IN /\ role' = Survivors(r) \cup {[code |-> p, by |-> m.by] : p \in m.grants}
        /\ last' = m.on
        /\ chosen' = m.grants
  /\ request' = [request EXCEPT ![r].pc = "invalidate"]
  /\ UNCHANGED <<cache, change>>

\* createMany and COMMIT.
SetCommit(r) ==
  /\ At(r, "insert")
  /\ LET m == request[r]
     IN /\ Codes(Survivors(r)) \cap m.grants = {}
        /\ role' = Survivors(r) \cup {[code |-> p, by |-> m.by] : p \in m.grants}
        /\ last' = m.on
        /\ chosen' = m.grants
  /\ request' = [request EXCEPT ![r].pc = "invalidate"]
  /\ UNCHANGED <<cache, change>>

\* The primary key refuses a row: the transaction rolls back.
SetRefused(r) ==
  /\ At(r, "insert")
  /\ Codes(Survivors(r)) \cap request[r].grants # {}
  /\ Finish(r)
  /\ UNCHANGED <<role, cache, change, last, chosen>>

\* Mutant: the change is left for the cache to find out.
BugSetInvalidate(r) ==
  /\ At(r, "invalidate")
  /\ Finish(r)
  /\ UNCHANGED <<role, cache, change, last, chosen>>

\* Only the instance that served the request forgets its entry.
SetInvalidate(r) ==
  /\ At(r, "invalidate")
  /\ cache' = [cache EXCEPT ![request[r].on] = NotCached]
  /\ Finish(r)
  /\ UNCHANGED <<role, change, last, chosen>>

-----------------------------------------------------------------------------

\* A process stops: its cache and its handlers are gone.
Restart(i) ==
  /\ cache' = [cache EXCEPT ![i] = NotCached]
  /\ request' = [r \in Requests |->
       IF request[r] # Idle /\ request[r].on = i THEN Idle ELSE request[r]]
  /\ UNCHANGED <<role, change, last, chosen>>

Init ==
  /\ role = {[code |-> p, by |-> 0] : p \in Permissions}
  /\ cache = [i \in Instances |-> NotCached]
  /\ request = [r \in Requests |-> Idle]
  /\ change = 0
  /\ last = Nowhere
  /\ chosen = Permissions

\* What a handler does once it has begun.
Continue(r) ==
  \/ LookupStore(r)
  \/ SetDelete(r) \/ SetCommit(r) \/ SetRefused(r) \/ SetInvalidate(r)

Next ==
  \/ \E r \in Requests : LookupRead(r) \/ SetBegin(r) \/ Continue(r)
  \/ \E i \in Instances : Expire(i) \/ Restart(i)

Spec == Init /\ [][Next]_vars

\* A handler whose statement is answered goes on, and the clock passes every
\* expiry.  Nothing obliges anybody to look a role up or to change it.
Fairness ==
  /\ \A r \in Requests : WF_vars(Continue(r))
  /\ \A i \in Instances : WF_vars(Expire(i))

FairSpec == Spec /\ Fairness

-----------------------------------------------------------------------------
(* Properties *)

\* Shapes; the stamps keep rows of different changes apart.
TypeOK ==
  /\ role \subseteq Row
  /\ cache \in [Instances -> Entry \cup {NotCached}]
  /\ request \in [Requests -> Memory \cup {Idle}]
  /\ change \in 0..MaxChanges
  /\ last \in Instances \cup {Nowhere}
  /\ chosen \subseteq Permissions

\* The permissions of a role are replaced, never merged: they are the ones the
\* last replacement asked for.  (setPermissions.)
GrantsAreOneChoice == Codes(role) = chosen

\* However replacements and cache fills overlap, the administrator role keeps its
\* keys, in the table and in every cache.  (setPermissions.)
KeysAreKept ==
  /\ Keys \subseteq Codes(role)
  /\ \A i \in Instances : Usable(cache[i]) => Keys \subseteq cache[i].grants

\* Once a replacement has returned, the instance that served it no longer serves
\* older grants.  (invalidate, as called by setPermissions.)
InvalidatedAtOnce ==
  \A i \in Instances :
    last = i /\ Usable(cache[i])
    /\ (\A r \in Requests : request[r] # Idle /\ request[r].on = i =>
          request[r].pc # "invalidate") =>
      cache[i].grants = Codes(role)

\* When nobody changes the role any more, every instance ends up serving what the
\* table holds.  (The time to live in forRole.)
ChangesReachEveryInstance ==
  <>[](\A i \in Instances : Usable(cache[i]) => cache[i].grants = Codes(role))
=============================================================================
