------------------------ MODULE RolePermissionsProofs ------------------------
(***************************************************************************)
(* Proofs about RolePermissions, for any number of instances, handlers and *)
(* replacements in flight.                                                 *)
(*                                                                         *)
(* Keys survive because every writer carries them.  Replacements do not    *)
(* merge, on a role with keys, because of how they collide: the rows in    *)
(* the table all come from one change, a transaction has seen either all   *)
(* of them or none, and if none the keys they hold collide with its own.   *)
(* What an instance serves after a replacement is proved until handlers    *)
(* overlap, from what a lookup in flight has read.                         *)
(***************************************************************************)
EXTENDS MCRolePermissions, TLAPS

-----------------------------------------------------------------------------
(* Types *)

\* Initially the shapes are right.
LEMMA TypeInit == Init => TypeOK
  BY MaxChangesAssumption DEF Init, TypeOK, Row, Idle, NotCached

\* A handler that has begun a replacement holds a memory of that kind.
LEMMA SettingMemory ==
  ASSUME TypeOK, NEW r \in Requests, request[r].pc \in {"delete", "insert", "invalidate"}
  PROVE  request[r] \in [pc : {"delete", "insert", "invalidate"}, on : Instances,
                         grants : SUBSET Permissions, sees : SUBSET Row, by : 0..MaxChanges]
  BY DEF TypeOK, Memory, Idle

\* A handler that has read the rows holds them.
LEMMA FillMemory ==
  ASSUME TypeOK, NEW r \in Requests, request[r].pc = "store"
  PROVE  request[r] \in [pc : {"store"}, on : Instances, grants : SUBSET Permissions]
  BY DEF TypeOK, Memory, Idle

\* The rows a commit leaves are rows, and their codes are permissions.
LEMMA CommittedRows ==
  ASSUME TypeOK, NEW r \in Requests, At(r, "insert")
  PROVE  Survivors(r) \cup {[code |-> p, by |-> request[r].by] : p \in request[r].grants}
           \in SUBSET Row
<1>1. request[r].by \in 0..MaxChanges /\ request[r].grants \subseteq Permissions
  BY SettingMemory DEF At
<1>2. Survivors(r) \subseteq Row
  BY DEF TypeOK, Survivors
<1> QED
  BY <1>1, <1>2 DEF Row

\* Every step keeps the shapes.
LEMMA TypeStep == TypeOK /\ [Next]_vars => TypeOK'
<1> SUFFICES ASSUME TypeOK, [Next]_vars PROVE TypeOK'
  OBVIOUS
<1>1. ASSUME NEW r \in Requests, LookupRead(r) PROVE TypeOK'
  <2>1. Codes(role) \subseteq Permissions
    BY DEF TypeOK, Codes, Row
  <2> QED
    BY <1>1, <2>1 DEF LookupRead, TypeOK, Memory
<1>2. ASSUME NEW r \in Requests, LookupStore(r) PROVE TypeOK'
  <2>1. request[r].on \in Instances /\ request[r].grants \subseteq Permissions
    BY <1>2, FillMemory DEF LookupStore, At
  <2> QED
    BY <1>2, <2>1 DEF LookupStore, Finish, TypeOK, Entry
<1>3. ASSUME NEW r \in Requests, SetBegin(r) PROVE TypeOK'
  BY <1>3, MaxChangesAssumption DEF SetBegin, TypeOK, Memory, Row
<1>4. ASSUME NEW r \in Requests, SetDelete(r) PROVE TypeOK'
  <2>1. [request[r] EXCEPT !.pc = "insert", !.sees = role] \in Memory
    BY <1>4, SettingMemory DEF SetDelete, At, TypeOK, Memory
  <2> QED
    BY <1>4, <2>1 DEF SetDelete, TypeOK
<1>5. ASSUME NEW r \in Requests, SetCommit(r) PROVE TypeOK'
  <2>1. [request[r] EXCEPT !.pc = "invalidate"] \in Memory
    BY <1>5, SettingMemory DEF SetCommit, At, Memory
  <2>2. role' \subseteq Row
    BY <1>5, CommittedRows DEF SetCommit
  <2>3. request[r].on \in Instances /\ request[r].grants \subseteq Permissions
    BY <1>5, SettingMemory DEF SetCommit, At
  <2> QED
    BY <1>5, <2>1, <2>2, <2>3 DEF SetCommit, TypeOK
<1>6. ASSUME NEW r \in Requests, SetRefused(r) PROVE TypeOK'
  BY <1>6 DEF SetRefused, Finish, TypeOK
<1>7. ASSUME NEW r \in Requests, SetInvalidate(r) PROVE TypeOK'
  BY <1>7 DEF SetInvalidate, Finish, TypeOK
<1>8. ASSUME NEW i \in Instances, Expire(i) PROVE TypeOK'
  <2>1. [cache[i] EXCEPT !.valid = FALSE] \in Entry
    BY <1>8 DEF Expire, Usable, TypeOK, Entry
  <2> QED
    BY <1>8, <2>1 DEF Expire, TypeOK
<1>9. ASSUME NEW i \in Instances, Restart(i) PROVE TypeOK'
  BY <1>9 DEF Restart, TypeOK
<1>10. CASE UNCHANGED vars
  BY <1>10 DEF vars, TypeOK
<1> QED
  BY <1>1, <1>2, <1>3, <1>4, <1>5, <1>6, <1>7, <1>8, <1>9, <1>10 DEF Next, Continue

\* The tables, the caches and the memories keep their shapes in every behaviour.
THEOREM RoleTypeCorrect == Spec => []TypeOK
  BY TypeInit, TypeStep, PTL DEF Spec

-----------------------------------------------------------------------------
(* Keys *)

\* Whatever the table, a cache or a memory holds of the role includes the keys.
KeysEverywhere ==
  /\ Keys \subseteq Codes(role)
  /\ \A r \in Requests : request[r] # Idle => Keys \subseteq request[r].grants
  /\ \A i \in Instances : cache[i] # NotCached => Keys \subseteq cache[i].grants

\* The rows of one change carry the codes it was made of.
LEMMA StampedCodes ==
  ASSUME NEW grants, NEW stamp
  PROVE  Codes({[code |-> p, by |-> stamp] : p \in grants}) = grants
<1> DEFINE rows == {[code |-> p, by |-> stamp] : p \in grants}
<1>1. ASSUME NEW c \in Codes(rows) PROVE c \in grants
  <2>1. PICK row \in rows : c = row.code
    BY <1>1 DEF Codes
  <2>2. PICK p \in grants : row = [code |-> p, by |-> stamp]
    BY <2>1
  <2> QED
    BY <2>1, <2>2
<1>2. ASSUME NEW p \in grants PROVE p \in Codes(rows)
  <2>1. [code |-> p, by |-> stamp] \in rows
    OBVIOUS
  <2>2. [code |-> p, by |-> stamp].code = p
    OBVIOUS
  <2> HIDE DEF rows
  <2> QED
    BY <2>1, <2>2 DEF Codes
<1> QED
  BY <1>1, <1>2

\* The codes of the rows a commit leaves: the survivors' and its own.
LEMMA CommittedCodes ==
  ASSUME NEW r \in Requests, SetCommit(r)
  PROVE  Codes(role') = Codes(Survivors(r)) \cup request[r].grants
<1> DEFINE own == {[code |-> p, by |-> request[r].by] : p \in request[r].grants}
<1>1. role' = Survivors(r) \cup own
  BY DEF SetCommit
<1>2. Codes(own) = request[r].grants
  BY StampedCodes
<1> HIDE DEF own
<1>3. Codes(Survivors(r) \cup own) = Codes(Survivors(r)) \cup Codes(own)
  BY DEF Codes
<1> QED
  BY <1>1, <1>2, <1>3

\* The seeded role has every permission.
LEMMA SeededCodes == Init => Codes(role) = Permissions
  BY StampedCodes DEF Init

\* The seeded administrator role has the keys.
LEMMA KeysInit == Init => KeysEverywhere
  BY KeysAssumption, SeededCodes DEF Init, KeysEverywhere, Idle, NotCached

\* Every step keeps the keys everywhere.
LEMMA KeysStep == TypeOK /\ KeysEverywhere /\ [Next]_vars => KeysEverywhere'
<1> SUFFICES ASSUME TypeOK, KeysEverywhere, [Next]_vars PROVE KeysEverywhere'
  OBVIOUS
<1>1. ASSUME NEW r \in Requests, LookupRead(r) PROVE KeysEverywhere'
  BY <1>1 DEF LookupRead, KeysEverywhere, TypeOK
<1>2. ASSUME NEW r \in Requests, LookupStore(r) PROVE KeysEverywhere'
  <2>1. Keys \subseteq request[r].grants
    BY <1>2 DEF LookupStore, At, Idle, KeysEverywhere
  <2> QED
    BY <1>2, <2>1 DEF LookupStore, Finish, KeysEverywhere, TypeOK
<1>3. ASSUME NEW r \in Requests, SetBegin(r) PROVE KeysEverywhere'
  BY <1>3 DEF SetBegin, Acceptable, KeysEverywhere, TypeOK
<1>4. ASSUME NEW r \in Requests, SetDelete(r) PROVE KeysEverywhere'
  <2>1. Keys \subseteq request[r].grants
    BY <1>4 DEF SetDelete, At, Idle, KeysEverywhere
  <2> QED
    BY <1>4, <2>1 DEF SetDelete, KeysEverywhere, TypeOK
<1>5. ASSUME NEW r \in Requests, SetCommit(r) PROVE KeysEverywhere'
  <2>1. Keys \subseteq request[r].grants
    BY <1>5 DEF SetCommit, At, Idle, KeysEverywhere
  <2>2. Keys \subseteq Codes(role')
    BY <1>5, <2>1, CommittedCodes
  <2>3. Codes(role)' = Codes(role')
    BY DEF Codes
  <2> QED
    BY <1>5, <2>1, <2>2, <2>3 DEF SetCommit, KeysEverywhere, TypeOK
<1>6. ASSUME NEW r \in Requests, SetRefused(r) PROVE KeysEverywhere'
  BY <1>6 DEF SetRefused, Finish, KeysEverywhere, TypeOK
<1>7. ASSUME NEW r \in Requests, SetInvalidate(r) PROVE KeysEverywhere'
  BY <1>7 DEF SetInvalidate, Finish, KeysEverywhere, TypeOK
<1>8. ASSUME NEW i \in Instances, Expire(i) PROVE KeysEverywhere'
  BY <1>8 DEF Expire, Usable, KeysEverywhere, TypeOK
<1>9. ASSUME NEW i \in Instances, Restart(i) PROVE KeysEverywhere'
  BY <1>9 DEF Restart, KeysEverywhere, TypeOK
<1>10. CASE UNCHANGED vars
  BY <1>10 DEF vars, KeysEverywhere, Codes
<1> QED
  BY <1>1, <1>2, <1>3, <1>4, <1>5, <1>6, <1>7, <1>8, <1>9, <1>10 DEF Next, Continue

\* However replacements, cache fills and restarts overlap, the administrator role
\* keeps its keys in the table and in every cache.
THEOREM KeysAreKeptHolds == Spec => []KeysAreKept
<1>1. KeysEverywhere => KeysAreKept
  BY DEF KeysEverywhere, KeysAreKept, Usable
<1> QED
  BY <1>1, KeysInit, KeysStep, RoleTypeCorrect, PTL DEF Spec

-----------------------------------------------------------------------------
(* Replacements do not merge *)

\* Handlers whose transaction is still to commit.
Writing(r) == request[r].pc \in {"delete", "insert"}

\* Stamps are drawn in order and used once: no row in the table or seen by a
\* transaction carries the stamp of one that is still to commit.
StampsAreFresh ==
  /\ \A row \in role : row.by <= change
  /\ \A r \in Requests : Writing(r) =>
       /\ request[r].by <= change
       /\ \A row \in role : row.by # request[r].by
       /\ \A row \in request[r].sees : row.by <= change
       /\ \A s \in Requests : Writing(s) =>
            /\ s # r => request[s].by # request[r].by
            /\ \A row \in request[s].sees : row.by # request[r].by

\* A transaction has seen the whole table or nothing of it.
SeenWholeOrNot ==
  \A r \in Requests : request[r].pc = "insert" =>
    request[r].sees = role \/ request[r].sees \cap role = {}

\* What makes replacements collide instead of merge.
NoMerge == StampsAreFresh /\ SeenWholeOrNot /\ GrantsAreOneChoice

\* The seeded rows carry the stamp no request draws.
LEMMA NoMergeInit == Init => NoMerge
<1> SUFFICES ASSUME Init PROVE NoMerge
  OBVIOUS
<1>1. GrantsAreOneChoice
  BY SeededCodes DEF Init, GrantsAreOneChoice
<1>2. change = 0 /\ \A row \in role : row.by = 0
  BY DEF Init
<1>3. \A r \in Requests : request[r].pc = "idle"
  BY DEF Init, Idle
<1> QED
  BY <1>1, <1>2, <1>3 DEF NoMerge, StampsAreFresh, SeenWholeOrNot, Writing

\* On a role with keys, a transaction that has not seen the table cannot commit:
\* the keys it inserts are there already.
LEMMA CommitsReplace ==
  ASSUME Keys # {}, KeysEverywhere, SeenWholeOrNot, NEW r \in Requests, SetCommit(r)
  PROVE  Survivors(r) = {} /\ request[r].sees = role
<1>1. request[r].pc = "insert" /\ request[r] # Idle
  BY DEF SetCommit, At, Idle
<1>2. Keys \subseteq request[r].grants /\ Keys \subseteq Codes(role)
  BY <1>1 DEF KeysEverywhere
<1>3. Codes(Survivors(r)) \cap request[r].grants = {}
  BY DEF SetCommit
<1>4. request[r].sees \cap role # {}
  <2> SUFFICES ASSUME request[r].sees \cap role = {} PROVE FALSE
    OBVIOUS
  <2>1. Survivors(r) = role
    BY DEF Survivors
  <2> QED
    BY <1>2, <1>3, <2>1
<1>5. request[r].sees = role
  BY <1>1, <1>4 DEF SeenWholeOrNot
<1> QED
  BY <1>5 DEF Survivors

\* Every step keeps replacements apart, on a role with keys.
LEMMA NoMergeStep ==
  ASSUME Keys # {}, TypeOK, TypeOK', KeysEverywhere, NoMerge, [Next]_vars
  PROVE  NoMerge'
<1> USE MaxChangesAssumption
<1>t. change \in Nat /\ \A row \in Row : row.by \in Nat
  BY DEF TypeOK, Row
<1>m. \A r \in Requests : Writing(r) =>
        request[r].by \in Nat /\ request[r].sees \subseteq Row
  BY SettingMemory DEF Writing
<1>1. ASSUME NEW r \in Requests, LookupRead(r) \/ LookupStore(r) PROVE NoMerge'
  <2>1. /\ UNCHANGED <<role, change, chosen>>
        /\ request'[r].pc \in {"store", "idle"}
        /\ \A s \in Requests \ {r} : request'[s] = request[s]
    BY <1>1 DEF LookupRead, LookupStore, Finish, Idle, TypeOK
  <2> QED
    BY <2>1 DEF NoMerge, StampsAreFresh, SeenWholeOrNot, GrantsAreOneChoice, Writing, Codes
<1>2. ASSUME NEW r \in Requests, SetBegin(r) PROVE NoMerge'
  <2>1. /\ UNCHANGED <<role, chosen>> /\ change' = change + 1
        /\ request'[r].pc = "delete" /\ request'[r].by = change + 1 /\ request'[r].sees = {}
        /\ \A s \in Requests \ {r} : request'[s] = request[s]
    BY <1>2 DEF SetBegin, TypeOK
  <2>2. StampsAreFresh'
    <3>1. \A row \in role : row.by \in Nat /\ row.by <= change
      BY <1>t DEF NoMerge, StampsAreFresh, TypeOK
    <3>2. \A s \in Requests : Writing(s) =>
            /\ request[s].by \in Nat /\ request[s].by <= change
            /\ \A row \in request[s].sees : row.by \in Nat /\ row.by <= change
      BY <1>t, <1>m DEF NoMerge, StampsAreFresh
    <3> QED
      BY <1>t, <2>1, <3>1, <3>2 DEF NoMerge, StampsAreFresh, Writing
  <2> QED
    BY <2>1, <2>2 DEF NoMerge, SeenWholeOrNot, GrantsAreOneChoice, Codes
<1>3. ASSUME NEW r \in Requests, SetDelete(r) PROVE NoMerge'
  <2>1. /\ UNCHANGED <<role, change, chosen>>
        /\ request[r].pc = "delete"
        /\ request'[r].pc = "insert" /\ request'[r].by = request[r].by /\ request'[r].sees = role
        /\ \A s \in Requests \ {r} : request'[s] = request[s]
    BY <1>3, SettingMemory DEF SetDelete, At, TypeOK
  <2> QED
    BY <2>1 DEF NoMerge, StampsAreFresh, SeenWholeOrNot, GrantsAreOneChoice, Writing, Codes
<1>4. ASSUME NEW r \in Requests, SetCommit(r) PROVE NoMerge'
  <2>1. Survivors(r) = {} /\ request[r].sees = role
    BY <1>4, CommitsReplace DEF NoMerge
  <2>2. /\ role' = {[code |-> p, by |-> request[r].by] : p \in request[r].grants}
        /\ chosen' = request[r].grants /\ change' = change
        /\ request[r].pc = "insert"
        /\ request'[r].pc = "invalidate"
        /\ \A s \in Requests \ {r} : request'[s] = request[s]
    BY <1>4, <2>1, SettingMemory DEF SetCommit, At, TypeOK
  <2>3. \A row \in role' : row.by = request[r].by
    BY <2>2
  <2>4. StampsAreFresh'
    BY <2>2, <2>3 DEF NoMerge, StampsAreFresh, Writing
  <2>5. SeenWholeOrNot'
    BY <2>2, <2>3 DEF NoMerge, StampsAreFresh, SeenWholeOrNot, Writing
  <2>6. GrantsAreOneChoice'
    <3>1. Codes({[code |-> p, by |-> request[r].by] : p \in request[r].grants})
            = request[r].grants
      BY StampedCodes
    <3> QED
      BY <2>2, <3>1 DEF GrantsAreOneChoice, Codes
  <2> QED
    BY <2>4, <2>5, <2>6 DEF NoMerge
<1>5. ASSUME NEW r \in Requests, SetRefused(r) \/ SetInvalidate(r) PROVE NoMerge'
  <2>1. /\ UNCHANGED <<role, change, chosen>>
        /\ request'[r].pc = "idle"
        /\ \A s \in Requests \ {r} : request'[s] = request[s]
    BY <1>5 DEF SetRefused, SetInvalidate, Finish, Idle, TypeOK
  <2> QED
    BY <2>1 DEF NoMerge, StampsAreFresh, SeenWholeOrNot, GrantsAreOneChoice, Writing, Codes
<1>6. ASSUME NEW i \in Instances, Restart(i) PROVE NoMerge'
  <2>1. /\ UNCHANGED <<role, change, chosen>>
        /\ \A s \in Requests : request'[s] = request[s] \/ request'[s].pc = "idle"
    BY <1>6 DEF Restart, Idle
  <2> QED
    BY <2>1 DEF NoMerge, StampsAreFresh, SeenWholeOrNot, GrantsAreOneChoice, Writing, Codes
<1>7. CASE UNCHANGED <<role, change, chosen, request>>
  BY <1>7 DEF NoMerge, StampsAreFresh, SeenWholeOrNot, GrantsAreOneChoice, Writing, Codes
<1> QED
  BY <1>1, <1>2, <1>3, <1>4, <1>5, <1>6, <1>7 DEF Next, Continue, Expire, vars

\* On a role that must keep keys, overlapping replacements never merge: what the
\* role grants is what the last one to commit asked for.
THEOREM GrantsAreOneChoiceHolds ==
  ASSUME Keys # {}
  PROVE  Spec => []GrantsAreOneChoice
<1>1. TypeOK /\ TypeOK' /\ KeysEverywhere /\ NoMerge /\ [Next]_vars => NoMerge'
  BY NoMergeStep
<1>2. NoMerge => GrantsAreOneChoice
  BY DEF NoMerge
<1>3. Spec => []KeysEverywhere
  BY KeysInit, KeysStep, RoleTypeCorrect, PTL DEF Spec
<1> QED
  BY <1>1, <1>2, <1>3, NoMergeInit, RoleTypeCorrect, PTL DEF Spec

-----------------------------------------------------------------------------
(* As long as handlers follow one another *)

Alone == \A r, s \in Requests : request[r] # Idle /\ request[s] # Idle => r = s

\* What a lookup is about to store is what the table holds.
LookupsAreFresh == \A r \in Requests : At(r, "store") => request[r].grants = Codes(role)

Forgetting(i) == \E r \in Requests : At(r, "invalidate") /\ request[r].on = i

\* The instance that replaced the permissions serves the new ones, or is about to forget.
ServesTheLast ==
  \A i \in Instances : last = i /\ Usable(cache[i]) =>
    cache[i].grants = Codes(role) \/ Forgetting(i)

UntilInv == ~overlapped => Alone /\ LookupsAreFresh /\ ServesTheLast

\* Until handlers overlap, the one whose step it is was the only one, and still is.
LEMMA OnlyOne ==
  ASSUME TypeOK, Alone, MCNext, ~overlapped', NEW r \in Requests,
         LookupRead(r) \/ SetBegin(r) \/ Continue(r)
  PROVE  \A s \in Requests \ {r} : request[s] = Idle /\ request'[s] = Idle
<1>1. \A s \in Requests \ {r} : request'[s] = request[s]
  BY DEF LookupRead, SetBegin, Continue, LookupStore, SetDelete, SetCommit, SetRefused,
         SetInvalidate, Finish, TypeOK
<1>2. \A s, t \in Requests : request'[s] # Idle /\ request'[t] # Idle => s = t
  BY DEF MCNext
<1>3. CASE LookupRead(r) \/ SetBegin(r)
  <2>1. request'[r] # Idle
    BY <1>3 DEF LookupRead, SetBegin, Idle, TypeOK
  <2> QED
    BY <1>1, <1>2, <2>1
<1>4. CASE Continue(r)
  <2>1. request[r] # Idle
    BY <1>4 DEF Continue, LookupStore, SetDelete, SetCommit, SetRefused, SetInvalidate, At, Idle
  <2> QED
    BY <1>1, <2>1 DEF Alone
<1> QED
  BY <1>3, <1>4

\* A step leaves the lookups and the instance that replaced the permissions up to date.
LEMMA ServesStep ==
  ASSUME TypeOK, Alone, LookupsAreFresh, ServesTheLast, MCNext, ~overlapped'
  PROVE  LookupsAreFresh' /\ ServesTheLast'
<1> USE DEF LookupsAreFresh, ServesTheLast, Forgetting, At
<1>0. Idle.pc = "idle"
  BY DEF Idle
<1>1. ASSUME NEW r \in Requests, LookupRead(r) PROVE LookupsAreFresh' /\ ServesTheLast'
  <2>1. /\ UNCHANGED <<role, cache, last>> /\ request[r].pc = "idle"
        /\ request'[r].pc = "store" /\ request'[r].grants = Codes(role)
        /\ \A s \in Requests \ {r} : request'[s] = request[s]
    BY <1>1 DEF LookupRead, TypeOK
  <2> QED
    BY <2>1 DEF Codes, Usable
<1>2. ASSUME NEW r \in Requests, LookupStore(r) PROVE LookupsAreFresh' /\ ServesTheLast'
  <2>1. request[r].on \in Instances /\ request[r].pc = "store" /\ request[r].grants = Codes(role)
    BY <1>2, FillMemory DEF LookupStore
  <2>2. /\ UNCHANGED <<role, last>>
        /\ request'[r].pc = "idle" /\ \A s \in Requests \ {r} : request'[s] = request[s]
        /\ cache'[request[r].on].grants = Codes(role)
        /\ \A i \in Instances \ {request[r].on} : cache'[i] = cache[i]
    BY <1>0, <1>2, <2>1 DEF LookupStore, Finish, TypeOK
  <2> QED
    BY <2>1, <2>2 DEF Codes, Usable
<1>3. ASSUME NEW r \in Requests, SetBegin(r) PROVE LookupsAreFresh' /\ ServesTheLast'
  <2>1. /\ UNCHANGED <<role, cache, last>> /\ request[r].pc = "idle" /\ request'[r].pc = "delete"
        /\ \A s \in Requests \ {r} : request'[s] = request[s]
    BY <1>3 DEF SetBegin, TypeOK
  <2> QED
    BY <2>1 DEF Codes, Usable
<1>4. ASSUME NEW r \in Requests, SetDelete(r) PROVE LookupsAreFresh' /\ ServesTheLast'
  <2>1. /\ UNCHANGED <<role, cache, last>> /\ request[r].pc = "delete" /\ request'[r].pc = "insert"
        /\ \A s \in Requests \ {r} : request'[s] = request[s]
    BY <1>4, SettingMemory DEF SetDelete, TypeOK
  <2> QED
    BY <2>1 DEF Codes, Usable
<1>5. ASSUME NEW r \in Requests, SetCommit(r) PROVE LookupsAreFresh' /\ ServesTheLast'
  <2>1. /\ last' = request[r].on /\ cache' = cache
        /\ request'[r].pc = "invalidate" /\ request'[r].on = request[r].on
    BY <1>5, SettingMemory DEF SetCommit, TypeOK
  <2>2. \A s \in Requests \ {r} : request'[s].pc = "idle"
    BY <1>0, <1>5, OnlyOne DEF Continue
  <2> QED
    BY <2>1, <2>2
<1>6. ASSUME NEW r \in Requests, SetRefused(r) PROVE LookupsAreFresh' /\ ServesTheLast'
  <2>1. /\ UNCHANGED <<role, cache, last>> /\ request[r].pc = "insert" /\ request'[r].pc = "idle"
        /\ \A s \in Requests \ {r} : request'[s] = request[s]
    BY <1>0, <1>6 DEF SetRefused, Finish, TypeOK
  <2> QED
    BY <2>1 DEF Codes, Usable
<1>7. ASSUME NEW r \in Requests, SetInvalidate(r) PROVE LookupsAreFresh' /\ ServesTheLast'
  <2>1. /\ UNCHANGED <<role, last>> /\ request'[r].pc = "idle"
        /\ \A s \in Requests \ {r} : request'[s] = request[s]
        /\ cache'[request[r].on] = NotCached
        /\ \A i \in Instances \ {request[r].on} : cache'[i] = cache[i]
    BY <1>0, <1>7, SettingMemory DEF SetInvalidate, Finish, TypeOK
  <2> QED
    BY <2>1 DEF Codes, Usable
<1>8. ASSUME NEW j \in Instances, Expire(j) PROVE LookupsAreFresh' /\ ServesTheLast'
  <2>1. /\ UNCHANGED <<role, last, request>> /\ ~cache'[j].valid
        /\ \A i \in Instances \ {j} : cache'[i] = cache[i]
    BY <1>8 DEF Expire, Usable, TypeOK, Entry
  <2> QED
    BY <2>1 DEF Codes, Usable
<1>9. ASSUME NEW j \in Instances, Restart(j) PROVE LookupsAreFresh' /\ ServesTheLast'
  <2>1. /\ UNCHANGED <<role, last>> /\ cache'[j] = NotCached
        /\ \A i \in Instances \ {j} : cache'[i] = cache[i]
        /\ \A s \in Requests : request'[s] = request[s] \/ request'[s].pc = "idle"
        /\ \A s \in Requests : request[s].on # j => request'[s] = request[s]
    BY <1>0, <1>9 DEF Restart, TypeOK
  <2> QED
    BY <2>1 DEF Codes, Usable
<1> QED
  BY <1>1, <1>2, <1>3, <1>4, <1>5, <1>6, <1>7, <1>8, <1>9 DEF MCNext, Next, Continue

LEMMA UntilStep == TypeOK /\ UntilInv /\ [MCNext]_<<vars, overlapped>> => UntilInv'
<1> SUFFICES ASSUME TypeOK, UntilInv, [MCNext]_<<vars, overlapped>>, ~overlapped'
             PROVE  Alone' /\ LookupsAreFresh' /\ ServesTheLast'
  BY DEF UntilInv
<1>1. CASE MCNext
  <2>1. ~overlapped /\ Alone'
    BY <1>1 DEF MCNext, Alone
  <2> QED
    BY <1>1, <2>1, ServesStep DEF UntilInv
<1>2. CASE UNCHANGED <<vars, overlapped>>
  BY <1>2 DEF vars, UntilInv, Alone, LookupsAreFresh, ServesTheLast, Forgetting, At, Codes, Usable
<1> QED
  BY <1>1, <1>2

\* As long as handlers follow one another, an instance that has replaced the permissions of
\* a role serves the new ones from then on.
THEOREM InvalidatedHolds == MCSpec => []InvalidatedUntilOverlap
<1>1. MCInit => TypeOK /\ UntilInv
  <2>1. MCInit => \A r \in Requests : request[r] = Idle
    BY DEF MCInit, Init
  <2>2. MCInit => \A i \in Instances : ~Usable(cache[i])
    BY DEF MCInit, Init, Usable
  <2> QED
    BY <2>1, <2>2, TypeInit DEF MCInit, UntilInv, Alone, LookupsAreFresh, ServesTheLast, At, Idle
<1>2. [MCNext]_<<vars, overlapped>> => [Next]_vars
  BY DEF MCNext, vars
<1>3. TypeOK /\ UntilInv => InvalidatedUntilOverlap
  BY DEF UntilInv, ServesTheLast, Forgetting, At, InvalidatedUntilOverlap, InvalidatedAtOnce, Idle
<1> QED
  BY <1>1, <1>2, <1>3, TypeStep, UntilStep, PTL DEF MCSpec
=============================================================================
