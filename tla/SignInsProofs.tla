---------------------------- MODULE SignInsProofs ----------------------------
(***************************************************************************)
(* Proofs about SignIns, for any accounts, sessions and handlers in        *)
(* flight: what the refresh transaction keeps true whatever overlaps it,   *)
(* and what the account and session services keep true as long as their    *)
(* handlers follow one another.                                            *)
(***************************************************************************)
EXTENDS MCSignIns, TLAPS

\* A session belongs to an account, and was rotated from a session, closed since.
Grounded(s) ==
  session[s] # Absent =>
    /\ Exists(session[s].user)
    /\ session[s].from # None =>
         session[session[s].from] # Absent /\ session[session[s].from].revoked

\* A handler works on an account, and on a session, that are there.
Bound(m) ==
  m # Idle =>
    /\ Exists(m.user)
    /\ m.op = "refresh" => session[m.from] # Absent
    /\ m.op = "change password" => session[m.keep] # Absent

SessionInv ==
  /\ TypeOK
  /\ \A s \in Sessions : Grounded(s)
  /\ \A r \in Requests : Bound(request[r])

-----------------------------------------------------------------------------
(* Rows and memories *)

LoginMemory ==
  [op : {"login"}, pc : {"write"}, user : Users, role : Roles, since : 1..MaxPasswords]
RefreshMemory == [op : {"refresh"}, pc : {"write"}, user : Users, role : Roles, from : Sessions]
PasswordMemory == [op : {"change password"}, pc : {"write"}, user : Users, keep : Sessions]
RoleMemory == [op : {"role"}, pc : {"count", "write"}, user : Users, role : Roles]
ActiveMemory == [op : {"active"}, pc : {"count", "write"}, user : Users, active : BOOLEAN]

\* A memory is of one of five kinds, told apart by its operation.
LEMMA MemoryKinds ==
  ASSUME TypeOK, NEW r \in Requests, request[r] # Idle
  PROVE  /\ request[r].op = "login" => request[r] \in LoginMemory
         /\ request[r].op = "refresh" => request[r] \in RefreshMemory
         /\ request[r].op = "change password" => request[r] \in PasswordMemory
         /\ request[r].op = "role" => request[r] \in RoleMemory
         /\ request[r].op = "active" => request[r] \in ActiveMemory
         /\ request[r].user \in Users
         /\ request[r].op \in {"login", "refresh", "change password", "role", "active"}
         /\ request[r].pc # "idle"
  BY DEF TypeOK, Memory, LoginMemory, RefreshMemory, PasswordMemory, RoleMemory, ActiveMemory

\* An account, and a session, that is there has a row.
LEMMA Rows ==
  ASSUME TypeOK
  PROVE  /\ \A u \in Users : Exists(u) <=> account[u] \in AccountRow
         /\ \A s \in Sessions : session[s] # Absent <=> session[s] \in SessionRow
         /\ \A x \in AccountRow \cup SessionRow : x # Absent
<1>1. \A x \in AccountRow : x # Absent
  <2>1. Absent = [row |-> "absent"]
    BY DEF Absent
  <2>2. \A x \in AccountRow : DOMAIN x = {"role", "active", "password"}
    BY DEF AccountRow
  <2> QED
    BY <2>1, <2>2
<1>2. \A x \in SessionRow : x # Absent
  <2>1. \A x \in SessionRow : DOMAIN x = {"user", "revoked", "expired", "role", "from", "since"}
    BY DEF SessionRow
  <2> QED
    BY <2>1 DEF Absent
<1> QED
  BY <1>1, <1>2 DEF TypeOK, Exists

-----------------------------------------------------------------------------
(* The sessions *)

\* Steps that write the accounts or the sessions.
Writes(r) ==
  \/ LoginWrite(r) \/ RefreshWrite(r) \/ ChangePasswordWrite(r)
  \/ ChangeRoleWrite(r) \/ SetActiveWrite(r)
AtOnce ==
  \/ \E s \in Sessions : Revoke(s) \/ Expire(s)
  \/ \E u \in Users : RevokeAll(u) \/ ResetPassword(u) \/ Create(u)

\* Nothing else writes them.
LEMMA Writers ==
  ASSUME [Next]_vars
  PROVE  \/ account' = account /\ session' = session
         \/ \E r \in Requests : Writes(r)
         \/ AtOnce
  BY DEF Next, vars, Writes, AtOnce, LoginLoad, RefreshLoad, ChangePasswordLoad, ChangeRoleLoad,
         SetActiveLoad, CountAdmins, Abort

\* A session that was there still is: not reopened and not handed over.
Kept(s) ==
  session[s] # Absent =>
    /\ session'[s] \in SessionRow
    /\ session'[s].user = session[s].user
    /\ session'[s].from = session[s].from
    /\ session'[s].role = session[s].role
    /\ session[s].revoked => session'[s].revoked
    /\ session[s].expired => session'[s].expired

\* Revoking leaves everything else of a session alone.
LEMMA RevokingForm ==
  ASSUME TypeOK, NEW u, NEW spared
  PROVE  /\ Revoking(u, spared) \in [Sessions -> SessionRow \cup {Absent}]
         /\ \A s \in Sessions :
              /\ session[s] = Absent <=> Revoking(u, spared)[s] = Absent
              /\ session[s] # Absent =>
                   LET new == Revoking(u, spared)[s]
                   IN /\ new \in SessionRow
                      /\ new.user = session[s].user /\ new.from = session[s].from
                      /\ new.role = session[s].role /\ new.since = session[s].since
                      /\ new.expired = session[s].expired
                      /\ session[s].revoked => new.revoked
                      /\ session[s].user = u /\ s \notin spared => new.revoked
                      /\ session[s].user # u \/ s \in spared => new = session[s]
<1> DEFINE new(s) == Revoking(u, spared)[s]
<1>1. SUFFICES ASSUME NEW s \in Sessions
               PROVE  /\ session[s] = Absent => new(s) = Absent
                      /\ session[s] # Absent =>
                           /\ new(s) \in SessionRow
                           /\ new(s).user = session[s].user /\ new(s).from = session[s].from
                           /\ new(s).role = session[s].role /\ new(s).since = session[s].since
                           /\ new(s).expired = session[s].expired
                           /\ session[s].revoked => new(s).revoked
                           /\ session[s].user = u /\ s \notin spared => new(s).revoked
                           /\ session[s].user # u \/ s \in spared => new(s) = session[s]
  BY Rows DEF Revoking
<1>2. CASE session[s] = Absent
  BY <1>2 DEF Revoking
<1>3. CASE session[s] # Absent
  <2>1. session[s] \in SessionRow
    BY <1>3, Rows
  <2>2. CASE session[s].user = u /\ s \notin spared
    <3>1. new(s) = [session[s] EXCEPT !.revoked = TRUE]
      BY <1>3, <2>2 DEF Revoking
    <3> QED
      BY <2>1, <2>2, <3>1, <1>3 DEF SessionRow
  <2>3. CASE ~(session[s].user = u /\ s \notin spared)
    <3>1. new(s) = session[s]
      BY <1>3, <2>3 DEF Revoking
    <3> QED
      BY <2>1, <2>3, <3>1, <1>3
  <2> QED
    BY <2>2, <2>3
<1> QED
  BY <1>2, <1>3

\* A new session belongs to whom its claims name.
LEMMA NewSessionForm ==
  ASSUME NEW m, m.user \in Users, m.role \in Roles,
         NEW from \in Sessions \cup {None}, NEW since \in 1..MaxPasswords
  PROVE  LET new == NewSession(m, from, since)
         IN /\ new \in SessionRow /\ new.user = m.user /\ new.role = m.role
            /\ new.from = from /\ new.since = since /\ ~new.revoked /\ ~new.expired
  BY DEF NewSession, SessionRow

\* What a refresh makes of the old session and of the new one.
LEMMA RefreshForm ==
  ASSUME SessionInv, NEW r \in Requests, RefreshWrite(r)
  PROVE  LET m == request[r]
         IN /\ m \in RefreshMemory /\ m # Idle /\ m.op = "refresh"
            /\ session[m.from] \in SessionRow /\ Exists(m.user)
            /\ session'[m.from] = [session[m.from] EXCEPT !.revoked = TRUE]
            /\ \E s \in Sessions :
                 /\ session[s] = Absent /\ s # m.from
                 /\ session'[s] = NewSession(m, m.from, session[m.from].since)
                 /\ \A t \in Sessions \ {s, m.from} : session'[t] = session[t]
                 /\ session' = [session EXCEPT ![m.from] = session'[m.from], ![s] = session'[s]]
<1> DEFINE m == request[r]
<1>1. m # Idle /\ m.op = "refresh" /\ m \in RefreshMemory
  BY MemoryKinds DEF SessionInv, RefreshWrite, At
<1>2. m.from \in Sessions /\ session[m.from] # Absent /\ Exists(m.user)
  BY <1>1 DEF SessionInv, Bound, RefreshMemory
<1>3. session[m.from] \in SessionRow
  BY <1>2, Rows DEF SessionInv
<1>4. PICK s \in Sessions :
        /\ session[s] = Absent
        /\ session' = [session EXCEPT ![m.from].revoked = TRUE,
                                      ![s] = NewSession(m, m.from, session[m.from].since)]
  BY DEF RefreshWrite
<1> DEFINE old == [session[m.from] EXCEPT !.revoked = TRUE]
           new == NewSession(m, m.from, session[m.from].since)
<1>5. s # m.from
  BY <1>2, <1>4
<1> HIDE DEF new
<1>6. session'[m.from] = old /\ session'[s] = new
      /\ \A t \in Sessions \ {s, m.from} : session'[t] = session[t]
  BY <1>2, <1>4, <1>5 DEF SessionInv, TypeOK, new
<1>7. session' = [session EXCEPT ![m.from] = session'[m.from], ![s] = session'[s]]
  BY <1>2, <1>4, <1>5 DEF SessionInv, TypeOK, new
<1> QED
  BY <1>1, <1>2, <1>3, <1>4, <1>5, <1>6, <1>7 DEF new

\* Every write of the sessions keeps them, and keeps their shape.
LEMMA SessionStep ==
  ASSUME SessionInv, [Next]_vars
  PROVE  /\ session' \in [Sessions -> SessionRow \cup {Absent}]
         /\ \A s \in Sessions : Kept(s)
<1> DEFINE Goal == /\ session' \in [Sessions -> SessionRow \cup {Absent}]
                   /\ \A s \in Sessions : Kept(s)
<1>0. TypeOK /\ \A s \in Sessions : session[s] # Absent <=> session[s] \in SessionRow
  BY Rows DEF SessionInv
<1>1. CASE session' = session
  BY <1>0, <1>1 DEF TypeOK, Kept
<1>2. ASSUME NEW u, NEW spared, session' = Revoking(u, spared) PROVE Goal
  BY <1>0, <1>2, RevokingForm DEF Kept
<1>3. ASSUME NEW s \in Sessions, Revoke(s) \/ Expire(s) PROVE Goal
  <2>1. session[s] \in SessionRow
    BY <1>0, <1>3 DEF Revoke, Expire
  <2>2. session'[s] = [session[s] EXCEPT !.revoked = TRUE]
        \/ session'[s] = [session[s] EXCEPT !.expired = TRUE]
    BY <1>0, <1>3 DEF Revoke, Expire, TypeOK
  <2>3. \A t \in Sessions \ {s} : session'[t] = session[t]
    BY <1>0, <1>3 DEF Revoke, Expire, TypeOK
  <2>4. Kept(s) /\ session'[s] \in SessionRow
    BY <2>1, <2>2 DEF Kept, SessionRow
  <2>5. session' = [session EXCEPT ![s] = session'[s]]
    BY <1>0, <1>3 DEF Revoke, Expire, TypeOK
  <2> QED
    BY <1>0, <2>3, <2>4, <2>5 DEF Kept, TypeOK
<1>4. ASSUME NEW r \in Requests, LoginWrite(r) PROVE Goal
  <2> DEFINE m == request[r]
             new == NewSession(m, None, m.since)
  <2>1. m \in LoginMemory
    BY <1>0, <1>4, MemoryKinds DEF LoginWrite, At
  <2>2. new \in SessionRow
    BY <2>1, NewSessionForm DEF LoginMemory
  <2> HIDE DEF new
  <2>3. PICK s \in Sessions : session[s] = Absent /\ session' = [session EXCEPT ![s] = new]
    BY <1>4 DEF LoginWrite, new
  <2> QED
    BY <1>0, <2>2, <2>3 DEF Kept, TypeOK
<1>5. ASSUME NEW r \in Requests, RefreshWrite(r) PROVE Goal
  <2> DEFINE m == request[r]
  <2>1. /\ m \in RefreshMemory /\ session[m.from] \in SessionRow
        /\ session'[m.from] = [session[m.from] EXCEPT !.revoked = TRUE]
    BY <1>5, RefreshForm
  <2>2. PICK s \in Sessions :
          /\ session[s] = Absent /\ s # m.from
          /\ session'[s] = NewSession(m, m.from, session[m.from].since)
          /\ \A t \in Sessions \ {s, m.from} : session'[t] = session[t]
          /\ session' = [session EXCEPT ![m.from] = session'[m.from], ![s] = session'[s]]
    BY <1>5, RefreshForm
  <2>3. session'[m.from] \in SessionRow /\ Kept(m.from)
    BY <2>1 DEF Kept, SessionRow
  <2>4. session'[s] \in SessionRow
    BY <2>1, <2>2, NewSessionForm DEF RefreshMemory, SessionRow
  <2>5. \A t \in Sessions \ {s, m.from} : Kept(t)
    BY <1>0, <2>2 DEF Kept
  <2>6. Kept(s)
    BY <2>2 DEF Kept
  <2> QED
    BY <1>0, <2>2, <2>3, <2>4, <2>5, <2>6 DEF TypeOK
<1>6. ASSUME NEW r \in Requests, ChangePasswordWrite(r) PROVE Goal
  <2> DEFINE m == request[r]
             open == Revoking(m.user, {m.keep})
             set == account'[m.user].password
  <2>1. m # Idle /\ m.op = "change password" /\ m \in PasswordMemory
    BY <1>0, <1>6, MemoryKinds DEF ChangePasswordWrite, At
  <2>2. m.keep \in Sessions /\ session[m.keep] # Absent /\ Exists(m.user) /\ m.user \in Users
    BY <2>1 DEF SessionInv, Bound, PasswordMemory
  <2>3. set \in 1..MaxPasswords
    <3>1. account[m.user] \in AccountRow
      BY <1>0, <2>2, Rows
    <3>2. account[m.user].password \in 1..MaxPasswords /\ account[m.user].password < MaxPasswords
          /\ set = account[m.user].password + 1
      BY <1>0, <1>6, <2>2, <3>1 DEF ChangePasswordWrite, SetPassword, TypeOK, AccountRow
    <3> QED
      BY <3>2, MaxPasswordsAssumption
  <2> HIDE DEF set
  <2>4. session' = [open EXCEPT ![m.keep].since = set]
    BY <1>6 DEF ChangePasswordWrite, set
  <2>5. open[m.keep] = session[m.keep] /\ session[m.keep] \in SessionRow
    BY <1>0, <2>2, RevokingForm
  <2>6. open \in [Sessions -> SessionRow \cup {Absent}]
    BY <1>0, RevokingForm
  <2> DEFINE new == [session[m.keep] EXCEPT !.since = set]
  <2>7. new \in SessionRow /\ new.user = session[m.keep].user /\ new.from = session[m.keep].from
        /\ new.revoked = session[m.keep].revoked /\ new.expired = session[m.keep].expired
        /\ new.role = session[m.keep].role
    BY <2>3, <2>5 DEF SessionRow
  <2>8. session' = [open EXCEPT ![m.keep] = new]
    BY <2>2, <2>4, <2>5, <2>6
  <2> HIDE DEF new
  <2>9. Kept(m.keep) /\ session'[m.keep] \in SessionRow
    BY <2>2, <2>6, <2>7, <2>8 DEF Kept
  <2>10. ASSUME NEW s \in Sessions \ {m.keep} PROVE Kept(s)
    <3>1. session'[s] = open[s]
      BY <2>6, <2>8
    <3> QED
      BY <1>0, <3>1, RevokingForm DEF Kept
  <2> QED
    BY <2>6, <2>7, <2>8, <2>9, <2>10
<1>7. ASSUME NEW r \in Requests, ChangeRoleWrite(r) \/ SetActiveWrite(r) PROVE Goal
  BY <1>1, <1>2, <1>7 DEF ChangeRoleWrite, SetActiveWrite
<1>8. ASSUME NEW u \in Users, RevokeAll(u) \/ ResetPassword(u) \/ Create(u) PROVE Goal
  BY <1>1, <1>2, <1>8 DEF RevokeAll, ResetPassword, Create
<1> QED
  BY <1>1, <1>3, <1>4, <1>5, <1>6, <1>7, <1>8, Writers DEF Writes, AtOnce

\* Accounts keep their shape, and none is ever deleted.
LEMMA AccountStep ==
  ASSUME SessionInv, [Next]_vars
  PROVE  /\ account' \in [Users -> AccountRow \cup {Absent}]
         /\ \A u \in Users : Exists(u) => Exists(u)'
<1> DEFINE Goal == /\ account' \in [Users -> AccountRow \cup {Absent}]
                   /\ \A u \in Users : Exists(u) => Exists(u)'
<1>0. TypeOK
  BY DEF SessionInv
<1>1. CASE account' = account
  BY <1>0, <1>1 DEF TypeOK, Exists
<1>2. ASSUME NEW u \in Users, NEW row \in AccountRow, account' = [account EXCEPT ![u] = row]
      PROVE  Goal
  BY <1>0, <1>2, Rows DEF TypeOK, Exists
<1>3. ASSUME NEW u \in Users, Exists(u), SetPassword(u) PROVE Goal
  <2>1. account[u] \in AccountRow
    BY <1>0, <1>3, Rows
  <2> DEFINE row == [account[u] EXCEPT !.password = account[u].password + 1]
  <2>2. row \in AccountRow
    BY <1>3, <2>1, MaxPasswordsAssumption DEF SetPassword, AccountRow
  <2>3. account' = [account EXCEPT ![u] = row]
    BY <1>0, <1>3 DEF SetPassword, TypeOK
  <2> HIDE DEF row
  <2> QED
    BY <1>2, <2>2, <2>3
<1>4. ASSUME NEW r \in Requests, ChangePasswordWrite(r) PROVE Goal
  <2>1. request[r].user \in Users /\ Exists(request[r].user)
    BY <1>0, <1>4, MemoryKinds DEF ChangePasswordWrite, At, SessionInv, Bound
  <2> QED
    BY <1>3, <1>4, <2>1 DEF ChangePasswordWrite
<1>5. ASSUME NEW r \in Requests, ChangeRoleWrite(r) PROVE Goal
  <2> DEFINE u == request[r].user
             row == [account[u] EXCEPT !.role = request[r].role]
  <2>1. u \in Users /\ Exists(u) /\ request[r].role \in Roles
    BY <1>0, <1>5, MemoryKinds DEF ChangeRoleWrite, At, SessionInv, Bound, RoleMemory
  <2>2. row \in AccountRow
    BY <1>0, <2>1, Rows DEF AccountRow
  <2>3. account' = [account EXCEPT ![u] = row]
    BY <1>0, <1>5 DEF ChangeRoleWrite, TypeOK
  <2> HIDE DEF row
  <2> QED
    BY <1>2, <2>1, <2>2, <2>3
<1>6. ASSUME NEW r \in Requests, SetActiveWrite(r) PROVE Goal
  <2> DEFINE u == request[r].user
             row == [account[u] EXCEPT !.active = request[r].active]
  <2>1. u \in Users /\ Exists(u) /\ request[r].active \in BOOLEAN
    BY <1>0, <1>6, MemoryKinds DEF SetActiveWrite, At, SessionInv, Bound, ActiveMemory
  <2>2. row \in AccountRow
    BY <1>0, <2>1, Rows DEF AccountRow
  <2>3. account' = [account EXCEPT ![u] = row]
    BY <1>0, <1>6 DEF SetActiveWrite, TypeOK
  <2> HIDE DEF row
  <2> QED
    BY <1>2, <2>1, <2>2, <2>3
<1>7. ASSUME NEW u \in Users, Create(u) PROVE Goal
  <2>1. PICK role \in Roles :
          account' = [account EXCEPT ![u] = [role |-> role, active |-> TRUE, password |-> 1]]
    BY <1>7 DEF Create
  <2>2. [role |-> role, active |-> TRUE, password |-> 1] \in AccountRow
    BY MaxPasswordsAssumption DEF AccountRow
  <2> QED
    BY <1>2, <2>1, <2>2
<1>8. ASSUME NEW u \in Users, RevokeAll(u) \/ ResetPassword(u) PROVE Goal
  BY <1>1, <1>3, <1>8 DEF RevokeAll, ResetPassword
<1>9. ASSUME NEW r \in Requests, LoginWrite(r) \/ RefreshWrite(r) PROVE Goal
  BY <1>1, <1>9 DEF LoginWrite, RefreshWrite
<1>10. ASSUME NEW s \in Sessions, Revoke(s) \/ Expire(s) PROVE Goal
  BY <1>1, <1>10 DEF Revoke, Expire
<1> QED
  BY <1>1, <1>4, <1>5, <1>6, <1>7, <1>8, <1>9, <1>10, Writers DEF Writes, AtOnce

\* A session that was not there before was opened by a sign-in, or rotated from one that
\* is closed by the same write.
LEMMA Opened ==
  ASSUME SessionInv, [Next]_vars, NEW s \in Sessions, session[s] = Absent, session'[s] # Absent
  PROVE  \E r \in Requests :
           /\ request[r] # Idle /\ session'[s].user = request[r].user
           /\ session'[s].role = request[r].role
           /\ \/ /\ LoginWrite(r) /\ session'[s].from = None
                 /\ session'[s].since = request[r].since
              \/ /\ RefreshWrite(r)
                 /\ session'[s].from = request[r].from
                 /\ session'[s].since = session[request[r].from].since
                 /\ session'[request[r].from].revoked
<1>0. TypeOK
  BY DEF SessionInv
<1>1. ASSUME NEW r \in Requests, LoginWrite(r)
      PROVE  /\ request[r] # Idle /\ session'[s].user = request[r].user
             /\ session'[s].role = request[r].role /\ session'[s].from = None
             /\ session'[s].since = request[r].since
  <2>1. request[r] # Idle /\ request[r] \in LoginMemory
    BY <1>0, <1>1, MemoryKinds DEF LoginWrite, At
  <2>2. PICK t \in Sessions :
          session' = [session EXCEPT ![t] = NewSession(request[r], None, request[r].since)]
    BY <1>1 DEF LoginWrite
  <2>3. s = t
    BY <1>0, <2>2 DEF TypeOK
  <2>4. session'[s] = NewSession(request[r], None, request[r].since)
    BY <1>0, <2>2, <2>3 DEF TypeOK
  <2>5. request[r].user \in Users /\ request[r].role \in Roles
        /\ request[r].since \in 1..MaxPasswords
    BY <2>1 DEF LoginMemory
  <2> DEFINE m == request[r]
             new == NewSession(m, None, m.since)
  <2>6. new.user = m.user /\ new.role = m.role /\ new.from = None /\ new.since = m.since
    BY DEF NewSession
  <2> HIDE DEF new
  <2>7. session'[s] = new
    BY <2>4 DEF new
  <2> QED
    BY <2>1, <2>6, <2>7
<1>2. ASSUME NEW r \in Requests, RefreshWrite(r)
      PROVE  /\ request[r] # Idle /\ session'[s].user = request[r].user
             /\ session'[s].role = request[r].role
             /\ session'[s].from = request[r].from
             /\ session'[s].since = session[request[r].from].since
             /\ session'[request[r].from].revoked
  <2> DEFINE m == request[r]
  <2>1. /\ m \in RefreshMemory /\ m # Idle /\ session[m.from] \in SessionRow
        /\ session'[m.from] = [session[m.from] EXCEPT !.revoked = TRUE]
    BY <1>2, RefreshForm
  <2>2. PICK t \in Sessions :
          /\ session'[t] = NewSession(m, m.from, session[m.from].since)
          /\ \A x \in Sessions \ {t, m.from} : session'[x] = session[x]
    BY <1>2, RefreshForm
  <2>3. s = t
    BY <1>0, <2>1, <2>2, Rows
  <2>4. m.user \in Users /\ m.role \in Roles /\ m.from \in Sessions
        /\ session[m.from].since \in 1..MaxPasswords
    BY <2>1 DEF RefreshMemory, SessionRow
  <2>5. session'[m.from].revoked
    BY <2>1 DEF SessionRow
  <2> QED
    BY <2>1, <2>2, <2>3, <2>4, <2>5, NewSessionForm
<1>3. ASSUME NEW u, NEW spared, session' = Revoking(u, spared) PROVE FALSE
  BY <1>0, <1>3, RevokingForm
<1>4. ASSUME NEW r \in Requests, ChangePasswordWrite(r) PROVE FALSE
  <2> DEFINE m == request[r]
  <2>1. m # Idle /\ m \in PasswordMemory /\ m.op = "change password"
    BY <1>0, <1>4, MemoryKinds DEF ChangePasswordWrite, At
  <2>2. session[m.keep] # Absent
    BY <2>1 DEF SessionInv, Bound
  <2>3. Revoking(m.user, {m.keep}) \in [Sessions -> SessionRow \cup {Absent}]
        /\ Revoking(m.user, {m.keep})[s] = Absent
    BY <1>0, RevokingForm
  <2>4. session'[s] = Revoking(m.user, {m.keep})[s]
    BY <1>4, <2>2, <2>3 DEF ChangePasswordWrite
  <2> QED
    BY <2>3, <2>4
<1>5. ASSUME NEW r \in Requests, ChangeRoleWrite(r) \/ SetActiveWrite(r) PROVE FALSE
  BY <1>3, <1>5 DEF ChangeRoleWrite, SetActiveWrite
<1>6. ASSUME AtOnce PROVE FALSE
  <2>1. ASSUME NEW t \in Sessions, Revoke(t) \/ Expire(t) PROVE FALSE
    <3>1. t # s
      BY <2>1 DEF Revoke, Expire
    <3> QED
      BY <1>0, <2>1, <3>1 DEF Revoke, Expire, TypeOK
  <2>2. ASSUME NEW u \in Users, RevokeAll(u) \/ ResetPassword(u) \/ Create(u) PROVE FALSE
    BY <1>3, <2>2 DEF RevokeAll, ResetPassword, Create
  <2> QED
    BY <1>6, <2>1, <2>2 DEF AtOnce
<1> QED
  BY <1>1, <1>2, <1>4, <1>5, <1>6, Writers DEF Writes

\* Whoever a session belongs to is there, and where it came from is there and closed.
LEMMA GroundedStep ==
  ASSUME SessionInv, [Next]_vars, NEW s \in Sessions
  PROVE  Grounded(s)'
<1>0. TypeOK /\ \A x \in SessionRow : x # Absent
  BY Rows DEF SessionInv
<1>1. SUFFICES ASSUME session'[s] # Absent
               PROVE  /\ account'[session'[s].user] # Absent
                      /\ session'[s].from # None =>
                           /\ session'[session'[s].from] # Absent
                           /\ session'[session'[s].from].revoked
  BY DEF Grounded, Exists
<1>2. CASE session[s] # Absent
  <2>1. session[s] \in SessionRow /\ Grounded(s)
    BY <1>0, <1>2, Rows DEF SessionInv
  <2>2. session'[s].user = session[s].user /\ session'[s].from = session[s].from
    BY <1>2, SessionStep DEF Kept
  <2>3. account'[session[s].user] # Absent
    BY <1>2, <2>1, AccountStep DEF Grounded, SessionRow, Exists
  <2>4. ASSUME session[s].from # None
        PROVE  session'[session[s].from] # Absent /\ session'[session[s].from].revoked
    <3>1. session[s].from \in Sessions /\ session[session[s].from] # Absent
          /\ session[session[s].from].revoked
      BY <1>2, <2>1, <2>4 DEF Grounded, SessionRow
    <3> QED
      BY <1>0, <3>1, SessionStep DEF Kept
  <2> QED
    BY <2>2, <2>3, <2>4
<1>3. CASE session[s] = Absent
  <2>1. PICK r \in Requests :
          /\ request[r] # Idle /\ session'[s].user = request[r].user
          /\ \/ session'[s].from = None
             \/ /\ RefreshWrite(r) /\ session'[s].from = request[r].from
                /\ session'[request[r].from].revoked
    BY <1>1, <1>3, Opened
  <2>2. request[r].user \in Users /\ Exists(request[r].user)
    BY <1>0, <2>1, MemoryKinds DEF SessionInv, Bound
  <2>3. account'[request[r].user] # Absent
    BY <2>2, AccountStep DEF Exists
  <2>4. ASSUME RefreshWrite(r) PROVE session'[request[r].from] # Absent
    <3>1. request[r].from \in Sessions /\ session[request[r].from] # Absent
      BY <1>0, <2>4, RefreshForm DEF RefreshMemory
    <3> QED
      BY <1>0, <3>1, SessionStep DEF Kept
  <2> QED
    BY <2>1, <2>3, <2>4
<1> QED
  BY <1>2, <1>3

-----------------------------------------------------------------------------
(* The handlers *)

\* A handler that begins knows an account that is there, and what it was to know.
LEMMA Begun ==
  ASSUME SessionInv, NEW r \in Requests,
         LoginLoad(r) \/ RefreshLoad(r) \/ ChangePasswordLoad(r) \/ ChangeRoleLoad(r)
           \/ SetActiveLoad(r)
  PROVE  /\ account' = account /\ session' = session
         /\ request' = [request EXCEPT ![r] = request'[r]]
         /\ request[r] = Idle /\ request'[r] # Idle
         /\ request'[r] \in Memory /\ request'[r].user \in Users /\ Exists(request'[r].user)
         /\ \/ /\ LoginLoad(r) /\ request'[r].op = "login"
               /\ account[request'[r].user].active
               /\ request'[r].role = account[request'[r].user].role
               /\ request'[r].since = account[request'[r].user].password
            \/ /\ RefreshLoad(r) /\ request'[r].op = "refresh"
               /\ request'[r].from \in Sessions /\ Live(request'[r].from)
               /\ request'[r].user = session[request'[r].from].user
               /\ account[request'[r].user].active
               /\ request'[r].role = account[request'[r].user].role
            \/ /\ ChangePasswordLoad(r) /\ request'[r].op = "change password"
               /\ request'[r].keep \in Sessions /\ session[request'[r].keep] # Absent
               /\ request'[r].user = session[request'[r].keep].user
            \/ /\ ChangeRoleLoad(r) /\ request'[r].op = "role"
               /\ request'[r].role # account[request'[r].user].role
               /\ request'[r].pc = "write" => account[request'[r].user].role # "admin"
            \/ /\ SetActiveLoad(r) /\ request'[r].op = "active"
               /\ request'[r].active = ~account[request'[r].user].active
               /\ request'[r].pc = "write" =>
                    request'[r].active \/ account[request'[r].user].role # "admin"
<1> DEFINE new == request'[r]
<1>0. TypeOK
  BY DEF SessionInv
<1>1. ASSUME NEW m \in Memory, Accept(r, m)
      PROVE  new = m /\ new \in Memory /\ request' = [request EXCEPT ![r] = request'[r]]
             /\ request[r] = Idle /\ new # Idle
  <2>1. m # Idle
    BY DEF Memory, Idle
  <2> QED
    BY <1>0, <1>1, <2>1 DEF Accept, TypeOK
<1>2. \A u \in Users : Exists(u) => account[u] \in AccountRow
  BY <1>0, Rows
<1>3. \A s \in Sessions : session[s] # Absent =>
        session[s] \in SessionRow /\ session[s].user \in Users /\ Exists(session[s].user)
  BY <1>0, Rows DEF SessionInv, Grounded, SessionRow
<1>4. CASE LoginLoad(r)
  <2>1. PICK u \in Users :
          /\ Exists(u) /\ account[u].active
          /\ Accept(r, [op |-> "login", pc |-> "write", user |-> u,
                        role |-> account[u].role, since |-> account[u].password])
    BY <1>4 DEF LoginLoad
  <2> DEFINE m == [op |-> "login", pc |-> "write", user |-> u,
                   role |-> account[u].role, since |-> account[u].password]
  <2>2. account[u].role \in Roles /\ account[u].password \in 1..MaxPasswords
    BY <1>2, <2>1 DEF AccountRow
  <2>3. m \in Memory /\ m.op = "login" /\ m.user = u /\ m.role = account[u].role
        /\ m.since = account[u].password
    BY <2>2 DEF Memory
  <2> HIDE DEF m
  <2>4. new = m /\ new \in Memory /\ request' = [request EXCEPT ![r] = request'[r]]
        /\ request[r] = Idle /\ new # Idle
    BY <1>1, <2>1, <2>3 DEF m
  <2> QED
    BY <1>4, <2>1, <2>3, <2>4 DEF LoginLoad
<1>5. CASE RefreshLoad(r)
  <2>1. PICK s \in Sessions :
          /\ Live(s) /\ account[session[s].user].active
          /\ Accept(r, [op |-> "refresh", pc |-> "write", user |-> session[s].user,
                        role |-> account[session[s].user].role, from |-> s])
    BY <1>5 DEF RefreshLoad, Refreshable
  <2> DEFINE u == session[s].user
             m == [op |-> "refresh", pc |-> "write", user |-> u,
                   role |-> account[u].role, from |-> s]
  <2>2. u \in Users /\ Exists(u) /\ account[u].role \in Roles
    BY <1>2, <1>3, <2>1 DEF AccountRow, Live
  <2>3. m \in Memory /\ m.op = "refresh" /\ m.user = u /\ m.role = account[u].role /\ m.from = s
    BY <2>2 DEF Memory
  <2> HIDE DEF m
  <2>4. new = m /\ new \in Memory /\ request' = [request EXCEPT ![r] = request'[r]]
        /\ request[r] = Idle /\ new # Idle
    BY <1>1, <2>1, <2>3 DEF m
  <2> QED
    BY <1>5, <2>1, <2>2, <2>3, <2>4 DEF RefreshLoad
<1>6. CASE ChangePasswordLoad(r)
  <2>1. PICK s \in Sessions :
          /\ session[s] # Absent
          /\ Accept(r, [op |-> "change password", pc |-> "write",
                        user |-> session[s].user, keep |-> s])
    BY <1>6 DEF ChangePasswordLoad
  <2> DEFINE m == [op |-> "change password", pc |-> "write",
                   user |-> session[s].user, keep |-> s]
  <2>2. m \in Memory /\ m.op = "change password" /\ m.user = session[s].user /\ m.keep = s
    BY <1>3, <2>1 DEF Memory
  <2> HIDE DEF m
  <2>3. new = m /\ new \in Memory /\ request' = [request EXCEPT ![r] = request'[r]]
        /\ request[r] = Idle /\ new # Idle
    BY <1>1, <2>1, <2>2 DEF m
  <2> QED
    BY <1>3, <1>6, <2>1, <2>2, <2>3 DEF ChangePasswordLoad
<1>7. CASE ChangeRoleLoad(r)
  <2>1. PICK u \in Users, role \in Roles :
          /\ Exists(u) /\ role # account[u].role
          /\ Accept(r, [op |-> "role", user |-> u, role |-> role,
                        pc |-> IF account[u].role = "admin" THEN "count" ELSE "write"])
    BY <1>7 DEF ChangeRoleLoad
  <2> DEFINE m == [op |-> "role", user |-> u, role |-> role,
                   pc |-> IF account[u].role = "admin" THEN "count" ELSE "write"]
  <2>2. /\ m \in Memory /\ m.op = "role" /\ m.user = u /\ m.role = role
        /\ m.pc = "write" => account[u].role # "admin"
    BY DEF Memory
  <2> HIDE DEF m
  <2>3. new = m /\ new \in Memory /\ request' = [request EXCEPT ![r] = request'[r]]
        /\ request[r] = Idle /\ new # Idle
    BY <1>1, <2>1, <2>2 DEF m
  <2> QED
    BY <1>7, <2>1, <2>2, <2>3 DEF ChangeRoleLoad
<1>8. CASE SetActiveLoad(r)
  <2>1. PICK u \in Users :
          /\ Exists(u)
          /\ Accept(r, [op |-> "active", user |-> u, active |-> ~account[u].active,
                        pc |-> IF account[u].active /\ account[u].role = "admin"
                               THEN "count" ELSE "write"])
    BY <1>8 DEF SetActiveLoad
  <2> DEFINE m == [op |-> "active", user |-> u, active |-> ~account[u].active,
                   pc |-> IF account[u].active /\ account[u].role = "admin"
                          THEN "count" ELSE "write"]
  <2>2. /\ m \in Memory /\ m.op = "active" /\ m.user = u /\ m.active = ~account[u].active
    BY DEF Memory
  <2>3. m.pc = "write" => m.active \/ account[u].role # "admin"
    BY <1>2, <2>1 DEF AccountRow
  <2> HIDE DEF m
  <2>4. new = m /\ new \in Memory /\ request' = [request EXCEPT ![r] = request'[r]]
        /\ request[r] = Idle /\ new # Idle
    BY <1>1, <2>1, <2>2 DEF m
  <2> QED
    BY <1>8, <2>1, <2>2, <2>3, <2>4 DEF SetActiveLoad
<1> QED
  BY <1>4, <1>5, <1>6, <1>7, <1>8

\* The last administrator is looked for, and the handler goes on to write, or gives up.
LEMMA Counted ==
  ASSUME SessionInv, NEW r \in Requests, CountAdmins(r)
  PROVE  LET m == request[r] new == request'[r]
         IN /\ account' = account /\ session' = session
            /\ request' = [request EXCEPT ![r] = new] /\ m # Idle /\ m.user \in Users
            /\ m.op \in {"role", "active"}
            /\ new # Idle =>
                 /\ OthersRemain(m.user) /\ new \in Memory
                 /\ new.op = m.op /\ new.user = m.user /\ new.pc = "write"
                 /\ m.op = "role" => new.role = m.role
                 /\ m.op = "active" => new.active = m.active
<1> DEFINE m == request[r]
           after == [m EXCEPT !.pc = "write"]
<1>0. TypeOK
  BY DEF SessionInv
<1>1. m # Idle /\ m.op \in {"role", "active"}
  BY DEF CountAdmins, At
<1>2. m \in RoleMemory \cup ActiveMemory /\ m.user \in Users
  BY <1>0, <1>1, MemoryKinds
<1>3. /\ after \in Memory /\ after.op = m.op /\ after.user = m.user /\ after.pc = "write"
      /\ m.op = "role" => after.role = m.role
      /\ m.op = "active" => after.active = m.active
  <2>1. CASE m \in RoleMemory
    BY <2>1 DEF RoleMemory, Memory
  <2>2. CASE m \in ActiveMemory
    BY <2>2 DEF ActiveMemory, Memory
  <2> QED
    BY <1>2, <2>1, <2>2
<1>4. request' = [request EXCEPT ![r] = IF OthersRemain(m.user) THEN after ELSE Idle]
  BY <1>0 DEF CountAdmins, TypeOK
<1> HIDE DEF after
<1>5. request'[r] = (IF OthersRemain(m.user) THEN after ELSE Idle)
      /\ request' = [request EXCEPT ![r] = request'[r]]
  BY <1>0, <1>4 DEF TypeOK
<1> QED
  BY <1>1, <1>2, <1>3, <1>5 DEF CountAdmins

\* A slot is taken by a handler that begins, left by one that ends, and changes in
\* between only when the administrators are counted.
LEMMA Slots ==
  ASSUME SessionInv, [Next]_vars
  PROVE  \/ request' = request
         \/ \E r \in Requests :
              \/ LoginLoad(r) \/ RefreshLoad(r) \/ ChangePasswordLoad(r) \/ ChangeRoleLoad(r)
                   \/ SetActiveLoad(r)
              \/ CountAdmins(r)
              \/ request[r] # Idle /\ Finish(r)
  BY DEF Next, vars, LoginWrite, RefreshWrite, ChangePasswordWrite, ChangeRoleWrite, SetActiveWrite,
         Abort, At, Revoke, Expire, RevokeAll, ResetPassword, Create

\* What a handler works on is still there.
LEMMA BoundStep ==
  ASSUME SessionInv, [Next]_vars
  PROVE  /\ request' \in [Requests -> Memory \cup {Idle}]
         /\ \A r \in Requests : Bound(request[r])'
<1>0. TypeOK /\ \A s \in Sessions : session[s] # Absent => session'[s] # Absent
  BY Rows, SessionStep DEF SessionInv, Kept
<1>1. ASSUME NEW r \in Requests, request'[r] = request[r] PROVE Bound(request[r])'
  <2> SUFFICES ASSUME request[r] # Idle
               PROVE  /\ account'[request[r].user] # Absent
                      /\ request[r].op = "refresh" => session'[request[r].from] # Absent
                      /\ request[r].op = "change password" => session'[request[r].keep] # Absent
    BY <1>1 DEF Bound, Exists
  <2>1. account'[request[r].user] # Absent
    BY <1>0, MemoryKinds, AccountStep DEF SessionInv, Bound, Exists
  <2>2. request[r].op = "refresh" => session'[request[r].from] # Absent
    BY <1>0, MemoryKinds DEF SessionInv, Bound, RefreshMemory
  <2>3. request[r].op = "change password" => session'[request[r].keep] # Absent
    BY <1>0, MemoryKinds DEF SessionInv, Bound, PasswordMemory
  <2> QED
    BY <2>1, <2>2, <2>3
<1>2. CASE request' = request
  BY <1>0, <1>1, <1>2 DEF TypeOK
<1>3. ASSUME NEW r \in Requests, request' = [request EXCEPT ![r] = request'[r]],
             request'[r] \in Memory \cup {Idle}, Bound(request[r])'
      PROVE  /\ request' \in [Requests -> Memory \cup {Idle}]
             /\ \A s \in Requests : Bound(request[s])'
  <2>1. \A s \in Requests \ {r} : request'[s] = request[s]
    BY <1>0, <1>3 DEF TypeOK
  <2>2. \A s \in Requests \ {r} : Bound(request[s])'
    BY <1>1, <2>1
  <2> QED
    BY <1>0, <1>3, <2>2 DEF TypeOK
<1>4. ASSUME NEW r \in Requests,
             LoginLoad(r) \/ RefreshLoad(r) \/ ChangePasswordLoad(r) \/ ChangeRoleLoad(r)
               \/ SetActiveLoad(r)
      PROVE  /\ request' \in [Requests -> Memory \cup {Idle}]
             /\ \A s \in Requests : Bound(request[s])'
  <2>1. Bound(request[r])'
    BY <1>4, Begun DEF Bound, Live, Exists
  <2> QED
    BY <1>3, <1>4, <2>1, Begun
<1>5. ASSUME NEW r \in Requests, CountAdmins(r)
      PROVE  /\ request' \in [Requests -> Memory \cup {Idle}]
             /\ \A s \in Requests : Bound(request[s])'
  <2>1. request'[r] \in Memory \cup {Idle} /\ request' = [request EXCEPT ![r] = request'[r]]
    BY <1>5, Counted
  <2>2. account' = account /\ Exists(request[r].user) /\ request[r].op \in {"role", "active"}
    BY <1>5, Counted DEF SessionInv, Bound
  <2>3. Bound(request[r])'
    BY <1>5, <2>2, Counted DEF Bound, Exists
  <2> QED
    BY <1>3, <2>1, <2>3
<1>6. ASSUME NEW r \in Requests, Finish(r)
      PROVE  /\ request' \in [Requests -> Memory \cup {Idle}]
             /\ \A s \in Requests : Bound(request[s])'
  <2>1. request'[r] = Idle /\ request' = [request EXCEPT ![r] = request'[r]]
    BY <1>0, <1>6 DEF Finish, TypeOK
  <2>2. Bound(request[r])'
    BY <2>1 DEF Bound
  <2> QED
    BY <1>3, <2>1, <2>2
<1> QED
  BY <1>2, <1>4, <1>5, <1>6, Slots

-----------------------------------------------------------------------------
(* What holds whatever overlaps *)

\* The seed's administrator, no session and nothing in flight.
LEMMA SessionInitially == Init => SessionInv
<1> SUFFICES ASSUME Init PROVE SessionInv
  OBVIOUS
<1>1. [role |-> "admin", active |-> TRUE, password |-> 1] \in AccountRow
  BY MaxPasswordsAssumption DEF AccountRow, Roles
<1>2. TypeOK
  BY <1>1 DEF Init, TypeOK
<1>3. \A s \in Sessions : Grounded(s)
  BY DEF Init, Grounded
<1>4. \A r \in Requests : Bound(request[r])
  BY DEF Init, Bound
<1> QED
  BY <1>2, <1>3, <1>4 DEF SessionInv

\* Every step keeps the invariant.
LEMMA SessionInvStep == SessionInv /\ [Next]_vars => SessionInv'
<1> SUFFICES ASSUME SessionInv, [Next]_vars PROVE SessionInv'
  OBVIOUS
<1>1. TypeOK'
  BY SessionStep, AccountStep, BoundStep DEF TypeOK
<1> QED
  BY <1>1, GroundedStep, BoundStep DEF SessionInv

\* It holds in every behaviour.
LEMMA SessionInvariant == Spec => []SessionInv
  BY SessionInitially, SessionInvStep, PTL DEF Spec

\* The tables and the memories keep their shapes in every behaviour.
THEOREM SignInTypeCorrect == Spec => []TypeOK
<1>1. SessionInv => TypeOK
  BY DEF SessionInv
<1> QED
  BY <1>1, SessionInvariant, PTL

\* However refreshes, sign-outs and password changes overlap, a session that was rotated
\* is closed, for good.
THEOREM RotatedIsClosedHolds == Spec => []RotatedIsClosed
<1>1. SessionInv => RotatedIsClosed
  BY DEF SessionInv, Grounded, RotatedIsClosed
<1> QED
  BY <1>1, SessionInvariant, PTL

-----------------------------------------------------------------------------
(* What holds until handlers overlap *)

\* What a handler alone knows is still so when it writes.
Current(m) ==
  m # Idle =>
    /\ m.op = "login" =>
         /\ account[m.user].active /\ m.role = account[m.user].role
         /\ m.since = account[m.user].password
    /\ m.op = "refresh" =>
         /\ Live(m.from) /\ m.user = session[m.from].user
         /\ account[m.user].active /\ m.role = account[m.user].role
    /\ m.op = "change password" => m.user = session[m.keep].user
    /\ m.op = "role" /\ m.pc = "write" =>
         account[m.user].role # "admin" \/ OthersRemain(m.user)
    /\ m.op = "active" /\ m.pc = "write" =>
         m.active \/ account[m.user].role # "admin" \/ OthersRemain(m.user)

SerialInv ==
  /\ \A r \in Requests : Current(request[r])
  /\ SomeAdministrator
  /\ SessionsFollowTheAccount
  /\ SessionsStandOnThePassword
  /\ RotatedOnce

Alone == \A r, s \in Requests : request[r] # Idle /\ request[s] # Idle => r = s

\* A password is set and nothing else of the account.
LEMMA PasswordForm ==
  ASSUME TypeOK, NEW u \in Users, Exists(u), SetPassword(u)
  PROVE  /\ account'[u].role = account[u].role /\ account'[u].active = account[u].active
         /\ \A v \in Users \ {u} : account'[v] = account[v]
<1>1. account[u] \in AccountRow
  BY Rows
<1>2. account'[u] = [account[u] EXCEPT !.password = account[u].password + 1]
      /\ \A v \in Users \ {u} : account'[v] = account[v]
  BY DEF SetPassword, TypeOK
<1> QED
  BY <1>1, <1>2 DEF AccountRow

\* Who is demoted or deactivated, and nobody else, is changed in those fields; the
\* sessions of whoever is get revoked.
LEMMA AccountForms ==
  ASSUME SessionInv, [Next]_vars, NEW u \in Users, Exists(u)
  PROVE  \/ account'[u].role = account[u].role /\ account'[u].active = account[u].active
         \/ \E r \in Requests :
              /\ ChangeRoleWrite(r) /\ request[r].user = u
              /\ account'[u].role = request[r].role /\ account'[u].active = account[u].active
              /\ session' = Revoking(u, {})
         \/ \E r \in Requests :
              /\ SetActiveWrite(r) /\ request[r].user = u
              /\ account'[u].active = request[r].active /\ account'[u].role = account[u].role
              /\ ~request[r].active => session' = Revoking(u, {})
<1>0. TypeOK /\ account[u] \in AccountRow
  BY Rows DEF SessionInv
<1>1. ASSUME NEW r \in Requests, ChangePasswordWrite(r)
      PROVE  account'[u].role = account[u].role /\ account'[u].active = account[u].active
  <2>1. request[r].user \in Users /\ Exists(request[r].user)
    BY <1>0, <1>1, MemoryKinds DEF ChangePasswordWrite, At, SessionInv, Bound
  <2> QED
    BY <1>0, <1>1, <2>1, PasswordForm DEF ChangePasswordWrite
<1>2. ASSUME NEW v \in Users, RevokeAll(v) \/ ResetPassword(v) \/ Create(v)
      PROVE  account'[u].role = account[u].role /\ account'[u].active = account[u].active
  <2>1. CASE RevokeAll(v)
    BY <2>1 DEF RevokeAll
  <2>2. CASE ResetPassword(v)
    BY <1>0, <2>2, PasswordForm DEF ResetPassword
  <2>3. CASE Create(v)
    <3>1. u # v
      BY <2>3 DEF Create, Exists
    <3> QED
      BY <1>0, <2>3, <3>1 DEF Create, TypeOK
  <2> QED
    BY <1>2, <2>1, <2>2, <2>3
<1>3. ASSUME NEW r \in Requests, ChangeRoleWrite(r), request[r].user = u
      PROVE  account'[u].role = request[r].role /\ account'[u].active = account[u].active
  <2>1. account'[u] = [account[u] EXCEPT !.role = request[r].role]
    BY <1>0, <1>3 DEF ChangeRoleWrite, TypeOK
  <2> QED
    BY <1>0, <2>1 DEF AccountRow
<1>4. ASSUME NEW r \in Requests, SetActiveWrite(r), request[r].user = u
      PROVE  account'[u].active = request[r].active /\ account'[u].role = account[u].role
  <2>1. account'[u] = [account[u] EXCEPT !.active = request[r].active]
    BY <1>0, <1>4 DEF SetActiveWrite, TypeOK
  <2> QED
    BY <1>0, <2>1 DEF AccountRow
<1>5. ASSUME NEW r \in Requests, ChangeRoleWrite(r) \/ SetActiveWrite(r), request[r].user # u
      PROVE  account'[u] = account[u]
  BY <1>0, <1>5 DEF ChangeRoleWrite, SetActiveWrite, TypeOK
<1>6. ASSUME NEW r \in Requests, LoginWrite(r) \/ RefreshWrite(r) PROVE account' = account
  BY <1>6 DEF LoginWrite, RefreshWrite
<1>7. ASSUME NEW s \in Sessions, Revoke(s) \/ Expire(s) PROVE account' = account
  BY <1>7 DEF Revoke, Expire
<1>8. ASSUME NEW r \in Requests, ChangeRoleWrite(r) PROVE session' = Revoking(request[r].user, {})
  BY <1>8 DEF ChangeRoleWrite
<1>9. ASSUME NEW r \in Requests, SetActiveWrite(r)
      PROVE  ~request[r].active => session' = Revoking(request[r].user, {})
  BY <1>9 DEF SetActiveWrite
<1> QED
  BY <1>1, <1>2, <1>3, <1>4, <1>5, <1>6, <1>7, <1>8, <1>9, Writers DEF Writes, AtOnce

\* The last active administrator is neither demoted nor deactivated.
LEMMA AdministratorStep ==
  ASSUME SessionInv, SerialInv, [Next]_vars
  PROVE  SomeAdministrator'
<1>0. TypeOK /\ SomeAdministrator
  BY DEF SessionInv, SerialInv
<1>1. SUFFICES ASSUME NEW a \in ActiveAdmins,
                      ~(account'[a].role = "admin" /\ account'[a].active)
               PROVE  \E b \in Users : account'[b] # Absent /\ account'[b].role = "admin"
                                       /\ account'[b].active
  <2>1. PICK a \in ActiveAdmins : TRUE
    BY <1>0 DEF SomeAdministrator
  <2>2. a \in Users /\ account'[a] # Absent
    BY <2>1, AccountStep DEF ActiveAdmins, Exists
  <2> QED
    BY <1>1, <2>1, <2>2 DEF SomeAdministrator, ActiveAdmins, Exists
<1>2. a \in Users /\ Exists(a) /\ account[a].role = "admin" /\ account[a].active
  BY DEF ActiveAdmins
<1>3. PICK r \in Requests :
        /\ request[r].user = a
        /\ \/ ChangeRoleWrite(r)
           \/ SetActiveWrite(r) /\ ~request[r].active
  BY <1>1, <1>2, AccountForms
<1>4. OthersRemain(a)
  BY <1>2, <1>3 DEF SerialInv, Current, ChangeRoleWrite, SetActiveWrite, At
<1>5. PICK b \in ActiveAdmins : b # a
  BY <1>4 DEF OthersRemain
<1>6. b \in Users /\ Exists(b) /\ account[b].role = "admin" /\ account[b].active
  BY <1>5 DEF ActiveAdmins
<1>7. account'[b] = account[b]
  BY <1>0, <1>3, <1>5, <1>6 DEF ChangeRoleWrite, SetActiveWrite, TypeOK
<1> QED
  BY <1>6, <1>7 DEF Exists

\* A session that is live after a step was live before, or has just been opened on an
\* account as it stands.
LEMMA LiveStep ==
  ASSUME SessionInv, SerialInv, [Next]_vars, NEW s \in Sessions, Live(s)'
  PROVE  \/ Live(s) /\ session[s] \in SessionRow /\ session[s].user \in Users
              /\ Exists(session[s].user)
              /\ session'[s].user = session[s].user /\ session'[s].role = session[s].role
         \/ /\ session'[s].user \in Users /\ account' = account
            /\ account[session'[s].user].active
            /\ session'[s].role = account[session'[s].user].role
            /\ session'[s].since = account[session'[s].user].password
<1>0. TypeOK
  BY DEF SessionInv
<1>1. session'[s] # Absent /\ ~session'[s].revoked /\ ~session'[s].expired
  BY DEF Live
<1>2. CASE session[s] # Absent
  <2>1. session[s] \in SessionRow /\ Exists(session[s].user)
    BY <1>0, <1>2, Rows DEF SessionInv, Grounded
  <2>2. Live(s)
    BY <1>1, <1>2, SessionStep DEF Kept, Live
  <2> QED
    BY <1>2, <2>1, <2>2, SessionStep DEF Kept, SessionRow
<1>3. CASE session[s] = Absent
  <2>1. PICK r \in Requests :
          /\ request[r] # Idle /\ session'[s].user = request[r].user
          /\ session'[s].role = request[r].role
          /\ \/ LoginWrite(r) /\ session'[s].since = request[r].since
             \/ RefreshWrite(r) /\ session'[s].since = session[request[r].from].since
    BY <1>1, <1>3, Opened
  <2>2. request[r].user \in Users /\ account' = account
    BY <1>0, <2>1, MemoryKinds DEF LoginWrite, RefreshWrite
  <2>3. CASE LoginWrite(r)
    <3>1. ~RefreshWrite(r) /\ request[r].op = "login"
      BY <2>3 DEF LoginWrite, RefreshWrite, At
    <3> QED
      BY <2>1, <2>2, <3>1 DEF SerialInv, Current
  <2>4. CASE RefreshWrite(r)
    <3>1. ~LoginWrite(r) /\ request[r].op = "refresh"
      BY <2>4 DEF LoginWrite, RefreshWrite, At
    <3>2. request[r].from \in Sessions /\ Live(request[r].from)
          /\ request[r].user = session[request[r].from].user
      BY <2>1, <2>4, <3>1, RefreshForm DEF SerialInv, Current, RefreshMemory
    <3>3. session[request[r].from].since = account[request[r].user].password
      BY <3>2 DEF SerialInv, SessionsStandOnThePassword
    <3> QED
      BY <2>1, <2>2, <3>1, <3>3 DEF SerialInv, Current
  <2> QED
    BY <2>1, <2>3, <2>4
<1> QED
  BY <1>2, <1>3

\* A change of role and a deactivation end every session of the account.
LEMMA FollowStep ==
  ASSUME SessionInv, SerialInv, [Next]_vars
  PROVE  SessionsFollowTheAccount'
<1>0. TypeOK
  BY DEF SessionInv
<1>1. SUFFICES ASSUME NEW s \in Sessions, Live(s)'
               PROVE  /\ account'[session'[s].user].active
                      /\ session'[s].role = account'[session'[s].user].role
  BY DEF SessionsFollowTheAccount
<1>2. CASE /\ session'[s].user \in Users /\ account' = account
           /\ account[session'[s].user].active
           /\ session'[s].role = account[session'[s].user].role
  BY <1>2
<1>3. CASE Live(s) /\ session[s] \in SessionRow /\ session[s].user \in Users
              /\ Exists(session[s].user)
              /\ session'[s].user = session[s].user /\ session'[s].role = session[s].role
  <2> DEFINE u == session[s].user
  <2>1. account[u].active /\ session[s].role = account[u].role
    BY <1>3 DEF SerialInv, SessionsFollowTheAccount
  <2>2. session' # Revoking(u, {})
    BY <1>0, <1>1, <1>3, RevokingForm DEF Live
  <2>3. CASE account'[u].role = account[u].role /\ account'[u].active = account[u].active
    BY <1>3, <2>1, <2>3
  <2>4. ASSUME NEW r \in Requests, SetActiveWrite(r), request[r].user = u, request[r].active,
               account'[u].active = request[r].active, account'[u].role = account[u].role
        PROVE  account'[u].active /\ session'[s].role = account'[u].role
    BY <1>3, <2>1, <2>4
  <2> QED
    BY <1>3, <2>2, <2>3, <2>4, AccountForms
<1> QED
  BY <1>1, <1>2, <1>3, LiveStep

\* A new password ends every session of the account, but the one that set it.
LEMMA StandStep ==
  ASSUME SessionInv, SerialInv, [Next]_vars
  PROVE  SessionsStandOnThePassword'
<1>0. TypeOK
  BY DEF SessionInv
<1>1. SUFFICES ASSUME NEW s \in Sessions, Live(s)'
               PROVE  session'[s].since = account'[session'[s].user].password
  BY DEF SessionsStandOnThePassword
<1>2. CASE account' = account /\ session'[s].since = account[session'[s].user].password
  BY <1>2
<1>3. CASE Live(s) /\ session[s] \in SessionRow /\ session[s].user \in Users
              /\ Exists(session[s].user)
              /\ session'[s].user = session[s].user /\ session'[s].role = session[s].role
  <2> DEFINE u == session[s].user
  <2>0. session[s].since = account[u].password /\ session[s] # Absent
    BY <1>3 DEF SerialInv, SessionsStandOnThePassword, Live
  <2>1. account[u] \in AccountRow
    BY <1>0, <1>3, Rows
  <2>2. ASSUME session'[s].since = session[s].since, account'[u].password = account[u].password
        PROVE  session'[s].since = account'[session'[s].user].password
    BY <1>3, <2>0, <2>2
  <2>3. ASSUME NEW v, NEW spared, session' = Revoking(v, spared)
        PROVE  session'[s].since = session[s].since /\ (v = u => s \in spared)
    BY <1>0, <1>1, <2>0, <2>3, RevokingForm DEF Live
  <2>4. ASSUME NEW v \in Users, v # u, SetPassword(v) PROVE account'[u] = account[u]
    BY <1>0, <1>3, <2>4 DEF SetPassword, TypeOK
  <2>5. ASSUME NEW r \in Requests, LoginWrite(r)
        PROVE  session'[s].since = session[s].since /\ account' = account
    BY <1>0, <2>0, <2>5 DEF LoginWrite, TypeOK
  <2>6. ASSUME NEW r \in Requests, RefreshWrite(r)
        PROVE  session'[s].since = session[s].since /\ account' = account
    <3>1. session'[request[r].from].revoked
      <4>1. session[request[r].from] \in SessionRow
            /\ session'[request[r].from] = [session[request[r].from] EXCEPT !.revoked = TRUE]
        BY <2>6, RefreshForm
      <4> QED
        BY <4>1 DEF SessionRow
    <3>2. s # request[r].from
      BY <1>1, <3>1 DEF Live
    <3>3. session'[s] = session[s]
      BY <2>0, <2>6, <3>2, RefreshForm
    <3> QED
      BY <2>6, <3>3 DEF RefreshWrite
  <2>7. ASSUME NEW r \in Requests, ChangePasswordWrite(r)
        PROVE  session'[s].since = account'[u].password
    <3> DEFINE m == request[r]
               open == Revoking(m.user, {m.keep})
               set == account'[m.user].password
    <3>1. m # Idle /\ m.op = "change password" /\ m \in PasswordMemory
      BY <1>0, <2>7, MemoryKinds DEF ChangePasswordWrite, At
    <3>2. m.keep \in Sessions /\ session[m.keep] # Absent /\ m.user \in Users
          /\ m.user = session[m.keep].user
      BY <3>1 DEF SessionInv, SerialInv, Bound, Current, PasswordMemory
    <3>3. open \in [Sessions -> SessionRow \cup {Absent}] /\ open[s] \in SessionRow
          /\ open[s].since = session[s].since
          /\ (u = m.user /\ s # m.keep => open[s].revoked)
      BY <1>0, <2>0, <3>2, RevokingForm
    <3>4. session' = [open EXCEPT ![m.keep].since = set] /\ SetPassword(m.user)
      BY <2>7 DEF ChangePasswordWrite
    <3> HIDE DEF open, set
    <3>5. CASE s = m.keep
      <4>1. session'[s] = [open[s] EXCEPT !.since = set]
        BY <3>3, <3>4, <3>5
      <4>2. session'[s].since = set
        BY <3>3, <4>1 DEF SessionRow
      <4> QED
        BY <3>2, <3>5, <4>2 DEF set
    <3>6. CASE s # m.keep
      <4>1. session'[s] = open[s]
        BY <3>2, <3>3, <3>4, <3>6
      <4>2. u # m.user
        BY <1>1, <3>3, <3>6, <4>1 DEF Live
      <4> QED
        BY <2>0, <2>4, <3>2, <3>3, <3>4, <4>1, <4>2
    <3> QED
      BY <3>5, <3>6
  <2>8. ASSUME NEW r \in Requests, ChangeRoleWrite(r)
        PROVE  session'[s].since = session[s].since /\ account'[u].password = account[u].password
    <3>1. session'[s].since = session[s].since
      BY <2>3, <2>8 DEF ChangeRoleWrite
    <3>2. account'[u] = account[u] \/ account'[u] = [account[u] EXCEPT !.role = request[r].role]
      BY <1>0, <1>3, <2>8 DEF ChangeRoleWrite, TypeOK
    <3> QED
      BY <2>1, <3>1, <3>2 DEF AccountRow
  <2>9. ASSUME NEW r \in Requests, SetActiveWrite(r)
        PROVE  session'[s].since = session[s].since /\ account'[u].password = account[u].password
    <3>1. session'[s].since = session[s].since
      BY <2>3, <2>9 DEF SetActiveWrite
    <3>2. account'[u] = account[u] \/ account'[u] = [account[u] EXCEPT !.active = request[r].active]
      BY <1>0, <1>3, <2>9 DEF SetActiveWrite, TypeOK
    <3> QED
      BY <2>1, <3>1, <3>2 DEF AccountRow
  <2>10. ASSUME NEW t \in Sessions, Revoke(t) \/ Expire(t)
         PROVE  session'[s].since = session[s].since /\ account' = account
    <3>1. /\ account' = account
          /\ \/ session'[s] = session[s]
             \/ session'[s] = [session[s] EXCEPT !.revoked = TRUE]
             \/ session'[s] = [session[s] EXCEPT !.expired = TRUE]
      BY <1>0, <2>10 DEF Revoke, Expire, TypeOK
    <3> QED
      BY <1>3, <3>1 DEF SessionRow
  <2>11. ASSUME NEW v \in Users, RevokeAll(v) \/ ResetPassword(v) \/ Create(v)
         PROVE  session'[s].since = session[s].since /\ account'[u].password = account[u].password
    <3>1. CASE RevokeAll(v)
      BY <2>3, <3>1 DEF RevokeAll
    <3>2. CASE ResetPassword(v)
      BY <2>3, <2>4, <3>2 DEF ResetPassword
    <3>3. CASE Create(v)
      <4>1. u # v
        BY <1>3, <3>3 DEF Create, Exists
      <4> QED
        BY <1>0, <1>3, <3>3, <4>1 DEF Create, TypeOK
    <3> QED
      BY <2>11, <3>1, <3>2, <3>3
  <2>12. CASE account' = account /\ session' = session
    BY <2>2, <2>12
  <2> QED
    BY <1>3, <2>2, <2>5, <2>6, <2>7, <2>8, <2>9, <2>10, <2>11, <2>12, Writers DEF Writes, AtOnce
<1> QED
  BY <1>1, <1>2, <1>3, LiveStep

\* A session is rotated by one handler, which found it open: nothing was rotated from it.
LEMMA RotatedStep ==
  ASSUME SessionInv, SerialInv, [Next]_vars
  PROVE  RotatedOnce'
<1>0. TypeOK
  BY DEF SessionInv
<1>1. SUFFICES ASSUME NEW s \in Sessions, NEW t \in Sessions,
                      session'[s] # Absent, session'[t] # Absent,
                      session'[s].from # None, session'[s].from = session'[t].from
               PROVE  s = t
  BY DEF RotatedOnce
<1>2. CASE session[s] # Absent /\ session[t] # Absent
  BY <1>1, <1>2, SessionStep DEF SerialInv, RotatedOnce, Kept
<1>3. ASSUME NEW x \in Sessions, NEW y \in Sessions, session[x] = Absent, session'[x] # Absent,
             session'[x].from # None, session[y] # Absent, session'[x].from = session'[y].from
      PROVE  FALSE
  <2>1. PICK r \in Requests : RefreshWrite(r) /\ session'[x].from = request[r].from
    BY <1>3, Opened
  <2>2. request[r] # Idle /\ request[r].op = "refresh"
    BY <2>1, RefreshForm
  <2>3. Live(request[r].from)
    BY <2>2 DEF SerialInv, Current
  <2>4. session[y].from = request[r].from
    BY <1>3, <2>1, SessionStep DEF Kept
  <2> QED
    BY <1>3, <2>1, <2>3, <2>4 DEF SessionInv, Grounded, Live
<1>4. CASE session[s] = Absent /\ session[t] = Absent
  <2>1. PICK r \in Requests : RefreshWrite(r)
    BY <1>1, <1>4, Opened
  <2>2. PICK x \in Sessions :
          \A y \in Sessions \ {x, request[r].from} : session'[y] = session[y]
    BY <2>1, RefreshForm
  <2>3. session[request[r].from] # Absent
    BY <1>0, <2>1, RefreshForm, Rows
  <2>4. s = x /\ t = x
    BY <1>1, <1>4, <2>2, <2>3
  <2> QED
    BY <2>4
<1> QED
  BY <1>1, <1>2, <1>3, <1>4

\* One handler alone knows how the tables are when it writes, for nobody else has written.
LEMMA CurrentStep ==
  ASSUME SessionInv, SerialInv, [Next]_vars, Alone, Alone',
         NEW s \in Requests, request[s] # Idle => request' # request \/ UNCHANGED vars
  PROVE  Current(request[s])'
<1>0. TypeOK
  BY DEF SessionInv
<1>1. CASE request'[s] = Idle
  BY <1>1 DEF Current
<1>2. CASE request'[s] # Idle /\ UNCHANGED vars
  BY <1>2 DEF SerialInv, vars, Current, Live, OthersRemain, ActiveAdmins, Exists
<1>3. CASE request'[s] # Idle /\ ~UNCHANGED vars
  <2>1. request' # request
    BY <1>3
  <2>2. PICK r \in Requests :
          \/ LoginLoad(r) \/ RefreshLoad(r) \/ ChangePasswordLoad(r) \/ ChangeRoleLoad(r)
               \/ SetActiveLoad(r)
          \/ CountAdmins(r)
          \/ request[r] # Idle /\ Finish(r)
    BY <2>1, Slots
  <2>3. request' = [request EXCEPT ![r] = request'[r]]
    BY <1>0, <2>2, Begun, Counted DEF Finish, TypeOK
  <2>4. s = r
    <3>1. request'[r] # request[r]
      BY <1>0, <2>1, <2>3 DEF TypeOK
    <3>2. s # r => request'[s] = request[s]
      BY <1>0, <2>3 DEF TypeOK
    <3>3. request[r] # Idle \/ request'[r] # Idle
      BY <3>1
    <3> QED
      BY <1>3, <3>2, <3>3 DEF Alone
  <2>5. ~Finish(r)
    BY <1>0, <1>3, <2>4 DEF Finish, TypeOK
  <2>6. CASE CountAdmins(r)
    <3>1. ActiveAdmins' = ActiveAdmins
      BY <2>6, Counted DEF ActiveAdmins, Exists
    <3>2. request'[r] # Idle /\ request'[r].op \in {"role", "active"}
          /\ request'[r].user = request[r].user
          /\ ActiveAdmins \ {request[r].user} # {}
      BY <1>3, <2>4, <2>6, Counted DEF OthersRemain
    <3> QED
      BY <2>4, <3>1, <3>2 DEF Current, OthersRemain
  <2>7. CASE LoginLoad(r) \/ RefreshLoad(r) \/ ChangePasswordLoad(r) \/ ChangeRoleLoad(r)
               \/ SetActiveLoad(r)
    BY <2>4, <2>7, Begun DEF Current, Live
  <2> QED
    BY <2>2, <2>5, <2>6, <2>7
<1> QED
  BY <1>1, <1>2, <1>3

UntilOverlap == SessionInv /\ overlapped \in BOOLEAN /\ (~overlapped => Alone /\ SerialInv)

\* Nobody is signed in, and the seed's administrator is there.
LEMMA UntilOverlapInit == MCInit => UntilOverlap
<1> SUFFICES ASSUME MCInit PROVE UntilOverlap
  OBVIOUS
<1>1. Init /\ SessionInv /\ overlapped = FALSE
  BY SessionInitially DEF MCInit
<1>2. Root \in ActiveAdmins
  BY <1>1, RootAssumption DEF Init, ActiveAdmins, Exists, Absent
<1>3. \A s \in Sessions : session[s] = Absent
  BY <1>1 DEF Init
<1>4. \A r \in Requests : request[r] = Idle
  BY <1>1 DEF Init
<1>5. Alone /\ \A r \in Requests : Current(request[r])
  BY <1>4 DEF Alone, Current
<1>6. SomeAdministrator
  BY <1>2 DEF SomeAdministrator
<1>7. SessionsFollowTheAccount /\ SessionsStandOnThePassword /\ RotatedOnce
  BY <1>3 DEF SessionsFollowTheAccount, SessionsStandOnThePassword, RotatedOnce, Live
<1> QED
  BY <1>1, <1>5, <1>6, <1>7 DEF UntilOverlap, SerialInv

\* A step either keeps it all, or is where handlers first overlap.
LEMMA UntilOverlapStep == UntilOverlap /\ [MCNext]_<<vars, overlapped>> => UntilOverlap'
<1> SUFFICES ASSUME UntilOverlap, [MCNext]_<<vars, overlapped>> PROVE UntilOverlap'
  OBVIOUS
<1>1. [Next]_vars
  BY DEF MCNext
<1>2. SessionInv /\ SessionInv'
  BY <1>1, SessionInvStep DEF UntilOverlap
<1>3. ASSUME ~overlapped' PROVE Alone' /\ SerialInv'
  <2>1. ~overlapped /\ (UNCHANGED vars \/ (~Meanwhile /\ ~TwoBusy'))
    BY <1>3, Zenon DEF MCNext, UntilOverlap
  <2>2. Alone /\ SerialInv
    BY <2>1 DEF UntilOverlap
  <2>3. Alone'
    BY <2>1, <2>2 DEF Alone, TwoBusy, Busy, vars
  <2>4. ASSUME NEW s \in Requests PROVE Current(request[s])'
    <3>1. request[s] # Idle => request' # request \/ UNCHANGED vars
      BY <2>1 DEF Meanwhile, Busy
    <3> QED
      BY <1>1, <1>2, <2>2, <2>3, <3>1, CurrentStep
  <2> QED
    BY <1>1, <1>2, <2>2, <2>3, <2>4, AdministratorStep, FollowStep, StandStep, RotatedStep
       DEF SerialInv
<1>4. overlapped' \in BOOLEAN
  BY DEF MCNext, UntilOverlap
<1> QED
  BY <1>2, <1>3, <1>4 DEF UntilOverlap

\* It holds in every behaviour of the instance, whatever its constants.
LEMMA UntilOverlapInvariant == MCSpec => []UntilOverlap
  BY UntilOverlapInit, UntilOverlapStep, PTL DEF MCSpec

\* As long as handlers follow one another, somebody can administer the portal.
THEOREM AdministratorStays == MCSpec => []AdministratorUntilOverlap
<1>1. UntilOverlap => AdministratorUntilOverlap
  BY DEF UntilOverlap, SerialInv, AdministratorUntilOverlap
<1> QED
  BY <1>1, UntilOverlapInvariant, PTL

\* As long as handlers follow one another, a session that can be refreshed belongs to an
\* active account, carries its role and stands on its password, and a refresh token is
\* used once.
THEOREM SessionsHold == MCSpec => []SessionsUntilOverlap
<1>1. UntilOverlap => SessionsUntilOverlap
  BY DEF UntilOverlap, SerialInv, SessionsUntilOverlap
<1> QED
  BY <1>1, UntilOverlapInvariant, PTL
=============================================================================
