------------------------------- MODULE SignIns -------------------------------
(***************************************************************************)
(* UserAccountsService and AuthService: accounts, their roles and          *)
(* passwords, and the sessions their refresh tokens stand for.             *)
(*                                                                         *)
(* Who may call what is the guards' business; here every administrator's   *)
(* handler may be called by any account, but not on itself where the code  *)
(* refuses that.  An access token is not looked up anywhere, so a handler  *)
(* may run for a session that was revoked meanwhile.                       *)
(***************************************************************************)
EXTENDS Naturals, FiniteSets

CONSTANTS
  Users,         \* account ids
  Root,          \* the administrator the seed creates
  Sessions,      \* session ids
  Requests,      \* request slots
  None,          \* no session
  MaxPasswords   \* bound: passwords an account may have had

ASSUME RootAssumption == Root \in Users
ASSUME NoneAssumption == None \notin Sessions
ASSUME MaxPasswordsAssumption == MaxPasswords \in Nat \ {0}

VARIABLES
  account,   \* the user_accounts table
  session,   \* the user_sessions table
  request    \* what each handler in flight remembers

vars == <<account, session, request>>

Absent == [row |-> "absent"]

\* Passwords are numbered in the order the account had them.
Roles == {"admin", "other"}

AccountRow == [role : Roles, active : BOOLEAN, password : 1..MaxPasswords]

\* `expired` says whether expires_at has passed; `role` is the one the access
\* tokens of the session carry.  Two fields are history: `from`, the session this
\* one was rotated from, and `since`, the password it stands on: the one verified
\* at the sign-in, or the one the session itself has set.
SessionRow ==
  [user : Users, revoked : BOOLEAN, expired : BOOLEAN, role : Roles,
   from : Sessions \cup {None}, since : 1..MaxPasswords]

Idle == [pc |-> "idle"]

Memory ==
  [op : {"login"}, pc : {"write"}, user : Users, role : Roles, since : 1..MaxPasswords]
  \cup [op : {"refresh"}, pc : {"write"}, user : Users, role : Roles, from : Sessions]
  \cup [op : {"change password"}, pc : {"write"}, user : Users, keep : Sessions]
  \cup [op : {"role"}, pc : {"count", "write"}, user : Users, role : Roles]
  \cup [op : {"active"}, pc : {"count", "write"}, user : Users, active : BOOLEAN]

Exists(u) == account[u] # Absent

Live(s) == session[s] # Absent /\ ~session[s].revoked /\ ~session[s].expired

ActiveAdmins == {u \in Users : Exists(u) /\ account[u].role = "admin" /\ account[u].active}

NewSession(m, from, since) ==
  [user |-> m.user, revoked |-> FALSE, expired |-> FALSE, role |-> m.role,
   from |-> from, since |-> since]

\* updateMany({ where: { userId, revokedAt: null } }), sparing some.
Revoking(u, spared) ==
  [s \in Sessions |->
     IF session[s] # Absent /\ session[s].user = u /\ s \notin spared
     THEN [session[s] EXCEPT !.revoked = TRUE] ELSE session[s]]

Accept(r, memory) ==
  /\ request[r] = Idle
  /\ request' = [request EXCEPT ![r] = memory]

\* A handler of one statement needs a slot, but is done with it at once.
Served == \E r \in Requests : request[r] = Idle

At(r, op, pc) == request[r] # Idle /\ request[r].op = op /\ request[r].pc = pc

Finish(r) == request' = [request EXCEPT ![r] = Idle]

-----------------------------------------------------------------------------
(* Sessions *)

\* login: the account is read, its hash verified against the password given.
LoginLoad(r) ==
  /\ \E u \in Users :
       /\ Exists(u) /\ account[u].active
       /\ Accept(r, [op |-> "login", pc |-> "write", user |-> u,
                     role |-> account[u].role, since |-> account[u].password])
  /\ UNCHANGED <<account, session>>

LoginWrite(r) ==
  /\ At(r, "login", "write")
  /\ \E s \in Sessions :
       /\ session[s] = Absent
       /\ session' = [session EXCEPT ![s] = NewSession(request[r], None, request[r].since)]
  /\ Finish(r)
  /\ UNCHANGED account

Refreshable(s) == Live(s)

RefreshLoad(r) ==
  /\ \E s \in Sessions :
       /\ Refreshable(s)
       /\ LET u == session[s].user
          IN /\ account[u].active
             /\ Accept(r, [op |-> "refresh", pc |-> "write", user |-> u,
                           role |-> account[u].role, from |-> s])
  /\ UNCHANGED <<account, session>>

\* Mutant: the rotated session stays open.
BugRefreshWrite(r) ==
  /\ At(r, "refresh", "write")
  /\ LET m == request[r]
     IN \E s \in Sessions :
          /\ session[s] = Absent
          /\ session' = [session EXCEPT ![s] = NewSession(m, m.from, session[m.from].since)]
  /\ Finish(r)
  /\ UNCHANGED account

\* One transaction: the old session is revoked and the new one created.
RefreshWrite(r) ==
  /\ At(r, "refresh", "write")
  /\ LET m == request[r]
     IN \E s \in Sessions :
          /\ session[s] = Absent
          /\ session' = [session EXCEPT
               ![m.from].revoked = TRUE,
               ![s] = NewSession(m, m.from, session[m.from].since)]
  /\ Finish(r)
  /\ UNCHANGED account

\* logout and revokeSession.
Revoke(s) ==
  /\ Served
  /\ session[s] # Absent /\ ~session[s].revoked
  /\ session' = [session EXCEPT ![s].revoked = TRUE]
  /\ UNCHANGED <<account, request>>

\* logoutAll and signOutEverywhere.
RevokeAll(u) ==
  /\ Served
  /\ Exists(u)
  /\ session' = Revoking(u, {})
  /\ UNCHANGED <<account, request>>

Expire(s) ==
  /\ session[s] # Absent /\ ~session[s].expired
  /\ session' = [session EXCEPT ![s].expired = TRUE]
  /\ UNCHANGED <<account, request>>

-----------------------------------------------------------------------------
(* Passwords *)

\* Both hash another password than any the account had.
SetPassword(u) ==
  /\ account[u].password < MaxPasswords
  /\ account' = [account EXCEPT ![u].password = @ + 1]

\* changePassword, by the holder of any session's access token: the current
\* password is verified against the row as loaded.
ChangePasswordLoad(r) ==
  /\ \E s \in Sessions :
       /\ session[s] # Absent
       /\ Accept(r, [op |-> "change password", pc |-> "write",
                     user |-> session[s].user, keep |-> s])
  /\ UNCHANGED <<account, session>>

\* Mutant: the other sessions are left alone.
BugChangePasswordWrite(r) ==
  /\ At(r, "change password", "write")
  /\ SetPassword(request[r].user)
  /\ session' = [session EXCEPT ![request[r].keep].since = account'[request[r].user].password]
  /\ Finish(r)

\* One transaction; the session that asked for it stays open.
ChangePasswordWrite(r) ==
  /\ At(r, "change password", "write")
  /\ LET m == request[r]
     IN /\ SetPassword(m.user)
        /\ session' = [Revoking(m.user, {m.keep}) EXCEPT
                         ![m.keep].since = account'[m.user].password]
  /\ Finish(r)

\* resetPassword reads nothing it uses later: one step.
ResetPassword(u) ==
  /\ Served
  /\ Exists(u)
  /\ SetPassword(u)
  /\ session' = Revoking(u, {})
  /\ UNCHANGED request

-----------------------------------------------------------------------------
(* Accounts *)

Create(u) ==
  /\ Served
  /\ account[u] = Absent
  /\ \E role \in Roles :
       account' = [account EXCEPT ![u] = [role |-> role, active |-> TRUE, password |-> 1]]
  /\ UNCHANGED <<session, request>>

\* assertNotSelf: somebody else has to be signed in to change u.
ByAnother(u) == \E a \in Users \ {u} : Exists(a)

\* changeRole, by some account other than u: only an administrator's demotion
\* counts the others.
ChangeRoleLoad(r) ==
  /\ \E u \in Users :
       /\ Exists(u) /\ ByAnother(u)
       /\ \E role \in Roles \ {account[u].role} :
            Accept(r, [op |-> "role", user |-> u, role |-> role,
                       pc |-> IF account[u].role = "admin" THEN "count" ELSE "write"])
  /\ UNCHANGED <<account, session>>

\* setActive, by some account other than u.
SetActiveLoad(r) ==
  /\ \E u \in Users :
       /\ Exists(u) /\ (account[u].active => ByAnother(u))
       /\ Accept(r, [op |-> "active", user |-> u, active |-> ~account[u].active,
                     pc |-> IF account[u].active /\ account[u].role = "admin"
                            THEN "count" ELSE "write"])
  /\ UNCHANGED <<account, session>>

\* Mutant: the account itself is counted among the others.
BugOthersRemain(u) == ActiveAdmins # {}

\* assertNotLastAdmin.
OthersRemain(u) == ActiveAdmins \ {u} # {}

CountAdmins(r) ==
  /\ At(r, "role", "count") \/ At(r, "active", "count")
  /\ request' = [request EXCEPT ![r] =
       IF OthersRemain(@.user) THEN [@ EXCEPT !.pc = "write"] ELSE Idle]
  /\ UNCHANGED <<account, session>>

ChangeRoleWrite(r) ==
  /\ At(r, "role", "write")
  /\ account' = [account EXCEPT ![request[r].user].role = request[r].role]
  /\ session' = Revoking(request[r].user, {})
  /\ Finish(r)

SetActiveWrite(r) ==
  /\ At(r, "active", "write")
  /\ account' = [account EXCEPT ![request[r].user].active = request[r].active]
  /\ session' = IF request[r].active THEN session ELSE Revoking(request[r].user, {})
  /\ Finish(r)

-----------------------------------------------------------------------------

\* A statement fails or the process stops.
Abort(r) ==
  /\ request[r] # Idle
  /\ Finish(r)
  /\ UNCHANGED <<account, session>>

Init ==
  /\ account = [u \in Users |->
       IF u = Root THEN [role |-> "admin", active |-> TRUE, password |-> 1] ELSE Absent]
  /\ session = [s \in Sessions |-> Absent]
  /\ request = [r \in Requests |-> Idle]

Next ==
  \/ \E r \in Requests :
       \/ LoginLoad(r) \/ LoginWrite(r)
       \/ RefreshLoad(r) \/ RefreshWrite(r)
       \/ ChangePasswordLoad(r) \/ ChangePasswordWrite(r)
       \/ ChangeRoleLoad(r) \/ SetActiveLoad(r) \/ CountAdmins(r)
       \/ ChangeRoleWrite(r) \/ SetActiveWrite(r)
       \/ Abort(r)
  \/ \E s \in Sessions : Revoke(s) \/ Expire(s)
  \/ \E u \in Users : RevokeAll(u) \/ ResetPassword(u) \/ Create(u)

Spec == Init /\ [][Next]_vars

-----------------------------------------------------------------------------
(* Properties *)

\* The shape of the two tables and of the memories.
TypeOK ==
  /\ account \in [Users -> AccountRow \cup {Absent}]
  /\ session \in [Sessions -> SessionRow \cup {Absent}]
  /\ request \in [Requests -> Memory \cup {Idle}]

\* Somebody can always administer the portal: the last active administrator is
\* neither demoted nor deactivated.  (assertNotLastAdmin.)
SomeAdministrator == ActiveAdmins # {}

\* A change of role or a deactivation ends every session, so a session that can be
\* refreshed belongs to an active account and carries its role.  (changeRole and
\* setActive.)
SessionsFollowTheAccount ==
  \A s \in Sessions : Live(s) =>
    /\ account[session[s].user].active
    /\ session[s].role = account[session[s].user].role

\* A new password ends every session but the one that set it.  (changePassword,
\* resetPassword.)
SessionsStandOnThePassword ==
  \A s \in Sessions : Live(s) => session[s].since = account[session[s].user].password

\* A refresh token is used once: no session is rotated into two.  (refresh.)
RotatedOnce ==
  \A s, t \in Sessions :
    /\ session[s] # Absent /\ session[t] # Absent
    /\ session[s].from # None /\ session[s].from = session[t].from
    => s = t

\* However refreshes, sign-outs and password changes overlap, a session that was
\* rotated is closed.  (The transaction in refresh.)
RotatedIsClosed ==
  \A s \in Sessions : session[s] # Absent /\ session[s].from # None =>
    session[session[s].from].revoked
=============================================================================
