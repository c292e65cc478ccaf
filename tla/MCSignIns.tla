------------------------------ MODULE MCSignIns ------------------------------
(* Model-checking instance of SignIns, with a history: were two handlers ever in *)
(* flight at once, or did anything happen while one was.                         *)
EXTENDS SignIns, TLC

CONSTANTS alice, bob

VARIABLE overlapped

Busy == {r \in Requests : request[r] # Idle}
Meanwhile == Busy # {} /\ request' = request
TwoBusy == \E r, s \in Busy : r # s

MCInit == Init /\ overlapped = FALSE
MCNext ==
  /\ Next
  /\ overlapped' = (overlapped \/ Meanwhile \/ TwoBusy')
MCSpec == MCInit /\ [][MCNext]_<<vars, overlapped>>

\* As long as handlers follow one another somebody can administer the portal.
\* (assertNotLastAdmin.)
AdministratorUntilOverlap == ~overlapped => SomeAdministrator

\* As long as handlers follow one another a session carries the account's role, stands on
\* its password and is rotated once.  (changeRole and setActive, changePassword and
\* resetPassword, refresh.)
SessionsUntilOverlap ==
  ~overlapped => SessionsFollowTheAccount /\ SessionsStandOnThePassword /\ RotatedOnce

(* Bound: handlers that overlap are on the first account, the only one; they are     *)
(* followed to their end, and no other one begins.                                   *)
TwoOverlap ==
  /\ overlapped' => \A u \in Users \ {Root} : ~Exists(u)
  /\ overlapped => Busy # {} /\ \A r \in Requests : request[r] = Idle => request'[r] = Idle

\* Sessions and slots are interchangeable; the seed's administrator is not.
Symmetry == Permutations(Sessions) \cup Permutations(Requests)
=============================================================================
