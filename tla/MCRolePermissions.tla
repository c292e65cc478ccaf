-------------------------- MODULE MCRolePermissions --------------------------
(* Model-checking instance of RolePermissions, with a history: were two handlers *)
(* ever in flight at once.                                                       *)
EXTENDS RolePermissions, TLC

VARIABLE overlapped

MCInit == Init /\ overlapped = FALSE
MCNext ==
  /\ Next
  /\ overlapped' = (overlapped
        \/ \E r, s \in Requests : r # s /\ request'[r] # Idle /\ request'[s] # Idle)
MCSpec == MCInit /\ [][MCNext]_<<vars, overlapped>> /\ Fairness

\* As long as handlers follow one another, an instance that has replaced the permissions
\* serves the new ones at once.  (invalidate, as called by setPermissions.)
InvalidatedUntilOverlap == ~overlapped => InvalidatedAtOnce
=============================================================================
