--------------------------- MODULE MCEventCostings ---------------------------
(* Model-checking instance of EventCostings, with a history of whether two      *)
(* handlers were ever in flight at once: some promises hold however they         *)
(* overlap, the others until they first do.                                      *)
EXTENDS EventCostings, TLC

VARIABLE overlapped

MCInit == Init /\ overlapped = FALSE
MCNext ==
  /\ Next
  /\ overlapped' = (overlapped
        \/ \E r, s \in Requests : r # s /\ request'[r] # Idle /\ request'[s] # Idle)
MCSpec == MCInit /\ [][MCNext]_<<vars, overlapped>>

\* As long as handlers follow one another, the versions are chained and quoted at their
\* lines.  (apply, update.)
VersionsUntilOverlap == ~overlapped => VersionsAreChained /\ QuoteMatchesLines

\* As long as handlers follow one another, applied versions stand and past days keep their
\* prices.  (remove, update, apply.)
PastUntilOverlap == [][~overlapped' => AppliedIsKept /\ PastPricesStand]_vars

(* Once handlers have overlapped the last id stays undrawn and the second day is  *)
(* not passed: two costings are enough to be set against each other, three to be   *)
(* chained.                                                                        *)
OverlapBound == overlapped => costing[MaxId] = Unborn /\ now <= 4

(* Bound: handlers that overlap are followed to their end; what begins after is an  *)
(* application.                                                                     *)
AppliesAfter ==
  overlapped =>
    \A r \in Requests : request[r] = Idle /\ request'[r] # Idle =>
      request'[r].op = "apply" /\ \A s \in Requests : request[s] = Idle

Symmetry == Permutations(Requests) \cup Permutations(Charges)
=============================================================================
