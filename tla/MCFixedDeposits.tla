--------------------------- MODULE MCFixedDeposits ---------------------------
(* Model-checking instance of FixedDeposits, with a history: did a handler ever  *)
(* stop half way.                                                                *)
EXTENDS FixedDeposits, TLC

VARIABLE crashed

Stops(r) == LinkFails(r) \/ (Crash(r) /\ ~Refused(r) /\ ~Fail(r))

MCInit == Init /\ crashed = FALSE
MCNext == Next /\ crashed' = (crashed \/ \E r \in Requests : Stops(r))
MCSpec == MCInit /\ [][MCNext]_<<vars, crashed>>

\* As long as handlers run to their end, a deposit that is there was placed by its
\* voucher, a voucher that placed a principal says the one in the register, and a
\* principal leaves the books once.  (create and its compensation, update, close, renew.)
RegisterUntilCrash == ~crashed => PlacedOnBooks /\ PrincipalStandsOnBooks /\ PrincipalLeavesOnce

\* As long as they do, the register is what the books hold: the postings on the head of a
\* deposit come to its principal while it is held.  (records.)
BooksUntilCrash == ~crashed => BooksMatch

(* Bound: once a handler stopped or there is a third deposit, principals are of one  *)
(* amount, one voucher is raised and its year is not opened.                         *)
SmallBound ==
  crashed \/ (\A d \in Deposits : deposit[d].status # "absent") =>
    /\ \A d \in Deposits : Present(d) => deposit[d].principal = 1
    /\ \A r \in Requests : request[r] # Idle => request[r].amount = 1
    /\ Cardinality({v \in Vouchers : status[v] # "Absent"}) <= 1
    /\ \A y \in Years : phase[y] \in {"absent", "upcoming"}

\* Slots, vouchers and deposits are interchangeable.
Symmetry == Permutations(Requests) \cup Permutations(Vouchers) \cup Permutations(Deposits)
=============================================================================
