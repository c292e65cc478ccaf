----------------------------- MODULE MCAccounting -----------------------------
(* Model-checking instances of Accounting. *)
EXTENDS Accounting, TLC

CONSTANTS y1, y2

\* Two financial years that start in different calendar years, and two that
\* start in the same one (create only refuses ranges that overlap).
DistinctCalendarYears == y1 :> 2026 @@ y2 :> 2027
SameCalendarYear == y1 :> 2026 @@ y2 :> 2026
OneCalendarYear == y1 :> 2026

\* Bound: one reference is lost by a create that failed.
OneLost ==
  LET drawn == sequence[y1] + sequence[y2] - 2
      kept == Cardinality({v \in Vouchers : Exists(v)})
              + Cardinality({r \in Requests : request[r].pc = "insert"})
  IN drawn <= kept + 1

\* Slots are interchangeable, and so are vouchers and contents.
Symmetry == Permutations(Requests) \cup Permutations(Vouchers) \cup Permutations(Contents)
=============================================================================
