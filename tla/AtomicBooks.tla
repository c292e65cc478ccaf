----------------------------- MODULE AtomicBooks -----------------------------
(***************************************************************************)
(* What the accounting services promise: the voucher lifecycle and the     *)
(* closing of a year, with every operation taking effect at one instant.   *)
(* The ledger holds a posting exactly while its voucher is Posted, what is *)
(* posted is what was approved, a closed year takes nothing and its        *)
(* published figures are those of the ledger.                              *)
(***************************************************************************)
CONSTANTS Vouchers, Years, Contents

VARIABLES
  status,     \* the status of each voucher, "Absent" before it is raised
  entry,      \* the year and the content of each voucher that was raised
  posted,     \* the postings in the ledger: voucher, year, content
  phase,      \* the status of each year
  published   \* the postings each closed year was published with

books == <<status, entry, posted, phase, published>>

Entry == [year : Years, content : Contents]

Open(y) == phase[y] \in {"upcoming", "open"}

PostingsOf(y) == {p \in posted : p.entry.year = y}

Init ==
  /\ status = [v \in Vouchers |-> "Absent"]
  /\ entry = [v \in Vouchers |-> <<>>]
  /\ posted = {}
  /\ phase = [y \in Years |-> "absent"]
  /\ published = [y \in Years |-> {}]

Become(v, from, to) ==
  /\ status[v] \in from
  /\ status' = [status EXCEPT ![v] = to]

\* A voucher is raised, or edited and returned to Draft, in a year that is
\* open for it.
Write(v, e) ==
  /\ Open(e.year)
  /\ Become(v, {"Absent", "Draft", "PendingApproval", "Rejected"}, "Draft")
  /\ entry' = [entry EXCEPT ![v] = e]
  /\ UNCHANGED <<posted, phase, published>>

Submit(v) ==
  /\ Become(v, {"Draft", "Rejected"}, "PendingApproval")
  /\ Open(entry[v].year)
  /\ UNCHANGED <<entry, posted, phase, published>>

Approve(v) ==
  /\ Become(v, {"PendingApproval"}, "Approved")
  /\ Open(entry[v].year)
  /\ UNCHANGED <<entry, posted, phase, published>>

Reject(v) ==
  /\ Become(v, {"PendingApproval"}, "Rejected")
  /\ UNCHANGED <<entry, posted, phase, published>>

Cancel(v) ==
  /\ Become(v, {"Draft", "PendingApproval"}, "Cancelled")
  /\ UNCHANGED <<entry, posted, phase, published>>

Post(v) ==
  /\ Become(v, {"Approved"}, "Posted")
  /\ Open(entry[v].year)
  /\ posted' = posted \cup {[voucher |-> v, entry |-> entry[v]]}
  /\ UNCHANGED <<entry, phase, published>>

CreateYear(y) ==
  /\ phase[y] = "absent"
  /\ phase' = [phase EXCEPT ![y] = "upcoming"]
  /\ UNCHANGED <<status, entry, posted, published>>

OpenYear(y) ==
  /\ phase[y] = "upcoming"
  /\ phase' = [phase EXCEPT ![y] = "open"]
  /\ UNCHANGED <<status, entry, posted, published>>

\* Rejected vouchers may stay behind; nothing else that could still be posted.
CloseYear(y) ==
  /\ Open(y)
  /\ \A v \in Vouchers :
       status[v] \in {"Draft", "PendingApproval", "Approved"} => entry[v].year # y
  /\ phase' = [phase EXCEPT ![y] = "closed"]
  /\ published' = [published EXCEPT ![y] = PostingsOf(y)]
  /\ UNCHANGED <<status, entry, posted>>

Next ==
  \/ \E v \in Vouchers :
       \/ \E e \in Entry : Write(v, e)
       \/ Submit(v) \/ Approve(v) \/ Reject(v) \/ Cancel(v) \/ Post(v)
  \/ \E y \in Years : CreateYear(y) \/ OpenYear(y) \/ CloseYear(y)

Spec == Init /\ [][Next]_books
=============================================================================
