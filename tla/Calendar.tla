------------------------------ MODULE Calendar -------------------------------
(***************************************************************************)
(* The tables behind the calendar of one event type, and what PostgreSQL   *)
(* enforces on them: event_types, event_slots, event_type_sponsors, events *)
(* and the two flags of a party the calendar asks for.                     *)
(*                                                                         *)
(* A row is drawn from the ids of its table once; a removed row leaves its *)
(* id behind.  A date is a day of 0..LastDay and YearLength days make a    *)
(* year.  `cited` says that a voucher names the occurrence.  Names, times  *)
(* of day, frequency, activity and notes are left out.                     *)
(*                                                                         *)
(* Offered is the set of operations served, MaxInstances, MaxSlot,         *)
(* MaxAssigned, MaxEvent and LastDay are bounds.                           *)
(***************************************************************************)
EXTENDS Naturals, FiniteSets

CONSTANTS Parties, Null, Requests, Offered, MaxInstances, MaxSlot, MaxAssigned, MaxEvent,
          LastDay, YearLength

ASSUME CalendarAssumption ==
  /\ MaxInstances \in Nat /\ MaxSlot \in Nat /\ MaxAssigned \in Nat /\ MaxEvent \in Nat
  /\ LastDay \in Nat /\ YearLength \in Nat \ {0}
  /\ Null \notin Nat /\ Null \notin Parties
  /\ \A word \in {"sponsored", "general"} : Null # word

VARIABLES type, slot, assigned, event, party, today, request

tables == <<type, slot, assigned, event>>
vars == <<tables, party, today, request>>

SlotIds == 1..MaxSlot
AssignedIds == 1..MaxAssigned
EventIds == 1..MaxEvent
Instances == 1..MaxInstances
Dates == 0..LastDay
Year(date) == date \div YearLength
Funding == {"sponsored", "general"}

Unborn == [status |-> "unborn"]
Removed == [status |-> "removed"]
Absent == {Unborn, Removed}

TypeRow == [n : Instances, funding : Funding]
SlotRow == [instance : Instances, active : BOOLEAN]
AssignedRow == [slot : SlotIds, party : Parties]
EventRow == [slot : SlotIds, date : Dates, sponsor : Parties \cup {Null},
             completed : BOOLEAN, cited : BOOLEAN]

HasType == type \notin Absent
Slots == {s \in SlotIds : slot[s] \notin Absent}
Assigned == {a \in AssignedIds : assigned[a] \notin Absent}
Events == {e \in EventIds : event[e] \notin Absent}

IsNext(table, i) == table[i] = Unborn /\ \A j \in DOMAIN table : j < i => table[j] # Unborn

-----------------------------------------------------------------------------
(* Constraints and triggers *)

\* Mutant: one occurrence a day.
BugSameOccasion(e, f) == e.slot = f.slot /\ e.date = f.date

\* one_occurrence_per_slot_year
SameOccasion(e, f) == e.slot = f.slot /\ Year(e.date) = Year(f.date)

FreeOf(e, row) == \A f \in Events \ {e} : ~SameOccasion(event[f], row)

\* sponsor_suits_funding: on insert, and where sponsor or slot is written.
SuitsFunding(row) == row.sponsor # Null => type.funding # "general"

EventMayBecome(e, row, sponsorWritten) ==
  /\ FreeOf(e, row)
  /\ sponsorWritten => SuitsFunding(row)

\* The foreign keys of an occurrence, with the above.
EventMayEnter(row) == row.slot \in Slots /\ EventMayBecome(0, row, TRUE)

\* one_sponsor_per_slot, the foreign key and type_takes_sponsors.
AssignedMayBe(a, row) ==
  /\ row.slot \in Slots
  /\ type.funding # "general"
  /\ \A b \in Assigned \ {a} : assigned[b] # row

\* Mutant: occurrences go with their slot.
BugDropSlots(S) ==
  /\ slot' = [s \in SlotIds |-> IF s \in S THEN Removed ELSE slot[s]]
  /\ assigned' = [a \in AssignedIds |->
       IF a \in Assigned /\ assigned[a].slot \in S THEN Removed ELSE assigned[a]]

\* Occurrences hold their slot (RESTRICT), assignments go with it (CASCADE).
DropSlots(S) ==
  /\ \A e \in Events : event[e].slot \notin S
  /\ slot' = [s \in SlotIds |-> IF s \in S THEN Removed ELSE slot[s]]
  /\ assigned' = [a \in AssignedIds |->
       IF a \in Assigned /\ assigned[a].slot \in S THEN Removed ELSE assigned[a]]

-----------------------------------------------------------------------------
(* Requests *)

Idle == [op |-> "none", pc |-> "idle"]
Accept(r, memory) ==
  /\ memory.op \in Offered /\ request[r] = Idle
  /\ request' = [request EXCEPT ![r] = memory]
At(r, op, pc) == request[r].op = op /\ request[r].pc = pc
Remember(r, memory) == request' = [request EXCEPT ![r] = memory]
Finish(r) == Remember(r, Idle)

\* A handler that is one statement.
AtOnce(op) == op \in Offered /\ (\E r \in Requests : request[r] = Idle) /\ UNCHANGED request

\* A check throws, a statement is refused or the process stops.
Abort(r) ==
  /\ request[r] # Idle
  /\ Finish(r)
  /\ UNCHANGED <<tables, party, today>>

\* A voucher names an occurrence.
Cite ==
  /\ AtOnce("cite")
  /\ \E e \in Events : event' = [event EXCEPT ![e].cited = TRUE]
  /\ UNCHANGED <<type, slot, assigned, party, today>>

Midnight ==
  /\ today < LastDay
  /\ today' = today + 1
  /\ UNCHANGED <<tables, party, request>>

CalendarInit ==
  /\ type = Unborn
  /\ slot = [s \in SlotIds |-> Unborn]
  /\ assigned = [a \in AssignedIds |-> Unborn]
  /\ event = [e \in EventIds |-> Unborn]
  /\ party \in [Parties -> [active : {TRUE}, member : {TRUE}]]
  /\ today = 0
  /\ request = [r \in Requests |-> Idle]
=============================================================================
