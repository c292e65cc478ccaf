---------------------------- MODULE CalendarProofs ----------------------------
(***************************************************************************)
(* Proofs about EventCalendar, for any number of slots, parties, days and  *)
(* handlers in flight: what the constraints keep true however handlers     *)
(* overlap, and what the checks of the services keep true as long as they  *)
(* follow one another.                                                     *)
(***************************************************************************)
EXTENDS MCEventCalendar, FiniteSetTheorems, TLAPS

UsedIds == {s \in SlotIds : slot[s] # Unborn}

\* Ids of slots are drawn in order.
DrawnInOrder == UsedIds \subseteq 1..Cardinality(UsedIds)

\* A handler that will resize, or is at it, has a number to resize to.
Numbered(m) ==
  m.op = "type-update" /\ (m.resize \/ m.pc # "check") => m.n \in Instances

CalendarInv == CalendarHolds /\ DrawnInOrder /\ \A r \in Requests : Numbered(request[r])

-----------------------------------------------------------------------------
(* Rows and memories *)

TypeUpdateMemory ==
  [op : {"type-update"}, n : Instances \cup {Null}, funding : Funding \cup {Null}, resize : BOOLEAN,
   counts : SUBSET {"sponsors", "events"}, missing : SUBSET Instances,
   pc : {"check", "delete", "find", "create"}]
AssignMemory ==
  [op : {"assign"}, id : AssignedIds \cup {Null}, slot : SlotIds, instance : Instances,
   party : Parties, pc : {"usable", "resolve", "distinct", "write"}]
RetireMemory ==
  [op : {"retire"}, party : Parties, counts : SUBSET {"standing", "occurrences"}, pc : {"check"}]
EventCreateMemory ==
  [op : {"event-create"}, slot : SlotIds, date : Dates, sponsor : Parties \cup {Null},
   pc : {"free", "standing", "usable", "write"}]
EventUpdateMemory ==
  [op : {"event-update"}, id : EventIds, slot : SlotIds, date : Dates \cup {Null},
   sponsor : Named, pc : {"free", "usable", "write"}]
CompleteMemory == [op : {"event-complete"}, id : EventIds, completed : BOOLEAN, pc : {"write"}]
RemoveMemory == [op : {"event-remove"}, id : EventIds, pc : {"write"}]

\* A memory is of one of these kinds, told apart by its operation.
LEMMA MemoryKinds ==
  ASSUME TypeOK, NEW r \in Requests
  PROVE  /\ request[r].op = "type-update" => request[r] \in TypeUpdateMemory
         /\ request[r].op = "assign" => request[r] \in AssignMemory
         /\ request[r].op = "retire" => request[r] \in RetireMemory
         /\ request[r].op = "event-create" => request[r] \in EventCreateMemory
         /\ request[r].op = "event-update" => request[r] \in EventUpdateMemory
         /\ request[r].op = "event-complete" => request[r] \in CompleteMemory
         /\ request[r].op = "event-remove" => request[r] \in RemoveMemory
  BY DEF TypeOK, Memory, TypeMemory, SponsorMemory, EventMemory, Idle, TypeUpdateMemory, AssignMemory,
         RetireMemory, EventCreateMemory, EventUpdateMemory, CompleteMemory, RemoveMemory

\* And all of these are memories.
LEMMA KindsAreMemories ==
  /\ Idle \in Memory
  /\ TypeUpdateMemory \subseteq Memory /\ AssignMemory \subseteq Memory /\ RetireMemory \subseteq Memory
  /\ EventCreateMemory \subseteq Memory /\ EventUpdateMemory \subseteq Memory
  /\ CompleteMemory \subseteq Memory /\ RemoveMemory \subseteq Memory
  BY DEF Memory, TypeMemory, SponsorMemory, EventMemory, Idle, TypeUpdateMemory, AssignMemory,
         RetireMemory, EventCreateMemory, EventUpdateMemory, CompleteMemory, RemoveMemory

\* A row is told from an id that has none.
LEMMA RowsAreThere ==
  \A row \in TypeRow \cup SlotRow \cup AssignedRow \cup EventRow : row \notin Absent
<1>1. \A x \in Absent : DOMAIN x = {"status"}
  BY DEF Absent, Unborn, Removed
<1>2. \A x \in TypeRow : DOMAIN x = {"n", "funding"}
  BY DEF TypeRow
<1>3. \A x \in SlotRow : DOMAIN x = {"instance", "active"}
  BY DEF SlotRow
<1>4. \A x \in AssignedRow : DOMAIN x = {"slot", "party"}
  BY DEF AssignedRow
<1>5. \A x \in EventRow : DOMAIN x = {"slot", "date", "sponsor", "completed", "cited"}
  BY DEF EventRow
<1> QED
  BY <1>1, <1>2, <1>3, <1>4, <1>5

LEMMA Rows ==
  ASSUME TypeOK
  PROVE  /\ HasType <=> type \in TypeRow
         /\ \A s \in SlotIds : s \in Slots <=> slot[s] \in SlotRow
         /\ \A a \in AssignedIds : a \in Assigned <=> assigned[a] \in AssignedRow
         /\ \A e \in EventIds : e \in Events <=> event[e] \in EventRow
  BY RowsAreThere DEF TypeOK, HasType, Slots, Assigned, Events

-----------------------------------------------------------------------------
(* What handlers remember *)

\* One handler remembers something else, and that is a memory.
LEMMA RememberStep ==
  ASSUME TypeOK, NEW r \in Requests, NEW m \in Memory, request' = [request EXCEPT ![r] = m]
  PROVE  request' \in [Requests -> Memory]
  BY DEF TypeOK

LEMMA FinishStep ==
  ASSUME TypeOK, NEW r \in Requests, Finish(r)
  PROVE  request' \in [Requests -> Memory]
  BY RememberStep, KindsAreMemories DEF Finish, Remember

\* The handlers of event types.
LEMMA TypeMemories ==
  ASSUME CalendarInv, TypesNext
  PROVE  request' \in [Requests -> Memory]
<1> USE DEF CalendarInv, CalendarHolds
<1>1. CASE CreateType \/ UpdateSlot
  BY <1>1 DEF CreateType, UpdateSlot, AtOnce, TypeOK
<1> SUFFICES ASSUME NEW r \in Requests,
                    \/ TypeLoad(r) \/ CountBeyond(r) \/ TypeWrite(r) \/ SyncDelete(r)
                    \/ SyncFind(r) \/ SyncCreate(r) \/ TypeRemoveCount(r) \/ TypeRemoveWrite(r)
             PROVE  request' \in [Requests -> Memory]
  BY <1>1 DEF TypesNext
<1>2. CASE TypeLoad(r)
  <2>1. PICK n \in Instances \cup {Null}, funding \in Funding \cup {Null} :
          request' = [request EXCEPT ![r] =
            [op |-> "type-update", n |-> n, funding |-> funding, resize |-> Resizes(n),
             counts |-> IF Shrinks(n) THEN {"sponsors", "events"} ELSE {},
             missing |-> {}, pc |-> "check"]]
    BY <1>2 DEF TypeLoad, Accept
  <2>2. [op |-> "type-update", n |-> n, funding |-> funding, resize |-> Resizes(n),
         counts |-> IF Shrinks(n) THEN {"sponsors", "events"} ELSE {},
         missing |-> {}, pc |-> "check"] \in TypeUpdateMemory
    BY DEF TypeUpdateMemory, Resizes
  <2> QED
    BY <2>1, <2>2, RememberStep, KindsAreMemories
<1>3. request[r].op = "type-update" => request[r] \in TypeUpdateMemory
  BY MemoryKinds
<1>4. CASE CountBeyond(r)
  <2>1. PICK count \in request[r].counts :
          request' = [request EXCEPT ![r] = [request[r] EXCEPT !.counts = request[r].counts \ {count}]]
    BY <1>4 DEF CountBeyond, Remember
  <2>2. [request[r] EXCEPT !.counts = request[r].counts \ {count}] \in TypeUpdateMemory
    BY <1>3, <1>4 DEF CountBeyond, At, TypeUpdateMemory
  <2> QED
    BY <2>1, <2>2, RememberStep, KindsAreMemories
<1>5. CASE TypeWrite(r)
  <2>1. [request[r] EXCEPT !.pc = "delete"] \in TypeUpdateMemory
    BY <1>3, <1>5 DEF TypeWrite, At, TypeUpdateMemory
  <2> QED
    BY <1>5, <2>1, RememberStep, FinishStep, KindsAreMemories DEF TypeWrite, Remember
<1>6. CASE SyncDelete(r)
  <2>1. [request[r] EXCEPT !.pc = "find"] \in TypeUpdateMemory
    BY <1>3, <1>6 DEF SyncDelete, At, TypeUpdateMemory
  <2> QED
    BY <1>6, <2>1, RememberStep, KindsAreMemories DEF SyncDelete, Remember
<1>7. CASE SyncFind(r)
  <2>1. request[r] \in TypeUpdateMemory
    BY <1>3, <1>7 DEF SyncFind, At
  <2>2. CASE Missing(request[r].n) = {}
    BY <1>7, <2>2, FinishStep DEF SyncFind
  <2>3. CASE Missing(request[r].n) # {}
    <3> DEFINE m == [request[r] EXCEPT !.pc = "create", !.missing = Missing(request[r].n)]
    <3>1. request[r].n \in 1..MaxInstances
      BY <1>7 DEF SyncFind, At, Numbered, Instances
    <3>2. \A i \in Missing(request[r].n) : i \in 1..request[r].n
      BY DEF Missing
    <3>3. Missing(request[r].n) \subseteq Instances
      BY <3>1, <3>2, CalendarAssumption DEF Instances
    <3>4. m \in TypeUpdateMemory
      BY <2>1, <3>3 DEF TypeUpdateMemory
    <3>5. request' = [request EXCEPT ![r] = m]
      BY <1>7, <2>3 DEF SyncFind, Remember
    <3> QED
      BY <3>4, <3>5, RememberStep, KindsAreMemories
  <2> QED
    BY <2>2, <2>3
<1>8. CASE SyncCreate(r) \/ TypeRemoveWrite(r)
  BY <1>8, FinishStep DEF SyncCreate, TypeRemoveWrite
<1>9. CASE TypeRemoveCount(r)
  BY <1>9, RememberStep DEF TypeRemoveCount, Accept, Memory, TypeMemory
<1> QED
  BY <1>2, <1>4, <1>5, <1>6, <1>7, <1>8, <1>9

\* The handlers of sponsors and parties.
LEMMA SponsorMemories ==
  ASSUME CalendarInv, SponsorsNext
  PROVE  request' \in [Requests -> Memory]
<1> USE DEF CalendarInv, CalendarHolds
<1>1. CASE Unassign \/ Reinstate \/ SetMembership
  BY <1>1 DEF Unassign, Reinstate, SetMembership, AtOnce, TypeOK
<1> SUFFICES ASSUME NEW r \in Requests,
                    \/ AssignResolve(r) \/ ReassignLoad(r) \/ AssignUsable(r) \/ ReassignResolve(r)
                    \/ AssignDistinct(r) \/ AssignWrite(r)
                    \/ RetireLoad(r) \/ RetireCount(r) \/ RetireWrite(r)
             PROVE  request' \in [Requests -> Memory]
  BY <1>1 DEF SponsorsNext
<1>2. CASE AssignResolve(r)
  <2>1. PICK instance \in Instances, p \in Parties, s \in SlotIds :
          request' = [request EXCEPT ![r] =
            [op |-> "assign", id |-> Null, slot |-> s, instance |-> instance, party |-> p, pc |-> "usable"]]
    BY <1>2 DEF AssignResolve, Accept, SlotOf, Slots
  <2>2. [op |-> "assign", id |-> Null, slot |-> s, instance |-> instance, party |-> p, pc |-> "usable"]
          \in AssignMemory
    BY DEF AssignMemory
  <2> QED
    BY <2>1, <2>2, RememberStep, KindsAreMemories
<1>3. CASE ReassignLoad(r)
  <2>1. PICK a \in Assigned, instance \in Instances \cup {Null}, p \in Parties \cup {Null} :
          request' = [request EXCEPT ![r] =
            [op |-> "assign", id |-> a, slot |-> assigned[a].slot,
             instance |-> IF instance = Null THEN slot[assigned[a].slot].instance ELSE instance,
             party |-> IF p = Null THEN assigned[a].party ELSE p,
             pc |-> IF p = Null THEN "resolve" ELSE "usable"]]
    BY <1>3 DEF ReassignLoad, Accept
  <2>2. a \in AssignedIds /\ assigned[a] \in AssignedRow /\ assigned[a].slot \in Slots
    BY Rows DEF Assigned
  <2>3. slot[assigned[a].slot].instance \in Instances /\ assigned[a].slot \in SlotIds
    BY <2>2, Rows DEF Slots, SlotRow
  <2>4. assigned[a].party \in Parties
    BY <2>2 DEF AssignedRow
  <2> DEFINE m == [op |-> "assign", id |-> a, slot |-> assigned[a].slot,
             instance |-> IF instance = Null THEN slot[assigned[a].slot].instance ELSE instance,
             party |-> IF p = Null THEN assigned[a].party ELSE p,
             pc |-> IF p = Null THEN "resolve" ELSE "usable"]
  <2>5. m \in AssignMemory
    BY <2>2, <2>3, <2>4 DEF AssignMemory
  <2> QED
    BY <2>1, <2>5, RememberStep, KindsAreMemories
<1>4. request[r].op = "assign" => request[r] \in AssignMemory
  BY MemoryKinds
<1>5. ASSUME NEW pc \in {"usable", "resolve", "distinct", "write"}, request[r].op = "assign",
             request' = [request EXCEPT ![r] = [request[r] EXCEPT !.pc = pc]]
      PROVE  request' \in [Requests -> Memory]
  <2>1. [request[r] EXCEPT !.pc = pc] \in AssignMemory
    BY <1>4, <1>5 DEF AssignMemory
  <2> QED
    BY <1>5, <2>1, RememberStep, KindsAreMemories
<1>6. CASE AssignUsable(r) \/ AssignDistinct(r)
  BY <1>5, <1>6 DEF AssignUsable, AssignDistinct, At, Remember
<1>7. CASE ReassignResolve(r)
  <2>1. PICK s \in SlotIds :
          request' = [request EXCEPT ![r] = [request[r] EXCEPT !.slot = s, !.pc = "distinct"]]
    BY <1>7 DEF ReassignResolve, Remember, SlotOf, Slots
  <2>2. [request[r] EXCEPT !.slot = s, !.pc = "distinct"] \in AssignMemory
    BY <1>4, <1>7 DEF ReassignResolve, At, AssignMemory
  <2> QED
    BY <2>1, <2>2, RememberStep, KindsAreMemories
<1>8. CASE AssignWrite(r) \/ RetireWrite(r)
  BY <1>8, FinishStep DEF AssignWrite, RetireWrite
<1>9. CASE RetireLoad(r)
  <2>1. PICK p \in Parties :
          request' = [request EXCEPT ![r] =
            [op |-> "retire", party |-> p, counts |-> {"standing", "occurrences"}, pc |-> "check"]]
    BY <1>9 DEF RetireLoad, Accept
  <2>2. [op |-> "retire", party |-> p, counts |-> {"standing", "occurrences"}, pc |-> "check"] \in RetireMemory
    BY DEF RetireMemory
  <2> QED
    BY <2>1, <2>2, RememberStep, KindsAreMemories
<1>10. CASE RetireCount(r)
  <2>1. PICK count \in request[r].counts :
          request' = [request EXCEPT ![r] = [request[r] EXCEPT !.counts = request[r].counts \ {count}]]
    BY <1>10 DEF RetireCount, Remember
  <2>2. [request[r] EXCEPT !.counts = request[r].counts \ {count}] \in RetireMemory
    BY <1>10, MemoryKinds DEF RetireCount, At, RetireMemory
  <2> QED
    BY <2>1, <2>2, RememberStep, KindsAreMemories
<1> QED
  BY <1>2, <1>3, <1>6, <1>7, <1>8, <1>9, <1>10

\* The handlers of occurrences.
LEMMA EventMemories ==
  ASSUME CalendarInv, EventsNext
  PROVE  request' \in [Requests -> Memory]
<1> USE DEF CalendarInv, CalendarHolds
<1> PICK r \in Requests :
      \/ CreateResolve(r) \/ CreateFree(r) \/ CreateStanding(r) \/ CreateUsable(r) \/ CreateWrite(r)
      \/ UpdateLoad(r) \/ UpdateFree(r) \/ UpdateUsable(r) \/ UpdateWrite(r)
      \/ CompleteLoad(r) \/ CompleteWrite(r) \/ RemoveCount(r) \/ RemoveWrite(r)
  BY DEF EventsNext
<1>1. CASE CreateResolve(r)
  <2>1. PICK s \in Slots, date \in Dates, p \in Parties \cup {Null} :
          request' = [request EXCEPT ![r] =
            [op |-> "event-create", slot |-> s, date |-> date, sponsor |-> p, pc |-> "free"]]
    BY <1>1 DEF CreateResolve, Accept
  <2>2. [op |-> "event-create", slot |-> s, date |-> date, sponsor |-> p, pc |-> "free"] \in EventCreateMemory
    BY DEF EventCreateMemory, Slots
  <2> QED
    BY <2>1, <2>2, RememberStep, KindsAreMemories
<1>2. request[r].op = "event-create" => request[r] \in EventCreateMemory
  BY MemoryKinds
<1>3. request[r].op = "event-update" => request[r] \in EventUpdateMemory
  BY MemoryKinds
<1>4. CASE CreateFree(r)
  <2> DEFINE m == [request[r] EXCEPT !.pc = IF request[r].sponsor = Null THEN "standing" ELSE "usable"]
  <2>1. m \in EventCreateMemory
    BY <1>2, <1>4 DEF CreateFree, At, EventCreateMemory
  <2> QED
    BY <1>4, <2>1, RememberStep, KindsAreMemories DEF CreateFree, Remember
<1>5. CASE CreateStanding(r)
  <2>1. PICK p \in StandingSponsor(request[r].slot) :
          request' = [request EXCEPT ![r] =
            [request[r] EXCEPT !.sponsor = p, !.pc = IF p = Null THEN "write" ELSE "usable"]]
    BY <1>5 DEF CreateStanding, Remember
  <2>2. p \in Parties \cup {Null}
    BY Rows DEF StandingSponsor, Assigned, AssignedRow
  <2>3. [request[r] EXCEPT !.sponsor = p, !.pc = IF p = Null THEN "write" ELSE "usable"] \in EventCreateMemory
    BY <1>2, <1>5, <2>2 DEF CreateStanding, At, EventCreateMemory
  <2> QED
    BY <2>1, <2>3, RememberStep, KindsAreMemories
<1>6. CASE CreateUsable(r)
  <2>1. [request[r] EXCEPT !.pc = "write"] \in EventCreateMemory
    BY <1>2, <1>6 DEF CreateUsable, At, EventCreateMemory
  <2> QED
    BY <1>6, <2>1, RememberStep, KindsAreMemories DEF CreateUsable, Remember
<1>7. CASE CreateWrite(r) \/ UpdateWrite(r) \/ CompleteWrite(r) \/ RemoveWrite(r)
  BY <1>7, FinishStep DEF CreateWrite, UpdateWrite, CompleteWrite, RemoveWrite
<1>8. CASE UpdateLoad(r)
  <2>1. PICK e \in Events, date \in Dates \cup {Null}, p \in Named :
          request' = [request EXCEPT ![r] =
            [op |-> "event-update", id |-> e, slot |-> event[e].slot, date |-> date,
             sponsor |-> p, pc |-> IF date = Null THEN "usable" ELSE "free"]]
    BY <1>8 DEF UpdateLoad, Accept
  <2>2. e \in EventIds /\ event[e].slot \in SlotIds
    BY DEF Events, Slots
  <2>3. [op |-> "event-update", id |-> e, slot |-> event[e].slot, date |-> date,
         sponsor |-> p, pc |-> IF date = Null THEN "usable" ELSE "free"] \in EventUpdateMemory
    BY <2>2 DEF EventUpdateMemory
  <2> QED
    BY <2>1, <2>3, RememberStep, KindsAreMemories
<1>9. CASE UpdateFree(r)
  <2>1. [request[r] EXCEPT !.pc = "usable"] \in EventUpdateMemory
    BY <1>3, <1>9 DEF UpdateFree, At, EventUpdateMemory
  <2> QED
    BY <1>9, <2>1, RememberStep, KindsAreMemories DEF UpdateFree, Remember
<1>10. CASE UpdateUsable(r)
  <2>1. [request[r] EXCEPT !.pc = "write"] \in EventUpdateMemory
    BY <1>3, <1>10 DEF UpdateUsable, At, EventUpdateMemory
  <2> QED
    BY <1>10, <2>1, RememberStep, KindsAreMemories DEF UpdateUsable, Remember
<1>11. CASE CompleteLoad(r)
  <2>1. PICK e \in Events :
          request' = [request EXCEPT ![r] =
            [op |-> "event-complete", id |-> e, completed |-> ~event[e].completed, pc |-> "write"]]
    BY <1>11 DEF CompleteLoad, Accept
  <2>2. e \in EventIds /\ event[e].completed \in BOOLEAN
    BY Rows DEF Events, EventRow
  <2>3. (~event[e].completed) \in BOOLEAN
    OBVIOUS
  <2>4. [op |-> "event-complete", id |-> e, completed |-> ~event[e].completed, pc |-> "write"] \in CompleteMemory
    BY <2>2, <2>3 DEF CompleteMemory
  <2> QED
    BY <2>1, <2>4, RememberStep, KindsAreMemories
<1>12. CASE RemoveCount(r)
  <2>1. PICK e \in Events :
          request' = [request EXCEPT ![r] = [op |-> "event-remove", id |-> e, pc |-> "write"]]
    BY <1>12 DEF RemoveCount, Accept
  <2>2. [op |-> "event-remove", id |-> e, pc |-> "write"] \in RemoveMemory
    BY DEF RemoveMemory, Events
  <2> QED
    BY <2>1, <2>2, RememberStep, KindsAreMemories
<1> QED
  BY <1>1, <1>4, <1>5, <1>6, <1>7, <1>8, <1>9, <1>10, <1>11, <1>12

LEMMA Memories ==
  ASSUME CalendarInv, [Next]_vars
  PROVE  request' \in [Requests -> Memory]
<1>1. CASE Cite \/ Midnight \/ UNCHANGED vars
  BY <1>1 DEF CalendarInv, CalendarHolds, TypeOK, Cite, Midnight, AtOnce, vars
<1>2. ASSUME NEW r \in Requests, Abort(r)
      PROVE  request' \in [Requests -> Memory]
  BY <1>2, FinishStep DEF CalendarInv, CalendarHolds, Abort
<1> QED
  BY <1>1, <1>2, TypeMemories, SponsorMemories, EventMemories DEF Next

\* The steps that begin or carry on an update of the type.
TypeUpdates(r) ==
  TypeLoad(r) \/ CountBeyond(r) \/ TypeWrite(r) \/ SyncDelete(r) \/ SyncFind(r)

\* All other steps leave the updates of the type that are in flight alone, or end one.
LEMMA OtherHandlers ==
  ASSUME CalendarInv, [Next]_vars, NEW r \in Requests, request'[r].op = "type-update"
  PROVE  request'[r] = request[r] \/ TypeUpdates(r)
<1> USE DEF CalendarInv, CalendarHolds
<1>1. CASE UNCHANGED request
  BY <1>1
<1>2. Idle.op # "type-update"
  BY DEF Idle
<1>3. ASSUME NEW s \in Requests, Finish(s)
      PROVE  request'[r] = request[r]
  BY <1>2, <1>3 DEF Finish, Remember, TypeOK
<1>4. ASSUME NEW s \in Requests, NEW m, m.op # "type-update", request' = [request EXCEPT ![s] = m]
      PROVE  request'[r] = request[r]
  BY <1>4 DEF TypeOK
<1>5. ASSUME NEW s \in Requests, TypeUpdates(s)
      PROVE  request'[r] = request[r] \/ TypeUpdates(r)
  <2>1. s # r => request'[r] = request[r]
    BY <1>5 DEF TypeUpdates, TypeLoad, CountBeyond, TypeWrite, SyncDelete, SyncFind, Accept, Remember,
                Finish, TypeOK
  <2> QED
    BY <1>5, <2>1
<1>6. CASE TypesNext
  BY <1>1, <1>3, <1>4, <1>5, <1>6 DEF TypesNext, TypeUpdates, CreateType, UpdateSlot, AtOnce, SyncCreate,
     TypeRemoveCount, TypeRemoveWrite, Accept
<1>7. CASE SponsorsNext
  <2>1. ASSUME NEW s \in Requests, request[s].op \in {"assign", "retire"}, NEW pc, NEW sl, NEW c,
               \/ request' = [request EXCEPT ![s] = [request[s] EXCEPT !.pc = pc]]
               \/ request' = [request EXCEPT ![s] = [request[s] EXCEPT !.slot = sl, !.pc = pc]]
               \/ request' = [request EXCEPT ![s] = [request[s] EXCEPT !.counts = c]]
        PROVE  request'[r] = request[r]
    <3>1. request[s] \in AssignMemory \cup RetireMemory
      BY <2>1, MemoryKinds
    <3>2. /\ [request[s] EXCEPT !.pc = pc].op # "type-update"
          /\ [request[s] EXCEPT !.slot = sl, !.pc = pc].op # "type-update"
          /\ [request[s] EXCEPT !.counts = c].op # "type-update"
      BY <3>1 DEF AssignMemory, RetireMemory
    <3> QED
      BY <2>1, <3>2, <1>4
  <2>2. CASE Unassign \/ Reinstate \/ SetMembership
    BY <2>2, <1>1 DEF Unassign, Reinstate, SetMembership, AtOnce
  <2>3. ASSUME NEW s \in Requests, AssignResolve(s) \/ ReassignLoad(s) \/ RetireLoad(s)
        PROVE  request'[r] = request[r]
    BY <2>3, <1>4 DEF AssignResolve, ReassignLoad, RetireLoad, Accept
  <2>4. ASSUME NEW s \in Requests, AssignUsable(s) \/ AssignDistinct(s) \/ ReassignResolve(s) \/ RetireCount(s)
        PROVE  request'[r] = request[r]
    BY <2>4, <2>1 DEF AssignUsable, AssignDistinct, ReassignResolve, RetireCount, At, Remember
  <2>5. ASSUME NEW s \in Requests, AssignWrite(s) \/ RetireWrite(s)
        PROVE  request'[r] = request[r]
    BY <2>5, <1>3 DEF AssignWrite, RetireWrite
  <2> QED
    BY <1>7, <2>2, <2>3, <2>4, <2>5 DEF SponsorsNext
<1>8. CASE EventsNext
  <2>1. ASSUME NEW s \in Requests, request[s].op \in {"event-create", "event-update"}, NEW pc, NEW p,
               \/ request' = [request EXCEPT ![s] = [request[s] EXCEPT !.pc = pc]]
               \/ request' = [request EXCEPT ![s] = [request[s] EXCEPT !.sponsor = p, !.pc = pc]]
        PROVE  request'[r] = request[r]
    <3>1. request[s] \in EventCreateMemory \cup EventUpdateMemory
      BY <2>1, MemoryKinds
    <3>2. /\ [request[s] EXCEPT !.pc = pc].op # "type-update"
          /\ [request[s] EXCEPT !.sponsor = p, !.pc = pc].op # "type-update"
      BY <3>1 DEF EventCreateMemory, EventUpdateMemory
    <3> QED
      BY <2>1, <3>2, <1>4
  <2>2. ASSUME NEW s \in Requests, CreateResolve(s) \/ UpdateLoad(s) \/ CompleteLoad(s) \/ RemoveCount(s)
        PROVE  request'[r] = request[r]
    BY <2>2, <1>4 DEF CreateResolve, UpdateLoad, CompleteLoad, RemoveCount, Accept
  <2>3. ASSUME NEW s \in Requests,
               CreateFree(s) \/ CreateStanding(s) \/ CreateUsable(s) \/ UpdateFree(s) \/ UpdateUsable(s)
        PROVE  request'[r] = request[r]
    BY <2>3, <2>1 DEF CreateFree, CreateStanding, CreateUsable, UpdateFree, UpdateUsable, At, Remember
  <2>4. ASSUME NEW s \in Requests, CreateWrite(s) \/ UpdateWrite(s) \/ CompleteWrite(s) \/ RemoveWrite(s)
        PROVE  request'[r] = request[r]
    BY <2>4, <1>3 DEF CreateWrite, UpdateWrite, CompleteWrite, RemoveWrite
  <2> QED
    BY <1>8, <2>2, <2>3, <2>4 DEF EventsNext
<1>9. CASE Cite \/ Midnight \/ \E s \in Requests : Abort(s)
  BY <1>9, <1>1, <1>3 DEF Cite, Midnight, AtOnce, Abort
<1> QED
  BY <1>1, <1>6, <1>7, <1>8, <1>9 DEF Next, vars

\* Who goes on to syncSlots has a number to go with.
LEMMA NumberedStep ==
  ASSUME CalendarInv, [Next]_vars
  PROVE  \A r \in Requests : Numbered(request'[r])
<1> USE DEF CalendarInv, CalendarHolds
<1> SUFFICES ASSUME NEW r \in Requests, request'[r].op = "type-update",
                    request'[r].resize \/ request'[r].pc # "check"
             PROVE  request'[r].n \in Instances
  BY DEF Numbered
<1>1. CASE request'[r] = request[r]
  BY <1>1 DEF Numbered
<1>2. CASE TypeLoad(r)
  <2>1. PICK n \in Instances \cup {Null}, funding \in Funding \cup {Null} :
          request' = [request EXCEPT ![r] =
            [op |-> "type-update", n |-> n, funding |-> funding, resize |-> Resizes(n),
             counts |-> IF Shrinks(n) THEN {"sponsors", "events"} ELSE {},
             missing |-> {}, pc |-> "check"]]
    BY <1>2 DEF TypeLoad, Accept
  <2>2. request'[r].n = n /\ request'[r].resize = Resizes(n) /\ request'[r].pc = "check"
    BY <2>1 DEF TypeOK
  <2> QED
    BY <2>2 DEF Resizes
<1>3. request[r].op = "type-update" => request[r] \in TypeUpdateMemory
  BY MemoryKinds
<1>4. CASE CountBeyond(r) \/ TypeWrite(r) \/ SyncDelete(r) \/ SyncFind(r)
  <2>1. request[r] \in TypeUpdateMemory /\ request[r].op = "type-update"
    BY <1>3, <1>4 DEF CountBeyond, TypeWrite, SyncDelete, SyncFind, At
  <2>2. ~Finish(r)
    BY DEF Finish, Remember, Idle, TypeOK
  <2>3. request'[r].n = request[r].n
    <3>1. \A pc : [request[r] EXCEPT !.pc = pc].n = request[r].n
      BY <2>1 DEF TypeUpdateMemory
    <3>2. \A m : Remember(r, m) => request'[r] = m
      BY DEF Remember, TypeOK
    <3>3. CASE CountBeyond(r)
      <4>1. PICK c : Remember(r, [request[r] EXCEPT !.counts = c])
        BY <3>3 DEF CountBeyond
      <4>2. [request[r] EXCEPT !.counts = c].n = request[r].n
        BY <2>1 DEF TypeUpdateMemory
      <4> QED
        BY <3>2, <4>1, <4>2
    <3>4. CASE TypeWrite(r)
      BY <2>2, <3>1, <3>2, <3>4 DEF TypeWrite
    <3>5. CASE SyncDelete(r)
      <4>1. [request[r] EXCEPT !.pc = "find"].n = request[r].n
        BY <2>1 DEF TypeUpdateMemory
      <4> QED
        BY <3>2, <3>5, <4>1 DEF SyncDelete
    <3>6. CASE SyncFind(r)
      <4>1. [request[r] EXCEPT !.pc = "create", !.missing = Missing(request[r].n)].n = request[r].n
        BY <2>1 DEF TypeUpdateMemory
      <4> QED
        BY <2>2, <3>2, <3>6, <4>1 DEF SyncFind
    <3> QED
      BY <1>4, <3>3, <3>4, <3>5, <3>6
  <2>4. request[r].resize \/ request[r].pc # "check"
    <3>1. CASE CountBeyond(r)
      BY <2>1, <3>1 DEF CountBeyond, Remember, TypeOK, TypeUpdateMemory
    <3>2. CASE TypeWrite(r)
      BY <2>1, <2>2, <3>2 DEF TypeWrite
    <3>3. CASE SyncDelete(r) \/ SyncFind(r)
      BY <3>3 DEF SyncDelete, SyncFind, At
    <3> QED
      BY <1>4, <3>1, <3>2, <3>3
  <2> QED
    BY <2>1, <2>3, <2>4 DEF Numbered
<1> QED
  BY <1>1, <1>2, <1>4, OtherHandlers DEF TypeUpdates

-----------------------------------------------------------------------------
(* The tables *)

\* What CalendarInv says of the tables.
TablesHold ==
  /\ type \in TypeRow \cup Absent
  /\ slot \in [SlotIds -> SlotRow \cup Absent]
  /\ assigned \in [AssignedIds -> AssignedRow \cup Absent]
  /\ event \in [EventIds -> EventRow \cup Absent]
  /\ party \in [Parties -> [active : BOOLEAN, member : BOOLEAN]]
  /\ today \in Dates
  /\ \A s, t \in Slots : slot[s].instance = slot[t].instance => s = t
  /\ \A e, f \in Events : event[e].slot = event[f].slot /\ Year(event[e].date) = Year(event[f].date) => e = f
  /\ \A a, b \in Assigned : assigned[a] = assigned[b] => a = b
  /\ \A e \in Events : event[e].slot \in Slots
  /\ \A a \in Assigned : assigned[a].slot \in Slots
  /\ Slots # {} => HasType
  /\ DrawnInOrder

LEMMA InvParts ==
  CalendarInv <=>
    TablesHold /\ request \in [Requests -> Memory] /\ \A r \in Requests : Numbered(request[r])
  BY DEF CalendarInv, CalendarHolds, TypeOK, TablesHold

LEMMA TableRows ==
  ASSUME TablesHold
  PROVE  /\ HasType <=> type \in TypeRow
         /\ \A s \in SlotIds : s \in Slots <=> slot[s] \in SlotRow
         /\ \A a \in AssignedIds : a \in Assigned <=> assigned[a] \in AssignedRow
         /\ \A e \in EventIds : e \in Events <=> event[e] \in EventRow
  BY RowsAreThere DEF TablesHold, HasType, Slots, Assigned, Events

\* A step that writes none of the tables.
LEMMA NoTable ==
  ASSUME TablesHold, UNCHANGED <<tables, party, today>>
  PROVE  TablesHold'
  BY DEF TablesHold, tables, Slots, Assigned, Events, HasType, DrawnInOrder, UsedIds

\* One that writes the parties or the day.
LEMMA PartyOrDay ==
  ASSUME TablesHold, UNCHANGED tables,
         party' \in [Parties -> [active : BOOLEAN, member : BOOLEAN]], today' \in Dates
  PROVE  TablesHold'
  BY DEF TablesHold, tables, Slots, Assigned, Events, HasType, DrawnInOrder, UsedIds

\* One that writes the type, and leaves one there.
LEMMA TypeStep ==
  ASSUME TablesHold, type' \in TypeRow, UNCHANGED <<slot, assigned, event, party, today>>
  PROVE  TablesHold'
<1>1. HasType'
  BY RowsAreThere DEF HasType
<1> QED
  BY <1>1 DEF TablesHold, Slots, Assigned, Events, DrawnInOrder, UsedIds

\* Slots are dropped, with what is assigned to them, unless they have occurrences; the
\* type may go with all of them.
LEMMA DropStep ==
  ASSUME TablesHold, NEW S \in SUBSET Slots, DropSlots(S), UNCHANGED <<event, party, today>>,
         type' = type \/ (type' = Removed /\ S = Slots)
  PROVE  TablesHold'
<1> USE DEF TablesHold
<1>1. Removed \in Absent /\ Removed # Unborn
  BY DEF Absent, Removed, Unborn
<1>2. \A s \in SlotIds : slot'[s] = IF s \in S THEN Removed ELSE slot[s]
  BY DEF DropSlots
<1>3. Slots' = Slots \ S
  BY <1>1, <1>2 DEF Slots
<1>4. UsedIds' = UsedIds
  <2>1. \A s \in S : s \in SlotIds /\ slot[s] # Unborn
    BY DEF Slots, Absent
  <2> QED
    BY <1>1, <1>2, <2>1 DEF UsedIds
<1>5. \A a \in AssignedIds :
        assigned'[a] = IF a \in Assigned /\ assigned[a].slot \in S THEN Removed ELSE assigned[a]
  BY DEF DropSlots
<1>6. Assigned' = {a \in Assigned : assigned[a].slot \notin S}
  BY <1>1, <1>5 DEF Assigned
<1>7. \A a \in Assigned' : assigned'[a] = assigned[a] /\ assigned[a].slot \in Slots'
  BY <1>3, <1>5, <1>6 DEF Assigned
<1>8. Events' = Events /\ \A e \in Events : event'[e] = event[e] /\ event[e].slot \in Slots'
  BY <1>3 DEF Events, DropSlots
<1>9. slot' \in [SlotIds -> SlotRow \cup Absent] /\ assigned' \in [AssignedIds -> AssignedRow \cup Absent]
  BY <1>1 DEF DropSlots
<1>10. \A s \in Slots' : slot'[s] = slot[s]
  BY <1>2, <1>3 DEF Slots
<1>11. Slots' # {} => HasType'
  BY <1>3 DEF HasType
<1>12. type' \in TypeRow \cup Absent
  BY <1>1
<1>13. \A s, t \in Slots' : slot'[s].instance = slot'[t].instance => s = t
  BY <1>3, <1>10
<1>14. \A a, b \in Assigned' : assigned'[a] = assigned'[b] => a = b
  BY <1>6, <1>7
<1>15. \A e, f \in Events' : event'[e].slot = event'[f].slot /\ Year(event'[e].date) = Year(event'[f].date) => e = f
  BY <1>8
<1> QED
  BY <1>4, <1>7, <1>8, <1>9, <1>11, <1>12, <1>13, <1>14, <1>15 DEF DrawnInOrder

\* Numbering a finite set of numbers in order, after the first so many.
LEMMA RanksInOrder ==
  ASSUME NEW new \in SUBSET Nat, IsFiniteSet(new), NEW base \in Nat
  PROVE  LET Rank(i) == base + Cardinality({j \in new : j <= i})
         IN /\ \A i \in new : Rank(i) \in (base + 1)..(base + Cardinality(new))
            /\ \A i, k \in new : Rank(i) = Rank(k) => i = k
            /\ IsFiniteSet({Rank(i) : i \in new})
            /\ Cardinality({Rank(i) : i \in new}) = Cardinality(new)
<1> DEFINE Below(i) == {j \in new : j <= i}
           Rank(i) == base + Cardinality(Below(i))
           Ranks == {Rank(i) : i \in new}
           f == [i \in new |-> Rank(i)]
<1>1. \A i \in new : IsFiniteSet(Below(i)) /\ Cardinality(Below(i)) \in Nat
                     /\ Cardinality(Below(i)) <= Cardinality(new)
  BY FS_Subset, FS_CardinalityType
<1>2. Cardinality(new) \in Nat
  BY FS_CardinalityType
<1>3. \A i \in new : Cardinality(Below(i)) # 0
  <2>1. \A i \in new : i \in Below(i)
    OBVIOUS
  <2> QED
    BY <1>1, <2>1, FS_EmptySet
<1>4. ASSUME NEW i \in new, NEW k \in new, i < k
      PROVE  Rank(i) < Rank(k)
  <2> i \in Nat /\ k \in Nat
    OBVIOUS
  <2>1. Below(i) \subseteq Below(k) /\ k \in Below(k) /\ k \notin Below(i)
    <3>1. ASSUME NEW j \in Below(i) PROVE j \in Below(k)
      BY <1>4, <3>1
    <3>2. k \in Below(k) /\ ~(k <= i)
      BY <1>4
    <3> QED
      BY <3>1, <3>2
  <2>2. Cardinality(Below(i)) <= Cardinality(Below(k)) /\ Cardinality(Below(i)) # Cardinality(Below(k))
    BY <1>1, <2>1, FS_Subset
  <2> QED
    BY <1>1, <2>2
<1>5. \A i, k \in new : Rank(i) = Rank(k) => i = k
  <2> SUFFICES ASSUME NEW i \in new, NEW k \in new, Rank(i) = Rank(k), i # k
               PROVE  FALSE
    OBVIOUS
  <2>1. i < k \/ k < i
    OBVIOUS
  <2>2. Rank(i) \in Nat /\ Rank(k) \in Nat
    BY <1>1
  <2> QED
    BY <1>4, <2>1, <2>2
<1>6. \A i \in new : Rank(i) \in (base + 1)..(base + Cardinality(new))
  BY <1>1, <1>2, <1>3
<1>7. f \in Surjection(new, Ranks) /\ f \in Injection(new, Ranks)
  BY <1>5 DEF Surjection, Injection, IsInjective
<1>8. IsFiniteSet(Ranks) /\ Cardinality(Ranks) = Cardinality(new)
  BY <1>7, FS_Surjection
<1> QED
  BY <1>5, <1>6, <1>8

\* Slots are created with the type, numbered from one.
LEMMA CreateTypeStep ==
  ASSUME TablesHold, CreateType
  PROVE  TablesHold'
<1> USE DEF TablesHold
<1>1. PICK n \in Instances \cap SlotIds, funding \in Funding :
        /\ type' = [n |-> n, funding |-> funding]
        /\ slot' = [s \in SlotIds |-> IF s <= n THEN [instance |-> s, active |-> TRUE] ELSE Unborn]
  BY DEF CreateType
<1>2. n \in 1..MaxInstances /\ n \in 1..MaxSlot
  BY DEF Instances, SlotIds
<1>3. type' \in TypeRow
  BY <1>1 DEF TypeRow
<1>4. HasType'
  BY <1>3, RowsAreThere DEF HasType
<1>5. Slots = {} /\ Assigned = {} /\ Events = {}
  BY DEF CreateType, HasType, Absent
<1>6. Assigned' = {} /\ Events' = {}
  BY <1>5 DEF CreateType, Assigned, Events
<1>7. \A s \in SlotIds : s <= n => [instance |-> s, active |-> TRUE] \in SlotRow
  BY <1>2, CalendarAssumption DEF SlotRow, Instances, SlotIds
<1>8. slot' \in [SlotIds -> SlotRow \cup Absent]
  BY <1>1, <1>7 DEF Absent
<1>9. \A s \in SlotIds : s <= n => slot'[s] \in SlotRow /\ slot'[s].instance = s
  BY <1>1, <1>7
<1>10. \A s \in SlotIds : ~(s <= n) => slot'[s] = Unborn
  BY <1>1
<1>11. Slots' = 1..n /\ UsedIds' = 1..n
  <2>1. \A s \in SlotIds : s \in 1..n <=> s <= n
    BY <1>2, CalendarAssumption DEF SlotIds
  <2>2. 1..n \subseteq SlotIds
    BY <1>2, CalendarAssumption DEF SlotIds
  <2>3. \A s \in SlotIds : slot'[s] \in SlotRow => slot'[s] # Unborn /\ slot'[s] \notin Absent
    BY RowsAreThere DEF Absent
  <2> QED
    BY <1>9, <1>10, <2>1, <2>2, <2>3 DEF Slots, UsedIds, Absent
<1>12. DrawnInOrder'
  BY <1>2, <1>11, FS_Interval, CalendarAssumption DEF DrawnInOrder
<1>13. \A s, t \in Slots' : slot'[s].instance = slot'[t].instance => s = t
  BY <1>9, <1>11, <1>2, CalendarAssumption DEF SlotIds
<1> QED
  BY <1>3, <1>4, <1>6, <1>8, <1>12, <1>13 DEF CreateType

\* A slot is retired or taken back, and keeps its number.
LEMMA UpdateSlotStep ==
  ASSUME TablesHold, UpdateSlot
  PROVE  TablesHold'
<1> USE DEF TablesHold
<1>1. PICK s \in Slots, active \in BOOLEAN : slot' = [slot EXCEPT ![s].active = active]
  BY DEF UpdateSlot
<1>2. s \in SlotIds /\ slot[s] \in SlotRow
  BY TableRows DEF Slots
<1>3. [slot[s] EXCEPT !.active = active] \in SlotRow
      /\ [slot[s] EXCEPT !.active = active].instance = slot[s].instance
  BY <1>2 DEF SlotRow
<1>4. slot'[s] = [slot[s] EXCEPT !.active = active] /\ \A t \in SlotIds \ {s} : slot'[t] = slot[t]
  BY <1>1, <1>2
<1>5. slot' \in [SlotIds -> SlotRow \cup Absent]
  BY <1>1, <1>3
<1>6. slot'[s] \notin Absent
  BY <1>3, <1>4, RowsAreThere
<1>7. Slots' = Slots /\ UsedIds' = UsedIds
  BY <1>4, <1>6 DEF Slots, UsedIds, Absent
<1>8. \A t \in Slots : slot'[t].instance = slot[t].instance
  BY <1>3, <1>4 DEF Slots
<1> QED
  BY <1>5, <1>7, <1>8 DEF UpdateSlot, DrawnInOrder, HasType, Assigned, Events

SlotNumbers == {slot[s].instance : s \in Slots}

\* The missing slots come in under the next ids.
LEMMA SyncCreateStep ==
  ASSUME CalendarInv, NEW r \in Requests, SyncCreate(r)
  PROVE  TablesHold' /\ SlotNumbers' = SlotNumbers \cup request[r].missing
<1>0. TablesHold
  BY InvParts
<1> DEFINE new == request[r].missing \ {slot[s].instance : s \in Slots}
           drawn == Cardinality(UsedIds)
           Rank(i) == drawn + Cardinality({j \in new : j <= i})
           Ranks == {Rank(i) : i \in new}
           Chosen(s) == CHOOSE i \in new : Rank(i) = s
<1>1. request[r] \in TypeUpdateMemory
  BY MemoryKinds DEF SyncCreate, At, CalendarInv, CalendarHolds
<1>2. /\ HasType
      /\ drawn + Cardinality(new) <= MaxSlot
      /\ slot' = [s \in SlotIds |->
           IF \E i \in new : Rank(i) = s THEN [instance |-> Chosen(s), active |-> TRUE] ELSE slot[s]]
      /\ UNCHANGED <<type, assigned, event, party, today>>
  BY DEF SyncCreate, UsedIds
<1>30. slot \in [SlotIds -> SlotRow \cup Absent]
  BY <1>0 DEF TablesHold
<1>3. new \subseteq Instances /\ new \in SUBSET Nat
  BY <1>1, CalendarAssumption DEF TypeUpdateMemory, Instances
<1>4. IsFiniteSet(new) /\ IsFiniteSet(UsedIds) /\ drawn \in Nat /\ Cardinality(new) \in Nat
  <2>1. IsFiniteSet(Instances) /\ IsFiniteSet(SlotIds)
    BY FS_Interval, CalendarAssumption DEF Instances, SlotIds
  <2> QED
    BY <1>3, <2>1, FS_Subset, FS_CardinalityType DEF UsedIds
<1> HIDE DEF new, drawn
<1>5. /\ \A i \in new : Rank(i) \in (drawn + 1)..(drawn + Cardinality(new))
      /\ \A i, k \in new : Rank(i) = Rank(k) => i = k
      /\ IsFiniteSet(Ranks) /\ Cardinality(Ranks) = Cardinality(new)
  <2> HIDE DEF Rank
  <2>1. LET R(i) == drawn + Cardinality({j \in new : j <= i})
        IN /\ \A i \in new : R(i) \in (drawn + 1)..(drawn + Cardinality(new))
           /\ \A i, k \in new : R(i) = R(k) => i = k
           /\ IsFiniteSet({R(i) : i \in new})
           /\ Cardinality({R(i) : i \in new}) = Cardinality(new)
    BY <1>3, <1>4, RanksInOrder
  <2> QED
    BY <2>1 DEF Rank
<1> HIDE DEF Rank
<1>6. Ranks \subseteq SlotIds /\ Ranks \cap UsedIds = {}
  <2>1. \A s \in Ranks : s \in (drawn + 1)..(drawn + Cardinality(new))
    BY <1>5
  <2>2. \A s \in UsedIds : s \in 1..drawn
    BY <1>0 DEF TablesHold, DrawnInOrder, drawn
  <2>5. drawn + Cardinality(new) <= MaxSlot
    BY <1>2
  <2>3. \A s \in Ranks : s \in SlotIds
    <3> HIDE DEF Ranks
    <3> QED
      BY <1>4, <2>1, <2>5, CalendarAssumption DEF SlotIds
  <2>4. \A s \in Ranks : s \notin UsedIds
    BY <1>4, <2>1, <2>2
  <2> QED
    BY <2>3, <2>4
<1>7. \A s \in Ranks : Chosen(s) \in new /\ Rank(Chosen(s)) = s
  OBVIOUS
<1>8. \A s \in SlotIds :
        slot'[s] = IF s \in Ranks THEN [instance |-> Chosen(s), active |-> TRUE] ELSE slot[s]
  BY <1>2
<1> HIDE DEF Ranks, Chosen
<1>9. \A s \in Ranks : [instance |-> Chosen(s), active |-> TRUE] \in SlotRow
  BY <1>3, <1>7 DEF SlotRow
<1>10. slot' \in [SlotIds -> SlotRow \cup Absent]
  <2>1. \A s \in SlotIds : slot'[s] \in SlotRow \cup Absent
    BY <1>8, <1>9, <1>30
  <2>2. slot' = [s \in SlotIds |-> slot'[s]]
    BY <1>2
  <2> QED
    BY <2>1, <2>2
<1>11. \A s \in Ranks : s \in SlotIds /\ slot'[s] \in SlotRow /\ slot'[s] \notin Absent
                        /\ slot'[s].instance = Chosen(s)
  <2> TAKE s \in Ranks
  <2>1. s \in SlotIds /\ slot'[s] = [instance |-> Chosen(s), active |-> TRUE]
    BY <1>6, <1>8
  <2>2. slot'[s] \in SlotRow
    BY <1>9, <2>1
  <2> QED
    BY <2>1, <2>2, RowsAreThere
<1>12. \A s \in Slots : s \in UsedIds
  BY DEF Slots, UsedIds, Absent
<1>13. Slots' = Slots \cup Ranks /\ UsedIds' = UsedIds \cup Ranks
  <2>1. Unborn \in Absent
    BY DEF Absent
  <2>2. \A s \in SlotIds \ Ranks : slot'[s] = slot[s]
    BY <1>8
  <2> QED
    BY <1>6, <1>11, <2>1, <2>2 DEF Slots, UsedIds
<1>14. \A s \in Slots : slot'[s] = slot[s]
  BY <1>6, <1>8, <1>12 DEF Slots
<1>15. \A s, t \in Slots' : slot'[s].instance = slot'[t].instance => s = t
  <2>1. \A s \in Slots, t \in Ranks : slot[s].instance # Chosen(t)
    BY <1>7 DEF new
  <2>2. \A s, t \in Ranks : Chosen(s) = Chosen(t) => s = t
    BY <1>7
  <2> QED
    BY <1>0, <1>11, <1>13, <1>14, <2>1, <2>2 DEF TablesHold
<1>16. DrawnInOrder'
  <2>1. Cardinality(UsedIds') = drawn + Cardinality(new)
    <3>1. Cardinality(UsedIds \cap Ranks) = 0
      BY <1>6, FS_EmptySet DEF Ranks
    <3>2. Cardinality(UsedIds \cup Ranks) = Cardinality(UsedIds) + Cardinality(Ranks)
      <4>1. IsFiniteSet(Ranks) /\ Cardinality(UsedIds) \in Nat /\ Cardinality(Ranks) \in Nat
        BY <1>4, <1>5, FS_CardinalityType DEF Ranks
      <4>2. Cardinality(UsedIds \cup Ranks)
              = Cardinality(UsedIds) + Cardinality(Ranks) - Cardinality(UsedIds \cap Ranks)
        BY <1>4, <4>1, FS_Union
      <4>3. UsedIds \cap Ranks = Ranks \cap UsedIds
        OBVIOUS
      <4> QED
        BY <3>1, <4>1, <4>2, <4>3
    <3> QED
      BY <1>5, <1>13, <3>2 DEF drawn, Ranks
  <2>2. \A s \in UsedIds' : s \in 1..(drawn + Cardinality(new))
    <3>1. \A s \in Ranks : s \in (drawn + 1)..(drawn + Cardinality(new))
      BY <1>5, <1>7
    <3>2. \A s \in UsedIds : s \in 1..drawn
      BY <1>0 DEF TablesHold, DrawnInOrder, drawn
    <3> QED
      BY <1>4, <1>13, <3>1, <3>2
  <2> QED
    BY <2>1, <2>2 DEF DrawnInOrder
<1>17. HasType' /\ Assigned' = Assigned /\ Events' = Events
  BY <1>2 DEF HasType, Assigned, Events
<1>18. SlotNumbers' = SlotNumbers \cup request[r].missing
  <2>1. \A s \in Ranks : Chosen(s) \in new
    BY <1>7
  <2>2. \A i \in new : Rank(i) \in Ranks /\ Chosen(Rank(i)) = i
    <3>1. \A i \in new : Rank(i) \in Ranks
      BY DEF Ranks
    <3> QED
      BY <1>5, <1>7, <3>1
  <2>3. SlotNumbers' = SlotNumbers \cup new
    BY <1>11, <1>13, <1>14, <2>1, <2>2 DEF SlotNumbers
  <2> QED
    BY <2>3 DEF SlotNumbers, new
<1>19. TablesHold'
  BY <1>0, <1>2, <1>10, <1>13, <1>14, <1>15, <1>16, <1>17 DEF TablesHold
<1> QED
  BY <1>18, <1>19

\* A row of assigned is written: it stands on a slot and no other row equals it.
LEMMA AssignedStep ==
  ASSUME TablesHold, NEW a \in AssignedIds, NEW row \in AssignedRow, row.slot \in Slots,
         \A b \in Assigned \ {a} : assigned[b] # row, assigned' = [assigned EXCEPT ![a] = row],
         UNCHANGED <<type, slot, event, party, today>>
  PROVE  TablesHold'
<1>1. assigned' \in [AssignedIds -> AssignedRow \cup Absent]
  BY DEF TablesHold
<1>2. assigned'[a] = row /\ \A b \in AssignedIds \ {a} : assigned'[b] = assigned[b]
  BY DEF TablesHold
<1>3. Assigned' = Assigned \cup {a}
  BY <1>2, RowsAreThere DEF Assigned
<1>4. \A b, c \in Assigned' : assigned'[b] = assigned'[c] => b = c
  BY <1>2, <1>3 DEF TablesHold, Assigned
<1>5. \A b \in Assigned' : assigned'[b].slot \in Slots
  BY <1>2, <1>3 DEF TablesHold, Assigned
<1>6. Slots' = Slots /\ Events' = Events /\ UsedIds' = UsedIds /\ (HasType' <=> HasType)
  BY DEF Slots, Events, UsedIds, HasType
<1> QED
  BY <1>1, <1>4, <1>5, <1>6 DEF TablesHold, DrawnInOrder

\* A row of assigned is removed.
LEMMA UnassignStep ==
  ASSUME TablesHold, Unassign
  PROVE  TablesHold'
<1>1. PICK a \in Assigned : assigned' = [assigned EXCEPT ![a] = Removed]
  BY DEF Unassign
<1>2. Removed \in Absent
  BY DEF Absent
<1>3. assigned' \in [AssignedIds -> AssignedRow \cup Absent]
  BY <1>1, <1>2 DEF TablesHold
<1>4. assigned'[a] = Removed /\ \A b \in AssignedIds \ {a} : assigned'[b] = assigned[b]
  BY <1>1 DEF TablesHold, Assigned
<1>5. Assigned' = Assigned \ {a} /\ \A b \in Assigned' : assigned'[b] = assigned[b]
  BY <1>2, <1>4 DEF Assigned
<1>6. Slots' = Slots /\ Events' = Events /\ UsedIds' = UsedIds /\ (HasType' <=> HasType)
  BY DEF Slots, Events, UsedIds, HasType, Unassign
<1>7. \A b, c \in Assigned' : assigned'[b] = assigned'[c] => b = c
  BY <1>5 DEF TablesHold
<1>8. \A b \in Assigned' : assigned'[b].slot \in Slots'
  BY <1>5, <1>6 DEF TablesHold
<1> QED
  BY <1>3, <1>6, <1>7, <1>8 DEF TablesHold, DrawnInOrder, Unassign

\* An occurrence is written: it stands on a slot, the only one of its year there.
LEMMA EventStep ==
  ASSUME TablesHold, NEW e \in EventIds, NEW row \in EventRow, row.slot \in Slots, FreeOf(e, row),
         event' = [event EXCEPT ![e] = row], UNCHANGED <<type, slot, assigned, party, today>>
  PROVE  TablesHold'
<1>1. event' \in [EventIds -> EventRow \cup Absent]
  BY DEF TablesHold
<1>2. event'[e] = row /\ \A f \in EventIds \ {e} : event'[f] = event[f]
  BY DEF TablesHold
<1>3. Events' = Events \cup {e}
  BY <1>2, RowsAreThere DEF Events
<1>4. \A f, g \in Events' : event'[f].slot = event'[g].slot /\ Year(event'[f].date) = Year(event'[g].date) => f = g
  <2>1. \A f \in Events \ {e} : ~(event[f].slot = row.slot /\ Year(event[f].date) = Year(row.date))
    BY DEF FreeOf, SameOccasion
  <2>2. \A f \in Events \ {e} : event'[f] = event[f]
    BY <1>2 DEF Events
  <2>3. \A f, g \in Events \ {e} :
          event[f].slot = event[g].slot /\ Year(event[f].date) = Year(event[g].date) => f = g
    BY DEF TablesHold
  <2> QED
    BY <1>2, <1>3, <2>1, <2>2, <2>3
<1>5. \A f \in Events' : event'[f].slot \in Slots
  BY <1>2, <1>3 DEF TablesHold, Events
<1>6. Slots' = Slots /\ Assigned' = Assigned /\ UsedIds' = UsedIds /\ (HasType' <=> HasType)
  BY DEF Slots, Assigned, UsedIds, HasType
<1> QED
  BY <1>1, <1>4, <1>5, <1>6 DEF TablesHold, DrawnInOrder

\* The handlers of occurrences, and the vouchers that name one.
LEMMA EventTables ==
  ASSUME TablesHold, request \in [Requests -> Memory], EventsNext \/ Cite
  PROVE  TablesHold'
<1>0. TypeOK
  BY DEF TypeOK, TablesHold
<1>1. CASE Cite
  <2>1. PICK e \in Events : event' = [event EXCEPT ![e] = [event[e] EXCEPT !.cited = TRUE]]
    BY <1>1 DEF Cite
  <2> DEFINE row == [event[e] EXCEPT !.cited = TRUE]
  <2>2. e \in EventIds /\ event[e] \in EventRow
    BY TableRows DEF Events
  <2>3. row \in EventRow /\ row.slot = event[e].slot /\ row.date = event[e].date
    BY <2>2 DEF EventRow
  <2>4. row.slot \in Slots
    BY <2>3 DEF TablesHold
  <2> HIDE DEF row
  <2>5. FreeOf(e, row)
    BY <2>3 DEF FreeOf, SameOccasion, TablesHold
  <2>6. event' = [event EXCEPT ![e] = row]
    BY <2>1 DEF row
  <2> QED
    BY <1>1, <2>2, <2>3, <2>4, <2>5, <2>6, EventStep DEF Cite
<1>2. ASSUME NEW r \in Requests, CreateWrite(r)
      PROVE  TablesHold'
  <2> DEFINE m == request[r]
             row == [slot |-> m.slot, date |-> m.date, sponsor |-> m.sponsor,
                     completed |-> FALSE, cited |-> FALSE]
  <2>1. m \in EventCreateMemory
    BY <1>0, <1>2, MemoryKinds DEF CreateWrite, At
  <2>2. row \in EventRow
    BY <2>1 DEF EventRow, EventCreateMemory
  <2>3. PICK e \in EventIds : event' = [event EXCEPT ![e] = row] /\ IsNext(event, e)
    BY <1>2 DEF CreateWrite
  <2>4. row.slot \in Slots /\ FreeOf(0, row)
    BY <1>2 DEF CreateWrite, EventMayEnter, EventMayBecome
  <2>5. FreeOf(e, row)
    <3>1. 0 \notin Events
      BY CalendarAssumption DEF Events, EventIds
    <3> QED
      BY <2>4, <3>1 DEF FreeOf
  <2> HIDE DEF row
  <2> QED
    BY <1>2, <2>2, <2>3, <2>4, <2>5, EventStep DEF CreateWrite
<1>3. ASSUME NEW r \in Requests, UpdateWrite(r)
      PROVE  TablesHold'
  <2> DEFINE m == request[r]
             row == [event[m.id] EXCEPT !.date = IF m.date = Null THEN event[m.id].date ELSE m.date,
                        !.sponsor = IF m.sponsor = Unsaid THEN event[m.id].sponsor ELSE m.sponsor]
  <2>1. m \in EventUpdateMemory
    BY <1>0, <1>3, MemoryKinds DEF UpdateWrite, At
  <2>2. m.id \in Events /\ FreeOf(m.id, row) /\ event' = [event EXCEPT ![m.id] = row]
    BY <1>3 DEF UpdateWrite, EventMayBecome
  <2>3. m.id \in EventIds /\ event[m.id] \in EventRow
    BY <2>2, TableRows DEF Events
  <2>4. row \in EventRow /\ row.slot = event[m.id].slot
    BY <2>1, <2>3 DEF EventRow, EventUpdateMemory, Named
  <2>5. row.slot \in Slots
    BY <2>2, <2>4 DEF TablesHold
  <2> HIDE DEF row
  <2> QED
    BY <1>3, <2>2, <2>3, <2>4, <2>5, EventStep DEF UpdateWrite
<1>4. ASSUME NEW r \in Requests, CompleteWrite(r)
      PROVE  TablesHold'
  <2> DEFINE e == request[r].id
             row == [event[e] EXCEPT !.completed = request[r].completed]
  <2>1. request[r] \in CompleteMemory
    BY <1>0, <1>4, MemoryKinds DEF CompleteWrite, At
  <2>2. e \in Events /\ event' = [event EXCEPT ![e] = row]
    BY <1>4 DEF CompleteWrite
  <2>3. e \in EventIds /\ event[e] \in EventRow
    BY <2>2, TableRows DEF Events
  <2>4. row \in EventRow /\ row.slot = event[e].slot /\ row.date = event[e].date
    BY <2>1, <2>3 DEF EventRow, CompleteMemory
  <2> HIDE DEF row, e
  <2>5. row.slot \in Slots
    BY <2>2, <2>4 DEF TablesHold
  <2>6. FreeOf(e, row)
    BY <2>2, <2>4 DEF FreeOf, SameOccasion, TablesHold
  <2> QED
    BY <1>4, <2>2, <2>3, <2>4, <2>5, <2>6, EventStep DEF CompleteWrite
<1>5. ASSUME NEW r \in Requests, RemoveWrite(r)
      PROVE  TablesHold'
  <2> DEFINE e == request[r].id
  <2>1. e \in Events /\ event' = [event EXCEPT ![e] = Removed]
    BY <1>5 DEF RemoveWrite
  <2>2. UNCHANGED <<type, slot, assigned, party, today>>
    BY <1>5 DEF RemoveWrite
  <2> HIDE DEF e
  <2>3. Removed \in Absent
    BY DEF Absent
  <2>4. event' \in [EventIds -> EventRow \cup Absent]
    BY <2>1, <2>3 DEF TablesHold
  <2>5. event'[e] = Removed /\ \A f \in EventIds \ {e} : event'[f] = event[f]
    BY <2>1 DEF TablesHold, Events
  <2>6. Events' = Events \ {e} /\ \A f \in Events' : event'[f] = event[f]
    BY <2>3, <2>5 DEF Events
  <2>7. Slots' = Slots /\ Assigned' = Assigned /\ UsedIds' = UsedIds /\ (HasType' <=> HasType)
    BY <2>2 DEF Slots, Assigned, UsedIds, HasType
  <2>8. \A f, g \in Events' : event'[f].slot = event'[g].slot /\ Year(event'[f].date) = Year(event'[g].date) => f = g
    BY <2>6 DEF TablesHold
  <2>9. \A f \in Events' : event'[f].slot \in Slots'
    BY <2>6, <2>7 DEF TablesHold
  <2> QED
    BY <2>2, <2>4, <2>7, <2>8, <2>9 DEF TablesHold, DrawnInOrder
<1>6. ASSUME NEW r \in Requests,
             \/ CreateResolve(r) \/ CreateFree(r) \/ CreateStanding(r) \/ CreateUsable(r)
             \/ UpdateLoad(r) \/ UpdateFree(r) \/ UpdateUsable(r) \/ CompleteLoad(r) \/ RemoveCount(r)
      PROVE  TablesHold'
  BY <1>6, NoTable DEF CreateResolve, CreateFree, CreateStanding, CreateUsable, UpdateLoad, UpdateFree,
     UpdateUsable, CompleteLoad, RemoveCount
<1> QED
  BY <1>1, <1>2, <1>3, <1>4, <1>5, <1>6 DEF EventsNext

\* The handlers of sponsors and parties.
LEMMA SponsorTables ==
  ASSUME TablesHold, request \in [Requests -> Memory], SponsorsNext
  PROVE  TablesHold'
<1>0. TypeOK
  BY DEF TypeOK, TablesHold
<1>1. CASE Unassign
  BY <1>1, UnassignStep
<1>2. CASE Reinstate \/ SetMembership
  <2>1. party' \in [Parties -> [active : BOOLEAN, member : BOOLEAN]]
    BY <1>2 DEF Reinstate, SetMembership, TablesHold
  <2> QED
    BY <1>2, <2>1, PartyOrDay DEF Reinstate, SetMembership, TablesHold
<1>3. ASSUME NEW r \in Requests, RetireWrite(r)
      PROVE  TablesHold'
  <2>1. party' \in [Parties -> [active : BOOLEAN, member : BOOLEAN]]
    BY <1>3 DEF RetireWrite, TablesHold
  <2> QED
    BY <1>3, <2>1, PartyOrDay DEF RetireWrite, TablesHold
<1>4. ASSUME NEW r \in Requests, AssignWrite(r)
      PROVE  TablesHold'
  <2>1. request[r] \in AssignMemory
    BY <1>0, <1>4, MemoryKinds DEF AssignWrite, At
  <2> DEFINE row == Arrangement(request[r])
  <2>2. row \in AssignedRow
    BY <2>1 DEF Arrangement, AssignedRow, AssignMemory
  <2> HIDE DEF row
  <2>3. PICK a \in AssignedIds : AssignedMayBe(a, row) /\ assigned' = [assigned EXCEPT ![a] = row]
    BY <1>4 DEF AssignWrite, row
  <2> QED
    BY <1>4, <2>2, <2>3, AssignedStep DEF AssignWrite, AssignedMayBe
<1>5. ASSUME NEW r \in Requests,
             \/ AssignResolve(r) \/ ReassignLoad(r) \/ AssignUsable(r) \/ ReassignResolve(r)
             \/ AssignDistinct(r) \/ RetireLoad(r) \/ RetireCount(r)
      PROVE  TablesHold'
  BY <1>5, NoTable DEF AssignResolve, ReassignLoad, AssignUsable, ReassignResolve, AssignDistinct,
     RetireLoad, RetireCount
<1> QED
  BY <1>1, <1>2, <1>3, <1>4, <1>5 DEF SponsorsNext

\* The handlers of the type and its slots.
LEMMA TypeTables ==
  ASSUME CalendarInv, TypesNext
  PROVE  TablesHold'
<1>0. TablesHold /\ TypeOK
  BY InvParts DEF CalendarInv, CalendarHolds
<1>1. CASE CreateType \/ UpdateSlot
  BY <1>0, <1>1, CreateTypeStep, UpdateSlotStep
<1>2. ASSUME NEW r \in Requests, TypeLoad(r) \/ CountBeyond(r) \/ SyncFind(r) \/ TypeRemoveCount(r)
      PROVE  TablesHold'
  BY <1>0, <1>2, NoTable DEF TypeLoad, CountBeyond, SyncFind, TypeRemoveCount
<1>3. ASSUME NEW r \in Requests, TypeWrite(r)
      PROVE  TablesHold'
  <2>1. request[r] \in TypeUpdateMemory /\ type \in TypeRow
    BY <1>0, <1>3, MemoryKinds, Rows DEF TypeWrite, At
  <2>2. type' \in TypeRow
    BY <1>3, <2>1 DEF TypeWrite, TypeRow, TypeUpdateMemory
  <2> QED
    BY <1>0, <1>3, <2>2, TypeStep DEF TypeWrite
<1>4. ASSUME NEW r \in Requests, SyncDelete(r)
      PROVE  TablesHold'
  <2>1. Beyond(request[r].n) \subseteq Slots
    BY DEF Beyond
  <2> QED
    BY <1>0, <1>4, <2>1, DropStep DEF SyncDelete
<1>5. ASSUME NEW r \in Requests, TypeRemoveWrite(r)
      PROVE  TablesHold'
  BY <1>0, <1>5, DropStep DEF TypeRemoveWrite
<1> QED
  BY <1>1, <1>2, <1>3, <1>4, <1>5, SyncCreateStep DEF TypesNext

LEMMA CalendarStep ==
  ASSUME CalendarInv, [Next]_vars
  PROVE  CalendarInv'
<1>0. TablesHold /\ request \in [Requests -> Memory]
  BY InvParts
<1>1. TablesHold'
  <2>1. CASE UNCHANGED vars \/ \E r \in Requests : Abort(r)
    BY <1>0, <2>1, NoTable DEF vars, Abort
  <2>2. CASE Midnight
    <3>1. today' \in Dates
      BY <1>0, <2>2, CalendarAssumption DEF Midnight, TablesHold, Dates
    <3> QED
      BY <1>0, <2>2, <3>1, PartyOrDay DEF Midnight, TablesHold
  <2> QED
    BY <1>0, <2>1, <2>2, TypeTables, SponsorTables, EventTables DEF Next
<1>2. request' \in [Requests -> Memory] /\ \A r \in Requests : Numbered(request'[r])
  BY Memories, NumberedStep
<1>3. CalendarInv' <=>
        TablesHold' /\ request' \in [Requests -> Memory] /\ \A r \in Requests : Numbered(request'[r])
  BY DEF CalendarInv, CalendarHolds, TypeOK, TablesHold
<1> QED
  BY <1>1, <1>2, <1>3

LEMMA CalendarStart ==
  ASSUME Init
  PROVE  CalendarInv
<1> USE DEF Init, CalendarInit
<1>1. Unborn \in Absent
  BY DEF Absent
<1>2. Slots = {} /\ Assigned = {} /\ Events = {} /\ UsedIds = {}
  BY <1>1 DEF Slots, Assigned, Events, UsedIds
<1>3. 0 \in Dates
  BY CalendarAssumption DEF Dates
<1>4. \A r \in Requests : Numbered(request[r])
  BY DEF Numbered, Idle
<1>5. TypeOK
  BY <1>1, <1>3, KindsAreMemories DEF TypeOK
<1> QED
  BY <1>2, <1>4, <1>5 DEF CalendarInv, CalendarHolds, DrawnInOrder

\* However its handlers overlap, abort and begin again, the calendar keeps what its
\* constraints state: slots of one number once, a slot one occurrence a year and a party
\* once, and nothing hanging on a slot or a type that is gone.
THEOREM CalendarHoldsAlways == Spec => []CalendarHolds
<1>1. Init => CalendarInv
  BY CalendarStart
<1>2. CalendarInv /\ [Next]_vars => CalendarInv'
  BY CalendarStep
<1>3. CalendarInv => CalendarHolds
  BY DEF CalendarInv
<1> QED
  BY <1>1, <1>2, <1>3, PTL DEF Spec

-----------------------------------------------------------------------------
(* Handlers that follow one another: what one remembers is still so *)

Alone == \A r, s \in Requests : request[r] # Idle /\ request[s] # Idle => r = s

NoSponsorBeyond(n) == \A a \in Assigned : assigned[a].slot \notin Beyond(n)

\* An update of the type counted what it would drop, and knows whether the number changes.
FreshTypeUpdate(m) ==
  m.op = "type-update" =>
    /\ HasType
    /\ m.pc = "check" =>
         /\ m.resize <=> Resizes(m.n)
         /\ Shrinks(m.n) /\ "sponsors" \notin m.counts => NoSponsorBeyond(m.n)

\* An arrangement being changed is there; its party was asked, or is the one it had.
FreshAssign(m) ==
  m.op = "assign" =>
    /\ m.id # Null => m.id \in Assigned
    /\ m.pc # "usable" => party[m.party].active \/ (m.id # Null /\ assigned[m.id].party = m.party)

\* What was counted of a party to be retired is nothing.
FreshRetire(m) ==
  m.op = "retire" =>
    /\ "standing" \notin m.counts => Standing(m.party) = {}
    /\ "occurrences" \notin m.counts => Awaiting(m.party) = {}

\* An occurrence that is written is in the state it was loaded in, its sponsor was asked.
FreshCreate(m) ==
  m.op = "event-create" /\ m.pc = "write" => m.sponsor = Null \/ party[m.sponsor].active
FreshUpdate(m) ==
  m.op = "event-update" =>
    /\ m.id \in Events /\ ~event[m.id].completed
    /\ m.pc = "write" /\ m.sponsor \in Parties => party[m.sponsor].active
FreshComplete(m) ==
  m.op = "event-complete" => m.id \in Events /\ (m.completed => event[m.id].date <= today)
FreshRemove(m) == m.op = "event-remove" => ~event[m.id].cited

Fresh(m) ==
  /\ FreshTypeUpdate(m) /\ FreshAssign(m) /\ FreshRetire(m)
  /\ FreshCreate(m) /\ FreshUpdate(m) /\ FreshComplete(m) /\ FreshRemove(m)

\* syncSlots brings the slots to the number of the type: none in use is dropped, none
\* beyond is left, the missing ones are known.
InSync(m) ==
  m.op = "type-update" /\ m.pc # "check" =>
    /\ HasType /\ type.n = m.n
    /\ m.pc = "delete" => NoSponsorBeyond(m.n)
    /\ m.pc # "delete" => Beyond(m.n) = {}
    /\ m.pc = "create" => m.missing = Missing(m.n)

\* The invariant of handlers that follow one another, and of those that also ran
\* syncSlots to its end.
AloneInv ==
  ~overlapped => Alone /\ (\A r \in Requests : Fresh(request[r])) /\ CompletedHasHappened
SyncInv ==
  ~overlapped /\ ~interrupted =>
    /\ Resizing = {} => SlotsMatchType
    /\ \A r \in Requests : InSync(request[r])

-----------------------------------------------------------------------------
(* One handler at a time *)

TypeHandler(r) ==
  \/ TypeLoad(r) \/ CountBeyond(r) \/ TypeWrite(r) \/ SyncDelete(r) \/ SyncFind(r) \/ SyncCreate(r)
  \/ TypeRemoveCount(r) \/ TypeRemoveWrite(r)
SponsorHandler(r) ==
  \/ AssignResolve(r) \/ ReassignLoad(r) \/ AssignUsable(r) \/ ReassignResolve(r)
  \/ AssignDistinct(r) \/ AssignWrite(r) \/ RetireLoad(r) \/ RetireCount(r) \/ RetireWrite(r)
EventHandler(r) ==
  \/ CreateResolve(r) \/ CreateFree(r) \/ CreateStanding(r) \/ CreateUsable(r) \/ CreateWrite(r)
  \/ UpdateLoad(r) \/ UpdateFree(r) \/ UpdateUsable(r) \/ UpdateWrite(r)
  \/ CompleteLoad(r) \/ CompleteWrite(r) \/ RemoveCount(r) \/ RemoveWrite(r)
HandlerStep(r) == TypeHandler(r) \/ SponsorHandler(r) \/ EventHandler(r) \/ Abort(r)
OnceStep == CreateType \/ UpdateSlot \/ Unassign \/ Reinstate \/ SetMembership \/ Cite

LEMMA WhoseStep ==
  ASSUME Next
  PROVE  OnceStep \/ Midnight \/ \E r \in Requests : HandlerStep(r)
  BY DEF Next, TypesNext, SponsorsNext, EventsNext, OnceStep, HandlerStep, TypeHandler, SponsorHandler,
         EventHandler

\* A handler touches its own memory only.
LEMMA OwnMemory ==
  ASSUME NEW r \in Requests, HandlerStep(r), NEW s \in Requests \ {r}, request \in [Requests -> Memory]
  PROVE  request'[s] = request[s]
<1>1. ASSUME NEW m, request' = [request EXCEPT ![r] = m]
      PROVE  request'[s] = request[s]
  BY <1>1
<1>2. CASE TypeHandler(r)
  BY <1>1, <1>2 DEF TypeHandler, TypeLoad, CountBeyond, TypeWrite, SyncDelete, SyncFind, SyncCreate,
     TypeRemoveCount, TypeRemoveWrite, Accept, Remember, Finish
<1>3. CASE SponsorHandler(r)
  BY <1>1, <1>3 DEF SponsorHandler, AssignResolve, ReassignLoad, AssignUsable, ReassignResolve,
     AssignDistinct, AssignWrite, RetireLoad, RetireCount, RetireWrite, Accept, Remember, Finish
<1>4. CASE EventHandler(r)
  BY <1>1, <1>4 DEF EventHandler, CreateResolve, CreateFree, CreateStanding, CreateUsable, CreateWrite,
     UpdateLoad, UpdateFree, UpdateUsable, UpdateWrite, CompleteLoad, CompleteWrite, RemoveCount,
     RemoveWrite, Accept, Remember, Finish
<1>5. CASE Abort(r)
  BY <1>1, <1>5 DEF Abort, Remember, Finish
<1> QED
  BY <1>2, <1>3, <1>4, <1>5 DEF HandlerStep

\* Who was idle and takes a step is in flight.
LEMMA BeginsBusy ==
  ASSUME NEW r \in Requests, HandlerStep(r), request[r] = Idle, request \in [Requests -> Memory]
  PROVE  request'[r] # Idle /\ UNCHANGED <<tables, party, today>>
<1>1. \A op, pc : op # "none" => ~At(r, op, pc)
  BY DEF At, Idle
<1>2. ASSUME NEW m, m.op # "none", request' = [request EXCEPT ![r] = m]
      PROVE  request'[r] # Idle
  BY <1>2 DEF Idle
<1>3. CASE TypeLoad(r) \/ TypeRemoveCount(r)
  BY <1>2, <1>3 DEF TypeLoad, TypeRemoveCount, Accept
<1>4. CASE AssignResolve(r) \/ ReassignLoad(r) \/ RetireLoad(r)
  BY <1>2, <1>4 DEF AssignResolve, ReassignLoad, RetireLoad, Accept
<1>5. CASE CreateResolve(r) \/ UpdateLoad(r) \/ CompleteLoad(r) \/ RemoveCount(r)
  BY <1>2, <1>5 DEF CreateResolve, UpdateLoad, CompleteLoad, RemoveCount, Accept
<1>6. TypeLoad(r) \/ TypeRemoveCount(r) \/ AssignResolve(r) \/ ReassignLoad(r) \/ RetireLoad(r)
      \/ CreateResolve(r) \/ UpdateLoad(r) \/ CompleteLoad(r) \/ RemoveCount(r)
  <2>1. ~Abort(r)
    BY DEF Abort
  <2>2. CASE TypeHandler(r)
    BY <1>1, <2>2 DEF TypeHandler, CountBeyond, TypeWrite, SyncDelete, SyncFind, SyncCreate, TypeRemoveWrite
  <2>3. CASE SponsorHandler(r)
    BY <1>1, <2>3 DEF SponsorHandler, AssignUsable, ReassignResolve, AssignDistinct, AssignWrite,
       RetireCount, RetireWrite
  <2>4. CASE EventHandler(r)
    BY <1>1, <2>4 DEF EventHandler, CreateFree, CreateStanding, CreateUsable, CreateWrite, UpdateFree,
       UpdateUsable, UpdateWrite, CompleteWrite, RemoveWrite
  <2> QED
    BY <2>1, <2>2, <2>3, <2>4 DEF HandlerStep
<1> QED
  BY <1>3, <1>4, <1>5, <1>6 DEF TypeLoad, TypeRemoveCount, AssignResolve, ReassignLoad, RetireLoad,
     CreateResolve, UpdateLoad, CompleteLoad, RemoveCount

\* While a handler is in flight and nothing has overlapped, a step is its own, or leaves
\* the tables alone.
LEMMA Undisturbed ==
  ASSUME CalendarInv, AloneInv, [MCNext]_<<vars, overlapped, interrupted>>, ~overlapped',
         NEW r \in Requests, request[r] # Idle
  PROVE  HandlerStep(r) \/ (UNCHANGED <<tables, party, request>> /\ today <= today')
<1>1. request \in [Requests -> Memory] /\ today \in Nat
  BY InvParts, CalendarAssumption DEF TablesHold, Dates
<1>2. CASE UNCHANGED <<vars, overlapped, interrupted>>
  BY <1>1, <1>2 DEF vars
<1>3. SUFFICES ASSUME MCNext
               PROVE  HandlerStep(r) \/ (UNCHANGED <<tables, party, request>> /\ today <= today')
  BY <1>2
<1>4. /\ Next /\ ~overlapped /\ ~MeanwhileAtOnce
      /\ \A s, t \in Requests : request'[s] # Idle /\ request'[t] # Idle => s = t
  BY <1>3 DEF MCNext
<1>5. CASE OnceStep
  <2>1. request' = request /\ today' = today
    BY <1>5 DEF OnceStep, CreateType, UpdateSlot, Unassign, Reinstate, SetMembership, Cite, AtOnce
  <2>2. UNCHANGED <<tables, party>>
    BY <1>4, <2>1 DEF MeanwhileAtOnce
  <2> QED
    BY <1>1, <2>1, <2>2
<1>6. CASE Midnight
  BY <1>1, <1>6 DEF Midnight
<1>7. ASSUME NEW s \in Requests, HandlerStep(s), s # r
      PROVE  FALSE
  <2>1. request[s] = Idle
    BY <1>4, <1>7 DEF AloneInv, Alone
  <2>2. request'[s] # Idle
    BY <1>1, <1>7, <2>1, BeginsBusy
  <2>3. request'[r] = request[r]
    BY <1>1, <1>7, OwnMemory
  <2> QED
    BY <1>4, <1>7, <2>2, <2>3
<1> QED
  BY <1>4, <1>5, <1>6, <1>7, WhoseStep

-----------------------------------------------------------------------------
(* Occurrences, and the parties they name *)

\* Occurrences stay as they are.
LEMMA EventsUntouched ==
  ASSUME TablesHold, CompletedHasHappened, UNCHANGED event, today' \in Dates, today <= today'
  PROVE  CompletedHasHappened' /\ CompletedStands /\ CitedIsKept
<1>1. Events' = Events /\ \A e \in Events : event'[e] = event[e]
  BY DEF Events
<1>2. CompletedHasHappened'
  <2> SUFFICES ASSUME NEW e \in Events, event[e].completed
               PROVE  event[e].date <= today'
    BY <1>1 DEF CompletedHasHappened
  <2>1. event[e].date <= today
    BY DEF CompletedHasHappened
  <2>2. event[e] \in EventRow
    BY TableRows DEF Events
  <2>3. event[e].date \in Nat /\ today \in Nat /\ today' \in Nat
    BY <2>2, CalendarAssumption DEF EventRow, Dates, TablesHold
  <2> QED
    BY <2>1, <2>3
<1> QED
  BY <1>1, <1>2 DEF CompletedStands, CitedIsKept

\* One occurrence is written: what is marked complete has happened, and a row that was
\* complete keeps its date and its sponsor.
LEMMA EventWritten ==
  ASSUME TablesHold, CompletedHasHappened, NEW e \in EventIds, NEW row \in EventRow,
         event' = [event EXCEPT ![e] = row], today' = today,
         row.completed => row.date <= today,
         e \in Events /\ event[e].completed => row.date = event[e].date /\ row.sponsor = event[e].sponsor
  PROVE  CompletedHasHappened' /\ CompletedStands /\ CitedIsKept
<1>1. event'[e] = row /\ \A f \in EventIds \ {e} : event'[f] = event[f]
  BY DEF TablesHold
<1>2. Events' = Events \cup {e}
  BY <1>1, RowsAreThere DEF Events
<1>3. CompletedHasHappened'
  BY <1>1, <1>2 DEF CompletedHasHappened, Events
<1>4. CompletedStands
  BY <1>1 DEF CompletedStands, Events
<1> QED
  BY <1>2, <1>3, <1>4 DEF CitedIsKept

\* Nobody is retired with something standing, and what is newly in a party's name is in
\* the name of one that is active.
LEMMA NothingInRetiredNames ==
  ASSUME \A p \in Parties :
           party[p].active /\ ~party'[p].active => Standing(p) = {} /\ Awaiting(p) = {},
         \A a \in Assigned' :
           \/ a \in Assigned /\ assigned'[a].party = assigned[a].party
           \/ party'[assigned'[a].party].active,
         \A e \in Events' :
           \/ e \in Events /\ event'[e].sponsor = event[e].sponsor
           \/ event'[e].sponsor = Null
           \/ party'[event'[e].sponsor].active
  PROVE  RetiredIsFree
  BY CalendarAssumption DEF RetiredIsFree

\* The same where only occurrences are written.
LEMMA NoRetiredSponsor ==
  ASSUME TablesHold, UNCHANGED <<party, assigned>>, NEW e \in EventIds, NEW row \in EventRow,
         event' = [event EXCEPT ![e] = row],
         \/ e \in Events /\ row.sponsor = event[e].sponsor
         \/ row.sponsor = Null
         \/ party[row.sponsor].active
  PROVE  RetiredIsFree
<1>1. event'[e] = row /\ \A f \in EventIds \ {e} : event'[f] = event[f]
  BY DEF TablesHold
<1>2. Events' = Events \cup {e}
  BY <1>1, RowsAreThere DEF Events
<1>3. Assigned' = Assigned
  BY DEF Assigned
<1> QED
  BY <1>1, <1>2, <1>3, NothingInRetiredNames DEF Events

\* Nobody is retired, nothing is newly in anybody's name.
LEMMA NamesUntouched ==
  ASSUME UNCHANGED <<party, event>>,
         \A a \in Assigned' : a \in Assigned /\ assigned'[a] = assigned[a]
  PROVE  RetiredIsFree
<1>1. Events' = Events
  BY DEF Events
<1> QED
  BY <1>1, NothingInRetiredNames

\* What a step that drops slots leaves of the arrangements is as it was.
LEMMA DropLeavesArrangements ==
  ASSUME NEW S, DropSlots(S)
  PROVE  \A a \in Assigned' : a \in Assigned /\ assigned'[a] = assigned[a]
<1>1. \A a \in AssignedIds : assigned'[a] = Removed \/ assigned'[a] = assigned[a]
  BY DEF DropSlots
<1>2. Removed \in Absent
  BY DEF Absent
<1> QED
  BY <1>1, <1>2 DEF Assigned

OccurrencesStand == CompletedHasHappened' /\ CompletedStands /\ CitedIsKept /\ RetiredIsFree

LEMMA OnceStands ==
  ASSUME TablesHold, CompletedHasHappened, OnceStep \/ Midnight
  PROVE  OccurrencesStand
<1>0. today \in Nat /\ today \in Dates
  BY CalendarAssumption DEF TablesHold, Dates
<1>1. CASE CreateType \/ UpdateSlot \/ Midnight
  <2>1. today' \in Dates /\ today <= today' /\ UNCHANGED <<event, assigned, party>>
    BY <1>0, <1>1, CalendarAssumption DEF CreateType, UpdateSlot, Midnight, tables, Dates
  <2>2. \A a \in Assigned' : a \in Assigned /\ assigned'[a] = assigned[a]
    BY <2>1 DEF Assigned
  <2> QED
    BY <2>1, <2>2, EventsUntouched, NamesUntouched DEF OccurrencesStand
<1>2. CASE Unassign
  <2>1. PICK b \in Assigned : assigned' = [assigned EXCEPT ![b] = Removed]
    BY <1>2 DEF Unassign
  <2>2. Removed \in Absent
    BY DEF Absent
  <2>3. \A a \in AssignedIds : assigned'[a] = Removed \/ assigned'[a] = assigned[a]
    BY <2>1 DEF TablesHold
  <2>4. \A a \in Assigned' : a \in Assigned /\ assigned'[a] = assigned[a]
    BY <2>2, <2>3 DEF Assigned
  <2>5. today' = today /\ UNCHANGED <<event, party>> /\ today <= today'
    BY <1>0, <1>2 DEF Unassign
  <2> QED
    BY <1>0, <2>4, <2>5, EventsUntouched, NamesUntouched DEF OccurrencesStand
<1>3. CASE Reinstate \/ SetMembership
  <2>1. \A p \in Parties : party[p].active => party'[p].active
    BY <1>3 DEF Reinstate, SetMembership, TablesHold
  <2>2. UNCHANGED <<event, assigned, today>> /\ today <= today'
    BY <1>0, <1>3 DEF Reinstate, SetMembership, tables
  <2>3. Events' = Events /\ Assigned' = Assigned
    BY <2>2 DEF Events, Assigned
  <2>4. RetiredIsFree
    BY <2>1, <2>2, <2>3, NothingInRetiredNames
  <2> QED
    BY <1>0, <2>2, <2>4, EventsUntouched DEF OccurrencesStand
<1>4. CASE Cite
  <2>1. PICK e \in Events : event' = [event EXCEPT ![e] = [event[e] EXCEPT !.cited = TRUE]]
    BY <1>4 DEF Cite
  <2> DEFINE row == [event[e] EXCEPT !.cited = TRUE]
  <2>2. e \in EventIds /\ event[e] \in EventRow
    BY TableRows DEF Events
  <2>3. row \in EventRow /\ row.date = event[e].date /\ row.sponsor = event[e].sponsor
        /\ row.completed = event[e].completed
    BY <2>2 DEF EventRow
  <2> HIDE DEF row
  <2>4. event' = [event EXCEPT ![e] = row] /\ UNCHANGED <<party, assigned, today>>
    BY <1>4, <2>1 DEF Cite, row
  <2>5. row.completed => row.date <= today
    BY <2>3 DEF CompletedHasHappened
  <2>6. CompletedHasHappened' /\ CompletedStands /\ CitedIsKept
    BY <2>2, <2>3, <2>4, <2>5, EventWritten
  <2>7. RetiredIsFree
    BY <2>2, <2>3, <2>4, NoRetiredSponsor
  <2> QED
    BY <2>6, <2>7 DEF OccurrencesStand
<1> QED
  BY <1>1, <1>2, <1>3, <1>4 DEF OnceStep

LEMMA HandlerStands ==
  ASSUME CalendarInv, CompletedHasHappened, NEW r \in Requests, Fresh(request[r]), HandlerStep(r)
  PROVE  OccurrencesStand
<1>0. TablesHold /\ TypeOK /\ today \in Dates /\ today \in Nat
  BY InvParts, CalendarAssumption DEF CalendarInv, CalendarHolds, TablesHold, Dates
<1> DEFINE m == request[r]
<1>1. ASSUME UNCHANGED <<event, party, today>>,
             \A a \in Assigned' : a \in Assigned /\ assigned'[a] = assigned[a]
      PROVE  OccurrencesStand
  <2>1. today <= today' /\ today' \in Dates
    BY <1>0, <1>1
  <2> QED
    BY <1>0, <1>1, <2>1, EventsUntouched, NamesUntouched DEF OccurrencesStand
<1>2. ASSUME UNCHANGED <<assigned, event, party, today>>
      PROVE  OccurrencesStand
  <2>1. \A a \in Assigned' : a \in Assigned /\ assigned'[a] = assigned[a]
    BY <1>2 DEF Assigned
  <2> QED
    BY <1>1, <1>2, <2>1
<1>3. CASE TypeHandler(r)
  <2>1. CASE SyncDelete(r) \/ TypeRemoveWrite(r)
    BY <1>1, <2>1, DropLeavesArrangements DEF SyncDelete, TypeRemoveWrite
  <2> QED
    BY <1>2, <1>3, <2>1 DEF TypeHandler, TypeLoad, CountBeyond, TypeWrite, SyncFind, SyncCreate,
       TypeRemoveCount, tables
<1>4. CASE AssignWrite(r)
  <2>1. m \in AssignMemory /\ m.op = "assign" /\ m.pc = "write"
    BY <1>0, <1>4, MemoryKinds DEF AssignWrite, At
  <2> DEFINE row == Arrangement(m)
  <2>2. PICK b \in AssignedIds : /\ IF m.id = Null THEN IsNext(assigned, b) ELSE b = m.id /\ b \in Assigned
                                 /\ assigned' = [assigned EXCEPT ![b] = row]
    BY <1>4 DEF AssignWrite
  <2>3. row.party = m.party /\ m.party \in Parties
    BY <2>1 DEF Arrangement, AssignMemory
  <2>4. party[row.party].active \/ (b \in Assigned /\ assigned[b].party = row.party)
    BY <2>1, <2>2, <2>3 DEF Fresh, FreshAssign
  <2> HIDE DEF row
  <2>5. assigned'[b] = row /\ \A a \in AssignedIds \ {b} : assigned'[a] = assigned[a]
    BY <1>0, <2>2 DEF TablesHold
  <2>6. UNCHANGED <<event, party, today>> /\ Events' = Events
    BY <1>4 DEF AssignWrite, Events
  <2>7. \A a \in Assigned' :
           \/ a \in Assigned /\ assigned'[a].party = assigned[a].party
           \/ party'[assigned'[a].party].active
    BY <2>4, <2>5, <2>6 DEF Assigned
  <2>8. RetiredIsFree
    BY <2>6, <2>7, NothingInRetiredNames
  <2>9. today <= today' /\ today' \in Dates
    BY <1>0, <2>6
  <2> QED
    BY <1>0, <2>6, <2>8, <2>9, EventsUntouched DEF OccurrencesStand
<1>5. CASE RetireWrite(r)
  <2>1. m \in RetireMemory /\ m.op = "retire" /\ m.counts = {}
    BY <1>0, <1>5, MemoryKinds DEF RetireWrite, At
  <2>2. Standing(m.party) = {} /\ Awaiting(m.party) = {}
    BY <2>1 DEF Fresh, FreshRetire
  <2>3. \A p \in Parties : p # m.party => party'[p] = party[p]
    BY <1>0, <1>5 DEF RetireWrite, TablesHold
  <2>4. UNCHANGED <<event, assigned, today>> /\ Events' = Events /\ Assigned' = Assigned
    BY <1>5 DEF RetireWrite, tables, Events, Assigned
  <2>5. RetiredIsFree
    BY <2>2, <2>3, <2>4, NothingInRetiredNames
  <2>6. today <= today' /\ today' \in Dates
    BY <1>0, <2>4
  <2> QED
    BY <1>0, <2>4, <2>5, <2>6, EventsUntouched DEF OccurrencesStand
<1>6. CASE SponsorHandler(r)
  BY <1>2, <1>4, <1>5, <1>6 DEF SponsorHandler, AssignResolve, ReassignLoad, AssignUsable, ReassignResolve,
     AssignDistinct, RetireLoad, RetireCount, tables
<1>7. CASE CreateWrite(r)
  <2> DEFINE row == [slot |-> m.slot, date |-> m.date, sponsor |-> m.sponsor,
                     completed |-> FALSE, cited |-> FALSE]
  <2>1. m \in EventCreateMemory /\ m.op = "event-create" /\ m.pc = "write"
    BY <1>0, <1>7, MemoryKinds DEF CreateWrite, At
  <2>2. row \in EventRow /\ ~row.completed /\ row.sponsor = m.sponsor
    BY <2>1 DEF EventRow, EventCreateMemory
  <2>3. PICK e \in EventIds : event' = [event EXCEPT ![e] = row] /\ IsNext(event, e)
    BY <1>7 DEF CreateWrite
  <2>4. e \notin Events
    BY <2>3 DEF IsNext, Events, Absent
  <2>5. row.sponsor = Null \/ party[row.sponsor].active
    BY <2>1, <2>2 DEF Fresh, FreshCreate
  <2> HIDE DEF row
  <2>6. UNCHANGED <<assigned, party, today>>
    BY <1>7 DEF CreateWrite
  <2> QED
    BY <1>0, <2>2, <2>3, <2>4, <2>5, <2>6, EventWritten, NoRetiredSponsor DEF OccurrencesStand
<1>8. CASE UpdateWrite(r)
  <2> DEFINE row == [event[m.id] EXCEPT !.date = IF m.date = Null THEN event[m.id].date ELSE m.date,
                        !.sponsor = IF m.sponsor = Unsaid THEN event[m.id].sponsor ELSE m.sponsor]
  <2>1. m \in EventUpdateMemory /\ m.op = "event-update" /\ m.pc = "write"
    BY <1>0, <1>8, MemoryKinds DEF UpdateWrite, At
  <2>2. m.id \in Events /\ event' = [event EXCEPT ![m.id] = row]
    BY <1>8 DEF UpdateWrite
  <2>3. m.id \in EventIds /\ event[m.id] \in EventRow
    BY <1>0, <2>2, TableRows DEF Events
  <2>4. row \in EventRow /\ row.completed = event[m.id].completed
        /\ row.sponsor = (IF m.sponsor = Unsaid THEN event[m.id].sponsor ELSE m.sponsor)
    BY <2>1, <2>3 DEF EventRow, EventUpdateMemory, Named
  <2> HIDE DEF row
  <2>5. ~event[m.id].completed
    BY <2>1 DEF Fresh, FreshUpdate
  <2>6. row.sponsor = event[m.id].sponsor \/ row.sponsor = Null \/ party[row.sponsor].active
    <3>1. m.sponsor \in Parties => party[m.sponsor].active
      BY <2>1 DEF Fresh, FreshUpdate
    <3>2. m.sponsor \in Parties \cup {Null, Unsaid}
      BY <2>1 DEF EventUpdateMemory, Named
    <3> QED
      BY <2>4, <3>1, <3>2
  <2>7. UNCHANGED <<assigned, party, today>>
    BY <1>8 DEF UpdateWrite
  <2>8. CompletedHasHappened' /\ CompletedStands /\ CitedIsKept
    BY <1>0, <2>2, <2>3, <2>4, <2>5, <2>7, EventWritten
  <2>9. RetiredIsFree
    BY <1>0, <2>2, <2>3, <2>4, <2>6, <2>7, NoRetiredSponsor
  <2> QED
    BY <2>8, <2>9 DEF OccurrencesStand
<1>9. CASE CompleteWrite(r)
  <2> DEFINE row == [event[m.id] EXCEPT !.completed = m.completed]
  <2>1. m \in CompleteMemory /\ m.op = "event-complete"
    BY <1>0, <1>9, MemoryKinds DEF CompleteWrite, At
  <2>2. m.id \in Events /\ event' = [event EXCEPT ![m.id] = row]
    BY <1>9 DEF CompleteWrite
  <2>3. m.id \in EventIds /\ event[m.id] \in EventRow
    BY <1>0, <2>2, TableRows DEF Events
  <2>4. row \in EventRow /\ row.completed = m.completed /\ row.date = event[m.id].date
        /\ row.sponsor = event[m.id].sponsor
    BY <2>1, <2>3 DEF EventRow, CompleteMemory
  <2> HIDE DEF row
  <2>5. row.completed => row.date <= today
    BY <2>1, <2>4 DEF Fresh, FreshComplete
  <2>6. UNCHANGED <<assigned, party, today>>
    BY <1>9 DEF CompleteWrite
  <2>7. CompletedHasHappened' /\ CompletedStands /\ CitedIsKept
    BY <1>0, <2>2, <2>3, <2>4, <2>5, <2>6, EventWritten
  <2>8. RetiredIsFree
    BY <1>0, <2>2, <2>3, <2>4, <2>6, NoRetiredSponsor
  <2> QED
    BY <2>7, <2>8 DEF OccurrencesStand
<1>10. CASE RemoveWrite(r)
  <2>1. m \in RemoveMemory /\ m.op = "event-remove"
    BY <1>0, <1>10, MemoryKinds DEF RemoveWrite, At
  <2>2. m.id \in Events /\ event' = [event EXCEPT ![m.id] = Removed] /\ ~event[m.id].cited
    BY <1>10, <2>1 DEF RemoveWrite, Fresh, FreshRemove
  <2>3. event'[m.id] = Removed /\ \A f \in EventIds \ {m.id} : event'[f] = event[f]
    BY <1>0, <2>2 DEF TablesHold, Events
  <2>4. Removed \in Absent
    BY DEF Absent
  <2>5. Events' = Events \ {m.id} /\ \A f \in Events' : event'[f] = event[f]
    BY <2>3, <2>4 DEF Events
  <2>6. UNCHANGED <<assigned, party, today>> /\ Assigned' = Assigned
    BY <1>10 DEF RemoveWrite, Assigned
  <2>7. CompletedHasHappened' /\ CompletedStands /\ CitedIsKept
    BY <2>2, <2>5, <2>6 DEF CompletedHasHappened, CompletedStands, CitedIsKept
  <2>8. RetiredIsFree
    BY <2>5, <2>6, NothingInRetiredNames
  <2> QED
    BY <2>7, <2>8 DEF OccurrencesStand
<1>11. CASE EventHandler(r)
  BY <1>2, <1>7, <1>8, <1>9, <1>10, <1>11 DEF EventHandler, CreateResolve, CreateFree, CreateStanding,
     CreateUsable, UpdateLoad, UpdateFree, UpdateUsable, CompleteLoad, RemoveCount, tables
<1>12. CASE Abort(r)
  BY <1>2, <1>12 DEF Abort, tables
<1> QED
  BY <1>3, <1>6, <1>11, <1>12 DEF HandlerStep

-----------------------------------------------------------------------------
(* What is remembered stays so *)

\* What another kind of handler is asked for does not concern this one.
LEMMA FreshOfKind ==
  ASSUME NEW m
  PROVE  /\ m.op = "type-update" /\ FreshTypeUpdate(m)' => Fresh(m)'
         /\ m.op = "assign" /\ FreshAssign(m)' => Fresh(m)'
         /\ m.op = "retire" /\ FreshRetire(m)' => Fresh(m)'
         /\ m.op = "event-create" /\ FreshCreate(m)' => Fresh(m)'
         /\ m.op = "event-update" /\ FreshUpdate(m)' => Fresh(m)'
         /\ m.op = "event-complete" /\ FreshComplete(m)' => Fresh(m)'
         /\ m.op = "event-remove" /\ FreshRemove(m)' => Fresh(m)'
         /\ m.op \in {"type-remove", "none"} => Fresh(m)'
  BY DEF Fresh, FreshTypeUpdate, FreshAssign, FreshRetire, FreshCreate, FreshUpdate, FreshComplete, FreshRemove

\* A step of no handler disturbs nothing a handler remembers.
LEMMA FreshUndisturbed ==
  ASSUME TablesHold, NEW m \in Memory, Fresh(m), UNCHANGED <<tables, party>>,
         today' \in Dates, today <= today'
  PROVE  Fresh(m)'
<1> USE DEF tables
<1>1. UNCHANGED <<type, slot, assigned, event>>
  OBVIOUS
<1>2. Events' = Events /\ Assigned' = Assigned /\ (HasType' <=> HasType)
      /\ \A n : Beyond(n)' = Beyond(n)
  BY <1>1 DEF Events, Assigned, HasType, Beyond, Slots
<1>3. FreshTypeUpdate(m)'
  BY <1>1, <1>2 DEF Fresh, FreshTypeUpdate, NoSponsorBeyond, Resizes, Shrinks
<1>4. FreshAssign(m)'
  BY <1>1, <1>2 DEF Fresh, FreshAssign
<1>5. FreshRetire(m)'
  BY <1>1, <1>2 DEF Fresh, FreshRetire, Standing, Awaiting
<1>6. FreshCreate(m)' /\ FreshUpdate(m)' /\ FreshRemove(m)'
  BY <1>1, <1>2 DEF Fresh, FreshCreate, FreshUpdate, FreshRemove
<1>7. FreshComplete(m)'
  <2> SUFFICES ASSUME m.op = "event-complete", m.completed
               PROVE  event[m.id].date <= today'
    BY <1>1, <1>2 DEF Fresh, FreshComplete
  <2>1. m.id \in Events /\ event[m.id].date <= today
    BY DEF Fresh, FreshComplete
  <2>2. event[m.id].date \in Nat /\ today \in Nat /\ today' \in Nat
    BY <2>1, TableRows, CalendarAssumption DEF Events, EventRow, Dates, TablesHold
  <2> QED
    BY <2>1, <2>2
<1> QED
  BY <1>3, <1>4, <1>5, <1>6, <1>7 DEF Fresh

LEMMA TypeFresh ==
  ASSUME CalendarInv, NEW r \in Requests, Fresh(request[r]), TypeHandler(r),
         NEW m, m = request'[r], m # Idle
  PROVE  Fresh(m)'
<1>0. TablesHold /\ TypeOK /\ request \in [Requests -> Memory]
  BY InvParts DEF CalendarInv, CalendarHolds
<1>1. CASE TypeLoad(r)
  <2>1. PICK n \in Instances \cup {Null}, funding \in Funding \cup {Null} :
          request' = [request EXCEPT ![r] =
            [op |-> "type-update", n |-> n, funding |-> funding, resize |-> Resizes(n),
             counts |-> IF Shrinks(n) THEN {"sponsors", "events"} ELSE {},
             missing |-> {}, pc |-> "check"]]
    BY <1>1 DEF TypeLoad, Accept
  <2>2. /\ m.op = "type-update" /\ m.n = n /\ m.pc = "check"
        /\ m.resize = Resizes(n) /\ m.counts = IF Shrinks(n) THEN {"sponsors", "events"} ELSE {}
    BY <1>0, <2>1
  <2>3. type' = type /\ HasType
    BY <1>1 DEF TypeLoad, tables
  <2>4. (HasType' <=> HasType) /\ (Resizes(n)' <=> Resizes(n)) /\ (Shrinks(n)' <=> Shrinks(n))
    BY <2>3 DEF HasType, Resizes, Shrinks
  <2>5. FreshTypeUpdate(m)'
    BY <2>2, <2>3, <2>4 DEF FreshTypeUpdate
  <2> QED
    BY <2>2, <2>5, FreshOfKind
<1>2. request[r].op = "type-update" => request[r] \in TypeUpdateMemory
  BY <1>0, MemoryKinds
<1>3. CASE CountBeyond(r)
  <2>1. PICK count \in request[r].counts :
          /\ LET gone == Beyond(request[r].n)
             IN IF count = "sponsors" THEN \A a \in Assigned : assigned[a].slot \notin gone
                ELSE \A e \in Events : event[e].slot \notin gone
          /\ request' = [request EXCEPT ![r] = [request[r] EXCEPT !.counts = request[r].counts \ {count}]]
    BY <1>3 DEF CountBeyond, Remember
  <2>2. request[r] \in TypeUpdateMemory /\ request[r].op = "type-update" /\ request[r].pc = "check"
    BY <1>2, <1>3 DEF CountBeyond, At
  <2>3. /\ m.op = "type-update" /\ m.n = request[r].n /\ m.pc = "check"
        /\ m.resize = request[r].resize /\ m.counts = request[r].counts \ {count}
    BY <1>0, <2>1, <2>2 DEF TypeUpdateMemory
  <2>4. UNCHANGED <<type, slot, assigned, event>>
    BY <1>3 DEF CountBeyond, tables
  <2>5. /\ HasType' <=> HasType
        /\ \A n : (Resizes(n)' <=> Resizes(n)) /\ (Shrinks(n)' <=> Shrinks(n))
                  /\ (NoSponsorBeyond(n)' <=> NoSponsorBeyond(n))
    BY <2>4 DEF HasType, Resizes, Shrinks, NoSponsorBeyond, Beyond, Slots, Assigned
  <2>6. "sponsors" \notin m.counts => "sponsors" \notin request[r].counts \/ NoSponsorBeyond(m.n)
    BY <2>1, <2>3 DEF NoSponsorBeyond
  <2>7. FreshTypeUpdate(m)'
    BY <2>2, <2>3, <2>5, <2>6 DEF Fresh, FreshTypeUpdate
  <2> QED
    BY <2>3, <2>7, FreshOfKind
<1>4. ASSUME NEW pc \in {"delete", "find", "create"}, NEW missing,
             \/ request' = [request EXCEPT ![r] = [request[r] EXCEPT !.pc = pc]]
             \/ request' = [request EXCEPT ![r] = [request[r] EXCEPT !.pc = pc, !.missing = missing]],
             request[r].op = "type-update", HasType'
      PROVE  Fresh(m)'
  <2>1. request[r] \in TypeUpdateMemory
    BY <1>2, <1>4
  <2>2. m.op = "type-update" /\ m.pc # "check"
    <3>1. /\ [request[r] EXCEPT !.pc = pc].op = "type-update"
          /\ [request[r] EXCEPT !.pc = pc].pc = pc
          /\ [request[r] EXCEPT !.pc = pc, !.missing = missing].op = "type-update"
          /\ [request[r] EXCEPT !.pc = pc, !.missing = missing].pc = pc
      BY <2>1 DEF TypeUpdateMemory
    <3>2. \/ m = [request[r] EXCEPT !.pc = pc]
          \/ m = [request[r] EXCEPT !.pc = pc, !.missing = missing]
      BY <1>0, <1>4
    <3> QED
      BY <3>1, <3>2
  <2>3. FreshTypeUpdate(m)'
    BY <1>4, <2>2 DEF FreshTypeUpdate
  <2> QED
    BY <2>2, <2>3, FreshOfKind
<1>5. ~Finish(r)
  BY <1>0 DEF Finish, Remember
<1>6. CASE TypeWrite(r)
  <2>1. DOMAIN type' = {"n", "funding"}
    BY <1>6 DEF TypeWrite
  <2>2. HasType'
    BY <2>1 DEF HasType, Absent, Unborn, Removed
  <2> QED
    BY <1>4, <1>5, <1>6, <2>2 DEF TypeWrite, Remember, At
<1>7. CASE SyncDelete(r) \/ SyncFind(r)
  <2>1. HasType'
    BY <1>7 DEF SyncDelete, SyncFind, At, Fresh, FreshTypeUpdate, HasType, tables
  <2> QED
    BY <1>4, <1>5, <1>7, <2>1 DEF SyncDelete, SyncFind, Remember, At
<1>8. CASE TypeRemoveCount(r)
  <2>1. m = [op |-> "type-remove", pc |-> "write"]
    BY <1>0, <1>8 DEF TypeRemoveCount, Accept
  <2> QED
    BY <2>1, FreshOfKind
<1> QED
  BY <1>1, <1>3, <1>5, <1>6, <1>7, <1>8 DEF TypeHandler, SyncCreate, TypeRemoveWrite

LEMMA SponsorFresh ==
  ASSUME CalendarInv, NEW r \in Requests, Fresh(request[r]), SponsorHandler(r),
         NEW m, m = request'[r], m # Idle
  PROVE  Fresh(m)'
<1>0. TablesHold /\ TypeOK /\ request \in [Requests -> Memory]
  BY InvParts DEF CalendarInv, CalendarHolds
<1>1. ~Finish(r)
  BY <1>0 DEF Finish, Remember
<1>2. UNCHANGED <<type, slot, assigned, event, party>>
  BY <1>1 DEF SponsorHandler, AssignResolve, ReassignLoad, AssignUsable, ReassignResolve,
     AssignDistinct, AssignWrite, RetireLoad, RetireCount, RetireWrite, tables
<1>3. Events' = Events /\ Assigned' = Assigned
  BY <1>2 DEF Events, Assigned
<1>4. request[r].op = "assign" => request[r] \in AssignMemory
  BY <1>0, MemoryKinds
<1>5. CASE AssignResolve(r)
  <2>1. PICK instance \in Instances, p \in Parties : \E s \in SlotOf(instance) :
          Accept(r, [op |-> "assign", id |-> Null, slot |-> s, instance |-> instance, party |-> p, pc |-> "usable"])
    BY <1>5 DEF AssignResolve
  <2>2. PICK s : request' = [request EXCEPT ![r] =
          [op |-> "assign", id |-> Null, slot |-> s, instance |-> instance, party |-> p, pc |-> "usable"]]
    BY <2>1 DEF Accept
  <2>3. m.op = "assign" /\ m.id = Null /\ m.pc = "usable"
    BY <1>0, <2>2
  <2>4. FreshAssign(m)'
    BY <2>3 DEF FreshAssign
  <2> QED
    BY <2>4, <2>3, FreshOfKind
<1>6. CASE ReassignLoad(r)
  <2>1. PICK a \in Assigned, instance \in Instances \cup {Null}, p \in Parties \cup {Null} :
          request' = [request EXCEPT ![r] =
            [op |-> "assign", id |-> a, slot |-> assigned[a].slot,
             instance |-> IF instance = Null THEN slot[assigned[a].slot].instance ELSE instance,
             party |-> IF p = Null THEN assigned[a].party ELSE p,
             pc |-> IF p = Null THEN "resolve" ELSE "usable"]]
    BY <1>6 DEF ReassignLoad, Accept
  <2>2. a # Null
    BY CalendarAssumption DEF Assigned, AssignedIds
  <2>3. m.op = "assign" /\ m.id = a /\ (m.pc # "usable" => m.party = assigned[a].party)
    BY <1>0, <2>1
  <2>4. FreshAssign(m)'
    BY <1>2, <1>3, <2>2, <2>3 DEF FreshAssign
  <2> QED
    BY <2>3, <2>4, FreshOfKind
<1>7. ASSUME request[r].op = "assign", m.op = "assign", m.id = request[r].id, m.party = request[r].party,
             request[r].pc # "usable" \/ party[request[r].party].active
      PROVE  Fresh(m)'
  <2>1. FreshAssign(m)'
    BY <1>2, <1>3, <1>7 DEF Fresh, FreshAssign
  <2> QED
    BY <1>7, <2>1, FreshOfKind
<1>8. CASE AssignUsable(r)
  <2>1. request[r].op = "assign" /\ party[request[r].party].active
    BY <1>8 DEF AssignUsable, At, MaySponsor
  <2>2. m.op = "assign" /\ m.id = request[r].id /\ m.party = request[r].party
    BY <1>0, <1>4, <1>8, <2>1 DEF AssignUsable, Remember, AssignMemory
  <2> QED
    BY <1>7, <2>1, <2>2
<1>9. CASE ReassignResolve(r)
  <2>1. request[r].op = "assign" /\ request[r].pc # "usable"
    BY <1>9 DEF ReassignResolve, At
  <2>2. PICK s : m = [request[r] EXCEPT !.slot = s, !.pc = "distinct"]
    BY <1>0, <1>9 DEF ReassignResolve, Remember
  <2>3. m.op = "assign" /\ m.id = request[r].id /\ m.party = request[r].party
    BY <1>4, <2>1, <2>2 DEF AssignMemory
  <2> QED
    BY <1>7, <2>1, <2>3
<1>10. CASE AssignDistinct(r)
  <2>1. request[r].op = "assign" /\ request[r].pc # "usable"
    BY <1>10 DEF AssignDistinct, At
  <2>2. m.op = "assign" /\ m.id = request[r].id /\ m.party = request[r].party
    BY <1>0, <1>4, <1>10, <2>1 DEF AssignDistinct, Remember, AssignMemory
  <2> QED
    BY <1>7, <2>1, <2>2
<1>11. CASE RetireLoad(r)
  <2>1. PICK p : m = [op |-> "retire", party |-> p, counts |-> {"standing", "occurrences"}, pc |-> "check"]
    BY <1>0, <1>11 DEF RetireLoad, Accept
  <2>2. FreshRetire(m)'
    BY <2>1 DEF FreshRetire
  <2> QED
    BY <2>1, <2>2, FreshOfKind
<1>12. CASE RetireCount(r)
  <2>1. PICK count \in request[r].counts :
          /\ ~StillNamed(request[r].party, count)
          /\ request' = [request EXCEPT ![r] = [request[r] EXCEPT !.counts = request[r].counts \ {count}]]
    BY <1>12 DEF RetireCount, Remember
  <2>2. request[r] \in RetireMemory
    BY <1>0, <1>12, MemoryKinds DEF RetireCount, At
  <2>3. m.op = "retire" /\ m.party = request[r].party /\ m.counts = request[r].counts \ {count}
        /\ request[r].op = "retire"
    BY <1>0, <2>1, <2>2 DEF RetireMemory
  <2>4. Standing(m.party)' = Standing(m.party) /\ Awaiting(m.party)' = Awaiting(m.party)
    BY <1>2, <1>3 DEF Standing, Awaiting
  <2>5. /\ count = "standing" => Standing(m.party) = {}
        /\ count = "occurrences" => Awaiting(m.party) = {}
    BY <2>1, <2>3 DEF StillNamed
  <2>6. FreshRetire(m)'
    BY <2>3, <2>4, <2>5 DEF Fresh, FreshRetire
  <2> QED
    BY <2>3, <2>6, FreshOfKind
<1> QED
  BY <1>1, <1>5, <1>6, <1>8, <1>9, <1>10, <1>11, <1>12 DEF SponsorHandler, AssignWrite, RetireWrite

LEMMA EventFresh ==
  ASSUME CalendarInv, NEW r \in Requests, Fresh(request[r]), EventHandler(r),
         NEW m, m = request'[r], m # Idle
  PROVE  Fresh(m)'
<1>0. TablesHold /\ TypeOK /\ request \in [Requests -> Memory]
  BY InvParts DEF CalendarInv, CalendarHolds
<1>1. ~Finish(r)
  BY <1>0 DEF Finish, Remember
<1>2. UNCHANGED <<event, party, today>> /\ Events' = Events
  BY <1>1 DEF EventHandler, CreateResolve, CreateFree, CreateStanding, CreateUsable, CreateWrite,
     UpdateLoad, UpdateFree, UpdateUsable, UpdateWrite, CompleteLoad, CompleteWrite, RemoveCount,
     RemoveWrite, tables, Events
<1>3. request[r].op = "event-create" => request[r] \in EventCreateMemory
  BY <1>0, MemoryKinds
<1>4. request[r].op = "event-update" => request[r] \in EventUpdateMemory
  BY <1>0, MemoryKinds
<1>5. CASE CreateResolve(r)
  <2>1. PICK s \in Slots, date \in Dates, p \in Parties \cup {Null} :
          request' = [request EXCEPT ![r] =
            [op |-> "event-create", slot |-> s, date |-> date, sponsor |-> p, pc |-> "free"]]
    BY <1>5 DEF CreateResolve, Accept
  <2>2. m.op = "event-create" /\ m.pc = "free"
    BY <1>0, <2>1
  <2>3. FreshCreate(m)'
    BY <2>2 DEF FreshCreate
  <2> QED
    BY <2>2, <2>3, FreshOfKind
<1>6. CASE CreateFree(r)
  <2>1. m = [request[r] EXCEPT !.pc = IF request[r].sponsor = Null THEN "standing" ELSE "usable"]
    BY <1>0, <1>6 DEF CreateFree, Remember
  <2>2. m.op = "event-create" /\ m.pc # "write"
    BY <1>3, <1>6, <2>1 DEF CreateFree, At, EventCreateMemory
  <2>3. FreshCreate(m)'
    BY <2>2 DEF FreshCreate
  <2> QED
    BY <2>2, <2>3, FreshOfKind
<1>7. CASE CreateStanding(r)
  <2>1. PICK p : m = [request[r] EXCEPT !.sponsor = p, !.pc = IF p = Null THEN "write" ELSE "usable"]
    BY <1>0, <1>7 DEF CreateStanding, Remember
  <2>2. m.op = "event-create" /\ m.sponsor = p /\ (m.pc = "write" => p = Null)
    BY <1>3, <1>7, <2>1 DEF CreateStanding, At, EventCreateMemory
  <2>3. FreshCreate(m)'
    BY <2>2 DEF FreshCreate
  <2> QED
    BY <2>2, <2>3, FreshOfKind
<1>8. CASE CreateUsable(r)
  <2>1. m = [request[r] EXCEPT !.pc = "write"]
    BY <1>0, <1>8 DEF CreateUsable, Remember
  <2>2. m.op = "event-create" /\ m.sponsor = request[r].sponsor
    BY <1>3, <1>8, <2>1 DEF CreateUsable, At, EventCreateMemory
  <2>3. FreshCreate(m)'
    BY <1>2, <1>8, <2>2 DEF FreshCreate, CreateUsable, Usable
  <2> QED
    BY <2>2, <2>3, FreshOfKind
<1>9. CASE UpdateLoad(r)
  <2>1. PICK e \in Events, date \in Dates \cup {Null}, p \in Named :
          /\ Editable(e)
          /\ request' = [request EXCEPT ![r] =
            [op |-> "event-update", id |-> e, slot |-> event[e].slot, date |-> date,
             sponsor |-> p, pc |-> IF date = Null THEN "usable" ELSE "free"]]
    BY <1>9 DEF UpdateLoad, Accept
  <2>2. m.op = "event-update" /\ m.id = e /\ m.pc # "write"
    BY <1>0, <2>1
  <2>3. FreshUpdate(m)'
    BY <1>2, <2>1, <2>2 DEF FreshUpdate, Editable
  <2> QED
    BY <2>2, <2>3, FreshOfKind
<1>10. CASE UpdateFree(r) \/ UpdateUsable(r)
  <2>1. PICK pc : m = [request[r] EXCEPT !.pc = pc]
    BY <1>0, <1>10 DEF UpdateFree, UpdateUsable, Remember
  <2>2. request[r] \in EventUpdateMemory /\ request[r].op = "event-update"
    BY <1>4, <1>10 DEF UpdateFree, UpdateUsable, At
  <2>3. m.op = "event-update" /\ m.id = request[r].id /\ m.sponsor = request[r].sponsor /\ m.pc = pc
    BY <2>1, <2>2 DEF EventUpdateMemory
  <2>4. pc = "write" => UpdateUsable(r)
    <3>1. UpdateFree(r) => m = [request[r] EXCEPT !.pc = "usable"]
      BY <1>0 DEF UpdateFree, Remember
    <3>2. [request[r] EXCEPT !.pc = "usable"].pc = "usable"
      BY <2>2 DEF EventUpdateMemory
    <3> QED
      BY <1>10, <2>3, <3>1, <3>2
  <2>5. FreshUpdate(m)'
    BY <1>2, <2>2, <2>3, <2>4 DEF Fresh, FreshUpdate, UpdateUsable, Usable
  <2> QED
    BY <2>3, <2>5, FreshOfKind
<1>11. CASE CompleteLoad(r)
  <2>1. PICK e \in Events :
          /\ ~event[e].completed => HasHappened(e)
          /\ request' = [request EXCEPT ![r] =
            [op |-> "event-complete", id |-> e, completed |-> ~event[e].completed, pc |-> "write"]]
    BY <1>11 DEF CompleteLoad, Accept
  <2>2. m.op = "event-complete" /\ m.id = e /\ (m.completed => ~event[e].completed)
    BY <1>0, <2>1
  <2>3. FreshComplete(m)'
    BY <1>2, <2>1, <2>2 DEF FreshComplete, HasHappened
  <2> QED
    BY <2>2, <2>3, FreshOfKind
<1>12. CASE RemoveCount(r)
  <2>1. PICK e \in Events :
          /\ Removable(e)
          /\ request' = [request EXCEPT ![r] = [op |-> "event-remove", id |-> e, pc |-> "write"]]
    BY <1>12 DEF RemoveCount, Accept
  <2>2. m.op = "event-remove" /\ m.id = e
    BY <1>0, <2>1
  <2>3. FreshRemove(m)'
    BY <1>2, <2>1, <2>2 DEF FreshRemove, Removable
  <2> QED
    BY <2>2, <2>3, FreshOfKind
<1> QED
  BY <1>1, <1>5, <1>6, <1>7, <1>8, <1>9, <1>10, <1>11, <1>12 DEF EventHandler, CreateWrite, UpdateWrite,
     CompleteWrite, RemoveWrite

LEMMA NotYetOverlapped ==
  ASSUME [MCNext]_<<vars, overlapped, interrupted>>, ~overlapped'
  PROVE  ~overlapped
<1>1. CASE MCNext
  BY <1>1 DEF MCNext
<1> QED
  BY <1>1

\* Until handlers overlap, what each remembers is so after every step.
LEMMA FreshStep ==
  ASSUME CalendarInv, AloneInv, [MCNext]_<<vars, overlapped, interrupted>>, ~overlapped',
         NEW r \in Requests, NEW m, m = request'[r]
  PROVE  Fresh(m)'
<1>0. TablesHold /\ request \in [Requests -> Memory] /\ today' \in Dates /\ request' \in [Requests -> Memory]
  <2>1. CalendarInv'
    BY CalendarStep DEF MCNext, vars
  <2>2. today' \in Dates
    BY <2>1 DEF CalendarInv, CalendarHolds, TypeOK
  <2>3. request' \in [Requests -> Memory]
    BY <2>1 DEF CalendarInv, CalendarHolds, TypeOK
  <2> QED
    BY <2>2, <2>3, InvParts
<1>1. ~overlapped /\ Fresh(request[r])
  BY NotYetOverlapped DEF AloneInv
<1>2. CASE m = Idle
  BY <1>2, FreshOfKind DEF Idle
<1>3. ASSUME HandlerStep(r), m # Idle
      PROVE  Fresh(m)'
  <2>1. ~Abort(r)
    BY <1>0, <1>3 DEF Abort, Finish, Remember
  <2> QED
    BY <1>1, <1>3, <2>1, TypeFresh, SponsorFresh, EventFresh DEF HandlerStep
<1>4. CASE request[r] # Idle /\ m # Idle
  <2>1. CASE HandlerStep(r)
    BY <1>3, <1>4, <2>1
  <2>2. CASE UNCHANGED <<tables, party, request>> /\ today <= today'
    BY <1>0, <1>1, <2>2, FreshUndisturbed
  <2> QED
    BY <1>4, <2>1, <2>2, Undisturbed
<1>5. CASE request[r] = Idle /\ m # Idle
  <2>1. request' # request
    BY <1>5
  <2>2. Next
    BY <2>1 DEF MCNext, vars
  <2>3. PICK s \in Requests : HandlerStep(s)
    BY <2>1, <2>2, WhoseStep DEF OnceStep, CreateType, UpdateSlot, Unassign, Reinstate, SetMembership, Cite,
       AtOnce, Midnight
  <2>4. s = r
    BY <1>0, <1>5, <2>3, OwnMemory
  <2> QED
    BY <1>3, <1>5, <2>3, <2>4
<1> QED
  BY <1>2, <1>4, <1>5

\* Until handlers overlap, occurrences and the parties they name stand at every step.
LEMMA OccurrencesStep ==
  ASSUME CalendarInv, AloneInv, [MCNext]_<<vars, overlapped, interrupted>>, ~overlapped'
  PROVE  CompletedHasHappened' /\ (Next => OccurrencesStand)
<1>1. ~overlapped /\ CompletedHasHappened /\ \A r \in Requests : Fresh(request[r])
  BY NotYetOverlapped DEF AloneInv
<1>2. TablesHold
  BY InvParts
<1>3. Next => OccurrencesStand
  BY <1>1, <1>2, WhoseStep, OnceStands, HandlerStands
<1>4. UNCHANGED vars => CompletedHasHappened'
  BY <1>1 DEF CompletedHasHappened, vars, tables, Events
<1> QED
  BY <1>3, <1>4 DEF OccurrencesStand, MCNext, vars

LEMMA AloneStep ==
  ASSUME CalendarInv, AloneInv, [MCNext]_<<vars, overlapped, interrupted>>
  PROVE  AloneInv'
<1> SUFFICES ASSUME ~overlapped'
             PROVE  Alone' /\ (\A r \in Requests : Fresh(request[r])') /\ CompletedHasHappened'
  BY DEF AloneInv
<1>1. Alone'
  BY DEF Alone, MCNext, vars, AloneInv
<1>2. ASSUME NEW r \in Requests
      PROVE  Fresh(request[r])'
  <2>1. \A m : m = request'[r] => Fresh(m)'
    BY FreshStep
  <2> QED
    BY <2>1 DEF Fresh, FreshTypeUpdate, FreshAssign, FreshRetire, FreshCreate, FreshUpdate, FreshComplete,
       FreshRemove, Resizes, Shrinks, NoSponsorBeyond, Standing, Awaiting
<1> QED
  BY <1>1, <1>2, OccurrencesStep

-----------------------------------------------------------------------------
(* Slots and sponsors *)

LEMMA NotYetInterrupted ==
  ASSUME [MCNext]_<<vars, overlapped, interrupted>>, ~interrupted'
  PROVE  ~interrupted
<1>1. CASE MCNext
  BY <1>1 DEF MCNext
<1> QED
  BY <1>1

\* Around the step of one handler all others are idle.
LEMMA OthersIdle ==
  ASSUME CalendarInv, AloneInv, MCNext, ~overlapped',
         NEW r \in Requests, HandlerStep(r), NEW s \in Requests \ {r}
  PROVE  request[s] = Idle /\ request'[s] = Idle
<1>1. ~overlapped /\ request \in [Requests -> Memory]
  BY InvParts DEF MCNext
<1>2. request'[s] = request[s]
  BY <1>1, OwnMemory
<1>3. CASE request[r] # Idle
  BY <1>1, <1>2, <1>3 DEF AloneInv, Alone
<1>4. CASE request[r] = Idle
  <2>1. request'[r] # Idle
    BY <1>1, <1>4, BeginsBusy
  <2> QED
    BY <1>2, <2>1 DEF MCNext
<1> QED
  BY <1>3, <1>4

\* Nobody is in syncSlots when a handler that is not takes its step.
LEMMA NobodyResizes ==
  ASSUME CalendarInv, AloneInv, MCNext, ~overlapped', NEW r \in Requests, HandlerStep(r),
         request[r].pc \notin {"delete", "find", "create"}
  PROVE  Resizing = {}
  BY OthersIdle DEF Resizing, Idle

\* The numbers of the slots agree with the number of the type.
LEMMA MatchesByNumbers ==
  /\ SlotsMatchType <=> (HasType => SlotNumbers = 1..type.n)
  /\ SlotsMatchType' <=> (HasType' => SlotNumbers' = 1..type.n')
  BY DEF SlotsMatchType, SlotNumbers

\* Only dropping slots and removing the type take arrangements away together with slots.
LEMMA SponsorsStep ==
  ASSUME CalendarInv, Next, \A r \in Requests : InSync(request[r])
  PROVE  SponsorsAreKept
<1>0. TablesHold
  BY InvParts
<1>1. CASE UNCHANGED slot
  <2>1. \A a \in Assigned : assigned[a].slot \in Slots'
    BY <1>0, <1>1 DEF TablesHold, Slots
  <2> QED
    BY <2>1 DEF SponsorsAreKept
<1>2. CASE UNCHANGED assigned
  <2>1. Assigned' = Assigned
    BY <1>2 DEF Assigned
  <2> QED
    BY <2>1 DEF SponsorsAreKept
<1>3. ASSUME NEW r \in Requests, SyncDelete(r)
      PROVE  SponsorsAreKept
  <2>1. NoSponsorBeyond(request[r].n)
    BY <1>3 DEF SyncDelete, At, InSync
  <2>2. assigned \in [AssignedIds -> AssignedRow \cup Absent]
    BY <1>0 DEF TablesHold
  <2>3. \A a \in AssignedIds : assigned'[a] = assigned[a]
    BY <1>3, <2>1 DEF SyncDelete, DropSlots, NoSponsorBeyond
  <2>4. Assigned' = Assigned
    BY <2>3 DEF Assigned
  <2> QED
    BY <2>4 DEF SponsorsAreKept
<1>4. ASSUME NEW r \in Requests, TypeRemoveWrite(r)
      PROVE  SponsorsAreKept
  <2>1. ~HasType'
    BY <1>4 DEF TypeRemoveWrite, HasType, Absent
  <2> QED
    BY <2>1 DEF SponsorsAreKept
<1>5. ASSUME NEW r \in Requests, HandlerStep(r)
      PROVE  SponsorsAreKept
  <2>1. CASE TypeHandler(r)
    BY <1>1, <1>2, <1>3, <1>4, <2>1 DEF TypeHandler, TypeLoad, CountBeyond, TypeWrite, SyncFind, SyncCreate,
       TypeRemoveCount, tables
  <2>2. CASE SponsorHandler(r)
    BY <1>1, <2>2 DEF SponsorHandler, AssignResolve, ReassignLoad, AssignUsable, ReassignResolve,
       AssignDistinct, AssignWrite, RetireLoad, RetireCount, RetireWrite, tables
  <2>3. CASE EventHandler(r)
    BY <1>1, <2>3 DEF EventHandler, CreateResolve, CreateFree, CreateStanding, CreateUsable, CreateWrite,
       UpdateLoad, UpdateFree, UpdateUsable, UpdateWrite, CompleteLoad, CompleteWrite, RemoveCount,
       RemoveWrite, tables
  <2>4. CASE Abort(r)
    BY <1>1, <2>4 DEF Abort, tables
  <2> QED
    BY <1>5, <2>1, <2>2, <2>3, <2>4 DEF HandlerStep
<1>6. CASE OnceStep \/ Midnight
  BY <1>1, <1>2, <1>6 DEF OnceStep, CreateType, UpdateSlot, Unassign, Reinstate, SetMembership, Cite,
     Midnight, tables
<1> QED
  BY <1>5, <1>6, WhoseStep

\* While a type is funded by collection, whatever overlaps, no sponsor comes in.
LEMMA CollectionStep ==
  ASSUME CalendarInv, Next
  PROVE  CollectionTakesNoSponsor
<1> SUFFICES ASSUME HasType, type.funding = "general"
             PROVE  /\ \A e \in Events' : event'[e].sponsor # Null =>
                         e \in Events /\ event[e].sponsor = event'[e].sponsor
                    /\ \A a \in Assigned' : a \in Assigned /\ assigned[a] = assigned'[a]
  BY DEF CollectionTakesNoSponsor
<1> DEFINE NoNewSponsor ==
      \A e \in Events' : event'[e].sponsor # Null => e \in Events /\ event[e].sponsor = event'[e].sponsor
    NoNewArrangement == \A a \in Assigned' : a \in Assigned /\ assigned[a] = assigned'[a]
<1> HIDE DEF NoNewSponsor, NoNewArrangement
<1>0. TablesHold /\ TypeOK
  BY InvParts DEF CalendarInv, CalendarHolds
<1>1. UNCHANGED event => NoNewSponsor
  BY DEF NoNewSponsor, Events
<1>2. UNCHANGED assigned => NoNewArrangement
  BY DEF NoNewArrangement, Assigned
<1>3. ASSUME NEW S, DropSlots(S)
      PROVE  NoNewArrangement
  BY <1>3, DropLeavesArrangements DEF NoNewArrangement
<1>4. ASSUME NEW e \in EventIds, NEW row \in EventRow, event' = [event EXCEPT ![e] = row],
             row.sponsor = Null \/ (e \in Events /\ row.sponsor = event[e].sponsor)
      PROVE  NoNewSponsor
  <2>1. event'[e] = row /\ \A f \in EventIds \ {e} : event'[f] = event[f]
    BY <1>0, <1>4 DEF TablesHold
  <2> QED
    BY <1>4, <2>1 DEF NoNewSponsor, Events
<1>5. CASE OnceStep \/ Midnight
  <2>1. CASE Unassign
    <3>1. PICK b \in Assigned : assigned' = [assigned EXCEPT ![b] = Removed]
      BY <2>1 DEF Unassign
    <3>2. \A a \in AssignedIds : assigned'[a] = Removed \/ assigned'[a] = assigned[a]
      BY <1>0, <3>1 DEF TablesHold
    <3>3. NoNewArrangement
      BY <3>2 DEF NoNewArrangement, Assigned, Absent
    <3> QED
      BY <1>1, <2>1, <3>3 DEF Unassign, NoNewSponsor, NoNewArrangement
  <2>2. CASE Cite
    <3>1. PICK e \in Events : event' = [event EXCEPT ![e] = [event[e] EXCEPT !.cited = TRUE]]
      BY <2>2 DEF Cite
    <3> DEFINE row == [event[e] EXCEPT !.cited = TRUE]
    <3>2. e \in EventIds /\ event[e] \in EventRow
      BY <1>0, TableRows DEF Events
    <3>3. row \in EventRow /\ row.sponsor = event[e].sponsor
      BY <3>2 DEF EventRow
    <3> HIDE DEF row
    <3>4. event' = [event EXCEPT ![e] = row]
      BY <3>1 DEF row
    <3>5. NoNewSponsor
      BY <1>4, <3>2, <3>3, <3>4
    <3> QED
      BY <1>2, <2>2, <3>5 DEF Cite, NoNewSponsor, NoNewArrangement
  <2> QED
    BY <1>1, <1>2, <1>5, <2>1, <2>2 DEF OnceStep, CreateType, UpdateSlot, Reinstate, SetMembership, Midnight,
       tables, NoNewSponsor, NoNewArrangement
<1>6. ASSUME NEW r \in Requests, HandlerStep(r)
      PROVE  NoNewSponsor /\ NoNewArrangement
  <2>1. CASE TypeHandler(r)
    BY <1>1, <1>2, <1>3, <2>1 DEF TypeHandler, TypeLoad, CountBeyond, TypeWrite, SyncDelete, SyncFind,
       SyncCreate, TypeRemoveCount, TypeRemoveWrite, tables
  <2>2. CASE SponsorHandler(r)
    <3>1. ~AssignWrite(r)
      BY DEF AssignWrite, AssignedMayBe
    <3> QED
      BY <1>1, <1>2, <2>2, <3>1 DEF SponsorHandler, AssignResolve, ReassignLoad, AssignUsable, ReassignResolve,
         AssignDistinct, RetireLoad, RetireCount, RetireWrite, tables
  <2>3. CASE CreateWrite(r)
    <3> DEFINE row == [slot |-> request[r].slot, date |-> request[r].date, sponsor |-> request[r].sponsor,
                       completed |-> FALSE, cited |-> FALSE]
    <3>1. request[r] \in EventCreateMemory
      BY <1>0, <2>3, MemoryKinds DEF CreateWrite, At
    <3>2. row \in EventRow
      BY <3>1 DEF EventRow, EventCreateMemory
    <3>3. PICK e \in EventIds : event' = [event EXCEPT ![e] = row] /\ EventMayEnter(row)
      BY <2>3 DEF CreateWrite
    <3>4. row.sponsor = Null
      BY <3>3 DEF EventMayEnter, EventMayBecome, SuitsFunding
    <3> HIDE DEF row
    <3> QED
      BY <1>2, <1>4, <2>3, <3>2, <3>3, <3>4 DEF CreateWrite
  <2>4. CASE UpdateWrite(r)
    <3> DEFINE m == request[r]
               row == [event[m.id] EXCEPT !.date = IF m.date = Null THEN event[m.id].date ELSE m.date,
                          !.sponsor = IF m.sponsor = Unsaid THEN event[m.id].sponsor ELSE m.sponsor]
    <3>1. m \in EventUpdateMemory
      BY <1>0, <2>4, MemoryKinds DEF UpdateWrite, At
    <3>2. /\ m.id \in Events /\ event' = [event EXCEPT ![m.id] = row]
          /\ m.sponsor # Unsaid => SuitsFunding(row)
      BY <2>4 DEF UpdateWrite, EventMayBecome
    <3>3. m.id \in EventIds /\ event[m.id] \in EventRow
      BY <1>0, <3>2, TableRows DEF Events
    <3>4. row \in EventRow
          /\ row.sponsor = (IF m.sponsor = Unsaid THEN event[m.id].sponsor ELSE m.sponsor)
      BY <3>1, <3>3 DEF EventRow, EventUpdateMemory, Named
    <3> HIDE DEF row
    <3>5. row.sponsor = Null \/ row.sponsor = event[m.id].sponsor
      BY <3>2, <3>4 DEF SuitsFunding
    <3> QED
      BY <1>2, <1>4, <2>4, <3>2, <3>3, <3>4, <3>5 DEF UpdateWrite
  <2>5. CASE CompleteWrite(r)
    <3> DEFINE row == [event[request[r].id] EXCEPT !.completed = request[r].completed]
    <3>1. request[r] \in CompleteMemory
      BY <1>0, <2>5, MemoryKinds DEF CompleteWrite, At
    <3>2. request[r].id \in Events /\ event' = [event EXCEPT ![request[r].id] = row]
      BY <2>5 DEF CompleteWrite
    <3>3. request[r].id \in EventIds /\ event[request[r].id] \in EventRow
      BY <1>0, <3>2, TableRows DEF Events
    <3>4. row \in EventRow /\ row.sponsor = event[request[r].id].sponsor
      BY <3>1, <3>3 DEF EventRow, CompleteMemory
    <3> HIDE DEF row
    <3> QED
      BY <1>2, <1>4, <2>5, <3>2, <3>3, <3>4 DEF CompleteWrite
  <2>6. CASE RemoveWrite(r)
    <3>1. event' = [event EXCEPT ![request[r].id] = Removed] /\ UNCHANGED assigned
      BY <2>6 DEF RemoveWrite
    <3>2. \A e \in EventIds : event'[e] = Removed \/ event'[e] = event[e]
      BY <1>0, <3>1 DEF TablesHold
    <3>3. NoNewSponsor
      BY <3>2 DEF NoNewSponsor, Events, Absent
    <3> QED
      BY <1>2, <3>1, <3>3
  <2>7. CASE EventHandler(r)
    BY <1>1, <1>2, <2>3, <2>4, <2>5, <2>6, <2>7 DEF EventHandler, CreateResolve, CreateFree, CreateStanding,
       CreateUsable, UpdateLoad, UpdateFree, UpdateUsable, CompleteLoad, RemoveCount, tables
  <2>8. CASE Abort(r)
    BY <1>1, <1>2, <2>8 DEF Abort, tables
  <2> QED
    BY <1>6, <2>1, <2>2, <2>7, <2>8 DEF HandlerStep
<1> QED
  BY <1>5, <1>6, WhoseStep DEF NoNewSponsor, NoNewArrangement

\* What syncSlots brings about, a step of it or of any other handler of the type at a
\* time.
LEMMA TypeInSync ==
  ASSUME CalendarInv, AloneInv, SyncInv, MCNext, ~overlapped', ~interrupted',
         NEW r \in Requests, TypeHandler(r), NEW m, m = request'[r]
  PROVE  /\ InSync(m)'
         /\ m.pc \notin {"delete", "find", "create"} => SlotsMatchType'
<1>0. TablesHold /\ TypeOK /\ request \in [Requests -> Memory]
  BY InvParts DEF CalendarInv, CalendarHolds
<1>1. HandlerStep(r) /\ ~overlapped /\ ~interrupted
  BY NotYetOverlapped, NotYetInterrupted DEF HandlerStep
<1>2. InSync(request[r]) /\ Fresh(request[r]) /\ (Resizing = {} => SlotsMatchType)
  BY <1>1 DEF SyncInv, AloneInv
<1>3. request[r].op = "type-update" => request[r] \in TypeUpdateMemory
  BY <1>0, MemoryKinds
<1>4. request[r].pc \notin {"delete", "find", "create"} => SlotsMatchType
  BY <1>1, <1>2, NobodyResizes
<1>5. ASSUME UNCHANGED <<type, slot>>, SlotsMatchType
      PROVE  SlotsMatchType'
  BY <1>5 DEF SlotsMatchType, HasType, Slots
<1>6. \A s \in Slots : slot[s].instance \in Nat /\ slot[s].instance > 0
  BY <1>0, TableRows, CalendarAssumption DEF Slots, SlotRow, Instances
<1>7. m.op # "type-update" \/ m.pc = "check" => InSync(m)'
  BY DEF InSync
<1>70. Idle.op = "none" /\ Idle.pc = "idle"
  BY DEF Idle
<1>8. CASE TypeLoad(r) \/ TypeRemoveCount(r)
  <2>1. request[r].pc \notin {"delete", "find", "create"} /\ UNCHANGED <<type, slot>>
    BY <1>8 DEF TypeLoad, TypeRemoveCount, Accept, Idle, tables
  <2>2. m.op # "type-update" \/ m.pc = "check"
    BY <1>0, <1>8 DEF TypeLoad, TypeRemoveCount, Accept
  <2> QED
    BY <1>4, <1>5, <1>7, <2>1, <2>2
<1>9. CASE CountBeyond(r)
  <2>1. request[r] \in TypeUpdateMemory /\ request[r].pc = "check" /\ UNCHANGED <<type, slot>>
    BY <1>3, <1>9 DEF CountBeyond, At, tables
  <2>2. PICK c : m = [request[r] EXCEPT !.counts = c]
    BY <1>0, <1>9 DEF CountBeyond, Remember
  <2>3. m.pc = "check"
    BY <2>1, <2>2 DEF TypeUpdateMemory
  <2> QED
    BY <1>4, <1>5, <1>7, <2>1, <2>3
<1>10. CASE TypeWrite(r)
  <2> PICK n : n = request[r].n
    OBVIOUS
  <2>1. /\ request[r] \in TypeUpdateMemory /\ request[r].op = "type-update" /\ request[r].pc = "check"
        /\ request[r].counts = {} /\ HasType /\ UNCHANGED <<slot, assigned>>
    BY <1>3, <1>10 DEF TypeWrite, At
  <2>2. /\ SlotsMatchType
        /\ request[r].resize <=> Resizes(n)
        /\ Shrinks(n) => NoSponsorBeyond(n)
    BY <1>2, <1>4, <2>1 DEF Fresh, FreshTypeUpdate
  <2>3. type'.n = (IF n = Null THEN type.n ELSE n) /\ DOMAIN type' = {"n", "funding"}
    BY <1>10 DEF TypeWrite
  <2>4. HasType' /\ Slots' = Slots /\ Assigned' = Assigned
    BY <2>1, <2>3 DEF HasType, Absent, Unborn, Removed, Slots, Assigned
  <2>5. type.n \in Nat /\ (n # Null => n \in Nat)
    BY <1>0, <2>1, Rows, CalendarAssumption DEF TypeRow, TypeUpdateMemory, Instances
  <2>6. CASE request[r].resize
    <3>1. n # Null /\ n # type.n
      BY <2>2, <2>6 DEF Resizes
    <3>2. m = [request[r] EXCEPT !.pc = "delete"]
      BY <1>0, <1>10, <2>6 DEF TypeWrite, Remember
    <3>3. m.op = "type-update" /\ m.n = n /\ m.pc = "delete"
      BY <2>1, <3>2 DEF TypeUpdateMemory
    <3>4. NoSponsorBeyond(n)
      <4>1. CASE n < type.n
        BY <2>2, <3>1, <4>1 DEF Shrinks
      <4>2. CASE ~(n < type.n)
        <5>1. \A s \in Slots : slot[s].instance \in 1..type.n
          BY <2>1, <2>2 DEF SlotsMatchType
        <5>2. \A s \in Slots : ~(slot[s].instance > n)
          BY <2>5, <3>1, <4>2, <5>1
        <5> QED
          BY <5>2 DEF NoSponsorBeyond, Beyond
      <4> QED
        BY <4>1, <4>2
    <3>5. NoSponsorBeyond(n)'
      BY <2>1, <2>4, <3>4 DEF NoSponsorBeyond, Beyond
    <3>6. InSync(m)'
      BY <2>3, <2>4, <3>1, <3>3, <3>5 DEF InSync, NoSponsorBeyond, Beyond
    <3> QED
      BY <3>3, <3>6
  <2>7. CASE ~request[r].resize
    <3>1. m = Idle
      BY <1>0, <1>10, <2>7 DEF TypeWrite, Finish, Remember
    <3>2. type'.n = type.n
      BY <2>2, <2>3, <2>7 DEF Resizes
    <3>3. SlotsMatchType'
      BY <2>1, <2>2, <2>4, <3>2 DEF SlotsMatchType
    <3> QED
      BY <1>7, <1>70, <3>1, <3>3
  <2> QED
    BY <2>6, <2>7
<1>11. CASE SyncDelete(r)
  <2> PICK n : n = request[r].n
    OBVIOUS
  <2>1. request[r] \in TypeUpdateMemory /\ request[r].op = "type-update" /\ request[r].pc = "delete"
    BY <1>3, <1>11 DEF SyncDelete, At
  <2>2. HasType /\ type.n = n /\ type' = type
    BY <1>2, <1>11, <2>1 DEF InSync, SyncDelete
  <2>3. m = [request[r] EXCEPT !.pc = "find"]
    BY <1>0, <1>11 DEF SyncDelete, Remember
  <2>4. m.op = "type-update" /\ m.n = n /\ m.pc = "find"
    BY <2>1, <2>3 DEF TypeUpdateMemory
  <2>5. \A s \in SlotIds : slot'[s] = IF s \in Beyond(n) THEN Removed ELSE slot[s]
    BY <1>11 DEF SyncDelete, DropSlots
  <2>6. \A s \in Slots' : s \in Slots /\ s \notin Beyond(n) /\ slot'[s] = slot[s]
    BY <2>5 DEF Slots, Absent
  <2>7. Beyond(n)' = {}
    <3>1. \A s \in Slots' : ~(slot'[s].instance > n)
      BY <2>6 DEF Beyond
    <3> QED
      BY <3>1 DEF Beyond
  <2>8. HasType'
    BY <2>2 DEF HasType
  <2>9. InSync(m)'
    BY <2>2, <2>4, <2>7, <2>8 DEF InSync, Beyond
  <2> QED
    BY <2>4, <2>9
<1>12. CASE SyncFind(r)
  <2> PICK n : n = request[r].n
    OBVIOUS
  <2>1. request[r] \in TypeUpdateMemory /\ request[r].op = "type-update" /\ request[r].pc = "find"
    BY <1>3, <1>12 DEF SyncFind, At
  <2>2. HasType /\ type.n = n /\ UNCHANGED <<type, slot>> /\ Beyond(n) = {} /\ n \in Nat
    BY <1>0, <1>2, <1>12, <2>1, Rows, CalendarAssumption DEF InSync, SyncFind, tables, TypeRow, Instances
  <2>3. HasType' /\ Slots' = Slots
    BY <2>2 DEF HasType, Slots
  <2>4. CASE Missing(n) = {}
    <3>1. m = Idle
      BY <1>0, <1>12, <2>4 DEF SyncFind, Finish, Remember
    <3>2. \A s \in Slots : slot[s].instance \in 1..n
      BY <1>6, <2>2 DEF Beyond
    <3>3. 1..n \subseteq SlotNumbers
      BY <2>4 DEF Missing, SlotNumbers
    <3>4. SlotNumbers = 1..n
      BY <3>2, <3>3 DEF SlotNumbers
    <3>5. SlotsMatchType
      BY <2>2, <3>4, MatchesByNumbers
    <3> QED
      BY <1>5, <1>7, <1>70, <2>2, <3>1, <3>5
  <2>5. CASE Missing(n) # {}
    <3>1. m = [request[r] EXCEPT !.pc = "create", !.missing = Missing(n)]
      BY <1>0, <1>12, <2>5 DEF SyncFind, Remember
    <3>2. m.op = "type-update" /\ m.n = n /\ m.pc = "create" /\ m.missing = Missing(n)
      BY <2>1, <3>1 DEF TypeUpdateMemory
    <3>3. InSync(m)'
      BY <2>2, <2>3, <3>2 DEF InSync, Beyond, Missing
    <3> QED
      BY <3>2, <3>3
  <2> QED
    BY <2>4, <2>5
<1>13. CASE SyncCreate(r)
  <2> PICK n : n = request[r].n
    OBVIOUS
  <2>1. request[r].op = "type-update" /\ request[r].pc = "create" /\ UNCHANGED type /\ m = Idle
    BY <1>0, <1>13 DEF SyncCreate, At, Finish, Remember
  <2>2. HasType /\ type.n = n /\ Beyond(n) = {} /\ request[r].missing = Missing(n)
    BY <1>2, <2>1 DEF InSync
  <2>20. n \in Nat
    BY <1>0, <2>2, Rows, CalendarAssumption DEF TypeRow, Instances
  <2>3. SlotNumbers' = SlotNumbers \cup Missing(n)
    BY <1>13, <2>2, SyncCreateStep
  <2>4. \A s \in Slots : slot[s].instance \in 1..n
    BY <1>6, <2>2, <2>20 DEF Beyond
  <2>5. SlotNumbers' = 1..n
    BY <2>3, <2>4 DEF SlotNumbers, Missing
  <2>6. SlotsMatchType'
    BY <2>1, <2>2, <2>5, MatchesByNumbers
  <2> QED
    BY <1>7, <1>70, <2>1, <2>6
<1>14. CASE TypeRemoveWrite(r)
  <2>1. m = Idle /\ ~HasType'
    BY <1>0, <1>14 DEF TypeRemoveWrite, HasType, Absent, Finish, Remember
  <2>2. SlotsMatchType'
    BY <2>1 DEF SlotsMatchType
  <2> QED
    BY <1>7, <1>70, <2>1, <2>2
<1> QED
  BY <1>8, <1>9, <1>10, <1>11, <1>12, <1>13, <1>14 DEF TypeHandler

\* All other handlers leave the type and the slots alone.
LEMMA OthersInSync ==
  ASSUME CalendarInv, AloneInv, SyncInv, MCNext, ~overlapped', ~interrupted',
         NEW r \in Requests, HandlerStep(r), ~TypeHandler(r), NEW m, m = request'[r]
  PROVE  InSync(m)' /\ SlotsMatchType'
<1>0. CalendarHolds /\ request \in [Requests -> Memory]
  BY InvParts DEF CalendarInv
<1>1. ~overlapped /\ ~interrupted
  BY NotYetOverlapped, NotYetInterrupted
<1>2. UNCHANGED <<type, slot>>
  BY DEF HandlerStep, SponsorHandler, EventHandler, AssignResolve, ReassignLoad, AssignUsable, ReassignResolve,
     AssignDistinct, AssignWrite, RetireLoad, RetireCount, RetireWrite, CreateResolve, CreateFree,
     CreateStanding, CreateUsable, CreateWrite, UpdateLoad, UpdateFree, UpdateUsable, UpdateWrite,
     CompleteLoad, CompleteWrite, RemoveCount, RemoveWrite, Abort, tables
<1>3. m.op # "type-update"
  <2>1. CASE m.op = "type-update"
    <3>1. request[r] = m
      <4>1. request'[r] = request[r] \/ TypeUpdates(r)
        BY <2>1, OtherHandlers DEF MCNext
      <4> QED
        BY <4>1 DEF TypeUpdates, TypeHandler
    <3>2. request[r].op = "type-update" /\ ~Abort(r)
      BY <1>0, <2>1, <3>1 DEF Abort, Finish, Remember, Idle
    <3>3. ~SponsorHandler(r) /\ ~EventHandler(r)
      BY <3>2 DEF SponsorHandler, EventHandler, AssignResolve, ReassignLoad, AssignUsable, ReassignResolve,
         AssignDistinct, AssignWrite, RetireLoad, RetireCount, RetireWrite, CreateResolve, CreateFree,
         CreateStanding, CreateUsable, CreateWrite, UpdateLoad, UpdateFree, UpdateUsable, UpdateWrite,
         CompleteLoad, CompleteWrite, RemoveCount, RemoveWrite, Accept, At, Idle
    <3> QED
      BY <3>2, <3>3 DEF HandlerStep
  <2> QED
    BY <2>1
<1>4. request[r].pc \notin {"delete", "find", "create"}
  <2>1. CASE Abort(r)
    <3>1. r \in Resizing => SyncFind(r)
      BY <2>1 DEF MCNext
    <3> QED
      BY <3>1 DEF TypeHandler, Resizing
  <2>2. /\ \A memory : Accept(r, memory) => request[r].pc = "idle"
        /\ \A op, pc : At(r, op, pc) => request[r].pc = pc
    BY DEF Accept, At, Idle
  <2>3. CASE SponsorHandler(r)
    <3>1. request[r].pc \in {"idle", "usable", "resolve", "distinct", "write", "check"}
      BY <2>2, <2>3 DEF SponsorHandler, AssignResolve, ReassignLoad, AssignUsable, ReassignResolve,
         AssignDistinct, AssignWrite, RetireLoad, RetireCount, RetireWrite
    <3> QED
      BY <3>1
  <2>4. CASE EventHandler(r)
    <3>1. request[r].pc \in {"idle", "free", "standing", "usable", "write"}
      BY <2>2, <2>4 DEF EventHandler, CreateResolve, CreateFree, CreateStanding, CreateUsable, CreateWrite,
         UpdateLoad, UpdateFree, UpdateUsable, UpdateWrite, CompleteLoad, CompleteWrite, RemoveCount,
         RemoveWrite
    <3> QED
      BY <3>1
  <2> QED
    BY <2>1, <2>3, <2>4 DEF HandlerStep
<1>5. SlotsMatchType
  BY <1>1, <1>4, NobodyResizes DEF SyncInv
<1> QED
  BY <1>2, <1>3, <1>5 DEF InSync, SlotsMatchType, HasType, Slots

LEMMA OnceInSync ==
  ASSUME TablesHold, SlotsMatchType, OnceStep \/ Midnight \/ UNCHANGED vars
  PROVE  SlotsMatchType'
<1>1. CASE CreateType
  <2>1. PICK n \in Instances \cap SlotIds, funding \in Funding :
          /\ type' = [n |-> n, funding |-> funding]
          /\ slot' = [s \in SlotIds |-> IF s <= n THEN [instance |-> s, active |-> TRUE] ELSE Unborn]
    BY <1>1 DEF CreateType
  <2>2. n \in 1..MaxSlot /\ type'.n = n
    BY <2>1 DEF SlotIds
  <2>3. \A s \in SlotIds : s \in Slots' <=> s \in 1..n
    <3>1. \A s \in SlotIds : [instance |-> s, active |-> TRUE] \notin Absent
      BY DEF Absent, Unborn, Removed
    <3>2. Unborn \in Absent
      BY DEF Absent
    <3>3. \A s \in SlotIds : s \in 1..n <=> s <= n
      BY <2>2, CalendarAssumption DEF SlotIds
    <3> QED
      BY <2>1, <3>1, <3>2, <3>3 DEF Slots
  <2>4. 1..n \subseteq SlotIds
    BY <2>2, CalendarAssumption DEF SlotIds
  <2>5. Slots' = 1..n
    BY <2>3, <2>4 DEF Slots
  <2>6. \A s \in 1..n : slot'[s].instance = s
    BY <2>1, <2>2, <2>4
  <2>7. SlotNumbers' = 1..n
    BY <2>5, <2>6 DEF SlotNumbers
  <2> QED
    BY <2>2, <2>7, MatchesByNumbers
<1>2. CASE UpdateSlot
  <2>1. PICK s \in Slots, active \in BOOLEAN : slot' = [slot EXCEPT ![s].active = active]
    BY <1>2 DEF UpdateSlot
  <2>2. s \in SlotIds /\ slot[s] \in SlotRow
    BY TableRows DEF Slots
  <2>3. [slot[s] EXCEPT !.active = active] \in SlotRow
        /\ [slot[s] EXCEPT !.active = active].instance = slot[s].instance
    BY <2>2 DEF SlotRow
  <2>4. slot'[s] = [slot[s] EXCEPT !.active = active] /\ \A t \in SlotIds \ {s} : slot'[t] = slot[t]
    BY <2>1, <2>2 DEF TablesHold
  <2>5. Slots' = Slots
    BY <2>3, <2>4, RowsAreThere DEF Slots
  <2>6. \A t \in Slots : slot'[t].instance = slot[t].instance
    BY <2>3, <2>4 DEF Slots
  <2>7. type' = type
    BY <1>2 DEF UpdateSlot
  <2> QED
    BY <2>5, <2>6, <2>7 DEF SlotsMatchType, HasType
<1>3. CASE UNCHANGED <<type, slot>>
  BY <1>3 DEF SlotsMatchType, HasType, Slots
<1> QED
  BY <1>1, <1>2, <1>3 DEF OnceStep, Unassign, Reinstate, SetMembership, Cite, Midnight, vars, tables

\* Until handlers overlap or one stops in syncSlots, slots are in step with the number.
LEMMA SyncStep ==
  ASSUME CalendarInv, AloneInv, SyncInv, [MCNext]_<<vars, overlapped, interrupted>>
  PROVE  SyncInv'
<1> SUFFICES ASSUME ~overlapped', ~interrupted'
             PROVE  /\ Resizing' = {} => SlotsMatchType'
                    /\ \A r \in Requests : InSync(request[r])'
  BY DEF SyncInv
<1>0. TablesHold /\ ~overlapped /\ ~interrupted
  BY InvParts, NotYetOverlapped, NotYetInterrupted
<1>1. (Resizing = {} => SlotsMatchType) /\ \A r \in Requests : InSync(request[r])
  BY <1>0 DEF SyncInv
<1>2. ASSUME NEW r \in Requests, HandlerStep(r), MCNext
      PROVE  /\ Resizing' = {} => SlotsMatchType'
             /\ \A s \in Requests : InSync(request[s])'
  <2>1. \A m : m = request'[r] =>
          InSync(m)' /\ (m.pc \notin {"delete", "find", "create"} => SlotsMatchType')
    BY <1>2, TypeInSync, OthersInSync
  <2>2. InSync(request[r])'
    BY <2>1 DEF InSync, NoSponsorBeyond, Missing
  <2>3. \A s \in Requests \ {r} : request'[s] = Idle
    BY <1>2, OthersIdle
  <2>4. \A s \in Requests \ {r} : InSync(request[s])'
    BY <2>3 DEF InSync, Idle
  <2>5. Resizing' = {} => request'[r].pc \notin {"delete", "find", "create"}
    BY DEF Resizing
  <2> QED
    BY <2>1, <2>2, <2>4, <2>5
<1>3. ASSUME UNCHANGED request, OnceStep \/ Midnight \/ UNCHANGED vars
      PROVE  /\ Resizing' = {} => SlotsMatchType'
             /\ \A s \in Requests : InSync(request[s])'
  <2>1. Resizing' = Resizing
    BY <1>3 DEF Resizing
  <2>2. Resizing' = {} => SlotsMatchType'
    BY <1>0, <1>1, <1>3, <2>1, OnceInSync
  <2>3. ASSUME NEW s \in Requests
        PROVE  InSync(request[s])'
    <3>1. CASE request[s] = Idle
      BY <1>3, <3>1 DEF InSync, Idle
    <3>2. CASE request[s] # Idle
      <4>1. CASE HandlerStep(s) /\ MCNext
        BY <1>2, <4>1
      <4>2. CASE UNCHANGED tables
        <5>1. UNCHANGED <<type, slot, assigned, event>>
          BY <4>2 DEF tables
        <5>2. InSync(request[s])
          BY <1>1
        <5> QED
          BY <1>3, <5>1, <5>2 DEF InSync, NoSponsorBeyond, Beyond, Missing, HasType, Slots, Assigned
      <4> QED
        BY <3>2, <4>1, <4>2, Undisturbed DEF vars
    <3> QED
      BY <3>1, <3>2
  <2> QED
    BY <2>2, <2>3
<1>4. OnceStep \/ Midnight => UNCHANGED request
  BY DEF OnceStep, CreateType, UpdateSlot, Unassign, Reinstate, SetMembership, Cite, AtOnce, Midnight
<1> QED
  BY <1>2, <1>3, <1>4, WhoseStep DEF MCNext, vars

-----------------------------------------------------------------------------
(* Handlers that follow one another *)

HistoryInv == CalendarInv /\ AloneInv /\ SyncInv

LEMMA HistoryStart ==
  ASSUME MCInit
  PROVE  HistoryInv
<1> USE DEF MCInit
<1>1. CalendarInv
  BY CalendarStart
<1>2. (\A r \in Requests : request[r] = Idle) /\ Events = {} /\ ~HasType
  BY DEF Init, CalendarInit, Events, HasType, Absent
<1>3. Alone /\ CompletedHasHappened /\ SlotsMatchType
  BY <1>2 DEF Alone, CompletedHasHappened, SlotsMatchType
<1>4. \A r \in Requests : Fresh(request[r]) /\ InSync(request[r])
  BY <1>2 DEF Idle, InSync, Fresh, FreshTypeUpdate, FreshAssign, FreshRetire, FreshCreate, FreshUpdate,
     FreshComplete, FreshRemove
<1> QED
  BY <1>1, <1>3, <1>4 DEF HistoryInv, AloneInv, SyncInv

LEMMA HistoryStep ==
  ASSUME HistoryInv, [MCNext]_<<vars, overlapped, interrupted>>
  PROVE  HistoryInv'
<1>1. [Next]_vars
  BY DEF MCNext, vars
<1> QED
  BY <1>1, CalendarStep, AloneStep, SyncStep DEF HistoryInv

LEMMA HistoryHolds == MCSpec => []HistoryInv
<1>1. MCInit => HistoryInv
  BY HistoryStart
<1>2. HistoryInv /\ [MCNext]_<<vars, overlapped, interrupted>> => HistoryInv'
  BY HistoryStep
<1> QED
  BY <1>1, <1>2, PTL DEF MCSpec

\* As long as handlers follow one another and none was stopped in syncSlots, the slots of
\* a type are numbered 1 to its number of instances whenever no handler is at it.
THEOREM SlotsMatchHolds == MCSpec => []SlotsMatchUntilOverlap
<1>1. HistoryInv => SlotsMatchUntilOverlap
  BY DEF HistoryInv, SyncInv, SlotsMatchUntilOverlap
<1> QED
  BY <1>1, HistoryHolds, PTL

\* However handlers overlap, a type funded by collection takes no new sponsor; as long as
\* they follow one another and none was stopped in syncSlots, no change of the type takes
\* a standing sponsor with it.
THEOREM SponsorsHold == MCSpec => SponsorsUntilOverlap
<1>1. HistoryInv /\ [MCNext]_<<vars, overlapped, interrupted>> =>
        [CollectionTakesNoSponsor /\ (~overlapped' /\ ~interrupted' => SponsorsAreKept)]_vars
  <2> SUFFICES ASSUME HistoryInv, [MCNext]_<<vars, overlapped, interrupted>>, vars' # vars
               PROVE  CollectionTakesNoSponsor /\ (~overlapped' /\ ~interrupted' => SponsorsAreKept)
    OBVIOUS
  <2>1. Next
    BY DEF MCNext
  <2>2. CollectionTakesNoSponsor
    BY <2>1, CollectionStep DEF HistoryInv
  <2>3. ASSUME ~overlapped', ~interrupted'
        PROVE  SponsorsAreKept
    <3>1. \A r \in Requests : InSync(request[r])
      BY <2>3, NotYetOverlapped, NotYetInterrupted DEF HistoryInv, SyncInv
    <3> QED
      BY <2>1, <3>1, SponsorsStep DEF HistoryInv
  <2> QED
    BY <2>2, <2>3
<1> QED
  BY <1>1, HistoryHolds, PTL DEF MCSpec, SponsorsUntilOverlap

\* As long as handlers follow one another, what is marked complete has happened and keeps
\* its date and sponsor, an occurrence a voucher names stays, and a retired party is free
\* of anything standing or awaited and gets nothing new.
THEOREM OccurrencesHold == MCSpec => OccurrencesUntilOverlap
<1>1. HistoryInv /\ [MCNext]_<<vars, overlapped, interrupted>> =>
        [~overlapped' => CompletedHasHappened' /\ CompletedStands /\ CitedIsKept /\ RetiredIsFree]_vars
  <2> SUFFICES ASSUME HistoryInv, [MCNext]_<<vars, overlapped, interrupted>>, vars' # vars, ~overlapped'
               PROVE  CompletedHasHappened' /\ CompletedStands /\ CitedIsKept /\ RetiredIsFree
    OBVIOUS
  <2>1. Next
    BY DEF MCNext
  <2> QED
    BY <2>1, OccurrencesStep DEF HistoryInv, OccurrencesStand
<1> QED
  BY <1>1, HistoryHolds, PTL DEF MCSpec, OccurrencesUntilOverlap
=============================================================================
