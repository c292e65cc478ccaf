-------------------------------- MODULE Events -------------------------------
(***************************************************************************)
(* EventsService: the dated occurrences of the slots.                      *)
(***************************************************************************)
EXTENDS Calendar

CONSTANT Unsaid
ASSUME UnsaidAssumption == Unsaid \notin Parties \cup {Null}

\* What the writes may name: Unsaid is a field left out.
Named == Parties \cup {Null, Unsaid}

\* resolveSlot
CreateResolve(r) ==
  /\ \E s \in Slots, date \in Dates, p \in Parties \cup {Null} :
       /\ slot[s].active
       /\ Accept(r, [op |-> "event-create", slot |-> s, date |-> date, sponsor |-> p, pc |-> "free"])
  /\ UNCHANGED <<tables, party, today>>

\* assertFreeThatYear
YearTaken(s, date, except) ==
  \E f \in Events \ {except} : event[f].slot = s /\ Year(event[f].date) = Year(date)

CreateFree(r) ==
  /\ At(r, "event-create", "free")
  /\ LET m == request[r]
     IN /\ ~YearTaken(m.slot, m.date, Null)
        /\ Remember(r, [m EXCEPT !.pc = IF m.sponsor = Null THEN "standing" ELSE "usable"])
  /\ UNCHANGED <<tables, party, today>>

\* standingSponsor: the only one, if there is just one.
StandingSponsor(s) ==
  LET pinned == {assigned[a].party : a \in {b \in Assigned : assigned[b].slot = s}}
  IN IF Cardinality(pinned) = 1 THEN pinned ELSE {Null}

CreateStanding(r) ==
  /\ At(r, "event-create", "standing")
  /\ \E p \in StandingSponsor(request[r].slot) :
       Remember(r, [request[r] EXCEPT !.sponsor = p, !.pc = IF p = Null THEN "write" ELSE "usable"])
  /\ UNCHANGED <<tables, party, today>>

\* assertSponsorIsUsable: active; a membership is not asked for.
Usable(p) == party[p].active

CreateUsable(r) ==
  /\ At(r, "event-create", "usable")
  /\ Usable(request[r].sponsor)
  /\ Remember(r, [request[r] EXCEPT !.pc = "write"])
  /\ UNCHANGED <<tables, party, today>>

CreateWrite(r) ==
  /\ At(r, "event-create", "write")
  /\ LET m == request[r]
         row == [slot |-> m.slot, date |-> m.date, sponsor |-> m.sponsor,
                 completed |-> FALSE, cited |-> FALSE]
     IN /\ EventMayEnter(row)
        /\ \E e \in EventIds : IsNext(event, e) /\ event' = [event EXCEPT ![e] = row]
  /\ Finish(r)
  /\ UNCHANGED <<type, slot, assigned, party, today>>

Editable(e) == ~event[e].completed

\* update: date and sponsor may each be left out.
UpdateLoad(r) ==
  /\ \E e \in Events, date \in Dates \cup {Null}, p \in Named :
       /\ Editable(e)
       /\ Accept(r, [op |-> "event-update", id |-> e, slot |-> event[e].slot, date |-> date,
                     sponsor |-> p, pc |-> IF date = Null THEN "usable" ELSE "free"])
  /\ UNCHANGED <<tables, party, today>>

UpdateFree(r) ==
  /\ At(r, "event-update", "free")
  /\ ~YearTaken(request[r].slot, request[r].date, request[r].id)
  /\ Remember(r, [request[r] EXCEPT !.pc = "usable"])
  /\ UNCHANGED <<tables, party, today>>

UpdateUsable(r) ==
  /\ At(r, "event-update", "usable")
  /\ request[r].sponsor \in Parties => Usable(request[r].sponsor)
  /\ Remember(r, [request[r] EXCEPT !.pc = "write"])
  /\ UNCHANGED <<tables, party, today>>

UpdateWrite(r) ==
  /\ At(r, "event-update", "write")
  /\ LET m == request[r]
         Row(e) == [event[e] EXCEPT !.date = IF m.date = Null THEN @ ELSE m.date,
                                    !.sponsor = IF m.sponsor = Unsaid THEN @ ELSE m.sponsor]
     IN /\ m.id \in Events
        /\ EventMayBecome(m.id, Row(m.id), m.sponsor # Unsaid)
        /\ event' = [event EXCEPT ![m.id] = Row(m.id)]
  /\ Finish(r)
  /\ UNCHANGED <<type, slot, assigned, party, today>>

HasHappened(e) == event[e].date <= today

\* setCompleted
CompleteLoad(r) ==
  /\ \E e \in Events :
       /\ ~event[e].completed => HasHappened(e)
       /\ Accept(r, [op |-> "event-complete", id |-> e, completed |-> ~event[e].completed, pc |-> "write"])
  /\ UNCHANGED <<tables, party, today>>

CompleteWrite(r) ==
  /\ At(r, "event-complete", "write")
  /\ request[r].id \in Events
  /\ event' = [event EXCEPT ![request[r].id].completed = request[r].completed]
  /\ Finish(r)
  /\ UNCHANGED <<type, slot, assigned, party, today>>

Removable(e) == ~event[e].cited

\* remove
RemoveCount(r) ==
  /\ \E e \in Events : Removable(e) /\ Accept(r, [op |-> "event-remove", id |-> e, pc |-> "write"])
  /\ UNCHANGED <<tables, party, today>>

RemoveWrite(r) ==
  /\ At(r, "event-remove", "write")
  /\ request[r].id \in Events
  /\ event' = [event EXCEPT ![request[r].id] = Removed]
  /\ Finish(r)
  /\ UNCHANGED <<type, slot, assigned, party, today>>

EventMemory ==
  [op : {"event-create"}, slot : SlotIds, date : Dates, sponsor : Parties \cup {Null},
   pc : {"free", "standing", "usable", "write"}]
  \cup [op : {"event-update"}, id : EventIds, slot : SlotIds, date : Dates \cup {Null},
        sponsor : Named, pc : {"free", "usable", "write"}]
  \cup [op : {"event-complete"}, id : EventIds, completed : BOOLEAN, pc : {"write"}]
  \cup [op : {"event-remove"}, id : EventIds, pc : {"write"}]

EventsNext ==
  \E r \in Requests :
    \/ CreateResolve(r) \/ CreateFree(r) \/ CreateStanding(r) \/ CreateUsable(r) \/ CreateWrite(r)
    \/ UpdateLoad(r) \/ UpdateFree(r) \/ UpdateUsable(r) \/ UpdateWrite(r)
    \/ CompleteLoad(r) \/ CompleteWrite(r) \/ RemoveCount(r) \/ RemoveWrite(r)
=============================================================================
