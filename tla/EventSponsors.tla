--------------------------- MODULE EventSponsors -----------------------------
(***************************************************************************)
(* EventSponsorsService: who takes a slot every year.  And the two ways a  *)
(* party stops being asked: PartiesService deactivates it,                 *)
(* SponsorsService ends its membership.                                    *)
(***************************************************************************)
EXTENDS Calendar

\* resolveSlotId; without an instance, the first.
SlotOf(instance) == {s \in Slots : slot[s].instance = instance}

\* create begins with the slot, update with the row and the party.
AssignResolve(r) ==
  /\ HasType /\ type.funding # "general"
  /\ \E instance \in Instances, p \in Parties : \E s \in SlotOf(instance) :
       Accept(r, [op |-> "assign", id |-> Null, slot |-> s, instance |-> instance, party |-> p, pc |-> "usable"])
  /\ UNCHANGED <<tables, party, today>>

ReassignLoad(r) ==
  /\ \E a \in Assigned, instance \in Instances \cup {Null}, p \in Parties \cup {Null} :
       Accept(r, [op |-> "assign", id |-> a, slot |-> assigned[a].slot,
                  instance |-> IF instance = Null THEN slot[assigned[a].slot].instance ELSE instance,
                  party |-> IF p = Null THEN assigned[a].party ELSE p,
                  pc |-> IF p = Null THEN "resolve" ELSE "usable"])
  /\ UNCHANGED <<tables, party, today>>

MaySponsor(p) == p.active /\ p.member

AssignUsable(r) ==
  /\ At(r, "assign", "usable")
  /\ MaySponsor(party[request[r].party])
  /\ Remember(r, [request[r] EXCEPT !.pc = IF request[r].id = Null THEN "distinct" ELSE "resolve"])
  /\ UNCHANGED <<tables, party, today>>

ReassignResolve(r) ==
  /\ At(r, "assign", "resolve")
  /\ HasType /\ type.funding # "general"
  /\ \E s \in SlotOf(request[r].instance) :
       Remember(r, [request[r] EXCEPT !.slot = s, !.pc = "distinct"])
  /\ UNCHANGED <<tables, party, today>>

Arrangement(m) == [slot |-> m.slot, party |-> m.party]

AssignDistinct(r) ==
  /\ At(r, "assign", "distinct")
  /\ \A b \in Assigned \ {request[r].id} : assigned[b] # Arrangement(request[r])
  /\ Remember(r, [request[r] EXCEPT !.pc = "write"])
  /\ UNCHANGED <<tables, party, today>>

AssignWrite(r) ==
  /\ At(r, "assign", "write")
  /\ LET m == request[r]
     IN \E a \in AssignedIds :
          /\ IF m.id = Null THEN IsNext(assigned, a) ELSE a = m.id /\ a \in Assigned
          /\ AssignedMayBe(a, Arrangement(m))
          /\ assigned' = [assigned EXCEPT ![a] = Arrangement(m)]
  /\ Finish(r)
  /\ UNCHANGED <<type, slot, event, party, today>>

\* remove
Unassign ==
  /\ AtOnce("unassign")
  /\ \E a \in Assigned : assigned' = [assigned EXCEPT ![a] = Removed]
  /\ UNCHANGED <<type, slot, event, party, today>>

\* PartiesService.assertNothingDependsOnIt: counts in any order.
RetireLoad(r) ==
  /\ \E p \in Parties :
       Accept(r, [op |-> "retire", party |-> p, counts |-> {"standing", "occurrences"}, pc |-> "check"])
  /\ UNCHANGED <<tables, party, today>>

Standing(p) == {a \in Assigned : assigned[a].party = p}
Awaiting(p) == {e \in Events : event[e].sponsor = p /\ ~event[e].completed}

\* Mutant: occurrences are not counted.
BugStillNamed(p, count) == IF count = "standing" THEN Standing(p) # {} ELSE FALSE

StillNamed(p, count) == IF count = "standing" THEN Standing(p) # {} ELSE Awaiting(p) # {}

RetireCount(r) ==
  /\ At(r, "retire", "check")
  /\ \E count \in request[r].counts :
       /\ ~StillNamed(request[r].party, count)
       /\ Remember(r, [request[r] EXCEPT !.counts = @ \ {count}])
  /\ UNCHANGED <<tables, party, today>>

RetireWrite(r) ==
  /\ At(r, "retire", "check") /\ request[r].counts = {}
  /\ party' = [party EXCEPT ![request[r].party].active = FALSE]
  /\ Finish(r)
  /\ UNCHANGED <<tables, today>>

Reinstate ==
  /\ AtOnce("reinstate")
  /\ \E p \in Parties : party' = [party EXCEPT ![p].active = TRUE]
  /\ UNCHANGED <<tables, today>>

\* SponsorsService.update: the membership alone, unconditionally.
SetMembership ==
  /\ AtOnce("membership")
  /\ \E p \in Parties, member \in BOOLEAN : party' = [party EXCEPT ![p].member = member]
  /\ UNCHANGED <<tables, today>>

SponsorMemory ==
  [op : {"assign"}, id : AssignedIds \cup {Null}, slot : SlotIds, instance : Instances,
   party : Parties, pc : {"usable", "resolve", "distinct", "write"}]
  \cup [op : {"retire"}, party : Parties, counts : SUBSET {"standing", "occurrences"}, pc : {"check"}]

SponsorsNext ==
  \/ Unassign \/ Reinstate \/ SetMembership
  \/ \E r \in Requests :
       \/ AssignResolve(r) \/ ReassignLoad(r) \/ AssignUsable(r) \/ ReassignResolve(r)
       \/ AssignDistinct(r) \/ AssignWrite(r)
       \/ RetireLoad(r) \/ RetireCount(r) \/ RetireWrite(r)
=============================================================================
