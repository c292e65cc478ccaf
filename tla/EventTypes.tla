----------------------------- MODULE EventTypes ------------------------------
(***************************************************************************)
(* EventTypesService: one type, its number of instances, and the slots     *)
(* kept in step with it.                                                   *)
(***************************************************************************)
EXTENDS Calendar

\* create: the type and its slots in one statement.
CreateType ==
  /\ AtOnce("type-create")
  /\ type = Unborn
  /\ \E n \in Instances \cap SlotIds, funding \in Funding :
       /\ type' = [n |-> n, funding |-> funding]
       /\ slot' = [s \in SlotIds |-> IF s <= n THEN [instance |-> s, active |-> TRUE] ELSE Unborn]
  /\ UNCHANGED <<assigned, event, party, today>>

\* updateSlot: retire a slot, or take it into use again.
UpdateSlot ==
  /\ AtOnce("slot-update")
  /\ \E s \in Slots, active \in BOOLEAN : slot' = [slot EXCEPT ![s].active = active]
  /\ UNCHANGED <<type, assigned, event, party, today>>

Beyond(n) == {s \in Slots : slot[s].instance > n}

\* Mutant: growing is checked instead.
BugShrinks(n) == n # Null /\ n > type.n

Shrinks(n) == n # Null /\ n < type.n
Resizes(n) == n # Null /\ n # type.n

\* update
TypeLoad(r) ==
  /\ HasType
  /\ \E n \in Instances \cup {Null}, funding \in Funding \cup {Null} :
       Accept(r, [op |-> "type-update", n |-> n, funding |-> funding, resize |-> Resizes(n),
                  counts |-> IF Shrinks(n) THEN {"sponsors", "events"} ELSE {},
                  missing |-> {}, pc |-> "check"])
  /\ UNCHANGED <<tables, party, today>>

\* assertNoSlotsBeyond: two counts in any order.
CountBeyond(r) ==
  /\ At(r, "type-update", "check")
  /\ \E count \in request[r].counts :
       /\ LET gone == Beyond(request[r].n)
          IN IF count = "sponsors" THEN \A a \in Assigned : assigned[a].slot \notin gone
             ELSE \A e \in Events : event[e].slot \notin gone
       /\ Remember(r, [request[r] EXCEPT !.counts = @ \ {count}])
  /\ UNCHANGED <<tables, party, today>>

TypeWrite(r) ==
  /\ At(r, "type-update", "check") /\ request[r].counts = {}
  /\ HasType
  /\ LET m == request[r]
     IN /\ type' = [n |-> IF m.n = Null THEN type.n ELSE m.n,
                    funding |-> IF m.funding = Null THEN type.funding ELSE m.funding]
        /\ IF m.resize THEN Remember(r, [m EXCEPT !.pc = "delete"]) ELSE Finish(r)
  /\ UNCHANGED <<slot, assigned, event, party, today>>

\* syncSlots: surplus slots out, then the missing ones in.
SyncDelete(r) ==
  /\ At(r, "type-update", "delete")
  /\ DropSlots(Beyond(request[r].n))
  /\ Remember(r, [request[r] EXCEPT !.pc = "find"])
  /\ UNCHANGED <<type, event, party, today>>

\* Mutant: the last instance is forgotten.
BugMissing(n) == 1..(n - 1) \ {slot[s].instance : s \in Slots}

Missing(n) == 1..n \ {slot[s].instance : s \in Slots}

SyncFind(r) ==
  /\ At(r, "type-update", "find")
  /\ LET missing == Missing(request[r].n)
     IN IF missing = {} THEN Finish(r)
        ELSE Remember(r, [request[r] EXCEPT !.pc = "create", !.missing = missing])
  /\ UNCHANGED <<tables, party, today>>

\* createMany, skipDuplicates: an instance that came to be meanwhile is passed over.
SyncCreate(r) ==
  /\ At(r, "type-update", "create")
  /\ HasType
  /\ LET new == request[r].missing \ {slot[s].instance : s \in Slots}
         drawn == Cardinality({s \in SlotIds : slot[s] # Unborn})
         Rank(i) == drawn + Cardinality({j \in new : j <= i})
     IN /\ drawn + Cardinality(new) <= MaxSlot
        /\ slot' = [s \in SlotIds |->
             IF \E i \in new : Rank(i) = s
             THEN [instance |-> CHOOSE i \in new : Rank(i) = s, active |-> TRUE]
             ELSE slot[s]]
  /\ Finish(r)
  /\ UNCHANGED <<type, assigned, event, party, today>>

\* remove: counted, then deleted with its slots.
TypeRemoveCount(r) ==
  /\ HasType
  /\ Events = {}
  /\ Accept(r, [op |-> "type-remove", pc |-> "write"])
  /\ UNCHANGED <<tables, party, today>>

TypeRemoveWrite(r) ==
  /\ At(r, "type-remove", "write")
  /\ HasType
  /\ DropSlots(Slots)
  /\ type' = Removed
  /\ Finish(r)
  /\ UNCHANGED <<event, party, today>>

TypeMemory ==
  [op : {"type-update"}, n : Instances \cup {Null}, funding : Funding \cup {Null}, resize : BOOLEAN,
   counts : SUBSET {"sponsors", "events"}, missing : SUBSET Instances,
   pc : {"check", "delete", "find", "create"}]
  \cup [op : {"type-remove"}, pc : {"write"}]

TypesNext ==
  \/ CreateType \/ UpdateSlot
  \/ \E r \in Requests :
       \/ TypeLoad(r) \/ CountBeyond(r) \/ TypeWrite(r)
       \/ SyncDelete(r) \/ SyncFind(r) \/ SyncCreate(r)
       \/ TypeRemoveCount(r) \/ TypeRemoveWrite(r)
=============================================================================
