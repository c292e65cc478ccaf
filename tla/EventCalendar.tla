---------------------------- MODULE EventCalendar ----------------------------
(***************************************************************************)
(* The calendar of one event type: EventTypesService, EventSponsorsService *)
(* and EventsService over the tables of Calendar, with parties retiring,   *)
(* vouchers naming occurrences and days passing.                           *)
(***************************************************************************)
EXTENDS EventTypes, EventSponsors, Events

Memory == {Idle} \cup TypeMemory \cup SponsorMemory \cup EventMemory

Init == CalendarInit

Next ==
  \/ TypesNext \/ SponsorsNext \/ EventsNext
  \/ Cite \/ Midnight
  \/ \E r \in Requests : Abort(r)

Spec == Init /\ [][Next]_vars

\* The shape of the tables and of the memories.
TypeOK ==
  /\ type \in TypeRow \cup Absent
  /\ slot \in [SlotIds -> SlotRow \cup Absent]
  /\ assigned \in [AssignedIds -> AssignedRow \cup Absent]
  /\ event \in [EventIds -> EventRow \cup Absent]
  /\ party \in [Parties -> [active : BOOLEAN, member : BOOLEAN]]
  /\ today \in Dates
  /\ request \in [Requests -> Memory]

\* However grows and shrinks, calendaring and moving overlap: the tables keep their
\* shape, a type has a slot of one number once, a slot one occurrence a year and a
\* party once, and whatever hangs on a slot or on the type finds it there.  (syncSlots, assertFreeThatYear,
\* assertNotDuplicate.)
CalendarHolds ==
  /\ TypeOK
  /\ \A s, t \in Slots : slot[s].instance = slot[t].instance => s = t
  /\ \A e, f \in Events : event[e].slot = event[f].slot /\ Year(event[e].date) = Year(event[f].date) => e = f
  /\ \A a, b \in Assigned : assigned[a] = assigned[b] => a = b
  /\ \A e \in Events : event[e].slot \in Slots
  /\ \A a \in Assigned : assigned[a].slot \in Slots
  /\ Slots # {} => HasType

\* The slots of a type are numbered 1 to its number of instances.  (syncSlots: sync
\* slots to the count.)
SlotsMatchType == HasType => {slot[s].instance : s \in Slots} = 1..type.n

\* A change of the number of instances takes no standing sponsor with it.
\* (assertNoSlotsBeyond: shrinking would orphan sponsors and events.)
SponsorsAreKept ==
  \A a \in Assigned : a \notin Assigned' /\ HasType' => assigned[a].slot \in Slots'

\* While a type is funded by collection no occurrence of it gains a named sponsor,
\* and no slot a standing one.  (sponsor_suits_funding, resolveSlotId.)
CollectionTakesNoSponsor ==
  HasType /\ type.funding = "general" =>
    /\ \A e \in Events' : event'[e].sponsor # Null => e \in Events /\ event[e].sponsor = event'[e].sponsor
    /\ \A a \in Assigned' : a \in Assigned /\ assigned[a] = assigned'[a]

\* A type funded by collection never carries a named sponsor.  (The comment on
\* EventType.funding in the schema.)
GeneralHasNoSponsor ==
  HasType /\ type.funding = "general" => \A e \in Events : event[e].sponsor = Null

\* What is marked complete has happened.  (setCompleted.)
CompletedHasHappened == \A e \in Events : event[e].completed => event[e].date <= today

\* A completed occurrence is neither moved nor given to another sponsor until it is
\* reopened.  (update.)
CompletedStands ==
  \A e \in Events : event[e].completed /\ e \in Events' =>
    event'[e].date = event[e].date /\ event'[e].sponsor = event[e].sponsor

\* An occurrence a voucher names stays on the calendar.  (remove.)
CitedIsKept == \A e \in Events : event[e].cited => e \in Events'

\* A party is retired with nothing standing or awaited in its name, and from then on
\* nothing is newly put in it.  (assertNothingDependsOnIt, assertSponsorIsUsable,
\* assertPartyIsUsable.)
RetiredIsFree ==
  \A p \in Parties : ~party'[p].active =>
    /\ party[p].active => Standing(p) = {} /\ Awaiting(p) = {}
    /\ \A a \in Assigned' : assigned'[a].party = p => a \in Assigned /\ assigned[a].party = p
    /\ \A e \in Events' : event'[e].sponsor = p => e \in Events /\ event[e].sponsor = p
=============================================================================
