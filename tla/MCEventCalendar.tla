--------------------------- MODULE MCEventCalendar ---------------------------
(* Model-checking instance of EventCalendar, with a history: were two handlers   *)
(* ever in flight at once, was one ever stopped in syncSlots.                    *)
EXTENDS EventCalendar, TLC

VARIABLES overlapped, interrupted

(* The handlers in the middle of syncSlots *)
Resizing == {r \in Requests : request[r].pc \in {"delete", "find", "create"}}

(* A handler of one statement lands while another is in flight. *)
MeanwhileAtOnce ==
  /\ \E r \in Requests : request[r] # Idle
  /\ request' = request /\ <<tables, party>>' # <<tables, party>>

MCInit == Init /\ overlapped = FALSE /\ interrupted = FALSE
MCNext ==
  /\ Next
  /\ overlapped' = (overlapped \/ MeanwhileAtOnce
        \/ \E r, s \in Requests : r # s /\ request'[r] # Idle /\ request'[s] # Idle)
  /\ interrupted' = (interrupted \/ \E r \in Resizing : Abort(r) /\ ~SyncFind(r))
MCSpec == MCInit /\ [][MCNext]_<<vars, overlapped, interrupted>>

\* As long as handlers follow one another and none was stopped in syncSlots, slots and
\* number agree.  (EventTypesService.update.)
SlotsMatchUntilOverlap == ~overlapped /\ ~interrupted /\ Resizing = {} => SlotsMatchType

\* However handlers overlap, collection takes no sponsor; as long as they follow one
\* another and none was stopped in syncSlots, no sponsor is lost.
\* (sponsor_suits_funding, assertNoSlotsBeyond.)
SponsorsUntilOverlap ==
  [][CollectionTakesNoSponsor /\ (~overlapped' /\ ~interrupted' => SponsorsAreKept)]_vars

\* No change of the type takes a sponsor with it, whatever overlaps and stops.  (The
\* comment on assertNoSlotsBeyond.)
SponsorsKept == [][SponsorsAreKept]_vars

\* As long as handlers follow one another, what is complete has happened and stands, what
\* is cited stays and the retired are free.  (setCompleted, update, remove,
\* parties.update.)
OccurrencesUntilOverlap ==
  [][~overlapped' => CompletedHasHappened' /\ CompletedStands /\ CitedIsKept /\ RetiredIsFree]_vars

(* Bound: handlers that overlap are followed to their end, no third one begins, and *)
(* nothing comes after.                                                             *)
TwoOverlap ==
  overlapped =>
    /\ \E r \in Requests : request[r] # Idle
    /\ \A r \in Requests : request[r] = Idle => request'[r] = Idle

Symmetry == Permutations(Requests) \cup Permutations(Parties)
=============================================================================
