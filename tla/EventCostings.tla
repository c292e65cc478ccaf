---------------------------- MODULE EventCostings ----------------------------
(***************************************************************************)
(* The costings of one event type: EventCostingsService over               *)
(* event_costings, with the constraints of its migrations, and the         *)
(* resolution rules of costing-resolution.ts.                              *)
(*                                                                         *)
(* A scope is a slot the type has or TypeWide; a slot dropped by a change  *)
(* of the type takes its costings with it.  The lines of a costing are     *)
(* NoLines or a member of Charges; quote is the set of lines its           *)
(* sponsorAmount was added up from.  Time is counted in instants, three to *)
(* a temple day: a date names the first, the start of the day in Colombo,  *)
(* and the clock is read in the others, before and after midnight UTC,     *)
(* never twice in one.  Notes are left out, and so is the refusal of a     *)
(* draft equal to the version in force, which they decide.                 *)
(*                                                                         *)
(* MaxId and MaxDay bound the rows drawn and the days that pass, NamedDays *)
(* the days a start may be named on.                                       *)
(***************************************************************************)
EXTENDS Naturals, FiniteSets

CONSTANTS Slots, TypeWide, Charges, NoLines, Null, Requests, NamedDays, MaxId, MaxDay

ASSUME BoundsAssumption == MaxId \in Nat /\ MaxDay \in Nat /\ NamedDays \subseteq 0..MaxDay
ASSUME TypeWideAssumption == TypeWide \notin Slots
ASSUME NoLinesAssumption == NoLines \notin Charges
ASSUME NullAssumption == Null \notin Nat \cup Slots \cup Charges \cup {TypeWide, NoLines}

VARIABLES costing, slots, request, now

vars == <<costing, slots, request, now>>

Ids == 1..MaxId
Days == 0..MaxDay
Instants == 0..(3 * MaxDay + 4)
Scopes == Slots \cup {TypeWide}
Lines == Charges \cup {NoLines}

Idle == [op |-> "none", pc |-> "idle"]

\* An id is drawn once: a removed row leaves its id behind.
Unborn == [status |-> "unborn"]
Removed == [status |-> "removed"]
Rows(table) == {i \in Ids : table[i] \notin {Unborn, Removed}}
Stored(i) == i \in Rows(costing)

CostingRow ==
  [scope: Scopes, status: {"draft", "in-force", "superseded"}, versionNo: 1..(MaxId + 1) \cup {Null},
   from: Instants \cup {Null}, to: Instants \cup {Null}, lines: Lines, quote: Lines]

Draft(scope, from, lines) ==
  [scope |-> scope, status |-> "draft", versionNo |-> Null, from |-> from, to |-> Null,
   lines |-> lines, quote |-> lines]

\* asDate: a named start is the start of the day.
Starts == {3 * d : d \in NamedDays} \cup {Null}

-----------------------------------------------------------------------------
(* What PostgreSQL enforces *)

\* tstzrange(from, to, '[)'): Null is no bound, and from = to is empty.
EmptyPeriod(c) == c.from # Null /\ c.from = c.to
EndsBefore(c, d) == c.to # Null /\ d.from # Null /\ c.to <= d.from

\* Mutant: a row without a start is outside the exclusion.
BugPeriodsMeetIn(c, d) ==
  c.from # Null /\ d.from # Null /\ ~EmptyPeriod(c) /\ ~EmptyPeriod(d)
  /\ ~EndsBefore(c, d) /\ ~EndsBefore(d, c)

PeriodsMeetIn(c, d) ==
  ~EmptyPeriod(c) /\ ~EmptyPeriod(d) /\ ~EndsBefore(c, d) /\ ~EndsBefore(d, c)

RowIsLawful(c) ==
  /\ (c.from # Null /\ c.to # Null) => c.to >= c.from
  /\ (c.to = Null) <=> (c.status # "superseded")
  /\ (c.status = "draft") <=> (c.versionNo = Null)

\* The CHECKs, the unique version numbers and one_costing_per_scope_at_a_time.
Lawful(table) ==
  LET applied == {i \in Rows(table) : table[i].status # "draft"}
  IN /\ \A i \in Rows(table) : RowIsLawful(table[i])
     /\ \A i, j \in applied : i # j /\ table[i].scope = table[j].scope =>
          /\ table[i].versionNo # table[j].versionNo
          /\ ~PeriodsMeetIn(table[i], table[j])

-----------------------------------------------------------------------------
(* Resolution *)

\* Mutant: the days of UTC.
BugCovers(c, day) ==
  /\ c.from # Null => c.from < 3 * day + 5
  /\ c.to # Null => c.to > 3 * day + 1

Covers(c, day) ==
  /\ c.from # Null => c.from < 3 * day + 3
  /\ c.to # Null => c.to > 3 * day

\* An open start is the earliest; the higher id breaks a tie.
StartsLater(i, j) ==
  LET a == costing[i].from  b == costing[j].from
  IN IF a = b THEN i > j ELSE a # Null /\ (b = Null \/ a > b)

Applied(i) == Stored(i) /\ costing[i].status # "draft"
Version(scope, i) == Applied(i) /\ costing[i].scope = scope
Candidates(scope, day) == {i \in Ids : Version(scope, i) /\ Covers(costing[i], day)}
MostRecent(S) == CHOOSE i \in S : \A j \in S \ {i} : StartsLater(i, j)

\* resolveCosting: the slot's own version beats the type-wide one.
Resolve(slot, day) ==
  LET own == Candidates(slot, day)  wide == Candidates(TypeWide, day)
  IN CASE own # {} -> MostRecent(own)
       [] own = {} /\ wide # {} -> MostRecent(wide)
       [] OTHER -> Null

-----------------------------------------------------------------------------
(* Requests *)

Served == \E r \in Requests : request[r] = Idle
Accept(r, memory) == request[r] = Idle /\ request' = [request EXCEPT ![r] = memory]
At(r, op, pc) == request[r].op = op /\ request[r].pc = pc
Remember(r, memory) == request' = [request EXCEPT ![r] = memory]
Finish(r) == Remember(r, Idle)

\* The scope is a foreign key.
Insert(row) ==
  /\ row.scope \in slots \cup {TypeWide}
  /\ \E i \in Ids :
       /\ costing[i] = Unborn /\ \A j \in 1..(i - 1) : costing[j] # Unborn
       /\ costing' = [costing EXCEPT ![i] = row]

\* create: a draft, its start as named.
Create ==
  /\ Served
  /\ \E scope \in Scopes, from \in Starts, lines \in Lines : Insert(Draft(scope, from, lines))
  /\ UNCHANGED <<slots, request, now>>

\* copy: the lines are those of the source as loaded.
CopyLoad(r) ==
  /\ \E i \in Ids : Stored(i) /\ Accept(r, [op |-> "copy", pc |-> "write", lines |-> costing[i].lines])
  /\ UNCHANGED <<costing, slots, now>>

CopyWrite(r) ==
  /\ At(r, "copy", "write")
  /\ \E scope \in Scopes, from \in Starts : Insert(Draft(scope, from, request[r].lines))
  /\ Finish(r)
  /\ UNCHANGED <<slots, now>>

-----------------------------------------------------------------------------
(* update *)

EditedInPlace(c) == c.status = "draft"

\* The quote is added up from the lines given, or from those just loaded.
UpdateLoad(r) ==
  /\ \E i \in Ids :
       /\ Stored(i) /\ costing[i].status # "superseded"
       /\ \E given \in Lines \cup {Null} :
            Accept(r, [op |-> "update", id |-> i, scope |-> costing[i].scope, given |-> given,
                       lines |-> IF given = Null THEN costing[i].lines ELSE given,
                       pc |-> IF EditedInPlace(costing[i]) THEN "rewrite" ELSE "find"])
  /\ UNCHANGED <<costing, slots, now>>

Rewrite(i, m) ==
  costing' = [costing EXCEPT ![i].quote = m.lines,
                             ![i].lines = IF m.given = Null THEN @ ELSE m.given]

UpdateRewrite(r) ==
  /\ At(r, "update", "rewrite")
  /\ Stored(request[r].id)
  /\ Rewrite(request[r].id, request[r])
  /\ Finish(r)
  /\ UNCHANGED <<slots, now>>

\* findFirst among the drafts of the scope.
UpdateFind(r) ==
  /\ At(r, "update", "find")
  /\ LET m == request[r]
         drafts == {i \in Ids : Stored(i) /\ costing[i].scope = m.scope /\ costing[i].status = "draft"}
     IN \E i \in (IF drafts = {} THEN {Null} ELSE drafts) :
          Remember(r, [m EXCEPT !.id = i, !.given = m.lines, !.pc = "draft"])
  /\ UNCHANGED <<costing, slots, now>>

\* The scope's draft is rewritten, or its first one created.
UpdateDraft(r) ==
  /\ At(r, "update", "draft")
  /\ LET m == request[r]
     IN IF m.id = Null THEN Insert(Draft(m.scope, Null, m.lines))
        ELSE Stored(m.id) /\ Rewrite(m.id, m)
  /\ Finish(r)
  /\ UNCHANGED <<slots, now>>

-----------------------------------------------------------------------------
(* apply *)

ApplyLoad(r) ==
  /\ \E i \in Ids :
       /\ Stored(i) /\ costing[i].status = "draft" /\ costing[i].lines # NoLines
       /\ Accept(r, [op |-> "apply", pc |-> "predecessor", id |-> i, scope |-> costing[i].scope,
                     from |-> costing[i].from, pred |-> Null, versionNo |-> Null, at |-> Null])
  /\ UNCHANGED <<costing, slots, now>>

InForce(scope) == {i \in Ids : Version(scope, i) /\ costing[i].status = "in-force"}

ApplyPredecessor(r) ==
  /\ At(r, "apply", "predecessor")
  /\ LET m == request[r]
     IN \E i \in (IF InForce(m.scope) = {} THEN {Null} ELSE InForce(m.scope)) :
          Remember(r, [m EXCEPT !.pred = i, !.pc = "count"])
  /\ UNCHANGED <<costing, slots, now>>

\* Mutant: drafts are counted too.
BugAppliedCount(scope) == Cardinality({i \in Rows(costing) : costing[i].scope = scope})

AppliedCount(scope) == Cardinality({i \in Ids : Version(scope, i)})

\* A clock reading; none is read twice.
Stamp == now' = (IF now % 3 = 1 THEN now + 1 ELSE now + 2) /\ now < 3 * MaxDay + 3

\* The number is the count plus one.  The instant is read after the last await
\* before the transaction: here when there is no version to compare with.
ApplyCount(r) ==
  /\ At(r, "apply", "count")
  /\ LET m == [request[r] EXCEPT !.versionNo = AppliedCount(request[r].scope) + 1]
     IN IF m.pred = Null
        THEN Stamp /\ Remember(r, [m EXCEPT !.at = now, !.pc = "write"])
        ELSE UNCHANGED now /\ Remember(r, [m EXCEPT !.pc = "compare"])
  /\ UNCHANGED <<costing, slots>>

\* matches loads the predecessor again, which must still be there.
ApplyCompare(r) ==
  /\ At(r, "apply", "compare")
  /\ Stored(request[r].pred)
  /\ Stamp
  /\ Remember(r, [request[r] EXCEPT !.at = now, !.pc = "write"])
  /\ UNCHANGED <<costing, slots>>

\* The two updates of the transaction, each judged by the constraints.
Closed(m) ==
  IF m.pred = Null THEN costing
  ELSE [costing EXCEPT ![m.pred].to = m.at, ![m.pred].status = "superseded"]

\* A first version has always applied, unless a start was named.
Start(m) == IF m.pred # Null /\ m.from = Null THEN m.at ELSE m.from

ApplyWrite(r) ==
  /\ At(r, "apply", "write")
  /\ LET m == request[r]
         opened == [Closed(m) EXCEPT ![m.id].from = Start(m), ![m.id].status = "in-force",
                                     ![m.id].versionNo = m.versionNo]
     IN /\ Stored(m.id) /\ (m.pred # Null => Stored(m.pred))
        /\ Lawful(Closed(m)) /\ Lawful(opened)
        /\ costing' = opened
  /\ Finish(r)
  /\ UNCHANGED <<slots, now>>

-----------------------------------------------------------------------------
(* remove *)

Removable(c) == c.status = "draft" \/ c.lines = NoLines

RemoveLoad(r) ==
  /\ \E i \in Rows(costing) :
       Removable(costing[i]) /\ Accept(r, [op |-> "remove", pc |-> "write", id |-> i])
  /\ UNCHANGED <<costing, slots, now>>

RemoveWrite(r) ==
  /\ At(r, "remove", "write")
  /\ Stored(request[r].id)
  /\ costing' = [costing EXCEPT ![request[r].id] = Removed]
  /\ Finish(r)
  /\ UNCHANGED <<slots, now>>

\* A check throws, a statement is refused or the process stops.
Abort(r) ==
  /\ request[r] # Idle
  /\ Finish(r)
  /\ UNCHANGED <<costing, slots, now>>

\* A change of the type drops a slot: ON DELETE CASCADE.
DropSlot ==
  /\ \E slot \in slots :
       /\ slots' = slots \ {slot}
       /\ costing' = [i \in Ids |-> IF Stored(i) /\ costing[i].scope = slot THEN Removed ELSE costing[i]]
  /\ UNCHANGED <<request, now>>

Tick == Stamp /\ UNCHANGED <<costing, slots, request>>

-----------------------------------------------------------------------------

Memory ==
  {Idle}
  \cup [op : {"copy"}, pc : {"write"}, lines : Lines]
  \cup [op : {"update"}, pc : {"rewrite", "find", "draft"}, id : Ids \cup {Null},
        scope : Scopes, given : Lines \cup {Null}, lines : Lines]
  \cup [op : {"apply"}, pc : {"predecessor", "count", "compare", "write"}, id : Ids,
        scope : Scopes, from : Instants \cup {Null}, pred : Ids \cup {Null},
        versionNo : 1..(MaxId + 1) \cup {Null}, at : Instants \cup {Null}]
  \cup [op : {"remove"}, pc : {"write"}, id : Ids]

Init ==
  /\ costing = [i \in Ids |-> Unborn]
  /\ slots = Slots
  /\ request = [r \in Requests |-> Idle]
  /\ now = 1

Next ==
  \/ Create \/ Tick \/ DropSlot
  \/ \E r \in Requests :
       \/ CopyLoad(r) \/ CopyWrite(r)
       \/ UpdateLoad(r) \/ UpdateRewrite(r) \/ UpdateFind(r) \/ UpdateDraft(r)
       \/ ApplyLoad(r) \/ ApplyPredecessor(r) \/ ApplyCount(r) \/ ApplyCompare(r) \/ ApplyWrite(r)
       \/ RemoveLoad(r) \/ RemoveWrite(r)
       \/ Abort(r)

Spec == Init /\ [][Next]_vars

-----------------------------------------------------------------------------
(* Properties *)

\* The shape of the table, of the memories and of the clock.
TypeOK ==
  /\ costing \in [Ids -> CostingRow \cup {Unborn, Removed}]
  /\ slots \subseteq Slots
  /\ request \in [Requests -> Memory]
  /\ now \in Instants

\* However applications, edits and removals overlap, no two versions tie for a
\* day: the one that prices it does not hang on the order of ids.  (The comment
\* above mostRecent.)
NoTies ==
  \A scope \in Scopes, day \in Days : \A i, j \in Candidates(scope, day) :
    costing[i].from = costing[j].from => i = j

Versions(scope) == {i \in Ids : Version(scope, i)}

\* The versions of a scope are numbered 1, 2, 3 in the order of their periods, and
\* one begins where the one before it ended unless its start was named.  (apply.)
VersionsAreChained ==
  \A scope \in Scopes :
    LET S == Versions(scope)
    IN /\ {costing[i].versionNo : i \in S} = 1..Cardinality(S)
       /\ \A i, j \in S : costing[j].versionNo = costing[i].versionNo + 1 =>
            /\ costing[i].to # Null /\ costing[j].from # Null
            /\ \/ costing[j].from = costing[i].to
               \/ costing[j].from \in Starts /\ costing[j].from > costing[i].to

\* One instant ends a version and starts the next: the periods meet with no gap.
\* (The comment above that instant in apply.)
PeriodsMeet ==
  \A scope \in Scopes : \A i \in Versions(scope) : costing[i].to # Null =>
    \E j \in Versions(scope) \ {i} : costing[j].from = costing[i].to

\* The quote of a costing is what its lines come to.  (chargedTotal: always
\* derived from the charged lines.)
QuoteMatchesLines == \A i \in Rows(costing) : costing[i].quote = costing[i].lines

\* A costing that was put into force keeps its figures, and is kept while its
\* slot is.  (remove, and the comment above update.)
AppliedIsKept ==
  \A i \in Ids : Applied(i) /\ costing[i].scope \in slots' \cup {TypeWide} =>
    /\ costing'[i] \notin {Unborn, Removed}
    /\ costing'[i].lines = costing[i].lines
    /\ costing'[i].quote = costing[i].quote
    /\ costing'[i].versionNo = costing[i].versionNo

\* A day that is over keeps the version that priced it, unless that version was
\* ended by a clock read before the day was over; but for a slot that was priced by
\* the whole type and gets the first version of its own.  (applicableTo, which
\* budgets read.)
PastPricesStand ==
  \A slot \in Slots, day \in Days :
    LET i == Resolve(slot, day)
    IN (3 * day + 3 <= now /\ i # Null /\ slot \in slots') =>
         \/ Resolve(slot, day)' = i
         \/ costing'[i].to \in 0..(3 * day + 2)
         \/ costing[i].scope = TypeWide /\ Versions(slot) = {}
=============================================================================
