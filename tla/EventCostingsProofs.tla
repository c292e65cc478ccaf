------------------------- MODULE EventCostingsProofs -------------------------
(***************************************************************************)
(* Proofs about the costings of an event type, for any slots, any number   *)
(* of costings and any number of handlers in flight: no two versions of a  *)
(* scope tie for a day; and until two handlers are in flight at once, the  *)
(* versions are chained, stand, and price the days that are over.          *)
(*                                                                         *)
(* The database keeps the periods of a scope apart, but an empty period    *)
(* meets nothing and still covers the day its instant falls on.  What      *)
(* rules it out is the clock: a version is ended at a reading that no      *)
(* version began at, since no two are read alike and a named start is the  *)
(* start of a day.                                                         *)
(***************************************************************************)
EXTENDS MCEventCostings, FiniteSetTheorems, WellFoundedInduction, TLAPS

CopyMemory == [op : {"copy"}, pc : {"write"}, lines : Lines]
UpdateMemory ==
  [op : {"update"}, pc : {"rewrite", "find", "draft"}, id : Ids \cup {Null},
   scope : Scopes, given : Lines \cup {Null}, lines : Lines]
ApplyMemory ==
  [op : {"apply"}, pc : {"predecessor", "count", "compare", "write"}, id : Ids,
   scope : Scopes, from : Instants \cup {Null}, pred : Ids \cup {Null},
   versionNo : 1..(MaxId + 1) \cup {Null}, at : Instants \cup {Null}]
RemoveMemory == [op : {"remove"}, pc : {"write"}, id : Ids]

\* A memory is of one of four kinds, told apart by its operation, or there is none.
LEMMA MemoryKinds ==
  ASSUME TypeOK, NEW r \in Requests
  PROVE  /\ request[r].op = "copy" => request[r] \in CopyMemory
         /\ request[r].op = "update" => request[r] \in UpdateMemory
         /\ request[r].op = "apply" => request[r] \in ApplyMemory
         /\ request[r].op = "remove" => request[r] \in RemoveMemory
  BY DEF TypeOK, Memory, Idle, CopyMemory, UpdateMemory, ApplyMemory, RemoveMemory

\* A costing that is stored has a row, and only such a one.
LEMMA StoredRow ==
  ASSUME NEW table \in [Ids -> CostingRow \cup {Unborn, Removed}], NEW i \in Ids
  PROVE  /\ i \in Rows(table) <=> table[i] \in CostingRow
         /\ i \in Rows(table) <=> table[i] \notin {Unborn, Removed}
         /\ CostingRow \cap {Unborn, Removed} = {}
  BY DEF Rows, CostingRow, Unborn, Removed

-----------------------------------------------------------------------------
(* The invariant *)

\* A start is a named one or a reading of the clock, and no version ends as it begins.
RowTimes(c) ==
  /\ c.from # Null /\ c.from % 3 # 0 => c.from < now
  /\ c.status = "draft" /\ c.from # Null => c.from % 3 = 0
  /\ c.to # Null => c.from # c.to

\* A reading an application holds is no row's start.
MemoryTimes(m) ==
  m.op = "apply" =>
    /\ m.from # Null => m.from % 3 = 0
    /\ m.pc = "write" => m.at # Null
    /\ m.at # Null =>
         m.at % 3 # 0 /\ m.at < now /\ \A i \in Rows(costing) : costing[i].from # m.at

ReadingsApart ==
  \A r, s \in Requests :
    r # s /\ request[r].op = "apply" /\ request[s].op = "apply" /\ request[r].at # Null =>
      request[r].at # request[s].at

CostingInv ==
  /\ TypeOK
  /\ now % 3 \in {1, 2}
  /\ Lawful(costing)
  /\ \A i \in Rows(costing) : RowTimes(costing[i])
  /\ \A r \in Requests : MemoryTimes(request[r])
  /\ ReadingsApart

\* Periods kept apart, none of them empty, do not tie.
LEMMA ApartDoNotTie == CostingInv => NoTies
<1> SUFFICES ASSUME CostingInv, NEW scope \in Scopes, NEW day \in Days,
                    NEW i \in Candidates(scope, day), NEW j \in Candidates(scope, day),
                    costing[i].from = costing[j].from, i # j
             PROVE  FALSE
  BY DEF NoTies
<1> DEFINE c == costing[i]
           d == costing[j]
<1>1. /\ i \in Rows(costing) /\ j \in Rows(costing)
      /\ c.status # "draft" /\ d.status # "draft" /\ c.scope = d.scope
  BY DEF Candidates, Version, Applied, Stored
<1>2. c \in CostingRow /\ d \in CostingRow
  BY <1>1, StoredRow DEF CostingInv, TypeOK, Rows
<1>3. RowIsLawful(c) /\ RowIsLawful(d) /\ ~PeriodsMeetIn(c, d) /\ RowTimes(c) /\ RowTimes(d)
  BY <1>1 DEF CostingInv, Lawful
<1>4. /\ c.from \in Instants \cup {Null} /\ c.to \in Instants \cup {Null}
      /\ d.from \in Instants \cup {Null} /\ d.to \in Instants \cup {Null}
  BY <1>2 DEF CostingRow
<1>5. Instants \subseteq Nat /\ Null \notin Nat
  BY NullAssumption DEF Instants
<1>6. ~EmptyPeriod(c) /\ ~EmptyPeriod(d)
  BY <1>3 DEF RowTimes, EmptyPeriod
<1>7. ASSUME EndsBefore(c, d) PROVE FALSE
  <2>1. c.to \in Nat /\ c.from \in Nat /\ c.to <= c.from
    BY <1>4, <1>5, <1>7 DEF EndsBefore
  <2>2. c.to >= c.from /\ c.from # c.to
    BY <1>3, <1>5, <2>1 DEF RowIsLawful, RowTimes
  <2> QED
    BY <2>1, <2>2
<1>8. ASSUME EndsBefore(d, c) PROVE FALSE
  <2>1. d.to \in Nat /\ d.from \in Nat /\ d.to <= d.from
    BY <1>4, <1>5, <1>8 DEF EndsBefore
  <2>2. d.to >= d.from /\ d.from # d.to
    BY <1>3, <1>5, <2>1 DEF RowIsLawful, RowTimes
  <2> QED
    BY <2>1, <2>2
<1> QED
  BY <1>3, <1>6, <1>7, <1>8 DEF PeriodsMeetIn

-----------------------------------------------------------------------------
(* The table *)

\* What the constraints look at.
SameTerms(c, d) ==
  /\ c.scope = d.scope /\ c.status = d.status /\ c.versionNo = d.versionNo
  /\ c.from = d.from /\ c.to = d.to

PlainDraft(c) ==
  /\ c.status = "draft" /\ c.versionNo = Null /\ c.to = Null
  /\ c.from # Null => c.from % 3 = 0

\* Rows with the same terms are lawful together, or not, and drafts always are.
LEMMA StaysLawful ==
  ASSUME NEW old, NEW new, Lawful(old),
         \A i \in Rows(new) :
           PlainDraft(new[i]) \/ (i \in Rows(old) /\ SameTerms(new[i], old[i]))
  PROVE  Lawful(new)
<1>1. ASSUME NEW i \in Rows(new) PROVE RowIsLawful(new[i])
  <2>1. CASE PlainDraft(new[i])
    BY <2>1 DEF PlainDraft, RowIsLawful
  <2>2. CASE i \in Rows(old) /\ SameTerms(new[i], old[i])
    <3>1. RowIsLawful(old[i])
      BY <2>2 DEF Lawful
    <3> QED
      BY <2>2, <3>1 DEF SameTerms, RowIsLawful
  <2> QED
    BY <1>1, <2>1, <2>2
<1>2. ASSUME NEW i \in Rows(new), NEW j \in Rows(new), i # j,
             new[i].status # "draft", new[j].status # "draft", new[i].scope = new[j].scope
      PROVE  new[i].versionNo # new[j].versionNo /\ ~PeriodsMeetIn(new[i], new[j])
  <2>1. i \in Rows(old) /\ SameTerms(new[i], old[i]) /\ j \in Rows(old) /\ SameTerms(new[j], old[j])
    BY <1>2 DEF PlainDraft
  <2>2. old[i].versionNo # old[j].versionNo /\ ~PeriodsMeetIn(old[i], old[j])
    BY <1>2, <2>1 DEF Lawful, SameTerms
  <2> QED
    BY <2>1, <2>2 DEF SameTerms, PeriodsMeetIn, EmptyPeriod, EndsBefore
<1> QED
  BY <1>1, <1>2 DEF Lawful

\* A draft as it is created.
LEMMA DraftForm ==
  ASSUME NEW scope \in Scopes, NEW from \in Starts, NEW lines \in Lines
  PROVE  Draft(scope, from, lines) \in CostingRow /\ PlainDraft(Draft(scope, from, lines))
<1>1. Draft(scope, from, lines).from = from /\ Draft(scope, from, lines).status = "draft"
      /\ Draft(scope, from, lines).versionNo = Null /\ Draft(scope, from, lines).to = Null
  BY DEF Draft
<1>2. from \in Instants \cup {Null} /\ (from # Null => from % 3 = 0)
  <2>1. CASE from = Null
    BY <2>1
  <2>2. CASE from # Null
    <3>1. PICK d \in NamedDays : from = 3 * d
      BY <2>2 DEF Starts
    <3>2. d \in 0..MaxDay /\ MaxDay \in Nat
      BY <3>1, BoundsAssumption
    <3> QED
      BY <3>1, <3>2 DEF Instants
  <2> QED
    BY <2>1, <2>2
<1> QED
  BY <1>1, <1>2 DEF Draft, CostingRow, PlainDraft

\* What every step but the writes of an application makes of the table.
Mild ==
  /\ costing' \in [Ids -> CostingRow \cup {Unborn, Removed}]
  /\ \A i \in Rows(costing') :
       PlainDraft(costing'[i]) \/ (i \in Rows(costing) /\ SameTerms(costing'[i], costing[i]))

\* A draft is inserted under an id of its own.
LEMMA InsertStep ==
  ASSUME TypeOK, NEW scope \in Scopes, NEW from \in Starts, NEW lines \in Lines,
         Insert(Draft(scope, from, lines))
  PROVE  Mild
<1> DEFINE row == Draft(scope, from, lines)
<1>1. row \in CostingRow /\ PlainDraft(row)
  BY DraftForm
<1> HIDE DEF row
<1>2. PICK i \in Ids : costing' = [costing EXCEPT ![i] = row]
  BY DEF Insert, row
<1>3. costing'[i] = row /\ \A j \in Ids \ {i} : costing'[j] = costing[j]
  BY <1>2 DEF TypeOK
<1> QED
  BY <1>1, <1>2, <1>3, StoredRow DEF TypeOK, Mild, SameTerms, Rows

\* Lines and quote are all an edit rewrites.
LEMMA RewriteStep ==
  ASSUME TypeOK, NEW i \in Ids, Stored(i), NEW m \in UpdateMemory, Rewrite(i, m)
  PROVE  Mild
<1> DEFINE old == costing[i]
           row == [old EXCEPT !.quote = m.lines,
                              !.lines = IF m.given = Null THEN old.lines ELSE m.given]
<1>1. old \in CostingRow
  BY StoredRow DEF TypeOK, Stored
<1>2. row \in CostingRow /\ SameTerms(row, old)
  BY <1>1 DEF CostingRow, SameTerms, UpdateMemory
<1>3. costing' = [costing EXCEPT ![i] = row]
  BY DEF Rewrite, TypeOK
<1> HIDE DEF row
<1>4. costing'[i] = row /\ \A j \in Ids \ {i} : costing'[j] = costing[j]
  BY <1>3 DEF TypeOK
<1> QED
  BY <1>2, <1>3, <1>4, StoredRow DEF TypeOK, Mild, SameTerms, Rows, Stored

\* Rows that go take nothing with them.
LEMMA RemovalStep ==
  ASSUME TypeOK, costing' \in [Ids -> CostingRow \cup {Unborn, Removed}],
         \A i \in Ids : costing'[i] \in {costing[i], Removed}
  PROVE  Mild
  BY DEF TypeOK, Mild, SameTerms, Rows

\* Only an application changes the terms of a row.
LEMMA TableStep ==
  ASSUME TypeOK, [Next]_vars
  PROVE  Mild \/ \E r \in Requests : ApplyWrite(r)
<1>1. CASE costing' = costing
  BY <1>1, RemovalStep DEF TypeOK
<1>2. CASE Create
  BY <1>2, InsertStep DEF Create
<1>3. ASSUME NEW r \in Requests, CopyWrite(r) PROVE Mild
  BY <1>3, MemoryKinds, InsertStep DEF CopyWrite, At, CopyMemory
<1>4. ASSUME NEW r \in Requests, UpdateRewrite(r) PROVE Mild
  <2>1. request[r] \in UpdateMemory /\ request[r].id \in Ids
    BY <1>4, MemoryKinds DEF UpdateRewrite, At, Stored, Rows
  <2> QED
    BY <1>4, <2>1, RewriteStep DEF UpdateRewrite
<1>5. ASSUME NEW r \in Requests, UpdateDraft(r) PROVE Mild
  <2>1. request[r] \in UpdateMemory
    BY <1>5, MemoryKinds DEF UpdateDraft, At
  <2>2. CASE request[r].id = Null
    <3>1. request[r].scope \in Scopes /\ request[r].lines \in Lines /\ Null \in Starts
      BY <2>1 DEF UpdateMemory, Starts
    <3> QED
      BY <1>5, <2>2, <3>1, InsertStep DEF UpdateDraft
  <2>3. CASE request[r].id # Null
    <3>1. request[r].id \in Ids
      BY <2>1, <2>3 DEF UpdateMemory
    <3> QED
      BY <1>5, <2>1, <2>3, <3>1, RewriteStep DEF UpdateDraft
  <2> QED
    BY <2>2, <2>3
<1>6. ASSUME NEW r \in Requests, RemoveWrite(r) PROVE Mild
  <2>1. request[r].id \in Ids
    BY <1>6 DEF RemoveWrite, Stored, Rows
  <2> QED
    BY <1>6, <2>1, RemovalStep DEF RemoveWrite, TypeOK
<1>7. CASE DropSlot
  BY <1>7, RemovalStep DEF DropSlot, TypeOK
<1> QED
  BY <1>1, <1>2, <1>3, <1>4, <1>5, <1>6, <1>7 DEF Next, Tick, CopyLoad, UpdateLoad, UpdateFind,
     ApplyLoad, ApplyPredecessor, ApplyCount, ApplyCompare, RemoveLoad, Abort, vars

-----------------------------------------------------------------------------
(* An application *)

\* What the transaction makes of the table: the predecessor ends at the reading, the
\* draft is in force from its start, and nothing else changes.
LEMMA ApplyForm ==
  ASSUME CostingInv, NEW r \in Requests, ApplyWrite(r)
  PROVE  LET m == request[r]
         IN /\ m \in ApplyMemory /\ m.op = "apply" /\ m.pc = "write" /\ m.at \in Instants
            /\ costing' \in [Ids -> CostingRow \cup {Unborn, Removed}]
            /\ Lawful(costing')
            /\ Rows(costing') = Rows(costing)
            /\ costing'[m.id].from = Start(m) /\ costing'[m.id].status = "in-force"
            /\ costing'[m.id].to = Null
            /\ \A i \in Rows(costing) \ {m.id} :
                 /\ costing'[i].from = costing[i].from
                 /\ \/ costing'[i].status = costing[i].status /\ costing'[i].to = costing[i].to
                    \/ costing'[i].status = "superseded" /\ costing'[i].to = m.at
<1> DEFINE m == request[r]
<1>0. TypeOK /\ Null \notin Instants
  BY NullAssumption DEF CostingInv, Instants
<1>1. m \in ApplyMemory /\ m.op = "apply" /\ m.pc = "write" /\ m.at \in Instants
  <2>1. m.op = "apply" /\ m.pc = "write" /\ m \in ApplyMemory
    BY <1>0, MemoryKinds DEF ApplyWrite, At
  <2>2. m.at # Null
    BY <2>1 DEF CostingInv, MemoryTimes
  <2> QED
    BY <2>1, <2>2 DEF ApplyMemory
<1>2. m.id \in Ids /\ m.pred \in Ids \cup {Null} /\ m.from \in Instants \cup {Null}
      /\ m.versionNo \in 1..(MaxId + 1) \cup {Null} /\ m.scope \in Scopes
  BY <1>1 DEF ApplyMemory
<1>3. Start(m) \in Instants \cup {Null}
  BY <1>1, <1>2 DEF Start
<1> DEFINE closed == Closed(m)
           opened == [closed EXCEPT ![m.id].from = Start(m), ![m.id].status = "in-force",
                                    ![m.id].versionNo = m.versionNo]
<1>4. /\ costing' = opened /\ Lawful(opened)
      /\ m.id \in Rows(costing) /\ (m.pred # Null => m.pred \in Rows(costing))
  BY DEF ApplyWrite, Stored
<1>5. /\ closed \in [Ids -> CostingRow \cup {Unborn, Removed}]
      /\ Rows(closed) = Rows(costing)
      /\ \A i \in Rows(costing) :
           /\ closed[i].from = costing[i].from
           /\ \/ closed[i].status = costing[i].status /\ closed[i].to = costing[i].to
              \/ closed[i].status = "superseded" /\ closed[i].to = m.at
  <2>1. CASE m.pred = Null
    BY <1>0, <2>1 DEF Closed, TypeOK
  <2>2. CASE m.pred # Null
    <3> DEFINE old == costing[m.pred]
               row == [old EXCEPT !.to = m.at, !.status = "superseded"]
    <3>1. old \in CostingRow /\ m.pred \in Ids
      BY <1>0, <1>4, <2>2, StoredRow DEF TypeOK, Rows
    <3>2. /\ row \in CostingRow /\ row.from = old.from /\ row.status = "superseded"
          /\ row.to = m.at
      BY <1>1, <3>1 DEF CostingRow
    <3>3. closed = [costing EXCEPT ![m.pred] = row]
      BY <1>0, <2>2, <3>1 DEF Closed, TypeOK
    <3> HIDE DEF row, closed
    <3>4. closed[m.pred] = row /\ \A i \in Ids \ {m.pred} : closed[i] = costing[i]
      BY <1>0, <3>1, <3>3 DEF TypeOK
    <3>5. closed \in [Ids -> CostingRow \cup {Unborn, Removed}]
      BY <1>0, <3>2, <3>3 DEF TypeOK
    <3>6. row \notin {Unborn, Removed} /\ old \notin {Unborn, Removed}
      BY <3>1, <3>2 DEF CostingRow, Unborn, Removed
    <3>7. Rows(closed) = Rows(costing)
      BY <3>1, <3>4, <3>6 DEF Rows
    <3>8. ASSUME NEW i \in Rows(costing)
          PROVE  /\ closed[i].from = costing[i].from
                 /\ \/ closed[i].status = costing[i].status /\ closed[i].to = costing[i].to
                    \/ closed[i].status = "superseded" /\ closed[i].to = m.at
      <4>1. i \in Ids
        BY <3>8 DEF Rows
      <4>2. CASE i = m.pred
        BY <3>2, <3>4, <4>2
      <4>3. CASE i # m.pred
        BY <3>4, <4>1, <4>3
      <4> QED
        BY <4>2, <4>3
    <3> QED
      BY <3>5, <3>7, <3>8
  <2> QED
    BY <2>1, <2>2
<1> HIDE DEF closed
<1>6. closed[m.id] \in CostingRow
  BY <1>2, <1>4, <1>5, StoredRow
<1> DEFINE row == [closed[m.id] EXCEPT !.from = Start(m), !.status = "in-force",
                                       !.versionNo = m.versionNo]
<1>7. row \in CostingRow /\ row.from = Start(m) /\ row.status = "in-force"
  BY <1>2, <1>3, <1>6 DEF CostingRow
<1>8. opened = [closed EXCEPT ![m.id] = row]
  BY <1>2, <1>5
<1> HIDE DEF row, opened
<1>9. /\ opened[m.id] = row /\ \A i \in Ids \ {m.id} : opened[i] = closed[i]
      /\ opened \in [Ids -> CostingRow \cup {Unborn, Removed}]
  BY <1>2, <1>5, <1>7, <1>8
<1>10. row \notin {Unborn, Removed}
  BY <1>7 DEF CostingRow, Unborn, Removed
<1>11. Rows(opened) = Rows(costing)
  BY <1>4, <1>5, <1>9, <1>10 DEF Rows
<1>12. opened[m.id].to = Null
  <2>1. RowIsLawful(opened[m.id])
    BY <1>4, <1>11 DEF Lawful
  <2> QED
    BY <1>7, <1>9, <2>1 DEF RowIsLawful
<1>13. \A i \in Rows(costing) \ {m.id} : opened[i] = closed[i]
  BY <1>9 DEF Rows
<1> QED
  BY <1>1, <1>4, <1>5, <1>7, <1>9, <1>11, <1>12, <1>13

-----------------------------------------------------------------------------
(* The clock *)

\* A reading moves the clock on.
LEMMA StampStep ==
  ASSUME TypeOK, now % 3 \in {1, 2}, Stamp
  PROVE  now' \in Instants /\ now < now' /\ now' % 3 \in {1, 2}
<1>1. now \in Nat /\ MaxDay \in Nat
  BY BoundsAssumption DEF TypeOK, Instants
<1> QED
  BY <1>1 DEF Stamp, Instants

\* It is never set back.
LEMMA NowStep ==
  ASSUME TypeOK, now % 3 \in {1, 2}, [Next]_vars
  PROVE  now' \in Instants /\ now <= now' /\ now' % 3 \in {1, 2}
<1>1. now' = now \/ Stamp
  BY DEF Next, Create, Tick, DropSlot, CopyLoad, CopyWrite, UpdateLoad, UpdateRewrite, UpdateFind,
         UpdateDraft, ApplyLoad, ApplyPredecessor, ApplyCount, ApplyCompare, ApplyWrite, RemoveLoad,
         RemoveWrite, Abort, vars
<1>2. now \in Nat
  BY BoundsAssumption DEF TypeOK, Instants
<1> QED
  BY <1>1, <1>2, StampStep DEF TypeOK, Instants

-----------------------------------------------------------------------------
(* The handlers *)

\* There are no more versions than ids.
LEMMA CountBound == ASSUME NEW scope PROVE AppliedCount(scope) \in 0..MaxId
<1>1. IsFiniteSet(Ids) /\ Cardinality(Ids) = MaxId
  BY FS_Interval, BoundsAssumption DEF Ids
<1>2. {i \in Ids : Version(scope, i)} \subseteq Ids
  OBVIOUS
<1>3. /\ IsFiniteSet({i \in Ids : Version(scope, i)})
      /\ Cardinality({i \in Ids : Version(scope, i)}) <= Cardinality(Ids)
  BY <1>1, <1>2, FS_Subset
<1>4. Cardinality({i \in Ids : Version(scope, i)}) \in Nat
  BY <1>3, FS_CardinalityType
<1> QED
  BY <1>1, <1>3, <1>4, BoundsAssumption DEF AppliedCount

\* Of an application, what the clock has to do with.
Timely(r) ==
  LET new == request'[r] old == request[r]
  IN new.op = "apply" =>
       \/ /\ new.pc = "predecessor" /\ new.at = Null /\ costing' = costing
          /\ new.from # Null => new.from % 3 = 0
       \/ /\ old.op = "apply" /\ new.from = old.from /\ new.at = old.at
          /\ new.pc # "write" /\ costing' = costing
       \/ /\ old.op = "apply" /\ new.from = old.from /\ new.at = now
          /\ Stamp /\ costing' = costing

\* One handler's memory changes, or none does.
Slot(r) == request' = [request EXCEPT ![r] = request'[r]] /\ request'[r] \in Memory /\ Timely(r)

\* A memory that is written is the one that is then there.
LEMMA Written ==
  ASSUME TypeOK, NEW r \in Requests, NEW m, Remember(r, m)
  PROVE  request'[r] = m /\ request' = [request EXCEPT ![r] = request'[r]]
  BY DEF TypeOK, Remember

\* Finding the predecessor, and counting, of an application.
LEMMA ApplyMemoryStep ==
  ASSUME CostingInv, NEW r \in Requests,
         ApplyPredecessor(r) \/ ApplyCount(r) \/ ApplyCompare(r)
  PROVE  Slot(r)
<1> DEFINE m == request[r]
<1>0. TypeOK
  BY DEF CostingInv
<1>1. m.op = "apply" /\ m \in ApplyMemory /\ costing' = costing
  BY <1>0, MemoryKinds DEF ApplyPredecessor, ApplyCount, ApplyCompare, At
<1>2. ApplyMemory \subseteq Memory
  BY DEF ApplyMemory, Memory
<1>3. CASE ApplyPredecessor(r)
  <2>1. PICK i \in Ids \cup {Null} : Remember(r, [m EXCEPT !.pred = i, !.pc = "count"])
    BY <1>3 DEF ApplyPredecessor, InForce
  <2> DEFINE new == [m EXCEPT !.pred = i, !.pc = "count"]
  <2>2. new \in ApplyMemory /\ new.from = m.from /\ new.at = m.at /\ new.pc = "count"
    BY <1>1 DEF ApplyMemory
  <2>3. request'[r] = new /\ request' = [request EXCEPT ![r] = request'[r]]
    BY <1>0, <2>1, Written
  <2> HIDE DEF new
  <2> QED
    BY <1>1, <1>2, <2>2, <2>3 DEF Slot, Timely
<1>4. CASE ApplyCount(r)
  <2> DEFINE no == AppliedCount(m.scope) + 1
             counted == [m EXCEPT !.versionNo = no]
             stamped == [counted EXCEPT !.at = now, !.pc = "write"]
             compared == [counted EXCEPT !.pc = "compare"]
  <2>1. no \in 1..(MaxId + 1)
    BY CountBound, BoundsAssumption
  <2>2. \/ Stamp /\ Remember(r, stamped)
        \/ Remember(r, compared)
    BY <1>4 DEF ApplyCount
  <2> HIDE DEF no
  <2>3. counted \in ApplyMemory /\ counted.from = m.from /\ counted.at = m.at
    BY <1>1, <2>1 DEF ApplyMemory
  <2> HIDE DEF counted
  <2>4. /\ stamped \in ApplyMemory /\ stamped.from = m.from /\ stamped.at = now
        /\ compared \in ApplyMemory /\ compared.from = m.from /\ compared.at = m.at
        /\ compared.pc = "compare"
    BY <1>0, <2>3 DEF ApplyMemory, TypeOK
  <2> HIDE DEF stamped, compared
  <2>5. request' = [request EXCEPT ![r] = request'[r]]
        /\ ((request'[r] = stamped /\ Stamp) \/ request'[r] = compared)
    BY <1>0, <2>2, Written
  <2> QED
    BY <1>1, <1>2, <2>4, <2>5 DEF Slot, Timely
<1>5. CASE ApplyCompare(r)
  <2> DEFINE new == [m EXCEPT !.at = now, !.pc = "write"]
  <2>1. Stamp /\ Remember(r, new)
    BY <1>5 DEF ApplyCompare
  <2>2. new \in ApplyMemory /\ new.from = m.from /\ new.at = now
    BY <1>0, <1>1 DEF ApplyMemory, TypeOK
  <2>3. request'[r] = new /\ request' = [request EXCEPT ![r] = request'[r]]
    BY <1>0, <2>1, Written
  <2> HIDE DEF new
  <2> QED
    BY <1>1, <1>2, <2>1, <2>2, <2>3 DEF Slot, Timely
<1> QED
  BY <1>3, <1>4, <1>5

\* A handler that begins.
LEMMA LoadStep ==
  ASSUME CostingInv, NEW r \in Requests,
         CopyLoad(r) \/ UpdateLoad(r) \/ UpdateFind(r) \/ ApplyLoad(r) \/ RemoveLoad(r)
  PROVE  Slot(r)
<1>0. TypeOK /\ \A i \in Ids : Stored(i) => costing[i] \in CostingRow
  BY StoredRow DEF CostingInv, TypeOK, Stored
<1>1. ASSUME NEW m \in Memory, Remember(r, m), m.op # "apply" PROVE Slot(r)
  <2>1. request'[r] = m /\ request' = [request EXCEPT ![r] = request'[r]]
    BY <1>0, <1>1, Written
  <2> QED
    BY <1>1, <2>1 DEF Slot, Timely
<1>2. CASE CopyLoad(r)
  <2>1. PICK i \in Ids : Stored(i)
          /\ Remember(r, [op |-> "copy", pc |-> "write", lines |-> costing[i].lines])
    BY <1>2 DEF CopyLoad, Accept, Remember
  <2> DEFINE m == [op |-> "copy", pc |-> "write", lines |-> costing[i].lines]
  <2>2. m \in Memory /\ m.op # "apply"
    BY <1>0, <2>1 DEF Memory, CostingRow
  <2> HIDE DEF m
  <2>3. Remember(r, m)
    BY <2>1 DEF m
  <2> QED
    BY <1>0, <2>2, <2>3, Written DEF Slot, Timely
<1>3. CASE UpdateLoad(r)
  <2>1. PICK i \in Ids, given \in Lines \cup {Null} :
          /\ Stored(i)
          /\ Remember(r, [op |-> "update", id |-> i, scope |-> costing[i].scope, given |-> given,
                          lines |-> IF given = Null THEN costing[i].lines ELSE given,
                          pc |-> IF EditedInPlace(costing[i]) THEN "rewrite" ELSE "find"])
    BY <1>3 DEF UpdateLoad, Accept, Remember
  <2> DEFINE lines == IF given = Null THEN costing[i].lines ELSE given
             pc == IF EditedInPlace(costing[i]) THEN "rewrite" ELSE "find"
             m == [op |-> "update", id |-> i, scope |-> costing[i].scope, given |-> given,
                   lines |-> lines, pc |-> pc]
  <2>2. lines \in Lines /\ pc \in {"rewrite", "find"} /\ costing[i].scope \in Scopes
    BY <1>0, <2>1 DEF CostingRow
  <2>3. Remember(r, m)
    BY <2>1
  <2> HIDE DEF lines, pc
  <2>4. m \in Memory /\ m.op # "apply"
    BY <2>2 DEF Memory
  <2> HIDE DEF m
  <2> QED
    BY <1>0, <2>3, <2>4, Written DEF Slot, Timely
<1>4. CASE UpdateFind(r)
  <2>1. request[r] \in UpdateMemory
    BY <1>0, <1>4, MemoryKinds DEF UpdateFind, At
  <2>2. PICK i \in Ids \cup {Null} :
          Remember(r, [request[r] EXCEPT !.id = i, !.given = request[r].lines, !.pc = "draft"])
    BY <1>4 DEF UpdateFind
  <2> DEFINE m == [request[r] EXCEPT !.id = i, !.given = request[r].lines, !.pc = "draft"]
  <2>3. m \in UpdateMemory
    BY <2>1 DEF UpdateMemory
  <2>4. m \in Memory /\ m.op # "apply"
    BY <2>3 DEF Memory, UpdateMemory
  <2>5. Remember(r, m)
    BY <2>2
  <2> HIDE DEF m
  <2> QED
    BY <1>0, <2>4, <2>5, Written DEF Slot, Timely
<1>5. CASE ApplyLoad(r)
  <2>1. PICK i \in Ids :
          /\ Stored(i) /\ costing[i].status = "draft"
          /\ Remember(r, [op |-> "apply", pc |-> "predecessor", id |-> i, scope |-> costing[i].scope,
                          from |-> costing[i].from, pred |-> Null, versionNo |-> Null, at |-> Null])
    BY <1>5 DEF ApplyLoad, Accept, Remember
  <2> DEFINE m == [op |-> "apply", pc |-> "predecessor", id |-> i, scope |-> costing[i].scope,
                   from |-> costing[i].from, pred |-> Null, versionNo |-> Null, at |-> Null]
  <2>2. costing[i].from # Null => costing[i].from % 3 = 0
    BY <2>1 DEF CostingInv, RowTimes, Stored
  <2>3. m \in Memory /\ m.at = Null /\ m.from = costing[i].from /\ m.pc = "predecessor"
    BY <1>0, <2>1 DEF Memory, CostingRow
  <2>4. Remember(r, m) /\ costing' = costing
    BY <1>5, <2>1 DEF ApplyLoad
  <2> HIDE DEF m
  <2>5. request'[r] = m /\ request' = [request EXCEPT ![r] = request'[r]]
    BY <1>0, <2>4, Written
  <2> QED
    BY <2>2, <2>3, <2>4, <2>5 DEF Slot, Timely
<1>6. CASE RemoveLoad(r)
  <2>1. PICK i \in Ids : Remember(r, [op |-> "remove", pc |-> "write", id |-> i])
    BY <1>6 DEF RemoveLoad, Accept, Remember, Rows
  <2> DEFINE m == [op |-> "remove", pc |-> "write", id |-> i]
  <2>2. m \in Memory /\ m.op # "apply"
    BY DEF Memory
  <2>3. Remember(r, m)
    BY <2>1
  <2> HIDE DEF m
  <2> QED
    BY <1>0, <2>2, <2>3, Written DEF Slot, Timely
<1> QED
  BY <1>2, <1>3, <1>4, <1>5, <1>6

\* A handler that ends leaves an empty slot.
LEMMA SlotStep ==
  ASSUME CostingInv, [Next]_vars
  PROVE  request' = request \/ \E r \in Requests : Slot(r) /\ (ApplyWrite(r) => request'[r] = Idle)
<1>0. TypeOK
  BY DEF CostingInv
<1>1. ASSUME NEW r \in Requests, Finish(r) PROVE Slot(r) /\ request'[r] = Idle
  <2>1. request'[r] = Idle /\ request' = [request EXCEPT ![r] = request'[r]]
    BY <1>0, <1>1, Written DEF Finish
  <2> QED
    BY <2>1 DEF Slot, Timely, Memory, Idle
<1>2. ASSUME NEW r \in Requests,
             ApplyPredecessor(r) \/ ApplyCount(r) \/ ApplyCompare(r) \/ CopyLoad(r) \/ UpdateLoad(r)
               \/ UpdateFind(r) \/ ApplyLoad(r) \/ RemoveLoad(r)
      PROVE  Slot(r) /\ ~ApplyWrite(r)
  <2>1. Slot(r)
    BY <1>2, ApplyMemoryStep, LoadStep
  <2>2. ASSUME ApplyWrite(r) PROVE FALSE
    <3>1. request[r].op = "apply" /\ request[r].pc = "write"
      BY <2>2 DEF ApplyWrite, At
    <3>2. request[r] # Idle
      BY <3>1 DEF Idle
    <3> QED
      BY <1>2, <3>1, <3>2 DEF ApplyPredecessor, ApplyCount, ApplyCompare, CopyLoad, UpdateLoad,
           UpdateFind, ApplyLoad, RemoveLoad, Accept, At
  <2> QED
    BY <2>1, <2>2
<1> QED
  BY <1>1, <1>2 DEF Next, Create, Tick, DropSlot, CopyWrite, UpdateRewrite, UpdateDraft, ApplyWrite,
     RemoveWrite, Abort, vars

-----------------------------------------------------------------------------
(* Every step keeps the invariant *)

\* Rows keep to their times.
LEMMA RowsStep ==
  ASSUME CostingInv, [Next]_vars
  PROVE  \A i \in Rows(costing') : RowTimes(costing[i])'
<1>0. TypeOK /\ now % 3 \in {1, 2}
  BY DEF CostingInv
<1>1. now' \in Nat /\ now \in Nat /\ now <= now' /\ Instants \subseteq Nat /\ Null \notin Nat
  BY <1>0, NowStep, BoundsAssumption, NullAssumption DEF TypeOK, Instants
<1>2. SUFFICES ASSUME NEW i \in Rows(costing')
               PROVE  /\ costing'[i].from # Null /\ costing'[i].from % 3 # 0 => costing'[i].from < now'
                      /\ costing'[i].status = "draft" /\ costing'[i].from # Null =>
                           costing'[i].from % 3 = 0
                      /\ costing'[i].to # Null => costing'[i].from # costing'[i].to
  BY DEF RowTimes
<1>3. CASE Mild
  <2>1. CASE PlainDraft(costing'[i])
    BY <2>1 DEF PlainDraft
  <2>2. CASE i \in Rows(costing) /\ SameTerms(costing'[i], costing[i])
    <3>1. RowTimes(costing[i]) /\ costing[i] \in CostingRow
      BY <1>0, <2>2, StoredRow DEF CostingInv, TypeOK, Rows
    <3>2. costing[i].from \in Instants \cup {Null}
      BY <3>1 DEF CostingRow
    <3>3. costing[i].from # Null => costing[i].from \in Nat
      BY <1>1, <3>2
    <3> QED
      BY <1>1, <2>2, <3>1, <3>3 DEF RowTimes, SameTerms
  <2> QED
    BY <1>3, <2>1, <2>2 DEF Mild
<1>4. ASSUME NEW r \in Requests, ApplyWrite(r)
      PROVE  /\ costing'[i].from # Null /\ costing'[i].from % 3 # 0 => costing'[i].from < now'
             /\ costing'[i].status = "draft" /\ costing'[i].from # Null =>
                  costing'[i].from % 3 = 0
             /\ costing'[i].to # Null => costing'[i].from # costing'[i].to
  <2> DEFINE m == request[r]
  <2>1. /\ m.op = "apply" /\ m.at \in Nat /\ Rows(costing') = Rows(costing)
        /\ costing'[m.id].from = Start(m) /\ costing'[m.id].status = "in-force"
        /\ costing'[m.id].to = Null
        /\ \A j \in Rows(costing) \ {m.id} :
             /\ costing'[j].from = costing[j].from
             /\ \/ costing'[j].status = costing[j].status /\ costing'[j].to = costing[j].to
                \/ costing'[j].status = "superseded" /\ costing'[j].to = m.at
    BY <1>1, <1>4, ApplyForm
  <2>2. MemoryTimes(m)
    BY DEF CostingInv
  <2>3. m.at # Null /\ m.at % 3 # 0 /\ m.at < now
        /\ \A j \in Rows(costing) : costing[j].from # m.at
    BY <1>1, <2>1, <2>2 DEF MemoryTimes
  <2>4. CASE i = m.id
    <3>1. Start(m) \in {m.at, m.from}
      BY DEF Start
    <3>2. m.from # Null => m.from % 3 = 0
      BY <2>1, <2>2 DEF MemoryTimes
    <3> QED
      BY <1>1, <2>1, <2>3, <2>4, <3>1, <3>2
  <2>5. CASE i # m.id
    <3>1. i \in Rows(costing)
      BY <2>1
    <3>2. RowTimes(costing[i]) /\ costing[i] \in CostingRow
      BY <1>0, <3>1, StoredRow DEF CostingInv, TypeOK, Rows
    <3>3. costing[i].from \in Instants \cup {Null}
      BY <3>2 DEF CostingRow
    <3>4. costing[i].from # Null => costing[i].from \in Nat
      BY <1>1, <3>3
    <3>5. costing'[i].from = costing[i].from
          /\ (\/ costing'[i].status = costing[i].status /\ costing'[i].to = costing[i].to
              \/ costing'[i].status = "superseded" /\ costing'[i].to = m.at)
      BY <2>1, <2>5, <3>1
    <3> QED
      BY <1>1, <2>3, <3>1, <3>2, <3>4, <3>5 DEF RowTimes
  <2> QED
    BY <2>4, <2>5
<1> QED
  BY <1>0, <1>3, <1>4, TableStep

\* No row comes to start at a reading an application holds, but the one that ends with it.
LEMMA ReadingKept ==
  ASSUME CostingInv, [Next]_vars, NEW s \in Requests, request'[s] = request[s],
         request[s].op = "apply", request[s].at # Null, ApplyWrite(s) => request'[s] = Idle
  PROVE  \A i \in Rows(costing') : costing'[i].from # request[s].at
<1> DEFINE at == request[s].at
<1>0. TypeOK /\ at % 3 # 0 /\ at # Null /\ \A i \in Rows(costing) : costing[i].from # at
  BY DEF CostingInv, MemoryTimes
<1>1. SUFFICES ASSUME NEW i \in Rows(costing') PROVE costing'[i].from # at
  OBVIOUS
<1>2. CASE Mild
  <2>1. \/ costing'[i].from # Null => costing'[i].from % 3 = 0
        \/ i \in Rows(costing) /\ costing'[i].from = costing[i].from
    BY <1>2 DEF Mild, PlainDraft, SameTerms
  <2> QED
    BY <1>0, <2>1
<1>3. ASSUME NEW r \in Requests, ApplyWrite(r) PROVE costing'[i].from # at
  <2> DEFINE m == request[r]
  <2>1. /\ m.op = "apply" /\ m.at \in Instants /\ Rows(costing') = Rows(costing)
        /\ costing'[m.id].from = Start(m)
        /\ \A j \in Rows(costing) \ {m.id} : costing'[j].from = costing[j].from
    BY <1>3, ApplyForm
  <2>2. r # s
    BY <1>3 DEF Idle
  <2>3. m.at # at
    BY <1>0, <2>1, <2>2 DEF CostingInv, ReadingsApart
  <2>4. m.from # Null => m.from % 3 = 0
    BY <2>1 DEF CostingInv, MemoryTimes
  <2>5. Start(m) # at
    BY <1>0, <2>3, <2>4 DEF Start
  <2> QED
    BY <1>0, <2>1, <2>5
<1> QED
  BY <1>0, <1>2, <1>3, TableStep

\* Readings stay in the past, apart, and no row's start.
LEMMA MemoryStep ==
  ASSUME CostingInv, [Next]_vars
  PROVE  /\ request' \in [Requests -> Memory]
         /\ \A s \in Requests : MemoryTimes(request[s])'
         /\ ReadingsApart'
<1>0. TypeOK /\ now % 3 \in {1, 2}
  BY DEF CostingInv
<1>1. now' \in Nat /\ now \in Nat /\ now <= now' /\ Instants \subseteq Nat /\ Null \notin Nat
  BY <1>0, NowStep, BoundsAssumption, NullAssumption DEF TypeOK, Instants
<1>2. \A s \in Requests : request[s].op = "apply" => request[s].at \in Nat \cup {Null}
  BY <1>0, <1>1, MemoryKinds DEF ApplyMemory
<1>3. ASSUME NEW s \in Requests, request'[s] = request[s], ApplyWrite(s) => request'[s] = Idle
      PROVE  MemoryTimes(request[s])'
  <2> SUFFICES ASSUME request[s].op = "apply"
               PROVE  /\ request[s].from # Null => request[s].from % 3 = 0
                      /\ request[s].pc = "write" => request[s].at # Null
                      /\ request[s].at # Null =>
                           /\ request[s].at % 3 # 0 /\ request[s].at < now'
                           /\ \A i \in Rows(costing') : costing'[i].from # request[s].at
    BY <1>3 DEF MemoryTimes
  <2>1. MemoryTimes(request[s])
    BY DEF CostingInv
  <2>2. request[s].at # Null => request[s].at \in Nat
    BY <1>2
  <2> QED
    BY <1>1, <1>3, <2>1, <2>2, ReadingKept DEF MemoryTimes
<1>4. CASE request' = request
  <2>1. \A s \in Requests : ApplyWrite(s) => request'[s] = Idle
    BY <1>0 DEF ApplyWrite, Finish, Remember, TypeOK
  <2>2. ReadingsApart'
    BY <1>4 DEF CostingInv, ReadingsApart
  <2> QED
    BY <1>0, <1>3, <1>4, <2>1, <2>2 DEF TypeOK
<1>5. ASSUME NEW r \in Requests, Slot(r)
      PROVE  /\ request' \in [Requests -> Memory]
             /\ \A s \in Requests : MemoryTimes(request[s])'
             /\ ReadingsApart'
  <2> DEFINE new == request'[r]
             old == request[r]
  <2>1. request' \in [Requests -> Memory] /\ \A s \in Requests \ {r} : request'[s] = request[s]
    BY <1>0, <1>5 DEF Slot, TypeOK
  <2>2. \A s \in Requests \ {r} : MemoryTimes(request[s])'
    <3>1. ASSUME NEW s \in Requests \ {r}, ApplyWrite(s) PROVE request'[s] = Idle
      BY <1>0, <3>1 DEF ApplyWrite, Finish, Remember, TypeOK
    <3> QED
      BY <1>3, <2>1, <3>1
  <2>3. CASE new.op # "apply"
    <3>1. MemoryTimes(request[r])'
      BY <2>3 DEF MemoryTimes
    <3>2. ReadingsApart'
      BY <2>1, <2>3 DEF CostingInv, ReadingsApart
    <3> QED
      BY <2>1, <2>2, <3>1, <3>2
  <2>4. CASE new.op = "apply" /\ new.at = Null /\ new.pc = "predecessor"
             /\ (new.from # Null => new.from % 3 = 0)
    <3>1. ReadingsApart'
      BY <2>1, <2>4 DEF CostingInv, ReadingsApart
    <3>2. MemoryTimes(request[r])'
      BY <2>4 DEF MemoryTimes
    <3> QED
      BY <2>1, <2>2, <3>1, <3>2
  <2>5. CASE /\ new.op = "apply" /\ old.op = "apply" /\ new.from = old.from /\ new.at = old.at
             /\ new.pc # "write" /\ costing' = costing
    <3>1. ReadingsApart'
      BY <2>1, <2>5 DEF CostingInv, ReadingsApart
    <3>2. MemoryTimes(old) /\ (old.at # Null => old.at \in Nat)
      BY <1>2, <2>5 DEF CostingInv
    <3>3. MemoryTimes(request[r])'
      BY <1>1, <2>5, <3>2 DEF MemoryTimes
    <3> QED
      BY <2>1, <2>2, <3>1, <3>3
  <2>6. CASE /\ new.op = "apply" /\ old.op = "apply" /\ new.from = old.from /\ new.at = now
             /\ Stamp /\ costing' = costing
    <3>1. now < now'
      BY <1>0, <2>6, StampStep
    <3>2. ASSUME NEW i \in Rows(costing) PROVE costing[i].from # now
      BY <1>0, <1>1, <3>2 DEF CostingInv, RowTimes
    <3>3. MemoryTimes(old)
      BY DEF CostingInv
    <3>4. MemoryTimes(request[r])'
      BY <1>0, <1>1, <2>6, <3>1, <3>2, <3>3 DEF MemoryTimes
    <3>5. ASSUME NEW s \in Requests \ {r}, request[s].op = "apply" PROVE request[s].at # now
      <4>1. MemoryTimes(request[s])
        BY DEF CostingInv
      <4> QED
        BY <1>1, <1>2, <3>5, <4>1 DEF MemoryTimes
    <3>6. ReadingsApart'
      BY <2>1, <2>6, <3>5 DEF CostingInv, ReadingsApart
    <3> QED
      BY <2>1, <2>2, <3>4, <3>6
  <2> QED
    BY <1>5, <2>3, <2>4, <2>5, <2>6 DEF Slot, Timely
<1> QED
  BY <1>4, <1>5, SlotStep

\* Nothing is costed and nothing in flight.
LEMMA CostingInit == Init => CostingInv
<1> SUFFICES ASSUME Init PROVE CostingInv
  OBVIOUS
<1>1. TypeOK
  BY BoundsAssumption DEF Init, TypeOK, Memory, Instants
<1>2. Rows(costing) = {}
  BY DEF Init, Rows
<1>3. Lawful(costing) /\ \A i \in Rows(costing) : RowTimes(costing[i])
  BY <1>2 DEF Lawful
<1>4. (\A r \in Requests : MemoryTimes(request[r])) /\ ReadingsApart
  BY DEF Init, MemoryTimes, ReadingsApart, Idle
<1> QED
  BY <1>1, <1>3, <1>4 DEF Init, CostingInv

\* Every step keeps the invariant.
LEMMA CostingStep == CostingInv /\ [Next]_vars => CostingInv'
<1> SUFFICES ASSUME CostingInv, [Next]_vars PROVE CostingInv'
  OBVIOUS
<1>0. TypeOK /\ now % 3 \in {1, 2} /\ Lawful(costing)
  BY DEF CostingInv
<1>1. now' \in Instants /\ now' % 3 \in {1, 2}
  BY <1>0, NowStep
<1>2. slots' \subseteq Slots
  BY <1>0 DEF TypeOK, Next, Create, Tick, DropSlot, CopyLoad, CopyWrite, UpdateLoad, UpdateRewrite,
         UpdateFind, UpdateDraft, ApplyLoad, ApplyPredecessor, ApplyCount, ApplyCompare, ApplyWrite,
         RemoveLoad, RemoveWrite, Abort, vars
<1>3. costing' \in [Ids -> CostingRow \cup {Unborn, Removed}] /\ Lawful(costing')
  <2>1. CASE Mild
    BY <1>0, <2>1, StaysLawful DEF Mild
  <2>2. ASSUME NEW r \in Requests, ApplyWrite(r)
        PROVE  costing' \in [Ids -> CostingRow \cup {Unborn, Removed}] /\ Lawful(costing')
    BY <2>2, ApplyForm
  <2> QED
    BY <1>0, <2>1, <2>2, TableStep
<1>4. TypeOK'
  BY <1>1, <1>2, <1>3, MemoryStep DEF TypeOK
<1> QED
  BY <1>1, <1>3, <1>4, RowsStep, MemoryStep DEF CostingInv

\* It holds in every behaviour.
LEMMA CostingInvariant == Spec => []CostingInv
  BY CostingInit, CostingStep, PTL DEF Spec

\* The table, the memories and the clock keep their shapes in every behaviour.
THEOREM CostingTypeCorrect == Spec => []TypeOK
<1>1. CostingInv => TypeOK
  BY DEF CostingInv
<1> QED
  BY <1>1, CostingInvariant, PTL

\* However applications, edits and removals overlap, no two versions of a scope that
\* cover a day begin alike: which one prices it does not hang on the order of ids.
THEOREM NoTiesHolds == Spec => []NoTies
  BY ApartDoNotTie, CostingInvariant, PTL

-----------------------------------------------------------------------------
(* As long as handlers follow one another *)

Alone == \A r, s \in Requests : request[r] # Idle /\ request[s] # Idle => r = s

\* What a handler has found is still so when it goes on, unless the slot it was found in
\* is dropped.
Fresh(m) ==
  /\ m.op \in {"update", "apply", "remove"} /\ m.id # Null => costing[m.id] # Unborn
  /\ m.op = "update" /\ m.pc = "rewrite" =>
       /\ m.given # Null => m.lines = m.given
       /\ Stored(m.id) => /\ costing[m.id].status = "draft"
                          /\ m.given = Null => m.lines = costing[m.id].lines
  /\ m.op = "update" /\ m.pc = "draft" =>
       /\ m.given = m.lines
       /\ m.id # Null /\ Stored(m.id) => costing[m.id].status = "draft"
  /\ m.op = "remove" => (Stored(m.id) => costing[m.id].status = "draft")
  /\ m.op = "apply" =>
       /\ m.from \in Starts
       /\ Stored(m.id) =>
            /\ costing[m.id].status = "draft" /\ costing[m.id].lines # NoLines
            /\ costing[m.id].scope = m.scope
            /\ m.pc # "predecessor" =>
                 IF m.pred = Null THEN InForce(m.scope) = {} ELSE m.pred \in InForce(m.scope)
            /\ m.pc \in {"compare", "write"} => m.versionNo = AppliedCount(m.scope) + 1

\* A costing is quoted at its lines, and applied only with lines.
Quoted(c) ==
  /\ c.quote = c.lines
  /\ c.status # "draft" => c.lines # NoLines
  /\ c.status = "draft" => c.from \in Starts

\* The versions of a scope are numbered in order, the last of them in force.
Chained(scope) ==
  LET S == Versions(scope)
      n == Cardinality(S)
  IN /\ {costing[i].versionNo : i \in S} = 1..n
     /\ \A i \in S : costing[i].status = "in-force" <=> costing[i].versionNo = n
     /\ \A i, j \in S : costing[j].versionNo = costing[i].versionNo + 1 =>
          /\ costing[i].to # Null /\ costing[j].from # Null
          /\ \/ costing[j].from = costing[i].to
             \/ costing[j].from \in Starts /\ costing[j].from > costing[i].to

Settled ==
  /\ Alone
  /\ \A r \in Requests : Fresh(request[r])
  /\ \A i \in Rows(costing) : Quoted(costing[i])
  /\ \A scope \in Scopes : Chained(scope)

UntilInv == ~overlapped => Settled

Step(r) ==
  \/ CopyLoad(r) \/ CopyWrite(r)
  \/ UpdateLoad(r) \/ UpdateRewrite(r) \/ UpdateFind(r) \/ UpdateDraft(r)
  \/ ApplyLoad(r) \/ ApplyPredecessor(r) \/ ApplyCount(r) \/ ApplyCompare(r) \/ ApplyWrite(r)
  \/ RemoveLoad(r) \/ RemoveWrite(r)
  \/ Abort(r)

\* Until handlers overlap, a step leaves at most one in flight.
LEMMA NotYet ==
  ASSUME MCNext, ~overlapped'
  PROVE  /\ ~overlapped
         /\ Create \/ Tick \/ DropSlot \/ \E r \in Requests : Step(r)
         /\ \A r, s \in Requests : request'[r] # Idle /\ request'[s] # Idle => r = s
  BY DEF MCNext, Next, Step

\* What a handler remembers after its step, and that no other memory changes.
LEMMA HandlerOf ==
  ASSUME TypeOK, NEW r \in Requests, Step(r)
  PROVE  /\ request[r] # Idle \/ request'[r] # Idle
         /\ \A s \in Requests \ {r} : request'[s] = request[s]
<1>1. CASE CopyLoad(r) \/ UpdateLoad(r) \/ ApplyLoad(r) \/ RemoveLoad(r)
  BY <1>1 DEF CopyLoad, UpdateLoad, ApplyLoad, RemoveLoad, Accept, Idle, TypeOK
<1>2. CASE CopyWrite(r) \/ UpdateRewrite(r) \/ UpdateDraft(r) \/ ApplyWrite(r) \/ RemoveWrite(r) \/ Abort(r)
  BY <1>2 DEF CopyWrite, UpdateRewrite, UpdateDraft, ApplyWrite, RemoveWrite, Abort, At, Idle,
              Finish, Remember, TypeOK
<1>3. CASE UpdateFind(r) \/ ApplyPredecessor(r) \/ ApplyCount(r) \/ ApplyCompare(r)
  BY <1>3 DEF UpdateFind, ApplyPredecessor, ApplyCount, ApplyCompare, At, Idle, Remember, TypeOK
<1> QED
  BY <1>1, <1>2, <1>3 DEF Step

\* Until handlers overlap, the one whose step it is was the only one, and still is.
LEMMA OnlyOne ==
  ASSUME TypeOK, Settled, MCNext, ~overlapped', NEW r \in Requests, Step(r)
  PROVE  \A s \in Requests \ {r} : request[s] = Idle /\ request'[s] = Idle
<1>1. CASE request[r] # Idle
  BY <1>1, HandlerOf DEF Settled, Alone
<1>2. CASE request'[r] # Idle
  BY <1>2, HandlerOf, NotYet
<1> QED
  BY <1>1, <1>2, HandlerOf

-----------------------------------------------------------------------------
(* What a step that applies nothing does to the table *)

Kept(i) ==
  /\ i \in Rows(costing') /\ SameTerms(costing'[i], costing[i])
  /\ costing'[i].lines = costing[i].lines /\ costing'[i].quote = costing[i].quote

\* Nothing is applied, and what is applied stays as it is, but for a slot that goes.
Gentle(gone) ==
  /\ gone \notin slots' \cup {TypeWide}
  /\ \A i \in Ids : Applied(i) => IF costing[i].scope = gone THEN costing'[i] = Removed ELSE Kept(i)
  /\ \A i \in Ids : Applied(i)' => Applied(i)
  /\ \A i \in Rows(costing') : Quoted(costing'[i])

\* A table that stands.
LEMMA StandsGentle ==
  ASSUME TypeOK, Settled, costing' = costing, slots' = slots
  PROVE  Gentle(Null)
<1>1. Null \notin slots' \cup {TypeWide} /\ \A i \in Ids : Applied(i) => costing[i].scope # Null
  <2>1. \A i \in Ids : Applied(i) => costing[i] \in CostingRow
    BY StoredRow DEF TypeOK, Applied, Stored
  <2> QED
    BY <2>1, NullAssumption, TypeWideAssumption DEF TypeOK, CostingRow, Scopes
<1>2. \A i \in Ids : Applied(i) <=> Applied(i)'
  BY DEF Applied, Stored
<1> QED
  BY <1>1, <1>2 DEF Gentle, Kept, SameTerms, Applied, Stored, Settled

\* One row that is not applied changes, to a draft or to nothing.
LEMMA DraftGentle ==
  ASSUME TypeOK, Settled, slots' = slots, NEW i \in Ids, ~Applied(i),
         \A j \in Ids \ {i} : costing'[j] = costing[j],
         i \in Rows(costing') => costing'[i].status = "draft" /\ Quoted(costing'[i])
  PROVE  Gentle(Null)
<1>1. Null \notin slots' \cup {TypeWide} /\ \A j \in Ids : Applied(j) => costing[j].scope # Null
  <2>1. \A j \in Ids : Applied(j) => costing[j] \in CostingRow
    BY StoredRow DEF TypeOK, Applied, Stored
  <2> QED
    BY <2>1, NullAssumption, TypeWideAssumption DEF TypeOK, CostingRow, Scopes
<1>2. \A j \in Ids : Applied(j)' => j # i
  BY DEF Applied, Stored
<1>3. \A j \in Ids \ {i} : (Applied(j)' <=> Applied(j)) /\ (j \in Rows(costing') <=> j \in Rows(costing))
  BY DEF Applied, Stored, Rows
<1>4. \A j \in Ids : Applied(j) => Kept(j)
  BY <1>3 DEF Kept, SameTerms, Applied, Stored
<1>5. \A j \in Rows(costing') : Quoted(costing'[j])
  BY <1>3 DEF Settled, Rows
<1> QED
  BY <1>1, <1>2, <1>3, <1>4, <1>5 DEF Gentle

\* A draft comes into being.
LEMMA InsertGentle ==
  ASSUME TypeOK, Settled, slots' = slots,
         NEW scope \in Scopes, NEW from \in Starts, NEW lines \in Lines,
         Insert(Draft(scope, from, lines))
  PROVE  Gentle(Null)
<1> DEFINE row == Draft(scope, from, lines)
<1>1. row.status = "draft" /\ Quoted(row)
  BY DEF Draft, Quoted
<1> HIDE DEF row
<1>2. PICK i \in Ids : costing[i] = Unborn /\ costing' = [costing EXCEPT ![i] = row]
  BY DEF Insert, row
<1>3. costing'[i] = row /\ \A j \in Ids \ {i} : costing'[j] = costing[j]
  BY <1>2 DEF TypeOK
<1>4. ~Applied(i)
  BY <1>2 DEF Applied, Stored, Rows
<1> QED
  BY <1>1, <1>3, <1>4, DraftGentle

\* A draft is rewritten to the lines its quote was added up from.
LEMMA RewriteGentle ==
  ASSUME TypeOK, Settled, slots' = slots, NEW i \in Ids, Stored(i), costing[i].status = "draft",
         NEW m \in UpdateMemory, Rewrite(i, m),
         m.lines = IF m.given = Null THEN costing[i].lines ELSE m.given
  PROVE  Gentle(Null)
<1> DEFINE old == costing[i]
           row == [old EXCEPT !.quote = m.lines, !.lines = m.lines]
<1>1. old \in CostingRow
  BY StoredRow DEF TypeOK, Stored
<1>2. /\ row.status = "draft" /\ row.quote = m.lines /\ row.lines = m.lines
      /\ row.from = old.from
  BY <1>1 DEF CostingRow
<1>3. Quoted(old)
  BY DEF Settled, Stored
<1>4. costing' = [costing EXCEPT ![i] = row]
  BY DEF Rewrite, TypeOK
<1> HIDE DEF row
<1>5. costing'[i] = row /\ \A j \in Ids \ {i} : costing'[j] = costing[j]
  BY <1>4 DEF TypeOK
<1>6. Quoted(row)
  BY <1>2, <1>3 DEF Quoted
<1> QED
  BY <1>2, <1>5, <1>6, DraftGentle DEF Applied

\* Until handlers overlap, only an application touches what is applied.
LEMMA GentleStep ==
  ASSUME TypeOK, Settled, Next
  PROVE  \/ \E gone : Gentle(gone)
         \/ \E r \in Requests : ApplyWrite(r)
<1>1. CASE Create
  BY <1>1, InsertGentle DEF Create
<1>2. CASE DropSlot
  <2>1. PICK slot \in slots :
          /\ slots' = slots \ {slot}
          /\ costing' = [i \in Ids |-> IF Stored(i) /\ costing[i].scope = slot THEN Removed ELSE costing[i]]
    BY <1>2 DEF DropSlot
  <2>2. slot \notin slots' \cup {TypeWide}
    BY <2>1, TypeWideAssumption DEF TypeOK
  <2>3. \A i \in Ids : Applied(i) =>
          IF costing[i].scope = slot THEN costing'[i] = Removed ELSE Kept(i)
    BY <2>1 DEF Applied, Stored, Kept, SameTerms, Rows
  <2>4. \A i \in Ids : Applied(i)' => Applied(i)
    BY <2>1 DEF Applied, Stored, Rows
  <2>5. \A i \in Rows(costing') : Quoted(costing'[i])
    BY <2>1 DEF Settled, Stored, Rows
  <2> QED
    BY <2>2, <2>3, <2>4, <2>5 DEF Gentle
<1>3. ASSUME NEW r \in Requests, CopyWrite(r) PROVE Gentle(Null)
  BY <1>3, MemoryKinds, InsertGentle DEF CopyWrite, At, CopyMemory
<1>4. ASSUME NEW r \in Requests, UpdateRewrite(r) PROVE Gentle(Null)
  <2>1. request[r] \in UpdateMemory /\ request[r].id \in Ids /\ Stored(request[r].id)
    BY <1>4, MemoryKinds DEF UpdateRewrite, At, Stored, Rows
  <2>2. /\ costing[request[r].id].status = "draft"
        /\ request[r].lines = IF request[r].given = Null THEN costing[request[r].id].lines
                              ELSE request[r].given
    BY <1>4, <2>1 DEF UpdateRewrite, At, Settled, Fresh
  <2> QED
    BY <1>4, <2>1, <2>2, RewriteGentle DEF UpdateRewrite
<1>5. ASSUME NEW r \in Requests, UpdateDraft(r) PROVE Gentle(Null)
  <2>1. request[r] \in UpdateMemory /\ request[r].given = request[r].lines
    BY <1>5, MemoryKinds DEF UpdateDraft, At, Settled, Fresh
  <2>2. CASE request[r].id = Null
    <3>1. request[r].scope \in Scopes /\ request[r].lines \in Lines /\ Null \in Starts
      BY <2>1 DEF UpdateMemory, Starts
    <3> QED
      BY <1>5, <2>2, <3>1, InsertGentle DEF UpdateDraft
  <2>3. CASE request[r].id # Null
    <3>1. request[r].id \in Ids /\ request[r].lines # Null
      BY <2>1, <2>3, NullAssumption DEF UpdateMemory, Lines
    <3>2. Stored(request[r].id) /\ costing[request[r].id].status = "draft"
      BY <1>5, <2>3 DEF UpdateDraft, At, Settled, Fresh
    <3> QED
      BY <1>5, <2>1, <2>3, <3>1, <3>2, RewriteGentle DEF UpdateDraft
  <2> QED
    BY <2>2, <2>3
<1>6. ASSUME NEW r \in Requests, RemoveWrite(r) PROVE Gentle(Null)
  <2>1. request[r].id \in Ids /\ Stored(request[r].id)
    BY <1>6 DEF RemoveWrite, Stored, Rows
  <2>2. ~Applied(request[r].id)
    BY <1>6, <2>1 DEF RemoveWrite, At, Settled, Fresh, Applied
  <2>3. costing'[request[r].id] = Removed /\ slots' = slots
        /\ \A j \in Ids \ {request[r].id} : costing'[j] = costing[j]
    BY <1>6, <2>1 DEF RemoveWrite, TypeOK
  <2> QED
    BY <2>1, <2>2, <2>3, DraftGentle DEF Rows
<1>7. CASE costing' = costing /\ slots' = slots
  BY <1>7, StandsGentle
<1> QED
  BY <1>1, <1>2, <1>3, <1>4, <1>5, <1>6, <1>7 DEF Next, Tick, CopyLoad, UpdateLoad, UpdateFind,
     ApplyLoad, ApplyPredecessor, ApplyCount, ApplyCompare, RemoveLoad, Abort

-----------------------------------------------------------------------------
(* What the handler in flight has found *)

\* A new draft, a dropped slot and the clock leave what is drawn as it is, or take it away
\* with its whole scope.
Aside(gone) ==
  /\ \A i \in Ids : costing[i] # Unborn =>
       costing'[i] = IF Stored(i) /\ costing[i].scope = gone THEN Removed ELSE costing[i]
  /\ \A i \in Ids : costing[i] = Unborn => ~Applied(i)'

LEMMA AsideStep ==
  ASSUME TypeOK, Create \/ Tick \/ DropSlot
  PROVE  \E gone : Aside(gone)
<1>0. \A i \in Ids : Stored(i) => costing[i].scope # Null
  <2>1. \A i \in Ids : Stored(i) => costing[i] \in CostingRow
    BY StoredRow DEF TypeOK, Stored
  <2> QED
    BY <2>1, NullAssumption DEF CostingRow, Scopes
<1>1. CASE Create
  <2>1. PICK i \in Ids, scope \in Scopes, from \in Starts, lines \in Lines :
          costing[i] = Unborn /\ costing' = [costing EXCEPT ![i] = Draft(scope, from, lines)]
    BY <1>1 DEF Create, Insert
  <2>2. costing'[i].status = "draft" /\ \A j \in Ids \ {i} : costing'[j] = costing[j]
    BY <2>1 DEF TypeOK, Draft
  <2>3. Aside(Null)
    BY <1>0, <2>1, <2>2 DEF Aside, Applied, Stored, Rows
  <2> QED
    BY <2>3
<1>2. CASE Tick
  <2>1. Aside(Null)
    BY <1>0, <1>2 DEF Tick, Aside, Applied, Stored, Rows
  <2> QED
    BY <2>1
<1>3. CASE DropSlot
  <2>1. PICK slot \in slots :
          costing' = [i \in Ids |-> IF Stored(i) /\ costing[i].scope = slot THEN Removed ELSE costing[i]]
    BY <1>3 DEF DropSlot
  <2>2. Aside(slot)
    BY <2>1 DEF Aside, Applied, Stored, Rows
  <2> QED
    BY <2>2
<1> QED
  BY <1>1, <1>2, <1>3

\* What a handler has found stands while drafts come, slots go and time passes.
LEMMA FreshAside ==
  ASSUME NEW gone, Aside(gone), NEW m \in Memory, Fresh(m)
  PROVE  Fresh(m)'
<1>1. \A i \in Ids : costing[i] # Unborn => costing'[i] # Unborn
  BY DEF Aside, Unborn, Removed, Stored, Rows
<1>2. \A i \in Ids : costing[i] # Unborn /\ Stored(i)' =>
        Stored(i) /\ costing'[i] = costing[i] /\ costing[i].scope # gone
  BY DEF Aside, Stored, Rows
<1>3. ASSUME NEW scope, scope # gone
      PROVE  InForce(scope)' = InForce(scope) /\ AppliedCount(scope)' = AppliedCount(scope)
  <2>1. ASSUME NEW i \in Ids
        PROVE  /\ Version(scope, i)' <=> Version(scope, i)
               /\ Version(scope, i) => costing'[i] = costing[i]
    <3>1. CASE costing[i] = Unborn
      BY <3>1 DEF Aside, Version, Applied, Stored, Rows
    <3>2. CASE costing[i] # Unborn /\ Stored(i) /\ costing[i].scope = gone
      BY <1>3, <3>2 DEF Aside, Version, Applied, Stored, Rows
    <3>3. CASE costing[i] # Unborn /\ ~(Stored(i) /\ costing[i].scope = gone)
      BY <3>3 DEF Aside, Version, Applied, Stored, Rows
    <3> QED
      BY <3>1, <3>2, <3>3
  <2>2. {i \in Ids : Version(scope, i)}' = {i \in Ids : Version(scope, i)}
    BY <2>1
  <2>3. InForce(scope)' = InForce(scope)
    BY <2>1 DEF InForce
  <2> QED
    BY <2>2, <2>3 DEF AppliedCount
<1>4. CASE m.op = "update"
  <2>1. m.id \in Ids \cup {Null}
    BY <1>4 DEF Memory, Idle
  <2>2. m.id # Null => costing[m.id] # Unborn
    BY <1>4 DEF Fresh
  <2>3. m.id = Null => ~Stored(m.id) /\ ~Stored(m.id)'
    BY NullAssumption DEF Stored, Rows, Ids
  <2> QED
    BY <1>1, <1>2, <1>4, <2>1, <2>2, <2>3 DEF Fresh
<1>5. CASE m.op = "remove"
  <2>1. m.id \in Ids
    BY <1>5 DEF Memory, Idle
  <2>2. m.id # Null
    BY <2>1, NullAssumption DEF Ids
  <2> QED
    BY <1>1, <1>2, <1>5, <2>1, <2>2 DEF Fresh
<1>6. CASE m.op = "apply"
  <2>1. m.id \in Ids
    BY <1>6 DEF Memory, Idle
  <2>2. m.id # Null
    BY <2>1, NullAssumption DEF Ids
  <2>3. costing[m.id] # Unborn /\ costing'[m.id] # Unborn /\ m.from \in Starts
    BY <1>1, <1>6, <2>1, <2>2 DEF Fresh
  <2>4. ASSUME Stored(m.id)'
        PROVE  /\ costing'[m.id].status = "draft" /\ costing'[m.id].lines # NoLines
               /\ costing'[m.id].scope = m.scope
               /\ m.pc # "predecessor" =>
                    IF m.pred = Null THEN InForce(m.scope)' = {} ELSE m.pred \in InForce(m.scope)'
               /\ m.pc \in {"compare", "write"} => m.versionNo = AppliedCount(m.scope)' + 1
    <3>1. Stored(m.id) /\ costing'[m.id] = costing[m.id] /\ costing[m.id].scope # gone
      BY <1>2, <2>1, <2>3, <2>4
    <3>2. m.scope # gone
      BY <1>6, <3>1 DEF Fresh
    <3>3. InForce(m.scope)' = InForce(m.scope) /\ AppliedCount(m.scope)' = AppliedCount(m.scope)
      BY <1>3, <3>2
    <3> QED
      BY <1>6, <3>1, <3>3 DEF Fresh
  <2> QED
    BY <1>6, <2>3, <2>4 DEF Fresh
<1>7. CASE m.op \notin {"update", "remove", "apply"}
  BY <1>7 DEF Fresh
<1> QED
  BY <1>4, <1>5, <1>6, <1>7

\* Where the table stands, so does what it was found to say.
LEMMA SameTable ==
  ASSUME costing' = costing
  PROVE  /\ \A i : Stored(i)' <=> Stored(i)
         /\ \A scope : InForce(scope)' = InForce(scope) /\ AppliedCount(scope)' = AppliedCount(scope)
  BY DEF Stored, Rows, InForce, AppliedCount, Version, Applied

\* What a handler of an edit or a removal finds is so.
LEMMA FreshEdit ==
  ASSUME TypeOK, Settled, NEW r \in Requests,
         CopyLoad(r) \/ UpdateLoad(r) \/ UpdateFind(r) \/ RemoveLoad(r)
  PROVE  Fresh(request[r])'
<1>1. CASE CopyLoad(r)
  BY <1>1 DEF CopyLoad, Accept, TypeOK, Fresh
<1>2. CASE UpdateLoad(r)
  <2>1. PICK i \in Ids, given \in Lines \cup {Null} :
          /\ Stored(i) /\ costing[i].status # "superseded"
          /\ Accept(r, [op |-> "update", id |-> i, scope |-> costing[i].scope, given |-> given,
                        lines |-> IF given = Null THEN costing[i].lines ELSE given,
                        pc |-> IF EditedInPlace(costing[i]) THEN "rewrite" ELSE "find"])
    BY <1>2 DEF UpdateLoad
  <2>2. /\ request'[r].op = "update" /\ request'[r].id = i /\ request'[r].given = given
        /\ request'[r].lines = IF given = Null THEN costing[i].lines ELSE given
        /\ request'[r].pc = IF EditedInPlace(costing[i]) THEN "rewrite" ELSE "find"
    BY <2>1 DEF Accept, TypeOK
  <2>3. costing' = costing /\ costing[i] # Unborn
    BY <1>2, <2>1 DEF UpdateLoad, Stored, Rows
  <2> QED
    BY <2>1, <2>2, <2>3, SameTable DEF Fresh, EditedInPlace
<1>3. CASE UpdateFind(r)
  <2>1. request[r] \in UpdateMemory
    BY <1>3, MemoryKinds DEF UpdateFind, At
  <2>2. PICK i :
          /\ i # Null => i \in Ids /\ Stored(i) /\ costing[i].status = "draft"
          /\ Remember(r, [request[r] EXCEPT !.id = i, !.given = request[r].lines, !.pc = "draft"])
    BY <1>3 DEF UpdateFind
  <2> DEFINE new == [request[r] EXCEPT !.id = i, !.given = request[r].lines, !.pc = "draft"]
  <2>3. new.op = "update" /\ new.id = i /\ new.pc = "draft" /\ new.given = new.lines
    BY <2>1 DEF UpdateMemory
  <2>4. request'[r] = new /\ costing' = costing
    BY <1>3, <2>2 DEF Remember, TypeOK, UpdateFind
  <2> HIDE DEF new
  <2>5. i # Null => costing[i] # Unborn
    BY <2>2 DEF Stored, Rows
  <2> QED
    BY <2>2, <2>3, <2>4, <2>5, SameTable DEF Fresh
<1>4. CASE RemoveLoad(r)
  <2>1. PICK i \in Rows(costing) :
          Removable(costing[i]) /\ Accept(r, [op |-> "remove", pc |-> "write", id |-> i])
    BY <1>4 DEF RemoveLoad
  <2>2. request'[r].op = "remove" /\ request'[r].id = i /\ costing' = costing
    BY <1>4, <2>1 DEF Accept, TypeOK, RemoveLoad
  <2>3. costing[i] # Unborn /\ costing[i].status = "draft"
    BY <2>1 DEF Settled, Quoted, Removable, Rows
  <2> QED
    BY <2>2, <2>3 DEF Fresh
<1> QED
  BY <1>1, <1>2, <1>3, <1>4

\* So is what an application finds: its draft, the version in force, and how many there are.
LEMMA FreshApply ==
  ASSUME TypeOK, Settled, NEW r \in Requests,
         ApplyLoad(r) \/ ApplyPredecessor(r) \/ ApplyCount(r) \/ ApplyCompare(r)
  PROVE  Fresh(request[r])'
<1>1. CASE ApplyLoad(r)
  <2>1. PICK i \in Ids :
          /\ Stored(i) /\ costing[i].status = "draft" /\ costing[i].lines # NoLines
          /\ Accept(r, [op |-> "apply", pc |-> "predecessor", id |-> i, scope |-> costing[i].scope,
                        from |-> costing[i].from, pred |-> Null, versionNo |-> Null, at |-> Null])
    BY <1>1 DEF ApplyLoad
  <2>2. /\ request'[r].op = "apply" /\ request'[r].pc = "predecessor" /\ request'[r].id = i
        /\ request'[r].scope = costing[i].scope /\ request'[r].from = costing[i].from
    BY <2>1 DEF Accept, TypeOK
  <2>3. costing' = costing /\ costing[i] # Unborn /\ costing[i].from \in Starts
    BY <1>1, <2>1 DEF ApplyLoad, Stored, Rows, Settled, Quoted
  <2> QED
    BY <2>1, <2>2, <2>3, SameTable DEF Fresh
<1>2. CASE ApplyPredecessor(r) \/ ApplyCount(r) \/ ApplyCompare(r)
  <2>0. /\ request[r].op = "apply" /\ request[r] \in ApplyMemory /\ costing' = costing
        /\ Fresh(request[r])
    BY <1>2, MemoryKinds DEF ApplyPredecessor, ApplyCount, ApplyCompare, At, Settled
  <2>1. ASSUME NEW m, m = request'[r],
               m.op = "apply", m.id = request[r].id, m.scope = request[r].scope,
               m.from = request[r].from,
               IF m.pred = Null THEN InForce(m.scope) = {} ELSE m.pred \in InForce(m.scope),
               m.pc \in {"compare", "write"} => m.versionNo = AppliedCount(m.scope) + 1
        PROVE  Fresh(request[r])'
    BY <2>0, <2>1, SameTable DEF Fresh
  <2>2. CASE ApplyPredecessor(r)
    <3>1. PICK i : /\ IF i = Null THEN InForce(request[r].scope) = {} ELSE i \in InForce(request[r].scope)
                   /\ Remember(r, [request[r] EXCEPT !.pred = i, !.pc = "count"])
      <4>1. Null \notin InForce(request[r].scope)
        BY NullAssumption DEF InForce, Ids
      <4> QED
        BY <2>2, <4>1 DEF ApplyPredecessor
    <3> DEFINE new == [request[r] EXCEPT !.pred = i, !.pc = "count"]
    <3>2. /\ new.op = "apply" /\ new.id = request[r].id /\ new.scope = request[r].scope
          /\ new.from = request[r].from /\ new.pred = i /\ new.pc = "count"
      BY <2>0 DEF ApplyMemory
    <3>3. request'[r] = new
      BY <3>1 DEF Remember, TypeOK
    <3> HIDE DEF new
    <3> QED
      BY <2>1, <3>1, <3>2, <3>3
  <2>3. CASE (ApplyCount(r) \/ ApplyCompare(r)) /\ ~Stored(request[r].id)
    <3>0. PICK k, t : k = AppliedCount(request[r].scope) + 1 /\ t = now
      OBVIOUS
    <3>1. \/ request'[r] = [[request[r] EXCEPT !.versionNo = k] EXCEPT !.at = t, !.pc = "write"]
          \/ request'[r] = [[request[r] EXCEPT !.versionNo = k] EXCEPT !.pc = "compare"]
          \/ request'[r] = [request[r] EXCEPT !.at = t, !.pc = "write"]
      BY <2>3, <3>0 DEF ApplyCount, ApplyCompare, Remember, TypeOK
    <3>2. request'[r].op = "apply" /\ request'[r].id = request[r].id /\ request'[r].from = request[r].from
      BY <2>0, <3>1 DEF ApplyMemory
    <3> QED
      BY <2>0, <2>3, <3>2, SameTable DEF Fresh
  <2>4. CASE ApplyCount(r) /\ Stored(request[r].id)
    <3> DEFINE no == AppliedCount(request[r].scope) + 1
               counted == [request[r] EXCEPT !.versionNo = no]
               stamped == [counted EXCEPT !.at = now, !.pc = "write"]
               compared == [counted EXCEPT !.pc = "compare"]
    <3>1. request'[r] \in {stamped, compared} /\ request[r].pc = "count"
      BY <2>4 DEF ApplyCount, At, Remember, TypeOK
    <3> HIDE DEF no
    <3>2. \A m \in {stamped, compared} :
            /\ m.op = "apply" /\ m.id = request[r].id /\ m.scope = request[r].scope
            /\ m.from = request[r].from /\ m.pred = request[r].pred /\ m.versionNo = no
      BY <2>0 DEF ApplyMemory
    <3>3. IF request[r].pred = Null THEN InForce(request[r].scope) = {}
          ELSE request[r].pred \in InForce(request[r].scope)
      BY <2>0, <2>4, <3>1 DEF Fresh
    <3> HIDE DEF counted, stamped, compared
    <3> QED
      BY <2>1, <3>1, <3>2, <3>3 DEF no
  <2>5. CASE ApplyCompare(r) /\ Stored(request[r].id)
    <3> DEFINE new == [request[r] EXCEPT !.at = now, !.pc = "write"]
    <3>1. request'[r] = new /\ request[r].pc = "compare"
      BY <2>5 DEF ApplyCompare, At, Remember, TypeOK
    <3>2. /\ new.op = "apply" /\ new.id = request[r].id /\ new.scope = request[r].scope
          /\ new.from = request[r].from /\ new.pred = request[r].pred
          /\ new.versionNo = request[r].versionNo
      BY <2>0 DEF ApplyMemory
    <3>3. /\ IF request[r].pred = Null THEN InForce(request[r].scope) = {}
             ELSE request[r].pred \in InForce(request[r].scope)
          /\ request[r].versionNo = AppliedCount(request[r].scope) + 1
      BY <2>0, <2>5, <3>1 DEF Fresh
    <3> HIDE DEF new
    <3> QED
      BY <2>1, <3>1, <3>2, <3>3
  <2> QED
    BY <1>2, <2>2, <2>3, <2>4, <2>5
<1> QED
  BY <1>1, <1>2

\* Until handlers overlap, whoever is in flight has found what is so.
LEMMA FreshStep ==
  ASSUME TypeOK, Settled, MCNext, ~overlapped'
  PROVE  \A s \in Requests : Fresh(request[s])'
<1>1. ASSUME NEW s \in Requests, request'[s] = Idle PROVE Fresh(request[s])'
  BY <1>1 DEF Fresh, Idle
<1>2. ASSUME NEW r \in Requests, Step(r) PROVE Fresh(request[r])'
  <2>1. CASE CopyWrite(r) \/ UpdateRewrite(r) \/ UpdateDraft(r) \/ ApplyWrite(r) \/ RemoveWrite(r) \/ Abort(r)
    <3>1. request'[r] = Idle
      BY <2>1 DEF CopyWrite, UpdateRewrite, UpdateDraft, ApplyWrite, RemoveWrite, Abort, Finish,
                  Remember, TypeOK
    <3> QED
      BY <1>1, <3>1
  <2> QED
    BY <1>2, <2>1, FreshEdit, FreshApply DEF Step
<1>3. CASE \E r \in Requests : Step(r)
  <2>1. PICK r \in Requests : Step(r)
    BY <1>3
  <2>2. ASSUME NEW s \in Requests \ {r} PROVE Fresh(request[s])'
    BY <1>1, <2>1, OnlyOne
  <2> QED
    BY <1>2, <2>1, <2>2
<1>4. CASE Create \/ Tick \/ DropSlot
  <2>1. request' = request
    BY <1>4 DEF Create, Tick, DropSlot
  <2>2. PICK gone : Aside(gone)
    BY <1>4, AsideStep
  <2>3. ASSUME NEW s \in Requests PROVE Fresh(request[s])'
    <3>1. PICK m \in Memory : m = request[s]
      BY DEF TypeOK
    <3>2. Fresh(m)'
      BY <2>2, <3>1, FreshAside DEF Settled
    <3>3. m = request'[s]
      BY <2>1, <3>1
    <3> QED
      BY <3>2, <3>3
  <2> QED
    BY <2>3
<1> QED
  BY <1>3, <1>4, NotYet

-----------------------------------------------------------------------------
(* The chain of versions *)

\* A scope that goes has no versions left, and of any other nothing changes.
LEMMA VersionsGentle ==
  ASSUME NEW gone, Gentle(gone), NEW scope
  PROVE  /\ scope = gone => Versions(scope)' = {}
         /\ scope # gone => /\ Versions(scope)' = Versions(scope)
                            /\ \A i \in Versions(scope) : Kept(i)
<1>1. ASSUME NEW i \in Ids, Version(scope, i)'
      PROVE  scope # gone /\ Version(scope, i)
  <2>1. Applied(i) /\ Applied(i)' /\ costing'[i].scope = scope
    BY <1>1 DEF Version, Gentle
  <2>2. costing[i].scope # gone
    BY <2>1 DEF Gentle, Applied, Stored, Rows
  <2>3. Kept(i)
    BY <2>1, <2>2 DEF Gentle
  <2> QED
    BY <2>1, <2>2, <2>3 DEF Version, Kept, SameTerms
<1>2. ASSUME NEW i \in Ids, Version(scope, i), scope # gone
      PROVE  Kept(i) /\ Version(scope, i)'
  <2>1. Kept(i)
    BY <1>2 DEF Gentle, Version
  <2> QED
    BY <1>2, <2>1 DEF Kept, SameTerms, Version, Applied, Stored
<1> QED
  BY <1>1, <1>2 DEF Versions

LEMMA ChainedGentle ==
  ASSUME NEW gone, Gentle(gone), NEW scope, Chained(scope)
  PROVE  Chained(scope)'
<1>1. CASE scope = gone
  <2>1. Versions(scope)' = {}
    BY <1>1, VersionsGentle
  <2>2. Cardinality(Versions(scope)') = 0 /\ 1..0 = {}
    BY <2>1, FS_EmptySet
  <2> QED
    BY <2>1, <2>2 DEF Chained
<1>2. CASE scope # gone
  <2>1. Versions(scope)' = Versions(scope) /\ \A i \in Versions(scope) : Kept(i)
    BY <1>2, VersionsGentle
  <2>2. {costing'[i].versionNo : i \in Versions(scope)'} = {costing[i].versionNo : i \in Versions(scope)}
    BY <2>1 DEF Kept, SameTerms
  <2> QED
    BY <2>1, <2>2 DEF Chained, Kept, SameTerms
<1> QED
  BY <1>1, <1>2

\* What an application writes, when what it found is so.
LEMMA ApplyRows ==
  ASSUME CostingInv, Settled, NEW r \in Requests, ApplyWrite(r),
         NEW m, m = request[r]
  PROVE  /\ m \in ApplyMemory /\ m.at \in Instants /\ m.at % 3 # 0 /\ m.from \in Starts
         /\ m.id \in Ids /\ Stored(m.id) /\ costing[m.id].status = "draft"
         /\ costing[m.id].scope = m.scope
         /\ m.versionNo = Cardinality(Versions(m.scope)) + 1
         /\ m.pred = Null => InForce(m.scope) = {}
         /\ m.pred # Null => m.pred \in InForce(m.scope) /\ m.pred # m.id
         /\ costing'[m.id] \in CostingRow
         /\ costing'[m.id].scope = m.scope /\ costing'[m.id].status = "in-force"
         /\ costing'[m.id].versionNo = m.versionNo
         /\ costing'[m.id].from = Start(m) /\ costing'[m.id].to = Null
         /\ costing'[m.id].lines = costing[m.id].lines /\ costing'[m.id].quote = costing[m.id].quote
         /\ m.pred # Null =>
              /\ costing'[m.pred] \in CostingRow
              /\ costing'[m.pred].scope = costing[m.pred].scope
              /\ costing'[m.pred].status = "superseded"
              /\ costing'[m.pred].versionNo = costing[m.pred].versionNo
              /\ costing'[m.pred].from = costing[m.pred].from /\ costing'[m.pred].to = m.at
              /\ costing'[m.pred].lines = costing[m.pred].lines
              /\ costing'[m.pred].quote = costing[m.pred].quote
         /\ \A i \in Ids \ {m.id, m.pred} : costing'[i] = costing[i]
         /\ slots' = slots
<1>0. TypeOK /\ Fresh(m)
  BY DEF CostingInv, Settled
<1>1. /\ m \in ApplyMemory /\ m.op = "apply" /\ m.pc = "write" /\ m.at \in Instants
      /\ costing'[m.id].to = Null /\ costing'[m.id].from = Start(m)
      /\ costing' \in [Ids -> CostingRow \cup {Unborn, Removed}] /\ Rows(costing') = Rows(costing)
  BY ApplyForm
<1>2. m.at % 3 # 0
  <2>1. MemoryTimes(m) /\ m.at # Null
    BY <1>1, NullAssumption DEF CostingInv, Instants
  <2> QED
    BY <1>1, <2>1 DEF MemoryTimes
<1>3. m.id \in Ids /\ Stored(m.id) /\ slots' = slots
  BY DEF ApplyWrite, Stored, Rows
<1>4. /\ costing[m.id].status = "draft" /\ costing[m.id].scope = m.scope /\ m.from \in Starts
      /\ IF m.pred = Null THEN InForce(m.scope) = {} ELSE m.pred \in InForce(m.scope)
      /\ m.versionNo = AppliedCount(m.scope) + 1
  BY <1>0, <1>1, <1>3 DEF Fresh
<1>5. AppliedCount(m.scope) = Cardinality(Versions(m.scope))
  BY DEF AppliedCount, Versions
<1>6. m.pred # Null => m.pred \in Ids /\ m.pred # m.id /\ costing[m.pred] \in CostingRow
  <2>1. m.pred # Null => m.pred \in Ids /\ costing[m.pred].status = "in-force" /\ Stored(m.pred)
    BY <1>4 DEF InForce, Version, Applied
  <2> QED
    BY <1>0, <1>4, <2>1, StoredRow DEF TypeOK, Stored
<1>7. costing[m.id] \in CostingRow /\ costing'[m.id] \in CostingRow
  BY <1>0, <1>1, <1>3, StoredRow DEF TypeOK, Stored
<1>8. costing' = [Closed(m) EXCEPT ![m.id].from = Start(m), ![m.id].status = "in-force",
                                   ![m.id].versionNo = m.versionNo]
  BY DEF ApplyWrite
<1> DEFINE mine == costing[m.id]
           row == [mine EXCEPT !.from = Start(m), !.status = "in-force", !.versionNo = m.versionNo]
<1>9. /\ row.scope = mine.scope /\ row.status = "in-force" /\ row.versionNo = m.versionNo
      /\ row.lines = mine.lines /\ row.quote = mine.quote
  BY <1>7 DEF CostingRow
<1>10. CASE m.pred = Null
  <2>1. costing' = [costing EXCEPT ![m.id] = row]
    BY <1>0, <1>3, <1>8, <1>10 DEF Closed, TypeOK
  <2> HIDE DEF row
  <2>2. costing'[m.id] = row /\ \A i \in Ids \ {m.id, m.pred} : costing'[i] = costing[i]
    BY <1>0, <1>3, <2>1 DEF TypeOK
  <2> QED
    BY <1>1, <1>2, <1>3, <1>4, <1>5, <1>7, <1>9, <1>10, <2>2
<1>11. CASE m.pred # Null
  <2> DEFINE old == costing[m.pred]
             ended == [old EXCEPT !.to = m.at, !.status = "superseded"]
  <2>1. /\ ended.scope = old.scope /\ ended.status = "superseded"
        /\ ended.versionNo = old.versionNo /\ ended.from = old.from /\ ended.to = m.at
        /\ ended.lines = old.lines /\ ended.quote = old.quote /\ ended \in CostingRow
    BY <1>1, <1>6, <1>11 DEF CostingRow
  <2>2. Closed(m) = [costing EXCEPT ![m.pred] = ended]
    BY <1>0, <1>6, <1>11 DEF Closed, TypeOK
  <2> HIDE DEF ended
  <2>3. /\ Closed(m)[m.pred] = ended /\ Closed(m)[m.id] = mine
        /\ \A i \in Ids \ {m.id, m.pred} : Closed(m)[i] = costing[i]
        /\ DOMAIN Closed(m) = Ids
    BY <1>0, <1>3, <1>6, <1>11, <2>2 DEF TypeOK
  <2>4. costing'[m.id] = row
    BY <1>3, <1>8, <2>3
  <2>5. costing'[m.pred] = ended /\ \A i \in Ids \ {m.id, m.pred} : costing'[i] = costing[i]
    BY <1>6, <1>8, <1>11, <2>3
  <2> HIDE DEF row
  <2> QED
    BY <1>1, <1>2, <1>3, <1>4, <1>5, <1>6, <1>7, <1>9, <1>11, <2>1, <2>4, <2>5
<1> QED
  BY <1>10, <1>11

\* A version ends no earlier than it began, and the next one begins no earlier than that.
LEMMA EndsInTime ==
  ASSUME CostingInv, Settled, NEW r \in Requests, ApplyWrite(r),
         NEW m, m = request[r], m.pred # Null
  PROVE  /\ m.at \in Nat /\ Start(m) \in Nat /\ m.at <= Start(m)
         /\ m.from # Null => m.from = Start(m) /\ m.at < Start(m)
         /\ costing[m.pred].from # Null => costing[m.pred].from \in Nat /\ costing[m.pred].from < m.at
<1>1. /\ m.at \in Instants /\ m.at % 3 # 0 /\ m.from \in Starts
      /\ m.id \in Ids /\ m.pred \in InForce(m.scope) /\ m.pred # m.id
      /\ costing[m.id].scope = m.scope
      /\ costing'[m.id] \in CostingRow
      /\ costing'[m.id].scope = m.scope /\ costing'[m.id].status = "in-force"
      /\ costing'[m.id].from = Start(m) /\ costing'[m.id].to = Null
      /\ costing'[m.pred] \in CostingRow
      /\ costing'[m.pred].scope = costing[m.pred].scope /\ costing'[m.pred].status = "superseded"
      /\ costing'[m.pred].from = costing[m.pred].from /\ costing'[m.pred].to = m.at
  BY ApplyRows
<1>2. Lawful(costing') /\ MemoryTimes(m) /\ m.op = "apply"
  BY ApplyForm DEF CostingInv
<1>3. Instants \subseteq Nat /\ Null \notin Nat
  BY BoundsAssumption, NullAssumption DEF Instants
<1>4. costing[m.pred].from # m.at /\ m.at # Null /\ m.at \in Nat
  BY <1>1, <1>2, <1>3 DEF MemoryTimes, InForce, Version, Applied, Stored
<1> DEFINE c == costing'[m.pred]
           d == costing'[m.id]
<1>5. m.pred \in Rows(costing') /\ m.id \in Rows(costing')
  BY <1>1 DEF Rows, CostingRow, Unborn, Removed, InForce
<1>6. ~PeriodsMeetIn(c, d) /\ RowIsLawful(c)
  BY <1>1, <1>2, <1>5 DEF Lawful, InForce, Version
<1>7. ~EmptyPeriod(c) /\ ~EmptyPeriod(d) /\ ~EndsBefore(d, c)
  BY <1>1, <1>4 DEF EmptyPeriod, EndsBefore
<1>8. m.at <= Start(m) /\ Start(m) # Null
  BY <1>1, <1>6, <1>7 DEF PeriodsMeetIn, EndsBefore
<1>9. Start(m) \in Nat
  BY <1>1, <1>3, <1>8 DEF CostingRow
<1>10. m.from # Null => m.from = Start(m) /\ m.at # Start(m)
  BY <1>1, <1>2 DEF Start, MemoryTimes
<1>11. costing[m.pred].from # Null => costing[m.pred].from \in Nat /\ m.at >= costing[m.pred].from
  BY <1>1, <1>3, <1>4, <1>6 DEF CostingRow, RowIsLawful
<1> QED
  BY <1>4, <1>8, <1>9, <1>10, <1>11

\* An application adds one version to its scope, and no other scope has more or fewer.
LEMMA VersionsApply ==
  ASSUME CostingInv, Settled, NEW r \in Requests, ApplyWrite(r),
         NEW m, m = request[r], NEW scope
  PROVE  /\ m.id \notin Versions(scope)
         /\ scope = m.scope => Versions(scope)' = Versions(scope) \cup {m.id}
         /\ scope # m.scope => /\ Versions(scope)' = Versions(scope)
                               /\ \A i \in Versions(scope) : costing'[i] = costing[i]
<1>1. /\ m.id \in Ids /\ costing[m.id].status = "draft" /\ costing[m.id].scope = m.scope
      /\ m.pred # Null => m.pred \in InForce(m.scope)
      /\ costing'[m.id] \in CostingRow
      /\ costing'[m.id].scope = m.scope /\ costing'[m.id].status = "in-force"
      /\ m.pred # Null =>
           /\ costing'[m.pred] \in CostingRow
           /\ costing'[m.pred].scope = costing[m.pred].scope
           /\ costing'[m.pred].status = "superseded"
      /\ \A i \in Ids \ {m.id, m.pred} : costing'[i] = costing[i]
  BY ApplyRows
<1>2. m.id \notin Versions(scope)
  BY <1>1 DEF Versions, Version, Applied
<1>3. Version(scope, m.id)' <=> scope = m.scope
  BY <1>1 DEF Version, Applied, Stored, Rows, CostingRow, Unborn, Removed
<1>4. ASSUME NEW i \in Ids \ {m.id} PROVE Version(scope, i)' <=> Version(scope, i)
  <2>1. CASE i = m.pred
    <3>1. m.pred # Null /\ m.pred \in Ids
      BY <2>1, NullAssumption DEF Ids
    <3> QED
      BY <1>1, <2>1, <3>1 DEF InForce, Version, Applied, Stored, Rows, CostingRow, Unborn, Removed
  <2>2. CASE i # m.pred
    BY <1>1, <2>2 DEF Version, Applied, Stored, Rows
  <2> QED
    BY <2>1, <2>2
<1>5. scope = m.scope => Versions(scope)' = Versions(scope) \cup {m.id}
  BY <1>1, <1>3, <1>4 DEF Versions
<1>6. scope # m.scope => Versions(scope)' = Versions(scope)
  BY <1>2, <1>3, <1>4 DEF Versions
<1>7. ASSUME scope # m.scope, NEW i \in Versions(scope) PROVE costing'[i] = costing[i]
  <2>1. i \in Ids /\ costing[i].scope = scope
    BY <1>7 DEF Versions, Version
  <2>2. i # m.pred
    BY <1>1, <1>7, <2>1, NullAssumption DEF InForce, Version, Ids
  <2> QED
    BY <1>1, <1>2, <1>7, <2>1, <2>2
<1> QED
  BY <1>2, <1>5, <1>6, <1>7

\* The versions of a scope are no more than there are ids.
LEMMA VersionsAreFinite ==
  ASSUME NEW scope
  PROVE  IsFiniteSet(Versions(scope)) /\ Cardinality(Versions(scope)) \in Nat
<1>1. IsFiniteSet(Ids)
  BY FS_Interval, BoundsAssumption DEF Ids
<1>2. Versions(scope) \subseteq Ids
  BY DEF Versions
<1>3. IsFiniteSet(Versions(scope))
  BY <1>1, <1>2, FS_Subset
<1> QED
  BY <1>3, FS_CardinalityType

\* A version has a number, and of a scope no two have the same; the one in force has no end.
LEMMA VersionRows ==
  ASSUME CostingInv, NEW scope, NEW i \in Versions(scope)
  PROVE  /\ i \in Ids /\ costing[i] \in CostingRow /\ costing[i].scope = scope
         /\ costing[i].versionNo \in Nat \ {0} /\ costing[i].status \in {"in-force", "superseded"}
         /\ costing[i].to = Null <=> costing[i].status = "in-force"
         /\ \A j \in Versions(scope) \ {i} :
              /\ costing[j].versionNo # costing[i].versionNo
              /\ ~PeriodsMeetIn(costing[i], costing[j])
<1>1. i \in Ids /\ Applied(i) /\ costing[i].scope = scope /\ i \in Rows(costing)
  BY DEF Versions, Version, Applied, Stored
<1>2. costing[i] \in CostingRow
  BY <1>1, StoredRow DEF CostingInv, TypeOK
<1>3. RowIsLawful(costing[i])
  BY <1>1 DEF CostingInv, Lawful
<1>4. costing[i].versionNo \in Nat \ {0} /\ costing[i].status \in {"in-force", "superseded"}
  BY <1>1, <1>2, <1>3 DEF RowIsLawful, CostingRow, Applied
<1>5. costing[i].to = Null <=> costing[i].status = "in-force"
  BY <1>3, <1>4 DEF RowIsLawful
<1>6. \A j \in Versions(scope) \ {i} :
        j \in Rows(costing) /\ costing[j].status # "draft" /\ costing[j].scope = scope
  BY DEF Versions, Version, Applied, Stored
<1>7. \A j \in Versions(scope) \ {i} :
        costing[j].versionNo # costing[i].versionNo /\ ~PeriodsMeetIn(costing[i], costing[j])
  BY <1>1, <1>4, <1>6 DEF CostingInv, Lawful
<1> QED
  BY <1>1, <1>2, <1>4, <1>5, <1>7

\* An application that finds no version in force finds none at all, and one that does finds
\* the last.
LEMMA LastInForce ==
  ASSUME CostingInv, Settled, NEW r \in Requests, ApplyWrite(r), NEW m, m = request[r]
  PROVE  /\ m.scope \in Scopes
         /\ m.pred = Null => Versions(m.scope) = {}
         /\ m.pred # Null => /\ m.pred \in Versions(m.scope)
                             /\ costing[m.pred].versionNo = Cardinality(Versions(m.scope))
<1> DEFINE S == Versions(m.scope)
           n == Cardinality(S)
<1>1. /\ m \in ApplyMemory /\ m.pred = Null => InForce(m.scope) = {}
      /\ m.pred # Null => m.pred \in InForce(m.scope)
  BY ApplyRows
<1>2. m.scope \in Scopes
  <2>1. m \in ApplyMemory
    BY ApplyRows
  <2> QED
    BY <2>1 DEF ApplyMemory
<1>3. /\ {costing[i].versionNo : i \in S} = 1..n
      /\ \A i \in S : costing[i].status = "in-force" <=> costing[i].versionNo = n
  BY <1>2 DEF Settled, Chained
<1>4. n \in Nat /\ IsFiniteSet(S)
  BY VersionsAreFinite
<1>5. CASE m.pred = Null
  <2>1. \A i \in S : costing[i].status # "in-force"
    BY <1>1, <1>5, ApplyRows DEF InForce, Versions
  <2>2. n \notin 1..n
    BY <1>3, <2>1
  <2>3. n = 0
    BY <1>4, <2>2
  <2>4. S = {}
    BY <1>4, <2>3, FS_EmptySet
  <2> QED
    BY <1>2, <1>5, <2>4
<1>6. CASE m.pred # Null
  <2>1. m.pred \in S /\ costing[m.pred].status = "in-force"
    BY <1>1, <1>6 DEF InForce, Versions
  <2> QED
    BY <1>2, <1>3, <1>6, <2>1
<1> QED
  BY <1>5, <1>6

\* An application leaves the versions of its scope chained: its own comes last.
LEMMA ChainedApply ==
  ASSUME CostingInv, Settled, NEW r \in Requests, ApplyWrite(r), NEW m, m = request[r],
         CostingInv'
  PROVE  Chained(m.scope)'
<1> DEFINE S == Versions(m.scope)
           n == Cardinality(S)
<1>0. n \in Nat /\ IsFiniteSet(S)
  BY VersionsAreFinite
<1>1. S' = S \cup {m.id} /\ m.id \notin S
  BY VersionsApply
<1>2. n' = n + 1
  <2>1. n' = Cardinality(S \cup {m.id})
    BY <1>1
  <2> QED
    BY <1>0, <1>1, <2>1, FS_AddElement
<1>3. /\ m.versionNo = n + 1 /\ m.at \in Instants /\ m.from \in Starts
      /\ costing'[m.id].versionNo = n + 1 /\ costing'[m.id].status = "in-force"
      /\ costing'[m.id].from = Start(m) /\ costing'[m.id].to = Null
      /\ m.pred # Null =>
           /\ costing'[m.pred].status = "superseded"
           /\ costing'[m.pred].versionNo = costing[m.pred].versionNo
           /\ costing'[m.pred].from = costing[m.pred].from /\ costing'[m.pred].to = m.at
      /\ \A i \in Ids \ {m.id, m.pred} : costing'[i] = costing[i]
  BY ApplyRows
<1>4. /\ {costing[i].versionNo : i \in S} = 1..n
      /\ \A i \in S : costing[i].status = "in-force" <=> costing[i].versionNo = n
      /\ \A i, j \in S : costing[j].versionNo = costing[i].versionNo + 1 =>
           /\ costing[i].to # Null /\ costing[j].from # Null
           /\ \/ costing[j].from = costing[i].to
              \/ costing[j].from \in Starts /\ costing[j].from > costing[i].to
  BY LastInForce DEF Settled, Chained
<1>5. \A i \in S : i \in Ids /\ costing[i].versionNo \in Nat \ {0} /\ costing[i].versionNo <= n
  BY <1>0, <1>4, VersionRows
<1>6. \A i \in S : costing'[i].versionNo = costing[i].versionNo /\ costing'[i].from = costing[i].from
  <2> TAKE i \in S
  <2>1. i # m.id /\ i \in Ids /\ i # Null
    BY <1>1, <1>5, NullAssumption DEF Ids
  <2>2. CASE i = m.pred
    BY <1>3, <2>1, <2>2
  <2>3. CASE i # m.pred
    BY <1>3, <2>1, <2>3
  <2> QED
    BY <2>2, <2>3
<1>7. {costing'[i].versionNo : i \in S'} = 1..n'
  <2>1. {costing'[i].versionNo : i \in S'} = {costing'[i].versionNo : i \in S} \cup {costing'[m.id].versionNo}
    BY <1>1
  <2>2. {costing'[i].versionNo : i \in S} = 1..n
    BY <1>4, <1>6
  <2>3. 1..(n + 1) = (1..n) \cup {n + 1}
    BY <1>0
  <2> QED
    BY <1>2, <1>3, <2>1, <2>2, <2>3
<1>8. \A i \in S' : costing'[i].status = "in-force" <=> costing'[i].versionNo = n'
  <2> SUFFICES ASSUME NEW i \in S, costing'[i].status = "in-force" PROVE FALSE
    BY <1>0, <1>1, <1>2, <1>3, <1>5, <1>6
  <2>1. m.pred # i
    <3>1. CASE m.pred = Null
      BY <3>1, <1>5, NullAssumption DEF Ids
    <3>2. CASE m.pred # Null
      BY <3>2, <1>3
    <3> QED
      BY <3>1, <3>2
  <2>2. costing[i].status = "in-force" /\ costing[i].versionNo = n
    BY <1>1, <1>3, <1>4, <1>5, <2>1
  <2>3. m.pred \in S /\ costing[m.pred].versionNo = n
    BY LastInForce
  <2> QED
    BY <2>1, <2>2, <2>3, VersionRows
<1>9. \A i, j \in S' : costing'[j].versionNo = costing'[i].versionNo + 1 =>
        /\ costing'[i].to # Null /\ costing'[j].from # Null
        /\ \/ costing'[j].from = costing'[i].to
           \/ costing'[j].from \in Starts /\ costing'[j].from > costing'[i].to
  <2> SUFFICES ASSUME NEW i \in S', NEW j \in S', costing'[j].versionNo = costing'[i].versionNo + 1
               PROVE  /\ costing'[i].to # Null /\ costing'[j].from # Null
                      /\ \/ costing'[j].from = costing'[i].to
                         \/ costing'[j].from \in Starts /\ costing'[j].from > costing'[i].to
    OBVIOUS
  <2>1. i \in S
    BY <1>0, <1>1, <1>3, <1>5, <1>6
  <2>2. CASE j \in S
    <3>1. costing[j].versionNo = costing[i].versionNo + 1 /\ costing[i].versionNo # n
      BY <1>0, <1>5, <1>6, <2>1, <2>2
    <3>2. i # m.pred
      <4>1. CASE m.pred = Null
        BY <4>1, <1>5, <2>1, NullAssumption DEF Ids
      <4>2. CASE m.pred # Null
        BY <4>2, <3>1, LastInForce
      <4> QED
        BY <4>1, <4>2
    <3>3. costing'[i] = costing[i]
      BY <1>1, <1>3, <1>5, <2>1, <3>2
    <3> QED
      BY <1>4, <1>6, <2>1, <2>2, <3>1, <3>3
  <2>3. CASE j = m.id
    <3>1. costing[i].versionNo = n
      BY <1>0, <1>3, <1>5, <1>6, <2>1, <2>3
    <3>2. m.pred = i /\ m.pred # Null
      <4>1. m.pred # Null /\ m.pred \in S /\ costing[m.pred].versionNo = n
        BY <2>1, LastInForce
      <4> QED
        BY <3>1, <4>1, <2>1, VersionRows
    <3>3. costing'[i].to = m.at /\ costing'[j].from = Start(m)
      BY <1>3, <2>3, <3>2
    <3>4. m.at \in Nat /\ Start(m) \in Nat /\ (m.from # Null => m.from = Start(m) /\ m.at < Start(m))
      BY <3>2, EndsInTime
    <3>5. m.from = Null => Start(m) = m.at
      BY <3>2 DEF Start
    <3> QED
      BY <1>3, <3>3, <3>4, <3>5, NullAssumption
  <2> QED
    BY <1>1, <2>2, <2>3
<1> QED
  BY <1>7, <1>8, <1>9 DEF Chained

-----------------------------------------------------------------------------
(* Versions until handlers overlap *)

\* Every step until then leaves the versions chained and the costings quoted at their lines.
LEMMA SettledStep ==
  ASSUME CostingInv, CostingInv', Settled, MCNext, ~overlapped'
  PROVE  Settled'
<1>0. TypeOK /\ Next
  BY DEF CostingInv, MCNext
<1>1. Alone'
  BY NotYet DEF Alone
<1>2. \A r \in Requests : Fresh(request[r])'
  BY <1>0, FreshStep
<1>3. ASSUME NEW gone, Gentle(gone)
      PROVE  /\ \A i \in Rows(costing') : Quoted(costing[i])'
             /\ \A scope \in Scopes : Chained(scope)'
  <2>1. \A i \in Rows(costing') : Quoted(costing[i])'
    BY <1>3 DEF Gentle, Quoted
  <2>2. \A scope \in Scopes : Chained(scope)'
    BY <1>3, ChainedGentle DEF Settled
  <2> QED
    BY <2>1, <2>2
<1>4. ASSUME NEW r \in Requests, ApplyWrite(r)
      PROVE  /\ \A i \in Rows(costing') : Quoted(costing[i])'
             /\ \A scope \in Scopes : Chained(scope)'
  <2>1. PICK m : m = request[r]
    OBVIOUS
  <2>2. /\ m.id \in Ids /\ Stored(m.id)
        /\ costing'[m.id].status = "in-force"
        /\ costing'[m.id].lines = costing[m.id].lines /\ costing'[m.id].quote = costing[m.id].quote
        /\ m.pred # Null => /\ m.pred \in InForce(m.scope)
                            /\ costing'[m.pred].status = "superseded"
                            /\ costing'[m.pred].lines = costing[m.pred].lines
                            /\ costing'[m.pred].quote = costing[m.pred].quote
        /\ \A i \in Ids \ {m.id, m.pred} : costing'[i] = costing[i]
    BY <1>4, <2>1, ApplyRows
  <2>3. costing[m.id].lines # NoLines
    BY <1>4, <2>1, <2>2 DEF Settled, Fresh, ApplyWrite, At
  <2>4. \A i \in Rows(costing) : Quoted(costing[i])
    BY DEF Settled
  <2>5. Quoted(costing'[m.id])
    BY <2>2, <2>3, <2>4 DEF Quoted, Stored
  <2>6. m.pred # Null => Quoted(costing'[m.pred])
    BY <2>2, <2>4 DEF Quoted, InForce, Version, Applied, Stored
  <2>7. ASSUME NEW i \in Rows(costing') PROVE Quoted(costing[i])'
    <3>1. i \in Ids /\ i # Null
      BY NullAssumption DEF Rows, Ids
    <3>2. CASE i \in {m.id, m.pred}
      BY <2>5, <2>6, <3>1, <3>2 DEF Quoted
    <3>3. CASE i \notin {m.id, m.pred}
      BY <2>2, <2>4, <3>1, <3>3 DEF Quoted, Rows
    <3> QED
      BY <3>2, <3>3
  <2>8. ASSUME NEW scope \in Scopes, scope # m.scope PROVE Chained(scope)'
    <3>1. Versions(scope)' = Versions(scope) /\ \A i \in Versions(scope) : costing'[i] = costing[i]
      BY <1>4, <2>1, <2>8, VersionsApply
    <3>2. {costing'[i].versionNo : i \in Versions(scope)'} = {costing[i].versionNo : i \in Versions(scope)}
      BY <3>1
    <3> QED
      BY <3>1, <3>2 DEF Settled, Chained
  <2>9. Chained(m.scope)'
    BY <1>4, <2>1, ChainedApply
  <2> QED
    BY <2>7, <2>8, <2>9
<1>5. (\A i \in Rows(costing') : Quoted(costing[i])') /\ \A scope \in Scopes : Chained(scope)'
  BY <1>0, <1>3, <1>4, GentleStep
<1> QED
  BY <1>1, <1>2, <1>5 DEF Settled

LEMMA UntilInit == MCInit => UntilInv
<1> SUFFICES ASSUME MCInit PROVE Settled
  BY DEF UntilInv
<1>1. \A i \in Ids : costing[i] = Unborn
  BY DEF MCInit, Init
<1>2. \A r \in Requests : request[r] = Idle
  BY DEF MCInit, Init
<1>3. Rows(costing) = {} /\ \A scope : Versions(scope) = {}
  BY <1>1 DEF Rows, Versions, Version, Applied, Stored
<1>4. Alone /\ \A r \in Requests : Fresh(request[r])
  BY <1>2 DEF Alone, Fresh, Idle
<1>5. ASSUME NEW scope \in Scopes PROVE Chained(scope)
  <2>1. Versions(scope) = {} /\ Cardinality(Versions(scope)) = 0 /\ 1..0 = {}
    BY <1>3, FS_EmptySet
  <2> QED
    BY <2>1 DEF Chained
<1> QED
  BY <1>3, <1>4, <1>5 DEF Settled

LEMMA UntilStep ==
  CostingInv /\ CostingInv' /\ UntilInv /\ [MCNext]_<<vars, overlapped>> => UntilInv'
<1> SUFFICES ASSUME CostingInv, CostingInv', UntilInv, [MCNext]_<<vars, overlapped>>, ~overlapped'
             PROVE  Settled'
  BY DEF UntilInv
<1>1. CASE MCNext
  <2>1. Settled
    BY <1>1, NotYet DEF UntilInv
  <2> QED
    BY <1>1, <2>1, SettledStep
<1>2. CASE UNCHANGED <<vars, overlapped>>
  <2>1. Settled
    BY <1>2 DEF UntilInv
  <2>2. costing' = costing /\ request' = request
    BY <1>2 DEF vars
  <2>3. \A scope : Versions(scope)' = Versions(scope)
    BY <2>2 DEF Versions, Version, Applied, Stored, Rows
  <2>4. Alone' /\ (\A r \in Requests : Fresh(request[r])') /\ \A scope \in Scopes : Chained(scope)'
    BY <2>1, <2>2, <2>3, SameTable DEF Settled, Alone, Fresh, Chained
  <2>5. \A i \in Rows(costing') : Quoted(costing[i])'
    BY <2>1, <2>2 DEF Settled, Quoted
  <2> QED
    BY <2>4, <2>5 DEF Settled
<1> QED
  BY <1>1, <1>2

\* It holds in every behaviour, together with what the clock keeps apart.
LEMMA UntilInvariant == MCSpec => [](CostingInv /\ UntilInv)
<1>1. MCInit => CostingInv /\ UntilInv
  BY CostingInit, UntilInit DEF MCInit
<1>2. CostingInv /\ UntilInv /\ [MCNext]_<<vars, overlapped>> => CostingInv' /\ UntilInv'
  <2>1. [MCNext]_<<vars, overlapped>> => [Next]_vars
    BY DEF MCNext
  <2> QED
    BY <2>1, CostingStep, UntilStep
<1> QED
  BY <1>1, <1>2, PTL DEF MCSpec

\* As long as handlers follow one another, the versions of a scope are numbered in the order
\* of their periods, one beginning where the one before it ended unless its start was named,
\* and every costing is quoted at its lines.
THEOREM VersionsHold == MCSpec => []VersionsUntilOverlap
<1>1. Settled => VersionsAreChained /\ QuoteMatchesLines
  BY DEF Settled, Chained, VersionsAreChained, QuoteMatchesLines, Quoted
<1>2. CostingInv /\ UntilInv => VersionsUntilOverlap
  BY <1>1 DEF UntilInv, VersionsUntilOverlap
<1> QED
  BY <1>2, UntilInvariant, PTL

-----------------------------------------------------------------------------
(* Past days until handlers overlap *)

LEMMA LeastNumber ==
  ASSUME NEW T \in SUBSET Nat, T # {}
  PROVE  \E x \in T : \A y \in T : x <= y
<1> DEFINE less == OpToRel(<, Nat)
<1>1. IsWellFoundedOn(less, Nat)
  BY NatLessThanWellFounded
<1>2. less = {ss \in Nat \X Nat : ss[1] < ss[2]}
  BY DEF OpToRel
<1> HIDE DEF less
<1>3. PICK x \in T : \A y \in T : ~(<<y, x>> \in less)
  BY <1>1, WFMin
<1>4. ASSUME NEW y \in T PROVE x <= y
  <2>1. <<y, x>> \in Nat \X Nat /\ <<y, x>>[1] = y /\ <<y, x>>[2] = x
    OBVIOUS
  <2>2. ~(y < x)
    BY <1>2, <1>3, <2>1
  <2> QED
    BY <2>2
<1> QED
  BY <1>4

\* Of the versions that cover a day one begins last.
LEMMA MostRecentIsOne ==
  ASSUME CostingInv, NEW scope \in Scopes, NEW day \in Days, Candidates(scope, day) # {}
  PROVE  MostRecent(Candidates(scope, day)) \in Candidates(scope, day)
<1> DEFINE S == Candidates(scope, day)
           Bound == 3 * MaxDay + 5
           Before(i) == IF costing[i].from = Null THEN Bound ELSE Bound - 1 - costing[i].from
           T == {Before(i) : i \in S}
<1>1. \A i \in S : costing[i].from \in Instants \cup {Null}
  <2>1. \A i \in S : i \in Ids /\ i \in Rows(costing)
    BY DEF Candidates, Version, Applied, Stored
  <2>2. \A i \in S : costing[i] \in CostingRow
    BY <2>1, StoredRow DEF CostingInv, TypeOK
  <2> QED
    BY <2>2 DEF CostingRow
<1>2. Null \notin Nat /\ MaxDay \in Nat
  BY NullAssumption, BoundsAssumption
<1>3. \A i \in S : Before(i) \in Nat
  BY <1>1, <1>2 DEF Instants
<1>4. \A i, j \in S : costing[i].from = costing[j].from => i = j
  BY ApartDoNotTie DEF NoTies
<1>5. PICK x \in T : \A y \in T : x <= y
  <2>1. T \in SUBSET Nat /\ T # {}
    BY <1>3
  <2> QED
    BY <2>1, LeastNumber
<1>6. PICK i \in S : x = Before(i)
  BY <1>5
<1>7. ASSUME NEW j \in S \ {i} PROVE StartsLater(i, j)
  <2>1. Before(i) <= Before(j) /\ costing[i].from # costing[j].from
    BY <1>4, <1>5, <1>6, <1>7
  <2> QED
    BY <1>1, <1>2, <2>1 DEF StartsLater, Instants
<1> QED
  BY <1>7 DEF MostRecent

\* Where the versions that cover a day are the same, so is the one that prices it.
LEMMA SameCandidates ==
  ASSUME NEW scope, NEW day, Candidates(scope, day)' = Candidates(scope, day),
         \A i \in Candidates(scope, day) : costing'[i].from = costing[i].from
  PROVE  MostRecent(Candidates(scope, day))' = MostRecent(Candidates(scope, day))
<1> DEFINE S == Candidates(scope, day)
<1>1. \A i, j \in S : StartsLater(i, j) <=> StartsLater(i, j)'
  BY DEF StartsLater
<1>2. S' = S
  OBVIOUS
<1> HIDE DEF S
<1>3. \A i \in S : (\A j \in S \ {i} : StartsLater(i, j)) <=> (\A j \in S' \ {i} : StartsLater(i, j)')
  BY <1>1, <1>2
<1>4. (CHOOSE i \in S : \A j \in S \ {i} : StartsLater(i, j))
        = (CHOOSE i \in S' : \A j \in S' \ {i} : StartsLater(i, j)')
  BY <1>2, <1>3
<1> QED
  BY <1>4 DEF MostRecent, S

LEMMA SameResolution ==
  ASSUME NEW slot, NEW day,
         \A scope \in {slot, TypeWide} :
           /\ Candidates(scope, day)' = Candidates(scope, day)
           /\ \A i \in Candidates(scope, day) : costing'[i].from = costing[i].from
  PROVE  Resolve(slot, day)' = Resolve(slot, day)
<1>1. MostRecent(Candidates(slot, day))' = MostRecent(Candidates(slot, day))
  BY SameCandidates
<1>2. MostRecent(Candidates(TypeWide, day))' = MostRecent(Candidates(TypeWide, day))
  BY SameCandidates
<1> QED
  BY <1>1, <1>2 DEF Resolve

\* What applies nothing leaves the versions that cover a day as they are.
LEMMA CandidatesGentle ==
  ASSUME NEW gone, Gentle(gone), NEW scope, scope # gone, NEW day
  PROVE  /\ Candidates(scope, day)' = Candidates(scope, day)
         /\ \A i \in Candidates(scope, day) : costing'[i].from = costing[i].from
<1>1. Versions(scope)' = Versions(scope) /\ \A i \in Versions(scope) : Kept(i)
  BY VersionsGentle
<1>2. Candidates(scope, day) = {i \in Versions(scope) : Covers(costing[i], day)}
  BY DEF Candidates, Versions
<1>3. Candidates(scope, day)' = {i \in Versions(scope)' : Covers(costing'[i], day)}
  BY DEF Candidates, Versions, Covers
<1>4. \A i \in Versions(scope) : Covers(costing'[i], day) <=> Covers(costing[i], day)
  BY <1>1 DEF Kept, SameTerms, Covers
<1> QED
  BY <1>1, <1>2, <1>3, <1>4 DEF Kept, SameTerms

\* The version in force begins after every other that is applied to its scope.
LEMMA InForceIsLatest ==
  ASSUME CostingInv, NEW scope, NEW day, NEW i \in Candidates(scope, day),
         costing[i].status = "in-force"
  PROVE  MostRecent(Candidates(scope, day)) = i
<1> DEFINE S == Candidates(scope, day)
<1>0. S \subseteq Versions(scope) /\ Null \notin Instants /\ Instants \subseteq Nat
  BY NullAssumption DEF Candidates, Versions, Instants
<1>1. \A j \in S : /\ costing[j] \in CostingRow /\ RowIsLawful(costing[j]) /\ RowTimes(costing[j])
                   /\ j # i => ~PeriodsMeetIn(costing[i], costing[j])
  <2>1. \A j \in S : j \in Rows(costing)
    BY DEF Candidates, Version, Applied, Stored
  <2>2. \A j \in S : costing[j] \in CostingRow
    BY <1>0, VersionRows
  <2>3. \A j \in S : j # i => ~PeriodsMeetIn(costing[i], costing[j])
    BY <1>0, VersionRows
  <2> QED
    BY <2>1, <2>2, <2>3 DEF CostingInv, Lawful
<1>2. costing[i].to = Null
  BY <1>0, VersionRows
<1>3. ASSUME NEW j \in S \ {i} PROVE StartsLater(i, j) /\ ~StartsLater(j, i)
  <2>1. ~EmptyPeriod(costing[i]) /\ ~EmptyPeriod(costing[j])
    BY <1>1, <1>2 DEF EmptyPeriod, RowTimes
  <2>2. EndsBefore(costing[j], costing[i])
    BY <1>1, <1>2, <2>1 DEF PeriodsMeetIn, EndsBefore
  <2>3. /\ costing[j].to \in Nat /\ costing[i].from \in Nat /\ costing[j].to <= costing[i].from
        /\ costing[j].from \in Nat \cup {Null} /\ costing[i].from # Null
    BY <1>0, <1>1, <2>2 DEF EndsBefore, CostingRow
  <2>4. costing[j].from # Null => costing[j].from < costing[j].to
    BY <1>0, <1>1, <2>2, <2>3 DEF EndsBefore, RowIsLawful, RowTimes
  <2>5. costing[j].from # Null => costing[j].from < costing[i].from
    BY <2>3, <2>4
  <2>6. costing[j].from # costing[i].from
    BY <2>3, <2>5
  <2> QED
    BY <2>3, <2>5, <2>6 DEF StartsLater
<1> HIDE DEF S
<1>4. i \in S
  BY DEF S
<1>5. (CHOOSE k \in S : \A j \in S \ {k} : StartsLater(k, j)) = i
  BY <1>3, <1>4
<1> QED
  BY <1>5 DEF MostRecent, S

\* An application leaves the versions that cover a day of another scope as they are.
LEMMA CandidatesElsewhere ==
  ASSUME CostingInv, Settled, NEW r \in Requests, ApplyWrite(r), NEW m, m = request[r],
         NEW scope, scope # m.scope, NEW day
  PROVE  /\ Candidates(scope, day)' = Candidates(scope, day)
         /\ \A i \in Candidates(scope, day) : costing'[i].from = costing[i].from
<1>1. Versions(scope)' = Versions(scope) /\ \A i \in Versions(scope) : costing'[i] = costing[i]
  BY VersionsApply
<1>2. Candidates(scope, day) = {i \in Versions(scope) : Covers(costing[i], day)}
  BY DEF Candidates, Versions
<1>3. Candidates(scope, day)' = {i \in Versions(scope)' : Covers(costing'[i], day)}
  BY DEF Candidates, Versions, Covers
<1> QED
  BY <1>1, <1>2, <1>3

\* Of its own scope it leaves the day as it is, unless it ends the version in force at a
\* reading taken before the day was over.
LEMMA CandidatesApply ==
  ASSUME CostingInv, Settled, NEW r \in Requests, ApplyWrite(r), NEW m, m = request[r],
         m.pred # Null, NEW day \in Days
  PROVE  \/ /\ Candidates(m.scope, day)' = Candidates(m.scope, day)
            /\ \A i \in Candidates(m.scope, day) : costing'[i].from = costing[i].from
         \/ /\ m.pred \in Candidates(m.scope, day) /\ costing[m.pred].status = "in-force"
            /\ costing'[m.pred].to \in 0..(3 * day + 2)
<1> DEFINE S == Versions(m.scope)
<1>0. day \in Nat /\ Null \notin Nat
  BY NullAssumption DEF Days
<1>1. /\ costing'[m.id].from = Start(m) /\ costing'[m.id].to = Null
      /\ costing'[m.pred].from = costing[m.pred].from /\ costing'[m.pred].to = m.at
      /\ costing[m.pred].status = "in-force"
      /\ \A i \in Ids \ {m.id, m.pred} : costing'[i] = costing[i]
  <2>1. m.pred \in InForce(m.scope)
    BY ApplyRows
  <2> QED
    BY <2>1, ApplyRows DEF InForce
<1>2. S' = S \cup {m.id} /\ m.id \notin S /\ m.pred \in S
  BY VersionsApply, LastInForce
<1>3. costing[m.pred].to = Null
  BY <1>1, <1>2, VersionRows
<1>4. /\ m.at \in Nat /\ Start(m) \in Nat /\ m.at <= Start(m)
      /\ costing[m.pred].from # Null => costing[m.pred].from \in Nat /\ costing[m.pred].from < m.at
  BY EndsInTime
<1>5. Candidates(m.scope, day) = {i \in S : Covers(costing[i], day)}
  BY DEF Candidates, Versions
<1>6. Candidates(m.scope, day)' = {i \in S' : Covers(costing'[i], day)}
  BY DEF Candidates, Versions, Covers
<1>7. \A i \in S \ {m.pred} : costing'[i] = costing[i]
  <2>1. S \subseteq Ids
    BY DEF Versions
  <2> QED
    BY <1>1, <1>2, <2>1
<1>8. CASE m.at >= 3 * day + 3
  <2>1. ~Covers(costing'[m.id], day)
    BY <1>0, <1>1, <1>4, <1>8 DEF Covers
  <2>2. Covers(costing'[m.pred], day) <=> Covers(costing[m.pred], day)
    <3>1. m.at > 3 * day
      BY <1>0, <1>4, <1>8
    <3> QED
      BY <1>0, <1>1, <1>3, <3>1 DEF Covers
  <2>3. Candidates(m.scope, day)' = Candidates(m.scope, day)
    BY <1>2, <1>5, <1>6, <1>7, <2>1, <2>2
  <2> QED
    BY <1>1, <1>5, <1>7, <2>3
<1>9. CASE m.at < 3 * day + 3
  <2>1. Covers(costing[m.pred], day)
    BY <1>0, <1>3, <1>4, <1>9 DEF Covers
  <2> QED
    BY <1>0, <1>1, <1>2, <1>4, <1>5, <1>9, <2>1
<1> QED
  BY <1>0, <1>4, <1>8, <1>9

\* Until handlers overlap, what is applied stands while its slot does.
LEMMA KeptStep == ASSUME CostingInv, Settled, Next PROVE AppliedIsKept
<1> SUFFICES ASSUME NEW i \in Ids, Applied(i), costing[i].scope \in slots' \cup {TypeWide}
             PROVE  /\ costing'[i] \notin {Unborn, Removed}
                    /\ costing'[i].lines = costing[i].lines
                    /\ costing'[i].quote = costing[i].quote
                    /\ costing'[i].versionNo = costing[i].versionNo
  BY DEF AppliedIsKept
<1>1. ASSUME NEW gone, Gentle(gone) PROVE Kept(i)
  BY <1>1 DEF Gentle
<1>2. ASSUME NEW r \in Requests, ApplyWrite(r)
      PROVE  Kept(i) \/ /\ costing'[i] \in CostingRow /\ costing'[i].lines = costing[i].lines
                        /\ costing'[i].quote = costing[i].quote
                        /\ costing'[i].versionNo = costing[i].versionNo
  <2>1. PICK m : m = request[r]
    OBVIOUS
  <2>2. i # m.id /\ i # Null
    BY <1>2, <2>1, ApplyRows, NullAssumption DEF Applied, Ids
  <2>3. CASE i = m.pred
    BY <1>2, <2>1, <2>2, <2>3, ApplyRows
  <2>4. CASE i # m.pred
    <3>1. costing'[i] = costing[i]
      BY <1>2, <2>1, <2>2, <2>4, ApplyRows
    <3> QED
      BY <3>1 DEF Kept, SameTerms, Applied, Stored, Rows
  <2> QED
    BY <2>3, <2>4
<1>3. Kept(i) \/ /\ costing'[i] \in CostingRow /\ costing'[i].lines = costing[i].lines
                 /\ costing'[i].quote = costing[i].quote
                 /\ costing'[i].versionNo = costing[i].versionNo
  BY <1>1, <1>2, GentleStep DEF CostingInv
<1> QED
  BY <1>3 DEF Kept, SameTerms, Rows, CostingRow, Unborn, Removed

\* Until handlers overlap, a day that is over keeps its price.
LEMMA PastStep == ASSUME CostingInv, Settled, Next PROVE PastPricesStand
<1> SUFFICES ASSUME NEW slot \in Slots, NEW day \in Days, NEW i, i = Resolve(slot, day),
                    i # Null, slot \in slots'
             PROVE  \/ Resolve(slot, day)' = i
                    \/ costing'[i].to \in 0..(3 * day + 2)
                    \/ costing[i].scope = TypeWide /\ Versions(slot) = {}
  BY DEF PastPricesStand
<1> DEFINE own == Candidates(slot, day)
           wide == Candidates(TypeWide, day)
<1>0. slot # TypeWide /\ TypeWide \in Scopes /\ slot \in Scopes
  BY TypeWideAssumption DEF Scopes
<1>1. i = IF own # {} THEN MostRecent(own) ELSE MostRecent(wide)
  BY DEF Resolve
<1>2. own = {} => wide # {}
  BY DEF Resolve
<1>3. ASSUME NEW gone, Gentle(gone) PROVE Resolve(slot, day)' = i
  <2>1. gone # slot /\ gone # TypeWide
    BY <1>3 DEF Gentle
  <2> QED
    BY <1>3, <2>1, CandidatesGentle, SameResolution
<1>4. ASSUME NEW r \in Requests, ApplyWrite(r)
      PROVE  \/ Resolve(slot, day)' = i
             \/ costing'[i].to \in 0..(3 * day + 2)
             \/ costing[i].scope = TypeWide /\ Versions(slot) = {}
  <2>1. PICK m : m = request[r]
    OBVIOUS
  <2>2. \A scope : scope # m.scope =>
          /\ Candidates(scope, day)' = Candidates(scope, day)
          /\ \A j \in Candidates(scope, day) : costing'[j].from = costing[j].from
    BY <1>4, <2>1, CandidatesElsewhere
  <2>3. CASE /\ Candidates(m.scope, day)' = Candidates(m.scope, day)
             /\ \A j \in Candidates(m.scope, day) : costing'[j].from = costing[j].from
    <3>1. \A scope \in {slot, TypeWide} :
            /\ Candidates(scope, day)' = Candidates(scope, day)
            /\ \A j \in Candidates(scope, day) : costing'[j].from = costing[j].from
      BY <2>2, <2>3
    <3> QED
      BY <3>1, SameResolution
  <2>4. CASE m.scope \notin {slot, TypeWide}
    BY <2>2, <2>4, SameResolution
  <2>5. CASE m.scope = TypeWide /\ own # {}
    <3>1. MostRecent(own)' = MostRecent(own) /\ own' = own
      BY <1>0, <2>2, <2>5, SameCandidates
    <3>2. Resolve(slot, day)' = MostRecent(own)'
      BY <2>5, <3>1 DEF Resolve
    <3> QED
      BY <1>1, <2>5, <3>1, <3>2
  <2>6. ASSUME m.pred # Null, m.pred \in Candidates(m.scope, day), costing[m.pred].status = "in-force",
               costing'[m.pred].to \in 0..(3 * day + 2),
               m.scope = slot \/ (m.scope = TypeWide /\ own = {})
        PROVE  costing'[i].to \in 0..(3 * day + 2)
    <3>1. MostRecent(Candidates(m.scope, day)) = m.pred
      BY <2>6, InForceIsLatest
    <3>2. i = MostRecent(Candidates(m.scope, day))
      BY <1>1, <2>6
    <3> QED
      BY <2>6, <3>1, <3>2
  <2>7. CASE m.pred = Null /\ m.scope = slot
    <3>1. Versions(slot) = {}
      BY <1>4, <2>1, <2>7, LastInForce
    <3>2. own = {}
      BY <3>1 DEF Versions, Candidates
    <3>3. i \in wide
      BY <1>0, <1>1, <1>2, <3>2, MostRecentIsOne
    <3> QED
      BY <3>1, <3>3 DEF Candidates, Version
  <2>8. CASE m.pred = Null /\ m.scope = TypeWide
    <3>1. Versions(TypeWide) = {}
      BY <1>4, <2>1, <2>8, LastInForce
    <3>2. wide = {}
      BY <3>1 DEF Versions, Candidates
    <3> QED
      BY <1>2, <2>5, <2>8, <3>2
  <2>9. m.pred # Null =>
          \/ /\ Candidates(m.scope, day)' = Candidates(m.scope, day)
             /\ \A j \in Candidates(m.scope, day) : costing'[j].from = costing[j].from
          \/ /\ m.pred \in Candidates(m.scope, day) /\ costing[m.pred].status = "in-force"
             /\ costing'[m.pred].to \in 0..(3 * day + 2)
    BY <1>4, <2>1, CandidatesApply
  <2>10. CASE m.scope = slot
    BY <2>3, <2>6, <2>7, <2>9, <2>10
  <2>11. CASE m.scope = TypeWide
    BY <2>3, <2>5, <2>6, <2>8, <2>9, <2>11
  <2> QED
    BY <2>4, <2>10, <2>11
<1> QED
  BY <1>3, <1>4, GentleStep DEF CostingInv

\* As long as handlers follow one another, a version keeps its figures and is kept while its
\* slot is, and a day that is over keeps the version that priced it: unless a clock read
\* before it was over ended that one, or a slot priced by the whole type got its first own.
THEOREM PastHolds == MCSpec => PastUntilOverlap
<1>1. CostingInv /\ UntilInv /\ [MCNext]_<<vars, overlapped>> =>
        [~overlapped' => AppliedIsKept /\ PastPricesStand]_vars
  <2> SUFFICES ASSUME CostingInv, UntilInv, MCNext, ~overlapped'
               PROVE  AppliedIsKept /\ PastPricesStand
    OBVIOUS
  <2>1. Settled /\ Next
    BY NotYet DEF UntilInv, MCNext
  <2> QED
    BY <2>1, KeptStep, PastStep
<1> QED
  BY <1>1, UntilInvariant, PTL DEF MCSpec, PastUntilOverlap
=============================================================================
