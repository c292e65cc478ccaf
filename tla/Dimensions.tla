----------------------------- MODULE Dimensions -----------------------------
(***************************************************************************)
(* FundsService, ProjectsService and ActivitiesService: a project is       *)
(* carried in one fund, and an activity names the fund and project a line  *)
(* coded to it takes by default.                                           *)
(***************************************************************************)
EXTENDS Masters

-----------------------------------------------------------------------------
(* funds *)

FundCreate ==
  /\ \E f \in Funds, body \in Offers.newFund :
       /\ fund[f] = Unborn
       /\ fund' = [fund EXCEPT ![f] = New(body)]
  /\ UNCHANGED <<chart, project, activity, voucher, asset, settings, request>>

FirstFundCheck(body) ==
  IF body.opening # Keep THEN "opening" ELSE IF body.active = FALSE THEN "active" ELSE "write"

FundLoad(r) ==
  /\ \E f \in Funds, body \in Offers.fund :
       /\ fund[f] # Unborn
       /\ Accept(r, [op |-> "fund", pc |-> FirstFundCheck(body), id |-> f, body |-> body])
  /\ UNCHANGED tables

EntriesIn(f) == {e \in Entries : Line(e).fund = f}

FundOpening(r) ==
  /\ At(r, "fund", "opening")
  /\ EntriesIn(request[r].id) = {}
  /\ Advance(r, IF request[r].body.active = FALSE THEN "active" ELSE "write")
  /\ UNCHANGED tables

UnderWay == {"planning", "active"}

OpenProjects(f) ==
  {p \in Projects : project[p].active /\ project[p].fund = f /\ project[p].status \in UnderWay}

FundActive(r) ==
  /\ At(r, "fund", "active")
  /\ OpenProjects(request[r].id) = {}
  /\ Advance(r, "write")
  /\ UNCHANGED tables

FundWrite(r) ==
  /\ At(r, "fund", "write")
  /\ fund' = [fund EXCEPT ![request[r].id] = Patched(@, request[r].body)]
  /\ Finish(r)
  /\ UNCHANGED <<chart, project, activity, voucher, asset, settings>>

-----------------------------------------------------------------------------
(* projects *)

TakesProjects(f) == fund[f].active     \* assertFundIsActive

ProjectCreateLoad(r) ==
  /\ \E body \in Offers.newProject :
       /\ TakesProjects(body.fund)
       /\ Accept(r, [op |-> "createProject", pc |-> "write", body |-> body])
  /\ UNCHANGED tables

\* is_active is left to its default whatever the status.
ProjectCreate(r) ==
  /\ At(r, "createProject", "write")
  /\ \E p \in Projects :
       /\ project[p] = Unborn
       /\ project' = [project EXCEPT ![p] = New(request[r].body)]
  /\ Finish(r)
  /\ UNCHANGED <<chart, fund, activity, voucher, asset, settings>>

ProjectLoad(r) ==
  /\ \E p \in Projects, body \in Offers.project :
       /\ project[p] # Unborn
       /\ Accept(r, [op |-> "project", id |-> p, body |-> body,
                     pc |-> IF body.fund \in {Keep, project[p].fund} THEN "write" ELSE "count"])
  /\ UNCHANGED tables

\* Mutant: a project moves with its entries.
BugEntriesOf(p) == {}
EntriesOf(p) == {e \in Entries : Line(e).project = p}

ProjectCount(r) ==
  /\ At(r, "project", "count")
  /\ EntriesOf(request[r].id) = {}
  /\ Advance(r, "fund")
  /\ UNCHANGED tables

ProjectFund(r) ==
  /\ At(r, "project", "fund")
  /\ TakesProjects(request[r].body.fund)
  /\ Advance(r, "write")
  /\ UNCHANGED tables

\* activityFor: unless the body sets it, is_active follows a status it names.
WithActivity(body) ==
  IF body.active = Keep /\ body.status # Keep
  THEN [body EXCEPT !.active = body.status \in UnderWay] ELSE body

ProjectWrite(r) ==
  /\ At(r, "project", "write")
  /\ project' = [project EXCEPT ![request[r].id] = Patched(@, WithActivity(request[r].body))]
  /\ Finish(r)
  /\ UNCHANGED <<chart, fund, activity, voucher, asset, settings>>

-----------------------------------------------------------------------------
(* activities: the body of an update is laid over the loaded row, checked, *)
(* and all of it written back                                              *)

ActivityLoad(r) ==
  /\ \/ \E body \in Offers.newActivity :
          Accept(r, [op |-> "createActivity", pc |-> "fund", id |-> Null, body |-> body])
     \/ \E a \in Activities, body \in Offers.activity :
          /\ activity[a] # Unborn
          /\ Accept(r, [op |-> "activity", pc |-> "fund", id |-> a,
                        body |-> [Patched(activity[a], body) EXCEPT !.active = body.active]])
  /\ UNCHANGED tables

Activity(r) == request[r].op \in {"createActivity", "activity"}

\* assertCodingIsUsable, as far as the fund.
ActivityFund(r) ==
  /\ Activity(r) /\ request[r].pc = "fund"
  /\ LET f == request[r].body.fund
     IN f # Null => fund[f].active
  /\ Advance(r, IF request[r].body.project = Null THEN "write" ELSE "project")
  /\ UNCHANGED tables

CarriedIn(p, f) == project[p] # Unborn /\ project[p].fund = f

ActivityProject(r) ==
  /\ Activity(r) /\ request[r].pc = "project"
  /\ request[r].body.fund # Null
  /\ CarriedIn(request[r].body.project, request[r].body.fund)
  /\ Advance(r, "write")
  /\ UNCHANGED tables

\* A deactivation is refused while a pooja type names the activity: Abort.
ActivityWrite(r) ==
  /\ Activity(r) /\ request[r].pc = "write"
  /\ IF request[r].op = "activity"
     THEN activity' = [activity EXCEPT ![request[r].id] = Patched(@, request[r].body)]
     ELSE \E a \in Activities :
            /\ activity[a] = Unborn
            /\ activity' = [activity EXCEPT ![a] = New(request[r].body)]
  /\ Finish(r)
  /\ UNCHANGED <<chart, fund, project, voucher, asset, settings>>

-----------------------------------------------------------------------------

FundStep(r) == FundLoad(r) \/ FundOpening(r) \/ FundActive(r) \/ FundWrite(r)

ProjectStep(r) ==
  \/ ProjectCreateLoad(r) \/ ProjectCreate(r)
  \/ ProjectLoad(r) \/ ProjectCount(r) \/ ProjectFund(r) \/ ProjectWrite(r)

ActivityStep(r) ==
  \/ ActivityLoad(r) \/ ActivityFund(r) \/ ActivityProject(r) \/ ActivityWrite(r)
=============================================================================
