---------------------------- MODULE SpecMigration ----------------------------
(***************************************************************************)
(* The migration of specifications into applications: a dry run classifies *)
(* them, an owner confirms the report, and the execution follows the        *)
(* report (services/application, internal/migration and cmd).               *)
(***************************************************************************)
CONSTANTS
    Specs

VARIABLES
    row,        \* SpecRow by specification, or Purged
    report,     \* the CSV of the last dry run: a classification by specification
    confirmed,  \* the confirmation token is set
    wasOrphan   \* history: the specifications that were orphans at that dry run

vars == <<row, report, confirmed, wasOrphan>>

None == "none"
Purged == [status |-> "purged"]
NoReport == [s \in {} |-> None]
Rows == [status : {"draft", "approved", "archived"}, evidence : BOOLEAN,
         recent : BOOLEAN, app : {None, "app"}]

(* The rule of the design, which the code quotes: no deployment, no        *)
(* onboarding, no runtime, not pinned, no recent activity, and proposed or  *)
(* draft.                                                                   *)
Orphan(r) == ~r.evidence /\ ~r.recent /\ r.status = "draft"

Retainable(r) == r.evidence \/ r.status = "approved" \/ r.recent

Classify(r) ==
    IF ~Retainable(r) /\ r.status = "draft" THEN "orphan"
    ELSE IF r.app # None THEN "retain_with_target_app"
    ELSE "retain_unassigned"

Init ==
    /\ row = [s \in Specs |-> [status |-> "draft", evidence |-> FALSE,
                              recent |-> FALSE, app |-> None]]
    /\ report = NoReport /\ confirmed = FALSE
    /\ wasOrphan = {}

Present == {s \in Specs : row[s] # Purged}

DryRun ==
    /\ report' = [s \in Present |-> Classify(row[s])]
    /\ wasOrphan' = {s \in Present : Orphan(row[s])}
    /\ UNCHANGED <<row, confirmed>>

(* The token says nothing of the report it was given for.                  *)
Confirm ==
    /\ report # NoReport
    /\ confirmed' = TRUE
    /\ UNCHANGED <<row, report, wasOrphan>>

(* PlanExecution and Apply: whatever the rows have become.                 *)
Purge == {s \in DOMAIN report : report[s] = "orphan"}

Execute ==
    /\ report # NoReport /\ confirmed
    /\ row' = [s \in Specs |->
         IF s \in Purge THEN Purged
         ELSE IF s \in DOMAIN report /\ row[s] # Purged THEN [row[s] EXCEPT !.app = "app"]
         ELSE row[s]]
    /\ UNCHANGED <<report, confirmed, wasOrphan>>

(* Work goes on meanwhile.                                                 *)
Activity(s) ==
    /\ s \in Present
    /\ \E r \in Rows : r.app = row[s].app /\ row' = [row EXCEPT ![s] = r]
    /\ UNCHANGED <<report, confirmed, wasOrphan>>

Next == DryRun \/ Confirm \/ Execute \/ \E s \in Specs : Activity(s)

Spec == Init /\ [][Next]_vars

TypeOK ==
    /\ row \in [Specs -> Rows \cup {Purged}]
    /\ confirmed \in BOOLEAN /\ wasOrphan \subseteq Specs

(* Only what the rule calls an orphan at the dry run whose report was      *)
(* executed is purged: recent activity or any evidence keeps a              *)
(* specification (Classify, PlanExecution).                                 *)
PurgesOrphans == Purge \subseteq wasOrphan
=============================================================================
