---------------------------- MODULE AgentSession ----------------------------
(***************************************************************************)
(* One agent-mode session of alfred (agent_mode/executor.py, router.py,    *)
(* store.py, planner.py) with its rows in Postgres.                        *)
(*                                                                         *)
(* A run is one activation of execute_session: the task of the start or of *)
(* a follow-up, or the request that resumes.  Every await of a run is a    *)
(* point where requests and other runs can come between; an action is what *)
(* a run does from one such point to the next that matters.  The session   *)
(* row (status, plan, revision) and the step rows are shared; what a run   *)
(* has loaded of them is its own copy, and may be stale.                   *)
(***************************************************************************)
EXTENDS Naturals, Sequences, FiniteSets

CONSTANTS
    ToolSteps,       \* how many tool steps an initial plan has before its final one
    MaxRuns,         \* runs of the session
    MaxItems,        \* plan entries ever written: initial, fixes, follow-ups
    MaxDisruptions   \* cancellations, restarts and database failures

VARIABLES
    session,      \* the row of alfred_agent_session
    rows,         \* alfred_agent_step, in order of insertion
    runs,
    followUp,     \* a POST .../messages between its read and its write
    calls,        \* history: the items whose tool or workflow was called
    minted,       \* plan entries written so far
    disruptions,
    calm          \* history: no request or failure met a run in progress

vars == <<session, rows, runs, followUp, calls, minted, disruptions, calm>>

(* The initial plans: numbered from 0, as the prompt of the model asks.    *)
Entry(i, kind) == [item |-> i, idx |-> i - 1, kind |-> kind]
Plan(n) == [i \in 1 .. n + 1 |-> Entry(i, IF i <= n THEN "tool" ELSE "final")]
Plans   == {Plan(n) : n \in ToolSteps}

RunIds    == 1 .. MaxRuns
Paused    == {"paused_for_approval", "paused_for_budget"}
Terminal  == {"completed", "aborted", "failed"}
Done      == {"succeeded", "skipped", "cancelled"}
NoRun     == [pc |-> "none"]
Over      == [pc |-> "over"]
Nothing   == [read |-> FALSE]

Active(r) == runs[r].pc \notin {"none", "over"}
Idle      == \A r \in RunIds : ~Active(r)
At(r, pc) == runs[r].pc = pc
Goto(r, pc) == runs' = [runs EXCEPT ![r].pc = pc]
End(r)      == runs' = [runs EXCEPT ![r] = Over]

(* The task or request that calls execute_session from an index; `safe` is *)
(* the wrapper _safe_execute, which resume does not have.                   *)
NewRun(pc, from, safe) ==
    [pc |-> pc, from |-> from, safe |-> safe, plan |-> <<>>, revision |-> 0,
     seen |-> <<>>, pos |-> 1, row |-> 0]

Launch(r, pc, from, safe) ==
    /\ At(r, "none")
    /\ \A q \in 1 .. r - 1 : ~At(q, "none")
    /\ runs' = [runs EXCEPT ![r] = NewRun(pc, from, safe)]

-----------------------------------------------------------------------------
Init ==
    /\ session = [status |-> "none", plan |-> <<>>, revision |-> 0]
    /\ rows = <<>>
    /\ runs = [r \in RunIds |-> NoRun]
    /\ followUp = Nothing
    /\ calls = <<>>
    /\ minted = 0
    /\ disruptions = 0
    /\ calm = TRUE

(* The indices are the positions again, from 0.                            *)
Renumber(plan) == [k \in DOMAIN plan |-> [plan[k] EXCEPT !.idx = k - 1]]

(* build_initial_plan with a start_step: the entry that matches it (at k)  *)
(* goes to the front; if there is none (k = 0), one is put there.           *)
StartingWith(plan, k) ==
    IF k = 0
    THEN Renumber(<<[item |-> Len(plan) + 1, idx |-> 0, kind |-> "tool"]>> \o plan)
    ELSE Renumber(<<plan[k]>> \o SubSeq(plan, 1, k - 1)
                              \o SubSeq(plan, k + 1, Len(plan)))

(* POST /sessions: the plan is built, the row inserted, the task created.  *)
StartSession ==
    /\ session.status = "none"
    /\ \E p \in Plans :
          \E plan \in {p} \cup {StartingWith(p, k) : k \in 0 .. Len(p)} :
             /\ session' = [status |-> "planning", plan |-> plan, revision |-> 1]
             /\ minted' = Len(plan)
    /\ Launch(1, "starting", 0, TRUE)
    /\ UNCHANGED <<rows, followUp, calls, disruptions, calm>>

(* execute_session starts, or calls itself after a replanning.             *)
MarkRunning(r) ==
    /\ At(r, "starting")
    /\ session' = [session EXCEPT !.status = "running"]
    /\ Goto(r, "loading")
    /\ UNCHANGED <<rows, followUp, calls, minted, disruptions, calm>>

Load(r) ==
    /\ At(r, "loading")
    /\ runs' = [runs EXCEPT ![r].pc = "next", ![r].pos = 1,
                  ![r].plan = session.plan, ![r].revision = session.revision,
                  ![r].seen = rows]
    /\ UNCHANGED <<session, rows, followUp, calls, minted, disruptions, calm>>

(* steps_by_idx, as loaded: the rows of an index, of which one is used.    *)
RowsAt(r, i) == {k \in DOMAIN runs[r].seen : runs[r].seen[k].idx = i}

(* An entry is passed over if it is before from_idx or its row was final   *)
(* when it was loaded.                                                      *)
Skipped(r, p, k) ==
    \/ p.idx < runs[r].from
    \/ k # 0 /\ runs[r].seen[k].status \in Done

RowOf(r, p) == IF RowsAt(r, p.idx) = {} THEN {0} ELSE RowsAt(r, p.idx)

(* The loop has come to position m, everything before it passed over.      *)
Reached(r, m) ==
    /\ At(r, "next")
    /\ \A n \in runs[r].pos .. m - 1 :
          LET p == runs[r].plan[n] IN \E k \in RowOf(r, p) : Skipped(r, p, k)

(* store.upsert_step: a row is inserted (k = 0), or has its status set.    *)
Upserted(k, row) ==
    IF k = 0 THEN Append(rows, row) ELSE [rows EXCEPT ![k].status = row.status]

(* The row that is there is used again, with the tool it was written with. *)
StartStep(r) ==
    /\ At(r, "next")
    /\ \E m \in runs[r].pos .. Len(runs[r].plan) :
          /\ Reached(r, m)
          /\ LET p == runs[r].plan[m] IN
                \E k \in RowOf(r, p) :
                   /\ ~Skipped(r, p, k)
                   /\ rows' = Upserted(k, [idx |-> p.idx, item |-> p.item,
                                           kind |-> p.kind, status |-> "running"])
                   /\ runs' = [runs EXCEPT ![r].pc = "gates", ![r].pos = m,
                                 ![r].row = IF k = 0 THEN Len(rows) + 1 ELSE k]
    /\ UNCHANGED <<session, followUp, calls, minted, disruptions, calm>>

CompleteSession(r) ==
    /\ At(r, "next") /\ Reached(r, Len(runs[r].plan) + 1)
    /\ session' = [session EXCEPT !.status = "completed"]
    /\ End(r)
    /\ UNCHANGED <<rows, followUp, calls, minted, disruptions, calm>>

-----------------------------------------------------------------------------
(* _dispatch_step.  A final step only records its summary.                 *)
FinalStep(r) ==
    /\ At(r, "gates") /\ rows[runs[r].row].kind = "final"
    /\ Goto(r, "succeeded")
    /\ UNCHANGED <<session, rows, followUp, calls, minted, disruptions, calm>>

(* Self-protection, permission and policy end the session.                 *)
AbortSession(r) ==
    /\ At(r, "gates") /\ rows[runs[r].row].kind # "final"
    /\ rows' = [rows EXCEPT ![runs[r].row].status = "cancelled"]
    /\ session' = [session EXCEPT !.status = "aborted"]
    /\ End(r)
    /\ UNCHANGED <<followUp, calls, minted, disruptions, calm>>

(* The budget is used up, or the approval is not granted with the request. *)
PauseFor(r) ==
    /\ At(r, "gates") /\ rows[runs[r].row].kind # "final"
    /\ \E s \in Paused :
          /\ rows' = [rows EXCEPT ![runs[r].row].status = s]
          /\ session' = [session EXCEPT !.status = s]
    /\ End(r)
    /\ UNCHANGED <<followUp, calls, minted, disruptions, calm>>

(* Policy allows, or the approval was granted with the request: the tool   *)
(* or the workflow is called.  An error counts as a failed step.           *)
Call(r) ==
    /\ At(r, "gates") /\ rows[runs[r].row].kind # "final"
    /\ calls' = Append(calls, rows[runs[r].row].item)
    /\ \E out \in {"succeeded", "failed"} :
          /\ out = "failed" => minted < MaxItems
          /\ Goto(r, out)
    /\ UNCHANGED <<session, rows, followUp, minted, disruptions, calm>>

(* A permission, policy, approval or budget client fails: the step fails   *)
(* without having been called.                                              *)
GateFails(r) ==
    /\ At(r, "gates") /\ rows[runs[r].row].kind # "final"
    /\ minted < MaxItems
    /\ Goto(r, "failed")
    /\ UNCHANGED <<session, rows, followUp, calls, minted, disruptions, calm>>

StepSucceeded(r) ==
    /\ At(r, "succeeded")
    /\ rows' = [rows EXCEPT ![runs[r].row].status = "succeeded"]
    /\ runs' = [runs EXCEPT ![r].pc = "next", ![r].pos = @ + 1]
    /\ UNCHANGED <<session, followUp, calls, minted, disruptions, calm>>

(* planner.replan: a fix step after the failed one, then all are numbered. *)
Replan(plan, idx, item) ==
    LET hits == {k \in DOMAIN plan : plan[k].idx = idx}
        at   == CHOOSE k \in hits : \A m \in hits : k <= m
        fix  == [item |-> item, idx |-> idx + 1, kind |-> "tool"]
    IN  Renumber(SubSeq(plan, 1, at) \o <<fix>> \o SubSeq(plan, at + 1, Len(plan)))

(* The failed row, the new plan (made from the plan this run has) and the  *)
(* new revision are written; execute_session goes on behind the step.       *)
StepFailed(r) ==
    /\ At(r, "failed") /\ minted < MaxItems
    /\ LET idx  == runs[r].plan[runs[r].pos].idx
           plan == Replan(runs[r].plan, idx, minted + 1)
       IN  /\ session' = [session EXCEPT !.plan = plan,
                                         !.revision = runs[r].revision + 1]
           /\ runs' = [runs EXCEPT ![r].pc = "starting", ![r].from = idx + 1]
    /\ rows' = [rows EXCEPT ![runs[r].row].status = "failed"]
    /\ minted' = minted + 1
    /\ UNCHANGED <<followUp, calls, disruptions, calm>>

-----------------------------------------------------------------------------
(* POST .../_resume.  The status is read ...                               *)
Resume(r) ==
    /\ session.status \in Paused
    /\ Launch(r, "resuming", 0, FALSE)
    /\ calm' = (calm /\ Idle /\ ~followUp.read)
    /\ UNCHANGED <<session, rows, followUp, calls, minted, disruptions>>

Max0(S) == IF S = {} THEN 0 ELSE CHOOSE m \in S : \A n \in S : n <= m

(* ... the rows say where to go on: at the first paused one in order of    *)
(* index, or behind the last final one.                                    *)
ResumePoint ==
    LET paused == {rows[k].idx : k \in {k \in DOMAIN rows : rows[k].status \in Paused}}
        final  == {rows[k].idx + 1 : k \in {k \in DOMAIN rows : rows[k].status \in Done}}
    IN  IF paused # {} THEN CHOOSE i \in paused : \A j \in paused : i <= j
        ELSE Max0(final)

ResumeScan(r) ==
    /\ At(r, "resuming")
    /\ runs' = [runs EXCEPT ![r].pc = "starting", ![r].from = ResumePoint]
    /\ session' = [session EXCEPT !.status = "running"]
    /\ UNCHANGED <<rows, followUp, calls, minted, disruptions, calm>>

(* POST .../messages: the session is read, access is checked elsewhere, and *)
(* the plan that was read is written back with one entry more.              *)
FollowUpRead ==
    /\ session.status # "none" /\ ~followUp.read
    /\ minted < MaxItems
    /\ followUp' = [read |-> TRUE, status |-> session.status, plan |-> session.plan,
                    item |-> minted + 1]
    /\ minted' = minted + 1
    /\ calm' = (calm /\ Idle /\ session.status \notin {"aborted", "failed"})
    /\ UNCHANGED <<session, rows, runs, calls, disruptions>>

FollowUpWrite ==
    /\ followUp.read
    /\ LET n     == Len(followUp.plan)
           entry == [item |-> followUp.item, idx |-> n, kind |-> "tool"]
       IN  /\ session' = [session EXCEPT !.plan = Append(followUp.plan, entry)]
           /\ \/ /\ followUp.status \in Paused
                 /\ UNCHANGED runs
              \/ /\ followUp.status \notin Paused
                 /\ \E r \in RunIds : Launch(r, "starting", n, TRUE)
    /\ followUp' = Nothing
    /\ calm' = (calm /\ Idle)
    /\ UNCHANGED <<rows, calls, minted, disruptions>>

(* POST .../cancel.  Nothing tells the run.                                *)
Cancel ==
    /\ session.status \notin Terminal \cup {"none"}
    /\ disruptions < MaxDisruptions
    /\ session' = [session EXCEPT !.status = "aborted"]
    /\ disruptions' = disruptions + 1
    /\ calm' = (calm /\ Idle /\ ~followUp.read)
    /\ UNCHANGED <<rows, runs, followUp, calls, minted>>

(* The process dies: runs and requests are gone, the rows stay.            *)
Restart ==
    /\ disruptions < MaxDisruptions
    /\ ~Idle \/ followUp.read
    /\ runs' = [r \in RunIds |-> IF Active(r) THEN Over ELSE runs[r]]
    /\ followUp' = Nothing
    /\ disruptions' = disruptions + 1
    /\ calm' = (calm /\ Idle)
    /\ UNCHANGED <<session, rows, calls, minted>>

(* A statement fails outside of a step: _safe_execute records it, the      *)
(* request that resumes answers 500.                                       *)
StoreFails(r) ==
    /\ runs[r].pc \in {"starting", "loading", "next", "resuming"}
    /\ disruptions < MaxDisruptions
    /\ session' = IF runs[r].safe THEN [session EXCEPT !.status = "failed"] ELSE session
    /\ End(r)
    /\ disruptions' = disruptions + 1
    /\ calm' = FALSE
    /\ UNCHANGED <<rows, followUp, calls, minted>>

Run(r) ==
    \/ MarkRunning(r) \/ Load(r) \/ StartStep(r)
    \/ CompleteSession(r) \/ FinalStep(r) \/ AbortSession(r) \/ PauseFor(r)
    \/ Call(r) \/ GateFails(r) \/ StepSucceeded(r) \/ StepFailed(r) \/ ResumeScan(r)

Next ==
    \/ StartSession \/ FollowUpRead \/ FollowUpWrite \/ Cancel \/ Restart
    \/ \E r \in RunIds : Run(r) \/ Resume(r) \/ StoreFails(r)

Spec == Init /\ [][Next]_vars

-----------------------------------------------------------------------------
(* Every variable has its type; a run that holds a row holds one that      *)
(* exists.                                                                  *)
Entries  == [item : 1 .. MaxItems, idx : Nat, kind : {"tool", "final"}]
Statuses == {"none", "planning", "running"} \cup Paused \cup Terminal
TypeOK ==
    /\ session \in [status : Statuses, plan : Seq(Entries), revision : Nat]
    /\ \A k \in DOMAIN rows :
          /\ rows[k].item \in 1 .. MaxItems /\ rows[k].idx \in Nat
          /\ rows[k].status \in Done \cup Paused \cup {"running", "failed"}
    /\ \A r \in RunIds :
          Active(r) => runs[r].row \in 0 .. Len(rows)
    /\ minted \in 0 .. MaxItems /\ disruptions \in 0 .. MaxDisruptions

(* The place of an item in the plan as it is now.                          *)
Place(item) == CHOOSE k \in DOMAIN session.plan : session.plan[k].item = item

(* A session that was left alone while it ran calls what its plan has, in  *)
(* the order of the plan and nothing twice, through every pause, resume,   *)
(* replanning and follow-up between runs; and it is completed only when    *)
(* all of it was called or had failed (execute_session, resume and replan together: the  *)
(* index to go on with is computed in three places, from the rows, from    *)
(* the failed step and from the length of the plan).                       *)
PlanFollowed ==
    calm =>
      /\ \A k \in DOMAIN calls :
            \E m \in DOMAIN session.plan : session.plan[m].item = calls[k]
      /\ \A j, k \in DOMAIN calls : j < k => Place(calls[j]) < Place(calls[k])
      /\ session.status = "completed" /\ Idle =>
            \A m \in DOMAIN session.plan :
               \/ session.plan[m].kind = "final"
               \/ \E k \in DOMAIN calls : calls[k] = session.plan[m].item
               \/ \E k \in DOMAIN rows : /\ rows[k].item = session.plan[m].item
                                        /\ rows[k].status = "failed"

(* A session that is paused can go on: the row its resumption starts from  *)
(* is the paused one, and no row before it is unfinished.                  *)
PausedCanResume ==
    calm /\ session.status \in Paused /\ Idle =>
      \E k \in DOMAIN rows :
         /\ rows[k].idx = ResumePoint /\ rows[k].status \in Paused
         /\ \A m \in DOMAIN rows :
               rows[m].idx < ResumePoint => rows[m].status \in Done \cup {"failed"}

(* Once a session is aborted no step is dispatched any more (cancel and    *)
(* execute_session; alfred-agent-mode/spec.md asks for it).                *)
CancelStopsDispatch == [][session.status = "aborted" => calls' = calls]_vars
=============================================================================
