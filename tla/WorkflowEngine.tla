--------------------------- MODULE WorkflowEngine ---------------------------
(***************************************************************************)
(* One execution of the in-memory engine of workflow-runtime: the          *)
(* goroutine that runs it (run, runStep, awaitHITLSignal, compensate), the *)
(* clients that signal and cancel it, and the clone of it that readers see.*)
(* Executions share nothing but the map of clones, so one is enough; what  *)
(* trigger-originated executions do to each other is in TriggerLanes.      *)
(*                                                                         *)
(* An action is what the goroutine does between two points where another   *)
(* party can see or influence the execution: a call of an activity, a wait *)
(* for a signal, a backoff, the update of the published clone.             *)
(***************************************************************************)
EXTENDS Naturals, Sequences, FiniteSets

CONSTANTS
  Workflows,   \* parsed workflows, see WorkflowShape
  StepIds,     \* the step ids that occur in them
  NoStep,      \* no compensate_with
  SignalCap,   \* capacity of the signal channel: 8 in the code
  MaxSends,    \* bound: signals and cancellations clients send
  Detachable   \* can the context handed to StartWorkflow be cancelled?

(* What the engine reads of an ast.Workflow.  "main" is the declaration    *)
(* order of spec.steps; "attempts" is retries.max + 1; "reads" are the     *)
(* steps whose outputs a step's inputs mention; "unbound" are the steps    *)
(* that mention a trigger the execution does not carry; "unpinned" those   *)
(* whose ref is not in the pinned list of their family.                    *)
WorkflowShape ==
  [main     : Seq(StepIds),
   fallback : SUBSET StepIds,
   deps     : [StepIds -> SUBSET StepIds],
   reads    : [StepIds -> SUBSET StepIds],
   type     : [StepIds -> {"skill", "sub-workflow", "hitl", "unknown"}],
   attempts : [StepIds -> Nat \ {0}],
   timeout  : [StepIds -> {"fail", "proceed", "escalate"}],
   undo     : [StepIds -> StepIds \union {NoStep}],
   unbound  : SUBSET StepIds,
   unpinned : SUBSET StepIds]

ASSUME WorkflowsTyped == Workflows \subseteq WorkflowShape
ASSUME NoStepFresh == NoStep \notin StepIds
ASSUME BoundsTyped == SignalCap \in Nat \ {0} /\ MaxSends \in Nat

VARIABLES
  wf,       \* the workflow
  exec,     \* the goroutine's Execution
  stored,   \* the clone in InMemoryEngine.executions
  loc,      \* where the goroutine stands
  cur,      \* the step, attempt and inputs runStep is at
  outputs,  \* completedOutputs: what each finished step surfaced
  comp,     \* successfulCompensable
  undone,   \* how far compensate has come: NotUndoing, or index i + 1
  chan,     \* the signal channel
  audit,    \* the entries given to the audit logger
  ctxDone,  \* the context handed to StartWorkflow is cancelled
  sends     \* bounds the clients

goroutine == <<exec, stored, loc, cur, outputs, comp, undone, audit>>
vars == <<wf, goroutine, chan, ctxDone, sends>>

StepList(w) == {w.main[i] : i \in 1..Len(w.main)}
NotUndoing == 0

Statuses == {"pending", "running", "waiting", "completed", "failed",
             "cancelled", "compensating"}
Reasons == {"none", "deadlock", "not_pinned", "no_activity", "unbound",
            "activity", "cancelled", "rejected", "hitl_timeout",
            "hitl_escalated"}
(* What a value that flows between steps carries: a task's result, a human *)
(* decision, the approver's note, the inputs the approver edited, and the  *)
(* marker compensate gives its steps.                                      *)
Marks == {"result", "decision", "note", "inputs", "compensating_for"}

StepEvents == [step : StepIds, attempt : Nat \ {0}, inputs : SUBSET Marks,
               status : {"running", "waiting", "completed", "failed"}]
CompItems == [for : StepIds, by : StepIds, ok : BOOLEAN]
Executions == [status : Statuses, reason : Reasons, over : BOOLEAN,
               steps : Seq(StepEvents), comps : Seq(CompItems)]
Envelopes == [name : {"approve", "reject", "other", "__cancel__"},
              payload : SUBSET {"note", "inputs"},
              sentTo : StepIds \union {NoStep}]
AuditEntries == [step : StepIds, original : SUBSET Marks, final : SUBSET Marks,
                 decision : {"approved", "rejected", "cancelled",
                             "timeout_proceed", "escalated", "timeout_failed"}]

TypeOK ==
  /\ wf \in Workflows
  /\ exec \in Executions /\ stored \in Executions
  /\ loc \in {"start", "next", "execute", "backoff", "await", "failing",
              "unwind", "end"}
  /\ cur \in [step : StepIds \union {NoStep}, attempt : Nat,
              inputs : SUBSET Marks]
  /\ DOMAIN outputs \subseteq StepIds
  /\ \A s \in DOMAIN outputs : outputs[s] \subseteq Marks
  /\ comp \in Seq(StepIds)
  /\ undone \in 0..(Len(comp) + 1)
  /\ chan \in Seq(Envelopes) /\ Len(chan) <= SignalCap
  /\ audit \in Seq(AuditEntries)
  /\ ctxDone \in BOOLEAN
  /\ sends \in 0..MaxSends

(* StartWorkflow has put the pending execution and launched its goroutine. *)
Init ==
  /\ wf \in Workflows
  /\ exec = [status |-> "pending", reason |-> "none", over |-> FALSE,
             steps |-> <<>>, comps |-> <<>>]
  /\ stored = exec
  /\ loc = "start"
  /\ cur = [step |-> NoStep, attempt |-> 0, inputs |-> {}]
  /\ outputs = <<>>
  /\ comp = <<>> /\ undone = NotUndoing
  /\ chan = <<>> /\ audit = <<>>
  /\ ctxDone = FALSE /\ sends = 0

-----------------------------------------------------------------------------
(* run: choosing the next step.                                            *)

Pending == StepList(wf) \ DOMAIN outputs

Runnable(s) == s \in Pending /\ wf.deps[s] \subseteq DOMAIN outputs

(* nextRunnable scans the steps in the order they are declared.            *)
IsNext(s) ==
  \E i \in 1..Len(wf.main) :
    /\ wf.main[i] = s
    /\ Runnable(s)
    /\ \A j \in 1..(i - 1) : ~Runnable(wf.main[j])

(* resolveInputsWithTrigger: the outputs of the finished steps mentioned.  *)
ResolvedInputs(s) ==
  UNION {outputs[r] : r \in wf.reads[s] \intersect DOMAIN outputs}

Undoing == undone # NotUndoing

(* SelectedAssets.Allows knows the families skill, mcp, agent and          *)
(* "sub_workflow"; the step type of the AST is "sub-workflow".             *)
Allows(s) == wf.type[s] = "skill" => s \notin wf.unpinned

(* The error with which runStep refuses a step before its first attempt.   *)
Refusal(s) ==
  IF ~Allows(s) THEN "not_pinned"
  ELSE IF wf.type[s] = "unknown" THEN "no_activity" ELSE "none"

Published(e) == exec' = e /\ stored' = e

Opened(s, n, ins) ==
  [exec EXCEPT !.steps = Append(@, [step |-> s, attempt |-> n, inputs |-> ins,
                                    status |-> "running"])]

(* markStep: the last event of that step and attempt.                      *)
MarkIndex_First(e, s, n) ==
  CHOOSE i \in 1..Len(e.steps) :
    /\ e.steps[i].step = s /\ e.steps[i].attempt = n
    /\ \A j \in 1..(i - 1) :
         ~(e.steps[j].step = s /\ e.steps[j].attempt = n)
MarkIndex(e, s, n) ==
  CHOOSE i \in 1..Len(e.steps) :
    /\ e.steps[i].step = s /\ e.steps[i].attempt = n
    /\ \A j \in (i + 1)..Len(e.steps) :
         ~(e.steps[j].step = s /\ e.steps[j].attempt = n)

Marked(status, ins) ==
  [exec EXCEPT !.steps[MarkIndex(exec, cur.step, cur.attempt)] =
     [@ EXCEPT !.status = status, !.inputs = ins]]

-----------------------------------------------------------------------------
(* How runStep returns: to run, or to compensate.                          *)

Banked_Never(s) == comp
Banked_InFront(s) == IF wf.undo[s] # NoStep THEN <<s>> \o comp ELSE comp
Banked(s) == IF wf.undo[s] # NoStep THEN Append(comp, s) ELSE comp

Undid(e, ok) ==
  [e EXCEPT !.comps = Append(@, [for |-> comp[undone - 1], by |-> cur.step,
                                 ok |-> ok])]

(* The step succeeded and e is what was published.                         *)
ReturnsOk(e, out) ==
  /\ stored' = e
  /\ IF Undoing
     THEN /\ exec' = Undid(e, TRUE)
          /\ undone' = undone - 1
          /\ loc' = "unwind"
          /\ UNCHANGED <<outputs, comp>>
     ELSE /\ exec' = e
          /\ outputs' = [s \in DOMAIN outputs \union {cur.step} |->
                           IF s = cur.step THEN out ELSE outputs[s]]
          /\ comp' = Banked(cur.step)
          /\ loc' = "next"
          /\ UNCHANGED undone

(* It failed: run publishes the failure before it compensates, compensate  *)
(* records the outcome and goes on.                                        *)
ReturnsErr(e, reason) ==
  /\ UNCHANGED <<outputs, comp>>
  /\ IF Undoing
     THEN /\ stored' = e
          /\ exec' = Undid(e, FALSE)
          /\ undone' = undone - 1
          /\ loc' = "unwind"
     ELSE /\ Published([e EXCEPT !.status = "failed", !.reason = reason])
          /\ loc' = "failing"
          /\ UNCHANGED undone

(* runStep up to its first call of the activity.                           *)
EntersStep(s, ins) ==
  /\ cur' = [step |-> s, attempt |-> 1, inputs |-> ins]
  /\ Refusal(s) = "none"
  /\ Published(Opened(s, 1, ins))
  /\ loc' = "execute"
  /\ UNCHANGED <<outputs, comp, undone, audit>>

-----------------------------------------------------------------------------
Environment == UNCHANGED <<wf, chan, ctxDone, sends>>

Begin ==
  /\ loc = "start"
  /\ Published([exec EXCEPT !.status = "running"])
  /\ loc' = "next"
  /\ UNCHANGED <<cur, outputs, comp, undone, audit>>
  /\ Environment

Ends(e) ==
  /\ Published([e EXCEPT !.over = TRUE])
  /\ loc' = "end"
  /\ UNCHANGED <<cur, outputs, comp, undone, audit>>
  /\ Environment

Complete ==
  /\ loc = "next"
  /\ Pending = {}
  /\ Ends([exec EXCEPT !.status = "completed"])

(* The guard against unresolvable dependencies: no compensation.           *)
Deadlock ==
  /\ loc = "next"
  /\ Pending # {}
  /\ \A s \in Pending : ~Runnable(s)
  /\ Ends([exec EXCEPT !.status = "failed", !.reason = "deadlock"])

(* The context is looked at between two steps only: no compensation.       *)
ContextCancelled ==
  /\ loc = "next"
  /\ ctxDone
  /\ \E s \in Pending : Runnable(s)
  /\ Ends([exec EXCEPT !.status = "cancelled"])

BeginStep(s) ==
  /\ loc = "next"
  /\ IsNext(s)
  /\ ~ctxDone
  /\ EntersStep(s, ResolvedInputs(s))
  /\ Environment

RefuseStep(s) ==
  /\ loc = "next"
  /\ IsNext(s)
  /\ ~ctxDone
  /\ Refusal(s) # "none"
  /\ ReturnsErr(exec, Refusal(s))
  /\ UNCHANGED <<cur, audit>>
  /\ Environment

-----------------------------------------------------------------------------
(* One attempt of the current step.                                        *)

Attempting == loc = "execute"
Unbound == cur.step \in wf.unbound /\ ~Undoing

FailUnbound ==
  /\ Attempting
  /\ Unbound
  /\ ReturnsErr(Marked("failed", cur.inputs), "unbound")
  /\ UNCHANGED <<cur, audit>>
  /\ Environment

ActivitySucceeds ==
  /\ Attempting
  /\ ~Unbound
  /\ wf.type[cur.step] # "hitl"
  /\ ReturnsOk(Marked("completed", cur.inputs), {"result"})
  /\ UNCHANGED <<cur, audit>>
  /\ Environment

(* shouldRetry: an error the policy lists as non-retryable is final.       *)
MayRetry_OneMore(kind) ==
  kind = "transient" /\ cur.attempt <= wf.attempts[cur.step]
MayRetry(kind) == kind = "transient" /\ cur.attempt < wf.attempts[cur.step]

ActivityFails(kind) ==
  /\ Attempting
  /\ ~Unbound
  /\ UNCHANGED <<cur, audit>>
  /\ IF MayRetry(kind)
     THEN /\ Published(Marked("failed", cur.inputs))
          /\ loc' = "backoff"
          /\ UNCHANGED <<outputs, comp, undone>>
     ELSE ReturnsErr(Marked("failed", cur.inputs), "activity")
  /\ Environment

Retry ==
  /\ loc = "backoff"
  /\ cur' = [cur EXCEPT !.attempt = @ + 1]
  /\ Published(Opened(cur.step, cur.attempt + 1, cur.inputs))
  /\ loc' = "execute"
  /\ UNCHANGED <<outputs, comp, undone, audit>>
  /\ Environment

-----------------------------------------------------------------------------
(* The human gate.                                                         *)

GateOpens ==
  /\ Attempting
  /\ ~Unbound
  /\ wf.type[cur.step] = "hitl"
  /\ Published([Marked("waiting", cur.inputs) EXCEPT !.status = "waiting"])
  /\ loc' = "await"
  /\ UNCHANGED <<cur, outputs, comp, undone, audit>>
  /\ Environment

Audited_Unedited(decision, final) ==
  audit' = Append(audit, [step |-> cur.step, original |-> cur.inputs,
                          final |-> cur.inputs, decision |-> decision])
Audited(decision, final) ==
  audit' = Append(audit, [step |-> cur.step, original |-> cur.inputs,
                          final |-> final, decision |-> decision])

(* The approver's edits and notes: the edits go to the final inputs, all   *)
(* the rest of the payload to the step's outputs.                          *)
GateOutputs(env) == {"decision"} \union (env.payload \ {"inputs"})
FinalInputs(env) == cur.inputs \union (env.payload \intersect {"inputs"})

GatePasses(decision, final, out) ==
  /\ Audited(decision, final)
  /\ ReturnsOk([Marked("completed", final) EXCEPT !.status = "running"], out)
  /\ UNCHANGED cur

GateFails(decision, reason) ==
  /\ Audited(decision, cur.inputs)
  /\ ReturnsErr(Marked("failed", cur.inputs), reason)
  /\ UNCHANGED cur

(* A compensation waits on a nil channel: only its timer can fire.         *)
Received == IF Undoing THEN <<>> ELSE chan

Decide ==
  /\ loc = "await"
  /\ Received # <<>>
  /\ chan' = Tail(chan)
  /\ LET env == Head(Received) IN
       CASE env.name = "approve" ->
              GatePasses("approved", FinalInputs(env), GateOutputs(env))
         [] env.name = "reject"     -> GateFails("rejected", "rejected")
         [] env.name = "__cancel__" -> GateFails("cancelled", "cancelled")
         [] OTHER                   -> UNCHANGED goroutine
  /\ UNCHANGED <<wf, ctxDone, sends>>

GateTimesOut ==
  /\ loc = "await"
  /\ CASE wf.timeout[cur.step] = "proceed" ->
            GatePasses("timeout_proceed", cur.inputs, {"decision"})
       [] wf.timeout[cur.step] = "escalate" ->
            GateFails("escalated", "hitl_escalated")
       [] OTHER -> GateFails("timeout_failed", "hitl_timeout")
  /\ Environment

-----------------------------------------------------------------------------
(* compensate, in saga reverse.                                            *)

StartUndo ==
  /\ loc = "failing"
  /\ comp # <<>>
  /\ Published([exec EXCEPT !.status = "compensating"])
  /\ undone' = Len(comp) + 1
  /\ loc' = "unwind"
  /\ UNCHANGED <<cur, outputs, comp, audit>>
  /\ Environment

NothingToUndo ==
  /\ loc = "failing"
  /\ comp = <<>>
  /\ Ends(exec)

(* findCompensationStep looks among on_failure, then among the steps.      *)
Compensates_FallbackOnly(s) == wf.undo[s] \in wf.fallback
Compensates(s) == wf.undo[s] \in wf.fallback \union StepList(wf)

UndoStep ==
  /\ loc = "unwind"
  /\ undone > 1
  /\ Compensates(comp[undone - 1])
  /\ EntersStep(wf.undo[comp[undone - 1]], {"compensating_for"})
  /\ Environment

UndoRefused ==
  LET s == comp[undone - 1] IN
  /\ loc = "unwind"
  /\ undone > 1
  /\ Compensates(s)
  /\ Refusal(wf.undo[s]) # "none"
  /\ exec' = [exec EXCEPT !.comps =
                Append(@, [for |-> s, by |-> wf.undo[s], ok |-> FALSE])]
  /\ undone' = undone - 1
  /\ UNCHANGED <<stored, loc, cur, outputs, comp, audit>>
  /\ Environment

(* Past a step whose compensation nobody declared.                         *)
Skipped_Stays == undone
Skipped == undone - 1

UndoMissing ==
  /\ loc = "unwind"
  /\ undone > 1
  /\ ~Compensates(comp[undone - 1])
  /\ undone' = Skipped
  /\ UNCHANGED <<exec, stored, loc, cur, outputs, comp, audit>>
  /\ Environment

EndUndo ==
  /\ loc = "unwind"
  /\ undone = 1
  /\ Ends(exec)

-----------------------------------------------------------------------------
(* Clients.  A signal to a full channel is refused; a cancellation is      *)
(* dropped without an error.  "sentTo" is the gate the sender saw open.    *)

HasRoom_OneMore == Len(chan) <= SignalCap
HasRoom == Len(chan) < SignalCap

GateSeen == IF stored.status = "waiting" /\ loc = "await"
            THEN cur.step ELSE NoStep

SignalWorkflow(name, payload) ==
  /\ sends < MaxSends
  /\ HasRoom
  /\ chan' = Append(chan, [name |-> name, payload |-> payload,
                           sentTo |-> GateSeen])
  /\ sends' = sends + 1
  /\ UNCHANGED <<wf, goroutine, ctxDone>>

CancelWorkflow ==
  /\ sends < MaxSends
  /\ chan' = IF HasRoom
             THEN Append(chan, [name |-> "__cancel__", payload |-> {},
                                sentTo |-> GateSeen])
             ELSE chan
  /\ sends' = sends + 1
  /\ UNCHANGED <<wf, goroutine, ctxDone>>

CancelContext ==
  /\ Detachable
  /\ ~ctxDone
  /\ ctxDone' = TRUE
  /\ UNCHANGED <<wf, goroutine, chan, sends>>

-----------------------------------------------------------------------------
RunStep ==
  \/ \E s \in StepIds : BeginStep(s) \/ RefuseStep(s)
  \/ FailUnbound \/ ActivitySucceeds
  \/ \E kind \in {"transient", "permanent"} : ActivityFails(kind)
  \/ Retry \/ GateOpens

Goroutine ==
  \/ Begin \/ Complete \/ Deadlock \/ ContextCancelled
  \/ RunStep
  \/ Decide \/ GateTimesOut
  \/ StartUndo \/ NothingToUndo \/ UndoStep \/ UndoRefused \/ UndoMissing
  \/ EndUndo

Clients ==
  \/ \E name \in {"reject", "other"} : SignalWorkflow(name, {})
  \/ \E p \in SUBSET {"note", "inputs"} : SignalWorkflow("approve", p)
  \/ CancelWorkflow
  \/ CancelContext

Over == loc = "end" /\ UNCHANGED vars

Next == Goroutine \/ Clients \/ Over

Spec == Init /\ [][Next]_vars

(* The goroutine runs: an activity returns by its deadline, a timer fires, *)
(* a backoff ends.  Clients owe nothing.                                   *)
FairSpec == Spec /\ WF_vars(Goroutine)
-----------------------------------------------------------------------------
Forward(e) == "compensating_for" \notin e.inputs

(* Attempts: a step is attempted again only after its previous attempt     *)
(* failed, with the next number, and never beyond retries.max + 1.         *)
AttemptsInOrder ==
  \A i \in 1..Len(exec.steps) :
    LET e == exec.steps[i]
        earlier == {j \in 1..(i - 1) : exec.steps[j].step = e.step
                                       /\ Forward(exec.steps[j])}
    IN  Forward(e) =>
          /\ e.attempt <= wf.attempts[e.step]
          /\ Cardinality(earlier) = e.attempt - 1
          /\ \A j \in earlier : exec.steps[j].status = "failed"

(* markStep: an event still running or waiting is the last one, and only   *)
(* while its attempt is; the compensations that repeat a step, its id and  *)
(* its attempt number do not leave one open.                               *)
NoEventLeftOpen ==
  \A i \in 1..Len(exec.steps) :
    exec.steps[i].status \in {"running", "waiting"} =>
      i = Len(exec.steps) /\ loc \in {"execute", "await"}

(* The places of the finished forward steps whose compensation can be      *)
(* found; they stand in the order in which they finished.                  *)
ToCompensate ==
  {k \in 1..Len(exec.steps) :
     /\ Forward(exec.steps[k])
     /\ exec.steps[k].status = "completed"
     /\ wf.undo[exec.steps[k].step] \in wf.fallback \union StepList(wf)}

(* Saga order: the compensations run so far are those of the steps that    *)
(* finished last, last first, each once and none left out.                 *)
SagaReverse ==
  \A i \in 1..Len(exec.comps) :
    \E k \in ToCompensate :
      /\ exec.comps[i].for = exec.steps[k].step
      /\ Cardinality({j \in ToCompensate : j >= k}) = i

(* ... and an execution that failed at a step does not end before all are. *)
CompensatedBeforeEnd ==
  /\ stored.over
  /\ stored.reason \notin {"none", "deadlock"}
  => Len(stored.comps) = Cardinality(ToCompensate)

(* The places of the gates that were passed, and of the entries that grant *)
(* one; the first of the ones belongs to the first of the others, and so   *)
(* on.                                                                     *)
PassedGates ==
  {k \in 1..Len(exec.steps) :
     wf.type[exec.steps[k].step] = "hitl" /\ exec.steps[k].status = "completed"}
Grants ==
  {k \in 1..Len(audit) : audit[k].decision \in {"approved", "timeout_proceed"}}
Rank(S, k) == Cardinality({j \in S : j <= k})

(* Every gate that was passed has exactly one audit entry that grants it,  *)
(* in the order the gates were passed and with the inputs the step's event *)
(* ends with; no entry grants a gate that was not passed.                  *)
GatesAudited ==
  /\ Cardinality(PassedGates) = Cardinality(Grants)
  /\ \A k \in PassedGates, a \in Grants :
       Rank(PassedGates, k) = Rank(Grants, a) =>
         /\ exec.steps[k].step = audit[a].step
         /\ exec.steps[k].inputs = audit[a].final

(* Every execution ends, whatever its activities and approvers do.         *)
EventuallyOver == <>(stored.over)

(* The execution as a saga.                                                *)
StageOf ==
  CASE ~exec.over -> IF loc \in {"failing", "unwind"} \/ Undoing
                     THEN "backward" ELSE "forward"
    [] exec.status = "completed" -> "committed"
    [] exec.status = "cancelled" \/ exec.reason = "deadlock" -> "abandoned"
    [] OTHER -> "aborted"

Compensated == INSTANCE Saga WITH
  main     <- StepList(wf),
  needs    <- wf.deps,
  undoable <- {s \in StepIds : wf.undo[s] # NoStep},
  stage    <- StageOf,
  did      <- DOMAIN outputs,
  toUndo   <- IF Undoing THEN SubSeq(comp, 1, undone - 1) ELSE comp

(* The engine implements Saga: retries, gates, signals and snapshots never *)
(* let a step be done twice, out of order or after a failure, and nothing  *)
(* ends half undone.                                                       *)
ImplementsSaga == Compensated!Spec

-----------------------------------------------------------------------------
(* What a document says and the engine does not do.                        *)

(* human-in-the-loop-steps: a gate pauses "until an approver with the      *)
(* declared role decides": no approval sent to another gate passes it.     *)
GatePassedByItsOwnApproval ==
  [][Len(audit') > Len(audit) /\ chan # <<>> /\ chan' = Tail(chan)
     /\ Head(chan).name = "approve"
     => Head(chan).sentTo \in {cur.step, NoStep}]_vars
=============================================================================
