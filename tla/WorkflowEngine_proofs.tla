------------------------ MODULE WorkflowEngine_proofs -------------------------
(***************************************************************************)
(* Proofs about an execution of the in-memory engine, for any workflows,   *)
(* any number of signals and any capacity of their channel: the state has  *)
(* its type, no step event is left open, the execution is a saga, attempts *)
(* are in order, compensations undo all that finished last first, and each *)
(* gate passed has the audit entry that grants it.                         *)
(*   IInv  where in its run the goroutine holds a step, that the last      *)
(*         event is that step's, and that only an end is final             *)
(*   AInv  how many attempts of each step there are, and that the marker   *)
(*         of compensations tells theirs from the others                   *)
(*   CInv  which place of successfulCompensable belongs to which finished  *)
(*         event, and how many of them compensate has passed               *)
(***************************************************************************)
EXTENDS WorkflowEngine, FiniteSetTheorems, TLAPS

Stepping == {"execute", "backoff", "await"}
Holding  == {"execute", "await"}
Open     == {"running", "waiting"}

OutputsKnown == DOMAIN outputs \subseteq StepList(wf)

Ended == exec.over <=> loc = "end"

Alive ==
  loc # "end" => exec.status \notin {"completed", "cancelled"} /\ exec.reason # "deadlock"

UndoPlaces ==
  /\ loc \in {"start", "next", "failing"} => ~Undoing
  /\ loc = "unwind" => Undoing

CurrentStep ==
  loc \in Stepping =>
    /\ cur.step \in StepIds /\ cur.attempt # 0
    /\ Undoing => undone > 1
    /\ ~Undoing => cur.step \in Pending /\ wf.deps[cur.step] \subseteq DOMAIN outputs

LastEvent ==
  loc \in Holding =>
    /\ Len(exec.steps) # 0
    /\ exec.steps[Len(exec.steps)].step = cur.step
    /\ exec.steps[Len(exec.steps)].attempt = cur.attempt

IInv ==
  /\ TypeOK /\ OutputsKnown /\ Ended /\ Alive /\ UndoPlaces /\ CurrentStep
  /\ LastEvent /\ NoEventLeftOpen

-----------------------------------------------------------------------------
(* Executions                                                              *)

(* The parts of a workflow.                                                *)
LEMMA Shape ==
  ASSUME TypeOK
  PROVE  /\ wf.main \in Seq(StepIds) /\ wf.fallback \subseteq StepIds
         /\ wf.deps \in [StepIds -> SUBSET StepIds]
         /\ wf.reads \in [StepIds -> SUBSET StepIds]
         /\ wf.undo \in [StepIds -> StepIds \union {NoStep}]
         /\ wf.attempts \in [StepIds -> Nat \ {0}]
         /\ StepList(wf) \subseteq StepIds
<1>1. wf \in WorkflowShape
  BY WorkflowsTyped DEF TypeOK
<1>2. wf.main \in Seq(StepIds)
  BY <1>1 DEF WorkflowShape
<1>3. StepList(wf) \subseteq StepIds
  BY <1>2 DEF StepList
<1> QED BY <1>1, <1>2, <1>3 DEF WorkflowShape

(* The event markStep changes is the last one.                             *)
LEMMA MarksLast ==
  ASSUME TypeOK, LastEvent, loc \in Holding
  PROVE  MarkIndex(exec, cur.step, cur.attempt) = Len(exec.steps)
<1> DEFINE n == Len(exec.steps)
           Hit(i) == exec.steps[i].step = cur.step /\ exec.steps[i].attempt = cur.attempt
           Last(i) == /\ Hit(i)
                      /\ \A j \in (i + 1)..n : ~Hit(j)
<1>1. exec.steps \in Seq(StepEvents) /\ n \in Nat /\ n # 0 /\ Hit(n)
  BY DEF TypeOK, Executions, LastEvent
<1>2. n \in 1..n /\ Last(n)
  BY <1>1
<1>3. ASSUME NEW i \in 1..n, Last(i) PROVE i = n
  BY <1>1, <1>3
<1>4. MarkIndex(exec, cur.step, cur.attempt) = CHOOSE i \in 1..n : Last(i)
  BY DEF MarkIndex
<1> DEFINE c == CHOOSE i \in 1..n : Last(i)
<1> HIDE DEF Last, n
<1>5. c \in 1..n /\ Last(c)
  BY <1>2
<1>6. c = n
  BY <1>3, <1>5
<1> QED BY <1>4, <1>6 DEF c, n

(* An execution whose last event alone differs from what exec has.         *)
Closes(m, status) ==
  /\ m \in Executions
  /\ m.status = exec.status /\ m.reason = exec.reason /\ m.over = exec.over
  /\ m.comps = exec.comps
  /\ Len(m.steps) = Len(exec.steps)
  /\ \A i \in 1..Len(exec.steps) :
       /\ m.steps[i].step = exec.steps[i].step
       /\ m.steps[i].attempt = exec.steps[i].attempt
       /\ m.steps[i].status = IF i = Len(exec.steps) THEN status ELSE exec.steps[i].status

(* markStep changes how the last event ended and nothing else.             *)
LEMMA MarkedCloses ==
  ASSUME TypeOK, LastEvent, loc \in Holding,
         NEW status \in {"running", "waiting", "completed", "failed"},
         NEW ins \in SUBSET Marks
  PROVE  Closes(Marked(status, ins), status)
<1> DEFINE n == Len(exec.steps)
           e == exec.steps[n]
           f == [e EXCEPT !.status = status, !.inputs = ins]
<1>1. exec \in Executions /\ exec.steps \in Seq(StepEvents) /\ n \in Nat /\ n # 0
  BY DEF TypeOK, Executions, LastEvent
<1>2. e \in StepEvents
  BY <1>1
<1>3. f \in StepEvents /\ f.step = e.step /\ f.attempt = e.attempt /\ f.status = status
  BY <1>2 DEF StepEvents
<1>4. Marked(status, ins) = [exec EXCEPT !.steps = [exec.steps EXCEPT ![n] = f]]
  BY MarksLast DEF Marked
<1> DEFINE t == [exec.steps EXCEPT ![n] = f]
<1>5. t \in Seq(StepEvents) /\ Len(t) = n
      /\ \A i \in 1..n : t[i] = IF i = n THEN f ELSE exec.steps[i]
  <2> HIDE DEF f
  <2> QED BY <1>1, <1>3
<1> HIDE DEF t
<1>6. Marked(status, ins) = [exec EXCEPT !.steps = t]
  BY <1>4 DEF t
<1> HIDE DEF f
<1> QED BY <1>1, <1>3, <1>5, <1>6 DEF Closes, Executions

(* A new attempt adds one event behind the others.                         *)
LEMMA OpensLast ==
  ASSUME TypeOK, NEW s \in StepIds, NEW k \in Nat \ {0}, NEW ins \in SUBSET Marks
  PROVE  LET m == Opened(s, k, ins)
             n == Len(exec.steps)
         IN  /\ m \in Executions
             /\ m.status = exec.status /\ m.reason = exec.reason /\ m.over = exec.over
             /\ Len(m.steps) = n + 1
             /\ m.steps[n + 1].step = s /\ m.steps[n + 1].attempt = k
             /\ \A i \in 1..n : m.steps[i] = exec.steps[i]
<1> DEFINE n == Len(exec.steps)
           f == [step |-> s, attempt |-> k, inputs |-> ins, status |-> "running"]
           t == Append(exec.steps, f)
<1>1. exec \in Executions /\ exec.steps \in Seq(StepEvents) /\ n \in Nat
  BY DEF TypeOK, Executions
<1>2. f \in StepEvents
  BY DEF StepEvents
<1>3. t \in Seq(StepEvents) /\ Len(t) = n + 1 /\ t[n + 1] = f
      /\ \A i \in 1..n : t[i] = exec.steps[i]
  <2> HIDE DEF f
  <2> QED BY <1>1, <1>2
<1>4. f.step = s /\ f.attempt = k
  OBVIOUS
<1>5. Opened(s, k, ins) = [exec EXCEPT !.steps = t]
  BY DEF Opened
<1> HIDE DEF t, f
<1> QED BY <1>1, <1>3, <1>4, <1>5 DEF Executions

-----------------------------------------------------------------------------
(* Patterns of steps                                                       *)

(* An execution none of whose events is open, and which may go on.         *)
Settled(e) ==
  /\ e \in Executions
  /\ ~e.over
  /\ e.status \notin {"completed", "cancelled"} /\ e.reason # "deadlock"
  /\ \A i \in 1..Len(e.steps) : e.steps[i].status \notin Open

(* What a step of the goroutine leaves to its surroundings.                *)
Around ==
  /\ wf' = wf
  /\ audit' \in Seq(AuditEntries)
  /\ chan' \in Seq(Envelopes) /\ Len(chan') <= SignalCap
  /\ ctxDone' \in BOOLEAN /\ sends' \in 0..MaxSends

(* A step of the goroutine alone keeps the types of its surroundings.      *)
LEMMA EnvironmentAround ==
  ASSUME TypeOK, Environment, audit' \in Seq(AuditEntries)
  PROVE  Around
BY DEF TypeOK, Environment, Around

(* Between two steps no event is open.                                     *)
LEMMA NowSettled ==
  ASSUME IInv, loc \in {"next", "failing", "unwind"}
  PROVE  Settled(exec)
<1>1. exec \in Executions /\ ~exec.over
  BY DEF IInv, TypeOK, Ended, Executions
<1>2. exec.status \notin {"completed", "cancelled"} /\ exec.reason # "deadlock"
  BY DEF IInv, Alive
<1>3. \A i \in 1..Len(exec.steps) : exec.steps[i].status \notin Open
  BY DEF IInv, NoEventLeftOpen, Open
<1> QED BY <1>1, <1>2, <1>3 DEF Settled

(* Once its event is marked finished, none is.                             *)
LEMMA MarkedSettled ==
  ASSUME IInv, loc \in Holding,
         NEW status \in {"completed", "failed"}, NEW ins \in SUBSET Marks
  PROVE  Settled(Marked(status, ins))
<1> DEFINE m == Marked(status, ins)
<1>1. Closes(m, status)
  BY MarkedCloses DEF IInv
<1>2. ~exec.over
  BY DEF IInv, TypeOK, Ended, Holding, Executions
<1>3. exec.status \notin {"completed", "cancelled"} /\ exec.reason # "deadlock"
  BY DEF IInv, Alive, Holding
<1>4. \A i \in 1..Len(exec.steps) : i # Len(exec.steps) => exec.steps[i].status \notin Open
  BY DEF IInv, NoEventLeftOpen, Open
<1> HIDE DEF m
<1>5. \A i \in 1..Len(m.steps) : m.steps[i].status \notin Open
  BY <1>1, <1>4 DEF Closes, Open
<1>6. Settled(m)
  BY <1>1, <1>2, <1>3, <1>5 DEF Closes, Settled
<1> QED BY <1>6 DEF m

(* The entry compensate records.                                           *)
LEMMA UndidSettled ==
  ASSUME IInv, Undoing, undone > 1, cur.step \in StepIds,
         NEW e, Settled(e), NEW ok \in BOOLEAN
  PROVE  Settled(Undid(e, ok))
<1>1. comp \in Seq(StepIds) /\ undone - 1 \in 1..Len(comp)
  BY DEF IInv, TypeOK
<1>2. comp[undone - 1] \in StepIds
  BY <1>1
<1>3. [for |-> comp[undone - 1], by |-> cur.step, ok |-> ok] \in CompItems
  BY <1>2 DEF CompItems
<1>4. Append(e.comps, [for |-> comp[undone - 1], by |-> cur.step, ok |-> ok]) \in Seq(CompItems)
  BY <1>3 DEF Settled, Executions
<1> QED BY <1>4 DEF Undid, Settled, Executions

ToUndo == IF Undoing THEN SubSeq(comp, 1, undone - 1) ELSE comp

SagaStep == [Compensated!Next]_(Compensated!vars)

(* What Saga does not see is a stutter.                                    *)
LEMMA SagaStutters ==
  ASSUME wf' = wf, StageOf' = StageOf, outputs' = outputs, ToUndo' = ToUndo
  PROVE  SagaStep
<1>1. StepList(wf)' = StepList(wf)
  BY DEF StepList
<1> QED BY <1>1 DEF SagaStep, ToUndo, Compensated!vars, Compensated!workflow

(* Which stage it is, before the end.                                      *)
LEMMA StageNow ==
  ASSUME IInv, loc # "end"
  PROVE  StageOf = IF loc \in {"failing", "unwind"} \/ Undoing
                   THEN "backward" ELSE "forward"
<1>1. ~exec.over /\ exec.status \notin {"completed", "cancelled"} /\ exec.reason # "deadlock"
  BY DEF IInv, Ended, Alive
<1> QED BY <1>1 DEF StageOf

(* The stage of an execution that goes on.                                 *)
LEMMA StageNext ==
  ASSUME IInv', loc' # "end"
  PROVE  StageOf' = IF loc' \in {"failing", "unwind"} \/ Undoing'
                    THEN "backward" ELSE "forward"
<1>1. ~exec'.over /\ exec'.status \notin {"completed", "cancelled"} /\ exec'.reason # "deadlock"
  BY DEF IInv, Ended, Alive
<1> QED BY <1>1 DEF StageOf

(* One compensation less is due.                                           *)
LEMMA OneUndone ==
  ASSUME IInv, IInv', Undoing, undone > 1, loc # "end", wf' = wf,
         comp' = comp, outputs' = outputs, undone' = undone - 1, loc' = "unwind"
  PROVE  SagaStep
<1>1. comp \in Seq(StepIds) /\ undone \in 2..(Len(comp) + 1) /\ Len(comp) \in Nat
  BY DEF IInv, TypeOK
<1>2. ToUndo = SubSeq(comp, 1, undone - 1) /\ ToUndo' = SubSeq(comp, 1, undone - 2)
  BY <1>1 DEF ToUndo, Undoing, NotUndoing, IInv, UndoPlaces
<1>3. Len(ToUndo) = undone - 1 /\ ToUndo # <<>>
  BY <1>1, <1>2
<1>4. SubSeq(ToUndo, 1, Len(ToUndo) - 1) = SubSeq(comp, 1, undone - 2)
  BY <1>1, <1>2, <1>3
<1>5. StageOf = "backward" /\ StageOf' = "backward"
  BY StageNow, StageNext
<1>6. StepList(wf)' = StepList(wf)
  BY DEF StepList
<1>7. Compensated!Undo
  BY <1>2, <1>3, <1>4, <1>5, <1>6 DEF ToUndo, Compensated!Undo, Compensated!workflow
<1> QED BY <1>7 DEF SagaStep, Compensated!Next

(* The execution ends.                                                     *)
LEMMA Ending ==
  ASSUME IInv, loc \in {"next", "failing", "unwind"}, NEW e,
         e \in Executions, e.steps = exec.steps, Ends(e)
  PROVE  IInv'
<1>1. Around /\ audit' = audit
  BY EnvironmentAround DEF Ends, IInv, TypeOK
<1>2. [e EXCEPT !.over = TRUE] \in Executions /\ exec' = [e EXCEPT !.over = TRUE]
      /\ exec'.over /\ exec'.steps = exec.steps /\ stored' = exec'
  BY DEF Executions, Ends, Published
<1>3. TypeOK'
  BY <1>1, <1>2 DEF Ends, IInv, TypeOK, Around
<1>4. OutputsKnown'
  BY <1>1 DEF Ends, IInv, OutputsKnown, Around, StepList
<1>5. Ended' /\ Alive' /\ UndoPlaces' /\ CurrentStep' /\ LastEvent'
  BY <1>2 DEF Ends, Ended, Alive, UndoPlaces, CurrentStep, LastEvent, Stepping, Holding
<1>6. NoEventLeftOpen'
  BY <1>2 DEF IInv, NoEventLeftOpen
<1> QED BY <1>3, <1>4, <1>5, <1>6 DEF IInv

(* A step, or a compensation, begins.                                      *)
LEMMA Entering ==
  ASSUME IInv, loc \in {"next", "unwind"}, NEW s \in StepIds, NEW ins \in SUBSET Marks,
         loc = "next" => s \in Pending /\ wf.deps[s] \subseteq DOMAIN outputs,
         loc = "unwind" => undone > 1,
         EntersStep(s, ins), Environment
  PROVE  IInv' /\ SagaStep
<1>1. Around
  BY EnvironmentAround DEF EntersStep, IInv, TypeOK
<1> DEFINE m == Opened(s, 1, ins)
           n == Len(exec.steps)
<1>2. /\ m \in Executions /\ n \in Nat
      /\ m.status = exec.status /\ m.reason = exec.reason /\ m.over = exec.over
      /\ Len(m.steps) = n + 1 /\ m.steps[n + 1].step = s /\ m.steps[n + 1].attempt = 1
      /\ \A i \in 1..n : m.steps[i] = exec.steps[i]
  BY OpensLast DEF IInv, TypeOK, Executions
<1>3. /\ exec' = m /\ stored' = m /\ loc' = "execute"
      /\ cur' = [step |-> s, attempt |-> 1, inputs |-> ins]
      /\ outputs' = outputs /\ comp' = comp /\ undone' = undone
  BY DEF EntersStep, Published
<1> HIDE DEF m
<1>4. TypeOK'
  <2>1. cur' \in [step : StepIds \union {NoStep}, attempt : Nat, inputs : SUBSET Marks]
    BY <1>3
  <2> QED BY <1>1, <1>2, <1>3, <2>1 DEF IInv, TypeOK, Around
<1>5. OutputsKnown' /\ Pending' = Pending
  BY <1>1, <1>3 DEF IInv, OutputsKnown, Around, StepList, Pending
<1>6. Ended' /\ Alive' /\ UndoPlaces'
  BY <1>2, <1>3 DEF IInv, Ended, Alive, UndoPlaces
<1>7. CurrentStep'
  BY <1>1, <1>3, <1>5 DEF IInv, CurrentStep, UndoPlaces, Undoing, Around
<1>8. LastEvent'
  BY <1>2, <1>3 DEF LastEvent
<1>9. NoEventLeftOpen'
  BY <1>2, <1>3 DEF IInv, NoEventLeftOpen
<1>10. IInv'
  BY <1>4, <1>5, <1>6, <1>7, <1>8, <1>9 DEF IInv
<1>11. StageOf' = StageOf /\ ToUndo' = ToUndo
  BY <1>3, <1>10, StageNow, StageNext DEF ToUndo, Undoing, IInv, UndoPlaces
<1> QED BY <1>1, <1>3, <1>10, <1>11, SagaStutters DEF Around

(* A step, or a compensation, succeeds.                                    *)
LEMMA ReturningOk ==
  ASSUME IInv, loc \in Holding, NEW e, Settled(e), NEW out \in SUBSET Marks,
         ReturnsOk(e, out), cur' = cur, Around
  PROVE  IInv' /\ SagaStep
<1>1. cur.step \in StepIds
  BY DEF IInv, CurrentStep, Holding, Stepping
<1>2. stored' \in Executions
  BY DEF ReturnsOk, Settled
<1>3. CASE Undoing
  <2>1. undone > 1 /\ undone \in Nat
    BY <1>3 DEF IInv, TypeOK, CurrentStep, Holding, Stepping
  <2>2. /\ exec' = Undid(e, TRUE) /\ undone' = undone - 1 /\ loc' = "unwind"
        /\ outputs' = outputs /\ comp' = comp
    BY <1>3 DEF ReturnsOk
  <2>3. Settled(exec')
    BY <1>1, <1>3, <2>1, <2>2, UndidSettled
  <2>4. TypeOK'
    <3>1. exec' \in Executions
      BY <2>3 DEF Settled
    <3>2. comp' \in Seq(StepIds) /\ undone' \in 0..(Len(comp') + 1)
      BY <2>1, <2>2 DEF IInv, TypeOK
    <3> QED BY <1>2, <2>2, <3>1, <3>2 DEF IInv, TypeOK, Around
  <2>5. OutputsKnown'
    BY <2>2 DEF IInv, OutputsKnown, Around, StepList
  <2>6. Ended' /\ Alive' /\ NoEventLeftOpen'
    BY <2>2, <2>3 DEF Settled, Ended, Alive, NoEventLeftOpen, Open
  <2>7. UndoPlaces' /\ CurrentStep' /\ LastEvent'
    BY <2>1, <2>2 DEF UndoPlaces, CurrentStep, LastEvent, Holding, Stepping, Undoing, NotUndoing
  <2>8. IInv'
    BY <2>4, <2>5, <2>6, <2>7 DEF IInv
  <2> QED BY <1>3, <2>1, <2>2, <2>8, OneUndone DEF Around, Holding
<1>4. CASE ~Undoing
  <2>1. /\ cur.step \in Pending /\ wf.deps[cur.step] \subseteq DOMAIN outputs
    BY <1>4 DEF IInv, CurrentStep, Holding, Stepping
  <2>2. /\ exec' = e /\ undone' = undone /\ loc' = "next"
        /\ outputs' = [s \in DOMAIN outputs \union {cur.step} |->
                         IF s = cur.step THEN out ELSE outputs[s]]
        /\ comp' = Banked(cur.step)
    BY <1>4 DEF ReturnsOk
  <2>3. comp \in Seq(StepIds) /\ undone = 0
    BY <1>4 DEF IInv, TypeOK, Undoing, NotUndoing
  <2>4. comp' \in Seq(StepIds)
    BY <1>1, <2>2, <2>3 DEF Banked
  <2>5. DOMAIN outputs' = DOMAIN outputs \union {cur.step}
    BY <2>2
  <2>6. DOMAIN outputs' \subseteq StepIds /\ \A s \in DOMAIN outputs' : outputs'[s] \subseteq Marks
    BY <1>1, <2>2 DEF IInv, TypeOK
  <2>7. TypeOK'
    BY <1>2, <2>2, <2>3, <2>4, <2>6 DEF IInv, TypeOK, Around, Settled
  <2>8. OutputsKnown'
    BY <2>1, <2>5 DEF IInv, OutputsKnown, Around, StepList, Pending
  <2>9. Ended' /\ Alive' /\ NoEventLeftOpen'
    BY <2>2 DEF Settled, Ended, Alive, NoEventLeftOpen, Open
  <2>10. UndoPlaces' /\ CurrentStep' /\ LastEvent' /\ ~Undoing'
    BY <1>4, <2>2 DEF UndoPlaces, CurrentStep, LastEvent, Holding, Stepping, Undoing, NotUndoing
  <2>11. IInv'
    BY <2>7, <2>8, <2>9, <2>10 DEF IInv
  <2>12. StageOf = "forward" /\ StageOf' = "forward"
    BY <1>4, <2>2, <2>10, <2>11, StageNow, StageNext DEF Holding
  <2>13. StepList(wf)' = StepList(wf) /\ wf' = wf
    BY DEF Around, StepList
  <2>14. comp' = IF cur.step \in {s \in StepIds : wf.undo[s] # NoStep}
                 THEN Append(comp, cur.step) ELSE comp
    BY <1>1, <2>2 DEF Banked
  <2>15. Compensated!Do(cur.step)
    BY <1>4, <2>1, <2>5, <2>10, <2>12, <2>13, <2>14 DEF Compensated!Do, Compensated!workflow, Pending
  <2> QED BY <2>1, <2>11, <2>15 DEF SagaStep, Compensated!Next, Pending
<1> QED BY <1>3, <1>4

(* It fails, or is refused.                                                *)
LEMMA ReturningErr ==
  ASSUME IInv, loc \in Holding \union {"next"}, loc = "next" => Pending # {},
         NEW e, Settled(e), NEW reason \in Reasons \ {"deadlock"},
         ReturnsErr(e, reason), cur' = cur, Around
  PROVE  IInv' /\ SagaStep
<1>1. loc = "next" => ~Undoing
  BY DEF IInv, UndoPlaces
<1>2. CASE Undoing
  <2>1. undone > 1 /\ undone \in Nat /\ cur.step \in StepIds /\ loc \in Holding
    BY <1>1, <1>2 DEF IInv, TypeOK, CurrentStep, Holding, Stepping
  <2>2. /\ exec' = Undid(e, FALSE) /\ undone' = undone - 1 /\ loc' = "unwind"
        /\ outputs' = outputs /\ comp' = comp /\ stored' = e
    BY <1>2 DEF ReturnsErr
  <2>3. Settled(exec')
    BY <1>2, <2>1, <2>2, UndidSettled
  <2>4. TypeOK'
    <3>1. exec' \in Executions /\ stored' \in Executions
      BY <2>2, <2>3 DEF Settled
    <3>2. comp' \in Seq(StepIds) /\ undone' \in 0..(Len(comp') + 1)
      BY <2>1, <2>2 DEF IInv, TypeOK
    <3> QED BY <2>2, <3>1, <3>2 DEF IInv, TypeOK, Around
  <2>5. OutputsKnown'
    BY <2>2 DEF IInv, OutputsKnown, Around, StepList
  <2>6. Ended' /\ Alive' /\ NoEventLeftOpen'
    BY <2>2, <2>3 DEF Settled, Ended, Alive, NoEventLeftOpen, Open
  <2>7. UndoPlaces' /\ CurrentStep' /\ LastEvent'
    BY <2>1, <2>2 DEF UndoPlaces, CurrentStep, LastEvent, Holding, Stepping, Undoing, NotUndoing
  <2>8. IInv'
    BY <2>4, <2>5, <2>6, <2>7 DEF IInv
  <2> QED BY <1>2, <2>1, <2>2, <2>8, OneUndone DEF Around, Holding
<1>3. CASE ~Undoing
  <2> DEFINE f == [e EXCEPT !.status = "failed", !.reason = reason]
  <2>1. /\ exec' = f /\ stored' = f /\ undone' = undone /\ loc' = "failing"
        /\ outputs' = outputs /\ comp' = comp
    BY <1>3 DEF ReturnsErr, Published
  <2>2. Settled(f)
    BY DEF Settled, Executions, Statuses
  <2> HIDE DEF f
  <2>3. TypeOK'
    BY <2>1, <2>2 DEF IInv, TypeOK, Around, Settled
  <2>4. OutputsKnown'
    BY <2>1 DEF IInv, OutputsKnown, Around, StepList
  <2>5. Ended' /\ Alive' /\ NoEventLeftOpen'
    BY <2>1, <2>2 DEF Settled, Ended, Alive, NoEventLeftOpen, Open
  <2>6. UndoPlaces' /\ CurrentStep' /\ LastEvent' /\ ~Undoing'
    BY <1>3, <2>1 DEF UndoPlaces, CurrentStep, LastEvent, Holding, Stepping, Undoing
  <2>7. IInv'
    BY <2>3, <2>4, <2>5, <2>6 DEF IInv
  <2>8. StageOf = "forward" /\ StageOf' = "backward"
    BY <1>3, <2>1, <2>7, StageNow, StageNext DEF Holding
  <2>9. StepList(wf)' = StepList(wf) /\ wf' = wf
    BY DEF Around, StepList
  <2>10. DOMAIN outputs # StepList(wf)
    BY <1>3 DEF IInv, CurrentStep, Holding, Stepping, Pending
  <2>11. Compensated!Fail
    BY <1>3, <2>1, <2>6, <2>8, <2>9, <2>10 DEF Compensated!Fail, Compensated!Leave, Compensated!workflow
  <2> QED BY <2>7, <2>11 DEF SagaStep, Compensated!Next
<1> QED BY <1>2, <1>3

(* The goroutine goes on within a step.                                    *)
LEMMA Continuing ==
  ASSUME IInv, loc \in Stepping, loc' \in Stepping, Around,
         exec' \in Executions, ~exec'.over,
         exec'.status \notin {"completed", "cancelled"}, exec'.reason # "deadlock",
         stored' = exec', outputs' = outputs, comp' = comp, undone' = undone,
         cur' \in [step : StepIds, attempt : Nat \ {0}, inputs : SUBSET Marks],
         cur'.step = cur.step, LastEvent', NoEventLeftOpen'
  PROVE  IInv' /\ SagaStep
<1>1. TypeOK'
  BY DEF IInv, TypeOK, Around, Stepping
<1>2. OutputsKnown' /\ Pending' = Pending
  BY DEF IInv, OutputsKnown, Around, StepList, Pending
<1>3. Ended' /\ Alive' /\ UndoPlaces'
  BY DEF IInv, Ended, Alive, UndoPlaces, Stepping
<1>4. CurrentStep'
  BY <1>2 DEF IInv, CurrentStep, Undoing, Around
<1>5. IInv'
  BY <1>1, <1>2, <1>3, <1>4 DEF IInv
<1>6. StageOf' = StageOf /\ ToUndo' = ToUndo
  BY <1>5, StageNow, StageNext DEF ToUndo, Undoing, Stepping
<1> QED BY <1>5, <1>6, SagaStutters DEF Around

-----------------------------------------------------------------------------
(* The actions                                                             *)

(* A step that audits nothing keeps its surroundings.                      *)
LEMMA AuditKept ==
  ASSUME IInv, Environment, audit' = audit
  PROVE  Around
BY EnvironmentAround DEF IInv, TypeOK

(* The goroutine starts.                                                   *)
LEMMA BeginSteps ==
  ASSUME IInv, Begin
  PROVE  IInv' /\ SagaStep
<1> DEFINE m == [exec EXCEPT !.status = "running"]
<1>1. /\ exec' = m /\ stored' = m /\ loc = "start" /\ loc' = "next" /\ Around
      /\ cur' = cur /\ outputs' = outputs /\ comp' = comp /\ undone' = undone
  BY AuditKept DEF Begin, Published
<1>2. m \in Executions /\ m.steps = exec.steps /\ m.over = exec.over /\ m.reason = exec.reason
      /\ m.status = "running"
  BY DEF IInv, TypeOK, Executions, Statuses
<1> HIDE DEF m
<1>3. TypeOK' /\ OutputsKnown'
  BY <1>1, <1>2 DEF IInv, TypeOK, Around, OutputsKnown, StepList
<1>4. Ended' /\ Alive' /\ UndoPlaces' /\ CurrentStep' /\ LastEvent' /\ NoEventLeftOpen'
  BY <1>1, <1>2 DEF IInv, Ended, Alive, UndoPlaces, CurrentStep, LastEvent, NoEventLeftOpen,
                    Stepping, Holding, Undoing
<1>5. IInv'
  BY <1>3, <1>4 DEF IInv
<1>6. StageOf' = StageOf /\ ToUndo' = ToUndo
  BY <1>1, <1>5, StageNow, StageNext DEF ToUndo, Undoing
<1> QED BY <1>1, <1>5, <1>6, SagaStutters DEF Around

(* The goroutine ends between two steps.                                   *)
LEMMA EndingSteps ==
  ASSUME IInv, Complete \/ Deadlock \/ ContextCancelled \/ NothingToUndo \/ EndUndo
  PROVE  IInv' /\ SagaStep
<1>1. exec \in Executions /\ ~exec.over
      /\ exec.status \notin {"completed", "cancelled"} /\ exec.reason # "deadlock"
  BY DEF IInv, TypeOK, Executions, Ended, Alive, Complete, Deadlock, ContextCancelled, NothingToUndo, EndUndo
<1> DEFINE Leaves(to) == Compensated!Leave(IF loc = "next" THEN "forward" ELSE "backward", to)
<1>2. ASSUME NEW e \in Executions, e.steps = exec.steps, Ends(e),
             loc \in {"next", "failing", "unwind"},
             NEW to,
             to = IF e.status = "completed" THEN "committed"
                  ELSE IF e.status = "cancelled" \/ e.reason = "deadlock" THEN "abandoned"
                  ELSE "aborted",
             e.status = "completed" => e.reason # "deadlock"
      PROVE  IInv' /\ Leaves(to)
  <2>1. IInv'
    BY <1>2, Ending
  <2>2. exec'.over /\ exec'.status = e.status /\ exec'.reason = e.reason
        /\ outputs' = outputs /\ comp' = comp /\ undone' = undone /\ wf' = wf
    BY <1>2 DEF Ends, Published, Environment, Executions
  <2>3. StageOf' = to
    BY <1>2, <2>2 DEF StageOf
  <2>4. StageOf = IF loc = "next" THEN "forward" ELSE "backward"
    BY <1>2, StageNow DEF IInv, UndoPlaces
  <2> QED BY <2>1, <2>2, <2>3, <2>4 DEF Compensated!Leave, Compensated!workflow, Undoing, StepList
<1> HIDE DEF Leaves
<1>3. CASE Complete
  <2>1. [exec EXCEPT !.status = "completed"] \in Executions
    BY <1>1 DEF Executions, Statuses
  <2>2. IInv' /\ Leaves("committed")
    BY <1>1, <1>2, <1>3, <2>1 DEF Complete, Executions
  <2>3. DOMAIN outputs = StepList(wf)
    BY <1>3 DEF Complete, Pending, IInv, OutputsKnown
  <2> QED BY <1>3, <2>2, <2>3 DEF Leaves, Complete, SagaStep, Compensated!Next, Compensated!Commit
<1>4. CASE Deadlock \/ ContextCancelled
  <2>1. DOMAIN outputs # StepList(wf) /\ loc = "next"
    BY <1>4 DEF Deadlock, ContextCancelled, Pending
  <2>2. CASE Deadlock
    <3>1. [exec EXCEPT !.status = "failed", !.reason = "deadlock"] \in Executions
      BY <1>1 DEF Executions, Statuses, Reasons
    <3> QED BY <1>1, <1>2, <2>1, <2>2, <3>1 DEF Deadlock, Executions, Leaves, SagaStep, Compensated!Next, Compensated!Abandon
  <2>3. CASE ContextCancelled
    <3>1. [exec EXCEPT !.status = "cancelled"] \in Executions
      BY <1>1 DEF Executions, Statuses
    <3> QED BY <1>1, <1>2, <2>1, <2>3, <3>1 DEF ContextCancelled, Executions, Leaves, SagaStep, Compensated!Next, Compensated!Abandon
  <2> QED BY <1>4, <2>2, <2>3
<1>5. CASE NothingToUndo \/ EndUndo
  <2>1. Ends(exec) /\ loc \in {"failing", "unwind"}
    BY <1>5 DEF NothingToUndo, EndUndo
  <2>2. IInv' /\ Leaves("aborted")
    BY <1>1, <1>2, <2>1
  <2>3. ToUndo = <<>>
    BY <1>5 DEF NothingToUndo, EndUndo, ToUndo, IInv, UndoPlaces, TypeOK, Undoing, NotUndoing
  <2> QED BY <2>1, <2>2, <2>3 DEF Leaves, ToUndo, SagaStep, Compensated!Next, Compensated!Abort
<1> QED BY <1>3, <1>4, <1>5

(* A step is begun or refused.                                             *)
LEMMA RunSteps ==
  ASSUME IInv, NEW s \in StepIds, BeginStep(s) \/ RefuseStep(s)
  PROVE  IInv' /\ SagaStep
<1>1. loc = "next" /\ s \in Pending /\ wf.deps[s] \subseteq DOMAIN outputs
  BY DEF BeginStep, RefuseStep, IsNext, Runnable
<1>2. CASE BeginStep(s)
  <2>1. ResolvedInputs(s) \in SUBSET Marks
    BY DEF ResolvedInputs, IInv, TypeOK
  <2> QED BY <1>1, <1>2, <2>1, Entering DEF BeginStep
<1>3. CASE RefuseStep(s)
  <2>1. Refusal(s) \in Reasons \ {"deadlock"} /\ ReturnsErr(exec, Refusal(s)) /\ cur' = cur
    BY <1>3 DEF RefuseStep, Refusal, Reasons
  <2>2. Around
    BY <1>3, AuditKept DEF RefuseStep
  <2> QED BY <1>1, <2>1, <2>2, NowSettled, ReturningErr
<1> QED BY <1>2, <1>3

(* An attempt succeeds, or fails for good.                                 *)
LEMMA AttemptSteps ==
  ASSUME IInv, \/ FailUnbound \/ ActivitySucceeds
               \/ \E kind \in {"transient", "permanent"} : ActivityFails(kind)
  PROVE  IInv' /\ SagaStep
<1>1. loc = "execute" /\ cur' = cur /\ Around
  BY AuditKept DEF FailUnbound, ActivitySucceeds, ActivityFails, Attempting
<1>2. cur.inputs \in SUBSET Marks
  BY DEF IInv, TypeOK
<1>3. Settled(Marked("failed", cur.inputs)) /\ Settled(Marked("completed", cur.inputs))
  BY <1>1, <1>2, MarkedSettled DEF Holding
<1>4. CASE FailUnbound
  <2>1. ReturnsErr(Marked("failed", cur.inputs), "unbound")
    BY <1>4 DEF FailUnbound
  <2> QED BY <1>1, <1>3, <2>1, ReturningErr DEF Holding, Reasons
<1>5. CASE ActivitySucceeds
  <2>1. ReturnsOk(Marked("completed", cur.inputs), {"result"})
    BY <1>5 DEF ActivitySucceeds
  <2> QED BY <1>1, <1>3, <2>1, ReturningOk DEF Holding, Marks
<1>6. ASSUME NEW kind \in {"transient", "permanent"}, ActivityFails(kind)
      PROVE  IInv' /\ SagaStep
  <2>1. CASE MayRetry(kind)
    <3> DEFINE m == Marked("failed", cur.inputs)
    <3>1. /\ exec' = m /\ stored' = m /\ loc' = "backoff" /\ outputs' = outputs
          /\ comp' = comp /\ undone' = undone
      BY <1>6, <2>1 DEF ActivityFails, Published
    <3>2. LastEvent' /\ NoEventLeftOpen'
      BY <1>3, <3>1 DEF LastEvent, Holding, NoEventLeftOpen, Settled, Open
    <3>3. cur' \in [step : StepIds, attempt : Nat \ {0}, inputs : SUBSET Marks]
      BY <1>1 DEF IInv, TypeOK, CurrentStep, Stepping
    <3> HIDE DEF m
    <3> QED BY <1>1, <1>3, <3>1, <3>2, <3>3, Continuing DEF Settled, Stepping, m
  <2>2. CASE ~MayRetry(kind)
    <3>1. ReturnsErr(Marked("failed", cur.inputs), "activity")
      BY <1>6, <2>2 DEF ActivityFails
    <3> QED BY <1>1, <1>3, <3>1, ReturningErr DEF Holding, Reasons
  <2> QED BY <2>1, <2>2
<1> QED BY <1>4, <1>5, <1>6

(* An attempt fails and another follows.                                   *)
LEMMA RetrySteps ==
  ASSUME IInv, Retry
  PROVE  IInv' /\ SagaStep
<1> DEFINE m == Opened(cur.step, cur.attempt + 1, cur.inputs)
           n == Len(exec.steps)
<1>1. loc = "backoff" /\ loc' = "execute" /\ Around /\ exec' = m /\ stored' = m
      /\ outputs' = outputs /\ comp' = comp /\ undone' = undone
  BY AuditKept DEF Retry, Published
<1>2. cur.step \in StepIds /\ cur.attempt + 1 \in Nat \ {0} /\ cur.inputs \in SUBSET Marks
  BY <1>1 DEF IInv, TypeOK, CurrentStep, Stepping
<1>3. /\ cur'.step = cur.step /\ cur'.attempt = cur.attempt + 1
      /\ cur' \in [step : StepIds, attempt : Nat \ {0}, inputs : SUBSET Marks]
  BY <1>2 DEF Retry, IInv, TypeOK
<1>4. /\ m \in Executions /\ n \in Nat
      /\ m.status = exec.status /\ m.reason = exec.reason /\ m.over = exec.over
      /\ Len(m.steps) = n + 1
      /\ m.steps[n + 1].step = cur.step /\ m.steps[n + 1].attempt = cur.attempt + 1
      /\ \A i \in 1..n : m.steps[i] = exec.steps[i]
  BY <1>2, OpensLast, SMTT(60) DEF IInv, TypeOK, Executions
<1> HIDE DEF m
<1>5. LastEvent' /\ NoEventLeftOpen'
  BY <1>1, <1>3, <1>4, SMTT(60) DEF IInv, LastEvent, NoEventLeftOpen
<1>6. ~m.over /\ m.status \notin {"completed", "cancelled"} /\ m.reason # "deadlock"
  BY <1>1, <1>4 DEF IInv, Ended, Alive
<1> QED BY <1>1, <1>3, <1>4, <1>5, <1>6, Continuing DEF Stepping

(* A gate opens.                                                           *)
LEMMA GateOpening ==
  ASSUME IInv, GateOpens
  PROVE  IInv' /\ SagaStep
<1> DEFINE m == Marked("waiting", cur.inputs)
           w == [m EXCEPT !.status = "waiting"]
           n == Len(exec.steps)
<1>1. loc = "execute" /\ loc' = "await" /\ Around /\ exec' = w /\ stored' = w
      /\ outputs' = outputs /\ comp' = comp /\ undone' = undone /\ cur' = cur
  BY AuditKept DEF GateOpens, Attempting, Published
<1>2. cur \in [step : StepIds, attempt : Nat \ {0}, inputs : SUBSET Marks]
  BY <1>1 DEF IInv, TypeOK, CurrentStep, Stepping
<1>3. Closes(m, "waiting")
  BY <1>1, <1>2, MarkedCloses DEF IInv, Holding
<1> HIDE DEF m
<1>4. /\ w \in Executions /\ w.status = "waiting" /\ w.reason = exec.reason
      /\ w.over = exec.over /\ w.steps = m.steps
  BY <1>3 DEF Closes, Executions, Statuses
<1>5. ~w.over /\ w.reason # "deadlock"
  BY <1>1, <1>4 DEF IInv, Ended, Alive
<1> HIDE DEF w
<1>6. n \in Nat /\ n # 0 /\ exec.steps[n].step = cur.step /\ exec.steps[n].attempt = cur.attempt
  BY <1>1 DEF IInv, TypeOK, Executions, LastEvent, Holding
<1>7. LastEvent'
  BY <1>1, <1>3, <1>4, <1>6 DEF LastEvent, Closes
<1>8. NoEventLeftOpen'
  BY <1>1, <1>3, <1>4 DEF IInv, NoEventLeftOpen, Closes
<1> QED BY <1>1, <1>2, <1>4, <1>5, <1>7, <1>8, Continuing DEF Stepping

(* What is left of a gate's decision.                                      *)
Entered(final, decision) ==
  [step |-> cur.step, original |-> cur.inputs, final |-> final, decision |-> decision]

(* A gate is passed.                                                       *)
LEMMA GatePassing ==
  ASSUME IInv, loc = "await", NEW decision \in {"approved", "timeout_proceed"},
         NEW final \in SUBSET Marks, NEW out \in SUBSET Marks,
         GatePasses(decision, final, out), audit' \in Seq(AuditEntries) => Around
  PROVE  IInv' /\ SagaStep
<1>1. Settled(Marked("completed", final))
  BY MarkedSettled DEF Holding
<1>2. Settled([Marked("completed", final) EXCEPT !.status = "running"])
  <2> DEFINE m == Marked("completed", final)
  <2> HIDE DEF m
  <2>1. Settled(m)
    BY <1>1 DEF m
  <2>2. Settled([m EXCEPT !.status = "running"])
    BY <2>1 DEF Settled, Executions, Statuses
  <2> QED BY <2>2 DEF m
<1>3. Entered(final, decision) \in AuditEntries
  BY DEF IInv, TypeOK, CurrentStep, Stepping, Entered, AuditEntries
<1>4. audit' = Append(audit, Entered(final, decision))
  BY DEF GatePasses, Audited, Entered
<1>5. Around
  BY <1>3, <1>4 DEF IInv, TypeOK
<1> QED BY <1>2, <1>5, ReturningOk DEF GatePasses, Holding

(* A gate is not passed.                                                   *)
LEMMA GateFailing ==
  ASSUME IInv, loc = "await",
         NEW decision \in {"rejected", "cancelled", "escalated", "timeout_failed"},
         NEW reason \in Reasons \ {"deadlock"},
         GateFails(decision, reason), audit' \in Seq(AuditEntries) => Around
  PROVE  IInv' /\ SagaStep
<1>1. cur.inputs \in SUBSET Marks /\ cur.step \in StepIds
  BY DEF IInv, TypeOK, CurrentStep, Stepping
<1>2. Settled(Marked("failed", cur.inputs))
  BY <1>1, MarkedSettled DEF Holding
<1>3. Entered(cur.inputs, decision) \in AuditEntries
  BY <1>1 DEF Entered, AuditEntries
<1>4. audit' = Append(audit, Entered(cur.inputs, decision))
  BY DEF GateFails, Audited, Entered
<1>5. Around
  BY <1>3, <1>4 DEF IInv, TypeOK
<1> QED BY <1>2, <1>5, ReturningErr DEF GateFails, Holding

(* Nothing of the goroutine's changes.                                     *)
LEMMA Staying ==
  ASSUME IInv, UNCHANGED goroutine, audit' \in Seq(AuditEntries) => Around
  PROVE  IInv' /\ SagaStep
<1>1. Around
  BY DEF IInv, TypeOK, goroutine
<1>2. TypeOK'
  BY <1>1 DEF IInv, TypeOK, goroutine, Around
<1>3. OutputsKnown' /\ Ended' /\ Alive' /\ UndoPlaces' /\ LastEvent' /\ NoEventLeftOpen'
  BY <1>1 DEF IInv, OutputsKnown, Ended, Alive, UndoPlaces, LastEvent, NoEventLeftOpen,
              goroutine, Around, StepList, Undoing
<1>4. CurrentStep'
  BY <1>1 DEF IInv, CurrentStep, Undoing, Pending, StepList, goroutine, Around
<1>5. StageOf' = StageOf /\ ToUndo' = ToUndo
  BY DEF StageOf, ToUndo, Undoing, goroutine
<1> QED BY <1>1, <1>2, <1>3, <1>4, <1>5, SagaStutters DEF IInv, goroutine, Around

(* A signal reaches a gate.                                                *)
LEMMA DecideSteps ==
  ASSUME IInv, Decide
  PROVE  IInv' /\ SagaStep
<1> DEFINE env == Head(Received)
<1>1. loc = "await" /\ chan # <<>> /\ Received = chan /\ chan' = Tail(chan)
      /\ wf' = wf /\ ctxDone' = ctxDone /\ sends' = sends
  BY DEF Decide, Received
<1>2. audit' \in Seq(AuditEntries) => Around
  <2>1. chan \in Seq(Envelopes) /\ Len(chan) <= SignalCap /\ SignalCap \in Nat
    BY BoundsTyped DEF IInv, TypeOK
  <2>2. chan' \in Seq(Envelopes) /\ Len(chan') <= SignalCap
    BY <1>1, <2>1
  <2> QED BY <1>1, <2>2 DEF IInv, TypeOK, Around
<1>3. env \in Envelopes
  BY <1>1 DEF IInv, TypeOK
<1>4. FinalInputs(env) \in SUBSET Marks /\ GateOutputs(env) \in SUBSET Marks
  BY <1>3 DEF FinalInputs, GateOutputs, Envelopes, Marks, IInv, TypeOK
<1> HIDE DEF env
<1>5. \/ GatePasses("approved", FinalInputs(env), GateOutputs(env))
      \/ GateFails("rejected", "rejected")
      \/ GateFails("cancelled", "cancelled")
      \/ UNCHANGED goroutine
  BY <1>3 DEF Decide, Envelopes, env
<1>6. CASE GatePasses("approved", FinalInputs(env), GateOutputs(env))
  BY <1>1, <1>2, <1>4, <1>6, GatePassing
<1>7. CASE GateFails("rejected", "rejected")
  BY <1>1, <1>2, <1>7, GateFailing DEF Reasons
<1>8. CASE GateFails("cancelled", "cancelled")
  BY <1>1, <1>2, <1>8, GateFailing DEF Reasons
<1>9. CASE UNCHANGED goroutine
  BY <1>2, <1>9, Staying
<1> QED BY <1>5, <1>6, <1>7, <1>8, <1>9

(* A gate times out.                                                       *)
LEMMA TimeoutSteps ==
  ASSUME IInv, GateTimesOut
  PROVE  IInv' /\ SagaStep
<1>1. loc = "await" /\ (audit' \in Seq(AuditEntries) => Around)
  BY EnvironmentAround DEF IInv, GateTimesOut
<1>2. cur.inputs \in SUBSET Marks /\ {"decision"} \in SUBSET Marks
  BY DEF IInv, TypeOK, Marks
<1>3. \/ GatePasses("timeout_proceed", cur.inputs, {"decision"})
      \/ GateFails("escalated", "hitl_escalated")
      \/ GateFails("timeout_failed", "hitl_timeout")
  BY DEF GateTimesOut
<1>4. CASE GatePasses("timeout_proceed", cur.inputs, {"decision"})
  BY <1>1, <1>2, <1>4, GatePassing
<1>5. CASE GateFails("escalated", "hitl_escalated")
  BY <1>1, <1>5, GateFailing DEF Reasons
<1>6. CASE GateFails("timeout_failed", "hitl_timeout")
  BY <1>1, <1>6, GateFailing DEF Reasons
<1> QED BY <1>3, <1>4, <1>5, <1>6

(* The compensations begin, or there are none.                             *)
LEMMA StartingUndo ==
  ASSUME IInv, StartUndo
  PROVE  IInv' /\ SagaStep
<1> DEFINE m == [exec EXCEPT !.status = "compensating"]
<1>1. /\ loc = "failing" /\ loc' = "unwind" /\ Around /\ exec' = m /\ stored' = m
      /\ cur' = cur /\ outputs' = outputs /\ comp' = comp /\ undone' = Len(comp) + 1
  BY AuditKept DEF StartUndo, Published
<1>2. comp \in Seq(StepIds) /\ Len(comp) \in Nat /\ ~Undoing
  BY <1>1 DEF IInv, TypeOK, UndoPlaces
<1>3. Settled(m)
  <2>1. Settled(exec)
    BY <1>1, NowSettled
  <2> QED BY <2>1 DEF Settled, Executions, Statuses
<1> HIDE DEF m
<1>4. TypeOK'
  BY <1>1, <1>2, <1>3 DEF IInv, TypeOK, Around, Settled
<1>5. OutputsKnown'
  BY <1>1 DEF IInv, OutputsKnown, Around, StepList
<1>6. Ended' /\ Alive' /\ NoEventLeftOpen'
  BY <1>1, <1>3 DEF Settled, Ended, Alive, NoEventLeftOpen, Open
<1>7. UndoPlaces' /\ CurrentStep' /\ LastEvent' /\ Undoing'
  BY <1>1, <1>2 DEF UndoPlaces, CurrentStep, LastEvent, Holding, Stepping, Undoing, NotUndoing
<1>8. IInv'
  BY <1>4, <1>5, <1>6, <1>7 DEF IInv
<1>9. StageOf' = StageOf
  BY <1>1, <1>8, StageNow, StageNext
<1>10. ToUndo' = ToUndo
  <2>1. ToUndo = comp /\ ToUndo' = SubSeq(comp, 1, Len(comp))
    BY <1>1, <1>2, <1>7 DEF ToUndo
  <2> QED BY <1>2, <2>1
<1> QED BY <1>1, <1>8, <1>9, <1>10, SagaStutters DEF Around

(* A compensation is run, refused or missing, or they end.                 *)
LEMMA UndoSteps ==
  ASSUME IInv, UndoStep \/ UndoRefused \/ UndoMissing
  PROVE  IInv' /\ SagaStep
<1>1. loc = "unwind" /\ undone > 1 /\ undone \in Nat /\ Undoing
  BY DEF UndoStep, UndoRefused, UndoMissing, IInv, TypeOK, UndoPlaces
<1>2. comp \in Seq(StepIds) /\ undone - 1 \in 1..Len(comp) /\ comp[undone - 1] \in StepIds
  BY <1>1 DEF IInv, TypeOK
<1>3. Settled(exec)
  BY <1>1, NowSettled
<1>4. Compensates(comp[undone - 1]) => wf.undo[comp[undone - 1]] \in StepIds
  BY Shape DEF Compensates, IInv
<1>5. CASE UndoStep
  BY <1>1, <1>4, <1>5, Entering DEF UndoStep, Marks
<1>6. ASSUME \/ exec' = exec
             \/ \E ok \in BOOLEAN, by \in StepIds :
                  exec' = [exec EXCEPT !.comps = Append(@, [for |-> comp[undone - 1], by |-> by, ok |-> ok])],
             undone' = undone - 1, audit' = audit, Environment,
             UNCHANGED <<stored, loc, cur, outputs, comp>>
      PROVE  IInv' /\ SagaStep
  <2>1. Settled(exec')
    <3>1. ASSUME NEW ok \in BOOLEAN, NEW by \in StepIds,
                 exec' = [exec EXCEPT !.comps = Append(@, [for |-> comp[undone - 1], by |-> by, ok |-> ok])]
          PROVE  Settled(exec')
      <4>1. [for |-> comp[undone - 1], by |-> by, ok |-> ok] \in CompItems
        BY <1>2 DEF CompItems
      <4>2. Append(exec.comps, [for |-> comp[undone - 1], by |-> by, ok |-> ok]) \in Seq(CompItems)
        BY <1>3, <4>1 DEF Settled, Executions
      <4> QED BY <1>3, <3>1, <4>2 DEF Settled, Executions
    <3> QED BY <1>3, <1>6, <3>1
  <2>2. Around
    BY <1>6, AuditKept
  <2>3. TypeOK'
    <3>1. undone' \in 0..(Len(comp') + 1)
      BY <1>1, <1>6 DEF IInv, TypeOK
    <3> QED BY <1>6, <2>1, <2>2, <3>1 DEF IInv, TypeOK, Around, Settled
  <2>4. OutputsKnown'
    BY <1>6, <2>2 DEF IInv, OutputsKnown, Around, StepList
  <2>5. Ended' /\ Alive' /\ NoEventLeftOpen'
    BY <1>1, <1>6, <2>1 DEF Settled, Ended, Alive, NoEventLeftOpen, Open
  <2>6. UndoPlaces' /\ CurrentStep' /\ LastEvent'
    BY <1>1, <1>6 DEF UndoPlaces, CurrentStep, LastEvent, Holding, Stepping, Undoing, NotUndoing
  <2>7. IInv'
    BY <2>3, <2>4, <2>5, <2>6 DEF IInv
  <2> QED BY <1>1, <1>6, <2>2, <2>7, OneUndone DEF Around
<1>7. CASE UndoRefused
  BY <1>4, <1>6, <1>7 DEF UndoRefused
<1>8. CASE UndoMissing
  BY <1>6, <1>8 DEF UndoMissing, Skipped
<1> QED BY <1>5, <1>7, <1>8

(* Clients change the channel and the context only.                        *)
LEMMA ClientSteps ==
  ASSUME IInv, Clients
  PROVE  IInv' /\ SagaStep
<1>1. UNCHANGED goroutine /\ wf' = wf
  BY DEF Clients, SignalWorkflow, CancelWorkflow, CancelContext
<1>2. GateSeen \in StepIds \union {NoStep}
  BY DEF GateSeen, IInv, TypeOK
<1>3. chan \in Seq(Envelopes) /\ Len(chan) \in Nat /\ Len(chan) <= SignalCap
      /\ SignalCap \in Nat /\ MaxSends \in Nat /\ sends \in 0..MaxSends
  BY BoundsTyped DEF IInv, TypeOK
<1>4. ASSUME NEW env \in Envelopes, HasRoom
      PROVE  Append(chan, env) \in Seq(Envelopes) /\ Len(Append(chan, env)) <= SignalCap
  BY <1>3, <1>4 DEF HasRoom
<1>5. audit' \in Seq(AuditEntries) => Around
  <2>1. ASSUME NEW name \in {"approve", "reject", "other"}, NEW p \in SUBSET {"note", "inputs"},
               SignalWorkflow(name, p)
        PROVE  audit' \in Seq(AuditEntries) => Around
    <3>1. [name |-> name, payload |-> p, sentTo |-> GateSeen] \in Envelopes
      BY <1>2 DEF Envelopes
    <3>2. chan' \in Seq(Envelopes) /\ Len(chan') <= SignalCap
      BY <1>4, <2>1, <3>1 DEF SignalWorkflow
    <3> QED BY <1>3, <2>1, <3>2 DEF SignalWorkflow, IInv, TypeOK, Around
  <2>2. CASE CancelWorkflow
    <3>1. [name |-> "__cancel__", payload |-> {}, sentTo |-> GateSeen] \in Envelopes
      BY <1>2 DEF Envelopes
    <3>2. chan' \in Seq(Envelopes) /\ Len(chan') <= SignalCap
      BY <1>3, <1>4, <2>2, <3>1 DEF CancelWorkflow
    <3> QED BY <1>3, <2>2, <3>2 DEF CancelWorkflow, IInv, TypeOK, Around
  <2>3. CASE CancelContext
    BY <1>3, <2>3 DEF CancelContext, IInv, TypeOK, Around
  <2> QED BY <2>1, <2>2, <2>3 DEF Clients
<1> QED BY <1>1, <1>5, Staying

-----------------------------------------------------------------------------
(* The theorems                                                            *)

(* The first states satisfy the invariant and begin the saga.              *)
LEMMA InitOk ==
  ASSUME Init
  PROVE  IInv /\ Compensated!Begun
<1>1. exec \in Executions /\ stored = exec /\ exec.steps = <<>> /\ ~exec.over
      /\ exec.status = "pending" /\ exec.reason = "none"
  BY DEF Init, Executions, Statuses, Reasons
<1>2. TypeOK
  <2>1. cur \in [step : StepIds \union {NoStep}, attempt : Nat, inputs : SUBSET Marks]
    BY DEF Init
  <2>2. DOMAIN outputs \subseteq StepIds /\ \A s \in DOMAIN outputs : outputs[s] \subseteq Marks
    BY DEF Init
  <2>3. comp \in Seq(StepIds) /\ undone \in 0..(Len(comp) + 1) /\ audit \in Seq(AuditEntries)
    BY DEF Init, NotUndoing
  <2>4. chan \in Seq(Envelopes) /\ Len(chan) <= SignalCap
    BY BoundsTyped DEF Init
  <2>5. wf \in Workflows /\ loc = "start" /\ ctxDone = FALSE /\ sends = 0
    BY Zenon DEF Init
  <2>6. ctxDone \in BOOLEAN
    BY <2>5, Zenon
  <2>7. sends \in 0..MaxSends
    BY <2>5, BoundsTyped
  <2> QED BY <1>1, <2>1, <2>2, <2>3, <2>4, <2>5, <2>6, <2>7 DEF TypeOK
<1>3. OutputsKnown /\ Ended /\ Alive /\ UndoPlaces /\ CurrentStep /\ LastEvent /\ NoEventLeftOpen
  BY <1>1 DEF Init, OutputsKnown, Ended, Alive, UndoPlaces, CurrentStep, LastEvent, NoEventLeftOpen,
              Stepping, Holding, Undoing
<1>4. IInv
  BY <1>2, <1>3 DEF IInv
<1> QED BY <1>4, StageNow DEF Init, Compensated!Begun, Undoing

(* Every step keeps the invariant and is a step of the saga.               *)
LEMMA NextOk ==
  ASSUME IInv, [Next]_vars
  PROVE  IInv' /\ SagaStep
<1>1. CASE RunStep
  BY <1>1, RunSteps, AttemptSteps, RetrySteps, GateOpening DEF RunStep
<1>2. CASE Goroutine /\ ~RunStep
  BY <1>2, BeginSteps, EndingSteps, DecideSteps, TimeoutSteps, StartingUndo, UndoSteps DEF Goroutine
<1>3. CASE Clients
  BY <1>3, ClientSteps
<1>4. CASE UNCHANGED vars
  <2>1. UNCHANGED goroutine /\ (audit' \in Seq(AuditEntries) => Around)
    BY <1>4 DEF IInv, TypeOK, Around, vars
  <2> QED BY <2>1, Staying
<1> QED BY <1>1, <1>2, <1>3, <1>4 DEF Next, Over

(* IInv is an invariant of the engine.                                     *)
THEOREM EngineInvariant == Spec => []IInv
<1>1. Init => IInv
  BY InitOk
<1>2. IInv /\ [Next]_vars => IInv'
  BY NextOk
<1> QED BY <1>1, <1>2, PTL DEF Spec

(* Every variable keeps its type, so an execution never indexes a step or  *)
(* an event that is not there.                                             *)
THEOREM EngineTypeCorrect == Spec => []TypeOK
<1>1. IInv => TypeOK
  BY DEF IInv
<1> QED BY <1>1, EngineInvariant, PTL

(* markStep closes the event it opened, though compensations repeat step   *)
(* ids and attempt numbers.                                                *)
THEOREM NoEventIsLeftOpen == Spec => []NoEventLeftOpen
<1>1. IInv => NoEventLeftOpen
  BY DEF IInv
<1> QED BY <1>1, EngineInvariant, PTL

(* The engine is a saga: whatever the activities, the approvers and the    *)
(* clients do, a step is done once and after its dependencies, a failure   *)
(* undoes in reverse, and nothing ends half undone.                        *)
THEOREM EngineIsSaga == Spec => ImplementsSaga
<1>1. Init => Compensated!Begun
  BY InitOk
<1>2. IInv /\ [Next]_vars => [Compensated!Next]_(Compensated!vars)
  BY NextOk DEF SagaStep
<1> QED BY <1>1, <1>2, EngineInvariant, PTL DEF Spec, ImplementsSaga, Compensated!Spec

-----------------------------------------------------------------------------
(* Attempts                                                                *)

(* The forward attempts of a step.                                         *)
Made(s) ==
  {j \in 1..Len(exec.steps) : exec.steps[j].step = s /\ Forward(exec.steps[j])}

(* The marker of compensations is in the inputs of compensations only.     *)
OutputsPlain == \A s \in DOMAIN outputs : "compensating_for" \notin outputs[s]

InputsTell ==
  /\ loc \in Stepping => ("compensating_for" \in cur.inputs <=> Undoing)
  /\ loc \in Holding => exec.steps[Len(exec.steps)].inputs = cur.inputs

(* A step that is still to come was never attempted.                       *)
Unattempted ==
  loc \in {"start", "next"} \union Stepping /\ ~Undoing =>
    \A s \in Pending : (loc \in Stepping => s # cur.step) => Made(s) = {}

Counted ==
  loc \in Stepping /\ ~Undoing =>
    /\ Cardinality(Made(cur.step)) = cur.attempt
    /\ cur.attempt <= wf.attempts[cur.step]
    /\ loc = "backoff" => cur.attempt < wf.attempts[cur.step]
    /\ \A j \in Made(cur.step) :
         loc = "backoff" \/ j # Len(exec.steps) => exec.steps[j].status = "failed"

AInv == IInv /\ OutputsPlain /\ InputsTell /\ Unattempted /\ Counted /\ AttemptsInOrder

(* What a step does to the events: nothing, ...                            *)
Quiet ==
  /\ wf' = wf /\ outputs' = outputs /\ exec'.steps = exec.steps
  /\ loc' \notin Stepping
  /\ loc' = "start" => FALSE
  /\ loc' = "next" => loc = "start" /\ undone' = undone

(* ... or it opens one, ...                                                *)
Opens(s, k, ins) ==
  /\ wf' = wf /\ outputs' = outputs /\ undone' = undone
  /\ exec' = Opened(s, k, ins)
  /\ loc' = "execute" /\ cur' = [step |-> s, attempt |-> k, inputs |-> ins]
  /\ \/ loc = "next" /\ s \in Pending /\ k = 1 /\ ins = ResolvedInputs(s)
     \/ loc = "unwind" /\ s \in StepIds /\ k = 1 /\ ins = {"compensating_for"}
     \/ loc = "backoff" /\ s = cur.step /\ k = cur.attempt + 1 /\ ins = cur.inputs

(* ... or it marks the last.                                               *)
MarksEvent(status, ins) ==
  /\ wf' = wf /\ cur' = cur /\ loc \in Holding
  /\ exec'.steps = Marked(status, ins).steps
  /\ \/ loc' \in {"failing", "unwind"} /\ outputs' = outputs
     \/ /\ loc' = "next" /\ undone' = undone
        /\ \E out \in SUBSET (Marks \ {"compensating_for"}) :
             outputs' = [s \in DOMAIN outputs \union {cur.step} |->
                           IF s = cur.step THEN out ELSE outputs[s]]
     \/ /\ loc' = "backoff" /\ status = "failed" /\ ins = cur.inputs
        /\ cur.attempt < wf.attempts[cur.step]
        /\ outputs' = outputs /\ undone' = undone
     \/ /\ loc' = "await" /\ ins = cur.inputs
        /\ outputs' = outputs /\ undone' = undone

(* When runStep returns, its last event is marked.                         *)
LEMMA ReturnsMark ==
  ASSUME IInv, loc \in Holding, NEW status \in {"completed", "failed"},
         NEW ins \in SUBSET Marks, NEW e, Settled(e), e.steps = Marked(status, ins).steps,
         wf' = wf, cur' = cur,
         \/ \E out \in SUBSET (Marks \ {"compensating_for"}) : ReturnsOk(e, out)
         \/ \E reason \in Reasons : ReturnsErr(e, reason)
  PROVE  MarksEvent(status, ins)
<1>1. /\ Undid(e, TRUE).steps = e.steps /\ Undid(e, FALSE).steps = e.steps
      /\ \A reason \in Reasons : [e EXCEPT !.status = "failed", !.reason = reason].steps = e.steps
  BY DEF Undid, Settled, Executions
<1>2. CASE \E out \in SUBSET (Marks \ {"compensating_for"}) : ReturnsOk(e, out)
  BY <1>1, <1>2 DEF ReturnsOk, MarksEvent
<1>3. CASE \E reason \in Reasons : ReturnsErr(e, reason)
  BY <1>1, <1>3 DEF ReturnsErr, Published, MarksEvent
<1> QED BY <1>2, <1>3

(* Every step is one of these, or leaves the goroutine as it is.           *)
LEMMA Kinds ==
  ASSUME IInv, [Next]_vars
  PROVE  \/ Quiet
         \/ \E s \in StepIds, k \in Nat \ {0}, ins \in SUBSET Marks : Opens(s, k, ins)
         \/ \E status \in {"completed", "failed", "waiting"},
                ins \in {cur.inputs, cur.inputs \union {"inputs"}} : MarksEvent(status, ins)
         \/ UNCHANGED <<wf, goroutine>>
<1> DEFINE Opening == \E s \in StepIds, k \in Nat \ {0}, ins \in SUBSET Marks : Opens(s, k, ins)
           Marking == \E status \in {"completed", "failed", "waiting"},
                         ins \in {cur.inputs, cur.inputs \union {"inputs"}} : MarksEvent(status, ins)
<1>1. exec \in Executions /\ cur.inputs \in SUBSET Marks
      /\ cur.inputs \union {"inputs"} \in SUBSET Marks
  BY DEF IInv, TypeOK, Marks
<1>2. CASE \/ Begin \/ Complete \/ Deadlock \/ ContextCancelled \/ NothingToUndo
           \/ StartUndo \/ UndoRefused \/ UndoMissing \/ EndUndo
  BY <1>1, <1>2
  DEF Begin, Complete, Deadlock, ContextCancelled, NothingToUndo, StartUndo, UndoRefused,
      UndoMissing, EndUndo, Ends, Published, Environment, Executions, Quiet, Stepping
<1>3. ASSUME NEW s \in StepIds, RefuseStep(s) PROVE Quiet
  <2>1. loc = "next" /\ ~Undoing
    BY <1>3 DEF RefuseStep, IInv, UndoPlaces
  <2> QED BY <1>1, <1>3, <2>1 DEF RefuseStep, ReturnsErr, Published, Environment, Executions, Quiet, Stepping
<1>4. ASSUME NEW s \in StepIds, BeginStep(s) PROVE Opening
  <2>1. ResolvedInputs(s) \in SUBSET Marks /\ s \in Pending
    BY <1>4 DEF ResolvedInputs, IInv, TypeOK, BeginStep, IsNext, Runnable
  <2>2. Opens(s, 1, ResolvedInputs(s))
    BY <1>4, <2>1 DEF BeginStep, EntersStep, Published, Environment, Opens
  <2> QED BY <2>1, <2>2
<1>5. CASE UndoStep
  <2>1. wf.undo[comp[undone - 1]] \in StepIds
    BY <1>5, Shape DEF UndoStep, Compensates, IInv
  <2>2. Opens(wf.undo[comp[undone - 1]], 1, {"compensating_for"})
    BY <1>5, <2>1 DEF UndoStep, EntersStep, Published, Environment, Opens
  <2> QED BY <2>1, <2>2 DEF Marks
<1>6. CASE Retry
  <2>1. cur \in [step : StepIds, attempt : Nat \ {0}, inputs : SUBSET Marks]
    BY <1>6 DEF Retry, IInv, TypeOK, CurrentStep, Stepping
  <2>2. cur' = [step |-> cur.step, attempt |-> cur.attempt + 1, inputs |-> cur.inputs]
    BY <1>6, <2>1 DEF Retry
  <2>3. Opens(cur.step, cur.attempt + 1, cur.inputs)
    BY <1>6, <2>2 DEF Retry, Published, Environment, Opens
  <2>4. cur.step \in StepIds /\ cur.attempt + 1 \in Nat \ {0} /\ cur.inputs \in SUBSET Marks
    BY <2>1
  <2> QED BY <2>3, <2>4
<1>7. CASE FailUnbound \/ ActivitySucceeds
           \/ \E kind \in {"transient", "permanent"} : ActivityFails(kind)
  <2>1. loc \in Holding /\ wf' = wf /\ cur' = cur
    BY <1>7 DEF FailUnbound, ActivitySucceeds, ActivityFails, Attempting, Environment, Holding
  <2>2. Settled(Marked("failed", cur.inputs)) /\ Settled(Marked("completed", cur.inputs))
    BY <1>1, <2>1, MarkedSettled
  <2>3. CASE FailUnbound
    <3>1. ReturnsErr(Marked("failed", cur.inputs), "unbound") /\ "unbound" \in Reasons
      BY <2>3 DEF FailUnbound, Reasons
    <3> QED BY <1>1, <2>1, <2>2, <3>1, ReturnsMark
  <2>4. CASE ActivitySucceeds
    <3>1. ReturnsOk(Marked("completed", cur.inputs), {"result"})
          /\ {"result"} \in SUBSET (Marks \ {"compensating_for"})
      BY <2>4 DEF ActivitySucceeds, Marks
    <3> QED BY <1>1, <2>1, <2>2, <3>1, ReturnsMark
  <2>5. ASSUME NEW kind \in {"transient", "permanent"}, ActivityFails(kind) PROVE Marking
    <3>1. CASE MayRetry(kind)
      <4>1. MarksEvent("failed", cur.inputs)
        BY <2>1, <2>5, <3>1 DEF ActivityFails, MayRetry, Published, MarksEvent
      <4> QED BY <4>1
    <3>2. CASE ~MayRetry(kind)
      <4>1. ReturnsErr(Marked("failed", cur.inputs), "activity") /\ "activity" \in Reasons
        BY <2>5, <3>2 DEF ActivityFails, Reasons
      <4> QED BY <1>1, <2>1, <2>2, <4>1, ReturnsMark
    <3> QED BY <3>1, <3>2
  <2> QED BY <1>7, <2>3, <2>4, <2>5
<1>8. CASE GateOpens
  <2>1. loc = "execute" /\ wf' = wf /\ cur' = cur /\ exec' = [Marked("waiting", cur.inputs) EXCEPT !.status = "waiting"]
        /\ loc' = "await" /\ outputs' = outputs /\ undone' = undone
    BY <1>8 DEF GateOpens, Attempting, Environment, Published
  <2>2. Marked("waiting", cur.inputs) \in Executions
    BY <1>1, <2>1, MarkedCloses DEF IInv, Holding, Closes
  <2>3. exec'.steps = Marked("waiting", cur.inputs).steps
    BY <2>1, <2>2 DEF Executions
  <2> QED BY <2>1, <2>3 DEF MarksEvent, Holding
<1>9. ASSUME loc = "await", wf' = wf, NEW decision, NEW final \in {cur.inputs, cur.inputs \union {"inputs"}},
             NEW out \in SUBSET (Marks \ {"compensating_for"}), GatePasses(decision, final, out)
      PROVE  Marking
  <2> DEFINE m == Marked("completed", final)
             e == [m EXCEPT !.status = "running"]
  <2>1. Settled(m)
    BY <1>1, <1>9, MarkedSettled DEF Holding
  <2>2. ReturnsOk(e, out) /\ cur' = cur
    BY <1>9 DEF GatePasses
  <2> HIDE DEF m
  <2>3. Settled(e) /\ e.steps = m.steps
    BY <2>1 DEF Settled, Executions, Statuses
  <2> HIDE DEF e
  <2>4. e.steps = Marked("completed", final).steps
    BY <2>3 DEF m
  <2>5. MarksEvent("completed", final)
    BY <1>1, <1>9, <2>2, <2>3, <2>4, ReturnsMark DEF Holding
  <2> QED BY <2>5
<1>10. ASSUME loc = "await", wf' = wf, NEW decision, NEW reason \in Reasons, GateFails(decision, reason)
       PROVE  Marking
  <2>1. Settled(Marked("failed", cur.inputs))
    BY <1>1, <1>10, MarkedSettled DEF Holding
  <2> QED BY <1>1, <1>10, <2>1, ReturnsMark DEF GateFails, Holding
<1>11. CASE Decide
  <2> DEFINE env == Head(Received)
  <2>1. loc = "await" /\ wf' = wf /\ Received \in Seq(Envelopes) /\ Received # <<>>
    BY <1>11 DEF Decide, Received, IInv, TypeOK
  <2>2. env \in Envelopes
    BY <2>1
  <2> HIDE DEF env
  <2>3. /\ FinalInputs(env) \in {cur.inputs, cur.inputs \union {"inputs"}}
        /\ GateOutputs(env) \in SUBSET (Marks \ {"compensating_for"})
    BY <2>2 DEF FinalInputs, GateOutputs, Envelopes, Marks
  <2>4. \/ GatePasses("approved", FinalInputs(env), GateOutputs(env))
        \/ GateFails("rejected", "rejected")
        \/ GateFails("cancelled", "cancelled")
        \/ UNCHANGED goroutine
    BY <1>11, <2>2 DEF Decide, Envelopes, env
  <2> QED BY <1>9, <1>10, <2>1, <2>3, <2>4 DEF Reasons
<1>12. CASE GateTimesOut
  <2>1. loc = "await" /\ wf' = wf /\ {"decision"} \in SUBSET (Marks \ {"compensating_for"})
    BY <1>12 DEF GateTimesOut, Environment, Marks
  <2>2. \/ GatePasses("timeout_proceed", cur.inputs, {"decision"})
        \/ GateFails("escalated", "hitl_escalated")
        \/ GateFails("timeout_failed", "hitl_timeout")
    BY <1>12 DEF GateTimesOut
  <2> QED BY <1>9, <1>10, <2>1, <2>2 DEF Reasons
<1>13. CASE Clients \/ Over \/ UNCHANGED vars
  BY <1>13 DEF Clients, SignalWorkflow, CancelWorkflow, CancelContext, Over, vars
<1> QED
  BY <1>2, <1>3, <1>4, <1>5, <1>6, <1>7, <1>8, <1>11, <1>12, <1>13
  DEF Next, Goroutine, RunStep

(* The same events, but for how the last of them ended.                    *)
SameAttempts ==
  /\ Len(exec'.steps) = Len(exec.steps)
  /\ \A j \in 1..Len(exec.steps) :
       /\ exec'.steps[j].step = exec.steps[j].step
       /\ exec'.steps[j].attempt = exec.steps[j].attempt
       /\ Forward(exec'.steps[j]) <=> Forward(exec.steps[j])
       /\ j # Len(exec.steps) => exec'.steps[j].status = exec.steps[j].status

(* Marking the last event leaves the attempts in order.                    *)
LEMMA SameKept ==
  ASSUME AInv, wf' = wf, SameAttempts
  PROVE  AttemptsInOrder' /\ \A s : Made(s)' = Made(s)
<1>1. exec.steps \in Seq(StepEvents) /\ Len(exec.steps) \in Nat
  BY DEF AInv, IInv, TypeOK, Executions
<1>2. \A s : Made(s)' = Made(s)
  BY DEF SameAttempts, Made
<1>3. ASSUME NEW i \in 1..Len(exec.steps), Forward(exec'.steps[i])
      PROVE  LET e == exec'.steps[i]
                 earlier == {j \in 1..(i - 1) : exec'.steps[j].step = e.step /\ Forward(exec'.steps[j])}
             IN  /\ e.attempt <= wf.attempts[e.step]
                 /\ Cardinality(earlier) = e.attempt - 1
                 /\ \A j \in earlier : exec'.steps[j].status = "failed"
  <2> DEFINE e == exec.steps[i]
             early == {j \in 1..(i - 1) : exec.steps[j].step = e.step /\ Forward(exec.steps[j])}
  <2>1. /\ e.attempt <= wf.attempts[e.step] /\ Cardinality(early) = e.attempt - 1
        /\ \A j \in early : exec.steps[j].status = "failed"
    BY <1>3 DEF SameAttempts, AInv, AttemptsInOrder
  <2>2. \A j \in 1..(i - 1) : j \in 1..Len(exec.steps) /\ j # Len(exec.steps)
    BY <1>1
  <2>3. early = {j \in 1..(i - 1) : exec'.steps[j].step = exec'.steps[i].step /\ Forward(exec'.steps[j])}
    BY <2>2 DEF SameAttempts
  <2>4. \A j \in early : exec'.steps[j].status = "failed"
    BY <2>1, <2>2 DEF SameAttempts
  <2> QED BY <2>1, <2>3, <2>4 DEF SameAttempts
<1>4. AttemptsInOrder'
  BY <1>3 DEF SameAttempts, AttemptsInOrder
<1> QED BY <1>2, <1>4

(* A step without events keeps the invariant.                              *)
LEMMA QuietStep ==
  ASSUME AInv, IInv', Quiet
  PROVE  AInv'
<1>1. exec.steps \in Seq(StepEvents) /\ Len(exec.steps) \in Nat
  BY DEF AInv, IInv, TypeOK, Executions
<1>2. SameAttempts
  BY DEF Quiet, SameAttempts
<1>3. AttemptsInOrder' /\ \A s : Made(s)' = Made(s)
  BY <1>2, SameKept DEF Quiet
<1>4. OutputsPlain' /\ InputsTell' /\ Counted'
  BY DEF Quiet, AInv, OutputsPlain, InputsTell, Counted, Stepping, Holding
<1>5. Pending' = Pending
  BY DEF Quiet, Pending, StepList
<1>6. Unattempted'
  BY <1>3, <1>5 DEF Quiet, AInv, Unattempted, Undoing, Stepping
<1> QED BY <1>3, <1>4, <1>6 DEF AInv

(* So does a step that marks the last event ...                            *)
LEMMA MarkStep ==
  ASSUME AInv, IInv',
         NEW status \in {"completed", "failed", "waiting"},
         NEW ins \in {cur.inputs, cur.inputs \union {"inputs"}}, MarksEvent(status, ins)
  PROVE  AInv'
<1> DEFINE n == Len(exec.steps)
           f == [exec.steps[n] EXCEPT !.status = status, !.inputs = ins]
<1>1. /\ exec \in Executions /\ exec.steps \in Seq(StepEvents) /\ n \in Nat /\ n \in 1..n
      /\ wf' = wf /\ cur' = cur /\ loc \in Holding
  <2>1. exec \in Executions /\ wf' = wf /\ cur' = cur /\ loc \in Holding /\ n # 0
    BY DEF AInv, IInv, TypeOK, LastEvent, MarksEvent
  <2>2. exec.steps \in Seq(StepEvents)
    BY <2>1 DEF Executions
  <2>3. n \in Nat
    BY <2>2
  <2> QED BY <2>1, <2>2, <2>3
<1>2. exec.steps[n] \in StepEvents
  BY <1>1
<1>3. f.step = exec.steps[n].step /\ f.attempt = exec.steps[n].attempt /\ f.status = status
      /\ f.inputs = ins
  BY <1>2 DEF StepEvents
<1>4. exec'.steps = [exec.steps EXCEPT ![n] = f]
  <2>1. Marked(status, ins) = [exec EXCEPT !.steps = [exec.steps EXCEPT ![n] = f]]
    BY <1>1, MarksLast DEF Marked, AInv, IInv
  <2> HIDE DEF f
  <2> QED BY <1>1, <2>1 DEF MarksEvent, Executions
<1> HIDE DEF f
<1>5. Len(exec'.steps) = n /\ \A j \in 1..n : exec'.steps[j] = IF j = n THEN f ELSE exec.steps[j]
  BY <1>1, <1>4
<1>6. "compensating_for" \in ins <=> "compensating_for" \in exec.steps[n].inputs
  BY <1>1 DEF AInv, InputsTell
<1>7. SameAttempts
  BY <1>1, <1>3, <1>5, <1>6 DEF SameAttempts, Forward
<1>8. AttemptsInOrder' /\ \A s : Made(s)' = Made(s)
  BY <1>1, <1>7, SameKept
<1>9. OutputsPlain'
  <2>1. CASE outputs' = outputs
    BY <2>1 DEF AInv, OutputsPlain
  <2>2. CASE \E out \in SUBSET (Marks \ {"compensating_for"}) :
               outputs' = [s \in DOMAIN outputs \union {cur.step} |->
                             IF s = cur.step THEN out ELSE outputs[s]]
    BY <2>2 DEF AInv, OutputsPlain
  <2> QED BY <2>1, <2>2 DEF MarksEvent
<1>10. loc' \in {"next"} \union Stepping => Undoing' = Undoing
  BY DEF MarksEvent, Undoing, Stepping
<1>11. InputsTell'
  BY <1>1, <1>3, <1>5, <1>10 DEF MarksEvent, AInv, InputsTell, Stepping, Holding
<1>12. Unattempted'
  <2>1. SUFFICES ASSUME loc' \in {"start", "next"} \union Stepping, ~Undoing',
                        NEW s \in Pending', loc' \in Stepping => s # cur.step
                 PROVE  Made(s) = {}
    BY <1>1, <1>8 DEF Unattempted
  <2>2. ~Undoing /\ loc \in Stepping
    BY <1>1, <1>10, <2>1 DEF MarksEvent, Stepping, Holding
  <2>3. s \in Pending /\ s # cur.step
    BY <1>1, <2>1 DEF MarksEvent, Pending, StepList, Stepping
  <2> QED BY <2>2, <2>3 DEF AInv, Unattempted
<1>13. Counted'
  <2>1. SUFFICES ASSUME loc' \in Stepping, ~Undoing'
                 PROVE  /\ Cardinality(Made(cur.step)) = cur.attempt
                        /\ cur.attempt <= wf.attempts[cur.step]
                        /\ loc' = "backoff" => cur.attempt < wf.attempts[cur.step]
                        /\ \A j \in Made(cur.step) :
                             loc' = "backoff" \/ j # n => exec'.steps[j].status = "failed"
    BY <1>1, <1>5, <1>8 DEF Counted
  <2>2. loc \in Holding /\ loc \in Stepping /\ ~Undoing /\ loc # "backoff"
    BY <1>1, <1>10, <2>1 DEF Stepping, Holding
  <2>3. /\ Cardinality(Made(cur.step)) = cur.attempt
        /\ cur.attempt <= wf.attempts[cur.step]
        /\ \A j \in Made(cur.step) : j # n => exec.steps[j].status = "failed"
    BY <2>2 DEF AInv, Counted
  <2>4. loc' = "backoff" => cur.attempt < wf.attempts[cur.step] /\ status = "failed"
    BY <2>1 DEF MarksEvent, Stepping
  <2>5. \A j \in Made(cur.step) : j \in 1..n
    BY DEF Made
  <2> QED BY <1>3, <1>5, <2>3, <2>4, <2>5
<1> QED BY <1>8, <1>9, <1>11, <1>12, <1>13 DEF AInv

(* ... and a step that opens one.                                          *)
LEMMA OpenStep ==
  ASSUME AInv, IInv', NEW s \in StepIds, NEW k \in Nat \ {0}, NEW ins \in SUBSET Marks,
         Opens(s, k, ins)
  PROVE  AInv'
<1> DEFINE n == Len(exec.steps)
           f == [step |-> s, attempt |-> k, inputs |-> ins, status |-> "running"]
<1>1. /\ exec \in Executions /\ exec.steps \in Seq(StepEvents) /\ n \in Nat
      /\ wf' = wf /\ outputs' = outputs /\ Undoing' = Undoing /\ Pending' = Pending
      /\ loc' = "execute" /\ cur' = [step |-> s, attempt |-> k, inputs |-> ins]
  BY DEF AInv, IInv, TypeOK, Executions, Opens, Undoing, Pending, StepList
<1>2. exec'.steps = Append(exec.steps, f)
  BY <1>1 DEF Opens, Opened, Executions
<1>3. f.step = s /\ f.attempt = k /\ f.inputs = ins /\ f \in StepEvents
  BY DEF StepEvents
<1> HIDE DEF f
<1>4. Len(exec'.steps) = n + 1 /\ exec'.steps[n + 1] = f
      /\ \A j \in 1..n : exec'.steps[j] = exec.steps[j]
  BY <1>1, <1>2, <1>3
<1>5. "compensating_for" \in ins <=> Undoing
  <2>1. CASE loc = "next"
    <3>1. ins = UNION {outputs[r] : r \in wf.reads[s] \intersect DOMAIN outputs} /\ ~Undoing
      BY <2>1 DEF Opens, ResolvedInputs, AInv, IInv, UndoPlaces
    <3> QED BY <3>1 DEF AInv, OutputsPlain
  <2>2. CASE loc = "unwind"
    BY <2>2 DEF Opens, AInv, IInv, UndoPlaces
  <2>3. CASE loc = "backoff"
    BY <2>3 DEF Opens, AInv, InputsTell, Stepping
  <2> QED BY <2>1, <2>2, <2>3 DEF Opens
<1>6. \A r : Made(r)' = IF r = s /\ ~Undoing THEN Made(r) \union {n + 1} ELSE Made(r)
  <2>1. 1..(n + 1) = (1..n) \union {n + 1} /\ n + 1 \notin 1..n
    BY <1>1
  <2>2. \A r : Made(r)' = {j \in 1..(n + 1) : exec'.steps[j].step = r /\ Forward(exec'.steps[j])}
    BY <1>4 DEF Made, Forward
  <2>3. Forward(exec'.steps[n + 1]) <=> ~Undoing
    BY <1>3, <1>4, <1>5 DEF Forward
  <2>4. \A j \in 1..n : exec'.steps[j] = exec.steps[j]
    BY <1>4
  <2>5. ASSUME NEW r, NEW j
        PROVE  j \in Made(r)' <=> j \in IF r = s /\ ~Undoing THEN Made(r) \union {n + 1} ELSE Made(r)
    BY <1>3, <1>4, <2>1, <2>2, <2>3, <2>4 DEF Made
  <2>6. ASSUME NEW r
        PROVE  Made(r)' = IF r = s /\ ~Undoing THEN Made(r) \union {n + 1} ELSE Made(r)
    <3> DEFINE after  == Made(r)'
               wanted == IF r = s /\ ~Undoing THEN Made(r) \union {n + 1} ELSE Made(r)
    <3>1. \A j : j \in after <=> j \in wanted
      BY <2>5
    <3>2. after \in SUBSET (1..(n + 1)) /\ wanted \in SUBSET (1..(n + 1))
      BY <2>1, <2>2 DEF Made
    <3> HIDE DEF after, wanted
    <3>3. after = wanted
      BY <3>1, <3>2
    <3> QED BY <3>3 DEF after, wanted
  <2> QED BY <2>6
<1>7. ~Undoing => /\ Cardinality(Made(s)) = k - 1
                  /\ k <= wf.attempts[s]
                  /\ \A j \in Made(s) : exec.steps[j].status = "failed"
  <2> SUFFICES ASSUME ~Undoing
               PROVE  /\ Cardinality(Made(s)) = k - 1
                      /\ k <= wf.attempts[s]
                      /\ \A j \in Made(s) : exec.steps[j].status = "failed"
    OBVIOUS
  <2>1. CASE loc = "next"
    <3>1. Made(s) = {} /\ k = 1
      BY <2>1 DEF Opens, AInv, Unattempted, Stepping
    <3>2. wf.attempts[s] \in Nat \ {0}
      BY Shape DEF AInv, IInv
    <3> QED BY <3>1, <3>2, FS_EmptySet
  <2>2. CASE loc = "backoff"
    <3>1. s = cur.step /\ k = cur.attempt + 1
      BY <2>2 DEF Opens
    <3>2. /\ Cardinality(Made(cur.step)) = cur.attempt
          /\ cur.attempt < wf.attempts[cur.step]
          /\ \A j \in Made(cur.step) : exec.steps[j].status = "failed"
      BY <2>2 DEF AInv, Counted, Stepping
    <3>3. cur.attempt \in Nat /\ wf.attempts[s] \in Nat
      BY Shape DEF AInv, IInv, TypeOK
    <3> QED BY <3>1, <3>2, <3>3
  <2>3. CASE loc = "unwind"
    BY <2>3 DEF AInv, IInv, UndoPlaces
  <2> QED BY <2>1, <2>2, <2>3 DEF Opens
<1>8. IsFiniteSet(Made(s)) /\ n + 1 \notin Made(s)
  <2>1. IsFiniteSet(1..n)
    BY <1>1, FS_Interval
  <2>2. Made(s) \subseteq 1..n
    BY DEF Made
  <2>3. n + 1 \notin 1..n
    BY <1>1
  <2> QED BY <2>1, <2>2, <2>3, FS_Subset
<1>9. OutputsPlain'
  BY <1>1 DEF AInv, OutputsPlain
<1>10. InputsTell'
  BY <1>1, <1>3, <1>4, <1>5 DEF InputsTell
<1>11. Unattempted'
  <2>1. SUFFICES ASSUME ~Undoing, NEW r \in Pending, r # s PROVE Made(r)' = {}
    BY <1>1 DEF Unattempted, Stepping
  <2>2. Made(r)' = Made(r)
    BY <1>6, <2>1
  <2>3. Made(r) = {}
    BY <2>1 DEF Opens, AInv, IInv, UndoPlaces, Unattempted, Stepping
  <2> QED BY <2>2, <2>3
<1>12. Counted'
  <2>1. SUFFICES ASSUME ~Undoing
                 PROVE  /\ Cardinality(Made(s)') = k
                        /\ k <= wf.attempts[s]
                        /\ \A j \in Made(s)' : j # n + 1 => exec'.steps[j].status = "failed"
    <3>1. cur'.step = s /\ cur'.attempt = k
      BY <1>1
    <3> QED BY <1>1, <1>4, <2>1, <3>1 DEF Counted, Made
  <2>2. Made(s)' = Made(s) \union {n + 1}
    BY <1>6, <2>1
  <2>3. Cardinality(Made(s)') = Cardinality(Made(s)) + 1
    BY <1>8, <2>2, FS_AddElement
  <2>4. Made(s) \subseteq 1..n
    BY DEF Made
  <2>5. Cardinality(Made(s)') = k
    BY <1>7, <2>1, <2>3
  <2>6. ASSUME NEW j \in Made(s)', j # n + 1 PROVE exec'.steps[j].status = "failed"
    BY <1>4, <1>7, <2>1, <2>2, <2>4, <2>6
  <2> QED BY <1>7, <2>1, <2>5, <2>6
<1>13. AttemptsInOrder'
  <2>1. SUFFICES ASSUME NEW i \in 1..(n + 1), Forward(exec'.steps[i])
                 PROVE  LET e == exec'.steps[i]
                            earlier == {j \in 1..(i - 1) : exec'.steps[j].step = e.step /\ Forward(exec'.steps[j])}
                        IN  /\ e.attempt <= wf.attempts[e.step]
                            /\ Cardinality(earlier) = e.attempt - 1
                            /\ \A j \in earlier : exec'.steps[j].status = "failed"
    BY <1>1, <1>4 DEF AttemptsInOrder
  <2>2. CASE i = n + 1
    <3>1. ~Undoing /\ i - 1 = n
      BY <1>1, <1>3, <1>4, <1>5, <2>1, <2>2 DEF Forward
    <3>2. {j \in 1..n : exec'.steps[j].step = s /\ Forward(exec'.steps[j])} = Made(s)
      BY <1>4 DEF Made
    <3>3. \A j \in Made(s) : exec'.steps[j].status = "failed"
      BY <1>4, <1>7, <3>1 DEF Made
    <3> QED BY <1>3, <1>4, <1>7, <2>2, <3>1, <3>2, <3>3
  <2>3. CASE i # n + 1
    <3>1. i \in 1..n /\ \A j \in 1..(i - 1) : j \in 1..n
      BY <1>1, <2>1, <2>3
    <3>2. exec'.steps[i] = exec.steps[i] /\ \A j \in 1..(i - 1) : exec'.steps[j] = exec.steps[j]
      BY <1>4, <3>1
    <3>3. LET e == exec.steps[i]
              earlier == {j \in 1..(i - 1) : exec.steps[j].step = e.step /\ Forward(exec.steps[j])}
          IN  /\ e.attempt <= wf.attempts[e.step]
              /\ Cardinality(earlier) = e.attempt - 1
              /\ \A j \in earlier : exec.steps[j].status = "failed"
      BY <2>1, <3>1, <3>2 DEF AInv, AttemptsInOrder
    <3>4. {j \in 1..(i - 1) : exec'.steps[j].step = exec'.steps[i].step /\ Forward(exec'.steps[j])}
            = {j \in 1..(i - 1) : exec.steps[j].step = exec.steps[i].step /\ Forward(exec.steps[j])}
      BY <3>2
    <3> QED BY <3>2, <3>3, <3>4
  <2> QED BY <2>2, <2>3
<1> QED BY <1>9, <1>10, <1>11, <1>12, <1>13 DEF AInv

(* Every step keeps the invariant.                                         *)
LEMMA AttemptsStep ==
  ASSUME AInv, IInv', [Next]_vars
  PROVE  AInv'
<1>1. CASE UNCHANGED <<wf, goroutine>>
  <2>1. \A s : Made(s)' = Made(s)
    BY <1>1 DEF goroutine, Made
  <2> QED BY <1>1, <2>1 DEF goroutine, AInv, OutputsPlain, InputsTell, Unattempted, Counted,
                             AttemptsInOrder, Undoing, Pending
<1> QED BY <1>1, Kinds, QuietStep, OpenStep, MarkStep DEF AInv

(* The first states satisfy it.                                            *)
LEMMA AttemptsInit ==
  ASSUME Init
  PROVE  AInv
<1>1. exec.steps = <<>> /\ Len(exec.steps) = 0 /\ loc = "start" /\ outputs = <<>>
  BY DEF Init
<1>2. \A s : Made(s) = {}
  BY <1>1 DEF Made
<1> QED BY <1>1, <1>2, InitOk DEF AInv, OutputsPlain, InputsTell, Unattempted, Counted,
                                      AttemptsInOrder, Stepping, Holding

(* A step is attempted again only after its previous attempt failed, with  *)
(* the next number and never beyond retries.max + 1, whatever the workflow *)
(* and whatever the compensations in between run: runStep's loop.          *)
THEOREM AttemptsAreInOrder == Spec => []AttemptsInOrder
<1>1. Init => AInv
  BY AttemptsInit
<1>2. AInv /\ IInv' /\ [Next]_vars => AInv'
  BY AttemptsStep
<1>3. AInv => AttemptsInOrder
  BY DEF AInv
<1> QED BY <1>1, <1>2, <1>3, EngineInvariant, PTL DEF Spec

-----------------------------------------------------------------------------
(* Counting in a set of places                                             *)

From(S, k) == {j \in S : j >= k}

(* A place behind all others counts once for each of them.                 *)
LEMMA FromGrows ==
  ASSUME NEW S, IsFiniteSet(S), NEW n \in Nat, \A j \in S : j \in Nat /\ j < n
  PROVE  /\ Cardinality(S \union {n}) = Cardinality(S) + 1
         /\ Cardinality(From(S \union {n}, n)) = 1
         /\ \A k \in S : Cardinality(From(S \union {n}, k)) = Cardinality(From(S, k)) + 1
<1>1. n \notin S
  OBVIOUS
<1>2. Cardinality(S \union {n}) = Cardinality(S) + 1
  BY <1>1, FS_AddElement
<1>3. From(S \union {n}, n) = {n}
  BY DEF From
<1>4. Cardinality({n}) = 1
  BY FS_Singleton
<1>5. ASSUME NEW k \in S
      PROVE  Cardinality(From(S \union {n}, k)) = Cardinality(From(S, k)) + 1
  <2>1. From(S \union {n}, k) = From(S, k) \union {n}
    BY <1>5 DEF From
  <2>2. IsFiniteSet(From(S, k)) /\ n \notin From(S, k)
    <3>1. From(S, k) \subseteq S
      BY DEF From
    <3> QED BY <1>1, <3>1, FS_Subset
  <2> QED BY <2>1, <2>2, FS_AddElement
<1> QED BY <1>2, <1>3, <1>4, <1>5

(* Going one place down counts that place, if it is in the set.            *)
LEMMA FromShrinks ==
  ASSUME NEW S, IsFiniteSet(S), \A j \in S : j \in Nat, NEW p \in Nat
  PROVE  /\ p \in S => Cardinality(From(S, p)) = Cardinality(From(S, p + 1)) + 1
         /\ p \notin S => From(S, p) = From(S, p + 1)
         /\ From(S, p + 1) \subseteq From(S, p)
<1>1. From(S, p) = From(S, p + 1) \union (IF p \in S THEN {p} ELSE {})
  BY DEF From
<1>2. IsFiniteSet(From(S, p + 1)) /\ p \notin From(S, p + 1)
  <2>1. From(S, p + 1) \subseteq S /\ p \notin From(S, p + 1)
    BY DEF From
  <2> QED BY <2>1, FS_Subset
<1> QED BY <1>1, <1>2, FS_AddElement

(* ... and ranks before it stay.                                           *)
LEMMA RankGrows ==
  ASSUME NEW S, IsFiniteSet(S), NEW n \in Nat, \A j \in S : j \in Nat /\ j < n
  PROVE  /\ Rank(S \union {n}, n) = Cardinality(S) + 1
         /\ \A k \in S : Rank(S \union {n}, k) = Rank(S, k) /\ Rank(S, k) <= Cardinality(S)
         /\ Cardinality(S) \in Nat
<1>1. n \notin S
  OBVIOUS
<1>2. {j \in S \union {n} : j <= n} = S \union {n}
  OBVIOUS
<1>3. Rank(S \union {n}, n) = Cardinality(S) + 1
  BY <1>1, <1>2, FS_AddElement DEF Rank
<1>4. ASSUME NEW k \in S
      PROVE  Rank(S \union {n}, k) = Rank(S, k) /\ Rank(S, k) <= Cardinality(S)
  <2>1. {j \in S \union {n} : j <= k} = {j \in S : j <= k}
    BY <1>4
  <2>2. {j \in S : j <= k} \subseteq S
    OBVIOUS
  <2>3. Cardinality({j \in S : j <= k}) <= Cardinality(S)
    BY <2>2, FS_Subset
  <2> QED BY <2>1, <2>3 DEF Rank
<1> QED BY <1>3, <1>4, FS_CardinalityType

-----------------------------------------------------------------------------
(* Compensations and gates                                                 *)

(* While runStep holds a step, its event is open; it waits at gates only.  *)
LastOpen == loc \in Holding => exec.steps[Len(exec.steps)].status \in Open
AtGate   == loc = "await" => wf.type[cur.step] = "hitl"

(* The places of successfulCompensable whose compensation can be found:    *)
(* as many as finished steps that have one, and at each of them the step   *)
(* that has as many behind it.                                             *)
Left == {i \in 1..Len(comp) : Compensates(comp[i])}

Matched ==
  /\ Cardinality(Left) = Cardinality(ToCompensate)
  /\ \A i \in Left : \E k \in ToCompensate :
       /\ comp[i] = exec.steps[k].step
       /\ Cardinality(From(ToCompensate, k)) = Cardinality(From(Left, i))

(* compensate has recorded those it has passed, in the order it passed     *)
(* them.                                                                   *)
Passed(u, m) ==
  \E i \in From(Left, u) :
    exec.comps[m].for = comp[i] /\ Cardinality(From(Left, i)) = m
Unwound ==
  /\ ~Undoing => Len(exec.comps) = 0
  /\ Undoing  => /\ Len(exec.comps) = Cardinality(From(Left, undone))
                 /\ \A m \in 1..Len(exec.comps) : Passed(undone, m)

(* A compensation that runs is one that was found.                         *)
Found == loc \in Stepping /\ Undoing => Compensates(comp[undone - 1])

(* An execution that did not fail has no reason to; one that is over for a *)
(* reason has nothing left to undo.                                        *)
Reasoned ==
  loc \in {"start", "next"} \union Stepping /\ ~Undoing => exec.reason = "none"
EndsWell ==
  /\ stored.over => loc = "end" /\ stored = exec
  /\ loc = "end" /\ exec.reason \notin {"none", "deadlock"} =>
       IF Undoing THEN undone = 1 ELSE comp = <<>>

CInv ==
  /\ AInv /\ LastOpen /\ AtGate /\ Matched /\ Unwound /\ Found /\ Reasoned
  /\ EndsWell /\ GatesAudited

(* The sets that are counted.                                              *)
LEMMA Counting ==
  ASSUME AInv
  PROVE  /\ Len(exec.steps) \in Nat /\ Len(comp) \in Nat /\ Len(audit) \in Nat
         /\ Len(exec.comps) \in Nat /\ exec.comps \in Seq(CompItems)
         /\ exec.steps \in Seq(StepEvents) /\ comp \in Seq(StepIds)
         /\ audit \in Seq(AuditEntries) /\ undone \in 0..(Len(comp) + 1)
         /\ ToCompensate \subseteq 1..Len(exec.steps) /\ IsFiniteSet(ToCompensate)
         /\ PassedGates \subseteq 1..Len(exec.steps) /\ IsFiniteSet(PassedGates)
         /\ Left \subseteq 1..Len(comp) /\ IsFiniteSet(Left)
         /\ Grants \subseteq 1..Len(audit) /\ IsFiniteSet(Grants)
<1>1. /\ exec.steps \in Seq(StepEvents) /\ exec.comps \in Seq(CompItems)
      /\ comp \in Seq(StepIds) /\ audit \in Seq(AuditEntries)
      /\ undone \in 0..(Len(comp) + 1)
  BY DEF AInv, IInv, TypeOK, Executions
<1>2. /\ Len(exec.steps) \in Nat /\ Len(comp) \in Nat /\ Len(audit) \in Nat
      /\ Len(exec.comps) \in Nat
  BY <1>1
<1>3. \A n \in Nat : IsFiniteSet(1..n)
  BY FS_Interval
<1>4. /\ ToCompensate \subseteq 1..Len(exec.steps) /\ PassedGates \subseteq 1..Len(exec.steps)
      /\ Left \subseteq 1..Len(comp) /\ Grants \subseteq 1..Len(audit)
  BY DEF ToCompensate, PassedGates, Left, Grants
<1> QED BY <1>1, <1>2, <1>3, <1>4, FS_Subset

(* What the invariant says of an end, and of the compensations so far.     *)
LEMMA CompensationsAre ==
  ASSUME CInv
  PROVE  SagaReverse /\ CompensatedBeforeEnd
<1>1. ASSUME NEW m \in 1..Len(exec.comps)
      PROVE  \E k \in ToCompensate :
               /\ exec.comps[m].for = exec.steps[k].step
               /\ Cardinality({j \in ToCompensate : j >= k}) = m
  <2>1. Undoing
    BY <1>1, Counting DEF CInv, Unwound
  <2>2. PICK i \in From(Left, undone) :
          exec.comps[m].for = comp[i] /\ Cardinality(From(Left, i)) = m
    BY <1>1, <2>1 DEF CInv, Unwound, Passed
  <2>3. i \in Left
    BY DEF From
  <2>4. PICK k \in ToCompensate :
          /\ comp[i] = exec.steps[k].step
          /\ Cardinality(From(ToCompensate, k)) = Cardinality(From(Left, i))
    BY <2>3 DEF CInv, Matched
  <2> QED BY <2>2, <2>4 DEF From
<1>2. ASSUME stored.over, stored.reason \notin {"none", "deadlock"}
      PROVE  Len(stored.comps) = Cardinality(ToCompensate)
  <2>1. stored = exec /\ IF Undoing THEN undone = 1 ELSE comp = <<>>
    BY <1>2 DEF CInv, EndsWell
  <2>2. Cardinality(Left) = Cardinality(ToCompensate)
    BY DEF CInv, Matched
  <2>3. CASE Undoing
    <3>1. From(Left, 1) = Left
      BY Counting DEF From, CInv
    <3> QED BY <2>1, <2>2, <2>3, <3>1 DEF CInv, Unwound
  <2>4. CASE ~Undoing
    <3>1. Left = {}
      BY <2>1, <2>4 DEF Left
    <3> QED BY <2>1, <2>2, <2>4, <3>1, FS_EmptySet DEF CInv, Unwound
  <2> QED BY <2>3, <2>4
<1> QED BY <1>1, <1>2 DEF SagaReverse, CompensatedBeforeEnd

(* Steps that add no finished event keep what was counted.                 *)
Kept ==
  /\ wf' = wf
  /\ ToCompensate' = ToCompensate /\ PassedGates' = PassedGates
  /\ \A k \in ToCompensate : exec'.steps[k].step = exec.steps[k].step
  /\ \A k \in PassedGates : /\ exec'.steps[k].step = exec.steps[k].step
                            /\ exec'.steps[k].inputs = exec.steps[k].inputs

(* A step that leaves the recorded events alone is Kept.                   *)
LEMMA SameEvents ==
  ASSUME wf' = wf, exec'.steps = exec.steps
  PROVE  Kept
BY DEF Kept, ToCompensate, PassedGates, StepList, Forward

(* An event that is opened is not a finished one.                          *)
LEMMA OpensKeeps ==
  ASSUME AInv, NEW s \in StepIds, NEW k \in Nat \ {0}, NEW ins \in SUBSET Marks,
         Opens(s, k, ins)
  PROVE  /\ Kept
         /\ exec'.comps = exec.comps /\ exec'.reason = exec.reason /\ exec'.over = exec.over
         /\ Len(exec'.steps) = Len(exec.steps) + 1
         /\ exec'.steps[Len(exec'.steps)].status = "running"
<1> DEFINE n == Len(exec.steps)
           f == [step |-> s, attempt |-> k, inputs |-> ins, status |-> "running"]
           t == Append(exec.steps, f)
<1>1. exec \in Executions /\ exec.steps \in Seq(StepEvents) /\ n \in Nat /\ wf' = wf
  BY Counting DEF AInv, IInv, TypeOK, Opens
<1>2. exec' = [exec EXCEPT !.steps = t]
  BY DEF Opens, Opened
<1>3. f \in StepEvents /\ f.status = "running"
  BY DEF StepEvents
<1> HIDE DEF f
<1>4. t \in Seq(StepEvents) /\ Len(t) = n + 1 /\ t[n + 1] = f
      /\ \A j \in 1..n : t[j] = exec.steps[j]
  BY <1>1, <1>3
<1> HIDE DEF t
<1>5. exec'.steps = t /\ exec'.comps = exec.comps /\ exec'.reason = exec.reason
      /\ exec'.over = exec.over
  BY <1>1, <1>2 DEF Executions
<1>6. ToCompensate' = ToCompensate
  <2>1. 1..(n + 1) = (1..n) \union {n + 1}
    BY <1>1
  <2>2. ToCompensate' = {j \in 1..(n + 1) :
           /\ "compensating_for" \notin t[j].inputs /\ t[j].status = "completed"
           /\ wf.undo[t[j].step] \in wf.fallback \union StepList(wf)}
    BY <1>1, <1>4, <1>5 DEF ToCompensate, Forward, StepList
  <2>3. ToCompensate = {j \in 1..n :
           /\ "compensating_for" \notin exec.steps[j].inputs /\ exec.steps[j].status = "completed"
           /\ wf.undo[exec.steps[j].step] \in wf.fallback \union StepList(wf)}
    BY DEF ToCompensate, Forward
  <2> QED BY <1>3, <1>4, <2>1, <2>2, <2>3
<1>7. PassedGates' = PassedGates
  <2>1. 1..(n + 1) = (1..n) \union {n + 1}
    BY <1>1
  <2>2. PassedGates' = {j \in 1..(n + 1) :
           wf.type[t[j].step] = "hitl" /\ t[j].status = "completed"}
    BY <1>1, <1>4, <1>5 DEF PassedGates
  <2> QED BY <1>3, <1>4, <2>1, <2>2 DEF PassedGates
<1> QED BY <1>1, <1>3, <1>4, <1>5, <1>6, <1>7, Counting DEF Kept

(* The event that is marked was open, so it counts from now on if it is    *)
(* marked finished.                                                        *)
Marking(status, ins) ==
  LET n == Len(exec.steps) IN
  /\ n \in Nat \ {0} /\ wf' = wf
  /\ ToCompensate \subseteq 1..(n - 1) /\ PassedGates \subseteq 1..(n - 1)
  /\ Len(exec'.steps) = n
  /\ \A j \in 1..(n - 1) : exec'.steps[j] = exec.steps[j]
  /\ exec'.steps[n].step = cur.step /\ exec'.steps[n].inputs = ins
  /\ exec'.steps[n].status = status
  /\ ToCompensate' = ToCompensate \union
       (IF status = "completed" /\ ~Undoing /\ Compensates(cur.step) THEN {n} ELSE {})
  /\ PassedGates' = PassedGates \union
       (IF status = "completed" /\ wf.type[cur.step] = "hitl" THEN {n} ELSE {})

(* markStep of the open event is Marking.                                  *)
LEMMA EventIsMarked ==
  ASSUME AInv, LastOpen, NEW status \in {"completed", "failed", "waiting"},
         NEW ins \in {cur.inputs, cur.inputs \union {"inputs"}},
         wf' = wf, loc \in Holding, exec'.steps = Marked(status, ins).steps
  PROVE  Marking(status, ins)
<1> DEFINE n == Len(exec.steps)
           f == [exec.steps[n] EXCEPT !.status = status, !.inputs = ins]
           t == [exec.steps EXCEPT ![n] = f]
<1>1. exec \in Executions /\ exec.steps \in Seq(StepEvents) /\ n \in Nat \ {0}
      /\ exec.steps[n] \in StepEvents /\ exec.steps[n].step = cur.step
      /\ exec.steps[n].status \in Open
  BY Counting DEF AInv, IInv, TypeOK, LastEvent, LastOpen
<1>2. f.step = cur.step /\ f.inputs = ins /\ f.status = status
  BY <1>1 DEF StepEvents
<1>3. Marked(status, ins) = [exec EXCEPT !.steps = t]
  BY MarksLast DEF Marked, AInv, IInv
<1> HIDE DEF f
<1>4. Len(t) = n /\ t[n] = f /\ \A j \in 1..(n - 1) : t[j] = exec.steps[j]
  BY <1>1
<1> HIDE DEF t
<1>5. exec'.steps = t
  BY <1>1, <1>3 DEF Executions
<1>6. "compensating_for" \in ins <=> Undoing
  BY DEF AInv, InputsTell, Holding, Stepping
<1>7. 1..n = (1..(n - 1)) \union {n}
  BY <1>1
<1>8. ToCompensate \subseteq 1..(n - 1) /\ PassedGates \subseteq 1..(n - 1)
  BY <1>1, <1>7 DEF ToCompensate, PassedGates, Open
<1>9. ToCompensate' = ToCompensate \union
        (IF status = "completed" /\ ~Undoing /\ Compensates(cur.step) THEN {n} ELSE {})
  <2>1. ToCompensate' = {j \in 1..n :
           /\ "compensating_for" \notin t[j].inputs /\ t[j].status = "completed"
           /\ wf.undo[t[j].step] \in wf.fallback \union StepList(wf)}
    BY <1>4, <1>5 DEF ToCompensate, Forward, StepList
  <2>2. ToCompensate = {j \in 1..(n - 1) :
           /\ "compensating_for" \notin t[j].inputs /\ t[j].status = "completed"
           /\ wf.undo[t[j].step] \in wf.fallback \union StepList(wf)}
    BY <1>4, <1>7, <1>8 DEF ToCompensate, Forward
  <2>3. n \in ToCompensate' <=> status = "completed" /\ ~Undoing /\ Compensates(cur.step)
    BY <1>1, <1>2, <1>4, <1>6, <2>1 DEF Compensates
  <2>4. ToCompensate' = ToCompensate \union (IF n \in ToCompensate' THEN {n} ELSE {})
    BY <1>7, <2>1, <2>2
  <2> QED BY <2>3, <2>4
<1>10. PassedGates' = PassedGates \union
         (IF status = "completed" /\ wf.type[cur.step] = "hitl" THEN {n} ELSE {})
  <2>1. PassedGates' = {j \in 1..n : wf.type[t[j].step] = "hitl" /\ t[j].status = "completed"}
    BY <1>4, <1>5 DEF PassedGates
  <2>2. PassedGates = {j \in 1..(n - 1) : wf.type[t[j].step] = "hitl" /\ t[j].status = "completed"}
    BY <1>4, <1>7, <1>8 DEF PassedGates
  <2> QED BY <1>1, <1>2, <1>4, <1>7, <2>1, <2>2
<1> QED BY <1>1, <1>2, <1>4, <1>5, <1>8, <1>9, <1>10 DEF Marking

(* An event marked otherwise does not count.                               *)
LEMMA UnfinishedKeeps ==
  ASSUME AInv, NEW status, NEW ins, status # "completed", Marking(status, ins)
  PROVE  Kept
BY Counting DEF Marking, Kept

(* What was matched stays matched ...                                      *)
LEMMA MatchStays ==
  ASSUME AInv, Matched, wf' = wf, comp' = comp, ToCompensate' = ToCompensate,
         \A k \in ToCompensate : exec'.steps[k].step = exec.steps[k].step
  PROVE  Matched' /\ Left' = Left
<1>1. Left' = Left
  BY DEF Left, Compensates, StepList
<1>2. \A k : From(ToCompensate, k)' = From(ToCompensate, k) /\ From(Left, k)' = From(Left, k)
  BY <1>1 DEF From
<1> QED BY <1>1, <1>2 DEF Matched

(* ... and a step that finishes is matched with its own event.             *)
LEMMA MatchGrows ==
  ASSUME AInv, Matched, NEW ins, Marking("completed", ins), ~Undoing,
         cur.step \in StepIds, comp' = Banked(cur.step)
  PROVE  Matched'
<1> DEFINE n == Len(exec.steps)
           c == Len(comp) + 1
<1>1. n \in Nat \ {0} /\ c \in Nat /\ comp \in Seq(StepIds) /\ wf' = wf
  BY Counting DEF Marking
<1>2. \A k \in ToCompensate : k \in Nat /\ k < n /\ exec'.steps[k].step = exec.steps[k].step
  BY <1>1 DEF Marking
<1>3. wf.undo[cur.step] = NoStep => ~Compensates(cur.step)
  BY Shape, NoStepFresh DEF Compensates, AInv, IInv
<1>4. CASE ~Compensates(cur.step)
  <2>1. ToCompensate' = ToCompensate
    BY <1>4 DEF Marking
  <2>2. Left' = Left /\ \A i \in Left : comp'[i] = comp[i]
    <3>1. CASE comp' = comp
      BY <1>1, <3>1 DEF Left, Compensates, StepList
    <3>2. CASE comp' = Append(comp, cur.step)
      <4>1. Len(comp') = c /\ comp'[c] = cur.step /\ \A i \in 1..Len(comp) : comp'[i] = comp[i]
        BY <1>1, <3>2
      <4>2. 1..c = (1..Len(comp)) \union {c}
        BY <1>1
      <4>3. Left' = {i \in 1..c : wf.undo[comp'[i]] \in wf.fallback \union StepList(wf)}
        BY <1>1, <4>1 DEF Left, Compensates, StepList
      <4> QED BY <1>4, <4>1, <4>2, <4>3 DEF Left, Compensates
    <3> QED BY <3>1, <3>2 DEF Banked
  <2>3. \A k : From(ToCompensate, k)' = From(ToCompensate, k) /\ From(Left, k)' = From(Left, k)
    BY <2>1, <2>2 DEF From
  <2> QED BY <1>2, <2>1, <2>2, <2>3 DEF Matched
<1>5. CASE Compensates(cur.step)
  <2>1. ToCompensate' = ToCompensate \union {n} /\ exec'.steps[n].step = cur.step
    BY <1>5 DEF Marking
  <2>2. comp' = Append(comp, cur.step)
    BY <1>3, <1>5 DEF Banked
  <2>3. Len(comp') = c /\ comp'[c] = cur.step /\ \A i \in 1..Len(comp) : comp'[i] = comp[i]
    BY <1>1, <2>2
  <2>4. Left' = Left \union {c}
    <3>1. 1..c = (1..Len(comp)) \union {c}
      BY <1>1
    <3>2. Left' = {i \in 1..c : wf.undo[comp'[i]] \in wf.fallback \union StepList(wf)}
      BY <1>1, <2>3 DEF Left, Compensates, StepList
    <3> QED BY <1>5, <2>3, <3>1, <3>2 DEF Left, Compensates
  <2>5. IsFiniteSet(Left) /\ IsFiniteSet(ToCompensate) /\ \A i \in Left : i \in Nat /\ i < c
    BY <1>1, Counting
  <2>6. /\ Cardinality(ToCompensate \union {n}) = Cardinality(ToCompensate) + 1
        /\ Cardinality(From(ToCompensate \union {n}, n)) = 1
        /\ \A k \in ToCompensate :
             Cardinality(From(ToCompensate \union {n}, k)) = Cardinality(From(ToCompensate, k)) + 1
    BY <1>1, <1>2, <2>5, FromGrows
  <2>7. /\ Cardinality(Left \union {c}) = Cardinality(Left) + 1
        /\ Cardinality(From(Left \union {c}, c)) = 1
        /\ \A i \in Left : Cardinality(From(Left \union {c}, i)) = Cardinality(From(Left, i)) + 1
    BY <1>1, <2>5, FromGrows
  <2>8. Cardinality(Left') = Cardinality(ToCompensate')
    BY <2>1, <2>4, <2>6, <2>7 DEF Matched
  <2>9. ASSUME NEW i \in Left'
        PROVE  \E k \in ToCompensate' :
                 /\ comp'[i] = exec'.steps[k].step
                 /\ Cardinality(From(ToCompensate', k)) = Cardinality(From(Left', i))
    <3>1. CASE i = c
      BY <2>1, <2>3, <2>4, <2>6, <2>7, <3>1
    <3>2. CASE i \in Left
      <4>1. PICK k \in ToCompensate :
              /\ comp[i] = exec.steps[k].step
              /\ Cardinality(From(ToCompensate, k)) = Cardinality(From(Left, i))
        BY <3>2 DEF Matched
      <4>2. comp'[i] = comp[i]
        BY <2>3, <3>2 DEF Left
      <4> QED BY <1>2, <2>1, <2>4, <2>6, <2>7, <3>2, <4>1, <4>2
    <3> QED BY <2>4, <2>9, <3>1, <3>2
  <2>10. \A k : From(ToCompensate, k)' = From(ToCompensate', k) /\ From(Left, k)' = From(Left', k)
    BY DEF From
  <2> QED BY <2>8, <2>9, <2>10 DEF Matched
<1> QED BY <1>4, <1>5

(* What was undone stays undone.                                           *)
LEMMA UnwoundStays ==
  ASSUME AInv, Unwound, exec'.comps = exec.comps, comp' = comp, Left' = Left,
         undone' = undone
  PROVE  Unwound'
<1>1. \A u : From(Left, u)' = From(Left, u)
  BY DEF From
<1>2. Undoing' = Undoing
  BY DEF Undoing
<1>3. From(Left, undone)' = From(Left, undone) /\ \A m : Passed(undone, m)' = Passed(undone, m)
  BY <1>1 DEF Passed
<1> QED BY <1>2, <1>3 DEF Unwound

(* One more compensation is recorded, for the next place below.            *)
LEMMA UnwoundAdvances ==
  ASSUME AInv, Unwound, Undoing, undone > 1, comp' = comp, wf' = wf, Left' = Left,
         undone' = undone - 1, Compensates(comp[undone - 1]),
         NEW item \in CompItems, item.for = comp[undone - 1],
         exec'.comps = Append(exec.comps, item)
  PROVE  Unwound'
<1> DEFINE p == undone - 1
           q == Len(exec.comps)
<1>1. /\ p \in Nat \ {0} /\ p \in 1..Len(comp) /\ p + 1 = undone /\ q \in Nat
      /\ exec.comps \in Seq(CompItems) /\ undone' = p
  <2>1. /\ undone \in 0..(Len(comp) + 1) /\ Len(comp) \in Nat /\ q \in Nat
        /\ exec.comps \in Seq(CompItems)
    BY Counting
  <2> HIDE DEF q
  <2>2. p \in Nat \ {0} /\ p \in 1..Len(comp) /\ p + 1 = undone
    BY <2>1
  <2> QED BY <2>1, <2>2
<1>2. p \in Left /\ IsFiniteSet(Left) /\ \A j \in Left : j \in Nat
  BY <1>1, Counting DEF Left
<1>3. Cardinality(From(Left, p)) = q + 1 /\ From(Left, undone) \subseteq From(Left, p)
  <2>1. Cardinality(From(Left, p)) = Cardinality(From(Left, p + 1)) + 1
        /\ From(Left, p + 1) \subseteq From(Left, p)
    BY <1>1, <1>2, FromShrinks
  <2> QED BY <1>1, <2>1 DEF Unwound
<1>4. Len(exec'.comps) = q + 1 /\ exec'.comps[q + 1] = item
      /\ \A m \in 1..q : exec'.comps[m] = exec.comps[m]
  BY <1>1
<1>5. ASSUME NEW m \in 1..(q + 1)
      PROVE  \E i \in From(Left, p) :
               exec'.comps[m].for = comp[i] /\ Cardinality(From(Left, i)) = m
  <2>1. CASE m = q + 1
    <3>1. p \in From(Left, p)
      BY <1>1, <1>2 DEF From
    <3> QED BY <1>3, <1>4, <2>1, <3>1
  <2>2. CASE m # q + 1
    <3>1. m \in 1..q
      BY <1>1, <2>2
    <3>2. PICK i \in From(Left, undone) :
            exec.comps[m].for = comp[i] /\ Cardinality(From(Left, i)) = m
      BY <3>1 DEF Unwound, Passed
    <3> QED BY <1>3, <1>4, <3>1, <3>2
  <2> QED BY <2>1, <2>2
<1>6. \A u : From(Left, u)' = From(Left, u)
  BY DEF From
<1>7. From(Left, undone)' = From(Left, p)
  <2>1. From(Left, undone)' = {i \in Left : i >= p}
    BY <1>1 DEF From
  <2> QED BY <2>1 DEF From
<1>8. Undoing'
  BY <1>1 DEF Undoing, NotUndoing
<1>9. ASSUME NEW m \in 1..Len(exec'.comps) PROVE Passed(undone, m)'
  BY <1>4, <1>5, <1>6, <1>7 DEF Passed
<1> QED BY <1>3, <1>4, <1>7, <1>8, <1>9 DEF Unwound

(* A place without a compensation is passed.                               *)
LEMMA UnwoundSkips ==
  ASSUME AInv, Unwound, Undoing, undone > 1, comp' = comp, Left' = Left,
         undone' = undone - 1, ~Compensates(comp[undone - 1]), exec'.comps = exec.comps
  PROVE  Unwound'
<1> DEFINE p == undone - 1
<1>1. p \in Nat \ {0} /\ p + 1 = undone /\ undone' = p
  BY Counting
<1>2. p \notin Left /\ IsFiniteSet(Left) /\ \A j \in Left : j \in Nat
  BY Counting DEF Left
<1>3. From(Left, p) = From(Left, undone)
  BY <1>1, <1>2, FromShrinks
<1>4. \A u : From(Left, u)' = From(Left, u)
  BY DEF From
<1>5. From(Left, undone)' = From(Left, undone)
  <2>1. From(Left, undone)' = {i \in Left : i >= p}
    BY <1>1 DEF From
  <2> QED BY <1>3, <2>1 DEF From
<1>6. \A m : Passed(undone, m)' = Passed(undone, m)
  BY <1>4, <1>5 DEF Passed
<1>7. Undoing'
  BY <1>1 DEF Undoing, NotUndoing
<1> QED BY <1>5, <1>6, <1>7 DEF Unwound

(* At first none is passed.                                                *)
LEMMA UnwoundStarts ==
  ASSUME AInv, Unwound, ~Undoing, comp' = comp, Left' = Left,
         undone' = Len(comp) + 1, exec'.comps = exec.comps
  PROVE  Unwound'
<1>1. Len(exec'.comps) = 0 /\ Len(comp) \in Nat /\ Left \subseteq 1..Len(comp)
  BY Counting DEF Unwound
<1>2. From(Left, undone)' = {i \in Left : i >= Len(comp) + 1}
  BY DEF From
<1>3. {i \in Left : i >= Len(comp) + 1} = {}
  <2>1. \A c \in Nat : \A i \in 1..c : ~(i >= c + 1)
    OBVIOUS
  <2>2. \A i \in Left : ~(i >= Len(comp) + 1)
    BY <1>1, <2>1
  <2> QED BY <2>2
<1>4. Undoing'
  BY <1>1 DEF Undoing, NotUndoing
<1> QED BY <1>1, <1>2, <1>3, <1>4, FS_EmptySet DEF Unwound

(* The gates passed and the grants stay paired ...                         *)
LEMMA GatesStay ==
  ASSUME GatesAudited, Kept, Grants' = Grants,
         \A a \in Grants : audit'[a] = audit[a]
  PROVE  GatesAudited'
<1>1. \A k : Rank(PassedGates, k)' = Rank(PassedGates, k) /\ Rank(Grants, k)' = Rank(Grants, k)
  BY DEF Rank, Kept
<1> QED BY <1>1 DEF GatesAudited, Kept

(* ... and one more of each is a pair.                                     *)
LEMMA GatesGrow ==
  ASSUME AInv, GatesAudited, NEW ins, Marking("completed", ins),
         wf.type[cur.step] = "hitl",
         NEW entry \in AuditEntries, audit' = Append(audit, entry),
         entry.step = cur.step, entry.final = ins,
         entry.decision \in {"approved", "timeout_proceed"}
  PROVE  GatesAudited'
<1> DEFINE n == Len(exec.steps)
           l == Len(audit) + 1
<1>1. /\ n \in Nat /\ l \in Nat /\ PassedGates' = PassedGates \union {n}
      /\ exec'.steps[n].step = cur.step /\ exec'.steps[n].inputs = ins
      /\ \A j \in PassedGates : j \in Nat /\ j < n /\ exec'.steps[j] = exec.steps[j]
      /\ IsFiniteSet(PassedGates) /\ IsFiniteSet(Grants) /\ audit \in Seq(AuditEntries)
      /\ \A a \in Grants : a \in Nat /\ a < l
  BY Counting DEF Marking
<1>2. Len(audit') = l /\ audit'[l] = entry /\ \A a \in 1..Len(audit) : audit'[a] = audit[a]
  BY <1>1
<1>3. Grants' = Grants \union {l}
  <2>1. 1..l = (1..Len(audit)) \union {l}
    BY <1>1
  <2>2. Grants' = {a \in 1..l : audit'[a].decision \in {"approved", "timeout_proceed"}}
    BY <1>2 DEF Grants
  <2> QED BY <1>2, <2>1, <2>2 DEF Grants
<1>4. n \notin PassedGates /\ l \notin Grants
  BY <1>1
<1>5. Cardinality(PassedGates') = Cardinality(Grants')
  <2>1. Cardinality(PassedGates \union {n}) = Cardinality(PassedGates) + 1
    BY <1>1, <1>4, FS_AddElement
  <2>2. Cardinality(Grants \union {l}) = Cardinality(Grants) + 1
    BY <1>1, <1>4, FS_AddElement
  <2> QED BY <1>1, <1>3, <2>1, <2>2 DEF GatesAudited
<1>6. /\ Rank(PassedGates', n) = Cardinality(PassedGates) + 1
      /\ \A k \in PassedGates : /\ Rank(PassedGates', k) = Rank(PassedGates, k)
                                /\ Rank(PassedGates, k) <= Cardinality(PassedGates)
      /\ Cardinality(PassedGates) \in Nat
  BY <1>1, RankGrows
<1>7. /\ Rank(Grants', l) = Cardinality(Grants) + 1
      /\ \A a \in Grants : /\ Rank(Grants', a) = Rank(Grants, a)
                           /\ Rank(Grants, a) <= Cardinality(Grants)
      /\ Cardinality(Grants) \in Nat
  BY <1>1, <1>3, RankGrows
<1>8. ASSUME NEW k \in PassedGates', NEW a \in Grants',
             Rank(PassedGates', k) = Rank(Grants', a)
      PROVE  exec'.steps[k].step = audit'[a].step /\ exec'.steps[k].inputs = audit'[a].final
  <2>1. \A j \in PassedGates : Rank(PassedGates, j) \in Nat
    BY <1>1, FS_Subset, FS_CardinalityType DEF Rank
  <2>2. \A j \in Grants : Rank(Grants, j) \in Nat
    BY <1>1, FS_Subset, FS_CardinalityType DEF Rank
  <2>3. CASE k = n /\ a = l
    BY <1>1, <1>2, <2>3
  <2>4. CASE k \in PassedGates /\ a \in Grants
    <3>1. audit'[a] = audit[a] /\ exec'.steps[k] = exec.steps[k]
      BY <1>1, <1>2, <2>4 DEF Grants
    <3> QED BY <1>6, <1>7, <1>8, <2>4, <3>1 DEF GatesAudited
  <2>5. ~(k = n /\ a \in Grants) /\ ~(k \in PassedGates /\ a = l)
    BY <1>6, <1>7, <1>8, <2>1, <2>2 DEF GatesAudited
  <2> QED BY <1>1, <1>3, <1>8, <2>3, <2>4, <2>5
<1>9. \A k : Rank(PassedGates, k)' = Rank(PassedGates', k) /\ Rank(Grants, k)' = Rank(Grants', k)
  BY DEF Rank
<1> QED BY <1>5, <1>8, <1>9 DEF GatesAudited

(* A refusal is no grant.                                                  *)
LEMMA RefusalNoGrant ==
  ASSUME AInv, NEW entry \in AuditEntries, audit' = Append(audit, entry),
         entry.decision \notin {"approved", "timeout_proceed"}
  PROVE  Grants' = Grants /\ \A a \in Grants : audit'[a] = audit[a]
<1> DEFINE l == Len(audit) + 1
<1>1. /\ l \in Nat /\ Len(audit') = l /\ audit'[l] = entry
      /\ \A a \in 1..Len(audit) : audit'[a] = audit[a]
  BY Counting
<1>2. 1..l = (1..Len(audit)) \union {l}
  BY <1>1, Counting
<1>3. Grants' = {a \in 1..l : audit'[a].decision \in {"approved", "timeout_proceed"}}
  BY <1>1 DEF Grants
<1> QED BY <1>1, <1>2, <1>3 DEF Grants

(* A step of clients, or none.                                             *)
LEMMA CStays ==
  ASSUME CInv, AInv', UNCHANGED <<wf, goroutine>>
  PROVE  CInv'
<1>1. /\ wf' = wf /\ exec' = exec /\ stored' = stored /\ loc' = loc /\ cur' = cur
      /\ comp' = comp /\ undone' = undone /\ audit' = audit /\ Undoing' = Undoing
  BY DEF goroutine, Undoing
<1>2. Kept /\ Grants' = Grants
  BY <1>1, SameEvents DEF Grants
<1>3. Matched' /\ Left' = Left
  BY <1>1, <1>2, MatchStays DEF CInv, Kept
<1>4. Unwound'
  BY <1>1, <1>3, UnwoundStays DEF CInv
<1>5. GatesAudited'
  BY <1>1, <1>2, GatesStay DEF CInv
<1>6. Found'
  BY <1>1 DEF CInv, Found, Compensates, StepList
<1>7. LastOpen' /\ AtGate' /\ Reasoned' /\ EndsWell'
  BY <1>1 DEF CInv, LastOpen, AtGate, Reasoned, EndsWell
<1> QED BY <1>3, <1>4, <1>5, <1>6, <1>7 DEF CInv

(* A step between two events that records no compensation.                 *)
LEMMA CMoves ==
  ASSUME CInv, AInv', wf' = wf, exec'.steps = exec.steps, exec'.comps = exec.comps,
         comp' = comp, audit' = audit, loc' \notin Stepping, Reasoned', EndsWell',
         \/ undone' = undone
         \/ ~Undoing /\ undone' = Len(comp) + 1
  PROVE  CInv'
<1>1. Kept /\ Grants' = Grants
  BY SameEvents DEF Grants
<1>2. Matched' /\ Left' = Left
  BY <1>1, MatchStays DEF CInv, Kept
<1>3. Unwound'
  BY <1>2, UnwoundStays, UnwoundStarts DEF CInv
<1>4. GatesAudited'
  BY <1>1, GatesStay DEF CInv
<1>5. LastOpen' /\ AtGate' /\ Found'
  BY DEF LastOpen, AtGate, Found, Stepping, Holding
<1> QED BY <1>2, <1>3, <1>4, <1>5 DEF CInv

(* The goroutine starts, is refused a step, ends, or turns to undoing.     *)
LEMMA CMoving ==
  ASSUME CInv, AInv',
         \/ Begin \/ Complete \/ Deadlock \/ ContextCancelled \/ NothingToUndo
         \/ StartUndo \/ EndUndo \/ \E s \in StepIds : RefuseStep(s)
  PROVE  CInv'
<1>1. exec \in Executions /\ (exec.over <=> loc = "end") /\ Undoing' = (undone' # NotUndoing)
  BY DEF CInv, AInv, IInv, TypeOK, Ended, Undoing
<1>2. loc \in {"start", "next", "failing"} => ~Undoing
  BY DEF CInv, AInv, IInv, UndoPlaces
<1>3. CASE Begin
  <2>1. /\ wf' = wf /\ comp' = comp /\ audit' = audit /\ undone' = undone /\ loc' = "next"
        /\ stored' = exec' /\ exec'.steps = exec.steps /\ exec'.comps = exec.comps
        /\ exec'.reason = exec.reason /\ ~exec'.over /\ loc = "start"
    BY <1>1, <1>3 DEF Begin, Published, Environment, Executions
  <2>2. Reasoned' /\ EndsWell'
    BY <1>2, <2>1 DEF CInv, Reasoned, EndsWell
  <2> QED BY <2>1, <2>2, CMoves DEF Stepping
<1>4. ASSUME NEW s \in StepIds, RefuseStep(s) PROVE CInv'
  <2>1. /\ wf' = wf /\ comp' = comp /\ audit' = audit /\ undone' = undone /\ loc' = "failing"
        /\ stored' = exec' /\ exec'.steps = exec.steps /\ exec'.comps = exec.comps /\ ~exec'.over
    BY <1>1, <1>2, <1>4 DEF RefuseStep, ReturnsErr, Published, Environment, Executions
  <2>2. Reasoned' /\ EndsWell'
    BY <2>1 DEF Reasoned, EndsWell, Stepping
  <2> QED BY <2>1, <2>2, CMoves DEF Stepping
<1>5. CASE StartUndo
  <2>1. /\ wf' = wf /\ comp' = comp /\ audit' = audit /\ undone' = Len(comp) + 1
        /\ loc' = "unwind" /\ loc = "failing"
        /\ stored' = exec' /\ exec'.steps = exec.steps /\ exec'.comps = exec.comps /\ ~exec'.over
    BY <1>1, <1>5 DEF StartUndo, Published, Environment, Executions
  <2>2. Reasoned' /\ EndsWell'
    BY <2>1 DEF Reasoned, EndsWell, Stepping
  <2> QED BY <1>2, <2>1, <2>2, CMoves DEF Stepping
<1>6. ASSUME NEW e \in Executions, e.steps = exec.steps, e.comps = exec.comps, Ends(e),
             e.reason \in {"none", "deadlock"} \/ IF Undoing THEN undone = 1 ELSE comp = <<>>
      PROVE  CInv'
  <2>1. /\ wf' = wf /\ comp' = comp /\ audit' = audit /\ undone' = undone /\ loc' = "end"
        /\ stored' = exec' /\ exec'.steps = exec.steps /\ exec'.comps = exec.comps
        /\ exec'.reason = e.reason
    BY <1>6 DEF Ends, Published, Environment, Executions
  <2>2. Reasoned' /\ EndsWell'
    BY <1>1, <1>6, <2>1 DEF Reasoned, EndsWell, Stepping, Undoing
  <2> QED BY <2>1, <2>2, CMoves DEF Stepping
<1>7. CASE Complete \/ ContextCancelled
  <2>1. exec.reason = "none" /\ loc = "next"
    BY <1>2, <1>7 DEF Complete, ContextCancelled, CInv, Reasoned
  <2>2. ASSUME NEW st \in Statuses, Ends([exec EXCEPT !.status = st])
        PROVE  CInv'
    <3> DEFINE e == [exec EXCEPT !.status = st]
    <3>1. e \in Executions /\ e.steps = exec.steps /\ e.comps = exec.comps /\ e.reason = "none"
      BY <1>1, <2>1 DEF Executions
    <3> HIDE DEF e
    <3>2. Ends(e)
      BY <2>2 DEF e
    <3> QED BY <1>6, <3>1, <3>2
  <2> QED BY <1>7, <2>2 DEF Complete, ContextCancelled, Statuses
<1>8. CASE Deadlock
  <2> DEFINE e == [exec EXCEPT !.status = "failed", !.reason = "deadlock"]
  <2>1. e \in Executions /\ e.steps = exec.steps /\ e.comps = exec.comps /\ e.reason = "deadlock"
    BY <1>1 DEF Executions, Statuses, Reasons
  <2>2. Ends(e)
    BY <1>8 DEF Deadlock
  <2> HIDE DEF e
  <2> QED BY <1>6, <2>1, <2>2
<1>9. CASE NothingToUndo \/ EndUndo
  <2>1. Ends(exec) /\ IF Undoing THEN undone = 1 ELSE comp = <<>>
    BY <1>2, <1>9 DEF NothingToUndo, EndUndo, Undoing, NotUndoing
  <2> QED BY <1>1, <1>6, <2>1
<1> QED BY <1>3, <1>4, <1>5, <1>7, <1>8, <1>9

(* An attempt begins.                                                      *)
LEMMA COpens ==
  ASSUME CInv, AInv', NEW s \in StepIds, NEW k \in Nat \ {0}, NEW ins \in SUBSET Marks,
         Opens(s, k, ins), audit' = audit, comp' = comp, stored' = exec',
         Undoing => Compensates(comp[undone - 1])
  PROVE  CInv'
<1>1. /\ Kept /\ exec'.comps = exec.comps /\ exec'.reason = exec.reason /\ exec'.over = exec.over
      /\ exec'.steps[Len(exec'.steps)].status = "running"
  BY OpensKeeps DEF CInv
<1>2. /\ wf' = wf /\ undone' = undone /\ loc' = "execute" /\ Undoing' = Undoing
      /\ loc \in {"next", "unwind", "backoff"}
  BY DEF Opens, Undoing
<1>3. Matched' /\ Left' = Left
  BY <1>1, <1>2, MatchStays DEF CInv, Kept
<1>4. Unwound'
  BY <1>1, <1>2, <1>3, UnwoundStays DEF CInv
<1>5. GatesAudited'
  <2>1. Grants' = Grants
    BY DEF Grants
  <2> QED BY <1>1, <2>1, GatesStay DEF CInv
<1>6. Found'
  BY <1>2 DEF Found, Compensates, StepList
<1>7. LastOpen' /\ AtGate'
  BY <1>1, <1>2 DEF LastOpen, AtGate, Open
<1>8. Reasoned'
  BY <1>1, <1>2 DEF CInv, Reasoned, Stepping, AInv, IInv, UndoPlaces
<1>9. EndsWell'
  BY <1>1, <1>2 DEF EndsWell, CInv, AInv, IInv, Ended
<1> QED BY <1>3, <1>4, <1>5, <1>6, <1>7, <1>8, <1>9 DEF CInv

(* A step, an attempt or a compensation is entered.                        *)
LEMMA COpening ==
  ASSUME CInv, AInv', UndoStep \/ Retry \/ \E s \in StepIds : BeginStep(s)
  PROVE  CInv'
<1>1. IInv /\ cur.inputs \in SUBSET Marks
  BY DEF CInv, AInv, IInv, TypeOK
<1>2. CASE UndoStep
  <2>1. wf.undo[comp[undone - 1]] \in StepIds /\ Compensates(comp[undone - 1])
    BY <1>1, <1>2, Shape DEF UndoStep, Compensates, IInv
  <2>2. Opens(wf.undo[comp[undone - 1]], 1, {"compensating_for"})
        /\ audit' = audit /\ comp' = comp /\ stored' = exec'
    BY <1>2, <2>1 DEF UndoStep, EntersStep, Published, Environment, Opens
  <2> QED BY <2>1, <2>2, COpens DEF Marks
<1>3. CASE Retry
  <2>1. cur \in [step : StepIds, attempt : Nat \ {0}, inputs : SUBSET Marks]
    BY <1>1, <1>3 DEF Retry, IInv, TypeOK, CurrentStep, Stepping
  <2>2. cur' = [step |-> cur.step, attempt |-> cur.attempt + 1, inputs |-> cur.inputs]
    BY <1>3, <2>1 DEF Retry
  <2>3. Opens(cur.step, cur.attempt + 1, cur.inputs)
        /\ audit' = audit /\ comp' = comp /\ stored' = exec'
    BY <1>3, <2>2 DEF Retry, Published, Environment, Opens
  <2>4. cur.step \in StepIds /\ cur.attempt + 1 \in Nat \ {0} /\ cur.inputs \in SUBSET Marks
    BY <2>1
  <2>5. Undoing => Compensates(comp[undone - 1])
    BY <1>3 DEF Retry, CInv, Found, Stepping
  <2> QED BY <2>3, <2>4, <2>5, COpens
<1>4. ASSUME NEW s \in StepIds, BeginStep(s) PROVE CInv'
  <2>1. ResolvedInputs(s) \in SUBSET Marks /\ s \in Pending /\ ~Undoing
    BY <1>1, <1>4 DEF ResolvedInputs, IInv, TypeOK, BeginStep, IsNext, Runnable, UndoPlaces
  <2>2. Opens(s, 1, ResolvedInputs(s)) /\ audit' = audit /\ comp' = comp /\ stored' = exec'
    BY <1>4, <2>1 DEF BeginStep, EntersStep, Published, Environment, Opens
  <2> QED BY <2>1, <2>2, COpens
<1> QED BY <1>2, <1>3, <1>4

(* An attempt fails and is repeated, or a gate opens.                      *)
LEMMA CContinues ==
  ASSUME CInv, AInv', NEW status \in {"failed", "waiting"},
         Marking(status, cur.inputs), loc \in Holding, loc' \in {"backoff", "await"},
         loc' = "await" => status = "waiting" /\ wf.type[cur.step] = "hitl",
         comp' = comp, undone' = undone, cur' = cur, audit' = audit,
         exec'.comps = exec.comps, exec'.reason = exec.reason, exec'.over = exec.over,
         stored' = exec'
  PROVE  CInv'
<1>1. Kept /\ wf' = wf /\ Undoing' = Undoing
  BY UnfinishedKeeps DEF CInv, Kept, Undoing
<1>2. Matched' /\ Left' = Left
  BY <1>1, MatchStays DEF CInv, Kept
<1>3. Unwound'
  BY <1>2, UnwoundStays DEF CInv
<1>4. GatesAudited'
  <2>1. Grants' = Grants
    BY DEF Grants
  <2> QED BY <1>1, <2>1, GatesStay DEF CInv
<1>5. Found'
  BY <1>1 DEF CInv, Found, Compensates, StepList, Stepping, Holding
<1>6. LastOpen' /\ AtGate'
  BY <1>1 DEF LastOpen, AtGate, Open, Holding, Marking
<1>7. Reasoned'
  BY <1>1 DEF CInv, Reasoned, Stepping, Holding
<1>8. EndsWell'
  BY DEF EndsWell, CInv, AInv, IInv, Ended, Holding
<1> QED BY <1>2, <1>3, <1>4, <1>5, <1>6, <1>7, <1>8 DEF CInv

(* A compensation returns, or is refused: its outcome is recorded.         *)
LEMMA CRecords ==
  ASSUME CInv, AInv', wf' = wf, ToCompensate' = ToCompensate,
         \A k \in ToCompensate : exec'.steps[k].step = exec.steps[k].step,
         Undoing, undone > 1, comp' = comp, undone' = undone - 1, loc' = "unwind",
         Compensates(comp[undone - 1]), ~stored'.over,
         NEW item \in CompItems, item.for = comp[undone - 1],
         exec'.comps = Append(exec.comps, item), GatesAudited'
  PROVE  CInv'
<1>1. Matched' /\ Left' = Left
  BY MatchStays DEF CInv
<1>2. Unwound'
  BY <1>1, UnwoundAdvances DEF CInv
<1>3. LastOpen' /\ AtGate' /\ Found' /\ Reasoned' /\ EndsWell'
  BY DEF LastOpen, AtGate, Found, Reasoned, EndsWell, Stepping, Holding
<1> QED BY <1>1, <1>2, <1>3 DEF CInv

(* runStep returns, with its last event marked.                            *)
Returning(e, status, ins) ==
  /\ loc \in Holding /\ wf' = wf /\ cur' = cur
  /\ Settled(e) /\ e.steps = Marked(status, ins).steps
  /\ e.comps = exec.comps /\ e.reason = exec.reason

(* runStep returns while the saga compensates, with either outcome.        *)
LEMMA CReturnsUndoing ==
  ASSUME CInv, AInv', NEW status \in {"completed", "failed"},
         NEW ins \in {cur.inputs, cur.inputs \union {"inputs"}}, NEW e,
         Returning(e, status, ins), Undoing, NEW ok \in BOOLEAN,
         stored' = e, exec' = Undid(e, ok), undone' = undone - 1, loc' = "unwind",
         comp' = comp, Marking(status, ins) => GatesAudited'
  PROVE  CInv'
<1> DEFINE item == [for |-> comp[undone - 1], by |-> cur.step, ok |-> ok]
<1>1. undone > 1 /\ cur.step \in StepIds /\ Compensates(comp[undone - 1]) /\ e \in Executions
      /\ ~e.over
  BY DEF CInv, AInv, IInv, CurrentStep, Found, Returning, Holding, Stepping, Settled
<1>2. comp[undone - 1] \in StepIds
  <2>1. comp \in Seq(StepIds) /\ undone - 1 \in 1..Len(comp)
    BY <1>1, Counting DEF CInv
  <2> QED BY <2>1
<1>3. item \in CompItems /\ item.for = comp[undone - 1]
  BY <1>1, <1>2 DEF CompItems
<1>4. exec' = [e EXCEPT !.comps = Append(e.comps, item)]
  BY DEF Undid
<1> HIDE DEF item
<1>5. exec'.steps = e.steps /\ exec'.comps = Append(exec.comps, item)
  BY <1>1, <1>4 DEF Executions, Returning
<1>6. Marking(status, ins)
  BY <1>5, EventIsMarked DEF CInv, Returning
<1>7. ToCompensate' = ToCompensate
      /\ \A k \in ToCompensate : exec'.steps[k].step = exec.steps[k].step
  BY <1>6 DEF Marking
<1> QED BY <1>1, <1>3, <1>5, <1>6, <1>7, CRecords DEF Returning

(* runStep returns without an error.                                       *)
LEMMA CReturnsOk ==
  ASSUME CInv, AInv', NEW ins \in {cur.inputs, cur.inputs \union {"inputs"}}, NEW e,
         Returning(e, "completed", ins), NEW out, ReturnsOk(e, out),
         Marking("completed", ins) => GatesAudited'
  PROVE  CInv'
<1>1. CASE Undoing
  <2>1. /\ stored' = e /\ exec' = Undid(e, TRUE) /\ undone' = undone - 1
        /\ loc' = "unwind" /\ comp' = comp
    BY <1>1 DEF ReturnsOk
  <2> QED BY <1>1, <2>1, CReturnsUndoing
<1>2. CASE ~Undoing
  <2>1. /\ stored' = e /\ exec' = e /\ undone' = undone /\ loc' = "next"
        /\ comp' = Banked(cur.step) /\ Undoing' = Undoing
    BY <1>2 DEF ReturnsOk, Undoing
  <2>2. /\ cur.step \in StepIds /\ exec.reason = "none" /\ Len(exec.comps) = 0 /\ ~e.over
    BY <1>2 DEF CInv, AInv, IInv, CurrentStep, Returning, Holding, Stepping, Reasoned,
                Unwound, Settled
  <2>3. Marking("completed", ins)
    BY <2>1, EventIsMarked DEF CInv, Returning
  <2>4. Matched'
    BY <1>2, <2>1, <2>2, <2>3, MatchGrows DEF CInv
  <2>5. Unwound'
    BY <1>2, <2>1, <2>2 DEF Unwound, Returning
  <2>6. LastOpen' /\ AtGate' /\ Found' /\ Reasoned' /\ EndsWell'
    BY <2>1, <2>2 DEF LastOpen, AtGate, Found, Reasoned, EndsWell, Stepping, Holding, Returning
  <2> QED BY <2>3, <2>4, <2>5, <2>6 DEF CInv
<1> QED BY <1>1, <1>2

(* runStep returns an error.                                               *)
LEMMA CReturnsErr ==
  ASSUME CInv, AInv', NEW e, Returning(e, "failed", cur.inputs), NEW reason \in Reasons,
         ReturnsErr(e, reason), Marking("failed", cur.inputs) => GatesAudited'
  PROVE  CInv'
<1>1. CASE Undoing
  <2>1. /\ stored' = e /\ exec' = Undid(e, FALSE) /\ undone' = undone - 1
        /\ loc' = "unwind" /\ comp' = comp
    BY <1>1 DEF ReturnsErr
  <2> QED BY <1>1, <2>1, CReturnsUndoing
<1>2. CASE ~Undoing
  <2>1. /\ exec' = [e EXCEPT !.status = "failed", !.reason = reason] /\ stored' = exec'
        /\ undone' = undone /\ loc' = "failing" /\ comp' = comp /\ Undoing' = Undoing
    BY <1>2 DEF ReturnsErr, Published, Undoing
  <2>2. exec'.steps = e.steps /\ exec'.comps = exec.comps /\ ~exec'.over
    BY <2>1 DEF Returning, Settled, Executions
  <2>3. Marking("failed", cur.inputs)
    BY <2>2, EventIsMarked DEF CInv, Returning
  <2>4. Kept
    BY <2>3, UnfinishedKeeps DEF CInv
  <2>5. Matched' /\ Left' = Left
    BY <2>1, <2>4, MatchStays DEF CInv, Kept
  <2>6. Unwound'
    BY <2>1, <2>2, <2>5, UnwoundStays DEF CInv
  <2>7. LastOpen' /\ AtGate' /\ Found' /\ Reasoned' /\ EndsWell'
    BY <2>1, <2>2 DEF LastOpen, AtGate, Found, Reasoned, EndsWell, Stepping, Holding
  <2> QED BY <2>3, <2>5, <2>6, <2>7 DEF CInv
<1> QED BY <1>1, <1>2

(* An attempt without a gate passes none and grants none.                  *)
LEMMA NoGate ==
  ASSUME CInv, NEW status, NEW ins, Marking(status, ins), audit' = audit,
         wf.type[cur.step] # "hitl" \/ status # "completed"
  PROVE  GatesAudited'
<1>1. Grants' = Grants
  BY DEF Grants
<1>2. /\ PassedGates' = PassedGates
      /\ \A k \in PassedGates : exec'.steps[k] = exec.steps[k]
  BY DEF Marking
<1>3. \A k : Rank(PassedGates, k)' = Rank(PassedGates, k) /\ Rank(Grants, k)' = Rank(Grants, k)
  BY <1>1, <1>2 DEF Rank
<1> QED BY <1>1, <1>2, <1>3 DEF GatesAudited, CInv

(* What markStep leaves of the rest of the execution.                      *)
LEMMA MarkedReturning ==
  ASSUME CInv, loc \in Holding, wf' = wf, cur' = cur,
         NEW status \in {"completed", "failed"}, NEW ins \in SUBSET Marks
  PROVE  /\ Returning(Marked(status, ins), status, ins)
         /\ Returning([Marked(status, ins) EXCEPT !.status = "running"], status, ins)
<1> DEFINE m == Marked(status, ins)
           r == [m EXCEPT !.status = "running"]
<1>1. Settled(m) /\ Closes(m, status)
  BY MarkedSettled, MarkedCloses DEF CInv, AInv, IInv
<1> HIDE DEF m
<1>2. Returning(m, status, ins)
  BY <1>1 DEF Returning, Closes, m
<1>3. Settled(r) /\ r.steps = m.steps /\ r.comps = m.comps /\ r.reason = m.reason
  BY <1>1 DEF Settled, Executions, Statuses
<1> HIDE DEF r
<1>4. Returning(r, status, ins)
  BY <1>2, <1>3 DEF Returning
<1> QED BY <1>2, <1>4 DEF m, r

(* An attempt ends.                                                        *)
LEMMA CAttempts ==
  ASSUME CInv, AInv',
         \/ FailUnbound \/ ActivitySucceeds
         \/ \E kind \in {"transient", "permanent"} : ActivityFails(kind)
  PROVE  CInv'
<1>1. /\ loc = "execute" /\ loc \in Holding /\ wf' = wf /\ cur' = cur /\ audit' = audit
      /\ cur.inputs \in SUBSET Marks
  BY DEF FailUnbound, ActivitySucceeds, ActivityFails, Attempting, Environment, Holding,
         CInv, AInv, IInv, TypeOK
<1>2. /\ Returning(Marked("failed", cur.inputs), "failed", cur.inputs)
      /\ Returning(Marked("completed", cur.inputs), "completed", cur.inputs)
  BY <1>1, MarkedReturning
<1>3. Marking("failed", cur.inputs) => GatesAudited'
  BY <1>1, NoGate
<1>4. CASE FailUnbound
  BY <1>2, <1>3, <1>4, CReturnsErr DEF FailUnbound, Reasons
<1>5. CASE ActivitySucceeds
  <2>1. Marking("completed", cur.inputs) => GatesAudited'
    BY <1>1, <1>5, NoGate DEF ActivitySucceeds
  <2> QED BY <1>2, <1>5, <2>1, CReturnsOk DEF ActivitySucceeds
<1>6. ASSUME NEW kind \in {"transient", "permanent"}, ActivityFails(kind) PROVE CInv'
  <2>1. CASE MayRetry(kind)
    <3> DEFINE m == Marked("failed", cur.inputs)
    <3>1. /\ exec' = m /\ stored' = exec' /\ loc' = "backoff" /\ comp' = comp
          /\ undone' = undone
      BY <1>6, <2>1 DEF ActivityFails, Published
    <3>2. Closes(m, "failed")
      BY <1>1, MarkedCloses DEF CInv, AInv, IInv
    <3>3. exec'.steps = m.steps
      BY <3>1
    <3>4. Marking("failed", cur.inputs)
      BY <1>1, <3>3, EventIsMarked DEF CInv
    <3> HIDE DEF m
    <3>5. exec'.comps = exec.comps /\ exec'.reason = exec.reason /\ exec'.over = exec.over
      BY <3>1, <3>2 DEF Closes
    <3> QED BY <1>1, <3>1, <3>4, <3>5, CContinues
  <2>2. CASE ~MayRetry(kind)
    <3>1. ReturnsErr(Marked("failed", cur.inputs), "activity")
      BY <1>6, <2>2 DEF ActivityFails
    <3> QED BY <1>2, <1>3, <3>1, CReturnsErr DEF Reasons
  <2> QED BY <2>1, <2>2
<1> QED BY <1>4, <1>5, <1>6

(* A gate opens.                                                           *)
LEMMA CGateOpens ==
  ASSUME CInv, AInv', GateOpens
  PROVE  CInv'
<1> DEFINE m == Marked("waiting", cur.inputs)
<1>1. /\ loc \in Holding /\ loc' = "await" /\ wf' = wf /\ cur' = cur /\ audit' = audit
      /\ comp' = comp /\ undone' = undone /\ wf.type[cur.step] = "hitl"
      /\ exec' = [m EXCEPT !.status = "waiting"] /\ stored' = exec'
      /\ cur.inputs \in SUBSET Marks
  BY DEF GateOpens, Attempting, Environment, Published, Holding, CInv, AInv, IInv, TypeOK
<1>2. Closes(m, "waiting")
  BY <1>1, MarkedCloses DEF CInv, AInv, IInv
<1> HIDE DEF m
<1>3. /\ exec'.steps = m.steps /\ exec'.comps = exec.comps
      /\ exec'.reason = exec.reason /\ exec'.over = exec.over
  BY <1>1, <1>2 DEF Closes, Executions
<1>4. Marking("waiting", cur.inputs)
  BY <1>1, <1>3, EventIsMarked DEF CInv, m
<1> QED BY <1>1, <1>3, <1>4, CContinues

(* A gate is passed, and its grant is audited with the inputs it ends      *)
(* with ...                                                                *)
LEMMA CGatePasses ==
  ASSUME CInv, AInv', loc = "await", wf' = wf,
         NEW decision \in {"approved", "timeout_proceed"},
         NEW final \in {cur.inputs, cur.inputs \union {"inputs"}}, final \in SUBSET Marks,
         NEW out, GatePasses(decision, final, out)
  PROVE  CInv'
<1>1. /\ loc \in Holding /\ cur' = cur /\ wf.type[cur.step] = "hitl"
      /\ cur.step \in StepIds /\ cur.inputs \in SUBSET Marks
  BY DEF GatePasses, Holding, CInv, AtGate, AInv, IInv, TypeOK, CurrentStep, Stepping
<1> DEFINE r == [Marked("completed", final) EXCEPT !.status = "running"]
           entry == Entered(final, decision)
<1>2. Returning(r, "completed", final) /\ ReturnsOk(r, out)
  BY <1>1, MarkedReturning DEF GatePasses
<1>3. /\ entry \in AuditEntries /\ entry.step = cur.step /\ entry.final = final
      /\ entry.decision = decision
  BY <1>1 DEF Entered, AuditEntries
<1>4. audit' = Append(audit, entry)
  BY DEF GatePasses, Audited, Entered
<1> HIDE DEF r, entry
<1>5. Marking("completed", final) => GatesAudited'
  BY <1>1, <1>3, <1>4, GatesGrow DEF CInv
<1> QED BY <1>2, <1>5, CReturnsOk

(* ... or it is not, and its refusal is.                                   *)
LEMMA CGateFails ==
  ASSUME CInv, AInv', loc = "await", wf' = wf,
         NEW decision \in {"rejected", "cancelled", "escalated", "timeout_failed"},
         NEW reason \in Reasons, GateFails(decision, reason)
  PROVE  CInv'
<1>1. /\ loc \in Holding /\ cur' = cur /\ cur.step \in StepIds /\ cur.inputs \in SUBSET Marks
  BY DEF GateFails, Holding, CInv, AInv, IInv, TypeOK, CurrentStep, Stepping
<1> DEFINE entry == Entered(cur.inputs, decision)
<1>2. /\ Returning(Marked("failed", cur.inputs), "failed", cur.inputs)
      /\ ReturnsErr(Marked("failed", cur.inputs), reason)
  BY <1>1, MarkedReturning DEF GateFails
<1>3. entry \in AuditEntries /\ entry.decision = decision
  BY <1>1 DEF Entered, AuditEntries
<1>4. audit' = Append(audit, entry)
  BY DEF GateFails, Audited, Entered
<1> HIDE DEF entry
<1>5. Grants' = Grants /\ \A a \in Grants : audit'[a] = audit[a]
  BY <1>3, <1>4, RefusalNoGrant DEF CInv
<1>6. Marking("failed", cur.inputs) => GatesAudited'
  BY <1>5, UnfinishedKeeps, GatesStay DEF CInv
<1> QED BY <1>2, <1>6, CReturnsErr

(* A gate is decided, by a signal or by its timer.                         *)
LEMMA CGateDecides ==
  ASSUME CInv, AInv', Decide \/ GateTimesOut
  PROVE  CInv'
<1>1. /\ loc = "await" /\ wf' = wf /\ chan \in Seq(Envelopes) /\ cur.inputs \in SUBSET Marks
      /\ cur.inputs \union {"inputs"} \in SUBSET Marks
  BY DEF Decide, GateTimesOut, Environment, CInv, AInv, IInv, TypeOK, Marks
<1>2. CASE Decide
  <2> DEFINE env == Head(Received)
  <2>1. Received \in Seq(Envelopes) /\ Received # <<>>
    BY <1>1, <1>2 DEF Decide, Received
  <2>2. env \in Envelopes
    BY <2>1
  <2> HIDE DEF env
  <2>3. FinalInputs(env) \in {cur.inputs, cur.inputs \union {"inputs"}}
    BY <2>2 DEF FinalInputs, Envelopes
  <2>4. \/ GatePasses("approved", FinalInputs(env), GateOutputs(env))
        \/ GateFails("rejected", "rejected")
        \/ GateFails("cancelled", "cancelled")
        \/ UNCHANGED goroutine
    BY <1>2, <2>2 DEF Decide, Envelopes, env
  <2>5. CASE GatePasses("approved", FinalInputs(env), GateOutputs(env))
    BY <1>1, <2>3, <2>5, CGatePasses
  <2>6. CASE GateFails("rejected", "rejected")
    BY <1>1, <2>6, CGateFails DEF Reasons
  <2>7. CASE GateFails("cancelled", "cancelled")
    BY <1>1, <2>7, CGateFails DEF Reasons
  <2>8. CASE UNCHANGED goroutine
    BY <1>1, <2>8, CStays
  <2> QED BY <2>4, <2>5, <2>6, <2>7, <2>8
<1>3. CASE GateTimesOut
  <2>1. \/ GatePasses("timeout_proceed", cur.inputs, {"decision"})
        \/ GateFails("escalated", "hitl_escalated")
        \/ GateFails("timeout_failed", "hitl_timeout")
    BY <1>3 DEF GateTimesOut
  <2> QED BY <1>1, <2>1, CGatePasses, CGateFails DEF Reasons
<1> QED BY <1>2, <1>3

(* A compensation is refused, or nobody declared it.                       *)
LEMMA CUndoes ==
  ASSUME CInv, AInv', UndoRefused \/ UndoMissing
  PROVE  CInv'
<1> DEFINE s == comp[undone - 1]
           item == [for |-> s, by |-> wf.undo[s], ok |-> FALSE]
<1>1. /\ loc = "unwind" /\ loc' = "unwind" /\ undone > 1 /\ undone' = undone - 1 /\ Undoing
      /\ stored' = stored /\ comp' = comp /\ audit' = audit /\ wf' = wf
      /\ exec \in Executions
  BY DEF UndoRefused, UndoMissing, Skipped, Environment, CInv, AInv, IInv, TypeOK, UndoPlaces
<1>2. exec'.steps = exec.steps
  BY <1>1 DEF UndoRefused, UndoMissing, Executions
<1>3. Kept /\ Grants' = Grants /\ ~stored'.over
  BY <1>1, <1>2, SameEvents DEF Grants, CInv, EndsWell
<1>4. GatesAudited'
  BY <1>1, <1>3, GatesStay DEF CInv
<1>5. CASE UndoRefused
  <2>1. Compensates(s) /\ exec'.comps = Append(exec.comps, item)
    BY <1>1, <1>5 DEF UndoRefused, Executions
  <2>2. s \in StepIds
    <3>1. comp \in Seq(StepIds) /\ undone - 1 \in 1..Len(comp)
      BY <1>1, Counting DEF CInv
    <3> QED BY <3>1
  <2>3. wf.undo[s] \in StepIds
    BY <2>1, Shape DEF Compensates, CInv, AInv, IInv
  <2>4. item \in CompItems /\ item.for = s
    BY <2>2, <2>3 DEF CompItems
  <2> HIDE DEF item
  <2> QED BY <1>1, <1>3, <1>4, <2>1, <2>4, CRecords DEF Kept
<1>6. CASE UndoMissing
  <2>1. exec'.comps = exec.comps /\ ~Compensates(s)
    BY <1>6 DEF UndoMissing
  <2>2. Matched' /\ Left' = Left
    BY <1>1, <1>3, MatchStays DEF CInv, Kept
  <2>3. Unwound'
    BY <1>1, <2>1, <2>2, UnwoundSkips DEF CInv
  <2>4. LastOpen' /\ AtGate' /\ Found' /\ Reasoned' /\ EndsWell'
    BY <1>1, <1>3 DEF LastOpen, AtGate, Found, Reasoned, EndsWell, Stepping, Holding
  <2> QED BY <1>4, <2>2, <2>3, <2>4 DEF CInv
<1> QED BY <1>5, <1>6

(* Every step keeps the invariant.                                         *)
LEMMA CStep ==
  ASSUME CInv, AInv', [Next]_vars
  PROVE  CInv'
<1>1. CASE RunStep
  BY <1>1, CMoving, COpening, CAttempts, CGateOpens DEF RunStep
<1>2. CASE Goroutine /\ ~RunStep
  BY <1>2, CMoving, COpening, CGateDecides, CUndoes DEF Goroutine
<1>3. CASE Clients \/ Over \/ UNCHANGED vars
  <2>1. UNCHANGED <<wf, goroutine>>
    BY <1>3 DEF Clients, SignalWorkflow, CancelWorkflow, CancelContext, Over, vars
  <2> QED BY <2>1, CStays
<1> QED BY <1>1, <1>2, <1>3 DEF Next

(* The first states satisfy it.                                            *)
LEMMA CInit ==
  ASSUME Init
  PROVE  CInv
<1>1. /\ exec.steps = <<>> /\ exec.comps = <<>> /\ exec.reason = "none" /\ ~exec.over
      /\ stored = exec /\ loc = "start" /\ comp = <<>> /\ ~Undoing /\ audit = <<>>
  BY DEF Init, Undoing
<1>2. Left = {} /\ ToCompensate = {} /\ PassedGates = {} /\ Grants = {}
  BY <1>1 DEF Left, ToCompensate, PassedGates, Grants
<1>3. Matched /\ GatesAudited /\ Unwound
  BY <1>1, <1>2 DEF Matched, GatesAudited, Unwound
<1>4. LastOpen /\ AtGate /\ Found /\ Reasoned /\ EndsWell
  BY <1>1 DEF LastOpen, AtGate, Found, Reasoned, EndsWell, Holding, Stepping
<1> QED BY <1>3, <1>4, AttemptsInit DEF CInv

(* CInv is an invariant of the engine.                                     *)
THEOREM CompensationInvariant == Spec => []CInv
<1>1. Init => CInv
  BY CInit
<1>2. Init => AInv
  BY AttemptsInit
<1>3. AInv /\ IInv' /\ [Next]_vars => AInv'
  BY AttemptsStep
<1>4. CInv /\ AInv' /\ [Next]_vars => CInv'
  BY CStep
<1> QED BY <1>1, <1>2, <1>3, <1>4, EngineInvariant, PTL DEF Spec

(* Compensations run in saga order, whatever fails, is retried, refused or *)
(* rejected on the way: the one recorded i-th is that of the finished step *)
(* with i - 1 others behind it.                                            *)
THEOREM CompensationsAreReverse == Spec => []SagaReverse
<1>1. CInv => SagaReverse
  BY CompensationsAre
<1> QED BY <1>1, CompensationInvariant, PTL

(* An execution that failed at a step is not over before each finished     *)
(* step whose compensation can be found has had it.                        *)
THEOREM NothingEndsHalfUndone == Spec => []CompensatedBeforeEnd
<1>1. CInv => CompensatedBeforeEnd
  BY CompensationsAre
<1> QED BY <1>1, CompensationInvariant, PTL

(* The gates passed and the audited grants are the same, in the same order *)
(* and with the same inputs: awaitHITLSignal audits each decision it lets  *)
(* through once, compensations that are gates included.                    *)
THEOREM GatesAreAudited == Spec => []GatesAudited
<1>1. CInv => GatesAudited
  BY DEF CInv
<1> QED BY <1>1, CompensationInvariant, PTL
===============================================================================
