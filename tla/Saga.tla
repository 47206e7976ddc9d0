-------------------------------- MODULE Saga --------------------------------
(***************************************************************************)
(* What a workflow execution promises, without attempts, signals, timers,  *)
(* snapshots or events: steps are done once each, in an order that         *)
(* respects their dependencies; the execution commits when all are done;   *)
(* after a failure the compensable steps that were done are dealt with,    *)
(* last first, and only then does the execution end aborted; it may be     *)
(* abandoned only between two steps.  WorkflowEngine is shown to implement *)
(* this specification.                                                     *)
(***************************************************************************)
EXTENDS Naturals, Sequences

VARIABLES
  main,      \* the steps of the workflow
  needs,     \* needs[s]: the steps s depends on
  undoable,  \* the steps that declare a compensation
  stage,     \* one of Stages
  did,       \* the steps done
  toUndo     \* the undoable steps done and not yet dealt with, in order

workflow == <<main, needs, undoable>>
vars == <<workflow, stage, did, toUndo>>

Stages == {"forward", "backward", "committed", "aborted", "abandoned"}

Begun == stage = "forward" /\ did = {} /\ toUndo = <<>>

Leave(from, to) ==
  /\ stage = from
  /\ stage' = to
  /\ UNCHANGED <<workflow, did, toUndo>>

Do(s) ==
  /\ stage = "forward"
  /\ s \in main \ did
  /\ needs[s] \subseteq did
  /\ did' = did \union {s}
  /\ toUndo' = IF s \in undoable THEN Append(toUndo, s) ELSE toUndo
  /\ UNCHANGED <<workflow, stage>>

Commit == did = main /\ Leave("forward", "committed")

Fail == did # main /\ Leave("forward", "backward")

Abandon == did # main /\ Leave("forward", "abandoned")

Undo ==
  /\ stage = "backward"
  /\ toUndo # <<>>
  /\ toUndo' = SubSeq(toUndo, 1, Len(toUndo) - 1)
  /\ UNCHANGED <<workflow, stage, did>>

Abort == toUndo = <<>> /\ Leave("backward", "aborted")

Next == (\E s \in main : Do(s)) \/ Commit \/ Fail \/ Abandon \/ Undo \/ Abort

Spec == Begun /\ [][Next]_vars
=============================================================================
