-------------------------- MODULE MCWorkflowEngine --------------------------
(***************************************************************************)
(* Small workflows for WorkflowEngine, chosen so that every path of run,   *)
(* runStep and compensate is taken.                                        *)
(***************************************************************************)
EXTENDS WorkflowEngine

CONSTANT None

MCStepIds == {"a", "b", "c", "x"}

Each(v) == [s \in MCStepIds |-> v]
With(s, v, default) == [Each(default) EXCEPT ![s] = v]

Plain ==
  [main |-> <<"a", "b", "c">>, fallback |-> {"x"},
   deps |-> [Each({}) EXCEPT !["b"] = {"a"}, !["c"] = {"a", "b"}],
   reads |-> [Each({}) EXCEPT !["b"] = {"a"}, !["c"] = {"b"}],
   type |-> Each("skill"), attempts |-> Each(1), timeout |-> Each("fail"),
   undo |-> Each(None), unbound |-> {}, unpinned |-> {}]

(* Retries; b is compensated by running step a again, a by fallback x.     *)
Retried ==
  [Plain EXCEPT !.attempts = With("b", 3, 2),
                !.undo = [Each(None) EXCEPT !["a"] = "x", !["b"] = "a"]]

(* Two gates in a row; the second proceeds on timeout.                     *)
Gates ==
  [Plain EXCEPT !.type = [Each("hitl") EXCEPT !["c"] = "skill"],
                !.timeout = With("b", "proceed", "escalate"),
                !.undo = With("a", "x", None),
                !.attempts = With("a", 2, 1)]

(* A gate as a compensation, and a compensation that does not exist.       *)
GateUndo ==
  [Plain EXCEPT !.type = [Each("skill") EXCEPT !["x"] = "hitl", !["c"] = "hitl"],
                !.timeout = With("x", "proceed", "fail"),
                !.fallback = {"x"},
                !.main = <<"b", "a", "c">>,
                !.deps = Each({}),
                !.undo = [Each(None) EXCEPT !["a"] = "x", !["b"] = "x"]]

(* Pinned assets: the skill c is outside the pinned set, and so is the     *)
(* sub-workflow b; the compensation of a is a step nobody declared.        *)
Pinned ==
  [Plain EXCEPT !.type = With("b", "sub-workflow", "skill"),
                !.fallback = {}, !.unpinned = {"b", "c"},
                !.undo = [Each(None) EXCEPT !["a"] = "x", !["b"] = "c"]]

(* b depends on a step that does not exist; c mentions an absent trigger;  *)
(* the compensation of a is of a type with no activity.                    *)
Broken ==
  [Plain EXCEPT !.deps = With("b", {"x"}, {}), !.unbound = {"c"},
                !.undo = With("a", "x", None),
                !.type = With("x", "unknown", "skill")]

Stuck == [Broken EXCEPT !.unbound = {}]

MCWorkflows == {Retried, Gates, GateUndo, Pinned, Broken, Stuck}
=============================================================================
