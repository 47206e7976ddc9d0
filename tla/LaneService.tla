----------------------------- MODULE LaneService -----------------------------
(***************************************************************************)
(* What the trigger lanes of workflow-runtime promise to a workflow, with  *)
(* no counter, mutex or condition variable: a start is pending until it is *)
(* admitted or refused; a start whose policy is queue or drop is admitted  *)
(* only when its lane is empty; only drop is refused, and only by a lane   *)
(* in use.  TriggerLanes is shown to implement this specification.         *)
(***************************************************************************)
CONSTANTS Starts, Keys

VARIABLES
  stage,   \* "new", "pending", "running", "over" or "refused"
  key,     \* the (workflow id, trigger id) lane of each start
  policy   \* its concurrency policy

vars == <<stage, key, policy>>

Stages == {"new", "pending", "running", "over", "refused"}

Init ==
  /\ stage = [s \in Starts |-> "new"]
  /\ key \in [Starts -> Keys]
  /\ policy \in [Starts -> {"queue", "drop", "overlap"}]

Empty(k) == \A s \in Starts : key[s] = k => stage[s] # "running"

Move(s, from, to) ==
  /\ stage[s] = from
  /\ stage' = [stage EXCEPT ![s] = to]
  /\ UNCHANGED <<key, policy>>

Fire(s) == Move(s, "new", "pending")

Admit(s) ==
  /\ policy[s] # "overlap" => Empty(key[s])
  /\ Move(s, "pending", "running")

Refuse(s) ==
  /\ policy[s] = "drop"
  /\ ~Empty(key[s])
  /\ Move(s, "pending", "refused")

Finish(s) == Move(s, "running", "over")

Next == \E s \in Starts : Fire(s) \/ Admit(s) \/ Refuse(s) \/ Finish(s)

Spec == Init /\ [][Next]_vars

(* Nothing stays in a lane for ever, and a pending start is dealt with.    *)
Fairness ==
  \A s \in Starts : /\ WF_vars(Finish(s))
                    /\ SF_vars(Admit(s) \/ Refuse(s))

FairSpec == Spec /\ Fairness
=============================================================================
