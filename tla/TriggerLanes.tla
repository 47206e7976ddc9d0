---------------------------- MODULE TriggerLanes ----------------------------
(***************************************************************************)
(* The concurrency tracker of workflow-runtime (concurrency.go).  Every    *)
(* StartWorkflow call that carries a trigger event must pass the lane of   *)
(* its (workflow id, trigger id) pair before its execution is created; the *)
(* goroutine that ran the execution releases the lane.  A mutex guards the *)
(* holder counts, and a condition variable parks the starts whose policy   *)
(* is "queue".                                                             *)
(*                                                                         *)
(* The critical sections of Acquire and Release are atomic here because    *)
(* they run under the mutex; Cond.Wait splits Acquire in two.              *)
(***************************************************************************)
EXTENDS Naturals, FiniteSets

CONSTANTS
  Starts,   \* the StartWorkflow calls that carry a trigger event
  Keys      \* the concurrencyKeys: (workflow id, trigger id) pairs

ASSUME StartsFinite == IsFiniteSet(Starts)

(* ast.TriggerConcurrency after ConcurrencyOrDefault: an absent trigger or *)
(* an unset policy is "queue", an unrecognised one behaves as "overlap".   *)
Policies == {"queue", "drop", "overlap"}

(* The policies under which a start expects to have its lane to itself.    *)
Exclusive == {"queue", "drop"}

VARIABLES
  pc,       \* where each StartWorkflow call, or its execution, stands
  key,      \* the lane each call uses
  policy,   \* the policy its version of the workflow declares
  holders   \* concurrencyTracker.holders; an absent key is 0

vars == <<pc, key, policy, holders>>

(* "idle": not called yet; "calling": before t.mu.Lock; "parked": inside   *)
(* Cond.Wait; "woken": broadcast, about to lock again; "running": past     *)
(* Acquire; "returned": run is over, Release still to come.                *)
Locations == {"idle", "calling", "parked", "woken", "running", "returned",
              "done", "dropped"}

TypeOK ==
  /\ pc \in [Starts -> Locations]
  /\ key \in [Starts -> Keys]
  /\ policy \in [Starts -> Policies]
  /\ holders \in [Keys -> Nat]

Init ==
  /\ pc = [s \in Starts |-> "idle"]
  /\ key \in [Starts -> Keys]
  /\ policy \in [Starts -> Policies]
  /\ holders = [k \in Keys |-> 0]

Busy(k) == holders[k] > 0

Goto(s, l) == pc' = [pc EXCEPT ![s] = l]

(* A caller enters StartWorkflow with a trigger event.                     *)
StartWorkflow(s) ==
  /\ pc[s] = "idle"
  /\ Goto(s, "calling")
  /\ UNCHANGED <<key, policy, holders>>

(* May the caller enter now?  "for t.holders[key] > 0" for queue, the same *)
(* test once for drop, no test for overlap.                                *)
Admits_WaitOnce(s) == pc[s] = "woken" \/ policy[s] = "overlap" \/ ~Busy(key[s])
Admits(s) == policy[s] \in Exclusive => ~Busy(key[s])

(* t.holders[key]++                                                        *)
Entered_DropUncounted(s) ==
  IF policy[s] = "drop" THEN holders ELSE [holders EXCEPT ![key[s]] = @ + 1]
Entered(s) == [holders EXCEPT ![key[s]] = @ + 1]

(* Acquire succeeds: at once for overlap, on a free lane for drop, and for *)
(* queue on a free lane, whether the caller just arrived or was woken.     *)
Acquire(s) ==
  /\ pc[s] \in {"calling", "woken"}
  /\ Admits(s)
  /\ holders' = Entered(s)
  /\ Goto(s, "running")
  /\ UNCHANGED <<key, policy>>

(* Acquire returns ErrDropConcurrency: policy drop on a busy lane.         *)
Refuse(s) ==
  /\ pc[s] = "calling"
  /\ policy[s] = "drop"
  /\ Busy(key[s])
  /\ Goto(s, "dropped")
  /\ UNCHANGED <<key, policy, holders>>

(* The loop around Cond.Wait: policy queue on a busy lane parks.           *)
Park(s) ==
  /\ pc[s] \in {"calling", "woken"}
  /\ policy[s] = "queue"
  /\ Busy(key[s])
  /\ Goto(s, "parked")
  /\ UNCHANGED <<key, policy, holders>>

(* e.run returned in the execution's goroutine.                            *)
RunReturns(s) ==
  /\ pc[s] = "running"
  /\ Goto(s, "returned")
  /\ UNCHANGED <<key, policy, holders>>

(* One holder fewer, never below zero.                                     *)
Left_Leaked(s) == holders
Left_Twice(s) == [holders EXCEPT ![key[s]] = @ - 2]
Left(s) == [holders EXCEPT ![key[s]] = IF @ > 0 THEN @ - 1 ELSE 0]

(* Broadcast wakes every parked start, of this lane or of another.         *)
Broadcast_None(l) == l
Broadcast(l) == IF l = "parked" THEN "woken" ELSE l

Release(s) ==
  /\ pc[s] = "returned"
  /\ holders' = Left(s)
  /\ pc' = [t \in Starts |-> IF t = s THEN "done" ELSE Broadcast(pc[t])]
  /\ UNCHANGED <<key, policy>>

Call(s) == Acquire(s) \/ Refuse(s) \/ Park(s)

Terminated ==
  /\ \A s \in Starts : pc[s] \in {"done", "dropped"}
  /\ UNCHANGED vars

Next ==
  \/ \E s \in Starts : StartWorkflow(s)
  \/ \E s \in Starts : Call(s)
  \/ \E s \in Starts : RunReturns(s)
  \/ \E s \in Starts : Release(s)
  \/ Terminated

(* A goroutine that can take the mutex does so, an execution returns (its  *)
(* human steps have a timeout and its activities a deadline), and the next *)
(* statement of its goroutine is Release.                                  *)
Fairness ==
  \A s \in Starts :
    WF_vars(Call(s)) /\ WF_vars(RunReturns(s)) /\ WF_vars(Release(s))

Spec == Init /\ [][Next]_vars

FairSpec == Spec /\ Fairness

-----------------------------------------------------------------------------
(* The executions that hold their lane.                                    *)
InFlight(k) == {s \in Starts : key[s] = k /\ pc[s] \in {"running", "returned"}}

(* The holder count of a lane is the number of executions in flight in it: *)
(* Acquire and Release pair up, and the clamp at zero in Release is never  *)
(* what keeps the count from going wrong.                                  *)
HoldersExact == \A k \in Keys : holders[k] = Cardinality(InFlight(k))

(* Two executions whose triggers ask for queue or drop are never in flight *)
(* together in one lane, however starts with other policies come between.  *)
LaneSerial ==
  \A s, t \in Starts :
    /\ s # t
    /\ key[s] = key[t]
    /\ policy[s] \in Exclusive
    /\ policy[t] \in Exclusive
    /\ pc[s] \in {"running", "returned"}
    => pc[t] \notin {"running", "returned"}

(* No lost wake-up: while a start is parked, some execution of its lane is *)
(* still to release it.                                                    *)
NoLostWakeup ==
  \A s \in Starts : pc[s] = "parked" => InFlight(key[s]) # {}

(* The abstract lane a start is in: the mutex and the condition variable   *)
(* are not observable, and the lane is taken until Release.                *)
StageOf(l) ==
  CASE l = "idle"    -> "new"
    [] l = "done"    -> "over"
    [] l = "dropped" -> "refused"
    [] l \in {"running", "returned"} -> "running"
    [] OTHER         -> "pending"

Lane == INSTANCE LaneService WITH stage <- [s \in Starts |-> StageOf(pc[s])]

(* The tracker implements the promise of LaneService: the counter decides  *)
(* admission exactly as the set of executions in flight would.             *)
ImplementsLanes == Lane!Spec

(* ... and its liveness, from goroutines that are only weakly fair.        *)
ImplementsLanesFairly == Lane!FairSpec

=============================================================================
