--------------------------- MODULE TriggerDispatch ---------------------------
(***************************************************************************)
(* trigger-router's Dispatcher.Fire and HTTPRuntimeClient.StartExecution,  *)
(* composed with the lanes of workflow-runtime.  A firing posts to the     *)
(* runtime up to MaxAttempts times: a network error, a timeout or a 5xx is *)
(* followed by another attempt, a 2xx, a 409 or any other answer ends the  *)
(* firing, and exactly one event is emitted for it.                        *)
(*                                                                         *)
(* Every attempt is a start of its own for the runtime, which does not     *)
(* cancel a request whose client went away (context.WithoutCancel).        *)
(*                                                                         *)
(* The two ends do not agree on the request between them.  dispatch.go     *)
(* posts a workflow id and a trigger event and expects 409 for a start     *)
(* that the drop policy refuses; the runtime's engine takes both, but its  *)
(* POST handler decodes neither, answers 400 to a body without a workflow, *)
(* and writeError has no case for the refusal.  Runtimes holds the         *)
(* handlers considered: the one as built and the ones the documents ask.   *)
(***************************************************************************)
EXTENDS Naturals, FiniteSets

CONSTANTS
  Fires,        \* firings of triggers: a hook, a cron instant, a message
  Lanes,        \* the (workflow id, trigger id) pairs they belong to
  MaxAttempts,
  Runtimes      \* handlers: do they accept a trigger-originated start, and
                \* what status has a start that the engine refuses?

ASSUME RuntimesAssumption ==
  Runtimes \subseteq [accepts : BOOLEAN, refusal : {400, 409}]
AsBuilt       == [accepts |-> FALSE, refusal |-> 400]
Documented    == [accepts |-> TRUE, refusal |-> 409]
StatusMissing == [accepts |-> TRUE, refusal |-> 400]
AllHandlers   == {AsBuilt, Documented, StatusMissing}
BuiltOnly     == {AsBuilt}

ASSUME AttemptsAssumption == MaxAttempts \in Nat \ {0}

Attempts == Fires \X (1..MaxAttempts)

VARIABLES
  stage,   \* where Fire stands
  tries,   \* the attempts made
  event,   \* the trigger event emitted for the firing
  dead,    \* the firings recorded in the dead-letter sink
  handler, \* the runtime's POST /v1/executions
  pc, key, policy, holders  \* the tracker's, one start per attempt

routerVars == <<stage, tries, event, dead, handler>>
laneVars == <<pc, key, policy, holders>>
vars == <<routerVars, laneVars>>

Runtime == INSTANCE TriggerLanes WITH Starts <- Attempts, Keys <- Lanes

Stages == {"ready", "posting", "awaiting", "over"}
Events == {"none", "fired", "dropped", "failed"}

TypeOK ==
  /\ stage \in [Fires -> Stages]
  /\ tries \in [Fires -> 0..MaxAttempts]
  /\ event \in [Fires -> Events]
  /\ dead \subseteq Fires
  /\ handler \in Runtimes
  /\ Runtime!TypeOK

(* The attempts of a firing carry the same trigger and policy.             *)
Init ==
  /\ stage = [f \in Fires |-> "ready"]
  /\ tries = [f \in Fires |-> 0]
  /\ event = [f \in Fires |-> "none"]
  /\ dead = {}
  /\ handler \in Runtimes
  /\ Runtime!Init
  /\ \A f \in Fires : \A i \in 1..MaxAttempts :
       key[<<f, i>>] = key[<<f, 1>>] /\ policy[<<f, i>>] = policy[<<f, 1>>]

Attempt(f) == <<f, tries[f]>>

Fire(f) ==
  /\ stage[f] = "ready"
  /\ stage' = [stage EXCEPT ![f] = "posting"]
  /\ UNCHANGED <<tries, event, dead, handler, laneVars>>

Emit(f, e) ==
  /\ stage' = [stage EXCEPT ![f] = "over"]
  /\ event' = [event EXCEPT ![f] = e]

Exhausted_Early(n) == n >= MaxAttempts - 1
Exhausted_Over(n) == n > MaxAttempts
Exhausted(n) == n >= MaxAttempts

DeadLetter(f) == dead \union {f}

(* "lastErr = err; waitBackoff(i); continue", and after the last attempt   *)
(* the failed event and the dead letter.                                   *)
AttemptFailed(f, n) ==
  IF Exhausted(n)
    THEN Emit(f, "failed") /\ dead' = DeadLetter(f)
    ELSE /\ stage' = [stage EXCEPT ![f] = "posting"]
         /\ UNCHANGED <<event, dead>>

(* The request reaches the runtime's engine ...                            *)
Post(f) ==
  /\ stage[f] = "posting"
  /\ handler.accepts
  /\ tries' = [tries EXCEPT ![f] = @ + 1]
  /\ Runtime!StartWorkflow(<<f, tries[f] + 1>>)
  /\ stage' = [stage EXCEPT ![f] = "awaiting"]
  /\ UNCHANGED <<event, dead, handler>>

(* ... or never does.                                                      *)
PostLost(f) ==
  /\ stage[f] = "posting"
  /\ tries' = [tries EXCEPT ![f] = @ + 1]
  /\ AttemptFailed(f, tries[f] + 1)
  /\ UNCHANGED <<handler, laneVars>>

Started == {"running", "returned", "done"}

(* The runtime goes on with a request whose client is gone.                *)
Abandon_Cancels(f) ==
  /\ pc' = [pc EXCEPT ![Attempt(f)] = IF @ \in Started THEN "done" ELSE @]
  /\ UNCHANGED <<key, policy, holders>>
Abandon(f) == UNCHANGED laneVars

(* The client gives up on an attempt: its ten seconds are over, the answer *)
(* is lost, or it is a 5xx.                                                *)
GiveUp(f) ==
  /\ stage[f] = "awaiting"
  /\ AttemptFailed(f, tries[f])
  /\ Abandon(f)
  /\ UNCHANGED <<tries, handler>>

(* 2xx: the execution was created.                                         *)
Accepted(f) ==
  /\ stage[f] = "awaiting"
  /\ pc[Attempt(f)] \in Started
  /\ Emit(f, "fired")
  /\ UNCHANGED <<tries, dead, handler, laneVars>>

(* 409 is ErrDropConcurrency, reported as dropped and not dead-lettered;   *)
(* any other 4xx fails without a retry.                                    *)
RefusalEvent_Silent(status) == "none"
RefusalEvent(status) == IF status = 409 THEN "dropped" ELSE "failed"

Refused(f) ==
  /\ stage[f] = "awaiting"
  /\ pc[Attempt(f)] = "dropped"
  /\ Emit(f, RefusalEvent(handler.refusal))
  /\ dead' = IF handler.refusal = 409 THEN dead ELSE DeadLetter(f)
  /\ UNCHANGED <<tries, handler, laneVars>>

(* A 4xx for a request the handler does not pass to the engine, such as    *)
(* workflow_required.                                                      *)
Rejected(f) ==
  /\ stage[f] = "posting"
  /\ tries' = [tries EXCEPT ![f] = @ + 1]
  /\ Emit(f, "failed")
  /\ dead' = DeadLetter(f)
  /\ UNCHANGED <<handler, laneVars>>

RuntimeStep(a) ==
  /\ Runtime!Call(a) \/ Runtime!RunReturns(a) \/ Runtime!Release(a)
  /\ UNCHANGED routerVars

Client(f) ==
  PostLost(f) \/ Post(f) \/ GiveUp(f) \/ Accepted(f) \/ Refused(f) \/ Rejected(f)

Next ==
  \/ \E f \in Fires : Fire(f) \/ Client(f)
  \/ \E a \in Attempts : RuntimeStep(a)

Spec == Init /\ [][Next]_vars

(* The client always gets an answer or an error (its timeout is finite),   *)
(* and the runtime's goroutines are scheduled.                             *)
FairSpec ==
  /\ Spec
  /\ \A f \in Fires : WF_vars(Client(f))
  /\ \A a \in Attempts :
       /\ WF_vars(Runtime!Call(a) /\ UNCHANGED routerVars)
       /\ WF_vars(Runtime!RunReturns(a) /\ UNCHANGED routerVars)
       /\ WF_vars(Runtime!Release(a) /\ UNCHANGED routerVars)

-----------------------------------------------------------------------------
Executions(f) == {i \in 1..MaxAttempts : pc[<<f, i>>] \in Started}

(* The event agrees with the answers the firing had: fired only if an      *)
(* execution exists, dropped only if the runtime refused an attempt,       *)
(* failed exactly for the firings in the dead-letter sink, and no firing   *)
(* is given up before its last attempt unless the runtime rejected it.     *)
EventsFollowAnswers ==
  \A f \in Fires :
    /\ event[f] = "fired" => Executions(f) # {}
    /\ event[f] = "dropped" => \E i \in 1..MaxAttempts : pc[<<f, i>>] = "dropped"
    /\ event[f] = "failed" <=> f \in dead
    /\ event[f] = "failed" /\ tries[f] < MaxAttempts =>
         pc[Attempt(f)] \in {"idle", "dropped"}

(* An attempt the client gave up still holds its place: the runtime serves *)
(* it in its turn, and no start, of a retry of the same firing or of       *)
(* another, waits for ever behind one nobody listens to any more.          *)
EveryAttemptServed ==
  \A a \in Attempts :
    pc[a] \in {"calling", "parked", "woken"} ~> pc[a] \in {"done", "dropped"}

(* Every firing is reported, whatever is lost.                             *)
EveryFireReported ==
  \A f \in Fires : stage[f] = "posting" ~> event[f] # "none"
=============================================================================
