----------------------------- MODULE AlfredLoop -----------------------------
(***************************************************************************)
(* One intent run by Alfred (services/alfred, loop.py): the model proposes  *)
(* an action, permissions and policy are asked for it, the tool is invoked  *)
(* and the outcome recorded, a step and an await at a time. The guardrails, *)
(* one for the process, count the suspicious chunks of every intent         *)
(* (guardrails.py).                                                         *)
(***************************************************************************)
EXTENDS Naturals, Sequences, FiniteSets, SequencesExt

CONSTANTS
    MaxIterations,
    Hour,            \* the length of the window of trips
    Threshold,       \* _INJECTION_PAGE_THRESHOLD
    MaxQueue,        \* _MAX_REVIEW_QUEUE
    MaxTrips,        \* bound: trips
    MaxHours         \* bound: the clock

VARIABLES
    stage,           \* where the run is
    round,           \* its iteration
    delegated,       \* the permission Alfred has
    ran,             \* history: [at, delegated, policy] of every tool invoked
    records,         \* outcomes in the decision log, by their iteration
    told,            \* iterations the specification's log was told of
    answer,          \* what the run ended with
    trips,           \* GuardrailMetrics._injection_window: times of trips
    waiting,         \* _review_queue
    pages,           \* history: the times security was paged
    tripped,         \* history: the times of all trips
    wall             \* the clock

run == <<stage, round, delegated, ran, records, told, answer>>
guard == <<trips, waiting, pages, tripped, wall>>
alfred == <<run, guard>>

None == "none"
Outcomes == {"succeeded", "failed", "pending", "approved"}
Policies == {"allow", "deny", "requires_approval"}

Init ==
    /\ stage = [at |-> "retrieve"] /\ round = 0 /\ delegated = TRUE
    /\ ran = {} /\ records = <<>> /\ told = {} /\ answer = None
    /\ trips = <<>> /\ waiting = <<>> /\ pages = {} /\ tripped = <<>> /\ wall = 0

Log(outcome) == records' = Append(records, [at |-> round, outcome |-> outcome])
End(with) == stage' = [at |-> "done"] /\ answer' = with

(* The model does not answer or the log takes no record: an exception.      *)
StoreFails ==
    /\ stage.at \in {"retrieve", "ask", "permission", "policy", "approval", "record"}
    /\ End("error")
    /\ UNCHANGED <<round, delegated, ran, records, told, guard>>

(* The retrieval of chunks and its record; what the guardrails find in the  *)
(* chunks, they count (Trip).                                               *)
Retrieve ==
    /\ stage.at = "retrieve"
    /\ Log("succeeded")
    /\ stage' = [at |-> "ask"]
    /\ UNCHANGED <<round, delegated, ran, told, answer, guard>>

(* chat: a final answer, also what cannot be parsed, or an action.          *)
Final ==
    /\ stage.at = "ask" /\ round < MaxIterations
    /\ Log("succeeded") /\ End("final")
    /\ UNCHANGED <<round, delegated, ran, told, guard>>

Propose ==
    /\ stage.at = "ask" /\ round < MaxIterations
    /\ stage' = [at |-> "permission"]
    /\ UNCHANGED <<round, delegated, ran, records, told, answer, guard>>

Exhausted ==
    /\ stage.at = "ask" /\ round = MaxIterations
    /\ End("max iterations")
    /\ UNCHANGED <<round, delegated, ran, records, told, guard>>

(* PermissionsClient.can: any failure of the service counts as a no.        *)
Allowed(reached)       == delegated /\ reached

Permission(reached) ==
    /\ stage.at = "permission"
    /\ IF Allowed(reached)
       THEN stage' = [at |-> "policy"] /\ UNCHANGED <<records, answer>>
       ELSE Log("failed") /\ End("no permission")
    /\ UNCHANGED <<round, delegated, ran, told, guard>>

(* PolicyClient.evaluate: any failure of the service counts as a yes.       *)
Judged(policy, reached) == IF reached THEN policy ELSE "allow"

Policy(policy, reached) ==
    LET decision == Judged(policy, reached)
    IN  /\ stage.at = "policy"
        /\ CASE decision = "deny" -> Log("failed") /\ End("denied")
             [] decision = "requires_approval" ->
                    stage' = [at |-> "approval"] /\ UNCHANGED <<records, answer>>
             [] decision = "allow" ->
                    stage' = [at |-> "invoke", policy |-> IF reached THEN "allow" ELSE "unreached"]
                    /\ UNCHANGED <<records, answer>>
        /\ UNCHANGED <<round, delegated, ran, told, guard>>

(* The request for an approval ends the run whatever is answered to it.     *)
Request(status) ==
    /\ stage.at = "approval"
    /\ Log(IF status = "approved" THEN "approved" ELSE "pending") /\ End("halted")
    /\ UNCHANGED <<round, delegated, ran, told, guard>>

(* The tool, which may fail.                                                *)
Invoke(outcome) ==
    /\ stage.at = "invoke" /\ outcome \in {"succeeded", "failed"}
    /\ ran' = ran \cup {[at |-> round, delegated |-> delegated, policy |-> stage.policy]}
    /\ stage' = [at |-> "record", outcome |-> outcome]
    /\ UNCHANGED <<round, delegated, records, told, answer, guard>>

(* The record, then the log of the specification, which may not be reached. *)
Record(reached) ==
    /\ stage.at = "record"
    /\ Log(stage.outcome)
    /\ told' = IF reached THEN told \cup {round} ELSE told
    /\ round' = round + 1
    /\ stage' = [at |-> "ask"]
    /\ UNCHANGED <<delegated, ran, answer, guard>>

Revoke ==
    /\ delegated /\ stage.at # "done"
    /\ delegated' = FALSE
    /\ UNCHANGED <<stage, round, ran, records, told, answer, guard>>

-----------------------------------------------------------------------------
(* injection_trips_last_hour, after the trip of this moment: what is more   *)
(* than an hour old is taken off the front.                                 *)
Recent(ts) ==
    LET first == CHOOSE i \in DOMAIN ts :
                    /\ ts[i] + Hour >= wall
                    /\ \A j \in 1..i - 1 : ts[j] + Hour < wall
    IN  SubSeq(ts, first, Len(ts))
Exceeds_At(n) == n >= Threshold
Exceeds(n)    == n > Threshold

Trip ==
    /\ Len(tripped) < MaxTrips
    /\ LET now == Recent(Append(trips, wall))
       IN  /\ trips' = now
           /\ pages' = IF Exceeds(Len(now)) THEN pages \cup {wall} ELSE pages
    /\ waiting' = LET all == Append(waiting, wall)
                  IN  IF Len(all) > MaxQueue THEN Tail(all) ELSE all
    /\ tripped' = Append(tripped, wall)
    /\ UNCHANGED <<run, wall>>

Tick ==
    /\ wall < MaxHours
    /\ wall' = wall + 1
    /\ UNCHANGED <<run, trips, waiting, pages, tripped>>

Next ==
    \/ Retrieve \/ Final \/ Propose \/ Exhausted
    \/ \E reached \in BOOLEAN : Permission(reached)
    \/ \E policy \in Policies, reached \in BOOLEAN : Policy(policy, reached)
    \/ \E status \in {"pending", "approved", "error"} : Request(status)
    \/ \E outcome \in {"succeeded", "failed"} : Invoke(outcome)
    \/ \E reached \in BOOLEAN : Record(reached)
    \/ StoreFails
    \/ Revoke
    \/ Trip
    \/ Tick

Spec == Init /\ [][Next]_alfred

-----------------------------------------------------------------------------
TypeOK ==
    /\ stage.at \in {"retrieve", "ask", "permission", "policy", "approval", "invoke",
                     "record", "done"}
    /\ round \in 0..MaxIterations /\ delegated \in BOOLEAN
    /\ ran \subseteq [at : 0..MaxIterations, delegated : BOOLEAN, policy : {"allow", "unreached"}]
    /\ \A i \in DOMAIN records : records[i] \in [at : 0..MaxIterations, outcome : Outcomes]
    /\ told \subseteq 0..MaxIterations
    /\ trips \in Seq(0..MaxHours) /\ waiting \in Seq(0..MaxHours) /\ pages \subseteq 0..MaxHours

(* Of the tools a run invoked, at most one found the delegation revoked:    *)
(* the one whose permission had been read before; none goes without its     *)
(* record but the last, when the log failed and ended the run; and a run    *)
(* that was halted, denied or not permitted ended in the iteration it was,  *)
(* so what needs an approval is not invoked (run_intent).                   *)
RunsPermitted ==
    LET invoked == {r.at : r \in ran}
        recorded == {records[i].at : i \in {j \in DOMAIN records : j > 1}}
    IN  /\ Cardinality({r \in ran : ~r.delegated}) <= 1
        /\ Cardinality(ran) = Cardinality(invoked)
        /\ Cardinality(invoked \ recorded) <= 1
        /\ invoked \subseteq recorded \/ stage.at = "record" \/ answer = "error"
        /\ told \subseteq invoked \cap recorded
        /\ answer \in {"halted", "denied", "no permission"} =>
              round \notin invoked /\ records # <<>> /\ Last(records).at = round

(* Security was paged at exactly the trips that were more than the          *)
(* threshold within the hour, and the review queue holds the newest         *)
(* (Guardrails._emit).                                                      *)
PagesOnTime ==
    LET Within(i) == Cardinality({j \in 1..i : tripped[j] + Hour >= tripped[i]})
        n == Len(tripped)
    IN  /\ pages = {tripped[i] : i \in {j \in 1..n : Within(j) > Threshold}}
        /\ waiting = SubSeq(tripped, IF n > MaxQueue THEN n - MaxQueue + 1 ELSE 1, n)

LoopSound == RunsPermitted /\ PagesOnTime
=============================================================================
