------------------------------ MODULE Symptoms ------------------------------
(***************************************************************************)
(* From the emitters of symptoms to the triager that consumes them: the     *)
(* probes, the metric thresholds, the log patterns and the two webhook      *)
(* receivers publish on one topic, with keys of one partition here; the     *)
(* triager validates each event, sends what it rejects to a dead-letter     *)
(* topic and opens an agent session for what is severe.  A publication that *)
(* fails is only logged.  The triager's consumer commits the batches before *)
(* the one it works on, so that a stop repeats the latter.                  *)
(***************************************************************************)
EXTENDS Naturals, Sequences, FiniteSets

CONSTANTS Probes, ProbeSeverity, Debounce,  \* the registry of the probes
          Rules, RuleSignal, RuleSeverity,  \* the thresholds, configured with these
          LogClass,    \* the error class of the log rule, "" for none
          BufSize,     \* events the log emitter holds (512 in the code)
          MaxMade,     \* bound: events made in a behaviour
          MaxStops     \* bound: stops of an emitter or of the triager

VARIABLES checks,    \* history: the last Debounce checks of each probe
          up, streak,       \* the state of each probe
          firing,           \* the state of each rule
          waiting, dropped, \* the log emitter's buffer and its overflow counter
          made,             \* history: for each event made, its emitter
          missing,          \* history: the events that reached no topic
          feed,             \* the topic forge.symptoms.v1
          committed, from, upto, at,  \* the triager's offsets: batch and position
          spawning,         \* SESSION_SPAWNING_ENABLED
          dead,             \* events on the dead-letter topic
          decided,          \* history: the decisions taken about each event
          opened,           \* history: sessions opened for each event
          stops

emitters == <<checks, up, streak, firing, waiting, dropped>>
log      == <<made, missing, feed>>
triager  == <<committed, from, upto, at, spawning, dead, decided, opened>>
symptoms == <<emitters, log, triager, stops>>

Dimensions == <<"error_class", "port", "route", "service", "signal", "tenant", "workspace">>
Known == {"probe-failed", "probe-recovered", "log-pattern", "metric-threshold",
          "ci-failure", "webhook"}
Levels == {"low", "medium", "high", "critical"}
Decisions == {"rejected", "log_only", "spawn_session"}

Event(emitter, signal, severity, dims) ==
    [id |-> Len(made) + 1, emitter |-> emitter, signal |-> signal,
     severity |-> severity, dims |-> dims]

TypeOK ==
    /\ up \in [Probes -> BOOLEAN] /\ streak \in [Probes -> 0..Debounce]
    /\ firing \in [Rules -> BOOLEAN]
    /\ Len(waiting) <= BufSize /\ dropped \in 0..MaxMade
    /\ Len(made) <= MaxMade /\ missing \subseteq 1..MaxMade
    /\ committed <= from /\ from <= at /\ at <= upto /\ upto <= Len(feed)
    /\ spawning \in BOOLEAN /\ dead \subseteq 1..MaxMade
    /\ decided \in [1..MaxMade -> SUBSET Decisions]
    /\ opened \in [1..MaxMade -> Nat] /\ stops \in 0..MaxStops

Init ==
    /\ checks = [p \in Probes |-> <<>>]
    /\ up = [p \in Probes |-> TRUE] /\ streak = [p \in Probes |-> 0]
    /\ firing = [r \in Rules |-> FALSE]
    /\ waiting = <<>> /\ dropped = 0
    /\ made = <<>> /\ missing = {} /\ feed = <<>>
    /\ committed = 0 /\ from = 0 /\ upto = 0 /\ at = 0
    /\ spawning \in BOOLEAN
    /\ dead = {} /\ decided = [i \in 1..MaxMade |-> {}] /\ opened = [i \in 1..MaxMade |-> 0]
    /\ stops = 0

-----------------------------------------------------------------------------
(* The emitters. *)

Made(e) == Len(made) < MaxMade /\ made' = Append(made, e.emitter)

\* ProduceSync: its error is logged and the event is gone.
Publish(e) ==
    \/ feed' = Append(feed, e) /\ UNCHANGED missing
    \/ missing' = missing \cup {e.id} /\ UNCHANGED feed

Emit(e) == Made(e) /\ Publish(e)

\* Failures in a row, counted up to Debounce.
Streak_NoReset(p, ok) ==
    IF ok /\ ~up[p] THEN 0
    ELSE IF ok \/ streak[p] = Debounce THEN streak[p] ELSE streak[p] + 1
Streak(p, ok) ==
    IF ok THEN 0 ELSE IF streak[p] = Debounce THEN Debounce ELSE streak[p] + 1

\* The state of a probe turns before its event is published.
Check(p) ==
    /\ \E ok \in BOOLEAN :
          LET turn == IF ok THEN ~up[p] ELSE up[p] /\ Streak(p, ok) >= Debounce
              kept == IF Len(checks[p]) = Debounce THEN Tail(checks[p]) ELSE checks[p]
          IN  /\ streak' = [streak EXCEPT ![p] = Streak(p, ok)]
              /\ checks' = [checks EXCEPT ![p] = Append(kept, ok)]
              /\ up' = [up EXCEPT ![p] = IF turn THEN ok ELSE @]
              /\ IF turn
                 THEN Emit(Event("probe", IF ok THEN "probe-recovered" ELSE "probe-failed",
                                 ProbeSeverity, <<"service", "signal">>))
                 ELSE UNCHANGED log
    /\ UNCHANGED <<firing, waiting, dropped, triager, stops>>

\* A query that fails leaves the rule as it was.
Query(r) ==
    /\ \E now \in BOOLEAN :
          /\ firing' = [firing EXCEPT ![r] = now]
          /\ IF now = firing[r] THEN UNCHANGED log
             ELSE Emit(Event("metrics", IF now THEN RuleSignal ELSE RuleSignal \o "-recovered",
                             RuleSeverity, <<"service", "signal">>))
    /\ UNCHANGED <<checks, up, streak, waiting, dropped, triager, stops>>

\* Build: the named dimensions that have a value, in order.
Build(named) == SelectSeq(Dimensions, LAMBDA d : d \in named)

\* Emit of the log emitter never waits: a full buffer drops the event.
HasRoom_OneMore == Len(waiting) <= BufSize
HasRoom         == Len(waiting) < BufSize

Offer(e) ==
    \/ /\ HasRoom
       /\ waiting' = Append(waiting, e) /\ UNCHANGED <<dropped, missing>>
    \/ /\ ~HasRoom
       /\ dropped' = dropped + 1 /\ missing' = missing \cup {e.id} /\ UNCHANGED waiting

Tick ==
    LET e == Event("logs", "log-pattern", "high",
                   Build({"service", "signal"} \cup (IF LogClass = "" THEN {} ELSE {"error_class"})))
    IN  /\ Made(e) /\ Offer(e)
        /\ UNCHANGED <<checks, up, streak, firing, feed, triager, stops>>

Drain ==
    /\ waiting # <<>>
    /\ waiting' = Tail(waiting) /\ Publish(Head(waiting))
    /\ UNCHANGED <<checks, up, streak, firing, dropped, made, triager, stops>>

\* A run of GitHub that completed in failure, by its kind.
CI ==
    /\ \E kind \in {"check", "workflow"}, name \in {"", "unit"}, action \in {"completed", "created"},
          conclusion \in {"success", "failure", "timed_out"} :
          /\ action = "completed" /\ conclusion \in {"failure", "timed_out"}
          /\ Emit(Event("ci", "ci-" \o kind \o "-failed", "warning",
                        Build({"service", "signal"} \cup (IF name = "" THEN {} ELSE {"route"}))))
    /\ UNCHANGED <<emitters, triager, stops>>

Linear ==
    /\ \E action \in {"create", "update"}, started, labelled \in BOOLEAN :
          /\ action = "create" \/ started \/ labelled
          /\ Emit(Event("webhook", "linear-issue", "warning", <<"service", "signal">>))
    /\ UNCHANGED <<emitters, triager, stops>>

PagerDuty ==
    /\ \E event \in {"incident.trigger", "incident.escalate", "incident.resolve"}, urgent \in BOOLEAN :
          /\ event # "incident.resolve"
          /\ Emit(Event("webhook", "pagerduty-incident", IF urgent THEN "critical" ELSE "warning",
                        <<"service", "signal">>))
    /\ UNCHANGED <<emitters, triager, stops>>

Slack ==
    /\ \E command, mention \in BOOLEAN :
          /\ command \/ mention
          /\ Emit(Event("webhook", "slack-alert-mention", "warning", <<"service", "signal">>))
    /\ UNCHANGED <<emitters, triager, stops>>

\* A killed log emitter loses its buffer; one that is told to stop drains it first.
Restart(emitter) ==
    /\ stops < MaxStops /\ stops' = stops + 1
    /\ CASE emitter = "probe" ->
              /\ up' = [p \in Probes |-> TRUE] /\ streak' = [p \in Probes |-> 0]
              /\ checks' = [p \in Probes |-> <<>>]
              /\ UNCHANGED <<firing, waiting, dropped, missing>>
         [] emitter = "metrics" ->
              /\ firing' = [r \in Rules |-> FALSE]
              /\ UNCHANGED <<checks, up, streak, waiting, dropped, missing>>
         [] emitter = "logs" ->
              /\ missing' = missing \cup {waiting[i].id : i \in DOMAIN waiting}
              /\ waiting' = <<>> /\ dropped' = 0
              /\ UNCHANGED <<checks, up, streak, firing>>
    /\ UNCHANGED <<made, feed, triager>>

-----------------------------------------------------------------------------
(* The triager. *)

Rank(d) == CHOOSE i \in DOMAIN Dimensions : Dimensions[i] = d

\* validateFingerprint: known, each once, in order, with the two required.
Canonical(dims) ==
    LET there == {dims[i] : i \in DOMAIN dims}
    IN  /\ {"service", "signal"} \subseteq there
        /\ there \subseteq {Dimensions[i] : i \in DOMAIN Dimensions}
        /\ \A i, j \in DOMAIN dims : i < j => Rank(dims[i]) < Rank(dims[j])

Valid(e) == e.signal \in Known /\ e.severity \in Levels /\ Canonical(e.dims)
Severe(e) == e.severity \in {"high", "critical"}

Fetch ==
    /\ at = upto /\ upto < Len(feed)
    /\ from' = upto /\ \E n \in (upto + 1)..Len(feed) : upto' = n
    /\ UNCHANGED <<emitters, log, committed, at, spawning, dead, decided, opened, stops>>

\* The consumer commits on its own, what was handed out before this batch.
Commit ==
    /\ committed < from /\ committed' = from
    /\ UNCHANGED <<emitters, log, from, upto, at, spawning, dead, decided, opened, stops>>

Decide(decision) ==
    /\ decided' = [decided EXCEPT ![feed[at + 1].id] = @ \cup {decision}]
    /\ at' = at + 1
    /\ UNCHANGED <<emitters, log, committed, from, upto, spawning, stops>>

\* A dead letter that cannot be sent is only logged.
Reject ==
    /\ at < upto /\ ~Valid(feed[at + 1])
    /\ dead' \in {dead, dead \cup {feed[at + 1].id}}
    /\ Decide("rejected") /\ UNCHANGED opened

Note ==
    /\ at < upto /\ Valid(feed[at + 1])
    /\ ~spawning \/ ~Severe(feed[at + 1])
    /\ Decide("log_only") /\ UNCHANGED <<dead, opened>>

\* Alfred may have opened the session although its answer is an error here.
Spawn ==
    /\ at < upto /\ Valid(feed[at + 1])
    /\ spawning /\ Severe(feed[at + 1])
    /\ \E session, answered \in BOOLEAN :
          /\ answered => session
          /\ opened' = [opened EXCEPT ![feed[at + 1].id] = @ + (IF session THEN 1 ELSE 0)]
          /\ Decide(IF answered THEN "spawn_session" ELSE "log_only")
    /\ UNCHANGED dead

\* A stop may come after the session is opened and before anything is noted.
Stop ==
    /\ stops < MaxStops /\ stops' = stops + 1
    /\ from' = committed /\ upto' = committed /\ at' = committed
    /\ \/ UNCHANGED opened
       \/ /\ at < upto /\ Valid(feed[at + 1]) /\ spawning /\ Severe(feed[at + 1])
          /\ opened' = [opened EXCEPT ![feed[at + 1].id] = @ + 1]
    /\ UNCHANGED <<emitters, log, committed, spawning, dead, decided>>

Next ==
    \/ \E p \in Probes : Check(p)
    \/ \E r \in Rules : Query(r)
    \/ Tick \/ Drain \/ CI \/ Linear \/ PagerDuty \/ Slack
    \/ \E e \in {"probe", "metrics", "logs"} : Restart(e)
    \/ Fetch \/ Commit \/ Reject \/ Note \/ Spawn \/ Stop

Spec == Init /\ [][Next]_symptoms

-----------------------------------------------------------------------------
(* Runner.check: a probe counts as down exactly when its last Debounce       *)
(* checks since the start all failed, whatever became of its events.         *)
ProbesSettle ==
    \A p \in Probes :
        up[p] = ~(Len(checks[p]) = Debounce /\ \A i \in 1..Debounce : ~checks[p][i])

(* Every event made is on the topic, in the log emitter's buffer or among    *)
(* the missing, and in one of these only; the log emitter keeps its order.   *)
EventsAccounted ==
    LET held == feed \o waiting
        ids  == {held[i].id : i \in DOMAIN held}
    IN  /\ ids \cup missing = DOMAIN made /\ ids \cap missing = {}
        /\ Cardinality(ids) = Len(held)
        /\ \A i, j \in DOMAIN held :
              i < j /\ held[i].emitter = "logs" /\ held[j].emitter = "logs" => held[i].id < held[j].id

(* Whatever is committed was decided; a session belongs to an event that is  *)
(* valid and severe, and there are more of them than one only after a stop;  *)
(* what is decided otherwise had no answer from Alfred.                      *)
TriagedOnce ==
    /\ \A i \in 1..at : decided[feed[i].id] # {}
    /\ \A i \in DOMAIN feed :
          LET e == feed[i]
          IN  /\ opened[e.id] > 0 => spawning /\ Valid(e) /\ Severe(e)
              /\ opened[e.id] <= 1 + stops
              /\ e.id \in dead => decided[e.id] = {"rejected"}
              /\ "spawn_session" \in decided[e.id] => opened[e.id] > 0

SymptomsSound == ProbesSettle /\ EventsAccounted /\ TriagedOnce
=============================================================================
