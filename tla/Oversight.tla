------------------------------ MODULE Oversight ------------------------------
(***************************************************************************)
(* The services that say what may be done and see what went wrong, each    *)
(* over state of its own: the control plane, approvals, policy overrides,  *)
(* audit, platform operations, deployment policies, the gateways, the      *)
(* incidents, the symptoms and the loop of Alfred with its guardrails.     *)
(***************************************************************************)
EXTENDS Integers, Sequences, FiniteSets

CONSTANTS
    Subjects, Username, Roles, Owners, Tenants, Units, Spaces,
    Approvals, MaxCrashes,
    Overrides, MaxTTL, MaxTime,
    Consumers, Partitions, Times, MaxKills,
    NoiseRules,
    Deployments, Freezes, HoursADay, RuleSets, SDLCGates, Criticalities,
    MaxApproved,
    Calls, Limit, BufferSize, Length, MaxWindows, MaxRotations,
    Alerts, Signatures, AlertSources, Window,
    Probes, ProbeSeverity, Debounce, Thresholds, RuleSignal, RuleSeverity,
    LogClass, BufSize, MaxMade, MaxStops,
    MaxIterations, Hour, Threshold, MaxQueue, MaxTrips, MaxHours

VARIABLES
    tenant, unit, space, tuples, writing, ownedOnce, changed,
    standing, disk, intact, due, told, up, crashes,
    state, expires, saying, events, granted, used, clock,
    topic, stage, offset, polled, record, saw, rows, dropped, serial, kills,
    rule, branches, pulls, file, webhook, handler, overtaken, withdrawn, signed, acted,
    weekHour, released, engine, rules,
    door, gate, pc, kid, count, through, window, current, previous, secret, relay,
    alert, incident, incidents, resolvedTold, backwards, minute,
    checks, healthy, streak, firing, buffered, overflow, made, missing, feed,
    committed, from, upto, position, spawning, dead, decided, sessions, stops,
    reached, round, delegated, ran, records, reported, answer,
    trips, waiting, pages, tripped, wall

Control   == INSTANCE ControlPlane
Approval  == INSTANCE Approvals
Override  == INSTANCE PolicyOverrides
Audit     == INSTANCE AuditLog WITH Topics <- Partitions
Platform  == INSTANCE PlatformOps WITH Rules <- NoiseRules
Policies  == INSTANCE PolicyGates WITH Deploys <- Deployments, Gates <- SDLCGates,
                 hour <- weekHour, approved <- released
Gateway   == INSTANCE Gateways
Incidence == INSTANCE Incidents WITH Sources <- AlertSources, now <- minute
Symptom   == INSTANCE Symptoms WITH Rules <- Thresholds, waiting <- buffered,
                 dropped <- overflow, at <- position, opened <- sessions,
                 up <- healthy
Loop      == INSTANCE AlfredLoop WITH stage <- reached, told <- reported

-----------------------------------------------------------------------------
(* What the proofs need of the constants.                                  *)

(* Ids carry their type in OpenFGA; owners are names a subject may have.   *)
ASSUME SubjectsNamed ==
    /\ Tenants \cap Units = {}
    /\ Control!Nobody \notin Subjects \cup Tenants \cup Units
    /\ Owners \subseteq SUBSET Control!Names

(* Audited events carry times.                                             *)
ASSUME EventsTimed == Partitions \subseteq [Consumers -> Seq(Times)]

(* Rules and freeze windows have the fields they are read by.              *)
ASSUME RulesReadable ==
    RuleSets \subseteq Seq([priority : Int, decision : {"allow", "requires_approval", "deny"},
                           on : SUBSET Policies!Envs, breaks : SUBSET Policies!Envs])
ASSUME WindowsReadable ==
    /\ HoursADay \in Nat \ {0}
    /\ Freezes \in Seq([env : STRING, from : (0..6) \X (0..(HoursADay - 1)),
                        to : (0..6) \X (0..(HoursADay - 1))])

ASSUME CallsLimited == Limit \in Nat

(* No alert or signature has the name of none.                             *)
ASSUME AlertsNamed == "none" \notin Alerts \cup Signatures /\ Window \in Nat

(* A probe is down after some failures (zero stands for the default, two). *)
ASSUME ProbesDebounce == Debounce \in Nat \ {0} /\ MaxMade \in Nat

(* The window of the trips and the queue of them have a length.            *)
ASSUME TripsCounted == Hour \in Nat /\ MaxQueue \in Nat
=============================================================================
