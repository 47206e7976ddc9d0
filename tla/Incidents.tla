------------------------------ MODULE Incidents -----------------------------
(***************************************************************************)
(* Incidents (services/incident-detection): an alert is normalised to its    *)
(* signature and merged into the open incident of that signature, if that   *)
(* was touched within the window, or opens one. The store is locked, the    *)
(* time is taken before the lock and the event emitted after it.            *)
(***************************************************************************)
EXTENDS Naturals, FiniteSets

CONSTANTS
    Alerts, Signatures, Sources,
    Window,        \* DedupWindow
    MaxTime

VARIABLES
    alert,         \* of each: its signature, severity, the time taken for it and
                   \* where it is: "none", "taken", "in", "told" or "dropped"
    incident,      \* by the alert that opened it
    incidents,     \* the incident the store has for a signature
    resolvedTold,  \* how often incident.resolved.v1 was emitted for each
    backwards,     \* an alert came later than one that had taken a later time
    now

incidence == <<alert, incident, incidents, resolvedTold, backwards, now>>

NoAlert    == [sig |-> "none", critical |-> FALSE, at |-> 0, stage |-> "none"]
NoIncident == [status |-> "none", opened |-> 0, updated |-> 0, critical |-> FALSE, events |-> {}]

Init ==
    /\ alert = [a \in Alerts |-> NoAlert]
    /\ incident = [a \in Alerts |-> NoIncident]
    /\ incidents = [s \in Signatures |-> "none"]
    /\ resolvedTold = [a \in Alerts |-> 0]
    /\ backwards = FALSE /\ now = 1

(* What the source says is over is dropped, like what has no service or no  *)
(* environment and an internal event of another type; Cloud Monitoring       *)
(* knows one severity. Then the clock is read, before the lock.              *)
Critical(source) == IF source = "cloud-monitoring" THEN {FALSE} ELSE BOOLEAN

Normalise(a, sig, critical) ==
    /\ alert[a].stage = "none"
    /\ alert' = [alert EXCEPT ![a] = [sig |-> sig, critical |-> critical, at |-> now,
                                      stage |-> "taken"]]
    /\ UNCHANGED <<incident, incidents, resolvedTold, backwards, now>>

Drop(a) ==
    /\ alert[a].stage = "none"
    /\ alert' = [alert EXCEPT ![a].stage = "dropped"]
    /\ UNCHANGED <<incident, incidents, resolvedTold, backwards, now>>

(* Store.upsert *)
Merges(i, time) == incident[i].status = "open" /\ time <= incident[i].updated + Window

Upsert(a) ==
    LET sig == alert[a].sig
        i   == incidents[sig]
        time == alert[a].at
    IN  /\ alert[a].stage = "taken"
        /\ IF i # "none" /\ Merges(i, time)
           THEN /\ incident' = [incident EXCEPT
                       ![i].events = @ \cup {a}, ![i].updated = time,
                       ![i].critical = @ \/ alert[a].critical]
                /\ alert' = [alert EXCEPT ![a].stage = "told"]
                /\ UNCHANGED incidents
           ELSE /\ incident' = [incident EXCEPT ![a] =
                       [status |-> "open", opened |-> time, updated |-> time,
                        critical |-> alert[a].critical, events |-> {a}]]
                /\ incidents' = [incidents EXCEPT ![sig] = a]
                /\ alert' = [alert EXCEPT ![a].stage = "in"]
        /\ backwards' = (backwards \/ (i # "none" /\ time < incident[i].updated))
        /\ UNCHANGED <<resolvedTold, now>>

(* emitDetected, by the one whose alert opened the incident. *)
EmitDetected(a) ==
    /\ alert[a].stage = "in"
    /\ alert' = [alert EXCEPT ![a].stage = "told"]
    /\ UNCHANGED <<incident, incidents, resolvedTold, backwards, now>>

(* Resolve, of any incident there ever was, and as often as it is asked.    *)
Resolve(i) ==
    /\ incident[i].status # "none" /\ resolvedTold[i] < 2
    /\ incident' = [incident EXCEPT ![i].status = "resolved", ![i].updated = now]
    /\ resolvedTold' = [resolvedTold EXCEPT ![i] = @ + 1]
    /\ UNCHANGED <<alert, incidents, backwards, now>>

Tick ==
    /\ now < MaxTime
    /\ now' = now + 1
    /\ UNCHANGED <<alert, incident, incidents, resolvedTold, backwards>>

Next ==
    \/ \E a \in Alerts :
         \/ \E source \in Sources, sig \in Signatures : \E critical \in Critical(source) :
              Normalise(a, sig, critical)
         \/ Drop(a)
         \/ Upsert(a)
         \/ EmitDetected(a)
         \/ Resolve(a)
    \/ Tick

Spec == Init /\ [][Next]_incidence

-----------------------------------------------------------------------------
TypeOK ==
    /\ alert \in [Alerts -> [sig : Signatures \cup {"none"}, critical : BOOLEAN,
                             at : 0..MaxTime,
                             stage : {"none", "taken", "in", "told", "dropped"}]]
    /\ incident \in [Alerts -> [status : {"none", "open", "resolved"}, opened : 0..MaxTime,
                                updated : 0..MaxTime, critical : BOOLEAN,
                                events : SUBSET Alerts]]
    /\ incidents \in [Signatures -> Alerts \cup {"none"}]
    /\ resolvedTold \in [Alerts -> 0..2] /\ backwards \in BOOLEAN /\ now \in 1..MaxTime

In(i) == {a \in Alerts : a \in incident[i].events}

(* Every alert that was let in is evidence of exactly one incident, of its  *)
(* own signature; an incident is critical if and only if one of its alerts  *)
(* was, and one that was resolved takes no more of them. Two alerts of one   *)
(* signature that came within the window of each other are in one incident, *)
(* unless one of the incidents was resolved or a last touch was set back    *)
(* by an alert that had read the clock before and got the lock after        *)
(* (Store.upsert, Service.Resolve).                                         *)
OneIncident ==
    /\ \A a \in Alerts : alert[a].stage \in {"in", "told"} =>
          /\ Cardinality({i \in Alerts : a \in incident[i].events}) = 1
          /\ \A i \in Alerts : a \in incident[i].events =>
                alert[i].sig = alert[a].sig /\ (alert[a].critical => incident[i].critical)
    /\ \A i \in Alerts : incident[i].critical => \E a \in In(i) : alert[a].critical
    /\ ~backwards => \A i, j \in Alerts :
          incident[i].status = "open" /\ incident[j].status = "open" /\ i # j
            /\ alert[i].sig = alert[j].sig /\ incident[i].opened <= incident[j].opened =>
          \A a \in In(i), b \in In(j) : alert[b].at > alert[a].at + Window
=============================================================================
