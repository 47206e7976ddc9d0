---------------------------- MODULE AssetMetrics ----------------------------
(***************************************************************************)
(* The metrics of an asset (services/asset-observability): invocations      *)
(* arrive from its callers and from the events of the gateways, with or     *)
(* without the time they began, and installs from the clients of the        *)
(* gateway; a reader is answered with a series of points, totals and        *)
(* rollups, and a drift of the evaluation scores is told on the bus. Times  *)
(* are hours, scores hundredths; one asset.                                 *)
(***************************************************************************)
EXTENDS Integers, Sequences, FiniteSets, SequencesExt, FiniteSetsExt

CONSTANTS
    Posted,        \* the invocations of callers: [source, ok, score, ms, cost]
    Emitted,       \* the events of gateways: [type, source, status, outcome]
    Installers,    \* developer and client
    Releases,      \* the versions they install
    Windows,       \* windowFor: the length of each range
    Buckets,       \* bucketFor
    Active,        \* how long ago an active install may be
    DriftWindow, DriftDelta,
    MaxInvocations, MaxClock

VARIABLES
    invs,          \* byAsset, in the order of arrival
    installs,      \* of each installer, or NoInstall
    drifts,        \* the drift_source of the events that were emitted
    hour

metrics == <<invs, installs, drifts, hour>>

NoScore   == -1
NoSource  == <<"", "">>
AnySource == <<"any", "">>
NoInstall == [version |-> "none", at |-> 0]

Init ==
    /\ invs = <<>> /\ installs = [i \in Installers |-> NoInstall]
    /\ drifts = {} /\ hour = 0

-----------------------------------------------------------------------------
Stored(inv, at) ==
    /\ Len(invs) < MaxInvocations
    /\ invs' = Append(invs, [source |-> inv.source, ok |-> inv.ok, score |-> inv.score,
                             ms |-> inv.ms, cost |-> inv.cost, at |-> at])
    /\ UNCHANGED <<installs, drifts, hour>>

(* Ingest: its time is what the caller says, which may be long ago.         *)
Ingest(inv, at) ==
    /\ at <= hour
    /\ Stored([inv EXCEPT !.source = IF @ = NoSource THEN <<"runtime", "">> ELSE @], at)

(* IngestGatewayCloudEvent: what a success is, and the source.              *)
Succeeds(e) ==
    CASE e.type = "gateway" -> e.status \div 100 = 2
      [] e.type = "mcp-gateway" -> e.outcome = "ok" \/ e.status \div 100 = 2
      [] e.type = "a2a-gateway" -> e.outcome = "ok"
      [] e.type = "alfred.agent_mode" -> e.outcome = "completed"

Source(e) == <<e.type, IF e.type \in {"mcp-gateway", "a2a-gateway"} THEN e.source ELSE "">>

IngestGatewayCloudEvent(e) ==
    Stored([source |-> Source(e), ok |-> Succeeds(e), score |-> NoScore, ms |-> 1, cost |-> 1], hour)

(* RecordInstall: the latest to arrive, whenever it was made.               *)
RecordInstall(i, version, at) ==
    /\ at <= hour
    /\ installs' = [installs EXCEPT ![i] = [version |-> version, at |-> at]]
    /\ UNCHANGED <<invs, drifts, hour>>

-----------------------------------------------------------------------------
(* Aggregate: the invocations of the window, of one source or of AnySource. *)
Filtered(range, source) ==
    {i \in DOMAIN invs : /\ invs[i].at > hour - Windows[range]
                         /\ source = AnySource \/ invs[i].source = source}

(* percentile: the value at the place int((n - 1) * p) of the sorted ones.  *)
Percentile(s, hundredths) ==
    LET place == ((Cardinality(s) - 1) * hundredths) \div 100
    IN  CHOOSE ms \in {invs[i].ms : i \in s} :
            /\ Cardinality({i \in s : invs[i].ms < ms}) <= place
            /\ place < Cardinality({i \in s : invs[i].ms <= ms})

Summarize(s) ==
    [invocations |-> Cardinality(s),
     successes   |-> Cardinality({i \in s : invs[i].ok}),
     failures    |-> Cardinality({i \in s : ~invs[i].ok}),
     cost        |-> MapThenSumSet(LAMBDA i : invs[i].cost, s),
     p50 |-> IF s = {} THEN 0 ELSE Percentile(s, 50),
     p95 |-> IF s = {} THEN 0 ELSE Percentile(s, 95),
     p99 |-> IF s = {} THEN 0 ELSE Percentile(s, 99)]

Truncate(at, bucket) == at - (at % bucket)

Points(s, bucket) ==
    [t \in {Truncate(invs[i].at, bucket) : i \in s} |->
        Summarize({i \in s : Truncate(invs[i].at, bucket) = t})]

SourceRollups(s) ==
    [src \in {invs[i].source : i \in s} |-> Summarize({i \in s : invs[i].source = src})]

(* detectDriftWithSource: the scores of the latest against those before, of *)
(* all sources, then of each; it names the source, or none for all. Those   *)
(* that began at one time stand in any order (sort.Slice).                  *)
InTime(s) == {q \in SetToSeqs(s) : \A j \in 1..(Len(q) - 1) : invs[q[j]].at <= invs[q[j + 1]].at}

Total(scores) == FoldLeft(+, 0, scores)

Falls(q) ==
    LET scores == [j \in DOMAIN q |-> invs[q[j]].score]
        base   == Len(scores) - DriftWindow
    IN  /\ Len(scores) >= 2 * DriftWindow
        /\ Total(SubSeq(scores, 1, base)) * DriftWindow
             - Total(SubSeq(scores, base + 1, Len(scores))) * base
           > DriftDelta * DriftWindow * base

Drift(q) ==
    LET scored == SelectSeq(q, LAMBDA i : invs[i].score # NoScore)
    IN  IF Falls(scored) THEN {AnySource}
        ELSE {src \in {invs[i].source : i \in ToSet(q)} :
                Falls(SelectSeq(scored, LAMBDA i : invs[i].source = src))}

(* installSummary *)
Installed == {i \in Installers : installs[i] # NoInstall}
InstallSummary ==
    [total     |-> Cardinality(Installed),
     active    |-> Cardinality({i \in Installed : installs[i].at > hour - Active}),
     byVersion |-> [v \in Releases |-> Cardinality({i \in Installed : installs[i].version = v})]]

(* GET .../metrics: every reader tells of the drift again.                  *)
Metrics(range, source) ==
    /\ \E q \in InTime(Filtered(range, source)) :
         \/ \E src \in Drift(q) : drifts' = drifts \cup {src}
         \/ Drift(q) = {} /\ UNCHANGED drifts
    /\ UNCHANGED <<invs, installs, hour>>

Tick ==
    /\ hour < MaxClock
    /\ hour' = hour + 1
    /\ UNCHANGED <<invs, installs, drifts>>

Sources == {AnySource} \cup {invs[i].source : i \in DOMAIN invs}

Next ==
    \/ \E inv \in Posted, at \in 0..MaxClock : Ingest(inv, at)
    \/ \E e \in Emitted : IngestGatewayCloudEvent(e)
    \/ \E i \in Installers, version \in Releases, at \in 0..MaxClock :
         RecordInstall(i, version, at)
    \/ \E range \in DOMAIN Windows, source \in Sources : Metrics(range, source)
    \/ Tick

Spec == Init /\ [][Next]_metrics

-----------------------------------------------------------------------------
Invocation == [source : Seq(STRING), ok : BOOLEAN, score : Int, ms : Nat, cost : Nat,
               at : 0..hour]

TypeOK ==
    /\ \A i \in DOMAIN invs : invs[i] \in Invocation
    /\ Len(invs) <= MaxInvocations
    /\ installs \in [Installers -> {NoInstall} \cup [version : Releases, at : 0..hour]]
    /\ drifts \subseteq Sources /\ hour \in 0..MaxClock

Summed(f, field) == MapThenSumSet(LAMBDA k : f[k][field], DOMAIN f)

(* Whatever is posted late and whatever range, granularity and source are   *)
(* asked for, the points and the rollups of an answer add up to its totals, *)
(* and its percentiles stand in order (Aggregate, sourceRollups, summarize).*)
SeriesAddUp ==
    \A range \in DOMAIN Windows, source \in Sources :
        LET s   == Filtered(range, source)
            all == Summarize(s)
        IN  /\ \A bucket \in Buckets, field \in {"invocations", "successes", "failures", "cost"} :
                 /\ Summed(Points(s, bucket), field) = all[field]
                 /\ Summed(SourceRollups(s), field) = all[field]
            /\ all.successes + all.failures = all.invocations
            /\ all.p50 <= all.p95 /\ all.p95 <= all.p99

(* A reader of one source and a reader of all are told the same of it, when *)
(* no two invocations began at one time: the rollup is the totals of the    *)
(* one, a drift of that source alone is an alert to both, and the other     *)
(* names it (detectDriftWithSource).                                        *)
FiltersAgree ==
    \A range \in DOMAIN Windows :
        LET all == Filtered(range, AnySource)
        IN  \A src \in Sources \ {AnySource} :
              LET one == Filtered(range, src)
              IN  /\ one # {} => SourceRollups(all)[src] = Summarize(one)
                  /\ (\A i, j \in all : i # j => invs[i].at # invs[j].at) =>
                       \A q \in InTime(all), p \in InTime(one) :
                         /\ Drift(p) # {} => Drift(q) # {}
                         /\ src \in Drift(q) => Drift(p) = {AnySource}

(* A developer with a client counts as one install however often and in     *)
(* whatever order the events of it come, and under one version.             *)
InstallsCounted ==
    /\ InstallSummary.active <= InstallSummary.total
    /\ MapThenSumSet(LAMBDA v : InstallSummary.byVersion[v], Releases) = InstallSummary.total

MetricsSound == SeriesAddUp /\ FiltersAgree /\ InstallsCounted
=============================================================================
