---------------------------- MODULE Traceability ----------------------------
(***************************************************************************)
(* The graph of what came of a specification (services/traceability): it   *)
(* grows with the events of the platform, posted one by one or as a        *)
(* backfill of the audit log, in any order and more than once, and is read *)
(* through views of each specification. Every method of Store holds its    *)
(* mutex; a handler calls several. The upsert of a node is one step with   *)
(* the link that follows it.                                               *)
(***************************************************************************)
EXTENDS Naturals, Sequences, SequencesExt

CONSTANTS
    Handlers,      \* the requests under way at once
    Posts,         \* what may be posted: [events, backfill]
    Traced         \* the ids of specifications

VARIABLES
    links,         \* the graph
    view,          \* materialized: of each, the links within the default depth
    post,          \* of each handler, the post and where it is in it
    handled,       \* the events that were handled
    backfilled     \* the backfills that were answered with 202

trace == <<links, view, post, handled, backfilled>>

(* An event: its type, the node it is about, the asset that a deployment    *)
(* names, and its specifications (openspecIDs).                             *)
NoAsset     == "none"
Root(s)     == <<"openspec", s>>
Asset(e)    == <<"asset", e.asset>>

(* HandleEvent: what it takes, and how the node of an event is linked.      *)
Relation(e) ==
    CASE e.type = "pr.linked" -> "implements"
      [] e.type = "test.run" -> "validates"
      [] e.type = "slo.defined" -> "monitored_by"
      [] e.type = "cost.record" -> "cost_attributed_to"
      [] OTHER -> "derives_from"
Supported(e) == e.type # "unsupported"

(* linkToOpenSpecs, and linkFromOpenSpecs for an SLO; a link is its key.    *)
LinkTo(e, s) ==
    IF e.type = "slo.defined"
      THEN [from |-> Root(s), to |-> e.node, relation |-> Relation(e), by |-> e.type]
      ELSE [from |-> e.node, to |-> Root(s), relation |-> Relation(e), by |-> e.type]

Deploys(e) ==
    IF e.asset = NoAsset THEN {}
    ELSE {[from |-> e.node, to |-> Asset(e), relation |-> "deploys", by |-> e.type]}

-----------------------------------------------------------------------------
(* RefreshMaterialized: breadth first from the specification, along links   *)
(* in either direction, as far as the depth.                                *)
Beside(n, ls) == {l.to : l \in {k \in ls : k.from = n}} \cup {l.from : l \in {k \in ls : k.to = n}}

Around(s, depth, ls) ==
    LET visited[k \in 0..depth] ==
            IF k = 0 THEN {Root(s)}
            ELSE LET before == visited[k - 1]
                 IN  before \cup UNION {Beside(n, ls) : n \in before}
        all == visited[depth]
    IN  {l \in ls : {l.from, l.to} \subseteq all}

DefaultDepth == 4

RefreshMaterialized(s) == view' = [view EXCEPT ![s] = Around(s, DefaultDepth, links)]

Idle == [of |-> [events |-> <<>>, backfill |-> FALSE], stage |-> "idle", nth |-> 1,
         spec |-> 1, seen |-> {}]

Init ==
    /\ links = {}
    /\ view = [s \in Traced |-> {}]
    /\ post = [h \in Handlers |-> Idle]
    /\ handled = {} /\ backfilled = {}

-----------------------------------------------------------------------------
Event(h) == post[h].of.events[post[h].nth]
At(h, stage) == post[h].stage = stage

(* ingestEvent and backfillAuditLog. *)
Receive(h, p) ==
    /\ At(h, "idle")
    /\ post' = [post EXCEPT ![h] = [Idle EXCEPT !.of = p, !.stage = "node"]]
    /\ UNCHANGED <<links, view, handled, backfilled>>

(* An event of another type ends the request, also a backfill halfway.      *)
Unsupported(h) ==
    /\ At(h, "node") /\ ~Supported(Event(h))
    /\ post' = [post EXCEPT ![h] = Idle]
    /\ UNCHANGED <<links, view, handled, backfilled>>

(* The node of the event, and of a deployment the asset with its link.      *)
Ingest(h) ==
    /\ At(h, "node") /\ Supported(Event(h))
    /\ links' = links \cup Deploys(Event(h))
    /\ post' = [post EXCEPT ![h].stage = "link", ![h].spec = 1]
    /\ UNCHANGED <<view, handled, backfilled>>

MoreSpecs(h) == post[h].spec <= Len(Event(h).specs)
NextSpec(h)  == Event(h).specs[post[h].spec]

UpsertLink(h) ==
    /\ At(h, "link") /\ MoreSpecs(h)
    /\ links' = links \cup {LinkTo(Event(h), NextSpec(h))}
    /\ post' = [post EXCEPT ![h].stage = "refresh"]
    /\ UNCHANGED <<view, handled, backfilled>>

Refresh(h) ==
    /\ At(h, "refresh")
    /\ RefreshMaterialized(NextSpec(h))
    /\ post' = [post EXCEPT ![h].stage = "link", ![h].spec = @ + 1]
    /\ UNCHANGED <<links, handled, backfilled>>

(* The event is handled: the end of a request, but a backfill goes on with  *)
(* the next, and then with the views of all it has seen.                    *)
Handled(h) ==
    /\ At(h, "link") /\ ~MoreSpecs(h)
    /\ handled' = handled \cup {Event(h)}
    /\ post' = [post EXCEPT ![h] =
           CASE ~@.of.backfill -> Idle
             [] @.of.backfill /\ @.nth < Len(@.of.events) ->
                  [@ EXCEPT !.nth = @ + 1, !.stage = "node", !.seen = @ \cup ToSet(Event(h).specs)]
             [] OTHER -> [@ EXCEPT !.stage = "views", !.seen = @ \cup ToSet(Event(h).specs)]]
    /\ UNCHANGED <<links, view, backfilled>>

RefreshSeen(h) ==
    /\ At(h, "views")
    /\ \E s \in post[h].seen :
         /\ RefreshMaterialized(s)
         /\ post' = [post EXCEPT ![h].seen = @ \ {s}]
    /\ UNCHANGED <<links, handled, backfilled>>

Backfilled(h) ==
    /\ At(h, "views") /\ post[h].seen = {}
    /\ backfilled' = backfilled \cup {post[h].of}
    /\ post' = [post EXCEPT ![h] = Idle]
    /\ UNCHANGED <<links, view, handled>>

-----------------------------------------------------------------------------
(* TraceabilityForOpenSpec, for a view that is not there or more than five  *)
(* minutes old; a younger one is served as it is.                           *)
Read(s) ==
    /\ RefreshMaterialized(s)
    /\ UNCHANGED <<links, post, handled, backfilled>>

(* RefreshAllMaterialized, every five minutes: its turn to refresh one of   *)
(* the specifications that it found.                                        *)
RefreshNext(s) ==
    /\ \E l \in links : Root(s) \in {l.from, l.to}
    /\ RefreshMaterialized(s)
    /\ UNCHANGED <<links, post, handled, backfilled>>

Next ==
    \/ \E h \in Handlers :
         \/ \E p \in Posts : Receive(h, p)
         \/ Unsupported(h)
         \/ Ingest(h)
         \/ UpsertLink(h)
         \/ Refresh(h)
         \/ Handled(h)
         \/ RefreshSeen(h)
         \/ Backfilled(h)
    \/ \E s \in Traced : Read(s) \/ RefreshNext(s)

Spec == Init /\ [][Next]_trace

-----------------------------------------------------------------------------
Events == UNION {ToSet(p.events) : p \in Posts}
LinksOf(e, n) == Deploys(e) \cup {LinkTo(e, e.specs[i]) : i \in 1..n}
AllLinks == UNION {LinksOf(e, Len(e.specs)) : e \in {x \in Events : Supported(x)}}

TypeOK ==
    /\ links \subseteq AllLinks
    /\ view \in [Traced -> SUBSET AllLinks]
    /\ post \in [Handlers -> [of : Posts \cup {Idle.of}, nth : Nat \ {0}, spec : Nat \ {0},
                              stage : {"idle", "node", "link", "refresh", "views"},
                              seen : SUBSET Traced]]
    /\ handled \subseteq Events /\ backfilled \subseteq Posts

(* The view of a specification tells, from the moment an event is handled,  *)
(* what the event said up to that specification (the ones after it are      *)
(* linked later), and from the end of a backfill all that the events of it  *)
(* say within four steps; events handled at the same time, or again, do not *)
(* take it away (linkToOpenSpecs, BackfillAuditLog, RefreshMaterialized).   *)
ViewsTell ==
    /\ \A e \in handled : \A i \in DOMAIN e.specs :
         LinksOf(e, i) \subseteq view[e.specs[i]]
    /\ \A p \in backfilled :
         LET said == UNION {LinksOf(e, Len(e.specs)) : e \in ToSet(p.events)}
         IN  \A s \in UNION {ToSet(e.specs) : e \in ToSet(p.events)} :
               Around(s, DefaultDepth, said) \subseteq view[s]
=============================================================================
