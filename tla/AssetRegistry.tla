---------------------------- MODULE AssetRegistry ----------------------------
(***************************************************************************)
(* The versions of one asset in the registry: creation, registration of    *)
(* external endpoints, lifecycle transitions with their promotion gates,   *)
(* gateway publication, mirroring, the archiving of an application, and    *)
(* the drift cron (services/registry).                                     *)
(*                                                                         *)
(* Every SQL statement or transaction is atomic; a request is a sequence   *)
(* of them, with HTTP calls in between.  All versions share one endpoint   *)
(* row.  A lifecycle UPDATE names the id and version only, never the state *)
(* the request had read.                                                    *)
(***************************************************************************)
EXTENDS Naturals, FiniteSets

CONSTANTS
    Versions,
    Requests,     \* transitions and publications, each one request
    Families,     \* "external", "skill" or "design_system": what the asset is
    MaxDrift      \* changes of the manifest behind the endpoint

VARIABLES
    family,
    asset,        \* table asset, by version
    package,      \* table asset_package, by version
    endpoint,     \* manifest_hash of the endpoint row
    live,         \* what the endpoint serves
    req,
    pass,         \* the drift cron
    trusted,      \* history: versions that were ever approved above T0
    reviewed      \* history: the manifest a version was approved with, as long as
                  \* no other request, version or older pass wrote the hash

tables  == <<family, asset, package, endpoint, live>>
history == <<trusted, reviewed>>
vars    == <<tables, req, pass, history>>

NoHash == 0
Hashes == 1 .. MaxDrift + 1
States == {"proposed", "in_review", "approved", "deprecated", "retired",
           "mirrored", "rejected"}
Absent == [state |-> "absent"]
Stored == {v \in Versions : asset[v].state # "absent"}
Idle   == [pc |-> "idle"]

(* canTransition.                                                          *)
CanTransition(from, to) ==
    \/ from = to
    \/ <<from, to>> \in
         {<<"proposed", "in_review">>, <<"proposed", "retired">>,
          <<"in_review", "approved">>, <<"in_review", "proposed">>,
          <<"in_review", "retired">>, <<"approved", "deprecated">>,
          <<"approved", "retired">>, <<"deprecated", "retired">>,
          <<"mirrored", "approved">>, <<"mirrored", "rejected">>}

Init ==
    /\ family \in Families
    /\ asset = [v \in Versions |-> Absent]
    /\ package = [v \in Versions |-> NoHash]
    /\ endpoint = NoHash
    /\ live = 1
    /\ req = [r \in Requests |-> [pc |-> "new"]]
    /\ pass = [pc |-> "none"]
    /\ trusted = {}
    /\ reviewed = [v \in Versions |-> NoHash]

-----------------------------------------------------------------------------
Trusted(state, trust) == state = "approved" /\ trust # "T0"

NewRow(state, trust) ==
    [state |-> state, trust |-> trust, origin |-> FALSE, published |-> FALSE,
     digest |-> NoHash]

(* POST /v1/workspaces/.../assets: any valid state is accepted as the      *)
(* initial one.                                                             *)
CreateAsset(v) ==
    /\ family # "external" /\ v \notin Stored
    /\ \E state \in {"proposed", "approved"} : \E trust \in {"T0", "T1"} :
          /\ asset' = [asset EXCEPT ![v] = NewRow(state, trust)]
          /\ trusted' = IF Trusted(state, trust) THEN trusted \cup {v} ELSE trusted
    /\ UNCHANGED <<family, package, endpoint, live, req, pass, reviewed>>

(* POST /v1/assets/external/...: the manifest is fetched, then one         *)
(* transaction inserts the version and sets the endpoint row.               *)
RegisterExternal(v) ==
    /\ family = "external" /\ v \notin Stored
    /\ asset' = [asset EXCEPT ![v] = NewRow("proposed", "T0")]
    /\ endpoint' = live
    /\ reviewed' = [w \in Versions |-> NoHash]
    /\ UNCHANGED <<family, package, live, req, pass, trusted>>

(* validateAssetActiveSurface: only the registration of external assets    *)
(* writes how_to and active_surface.                                        *)
SurfaceValid == family = "external"

(* A request read the row and passed the gates; those that depend on the   *)
(* request alone, eval scores, the T5 approval and the sanity check of a    *)
(* design system, are passed by the requests that go on.                    *)
Load(r, v, to, trust, ack) ==
    /\ req[r].pc = "new" /\ v \in Stored
    /\ CanTransition(asset[v].state, to)
    /\ LET verified == to = "approved" /\ family = "external" IN
       req' = [req EXCEPT ![r] =
         [pc |-> IF verified THEN "reverify" ELSE "update", v |-> v, to |-> to,
          trust |-> trust, ack |-> verified /\ ack, hash |-> NoHash]]
    /\ UNCHANGED <<tables, pass, history>>

(* transitionAsset; design systems have a contract of their own.           *)
TransitionAsset(r, v) ==
    \E to \in States : \E trust \in {"T0", "T1"} : \E ack \in BOOLEAN :
       /\ to = "approved" => SurfaceValid \/ family = "design_system"
       /\ Load(r, v, to, trust, ack)

(* pipelineGreenHook.                                                      *)
PipelineGreenHook(r, v) ==
    Load(r, v, "in_review", "T1", FALSE)

(* workspaceOwnerApprovalHook: no contract for design systems, and the     *)
(* approval counts as an acknowledgement of drift.                          *)
WorkspaceOwnerApprovalHook(r, v) ==
    SurfaceValid /\ Load(r, v, "approved", "T1", TRUE)

(* reverifyOnPromotion: the stored hash is read and the endpoint fetched;  *)
(* a difference refuses the promotion unless it is acknowledged.            *)
DriftRefused(r) == endpoint # NoHash /\ live # endpoint /\ ~req[r].ack

Reverify(r) ==
    /\ req[r].pc = "reverify"
    /\ req' = [req EXCEPT ![r] = IF DriftRefused(r) THEN [pc |-> "done"]
                                 ELSE [@ EXCEPT !.pc = "refresh", !.hash = live]]
    /\ UNCHANGED <<tables, pass, history>>

(* The stored hash becomes the fetched one, for all versions.              *)
RefreshHash(r) ==
    /\ req[r].pc = "refresh"
    /\ endpoint' = req[r].hash
    /\ req' = [req EXCEPT ![r].pc = "update"]
    /\ reviewed' = [w \in Versions |-> NoHash]
    /\ UNCHANGED <<family, asset, package, live, pass, trusted>>

(* UPDATE asset SET lifecycle_state, trust_level.                          *)
UpdateLifecycle(r) ==
    /\ req[r].pc = "update"
    /\ LET v == req[r].v
           to == req[r].to
       IN  /\ asset' = [asset EXCEPT ![v].state = to, ![v].trust = req[r].trust]
           /\ trusted' = IF Trusted(to, req[r].trust) THEN trusted \cup {v} ELSE trusted
           /\ reviewed' = [reviewed EXCEPT ![v] =
                 IF to = "approved" /\ req[r].hash = endpoint THEN endpoint ELSE NoHash]
           /\ pass' = IF pass.pc = "none" THEN pass ELSE [pass EXCEPT !.later = @ \cup {v}]
           /\ req' = [req EXCEPT ![r] =
                 IF to \in {"deprecated", "retired"} THEN [@ EXCEPT !.pc = "unpublish"]
                 ELSE [pc |-> "done"]]
    /\ UNCHANGED <<family, package, endpoint, live>>

(* autoUnpublishOnLifecycle.                                               *)
AutoUnpublish(r) ==
    /\ req[r].pc = "unpublish"
    /\ asset' = [asset EXCEPT ![req[r].v].published = FALSE]
    /\ req' = [req EXCEPT ![r] = [pc |-> "done"]]
    /\ UNCHANGED <<family, package, endpoint, live, pass, history>>

-----------------------------------------------------------------------------
(* gatewayPublishHook: the row is checked, access is checked elsewhere ... *)
Publishable(v) == Trusted(asset[v].state, asset[v].trust)

PublishCheck(r, v) ==
    /\ req[r].pc = "new" /\ v \in Stored /\ family # "design_system"
    /\ Publishable(v)
    /\ req' = [req EXCEPT ![r] = [pc |-> "publish", v |-> v]]
    /\ UNCHANGED <<tables, pass, history>>

(* ... and one transaction inserts the package of a skill, once, and marks *)
(* the version published.  The digest is the request's; a server's request *)
(* may have one too, with nothing packaged.                                 *)
AlreadyPackaged_Never(v) == FALSE
AlreadyPackaged(v) == package[v] # NoHash

PublishCommit(r) ==
    /\ req[r].pc = "publish"
    /\ LET v == req[r].v IN
       IF family = "skill"
       THEN IF AlreadyPackaged(v) THEN UNCHANGED <<asset, package>>
            ELSE /\ package' = [package EXCEPT ![v] = IF @ = NoHash THEN r ELSE @]
                 /\ asset' = [asset EXCEPT ![v].published = TRUE, ![v].digest = r]
       ELSE /\ \E digest \in {asset[v].digest, r} :
                  asset' = [asset EXCEPT ![v].published = TRUE, ![v].digest = digest]
            /\ UNCHANGED package
    /\ req' = [req EXCEPT ![r] = [pc |-> "done"]]
    /\ UNCHANGED <<family, endpoint, live, pass, history>>

(* Mirror: the bytes are fetched, then the version is mirrored, whatever   *)
(* its state, if it has a row.                                              *)
Mirrored(v) ==
    IF v \in Stored THEN [asset EXCEPT ![v].state = "mirrored", ![v].origin = TRUE]
    ELSE asset

Mirror(v) ==
    /\ family = "skill" /\ v \in Stored
    /\ asset' = Mirrored(v)
    /\ UNCHANGED <<family, package, endpoint, live, req, pass, history>>

(* The sync worker and the webhooks look for a version of a mirrored asset *)
(* that has no row; Mirror then finds none, unless one was created while    *)
(* it fetched.                                                              *)
PublicOrigin == \E w \in Stored : asset[w].origin

NewVersionSeen(r, v) ==
    /\ req[r].pc = "new"
    /\ PublicOrigin /\ v \notin Stored
    /\ req' = [req EXCEPT ![r] = [pc |-> "mirror", v |-> v]]
    /\ UNCHANGED <<tables, pass, history>>

MirrorNewVersion(r) ==
    /\ req[r].pc = "mirror"
    /\ asset' = Mirrored(req[r].v)
    /\ req' = [req EXCEPT ![r] = [pc |-> "done"]]
    /\ UNCHANGED <<family, package, endpoint, live, pass, history>>

(* cascadeAppArchive: one statement for all versions of the application.   *)
CascadeAppArchive ==
    /\ \E v \in Stored : asset[v].state \notin {"deprecated", "retired"}
    /\ asset' = [v \in Versions |->
         IF v \in Stored /\ asset[v].state # "retired"
         THEN [asset[v] EXCEPT !.state = "deprecated"] ELSE asset[v]]
    /\ UNCHANGED <<family, package, endpoint, live, req, pass, history>>

-----------------------------------------------------------------------------
(* The drift cron.  The candidates are read with the stored hash ...       *)
PassBegins ==
    /\ pass.pc = "none" /\ family = "external"
    /\ pass' = [pc |-> "rows", hash |-> endpoint, live |-> live, row |-> NoHash,
                queue |-> {v \in Stored : asset[v].state \in {"approved", "in_review"}},
                approved |-> {v \in Stored : asset[v].state = "approved"},
                later |-> {}]
    /\ UNCHANGED <<tables, req, history>>

(* ... and processed one by one: an approved version that drifted is       *)
(* deprecated, and one that cannot be fetched is left alone ...             *)
Drifted(v) == live # pass.hash /\ v \in pass.approved

ProcessRow(v) ==
    /\ pass.pc = "rows" /\ v \in pass.queue
    /\ pass' = [pass EXCEPT !.pc = "refresh", !.queue = @ \ {v}, !.row = v, !.live = live]
    /\ asset' = IF Drifted(v) THEN [asset EXCEPT ![v].state = "deprecated"] ELSE asset
    /\ UNCHANGED <<family, package, endpoint, live, req, history>>

RowUnreachable(v) ==
    /\ pass.pc = "rows" /\ v \in pass.queue
    /\ pass' = [pass EXCEPT !.queue = @ \ {v}]
    /\ UNCHANGED <<tables, req, history>>

(* ... and the stored hash becomes the fetched one.                        *)
PassRefreshes ==
    /\ pass.pc = "refresh"
    /\ endpoint' = pass.live
    /\ pass' = [pass EXCEPT !.pc = "rows"]
    /\ reviewed' = [v \in Versions |->
          IF v = pass.row /\ v \notin pass.later THEN reviewed[v] ELSE NoHash]
    /\ UNCHANGED <<family, asset, package, live, req, trusted>>

EndpointChanges ==
    /\ live <= MaxDrift /\ family = "external"
    /\ live' = live + 1
    /\ UNCHANGED <<family, asset, package, endpoint, req, pass, history>>

Next ==
    \/ PassRefreshes \/ PassBegins \/ EndpointChanges \/ CascadeAppArchive
    \/ \E v \in Versions :
          \/ CreateAsset(v) \/ RegisterExternal(v) \/ Mirror(v)
          \/ ProcessRow(v) \/ RowUnreachable(v)
          \/ \E r \in Requests :
                \/ TransitionAsset(r, v) \/ PipelineGreenHook(r, v)
                \/ WorkspaceOwnerApprovalHook(r, v) \/ PublishCheck(r, v)
                \/ NewVersionSeen(r, v)
    \/ \E r \in Requests :
          \/ Reverify(r) \/ RefreshHash(r) \/ UpdateLifecycle(r)
          \/ AutoUnpublish(r) \/ PublishCommit(r) \/ MirrorNewVersion(r)

Spec == Init /\ [][Next]_vars

-----------------------------------------------------------------------------
(* Every version has a row with a state and a trust level of the code.     *)
TypeOK ==
    /\ family \in Families
    /\ \A v \in Stored :
          /\ asset[v].state \in States /\ asset[v].trust \in {"T0", "T1"}
          /\ asset[v].published \in BOOLEAN
          /\ asset[v].digest \in Requests \cup {NoHash}
    /\ package \in [Versions -> Requests \cup {NoHash}]
    /\ endpoint \in {NoHash} \cup Hashes /\ live \in Hashes
    /\ trusted \subseteq Versions

(* A published version was approved above T0 at some time; what a skill's  *)
(* row says of its package is what the package table has, also when two    *)
(* publications of a version meet; and a published skill has a package     *)
(* (gatewayPublishHook writes after other requests came between).           *)
CatalogSound ==
    \A v \in Stored :
       /\ asset[v].published => v \in trusted
       /\ family = "skill" =>
             /\ asset[v].digest = package[v]
             /\ asset[v].published => package[v] # NoHash

(* A version does not stay approved with a manifest other than the one it  *)
(* was approved with once the stored hash has moved on, unless a sibling   *)
(* or a request moved it, or a pass that had read its rows before the      *)
(* approval (Runner.processRow deprecates before it refreshes).             *)
DriftDeprecates ==
    \A v \in Stored :
       asset[v].state = "approved" /\ reviewed[v] # NoHash => reviewed[v] = endpoint
=============================================================================
