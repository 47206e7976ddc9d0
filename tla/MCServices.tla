----------------------------- MODULE MCServices -----------------------------
(***************************************************************************)
(* The services of the platform that share no state, checked in one run: a *)
(* behaviour is one of any of them, called the part, while the variables   *)
(* of the others stand still and mean nothing.  The bindings of triggers   *)
(* are a part of their own, beside the mailbox that shares their registry. *)
(*                                                                         *)
(* Oversight and Delivery have the services that theorems are about, with  *)
(* what is assumed of their constants; the others are here.                *)
(***************************************************************************)
EXTENDS TLC, Oversight, Delivery

CONSTANTS
    Callers, AppIds, Prs, Slugs, Unassigned, Systems, Default,
    Specs,
    SpecIds, Dialogues, SpecHomes, MaxTurns, MaxEdits, MaxFaults,
    Linted,
    Recorders, Posts, Traced,
    Posted, Emitted, Installers, Releases, Windows, Buckets, ActiveFor,
    DriftWindow, DriftDelta, MaxInvocations, MaxHour,
    MaxBeside   \* bound on the changes of the registry beside the mailbox

VARIABLES part,
          apps, bySlug, prs, opened, call, resolves, approved, vetted,
          row, report, confirmed, wasOrphan,
          doc, version, projected, dialogue, running, faults,
          document, verdict, completed,
          links, view, post, handled, backfilled,
          invs, clients, drifts, hour

Applications   == INSTANCE Applications
Migration      == INSTANCE SpecMigration
Specifications == INSTANCE Specifications WITH Ids <- SpecIds,
                      Homes <- SpecHomes
Lint           == INSTANCE WorkflowLint WITH Documents <- Linted
Trace          == INSTANCE Traceability WITH Handlers <- Recorders
Measure        == INSTANCE AssetMetrics WITH MaxClock <- MaxHour,
                      installs <- clients, Active <- ActiveFor

-----------------------------------------------------------------------------
(* The instance. To lint: the documents of MCWorkflowLint. To publish:     *)
(* contents that differ in one part or another, and version numbers one    *)
(* bump apart. To trace: events that share specifications, posted alone or *)
(* as a backfill. To measure: calls and events of several sources. To      *)
(* decide: a freeze round the end of the week and a short one, rules with  *)
(* an order, with a condition that breaks, and gates with and without a    *)
(* least criticality.                                                      *)
ToLint == INSTANCE MCWorkflowLint WITH Documents <- {}
LintedDocuments == ToLint!LintedDocuments

OnboardingStages == <<"policy.evaluate", "github.create_repo", "asset.register">>
AuditedTimes == {[c \in {"c1", "c2"} |-> IF c = "c1" THEN t ELSE <<1>>] : t \in {<<1, 2>>, <<2, 1>>}}
Usernames  == [s \in Subjects |-> IF s = "s2" THEN "bob" ELSE ""]
RealmRoles == [s \in Subjects |-> CASE s = "s1" -> {"platform-admin"}
                                   [] s = "s2" -> {"tenant-admin"}
                                   [] OTHER -> {}]
ThreePhases == <<"product", "design", "finops">>
OnePlan == {[design |-> "optional", finops |-> "opt_in"]}

Version(a, b, c, p) == [major |-> a, minor |-> b, patch |-> c, pre |-> p]

PublishedVersions ==
    {Version(0, 1, 0, "final"), Version(0, 1, 1, "final"), Version(1, 0, 0, "rc"),
     Version(1, 0, 0, "final"), Version(1, 1, 0, "final"), Version(1, 1, 1, "final")}

None       == [x \in {} |-> 0]
Input(r)   == [n \in {"i"} |-> [type |-> "string", required |-> r]]
Output(t)  == [n \in {"o"} |-> [type |-> t]]
Doing(t, fields, rest) == [n \in {"s"} |-> [type |-> t, fields |-> fields, rest |-> rest]]
StartedBy(fields, m) ==
    [n \in {"t"} |-> [type |-> "cron", fields |-> fields, rest |-> 0, migrated |-> m]]

Content(i, o, s, t) == [inputs |-> i, outputs |-> o, steps |-> s, triggers |-> t]
Prompting == Doing("llm", {"f"}, 0)

PublishedContents ==
    {Content(None, None, Prompting, None),
     Content(Input(FALSE), None, Prompting, None),
     Content(Input(TRUE), None, Doing("mcp", {}, 1), None),
     Content(None, Output("string"), Prompting, None),
     Content(Input(FALSE), Output("number"), Doing("llm", {}, 0), None),
     Content(None, None, Prompting, StartedBy({"p"}, TRUE)),
     Content(None, Output("string"), Prompting, StartedBy({}, FALSE))}

Traces(t, a, specs) == [type |-> t, node |-> <<t, "1">>, asset |-> a, specs |-> specs]
Post(es, backfill) == [events |-> es, backfill |-> backfill]

TracedPosts ==
    {Post(<<Traces("test.run", "none", <<"i3">>)>>, FALSE),
     Post(<<Traces("deployment.applied", "a", <<"i1", "i2">>),
            Traces("cost.record", "none", <<"i2", "i3">>)>>, TRUE),
     Post(<<Traces("slo.defined", "none", <<"i1">>),
            Traces("unsupported", "none", <<>>)>>, TRUE)}

Ranges == [short |-> 1, long |-> 2]

Invoked(source, ok, score, ms) ==
    [source |-> <<source, "">>, ok |-> ok, score |-> score, ms |-> ms, cost |-> 2]
PostedCalls == {Invoked("", TRUE, 90, 3), Invoked("workflow", FALSE, 80, 1)}

GatewayEvent(t, source, code, outcome) ==
    [type |-> t, source |-> source, status |-> code, outcome |-> outcome]
GatewayEvents ==
    {GatewayEvent("mcp-gateway", "external_proxy", 200, "error"),
     GatewayEvent("a2a-gateway", "", 0, "error"),
     GatewayEvent("gateway", "", 404, "")}

Deploying(env, image, criticality, strategy, plan) ==
    [env |-> env, image |-> image, criticality |-> criticality,
     strategy |-> strategy, plan |-> plan]
DeployRequests ==
    {Deploying("prod", "d1", "HIGH", "canary", TRUE),
     Deploying("prod", "d2", "critical", "rolling", FALSE),
     Deploying("PROD", "d1", "low", "rolling", FALSE),
     Deploying("prod", "", "low", "rolling", FALSE),
     Deploying("dev", "d1", "low", "rolling", FALSE)}

FrozenHours == <<[env |-> "prod", from |-> <<5, 1>>, to |-> <<1, 0>>],
                 [env |-> "", from |-> <<2, 0>>, to |-> <<2, 1>>]>>

EngineRule(priority, decision, on, breaks) ==
    [priority |-> priority, decision |-> decision, on |-> on, breaks |-> breaks]
EngineRules ==
    {<<EngineRule(1, "allow", {"prod", "PROD", "dev"}, {}),
       EngineRule(100, "requires_approval", {"prod"}, {})>>,
     <<EngineRule(1, "allow", {"prod", "PROD", "dev"}, {"dev"}), EngineRule(1, "deny", {"PROD"}, {}),
       EngineRule(2, "deny", {"PROD"}, {})>>,
     <<EngineRule(1, "allow", {"prod", "PROD"}, {})>>}

Held == [low |-> "no", medium |-> "yes", high |-> "no", critical |-> "no", urgent |-> "error"]
PhaseGates ==
    {[gate |-> "coverage", min |-> "", holds |-> Held],
     [gate |-> "threat_model", min |-> "HIGH", holds |-> Held],
     [gate |-> "unit", min |-> "medium", holds |-> Held]}

-----------------------------------------------------------------------------
registry       == <<family, asset, package, endpoint, live, req, pass,
                    trusted, reviewed>>
marketplace    == <<listing, installs, proposal, change, review, verdicts>>
artifacts      == <<backend, policy, open, job, stored, sidecar, release,
                    releases, cleaning, deletes, inFlight, wiped, blind,
                    overwrote, kept>>
applications   == <<apps, bySlug, prs, opened, call, resolves, approved,
                    vetted>>
migration      == <<row, report, confirmed, wasOrphan>>
specifications == <<doc, version, projected, dialogue, running, faults>>
onboarding     == <<app, status, assetOf, log, at, repo, viewer, restarts>>
gateways       == <<door, gate, pc, kid, count, through, window, current,
                    previous, secret, relay>>
approvals      == <<standing, disk, intact, due, told, up, crashes>>
overrides      == <<state, expires, saying, events, granted, used, clock>>
audit          == <<topic, stage, offset, polled, record, saw, rows, dropped,
                    serial, kills>>
platform       == <<rule, branches, pulls, file, webhook, handler, overtaken,
                    withdrawn, signed, acted>>
control        == <<tenant, unit, space, tuples, writing, ownedOnce, changed>>
sdlc           == <<initiative, copy, jumped>>
runtimes       == <<runtime, held, applied, revoked, overlapped, verification>>
incidence      == <<alert, incident, incidents, resolvedTold, backwards,
                    minute>>
lint           == <<document, verdict, completed>>
workflows      == <<published, created, latest, serving>>
traces         == <<links, view, post, handled, backfilled>>
measures       == <<invs, clients, drifts, hour>>
policies       == <<weekHour, released, engine, rules>>
symptoms       == <<checks, healthy, streak, firing, buffered, overflow,
                    made, missing, feed, committed, from, upto, position,
                    spawning, dead, decided, sessions, stops>>
agent          == <<session, steps, runs, followUp, calls, minted,
                    disruptions, calm>>
loop           == <<reached, round, delegated, ran, records, reported,
                    answer, trips, waiting, pages, tripped, wall>>
triggers       == <<received, now, batch, lastSeen, fired, failed, polls,
                    subs, byType, entries, bus, cancels, refreshing, desired,
                    cronFresh, busFresh, shifted, changes>>
mailbox        == <<received, now, batch, lastSeen, fired, failed, polls>>
vars           == <<part, registry, marketplace, artifacts, applications,
                    migration, specifications, onboarding, gateways,
                    approvals, overrides, audit, platform, control, sdlc,
                    runtimes, incidence, lint, workflows, traces, measures,
                    policies, symptoms, agent, loop, triggers>>

Parts == {"registry", "marketplace", "artifacts", "applications",
          "migration", "specifications", "onboarding", "gateways",
          "approvals", "overrides", "audit", "platform", "control", "sdlc",
          "runtimes", "incidence", "lint", "workflows", "traces", "measures",
          "policies", "symptoms", "agent", "loop", "triggers", "bindings"}
Off == 0

Init ==
    /\ part \in Parts
    /\ IF part = "registry" THEN Registry!Init
       ELSE /\ family = Off /\ asset = Off /\ package = Off /\ endpoint = Off
            /\ live = Off /\ req = Off /\ pass = Off /\ trusted = Off
            /\ reviewed = Off
    /\ IF part = "marketplace" THEN Market!Init
       ELSE /\ listing = Off /\ installs = Off /\ proposal = Off
            /\ change = Off /\ review = Off /\ verdicts = Off
    /\ IF part = "artifacts" THEN Artifacts!Init
       ELSE /\ backend = Off /\ policy = Off /\ open = Off /\ job = Off
            /\ stored = Off /\ sidecar = Off /\ release = Off
            /\ releases = Off /\ cleaning = Off /\ deletes = Off
            /\ inFlight = Off /\ wiped = Off /\ blind = Off /\ overwrote = Off
            /\ kept = Off
    /\ IF part = "applications" THEN Applications!Init
       ELSE /\ apps = Off /\ bySlug = Off /\ prs = Off /\ opened = Off
            /\ call = Off /\ resolves = Off /\ approved = Off
            /\ vetted = Off
    /\ IF part = "migration" THEN Migration!Init
       ELSE /\ row = Off /\ report = Off /\ confirmed = Off /\ wasOrphan = Off
    /\ IF part = "specifications" THEN Specifications!Init
       ELSE /\ doc = Off /\ version = Off /\ projected = Off /\ dialogue = Off
            /\ running = Off /\ faults = Off
    /\ IF part = "onboarding" THEN Onboarding!Init
       ELSE /\ app = Off /\ status = Off /\ assetOf = Off /\ log = Off
            /\ at = Off /\ repo = Off /\ viewer = Off /\ restarts = Off
    /\ IF part = "gateways" THEN Gateway!Init
       ELSE /\ door = Off /\ gate = Off /\ pc = Off /\ kid = Off
            /\ count = Off /\ through = Off /\ window = Off /\ current = Off
            /\ previous = Off /\ secret = Off /\ relay = Off
    /\ IF part = "approvals" THEN Approval!Init
       ELSE /\ standing = Off /\ disk = Off /\ intact = Off /\ due = Off
            /\ told = Off /\ up = Off /\ crashes = Off
    /\ IF part = "overrides" THEN Override!Init
       ELSE /\ state = Off /\ expires = Off /\ saying = Off /\ events = Off
            /\ granted = Off /\ used = Off /\ clock = Off
    /\ IF part = "audit" THEN Audit!Init
       ELSE /\ topic = Off /\ stage = Off /\ offset = Off /\ polled = Off
            /\ record = Off /\ saw = Off /\ rows = Off /\ dropped = Off
            /\ serial = Off /\ kills = Off
    /\ IF part = "platform" THEN Platform!Init
       ELSE /\ rule = Off /\ branches = Off /\ pulls = Off /\ file = Off
            /\ webhook = Off /\ handler = Off /\ overtaken = Off
            /\ withdrawn = Off /\ signed = Off /\ acted = Off
    /\ IF part = "control" THEN Control!Init
       ELSE /\ tenant = Off /\ unit = Off /\ space = Off /\ tuples = Off
            /\ writing = Off /\ ownedOnce = Off /\ changed = Off
    /\ IF part = "sdlc" THEN SDLC!Init
       ELSE /\ initiative = Off /\ copy = Off /\ jumped = Off
    /\ IF part = "runtimes" THEN Runtimes!Init
       ELSE /\ runtime = Off /\ held = Off /\ applied = Off /\ revoked = Off
            /\ overlapped = Off /\ verification = Off
    /\ IF part = "incidence" THEN Incidence!Init
       ELSE /\ alert = Off /\ incident = Off /\ incidents = Off
            /\ resolvedTold = Off /\ backwards = Off /\ minute = Off
    /\ IF part = "lint" THEN Lint!Init
       ELSE /\ document = Off /\ verdict = Off /\ completed = Off
    /\ IF part = "workflows" THEN Workflows!Init
       ELSE /\ published = Off /\ created = Off /\ latest = Off
            /\ serving = Off
    /\ IF part = "traces" THEN Trace!Init
       ELSE /\ links = Off /\ view = Off /\ post = Off /\ handled = Off
            /\ backfilled = Off
    /\ IF part = "measures" THEN Measure!Init
       ELSE /\ invs = Off /\ clients = Off /\ drifts = Off /\ hour = Off
    /\ IF part = "policies" THEN Policies!Init
       ELSE /\ weekHour = Off /\ released = Off /\ engine = Off
            /\ rules = Off
    /\ IF part = "symptoms" THEN Symptom!Init
       ELSE /\ checks = Off /\ healthy = Off /\ streak = Off /\ firing = Off
            /\ buffered = Off /\ overflow = Off /\ made = Off /\ missing = Off
            /\ feed = Off /\ committed = Off /\ from = Off /\ upto = Off
            /\ position = Off /\ spawning = Off /\ dead = Off /\ decided = Off
            /\ sessions = Off /\ stops = Off
    /\ IF part = "agent" THEN Agent!Init
       ELSE /\ session = Off /\ steps = Off /\ runs = Off /\ followUp = Off
            /\ calls = Off /\ minted = Off /\ disruptions = Off /\ calm = Off
    /\ IF part = "loop" THEN Loop!Init
       ELSE /\ reached = Off /\ round = Off /\ delegated = Off /\ ran = Off
            /\ records = Off /\ reported = Off /\ answer = Off /\ trips = Off
            /\ waiting = Off /\ pages = Off /\ tripped = Off /\ wall = Off
    /\ IF part \in {"triggers", "bindings"} THEN Triggers!SourcesInit
       ELSE /\ received = Off /\ now = Off /\ batch = Off /\ lastSeen = Off
            /\ fired = Off /\ failed = Off /\ polls = Off /\ subs = Off
            /\ byType = Off /\ entries = Off /\ bus = Off /\ cancels = Off
            /\ refreshing = Off /\ desired = Off /\ cronFresh = Off
            /\ busFresh = Off /\ shifted = Off /\ changes = Off

(* What follows the registry stands still beside the mailbox, which does    *)
(* not depend on it.                                                        *)
MailAlone == ~refreshing' /\ (cronFresh' => cronFresh) /\ changes' <= MaxBeside

Next ==
    /\ IF part = "registry" THEN Registry!Next ELSE UNCHANGED registry
    /\ IF part = "marketplace" THEN Market!Next ELSE UNCHANGED marketplace
    /\ IF part = "artifacts" THEN Artifacts!Next ELSE UNCHANGED artifacts
    /\ IF part = "applications" THEN Applications!Next ELSE UNCHANGED applications
    /\ IF part = "migration" THEN Migration!Next ELSE UNCHANGED migration
    /\ IF part = "specifications" THEN Specifications!Next ELSE UNCHANGED specifications
    /\ IF part = "onboarding" THEN Onboarding!Next ELSE UNCHANGED onboarding
    /\ IF part = "gateways" THEN Gateway!Next ELSE UNCHANGED gateways
    /\ IF part = "approvals" THEN Approval!Next ELSE UNCHANGED approvals
    /\ IF part = "overrides" THEN Override!Next ELSE UNCHANGED overrides
    /\ IF part = "audit" THEN Audit!Next ELSE UNCHANGED audit
    /\ IF part = "platform" THEN Platform!Next ELSE UNCHANGED platform
    /\ IF part = "control" THEN Control!Next ELSE UNCHANGED control
    /\ IF part = "sdlc" THEN SDLC!Next ELSE UNCHANGED sdlc
    /\ IF part = "runtimes" THEN Runtimes!Next ELSE UNCHANGED runtimes
    /\ IF part = "incidence" THEN Incidence!Next ELSE UNCHANGED incidence
    /\ IF part = "lint" THEN Lint!Next ELSE UNCHANGED lint
    /\ IF part = "workflows" THEN Workflows!Next ELSE UNCHANGED workflows
    /\ IF part = "traces" THEN Trace!Next ELSE UNCHANGED traces
    /\ IF part = "measures" THEN Measure!Next ELSE UNCHANGED measures
    /\ IF part = "policies" THEN Policies!Next ELSE UNCHANGED policies
    /\ IF part = "symptoms" THEN Symptom!Next ELSE UNCHANGED symptoms
    /\ IF part = "agent" THEN Agent!Next ELSE UNCHANGED agent
    /\ IF part = "loop" THEN Loop!Next ELSE UNCHANGED loop
    /\ CASE part = "triggers" -> Triggers!SourcesNext /\ MailAlone
         [] part = "bindings" -> Triggers!Next /\ UNCHANGED mailbox
         [] OTHER -> UNCHANGED triggers
    /\ UNCHANGED part

Spec == Init /\ [][Next]_vars

-----------------------------------------------------------------------------
(* The type invariant of each service.                                     *)
ServicesTypeOK ==
    /\ part = "registry" => Registry!TypeOK
    /\ part = "marketplace" => Market!TypeOK
    /\ part = "artifacts" => Artifacts!TypeOK
    /\ part = "applications" => Applications!TypeOK
    /\ part = "migration" => Migration!TypeOK
    /\ part = "specifications" => Specifications!TypeOK
    /\ part = "onboarding" => Onboarding!TypeOK
    /\ part = "gateways" => Gateway!TypeOK
    /\ part = "approvals" => Approval!TypeOK
    /\ part = "overrides" => Override!TypeOK
    /\ part = "audit" => Audit!TypeOK
    /\ part = "platform" => Platform!TypeOK
    /\ part = "control" => Control!TypeOK
    /\ part = "sdlc" => SDLC!TypeOK
    /\ part = "runtimes" => Runtimes!TypeOK
    /\ part = "incidence" => Incidence!TypeOK
    /\ part = "lint" => Lint!TypeOK
    /\ part = "workflows" => Workflows!TypeOK
    /\ part = "traces" => Trace!TypeOK
    /\ part = "measures" => Measure!TypeOK
    /\ part = "policies" => Policies!TypeOK
    /\ part = "symptoms" => Symptom!TypeOK
    /\ part = "agent" => Agent!TypeOK
    /\ part = "loop" => Loop!TypeOK
    /\ part = "triggers" => Triggers!SourcesTypeOK
    /\ part = "bindings" => Triggers!TypeOK

(* What the registry says of an asset version holds together: packages are *)
(* stored once, an asset is approved or published only for who may, drift  *)
(* deprecates every version of its endpoint; what the marketplace has      *)
(* installed of a tier is what its search shows, and each change of a      *)
(* proposal follows an acceptance of its own.                              *)
CatalogSound ==
    /\ part = "registry" => Registry!CatalogSound
    /\ part = "registry" => Registry!DriftDeprecates
    /\ part = "marketplace" => Market!MarketSound

(* A version in a tenant's artifact store is not replaced where the store  *)
(* can refuse it, its manifest tells its bytes, and nothing is put where   *)
(* the driver reports a public store, which only the one for GitHub does.  *)
StoreSound == part = "artifacts" => Artifacts!StoreSound

(* Applications, their slugs and their design systems, the purge of the    *)
(* specifications that belong to none, the documents of openspec with      *)
(* their versions, whose drafts become one document each; the view of a    *)
(* specification tells what came of it, the metrics of an asset add up, and *)
(* a linted workflow completes when its dependencies are plain.            *)
AppsSound ==
    /\ part = "applications" => Applications!AppsSound
    /\ part = "migration" => Migration!PurgesOrphans
    /\ part = "specifications" => Specifications!SpecsSound
    /\ part = "traces" => Trace!ViewsTell
    /\ part = "measures" => Measure!MetricsSound
    /\ part = "lint" => Lint!LintSound

(* An onboarding request runs its stages once each and in order, and a     *)
(* viewer of its stream that saw it end saw every event.                   *)
OnboardingSound == part = "onboarding" => Onboarding!OnboardingSound

(* Calls through the gateways: how many are let in a window, for which of  *)
(* them a credential is fetched, what the caller gets of the stream, and   *)
(* which keys verify an identity.                                          *)
GatewaysSound == part = "gateways" => Gateway!GatewaysSound

(* An approval is told one outcome across crashes of the service, an       *)
(* override ends once, verify finds a chain whose inserts ended in order   *)
(* whole, and a deployment passes only the policies it meets, in whatever  *)
(* order they stand.                                                       *)
GovernanceSound ==
    /\ part = "approvals" => Approval!OneOutcome
    /\ part = "overrides" => Override!EndsOnce
    /\ part = "audit" => Audit!TrailSound
    /\ part = "policies" => Policies!PoliciesSound

(* What a subject may do in the control plane follows from a platform role *)
(* or from an owner's tuple, and a mutation of platform operations or a    *)
(* noise rule, where webhooks are signed, from the review asked for it.    *)
AccessSound ==
    /\ part = "control" => Control!AccessSound
    /\ part = "platform" => Platform!RulesByReview
    /\ part = "platform" => Platform!ActsOnConsent

(* A phase of an initiative is passed over only where its plan allows, a   *)
(* revoked runtime is not used again unless an operation overlapped, and   *)
(* is verified as it was checked, alerts of one signature share an         *)
(* incident while it is open, and a reference to a major version resolves  *)
(* to one that breaks nothing.                                             *)
OperationsSound ==
    /\ part = "sdlc" => SDLC!NoPhaseMissed
    /\ part = "runtimes" => Runtimes!RevocationHolds
    /\ part = "runtimes" => Runtimes!VerifyAgrees
    /\ part = "incidence" => Incidence!OneIncident
    /\ part = "workflows" => Workflows!MajorLineServes

(* A probe is down after as many failures in a row as it takes, no event   *)
(* of an emitter is lost without being counted among the missing, and the  *)
(* triager decides about every event it commits.                           *)
SymptomsSound == part = "symptoms" => Symptom!SymptomsSound

(* Alfred's sessions: a run that is left alone calls its plan in order and *)
(* a paused one can be resumed; the wizard's loop runs only what policy    *)
(* and permission let through, and pages for the trips of one hour.        *)
AgentsSound ==
    /\ part = "agent" => Agent!PlanFollowed
    /\ part = "agent" => Agent!PausedCanResume
    /\ part = "loop" => Loop!LoopSound

(* Every subscription of trigger-router stands in the index of its type,   *)
(* whatever types it had before (Registry.ByType).                         *)
IndexComplete == part = "bindings" => Triggers!IndexComplete

(* A Refresh with no change meanwhile leaves the cron scheduler and the    *)
(* bus router with the keys of what is registered; a topic's handlers on   *)
(* the bus are those of the keys that count as subscribed, one each at its *)
(* position, until a handler other than the newest is cancelled there, and *)
(* never fewer (CronScheduler.Refresh, EventBusRouter.Refresh).            *)
KeysFollow == part = "bindings" => Triggers!KeysFollow

(* No matching message is passed over by the email poller, also when its   *)
(* subscription goes and comes back.                                       *)
NothingOverlooked == part = "triggers" => Triggers!NothingOverlooked

Symmetry == Permutations(Requests) \cup Permutations(AppIds) \cup Permutations(Prs)
=============================================================================
