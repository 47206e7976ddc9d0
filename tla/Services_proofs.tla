---------------------------- MODULE Services_proofs ----------------------------
(***************************************************************************)
(* What the services of MCServices promise, proved of its specification    *)
(* for any constants that meet the named assumptions.  Oversight_proofs    *)
(* and Delivery_proofs have the proofs of the services one by one, and     *)
(* know nothing of the others.  The lemmas *Kept say that a service keeps  *)
(* its invariant in every behaviour in which it is the part that steps,    *)
(* and the theorems that the invariants imply the properties of the run.   *)
(***************************************************************************)
EXTENDS MCServices, Oversight_proofs, Delivery_proofs

(* The assumptions of MCServices are those the services' proofs start from.*)

(* Control plane: ids and names do not collide.                            *)
LEMMA SubjectsAreNamed == WellNamed
BY SubjectsNamed DEF WellNamed

(* Rules and windows have their fields.                                    *)
LEMMA PoliciesReadable == PolicyData
BY RulesReadable, WindowsReadable, Zenon
DEF PolicyData, Rule, FreezeWindow

(* The pipeline registers what it made.                                    *)
LEMMA StagesReadable == StagesInOrder
BY StagesListed DEF StagesInOrder

(* The phases stand in an order.                                           *)
LEMMA PhasesReadable == PhasesInOrder
BY PhasesListed DEF PhasesInOrder

(* Runtimes and signatures have names, versions have numbers.              *)
LEMMA RowsReadable == RuntimesNamed /\ SignaturesNamed /\ VersionsNumbered
BY RuntimesAreNamed, AlertsNamed, VersionsAreNumbers
DEF RuntimesNamed, SignaturesNamed, VersionsNumbered, SemVer

(* No request is the absent hash.                                          *)
LEMMA RequestsReadable == RequestsCounted
BY RequestsNamed DEF RequestsCounted

(* A probe has a debounce.                                                 *)
LEMMA ProbesReadable == ProbesDebounced
BY ProbesDebounce DEF ProbesDebounced

(* The guardrails have a window and a queue, a session has runs.           *)
LEMMA AlfredReadable == TripsNumbered /\ RunsNumbered
BY TripsCounted, RunsCounted DEF TripsNumbered, RunsNumbered
-----------------------------------------------------------------------------
(* In every behaviour, the part that steps keeps its invariant.            *)
LEMMA ApprovalsKept == Spec => [](part = "approvals" => ApprovalInv)
<1> DEFINE Inv == part = "approvals" => ApprovalInv
<1>1. Init => Inv
  BY ApprovalAlways DEF Init
<1>2. ASSUME Inv, [Next]_vars PROVE Inv'
  <2>1. part = "approvals" => [Approval!Next]_(Approval!approvals)
    BY <1>2, Zenon DEF Next, vars, approvals, Approval!approvals
  <2>2. part' = part
    BY <1>2 DEF Next, vars
  <2> QED BY <1>2, <2>1, <2>2, ApprovalAlways
<1> QED BY <1>1, <1>2, PTL DEF Spec

(* The same of the part overrides.                                         *)
LEMMA OverridesKept == Spec => [](part = "overrides" => OverrideInv)
<1> DEFINE Inv == part = "overrides" => OverrideInv
<1>1. Init => Inv
  BY OverrideAlways DEF Init
<1>2. ASSUME Inv, [Next]_vars PROVE Inv'
  <2>1. part = "overrides" => [Override!Next]_(Override!overrides)
    BY <1>2, Zenon DEF Next, vars, overrides, Override!overrides
  <2>2. part' = part
    BY <1>2 DEF Next, vars
  <2> QED BY <1>2, <2>1, <2>2, OverrideAlways
<1> QED BY <1>1, <1>2, PTL DEF Spec

(* The same of the part audit.                                             *)
LEMMA AuditKept == Spec => [](part = "audit" => AuditInv)
<1> DEFINE Inv == part = "audit" => AuditInv
<1>1. Init => Inv
  BY AuditAlways, EventsTimed DEF Init
<1>2. ASSUME Inv, [Next]_vars PROVE Inv'
  <2>1. part = "audit" => [Audit!Next]_(Audit!audit)
    BY <1>2, Zenon DEF Next, vars, audit, Audit!audit
  <2>2. part' = part
    BY <1>2 DEF Next, vars
  <2> QED BY <1>2, <2>1, <2>2, AuditAlways, EventsTimed
<1> QED BY <1>1, <1>2, PTL DEF Spec

(* The same of the part policies.                                          *)
LEMMA PoliciesKept == Spec => [](part = "policies" => PolicyInv)
<1> DEFINE Inv == part = "policies" => PolicyInv
<1>1. Init => Inv
  BY PolicyAlways, PoliciesReadable DEF Init
<1>2. ASSUME Inv, [Next]_vars PROVE Inv'
  <2>1. part = "policies" => [Policies!Next]_(Policies!gate)
    BY <1>2, Zenon DEF Next, vars, policies, Policies!gate
  <2>2. part' = part
    BY <1>2 DEF Next, vars
  <2> QED BY <1>2, <2>1, <2>2, PolicyAlways, PoliciesReadable
<1> QED BY <1>1, <1>2, PTL DEF Spec

(* The same of the part control.                                           *)
LEMMA ControlKept == Spec => [](part = "control" => JInv)
<1> DEFINE Inv == part = "control" => JInv
<1>1. Init => Inv
  BY ControlAlways, SubjectsAreNamed DEF Init
<1>2. ASSUME Inv, [Next]_vars PROVE Inv'
  <2>1. part = "control" => [Control!Next]_(Control!control)
    BY <1>2, Zenon DEF Next, vars, control, Control!control
  <2>2. part' = part
    BY <1>2 DEF Next, vars
  <2> QED BY <1>2, <2>1, <2>2, ControlAlways, SubjectsAreNamed
<1> QED BY <1>1, <1>2, PTL DEF Spec

(* The same of the part platform.                                          *)
LEMMA PlatformKept == Spec => [](part = "platform" => PlatformInv)
<1> DEFINE Inv == part = "platform" => PlatformInv
<1>1. Init => Inv
  BY PlatformAlways DEF Init
<1>2. ASSUME Inv, [Next]_vars PROVE Inv'
  <2>1. part = "platform" => [Platform!Next]_(Platform!platform)
    BY <1>2, Zenon DEF Next, vars, platform, Platform!platform
  <2>2. part' = part
    BY <1>2 DEF Next, vars
  <2> QED BY <1>2, <2>1, <2>2, PlatformAlways
<1> QED BY <1>1, <1>2, PTL DEF Spec

(* The same of the part gateways.                                          *)
LEMMA GatewaysKept == Spec => [](part = "gateways" => GatewayInv)
<1> DEFINE Inv == part = "gateways" => GatewayInv
<1>1. Init => Inv
  BY GatewayAlways, CallsLimited DEF Init
<1>2. ASSUME Inv, [Next]_vars PROVE Inv'
  <2>1. part = "gateways" => [Gateway!Next]_(Gateway!gateways)
    BY <1>2, Zenon DEF Next, vars, gateways, Gateway!gateways
  <2>2. part' = part
    BY <1>2 DEF Next, vars
  <2> QED BY <1>2, <2>1, <2>2, GatewayAlways, CallsLimited
<1> QED BY <1>1, <1>2, PTL DEF Spec

(* The same of the part onboarding.                                        *)
LEMMA OnboardingKept == Spec => [](part = "onboarding" => OnboardInv)
<1> DEFINE Inv == part = "onboarding" => OnboardInv
<1>1. Init => Inv
  BY OnboardAlways, StagesReadable DEF Init
<1>2. ASSUME Inv, [Next]_vars PROVE Inv'
  <2>1. part = "onboarding" => [Onboarding!Next]_(Onboarding!onboard)
    BY <1>2, Zenon
       DEF Next, vars, onboarding, Onboarding!onboard, Onboarding!stored
  <2>2. part' = part
    BY <1>2 DEF Next, vars
  <2> QED BY <1>2, <2>1, <2>2, OnboardAlways, StagesReadable
<1> QED BY <1>1, <1>2, PTL DEF Spec

(* The same of the part artifacts.                                         *)
LEMMA ArtifactsKept == Spec => [](part = "artifacts" => StoreInv)
<1> DEFINE Inv == part = "artifacts" => StoreInv
<1>1. Init => Inv
  BY StoreAlways, DigestsNamed DEF Init
<1>2. ASSUME Inv, [Next]_vars PROVE Inv'
  <2>1. part = "artifacts" => [Artifacts!Next]_(Artifacts!store)
    BY <1>2, Zenon DEF Next, vars, artifacts, Artifacts!store
  <2>2. part' = part
    BY <1>2 DEF Next, vars
  <2> QED BY <1>2, <2>1, <2>2, StoreAlways, DigestsNamed
<1> QED BY <1>1, <1>2, PTL DEF Spec

(* The same of the part sdlc.                                              *)
LEMMA SDLCsKept == Spec => [](part = "sdlc" => SDLCInv)
<1> DEFINE Inv == part = "sdlc" => SDLCInv
<1>1. Init => Inv
  BY SDLCAlways, PhasesReadable DEF Init
<1>2. ASSUME Inv, [Next]_vars PROVE Inv'
  <2>1. part = "sdlc" => [SDLC!Next]_(SDLC!sdlc)
    BY <1>2, Zenon DEF Next, vars, sdlc, SDLC!sdlc
  <2>2. part' = part
    BY <1>2 DEF Next, vars
  <2> QED BY <1>2, <2>1, <2>2, SDLCAlways, PhasesReadable
<1> QED BY <1>1, <1>2, PTL DEF Spec

(* The same of the part runtimes.                                          *)
LEMMA RuntimesKept == Spec => [](part = "runtimes" => RuntimesInv)
<1> DEFINE Inv == part = "runtimes" => RuntimesInv
<1>1. Init => Inv
  BY RuntimesAlways, RowsReadable DEF Init
<1>2. ASSUME Inv, [Next]_vars PROVE Inv'
  <2>1. part = "runtimes" => [Runtimes!Next]_(Runtimes!runtimes)
    BY <1>2, Zenon DEF Next, vars, runtimes, Runtimes!runtimes
  <2>2. part' = part
    BY <1>2 DEF Next, vars
  <2> QED BY <1>2, <2>1, <2>2, RuntimesAlways, RowsReadable
<1> QED BY <1>1, <1>2, PTL DEF Spec

(* The same of the part incidence.                                         *)
LEMMA IncidentsKept == Spec => [](part = "incidence" => IncidenceInv)
<1> DEFINE Inv == part = "incidence" => IncidenceInv
<1>1. Init => Inv
  BY IncidenceAlways, RowsReadable DEF Init
<1>2. ASSUME Inv, [Next]_vars PROVE Inv'
  <2>1. part = "incidence" => [Incidence!Next]_(Incidence!incidence)
    BY <1>2, Zenon DEF Next, vars, incidence, Incidence!incidence
  <2>2. part' = part
    BY <1>2 DEF Next, vars
  <2> QED BY <1>2, <2>1, <2>2, IncidenceAlways, RowsReadable
<1> QED BY <1>1, <1>2, PTL DEF Spec

(* The same of the part workflows.                                         *)
LEMMA WorkflowsKept == Spec => [](part = "workflows" => WorkflowsInv)
<1> DEFINE Inv == part = "workflows" => WorkflowsInv
<1>1. Init => Inv
  BY WorkflowsAlways, RowsReadable DEF Init
<1>2. ASSUME Inv, [Next]_vars PROVE Inv'
  <2>1. part = "workflows" => [Workflows!Next]_(Workflows!workflowRegistry)
    BY <1>2, Zenon DEF Next, vars, workflows, Workflows!workflowRegistry
  <2>2. part' = part
    BY <1>2 DEF Next, vars
  <2> QED BY <1>2, <2>1, <2>2, WorkflowsAlways, RowsReadable
<1> QED BY <1>1, <1>2, PTL DEF Spec

(* The same of the part registry.                                          *)
LEMMA RegistryKept == Spec => [](part = "registry" => RegistryInv)
<1> DEFINE Inv == part = "registry" => RegistryInv
<1>1. Init => Inv
  BY RegistryAlways, RequestsReadable DEF Init
<1>2. ASSUME Inv, [Next]_vars PROVE Inv'
  <2>1. part = "registry" => [Registry!Next]_(Registry!vars)
    BY <1>2, Zenon DEF Next, vars, registry, Registry!vars, Registry!tables,
        Registry!history
  <2>2. part' = part
    BY <1>2 DEF Next, vars
  <2> QED BY <1>2, <2>1, <2>2, RegistryAlways, RequestsReadable
<1> QED BY <1>1, <1>2, PTL DEF Spec

(* The same of the part marketplace.                                       *)
LEMMA MarketKept == Spec => [](part = "marketplace" => MarketInv)
<1> DEFINE Inv == part = "marketplace" => MarketInv
<1>1. Init => Inv
  BY MarketAlways DEF Init
<1>2. ASSUME Inv, [Next]_vars PROVE Inv'
  <2>1. part = "marketplace" => [Market!Next]_(Market!market)
    BY <1>2, Zenon DEF Next, vars, marketplace, Market!market
  <2>2. part' = part
    BY <1>2 DEF Next, vars
  <2> QED BY <1>2, <2>1, <2>2, MarketAlways
<1> QED BY <1>1, <1>2, PTL DEF Spec

(* The same of the part symptoms.                                          *)
LEMMA SymptomsKept == Spec => [](part = "symptoms" => SymptomsInv)
<1> DEFINE Inv == part = "symptoms" => SymptomsInv
<1>1. Init => Inv
  BY ProbesReadable, SymptomsAlways DEF Init
<1>2. ASSUME Inv, [Next]_vars PROVE Inv'
  <2>1. part = "symptoms" => [Symptom!Next]_(Symptom!symptoms)
    BY <1>2, Zenon DEF Next, vars, symptoms, Symptom!symptoms,
       Symptom!emitters, Symptom!log, Symptom!triager
  <2>2. part' = part
    BY <1>2 DEF Next, vars
  <2> QED BY <1>2, <2>1, <2>2, SymptomsAlways, ProbesReadable
<1> QED BY <1>1, <1>2, PTL DEF Spec

(* The same of the part loop.                                              *)
LEMMA LoopKept == Spec => [](part = "loop" => LoopInv)
<1> DEFINE Inv == part = "loop" => LoopInv
<1>1. Init => Inv
  BY LoopAlways, AlfredReadable DEF Init
<1>2. ASSUME Inv, [Next]_vars PROVE Inv'
  <2>1. part = "loop" => [Loop!Next]_(Loop!alfred)
    BY <1>2, Zenon DEF Next, vars, loop, Loop!alfred, Loop!run, Loop!guard
  <2>2. part' = part
    BY <1>2 DEF Next, vars
  <2> QED BY <1>2, <2>1, <2>2, LoopAlways, AlfredReadable
<1> QED BY <1>1, <1>2, PTL DEF Spec

(* The same of the part agent.                                             *)
LEMMA AgentKept == Spec => [](part = "agent" => AgentInv)
<1> DEFINE Inv == part = "agent" => AgentInv
<1>1. Init => Inv
  BY AgentAlways, AlfredReadable DEF Init
<1>2. ASSUME Inv, [Next]_vars PROVE Inv'
  <2>1. part = "agent" => [Agent!Next]_(Agent!vars)
    BY <1>2, Zenon DEF Next, vars, agent, Agent!vars
  <2>2. part' = part
    BY <1>2 DEF Next, vars
  <2> QED BY <1>2, <2>1, <2>2, AgentAlways, AlfredReadable
<1> QED BY <1>1, <1>2, PTL DEF Spec

(* The mailbox steps in the part "triggers", beside the registry.          *)
LEMMA MailKept == Spec => [](part = "triggers" => MailInv)
<1> DEFINE Inv == part = "triggers" => MailInv
<1>1. Init => Inv
  BY MailAlways, MessagesCounted DEF Init, Triggers!SourcesInit
<1>2. ASSUME Inv, [Next]_vars PROVE Inv'
  <2>1. part = "triggers" => Triggers!SourcesNext \/ UNCHANGED triggers
    BY <1>2, Zenon DEF Next, vars
  <2>2. part' = part
    BY <1>2 DEF Next, vars
  <2>3. part = "triggers" => [Triggers!MailNext]_(Triggers!mailVars)
    BY <2>1, Zenon
    DEF Triggers!SourcesNext, Triggers!PollerStep, Triggers!mailVars, triggers
  <2> QED BY <1>2, <2>2, <2>3, MailAlways, MessagesCounted
<1> QED BY <1>1, <1>2, PTL DEF Spec

(* The registry and what follows it step in the part "bindings".           *)
LEMMA BindingsKept == Spec => [](part = "bindings" => TriggersInv)
<1> DEFINE Inv == part = "bindings" => TriggersInv
<1>1. Init => Inv
  BY TriggersInit, VersionsCounted DEF Init, Triggers!SourcesInit
<1>2. ASSUME Inv, [Next]_vars PROVE Inv'
  <2>1. part = "bindings" => [Triggers!Next]_(Triggers!vars)
    BY <1>2, Zenon DEF Next, vars, triggers, Triggers!vars
  <2>2. part' = part
    BY <1>2 DEF Next, vars
  <2>3. TriggersInv /\ [Triggers!Next]_(Triggers!vars) => TriggersInv'
    BY IndexStep, KeysStep, VersionsCounted DEF TriggersInv
  <2> QED BY <1>2, <2>1, <2>2, <2>3
<1> QED BY <1>1, <1>2, PTL DEF Spec

-----------------------------------------------------------------------------
(* Whatever the crashes, expiries, overlaps and orders of rules: an        *)
(* approval is told one outcome (Orchestrator.Decide, ExpireDue and Load), *)
(* an override ends once (overrides.go), verify finds a chain whose        *)
(* inserts ended in order whole and nothing else (Consumer.Run, Verify),   *)
(* and a deployment goes to production only on an unexpired approval that  *)
(* names no other image, outside its freezes and, where the orchestrator   *)
(* has an engine, without a rule against it, in whatever order they were   *)
(* loaded (requireApprovalProd, Engine.Evaluate, NewEngine, DayHour).      *)
THEOREM GovernanceHolds == Spec => []GovernanceSound
<1>1. /\ part = "approvals" => ApprovalInv
      /\ part = "overrides" => OverrideInv
      /\ part = "audit" => AuditInv
      /\ part = "policies" => PolicyInv
      => GovernanceSound
  BY EventsTimed, PoliciesReadable,
     ApprovalAlways, OverrideAlways, AuditAlways, PolicyAlways
  DEF GovernanceSound
<1> QED BY <1>1, ApprovalsKept, OverridesKept, AuditKept, PoliciesKept, PTL

(* Who reaches or changes a workspace was allowed to, whatever background  *)
(* writes of tuples are lost (control-plane handlers); a noise rule and a  *)
(* platform mutation follow from the pull request or the consent they ask  *)
(* for, also when webhooks and calls overlap (platform-ops), a promoted    *)
(* rule from a merge where the webhooks are signed.                        *)
THEOREM AccessHolds == Spec => []AccessSound
<1>1. /\ part = "control" => JInv
      /\ part = "platform" => PlatformInv
      => AccessSound
  BY SubjectsAreNamed, ControlAlways, PlatformAlways
     DEF AccessSound
<1> QED BY <1>1, ControlKept, PlatformKept, PTL

(* Every subscription is found under its type, whatever types its version  *)
(* had before (Registry.ByType), in any number of changes.                 *)
THEOREM IndexStaysComplete == Spec => []IndexComplete
<1>1. (part = "bindings" => TriggersInv) => IndexComplete
  BY DEF TriggersInv, IndexComplete
<1> QED BY <1>1, BindingsKept, PTL

(* A Refresh leaves the cron entries and the cancel functions of what is   *)
(* registered then, and of nothing else; the handlers on the bus are those *)
(* of the cancel functions, one each at its position, as long as no topic  *)
(* was shifted, and never fewer (CronScheduler.Refresh,                    *)
(* EventBusRouter.Refresh, ChannelBus.Subscribe).                          *)
THEOREM KeysAlwaysFollow == Spec => []KeysFollow
<1>1. (part = "bindings" => TriggersInv) => KeysFollow
  BY DEF TriggersInv, KeysFollow
<1> QED BY <1>1, BindingsKept, PTL

(* The email poller passes no matching message over, whatever arrives      *)
(* while it polls and however its subscription changes (pollOne).          *)
THEOREM MailHolds == Spec => []NothingOverlooked
<1>1. (part = "triggers" => MailInv) => NothingOverlooked
  BY MessagesCounted, MailAlways DEF NothingOverlooked
<1> QED BY <1>1, MailKept, PTL

(* Through the gateways: a window lets no more calls through than its      *)
(* limit, a signature can be verified until the second rotation after it   *)
(* was made, no credential is fetched for a call that is denied, and the   *)
(* caller gets the events of a stream in order and without a gap (mcp-,    *)
(* a2a- and skill-gateway, limiter.Allow, JWKS, streamSSE), for any number *)
(* of calls and events and any limit.                                      *)
THEOREM GatewaysHold == Spec => []GatewaysSound
<1>1. (part = "gateways" => GatewayInv) => GatewaysSound
  BY CallsLimited, GatewayAlways DEF GatewaysSound
<1> QED BY <1>1, GatewaysKept, PTL

(* A submission runs every stage once and in order, one runner each, and a *)
(* viewer of its stream that saw it end saw every event, whatever restarts *)
(* come between (app-onboarding's run, AppendEvent and handleSSE).         *)
THEOREM OnboardingHolds == Spec => []OnboardingSound
<1>1. (part = "onboarding" => OnboardInv) => OnboardingSound
  BY StagesReadable, OnboardAlways DEF OnboardingSound
<1> QED BY <1>1, OnboardingKept, PTL

(* A version in the artifact store is not replaced where the store can     *)
(* refuse it, the manifest beside it tells the bytes it holds, and nothing *)
(* is put where the driver reports a public store, which the driver for    *)
(* GitHub alone looks for (IsPublicStorage), whatever publishing jobs      *)
(* overlap, whatever answers of the store are lost and whatever retention  *)
(* deletes.                                                                *)
THEOREM StoreIsSound == Spec => []StoreSound
<1>1. (part = "artifacts" => StoreInv) => StoreSound
  BY DigestsNamed, StoreAlways DEF StoreSound
<1> QED BY <1>1, ArtifactsKept, PTL

(* However operations overlap, an initiative is past no phase its plan     *)
(* asks for (Service.CompletePhase, Regress), a revoked runtime stays      *)
(* revoked unless an operation had read its row before (RunPreflight,      *)
(* Destroy) and is verified as it was checked, alerts of one signature     *)
(* within the window are one incident, with the evidence of each           *)
(* (Store.upsert), and a workflow's version serves whatever was built on   *)
(* an earlier one of its major line (Service.PublishVersion), for any      *)
(* phases, runtimes, alerts, window, contents and number of versions.      *)
THEOREM OperationsHold == Spec => []OperationsSound
<1>1. /\ part = "sdlc" => SDLCInv
      /\ part = "runtimes" => RuntimesInv
      /\ part = "incidence" => IncidenceInv
      /\ part = "workflows" => WorkflowsInv
      => OperationsSound
  BY PhasesReadable, RowsReadable,
     SDLCAlways, RuntimesAlways, IncidenceAlways, WorkflowsAlways
  DEF OperationsSound
<1> QED BY <1>1, SDLCsKept, RuntimesKept, IncidentsKept, WorkflowsKept, PTL

(* However requests, the drift cron and mirroring overlap in the registry, *)
(* an asset version is published only after it was approved above T0, and  *)
(* packaged once (gatewayPublishHook), and does not stay approved with a   *)
(* manifest other than the one it was approved with (Runner.processRow);   *)
(* an install of what was published at one of the tiers is what the rules  *)
(* of Install would allow today (Service.Approve, Install), and every      *)
(* change made of a proposal has its own acceptance (Service.Review), for  *)
(* any versions, requests, changes of manifests, listings, proposals and   *)
(* reviewers.                                                              *)
THEOREM CatalogHolds == Spec => []CatalogSound
<1>1. /\ part = "registry" => RegistryInv
      /\ part = "marketplace" => MarketInv
      => CatalogSound
  BY RequestsReadable, RegistryAlways, MarketAlways
  DEF CatalogSound
<1> QED BY <1>1, RegistryKept, MarketKept, PTL

(* Whatever publications fail, buffers overflow, emitters or the triager   *)
(* stop: a probe is down exactly while its last checks, as many as the     *)
(* debounce, all failed (Runner.check); every event made is on the topic,  *)
(* in the log emitter's buffer or counted as missing, once, and the log    *)
(* emitter keeps its order; what the triager committed was decided, and    *)
(* one event is given more sessions than one only by a stop of it          *)
(* (Engine.Decide), for any probes, debounce, thresholds, size of the      *)
(* buffer and number of events and stops.                                  *)
THEOREM SymptomsHold == Spec => []SymptomsSound
<1>1. (part = "symptoms" => SymptomsInv) => SymptomsSound
  BY ProbesReadable, SymptomsAlways DEF SymptomsSound
<1> QED BY <1>1, SymptomsKept, PTL

(* A session of agent mode that no request or failure meets while it runs  *)
(* calls the steps of its plan in their order and none twice, through any  *)
(* number of pauses, replannings and follow-ups, is completed only when    *)
(* each was called or has failed, and can go on from every pause           *)
(* (execute_session, resume, replan). Of the tools the wizard's loop       *)
(* invokes one at most found the delegation revoked, none but the last     *)
(* goes without its record, and none is invoked where the run was halted   *)
(* or denied (run_intent); security is paged at exactly the trips that are *)
(* more than the threshold within the window, and the review queue has the *)
(* newest (Guardrails), for any plans, threshold, window and queue and any *)
(* number of iterations and trips.                                         *)
THEOREM AgentsHold == Spec => []AgentsSound
<1>1. /\ part = "agent" => AgentInv
      /\ part = "loop" => LoopInv
      => AgentsSound
  BY AlfredReadable, AgentAlways, LoopAlways DEF AgentsSound
<1> QED BY <1>1, AgentKept, LoopKept, PTL
=============================================================================
