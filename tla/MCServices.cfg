SPECIFICATION Spec
CONSTANTS
    Versions = {v1, v2}
    Requests = {x1, x2}
    Families = {"external", "skill", "design_system"}
    MaxDrift = 1
    Listings = {"l1"}
    Proposals = {"p1"}
    Reviewers = {x1, x2}
    Jobs = {x1, x2}
    Digests = {"d1", "d2"}
    MaxDeletes = 1
    Callers = {x1, x2}
    AppIds = {y1, y2}
    Prs = {z1, z2}
    Slugs = {"shop", "_unassigned"}
    Unassigned = "_unassigned"
    Systems = {"ds-forge-default", "ds-new"}
    Default = "ds-forge-default"
    Specs = {"s1"}
    SpecIds = {"i1", "i2"}
    Dialogues = {"d1"}
    SpecHomes = {"h1"}
    MaxTurns = 1
    MaxEdits = 3
    MaxFaults = 1
    Submissions = {x1, x2}
    Apps = {"a1", "a2"}
    Stages <- OnboardingStages
    MaxRestarts = 1
    Calls = {x1, x2}
    Limit = 1
    BufferSize = 1
    Length = 2
    MaxWindows = 2
    MaxRotations = 2
    Approvals = {x1, x2}
    MaxCrashes = 2
    Overrides = {x1, x2}
    MaxTTL = 2
    MaxTime = 3
    Consumers = {"c1", "c2"}
    Partitions <- AuditedTimes
    Times = {1, 2}
    MaxKills = 1
    NoiseRules = {"r1"}
    Subjects = {"s1", "s2", "s3"}
    Username <- Usernames
    Roles <- RealmRoles
    Owners = {{}, {"s3"}, {"bob"}}
    Tenants = {"t1"}
    Units = {"u1"}
    Spaces = {"w1"}
    OrderedPhases <- ThreePhases
    PhasePolicies <- OnePlan
    Editors = {x1, x2}
    RuntimeIds = {"r1"}
    Operators = {x1, x2}
    Alerts = {x1, x2}
    Signatures = {"s"}
    AlertSources = {"prometheus", "cloud-monitoring"}
    Window = 1
    Linted <- LintedDocuments
    WorkflowNames = {"w"}
    Contents <- PublishedContents
    SemVers <- PublishedVersions
    MaxVersions = 4
    Recorders = {x1, x2}
    Posts <- TracedPosts
    Traced = {"i1", "i2", "i3"}
    Posted <- PostedCalls
    Emitted <- GatewayEvents
    Installers = {x1, x2}
    Releases = {"1", "2"}
    Windows <- Ranges
    Buckets = {1, 2}
    ActiveFor = 1
    DriftWindow = 1
    DriftDelta = 5
    MaxInvocations = 3
    MaxHour = 1
    Deployments <- DeployRequests
    Freezes <- FrozenHours
    HoursADay = 2
    RuleSets <- EngineRules
    SDLCGates <- PhaseGates
    Criticalities = {"", "low", "medium", "HIGH", "critical", "urgent"}
    MaxApproved = 1
    Probes = {"alfred"}
    ProbeSeverity = "critical"
    Debounce = 2
    Thresholds = {"lag"}
    RuleSignal = "kafka-consumer-lag"
    RuleSeverity = "warning"
    LogClass = "Panic"
    BufSize = 1
    MaxMade = 2
    MaxStops = 1
    ToolSteps = {1, 2}
    MaxRuns = 2
    MaxItems = 4
    MaxDisruptions = 1
    MaxIterations = 2
    Hour = 1
    Threshold = 1
    MaxQueue = 2
    MaxTrips = 3
    MaxHours = 2
    Expressions = {"hourly"}
    Topics = {"topic"}
    Mailboxes = {"inbox"}
    MaxChanges = 5
    MaxBeside = 2
    Inbox = v1
    Messages = {x1, x2, m3}
    Matching = {x1, x2}
    MaxNow = 2
    MaxPolls = 2
SYMMETRY Symmetry
INVARIANTS ServicesTypeOK CatalogSound StoreSound AppsSound OnboardingSound
    GatewaysSound GovernanceSound AccessSound OperationsSound SymptomsSound
    AgentsSound IndexComplete KeysFollow NothingOverlooked
CHECK_DEADLOCK FALSE
