------------------------------- MODULE Delivery -------------------------------
(***************************************************************************)
(* The services that take an asset from its request to where it runs, each *)
(* over state of its own: onboarding, the artifact store, the initiatives  *)
(* of the SDLC, the runtimes, the workflow registry, the registry of       *)
(* assets, the marketplace, the triggers that start workflows and the      *)
(* sessions of Alfred's agent mode.                                        *)
(***************************************************************************)
EXTENDS Integers, Sequences, FiniteSets

CONSTANTS
    Submissions, Apps, Stages, MaxRestarts,
    Jobs, Digests, MaxDeletes,
    OrderedPhases, PhasePolicies, Editors,
    RuntimeIds, Operators,
    WorkflowNames, Contents, SemVers, MaxVersions,
    Versions, Requests, Families, MaxDrift,
    Listings, Proposals, Reviewers,
    Expressions, Topics, Mailboxes, MaxChanges,
    Inbox, Messages, Matching, MaxNow, MaxPolls,
    ToolSteps, MaxRuns, MaxItems, MaxDisruptions

VARIABLES
    app, status, assetOf, log, at, repo, viewer, restarts,
    backend, policy, open, job, stored, sidecar, release, releases, cleaning, deletes,
    inFlight, wiped, blind, overwrote, kept,
    initiative, copy, jumped,
    runtime, held, applied, revoked, overlapped, verification,
    published, created, latest, serving,
    family, asset, package, endpoint, live, req, pass, trusted, reviewed,
    listing, installs, proposal, change, review, verdicts,
    subs, byType, entries, bus, cancels, refreshing, desired, cronFresh, busFresh,
    shifted, changes,
    received, now, batch, lastSeen, fired, failed, polls,
    session, steps, runs, followUp, calls, minted, disruptions, calm

Onboarding == INSTANCE Onboarding
Artifacts  == INSTANCE ArtifactStore WITH serial <- releases
SDLC       == INSTANCE SDLCOrchestrator WITH Targets <- PhasePolicies, Handlers <- Editors
Runtimes   == INSTANCE RuntimeRegistry WITH Runtimes <- RuntimeIds, report <- verification
Workflows  == INSTANCE WorkflowRegistry WITH Names <- WorkflowNames
Registry   == INSTANCE AssetRegistry
Market     == INSTANCE Marketplace
Triggers   == INSTANCE TriggerSources
Agent      == INSTANCE AgentSession WITH rows <- steps

-----------------------------------------------------------------------------
(* What the proofs need of the constants.                                  *)

(* The pipeline registers an asset last, after it made the repository.     *)
ASSUME StagesListed ==
    /\ Stages \in Seq(STRING) /\ Len(Stages) > 0
    /\ \A k \in 1..Len(Stages) : Stages[k] = "asset.register" =>
         k = Len(Stages) /\ \E i \in 1..(k - 1) : Stages[i] = "github.create_repo"
    /\ Onboarding!None \notin Submissions \cup Apps

(* No digest is the empty one, no request the absent hash.                 *)
ASSUME DigestsNamed  == Artifacts!None \notin Digests
ASSUME RequestsNamed == Registry!NoHash \notin Requests

(* The phases of an initiative are listed once each.                       *)
ASSUME PhasesListed ==
    /\ OrderedPhases \in Seq(STRING) /\ Len(OrderedPhases) > 0
    /\ {"none", "done"} \cap SDLC!Phases = {}
    /\ \A i, j \in DOMAIN OrderedPhases : OrderedPhases[i] = OrderedPhases[j] => i = j

(* No runtime has the name of none.                                        *)
ASSUME RuntimesAreNamed == "none" \notin RuntimeIds

(* A version is three numbers and whether it is a candidate.               *)
ASSUME VersionsAreNumbers ==
    SemVers \subseteq [major : Nat, minor : Nat, patch : Nat, pre : {"final", "rc"}]

(* Versions and messages can be counted, and no topic has the name of none. *)
ASSUME VersionsCounted == IsFiniteSet(Versions) /\ "none" \notin Topics
ASSUME MessagesCounted == IsFiniteSet(Messages) /\ Matching \subseteq Messages

(* A session has a first run, and a plan some number of tool steps.        *)
ASSUME RunsCounted == MaxRuns \in Nat \ {0} /\ ToolSteps \subseteq Nat
=============================================================================
