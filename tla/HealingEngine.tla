---------------------------- MODULE HealingEngine ----------------------------
(***************************************************************************)
(* The healing engine (services/healing-engine).  A Trigger call takes an  *)
(* incident, finds the action and the envelope that apply, decides how     *)
(* autonomous the reaction may be (L1 notify ... L5 act and roll back) and *)
(* then notifies, suggests, asks for approval or runs the action's         *)
(* workflow.  Calls run concurrently with each other and with the          *)
(* administrative requests: envelopes, actions, promotions, kill switch.   *)
(*                                                                         *)
(* The model keeps one capability and environment; criticalities, of which *)
(* each has at most one envelope, stay.  Levels are their rank.  Every     *)
(* Store method is atomic (it holds the store's mutex); what a call does   *)
(* between two of them is not.                                             *)
(***************************************************************************)
EXTENDS Naturals, FiniteSets, FiniteSetsExt, Sequences, TLC

CONSTANTS
  Calls,          \* requests: incident triggers, direct L1 and L2 requests
  Criticalities,
  EnvelopeShapes, \* the envelopes an administrator may store
  ActionShapes,   \* the catalog entries an administrator may register
  Hour,           \* the rate limiter's window, in clock ticks
  MaxNow,         \* bound on the clock
  MaxVersions,    \* bound on the registrations of the action
  MaxRequests     \* bound on the other administrative requests

Levels == 1..5

ASSUME EnvelopesWellFormed ==
  EnvelopeShapes \subseteq [default : 0..5, allowed : SUBSET Levels, limit : Nat]

ASSUME ActionsWellFormed ==
  ActionShapes \subseteq [reversible : BOOLEAN, levels : SUBSET Levels]

ASSUME CriticalitiesKnown == Criticalities # {}

ASSUME BoundsPositive ==
  /\ Hour \in Nat \ {0} /\ MaxNow \in Nat \ {0}
  /\ MaxVersions \in Nat /\ MaxRequests \in Nat

VARIABLES
  pc,          \* where each call stands
  consulted,   \* the criticality of the envelope it consults
  envelope,    \* that envelope, as read (SetEnvelope stores a new object)
  action,      \* the version of the action it holds a pointer to
  level,       \* decision.Level
  outcome,     \* decision.Outcome
  readAt,      \* the time it took before it entered the rate limiter
  passedAt,    \* when the rate limiter let it through
  workflow,    \* what its action's workflow did to the system
  escalated,   \* healing.escalated.v1 was emitted
  suggestion,  \* the L2 suggestion the call stored
  store,       \* criticality -> envelope
  objects,     \* the Action objects in order of registration; PromoteAction
               \* mutates them in place
  catalog,     \* the version Store.actions points to
  promoting,   \* a PromoteAction call that passed its checks
  kill,        \* the active kill switches
  buckets,     \* rateBuckets: criticality -> the invocations kept
  now, requests

clocks == <<readAt, passedAt>>
callVars == <<consulted, envelope, action, level, outcome, clocks,
              workflow, escalated, suggestion>>
adminVars == <<store, objects, catalog, promoting, kill, requests>>
vars == <<pc, callVars, adminVars, buckets, now>>

NoEnvelope == [default |-> 0, allowed |-> {}, limit |-> 0]
None == 0  \* no version, no level, no time

Stages == {"new", "matched", "timing", "limiting", "notifying", "proposing", "asking", "waiting",
           "executing", "verifying", "undoing", "saving", "over", "refused"}
Outcomes == {"", "suppressed", "blocked", "notified", "suggested",
             "waiting_approval", "executed", "failed", "rolled_back"}
Suggestions == {"none", "pending", "approved", "rejected"}

TypeOK ==
  /\ pc \in [Calls -> Stages]
  /\ consulted \in [Calls -> Criticalities]
  /\ envelope \in [Calls -> EnvelopeShapes \union {NoEnvelope}]
  /\ action \in [Calls -> 0..Len(objects)]
  /\ level \in [Calls -> 0..5]
  /\ outcome \in [Calls -> Outcomes]
  /\ readAt \in [Calls -> 0..MaxNow]
  /\ passedAt \in [Calls -> 0..MaxNow]
  /\ workflow \in [Calls -> {"none", "ran", "lost", "undone", "stuck"}]
  /\ escalated \in [Calls -> BOOLEAN]
  /\ suggestion \in [Calls -> [status : Suggestions, passed : BOOLEAN]]
  /\ store \in [Criticalities -> EnvelopeShapes \union {NoEnvelope}]
  /\ objects \in Seq([reversible : BOOLEAN, levels : SUBSET Levels])
  /\ catalog \in 0..Len(objects)
  /\ promoting \in [version : 0..Len(objects), level : 0..5]
  /\ kill \subseteq {"global", "workspace"}
  /\ buckets \in [Criticalities -> SUBSET (Calls \X (1..MaxNow))]
  /\ now \in 1..MaxNow
  /\ requests \in 0..MaxRequests

(* The store as set up before the first incident: each criticality has an  *)
(* envelope or none, and the action is registered or not.                  *)
Init ==
  /\ pc = [c \in Calls |-> "new"]
  /\ consulted = [c \in Calls |-> CHOOSE k \in Criticalities : TRUE]
  /\ envelope = [c \in Calls |-> NoEnvelope]
  /\ action = [c \in Calls |-> None]
  /\ level = [c \in Calls |-> None]
  /\ outcome = [c \in Calls |-> ""]
  /\ readAt = [c \in Calls |-> None]
  /\ passedAt = [c \in Calls |-> None]
  /\ workflow = [c \in Calls |-> "none"]
  /\ escalated = [c \in Calls |-> FALSE]
  /\ suggestion = [c \in Calls |-> [status |-> "none", passed |-> FALSE]]
  /\ store \in [Criticalities -> EnvelopeShapes \union {NoEnvelope}]
  /\ objects \in {<<>>} \union {<<a>> : a \in ActionShapes}
  /\ catalog = Len(objects)
  /\ promoting = [version |-> None, level |-> None]
  /\ kill = {}
  /\ buckets = [k \in Criticalities |-> {}]
  /\ now = 1
  /\ requests = 0

-----------------------------------------------------------------------------
(* The decision *)

(* GetEnvelope: the envelope of the criticality, else whichever envelope   *)
(* of the capability and environment the map iteration meets first.        *)
Stored == {k \in Criticalities : store[k] # NoEnvelope}
Candidates(k) == IF k \in Stored THEN {k} ELSE Stored

(* highestAllowed                                                          *)
Highest(allowed) == Max(allowed \union {1})

Requested(e) == IF e.default = None THEN 2 ELSE e.default

EnvelopeCap(e) ==
  IF Requested(e) \in e.allowed THEN Requested(e) ELSE Highest(e.allowed)

(* The action's own list for the environment; no list, no cap.             *)
ActionCap_NextUp(l, a) ==
  IF a.levels = {} \/ l \in a.levels THEN l + 1 ELSE Highest(a.levels)
ActionCap(l, a) == IF a.levels = {} \/ l \in a.levels THEN l ELSE Highest(a.levels)

(* Trigger reads the action and the envelope for the criticality of the    *)
(* incident.                                                               *)
Match(c, incident) ==
  /\ pc[c] = "new"
  /\ IF catalog = None \/ Stored = {}
       THEN /\ pc' = [pc EXCEPT ![c] = "refused"]
            /\ UNCHANGED callVars
       ELSE \E k \in Candidates(incident) :
              /\ pc' = [pc EXCEPT ![c] = "matched"]
              /\ consulted' = [consulted EXCEPT ![c] = k]
              /\ envelope' = [envelope EXCEPT ![c] = store[k]]
              /\ action' = [action EXCEPT ![c] = catalog]
              /\ UNCHANGED <<level, outcome, clocks, workflow, escalated,
                             suggestion>>
  /\ UNCHANGED <<adminVars, buckets, now>>

KillSwitch == kill # {}

(* The kill switch wins over everything.                                   *)
Suppress(c) ==
  /\ pc[c] = "matched"
  /\ KillSwitch
  /\ level' = [level EXCEPT ![c] = 1]
  /\ outcome' = [outcome EXCEPT ![c] = "suppressed"]
  /\ pc' = [pc EXCEPT ![c] = "saving"]
  /\ UNCHANGED <<consulted, envelope, action, clocks, workflow, escalated,
                 suggestion, adminVars, buckets, now>>

Path(l) == CASE l = 1 -> "notifying" [] l = 2 -> "proposing" [] l = 3 -> "asking"
             [] OTHER -> "executing"

(* The caps; then the rate limiter, if the envelope has a limit, else the  *)
(* path of the level.  degraded_by_envelope never survives the path.       *)
Decide(c) ==
  LET e == envelope[c]
      l == ActionCap(EnvelopeCap(e), objects[action[c]])
  IN /\ pc[c] = "matched"
     /\ ~KillSwitch
     /\ level' = [level EXCEPT ![c] = l]
     /\ pc' = [pc EXCEPT ![c] = IF e.limit > 0 THEN "timing" ELSE Path(l)]
     /\ UNCHANGED <<consulted, envelope, action, outcome, clocks, workflow,
                    escalated, suggestion, adminVars, buckets, now>>

(* The caller's s.Now(), before the store's lock is taken: others may pass *)
(* the limiter with a later time first.                                    *)
TakeTime(c) ==
  /\ pc[c] = "timing"
  /\ readAt' = [readAt EXCEPT ![c] = now]
  /\ pc' = [pc EXCEPT ![c] = "limiting"]
  /\ UNCHANGED <<consulted, envelope, action, level, outcome, passedAt,
                 workflow, escalated, suggestion, adminVars, buckets, now>>

(* trackInvocation: drop what is an hour older than the time it is given,  *)
(* or more, then count this call.                                          *)
Tracked_ShortHour(c) ==
  {x \in buckets[consulted[c]] : x[2] + Hour > readAt[c] + 1} \union {<<c, readAt[c]>>}
Tracked(c) ==
  {x \in buckets[consulted[c]] : x[2] + Hour > readAt[c]} \union {<<c, readAt[c]>>}

(* A blocked call stays in the bucket.                                     *)
Track(c) ==
  LET kept == Tracked(c)
  IN /\ pc[c] = "limiting"
     /\ buckets' = [buckets EXCEPT ![consulted[c]] = kept]
     /\ IF Cardinality(kept) > envelope[c].limit
          THEN /\ outcome' = [outcome EXCEPT ![c] = "blocked"]
               /\ pc' = [pc EXCEPT ![c] = "saving"]
               /\ passedAt' = passedAt
          ELSE /\ outcome' = outcome
               /\ pc' = [pc EXCEPT ![c] = Path(level[c])]
               /\ passedAt' = [passedAt EXCEPT ![c] = now]
     /\ UNCHANGED <<consulted, envelope, action, level, readAt, workflow,
                    escalated, suggestion, adminVars, now>>

-----------------------------------------------------------------------------
(* The paths *)

Settle(c, o) ==
  /\ outcome' = [outcome EXCEPT ![c] = o]
  /\ pc' = [pc EXCEPT ![c] = "saving"]

(* L1: Detect stores a detection and opens an inbox card.                  *)
Notify(c) ==
  /\ pc[c] = "notifying"
  /\ Settle(c, "notified")
  /\ UNCHANGED <<consulted, envelope, action, level, clocks, workflow,
                 escalated, suggestion, adminVars, buckets, now>>

(* L2: ProposeFix on the placeholder diff, which always passes SafetyEval; *)
(* an incident without an application gets no suggestion.                  *)
Propose(c) ==
  /\ pc[c] = "proposing"
  /\ suggestion' \in {suggestion,
       [suggestion EXCEPT ![c] = [status |-> "pending", passed |-> TRUE]]}
  /\ Settle(c, "suggested")
  /\ UNCHANGED <<consulted, envelope, action, level, clocks, workflow,
                 escalated, adminVars, buckets, now>>

(* L3: Approvals.Create.  It may fail; a synthetic incident stops here.    *)
Ask(c) ==
  /\ pc[c] = "asking"
  /\ \/ Settle(c, "failed")
     \/ Settle(c, "waiting_approval")
     \/ /\ outcome' = [outcome EXCEPT ![c] = "waiting_approval"]
        /\ pc' = [pc EXCEPT ![c] = "waiting"]
  /\ UNCHANGED <<consulted, envelope, action, level, clocks, workflow,
                 escalated, suggestion, adminVars, buckets, now>>

(* Approvals.Wait returns: approved, or denied, expired or failed.         *)
Go(answer) == answer = "approved"

Answered(c, answer) ==
  /\ pc[c] = "waiting"
  /\ IF Go(answer)
       THEN pc' = [pc EXCEPT ![c] = "executing"] /\ outcome' = outcome
       ELSE Settle(c, "failed")
  /\ UNCHANGED <<consulted, envelope, action, level, clocks, workflow,
                 escalated, suggestion, adminVars, buckets, now>>

(* Workflows.Execute at L3, L4 or L5; L5 first insists on reversibility    *)
(* and verifies afterwards.  An error may come after the workflow ran.     *)
MustReverse_No(c) == FALSE
MustReverse(c) == level[c] = 5 /\ ~objects[action[c]].reversible

Execute(c) ==
  /\ pc[c] = "executing"
  /\ \/ /\ Settle(c, "failed")      \* non_reversible_action_at_L5, or an error
        /\ workflow' = workflow
     \/ /\ ~MustReverse(c)
        /\ Settle(c, "failed")
        /\ workflow' = [workflow EXCEPT ![c] = "lost"]
     \/ /\ ~MustReverse(c)
        /\ workflow' = [workflow EXCEPT ![c] = "ran"]
        /\ IF level[c] = 5
             THEN pc' = [pc EXCEPT ![c] = "verifying"] /\ outcome' = outcome
             ELSE Settle(c, "executed")
  /\ UNCHANGED <<consulted, envelope, action, level, clocks, escalated,
                 suggestion, adminVars, buckets, now>>

(* Workflows.Verify: anything but a clean yes leads to the rollback.       *)
AfterBadVerify_Retry == "executing"
AfterBadVerify == "undoing"

Verify(c) ==
  /\ pc[c] = "verifying"
  /\ \/ Settle(c, "executed")
     \/ pc' = [pc EXCEPT ![c] = AfterBadVerify] /\ outcome' = outcome
  /\ UNCHANGED <<consulted, envelope, action, level, clocks, workflow,
                 escalated, suggestion, adminVars, buckets, now>>

UndoOutcome_Optimistic(ok) == "rolled_back"
UndoOutcome(ok) == IF ok THEN "rolled_back" ELSE "failed"

Rollback(c, ok) ==
  /\ pc[c] = "undoing"
  /\ workflow' = [workflow EXCEPT ![c] = IF ok THEN "undone" ELSE "stuck"]
  /\ escalated' = [escalated EXCEPT ![c] = TRUE]
  /\ Settle(c, UndoOutcome(ok))
  /\ UNCHANGED <<consulted, envelope, action, level, clocks,
                 suggestion, adminVars, buckets, now>>

SaveDecision(c) ==
  /\ pc[c] = "saving"
  /\ pc' = [pc EXCEPT ![c] = "over"]
  /\ UNCHANGED <<callVars, adminVars, buckets, now>>

-----------------------------------------------------------------------------
(* Requests *)

(* POST /v1/propose-fix: SafetyEval decides what the suggestion becomes.   *)
SuggestionStatus(passed) == IF passed THEN "pending" ELSE "rejected"

ProposeFix(c, passed) ==
  /\ pc[c] = "new"
  /\ suggestion' = [suggestion EXCEPT ![c] =
                      [status |-> SuggestionStatus(passed), passed |-> passed]]
  /\ pc' = [pc EXCEPT ![c] = "over"]
  /\ UNCHANGED <<consulted, envelope, action, level, outcome, clocks,
                 workflow, escalated, adminVars, buckets, now>>

(* POST /v1/suggestions/{id}/approve|reject: the status is overwritten,    *)
(* whatever it was.                                                        *)
DecideSuggestion(c, s) ==
  /\ suggestion[c].status # "none"
  /\ suggestion' = [suggestion EXCEPT ![c].status = s]
  /\ requests < MaxRequests
  /\ requests' = requests + 1
  /\ UNCHANGED <<pc, consulted, envelope, action, level, outcome, clocks,
                 workflow, escalated, store, objects, catalog, promoting, kill,
                 buckets, now>>

SetEnvelope(k, e) ==
  /\ requests < MaxRequests
  /\ requests' = requests + 1
  /\ store' = [store EXCEPT ![k] = e]
  /\ UNCHANGED <<pc, callVars, objects, catalog, promoting, kill, buckets, now>>

(* POST /v1/actions stores a new object in place of the old one.           *)
SetAction(a) ==
  /\ requests < MaxRequests
  /\ Len(objects) < MaxVersions
  /\ requests' = requests + 1
  /\ objects' = Append(objects, a)
  /\ catalog' = Len(objects')
  /\ UNCHANGED <<pc, callVars, store, promoting, kill, buckets, now>>

SetKillSwitch(w) ==
  /\ requests < MaxRequests
  /\ requests' = requests + 1
  /\ kill' = IF w \in kill THEN kill \ {w} ELSE kill \union {w}
  /\ UNCHANGED <<pc, callVars, store, objects, catalog, promoting, buckets, now>>

(* PromoteAction reads the pointer and passes its checks (the statistics   *)
(* and the approvals are inputs of the request) ...                        *)
PromoteChecked(l) ==
  /\ requests < MaxRequests
  /\ promoting.version = None
  /\ catalog # None
  /\ requests' = requests + 1
  /\ promoting' = [version |-> catalog, level |-> l]
  /\ UNCHANGED <<pc, callVars, store, objects, catalog, kill, buckets, now>>

(* ... then adds the level to the object it holds and stores it back, over *)
(* a registration made meanwhile.                                          *)
PromoteStored ==
  /\ promoting.version # None
  /\ objects' = [objects EXCEPT ![promoting.version].levels = @ \union {promoting.level}]
  /\ catalog' = promoting.version
  /\ promoting' = [version |-> None, level |-> None]
  /\ UNCHANGED <<pc, callVars, store, kill, requests, buckets, now>>

Tick ==
  /\ now < MaxNow
  /\ now' = now + 1
  /\ UNCHANGED <<pc, callVars, adminVars, buckets>>

Step(c) ==
  \/ \E incident \in Criticalities : Match(c, incident)
  \/ Suppress(c) \/ Decide(c) \/ TakeTime(c) \/ Track(c)
  \/ Notify(c) \/ Propose(c) \/ Ask(c)
  \/ \E answer \in {"approved", "denied", "error"} : Answered(c, answer)
  \/ Execute(c) \/ Verify(c)
  \/ \E ok \in BOOLEAN : Rollback(c, ok)
  \/ SaveDecision(c)

Request ==
  \/ \E c \in Calls : \E passed \in BOOLEAN : ProposeFix(c, passed)
  \/ \E c \in Calls : \E s \in {"approved", "rejected"} : DecideSuggestion(c, s)
  \/ \E k \in Criticalities : \E e \in EnvelopeShapes : SetEnvelope(k, e)
  \/ \E a \in ActionShapes : SetAction(a)
  \/ \E w \in {"global", "workspace"} : SetKillSwitch(w)
  \/ \E l \in {4, 5} : PromoteChecked(l)
  \/ PromoteStored

Next == (\E c \in Calls : Step(c)) \/ Request \/ Tick

Spec == Init /\ [][Next]_vars

(* A request being served goes on: Approvals.Wait returns by its TTL and   *)
(* the workflow client answers or fails.                                   *)
FairSpec == Spec /\ \A c \in Calls : WF_vars(pc[c] # "new" /\ Step(c))

-----------------------------------------------------------------------------
Passed(c) == passedAt[c] # None

(* The limit counts in every window, not only at the instant it is tested: *)
(* of the calls that took their time and were let through within the same  *)
(* hour there are at most as many as the most generous limit among them,   *)
(* whatever calls were blocked, overtook others between the clock and the  *)
(* lock and pruned the bucket with their later time, or found an envelope  *)
(* edited.  A call that took its time in one hour and got the lock in the  *)
(* next belongs to neither: the bucket it finds may have lost what it      *)
(* should count.                                                           *)
RateLimited ==
  \A k \in Criticalities : \A start \in 1..MaxNow :
    LET window == {c \in Calls :
                     /\ Passed(c)
                     /\ consulted[c] = k
                     /\ start <= readAt[c]
                     /\ passedAt[c] < start + Hour}
    IN window # {} => Cardinality(window) <= Max({envelope[c].limit : c \in window})

(* The decision that is saved tells what happened to the system: it says   *)
(* executed exactly when the engine knows that the workflow's effect       *)
(* stands, rolled back exactly when it was undone; an effect the engine    *)
(* lost sight of is a failure, and one it could not undo is one that a    *)
(* human was told of.                                                      *)
OutcomeTruthful ==
  \A c \in Calls :
    pc[c] \in {"saving", "over"} =>
      /\ outcome[c] = "executed" <=> workflow[c] = "ran"
      /\ outcome[c] = "rolled_back" <=> workflow[c] = "undone"
      /\ workflow[c] \in {"lost", "stuck"} => outcome[c] = "failed"
      /\ workflow[c] \in {"undone", "stuck"} => escalated[c]

(* A workflow is undone only if its action was registered as reversible,   *)
(* although registrations and promotions replace and mutate the catalog    *)
(* while the call holds its pointer.                                       *)
UndoneWasReversible ==
  \A c \in Calls :
    workflow[c] \in {"undone", "stuck"} => objects[action[c]].reversible

(* Every request that was accepted comes to a saved decision.              *)
EveryTriggerSettles ==
  \A c \in Calls : pc[c] = "matched" ~> pc[c] = "over"

-----------------------------------------------------------------------------
(* A claim of the specification documents which the engine does not meet.  *)


-----------------------------------------------------------------------------
(* For small instances: an autonomous envelope with a rate limit of one,   *)
(* one capped below its default level and one that allows nothing; actions *)
(* with and without a list of levels.                                      *)
SmallEnvelopes ==
  {[default |-> 5, allowed |-> Levels, limit |-> 1],
   [default |-> 4, allowed |-> {1, 3}, limit |-> 0],
   [default |-> 0, allowed |-> {}, limit |-> 1]}
SmallActions ==
  {[reversible |-> TRUE, levels |-> {}], [reversible |-> FALSE, levels |-> {2}]}

(* For the rate limiter: interchangeable calls to an envelope that only     *)
(* notifies and lets two pass in an hour.                                  *)
TwoAnHour == {[default |-> 1, allowed |-> {1}, limit |-> 2]}
Reversible == {[reversible |-> TRUE, levels |-> {}]}
Interchangeable == Permutations(Calls)
=============================================================================
