----------------------------- MODULE WorkflowLint -----------------------------
(***************************************************************************)
(* What stands between a workflow document and its execution               *)
(* (pkg/workflow): Parse moves deprecated shapes, the schema and the linter *)
(* look at the result, and the engine runs the steps of what they accept.  *)
(* A step's place is "top", "nested" (one level below), "failure" or "deep".*)
(***************************************************************************)
EXTENDS Naturals, Sequences, FiniteSets, SequencesExt, Relation

CONSTANT Documents   \* workflows as they are written

VARIABLES
    document,   \* the workflow, as Parse leaves it after "written"
    verdict,    \* "written", "parsed", "rejected", "accepted", "completed", "deadlock"
    completed   \* ids of the steps the engine has run

lint == <<document, verdict, completed>>

StepTypes    == {"skill", "mcp", "llm", "prompt-template", "prompt", "human-in-the-loop",
                 "branch", "event-trigger"}
TriggerTypes == {"manual", "cron", "webhook-in", "event-bus", "email-inbound"}
KnownTopics  == {"deployment.completed.v1"}

Init == document \in Documents /\ verdict = "written" /\ completed = {}

-----------------------------------------------------------------------------
(* Parse: an event-trigger step at the top becomes a trigger, a prompt      *)
(* anywhere becomes a prompt-template. Both keep where they come from.      *)
EventTriggerToTrigger(s) ==
    [id |-> s.id, migrated |-> "event-trigger", outputs |-> {},
     type  |-> CASE s.pattern = "none" -> "manual" [] s.pattern = "http" -> "webhook-in"
                 [] OTHER -> "event-bus",
     topic |-> IF s.pattern \in {"none", "http"} THEN "" ELSE s.pattern]

MigrateStep(s) ==
    IF s.type = "prompt" THEN [s EXCEPT !.type = "prompt-template", !.migrated = "prompt"] ELSE s

Moves(s) == s.place = "top" /\ s.type = "event-trigger"

Kept(w) == SelectSeq(w.steps, LAMBDA s : ~Moves(s))

ExtractEventTriggers(w) ==
    LET moved == SelectSeq(w.steps, Moves)
    IN  [w EXCEPT !.triggers = @ \o [i \in DOMAIN moved |-> EventTriggerToTrigger(moved[i])],
                  !.steps = Kept(w)]

MigrateDeprecatedStepKinds(w) ==
    [ExtractEventTriggers(w) EXCEPT !.steps = [i \in DOMAIN @ |-> MigrateStep(@[i])]]

(* The registry's own form of the migration also unpins the endpoints the   *)
(* editor stored, and leaves no mark on a step.                             *)
ApplyCatalogMigrations(w) ==
    [ExtractEventTriggers(w) EXCEPT
        !.steps = [i \in DOMAIN @ |-> [@[i] EXCEPT
            !.endpoint = FALSE, !.type = IF @ = "prompt" THEN "prompt-template" ELSE @]]]

Top(w)   == SelectSeq(w.steps, LAMBDA s : s.place = "top")
(* allSteps goes one level down *)
Steps(w) == {i \in DOMAIN w.steps : w.steps[i].place # "deep"}
Ids(w)   == {w.steps[i].id : i \in Steps(w)}

(* Validate *)
Validates(w) == Len(Top(w)) > 0 /\ \A i \in DOMAIN Top(w) : Top(w)[i].type \in StepTypes

-----------------------------------------------------------------------------
(* ParseAssetRef *)
AssetRef(r) ==
    CASE ~r.registry -> "not_registry"
      [] r.registry /\ ~r.whole -> "malformed"
      [] r.registry /\ r.whole /\ r.kind = "mcp" /\ r.version = "scope" -> "pinned"
      [] OTHER -> IF r.version = "semver" THEN "pinned" ELSE "floating"

DuplicateIds(w)  == \E i, j \in Steps(w) : i # j /\ w.steps[i].id = w.steps[j].id
DanglingDeps(w)  == \E i \in Steps(w) : ~(w.steps[i].deps \subseteq Ids(w))

(* checkCycles: a search in three colours along the dependencies. The one   *)
(* that stops at a gray step leaves the steps of its path gray.             *)
Deps(w, id) == UNION {w.steps[i].deps : i \in {j \in Steps(w) : w.steps[j].id = id}}

AllIds(w) == Ids(w) \cup UNION {Deps(w, id) : id \in Ids(w)}

Search(w) ==
    LET Colours == [cycle : BOOLEAN, gray : SUBSET AllIds(w), black : SUBSET AllIds(w)]
        visit[id \in AllIds(w), c \in Colours] ==
            LET Follow(d, dep) ==
                    CASE d.cycle -> d
                      [] ~d.cycle /\ dep \in d.gray -> [d EXCEPT !.cycle = TRUE]
                      [] OTHER -> IF dep \in d.black THEN d ELSE visit[dep, d]
                seen == FoldLeft(Follow, [c EXCEPT !.gray = @ \cup {id}],
                                 SetToSeq(Deps(w, id)))
            IN  IF seen.cycle THEN seen
                ELSE [seen EXCEPT !.gray = @ \ {id}, !.black = @ \cup {id}]
    IN  FoldLeft(LAMBDA c, id : IF c.cycle \/ id \in c.black THEN c ELSE visit[id, c],
                 [cycle |-> FALSE, gray |-> {}, black |-> {}], SetToSeq(Ids(w)))

Cycles(w) == Search(w).cycle

(* checkUnreachable: what follows from the steps that wait for none, and    *)
(* from the event triggers left where Parse does not look.                  *)
Reach(w, roots) ==
    LET reach[from \in SUBSET Ids(w)] ==
            LET next == from \cup {id \in Ids(w) : Deps(w, id) \cap from # {}}
            IN  IF next = from THEN from ELSE reach[next]
    IN  reach[roots]

Unreachable(w) ==
    Ids(w) # Reach(w, {w.steps[i].id : i \in {j \in Steps(w) :
                 \/ w.steps[j].deps \cap Ids(w) = {}
                 \/ w.steps[j].type = "event-trigger"}})

(* checkRefs, checkStepShape, checkLLMSteps: what a type must name. A ref    *)
(* must be pinned; a template or a tool only must not float.                *)
Needs(type) ==
    CASE type \in {"skill", "prompt-template"} -> {"ref"}
      [] type = "mcp" -> {"ref", "tool"}
      [] type = "human-in-the-loop" -> {"approver_role"}
      [] type = "llm" -> {"prompt_template", "model"}
      [] OTHER -> {}

Shapeless(s) == ~(Needs(s.type) \subseteq DOMAIN s.names)
BadRef(s) ==
    \/ "ref" \in DOMAIN s.names /\ AssetRef(s.names["ref"]) # "pinned"
    \/ /\ s.type = "llm"
       /\ \E n \in {"prompt_template", "tools"} \cap DOMAIN s.names :
             AssetRef(s.names[n]) = "floating"

(* checkTypeWiring, checkTriggers, checkLLMSteps: a reference names an      *)
(* input, a step or a trigger; a producer that declares nothing is open.    *)
Offers(w, kind, id) ==
    IF kind = "triggers"
      THEN UNION {w.triggers[i].outputs : i \in {j \in DOMAIN w.triggers : w.triggers[j].id = id}}
      ELSE UNION {w.steps[i].outputs : i \in {j \in Steps(w) : w.steps[j].id = id}}

Declared(w, r) ==
    LET offered == Offers(w, r.kind, r.of)
        known   == CASE r.kind = "inputs" -> w.inputs
                     [] r.kind = "steps" -> Ids(w)
                     [] OTHER -> {w.triggers[i].id : i \in DOMAIN w.triggers}
    IN  r.of \in known /\ (r.kind # "inputs" /\ offered # {} => r.field \in offered)

BadTrigger(t) ==
    \/ t.type \notin TriggerTypes
    \/ t.type = "event-bus" /\ t.topic # "" /\ t.topic \notin KnownTopics

Rejected(w) ==
    \/ DuplicateIds(w) \/ DanglingDeps(w) \/ Cycles(w) \/ Unreachable(w)
    \/ \E i \in Steps(w) : Shapeless(w.steps[i]) \/ BadRef(w.steps[i])
    \/ \E i \in Steps(w) : \E r \in w.steps[i].reads : ~Declared(w, r)
    \/ \E i \in DOMAIN w.triggers : BadTrigger(w.triggers[i])

-----------------------------------------------------------------------------
Parse ==
    /\ verdict = "written"
    /\ document' = MigrateDeprecatedStepKinds(document)
    /\ verdict' = "parsed"
    /\ UNCHANGED completed

Lint ==
    /\ verdict = "parsed"
    /\ verdict' = IF Validates(document) /\ ~Rejected(document) THEN "accepted" ELSE "rejected"
    /\ UNCHANGED <<document, completed>>

(* InMemoryEngine.run: the first step of the top level whose dependencies   *)
(* have completed; the steps below are their step's business.               *)
NextRunnable(w) ==
    SelectSeq(Top(w), LAMBDA s : s.id \notin completed /\ s.deps \subseteq completed)

Run ==
    /\ verdict = "accepted"
    /\ LET next == NextRunnable(document)
       IN  /\ verdict' = CASE {Top(document)[i].id : i \in DOMAIN Top(document)} \subseteq completed
                                -> "completed"
                           [] OTHER -> IF next = <<>> THEN "deadlock" ELSE verdict
           /\ completed' = IF verdict' = "accepted" THEN completed \cup {next[1].id} ELSE completed
    /\ UNCHANGED document

Next == Parse \/ Lint \/ Run

Spec == Init /\ [][Next]_lint

-----------------------------------------------------------------------------
TypeOK ==
    /\ verdict \in {"written", "parsed", "rejected", "accepted", "completed", "deadlock"}
    /\ completed \subseteq {document.steps[i].id : i \in DOMAIN document.steps}

(* The reference: a step that waits for itself, directly or not.            *)
Circular(w) ==
    LET waits == TransitiveClosure([x, y \in Ids(w) |-> y \in Deps(w, x)], Ids(w))
    IN  \E id \in Ids(w) : waits[id, id]

(* A workflow the linter accepts gets through the engine's scheduler: run   *)
(* ends in deadlock_unresolved_deps only where a step of the top level      *)
(* depends on one that is not there (nested or in on_failure), which the    *)
(* linter takes for any other (checkDanglingDeps, checkCycles,              *)
(* checkUnreachable; InMemoryEngine.run).                                   *)
AcceptedRuns ==
    verdict = "deadlock" =>
        \E i \in DOMAIN Top(document) :
            \E d \in Top(document)[i].deps :
                d \notin {Top(document)[j].id : j \in DOMAIN Top(document)}

(* The colours find a cycle exactly when some step waits for itself, and a  *)
(* step is unreachable only where there is a cycle.                         *)
CyclesFound ==
    verdict = "parsed" /\ ~DuplicateIds(document) /\ ~DanglingDeps(document) =>
        /\ Cycles(document) <=> Circular(document)
        /\ Unreachable(document) => Cycles(document)

(* Parsing what was parsed changes nothing, no more does migrating what was *)
(* migrated, and the parser and the registry agree on the new shape but for *)
(* the parser's marks and the endpoints (migrateDeprecatedStepKinds,        *)
(* ApplyCatalogMigrations: "running it twice yields the same output").      *)
Unmarked(w) == [w EXCEPT !.steps = [i \in DOMAIN @ |->
                                      [@[i] EXCEPT !.migrated = "", !.endpoint = FALSE]]]
MigrationsAgree ==
    /\ verdict = "parsed" => MigrateDeprecatedStepKinds(document) = document
    /\ verdict = "written" =>
         LET once == ApplyCatalogMigrations(document)
         IN  /\ ApplyCatalogMigrations(once) = once
             /\ Unmarked(once) = Unmarked(MigrateDeprecatedStepKinds(document))

LintSound == AcceptedRuns /\ CyclesFound /\ MigrationsAgree

(* InMemoryEngine.run says of its deadlock guard that it "Should not happen *)
(* if lint passed".                                                         *)
LintPreventsDeadlock == verdict # "deadlock"
=============================================================================
