--------------------------- MODULE WorkflowRegistry ---------------------------
(***************************************************************************)
(* The registry of workflows and their immutable versions                  *)
(* (services/workflow-registry): a publication is compared with the latest *)
(* version, and the comparison decides which version number it may have.   *)
(* The service keeps everything in memory and seeds it from files at start. *)
(***************************************************************************)
EXTENDS Naturals, Sequences, FiniteSets, SequencesExt

CONSTANTS
    Names,        \* of workflows
    Contents,     \* what a version may hold, see Content
    SemVers,      \* the versions there may be: a bound on their components
    MaxVersions   \* bound on the versions of a workflow

VARIABLES
    published,    \* per workflow, its versions in the order of publication
    created,      \* the workflows that are there
    latest,       \* per workflow, Workflow.Latest; None before the first
    serving       \* FALSE while the seed files are loaded

workflowRegistry == <<published, created, latest, serving>>

(* A version is its numbers and its pre-release, "rc", or "final" where it  *)
(* has none; build metadata is not compared.                                *)
None == [major |-> 0, minor |-> 0, patch |-> 0, pre |-> "none"]

Init ==
    /\ published = [w \in Names |-> <<>>]
    /\ created = {}
    /\ latest = [w \in Names |-> None]
    /\ serving = FALSE

-----------------------------------------------------------------------------
(* SemVer.Compare *)
Less(a, b) ==
    \/ a.major < b.major
    \/ a.major = b.major /\ a.minor < b.minor
    \/ a.major = b.major /\ a.minor = b.minor /\ a.patch < b.patch
    \/ a.major = b.major /\ a.minor = b.minor /\ a.patch = b.patch /\ a.pre = "rc" /\ b.pre = "final"

MinNextVersion(prev, bump) ==
    CASE bump = "major" -> [major |-> prev.major + 1, minor |-> 0, patch |-> 0, pre |-> "final"]
      [] bump = "minor" -> [prev EXCEPT !.minor = @ + 1, !.patch = 0, !.pre = "final"]
      [] OTHER -> [prev EXCEPT !.patch = @ + 1, !.pre = "final"]

(* DiffWorkflows: a content has inputs, outputs, steps and triggers, each a *)
(* function from names to what is compared of them: its type, the fields it *)
(* offers (outputs of an llm step or a trigger), the rest of it.            *)
Parts == {"inputs", "outputs", "steps", "triggers"}

Gone(p, n, k)  == DOMAIN p[k] \ DOMAIN n[k]
New(p, n, k)   == DOMAIN n[k] \ DOMAIN p[k]
Kept(p, n, k)  == DOMAIN n[k] \cap DOMAIN p[k]

(* The fields of a step are compared only when it is an llm step before and *)
(* after; the prompt-template that was a prompt keeps its place.            *)
Compares(p, n, k, x) == k = "triggers" \/ (p[k][x].type = "llm" /\ n[k][x].type = "llm")
Alias(p, n, k, x)    == k = "steps" /\ p[k][x].type = "prompt" /\ n[k][x].type = "prompt-template"

IsMajor(p, n) ==
    \E k \in Parts :
        \/ Gone(p, n, k) # {}
        \/ \E x \in Kept(p, n, k) :
             \/ p[k][x].type # n[k][x].type /\ ~Alias(p, n, k, x)
             \/ k = "inputs" /\ ~p[k][x].required /\ n[k][x].required
             \/ k \in {"steps", "triggers"} /\ Compares(p, n, k, x)
                /\ ~(p[k][x].fields \subseteq n[k][x].fields)

IsMinor(p, n) ==
    \E k \in Parts :
        \/ \E x \in New(p, n, k) : ~(k = "triggers" /\ n[k][x].migrated)
        \/ \E x \in Kept(p, n, k) :
             /\ k \in {"steps", "triggers"}
             /\ \/ p[k][x].rest # n[k][x].rest
                \/ Compares(p, n, k, x) /\ p[k][x].fields # n[k][x].fields

DiffWorkflows(p, n) ==
    CASE IsMajor(p, n) -> "major" [] ~IsMajor(p, n) /\ IsMinor(p, n) -> "minor" [] OTHER -> "patch"

-----------------------------------------------------------------------------
CreateWorkflow(w) ==
    /\ serving /\ w \notin created
    /\ created' = created \cup {w}
    /\ UNCHANGED <<published, latest, serving>>

Has(w, v) == \E i \in DOMAIN published[w] : published[w][i].version = v

(* PublishVersion, in one critical section. The version is the one asked    *)
(* for, or with AutoBump the least the difference allows.                   *)
Previous(w) == CHOOSE c \in Contents :
    \E i \in DOMAIN published[w] : published[w][i] = [version |-> latest[w], content |-> c]
Final(w, c, requested, autoBump) ==
    IF autoBump /\ latest[w] # None
      THEN MinNextVersion(latest[w], DiffWorkflows(Previous(w), c)) ELSE requested

(* A published number is never given again; one that was asked for is no    *)
(* lower than the least.                                                    *)
Admits(w, c, requested, autoBump) ==
    LET v == Final(w, c, requested, autoBump)
    IN  /\ v \in SemVers /\ ~Has(w, v)
        /\ ~autoBump /\ latest[w] # None =>
             ~Less(v, MinNextVersion(latest[w], DiffWorkflows(Previous(w), c)))

Publish(w, c, requested, autoBump) ==
    LET v == Final(w, c, requested, autoBump)
    IN  /\ Len(published[w]) < MaxVersions
        /\ published' = [published EXCEPT ![w] = Append(@, [version |-> v, content |-> c])]
        /\ latest' = [latest EXCEPT ![w] = v]

PublishVersion(w, c, requested, autoBump) ==
    /\ serving /\ w \in created
    /\ Admits(w, c, requested, autoBump)
    /\ Publish(w, c, requested, autoBump)
    /\ UNCHANGED <<created, serving>>

(* SeedDirectory, before the service listens: a workflow that is there is   *)
(* kept, a version that is there or may not be is skipped.                  *)
SeedOne(w, c, v) ==
    /\ ~serving
    /\ created' = created \cup {w}
    /\ IF Admits(w, c, v, FALSE) THEN Publish(w, c, v, FALSE) ELSE UNCHANGED <<published, latest>>
    /\ UNCHANGED serving

Listen == ~serving /\ serving' = TRUE /\ UNCHANGED <<published, created, latest>>

Next ==
    \/ Listen
    \/ \E w \in Names :
         \/ CreateWorkflow(w)
         \/ \E c \in Contents, v \in SemVers :
              SeedOne(w, c, v) \/ \E autoBump \in BOOLEAN : PublishVersion(w, c, v, autoBump)

Spec == Init /\ [][Next]_workflowRegistry

-----------------------------------------------------------------------------
TypeOK ==
    /\ \A w \in Names : published[w] \in Seq([version : SemVers, content : Contents])
    /\ created \subseteq Names /\ serving \in BOOLEAN
    /\ \A w \in Names : latest[w] \in SemVers \cup {None}

(* What was built on a version works with a later one: it gives the inputs  *)
(* it knew and finds the outputs, steps and triggers, with their types and  *)
(* the fields they offered. An input that is new and required escapes: the  *)
(* diff takes any new input for an addition (diff.go:18 says optional), and *)
(* the fields of a step count while it remains an llm step. The template    *)
(* that was a prompt is what the prompt was.                                *)
StillServes(old, new) ==
    \A k \in Parts : \A x \in DOMAIN old[k] :
        /\ x \in DOMAIN new[k]
        /\ new[k][x].type = old[k][x].type \/ Alias(old, new, k, x)
        /\ k = "inputs" /\ new[k][x].required => old[k][x].required
        /\ k \in {"steps", "triggers"} /\ (k = "triggers" \/ old[k][x].type = "llm") =>
              old[k][x].fields \subseteq new[k][x].fields

(* Versions only grow, whatever was asked for or bumped, the latest is the  *)
(* greatest and a number is given once; and although each publication is    *)
(* compared with the latest alone, every version of a major line serves     *)
(* what was built on any earlier one of it, the parts that came and went in *)
(* between included (Service.PublishVersion, DiffWorkflows, MinNextVersion). *)
MajorLineServes ==
    \A w \in Names :
        /\ \A i, j \in DOMAIN published[w] :
             i < j => /\ Less(published[w][i].version, published[w][j].version)
                      /\ published[w][i].version.major = published[w][j].version.major =>
                            StillServes(published[w][i].content, published[w][j].content)
        /\ latest[w] = IF published[w] = <<>> THEN None ELSE Last(published[w]).version
=============================================================================
