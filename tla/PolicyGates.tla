---------------------------- MODULE PolicyGates ----------------------------
(***************************************************************************)
(* What lets a deployment through: the policies of deploy-orchestrator      *)
(* with its freeze windows and approvals, the rules of policy-engine that   *)
(* it asks, and the gates of an SDLC phase that policy-engine evaluates.    *)
(* The clock, the approvals and the rules change; each answer is one step   *)
(* and leaves nothing behind, so it is an operator. What a condition says   *)
(* of a request (CEL) is a part of the rule.                                *)
(***************************************************************************)
EXTENDS Naturals, Sequences, FiniteSets, SequencesExt

CONSTANTS
    Deploys,       \* requests: [env, image, criticality, strategy, plan], NoDigest a
                   \* request that names no image
    Freezes,       \* the sequence of freeze windows: [env, from, to] as <<day, hour>>
    HoursADay,
    RuleSets,      \* the rules of policy-engine: sequences of
                   \* [priority, decision, on, breaks], the last two sets of envs
    Gates,         \* the sdlc templates: [gate, min, holds], holds[c] is "no", "yes" or
                   \* "error", for the thresholds it has for c
    Criticalities, \* what an initiative may have: "", a name of the four or another
    MaxApproved

VARIABLES
    hour,          \* of the week
    approved,      \* of each env: [image, expires] or NoApproval
    engine,        \* whether the orchestrator was given a policy-engine to ask
    rules          \* of the policy-engine, or NoRules when it cannot be reached

gate == <<hour, approved, engine, rules>>

Week       == 7 * HoursADay
Never      == Week
NoApproval == [image |-> "none", expires |-> 0]
NoDigest   == ""
NoRules    == <<>>
Envs       == {d.env : d \in Deploys}

(* strings.EqualFold *)
Fold(s) == CASE s = "PROD" -> "prod" [] s = "HIGH" -> "high" [] OTHER -> s

-----------------------------------------------------------------------------
DayHour(t) == t[1] * HoursADay + t[2]

(* FreezeWindow.In: a window may go round the end of the week.              *)
In(w, now) ==
    IF DayHour(w.from) <= DayHour(w.to)
      THEN DayHour(w.from) <= now /\ now < DayHour(w.to)
      ELSE DayHour(w.from) <= now \/ now < DayHour(w.to)

Says(policy, decision) == [policy |-> policy, decision |-> decision]

requireSignedImage(d) == Says("require-signed-image", "allow")

(* An approval and a request are compared where both name an image.         *)
Mismatch(a, d) == NoDigest \notin {a.image, d.image} /\ a.image # d.image
Expired(a)     == a.expires # Never /\ hour > a.expires

requireApprovalProd(d) ==
    LET a == approved[d.env]
    IN  Says("require-approval-prod",
             CASE Fold(d.env) # "prod" -> "allow"
               [] Fold(d.env) = "prod" /\ a = NoApproval -> "requires_approval"
               [] OTHER -> IF Mismatch(a, d) \/ Expired(a) THEN "deny" ELSE "allow")

freezeWindowPolicy(d) ==
    Says("freeze-window",
         IF \E w \in ToSet(Freezes) : Fold(w.env) \in {"", Fold(d.env)} /\ In(w, hour)
           THEN "deny" ELSE "allow")

isHighCriticality(c) == Fold(c) \in {"high", "critical"}

requireCanary(d) ==
    Says("require-canary",
         IF /\ Fold(d.env) = "prod" /\ isHighCriticality(d.criticality)
            /\ d.strategy \notin {"canary", "blue_green"}
           THEN "deny" ELSE "allow")

requireRollbackPlan(d) ==
    Says("require-rollback-plan",
         IF isHighCriticality(d.criticality) /\ ~d.plan THEN "deny" ELSE "allow")

(* DefaultDeploymentPolicies *)
Policies(d) == <<requireSignedImage(d), requireApprovalProd(d), freezeWindowPolicy(d),
                 requireCanary(d), requireRollbackPlan(d)>>

(* EvaluatePolicies, MostRestrictivePolicyDecision and mostRestrictive: the *)
(* first that denies, or else asks for an approval, or else allows (which    *)
(* of the policies that is, only policy-engine tells).                      *)
MostRestrictive(all) ==
    LET saying(decision) == {i \in DOMAIN all : all[i].decision = decision}
        first(decision)  == CHOOSE i \in saying(decision) : \A j \in saying(decision) : i <= j
    IN  CASE saying("deny") # {} -> all[first("deny")]
          [] saying("deny") = {} /\ saying("requires_approval") # {}
               -> all[first("requires_approval")]
          [] OTHER -> IF saying("allow") = {} THEN Says("none", "allow") ELSE all[first("allow")]

-----------------------------------------------------------------------------
(* NewEngine: a stable sort by priority.                                    *)
NewEngine(rs) ==
    LET before(i) == {j \in DOMAIN rs : \/ rs[j].priority > rs[i].priority
                                        \/ rs[j].priority = rs[i].priority /\ j < i}
    IN  [k \in DOMAIN rs |-> rs[CHOOSE i \in DOMAIN rs : Cardinality(before(i)) = k - 1]]

(* Engine.Evaluate: one condition that cannot be evaluated fails them all.  *)
Fails(rs, env)    == \E i \in DOMAIN rs : env \in rs[i].breaks
Evaluate(rs, env) ==
    LET sorted == NewEngine(rs)
    IN  MostRestrictive([k \in DOMAIN rs |-> IF env \in sorted[k].on THEN sorted[k]
                                            ELSE Says("condition", "false")])

(* PolicyEngineClient.Evaluate within runPolicies: no answer denies, unless *)
(* the orchestrator has no policy-engine (cmd/main.go gives it none).       *)
Ask(d) == CASE ~engine -> Policies(d)
            [] engine /\ (rules = NoRules \/ Fails(rules, d.env))
                 -> Append(Policies(d), Says("policy-engine", "deny"))
            [] OTHER -> <<Says("policy-engine", Evaluate(rules, d.env).decision)>> \o Policies(d)

Decision(d) == MostRestrictive(Ask(d)).decision

-----------------------------------------------------------------------------
(* criticalityAtLeast: an initiative of another criticality counts as       *)
(* medium, though it has no thresholds of its own.                          *)
Rank(c) == CASE c = "low" -> 1 [] c = "medium" -> 2 [] c = "high" -> 3 [] c = "critical" -> 4
             [] OTHER -> 0
AtLeast(c, min) == (IF Rank(Fold(c)) = 0 THEN 2 ELSE Rank(Fold(c))) >= Rank(Fold(min))

Criticality(c) == IF c = "" THEN "medium" ELSE Fold(c)

(* EvaluateSDLCGate: the outcome of each gate of the phase, or an error.    *)
Outcome(g, c) ==
    IF ~AtLeast(Criticality(c), g.min) THEN "skipped"
    ELSE CASE g.holds[Criticality(c)] = "yes" -> "passed"
           [] g.holds[Criticality(c)] = "no" -> "failed"
           [] OTHER -> "error"

EvaluateSDLCGate(c) ==
    IF Gates = {} \/ \E g \in Gates : Outcome(g, c) = "error" THEN "error"
    ELSE IF \E g \in Gates : Outcome(g, c) = "failed" THEN "failed" ELSE "passed"

-----------------------------------------------------------------------------
Init ==
    /\ hour = 0
    /\ approved = [e \in Envs |-> NoApproval]
    /\ engine \in BOOLEAN
    /\ rules = NoRules

Tick ==
    /\ hour' = (hour + 1) % Week
    /\ UNCHANGED <<approved, engine, rules>>

(* InMemoryApprovals.Approve: replaces the approval of another revision.    *)
Approve(d, expires) ==
    /\ approved[d.env] = NoApproval =>
         Cardinality({e \in Envs : approved[e] # NoApproval}) < MaxApproved
    /\ approved' = [approved EXCEPT ![d.env] = [image |-> d.image, expires |-> expires]]
    /\ UNCHANGED <<hour, engine, rules>>

(* LoadYAML and a start of policy-engine, or its stop.                      *)
Load(rs) ==
    /\ rules' = rs
    /\ UNCHANGED <<hour, approved, engine>>

Next ==
    \/ Tick
    \/ \E d \in Deploys, expires \in 0..Never : Approve(d, expires)
    \/ \E rs \in RuleSets \cup {NoRules} : Load(rs)

Spec == Init /\ [][Next]_gate

-----------------------------------------------------------------------------
TypeOK ==
    /\ hour \in 0..(Week - 1)
    /\ approved \in [Envs -> {NoApproval} \cup
                              [image : {d.image : d \in Deploys}, expires : 0..Never]]
    /\ engine \in BOOLEAN
    /\ rules \in RuleSets \cup {NoRules}

(* An hour is frozen exactly when a walk from the start of a window meets   *)
(* it before the end, also round the end of a week; a window that ends      *)
(* where it starts freezes nothing (FreezeWindow.In).                       *)
FreezesWrap ==
    \A w \in ToSet(Freezes) :
        LET span == (DayHour(w.to) + Week - DayHour(w.from)) % Week
        IN  In(w, hour) <=> \E k \in 1..span : hour = (DayHour(w.from) + k - 1) % Week

(* The decision about a request does not depend on the order in which the   *)
(* rules are written, and the rule that is named has the highest priority   *)
(* of those with that decision (NewEngine, Engine.Evaluate).                *)
OrderIrrelevant ==
    \A d \in Deploys : ~Fails(rules, d.env) =>
        LET chosen == Evaluate(rules, d.env)
        IN  /\ \A p \in SetToSeqs(DOMAIN rules) :
                 Evaluate([i \in DOMAIN p |-> rules[p[i]]], d.env).decision = chosen.decision
            /\ \A i \in DOMAIN rules :
                 d.env \in rules[i].on /\ rules[i].decision = chosen.decision
                   => rules[i].priority <= chosen.priority

(* A deployment to production, in whatever case it is written, is let       *)
(* through only with an approval that has not expired and names no other    *)
(* image than the request (either may name none), outside every freeze of   *)
(* it, and, where a policy-engine is asked, when that answers without a     *)
(* word against it; an approval lifts nothing else, nor what policy-engine  *)
(* asks for, which cannot see it (runPolicies, EvaluatePolicies,            *)
(* PolicyEngineClient.Evaluate).                                            *)
ProdGuarded ==
    \A d \in Deploys : Decision(d) = "allow" =>
        /\ engine =>
             /\ rules # NoRules
             /\ \A i \in DOMAIN rules : d.env \in rules[i].on => rules[i].decision = "allow"
        /\ Fold(d.env) = "prod" =>
             /\ approved[d.env] # NoApproval
             /\ \/ approved[d.env].image = d.image
                \/ NoDigest \in {approved[d.env].image, d.image}
             /\ approved[d.env].expires = Never \/ hour <= approved[d.env].expires
             /\ isHighCriticality(d.criticality) => d.plan /\ d.strategy # "rolling"
             /\ \A w \in ToSet(Freezes) : Fold(w.env) \in {"", "prod"} => ~In(w, hour)

(* An initiative is held to every gate that a less critical one is held to; *)
(* one whose criticality has no name is held to those of a medium one       *)
(* (EvaluateSDLCGate, criticalityAtLeast).                                  *)
GatesGrow ==
    \A c1, c2 \in Criticalities, g \in Gates :
        /\ Rank(Criticality(c1)) <= Rank(Criticality(c2)) /\ Rank(Criticality(c1)) # 0
             => (Outcome(g, c1) # "skipped" => Outcome(g, c2) # "skipped")
        /\ Rank(Criticality(c1)) = 0
             => (Outcome(g, c1) = "skipped" <=> Outcome(g, "medium") = "skipped")

PoliciesSound == FreezesWrap /\ OrderIrrelevant /\ ProdGuarded /\ GatesGrow
=============================================================================
