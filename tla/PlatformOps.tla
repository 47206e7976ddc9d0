------------------------------ MODULE PlatformOps -----------------------------
(***************************************************************************)
(* The operations of the platform on itself (services/platform-ops): noise *)
(* rules, which become policy by a pull request and its webhook, and the    *)
(* mutations with their checks. A handler reads a rule, talks to GitHub and *)
(* then updates the row by its id alone; writes that fail are not noticed.  *)
(***************************************************************************)
EXTENDS Naturals, FiniteSets

CONSTANTS Rules, Calls

VARIABLES
    rule,      \* rows: status, and the pull request its pr_url names
    branches,  \* pairs of a rule and what the branch is for
    pulls,     \* pull requests: pairs like the branches', with their state
    file,      \* the rule policies/noise-rules.yaml on main holds
    webhook,   \* merged pull requests GitHub has yet to tell of
    signed,    \* GITHUB_WEBHOOK_SECRET is set: fixed at the start
    handler,   \* per call: its purpose, its rule and how far it got
    overtaken, \* rules a call approved that was under way when they were revoked
    withdrawn,   \* rules whose revocation was written down
    acted      \* the mutation of the last step, with what the policies said

platform == <<rule, branches, pulls, file, webhook, signed, handler, overtaken, withdrawn, acted>>

NoRule   == "none"
Idle     == [for |-> "none", rule |-> NoRule, saw |-> "none", at |-> "idle"]
Nothing  == [endpoint |-> "none", risk |-> "unasked"]
Purposes == {"approve", "revoke"}
NoPull   == <<NoRule, "none">>

Init ==
    /\ rule = [r \in Rules |-> [status |-> "none", pull |-> NoPull]]
    /\ branches = {} /\ webhook = {} /\ overtaken = {} /\ withdrawn = {}
    /\ pulls = [p \in Rules \X Purposes |-> "none"]
    /\ file = NoRule
    /\ handler = [c \in Calls |-> Idle]
    /\ acted = Nothing
    /\ signed \in BOOLEAN

-----------------------------------------------------------------------------
(* noiseRulePropose; a row that was not written is answered all the same.   *)
Propose(r) ==
    /\ rule[r].status = "none"
    /\ rule' = [rule EXCEPT ![r].status = "draft"]
    /\ UNCHANGED <<branches, pulls, file, webhook, handler, overtaken, withdrawn, signed>>

Readable(for) == IF for = "approve" THEN {"draft"} ELSE {"draft", "active", "promoted"}

(* noiseRuleApprove, noiseRuleRevoke: the row is read,                      *)
Begin(c, for, r) ==
    /\ handler[c] = Idle
    /\ rule[r].status \in Readable(for)
    /\ handler' = [handler EXCEPT ![c] = [for |-> for, rule |-> r,
                                         saw |-> rule[r].status, at |-> "read"]]
    /\ UNCHANGED <<rule, branches, pulls, file, webhook, overtaken, withdrawn, signed>>

Moves(c, to) == handler' = [handler EXCEPT ![c] = IF to = "idle" THEN Idle ELSE [@ EXCEPT !.at = to]]
Pull(c) == <<handler[c].rule, handler[c].for>>

(* CreateNoiseRulePR: a branch named for the rule, which can be made once;   *)
(* a call that fails after it leaves the branch.                            *)
CreateRef(c) ==
    /\ handler[c].at = "read"
    /\ \/ /\ Pull(c) \notin branches
          /\ branches' = branches \cup {Pull(c)} /\ Moves(c, "branched")
       \/ branches' = branches /\ Moves(c, "idle")
    /\ UNCHANGED <<rule, pulls, file, webhook, overtaken, withdrawn, signed>>

CreatePR(c) ==
    /\ handler[c].at = "branched"
    /\ \/ pulls' = [pulls EXCEPT ![Pull(c)] = "open"] /\ Moves(c, "opened")
       \/ pulls' = pulls /\ Moves(c, "idle")
    /\ UNCHANGED <<rule, branches, file, webhook, overtaken, withdrawn, signed>>

(* The UPDATE of the row, by its id; it may be lost.                        *)
Update(c) ==
    LET r == handler[c].rule
    IN  /\ handler[c].at = "opened" /\ Moves(c, "idle")
        /\ \/ /\ handler[c].for = "approve"
              /\ rule' = [rule EXCEPT ![r] = [status |-> "active", pull |-> Pull(c)]]
              /\ overtaken' = IF handler[c].saw = "draft" /\ r \in withdrawn
                               THEN overtaken \cup {r} ELSE overtaken
              /\ UNCHANGED withdrawn
           \/ /\ handler[c].for = "revoke"
              /\ rule' = [rule EXCEPT ![r].status = "revoked"]
              /\ withdrawn' = withdrawn \cup {r}
              /\ UNCHANGED overtaken
           \/ UNCHANGED <<rule, overtaken, withdrawn>>
        /\ UNCHANGED <<branches, pulls, file, webhook, signed>>

(* A person merges; the file on main is then the one of the branch, which   *)
(* holds its rule alone, or none. GitHub tells of it now, later or never.   *)
Merge(p) ==
    /\ pulls[p] = "open"
    /\ pulls' = [pulls EXCEPT ![p] = "merged"]
    /\ file' = IF p[2] = "approve" THEN p[1] ELSE NoRule
    /\ webhook' \in {webhook, webhook \cup {p}}
    /\ UNCHANGED <<rule, branches, handler, overtaken, withdrawn, signed>>

(* githubWebhook, which GitHub may send again; without a secret anyone may   *)
(* say that a pull request was merged.                                      *)
Promotes(r, p) == rule[r].pull = p /\ rule[r].status = "active"
Told(p)        == signed => p \in webhook
GithubWebhook(p) ==
    /\ Told(p)
    /\ webhook' \in {webhook, webhook \ {p}}
    /\ rule' = [r \in Rules |-> IF Promotes(r, p) THEN [rule[r] EXCEPT !.status = "promoted"] ELSE rule[r]]
    /\ UNCHANGED <<branches, pulls, file, handler, overtaken, withdrawn, signed>>

-----------------------------------------------------------------------------
(* The mutations. Which of them ask whether the target is protected, and    *)
(* which wait when the classifier wants an approval; a rollback asks for    *)
(* nothing. A policy that cannot be evaluated denies.                       *)
OnRuntime == {"restart", "scale", "breaker_reset"}
OnData    == {"migrate", "rollback", "flag", "secret"}
OnInfra   == {"recreate"}
OnCode    == {"code_fix"}
Endpoints == OnRuntime \cup OnData \cup OnInfra \cup OnCode
Protects(e)  == e \in {"restart", "recreate", "scale"}
Waits(e)     == e \in {"restart", "recreate"}
Decisions(e) == IF e = "rollback" THEN {"unasked"}
                ELSE {"autonomous", "requires_approval", "requires_dual_control", "deny", "error"}

Mutate(e, risk, denied) ==
    /\ ~denied /\ risk \notin {"deny", "error"}
    /\ Waits(e) => risk = "autonomous"
    /\ acted' = [endpoint |-> e, risk |-> risk]
    /\ UNCHANGED <<rule, branches, pulls, file, webhook, handler, overtaken, withdrawn, signed>>

Review ==
    \/ \E r \in Rules : Propose(r) \/ \E c \in Calls, for \in Purposes : Begin(c, for, r)
    \/ \E c \in Calls : CreateRef(c) \/ CreatePR(c) \/ Update(c)
    \/ \E p \in Rules \X Purposes : Merge(p) \/ GithubWebhook(p)

Next ==
    \/ Review /\ acted' = Nothing
    \/ \E e \in Endpoints : \E risk \in Decisions(e) :
          \E denied \in (IF Protects(e) THEN BOOLEAN ELSE {FALSE}) : Mutate(e, risk, denied)

Spec == Init /\ [][Next]_platform

-----------------------------------------------------------------------------
Statuses == {"none", "draft", "active", "promoted", "revoked"}
TypeOK ==
    /\ rule \in [Rules -> [status : Statuses, pull : (Rules \X Purposes) \cup {NoPull}]]
    /\ branches \subseteq Rules \X Purposes /\ webhook \subseteq Rules \X Purposes
    /\ pulls \in [Rules \X Purposes -> {"none", "open", "merged"}]
    /\ file \in Rules \cup {NoRule} /\ overtaken \subseteq Rules /\ signed \in BOOLEAN
    /\ handler \in [Calls -> [for : Purposes \cup {"none"}, rule : Rules \cup {NoRule},
                              saw : Statuses, at : {"idle", "read", "branched", "opened"}]]

(* Approvals, revocations, merges and webhooks of one rule in any order:    *)
(* a rule is active or promoted only with its own pull request on record,   *)
(* promoted only when that was merged, if webhooks are signed; once its     *)
(* revocation was written down it stays revoked, whatever webhook comes     *)
(* late, unless an approval was on its way that had read it as a draft; and *)
(* main holds a rule only by a merge of its approval                       *)
(* (noiseRuleApprove, noiseRuleRevoke, githubWebhook).                      *)
RulesByReview ==
    /\ \A r \in Rules :
         /\ rule[r].status \in {"active", "promoted"} => rule[r].pull = <<r, "approve">>
         /\ rule[r].status = "promoted" /\ signed => pulls[rule[r].pull] = "merged"
         /\ rule[r].pull # NoPull => pulls[rule[r].pull] # "none"
         /\ r \in withdrawn \ overtaken => rule[r].status = "revoked"
    /\ file # NoRule => pulls[<<file, "approve">>] = "merged"

(* Nothing is restarted or recreated without the classifier's consent, and  *)
(* nothing at all over its refusal, nor when a policy cannot be evaluated;  *)
(* the others go ahead where it asks for an approval (serviceRestart ..     *)
(* secretRotate, EvalRiskClassifier, EvalSelfProtection).                   *)
ActsOnConsent ==
    /\ acted.endpoint \in {"restart", "recreate"} => acted.risk = "autonomous"
    /\ acted.risk = "unasked" => acted.endpoint \in {"none", "rollback"}
    /\ acted.risk \notin {"deny", "error"}
=============================================================================
