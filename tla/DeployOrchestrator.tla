-------------------------- MODULE DeployOrchestrator --------------------------
(***************************************************************************)
(* services/deploy-orchestrator: the pipeline of a deployment (preflight,  *)
(* policy, image verification, render, apply, verify, notify), its         *)
(* automatic rollback, and the manual rollback of any deployment of the    *)
(* history.  Every request runs in its own goroutine; only the methods of  *)
(* Store are atomic, so requests interleave between any two of them.       *)
(*                                                                         *)
(* The model keeps one asset in one production environment, the unit the   *)
(* revision history and the approvals are kept by.  A deployment is its    *)
(* position in that history.  A request declares an image and a digest,    *)
(* either of which the gates look at; its manifest may name an image of    *)
(* its own, which they do not.  The connector and the signature check are  *)
(* used through their interfaces: each call may fail, and an apply that    *)
(* fails may or may not have taken effect.                                 *)
(***************************************************************************)
EXTENDS Naturals, Sequences, FiniteSets, TLC

CONSTANTS
  Deploys,     \* POST /v1/deployments requests
  Rollbacks,   \* POST /v1/deployments/{id}/rollback requests
  RequestIds,  \* the request_id values clients send
  Images,      \* image references
  Digests,     \* image digests, the revisions approvals are for
  Bodies,      \* what a request may ask for: [image, digest, manifest]
  Signed,      \* the <<image, digest>> that pass cosign verification
  MaxAdmin     \* bound on approvals, expirations and overrides

NoDigest == ""     \* a request or an approval that names no digest
NoImage == ""      \* a manifest that names no image

ASSUME BodiesAssumption ==
  Bodies \subseteq [image : Images, digest : Digests \union {NoDigest},
                   manifest : Images \union {NoImage}]
ASSUME MaxAdminAssumption == MaxAdmin \in Nat
ASSUME CallersAssumption == Deploys \intersect Rollbacks = {}

Callers == Deploys \union Rollbacks

VARIABLES
  revs,      \* Store.revisions: the deployments in order of insertion
  runtime,   \* the deployments the connector made the runtime run, in order
  pc, dep,   \* where each request is, and the deployment it inserted or found
  target,    \* the deployment a rollback undoes
  prev,      \* PreviousRevision, as read
  answer,    \* what the request was told
  approval,  \* the approval of the release manager: the digest, still valid?
  approved,  \* the digests that approvals ever named
  override,  \* allow-unsigned-image is active
  admin

calls == <<pc, dep, target, prev, answer>>
gates == <<approval, approved, override, admin>>
vars == <<revs, runtime, calls, gates>>

Statuses == {"pending", "running", "completed", "failed", "rolled_back",
             "pending_approval", "blocked"}
Stages == {"new", "policy", "image", "apply", "verify",
           "notify", "find", "insert", "restore", "mark", "finish", "over"}
Answers == {"none", "existing", "failed", "pending_approval", "blocked",
            "completed", "no_previous", "non_reversible"}

None == 0          \* no deployment
NoRequest == "generated"  \* newID() for a request without an id
NoApproval == [digest |-> "none", valid |-> FALSE]

Deployments ==
  [request : RequestIds \union {NoRequest}, image : Images,
   digest : Digests \union {NoDigest}, manifest : Images \union {NoImage},
   auto : BOOLEAN, status : Statuses, verified : {"no", "signed", "skipped"},
   rollbackOf : Nat]

TypeOK ==
  /\ revs \in Seq(Deployments)
  /\ runtime \in Seq(1..Len(revs))
  /\ pc \in [Callers -> Stages]
  /\ dep \in [Callers -> 0..Len(revs)]
  /\ target \in [Callers -> 0..Len(revs)]
  /\ prev \in [Callers -> 0..Len(revs)]
  /\ answer \in [Callers -> Answers]
  /\ approval \in [digest : Digests \union {NoDigest}, valid : BOOLEAN]
                \union {NoApproval}
  /\ approved \subseteq Digests \union {NoDigest}
  /\ override \in BOOLEAN
  /\ admin \in 0..MaxAdmin

Init ==
  /\ revs = <<>>
  /\ runtime = <<>>
  /\ pc = [c \in Callers |-> "new"]
  /\ dep = [c \in Callers |-> None]
  /\ target = [c \in Callers |-> None]
  /\ prev = [c \in Callers |-> None]
  /\ answer = [c \in Callers |-> "none"]
  /\ approval = NoApproval
  /\ approved = {}
  /\ override = FALSE
  /\ admin = 0

-----------------------------------------------------------------------------
Go(c, stage) == pc' = [pc EXCEPT ![c] = stage]

Answer(c, a) ==
  /\ Go(c, "over")
  /\ answer' = [answer EXCEPT ![c] = a]

SetStatus(d, s) == revs' = [revs EXCEPT ![d].status = s]

(* fail: the status, an event and the answer.                              *)
Fail(c) == SetStatus(dep[c], "failed") /\ Answer(c, "failed")

(* Store.Insert: the position of the deployment with that request id, or a *)
(* new one at the end of the history.                                      *)
Existing_Finished(q) ==
  {i \in 1..Len(revs) : q # NoRequest /\ revs[i].request = q
                           /\ revs[i].status # "pending"}
Existing(q) == {i \in 1..Len(revs) : q # NoRequest /\ revs[i].request = q}

Deploy(c, q, body, auto) ==
  /\ c \in Deploys
  /\ pc[c] = "new"
  /\ IF Existing(q) # {}
       THEN /\ dep' = [dep EXCEPT ![c] = CHOOSE i \in Existing(q) : TRUE]
            /\ Answer(c, "existing")
            /\ UNCHANGED revs
       ELSE /\ revs' = Append(revs,
                 [request |-> q, image |-> body.image, digest |-> body.digest,
                  manifest |-> body.manifest, auto |-> auto,
                  status |-> "pending", verified |-> "no",
                  rollbackOf |-> None])
            /\ dep' = [dep EXCEPT ![c] = Len(revs')]
            /\ Go(c, "policy")
            /\ UNCHANGED answer
  /\ UNCHANGED <<runtime, target, prev, gates>>

(* require-approval-prod: an approval that has not expired; the digests    *)
(* are compared when both the approval and the request name one.           *)
Mismatch(digest) ==
  approval.digest # NoDigest /\ digest # NoDigest /\ approval.digest # digest

ApprovalPolicy(digest) ==
  CASE approval = NoApproval -> "requires_approval"
    [] approval # NoApproval /\ (Mismatch(digest) \/ ~approval.valid) -> "deny"
    [] OTHER -> "allow"

MostRestrictive(decisions) ==
  CASE "deny" \in decisions -> "deny"
    [] "deny" \notin decisions /\ "requires_approval" \in decisions -> "requires_approval"
    [] OTHER -> "allow"

(* The runtime and connector preflight, then runPolicies and policyOutcome *)
(* on the approval as it stands.  "other" stands for the decision of the  *)
(* policy engine (deny when it cannot be reached; none is configured in    *)
(* cmd/main.go) and of the policies on freeze windows, strategy and        *)
(* rollback plan.                                                          *)
Policy(c, other) ==
  LET d == MostRestrictive({ApprovalPolicy(revs[dep[c]].digest), other})
  IN /\ pc[c] = "policy"
     /\ \/ Fail(c)
        \/ /\ d = "allow"
           /\ Go(c, "image")
           /\ UNCHANGED <<revs, answer>>
        \/ /\ d = "requires_approval"
           /\ SetStatus(dep[c], "pending_approval")
           /\ Answer(c, "pending_approval")
        \/ /\ d = "deny"
           /\ SetStatus(dep[c], "blocked")
           /\ Answer(c, "blocked")
     /\ UNCHANGED <<runtime, dep, target, prev, gates>>

(* runImageVerify: skipped under an override that is still active, else    *)
(* the cosign result for the declared image and digest; resolving the      *)
(* metadata may fail.                                                      *)
Revision(d) == <<revs[d].image, revs[d].digest>>
Passes(rev) == rev \in Signed

ImageVerify(c) ==
  /\ pc[c] = "image"
  /\ \/ /\ override
        /\ revs' = [revs EXCEPT ![dep[c]].verified = "skipped"]
        /\ Go(c, "apply")
        /\ UNCHANGED answer
     \/ /\ ~override
        /\ Passes(Revision(dep[c]))
        /\ revs' = [revs EXCEPT ![dep[c]].verified = "signed"]
        /\ Go(c, "apply")
        /\ UNCHANGED answer
     \/ ~override /\ Fail(c)
  /\ UNCHANGED <<runtime, dep, target, prev, gates>>

(* The image in the manifest that the connector is handed for d: the       *)
(* client's own if its manifest names one (or brings its own yaml), else   *)
(* the declared one.                                                       *)
Handed(d) == IF revs[d].manifest = NoImage THEN revs[d].image ELSE revs[d].manifest

(* connector.Render and connector.Apply of Handed(dep[c]): a deployment    *)
(* that cannot be rendered fails as one whose apply has no effect.         *)
Apply(c) ==
  /\ pc[c] = "apply"
  /\ \/ /\ runtime' = Append(runtime, dep[c])
        /\ Go(c, "verify")
        /\ UNCHANGED <<revs, answer>>
     \/ /\ runtime' \in {runtime, Append(runtime, dep[c])}
        /\ Fail(c)
  /\ UNCHANGED <<dep, target, prev, gates>>

(* connector.Verify; a deployment that is not healthy is rolled back if it *)
(* asked for it.                                                           *)
Verify(c) ==
  /\ pc[c] = "verify"
  /\ \/ Go(c, "notify") /\ UNCHANGED <<revs, target, answer>>
     \/ /\ revs[dep[c]].auto
        /\ SetStatus(dep[c], "failed")
        /\ target' = [target EXCEPT ![c] = dep[c]]
        /\ Go(c, "find")
        /\ UNCHANGED answer
     \/ /\ ~revs[dep[c]].auto
        /\ Fail(c)
        /\ UNCHANGED target
  /\ UNCHANGED <<runtime, dep, prev, gates>>

Notify(c) ==
  /\ pc[c] = "notify"
  /\ SetStatus(dep[c], "completed")
  /\ Answer(c, "completed")
  /\ UNCHANGED <<runtime, dep, target, prev, gates>>

-----------------------------------------------------------------------------
(* Rollback *)

(* The handler finds the deployment, whatever its status.                  *)
Rollback(c, d) ==
  /\ c \in Rollbacks
  /\ pc[c] = "new"
  /\ target' = [target EXCEPT ![c] = d]
  /\ Go(c, "find")
  /\ UNCHANGED <<revs, runtime, dep, prev, answer, gates>>

(* Store.PreviousRevision: the latest completed deployment other than d.         *)
Restorable_Any(d) == {i \in 1..Len(revs) : i # d}
Restorable(d) == {i \in 1..Len(revs) : i # d /\ revs[i].status = "completed"}

NoPrevious(c) ==
  /\ pc[c] = "find"
  /\ Restorable(target[c]) = {}
  /\ Answer(c, IF c \in Deploys THEN "failed" ELSE "no_previous")
  /\ UNCHANGED <<revs, runtime, dep, target, prev, gates>>

(* A deployment of high criticality whose plan is non-reversible is not    *)
(* rolled back without approval; an automatic rollback counts as approved. *)
NonReversible(c) ==
  /\ c \in Rollbacks
  /\ pc[c] = "find"
  /\ Restorable(target[c]) # {}
  /\ Answer(c, "non_reversible")
  /\ UNCHANGED <<revs, runtime, dep, target, prev, gates>>

Latest_PastEnd(found) == Len(revs) + 1
Latest(found) == CHOOSE i \in found : \A j \in found : j <= i

PreviousRevision(c) ==
  LET found == Restorable(target[c])
  IN /\ pc[c] = "find"
     /\ found # {}
     /\ prev' = [prev EXCEPT ![c] = Latest(found)]
     /\ Go(c, "insert")
     /\ UNCHANGED <<revs, runtime, dep, target, answer, gates>>

(* The rollback is a deployment of its own, of the declared image and      *)
(* digest of prev, whatever image the manifest of prev named.              *)
InsertRollback(c) ==
  /\ pc[c] = "insert"
  /\ revs' = Append(revs,
       [request |-> NoRequest, image |-> revs[prev[c]].image,
        digest |-> revs[prev[c]].digest, manifest |-> NoImage, auto |-> FALSE,
        status |-> "running", verified |-> "no", rollbackOf |-> target[c]])
  /\ dep' = [dep EXCEPT ![c] = Len(revs')]
  /\ Go(c, "restore")
  /\ UNCHANGED <<runtime, target, prev, answer, gates>>

(* Preflight and connector.Rollback: no policy, no image verification.     *)
AfterFailedRestore_Marks(c) == Go(c, "mark") /\ UNCHANGED <<revs, answer>>
AfterFailedRestore(c) == Fail(c)

Restore(c) ==
  /\ pc[c] = "restore"
  /\ \/ /\ runtime' = Append(runtime, dep[c])
        /\ Go(c, "mark")
        /\ UNCHANGED <<revs, answer>>
     \/ /\ runtime' \in {runtime, Append(runtime, dep[c])}
        /\ AfterFailedRestore(c)
  /\ UNCHANGED <<dep, target, prev, gates>>

MarkRolledBack(c) ==
  /\ pc[c] = "mark"
  /\ SetStatus(target[c], "rolled_back")
  /\ Go(c, "finish")
  /\ UNCHANGED <<runtime, dep, target, prev, answer, gates>>

FinishRollback(c) ==
  /\ pc[c] = "finish"
  /\ SetStatus(dep[c], "completed")
  /\ Answer(c, "completed")
  /\ UNCHANGED <<runtime, dep, target, prev, gates>>

-----------------------------------------------------------------------------
(* Administrators *)

Administer ==
  /\ admin < MaxAdmin
  /\ admin' = admin + 1
  /\ UNCHANGED <<revs, runtime, calls>>

(* An approval replaces the one before it.                                 *)
Approve(digest) ==
  /\ approval' = [digest |-> digest, valid |-> TRUE]
  /\ approved' = approved \union {digest}
  /\ Administer
  /\ UNCHANGED override

Expire ==
  /\ approval.valid
  /\ approval' = [approval EXCEPT !.valid = FALSE]
  /\ Administer
  /\ UNCHANGED <<approved, override>>

ToggleOverride ==
  /\ override' = ~override
  /\ Administer
  /\ UNCHANGED <<approval, approved>>

Pipeline(c) ==
  \/ \E other \in {"allow", "requires_approval", "deny"} : Policy(c, other)
  \/ ImageVerify(c) \/ Apply(c) \/ Verify(c) \/ Notify(c)

RollbackStep(c) ==
  \/ NoPrevious(c) \/ NonReversible(c) \/ PreviousRevision(c)
  \/ InsertRollback(c) \/ Restore(c) \/ MarkRolledBack(c) \/ FinishRollback(c)

Next ==
  \/ \E c \in Deploys, q \in RequestIds \union {NoRequest}, body \in Bodies :
       \E auto \in BOOLEAN : Deploy(c, q, body, auto)
  \/ \E c \in Rollbacks : \E d \in 1..Len(revs) : Rollback(c, d)
  \/ \E c \in Callers : Pipeline(c) \/ RollbackStep(c)
  \/ \E digest \in Digests \union {NoDigest} : Approve(digest)
  \/ Expire
  \/ ToggleOverride

Spec == Init /\ [][Next]_vars

-----------------------------------------------------------------------------
(* Idempotency: whatever requests with one request_id do at the same time, *)
(* the connector is asked to run at most one deployment of it, once.       *)
RequestAppliedOnce ==
  \A q \in RequestIds :
    Cardinality({i \in 1..Len(runtime) : revs[runtime[i]].request = q}) <= 1

(* An approval was given that requireApprovalProd takes for this digest.   *)
Covered(digest) ==
  \E a \in approved : a = digest \/ a = NoDigest \/ digest = NoDigest

(* A forward deployment of this image and digest went through both gates.  *)
Cleared(rev) ==
  /\ Covered(rev[2])
  /\ \E i \in 1..Len(revs) :
       /\ Revision(i) = rev
       /\ revs[i].rollbackOf = None
       /\ \/ revs[i].verified = "skipped"
          \/ revs[i].verified = "signed" /\ rev \in Signed

(* Whatever the connector was ever asked to run declares an image and a    *)
(* digest that a forward deployment took through both gates: approved, as  *)
(* far as the approval and the deployment name digests, and verified (or   *)
(* exempted by an override); although a rollback passes neither gate again *)
(* and may restore what an earlier rollback restored.  A rollback hands    *)
(* over that very image, where a forward deployment may hand over another  *)
(* one from its client's manifest.                                         *)
RunsOnlyCleared ==
  \A i \in 1..Len(runtime) :
    /\ Cleared(Revision(runtime[i]))
    /\ revs[runtime[i]].rollbackOf # None => Handed(runtime[i]) = revs[runtime[i]].image

(* A deployment reported as rolled back was replaced: for a rollback of it *)
(* the connector was asked to run the image of another deployment, after   *)
(* it was inserted.                                                        *)
RolledBackWasReplaced ==
  \A d \in 1..Len(revs) :
    revs[d].status = "rolled_back" =>
      \E i \in 1..Len(runtime) :
        /\ revs[runtime[i]].rollbackOf = d
        /\ \E j \in (1..Len(revs)) \ {d, runtime[i]} :
             Revision(j) = Revision(runtime[i])

-----------------------------------------------------------------------------
(* For small instances: requests of an image with and without its digest,  *)
(* one of another image, and one that declares the first while its         *)
(* manifest names the other; only the first is signed.                     *)
SmallBodies ==
  {[image |-> "a", digest |-> "da",     manifest |-> NoImage],
   [image |-> "a", digest |-> NoDigest, manifest |-> NoImage],
   [image |-> "a", digest |-> "da",     manifest |-> "b"],
   [image |-> "b", digest |-> "db",     manifest |-> NoImage]}
SmallSigned == {"a"} \X {"da", NoDigest}
Interchangeable == Permutations(Deploys)
=============================================================================
