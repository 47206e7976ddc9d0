----------------------- MODULE DeployOrchestrator_proofs -----------------------
(***************************************************************************)
(* Proofs about the deploy orchestrator, for any number of concurrent      *)
(* requests, any images and any history.  What the connector was asked to  *)
(* run went through both gates: a forward deployment because its own       *)
(* pipeline passed them, a rollback because what it restores is completed, *)
(* and only a deployment whose image is already cleared completes.  IInv   *)
(* says where in its pipeline a request carries that fact.                 *)
(***************************************************************************)
EXTENDS DeployOrchestrator, WellFoundedInduction, SequenceTheorems,
        FiniteSetTheorems, TLAPS

(* The stages of a forward deployment that has been inserted.              *)
Forward == {"policy", "image", "apply", "verify", "notify"}

(* The stages at which the image of dep may be handed to the connector.    *)
Gated == {"apply", "verify", "notify", "restore", "mark", "finish"}

(* A valid approval is one somebody gave.                                  *)
ApprovalsGiven == approval # NoApproval => approval.digest \in approved

ForwardInserted ==
  \A c \in Callers : pc[c] \in Forward =>
    dep[c] # None /\ revs[dep[c]].rollbackOf = None

ImageApproved ==
  \A c \in Callers : pc[c] = "image" => Covered(revs[dep[c]].digest)

GatedCleared ==
  \A c \in Callers : pc[c] \in Gated =>
    dep[c] # None /\ Cleared(Revision(dep[c]))

PreviousCleared ==
  \A c \in Callers : pc[c] = "insert" =>
    prev[c] # None /\ Cleared(Revision(prev[c]))

CompletedCleared ==
  \A i \in 1..Len(revs) : revs[i].status = "completed" => Cleared(Revision(i))

RunsCleared ==
  \A i \in 1..Len(runtime) : Cleared(Revision(runtime[i]))

IInv ==
  /\ TypeOK
  /\ ApprovalsGiven
  /\ ForwardInserted
  /\ ImageApproved
  /\ GatedCleared
  /\ PreviousCleared
  /\ CompletedCleared
  /\ RunsCleared

-----------------------------------------------------------------------------
(* What a step does to the history                                         *)

(* Deployments are only appended; what they declare and what they roll back *)
(* stay as they were inserted, and a verification is never taken back.          *)
Keeps(i) ==
  /\ revs'[i].image = revs[i].image /\ revs'[i].digest = revs[i].digest
  /\ revs'[i].manifest = revs[i].manifest
  /\ revs'[i].rollbackOf = revs[i].rollbackOf
  /\ \/ revs'[i].verified = revs[i].verified
     \/ revs'[i].verified = "skipped"
     \/ revs'[i].verified = "signed" /\ Revision(i) \in Signed

HistoryGrows ==
  /\ revs' \in Seq(Deployments)
  /\ Len(revs) <= Len(revs')
  /\ \A i \in 1..Len(revs) : Keeps(i)

(* Setting a status.                                                       *)
LEMMA StatusKeeps ==
  ASSUME revs \in Seq(Deployments), NEW d \in 0..Len(revs),
         NEW s \in Statuses, SetStatus(d, s)
  PROVE  /\ HistoryGrows
         /\ Len(revs') = Len(revs)
         /\ \A i \in 1..Len(revs) :
              revs'[i].status = IF i = d THEN s ELSE revs[i].status
<1>1. CASE d = 0
  <2>1. revs' = revs
    BY <1>1 DEF SetStatus
  <2> QED BY <1>1, <2>1 DEF HistoryGrows, Keeps
<1>2. CASE d \in 1..Len(revs)
  <2>1. revs[d] \in Deployments
    BY <1>2
  <2>7. [revs[d] EXCEPT !.status = s] \in Deployments
    BY <2>1 DEF Deployments
  <2>2. revs' = [revs EXCEPT ![d] = [revs[d] EXCEPT !.status = s]]
    BY DEF SetStatus
  <2>3. revs' \in Seq(Deployments) /\ Len(revs') = Len(revs)
    BY <1>2, <2>7, <2>2
  <2>4. \A i \in 1..Len(revs) : i # d => revs'[i] = revs[i]
    BY <2>2
  <2>5. revs'[d] = [revs[d] EXCEPT !.status = s]
    BY <1>2, <2>2
  <2>6. Keeps(d) /\ revs'[d].status = s
    BY <2>1, <2>5 DEF Keeps, Deployments
  <2> QED BY <2>3, <2>4, <2>6 DEF HistoryGrows, Keeps
<1> QED BY <1>1, <1>2

(* Inserting a deployment.                                                 *)
LEMMA AppendKeeps ==
  ASSUME revs \in Seq(Deployments), NEW r \in Deployments,
         revs' = Append(revs, r)
  PROVE  /\ HistoryGrows
         /\ Len(revs') = Len(revs) + 1
         /\ \A i \in 1..Len(revs) : revs'[i] = revs[i]
         /\ revs'[Len(revs')] = r
BY DEF HistoryGrows, Keeps

(* A step that leaves the history alone lets it grow.                      *)
LEMMA SameKeeps ==
  ASSUME revs \in Seq(Deployments), revs' = revs
  PROVE  HistoryGrows
BY DEF HistoryGrows, Keeps

(* A cleared image stays cleared.                                          *)
LEMMA ClearedStays ==
  ASSUME revs \in Seq(Deployments), HistoryGrows, approved \subseteq approved',
         NEW rev, Cleared(rev)
  PROVE  Cleared(rev)'
<1>1. PICK i \in 1..Len(revs) :
        /\ Revision(i) = rev
        /\ revs[i].rollbackOf = None
        /\ \/ revs[i].verified = "skipped"
           \/ revs[i].verified = "signed" /\ rev \in Signed
  BY DEF Cleared
<1>2. Keeps(i) /\ i \in 1..Len(revs')
  BY DEF HistoryGrows
<1>3. Covered(rev[2])'
  BY DEF Cleared, Covered
<1> QED BY <1>1, <1>2, <1>3 DEF Cleared, Keeps, Revision

-----------------------------------------------------------------------------
(* Steps                                                                   *)

(* The steps of one request.                                               *)
StepOf(c) ==
  \/ \E q \in RequestIds \union {NoRequest}, body \in Bodies :
       \E auto \in BOOLEAN : Deploy(c, q, body, auto)
  \/ \E d \in 1..Len(revs) : Rollback(c, d)
  \/ \E other \in {"allow", "requires_approval", "deny"} : Policy(c, other)
  \/ ImageVerify(c) \/ Apply(c) \/ Verify(c) \/ Notify(c)
  \/ NoPrevious(c) \/ NonReversible(c) \/ PreviousRevision(c)
  \/ InsertRollback(c) \/ Restore(c) \/ MarkRolledBack(c) \/ FinishRollback(c)

Stays(c) == pc'[c] = pc[c] /\ dep'[c] = dep[c] /\ prev'[c] = prev[c]

(* A step is one of one request, of an administrator, or none at all.      *)
LEMMA NextCases ==
  ASSUME [Next]_vars
  PROVE  \/ \E c \in Callers : StepOf(c)
         \/ \E digest \in Digests \union {NoDigest} : Approve(digest)
         \/ Expire \/ ToggleOverride \/ UNCHANGED vars
BY DEF Next, StepOf, Pipeline, RollbackStep, Deploy, Rollback, Callers

(* A request moves by its own steps only.                                  *)
LEMMA OnlyOneMoves ==
  ASSUME TypeOK, [Next]_vars
  PROVE  \A c \in Callers : StepOf(c) \/ Stays(c)
<1> USE DEF TypeOK
<1>1. ASSUME NEW d \in Callers, StepOf(d), NEW c \in Callers, c # d
      PROVE  Stays(c)
  BY <1>1
  DEF StepOf, Stays, Deploy, Rollback, Policy, ImageVerify, Apply, Verify,
      Notify, NoPrevious, NonReversible, PreviousRevision, InsertRollback,
      Restore, AfterFailedRestore, MarkRolledBack, FinishRollback, Fail,
      Answer, Go
<1>2. ASSUME UNCHANGED calls PROVE \A c \in Callers : Stays(c)
  BY <1>2 DEF calls, Stays
<1> QED
  BY <1>1, <1>2, NextCases DEF Approve, Expire, ToggleOverride, Administer, vars

(* Marking the verification of a deployment at its image stage.            *)
LEMMA VerifiedKeeps ==
  ASSUME revs \in Seq(Deployments), NEW d \in 1..Len(revs),
         NEW v \in {"signed", "skipped"},
         v = "signed" => Revision(d) \in Signed,
         revs' = [revs EXCEPT ![d].verified = v]
  PROVE  /\ HistoryGrows
         /\ Len(revs') = Len(revs)
         /\ revs'[d].verified = v
         /\ \A i \in 1..Len(revs) : revs'[i].status = revs[i].status
<1>1. revs[d] \in Deployments
  OBVIOUS
<1>2. [revs[d] EXCEPT !.verified = v] \in Deployments
  BY <1>1 DEF Deployments
<1>3. revs' \in Seq(Deployments) /\ Len(revs') = Len(revs)
  BY <1>2
<1>4. \A i \in 1..Len(revs) : i # d => revs'[i] = revs[i]
  OBVIOUS
<1>5. revs'[d] = [revs[d] EXCEPT !.verified = v]
  OBVIOUS
<1>6. Keeps(d) /\ revs'[d].verified = v /\ revs'[d].status = revs[d].status
  BY <1>1, <1>5 DEF Keeps, Deployments
<1> QED BY <1>3, <1>4, <1>6 DEF HistoryGrows, Keeps

Less == {p \in Nat \X Nat : p[1] < p[2]}

(* The order of the naturals is well founded.                              *)
LEMMA NatLess == IsWellFoundedOn(Less, Nat)
BY NatLessThanWellFounded DEF OpToRel, Less

(* The latest of some deployments of the history is one of them.           *)
LEMMA LatestFound ==
  ASSUME TypeOK, NEW found \in SUBSET (1..Len(revs)), found # {}
  PROVE  Latest(found) \in found /\ \A j \in found : j <= Latest(found)
<1> DEFINE n == Len(revs)
           below == {n - i : i \in found}
<1>1. n \in Nat
  BY DEF TypeOK
<1> HIDE DEF n
<1>2. found \subseteq 1..n
  BY DEF n
<1>3. below \subseteq Nat /\ below # {}
  <2>1. \A i \in found : n - i \in Nat
    BY <1>1, <1>2
  <2> QED BY <2>1
<1> HIDE DEF below
<1>4. PICK m \in below : \A k \in below : ~ (<<k, m>> \in Less)
  BY <1>3, NatLess, WFMin
<1>5. PICK i \in found : m = n - i
  BY DEF below
<1>6. ASSUME NEW j \in found PROVE j <= i
  <2>1. n - j \in below
    BY DEF below
  <2>2. ~ (n - j < m)
    BY <2>1, <1>3, <1>4 DEF Less
  <2> QED BY <1>1, <1>2, <1>5, <2>2
<1> QED BY <1>6 DEF Latest

(* The history only grows, and so do the approvals given.                  *)
LEMMA HistoryStep ==
  ASSUME IInv, [Next]_vars
  PROVE  HistoryGrows /\ approved \subseteq approved'
<1>1. revs \in Seq(Deployments)
  BY DEF IInv, TypeOK
<1>2. ASSUME revs' = revs PROVE HistoryGrows
  BY <1>1, <1>2, SameKeeps
<1>3. ASSUME NEW d \in 0..Len(revs), NEW s \in Statuses, SetStatus(d, s)
      PROVE  HistoryGrows
  BY <1>1, <1>3, StatusKeeps
<1>4. ASSUME NEW c \in Callers, StepOf(c) PROVE HistoryGrows
  <2>1. dep[c] \in 0..Len(revs) /\ target[c] \in 0..Len(revs) /\ prev[c] \in 0..Len(revs)
    BY DEF IInv, TypeOK
  <2>2. {"pending_approval", "blocked", "failed", "completed", "rolled_back"} \subseteq Statuses
    BY DEF Statuses
  <2>3. ASSUME NEW q \in RequestIds \union {NoRequest}, NEW body \in Bodies,
               NEW auto \in BOOLEAN, Deploy(c, q, body, auto)
        PROVE  HistoryGrows
    <3> DEFINE r == [request |-> q, image |-> body.image,
                     digest |-> body.digest, manifest |-> body.manifest, auto |-> auto,
                     status |-> "pending", verified |-> "no",
                     rollbackOf |-> None]
    <3>1. r \in Deployments
      BY BodiesAssumption DEF Deployments, Statuses, None
    <3>2. revs' = revs \/ revs' = Append(revs, r)
      BY <2>3 DEF Deploy
    <3> QED BY <1>1, <1>2, <3>1, <3>2, AppendKeeps
  <2>4. ASSUME NEW other \in {"allow", "requires_approval", "deny"},
               Policy(c, other)
        PROVE  HistoryGrows
    BY <1>2, <1>3, <2>1, <2>2, <2>4 DEF Policy, Fail
  <2>5. ASSUME ImageVerify(c) PROVE HistoryGrows
    <3>1. dep[c] \in 1..Len(revs)
      BY <2>1, <2>5 DEF IInv, ForwardInserted, Forward, ImageVerify, None
    <3>2. CASE revs' = [revs EXCEPT ![dep[c]].verified = "skipped"]
      BY <1>1, <3>1, <3>2, VerifiedKeeps
    <3>3. CASE /\ Revision(dep[c]) \in Signed
               /\ revs' = [revs EXCEPT ![dep[c]].verified = "signed"]
      BY <1>1, <3>1, <3>3, VerifiedKeeps
    <3>4. CASE Fail(c)
      BY <1>3, <2>1, <2>2, <3>4 DEF Fail
    <3> QED BY <2>5, <3>2, <3>3, <3>4 DEF ImageVerify, Passes
  <2>6. CASE Apply(c)
    BY <1>2, <1>3, <2>1, <2>2, <2>6 DEF Apply, Fail
  <2>7. CASE Verify(c)
    BY <1>2, <1>3, <2>1, <2>2, <2>7 DEF Verify, Fail
  <2>8. CASE Notify(c)
    BY <1>3, <2>1, <2>2, <2>8 DEF Notify
  <2>9. ASSUME InsertRollback(c) PROVE HistoryGrows
    <3> DEFINE r == [request |-> NoRequest, image |-> revs[prev[c]].image,
                     digest |-> revs[prev[c]].digest, manifest |-> NoImage,
                     auto |-> FALSE, status |-> "running", verified |-> "no",
                     rollbackOf |-> target[c]]
    <3>1. prev[c] \in 1..Len(revs)
      BY <2>1, <2>9 DEF IInv, PreviousCleared, InsertRollback, None
    <3>2. revs[prev[c]] \in Deployments
      BY <1>1, <3>1
    <3>3. /\ revs[prev[c]].image \in Images /\ target[c] \in Nat
          /\ revs[prev[c]].digest \in Digests \union {NoDigest}
      BY <2>1, <3>2 DEF Deployments
    <3>4. r \in Deployments
      BY <3>3 DEF Deployments, Statuses
    <3> QED BY <1>1, <2>9, <3>4, AppendKeeps DEF InsertRollback
  <2>10. CASE Restore(c)
    BY <1>2, <1>3, <2>1, <2>2, <2>10 DEF Restore, AfterFailedRestore, Fail
  <2>11. CASE MarkRolledBack(c)
    BY <1>3, <2>1, <2>2, <2>11 DEF MarkRolledBack
  <2>12. CASE FinishRollback(c)
    BY <1>3, <2>1, <2>2, <2>12 DEF FinishRollback
  <2>13. ASSUME \/ \E d \in 1..Len(revs) : Rollback(c, d)
                \/ NoPrevious(c) \/ NonReversible(c) \/ PreviousRevision(c)
         PROVE  HistoryGrows
    BY <1>2, <2>13 DEF Rollback, NoPrevious, NonReversible, PreviousRevision
  <2> QED
    BY <1>4, <2>3, <2>4, <2>5, <2>6, <2>7, <2>8, <2>9, <2>10, <2>11, <2>12,
       <2>13
    DEF StepOf
<1>5. ASSUME NEW c \in Callers, StepOf(c) PROVE approved' = approved
  BY <1>5
  DEF StepOf, gates, Deploy, Rollback, Policy, ImageVerify, Apply, Verify,
      Notify, NoPrevious, NonReversible, PreviousRevision, InsertRollback,
      Restore, MarkRolledBack, FinishRollback
<1> QED
  BY <1>2, <1>4, <1>5, NextCases
  DEF Approve, Expire, ToggleOverride, Administer, vars, gates

-----------------------------------------------------------------------------
(* Type correctness                                                        *)

(* Every step keeps the types.                                             *)
LEMMA TypeStep ==
  ASSUME IInv, [Next]_vars
  PROVE  TypeOK'
<1> DEFINE n == Len(revs)
           m == Len(revs')
<1>1. /\ revs' \in Seq(Deployments)
      /\ n \in Nat /\ m \in Nat /\ n <= m
  BY HistoryStep DEF IInv, TypeOK, HistoryGrows
<1>2. 0..n \subseteq 0..m /\ 1..n \subseteq 1..m
  BY <1>1
<1>3. TypeOK
  BY DEF IInv
<1>4. /\ runtime \in Seq(1..m)
      /\ dep \in [Callers -> 0..m] /\ target \in [Callers -> 0..m]
      /\ prev \in [Callers -> 0..m]
  <2>1. runtime \in Seq(1..n) /\ dep \in [Callers -> 0..n]
        /\ target \in [Callers -> 0..n] /\ prev \in [Callers -> 0..n]
    BY <1>3 DEF TypeOK
  <2>3. runtime \in Seq(1..m)
    BY <1>2, <2>1, SeqMonotonic
  <2> QED BY <1>2, <2>1, <2>3
<1>5. ASSUME NEW c \in Callers, StepOf(c) PROVE TypeOK'
  <2>1. UNCHANGED gates
    BY <1>5
    DEF StepOf, gates, Deploy, Rollback, Policy, ImageVerify, Apply, Verify,
        Notify, NoPrevious, NonReversible, PreviousRevision, InsertRollback,
        Restore, MarkRolledBack, FinishRollback
  <2>2. pc' \in [Callers -> Stages] /\ answer' \in [Callers -> Answers]
    BY <1>3, <1>5
    DEF TypeOK, Stages, Answers, StepOf, Deploy, Rollback, Policy,
        ImageVerify, Apply, Verify, Notify, NoPrevious, NonReversible,
        PreviousRevision, InsertRollback, Restore, AfterFailedRestore,
        MarkRolledBack, FinishRollback, Fail, Answer, Go
  <2>3. runtime' \in Seq(1..m)
    <3>1. pc[c] \in Gated => dep[c] \in 1..m
      <4>1. dep[c] \in 0..n
        BY <1>3 DEF TypeOK
      <4> QED BY <1>2, <4>1 DEF IInv, GatedCleared, None
    <3>2. \/ runtime' = runtime
          \/ pc[c] \in Gated /\ runtime' = Append(runtime, dep[c])
      BY <1>5
      DEF StepOf, Deploy, Rollback, Policy, ImageVerify, Apply, Verify,
          Notify, NoPrevious, NonReversible, PreviousRevision,
          InsertRollback, Restore, MarkRolledBack, FinishRollback, Gated
    <3>3. dep[c] \in 1..m => Append(runtime, dep[c]) \in Seq(1..m)
      BY <1>4, AppendProperties
    <3> QED BY <1>4, <3>1, <3>2, <3>3
  <2>4. target' \in [Callers -> 0..m]
    <3>1. ASSUME NEW d \in 1..n, Rollback(c, d)
          PROVE  target' \in [Callers -> 0..m]
      <4>1. target' = [target EXCEPT ![c] = d]
        BY <3>1 DEF Rollback
      <4>2. d \in 0..m
        BY <1>1
      <4> QED BY <1>4, <4>1, <4>2
    <3>2. CASE Verify(c)
      <4>1. target' = target \/ target' = [target EXCEPT ![c] = dep[c]]
        BY <3>2 DEF Verify
      <4>2. dep[c] \in 0..m
        BY <1>4
      <4> QED BY <1>4, <4>1, <4>2
    <3>3. CASE target' = target
      BY <1>4, <3>3
    <3> QED
      BY <1>5, <3>1, <3>2, <3>3
      DEF StepOf, Deploy, Policy, ImageVerify, Apply, Notify, NoPrevious,
          NonReversible, PreviousRevision, InsertRollback, Restore,
          MarkRolledBack, FinishRollback
  <2>5. prev' \in [Callers -> 0..m]
    <3>1. CASE PreviousRevision(c)
      <4>1. Latest(Restorable(target[c])) \in 1..n
        BY <1>3, <3>1, LatestFound DEF PreviousRevision, Restorable
      <4> QED BY <1>2, <1>4, <3>1, <4>1 DEF PreviousRevision
    <3>2. CASE prev' = prev
      BY <1>4, <3>2
    <3> QED
      BY <1>5, <3>1, <3>2
      DEF StepOf, Deploy, Rollback, Policy, ImageVerify, Apply, Verify,
          Notify, NoPrevious, NonReversible, InsertRollback, Restore,
          MarkRolledBack, FinishRollback
  <2>6. dep' \in [Callers -> 0..m]
    <3>1. ASSUME NEW q \in RequestIds \union {NoRequest},
                 NEW body \in Bodies, NEW auto \in BOOLEAN,
                 Deploy(c, q, body, auto)
          PROVE  dep' \in [Callers -> 0..m]
      <4>1. Existing(q) # {} => (CHOOSE i \in Existing(q) : TRUE) \in 0..m
        BY <1>2 DEF Existing
      <4>2. m \in 0..m
        BY <1>1
      <4> QED BY <1>4, <3>1, <4>1, <4>2 DEF Deploy
    <3>2. CASE InsertRollback(c)
      BY <1>1, <1>4, <3>2 DEF InsertRollback
    <3>3. CASE dep' = dep
      BY <1>4, <3>3
    <3> QED
      BY <1>5, <3>1, <3>2, <3>3
      DEF StepOf, Rollback, Policy, ImageVerify, Apply, Verify,
          Notify, NoPrevious, NonReversible, PreviousRevision, Restore,
          MarkRolledBack, FinishRollback
  <2> QED
    BY <1>1, <1>3, <2>1, <2>2, <2>3, <2>4, <2>5, <2>6 DEF TypeOK, gates
<1>6. ASSUME UNCHANGED <<revs, runtime, calls>>,
             /\ approval' \in [digest : Digests \union {NoDigest}, valid : BOOLEAN] \union {NoApproval}
             /\ approved' \subseteq Digests \union {NoDigest}
             /\ override' \in BOOLEAN
             /\ admin' \in 0..MaxAdmin
      PROVE  TypeOK'
  BY <1>3, <1>6 DEF TypeOK, calls
<1>7. admin < MaxAdmin => admin + 1 \in 0..MaxAdmin
  BY <1>3, MaxAdminAssumption DEF TypeOK
<1>8. ASSUME NEW digest \in Digests \union {NoDigest}, Approve(digest) PROVE TypeOK'
  BY <1>3, <1>6, <1>7, <1>8 DEF TypeOK, Approve, Administer
<1>9. CASE Expire
  <2>1. approval \in [digest : Digests \union {NoDigest}, valid : BOOLEAN]
    BY <1>3, <1>9 DEF TypeOK, Expire, NoApproval
  <2>2. approval' \in [digest : Digests \union {NoDigest}, valid : BOOLEAN]
    BY <1>9, <2>1 DEF Expire
  <2> QED BY <1>3, <1>6, <1>7, <1>9, <2>2 DEF TypeOK, Expire, Administer
<1>10. CASE ToggleOverride
  <2>1. override' \in BOOLEAN
    BY <1>10 DEF ToggleOverride
  <2> QED BY <1>3, <1>6, <1>7, <1>10, <2>1 DEF TypeOK, ToggleOverride, Administer
<1>11. CASE UNCHANGED vars
  BY <1>3, <1>6, <1>11 DEF TypeOK, vars, gates
<1> QED
  BY <1>5, <1>8, <1>9, <1>10, <1>11, NextCases

-----------------------------------------------------------------------------
(* The gates                                                               *)

(* What was cleared stays cleared over a step.                             *)
LEMMA ClearedStep ==
  ASSUME IInv, [Next]_vars, NEW i \in 1..Len(revs), Cleared(Revision(i))
  PROVE  i \in 1..Len(revs') /\ Cleared(Revision(i))'
<1>1. HistoryGrows /\ approved \subseteq approved' /\ revs \in Seq(Deployments)
  BY HistoryStep DEF IInv, TypeOK
<1>2. Keeps(i) /\ i \in 1..Len(revs')
  BY <1>1 DEF HistoryGrows
<1>3. Revision(i)' = Revision(i)
  BY <1>2 DEF Keeps, Revision
<1>4. \A rev : Cleared(rev) => Cleared(rev)'
  BY <1>1, ClearedStays
<1>5. PICK rev : rev = Revision(i)
  OBVIOUS
<1>6. Cleared(rev)'
  BY <1>4, <1>5
<1>7. rev = Revision(i)'
  BY <1>3, <1>5
<1> QED BY <1>2, <1>6, <1>7

(* A valid approval is one somebody gave, after every step.                *)
LEMMA ApprovalsStep ==
  ASSUME IInv, [Next]_vars
  PROVE  ApprovalsGiven'
<1> USE DEF IInv, ApprovalsGiven
<1>1. CASE UNCHANGED <<approval, approved>>
  BY <1>1
<1>2. ASSUME NEW digest \in Digests \union {NoDigest}, Approve(digest) PROVE ApprovalsGiven'
  BY <1>2 DEF Approve
<1>3. CASE Expire
  <2>1. approval \in [digest : Digests \union {NoDigest}, valid : BOOLEAN]
    BY <1>3 DEF TypeOK, Expire, NoApproval
  <2> QED BY <1>3, <2>1 DEF Expire, NoApproval
<1>4. ASSUME NEW c \in Callers, StepOf(c) PROVE UNCHANGED gates
  BY <1>4
  DEF StepOf, gates, Deploy, Rollback, Policy, ImageVerify, Apply, Verify,
      Notify, NoPrevious, NonReversible, PreviousRevision, InsertRollback,
      Restore, MarkRolledBack, FinishRollback
<1> QED
  BY <1>1, <1>2, <1>3, <1>4, NextCases DEF ToggleOverride, vars, gates

(* A forward deployment past its insertion rolls nothing back.             *)
LEMMA ForwardStep ==
  ASSUME IInv, [Next]_vars
  PROVE  ForwardInserted'
<1> SUFFICES ASSUME NEW c \in Callers, pc'[c] \in Forward
             PROVE  dep'[c] # None /\ revs'[dep'[c]].rollbackOf = None
  BY DEF ForwardInserted
<1>1. HistoryGrows /\ TypeOK /\ ForwardInserted
  BY HistoryStep DEF IInv
<1>2. ASSUME pc[c] \in Forward, dep'[c] = dep[c]
      PROVE  dep'[c] # None /\ revs'[dep'[c]].rollbackOf = None
  <2>1. dep[c] \in 1..Len(revs) /\ revs[dep[c]].rollbackOf = None
    BY <1>1, <1>2 DEF ForwardInserted, TypeOK, None
  <2> QED BY <1>1, <1>2, <2>1 DEF HistoryGrows, Keeps, None
<1>3. CASE Stays(c)
  BY <1>2, <1>3 DEF Stays
<1>4. ASSUME NEW q \in RequestIds \union {NoRequest}, NEW body \in Bodies,
             NEW auto \in BOOLEAN, Deploy(c, q, body, auto)
      PROVE  dep'[c] # None /\ revs'[dep'[c]].rollbackOf = None
  <2> DEFINE r == [request |-> q, image |-> body.image,
                     digest |-> body.digest, manifest |-> body.manifest, auto |-> auto,
                   status |-> "pending", verified |-> "no",
                   rollbackOf |-> None]
  <2>1. revs' = Append(revs, r) /\ dep'[c] = Len(revs')
    BY <1>1, <1>4 DEF Deploy, Answer, Go, Forward, TypeOK
  <2>2. r \in Deployments /\ revs \in Seq(Deployments)
    BY <1>1, BodiesAssumption DEF TypeOK, Deployments, Statuses, None
  <2>3. Len(revs') = Len(revs) + 1 /\ revs'[Len(revs')] = r
    BY <2>1, <2>2, AppendKeeps
  <2> QED BY <2>1, <2>2, <2>3 DEF None
<1>5. CASE \/ \E other \in {"allow", "requires_approval", "deny"} : Policy(c, other)
           \/ ImageVerify(c) \/ Apply(c) \/ Verify(c) \/ Notify(c)
  <2>1. pc[c] \in Forward /\ dep' = dep
    BY <1>5 DEF Policy, ImageVerify, Apply, Verify, Notify, Forward
  <2> QED BY <1>2, <2>1
<1>6. CASE \/ \E d \in 1..Len(revs) : Rollback(c, d)
           \/ NoPrevious(c) \/ NonReversible(c) \/ PreviousRevision(c)
           \/ InsertRollback(c) \/ Restore(c) \/ MarkRolledBack(c)
           \/ FinishRollback(c)
  <2>1. pc'[c] \notin Forward
    BY <1>1, <1>6
    DEF TypeOK, Forward, Rollback, NoPrevious, NonReversible,
        PreviousRevision, InsertRollback, Restore, AfterFailedRestore,
        MarkRolledBack, FinishRollback, Fail, Answer, Go
  <2> QED BY <2>1
<1> QED
  BY <1>1, <1>3, <1>4, <1>5, <1>6, OnlyOneMoves DEF StepOf

(* The policy stage lets only a covered digest through.                    *)
LEMMA ImageStep ==
  ASSUME IInv, [Next]_vars
  PROVE  ImageApproved'
<1> SUFFICES ASSUME NEW c \in Callers, pc'[c] = "image"
             PROVE  Covered(revs[dep[c]].digest)'
  BY DEF ImageApproved
<1>1. HistoryGrows /\ TypeOK /\ approved \subseteq approved'
  BY HistoryStep DEF IInv
<1>2. ASSUME dep'[c] = dep[c], dep[c] # None, Covered(revs[dep[c]].digest)
      PROVE  Covered(revs[dep[c]].digest)'
  <2>1. dep[c] \in 1..Len(revs)
    BY <1>1, <1>2 DEF TypeOK, None
  <2> QED BY <1>1, <1>2, <2>1 DEF HistoryGrows, Keeps, Covered
<1>3. CASE Stays(c)
  BY <1>2, <1>3 DEF Stays, IInv, ImageApproved, ForwardInserted, Forward
<1>4. ASSUME NEW other \in {"allow", "requires_approval", "deny"},
             Policy(c, other)
      PROVE  Covered(revs[dep[c]].digest)'
  <2>1. /\ dep' = dep /\ dep[c] # None
        /\ MostRestrictive({ApprovalPolicy(revs[dep[c]].digest), other}) = "allow"
    BY <1>1, <1>4
    DEF Policy, Fail, Answer, Go, TypeOK, IInv, ForwardInserted, Forward
  <2>2. ApprovalPolicy(revs[dep[c]].digest) \in {"allow", "requires_approval", "deny"}
    BY DEF ApprovalPolicy
  <2>3. ApprovalPolicy(revs[dep[c]].digest) = "allow"
    BY <2>1, <2>2 DEF MostRestrictive
  <2>4. approval # NoApproval /\ ~Mismatch(revs[dep[c]].digest)
    BY <2>3 DEF ApprovalPolicy
  <2>5. approval.digest \in approved
    BY <2>4 DEF IInv, ApprovalsGiven
  <2>6. Covered(revs[dep[c]].digest)
    BY <2>4, <2>5 DEF Covered, Mismatch
  <2> QED BY <1>2, <2>1, <2>6
<1>5. CASE \/ \E q \in RequestIds \union {NoRequest}, body \in Bodies :
                \E auto \in BOOLEAN : Deploy(c, q, body, auto)
           \/ \E d \in 1..Len(revs) : Rollback(c, d)
           \/ ImageVerify(c) \/ Apply(c) \/ Verify(c) \/ Notify(c)
           \/ NoPrevious(c) \/ NonReversible(c) \/ PreviousRevision(c)
           \/ InsertRollback(c) \/ Restore(c) \/ MarkRolledBack(c)
           \/ FinishRollback(c)
  <2>1. pc'[c] # "image"
    BY <1>1, <1>5
    DEF TypeOK, Deploy, Rollback, ImageVerify, Apply, Verify, Notify,
        NoPrevious, NonReversible, PreviousRevision, InsertRollback, Restore,
        AfterFailedRestore, MarkRolledBack, FinishRollback, Fail, Answer, Go
  <2> QED BY <2>1
<1> QED
  BY <1>1, <1>3, <1>4, <1>5, OnlyOneMoves DEF StepOf

(* A request reaches the connector with a cleared image: behind the image  *)
(* gate its deployment clears the image itself, and a rollback restores    *)
(* what PreviousCleared says of prev.                                      *)
LEMMA GatedStep ==
  ASSUME IInv, [Next]_vars
  PROVE  GatedCleared'
<1> SUFFICES ASSUME NEW c \in Callers, pc'[c] \in Gated
             PROVE  dep'[c] # None /\ Cleared(Revision(dep[c]))'
  BY DEF GatedCleared
<1>1. HistoryGrows /\ TypeOK /\ approved \subseteq approved'
  BY HistoryStep DEF IInv
<1>2. ASSUME pc[c] \in Gated, dep'[c] = dep[c]
      PROVE  dep'[c] # None /\ Cleared(Revision(dep[c]))'
  <2>1. dep[c] \in 1..Len(revs) /\ Cleared(Revision(dep[c]))
    BY <1>1, <1>2 DEF IInv, GatedCleared, TypeOK, None
  <2>2. PICK d : d = dep[c]
    OBVIOUS
  <2>3. Cleared(Revision(d))'
    BY <2>1, <2>2, ClearedStep
  <2> QED BY <1>2, <2>1, <2>2, <2>3 DEF None
<1>3. CASE Stays(c)
  BY <1>2, <1>3 DEF Stays
<1>4. CASE Apply(c) \/ Verify(c) \/ Restore(c) \/ MarkRolledBack(c)
  <2>1. pc[c] \in Gated /\ dep' = dep
    BY <1>4 DEF Apply, Verify, Restore, MarkRolledBack, Gated
  <2> QED BY <1>2, <2>1
<1>5. CASE ImageVerify(c)
  <2> DEFINE d == dep[c]
  <2>1. /\ d \in 1..Len(revs) /\ dep' = dep /\ approved' = approved
        /\ Covered(revs[d].digest) /\ revs[d].rollbackOf = None
    BY <1>1, <1>5
    DEF ImageVerify, IInv, ForwardInserted, ImageApproved, Forward, TypeOK,
        None, gates
  <2>2. \/ revs' = [revs EXCEPT ![d].verified = "skipped"]
        \/ /\ Revision(d) \in Signed
           /\ revs' = [revs EXCEPT ![d].verified = "signed"]
    BY <1>1, <1>5 DEF ImageVerify, Passes, Fail, Answer, Go, Gated, TypeOK
  <2>3. \/ revs'[d].verified = "skipped"
        \/ revs'[d].verified = "signed" /\ Revision(d) \in Signed
    BY <1>1, <2>1, <2>2, VerifiedKeeps DEF TypeOK
  <2>4. d \in 1..Len(revs') /\ Keeps(d)
    BY <1>1, <2>1 DEF HistoryGrows
  <2>5. Revision(d)' = Revision(d) /\ revs'[d].rollbackOf = None
    BY <2>1, <2>4 DEF Keeps, Revision
  <2>6. PICK rev : rev = Revision(d)
    OBVIOUS
  <2>7. Covered(rev[2])'
    BY <2>1, <2>6 DEF Covered, Revision
  <2>8. Cleared(rev)'
    BY <2>1, <2>3, <2>4, <2>5, <2>6, <2>7 DEF Cleared, Revision, None
  <2> QED BY <2>1, <2>5, <2>6, <2>8 DEF None
<1>6. CASE InsertRollback(c)
  <2> DEFINE p == prev[c]
             r == [request |-> NoRequest, image |-> revs[p].image,
                     digest |-> revs[p].digest, manifest |-> NoImage,
                   auto |-> FALSE, status |-> "running", verified |-> "no",
                   rollbackOf |-> target[c]]
  <2>1. p \in 1..Len(revs) /\ Cleared(Revision(p))
    BY <1>1, <1>6 DEF InsertRollback, IInv, PreviousCleared, TypeOK, None
  <2>2. revs[p] \in Deployments
    BY <1>1, <2>1 DEF TypeOK
  <2>3. r \in Deployments
    BY <1>1, <2>2 DEF Deployments, Statuses, TypeOK
  <2>4. revs' = Append(revs, r) /\ dep'[c] = Len(revs')
    BY <1>1, <1>6 DEF InsertRollback, TypeOK
  <2>5. /\ dep'[c] = Len(revs) + 1 /\ revs'[dep'[c]] = r
        /\ revs'[p] = revs[p]
    BY <1>1, <2>1, <2>3, <2>4, AppendKeeps DEF TypeOK
  <2>6. PICK i : i = p
    OBVIOUS
  <2>7. Cleared(Revision(i))'
    BY <2>1, <2>6, ClearedStep
  <2>8. Revision(dep[c])' = Revision(i)'
    BY <2>5, <2>6 DEF Revision
  <2> QED BY <1>1, <2>5, <2>7, <2>8 DEF None, TypeOK
<1>7. CASE \/ \E q \in RequestIds \union {NoRequest}, body \in Bodies :
                \E auto \in BOOLEAN : Deploy(c, q, body, auto)
           \/ \E d \in 1..Len(revs) : Rollback(c, d)
           \/ \E other \in {"allow", "requires_approval", "deny"} : Policy(c, other)
           \/ Notify(c) \/ NoPrevious(c) \/ NonReversible(c)
           \/ PreviousRevision(c) \/ FinishRollback(c)
  <2>1. pc'[c] \notin Gated
    BY <1>1, <1>7
    DEF TypeOK, Gated, Deploy, Rollback, Policy, Notify, NoPrevious,
        NonReversible, PreviousRevision, FinishRollback, Fail, Answer, Go
  <2> QED BY <2>1
<1> QED
  BY <1>1, <1>3, <1>4, <1>5, <1>6, <1>7, OnlyOneMoves DEF StepOf

(* PreviousRevision returns a completed deployment.                        *)
LEMMA PreviousStep ==
  ASSUME IInv, [Next]_vars
  PROVE  PreviousCleared'
<1> SUFFICES ASSUME NEW c \in Callers, pc'[c] = "insert"
             PROVE  prev'[c] # None /\ Cleared(Revision(prev[c]))'
  BY DEF PreviousCleared
<1>1. TypeOK
  BY DEF IInv
<1>2. ASSUME NEW i \in 1..Len(revs), prev'[c] = i, Cleared(Revision(i))
      PROVE  prev'[c] # None /\ Cleared(Revision(prev[c]))'
  <2>1. Cleared(Revision(i))'
    BY <1>2, ClearedStep
  <2> QED BY <1>1, <1>2, <2>1 DEF None, TypeOK
<1>3. CASE Stays(c)
  <2>1. PICK i : i = prev[c]
    OBVIOUS
  <2>2. i \in 1..Len(revs) /\ Cleared(Revision(i)) /\ prev'[c] = i
    BY <1>1, <1>3, <2>1 DEF Stays, IInv, PreviousCleared, TypeOK, None
  <2> QED BY <1>2, <2>2
<1>4. CASE PreviousRevision(c)
  <2>1. PICK i : i = Latest(Restorable(target[c]))
    OBVIOUS
  <2>2. /\ Restorable(target[c]) # {} /\ Restorable(target[c]) \subseteq 1..Len(revs)
        /\ prev'[c] = i
    BY <1>1, <1>4, <2>1 DEF PreviousRevision, Restorable, TypeOK
  <2>3. i \in Restorable(target[c])
    BY <1>1, <2>1, <2>2, LatestFound
  <2>4. i \in 1..Len(revs) /\ revs[i].status = "completed"
    BY <2>3 DEF Restorable
  <2> QED BY <1>2, <2>2, <2>4 DEF IInv, CompletedCleared
<1>5. CASE StepOf(c) /\ ~PreviousRevision(c)
  <2>1. pc'[c] # "insert"
    BY <1>1, <1>5
    DEF StepOf, TypeOK, Deploy, Rollback, Policy, ImageVerify, Apply, Verify,
        Notify, NoPrevious, NonReversible, InsertRollback, Restore,
        AfterFailedRestore, MarkRolledBack, FinishRollback, Fail, Answer, Go
  <2> QED BY <2>1
<1> QED
  BY <1>1, <1>3, <1>4, <1>5, OnlyOneMoves

(* Only a deployment behind the gates completes.                           *)
LEMMA CompletedStep ==
  ASSUME IInv, [Next]_vars
  PROVE  CompletedCleared'
<1> SUFFICES ASSUME NEW i \in 1..Len(revs'), revs'[i].status = "completed"
             PROVE  Cleared(Revision(i))'
  BY DEF CompletedCleared
<1>1. TypeOK /\ revs \in Seq(Deployments)
  BY DEF IInv, TypeOK
<1>2. ASSUME i \in 1..Len(revs), Cleared(Revision(i))
      PROVE  Cleared(Revision(i))'
  BY <1>2, ClearedStep
<1>3. ASSUME i \in 1..Len(revs), revs[i].status = "completed"
      PROVE  Cleared(Revision(i))'
  BY <1>2, <1>3 DEF IInv, CompletedCleared
<1>4. ASSUME revs' = revs PROVE Cleared(Revision(i))'
  BY <1>3, <1>4
<1>5. ASSUME NEW d \in 0..Len(revs), NEW s \in Statuses, s # "completed",
             SetStatus(d, s)
      PROVE  Cleared(Revision(i))'
  <2>1. i \in 1..Len(revs) /\ revs[i].status = "completed"
    BY <1>1, <1>5, StatusKeeps
  <2> QED BY <1>3, <2>1
<1>6. ASSUME NEW r \in Deployments, r.status # "completed",
             revs' = Append(revs, r)
      PROVE  Cleared(Revision(i))'
  <2>1. /\ Len(revs') = Len(revs) + 1 /\ revs'[Len(revs')] = r
        /\ \A j \in 1..Len(revs) : revs'[j] = revs[j]
    BY <1>1, <1>6, AppendKeeps
  <2>2. i \in 1..Len(revs) /\ revs[i].status = "completed"
    BY <1>1, <1>6, <2>1
  <2> QED BY <1>3, <2>2
<1>7. ASSUME NEW c \in Callers, pc[c] \in Gated, SetStatus(dep[c], "completed")
      PROVE  Cleared(Revision(i))'
  <2>1. dep[c] \in 0..Len(revs) /\ "completed" \in Statuses
    BY <1>1 DEF TypeOK, Statuses
  <2>2. i \in 1..Len(revs) /\ (revs[i].status = "completed" \/ i = dep[c])
    BY <1>1, <1>7, <2>1, StatusKeeps
  <2>3. Cleared(Revision(i))
    BY <1>7, <2>2 DEF IInv, CompletedCleared, GatedCleared
  <2> QED BY <1>2, <2>2, <2>3
<1>8. ASSUME NEW c \in Callers, StepOf(c) PROVE Cleared(Revision(i))'
  <2>1. dep[c] \in 0..Len(revs) /\ target[c] \in 0..Len(revs) /\ prev[c] \in 0..Len(revs)
    BY <1>1 DEF TypeOK
  <2>2. {"pending_approval", "blocked", "failed", "rolled_back"} \subseteq Statuses
    BY DEF Statuses
  <2>3. ASSUME NEW q \in RequestIds \union {NoRequest}, NEW body \in Bodies,
               NEW auto \in BOOLEAN, Deploy(c, q, body, auto)
        PROVE  Cleared(Revision(i))'
    <3> DEFINE r == [request |-> q, image |-> body.image,
                     digest |-> body.digest, manifest |-> body.manifest, auto |-> auto,
                     status |-> "pending", verified |-> "no",
                     rollbackOf |-> None]
    <3>1. r \in Deployments /\ r.status # "completed"
      BY BodiesAssumption DEF Deployments, Statuses, None
    <3>2. revs' = revs \/ revs' = Append(revs, r)
      BY <2>3 DEF Deploy
    <3> QED BY <1>4, <1>6, <3>1, <3>2
  <2>4. CASE \/ \E other \in {"allow", "requires_approval", "deny"} : Policy(c, other)
             \/ Apply(c) \/ Verify(c) \/ Restore(c)
    BY <1>4, <1>5, <2>1, <2>2, <2>4
    DEF Policy, Apply, Verify, Restore, AfterFailedRestore, Fail
  <2>5. CASE MarkRolledBack(c)
    BY <1>5, <2>1, <2>2, <2>5 DEF MarkRolledBack
  <2>6. ASSUME ImageVerify(c) PROVE Cleared(Revision(i))'
    <3>1. dep[c] \in 1..Len(revs)
      BY <2>1, <2>6 DEF IInv, ForwardInserted, Forward, ImageVerify, None
    <3>2. CASE revs' = [revs EXCEPT ![dep[c]].verified = "skipped"]
      BY <1>1, <1>3, <3>1, <3>2, VerifiedKeeps
    <3>3. CASE /\ Revision(dep[c]) \in Signed
               /\ revs' = [revs EXCEPT ![dep[c]].verified = "signed"]
      BY <1>1, <1>3, <3>1, <3>3, VerifiedKeeps
    <3>4. CASE Fail(c)
      BY <1>5, <2>1, <2>2, <3>4 DEF Fail
    <3> QED BY <2>6, <3>2, <3>3, <3>4 DEF ImageVerify, Passes
  <2>7. CASE Notify(c) \/ FinishRollback(c)
    BY <1>7, <2>7 DEF Notify, FinishRollback, Gated
  <2>8. ASSUME InsertRollback(c) PROVE Cleared(Revision(i))'
    <3> DEFINE r == [request |-> NoRequest, image |-> revs[prev[c]].image,
                     digest |-> revs[prev[c]].digest, manifest |-> NoImage,
                     auto |-> FALSE, status |-> "running", verified |-> "no",
                     rollbackOf |-> target[c]]
    <3>1. prev[c] \in 1..Len(revs)
      BY <2>1, <2>8 DEF IInv, PreviousCleared, InsertRollback, None
    <3>2. revs[prev[c]] \in Deployments
      BY <1>1, <3>1
    <3>3. r \in Deployments /\ r.status # "completed"
      BY <2>1, <3>2 DEF Deployments, Statuses
    <3> QED BY <1>6, <2>8, <3>3 DEF InsertRollback
  <2>9. ASSUME \/ \E d \in 1..Len(revs) : Rollback(c, d)
               \/ NoPrevious(c) \/ NonReversible(c) \/ PreviousRevision(c)
        PROVE  Cleared(Revision(i))'
    BY <1>4, <2>9 DEF Rollback, NoPrevious, NonReversible, PreviousRevision
  <2> QED
    BY <1>8, <2>3, <2>4, <2>5, <2>6, <2>7, <2>8, <2>9 DEF StepOf
<1> QED
  BY <1>4, <1>8, NextCases
  DEF Approve, Expire, ToggleOverride, Administer, vars

(* Only requests behind the gates append to what the runtime ran.          *)
LEMMA RunsStep ==
  ASSUME IInv, [Next]_vars
  PROVE  RunsCleared'
<1> SUFFICES ASSUME NEW i \in 1..Len(runtime')
             PROVE  Cleared(Revision(runtime[i]))'
  BY DEF RunsCleared
<1>1. runtime \in Seq(1..Len(revs))
  BY DEF IInv, TypeOK
<1>2. ASSUME NEW d \in 1..Len(revs), runtime'[i] = d, Cleared(Revision(d))
      PROVE  Cleared(Revision(runtime[i]))'
  <2>1. Cleared(Revision(d))'
    BY <1>2, ClearedStep
  <2> QED BY <1>2, <2>1
<1>3. ASSUME i \in 1..Len(runtime), runtime'[i] = runtime[i]
      PROVE  Cleared(Revision(runtime[i]))'
  <2>1. PICK d : d = runtime[i]
    OBVIOUS
  <2>2. d \in 1..Len(revs) /\ Cleared(Revision(d))
    BY <1>1, <1>3, <2>1 DEF IInv, RunsCleared
  <2> QED BY <1>2, <1>3, <2>1, <2>2
<1>4. CASE runtime' = runtime
  BY <1>3, <1>4
<1>5. ASSUME NEW c \in Callers, pc[c] \in Gated,
             runtime' = Append(runtime, dep[c])
      PROVE  Cleared(Revision(runtime[i]))'
  <2>1. PICK d : d = dep[c]
    OBVIOUS
  <2>2. d \in 1..Len(revs) /\ Cleared(Revision(d))
    BY <1>5, <2>1 DEF IInv, TypeOK, GatedCleared, None
  <2>3. CASE i = Len(runtime')
    BY <1>1, <1>2, <1>5, <2>1, <2>2, <2>3
  <2>4. CASE i # Len(runtime')
    BY <1>1, <1>3, <1>5, <2>4
  <2> QED BY <2>3, <2>4
<1>6. ASSUME NEW c \in Callers, StepOf(c)
      PROVE  \/ runtime' = runtime
             \/ pc[c] \in Gated /\ runtime' = Append(runtime, dep[c])
  BY <1>6
  DEF StepOf, Deploy, Rollback, Policy, ImageVerify, Apply, Verify,
      Notify, NoPrevious, NonReversible, PreviousRevision,
      InsertRollback, Restore, MarkRolledBack, FinishRollback, Gated
<1> QED
  BY <1>4, <1>5, <1>6, NextCases
  DEF Approve, Expire, ToggleOverride, Administer, vars

-----------------------------------------------------------------------------
(* The first states satisfy the invariant.                                 *)
LEMMA IInvInit == Init => IInv
<1> SUFFICES ASSUME Init PROVE IInv
  OBVIOUS
<1>1. Len(revs) = 0 /\ Len(runtime) = 0
  BY DEF Init
<1>2. TypeOK
  <2>1. revs \in Seq(Deployments) /\ runtime \in Seq(1..Len(revs))
    BY DEF Init
  <2>2. pc \in [Callers -> Stages] /\ answer \in [Callers -> Answers]
    BY DEF Init, Stages, Answers
  <2>3. 0 \in 0..Len(revs)
    BY <1>1
  <2>4. /\ dep \in [Callers -> 0..Len(revs)]
        /\ target \in [Callers -> 0..Len(revs)]
        /\ prev \in [Callers -> 0..Len(revs)]
    BY <2>3 DEF Init, None
  <2>5. approved \subseteq Digests \union {NoDigest} /\ override \in BOOLEAN
    BY DEF Init
  <2>7. admin \in 0..MaxAdmin
    BY MaxAdminAssumption DEF Init
  <2>6. approval \in [digest : Digests \union {NoDigest}, valid : BOOLEAN] \union {NoApproval}
    BY DEF Init
  <2> QED BY <2>1, <2>2, <2>4, <2>5, <2>6, <2>7 DEF TypeOK
<1>3. ForwardInserted /\ ImageApproved /\ GatedCleared /\ PreviousCleared
  BY DEF Init, ForwardInserted, ImageApproved, GatedCleared, PreviousCleared,
         Forward, Gated
<1>4. CompletedCleared /\ RunsCleared
  BY <1>1 DEF CompletedCleared, RunsCleared
<1>5. ApprovalsGiven
  BY DEF Init, ApprovalsGiven
<1> QED BY <1>2, <1>3, <1>4, <1>5 DEF IInv

(* The invariant is inductive.                                             *)
THEOREM DeployInvariant == Spec => []IInv
<1>1. IInv /\ [Next]_vars => IInv'
  <2> SUFFICES ASSUME IInv, [Next]_vars PROVE IInv'
    OBVIOUS
  <2> QED
    BY TypeStep, ApprovalsStep, ForwardStep, ImageStep, GatedStep,
       PreviousStep, CompletedStep, RunsStep
    DEF IInv
<1> QED BY IInvInit, <1>1, PTL DEF Spec

(* The orchestrator's state always has its type: in particular a request   *)
(* only ever refers to deployments of the history.                         *)
THEOREM DeployTypeCorrect == Spec => []TypeOK
BY DeployInvariant, PTL DEF IInv

-----------------------------------------------------------------------------
(* One run per request, and honest rollbacks                               *)

(* The stages at which dep has not been handed to the connector.           *)
Waiting == {"policy", "image", "apply", "restore"}

NotRunYet ==
  \A c \in Callers : pc[c] \in Waiting =>
    dep[c] # None /\ \A i \in 1..Len(runtime) : runtime[i] # dep[c]

OwnDeployments ==
  \A c, e \in Callers :
    pc[c] \in Waiting /\ pc[e] \in Waiting /\ c # e => dep[c] # dep[e]

RunOnce ==
  \A i, j \in 1..Len(runtime) : runtime[i] = runtime[j] => i = j

OneDeploymentPerRequest ==
  \A i, j \in 1..Len(revs) :
    revs[i].request = revs[j].request /\ revs[i].request # NoRequest => i = j

(* Another deployment of the revision d has, beside what d rolls back.        *)
Replaces(d, t) ==
  /\ revs[d].rollbackOf = t
  /\ \E j \in (1..Len(revs)) \ {t, d} : Revision(j) = Revision(d)

OtherRestored ==
  \A c \in Callers :
    /\ pc[c] = "insert" => prev[c] # None /\ prev[c] # target[c]
    /\ pc[c] \in {"restore", "mark"} => dep[c] # None /\ Replaces(dep[c], target[c])
    /\ pc[c] = "mark" => \E i \in 1..Len(runtime) : runtime[i] = dep[c]

(* A rollback has no manifest of a client.                                 *)
Plain(r) == r.rollbackOf # None => r.manifest = NoImage
RollbacksPlain == \A i \in 1..Len(revs) : Plain(revs[i])

EInv ==
  /\ IInv /\ NotRunYet /\ OwnDeployments /\ RunOnce /\ OneDeploymentPerRequest
  /\ OtherRestored /\ RolledBackWasReplaced /\ RollbacksPlain

(* What a step of a request does to the history.                           *)
LEMMA HistoryCases ==
  ASSUME IInv, NEW c \in Callers, StepOf(c)
  PROVE  \/ revs' = revs
         \/ \E d \in 0..Len(revs), s \in Statuses :
              /\ SetStatus(d, s)
              /\ s = "rolled_back" => pc[c] = "mark" /\ d = target[c]
         \/ \E d \in 1..Len(revs), v \in {"signed", "skipped"} :
              revs' = [revs EXCEPT ![d].verified = v]
         \/ \E r \in Deployments :
              /\ revs' = Append(revs, r)
              /\ r.status # "rolled_back" /\ Plain(r)
              /\ r.request # NoRequest => \A i \in 1..Len(revs) : revs[i].request # r.request
<1>1. dep[c] \in 0..Len(revs) /\ target[c] \in 0..Len(revs) /\ prev[c] \in 0..Len(revs)
  BY DEF IInv, TypeOK
<1>2. {"pending_approval", "blocked", "failed", "completed", "rolled_back"} \subseteq Statuses
  BY DEF Statuses
<1>3. ASSUME NEW q \in RequestIds \union {NoRequest}, NEW body \in Bodies,
             NEW auto \in BOOLEAN, Deploy(c, q, body, auto)
      PROVE  \/ revs' = revs
             \/ \E r \in Deployments :
                  /\ revs' = Append(revs, r)
                  /\ r.status # "rolled_back" /\ Plain(r)
                  /\ r.request # NoRequest => \A i \in 1..Len(revs) : revs[i].request # r.request
  <2> DEFINE r == [request |-> q, image |-> body.image,
                     digest |-> body.digest, manifest |-> body.manifest, auto |-> auto,
                   status |-> "pending", verified |-> "no", rollbackOf |-> None]
  <2>1. r \in Deployments /\ r.status # "rolled_back" /\ r.request = q /\ Plain(r)
    BY BodiesAssumption DEF Deployments, Statuses, None, Plain
  <2>2. CASE Existing(q) # {}
    BY <1>3, <2>2 DEF Deploy
  <2>3. CASE Existing(q) = {}
    <3>1. revs' = Append(revs, r)
      BY <1>3, <2>3 DEF Deploy
    <3>2. q # NoRequest => \A i \in 1..Len(revs) : revs[i].request # q
      BY <2>3 DEF Existing
    <3> HIDE DEF r
    <3> QED BY <2>1, <3>1, <3>2
  <2> QED BY <2>2, <2>3
<1>4. ASSUME InsertRollback(c)
      PROVE  \E r \in Deployments :
               /\ revs' = Append(revs, r)
               /\ r.status # "rolled_back" /\ Plain(r)
               /\ r.request # NoRequest => \A i \in 1..Len(revs) : revs[i].request # r.request
  <2> DEFINE r == [request |-> NoRequest, image |-> revs[prev[c]].image,
                     digest |-> revs[prev[c]].digest, manifest |-> NoImage,
                   auto |-> FALSE, status |-> "running", verified |-> "no",
                   rollbackOf |-> target[c]]
  <2>1. prev[c] \in 1..Len(revs) /\ revs \in Seq(Deployments)
    BY <1>1, <1>4 DEF IInv, PreviousCleared, InsertRollback, None, TypeOK
  <2>2. revs[prev[c]] \in Deployments
    BY <2>1
  <2>3. r \in Deployments /\ r.status # "rolled_back" /\ r.request = NoRequest /\ Plain(r)
    BY <1>1, <2>2 DEF Deployments, Statuses, Plain
  <2>4. revs' = Append(revs, r)
    BY <1>4 DEF InsertRollback
  <2> HIDE DEF r
  <2> QED BY <2>3, <2>4
<1>5. ASSUME ImageVerify(c)
      PROVE  \/ \E d \in 0..Len(revs), s \in Statuses :
                  SetStatus(d, s) /\ s # "rolled_back"
             \/ \E d \in 1..Len(revs), v \in {"signed", "skipped"} :
                  revs' = [revs EXCEPT ![d].verified = v]
  <2>1. dep[c] \in 1..Len(revs)
    BY <1>1, <1>5 DEF IInv, ForwardInserted, Forward, ImageVerify, None
  <2> QED BY <1>1, <1>2, <1>5, <2>1 DEF ImageVerify, Fail
<1>6. CASE \/ \E other \in {"allow", "requires_approval", "deny"} : Policy(c, other)
           \/ Apply(c) \/ Verify(c) \/ Notify(c) \/ Restore(c) \/ FinishRollback(c)
  <2>1. \/ revs' = revs
        \/ \E s \in {"pending_approval", "blocked", "failed", "completed"} : SetStatus(dep[c], s)
    BY <1>6 DEF Policy, Apply, Verify, Notify, Restore, AfterFailedRestore, FinishRollback, Fail
  <2> QED BY <1>1, <1>2, <2>1
<1>7. CASE MarkRolledBack(c)
  BY <1>1, <1>2, <1>7 DEF MarkRolledBack
<1>8. CASE \/ \E d \in 1..Len(revs) : Rollback(c, d)
           \/ NoPrevious(c) \/ NonReversible(c) \/ PreviousRevision(c)
  BY <1>8 DEF Rollback, NoPrevious, NonReversible, PreviousRevision
<1> QED BY <1>3, <1>4, <1>5, <1>6, <1>7, <1>8 DEF StepOf

(* A request that hands its deployment to the connector waits no longer.   *)
LEMMA RunCases ==
  ASSUME IInv, NEW c \in Callers, StepOf(c)
  PROVE  \/ runtime' = runtime
         \/ /\ pc[c] \in {"apply", "restore"}
            /\ pc'[c] \in {"verify", "mark", "over"}
            /\ dep' = dep
            /\ runtime' = Append(runtime, dep[c])
BY DEF IInv, TypeOK, StepOf, Deploy, Rollback, Policy, ImageVerify, Apply, Verify, Notify,
       NoPrevious, NonReversible, PreviousRevision, InsertRollback, Restore,
       AfterFailedRestore, MarkRolledBack, FinishRollback, Fail, Answer, Go

(* A request that waits had its deployment before, or inserts it now.      *)
LEMMA WaitingCases ==
  ASSUME IInv, NEW c \in Callers, StepOf(c), pc'[c] \in Waiting
  PROVE  /\ runtime' = runtime
         /\ \/ pc[c] \in Waiting /\ dep'[c] = dep[c]
            \/ dep'[c] = Len(revs) + 1
<1> USE DEF IInv, TypeOK, Waiting, Go, Answer, Fail
<1>5. ASSUME NEW r, revs' = Append(revs, r), dep' = [dep EXCEPT ![c] = Len(revs')]
      PROVE  dep'[c] = Len(revs) + 1
  BY <1>5
<1>6. CASE InsertRollback(c)
  BY <1>5, <1>6 DEF InsertRollback
<1>1. ASSUME NEW q \in RequestIds \union {NoRequest}, NEW body \in Bodies,
             NEW auto \in BOOLEAN, Deploy(c, q, body, auto)
      PROVE  runtime' = runtime /\ dep'[c] = Len(revs) + 1
  <2>1. Existing(q) = {}
    BY <1>1 DEF Deploy
  <2> QED BY <1>1, <1>5, <2>1 DEF Deploy
<1>2. CASE ImageVerify(c) \/ \E other \in {"allow", "requires_approval", "deny"} : Policy(c, other)
  BY <1>2 DEF ImageVerify, Policy
<1>3. CASE Apply(c) \/ Verify(c) \/ Notify(c) \/ Restore(c) \/ MarkRolledBack(c)
  BY <1>3 DEF Apply, Verify, Notify, Restore, AfterFailedRestore, MarkRolledBack
<1>4. CASE \/ \E d \in 1..Len(revs) : Rollback(c, d)
           \/ NoPrevious(c) \/ NonReversible(c) \/ PreviousRevision(c) \/ FinishRollback(c)
  BY <1>4 DEF Rollback, NoPrevious, NonReversible, PreviousRevision, FinishRollback
<1> QED BY <1>1, <1>2, <1>3, <1>4, <1>6 DEF StepOf

(* Nothing else of a request moves either.                                 *)
StaysWhole(c) == Stays(c) /\ target'[c] = target[c]

(* At most one caller moves in a step; the others keep what is theirs.     *)
LEMMA OneMover ==
  ASSUME TypeOK, [Next]_vars
  PROVE  \/ \A c \in Callers : StaysWhole(c)
         \/ \E d \in Callers :
              StepOf(d) /\ \A c \in Callers : c # d => StaysWhole(c)
<1> USE DEF TypeOK
<1>1. ASSUME NEW d \in Callers, StepOf(d), NEW c \in Callers, c # d
      PROVE  StaysWhole(c)
  BY <1>1
  DEF StepOf, Stays, StaysWhole, Deploy, Rollback, Policy, ImageVerify, Apply, Verify,
      Notify, NoPrevious, NonReversible, PreviousRevision, InsertRollback,
      Restore, AfterFailedRestore, MarkRolledBack, FinishRollback, Fail,
      Answer, Go
<1>2. ASSUME UNCHANGED calls PROVE \A c \in Callers : StaysWhole(c)
  BY <1>2 DEF calls, Stays, StaysWhole
<1> QED
  BY <1>1, <1>2, NextCases DEF Approve, Expire, ToggleOverride, Administer, vars

(* ... nor of the history and the runtime, when no request moves.          *)
LEMMA NoMover ==
  ASSUME IInv, [Next]_vars, \A c \in Callers : ~StepOf(c)
  PROVE  revs' = revs /\ runtime' = runtime /\ \A c \in Callers : StaysWhole(c)
<1>1. UNCHANGED <<revs, runtime, calls>>
  BY NextCases DEF Approve, Expire, ToggleOverride, Administer, vars
<1> QED BY <1>1 DEF calls, StaysWhole, Stays

(* A deployment is run by its own caller, once.                            *)
LEMMA RunningStep ==
  ASSUME EInv, [Next]_vars
  PROVE  NotRunYet' /\ OwnDeployments' /\ RunOnce'
<1>1. IInv /\ TypeOK /\ runtime \in Seq(1..Len(revs)) /\ Len(revs) \in Nat
  BY DEF EInv, IInv, TypeOK
<1>2. CASE \A c \in Callers : ~StepOf(c)
  <2>1. runtime' = runtime /\ \A c \in Callers : pc'[c] = pc[c] /\ dep'[c] = dep[c]
    BY <1>1, <1>2, NoMover DEF StaysWhole, Stays
  <2> QED BY <2>1 DEF EInv, NotRunYet, OwnDeployments, RunOnce
<1>3. ASSUME NEW d \in Callers, StepOf(d) PROVE NotRunYet' /\ OwnDeployments' /\ RunOnce'
  <2>1. ASSUME NEW c \in Callers, c # d
        PROVE  pc'[c] = pc[c] /\ dep'[c] = dep[c]
    <3>1. StepOf(c) \/ Stays(c)
      BY <1>1, OnlyOneMoves
    <3>2. CASE ~Stays(c)
      BY <1>1, <1>3, <2>1, <3>1, <3>2
      DEF TypeOK, StepOf, Stays, Deploy, Rollback, Policy, ImageVerify, Apply, Verify,
          Notify, NoPrevious, NonReversible, PreviousRevision, InsertRollback,
          Restore, AfterFailedRestore, MarkRolledBack, FinishRollback, Fail,
          Answer, Go
    <3> QED BY <3>2 DEF Stays
  <2>2. \A c \in Callers : dep[c] \in 0..Len(revs)
    BY <1>1 DEF TypeOK
  <2>3. ASSUME NEW c \in Callers, pc'[c] \in Waiting
        PROVE  /\ dep'[c] # None
               /\ \A i \in 1..Len(runtime) : runtime[i] # dep'[c]
               /\ \/ pc[c] \in Waiting /\ dep'[c] = dep[c]
                  \/ dep'[c] = Len(revs) + 1
    <3>1. \/ pc[c] \in Waiting /\ dep'[c] = dep[c]
          \/ dep'[c] = Len(revs) + 1
      BY <1>1, <1>3, <2>1, <2>3, WaitingCases
    <3>2. \A i \in 1..Len(runtime) : runtime[i] # Len(revs) + 1
      BY <1>1
    <3> QED BY <1>1, <3>1, <3>2 DEF EInv, NotRunYet, None
  <2>4. OwnDeployments'
    <3> SUFFICES ASSUME NEW c \in Callers, NEW e \in Callers, c # e,
                        pc'[c] \in Waiting, pc'[e] \in Waiting
                 PROVE  dep'[c] # dep'[e]
      BY DEF OwnDeployments
    <3>1. (c # d /\ pc[c] \in Waiting /\ dep'[c] = dep[c]) \/ (e # d /\ pc[e] \in Waiting /\ dep'[e] = dep[e])
      BY <2>1
    <3> QED BY <1>1, <2>2, <2>3, <3>1 DEF EInv, OwnDeployments
  <2>5. CASE runtime' = runtime
    BY <2>3, <2>4, <2>5 DEF EInv, NotRunYet, RunOnce
  <2>6. CASE /\ pc[d] \in {"apply", "restore"}
             /\ pc'[d] \in {"verify", "mark", "over"}
             /\ dep' = dep
             /\ runtime' = Append(runtime, dep[d])
    <3>1. pc[d] \in Waiting /\ pc'[d] \notin Waiting
      BY <2>6 DEF Waiting
    <3>2. dep[d] \in 1..Len(revs) /\ \A i \in 1..Len(runtime) : runtime[i] # dep[d]
      BY <2>2, <3>1 DEF EInv, NotRunYet, None
    <3>3. /\ Len(runtime') = Len(runtime) + 1 /\ Len(runtime) \in Nat
          /\ runtime'[Len(runtime) + 1] = dep[d]
          /\ \A i \in 1..Len(runtime) : runtime'[i] = runtime[i]
      BY <1>1, <2>6, <3>2
    <3>4. RunOnce'
      BY <3>2, <3>3 DEF EInv, RunOnce
    <3>5. ASSUME NEW c \in Callers, pc'[c] \in Waiting
          PROVE  dep'[c] # dep[d]
      <4>1. c # d /\ pc[c] \in Waiting /\ dep'[c] = dep[c]
        BY <2>1, <3>1, <3>5
      <4> QED BY <3>1, <4>1 DEF EInv, OwnDeployments
    <3>6. NotRunYet'
      BY <2>3, <3>3, <3>5 DEF NotRunYet
    <3> QED BY <2>4, <3>4, <3>6
  <2> QED BY <1>1, <1>3, <2>5, <2>6, RunCases
<1> QED BY <1>2, <1>3

(* Store.Insert returns a deployment with the same request id.             *)
LEMMA RequestsStep ==
  ASSUME EInv, [Next]_vars
  PROVE  OneDeploymentPerRequest'
<1>1. IInv /\ revs \in Seq(Deployments) /\ Len(revs) \in Nat
  BY DEF EInv, IInv, TypeOK
<1>2. ASSUME Len(revs') = Len(revs),
             \A i \in 1..Len(revs) : revs'[i].request = revs[i].request
      PROVE  OneDeploymentPerRequest'
  BY <1>2 DEF EInv, OneDeploymentPerRequest
<1>3. ASSUME NEW d \in 0..Len(revs), NEW s \in Statuses, SetStatus(d, s)
      PROVE  OneDeploymentPerRequest'
  <2>1. Len(revs') = Len(revs)
    BY <1>1, <1>3, StatusKeeps
  <2>2. \A i \in 1..Len(revs) : revs[i] \in Deployments
    BY <1>1
  <2>3. \A i \in 1..Len(revs) : revs'[i] = IF i = d THEN [revs[i] EXCEPT !.status = s] ELSE revs[i]
    BY <1>1, <1>3 DEF SetStatus
  <2>4. \A i \in 1..Len(revs) : revs'[i].request = revs[i].request
    BY <2>2, <2>3 DEF Deployments
  <2> QED BY <1>2, <2>1, <2>4
<1>4. ASSUME NEW d \in 1..Len(revs), NEW v \in {"signed", "skipped"},
             revs' = [revs EXCEPT ![d].verified = v]
      PROVE  OneDeploymentPerRequest'
  <2>1. \A i \in 1..Len(revs) : revs[i] \in Deployments
    BY <1>1
  <2>2. Len(revs') = Len(revs)
        /\ \A i \in 1..Len(revs) : revs'[i] = IF i = d THEN [revs[i] EXCEPT !.verified = v] ELSE revs[i]
    BY <1>1, <1>4
  <2>3. \A i \in 1..Len(revs) : revs'[i].request = revs[i].request
    BY <2>1, <2>2 DEF Deployments
  <2> QED BY <1>2, <2>2, <2>3
<1>5. ASSUME NEW r \in Deployments, revs' = Append(revs, r),
             r.request # NoRequest => \A i \in 1..Len(revs) : revs[i].request # r.request
      PROVE  OneDeploymentPerRequest'
  <2>1. /\ Len(revs') = Len(revs) + 1 /\ revs'[Len(revs')] = r
        /\ \A j \in 1..Len(revs) : revs'[j] = revs[j]
    BY <1>1, <1>5, AppendKeeps
  <2> QED BY <1>1, <1>5, <2>1 DEF EInv, OneDeploymentPerRequest
<1>6. CASE \E c \in Callers : StepOf(c)
  <2>1. PICK c \in Callers : StepOf(c)
    BY <1>6
  <2>2. revs' = revs => OneDeploymentPerRequest'
    BY <1>2
  <2> QED BY <1>1, <1>3, <1>4, <1>5, <2>1, <2>2, HistoryCases
<1>7. CASE \A c \in Callers : ~StepOf(c)
  BY <1>1, <1>2, <1>7, NoMover
<1> QED BY <1>6, <1>7

(* Only a client's request brings a manifest.                              *)
LEMMA PlainStep ==
  ASSUME EInv, [Next]_vars
  PROVE  RollbacksPlain'
<1>1. IInv /\ revs \in Seq(Deployments) /\ RollbacksPlain
  BY DEF EInv, IInv, TypeOK
<1>2. ASSUME Len(revs') = Len(revs), HistoryGrows PROVE RollbacksPlain'
  BY <1>1, <1>2 DEF HistoryGrows, Keeps, RollbacksPlain, Plain
<1>3. HistoryGrows
  BY <1>1, HistoryStep
<1>4. ASSUME NEW d \in 0..Len(revs), NEW s \in Statuses, SetStatus(d, s)
      PROVE  RollbacksPlain'
  BY <1>1, <1>2, <1>3, <1>4, StatusKeeps
<1>5. ASSUME NEW r \in Deployments, revs' = Append(revs, r), Plain(r)
      PROVE  RollbacksPlain'
  <2>1. /\ Len(revs') = Len(revs) + 1 /\ revs'[Len(revs')] = r
        /\ \A j \in 1..Len(revs) : revs'[j] = revs[j]
    BY <1>1, <1>5, AppendKeeps
  <2> QED BY <1>1, <1>5, <2>1 DEF RollbacksPlain
<1>6. ASSUME NEW d \in 1..Len(revs), NEW v \in {"signed", "skipped"},
             revs' = [revs EXCEPT ![d].verified = v]
      PROVE  RollbacksPlain'
  <2>1. Len(revs') = Len(revs)
    BY <1>1, <1>6
  <2> QED BY <1>2, <1>3, <2>1
<1>7. CASE \E c \in Callers : StepOf(c)
  <2>1. PICK c \in Callers : StepOf(c)
    BY <1>7
  <2>2. revs' = revs => RollbacksPlain'
    BY <1>2, <1>3
  <2> QED BY <1>1, <1>4, <1>5, <1>6, <2>1, <2>2, HistoryCases
<1>8. CASE \A c \in Callers : ~StepOf(c)
  BY <1>1, <1>2, <1>3, <1>8, NoMover
<1> QED BY <1>7, <1>8

(* What a rollback restores stays another deployment's revision.           *)
LEMMA ReplacesStays ==
  ASSUME IInv, [Next]_vars, NEW d \in 1..Len(revs), NEW t, Replaces(d, t)
  PROVE  /\ d \in 1..Len(revs') /\ revs'[d].rollbackOf = t
         /\ \E j \in (1..Len(revs')) \ {t, d} : Revision(j)' = Revision(d)'
<1>1. HistoryGrows /\ Len(revs) \in Nat /\ Len(revs') \in Nat
  BY HistoryStep DEF HistoryGrows, IInv, TypeOK
<1>2. PICK j \in (1..Len(revs)) \ {t, d} : Revision(j) = Revision(d)
  BY DEF Replaces
<1>3. Keeps(d) /\ Keeps(j) /\ d \in 1..Len(revs') /\ j \in 1..Len(revs')
  BY <1>1 DEF HistoryGrows
<1> QED BY <1>2, <1>3 DEF Keeps, Replaces, Revision

(* The runtime forgets nothing.                                            *)
LEMMA RuntimeGrows ==
  ASSUME IInv, [Next]_vars, NEW i \in 1..Len(runtime)
  PROVE  i \in 1..Len(runtime') /\ runtime'[i] = runtime[i]
<1>1. runtime \in Seq(1..Len(revs)) /\ \A c \in Callers : pc[c] \in {"apply", "restore"} => dep[c] \in 1..Len(revs)
  BY DEF IInv, TypeOK, GatedCleared, Gated, None
<1>2. ASSUME NEW d \in 1..Len(revs), runtime' = Append(runtime, d)
      PROVE  i \in 1..Len(runtime') /\ runtime'[i] = runtime[i]
  BY <1>1, <1>2
<1>3. runtime' = runtime => i \in 1..Len(runtime') /\ runtime'[i] = runtime[i]
  OBVIOUS
<1> QED BY <1>1, <1>2, <1>3, NoMover, RunCases

(* A rollback restores another deployment than the one it replaces.        *)
LEMMA RestoringStep ==
  ASSUME EInv, [Next]_vars
  PROVE  OtherRestored'
<1>1. IInv /\ TypeOK
  BY DEF EInv, IInv
<1> SUFFICES ASSUME NEW c \in Callers
    PROVE  /\ pc'[c] = "insert" => prev'[c] # None /\ prev'[c] # target'[c]
           /\ pc'[c] \in {"restore", "mark"} =>
                dep'[c] # None /\ Replaces(dep[c], target[c])'
           /\ pc'[c] = "mark" => \E i \in 1..Len(runtime') : runtime'[i] = dep'[c]
  BY DEF OtherRestored
<1>2. dep[c] \in 0..Len(revs) /\ prev[c] \in 0..Len(revs) /\ Len(revs) \in Nat
      /\ runtime \in Seq(1..Len(revs)) /\ revs \in Seq(Deployments)
  BY <1>1 DEF TypeOK
<1>3. ASSUME pc[c] \in {"restore", "mark"}, dep'[c] = dep[c], target'[c] = target[c]
      PROVE  dep'[c] # None /\ Replaces(dep[c], target[c])'
  <2>1. dep[c] \in 1..Len(revs) /\ Replaces(dep[c], target[c])
    BY <1>2, <1>3 DEF EInv, OtherRestored, None
  <2> QED BY <1>1, <1>3, <2>1, ReplacesStays DEF Replaces, None
<1>4. CASE StaysWhole(c)
  <2>1. pc[c] = "mark" => \E i \in 1..Len(runtime') : runtime'[i] = dep[c]
    BY <1>1, RuntimeGrows DEF EInv, OtherRestored
  <2> QED BY <1>3, <1>4, <2>1 DEF StaysWhole, Stays, EInv, OtherRestored
<1>5. CASE PreviousRevision(c)
  <2>1. Restorable(target[c]) # {} /\ Restorable(target[c]) \subseteq 1..Len(revs)
        /\ prev'[c] = Latest(Restorable(target[c])) /\ target' = target /\ pc'[c] = "insert"
    BY <1>1, <1>5 DEF PreviousRevision, Restorable, TypeOK, Go
  <2>2. prev'[c] \in Restorable(target[c])
    BY <1>1, <2>1, LatestFound
  <2>3. prev'[c] \in 1..Len(revs) /\ prev'[c] # target[c]
    BY <2>2 DEF Restorable
  <2>4. prev'[c] # None /\ prev'[c] # target'[c]
    BY <1>2, <2>1, <2>3 DEF None
  <2> QED BY <2>1, <2>4
<1>6. CASE InsertRollback(c)
  <2> DEFINE p == prev[c]
             r == [request |-> NoRequest, image |-> revs[p].image,
                     digest |-> revs[p].digest, manifest |-> NoImage,
                   auto |-> FALSE, status |-> "running", verified |-> "no",
                   rollbackOf |-> target[c]]
  <2>1. p \in 1..Len(revs) /\ p # target[c] /\ pc'[c] = "restore" /\ target' = target
        /\ revs' = Append(revs, r) /\ dep'[c] = Len(revs')
    BY <1>1, <1>2, <1>6 DEF InsertRollback, EInv, OtherRestored, TypeOK, None, Go
  <2>2. revs[p] \in Deployments /\ target[c] \in Nat
    BY <1>1, <1>2, <2>1 DEF TypeOK
  <2>3. r \in Deployments /\ <<r.image, r.digest>> = Revision(p) /\ r.rollbackOf = target[c]
    BY <2>2 DEF Deployments, Statuses, Revision
  <2> HIDE DEF r
  <2>4. Len(revs') = Len(revs) + 1 /\ revs'[Len(revs) + 1] = r /\ revs'[p] = revs[p]
    BY <1>2, <2>1, <2>3, AppendKeeps
  <2>5. dep'[c] = Len(revs) + 1 /\ p \in 1..Len(revs') /\ p # dep'[c]
    BY <1>2, <2>1, <2>4
  <2>6. PICK j : j = p
    OBVIOUS
  <2>7. revs'[j] = revs[j] /\ revs'[dep'[c]] = r
    BY <2>4, <2>5, <2>6
  <2>8. Revision(j)' = Revision(dep[c])'
    BY <2>3, <2>6, <2>7 DEF Revision
  <2>9. Replaces(dep[c], target[c])'
    BY <2>1, <2>3, <2>5, <2>6, <2>7, <2>8 DEF Replaces
  <2> QED BY <1>2, <2>1, <2>5, <2>9 DEF None
<1>7. CASE Restore(c)
  <2>1. dep' = dep /\ target' = target /\ pc[c] = "restore" /\ pc'[c] \in {"mark", "over"}
        /\ (pc'[c] = "mark" => runtime' = Append(runtime, dep[c]))
    BY <1>1, <1>7 DEF Restore, AfterFailedRestore, Fail, Answer, Go, TypeOK
  <2>2. dep[c] \in 1..Len(revs)
    BY <1>2, <2>1 DEF EInv, OtherRestored, None
  <2>3. pc'[c] = "mark" => \E i \in 1..Len(runtime') : runtime'[i] = dep'[c]
    BY <1>2, <2>1, <2>2
  <2> QED BY <1>3, <2>1, <2>3
<1>8. CASE StepOf(c) /\ ~PreviousRevision(c) /\ ~InsertRollback(c) /\ ~Restore(c)
  <2>1. pc'[c] \notin {"insert", "restore", "mark"}
    BY <1>1, <1>8
    DEF StepOf, TypeOK, Deploy, Rollback, Policy, ImageVerify, Apply, Verify,
        Notify, NoPrevious, NonReversible, MarkRolledBack, FinishRollback, Fail, Answer, Go
  <2> QED BY <2>1
<1> QED BY <1>1, <1>4, <1>5, <1>6, <1>7, <1>8, OneMover

(* Only MarkRolledBack reports, and its rollback has run.                  *)
LEMMA ReportedStep ==
  ASSUME EInv, [Next]_vars
  PROVE  RolledBackWasReplaced'
<1>1. IInv /\ revs \in Seq(Deployments) /\ Len(revs) \in Nat /\ runtime \in Seq(1..Len(revs))
  BY DEF EInv, IInv, TypeOK
<1> SUFFICES ASSUME NEW d \in 1..Len(revs'), revs'[d].status = "rolled_back"
    PROVE  \E i \in 1..Len(runtime') :
             /\ revs'[runtime'[i]].rollbackOf = d
             /\ \E j \in (1..Len(revs')) \ {d, runtime'[i]} :
                  Revision(j)' = Revision(runtime[i])'
  BY DEF RolledBackWasReplaced
<1>2. ASSUME NEW i \in 1..Len(runtime), Replaces(runtime[i], d)
      PROVE  \E k \in 1..Len(runtime') :
               /\ revs'[runtime'[k]].rollbackOf = d
               /\ \E j \in (1..Len(revs')) \ {d, runtime'[k]} :
                    Revision(j)' = Revision(runtime[k])'
  <2>1. i \in 1..Len(runtime') /\ runtime'[i] = runtime[i] /\ runtime[i] \in 1..Len(revs)
    BY <1>1, RuntimeGrows
  <2>2. PICK x \in 1..Len(revs) : x = runtime[i]
    BY <2>1
  <2>3. Replaces(x, d)
    BY <1>2, <2>2
  <2>4. /\ revs'[x].rollbackOf = d
        /\ \E j \in (1..Len(revs')) \ {d, x} : Revision(j)' = Revision(x)'
    BY <1>1, <2>3, ReplacesStays
  <2> QED BY <2>1, <2>2, <2>4
<1>3. ASSUME d \in 1..Len(revs), revs[d].status = "rolled_back"
      PROVE  \E i \in 1..Len(runtime) : Replaces(runtime[i], d)
  BY <1>3 DEF EInv, RolledBackWasReplaced, Replaces
<1>4. ASSUME NEW c \in Callers, StepOf(c)
      PROVE  \E i \in 1..Len(runtime) : Replaces(runtime[i], d)
  <2>1. revs' = revs => d \in 1..Len(revs) /\ revs[d].status = "rolled_back"
    OBVIOUS
  <2>2. ASSUME NEW e \in 0..Len(revs), NEW s \in Statuses, SetStatus(e, s),
               s = "rolled_back" => pc[c] = "mark" /\ e = target[c]
        PROVE  \E i \in 1..Len(runtime) : Replaces(runtime[i], d)
    <3>1. d \in 1..Len(revs) /\ revs'[d].status = IF d = e THEN s ELSE revs[d].status
      BY <1>1, <2>2, StatusKeeps
    <3>2. CASE d # e
      BY <1>3, <3>1, <3>2
    <3>3. CASE d = e
      <4>1. pc[c] = "mark" /\ d = target[c]
        BY <2>2, <3>1, <3>3
      <4> QED BY <1>4, <4>1 DEF EInv, OtherRestored
    <3> QED BY <3>2, <3>3
  <2>3. ASSUME NEW e \in 1..Len(revs), NEW v \in {"signed", "skipped"},
               revs' = [revs EXCEPT ![e].verified = v]
        PROVE  d \in 1..Len(revs) /\ revs[d].status = "rolled_back"
    <3>1. \A i \in 1..Len(revs) : revs[i] \in Deployments
      BY <1>1
    <3>2. Len(revs') = Len(revs) /\ revs'[d] = IF d = e THEN [revs[d] EXCEPT !.verified = v] ELSE revs[d]
      BY <1>1, <2>3
    <3>3. d \in 1..Len(revs)
      BY <3>2
    <3> QED BY <3>1, <3>2, <3>3 DEF Deployments
  <2>4. ASSUME NEW r \in Deployments, revs' = Append(revs, r), r.status # "rolled_back"
        PROVE  d \in 1..Len(revs) /\ revs[d].status = "rolled_back"
    <3>1. /\ Len(revs') = Len(revs) + 1 /\ revs'[Len(revs')] = r
          /\ \A j \in 1..Len(revs) : revs'[j] = revs[j]
      BY <1>1, <2>4, AppendKeeps
    <3> QED BY <1>1, <2>4, <3>1
  <2> QED BY <1>1, <1>3, <1>4, <2>1, <2>2, <2>3, <2>4, HistoryCases
<1>5. CASE \A c \in Callers : ~StepOf(c)
  <2>1. d \in 1..Len(revs) /\ revs[d].status = "rolled_back"
    BY <1>1, <1>5, NoMover
  <2> QED BY <1>2, <1>3, <2>1
<1> QED BY <1>2, <1>4, <1>5

(* Every step keeps the stronger invariant.                                *)
LEMMA EInvStep ==
  ASSUME EInv, [Next]_vars
  PROVE  EInv'
<1>1. IInv'
  BY TypeStep, ApprovalsStep, ForwardStep, ImageStep, GatedStep,
     PreviousStep, CompletedStep, RunsStep
  DEF EInv, IInv
<1> QED BY <1>1, RunningStep, RequestsStep, RestoringStep, ReportedStep, PlainStep DEF EInv

(* The first states satisfy it.                                            *)
LEMMA EInvInit ==
  ASSUME Init
  PROVE  EInv
<1>1. IInv
  BY IInvInit
<1>2. Len(revs) = 0 /\ Len(runtime) = 0 /\ \A c \in Callers : pc[c] = "new"
  BY DEF Init
<1> QED
  BY <1>1, <1>2
  DEF EInv, NotRunYet, OwnDeployments, RunOnce, OneDeploymentPerRequest, OtherRestored,
      RolledBackWasReplaced, RollbacksPlain, Waiting

(* EInv is inductive as well.                                              *)
THEOREM DeployRunsInvariant == Spec => []EInv
<1>1. Init => EInv
  BY EInvInit
<1>2. EInv /\ [Next]_vars => EInv'
  BY EInvStep
<1> QED BY <1>1, <1>2, PTL DEF Spec

(* However many requests share an id and whenever they come, the connector *)
(* is asked to run one deployment of it at most, and once: where newID()   *)
(* makes an id no client sends.                                            *)
THEOREM RequestsRunOnce ==
  ASSUME NoRequest \notin RequestIds
  PROVE  Spec => []RequestAppliedOnce
<1>1. EInv => RequestAppliedOnce
  <2> SUFFICES ASSUME EInv, NEW q \in RequestIds
               PROVE  Cardinality({i \in 1..Len(runtime) : revs[runtime[i]].request = q}) <= 1
    BY DEF RequestAppliedOnce
  <2> DEFINE S == {i \in 1..Len(runtime) : revs[runtime[i]].request = q}
  <2>1. runtime \in Seq(1..Len(revs)) /\ q # NoRequest
    BY DEF EInv, IInv, TypeOK
  <2>2. ASSUME NEW i \in S, NEW j \in S PROVE i = j
    <3>1. runtime[i] \in 1..Len(revs) /\ runtime[j] \in 1..Len(revs)
      BY <2>1
    <3>2. runtime[i] = runtime[j]
      BY <2>1, <3>1 DEF EInv, OneDeploymentPerRequest
    <3> QED BY <3>2 DEF EInv, RunOnce
  <2> HIDE DEF S
  <2>3. S = {} \/ \E i \in S : S = {i}
    BY <2>2
  <2>4. Cardinality(S) = 0 \/ Cardinality(S) = 1
    BY <2>3, FS_EmptySet, FS_Singleton
  <2> QED BY <2>4 DEF S
<1> QED BY <1>1, DeployRunsInvariant, PTL

(* A deployment reported as rolled back really was replaced by another     *)
(* one's image, whatever other requests did to the history meanwhile.      *)
THEOREM RollbacksReplace == Spec => []RolledBackWasReplaced
<1>1. EInv => RolledBackWasReplaced
  BY DEF EInv
<1> QED BY <1>1, DeployRunsInvariant, PTL

(* Nothing is run that did not pass both gates, as far as the gates look:  *)
(* whatever the connector is asked to run declares an image and a digest   *)
(* that was approved where both sides name one, and verified or exempted;  *)
(* and a rollback, of a rollback too, hands over just that image.          *)
THEOREM OnlyClearedImagesRun == Spec => []RunsOnlyCleared
<1>1. EInv => RunsOnlyCleared
  <2> SUFFICES ASSUME EInv, NEW i \in 1..Len(runtime)
               PROVE  /\ Cleared(Revision(runtime[i]))
                      /\ revs[runtime[i]].rollbackOf # None =>
                           Handed(runtime[i]) = revs[runtime[i]].image
    BY DEF RunsOnlyCleared
  <2>1. runtime[i] \in 1..Len(revs)
    BY DEF EInv, IInv, TypeOK
  <2>2. Plain(revs[runtime[i]])
    BY <2>1 DEF EInv, RollbacksPlain
  <2> QED BY <2>2 DEF EInv, IInv, RunsCleared, Plain, Handed
<1> QED BY <1>1, DeployRunsInvariant, PTL
=============================================================================
