---------------------------- MODULE ArtifactStore ----------------------------
(***************************************************************************)
(* One version of one asset in a tenant's artifact store: the drivers of    *)
(* artifact-store-adapter (Nexus, Artifactory, GitHub releases,             *)
(* CodeArtifact) called by clients that may overlap, each with the digest   *)
(* it declares (`forge-artifact-store put` computes it from the bytes), and *)
(* by an administrator that deletes.  A Put is several requests: it looks,  *)
(* uploads the bytes and then a sidecar with the manifest; each may fail,   *)
(* and may succeed with its answer lost.  A call for another tenant or      *)
(* without a field is refused before any of them.                           *)
(***************************************************************************)
EXTENDS Naturals, FiniteSets

CONSTANTS Jobs, Digests,
          MaxDeletes   \* bound: deletions of the version

VARIABLES backend,   \* the driver of the binding
          policy,    \* external: the repository refuses to write a path twice
          open,      \* external: the store is publicly readable
          job,       \* [at, bytes, declared, release] of each job
          stored, sidecar,     \* the bytes and the manifest in the store, by digest
          release, serial,     \* GitHub's release of the version, 0 for none
          cleaning,            \* an administrator is between the two deletions
          deletes,
          inFlight, wiped, blind, overwrote,  \* history: sets of jobs, see below
          kept       \* history: what was acknowledged and not deleted since

store == <<backend, policy, open, job, stored, sidecar, release, serial, cleaning, deletes,
           inFlight, wiped, blind, overwrote, kept>>

Drivers == {"nexus", "artifactory", "github-packages-private", "codeartifact"}
Paths == backend \in {"nexus", "artifactory"}
GitHub == backend = "github-packages-private"
None == "none"

\* GitHub and CodeArtifact refuse a second asset of one name by themselves.
Enforces == policy \/ ~Paths

Errors == {"refused", "immutable", "digest_mismatch", "backend_error"}
Over == Errors \cup {"ok"}

TypeOK ==
    /\ backend \in Drivers /\ policy \in BOOLEAN /\ open \in BOOLEAN
    /\ job \in [Jobs -> [at : {"idle", "look", "release", "upload", "sidecar"} \cup Over,
                         bytes : Digests, declared : Digests, release : 0..Cardinality(Jobs)]]
    /\ stored \in Digests \cup {None} /\ sidecar \in Digests \cup {None}
    /\ release \in 0..serial /\ serial \in 0..Cardinality(Jobs)
    /\ cleaning \in BOOLEAN /\ deletes \in 0..MaxDeletes
    /\ inFlight \cup wiped \cup blind \cup overwrote \subseteq Jobs
    /\ kept \in Digests \cup {None}

Init ==
    /\ backend \in Drivers /\ policy \in BOOLEAN /\ open \in BOOLEAN
    /\ \E b, d \in [Jobs -> Digests] :
          job = [j \in Jobs |-> [at |-> "idle", bytes |-> b[j], declared |-> d[j], release |-> 0]]
    /\ stored = None /\ sidecar = None /\ release = 0 /\ serial = 0
    /\ cleaning = FALSE /\ deletes = 0
    /\ inFlight = {} /\ wiped = {} /\ blind = {} /\ overwrote = {} /\ kept = None

-----------------------------------------------------------------------------
At(j, step) == job[j].at = step
Goto(j, step) == job' = [job EXCEPT ![j].at = step]
Fails(j, error) == Goto(j, error) /\ inFlight' = inFlight \ {j}

\* Health: GitHub's driver reads whether the repository is private; the others
\* say of any store that it is not public.
IsPublicStorage == GitHub /\ open

\* Factory.Build probes the store: one that says it is public, or is unhealthy,
\* is refused.
Build(j) ==
    /\ At(j, "idle")
    /\ \/ ~IsPublicStorage /\ Goto(j, "look")
       \/ Goto(j, "refused")
    /\ UNCHANGED <<backend, policy, open, stored, sidecar, release, serial, cleaning, deletes,
                   inFlight, wiped, blind, overwrote, kept>>

\* HEAD: an answer other than 200, and an error, let the Put go on.
LookAtPath(j) ==
    \/ stored # None /\ Fails(j, "immutable") /\ UNCHANGED blind
    \/ /\ Goto(j, "upload") /\ inFlight' = inFlight \cup {j}
       /\ blind' = IF stored = None THEN blind ELSE blind \cup {j}

\* findRelease: here an error is one.
LookAtRelease(j) ==
    /\ \/ release # 0 /\ stored # None /\ Fails(j, "immutable")
       \/ /\ release # 0 /\ stored = None
          /\ job' = [job EXCEPT ![j].at = "upload", ![j].release = release]
          /\ inFlight' = inFlight \cup {j}
       \/ release = 0 /\ Goto(j, "release") /\ inFlight' = inFlight \cup {j}
       \/ Fails(j, "backend_error")
    /\ UNCHANGED blind

\* CodeArtifact does not look, and hashes the bytes before it sends them.
HashFirst(j) ==
    /\ IF job[j].bytes = job[j].declared
       THEN Goto(j, "upload") /\ inFlight' = inFlight \cup {j}
       ELSE Fails(j, "digest_mismatch")
    /\ UNCHANGED blind

Look(j) ==
    /\ At(j, "look")
    /\ CASE Paths -> LookAtPath(j) [] GitHub -> LookAtRelease(j) [] OTHER -> HashFirst(j)
    /\ UNCHANGED <<backend, policy, open, stored, sidecar, release, serial, cleaning, deletes,
                   wiped, overwrote, kept>>

\* A tag has one release; a creation whose answer is lost leaves an empty one.
CreateRelease(j) ==
    /\ At(j, "release")
    /\ \/ /\ release = 0 /\ serial' = serial + 1 /\ release' = serial + 1
          /\ \/ /\ job' = [job EXCEPT ![j].at = "upload", ![j].release = serial + 1]
                /\ UNCHANGED inFlight
             \/ Fails(j, "backend_error")
       \/ Fails(j, "backend_error") /\ UNCHANGED <<release, serial>>
    /\ UNCHANGED <<backend, policy, open, stored, sidecar, cleaning, deletes, wiped, blind,
                   overwrote, kept>>

\* The release the job holds is still there.
Reachable(j) == GitHub => release # 0 /\ job[j].release = release
Taken_Never == FALSE
Taken == stored # None /\ Enforces

\* The hash of what was sent is compared after the store has it.
Settles(j) ==
    IF job[j].bytes = job[j].declared THEN Goto(j, "sidecar") /\ UNCHANGED inFlight
                                      ELSE Fails(j, "digest_mismatch")

Upload(j) ==
    /\ At(j, "upload")
    /\ \/ /\ Reachable(j) /\ ~Taken /\ stored' = job[j].bytes
          /\ overwrote' = IF stored = None THEN overwrote ELSE overwrote \cup {j}
          /\ blind' = blind \cup (inFlight \ {j})
          /\ Settles(j) \/ Fails(j, "backend_error")
       \/ /\ \/ Reachable(j) /\ Taken
             \/ backend = "artifactory" /\ job[j].bytes # job[j].declared  \* X-Checksum-Sha256
          /\ Fails(j, "immutable") /\ UNCHANGED <<stored, blind, overwrote>>
       \/ Fails(j, "backend_error") /\ UNCHANGED <<stored, blind, overwrote>>
    /\ UNCHANGED <<backend, policy, open, sidecar, release, serial, cleaning, deletes, wiped, kept>>

\* Whatever becomes of the sidecar, the Put answers ok.
Sidecar(j) ==
    /\ At(j, "sidecar")
    /\ sidecar' \in {sidecar} \cup
          (IF Reachable(j) /\ ~(sidecar # None /\ Enforces) THEN {job[j].declared} ELSE {})
    /\ kept' = IF j \in wiped THEN kept ELSE job[j].declared
    /\ Goto(j, "ok") /\ inFlight' = inFlight \ {j}
    /\ UNCHANGED <<backend, policy, open, stored, release, serial, cleaning, deletes, wiped,
                   blind, overwrote>>

\* The manifest goes with GitHub's release and CodeArtifact's version; of a
\* path it is deleted next.
Delete ==
    /\ deletes < MaxDeletes /\ deletes' = deletes + 1
    /\ ~cleaning /\ (IF GitHub THEN release # 0 ELSE stored # None)
    /\ stored' = None /\ kept' = None /\ wiped' = wiped \cup inFlight
    /\ IF Paths THEN cleaning' \in BOOLEAN /\ UNCHANGED <<sidecar, release>>
                ELSE sidecar' = None /\ release' = 0 /\ UNCHANGED cleaning
    /\ UNCHANGED <<backend, policy, open, job, serial, inFlight, blind, overwrote>>

DeleteSidecar ==
    /\ cleaning /\ cleaning' = FALSE
    /\ sidecar' \in {sidecar, None}
    /\ UNCHANGED <<backend, policy, open, job, stored, release, serial, deletes, inFlight, wiped,
                   blind, overwrote, kept>>

Next ==
    \/ \E j \in Jobs : Build(j) \/ Look(j) \/ CreateRelease(j) \/ Upload(j) \/ Sidecar(j)
    \/ Delete \/ DeleteSidecar

Spec == Init /\ [][Next]_store

-----------------------------------------------------------------------------
Stat == sidecar

\* VerifyingReadCloser: the bytes are good only when Close says so.
Get(digest) == CASE stored = None -> "not_found"
                 [] stored = digest -> "ok"
                 [] OTHER -> "digest_mismatch"

(* adapter.go: a version is immutable.  Bytes are replaced only by a Put     *)
(* whose look failed or came before another's upload, and never where the    *)
(* store refuses; then what was acknowledged is what Get returns, and no     *)
(* second Put of the version is acknowledged before it is deleted.           *)
VersionImmutable ==
    /\ overwrote \subseteq blind
    /\ Enforces => overwrote = {}
    /\ overwrote = {} /\ kept # None => Get(kept) = "ok"
    /\ Enforces /\ deletes = 0 => Cardinality({j \in Jobs : At(j, "ok")}) <= 1

(* Stat's manifest tells the digest of the bytes, as long as nothing was     *)
(* deleted or replaced: a sidecar is written only for bytes that match.      *)
SidecarTells ==
    deletes = 0 /\ overwrote = {} /\ sidecar # None => Stat = stored

(* No bytes reach a public repository of GitHub, the only store that is      *)
(* asked (Health, Factory.Build).                                            *)
NeverReportedPublic == IsPublicStorage => stored = None

StoreSound == VersionImmutable /\ SidecarTells /\ NeverReportedPublic
=============================================================================
