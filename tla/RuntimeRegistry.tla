--------------------------- MODULE RuntimeRegistry --------------------------
(***************************************************************************)
(* Runtimes (services/runtime-registry): registered or provisioned, checked *)
(* before use, verified, revoked and destroyed. Store.Get hands out a copy   *)
(* and Store.Update puts a whole copy back.                                 *)
(***************************************************************************)
EXTENDS FiniteSets

CONSTANTS Runtimes, Operators

VARIABLES
    runtime,       \* the row of each, its status "none" before it is there
    held,          \* what each operation has read: [of, row], of "none" outside
    applied,       \* tenants whose cloud resources were applied for a row to come
    revoked,       \* the runtimes whose revocation was answered
    overlapped,    \* and those that an operation held while they were revoked
    report         \* of each, the status of its latest verification

runtimes == <<runtime, held, applied, revoked, overlapped, report>>

Modes     == {"byo", "provisioned"}
Types     == {"gke", "cloudrun", "minikube"}
Statuses  == {"registered", "ready", "preflight_failed", "revoked", "destroyed"}

None == [status |-> "none", mode |-> "byo", type |-> "gke", reachable |-> FALSE,
         scoped |-> FALSE, revoked |-> FALSE]
Free == [of |-> "none", row |-> None]

Init ==
    /\ runtime = [r \in Runtimes |-> None]
    /\ held = [x \in Operators |-> Free]
    /\ applied = {} /\ revoked = {} /\ overlapped = {}
    /\ report = [r \in Runtimes |-> "none"]

-----------------------------------------------------------------------------
(* Register; reachable and scoped stand for its endpoint and its namespace. *)
Register(r, mode, type, reachable, scoped) ==
    /\ runtime[r].status = "none"
    /\ runtime' = [runtime EXCEPT ![r] =
           [status |-> "registered", mode |-> mode, type |-> type, reachable |-> reachable,
            scoped |-> scoped, revoked |-> FALSE]]
    /\ UNCHANGED <<held, applied, revoked, overlapped, report>>

(* Provision: the resources are applied first, the row is inserted ready.   *)
Apply(r) ==
    /\ runtime[r].status = "none" /\ r \notin applied
    /\ applied' = applied \cup {r}
    /\ UNCHANGED <<runtime, held, revoked, overlapped, report>>

Provision(r, type) ==
    /\ r \in applied /\ runtime[r].status = "none"
    /\ runtime' = [runtime EXCEPT ![r] =
           [None EXCEPT !.status = "ready", !.mode = "provisioned", !.type = type,
                        !.reachable = TRUE]]
    /\ UNCHANGED <<held, applied, revoked, overlapped, report>>

-----------------------------------------------------------------------------
(* StaticPreflightChecker.Check, on the row and the hints of the caller.    *)
Hints == {"cluster-admin", "namespace=", "create-namespace", "pull-token", "workload-identity"}

Passes(row, hints) ==
    /\ row.type = "minikube" \/ row.reachable
    /\ "cluster-admin" \notin hints
    /\ \/ row.type = "cloudrun" \/ row.mode # "byo" \/ row.scoped
       \/ "namespace=" \in hints
    /\ row.mode = "byo" \/ {"create-namespace", "pull-token"} \subseteq hints
    /\ row.type = "gke" /\ row.mode = "provisioned" => "workload-identity" \in hints

Get(x, r) ==
    /\ held[x].of = "none" /\ runtime[r].status # "none"
    /\ held' = [held EXCEPT ![x] = [of |-> r, row |-> runtime[r]]]
    /\ UNCHANGED <<runtime, applied, revoked, overlapped, report>>

Update(x, row) ==
    /\ runtime' = [runtime EXCEPT ![held[x].of] = row]
    /\ held' = [held EXCEPT ![x] = Free]
    /\ UNCHANGED <<applied, report>>

Row(x) == held[x].row

(* RunPreflight: whatever the status was, it is now what the check says.    *)
RunPreflight(x) ==
    /\ held[x].of # "none"
    /\ \E hints \in SUBSET Hints :
         Update(x, [Row(x) EXCEPT !.status = IF Passes(Row(x), hints)
                                             THEN "ready" ELSE "preflight_failed"])
    /\ UNCHANGED <<revoked, overlapped>>

Holders(r, x) == {y \in Operators \ {x} : held[y].of = r}

Revoke(x) ==
    /\ held[x].of # "none"
    /\ Update(x, [Row(x) EXCEPT !.revoked = TRUE, !.status = "revoked"])
    /\ revoked' = revoked \cup {held[x].of}
    /\ overlapped' = IF Holders(held[x].of, x) = {} THEN overlapped \ {held[x].of}
                     ELSE overlapped \cup {held[x].of}

(* Destroy: refused for a runtime that is not provisioned or has active     *)
(* deployments, which are asked for between the read and the write.         *)
Destroy(x) ==
    /\ held[x].of # "none" /\ Row(x).mode = "provisioned"
    /\ Update(x, [Row(x) EXCEPT !.status = "destroyed"])
    /\ UNCHANGED <<revoked, overlapped>>

(* StaticVerifier.Verify: the statuses of the checks, by what the caller    *)
(* knows of the runtime ("project", "region" and "account" stand in the row, *)
(* which no other operation reads or writes).                               *)
Facts(row) ==
    CASE row.mode = "provisioned" -> {"iam", "account", "repo", "observability", "egress"}
      [] row.mode = "byo" /\ row.type = "gke" ->
           {"cluster-admin", "namespace=", "endpoint=", "egress"}
      [] row.mode = "byo" /\ row.type = "cloudrun" -> {"project", "region", "repo", "account"}
      [] OTHER -> {"minikube", "endpoint=", "observability"}

Check(ok, otherwise) == IF ok THEN "pass" ELSE otherwise

provisionedChecks(row, facts) ==
    {Check({"iam", "account"} \cap facts # {}, "fail"), Check("repo" \in facts, "fail"),
     Check("observability" \in facts, "warn"), Check("egress" \in facts, "warn")}

byoGKEChecks(row, facts) ==
    {Check(row.reachable \/ "endpoint=" \in facts, "fail"),
     IF "cluster-admin" \in facts THEN "fail" ELSE Check("namespace=" \in facts, "warn"),
     Check("egress" \in facts, "warn")}

byoCloudRunChecks(row, facts) ==
    {Check("project" \in facts, "fail"), Check("region" \in facts, "warn"),
     Check("repo" \in facts, "fail"), Check("account" \in facts, "fail")}

byoMinikubeChecks(row, facts) ==
    LET summary == facts \cap {"cluster-admin", "namespace=", "endpoint="}
    IN  {Check("minikube" \in facts \/ summary = {}, "warn"),
         Check("observability" \in facts, "warn")}

Checks(row, facts) ==
    CASE row.mode = "provisioned" -> provisionedChecks(row, facts)
      [] row.mode = "byo" /\ row.type = "gke" -> byoGKEChecks(row, facts)
      [] row.mode = "byo" /\ row.type = "cloudrun" -> byoCloudRunChecks(row, facts)
      [] OTHER -> byoMinikubeChecks(row, facts)

aggregateStatus(checks) ==
    IF "fail" \in checks THEN "fail" ELSE IF "warn" \in checks THEN "warn" ELSE "pass"

(* RunVerify appends a report of the row it has read, which may have been   *)
(* replaced meanwhile.                                                      *)
RunVerify(x) ==
    /\ held[x].of # "none"
    /\ \E facts \in SUBSET Facts(Row(x)) :
         report' = [report EXCEPT ![held[x].of] = aggregateStatus(Checks(Row(x), facts))]
    /\ held' = [held EXCEPT ![x] = Free]
    /\ UNCHANGED <<runtime, applied, revoked, overlapped>>

(* Destroy refused.                                                         *)
LetGo(x) ==
    /\ held[x].of # "none"
    /\ held' = [held EXCEPT ![x] = Free]
    /\ UNCHANGED <<runtime, applied, revoked, overlapped, report>>

Next ==
    \/ \E r \in Runtimes :
         \/ \E mode \in Modes, type \in Types, reachable, scoped \in BOOLEAN :
              Register(r, mode, type, reachable, scoped)
         \/ Apply(r)
         \/ \E type \in Types : Provision(r, type)
    \/ \E x \in Operators :
         \/ \E r \in Runtimes : Get(x, r)
         \/ RunPreflight(x)
         \/ Revoke(x)
         \/ Destroy(x)
         \/ RunVerify(x)
         \/ LetGo(x)

Spec == Init /\ [][Next]_runtimes

-----------------------------------------------------------------------------
RowType == [status : Statuses \cup {"none"}, mode : Modes, type : Types,
            reachable : BOOLEAN, scoped : BOOLEAN, revoked : BOOLEAN]

TypeOK ==
    /\ runtime \in [Runtimes -> RowType]
    /\ held \in [Operators -> [of : Runtimes \cup {"none"}, row : RowType]]
    /\ applied \in SUBSET Runtimes
    /\ revoked \in SUBSET Runtimes /\ overlapped \in SUBSET revoked
    /\ report \in [Runtimes -> {"none", "pass", "warn", "fail"}]

(* CheckUsableBy, for its own workspace. *)
Usable_ByStatus(r) == runtime[r].status \notin {"none", "revoked"}
Usable(r)          == runtime[r].status # "none" /\ ~runtime[r].revoked

(* A runtime whose revocation was answered is not usable again, whatever is *)
(* run on it afterwards, a preflight that makes it "ready" included. Only an*)
(* operation that had read the row before the latest revocation and writes  *)
(* it back after can undo it: without one, neither the row nor any copy in  *)
(* hand is usable (Service.Revoke, RunPreflight, Destroy, Store.Update).    *)
RevocationHolds ==
    \A r \in revoked \ overlapped :
        /\ ~Usable(r)
        /\ \A x \in Operators : held[x].of = r => Row(x).revoked

(* Preflight and verify judge one runtime by two sets of checks: a cluster  *)
(* of the operator's own that passes the one on a summary does not fail the *)
(* other on the same summary, and no later write of a copy makes the latest *)
(* report one of another kind of runtime: that of minikube never fails      *)
(* (StaticPreflightChecker.Check, StaticVerifier.Verify, RunVerify).        *)
VerifyAgrees ==
    /\ \A x \in Operators, hints \in SUBSET {"cluster-admin", "namespace="} :
         LET row == Row(x)
         IN  held[x].of # "none" /\ row.mode = "byo" /\ row.type # "cloudrun" /\ Passes(row, hints)
               => aggregateStatus(Checks(row, hints)) # "fail"
    /\ \A r \in Runtimes :
         runtime[r].mode = "byo" /\ runtime[r].type = "minikube" => report[r] # "fail"
=============================================================================
