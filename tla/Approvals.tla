----------------------------- MODULE Approvals ------------------------------
(***************************************************************************)
(* Approval requests (services/approvals): a store in memory, written as a  *)
(* whole to one file after every change, and events published after that.   *)
(* A handler has no await, so it runs to its end, unless its write fails or *)
(* the process dies.                                                        *)
(***************************************************************************)
EXTENDS Naturals

CONSTANTS Approvals, MaxCrashes

VARIABLES
    standing,      \* of each approval in memory
    disk,          \* what the file says of each
    intact,        \* the file is not half written
    due,           \* the approvals whose expires_at has come
    told,          \* the outcomes an answer or an event has told of each
    up, crashes

approvals == <<standing, disk, intact, due, told, up, crashes>>

Outcomes == {"approved", "rejected", "expired"}

Init ==
    /\ standing = [a \in Approvals |-> "none"] /\ disk = standing
    /\ intact = TRUE /\ due = {} /\ told = [a \in Approvals |-> {}]
    /\ up = TRUE /\ crashes = 0

(* _persist and what the handler does after it. write_text may fail with   *)
(* the file as it was, and may be cut short with the file truncated; both   *)
(* leave the memory changed and nothing told.                               *)
Saves(new, tells) ==
    /\ standing' = new
    /\ \/ disk' = new /\ intact' = TRUE /\ told' = tells
       \/ UNCHANGED <<disk, intact, told>>
       \/ intact' = FALSE /\ UNCHANGED <<disk, told>>
    /\ UNCHANGED <<due, up, crashes>>

Create(a) ==
    /\ up /\ standing[a] = "none"
    /\ Saves([standing EXCEPT ![a] = "pending"], told)

(* A decision on an approval that is no longer pending returns it as it is, *)
(* is saved again and published again as approval.decided.v1.               *)
Pending_Assumed(a) == TRUE
Pending(a)         == standing[a] = "pending"

Decide(a, decision) ==
    /\ up /\ standing[a] # "none"
    /\ LET new == IF Pending(a) THEN [standing EXCEPT ![a] = decision] ELSE standing
       IN  Saves(new, [told EXCEPT ![a] = @ \cup {new[a]}])

(* expire_due is the only place that looks at expires_at. *)
ExpireDue ==
    LET lapsed == {a \in due : standing[a] = "pending"}
        new    == [a \in Approvals |-> IF a \in lapsed THEN "expired" ELSE standing[a]]
    IN  /\ up /\ lapsed # {}
        /\ Saves(new, [a \in Approvals |-> IF a \in lapsed THEN told[a] \cup {"expired"}
                                                           ELSE told[a]])

TimePasses(a) ==
    /\ standing[a] # "none" /\ a \notin due
    /\ due' = due \cup {a}
    /\ UNCHANGED <<standing, disk, intact, told, up, crashes>>

-----------------------------------------------------------------------------
(* The process dies, also in the middle of a write; _load reads the file,   *)
(* and one that is half written fails the start.                            *)
Crash ==
    /\ up /\ crashes < MaxCrashes
    /\ up' = FALSE /\ crashes' = crashes + 1
    /\ UNCHANGED <<standing, disk, intact, due, told>>

Load ==
    /\ ~up /\ intact
    /\ up' = TRUE /\ standing' = disk
    /\ due' = {a \in due : disk[a] # "none"}
    /\ UNCHANGED <<disk, intact, told, crashes>>

Next ==
    \/ \E a \in Approvals :
         \/ Create(a)
         \/ \E decision \in {"approved", "rejected"} : Decide(a, decision)
         \/ TimePasses(a)
    \/ ExpireDue
    \/ Crash
    \/ Load

Spec == Init /\ [][Next]_approvals

-----------------------------------------------------------------------------
TypeOK ==
    /\ standing \in [Approvals -> {"none", "pending"} \cup Outcomes]
    /\ disk \in [Approvals -> {"none", "pending"} \cup Outcomes]
    /\ due \in SUBSET Approvals /\ told \in [Approvals -> SUBSET Outcomes]
    /\ intact \in BOOLEAN /\ up \in BOOLEAN /\ crashes \in 0..MaxCrashes

(* What the service has told of an approval, in an answer or an event, is   *)
(* one outcome and stays its outcome: the memory agrees while the process   *)
(* runs, and the file keeps it for the next one. Two approvers, a sweep and *)
(* a write that failed in between cannot make the service say two things    *)
(* (InMemoryApprovalStore.decide, FileApprovalStore._persist).              *)
OneOutcome ==
    \A a \in Approvals : \A outcome \in told[a] :
        /\ intact => disk[a] = outcome
        /\ up => standing[a] = outcome
=============================================================================
