----------------------------- MODULE Marketplace ----------------------------
(***************************************************************************)
(* What teams share: workflow listings and their installs                   *)
(* (services/marketplace), and the proposals that postmortems make of the   *)
(* specifications (services/evolution). The marketplace works under one     *)
(* mutex; the review of a proposal holds none between its steps.            *)
(***************************************************************************)
EXTENDS Naturals, FiniteSets

CONSTANTS
    Listings,
    Proposals,
    Reviewers

VARIABLES
    listing,     \* by listing: its visibility, state and evidence
    installs,    \* [listing, into]: what is installed, for good
    proposal,    \* by proposal: its status
    change,      \* [of, by]: the changes created, of which proposal in whose review
    review,      \* by reviewer: where its review is
    verdicts     \* history: [of, by, says] that Review let through

market == <<listing, installs, proposal, change, review, verdicts>>

None == "none"
Tiers == {"private", "workspace", "tenant", "forge-certified"}
Visibilities == Tiers \cup {"public"}  \* nothing asks that a visibility is one of the tiers
Homes == {"home", "other"}         \* the listing's own workspace, any other
Gated == {"tenant", "forge-certified"}

Init ==
    /\ listing = [l \in Listings |-> [state |-> None]] /\ installs = {}
    /\ proposal = [p \in Proposals |-> None]
    /\ change = {}
    /\ review = [r \in Reviewers |-> [at |-> None]] /\ verdicts = {}

(* Publish: each makes a listing of its own, a new one of the same version  *)
(* too.                                                                     *)
Certifiable(visibility, evidence) ==
    visibility = "forge-certified" => evidence = {"eval", "security"}

Publish(l, visibility, evidence) ==
    /\ listing[l].state = None
    /\ Certifiable(visibility, evidence)
    /\ listing' = [listing EXCEPT ![l] =
         [state |-> IF visibility \in Gated THEN "pending" ELSE "not_required",
          visibility |-> visibility, evidence |-> evidence]]
    /\ UNCHANGED <<installs, proposal, change, review, verdicts>>

Approve(l, approve) ==
    /\ listing[l].state = "pending"
    /\ listing' = [listing EXCEPT ![l].state = IF approve THEN "approved" ELSE "rejected"]
    /\ UNCHANGED <<installs, proposal, change, review, verdicts>>

Installable(l, into) ==
    /\ listing[l].state # None
    /\ listing[l].visibility # "private"
    /\ listing[l].visibility = "workspace" => into = "home"
    /\ listing[l].visibility \in Gated => listing[l].state = "approved"

Install(l, into) ==
    /\ Installable(l, into)
    /\ installs' = installs \cup {[of |-> l, into |-> into]}
    /\ UNCHANGED <<listing, proposal, change, review, verdicts>>

(* Search and visibilityVisible: what somebody of a workspace finds who     *)
(* does not ask for what is pending.                                        *)
Found(from) ==
    {l \in Listings :
        /\ listing[l].state # None
        /\ listing[l].visibility \in Tiers
        /\ listing[l].visibility \in {"private", "workspace"} => from = "home"
        /\ listing[l].visibility \in Gated => listing[l].state = "approved"}

-----------------------------------------------------------------------------
FromPostmortem(p) ==
    /\ proposal[p] = None
    /\ proposal' = [proposal EXCEPT ![p] = "inbox"]
    /\ UNCHANGED <<listing, installs, change, review, verdicts>>

(* Review reads the status of the shared record and decides.                *)
Review(r, p, approved) ==
    /\ review[r].at = None /\ proposal[p] = "inbox"
    /\ review' = [review EXCEPT ![r] = [at |-> IF approved THEN "accept" ELSE "reject", of |-> p]]
    /\ UNCHANGED <<listing, installs, proposal, change, verdicts>>

Says(r) == [of |-> review[r].of, by |-> r, says |-> review[r].at]

Reject(r) ==
    /\ review[r].at = "reject"
    /\ proposal' = [proposal EXCEPT ![review[r].of] = "rejected"]
    /\ verdicts' = verdicts \cup {Says(r)}
    /\ review' = [review EXCEPT ![r] = [at |-> "done"]]
    /\ UNCHANGED <<listing, installs, change>>

Accept(r) ==
    /\ review[r].at = "accept"
    /\ proposal' = [proposal EXCEPT ![review[r].of] = "accepted"]
    /\ verdicts' = verdicts \cup {Says(r)}
    /\ review' = [review EXCEPT ![r].at = "create"]
    /\ UNCHANGED <<listing, installs, change>>

(* CreateChange and the last Save, in each review that accepted; when it    *)
(* fails the proposal stays accepted, and no review can be made of it       *)
(* again.                                                                   *)
Convert(r) ==
    /\ review[r].at = "create"
    /\ change' = change \cup {[of |-> review[r].of, by |-> r]}
    /\ proposal' = [proposal EXCEPT ![review[r].of] = "converted"]
    /\ review' = [review EXCEPT ![r] = [at |-> "done"]]
    /\ UNCHANGED <<listing, installs, verdicts>>

CreateFails(r) ==
    /\ review[r].at = "create"
    /\ review' = [review EXCEPT ![r] = [at |-> "done"]]
    /\ UNCHANGED <<listing, installs, proposal, change, verdicts>>

Next ==
    \/ \E l \in Listings :
         \/ \E v \in Visibilities, e \in SUBSET {"eval", "security"} : Publish(l, v, e)
         \/ \E approve \in BOOLEAN : Approve(l, approve)
         \/ \E into \in Homes : Install(l, into)
    \/ \E p \in Proposals : FromPostmortem(p)
    \/ \E r \in Reviewers :
         \/ \E p \in Proposals, approved \in BOOLEAN : Review(r, p, approved)
         \/ Reject(r)
         \/ Accept(r)
         \/ Convert(r)
         \/ CreateFails(r)

Spec == Init /\ [][Next]_market

-----------------------------------------------------------------------------
TypeOK ==
    /\ \A l \in Listings : listing[l] \in {[state |-> None]} \cup
         [state : {"pending", "approved", "rejected", "not_required"},
          visibility : Visibilities, evidence : SUBSET {"eval", "security"}]
    /\ installs \subseteq [of : Listings, into : Homes]
    /\ proposal \in [Proposals -> {None, "inbox", "accepted", "rejected", "converted"}]
    /\ change \subseteq [of : Proposals, by : Reviewers]
    /\ \A r \in Reviewers : review[r] \in {[at |-> None], [at |-> "done"]} \cup
         [at : {"accept", "reject", "create"}, of : Proposals]
    /\ verdicts \subseteq [of : Proposals, by : Reviewers, says : {"accept", "reject"}]

(* What was published at one of the tiers and is installed is still what a  *)
(* search shows there, approved by somebody when it left its workspace, and *)
(* with both pieces of evidence when it is certified: no state a listing    *)
(* goes through leaves an install behind that the rules of Install would    *)
(* refuse today (Service.Install, Approve, Search).                         *)
InstallsVetted ==
    \A i \in installs : listing[i.of].visibility \in Tiers =>
        /\ i.of \in Found(i.into)
        /\ listing[i.of].visibility # "private"
        /\ listing[i.of].visibility \in Gated => listing[i.of].state = "approved"
        /\ listing[i.of].visibility = "forge-certified" =>
              listing[i.of].evidence = {"eval", "security"}

(* A change of the specification has an acceptance of its own behind it,    *)
(* even when reviews met; a proposal whose reviews have ended has the       *)
(* status of one of their verdicts, and one reviewed with a single voice    *)
(* has that (Service.Review).                                               *)
ChangesAccepted ==
    /\ \A c \in change : [of |-> c.of, by |-> c.by, says |-> "accept"] \in verdicts
    /\ \A p \in Proposals :
        LET said == {v.says : v \in {w \in verdicts : w.of = p}}
        IN  /\ proposal[p] = "converted" => \E c \in change : c.of = p
            /\ proposal[p] \in {"accepted", "converted"} => "accept" \in said
            /\ proposal[p] = "rejected" <=> /\ "reject" \in said
                                            /\ proposal[p] \notin {"accepted", "converted"}
            /\ said = {} => proposal[p] \in {None, "inbox"}

MarketSound == InstallsVetted /\ ChangesAccepted
=============================================================================
