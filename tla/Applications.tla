---------------------------- MODULE Applications ----------------------------
(***************************************************************************)
(* The applications of one workspace and the pull requests that swap their *)
(* design systems (services/application).                                   *)
(*                                                                         *)
(* Every method of the store holds its lock; an operation reads the        *)
(* application, asks other services, and then writes, with anything in     *)
(* between.  Design systems are approved and withdrawn in the registry.    *)
(***************************************************************************)
EXTENDS Naturals, FiniteSets

CONSTANTS
    Callers,      \* concurrent requests
    AppIds, Prs,  \* fresh identifiers: no two creations or swaps share one
    Slugs, Unassigned,
    Systems, Default

VARIABLES
    apps,         \* Store.apps
    bySlug,       \* Store.bySlug
    prs,          \* DesignSystemPRStore, by pull request
    opened,       \* the pull requests opened, with or without a row
    call,         \* what each caller is in the middle of
    resolves,     \* whether Service.DesignSystem was set (cmd/main.go does not)
    approved,     \* the design systems the registry has approved
    vetted        \* history: design systems that ever were approved

vars == <<apps, bySlug, prs, opened, call, resolves, approved, vetted>>

None == "none"
Free == [slug |-> None]
Idle == [pc |-> "idle"]
Live == {a \in AppIds : apps[a].slug \in Slugs}

Init ==
    /\ apps = [a \in AppIds |-> Free]
    /\ bySlug = [s \in Slugs |-> None]
    /\ prs = [p \in Prs |-> [status |-> None]]
    /\ opened = {}
    /\ call = [c \in Callers |-> Idle]
    /\ resolves \in BOOLEAN
    /\ approved = {Default} /\ vetted = {Default}

Goes(c, to) == call' = [call EXCEPT ![c] = to]
Returns(c)  == Goes(c, Idle)

-----------------------------------------------------------------------------
NewApp(slug, ref) ==
    [slug |-> slug, state |-> "active", ref |-> ref,
     system |-> slug = Unassigned]

(* What a creation or a patch names is asked of the registry, if there is   *)
(* one to ask.                                                              *)
Accepted(ref) == resolves => ref \in approved

(* Create: the design system is resolved ...                               *)
Create(c, slug, ref) ==
    /\ call[c] = Idle /\ slug # Unassigned
    /\ Accepted(ref)
    /\ Goes(c, [pc |-> "insert", app |-> NewApp(slug, ref)])
    /\ UNCHANGED <<apps, bySlug, prs, opened, resolves, approved, vetted>>

(* BootstrapHook.OnWorkspaceCreated: nothing is resolved.                  *)
OnWorkspaceCreated(c) ==
    /\ call[c] = Idle /\ bySlug[Unassigned] = None
    /\ Goes(c, [pc |-> "insert", app |-> NewApp(Unassigned, Default)])
    /\ UNCHANGED <<apps, bySlug, prs, opened, resolves, approved, vetted>>

(* ... and the store refuses a slug that is taken.                         *)
SlugTaken_Never(slug) == FALSE
SlugTaken(slug) == bySlug[slug] # None

Insert(c) ==
    /\ call[c].pc = "insert"
    /\ LET app == call[c].app IN
       IF SlugTaken(app.slug) THEN UNCHANGED <<apps, bySlug>>
       ELSE \E a \in AppIds :
               /\ apps[a] = Free
               /\ apps' = [apps EXCEPT ![a] = app]
               /\ bySlug' = [bySlug EXCEPT ![app.slug] = a]
    /\ Returns(c)
    /\ UNCHANGED <<prs, opened, resolves, approved, vetted>>

-----------------------------------------------------------------------------
(* What every change begins with: the application is read and is not the   *)
(* system's, and the caller is allowed to.                                  *)
Reads(c, a) == call[c] = Idle /\ a \in Live /\ ~apps[a].system

(* Patch, Archive, Restore and Delete up to their write; overrides of      *)
(* single components are left out.                                          *)
BeginsPatch(c, a) ==
    \E ref \in Systems : Goes(c, [pc |-> "patch", id |-> a, ref |-> ref])

BeginsArchive(c, a) ==
    apps[a].state = "active" /\ Goes(c, [pc |-> "archive", id |-> a])

BeginsRestore(c, a) ==
    apps[a].state = "archived" /\ Goes(c, [pc |-> "restore", id |-> a])

BeginsDelete(c, a) == Goes(c, [pc |-> "delete", id |-> a])

(* Swap, which has a resolver of its own, opens its pull request before it *)
(* records anything.                                                       *)
OpenSwapPR(c, a) ==
    \E ref \in approved : \E p \in Prs \ opened :
       /\ opened' = opened \cup {p}
       /\ Goes(c, [pc |-> "supersede", id |-> a, ref |-> ref, pr |-> p])

Begins(c, a) ==
    /\ Reads(c, a)
    /\ \/ /\ \/ BeginsPatch(c, a) \/ BeginsDelete(c, a)
             \/ BeginsArchive(c, a) \/ BeginsRestore(c, a)
          /\ UNCHANGED opened
       \/ OpenSwapPR(c, a)
    /\ UNCHANGED <<apps, bySlug, prs, resolves, approved, vetted>>

(* Store.Update: an application deleted meanwhile is an error.             *)
Update(a, app) == apps' = IF a \in Live THEN [apps EXCEPT ![a] = app] ELSE apps

Patch(c) ==
    LET a == call[c].id IN
    /\ call[c].pc = "patch"
    /\ IF Accepted(call[c].ref) THEN Update(a, [apps[a] EXCEPT !.ref = call[c].ref])
       ELSE UNCHANGED apps

Archive(c) ==
    /\ call[c].pc = "archive"
    /\ Update(call[c].id, [apps[call[c].id] EXCEPT !.state = "archived"])

Restore(c) ==
    /\ call[c].pc = "restore"
    /\ Update(call[c].id, [apps[call[c].id] EXCEPT !.state = "active"])

Writes(c) ==
    /\ Patch(c) \/ Archive(c) \/ Restore(c)
    /\ Returns(c)
    /\ UNCHANGED <<bySlug, prs, opened, resolves, approved, vetted>>

(* Delete, when the report of live artefacts was empty.                    *)
Gone == [slug |-> "deleted"]

Delete(c) ==
    LET a == call[c].id IN
    /\ call[c].pc = "delete"
    /\ IF a \in Live
       THEN /\ apps' = [apps EXCEPT ![a] = Gone]
            /\ bySlug' = [bySlug EXCEPT ![apps[a].slug] = None]
       ELSE UNCHANGED <<apps, bySlug>>
    /\ Returns(c)
    /\ UNCHANGED <<prs, opened, resolves, approved, vetted>>

-----------------------------------------------------------------------------
(* Swap goes on: earlier pull requests are superseded, the new one is      *)
(* recorded.                                                                *)
MarkSuperseded(c) ==
    /\ call[c].pc = "supersede"
    /\ prs' = [p \in Prs |->
         IF prs[p].status = "open" /\ prs[p].id = call[c].id
         THEN [prs[p] EXCEPT !.status = "superseded"] ELSE prs[p]]
    /\ Goes(c, [call[c] EXCEPT !.pc = "record"])
    /\ UNCHANGED <<apps, bySlug, opened, resolves, approved, vetted>>

OpenPR(c) ==
    /\ call[c].pc = "record"
    /\ prs' = [prs EXCEPT ![call[c].pr] =
                 [status |-> "open", id |-> call[c].id, ref |-> call[c].ref]]
    /\ Returns(c)
    /\ UNCHANGED <<apps, bySlug, opened, resolves, approved, vetted>>

(* HandleSwapPRMerged: the row must be open when it is read ...            *)
MergeRead(c, p) ==
    /\ call[c] = Idle /\ prs[p].status = "open"
    /\ prs[p].id \in Live
    /\ Goes(c, [pc |-> "merge", pr |-> p])
    /\ UNCHANGED <<apps, bySlug, prs, opened, resolves, approved, vetted>>

MergeApply(c) ==
    /\ call[c].pc = "merge"
    /\ LET pr == prs[call[c].pr] IN
       /\ Update(pr.id, [apps[pr.id] EXCEPT !.ref = pr.ref])
       /\ Goes(c, IF pr.id \in Live THEN [call[c] EXCEPT !.pc = "mark"] ELSE Idle)
    /\ UNCHANGED <<bySlug, prs, opened, resolves, approved, vetted>>

(* ... and becomes merged, whatever it is by then.                         *)
MarkMerged(c) ==
    /\ call[c].pc = "mark"
    /\ prs' = [prs EXCEPT ![call[c].pr].status = "merged"]
    /\ Returns(c)
    /\ UNCHANGED <<apps, bySlug, opened, resolves, approved, vetted>>

(* The registry approves a design system once, and may withdraw it.       *)
Approve(d) ==
    /\ d \notin vetted
    /\ approved' = approved \cup {d} /\ vetted' = vetted \cup {d}
    /\ UNCHANGED <<apps, bySlug, prs, opened, call, resolves>>

Withdraw(d) ==
    /\ d \in approved
    /\ approved' = approved \ {d}
    /\ UNCHANGED <<apps, bySlug, prs, opened, call, resolves, vetted>>

Next ==
    \/ \E c \in Callers :
          \/ OnWorkspaceCreated(c) \/ Insert(c) \/ Writes(c) \/ Delete(c)
          \/ MarkSuperseded(c) \/ OpenPR(c) \/ MergeApply(c) \/ MarkMerged(c)
          \/ \E slug \in Slugs, ref \in Systems : Create(c, slug, ref)
          \/ \E a \in AppIds : Begins(c, a)
          \/ \E p \in Prs : MergeRead(c, p)
    \/ \E d \in Systems : Approve(d) \/ Withdraw(d)

Spec == Init /\ [][Next]_vars

-----------------------------------------------------------------------------
TypeOK ==
    /\ \A a \in Live :
          /\ apps[a].state \in {"active", "archived"}
          /\ apps[a].ref \in Systems
    /\ bySlug \in [Slugs -> AppIds \cup {None}]
    /\ \A p \in Prs : prs[p].status \in {None, "open", "superseded", "merged"}
    /\ opened \subseteq Prs /\ resolves \in BOOLEAN
    /\ approved \subseteq vetted /\ vetted \subseteq Systems

(* Creations, deletions and swaps that overlap leave the store sound: the  *)
(* slug index and the applications agree, so no two applications share a    *)
(* slug; the system's application stays as it was made; where a registry is *)
(* asked, only design systems that were approved at some time reach an      *)
(* application, also through a pull request merged after they were          *)
(* withdrawn; and a merged pull request had been opened by a swap           *)
(* (Store.Insert, Delete, HandleSwapPRMerged).                              *)
AppsSound ==
    /\ \A a \in AppIds, s \in Slugs : bySlug[s] = a <=> a \in Live /\ apps[a].slug = s
    /\ \A a \in Live :
          /\ apps[a].system => apps[a] = NewApp(Unassigned, Default)
          /\ resolves => apps[a].ref \in vetted
    /\ \A p \in Prs : prs[p].status # None => p \in opened /\ prs[p].ref \in vetted
=============================================================================
