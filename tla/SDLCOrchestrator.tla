--------------------------- MODULE SDLCOrchestrator -------------------------
(***************************************************************************)
(* An initiative on its way through the phases (services/sdlc-orchestrator). *)
(* Every operation takes a copy of it from the store, works on the copy and *)
(* puts the copy back: two of them may overlap, and the later one wins.     *)
(***************************************************************************)
EXTENDS Naturals, Sequences, SequencesExt

CONSTANTS
    OrderedPhases,
    Targets,       \* the plans asked for: policies of phases
    Handlers

VARIABLES
    initiative,    \* as the store has it; its phase is "none" before it is there
    copy,          \* what each handler has read, its phase "none" outside
    jumped         \* a regression went to a phase ahead

sdlc == <<initiative, copy, jumped>>

Policies  == {"required", "optional", "opt_in", "skipped"}
Phases    == ToSet(OrderedPhases)
Index(p)  == IF p = "done" THEN Len(OrderedPhases) + 1
             ELSE CHOOSE i \in DOMAIN OrderedPhases : OrderedPhases[i] = p
First     == OrderedPhases[1]

Nothing == [phase |-> "none", targets |-> [p \in {} |-> "required"],
            status |-> [p \in Phases |-> "not_started"]]

Init ==
    /\ initiative = Nothing
    /\ copy = [h \in Handlers |-> Nothing]
    /\ jumped = FALSE

-----------------------------------------------------------------------------
(* MergeTargets: an override only tightens. Included phases are promoted.   *)
Rank == [skipped |-> 0, opt_in |-> 1, optional |-> 2, required |-> 3]

MergeTargets(app, override) ==
    [p \in DOMAIN app \cup DOMAIN override |->
        IF p \in DOMAIN override THEN override[p] ELSE app[p]]

MayMerge(app, override) ==
    \A p \in DOMAIN override \cap DOMAIN app : Rank[override[p]] >= Rank[app[p]]

Promote(targets, include) ==
    [p \in DOMAIN targets |->
        IF p \in include /\ targets[p] = "opt_in" THEN "required" ELSE targets[p]]

LeftOut(targets, p) == p \in DOMAIN targets /\ targets[p] \in {"skipped", "opt_in"}
Policy(targets, p)  == IF p \in DOMAIN targets THEN targets[p] ELSE "required"

(* CreateInitiative *)
Create(app, override, include) ==
    /\ initiative.phase = "none"
    /\ MayMerge(app, override)
    /\ LET targets == Promote(MergeTargets(app, override), include)
       IN  initiative' = [Nothing EXCEPT
               !.phase = First, !.targets = targets,
               !.status = [p \in Phases |-> CASE p = First -> "in_progress"
                                              [] p # First /\ LeftOut(targets, p) -> "skipped"
                                              [] OTHER -> "not_started"]]
    /\ UNCHANGED <<copy, jumped>>

(* Store.Get *)
Get(h) ==
    /\ initiative.phase # "none" /\ copy[h].phase = "none"
    /\ copy' = [copy EXCEPT ![h] = initiative]
    /\ UNCHANGED <<initiative, jumped>>

-----------------------------------------------------------------------------
(* The phase after p, past those the plan leaves out.                       *)
NextPhase(targets, p) ==
    LET ahead == {q \in Phases : Index(q) > Index(p) /\ ~LeftOut(targets, q)}
    IN  IF ahead = {} THEN "done"
        ELSE CHOOSE q \in ahead : \A r \in ahead : Index(q) <= Index(r)

Enter(i, p) == IF p = "done" THEN [i EXCEPT !.phase = p]
               ELSE [i EXCEPT !.phase = p, !.status[p] = "in_progress"]

(* CompletePhase: failed gates block the phase unless they are overridden   *)
(* or the phase is optional; an override is noted even when nothing failed, *)
(* an invalid one is an error only when something did.                      *)
Blocks(i, clean, override) ==
    ~clean /\ override # "approved" /\ Policy(i.targets, i.phase) # "optional"

Completed(i, clean, override) ==
    IF Blocks(i, clean, override) THEN [i EXCEPT !.status[i.phase] = "blocked"]
    ELSE Enter([i EXCEPT !.status[i.phase] =
                    IF override = "approved" THEN "overridden" ELSE "passed"],
               NextPhase(i.targets, i.phase))

(* Store.Update: the copy replaces whatever is there. A completion of any   *)
(* phase but the current one of the copy changes nothing.                   *)
Puts(h, i) == initiative' = i /\ copy' = [copy EXCEPT ![h] = Nothing]

Complete(h) ==
    /\ copy[h].phase \in Phases
    /\ \E clean \in BOOLEAN, override \in {"none", "approved", "invalid"} :
         Puts(h, IF ~clean /\ override = "invalid" THEN initiative
                 ELSE Completed(copy[h], clean, override))
    /\ UNCHANGED jumped

GivesUp(h) ==
    /\ copy[h].phase # "none"
    /\ Puts(h, initiative)
    /\ UNCHANGED jumped

Regress(h, to) ==
    /\ copy[h].phase # "none"
    /\ Puts(h, Enter(copy[h], to))
    /\ jumped' = (jumped \/ Index(to) > Index(copy[h].phase))

Next ==
    \/ \E app \in Targets, override \in Targets \cup {[p \in {} |-> "required"]},
          include \in SUBSET Phases : Create(app, override, include)
    \/ \E h \in Handlers :
         \/ Get(h)
         \/ Complete(h)
         \/ GivesUp(h)
         \/ \E to \in Phases \cup {"done"} : Regress(h, to)

Spec == Init /\ [][Next]_sdlc

-----------------------------------------------------------------------------
Statuses == {"not_started", "in_progress", "passed", "overridden", "blocked", "skipped"}

Initiative == [phase : Phases \cup {"none", "done"},
               targets : UNION {[S -> Policies] : S \in SUBSET Phases},
               status : [Phases -> Statuses]]

TypeOK ==
    /\ initiative \in Initiative
    /\ \A h \in Handlers : copy[h] \in Initiative
    /\ jumped \in BOOLEAN

(* However completions, blocks and regressions overlap, the store never     *)
(* shows an initiative that is past a phase its plan does not leave out,    *)
(* unless the phase was passed or overridden; only a regression that is     *)
(* asked for a later phase gets it there. A handler that lost the race may  *)
(* take the initiative back, never past a gate                              *)
(* (Service.CompletePhase, Regress, Store.Update).                          *)
NoPhaseMissed ==
    LET i == initiative
    IN  i.phase # "none" /\ ~jumped =>
           \A p \in Phases :
               Index(p) < Index(i.phase) /\ ~(p # First /\ LeftOut(i.targets, p)) =>
                   i.status[p] \in {"passed", "overridden"}
=============================================================================
