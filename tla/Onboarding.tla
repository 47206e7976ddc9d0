----------------------------- MODULE Onboarding -----------------------------
(***************************************************************************)
(* Onboarding requests for one repository, their pipelines of stages, and  *)
(* a viewer that streams the events of one request                         *)
(* (services/app-onboarding).  Everything but the repository is in memory. *)
(***************************************************************************)
EXTENDS Naturals, Sequences, FiniteSets

CONSTANTS
    Submissions,   \* calls of Submit
    Apps,          \* the applications they name: with the repository, their key
    Stages,        \* the names of the stages, in order
    MaxRestarts

VARIABLES
    app,           \* the application of each stored request
    status,        \* Request.Status
    assetOf,       \* Request.AssetID is set
    log,           \* Store.events: a sequence of <<stage, outcome>>
    at,            \* how far run got: [stage, pc]
    repo,          \* external: the submission whose create_repo made it
    viewer,        \* one call of handleSSE
    restarts

stored  == <<app, status, assetOf>>
onboard == <<stored, log, at, repo, viewer, restarts>>

None   == "none"
Stored == {q \in Submissions : app[q] # None}
NoView == [pc |-> "none"]
Ended  == [pc |-> "ended"]

All(x) == [q \in Submissions |-> x]
Begin  == [stage |-> 0, pc |-> "none", send |-> FALSE]

Init ==
    /\ app = All(None) /\ status = All(None) /\ assetOf = All(FALSE)
    /\ log = All(<<>>) /\ at = All(Begin)
    /\ viewer = NoView
    /\ repo = None /\ restarts = 0

-----------------------------------------------------------------------------
(* AppendEvent: the event is stored and the listeners are copied under the *)
(* lock; the event is sent to them later.                                   *)
Subscribed_Late(q) == viewer.pc = "loop" /\ viewer.of = q
Subscribed(q) == viewer.pc \in {"replay", "status", "loop"} /\ viewer.of = q

AppendEvent(q, stage, outcome, to) ==
    /\ log' = [log EXCEPT ![q] = Append(@, <<stage, outcome>>)]
    /\ at' = [at EXCEPT ![q] = [stage |-> stage, pc |-> to, send |-> Subscribed(q)]]

(* Submit: a key that is known returns the request there is, whatever      *)
(* became of it.                                                            *)
Known(a) == \E q \in Stored : app[q] = a

Submit(q, a) ==
    /\ app[q] = None /\ ~Known(a)
    /\ app' = [app EXCEPT ![q] = a]
    /\ status' = [status EXCEPT ![q] = "pending"]
    /\ AppendEvent(q, 0, "received", "starts")
    /\ UNCHANGED <<assetOf, repo, viewer, restarts>>

(* run, one step of a stage at a time.                                     *)
Runnable(q, pc) == q \in Stored /\ at[q].pc = pc /\ ~at[q].send

StageStarts(q) ==
    /\ Runnable(q, "starts")
    /\ status' = [status EXCEPT ![q] = "running"]
    /\ AppendEvent(q, at[q].stage + 1, "started", "runs")
    /\ UNCHANGED <<app, assetOf, repo, viewer, restarts>>

(* The effects of a stage: the repository, which GitHub makes only once,   *)
(* and the asset.                                                           *)
RepoMade(q)  == Stages[at[q].stage] = "github.create_repo"
AssetMade(q) == Stages[at[q].stage] = "asset.register"

StageCompletes(q) ==
    /\ Runnable(q, "runs")
    /\ RepoMade(q) => repo = None
    /\ repo' = IF RepoMade(q) THEN q ELSE repo
    /\ assetOf' = [assetOf EXCEPT ![q] = @ \/ AssetMade(q)]
    /\ AppendEvent(q, at[q].stage, "completed",
                   IF at[q].stage = Len(Stages) THEN "completed" ELSE "starts")
    /\ UNCHANGED <<app, status, viewer, restarts>>

(* A stage fails, perhaps with its effect in place; a policy that requires *)
(* an approval says so and is a failure, too.                               *)
Refused(q) == {status[q]} \cup (IF Stages[at[q].stage] = "policy.evaluate"
                                THEN {"pending_approval"} ELSE {})

StageFails(q) ==
    /\ Runnable(q, "runs")
    /\ repo' \in {repo} \cup (IF RepoMade(q) /\ repo = None THEN {q} ELSE {})
    /\ \E s \in Refused(q) : status' = [status EXCEPT ![q] = s]
    /\ AppendEvent(q, at[q].stage, "failed", "failed")
    /\ UNCHANGED <<app, assetOf, viewer, restarts>>

(* UpdateStatus, after the last event.                                     *)
Finish(q) ==
    /\ \E outcome \in {"completed", "failed"} :
          /\ Runnable(q, outcome)
          /\ status' = [status EXCEPT ![q] = outcome]
    /\ at' = [at EXCEPT ![q].pc = "over"]
    /\ UNCHANGED <<app, assetOf, log, repo, viewer, restarts>>

-----------------------------------------------------------------------------
(* handleSSE subscribes before it replays the log ...                      *)
View(q) ==
    /\ viewer.pc = "none" /\ q \in Stored
    /\ viewer' = [pc |-> "replay", of |-> q, ch |-> <<>>, seen |-> 0]
    /\ UNCHANGED <<stored, log, at, repo, restarts>>

Replay ==
    /\ viewer.pc = "replay"
    /\ viewer' = [viewer EXCEPT !.pc = "status", !.seen = Len(log[viewer.of])]
    /\ UNCHANGED <<stored, log, at, repo, restarts>>

(* ... and ends when the status it reads then is a final one.              *)
ReadStatus ==
    /\ viewer.pc = "status"
    /\ viewer' = IF status[viewer.of] \in {"completed", "failed"}
                 THEN [viewer EXCEPT !.pc = "terminal"]
                 ELSE [viewer EXCEPT !.pc = "loop"]
    /\ UNCHANGED <<stored, log, at, repo, restarts>>

(* A copied listener is sent its event by its number in the log; one that  *)
(* has left meanwhile has closed the channel, and the send panics.          *)
Send(q) ==
    /\ q \in Stored /\ at[q].send /\ Subscribed(q)
    /\ viewer' = [viewer EXCEPT !.ch = Append(@, Len(log[q]))]
    /\ at' = [at EXCEPT ![q].send = FALSE]
    /\ UNCHANGED <<stored, log, repo, restarts>>

Panics == \E q \in Stored : at[q].send /\ ~Subscribed(q)

(* The stream goes on; an event the replay had shown is shown again.       *)
Last(q, k) == log[q][k] = <<Len(Stages), "completed">> \/ log[q][k][2] = "failed"

Receive ==
    /\ viewer.pc = "loop" /\ viewer.ch # <<>>
    /\ LET k == Head(viewer.ch) IN
       viewer' = [viewer EXCEPT !.ch = Tail(@),
                                !.seen = IF k = @ + 1 THEN k ELSE @,
                                !.pc = IF Last(viewer.of, k) THEN "terminal" ELSE @]
    /\ UNCHANGED <<stored, log, at, repo, restarts>>

Leave ==
    /\ viewer.pc \in {"loop", "terminal"}
    /\ viewer' = Ended
    /\ UNCHANGED <<stored, log, at, repo, restarts>>

(* The process ends, by a panic or otherwise: only the repository stays.   *)
Restart ==
    /\ restarts < MaxRestarts \/ Panics
    /\ restarts' = IF Panics THEN restarts ELSE restarts + 1
    /\ app' = All(None) /\ status' = All(None) /\ assetOf' = All(FALSE)
    /\ log' = All(<<>>) /\ at' = All(Begin)
    /\ viewer' = NoView
    /\ UNCHANGED repo

Next ==
    \/ \E q \in Submissions :
          \/ StageStarts(q) \/ StageCompletes(q) \/ StageFails(q) \/ Finish(q)
          \/ View(q) \/ Send(q)
          \/ \E a \in Apps : Submit(q, a)
    \/ Replay \/ ReadStatus \/ Receive \/ Leave \/ Restart

-----------------------------------------------------------------------------
TypeOK ==
    /\ app \in [Submissions -> Apps \cup {None}]
    /\ status \in [Submissions -> {None, "pending", "running", "pending_approval",
                                   "completed", "failed"}]
    /\ repo \in Submissions \cup {None}
    /\ \A q \in Submissions : at[q].stage \in 0 .. Len(Stages)

(* An application has one request, and an asset is registered only for the *)
(* request that made the repository, by a stage all earlier ones of which   *)
(* were completed (Insert, run); once the replay is done every event of the *)
(* log was shown, waits in the channel or is about to be sent, although     *)
(* events are appended all the while (Subscribe, AppendEvent, handleSSE).   *)
Shown(k) == k <= viewer.seen \/ k \in {viewer.ch[i] : i \in 1 .. Len(viewer.ch)}

OnboardingSound ==
    /\ \A p, q \in Stored : app[p] = app[q] => p = q
    /\ \A q \in Stored : assetOf[q] =>
          /\ repo = q
          /\ \A k \in 1 .. Len(Stages) - 1 :
                \E n \in 1 .. Len(log[q]) : log[q][n] = <<k, "completed">>
    /\ viewer.pc \in {"status", "loop", "terminal"} =>
          \A k \in 1 .. Len(log[viewer.of]) :
              Shown(k) \/ (k = Len(log[viewer.of]) /\ at[viewer.of].send)
=============================================================================
