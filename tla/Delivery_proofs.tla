---------------------------- MODULE Delivery_proofs ----------------------------
(***************************************************************************)
(* The services of Delivery one by one, for any values of the constants,   *)
(* laid out as Oversight_proofs: an inductive invariant of each, the       *)
(* lemmas it needs and a lemma *Always that Services_proofs takes to the   *)
(* specification of MCServices.                                            *)
(***************************************************************************)
EXTENDS Delivery, FiniteSetTheorems, SequenceTheorems, WellFoundedInduction, TLAPS

(* app-onboarding.  A request that runs has completed every stage before   *)
(* the one it is at, and nothing in its log ends it; what a viewer has not *)
(* been shown is the end of the log, and waits in its channel in order.    *)
StagesInOrder ==
  /\ Stages \in Seq(STRING) /\ Len(Stages) > 0
  /\ \A k \in 1..Len(Stages) : Stages[k] = "asset.register" =>
       k = Len(Stages) /\ \E i \in 1..(k - 1) : Stages[i] = "github.create_repo"
  /\ Onboarding!None \notin Submissions \cup Apps

Event       == Nat \X {"received", "started", "completed", "failed"}
RunState    == [stage : Nat, send : BOOLEAN,
                pc : {"none", "starts", "runs", "completed", "failed", "over"}]
ViewerState == [pc : {"replay", "status", "loop", "terminal"}, of : Submissions,
                ch : Seq(Nat), seen : Nat]
Going       == {"none", "starts", "runs"}

Statuses    == {Onboarding!None, "pending", "running", "pending_approval",
                "completed", "failed"}

OnboardTypes ==
  /\ app \in [Submissions -> Apps \cup {Onboarding!None}]
  /\ status \in [Submissions -> Statuses]
  /\ assetOf \in [Submissions -> BOOLEAN]
  /\ log \in [Submissions -> Seq(Event)]
  /\ at \in [Submissions -> RunState]
  /\ repo \in Submissions \cup {Onboarding!None}
  /\ viewer \in ViewerState \cup {Onboarding!NoView, Onboarding!Ended}

EndsIt(e)   == e = <<Len(Stages), "completed">> \/ e[2] = "failed"
Did(l, k)   == \E n \in 1..Len(l) : l[n] = <<k, "completed">>
Behind(a, k) == k < a.stage \/ (a.pc = "starts" /\ k = a.stage)
Plain(l)    == \A n \in 1..Len(l) : ~EndsIt(l[n])

OneRequest == \A p, q \in Onboarding!Stored : app[p] = app[q] => p = q

Progress(q) ==
  /\ app[q] = Onboarding!None => at[q].pc = "none" /\ ~at[q].send
  /\ at[q].pc = "starts" => at[q].stage < Len(Stages)
  /\ at[q].pc = "runs" => at[q].stage \in 1..Len(Stages)
  /\ at[q].pc \in {"starts", "runs"} =>
       \A k \in 1..Len(Stages) : Behind(at[q], k) =>
          Did(log[q], k) /\ (Stages[k] = "github.create_repo" => repo = q)
  /\ at[q].pc \in Going => Plain(log[q])
  /\ at[q].send => log[q] # <<>>
  /\ status[q] \in {"completed", "failed"} => at[q].pc = "over"
  /\ assetOf[q] => repo = q /\ \A k \in 1..(Len(Stages) - 1) : Did(log[q], k)

Viewing == viewer.pc \in {"replay", "status", "loop", "terminal"}

Sent(q) == IF at[q].send THEN Len(log[q]) - 1 ELSE Len(log[q])

ViewerSound ==
  Viewing =>
    /\ viewer \in ViewerState
    /\ viewer.of \in Onboarding!Stored
    /\ Len(viewer.ch) <= Sent(viewer.of)
    /\ \A i \in 1..Len(viewer.ch) : viewer.ch[i] = Sent(viewer.of) - Len(viewer.ch) + i
    /\ viewer.pc # "replay" => viewer.seen >= Sent(viewer.of) - Len(viewer.ch)
    /\ viewer.pc = "terminal" => at[viewer.of].pc \notin Going

OnboardInv ==
  /\ OnboardTypes
  /\ OneRequest
  /\ \A q \in Submissions : Progress(q)
  /\ ViewerSound

(* The invariant says what OnboardingSound promises.                       *)
LEMMA OnboardSound ==
  ASSUME OnboardInv PROVE Onboarding!OnboardingSound
<1>1. ASSUME NEW q \in Onboarding!Stored, assetOf[q]
      PROVE  repo = q /\ \A k \in 1..(Len(Stages) - 1) : Did(log[q], k)
  BY <1>1 DEF OnboardInv, Progress, Onboarding!Stored
<1>2. ASSUME viewer.pc \in {"status", "loop", "terminal"},
             NEW k \in 1..Len(log[viewer.of])
      PROVE  Onboarding!Shown(k) \/ (k = Len(log[viewer.of]) /\ at[viewer.of].send)
  <2> DEFINE q == viewer.of
             n == Len(viewer.ch)
  <2>1. /\ n \in Nat /\ viewer.seen \in Nat /\ Len(log[q]) \in Nat
        /\ \A i \in 1..n : viewer.ch[i] = Sent(q) - n + i
        /\ viewer.seen >= Sent(q) - n
    BY <1>2 DEF OnboardInv, OnboardTypes, ViewerSound, Viewing, ViewerState, Onboarding!Stored
  <2>2. CASE k <= viewer.seen
    BY <2>2 DEF Onboarding!Shown
  <2>3. CASE k > viewer.seen /\ k <= Sent(q)
    <3> DEFINE i == k - Sent(q) + n
    <3>1. Sent(q) \in Int
      BY <2>1 DEF Sent
    <3> HIDE DEF n, q
    <3>2. i \in 1..n
      BY <2>1, <2>3, <3>1, k \in Nat
    <3>3. viewer.ch[i] = k
      BY <2>1, <3>1, <3>2, k \in Nat
    <3> QED BY <3>2, <3>3 DEF Onboarding!Shown, n
  <2>4. CASE k > Sent(q)
    BY <2>1, <2>4 DEF Sent
  <2> QED BY <2>1, <2>2, <2>3, <2>4 DEF Sent
<1> QED BY <1>1, <1>2 DEF OnboardInv, OneRequest, Did, Onboarding!OnboardingSound

(* An event at the end of a log leaves what was done, done.                *)
LEMMA LogGrows ==
  ASSUME NEW l \in Seq(Event), NEW e \in Event
  PROVE  /\ Append(l, e) \in Seq(Event) /\ Append(l, e) # <<>>
         /\ \A k : Did(l, k) => Did(Append(l, e), k)
         /\ \A k : e = <<k, "completed">> => Did(Append(l, e), k)
         /\ Plain(l) /\ ~EndsIt(e) => Plain(Append(l, e))
<1>1. /\ Append(l, e) \in Seq(Event) /\ Len(Append(l, e)) = Len(l) + 1 /\ Len(l) \in Nat
      /\ \A n \in 1..Len(l) : Append(l, e)[n] = l[n]
      /\ Append(l, e)[Len(l) + 1] = e
  OBVIOUS
<1>2. Append(l, e) # <<>>
  BY <1>1
<1>3. \A k : Did(l, k) => Did(Append(l, e), k)
  BY <1>1 DEF Did
<1>4. \A k : e = <<k, "completed">> => Did(Append(l, e), k)
  BY <1>1, Len(l) + 1 \in 1..Len(Append(l, e)) DEF Did
<1>5. ASSUME Plain(l), ~EndsIt(e), NEW n \in 1..Len(Append(l, e))
      PROVE  ~EndsIt(Append(l, e)[n])
  <2>1. CASE n = Len(l) + 1
    BY <1>1, <1>5, <2>1
  <2>2. CASE n # Len(l) + 1
    <3>1. n \in 1..Len(l)
      BY <1>1, <2>2
    <3> QED BY <1>1, <1>5, <3>1 DEF Plain
  <2> QED BY <2>1, <2>2
<1> QED BY <1>1, <1>2, <1>3, <1>4, <1>5 DEF Plain

(* The others stand as they stood.                                         *)
LEMMA OneMoves ==
  ASSUME OnboardInv, NEW q \in Submissions, OnboardTypes', OneRequest', ViewerSound',
         \A p \in Submissions \ {q} : /\ app'[p] = app[p] /\ status'[p] = status[p]
                                      /\ assetOf'[p] = assetOf[p] /\ log'[p] = log[p]
                                      /\ at'[p] = at[p],
         \A p \in Submissions : repo = p => repo' = p,
         Progress(q)'
  PROVE  OnboardInv'
<1>1. ASSUME NEW p \in Submissions, p # q PROVE Progress(p)'
  BY <1>1 DEF OnboardInv, Progress, Behind
<1> QED BY <1>1 DEF OnboardInv

(* AppendEvent leaves the event to be sent to a viewer that subscribed.    *)
LEMMA ViewerBehind ==
  ASSUME OnboardInv, NEW q \in Submissions, NEW s \in Nat, NEW o, <<s, o>> \in Event,
         NEW to \in {"starts", "runs", "completed", "failed"},
         Onboarding!AppendEvent(q, s, o, to), ~at[q].send, at[q].pc \in Going,
         viewer' = viewer, Onboarding!Stored \subseteq Onboarding!Stored'
  PROVE  /\ log' = [log EXCEPT ![q] = Append(log[q], <<s, o>>)]
         /\ log' \in [Submissions -> Seq(Event)]
         /\ at'[q].stage = s /\ at'[q].pc = to /\ at' \in [Submissions -> RunState]
         /\ \A p \in Submissions \ {q} : log'[p] = log[p] /\ at'[p] = at[p]
         /\ ViewerSound'
<1>1. log' = [log EXCEPT ![q] = Append(log[q], <<s, o>>)]
      /\ at' = [at EXCEPT ![q] = [stage |-> s, pc |-> to, send |-> Onboarding!Subscribed(q)]]
  BY DEF Onboarding!AppendEvent
<1>2. log[q] \in Seq(Event)
  BY DEF OnboardInv, OnboardTypes
<1>3. Append(log[q], <<s, o>>) \in Seq(Event) /\ Len(Append(log[q], <<s, o>>)) = Len(log[q]) + 1
  BY <1>2
<1>4. Onboarding!Subscribed(q) \in BOOLEAN
  BY DEF Onboarding!Subscribed
<1>5. at'[q] = [stage |-> s, pc |-> to, send |-> Onboarding!Subscribed(q)]
      /\ at' \in [Submissions -> RunState]
  BY <1>1, <1>4 DEF OnboardInv, OnboardTypes, RunState
<1>6. log' \in [Submissions -> Seq(Event)] /\ log'[q] = Append(log[q], <<s, o>>)
  BY <1>1, <1>3 DEF OnboardInv, OnboardTypes
<1>7. \A p \in Submissions \ {q} : log'[p] = log[p] /\ at'[p] = at[p]
  BY <1>1 DEF OnboardInv, OnboardTypes
<1>8. ASSUME Viewing PROVE ViewerSound'
  <2>1. viewer \in ViewerState /\ viewer.of \in Submissions
    BY <1>8 DEF OnboardInv, ViewerSound, Onboarding!Stored
  <2>2. CASE viewer.of = q
    <3>1. viewer.pc \in {"replay", "status", "loop"}
      BY <1>8, <2>2 DEF OnboardInv, ViewerSound, Viewing
    <3>2. Onboarding!Subscribed(q)
      BY <2>2, <3>1 DEF Onboarding!Subscribed
    <3>3. Sent(q)' = Sent(q)
      BY <1>2, <1>3, <1>5, <1>6, <3>2 DEF Sent
    <3> QED BY <1>8, <2>1, <2>2, <3>1, <3>3 DEF OnboardInv, ViewerSound, Viewing
  <2>3. CASE viewer.of # q
    <3>1. Sent(viewer.of)' = Sent(viewer.of) /\ at'[viewer.of] = at[viewer.of]
      BY <1>7, <2>1, <2>3 DEF Sent
    <3> QED BY <1>8, <3>1 DEF OnboardInv, ViewerSound, Viewing
  <2> QED BY <2>2, <2>3
<1>9. ~Viewing => ViewerSound'
  BY DEF ViewerSound, Viewing
<1> QED BY <1>1, <1>5, <1>6, <1>7, <1>8, <1>9

(* A submission is taken in, once per key.                                 *)
LEMMA SubmitStep ==
  ASSUME StagesInOrder, OnboardInv, NEW q \in Submissions, NEW a \in Apps,
         Onboarding!Submit(q, a)
  PROVE  OnboardInv'
<1>1. /\ app[q] = Onboarding!None /\ ~Onboarding!Known(a)
      /\ app' = [app EXCEPT ![q] = a]
      /\ status' = [status EXCEPT ![q] = "pending"]
      /\ Onboarding!AppendEvent(q, 0, "received", "starts")
      /\ UNCHANGED <<assetOf, repo, viewer>>
  BY DEF Onboarding!Submit
<1>2. at[q].pc = "none" /\ ~at[q].send /\ at[q].pc \in Going
  BY <1>1 DEF OnboardInv, Progress, Going
<1>3. <<0, "received">> \in Event
  BY DEF Event
<1>4. /\ app' \in [Submissions -> Apps \cup {Onboarding!None}] /\ app'[q] = a
      /\ \A p \in Submissions \ {q} : app'[p] = app[p]
      /\ status' \in [Submissions -> Statuses] /\ status'[q] = "pending"
      /\ \A p \in Submissions \ {q} : status'[p] = status[p]
  <2>1. /\ app \in [Submissions -> Apps \cup {Onboarding!None}]
        /\ status \in [Submissions -> Statuses]
    BY DEF OnboardInv, OnboardTypes
  <2>2. app' = [app EXCEPT ![q] = a] /\ status' = [status EXCEPT ![q] = "pending"]
    BY <1>1
  <2>3. /\ app' \in [Submissions -> Apps \cup {Onboarding!None}] /\ app'[q] = a
        /\ \A p \in Submissions \ {q} : app'[p] = app[p]
    BY <2>1, <2>2
  <2>4. status' \in [Submissions -> Statuses] /\ status'[q] = "pending"
    BY <2>1, <2>2 DEF Statuses
  <2>5. \A p \in Submissions \ {q} : status'[p] = status[p]
    BY <2>1, <2>2
  <2> QED BY <2>3, <2>4, <2>5
<1>5. Onboarding!Stored \subseteq Onboarding!Stored'
  BY <1>1, <1>4 DEF Onboarding!Stored
<1>6. /\ log' = [log EXCEPT ![q] = Append(log[q], <<0, "received">>)]
      /\ log' \in [Submissions -> Seq(Event)]
      /\ at'[q].stage = 0 /\ at'[q].pc = "starts" /\ at' \in [Submissions -> RunState]
      /\ \A p \in Submissions \ {q} : log'[p] = log[p] /\ at'[p] = at[p]
      /\ ViewerSound'
  BY <1>1, <1>2, <1>3, <1>5, ViewerBehind, 0 \in Nat, Zenon
<1>7. OneRequest'
  BY <1>1, <1>4 DEF OnboardInv, OneRequest, Onboarding!Stored, Onboarding!Known
<1>8. OnboardTypes'
  <2>1. assetOf' = assetOf /\ repo' = repo /\ viewer' = viewer
    BY <1>1
  <2>2. /\ assetOf \in [Submissions -> BOOLEAN]
        /\ repo \in Submissions \cup {Onboarding!None}
        /\ viewer \in ViewerState \cup {Onboarding!NoView, Onboarding!Ended}
    BY DEF OnboardInv, OnboardTypes
  <2> QED BY <1>4, <1>6, <2>1, <2>2 DEF OnboardTypes
<1>9. Progress(q)'
  <2>1. log[q] \in Seq(Event) /\ log'[q] = Append(log[q], <<0, "received">>)
    BY <1>6 DEF OnboardInv, OnboardTypes
  <2>2. ~EndsIt(<<0, "received">>)
    BY DEF EndsIt
  <2>3. Plain(log'[q]) /\ log'[q] # <<>> /\ \A k : Did(log[q], k) => Did(log'[q], k)
    BY <1>2, <1>3, <2>1, <2>2, LogGrows DEF OnboardInv, Progress, Going
  <2>4. app'[q] # Onboarding!None
    BY <1>4 DEF StagesInOrder
  <2> QED BY <1>1, <1>4, <1>6, <2>3, <2>4 DEF StagesInOrder, OnboardInv, Progress, Behind
<1> QED BY <1>1, <1>4, <1>6, <1>7, <1>8, <1>9, OneMoves

(* run appends an event of the stage it is at.                             *)
LEMMA RunStep ==
  ASSUME StagesInOrder, OnboardInv, NEW q \in Onboarding!Stored,
         NEW s \in 0..Len(Stages), NEW o, <<s, o>> \in Event,
         NEW to \in {"starts", "runs", "completed", "failed"},
         Onboarding!AppendEvent(q, s, o, to), ~at[q].send, at[q].pc \in {"starts", "runs"},
         UNCHANGED <<app, viewer>>,
         status' \in [Submissions -> Statuses], status'[q] \notin {"completed", "failed"},
         assetOf' \in [Submissions -> BOOLEAN],
         \A p \in Submissions \ {q} : status'[p] = status[p] /\ assetOf'[p] = assetOf[p],
         repo' \in {repo, q}, repo' # repo => repo = Onboarding!None,
         to = "starts" => s < Len(Stages), to = "runs" => s > 0,
         to \in {"starts", "runs"} => ~EndsIt(<<s, o>>),
         \A k \in 1..Len(Stages) : k < s \/ (to = "starts" /\ k = s) =>
            \/ Behind(at[q], k)
            \/ o = "completed" /\ k = s /\ (Stages[k] = "github.create_repo" => repo' = q),
         assetOf'[q] => assetOf[q] \/ (repo' = q /\ \A k \in 1..(Len(Stages) - 1) :
                                          Behind(at[q], k))
  PROVE  OnboardInv'
<1>0. q \in Submissions /\ app[q] # Onboarding!None /\ s \in Nat
  BY DEF Onboarding!Stored, StagesInOrder
<1>1. at[q].pc \in Going /\ Onboarding!Stored \subseteq Onboarding!Stored'
  BY DEF Going, Onboarding!Stored
<1>2. /\ log' = [log EXCEPT ![q] = Append(log[q], <<s, o>>)]
      /\ log' \in [Submissions -> Seq(Event)]
      /\ at'[q].stage = s /\ at'[q].pc = to /\ at' \in [Submissions -> RunState]
      /\ \A p \in Submissions \ {q} : log'[p] = log[p] /\ at'[p] = at[p]
      /\ ViewerSound'
  BY <1>0, <1>1, ViewerBehind
<1>3. OneRequest'
  BY Zenon DEF OnboardInv, OneRequest, Onboarding!Stored
<1>4. OnboardTypes'
  BY <1>0, <1>2 DEF OnboardInv, OnboardTypes
<1>5. \A p \in Submissions : repo = p => repo' = p
  BY DEF StagesInOrder
<1>6. Progress(q)'
  <2> DEFINE l == log[q]
             m == log'[q]
  <2>1. l \in Seq(Event) /\ m = Append(l, <<s, o>>)
    BY <1>0, <1>2 DEF OnboardInv, OnboardTypes
  <2>2. /\ m # <<>>
        /\ \A k : Did(l, k) => Did(m, k)
        /\ \A k : <<s, o>> = <<k, "completed">> => Did(m, k)
        /\ Plain(l) /\ ~EndsIt(<<s, o>>) => Plain(m)
    <3> DEFINE e == <<s, o>>
    <3>1. e \in Event
      OBVIOUS
    <3> HIDE DEF e, l, m
    <3>2. /\ Append(l, e) # <<>>
          /\ \A k : Did(l, k) => Did(Append(l, e), k)
          /\ \A k : e = <<k, "completed">> => Did(Append(l, e), k)
          /\ Plain(l) /\ ~EndsIt(e) => Plain(Append(l, e))
      BY <2>1, <3>1, LogGrows
    <3> QED BY <2>1, <3>2, Zenon DEF e
  <2>3. /\ Plain(l)
        /\ \A k \in 1..Len(Stages) : Behind(at[q], k) =>
             Did(l, k) /\ (Stages[k] = "github.create_repo" => repo = q)
        /\ assetOf[q] => repo = q /\ \A k \in 1..(Len(Stages) - 1) : Did(l, k)
    BY <1>0, <1>1 DEF OnboardInv, Progress
  <2> HIDE DEF l, m
  <2>4. to \in Going => Plain(m)
    BY <2>2, <2>3 DEF Going
  <2>5. \A k \in 1..Len(Stages) : k < s \/ (to = "starts" /\ k = s) =>
          Did(m, k) /\ (Stages[k] = "github.create_repo" => repo' = q)
    BY <1>0, <1>5, <2>2, <2>3
  <2>6. assetOf'[q] => repo' = q /\ \A k \in 1..(Len(Stages) - 1) : Did(m, k)
    <3>1. \A k \in 1..(Len(Stages) - 1) : k \in 1..Len(Stages)
      BY DEF StagesInOrder
    <3> QED BY <1>0, <1>5, <2>2, <2>3, <3>1
  <2>7. \A k : Behind(at'[q], k) <=> k < s \/ (to = "starts" /\ k = s)
    BY <1>2 DEF Behind
  <2>8. /\ app'[q] # Onboarding!None /\ at'[q].pc = to /\ at'[q].stage = s
        /\ to = "starts" => s < Len(Stages)
        /\ to = "runs" => s \in 1..Len(Stages)
        /\ status'[q] \notin {"completed", "failed"}
    BY <1>0, <1>2, Len(Stages) \in Nat DEF StagesInOrder
  <2> QED BY <2>2, <2>4, <2>5, <2>6, <2>7, <2>8 DEF m, Progress
<1> QED BY <1>0, <1>2, <1>3, <1>4, <1>5, <1>6, OneMoves

(* A stage starts, completes or fails.                                     *)
LEMMA StagesStep ==
  ASSUME StagesInOrder, OnboardInv, NEW q \in Submissions,
         \/ Onboarding!StageStarts(q) \/ Onboarding!StageCompletes(q)
         \/ Onboarding!StageFails(q)
  PROVE  OnboardInv'
<1> DEFINE n == at[q].stage
<1>1. /\ n \in Nat /\ Len(Stages) \in Nat /\ status[q] \in Statuses /\ assetOf[q] \in BOOLEAN
      /\ status \in [Submissions -> Statuses] /\ assetOf \in [Submissions -> BOOLEAN]
  BY DEF StagesInOrder, OnboardInv, OnboardTypes, RunState
<1>2. /\ at[q].pc = "starts" => n < Len(Stages)
      /\ at[q].pc = "runs" => n \in 1..Len(Stages)
      /\ at[q].pc \in {"starts", "runs"} => status[q] \notin {"completed", "failed"}
      /\ \A k \in 1..Len(Stages) : at[q].pc \in {"starts", "runs"} /\ Behind(at[q], k) =>
           (Stages[k] = "github.create_repo" => repo = q)
  BY DEF OnboardInv, Progress
<1>3. CASE Onboarding!StageStarts(q)
  <2>1. /\ q \in Onboarding!Stored /\ at[q].pc = "starts" /\ ~at[q].send
        /\ status' = [status EXCEPT ![q] = "running"]
        /\ Onboarding!AppendEvent(q, n + 1, "started", "runs")
        /\ UNCHANGED <<app, assetOf, repo, viewer>>
    BY <1>3 DEF Onboarding!StageStarts, Onboarding!Runnable
  <2>2. /\ status' \in [Submissions -> Statuses] /\ status'[q] = "running"
        /\ \A p \in Submissions \ {q} : status'[p] = status[p]
    BY <1>1, <2>1 DEF Statuses
  <2>3. n + 1 \in 0..Len(Stages) /\ n + 1 > 0 /\ <<n + 1, "started">> \in Event
    BY <1>1, <1>2, <2>1 DEF Event
  <2>4. ~EndsIt(<<n + 1, "started">>)
    BY DEF EndsIt
  <2>5. \A k \in 1..Len(Stages) : k < n + 1 => Behind(at[q], k)
    BY <1>1, <2>1 DEF Behind
  <2> HIDE DEF n
  <2> QED BY <1>1, <2>1, <2>2, <2>3, <2>4, <2>5, RunStep
<1>4. CASE Onboarding!StageCompletes(q)
  <2> DEFINE to == IF n = Len(Stages) THEN "completed" ELSE "starts"
  <2>1. /\ q \in Onboarding!Stored /\ at[q].pc = "runs" /\ ~at[q].send
        /\ Stages[n] = "github.create_repo" => repo = Onboarding!None
        /\ repo' = IF Stages[n] = "github.create_repo" THEN q ELSE repo
        /\ assetOf' = [assetOf EXCEPT ![q] = @ \/ Stages[n] = "asset.register"]
        /\ Onboarding!AppendEvent(q, n, "completed", to)
        /\ UNCHANGED <<app, status, viewer>>
    BY <1>4 DEF Onboarding!StageCompletes, Onboarding!Runnable, Onboarding!RepoMade,
                Onboarding!AssetMade
  <2>2. /\ assetOf' \in [Submissions -> BOOLEAN]
        /\ assetOf'[q] => assetOf[q] \/ Stages[n] = "asset.register"
        /\ \A p \in Submissions \ {q} : assetOf'[p] = assetOf[p]
    BY <1>1, <2>1
  <2>3. n \in 0..Len(Stages) /\ <<n, "completed">> \in Event
    BY <1>1, <1>2, <2>1 DEF Event
  <2>4. to \in {"completed", "starts"} /\ (to = "starts" => n < Len(Stages))
        /\ (to = "starts" => ~EndsIt(<<n, "completed">>))
    BY <1>1, <1>2, <2>1 DEF EndsIt
  <2>5. \A k \in 1..Len(Stages) : k < n => Behind(at[q], k)
    BY DEF Behind
  <2>6. Stages[n] = "asset.register" =>
          repo' = q /\ \A k \in 1..(Len(Stages) - 1) : Behind(at[q], k)
    <3> SUFFICES ASSUME Stages[n] = "asset.register"
                 PROVE  repo' = q /\ \A k \in 1..(Len(Stages) - 1) : Behind(at[q], k)
      OBVIOUS
    <3>1. n = Len(Stages)
      BY <1>2, <2>1 DEF StagesInOrder
    <3>2. PICK i \in 1..(n - 1) : Stages[i] = "github.create_repo"
      BY <1>2, <2>1 DEF StagesInOrder
    <3>3. i \in 1..Len(Stages) /\ i < n
      BY <1>1, <1>2, <2>1, <3>2
    <3>4. repo = q
      BY <1>2, <2>1, <2>5, <3>2, <3>3
    <3>5. repo' = repo
      BY <2>1
    <3>6. \A k \in 1..(Len(Stages) - 1) : k \in 1..Len(Stages) /\ k < n
      BY <1>1, <3>1
    <3> QED BY <2>5, <3>4, <3>5, <3>6
  <2> HIDE DEF n, to
  <2>7. \A k \in 1..Len(Stages) : k < n \/ (to = "starts" /\ k = n) =>
          \/ Behind(at[q], k)
          \/ k = n /\ (Stages[k] = "github.create_repo" => repo' = q)
    BY <2>1, <2>5
  <2>8. repo' \in {repo, q} /\ (repo' # repo => repo = Onboarding!None)
    BY <2>1
  <2> QED BY <1>1, <1>2, <2>1, <2>2, <2>3, <2>4, <2>6, <2>7, <2>8, RunStep
<1>5. CASE Onboarding!StageFails(q)
  <2>1. /\ q \in Onboarding!Stored /\ at[q].pc = "runs" /\ ~at[q].send
        /\ repo' \in {repo, q} /\ (repo' # repo => repo = Onboarding!None)
        /\ \E s \in {status[q], "pending_approval"} : status' = [status EXCEPT ![q] = s]
        /\ Onboarding!AppendEvent(q, n, "failed", "failed")
        /\ UNCHANGED <<app, assetOf, viewer>>
    BY <1>5 DEF Onboarding!StageFails, Onboarding!Runnable, Onboarding!Refused
  <2>2. /\ status' \in [Submissions -> Statuses]
        /\ status'[q] \notin {"completed", "failed"}
        /\ \A p \in Submissions \ {q} : status'[p] = status[p]
    <3>1. PICK s \in {status[q], "pending_approval"} : status' = [status EXCEPT ![q] = s]
      BY <2>1
    <3>2. s \in Statuses /\ s \notin {"completed", "failed"}
      BY <1>1, <1>2, <2>1 DEF Statuses
    <3> QED BY <1>1, <3>1, <3>2
  <2>3. n \in 0..Len(Stages) /\ <<n, "failed">> \in Event
    BY <1>1, <1>2, <2>1 DEF Event
  <2>4. \A k \in 1..Len(Stages) : k < n => Behind(at[q], k)
    BY DEF Behind
  <2> HIDE DEF n
  <2> QED BY <1>1, <2>1, <2>2, <2>3, <2>4, RunStep
<1> QED BY <1>3, <1>4, <1>5

(* The status is written when the stages are over.                         *)
LEMMA FinishStep ==
  ASSUME OnboardInv, NEW q \in Submissions, Onboarding!Finish(q) PROVE OnboardInv'
<1>1. PICK o \in {"completed", "failed"} :
        q \in Onboarding!Stored /\ at[q].pc = o /\ ~at[q].send
        /\ status' = [status EXCEPT ![q] = o]
  BY DEF Onboarding!Finish, Onboarding!Runnable
<1>2. at' = [at EXCEPT ![q].pc = "over"] /\ UNCHANGED <<app, assetOf, log, repo, viewer>>
  BY DEF Onboarding!Finish
<1>3. /\ at' \in [Submissions -> RunState] /\ status' \in [Submissions -> Statuses]
      /\ at'[q].pc = "over" /\ at'[q].send = at[q].send
      /\ \A p \in Submissions \ {q} : at'[p] = at[p] /\ status'[p] = status[p]
  <2>1. at \in [Submissions -> RunState] /\ status \in [Submissions -> Statuses]
    BY DEF OnboardInv, OnboardTypes
  <2>2. /\ at' \in [Submissions -> RunState] /\ at'[q].pc = "over" /\ at'[q].send = at[q].send
        /\ \A p \in Submissions \ {q} : at'[p] = at[p]
    BY <1>2, <2>1 DEF RunState
  <2>3. status' \in [Submissions -> Statuses]
        /\ \A p \in Submissions \ {q} : status'[p] = status[p]
    BY <1>1, <2>1 DEF Statuses
  <2> QED BY <2>2, <2>3
<1>4. OnboardTypes' /\ OneRequest'
  <2>1. OneRequest'
    BY <1>2, Zenon DEF OnboardInv, OneRequest, Onboarding!Stored
  <2> QED BY <1>2, <1>3, <2>1 DEF OnboardInv, OnboardTypes
<1>5. Progress(q)'
  <2>1. /\ app'[q] # Onboarding!None /\ ~at'[q].send /\ at'[q].pc = "over"
        /\ repo' = repo /\ log' = log /\ assetOf' = assetOf
    BY <1>1, <1>2, <1>3 DEF Onboarding!Stored
  <2> QED BY <2>1 DEF OnboardInv, Progress, Going
<1>6. ViewerSound'
  <2>1. \A p \in Submissions : Sent(p)' = Sent(p) /\ (at[p].pc \notin Going => at'[p].pc \notin Going)
    BY <1>2, <1>3 DEF Sent, Going
  <2>2. Onboarding!Stored' = Onboarding!Stored
    BY <1>2, Zenon DEF Onboarding!Stored
  <2>3. Viewing => viewer.of \in Submissions
    BY DEF OnboardInv, ViewerSound, ViewerState
  <2> QED BY <1>2, <2>1, <2>2, <2>3 DEF OnboardInv, ViewerSound, Viewing
<1> QED BY <1>2, <1>3, <1>4, <1>5, <1>6, OneMoves

(* The requests stand and the viewer moves on.                             *)
LEMMA ViewerMoves ==
  ASSUME OnboardInv, UNCHANGED <<app, status, assetOf, log, at, repo>>,
         viewer' \in ViewerState \cup {Onboarding!NoView, Onboarding!Ended},
         ViewerSound'
  PROVE  OnboardInv'
<1>1. OnboardTypes' /\ OneRequest'
  <2>1. OnboardTypes'
    BY DEF OnboardInv, OnboardTypes, Onboarding!NoView, Onboarding!Ended
  <2>2. OneRequest'
    BY Zenon DEF OnboardInv, OneRequest, Onboarding!Stored
  <2> QED BY <2>1, <2>2
<1>2. \A q \in Submissions : Progress(q)'
  BY DEF OnboardInv, Progress
<1> QED BY <1>1, <1>2 DEF OnboardInv

(* A viewer asks for the stream of a request.                              *)
LEMMA ViewStep ==
  ASSUME OnboardInv, NEW q \in Submissions, Onboarding!View(q) PROVE OnboardInv'
<1>1. /\ UNCHANGED <<app, status, assetOf, log, at, repo>>
      /\ viewer' = [pc |-> "replay", of |-> q, ch |-> <<>>, seen |-> 0]
      /\ q \in Onboarding!Stored
  BY DEF Onboarding!View, Onboarding!stored
<1>2. viewer' \in ViewerState
  BY <1>1 DEF ViewerState
<1>3. Sent(q) >= 0
  <2>1. log[q] \in Seq(Event) /\ (at[q].send => log[q] # <<>>)
    BY DEF OnboardInv, OnboardTypes, Progress
  <2> QED BY <2>1 DEF Sent
<1>4. Sent(q)' = Sent(q) /\ Onboarding!Stored' = Onboarding!Stored
  BY <1>1, Zenon DEF Sent, Onboarding!Stored
<1>5. ViewerSound'
  <2>1. viewer'.pc = "replay" /\ viewer'.of = q /\ viewer'.ch = <<>> /\ Len(<<>>) = 0
    BY <1>1
  <2>2. Len(viewer'.ch) = 0 /\ \A i \in 1..0 : FALSE
    BY <2>1
  <2> QED BY <1>1, <1>2, <1>3, <1>4, <2>1, <2>2 DEF ViewerSound
<1> QED BY <1>1, <1>2, <1>5, ViewerMoves

(* What handleSSE does once it has subscribed.                             *)
LEMMA StreamStep ==
  ASSUME OnboardInv, Viewing, viewer' \in ViewerState, viewer'.of = viewer.of,
         UNCHANGED <<app, status, assetOf, log, at, repo>>,
         Len(viewer'.ch) <= Len(viewer.ch),
         \A i \in 1..Len(viewer'.ch) : viewer'.ch[i] = Sent(viewer.of) - Len(viewer'.ch) + i,
         viewer'.pc # "replay" => viewer'.seen >= Sent(viewer.of) - Len(viewer'.ch),
         viewer'.pc = "terminal" => at[viewer.of].pc \notin Going
  PROVE  OnboardInv'
<1>1. viewer \in ViewerState /\ viewer.of \in Onboarding!Stored
      /\ Len(viewer.ch) <= Sent(viewer.of)
  BY DEF OnboardInv, ViewerSound
<1>2. \A q : Sent(q)' = Sent(q)
  BY DEF Sent
<1>3. Onboarding!Stored' = Onboarding!Stored
  BY Zenon DEF Onboarding!Stored
<1>4. Sent(viewer.of) \in Int /\ Len(viewer.ch) \in Nat /\ Len(viewer'.ch) \in Nat
  <2>1. log[viewer.of] \in Seq(Event)
    BY <1>1 DEF OnboardInv, OnboardTypes, Onboarding!Stored
  <2> QED BY <1>1, <2>1 DEF Sent, ViewerState
<1>5. Len(viewer'.ch) <= Sent(viewer.of)
  BY <1>1, <1>4
<1>6. ViewerSound'
  BY <1>1, <1>2, <1>3, <1>5 DEF ViewerSound
<1> QED BY <1>6, ViewerMoves

(* It is shown the events so far, and reads the status.                    *)
LEMMA ReplayStep ==
  ASSUME OnboardInv, Onboarding!Replay \/ Onboarding!ReadStatus PROVE OnboardInv'
<1>1. UNCHANGED <<app, status, assetOf, log, at, repo>> /\ Viewing
  BY DEF Onboarding!Replay, Onboarding!ReadStatus, Onboarding!stored, Viewing
<1>2. /\ viewer \in ViewerState /\ viewer.of \in Submissions
      /\ \A i \in 1..Len(viewer.ch) : viewer.ch[i] = Sent(viewer.of) - Len(viewer.ch) + i
      /\ viewer.pc # "replay" => viewer.seen >= Sent(viewer.of) - Len(viewer.ch)
      /\ viewer.ch \in Seq(Nat) /\ Len(viewer.ch) \in Nat /\ viewer.seen \in Nat
  BY <1>1 DEF OnboardInv, ViewerSound, ViewerState
<1>3. Len(log[viewer.of]) \in Nat
  <2>1. log[viewer.of] \in Seq(Event)
    BY <1>2 DEF OnboardInv, OnboardTypes
  <2> QED BY <2>1
<1>4. CASE Onboarding!Replay
  <2> DEFINE n == Len(log[viewer.of])
  <2>1. viewer' = [viewer EXCEPT !.pc = "status", !.seen = n]
    BY <1>4 DEF Onboarding!Replay
  <2>2. n >= Sent(viewer.of) - Len(viewer.ch)
    <3>1. n >= Sent(viewer.of) /\ Sent(viewer.of) \in Int
      BY <1>3 DEF Sent
    <3> QED BY <1>2, <1>3, <3>1
  <2> HIDE DEF n
  <2>3. /\ viewer' \in ViewerState /\ viewer'.of = viewer.of /\ viewer'.pc = "status"
        /\ viewer'.ch = viewer.ch /\ viewer'.seen = n
    BY <1>2, <1>3, <2>1 DEF ViewerState, n
  <2>4. Len(viewer.ch) <= Len(viewer.ch)
    BY <1>2
  <2> QED BY <1>1, <1>2, <2>2, <2>3, <2>4, StreamStep
<1>5. CASE Onboarding!ReadStatus
  <2>1. PICK p \in {"terminal", "loop"} :
          /\ viewer' = [viewer EXCEPT !.pc = p]
          /\ p = "terminal" => status[viewer.of] \in {"completed", "failed"}
    BY <1>5 DEF Onboarding!ReadStatus
  <2>2. /\ viewer' \in ViewerState /\ viewer'.of = viewer.of /\ viewer'.pc = p
        /\ viewer'.ch = viewer.ch /\ viewer'.seen = viewer.seen
    BY <1>2, <2>1 DEF ViewerState
  <2>3. viewer.pc # "replay"
    BY <1>5 DEF Onboarding!ReadStatus
  <2>4. p = "terminal" => at[viewer.of].pc \notin Going
    BY <1>2, <2>1 DEF OnboardInv, Progress, Going
  <2>5. Len(viewer.ch) <= Len(viewer.ch)
    BY <1>2
  <2> QED BY <1>1, <1>2, <2>2, <2>3, <2>4, <2>5, StreamStep
<1> QED BY <1>4, <1>5

(* It gets the oldest event of its channel.                                *)
LEMMA ReceiveStep ==
  ASSUME OnboardInv, Onboarding!Receive PROVE OnboardInv'
<1> DEFINE q == viewer.of
           c == viewer.ch
           k == Head(c)
           s == IF k = viewer.seen + 1 THEN k ELSE viewer.seen
           p == IF Onboarding!Last(q, k) THEN "terminal" ELSE viewer.pc
<1>1. /\ UNCHANGED <<app, status, assetOf, log, at, repo>> /\ Viewing
      /\ viewer.pc = "loop" /\ c # <<>>
      /\ viewer' = [viewer EXCEPT !.ch = Tail(c), !.seen = s, !.pc = p]
  BY DEF Onboarding!Receive, Onboarding!stored, Viewing
<1>2. /\ viewer \in ViewerState /\ q \in Submissions
      /\ Len(c) <= Sent(q)
      /\ \A i \in 1..Len(c) : c[i] = Sent(q) - Len(c) + i
      /\ viewer.seen >= Sent(q) - Len(c)
      /\ c \in Seq(Nat) /\ viewer.seen \in Nat
  BY <1>1 DEF OnboardInv, ViewerSound, ViewerState
<1>3. log[q] \in Seq(Event)
  BY <1>2 DEF OnboardInv, OnboardTypes
<1>4. Sent(q) \in Int /\ Sent(q) <= Len(log[q])
  BY <1>3 DEF Sent
<1>5. at[q].pc \in Going => Plain(log[q])
  BY <1>2 DEF OnboardInv, Progress
<1> HIDE DEF q, c
<1>6. /\ k = Sent(q) - Len(c) + 1 /\ k \in Nat /\ k \in 1..Len(log[q])
      /\ Tail(c) \in Seq(Nat) /\ Len(Tail(c)) = Len(c) - 1 /\ Len(c) \in Nat
      /\ \A i \in 1..(Len(c) - 1) : Tail(c)[i] = c[i + 1]
  BY <1>1, <1>2, <1>3, <1>4
<1>7. \A i \in 1..Len(Tail(c)) : Tail(c)[i] = Sent(q) - Len(Tail(c)) + i
  BY <1>2, <1>4, <1>6
<1>8. Onboarding!Last(q, k) => at[q].pc \notin Going
  BY <1>5, <1>6 DEF Plain, EndsIt, Onboarding!Last
<1>9. p \in {"loop", "terminal"} /\ (p = "terminal" => at[q].pc \notin Going)
  BY <1>1, <1>8
<1>10. s \in Nat /\ s >= Sent(q) - Len(Tail(c))
  BY <1>2, <1>4, <1>6
<1> HIDE DEF s, p, k
<1>11. /\ viewer' \in ViewerState /\ viewer'.ch = Tail(c) /\ viewer'.seen = s
       /\ viewer'.pc = p /\ viewer'.of = q
  <2>1. p \in {"replay", "status", "loop", "terminal"}
    BY <1>9
  <2>2. viewer'.of = viewer.of /\ viewer' \in ViewerState /\ viewer'.ch = Tail(c)
        /\ viewer'.seen = s /\ viewer'.pc = p
    BY <1>1, <1>2, <1>6, <1>10, <2>1 DEF ViewerState
  <2> QED BY <2>2 DEF q
<1>12. Len(Tail(c)) <= Len(c)
  BY <1>6
<1> QED BY <1>1, <1>7, <1>9, <1>10, <1>11, <1>12, StreamStep DEF q, c

(* An event is sent to the viewer that subscribed.                         *)
LEMMA SendStep ==
  ASSUME OnboardInv, NEW q \in Submissions, Onboarding!Send(q) PROVE OnboardInv'
<1> DEFINE w == viewer.ch
           n == Len(log[q])
           c == Append(w, n)
<1>1. /\ at[q].send /\ viewer.pc \in {"replay", "status", "loop"} /\ viewer.of = q
      /\ viewer' = [viewer EXCEPT !.ch = c] /\ at' = [at EXCEPT ![q].send = FALSE]
      /\ UNCHANGED <<app, status, assetOf, log, repo>>
  BY DEF Onboarding!Send, Onboarding!Subscribed, Onboarding!stored
<1>2. /\ viewer \in ViewerState /\ q \in Onboarding!Stored
      /\ Len(viewer.ch) <= Sent(q)
      /\ \A i \in 1..Len(viewer.ch) : viewer.ch[i] = Sent(q) - Len(viewer.ch) + i
      /\ viewer.pc # "replay" => viewer.seen >= Sent(q) - Len(viewer.ch)
      /\ viewer.ch \in Seq(Nat) /\ viewer.seen \in Nat
  BY <1>1 DEF OnboardInv, ViewerSound, ViewerState, Viewing
<1>3. log[q] \in Seq(Event) /\ Len(log[q]) \in Nat /\ at \in [Submissions -> RunState]
  BY DEF OnboardInv, OnboardTypes
<1>4. /\ at' \in [Submissions -> RunState] /\ ~at'[q].send /\ at'[q].pc = at[q].pc
      /\ at'[q].stage = at[q].stage
      /\ \A p \in Submissions \ {q} : at'[p] = at[p]
  BY <1>1, <1>3 DEF RunState
<1>5. Sent(q) = n - 1 /\ Sent(q)' = n /\ n \in Nat
  BY <1>1, <1>3, <1>4 DEF Sent
<1>6. /\ c \in Seq(Nat) /\ Len(c) = Len(w) + 1 /\ Len(w) \in Nat
      /\ \A i \in 1..Len(w) : c[i] = w[i]
      /\ c[Len(w) + 1] = n
  BY <1>2, <1>3
<1> HIDE DEF c
<1>7. /\ viewer' \in ViewerState /\ viewer'.ch = c /\ viewer'.of = q
      /\ viewer'.pc = viewer.pc /\ viewer'.seen = viewer.seen
  BY <1>1, <1>2, <1>6 DEF ViewerState
<1>8. /\ \A i \in 1..Len(c) : c[i] = n - Len(c) + i
      /\ Len(c) <= n
      /\ viewer.pc # "replay" => viewer.seen >= n - Len(c)
  <2>1. /\ Len(w) <= n - 1
        /\ \A i \in 1..Len(w) : w[i] = n - 1 - Len(w) + i
        /\ viewer.pc # "replay" => viewer.seen >= n - 1 - Len(w)
        /\ viewer.seen \in Nat
    BY <1>2, <1>5
  <2> HIDE DEF w, n
  <2>2. ASSUME NEW i \in 1..Len(c) PROVE c[i] = n - Len(c) + i
    <3>1. CASE i = Len(w) + 1
      BY <1>5, <1>6, <3>1
    <3>2. CASE i # Len(w) + 1
      <4>1. i \in 1..Len(w)
        BY <1>6, <3>2
      <4> QED BY <1>5, <1>6, <2>1, <4>1
    <3> QED BY <3>1, <3>2
  <2> QED BY <1>5, <1>6, <2>1, <2>2
<1> HIDE DEF w, n
<1>9. ViewerSound'
  <2>1. Onboarding!Stored' = Onboarding!Stored
    BY <1>1, Zenon DEF Onboarding!Stored
  <2>2. Sent(viewer.of)' = n
    BY <1>5, <1>7, Zenon DEF Sent
  <2>3. (viewer.pc \in {"replay", "status", "loop"})
    BY <1>1
  <2> QED BY <1>2, <1>7, <1>8, <2>1, <2>2, <2>3 DEF ViewerSound
<1>10. OnboardTypes'
  BY <1>1, <1>4, <1>7 DEF OnboardInv, OnboardTypes
<1>11. OneRequest'
  BY <1>1, Zenon DEF OnboardInv, OneRequest, Onboarding!Stored
<1>12. Progress(q)'
  BY <1>1, <1>4 DEF OnboardInv, Progress, Behind
<1> QED BY <1>1, <1>4, <1>9, <1>10, <1>11, <1>12, OneMoves

(* The viewer goes.                                                        *)
LEMMA LeaveStep ==
  ASSUME OnboardInv, Onboarding!Leave PROVE OnboardInv'
<1>1. viewer' = Onboarding!Ended /\ UNCHANGED <<app, status, assetOf, log, at, repo>>
  BY DEF Onboarding!Leave, Onboarding!stored
<1>2. ViewerSound'
  BY <1>1 DEF ViewerSound, Viewing, Onboarding!Ended
<1> QED BY <1>1, <1>2, ViewerMoves

(* Nothing but the repository is there when the process starts.            *)
LEMMA AtTheStart ==
  ASSUME StagesInOrder,
         app = Onboarding!All(Onboarding!None), status = Onboarding!All(Onboarding!None),
         assetOf = Onboarding!All(FALSE), log = Onboarding!All(<<>>),
         at = Onboarding!All(Onboarding!Begin), viewer = Onboarding!NoView,
         repo \in Submissions \cup {Onboarding!None}
  PROVE  OnboardInv
<1>1. <<>> \in Seq(Event) /\ Len(<<>>) = 0
  OBVIOUS
<1>2. OnboardTypes
  BY <1>1 DEF OnboardTypes, Onboarding!All, Onboarding!Begin, RunState, Statuses
<1>3. OneRequest
  BY DEF OneRequest, Onboarding!Stored, Onboarding!All
<1>4. ASSUME NEW q \in Submissions PROVE Progress(q)
  <2>1. /\ app[q] = Onboarding!None /\ status[q] = "none" /\ assetOf[q] = FALSE
        /\ log[q] = <<>> /\ at[q].pc = "none" /\ ~at[q].send
    BY DEF Onboarding!All, Onboarding!None, Onboarding!Begin
  <2>2. Plain(log[q])
    BY <1>1, <2>1 DEF Plain
  <2> QED BY <2>1, <2>2 DEF Progress
<1>5. ViewerSound
  BY DEF ViewerSound, Viewing, Onboarding!NoView
<1> QED BY <1>2, <1>3, <1>4, <1>5 DEF OnboardInv

(* The process is restarted, and its requests are gone.                    *)
LEMMA RestartStep ==
  ASSUME StagesInOrder, OnboardInv, Onboarding!Restart PROVE OnboardInv'
<1>1. repo' \in Submissions \cup {Onboarding!None}
  BY DEF Onboarding!Restart, OnboardInv, OnboardTypes
<1>2. /\ app' = Onboarding!All(Onboarding!None) /\ status' = Onboarding!All(Onboarding!None)
      /\ assetOf' = Onboarding!All(FALSE) /\ log' = Onboarding!All(<<>>)
      /\ at' = Onboarding!All(Onboarding!Begin) /\ viewer' = Onboarding!NoView
  BY DEF Onboarding!Restart
<1>3. <<>> \in Seq(Event) /\ Len(<<>>) = 0
  OBVIOUS
<1>4. OnboardTypes'
  BY <1>1, <1>2, <1>3 DEF OnboardTypes, Onboarding!All, Onboarding!Begin, RunState, Statuses
<1>5. OneRequest'
  BY <1>2 DEF OneRequest, Onboarding!Stored, Onboarding!All
<1>6. ASSUME NEW q \in Submissions PROVE Progress(q)'
  <2>1. /\ app'[q] = Onboarding!None /\ status'[q] = "none" /\ assetOf'[q] = FALSE
        /\ log'[q] = <<>> /\ at'[q].pc = "none" /\ ~at'[q].send
    BY <1>2 DEF Onboarding!All, Onboarding!None, Onboarding!Begin
  <2> QED BY <1>3, <2>1 DEF Progress, Plain
<1>7. ViewerSound'
  BY <1>2 DEF ViewerSound, Viewing, Onboarding!NoView
<1> QED BY <1>4, <1>5, <1>6, <1>7 DEF OnboardInv

(* What Services_proofs takes of app-onboarding: the invariant holds at    *)
(* first, every step keeps it, and it implies what is promised.            *)
LEMMA OnboardAlways ==
  ASSUME StagesInOrder
  PROVE  /\ Onboarding!Init => OnboardInv
         /\ OnboardInv /\ [Onboarding!Next]_(Onboarding!onboard) => OnboardInv'
         /\ OnboardInv => Onboarding!OnboardingSound
<1>1. ASSUME Onboarding!Init PROVE OnboardInv
  BY <1>1, AtTheStart DEF Onboarding!Init
<1>2. ASSUME OnboardInv, UNCHANGED Onboarding!onboard PROVE OnboardInv'
  <2>1. UNCHANGED <<app, status, assetOf, log, at, repo, viewer>>
    BY <1>2 DEF Onboarding!onboard, Onboarding!stored
  <2>2. viewer' \in ViewerState \cup {Onboarding!NoView, Onboarding!Ended} /\ ViewerSound'
    BY <1>2, <2>1 DEF OnboardInv, OnboardTypes, ViewerSound, Viewing, Sent, Onboarding!Stored,
                      Onboarding!NoView, Onboarding!Ended
  <2> QED BY <1>2, <2>1, <2>2, ViewerMoves
<1>3. ASSUME OnboardInv, Onboarding!Next PROVE OnboardInv'
  BY <1>3, SubmitStep, StagesStep, FinishStep, ViewStep, SendStep, ReplayStep, ReceiveStep,
     LeaveStep, RestartStep DEF Onboarding!Next
<1> QED BY <1>1, <1>2, <1>3, OnboardSound

-----------------------------------------------------------------------------
(* artifact-store-adapter.  A Put that saw no bytes and one that meets     *)
(* some at its upload overlapped another's: it is among the blind.         *)
JobState == [at : {"idle", "look", "release", "upload", "sidecar"} \cup Artifacts!Over,
             bytes : Digests, declared : Digests, release : Nat]

Acknowledges == {"sidecar", "ok"}

StoreTypes ==
  /\ job \in [Jobs -> JobState]
  /\ releases \in Nat /\ release \in Nat /\ deletes \in Nat
  /\ inFlight = {j \in Jobs : job[j].at \in {"release", "upload", "sidecar"}}
  /\ wiped \subseteq Jobs /\ blind \subseteq Jobs /\ overwrote \subseteq Jobs
  /\ deletes = 0 => wiped = {}

Blindly ==
  /\ overwrote \subseteq blind
  /\ Artifacts!Enforces => overwrote = {}
  /\ Artifacts!Paths /\ stored # Artifacts!None =>
       \A j \in Jobs : job[j].at = "upload" => j \in blind
  /\ Artifacts!Paths => \A j \in Jobs : job[j].at # "release"

Answered ==
  overwrote = {} =>
    /\ kept # Artifacts!None => stored = kept
    /\ \A j \in Jobs \ wiped : job[j].at = "sidecar" => stored = job[j].declared

Once ==
  Artifacts!Enforces /\ deletes = 0 =>
    /\ \A j \in Jobs : job[j].at \in Acknowledges => stored # Artifacts!None
    /\ \A i, j \in Jobs : job[i].at \in Acknowledges /\ job[j].at \in Acknowledges => i = j

Private == Artifacts!IsPublicStorage =>
  stored = Artifacts!None /\ \A j \in Jobs : job[j].at \in {"idle", "refused"}

StoreInv ==
  /\ StoreTypes /\ Blindly /\ Answered /\ Once /\ Private
  /\ Artifacts!SidecarTells

(* A set of one element at most.                                           *)
LEMMA OneAtMost ==
  ASSUME NEW S, \A i, j \in S : i = j PROVE Artifacts!Cardinality(S) <= 1
<1>1. \A T : Artifacts!Cardinality(T) = Cardinality(T)
  BY Zenon DEF Artifacts!Cardinality, Cardinality, Artifacts!IsFiniteSet, IsFiniteSet
<1>2. CASE S = {}
  BY <1>1, <1>2, FS_EmptySet
<1>3. CASE S # {}
  <2>1. PICK x : S = {x}
    BY <1>3
  <2>2. Cardinality({x}) = 1
    BY FS_Singleton
  <2> QED BY <1>1, <2>1, <2>2
<1> QED BY <1>2, <1>3

(* The invariant says what StoreSound promises.                            *)
LEMMA StoreHolds ==
  ASSUME StoreInv PROVE Artifacts!StoreSound
<1>1. ASSUME Artifacts!Enforces, deletes = 0
      PROVE  Artifacts!Cardinality({j \in Jobs : Artifacts!At(j, "ok")}) <= 1
  <2>1. \A i, j \in {j \in Jobs : Artifacts!At(j, "ok")} : i = j
    BY <1>1 DEF StoreInv, Once, Acknowledges, Artifacts!At
  <2> QED BY <2>1, OneAtMost
<1>2. overwrote = {} /\ kept # Artifacts!None => Artifacts!Get(kept) = "ok"
  BY DEF StoreInv, Answered, Artifacts!Get
<1> QED BY <1>1, <1>2 DEF StoreInv, Blindly, Private, Artifacts!StoreSound,
       Artifacts!VersionImmutable, Artifacts!NeverReportedPublic

Flying == {"release", "upload", "sidecar"}

Places == {"idle", "look", "refused", "immutable", "digest_mismatch", "backend_error", "ok"}
            \cup Flying

(* One Put goes on to its next request, or ends.                           *)
Goes(j, to) ==
  /\ \/ job' = [job EXCEPT ![j].at = to]
     \/ \E r \in Nat : job' = [job EXCEPT ![j].at = to, ![j].release = r]
  /\ inFlight' = IF to \in Flying THEN inFlight \cup {j} ELSE inFlight \ {j}

(* A job goes to another place with its bytes and its digest.              *)
LEMMA JobGoes ==
  ASSUME StoreTypes, NEW j \in Jobs, NEW to \in Places, Goes(j, to)
  PROVE  /\ job' \in [Jobs -> JobState] /\ job'[j].at = to
         /\ job'[j].bytes = job[j].bytes /\ job'[j].declared = job[j].declared
         /\ \A i \in Jobs \ {j} : job'[i] = job[i]
         /\ inFlight' = {i \in Jobs : job'[i].at \in Flying}
<1>1. job \in [Jobs -> JobState] /\ inFlight = {i \in Jobs : job[i].at \in Flying}
  BY DEF StoreTypes, Flying
<1>2. to \in {"idle", "look", "release", "upload", "sidecar"} \cup Artifacts!Over
  BY DEF Places, Flying, Artifacts!Over, Artifacts!Errors
<1>3. /\ job' \in [Jobs -> JobState] /\ job'[j].at = to
      /\ job'[j].bytes = job[j].bytes /\ job'[j].declared = job[j].declared
      /\ \A i \in Jobs \ {j} : job'[i] = job[i]
  <2>1. CASE job' = [job EXCEPT ![j].at = to]
    BY <1>1, <1>2, <2>1 DEF JobState
  <2>2. CASE \E r \in Nat : job' = [job EXCEPT ![j].at = to, ![j].release = r]
    <3>1. PICK r \in Nat : job' = [job EXCEPT ![j].at = to, ![j].release = r]
      BY <2>2
    <3> QED BY <1>1, <1>2, <3>1 DEF JobState
  <2> QED BY <2>1, <2>2 DEF Goes
<1>4. inFlight' = {i \in Jobs : job'[i].at \in Flying}
  BY <1>1, <1>3 DEF Goes
<1> QED BY <1>3, <1>4

(* A step that leaves the version and its manifest as they are.            *)
LEMMA QuietStep ==
  ASSUME StoreInv, NEW j \in Jobs, NEW to \in Places \ Acknowledges, Goes(j, to),
         UNCHANGED <<backend, policy, open, stored, sidecar, deletes, wiped, overwrote, kept>>,
         blind \subseteq blind', blind' \subseteq Jobs, release' \in Nat, releases' \in Nat,
         Artifacts!IsPublicStorage => to = "refused",
         to = "upload" /\ Artifacts!Paths /\ stored # Artifacts!None => j \in blind',
         Artifacts!Paths => to # "release"
  PROVE  StoreInv'
<1>1. /\ job' \in [Jobs -> JobState] /\ job'[j].at = to
      /\ \A i \in Jobs \ {j} : job'[i] = job[i]
      /\ inFlight' = {i \in Jobs : job'[i].at \in Flying}
  BY JobGoes DEF StoreInv
<1>2. to \notin Acknowledges /\ to # "sidecar"
  BY DEF Acknowledges
<1>3. \A i \in Jobs : job'[i].at \in Acknowledges => job[i].at \in Acknowledges
  BY <1>1, <1>2
<1>4. StoreTypes'
  BY <1>1 DEF StoreInv, StoreTypes, Flying
<1>5. Blindly'
  BY <1>1 DEF StoreInv, Blindly, Artifacts!Enforces, Artifacts!Paths, Artifacts!None
<1>6. Answered'
  BY <1>1, <1>2 DEF StoreInv, Answered, Artifacts!None
<1>7. Once'
  BY <1>3 DEF StoreInv, Once, Artifacts!Enforces, Artifacts!Paths, Artifacts!None
<1>8. Private'
  BY <1>1 DEF StoreInv, Private, Artifacts!IsPublicStorage, Artifacts!GitHub, Artifacts!None
<1>9. Artifacts!SidecarTells'
  BY DEF StoreInv, Artifacts!SidecarTells, Artifacts!Stat, Artifacts!None
<1> QED BY <1>4, <1>5, <1>6, <1>7, <1>8, <1>9 DEF StoreInv

(* A job that does not wait at its look is at a store that is not public.  *)
LEMMA NotOpen ==
  ASSUME StoreInv, NEW j \in Jobs, job[j].at \notin {"idle", "refused"}
  PROVE  ~Artifacts!IsPublicStorage
BY DEF StoreInv, Private

(* A job is built, looks, or makes its release.                            *)
LEMMA LooksStep ==
  ASSUME StoreInv, NEW j \in Jobs,
         Artifacts!Build(j) \/ Artifacts!Look(j) \/ Artifacts!CreateRelease(j)
  PROVE  StoreInv'
<1>1. /\ inFlight = {i \in Jobs : job[i].at \in Flying} /\ release \in Nat /\ releases \in Nat
      /\ blind \subseteq Jobs /\ releases + 1 \in Nat
  BY DEF StoreInv, StoreTypes, Flying
<1>2. CASE Artifacts!Build(j)
  <2>1. PICK to \in {"look", "refused"} :
          job' = [job EXCEPT ![j].at = to] /\ (Artifacts!IsPublicStorage => to = "refused")
    BY <1>2 DEF Artifacts!Build, Artifacts!Goto
  <2>2. /\ UNCHANGED <<backend, policy, open, stored, sidecar, deletes, wiped, overwrote, kept,
                       blind, inFlight, release, releases>>
        /\ job[j].at = "idle"
    BY <1>2 DEF Artifacts!Build, Artifacts!At
  <2>3. Goes(j, to) /\ to \in Places \ Acknowledges
    BY <1>1, <2>1, <2>2 DEF Goes, Flying, Places, Acknowledges
  <2>4. to # "upload" /\ to # "release"
    BY <2>1
  <2> QED BY <1>1, <2>1, <2>2, <2>3, <2>4, QuietStep
<1>3. CASE Artifacts!Look(j)
  <2>1. /\ UNCHANGED <<backend, policy, open, stored, sidecar, release, releases, deletes, wiped,
                       overwrote, kept>>
        /\ job[j].at = "look"
        /\ \/ Artifacts!LookAtPath(j)
           \/ Artifacts!LookAtRelease(j) /\ ~Artifacts!Paths
           \/ Artifacts!HashFirst(j) /\ ~Artifacts!Paths
    <3>1. Artifacts!Paths => ~Artifacts!GitHub
      BY DEF Artifacts!Paths, Artifacts!GitHub
    <3>2. CASE Artifacts!Paths
      BY <1>3, <3>1, <3>2, Zenon DEF Artifacts!Look, Artifacts!At
    <3>3. CASE ~Artifacts!Paths /\ Artifacts!GitHub
      BY <1>3, <3>3, Zenon DEF Artifacts!Look, Artifacts!At
    <3>4. CASE ~Artifacts!Paths /\ ~Artifacts!GitHub
      BY <1>3, <3>4, Zenon DEF Artifacts!Look, Artifacts!At
    <3> QED BY <3>2, <3>3, <3>4
  <2>2. ~Artifacts!IsPublicStorage
    BY <2>1, NotOpen
  <2>3. CASE Artifacts!LookAtPath(j)
    <3>1. PICK to \in {"immutable", "upload"} :
            /\ job' = [job EXCEPT ![j].at = to]
            /\ inFlight' = IF to \in Flying THEN inFlight \cup {j} ELSE inFlight \ {j}
            /\ blind' = blind \/ blind' = blind \cup {j}
            /\ to # "release"
            /\ to = "upload" /\ stored # Artifacts!None => j \in blind'
      BY <2>3 DEF Artifacts!LookAtPath, Artifacts!Goto, Artifacts!Fails, Flying
    <3>2. Goes(j, to) /\ to \in Places \ Acknowledges
      BY <3>1 DEF Goes, Places, Flying, Acknowledges
    <3> QED BY <1>1, <2>1, <2>2, <3>1, <3>2, QuietStep
  <2>4. CASE Artifacts!LookAtRelease(j) /\ ~Artifacts!Paths
    <3>1. \E to \in {"immutable", "upload", "release", "backend_error"} : Goes(j, to)
      BY <1>1, <2>4 DEF Artifacts!LookAtRelease, Artifacts!Goto, Artifacts!Fails, Flying, Goes
    <3>2. blind' = blind
      BY <2>4 DEF Artifacts!LookAtRelease
    <3>3. PICK to \in Places \ Acknowledges : Goes(j, to)
      BY <3>1 DEF Places, Flying, Acknowledges
    <3> QED BY <1>1, <2>1, <2>2, <2>4, <3>2, <3>3, QuietStep
  <2>5. CASE Artifacts!HashFirst(j) /\ ~Artifacts!Paths
    <3>1. \E to \in {"upload", "digest_mismatch"} : Goes(j, to)
      BY <1>1, <2>5 DEF Artifacts!HashFirst, Artifacts!Goto, Artifacts!Fails, Flying, Goes
    <3>2. blind' = blind
      BY <2>5 DEF Artifacts!HashFirst
    <3>3. PICK to \in Places \ Acknowledges : Goes(j, to)
      BY <3>1 DEF Places, Flying, Acknowledges
    <3> QED BY <1>1, <2>1, <2>2, <2>5, <3>2, <3>3, QuietStep
  <2> QED BY <2>1, <2>3, <2>4, <2>5
<1>4. CASE Artifacts!CreateRelease(j)
  <2>1. /\ UNCHANGED <<backend, policy, open, stored, sidecar, deletes, wiped, blind,
                       overwrote, kept>>
        /\ job[j].at = "release"
    BY <1>4 DEF Artifacts!CreateRelease, Artifacts!At
  <2>2. ~Artifacts!IsPublicStorage
    BY <2>1, NotOpen
  <2>3. release' \in Nat /\ releases' \in Nat
    BY <1>1, <1>4 DEF Artifacts!CreateRelease
  <2>4. \E to \in {"upload", "backend_error"} : Goes(j, to)
    <3>1. j \in inFlight
      BY <1>1, <2>1 DEF Flying
    <3> QED BY <1>1, <1>4, <3>1 DEF Artifacts!CreateRelease, Artifacts!Goto, Artifacts!Fails,
               Flying, Goes
  <2>5. PICK to \in Places \ Acknowledges : Goes(j, to)
    BY <2>4 DEF Places, Flying, Acknowledges
  <2>6. ~Artifacts!Paths
    BY <2>1 DEF StoreInv, Blindly
  <2> QED BY <1>1, <2>1, <2>2, <2>3, <2>5, <2>6, QuietStep
<1> QED BY <1>2, <1>3, <1>4

(* The bytes get into the store, whatever the job learns of it.            *)
LEMMA BytesStored ==
  ASSUME Artifacts!None \notin Digests, StoreInv, NEW j \in Jobs, job[j].at = "upload",
         ~Artifacts!Taken, stored' = job[j].bytes,
         overwrote' = IF stored = Artifacts!None THEN overwrote ELSE overwrote \cup {j},
         blind' = blind \cup (inFlight \ {j}),
         NEW to \in {"sidecar", "digest_mismatch", "backend_error"}, Goes(j, to),
         to = "sidecar" => job[j].bytes = job[j].declared,
         UNCHANGED <<backend, policy, open, sidecar, release, releases, deletes, wiped, kept>>
  PROVE  StoreInv'
<1>1. to \in Places
  BY DEF Places, Flying
<1>2. /\ job' \in [Jobs -> JobState] /\ job'[j].at = to
      /\ job'[j].declared = job[j].declared
      /\ \A i \in Jobs \ {j} : job'[i] = job[i]
      /\ inFlight' = {i \in Jobs : job'[i].at \in Flying}
  BY <1>1, JobGoes DEF StoreInv
<1>3. /\ \A i \in Jobs : job[i].bytes \in Digests /\ job[i].declared \in Digests
      /\ inFlight = {i \in Jobs : job[i].at \in Flying}
      /\ wiped \subseteq Jobs /\ blind \subseteq Jobs /\ overwrote \subseteq Jobs
  BY DEF StoreInv, StoreTypes, JobState, Flying
<1>4. stored' # Artifacts!None
  BY <1>3
<1>5. Artifacts!Enforces => stored = Artifacts!None
  BY DEF Artifacts!Taken
<1>6. (Artifacts!Enforces' <=> Artifacts!Enforces) /\ (Artifacts!Paths' <=> Artifacts!Paths)
      /\ (~Artifacts!Enforces => Artifacts!Paths)
  BY DEF Artifacts!Enforces, Artifacts!Paths
<1>7. StoreTypes'
  BY <1>2, <1>3 DEF StoreInv, StoreTypes, Flying
<1>8. Blindly'
  <2>1. overwrote' \subseteq blind'
    BY <1>5, <1>6 DEF StoreInv, Blindly
  <2>2. Artifacts!Enforces => overwrote' = {}
    BY <1>5 DEF StoreInv, Blindly
  <2>3. \A i \in Jobs : job'[i].at = "upload" => i \in blind'
    BY <1>2, <1>3 DEF Flying
  <2>4. Artifacts!Paths => \A i \in Jobs : job'[i].at # "release"
    BY <1>2 DEF StoreInv, Blindly
  <2> QED BY <1>6, <2>1, <2>2, <2>3, <2>4 DEF Blindly
<1>9. Answered'
  <2> SUFFICES ASSUME overwrote' = {}
               PROVE  /\ kept # Artifacts!None => stored' = kept
                      /\ \A i \in Jobs \ wiped : job'[i].at = "sidecar" => stored' = job'[i].declared
    BY DEF Answered
  <2>1. overwrote = {} /\ stored = Artifacts!None
    OBVIOUS
  <2>2. kept = Artifacts!None /\ \A i \in Jobs \ wiped : job[i].at # "sidecar"
    BY <1>3, <2>1 DEF StoreInv, Answered
  <2> QED BY <1>2, <2>2
<1>10. Once'
  BY <1>2, <1>4, <1>5, <1>6 DEF StoreInv, Once, Acknowledges
<1>11. Private'
  BY NotOpen DEF Private, Artifacts!IsPublicStorage, Artifacts!GitHub
<1>12. Artifacts!SidecarTells'
  BY DEF StoreInv, Artifacts!SidecarTells, Artifacts!Stat
<1> QED BY <1>7, <1>8, <1>9, <1>10, <1>11, <1>12 DEF StoreInv

(* A job uploads: stored, refused, or the answer is lost.                  *)
LEMMA UploadStep ==
  ASSUME Artifacts!None \notin Digests, StoreInv, NEW j \in Jobs, Artifacts!Upload(j)
  PROVE  StoreInv'
<1>1. /\ job[j].at = "upload"
      /\ UNCHANGED <<backend, policy, open, sidecar, release, releases, deletes, wiped, kept>>
  BY DEF Artifacts!Upload, Artifacts!At
<1>2. j \in inFlight /\ release \in Nat /\ releases \in Nat /\ blind \subseteq Jobs
  BY <1>1 DEF StoreInv, StoreTypes
<1>3. CASE /\ ~Artifacts!Taken /\ stored' = job[j].bytes
           /\ overwrote' = IF stored = Artifacts!None THEN overwrote ELSE overwrote \cup {j}
           /\ blind' = blind \cup (inFlight \ {j})
           /\ Artifacts!Settles(j) \/ Artifacts!Fails(j, "backend_error")
  <2>1. PICK to \in {"sidecar", "digest_mismatch", "backend_error"} :
          Goes(j, to) /\ (to = "sidecar" => job[j].bytes = job[j].declared)
    BY <1>2, <1>3 DEF Artifacts!Settles, Artifacts!Fails, Artifacts!Goto, Goes, Flying
  <2> QED BY <1>1, <1>3, <2>1, BytesStored
<1>4. CASE (Artifacts!Fails(j, "immutable") \/ Artifacts!Fails(j, "backend_error"))
           /\ UNCHANGED <<stored, blind, overwrote>>
  <2>1. PICK to \in {"immutable", "backend_error"} : Goes(j, to)
    BY <1>4 DEF Artifacts!Fails, Artifacts!Goto, Goes, Flying
  <2>2. to \in Places \ Acknowledges /\ to # "upload" /\ to # "release"
    BY DEF Places, Flying, Acknowledges
  <2> QED BY <1>1, <1>2, <1>4, <2>1, <2>2, NotOpen, QuietStep
<1> QED BY <1>3, <1>4 DEF Artifacts!Upload

(* The manifest is written beside the bytes, or is not.                    *)
LEMMA SidecarStep ==
  ASSUME StoreInv, NEW j \in Jobs, Artifacts!Sidecar(j) PROVE StoreInv'
<1>1. /\ job[j].at = "sidecar"
      /\ sidecar' = sidecar \/ sidecar' = job[j].declared
      /\ kept' = IF j \in wiped THEN kept ELSE job[j].declared
      /\ Goes(j, "ok")
      /\ UNCHANGED <<backend, policy, open, stored, release, releases, deletes, wiped, blind,
                     overwrote>>
  BY DEF Artifacts!Sidecar, Artifacts!At, Artifacts!Goto, Goes, Flying
<1>2. "ok" \in Places
  BY DEF Places
<1>3. /\ job' \in [Jobs -> JobState] /\ job'[j].at = "ok"
      /\ \A i \in Jobs \ {j} : job'[i] = job[i]
      /\ inFlight' = {i \in Jobs : job'[i].at \in Flying}
  BY <1>1, <1>2, JobGoes DEF StoreInv
<1>4. StoreTypes'
  BY <1>1, <1>3 DEF StoreInv, StoreTypes, Flying
<1>5. Blindly'
  BY <1>1, <1>3 DEF StoreInv, Blindly, Artifacts!Enforces, Artifacts!Paths
<1>6. Answered'
  BY <1>1, <1>3 DEF StoreInv, Answered
<1>7. Once'
  <2>1. \A i \in Jobs : job'[i].at \in Acknowledges <=> job[i].at \in Acknowledges
    BY <1>1, <1>3 DEF Acknowledges
  <2> QED BY <1>1, <2>1 DEF StoreInv, Once, Artifacts!Enforces, Artifacts!Paths
<1>8. Private'
  BY <1>1, NotOpen DEF Private, Artifacts!IsPublicStorage, Artifacts!GitHub
<1>9. Artifacts!SidecarTells'
  <2>1. deletes = 0 /\ overwrote = {} => stored = job[j].declared
    BY <1>1 DEF StoreInv, StoreTypes, Answered
  <2> QED BY <1>1, <2>1 DEF StoreInv, Artifacts!SidecarTells, Artifacts!Stat
<1> QED BY <1>4, <1>5, <1>6, <1>7, <1>8, <1>9 DEF StoreInv

(* Retention takes the bytes, then the manifest.                           *)
LEMMA DeleteStep ==
  ASSUME StoreInv, Artifacts!Delete \/ Artifacts!DeleteSidecar PROVE StoreInv'
<1>1. deletes \in Nat /\ release \in Nat /\ inFlight \subseteq Jobs
  BY DEF StoreInv, StoreTypes
<1>2. CASE Artifacts!Delete
  <2>1. /\ deletes' = deletes + 1 /\ stored' = Artifacts!None /\ kept' = Artifacts!None
        /\ wiped' = wiped \cup inFlight /\ release' \in {release, 0}
        /\ UNCHANGED <<backend, policy, open, job, releases, inFlight, blind, overwrote>>
    BY <1>2 DEF Artifacts!Delete
  <2>2. deletes' # 0 /\ deletes' \in Nat
    BY <1>1, <2>1
  <2>3. StoreTypes'
    BY <1>1, <2>1, <2>2 DEF StoreInv, StoreTypes
  <2>4. Blindly'
    BY <2>1 DEF StoreInv, Blindly, Artifacts!Enforces, Artifacts!Paths, Artifacts!None
  <2>5. Answered'
    BY <2>1 DEF StoreInv, StoreTypes, Answered, Artifacts!None
  <2>6. Once' /\ Artifacts!SidecarTells'
    BY <2>2 DEF Once, Artifacts!SidecarTells
  <2>7. Private'
    BY <2>1 DEF StoreInv, Private, Artifacts!IsPublicStorage, Artifacts!GitHub, Artifacts!None
  <2> QED BY <2>3, <2>4, <2>5, <2>6, <2>7 DEF StoreInv
<1>3. CASE Artifacts!DeleteSidecar
  <2>1. /\ sidecar' = sidecar \/ sidecar' = Artifacts!None
        /\ UNCHANGED <<backend, policy, open, job, stored, release, releases, deletes, inFlight,
                       wiped, blind, overwrote, kept>>
    BY <1>3 DEF Artifacts!DeleteSidecar
  <2>2. StoreTypes' /\ Private'
    BY <2>1 DEF StoreInv, StoreTypes, Private, Artifacts!IsPublicStorage, Artifacts!GitHub,
                Artifacts!None
  <2>3. Blindly' /\ Answered'
    BY <2>1
       DEF StoreInv, Blindly, Answered, Artifacts!Enforces, Artifacts!Paths, Artifacts!None
  <2>4. Once'
    BY <2>1 DEF StoreInv, Once, Artifacts!Enforces, Artifacts!Paths, Artifacts!None
  <2>5. Artifacts!SidecarTells'
    BY <2>1 DEF StoreInv, Artifacts!SidecarTells, Artifacts!Stat, Artifacts!None
  <2> QED BY <2>2, <2>3, <2>4, <2>5 DEF StoreInv
<1> QED BY <1>2, <1>3

(* What Services_proofs takes of artifact-store-adapter: the invariant     *)
(* holds at first, every step keeps it, and it implies what is promised.   *)
LEMMA StoreAlways ==
  ASSUME Artifacts!None \notin Digests
  PROVE  /\ Artifacts!Init => StoreInv
         /\ StoreInv /\ [Artifacts!Next]_(Artifacts!store) => StoreInv'
         /\ StoreInv => Artifacts!StoreSound
<1>1. ASSUME Artifacts!Init PROVE StoreInv
  <2>1. /\ job \in [Jobs -> JobState] /\ \A j \in Jobs : job[j].at = "idle"
        /\ stored = Artifacts!None /\ sidecar = Artifacts!None /\ release = 0 /\ releases = 0
        /\ deletes = 0 /\ inFlight = {} /\ wiped = {} /\ blind = {} /\ overwrote = {}
        /\ kept = Artifacts!None
    BY <1>1 DEF Artifacts!Init, JobState
  <2>2. StoreTypes /\ Blindly
    BY <2>1 DEF StoreTypes, Blindly
  <2>3. Answered /\ Once /\ Private
    BY <2>1 DEF Answered, Once, Private, Acknowledges
  <2> QED BY <2>1, <2>2, <2>3 DEF StoreInv, Artifacts!SidecarTells
<1>2. ASSUME StoreInv, UNCHANGED Artifacts!store PROVE StoreInv'
  <2>1. UNCHANGED <<backend, policy, open, job, stored, sidecar, release, releases, deletes,
                    inFlight, wiped, blind, overwrote, kept>>
    BY <1>2 DEF Artifacts!store
  <2>2. StoreTypes' /\ Private' /\ Blindly'
    BY <1>2, <2>1 DEF StoreInv, StoreTypes, Private, Artifacts!IsPublicStorage, Artifacts!GitHub,
                      Blindly, Artifacts!Enforces, Artifacts!Paths, Artifacts!None
  <2>3. Answered' /\ Once' /\ Artifacts!SidecarTells'
    BY <1>2, <2>1
       DEF StoreInv, Answered, Once, Artifacts!Enforces, Artifacts!Paths, Artifacts!None,
                      Artifacts!SidecarTells, Artifacts!Stat
  <2> QED BY <2>2, <2>3 DEF StoreInv
<1>3. ASSUME StoreInv, Artifacts!Next PROVE StoreInv'
  BY <1>3, LooksStep, UploadStep, SidecarStep, DeleteStep DEF Artifacts!Next
<1> QED BY <1>1, <1>2, <1>3, StoreHolds

-----------------------------------------------------------------------------
(* sdlc-orchestrator.  The phases stand in an order, each once.            *)
PhasesInOrder ==
  /\ OrderedPhases \in Seq(STRING) /\ Len(OrderedPhases) > 0
  /\ {"none", "done"} \cap SDLC!Phases = {}
  /\ \A i, j \in DOMAIN OrderedPhases : OrderedPhases[i] = OrderedPhases[j] => i = j

(* What the store and every copy of it say, if no regression jumped ahead. *)
Earned(i) ==
  i.phase # "none" =>
    \A p \in SDLC!Phases :
      SDLC!Index(p) < SDLC!Index(i.phase)
        /\ ~(p # SDLC!First /\ SDLC!LeftOut(i.targets, p)) =>
          i.status[p] \in {"passed", "overridden"}

Shaped(i) ==
  /\ i = [phase |-> i.phase, targets |-> i.targets, status |-> i.status]
  /\ i.phase \in SDLC!Phases \cup {"none", "done"}
  /\ i.status \in [SDLC!Phases -> SDLC!Statuses]

SDLCInv ==
  /\ Shaped(initiative) /\ jumped \in BOOLEAN
  /\ copy = [h \in Editors |-> copy[h]] /\ \A h \in Editors : Shaped(copy[h])
  /\ ~jumped => Earned(initiative) /\ \A h \in Editors : Earned(copy[h])

(* Every phase has its place, "done" comes after all of them.              *)
LEMMA PhasePlaces ==
  ASSUME PhasesInOrder
  PROVE  /\ \A p \in SDLC!Phases : SDLC!Index(p) \in 1..Len(OrderedPhases)
                                   /\ OrderedPhases[SDLC!Index(p)] = p
         /\ SDLC!Index("done") = Len(OrderedPhases) + 1
         /\ SDLC!First \in SDLC!Phases /\ SDLC!Index(SDLC!First) = 1
<1>1. SDLC!Phases = {OrderedPhases[i] : i \in 1..Len(OrderedPhases)}
  BY DEF PhasesInOrder, SDLC!Phases, SDLC!ToSet
<1>2. ASSUME NEW p \in SDLC!Phases
      PROVE  SDLC!Index(p) \in 1..Len(OrderedPhases) /\ OrderedPhases[SDLC!Index(p)] = p
  <2>1. p # "done" /\ \E i \in DOMAIN OrderedPhases : OrderedPhases[i] = p
    BY <1>1, <1>2 DEF PhasesInOrder
  <2>2. SDLC!Index(p) = CHOOSE i \in DOMAIN OrderedPhases : OrderedPhases[i] = p
    BY <2>1 DEF SDLC!Index
  <2> QED BY <2>1, <2>2 DEF PhasesInOrder
<1>3. SDLC!Index("done") = Len(OrderedPhases) + 1
  BY DEF SDLC!Index
<1>4. SDLC!First \in SDLC!Phases
  BY <1>1 DEF PhasesInOrder, SDLC!First
<1>5. SDLC!Index(SDLC!First) = 1
  BY <1>2, <1>4 DEF PhasesInOrder, SDLC!First
<1> QED BY <1>2, <1>3, <1>4, <1>5

(* NextPhase goes forward and passes over what the plan leaves out.        *)
LEMMA NextPhaseIs ==
  ASSUME PhasesInOrder, NEW t, NEW p \in SDLC!Phases
  PROVE  LET n == SDLC!NextPhase(t, p)
         IN  /\ n \in SDLC!Phases \cup {"done"}
             /\ \A q \in SDLC!Phases :
                  SDLC!Index(p) < SDLC!Index(q) /\ SDLC!Index(q) < SDLC!Index(n) => SDLC!LeftOut(t, q)
<1> DEFINE ahead == {q \in SDLC!Phases : SDLC!Index(q) > SDLC!Index(p) /\ ~SDLC!LeftOut(t, q)}
           I == {SDLC!Index(q) : q \in ahead}
<1>1. CASE ahead = {}
  <2>1. SDLC!NextPhase(t, p) = "done"
    BY <1>1 DEF SDLC!NextPhase
  <2> QED BY <1>1, <2>1, PhasePlaces
<1>2. CASE ahead # {}
  <2>1. I \in SUBSET Nat /\ I # {}
    BY <1>2, PhasePlaces
  <2>2. PICK m \in I : \A k \in I : m <= k
    <3> DEFINE less == {x \in Nat \X Nat : x[1] < x[2]}
    <3>1. IsWellFoundedOn(less, Nat)
      BY NatLessThanWellFounded DEF OpToRel
    <3>2. \A j, k \in Nat : j < k => <<j, k>> \in less
      OBVIOUS
    <3>3. I \subseteq Nat /\ I # {}
      BY <2>1
    <3> HIDE DEF I, less
    <3>4. \E m \in I : \A k \in I : ~ (<<k, m>> \in less)
      BY <3>1, <3>3, WFMin, Zenon
    <3>5. PICK m \in I : \A k \in I : ~ (<<k, m>> \in less)
      BY <3>4
    <3>6. ASSUME NEW k \in I PROVE m <= k
      <4>1. k \in Nat /\ m \in Nat
        BY <3>3
      <4>2. ~ (k < m)
        BY <3>2, <3>5, <4>1
      <4> QED BY <4>1, <4>2
    <3> QED BY <3>6
  <2>3. \E q \in ahead : \A r \in ahead : SDLC!Index(q) <= SDLC!Index(r)
    BY <2>2
  <2>4. SDLC!NextPhase(t, p) \in ahead
        /\ \A r \in ahead : SDLC!Index(SDLC!NextPhase(t, p)) <= SDLC!Index(r)
    BY <1>2, <2>3, Zenon DEF SDLC!NextPhase
  <2> QED BY <2>4, PhasePlaces
<1> QED BY <1>1, <1>2

(* An initiative enters a phase when all before it are passed or left out. *)
LEMMA EnterEarned ==
  ASSUME PhasesInOrder, NEW i, Shaped(i), NEW p \in SDLC!Phases \cup {"done"}
  PROVE  /\ Shaped(SDLC!Enter(i, p))
         /\ (\A q \in SDLC!Phases :
               SDLC!Index(q) < SDLC!Index(p) /\ ~(q # SDLC!First /\ SDLC!LeftOut(i.targets, q)) =>
                 i.status[q] \in {"passed", "overridden"})
            => Earned(SDLC!Enter(i, p))
<1> DEFINE e == SDLC!Enter(i, p)
<1>1. /\ e = [phase |-> e.phase, targets |-> e.targets, status |-> e.status]
      /\ e.phase = p /\ e.targets = i.targets
      /\ e.status = IF p = "done" THEN i.status ELSE [i.status EXCEPT ![p] = "in_progress"]
  BY DEF Shaped, SDLC!Enter
<1>2. \A q \in SDLC!Phases : SDLC!Index(q) < SDLC!Index(p) => e.status[q] = i.status[q]
  BY <1>1, PhasePlaces DEF Shaped
<1>3. e.status \in [SDLC!Phases -> SDLC!Statuses]
  BY <1>1 DEF Shaped, SDLC!Statuses
<1> HIDE DEF e
<1>4. Shaped(e)
  BY <1>1, <1>3 DEF Shaped
<1> QED BY <1>1, <1>2, <1>4 DEF Earned, e

(* What Complete puts back is earned where the copy was.                   *)
LEMMA CompletedEarned ==
  ASSUME PhasesInOrder, NEW i, Shaped(i), i.phase \in SDLC!Phases,
         NEW clean, NEW override
  PROVE  /\ Shaped(SDLC!Completed(i, clean, override))
         /\ Earned(i) => Earned(SDLC!Completed(i, clean, override))
<1> DEFINE p == i.phase
           n == SDLC!NextPhase(i.targets, p)
           s == IF override = "approved" THEN "overridden" ELSE "passed"
           b == [i EXCEPT !.status[i.phase] = "blocked"]
           d == [i EXCEPT !.status[i.phase] = s]
<1>1. i.phase # "none" /\ i.phase # "done"
  BY DEF PhasesInOrder
<1>2. /\ b = [phase |-> p, targets |-> i.targets, status |-> [i.status EXCEPT ![p] = "blocked"]]
      /\ d = [phase |-> p, targets |-> i.targets, status |-> [i.status EXCEPT ![p] = s]]
  BY DEF Shaped
<1>3. s \in SDLC!Statuses /\ "blocked" \in SDLC!Statuses /\ s \in {"passed", "overridden"}
  BY DEF SDLC!Statuses
<1>4. Shaped(b) /\ Shaped(d)
  BY <1>2, <1>3 DEF Shaped
<1>5. Earned(i) => Earned(b)
  BY <1>1, <1>2, PhasePlaces DEF Earned, Shaped
<1>6. Earned(i) => \A q \in SDLC!Phases :
        SDLC!Index(q) < SDLC!Index(n) /\ ~(q # SDLC!First /\ SDLC!LeftOut(d.targets, q)) =>
          d.status[q] \in {"passed", "overridden"}
  <2> SUFFICES ASSUME Earned(i), NEW q \in SDLC!Phases, SDLC!Index(q) < SDLC!Index(n),
                      ~(q # SDLC!First /\ SDLC!LeftOut(d.targets, q))
               PROVE  d.status[q] \in {"passed", "overridden"}
    OBVIOUS
  <2>1. d.status = [i.status EXCEPT ![p] = s] /\ d.targets = i.targets
    BY <1>2
  <2>2. CASE q = p
    BY <1>3, <2>1, <2>2 DEF Shaped
  <2>3. CASE q # p
    <3>1. ~(SDLC!Index(p) < SDLC!Index(q))
      BY <2>1, NextPhaseIs, PhasePlaces
    <3>2. SDLC!Index(q) < SDLC!Index(p)
      BY <2>3, <3>1, PhasePlaces
    <3>3. i.status[q] \in {"passed", "overridden"}
      BY <1>1, <2>1, <3>2 DEF Earned
    <3> QED BY <2>1, <2>3, <3>3 DEF Shaped
  <2> QED BY <2>2, <2>3
<1>7. n \in SDLC!Phases \cup {"done"}
  BY NextPhaseIs
<1>8. SDLC!Completed(i, clean, override)
        = IF SDLC!Blocks(i, clean, override) THEN b ELSE SDLC!Enter(d, n)
  BY DEF SDLC!Completed
<1> HIDE DEF b, d, n, s, p
<1>9. Shaped(SDLC!Enter(d, n)) /\ (Earned(i) => Earned(SDLC!Enter(d, n)))
  BY <1>4, <1>6, <1>7, EnterEarned
<1> QED BY <1>4, <1>5, <1>8, <1>9

(* A handler puts back what is earned.                                     *)
LEMMA PutsEarned ==
  ASSUME SDLCInv, NEW h \in Editors, NEW i, Shaped(i), SDLC!Puts(h, i),
         jumped' \in BOOLEAN, jumped => jumped', ~jumped' => Earned(i)
  PROVE  SDLCInv'
<1>1. initiative' = i /\ copy' = [copy EXCEPT ![h] = SDLC!Nothing]
  BY DEF SDLC!Puts
<1>2. Shaped(SDLC!Nothing) /\ Earned(SDLC!Nothing)
  BY DEF Shaped, Earned, SDLC!Nothing, SDLC!Statuses
<1>3. /\ copy' = [x \in Editors |-> copy'[x]]
      /\ \A x \in Editors : copy'[x] = IF x = h THEN SDLC!Nothing ELSE copy[x]
  BY <1>1 DEF SDLCInv
<1>4. \A x \in Editors : Shaped(copy'[x]) /\ (~jumped' => Earned(copy'[x]))
  BY <1>2, <1>3 DEF SDLCInv
<1>5. Shaped(initiative') /\ (~jumped' => Earned(initiative'))
  BY <1>1
<1> QED BY <1>3, <1>4, <1>5 DEF SDLCInv, Shaped, Earned

(* Every operation on an initiative keeps it.                              *)
LEMMA SDLCStep ==
  ASSUME PhasesInOrder, SDLCInv, SDLC!Next
  PROVE  SDLCInv'
<1>1. ASSUME NEW plan, NEW override, NEW include, SDLC!Create(plan, override, include)
      PROVE  SDLCInv'
  <2> DEFINE t == SDLC!Promote(SDLC!MergeTargets(plan, override), include)
             st == [p \in SDLC!Phases |-> CASE p = SDLC!First -> "in_progress"
                     [] p # SDLC!First /\ SDLC!LeftOut(t, p) -> "skipped"
                     [] OTHER -> "not_started"]
  <2>1. initiative' = [SDLC!Nothing EXCEPT !.phase = SDLC!First, !.targets = t, !.status = st]
        /\ copy' = copy /\ jumped' = jumped
    BY <1>1, Zenon DEF SDLC!Create
  <2>2. st \in [SDLC!Phases -> SDLC!Statuses]
    BY DEF SDLC!Statuses
  <2> HIDE DEF t, st
  <2>3. initiative' = [phase |-> SDLC!First, targets |-> t, status |-> st]
    BY <2>1 DEF SDLC!Nothing
  <2>4. Shaped(initiative') /\ Earned(initiative')
    BY <2>2, <2>3, PhasePlaces DEF Shaped, Earned
  <2> QED BY <2>1, <2>4 DEF SDLCInv, Shaped, Earned
<1>2. ASSUME NEW h \in Editors, SDLC!Get(h) PROVE SDLCInv'
  <2>1. copy' = [copy EXCEPT ![h] = initiative] /\ initiative' = initiative /\ jumped' = jumped
    BY <1>2 DEF SDLC!Get
  <2>2. /\ copy' = [x \in Editors |-> copy'[x]]
        /\ \A x \in Editors : copy'[x] = IF x = h THEN initiative ELSE copy[x]
    BY <2>1 DEF SDLCInv
  <2>3. \A x \in Editors : Shaped(copy'[x]) /\ (~jumped' => Earned(copy'[x]))
    BY <2>1, <2>2 DEF SDLCInv
  <2> QED BY <2>1, <2>2, <2>3 DEF SDLCInv, Shaped, Earned
<1>3. ASSUME NEW h \in Editors, SDLC!Complete(h) PROVE SDLCInv'
  <2>1. PICK clean \in BOOLEAN, override \in {"none", "approved", "invalid"} :
          SDLC!Puts(h, IF ~clean /\ override = "invalid" THEN initiative
                       ELSE SDLC!Completed(copy[h], clean, override))
    BY <1>3 DEF SDLC!Complete
  <2>2. copy[h].phase \in SDLC!Phases /\ jumped' = jumped
    BY <1>3 DEF SDLC!Complete
  <2>3. CASE ~clean /\ override = "invalid"
    BY <2>1, <2>2, <2>3, PutsEarned DEF SDLCInv
  <2>4. CASE ~(~clean /\ override = "invalid")
    <3>1. /\ Shaped(SDLC!Completed(copy[h], clean, override))
          /\ ~jumped => Earned(SDLC!Completed(copy[h], clean, override))
      BY <2>2, CompletedEarned DEF SDLCInv
    <3> QED BY <2>1, <2>2, <2>4, <3>1, PutsEarned DEF SDLCInv
  <2> QED BY <2>3, <2>4
<1>4. ASSUME NEW h \in Editors, SDLC!GivesUp(h) PROVE SDLCInv'
  BY <1>4, PutsEarned DEF SDLC!GivesUp, SDLCInv
<1>5. ASSUME NEW h \in Editors, NEW to \in SDLC!Phases \cup {"done"}, SDLC!Regress(h, to)
      PROVE  SDLCInv'
  <2>1. /\ copy[h].phase # "none" /\ SDLC!Puts(h, SDLC!Enter(copy[h], to))
        /\ jumped' = (jumped \/ SDLC!Index(to) > SDLC!Index(copy[h].phase))
    BY <1>5 DEF SDLC!Regress
  <2>2. Shaped(copy[h]) /\ copy[h].phase \in SDLC!Phases \cup {"done"}
    BY <2>1 DEF SDLCInv, Shaped
  <2>3. ASSUME ~jumped' PROVE Earned(SDLC!Enter(copy[h], to))
    <3> DEFINE ahead == SDLC!Index(to) > SDLC!Index(copy[h].phase)
    <3>0. ~jumped /\ ~ahead
      BY <2>1, <2>3, Zenon
    <3>1. ~jumped /\ SDLC!Index(to) <= SDLC!Index(copy[h].phase)
      BY <2>2, <3>0, PhasePlaces
    <3>2. \A q \in SDLC!Phases : SDLC!Index(q) < SDLC!Index(to) =>
            SDLC!Index(q) < SDLC!Index(copy[h].phase)
      BY <2>2, <3>1, PhasePlaces
    <3>3. Earned(copy[h])
      BY <3>1 DEF SDLCInv
    <3> QED BY <2>1, <2>2, <3>2, <3>3, EnterEarned DEF Earned
  <2>4. jumped' \in BOOLEAN /\ (jumped => jumped')
    BY <2>1 DEF SDLCInv
  <2> QED BY <2>1, <2>2, <2>3, <2>4, EnterEarned, PutsEarned
<1> QED BY <1>1, <1>2, <1>3, <1>4, <1>5 DEF SDLC!Next

(* What Services_proofs takes of sdlc-orchestrator: the invariant holds at *)
(* first, every step keeps it, and it implies what is promised.            *)
LEMMA SDLCAlways ==
  ASSUME PhasesInOrder
  PROVE  /\ SDLC!Init => SDLCInv
         /\ SDLCInv /\ [SDLC!Next]_(SDLC!sdlc) => SDLCInv'
         /\ SDLCInv => SDLC!NoPhaseMissed
<1>1. ASSUME SDLC!Init PROVE SDLCInv
  <2>1. Shaped(SDLC!Nothing) /\ Earned(SDLC!Nothing)
    BY DEF Shaped, Earned, SDLC!Nothing, SDLC!Statuses
  <2> QED BY <1>1, <2>1 DEF SDLC!Init, SDLCInv
<1>2. ASSUME SDLCInv, UNCHANGED SDLC!sdlc PROVE SDLCInv'
  BY <1>2 DEF SDLC!sdlc, SDLCInv, Shaped, Earned
<1>3. SDLCInv => SDLC!NoPhaseMissed
  BY DEF SDLCInv, Earned, SDLC!NoPhaseMissed
<1> QED BY <1>1, <1>2, <1>3, SDLCStep

-----------------------------------------------------------------------------
(* runtime-registry.  No runtime is called like its absence; what kind of  *)
(* runtime a row is about never changes, nor does it in a copy.            *)
RuntimesNamed == "none" \notin RuntimeIds

OfRow(row) == row = [status |-> row.status, mode |-> row.mode, type |-> row.type,
                     reachable |-> row.reachable, scoped |-> row.scoped, revoked |-> row.revoked]

Minikube(row) == row.mode = "byo" /\ row.type = "minikube"

RuntimesInv ==
  /\ runtime = [r \in RuntimeIds |-> runtime[r]] /\ \A r \in RuntimeIds : OfRow(runtime[r])
  /\ held = [x \in Operators |-> held[x]]
  /\ \A x \in Operators : held[x] = [of |-> held[x].of, row |-> held[x].row]
                          /\ OfRow(held[x].row) /\ held[x].of \in RuntimeIds \cup {"none"}
  /\ verification \in [RuntimeIds -> {"none", "pass", "warn", "fail"}]
  /\ revoked \subseteq RuntimeIds /\ overlapped \subseteq revoked
  /\ \A x \in Operators : held[x].of # "none" =>
       /\ held[x].row.status # "none" /\ runtime[held[x].of].status # "none"
       /\ held[x].row.mode = runtime[held[x].of].mode
       /\ held[x].row.type = runtime[held[x].of].type
  /\ \A r \in RuntimeIds :
       /\ runtime[r].status = "none" => r \notin revoked /\ verification[r] = "none"
       /\ Minikube(runtime[r]) => verification[r] # "fail"
  /\ \A r \in revoked \ overlapped :
       /\ runtime[r].revoked
       /\ \A x \in Operators : held[x].of = r => held[x].row.revoked

(* A runtime gets its row: nobody holds it, nobody has revoked it.         *)
LEMMA RowArrives ==
  ASSUME RuntimesNamed, RuntimesInv, NEW r \in RuntimeIds, runtime[r].status = "none",
         NEW row, OfRow(row), row.status # "none", runtime' = [runtime EXCEPT ![r] = row],
         UNCHANGED <<held, revoked, overlapped, verification>>
  PROVE  RuntimesInv'
<1>1. /\ runtime' = [s \in RuntimeIds |-> runtime'[s]]
      /\ \A s \in RuntimeIds : runtime'[s] = IF s = r THEN row ELSE runtime[s]
  BY DEF RuntimesInv
<1>2. \A x \in Operators : held[x].of # r
  BY DEF RuntimesInv, RuntimesNamed
<1>3. r \notin revoked /\ verification[r] = "none"
  BY DEF RuntimesInv
<1>4. \A s \in RuntimeIds : OfRow(runtime'[s])
  BY <1>1 DEF RuntimesInv
<1>5. \A x \in Operators : held[x].of # "none" =>
        runtime'[held[x].of] = runtime[held[x].of]
  BY <1>1, <1>2 DEF RuntimesInv
<1>6. \A s \in RuntimeIds :
        /\ runtime'[s].status = "none" => s \notin revoked /\ verification[s] = "none"
        /\ Minikube(runtime'[s]) => verification[s] # "fail"
  BY <1>1, <1>3 DEF RuntimesInv
<1>7. \A s \in revoked \ overlapped : runtime'[s] = runtime[s]
  BY <1>1, <1>3 DEF RuntimesInv
<1> QED BY <1>1, <1>4, <1>5, <1>6, <1>7, ZenonT(60) DEF RuntimesInv, OfRow, Minikube

(* An operation puts its row back: of the same kind, and revoked where the *)
(* copy was, or where the runtime was never revoked.                       *)
LEMMA RowReturns ==
  ASSUME RuntimesNamed, RuntimesInv, NEW x \in Operators, NEW row, held[x].of # "none",
         Runtimes!Update(x, row), OfRow(row), row.status # "none",
         row.mode = held[x].row.mode, row.type = held[x].row.type,
         held[x].row.revoked => row.revoked,
         \/ revoked' = revoked /\ overlapped' = overlapped
         \/ /\ row.revoked /\ revoked' = revoked \cup {held[x].of}
            /\ overlapped' = IF Runtimes!Holders(held[x].of, x) = {} THEN overlapped \ {held[x].of}
                             ELSE overlapped \cup {held[x].of}
  PROVE  RuntimesInv'
<1> DEFINE r == held[x].of
<1>1. /\ runtime' = [runtime EXCEPT ![r] = row] /\ held' = [held EXCEPT ![x] = Runtimes!Free]
      /\ verification' = verification
  BY DEF Runtimes!Update
<1>2. r \in RuntimeIds
  BY DEF RuntimesInv
<1> HIDE DEF r
<1>3. /\ runtime' = [s \in RuntimeIds |-> runtime'[s]]
      /\ \A s \in RuntimeIds : runtime'[s] = IF s = r THEN row ELSE runtime[s]
  BY <1>1, <1>2 DEF RuntimesInv
<1>4. /\ held' = [y \in Operators |-> held'[y]]
      /\ \A y \in Operators : held'[y] = IF y = x THEN Runtimes!Free ELSE held[y]
  BY <1>1 DEF RuntimesInv
<1>5. Runtimes!Free = [of |-> "none", row |-> Runtimes!None] /\ OfRow(Runtimes!None)
  BY DEF Runtimes!Free, Runtimes!None, OfRow
<1>6. \A s \in RuntimeIds : OfRow(runtime'[s])
  BY <1>3 DEF RuntimesInv
<1>7. \A y \in Operators : held'[y] = [of |-> held'[y].of, row |-> held'[y].row]
                           /\ OfRow(held'[y].row) /\ held'[y].of \in RuntimeIds \cup {"none"}
  BY <1>4, <1>5 DEF RuntimesInv
<1>8. /\ runtime[r].status # "none" /\ held[x].row.status # "none"
      /\ row.mode = runtime[r].mode /\ row.type = runtime[r].type
  BY DEF RuntimesInv, r
<1>9. revoked' \subseteq RuntimeIds /\ overlapped' \subseteq revoked'
  BY <1>2 DEF RuntimesInv, r
<1>10. \A s \in RuntimeIds : /\ runtime'[s].mode = runtime[s].mode
                             /\ runtime'[s].type = runtime[s].type
                             /\ runtime'[s].status = "none" <=> runtime[s].status = "none"
  BY <1>3, <1>8
<1>11. \A y \in Operators : held'[y].of # "none" =>
         /\ held'[y].row.status # "none" /\ runtime'[held'[y].of].status # "none"
         /\ held'[y].row.mode = runtime'[held'[y].of].mode
         /\ held'[y].row.type = runtime'[held'[y].of].type
  BY <1>4, <1>5, <1>10 DEF RuntimesInv
<1>12. \A s \in RuntimeIds :
         /\ runtime'[s].status = "none" => s \notin revoked' /\ verification[s] = "none"
         /\ Minikube(runtime'[s]) => verification[s] # "fail"
  BY <1>8, <1>10 DEF RuntimesInv, Minikube, r
<1>13. ASSUME NEW s \in revoked' \ overlapped'
       PROVE  /\ runtime'[s].revoked
              /\ \A y \in Operators : held'[y].of = s => held'[y].row.revoked
  <2>1. s \in RuntimeIds /\ s # "none"
    BY <1>9, <1>13 DEF RuntimesNamed
  <2>2. CASE s \in revoked \ overlapped
    <3>1. /\ runtime[s].revoked
          /\ \A y \in Operators : held[y].of = s => held[y].row.revoked
      BY <2>2 DEF RuntimesInv
    <3>2. s = r => row.revoked
      BY <3>1 DEF r
    <3> QED BY <1>3, <1>4, <1>5, <2>1, <3>1, <3>2
  <2>3. CASE ~(s \in revoked \ overlapped)
    <3>1. row.revoked /\ s = r /\ Runtimes!Holders(r, x) = {}
      BY <1>13, <2>3 DEF r
    <3>2. \A y \in Operators : y # x => held[y].of # r
      BY <3>1 DEF Runtimes!Holders
    <3> QED BY <1>3, <1>4, <1>5, <2>1, <3>1, <3>2
  <2> QED BY <2>2, <2>3
<1>14. verification' \in [RuntimeIds -> {"none", "pass", "warn", "fail"}]
  BY <1>1 DEF RuntimesInv
<1> QED BY <1>1, <1>3, <1>4, <1>6, <1>7, <1>9, <1>11, <1>12, <1>13, <1>14
        DEF RuntimesInv, OfRow, Minikube

(* An operation lets its copy go, and may leave a report of it.            *)
LEMMA CopyReleased ==
  ASSUME RuntimesNamed, RuntimesInv, NEW x \in Operators,
         held' = [held EXCEPT ![x] = Runtimes!Free],
         UNCHANGED <<runtime, revoked, overlapped>>,
         verification' \in [RuntimeIds -> {"none", "pass", "warn", "fail"}],
         \A r \in RuntimeIds : verification'[r] # verification[r] =>
           runtime[r].status # "none" /\ (Minikube(runtime[r]) => verification'[r] # "fail")
  PROVE  RuntimesInv'
<1>1. /\ held' = [y \in Operators |-> held'[y]]
      /\ \A y \in Operators : held'[y] = IF y = x THEN Runtimes!Free ELSE held[y]
  BY DEF RuntimesInv
<1>2. Runtimes!Free = [of |-> "none", row |-> Runtimes!None] /\ OfRow(Runtimes!None)
  BY DEF Runtimes!Free, Runtimes!None, OfRow
<1>3. \A y \in Operators : held'[y] = [of |-> held'[y].of, row |-> held'[y].row]
                           /\ OfRow(held'[y].row) /\ held'[y].of \in RuntimeIds \cup {"none"}
  BY <1>1, <1>2 DEF RuntimesInv
<1>4. \A y \in Operators : held'[y].of # "none" => held'[y] = held[y]
  BY <1>1, <1>2
<1>5. \A r \in RuntimeIds :
         /\ runtime[r].status = "none" => r \notin revoked /\ verification'[r] = "none"
         /\ Minikube(runtime[r]) => verification'[r] # "fail"
  BY DEF RuntimesInv
<1>6. \A r \in revoked \ overlapped : r # "none" /\ runtime[r].revoked
  BY DEF RuntimesInv, RuntimesNamed
<1>7. \A y \in Operators : held'[y].of # "none" =>
       /\ held'[y].row.status # "none" /\ runtime[held'[y].of].status # "none"
       /\ held'[y].row.mode = runtime[held'[y].of].mode
       /\ held'[y].row.type = runtime[held'[y].of].type
  BY <1>4 DEF RuntimesInv
<1>8. ASSUME NEW r \in revoked \ overlapped, NEW y \in Operators, held'[y].of = r
      PROVE  held'[y].row.revoked
  <2>1. held'[y] = held[y]
    BY <1>4, <1>6, <1>8
  <2>2. held[y].of = r => held[y].row.revoked
    BY DEF RuntimesInv
  <2> QED BY <1>8, <2>1, <2>2
<1>9. /\ runtime' = [r \in RuntimeIds |-> runtime'[r]] /\ \A r \in RuntimeIds : OfRow(runtime'[r])
      /\ revoked' \subseteq RuntimeIds /\ overlapped' \subseteq revoked'
  BY DEF RuntimesInv
<1>10. \A r \in revoked' \ overlapped' :
         /\ runtime'[r].revoked
         /\ \A y \in Operators : held'[y].of = r => held'[y].row.revoked
  BY <1>6, <1>8
<1>11. \A r \in RuntimeIds :
         /\ runtime'[r].status = "none" => r \notin revoked' /\ verification'[r] = "none"
         /\ Minikube(runtime'[r]) => verification'[r] # "fail"
  BY <1>5
<1>12. \A y \in Operators : held'[y].of # "none" =>
         /\ held'[y].row.status # "none" /\ runtime'[held'[y].of].status # "none"
         /\ held'[y].row.mode = runtime'[held'[y].of].mode
         /\ held'[y].row.type = runtime'[held'[y].of].type
  BY <1>7
<1> QED BY <1>1, <1>3, <1>9, <1>10, <1>11, <1>12 DEF RuntimesInv, OfRow, Minikube

(* What passes the preflight of a cluster of its own does not fail the     *)
(* verification of the same summary, and minikube never does.              *)
LEMMA ChecksAgree ==
  ASSUME NEW row, row.mode = "byo"
  PROVE  /\ \A hints \in SUBSET {"cluster-admin", "namespace="} :
              row.type # "cloudrun" /\ Runtimes!Passes(row, hints) =>
                Runtimes!aggregateStatus(Runtimes!Checks(row, hints)) # "fail"
         /\ \A facts : row.type = "minikube" =>
              Runtimes!aggregateStatus(Runtimes!Checks(row, facts)) # "fail"
<1>1. \A facts : "fail" \notin Runtimes!byoMinikubeChecks(row, facts)
  BY DEF Runtimes!byoMinikubeChecks, Runtimes!Check
<1>2. ASSUME NEW hints \in SUBSET {"cluster-admin", "namespace="}, row.type = "gke",
             Runtimes!Passes(row, hints)
      PROVE  "fail" \notin Runtimes!byoGKEChecks(row, hints)
  <2>1. row.reachable /\ "cluster-admin" \notin hints
    BY <1>2 DEF Runtimes!Passes
  <2>2. Runtimes!byoGKEChecks(row, hints)
          = {"pass", Runtimes!Check("namespace=" \in hints, "warn"),
             Runtimes!Check("egress" \in hints, "warn")}
    BY <2>1 DEF Runtimes!byoGKEChecks, Runtimes!Check
  <2> QED BY <2>2 DEF Runtimes!Check
<1>3. \A facts : row.type # "cloudrun" =>
        Runtimes!Checks(row, facts) = IF row.type = "gke" THEN Runtimes!byoGKEChecks(row, facts)
                                      ELSE Runtimes!byoMinikubeChecks(row, facts)
  BY DEF Runtimes!Checks
<1>4. \A S : Runtimes!aggregateStatus(S) = "fail" => "fail" \in S
  BY DEF Runtimes!aggregateStatus
<1> QED BY <1>1, <1>2, <1>3, <1>4

(* Every operation on a runtime keeps it.                                  *)
LEMMA RuntimesStep ==
  ASSUME RuntimesNamed, RuntimesInv, Runtimes!Next
  PROVE  RuntimesInv'
<1>1. ASSUME NEW r \in RuntimeIds, NEW mode, NEW type, NEW reachable, NEW scoped,
             Runtimes!Register(r, mode, type, reachable, scoped)
      PROVE  RuntimesInv'
  <2> DEFINE row == [status |-> "registered", mode |-> mode, type |-> type,
                     reachable |-> reachable, scoped |-> scoped, revoked |-> FALSE]
  <2>1. /\ runtime[r].status = "none" /\ runtime' = [runtime EXCEPT ![r] = row]
        /\ UNCHANGED <<held, revoked, overlapped, verification>>
    BY <1>1 DEF Runtimes!Register
  <2>2. OfRow(row) /\ row.status # "none"
    BY DEF OfRow
  <2> HIDE DEF row
  <2> QED BY <2>1, <2>2, RowArrives
<1>2. ASSUME NEW r \in RuntimeIds, Runtimes!Apply(r) PROVE RuntimesInv'
  BY <1>2 DEF Runtimes!Apply, RuntimesInv, OfRow, Minikube
<1>3. ASSUME NEW r \in RuntimeIds, NEW type, Runtimes!Provision(r, type) PROVE RuntimesInv'
  <2> DEFINE row == [Runtimes!None EXCEPT !.status = "ready", !.mode = "provisioned",
                                          !.type = type, !.reachable = TRUE]
  <2>1. /\ runtime[r].status = "none" /\ runtime' = [runtime EXCEPT ![r] = row]
        /\ UNCHANGED <<held, revoked, overlapped, verification>>
    BY <1>3 DEF Runtimes!Provision
  <2>3. row = [status |-> "ready", mode |-> "provisioned", type |-> type,
               reachable |-> TRUE, scoped |-> FALSE, revoked |-> FALSE]
    <3> DEFINE h == Runtimes!None
    <3>1. OfRow(h) /\ h.scoped = FALSE /\ h.revoked = FALSE
      BY DEF Runtimes!None, OfRow
    <3> HIDE DEF h
    <3>2. row = [h EXCEPT !.status = "ready", !.mode = "provisioned", !.type = type,
                          !.reachable = TRUE]
      BY DEF h
    <3> HIDE DEF row
    <3> QED BY <3>1, <3>2 DEF OfRow
  <2> HIDE DEF row
  <2>2. OfRow(row) /\ row.status # "none"
    BY <2>3 DEF OfRow
  <2> QED BY <2>1, <2>2, RowArrives
<1>4. ASSUME NEW x \in Operators, NEW r \in RuntimeIds, Runtimes!Get(x, r) PROVE RuntimesInv'
  <2>1. /\ runtime[r].status # "none" /\ held[x].of = "none"
        /\ held' = [held EXCEPT ![x] = [of |-> r, row |-> runtime[r]]]
        /\ UNCHANGED <<runtime, revoked, overlapped, verification>>
    BY <1>4 DEF Runtimes!Get
  <2>2. /\ held' = [y \in Operators |-> held'[y]]
        /\ \A y \in Operators : held'[y] = IF y = x THEN [of |-> r, row |-> runtime[r]] ELSE held[y]
    BY <2>1 DEF RuntimesInv
  <2>3. \A y \in Operators :
          /\ held'[y] = [of |-> held'[y].of, row |-> held'[y].row]
          /\ OfRow(held'[y].row) /\ held'[y].of \in RuntimeIds \cup {"none"}
    BY <2>2 DEF RuntimesInv
  <2>4. \A y \in Operators : held'[y].of # "none" =>
          /\ held'[y].row.status # "none" /\ runtime[held'[y].of].status # "none"
          /\ held'[y].row.mode = runtime[held'[y].of].mode
          /\ held'[y].row.type = runtime[held'[y].of].type
    BY <2>1, <2>2 DEF RuntimesInv
  <2>5. \A s \in revoked \ overlapped :
          /\ runtime[s].revoked
          /\ \A y \in Operators : held'[y].of = s => held'[y].row.revoked
    <3> SUFFICES ASSUME NEW s \in revoked \ overlapped
                 PROVE  /\ runtime[s].revoked
                        /\ \A y \in Operators : held'[y].of = s => held'[y].row.revoked
      OBVIOUS
    <3>1. /\ runtime[s].revoked
          /\ \A y \in Operators : held[y].of = s => held[y].row.revoked
      BY DEF RuntimesInv
    <3>2. ASSUME NEW y \in Operators, held'[y].of = s PROVE held'[y].row.revoked
      <4>1. CASE y = x
        BY <2>2, <3>1, <3>2, <4>1
      <4>2. CASE y # x
        BY <2>2, <3>1, <3>2, <4>2
      <4> QED BY <4>1, <4>2
    <3> QED BY <3>1, <3>2
  <2> QED BY <2>1, <2>2, <2>3, <2>4, <2>5, ZenonT(60) DEF RuntimesInv, OfRow, Minikube
<1>5. ASSUME NEW x \in Operators, Runtimes!RunPreflight(x) PROVE RuntimesInv'
  <2>1. PICK hints \in SUBSET Runtimes!Hints :
          Runtimes!Update(x, [Runtimes!Row(x) EXCEPT !.status =
            IF Runtimes!Passes(Runtimes!Row(x), hints) THEN "ready" ELSE "preflight_failed"])
    BY <1>5 DEF Runtimes!RunPreflight
  <2>2. held[x].of # "none" /\ UNCHANGED <<revoked, overlapped>>
    BY <1>5 DEF Runtimes!RunPreflight
  <2> DEFINE s == IF Runtimes!Passes(Runtimes!Row(x), hints) THEN "ready" ELSE "preflight_failed"
             row == [Runtimes!Row(x) EXCEPT !.status = s]
  <2>3. s # "none"
    OBVIOUS
  <2> HIDE DEF s
  <2>4. OfRow(held[x].row)
    BY DEF RuntimesInv
  <2>5. /\ OfRow(row) /\ row.status = s /\ row.mode = held[x].row.mode
        /\ row.type = held[x].row.type /\ row.revoked = held[x].row.revoked
    BY <2>4 DEF OfRow, Runtimes!Row
  <2>6. Runtimes!Update(x, row)
    BY <2>1 DEF s
  <2> HIDE DEF row
  <2> QED BY <2>2, <2>3, <2>5, <2>6, RowReturns
<1>6. ASSUME NEW x \in Operators, Runtimes!Revoke(x) PROVE RuntimesInv'
  <2> DEFINE row == [Runtimes!Row(x) EXCEPT !.revoked = TRUE, !.status = "revoked"]
  <2>1. /\ held[x].of # "none" /\ Runtimes!Update(x, row)
        /\ revoked' = revoked \cup {held[x].of}
        /\ overlapped' = IF Runtimes!Holders(held[x].of, x) = {} THEN overlapped \ {held[x].of}
                         ELSE overlapped \cup {held[x].of}
    BY <1>6 DEF Runtimes!Revoke
  <2> DEFINE h == held[x].row
  <2>2. OfRow(h)
    BY DEF RuntimesInv
  <2>4. row = [status |-> "revoked", mode |-> h.mode, type |-> h.type,
               reachable |-> h.reachable, scoped |-> h.scoped, revoked |-> TRUE]
    <3>1. row = [h EXCEPT !.revoked = TRUE, !.status = "revoked"]
      BY DEF Runtimes!Row
    <3> HIDE DEF h, row
    <3> QED BY <2>2, <3>1 DEF OfRow
  <2> HIDE DEF row
  <2>3. /\ OfRow(row) /\ row.status # "none" /\ row.mode = held[x].row.mode
        /\ row.type = held[x].row.type /\ row.revoked
    BY <2>4 DEF OfRow
  <2> QED BY <2>1, <2>3, RowReturns
<1>7. ASSUME NEW x \in Operators, Runtimes!Destroy(x) PROVE RuntimesInv'
  <2> DEFINE row == [Runtimes!Row(x) EXCEPT !.status = "destroyed"]
  <2>1. held[x].of # "none" /\ Runtimes!Update(x, row) /\ UNCHANGED <<revoked, overlapped>>
    BY <1>7 DEF Runtimes!Destroy
  <2>2. OfRow(held[x].row)
    BY DEF RuntimesInv
  <2>3. /\ OfRow(row) /\ row.status # "none" /\ row.mode = held[x].row.mode
        /\ row.type = held[x].row.type /\ row.revoked = held[x].row.revoked
    BY <2>2 DEF OfRow, Runtimes!Row
  <2> HIDE DEF row
  <2> QED BY <2>1, <2>3, RowReturns
<1>8. ASSUME NEW x \in Operators, Runtimes!RunVerify(x) PROVE RuntimesInv'
  <2>1. PICK facts :
          verification' = [verification EXCEPT ![held[x].of] =
            Runtimes!aggregateStatus(Runtimes!Checks(Runtimes!Row(x), facts))]
    BY <1>8 DEF Runtimes!RunVerify
  <2>2. /\ held[x].of # "none" /\ held' = [held EXCEPT ![x] = Runtimes!Free]
        /\ UNCHANGED <<runtime, revoked, overlapped>>
    BY <1>8 DEF Runtimes!RunVerify
  <2> DEFINE v == Runtimes!aggregateStatus(Runtimes!Checks(Runtimes!Row(x), facts))
  <2>3. v \in {"pass", "warn", "fail"}
    BY DEF Runtimes!aggregateStatus
  <2>4. Minikube(held[x].row) => v # "fail"
    BY ChecksAgree DEF Minikube, Runtimes!Row
  <2> HIDE DEF v
  <2>5. /\ held[x].of \in RuntimeIds /\ runtime[held[x].of].status # "none"
        /\ held[x].row.mode = runtime[held[x].of].mode
        /\ held[x].row.type = runtime[held[x].of].type
    BY <2>2 DEF RuntimesInv
  <2>6. verification' = [verification EXCEPT ![held[x].of] = v]
    BY <2>1 DEF v
  <2>7. verification' \in [RuntimeIds -> {"none", "pass", "warn", "fail"}]
    BY <2>3, <2>5, <2>6 DEF RuntimesInv
  <2>8. \A r \in RuntimeIds : verification'[r] # verification[r] =>
          runtime[r].status # "none" /\ (Minikube(runtime[r]) => verification'[r] # "fail")
    BY <2>4, <2>5, <2>6 DEF RuntimesInv, Minikube
  <2> QED BY <2>2, <2>7, <2>8, CopyReleased
<1>9. ASSUME NEW x \in Operators, Runtimes!LetGo(x) PROVE RuntimesInv'
  <2>1. /\ held' = [held EXCEPT ![x] = Runtimes!Free]
        /\ UNCHANGED <<runtime, revoked, overlapped, verification>>
    BY <1>9 DEF Runtimes!LetGo
  <2>2. verification' \in [RuntimeIds -> {"none", "pass", "warn", "fail"}]
    BY <2>1 DEF RuntimesInv
  <2> QED BY <2>1, <2>2, CopyReleased
<1> QED BY <1>1, <1>2, <1>3, <1>4, <1>5, <1>6, <1>7, <1>8, <1>9 DEF Runtimes!Next

(* What Services_proofs takes of runtime-registry: the invariant holds at  *)
(* first, every step keeps it, and it implies what is promised.            *)
LEMMA RuntimesAlways ==
  ASSUME RuntimesNamed
  PROVE  /\ Runtimes!Init => RuntimesInv
         /\ RuntimesInv /\ [Runtimes!Next]_(Runtimes!runtimes) => RuntimesInv'
         /\ RuntimesInv => Runtimes!RevocationHolds /\ Runtimes!VerifyAgrees
<1>1. ASSUME Runtimes!Init PROVE RuntimesInv
  <2>1. OfRow(Runtimes!None) /\ Runtimes!None.status = "none" /\ ~Minikube(Runtimes!None)
        /\ Runtimes!Free = [of |-> "none", row |-> Runtimes!None]
    BY DEF OfRow, Minikube, Runtimes!None, Runtimes!Free
  <2> QED BY <1>1, <2>1 DEF Runtimes!Init, RuntimesInv
<1>2. ASSUME RuntimesInv, UNCHANGED Runtimes!runtimes PROVE RuntimesInv'
  BY <1>2 DEF Runtimes!runtimes, RuntimesInv, OfRow, Minikube
<1>3. ASSUME RuntimesInv PROVE Runtimes!RevocationHolds
  BY <1>3 DEF RuntimesInv, Runtimes!RevocationHolds, Runtimes!Usable, Runtimes!Row
<1>4. ASSUME RuntimesInv PROVE Runtimes!VerifyAgrees
  <2>1. \A r \in RuntimeIds :
          runtime[r].mode = "byo" /\ runtime[r].type = "minikube" => verification[r] # "fail"
    BY <1>4 DEF RuntimesInv, Minikube
  <2> QED BY <2>1, ChecksAgree DEF Runtimes!VerifyAgrees
<1> QED BY <1>1, <1>2, <1>3, <1>4, RuntimesStep

-----------------------------------------------------------------------------
(* workflow-registry.  A version is three numbers and a pre-release.       *)
SemVer == [major : Nat, minor : Nat, patch : Nat, pre : {"final", "rc"}]

VersionsNumbered == SemVers \subseteq SemVer

Publication == [version : SemVers, content : Contents]

WorkflowsInv ==
  /\ published \in [WorkflowNames -> Seq(Publication)]
  /\ latest = [w \in WorkflowNames |-> latest[w]]
  /\ Workflows!MajorLineServes

(* Versions are ordered, and the next one comes after, on a major line of  *)
(* its own when the difference asks for it.                                *)
LEMMA VersionsOrdered ==
  ASSUME NEW a \in SemVer, NEW b \in SemVer, NEW c \in SemVer
  PROVE  /\ Workflows!Less(a, b) /\ Workflows!Less(b, c) => Workflows!Less(a, c)
         /\ Workflows!Less(a, b) /\ ~Workflows!Less(c, b) => Workflows!Less(a, c)
         /\ Workflows!Less(a, b) => a.major <= b.major
         /\ ~Workflows!Less(a, a) /\ a # Workflows!None /\ a.major \in Nat
<1>1. \A v \in SemVer : v.major \in Nat /\ v.minor \in Nat /\ v.patch \in Nat /\ v.pre \in {"final", "rc"}
  BY DEF SemVer
<1>2. /\ a.major \in Nat /\ a.minor \in Nat /\ a.patch \in Nat
      /\ b.major \in Nat /\ b.minor \in Nat /\ b.patch \in Nat
      /\ c.major \in Nat /\ c.minor \in Nat /\ c.patch \in Nat
      /\ a.pre \in {"final", "rc"} /\ b.pre \in {"final", "rc"} /\ c.pre \in {"final", "rc"}
  BY <1>1
<1> DEFINE a1 == a.major  a2 == a.minor  a3 == a.patch  a4 == a.pre = "rc"
           b1 == b.major  b2 == b.minor  b3 == b.patch  b4 == b.pre = "rc"
           c1 == c.major  c2 == c.minor  c3 == c.patch  c4 == c.pre = "rc"
<1>3. /\ a1 \in Nat /\ a2 \in Nat /\ a3 \in Nat /\ b1 \in Nat /\ b2 \in Nat /\ b3 \in Nat
      /\ c1 \in Nat /\ c2 \in Nat /\ c3 \in Nat
  BY <1>2
<1>4. /\ Workflows!Less(a, b) <=>
         (a1 < b1 \/ (a1 = b1 /\ a2 < b2) \/ (a1 = b1 /\ a2 = b2 /\ a3 < b3)
          \/ (a1 = b1 /\ a2 = b2 /\ a3 = b3 /\ a4 /\ ~b4))
      /\ Workflows!Less(b, c) <=>
         (b1 < c1 \/ (b1 = c1 /\ b2 < c2) \/ (b1 = c1 /\ b2 = c2 /\ b3 < c3)
          \/ (b1 = c1 /\ b2 = c2 /\ b3 = c3 /\ b4 /\ ~c4))
      /\ Workflows!Less(c, b) <=>
         (c1 < b1 \/ (c1 = b1 /\ c2 < b2) \/ (c1 = b1 /\ c2 = b2 /\ c3 < b3)
          \/ (c1 = b1 /\ c2 = b2 /\ c3 = b3 /\ c4 /\ ~b4))
      /\ Workflows!Less(a, c) <=>
         (a1 < c1 \/ (a1 = c1 /\ a2 < c2) \/ (a1 = c1 /\ a2 = c2 /\ a3 < c3)
          \/ (a1 = c1 /\ a2 = c2 /\ a3 = c3 /\ a4 /\ ~c4))
  BY <1>2 DEF Workflows!Less
<1> HIDE DEF a1, a2, a3, a4, b1, b2, b3, b4, c1, c2, c3, c4
<1>5. Workflows!Less(a, b) /\ Workflows!Less(b, c) => Workflows!Less(a, c)
  BY <1>3, <1>4
<1>6. Workflows!Less(a, b) /\ ~Workflows!Less(c, b) => Workflows!Less(a, c)
  BY <1>3, <1>4
<1>7. Workflows!Less(a, b) => a1 <= b1
  BY <1>3, <1>4
<1>8. ~Workflows!Less(a, a) /\ a # Workflows!None
  <2>1. a.pre # "none"
    BY <1>2
  <2>2. Workflows!None.pre = "none"
    BY DEF Workflows!None
  <2>3. a # Workflows!None
    BY <2>1, <2>2
  <2>4. ~(a1 < a1) /\ ~(a2 < a2) /\ ~(a3 < a3) /\ ~(a4 /\ a.pre = "final")
    BY <1>3 DEF a4
  <2>5. ~Workflows!Less(a, a)
    BY <2>4, Zenon DEF Workflows!Less, a1, a2, a3, a4
  <2> QED BY <2>3, <2>5
<1> QED BY <1>2, <1>5, <1>6, <1>7, <1>8 DEF a1, b1

(* MinNextVersion comes after its version, and on a line of its own when   *)
(* the bump is major.                                                      *)
LEMMA NextVersion ==
  ASSUME NEW a \in SemVer, NEW bump
  PROVE  /\ Workflows!MinNextVersion(a, bump) \in SemVer
         /\ Workflows!Less(a, Workflows!MinNextVersion(a, bump))
         /\ bump = "major" => \A v \in SemVer :
              ~Workflows!Less(v, Workflows!MinNextVersion(a, bump)) => v.major > a.major
<1> DEFINE m == Workflows!MinNextVersion(a, bump)
<1> SUFFICES /\ m \in SemVer /\ Workflows!Less(a, m)
             /\ bump = "major" => \A v \in SemVer : ~Workflows!Less(v, m) => v.major > a.major
  OBVIOUS
<1>1. CASE bump = "major"
  <2>1. m = [major |-> a.major + 1, minor |-> 0, patch |-> 0, pre |-> "final"]
    BY <1>1 DEF Workflows!MinNextVersion
  <2> HIDE DEF m
  <2>2. /\ m.major = a.major + 1 /\ m.minor = 0 /\ m.patch = 0 /\ m.pre = "final"
        /\ a.major \in Nat /\ a.minor \in Nat /\ a.patch \in Nat
    BY <2>1 DEF SemVer
  <2>3. m \in SemVer
    BY <2>1, <2>2 DEF SemVer
  <2>4. Workflows!Less(a, m)
    BY <2>2 DEF Workflows!Less
  <2>5. ASSUME NEW v \in SemVer, ~Workflows!Less(v, m) PROVE v.major > a.major
    <3>1. v.major \in Nat
      BY VersionsOrdered
    <3>2. ~(v.major < m.major)
      BY <2>5, Zenon DEF Workflows!Less
    <3> QED BY <2>2, <3>1, <3>2
  <2> QED BY <2>3, <2>4, <2>5
<1>2. CASE bump = "minor"
  <2>1. m = [major |-> a.major, minor |-> a.minor + 1, patch |-> 0, pre |-> "final"]
    BY <1>2 DEF Workflows!MinNextVersion, SemVer
  <2> HIDE DEF m
  <2>2. /\ m.major = a.major /\ m.minor = a.minor + 1 /\ m.patch = 0 /\ m.pre = "final"
        /\ a.major \in Nat /\ a.minor \in Nat /\ a.patch \in Nat
    BY <2>1 DEF SemVer
  <2>3. m \in SemVer
    BY <2>1, <2>2 DEF SemVer
  <2>4. Workflows!Less(a, m)
    BY <2>2 DEF Workflows!Less
  <2> QED BY <1>2, <2>3, <2>4
<1>3. CASE bump \notin {"major", "minor"}
  <2>1. m = [major |-> a.major, minor |-> a.minor, patch |-> a.patch + 1, pre |-> "final"]
    BY <1>3 DEF Workflows!MinNextVersion, SemVer
  <2> HIDE DEF m
  <2>2. /\ m.major = a.major /\ m.minor = a.minor /\ m.patch = a.patch + 1 /\ m.pre = "final"
        /\ a.major \in Nat /\ a.minor \in Nat /\ a.patch \in Nat
    BY <2>1 DEF SemVer
  <2>3. m \in SemVer
    BY <2>1, <2>2 DEF SemVer
  <2>4. Workflows!Less(a, m)
    BY <2>2 DEF Workflows!Less
  <2> QED BY <1>3, <2>3, <2>4
<1> QED BY <1>1, <1>2, <1>3

(* A publication has its version and its content; of two of a workflow the *)
(* later is greater, and serves where the line is the same.                *)
LEMMA PublicationFields ==
  ASSUME VersionsNumbered, NEW e \in Publication
  PROVE  /\ e = [version |-> e.version, content |-> e.content]
         /\ e.version \in SemVers /\ e.version \in SemVer /\ e.content \in Contents
<1>1. e = [version |-> e.version, content |-> e.content] /\ e.version \in SemVers /\ e.content \in Contents
  BY DEF Publication
<1> QED BY <1>1, Zenon DEF VersionsNumbered

(* Of two versions on one line the later serves.                           *)
LEMMA LaterServes ==
  ASSUME WorkflowsInv, NEW w \in WorkflowNames,
         NEW i \in DOMAIN published[w], NEW j \in DOMAIN published[w], i < j
  PROVE  /\ Workflows!Less(published[w][i].version, published[w][j].version)
         /\ published[w][i].version.major = published[w][j].version.major =>
              Workflows!StillServes(published[w][i].content, published[w][j].content)
BY Zenon DEF WorkflowsInv, Workflows!MajorLineServes

(* What latest holds is the last publication.                              *)
LEMMA LatestIs ==
  ASSUME WorkflowsInv, NEW w \in WorkflowNames
  PROVE  latest[w] = IF published[w] = <<>> THEN Workflows!None
                     ELSE published[w][Len(published[w])].version
BY Zenon DEF WorkflowsInv, Workflows!MajorLineServes, Workflows!Last

(* What is no major change serves, and serving goes on.                    *)
LEMMA MinorServes ==
  ASSUME NEW p, NEW n, Workflows!DiffWorkflows(p, n) # "major"
  PROVE  Workflows!StillServes(p, n)
<1>1. ~Workflows!IsMajor(p, n)
  BY DEF Workflows!DiffWorkflows
<1> SUFFICES ASSUME NEW k \in Workflows!Parts, NEW x \in DOMAIN p[k]
             PROVE  /\ x \in DOMAIN n[k]
                    /\ n[k][x].type = p[k][x].type \/ Workflows!Alias(p, n, k, x)
                    /\ k = "inputs" /\ n[k][x].required => p[k][x].required
                    /\ k \in {"steps", "triggers"} /\ (k = "triggers" \/ p[k][x].type = "llm") =>
                         p[k][x].fields \subseteq n[k][x].fields
  BY DEF Workflows!StillServes
<1>2. x \in DOMAIN n[k] /\ x \in Workflows!Kept(p, n, k)
  BY <1>1, Zenon DEF Workflows!IsMajor, Workflows!Gone, Workflows!Kept
<1>3. /\ p[k][x].type = n[k][x].type \/ Workflows!Alias(p, n, k, x)
      /\ ~(k = "inputs" /\ ~p[k][x].required /\ n[k][x].required)
      /\ ~(k \in {"steps", "triggers"} /\ Workflows!Compares(p, n, k, x)
           /\ ~(p[k][x].fields \subseteq n[k][x].fields))
  BY <1>1, <1>2, Zenon DEF Workflows!IsMajor
<1>4. Workflows!Alias(p, n, k, x) => p[k][x].type # "llm"
  BY DEF Workflows!Alias
<1>5. k = "triggers" \/ p[k][x].type = "llm" => k = "triggers" \/ Workflows!Compares(p, n, k, x)
  BY <1>3, <1>4 DEF Workflows!Compares
<1>6. k = "triggers" => Workflows!Compares(p, n, k, x)
  BY DEF Workflows!Compares
<1> QED BY <1>2, <1>3, <1>5, <1>6, Zenon

(* What serves what serves the first, serves the first.                    *)
LEMMA ServesOn ==
  ASSUME NEW a, NEW b, NEW c, Workflows!StillServes(a, b), Workflows!StillServes(b, c)
  PROVE  Workflows!StillServes(a, c)
<1> SUFFICES ASSUME NEW k \in Workflows!Parts, NEW x \in DOMAIN a[k]
             PROVE  /\ x \in DOMAIN c[k]
                    /\ c[k][x].type = a[k][x].type \/ Workflows!Alias(a, c, k, x)
                    /\ k = "inputs" /\ c[k][x].required => a[k][x].required
                    /\ k \in {"steps", "triggers"} /\ (k = "triggers" \/ a[k][x].type = "llm") =>
                         a[k][x].fields \subseteq c[k][x].fields
  BY DEF Workflows!StillServes
<1>1. /\ x \in DOMAIN b[k]
      /\ b[k][x].type = a[k][x].type \/ Workflows!Alias(a, b, k, x)
      /\ k = "inputs" /\ b[k][x].required => a[k][x].required
      /\ k \in {"steps", "triggers"} /\ (k = "triggers" \/ a[k][x].type = "llm") =>
           a[k][x].fields \subseteq b[k][x].fields
  BY DEF Workflows!StillServes
<1>2. /\ x \in DOMAIN c[k]
      /\ c[k][x].type = b[k][x].type \/ Workflows!Alias(b, c, k, x)
      /\ k = "inputs" /\ c[k][x].required => b[k][x].required
      /\ k \in {"steps", "triggers"} /\ (k = "triggers" \/ b[k][x].type = "llm") =>
           b[k][x].fields \subseteq c[k][x].fields
  BY <1>1 DEF Workflows!StillServes
<1>3. c[k][x].type = a[k][x].type \/ Workflows!Alias(a, c, k, x)
  BY <1>1, <1>2 DEF Workflows!Alias
<1>4. a[k][x].type = "llm" => b[k][x].type = "llm"
  BY <1>1 DEF Workflows!Alias
<1> QED BY <1>1, <1>2, <1>3, <1>4, Zenon

(* The version that is compared is the last one.                           *)
LEMMA PreviousIsLast ==
  ASSUME VersionsNumbered, WorkflowsInv, NEW w \in WorkflowNames, latest[w] # Workflows!None
  PROVE  LET L == Len(published[w])
         IN  /\ L \in DOMAIN published[w] /\ latest[w] = published[w][L].version
             /\ Workflows!Previous(w) = published[w][L].content
<1> DEFINE s == published[w]
           L == Len(s)
<1>1. s \in Seq(Publication)
  BY DEF WorkflowsInv
<1>2. s # <<>> /\ latest[w] = s[L].version
  BY LatestIs, Zenon
<1>3. L \in DOMAIN s /\ L \in Nat /\ L > 0 /\ DOMAIN s = 1..L
  BY <1>1, <1>2
<1>4. \A i \in DOMAIN s : s[i] \in Publication /\ s[i] = [version |-> s[i].version, content |-> s[i].content]
  BY <1>1, PublicationFields
<1>5. \A i \in DOMAIN s : i # L => s[i].version # s[L].version
  <2> SUFFICES ASSUME NEW i \in DOMAIN s, i # L PROVE s[i].version # s[L].version
    OBVIOUS
  <2>1. Workflows!Less(s[i].version, s[L].version)
    <3>1. i < L
      BY <1>3
    <3> QED BY <1>3, <3>1, LaterServes, Zenon
  <2>2. s[L].version \in SemVer
    BY <1>3, <1>4, PublicationFields
  <2>3. ~Workflows!Less(s[L].version, s[L].version)
    BY <2>2, VersionsOrdered
  <2> QED BY <2>1, <2>3
<1> HIDE DEF s, L
<1>6. \A c : (\E i \in DOMAIN s : s[i] = [version |-> latest[w], content |-> c]) <=> c = s[L].content
  <2>1. ASSUME NEW c, NEW i \in DOMAIN s, s[i] = [version |-> latest[w], content |-> c]
        PROVE  c = s[L].content
    <3>1. s[i].version = s[L].version /\ s[i].content = c
      BY <1>2, <2>1
    <3> QED BY <1>3, <1>5, <3>1
  <2>2. s[L] = [version |-> latest[w], content |-> s[L].content]
    BY <1>2, <1>3, <1>4
  <2> QED BY <1>3, <2>1, <2>2
<1>7. s[L].content \in Contents
  BY <1>3, <1>4, PublicationFields
<1>8. Workflows!Previous(w) = CHOOSE c \in Contents : c = s[L].content
  BY <1>6 DEF Workflows!Previous, s
<1> QED BY <1>2, <1>3, <1>7, <1>8 DEF s, L

(* What is published comes after the last version and serves on its line.  *)
LEMMA AdmitsServes ==
  ASSUME VersionsNumbered, WorkflowsInv, NEW w \in WorkflowNames, NEW c \in Contents,
         NEW requested, NEW autoBump, Workflows!Admits(w, c, requested, autoBump),
         latest[w] # Workflows!None
  PROVE  LET v == Workflows!Final(w, c, requested, autoBump)
             L == Len(published[w])
         IN  /\ Workflows!Less(published[w][L].version, v)
             /\ published[w][L].version.major = v.major =>
                  Workflows!StillServes(published[w][L].content, c)
<1> DEFINE v == Workflows!Final(w, c, requested, autoBump)
           old == published[w][Len(published[w])]
           bump == Workflows!DiffWorkflows(old.content, c)
           m == Workflows!MinNextVersion(old.version, bump)
<1>1. /\ latest[w] = old.version /\ Workflows!Previous(w) = old.content
      /\ Len(published[w]) \in DOMAIN published[w]
  BY PreviousIsLast
<1>2. old \in Publication /\ old.version \in SemVer
  <2> DEFINE s == published[w]
  <2>1. s \in Seq(Publication)
    BY DEF WorkflowsInv
  <2>2. Len(s) \in DOMAIN s /\ old = s[Len(s)]
    BY <1>1
  <2> HIDE DEF s, old
  <2>3. old \in Publication
    BY <2>1, <2>2
  <2> QED BY <2>3, PublicationFields
<1>3. v \in SemVer
  BY DEF Workflows!Admits, VersionsNumbered
<1>4. ~Workflows!Less(v, m) /\ m \in SemVer
  <2>1. m \in SemVer
    BY <1>2, NextVersion
  <2>2. CASE autoBump
    <3>1. v = m
      BY <1>1, <2>2 DEF Workflows!Final
    <3>2. ~Workflows!Less(m, m)
      BY <2>1, VersionsOrdered
    <3> QED BY <2>1, <3>1, <3>2
  <2>3. CASE ~autoBump
    BY <1>1, <2>1, <2>3 DEF Workflows!Admits
  <2> QED BY <2>2, <2>3
<1>5. Workflows!Less(old.version, m)
  BY <1>2, NextVersion
<1>6. bump = "major" => v.major > old.version.major
  BY <1>2, <1>3, <1>4, NextVersion
<1>7. bump # "major" => Workflows!StillServes(old.content, c)
  BY MinorServes
<1> HIDE DEF v, old, bump, m
<1>8. Workflows!Less(old.version, v)
  BY <1>2, <1>3, <1>4, <1>5, VersionsOrdered
<1>9. v.major = old.version.major => bump # "major"
  <2>1. v.major \in Nat /\ old.version.major \in Nat
    BY <1>2, <1>3, VersionsOrdered
  <2> QED BY <1>6, <2>1
<1> QED BY <1>7, <1>8, <1>9 DEF v, old

(* A publication that is admitted keeps it.                                *)
LEMMA PublishStep ==
  ASSUME VersionsNumbered, WorkflowsInv, NEW w \in WorkflowNames, NEW c \in Contents,
         NEW requested, NEW autoBump, Workflows!Admits(w, c, requested, autoBump),
         Workflows!Publish(w, c, requested, autoBump)
  PROVE  WorkflowsInv'
<1> DEFINE v == Workflows!Final(w, c, requested, autoBump)
           e == [version |-> v, content |-> c]
           L == Len(published[w])
<1>1. /\ published' = [published EXCEPT ![w] = Append(published[w], e)]
      /\ latest' = [latest EXCEPT ![w] = v]
  BY DEF Workflows!Publish
<1>2. v \in SemVers
  BY DEF Workflows!Admits
<1>3. e \in Publication /\ e.version = v /\ e.content = c
  BY <1>2 DEF Publication
<1>4. published \in [WorkflowNames -> Seq(Publication)] /\ latest = [x \in WorkflowNames |-> latest[x]]
  BY DEF WorkflowsInv
<1>5. published[w] # <<>> => /\ Workflows!Less(published[w][L].version, v)
                             /\ published[w][L].version.major = v.major =>
                                  Workflows!StillServes(published[w][L].content, c)
  <2>1. ASSUME published[w] # <<>> PROVE latest[w] # Workflows!None
    <3>1. L \in DOMAIN published[w] /\ latest[w] = published[w][L].version
      BY <1>4, <2>1, LatestIs
    <3>2. published[w][L] \in Publication
      <4> DEFINE s == published[w]
      <4>1. s \in Seq(Publication) /\ L \in DOMAIN s
        BY <1>4, <3>1
      <4> HIDE DEF s, L
      <4> QED BY <4>1 DEF s
    <3>3. latest[w] \in SemVer
      BY <3>1, <3>2, PublicationFields
    <3> QED BY <3>3, VersionsOrdered
  <2> QED BY <2>1, AdmitsServes
<1> HIDE DEF v, e, L
<1>6. /\ published' \in [WorkflowNames -> Seq(Publication)]
      /\ latest' = [x \in WorkflowNames |-> latest'[x]]
      /\ published'[w] = Append(published[w], e) /\ latest'[w] = v
      /\ \A x \in WorkflowNames : x # w => published'[x] = published[x] /\ latest'[x] = latest[x]
  <2> DEFINE a == Append(published[w], e)
  <2>1. a \in Seq(Publication)
    BY <1>3, <1>4
  <2>2. published' = [published EXCEPT ![w] = a]
    BY <1>1
  <2> HIDE DEF a
  <2>3. published' \in [WorkflowNames -> Seq(Publication)]
    BY <1>4, <2>1, <2>2
  <2>4. published'[w] = a /\ \A x \in WorkflowNames : x # w => published'[x] = published[x]
    BY <1>4, <2>2
  <2>5. /\ latest' = [x \in WorkflowNames |-> latest'[x]]
        /\ latest'[w] = v /\ \A x \in WorkflowNames : x # w => latest'[x] = latest[x]
    BY <1>1, <1>4
  <2> QED BY <2>3, <2>4, <2>5 DEF a
<1>7. /\ DOMAIN published[w] = 1..L /\ L \in Nat
      /\ DOMAIN published'[w] = 1..(L + 1) /\ published'[w][L + 1] = e
      /\ \A i \in 1..L : published'[w][i] = published[w][i] /\ published[w][i] \in Publication
      /\ Len(published'[w]) = L + 1 /\ published'[w] # <<>>
      /\ L > 0 => published[w] # <<>>
  BY <1>3, <1>4, <1>6 DEF L
<1>8. \A i \in 1..L : published[w][i].version \in SemVer
  BY <1>7, PublicationFields
<1>9. v \in SemVer
  BY <1>2 DEF VersionsNumbered
<1>10. ASSUME NEW i \in 1..(L + 1), NEW j \in 1..(L + 1), i < j
       PROVE  /\ Workflows!Less(published'[w][i].version, published'[w][j].version)
              /\ published'[w][i].version.major = published'[w][j].version.major =>
                   Workflows!StillServes(published'[w][i].content, published'[w][j].content)
  <2>1. CASE j # L + 1
    <3>1. i \in 1..L /\ j \in 1..L
      BY <1>7, <1>10, <2>1
    <3>2. /\ Workflows!Less(published[w][i].version, published[w][j].version)
          /\ published[w][i].version.major = published[w][j].version.major =>
               Workflows!StillServes(published[w][i].content, published[w][j].content)
      BY <1>7, <1>10, <3>1, LaterServes
    <3> QED BY <1>7, <3>1, <3>2
  <2>2. CASE j = L + 1
    <3>1. i \in 1..L /\ L \in 1..L /\ L > 0
      BY <1>7, <1>10, <2>2
    <3>2. /\ Workflows!Less(published[w][L].version, v)
          /\ published[w][L].version.major = v.major =>
               Workflows!StillServes(published[w][L].content, c)
      BY <1>5, <1>7, <3>1
    <3>3. CASE i = L
      BY <1>3, <1>7, <2>2, <3>1, <3>2, <3>3
    <3>4. CASE i # L
      <4>1. /\ Workflows!Less(published[w][i].version, published[w][L].version)
            /\ published[w][i].version.major = published[w][L].version.major =>
                 Workflows!StillServes(published[w][i].content, published[w][L].content)
        <5>1. i < L
          BY <1>7, <3>1, <3>4
        <5> QED BY <1>7, <3>1, <5>1, LaterServes
      <4>2. /\ Workflows!Less(published[w][i].version, v)
            /\ published[w][i].version.major <= published[w][L].version.major
            /\ published[w][L].version.major <= v.major
        BY <1>8, <1>9, <3>1, <3>2, <4>1, VersionsOrdered
      <4>3. published[w][i].version.major = v.major =>
              Workflows!StillServes(published[w][i].content, c)
        <5>1. /\ published[w][i].version.major \in Nat /\ published[w][L].version.major \in Nat
              /\ v.major \in Nat
          BY <1>8, <1>9, <3>1, VersionsOrdered
        <5> QED BY <3>2, <4>1, <4>2, <5>1, ServesOn
      <4> QED BY <1>3, <1>7, <2>2, <3>1, <4>2, <4>3
    <3> QED BY <3>3, <3>4
  <2> QED BY <2>1, <2>2
<1>11. latest'[w] = Workflows!Last(published'[w]).version
  BY <1>3, <1>6, <1>7 DEF Workflows!Last
<1>12. Workflows!MajorLineServes'
  <2> SUFFICES ASSUME NEW x \in WorkflowNames
               PROVE  /\ \A i, j \in DOMAIN published'[x] :
                           i < j => /\ Workflows!Less(published'[x][i].version, published'[x][j].version)
                                    /\ published'[x][i].version.major = published'[x][j].version.major =>
                                         Workflows!StillServes(published'[x][i].content, published'[x][j].content)
                      /\ latest'[x] = IF published'[x] = <<>> THEN Workflows!None
                                      ELSE Workflows!Last(published'[x]).version
    BY DEF Workflows!MajorLineServes
  <2>1. CASE x = w
    BY <1>7, <1>10, <1>11, <2>1
  <2>2. CASE x # w
    BY <1>6, <2>2 DEF WorkflowsInv, Workflows!MajorLineServes
  <2> QED BY <2>1, <2>2
<1> QED BY <1>6, <1>12 DEF WorkflowsInv

(* What Services_proofs takes of workflow-registry: the invariant holds at *)
(* first, every step keeps it, and it implies what is promised.            *)
LEMMA WorkflowsAlways ==
  ASSUME VersionsNumbered
  PROVE  /\ Workflows!Init => WorkflowsInv
         /\ WorkflowsInv /\ [Workflows!Next]_(Workflows!workflowRegistry) => WorkflowsInv'
         /\ WorkflowsInv => Workflows!MajorLineServes
<1>1. ASSUME Workflows!Init PROVE WorkflowsInv
  BY <1>1 DEF Workflows!Init, WorkflowsInv, Workflows!MajorLineServes
<1>2. ASSUME WorkflowsInv, UNCHANGED <<published, latest>> PROVE WorkflowsInv'
  BY <1>2 DEF WorkflowsInv, Workflows!MajorLineServes
<1>3. ASSUME WorkflowsInv, Workflows!Next PROVE WorkflowsInv'
  <2>1. ASSUME NEW w \in WorkflowNames, NEW c \in Contents, NEW v \in SemVers,
               Workflows!SeedOne(w, c, v)
        PROVE  WorkflowsInv'
    <3>1. CASE Workflows!Admits(w, c, v, FALSE)
      <4>1. Workflows!Publish(w, c, v, FALSE)
        BY <2>1, <3>1 DEF Workflows!SeedOne
      <4> QED BY <1>3, <3>1, <4>1, PublishStep
    <3>2. CASE ~Workflows!Admits(w, c, v, FALSE)
      BY <1>2, <1>3, <2>1, <3>2 DEF Workflows!SeedOne
    <3> QED BY <3>1, <3>2
  <2>2. ASSUME NEW w \in WorkflowNames, NEW c \in Contents, NEW v \in SemVers,
               NEW autoBump \in BOOLEAN, Workflows!PublishVersion(w, c, v, autoBump)
        PROVE  WorkflowsInv'
    BY <1>3, <2>2, PublishStep DEF Workflows!PublishVersion
  <2> QED BY <1>2, <1>3, <2>1, <2>2
          DEF Workflows!Next, Workflows!Listen, Workflows!CreateWorkflow
<1>4. WorkflowsInv => Workflows!MajorLineServes
  BY DEF WorkflowsInv
<1>5. UNCHANGED Workflows!workflowRegistry => UNCHANGED <<published, latest>>
  BY DEF Workflows!workflowRegistry
<1> QED BY <1>1, <1>2, <1>3, <1>4, <1>5

-----------------------------------------------------------------------------
(* registry.  A request that goes on is about a version that has a row; a  *)
(* row is approved above T0 only when it was so at some time, and one that *)
(* is about to be published was.                                           *)
RequestsCounted == Registry!NoHash \notin Requests

AssetRow == [state : Registry!States, trust : {"T0", "T1"}, origin : BOOLEAN,
             published : BOOLEAN, digest : Requests \cup {Registry!NoHash}]
Moving == [pc : {"reverify", "refresh", "update", "unpublish"}, v : Versions,
           to : Registry!States, trust : {"T0", "T1"}, ack : BOOLEAN, hash : Nat]
Scan == [pc : {"rows", "refresh"}, hash : Nat, live : Nat,
         row : Versions \cup {Registry!NoHash}, queue : SUBSET Versions,
         approved : SUBSET Versions, later : SUBSET Versions]

RegistryRows ==
  /\ asset = [v \in Versions |-> asset[v]]
  /\ \A v \in Versions : v \in Registry!Stored => asset[v] \in AssetRow
  /\ \A v \in Versions : asset[v].state = "approved" /\ asset[v].trust # "T0" => v \in trusted
  /\ \A v \in Versions : v \in Registry!Stored /\ asset[v].published => v \in trusted

RegistryPackages ==
  /\ package \in [Versions -> Requests \cup {Registry!NoHash}]
  /\ family = "skill" => \A v \in Versions :
       /\ v \notin Registry!Stored => package[v] = Registry!NoHash
       /\ v \in Registry!Stored => asset[v].digest = package[v]
       /\ v \in Registry!Stored /\ asset[v].published => package[v] # Registry!NoHash

RegistryRequests ==
  /\ req = [r \in Requests |-> req[r]]
  /\ \A r \in Requests :
       /\ req[r].pc \in {"reverify", "refresh", "update", "unpublish"} =>
            req[r] \in Moving /\ req[r].v \in Registry!Stored
       /\ req[r].pc = "publish" => req[r].v \in trusted \cap Registry!Stored
       /\ req[r].pc = "mirror" => req[r].v \in Versions

(* What was approved before a pass read its rows was approved with the     *)
(* hash it read, and is deprecated unless the endpoint still has it.       *)
RegistryScan ==
  /\ endpoint \in Nat /\ live \in Nat
  /\ reviewed = [v \in Versions |-> reviewed[v]]
  /\ \A v \in Versions : reviewed[v] # Registry!NoHash => v \in Registry!Stored
  /\ \A v \in Versions : asset[v].state = "approved" /\ reviewed[v] # Registry!NoHash =>
       /\ reviewed[v] = endpoint
       /\ pass.pc # "none" /\ v \notin pass.later =>
            v \in pass.approved /\ reviewed[v] = pass.hash
       /\ pass.pc = "refresh" /\ v = pass.row /\ v \notin pass.later => reviewed[v] = pass.live
  /\ pass.pc # "none" =>
       pass \in Scan /\ family = "external" /\ pass.queue \subseteq Registry!Stored

RegistryInv == RegistryRows /\ RegistryPackages /\ RegistryRequests /\ RegistryScan

(* No state of a row is its absence.                                       *)
LEMMA StatesPresent == "absent" \notin Registry!States
BY DEF Registry!States

(* What a step that writes at most one row, and never takes one away,      *)
(* leaves of the rows.                                                     *)
LEMMA RowWritten ==
  ASSUME RegistryRows, RegistryRequests, NEW v \in Versions, NEW row \in AssetRow,
         asset' = [asset EXCEPT ![v] = row], trusted \subseteq trusted',
         row.state = "approved" /\ row.trust # "T0" => v \in trusted',
         row.published => v \in trusted'
  PROVE  /\ RegistryRows'
         /\ \A w \in Versions : asset'[w] = IF w = v THEN row ELSE asset[w]
         /\ Registry!Stored \subseteq Registry!Stored'
         /\ v \in Registry!Stored'
<1>1. asset' = [w \in Versions |-> asset'[w]]
      /\ \A w \in Versions : asset'[w] = IF w = v THEN row ELSE asset[w]
  BY DEF RegistryRows
<1>2. row.state # "absent"
  BY StatesPresent DEF AssetRow
<1>3. \A w \in Versions : w # v => (w \in Registry!Stored' <=> w \in Registry!Stored)
  BY <1>1, Zenon DEF Registry!Stored, Registry!Absent
<1>4. v \in Registry!Stored'
  BY <1>1, <1>2 DEF Registry!Stored
<1>5. RegistryRows'
  <2>1. \A w \in Versions : w \in Registry!Stored' => asset'[w] \in AssetRow
    BY <1>1, <1>3 DEF RegistryRows
  <2>2. \A w \in Versions : asset'[w].state = "approved" /\ asset'[w].trust # "T0" => w \in trusted'
    BY <1>1 DEF RegistryRows
  <2>3. \A w \in Versions : w \in Registry!Stored' /\ asset'[w].published => w \in trusted'
    BY <1>1, <1>3 DEF RegistryRows
  <2> QED BY <1>1, <2>1, <2>2, <2>3 DEF RegistryRows
<1>6. Registry!Stored \subseteq Registry!Stored'
  BY <1>3, <1>4 DEF Registry!Stored
<1> QED BY <1>1, <1>3, <1>4, <1>5, <1>6

(* Requests stand while rows are only added to.                            *)
LEMMA RequestsStand ==
  ASSUME RegistryRequests, req' = req, trusted \subseteq trusted',
         Registry!Stored \subseteq Registry!Stored'
  PROVE  RegistryRequests'
<1> SUFFICES ASSUME NEW r \in Requests
             PROVE  /\ req[r].pc \in {"reverify", "refresh", "update", "unpublish"} =>
                         req[r] \in Moving /\ req[r].v \in Registry!Stored'
                    /\ req[r].pc = "publish" =>
                         req[r].v \in trusted' \cap Registry!Stored'
                    /\ req[r].pc = "mirror" => req[r].v \in Versions
  BY DEF RegistryRequests
<1>1. req[r] \in Moving => req[r].v \in Versions
  BY DEF Moving
<1> QED BY <1>1 DEF RegistryRequests

(* One request moves to new, in good order.                                *)
LEMMA RequestMoves ==
  ASSUME RegistryRequests, NEW r \in Requests, NEW new, req' = [req EXCEPT ![r] = new],
         trusted \subseteq trusted',
         Registry!Stored \subseteq Registry!Stored',
         new.pc \in {"reverify", "refresh", "update", "unpublish"} =>
           new \in Moving /\ new.v \in Registry!Stored',
         new.pc = "publish" => new.v \in trusted' \cap Registry!Stored',
         new.pc = "mirror" => new.v \in Versions
  PROVE  RegistryRequests'
<1>1. req' = [x \in Requests |-> req'[x]]
      /\ \A x \in Requests : req'[x] = IF x = r THEN new ELSE req[x]
  BY DEF RegistryRequests
<1> SUFFICES ASSUME NEW x \in Requests
             PROVE  /\ req'[x].pc \in {"reverify", "refresh", "update", "unpublish"} =>
                         req'[x] \in Moving /\ req'[x].v \in Registry!Stored'
                    /\ req'[x].pc = "publish" =>
                         req'[x].v \in trusted' \cap Registry!Stored'
                    /\ req'[x].pc = "mirror" => req'[x].v \in Versions
  BY <1>1 DEF RegistryRequests
<1>2. CASE x = r
  <2>1. req'[x] = new
    BY <1>1, <1>2
  <2> QED BY <2>1
<1>3. CASE x # r
  <2>1. req'[x] = req[x]
    BY <1>1, <1>3
  <2>2. req[x] \in Moving => req[x].v \in Versions
    BY DEF Moving
  <2> QED BY <2>1, <2>2 DEF RegistryRequests
<1> QED BY <1>2, <1>3

(* Packages stand while no row changes its digest or is published.         *)
LEMMA PackagesStand ==
  ASSUME RegistryPackages, UNCHANGED <<package, family>>,
         Registry!Stored' = Registry!Stored,
         \A w \in Registry!Stored : /\ asset'[w].digest = asset[w].digest
                                    /\ asset'[w].published => asset[w].published
  PROVE  RegistryPackages'
BY DEF RegistryPackages

(* What the scan has found stands while nothing is approved.               *)
LEMMA ScanStands ==
  ASSUME RegistryScan, UNCHANGED <<endpoint, reviewed, pass, family>>, live' \in Nat,
         Registry!Stored \subseteq Registry!Stored',
         \A w \in Versions : asset'[w].state = "approved" =>
           asset[w].state = "approved" \/ reviewed[w] = Registry!NoHash
  PROVE  RegistryScan'
BY DEF RegistryScan

(* A row is inserted, of a state and trust that the request asks for.      *)
LEMMA CreateStep ==
  ASSUME RegistryInv, NEW v \in Versions,
         Registry!CreateAsset(v) \/ Registry!RegisterExternal(v)
  PROVE  RegistryInv'
<1>1. PICK s \in {"proposed", "approved"}, t \in {"T0", "T1"} :
        /\ asset' = [asset EXCEPT ![v] = Registry!NewRow(s, t)]
        /\ s = "approved" /\ t # "T0" => v \in trusted'
  BY DEF Registry!CreateAsset, Registry!RegisterExternal, Registry!Trusted
<1>2. v \notin Registry!Stored /\ trusted \subseteq trusted' /\ UNCHANGED <<package, req, family, pass, live>>
  BY DEF Registry!CreateAsset, Registry!RegisterExternal
<1> DEFINE row == Registry!NewRow(s, t)
<1>3. /\ row \in AssetRow /\ row.state = s /\ row.trust = t /\ row.published = FALSE
      /\ row.digest = Registry!NoHash
  BY DEF AssetRow, Registry!NewRow, Registry!States
<1> HIDE DEF row
<1>4. /\ RegistryRows'
      /\ \A w \in Versions : asset'[w] = IF w = v THEN row ELSE asset[w]
      /\ Registry!Stored \subseteq Registry!Stored' /\ v \in Registry!Stored'
  <2>1. asset' = [asset EXCEPT ![v] = row]
    BY <1>1 DEF row
  <2> QED BY <1>1, <1>2, <1>3, <2>1, RowWritten DEF RegistryInv
<1>5. Registry!Stored' = Registry!Stored \cup {v}
  BY <1>4 DEF Registry!Stored
<1>6. RegistryPackages'
  BY <1>2, <1>3, <1>4, <1>5 DEF RegistryInv, RegistryPackages, Registry!Stored
<1>7. RegistryRequests'
  BY <1>2, <1>4, RequestsStand DEF RegistryInv
<1>8. RegistryScan'
  <2>1. CASE Registry!CreateAsset(v)
    <3>1. reviewed[v] = Registry!NoHash
      BY <1>2 DEF RegistryInv, RegistryScan
    <3> QED BY <1>2, <1>4, <2>1, <3>1, ScanStands
               DEF RegistryInv, RegistryScan, Registry!CreateAsset
  <2>2. CASE Registry!RegisterExternal(v)
    <3>1. endpoint' = live /\ reviewed' = [w \in Versions |-> Registry!NoHash]
      BY <2>2 DEF Registry!RegisterExternal
    <3> QED BY <1>2, <1>4, <3>1 DEF RegistryInv, RegistryScan
  <2> QED BY <2>1, <2>2
<1> QED BY <1>4, <1>6, <1>7, <1>8 DEF RegistryInv

(* A request that only reads, or a step of the endpoint or the scan, leaves*)
(* the rows and the packages.                                              *)
LEMMA RowsStand ==
  ASSUME RegistryInv, UNCHANGED <<asset, package, family, trusted>>
  PROVE  RegistryRows' /\ RegistryPackages' /\ Registry!Stored' = Registry!Stored
BY DEF RegistryInv, RegistryRows, RegistryPackages, Registry!Stored

(* A request reads its row.                                                *)
LEMMA RequestReads ==
  ASSUME RegistryInv, NEW r \in Requests, NEW v \in Versions,
         \/ Registry!TransitionAsset(r, v) \/ Registry!PipelineGreenHook(r, v)
         \/ Registry!WorkspaceOwnerApprovalHook(r, v) \/ Registry!PublishCheck(r, v)
         \/ Registry!NewVersionSeen(r, v)
  PROVE  RegistryInv'
<1>1. UNCHANGED <<family, asset, package, endpoint, live, pass, trusted, reviewed>>
  BY DEF Registry!TransitionAsset, Registry!PipelineGreenHook, Registry!PublishCheck,
         Registry!WorkspaceOwnerApprovalHook, Registry!NewVersionSeen, Registry!Load,
         Registry!tables, Registry!history
<1>2. RegistryRows' /\ RegistryPackages' /\ Registry!Stored' = Registry!Stored
  BY <1>1, RowsStand
<1>3. RegistryScan'
  BY <1>1, <1>2, ScanStands DEF RegistryInv, RegistryScan
<1>4. ASSUME NEW to \in Registry!States, NEW t \in {"T0", "T1"}, NEW ack \in BOOLEAN,
             Registry!Load(r, v, to, t, ack)
      PROVE  RegistryRequests'
  <2> DEFINE verified == to = "approved" /\ family = "external"
             place == IF verified THEN "reverify" ELSE "update"
             new == [pc |-> place, v |-> v, to |-> to, trust |-> t, ack |-> verified /\ ack,
                     hash |-> Registry!NoHash]
  <2>1. req' = [req EXCEPT ![r] = new] /\ v \in Registry!Stored
    BY <1>4 DEF Registry!Load
  <2>2. place \in {"reverify", "update"} /\ (verified /\ ack) \in BOOLEAN
    OBVIOUS
  <2> HIDE DEF verified, place
  <2>3. new \in Moving /\ new.v = v /\ new.pc \in {"reverify", "update"}
    BY <2>2 DEF Moving, Registry!NoHash
  <2> HIDE DEF new
  <2> QED BY <1>1, <1>2, <2>1, <2>3, RequestMoves DEF RegistryInv
<1>5. CASE Registry!PublishCheck(r, v)
  <2> DEFINE new == [pc |-> "publish", v |-> v]
  <2>1. req' = [req EXCEPT ![r] = new] /\ v \in Registry!Stored /\ v \in trusted
    BY <1>5 DEF Registry!PublishCheck, Registry!Publishable, Registry!Trusted, RegistryInv,
                RegistryRows
  <2>2. new.pc = "publish" /\ new.v = v
    OBVIOUS
  <2> HIDE DEF new
  <2>3. RegistryRequests'
    BY <1>1, <1>2, <2>1, <2>2, RequestMoves DEF RegistryInv
  <2> QED BY <1>2, <1>3, <2>3 DEF RegistryInv
<1>6. CASE Registry!NewVersionSeen(r, v)
  <2> DEFINE new == [pc |-> "mirror", v |-> v]
  <2>1. req' = [req EXCEPT ![r] = new]
    BY <1>6 DEF Registry!NewVersionSeen
  <2>2. new.pc = "mirror" /\ new.v = v
    OBVIOUS
  <2> HIDE DEF new
  <2>3. RegistryRequests'
    BY <1>1, <1>2, <2>1, <2>2, RequestMoves DEF RegistryInv
  <2> QED BY <1>2, <1>3, <2>3 DEF RegistryInv
<1>7. CASE \/ Registry!TransitionAsset(r, v) \/ Registry!PipelineGreenHook(r, v)
           \/ Registry!WorkspaceOwnerApprovalHook(r, v)
  <2>1. PICK to \in Registry!States, t \in {"T0", "T1"}, ack \in BOOLEAN :
          Registry!Load(r, v, to, t, ack)
    <3>1. "in_review" \in Registry!States /\ "approved" \in Registry!States
      BY DEF Registry!States
    <3> QED BY <1>7, <3>1, Zenon DEF Registry!TransitionAsset, Registry!PipelineGreenHook,
               Registry!WorkspaceOwnerApprovalHook
  <2> QED BY <1>2, <1>3, <1>4, <2>1 DEF RegistryInv
<1> QED BY <1>5, <1>6, <1>7

(* A request verifies the endpoint, and stores the hash it has seen.       *)
LEMMA VerifyStep ==
  ASSUME RegistryInv, NEW r \in Requests, Registry!Reverify(r) \/ Registry!RefreshHash(r)
  PROVE  RegistryInv'
<1>1. UNCHANGED <<family, asset, package, live, pass, trusted>>
  BY DEF Registry!Reverify, Registry!RefreshHash, Registry!tables, Registry!history
<1>2. RegistryRows' /\ RegistryPackages' /\ Registry!Stored' = Registry!Stored
  BY <1>1, RowsStand
<1>3. req[r] \in Moving /\ req[r].v \in Registry!Stored /\ live \in Nat
  BY DEF Registry!Reverify, Registry!RefreshHash, RegistryInv, RegistryRequests, RegistryScan
<1>4. ASSUME NEW new, req' = [req EXCEPT ![r] = new],
             new.pc = "done" \/ (new \in Moving /\ new.v = req[r].v)
      PROVE  RegistryRequests'
  <2>1. new \in Moving => new.pc \in {"reverify", "refresh", "update", "unpublish"}
    BY DEF Moving
  <2> QED BY <1>1, <1>2, <1>3, <1>4, <2>1, RequestMoves DEF RegistryInv
<1>5. CASE Registry!Reverify(r)
  <2>1. ASSUME Registry!DriftRefused(r) PROVE RegistryRequests'
    <3> DEFINE new == [pc |-> "done"]
    <3>1. req' = [req EXCEPT ![r] = new] /\ new.pc = "done"
      BY <1>5, <2>1 DEF Registry!Reverify
    <3> HIDE DEF new
    <3> QED BY <1>4, <3>1
  <2>2. ASSUME ~Registry!DriftRefused(r) PROVE RegistryRequests'
    <3> DEFINE old == req[r]
               new == [old EXCEPT !.pc = "refresh", !.hash = live]
    <3>1. req' = [req EXCEPT ![r] = new]
      BY <1>5, <2>2 DEF Registry!Reverify
    <3>2. new \in Moving /\ new.v = req[r].v
      BY <1>3 DEF Moving
    <3> HIDE DEF new
    <3> QED BY <1>4, <3>1, <3>2
  <2>3. RegistryRequests'
    BY <2>1, <2>2
  <2>4. RegistryScan'
    BY <1>1, <1>2, <1>5, ScanStands
    DEF RegistryInv, RegistryScan, Registry!Reverify, Registry!tables, Registry!history
  <2> QED BY <1>2, <2>3, <2>4 DEF RegistryInv
<1>6. CASE Registry!RefreshHash(r)
  <2> DEFINE old == req[r]
             new == [old EXCEPT !.pc = "update"]
  <2>1. req' = [req EXCEPT ![r] = new] /\ endpoint' = req[r].hash
        /\ reviewed' = [w \in Versions |-> Registry!NoHash]
    BY <1>6 DEF Registry!RefreshHash
  <2>2. new \in Moving /\ new.v = req[r].v /\ req[r].hash \in Nat
    BY <1>3 DEF Moving
  <2> HIDE DEF new
  <2>3. RegistryRequests'
    BY <1>4, <2>1, <2>2
  <2>4. RegistryScan'
    BY <1>1, <1>2, <2>1, <2>2 DEF RegistryInv, RegistryScan
  <2> QED BY <1>2, <2>3, <2>4 DEF RegistryInv
<1> QED BY <1>5, <1>6

(* A row takes the state and the trust that the request asked for.         *)
LEMMA LifecycleStep ==
  ASSUME RegistryInv, NEW r \in Requests, Registry!UpdateLifecycle(r) PROVE RegistryInv'
<1> DEFINE v == req[r].v
           to == req[r].to
           old == asset[v]
           row == [old EXCEPT !.state = to, !.trust = req[r].trust]
           stamp == IF to = "approved" /\ req[r].hash = endpoint THEN endpoint ELSE Registry!NoHash
<1>1. /\ req[r].pc = "update" /\ req[r] \in Moving /\ v \in Registry!Stored /\ v \in Versions
      /\ to \in Registry!States /\ req[r].trust \in {"T0", "T1"}
  BY DEF RegistryInv, RegistryRequests, Registry!UpdateLifecycle, Moving
<1>2. /\ asset' = [asset EXCEPT ![v].state = to, ![v].trust = req[r].trust]
      /\ trusted' = IF Registry!Trusted(to, req[r].trust) THEN trusted \cup {v} ELSE trusted
      /\ reviewed' = [reviewed EXCEPT ![v] = stamp]
      /\ UNCHANGED <<family, package, endpoint, live>>
  BY DEF Registry!UpdateLifecycle
<1>3. old \in AssetRow
  BY <1>1 DEF RegistryInv, RegistryRows
<1>4. /\ row \in AssetRow /\ row.state = to /\ row.trust = req[r].trust
      /\ row.published = old.published /\ row.digest = old.digest
  BY <1>1, <1>3 DEF AssetRow
<1>5. asset' = [asset EXCEPT ![v] = row]
  BY <1>1, <1>2, <1>3 DEF RegistryInv, RegistryRows, AssetRow
<1>6. trusted \subseteq trusted' /\ (to = "approved" /\ req[r].trust # "T0" => v \in trusted')
  BY <1>2 DEF Registry!Trusted
<1>7. row.published => v \in trusted
  BY <1>1, <1>4 DEF RegistryInv, RegistryRows
<1>8. stamp \in {Registry!NoHash, endpoint}
  OBVIOUS
<1>9. \/ /\ UNCHANGED pass /\ pass.pc = "none"
      \/ pass.pc # "none" /\ pass' = [pass EXCEPT !.later = @ \cup {v}]
  BY DEF Registry!UpdateLifecycle
<1>10. \/ req' = [req EXCEPT ![r] = [pc |-> "done"]]
       \/ req' = [req EXCEPT ![r].pc = "unpublish"]
  BY DEF Registry!UpdateLifecycle
<1> HIDE DEF row, old, stamp, to
<1>11. /\ RegistryRows'
       /\ \A w \in Versions : asset'[w] = IF w = v THEN row ELSE asset[w]
       /\ Registry!Stored \subseteq Registry!Stored' /\ v \in Registry!Stored'
  BY <1>1, <1>4, <1>5, <1>6, <1>7, RowWritten DEF RegistryInv
<1>12. Registry!Stored' = Registry!Stored
  BY <1>1, <1>11 DEF Registry!Stored
<1>13. RegistryPackages'
  <2>1. Registry!Stored \subseteq Versions
    BY DEF Registry!Stored
  <2>2. \A w \in Registry!Stored : /\ asset'[w].digest = asset[w].digest
                                   /\ asset'[w].published => asset[w].published
    BY <1>4, <1>11, <2>1 DEF old
  <2> QED BY <1>2, <1>12, <2>2, PackagesStand DEF RegistryInv
<1>14. RegistryRequests'
  <2>1. CASE req' = [req EXCEPT ![r] = [pc |-> "done"]]
    <3> DEFINE new == [pc |-> "done"]
    <3>1. new.pc = "done" /\ req' = [req EXCEPT ![r] = new]
      BY <2>1
    <3> HIDE DEF new
    <3> QED BY <1>6, <1>11, <3>1, RequestMoves DEF RegistryInv
  <2>2. CASE req' = [req EXCEPT ![r].pc = "unpublish"]
    <3> DEFINE was == req[r]
               new == [was EXCEPT !.pc = "unpublish"]
    <3>1. new \in Moving /\ new.v = v /\ new.pc = "unpublish"
      BY <1>1 DEF Moving
    <3>2. req' = [req EXCEPT ![r] = new]
      BY <2>2
    <3> HIDE DEF new
    <3> QED BY <1>6, <1>11, <3>1, <3>2, RequestMoves DEF RegistryInv
  <2> QED BY <1>10, <2>1, <2>2
<1>15. RegistryScan'
  <2>1. /\ reviewed' = [w \in Versions |-> reviewed'[w]]
        /\ \A w \in Versions : reviewed'[w] = IF w = v THEN stamp ELSE reviewed[w]
    BY <1>2 DEF RegistryInv, RegistryScan
  <2>2. /\ \A w \in Versions : w # v => asset'[w] = asset[w] /\ reviewed'[w] = reviewed[w]
        /\ reviewed'[v] \in {Registry!NoHash, endpoint}
    BY <1>1, <1>8, <1>11, <2>1
  <2>3. \A w \in Versions : reviewed'[w] # Registry!NoHash => w \in Registry!Stored'
    BY <1>1, <1>12, <2>2 DEF RegistryInv, RegistryScan
  <2>4. /\ pass'.pc = pass.pc /\ (pass.pc # "none" => pass' \in Scan /\ family = "external")
        /\ pass.pc # "none" =>
             /\ pass'.row = pass.row /\ pass'.hash = pass.hash /\ pass'.live = pass.live
             /\ pass'.approved = pass.approved /\ pass'.later = pass.later \cup {v}
             /\ pass'.queue \subseteq Registry!Stored
    <3>1. CASE UNCHANGED pass /\ pass.pc = "none"
      BY <3>1
    <3>2. CASE pass.pc # "none" /\ pass' = [pass EXCEPT !.later = @ \cup {v}]
      <4>1. pass \in Scan /\ family = "external" /\ pass.queue \subseteq Registry!Stored
        BY <3>2 DEF RegistryInv, RegistryScan
      <4> QED BY <1>1, <3>2, <4>1 DEF Scan
    <3> QED BY <1>9, <3>1, <3>2
  <2>5. ASSUME NEW w \in Versions, asset'[w].state = "approved", reviewed'[w] # Registry!NoHash
        PROVE  /\ reviewed'[w] = endpoint
               /\ pass'.pc # "none" /\ w \notin pass'.later =>
                    w \in pass'.approved /\ reviewed'[w] = pass'.hash
               /\ pass'.pc = "refresh" /\ w = pass'.row /\ w \notin pass'.later =>
                    reviewed'[w] = pass'.live
    <3>1. CASE w = v
      BY <2>2, <2>4, <2>5, <3>1
    <3>2. CASE w # v
      BY <2>2, <2>4, <2>5, <3>2 DEF RegistryInv, RegistryScan
    <3> QED BY <3>1, <3>2
  <2>6. endpoint' \in Nat /\ live' \in Nat /\ endpoint' = endpoint /\ family' = family
    BY <1>2 DEF RegistryInv, RegistryScan
  <2> QED BY <1>12, <2>1, <2>3, <2>4, <2>5, <2>6 DEF RegistryScan
<1> QED BY <1>11, <1>13, <1>14, <1>15 DEF RegistryInv

(* A row loses its gateway entry, or takes it, with a package of its own.  *)
LEMMA PublishedStep ==
  ASSUME RequestsCounted, RegistryInv, NEW r \in Requests,
         Registry!AutoUnpublish(r) \/ Registry!PublishCommit(r)
  PROVE  RegistryInv'
<1> DEFINE v == req[r].v
           old == asset[v]
           done == [pc |-> "done"]
<1>1. /\ v \in Registry!Stored /\ v \in Versions /\ old \in AssetRow
      /\ UNCHANGED <<family, endpoint, live, pass, trusted, reviewed>>
      /\ req' = [req EXCEPT ![r] = done]
  <2>1. v \in Registry!Stored /\ v \in Versions
    BY DEF RegistryInv, RegistryRequests, Registry!AutoUnpublish, Registry!PublishCommit,
           Registry!Stored
  <2> QED BY <2>1
             DEF RegistryInv, RegistryRows, Registry!AutoUnpublish, Registry!PublishCommit,
                     Registry!history
<1>2. done.pc = "done"
  OBVIOUS
<1> HIDE DEF v, old, done
<1>3. ASSUME NEW row \in AssetRow, asset' = [asset EXCEPT ![v] = row],
             row.state = old.state, row.trust = old.trust, row.published => v \in trusted,
             \/ UNCHANGED package /\ (family = "skill" => row.digest = old.digest /\ ~row.published)
             \/ /\ family = "skill" /\ row.digest = r
                /\ package' = [package EXCEPT ![v] = r]
             \/ UNCHANGED package /\ family # "skill"
      PROVE  RegistryInv'
  <2>1. /\ RegistryRows'
        /\ \A w \in Versions : asset'[w] = IF w = v THEN row ELSE asset[w]
        /\ Registry!Stored \subseteq Registry!Stored' /\ v \in Registry!Stored'
    <3>1. row.state = "approved" /\ row.trust # "T0" => v \in trusted
      BY <1>1, <1>3 DEF RegistryInv, RegistryRows, old
    <3> QED BY <1>1, <1>3, <3>1, RowWritten DEF RegistryInv
  <2>2. Registry!Stored' = Registry!Stored
    BY <1>1, <2>1 DEF Registry!Stored
  <2>3. RegistryPackages'
    <3>1. CASE /\ UNCHANGED package
               /\ family = "skill" => row.digest = old.digest /\ ~row.published
      BY <1>1, <2>1, <2>2, <3>1 DEF RegistryInv, RegistryPackages, old
    <3>2. CASE family = "skill" /\ row.digest = r /\ package' = [package EXCEPT ![v] = r]
      <4>1. /\ package' \in [Versions -> Requests \cup {Registry!NoHash}]
            /\ \A w \in Versions : package'[w] = IF w = v THEN r ELSE package[w]
        BY <3>2 DEF RegistryInv, RegistryPackages
      <4> QED BY <1>1, <2>1, <2>2, <3>2, <4>1
              DEF RegistryInv, RegistryPackages, RequestsCounted
    <3> QED BY <1>3, <3>1, <3>2
  <2>4. RegistryRequests'
    BY <1>1, <1>2, <2>1, RequestMoves DEF RegistryInv
  <2>5. RegistryScan'
    <3>1. \A w \in Versions : asset'[w].state = asset[w].state
      BY <1>3, <2>1 DEF old
    <3> QED BY <1>1, <2>1, <3>1, ScanStands DEF RegistryInv, RegistryScan
  <2> QED BY <2>1, <2>3, <2>4, <2>5 DEF RegistryInv
<1>4. CASE Registry!AutoUnpublish(r)
  <2> DEFINE row == [old EXCEPT !.published = FALSE]
  <2>1. /\ row \in AssetRow /\ row.state = old.state /\ row.trust = old.trust
        /\ ~row.published /\ row.digest = old.digest
    BY <1>1 DEF AssetRow
  <2>2. asset' = [asset EXCEPT ![v] = row] /\ UNCHANGED package
    BY <1>4 DEF Registry!AutoUnpublish, v, old
  <2> HIDE DEF row
  <2> QED BY <1>3, <2>1, <2>2
<1>5. CASE Registry!PublishCommit(r)
  <2>1. v \in trusted
    BY <1>5 DEF RegistryInv, RegistryRequests, Registry!PublishCommit, v
  <2>2. ASSUME NEW d \in {old.digest, r},
               asset' = [asset EXCEPT ![v].published = TRUE, ![v].digest = d],
               \/ family # "skill" /\ UNCHANGED package
               \/ family = "skill" /\ d = r /\ package' = [package EXCEPT ![v] = r]
        PROVE  RegistryInv'
    <3> DEFINE row == [old EXCEPT !.published = TRUE, !.digest = d]
    <3>1. d \in Requests \cup {Registry!NoHash}
      BY <1>1, <2>2 DEF AssetRow
    <3>2. /\ row \in AssetRow /\ row.state = old.state /\ row.trust = old.trust
          /\ row.published /\ row.digest = d
      BY <1>1, <3>1 DEF AssetRow
    <3>3. asset' = [asset EXCEPT ![v] = row]
      BY <1>1, <2>2 DEF RegistryInv, RegistryRows, old
    <3> HIDE DEF row
    <3> QED BY <1>3, <2>1, <2>2, <3>2, <3>3
  <2>3. CASE family = "skill" /\ Registry!AlreadyPackaged(v)
    <3>1. UNCHANGED <<asset, package>>
      BY <1>5, <2>3 DEF Registry!PublishCommit, v
    <3>2. RegistryRows' /\ RegistryPackages' /\ Registry!Stored' = Registry!Stored
      BY <1>1, <3>1, RowsStand
    <3>3. RegistryRequests'
      BY <1>1, <1>2, <3>2, RequestMoves DEF RegistryInv
    <3>4. RegistryScan'
      BY <1>1, <3>1, <3>2, ScanStands DEF RegistryInv, RegistryScan
    <3> QED BY <3>2, <3>3, <3>4 DEF RegistryInv
  <2>4. CASE family = "skill" /\ ~Registry!AlreadyPackaged(v)
    <3>1. package[v] = Registry!NoHash
      BY <2>4 DEF Registry!AlreadyPackaged
    <3>2. /\ asset' = [asset EXCEPT ![v].published = TRUE, ![v].digest = r]
          /\ package' = [package EXCEPT ![v] = IF @ = Registry!NoHash THEN r ELSE @]
      BY <1>5, <2>4 DEF Registry!PublishCommit, v
    <3>3. package' = [package EXCEPT ![v] = r]
      BY <3>1, <3>2
    <3> QED BY <2>2, <2>4, <3>2, <3>3
  <2>5. CASE family # "skill"
    <3>1. \E d \in {old.digest, r} : asset' = [asset EXCEPT ![v].published = TRUE, ![v].digest = d]
      BY <1>5, <2>5, Zenon DEF Registry!PublishCommit, v, old
    <3>2. UNCHANGED package
      BY <1>5, <2>5 DEF Registry!PublishCommit
    <3> QED BY <2>2, <2>5, <3>1, <3>2
  <2> QED BY <2>3, <2>4, <2>5
<1> QED BY <1>4, <1>5

(* A version is mirrored, or all are deprecated.                           *)
LEMMA MirrorStep ==
  ASSUME RegistryInv, NEW v \in Versions, asset' = Registry!Mirrored(v), family' = family,
         UNCHANGED <<package, endpoint, live, pass, trusted, reviewed>>
  PROVE  /\ RegistryRows' /\ RegistryPackages' /\ RegistryScan'
         /\ Registry!Stored' = Registry!Stored
<1>1. CASE v \notin Registry!Stored
  <2>1. asset' = asset
    BY <1>1 DEF Registry!Mirrored
  <2>2. RegistryRows' /\ RegistryPackages' /\ Registry!Stored' = Registry!Stored
    BY <2>1, RowsStand
  <2>3. RegistryScan'
    BY <2>1, <2>2, ScanStands DEF RegistryInv, RegistryScan
  <2> QED BY <2>2, <2>3
<1>2. CASE v \in Registry!Stored
  <2> DEFINE old == asset[v]
             row == [old EXCEPT !.state = "mirrored", !.origin = TRUE]
  <2>1. old \in AssetRow
    BY <1>2 DEF RegistryInv, RegistryRows
  <2>2. /\ row \in AssetRow /\ row.state = "mirrored" /\ row.published = old.published
        /\ row.digest = old.digest
    BY <2>1 DEF AssetRow, Registry!States
  <2>3. asset' = [asset EXCEPT ![v] = row]
    BY <1>2, <2>1 DEF Registry!Mirrored, RegistryInv, RegistryRows
  <2>4. row.published => v \in trusted
    BY <1>2, <2>2 DEF RegistryInv, RegistryRows
  <2> HIDE DEF row, old
  <2>5. /\ RegistryRows'
        /\ \A w \in Versions : asset'[w] = IF w = v THEN row ELSE asset[w]
        /\ Registry!Stored \subseteq Registry!Stored' /\ v \in Registry!Stored'
    BY <2>2, <2>3, <2>4, RowWritten DEF RegistryInv
  <2>6. Registry!Stored' = Registry!Stored
    BY <1>2, <2>5 DEF Registry!Stored
  <2>7. \A w \in Registry!Stored : /\ asset'[w].digest = asset[w].digest
                                   /\ asset'[w].published => asset[w].published
    BY <2>2, <2>5 DEF Registry!Stored, old
  <2>8. \A w \in Versions : asset'[w].state = "approved" => asset[w].state = "approved"
    BY <2>2, <2>5
  <2>9. RegistryScan'
    BY <2>6, <2>8, ScanStands DEF RegistryInv, RegistryScan
  <2> QED BY <2>5, <2>6, <2>7, <2>9, PackagesStand DEF RegistryInv
<1> QED BY <1>1, <1>2

(* The archiving of an application deprecates every row that is not retired.*)
LEMMA CascadeStep ==
  ASSUME RegistryInv, Registry!CascadeAppArchive PROVE RegistryInv'
<1> DEFINE Falls(w) == w \in Registry!Stored /\ asset[w].state # "retired"
<1>1. /\ asset' = [w \in Versions |-> IF Falls(w) THEN [asset[w] EXCEPT !.state = "deprecated"]
                                      ELSE asset[w]]
      /\ UNCHANGED <<family, package, endpoint, live, req, pass, trusted, reviewed>>
  BY DEF Registry!CascadeAppArchive, Registry!history
<1>2. \A w \in Versions : w \in Registry!Stored => asset[w] \in AssetRow
  BY DEF RegistryInv, RegistryRows
<1>3. ASSUME NEW w \in Versions
      PROVE  \/ asset'[w] = asset[w]
             \/ /\ w \in Registry!Stored /\ asset'[w] \in AssetRow
                /\ asset'[w].state = "deprecated" /\ asset'[w].published = asset[w].published
                /\ asset'[w].digest = asset[w].digest
  <2>1. CASE Falls(w)
    <3> DEFINE old == asset[w]
    <3>1. asset'[w] = [old EXCEPT !.state = "deprecated"] /\ old \in AssetRow
      BY <1>1, <1>2, <2>1
    <3> QED BY <2>1, <3>1 DEF AssetRow, Registry!States
  <2>2. CASE ~Falls(w)
    BY <1>1, <2>2
  <2> QED BY <2>1, <2>2
<1>4. Registry!Stored' = Registry!Stored
  BY <1>3 DEF Registry!Stored
<1>5. RegistryRows'
  BY <1>1, <1>3, <1>4 DEF RegistryInv, RegistryRows
<1>6. \A w \in Registry!Stored : /\ asset'[w].digest = asset[w].digest
                                 /\ asset'[w].published => asset[w].published
  BY <1>3 DEF Registry!Stored
<1>7. \A w \in Versions : asset'[w].state = "approved" => asset[w].state = "approved"
  BY <1>3
<1>8. RegistryPackages'
  BY <1>1, <1>4, <1>6, PackagesStand DEF RegistryInv
<1>9. RegistryScan'
  BY <1>1, <1>4, <1>7, ScanStands DEF RegistryInv, RegistryScan
<1>10. RegistryRequests'
  BY <1>1, <1>4, RequestsStand DEF RegistryInv
<1> QED BY <1>5, <1>8, <1>9, <1>10 DEF RegistryInv

(* The drift cron reads its rows, goes through them, and stores the hash   *)
(* it has seen.                                                            *)
LEMMA ScanStep ==
  ASSUME RegistryInv,
         \/ Registry!PassBegins \/ Registry!PassRefreshes
         \/ \E v \in Versions : Registry!RowUnreachable(v)
  PROVE  RegistryInv'
<1>1. UNCHANGED <<family, asset, package, live, req, trusted>>
  BY DEF Registry!PassBegins, Registry!PassRefreshes, Registry!RowUnreachable, Registry!tables,
         Registry!history
<1>2. RegistryRows' /\ RegistryPackages' /\ Registry!Stored' = Registry!Stored
  BY <1>1, RowsStand
<1>3. RegistryRequests'
  BY <1>1, <1>2, RequestsStand DEF RegistryInv
<1>4. CASE Registry!PassBegins
  <2> DEFINE found == {v \in Registry!Stored : asset[v].state \in {"approved", "in_review"}}
             good  == {v \in Registry!Stored : asset[v].state = "approved"}
  <2>1. /\ pass' = [pc |-> "rows", hash |-> endpoint, live |-> live, row |-> Registry!NoHash,
                    queue |-> found, approved |-> good, later |-> {}]
        /\ family = "external" /\ UNCHANGED <<endpoint, reviewed>>
    BY <1>4 DEF Registry!PassBegins, Registry!history, Registry!tables
  <2>2. found \subseteq Registry!Stored /\ found \subseteq Versions /\ good \subseteq Versions /\ endpoint \in Nat /\ live \in Nat
    BY DEF Registry!Stored, RegistryInv, RegistryScan
  <2>3. \A v \in Versions : asset[v].state = "approved" => v \in good
    BY DEF Registry!Stored
  <2> HIDE DEF found, good
  <2>4. /\ pass' \in Scan /\ pass'.pc = "rows" /\ pass'.hash = endpoint /\ pass'.approved = good
        /\ pass'.queue \subseteq Registry!Stored
    BY <2>1, <2>2 DEF Scan
  <2>5. RegistryScan'
    BY <1>1, <1>2, <2>1, <2>3, <2>4 DEF RegistryInv, RegistryScan
  <2> QED BY <1>2, <1>3, <2>5 DEF RegistryInv
<1>5. CASE Registry!PassRefreshes
  <2> DEFINE was(v) == IF v = pass.row /\ v \notin pass.later THEN reviewed[v]
                       ELSE Registry!NoHash
  <2>1. /\ pass.pc = "refresh" /\ endpoint' = pass.live
        /\ pass' = [pass EXCEPT !.pc = "rows"]
        /\ reviewed' = [v \in Versions |-> was(v)]
    BY <1>5 DEF Registry!PassRefreshes
  <2>2. pass \in Scan /\ family = "external" /\ pass.queue \subseteq Registry!Stored
        /\ live \in Nat
    BY <2>1 DEF RegistryInv, RegistryScan
  <2>3. /\ pass' \in Scan /\ pass'.pc = "rows" /\ pass'.hash = pass.hash
        /\ pass'.approved = pass.approved /\ pass'.later = pass.later /\ pass.live \in Nat
        /\ pass'.queue = pass.queue
    BY <2>1, <2>2 DEF Scan
  <2>4. /\ reviewed' = [v \in Versions |-> reviewed'[v]]
        /\ \A v \in Versions : reviewed'[v] = was(v)
    BY <2>1
  <2>5. ASSUME NEW v \in Versions, reviewed'[v] # Registry!NoHash
        PROVE  /\ v \in Registry!Stored /\ v = pass.row /\ v \notin pass.later
               /\ reviewed'[v] = reviewed[v] /\ reviewed[v] # Registry!NoHash
    <3>1. v = pass.row /\ v \notin pass.later /\ reviewed'[v] = reviewed[v]
      BY <2>4, <2>5
    <3> QED BY <2>5, <3>1 DEF RegistryInv, RegistryScan
  <2>6. ASSUME NEW v \in Versions, asset[v].state = "approved", reviewed'[v] # Registry!NoHash
        PROVE  /\ reviewed'[v] = pass.live
               /\ v \in pass.approved /\ reviewed'[v] = pass.hash
    BY <2>1, <2>5, <2>6 DEF RegistryInv, RegistryScan
  <2>7. RegistryScan'
    BY <1>1, <1>2, <2>1, <2>2, <2>3, <2>4, <2>5, <2>6 DEF RegistryScan
  <2> QED BY <1>2, <1>3, <2>7 DEF RegistryInv
<1>6. ASSUME NEW v \in Versions, Registry!RowUnreachable(v) PROVE RegistryInv'
  <2>1. pass.pc = "rows" /\ pass' = [pass EXCEPT !.queue = @ \ {v}]
        /\ UNCHANGED <<endpoint, reviewed>>
    BY <1>6 DEF Registry!RowUnreachable, Registry!tables, Registry!history
  <2>2. pass \in Scan /\ family = "external" /\ pass.queue \subseteq Registry!Stored
    BY <2>1 DEF RegistryInv, RegistryScan
  <2>3. /\ pass' \in Scan /\ pass'.pc = "rows" /\ pass'.hash = pass.hash
        /\ pass'.approved = pass.approved /\ pass'.later = pass.later
        /\ pass'.queue \subseteq Registry!Stored
    BY <2>1, <2>2 DEF Scan
  <2>4. RegistryScan'
    BY <1>1, <1>2, <2>1, <2>2, <2>3 DEF RegistryInv, RegistryScan
  <2> QED BY <1>2, <1>3, <2>4 DEF RegistryInv
<1> QED BY <1>4, <1>5, <1>6

(* One row of the pass: what has drifted since it was approved is          *)
(* deprecated, so that what stays approved has the hash just seen.         *)
LEMMA RowStep ==
  ASSUME RegistryInv, NEW v \in Versions, Registry!ProcessRow(v) PROVE RegistryInv'
<1> DEFINE old == asset[v]
           row == [old EXCEPT !.state = "deprecated"]
<1>1. /\ pass.pc = "rows" /\ v \in pass.queue
      /\ pass' = [pass EXCEPT !.pc = "refresh", !.queue = @ \ {v}, !.row = v, !.live = live]
      /\ asset' = IF Registry!Drifted(v) THEN [asset EXCEPT ![v].state = "deprecated"] ELSE asset
      /\ UNCHANGED <<family, package, endpoint, live, req, trusted, reviewed>>
  BY DEF Registry!ProcessRow, Registry!history
<1>2. pass \in Scan /\ family = "external" /\ live \in Nat
      /\ pass.queue \subseteq Registry!Stored
  BY <1>1 DEF RegistryInv, RegistryScan
<1>3. /\ pass' \in Scan /\ pass'.pc = "refresh" /\ pass'.row = v /\ pass'.live = live
      /\ pass'.hash = pass.hash /\ pass'.approved = pass.approved /\ pass'.later = pass.later
      /\ pass'.queue \subseteq Registry!Stored
  BY <1>1, <1>2 DEF Scan
<1>4. /\ RegistryRows' /\ Registry!Stored' = Registry!Stored
      /\ \A w \in Versions : w # v => asset'[w] = asset[w]
      /\ Registry!Drifted(v) => asset'[v].state # "approved"
      /\ ~Registry!Drifted(v) => asset'[v] = asset[v]
  <2>1. CASE ~Registry!Drifted(v)
    BY <1>1, <2>1, RowsStand
  <2>2. CASE Registry!Drifted(v)
    <3>1. v \in Registry!Stored
      BY <1>1, <1>2
    <3>2. old \in AssetRow /\ asset' = [asset EXCEPT ![v] = row]
      BY <1>1, <2>2, <3>1 DEF RegistryInv, RegistryRows
    <3>3. row \in AssetRow /\ row.state = "deprecated" /\ row.published = old.published
      BY <3>2 DEF AssetRow, Registry!States
    <3>4. row.published => v \in trusted
      BY <2>2, <3>1, <3>3 DEF RegistryInv, RegistryRows
    <3> HIDE DEF row
    <3>5. /\ RegistryRows' /\ \A w \in Versions : asset'[w] = IF w = v THEN row ELSE asset[w]
          /\ Registry!Stored \subseteq Registry!Stored'
      BY <1>1, <3>2, <3>3, <3>4, RowWritten DEF RegistryInv
    <3>6. Registry!Stored' = Registry!Stored
      BY <2>2, <3>1, <3>5 DEF Registry!Stored
    <3> QED BY <2>2, <3>1, <3>3, <3>5, <3>6
  <2> QED BY <2>1, <2>2
<1>5. RegistryPackages'
  BY <1>1, <1>2, <1>4 DEF RegistryInv, RegistryPackages
<1>6. RegistryRequests'
  BY <1>1, <1>4, RequestsStand DEF RegistryInv
<1>7. ASSUME NEW w \in Versions, asset'[w].state = "approved", reviewed[w] # Registry!NoHash
      PROVE  /\ reviewed[w] = endpoint
             /\ w \notin pass.later => w \in pass.approved /\ reviewed[w] = pass.hash
             /\ w = v /\ w \notin pass.later => reviewed[w] = live
  <2>1. asset[w].state = "approved"
    BY <1>4, <1>7
  <2>2. /\ reviewed[w] = endpoint
        /\ w \notin pass.later => w \in pass.approved /\ reviewed[w] = pass.hash
    BY <1>1, <1>7, <2>1 DEF RegistryInv, RegistryScan
  <2>3. w = v => live = pass.hash \/ v \notin pass.approved
    BY <1>4, <1>7 DEF Registry!Drifted
  <2> QED BY <2>2, <2>3
<1>8. RegistryScan'
  BY <1>1, <1>2, <1>3, <1>4, <1>7 DEF RegistryInv, RegistryScan
<1> QED BY <1>4, <1>5, <1>6, <1>8 DEF RegistryInv

(* Every step of the registry keeps it.                                    *)
LEMMA RegistryStep ==
  ASSUME RequestsCounted, RegistryInv, Registry!Next PROVE RegistryInv'
<1>1. CASE Registry!EndpointChanges
  <2>1. UNCHANGED <<family, asset, package, endpoint, req, pass, trusted, reviewed>>
        /\ live' = live + 1 /\ live \in Nat
    BY <1>1 DEF Registry!EndpointChanges, Registry!history, RegistryInv, RegistryScan
  <2>2. RegistryRows' /\ RegistryPackages' /\ Registry!Stored' = Registry!Stored
    BY <2>1, RowsStand
  <2>3. live' \in Nat
    BY <2>1
  <2> QED BY <2>1, <2>2, <2>3, RequestsStand, ScanStands DEF RegistryInv
<1>2. ASSUME NEW v \in Versions, Registry!Mirror(v) PROVE RegistryInv'
  <2>1. RegistryRows' /\ RegistryPackages' /\ RegistryScan' /\ Registry!Stored' = Registry!Stored
    BY <1>2, MirrorStep DEF Registry!Mirror, Registry!history
  <2> QED BY <1>2, <2>1, RequestsStand DEF RegistryInv, Registry!Mirror, Registry!history
<1>3. ASSUME NEW r \in Requests, Registry!MirrorNewVersion(r) PROVE RegistryInv'
  <2> DEFINE v == req[r].v
             done == [pc |-> "done"]
  <2>1. /\ v \in Versions /\ asset' = Registry!Mirrored(v)
        /\ UNCHANGED <<family, package, endpoint, live, pass, trusted, reviewed>>
        /\ req' = [req EXCEPT ![r] = done]
    BY <1>3 DEF Registry!MirrorNewVersion, Registry!history, RegistryInv, RegistryRequests
  <2>2. done.pc = "done"
    OBVIOUS
  <2> HIDE DEF v, done
  <2>3. RegistryRows' /\ RegistryPackages' /\ RegistryScan' /\ Registry!Stored' = Registry!Stored
    BY <2>1, MirrorStep
  <2> QED BY <2>1, <2>2, <2>3, RequestMoves DEF RegistryInv
<1>4. CASE Registry!PassRefreshes \/ Registry!PassBegins
           \/ \E v \in Versions : Registry!RowUnreachable(v)
  BY <1>4, ScanStep
<1>5. CASE \E v \in Versions : \/ Registry!CreateAsset(v) \/ Registry!RegisterExternal(v)
                               \/ Registry!ProcessRow(v)
  BY <1>5, CreateStep, RowStep
<1>6. CASE \E r \in Requests, v \in Versions :
             \/ Registry!TransitionAsset(r, v) \/ Registry!PipelineGreenHook(r, v)
             \/ Registry!WorkspaceOwnerApprovalHook(r, v) \/ Registry!PublishCheck(r, v)
             \/ Registry!NewVersionSeen(r, v)
  BY <1>6, RequestReads
<1>7. CASE \E r \in Requests : \/ Registry!Reverify(r) \/ Registry!RefreshHash(r)
                               \/ Registry!UpdateLifecycle(r) \/ Registry!AutoUnpublish(r)
                               \/ Registry!PublishCommit(r)
  BY <1>7, VerifyStep, LifecycleStep, PublishedStep
<1> QED BY <1>1, <1>2, <1>3, <1>4, <1>5, <1>6, <1>7, CascadeStep, Zenon DEF Registry!Next

(* What Services_proofs takes of registry: the invariant holds at first,   *)
(* every step keeps it, and it implies what is promised.                   *)
LEMMA RegistryAlways ==
  ASSUME RequestsCounted
  PROVE  /\ Registry!Init => RegistryInv
         /\ RegistryInv /\ [Registry!Next]_(Registry!vars) => RegistryInv'
         /\ RegistryInv => Registry!CatalogSound /\ Registry!DriftDeprecates
<1>1. ASSUME Registry!Init PROVE RegistryInv
  <2>1. Registry!Stored = {}
    BY <1>1 DEF Registry!Init, Registry!Stored, Registry!Absent
  <2>2. \A v \in Versions : asset[v].state = "absent"
    BY <1>1 DEF Registry!Init, Registry!Absent
  <2>3. RegistryRows
    BY <1>1, <2>1, <2>2 DEF Registry!Init, RegistryRows
  <2>4. RegistryPackages
    BY <1>1, <2>1 DEF Registry!Init, RegistryPackages
  <2>5. RegistryRequests
    BY <1>1 DEF Registry!Init, RegistryRequests
  <2>6. RegistryScan
    BY <1>1, <2>2 DEF Registry!Init, RegistryScan, Registry!NoHash
  <2> QED BY <2>3, <2>4, <2>5, <2>6 DEF RegistryInv
<1>2. ASSUME RegistryInv, UNCHANGED Registry!vars PROVE RegistryInv'
  <2>1. UNCHANGED <<family, asset, package, endpoint, live, req, pass, trusted, reviewed>>
    BY <1>2, Zenon DEF Registry!vars, Registry!tables, Registry!history
  <2>2. RegistryRows' /\ RegistryPackages' /\ Registry!Stored' = Registry!Stored
    BY <1>2, <2>1, RowsStand
  <2> QED BY <1>2, <2>1, <2>2, RequestsStand, ScanStands DEF RegistryInv, RegistryScan
<1>3. ASSUME RegistryInv PROVE Registry!CatalogSound /\ Registry!DriftDeprecates
  <2>1. Registry!Stored \subseteq Versions
    BY DEF Registry!Stored
  <2> QED BY <1>3, <2>1 DEF RegistryInv, RegistryRows, RegistryPackages, RegistryScan,
         Registry!CatalogSound, Registry!DriftDeprecates
<1> QED BY <1>1, <1>2, <1>3, RegistryStep

-----------------------------------------------------------------------------
(* marketplace and evolution.  A listing that is there has its visibility, *)
(* its state and its evidence; a review that goes on is of a proposal, and *)
(* what it said it said before it creates the change.                      *)
Offer == [state : {"pending", "approved", "rejected", "not_required"},
          visibility : Market!Visibilities, evidence : SUBSET {"eval", "security"}]
Opinion == [at : {"accept", "reject", "create"}, of : Proposals]
Outcomes == {"none", "inbox", "accepted", "rejected", "converted"}

Voiced(p, r, a) == [of |-> p, by |-> r, says |-> a] \in verdicts
Voices(a) == {p \in Proposals : \E r \in Reviewers : Voiced(p, r, a)}
Adopted   == {c.of : c \in change}

OffersVetted ==
  /\ listing = [l \in Listings |-> listing[l]]
  /\ \A l \in Listings : listing[l].state # "none" =>
       /\ listing[l] \in Offer
       /\ Market!Certifiable(listing[l].visibility, listing[l].evidence)
       /\ listing[l].visibility \in Market!Gated <=> listing[l].state # "not_required"
  /\ \A i \in installs : i \in [of : Listings, into : Market!Homes]
                         /\ Market!Installable(i.of, i.into)

OpinionsCount ==
  /\ proposal \in [Proposals -> Outcomes]
  /\ change \subseteq [of : Proposals, by : Reviewers]
  /\ \A c \in change : Voiced(c.of, c.by, "accept")
  /\ review = [r \in Reviewers |-> review[r]]
  /\ \A r \in Reviewers : review[r].at \notin {"none", "done"} =>
       /\ review[r] \in Opinion /\ proposal[review[r].of] # "none"
       /\ review[r].at = "create" => Voiced(review[r].of, r, "accept")
  /\ verdicts \subseteq [of : Proposals, by : Reviewers, says : {"accept", "reject"}]
  /\ \A p \in Proposals :
       /\ proposal[p] = "converted" => p \in Adopted
       /\ proposal[p] \in {"accepted", "converted"} => p \in Voices("accept")
       /\ proposal[p] = "rejected" => p \in Voices("reject")
       /\ proposal[p] \in {"none", "inbox"} => p \notin Voices("accept") /\ p \notin Voices("reject")

MarketInv == OffersVetted /\ OpinionsCount

(* A listing moves: nothing installable becomes less so.                   *)
LEMMA ListingMoves ==
  ASSUME OffersVetted, NEW l \in Listings, NEW new \in Offer,
         Market!Certifiable(new.visibility, new.evidence),
         new.visibility \in Market!Gated <=> new.state # "not_required", listing' = [listing EXCEPT ![l] = new],
         installs' = installs, \A i \in installs : i.of # l
  PROVE  OffersVetted'
<1>1. listing' = [k \in Listings |-> listing'[k]]
      /\ \A k \in Listings : listing'[k] = IF k = l THEN new ELSE listing[k]
  BY DEF OffersVetted
<1>2. \A k \in Listings : listing'[k].state # "none" =>
        /\ listing'[k] \in Offer
        /\ Market!Certifiable(listing'[k].visibility, listing'[k].evidence)
        /\ listing'[k].visibility \in Market!Gated <=> listing'[k].state # "not_required"
  BY <1>1 DEF OffersVetted
<1>3. \A i \in installs' : i \in [of : Listings, into : Market!Homes]
                           /\ Market!Installable(i.of, i.into)'
  <2> SUFFICES ASSUME NEW i \in installs
               PROVE  i \in [of : Listings, into : Market!Homes] /\ Market!Installable(i.of, i.into)'
    OBVIOUS
  <2>1. i \in [of : Listings, into : Market!Homes] /\ Market!Installable(i.of, i.into)
    BY DEF OffersVetted
  <2>2. i.of \in Listings /\ i.of # l
    BY <2>1
  <2>3. listing'[i.of] = listing[i.of]
    BY <1>1, <2>2
  <2> QED BY <2>1, <2>3 DEF Market!Installable
<1> QED BY <1>1, <1>2, <1>3 DEF OffersVetted

(* A review or its proposal moves.                                         *)
LEMMA OpinionsStep ==
  ASSUME OpinionsCount, NEW r \in Reviewers,
         Market!Reject(r) \/ Market!Accept(r) \/ Market!Convert(r) \/ Market!CreateFails(r)
  PROVE  OpinionsCount'
<1> DEFINE p == review[r].of
<1>1. review[r] \in Opinion /\ p \in Proposals /\ proposal[p] # "none"
  BY
     DEF OpinionsCount, Market!Reject, Market!Accept, Market!Convert, Market!CreateFails,
        Opinion
<1>2. /\ proposal \in [Proposals -> Outcomes]
      /\ change \subseteq [of : Proposals, by : Reviewers]
      /\ \A c \in change : Voiced(c.of, c.by, "accept")
      /\ review = [x \in Reviewers |-> review[x]]
      /\ verdicts \subseteq [of : Proposals, by : Reviewers, says : {"accept", "reject"}]
  BY DEF OpinionsCount
<1> HIDE DEF p
<1>3. ASSUME NEW o \in Outcomes, NEW a \in {"accept", "reject"}, NEW new,
             proposal' = [proposal EXCEPT ![p] = o], o # "none",
             verdicts' = verdicts \cup {[of |-> p, by |-> r, says |-> a]},
             review' = [review EXCEPT ![r] = new], change' = change,
             new.at \notin {"none", "done"} => new \in Opinion /\ new.of = p /\ a = "accept",
             \/ o = "accepted" /\ a = "accept"
             \/ o = "rejected" /\ a = "reject"
      PROVE  OpinionsCount'
  <2>1. \A q \in Proposals : proposal'[q] = IF q = p THEN o ELSE proposal[q]
    BY <1>1, <1>2, <1>3
  <2>2. \A q \in Proposals, b \in {"accept", "reject"} :
          /\ q \in Voices(b)' <=> q \in Voices(b) \/ (q = p /\ b = a)
          /\ \A x \in Reviewers :
               Voiced(q, x, b)' <=> Voiced(q, x, b) \/ (q = p /\ x = r /\ b = a)
    BY <1>3 DEF Voices, Voiced
  <2>3. review' = [x \in Reviewers |-> review'[x]]
        /\ \A x \in Reviewers : review'[x] = IF x = r THEN new ELSE review[x]
    BY <1>2, <1>3
  <2>4. \A x \in Reviewers : review'[x].at \notin {"none", "done"} =>
          /\ review'[x] \in Opinion /\ proposal'[review'[x].of] # "none"
          /\ review'[x].at = "create" => Voiced(review[x].of, x, "accept")'
    <3> SUFFICES ASSUME NEW x \in Reviewers, review'[x].at \notin {"none", "done"}
                 PROVE  /\ review'[x] \in Opinion /\ proposal'[review'[x].of] # "none"
                        /\ review'[x].at = "create" => Voiced(review[x].of, x, "accept")'
      OBVIOUS
    <3>1. CASE x = r
      <4>1. review'[x] = new
        BY <2>3, <3>1
      <4>2. new.at = "create" => [of |-> new.of, by |-> x, says |-> "accept"] \in verdicts'
        BY <1>3, <3>1, <4>1
      <4> QED BY <1>1, <1>3, <2>1, <4>1, <4>2 DEF Voiced
    <3>2. CASE x # r
      <4>1. review'[x] = review[x]
        BY <2>3, <3>2
      <4>2. /\ review[x] \in Opinion /\ proposal[review[x].of] # "none"
            /\ review[x].at = "create" => Voiced(review[x].of, x, "accept")
        BY <4>1 DEF OpinionsCount
      <4>3. review[x].of \in Proposals
        BY <4>2 DEF Opinion
      <4> QED BY <1>3, <2>1, <2>2, <4>1, <4>2, <4>3
    <3> QED BY <3>1, <3>2
  <2>5. \A q \in Proposals :
          /\ proposal'[q] = "converted" => q \in Adopted
          /\ proposal'[q] \in {"accepted", "converted"} => q \in Voices("accept")'
          /\ proposal'[q] = "rejected" => q \in Voices("reject")'
          /\ proposal'[q] \in {"none", "inbox"} => q \notin Voices("accept")' /\ q \notin Voices("reject")'
    BY <1>3, <2>1, <2>2 DEF OpinionsCount
  <2>6. proposal' \in [Proposals -> Outcomes]
    BY <1>2, <1>3
  <2>7. verdicts' \subseteq [of : Proposals, by : Reviewers, says : {"accept", "reject"}]
    BY <1>1, <1>2, <1>3
  <2>8. Adopted' = Adopted /\ \A c \in change : Voiced(c.of, c.by, "accept")'
    BY <1>2, <1>3 DEF Adopted, Voiced
  <2> QED BY <1>2, <1>3, <2>3, <2>4, <2>5, <2>6, <2>7, <2>8 DEF OpinionsCount
<1>4. CASE Market!Reject(r)
  <2> DEFINE new == [at |-> "done"]
  <2>1. /\ proposal' = [proposal EXCEPT ![p] = "rejected"] /\ change' = change
        /\ verdicts' = verdicts \cup {[of |-> p, by |-> r, says |-> "reject"]}
        /\ review' = [review EXCEPT ![r] = new]
    BY <1>4 DEF Market!Reject, Market!Says, p
  <2>2. new.at = "done"
    OBVIOUS
  <2> HIDE DEF new
  <2> QED BY <1>3, <2>1, <2>2 DEF Outcomes
<1>5. CASE Market!Accept(r)
  <2> DEFINE new == [review[r] EXCEPT !.at = "create"]
  <2>1. /\ proposal' = [proposal EXCEPT ![p] = "accepted"] /\ change' = change
        /\ verdicts' = verdicts \cup {[of |-> p, by |-> r, says |-> "accept"]}
        /\ review' = [review EXCEPT ![r] = new]
    BY <1>5 DEF Market!Accept, Market!Says, p
  <2>2. new \in Opinion /\ new.of = p
    BY <1>1 DEF Opinion, p
  <2> HIDE DEF new
  <2> QED BY <1>3, <2>1, <2>2 DEF Outcomes
<1>6. ASSUME review' = [review EXCEPT ![r] = [at |-> "done"]], verdicts' = verdicts,
             \/ UNCHANGED <<proposal, change>>
             \/ /\ change' = change \cup {[of |-> p, by |-> r]} /\ Voiced(p, r, "accept")
                /\ proposal' = [proposal EXCEPT ![p] = "converted"]
      PROVE  OpinionsCount'
  <2> DEFINE new == [at |-> "done"]
  <2>1. new.at = "done" /\ review' = [review EXCEPT ![r] = new]
    BY <1>6
  <2> HIDE DEF new
  <2>2. review' = [x \in Reviewers |-> review'[x]]
        /\ \A x \in Reviewers : review'[x] = IF x = r THEN new ELSE review[x]
    BY <1>2, <2>1
  <2>3. \A b \in {"accept", "reject"} :
          /\ Voices(b)' = Voices(b)
          /\ \A q, x : Voiced(q, x, b)' <=> Voiced(q, x, b)
    BY <1>6 DEF Voices, Voiced
  <2>4. /\ proposal' \in [Proposals -> Outcomes]
        /\ change' \subseteq [of : Proposals, by : Reviewers]
        /\ \A c \in change' : Voiced(c.of, c.by, "accept")
        /\ \A q \in Proposals : /\ q # p => proposal'[q] = proposal[q]
                                /\ proposal[q] # "none" => proposal'[q] # "none"
                                /\ q \in Adopted => q \in Adopted'
    BY <1>1, <1>2, <1>6 DEF Outcomes, Adopted
  <2>5. \A q \in Proposals :
          /\ proposal'[q] = "converted" => q \in Adopted'
          /\ proposal'[q] \in {"accepted", "converted"} => q \in Voices("accept")
          /\ proposal'[q] = "rejected" => q \in Voices("reject")
          /\ proposal'[q] \in {"none", "inbox"} => q \notin Voices("accept") /\ q \notin Voices("reject")
    <3>1. CASE UNCHANGED <<proposal, change>>
      BY <2>4, <3>1 DEF OpinionsCount
    <3>2. CASE /\ change' = change \cup {[of |-> p, by |-> r]} /\ Voiced(p, r, "accept")
               /\ proposal' = [proposal EXCEPT ![p] = "converted"]
      <4>1. proposal'[p] = "converted" /\ p \in Adopted' /\ p \in Voices("accept")
        BY <1>1, <1>2, <3>2 DEF Adopted, Voices
      <4> QED BY <2>4, <3>2, <4>1 DEF OpinionsCount
    <3> QED BY <1>6, <3>1, <3>2
  <2>6. \A x \in Reviewers : review'[x].at \notin {"none", "done"} =>
          /\ review'[x] \in Opinion /\ proposal'[review'[x].of] # "none"
          /\ review'[x].at = "create" => Voiced(review'[x].of, x, "accept")
    <3> SUFFICES ASSUME NEW x \in Reviewers, review'[x].at \notin {"none", "done"}
                 PROVE  /\ review'[x] \in Opinion /\ proposal'[review'[x].of] # "none"
                        /\ review'[x].at = "create" => Voiced(review'[x].of, x, "accept")
      OBVIOUS
    <3>1. review'[x] = review[x]
      BY <2>1, <2>2
    <3>2. review[x] \in Opinion /\ review[x].of \in Proposals
      BY <3>1 DEF OpinionsCount, Opinion
    <3> QED BY <2>4, <3>1, <3>2 DEF OpinionsCount
  <2> QED BY <1>2, <1>6, <2>2, <2>3, <2>4, <2>5, <2>6 DEF OpinionsCount
<1>7. CASE Market!Convert(r)
  <2>1. Voiced(p, r, "accept")
    BY <1>7 DEF Market!Convert, OpinionsCount, p
  <2> QED BY <1>6, <1>7, <2>1 DEF Market!Convert, p
<1>8. CASE Market!CreateFails(r)
  BY <1>6, <1>8 DEF Market!CreateFails
<1> QED BY <1>4, <1>5, <1>7, <1>8

(* Publications, approvals, installs and reviews keep it.                  *)
LEMMA MarketStep ==
  ASSUME MarketInv, Market!Next PROVE MarketInv'
<1>1. ASSUME UNCHANGED <<listing, installs>> PROVE OffersVetted'
  BY <1>1 DEF MarketInv, OffersVetted, Market!Installable
<1>2. ASSUME UNCHANGED <<proposal, change, review, verdicts>> PROVE OpinionsCount'
  BY <1>2 DEF MarketInv, OpinionsCount, Voices, Voiced, Adopted
<1>3. ASSUME NEW l \in Listings, NEW v \in Market!Visibilities, NEW e \in SUBSET {"eval", "security"},
             Market!Publish(l, v, e)
      PROVE  MarketInv'
  <2> DEFINE s == IF v \in Market!Gated THEN "pending" ELSE "not_required"
             new == [state |-> s, visibility |-> v, evidence |-> e]
  <2>1. /\ listing[l].state = "none" /\ Market!Certifiable(v, e)
        /\ listing' = [listing EXCEPT ![l] = new]
        /\ UNCHANGED <<installs, proposal, change, review, verdicts>>
    BY <1>3 DEF Market!Publish, Market!None
  <2>2. s \in {"pending", "not_required"}
    OBVIOUS
  <2> HIDE DEF s
  <2>3. /\ new \in Offer /\ new.visibility = v /\ new.evidence = e
        /\ new.visibility \in Market!Gated <=> new.state # "not_required"
    BY <2>2 DEF Offer, s
  <2> HIDE DEF new
  <2>4. \A i \in installs : i.of # l
    BY <2>1 DEF MarketInv, OffersVetted, Market!Installable, Market!None
  <2> QED BY <1>2, <2>1, <2>3, <2>4, ListingMoves DEF MarketInv
<1>4. ASSUME NEW l \in Listings, NEW approve, Market!Approve(l, approve) PROVE MarketInv'
  <2> DEFINE s == IF approve THEN "approved" ELSE "rejected"
             old == listing[l]
             new == [old EXCEPT !.state = s]
  <2>1. /\ old.state = "pending" /\ listing' = [listing EXCEPT ![l].state = s]
        /\ UNCHANGED <<installs, proposal, change, review, verdicts>>
    BY <1>4 DEF Market!Approve
  <2>2. old \in Offer /\ Market!Certifiable(old.visibility, old.evidence)
    BY <2>1 DEF MarketInv, OffersVetted
  <2>3. listing' = [listing EXCEPT ![l] = new]
    BY <2>1
  <2>4. s \in {"approved", "rejected"}
    OBVIOUS
  <2> HIDE DEF s
  <2>5. /\ new \in Offer /\ new.visibility = old.visibility /\ new.evidence = old.evidence
        /\ new.state = s
    BY <2>2, <2>4 DEF Offer
  <2>6. new.visibility \in Market!Gated /\ new.state # "not_required"
    BY <2>1, <2>4, <2>5 DEF MarketInv, OffersVetted
  <2>7. \A i \in installs : i.of # l
    BY <2>1, <2>5, <2>6 DEF MarketInv, OffersVetted, Market!Installable
  <2> HIDE DEF new, old
  <2> QED BY <1>2, <2>1, <2>2, <2>3, <2>5, <2>6, <2>7, ListingMoves DEF MarketInv
<1>5. ASSUME NEW l \in Listings, NEW into \in Market!Homes, Market!Install(l, into)
      PROVE  MarketInv'
  <2>1. OffersVetted'
    BY <1>5 DEF MarketInv, OffersVetted, Market!Install, Market!Installable
  <2> QED BY <1>2, <1>5, <2>1 DEF Market!Install, MarketInv
<1>6. ASSUME NEW p \in Proposals, Market!FromPostmortem(p) PROVE MarketInv'
  <2>1. /\ proposal[p] = "none" /\ proposal' = [proposal EXCEPT ![p] = "inbox"]
        /\ UNCHANGED <<listing, installs, change, review, verdicts>>
    BY <1>6 DEF Market!FromPostmortem, Market!None
  <2>2. /\ proposal' \in [Proposals -> Outcomes]
        /\ \A q \in Proposals : proposal'[q] = IF q = p THEN "inbox" ELSE proposal[q]
    BY <2>1 DEF MarketInv, OpinionsCount, Outcomes
  <2>3. \A r \in Reviewers : review[r] \in Opinion => review[r].of \in Proposals
    BY DEF Opinion
  <2>4. OpinionsCount'
    BY <2>1, <2>2, <2>3 DEF MarketInv, OpinionsCount, Voices, Voiced, Adopted
  <2> QED BY <1>1, <2>1, <2>4 DEF MarketInv
<1>7. ASSUME NEW r \in Reviewers, NEW p \in Proposals, NEW approved \in BOOLEAN,
             Market!Review(r, p, approved)
      PROVE  MarketInv'
  <2> DEFINE to == IF approved THEN "accept" ELSE "reject"
             new == [at |-> to, of |-> p]
  <2>1. /\ proposal[p] = "inbox" /\ review' = [review EXCEPT ![r] = new]
        /\ UNCHANGED <<listing, installs, proposal, change, verdicts>>
    BY <1>7 DEF Market!Review
  <2>2. to \in {"accept", "reject"}
    OBVIOUS
  <2> HIDE DEF to
  <2>3. new \in Opinion /\ new.of = p /\ new.at # "create"
    BY <2>2 DEF Opinion
  <2> HIDE DEF new
  <2>4. /\ review' = [x \in Reviewers |-> review'[x]]
        /\ \A x \in Reviewers : review'[x] = IF x = r THEN new ELSE review[x]
    BY <2>1 DEF MarketInv, OpinionsCount
  <2>5. \A x \in Reviewers : review'[x].at \notin {"none", "done"} =>
          /\ review'[x] \in Opinion /\ proposal[review'[x].of] # "none"
          /\ review'[x].at = "create" => Voiced(review'[x].of, x, "accept")
    BY <2>1, <2>3, <2>4 DEF MarketInv, OpinionsCount
  <2>6. OpinionsCount'
    BY <2>1, <2>4, <2>5 DEF MarketInv, OpinionsCount, Voices, Voiced, Adopted
  <2> QED BY <1>1, <2>1, <2>6 DEF MarketInv
<1>8. ASSUME NEW r \in Reviewers,
             Market!Reject(r) \/ Market!Accept(r) \/ Market!Convert(r) \/ Market!CreateFails(r)
      PROVE  MarketInv'
  <2>1. UNCHANGED <<listing, installs>>
    BY <1>8 DEF Market!Reject, Market!Accept, Market!Convert, Market!CreateFails
  <2> QED BY <1>1, <1>8, <2>1, OpinionsStep DEF MarketInv
<1> QED BY <1>3, <1>4, <1>5, <1>6, <1>7, <1>8 DEF Market!Next

(* What Services_proofs takes of marketplace and evolution: the invariant  *)
(* holds at first, every step keeps it, and it implies what is promised.   *)
LEMMA MarketAlways ==
  /\ Market!Init => MarketInv
  /\ MarketInv /\ [Market!Next]_(Market!market) => MarketInv'
  /\ MarketInv => Market!MarketSound
<1>1. ASSUME Market!Init PROVE MarketInv
  <2>1. OffersVetted
    BY <1>1 DEF Market!Init, Market!None, OffersVetted
  <2>2. OpinionsCount
    BY <1>1 DEF Market!Init, Market!None, OpinionsCount, Outcomes, Voices, Voiced, Adopted
  <2> QED BY <2>1, <2>2 DEF MarketInv
<1>2. ASSUME MarketInv, UNCHANGED Market!market PROVE MarketInv'
  BY <1>2 DEF Market!market, MarketInv, OffersVetted, OpinionsCount, Voices, Voiced, Adopted,
            Market!Installable
<1>3. ASSUME MarketInv PROVE Market!InstallsVetted
  BY <1>3 DEF MarketInv, OffersVetted, Market!InstallsVetted, Market!Found, Market!Installable,
              Market!Certifiable, Market!None, Market!Gated, Market!Tiers
<1>4. ASSUME MarketInv PROVE Market!ChangesAccepted
  <2> SUFFICES ASSUME NEW p \in Proposals
               PROVE  LET said == {v.says : v \in {w \in verdicts : w.of = p}}
                      IN  /\ proposal[p] = "converted" => \E c \in change : c.of = p
                          /\ proposal[p] \in {"accepted", "converted"} => "accept" \in said
                          /\ proposal[p] = "rejected" <=>
                               "reject" \in said /\ proposal[p] \notin {"accepted", "converted"}
                          /\ said = {} => proposal[p] \in {"none", "inbox"}
    BY <1>4 DEF Market!ChangesAccepted, Market!None, MarketInv, OpinionsCount, Voiced
  <2> DEFINE said == {v.says : v \in {w \in verdicts : w.of = p}}
  <2>1. \A a \in {"accept", "reject"} : p \in Voices(a) <=> a \in said
    <3> SUFFICES ASSUME NEW a \in {"accept", "reject"} PROVE p \in Voices(a) <=> a \in said
      OBVIOUS
    <3>1. ASSUME p \in Voices(a) PROVE a \in said
      <4>1. PICK r \in Reviewers : [of |-> p, by |-> r, says |-> a] \in verdicts
        BY <3>1 DEF Voices, Voiced
      <4> DEFINE v == [of |-> p, by |-> r, says |-> a]
      <4>2. v.of = p /\ v.says = a /\ v \in verdicts
        BY <4>1
      <4> QED BY <4>2
    <3>2. ASSUME NEW v \in verdicts, v.of = p, v.says = a PROVE p \in Voices(a)
      <4>1. v \in [of : Proposals, by : Reviewers, says : {"accept", "reject"}]
        BY <1>4 DEF MarketInv, OpinionsCount
      <4>2. v = [of |-> p, by |-> v.by, says |-> a] /\ v.by \in Reviewers
        BY <3>2, <4>1
      <4> QED BY <3>2, <4>2 DEF Voices, Voiced
    <3> QED BY <3>1, <3>2
  <2> HIDE DEF said
  <2>2. /\ proposal[p] = "converted" => \E c \in change : c.of = p
        /\ proposal[p] \in {"accepted", "converted"} => p \in Voices("accept")
        /\ proposal[p] = "rejected" => p \in Voices("reject")
        /\ proposal[p] \in {"none", "inbox"} => p \notin Voices("accept") /\ p \notin Voices("reject")
        /\ proposal[p] \in {"none", "inbox", "accepted", "rejected", "converted"}
    BY <1>4 DEF MarketInv, OpinionsCount, Outcomes, Adopted
  <2> QED BY <2>1, <2>2 DEF said
<1> QED BY <1>1, <1>2, <1>3, <1>4, MarketStep DEF Market!MarketSound

-----------------------------------------------------------------------------
(* trigger-router's registry and its email poller, for any finite number   *)
(* of workflow versions and messages, any configurations and any number of *)
(* changes and polls.  What a Refresh leaves running follows the registry  *)
(* because the index by type never misses a subscription, although it      *)
(* keeps entries of old types, and because the router's Refresh works from *)
(* what it read.  The handlers of a topic are one to one with the cancel   *)
(* functions until one is cancelled that is not the newest.  The poller    *)
(* passes no message over because of one older than a message of the batch *)
(* nothing is left outside it.                                             *)
Subscriptable == Triggers!Subscriptions \union {Triggers!NoSub}
Taken == [topic : Topics, idx : Nat \ {0}]

TriggersTypeOK ==
  /\ subs \in [Versions -> Subscriptable]
  /\ byType \in [Triggers!Types -> SUBSET Versions]

BusTypes ==
  /\ desired \in [Versions -> Subscriptable]
  /\ cancels \in [Versions -> Taken \union {Triggers!NoCancel}]
  /\ bus \in [Topics -> Seq(Triggers!Handlers)]

(* What the router works from is what the registry would say now, unless    *)
(* the registry has changed.                                               *)
ReadIsCurrent ==
  refreshing /\ busFresh =>
    \A v \in Versions :
      desired[v] = IF v \in Triggers!ByType("event-bus") THEN subs[v] ELSE Triggers!NoSub

TriggersInv ==
  /\ TriggersTypeOK /\ BusTypes /\ ReadIsCurrent
  /\ Triggers!IndexComplete /\ Triggers!KeysFollow

(* A subscription has one of the types, and is not the mark of its absence. *)
LEMMA SubscriptionTyped ==
  ASSUME NEW sub \in Triggers!Subscriptions
  PROVE  sub.type \in Triggers!Types /\ sub # Triggers!NoSub
<1>1. sub.type \in Triggers!Types
  BY DEF Triggers!Subscriptions, Triggers!Types
<1>2. Triggers!NoSub.type \notin Triggers!Types
  BY DEF Triggers!NoSub, Triggers!Types
<1> QED BY <1>1, <1>2

(* Every step keeps the index complete.                                    *)
LEMMA IndexStep ==
  ASSUME TriggersTypeOK, Triggers!IndexComplete, [Triggers!Next]_(Triggers!vars)
  PROVE  TriggersTypeOK' /\ Triggers!IndexComplete'
<1>1. ASSUME NEW v \in Versions, NEW sub \in Triggers!Subscriptions, Triggers!IngestWorkflow(v, sub)
      PROVE  TriggersTypeOK' /\ Triggers!IndexComplete'
  <2>1. sub.type \in Triggers!Types /\ sub # Triggers!NoSub
    BY SubscriptionTyped
  <2>2. /\ subs' = [subs EXCEPT ![v] = sub]
        /\ byType' = [byType EXCEPT ![sub.type] = @ \union {v}]
    BY <1>1 DEF Triggers!IngestWorkflow, Triggers!Indexed
  <2>3. TriggersTypeOK'
    BY <2>1, <2>2 DEF TriggersTypeOK, Subscriptable
  <2>4. ASSUME NEW w \in Versions, subs'[w] # Triggers!NoSub
        PROVE  w \in byType'[subs'[w].type]
    <3>1. CASE w = v
      BY <2>1, <2>2, <3>1 DEF TriggersTypeOK, Subscriptable
    <3>2. CASE w # v
      <4>1. subs'[w] = subs[w] /\ subs[w] \in Triggers!Subscriptions
        BY <2>2, <2>4, <3>2 DEF TriggersTypeOK, Subscriptable
      <4>2. subs[w].type \in Triggers!Types /\ w \in byType[subs[w].type]
        BY <2>4, <4>1, SubscriptionTyped DEF Triggers!IndexComplete, Triggers!Registered, Triggers!ByType
      <4> QED BY <2>1, <2>2, <4>1, <4>2 DEF TriggersTypeOK, Subscriptable
    <3> QED BY <3>1, <3>2
  <2> QED BY <2>3, <2>4 DEF Triggers!IndexComplete, Triggers!Registered, Triggers!ByType
<1>2. ASSUME NEW v \in Versions, Triggers!RemoveWorkflowVersion(v)
      PROVE  TriggersTypeOK' /\ Triggers!IndexComplete'
  <2>1. subs[v] \in Triggers!Subscriptions
    BY <1>2 DEF Triggers!RemoveWorkflowVersion, Triggers!Registered, TriggersTypeOK, Subscriptable
  <2>2. /\ subs' = [subs EXCEPT ![v] = Triggers!NoSub]
        /\ byType' = [byType EXCEPT ![subs[v].type] = @ \ {v}]
        /\ subs[v].type \in Triggers!Types
    BY <1>2, <2>1, SubscriptionTyped DEF Triggers!RemoveWorkflowVersion
  <2>3. TriggersTypeOK'
    BY <2>2 DEF TriggersTypeOK, Subscriptable
  <2>4. ASSUME NEW w \in Versions, subs'[w] # Triggers!NoSub
        PROVE  w \in byType'[subs'[w].type]
    <3>1. w # v /\ subs'[w] = subs[w] /\ subs[w] \in Triggers!Subscriptions
      BY <2>2, <2>4 DEF TriggersTypeOK, Subscriptable
    <3>2. subs[w].type \in Triggers!Types /\ w \in byType[subs[w].type]
      BY <2>4, <3>1, SubscriptionTyped DEF Triggers!IndexComplete, Triggers!Registered, Triggers!ByType
    <3> QED BY <2>2, <3>1, <3>2 DEF TriggersTypeOK, Subscriptable
  <2> QED BY <2>3, <2>4 DEF Triggers!IndexComplete, Triggers!Registered, Triggers!ByType
<1>3. CASE UNCHANGED Triggers!registryVars
  BY <1>3 DEF Triggers!registryVars, TriggersTypeOK, Triggers!IndexComplete, Triggers!Registered, Triggers!ByType
<1> QED
  BY <1>1, <1>2, <1>3
  DEF Triggers!Next, Triggers!CronRefresh, Triggers!BusRefresh, Triggers!BusCancel, Triggers!BusSubscribe,
      Triggers!BusRefreshed, Triggers!vars, Triggers!registryVars

(* After CronRefresh.                                                      *)
LEMMA CronFollows ==
  ASSUME TriggersTypeOK, Triggers!IndexComplete, Triggers!CronRefresh
  PROVE  Triggers!CronKeysFollow'
<1>1. /\ subs' = subs /\ byType' = byType
      /\ \A v \in Versions :
           entries'[v] = IF Triggers!KeepsEntry(v) THEN entries[v]
                         ELSE IF v \in Triggers!ByType("cron") /\ Triggers!Schedulable(v) THEN subs[v]
                         ELSE Triggers!NoSub
  BY DEF Triggers!CronRefresh, Triggers!registryVars
<1>2. ASSUME NEW v \in Versions, entries'[v] # Triggers!NoSub PROVE v \in Triggers!Registered
  BY <1>1, <1>2 DEF Triggers!KeepsEntry, Triggers!ByType
<1>3. ASSUME NEW v \in Triggers!Registered, subs[v].type = "cron", Triggers!Schedulable(v)
      PROVE  entries'[v] # Triggers!NoSub
  <2>1. v \in Triggers!ByType("cron") /\ subs[v] # Triggers!NoSub /\ v \in Versions
    BY <1>3 DEF Triggers!IndexComplete, Triggers!Registered
  <2> QED BY <1>1, <1>3, <2>1 DEF Triggers!KeepsEntry
<1> QED BY <1>1, <1>2, <1>3 DEF Triggers!CronKeysFollow, Triggers!Registered, Triggers!Schedulable

(* The instance counts as the proofs do.                                   *)
LEMMA OrdersCount == \A S : Triggers!SetToSeqs(S) = Injection(1..Cardinality(S), S)
<1>1. \A S : Triggers!Cardinality(S) = Cardinality(S)
  BY DEF Triggers!Cardinality, Cardinality
<1>2. ASSUME NEW S PROVE Triggers!SetToSeqs(S) = Injection(1..Cardinality(S), S)
  <2> DEFINE D == 1..Cardinality(S)
  <2>1. Triggers!SetToSeqs(S) = {f \in [D -> S] : \A i, j \in D : i # j => f[i] # f[j]}
    BY <1>1, Zenon DEF Triggers!SetToSeqs
  <2> HIDE DEF D
  <2> QED BY <2>1 DEF Injection, IsInjective, D
<1> QED BY <1>2

(* An order of a finite set has each of its elements.                      *)
LEMMA OrderComplete ==
  ASSUME NEW S, IsFiniteSet(S), NEW s \in Triggers!SetToSeqs(S), NEW x \in S
  PROVE  \E i \in DOMAIN s : s[i] = x
<1> DEFINE n == Cardinality(S)
<1>1. n \in Nat
  BY FS_CardinalityType
<1>2. s \in Injection(1..n, S)
  BY OrdersCount
<1>3. Cardinality(1..n) = n
  BY <1>1, FS_Interval
<1>4. s \in Surjection(1..n, S)
  BY <1>2, <1>3, FS_Injection
<1> QED BY <1>4 DEF Surjection

(* A cancel function has a topic, its absence has none.                    *)
LEMMA CancelTyped ==
  ASSUME "none" \notin Topics, NEW c \in Taken
  PROVE  c # Triggers!NoCancel
BY DEF Taken, Triggers!NoCancel

(* A handler list without its i-th handler.                                *)
LEMMA HandlerRemoved ==
  ASSUME NEW S, NEW s \in Seq(S), NEW i \in 1..Len(s)
  PROVE  /\ Triggers!RemoveAt(s, i) \in Seq(S)
         /\ Len(Triggers!RemoveAt(s, i)) = Len(s) - 1
         /\ i = Len(s) => \A j \in 1..(Len(s) - 1) : Triggers!RemoveAt(s, i)[j] = s[j]
<1> DEFINE u == SubSeq(s, 1, i - 1)
           v == SubSeq(s, i + 1, Len(s))
<1>1. u \in Seq(S) /\ Len(u) = i - 1 /\ \A j \in 1..(i - 1) : u[j] = s[j]
  BY SubSeqProperties
<1>2. v \in Seq(S) /\ Len(v) = Len(s) - i
  BY SubSeqProperties
<1> HIDE DEF u, v
<1>3. /\ u \o v \in Seq(S) /\ Len(u \o v) = Len(u) + Len(v)
      /\ \A j \in 1..(Len(u) + Len(v)) : (u \o v)[j] = IF j <= Len(u) THEN u[j] ELSE v[j - Len(u)]
  BY <1>1, <1>2, ConcatProperties
<1>4. Triggers!RemoveAt(s, i) = u \o v
  BY DEF Triggers!RemoveAt, u, v
<1>5. Len(s) \in Nat /\ i \in Nat /\ Len(u) + Len(v) = Len(s) - 1
  BY <1>1, <1>2
<1>6. ASSUME i = Len(s), NEW j \in 1..(Len(s) - 1) PROVE (u \o v)[j] = s[j]
  <2>1. j \in 1..(i - 1) /\ j <= Len(u) /\ j \in 1..(Len(u) + Len(v))
    BY <1>1, <1>5, <1>6
  <2> QED BY <1>1, <1>3, <2>1
<1> QED BY <1>3, <1>4, <1>5, <1>6

(* A key more, or one less, among those counted on a topic.                *)
LEMMA CountedOneMore ==
  ASSUME IsFiniteSet(Versions), "none" \notin Topics, BusTypes, NEW t \in Topics, NEW v \in Versions,
         cancels[v] = Triggers!NoCancel, NEW c \in Taken, c.topic = t,
         cancels' = [cancels EXCEPT ![v] = c]
  PROVE  /\ Triggers!Cardinality(Triggers!Counted(t))' = Triggers!Cardinality(Triggers!Counted(t)) + 1
         /\ \A u \in Topics \ {t} : Triggers!Counted(u)' = Triggers!Counted(u)
<1>1. \A S : Triggers!Cardinality(S) = Cardinality(S)
  BY DEF Triggers!Cardinality, Cardinality
<1>2. c # Triggers!NoCancel
  BY CancelTyped
<1>3. v \notin Triggers!Counted(t) /\ Triggers!Counted(t)' = Triggers!Counted(t) \cup {v}
  BY <1>2 DEF Triggers!Counted, BusTypes
<1>4. \A u \in Topics \ {t} : Triggers!Counted(u)' = Triggers!Counted(u)
  BY DEF Triggers!Counted, BusTypes
<1>5. IsFiniteSet(Triggers!Counted(t))
  BY FS_Subset DEF Triggers!Counted
<1> QED BY <1>1, <1>3, <1>4, <1>5, FS_AddElement

LEMMA CountedOneLess ==
  ASSUME IsFiniteSet(Versions), BusTypes, NEW t \in Topics, NEW v \in Versions,
         cancels[v] # Triggers!NoCancel, cancels[v].topic = t,
         cancels' = [cancels EXCEPT ![v] = Triggers!NoCancel]
  PROVE  /\ Triggers!Cardinality(Triggers!Counted(t))' = Triggers!Cardinality(Triggers!Counted(t)) - 1
         /\ Triggers!Cardinality(Triggers!Counted(t)) \in Nat
         /\ \A u \in Topics \ {t} : Triggers!Counted(u)' = Triggers!Counted(u)
<1>1. \A S : Triggers!Cardinality(S) = Cardinality(S)
  BY DEF Triggers!Cardinality, Cardinality
<1>2. v \in Triggers!Counted(t) /\ Triggers!Counted(t)' = Triggers!Counted(t) \ {v}
  BY DEF Triggers!Counted, BusTypes
<1>3. \A u \in Topics \ {t} : Triggers!Counted(u)' = Triggers!Counted(u)
  BY DEF Triggers!Counted, BusTypes
<1>4. IsFiniteSet(Triggers!Counted(t))
  BY FS_Subset DEF Triggers!Counted
<1> QED BY <1>1, <1>2, <1>3, <1>4, FS_RemoveElement, FS_CardinalityType

(* Cancelling a key: the others of the topic keep their positions when it  *)
(* was the newest, and otherwise the topic counts as shifted.              *)
LEMMA CancelFollows ==
  ASSUME IsFiniteSet(Versions), "none" \notin Topics, BusTypes, Triggers!HandlersFollow,
         NEW v \in Versions, Triggers!BusCancel(v), NEW t \in Topics, cancels[v].topic = t
  PROVE  BusTypes' /\ Triggers!HandlersFollow'
<1> DEFINE i == cancels[v].idx
           s == bus[t]
<1>1. /\ cancels[v] # Triggers!NoCancel
      /\ bus' = [bus EXCEPT ![t] = IF i <= Len(s) THEN Triggers!RemoveAt(s, i) ELSE s]
      /\ cancels' = [cancels EXCEPT ![v] = Triggers!NoCancel]
      /\ shifted' = IF i = Len(s) THEN shifted ELSE shifted \union {t}
      /\ UNCHANGED desired
  BY DEF Triggers!BusCancel, Triggers!Gone
<1>2. cancels[v] \in Taken /\ t \in Topics /\ i \in Nat \ {0}
  BY <1>1 DEF BusTypes, Taken
<1>3. s \in Seq(Triggers!Handlers)
  BY <1>2 DEF BusTypes
<1> HIDE DEF i, s
<1>4. /\ bus'[t] \in Seq(Triggers!Handlers)
      /\ Len(bus'[t]) >= Len(s) - 1
      /\ i = Len(s) => /\ Len(bus'[t]) = Len(s) - 1
                       /\ \A j \in 1..(Len(s) - 1) : bus'[t][j] = s[j]
  <2>1. bus'[t] = IF i <= Len(s) THEN Triggers!RemoveAt(s, i) ELSE s
    BY <1>1, <1>2 DEF BusTypes
  <2>2. CASE i <= Len(s)
    <3>1. i \in 1..Len(s)
      BY <1>2, <1>3, <2>2
    <3>2. /\ Triggers!RemoveAt(s, i) \in Seq(Triggers!Handlers)
          /\ Len(Triggers!RemoveAt(s, i)) = Len(s) - 1
          /\ i = Len(s) => \A j \in 1..(Len(s) - 1) : Triggers!RemoveAt(s, i)[j] = s[j]
      BY <1>3, <3>1, HandlerRemoved
    <3> QED BY <1>3, <2>1, <2>2, <3>2
  <2>3. CASE ~(i <= Len(s))
    BY <1>2, <1>3, <2>1, <2>3
  <2> QED BY <2>2, <2>3
<1>5. \A u \in Topics \ {t} : bus'[u] = bus[u]
  BY <1>1 DEF BusTypes
<1>6. \A w \in Versions : cancels'[w] = IF w = v THEN Triggers!NoCancel ELSE cancels[w]
  BY <1>1 DEF BusTypes
<1>7. BusTypes'
  <2>1. cancels' \in [Versions -> Taken \union {Triggers!NoCancel}]
    BY <1>1 DEF BusTypes
  <2>2. bus' \in [Topics -> Seq(Triggers!Handlers)]
    BY <1>1, <1>4, <1>5 DEF BusTypes
  <2> QED BY <1>1, <2>1, <2>2 DEF BusTypes
<1>8. ASSUME NEW u \in Topics \ shifted' PROVE Triggers!OneToOne(u)'
  <2>1. Triggers!OneToOne(u) /\ (u = t => i = Len(s))
    BY <1>1, <1>8 DEF Triggers!HandlersFollow
  <2>2. CASE u = t
    <3>1. i = Len(s) /\ DOMAIN s = 1..Len(s) /\ DOMAIN bus'[t] = 1..(Len(s) - 1) /\ Len(s) \in Nat
      BY <1>3, <1>4, <2>1, <2>2
    <3>2. \A j \in 1..Len(s) : cancels[s[j].key] = [topic |-> t, idx |-> j] /\ s[j].key \in Versions
      <4> TAKE j \in 1..Len(s)
      <4>1. cancels[s[j].key] = [topic |-> t, idx |-> j]
        BY <2>1, <2>2, <3>1 DEF Triggers!OneToOne, s
      <4>2. s[j] \in Triggers!Handlers
        BY <1>3
      <4> QED BY <4>1, <4>2 DEF Triggers!Handlers
    <3>3. \A j \in 1..(Len(s) - 1) : cancels'[bus'[t][j].key] = [topic |-> t, idx |-> j]
      <4> TAKE j \in 1..(Len(s) - 1)
      <4>1. j \in 1..Len(s) /\ j # i /\ bus'[t][j] = s[j]
        BY <1>4, <3>1
      <4>2. cancels[s[j].key] = [topic |-> t, idx |-> j] /\ s[j].key \in Versions
        BY <3>2, <4>1
      <4>3. s[j].key # v
        BY <4>1, <4>2 DEF i
      <4> QED BY <1>6, <4>1, <4>2, <4>3
    <3>4. ASSUME NEW w \in Versions, cancels'[w] # Triggers!NoCancel, cancels'[w].topic = t
          PROVE  cancels'[w].idx \in 1..(Len(s) - 1) /\ bus'[t][cancels'[w].idx].key = w
      <4>1. w # v /\ cancels'[w] = cancels[w]
        BY <1>6, <3>4
      <4>2. cancels[w].idx \in 1..Len(s) /\ s[cancels[w].idx].key = w
        BY <2>1, <2>2, <3>1, <3>4, <4>1 DEF Triggers!OneToOne, Triggers!Counted, s
      <4>3. s[i].key = v
        BY <1>1, <2>1, <2>2, <3>1 DEF Triggers!OneToOne, Triggers!Counted, s, i
      <4>4. cancels[w].idx # Len(s)
        BY <3>1, <4>1, <4>2, <4>3
      <4>5. cancels[w].idx \in 1..(Len(s) - 1)
        BY <3>1, <4>2, <4>4
      <4> QED BY <1>4, <3>1, <4>1, <4>2, <4>5
    <3> QED BY <2>2, <3>1, <3>3, <3>4 DEF Triggers!OneToOne, Triggers!Counted
  <2>3. CASE u # t
    <3>1. bus'[u] = bus[u] /\ bus[u] \in Seq(Triggers!Handlers)
      BY <1>5, <2>3 DEF BusTypes
    <3>2. \A j \in DOMAIN bus[u] : bus[u][j].key \in Versions /\ bus[u][j].key # v
      <4> TAKE j \in DOMAIN bus[u]
      <4>1. bus[u][j].key \in Versions /\ cancels[bus[u][j].key] = [topic |-> u, idx |-> j]
        <5>1. bus[u][j] \in Triggers!Handlers
          BY <3>1
        <5> QED BY <2>1, <5>1 DEF Triggers!OneToOne, Triggers!Handlers
      <4> QED BY <2>3, <4>1
    <3> QED BY <1>6, <2>1, <3>1, <3>2 DEF Triggers!OneToOne, Triggers!Counted
  <2> QED BY <2>2, <2>3
<1>9. ASSUME NEW u \in Topics PROVE (Triggers!Cardinality(Triggers!Counted(u)) <= Len(bus[u]))'
  <2>1. Triggers!Cardinality(Triggers!Counted(u)) <= Len(bus[u])
    BY DEF Triggers!HandlersFollow
  <2>2. /\ Triggers!Cardinality(Triggers!Counted(t))' = Triggers!Cardinality(Triggers!Counted(t)) - 1
        /\ Triggers!Cardinality(Triggers!Counted(t)) \in Nat
        /\ \A w \in Topics \ {t} : Triggers!Counted(w)' = Triggers!Counted(w)
    BY <1>1, <1>2, CountedOneLess
  <2>3. CASE u = t
    BY <1>3, <1>4, <2>1, <2>2, <2>3 DEF s
  <2>4. CASE u # t
    <3>1. Triggers!Counted(u)' = Triggers!Counted(u) /\ bus'[u] = bus[u]
      BY <1>5, <2>2, <2>4
    <3>2. Triggers!Cardinality(Triggers!Counted(u))' = Triggers!Cardinality(Triggers!Counted(u))
      BY <3>1 DEF Triggers!Cardinality
    <3> QED BY <2>1, <3>1, <3>2
  <2> QED BY <2>3, <2>4
<1> QED BY <1>7, <1>8, <1>9 DEF Triggers!HandlersFollow

(* Subscribing a key: it is the newest of its topic.                       *)
LEMMA SubscribeFollows ==
  ASSUME IsFiniteSet(Versions), "none" \notin Topics, BusTypes, Triggers!HandlersFollow,
         NEW v \in Versions, Triggers!BusSubscribe(v), NEW t \in Topics, desired[v].config = t
  PROVE  BusTypes' /\ Triggers!HandlersFollow'
<1> DEFINE s == bus[t]
           h == [key |-> v, sub |-> desired[v]]
           c == [topic |-> t, idx |-> Len(s) + 1]
<1>1. /\ cancels[v] = Triggers!NoCancel /\ desired[v] # Triggers!NoSub
      /\ bus' = [bus EXCEPT ![t] = Append(s, h)]
      /\ cancels' = [cancels EXCEPT ![v] = c]
      /\ UNCHANGED <<desired, shifted>>
  BY DEF Triggers!BusSubscribe, Triggers!Missing, Triggers!Captured
<1>2. s \in Seq(Triggers!Handlers) /\ h \in Triggers!Handlers /\ c \in Taken /\ h.key = v /\ c.topic = t
  <2>1. s \in Seq(Triggers!Handlers) /\ Len(s) \in Nat
    BY DEF BusTypes
  <2>2. desired[v] \in Triggers!Subscriptions
    BY <1>1 DEF BusTypes, Subscriptable
  <2>3. h \in Triggers!Handlers /\ h.key = v
    BY <2>2 DEF Triggers!Handlers
  <2>4. c \in Taken /\ c.topic = t
    BY <2>1 DEF Taken
  <2> QED BY <2>1, <2>3, <2>4
<1>3. c # Triggers!NoCancel
  BY <1>2, CancelTyped
<1>4. c = [topic |-> t, idx |-> Len(s) + 1]
  OBVIOUS
<1> HIDE DEF s, h, c
<1>5. /\ bus'[t] \in Seq(Triggers!Handlers) /\ Len(bus'[t]) = Len(s) + 1
      /\ bus'[t][Len(s) + 1] = h /\ \A j \in 1..Len(s) : bus'[t][j] = s[j]
  BY <1>1, <1>2 DEF BusTypes
<1>6. \A u \in Topics \ {t} : bus'[u] = bus[u]
  BY <1>1 DEF BusTypes
<1>7. \A w \in Versions : cancels'[w] = IF w = v THEN c ELSE cancels[w]
  BY <1>1 DEF BusTypes
<1>8. BusTypes'
  <2>1. cancels' \in [Versions -> Taken \union {Triggers!NoCancel}]
    BY <1>1, <1>2 DEF BusTypes
  <2>2. bus' \in [Topics -> Seq(Triggers!Handlers)]
    BY <1>1, <1>5, <1>6 DEF BusTypes
  <2> QED BY <1>1, <2>1, <2>2 DEF BusTypes
<1>9. ASSUME NEW u \in Topics \ shifted' PROVE Triggers!OneToOne(u)'
  <2>1. Triggers!OneToOne(u)
    BY <1>1, <1>9 DEF Triggers!HandlersFollow
  <2>2. bus[u] \in Seq(Triggers!Handlers)
    BY DEF BusTypes
  <2>3. \A j \in DOMAIN bus[u] : bus[u][j].key \in Versions /\ bus[u][j].key # v
    <3> TAKE j \in DOMAIN bus[u]
    <3>1. bus[u][j].key \in Versions /\ cancels[bus[u][j].key] = [topic |-> u, idx |-> j]
      <4>1. bus[u][j] \in Triggers!Handlers
        BY <2>2
      <4> QED BY <2>1, <4>1 DEF Triggers!OneToOne, Triggers!Handlers
    <3>2. Triggers!NoCancel.topic = "none"
      BY DEF Triggers!NoCancel
    <3> QED BY <1>1, <3>1, <3>2
  <2>4. CASE u = t
    <3>1. DOMAIN s = 1..Len(s) /\ DOMAIN bus'[t] = 1..(Len(s) + 1) /\ Len(s) \in Nat
      BY <1>2, <1>5
    <3>2. \A j \in 1..(Len(s) + 1) : cancels'[bus'[t][j].key] = [topic |-> t, idx |-> j]
      <4> TAKE j \in 1..(Len(s) + 1)
      <4>1. CASE j = Len(s) + 1
        BY <1>2, <1>4, <1>5, <1>7, <4>1
      <4>2. CASE j # Len(s) + 1
        <5>1. j \in 1..Len(s)
          BY <3>1, <4>2
        <5> QED BY <1>5, <1>7, <2>1, <2>3, <2>4, <3>1, <5>1 DEF Triggers!OneToOne, s
      <4> QED BY <4>1, <4>2
    <3>3. ASSUME NEW w \in Versions, cancels'[w] # Triggers!NoCancel, cancels'[w].topic = t
          PROVE  cancels'[w].idx \in 1..(Len(s) + 1) /\ bus'[t][cancels'[w].idx].key = w
      <4>1. CASE w = v
        BY <1>2, <1>4, <1>5, <1>7, <3>1, <4>1
      <4>2. CASE w # v
        <5>1. cancels[w].idx \in 1..Len(s) /\ s[cancels[w].idx].key = w
          BY <1>7, <2>1, <2>4, <3>1, <3>3, <4>2 DEF Triggers!OneToOne, Triggers!Counted, s
        <5> QED BY <1>5, <1>7, <3>1, <4>2, <5>1
      <4> QED BY <4>1, <4>2
    <3> QED BY <2>4, <3>1, <3>2, <3>3 DEF Triggers!OneToOne, Triggers!Counted
  <2>5. CASE u # t
    <3>1. bus'[u] = bus[u]
      BY <1>6, <2>5
    <3>2. Triggers!Counted(u)' = Triggers!Counted(u)
      BY <1>1, <1>2, <1>7, <2>5 DEF Triggers!Counted
    <3>3. \A w \in Triggers!Counted(u) : w \in Versions /\ w # v
      BY <1>1 DEF Triggers!Counted
    <3> QED BY <1>7, <2>1, <2>3, <3>1, <3>2, <3>3 DEF Triggers!OneToOne
  <2> QED BY <2>4, <2>5
<1>10. ASSUME NEW u \in Topics PROVE (Triggers!Cardinality(Triggers!Counted(u)) <= Len(bus[u]))'
  <2>1. Triggers!Cardinality(Triggers!Counted(u)) <= Len(bus[u])
    BY DEF Triggers!HandlersFollow
  <2>2. /\ Triggers!Cardinality(Triggers!Counted(t))' = Triggers!Cardinality(Triggers!Counted(t)) + 1
        /\ \A w \in Topics \ {t} : Triggers!Counted(w)' = Triggers!Counted(w)
    BY <1>1, <1>2, CountedOneMore
  <2>3. CASE u = t
    <3>1. Triggers!Cardinality(Triggers!Counted(t)) \in Nat
      <4>1. \A S : Triggers!Cardinality(S) = Cardinality(S)
        BY DEF Triggers!Cardinality, Cardinality
      <4>2. IsFiniteSet(Triggers!Counted(t))
        BY FS_Subset DEF Triggers!Counted
      <4> QED BY <4>1, <4>2, FS_CardinalityType
    <3> QED BY <1>2, <1>5, <2>1, <2>2, <2>3, <3>1 DEF s
  <2>4. CASE u # t
    <3>1. Triggers!Counted(u)' = Triggers!Counted(u) /\ bus'[u] = bus[u]
      BY <1>6, <2>2, <2>4
    <3>2. Triggers!Cardinality(Triggers!Counted(u))' = Triggers!Cardinality(Triggers!Counted(u))
      BY <3>1 DEF Triggers!Cardinality
    <3> QED BY <2>1, <3>1, <3>2
  <2> QED BY <2>3, <2>4
<1> QED BY <1>8, <1>9, <1>10 DEF Triggers!HandlersFollow

(* The end of the router's Refresh, when nothing it read is left to do.    *)
LEMMA BusFollows ==
  ASSUME TriggersTypeOK, Triggers!IndexComplete, ReadIsCurrent, Triggers!BusRefreshed, busFresh
  PROVE  Triggers!BusKeysFollow'
<1>1. /\ refreshing /\ \A v \in Versions : ~Triggers!Gone(v) /\ ~Triggers!Missing(v)
      /\ subs' = subs /\ cancels' = cancels
  BY DEF Triggers!BusRefreshed, Triggers!registryVars
<1>2. \A v \in Versions :
        desired[v] = IF v \in Triggers!ByType("event-bus") THEN subs[v] ELSE Triggers!NoSub
  BY <1>1 DEF ReadIsCurrent
<1>3. ASSUME NEW v \in Versions, cancels[v] # Triggers!NoCancel PROVE v \in Triggers!Registered
  BY <1>1, <1>2, <1>3 DEF Triggers!Gone, Triggers!ByType
<1>4. ASSUME NEW v \in Triggers!Registered, subs[v].type = "event-bus", subs[v].config \in Topics
      PROVE  cancels[v] # Triggers!NoCancel
  <2>1. v \in Versions /\ v \in Triggers!ByType("event-bus") /\ subs[v] # Triggers!NoSub
    BY <1>4 DEF Triggers!IndexComplete, Triggers!Registered
  <2> QED BY <1>1, <1>2, <1>4, <2>1 DEF Triggers!Missing
<1> QED BY <1>1, <1>3, <1>4 DEF Triggers!BusKeysFollow, Triggers!Registered

(* Every step keeps the entries, the cancel functions and the handlers in  *)
(* line with the registry.                                                 *)
LEMMA KeysStep ==
  ASSUME IsFiniteSet(Versions), "none" \notin Topics, TriggersInv, [Triggers!Next]_(Triggers!vars)
  PROVE  BusTypes' /\ ReadIsCurrent' /\ Triggers!KeysFollow'
<1> USE DEF TriggersInv
<1>a. ASSUME UNCHANGED <<bus, cancels, shifted>> PROVE Triggers!HandlersFollow'
  <2>1. Triggers!HandlersFollow
    BY DEF Triggers!KeysFollow
  <2> QED BY <1>a, <2>1 DEF Triggers!HandlersFollow, Triggers!OneToOne, Triggers!Counted
<1>b. ASSUME UNCHANGED <<subs, cancels>>, Triggers!BusKeysFollow PROVE Triggers!BusKeysFollow'
  BY <1>b DEF Triggers!BusKeysFollow, Triggers!Registered
<1>c. ASSUME UNCHANGED <<subs, entries>>, Triggers!CronKeysFollow PROVE Triggers!CronKeysFollow'
  BY <1>c DEF Triggers!CronKeysFollow, Triggers!Registered, Triggers!Schedulable
<1>1. CASE (\E v \in Versions : \E sub \in Triggers!Subscriptions : Triggers!IngestWorkflow(v, sub))
           \/ (\E v \in Versions : Triggers!RemoveWorkflowVersion(v))
  <2>1. /\ UNCHANGED <<entries, bus, cancels, refreshing, desired, shifted>>
        /\ cronFresh' = FALSE /\ busFresh' = FALSE
    BY <1>1 DEF Triggers!IngestWorkflow, Triggers!RemoveWorkflowVersion, Triggers!Changed
  <2> QED BY <2>1, <1>a DEF Triggers!KeysFollow, BusTypes, ReadIsCurrent
<1>2. CASE Triggers!CronRefresh
  <2>1. Triggers!CronKeysFollow'
    BY <1>2, CronFollows
  <2>2. UNCHANGED <<subs, byType, bus, cancels, refreshing, desired, busFresh, shifted>>
    BY <1>2 DEF Triggers!CronRefresh, Triggers!registryVars, Triggers!busVars
  <2> QED BY <2>1, <2>2, <1>a, <1>b DEF Triggers!KeysFollow, BusTypes, ReadIsCurrent, Triggers!ByType, Triggers!Registered
<1>3. CASE Triggers!BusRefresh
  <2>1. /\ desired' = [v \in Versions |-> IF v \in Triggers!ByType("event-bus") THEN subs[v] ELSE Triggers!NoSub]
        /\ refreshing'
        /\ UNCHANGED <<subs, byType, entries, bus, cancels, cronFresh, shifted>>
    BY <1>3 DEF Triggers!BusRefresh, Triggers!registryVars
  <2>2. BusTypes'
    BY <2>1 DEF BusTypes, TriggersTypeOK, Subscriptable
  <2>3. ReadIsCurrent'
    BY <2>1 DEF ReadIsCurrent, Triggers!ByType, Triggers!Registered
  <2> QED BY <2>1, <2>2, <2>3, <1>a, <1>c DEF Triggers!KeysFollow
<1>4. ASSUME NEW v \in Versions, Triggers!BusCancel(v) \/ Triggers!BusSubscribe(v)
      PROVE  BusTypes' /\ ReadIsCurrent' /\ Triggers!KeysFollow'
  <2>1. UNCHANGED <<subs, byType, entries, refreshing, desired, cronFresh, busFresh>> /\ refreshing
    BY <1>4 DEF Triggers!BusCancel, Triggers!BusSubscribe, Triggers!registryVars, Triggers!Gone, Triggers!Missing
  <2>2. BusTypes' /\ Triggers!HandlersFollow'
    <3>1. CASE Triggers!BusCancel(v)
      <4>1. cancels[v] \in Taken
        BY <3>1 DEF Triggers!BusCancel, Triggers!Gone, BusTypes
      <4>2. PICK t \in Topics : cancels[v].topic = t
        BY <4>1 DEF Taken
      <4> QED BY <3>1, <4>2, CancelFollows DEF Triggers!KeysFollow
    <3>2. CASE Triggers!BusSubscribe(v)
      <4>1. PICK t \in Topics : desired[v].config = t
        BY <3>2 DEF Triggers!BusSubscribe, Triggers!Missing
      <4> QED BY <3>2, <4>1, SubscribeFollows DEF Triggers!KeysFollow
    <3> QED BY <1>4, <3>1, <3>2
  <2> QED BY <2>1, <2>2, <1>c DEF Triggers!KeysFollow, ReadIsCurrent, Triggers!ByType, Triggers!Registered
<1>5. CASE Triggers!BusRefreshed
  <2>1. /\ desired' = Triggers!Nothing /\ ~refreshing'
        /\ UNCHANGED <<subs, byType, entries, bus, cancels, cronFresh, busFresh, shifted>>
    BY <1>5 DEF Triggers!BusRefreshed, Triggers!registryVars
  <2>2. BusTypes' /\ ReadIsCurrent'
    BY <2>1 DEF BusTypes, ReadIsCurrent, Triggers!Nothing, Subscriptable
  <2>3. busFresh' => Triggers!BusKeysFollow'
    BY <1>5, <2>1, BusFollows
  <2> QED BY <2>1, <2>2, <2>3, <1>a, <1>c DEF Triggers!KeysFollow
<1>6. CASE UNCHANGED Triggers!vars
  <2>1. UNCHANGED <<subs, byType, entries, bus, cancels, refreshing, desired, cronFresh, busFresh, shifted>>
    BY <1>6 DEF Triggers!vars
  <2> QED BY <2>1, <1>a, <1>b, <1>c DEF Triggers!KeysFollow, BusTypes, ReadIsCurrent, Triggers!ByType, Triggers!Registered
<1> QED BY <1>1, <1>2, <1>3, <1>4, <1>5, <1>6 DEF Triggers!Next

(* The first states satisfy the invariant.                                 *)
LEMMA TriggersInit ==
  ASSUME IsFiniteSet(Versions), "none" \notin Topics
  PROVE  Triggers!Init => TriggersInv
<1> SUFFICES ASSUME Triggers!Init PROVE TriggersInv
  OBVIOUS
<1>1. TriggersTypeOK /\ BusTypes
  BY DEF Triggers!Init, TriggersTypeOK, BusTypes, Triggers!Nothing, Subscriptable
<1>2. Triggers!Registered = {}
  BY DEF Triggers!Init, Triggers!Registered, Triggers!Nothing
<1>3. /\ \A v \in Versions : entries[v] = Triggers!NoSub /\ cancels[v] = Triggers!NoCancel
      /\ \A t \in Topics : bus[t] = <<>>
      /\ ~refreshing
  BY DEF Triggers!Init, Triggers!Nothing
<1>4. \A t \in Topics : Triggers!Counted(t) = {} /\ Triggers!OneToOne(t)
  BY <1>3 DEF Triggers!Counted, Triggers!OneToOne
<1>5. Triggers!HandlersFollow
  <2>1. \A S : Triggers!Cardinality(S) = Cardinality(S)
    BY DEF Triggers!Cardinality, Cardinality
  <2>2. ASSUME NEW t \in Topics PROVE Triggers!Cardinality(Triggers!Counted(t)) <= Len(bus[t])
    <3>1. Triggers!Cardinality(Triggers!Counted(t)) = 0 /\ Len(bus[t]) = 0
      BY <1>3, <1>4, <2>1, FS_EmptySet
    <3> QED BY <3>1
  <2> QED BY <1>4, <2>2 DEF Triggers!HandlersFollow
<1> QED
  BY <1>1, <1>2, <1>3, <1>5
  DEF TriggersInv, ReadIsCurrent, Triggers!IndexComplete, Triggers!KeysFollow, Triggers!CronKeysFollow, Triggers!BusKeysFollow

(* Every registered subscription is found under its type, whatever types   *)
(* its version had before (Registry.ByType).                               *)
THEOREM RegistryIndexComplete == Triggers!Spec => []Triggers!IndexComplete
<1>1. Triggers!Init => TriggersTypeOK /\ Triggers!IndexComplete
  BY DEF Triggers!Init, TriggersTypeOK, Triggers!Nothing, Subscriptable, Triggers!IndexComplete, Triggers!Registered
<1>2. TriggersTypeOK /\ Triggers!IndexComplete /\ [Triggers!Next]_(Triggers!vars) => TriggersTypeOK' /\ Triggers!IndexComplete'
  BY IndexStep
<1> QED BY <1>1, <1>2, PTL DEF Triggers!Spec

(* With finitely many versions and no topic that has the name of none, a   *)
(* refresh leaves running what the registry lists and nothing else, and    *)
(* the handlers on the bus are one to one with the cancel functions until  *)
(* one other than the newest of a topic is cancelled (EventBusRouter,      *)
(* ChannelBus).                                                            *)
THEOREM RegistryKeysFollow == Triggers!Spec => []Triggers!KeysFollow
<1>1. Triggers!Init => TriggersInv
  BY TriggersInit, VersionsCounted
<1>2. TriggersInv /\ [Triggers!Next]_(Triggers!vars) => TriggersInv'
  BY IndexStep, KeysStep, VersionsCounted DEF TriggersInv
<1>3. TriggersInv => Triggers!KeysFollow
  BY DEF TriggersInv
<1> QED BY <1>1, <1>2, <1>3, PTL DEF Triggers!Spec

-----------------------------------------------------------------------------
(* The poller.  A message that is older than one of the batch has been     *)
(* dispatched, has failed, or is in the batch too: what arrives during a   *)
(* poll is no older than what the poll returned.                           *)
InBatch(m)  == \E i \in DOMAIN batch : batch[i] = m
MailAnswered(m) == fired[m] > 0 \/ m \in failed \/ InBatch(m)

MailTypes ==
  /\ received \in [Messages -> Nat] /\ fired \in [Messages -> Nat]
  /\ now \in Nat \ {0} /\ lastSeen \in Nat /\ batch \in Seq(Messages)
  /\ lastSeen <= now /\ \A m \in Messages : received[m] <= now

OlderAnswered ==
  \A i \in DOMAIN batch : received[batch[i]] # 0 /\ \A m \in Matching :
    received[m] # 0 /\ received[m] < received[batch[i]] => MailAnswered(m)

MailInv == MailTypes /\ Triggers!NothingOverlooked /\ OlderAnswered

(* Handling the first of the batch answers it, and no other is forgotten.  *)
LEMMA HeadHandled ==
  ASSUME MailTypes, batch # <<>>, batch' = Tail(batch), UNCHANGED received,
         fired' \in [Messages -> Nat],
         \A m \in Messages : fired'[m] >= fired[m], failed \subseteq failed',
         Head(batch) \in Matching => fired'[Head(batch)] > 0 \/ Head(batch) \in failed'
  PROVE  /\ batch' \in Seq(Messages)
         /\ \A i \in DOMAIN batch' : \E j \in DOMAIN batch : batch'[i] = batch[j]
         /\ \A m \in Matching \cap Messages : MailAnswered(m) => MailAnswered(m)'
<1>1. /\ batch' \in Seq(Messages) /\ Len(batch') = Len(batch) - 1 /\ Len(batch) \in Nat \ {0}
      /\ \A i \in 1..Len(batch') : batch'[i] = batch[i + 1]
      /\ Head(batch) = batch[1]
  BY DEF MailTypes
<1>2. DOMAIN batch = 1..Len(batch) /\ DOMAIN batch' = 1..Len(batch')
  BY <1>1 DEF MailTypes
<1>3. \A i \in DOMAIN batch' : i + 1 \in DOMAIN batch /\ batch'[i] = batch[i + 1]
  BY <1>1, <1>2
<1>4. ASSUME NEW m \in Matching \cap Messages, MailAnswered(m) PROVE MailAnswered(m)'
  <2>1. CASE fired[m] > 0 \/ m \in failed
    <3>1. fired[m] \in Nat /\ fired'[m] \in Nat /\ fired'[m] >= fired[m]
      BY DEF MailTypes
    <3> QED BY <2>1, <3>1 DEF MailAnswered
  <2>2. CASE InBatch(m)
    <3>1. PICK i \in 1..Len(batch) : batch[i] = m
      BY <1>2, <2>2 DEF InBatch
    <3>2. CASE i = 1
      BY <1>1, <3>1, <3>2 DEF MailAnswered
    <3>3. CASE i # 1
      <4>1. i - 1 \in DOMAIN batch' /\ batch'[i - 1] = m
        BY <1>1, <1>2, <3>1, <3>3
      <4> QED BY <4>1 DEF MailAnswered, InBatch
    <3> QED BY <3>2, <3>3
  <2> QED BY <1>4, <2>1, <2>2 DEF MailAnswered
<1> QED BY <1>1, <1>3, <1>4

(* A dispatch moves lastSeen to the time of what was dispatched, unless it *)
(* was further already.                                                    *)
LEMMA AdvanceIsLater ==
  ASSUME NEW m \in Messages, MailTypes
  PROVE  /\ Triggers!Advance(m) \in Nat
         /\ Triggers!Advance(m) = IF lastSeen >= received[m] THEN lastSeen ELSE received[m]
<1> DEFINE S == {lastSeen, received[m]}
           big == IF lastSeen >= received[m] THEN lastSeen ELSE received[m]
<1>1. lastSeen \in Nat /\ received[m] \in Nat
  BY DEF MailTypes
<1>2. big \in S /\ \A y \in S : big >= y
  BY <1>1
<1>3. Triggers!Advance(m) = CHOOSE x \in S : \A y \in S : x >= y
  BY DEF Triggers!Advance, Triggers!Max
<1>4. \A x \in S : (\A y \in S : x >= y) => x = big
  BY <1>1
<1> QED BY <1>1, <1>2, <1>3, <1>4

(* Every poll, arrival and change of the subscription keeps it.            *)
LEMMA MailStep ==
  ASSUME IsFiniteSet(Messages), Matching \subseteq Messages, MailInv, [Triggers!MailNext]_(Triggers!mailVars)
  PROVE  MailInv'
<1>1. CASE Triggers!ClockAdvances
  BY <1>1 DEF Triggers!ClockAdvances, MailInv, MailTypes, Triggers!NothingOverlooked, OlderAnswered, MailAnswered,
      InBatch, Triggers!Reachable, Triggers!Since
<1>2. ASSUME NEW n \in Messages, Triggers!Arrive(n) PROVE MailInv'
  <2>1. /\ received' = [received EXCEPT ![n] = now] /\ received[n] = 0
        /\ UNCHANGED <<now, batch, lastSeen, fired, failed>>
    BY <1>2 DEF Triggers!Arrive
  <2>2. MailTypes'
    BY <2>1 DEF MailInv, MailTypes
  <2>3. \A m \in Messages : m # n => received'[m] = received[m]
    BY <2>1 DEF MailInv, MailTypes
  <2>4. received'[n] = now /\ now \in Nat \ {0} /\ lastSeen \in Nat /\ lastSeen <= now
    BY <2>1 DEF MailInv, MailTypes
  <2>5. ASSUME NEW m \in Matching, received'[m] # 0
        PROVE  fired'[m] > 0 \/ Triggers!Reachable(m)' \/ m \in failed'
    <3>1. CASE m = n
      BY <2>1, <2>4, <3>1 DEF Triggers!Reachable, Triggers!Since
    <3>2. CASE m # n
      BY <2>1, <2>3, <2>5, <3>2 DEF MailInv, Triggers!NothingOverlooked, Triggers!Reachable, Triggers!Since
    <3> QED BY <3>1, <3>2
  <2>6. \A i \in DOMAIN batch' : received'[batch'[i]] # 0
    <3>1. \A i \in DOMAIN batch : batch[i] \in Messages /\ received[batch[i]] # 0
      BY DEF MailInv, MailTypes, OlderAnswered
    <3> QED BY <2>1, <2>3, <2>4, <3>1
  <2>7. ASSUME NEW i \in DOMAIN batch', NEW m \in Matching,
               received'[m] # 0, received'[m] < received'[batch'[i]]
        PROVE  MailAnswered(m)'
    <3>1. batch'[i] = batch[i] /\ batch[i] \in Messages /\ i \in DOMAIN batch
      BY <2>1 DEF MailInv, MailTypes
    <3>2. \A k \in Messages : received[k] <= now /\ received[k] \in Nat
      BY DEF MailInv, MailTypes
    <3>3. m # n
      BY <2>1, <2>3, <2>4, <2>7, <3>1, <3>2
    <3>4. CASE batch[i] = n
      BY <2>1, <3>1, <3>4 DEF MailInv, OlderAnswered
    <3>5. CASE batch[i] # n
      <4>1. MailAnswered(m)
        BY <2>3, <2>7, <3>1, <3>3, <3>5 DEF MailInv, OlderAnswered
      <4> QED BY <2>1, <4>1 DEF MailAnswered, InBatch
    <3> QED BY <3>4, <3>5
  <2> QED BY <2>2, <2>5, <2>6, <2>7 DEF MailInv, Triggers!NothingOverlooked, OlderAnswered
<1>3. CASE Triggers!Poll
  <2>1. /\ batch = <<>> /\ batch' \in Triggers!SetToSeqs(Triggers!Since(lastSeen))
        /\ UNCHANGED <<received, now, lastSeen, fired, failed>>
    BY <1>3 DEF Triggers!Poll
  <2>2. IsFiniteSet(Triggers!Since(lastSeen))
    <3>1. Triggers!Since(lastSeen) \subseteq Messages
      BY DEF Triggers!Since
    <3> QED BY <3>1, FS_Subset
  <2>3. \A m \in Triggers!Since(lastSeen) : InBatch(m)'
    BY <2>1, <2>2, OrderComplete DEF InBatch
  <2>4. /\ batch' \in Seq(Messages)
        /\ \A i \in DOMAIN batch' : batch'[i] \in Triggers!Since(lastSeen)
    <3> DEFINE n == Cardinality(Triggers!Since(lastSeen))
    <3>1. batch' \in [1..n -> Triggers!Since(lastSeen)]
      BY <2>1, OrdersCount, Zenon DEF Injection
    <3>2. n \in Nat
      BY <2>2, FS_CardinalityType
    <3> HIDE DEF n
    <3>3. Triggers!Since(lastSeen) \subseteq Messages
      BY DEF Triggers!Since
    <3>4. batch' \in [1..n -> Messages]
      BY <3>1, <3>3
    <3> QED BY <3>1, <3>2, <3>4
  <2>5. \A m \in Matching : received[m] # 0 => fired[m] > 0 \/ m \in failed \/ m \in Triggers!Since(lastSeen)
    BY <2>1 DEF MailInv, Triggers!NothingOverlooked, Triggers!Reachable
  <2>6. MailTypes'
    BY <2>1, <2>4 DEF MailInv, MailTypes
  <2>7. Triggers!NothingOverlooked'
    BY <2>1, <2>5 DEF Triggers!NothingOverlooked, Triggers!Reachable, Triggers!Since
  <2>8. OlderAnswered'
    BY <2>1, <2>3, <2>4, <2>5 DEF OlderAnswered, MailAnswered, InBatch, Triggers!Since
  <2> QED BY <2>6, <2>7, <2>8 DEF MailInv
<1>4. CASE Triggers!Skip \/ Triggers!DispatchFailed
  <2>1. /\ batch # <<>> /\ batch' = Tail(batch) /\ failed \subseteq failed'
        /\ UNCHANGED <<received, now, lastSeen, fired>>
        /\ Head(batch) \in Matching => Head(batch) \in failed'
    BY <1>4 DEF Triggers!Skip, Triggers!DispatchFailed, Triggers!Passes
  <2>2. fired' \in [Messages -> Nat] /\ \A m \in Messages : fired'[m] >= fired[m]
    BY <2>1 DEF MailInv, MailTypes
  <2>3. /\ batch' \in Seq(Messages)
        /\ \A i \in DOMAIN batch' : \E j \in DOMAIN batch : batch'[i] = batch[j]
        /\ \A m \in Matching : MailAnswered(m) => MailAnswered(m)'
    BY <2>1, <2>2, HeadHandled DEF MailInv
  <2>4. MailTypes'
    BY <2>1, <2>3 DEF MailInv, MailTypes
  <2>5. Triggers!NothingOverlooked'
    <3> SUFFICES ASSUME NEW m \in Matching, received[m] # 0
                 PROVE  fired'[m] > 0 \/ Triggers!Reachable(m)' \/ m \in failed'
      BY <2>1 DEF Triggers!NothingOverlooked
    <3>1. MailAnswered(m) \/ m \in Triggers!Since(lastSeen)
      BY DEF MailInv, Triggers!NothingOverlooked, Triggers!Reachable, MailAnswered, InBatch
    <3> QED BY <2>1, <2>3, <3>1 DEF MailAnswered, InBatch, Triggers!Reachable, Triggers!Since
  <2>6. OlderAnswered'
    BY <2>1, <2>3 DEF MailInv, OlderAnswered
  <2> QED BY <2>4, <2>5, <2>6 DEF MailInv
<1>5. CASE Triggers!Dispatched
  <2> DEFINE h == Head(batch)
  <2>1. /\ batch # <<>> /\ batch' = Tail(batch) /\ lastSeen' = Triggers!Advance(h)
        /\ fired' = [fired EXCEPT ![h] = @ + 1]
        /\ UNCHANGED <<received, now, failed>>
    BY <1>5 DEF Triggers!Dispatched
  <2>2. h \in Messages /\ batch[1] = h /\ 1 \in DOMAIN batch
    BY <2>1 DEF MailInv, MailTypes
  <2> HIDE DEF h
  <2>3. /\ fired' \in [Messages -> Nat] /\ \A m \in Messages : fired'[m] >= fired[m]
        /\ fired'[h] > 0
    BY <2>1, <2>2 DEF MailInv, MailTypes
  <2>4. /\ batch' \in Seq(Messages)
        /\ \A i \in DOMAIN batch' : \E j \in DOMAIN batch : batch'[i] = batch[j]
        /\ \A m \in Matching : MailAnswered(m) => MailAnswered(m)'
    BY <2>1, <2>3, HeadHandled DEF MailInv, h
  <2>5. lastSeen' \in Nat
        /\ lastSeen' = IF lastSeen >= received[h] THEN lastSeen ELSE received[h]
    BY <2>1, <2>2, AdvanceIsLater DEF MailInv
  <2>6. MailTypes'
    BY <2>1, <2>2, <2>3, <2>4, <2>5 DEF MailInv, MailTypes
  <2>7. Triggers!NothingOverlooked'
    <3> SUFFICES ASSUME NEW m \in Matching, received[m] # 0
                 PROVE  fired'[m] > 0 \/ Triggers!Reachable(m)' \/ m \in failed'
      BY <2>1 DEF Triggers!NothingOverlooked
    <3>1. CASE MailAnswered(m)
      BY <2>4, <3>1 DEF MailAnswered, InBatch, Triggers!Reachable
    <3>2. CASE ~MailAnswered(m)
      <4>1. m \in Triggers!Since(lastSeen) /\ ~(received[m] < received[h])
        BY <2>2, <3>2 DEF MailInv, Triggers!NothingOverlooked, OlderAnswered, Triggers!Reachable, MailAnswered, InBatch
      <4>2. received[m] \in Nat /\ received[h] \in Nat /\ lastSeen \in Nat
        BY <2>2 DEF MailInv, MailTypes
      <4> QED BY <2>1, <2>5, <4>1, <4>2 DEF Triggers!Reachable, Triggers!Since
    <3> QED BY <3>1, <3>2
  <2>8. OlderAnswered'
    BY <2>1, <2>4 DEF MailInv, OlderAnswered
  <2> QED BY <2>6, <2>7, <2>8 DEF MailInv
<1>6. CASE UNCHANGED Triggers!mailVars
  BY <1>6 DEF Triggers!mailVars, MailInv, MailTypes, Triggers!NothingOverlooked, OlderAnswered, MailAnswered,
      InBatch, Triggers!Reachable, Triggers!Since
<1> QED BY <1>1, <1>2, <1>3, <1>4, <1>5, <1>6 DEF Triggers!MailNext

(* The mailbox, whatever the registry does beside it.                      *)
LEMMA MailAlways ==
  ASSUME IsFiniteSet(Messages), Matching \subseteq Messages
  PROVE  /\ Triggers!MailInit => MailInv
         /\ MailInv /\ [Triggers!MailNext]_(Triggers!mailVars) => MailInv'
         /\ MailInv => Triggers!NothingOverlooked
<1>1. Triggers!MailInit => MailInv
  BY DEF Triggers!MailInit, MailInv, MailTypes, Triggers!NothingOverlooked, OlderAnswered
<1> QED BY <1>1, MailStep DEF MailInv

(* No matching message is passed over by the poller, whatever arrives      *)
(* during a poll, with equal times too, and however the subscription       *)
(* changes meanwhile (NothingOverlooked; EmailPoller.pollOne).             *)
THEOREM MailNotOverlooked ==
  ASSUME IsFiniteSet(Messages), Matching \subseteq Messages
  PROVE  Triggers!SourcesSpec => []Triggers!NothingOverlooked
<1>1. Triggers!SourcesInit => MailInv
  BY MailAlways DEF Triggers!SourcesInit
<1>2. MailInv /\ [Triggers!SourcesNext]_<<Triggers!vars, Triggers!mailVars>> => MailInv'
  BY MailAlways DEF Triggers!SourcesNext, Triggers!PollerStep
<1>3. MailInv => Triggers!NothingOverlooked
  BY MailAlways
<1> QED BY <1>1, <1>2, <1>3, PTL DEF Triggers!SourcesSpec
-----------------------------------------------------------------------------
(* Alfred: the sessions of agent mode.                                     *)

(* What the proof needs of the constants.                                  *)
RunsNumbered == MaxRuns \in Nat \ {0} /\ ToolSteps \subseteq Nat

Pcs == {"starting", "loading", "next", "gates", "succeeded", "failed", "resuming"}
RowStatus == Agent!Done \cup Agent!Paused \cup {"running", "failed"}
Entry == [item : Nat, idx : Nat, kind : {"tool", "final"}]
Ended == {"succeeded", "failed"}
StepRow == [idx : Nat, item : Nat, kind : {"tool", "final"},
            status : RowStatus]
ActiveRun == [pc : Pcs, from : Nat, safe : BOOLEAN, plan : Seq(Entry), revision : Nat,
              seen : Seq(StepRow), pos : Nat, row : Nat]

AgentTypes ==
  /\ session \in [status : Agent!Statuses, plan : Seq(Entry), revision : Nat]
  /\ steps \in Seq(StepRow) /\ calls \in Seq(Nat) /\ minted \in Nat
  /\ runs \in [Agent!RunIds -> {Agent!NoRun, Agent!Over} \cup ActiveRun]
  /\ \/ followUp = Agent!Nothing
     \/ followUp \in [read : {TRUE}, status : Agent!Statuses, plan : Seq(Entry), item : Nat]

(* The entries of a plan are numbered and no item is in it twice.          *)
Numbered(plan) ==
  /\ \A k \in DOMAIN plan : plan[k].idx = k - 1 /\ plan[k].item <= minted
  /\ \A j, k \in DOMAIN plan : plan[j].item = plan[k].item => j = k

(* The rows are the first entries of the plan.                             *)
Aligned(rows, plan) ==
  /\ Len(rows) <= Len(plan)
  /\ \A k \in DOMAIN rows : /\ rows[k].idx = k - 1
                           /\ rows[k].item = plan[k].item
                           /\ rows[k].kind = plan[k].kind
  /\ \A k \in DOMAIN rows : k < Len(rows) => rows[k].status \in Ended

AllEnded   == \A k \in DOMAIN steps : steps[k].status \in Ended
Called(i)  == \E j \in DOMAIN calls : calls[j] = i
Waits      == /\ steps # <<>> /\ steps[Len(steps)].status \in Agent!Paused
              /\ ~Called(steps[Len(steps)].item)

(* The calls are those of rows, in their order.                            *)
CallsOrdered ==
  /\ \A j \in DOMAIN calls : \E k \in DOMAIN steps : steps[k].item = calls[j]
  /\ \A i, j \in DOMAIN calls : i < j =>
       \A k, l \in DOMAIN steps : steps[k].item = calls[i] /\ steps[l].item = calls[j] => k < l
  /\ \A k \in DOMAIN steps : steps[k].status = "succeeded" =>
       steps[k].kind = "final" \/ Called(steps[k].item)

(* Where a run goes on: behind the rows, or at the one that waits.         *)
Onward(r) ==
  \/ AllEnded /\ runs[r].from = Len(steps)
  \/ Waits /\ runs[r].from + 1 = Len(steps)

SeenBefore(r) ==
  /\ Len(runs[r].seen) <= Len(steps)
  /\ \A k \in DOMAIN runs[r].seen : runs[r].seen[k].idx = k - 1

RunSound(r) ==
  /\ session.status # "none"
  /\ runs[r].pc = "resuming" => session.status \in Agent!Paused /\ Waits
  /\ runs[r].pc \in {"starting", "loading"} => Onward(r)
  /\ runs[r].pc = "next" =>
       /\ runs[r].plan = session.plan
       /\ \/ runs[r].pos = 1 /\ runs[r].seen = steps /\ Onward(r)
          \/ /\ AllEnded /\ runs[r].pos = Len(steps) + 1
             /\ runs[r].from < runs[r].pos /\ SeenBefore(r)
  /\ runs[r].pc \in {"gates", "succeeded", "failed"} =>
       /\ runs[r].plan = session.plan
       /\ runs[r].row = Len(steps) /\ runs[r].pos = Len(steps) /\ steps # <<>>
       /\ runs[r].from < runs[r].pos /\ SeenBefore(r)
       /\ steps[Len(steps)].status = "running"
       /\ runs[r].pc = "gates" => ~Called(steps[Len(steps)].item)
       /\ runs[r].pc = "succeeded" => \/ steps[Len(steps)].kind = "final"
                                      \/ Called(steps[Len(steps)].item)

Rests ==
  \/ /\ session.status = "none" /\ steps = <<>> /\ calls = <<>>
     /\ \A r \in Agent!RunIds : runs[r] = Agent!NoRun
  \/ session.status = "completed" /\ AllEnded /\ Len(steps) = Len(session.plan)
  \/ session.status \in Agent!Paused /\ Waits
  \/ session.status = "aborted"

FollowUpKept ==
  followUp.read =>
    /\ Agent!Idle /\ session.status \in Agent!Paused \cup {"completed"}
    /\ followUp.plan = session.plan /\ followUp.status = session.status
    /\ followUp.item <= minted
    /\ \A k \in DOMAIN session.plan : session.plan[k].item # followUp.item

AgentSteady ==
  /\ AgentTypes /\ Numbered(session.plan) /\ Aligned(steps, session.plan) /\ CallsOrdered
  /\ \A q, r \in Agent!RunIds : Agent!Active(q) /\ Agent!Active(r) => q = r
  /\ \A r \in Agent!RunIds : Agent!Active(r) => RunSound(r)
  /\ Agent!Idle => Rests
  /\ FollowUpKept
AgentInv == calm => AgentSteady

-----------------------------------------------------------------------------
(* A run that goes to another place.                                       *)
LEMMA RunMoves ==
  ASSUME NEW a \in ActiveRun, NEW p \in Pcs
  PROVE  LET b == [a EXCEPT !.pc = p]
         IN  /\ b \in ActiveRun /\ b.pc = p /\ b.from = a.from /\ b.plan = a.plan
             /\ b.seen = a.seen /\ b.pos = a.pos /\ b.row = a.row
BY DEF ActiveRun

(* An active run has its fields, and no other run is active.               *)
LEMMA ActiveAlone ==
  ASSUME AgentSteady, NEW r \in Agent!RunIds, Agent!Active(r)
  PROVE  /\ runs[r] \in ActiveRun /\ RunSound(r)
         /\ ~Agent!Idle /\ ~followUp.read
         /\ \A q \in Agent!RunIds : q # r => ~Agent!Active(q)
<1>1. runs[r] \in {Agent!NoRun, Agent!Over} \cup ActiveRun
  BY DEF AgentSteady, AgentTypes
<1>2. runs[r] \notin {Agent!NoRun, Agent!Over}
  BY DEF Agent!Active, Agent!NoRun, Agent!Over
<1>3. ~Agent!Idle
  BY DEF Agent!Idle
<1> QED BY <1>1, <1>2, <1>3 DEF AgentSteady, FollowUpKept

(* The active run takes a step.                                            *)
LEMMA RunSteps ==
  ASSUME AgentSteady, NEW r \in Agent!RunIds, Agent!Active(r),
         NEW x \in {Agent!Over} \cup ActiveRun, runs' = [runs EXCEPT ![r] = x],
         followUp' = followUp,
         session' \in [status : Agent!Statuses, plan : Seq(Entry), revision : Nat],
         steps' \in Seq(StepRow), calls' \in Seq(Nat), minted' \in Nat,
         Numbered(session.plan)', Aligned(steps, session.plan)', CallsOrdered',
         x # Agent!Over => RunSound(r)', x = Agent!Over => Rests'
  PROVE  AgentSteady'
<1>1. runs \in [Agent!RunIds -> {Agent!NoRun, Agent!Over} \cup ActiveRun]
  BY DEF AgentSteady, AgentTypes
<1>2. /\ runs' \in [Agent!RunIds -> {Agent!NoRun, Agent!Over} \cup ActiveRun]
      /\ runs'[r] = x /\ \A q \in Agent!RunIds : q # r => runs'[q] = runs[q]
  BY <1>1
<1>3. ~followUp.read /\ \A q \in Agent!RunIds : q # r => ~Agent!Active(q)
  BY ActiveAlone
<1>4. \A q \in Agent!RunIds : q # r => ~Agent!Active(q)'
  BY <1>2, <1>3 DEF Agent!Active
<1>5. x = Agent!Over <=> ~Agent!Active(r)'
  BY <1>2 DEF Agent!Active, Agent!Over, ActiveRun, Pcs
<1>6. AgentTypes'
  BY <1>2 DEF AgentSteady, AgentTypes
<1>7. FollowUpKept'
  BY <1>3 DEF FollowUpKept
<1>8. Agent!Idle' => Rests'
  BY <1>5 DEF Agent!Idle
<1>9. \A q \in Agent!RunIds : Agent!Active(q)' => RunSound(q)'
  BY <1>4, <1>5
<1>10. \A q, p \in Agent!RunIds : Agent!Active(q)' /\ Agent!Active(p)' => q = p
  BY <1>4
<1> QED BY <1>6, <1>7, <1>8, <1>9, <1>10 DEF AgentSteady

(* The active run takes a step that leaves the rows and the plan.          *)
LEMMA RunStepsOn ==
  ASSUME AgentSteady, NEW r \in Agent!RunIds, Agent!Active(r),
         NEW x \in {Agent!Over} \cup ActiveRun, runs' = [runs EXCEPT ![r] = x],
         session' \in [status : Agent!Statuses, plan : Seq(Entry), revision : Nat],
         session'.plan = session.plan, UNCHANGED <<steps, calls, minted, followUp>>,
         x # Agent!Over => RunSound(r)', x = Agent!Over => Rests'
  PROVE  AgentSteady'
<1>1. steps \in Seq(StepRow) /\ calls \in Seq(Nat) /\ minted \in Nat
  BY DEF AgentSteady, AgentTypes
<1>2. Numbered(session.plan)' /\ Aligned(steps, session.plan)' /\ CallsOrdered'
  BY DEF AgentSteady, Numbered, Aligned, CallsOrdered, Called
<1> QED BY <1>1, <1>2, RunSteps

LEMMA MarkRunningKeeps ==
  ASSUME AgentSteady, NEW r \in Agent!RunIds, Agent!MarkRunning(r) PROVE AgentSteady'
<1> DEFINE x == [runs[r] EXCEPT !.pc = "loading"]
<1>1. Agent!Active(r) /\ runs[r].pc = "starting"
  BY DEF Agent!MarkRunning, Agent!At, Agent!Active
<1>2. runs[r] \in ActiveRun /\ RunSound(r)
  BY <1>1, ActiveAlone
<1>3. /\ x \in ActiveRun /\ x.pc = "loading" /\ x.from = runs[r].from
  BY <1>2, RunMoves DEF Pcs
<1>4. runs' = [runs EXCEPT ![r] = x] /\ runs'[r] = x
  BY DEF Agent!MarkRunning, Agent!Goto, AgentSteady, AgentTypes
<1>5. /\ session' = [session EXCEPT !.status = "running"]
      /\ UNCHANGED <<steps, calls, minted, followUp>>
  BY DEF Agent!MarkRunning
<1>6. /\ session' \in [status : Agent!Statuses, plan : Seq(Entry), revision : Nat]
      /\ session'.plan = session.plan /\ session'.status = "running"
  BY <1>5 DEF AgentSteady, AgentTypes, Agent!Statuses
<1>7. RunSound(r)'
  BY <1>1, <1>2, <1>3, <1>4, <1>5, <1>6 DEF RunSound, Onward, AllEnded, Waits, Called
<1>8. x # Agent!Over
  BY <1>3 DEF Agent!Over
<1> QED BY <1>1, <1>3, <1>4, <1>5, <1>6, <1>7, <1>8, RunStepsOn

LEMMA LoadKeeps ==
  ASSUME AgentSteady, NEW r \in Agent!RunIds, Agent!Load(r) PROVE AgentSteady'
<1> DEFINE x == [runs[r] EXCEPT !.pc = "next", !.pos = 1, !.plan = session.plan,
                                !.revision = session.revision, !.seen = steps]
<1>1. Agent!Active(r) /\ runs[r].pc = "loading"
  BY DEF Agent!Load, Agent!At, Agent!Active
<1>2. runs[r] \in ActiveRun /\ RunSound(r)
  BY <1>1, ActiveAlone
<1>3. /\ session \in [status : Agent!Statuses, plan : Seq(Entry), revision : Nat]
      /\ steps \in Seq(StepRow)
  BY DEF AgentSteady, AgentTypes
<1>4. /\ x \in ActiveRun /\ x.pc = "next" /\ x.from = runs[r].from
      /\ x.pos = 1 /\ x.plan = session.plan /\ x.seen = steps
  BY <1>2, <1>3 DEF ActiveRun, Pcs
<1>5. runs' = [runs EXCEPT ![r] = x] /\ runs'[r] = x
  BY <1>2 DEF Agent!Load, AgentSteady, AgentTypes, ActiveRun
<1>6. UNCHANGED <<session, steps, calls, minted, followUp>>
  BY DEF Agent!Load
<1>7. RunSound(r)'
  BY <1>1, <1>2, <1>4, <1>5, <1>6 DEF RunSound, Onward, AllEnded, Waits, Called
<1>8. x # Agent!Over
  BY <1>4 DEF Agent!Over
<1> QED BY <1>1, <1>3, <1>4, <1>5, <1>6, <1>7, <1>8, RunStepsOn

(* The first entry that is not passed over: the one behind the rows, or    *)
(* that of the row which waits.                                            *)
FrontAt(r, f) ==
  LET plan == runs[r].plan
  IN  /\ plan = session.plan /\ SeenBefore(r)
      /\ f \in 1..Len(plan) + 1 /\ runs[r].pos <= f /\ runs[r].from < f
      /\ \A m \in runs[r].pos..f - 1 : plan[m].idx < runs[r].from
      /\ \/ AllEnded /\ f = Len(steps) + 1 /\ Agent!RowsAt(r, f - 1) = {}
         \/ /\ Waits /\ f = Len(steps) /\ Agent!RowsAt(r, f - 1) = {f}
            /\ runs[r].seen[f].status \in Agent!Paused

LEMMA Front ==
  ASSUME AgentSteady, NEW r \in Agent!RunIds, Agent!At(r, "next")
  PROVE  \E f \in Nat : FrontAt(r, f)
<1>1. runs[r] \in ActiveRun /\ RunSound(r) /\ runs[r].pc = "next"
  BY ActiveAlone DEF Agent!At, Agent!Active
<1>2. /\ steps \in Seq(StepRow) /\ Len(steps) <= Len(session.plan)
      /\ session.plan \in Seq(Entry)
      /\ \A k \in DOMAIN steps : steps[k].idx = k - 1
      /\ \A k \in DOMAIN session.plan : session.plan[k].idx = k - 1
  BY DEF AgentSteady, AgentTypes, Aligned, Numbered
<1>3. runs[r].plan = session.plan /\ runs[r].from \in Nat /\ runs[r].seen \in Seq(StepRow)
  BY <1>1 DEF RunSound, ActiveRun
<1>4. CASE runs[r].pos = 1 /\ runs[r].seen = steps /\ Onward(r)
  <2> DEFINE f == runs[r].from + 1
  <2>1. SeenBefore(r)
    BY <1>2, <1>4 DEF SeenBefore
  <2>2. CASE AllEnded /\ runs[r].from = Len(steps)
    <3>1. Agent!RowsAt(r, f - 1) = {}
      BY <1>2, <1>4, <2>2 DEF Agent!RowsAt
    <3>2. f \in 1..Len(session.plan) + 1 /\ f = Len(steps) + 1 /\ 1 <= f /\ runs[r].from < f
      BY <1>2, <2>2
    <3>3. \A m \in 1..f - 1 : session.plan[m].idx < runs[r].from
      BY <1>2, <2>2
    <3> QED BY <1>3, <1>4, <2>1, <2>2, <3>1, <3>2, <3>3 DEF FrontAt
  <2>3. CASE Waits /\ runs[r].from + 1 = Len(steps)
    <3>1. Agent!RowsAt(r, f - 1) = {f} /\ runs[r].seen[f].status \in Agent!Paused
      BY <1>2, <1>3, <1>4, <2>3 DEF Agent!RowsAt, Waits
    <3>2. f \in 1..Len(session.plan) + 1 /\ f = Len(steps) /\ 1 <= f /\ runs[r].from < f
      BY <1>2, <1>3, <2>3
    <3>3. \A m \in 1..f - 1 : session.plan[m].idx < runs[r].from
      BY <1>2, <1>3, <2>3
    <3>4. f \in Nat /\ runs[r].pos = 1
      BY <1>3, <1>4
    <3> HIDE DEF f
    <3> QED BY <1>3, <2>1, <2>3, <3>1, <3>2, <3>3, <3>4 DEF FrontAt
  <2> QED BY <1>4, <2>2, <2>3 DEF Onward
<1>5. CASE AllEnded /\ runs[r].pos = Len(steps) + 1 /\ runs[r].from < runs[r].pos /\ SeenBefore(r)
  <2> DEFINE f == Len(steps) + 1
  <2>1. Agent!RowsAt(r, f - 1) = {}
    BY <1>2, <1>3, <1>5 DEF Agent!RowsAt, SeenBefore
  <2>2. f \in 1..Len(session.plan) + 1 /\ f <= f
    BY <1>2
  <2>3. \A m \in f..f - 1 : FALSE
    BY <1>2
  <2> QED BY <1>3, <1>5, <2>1, <2>2, <2>3 DEF FrontAt
<1> QED BY <1>1, <1>4, <1>5 DEF RunSound

(* It is not passed over.                                                  *)
LEMMA FrontStays ==
  ASSUME AgentSteady, NEW r \in Agent!RunIds, Agent!At(r, "next"), NEW f \in Nat,
         FrontAt(r, f), f <= Len(session.plan), NEW k \in Agent!RowOf(r, session.plan[f])
  PROVE  ~Agent!Skipped(r, session.plan[f], k)
<1>1. /\ session.plan \in Seq(Entry) /\ runs[r] \in ActiveRun
      /\ \A n \in DOMAIN session.plan : session.plan[n].idx = n - 1
  BY ActiveAlone DEF Agent!At, Agent!Active, AgentSteady, AgentTypes, Numbered
<1>2. session.plan[f].idx = f - 1 /\ ~(f - 1 < runs[r].from)
  BY <1>1 DEF FrontAt, ActiveRun
<1>3. SUFFICES ASSUME k # 0 PROVE runs[r].seen[k].status \notin Agent!Done
  BY <1>2 DEF Agent!Skipped
<1>4. Agent!RowsAt(r, f - 1) = {f} /\ runs[r].seen[f].status \in Agent!Paused /\ k = f
  BY <1>2, <1>3 DEF FrontAt, Agent!RowOf
<1> QED BY <1>4 DEF Agent!Done, Agent!Paused

LEMMA CompleteSessionKeeps ==
  ASSUME AgentSteady, NEW r \in Agent!RunIds, Agent!CompleteSession(r) PROVE AgentSteady'
<1>1. Agent!Active(r) /\ runs[r].pc = "next" /\ Agent!At(r, "next")
  BY DEF Agent!CompleteSession, Agent!At, Agent!Active
<1>2. PICK f \in Nat : FrontAt(r, f)
  BY <1>1, Front
<1>3. /\ session.plan \in Seq(Entry) /\ runs[r] \in ActiveRun /\ steps \in Seq(StepRow)
      /\ \A k \in DOMAIN session.plan : session.plan[k].idx = k - 1
  BY <1>1, ActiveAlone DEF AgentSteady, AgentTypes, Numbered
<1>4. ~(f <= Len(session.plan))
  <2> SUFFICES ASSUME f <= Len(session.plan) PROVE FALSE
    OBVIOUS
  <2>1. f \in runs[r].pos..Len(session.plan) + 1 - 1 /\ f \in DOMAIN session.plan
    BY <1>2, <1>3 DEF FrontAt, ActiveRun
  <2>2. \E k \in Agent!RowOf(r, session.plan[f]) : Agent!Skipped(r, session.plan[f], k)
    BY <1>2, <2>1 DEF Agent!CompleteSession, Agent!Reached, FrontAt
  <2> QED BY <1>1, <1>2, <2>2, FrontStays
<1>5. AllEnded /\ Len(steps) = Len(session.plan)
  <2>1. Len(steps) <= Len(session.plan) /\ Len(steps) \in Nat /\ Len(session.plan) \in Nat
    BY <1>3 DEF AgentSteady, Aligned
  <2> QED BY <1>2, <1>4, <2>1 DEF FrontAt
<1>6. /\ session' = [session EXCEPT !.status = "completed"]
      /\ runs' = [runs EXCEPT ![r] = Agent!Over]
      /\ UNCHANGED <<steps, calls, minted, followUp>>
  BY DEF Agent!CompleteSession, Agent!End
<1>7. /\ session' \in [status : Agent!Statuses, plan : Seq(Entry), revision : Nat]
      /\ session'.plan = session.plan /\ session'.status = "completed"
  BY <1>6 DEF AgentSteady, AgentTypes, Agent!Statuses, Agent!Terminal
<1>8. Rests'
  BY <1>5, <1>6, <1>7 DEF Rests, AllEnded
<1> QED BY <1>1, <1>6, <1>7, <1>8, RunStepsOn

(* The items of the rows differ.                                           *)
LEMMA ItemsDiffer ==
  ASSUME AgentSteady, NEW k \in DOMAIN steps, NEW l \in DOMAIN steps,
         steps[k].item = steps[l].item
  PROVE  k = l
<1>1. k \in DOMAIN session.plan /\ l \in DOMAIN session.plan
  BY DEF AgentSteady, AgentTypes, Aligned
<1>2. session.plan[k].item = session.plan[l].item
  BY DEF AgentSteady, Aligned
<1> QED BY <1>1, <1>2 DEF AgentSteady, Numbered

(* A step that ends without a call, or with one.                           *)
LEMMA StepDone ==
  ASSUME AgentSteady, NEW r \in Agent!RunIds, NEW p \in {"succeeded", "failed"},
         runs[r].pc = "gates", runs' = [runs EXCEPT ![r].pc = p],
         UNCHANGED <<session, steps, minted, followUp>>,
         \/ calls' = calls /\ (p = "succeeded" => steps[runs[r].row].kind = "final")
         \/ calls' = Append(calls, steps[runs[r].row].item)
  PROVE  AgentSteady'
<1> DEFINE x == [runs[r] EXCEPT !.pc = p]
           i == steps[runs[r].row].item
<1>1. Agent!Active(r)
  BY DEF Agent!Active
<1>2. runs[r] \in ActiveRun /\ RunSound(r)
  BY <1>1, ActiveAlone
<1>3. /\ x \in ActiveRun /\ x.pc = p /\ x.from = runs[r].from /\ x.plan = runs[r].plan
      /\ x.seen = runs[r].seen /\ x.pos = runs[r].pos /\ x.row = runs[r].row
  <2>1. p \in Pcs
    BY DEF Pcs
  <2> QED BY <1>2, <2>1, RunMoves
<1>4. runs' = [runs EXCEPT ![r] = x] /\ runs'[r] = x
  BY DEF AgentSteady, AgentTypes
<1>5. /\ runs[r].row = Len(steps) /\ steps # <<>> /\ steps \in Seq(StepRow)
      /\ Len(steps) \in DOMAIN steps /\ i \in Nat /\ ~Called(i)
      /\ steps[Len(steps)].status = "running"
  <2>1. /\ runs[r].row = Len(steps) /\ steps # <<>>
        /\ ~Called(steps[Len(steps)].item) /\ steps[Len(steps)].status = "running"
    BY <1>2 DEF RunSound
  <2>2. steps \in Seq(StepRow)
    BY DEF AgentSteady, AgentTypes
  <2>3. Len(steps) \in DOMAIN steps
    BY <2>1, <2>2
  <2>4. steps[Len(steps)] \in StepRow
    BY <2>2, <2>3
  <2> QED BY <2>1, <2>2, <2>3, <2>4 DEF StepRow
<1> HIDE DEF i
<1>6. /\ calls \in Seq(Nat) /\ calls' \in Seq(Nat)
      /\ \A j \in DOMAIN calls : j \in DOMAIN calls' /\ calls'[j] = calls[j]
      /\ \A j \in DOMAIN calls' : j \notin DOMAIN calls => 
            /\ calls'[j] = i /\ \A k \in DOMAIN calls : k < j
            /\ \A k \in DOMAIN calls' : k <= j
      /\ calls' = calls \/ \E j \in DOMAIN calls' : calls'[j] = i
  <2>1. calls \in Seq(Nat) /\ i \in Nat
    BY <1>5 DEF AgentSteady, AgentTypes
  <2>2. CASE calls' = calls
    BY <2>1, <2>2
  <2>3. CASE calls' = Append(calls, i)
    <3>1. /\ calls' \in Seq(Nat) /\ Len(calls') = Len(calls) + 1
          /\ DOMAIN calls' = 1..Len(calls) + 1 /\ DOMAIN calls = 1..Len(calls)
          /\ calls'[Len(calls) + 1] = i /\ Len(calls) \in Nat
          /\ \A j \in 1..Len(calls) : calls'[j] = calls[j]
      BY <2>1, <2>3
    <3> QED BY <2>1, <3>1
  <2> QED BY <2>2, <2>3 DEF i
<1>7. /\ \A n : Called(n) => Called(n)'
      /\ p = "succeeded" => steps[runs[r].row].kind = "final" \/ \A n : n = i => Called(n)'
  BY <1>6 DEF Called
<1>8. CallsOrdered'
  <2>1. \A j \in DOMAIN calls' : \E k \in DOMAIN steps : steps[k].item = calls'[j]
    <3>1. runs[r].row \in DOMAIN steps /\ steps[runs[r].row].item = i
      BY <1>5 DEF i
    <3> QED BY <1>6, <3>1 DEF AgentSteady, CallsOrdered
  <2>2. ASSUME NEW a \in DOMAIN calls', NEW b \in DOMAIN calls', a < b,
               NEW k \in DOMAIN steps, NEW l \in DOMAIN steps,
               steps[k].item = calls'[a], steps[l].item = calls'[b]
        PROVE  k < l
    <3>1. a \in DOMAIN calls
      BY <1>6, <2>2
    <3>2. CASE b \in DOMAIN calls
      BY <1>6, <2>2, <3>1, <3>2 DEF AgentSteady, CallsOrdered
    <3>3. CASE b \notin DOMAIN calls
      <4>1. steps[l].item = i /\ steps[k].item # i
        BY <1>5, <1>6, <2>2, <3>1, <3>3 DEF Called
      <4>2. l = Len(steps) /\ k # Len(steps)
        BY <1>5, <4>1, ItemsDiffer DEF i
      <4> QED BY <1>5, <4>2
    <3> QED BY <3>2, <3>3
  <2>3. \A k \in DOMAIN steps : steps[k].status = "succeeded" =>
           steps[k].kind = "final" \/ Called(steps[k].item)'
    BY <1>7 DEF AgentSteady, CallsOrdered
  <2> QED BY <2>1, <2>2, <2>3 DEF CallsOrdered, Called
<1>9. RunSound(r)'
  <2>1. SeenBefore(r)' <=> SeenBefore(r)
    BY <1>3, <1>4 DEF SeenBefore
  <2>2. p = "succeeded" => (\/ steps[Len(steps)].kind = "final"
                           \/ Called(steps[Len(steps)].item))'
    BY <1>5, <1>7 DEF Called, i
  <2> QED BY <1>2, <1>3, <1>4, <1>5, <2>1, <2>2 DEF RunSound
<1>10. /\ session' \in [status : Agent!Statuses, plan : Seq(Entry), revision : Nat]
       /\ steps' \in Seq(StepRow) /\ minted' \in Nat
       /\ Numbered(session.plan)' /\ Aligned(steps, session.plan)'
  BY DEF AgentSteady, AgentTypes, Numbered, Aligned
<1>11. x # Agent!Over
  BY <1>3 DEF Agent!Over
<1> QED BY <1>1, <1>3, <1>4, <1>6, <1>8, <1>9, <1>10, <1>11, RunSteps

(* A final step, a call, or a failure before it.                           *)
LEMMA DispatchKeeps ==
  ASSUME AgentSteady, NEW r \in Agent!RunIds,
         Agent!FinalStep(r) \/ Agent!Call(r) \/ Agent!GateFails(r)
  PROVE  AgentSteady'
<1>1. runs[r].pc = "gates" /\ UNCHANGED <<session, steps, minted, followUp>>
  BY DEF Agent!FinalStep, Agent!Call, Agent!GateFails, Agent!At
<1>2. CASE Agent!FinalStep(r)
  <2>1. /\ runs' = [runs EXCEPT ![r].pc = "succeeded"] /\ calls' = calls
        /\ steps[runs[r].row].kind = "final"
    BY <1>2 DEF Agent!FinalStep, Agent!Goto
  <2> QED BY <1>1, <2>1, StepDone
<1>3. CASE Agent!Call(r)
  <2>1. PICK out \in {"succeeded", "failed"} : runs' = [runs EXCEPT ![r].pc = out]
    BY <1>3 DEF Agent!Call, Agent!Goto
  <2>2. calls' = Append(calls, steps[runs[r].row].item)
    BY <1>3 DEF Agent!Call
  <2> QED BY <1>1, <2>1, <2>2, StepDone
<1>4. CASE Agent!GateFails(r)
  <2>1. runs' = [runs EXCEPT ![r].pc = "failed"] /\ calls' = calls
    BY <1>4 DEF Agent!GateFails, Agent!Goto
  <2> QED BY <1>1, <2>1, StepDone
<1> QED BY <1>2, <1>3, <1>4

(* The last row has its status set.                                        *)
LEMMA StatusSet ==
  ASSUME AgentSteady, steps # <<>>, NEW s \in RowStatus,
         steps' = [steps EXCEPT ![Len(steps)].status = s], calls' = calls,
         s = "succeeded" => \/ steps[Len(steps)].kind = "final"
                            \/ Called(steps[Len(steps)].item)
  PROVE  /\ steps' \in Seq(StepRow) /\ Len(steps') = Len(steps) /\ Len(steps) \in DOMAIN steps
         /\ DOMAIN steps' = DOMAIN steps
         /\ \A k \in DOMAIN steps : /\ steps'[k].idx = steps[k].idx
                                    /\ steps'[k].item = steps[k].item
                                    /\ steps'[k].kind = steps[k].kind
                                    /\ k < Len(steps) => steps'[k] = steps[k]
         /\ steps'[Len(steps)].status = s
         /\ s \in Ended => AllEnded'
         /\ CallsOrdered'
         /\ \A plan : plan = session.plan => Aligned(steps', plan)
<1>1. steps \in Seq(StepRow)
  BY DEF AgentSteady, AgentTypes
<1>2. Len(steps) \in DOMAIN steps /\ Len(steps) \in Nat /\ DOMAIN steps = 1..Len(steps)
  BY <1>1
<1> DEFINE n == Len(steps)
<1>3. steps[n] \in StepRow /\ [steps[n] EXCEPT !.status = s] \in StepRow
  <2>1. steps[n] \in StepRow
    BY <1>1, <1>2
  <2> QED BY <2>1 DEF StepRow
<1>4. steps' = [steps EXCEPT ![n] = [steps[n] EXCEPT !.status = s]]
  OBVIOUS
<1>5. steps' \in Seq(StepRow) /\ Len(steps') = n /\ DOMAIN steps' = DOMAIN steps
  BY <1>1, <1>2, <1>3, <1>4
<1>6. /\ \A k \in DOMAIN steps : k # n => steps'[k] = steps[k]
      /\ steps'[n] = [steps[n] EXCEPT !.status = s]
  BY <1>1, <1>2, <1>4
<1>7. /\ steps'[n].status = s /\ steps'[n].idx = steps[n].idx
      /\ steps'[n].item = steps[n].item /\ steps'[n].kind = steps[n].kind
  BY <1>3, <1>6 DEF StepRow
<1>8. \A k \in DOMAIN steps : /\ steps'[k].idx = steps[k].idx
                              /\ steps'[k].item = steps[k].item
                              /\ steps'[k].kind = steps[k].kind
                              /\ k < n => steps'[k] = steps[k]
  BY <1>2, <1>6, <1>7
<1>9. \A k \in DOMAIN steps : k # n => k < n
  BY <1>2
<1>10. \A k \in DOMAIN steps : k < n => steps[k].status \in Ended
  BY DEF AgentSteady, Aligned
<1> HIDE DEF n
<1>11. s \in Ended => AllEnded'
  BY <1>2, <1>5, <1>6, <1>7, <1>9, <1>10 DEF AllEnded
<1>12. \A i : Called(i)' <=> Called(i)
  BY DEF Called
<1>13. CallsOrdered'
  <2>1. \A j \in DOMAIN calls : \E k \in DOMAIN steps : steps'[k].item = calls[j]
    BY <1>8 DEF AgentSteady, CallsOrdered
  <2>2. \A i, j \in DOMAIN calls : i < j => \A k, l \in DOMAIN steps : 
           steps'[k].item = calls[i] /\ steps'[l].item = calls[j] => k < l
    BY <1>8 DEF AgentSteady, CallsOrdered
  <2>3. \A k \in DOMAIN steps : steps'[k].status = "succeeded" =>
           steps'[k].kind = "final" \/ Called(steps'[k].item)
    BY <1>6, <1>7, <1>8 DEF AgentSteady, CallsOrdered, n
  <2> QED BY <1>5, <2>1, <2>2, <2>3 DEF CallsOrdered, Called
<1>14. Aligned(steps', session.plan)
  BY <1>5, <1>8, <1>10 DEF AgentSteady, Aligned, n
<1> QED BY <1>2, <1>5, <1>7, <1>8, <1>11, <1>13, <1>14 DEF n

LEMMA AbortSessionKeeps ==
  ASSUME AgentSteady, NEW r \in Agent!RunIds, Agent!AbortSession(r) PROVE AgentSteady'
<1>1. Agent!Active(r) /\ runs[r].pc = "gates"
  BY DEF Agent!AbortSession, Agent!At, Agent!Active
<1>2. runs[r].row = Len(steps) /\ steps # <<>>
  BY <1>1, ActiveAlone DEF RunSound
<1>3. /\ steps' = [steps EXCEPT ![Len(steps)].status = "cancelled"]
      /\ session' = [session EXCEPT !.status = "aborted"]
      /\ runs' = [runs EXCEPT ![r] = Agent!Over]
      /\ UNCHANGED <<followUp, calls, minted>>
  BY <1>2 DEF Agent!AbortSession, Agent!End
<1>4. "cancelled" \in RowStatus
  BY DEF RowStatus, Agent!Done
<1>5. /\ steps' \in Seq(StepRow) /\ CallsOrdered' /\ Aligned(steps', session.plan)
  BY <1>2, <1>3, <1>4, StatusSet
<1>6. /\ session' \in [status : Agent!Statuses, plan : Seq(Entry), revision : Nat]
      /\ session'.plan = session.plan /\ session'.status = "aborted"
      /\ calls' \in Seq(Nat) /\ minted' \in Nat
  BY <1>3 DEF AgentSteady, AgentTypes, Agent!Statuses, Agent!Terminal
<1>7. Rests'
  BY <1>6 DEF Rests
<1>8. Numbered(session.plan)' /\ Aligned(steps, session.plan)'
  BY <1>3, <1>5, <1>6 DEF AgentSteady, Numbered, Aligned
<1> QED BY <1>1, <1>3, <1>5, <1>6, <1>7, <1>8, RunSteps

LEMMA PauseForKeeps ==
  ASSUME AgentSteady, NEW r \in Agent!RunIds, Agent!PauseFor(r) PROVE AgentSteady'
<1>1. Agent!Active(r) /\ runs[r].pc = "gates"
  BY DEF Agent!PauseFor, Agent!At, Agent!Active
<1>2. runs[r].row = Len(steps) /\ steps # <<>> /\ ~Called(steps[Len(steps)].item)
  BY <1>1, ActiveAlone DEF RunSound
<1>3. PICK s \in Agent!Paused :
        /\ steps' = [steps EXCEPT ![Len(steps)].status = s]
        /\ session' = [session EXCEPT !.status = s]
  BY <1>2 DEF Agent!PauseFor
<1>4. runs' = [runs EXCEPT ![r] = Agent!Over] /\ UNCHANGED <<followUp, calls, minted>>
  BY DEF Agent!PauseFor, Agent!End
<1>5. s \in RowStatus /\ s # "succeeded"
  BY <1>3 DEF RowStatus, Agent!Paused
<1>6. /\ steps' \in Seq(StepRow) /\ CallsOrdered' /\ Aligned(steps', session.plan)
      /\ Len(steps') = Len(steps) /\ Len(steps) \in DOMAIN steps
      /\ steps'[Len(steps)].status = s /\ steps'[Len(steps)].item = steps[Len(steps)].item
  BY <1>2, <1>3, <1>4, <1>5, StatusSet
<1>7. /\ session' \in [status : Agent!Statuses, plan : Seq(Entry), revision : Nat]
      /\ session'.plan = session.plan /\ session'.status \in Agent!Paused
      /\ calls' \in Seq(Nat) /\ minted' \in Nat
  BY <1>3, <1>4 DEF AgentSteady, AgentTypes, Agent!Statuses
<1>8. Waits'
  <2>1. steps' # <<>>
    BY <1>6 DEF AgentSteady, AgentTypes
  <2> QED BY <1>2, <1>3, <1>4, <1>6, <2>1 DEF Waits, Called
<1>9. Rests'
  BY <1>7, <1>8 DEF Rests
<1>10. Numbered(session.plan)' /\ Aligned(steps, session.plan)'
  BY <1>4, <1>6, <1>7 DEF AgentSteady, Numbered, Aligned
<1> QED BY <1>1, <1>4, <1>6, <1>7, <1>9, <1>10, RunSteps

LEMMA StepSucceededKeeps ==
  ASSUME AgentSteady, NEW r \in Agent!RunIds, Agent!StepSucceeded(r) PROVE AgentSteady'
<1> DEFINE x == [runs[r] EXCEPT !.pc = "next", !.pos = runs[r].pos + 1]
<1>1. Agent!Active(r) /\ runs[r].pc = "succeeded"
  BY DEF Agent!StepSucceeded, Agent!At, Agent!Active
<1>2. runs[r] \in ActiveRun /\ RunSound(r)
  BY <1>1, ActiveAlone
<1>3. /\ runs[r].row = Len(steps) /\ steps # <<>> /\ runs[r].pos = Len(steps)
      /\ runs[r].plan = session.plan /\ runs[r].from < runs[r].pos /\ SeenBefore(r)
      /\ steps[Len(steps)].kind = "final" \/ Called(steps[Len(steps)].item)
      /\ session.status # "none"
  BY <1>1, <1>2 DEF RunSound
<1>4. /\ x \in ActiveRun /\ x.pc = "next" /\ x.from = runs[r].from
      /\ x.pos = runs[r].pos + 1 /\ x.plan = runs[r].plan /\ x.seen = runs[r].seen
  <2>1. runs[r].pos + 1 \in Nat /\ "next" \in Pcs
    BY <1>2 DEF ActiveRun, Pcs
  <2> DEFINE n == runs[r].pos + 1
  <2>2. n \in Nat
    BY <2>1
  <2> HIDE DEF n
  <2>3. /\ [runs[r] EXCEPT !.pc = "next", !.pos = n] \in ActiveRun
        /\ [runs[r] EXCEPT !.pc = "next", !.pos = n].pos = n
    BY <1>2, <2>1, <2>2 DEF ActiveRun
  <2>4. x \in ActiveRun /\ x.pos = runs[r].pos + 1
    BY <2>3 DEF n
  <2> QED BY <1>2, <2>4 DEF ActiveRun
<1>5. runs' = [runs EXCEPT ![r] = x] /\ runs'[r] = x
  BY <1>2 DEF Agent!StepSucceeded, AgentSteady, AgentTypes, ActiveRun
<1>6. /\ steps' = [steps EXCEPT ![Len(steps)].status = "succeeded"]
      /\ UNCHANGED <<session, followUp, calls, minted>>
  BY <1>3 DEF Agent!StepSucceeded
<1>7. "succeeded" \in RowStatus /\ "succeeded" \in Ended
  BY DEF RowStatus, Agent!Done, Ended
<1>8. /\ steps' \in Seq(StepRow) /\ CallsOrdered' /\ Aligned(steps', session.plan)
      /\ Len(steps') = Len(steps) /\ AllEnded'
  BY <1>3, <1>6, <1>7, StatusSet
<1>9. /\ session' \in [status : Agent!Statuses, plan : Seq(Entry), revision : Nat]
      /\ calls' \in Seq(Nat) /\ minted' \in Nat
  BY <1>6 DEF AgentSteady, AgentTypes
<1>10. RunSound(r)'
  <2>1. SeenBefore(r)'
    BY <1>3, <1>4, <1>5, <1>8 DEF SeenBefore
  <2>2. x.from < x.pos /\ x.pos = Len(steps') + 1
    BY <1>2, <1>3, <1>4, <1>8 DEF ActiveRun
  <2> QED BY <1>3, <1>4, <1>5, <1>6, <1>8, <2>1, <2>2 DEF RunSound
<1>11. Numbered(session.plan)' /\ Aligned(steps, session.plan)'
  BY <1>6, <1>8 DEF AgentSteady, Numbered, Aligned
<1>12. x # Agent!Over
  BY <1>4 DEF Agent!Over
<1> QED BY <1>1, <1>4, <1>5, <1>6, <1>8, <1>9, <1>10, <1>11, <1>12, RunSteps

(* The point to resume at is the row that waits.                           *)
LEMMA ResumeIs ==
  ASSUME AgentSteady, Waits PROVE Agent!ResumePoint = Len(steps) - 1
<1> DEFINE paused == {steps[k].idx : k \in {k \in DOMAIN steps : steps[k].status \in Agent!Paused}}
<1>1. /\ Len(steps) \in DOMAIN steps /\ DOMAIN steps = 1..Len(steps) /\ Len(steps) \in Nat
      /\ steps[Len(steps)].status \in Agent!Paused
  BY DEF AgentSteady, AgentTypes, Waits
<1>2. /\ \A k \in DOMAIN steps : steps[k].idx = k - 1
      /\ \A k \in DOMAIN steps : k < Len(steps) => steps[k].status \in Ended
  BY DEF AgentSteady, Aligned
<1>3. \A k \in DOMAIN steps : steps[k].status \in Agent!Paused => k = Len(steps)
  BY <1>1, <1>2 DEF Ended, Agent!Paused
<1>4. paused = {Len(steps) - 1}
  BY <1>1, <1>2, <1>3
<1>5. ASSUME NEW p, p = {Len(steps) - 1}
      PROVE  (CHOOSE i \in p : \A j \in p : i <= j) = Len(steps) - 1
  <2>1. Len(steps) - 1 \in Int
    BY <1>1
  <2>2. \E i \in p : \A j \in p : i <= j
    BY <1>5, <2>1
  <2> QED BY <1>5, <2>2
<1>6. (CHOOSE i \in paused : \A j \in paused : i <= j) = Len(steps) - 1
  BY <1>4, <1>5
<1> QED BY <1>4, <1>6 DEF Agent!ResumePoint

LEMMA ResumeScanKeeps ==
  ASSUME AgentSteady, NEW r \in Agent!RunIds, Agent!ResumeScan(r) PROVE AgentSteady'
<1> DEFINE x == [runs[r] EXCEPT !.pc = "starting", !.from = Agent!ResumePoint]
<1>1. Agent!Active(r) /\ runs[r].pc = "resuming"
  BY DEF Agent!ResumeScan, Agent!At, Agent!Active
<1>2. runs[r] \in ActiveRun /\ RunSound(r) /\ Waits
  BY <1>1, ActiveAlone DEF RunSound
<1>3. Agent!ResumePoint \in Nat /\ Agent!ResumePoint + 1 = Len(steps)
  <2>1. steps \in Seq(StepRow) /\ steps # <<>>
    BY <1>2 DEF AgentSteady, AgentTypes, Waits
  <2>2. Len(steps) \in Nat /\ Len(steps) >= 1
    BY <2>1
  <2> QED BY <1>2, <2>2, ResumeIs
<1>4. /\ x \in ActiveRun /\ x.pc = "starting" /\ x.from = Agent!ResumePoint
  BY <1>2, <1>3 DEF ActiveRun, Pcs
<1>5. runs' = [runs EXCEPT ![r] = x] /\ runs'[r] = x
  BY <1>2 DEF Agent!ResumeScan, AgentSteady, AgentTypes, ActiveRun
<1>6. /\ session' = [session EXCEPT !.status = "running"]
      /\ UNCHANGED <<steps, calls, minted, followUp>>
  BY DEF Agent!ResumeScan
<1>7. /\ session' \in [status : Agent!Statuses, plan : Seq(Entry), revision : Nat]
      /\ session'.plan = session.plan /\ session'.status = "running"
  BY <1>6 DEF AgentSteady, AgentTypes, Agent!Statuses
<1>8. RunSound(r)'
  BY <1>2, <1>3, <1>4, <1>5, <1>6, <1>7 DEF RunSound, Onward, Waits, Called
<1>9. x # Agent!Over
  BY <1>4 DEF Agent!Over
<1> QED BY <1>1, <1>4, <1>5, <1>6, <1>7, <1>8, <1>9, RunStepsOn

(* A row is added for the entry behind the rows.                           *)
LEMMA RowAdded ==
  ASSUME AgentSteady, AllEnded, Len(steps) + 1 \in DOMAIN session.plan, NEW row,
         row = [idx |-> session.plan[Len(steps) + 1].idx,
                item |-> session.plan[Len(steps) + 1].item,
                kind |-> session.plan[Len(steps) + 1].kind, status |-> "running"],
         steps' = Append(steps, row), UNCHANGED <<session, calls>>
  PROVE  /\ steps' \in Seq(StepRow) /\ Len(steps') = Len(steps) + 1
         /\ steps'[Len(steps')] = row /\ row.status = "running" /\ ~Called(row.item)
         /\ Aligned(steps, session.plan)' /\ CallsOrdered'
<1> DEFINE n == Len(steps)
<1>1. /\ steps \in Seq(StepRow) /\ session.plan \in Seq(Entry) /\ calls \in Seq(Nat)
      /\ n \in Nat /\ DOMAIN steps = 1..n /\ DOMAIN session.plan = 1..Len(session.plan)
      /\ session.plan[n + 1] \in Entry /\ session.plan[n + 1].idx = n
  BY DEF AgentSteady, AgentTypes, Numbered
<1>2. row \in StepRow /\ row.idx = n /\ row.status = "running"
      /\ row.item = session.plan[n + 1].item /\ row.kind = session.plan[n + 1].kind
  BY <1>1 DEF StepRow, Entry, RowStatus
<1> HIDE DEF n
<1>3. /\ steps' \in Seq(StepRow) /\ Len(steps') = n + 1 /\ steps'[n + 1] = row
      /\ DOMAIN steps' = (DOMAIN steps) \cup {n + 1} /\ n + 1 \notin DOMAIN steps
      /\ \A k \in DOMAIN steps : steps'[k] = steps[k]
  BY <1>1, <1>2 DEF n
<1>4. /\ \A k \in DOMAIN steps : steps[k].item = session.plan[k].item
      /\ \A k \in DOMAIN steps : k # n + 1 /\ k \in DOMAIN session.plan /\ k < n + 1
  BY <1>1 DEF AgentSteady, Aligned, n
<1>5. \A k \in DOMAIN steps : steps[k].item # row.item
  BY <1>1, <1>2, <1>4 DEF AgentSteady, Numbered, n
<1>6. ~Called(row.item)
  BY <1>5 DEF AgentSteady, CallsOrdered, Called
<1>7. Aligned(steps, session.plan)'
  <2>1. Len(steps') <= Len(session.plan)
    BY <1>1, <1>3 DEF n
  <2>2. \A k \in DOMAIN steps' : /\ steps'[k].idx = k - 1
                                /\ steps'[k].item = session.plan[k].item
                                /\ steps'[k].kind = session.plan[k].kind
    BY <1>1, <1>2, <1>3 DEF AgentSteady, Aligned
  <2>3. \A k \in DOMAIN steps' : k < n + 1 => steps'[k].status \in Ended
    BY <1>1, <1>3 DEF AllEnded
  <2> QED BY <1>3, <2>1, <2>2, <2>3 DEF Aligned
<1>8. CallsOrdered'
  <2>1. \A j \in DOMAIN calls : \E k \in DOMAIN steps' : steps'[k].item = calls[j]
    BY <1>3 DEF AgentSteady, CallsOrdered
  <2>2. \A j \in DOMAIN calls : calls[j] # row.item
    BY <1>6 DEF Called
  <2>3. \A i, j \in DOMAIN calls : i < j => \A k, l \in DOMAIN steps' :
           steps'[k].item = calls[i] /\ steps'[l].item = calls[j] => k < l
    BY <1>3, <2>2 DEF AgentSteady, CallsOrdered
  <2>4. \A k \in DOMAIN steps' : steps'[k].status = "succeeded" =>
           steps'[k].kind = "final" \/ Called(steps'[k].item)
    BY <1>2, <1>3 DEF AgentSteady, CallsOrdered
  <2> QED BY <2>1, <2>3, <2>4 DEF CallsOrdered, Called
<1> QED BY <1>2, <1>3, <1>6, <1>7, <1>8 DEF n

LEMMA StartStepKeeps ==
  ASSUME AgentSteady, NEW r \in Agent!RunIds, Agent!StartStep(r) PROVE AgentSteady'
<1>1. Agent!Active(r) /\ runs[r].pc = "next" /\ Agent!At(r, "next")
  BY DEF Agent!StartStep, Agent!At, Agent!Active
<1>2. runs[r] \in ActiveRun /\ RunSound(r) /\ session.status # "none"
  BY <1>1, ActiveAlone DEF RunSound
<1>3. PICK f \in Nat : FrontAt(r, f)
  BY <1>1, Front
<1>4. /\ session.plan \in Seq(Entry) /\ steps \in Seq(StepRow) /\ runs[r].pos \in Nat
      /\ \A k \in DOMAIN session.plan : session.plan[k].idx = k - 1
      /\ runs[r].plan = session.plan
      /\ Len(session.plan) \in Nat /\ DOMAIN session.plan = 1..Len(session.plan)
  BY <1>2, <1>3 DEF AgentSteady, AgentTypes, Numbered, ActiveRun, FrontAt
<1>5. PICK m \in runs[r].pos..Len(session.plan) :
        /\ Agent!Reached(r, m)
        /\ \E k \in Agent!RowOf(r, session.plan[m]) :
              /\ ~Agent!Skipped(r, session.plan[m], k)
              /\ steps' = Agent!Upserted(k, [idx |-> session.plan[m].idx,
                    item |-> session.plan[m].item, kind |-> session.plan[m].kind,
                    status |-> "running"])
              /\ runs' = [runs EXCEPT ![r].pc = "gates", ![r].pos = m,
                            ![r].row = IF k = 0 THEN Len(steps) + 1 ELSE k]
  BY <1>4 DEF Agent!StartStep
<1>6. m = f
  <2>1. m \in Nat /\ m <= Len(session.plan) /\ runs[r].pos <= m
    BY <1>4, <1>5
  <2>2. ~(m < f)
    <3> SUFFICES ASSUME m < f PROVE FALSE
      OBVIOUS
    <3>1. m \in runs[r].pos..f - 1
      BY <1>4, <2>1
    <3>2. session.plan[m].idx < runs[r].from
      BY <1>3, <1>4, <3>1 DEF FrontAt
    <3> QED BY <1>5, <3>2 DEF Agent!Skipped
  <2>3. ~(f < m)
    <3> SUFFICES ASSUME f < m PROVE FALSE
      OBVIOUS
    <3>1. f \in runs[r].pos..m - 1 /\ f <= Len(session.plan)
      BY <1>3, <1>4, <2>1 DEF FrontAt
    <3>2. \E k \in Agent!RowOf(r, session.plan[f]) : Agent!Skipped(r, session.plan[f], k)
      BY <1>4, <1>5, <3>1 DEF Agent!Reached
    <3> QED BY <1>1, <1>3, <3>1, <3>2, FrontStays
  <2> QED BY ONLY <2>1, <2>2, <2>3, f \in Nat
<1>7. f \in DOMAIN session.plan /\ session.plan[f].idx = f - 1
  BY <1>3, <1>4, <1>5, <1>6 DEF FrontAt
<1>8. UNCHANGED <<session, followUp, calls, minted>>
  BY DEF Agent!StartStep
<1>9. Numbered(session.plan)' /\ calls' \in Seq(Nat) /\ minted' \in Nat
      /\ session' \in [status : Agent!Statuses, plan : Seq(Entry), revision : Nat]
  BY <1>8 DEF AgentSteady, AgentTypes, Numbered
<1> DEFINE x == [runs[r] EXCEPT !.pc = "gates", !.pos = f, !.row = f]
<1>10. /\ x \in ActiveRun /\ x.pc = "gates" /\ x.pos = f /\ x.row = f
       /\ x.from = runs[r].from /\ x.plan = runs[r].plan /\ x.seen = runs[r].seen
  BY <1>2 DEF ActiveRun, Pcs
<1>11. x # Agent!Over
  BY <1>10 DEF Agent!Over
<1>12. CASE AllEnded /\ f = Len(steps) + 1 /\ Agent!RowsAt(r, f - 1) = {}
  <2>1. Agent!RowOf(r, session.plan[f]) = {0}
    BY <1>7, <1>12 DEF Agent!RowOf
  <2> DEFINE row == [idx |-> session.plan[f].idx, item |-> session.plan[f].item,
                     kind |-> session.plan[f].kind, status |-> "running"]
  <2>2. steps' = Append(steps, row)
    BY <1>5, <1>6, <2>1 DEF Agent!Upserted
  <2>3. runs' = [runs EXCEPT ![r] = x] /\ runs'[r] = x
    <3>1. runs' = [runs EXCEPT ![r].pc = "gates", ![r].pos = f, ![r].row = f]
      BY <1>5, <1>6, <1>12, <2>1
    <3> QED BY <1>2, <3>1 DEF AgentSteady, AgentTypes, ActiveRun
  <2>4. /\ steps' \in Seq(StepRow) /\ Len(steps') = f /\ steps'[f].status = "running"
        /\ ~Called(steps'[f].item) /\ Aligned(steps, session.plan)' /\ CallsOrdered'
    BY <1>7, <1>8, <1>12, <2>2, RowAdded
  <2>5. RunSound(r)'
    <3>1. SeenBefore(r)'
      BY <1>3, <1>4, <1>10, <1>12, <2>3, <2>4 DEF SeenBefore, FrontAt, ActiveRun
    <3>2. steps' # <<>> /\ runs[r].from < f
      BY <1>3, <2>4 DEF FrontAt
    <3>3. ~Called(steps[Len(steps)].item)'
      BY <1>8, <2>4 DEF Called
    <3> QED BY <1>2, <1>4, <1>8, <1>10, <2>3, <2>4, <3>1, <3>2, <3>3 DEF RunSound
  <2> QED BY <1>1, <1>8, <1>9, <1>10, <1>11, <2>3, <2>4, <2>5, RunSteps
<1>13. CASE Waits /\ f = Len(steps) /\ Agent!RowsAt(r, f - 1) = {f}
  <2>1. Agent!RowOf(r, session.plan[f]) = {f} /\ f # 0
    BY <1>4, <1>7, <1>13 DEF Agent!RowOf
  <2>2. steps' = [steps EXCEPT ![Len(steps)].status = "running"]
    BY <1>5, <1>6, <1>13, <2>1 DEF Agent!Upserted
  <2>3. runs' = [runs EXCEPT ![r] = x] /\ runs'[r] = x
    <3>1. runs' = [runs EXCEPT ![r].pc = "gates", ![r].pos = f, ![r].row = f]
      BY <1>5, <1>6, <2>1
    <3> QED BY <1>2, <3>1 DEF AgentSteady, AgentTypes, ActiveRun
  <2>4. /\ steps' \in Seq(StepRow) /\ Len(steps') = f /\ steps'[f].status = "running"
        /\ steps'[f].item = steps[f].item /\ f \in DOMAIN steps
        /\ Aligned(steps', session.plan) /\ CallsOrdered'
    BY <1>8, <1>13, <2>2, StatusSet DEF RowStatus, Waits
  <2>5. RunSound(r)'
    <3>1. SeenBefore(r)'
      <4>1. SeenBefore(r)
        BY <1>3 DEF FrontAt
      <4>2. runs'[r].seen = runs[r].seen /\ Len(steps') = Len(steps)
        BY <1>10, <1>13, <2>3, <2>4
      <4> QED BY <4>1, <4>2 DEF SeenBefore
    <3>2. steps' # <<>> /\ runs[r].from < f
      BY <1>3, <2>1, <2>4 DEF FrontAt
    <3>3. ~Called(steps[Len(steps)].item)'
      BY <1>8, <1>13, <2>4 DEF Called, Waits
    <3> QED BY <1>2, <1>4, <1>8, <1>10, <2>3, <2>4, <3>1, <3>2, <3>3 DEF RunSound
  <2>6. Aligned(steps, session.plan)'
    BY <1>8, <2>4 DEF Aligned
  <2> QED BY <1>1, <1>8, <1>9, <1>10, <1>11, <2>3, <2>4, <2>5, <2>6, RunSteps
<1> QED BY <1>3, <1>12, <1>13 DEF FrontAt

(* A plan that is numbered again keeps its entries.                        *)
LEMMA Renumbered ==
  ASSUME NEW s \in Seq(Entry)
  PROVE  LET q == Agent!Renumber(s)
         IN  /\ q \in Seq(Entry) /\ Len(q) = Len(s) /\ DOMAIN q = DOMAIN s
             /\ \A k \in DOMAIN s : /\ q[k].idx = k - 1 /\ q[k].item = s[k].item
                                    /\ q[k].kind = s[k].kind
<1> DEFINE q == Agent!Renumber(s)
<1>1. q = [k \in 1..Len(s) |-> [s[k] EXCEPT !.idx = k - 1]] /\ Len(s) \in Nat
  BY DEF Agent!Renumber
<1>2. \A k \in 1..Len(s) : s[k] \in Entry /\ k - 1 \in Nat
  OBVIOUS
<1>3. ASSUME NEW k \in 1..Len(s), NEW i \in Nat, i = k - 1
      PROVE  LET e == [s[k] EXCEPT !.idx = i]
             IN  e \in Entry /\ e.idx = i /\ e.item = s[k].item /\ e.kind = s[k].kind
  BY <1>2 DEF Entry
<1>4. \A k \in 1..Len(s) : /\ q[k] \in Entry /\ q[k].idx = k - 1
                           /\ q[k].item = s[k].item /\ q[k].kind = s[k].kind
  <2> TAKE k \in 1..Len(s)
  <2>1. PICK i \in Nat : i = k - 1
    BY <1>2
  <2>2. q[k] = [s[k] EXCEPT !.idx = i]
    BY <1>1, <2>1
  <2>3. q[k] \in Entry /\ q[k].idx = i /\ q[k].item = s[k].item /\ q[k].kind = s[k].kind
    BY <1>3, <2>1, <2>2
  <2> QED BY <2>1, <2>3
<1>5. DOMAIN q = 1..Len(s) /\ q = [k \in 1..Len(s) |-> q[k]]
  BY <1>1
<1> HIDE DEF q
<1>6. q \in Seq(Entry) /\ Len(q) = Len(s)
  BY <1>1, <1>4, <1>5
<1> QED BY <1>4, <1>5, <1>6 DEF q

(* A fix goes behind the failed entry.                                     *)
LEMMA ReplanIs ==
  ASSUME NEW plan \in Seq(Entry), NEW n \in DOMAIN plan, NEW item \in Nat,
         \A k \in DOMAIN plan : plan[k].idx = k - 1
  PROVE  LET q == Agent!Replan(plan, n - 1, item)
         IN  /\ q \in Seq(Entry) /\ Len(q) = Len(plan) + 1
             /\ \A k \in 1..Len(plan) + 1 : q[k].idx = k - 1
             /\ \A k \in 1..n : q[k].item = plan[k].item /\ q[k].kind = plan[k].kind
             /\ q[n + 1].item = item
             /\ \A k \in n + 2..Len(plan) + 1 : q[k].item = plan[k - 1].item
<1> DEFINE hits == {k \in DOMAIN plan : plan[k].idx = n - 1}
           fix  == [item |-> item, idx |-> n, kind |-> "tool"]
           s    == SubSeq(plan, 1, n) \o <<fix>> \o SubSeq(plan, n + 1, Len(plan))
<1>1. n \in Nat /\ 1 <= n /\ n <= Len(plan) /\ Len(plan) \in Nat
      /\ DOMAIN plan = 1..Len(plan)
  OBVIOUS
<1>2. hits = {n}
  BY <1>1
<1>3. (CHOOSE k \in hits : \A m \in hits : k <= m) = n
  BY <1>1, <1>2
<1>4. Agent!Replan(plan, n - 1, item) = Agent!Renumber(s)
  <2>1. n - 1 + 1 = n
    BY <1>1
  <2> QED BY <1>3, <2>1 DEF Agent!Replan
<1>5. fix \in Entry
  BY <1>1 DEF Entry
<1> HIDE DEF fix
<1>6. /\ s \in Seq(Entry) /\ Len(s) = Len(plan) + 1
      /\ \A k \in 1..n : s[k] = plan[k]
      /\ s[n + 1] = fix
      /\ \A k \in n + 2..Len(plan) + 1 : s[k] = plan[k - 1]
  <2> DEFINE u == SubSeq(plan, 1, n)
             v == SubSeq(plan, n + 1, Len(plan))
  <2>1. u \in Seq(Entry) /\ Len(u) = n /\ \A k \in 1..n : u[k] = plan[k]
    BY <1>1
  <2>2. /\ v \in Seq(Entry) /\ Len(v) = Len(plan) - n
        /\ \A k \in 1..Len(plan) - n : v[k] = plan[n + k]
    BY <1>1
  <2> HIDE DEF u, v
  <2>3. u \o <<fix>> \in Seq(Entry) /\ Len(u \o <<fix>>) = n + 1
        /\ (u \o <<fix>>)[n + 1] = fix /\ \A k \in 1..n : (u \o <<fix>>)[k] = u[k]
    BY <1>1, <1>5, <2>1
  <2> DEFINE w == u \o <<fix>>
  <2> HIDE DEF w
  <2>4. /\ w \o v \in Seq(Entry) /\ Len(w \o v) = Len(plan) + 1
        /\ \A k \in 1..n + 1 : (w \o v)[k] = w[k]
        /\ \A k \in n + 2..Len(plan) + 1 : (w \o v)[k] = v[k - (n + 1)]
    <3>1. w \in Seq(Entry) /\ Len(w) = n + 1
      BY <2>3 DEF w
    <3>2. w \o v \in Seq(Entry)
      BY <2>2, <3>1
    <3>3. Len(w \o v) = (n + 1) + (Len(plan) - n)
      <4>1. Len(w \o v) = Len(w) + Len(v)
        <5>1. w \in Seq(Entry) /\ v \in Seq(Entry)
          BY <2>2, <3>1
        <5> QED BY ONLY <5>1
      <4> QED BY <2>2, <3>1, <4>1
    <3>4. (n + 1) + (Len(plan) - n) = Len(plan) + 1
      BY <1>1
    <3>5. ASSUME NEW k \in 1..Len(w) + Len(v)
          PROVE  (w \o v)[k] = IF k <= Len(w) THEN w[k] ELSE v[k - Len(w)]
      BY <2>2, <3>1
    <3>6. \A k \in 1..n + 1 : k \in 1..Len(w) + Len(v) /\ k <= Len(w)
      BY ONLY <1>1, <2>2, <3>1
    <3>7. \A k \in n + 2..Len(plan) + 1 : k \in 1..Len(w) + Len(v) /\ ~(k <= Len(w))
      BY ONLY <1>1, <2>2, <3>1
    <3> QED BY <3>1, <3>2, <3>3, <3>4, <3>5, <3>6, <3>7
  <2>5. \A k \in n + 2..Len(plan) + 1 : v[k - (n + 1)] = plan[k - 1]
    <3>1. \A k \in n + 2..Len(plan) + 1 :
             k - (n + 1) \in 1..Len(plan) - n /\ n + (k - (n + 1)) = k - 1
      BY <1>1
    <3> QED BY <2>2, <3>1
  <2>6. s = w \o v
    BY DEF w, u, v
  <2>7. \A k \in 1..n : k \in 1..n + 1
    BY <1>1
  <2>8. n + 1 \in 1..n + 1
    BY <1>1
  <2> QED BY <2>1, <2>3, <2>4, <2>5, <2>6, <2>7, <2>8 DEF w
<1> HIDE DEF s
<1> DEFINE q == Agent!Renumber(s)
<1>7. /\ q \in Seq(Entry) /\ Len(q) = Len(plan) + 1
      /\ \A k \in 1..Len(plan) + 1 : /\ q[k].idx = k - 1 /\ q[k].item = s[k].item
                                     /\ q[k].kind = s[k].kind
  BY <1>6, Renumbered
<1>8. /\ \A k \in 1..n : k \in 1..Len(plan) + 1
      /\ n + 1 \in 1..Len(plan) + 1
      /\ \A k \in n + 2..Len(plan) + 1 : k \in 1..Len(plan) + 1
  BY <1>1
<1> HIDE DEF q
<1>9. fix.item = item
  BY DEF fix
<1> QED BY <1>4, <1>6, <1>7, <1>8, <1>9 DEF q

LEMMA StepFailedKeeps ==
  ASSUME AgentSteady, NEW r \in Agent!RunIds, Agent!StepFailed(r) PROVE AgentSteady'
<1> DEFINE n == Len(steps)
           q == Agent!Replan(session.plan, n - 1, minted + 1)
           x == [runs[r] EXCEPT !.pc = "starting", !.from = n]
<1>1. Agent!Active(r) /\ runs[r].pc = "failed"
  BY DEF Agent!StepFailed, Agent!At, Agent!Active
<1>2. runs[r] \in ActiveRun /\ RunSound(r)
  BY <1>1, ActiveAlone
<1>3. /\ runs[r].row = n /\ steps # <<>> /\ runs[r].pos = n
      /\ runs[r].plan = session.plan /\ session.status # "none"
  BY <1>1, <1>2 DEF RunSound
<1>4. /\ session \in [status : Agent!Statuses, plan : Seq(Entry), revision : Nat]
      /\ session.plan \in Seq(Entry) /\ steps \in Seq(StepRow) /\ calls \in Seq(Nat)
      /\ minted \in Nat /\ minted + 1 \in Nat
  BY DEF AgentSteady, AgentTypes
<1>5. n \in Nat /\ 1 <= n /\ n \in DOMAIN session.plan /\ DOMAIN session.plan = 1..Len(session.plan)
      /\ Len(session.plan) \in Nat
  BY <1>3, <1>4 DEF AgentSteady, Aligned
<1>6. \A k \in DOMAIN session.plan : session.plan[k].idx = k - 1 /\ session.plan[k].item <= minted
  BY DEF AgentSteady, Numbered
<1>7. session.plan[n].idx = n - 1 /\ (n - 1) + 1 = n
  BY <1>5, <1>6
<1>8. /\ session' = [session EXCEPT !.plan = q, !.revision = runs[r].revision + 1]
      /\ runs' = [runs EXCEPT ![r].pc = "starting", ![r].from = n]
      /\ steps' = [steps EXCEPT ![n].status = "failed"]
      /\ minted' = minted + 1 /\ UNCHANGED <<followUp, calls>>
  BY <1>3, <1>7 DEF Agent!StepFailed
<1>9. /\ x \in ActiveRun /\ x.pc = "starting" /\ x.from = n
  BY <1>2, <1>5 DEF ActiveRun, Pcs
<1>10. runs' = [runs EXCEPT ![r] = x] /\ runs'[r] = x
  BY <1>2, <1>8 DEF AgentSteady, AgentTypes, ActiveRun
<1>11. /\ q \in Seq(Entry) /\ Len(q) = Len(session.plan) + 1
       /\ \A k \in 1..Len(session.plan) + 1 : q[k].idx = k - 1
       /\ \A k \in 1..n : q[k].item = session.plan[k].item /\ q[k].kind = session.plan[k].kind
       /\ q[n + 1].item = minted + 1
       /\ \A k \in n + 2..Len(session.plan) + 1 : q[k].item = session.plan[k - 1].item
  BY <1>4, <1>5, <1>6, ReplanIs
<1>12. "failed" \in RowStatus /\ "failed" \in Ended
  BY DEF RowStatus, Ended
<1>13. /\ steps' \in Seq(StepRow) /\ CallsOrdered' /\ Aligned(steps', session.plan)
       /\ Len(steps') = n /\ DOMAIN steps' = DOMAIN steps /\ AllEnded'
  BY <1>3, <1>8, <1>12, StatusSet
<1> HIDE DEF q, x
<1>14. /\ session' \in [status : Agent!Statuses, plan : Seq(Entry), revision : Nat]
       /\ session'.plan = q /\ session'.status = session.status
  <2>1. runs[r].revision + 1 \in Nat
    BY <1>2 DEF ActiveRun
  <2> DEFINE v == runs[r].revision + 1
  <2>2. v \in Nat /\ session' = [session EXCEPT !.plan = q, !.revision = v]
    BY <1>8, <2>1
  <2> HIDE DEF v
  <2> QED BY <1>4, <1>11, <2>2
<1>15. \A s : s = q => Numbered(s)'
  <2> DEFINE N == Len(session.plan)
             p == session.plan
  <2>1. DOMAIN q = 1..N + 1 /\ N \in Nat
    BY <1>5, <1>11
  <2>2. \A k \in 1..N + 1 : \/ k \in 1..n
                            \/ k = n + 1
                            \/ k \in n + 2..N + 1 /\ k - 1 \in n + 1..N
    BY ONLY <1>5, <2>1
  <2>3. \A k \in 1..n : q[k].item = p[k].item /\ k \in DOMAIN p
    BY <1>5, <1>11
  <2>4. \A k \in n + 2..N + 1 : q[k].item = p[k - 1].item /\ k - 1 \in DOMAIN p
    BY <1>5, <1>11
  <2>5. \A k \in DOMAIN p : p[k].item \in Nat /\ p[k].item <= minted
    <3>1. \A k \in DOMAIN p : p[k] \in Entry
      BY <1>4
    <3> QED BY <1>6, <3>1 DEF Entry
  <2>6. \A k \in DOMAIN p : p[k].item <= minted + 1 /\ p[k].item # minted + 1
    <3>1. \A i \in Nat : i <= minted => i <= minted + 1 /\ i # minted + 1
      BY <1>4
    <3> QED BY <2>5, <3>1
  <2>7. \A k \in 1..N + 1 : q[k].item <= minted + 1
    <3> TAKE k \in 1..N + 1
    <3>1. minted + 1 <= minted + 1
      BY <1>4
    <3>2. CASE k \in 1..n
      BY <2>3, <2>6, <3>2
    <3>3. CASE k = n + 1
      BY <1>11, <3>1, <3>3
    <3>4. CASE k \in n + 2..N + 1
      BY <2>4, <2>6, <3>4
    <3> QED BY <2>2, <3>2, <3>3, <3>4
  <2>8. \A j, k \in DOMAIN p : p[j].item = p[k].item => j = k
    BY DEF AgentSteady, Numbered
  <2>9. ASSUME NEW j \in 1..N + 1, NEW k \in 1..N + 1, q[j].item = q[k].item PROVE j = k
    <3>1. \A i \in 1..n, l \in n + 2..N + 1 : l - 1 # i
      BY ONLY <1>5, <2>1
    <3>2. \A i, l \in n + 2..N + 1 : i - 1 = l - 1 => i = l
      BY ONLY <1>5, <2>1
    <3>3. CASE j = n + 1
      BY <1>11, <2>2, <2>3, <2>4, <2>6, <2>9, <3>3
    <3>4. CASE k = n + 1
      BY <1>11, <2>2, <2>3, <2>4, <2>6, <2>9, <3>4
    <3>5. CASE j \in 1..n /\ k \in 1..n
      BY <2>3, <2>8, <2>9, <3>5
    <3>6. CASE j \in 1..n /\ k \in n + 2..N + 1
      BY <2>3, <2>4, <2>8, <2>9, <3>1, <3>6
    <3>7. CASE j \in n + 2..N + 1 /\ k \in 1..n
      BY <2>3, <2>4, <2>8, <2>9, <3>1, <3>7
    <3>8. CASE j \in n + 2..N + 1 /\ k \in n + 2..N + 1
      BY <2>4, <2>8, <2>9, <3>2, <3>8
    <3> QED BY <2>2, <3>3, <3>4, <3>5, <3>6, <3>7, <3>8
  <2>10. \A k \in 1..N + 1 : q[k].idx = k - 1
    BY <1>11
  <2>11. \A k \in DOMAIN q : q[k].idx = k - 1 /\ q[k].item <= minted'
    BY <1>8, <2>1, <2>7, <2>10
  <2>12. \A j, k \in DOMAIN q : q[j].item = q[k].item => j = k
    BY <2>1, <2>9
  <2> QED BY <2>11, <2>12 DEF Numbered
<1>16. Aligned(steps', q)
  <2>1. DOMAIN steps' = 1..n /\ Len(steps') <= Len(q)
    BY <1>4, <1>5, <1>11, <1>13
  <2>2. \A k \in DOMAIN steps' : /\ steps'[k].idx = k - 1
                                /\ steps'[k].item = q[k].item
                                /\ steps'[k].kind = q[k].kind
    BY <1>11, <1>13, <2>1 DEF Aligned
  <2>3. \A k \in DOMAIN steps' : k < Len(steps') => steps'[k].status \in Ended
    BY <1>13 DEF Aligned
  <2> QED BY <2>1, <2>2, <2>3 DEF Aligned
<1>17. RunSound(r)'
  BY <1>3, <1>9, <1>10, <1>13, <1>14 DEF RunSound, Onward
<1>18. Numbered(session.plan)' /\ Aligned(steps, session.plan)'
  <2>1. Numbered(session.plan)'
    BY <1>14, <1>15 DEF Numbered
  <2> QED BY <1>14, <1>16, <2>1 DEF Aligned
<1>19. x # Agent!Over
  BY <1>9 DEF Agent!Over
<1>20. calls' \in Seq(Nat) /\ minted' \in Nat /\ followUp' = followUp
  BY <1>4, <1>8
<1> QED BY <1>1, <1>9, <1>10, <1>13, <1>14, <1>17, <1>18, <1>19, <1>20, RunSteps

(* No run is active: a request comes, and starts one or none.              *)
LEMMA NewRunIs ==
  ASSUME NEW pc \in Pcs, NEW from \in Nat, NEW safe \in BOOLEAN
  PROVE  LET a == Agent!NewRun(pc, from, safe)
         IN  a \in ActiveRun /\ a.pc = pc /\ a.from = from
BY DEF Agent!NewRun, ActiveRun

LEMMA RequestLaunches ==
  ASSUME AgentSteady, Agent!Idle, NEW r \in Agent!RunIds, NEW a \in ActiveRun,
         runs' = [runs EXCEPT ![r] = a], followUp' = Agent!Nothing,
         session' \in [status : Agent!Statuses, plan : Seq(Entry), revision : Nat],
         UNCHANGED <<steps, calls>>, minted' \in Nat,
         Numbered(session.plan)', Aligned(steps, session.plan)', RunSound(r)'
  PROVE  AgentSteady'
<1>1. runs \in [Agent!RunIds -> {Agent!NoRun, Agent!Over} \cup ActiveRun]
  BY DEF AgentSteady, AgentTypes
<1>2. /\ runs' \in [Agent!RunIds -> {Agent!NoRun, Agent!Over} \cup ActiveRun]
      /\ runs'[r] = a /\ \A q \in Agent!RunIds : q # r => runs'[q] = runs[q]
  BY <1>1
<1>3. \A q \in Agent!RunIds : q # r => ~Agent!Active(q)'
  BY <1>2 DEF Agent!Idle, Agent!Active
<1>4. Agent!Active(r)' /\ ~Agent!Idle'
  BY <1>2 DEF Agent!Active, ActiveRun, Pcs, Agent!Idle
<1>5. AgentTypes'
  BY <1>2 DEF AgentSteady, AgentTypes
<1>6. FollowUpKept'
  BY DEF FollowUpKept, Agent!Nothing
<1>7. CallsOrdered'
  BY DEF AgentSteady, CallsOrdered, Called
<1>8. \A q \in Agent!RunIds : Agent!Active(q)' => RunSound(q)'
  BY <1>3
<1>9. \A q, p \in Agent!RunIds : Agent!Active(q)' /\ Agent!Active(p)' => q = p
  BY <1>3
<1> QED BY <1>4, <1>5, <1>6, <1>7, <1>8, <1>9 DEF AgentSteady

LEMMA RequestRests ==
  ASSUME AgentSteady, Agent!Idle, runs' = runs,
         \/ followUp' = Agent!Nothing
         \/ followUp' \in [read : {TRUE}, status : Agent!Statuses, plan : Seq(Entry), item : Nat],
         session' \in [status : Agent!Statuses, plan : Seq(Entry), revision : Nat],
         UNCHANGED <<steps, calls>>, minted' \in Nat,
         Numbered(session.plan)', Aligned(steps, session.plan)', Rests', FollowUpKept'
  PROVE  AgentSteady'
<1>1. Agent!Idle' /\ \A q \in Agent!RunIds : ~Agent!Active(q)'
  BY DEF Agent!Idle, Agent!Active
<1>2. CallsOrdered'
  BY DEF AgentSteady, CallsOrdered, Called
<1>3. AgentTypes'
  BY DEF AgentSteady, AgentTypes
<1> QED BY <1>1, <1>2, <1>3 DEF AgentSteady

(* A follow-up that was not read is none.                                  *)
LEMMA NoFollowUp ==
  ASSUME AgentSteady, ~followUp.read PROVE followUp = Agent!Nothing
BY DEF AgentSteady, AgentTypes

LEMMA ResumeKeeps ==
  ASSUME AgentSteady, NEW r \in Agent!RunIds, Agent!Resume(r), calm' PROVE AgentSteady'
<1> DEFINE a == Agent!NewRun("resuming", 0, FALSE)
<1>1. /\ session.status \in Agent!Paused /\ Agent!Idle /\ ~followUp.read
      /\ runs' = [runs EXCEPT ![r] = a] /\ UNCHANGED <<session, steps, followUp, calls, minted>>
  BY DEF Agent!Resume, Agent!Launch
<1>2. a \in ActiveRun /\ a.pc = "resuming"
  BY NewRunIs DEF Pcs
<1> HIDE DEF a
<1>3. Waits /\ session.status # "none"
  BY <1>1 DEF AgentSteady, Rests, Agent!Paused
<1>4. runs'[r] = a
  BY <1>1 DEF AgentSteady, AgentTypes
<1>5. RunSound(r)'
  BY <1>1, <1>2, <1>3, <1>4 DEF RunSound, Waits, Called
<1>6. Numbered(session.plan)' /\ Aligned(steps, session.plan)'
  BY <1>1 DEF AgentSteady, Numbered, Aligned
<1>7. followUp' = Agent!Nothing
  BY <1>1, NoFollowUp
<1>8. /\ session' \in [status : Agent!Statuses, plan : Seq(Entry), revision : Nat]
      /\ minted' \in Nat
  BY <1>1 DEF AgentSteady, AgentTypes
<1> QED BY <1>1, <1>2, <1>5, <1>6, <1>7, <1>8, RequestLaunches

LEMMA FollowUpReadKeeps ==
  ASSUME AgentSteady, Agent!FollowUpRead, calm' PROVE AgentSteady'
<1>1. /\ session.status \notin {"none", "aborted", "failed"} /\ Agent!Idle
      /\ followUp' = [read |-> TRUE, status |-> session.status, plan |-> session.plan,
                      item |-> minted + 1]
      /\ minted' = minted + 1 /\ UNCHANGED <<session, steps, runs, calls>>
  BY DEF Agent!FollowUpRead
<1>2. /\ session \in [status : Agent!Statuses, plan : Seq(Entry), revision : Nat]
      /\ session.plan \in Seq(Entry) /\ session.status \in Agent!Statuses
      /\ minted \in Nat /\ minted + 1 \in Nat
  BY DEF AgentSteady, AgentTypes
<1>3. session.status \in Agent!Paused \cup {"completed"} /\ Rests
  BY <1>1 DEF AgentSteady, Rests
<1>4. \A k \in DOMAIN session.plan :
         /\ session.plan[k].idx = k - 1 /\ session.plan[k].item \in Nat
         /\ session.plan[k].item <= minted
  <2>1. \A k \in DOMAIN session.plan : session.plan[k] \in Entry
    BY <1>2
  <2> QED BY <2>1 DEF AgentSteady, Numbered, Entry
<1>5. \A k \in DOMAIN session.plan :
         session.plan[k].item <= minted + 1 /\ session.plan[k].item # minted + 1
  BY <1>2, <1>4
<1>6. Numbered(session.plan)'
  BY <1>1, <1>5 DEF AgentSteady, Numbered
<1>7. Aligned(steps, session.plan)'
  BY <1>1 DEF AgentSteady, Aligned
<1>8. Rests'
  BY <1>1, <1>3 DEF Rests, Waits, AllEnded, Called
<1>9. followUp' \in [read : {TRUE}, status : Agent!Statuses, plan : Seq(Entry), item : Nat]
  BY <1>1, <1>2
<1>10. Agent!Idle'
  BY <1>1 DEF Agent!Idle, Agent!Active
<1>11. /\ followUp'.plan = session.plan /\ followUp'.status = session.status
       /\ followUp'.item = minted + 1 /\ minted + 1 <= minted'
  BY <1>1, <1>2
<1>12. FollowUpKept'
  BY <1>1, <1>3, <1>5, <1>10, <1>11 DEF FollowUpKept
<1> QED BY <1>1, <1>2, <1>6, <1>7, <1>8, <1>9, <1>12, RequestRests

LEMMA CancelKeeps ==
  ASSUME AgentSteady, Agent!Cancel, calm' PROVE AgentSteady'
<1>1. /\ Agent!Idle /\ ~followUp.read /\ session' = [session EXCEPT !.status = "aborted"]
      /\ UNCHANGED <<steps, runs, followUp, calls, minted>>
  BY DEF Agent!Cancel
<1>2. /\ session' \in [status : Agent!Statuses, plan : Seq(Entry), revision : Nat]
      /\ session'.plan = session.plan /\ session'.status = "aborted" /\ minted' \in Nat
  BY <1>1 DEF AgentSteady, AgentTypes, Agent!Statuses, Agent!Terminal
<1>3. Numbered(session.plan)' /\ Aligned(steps, session.plan)'
  BY <1>1, <1>2 DEF AgentSteady, Numbered, Aligned
<1>4. Rests'
  BY <1>2 DEF Rests
<1>5. followUp' = Agent!Nothing /\ FollowUpKept'
  BY <1>1, NoFollowUp DEF FollowUpKept
<1> QED BY <1>1, <1>2, <1>3, <1>4, <1>5, RequestRests

LEMMA RestartKeeps ==
  ASSUME AgentSteady, Agent!Restart, calm' PROVE AgentSteady'
<1>1. /\ Agent!Idle /\ followUp' = Agent!Nothing
      /\ runs' = [r \in Agent!RunIds |-> IF Agent!Active(r) THEN Agent!Over ELSE runs[r]]
      /\ UNCHANGED <<session, steps, calls, minted>>
  BY DEF Agent!Restart
<1>2. runs' = runs
  <2>1. \A r \in Agent!RunIds : ~Agent!Active(r)
    BY <1>1 DEF Agent!Idle
  <2>2. runs' = [r \in Agent!RunIds |-> runs[r]]
    BY <1>1, <2>1
  <2> QED BY <2>2 DEF AgentSteady, AgentTypes
<1>3. /\ session' \in [status : Agent!Statuses, plan : Seq(Entry), revision : Nat]
      /\ minted' \in Nat
  BY <1>1 DEF AgentSteady, AgentTypes
<1>4. Numbered(session.plan)' /\ Aligned(steps, session.plan)'
  BY <1>1 DEF AgentSteady, Numbered, Aligned
<1>5. Rests'
  BY <1>1, <1>2 DEF AgentSteady, Rests, Waits, AllEnded, Called
<1>6. FollowUpKept'
  BY <1>1 DEF FollowUpKept, Agent!Nothing
<1> QED BY <1>1, <1>2, <1>3, <1>4, <1>5, <1>6, RequestRests

LEMMA FollowUpWriteKeeps ==
  ASSUME AgentSteady, Agent!FollowUpWrite, calm' PROVE AgentSteady'
<1> DEFINE n == Len(session.plan)
           e == [item |-> followUp.item, idx |-> n, kind |-> "tool"]
           q == Append(session.plan, e)
           a == Agent!NewRun("starting", n, TRUE)
<1>1. /\ session \in [status : Agent!Statuses, plan : Seq(Entry), revision : Nat]
      /\ session.plan \in Seq(Entry) /\ steps \in Seq(StepRow) /\ minted \in Nat
      /\ n \in Nat /\ DOMAIN session.plan = 1..n
  BY DEF AgentSteady, AgentTypes
<1>2. /\ followUp.read /\ Agent!Idle
      /\ session.status \in Agent!Paused \cup {"completed"}
      /\ followUp.plan = session.plan /\ followUp.status = session.status
      /\ followUp.item \in Nat /\ followUp.item <= minted
      /\ \A k \in DOMAIN session.plan : session.plan[k].item # followUp.item
  <2>1. followUp.read /\ followUp # Agent!Nothing
    BY DEF Agent!FollowUpWrite, Agent!Nothing
  <2>2. followUp \in [read : {TRUE}, status : Agent!Statuses, plan : Seq(Entry), item : Nat]
    BY <2>1 DEF AgentSteady, AgentTypes
  <2> QED BY <2>1, <2>2 DEF AgentSteady, FollowUpKept
<1>3. /\ session' = [session EXCEPT !.plan = q] /\ followUp' = Agent!Nothing
      /\ UNCHANGED <<steps, calls, minted>>
      /\ \/ session.status \in Agent!Paused /\ runs' = runs
         \/ /\ session.status \notin Agent!Paused
            /\ \E r \in Agent!RunIds : runs' = [runs EXCEPT ![r] = a]
  BY <1>2 DEF Agent!FollowUpWrite, Agent!Launch
<1>4. e \in Entry /\ e.idx = n /\ e.item = followUp.item
  BY <1>1, <1>2 DEF Entry
<1> HIDE DEF e, n
<1>5. /\ q \in Seq(Entry) /\ Len(q) = n + 1 /\ DOMAIN q = 1..n + 1 /\ q[n + 1] = e
      /\ \A k \in DOMAIN session.plan : q[k] = session.plan[k]
  BY <1>1, <1>4 DEF n
<1> HIDE DEF q
<1>6. /\ session' \in [status : Agent!Statuses, plan : Seq(Entry), revision : Nat]
      /\ session'.plan = q /\ session'.status = session.status /\ minted' \in Nat
  BY <1>1, <1>3, <1>5
<1>7. \A k \in DOMAIN q : k \in DOMAIN session.plan \/ k = n + 1
  BY ONLY <1>1, <1>5
<1>8. Numbered(session.plan)'
  <2>1. \A k \in DOMAIN q : q[k].idx = k - 1 /\ q[k].item <= minted
    <3>1. \A k : k = n + 1 => k - 1 = n
      BY <1>1
    <3>2. q[n + 1].idx = n /\ q[n + 1].item <= minted
      BY <1>2, <1>4, <1>5
    <3>3. \A k \in DOMAIN session.plan : q[k].idx = k - 1 /\ q[k].item <= minted
      BY <1>5 DEF AgentSteady, Numbered
    <3> TAKE k \in DOMAIN q
    <3>4. CASE k = n + 1
      BY ONLY <3>1, <3>2, <3>4
    <3>5. CASE k \in DOMAIN session.plan
      BY <3>3, <3>5
    <3> QED BY <1>7, <3>4, <3>5
  <2>2. \A j, k \in DOMAIN q : q[j].item = q[k].item => j = k
    BY <1>2, <1>4, <1>5, <1>7 DEF AgentSteady, Numbered
  <2> QED BY <1>3, <1>6, <2>1, <2>2 DEF Numbered
<1>9. Aligned(steps, session.plan)'
  <2>1. Len(steps) <= n /\ Len(steps) \in Nat /\ DOMAIN steps = 1..Len(steps)
    BY <1>1 DEF AgentSteady, Aligned, n
  <2>2. Len(steps) <= n + 1 /\ \A k \in DOMAIN steps : k \in DOMAIN session.plan
    BY ONLY <1>1, <2>1
  <2>3. \A k \in DOMAIN steps : /\ steps[k].idx = k - 1 /\ steps[k].item = q[k].item
                                /\ steps[k].kind = q[k].kind
                                /\ k < Len(steps) => steps[k].status \in Ended
    BY <1>5, <2>2 DEF AgentSteady, Aligned
  <2> QED BY <1>3, <1>5, <1>6, <2>2, <2>3 DEF Aligned
<1>10. CASE session.status \in Agent!Paused /\ runs' = runs
  <2>1. Waits
    BY <1>2, <1>10 DEF AgentSteady, Rests, Agent!Paused
  <2>2. Rests'
    BY <1>3, <1>6, <1>10, <2>1 DEF Rests, Waits, Called
  <2>3. FollowUpKept'
    BY <1>3 DEF FollowUpKept, Agent!Nothing
  <2> QED BY <1>2, <1>3, <1>6, <1>8, <1>9, <1>10, <2>2, <2>3, RequestRests
<1>11. ASSUME NEW r \in Agent!RunIds, session.status \notin Agent!Paused,
              runs' = [runs EXCEPT ![r] = a]
       PROVE  AgentSteady'
  <2>1. session.status = "completed" /\ AllEnded /\ Len(steps) = n
    BY <1>2, <1>11 DEF AgentSteady, Rests, n
  <2>2. a \in ActiveRun /\ a.pc = "starting" /\ a.from = n
    <3>1. n \in Nat /\ "starting" \in Pcs /\ TRUE \in BOOLEAN
      BY <1>1 DEF Pcs
    <3> QED BY ONLY <3>1, NewRunIs
  <2> HIDE DEF a
  <2>3. runs'[r] = a
    BY <1>11 DEF AgentSteady, AgentTypes
  <2>4. RunSound(r)'
    BY <1>3, <1>6, <2>1, <2>2, <2>3 DEF RunSound, Onward, AllEnded
  <2> QED BY <1>2, <1>3, <1>6, <1>8, <1>9, <1>11, <2>2, <2>4, RequestLaunches
<1> QED BY <1>3, <1>10, <1>11

(* The initial plans have their entries' items in some order.              *)
LEMMA PlanIs ==
  ASSUME NEW n \in Nat
  PROVE  LET p == Agent!Plan(n)
         IN  /\ p \in Seq(Entry) /\ Len(p) = n + 1 /\ DOMAIN p = 1..n + 1
             /\ \A k \in 1..n + 1 : p[k].item = k /\ p[k].idx = k - 1
<1> DEFINE p == Agent!Plan(n)
<1>1. p = [i \in 1..n + 1 |-> Agent!Entry(i, IF i <= n THEN "tool" ELSE "final")]
  BY DEF Agent!Plan
<1>2. ASSUME NEW i \in 1..n + 1, NEW kind \in {"tool", "final"}
      PROVE  LET e == Agent!Entry(i, kind) IN e \in Entry /\ e.item = i /\ e.idx = i - 1
  BY DEF Agent!Entry, Entry
<1>3. \A i \in 1..n + 1 : p[i] \in Entry /\ p[i].item = i /\ p[i].idx = i - 1
  BY <1>1, <1>2
<1>4. DOMAIN p = 1..n + 1 /\ p = [i \in 1..n + 1 |-> p[i]] /\ n + 1 \in Nat
  BY <1>1
<1> HIDE DEF p
<1>5. p \in Seq(Entry) /\ Len(p) = n + 1
  BY <1>3, <1>4
<1> QED BY <1>3, <1>4, <1>5 DEF p

(* The items of a plan that is as long as it has items.                    *)
Fresh(q) ==
  /\ q \in Seq(Entry)
  /\ \A k \in DOMAIN q : q[k].idx = k - 1 /\ q[k].item <= Len(q)
  /\ \A j, k \in DOMAIN q : q[j].item = q[k].item => j = k

LEMMA StartsFresh ==
  ASSUME NEW n \in Nat, NEW k \in 0..n + 1
  PROVE  Fresh(Agent!StartingWith(Agent!Plan(n), k)) /\ Fresh(Agent!Plan(n))
<1> DEFINE p == Agent!Plan(n)
<1>1. /\ p \in Seq(Entry) /\ Len(p) = n + 1 /\ DOMAIN p = 1..n + 1
      /\ \A i \in 1..n + 1 : p[i].item = i /\ p[i].idx = i - 1
  BY PlanIs
<1> HIDE DEF p
<1>2. Fresh(p)
  BY <1>1 DEF Fresh
<1>3. CASE k = 0
  <2> DEFINE e == [item |-> Len(p) + 1, idx |-> 0, kind |-> "tool"]
             s == <<e>> \o p
             q == Agent!Renumber(s)
  <2>1. e \in Entry /\ e.item = n + 2
    BY <1>1 DEF Entry
  <2>2. Agent!StartingWith(p, k) = q
    BY <1>3 DEF Agent!StartingWith
  <2> HIDE DEF e
  <2>3. <<e>> \in Seq(Entry) /\ Len(<<e>>) = 1 /\ <<e>>[1] = e
    BY <2>1
  <2> DEFINE o == <<e>>
  <2> HIDE DEF o
  <2>4. s \in Seq(Entry) /\ Len(s) = Len(o) + Len(p)
        /\ \A i \in 1..Len(o) + Len(p) : s[i] = IF i <= Len(o) THEN o[i] ELSE p[i - Len(o)]
    <3>1. o \in Seq(Entry) /\ p \in Seq(Entry) /\ s = o \o p
      BY <1>1, <2>3 DEF o
    <3> HIDE DEF s
    <3> QED BY ONLY <3>1
  <2>5. Len(o) + Len(p) = n + 2 /\ Len(o) = 1 /\ o[1] = e
    BY <1>1, <2>3 DEF o
  <2> HIDE DEF s
  <2>6. s[1].item = n + 2 /\ \A i \in 2..n + 2 : s[i].item = i - 1
    <3>1. 1 \in 1..n + 2 /\ \A i \in 2..n + 2 : i \in 1..n + 2 /\ ~(i <= 1) /\ i - 1 \in 1..n + 1
      OBVIOUS
    <3>2. s[1] = e
      BY <2>4, <2>5, <3>1
    <3>3. \A i \in 2..n + 2 : s[i] = p[i - 1]
      BY <2>4, <2>5, <3>1
    <3>4. \A i \in 2..n + 2 : p[i - 1].item = i - 1
      BY <1>1, <3>1
    <3> QED BY <2>1, <3>2, <3>3, <3>4
  <2>7. /\ q \in Seq(Entry) /\ Len(q) = n + 2 /\ DOMAIN q = 1..n + 2
        /\ \A i \in 1..n + 2 : q[i].idx = i - 1 /\ q[i].item = s[i].item
    <3>1. DOMAIN s = 1..n + 2
      BY <2>4, <2>5
    <3> QED BY <2>4, <2>5, <3>1, Renumbered
  <2> HIDE DEF q
  <2>8. \A i \in 1..n + 2 : i = 1 \/ i \in 2..n + 2
    OBVIOUS
  <2>9. \A i \in 1..n + 2 : \/ i = 1 /\ q[i].item = n + 2
                            \/ i \in 2..n + 2 /\ q[i].item = i - 1
    BY <2>6, <2>7, <2>8
  <2>10. ASSUME NEW i \in 1..n + 2, NEW j \in 1..n + 2
         PROVE  q[i].item <= n + 2 /\ (q[i].item = q[j].item => i = j)
    <3> DEFINE c == q[i].item
               d == q[j].item
    <3>1. /\ (i = 1 /\ c = n + 2) \/ (i \in 2..n + 2 /\ c = i - 1)
          /\ (j = 1 /\ d = n + 2) \/ (j \in 2..n + 2 /\ d = j - 1)
      BY <2>9
    <3> HIDE DEF c, d
    <3>2. c <= n + 2 /\ (c = d => i = j)
      BY ONLY n \in Nat, <3>1
    <3> QED BY <3>2 DEF c, d
  <2>11. Fresh(q)
    BY <2>7, <2>10 DEF Fresh
  <2> QED BY <1>2, <2>2, <2>11 DEF p
<1>4. CASE k \in 1..n + 1
  <2> DEFINE o == <<p[k]>>
             u == SubSeq(p, 1, k - 1)
             v == SubSeq(p, k + 1, Len(p))
             s == o \o u \o v
             q == Agent!Renumber(s)
  <2>1. Agent!StartingWith(p, k) = q
    BY <1>4 DEF Agent!StartingWith
  <2>2. o \in Seq(Entry) /\ Len(o) = 1 /\ o[1] = p[k]
    BY <1>1, <1>4
  <2>3. u \in Seq(Entry) /\ Len(u) = k - 1 /\ \A i \in 1..k - 1 : u[i] = p[i]
    BY <1>1, <1>4
  <2>4. /\ v \in Seq(Entry) /\ Len(v) = n + 1 - k
        /\ \A i \in 1..n + 1 - k : v[i] = p[k + i]
    BY <1>1, <1>4
  <2> HIDE DEF o, u, v
  <2> DEFINE w == o \o u
  <2>5. w \in Seq(Entry) /\ Len(w) = Len(o) + Len(u)
        /\ \A i \in 1..Len(o) + Len(u) : w[i] = IF i <= Len(o) THEN o[i] ELSE u[i - Len(o)]
    <3>1. o \in Seq(Entry) /\ u \in Seq(Entry)
      BY <2>2, <2>3
    <3> QED BY ONLY <3>1
  <2> HIDE DEF w
  <2>6. s \in Seq(Entry) /\ Len(s) = Len(w) + Len(v)
        /\ \A i \in 1..Len(w) + Len(v) : s[i] = IF i <= Len(w) THEN w[i] ELSE v[i - Len(w)]
    <3>1. w \in Seq(Entry) /\ v \in Seq(Entry) /\ s = w \o v
      BY <2>4, <2>5 DEF w
    <3> HIDE DEF s
    <3> QED BY ONLY <3>1
  <2>7. Len(o) = 1 /\ Len(u) = k - 1 /\ Len(w) = k /\ Len(v) = n + 1 - k /\ Len(w) + Len(v) = n + 1
        /\ Len(o) + Len(u) = k
    BY <1>4, <2>2, <2>3, <2>4, <2>5
  <2> HIDE DEF s
  <2>8. /\ \A i \in 1..n + 1 : \/ i = 1
                               \/ i \in 2..k
                               \/ i \in k + 1..n + 1
        /\ \A i \in 2..k : i \in 1..k /\ i \in 1..n + 1 /\ ~(i <= 1) /\ i - 1 \in 1..k - 1
                           /\ i - 1 \in 1..n + 1 /\ i <= k
        /\ \A i \in k + 1..n + 1 : i \in 1..n + 1 /\ ~(i <= k) /\ i - k \in 1..n + 1 - k
                                   /\ k + (i - k) = i
        /\ 1 \in 1..k /\ 1 \in 1..n + 1 /\ 1 <= k
    BY ONLY n \in Nat, <1>4
  <2>9. s[1].item = k
    BY <1>1, <1>4, <2>2, <2>5, <2>6, <2>7, <2>8
  <2>10. \A i \in 2..k : s[i].item = i - 1
    <3>1. \A i \in 2..k : s[i] = w[i]
      BY <2>6, <2>7, <2>8
    <3>2. \A i \in 2..k : w[i] = u[i - 1]
      BY <2>5, <2>7, <2>8
    <3>3. \A i \in 2..k : u[i - 1] = p[i - 1]
      BY <2>3, <2>8
    <3>4. \A i \in 2..k : p[i - 1].item = i - 1
      BY <1>1, <2>8
    <3> QED BY <3>1, <3>2, <3>3, <3>4
  <2>11. \A i \in k + 1..n + 1 : s[i].item = i
    <3>1. \A i \in k + 1..n + 1 : s[i] = v[i - k]
      BY <2>6, <2>7, <2>8
    <3>2. \A i \in k + 1..n + 1 : v[i - k] = p[i]
      BY <2>4, <2>8
    <3> QED BY <1>1, <2>8, <3>1, <3>2
  <2>12. /\ q \in Seq(Entry) /\ Len(q) = n + 1 /\ DOMAIN q = 1..n + 1
         /\ \A i \in 1..n + 1 : q[i].idx = i - 1 /\ q[i].item = s[i].item
    <3>1. DOMAIN s = 1..n + 1
      BY <2>6, <2>7
    <3> QED BY <2>6, <2>7, <3>1, Renumbered
  <2> HIDE DEF q
  <2>13. \A i \in 1..n + 1 : \/ i = 1 /\ q[i].item = k
                             \/ i \in 2..k /\ q[i].item = i - 1
                             \/ i \in k + 1..n + 1 /\ q[i].item = i
    BY <2>8, <2>9, <2>10, <2>11, <2>12
  <2>14. ASSUME NEW i \in 1..n + 1, NEW j \in 1..n + 1
         PROVE  q[i].item <= n + 1 /\ (q[i].item = q[j].item => i = j)
    <3> DEFINE c == q[i].item
               d == q[j].item
    <3>1. /\ (i = 1 /\ c = k) \/ (i \in 2..k /\ c = i - 1) \/ (i \in k + 1..n + 1 /\ c = i)
          /\ (j = 1 /\ d = k) \/ (j \in 2..k /\ d = j - 1) \/ (j \in k + 1..n + 1 /\ d = j)
      BY <2>13
    <3> HIDE DEF c, d
    <3>2. c <= n + 1 /\ (c = d => i = j)
      BY ONLY n \in Nat, <1>4, <3>1
    <3> QED BY <3>2 DEF c, d
  <2>15. Fresh(q)
    BY <2>12, <2>14 DEF Fresh
  <2> QED BY <1>2, <2>1, <2>15 DEF p
<1>5. k = 0 \/ k \in 1..n + 1
  OBVIOUS
<1> QED BY <1>3, <1>4, <1>5

LEMMA StartSessionKeeps ==
  ASSUME RunsNumbered, AgentSteady, Agent!StartSession PROVE AgentSteady'
<1>1. /\ session.status = "none" /\ runs' = [runs EXCEPT ![1] = Agent!NewRun("starting", 0, TRUE)]
      /\ UNCHANGED <<steps, followUp, calls>>
  BY DEF Agent!StartSession, Agent!Launch
<1>2. PICK p \in Agent!Plans : \E plan \in {p} \cup {Agent!StartingWith(p, k) : k \in 0..Len(p)} :
         /\ session' = [status |-> "planning", plan |-> plan, revision |-> 1]
         /\ minted' = Len(plan)
  BY DEF Agent!StartSession
<1>3. PICK plan \in {p} \cup {Agent!StartingWith(p, k) : k \in 0..Len(p)} :
         /\ session' = [status |-> "planning", plan |-> plan, revision |-> 1]
         /\ minted' = Len(plan)
  BY <1>2
<1>4. PICK n \in Nat : p = Agent!Plan(n)
  BY <1>2 DEF Agent!Plans, RunsNumbered
<1>5. Fresh(plan)
  <2>1. Len(p) = n + 1
    BY <1>4, PlanIs
  <2>2. CASE plan = p
    <3>1. 0 \in 0..n + 1
      OBVIOUS
    <3> QED BY <1>4, <2>2, <3>1, StartsFresh
  <2>3. ASSUME NEW k \in 0..n + 1, plan = Agent!StartingWith(p, k) PROVE Fresh(plan)
    BY <1>4, <2>3, StartsFresh
  <2> QED BY <1>3, <2>1, <2>2, <2>3
<1>6. /\ session' \in [status : Agent!Statuses, plan : Seq(Entry), revision : Nat]
      /\ session'.plan = plan /\ session'.status = "planning" /\ minted' \in Nat
  <2>1. "planning" \in Agent!Statuses /\ plan \in Seq(Entry) /\ Len(plan) \in Nat
    BY <1>5 DEF Agent!Statuses, Fresh
  <2> QED BY <1>3, <2>1
<1>7. Agent!Idle
  <2>1. \A r \in Agent!RunIds : Agent!Active(r) => session.status # "none"
    BY ActiveAlone DEF RunSound
  <2> QED BY <1>1, <2>1 DEF Agent!Idle
<1>8. steps = <<>>
  BY <1>1, <1>7 DEF AgentSteady, Rests, Agent!Paused
<1>9. followUp = Agent!Nothing
  <2>1. ~followUp.read
    BY <1>1 DEF AgentSteady, FollowUpKept, Agent!Paused
  <2> QED BY <2>1, NoFollowUp
<1> DEFINE a == Agent!NewRun("starting", 0, TRUE)
<1>10. a \in ActiveRun /\ a.pc = "starting" /\ a.from = 0
  <2>1. "starting" \in Pcs /\ 0 \in Nat /\ TRUE \in BOOLEAN
    BY DEF Pcs
  <2> QED BY ONLY <2>1, NewRunIs
<1> HIDE DEF a
<1>11. 1 \in Agent!RunIds
  BY DEF RunsNumbered, Agent!RunIds
<1>12. runs' = [runs EXCEPT ![1] = a] /\ runs'[1] = a
  BY <1>1, <1>11 DEF a, AgentSteady, AgentTypes
<1>13. steps' = <<>> /\ Len(steps') = 0 /\ DOMAIN steps' = {}
  BY <1>1, <1>8
<1>14. RunSound(1)'
  BY <1>6, <1>10, <1>12, <1>13 DEF RunSound, Onward, AllEnded
<1>15. Numbered(session.plan)'
  BY <1>3, <1>5, <1>6 DEF Numbered, Fresh
<1>16. Aligned(steps, session.plan)'
  <2>1. Len(plan) \in Nat
    BY <1>5 DEF Fresh
  <2> QED BY <1>6, <1>13, <2>1 DEF Aligned
<1> QED BY <1>1, <1>6, <1>7, <1>9, <1>10, <1>11, <1>12, <1>14, <1>15, <1>16, RequestLaunches

(* What the invariant says of the calls and of a pause.                    *)
LEMMA AgentHolds ==
  ASSUME AgentInv PROVE Agent!PlanFollowed /\ Agent!PausedCanResume
<1> SUFFICES ASSUME calm PROVE Agent!PlanFollowed /\ Agent!PausedCanResume
  BY DEF Agent!PlanFollowed, Agent!PausedCanResume
<1>1. AgentSteady
  BY DEF AgentInv
<1>2. /\ steps \in Seq(StepRow) /\ session.plan \in Seq(Entry) /\ calls \in Seq(Nat)
      /\ Len(steps) \in Nat /\ Len(session.plan) \in Nat /\ DOMAIN steps = 1..Len(steps)
      /\ DOMAIN session.plan = 1..Len(session.plan) /\ DOMAIN calls \subseteq Nat
  BY <1>1 DEF AgentSteady, AgentTypes
<1>3. /\ Len(steps) <= Len(session.plan)
      /\ \A k \in DOMAIN steps : /\ steps[k].idx = k - 1
                                 /\ steps[k].item = session.plan[k].item
                                 /\ steps[k].kind = session.plan[k].kind
      /\ \A k \in DOMAIN steps : k < Len(steps) => steps[k].status \in Ended
  BY <1>1 DEF AgentSteady, Aligned
<1>4. \A k \in DOMAIN steps : k \in DOMAIN session.plan
  BY ONLY <1>2, <1>3
<1>5. \A i, j \in DOMAIN session.plan : session.plan[i].item = session.plan[j].item => i = j
  BY <1>1 DEF AgentSteady, Numbered
<1>6. \A j \in DOMAIN calls : \E k \in DOMAIN steps : steps[k].item = calls[j]
  BY <1>1 DEF AgentSteady, CallsOrdered
<1>7. \A k \in DOMAIN steps : Agent!Place(steps[k].item) = k
  BY <1>3, <1>4, <1>5 DEF Agent!Place
<1>8. \A k \in DOMAIN calls : \E m \in DOMAIN session.plan : session.plan[m].item = calls[k]
  BY <1>3, <1>4, <1>6
<1>9. \A j, k \in DOMAIN calls : j < k => Agent!Place(calls[j]) < Agent!Place(calls[k])
  <2> SUFFICES ASSUME NEW j \in DOMAIN calls, NEW k \in DOMAIN calls, j < k
               PROVE  Agent!Place(calls[j]) < Agent!Place(calls[k])
    OBVIOUS
  <2>1. PICK l \in DOMAIN steps : steps[l].item = calls[j]
    BY <1>6
  <2>2. PICK m \in DOMAIN steps : steps[m].item = calls[k]
    BY <1>6
  <2>3. l < m
    BY <1>1, <2>1, <2>2 DEF AgentSteady, CallsOrdered
  <2> QED BY <1>7, <2>1, <2>2, <2>3
<1>10. ASSUME session.status = "completed", Agent!Idle, NEW m \in DOMAIN session.plan
       PROVE  \/ session.plan[m].kind = "final"
              \/ \E k \in DOMAIN calls : calls[k] = session.plan[m].item
              \/ \E k \in DOMAIN steps : /\ steps[k].item = session.plan[m].item
                                         /\ steps[k].status = "failed"
  <2>1. AllEnded /\ Len(steps) = Len(session.plan)
    BY <1>1, <1>10 DEF AgentSteady, Rests, Agent!Paused
  <2>2. m \in DOMAIN steps /\ steps[m].status \in Ended
    BY <1>2, <2>1 DEF AllEnded
  <2>3. steps[m].status = "succeeded" => steps[m].kind = "final" \/ Called(steps[m].item)
    BY <1>1, <2>2 DEF AgentSteady, CallsOrdered
  <2> QED BY <1>3, <2>2, <2>3 DEF Ended, Called
<1>11. Agent!PlanFollowed
  BY <1>8, <1>9, <1>10 DEF Agent!PlanFollowed
<1>12. Agent!PausedCanResume
  <2> SUFFICES ASSUME session.status \in Agent!Paused, Agent!Idle
               PROVE  \E k \in DOMAIN steps :
                         /\ steps[k].idx = Agent!ResumePoint /\ steps[k].status \in Agent!Paused
                         /\ \A m \in DOMAIN steps : steps[m].idx < Agent!ResumePoint =>
                               steps[m].status \in Agent!Done \cup {"failed"}
    BY DEF Agent!PausedCanResume
  <2>1. Waits
    BY <1>1 DEF AgentSteady, Rests, Agent!Paused
  <2>2. Agent!ResumePoint = Len(steps) - 1
    BY <1>1, <2>1, ResumeIs
  <2>3. Len(steps) \in DOMAIN steps /\ steps[Len(steps)].status \in Agent!Paused
    BY <1>2, <2>1 DEF Waits
  <2>4. \A m \in DOMAIN steps : steps[m].idx < Len(steps) - 1 => m < Len(steps)
    <3>1. \A m \in DOMAIN steps : m \in Nat /\ (m - 1 < Len(steps) - 1 => m < Len(steps))
      BY <1>2
    <3> QED BY <1>3, <3>1
  <2>5. \A m \in DOMAIN steps : steps[m].idx < Len(steps) - 1 =>
           steps[m].status \in Agent!Done \cup {"failed"}
    BY <1>3, <2>4 DEF Ended, Agent!Done
  <2> QED BY <1>3, <2>2, <2>3, <2>5
<1> QED BY <1>11, <1>12

LEMMA RunKeeps ==
  ASSUME AgentSteady, NEW r \in Agent!RunIds, Agent!Run(r) PROVE AgentSteady'
BY MarkRunningKeeps, LoadKeeps, StartStepKeeps, CompleteSessionKeeps, DispatchKeeps,
   AbortSessionKeeps, PauseForKeeps, StepSucceededKeeps, StepFailedKeeps, ResumeScanKeeps
   DEF Agent!Run

LEMMA AgentAlways ==
  ASSUME RunsNumbered
  PROVE  /\ Agent!Init => AgentInv
         /\ AgentInv /\ [Agent!Next]_(Agent!vars) => AgentInv'
         /\ AgentInv => Agent!PlanFollowed /\ Agent!PausedCanResume
<1>1. Agent!Init => AgentInv
  <2> SUFFICES ASSUME Agent!Init PROVE AgentSteady
    BY DEF AgentInv
  <2>1. /\ session = [status |-> "none", plan |-> <<>>, revision |-> 0]
        /\ steps = <<>> /\ calls = <<>> /\ minted = 0 /\ followUp = Agent!Nothing
        /\ runs = [r \in Agent!RunIds |-> Agent!NoRun]
    BY DEF Agent!Init
  <2>2. AgentTypes
    BY <2>1 DEF AgentTypes, Agent!Statuses
  <2>3. Numbered(session.plan) /\ Aligned(steps, session.plan) /\ CallsOrdered
    BY <2>1 DEF Numbered, Aligned, CallsOrdered
  <2>4. \A r \in Agent!RunIds : ~Agent!Active(r) /\ runs[r] = Agent!NoRun
    BY <2>1 DEF Agent!Active, Agent!NoRun
  <2>5. Rests /\ FollowUpKept
    BY <2>1, <2>4 DEF Rests, FollowUpKept, Agent!Nothing
  <2> QED BY <2>2, <2>3, <2>4, <2>5 DEF AgentSteady
<1>2. ASSUME AgentInv, [Agent!Next]_(Agent!vars), calm' PROVE AgentSteady'
  <2>1. calm
    BY <1>2 DEF Agent!Next, Agent!vars, Agent!StartSession, Agent!FollowUpRead,
         Agent!FollowUpWrite, Agent!Cancel, Agent!Restart, Agent!Run, Agent!Resume,
         Agent!StoreFails, Agent!MarkRunning, Agent!Load, Agent!StartStep,
         Agent!CompleteSession, Agent!FinalStep, Agent!AbortSession, Agent!PauseFor,
         Agent!Call, Agent!GateFails, Agent!StepSucceeded, Agent!StepFailed,
         Agent!ResumeScan
  <2>2. AgentSteady
    BY <1>2, <2>1 DEF AgentInv
  <2>3. CASE UNCHANGED Agent!vars
    <3>1. UNCHANGED <<session, steps, runs, followUp, calls, minted>>
      BY <2>3 DEF Agent!vars
    <3>2. CallsOrdered'
      BY <2>2, <3>1 DEF AgentSteady, CallsOrdered, Called
    <3>3. AgentTypes'
      BY <2>2, <3>1 DEF AgentSteady, AgentTypes
    <3>4. Numbered(session.plan)' /\ Aligned(steps, session.plan)'
      BY <2>2, <3>1 DEF AgentSteady, Numbered, Aligned
    <3>5. \A r \in Agent!RunIds : Agent!Active(r)' <=> Agent!Active(r)
      BY <3>1 DEF Agent!Active
    <3>6. \A r \in Agent!RunIds : RunSound(r) => RunSound(r)'
      BY <3>1 DEF RunSound, Onward, SeenBefore, AllEnded, Waits, Called
    <3>7. Rests => Rests'
      BY <3>1 DEF Rests, AllEnded, Waits, Called
    <3>8. FollowUpKept' /\ (Agent!Idle' <=> Agent!Idle)
      BY <2>2, <3>1, <3>5 DEF AgentSteady, FollowUpKept, Agent!Idle
    <3> QED BY <2>2, <3>2, <3>3, <3>4, <3>5, <3>6, <3>7, <3>8 DEF AgentSteady
  <2>4. CASE Agent!StartSession
    BY <2>2, <2>4, StartSessionKeeps
  <2>5. CASE Agent!FollowUpRead \/ Agent!FollowUpWrite \/ Agent!Cancel \/ Agent!Restart
    BY <1>2, <2>2, <2>5, FollowUpReadKeeps, FollowUpWriteKeeps, CancelKeeps, RestartKeeps
  <2>6. ASSUME NEW r \in Agent!RunIds, Agent!Run(r) \/ Agent!Resume(r) PROVE AgentSteady'
    BY <1>2, <2>2, <2>6, RunKeeps, ResumeKeeps
  <2>7. ASSUME NEW r \in Agent!RunIds, Agent!StoreFails(r) PROVE FALSE
    BY <1>2, <2>7 DEF Agent!StoreFails
  <2> QED BY <1>2, <2>3, <2>4, <2>5, <2>6, <2>7 DEF Agent!Next
<1> QED BY <1>1, <1>2, AgentHolds DEF AgentInv
=============================================================================
