------------------------ MODULE TriggerDispatch_proofs ------------------------
(***************************************************************************)
(* Proofs about the dispatcher in front of a runtime, for any firings,     *)
(* lanes, numbers of attempts and handlers: types, and the event emitted   *)
(* for a firing agrees with the answers it had.  IInv adds that a start    *)
(* exists at the runtime for attempts already made only, and that a firing *)
(* has its event, and its dead letter, exactly when it is over.            *)
(***************************************************************************)
EXTENDS TriggerDispatch, TLAPS

(* An attempt the firing has not made is unknown to the runtime.           *)
NotYetPosted(f) ==
  \A i \in 1..MaxAttempts : i > tries[f] => pc[<<f, i>>] = "idle"

(* A firing posts while attempts are left, and awaits one it has made.     *)
OnItsWay(f) ==
  /\ stage[f] \in {"ready", "posting"} => tries[f] < MaxAttempts
  /\ stage[f] \in {"awaiting", "over"} => tries[f] # 0
  /\ stage[f] # "over" => event[f] = "none" /\ f \notin dead

(* EventsFollowAnswers, of this firing.                                    *)
Answered(f) ==
  /\ event[f] = "fired" => \E i \in 1..MaxAttempts : pc[<<f, i>>] \in Started
  /\ event[f] = "dropped" => \E i \in 1..MaxAttempts : pc[<<f, i>>] = "dropped"
  /\ event[f] = "failed" <=> f \in dead
  /\ event[f] = "failed" /\ tries[f] < MaxAttempts =>
       pc[<<f, tries[f]>>] \in {"idle", "dropped"}

FireOK(f) ==
  /\ stage[f] \in Stages /\ tries[f] \in 0..MaxAttempts /\ event[f] \in Events
  /\ NotYetPosted(f) /\ OnItsWay(f) /\ Answered(f)

IInv == TypeOK /\ \A f \in Fires : FireOK(f)

-----------------------------------------------------------------------------
(* The tracker's steps, as the dispatcher's invariant sees them.           *)

(* A start at the runtime only goes on: an execution stays created and a   *)
(* refusal stays a refusal.                                                *)
Onward(l, m) ==
  /\ l = "idle" <=> m = "idle"
  /\ l \in Started => m \in Started
  /\ l = "dropped" => m = "dropped"

(* A step of the tracker keeps its types and takes each start onward.      *)
LEMMA TrackerStep ==
  ASSUME Runtime!TypeOK, NEW a \in Attempts,
         Runtime!Call(a) \/ Runtime!RunReturns(a) \/ Runtime!Release(a)
  PROVE  Runtime!TypeOK' /\ \A b \in Attempts : Onward(pc[b], pc'[b])
<1>1. /\ pc \in [Attempts -> Runtime!Locations] /\ key \in [Attempts -> Lanes]
      /\ policy \in [Attempts -> Runtime!Policies] /\ holders \in [Lanes -> Nat]
      /\ key[a] \in Lanes
  BY DEF Runtime!TypeOK
<1>2. CASE Runtime!Acquire(a)
  BY <1>1, <1>2
  DEF Runtime!Acquire, Runtime!Entered, Runtime!Goto, Runtime!TypeOK, Runtime!Locations,
      Onward, Started
<1>3. CASE Runtime!Refuse(a)
  BY <1>1, <1>3
  DEF Runtime!Refuse, Runtime!Goto, Runtime!TypeOK, Runtime!Locations, Onward, Started
<1>4. CASE Runtime!Park(a)
  BY <1>1, <1>4
  DEF Runtime!Park, Runtime!Goto, Runtime!TypeOK, Runtime!Locations, Onward, Started
<1>5. CASE Runtime!RunReturns(a)
  BY <1>1, <1>5
  DEF Runtime!RunReturns, Runtime!Goto, Runtime!TypeOK, Runtime!Locations, Onward, Started
<1>6. CASE Runtime!Release(a)
  <2>1. holders' \in [Lanes -> Nat]
    BY <1>1, <1>6 DEF Runtime!Release, Runtime!Left
  <2>2. \A b \in Attempts : pc'[b] = IF b = a THEN "done" ELSE Runtime!Broadcast(pc[b])
    BY <1>6 DEF Runtime!Release
  <2>3. \A b \in Attempts : Onward(pc[b], pc'[b]) /\ pc'[b] \in Runtime!Locations
    BY <1>1, <1>6, <2>2
    DEF Runtime!Release, Runtime!Broadcast, Runtime!Locations, Onward, Started
  <2>4. pc' \in [Attempts -> Runtime!Locations]
    BY <1>6, <2>3 DEF Runtime!Release
  <2> QED BY <1>1, <1>6, <2>1, <2>3, <2>4 DEF Runtime!Release, Runtime!TypeOK
<1> QED BY <1>2, <1>3, <1>4, <1>5, <1>6 DEF Runtime!Call

-----------------------------------------------------------------------------
(* One firing                                                              *)

(* A firing that does not move itself, whatever the runtime does.          *)
LEMMA Undisturbed ==
  ASSUME NEW f \in Fires, FireOK(f),
         stage'[f] = stage[f], tries'[f] = tries[f], event'[f] = event[f],
         f \in dead' <=> f \in dead,
         \A i \in 1..MaxAttempts : Onward(pc[<<f, i>>], pc'[<<f, i>>])
  PROVE  FireOK(f)'
<1>1. tries[f] \in 0..MaxAttempts /\ MaxAttempts \in Nat
  BY AttemptsAssumption DEF FireOK
<1>2. event[f] = "failed" => tries[f] \in 1..MaxAttempts
  BY <1>1 DEF FireOK, OnItsWay, Stages
<1>3. event[f] = "fired" => \E i \in 1..MaxAttempts : pc'[<<f, i>>] \in Started
  BY DEF FireOK, Answered, NotYetPosted, Onward
<1>4. event[f] = "dropped" => \E i \in 1..MaxAttempts : pc'[<<f, i>>] = "dropped"
  BY DEF FireOK, Answered, NotYetPosted, Onward
<1>5. event[f] = "failed" /\ tries[f] < MaxAttempts => pc'[<<f, tries[f]>>] \in {"idle", "dropped"}
  BY <1>2 DEF FireOK, Answered, Onward
<1>6. \A i \in 1..MaxAttempts : i > tries[f] => pc'[<<f, i>>] = "idle"
  BY DEF FireOK, Answered, NotYetPosted, Onward
<1> QED BY <1>3, <1>4, <1>5, <1>6 DEF FireOK, NotYetPosted, OnItsWay, Answered

(* The step of one firing leaves the others theirs.                        *)
Moves(f, st, n, e, d) ==
  /\ stage' = [stage EXCEPT ![f] = st]
  /\ tries' = [tries EXCEPT ![f] = n]
  /\ event' = [event EXCEPT ![f] = e]
  /\ dead' = IF d THEN dead \union {f} ELSE dead
  /\ handler' = handler

(* A firing that moves and stays right leaves the invariant intact.        *)
LEMMA Moved ==
  ASSUME IInv, Runtime!TypeOK', NEW f \in Fires,
         NEW st \in Stages, NEW n \in 0..MaxAttempts, NEW e \in Events, NEW d \in BOOLEAN,
         Moves(f, st, n, e, d),
         \A g \in Fires \ {f} : \A i \in 1..MaxAttempts : Onward(pc[<<g, i>>], pc'[<<g, i>>]),
         FireOK(f)'
  PROVE  IInv'
<1>1. /\ stage \in [Fires -> Stages] /\ tries \in [Fires -> 0..MaxAttempts]
      /\ event \in [Fires -> Events] /\ dead \subseteq Fires /\ handler \in Runtimes
      /\ \A g \in Fires : FireOK(g)
  BY DEF IInv, TypeOK
<1>2. /\ stage' \in [Fires -> Stages] /\ tries' \in [Fires -> 0..MaxAttempts]
      /\ event' \in [Fires -> Events] /\ dead' \subseteq Fires /\ handler' \in Runtimes
  BY <1>1 DEF Moves
<1>3. ASSUME NEW g \in Fires, g # f PROVE FireOK(g)'
  <2>1. /\ stage'[g] = stage[g] /\ tries'[g] = tries[g] /\ event'[g] = event[g]
        /\ g \in dead' <=> g \in dead
    BY <1>1, <1>3 DEF Moves
  <2> QED BY <1>1, <1>3, <2>1, Undisturbed
<1> QED BY <1>2, <1>3 DEF IInv, TypeOK

-----------------------------------------------------------------------------
(* The steps                                                               *)

(* A failed attempt: the next one, or the event and the dead letter.       *)
LEMMA FailedMoves ==
  ASSUME IInv, Runtime!TypeOK', NEW f \in Fires, NEW n \in 1..MaxAttempts,
         \/ stage[f] = "posting" /\ n = tries[f] + 1
         \/ stage[f] = "awaiting" /\ n = tries[f],
         tries' = [tries EXCEPT ![f] = n], handler' = handler, UNCHANGED laneVars,
         AttemptFailed(f, n)
  PROVE  IInv'
<1>1. /\ stage \in [Fires -> Stages] /\ tries \in [Fires -> 0..MaxAttempts]
      /\ event \in [Fires -> Events] /\ FireOK(f) /\ MaxAttempts \in Nat
  BY AttemptsAssumption DEF IInv, TypeOK
<1>2. pc' = pc
  BY DEF laneVars
<1>3. \A g \in Fires : \A i \in 1..MaxAttempts : Onward(pc[<<g, i>>], pc'[<<g, i>>])
  BY <1>2 DEF Onward
<1>4. CASE Exhausted(n)
  <2>1. Moves(f, "over", n, "failed", TRUE) /\ n = MaxAttempts
    BY <1>1, <1>4 DEF AttemptFailed, Emit, DeadLetter, Moves, Exhausted
  <2>2. stage'[f] = "over" /\ tries'[f] = n /\ event'[f] = "failed" /\ f \in dead'
    BY <1>1, <2>1 DEF Moves
  <2>3. FireOK(f)'
    BY <1>1, <1>2, <2>1, <2>2 DEF FireOK, NotYetPosted, OnItsWay, Answered, Stages, Events
  <2>4. "over" \in Stages /\ n \in 0..MaxAttempts /\ "failed" \in Events /\ TRUE \in BOOLEAN
    BY <1>1, <2>1 DEF Stages, Events
  <2> QED BY <1>3, <2>1, <2>3, <2>4, Moved
<1>5. CASE ~Exhausted(n)
  <2>1. event[f] = "none" /\ f \notin dead
    BY <1>1 DEF FireOK, OnItsWay
  <2>2. Moves(f, "posting", n, "none", FALSE) /\ n < MaxAttempts
    BY <1>1, <1>5, <2>1 DEF AttemptFailed, Moves, Exhausted
  <2>3. stage'[f] = "posting" /\ tries'[f] = n /\ event'[f] = "none" /\ f \notin dead'
    BY <1>1, <2>1, <2>2 DEF Moves
  <2>4. FireOK(f)'
    BY <1>1, <1>2, <2>2, <2>3 DEF FireOK, NotYetPosted, OnItsWay, Answered, Stages, Events
  <2>5. "posting" \in Stages /\ n \in 0..MaxAttempts /\ "none" \in Events /\ FALSE \in BOOLEAN
    BY <1>1, <2>2 DEF Stages, Events
  <2> QED BY <1>3, <2>2, <2>4, <2>5, Moved
<1> QED BY <1>4, <1>5

(* Every step of a firing keeps the invariant.                             *)
LEMMA FireStep ==
  ASSUME IInv, NEW f \in Fires, Fire(f) \/ Client(f)
  PROVE  IInv'
<1>1. /\ stage \in [Fires -> Stages] /\ tries \in [Fires -> 0..MaxAttempts]
      /\ event \in [Fires -> Events] /\ dead \subseteq Fires /\ FireOK(f)
      /\ Runtime!TypeOK /\ MaxAttempts \in Nat /\ MaxAttempts # 0
  BY AttemptsAssumption DEF IInv, TypeOK
<1>2. ASSUME UNCHANGED laneVars
      PROVE  /\ Runtime!TypeOK' /\ pc' = pc
             /\ \A g \in Fires : \A i \in 1..MaxAttempts : Onward(pc[<<g, i>>], pc'[<<g, i>>])
  BY <1>1, <1>2 DEF laneVars, Runtime!TypeOK, Onward
<1>3. CASE Fire(f)
  <2>1. Moves(f, "posting", tries[f], event[f], FALSE) /\ UNCHANGED laneVars
    BY <1>1, <1>3 DEF Fire, Moves
  <2>2. /\ stage'[f] = "posting" /\ tries'[f] = tries[f] /\ event'[f] = event[f]
        /\ dead' = dead /\ stage[f] = "ready"
    BY <1>1, <1>3, <2>1 DEF Fire, Moves
  <2>3. FireOK(f)'
    BY <1>1, <1>2, <2>1, <2>2 DEF FireOK, NotYetPosted, OnItsWay, Answered, Stages
  <2> QED BY <1>1, <1>2, <2>1, <2>3, Moved DEF Stages
<1>4. CASE PostLost(f)
  <2> DEFINE n == tries[f] + 1
  <2>1. stage[f] = "posting" /\ n \in 1..MaxAttempts /\ n = tries[f] + 1
    BY <1>1, <1>4 DEF PostLost, FireOK, OnItsWay
  <2>2. UNCHANGED laneVars /\ handler' = handler /\ AttemptFailed(f, n)
        /\ tries' = [tries EXCEPT ![f] = n]
    BY <1>4 DEF PostLost
  <2>3. Runtime!TypeOK'
    BY <1>2, <2>2
  <2> HIDE DEF n
  <2> QED BY <2>1, <2>2, <2>3, FailedMoves
<1>5. CASE GiveUp(f)
  <2>1. stage[f] = "awaiting" /\ tries[f] \in 1..MaxAttempts
    BY <1>1, <1>5 DEF GiveUp, FireOK, OnItsWay
  <2>2. UNCHANGED laneVars /\ handler' = handler /\ AttemptFailed(f, tries[f])
        /\ tries' = [tries EXCEPT ![f] = tries[f]]
    BY <1>1, <1>5 DEF GiveUp, Abandon
  <2> QED BY <1>2, <2>1, <2>2, FailedMoves
<1>6. CASE Post(f)
  <2> DEFINE n == tries[f] + 1
  <2>1. stage[f] = "posting" /\ n \in 1..MaxAttempts
    BY <1>1, <1>6 DEF Post, FireOK, OnItsWay
  <2>2. <<f, n>> \in Attempts
    BY <2>1 DEF Attempts
  <2>3. Runtime!TypeOK' /\ pc' = [pc EXCEPT ![<<f, n>>] = "calling"]
    BY <1>1, <1>6, <2>2
    DEF Post, Runtime!StartWorkflow, Runtime!Goto, Runtime!TypeOK, Runtime!Locations
  <2>4. \A g \in Fires : \A i \in 1..MaxAttempts :
          <<g, i>> # <<f, n>> => pc'[<<g, i>>] = pc[<<g, i>>]
    BY <1>1, <2>3 DEF Attempts, Runtime!TypeOK
  <2>5. \A g \in Fires \ {f} : \A i \in 1..MaxAttempts : Onward(pc[<<g, i>>], pc'[<<g, i>>])
    BY <2>4 DEF Onward
  <2>6. Moves(f, "awaiting", n, event[f], FALSE)
    BY <1>1, <1>6 DEF Post, Moves
  <2>7. /\ stage'[f] = "awaiting" /\ tries'[f] = n /\ event'[f] = "none"
        /\ f \notin dead' /\ event[f] = "none"
    BY <1>1, <2>1, <2>6 DEF Moves, FireOK, OnItsWay
  <2>8. NotYetPosted(f)'
    BY <1>1, <2>1, <2>4, <2>7 DEF FireOK, NotYetPosted
  <2>9. FireOK(f)'
    BY <1>1, <2>1, <2>7, <2>8 DEF FireOK, OnItsWay, Answered, Stages, Events
  <2>10. "awaiting" \in Stages /\ n \in 0..MaxAttempts /\ event[f] \in Events /\ FALSE \in BOOLEAN
    BY <1>1, <2>1 DEF Stages, Events
  <2> QED BY <1>1, <2>1, <2>3, <2>5, <2>6, <2>9, <2>10, Moved
<1>7. CASE Accepted(f)
  <2>1. stage[f] = "awaiting" /\ pc[<<f, tries[f]>>] \in Started /\ tries[f] \in 1..MaxAttempts
    BY <1>1, <1>7 DEF Accepted, Attempt, FireOK, OnItsWay
  <2>2. Moves(f, "over", tries[f], "fired", FALSE) /\ UNCHANGED laneVars
    BY <1>1, <1>7 DEF Accepted, Emit, Moves
  <2>3. /\ stage'[f] = "over" /\ tries'[f] = tries[f] /\ event'[f] = "fired"
        /\ f \notin dead'
    BY <1>1, <2>1, <2>2 DEF Moves, FireOK, OnItsWay
  <2>4. FireOK(f)'
    BY <1>1, <1>2, <2>1, <2>2, <2>3 DEF FireOK, NotYetPosted, OnItsWay, Answered, Stages, Events
  <2>5. "over" \in Stages /\ tries[f] \in 0..MaxAttempts /\ "fired" \in Events /\ FALSE \in BOOLEAN
    BY <1>1 DEF Stages, Events
  <2> QED BY <1>2, <2>1, <2>2, <2>4, <2>5, Moved
<1>8. CASE Refused(f)
  <2> DEFINE e == RefusalEvent(handler.refusal)
             d == handler.refusal # 409
  <2>1. stage[f] = "awaiting" /\ pc[<<f, tries[f]>>] = "dropped" /\ tries[f] \in 1..MaxAttempts
    BY <1>1, <1>8 DEF Refused, Attempt, FireOK, OnItsWay
  <2>2. e = IF d THEN "failed" ELSE "dropped"
    BY DEF RefusalEvent
  <2>3. Moves(f, "over", tries[f], e, d) /\ UNCHANGED laneVars
    BY <1>1, <1>8 DEF Refused, Emit, DeadLetter, Moves
  <2>4. /\ stage'[f] = "over" /\ tries'[f] = tries[f] /\ event'[f] = e
        /\ f \in dead' <=> d
    BY <1>1, <2>1, <2>3 DEF Moves, FireOK, OnItsWay
  <2> HIDE DEF d, e
  <2>5. FireOK(f)'
    BY <1>1, <1>2, <2>1, <2>2, <2>3, <2>4
    DEF FireOK, NotYetPosted, OnItsWay, Answered, Stages, Events
  <2>6. e \in Events /\ d \in BOOLEAN
    BY <2>2 DEF Events, d
  <2> QED BY <1>2, <2>1, <2>3, <2>5, <2>6, Moved DEF Stages
<1>9. CASE Rejected(f)
  <2> DEFINE n == tries[f] + 1
  <2>1. stage[f] = "posting" /\ n \in 1..MaxAttempts /\ n > tries[f]
    BY <1>1, <1>9 DEF Rejected, FireOK, OnItsWay
  <2>2. pc[<<f, n>>] = "idle"
    BY <1>1, <2>1 DEF FireOK, NotYetPosted
  <2>3. Moves(f, "over", n, "failed", TRUE) /\ UNCHANGED laneVars
    BY <1>9 DEF Rejected, Emit, DeadLetter, Moves
  <2>4. /\ stage'[f] = "over" /\ tries'[f] = n /\ event'[f] = "failed" /\ f \in dead'
    BY <1>1, <2>3 DEF Moves
  <2>5. FireOK(f)'
    BY <1>1, <1>2, <2>1, <2>2, <2>3, <2>4
    DEF FireOK, NotYetPosted, OnItsWay, Answered, Stages, Events
  <2>6. "over" \in Stages /\ n \in 0..MaxAttempts /\ "failed" \in Events /\ TRUE \in BOOLEAN
    BY <1>1, <2>1 DEF Stages, Events
  <2> QED BY <1>2, <2>1, <2>3, <2>5, <2>6, Moved
<1> QED BY <1>3, <1>4, <1>5, <1>6, <1>7, <1>8, <1>9 DEF Client

(* Every step keeps the invariant.                                         *)
LEMMA Step ==
  ASSUME IInv, [Next]_vars
  PROVE  IInv'
<1>1. CASE UNCHANGED vars
  <2>1. Runtime!TypeOK'
    BY <1>1 DEF IInv, TypeOK, vars, laneVars, Runtime!TypeOK
  <2> QED BY <1>1, <2>1
    DEF IInv, TypeOK, vars, routerVars, laneVars, FireOK, NotYetPosted, OnItsWay, Answered
<1>2. ASSUME NEW a \in Attempts, RuntimeStep(a) PROVE IInv'
  <2>1. Runtime!TypeOK' /\ \A b \in Attempts : Onward(pc[b], pc'[b])
    BY <1>2, TrackerStep DEF RuntimeStep, IInv, TypeOK
  <2>2. \A f \in Fires : \A i \in 1..MaxAttempts : Onward(pc[<<f, i>>], pc'[<<f, i>>])
    BY <2>1 DEF Attempts
  <2>3. UNCHANGED routerVars
    BY <1>2 DEF RuntimeStep
  <2>4. \A f \in Fires : FireOK(f)'
    BY <2>2, <2>3, Undisturbed DEF routerVars, IInv
  <2> QED BY <2>1, <2>3, <2>4 DEF IInv, TypeOK, routerVars
<1> QED BY <1>1, <1>2, FireStep DEF Next

(* The first states satisfy it.                                            *)
LEMMA InitOk ==
  ASSUME Init
  PROVE  IInv
<1>1. MaxAttempts \in Nat /\ MaxAttempts # 0
  BY AttemptsAssumption
<1>2. Runtime!TypeOK
  BY DEF Init, Runtime!Init, Runtime!TypeOK, Runtime!Locations
<1>3. \A f \in Fires : \A i \in 1..MaxAttempts : pc[<<f, i>>] = "idle"
  BY DEF Init, Runtime!Init, Attempts
<1>4. TypeOK
  BY <1>1, <1>2 DEF Init, TypeOK, Stages, Events
<1>5. \A f \in Fires : FireOK(f)
  BY <1>1, <1>3, <1>4 DEF Init, TypeOK, FireOK, NotYetPosted, OnItsWay, Answered
<1> QED BY <1>4, <1>5 DEF IInv

-----------------------------------------------------------------------------
(* The theorems                                                            *)

(* The inductive invariant of a dispatcher and the runtime behind it.      *)
THEOREM DispatchInvariant == Spec => []IInv
<1>1. Init => IInv
  BY InitOk
<1>2. IInv /\ [Next]_vars => IInv'
  BY Step
<1> QED BY <1>1, <1>2, PTL DEF Spec

(* Type correctness of the dispatcher and of the tracker behind it.        *)
THEOREM DispatchTypeCorrect == Spec => []TypeOK
<1>1. IInv => TypeOK
  BY DEF IInv
<1> QED BY <1>1, DispatchInvariant, PTL

(* Whatever requests and answers are lost or late, the event Fire emits    *)
(* agrees with the answers the firing had.                                 *)
THEOREM EventsAgree == Spec => []EventsFollowAnswers
<1>1. IInv => EventsFollowAnswers
  BY DEF IInv, FireOK, Answered, EventsFollowAnswers, Executions, Attempt
<1> QED BY <1>1, DispatchInvariant, PTL
===============================================================================
