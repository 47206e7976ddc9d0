------------------------- MODULE TriggerLanes_proofs -------------------------
(***************************************************************************)
(* Proofs about the concurrency tracker, for any finite set of starts and  *)
(* any set of lanes.  The inductive invariant is IInv: the exact holder    *)
(* count makes the guard of Acquire say what it means, and with it the     *)
(* serialisation of a lane, the absence of lost wake-ups and the           *)
(* refinement of LaneService follow step by step.                          *)
(***************************************************************************)
EXTENDS TriggerLanes, FiniteSetTheorems, TLAPS

(* The executions in flight form a finite set, whose count is a number.    *)
LEMMA InFlightFinite ==
  ASSUME NEW k \in Keys
  PROVE  IsFiniteSet(InFlight(k)) /\ Cardinality(InFlight(k)) \in Nat
BY StartsFinite, FS_Subset, FS_CardinalityType DEF InFlight

(* Type correctness of the tracker's state.                                *)
LEMMA TypeStep == TypeOK /\ [Next]_vars => TypeOK'
<1> SUFFICES ASSUME TypeOK, [Next]_vars PROVE TypeOK'
  OBVIOUS
<1> USE DEF TypeOK, Locations
<1>1. ASSUME NEW s \in Starts, StartWorkflow(s) PROVE TypeOK'
  BY <1>1 DEF StartWorkflow, Goto
<1>2. ASSUME NEW s \in Starts, Acquire(s) PROVE TypeOK'
  BY <1>2 DEF Acquire, Goto, Entered
<1>3. ASSUME NEW s \in Starts, Refuse(s) PROVE TypeOK'
  BY <1>3 DEF Refuse, Goto
<1>4. ASSUME NEW s \in Starts, Park(s) PROVE TypeOK'
  BY <1>4 DEF Park, Goto
<1>5. ASSUME NEW s \in Starts, RunReturns(s) PROVE TypeOK'
  BY <1>5 DEF RunReturns, Goto
<1>6. ASSUME NEW s \in Starts, Release(s) PROVE TypeOK'
  BY <1>6 DEF Release, Left, Broadcast
<1>7. CASE UNCHANGED vars
  BY <1>7 DEF vars
<1> QED
  BY <1>1, <1>2, <1>3, <1>4, <1>5, <1>6, <1>7 DEF Next, Call, Terminated

(* The tracker's state always has its type.                                *)
THEOREM LanesTypeCorrect == Spec => []TypeOK
<1>1. Init => TypeOK
  BY DEF Init, TypeOK, Locations
<1> QED
  BY <1>1, TypeStep, PTL DEF Spec

-----------------------------------------------------------------------------
(* A step that leaves the executions in flight and the counts alone keeps  *)
(* the count exact; so do entering and leaving a lane.                     *)
LEMMA HoldersStep ==
  TypeOK /\ HoldersExact /\ [Next]_vars => HoldersExact'
<1> SUFFICES ASSUME TypeOK, HoldersExact, [Next]_vars PROVE HoldersExact'
  OBVIOUS
<1> USE DEF TypeOK, Locations
<1>1. ASSUME holders' = holders, \A k \in Keys : InFlight(k)' = InFlight(k)
      PROVE  HoldersExact'
  BY <1>1 DEF HoldersExact
<1>2. ASSUME NEW s \in Starts, StartWorkflow(s) PROVE HoldersExact'
  <2>1. \A k \in Keys : InFlight(k)' = InFlight(k)
    BY <1>2 DEF StartWorkflow, Goto, InFlight
  <2> QED BY <1>1, <1>2, <2>1 DEF StartWorkflow
<1>3. ASSUME NEW s \in Starts, Acquire(s) PROVE HoldersExact'
  <2> SUFFICES ASSUME NEW k \in Keys
               PROVE  holders'[k] = Cardinality(InFlight(k)')
    BY DEF HoldersExact
  <2>1. CASE k = key[s]
    <3>1. s \notin InFlight(k) /\ InFlight(k)' = InFlight(k) \cup {s}
      BY <1>3, <2>1 DEF Acquire, Goto, InFlight
    <3>2. Cardinality(InFlight(k)') = Cardinality(InFlight(k)) + 1
      BY <3>1, InFlightFinite, FS_AddElement
    <3>3. holders'[k] = holders[k] + 1
      BY <1>3, <2>1 DEF Acquire, Entered
    <3> QED BY <3>2, <3>3 DEF HoldersExact
  <2>2. CASE k # key[s]
    <3>1. InFlight(k)' = InFlight(k)
      BY <1>3, <2>2 DEF Acquire, Goto, InFlight
    <3>2. holders'[k] = holders[k]
      BY <1>3, <2>2 DEF Acquire, Entered
    <3> QED BY <3>1, <3>2 DEF HoldersExact
  <2> QED BY <2>1, <2>2
<1>4. ASSUME NEW s \in Starts, Refuse(s) PROVE HoldersExact'
  <2>1. \A k \in Keys : InFlight(k)' = InFlight(k)
    BY <1>4 DEF Refuse, Goto, InFlight
  <2> QED BY <1>1, <1>4, <2>1 DEF Refuse
<1>5. ASSUME NEW s \in Starts, Park(s) PROVE HoldersExact'
  <2>1. \A k \in Keys : InFlight(k)' = InFlight(k)
    BY <1>5 DEF Park, Goto, InFlight
  <2> QED BY <1>1, <1>5, <2>1 DEF Park
<1>6. ASSUME NEW s \in Starts, RunReturns(s) PROVE HoldersExact'
  <2>1. \A k \in Keys : InFlight(k)' = InFlight(k)
    BY <1>6 DEF RunReturns, Goto, InFlight
  <2> QED BY <1>1, <1>6, <2>1 DEF RunReturns
<1>7. ASSUME NEW s \in Starts, Release(s) PROVE HoldersExact'
  <2> SUFFICES ASSUME NEW k \in Keys
               PROVE  holders'[k] = Cardinality(InFlight(k)')
    BY DEF HoldersExact
  <2>1. CASE k = key[s]
    <3>1. s \in InFlight(k) /\ InFlight(k)' = InFlight(k) \ {s}
      BY <1>7, <2>1 DEF Release, Broadcast, InFlight
    <3>2. /\ Cardinality(InFlight(k)') = Cardinality(InFlight(k)) - 1
          /\ Cardinality(InFlight(k)) # 0
      BY <3>1, InFlightFinite, FS_RemoveElement, FS_EmptySet
    <3>3. holders[k] = Cardinality(InFlight(k)) /\ holders[k] > 0
      BY <3>2 DEF HoldersExact
    <3>4. holders'[k] = holders[k] - 1
      BY <1>7, <2>1, <3>3 DEF Release, Left
    <3> QED BY <3>2, <3>3, <3>4
  <2>2. CASE k # key[s]
    <3>1. InFlight(k)' = InFlight(k)
      BY <1>7, <2>2 DEF Release, Broadcast, InFlight
    <3>2. holders'[k] = holders[k]
      BY <1>7, <2>2 DEF Release, Left
    <3> QED BY <3>1, <3>2 DEF HoldersExact
  <2> QED BY <2>1, <2>2
<1>8. CASE UNCHANGED vars
  <2>1. \A k \in Keys : InFlight(k)' = InFlight(k)
    BY <1>8 DEF vars, InFlight
  <2> QED BY <1>1, <1>8, <2>1 DEF vars
<1> QED
  BY <1>2, <1>3, <1>4, <1>5, <1>6, <1>7, <1>8 DEF Next, Call, Terminated

(* With exact counts a lane is busy precisely when an execution is in it.  *)
LEMMA BusyMeaning ==
  ASSUME HoldersExact, NEW k \in Keys
  PROVE  Busy(k) <=> InFlight(k) # {}
BY InFlightFinite, FS_EmptySet DEF HoldersExact, Busy

-----------------------------------------------------------------------------
(* The inductive invariant.                                                *)
IInv == TypeOK /\ HoldersExact /\ LaneSerial /\ NoLostWakeup

(* The first states satisfy the invariant.                                 *)
LEMMA IInvInit == Init => IInv
<1> SUFFICES ASSUME Init PROVE IInv
  OBVIOUS
<1>1. TypeOK
  BY DEF Init, TypeOK, Locations
<1>2. HoldersExact
  <2>1. \A k \in Keys : InFlight(k) = {}
    BY DEF Init, InFlight
  <2> QED BY <2>1, FS_EmptySet DEF HoldersExact, Init
<1>3. LaneSerial /\ NoLostWakeup
  BY DEF Init, LaneSerial, NoLostWakeup
<1> QED BY <1>1, <1>2, <1>3 DEF IInv

(* Only Acquire puts an execution in flight, and for queue and drop it does *)
(* so on a lane with nobody in it.                                         *)
LEMMA SerialStep == IInv /\ [Next]_vars => LaneSerial'
<1> SUFFICES ASSUME IInv, [Next]_vars PROVE LaneSerial'
  OBVIOUS
<1> USE DEF IInv, TypeOK, Locations
<1>1. ASSUME NEW s \in Starts, Acquire(s) PROVE LaneSerial'
  <2>1. policy[s] \in Exclusive => InFlight(key[s]) = {}
    BY <1>1, BusyMeaning DEF Acquire, Admits
  <2> QED BY <1>1, <2>1 DEF Acquire, Goto, LaneSerial, InFlight
<1>2. ASSUME key' = key, policy' = policy,
             \A t \in Starts : pc'[t] \in {"running", "returned"}
                              => pc[t] \in {"running", "returned"}
      PROVE  LaneSerial'
  BY <1>2 DEF LaneSerial
<1>3. ASSUME NEW s \in Starts, StartWorkflow(s) PROVE LaneSerial'
  BY <1>2, <1>3 DEF StartWorkflow, Goto
<1>4. ASSUME NEW s \in Starts, Refuse(s) PROVE LaneSerial'
  BY <1>2, <1>4 DEF Refuse, Goto
<1>5. ASSUME NEW s \in Starts, Park(s) PROVE LaneSerial'
  BY <1>2, <1>5 DEF Park, Goto
<1>6. ASSUME NEW s \in Starts, RunReturns(s) PROVE LaneSerial'
  BY <1>2, <1>6 DEF RunReturns, Goto
<1>7. ASSUME NEW s \in Starts, Release(s) PROVE LaneSerial'
  BY <1>2, <1>7 DEF Release, Broadcast
<1>8. CASE UNCHANGED vars
  BY <1>2, <1>8 DEF vars
<1> QED
  BY <1>1, <1>3, <1>4, <1>5, <1>6, <1>7, <1>8 DEF Next, Call, Terminated

(* A start parks on a lane in use, and the step that takes an execution    *)
(* out of a lane leaves nobody parked.                                     *)
LEMMA WakeupStep == IInv /\ [Next]_vars => NoLostWakeup'
<1> SUFFICES ASSUME IInv, [Next]_vars PROVE NoLostWakeup'
  OBVIOUS
<1> USE DEF IInv, TypeOK, Locations
<1>1. ASSUME NEW s \in Starts, Park(s) PROVE NoLostWakeup'
  <2>1. InFlight(key[s]) # {}
    BY <1>1, BusyMeaning DEF Park
  <2> QED BY <1>1, <2>1 DEF Park, Goto, NoLostWakeup, InFlight
<1>2. ASSUME NEW s \in Starts, Release(s) PROVE NoLostWakeup'
  BY <1>2 DEF Release, Broadcast, NoLostWakeup
<1>3. ASSUME key' = key,
             \A t \in Starts : pc'[t] = "parked" => pc[t] = "parked",
             \A t \in Starts : pc[t] \in {"running", "returned"}
                              => pc'[t] \in {"running", "returned"}
      PROVE  NoLostWakeup'
  BY <1>3 DEF NoLostWakeup, InFlight
<1>4. ASSUME NEW s \in Starts, StartWorkflow(s) PROVE NoLostWakeup'
  BY <1>3, <1>4 DEF StartWorkflow, Goto
<1>5. ASSUME NEW s \in Starts, Acquire(s) PROVE NoLostWakeup'
  BY <1>3, <1>5 DEF Acquire, Goto
<1>6. ASSUME NEW s \in Starts, Refuse(s) PROVE NoLostWakeup'
  BY <1>3, <1>6 DEF Refuse, Goto
<1>7. ASSUME NEW s \in Starts, RunReturns(s) PROVE NoLostWakeup'
  BY <1>3, <1>7 DEF RunReturns, Goto
<1>8. CASE UNCHANGED vars
  BY <1>3, <1>8 DEF vars
<1> QED
  BY <1>1, <1>2, <1>4, <1>5, <1>6, <1>7, <1>8 DEF Next, Call, Terminated

(* The inductive invariant: types, exact counts, serial lanes, no lost     *)
(* wake-up.                                                                *)
THEOREM LanesInvariant == Spec => []IInv
<1>1. IInv /\ [Next]_vars => IInv'
  BY TypeStep, HoldersStep, SerialStep, WakeupStep DEF IInv
<1> QED BY IInvInit, <1>1, PTL DEF Spec

(* The holder count of every lane is the number of executions in it.       *)
THEOREM CountsAreExact == Spec => []HoldersExact
BY LanesInvariant, PTL DEF IInv

(* queue and drop serialise the executions of a lane.                      *)
THEOREM LanesAreSerial == Spec => []LaneSerial
BY LanesInvariant, PTL DEF IInv

(* A parked start always has an execution in its lane left to wake it.     *)
THEOREM NoWakeupIsLost == Spec => []NoLostWakeup
BY LanesInvariant, PTL DEF IInv

-----------------------------------------------------------------------------
(* A lane is empty for the abstract specification exactly when no          *)
(* execution is in flight in it.                                           *)
LEMMA EmptyMeaning ==
  ASSUME TypeOK, NEW k \in Keys
  PROVE  Lane!Empty(k) <=> InFlight(k) = {}
BY DEF TypeOK, Locations, Lane!Empty, InFlight, StageOf

(* Every step of the tracker is a step of the abstract lanes or a stutter. *)
LEMMA RefinementStep == IInv /\ [Next]_vars => [Lane!Next]_(Lane!vars)
<1> SUFFICES ASSUME IInv, [Next]_vars PROVE [Lane!Next]_(Lane!vars)
  OBVIOUS
<1> USE DEF IInv, TypeOK, Locations
<1> DEFINE stage == [s \in Starts |-> StageOf(pc[s])]
<1>1. ASSUME NEW s \in Starts, NEW l \in Locations,
             pc' = [pc EXCEPT ![s] = l]
      PROVE  stage' = [stage EXCEPT ![s] = StageOf(l)]
  BY <1>1
<1>2. ASSUME NEW s \in Starts, StartWorkflow(s) PROVE Lane!Next
  <2>1. Lane!Fire(s)
    BY <1>1, <1>2 DEF StartWorkflow, Goto, StageOf, Lane!Fire, Lane!Move
  <2> QED BY <2>1 DEF Lane!Next
<1>3. ASSUME NEW s \in Starts, Acquire(s) PROVE Lane!Next
  <2>1. policy[s] # "overlap" => Lane!Empty(key[s])
    BY <1>3, BusyMeaning, EmptyMeaning DEF Acquire, Admits, Policies, Exclusive
  <2>2. Lane!Admit(s)
    BY <1>1, <1>3, <2>1 DEF Acquire, Goto, StageOf, Lane!Admit, Lane!Move
  <2> QED BY <2>2 DEF Lane!Next
<1>4. ASSUME NEW s \in Starts, Refuse(s) PROVE Lane!Next
  <2>1. ~Lane!Empty(key[s])
    BY <1>4, BusyMeaning, EmptyMeaning DEF Refuse
  <2>2. Lane!Refuse(s)
    BY <1>1, <1>4, <2>1 DEF Refuse, Goto, StageOf, Lane!Refuse, Lane!Move
  <2> QED BY <2>2 DEF Lane!Next
<1>5. ASSUME NEW s \in Starts, Park(s) PROVE UNCHANGED Lane!vars
  BY <1>1, <1>5 DEF Park, Goto, StageOf, Lane!vars
<1>6. ASSUME NEW s \in Starts, RunReturns(s) PROVE UNCHANGED Lane!vars
  BY <1>1, <1>6 DEF RunReturns, Goto, StageOf, Lane!vars
<1>7. ASSUME NEW s \in Starts, Release(s) PROVE Lane!Next
  <2>1. \A t \in Starts : t # s => StageOf(pc'[t]) = StageOf(pc[t])
    BY <1>7 DEF Release, Broadcast, StageOf
  <2>2. stage' = [stage EXCEPT ![s] = "over"]
    BY <1>7, <2>1 DEF Release, StageOf
  <2>3. Lane!Finish(s)
    BY <1>7, <2>2 DEF Release, StageOf, Lane!Finish, Lane!Move
  <2> QED BY <2>3 DEF Lane!Next
<1>8. CASE UNCHANGED vars
  BY <1>8 DEF vars, Lane!vars
<1> QED
  BY <1>2, <1>3, <1>4, <1>5, <1>6, <1>7, <1>8 DEF Next, Call, Terminated

(* The mutex, the counter and the condition variable implement the lanes   *)
(* that LaneService promises.                                              *)
THEOREM LanesRefinement == Spec => ImplementsLanes
<1>1. Init => Lane!Init
  BY DEF Init, Lane!Init, StageOf, Policies
<1> QED
  BY <1>1, RefinementStep, LanesInvariant, PTL
  DEF Spec, ImplementsLanes, Lane!Spec
=============================================================================
