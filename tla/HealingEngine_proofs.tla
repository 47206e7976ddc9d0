------------------------- MODULE HealingEngine_proofs -------------------------
(***************************************************************************)
(* Proofs about the healing engine, for any number of calls, envelopes,    *)
(* actions and administrative requests, and for any length of the hour.    *)
(* SInv says what a call has done at each stage of it and that the action   *)
(* it may have to undo is a reversible one; RInv that an envelope's bucket *)
(* holds every call that passed it, up to an hour after the time it took.  *)
(***************************************************************************)
EXTENDS HealingEngine, FiniteSetTheorems, WellFoundedInduction, TLAPS

USE DEF clocks  \* the pair of times, an abbreviation in frames

Running == {"matched", "timing", "limiting", "notifying", "proposing", "asking", "waiting",
            "executing", "verifying", "undoing"}
Acted   == {"verifying", "undoing"}

(* Before its decision is saved, a call has run a workflow only if it is   *)
(* to verify or to undo it.                                                *)
StageTold ==
  \A c \in Calls : pc[c] \notin {"saving", "over"} =>
    /\ outcome[c] \in {"", "waiting_approval"}
    /\ workflow[c] = IF pc[c] \in Acted THEN "ran" ELSE "none"

(* A call that waits for the limiter's lock has taken its time.            *)
Timed == \A c \in Calls : pc[c] = "limiting" => readAt[c] # None

HoldsAction == \A c \in Calls : pc[c] \in Running => action[c] # None

MayUndo ==
  \A c \in Calls :
    pc[c] \in Acted \/ workflow[c] \in {"undone", "stuck"} =>
      action[c] # None /\ objects[action[c]].reversible

PromotesLevel == promoting.version # None => promoting.level \in Levels

SInv == TypeOK /\ PromotesLevel /\ Timed /\ StageTold /\ OutcomeTruthful /\ HoldsAction /\ MayUndo

-----------------------------------------------------------------------------
(* Levels                                                                  *)

(* The highest of some levels is one of them.                              *)
LEMMA MaxOfLevels ==
  ASSUME NEW S \in SUBSET Levels, S # {}
  PROVE  Max(S) \in S
<1>1. \E x \in S : \A y \in S : x >= y
  <2>1. S \subseteq 1..5
    BY DEF Levels
  <2>2. CASE 5 \in S
    BY <2>1, <2>2
  <2>3. CASE 5 \notin S /\ 4 \in S
    BY <2>1, <2>3
  <2>4. CASE 5 \notin S /\ 4 \notin S /\ 3 \in S
    BY <2>1, <2>4
  <2>5. CASE 5 \notin S /\ 4 \notin S /\ 3 \notin S /\ 2 \in S
    BY <2>1, <2>5
  <2>6. CASE S = {1}
    BY <2>6
  <2>7. CASE 5 \notin S /\ 4 \notin S /\ 3 \notin S /\ 2 \notin S
    <3>1. \A x \in S : x = 1
      BY <2>1, <2>7
    <3> QED BY <2>6, <3>1
  <2> QED BY <2>2, <2>3, <2>4, <2>5, <2>7
<1> QED BY <1>1 DEF Max

(* The highest of the allowed levels is a level.                           *)
LEMMA HighestIsLevel ==
  ASSUME NEW allowed \in SUBSET Levels
  PROVE  Highest(allowed) \in Levels
<1>1. allowed \union {1} \in SUBSET Levels /\ allowed \union {1} # {}
  BY DEF Levels
<1> QED BY <1>1, MaxOfLevels DEF Highest

(* What a call decides is a level, whatever its envelope and its action.   *)
LEMMA DecidesLevel ==
  ASSUME NEW e \in EnvelopeShapes \union {NoEnvelope},
         NEW a \in [reversible : BOOLEAN, levels : SUBSET Levels]
  PROVE  ActionCap(EnvelopeCap(e), a) \in Levels
<1>1. e.allowed \in SUBSET Levels
  BY EnvelopesWellFormed DEF NoEnvelope, Levels
<1>2. EnvelopeCap(e) \in Levels
  BY <1>1, HighestIsLevel DEF EnvelopeCap
<1>3. a.levels \in SUBSET Levels
  OBVIOUS
<1> QED BY <1>2, <1>3, HighestIsLevel DEF ActionCap

-----------------------------------------------------------------------------
(* The objects an action pointer leads to                                  *)

Actions == [reversible : BOOLEAN, levels : SUBSET Levels]

ObjectsStay ==
  /\ objects' \in Seq(Actions)
  /\ Len(objects) <= Len(objects')
  /\ \A i \in 1..Len(objects) : objects'[i].reversible = objects[i].reversible

(* An action changed in place keeps its reversibility.                     *)
LEMMA ObjectReplaced ==
  ASSUME objects \in Seq(Actions), NEW v \in 1..Len(objects), NEW o \in Actions,
         o.reversible = objects[v].reversible,
         objects' = [objects EXCEPT ![v] = o]
  PROVE  ObjectsStay
<1>1. objects' \in Seq(Actions) /\ Len(objects') = Len(objects)
  OBVIOUS
<1>2. \A i \in 1..Len(objects) : objects'[i] = IF i = v THEN o ELSE objects[i]
  OBVIOUS
<1> QED BY <1>1, <1>2 DEF ObjectsStay

(* Registrations append, promotions add to the levels: what a call holds   *)
(* stays reversible.                                                       *)
LEMMA ObjectsStep ==
  ASSUME TypeOK, PromotesLevel, [Next]_vars
  PROVE  ObjectsStay
<1>0. objects \in Seq(Actions)
  BY DEF TypeOK, Actions
<1>1. CASE objects' = objects
  BY <1>0, <1>1 DEF ObjectsStay
<1>2. ASSUME NEW a \in ActionShapes, SetAction(a) PROVE ObjectsStay
  <2>1. a \in Actions /\ objects' = Append(objects, a)
    BY <1>2, ActionsWellFormed DEF SetAction, Actions
  <2> QED BY <1>0, <2>1 DEF ObjectsStay
<1>3. ASSUME PromoteStored PROVE ObjectsStay
  <2>1. promoting.version \in 1..Len(objects) /\ promoting.level \in Levels
    BY <1>3 DEF TypeOK, PromoteStored, PromotesLevel, None
  <2> DEFINE v == promoting.version
             o == [objects[v] EXCEPT !.levels = @ \union {promoting.level}]
  <2>2. objects[v] \in Actions
    BY <1>0, <2>1
  <2>3. o \in Actions /\ o.reversible = objects[v].reversible
    BY <2>1, <2>2 DEF Actions
  <2>4. objects' = [objects EXCEPT ![v] = o]
    BY <1>3 DEF PromoteStored
  <2> QED BY <1>0, <2>1, <2>3, <2>4, ObjectReplaced
<1>4. \/ objects' = objects
      \/ \E a \in ActionShapes : SetAction(a)
      \/ PromoteStored
  BY
  DEF Next, Request, Step, Match, Suppress, Decide, TakeTime, Track, Notify, Propose, Ask,
      Answered, Execute, Verify, Rollback, SaveDecision, Settle, ProposeFix,
      DecideSuggestion, SetEnvelope, SetKillSwitch, PromoteChecked, Tick,
      vars, adminVars
<1> QED BY <1>1, <1>2, <1>3, <1>4
-----------------------------------------------------------------------------
(* Type correctness                                                        *)

(* What of the type the growth of objects could disturb.                   *)
LEMMA PointersStep ==
  ASSUME TypeOK, PromotesLevel, [Next]_vars
  PROVE  /\ action' \in [Calls -> 0..Len(objects')]
         /\ catalog' \in 0..Len(objects')
         /\ promoting' \in [version : 0..Len(objects'), level : 0..5]
         /\ PromotesLevel'
<1> DEFINE n == Len(objects)
           m == Len(objects')
<1>1. n \in Nat /\ m \in Nat /\ n <= m
  BY ObjectsStep DEF TypeOK, ObjectsStay
<1>2. 0..n \subseteq 0..m
  BY <1>1
<1>3. action \in [Calls -> 0..n] /\ catalog \in 0..n
      /\ promoting \in [version : 0..n, level : 0..5]
  BY DEF TypeOK
<1> HIDE DEF n
<1>4. /\ action \in [Calls -> 0..m] /\ catalog \in 0..m
      /\ promoting \in [version : 0..m, level : 0..5]
  <2>1. promoting.version \in 0..m /\ promoting.level \in 0..5
    BY <1>2, <1>3
  <2> QED BY <1>2, <1>3, <2>1
<1> HIDE DEF m
<1>5. ASSUME NEW c \in Calls, NEW incident \in Criticalities, Match(c, incident)
      PROVE  /\ action' \in [Calls -> 0..m] /\ catalog' = catalog
             /\ promoting' = promoting
  BY <1>4, <1>5 DEF Match, callVars, adminVars
<1>6. ASSUME NEW a \in ActionShapes, SetAction(a)
      PROVE  action' = action /\ catalog' = m /\ promoting' = promoting
  BY <1>6 DEF SetAction, callVars, m
<1>7. ASSUME NEW l \in {4, 5}, PromoteChecked(l)
      PROVE  /\ action' = action /\ catalog' = catalog
             /\ promoting' = [version |-> catalog, level |-> l] /\ l \in Levels
  BY <1>7 DEF PromoteChecked, callVars, Levels
<1>8. ASSUME PromoteStored
      PROVE  /\ action' = action /\ catalog' \in 0..m
             /\ promoting' = [version |-> None, level |-> None]
  BY <1>4, <1>8 DEF PromoteStored, callVars
<1>9. \/ \E c \in Calls : \E incident \in Criticalities : Match(c, incident)
      \/ \E a \in ActionShapes : SetAction(a)
      \/ \E l \in {4, 5} : PromoteChecked(l)
      \/ PromoteStored
      \/ action' = action /\ catalog' = catalog /\ promoting' = promoting
  BY
  DEF Next, Request, Step, Suppress, Decide, TakeTime, Track, Notify, Propose, Ask, Answered,
      Execute, Verify, Rollback, SaveDecision, Settle, ProposeFix,
      DecideSuggestion, SetEnvelope, SetKillSwitch, Tick, vars, callVars,
      adminVars
<1>10. m \in 0..m
  BY <1>1 DEF m
<1> QED
  BY <1>4, <1>5, <1>6, <1>7, <1>8, <1>9, <1>10 DEF PromotesLevel, None, m

(* The rest of the type.                                                   *)
Calling ==
  /\ pc \in [Calls -> Stages]
  /\ consulted \in [Calls -> Criticalities]
  /\ envelope \in [Calls -> EnvelopeShapes \union {NoEnvelope}]
  /\ level \in [Calls -> 0..5]
  /\ outcome \in [Calls -> Outcomes]
  /\ readAt \in [Calls -> 0..MaxNow]
  /\ passedAt \in [Calls -> 0..MaxNow]
  /\ workflow \in [Calls -> {"none", "ran", "lost", "undone", "stuck"}]
  /\ escalated \in [Calls -> BOOLEAN]
  /\ suggestion \in [Calls -> [status : Suggestions, passed : BOOLEAN]]
Administered ==
  /\ store \in [Criticalities -> EnvelopeShapes \union {NoEnvelope}]
  /\ kill \subseteq {"global", "workspace"}
  /\ buckets \in [Criticalities -> SUBSET (Calls \X (1..MaxNow))]
  /\ now \in 1..MaxNow
  /\ requests \in 0..MaxRequests

(* Type correctness, by the parts that steps change together.              *)
LEMMA TypeParts ==
  TypeOK <=> /\ Calling /\ Administered
             /\ action \in [Calls -> 0..Len(objects)]
             /\ objects \in Seq(Actions)
             /\ catalog \in 0..Len(objects)
             /\ promoting \in [version : 0..Len(objects), level : 0..5]
BY DEF TypeOK, Calling, Administered, Actions

(* The part of the calls.                                                  *)
LEMMA CallingStep ==
  ASSUME TypeOK, HoldsAction, [Next]_vars
  PROVE  Calling'
<1>0. Calling /\ Administered /\ action \in [Calls -> 0..Len(objects)]
      /\ objects \in Seq(Actions)
  BY TypeParts
<1>1. ASSUME NEW c \in Calls, NEW incident \in Criticalities, Match(c, incident)
      PROVE  Calling'
  <2>1. \A k \in Criticalities : store[k] \in EnvelopeShapes \union {NoEnvelope}
    BY <1>0 DEF Administered
  <2>2. Candidates(incident) \subseteq Criticalities
    BY DEF Candidates, Stored
  <2>3. CASE pc' = [pc EXCEPT ![c] = "refused"] /\ UNCHANGED callVars
    BY <1>0, <2>3 DEF Calling, Stages, callVars
  <2>4. ASSUME NEW k \in Candidates(incident),
               /\ pc' = [pc EXCEPT ![c] = "matched"]
               /\ consulted' = [consulted EXCEPT ![c] = k]
               /\ envelope' = [envelope EXCEPT ![c] = store[k]]
               /\ UNCHANGED <<level, outcome, clocks, workflow, escalated,
                              suggestion>>
        PROVE  Calling'
    BY <1>0, <2>1, <2>2, <2>4 DEF Calling, Stages
  <2> QED BY <1>1, <2>3, <2>4 DEF Match
<1>2. ASSUME NEW c \in Calls, Suppress(c)
      PROVE  Calling'
  <2>1. "saving" \in Stages /\ "suppressed" \in Outcomes /\ 1 \in 0..5
    BY DEF Stages, Outcomes
  <2> QED BY <1>0, <1>2, <2>1 DEF Calling, Suppress
<1>3. ASSUME NEW c \in Calls, Decide(c) PROVE Calling'
  <2> DEFINE l == ActionCap(EnvelopeCap(envelope[c]), objects[action[c]])
  <2>1. action[c] \in 1..Len(objects)
    BY <1>0, <1>3 DEF Decide, HoldsAction, Running, None
  <2>2. objects[action[c]] \in Actions
    BY <1>0, <2>1
  <2>3. l \in Levels
    BY <1>0, <2>2, DecidesLevel DEF Actions, Calling
  <2> HIDE DEF l
  <2>4. l \in 0..5 /\ Path(l) \in Stages /\ "timing" \in Stages
    BY <2>3 DEF Levels, Path, Stages
  <2>5. /\ level' = [level EXCEPT ![c] = l]
        /\ pc' = [pc EXCEPT ![c] = "timing"] \/ pc' = [pc EXCEPT ![c] = Path(l)]
        /\ UNCHANGED <<consulted, envelope, outcome, readAt, passedAt, workflow,
                       escalated, suggestion>>
    BY <1>3 DEF Decide, l
  <2> QED BY <1>0, <2>4, <2>5 DEF Calling
<1>13. ASSUME NEW c \in Calls, TakeTime(c) PROVE Calling'
  <2>1. now \in 0..MaxNow /\ "limiting" \in Stages
    BY <1>0, BoundsPositive DEF Administered, Stages
  <2> QED BY <1>0, <1>13, <2>1 DEF Calling, TakeTime
<1>14. ASSUME NEW c \in Calls, Track(c) PROVE Calling'
  <2>1. /\ now \in 0..MaxNow /\ "blocked" \in Outcomes
        /\ {"saving", Path(level[c])} \subseteq Stages
    BY <1>0, BoundsPositive DEF Administered, Stages, Outcomes, Path
  <2>2. /\ UNCHANGED <<consulted, envelope, level, readAt, workflow, escalated, suggestion>>
        /\ outcome' = outcome \/ outcome' = [outcome EXCEPT ![c] = "blocked"]
        /\ passedAt' = passedAt \/ passedAt' = [passedAt EXCEPT ![c] = now]
        /\ \E p \in {"saving", Path(level[c])} : pc' = [pc EXCEPT ![c] = p]
    BY <1>14 DEF Track
  <2>3. pc' \in [Calls -> Stages]
    <3>1. PICK p \in {"saving", Path(level[c])} : pc' = [pc EXCEPT ![c] = p]
      BY <2>2
    <3>2. p \in Stages /\ pc \in [Calls -> Stages]
      BY <1>0, <2>1 DEF Calling
    <3> QED BY <3>1, <3>2
  <2>4. outcome' \in [Calls -> Outcomes] /\ passedAt' \in [Calls -> 0..MaxNow]
    <3>1. outcome' \in [Calls -> Outcomes]
      BY <1>0, <2>1, <2>2 DEF Calling
    <3>2. passedAt' \in [Calls -> 0..MaxNow]
      BY <1>0, <2>1, <2>2 DEF Calling
    <3> QED BY <3>1, <3>2
  <2> QED BY <1>0, <2>2, <2>3, <2>4 DEF Calling
<1>4. ASSUME NEW c \in Calls, Notify(c) \/ Propose(c) \/ Ask(c)
      PROVE  Calling'
  <2>1. {"saving", "waiting"} \subseteq Stages
        /\ {"notified", "suggested", "failed", "waiting_approval"} \subseteq Outcomes
        /\ [status |-> "pending", passed |-> TRUE] \in [status : Suggestions, passed : BOOLEAN]
    BY DEF Stages, Outcomes, Suggestions
  <2>2. CASE Notify(c)
    BY <1>0, <2>1, <2>2 DEF Calling, Notify, Settle
  <2>3. CASE Propose(c)
    <3>1. suggestion' \in [Calls -> [status : Suggestions, passed : BOOLEAN]]
      BY <1>0, <2>1, <2>3 DEF Calling, Propose
    <3> QED BY <1>0, <2>1, <2>3, <3>1 DEF Calling, Propose, Settle
  <2>4. CASE Ask(c)
    <3>1. pc' \in [Calls -> Stages] /\ outcome' \in [Calls -> Outcomes]
      <4>1. PICK o \in Outcomes, p \in Stages :
              outcome' = [outcome EXCEPT ![c] = o] /\ pc' = [pc EXCEPT ![c] = p]
        BY <2>1, <2>4 DEF Ask, Settle
      <4> QED BY <1>0, <4>1 DEF Calling
    <3> QED BY <1>0, <2>4, <3>1 DEF Calling, Ask
  <2> QED BY <1>4, <2>2, <2>3, <2>4
<1>5. ASSUME NEW c \in Calls, NEW answer \in {"approved", "denied", "error"},
             Answered(c, answer)
      PROVE  Calling'
  BY <1>0, <1>5 DEF Calling, Stages, Outcomes, Suggestions, callVars, adminVars,
      Answered, Settle
<1>6. ASSUME NEW c \in Calls, Execute(c) \/ Verify(c)
      PROVE  Calling'
  BY <1>0, <1>6 DEF Calling, Stages, Outcomes, Suggestions, callVars, adminVars,
      Execute, Verify, AfterBadVerify, Settle
<1>7. ASSUME NEW c \in Calls, NEW ok \in BOOLEAN, Rollback(c, ok)
      PROVE  Calling'
  BY <1>0, <1>7 DEF Calling, Stages, Outcomes, Suggestions, callVars, adminVars,
      Rollback, UndoOutcome, Settle
<1>8. ASSUME NEW c \in Calls, SaveDecision(c)
      PROVE  Calling'
  BY <1>0, <1>8 DEF Calling, Stages, Outcomes, Suggestions, callVars, adminVars,
      SaveDecision
<1>9. ASSUME NEW c \in Calls, NEW passed \in BOOLEAN, ProposeFix(c, passed)
      PROVE  Calling'
  BY <1>0, <1>9 DEF Calling, Stages, Outcomes, Suggestions, callVars, adminVars,
      ProposeFix, SuggestionStatus
<1>10. ASSUME NEW c \in Calls, NEW s \in {"approved", "rejected"},
             DecideSuggestion(c, s)
      PROVE  Calling'
  BY <1>0, <1>10 DEF Calling, Stages, Outcomes, Suggestions, callVars, adminVars,
      DecideSuggestion
<1>11. \/ \E c \in Calls : Step(c)
       \/ \E c \in Calls : \E passed \in BOOLEAN : ProposeFix(c, passed)
       \/ \E c \in Calls : \E s \in {"approved", "rejected"} : DecideSuggestion(c, s)
       \/ UNCHANGED <<pc, callVars>>
  BY DEF Next, Request, SetEnvelope, SetAction, SetKillSwitch, PromoteChecked,
         PromoteStored, Tick, vars
<1>12. CASE UNCHANGED <<pc, callVars>>
  BY <1>0, <1>12 DEF Calling, callVars
<1> QED
  BY <1>1, <1>2, <1>3, <1>4, <1>5, <1>6, <1>7, <1>8, <1>9, <1>10, <1>11, <1>12, <1>13,
     <1>14
  DEF Step

(* The part of the envelopes and the catalogue.                            *)
LEMMA AdministeredStep ==
  ASSUME TypeOK, Timed, [Next]_vars
  PROVE  Administered'
<1>0. Calling /\ Administered
  BY TypeParts
<1>1. ASSUME NEW c \in Calls, Track(c)
      PROVE  Administered'
  <2>1. <<c, readAt[c]>> \in Calls \X (1..MaxNow)
    BY <1>0, <1>1 DEF Calling, Timed, Track, None
  <2>2. buckets[consulted[c]] \in SUBSET (Calls \X (1..MaxNow))
    BY <1>0 DEF Administered, Calling
  <2>3. Tracked(c) \in SUBSET (Calls \X (1..MaxNow))
    BY <2>1, <2>2 DEF Tracked
  <2>4. buckets' = [buckets EXCEPT ![consulted[c]] = Tracked(c)]
    BY <1>1 DEF Track
  <2> QED BY <1>0, <1>1, <2>3, <2>4 DEF Track, Administered, adminVars
<1>2. ASSUME requests < MaxRequests, requests' = requests + 1,
             UNCHANGED <<buckets, now>>,
             \/ UNCHANGED <<store, kill>>
             \/ \E k \in Criticalities, e \in EnvelopeShapes : SetEnvelope(k, e)
             \/ \E w \in {"global", "workspace"} : SetKillSwitch(w)
      PROVE  Administered'
  <2>1. requests' \in 0..MaxRequests
    BY <1>0, <1>2, BoundsPositive DEF Administered
  <2> QED BY <1>0, <1>2, <2>1 DEF Administered, SetEnvelope, SetKillSwitch
<1>3. CASE Tick
  BY <1>0, <1>3, BoundsPositive DEF Administered, Tick, adminVars
<1>4. CASE UNCHANGED <<store, kill, buckets, now, requests>>
  BY <1>0, <1>4 DEF Administered
<1>5. \/ \E c \in Calls : Track(c)
      \/ /\ requests < MaxRequests /\ requests' = requests + 1
         /\ UNCHANGED <<buckets, now>>
         /\ \/ UNCHANGED <<store, kill>>
            \/ \E k \in Criticalities, e \in EnvelopeShapes : SetEnvelope(k, e)
            \/ \E w \in {"global", "workspace"} : SetKillSwitch(w)
      \/ Tick
      \/ UNCHANGED <<store, kill, buckets, now, requests>>
  BY DEF Next, Step, Request, Match, Suppress, Decide, TakeTime, Notify, Propose,
         Ask, Answered, Execute, Verify, Rollback, SaveDecision, ProposeFix,
         DecideSuggestion, SetEnvelope, SetAction, SetKillSwitch, PromoteChecked,
         PromoteStored, vars, adminVars
<1> QED BY <1>1, <1>2, <1>3, <1>4, <1>5

(* Every step keeps the types.                                             *)
LEMMA TypeStep ==
  ASSUME TypeOK, PromotesLevel, Timed, HoldsAction, [Next]_vars
  PROVE  TypeOK' /\ PromotesLevel'
<1>1. objects' \in Seq(Actions)
  BY ObjectsStep DEF ObjectsStay
<1> QED
  BY <1>1, PointersStep, CallingStep, AdministeredStep
  DEF TypeOK, Calling, Administered, Actions

-----------------------------------------------------------------------------
(* What the engine did and what it says of it                              *)

Moves(c) == Step(c) \/ \E passed \in BOOLEAN : ProposeFix(c, passed)

Stays(c) ==
  /\ pc'[c] = pc[c] /\ action'[c] = action[c]
  /\ outcome'[c] = outcome[c] /\ workflow'[c] = workflow[c]
  /\ escalated'[c] = escalated[c] /\ readAt'[c] = readAt[c]

(* A call moves by its own steps only.                                     *)
LEMMA OnlyOneMoves ==
  ASSUME TypeOK, [Next]_vars
  PROVE  \A c \in Calls : Moves(c) \/ Stays(c)
<1>0. Calling /\ action \in [Calls -> 0..Len(objects)]
  BY TypeParts
<1>1. ASSUME NEW d \in Calls, Moves(d), NEW c \in Calls, c # d
      PROVE  Stays(c)
  BY <1>0, <1>1
  DEF Moves, Step, Match, Suppress, Decide, TakeTime, Track, Notify, Propose, Ask, Answered,
      Execute, Verify, Rollback, SaveDecision, Settle, ProposeFix, callVars,
      Calling, Stays
<1>2. ASSUME UNCHANGED <<pc, action, outcome, workflow, escalated, readAt>>
      PROVE  \A c \in Calls : Stays(c)
  BY <1>2 DEF Stays
<1>3. \/ \E d \in Calls : Moves(d)
      \/ UNCHANGED <<pc, action, outcome, workflow, escalated, readAt>>
  BY
  DEF Next, Request, Moves, DecideSuggestion, SetEnvelope, SetAction,
      SetKillSwitch, PromoteChecked, PromoteStored, Tick, vars, callVars
<1> QED BY <1>1, <1>2, <1>3

(* The facts about one call.                                               *)
Told(c) ==
  /\ pc[c] \notin {"saving", "over"} =>
       /\ outcome[c] \in {"", "waiting_approval"}
       /\ workflow[c] = IF pc[c] \in Acted THEN "ran" ELSE "none"
  /\ pc[c] \in {"saving", "over"} =>
       /\ outcome[c] = "executed" <=> workflow[c] = "ran"
       /\ outcome[c] = "rolled_back" <=> workflow[c] = "undone"
       /\ workflow[c] \in {"lost", "stuck"} => outcome[c] = "failed"
       /\ workflow[c] \in {"undone", "stuck"} => escalated[c]
  /\ pc[c] \in Running => action[c] # None
  /\ pc[c] = "limiting" => readAt[c] # None

(* What is said of all calls, by call.                                     *)
LEMMA ToldParts ==
  (\A c \in Calls : Told(c)) <=>
    StageTold /\ OutcomeTruthful /\ HoldsAction /\ Timed
BY DEF Told, StageTold, OutcomeTruthful, HoldsAction, Timed

(* What a call has told stays true of it.                                  *)
LEMMA ToldStep ==
  ASSUME TypeOK, \A c \in Calls : Told(c), [Next]_vars, NEW c \in Calls
  PROVE  Told(c)'
<1>0. /\ pc \in [Calls -> Stages] /\ outcome \in [Calls -> Outcomes]
      /\ workflow \in [Calls -> {"none", "ran", "lost", "undone", "stuck"}]
      /\ escalated \in [Calls -> BOOLEAN]
      /\ readAt \in [Calls -> 0..MaxNow]
      /\ action \in [Calls -> 0..Len(objects)]
  BY DEF TypeOK
<1>1. CASE Stays(c)
  BY <1>1 DEF Stays, Told
<1>2. ASSUME NEW incident \in Criticalities, Match(c, incident) PROVE Told(c)'
  BY <1>0, <1>2, ZenonT(60) DEF Match, callVars, Told, Running, Acted
<1>3. CASE Suppress(c)
  BY <1>0, <1>3 DEF Suppress, Told, Running, Acted
<1>4. CASE Decide(c)
  <2>1. Path(ActionCap(EnvelopeCap(envelope[c]), objects[action[c]]))
          \in {"notifying", "proposing", "asking", "executing"}
    BY DEF Path
  <2> QED BY <1>0, <1>4, <2>1 DEF Decide, Told, Running, Acted
<1>12. CASE TakeTime(c)
  <2>1. now # None
    BY DEF TypeOK, None
  <2> QED BY <1>0, <1>12, <2>1 DEF TakeTime, Told, Running, Acted
<1>13. CASE Track(c)
  <2>1. Path(level[c]) \in {"notifying", "proposing", "asking", "executing"}
    BY DEF Path
  <2> QED BY <1>0, <1>13, <2>1 DEF Track, Told, Running, Acted
<1>5. CASE Notify(c) \/ Propose(c) \/ Ask(c)
  BY <1>0, <1>5 DEF Notify, Propose, Ask, Settle, Told, Running, Acted
<1>6. ASSUME NEW answer \in {"approved", "denied", "error"}, Answered(c, answer)
      PROVE  Told(c)'
  BY <1>0, <1>6, ZenonT(60) DEF Answered, Settle, Told, Running, Acted
<1>7. CASE Execute(c)
  BY <1>0, <1>7, ZenonT(60) DEF Execute, Settle, Told, Running, Acted
<1>8. CASE Verify(c)
  BY <1>0, <1>8 DEF Verify, AfterBadVerify, Settle, Told, Running, Acted
<1>9. ASSUME NEW ok \in BOOLEAN, Rollback(c, ok) PROVE Told(c)'
  BY <1>0, <1>9 DEF Rollback, UndoOutcome, Settle, Told, Running, Acted
<1>10. CASE SaveDecision(c)
  BY <1>0, <1>10 DEF SaveDecision, callVars, Told, Running, Acted
<1>11. ASSUME NEW passed \in BOOLEAN, ProposeFix(c, passed) PROVE Told(c)'
  BY <1>0, <1>11 DEF ProposeFix, Told, Running, Acted
<1> QED
  BY <1>1, <1>2, <1>3, <1>4, <1>5, <1>6, <1>7, <1>8, <1>9, <1>10, <1>11,
     <1>12, <1>13, OnlyOneMoves
  DEF Moves, Step

(* Who comes to a rollback holds a reversible action.                      *)
LEMMA MayUndoStep ==
  ASSUME SInv, [Next]_vars
  PROVE  MayUndo'
<1> SUFFICES ASSUME NEW c \in Calls,
                    pc'[c] \in Acted \/ workflow'[c] \in {"undone", "stuck"}
             PROVE  action'[c] # None /\ objects'[action'[c]].reversible
  BY DEF MayUndo
<1>0. /\ pc \in [Calls -> Stages] /\ action \in [Calls -> 0..Len(objects)]
      /\ workflow \in [Calls -> {"none", "ran", "lost", "undone", "stuck"}]
      /\ \A i \in 1..Len(objects) : objects'[i].reversible = objects[i].reversible
  BY ObjectsStep DEF SInv, TypeOK, ObjectsStay
<1>1. /\ action'[c] = action[c]
      /\ action[c] # None /\ objects[action[c]].reversible
  <2>1. MayUndo /\ StageTold /\ HoldsAction
    BY DEF SInv
  <2>2. CASE Stays(c)
    BY <2>1, <2>2 DEF Stays, MayUndo
  <2>3. CASE Execute(c)
    BY <1>0, <2>1, <2>3
    DEF Execute, MustReverse, Settle, MayUndo, HoldsAction, StageTold, Acted, Running
  <2>4. ASSUME NEW ok \in BOOLEAN, Verify(c) \/ Rollback(c, ok) \/ SaveDecision(c)
        PROVE  /\ action'[c] = action[c]
               /\ action[c] # None /\ objects[action[c]].reversible
    BY <1>0, <2>1, <2>4
    DEF Verify, Rollback, SaveDecision, Settle, callVars, MayUndo, Acted
  <2>5. ASSUME \/ \E incident \in Criticalities : Match(c, incident)
               \/ Suppress(c) \/ Decide(c) \/ TakeTime(c) \/ Track(c)
               \/ Notify(c) \/ Propose(c) \/ Ask(c)
               \/ \E answer \in {"approved", "denied", "error"} : Answered(c, answer)
               \/ \E passed \in BOOLEAN : ProposeFix(c, passed)
        PROVE  FALSE
    <3>1. pc[c] \notin Acted /\ pc[c] \notin {"saving", "over"} /\ workflow'[c] = workflow[c]
      BY <1>0, <2>5
      DEF Match, Suppress, Decide, TakeTime, Track, Notify, Propose, Ask, Answered, ProposeFix,
          callVars, Acted
    <3>2. workflow'[c] = "none"
      BY <2>1, <3>1 DEF StageTold
    <3>3. pc'[c] \notin Acted
      BY <1>0, <2>5
      DEF Match, Suppress, Decide, TakeTime, Track, Notify, Propose, Ask, Answered, ProposeFix,
          Settle, Path, Acted
    <3> QED BY <3>2, <3>3
  <2> QED
    BY <2>2, <2>3, <2>4, <2>5, OnlyOneMoves DEF SInv, Moves, Step
<1>2. action[c] \in 1..Len(objects)
  BY <1>0, <1>1 DEF None
<1> QED BY <1>0, <1>1, <1>2

-----------------------------------------------------------------------------
(* The first states satisfy SInv.                                          *)
LEMMA SInvInit == Init => SInv
<1> SUFFICES ASSUME Init PROVE SInv
  OBVIOUS
<1>1. objects \in Seq(Actions)
  <2>1. CASE objects = <<>>
    BY <2>1
  <2>2. ASSUME NEW a \in ActionShapes, objects = <<a>> PROVE objects \in Seq(Actions)
    <3>1. a \in Actions
      BY ActionsWellFormed DEF Actions
    <3> QED BY <2>2, <3>1
  <2> QED BY <2>1, <2>2 DEF Init
<1>2. (CHOOSE k \in Criticalities : TRUE) \in Criticalities
  BY CriticalitiesKnown
<1>3. Calling
  <2>1. "new" \in Stages /\ "" \in Outcomes /\ "none" \in Suggestions
    BY DEF Stages, Outcomes, Suggestions
  <2>2. 0 \in 0..5 /\ 0 \in 0..MaxNow
    BY BoundsPositive
  <2>3. [status |-> "none", passed |-> FALSE] \in [status : Suggestions, passed : BOOLEAN]
    BY <2>1
  <2>4. /\ pc \in [Calls -> Stages] /\ outcome \in [Calls -> Outcomes]
        /\ envelope \in [Calls -> EnvelopeShapes \union {NoEnvelope}]
        /\ consulted \in [Calls -> Criticalities]
    BY <1>2, <2>1 DEF Init
  <2>5. /\ level \in [Calls -> 0..5] /\ passedAt \in [Calls -> 0..MaxNow]
        /\ readAt \in [Calls -> 0..MaxNow]
        /\ workflow \in [Calls -> {"none", "ran", "lost", "undone", "stuck"}]
        /\ escalated \in [Calls -> BOOLEAN]
        /\ suggestion \in [Calls -> [status : Suggestions, passed : BOOLEAN]]
    BY <2>2, <2>3 DEF Init, None
  <2> QED BY <2>4, <2>5 DEF Calling
<1>4. Administered
  <2>1. 1 \in 1..MaxNow /\ 0 \in 0..MaxRequests
    BY BoundsPositive
  <2>2. buckets \in [Criticalities -> SUBSET (Calls \X (1..MaxNow))]
    BY DEF Init
  <2>3. store \in [Criticalities -> EnvelopeShapes \union {NoEnvelope}] /\ kill = {}
        /\ now = 1 /\ requests = 0
    BY DEF Init
  <2> QED BY <2>1, <2>2, <2>3 DEF Administered
<1>5. Len(objects) \in Nat /\ catalog = Len(objects)
  <2>1. catalog = Len(objects)
    BY DEF Init
  <2> QED BY <1>1, <2>1
<1>6. TypeOK
  <2>1. /\ action = [c \in Calls |-> 0]
        /\ promoting = [version |-> 0, level |-> 0]
    BY DEF Init, None
  <2>2. /\ action \in [Calls -> 0..Len(objects)]
        /\ catalog \in 0..Len(objects)
        /\ promoting \in [version : 0..Len(objects), level : 0..5]
    BY <1>5, <2>1
  <2> QED BY <1>1, <1>3, <1>4, <2>2, TypeParts
<1>7. \A c \in Calls : Told(c)
  BY DEF Init, Told, Running, Acted
<1>8. PromotesLevel /\ MayUndo
  BY DEF Init, PromotesLevel, MayUndo, Acted
<1> QED BY <1>6, <1>7, <1>8, ToldParts DEF SInv

(* Every step keeps SInv.                                                  *)
LEMMA SInvStep ==
  ASSUME SInv, [Next]_vars
  PROVE  SInv'
<1>1. TypeOK' /\ PromotesLevel'
  BY TypeStep DEF SInv
<1>2. \A c \in Calls : Told(c)
  BY ToldParts DEF SInv
<1>3. \A c \in Calls : Told(c)'
  BY <1>2, ToldStep DEF SInv
<1>4. StageTold' /\ OutcomeTruthful' /\ HoldsAction' /\ Timed'
  BY <1>3 DEF Told, StageTold, OutcomeTruthful, HoldsAction, Timed
<1> QED BY <1>1, <1>4, MayUndoStep DEF SInv

(* SInv, what a call may rely on wherever it stands, is an invariant.      *)
THEOREM HealingInvariant == Spec => []SInv
BY SInvInit, SInvStep, PTL DEF Spec

(* The engine's state always has its type: a call only ever holds a        *)
(* pointer to an action that was registered.                               *)
THEOREM HealingTypeCorrect == Spec => []TypeOK
BY HealingInvariant, PTL DEF SInv

(* What a saved decision says is what happened to the system, whatever     *)
(* call, answer or error came in between.                                  *)
THEOREM HealingTruthful == Spec => []OutcomeTruthful
BY HealingInvariant, PTL DEF SInv

(* Only a workflow of an action registered as reversible is ever undone,   *)
(* whatever registrations and promotions happen while it runs.             *)
THEOREM HealingUndoesReversible == Spec => []UndoneWasReversible
<1>1. SInv => UndoneWasReversible
  BY DEF SInv, MayUndo, UndoneWasReversible
<1> QED BY <1>1, HealingInvariant, PTL

-----------------------------------------------------------------------------
(* Finite sets of numbers                                                  *)

Less == {p \in Nat \X Nat : p[1] < p[2]}

(* The order of the naturals is well founded.                              *)
LEMMA NatLess == IsWellFoundedOn(Less, Nat)
BY NatLessThanWellFounded DEF OpToRel, Less

(* A set of naturals that is not empty has a least element.                *)
LEMMA Least ==
  ASSUME NEW S \in SUBSET Nat, S # {}
  PROVE  \E m \in S : \A y \in S : m <= y
<1>1. PICK m \in S : \A y \in S : ~ (<<y, m>> \in Less)
  BY NatLess, WFMin
<1>2. \A y \in S : ~ (y < m)
  BY <1>1 DEF Less
<1>3. \A y \in S : m <= y
  BY <1>2
<1> QED BY <1>3

(* The length of a sequence of numbers that has no bound would be least.   *)
LEMMA SequenceBounded ==
  ASSUME NEW n \in Nat, NEW f \in [1..n -> Nat]
  PROVE  \E b \in Nat : \A i \in 1..n : f[i] <= b
<1> DEFINE Bad == {k \in Nat : \E g \in [1..k -> Nat] :
                      \A b \in Nat : \E i \in 1..k : ~ (g[i] <= b)}
<1>1. SUFFICES ASSUME Bad # {} PROVE FALSE
  OBVIOUS
<1>2. PICK m \in Bad : \A k \in Bad : m <= k
  BY <1>1, Least
<1>3. PICK g \in [1..m -> Nat] : \A b \in Nat : \E i \in 1..m : ~ (g[i] <= b)
  BY <1>2
<1>13. m \in Nat /\ \A k \in Bad : ~ (k < m)
  <2>1. Bad \subseteq Nat
    OBVIOUS
  <2> HIDE DEF Bad
  <2>2. m \in Nat /\ \A k \in Bad : k \in Nat /\ m <= k
    BY <1>2, <2>1
  <2> QED BY <2>2
<1>4. m # 0
  <2>1. PICK i \in 1..m : ~ (g[i] <= 0)
    BY <1>3
  <2> QED BY <2>1
<1>5. m - 1 \in Nat /\ 1..(m - 1) \subseteq 1..m /\ m \in 1..m
  BY <1>4, <1>13
<1> DEFINE h == [i \in 1..(m - 1) |-> g[i]]
<1>6. h \in [1..(m - 1) -> Nat]
  BY <1>5
<1>7. m - 1 \notin Bad
  <2>1. m - 1 < m
    BY <1>13
  <2> QED BY <1>13, <2>1
<1>8. PICK b \in Nat : \A i \in 1..(m - 1) : h[i] <= b
  BY <1>5, <1>6, <1>7
<1>9. \A i \in 1..(m - 1) : g[i] <= b
  BY <1>8
<1>10. g[m] \in Nat /\ b + g[m] \in Nat
  <2>1. g[m] \in Nat
    BY <1>5
  <2> HIDE DEF Bad, h
  <2> QED BY <2>1
<1>11. \A i \in 1..m : i \in 1..(m - 1) \/ i = m
  BY <1>13
<1>12. \A i \in 1..m : g[i] <= b + g[m]
  <2>1. ASSUME NEW i \in 1..(m - 1) PROVE g[i] <= b + g[m]
    <3>1. g[i] \in Nat /\ g[i] <= b
      BY <1>5, <1>9
    <3> HIDE DEF Bad, h
    <3> QED BY <1>10, <3>1
  <2>2. g[m] <= b + g[m]
    <3> HIDE DEF Bad, h
    <3> QED BY <1>10
  <2> QED BY <1>11, <2>1, <2>2
<1> QED BY <1>3, <1>10, <1>12

(* The maximum of a finite set of naturals bounds it.                      *)
LEMMA MaxOfNumbers ==
  ASSUME NEW S \in SUBSET Nat, IsFiniteSet(S), NEW x \in S
  PROVE  Max(S) \in S /\ x <= Max(S)
<1>1. PICK n \in Nat : ExistsSurjection(1..n, S)
  BY FS_NatSurjection
<1>2. PICK f \in Surjection(1..n, S) : TRUE
  BY <1>1 DEF ExistsSurjection
<1>3. f \in [1..n -> S] /\ \A y \in S : \E i \in 1..n : f[i] = y
  BY <1>2 DEF Surjection
<1>4. f \in [1..n -> Nat]
  BY <1>3
<1>5. PICK b \in Nat : \A i \in 1..n : f[i] <= b
  BY <1>4, SequenceBounded
<1> DEFINE Above == {u \in Nat : \A y \in S : y <= u}
<1>6. b \in Above
  BY <1>3, <1>5
<1>7. PICK m \in Above : \A u \in Above : m <= u
  BY <1>6, Least
<1>8. m \in S
  <2>1. SUFFICES ASSUME m \notin S PROVE FALSE
    OBVIOUS
  <2>2. \A y \in S : y \in Nat /\ y <= m /\ y # m
    BY <1>7, <2>1
  <2>3. \A y \in S : y <= m - 1
    BY <1>7, <2>2
  <2>4. m - 1 \in Nat
    BY <1>7, <2>2
  <2>5. m - 1 \in Above
    BY <2>3, <2>4
  <2> QED BY <1>7, <2>5
<1>9. \E z \in S : \A y \in S : z >= y
  BY <1>7, <1>8
<1>10. Max(S) \in S /\ \A y \in S : Max(S) >= y
  BY <1>9 DEF Max
<1> QED BY <1>10

-----------------------------------------------------------------------------
(* The rate limit                                                          *)

(* The calls RateLimited counts, and the limits they found.                *)
Window(k, start) ==
  {c \in Calls : /\ Passed(c) /\ consulted[c] = k
                /\ start <= readAt[c] /\ passedAt[c] < start + Hour}
Limits(S) == {envelope[c].limit : c \in S}

(* RateLimited, by the sliding windows.                                    *)
LEMMA Windows ==
  RateLimited <=>
    \A k \in Criticalities, start \in 1..MaxNow :
      Window(k, start) # {} =>
        Cardinality(Window(k, start)) <= Max(Limits(Window(k, start)))
BY DEF RateLimited, Window, Limits

(* A call passes once, after it read its envelope.                         *)
PassesOnce ==
  \A c \in Calls : pc[c] \in {"new", "matched", "timing", "limiting"} => ~Passed(c)

(* It took its time before it got the lock, and both are past.             *)
InOrder == \A c \in Calls : readAt[c] <= now /\ (Passed(c) => readAt[c] <= passedAt[c])

BucketsFinite == \A k \in Criticalities : IsFiniteSet(buckets[k])

(* The bucket remembers who passed, until an hour after the time it took:  *)
(* no call can have a later time than the clock.                           *)
InBucket ==
  \A c \in Calls : Passed(c) =>
    <<c, readAt[c]>> \in buckets[consulted[c]] \/ readAt[c] + Hour <= now

RInv == PassesOnce /\ InOrder /\ BucketsFinite /\ InBucket /\ RateLimited

(* What a call that passed has read stays.                                 *)
LEMMA ReadStays ==
  ASSUME TypeOK, PassesOnce, [Next]_vars, NEW c \in Calls, Passed(c)
  PROVE  /\ consulted'[c] = consulted[c] /\ envelope'[c] = envelope[c]
         /\ readAt'[c] = readAt[c] /\ passedAt'[c] = passedAt[c]
         /\ pc'[c] \notin {"new", "matched", "timing", "limiting"}
<1> DEFINE Before == {"new", "matched", "timing", "limiting"}
           Kept(d) == /\ consulted'[d] = consulted[d] /\ envelope'[d] = envelope[d]
                      /\ readAt'[d] = readAt[d] /\ passedAt'[d] = passedAt[d]
<1>0. /\ Calling /\ pc[c] \notin Before
  BY TypeParts DEF PassesOnce
<1>1. ASSUME NEW d \in Calls, NEW incident \in Criticalities, Match(d, incident)
      PROVE  Kept(c) /\ pc'[c] = pc[c]
  BY <1>0, <1>1 DEF Match, callVars, Calling
<1>2. ASSUME NEW d \in Calls, Decide(d) \/ TakeTime(d) \/ Track(d)
      PROVE  Kept(c) /\ pc'[c] = pc[c]
  <2>1. d # c
    BY <1>0, <1>2 DEF Decide, TakeTime, Track
  <2>2. /\ UNCHANGED <<consulted, envelope>>
        /\ \E p : pc' = [pc EXCEPT ![d] = p]
        /\ readAt' = readAt \/ \E t : readAt' = [readAt EXCEPT ![d] = t]
        /\ passedAt' = passedAt \/ \E t : passedAt' = [passedAt EXCEPT ![d] = t]
    BY <1>2 DEF Decide, TakeTime, Track
  <2> QED BY <1>0, <2>1, <2>2 DEF Calling
<1>3. \/ \E d \in Calls : \/ Decide(d) \/ TakeTime(d) \/ Track(d)
                         \/ \E incident \in Criticalities : Match(d, incident)
      \/ UNCHANGED <<consulted, envelope, readAt, passedAt>>
  BY
  DEF Next, Step, Request, Suppress, Notify, Propose, Ask, Answered, Execute,
      Verify, Rollback, SaveDecision, ProposeFix, DecideSuggestion,
      SetEnvelope, SetAction, SetKillSwitch, PromoteChecked, PromoteStored,
      Tick, vars, callVars
<1>4. ASSUME NEW d \in Calls, Suppress(d) \/ Notify(d) \/ Propose(d) \/ Ask(d)
                             \/ Execute(d) \/ Verify(d) \/ SaveDecision(d)
      PROVE  pc'[c] \notin Before
  BY <1>0, <1>4
  DEF Suppress, Notify, Propose, Ask, Execute, Verify, AfterBadVerify,
      SaveDecision, Settle, Calling
<1>5. ASSUME NEW d \in Calls, NEW answer \in {"approved", "denied", "error"}, Answered(d, answer)
      PROVE  pc'[c] \notin Before
  BY <1>0, <1>5 DEF Answered, Settle, Calling
<1>6. ASSUME NEW d \in Calls, NEW ok \in BOOLEAN, Rollback(d, ok) \/ ProposeFix(d, ok)
      PROVE  pc'[c] \notin Before
  BY <1>0, <1>6 DEF Rollback, ProposeFix, Settle, Calling
<1>7. \/ \E d \in Calls : Step(d) \/ \E passed \in BOOLEAN : ProposeFix(d, passed)
      \/ pc' = pc
  BY
  DEF Next, Request, DecideSuggestion, SetEnvelope, SetAction, SetKillSwitch,
      PromoteChecked, PromoteStored, Tick, vars
<1> HIDE DEF Before
<1>8. pc'[c] \notin Before
  BY <1>0, <1>1, <1>2, <1>4, <1>5, <1>6, <1>7 DEF Step
<1> QED BY <1>1, <1>2, <1>3, <1>8 DEF Before

(* Only Track lets a call pass, and only it touches the buckets.           *)
LEMMA PassesByTrack ==
  ASSUME TypeOK, [Next]_vars
  PROVE  \/ \E c \in Calls : Track(c)
         \/ /\ UNCHANGED <<passedAt, buckets>> /\ now <= now'
            /\ \/ readAt' = readAt
               \/ \E c \in Calls : TakeTime(c)
<1>1. now \in Nat
  BY BoundsPositive DEF TypeOK
<1> QED
  BY <1>1
  DEF Next, Step, Request, Match, Suppress, Decide, TakeTime, Notify, Propose,
      Ask, Answered, Execute, Verify, Rollback, SaveDecision, ProposeFix,
      DecideSuggestion, SetEnvelope, SetAction, SetKillSwitch, PromoteChecked,
      PromoteStored, Tick, vars, callVars

(* Of the calls that took their time and pass within the hour in which c    *)
(* passes, each is in the bucket that c counts.                            *)
LEMMA WindowCounted ==
  ASSUME TypeOK, Timed, RInv, NEW c \in Calls, Track(c),
         NEW start \in 1..MaxNow, NEW W \in SUBSET Calls, c \in W,
         \A d \in W : /\ passedAt'[d] # None
                      /\ consulted[d] = consulted[c]
                      /\ start <= readAt[d] /\ passedAt'[d] < start + Hour
  PROVE  Cardinality(W) <= Max({envelope[d].limit : d \in W})
<1> DEFINE k == consulted[c]
<1>0. /\ Calling /\ Administered
      /\ k \in Criticalities /\ now \in Nat /\ Hour \in Nat \ {0} /\ MaxNow \in Nat
      /\ now # None
  <2>1. Calling /\ Administered
    BY TypeParts
  <2> QED BY <2>1, BoundsPositive DEF Calling, Administered, None
<1>1. ~Passed(c)
  BY DEF RInv, PassesOnce, Track
<1>3. IsFiniteSet(Tracked(c))
  <2>1. IsFiniteSet(buckets[k])
    BY <1>0 DEF RInv, BucketsFinite
  <2>2. IsFiniteSet({x \in buckets[k] : x[2] + Hour > readAt[c]})
    BY <2>1, FS_Subset
  <2> QED BY <2>2, FS_AddElement DEF Tracked
<1>2. /\ passedAt' = [passedAt EXCEPT ![c] = now]
      /\ Cardinality(Tracked(c)) <= envelope[c].limit
  <2>1. CASE Cardinality(Tracked(c)) > envelope[c].limit
    BY <1>1, <2>1 DEF Track, Passed
  <2>3. Cardinality(Tracked(c)) \in Nat
    BY <1>3, FS_CardinalityType
  <2>4. envelope[c].limit \in Nat
    BY <1>0, EnvelopesWellFormed DEF Calling, NoEnvelope
  <2>5. CASE ~ (Cardinality(Tracked(c)) > envelope[c].limit)
    BY <2>3, <2>4, <2>5 DEF Track
  <2> QED BY <2>1, <2>5
<1>13. passedAt'[c] = now /\ now < start + Hour /\ readAt[c] <= now
  <2>1. passedAt'[c] = now
    BY <1>0, <1>2 DEF Calling
  <2>2. passedAt'[c] < start + Hour
    OBVIOUS
  <2> QED BY <2>1, <2>2 DEF RInv, InOrder
<1>4. \A d \in W : d \in Calls /\ <<d, readAt[d]>> \in Tracked(c)
  <2> SUFFICES ASSUME NEW d \in W PROVE d \in Calls /\ <<d, readAt[d]>> \in Tracked(c)
    OBVIOUS
  <2>1. /\ d \in Calls /\ passedAt'[d] # None /\ consulted[d] = k
        /\ start <= readAt[d]
    OBVIOUS
  <2>3. CASE d = c
    BY <2>3 DEF Tracked
  <2>4. CASE d # c
    <3>1. Passed(d) /\ readAt[d] \in Nat /\ readAt[c] \in Nat
      BY <1>0, <1>2, <2>1, <2>4 DEF Calling, Passed
    <3>2. readAt[d] + Hour > now /\ readAt[d] + Hour > readAt[c]
      BY <1>0, <1>13, <2>1, <3>1
    <3>3. <<d, readAt[d]>> \in buckets[k]
      BY <1>0, <2>1, <3>1, <3>2 DEF RInv, InBucket
    <3> QED BY <2>1, <3>2, <3>3 DEF Tracked
  <2> QED BY <2>1, <2>3, <2>4
<1> DEFINE f == [d \in W |-> <<d, readAt[d]>>]
<1>5. f \in Injection(W, Tracked(c))
  <2>1. f \in [W -> Tracked(c)]
    BY <1>4
  <2>2. ASSUME NEW a \in W, NEW b \in W, f[a] = f[b] PROVE a = b
    BY <2>2
  <2> HIDE DEF f
  <2> QED BY <2>1, <2>2, Zenon DEF Injection, IsInjective
<1>6. IsFiniteSet(W) /\ Cardinality(W) <= Cardinality(Tracked(c))
  BY <1>3, <1>5, FS_Injection
<1>7. \A d \in W : envelope[d].limit \in Nat
  BY <1>0, EnvelopesWellFormed DEF Calling, NoEnvelope
<1> DEFINE L == {envelope[d].limit : d \in W}
           g == [d \in W |-> envelope[d].limit]
<1>8. L \in SUBSET Nat /\ envelope[c].limit \in L
  BY <1>7
<1>9. g \in Surjection(W, L)
  BY DEF Surjection
<1>10. IsFiniteSet(L)
  BY <1>6, <1>9, FS_Surjection
<1> HIDE DEF L
<1>11. Max(L) \in Nat /\ envelope[c].limit <= Max(L)
  BY <1>8, <1>10, MaxOfNumbers
<1>12. Cardinality(W) \in Nat /\ Cardinality(Tracked(c)) \in Nat
  BY <1>3, <1>6, FS_CardinalityType
<1> QED BY <1>2, <1>6, <1>7, <1>8, <1>11, <1>12 DEF L

(* Who passed stays; who had not is the call that leaves the limiter.      *)
LEMMA WhoPasses ==
  ASSUME TypeOK, RInv, [Next]_vars, NEW c \in Calls, passedAt'[c] # None
  PROVE  \/ Passed(c) /\ passedAt'[c] = passedAt[c] /\ readAt'[c] = readAt[c]
         \/ ~Passed(c) /\ Track(c) /\ passedAt'[c] = now
<1>0. passedAt \in [Calls -> 0..MaxNow]
  BY DEF TypeOK
<1>1. CASE Passed(c)
  BY <1>1, ReadStays DEF RInv
<1>2. CASE ~Passed(c)
  <2>1. PICK d \in Calls : Track(d)
    BY <1>2, PassesByTrack DEF Passed
  <2>2. passedAt' = passedAt \/ passedAt' = [passedAt EXCEPT ![d] = now]
    BY <2>1 DEF Track
  <2> QED BY <1>0, <1>2, <2>1, <2>2 DEF Passed
<1> QED BY <1>1, <1>2

(* A call let through leaves every window within its limits.               *)
LEMMA RateLimitedStep ==
  ASSUME TypeOK, Timed, RInv, [Next]_vars
  PROVE  RateLimited'
<1> SUFFICES ASSUME NEW k \in Criticalities, NEW start \in 1..MaxNow, NEW V,
                    V = {c \in Calls : /\ passedAt'[c] # None
                                      /\ consulted'[c] = k
                                      /\ start <= readAt'[c]
                                      /\ passedAt'[c] < start + Hour},
                    V # {}
             PROVE  Cardinality(V) <= Max({envelope'[c].limit : c \in V})
  BY DEF RateLimited, Passed
<1>1. CASE \A c \in V : Passed(c)
  <2>1. \A c \in Calls : Passed(c) =>
          /\ consulted'[c] = consulted[c] /\ envelope'[c] = envelope[c]
          /\ readAt'[c] = readAt[c] /\ passedAt'[c] = passedAt[c]
    BY ReadStays DEF RInv
  <2>2. V = Window(k, start)
    BY <1>1, <2>1 DEF Window, Passed
  <2>3. {envelope'[c].limit : c \in V} = {envelope[c].limit : c \in V}
    BY <1>1, <2>1
  <2>4. Cardinality(Window(k, start)) <= Max(Limits(Window(k, start)))
    BY <2>2, Windows DEF RInv
  <2> QED BY <2>2, <2>3, <2>4 DEF Limits
<1>2. ASSUME NEW c \in V, ~Passed(c)
      PROVE  Cardinality(V) <= Max({envelope'[d].limit : d \in V})
  <2>1. c \in Calls /\ Track(c)
    BY <1>2, WhoPasses
  <2>2. envelope' = envelope /\ consulted' = consulted /\ readAt' = readAt
    BY <2>1 DEF Track
  <2>3. V \in SUBSET Calls
    OBVIOUS
  <2>4. \A d \in V : /\ passedAt'[d] # None
                     /\ consulted[d] = consulted[c]
                     /\ start <= readAt[d] /\ passedAt'[d] < start + Hour
    BY <2>2
  <2>5. Cardinality(V) <= Max({envelope[d].limit : d \in V})
    BY <1>2, <2>1, <2>3, <2>4, WindowCounted
  <2> QED BY <2>2, <2>5
<1> QED BY <1>1, <1>2

(* A call passes once.                                                     *)
LEMMA PassesOnceStep ==
  ASSUME TypeOK, RInv, [Next]_vars
  PROVE  PassesOnce'
<1> SUFFICES ASSUME NEW c \in Calls, passedAt'[c] # None
             PROVE  pc'[c] \notin {"new", "matched", "timing", "limiting"}
  BY DEF PassesOnce, Passed
<1>1. CASE Passed(c)
  BY <1>1, ReadStays DEF RInv
<1>2. CASE ~Passed(c) /\ Track(c)
  <2>1. pc \in [Calls -> Stages]
    BY DEF TypeOK
  <2>2. \E p \in {"saving", "notifying", "proposing", "asking", "executing"} :
          pc' = [pc EXCEPT ![c] = p]
    BY <1>2 DEF Track, Path
  <2> QED BY <2>1, <2>2
<1> QED BY <1>1, <1>2, WhoPasses

(* A call takes its time before it passes.                                 *)
LEMMA InOrderStep ==
  ASSUME TypeOK, RInv, [Next]_vars
  PROVE  InOrder'
<1>0. /\ now \in Nat /\ now' \in Nat /\ now <= now'
      /\ readAt \in [Calls -> Nat]
  <2>1. now \in Nat /\ readAt \in [Calls -> Nat]
    BY BoundsPositive DEF TypeOK
  <2>2. now' = now \/ now' = now + 1
    BY
    DEF Next, Step, Request, Match, Suppress, Decide, TakeTime, Track, Notify,
        Propose, Ask, Answered, Execute, Verify, Rollback, SaveDecision,
        ProposeFix, DecideSuggestion, SetEnvelope, SetAction, SetKillSwitch,
        PromoteChecked, PromoteStored, Tick, vars
  <2> QED BY <2>1, <2>2
<1>1. \/ readAt' = readAt
      \/ \E c \in Calls : TakeTime(c)
  BY PassesByTrack DEF Track
<1> SUFFICES ASSUME NEW c \in Calls
             PROVE  /\ readAt'[c] <= now'
                    /\ passedAt'[c] # None => readAt'[c] <= passedAt'[c]
  BY DEF InOrder, Passed
<1>2. readAt'[c] = readAt[c] \/ readAt'[c] = now
  BY <1>0, <1>1 DEF TakeTime
<1>3. readAt'[c] <= now' /\ readAt[c] <= now
  BY <1>0, <1>2 DEF RInv, InOrder
<1>4. ASSUME passedAt'[c] # None PROVE readAt'[c] <= passedAt'[c]
  <2>1. CASE Passed(c) /\ passedAt'[c] = passedAt[c] /\ readAt'[c] = readAt[c]
    BY <2>1 DEF RInv, InOrder
  <2>2. CASE Track(c) /\ passedAt'[c] = now
    BY <1>3, <2>2 DEF Track
  <2> QED BY <1>4, <2>1, <2>2, WhoPasses
<1> QED BY <1>3, <1>4

(* The buckets remember who passed, and stay finite.                       *)
LEMMA BucketsStep ==
  ASSUME TypeOK, RInv, [Next]_vars
  PROVE  BucketsFinite' /\ InBucket'
<1>0. /\ Calling /\ Administered /\ Hour \in Nat /\ now \in Nat
  BY TypeParts, BoundsPositive DEF Administered
<1>1. CASE UNCHANGED <<passedAt, buckets>> /\ now <= now'
  <2>1. now' \in Nat
    <3>1. now' = now \/ now' = now + 1
      BY
      DEF Next, Step, Request, Match, Suppress, Decide, TakeTime, Track, Notify,
          Propose, Ask, Answered, Execute, Verify, Rollback, SaveDecision,
          ProposeFix, DecideSuggestion, SetEnvelope, SetAction, SetKillSwitch,
          PromoteChecked, PromoteStored, Tick, vars
    <3> QED BY <1>0, <3>1
  <2>2. BucketsFinite'
    BY <1>1 DEF RInv, BucketsFinite
  <2>3. InBucket'
    <3> SUFFICES ASSUME NEW c \in Calls, passedAt'[c] # None
                 PROVE  \/ <<c, readAt'[c]>> \in buckets'[consulted'[c]]
                        \/ readAt'[c] + Hour <= now'
      BY DEF InBucket, Passed
    <3>1. Passed(c) /\ readAt[c] \in Nat
      BY <1>0, <1>1 DEF Passed, Calling
    <3>2. consulted'[c] = consulted[c] /\ readAt'[c] = readAt[c]
      BY <3>1, ReadStays DEF RInv
    <3> QED BY <1>0, <1>1, <2>1, <3>1, <3>2 DEF RInv, InBucket
  <2> QED BY <2>2, <2>3
<1>2. ASSUME NEW d \in Calls, Track(d)
      PROVE  BucketsFinite' /\ InBucket'
  <2> DEFINE k == consulted[d]
  <2>1. /\ k \in Criticalities /\ now' = now
        /\ consulted' = consulted /\ readAt' = readAt
    BY <1>0, <1>2 DEF Calling, Track
  <2>2. buckets' = [buckets EXCEPT ![k] = Tracked(d)]
    BY <1>2 DEF Track
  <2>3. IsFiniteSet(Tracked(d))
    <3>1. IsFiniteSet({x \in buckets[k] : x[2] + Hour > readAt[d]})
      BY <2>1, FS_Subset DEF RInv, BucketsFinite
    <3> QED BY <3>1, FS_AddElement DEF Tracked
  <2>4. BucketsFinite'
    BY <1>0, <2>1, <2>2, <2>3 DEF RInv, BucketsFinite, Administered
  <2>6. InBucket'
    <3> SUFFICES ASSUME NEW c \in Calls, passedAt'[c] # None
                 PROVE  \/ <<c, readAt[c]>> \in buckets'[consulted[c]]
                        \/ readAt[c] + Hour <= now
      BY <2>1 DEF InBucket, Passed
    <3>1. /\ consulted[c] \in Criticalities
          /\ readAt[c] \in Nat /\ readAt[d] \in Nat /\ readAt[d] <= now
      BY <1>0 DEF Calling, RInv, InOrder
    <3>2. CASE Passed(c)
      <4>2. <<c, readAt[c]>> \in buckets[consulted[c]] \/ readAt[c] + Hour <= now
        BY <3>2 DEF RInv, InBucket
      <4>3. CASE buckets'[consulted[c]] = buckets[consulted[c]]
        BY <4>2, <4>3
      <4>4. CASE consulted[c] = k /\ buckets'[k] = Tracked(d)
        BY <1>0, <3>1, <4>2, <4>4 DEF Tracked
      <4> QED BY <1>0, <2>1, <2>2, <3>1, <4>3, <4>4 DEF Administered
    <3>3. CASE ~Passed(c) /\ Track(c) /\ passedAt'[c] = now
      <4>1. buckets'[consulted[c]] = Tracked(c)
        BY <1>0, <3>1, <3>3 DEF Track, Administered
      <4> QED BY <3>3, <4>1 DEF Tracked
    <3> QED BY <3>2, <3>3, WhoPasses
  <2> QED BY <2>4, <2>6
<1> QED BY <1>1, <1>2, PassesByTrack

(* The first states satisfy RInv.                                          *)
LEMMA RInvInit == Init => RInv
<1> SUFFICES ASSUME Init PROVE RInv
  OBVIOUS
<1>1. \A c \in Calls : ~Passed(c)
  BY DEF Init, Passed
<1>2. PassesOnce /\ InBucket
  BY <1>1 DEF PassesOnce, InBucket
<1>3. InOrder
  <2>1. now = 1 /\ \A c \in Calls : readAt[c] = 0
    BY DEF Init, None
  <2> QED BY <1>1, <2>1 DEF InOrder
<1>4. BucketsFinite
  BY FS_EmptySet DEF Init, BucketsFinite
<1>5. RateLimited
  <2>1. \A k \in Criticalities, start \in 1..MaxNow : Window(k, start) = {}
    BY <1>1 DEF Window
  <2> QED BY <2>1, Windows
<1> QED BY <1>2, <1>3, <1>4, <1>5 DEF RInv

(* However many calls there are, in whatever order they come from the      *)
(* clock to the lock and whatever becomes of the envelopes: of the calls   *)
(* that take their time and pass an envelope's limiter within one hour     *)
(* there are no more than its most generous limit of that hour.            *)
THEOREM HealingRateLimited == Spec => []RateLimited
<1>1. SInv /\ RInv /\ [Next]_vars => RInv'
  BY RateLimitedStep, PassesOnceStep, InOrderStep, BucketsStep DEF RInv, SInv
<1>2. RInv => RateLimited
  BY DEF RInv
<1> QED BY RInvInit, <1>1, <1>2, HealingInvariant, PTL DEF Spec
===============================================================================
