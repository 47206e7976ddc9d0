--------------------------- MODULE PolicyOverrides --------------------------
(***************************************************************************)
(* Overrides of a policy (services/policy-engine/internal/override): granted *)
(* for a time, used once or revoked, and turned over by a reconciler. Every *)
(* operation changes the state of an override under the mutex and tells the *)
(* sink after it has let the mutex go.                                      *)
(***************************************************************************)
EXTENDS Naturals, FiniteSets

CONSTANTS
    Overrides,
    MaxTTL,        \* of the template
    MaxTime

VARIABLES
    state,         \* of each override
    expires,       \* its ExpiresAt
    saying,        \* what is still to be emitted: records [ov, type, at]
    events,        \* what has been: [ov, type, saw], saw the state the event shows
    granted,       \* the overrides whose Grant has returned
    used,          \* those whose Consume has returned no error
    clock

overrides == <<state, expires, saying, events, granted, used, clock>>

States   == {"active", "consumed", "expired", "revoked"}
Terminal == States \ {"active"}

Init ==
    /\ state = [o \in Overrides |-> "none"] /\ expires = [o \in Overrides |-> 0]
    /\ saying = {} /\ events = {} /\ granted = {} /\ used = {} /\ clock = 0

(* Grant, for an input that its checks let through: the others change       *)
(* nothing. Whoever asked hears of it after the event.                      *)
Grant(o, ttl) ==
    /\ state[o] = "none" /\ ttl \in 1..MaxTTL
    /\ state' = [state EXCEPT ![o] = "active"]
    /\ expires' = [expires EXCEPT ![o] = clock + ttl]
    /\ saying' = saying \cup {[ov |-> o, type |-> "granted"]}
    /\ UNCHANGED <<events, granted, used, clock>>

Active(o)       == state[o] = "active"

(* Consume does not look at ExpiresAt. *)
Consume(o) ==
    /\ Active(o)
    /\ state' = [state EXCEPT ![o] = "consumed"]
    /\ saying' = saying \cup {[ov |-> o, type |-> "consumed"]}
    /\ UNCHANGED <<expires, events, granted, used, clock>>

Revoke(o) ==
    /\ Active(o)
    /\ state' = [state EXCEPT ![o] = "revoked"]
    /\ saying' = saying \cup {[ov |-> o, type |-> "revoked"]}
    /\ UNCHANGED <<expires, events, granted, used, clock>>

Lapsed(o) == Active(o) /\ expires[o] <= clock

(* One tick of RunReconciler. *)
ReconcileExpired ==
    LET lapsed == {o \in Overrides : Lapsed(o)}
    IN  /\ lapsed # {}
        /\ state' = [o \in Overrides |-> IF o \in lapsed THEN "expired" ELSE state[o]]
        /\ saying' = saying \cup [ov : lapsed, type : {"expired"}]
        /\ UNCHANGED <<expires, events, granted, used, clock>>

(* sink.Emit: the event carries the override itself, so it shows the state  *)
(* of this moment, not that of the step it tells of.                        *)
Emit(e) ==
    /\ e \in saying
    /\ saying' = saying \ {e}
    /\ events' = events \cup {[ov |-> e.ov, type |-> e.type, saw |-> state[e.ov]]}
    /\ granted' = IF e.type = "granted" THEN granted \cup {e.ov} ELSE granted
    /\ used' = IF e.type = "consumed" THEN used \cup {e.ov} ELSE used
    /\ UNCHANGED <<state, expires, clock>>

Tick ==
    /\ clock < MaxTime
    /\ clock' = clock + 1
    /\ UNCHANGED <<state, expires, saying, events, granted, used>>

Next ==
    \/ \E o \in Overrides :
         \/ \E ttl \in 1..MaxTTL : Grant(o, ttl)
         \/ Consume(o)
         \/ Revoke(o)
    \/ ReconcileExpired
    \/ \E e \in saying : Emit(e)
    \/ Tick

Spec == Init /\ [][Next]_overrides

-----------------------------------------------------------------------------
TypeOK ==
    /\ state \in [Overrides -> States \cup {"none"}]
    /\ expires \in [Overrides -> 0..(MaxTime + MaxTTL)]
    /\ saying \subseteq [ov : Overrides, type : {"granted"} \cup Terminal]
    /\ events \subseteq [ov : Overrides, type : {"granted"} \cup Terminal, saw : States]
    /\ granted \in SUBSET Overrides /\ used \in SUBSET Overrides
    /\ clock \in 0..MaxTime

EndsTold(o) == {e \in events : e.ov = o /\ e.type # "granted"}

(* An override ends once. The events that told of its end, whatever the     *)
(* order in which the emissions after the mutex were scheduled, are of the  *)
(* one way it ended and show that state, even when the reconciler, a user   *)
(* and a revocation met; and who was told that its use succeeded was not    *)
(* overtaken by a revocation or an expiry (Manager.Consume, Revoke,         *)
(* ReconcileExpired).                                                       *)
EndsOnce ==
    \A o \in Overrides :
        /\ \A e \in EndsTold(o) : e.type = state[o] /\ e.saw = state[o]
        /\ o \in used => state[o] = "consumed"
        /\ state[o] \in Terminal =>
              (\E e \in saying : e.ov = o /\ e.type = state[o]) \/ EndsTold(o) # {}
=============================================================================
