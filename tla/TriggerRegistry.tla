--------------------------- MODULE TriggerRegistry ---------------------------
(***************************************************************************)
(* trigger-router's registry of subscriptions and the two components that  *)
(* follow it: the cron scheduler and the event-bus router, each with a     *)
(* Refresh that compares what it runs with what the registry lists.        *)
(* The module keeps one trigger id; its keys are the workflow versions.    *)
(* Re-publishing a version may change the trigger's type and config.       *)
(*                                                                         *)
(* Each Refresh reads the registry once and works from what it read, under *)
(* its own mutex.  The scheduler's is one step at that read: nothing else  *)
(* sees its entries.  The router's cancels and subscribes one key after    *)
(* the other, in the order of its maps, which is any.  The bus is          *)
(* ChannelBus, the one main.go wires: a handler list per topic, and a      *)
(* cancel function that keeps a position.                                  *)
(***************************************************************************)
EXTENDS Naturals, FiniteSets, Sequences, SequencesExt

CONSTANTS
  Versions,    \* the keys of the registry
  Expressions, \* cron expressions the cron library accepts
  Topics,      \* event-bus topics of the platform's catalog
  Mailboxes,   \* mailbox references
  MaxChanges   \* bound on the publications and removals

Types == {"cron", "event-bus", "email-inbound", "webhook-in"}

NoSub == [type |-> "none", config |-> "none"]
Unusable == "unusable"  \* no expression, or no topic of the catalog

Subscriptions ==
  [type : {"cron"}, config : Expressions \union {Unusable}]
    \union [type : {"event-bus"}, config : Topics \union {Unusable}]
    \union [type : {"email-inbound"}, config : Mailboxes]
    \union [type : {"webhook-in"}, config : {Unusable}]

VARIABLES
  subs,      \* Registry.subs
  byType,    \* Registry.byType: the secondary index
  entries,   \* CronScheduler.entries with the subscription each closure captured
  bus,       \* ChannelBus.subscribers: topic -> handlers (their subscriptions)
  cancels,   \* EventBusRouter.cancels: key -> the topic and index captured
  refreshing, desired, \* the router's Refresh, and what it read
  cronFresh, busFresh, \* no change of the registry since the last Refresh read it
  shifted,   \* topics on which a handler other than the newest was cancelled
  changes

registryVars == <<subs, byType>>
busVars == <<bus, cancels, refreshing, desired, busFresh, shifted>>
vars == <<subs, byType, entries, bus, cancels, refreshing, desired,
          cronFresh, busFresh, shifted, changes>>

Handlers == [key : Versions, sub : Subscriptions]
NoCancel == [topic |-> "none", idx |-> 0]
Nothing == [v \in Versions |-> NoSub]

TypeOK ==
  /\ subs \in [Versions -> Subscriptions \union {NoSub}]
  /\ byType \in [Types -> SUBSET Versions]
  /\ entries \in [Versions -> Subscriptions \union {NoSub}]
  /\ bus \in [Topics -> Seq(Handlers)]
  /\ cancels \in [Versions -> [topic : Topics, idx : 1..(MaxChanges + 1)] \union {NoCancel}]
  /\ refreshing \in BOOLEAN
  /\ desired \in [Versions -> Subscriptions \union {NoSub}]
  /\ cronFresh \in BOOLEAN /\ busFresh \in BOOLEAN
  /\ shifted \subseteq Topics
  /\ changes \in 0..MaxChanges

Init ==
  /\ subs = Nothing
  /\ byType = [t \in Types |-> {}]
  /\ entries = Nothing
  /\ bus = [t \in Topics |-> <<>>]
  /\ cancels = [v \in Versions |-> NoCancel]
  /\ refreshing = FALSE /\ desired = Nothing
  /\ cronFresh = TRUE /\ busFresh = TRUE
  /\ shifted = {}
  /\ changes = 0

Registered == {v \in Versions : subs[v] # NoSub}

Changed ==
  /\ changes < MaxChanges
  /\ changes' = changes + 1
  /\ cronFresh' = FALSE /\ busFresh' = FALSE
  /\ UNCHANGED <<entries, bus, cancels, refreshing, desired, shifted>>

(* IngestWorkflow: the subscription replaces the old one; the index of the *)
(* old type keeps its entry.                                               *)
Indexed_Never(v, t) == byType
Indexed(v, t) == [byType EXCEPT ![t] = @ \union {v}]

IngestWorkflow(v, sub) ==
  /\ subs' = [subs EXCEPT ![v] = sub]
  /\ byType' = Indexed(v, sub.type)
  /\ Changed

(* RemoveWorkflowVersion cleans the index of the current type only.        *)
RemoveWorkflowVersion(v) ==
  /\ v \in Registered
  /\ subs' = [subs EXCEPT ![v] = NoSub]
  /\ byType' = [byType EXCEPT ![subs[v].type] = @ \ {v}]
  /\ Changed

(* ByType: the indexed keys that are still registered.                     *)
ByType(t) == byType[t] \intersect Registered

(* CronScheduler.Refresh: a config without a valid cron expression is not  *)
(* scheduled; an entry that exists is left as it is.                       *)
Schedulable(v) == subs[v].config \in Expressions
KeepsEntry(v) == entries[v] # NoSub /\ v \in ByType("cron")

CronRefresh ==
  /\ entries' = [v \in Versions |->
                   IF KeepsEntry(v) THEN entries[v]
                   ELSE IF v \in ByType("cron") /\ Schedulable(v) THEN subs[v]
                   ELSE NoSub]
  /\ cronFresh' = TRUE
  /\ UNCHANGED <<registryVars, busVars, changes>>

(* EventBusRouter.Refresh reads the registry ...                           *)
BusRefresh ==
  /\ ~refreshing
  /\ refreshing' = TRUE
  /\ desired' = [v \in Versions |-> IF v \in ByType("event-bus") THEN subs[v] ELSE NoSub]
  /\ busFresh' = TRUE
  /\ UNCHANGED <<registryVars, entries, bus, cancels, cronFresh, shifted, changes>>

(* ... cancels what is gone.  ChannelBus removes whatever stands at the    *)
(* position captured when the key subscribed, if the list is that long.    *)
Gone(v) == refreshing /\ cancels[v] # NoCancel /\ desired[v] = NoSub

BusCancel(v) ==
  LET t == cancels[v].topic
      i == cancels[v].idx
  IN /\ Gone(v)
     /\ bus' = [bus EXCEPT ![t] = IF i <= Len(@) THEN RemoveAt(@, i) ELSE @]
     /\ cancels' = [cancels EXCEPT ![v] = NoCancel]
     /\ shifted' = IF i = Len(bus[t]) THEN shifted ELSE shifted \union {t}
     /\ UNCHANGED <<registryVars, entries, refreshing, desired, cronFresh, busFresh, changes>>

(* ... then subscribes what is new; a topic outside the catalog is logged. *)
Missing(v) ==
  /\ refreshing
  /\ desired[v] # NoSub
  /\ cancels[v] = NoCancel
  /\ desired[v].config \in Topics

Captured_AfterAppend(t) == Len(bus[t]) + 2
Captured(t) == Len(bus[t]) + 1

BusSubscribe(v) ==
  LET t == desired[v].config
  IN /\ \A w \in Versions : ~Gone(w)
     /\ Missing(v)
     /\ cancels' = [cancels EXCEPT ![v] = [topic |-> t, idx |-> Captured(t)]]
     /\ bus' = [bus EXCEPT ![t] = Append(@, [key |-> v, sub |-> desired[v]])]
     /\ UNCHANGED <<registryVars, entries, refreshing, desired, cronFresh, busFresh, shifted, changes>>

BusRefreshed ==
  /\ refreshing
  /\ \A v \in Versions : ~Gone(v) /\ ~Missing(v)
  /\ refreshing' = FALSE /\ desired' = Nothing
  /\ UNCHANGED <<registryVars, entries, bus, cancels, cronFresh, busFresh, shifted, changes>>

Next ==
  \/ \E v \in Versions : \E sub \in Subscriptions : IngestWorkflow(v, sub)
  \/ \E v \in Versions : RemoveWorkflowVersion(v)
  \/ CronRefresh
  \/ BusRefresh
  \/ \E v \in Versions : BusCancel(v) \/ BusSubscribe(v)
  \/ BusRefreshed

Spec == Init /\ [][Next]_vars

-----------------------------------------------------------------------------
(* The scanners find every subscription by its type, whatever types it had *)
(* before.                                                                 *)
IndexComplete == \A v \in Registered : v \in ByType(subs[v].type)

(* After a refresh the followers have what the registry has: nothing is    *)
(* kept for a version that is gone, and every cron subscription that can be *)
(* scheduled and every event-bus one with a topic of the catalog is served  *)
(* (CronScheduler.Refresh, EventBusRouter.Refresh), whatever was published  *)
(* again with another type in between.                                      *)
CronKeysFollow ==
    /\ \A v \in Versions : entries[v] # NoSub => v \in Registered
    /\ \A v \in Registered :
         subs[v].type = "cron" /\ Schedulable(v) => entries[v] # NoSub
BusKeysFollow ==
    /\ \A v \in Versions : cancels[v] # NoCancel => v \in Registered
    /\ \A v \in Registered :
         subs[v].type = "event-bus" /\ subs[v].config \in Topics => cancels[v] # NoCancel

(* The handlers on the bus.  As long as only the newest handler of a topic *)
(* has been cancelled, the handlers of the topic and the cancel functions   *)
(* of the router are one to one, each at its position.  Once another one    *)
(* has been, the positions are those of other handlers (SubscribedServed,   *)
(* below), and what is left is that there are never fewer handlers than     *)
(* cancel functions.                                                        *)
Counted(t) == {v \in Versions : cancels[v] # NoCancel /\ cancels[v].topic = t}

OneToOne(t) ==
    /\ \A v \in Counted(t) :
         cancels[v].idx \in DOMAIN bus[t] /\ bus[t][cancels[v].idx].key = v
    /\ \A i \in DOMAIN bus[t] : cancels[bus[t][i].key] = [topic |-> t, idx |-> i]

HandlersFollow ==
    /\ \A t \in Topics \ shifted : OneToOne(t)
    /\ \A t \in Topics : Cardinality(Counted(t)) <= Len(bus[t])

KeysFollow ==
    /\ cronFresh => CronKeysFollow
    /\ busFresh /\ ~refreshing => BusKeysFollow
    /\ HandlersFollow

(* "EventBusRouter dispatches incoming bus events to every subscribed       *)
(* trigger": each key the router counts as subscribed has a handler on the  *)
(* bus.  A cancellation behind an earlier one removes another's.            *)
SubscribedServed ==
    \A v \in Versions : cancels[v] # NoCancel =>
      \E i \in DOMAIN bus[cancels[v].topic] : bus[cancels[v].topic][i].key = v
=============================================================================
