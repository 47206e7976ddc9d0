---------------------------- MODULE TriggerSources ----------------------------
(***************************************************************************)
(* The registry of trigger-router together with the EmailPoller that reads *)
(* it: every tick the poller asks the mailbox of each email-inbound        *)
(* subscription for the messages since the newest one it dispatched, and   *)
(* fires the trigger for each that matches the filter.  The ticks do not   *)
(* overlap (startTicker runs them in one goroutine), but publications,     *)
(* removals and messages come between the polls and between the messages   *)
(* of one poll.  The poller keeps its lastSeen when the subscription goes, *)
(* and takes it up again when it comes back.                               *)
(*                                                                         *)
(* The mailbox is external.  Its contract (the Mailbox interface): Poll    *)
(* returns what arrived since the given time and may return a message      *)
(* again.                                                                  *)
(***************************************************************************)
EXTENDS TriggerRegistry, FiniteSetsExt, SequencesExt

CONSTANTS
  Inbox,      \* the version whose trigger may be email-inbound
  Messages,
  Matching,   \* the subset of them the subscription's filter lets through
  MaxNow,     \* bound on the clock
  MaxPolls    \* bound on the ticks

VARIABLES
  received,   \* ReceivedAt of the messages in the mailbox, 0 if not there
  now,
  batch,      \* the messages of the current poll still to be handled
  lastSeen,   \* EmailPoller.lastSeen[k]
  fired,      \* how often a message was dispatched successfully
  failed,     \* the messages whose dispatch failed at least once
  polls

mailVars == <<received, now, batch, lastSeen, fired, failed, polls>>

MailTypeOK ==
  /\ received \in [Messages -> 0..MaxNow]
  /\ now \in 1..MaxNow
  /\ batch \in Seq(Messages)
  /\ lastSeen \in 0..MaxNow
  /\ fired \in [Messages -> 0..MaxPolls]
  /\ failed \subseteq Messages
  /\ polls \in 0..MaxPolls

MailInit ==
  /\ received = [m \in Messages |-> 0]
  /\ now = 1
  /\ batch = <<>>
  /\ lastSeen = 0
  /\ fired = [m \in Messages |-> 0]
  /\ failed = {}
  /\ polls = 0

ClockAdvances ==
  /\ now < MaxNow
  /\ now' = now + 1
  /\ UNCHANGED <<received, batch, lastSeen, fired, failed, polls>>

Arrive(m) ==
  /\ received[m] = 0
  /\ received' = [received EXCEPT ![m] = now]
  /\ UNCHANGED <<now, batch, lastSeen, fired, failed, polls>>

(* The messages Poll(since) returns, in any order.                         *)
Since(t) == {m \in Messages : received[m] # 0 /\ received[m] >= t}

Poll ==
  /\ batch = <<>>
  /\ polls < MaxPolls
  /\ polls' = polls + 1
  /\ batch' \in SetToSeqs(Since(lastSeen))
  /\ UNCHANGED <<received, now, lastSeen, fired, failed>>

(* matchFilter                                                             *)
Passes(m) == m \in Matching

Skip ==
  /\ batch # <<>>
  /\ ~Passes(Head(batch))
  /\ batch' = Tail(batch)
  /\ UNCHANGED <<received, now, lastSeen, fired, failed, polls>>

(* The dispatch succeeded; lastSeen never moves back.                      *)
Advance_ToNow(m) == now
Advance(m) == Max({lastSeen, received[m]})

Dispatched ==
  /\ batch # <<>>
  /\ Passes(Head(batch))
  /\ batch' = Tail(batch)
  /\ fired' = [fired EXCEPT ![Head(batch)] = @ + 1]
  /\ lastSeen' = Advance(Head(batch))
  /\ UNCHANGED <<received, now, failed, polls>>

(* The dispatch failed: logged, and on to the next message.                *)
DispatchFailed ==
  /\ batch # <<>>
  /\ Passes(Head(batch))
  /\ batch' = Tail(batch)
  /\ failed' = failed \union {Head(batch)}
  /\ UNCHANGED <<received, now, lastSeen, fired, polls>>

MailNext ==
  \/ ClockAdvances \/ Poll \/ Skip \/ Dispatched \/ DispatchFailed
  \/ \E m \in Messages : Arrive(m)

-----------------------------------------------------------------------------
SourcesTypeOK == TypeOK /\ MailTypeOK

SourcesInit == Init /\ MailInit

(* Tick looks for the subscription in the index and takes its mailbox from *)
(* the current config; the messages then belong to what it read.           *)
Polled(v) == v \in ByType("email-inbound") /\ subs[v].config \in Mailboxes

PollerStep ==
  /\ MailNext
  /\ polls' # polls => Polled(Inbox)
  /\ UNCHANGED vars

SourcesNext == (Next /\ UNCHANGED mailVars) \/ PollerStep

SourcesSpec == SourcesInit /\ [][SourcesNext]_<<vars, mailVars>>

-----------------------------------------------------------------------------
(* Messages the mailbox would still return, now or in the running poll.    *)
Reachable(m) == m \in Since(lastSeen) \/ \E i \in DOMAIN batch : batch[i] = m

(* No matching message is passed over silently, also when the subscription *)
(* is removed and published again while messages arrive: one that arrived  *)
(* was fired, or a poll will still return it, or its dispatch failed and   *)
(* was logged.  In particular one that arrives while a batch is handled,   *)
(* or with the same time as the newest one dispatched, is not lost.        *)
NothingOverlooked ==
  \A m \in Matching :
    received[m] # 0 => fired[m] > 0 \/ Reachable(m) \/ m \in failed
=============================================================================
