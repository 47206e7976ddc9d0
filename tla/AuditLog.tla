------------------------------ MODULE AuditLog ------------------------------
(***************************************************************************)
(* The audit log (services/audit): the replicas of one consumer group read   *)
(* events from the bus, insert them into an append-only table whose trigger *)
(* chains each row to the latest one of its tenant, and commit their         *)
(* offsets; verify walks the table in the order of time. One tenant.         *)
(***************************************************************************)
EXTENDS Naturals, Sequences, SequencesExt

CONSTANTS
    Consumers,     \* the replicas, each with a partition of the topic
    Topics,        \* what may be on them: the times of the events of each
    Times,
    MaxKills

VARIABLES
    topic,         \* of each partition, the times of its events
    stage,         \* of consumeLoop: "poll", "insert", "trigger" or "commit"
    offset,        \* committed by the group, per partition
    polled, record, \* the last event of the batch in hand and the one at work
    saw,           \* the row that the trigger of the insert under way saw
    rows,          \* the table, in the order of (occurred_at, id)
    dropped,       \* events passed over: a fetch error, a failed insert
    serial,        \* each insert ended behind the row its trigger saw
    kills

audit == <<topic, stage, offset, polled, record, saw, rows, dropped, serial, kills>>

(* A row: its event, when it occurred, its number in the order of commits   *)
(* and the number of the row its prev_hash is the hash of, 0 for the zeros. *)
(* A number is as good as a hash, which covers the row and its prev_hash.   *)
Row == [by : Consumers, event : Nat, at : Times, nth : Nat, prev : Nat]

Init ==
    /\ topic \in Topics
    /\ stage = [c \in Consumers |-> "poll"]
    /\ offset = [c \in Consumers |-> 0] /\ polled = offset /\ record = offset
    /\ saw = [c \in Consumers |-> 0]
    /\ rows = <<>> /\ dropped = {} /\ serial = TRUE /\ kills = 0

(* PollFetches: some of what is there. A poll with an error in it is passed *)
(* over with all its records, and the next commit covers them.              *)
Poll(c) ==
    /\ stage[c] = "poll" /\ polled[c] < Len(topic[c])
    /\ \E n \in (polled[c] + 1)..Len(topic[c]) :
         /\ polled' = [polled EXCEPT ![c] = n]
         /\ \/ /\ stage' = [stage EXCEPT ![c] = "insert"]
               /\ record' = [record EXCEPT ![c] = polled[c] + 1]
               /\ UNCHANGED dropped
            \/ /\ dropped' = dropped \cup ({c} \X ((polled[c] + 1)..n))
               /\ UNCHANGED <<stage, record>>
    /\ UNCHANGED <<topic, offset, saw, rows, serial, kills>>

(* audit_event_chain: the hash of the latest row that is committed, read    *)
(* when the insert begins and without a lock.                               *)
Latest == IF rows = <<>> THEN 0 ELSE Last(rows).nth

Trigger(c) ==
    /\ stage[c] = "insert"
    /\ stage' = [stage EXCEPT ![c] = "trigger"]
    /\ saw' = [saw EXCEPT ![c] = Latest]
    /\ UNCHANGED <<topic, offset, polled, record, rows, dropped, serial, kills>>

(* On to the next record of the batch, or to the commit of the offsets.     *)
Onward(c) ==
    /\ record' = [record EXCEPT ![c] = @ + 1]
    /\ stage' = [stage EXCEPT ![c] = IF record[c] < polled[c] THEN "insert" ELSE "commit"]
    /\ saw' = [saw EXCEPT ![c] = 0]

(* The insert ends: its row stands behind those of its time or before, in   *)
(* any place among those of the same time, for its id is random.            *)
Insert(c) ==
    /\ stage[c] = "trigger"
    /\ LET time == topic[c][record[c]]
           row  == [by |-> c, event |-> record[c], at |-> time, nth |-> Len(rows) + 1,
                    prev |-> saw[c]]
       IN  \E i \in 1..(Len(rows) + 1) :
             /\ \A j \in DOMAIN rows : /\ j < i => rows[j].at <= time
                                       /\ j >= i => rows[j].at >= time
             /\ rows' = InsertAt(rows, i, row)
             /\ serial' = (serial /\ i = Len(rows) + 1 /\ saw[c] = Latest)
    /\ Onward(c)
    /\ UNCHANGED <<topic, offset, polled, dropped, kills>>

(* "insert audit: ...", and the loop goes on. *)
InsertFails(c) ==
    /\ stage[c] = "trigger"
    /\ dropped' = dropped \cup {<<c, record[c]>>}
    /\ Onward(c)
    /\ UNCHANGED <<topic, offset, polled, rows, serial, kills>>

(* CommitUncommittedOffsets, which may fail; the next one makes up for it.  *)
Commit(c) ==
    /\ stage[c] = "commit"
    /\ offset' \in {offset, [offset EXCEPT ![c] = polled[c]]}
    /\ stage' = [stage EXCEPT ![c] = "poll"]
    /\ UNCHANGED <<topic, polled, record, saw, rows, dropped, serial, kills>>

(* A replica dies at any point; the group goes on from its offset.          *)
Resumes(c)       == offset[c]

Kill(c) ==
    /\ kills < MaxKills
    /\ kills' = kills + 1
    /\ stage' = [stage EXCEPT ![c] = "poll"] /\ saw' = [saw EXCEPT ![c] = 0]
    /\ polled' = [polled EXCEPT ![c] = Resumes(c)]
    /\ record' = [record EXCEPT ![c] = 0]
    /\ UNCHANGED <<topic, offset, rows, dropped, serial>>

Next ==
    \E c \in Consumers :
        Poll(c) \/ Trigger(c) \/ Insert(c) \/ InsertFails(c) \/ Commit(c) \/ Kill(c)

Spec == Init /\ [][Next]_audit

-----------------------------------------------------------------------------
TypeOK ==
    /\ topic \in [Consumers -> Seq(Times)]
    /\ stage \in [Consumers -> {"poll", "insert", "trigger", "commit"}]
    /\ offset \in [Consumers -> Nat] /\ polled \in [Consumers -> Nat]
    /\ \A c \in Consumers : offset[c] <= polled[c] /\ polled[c] <= Len(topic[c])
    /\ record \in [Consumers -> Nat] /\ saw \in [Consumers -> Nat]
    /\ \A i \in DOMAIN rows : rows[i] \in Row
    /\ dropped \subseteq Consumers \X Nat
    /\ serial \in BOOLEAN /\ kills \in 0..MaxKills

(* verifyAuditChain: in the order of (occurred_at, id), each prev_hash is   *)
(* the hash before it.                                                      *)
ChainIsValid ==
    \A i \in DOMAIN rows : rows[i].prev = (IF i = 1 THEN 0 ELSE rows[i - 1].nth)

(* Nothing behind the offset of the group is missing but what was dropped   *)
(* with a line in the log of the process, whatever dies between a poll, an  *)
(* insert and a commit (consumeLoop). And the verdict of verify is exact    *)
(* about how the rows came in: the chain is valid if and only if each insert*)
(* ended behind the row its trigger had seen. One event that arrives late,  *)
(* one redelivery after another row, or two replicas inserting at once make *)
(* it report an invalid chain for good, though nobody touched a row.        *)
TrailSound ==
    /\ \A c \in Consumers : \A e \in 1..offset[c] :
         <<c, e>> \in dropped \/ \E i \in DOMAIN rows : rows[i].by = c /\ rows[i].event = e
    /\ ChainIsValid <=> serial
=============================================================================
