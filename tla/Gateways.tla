------------------------------ MODULE Gateways ------------------------------
(***************************************************************************)
(* Calls through the gateways in front of tools, agents and packages       *)
(* (services/mcp-gateway, a2a-gateway, skill-gateway): the gates a call     *)
(* passes, the identity it is signed with, and the relay of its answer.     *)
(* The signing keys and the relay of the first two are the same code twice; *)
(* one copy of it is modelled.                                              *)
(***************************************************************************)
EXTENDS Naturals, Sequences

CONSTANTS
    Calls,
    Limit,         \* calls a window lets through
    BufferSize,    \* of the relay
    Length,        \* the events an upstream has to say
    MaxWindows, MaxRotations

VARIABLES
    door,          \* the route of each call, "none" before it arrives
    gate,          \* how many gates it has passed
    pc,            \* "gates", "signed", "relay" and, at the end, its outcome
    kid,           \* the key its identity is signed with, 0 for none
    count,         \* of this window's calls
    through,       \* those of them that were let pass by that count
    window,
    current, previous,    \* the numbers of the signing keys
    secret,        \* the calls for which a credential was fetched
    relay          \* of each call: events read, buffered and written

gateways == <<door, gate, pc, kid, count, through, window, current, previous,
              secret, relay>>

-----------------------------------------------------------------------------
(* The gates of each route, in the order of its handler.                   *)
MCPGates      == <<"limit", "asset", "allowlist", "policy", "budget", "endpoint">>
OutboundGates == <<"limit", "asset", "allowlist", "policy", "budget", "endpoint">>
InboundGates  == <<"limit", "partner", "asset", "policy", "endpoint">>
Entry         == <<"token", "limit", "scope">>
DownloadGates == Entry \o <<"asset", "package">>
ProxyGates    == Entry \o <<"asset", "transport">>
AgentGates    == Entry \o <<"asset", "endpoint">>

Gates == [mcp |-> MCPGates, outbound |-> OutboundGates, inbound |-> InboundGates,
          download |-> DownloadGates, proxy |-> ProxyGates, agent |-> AgentGates]

Signed   == {"mcp", "outbound", "inbound"}
Brokered == {"mcp", "outbound"}

At(k, g) == /\ pc[k] = "gates" /\ gate[k] < Len(Gates[door[k]])
            /\ Gates[door[k]][gate[k] + 1] = g

Idle == [read |-> 0, ch |-> <<>>, eof |-> FALSE, out |-> <<>>]

Init ==
    /\ door = [k \in Calls |-> "none"] /\ gate = [k \in Calls |-> 0]
    /\ pc = [k \in Calls |-> "none"] /\ kid = [k \in Calls |-> 0]
    /\ count = 0 /\ through = 0 /\ window = 1
    /\ current = 1 /\ previous = 0
    /\ secret = {}
    /\ relay = [k \in Calls |-> Idle]

Arrive(k, d) ==
    /\ pc[k] = "none"
    /\ door' = [door EXCEPT ![k] = d] /\ pc' = [pc EXCEPT ![k] = "gates"]
    /\ UNCHANGED <<gate, kid, count, through, window, current, previous, secret, relay>>

(* A gate lets the call go on or ends it, and with it what it was about.   *)
Ends(k, outcome) == /\ pc' = [pc EXCEPT ![k] = outcome]
                    /\ door' = [door EXCEPT ![k] = "none"]
                    /\ gate' = [gate EXCEPT ![k] = 0]

Goes(k, passes) ==
    \/ passes /\ gate' = [gate EXCEPT ![k] = @ + 1] /\ UNCHANGED <<pc, door>>
    \/ ~passes /\ Ends(k, "denied")

(* RateLimiter.Allow: one INCR of the counter of the window; when Redis    *)
(* cannot be reached or its answer is not read, the call goes on.          *)
Full(n) == n > Limit

Allow(k) ==
    /\ At(k, "limit")
    /\ count' = count + 1
    /\ through' = IF Full(count + 1) THEN through ELSE through + 1
    /\ Goes(k, ~Full(count + 1))
    /\ UNCHANGED <<kid, window, current, previous, secret, relay>>

FailOpen(k) ==
    /\ At(k, "limit")
    /\ count' \in {count, count + 1}
    /\ Goes(k, TRUE)
    /\ UNCHANGED <<kid, through, window, current, previous, secret, relay>>

(* Truncate(window) names the next counter.                                *)
NextWindow ==
    /\ window < MaxWindows
    /\ window' = window + 1 /\ count' = 0 /\ through' = 0
    /\ UNCHANGED <<door, gate, pc, kid, current, previous, secret, relay>>

(* Every other gate asks a service; a policy engine that does not answer   *)
(* denies, a budget service that does not answer allows.                    *)
Ask(k) ==
    /\ \E g \in {"asset", "allowlist", "policy", "budget", "endpoint", "partner",
                 "token", "scope", "package", "transport"} : At(k, g)
    /\ \E passes \in BOOLEAN : Goes(k, passes)
    /\ UNCHANGED <<kid, count, through, window, current, previous, secret, relay>>

-----------------------------------------------------------------------------
(* Sign, with the key of the moment, after the last gate.                  *)
Through(k) == pc[k] = "gates" /\ gate[k] = Len(Gates[door[k]])

Sign(k) ==
    /\ Through(k) /\ door[k] \in Signed
    /\ kid' = [kid EXCEPT ![k] = current]
    /\ pc' = [pc EXCEPT ![k] = "signed"]
    /\ UNCHANGED <<door, gate, count, through, window, current, previous, secret, relay>>

(* Rotate, on its ticker: the key before the last one is forgotten.        *)
Rotate_Forgets == current' = current + 1 /\ previous' = 0
Shift          == current' = current + 1 /\ previous' = current

Rotate ==
    /\ current <= MaxRotations
    /\ Shift
    /\ UNCHANGED <<door, gate, pc, kid, count, through, window, secret, relay>>

JWKS == {current, previous} \ {0}

(* The credential of an external asset is fetched at the last moment.      *)
Fetch(k) ==
    /\ pc[k] = "signed" /\ door[k] \in Brokered /\ k \notin secret
    /\ secret' = secret \cup {k}
    /\ UNCHANGED <<door, gate, pc, kid, count, through, window, current, previous, relay>>

FetchFails(k) ==
    /\ pc[k] = "signed" /\ door[k] \in Brokered /\ k \notin secret
    /\ Ends(k, "denied") /\ kid' = [kid EXCEPT ![k] = 0]
    /\ UNCHANGED <<count, through, window, current, previous, secret, relay>>

(* Forward: the upstream is called; it answers with a stream of events.    *)
Forward(k) ==
    /\ pc[k] = "signed"
    /\ pc' = [pc EXCEPT ![k] = "relay"]
    /\ UNCHANGED <<door, gate, kid, count, through, window, current, previous, secret, relay>>

(* Any other answer, or none, ends the call; so do the routes of the skill *)
(* gateway, which copy the answer in one go.                                *)
Answer(k) ==
    /\ pc[k] = "signed" \/ (Through(k) /\ door[k] \notin Signed)
    /\ \E outcome \in {"ok", "error"} : Ends(k, outcome)
    /\ kid' = [kid EXCEPT ![k] = 0]
    /\ UNCHANGED <<count, through, window, current, previous, secret, relay>>

-----------------------------------------------------------------------------
(* streamSSE.  The reader waits for room in the channel.                   *)
Room(r) == Len(r.ch) < BufferSize

(* A send that does not wait for room drops the event it has no room for.  *)
Push(r) == IF Len(r.ch) < BufferSize THEN Append(r.ch, r.read + 1) ELSE r.ch

Read(k) ==
    /\ pc[k] = "relay" /\ ~relay[k].eof /\ relay[k].read < Length
    /\ Room(relay[k])
    /\ relay' = [relay EXCEPT ![k].read = @ + 1, ![k].ch = Push(relay[k])]
    /\ UNCHANGED <<door, gate, pc, kid, count, through, window, current, previous, secret>>

(* The upstream is done; an event it began and did not end is dropped.     *)
EndOfStream(k) ==
    /\ pc[k] = "relay" /\ ~relay[k].eof /\ relay[k].read = Length
    /\ relay' = [relay EXCEPT ![k].eof = TRUE]
    /\ UNCHANGED <<door, gate, pc, kid, count, through, window, current, previous, secret>>

(* The writer flushes one event at a time ...                              *)
Write(k) ==
    /\ pc[k] = "relay" /\ relay[k].ch # <<>>
    /\ relay' = [relay EXCEPT ![k].out = Append(@, Head(relay[k].ch)),
                              ![k].ch = Tail(@)]
    /\ UNCHANGED <<door, gate, pc, kid, count, through, window, current, previous, secret>>

(* ... until the channel is closed and empty ...                           *)
Drained(k) ==
    /\ pc[k] = "relay" /\ relay[k].eof /\ relay[k].ch = <<>>
    /\ Ends(k, "ok") /\ kid' = [kid EXCEPT ![k] = 0]
    /\ UNCHANGED <<count, through, window, current, previous, secret, relay>>

(* ... or the caller leaves, or either connection breaks.                  *)
Break(k) ==
    /\ pc[k] = "relay"
    /\ Ends(k, "error") /\ kid' = [kid EXCEPT ![k] = 0]
    /\ UNCHANGED <<count, through, window, current, previous, secret, relay>>

Next ==
    \/ \E k \in Calls :
          \/ \E d \in DOMAIN Gates : Arrive(k, d)
          \/ Allow(k) \/ FailOpen(k) \/ Ask(k)
          \/ Sign(k) \/ Fetch(k) \/ FetchFails(k) \/ Forward(k) \/ Answer(k)
          \/ Read(k) \/ EndOfStream(k) \/ Write(k) \/ Drained(k) \/ Break(k)
    \/ NextWindow \/ Rotate

-----------------------------------------------------------------------------
TypeOK ==
    /\ door \in [Calls -> DOMAIN Gates \cup {"none"}]
    /\ pc \in [Calls -> {"none", "gates", "signed", "relay", "denied", "ok", "error"}]
    /\ kid \in [Calls -> 0 .. current]
    /\ previous < current

Numbers(n) == [i \in 1 .. n |-> i]

(* A window lets no more calls through than its limit, whatever order they *)
(* are counted in (Allow); a signature can be verified until the second    *)
(* rotation after it was made (Rotate, JWKS); no credential is fetched for  *)
(* a call that is denied (Fetch); the caller gets the events in order,      *)
(* without a gap, and all of them when the stream ends well (streamSSE).    *)
GatewaysSound ==
    /\ through <= Limit
    /\ \A k \in Calls : kid[k] # 0 /\ current <= kid[k] + 1 => kid[k] \in JWKS
    /\ \A k \in secret : pc[k] # "denied"
    /\ \A k \in Calls :
          /\ relay[k].out \o relay[k].ch = Numbers(relay[k].read)
          /\ pc[k] = "ok" /\ relay[k].eof => relay[k].out = Numbers(Length)
=============================================================================
