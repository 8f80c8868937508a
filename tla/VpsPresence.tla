------------------------------ MODULE VpsPresence ------------------------------
(***************************************************************************)
(* One role of the durable object VpsPresence (realtime/src/index.js) and   *)
(* the channel of the agent that feeds it (vps/realtime_client.py).  The     *)
(* channel numbers its messages over all its connections; the object drops   *)
(* what it has seen by that number, is evicted from memory between events,   *)
(* and keeps an attachment with every socket.  A replaced socket goes on     *)
(* delivering, and being listed, until its close is complete.                *)
(***************************************************************************)
EXTENDS Integers, Sequences, FiniteSets

CONSTANTS
    MaxSockets,  \* bound: connections ever made
    MaxBoots,    \* bound: channel objects (process starts, changes of the URL)
    MaxSeq       \* bound: messages of one channel object

ASSUME PresenceAssumption ==
    MaxSockets \in Nat \ {0} /\ MaxBoots \in Nat \ {0} /\ MaxSeq \in Nat \ {0}

VARIABLES
    agent,     \* RealtimeChannel: boot_id, seq, _socket, connected
    wire,      \* messages on their way over each connection
    ws,        \* the sockets of the object; getWebSockets lists "open" and "closing"
    joining,   \* /ws handlers that wait for the hub
    att,       \* attachment of each socket: bootId, lastSeq, state
    mem,       \* the fields of the object: bootId, lastSeq, snapshot
    stored,    \* storage key "state"
    shown,     \* what the dashboards were given last
    accepted   \* ghost: newest message that was not dropped

vars == <<agent, wire, ws, joining, att, mem, stored, shown, accepted>>

Sockets == 1..MaxSockets
Stamps == Nat   \* 0: no status yet
Stamp(m) == m.boot * (MaxSeq + 1) + m.seq
Message == [boot : 1..MaxBoots, seq : 1..MaxSeq, type : {"hello", "status", "config.result"}]

Attachment == [boot : 0..MaxBoots, last : -1..MaxSeq, state : Stamps]   \* boot 0: none
Fields == [boot : 0..MaxBoots, last : -1..MaxSeq, state : Stamps, connected : BOOLEAN]

TypeOK ==
    /\ agent \in [boot : 1..MaxBoots, seq : 0..MaxSeq, sock : Sockets \cup {0}, online : BOOLEAN]
    /\ wire \in [Sockets -> Seq(Message)]
    /\ ws \in [Sockets -> {"unused", "open", "closing", "gone"}]
    /\ joining \subseteq Sockets
    /\ att \in [Sockets -> Attachment]
    /\ mem \in Fields /\ stored \in Fields
    /\ shown \in [state : Stamps, connected : BOOLEAN]
    /\ accepted \in Stamps

NewAttachment == [boot |-> 0, last |-> -1, state |-> 0]
NewFields == [boot |-> 0, last |-> -1, state |-> 0, connected |-> FALSE]

Init ==
    /\ agent = [boot |-> 1, seq |-> 0, sock |-> 0, online |-> FALSE]
    /\ wire = [c \in Sockets |-> <<>>]
    /\ ws = [c \in Sockets |-> "unused"]
    /\ joining = {}
    /\ att = [c \in Sockets |-> NewAttachment]
    /\ mem = NewFields /\ stored = NewFields
    /\ shown = [state |-> 0, connected |-> FALSE]
    /\ accepted = 0

Listed == {c \in Sockets : ws[c] \in {"open", "closing"}}

\* syncFromSockets takes the first socket that is listed; a closing one may be.
Synced(s, sockets, a) ==
    IF sockets = {} THEN {[s EXCEPT !.connected = FALSE]}
    ELSE {[boot |-> IF a[c].boot # 0 THEN a[c].boot ELSE s.boot,
           last |-> a[c].last,
           state |-> IF a[c].state # 0 THEN a[c].state ELSE s.state,
           connected |-> TRUE] : c \in sockets}

\* publicSnapshot, to the hub and from there to the dashboards.
Publish(s, sockets, a) ==
    \E v \in Synced(s, sockets, a) :
      /\ mem' = v
      /\ shown' = [state |-> v.state, connected |-> v.connected]

\* broadcast: only while a dashboard is active and, for a status, not too often.
Broadcast(s, sockets, a) ==
    \/ mem' = s /\ UNCHANGED shown
    \/ Publish(s, sockets, a)

-----------------------------------------------------------------------------
(* The channel *)

\* A connection reaches /ws: what is there is closed, and the handler asks the hub.
Accept(c) ==
    /\ agent.sock = 0 /\ agent.seq < MaxSeq
    /\ ws[c] = "unused" /\ \A d \in 1..c - 1 : ws[d] # "unused"
    /\ ws' = [d \in Sockets |-> IF d = c THEN "open" ELSE IF ws[d] = "open" THEN "closing" ELSE ws[d]]
    /\ att' = [att EXCEPT ![c] = NewAttachment]
    /\ agent' = [agent EXCEPT !.sock = c]
    /\ joining' = joining \cup {c}
    /\ UNCHANGED <<wire, mem, stored, shown, accepted>>

\* Mutant: the message is numbered before the counter grows.
JoinUncounted(c) ==
    /\ c \in joining
    /\ joining' = joining \ {c}
    /\ Broadcast([mem EXCEPT !.connected = TRUE], Listed, att)
    /\ IF agent.sock = c
       THEN /\ agent' = [agent EXCEPT !.online = TRUE, !.seq = @ + 1]
            /\ wire' = [wire EXCEPT ![c] = Append(@, [boot |-> agent.boot, seq |-> agent.seq, type |-> "hello"])]
       ELSE UNCHANGED <<agent, wire>>
    /\ UNCHANGED <<ws, att, stored, accepted>>

\* Then the client is connected, if it has not given up, and says hello.
Join(c) ==
    /\ c \in joining
    /\ joining' = joining \ {c}
    /\ Broadcast([mem EXCEPT !.connected = TRUE], Listed, att)
    /\ IF agent.sock = c
       THEN /\ agent' = [agent EXCEPT !.online = TRUE, !.seq = @ + 1]
            /\ wire' = [wire EXCEPT ![c] = Append(@, [boot |-> agent.boot, seq |-> agent.seq + 1, type |-> "hello"])]
       ELSE UNCHANGED <<agent, wire>>
    /\ UNCHANGED <<ws, att, stored, accepted>>

\* send
Send(type) ==
    /\ agent.online /\ agent.seq < MaxSeq
    /\ agent' = [agent EXCEPT !.seq = @ + 1]
    /\ wire' = [wire EXCEPT ![agent.sock] = Append(@, [boot |-> agent.boot, seq |-> agent.seq + 1, type |-> type])]
    /\ UNCHANGED <<ws, joining, att, mem, stored, shown, accepted>>

\* The connection ends for the client: an error, a timeout, a close.
Disconnect ==
    /\ agent.sock # 0
    /\ agent' = [agent EXCEPT !.sock = 0, !.online = FALSE]
    /\ UNCHANGED <<wire, ws, joining, att, mem, stored, shown, accepted>>

\* Another channel object, with an identifier of its own.
NewChannel ==
    /\ agent.boot < MaxBoots
    /\ agent' = [boot |-> agent.boot + 1, seq |-> 0, sock |-> 0, online |-> FALSE]
    /\ UNCHANGED <<wire, ws, joining, att, mem, stored, shown, accepted>>

-----------------------------------------------------------------------------
(* The durable object *)

\* Mutant: numbers are compared whatever channel object they come from.
DuplicateOfAny(c, m) == m.seq <= mem.last \/ m.seq <= att[c].last

Duplicate(c, m) ==
    \/ mem.boot = m.boot /\ m.seq <= mem.last
    \/ m.seq <= (IF att[c].boot = m.boot THEN att[c].last ELSE -1)

\* webSocketMessage, with the persisting and broadcasting of each type.
Receive(c) ==
    LET m == Head(wire[c])
        s == [mem EXCEPT !.boot = m.boot, !.last = m.seq]
        status == [s EXCEPT !.state = Stamp(m), !.connected = TRUE]
        tagged == [att EXCEPT ![c].boot = m.boot, ![c].last = m.seq]
    IN
    /\ c \in Listed /\ wire[c] # <<>>
    /\ wire' = [wire EXCEPT ![c] = Tail(@)]
    /\ IF Duplicate(c, m) THEN UNCHANGED <<att, mem, stored, shown, accepted>>
       ELSE /\ accepted' = IF Stamp(m) > accepted THEN Stamp(m) ELSE accepted
            /\ \/ /\ m.type = "hello"
                  /\ att' = tagged /\ mem' = s
                  /\ UNCHANGED <<stored, shown>>
               \/ /\ m.type = "config.result"
                  /\ att' = tagged /\ stored' = s
                  /\ Broadcast(s, Listed, att')
               \/ /\ m.type = "status"
                  /\ att' = [tagged EXCEPT ![c].state = Stamp(m)]
                  /\ stored' \in {stored, status}   \* at most once a minute
                  /\ Broadcast(status, Listed, att')
    /\ UNCHANGED <<agent, ws, joining>>

\* Mutant: the close of a socket is not acted upon, and the socket stays listed.
CloseIgnored(c) ==
    /\ c \in Listed /\ agent.sock # c /\ ws[c] = "open"
    /\ ws' = [ws EXCEPT ![c] = "closing"]
    /\ UNCHANGED <<agent, wire, joining, att, mem, stored, shown, accepted>>

\* webSocketClose and webSocketError: what has not arrived by now is lost.
Close(c) ==
    /\ c \in Listed /\ agent.sock # c
    /\ ws' = [ws EXCEPT ![c] = "gone"]
    /\ wire' = [wire EXCEPT ![c] = <<>>]
    /\ IF Listed \ {c} = {}
       THEN LET s == [mem EXCEPT !.connected = FALSE] IN stored' = s /\ Broadcast(s, {}, att)
       ELSE UNCHANGED <<mem, stored, shown>>
    /\ UNCHANGED <<agent, joining, att, accepted>>

\* A dashboard asks for a snapshot.
Snapshot ==
    /\ Publish(mem, Listed, att)
    /\ UNCHANGED <<agent, wire, ws, joining, att, stored, accepted>>

\* The object leaves memory; the constructor reads the storage.
Evict ==
    /\ joining = {}
    /\ mem' = stored
    /\ UNCHANGED <<agent, wire, ws, joining, att, stored, shown, accepted>>

Next ==
    \/ \E c \in Sockets : Accept(c) \/ Join(c) \/ Receive(c) \/ Close(c)
    \/ \E type \in {"status", "config.result"} : Send(type)
    \/ Disconnect \/ NewChannel \/ Snapshot \/ Evict

Spec == Init /\ [][Next]_vars

\* Handlers run, what is sent arrives or its connection ends, a closed socket
\* is noticed, and a dashboard that is open asks again.
Fairness ==
    /\ WF_vars(Snapshot)
    /\ \A c \in Sockets : WF_vars(Join(c)) /\ WF_vars(Receive(c)) /\ WF_vars(Close(c))

FairSpec == Spec /\ Fairness

-----------------------------------------------------------------------------

\* A message newer than all that were accepted is never taken for a duplicate,
\* over reconnects, restarts of the agent and evictions of the object.
NothingFreshDropped ==
    \A c \in Listed : wire[c] # <<>> /\ Duplicate(c, Head(wire[c])) => Stamp(Head(wire[c])) <= accepted

\* Late messages of replaced sockets, their closes and evictions have no lasting
\* effect: in the end the dashboards show whether the agent is connected, and
\* the last status its connection has delivered.
Converges == <>[](
    /\ shown.connected = (agent.sock # 0)
    /\ agent.sock # 0 /\ att[agent.sock].state # 0 => shown.state = att[agent.sock].state )

=============================================================================
