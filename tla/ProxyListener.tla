---------------------------- MODULE ProxyListener ----------------------------
(***************************************************************************)
(* The SOCKS/HTTP listeners of vps/proxy_server.py: one object per use of a *)
(* slot, started and stopped by its owner, a thread that accepts, a thread  *)
(* per client, and the connection limit all listeners share.                *)
(*                                                                          *)
(* What a client says (SOCKS5 or HTTP, credentials, target) is abstracted   *)
(* to the outcome of its negotiation: refused, relayed or a UDP association.*)
(***************************************************************************)
EXTENDS Naturals, FiniteSets

CONSTANTS
    Listeners,       \* ProxyListener objects
    Conns,           \* identities of client connections, used again
    None,
    MaxConnections,  \* of the semaphore CONNECTION_SLOTS
    Faults           \* subset of {"slow", "bind", "thread", "join"}

ListenerAssumption ==
    /\ MaxConnections \in Nat
    /\ IsFiniteSet(Conns)
    /\ None \notin Listeners \cup Conns

VARIABLES
    owner,     \* who calls start() and stop()
    flag,      \* _stop
    ready,     \* the ready event
    started,   \* _started and _startup_error
    thread,    \* serve_forever, with the client it is about to hand over
    open,      \* the server sockets are open
    servers,   \* the sockets are in _servers
    tracked,   \* _clients
    conn,      \* client connections
    free       \* permits of CONNECTION_SLOTS

vars == <<owner, flag, ready, started, thread, open, servers, tracked, conn, free>>

\* slot: holds a permit. shut: closed by stop().
ConnRec == [pc : {"idle", "accepted", "run", "relay", "udp", "end", "close"},
            lis : Listeners \cup {None}, slot : BOOLEAN, shut : BOOLEAN]

TypeOK ==
    /\ owner \in [Listeners -> {"new", "waiting", "up", "failed", "stop", "clients", "join", "stopped"}]
    /\ flag \in [Listeners -> BOOLEAN]
    /\ ready \in [Listeners -> BOOLEAN]
    /\ started \in [Listeners -> {"no", "ok", "error"}]
    /\ thread \in [Listeners ->
         [pc : {"none", "spawned", "bound", "published", "serve", "select", "accepted", "acquired",
                "tracked", "closing", "ended"}, conn : Conns \cup {None}]]
    /\ open \in [Listeners -> BOOLEAN]
    /\ servers \in [Listeners -> BOOLEAN]
    /\ tracked \in [Listeners -> SUBSET Conns]
    /\ conn \in [Conns -> ConnRec]
    /\ free \in 0..MaxConnections

NoConn == [pc |-> "idle", lis |-> None, slot |-> FALSE, shut |-> FALSE]

Init ==
    /\ owner = [l \in Listeners |-> "new"]
    /\ flag = [l \in Listeners |-> FALSE]
    /\ ready = [l \in Listeners |-> FALSE]
    /\ started = [l \in Listeners |-> "no"]
    /\ thread = [l \in Listeners |-> [pc |-> "none", conn |-> None]]
    /\ open = [l \in Listeners |-> FALSE]
    /\ servers = [l \in Listeners |-> FALSE]
    /\ tracked = [l \in Listeners |-> {}]
    /\ conn = [c \in Conns |-> NoConn]
    /\ free = MaxConnections

At(l, pc) == thread[l].pc = pc
GoTo(l, pc) == thread' = [thread EXCEPT ![l].pc = pc]

-----------------------------------------------------------------------------
(* start() and stop() *)

Start(l) ==
    /\ owner[l] = "new"
    /\ owner' = [owner EXCEPT ![l] = "waiting"]
    /\ GoTo(l, "spawned")
    /\ UNCHANGED <<flag, ready, started, open, servers, tracked, conn, free>>

\* The thread announced itself, or did not within the timeout.
StartReturns(l) ==
    /\ owner[l] = "waiting"
    /\ started[l] # "no" \/ "slow" \in Faults
    /\ owner' = [owner EXCEPT ![l] = IF started[l] = "ok" THEN "up" ELSE "failed"]
    /\ UNCHANGED <<flag, ready, started, thread, open, servers, tracked, conn, free>>

Stop(l) ==
    /\ owner[l] \in {"up", "failed"}
    /\ flag' = [flag EXCEPT ![l] = TRUE]
    /\ ready' = [ready EXCEPT ![l] = FALSE]
    /\ owner' = [owner EXCEPT ![l] = "stop"]
    /\ UNCHANGED <<started, thread, open, servers, tracked, conn, free>>

\* Mutant: sockets the thread still listens on are left to it.
StopKeepsSockets(l) ==
    /\ owner[l] = "stop"
    /\ servers' = [servers EXCEPT ![l] = FALSE]
    /\ owner' = [owner EXCEPT ![l] = "clients"]
    /\ UNCHANGED <<flag, ready, started, thread, open, tracked, conn, free>>

\* Sockets that are in _servers are closed, and the list is emptied.
StopSockets(l) ==
    /\ owner[l] = "stop"
    /\ open' = [open EXCEPT ![l] = @ /\ ~servers[l]]
    /\ servers' = [servers EXCEPT ![l] = FALSE]
    /\ owner' = [owner EXCEPT ![l] = "clients"]
    /\ UNCHANGED <<flag, ready, started, thread, tracked, conn, free>>

\* The tracked clients are taken, then shut down and closed.
StopClients(l) ==
    /\ owner[l] = "clients"
    /\ conn' = [c \in Conns |-> IF c \in tracked[l] THEN [conn[c] EXCEPT !.shut = TRUE] ELSE conn[c]]
    /\ tracked' = [tracked EXCEPT ![l] = {}]
    /\ owner' = [owner EXCEPT ![l] = "join"]
    /\ UNCHANGED <<flag, ready, started, thread, open, servers, free>>

StopReturns(l) ==
    /\ owner[l] = "join"
    /\ At(l, "ended") \/ "join" \in Faults
    /\ owner' = [owner EXCEPT ![l] = "stopped"]
    /\ UNCHANGED <<flag, ready, started, thread, open, servers, tracked, conn, free>>

-----------------------------------------------------------------------------
(* serve_forever *)

Bind(l) ==
    /\ At(l, "spawned")
    /\ open' = [open EXCEPT ![l] = TRUE]
    /\ GoTo(l, "bound")
    /\ UNCHANGED <<owner, flag, ready, started, servers, tracked, conn, free>>

BindFails(l) ==
    /\ "bind" \in Faults
    /\ At(l, "spawned")
    /\ started' = [started EXCEPT ![l] = "error"]
    /\ GoTo(l, "closing")
    /\ UNCHANGED <<owner, flag, ready, open, servers, tracked, conn, free>>

Publish(l) ==
    /\ At(l, "bound")
    /\ servers' = [servers EXCEPT ![l] = TRUE]
    /\ GoTo(l, "published")
    /\ UNCHANGED <<owner, flag, ready, started, open, tracked, conn, free>>

Announce(l) ==
    /\ At(l, "published")
    /\ ready' = [ready EXCEPT ![l] = TRUE]
    /\ started' = [started EXCEPT ![l] = "ok"]
    /\ GoTo(l, "serve")
    /\ UNCHANGED <<owner, flag, open, servers, tracked, conn, free>>

\* One round of the loop: a look at _stop, then select().
Look(l) ==
    /\ At(l, "serve") /\ ~flag[l]
    /\ GoTo(l, "select")
    /\ UNCHANGED <<owner, flag, ready, started, open, servers, tracked, conn, free>>

\* No (more) client in this round, or accept() fails on a closed socket.
NoClient(l) ==
    /\ At(l, "select")
    /\ GoTo(l, IF open[l] THEN "serve" ELSE "closing")
    /\ UNCHANGED <<owner, flag, ready, started, open, servers, tracked, conn, free>>

\* accept() on one of the readable sockets: the look at _stop may be out of date.
Accept(l) ==
    /\ At(l, "select") /\ open[l]
    /\ \E c \in Conns :
         /\ conn[c].pc = "idle"
         /\ conn' = [conn EXCEPT ![c].pc = "accepted", ![c].lis = l]
         /\ thread' = [thread EXCEPT ![l] = [pc |-> "accepted", conn |-> c]]
    /\ UNCHANGED <<owner, flag, ready, started, open, servers, tracked, free>>

Acquire(l) ==
    /\ At(l, "accepted") /\ free > 0
    /\ free' = free - 1
    /\ conn' = [conn EXCEPT ![thread[l].conn].slot = TRUE]
    /\ GoTo(l, "acquired")
    /\ UNCHANGED <<owner, flag, ready, started, open, servers, tracked>>

\* No permit: the client is closed.
TurnAway(l) ==
    /\ At(l, "accepted") /\ free = 0
    /\ conn' = [conn EXCEPT ![thread[l].conn] = NoConn]
    /\ thread' = [thread EXCEPT ![l] = [pc |-> "select", conn |-> None]]
    /\ UNCHANGED <<owner, flag, ready, started, open, servers, tracked, free>>

Track(l) ==
    /\ At(l, "acquired")
    /\ tracked' = [tracked EXCEPT ![l] = @ \cup {thread[l].conn}]
    /\ GoTo(l, "tracked")
    /\ UNCHANGED <<owner, flag, ready, started, open, servers, conn, free>>

HandOver(l) ==
    /\ At(l, "tracked")
    /\ conn' = [conn EXCEPT ![thread[l].conn].pc = "run"]
    /\ thread' = [thread EXCEPT ![l] = [pc |-> "select", conn |-> None]]
    /\ UNCHANGED <<owner, flag, ready, started, open, servers, tracked, free>>

\* No thread for the client: everything is given back.
HandOverFails(l) ==
    /\ "thread" \in Faults
    /\ At(l, "tracked")
    /\ tracked' = [tracked EXCEPT ![l] = @ \ {thread[l].conn}]
    /\ free' = free + 1
    /\ conn' = [conn EXCEPT ![thread[l].conn] = NoConn]
    /\ thread' = [thread EXCEPT ![l] = [pc |-> "select", conn |-> None]]
    /\ UNCHANGED <<owner, flag, ready, started, open, servers>>

LoopEnds(l) ==
    /\ At(l, "serve") /\ flag[l]
    /\ GoTo(l, "closing")
    /\ UNCHANGED <<owner, flag, ready, started, open, servers, tracked, conn, free>>

Close(l) ==
    /\ At(l, "closing")
    /\ ready' = [ready EXCEPT ![l] = FALSE]
    /\ open' = [open EXCEPT ![l] = FALSE]
    /\ servers' = [servers EXCEPT ![l] = FALSE]
    /\ GoTo(l, "ended")
    /\ UNCHANGED <<owner, flag, started, tracked, conn, free>>

-----------------------------------------------------------------------------
(* _proxy_client *)

ClientAt(c, pc) == conn[c].pc = pc
ClientTo(c, pcs) ==
    /\ \E pc \in pcs : conn' = [conn EXCEPT ![c].pc = pc]
    /\ UNCHANGED <<owner, flag, ready, started, thread, open, servers, tracked, free>>

\* Credentials, method and target decide; a read times out after 30 s.
Negotiate(c) == ClientAt(c, "run") /\ ClientTo(c, IF conn[c].shut THEN {"end"} ELSE {"relay", "udp", "end"})

\* A peer ends, nothing arrives for RELAY_IDLE_TIMEOUT, or stop() shut it.
RelayEnds(c) == ClientAt(c, "relay") /\ ClientTo(c, {"end"})

\* _udp_relay looks at _stop as well, every second.
UdpEnds(c) == ClientAt(c, "udp") /\ ClientTo(c, {"end"})

Discard(c) ==
    /\ ClientAt(c, "end")
    /\ tracked' = [tracked EXCEPT ![conn[c].lis] = @ \ {c}]
    /\ conn' = [conn EXCEPT ![c].pc = "close"]
    /\ UNCHANGED <<owner, flag, ready, started, thread, open, servers, free>>

Release(c) ==
    /\ ClientAt(c, "close")
    /\ free' = free + 1
    /\ conn' = [conn EXCEPT ![c] = NoConn]
    /\ UNCHANGED <<owner, flag, ready, started, thread, open, servers, tracked>>

Owner(l) == Start(l) \/ StartReturns(l) \/ Stop(l) \/ StopSockets(l) \/ StopClients(l) \/ StopReturns(l)
Serve(l) ==
    \/ Bind(l) \/ BindFails(l) \/ Publish(l) \/ Announce(l) \/ Look(l) \/ NoClient(l)
    \/ Accept(l) \/ Acquire(l) \/ TurnAway(l) \/ Track(l) \/ HandOver(l) \/ HandOverFails(l) \/ LoopEnds(l) \/ Close(l)
Client(c) == Negotiate(c) \/ RelayEnds(c) \/ UdpEnds(c) \/ Discard(c) \/ Release(c)

Next == (\E l \in Listeners : Owner(l) \/ Serve(l)) \/ (\E c \in Conns : Client(c))

Spec == Init /\ [][Next]_vars

-----------------------------------------------------------------------------

\* The shared connection limit is kept: a permit is free or held by one client,
\* whoever gives it back, the accepting thread, the client's or the one that
\* lost the race with stop() (proxy_server.py:531, 568, 578).
Holders == {c \in Conns : conn[c].slot}
PermitsConserved == free + Cardinality(Holders) = MaxConnections

\* Unless stop() is under way, ready means that the port is bound, also when
\* start() gave up on a slow thread (proxy_server.py:245, 554).
ReadyWhileBound ==
    \A l \in Listeners : (ready[l] /\ owner[l] \notin {"stop", "clients", "join"} /\ "join" \notin Faults)
                            => open[l]

\* stop() may miss the one client that is between accept() and the set of
\* clients, never a second one (proxy_server.py:264, 563, 573).
AtMostOneLate ==
    \A l \in Listeners : owner[l] \in {"join", "stopped"} =>
      Cardinality({c \in Conns : conn[c].lis = l /\ ~conn[c].shut
                     /\ conn[c].pc \in {"accepted", "run", "relay", "udp"}}) <= 1

\* The books of a listener are right at any moment of its start and its stop:
\* permits, readiness and the clients that are left.
ClientsAccounted == PermitsConserved /\ ReadyWhileBound /\ AtMostOneLate

=============================================================================
