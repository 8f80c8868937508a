----------------------------- MODULE LiteManager -----------------------------
(***************************************************************************)
(* vps/lite_manager.py, the single-exit proxy with a hot standby: two       *)
(* tunnels, of which one is the main one, a pool of VPNGate nodes, and the  *)
(* threads that share them: maintain_pool dials and swaps, one connect_node *)
(* thread per dial, health_check_loop kicks, update_config_loop switches    *)
(* country, vpngate_fetch_loop harvests.  OpenVPN processes end by          *)
(* themselves at any time.                                                  *)
(*                                                                          *)
(* The order of candidates (ping and penalties) is abstracted to any node   *)
(* the filters let through; the three failed probes in a row of the health  *)
(* check are one failure.                                                   *)
(***************************************************************************)
EXTENDS Naturals

CONSTANTS
    Nodes, Countries,
    Country,       \* [Nodes -> Countries]
    Tunnels,       \* tun_main and tun_backup: two objects
    First,         \* the one that starts as the main tunnel
    Procs,         \* identities of OpenVPN processes, used again when forgotten
    Dials,         \* identities of connect_node threads
    Anywhere,           \* the target country "ANY"
    None,
    Start,         \* the target countries to start with
    MaxSwitches,   \* bound on the switches of the controller
    Faults         \* subset of {"exit", "probe", "raise", "stale", "partial"}

LiteAssumption ==
    /\ Country \in [Nodes -> Countries]
    /\ First \in Tunnels /\ \E t \in Tunnels \ {First} : Tunnels = {First, t}
    /\ Anywhere \notin Countries /\ Start \subseteq Countries \cup {Anywhere}
    /\ None \notin Nodes \cup Tunnels \cup Procs
    /\ MaxSwitches \in Nat

VARIABLES
    tun,        \* the Tunnel objects
    main,       \* the global tun_main
    target,     \* target_country
    generation, \* config_generation
    dead,       \* dead_ips
    reservoir,  \* the keys of global_node_reservoir
    proc,       \* the OpenVPN processes
    dial,       \* the connect_node threads
    pool,       \* the maintain_pool thread
    health      \* the health_check_loop thread

vars == <<tun, main, target, generation, dead, reservoir, proc, dial, pool, health>>

\* node: that of the connection, kept only while the tunnel is ready.
TunnelRec == [process : Procs \cup {None}, node : Nodes \cup {None},
              entry : Nodes \cup {None}, ready : BOOLEAN, connecting : BOOLEAN]
DialRec   == [pc : {"idle", "start", "spawned", "wait", "inited", "probe", "ready", "finally"},
              tun : Tunnels \cup {None}, node : Nodes \cup {None},
              gen : 0..MaxSwitches, proc : Procs \cup {None}]
\* term: terminate() was sent, the process has not ended yet.
ProcRec   == [state : {"running", "term", "ended"}, dev : Tunnels \cup {None}]
PoolRec   == [pc : {"scan", "needs", "pick", "claim", "launch"},
              tun : Tunnels \cup {None}, node : Nodes \cup {None}]
HealthRec == [pc : {"sleep", "probe", "kicked"}, tun : Tunnels \cup {None},
              entry : Nodes \cup {None}, proc : Procs \cup {None}]

TypeOK ==
    /\ tun \in [Tunnels -> TunnelRec]
    /\ main \in Tunnels
    /\ target \in Countries \cup {Anywhere}
    /\ generation \in 0..MaxSwitches
    /\ dead \subseteq Nodes /\ reservoir \subseteq Nodes
    /\ proc \in [Procs -> ProcRec]
    /\ dial \in [Dials -> DialRec]
    /\ pool \in PoolRec
    /\ health \in HealthRec

Unused   == [process |-> None, node |-> None, entry |-> None, ready |-> FALSE,
             connecting |-> FALSE]
IdleDial == [pc |-> "idle", tun |-> None, node |-> None, gen |-> 0, proc |-> None]
Scanning == [pc |-> "scan", tun |-> None, node |-> None]
Sleeping == [pc |-> "sleep", tun |-> None, entry |-> None, proc |-> None]

Init ==
    /\ tun = [t \in Tunnels |-> Unused]
    /\ main = First
    /\ target \in Start
    /\ generation = 0
    /\ dead = {}
    /\ reservoir = {}
    /\ proc = [p \in Procs |-> [state |-> "ended", dev |-> None]]
    /\ dial = [d \in Dials |-> IdleDial]
    /\ pool = Scanning
    /\ health = Sleeping

-----------------------------------------------------------------------------
Backup       == CHOOSE t \in Tunnels : t # main
Alive(p)     == p # None /\ proc[p].state # "ended"
Up(t)        == tun[t].ready /\ Alive(tun[t].process)
Matches(n)   == target = Anywhere \/ Country[n] = target
Active       == {tun[t].entry : t \in Tunnels} \ {None}

\* terminate() and wait(2), or kill(): the processes of ps have ended.
Ended(ps) ==
    [p \in Procs |-> IF p \in ps THEN [state |-> "ended", dev |-> None] ELSE proc[p]]
\* terminate() alone.
Terminated(q) == [proc EXCEPT ![q].state = IF @ = "running" THEN "term" ELSE @]
Forgotten(p)  ==
    /\ ~Alive(p)
    /\ \A t \in Tunnels : tun[t].process # p
    /\ \A d \in Dials : dial[d].proc # p
    /\ health.proc # p

-----------------------------------------------------------------------------
(* maintain_pool *)

MainDead == ~tun[main].connecting /\ ~Up(main)
CanTakeOver == Up(Backup) /\ ~tun[Backup].connecting

\* dead_ips is cleared after 600 s, nodes not seen for three hours go.
Expire(d, r) ==
    /\ d \in {dead, {}}
    /\ r \in (IF "stale" \in Faults THEN SUBSET reservoir ELSE {reservoir})

\* The backup takes over, ACTIVE_BIND with it; the old main tunnel is reset.
TakeOver ==
    /\ pool.pc = "scan" /\ MainDead /\ CanTakeOver
    /\ main' = Backup
    /\ proc' = Ended({tun[main].process})
    /\ tun' = [tun EXCEPT ![main] = Unused]
    /\ \E d \in SUBSET Nodes, r \in SUBSET Nodes : Expire(d, r) /\ dead' = d /\ reservoir' = r
    /\ pool' = [pool EXCEPT !.pc = "needs"]
    /\ UNCHANGED <<target, generation, dial, health>>

\* No takeover: a dead main tunnel is reset.
Scan ==
    /\ pool.pc = "scan" /\ ~(MainDead /\ CanTakeOver)
    /\ IF MainDead
         THEN /\ proc' = Ended({tun[main].process})
              /\ tun' = [tun EXCEPT ![main] = Unused]
         ELSE UNCHANGED <<proc, tun>>
    /\ \E d \in SUBSET Nodes, r \in SUBSET Nodes : Expire(d, r) /\ dead' = d /\ reservoir' = r
    /\ pool' = [pool EXCEPT !.pc = "needs"]
    /\ UNCHANGED <<main, target, generation, dial, health>>

Needs(t) == ~tun[t].ready /\ ~tun[t].connecting

\* The main tunnel is served before the backup.
Decide ==
    /\ pool.pc = "needs"
    /\ pool' = IF Needs(main) THEN [pool EXCEPT !.pc = "pick", !.tun = main]
               ELSE IF Needs(Backup) THEN [pool EXCEPT !.pc = "pick", !.tun = Backup]
               ELSE Scanning
    /\ UNCHANGED <<tun, main, target, generation, dead, reservoir, proc, dial, health>>

\* get_best_candidate: without a candidate the black list is dropped.
Fitting    == {n \in reservoir : Matches(n)}
Candidates == Fitting \ (dead \cup Active)

Pick ==
    /\ pool.pc = "pick"
    /\ LET rescue == Candidates = {} /\ Fitting # {}
           usable == IF rescue THEN Fitting \ Active ELSE Candidates
       IN  /\ dead' = IF rescue THEN {} ELSE dead
           /\ \/ \E n \in usable : pool' = [pool EXCEPT !.pc = "claim", !.node = n]
              \/ usable = {} /\ pool' = Scanning
    /\ UNCHANGED <<tun, main, target, generation, reservoir, proc, dial, health>>

\* The entry is claimed before the dial.
Claim ==
    /\ pool.pc = "claim"
    /\ tun' = [tun EXCEPT ![pool.tun].connecting = TRUE, ![pool.tun].entry = pool.node]
    /\ pool' = [pool EXCEPT !.pc = "launch"]
    /\ UNCHANGED <<main, target, generation, dead, reservoir, proc, dial, health>>

\* config_generation is read after the lock was released.
Launch ==
    /\ pool.pc = "launch"
    /\ \E d \in Dials : dial[d].pc = "idle"
    /\ LET d == CHOOSE e \in Dials : dial[e].pc = "idle" IN
         dial' = [dial EXCEPT ![d] = [pc |-> "start", tun |-> pool.tun, node |-> pool.node,
                                         gen |-> generation, proc |-> None]]
    /\ pool' = Scanning
    /\ UNCHANGED <<tun, main, target, generation, dead, reservoir, proc, health>>

-----------------------------------------------------------------------------
(* connect_node *)

AtDial(d, pc) == dial[d].pc = pc
GoDial(d, pc) == dial' = [dial EXCEPT ![d].pc = pc]
Superseded(d) == dial[d].gen # generation

Spawn(d) ==
    /\ AtDial(d, "start")
    /\ \E p \in Procs : Forgotten(p)
    /\ LET p == CHOOSE q \in Procs : Forgotten(q) IN
         /\ proc' = [proc EXCEPT ![p] = [state |-> "running", dev |-> dial[d].tun]]
         /\ dial' = [dial EXCEPT ![d].pc = "spawned", ![d].proc = p]
    /\ UNCHANGED <<tun, main, target, generation, dead, reservoir, pool, health>>

Register(d) ==
    /\ AtDial(d, "spawned")
    /\ IF Superseded(d)
         THEN proc' = Terminated(dial[d].proc) /\ GoDial(d, "finally") /\ UNCHANGED tun
         ELSE /\ tun' = [tun EXCEPT ![dial[d].tun].process = dial[d].proc]
              /\ GoDial(d, "wait") /\ UNCHANGED proc
    /\ UNCHANGED <<main, target, generation, dead, reservoir, pool, health>>

Initialized(d) ==
    /\ AtDial(d, "wait") /\ Alive(dial[d].proc)
    /\ GoDial(d, "inited")
    /\ UNCHANGED <<tun, main, target, generation, dead, reservoir, proc, pool, health>>

\* The process did not come up within 15 s, or ended, if only right after it
\* came up; and a data centre node.
Rejected(d) ==
    /\ \/ AtDial(d, "wait") /\ ("probe" \in Faults \/ ~Alive(dial[d].proc))
       \/ AtDial(d, "inited") /\ ~Alive(dial[d].proc)
       \/ AtDial(d, "probe") /\ "probe" \in Faults
    /\ dead' = dead \cup {dial[d].node}
    /\ proc' = Ended({dial[d].proc})
    /\ GoDial(d, "finally")
    /\ UNCHANGED <<tun, main, target, generation, reservoir, pool, health>>

Recheck(d) ==
    /\ AtDial(d, "inited")
    /\ IF Superseded(d) \/ ~Matches(dial[d].node)
         THEN proc' = Terminated(dial[d].proc) /\ GoDial(d, "finally")
         ELSE UNCHANGED proc /\ GoDial(d, "probe")
    /\ UNCHANGED <<tun, main, target, generation, dead, reservoir, pool, health>>

\* One of the stream probes went through.
Streams(d) ==
    /\ AtDial(d, "probe") /\ Alive(dial[d].proc)
    /\ GoDial(d, "ready")
    /\ UNCHANGED <<tun, main, target, generation, dead, reservoir, proc, pool, health>>

\* None did: the node keeps its place in the pool, with a penalty.
NoStream(d) ==
    /\ AtDial(d, "probe") /\ ("probe" \in Faults \/ ~Alive(dial[d].proc))
    /\ proc' = Ended({dial[d].proc})
    /\ GoDial(d, "finally")
    /\ UNCHANGED <<tun, main, target, generation, dead, reservoir, pool, health>>

\* A command cannot be started: the exception ends the thread.
Raises(d) ==
    /\ "raise" \in Faults
    /\ AtDial(d, "start") \/ AtDial(d, "probe")
    /\ GoDial(d, "finally")
    /\ UNCHANGED <<tun, main, target, generation, dead, reservoir, proc, pool, health>>

\* Mutant: the switch is not looked for a last time.
CommitUnchecked(d) ==
    /\ AtDial(d, "ready")
    /\ tun' = [tun EXCEPT ![dial[d].tun].process = dial[d].proc,
                          ![dial[d].tun].node = dial[d].node, ![dial[d].tun].ready = TRUE]
    /\ GoDial(d, "finally")
    /\ UNCHANGED <<main, target, generation, dead, reservoir, proc, pool, health>>

Commit(d) ==
    /\ AtDial(d, "ready")
    /\ IF Superseded(d) \/ ~Matches(dial[d].node)
         THEN proc' = Terminated(dial[d].proc) /\ UNCHANGED tun
         ELSE /\ tun' = [tun EXCEPT ![dial[d].tun].process = dial[d].proc,
                           ![dial[d].tun].node = dial[d].node, ![dial[d].tun].ready = TRUE]
              /\ UNCHANGED proc
    /\ GoDial(d, "finally")
    /\ UNCHANGED <<main, target, generation, dead, reservoir, pool, health>>

\* Mutant: a dial that failed leaves its flag.
FinallyWhenReady(d) ==
    /\ AtDial(d, "finally")
    /\ tun' = [tun EXCEPT ![dial[d].tun].connecting = @ /\ ~tun[dial[d].tun].ready,
                 ![dial[d].tun].entry = IF tun[dial[d].tun].ready THEN @ ELSE None]
    /\ dial' = [dial EXCEPT ![d] = IdleDial]
    /\ UNCHANGED <<main, target, generation, dead, reservoir, proc, pool, health>>

Finally(d) ==
    /\ AtDial(d, "finally")
    /\ tun' = [tun EXCEPT ![dial[d].tun].connecting = FALSE,
                 ![dial[d].tun].entry = IF tun[dial[d].tun].ready THEN @ ELSE None]
    /\ dial' = [dial EXCEPT ![d] = IdleDial]
    /\ UNCHANGED <<main, target, generation, dead, reservoir, proc, pool, health>>

-----------------------------------------------------------------------------
(* update_config_loop *)

\* A new country, or a forced change of the address with the same one.
Switch ==
    /\ generation < MaxSwitches
    /\ target' \in Countries \cup {Anywhere}
    /\ generation' = generation + 1
    /\ dead' = dead \cup ({tun[main].entry} \ {None})
    /\ proc' = Ended({tun[t].process : t \in Tunnels})
    /\ tun' = [t \in Tunnels |-> [Unused EXCEPT !.connecting = tun[t].connecting]]
    /\ UNCHANGED <<main, reservoir, dial, pool, health>>

-----------------------------------------------------------------------------
(* health_check_loop, one target of its list at a time *)

Snapshot ==
    /\ health.pc = "sleep"
    /\ \E t \in Tunnels :
         /\ Up(t)
         /\ health' = [pc |-> "probe", tun |-> t, entry |-> tun[t].entry, proc |-> tun[t].process]
    /\ UNCHANGED <<tun, main, target, generation, dead, reservoir, proc, dial, pool>>

Healthy ==
    /\ health.pc = "probe" /\ Alive(health.proc)
    /\ health' = Sleeping
    /\ UNCHANGED <<tun, main, target, generation, dead, reservoir, proc, dial, pool>>

Kick ==
    /\ health.pc = "probe" /\ ("probe" \in Faults \/ ~Alive(health.proc))
    /\ dead' = dead \cup ({health.entry} \ {None})
    /\ proc' = Ended({health.proc})
    /\ health' = [health EXCEPT !.pc = "kicked"]
    /\ UNCHANGED <<tun, main, target, generation, reservoir, dial, pool>>

\* Only the tunnel that still has the kicked process is marked.
Settle ==
    /\ health.pc = "kicked"
    /\ tun' = IF tun[health.tun].process = health.proc
                THEN [tun EXCEPT ![health.tun].ready = FALSE, ![health.tun].node = None] ELSE tun
    /\ health' = Sleeping
    /\ UNCHANGED <<main, target, generation, dead, reservoir, proc, dial, pool>>

-----------------------------------------------------------------------------
(* vpngate_fetch_loop and the environment *)

\* A snapshot adds the nodes it lists, all of them unless "partial".
Harvest ==
    /\ \E found \in (IF "partial" \in Faults THEN (SUBSET Nodes) \ {{}} ELSE {Nodes}) :
         reservoir' = reservoir \cup found
    /\ reservoir' # reservoir
    /\ UNCHANGED <<tun, main, target, generation, dead, proc, dial, pool, health>>

ProcEnds ==
    /\ \E p \in Procs :
         /\ proc[p].state = "term" \/ (proc[p].state = "running" /\ "exit" \in Faults)
         /\ proc' = Ended({p})
    /\ UNCHANGED <<tun, main, target, generation, dead, reservoir, dial, pool, health>>

Maintain == TakeOver \/ Scan \/ Decide \/ Pick \/ Claim \/ Launch
Dial(d) ==
    \/ Spawn(d) \/ Register(d) \/ Initialized(d) \/ Rejected(d) \/ Recheck(d)
    \/ Streams(d) \/ NoStream(d) \/ Raises(d) \/ Commit(d) \/ Finally(d)
Check == Snapshot \/ Healthy \/ Kick \/ Settle

Next == Maintain \/ (\E d \in Dials : Dial(d)) \/ Switch \/ Check \/ Harvest \/ ProcEnds

Spec == Init /\ [][Next]_vars

\* The threads run on; every probe and every dial ends; nodes are found.
Fairness ==
    /\ WF_vars(Maintain) /\ WF_vars(Check) /\ WF_vars(Harvest)
    /\ \A d \in Dials : WF_vars(Dial(d))

FairSpec == Spec /\ Fairness

-----------------------------------------------------------------------------

\* A tunnel that is ready serves the wanted country, although switches come at
\* any time of a dial (lite_manager.py:268, 428, 443, 537).
ReadyIsWanted == \A t \in Tunnels : tun[t].ready => Matches(tun[t].node)

\* The two tunnels never claim the same entry (lite_manager.py:614, 708).
DistinctEntries ==
    \A t, u \in Tunnels : t # u /\ tun[t].entry # None => tun[t].entry # tun[u].entry

\* Two tunnels that carry traffic use different nodes, as the claim before the
\* dial is there for (the comment at lite_manager.py:708).
DistinctNodes ==
    \A t, u \in Tunnels : t # u /\ tun[t].ready /\ tun[u].ready => tun[t].node # tun[u].node

\* No OpenVPN process is left behind and no device has two: a running process is
\* that of its tunnel or of the dial that started it (lite_manager.py:429, 555,
\* 597, 688, 694).
Owned(p) ==
    \/ tun[proc[p].dev].process = p
    \/ \E d \in Dials : dial[d].proc = p /\ dial[d].tun = proc[p].dev /\ dial[d].pc = "spawned"
NoStrayProcess ==
    /\ \A p \in DOMAIN proc : proc[p].state = "running" => Owned(p)
    /\ \A p, q \in DOMAIN proc : (proc[p].state = "running" /\ proc[q].state = "running"
                              /\ proc[p].dev = proc[q].dev) => p = q

\* A tunnel has at most one dial under way, whose end alone clears the flag
\* (lite_manager.py:560, 675, 701).
OneDial ==
    \A d, e \in Dials :
      (dial[d].pc # "idle" /\ dial[e].pc # "idle" /\ dial[d].tun = dial[e].tun) => d = e

\* The main tunnel is up, or a dial for it is under way, again and again: whatever
\* fails, a dial gives the tunnel free for the next one, and there is a candidate
\* although every node may end up on the black list (lite_manager.py:616, 675, 700).
MainDials == []<>(Up(main) \/ \E d \in Dials : dial[d].pc # "idle" /\ dial[d].tun = main)

\* A tunnel whose OpenVPN process ended is noticed, so that it can be dialled
\* again: a standby must not stay unfilled (the comment at lite_manager.py:561).
EndNoticed ==
    \A t \in Tunnels : (tun[t].ready /\ ~Up(t)) ~> (~tun[t].ready \/ Up(t))

\* Dials, swaps, kicks and switches at any moment leave the tunnels in order.
TunnelsInOrder == ReadyIsWanted /\ DistinctEntries /\ NoStrayProcess /\ OneDial

=============================================================================
