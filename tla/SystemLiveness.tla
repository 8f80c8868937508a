---------------------------- MODULE SystemLiveness ----------------------------
(***************************************************************************)
(* What must happen in the end, for the parts whose threads, handlers and    *)
(* timers run on: health loops, the single-exit manager, the containers that *)
(* carry public traffic, traffic reports, the realtime channel and its       *)
(* viewers; and the policy routes of a slot.                                 *)
(*                                                                           *)
(* `focus' is the part that moves, the others stay in their initial states:  *)
(* the parts have no common variable.  Each property assumes the fairness of *)
(* its own part and nothing of the others.                                   *)
(***************************************************************************)
EXTENDS PolicyRoutes

CONSTANT Absent  \* what is not there

VARIABLES
    focus,                                                              \* the part that moves
    agent, wire, ws, joining, att, mem, stored, shown, accepted,        \* VpsPresence
    open, hub, notices, asking, presence, visits, hubFaults,            \* DashboardHub
    served, counter, listed, memory, disk, at, sending, handler, receipts, used, \* TrafficReport
    host, path, listener, row, requested, repairing, loop, permits, ref, faults,
    untried, rounds, excused,                                           \* HealthLoop
    device, main, target, generation, dead, reservoir, proc, dial, pool, health, \* LiteManager
    wanted, env, pc, ports, password, cred, identities, loaded, config, nodes, crashes \* RealityGateway

Presence == INSTANCE VpsPresence WITH MaxSockets <- 2, MaxBoots <- 2, MaxSeq <- 2

\* Evictions with one viewer; two viewers with paces of their own.
Hub == INSTANCE DashboardHub WITH
    Admins <- {"a"}, Visitors <- {}, Long <- 4, MaxVisits <- 2, MaxFaults <- 1,
    faults <- hubFaults
Paces == INSTANCE DashboardHub WITH
    Admins <- {"a"}, Visitors <- {"v"}, Long <- 4, MaxVisits <- 2, MaxFaults <- 0,
    faults <- hubFaults

Traffic == INSTANCE TrafficReport WITH
    None <- Absent, Nodes <- {"n1"}, Ids <- {"i1", "i2", "i3", "i4"}, Slots <- {"h1", "h2"}, MaxBytes <- 1,
    Faults <- {"crash"}, pc <- at

Health == INSTANCE HealthLoop WITH
    Slots <- {"s1", "s2"}, Permits <- 1, Validity <- 1, Retry <- 1, Interval <- 1,
    Backoff <- <<1>>, MaxFaults <- 2

Lite == INSTANCE LiteManager WITH
    None <- Absent, Nodes <- {"n1", "n2"}, Countries <- {"JP", "US"},
    Country <- [n \in {"n1", "n2"} |-> IF n = "n1" THEN "JP" ELSE "US"],
    Tunnels <- {"tunA", "tunB"}, First <- "tunA", Procs <- {"p1", "p2"}, Dials <- {"d1", "d2"},
    Anywhere <- "ANY", Start <- {"ANY"}, MaxSwitches <- 0, Faults <- {"probe"},
    tun <- device

\* Two deployments to change between; an administrator may move a slot's port.
Gateway == INSTANCE RealityGateway WITH
    Settings <- {[count |-> 1, host |-> TRUE, explicit |-> 0], [count |-> 1, host |-> FALSE, explicit |-> 9]},
    Stored <- {<<>>}, Uuids <- 1..2, Keys <- {1}, Sids <- {1}, Passwords <- {1}, Ports <- {7930},
    MaxFaults <- 2, faults <- crashes

ASSUME SystemAssumption ==
    /\ Hub!HubAssumption /\ Paces!HubAssumption /\ Traffic!TrafficAssumption
    /\ Lite!LiteAssumption /\ Gateway!GatewayAssumption

presenceVars == <<agent, wire, ws, joining, att, mem, stored, shown, accepted>>
hubVars      == <<open, hub, notices, asking, presence, visits, hubFaults>>
trafficVars  == <<served, counter, listed, memory, disk, at, sending, handler, receipts, used>>
healthVars   == <<host, path, listener, row, requested, repairing, loop, permits, ref, faults,
                  untried, rounds, excused>>
liteVars     == <<device, main, target, generation, dead, reservoir, proc, dial, pool, health>>
gatewayVars  == <<wanted, env, pc, ports, password, cred, identities, loaded, config, nodes, crashes>>
systemVars   == <<focus, vars, presenceVars, hubVars, trafficVars, healthVars, liteVars, gatewayVars>>

-----------------------------------------------------------------------------

\* One value where nothing depends on it.
SystemInit ==
    /\ focus \in {"routes", "presence", "hub", "paces", "traffic", "health", "lite", "gateway"}
    /\ Init /\ Presence!Init /\ Hub!Init /\ Traffic!Init /\ Health!Init /\ Lite!Init
    /\ Gateway!Init /\ (focus # "gateway" => wanted.host)

\* Bounds end some parts: the channel when its connections are used up, the
\* reports when every name is, the containers when they run.
SystemNext ==
    /\ UNCHANGED focus
    /\ IF focus = "routes" THEN Next ELSE UNCHANGED vars
    /\ IF focus = "presence" THEN Presence!Next \/ UNCHANGED presenceVars ELSE UNCHANGED presenceVars
    /\ CASE focus = "hub"   -> Hub!Next \/ UNCHANGED hubVars
         [] focus = "paces" -> Paces!Next \/ UNCHANGED hubVars
         [] OTHER           -> UNCHANGED hubVars
    /\ IF focus = "traffic" THEN Traffic!Next \/ UNCHANGED trafficVars ELSE UNCHANGED trafficVars
    /\ IF focus = "health" THEN Health!Next ELSE UNCHANGED healthVars
    /\ IF focus = "lite" THEN Lite!Next ELSE UNCHANGED liteVars
    /\ IF focus = "gateway" THEN Gateway!Next \/ UNCHANGED gatewayVars ELSE UNCHANGED gatewayVars

SystemSpec == SystemInit /\ [][SystemNext]_systemVars

-----------------------------------------------------------------------------

\* In the end the dashboards show whether the agent is connected and what its
\* connection reported last (realtime/src/index.js:208-415).
Converges == Presence!Fairness => Presence!Converges

\* In the end the agent reports at the pace its viewers need
\* (realtime/src/index.js:417-610).
PaceSettles == Hub!Fairness => Hub!PaceSettles

\* If answers keep coming back, every byte is billed (agent.py:1091-1107).
EveryByteBilled == Traffic!EveryByteBilled

\* A slot whose path is gone is not kept for good (exit_manager.py:1050-1180).
DeadExitLeft == Health!Fairness => Health!DeadExitLeft

\* The main tunnel is up, or a dial for it runs, again and again
\* (lite_manager.py:560-714).
MainDials == Lite!Fairness => Lite!MainDials

\* Once crashes are over all containers run with the wanted settings
\* (compose.yaml, reality_gateway.py:480, bridge_gateway.py:70).
AllUp == Gateway!Fairness => Gateway!AllUp

=============================================================================
