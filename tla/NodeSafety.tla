------------------------------ MODULE NodeSafety ------------------------------
(***************************************************************************)
(* The parts around the manager that share no state, side by side: the       *)
(* realtime channel, traffic accounting and egress changes between the agent *)
(* and the cloud, the containers that carry public traffic, the refresh of   *)
(* bridge nodes and the single-exit manager.                                 *)
(*                                                                           *)
(* Without a common variable their interleavings say nothing that the parts  *)
(* do not say alone: `focus' is the part that moves, the others stay in      *)
(* their initial states.                                                     *)
(***************************************************************************)
EXTENDS VpsPresence

CONSTANTS
    Absent,                                                             \* what is not there
    Nodes, Ids, Handlers, MaxBytes, TrafficFaults, FewNodes, MoreBytes, \* TrafficReport
    Modes, Native, Down, MaxRevision, MoreRevisions, EgressFaults, \* EgressApply
    Settings, Stored, Uuids, Keys, Sids, Passwords, NewPorts, MaxFaults, \* RealityGateway
    BridgeNodes, Curlable, Priority, Workers, Ports, Speeds, TopN, TestLimit, MaxAge, Interval,
    BridgeFaults,                                                       \* BridgeRefresh
    LiteNodes, Countries, Country, Tunnels, FirstTunnel, Procs, Dials, Anywhere, Start,
    MaxSwitches, LiteFaults, SpareNodes, SpareCountry, SpareProcs       \* LiteManager

VARIABLES
    focus,                                                              \* the part that moves
    served, counter, listed, memory, disk, at, sending, handler, receipts, used, \* TrafficReport
    cloud, state, conf, active, loop, late, outcome,                    \* EgressApply
    wanted, env, pc, ports, password, cred, identities, loaded, config, nodes, faults, \* RealityGateway
    refresh, rest, cache, age, queue, job, socks, killed, via, tested, raised,  \* BridgeRefresh
    tun, main, target, generation, dead, reservoir, proc, dial, pool, health    \* LiteManager

\* The main instance of a part, and cases of their own: an inbound whose counter
\* restarts, and one that is removed and comes back.
Traffic  == INSTANCE TrafficReport WITH
    Slots <- Handlers, Faults <- TrafficFaults, None <- Absent, pc <- at
Restarts == INSTANCE TrafficReport WITH
    Nodes <- FewNodes, MaxBytes <- MoreBytes, Slots <- Handlers,
    Faults <- {"crash", "reset"}, None <- Absent, pc <- at
Removed  == INSTANCE TrafficReport WITH
    Nodes <- FewNodes, MaxBytes <- MoreBytes, Slots <- Handlers,
    Faults <- {"crash", "delist", "unreadable"}, None <- Absent, pc <- at

\* The second case has no crash in the middle of a change.
Egress == INSTANCE EgressApply WITH Faults <- EgressFaults, None <- Absent, agent <- loop
Steady == INSTANCE EgressApply WITH
    MaxRevision <- MoreRevisions, Faults <- EgressFaults \ {"crashMid"}, None <- Absent, agent <- loop

Gateway == INSTANCE RealityGateway WITH Ports <- NewPorts

\* A refresh that raises leaves the cache without an entry until the next one.
Bridge == INSTANCE BridgeRefresh WITH
    Nodes <- BridgeNodes, Faults <- BridgeFaults, None <- Absent
Raises == INSTANCE BridgeRefresh WITH
    Nodes <- BridgeNodes, Faults <- BridgeFaults \cup {"raise"}, None <- Absent

\* Without switches: nodes whose probes may fail; nodes whose dials may raise,
\* listed by some snapshots and forgotten again.
Lite   == INSTANCE LiteManager WITH
    Nodes <- LiteNodes, Faults <- LiteFaults, First <- FirstTunnel, None <- Absent
Spares == INSTANCE LiteManager WITH
    Nodes <- SpareNodes, Country <- SpareCountry, Procs <- SpareProcs, MaxSwitches <- 0,
    Faults <- {"probe"}, First <- FirstTunnel, None <- Absent
Broken == INSTANCE LiteManager WITH
    Nodes <- SpareNodes, Country <- SpareCountry, MaxSwitches <- 0,
    Faults <- {"raise", "stale", "partial"}, First <- FirstTunnel, None <- Absent

ASSUME NodeAssumption ==
    /\ Traffic!TrafficAssumption /\ Restarts!TrafficAssumption /\ Removed!TrafficAssumption
    /\ Egress!EgressAssumption /\ Steady!EgressAssumption
    /\ Gateway!GatewayAssumption /\ Bridge!BridgeAssumption /\ Raises!BridgeAssumption
    /\ Lite!LiteAssumption /\ Spares!LiteAssumption /\ Broken!LiteAssumption

trafficVars == <<served, counter, listed, memory, disk, at, sending, handler, receipts, used>>
egressVars  == <<cloud, state, conf, active, loop, late, outcome>>
gatewayVars == <<wanted, env, pc, ports, password, cred, identities, loaded, config, nodes, faults>>
bridgeVars  == <<refresh, rest, cache, age, queue, job, socks, killed, via, tested, raised>>
liteVars    == <<tun, main, target, generation, dead, reservoir, proc, dial, pool, health>>
nodeVars    == <<focus, vars, trafficVars, egressVars, gatewayVars, bridgeVars, liteVars>>

-----------------------------------------------------------------------------

\* One value where nothing depends on it.
NodeInit ==
    /\ focus \in {"presence", "traffic", "restarts", "removed", "egress", "steady", "gateway",
                  "bridge", "raises", "lite", "spares", "broken"}
    /\ Init
    /\ IF focus \in {"restarts", "removed"} THEN Restarts!Init ELSE Traffic!Init
    /\ Egress!Init /\ Bridge!Init
    /\ CASE focus = "spares" -> Spares!Init
         [] focus = "broken" -> Broken!Init
         [] OTHER            -> Lite!Init
    /\ Gateway!Init /\ (focus # "gateway" => identities = <<>> /\ wanted.host)

\* The containers may all run with nothing left to happen.
NodeNext ==
    /\ UNCHANGED focus
    /\ IF focus = "presence" THEN Next ELSE UNCHANGED vars
    /\ CASE focus = "traffic"  -> Traffic!Next
         [] focus = "restarts" -> Restarts!Next
         [] focus = "removed"  -> Removed!Next
         [] OTHER              -> UNCHANGED trafficVars
    /\ CASE focus = "egress" -> Egress!Next
         [] focus = "steady" -> Steady!Next
         [] OTHER            -> UNCHANGED egressVars
    /\ IF focus = "gateway" THEN Gateway!Next \/ UNCHANGED gatewayVars ELSE UNCHANGED gatewayVars
    /\ CASE focus = "bridge" -> Bridge!Next
         [] focus = "raises" -> Raises!Next
         [] OTHER            -> UNCHANGED bridgeVars
    /\ CASE focus = "lite"   -> Lite!Next
         [] focus = "spares" -> Spares!Next
         [] focus = "broken" -> Broken!Next
         [] OTHER            -> UNCHANGED liteVars

NodeSpec == NodeInit /\ [][NodeNext]_nodeVars

-----------------------------------------------------------------------------

\* The variables of the part that moves have their types.
AllTyped ==
    CASE focus = "presence" -> TypeOK
      [] focus = "traffic"  -> Traffic!TypeOK
      [] focus \in {"restarts", "removed"} -> Restarts!TypeOK
      [] focus = "egress"   -> Egress!TypeOK
      [] focus = "steady"   -> Steady!TypeOK
      [] focus = "gateway"  -> Gateway!TypeOK
      [] focus \in {"bridge", "raises"} -> Bridge!TypeOK
      [] focus = "lite"     -> Lite!TypeOK
      [] focus = "spares"   -> Spares!TypeOK
      [] focus = "broken"   -> Broken!TypeOK

\* No byte is billed twice, no name stands for two reports (agent.py:1068-1092,
\* [[path]].js:1060, 1149-1166).
BilledOnce == Traffic!BilledOnce

\* The state file accounts for what was billed while no counter restarts (agent.py:1091-1107).
NothingLost == focus = "traffic" => Traffic!NothingLost

\* What the cloud shows as applied was applied ([[path]].js:1245-1254).
CloudFollowsAgent == Egress!CloudFollowsAgent

\* A verified mode is saved while a mode runs that passes its check (agent.py:257,
\* 278, 1021, 1044, 1281).
VerifiedWhenSaved == Egress!VerifiedWhenSaved

\* A pass that reports success leaves the mode it names running, unless an
\* earlier pass was cut off in the middle (agent.py:1277, 1304).
ReportedModeRuns == focus = "steady" => Egress!ReportedModeRuns

\* Links, identities and credentials of running containers agree
\* (reality_gateway.py:102-170, 417-437; internal_proxy.py:52-80).
FilesAgree == Gateway!FilesAgree

\* A slot keeps its uuid (reality_gateway.py:107).
UuidsKept == Gateway!UuidsKept

\* A subscription request between two refreshes finds the chain nodes
\* (local_api.py:1189-1195).
ChainPublished == focus = "bridge" => Bridge!ChainPublished

\* Dials, processes, claims and countries of the two tunnels; a dial that
\* raises may leave its process behind (lite_manager.py:443-714).
TunnelsInOrder ==
    CASE focus = "spares" -> Spares!TunnelsInOrder
      [] focus = "broken" -> Broken!ReadyIsWanted /\ Broken!DistinctEntries /\ Broken!OneDial
      [] OTHER            -> Lite!TunnelsInOrder

=============================================================================
