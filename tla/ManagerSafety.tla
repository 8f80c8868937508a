---------------------------- MODULE ManagerSafety ----------------------------
(***************************************************************************)
(* The parts of the manager container that share no state, side by side: the *)
(* health loops, the Realm forwarder, the listeners, the node pool, the      *)
(* database of slots and the process itself.                                 *)
(*                                                                           *)
(* Without a common variable their interleavings say nothing that the parts  *)
(* do not say alone: `focus' is the part that moves, the others stay in      *)
(* their initial states.                                                     *)
(***************************************************************************)
EXTENDS HealthLoop

CONSTANTS
    None,                                                          \* what is not there
    Requests, Children, MaxVersion,                                \* RealmManager
    Listeners, Conns, MaxConnections, ListenerFaults,              \* ProxyListener
    Nodes, Providers, Country, PoolSlots, Want, Pings, Blames, MaxPenalty, Cooldown, \* NodePool
    Fresh, Recent, History, Retention, AnyPings, AnyBlames,
    MaxSlots, Counts, Ports, Countries, Allowed, Template, Columns, Databases, Clients, \* SlotRecords
    Memory, SlotCounts, DialWorkers, StartFaults                   \* Startup

VARIABLES
    focus,                                              \* the part that moves
    config, process, state, realmLock, child, request,  \* RealmManager
    owner, flag, ready, started, thread, open, servers, tracked, conn, free, \* ProxyListener
    mode, rows, pool, penalty, pause, slot, entry, event, pref, good, calm,  \* NodePool
    start, count, columns, slotRows, managed, put,      \* SlotRecords
    env, main, error, shut, lock, stopped, manager, leave, left, closed      \* Startup

Realm == INSTANCE RealmManager WITH lock <- realmLock

Proxy == INSTANCE ProxyListener WITH Faults <- ListenerFaults

\* The same pool for slots that want a country and for slots that take any.
Pool    == INSTANCE NodePool WITH Slots <- PoolSlots
PoolAny == INSTANCE NodePool WITH
    Slots <- PoolSlots, Want <- [s \in PoolSlots |-> "ANY"], Pings <- AnyPings, Blames <- AnyBlames

Records == INSTANCE SlotRecords WITH mode <- start, rows <- slotRows, request <- put

Entry == INSTANCE Startup WITH Faults <- StartFaults, request <- leave

ASSUME ManagerAssumption ==
    /\ Realm!RealmAssumption /\ Proxy!ListenerAssumption
    /\ Pool!PoolAssumption /\ PoolAny!PoolAssumption
    /\ Records!RecordsAssumption /\ Entry!StartupAssumption

realmVars   == <<config, process, state, realmLock, child, request>>
proxyVars   == <<owner, flag, ready, started, thread, open, servers, tracked, conn, free>>
poolVars    == <<mode, rows, pool, penalty, pause, slot, entry, event, pref, good, calm>>
recordsVars == <<start, count, columns, slotRows, managed, put>>
entryVars   == <<env, main, error, shut, lock, stopped, manager, leave, left, closed>>
managerVars == <<focus, vars, realmVars, proxyVars, poolVars, recordsVars, entryVars>>

-----------------------------------------------------------------------------

\* One value where nothing depends on it.
ManagerInit ==
    /\ focus \in {"health", "realm", "proxy", "pool", "poolAny", "records", "entry"}
    /\ Init /\ Realm!Init /\ Proxy!Init
    /\ IF focus = "poolAny" THEN PoolAny!Init ELSE Pool!Init
    /\ Records!Init /\ (focus # "records" => count = 2 /\ columns = {} /\ slotRows = <<>>)
    /\ Entry!Init /\ (focus # "entry" => env = [memory |-> 0, slots |-> 0, workers |-> 0])

\* Listeners and the process end: they are the parts that may stop.
ManagerNext ==
    /\ UNCHANGED focus
    /\ IF focus = "health" THEN Next ELSE UNCHANGED vars
    /\ IF focus = "realm" THEN Realm!Next ELSE UNCHANGED realmVars
    /\ IF focus = "proxy" THEN Proxy!Next \/ UNCHANGED proxyVars ELSE UNCHANGED proxyVars
    /\ CASE focus = "pool"    -> Pool!Next
         [] focus = "poolAny" -> PoolAny!Next
         [] OTHER             -> UNCHANGED poolVars
    /\ IF focus = "records" THEN Records!Next ELSE UNCHANGED recordsVars
    /\ IF focus = "entry" THEN Entry!Next \/ UNCHANGED entryVars ELSE UNCHANGED entryVars

ManagerSpec == ManagerInit /\ [][ManagerNext]_managerVars

-----------------------------------------------------------------------------

\* The variables of the part that moves have their types.
AllTyped ==
    CASE focus = "health"  -> TypeOK
      [] focus = "realm"   -> Realm!TypeOK
      [] focus = "proxy"   -> Proxy!TypeOK
      [] focus = "pool"    -> Pool!TypeOK
      [] focus = "poolAny" -> PoolAny!TypeOK
      [] focus = "records" -> Records!TypeOK
      [] focus = "entry"   -> Entry!TypeOK

\* One forwarder at a time, known to whoever could end it (realm_manager.py:114, 137).
OneForwarder == Realm!OneForwarder

\* What runs after a restart is not older than the request (realm_manager.py:149).
RestartApplies == Realm!RestartApplies

\* Permits, readiness and late clients of a listener (proxy_server.py:245-266, 563-578).
ClientsAccounted == Proxy!ClientsAccounted

\* Pauses of blamed nodes, the one retry of the last peer and its recovery at a
\* start (vpngate.py:280-370, exit_manager.py:130-180).
PeersChosen == Pool!PeersChosen

\* No start loses a slot, a port or a column (store.py:60-330).
RecordsSound == Records!RecordsSound

\* The process ends after its shutdown, whichever thread does it (entrypoint.py:45-52).
CleanExit == Entry!CleanExit

=============================================================================
