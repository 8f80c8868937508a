------------------------------ MODULE ExitSlots ------------------------------
(***************************************************************************)
(* The exit-slot lifecycle of vps/exit_manager.py: connection workers,     *)
(* operator requests, the recovery watchdog and retry timers acting on the *)
(* same slots, over the row kept by vps/store.py and the policy routes of  *)
(* vps/routing.py.                                                         *)
(*                                                                         *)
(* A generation is only ever compared for equality with a value recorded   *)
(* earlier, so the model keeps no counter: "fresh" is the set of holders   *)
(* (workers, retry timers, threads) whose recorded generation still is the *)
(* row's, and "generation = generation + 1" removes every holder of the    *)
(* slot from it.                                                           *)
(***************************************************************************)
EXTENDS Naturals, FiniteSets

CONSTANTS
    Slots,         \* managed slots; a slot also names its retry timer
    Nodes,         \* OpenVPN candidates eligible for every slot
    Workers,       \* connection threads that may exist at the same time
    Users,         \* HTTP request threads of the local API
    Watchdog,      \* the recovery thread
    Repaired,      \* a listener created by the watchdog's repair
    None,
    Operations,    \* what the users may request
    FailureLimit,  \* COUNTRY_SLOT_FAILURE_LIMIT
    DialPermits,   \* KUI_DIAL_WORKERS
    Stalls,        \* worker steps that may outlast a join(timeout=3)
    Faults         \* what may die on its own: processes, listeners

WorkerSteps == {"dial", "acquire", "prefer", "reserve", "check", "spawn",
                "adopt", "init", "install", "verify", "listen", "probe",
                "write", "publish", "health", "probing", "except", "fail",
                "failDead", "record", "teardown", "retire", "schedule", "finally",
                "cleanup", "reclaim", "disown", "done"}

\* Between the acquire and the release of the dial semaphore.
DialSteps == {"prefer", "reserve", "check", "spawn", "adopt", "init",
              "install", "verify", "listen", "probe", "write", "publish"}

ASSUME ExitSlotsAssumption ==
    /\ IsFiniteSet(Workers)
    /\ None \notin Slots \cup Nodes \cup Workers \cup Users \cup {Watchdog, Repaired}
    /\ Repaired \notin Workers
    /\ Watchdog \notin Users
    /\ Slots \cap (Workers \cup Users \cup {Watchdog}) = {}
    /\ Workers \cap (Users \cup {Watchdog}) = {}
    /\ Operations \subseteq {"redial", "connect", "enable", "disable", "configure"}
    /\ FailureLimit \in Nat \ {0}
    /\ DialPermits \in Nat \ {0}
    /\ Stalls \subseteq WorkerSteps
    /\ Faults \subseteq {"process", "listener"}

VARIABLES
    row,       \* exit_slots table: what LocalStore persists for a slot
    rt,        \* SlotRuntime of each slot, and who holds its lock
    reserved,  \* _reserved_nodes
    cooling,   \* nodes NodePool.select skips: penalised within 120 s
    permits,   \* value of the _dial_slots semaphore
    worker,    \* connection threads
    fresh,     \* holders whose recorded generation is still the row's
    proc,      \* the OpenVPN process a worker spawned: none, starting, up
    port,      \* which listener has the slot's SOCKS port bound
    routes,    \* per slot: default route of its table, fail-closed rule
    thread     \* operator requests and the watchdog

vars == <<row, rt, reserved, cooling, permits, worker, fresh, proc, port,
          routes, thread>>

Threads == Users \cup {Watchdog}
States  == {"idle", "connecting", "ready", "degraded", "failed", "disabled"}
Reasons == {"none", "manual", "automatic"}
Live    == {"connecting", "ready", "degraded"}
Serving == {"ready", "degraded"}
ThreadSteps == {"idle", "stopLock", "stopBump", "stopClose", "stopRoute",
                "stopJoin", "redial", "connect", "enable", "disable",
                "configure", "configureWrite", "start", "startJoin",
                "startLock", "startLaunch", "inspect", "repair", "confirm",
                "revive"}
ThreadOps == {"none", "redial", "connect", "enable", "disable", "configure",
              "autoRedial", "recover", "revive", "inspect"}
\* Inside stop_slot, and the operations that call it.
StopSteps == {"stopLock", "stopBump", "stopClose", "stopRoute", "stopJoin"}
StopOps   == {"redial", "connect", "disable", "configure", "autoRedial"}

IdleWorker == [pc |-> "done", slot |-> None, node |-> None]
IdleThread == [pc |-> "idle", op |-> "none", slot |-> None, join |-> None,
               node |-> None, was |-> FALSE, state |-> "idle", reason |-> "none"]

RowRec     == [enabled : BOOLEAN, state : States, reason : Reasons,
               streak : 0..FailureLimit, entry : Nodes \cup {None}]
RuntimeRec == [stop : BOOLEAN, dialing : BOOLEAN, timer : BOOLEAN,
               lock : Workers \cup Threads \cup {None},
               worker : Workers \cup {None}, process : Workers \cup {None},
               listener : Workers \cup {Repaired, None},
               preferred : Nodes \cup {None}]
WorkerRec  == [pc : WorkerSteps, slot : Slots \cup {None}, node : Nodes \cup {None}]
ThreadRec  == [pc : ThreadSteps, op : ThreadOps, slot : Slots \cup {None},
               join : Workers \cup {None}, node : Nodes \cup {None},
               was : BOOLEAN, state : States, reason : Reasons]

TypeOK ==
    /\ row \in [Slots -> RowRec]
    /\ rt \in [Slots -> RuntimeRec]
    /\ reserved \in [Slots -> Nodes \cup {None}]
    /\ cooling \subseteq Nodes
    /\ permits \in Nat
    /\ worker \in [Workers -> WorkerRec]
    /\ fresh \subseteq Workers \cup Slots \cup Threads
    /\ proc \in [Workers -> {"none", "starting", "up"}]
    /\ port \in [Slots -> Workers \cup {Repaired, None}]
    /\ routes \in [Slots -> SUBSET {"default", "closed"}]
    /\ thread \in [Threads -> ThreadRec]

\* After initialize(): routes and runtime fields are clean, and the entry that
\* worked last becomes the preferred one of an enabled slot. The slots
\* initialize() starts are left to the watchdog step that starts idle slots.
InitRow(r) == r \in [Slots ->
    {[enabled |-> TRUE, state |-> "idle", reason |-> "none", streak |-> k, entry |-> None] :
        k \in 0..(FailureLimit - 1)}
    \cup {[enabled |-> FALSE, state |-> "disabled", reason |-> "automatic",
           streak |-> FailureLimit, entry |-> None],
          [enabled |-> FALSE, state |-> "disabled", reason |-> "manual",
           streak |-> 0, entry |-> None]}]

InitRuntime(p) == [stop |-> FALSE, dialing |-> FALSE, timer |-> FALSE, lock |-> None,
                   worker |-> None, process |-> None, listener |-> None, preferred |-> p]

Init ==
    /\ InitRow(row)
    /\ rt \in [Slots -> {InitRuntime(p) : p \in Nodes \cup {None}}]
    /\ \A s \in Slots : ~row[s].enabled => rt[s].preferred = None
    /\ reserved = [s \in Slots |-> None]
    /\ cooling = {}
    /\ permits = DialPermits
    /\ worker = [w \in Workers |-> IdleWorker]
    /\ fresh = {}
    /\ proc = [w \in Workers |-> "none"]
    /\ port = [s \in Slots |-> None]
    /\ routes = [s \in Slots |-> {}]
    /\ thread = [t \in Threads |-> IdleThread]

-----------------------------------------------------------------------------
(* Helpers *)

SlotOf(h) == IF h \in Workers THEN worker[h].slot
             ELSE IF h \in Slots THEN h
             ELSE thread[h].slot

\* What remains fresh once the generation of slot s has moved on.
Bumped(s) == {h \in fresh : SlotOf(h) # s}

Alive(w) == w # None /\ worker[w].pc # "done"
Running(w) == w # None /\ proc[w] # "none"
Unlocked(s) == rt[s].lock = None

\* _worker_is_stale, for the generation recorded by holder h.
Stale(h) == LET s == SlotOf(h) IN
            rt[s].stop \/ ~row[s].enabled \/ h \notin fresh

ListenerReady(s) == rt[s].listener # None /\ port[s] = rt[s].listener

\* listener.stop(): the port is free again if l had it.
Closed(s, l) == IF port[s] = l THEN [port EXCEPT ![s] = None] ELSE port

\* The kernel drops the table's default route with the tunnel device.
WithoutTunnel(s, w) == IF Running(w) /\ proc[w] = "up"
                       THEN [routes EXCEPT ![s] = @ \ {"default"}] ELSE routes
Killed(w) == IF w = None THEN proc ELSE [proc EXCEPT ![w] = "none"]

\* Mutant: only the entries already in the rows count as taken.
TakenByRowsOnly(s) == {row[t].entry : t \in Slots \ {s}} \ {None}

\* active_entry_ips(excluding=s)
Taken(s) == (UNION {{reserved[t], row[t].entry} : t \in Slots \ {s}}) \ {None}

\* NodePool.select through _select_node: any node not taken nor cooling down.
Selectable(s) == Nodes \ (Taken(s) \cup cooling)

\* A connection thread that may be created: no reference to it is left.
Unborn(w) ==
    /\ worker[w].pc = "done" /\ proc[w] = "none"
    /\ \A s \in Slots : w \notin {rt[s].worker, rt[s].process, rt[s].listener, port[s]}

Goto(w, step) == worker' = [worker EXCEPT ![w].pc = step]

\* Leaving the dial section releases the semaphore on every path.
LeaveDial(w, step) == Goto(w, step) /\ permits' = permits + 1

StepTo(t, step) == thread' = [thread EXCEPT ![t].pc = step]
Done(t) == thread' = [thread EXCEPT ![t] = IdleThread]

-----------------------------------------------------------------------------
(* The connection worker: _connect_worker *)

\* _acquire_dial_slot: the staleness test, then acquire(timeout=1).
DialCheck(w) ==
    /\ worker[w].pc = "dial"
    /\ Goto(w, IF Stale(w) THEN "finally" ELSE "acquire")
    /\ UNCHANGED <<row, rt, reserved, cooling, permits, fresh, proc, port, routes, thread>>

\* Mutant: the semaphore is taken whether or not a permit is left.
AcquireDialUnbounded(w) ==
    /\ worker[w].pc = "acquire"
    /\ permits' = permits - 1 /\ Goto(w, "prefer")
    /\ UNCHANGED <<row, rt, reserved, cooling, fresh, proc, port, routes, thread>>

AcquireDial(w) ==
    /\ worker[w].pc = "acquire"
    /\ \/ permits > 0 /\ permits' = permits - 1 /\ Goto(w, "prefer")
       \/ permits = 0 /\ Goto(w, "dial") /\ UNCHANGED permits
    /\ UNCHANGED <<row, rt, reserved, cooling, fresh, proc, port, routes, thread>>

\* The preferred peer is consumed under the runtime lock.
TakePreferred(w) ==
    LET s == worker[w].slot IN
    /\ worker[w].pc = "prefer" /\ Unlocked(s)
    /\ worker' = [worker EXCEPT ![w] = [@ EXCEPT !.pc = "reserve", !.node = rt[s].preferred]]
    /\ rt' = [rt EXCEPT ![s] = [@ EXCEPT !.preferred = None, !.dialing = TRUE]]
    /\ UNCHANGED <<row, reserved, cooling, permits, fresh, proc, port, routes, thread>>

\* _reserve_node, under the selection lock: the slot's previous reservation is
\* dropped, the preferred peer (even one cooling down) wins unless another
\* slot holds it.
ReserveNode(w) ==
    LET s == worker[w].slot
        preferred == {worker[w].node} \ ({None} \cup Taken(s))
        candidates == IF preferred # {} THEN preferred ELSE Selectable(s)
    IN
    /\ worker[w].pc = "reserve"
    /\ \/ \E n \in candidates :
            /\ reserved' = [reserved EXCEPT ![s] = n]
            /\ worker' = [worker EXCEPT ![w] = [@ EXCEPT !.pc = "check", !.node = n]]
            /\ UNCHANGED permits
       \/ /\ candidates = {}
          /\ reserved' = [reserved EXCEPT ![s] = None]
          /\ worker' = [worker EXCEPT ![w] = [@ EXCEPT !.pc = "except", !.node = None]]
          /\ permits' = permits + 1
    /\ UNCHANGED <<row, rt, cooling, fresh, proc, port, routes, thread>>

\* Mutant: the early return leaves the semaphore taken.
CheckKeepsPermit(w) ==
    /\ worker[w].pc = "check"
    /\ Goto(w, IF Stale(w) THEN "finally" ELSE "spawn")
    /\ UNCHANGED <<row, rt, reserved, cooling, permits, fresh, proc, port, routes, thread>>

CheckBeforeSpawn(w) ==
    /\ worker[w].pc = "check"
    /\ \/ Stale(w) /\ LeaveDial(w, "finally")
       \/ ~Stale(w) /\ Goto(w, "spawn") /\ UNCHANGED permits
    /\ UNCHANGED <<row, rt, reserved, cooling, fresh, proc, port, routes, thread>>

Spawn(w) ==
    /\ worker[w].pc = "spawn"
    /\ proc' = [proc EXCEPT ![w] = "starting"]
    /\ Goto(w, "adopt")
    /\ UNCHANGED <<row, rt, reserved, cooling, permits, fresh, port, routes, thread>>

\* Mutant: a process spawned after a stop is left unregistered, but running.
AdoptAbandons(w) ==
    LET s == worker[w].slot IN
    /\ worker[w].pc = "adopt" /\ Unlocked(s)
    /\ IF rt[s].stop \/ w \notin fresh
       THEN LeaveDial(w, "finally") /\ UNCHANGED rt
       ELSE /\ rt' = [rt EXCEPT ![s].process = w]
            /\ Goto(w, "init")
            /\ UNCHANGED permits
    /\ UNCHANGED <<row, reserved, cooling, fresh, proc, port, routes, thread>>

\* process_started_after_stop: a stop that came before the process existed
\* could not terminate it, so the worker does.
Adopt(w) ==
    LET s == worker[w].slot IN
    /\ worker[w].pc = "adopt" /\ Unlocked(s)
    /\ IF rt[s].stop \/ w \notin fresh
       THEN /\ proc' = Killed(w)
            /\ LeaveDial(w, "finally")
            /\ UNCHANGED rt
       ELSE /\ rt' = [rt EXCEPT ![s].process = w]
            /\ Goto(w, "init")
            /\ UNCHANGED <<permits, proc>>
    /\ UNCHANGED <<row, reserved, cooling, fresh, port, routes, thread>>

\* Mutant: the wait ends with the tunnel only, whatever happened meanwhile.
AwaitTunnelOnly(w) ==
    /\ worker[w].pc = "init" /\ proc[w] = "starting"
    /\ \A v \in Workers : worker[v].slot = worker[w].slot => proc[v] # "up"
    /\ proc' = [proc EXCEPT ![w] = "up"]
    /\ Goto(w, "install")
    /\ UNCHANGED <<row, rt, reserved, cooling, permits, fresh, port, routes, thread>>

\* Waiting for "Initialization Sequence Completed". Two processes cannot both
\* open the slot's tunnel device.
AwaitTunnel(w) ==
    /\ worker[w].pc = "init"
    /\ \/ Stale(w) /\ LeaveDial(w, "finally") /\ UNCHANGED proc
       \/ /\ ~Stale(w) /\ proc[w] = "starting"
          /\ \A v \in Workers : worker[v].slot = worker[w].slot => proc[v] # "up"
          /\ proc' = [proc EXCEPT ![w] = "up"]
          /\ Goto(w, "install")
          /\ UNCHANGED permits
       \/ ~Stale(w) /\ LeaveDial(w, "except") /\ UNCHANGED proc
    /\ UNCHANGED <<row, rt, reserved, cooling, fresh, port, routes, thread>>

\* routing.install: cleanup first, then the default route through the tunnel
\* device (which must exist) and the fail-closed rule; any error cleans up.
InstallRoutes(w) ==
    LET s == worker[w].slot IN
    /\ worker[w].pc = "install"
    /\ \/ /\ \E v \in Workers : worker[v].slot = s /\ proc[v] = "up"
          /\ routes' = [routes EXCEPT ![s] = {"default", "closed"}]
          /\ Goto(w, "verify")
          /\ UNCHANGED permits
       \/ routes' = [routes EXCEPT ![s] = {}] /\ LeaveDial(w, "except")
    /\ UNCHANGED <<row, rt, reserved, cooling, fresh, proc, port, thread>>

\* Source rule, egress address, country, residential check, target probes: each
\* is followed by a staleness test, each may penalise the node and fail.
VerifyEgress(w) ==
    /\ worker[w].pc = "verify"
    /\ \/ Stale(w) /\ LeaveDial(w, "finally") /\ UNCHANGED cooling
       \/ ~Stale(w) /\ Goto(w, "listen") /\ UNCHANGED <<permits, cooling>>
       \/ LeaveDial(w, "except") /\ cooling' \in {cooling, cooling \cup ({worker[w].node} \ {None})}
    /\ UNCHANGED <<row, rt, reserved, fresh, proc, port, routes, thread>>

\* The prepared listener binds the SOCKS port and the client targets are probed
\* through it, before commit_ready.
OpenListener(w) ==
    LET s == worker[w].slot IN
    /\ worker[w].pc = "listen"
    /\ \/ /\ port[s] = None
          /\ port' = [port EXCEPT ![s] = w]
          /\ Goto(w, "probe")
          /\ UNCHANGED permits
       \/ port[s] # None /\ LeaveDial(w, "except") /\ UNCHANGED port
    /\ UNCHANGED <<row, rt, reserved, cooling, fresh, proc, routes, thread>>

\* Mutant: a refused commit leaves the prepared listener open.
CommitCheckKeepsPort(w) ==
    /\ worker[w].pc = "probe"
    /\ IF Stale(w) THEN LeaveDial(w, "except") ELSE Goto(w, "write") /\ UNCHANGED permits
    /\ UNCHANGED <<row, rt, reserved, cooling, fresh, proc, port, routes, thread>>

\* commit_ready up to the second test of the stop event. The prepared listener
\* is restarted if its thread has died.
CommitCheck(w) ==
    LET s == worker[w].slot IN
    /\ worker[w].pc = "probe"
    /\ IF ~Stale(w) /\ port[s] \in {w, None}
       THEN /\ port' = [port EXCEPT ![s] = w]
            /\ Goto(w, "write")
            /\ UNCHANGED permits
       ELSE /\ port' = Closed(s, w)
            /\ LeaveDial(w, "except")
    /\ UNCHANGED <<row, rt, reserved, cooling, fresh, proc, routes, thread>>

\* Mutant: the row is written whatever its generation is.
CommitWriteUnfenced(w) ==
    LET s == worker[w].slot IN
    /\ worker[w].pc = "write"
    /\ \E state \in Serving :
         row' = [row EXCEPT ![s] = [@ EXCEPT !.state = state, !.entry = worker[w].node,
                            !.streak = 0]]
    /\ Goto(w, "publish")
    /\ UNCHANGED <<rt, reserved, cooling, permits, fresh, proc, port, routes, thread>>

\* set_runtime_if_generation: ready when the client probe succeeded.
CommitWrite(w) ==
    LET s == worker[w].slot IN
    /\ worker[w].pc = "write"
    /\ \/ /\ w \in fresh
          /\ \E state \in Serving :
               row' = [row EXCEPT ![s] = [@ EXCEPT !.state = state, !.entry = worker[w].node,
                                  !.streak = 0]]
          /\ Goto(w, "publish")
          /\ UNCHANGED <<permits, port>>
       \/ /\ w \notin fresh
          /\ port' = Closed(s, w)
          /\ LeaveDial(w, "except")
          /\ UNCHANGED row
    /\ UNCHANGED <<rt, reserved, cooling, fresh, proc, routes, thread>>

\* The listener reaches the runtime only after the row says ready.
Publish(w) ==
    LET s == worker[w].slot IN
    /\ worker[w].pc = "publish" /\ Unlocked(s)
    /\ port' = IF rt[s].listener # w THEN Closed(s, rt[s].listener) ELSE port
    /\ rt' = [rt EXCEPT ![s].listener = w]
    /\ LeaveDial(w, "health")
    /\ UNCHANGED <<row, reserved, cooling, fresh, proc, routes, thread>>

\* _health_loop: process, policy route, then the client path.
HealthCheck(w) ==
    LET s == worker[w].slot IN
    /\ worker[w].pc = "health"
    /\ Goto(w, IF Stale(w) THEN "finally"
               ELSE IF ~Running(rt[s].process) \/ "default" \notin routes[s] THEN "fail"
               ELSE "probing")
    /\ UNCHANGED <<row, rt, reserved, cooling, permits, fresh, proc, port, routes, thread>>

\* _verify_client_path and _diagnose_client_failure: the path works, it does
\* not, or SOCKS and tunnel both failed while the reference target answers.
ProbeOutcome(w) ==
    LET s == worker[w].slot IN
    /\ worker[w].pc = "probing"
    /\ \/ Stale(w) /\ Goto(w, "finally") /\ UNCHANGED row
       \/ /\ ~Stale(w) /\ ListenerReady(s)
          /\ row' = [row EXCEPT ![s].state = "ready"]
          /\ Goto(w, "health")
       \/ /\ ~Stale(w)
          /\ row' = [row EXCEPT ![s].state = "degraded"]
          /\ Goto(w, "health")
       \/ /\ ~Stale(w) /\ ListenerReady(s)
          /\ row' = [row EXCEPT ![s].state = "degraded"]
          /\ Goto(w, "failDead")
    /\ UNCHANGED <<rt, reserved, cooling, permits, fresh, proc, port, routes, thread>>

ExceptHandler(w) ==
    /\ worker[w].pc = "except"
    /\ Goto(w, IF Stale(w) THEN "finally" ELSE "fail")
    /\ UNCHANGED <<row, rt, reserved, cooling, permits, fresh, proc, port, routes, thread>>

\* _handle_connection_failure takes the runtime lock and keeps it to the end of
\* fail_slot. A peer that just worked is tried once more ("fail"), one whose
\* path is proved dead is not ("failDead").
HandleFailure(w) ==
    LET s == worker[w].slot IN
    /\ worker[w].pc \in {"fail", "failDead"} /\ Unlocked(s)
    /\ IF ~row[s].enabled \/ w \notin fresh
       THEN Goto(w, "finally") /\ UNCHANGED rt
       ELSE /\ Goto(w, "record")
            /\ rt' = [rt EXCEPT ![s] = [@ EXCEPT
                 !.lock = w, !.stop = TRUE,
                 !.preferred = IF /\ worker[w].pc = "fail"
                                     /\ row[s].state \in Serving /\ row[s].entry # None
                                  THEN row[s].entry ELSE rt[s].preferred]]
    /\ UNCHANGED <<row, reserved, cooling, permits, fresh, proc, port, routes, thread>>

\* record_failure, which also writes enabled, then listener.stop().
RecordFailure(w) ==
    LET s == worker[w].slot
        streak == IF row[s].streak < FailureLimit THEN row[s].streak + 1 ELSE FailureLimit
        retry == streak < FailureLimit
    IN
    /\ worker[w].pc = "record"
    /\ row' = [row EXCEPT ![s] =
         [enabled |-> retry, state |-> IF retry THEN "failed" ELSE "disabled",
          reason |-> IF retry THEN "none" ELSE "automatic",
          streak |-> streak, entry |-> None]]
    /\ fresh' = Bumped(s)
    /\ port' = Closed(s, rt[s].listener)
    /\ rt' = [rt EXCEPT ![s].listener = None]
    /\ Goto(w, IF retry THEN "teardown" ELSE "retire")
    /\ UNCHANGED <<reserved, cooling, permits, proc, routes, thread>>

\* The rest of fail_slot, which writes "disabled" if the row it recorded was, then
\* the endpoint's penalty. A retry depends on the row as it is by now; for the
\* timer the worker carries its generation.
Teardown(w) ==
    LET s == worker[w].slot IN
    /\ worker[w].pc \in {"teardown", "retire"}
    /\ proc' = Killed(rt[s].process)
    /\ rt' = [rt EXCEPT ![s] = [@ EXCEPT !.process = None, !.lock = None]]
    /\ reserved' = [reserved EXCEPT ![s] = None]
    /\ routes' = [routes EXCEPT ![s] = {}]
    /\ row' = IF worker[w].pc = "retire" THEN [row EXCEPT ![s].state = "disabled"] ELSE row
    /\ cooling' = cooling \cup ({worker[w].node} \ {None})
    /\ IF row[s].enabled
       THEN Goto(w, "schedule") /\ fresh' = fresh \cup {w}
       ELSE Goto(w, "finally") /\ UNCHANGED fresh
    /\ UNCHANGED <<permits, port, thread>>

\* _schedule_retry replaces the slot's timer.
ScheduleRetry(w) ==
    LET s == worker[w].slot IN
    /\ worker[w].pc = "schedule" /\ Unlocked(s)
    /\ rt' = [rt EXCEPT ![s].timer = TRUE]
    /\ fresh' = (fresh \ {w, s}) \cup (IF w \in fresh THEN {s} ELSE {})
    /\ Goto(w, "finally")
    /\ UNCHANGED <<row, reserved, cooling, permits, proc, port, routes, thread>>

\* Mutant: the finally clause does not ask whether the worker was superseded.
FinallyUnfenced(w) ==
    /\ worker[w].pc = "finally"
    /\ Goto(w, IF row[worker[w].slot].state \in Serving THEN "disown" ELSE "cleanup")
    /\ UNCHANGED <<row, rt, reserved, cooling, permits, fresh, proc, port, routes, thread>>

\* The finally clause reads the row once and acts on what it read.
Finally(w) ==
    LET s == worker[w].slot IN
    /\ worker[w].pc = "finally"
    /\ Goto(w, IF w \notin fresh THEN "reclaim"
               ELSE IF row[s].state \in Serving THEN "disown" ELSE "cleanup")
    /\ UNCHANGED <<row, rt, reserved, cooling, permits, fresh, proc, port, routes, thread>>

Cleanup(w) ==
    LET s == worker[w].slot IN
    /\ worker[w].pc = "cleanup"
    /\ proc' = Killed(w)
    /\ rt' = [rt EXCEPT ![s].process = IF @ = w THEN None ELSE @]
    /\ reserved' = [reserved EXCEPT ![s] = None]
    /\ routes' = [routes EXCEPT ![s] = {}]
    /\ Goto(w, "disown")
    /\ UNCHANGED <<row, cooling, permits, fresh, port, thread>>

\* A worker whose generation was superseded kills its process only if the
\* runtime still refers to it.
Reclaim(w) ==
    LET s == worker[w].slot IN
    /\ worker[w].pc = "reclaim" /\ Unlocked(s)
    /\ IF rt[s].process = w
       THEN /\ proc' = Killed(w)
            /\ routes' = WithoutTunnel(s, w)
            /\ rt' = [rt EXCEPT ![s].process = None]
       ELSE UNCHANGED <<rt, proc, routes>>
    /\ Goto(w, "disown")
    /\ UNCHANGED <<row, reserved, cooling, permits, fresh, port, thread>>

\* The thread unregisters and ends, which is what joining threads wait for. A
\* slot is remembered only for a process it leaves behind.
Disown(w) ==
    LET s == worker[w].slot IN
    /\ worker[w].pc = "disown" /\ Unlocked(s)
    /\ rt' = [rt EXCEPT ![s].worker = IF @ = w THEN None ELSE @]
    /\ worker' = [worker EXCEPT ![w] =
         [IdleWorker EXCEPT !.slot = IF Running(w) THEN s ELSE None]]
    /\ thread' = [t \in Threads |->
         [thread[t] EXCEPT !.join = IF @ = w THEN None ELSE @]]
    /\ fresh' = fresh \ {w}
    /\ UNCHANGED <<row, reserved, cooling, permits, proc, port, routes>>

-----------------------------------------------------------------------------
(* Operator requests: do_POST and do_PUT on /api/exits *)

Request(u, op, s, n, step) ==
    /\ op \in Operations
    /\ thread[u].pc = "idle"
    /\ thread' = [thread EXCEPT ![u] =
         [IdleThread EXCEPT !.pc = step, !.op = op, !.slot = s, !.node = n]]
    /\ UNCHANGED <<row, rt, reserved, permits, worker, fresh, proc, port, routes>>

\* redial_slot penalises the current entry before stopping.
RequestRedial(u, s) ==
    /\ Request(u, "redial", s, None, "stopLock")
    /\ cooling' = cooling \cup ({row[s].entry} \ {None})

RequestConnect(u, s) ==
    \E n \in Nodes : Request(u, "connect", s, n, "stopLock") /\ UNCHANGED cooling

RequestDisable(u, s) == Request(u, "disable", s, None, "stopLock") /\ UNCHANGED cooling

\* enable_slot returns at once for a slot that is up or coming up.
RequestEnable(u, s) ==
    /\ ~(row[s].enabled /\ row[s].state \in Live)
    /\ Request(u, "enable", s, None, "enable")
    /\ UNCHANGED cooling

\* A PUT that changes country or port stops an enabled slot first.
RequestConfigure(u, s) ==
    /\ Request(u, "configure", s, None, IF row[s].enabled THEN "stopLock" ELSE "configure")
    /\ UNCHANGED cooling

-----------------------------------------------------------------------------
(* stop_slot, for thread t *)

\* Under the runtime lock: the row is read, the stop event set.
StopLock(t) ==
    LET s == thread[t].slot IN
    /\ thread[t].pc = "stopLock" /\ Unlocked(s)
    /\ rt' = [rt EXCEPT ![s] = [@ EXCEPT !.lock = t, !.stop = TRUE]]
    /\ thread' = [thread EXCEPT ![t] = [@ EXCEPT !.pc = "stopBump", !.was = row[s].enabled]]
    /\ UNCHANGED <<row, reserved, cooling, permits, worker, fresh, proc, port, routes>>

\* Mutant: stopping a slot leaves its generation alone.
StopKeepsGeneration(t) ==
    LET s == thread[t].slot IN
    /\ thread[t].pc = "stopBump"
    /\ fresh' = fresh \ {s}
    /\ rt' = [rt EXCEPT ![s].timer = FALSE]
    /\ StepTo(t, "stopClose")
    /\ UNCHANGED <<row, reserved, cooling, permits, worker, proc, port, routes>>

\* update_slot(enabled=True) for a slot that was enabled when it was read; the
\* retry timer is cancelled.
StopBump(t) ==
    LET s == thread[t].slot IN
    /\ thread[t].pc = "stopBump"
    /\ IF thread[t].was
       THEN /\ row' = IF row[s].enabled THEN row
                      ELSE [row EXCEPT ![s] = [@ EXCEPT !.enabled = TRUE, !.state = "idle",
                                       !.reason = "none"]]
            /\ fresh' = Bumped(s)
       ELSE row' = row /\ fresh' = fresh \ {s}
    /\ rt' = [rt EXCEPT ![s].timer = FALSE]
    /\ StepTo(t, "stopClose")
    /\ UNCHANGED <<reserved, cooling, permits, worker, proc, port, routes>>

\* The SOCKS port is closed, the process terminated, the node released ...
StopClose(t) ==
    LET s == thread[t].slot IN
    /\ thread[t].pc = "stopClose"
    /\ port' = Closed(s, rt[s].listener)
    /\ proc' = Killed(rt[s].process)
    /\ routes' = WithoutTunnel(s, rt[s].process)
    /\ rt' = [rt EXCEPT ![s] = [@ EXCEPT !.listener = None, !.process = None]]
    /\ reserved' = [reserved EXCEPT ![s] = None]
    /\ StepTo(t, "stopRoute")
    /\ UNCHANGED <<row, cooling, permits, worker, fresh>>

\* ... before routing.cleanup removes the fail-closed rule. The lock is
\* released and the worker, if any, is joined.
StopRoute(t) ==
    LET s == thread[t].slot IN
    /\ thread[t].pc = "stopRoute"
    /\ routes' = [routes EXCEPT ![s] = {}]
    /\ row' = IF thread[t].was
              THEN [row EXCEPT ![s] = [@ EXCEPT !.state = "idle", !.entry = None]] ELSE row
    /\ rt' = [rt EXCEPT ![s].lock = None]
    /\ thread' = [thread EXCEPT ![t] = [@ EXCEPT !.pc = "stopJoin", !.join = rt[s].worker,
                                !.was = FALSE]]
    /\ UNCHANGED <<reserved, cooling, permits, worker, fresh, proc, port>>

\* join(timeout=3) returns when the thread has ended or may take longer.
Joined(w) == Alive(w) => worker[w].pc \in Stalls

StopJoin(t) ==
    LET s == thread[t].slot
        j == thread[t].join
    IN
    /\ thread[t].pc = "stopJoin" /\ Joined(j) /\ Unlocked(s)
    /\ rt' = IF Alive(j) THEN rt ELSE [rt EXCEPT ![s].worker = IF @ = j THEN None ELSE @]
    /\ thread' = [thread EXCEPT ![t] = [@ EXCEPT
         !.join = None,
         !.pc = IF thread[t].op = "autoRedial" THEN "redial" ELSE thread[t].op]]
    /\ UNCHANGED <<row, reserved, cooling, permits, worker, fresh, proc, port, routes>>

-----------------------------------------------------------------------------
(* What each operation does between stop_slot and start_slot *)

\* enable_slot of the store: idle, no failures, a new generation.
EnabledRow(s) == [row EXCEPT ![s] = [@ EXCEPT !.enabled = TRUE, !.state = "idle",
                             !.streak = 0, !.reason = "none"]]

\* Only a manual redial lifts a disabled slot.
RedialDecide(t) ==
    LET s == thread[t].slot IN
    /\ thread[t].pc = "redial"
    /\ \/ row[s].enabled /\ StepTo(t, "start") /\ UNCHANGED <<row, fresh>>
       \/ /\ ~row[s].enabled /\ thread[t].op = "autoRedial"
          /\ Done(t) /\ UNCHANGED row /\ fresh' = fresh \ {t}
       \/ /\ ~row[s].enabled /\ thread[t].op = "redial"
          /\ row' = EnabledRow(s) /\ fresh' = Bumped(s) /\ StepTo(t, "start")
    /\ UNCHANGED <<rt, reserved, cooling, permits, worker, proc, port, routes>>

\* update_slot(enabled=True) keeps the failure streak, unlike enable_slot.
ConnectDecide(t) ==
    LET s == thread[t].slot IN
    /\ thread[t].pc = "connect" /\ Unlocked(s)
    /\ IF row[s].enabled
       THEN UNCHANGED <<row, fresh>>
       ELSE /\ row' = [row EXCEPT ![s] = [@ EXCEPT !.enabled = TRUE, !.state = "idle", !.reason = "none"]]
            /\ fresh' = Bumped(s)
    /\ rt' = [rt EXCEPT ![s].preferred = thread[t].node]
    /\ thread' = [thread EXCEPT ![t] = [@ EXCEPT !.pc = "start", !.node = None]]
    /\ UNCHANGED <<reserved, cooling, permits, worker, proc, port, routes>>

EnableWrite(t) ==
    LET s == thread[t].slot IN
    /\ thread[t].pc = "enable"
    /\ row' = EnabledRow(s) /\ fresh' = Bumped(s) /\ StepTo(t, "start")
    /\ UNCHANGED <<rt, reserved, cooling, permits, worker, proc, port, routes>>

\* update_slot(enabled=False), not under the runtime lock.
DisableWrite(t) ==
    LET s == thread[t].slot IN
    /\ thread[t].pc = "disable"
    /\ row' = [row EXCEPT ![s] = [@ EXCEPT !.enabled = FALSE, !.state = "disabled", !.reason = "manual"]]
    /\ fresh' = Bumped(s)
    /\ Done(t)
    /\ UNCHANGED <<rt, reserved, cooling, permits, worker, proc, port, routes>>

\* update_slot(country=..., proxy_port=...) reads enabled, state and reason and
\* writes them back in a later transaction.
ConfigureRead(t) ==
    LET s == thread[t].slot IN
    /\ thread[t].pc = "configure"
    /\ thread' = [thread EXCEPT ![t] = [@ EXCEPT !.pc = "configureWrite", !.was = row[s].enabled,
                                !.state = row[s].state, !.reason = row[s].reason]]
    /\ UNCHANGED <<row, rt, reserved, cooling, permits, worker, fresh, proc, port, routes>>

ConfigureWrite(t) ==
    LET s == thread[t].slot
        was == thread[t].was
    IN
    /\ thread[t].pc = "configureWrite"
    /\ row' = [row EXCEPT ![s] = [@ EXCEPT !.enabled = was,
                          !.state = IF was THEN thread[t].state ELSE "disabled",
                          !.reason = IF was THEN thread[t].reason ELSE "manual"]]
    /\ fresh' = Bumped(s)
    /\ thread' = [thread EXCEPT ![t] =
         IF was THEN [IdleThread EXCEPT !.pc = "start", !.op = "configure", !.slot = s]
         ELSE IdleThread]
    /\ UNCHANGED <<rt, reserved, cooling, permits, worker, proc, port, routes>>

-----------------------------------------------------------------------------
(* start_slot, for thread t *)

\* A live worker of a live slot is left alone.
Attended(s) == Alive(rt[s].worker) /\ ~rt[s].stop /\ row[s].state \in Live

Start(t) ==
    LET s == thread[t].slot IN
    /\ thread[t].pc = "start" /\ Unlocked(s)
    /\ IF ~row[s].enabled \/ Attended(s)
       THEN Done(t) /\ fresh' = fresh \ {t}
       ELSE /\ thread' = [thread EXCEPT ![t] = [@ EXCEPT !.pc = "startJoin", !.join = rt[s].worker]]
            /\ UNCHANGED fresh
    /\ UNCHANGED <<row, rt, reserved, cooling, permits, worker, proc, port, routes>>

\* After the join, everything is tested again under the lock and what is left
\* of the previous run is cleared. Workers bounds how many threads exist, so
\* the bound is a guard here, before the lock is taken.
StartLock(t) ==
    LET s == thread[t].slot IN
    /\ thread[t].pc = "startJoin" /\ Joined(thread[t].join) /\ Unlocked(s)
    /\ IF ~row[s].enabled \/ Attended(s)
       THEN Done(t) /\ fresh' = fresh \ {t} /\ UNCHANGED <<rt, port>>
       ELSE /\ rt' = [rt EXCEPT ![s] = [@ EXCEPT !.lock = t, !.worker = None, !.timer = FALSE,
                                !.listener = None, !.stop = FALSE, !.dialing = FALSE]]
            /\ port' = Closed(s, rt[s].listener)
            /\ \E w \in Workers : Unborn(w)
            /\ fresh' = fresh \ {s}
            /\ thread' = [thread EXCEPT ![t] = [@ EXCEPT !.pc = "startLaunch", !.join = None]]
    /\ UNCHANGED <<row, reserved, cooling, permits, worker, proc, routes>>

\* set_runtime(state="connecting"), whatever the row has become, and a worker
\* for the generation the row has then.
StartLaunch(t) ==
    LET s == thread[t].slot IN
    /\ thread[t].pc = "startLaunch"
    /\ row' = [row EXCEPT ![s].state = "connecting"]
    /\ \E w \in Workers :
         /\ Unborn(w)
         /\ worker' = [worker EXCEPT ![w] = [pc |-> "dial", slot |-> s, node |-> None]]
         /\ rt' = [rt EXCEPT ![s] = [@ EXCEPT !.worker = w, !.lock = None]]
         /\ fresh' = (fresh \ {t}) \cup {w}
    /\ Done(t)
    /\ UNCHANGED <<reserved, cooling, permits, proc, port, routes>>

-----------------------------------------------------------------------------
(* The recovery watchdog and the retry timers *)

\* Mutant: only slots whose last attempt failed are restarted.
RecoverFailedOnly(s) ==
    /\ thread[Watchdog].pc = "idle" /\ Unlocked(s)
    /\ row[s].enabled /\ row[s].state = "failed"
    /\ ~Alive(rt[s].worker) /\ ~rt[s].timer
    /\ thread' = [thread EXCEPT ![Watchdog] =
         [IdleThread EXCEPT !.pc = "start", !.op = "recover", !.slot = s]]
    /\ UNCHANGED <<row, rt, reserved, cooling, permits, worker, fresh, proc, port, routes>>

\* _try_recover_idle_slots: no worker, no pending timer, not serving.
RecoverIdle(s) ==
    /\ thread[Watchdog].pc = "idle" /\ Unlocked(s)
    /\ row[s].enabled /\ row[s].state \notin Serving
    /\ ~Alive(rt[s].worker) /\ ~rt[s].timer
    /\ thread' = [thread EXCEPT ![Watchdog] =
         [IdleThread EXCEPT !.pc = "start", !.op = "recover", !.slot = s]]
    /\ UNCHANGED <<row, rt, reserved, cooling, permits, worker, fresh, proc, port, routes>>

\* _try_recover_stale_slots works on the rows list_slots returned earlier.
RecoverStale(s) ==
    /\ thread[Watchdog].pc = "idle"
    /\ row[s].enabled /\ row[s].state \in Live
    /\ thread' = [thread EXCEPT ![Watchdog] =
         [IdleThread EXCEPT !.pc = "inspect", !.op = "inspect", !.slot = s,
                            !.state = row[s].state]]
    /\ fresh' = fresh \cup {Watchdog}
    /\ UNCHANGED <<row, rt, reserved, cooling, permits, worker, proc, port, routes>>

\* A reason to redial: worker or process gone, heartbeat expired in a stalled
\* call, dial deadline exceeded.
RedialReason(s, state) ==
    \/ /\ state \in Serving
       /\ \/ ~Alive(rt[s].worker)
          \/ ~Running(rt[s].process)
          \/ ListenerReady(s) /\ Alive(rt[s].worker) /\ worker[rt[s].worker].pc \in Stalls
    \/ state = "connecting" /\ rt[s].dialing

\* A dead listener over a live tunnel is only rebuilt (_repair_listener).
NeedsRepair(s, state) ==
    /\ state \in Serving /\ Alive(rt[s].worker) /\ Running(rt[s].process)
    /\ ~ListenerReady(s)

WatchdogQuits == Done(Watchdog) /\ fresh' = fresh \ {Watchdog}

Inspect ==
    LET s == thread[Watchdog].slot
        state == thread[Watchdog].state
    IN
    /\ thread[Watchdog].pc = "inspect" /\ Unlocked(s)
    /\ \/ /\ RedialReason(s, state)
          /\ StepTo(Watchdog, "confirm")
          /\ UNCHANGED <<row, rt, fresh, port>>
       \/ /\ ~NeedsRepair(s, state)
          /\ WatchdogQuits /\ UNCHANGED <<row, rt, port>>
       \/ /\ NeedsRepair(s, state) /\ Stale(Watchdog)
          /\ WatchdogQuits /\ UNCHANGED <<row, rt, port>>
       \/ /\ NeedsRepair(s, state) /\ ~Stale(Watchdog)
          /\ row' = [row EXCEPT ![s].state = "degraded"]
          /\ IF Closed(s, rt[s].listener)[s] = None
             THEN /\ port' = [port EXCEPT ![s] = Repaired]
                  /\ rt' = [rt EXCEPT ![s] = [@ EXCEPT !.listener = None, !.lock = Watchdog]]
                  /\ StepTo(Watchdog, "repair") /\ UNCHANGED fresh
             ELSE /\ rt' = [rt EXCEPT ![s].listener = None]
                  /\ WatchdogQuits /\ UNCHANGED port
    /\ UNCHANGED <<reserved, cooling, permits, worker, proc, routes>>

\* The repaired listener is dropped again if the slot moved on meanwhile.
Repair ==
    LET s == thread[Watchdog].slot IN
    /\ thread[Watchdog].pc = "repair"
    /\ IF Stale(Watchdog)
       THEN port' = Closed(s, Repaired) /\ rt' = [rt EXCEPT ![s].lock = None]
       ELSE rt' = [rt EXCEPT ![s] = [@ EXCEPT !.lock = None, !.listener = Repaired]] /\ UNCHANGED port
    /\ WatchdogQuits
    /\ UNCHANGED <<row, reserved, cooling, permits, worker, proc, routes>>

\* redial_slot(automatic=True), if enabled and generation still are what was
\* inspected: the serving peer becomes the preferred one and is penalised.
ConfirmRedial ==
    LET s == thread[Watchdog].slot
        known == {row[s].entry} \ {None}
    IN
    /\ thread[Watchdog].pc = "confirm" /\ Unlocked(s)
    /\ IF row[s].enabled /\ Watchdog \in fresh
       THEN /\ rt' = [rt EXCEPT ![s].preferred =
                        IF row[s].state \in Serving /\ known # {} THEN row[s].entry ELSE @]
            /\ cooling' = cooling \cup known
            /\ thread' = [thread EXCEPT ![Watchdog] =
                 [IdleThread EXCEPT !.pc = "stopLock", !.op = "autoRedial", !.slot = s]]
       ELSE Done(Watchdog) /\ UNCHANGED <<rt, cooling>>
    /\ fresh' = fresh \ {Watchdog}
    /\ UNCHANGED <<row, reserved, permits, worker, proc, port, routes>>

\* Mutant: a slot whose stop event is still set is left alone.
ReviveScanUnstopped(s) ==
    /\ thread[Watchdog].pc = "idle"
    /\ ~row[s].enabled /\ row[s].reason = "automatic" /\ ~rt[s].stop
    /\ Selectable(s) # {}
    /\ thread' = [thread EXCEPT ![Watchdog] =
         [IdleThread EXCEPT !.pc = "revive", !.op = "revive", !.slot = s]]
    /\ fresh' = fresh \cup {Watchdog}
    /\ UNCHANGED <<row, rt, reserved, cooling, permits, worker, proc, port, routes>>

\* _try_recover_auto_disabled_slots: the selection under the selection lock ...
ReviveScan(s) ==
    /\ thread[Watchdog].pc = "idle"
    /\ ~row[s].enabled /\ row[s].reason = "automatic"
    /\ Selectable(s) \ {reserved[s], row[s].entry} # {}
    /\ thread' = [thread EXCEPT ![Watchdog] =
         [IdleThread EXCEPT !.pc = "revive", !.op = "revive", !.slot = s]]
    /\ fresh' = fresh \cup {Watchdog}
    /\ UNCHANGED <<row, rt, reserved, cooling, permits, worker, proc, port, routes>>

\* ... then the slot is enabled unless it changed in between.
Revive ==
    LET s == thread[Watchdog].slot IN
    /\ thread[Watchdog].pc = "revive" /\ Unlocked(s)
    /\ IF Watchdog \in fresh /\ row[s].reason = "automatic"
       THEN /\ row' = EnabledRow(s)
            /\ fresh' = Bumped(s)
            /\ StepTo(Watchdog, "start")
       ELSE WatchdogQuits /\ UNCHANGED row
    /\ UNCHANGED <<rt, reserved, cooling, permits, worker, proc, port, routes>>

\* _retry_failed_slot: only the generation that failed, still failed, is
\* started. While the failed worker is alive the timer is armed again.
RetryFires(s) ==
    LET due == row[s].enabled /\ s \in fresh /\ row[s].state = "failed" IN
    /\ rt[s].timer /\ Unlocked(s)
    /\ \/ /\ ~due
          /\ rt' = [rt EXCEPT ![s].timer = FALSE]
          /\ fresh' = fresh \ {s}
          /\ UNCHANGED <<row, worker, port>>
       \/ /\ due /\ ~Alive(rt[s].worker)
          /\ row' = [row EXCEPT ![s].state = "connecting"]
          /\ port' = Closed(s, rt[s].listener)
          /\ \E w \in Workers :
               /\ Unborn(w)
               /\ worker' = [worker EXCEPT ![w] = [pc |-> "dial", slot |-> s, node |-> None]]
               /\ rt' = [rt EXCEPT ![s] = [@ EXCEPT !.timer = FALSE, !.listener = None,
                                   !.stop = FALSE, !.dialing = FALSE, !.worker = w]]
               /\ fresh' = (fresh \ {s}) \cup {w}
    /\ UNCHANGED <<reserved, cooling, permits, proc, routes, thread>>

-----------------------------------------------------------------------------
(* The environment *)

\* OpenVPN exits; the tunnel device goes with it.
ProcessDies(w) ==
    /\ Running(w)
    /\ proc' = Killed(w)
    /\ routes' = IF worker[w].slot = None THEN routes ELSE WithoutTunnel(worker[w].slot, w)
    /\ UNCHANGED <<row, rt, reserved, cooling, permits, worker, fresh, port, thread>>

\* The thread of an accepting listener ends.
ListenerDies(s) ==
    /\ port[s] # None
    /\ port' = [port EXCEPT ![s] = None]
    /\ UNCHANGED <<row, rt, reserved, cooling, permits, worker, fresh, proc, routes, thread>>

\* 120 s after its last penalty a node is selectable again.
CoolDown(n) ==
    /\ n \in cooling
    /\ cooling' = cooling \ {n}
    /\ UNCHANGED <<row, rt, reserved, permits, worker, fresh, proc, port, routes, thread>>

-----------------------------------------------------------------------------
WorkerStep(w) ==
    \/ DialCheck(w) \/ AcquireDial(w) \/ TakePreferred(w) \/ ReserveNode(w)
    \/ CheckBeforeSpawn(w) \/ Spawn(w) \/ Adopt(w) \/ AwaitTunnel(w)
    \/ InstallRoutes(w) \/ VerifyEgress(w) \/ OpenListener(w) \/ CommitCheck(w)
    \/ CommitWrite(w) \/ Publish(w) \/ HealthCheck(w) \/ ProbeOutcome(w)
    \/ ExceptHandler(w) \/ HandleFailure(w) \/ RecordFailure(w) \/ Teardown(w)
    \/ ScheduleRetry(w) \/ Finally(w) \/ Cleanup(w) \/ Reclaim(w) \/ Disown(w)

UserRequest(u, s) ==
    \/ RequestRedial(u, s) \/ RequestConnect(u, s) \/ RequestDisable(u, s)
    \/ RequestEnable(u, s) \/ RequestConfigure(u, s)

ThreadStep(t) ==
    \/ StopLock(t) \/ StopBump(t) \/ StopClose(t) \/ StopRoute(t) \/ StopJoin(t)
    \/ RedialDecide(t) \/ ConnectDecide(t) \/ EnableWrite(t) \/ DisableWrite(t)
    \/ ConfigureRead(t) \/ ConfigureWrite(t)
    \/ Start(t) \/ StartLock(t) \/ StartLaunch(t)

WatchdogStep == Inspect \/ Repair \/ ConfirmRedial \/ Revive

WatchdogScan(s) == RecoverIdle(s) \/ RecoverStale(s) \/ ReviveScan(s)

Fault == \/ "process" \in Faults /\ \E w \in Workers : ProcessDies(w)
         \/ "listener" \in Faults /\ \E s \in Slots : ListenerDies(s)

Next ==
    \/ \E w \in Workers : WorkerStep(w)
    \/ \E t \in Threads : ThreadStep(t)
    \/ \E u \in Users, s \in Slots : UserRequest(u, s)
    \/ \E s \in Slots : WatchdogScan(s) \/ RetryFires(s)
    \/ WatchdogStep
    \/ Fault
    \/ \E n \in Nodes : CoolDown(n)

Spec == Init /\ [][Next]_vars

-----------------------------------------------------------------------------
(* Fairness. A thread that can go on does, also when it needs a lock that      *)
(* others keep taking: they hold it for bounded work, and the watchdog sleeps  *)
(* 15 s between passes over all slots. Nothing is fair about what fails.       *)

FairSpec ==
    /\ Spec
    /\ \A w \in Workers : SF_vars(WorkerStep(w))
    /\ \A u \in Users : SF_vars(ThreadStep(u))
    /\ SF_vars(ThreadStep(Watchdog) \/ WatchdogStep)
    /\ \A s \in Slots : /\ SF_vars(RecoverIdle(s) \/ ReviveScan(s))
                        /\ SF_vars(RecoverStale(s))
                        /\ WF_vars(RetryFires(s))
    /\ \A n \in Nodes : WF_vars(CoolDown(n))

-----------------------------------------------------------------------------
(* Safety *)

\* The workers that the generation fence lets act for slot s. In "schedule" a
\* worker only carries the failed row's generation over to the retry timer.
Owners(s) == {w \in fresh \cap Workers : worker[w].slot = s /\ worker[w].pc # "schedule"}

\* However requests, retries and the watchdog overlap, no two connection
\* workers of a slot both hold its current generation.
OneOwner == \A s \in Slots : \A v, w \in Owners(s) : v = w

\* The workers that hold a permit.
Dialing == {w \in Workers : worker[w].pc \in DialSteps}

\* Every path out of the dial section, early returns and exceptions included,
\* gives its KUI_DIAL_WORKERS permit back exactly once.
DialPermitsBalanced == permits + Cardinality(Dialing) = DialPermits

HoldsNode == {"check", "spawn", "adopt", "init", "install", "verify",
              "listen", "probe", "write", "publish", "health", "probing"}

\* From its selection to the end of its health loop, the node a current worker
\* uses stays reserved for its slot: no leftover of an earlier run releases it.
ReservationHeld ==
    \A s \in Slots : \A w \in Owners(s) :
        worker[w].pc \in HoldsNode => reserved[s] = worker[w].node

\* No two slots ever reserve or record the same OpenVPN entry.
DistinctEntries ==
    \A s, t \in Slots : s # t =>
        {reserved[s], row[s].entry} \cap {reserved[t], row[t].entry} \subseteq {None}

\* What the subscription publishes: an enabled ready slot that accepts clients.
Published(s) == row[s].enabled /\ row[s].state = "ready" /\ ListenerReady(s)

\* A published exit always has the rule that keeps marked traffic off the VPS's
\* own route: a superseded worker never removes its successor's routes.
PublishedFailClosed == \A s \in Slots : Published(s) => "closed" \in routes[s]

\* An OpenVPN process outlives its worker only while the slot's runtime still
\* refers to it, so that the next stop terminates it.
NoLostProcess ==
    \A w \in Workers : Running(w) => Alive(w) \/ \E s \in Slots : rt[s].process = w

\* A bound SOCKS port belongs to the listener of the runtime, or to one whose
\* creator is still between opening and registering it.
NoLostListener ==
    \A s \in Slots : port[s] # None =>
        \/ rt[s].listener = port[s]
        \/ port[s] \in Workers /\ worker[port[s]].pc \in {"probe", "write", "publish"}
        \/ port[s] = Repaired /\ thread[Watchdog].pc = "repair"

-----------------------------------------------------------------------------
(* Why OneOwner holds: the strengthening that is inductive, for the proofs in  *)
(* ExitSlots_proofs.                                                           *)

\* Who is under way acts for a slot; a stop belongs to one of five requests.
Placed ==
    /\ \A w \in Workers : worker[w].pc # "done" => worker[w].slot \in Slots
    /\ \A t \in Threads : thread[t].pc # "idle" => thread[t].slot \in Slots
    /\ \A t \in Threads : thread[t].pc \in StopSteps => thread[t].op \in StopOps

\* Whoever is between taking and releasing a runtime lock is its holder, so that
\* nobody sets the stop event again before start_slot launches its worker.
LockHeld ==
    /\ \A t \in Threads :
        thread[t].pc \in {"stopBump", "stopClose", "stopRoute", "startLaunch", "repair"}
            => rt[thread[t].slot].lock = t
    /\ \A w \in Workers :
        worker[w].pc \in {"record", "teardown", "retire"} => rt[worker[w].slot].lock = w
    /\ \A t \in Threads :
        thread[t].pc = "startLaunch" => ~rt[thread[t].slot].stop

\* A stop_slot that found the slot enabled and has not yet bumped the generation.
Stopping(s) == \E t \in Threads :
    thread[t].slot = s /\ thread[t].pc = "stopBump" /\ thread[t].was

\* The owner of a slot is the runtime's worker, and start_slot can tell that the
\* slot is attended, unless a lock holder is about to bump the generation.
OwnerAttends == \A s \in Slots : \A w \in Owners(s) :
    /\ worker[w].pc # "done"
    /\ rt[s].worker = w
    /\ row[s].enabled => row[s].state \in Live
    /\ row[s].enabled /\ rt[s].stop => Stopping(s) \/ worker[w].pc = "record"

\* A failure that disables the slot keeps its lock until it is torn down.
RetiredAlone == \A w \in Workers :
    worker[w].pc = "retire" => Owners(worker[w].slot) = {}

\* After its bump a stop has the slot for itself, as start_slot has before it
\* launches a worker.
LockExcludesOwners ==
    /\ \A t \in Threads :
        \/ thread[t].pc = "startLaunch"
        \/ thread[t].pc \in {"stopClose", "stopRoute"} /\ thread[t].was
        => Owners(thread[t].slot) = {}
    /\ RetiredAlone

OwnerInv == TypeOK /\ Placed /\ LockHeld /\ OwnerAttends /\ LockExcludesOwners

-----------------------------------------------------------------------------
(* Liveness *)

Unattended(s) == row[s].enabled /\ ~rt[s].timer /\ Owners(s) = {}

\* An enabled slot with neither a current worker nor a pending retry gets one:
\* the watchdog restarts what a lost timer or a dead worker left behind.
EventuallyAttended == \A s \in Slots : Unattended(s) ~> ~Unattended(s)

\* A superseded worker ends: every loop and wait of the worker and of its
\* health loop notices that the generation has moved on.
StaleWorkersEnd == \A w \in Workers : Alive(w) /\ w \notin fresh ~> ~Alive(w)

\* A slot disabled by its failure limit is enabled again once a node of its
\* country is selectable (_try_recover_auto_disabled_slots).
AutoDisabledRevived == \A s \in Slots :
    ~row[s].enabled /\ row[s].reason = "automatic" ~> row[s].enabled

-----------------------------------------------------------------------------
(* What the documents promise and the code does not keep *)

\* README.md: automatic recovery does not revive manually disabled slots.
ManualDisableSticks ==
    [][\A s \in Slots : row[s].reason = "manual" /\ row'[s].enabled
          => \E u \in Users : thread'[u] # thread[u]]_vars

\* stop_slot: the SOCKS port is closed before the fail-closed rule goes, or
\* marked traffic would leave by the VPS main route.
FailClosedWhileListening == \A s \in Slots : port[s] # None => "closed" \in routes[s]

Quiet(s) == /\ \A w \in Workers : Alive(w) => worker[w].slot # s
            /\ \A t \in Threads : thread[t].slot # s

\* The same for a slot at rest, with no thread left that would still close the
\* port or install the rule: the listener is open for good.
QuietFailClosed == \A s \in Slots : Quiet(s) /\ port[s] # None => "closed" \in routes[s]

\* The rework design: no duplicate exits among the ready slots.
ReadyEntriesDistinct ==
    \A s, t \in Slots :
        /\ s # t
        /\ row[s].enabled /\ row[s].state = "ready"
        /\ row[t].enabled /\ row[t].state = "ready"
        => row[s].entry # row[t].entry
=============================================================================
