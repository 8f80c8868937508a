------------------------------- MODULE Startup -------------------------------
(***************************************************************************)
(* The process of the main container: resolve_runtime_profile              *)
(* (vps/runtime_profile.py) chooses slots, dial workers and connections,   *)
(* build_application and Application (vps/entrypoint.py) construct, run and *)
(* shut down the manager and the HTTP server.  A signal starts a thread     *)
(* that shuts down beside the main thread; Docker starts the container      *)
(* again when the process has ended.                                        *)
(***************************************************************************)
EXTENDS Integers

CONSTANTS
    Memory,       \* memory limits in GiB / 2; 0: not detected
    SlotCounts,   \* values of KUI_SLOT_COUNT; 0: auto
    DialWorkers,  \* values of KUI_DIAL_WORKERS; 0: not set
    Faults        \* subset of {"init"}: initialize() raises

MAX_SLOT_COUNT == 34

StartupAssumption ==
    /\ Memory \subseteq Nat
    /\ SlotCounts \subseteq 0..MAX_SLOT_COUNT
    /\ DialWorkers \subseteq Nat

VARIABLES
    env,       \* the settings of the deployment
    main,      \* the main thread
    error,     \* why the process is ending
    shut,      \* where the main and the signal thread are in shutdown()
    lock,      \* holder of _shutdown_lock
    stopped,   \* _stopped
    manager,   \* the exit manager
    request,   \* the server was asked to leave serve_forever
    left,      \* the server is not in serve_forever after having been in it
    closed     \* server_close() was called

vars == <<env, main, error, shut, lock, stopped, manager, request, left, closed>>

Threads == {"main", "signal"}
Nobody  == "nobody"

\* _auto_profile: slots, dial workers.
AutoProfile(m) ==
    CASE m = 0 -> [slots |-> 4, workers |-> 2]
      [] m \in 1..3 -> [slots |-> 2, workers |-> 1]
      [] m \in 4..5 -> [slots |-> 4, workers |-> 2]
      [] m \in 6..8 -> [slots |-> 8, workers |-> 2]
      [] OTHER -> [slots |-> MAX_SLOT_COUNT, workers |-> 4]

SlotsOf(e) == IF e.slots = 0 THEN AutoProfile(e.memory).slots ELSE e.slots

\* An override of the workers is checked, the automatic value is not.
Resolves(e)  == e.workers = 0 \/ e.workers <= SlotsOf(e)
WorkersOf(e) == IF e.workers = 0 THEN AutoProfile(e.memory).workers ELSE e.workers

\* ExitManager.__init__.
Accepted(e) == WorkersOf(e) \in 1..SlotsOf(e)

TypeOK ==
    /\ env \in [memory : Memory, slots : SlotCounts, workers : DialWorkers]
    /\ main \in {"build", "initialize", "serve", "serving", "finally", "exited"}
    /\ error \in {"none", "profile", "manager", "init"}
    /\ shut \in [Threads -> {"out", "lock", "enter", "manager", "request", "wait", "close", "done"}]
    /\ lock \in Threads \cup {Nobody}
    /\ manager \in {"new", "up", "down"}
    /\ {stopped, request, left, closed} \subseteq BOOLEAN

Process ==
    /\ main = "build" /\ error = "none"
    /\ shut = [t \in Threads |-> "out"]
    /\ lock = Nobody /\ stopped = FALSE
    /\ manager = "new"
    /\ request = FALSE /\ left = FALSE /\ closed = FALSE

Init ==
    /\ env \in [memory : Memory, slots : SlotCounts, workers : DialWorkers]
    /\ Process

-----------------------------------------------------------------------------
(* The main thread *)

Build ==
    /\ main = "build"
    /\ IF Resolves(env) /\ Accepted(env)
         THEN main' = "initialize" /\ UNCHANGED error
         ELSE main' = "exited" /\ error' = IF Resolves(env) THEN "manager" ELSE "profile"
    /\ UNCHANGED <<env, shut, lock, stopped, manager, request, left, closed>>

\* A manager that was shut down meanwhile goes on with what is left to start.
Initialize ==
    /\ main = "initialize"
    /\ main' = "serve"
    /\ manager' = IF manager = "new" THEN "up" ELSE manager
    /\ UNCHANGED <<env, error, shut, lock, stopped, request, left, closed>>

InitializeRaises ==
    /\ "init" \in Faults
    /\ main = "initialize"
    /\ main' = "finally" /\ error' = "init"
    /\ UNCHANGED <<env, shut, lock, stopped, manager, request, left, closed>>

Serve ==
    /\ main = "serve"
    /\ main' = "serving" /\ left' = FALSE
    /\ UNCHANGED <<env, error, shut, lock, stopped, manager, request, closed>>

Leave ==
    /\ main = "serving" /\ request
    /\ main' = "finally" /\ request' = FALSE /\ left' = TRUE
    /\ UNCHANGED <<env, error, shut, lock, stopped, manager, closed>>

Exit ==
    /\ main = "finally" /\ shut["main"] = "done"
    /\ main' = "exited"
    /\ UNCHANGED <<env, error, shut, lock, stopped, manager, request, left, closed>>

\* restart: unless-stopped
Restart ==
    /\ main = "exited"
    /\ main' = "build" /\ error' = "none"
    /\ shut' = [t \in Threads |-> "out"]
    /\ lock' = Nobody /\ manager' = "new"
    /\ stopped' = FALSE /\ request' = FALSE /\ left' = FALSE /\ closed' = FALSE
    /\ UNCHANGED env

-----------------------------------------------------------------------------
(* Application.shutdown *)

\* SIGTERM or SIGINT, handled once the application is built.
Signal ==
    /\ main \notin {"build", "exited"} /\ shut["signal"] = "out"
    /\ shut' = [shut EXCEPT !["signal"] = "lock"]
    /\ UNCHANGED <<env, main, error, lock, stopped, manager, request, left, closed>>

\* The finally block of main().
Finally ==
    /\ main = "finally" /\ shut["main"] = "out"
    /\ shut' = [shut EXCEPT !["main"] = "lock"]
    /\ UNCHANGED <<env, main, error, lock, stopped, manager, request, left, closed>>

At(t, pc) == main # "exited" /\ shut[t] = pc
Go(t, pc) == shut' = [shut EXCEPT ![t] = pc]

\* Mutant: _stopped is looked at before the lock is taken.
AcquireUnlessStopped(t) ==
    /\ At(t, "lock")
    /\ IF stopped THEN Go(t, "done") /\ UNCHANGED lock
       ELSE lock = Nobody /\ lock' = t /\ Go(t, "enter")
    /\ UNCHANGED <<env, main, error, stopped, manager, request, left, closed>>

Acquire(t) ==
    /\ At(t, "lock") /\ lock = Nobody
    /\ lock' = t /\ Go(t, "enter")
    /\ UNCHANGED <<env, main, error, stopped, manager, request, left, closed>>

Enter(t) ==
    /\ At(t, "enter")
    /\ stopped' = TRUE
    /\ IF stopped THEN Go(t, "done") /\ lock' = Nobody
                  ELSE Go(t, "manager") /\ UNCHANGED lock
    /\ UNCHANGED <<env, main, error, manager, request, left, closed>>

ManagerShutdown(t) ==
    /\ At(t, "manager")
    /\ manager' = "down"
    /\ Go(t, "request")
    /\ UNCHANGED <<env, main, error, lock, stopped, request, left, closed>>

ServerRequest(t) ==
    /\ At(t, "request")
    /\ request' = TRUE
    /\ Go(t, "wait")
    /\ UNCHANGED <<env, main, error, lock, stopped, manager, left, closed>>

\* BaseServer.shutdown() waits until serve_forever has been left.
ServerLeft(t) ==
    /\ At(t, "wait") /\ left
    /\ Go(t, "close")
    /\ UNCHANGED <<env, main, error, lock, stopped, manager, request, left, closed>>

ServerClose(t) ==
    /\ At(t, "close")
    /\ closed' = TRUE /\ lock' = Nobody
    /\ Go(t, "done")
    /\ UNCHANGED <<env, main, error, stopped, manager, request, left>>

Shutdown(t) ==
    \/ Acquire(t) \/ Enter(t) \/ ManagerShutdown(t) \/ ServerRequest(t) \/ ServerLeft(t)
    \/ ServerClose(t)
Main == Build \/ Initialize \/ InitializeRaises \/ Serve \/ Leave \/ Exit \/ Finally

Next == Main \/ Restart \/ Signal \/ (\E t \in Threads : Shutdown(t))

Spec == Init /\ [][Next]_vars

\* The threads run on.
FairSpec == Spec /\ WF_vars(Main) /\ \A t \in Threads : WF_vars(Shutdown(t))

-----------------------------------------------------------------------------

\* The process does not end in the middle of a shutdown: slots are stopped and
\* the socket is closed before it ends, whoever of the two threads shuts down
\* (entrypoint.py:45-52, 118).
CleanExit == (main = "exited" /\ error \notin {"profile", "manager"}) => manager = "down" /\ closed

\* shutdown() stops the manager and closes the server, also when the application
\* was not running (tests/test_entrypoint.py:57).
ShutdownReturns == \A t \in Threads : shut[t] = "enter" ~> shut[t] \in {"done", "out"}

=============================================================================
