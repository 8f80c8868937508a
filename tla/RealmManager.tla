---------------------------- MODULE RealmManager ----------------------------
(***************************************************************************)
(* The Realm forwarder of vps/realm_manager.py: HTTP request threads of    *)
(* the local API configure, start, stop and restart one child process. One *)
(* re-entrant lock covers start and stop; restart is the two in a row with *)
(* the lock released in between, and configure writes the stored setting   *)
(* without it.                                                             *)
(*                                                                         *)
(* A configuration is its version: 0 while nothing valid is stored, then   *)
(* the number of the PUT that wrote it.                                    *)
(***************************************************************************)
EXTENDS Naturals

CONSTANTS
    Requests,    \* HTTP request threads
    Children,    \* identities of the processes Popen may create
    None,
    MaxVersion   \* bound on the number of configure requests

RealmAssumption ==
    /\ None \notin Requests \cup Children
    /\ MaxVersion \in Nat

VARIABLES
    config,    \* version of the setting realm_config, 0: not configured
    process,   \* RealmManager._process
    state,     \* RealmManager._state
    lock,      \* the request inside start or stop
    child,     \* the operating system's processes
    request    \* what each request thread is doing

vars == <<config, process, state, lock, child, request>>

Steps == {"idle", "stop", "stopWait", "stopKilled", "start", "stopped", "started", "raised"}

RequestRec == [pc : Steps, restart : BOOLEAN, seen : 0..MaxVersion,
               target : Children \cup {None}]
ChildRec   == [life : {"unborn", "alive", "term", "killed", "dead"}, config : 0..MaxVersion]

TypeOK ==
    /\ config \in 0..MaxVersion
    /\ process \in Children \cup {None}
    /\ state \in {"stopped", "running", "failed"}
    /\ lock \in Requests \cup {None}
    /\ child \in [Children -> ChildRec]
    /\ request \in [Requests -> RequestRec]

IdleRequest == [pc |-> "idle", restart |-> FALSE, seen |-> 0, target |-> None]

Init ==
    /\ config = 0
    /\ process = None
    /\ state = "stopped"
    /\ lock = None
    /\ child = [c \in Children |-> [life |-> "unborn", config |-> 0]]
    /\ request = [r \in Requests |-> IdleRequest]

\* poll() is None: a process that was signalled still runs until it is reaped.
Running(c) == child[c].life \in {"alive", "term", "killed"}
Recorded   == process # None /\ Running(process)

At(r, pc)   == request[r].pc = pc
Goto(r, pc) == request' = [request EXCEPT ![r].pc = pc]

\* PUT /api/realm. No lock is taken; the store's own makes the write atomic.
Configure ==
    /\ config < MaxVersion
    /\ config' = config + 1
    /\ UNCHANGED <<process, state, lock, child, request>>

\* POST /api/realm/{start,stop,restart}.
Begin(r, pc, restart) ==
    /\ At(r, "idle")
    /\ request' = [request EXCEPT ![r] =
         [pc |-> pc, restart |-> restart, seen |-> config, target |-> None]]
    /\ UNCHANGED <<config, process, state, lock, child>>

RequestStart(r)   == Begin(r, "start", FALSE)
RequestStop(r)    == Begin(r, "stop", FALSE)
\* Mutant: restart does not stop what runs.
RestartWithoutStop(r) == Begin(r, "start", TRUE)
RequestRestart(r) == Begin(r, "stop", TRUE)

\* Under the lock: nothing to do for a process that runs, an error without a
\* configuration, else Popen, whose process may fail or exit at once.
StartKept(r) ==
    /\ At(r, "start") /\ lock = None /\ Recorded
    /\ Goto(r, "started")
    /\ UNCHANGED <<config, process, state, lock, child>>

StartRefused(r) ==
    /\ At(r, "start") /\ lock = None /\ ~Recorded
    /\ config = 0
    /\ Goto(r, "raised")
    /\ UNCHANGED <<config, process, state, lock, child>>

StartFails(r) ==
    /\ At(r, "start") /\ lock = None /\ ~Recorded
    /\ config # 0
    /\ process' = None
    /\ state' = "failed"
    /\ Goto(r, "raised")
    /\ UNCHANGED <<config, lock, child>>

StartSpawns(r) ==
    /\ At(r, "start") /\ lock = None /\ ~Recorded
    /\ config # 0
    /\ \E c \in Children :
         /\ child[c].life = "unborn"
         /\ child' = [child EXCEPT ![c] = [life |-> "alive", config |-> config]]
         /\ process' = c
    /\ state' = "running"
    /\ Goto(r, "started")
    /\ UNCHANGED <<config, lock>>

Stopped(r) == IF request[r].restart THEN "start" ELSE "stopped"

\* stop() with nothing to stop.
StopIdle(r) ==
    /\ At(r, "stop") /\ lock = None /\ ~Recorded
    /\ process' = None
    /\ state' = "stopped"
    /\ Goto(r, Stopped(r))
    /\ UNCHANGED <<config, lock, child>>

\* Mutant: the wait happens after the lock is released.
StopSignalsUnlocked(r) ==
    /\ At(r, "stop") /\ lock = None /\ Recorded
    /\ process' = None
    /\ child' = [child EXCEPT ![process].life = IF @ = "alive" THEN "term" ELSE @]
    /\ request' = [request EXCEPT ![r].pc = "stopWait", ![r].target = process]
    /\ UNCHANGED <<config, state, lock>>

\* stop() forgets the process, sends SIGTERM and waits for up to 3 s, with the
\* lock held.
StopSignals(r) ==
    /\ At(r, "stop") /\ lock = None /\ Recorded
    /\ lock' = r
    /\ process' = None
    /\ child' = [child EXCEPT ![process].life = IF @ = "alive" THEN "term" ELSE @]
    /\ request' = [request EXCEPT ![r].pc = "stopWait", ![r].target = process]
    /\ UNCHANGED <<config, state>>

\* wait() returns: the process is reaped, the lock released.
StopReaps(r) ==
    /\ request[r].pc \in {"stopWait", "stopKilled"}
    /\ child[request[r].target].life = "dead"
    /\ lock' = None
    /\ state' = "stopped"
    /\ Goto(r, Stopped(r))
    /\ UNCHANGED <<config, process, child>>

\* wait(timeout=3) expires: SIGKILL and a second wait.
StopKills(r) ==
    /\ At(r, "stopWait")
    /\ child[request[r].target].life \in {"term", "killed"}
    /\ child' = [child EXCEPT ![request[r].target].life = "killed"]
    /\ Goto(r, "stopKilled")
    /\ UNCHANGED <<config, process, state, lock>>

\* The second wait expires as well (a process the kernel cannot kill yet): the
\* exception leaves the lock and skips the two assignments, and restart ends.
StopExpires(r) ==
    /\ At(r, "stopKilled")
    /\ child[request[r].target].life = "killed"
    /\ lock' = None
    /\ Goto(r, "raised")
    /\ UNCHANGED <<config, process, state, child>>

\* The answer is sent.
Respond(r) ==
    /\ request[r].pc \in {"stopped", "started", "raised"}
    /\ request' = [request EXCEPT ![r] = IdleRequest]
    /\ UNCHANGED <<config, process, state, lock, child>>

\* A child ends on its own or of a signal.
ChildExits ==
    /\ \E c \in Children :
         /\ Running(c)
         /\ child' = [child EXCEPT ![c].life = "dead"]
    /\ UNCHANGED <<config, process, state, lock, request>>

Progress(r) ==
    \/ StartKept(r) \/ StartRefused(r) \/ StartFails(r) \/ StartSpawns(r)
    \/ StopIdle(r) \/ StopSignals(r) \/ StopReaps(r) \/ StopKills(r) \/ StopExpires(r)
    \/ Respond(r)

Next ==
    \/ Configure
    \/ ChildExits
    \/ \E r \in Requests : RequestStart(r) \/ RequestStop(r) \/ RequestRestart(r) \/ Progress(r)

Spec == Init /\ [][Next]_vars

-----------------------------------------------------------------------------

\* At most one forwarder that was not sent SIGKILL runs, and whoever could
\* still end it knows it: it is the recorded process, or the lock holder is
\* waiting for it. Two requests that overlap in restart's gap would otherwise
\* leave a process nobody can stop (realm_manager.py:114, 137).
OneForwarder ==
    \A c \in Children : child[c].life \in {"alive", "term"} =>
        \/ process = c
        \/ lock # None /\ request[lock].target = c

\* A restart that succeeded runs a configuration at least as new as the one
\* stored when it was requested, however other requests interleave between its
\* stop and its start (realm_manager.py:149).
RestartApplies ==
    \A r \in Requests :
        (At(r, "started") /\ request[r].restart /\ Recorded) =>
            child[process].config >= request[r].seen

\* "reports real process state": status() never says running while no process
\* runs (realm_manager.py:80, docs/superpowers/plans/
\* 2026-08-07-kui-local-multi-exit-rework.md:465).
StatusState == IF Recorded THEN "running" ELSE state
ReportsRealState == StatusState = "running" => Recorded

=============================================================================
