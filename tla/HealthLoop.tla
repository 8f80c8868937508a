------------------------------ MODULE HealthLoop ------------------------------
(***************************************************************************)
(* The health loops of the serving slots (vps/exit_manager.py): each worker  *)
(* waits, takes a permit, requests a page through its own listener and, when *)
(* that has failed twice, through the tunnel and past it, before it gives    *)
(* its exit up.  The watchdog replaces dead listeners meanwhile.  Time passes *)
(* in ticks of 15 s; what fails outside is a choice of the environment.      *)
(***************************************************************************)
EXTENDS Integers, FiniteSets, Sequences

CONSTANTS
    Slots,
    Permits,   \* HEALTH_PROBE_WORKERS
    Validity,  \* ticks a reference result is used again (15 s)
    Retry,     \* HEALTH_RETRY_INTERVAL_SECONDS (30 s)
    Interval,  \* HEALTH_INTERVAL_SECONDS (300 s)
    Backoff,   \* HEALTH_BACKOFF_SECONDS, at least one delay
    MaxFaults  \* bound: outages, lost paths, dead listeners, stops and errors

ASSUME HealthAssumption ==
    /\ IsFiniteSet(Slots)
    /\ Permits \in Nat \ {0} /\ MaxFaults \in Nat
    /\ Validity \in Nat /\ Retry \in Nat /\ Interval \in Nat
    /\ Backoff \in Seq(Nat) /\ Backoff # <<>>

VARIABLES
    host,      \* the VPS itself reaches the Internet
    path,      \* the VPN path of each slot leads anywhere
    listener,  \* SlotRuntime.listener: "up", "dead" or "none"
    row,       \* column state of each slot
    requested, \* SlotRuntime.health_check_requested
    repairing, \* the watchdog has bound a new listener, not yet the request
    loop,      \* the health loop: where it is, what it knows, failures, delay
    permits,   \* _health_slots
    ref,       \* _reference_result and the ticks left to _reference_expires
    faults,    \* faults so far
    untried,   \* ghost: no probe has begun through the slot's listener
    rounds,    \* ghost: transport failures in a row, up to two
    excused    \* ghost: the host was down since the first of these failures,
               \* the slot's own path was not, and no request cut a delay short

vars == <<host, path, listener, row, requested, repairing, loop, permits, ref, faults, untried, rounds, excused>>

Working == {"probe", "socks", "tunnel", "judge", "decide"}
Ladder == Len(Backoff)
LoopRec == [pc : {"dial", "wait", "acquire"} \cup Working, seen : {"none", "ok", "local", "failed"},
            fails : 0..Ladder + 1, wait : Nat]
Dialling == [pc |-> "dial", seen |-> "none", fails |-> 0, wait |-> 0]

TypeOK ==
    /\ host \in BOOLEAN /\ path \in [Slots -> BOOLEAN]
    /\ listener \in [Slots -> {"up", "dead", "none"}]
    /\ row \in [Slots -> {"connecting", "ready", "degraded"}]
    /\ requested \in [Slots -> BOOLEAN] /\ repairing \in [Slots -> BOOLEAN]
    /\ loop \in [Slots -> LoopRec]
    /\ permits \in 0..Permits
    /\ ref \in [ok : BOOLEAN, left : 0..Validity]
    /\ faults \in 0..MaxFaults
    /\ untried \in [Slots -> BOOLEAN] /\ rounds \in [Slots -> 0..2] /\ excused \in [Slots -> BOOLEAN]

Init ==
    /\ host = TRUE /\ path = [s \in Slots |-> FALSE]
    /\ listener = [s \in Slots |-> "none"]
    /\ row = [s \in Slots |-> "connecting"]
    /\ requested = [s \in Slots |-> FALSE] /\ repairing = [s \in Slots |-> FALSE]
    /\ loop = [s \in Slots |-> Dialling]
    /\ permits = Permits
    /\ ref = [ok |-> FALSE, left |-> 0]
    /\ faults = 0
    /\ untried = [s \in Slots |-> FALSE] /\ rounds = [s \in Slots |-> 0]
    /\ excused = [s \in Slots |-> FALSE]

Fault == faults < MaxFaults /\ faults' = faults + 1

\* A dial succeeds: the client path has been requested once, before commit_ready.
Serve(s) ==
    /\ loop[s].pc = "dial" /\ host
    /\ path' = [path EXCEPT ![s] = TRUE]
    /\ listener' = [listener EXCEPT ![s] = "up"]
    /\ \E state \in {"ready", "degraded"} :
         /\ row' = [row EXCEPT ![s] = state]
         /\ loop' = [loop EXCEPT ![s] = [Dialling EXCEPT !.pc = "wait",
                         !.wait = IF state = "ready" THEN Interval ELSE Retry]]
    /\ requested' = [requested EXCEPT ![s] = FALSE]
    /\ untried' = [untried EXCEPT ![s] = FALSE]
    /\ excused' = [excused EXCEPT ![s] = FALSE]
    /\ rounds' = [rounds EXCEPT ![s] = 0]
    /\ UNCHANGED <<host, repairing, permits, ref, faults>>

\* Mutant: a worker that holds no permit gives one back.
LeaveReleases(s) ==
    /\ loop' = [loop EXCEPT ![s] = Dialling]
    /\ permits' = permits + 1
    /\ listener' = [listener EXCEPT ![s] = "none"]
    /\ row' = [row EXCEPT ![s] = "connecting"]
    /\ path' = [path EXCEPT ![s] = FALSE]
    /\ repairing' = [repairing EXCEPT ![s] = FALSE]
    /\ UNCHANGED <<host, requested, ref, untried, rounds, excused>>

\* The end of a connection: fail_slot, or stop_slot of someone else.  The next
\* dial begins; a worker that works gives its permit back.
Leave(s) ==
    /\ loop' = [loop EXCEPT ![s] = Dialling]
    /\ permits' = permits + (IF loop[s].pc \in Working THEN 1 ELSE 0)
    /\ listener' = [listener EXCEPT ![s] = "none"]
    /\ row' = [row EXCEPT ![s] = "connecting"]
    /\ path' = [path EXCEPT ![s] = FALSE]
    /\ repairing' = [repairing EXCEPT ![s] = FALSE]
    /\ UNCHANGED <<host, requested, ref, untried, rounds, excused>>

\* Stopped, or an error of the store: the worker notices at its next test.
\* Process and policy route are tested at the end of each wait.
Interrupt(s) == loop[s].pc # "dial" /\ Fault /\ Leave(s)

\* _wait_for_health_check: the delay is over, or a repair asks for a check.
Wake(s) ==
    /\ loop[s].pc = "wait"
    /\ requested[s] \/ loop[s].wait = 0
    /\ requested' = [requested EXCEPT ![s] = FALSE]
    /\ loop' = [loop EXCEPT ![s].pc = "acquire"]
    /\ excused' = [excused EXCEPT ![s] = @ /\ ~requested[s]]
    /\ UNCHANGED <<host, path, listener, row, repairing, permits, ref, faults, untried, rounds>>

Acquire(s) ==
    /\ loop[s].pc = "acquire" /\ permits > 0
    /\ permits' = permits - 1
    /\ loop' = [loop EXCEPT ![s].pc = "probe"]
    /\ UNCHANGED <<host, path, listener, row, requested, repairing, ref, faults, untried, rounds, excused>>

\* _check_client_targets, with its second target; a missing listener is not asked.
Probe(s) ==
    LET seen == IF listener[s] # "up" THEN "local"
                ELSE IF path[s] /\ host THEN "ok" ELSE "failed"
    IN
    /\ loop[s].pc = "probe"
    /\ loop' = [loop EXCEPT ![s] = [@ EXCEPT !.pc = "socks", !.seen = seen]]
    /\ untried' = [untried EXCEPT ![s] = FALSE]
    /\ excused' = [excused EXCEPT ![s] =
                      IF loop[s].fails = 0 THEN seen = "failed" /\ path[s] /\ ~host ELSE @]
    /\ rounds' = [rounds EXCEPT ![s] = IF seen # "failed" THEN 0 ELSE IF @ < 2 THEN @ + 1 ELSE @]
    /\ UNCHANGED <<host, path, listener, row, requested, repairing, permits, ref, faults>>

\* The delay after the n-th failure in a row.
Delay(n) == IF n = 0 THEN Interval ELSE IF n = 1 THEN Retry ELSE Backoff[n - 1]

\* The permit goes back in the finally clause of the round.
EndRound(s, n) ==
    /\ loop' = [loop EXCEPT ![s] = [pc |-> "wait", seen |-> "none", fails |-> n, wait |-> Delay(n)]]
    /\ permits' = permits + 1

\* Mutant: failures are not counted beyond the first.
ReportForgets(s) ==
    /\ loop[s].pc = "socks"
    /\ row' = [row EXCEPT ![s] = IF loop[s].seen = "ok" THEN "ready" ELSE "degraded"]
    /\ EndRound(s, IF loop[s].seen = "ok" THEN 0 ELSE 1)
    /\ UNCHANGED <<host, path, listener, requested, repairing, ref, faults, untried, rounds, excused>>

\* _update_health; a second failure that is not the listener's is diagnosed.
Report(s) ==
    LET seen == loop[s].seen
        n == IF seen = "ok" THEN 0 ELSE IF loop[s].fails > Ladder THEN Ladder + 1 ELSE loop[s].fails + 1
    IN
    /\ loop[s].pc = "socks"
    /\ row' = [row EXCEPT ![s] = IF seen = "ok" THEN "ready" ELSE "degraded"]
    /\ IF n >= 2 /\ seen = "failed"
       THEN loop' = [loop EXCEPT ![s] = [@ EXCEPT !.pc = "tunnel", !.fails = n]] /\ UNCHANGED permits
       ELSE EndRound(s, n)
    /\ UNCHANGED <<host, path, listener, requested, repairing, ref, faults, untried, rounds, excused>>

\* Mutant: a tunnel that answers ends the round without its permit.
ProbeTunnelKeepsPermit(s) ==
    /\ loop[s].pc = "tunnel"
    /\ row' = [row EXCEPT ![s] = "degraded"]
    /\ loop' = [loop EXCEPT ![s] = IF path[s] /\ host
                   THEN [@ EXCEPT !.pc = "wait", !.seen = "none", !.wait = Delay(loop[s].fails)]
                   ELSE [@ EXCEPT !.pc = "judge"]]
    /\ UNCHANGED <<host, path, listener, requested, repairing, permits, ref, faults, untried, rounds, excused>>

\* The same target through the tunnel device, without the listener.
ProbeTunnel(s) ==
    /\ loop[s].pc = "tunnel"
    /\ row' = [row EXCEPT ![s] = "degraded"]
    /\ IF path[s] /\ host THEN EndRound(s, loop[s].fails)
       ELSE loop' = [loop EXCEPT ![s].pc = "judge"] /\ UNCHANGED permits
    /\ UNCHANGED <<host, path, listener, requested, repairing, ref, faults, untried, rounds, excused>>

\* Mutant: the result of an earlier reference is used as long as there is one.
ReferenceForever == IF ref.left > 0 \/ ref.ok THEN ref ELSE [ok |-> host, left |-> Validity]

\* probe_health_reference, past the tunnel, under _reference_lock.
Reference == IF ref.left > 0 THEN ref ELSE [ok |-> host, left |-> Validity]

Judge(s) ==
    /\ loop[s].pc = "judge"
    /\ ref' = Reference
    /\ loop' = [loop EXCEPT ![s] = [@ EXCEPT !.pc = "decide", !.seen = IF ref'.ok THEN "failed" ELSE "none"]]
    /\ UNCHANGED <<host, path, listener, row, requested, repairing, permits, faults, untried, rounds, excused>>

\* The exit is given up: _handle_connection_failure.
GiveUp(s) ==
    /\ loop[s].pc = "decide" /\ loop[s].seen = "failed"
    /\ Leave(s) /\ UNCHANGED faults

\* shared_unavailable: the tunnel is kept.
Retain(s) ==
    /\ loop[s].pc = "decide" /\ loop[s].seen = "none"
    /\ row' = [row EXCEPT ![s] = "degraded"]
    /\ EndRound(s, loop[s].fails)
    /\ UNCHANGED <<host, path, listener, requested, repairing, ref, faults, untried, rounds, excused>>

\* Mutant: the repair does not ask for a check.
RepairSilently(s) ==
    /\ loop[s].pc # "dial" /\ listener[s] # "up" /\ ~repairing[s]
    /\ row' = [row EXCEPT ![s] = "degraded"]
    /\ listener' = [listener EXCEPT ![s] = "up"]
    /\ untried' = [untried EXCEPT ![s] = TRUE]
    /\ UNCHANGED <<host, path, requested, repairing, loop, permits, ref, faults, rounds, excused>>

\* _repair_listener by the watchdog, up to the new listener; it may not bind.
Repair(s) ==
    /\ loop[s].pc # "dial" /\ listener[s] # "up" /\ ~repairing[s]
    /\ row' = [row EXCEPT ![s] = "degraded"]
    /\ \/ /\ listener' = [listener EXCEPT ![s] = "up"]
          /\ untried' = [untried EXCEPT ![s] = TRUE]
          /\ repairing' = [repairing EXCEPT ![s] = TRUE]
          /\ UNCHANGED faults
       \/ /\ Fault
          /\ listener' = [listener EXCEPT ![s] = "none"]
          /\ UNCHANGED <<untried, repairing>>
    /\ UNCHANGED <<host, path, requested, loop, permits, ref, rounds, excused>>

\* Then it sets health_check_requested, without a lock the loop would take.
Request(s) ==
    /\ repairing[s]
    /\ repairing' = [repairing EXCEPT ![s] = FALSE]
    /\ requested' = [requested EXCEPT ![s] = TRUE]
    /\ UNCHANGED <<host, path, listener, row, loop, permits, ref, faults, untried, rounds, excused>>

\* Outages begin and end, a path is lost in silence, a listener dies.
HostChanges ==
    /\ IF host THEN Fault ELSE UNCHANGED faults
    /\ host' = ~host
    /\ excused' = [s \in Slots |-> IF host THEN excused[s] ELSE FALSE]
    /\ UNCHANGED <<path, listener, row, requested, repairing, loop, permits, ref, untried, rounds>>

PathLost(s) ==
    /\ path[s] /\ Fault
    /\ path' = [path EXCEPT ![s] = FALSE]
    /\ excused' = [excused EXCEPT ![s] = FALSE]
    /\ UNCHANGED <<host, listener, row, requested, repairing, loop, permits, ref, untried, rounds>>

ListenerDies(s) ==
    /\ listener[s] = "up" /\ Fault
    /\ listener' = [listener EXCEPT ![s] = "dead"]
    /\ UNCHANGED <<host, path, row, requested, repairing, loop, permits, ref, untried, rounds, excused>>

Sooner(n) == IF n > 0 THEN n - 1 ELSE 0

Tick ==
    /\ loop' = [s \in Slots |-> [loop[s] EXCEPT !.wait = Sooner(@)]]
    /\ ref' = [ref EXCEPT !.left = Sooner(@)]
    /\ <<loop, ref>>' # <<loop, ref>>
    /\ UNCHANGED <<host, path, listener, row, requested, repairing, permits, faults, untried, rounds, excused>>

Step(s) ==
    \/ Wake(s) \/ Acquire(s) \/ Probe(s) \/ Report(s) \/ ProbeTunnel(s)
    \/ Judge(s) \/ GiveUp(s) \/ Retain(s)
Watch(s) == Repair(s) \/ Request(s)

Next ==
    \/ \E s \in Slots : Serve(s) \/ Step(s) \/ Watch(s) \/ Interrupt(s) \/ PathLost(s) \/ ListenerDies(s)
    \/ HostChanges \/ Tick

Spec == Init /\ [][Next]_vars

\* Threads run, time passes, and a loop that polls for a permit each second
\* gets one of those that are given back again and again.
Fairness ==
    /\ WF_vars(Tick)
    /\ \A s \in Slots : WF_vars(Step(s)) /\ SF_vars(Acquire(s)) /\ WF_vars(Watch(s)) /\ WF_vars(Serve(s))

FairSpec == Spec /\ Fairness

-----------------------------------------------------------------------------

\* Every path through the nested functions of a round gives the permit back.
PermitsConserved == permits + Cardinality({s \in Slots : loop[s].pc \in Working}) = Permits

\* An outage of the host that lasts from the first failed round of a slot to
\* its verdict never costs a working tunnel: a shared reference older than the
\* first round has expired, unless a repair asked for the second one early.
OutageKeepsTunnels == [][\A s \in Slots : GiveUp(s) => ~excused[s]]_vars

\* A loop does not go back to its long wait with a listener nobody has tried:
\* the request of the repair is neither lost nor consumed too early.
RepairWakes == \A s \in Slots : loop[s].pc = "wait" /\ untried[s] => requested[s] \/ repairing[s]

\* A slot whose path is gone, and whose listener works, is not kept for good
\* while the host is connected.
DeadExitLeft == \A s \in Slots :
    []<>(loop[s].pc = "dial" \/ path[s] \/ ~host \/ listener[s] # "up")

\* README: after a repair a slot stays degraded until a real request went
\* through the new listener.
ReadyVerified == \A s \in Slots : row[s] = "ready" => ~untried[s]

\* Comment in _handle_probe_failure: an outage of the host must not tear down
\* every live tunnel (here: all are given up, and all lead somewhere).
NotEveryTunnel ==
    \E s \in Slots : ~(loop[s].pc = "decide" /\ loop[s].seen = "failed" /\ path[s])

=============================================================================
