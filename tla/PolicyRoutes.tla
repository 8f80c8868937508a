----------------------------- MODULE PolicyRoutes -----------------------------
(***************************************************************************)
(* The policy routes of one slot (vps/routing.py), one "ip" command at a     *)
(* time: its worker installs them, the worker's failure or a stop_slot on    *)
(* another thread removes them, any command may be refused.  ExitSlots takes *)
(* an installation and a cleanup as single steps and looks at workers that   *)
(* overlap and at the publication of the listener; here a worker ends before *)
(* the next one starts, and publication is one step.                         *)
(***************************************************************************)
EXTENDS Naturals

CONSTANTS
    MaxRefusals, \* bound: commands the kernel refuses for a reason of its own
    MaxStops     \* bound: calls of stop_slot

ASSUME RouteAssumption == MaxRefusals \in Nat /\ MaxStops \in Nat

VARIABLES
    table,    \* routes of the slot's table
    rules,    \* rules for the slot's mark
    tun,      \* OpenVPN runs and its device exists
    port,     \* the published listener accepts clients
    worker,   \* what _connect_worker does and how many commands it has run
    stopper,  \* the same for stop_slot
    stop,     \* SlotRuntime.stop
    refusals, \* commands refused so far
    stops     \* calls of stop_slot so far

vars == <<table, rules, tun, port, worker, stopper, stop, refusals, stops>>

At(pc, n) == [pc |-> pc, n |-> n]
Cleaning == {"pre", "undo", "fail"}
Steps == {"none", "dial", "add", "commit", "serve", "except"} \cup Cleaning
WorkerRec == [pc : Steps, n : 0..3]
StopperRec == [pc : {"none", "clean"}, n : 0..2]

TypeOK ==
    /\ table \subseteq {"endpoint", "default"} /\ rules \subseteq {"lookup", "closed"}
    /\ tun \in BOOLEAN /\ port \in BOOLEAN /\ stop \in BOOLEAN
    /\ worker \in WorkerRec /\ stopper \in StopperRec
    /\ refusals \in 0..MaxRefusals /\ stops \in 0..MaxStops

\* initialize has cleaned up and nothing runs.
Init ==
    /\ table = {} /\ rules = {}
    /\ tun = FALSE /\ port = FALSE /\ stop = FALSE
    /\ worker = At("none", 0) /\ stopper = At("none", 0)
    /\ refusals = 0 /\ stops = 0

\* A command refused for a reason that is none of _MISSING_MESSAGES.
Refused == refusals < MaxRefusals /\ refusals' = refusals + 1

\* The n-th command of cleanup; what is missing already is no error.
Clean(n) ==
    /\ rules' = IF n < 2 THEN rules \ {<<"lookup", "closed">>[n + 1]} ELSE rules
    /\ table' = IF n = 2 THEN {} ELSE table

\* The n-th command of install succeeds; an entry that exists, or a device that
\* does not, is an error.
Addable(n) ==
    /\ n = 0 => "endpoint" \notin table
    /\ n = 1 => "default" \notin table /\ tun
    /\ n = 2 => "lookup" \notin rules
    /\ n = 3 => "closed" \notin rules
Add(n) ==
    /\ table' = IF n < 2 THEN table \cup {<<"endpoint", "default">>[n + 1]} ELSE table
    /\ rules' = IF n < 2 THEN rules ELSE rules \cup {<<"lookup", "closed">>[n - 1]}

\* start_slot begins a worker when the last one has ended; OpenVPN comes up.
Dial ==
    /\ worker.pc = "none" /\ stopper.pc = "none"
    /\ stop' = FALSE
    /\ worker' = At("dial", 0)
    /\ UNCHANGED <<table, rules, tun, port, stopper, refusals, stops>>

TunnelUp ==
    /\ worker.pc = "dial"
    /\ \/ ~stop /\ tun' = TRUE /\ worker' = At("pre", 0)
       \/ tun' = FALSE /\ worker' = At("except", 0)
    /\ UNCHANGED <<table, rules, port, stopper, stop, refusals, stops>>

\* Where a cleanup of the worker goes on: install adds or raises.
After == CASE worker.pc = "pre"  -> At("add", 0)
           [] worker.pc = "undo" -> At("except", 0)
           [] worker.pc = "fail" -> At("none", 0)

\* A cleanup of the worker; a refusal leaves the commands after it undone.
WorkerCleans ==
    /\ worker.pc \in Cleaning
    /\ \/ /\ Clean(worker.n)
          /\ worker' = IF worker.n < 2 THEN At(worker.pc, worker.n + 1) ELSE After
          /\ UNCHANGED refusals
       \/ /\ Refused
          /\ worker' = IF worker.pc = "fail" THEN At("none", 0) ELSE At("except", 0)
          /\ UNCHANGED <<table, rules>>
    /\ UNCHANGED <<tun, port, stopper, stop, stops>>

\* The four commands of install; an error undoes them and raises.
WorkerAdds ==
    /\ worker.pc = "add"
    /\ \/ /\ Addable(worker.n) /\ Add(worker.n)
          /\ worker' = IF worker.n < 3 THEN At("add", worker.n + 1) ELSE At("commit", 0)
          /\ UNCHANGED refusals
       \/ /\ \/ ~Addable(worker.n) /\ UNCHANGED refusals
             \/ Refused
          /\ worker' = At("undo", 0)
          /\ UNCHANGED <<table, rules>>
    /\ UNCHANGED <<tun, port, stopper, stop, stops>>

\* Everything between install and the published listener.
Commit ==
    /\ worker.pc = "commit"
    /\ \/ ~stop /\ port' = TRUE /\ worker' = At("serve", 0)
       \/ port' = FALSE /\ worker' = At("except", 0)
    /\ UNCHANGED <<table, rules, tun, stopper, stop, refusals, stops>>

\* _health_loop: the process ended, is_installed misses the default route, or
\* the slot was stopped.
HealthFails ==
    /\ worker.pc = "serve"
    /\ ~tun \/ "default" \notin table \/ stop
    /\ worker' = At("except", 0)
    /\ UNCHANGED <<table, rules, tun, port, stopper, stop, refusals, stops>>

\* Mutant: the failure removes the routes and leaves the port to the next start.
FailSlotOpen ==
    /\ worker.pc = "except" /\ stopper.pc = "none"
    /\ IF stop THEN worker' = At("none", 0) /\ UNCHANGED <<tun, port>>
       ELSE worker' = At("fail", 0) /\ tun' = FALSE /\ UNCHANGED port
    /\ stop' = TRUE
    /\ UNCHANGED <<table, rules, stopper, refusals, stops>>

\* A stale worker just ends.  fail_slot closes the listener and ends OpenVPN
\* before it cleans up, with the lock stop_slot takes.
FailSlot ==
    /\ worker.pc = "except" /\ stopper.pc = "none"
    /\ IF stop THEN worker' = At("none", 0) /\ UNCHANGED <<table, tun, port>>
       ELSE /\ worker' = At("fail", 0)
            /\ tun' = FALSE /\ port' = FALSE
            /\ table' = table \ {"default"}
    /\ stop' = TRUE
    /\ UNCHANGED <<rules, stopper, refusals, stops>>

\* stop_slot, up to its cleanup: listener, then process.
StopSlot ==
    /\ stopper.pc = "none" /\ worker.pc # "fail"
    /\ stops < MaxStops /\ stops' = stops + 1
    /\ stop' = TRUE /\ port' = FALSE
    /\ tun' = FALSE /\ table' = table \ {"default"}
    /\ stopper' = At("clean", 0)
    /\ UNCHANGED <<rules, worker, refusals>>

\* The same cleanup on the thread of stop_slot.
StopperCleans ==
    /\ stopper.pc = "clean"
    /\ \/ /\ Clean(stopper.n)
          /\ stopper' = IF stopper.n < 2 THEN At("clean", stopper.n + 1) ELSE At("none", 0)
          /\ UNCHANGED refusals
       \/ Refused /\ stopper' = At("none", 0) /\ UNCHANGED <<table, rules>>
    /\ UNCHANGED <<tun, port, worker, stop, stops>>

\* OpenVPN ends; the kernel drops the routes through its device.
TunnelLost ==
    /\ tun /\ tun' = FALSE
    /\ table' = table \ {"default"}
    /\ UNCHANGED <<rules, port, worker, stopper, stop, refusals, stops>>

WorkerStep == TunnelUp \/ WorkerCleans \/ WorkerAdds \/ Commit \/ HealthFails \/ FailSlot
Next == Dial \/ WorkerStep \/ StopSlot \/ StopperCleans \/ TunnelLost
Spec == Init /\ [][Next]_vars

-----------------------------------------------------------------------------

\* As long as clients may connect, marked packets that the tunnel does not take
\* meet the fail-closed rule, whatever was refused, lost or stopped meanwhile.
ClosedWhileOpen == port => "closed" \in rules

\* A worker that is past its installation, and not stopped, has both rules and
\* the route to its endpoint: no refusal is swallowed, by install or its undo.
InstalledWhole ==
    worker.pc \in {"commit", "serve"} /\ ~stop
        => rules = {"lookup", "closed"} /\ "endpoint" \in table

\* Whatever an interrupted cleanup, or one that met an installation, has left:
\* the next installation does not trip over it.
NoCollision == worker.pc = "add" => Addable(worker.n) \/ (worker.n = 1 /\ ~tun)

=============================================================================
