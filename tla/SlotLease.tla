------------------------------ MODULE SlotLease ------------------------------
(***************************************************************************)
(* What the generation fence and the dial semaphore of vps/exit_manager.py *)
(* promise, without threads, locks, processes or routes: a slot is leased  *)
(* to one connection worker at a time, a lease never passes from worker to *)
(* worker without having been withdrawn, at most DialPermits workers dial, *)
(* and only the lease holder, while it dials, commits the slot's entry.    *)
(***************************************************************************)
EXTENDS Naturals, FiniteSets

CONSTANTS Slots, Nodes, Workers, None, DialPermits

VARIABLES
    holders,  \* the worker each slot is leased to, if any
    dialing,  \* workers that have a permit to dial
    entry     \* the OpenVPN entry committed for each slot

leaseVars == <<holders, dialing, entry>>

LeaseInit ==
    /\ holders = [s \in Slots |-> {}]
    /\ dialing = {}
    /\ entry = [s \in Slots |-> None]

\* A worker that serves no slot and dials nowhere takes a free one.
Grant(s, w) ==
    /\ holders[s] = {} /\ w \notin dialing
    /\ \A o \in Slots : w \notin holders[o]
    /\ holders' = [holders EXCEPT ![s] = {w}]
    /\ UNCHANGED <<dialing, entry>>

\* A stop, a failure, a configuration change or the worker's end; a failure
\* also forgets the entry.
Withdraw(s) ==
    /\ holders[s] # {}
    /\ holders' = [holders EXCEPT ![s] = {}]
    /\ entry' \in {entry, [entry EXCEPT ![s] = None]}
    /\ UNCHANGED dialing

\* A stop that goes on forgets the entry, once nobody holds the slot.
Forget(s) ==
    /\ holders[s] = {}
    /\ entry' = [entry EXCEPT ![s] = None]
    /\ UNCHANGED <<holders, dialing>>

\* A worker may have lost its lease by the time it gets its permit.
Admit(w) ==
    /\ Cardinality(dialing) < DialPermits
    /\ dialing' = dialing \cup {w}
    /\ UNCHANGED <<holders, entry>>

Return(w) ==
    /\ dialing' = dialing \ {w}
    /\ UNCHANGED <<holders, entry>>

Commit(s, n) ==
    /\ holders[s] # {} /\ holders[s] \subseteq dialing
    /\ entry' = [entry EXCEPT ![s] = n]
    /\ UNCHANGED <<holders, dialing>>

LeaseNext ==
    \/ \E s \in Slots, w \in Workers : Grant(s, w)
    \/ \E s \in Slots : Withdraw(s) \/ Forget(s)
    \/ \E w \in Workers : Admit(w) \/ Return(w)
    \/ \E s \in Slots, n \in Nodes : Commit(s, n)

LeaseSpec == LeaseInit /\ [][LeaseNext]_leaseVars
=============================================================================
