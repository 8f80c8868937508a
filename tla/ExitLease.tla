------------------------------ MODULE ExitLease ------------------------------
(***************************************************************************)
(* ExitSlots seen as SlotLease: the holder of a slot is the worker that    *)
(* carries its current generation.                                         *)
(***************************************************************************)
EXTENDS ExitSlots

Lease == INSTANCE SlotLease WITH
    holders <- [s \in Slots |-> Owners(s)],
    dialing <- Dialing,
    entry   <- [s \in Slots |-> row[s].entry]

\* Workers, requests, retries and the watchdog together keep what SlotLease
\* promises: generation, stop event and semaphore amount to leases.
LeaseKept == Lease!LeaseSpec
=============================================================================
