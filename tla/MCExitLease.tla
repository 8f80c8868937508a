---------------------------- MODULE MCExitLease ----------------------------
(* Values for the constants of ExitLease that a configuration cannot write.  *)
EXTENDS ExitLease, TLC

\* Sound here: LeaseKept is a safety property and names no worker, node or slot.
Symmetry == Permutations(Workers) \cup Permutations(Nodes) \cup Permutations(Slots)

\* As in MCExitSlots: steps that wait on the network for more than 3 s.
Slow == {"verify", "probe", "probing"}
=============================================================================
