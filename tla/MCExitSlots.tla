---------------------------- MODULE MCExitSlots ----------------------------
(* Values for the constants of ExitSlots that a configuration cannot write.  *)
EXTENDS ExitSlots, TLC

\* Sound for runs without temporal properties: nothing tells two workers, two
\* nodes or two slots apart.
Symmetry == Permutations(Workers) \cup Permutations(Nodes) \cup Permutations(Slots)

\* Steps that wait on the network for more than the 3 s a join waits: residential
\* and target checks, the probes through the prepared listener, the health probe.
Slow == {"verify", "probe", "probing"}
=============================================================================
