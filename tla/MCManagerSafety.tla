--------------------------- MODULE MCManagerSafety ---------------------------
(***************************************************************************)
(* ManagerSafety on small instances.                                         *)
(***************************************************************************)
EXTENDS ManagerSafety

MCBackoff == <<2, 3>>

\* All nodes are in the country the slot wants, or any.
MCCountry == [n \in Nodes |-> "JP"]
MCWant    == [s \in PoolSlots |-> "JP"]

MCTemplate == <<"JP", "JP", "KR", "US">>

\* Databases the first start finds: none; one of the first version with two
\* slots of any country; one that lacks a column and has all slots.
SlotRows(n, country) == [i \in 1..n |-> [country |-> country, port |-> i]]
MCDatabases == {[columns |-> {}, rows |-> SlotRows(0, "JP")],
                [columns |-> {}, rows |-> SlotRows(2, "ANY")],
                [columns |-> {"egress_status"}, rows |-> SlotRows(3, "US")]}

\* Settings on both sides of every limit of the profile.
MCMemory      == {0, 2, 3, 4, 5, 6, 8, 9}
MCSlotCounts  == {0, 2, 3, 4, 8, 34}
MCDialWorkers == {0, 1, 2, 3, 34, 35}

=============================================================================
