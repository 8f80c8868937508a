----------------------------- MODULE MCNodeSafety -----------------------------
(***************************************************************************)
(* NodeSafety on small instances.                                            *)
(***************************************************************************)
EXTENDS NodeSafety

\* One or two slots, with and without the direct node and credentials in .env.
MCSettings == {[count |-> 1, host |-> TRUE, explicit |-> 0],
               [count |-> 2, host |-> FALSE, explicit |-> 0],
               [count |-> 2, host |-> FALSE, explicit |-> 9]}

\* No file; one of version 1 with keys for each slot; one whose first slot has
\* no short id; one without the first slot; one whose first slot has no keys.
Old(key, sid, uuid) == [uuid |-> uuid, key |-> key, sid |-> sid]
MCStored == {<<>>, <<Old(1, 1, 1), Old(2, 2, 2)>>, <<Old(1, 0, 1)>>, [s \in {2} |-> Old(2, 2, 2)],
             <<Old(0, 0, 1), Old(2, 2, 2)>>}

\* The first node alone, or with one of another country.
MCCountry      == [n \in LiteNodes |-> "JP"]
MCSpareCountry == [n \in SpareNodes |-> IF n \in LiteNodes THEN "JP" ELSE "US"]

=============================================================================
