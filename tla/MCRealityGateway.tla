--------------------------- MODULE MCRealityGateway ---------------------------
EXTENDS RealityGateway

\* Two slots and the direct node.
MCOne == {[count |-> 2, host |-> TRUE, explicit |-> 0]}

\* No file; one of version 1 with keys for each slot; one whose first slot has
\* no short id; one without the first slot; one whose first slot has no keys.
Old(key, sid, uuid) == [uuid |-> uuid, key |-> key, sid |-> sid]
MCStored == {<<>>, <<Old(1, 1, 1), Old(2, 2, 2)>>, <<Old(1, 0, 1)>>, [s \in {2} |-> Old(2, 2, 2)],
             <<Old(0, 0, 1), Old(2, 2, 2)>>}
MCNothing == {<<>>}
=============================================================================
