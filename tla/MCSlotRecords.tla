---------------------------- MODULE MCSlotRecords ----------------------------
\* SlotRecords for TLC: an empty database and four slots.
EXTENDS SlotRecords, TLC

MCTemplate == <<"JP", "JP", "KR", "US">>
MCDatabases == {[columns |-> Columns, rows |-> [i \in {} |-> None]]}

=============================================================================
