------------------------------ MODULE SlotRecords ------------------------------
(***************************************************************************)
(* The database of slots over the starts of the container: initialize        *)
(* (vps/store.py) creates and migrates the tables, adds the rows the slot    *)
(* count asks for and resets countries that are no longer allowed; the       *)
(* manager then takes the first rows as its own (vps/exit_manager.py) while  *)
(* the handler of PUT changes them, in two steps.  The container may be       *)
(* killed at any of them, and started again with another slot count.         *)
(***************************************************************************)
EXTENDS Integers, FiniteSets

CONSTANTS
    MaxSlots,   \* MAX_SLOT_COUNT; slot i is born with port i
    Counts,     \* values KUI_SLOT_COUNT is given
    Ports,      \* ports a request may ask for
    Countries,  \* countries a request may ask for
    Allowed,    \* ALLOWED_COUNTRIES
    Template,   \* SLOT_COUNTRIES
    Columns,    \* columns added to the tables since their first version
    Databases,  \* databases the first start may find: [columns, rows]
    Clients,    \* threads that serve requests
    None

Row == [country : Countries \cup Allowed, port : 1..MaxSlots]

\* What an earlier version left keeps the UNIQUE of its table, too.
RecordsAssumption ==
    /\ MaxSlots \in Nat \ {0} /\ Counts \subseteq 1..MaxSlots /\ Ports \subseteq 1..MaxSlots
    /\ Template \in [1..MaxSlots -> Allowed]
    /\ None \notin [slot : 1..MaxSlots, row : Row]
    /\ \A d \in Databases :
         /\ d.columns \subseteq Columns
         /\ DOMAIN d.rows \subseteq 1..MaxSlots /\ \A i \in DOMAIN d.rows : d.rows[i] \in Row
         /\ \A i, j \in DOMAIN d.rows : d.rows[i].port = d.rows[j].port => i = j

VARIABLES
    mode,     \* "off", "schema", "slots", "check", "on", or "refused"
    count,    \* profile.slot_count of this start
    columns,  \* columns present
    rows,     \* table exit_slots
    managed,  \* ExitManager._managed_slot_ids
    request   \* what each client has validated and not yet written

vars == <<mode, count, columns, rows, managed, request>>

Request == [slot : 1..MaxSlots, row : Row]
Running == {"schema", "slots", "check", "on"}

TypeOK ==
    /\ mode \in Running \cup {"off", "refused"} /\ count \in Counts
    /\ columns \subseteq Columns
    /\ DOMAIN rows \subseteq 1..MaxSlots /\ \A i \in DOMAIN rows : rows[i] \in Row
    /\ managed \subseteq DOMAIN rows
    /\ \A c \in Clients : request[c] = None \/ request[c] \in Request

Init ==
    /\ mode = "off" /\ count \in Counts
    /\ \E d \in Databases : columns = d.columns /\ rows = d.rows
    /\ managed = {} /\ request = [c \in Clients |-> None]

-----------------------------------------------------------------------------
(* A start: LocalStore.initialize, then ExitManager.__init__ *)

\* .env may have changed: compose recreates the container.
Boot ==
    /\ mode = "off" /\ mode' = "schema" /\ count' \in Counts
    /\ UNCHANGED <<columns, rows, managed, request>>

\* CREATE TABLE IF NOT EXISTS leaves an old table alone; each missing column is
\* a statement of its own, outside of any transaction.
AddColumn ==
    /\ mode = "schema"
    /\ IF columns = Columns
         THEN mode' = "slots" /\ UNCHANGED columns
         ELSE \E c \in Columns \ columns : columns' = columns \cup {c} /\ UNCHANGED mode
    /\ UNCHANGED <<count, rows, managed, request>>

\* Mutant: INSERT OR REPLACE.
InsertedReplacing ==
    [i \in (DOMAIN rows) \cup (1..count) |->
        IF i <= count THEN [country |-> Template[i], port |-> i] ELSE rows[i]]

\* INSERT OR IGNORE: the row is skipped when its id or its port exists.
Inserted ==
    LET missing == {i \in 1..count : i \notin DOMAIN rows /\ \A j \in DOMAIN rows : rows[j].port # i}
    IN  [i \in (DOMAIN rows) \cup missing |->
            IF i \in missing THEN [country |-> Template[i], port |-> i] ELSE rows[i]]

\* One country that is not allowed, in whatever row, resets those of the first
\* count slots.
Strict(table) ==
    IF \E i \in DOMAIN table : table[i].country \notin Allowed
      THEN [i \in DOMAIN table |-> IF i <= count THEN [table[i] EXCEPT !.country = Template[i]] ELSE table[i]]
      ELSE table

\* The transaction that ends initialize.
InsertSlots ==
    /\ mode = "slots" /\ mode' = "check"
    /\ rows' = Strict(Inserted)
    /\ UNCHANGED <<count, columns, managed, request>>

\* The first count rows in the order of their ids; too few end the process.
First(n) == {i \in DOMAIN rows : Cardinality({j \in DOMAIN rows : j < i}) < n}

Manage ==
    /\ mode = "check"
    /\ IF count <= Cardinality(DOMAIN rows)
         THEN mode' = "on" /\ managed' = First(count)
         ELSE mode' = "refused" /\ UNCHANGED managed
    /\ UNCHANGED <<count, columns, rows, request>>

\* Killed, stopped or ended: the container is started again.
Kill ==
    /\ mode # "off" /\ mode' = "off"
    /\ managed' = {} /\ request' = [c \in Clients |-> None]
    /\ UNCHANGED <<count, columns, rows>>

-----------------------------------------------------------------------------
(* PUT /api/local/exits/<id>: validate_slot_update, then update_slot *)

PortFree(i, p) == \A j \in DOMAIN rows \ {i} : rows[j].port # p

\* Fields that are not given keep the value read here.
Validate(c) ==
    /\ mode = "on" /\ request[c] = None
    /\ \E i \in managed :
         \E country \in Countries \cup {rows[i].country}, port \in Ports \cup {rows[i].port} :
            /\ PortFree(i, port)
            /\ request' = [request EXCEPT ![c] = [slot |-> i, row |-> [country |-> country, port |-> port]]]
    /\ UNCHANGED <<mode, count, columns, rows, managed>>

\* The UNIQUE column refuses what another client has written meanwhile.
Write(c) ==
    /\ mode = "on" /\ request[c] # None
    /\ rows' = IF PortFree(request[c].slot, request[c].row.port)
                 THEN [rows EXCEPT ![request[c].slot] = request[c].row] ELSE rows
    /\ request' = [request EXCEPT ![c] = None]
    /\ UNCHANGED <<mode, count, columns, managed>>

Next ==
    \/ Boot \/ AddColumn \/ InsertSlots \/ Manage \/ Kill
    \/ \E c \in Clients : Validate(c) \/ Write(c)

Spec == Init /\ [][Next]_vars

-----------------------------------------------------------------------------
(* Properties *)

\* No two slots share a port, whatever requests run at the same time.
DistinctPorts == \A i, j \in DOMAIN rows : rows[i].port = rows[j].port => i = j

\* The code that runs finds every column, wherever an earlier start was killed
\* (test_initialize_migrates_legacy_management_tables_without_losing_rows).
FullyMigrated == mode \in {"slots", "check", "on"} => columns = Columns

\* No start removes a slot or moves its port (README.md:11: slots that are not
\* managed are not deleted).
SlotsKept ==
    [][mode # "on" => \A i \in DOMAIN rows : i \in DOMAIN rows' /\ rows'[i].port = rows[i].port]_vars

\* A manager begins with the first count slots, in countries that have nodes --
\* the gateway and the bridge count on exactly these -- unless one of them was
\* never created, which only another slot on its port can cause.
BeginsStrict ==
    [][mode = "check" /\ mode' = "on" =>
         \/ managed' = 1..count /\ \A i \in managed' : rows[i].country \in Allowed
         \/ \E i \in 1..count \ DOMAIN rows, j \in DOMAIN rows : rows[j].port = i]_vars

\* README.local.md: only the first N slots are those of the running profile,
\* and the gateway and the bridge take exit-01 to exit-N for them.
BeginsWithFirst == [][mode = "check" /\ mode' = "on" => managed' = 1..count]_vars

\* What every start of any version leaves of the slots, wherever the one before
\* it was killed and whatever the clients wrote in between.
RecordsSound == [](DistinctPorts /\ FullyMigrated) /\ SlotsKept /\ BeginsStrict

=============================================================================
