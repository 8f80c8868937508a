---------------------------- MODULE TrafficReport ----------------------------
(***************************************************************************)
(* Traffic accounting between vps/agent.py (report_status, its state file, *)
(* restarts) and the report handler of functions/api/[[path]].js (receipts *)
(* per report_id, one batch transaction over D1).                          *)
(*                                                                         *)
(* The agent bills differences of sing-box counters. A report that was     *)
(* sent is kept, in memory and in the state file, until an answer arrives; *)
(* answers and requests get lost or come late, the agent and sing-box may  *)
(* restart and the disk may refuse a write at any point.                   *)
(***************************************************************************)
EXTENDS Naturals, FiniteSets

CONSTANTS
    Nodes,      \* inbounds of this VPS
    Ids,        \* names for report_id
    Slots,      \* request handlers that may exist at the same time
    None,
    MaxBytes,   \* bound on a counter and on the bytes served
    Faults      \* subset of {"crash", "reset", "delist", "unreadable", "disk"}

\* There is always a name that the requests and the state file do not hold.
TrafficAssumption ==
    /\ None \notin Ids \cup Slots \cup Nat
    /\ MaxBytes \in Nat
    /\ \A i \in Ids \cup {None}, held \in [Slots -> Ids \cup {None}] :
         Ids \ ({i} \cup {held[h] : h \in Slots}) # {}

VARIABLES
    served,    \* bytes a node has really carried
    counter,   \* cumulative bytes sing-box reports for its inbound
    listed,    \* heartbeat_state["nodes"]
    memory,    \* the module globals of the agent
    disk,      \* traffic-state.json
    pc,        \* where report_status is
    sending,   \* the handler that serves the request in progress
    handler,   \* requests on their way and in the cloud
    receipts,  \* report_receipts with applied = 1
    used       \* nodes.traffic_used

vars == <<served, counter, listed, memory, disk, pc, sending, handler, receipts, used>>

Bytes   == 0..MaxBytes
Partial == [Nodes -> Bytes \cup {None}]
NoBytes == [n \in Nodes |-> None]
NoDelta == [n \in Nodes |-> 0]

\* last: last_reported_bytes. id, bytes, traffic: pending_report_id, _bytes,
\* _node_traffic. frozen: pending_report_payload is set, and holds that traffic.
Ledger  == [last : Partial, id : Ids \cup {None}, bytes : Partial,
            traffic : [Nodes -> Bytes], frozen : BOOLEAN]
Handler == [stage : {"free", "arriving", "checked", "answered"}, id : Ids \cup {None},
            traffic : [Nodes -> Bytes], duplicate : BOOLEAN]

TypeOK ==
    /\ served \in [Nodes -> Bytes]
    /\ counter \in [Nodes -> Bytes]
    /\ listed \subseteq Nodes
    /\ memory \in Ledger
    /\ disk \in Ledger
    /\ pc \in {"idle", "measured", "waiting"}
    /\ sending \in Slots \cup {None}
    /\ handler \in [Slots -> Handler]
    /\ receipts \subseteq Ids
    /\ used \in [Nodes -> Bytes]

Settled(last) == [last |-> last, id |-> None, bytes |-> NoBytes,
                  traffic |-> NoDelta, frozen |-> FALSE]
FreeHandler   == [stage |-> "free", id |-> None, traffic |-> NoDelta, duplicate |-> FALSE]

Init ==
    /\ served = [n \in Nodes |-> 0]
    /\ counter = [n \in Nodes |-> 0]
    /\ listed = Nodes
    /\ memory = Settled([n \in Nodes |-> 0])
    /\ disk = memory
    /\ pc = "idle"
    /\ sending = None
    /\ handler = [h \in Slots |-> FreeHandler]
    /\ receipts = {}
    /\ used = [n \in Nodes |-> 0]

cloudVars == <<handler, receipts, used>>
agentVars == <<memory, disk, pc, sending>>
worldVars == <<served, counter, listed>>

-----------------------------------------------------------------------------
(* The agent *)

\* A counter below its baseline was restarted: all it shows is new. A node seen
\* for the first time only gets a baseline.
Delta(n) ==
    LET base == IF memory.last[n] = None THEN counter[n] ELSE memory.last[n]
    IN  IF counter[n] >= base THEN counter[n] - base ELSE counter[n]

\* A node without a readable counter keeps its baseline; a node that is no
\* longer listed loses it.
Readings(readable) == [n \in Nodes |->
    IF n \in readable THEN counter[n] ELSE IF n \in listed THEN memory.last[n] ELSE None]

\* A name nothing remembers, whichever: report_id is the time in nanoseconds.
Remembered == {memory.id, disk.id} \cup {handler[h].id : h \in Slots}
Unused     == CHOOSE i \in Ids : i \notin Remembered

\* Mutant: the baseline moves on while an older report waits for its answer.
MeasuredRebased(readable, id) ==
    IF memory.frozen
      THEN [memory EXCEPT !.bytes = Readings(readable)]
      ELSE [last |-> memory.last, id |-> id, bytes |-> Readings(readable),
            traffic |-> [n \in Nodes |-> IF n \in readable THEN Delta(n) ELSE 0],
            frozen |-> FALSE]

\* The ledger after a measurement: a report that was sent stays as it was.
Measured(readable, id) ==
    IF memory.frozen
      THEN memory
      ELSE [last |-> memory.last, id |-> id, bytes |-> Readings(readable),
            traffic |-> [n \in Nodes |-> IF n \in readable THEN Delta(n) ELSE 0],
            frozen |-> FALSE]

\* _write_json_state replaces the file atomically, or raises and leaves it.
WriteOK(ledger) == disk' = ledger
WriteFails      == "disk" \in Faults /\ UNCHANGED disk

\* report_status up to the first write of the state file; a write that fails
\* ends the call with the globals already changed.
Measure ==
    /\ pc = "idle"
    /\ \E readable \in IF "unreadable" \in Faults THEN SUBSET listed ELSE {listed} :
       LET id == IF memory.id = None THEN Unused ELSE memory.id IN
         /\ memory' = Measured(readable, id)
         /\ receipts' = receipts \cap Remembered
    /\ \/ WriteOK(memory') /\ pc' = "measured"
       \/ WriteFails /\ pc' = "idle"
    /\ UNCHANGED <<sending, handler, used, worldVars>>

\* Sent over the websocket, for display only, or not allowed to use HTTP now.
Display ==
    /\ pc = "measured"
    /\ pc' = "idle"
    /\ UNCHANGED <<memory, disk, sending, cloudVars, worldVars>>

\* The payload is kept before it is sent for the first time.
Freeze ==
    /\ pc = "measured" /\ ~memory.frozen
    /\ memory' = [memory EXCEPT !.frozen = TRUE]
    /\ \/ WriteOK(memory') /\ UNCHANGED pc
       \/ WriteFails /\ pc' = "idle"
    /\ UNCHANGED <<sending, cloudVars, worldVars>>

Send ==
    /\ pc = "measured" /\ memory.frozen
    /\ \E h \in Slots : handler[h].stage = "free"
    /\ LET h == CHOOSE g \in Slots : handler[g].stage = "free" IN
         /\ handler' = [handler EXCEPT ![h] = [stage |-> "arriving", id |-> memory.id,
                          traffic |-> memory.traffic, duplicate |-> FALSE]]
         /\ sending' = h
    /\ pc' = "waiting"
    /\ UNCHANGED <<memory, disk, receipts, used, worldVars>>

\* Mutant: the globals are cleared before the answer is read.
AnsweredEarly ==
    /\ pc = "waiting"
    /\ memory' = Settled(memory.bytes)
    /\ \/ WriteOK(memory')
       \/ WriteFails
    /\ handler' = [handler EXCEPT ![sending] = IF @.stage = "answered" THEN FreeHandler ELSE @]
    /\ pc' = "idle"
    /\ sending' = None
    /\ UNCHANGED <<receipts, used, worldVars>>

\* The answer arrives: the baseline advances, the report is forgotten. If the
\* write fails now, only the file still holds the report.
Answered ==
    /\ pc = "waiting" /\ handler[sending].stage = "answered"
    /\ memory' = Settled(memory.bytes)
    /\ \/ WriteOK(memory')
       \/ WriteFails
    /\ handler' = [handler EXCEPT ![sending] = FreeHandler]
    /\ pc' = "idle"
    /\ sending' = None
    /\ UNCHANGED <<receipts, used, worldVars>>

\* No answer within 5 s, an error status, or an answer that does not parse. The
\* handler may be at work all the same.
TimesOut ==
    /\ pc = "waiting"
    /\ pc' = "idle"
    /\ sending' = None
    /\ UNCHANGED <<memory, disk, cloudVars, worldVars>>

\* The process ends and starts again from traffic-state.json.
Crash ==
    /\ "crash" \in Faults
    /\ memory' = disk
    /\ pc' = "idle"
    /\ sending' = None
    /\ UNCHANGED <<disk, cloudVars, worldVars>>

-----------------------------------------------------------------------------
(* The cloud *)

\* SELECT report_id ... applied = 1, awaited before anything is written.
CloudCheck(h) ==
    /\ handler[h].stage = "arriving"
    /\ handler' = [handler EXCEPT ![h].stage = "checked",
                                  ![h].duplicate = handler[h].id \in receipts]
    /\ UNCHANGED <<receipts, used, agentVars, worldVars>>

\* Mutant: the statements do not look at the receipt again.
CloudApplyUnchecked(h) ==
    /\ handler[h].stage = "checked"
    /\ IF ~handler[h].duplicate
         THEN /\ used' = [n \in Nodes |-> used[n] + handler[h].traffic[n]]
              /\ receipts' = receipts \cup {handler[h].id}
         ELSE UNCHANGED <<used, receipts>>
    /\ handler' = [handler EXCEPT ![h].stage = "answered"]
    /\ UNCHANGED <<agentVars, worldVars>>

\* db.batch: insert the receipt, add the deltas where it is not applied, mark it.
CloudApply(h) ==
    /\ handler[h].stage = "checked"
    /\ IF ~handler[h].duplicate /\ handler[h].id \notin receipts
         THEN /\ used' = [n \in Nodes |-> used[n] + handler[h].traffic[n]]
              /\ receipts' = receipts \cup {handler[h].id}
         ELSE UNCHANGED <<used, receipts>>
    /\ handler' = [handler EXCEPT ![h].stage = "answered"]
    /\ UNCHANGED <<agentVars, worldVars>>

\* A request is lost before it has an effect, or its answer has no reader.
CloudLost(h) ==
    /\ handler[h].stage # "free"
    /\ h # sending
    /\ handler' = [handler EXCEPT ![h] = FreeHandler]
    /\ UNCHANGED <<receipts, used, agentVars, worldVars>>

-----------------------------------------------------------------------------
(* Traffic, and what changes the list of nodes or restarts the counters *)

Serve(n) ==
    /\ served[n] < MaxBytes
    /\ served' = [served EXCEPT ![n] = @ + 1]
    /\ counter' = [counter EXCEPT ![n] = @ + 1]
    /\ UNCHANGED <<listed, agentVars, cloudVars>>

SingboxRestarts ==
    /\ "reset" \in Faults
    /\ \E n \in Nodes : counter[n] # 0
    /\ counter' = [n \in Nodes |-> 0]
    /\ UNCHANGED <<served, listed, agentVars, cloudVars>>

Relist ==
    /\ "delist" \in Faults
    /\ \E l \in SUBSET Nodes : l # listed /\ listed' = l
    /\ UNCHANGED <<served, counter, agentVars, cloudVars>>

Next ==
    \/ Measure \/ Display \/ Freeze \/ Send \/ Answered \/ TimesOut \/ Crash
    \/ SingboxRestarts \/ Relist
    \/ \E n \in Nodes : Serve(n)
    \/ \E h \in Slots : CloudCheck(h) \/ CloudApply(h) \/ CloudLost(h)

Spec == Init /\ [][Next]_vars

-----------------------------------------------------------------------------

\* No byte is billed twice, whatever is lost, repeated, restarted or crashes
\* (agent.py:1068, [[path]].js:1060 and 1149-1166).
NeverOverbilled == \A n \in DOMAIN used : used[n] <= served[n]

\* A report_id stands for one set of deltas: what is retried, after a crash
\* too, is what was sent first. Otherwise its receipt would swallow bytes or
\* hide that they were applied (agent.py:1076, 1092).
OneContent ==
    \A h \in Slots : handler[h].id # None =>
        /\ \A g \in Slots : handler[g].id = handler[h].id =>
             handler[g].traffic = handler[h].traffic
        /\ memory.id = handler[h].id => memory.frozen /\ memory.traffic = handler[h].traffic
        /\ disk.id = handler[h].id => disk.frozen /\ disk.traffic = handler[h].traffic

\* While no counter restarts and no node leaves the list, the state file always
\* accounts for every byte billed: its baseline plus the report it holds, if
\* that was applied. Neither a crash nor a failed write loses bytes.
NothingLost ==
    \A n \in Nodes : used[n] =
        disk.last[n] + (IF disk.frozen /\ disk.id \in receipts THEN disk.traffic[n] ELSE 0)

\* If answers keep coming back, every byte is billed in the end: a crash costs a
\* repetition, never the report (agent.py:1095, 1105).
EveryByteBilled == []<><<Answered>>_vars => <>[](used = served)

\* Lost, late and repeated requests, crashes and restarts: each byte is billed at
\* most once, because a name keeps its content.
BilledOnce == NeverOverbilled /\ OneContent

=============================================================================
