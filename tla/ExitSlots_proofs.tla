-------------------------- MODULE ExitSlots_proofs --------------------------
(***************************************************************************)
(* Proofs about ExitSlots for every number of slots, nodes, workers and    *)
(* request threads.                                                        *)
(***************************************************************************)
EXTENDS ExitSlots, TLAPS

-----------------------------------------------------------------------------
(* What TypeOK says of one slot, one worker, one thread *)

LEMMA RowTyped ==
    ASSUME TypeOK, NEW s \in Slots
    PROVE  /\ row[s] \in RowRec
           /\ row[s].enabled \in BOOLEAN
           /\ row[s].state \in States
           /\ row[s].reason \in Reasons
           /\ row[s].streak \in 0..FailureLimit
           /\ row[s].entry \in Nodes \cup {None}
BY DEF TypeOK, RowRec

LEMMA RuntimeTyped ==
    ASSUME TypeOK, NEW s \in Slots
    PROVE  /\ rt[s] \in RuntimeRec
           /\ rt[s].worker \in Workers \cup {None}
           /\ rt[s].process \in Workers \cup {None}
           /\ rt[s].listener \in Workers \cup {Repaired, None}
           /\ rt[s].preferred \in Nodes \cup {None}
BY DEF TypeOK, RuntimeRec

LEMMA WorkerTyped ==
    ASSUME TypeOK, NEW w \in Workers
    PROVE  /\ worker[w] \in WorkerRec
           /\ worker[w].pc \in WorkerSteps
           /\ worker[w].slot \in Slots \cup {None}
           /\ worker[w].node \in Nodes \cup {None}
BY DEF TypeOK, WorkerRec

LEMMA ThreadTyped ==
    ASSUME TypeOK, NEW t \in Threads
    PROVE  /\ thread[t] \in ThreadRec
           /\ thread[t].pc \in ThreadSteps
           /\ thread[t].op \in ThreadOps
           /\ thread[t].slot \in Slots \cup {None}
           /\ thread[t].join \in Workers \cup {None}
           /\ thread[t].node \in Nodes \cup {None}
           /\ thread[t].was \in BOOLEAN
           /\ thread[t].state \in States
           /\ thread[t].reason \in Reasons
BY DEF TypeOK, ThreadRec

LEMMA IdleTyped == IdleThread \in ThreadRec /\ IdleWorker \in WorkerRec
BY DEF IdleThread, IdleWorker, ThreadRec, WorkerRec, ThreadSteps, ThreadOps,
       States, Reasons, WorkerSteps

-----------------------------------------------------------------------------
(* What a step of one worker or of one thread leaves alone *)

\* Worker w goes on with its slot; the other workers stay where they are.
Moves(w) ==
    /\ worker' \in [Workers -> WorkerRec]
    /\ \A v \in Workers : /\ worker'[v].slot = worker[v].slot
                          /\ v # w => worker'[v].pc = worker[v].pc

\* Only thread t changes.
Steps(t) ==
    /\ thread' \in [Threads -> ThreadRec]
    /\ \A u \in Threads \ {t} : thread'[u] = thread[u]

LEMMA GotoMoves ==
    ASSUME TypeOK, NEW w \in Workers, NEW step \in WorkerSteps, Goto(w, step)
    PROVE  Moves(w) /\ worker'[w].pc = step
BY DEF Goto, TypeOK, WorkerRec, Moves

LEMMA WorkerUpdate ==
    ASSUME TypeOK, NEW w \in Workers, NEW r \in WorkerRec,
           worker' = [worker EXCEPT ![w] = r]
    PROVE  /\ worker' \in [Workers -> WorkerRec]
           /\ worker'[w] = r
           /\ \A v \in Workers \ {w} : worker'[v] = worker[v]
BY DEF TypeOK

LEMMA ThreadUpdate ==
    ASSUME TypeOK, NEW t \in Threads, NEW r \in ThreadRec,
           thread' = [thread EXCEPT ![t] = r]
    PROVE  Steps(t) /\ thread'[t] = r
BY DEF TypeOK, Steps

LEMMA RowUpdate ==
    ASSUME TypeOK, NEW s \in Slots, NEW r \in RowRec,
           row' = [row EXCEPT ![s] = r]
    PROVE  /\ row' \in [Slots -> RowRec]
           /\ row'[s] = r
           /\ \A o \in Slots \ {s} : row'[o] = row[o]
BY DEF TypeOK

LEMMA RuntimeUpdate ==
    ASSUME TypeOK, NEW s \in Slots, NEW r \in RuntimeRec,
           rt' = [rt EXCEPT ![s] = r]
    PROVE  /\ rt' \in [Slots -> RuntimeRec]
           /\ rt'[s] = r
           /\ \A o \in Slots \ {s} : rt'[o] = rt[o]
BY DEF TypeOK

\* Placed is kept by a worker that goes on ...
LEMMA MovesPlaced ==
    ASSUME Placed, NEW w \in Workers, worker[w].slot \in Slots, Moves(w),
           UNCHANGED thread
    PROVE  Placed'
BY DEF Placed, Moves

\* Thread t goes on with its slot to the given step, or it is done.
Acts(t, step) ==
    /\ Steps(t)
    /\ thread'[t].pc = step
    /\ thread'[t].slot = thread[t].slot
    /\ step \in StopSteps => thread'[t].op = thread[t].op

Ends(t) == Steps(t) /\ thread'[t] = IdleThread

LEMMA StepToActs ==
    ASSUME TypeOK, NEW t \in Threads, NEW step \in ThreadSteps, StepTo(t, step)
    PROVE  Acts(t, step) /\ thread'[t].was = thread[t].was
BY DEF StepTo, TypeOK, ThreadRec, Steps, Acts

LEMMA DoneEnds ==
    ASSUME TypeOK, NEW t \in Threads, Done(t)
    PROVE  Ends(t)
BY IdleTyped DEF Done, TypeOK, Steps, Ends

\* ... by a thread that goes on, or ends ...
LEMMA ActsPlaced ==
    ASSUME Placed, NEW t \in Threads, thread[t].slot \in Slots, NEW step, Acts(t, step),
           step \notin StopSteps \/ thread[t].pc \in StopSteps, UNCHANGED worker
    PROVE  Placed'
BY DEF Placed, Acts, Steps

LEMMA EndsPlaced ==
    ASSUME Placed, NEW t \in Threads, Ends(t), UNCHANGED worker
    PROVE  Placed'
BY DEF Placed, Ends, Steps, IdleThread, StopSteps

\* ... or takes up a slot.
LEMMA BeginsPlaced ==
    ASSUME Placed, NEW t \in Threads, Steps(t), thread'[t].slot \in Slots,
           thread'[t].pc \notin StopSteps \/ thread'[t].op \in StopOps, UNCHANGED worker
    PROVE  Placed'
BY DEF Placed, Steps

\* A connection worker keeps the types.
LEMMA WorkerStepTyped ==
    ASSUME TypeOK, Placed, NEW w \in Workers, WorkerStep(w)
    PROVE  TypeOK' /\ Placed'
<1>1. CASE DialCheck(w)
  <2>1. worker[w].slot \in Slots
    BY <1>1 DEF Placed, DialCheck
  <2>2. \E step \in WorkerSteps : Goto(w, step)
    BY <1>1 DEF DialCheck, LeaveDial, WorkerSteps
  <2>3. Placed' /\ Moves(w)
    BY <1>1, <2>1, <2>2, GotoMoves, MovesPlaced DEF DialCheck
  <2> QED
    BY <1>1, <2>3 DEF TypeOK, Moves, DialCheck
<1>2. CASE AcquireDial(w)
  <2>1. worker[w].slot \in Slots
    BY <1>2 DEF Placed, AcquireDial
  <2>2. \E step \in WorkerSteps : Goto(w, step)
    BY <1>2 DEF AcquireDial, LeaveDial, WorkerSteps
  <2>3. permits' \in Nat
    BY <1>2 DEF TypeOK, AcquireDial, LeaveDial
  <2>4. Placed' /\ Moves(w)
    BY <1>2, <2>1, <2>2, GotoMoves, MovesPlaced DEF AcquireDial
  <2> QED
    BY <1>2, <2>3, <2>4 DEF TypeOK, Moves, AcquireDial
<1>3. CASE TakePreferred(w)
  <2>1. worker[w].slot \in Slots
    BY <1>3 DEF Placed, TakePreferred
  <2>2. rt' \in [Slots -> RuntimeRec]
    <3>1. [rt[worker[w].slot] EXCEPT !.preferred = None, !.dialing = TRUE] \in RuntimeRec
      BY ZenonT(60), <2>1, RuntimeTyped DEF RuntimeRec
    <3> QED BY <1>3, <2>1, <3>1 DEF TypeOK, TakePreferred
  <2>3. Moves(w)
    <3>1. [worker[w] EXCEPT !.pc = "reserve", !.node = rt[worker[w].slot].preferred] \in WorkerRec
      BY <2>1, RuntimeTyped, WorkerTyped DEF WorkerRec, WorkerSteps
    <3>2. worker' = [worker EXCEPT ![w] =
             [worker[w] EXCEPT !.pc = "reserve", !.node = rt[worker[w].slot].preferred]]
      BY <1>3 DEF TakePreferred
    <3> QED BY <3>1, <3>2, WorkerUpdate, WorkerTyped DEF Moves, WorkerRec
  <2> QED
    BY <1>3, <2>1, <2>2, <2>3, MovesPlaced DEF TypeOK, TakePreferred, Moves
<1>4. CASE ReserveNode(w)
  <2>1. worker[w].slot \in Slots
    BY <1>4 DEF Placed, ReserveNode
  <2>2. PICK n \in Nodes \cup {None}, step \in WorkerSteps :
            /\ reserved' = [reserved EXCEPT ![worker[w].slot] = n]
            /\ worker' = [worker EXCEPT ![w] = [worker[w] EXCEPT !.pc = step, !.node = n]]
            /\ permits' \in {permits, permits + 1}
    <3>1. /\ "check" \in WorkerSteps /\ "except" \in WorkerSteps
          /\ Selectable(worker[w].slot) \subseteq Nodes
          /\ {worker[w].node} \ ({None} \cup Taken(worker[w].slot)) \subseteq Nodes
      BY WorkerTyped DEF Selectable, WorkerSteps
    <3>2. CASE \E n \in Nodes :
            /\ reserved' = [reserved EXCEPT ![worker[w].slot] = n]
            /\ worker' = [worker EXCEPT ![w] = [worker[w] EXCEPT !.pc = "check", !.node = n]]
            /\ permits' = permits
      BY <3>1, <3>2
    <3>3. CASE /\ reserved' = [reserved EXCEPT ![worker[w].slot] = None]
               /\ worker' = [worker EXCEPT ![w] = [worker[w] EXCEPT !.pc = "except", !.node = None]]
               /\ permits' = permits + 1
      BY <3>1, <3>3
    <3> QED BY <1>4, <3>1, <3>2, <3>3 DEF ReserveNode
  <2>3. Moves(w)
    <3>1. [worker[w] EXCEPT !.pc = step, !.node = n] \in WorkerRec
      BY WorkerTyped DEF WorkerRec
    <3> QED BY <2>2, <3>1, WorkerUpdate, WorkerTyped DEF Moves, WorkerRec
  <2> QED
    <3>1. UNCHANGED <<row, rt, cooling, fresh, proc, port, routes, thread>>
      BY <1>4 DEF ReserveNode
    <3> QED BY <2>1, <2>2, <2>3, <3>1, MovesPlaced DEF TypeOK, Moves
<1>5. CASE CheckBeforeSpawn(w)
  <2>1. worker[w].slot \in Slots
    BY <1>5 DEF Placed, CheckBeforeSpawn
  <2>2. \E step \in WorkerSteps : Goto(w, step)
    BY <1>5 DEF CheckBeforeSpawn, LeaveDial, WorkerSteps
  <2>3. permits' \in Nat
    BY <1>5 DEF TypeOK, CheckBeforeSpawn, LeaveDial
  <2>4. Placed' /\ Moves(w)
    BY <1>5, <2>1, <2>2, GotoMoves, MovesPlaced DEF CheckBeforeSpawn
  <2> QED
    BY <1>5, <2>3, <2>4 DEF TypeOK, Moves, CheckBeforeSpawn
<1>6. CASE Spawn(w)
  <2>1. worker[w].slot \in Slots
    BY <1>6 DEF Placed, Spawn
  <2>2. \E step \in WorkerSteps : Goto(w, step)
    BY <1>6 DEF Spawn, LeaveDial, WorkerSteps
  <2>3. proc' \in [Workers -> {"none", "starting", "up"}]
    BY <1>6, <2>1 DEF TypeOK, Spawn
  <2>4. Placed' /\ Moves(w)
    BY <1>6, <2>1, <2>2, GotoMoves, MovesPlaced DEF Spawn
  <2> QED
    BY <1>6, <2>3, <2>4 DEF TypeOK, Moves, Spawn
<1>7. CASE Adopt(w)
  <2>1. worker[w].slot \in Slots
    BY <1>7 DEF Placed, Adopt
  <2>2. \E step \in WorkerSteps : Goto(w, step)
    BY <1>7 DEF Adopt, LeaveDial, WorkerSteps
  <2>3. permits' \in Nat
    BY <1>7 DEF TypeOK, Adopt, LeaveDial
  <2>4. proc' \in [Workers -> {"none", "starting", "up"}]
    BY <1>7, <2>1 DEF TypeOK, Adopt, Killed
  <2>5. rt' \in [Slots -> RuntimeRec]
    <3>1. [rt[worker[w].slot] EXCEPT !.process = w] \in RuntimeRec
      BY <2>1, RuntimeTyped DEF RuntimeRec
    <3> QED BY <1>7, <2>1, <3>1 DEF TypeOK, Adopt
  <2>6. Placed' /\ Moves(w)
    BY <1>7, <2>1, <2>2, GotoMoves, MovesPlaced DEF Adopt
  <2> QED
    BY <1>7, <2>3, <2>4, <2>5, <2>6 DEF TypeOK, Moves, Adopt
<1>8. CASE AwaitTunnel(w)
  <2>1. worker[w].slot \in Slots
    BY <1>8 DEF Placed, AwaitTunnel
  <2>2. \E step \in WorkerSteps : Goto(w, step)
    BY <1>8 DEF AwaitTunnel, LeaveDial, WorkerSteps
  <2>3. permits' \in Nat
    BY <1>8 DEF TypeOK, AwaitTunnel, LeaveDial
  <2>4. proc' \in [Workers -> {"none", "starting", "up"}]
    BY <1>8, <2>1 DEF TypeOK, AwaitTunnel
  <2>5. Placed' /\ Moves(w)
    BY <1>8, <2>1, <2>2, GotoMoves, MovesPlaced DEF AwaitTunnel
  <2> QED
    BY <1>8, <2>3, <2>4, <2>5 DEF TypeOK, Moves, AwaitTunnel
<1>9. CASE InstallRoutes(w)
  <2>1. worker[w].slot \in Slots
    BY <1>9 DEF Placed, InstallRoutes
  <2>2. \E step \in WorkerSteps : Goto(w, step)
    BY <1>9 DEF InstallRoutes, LeaveDial, WorkerSteps
  <2>3. permits' \in Nat
    BY <1>9 DEF TypeOK, InstallRoutes, LeaveDial
  <2>4. routes' \in [Slots -> SUBSET {"default", "closed"}]
    BY <1>9, <2>1 DEF TypeOK, InstallRoutes
  <2>5. Placed' /\ Moves(w)
    BY <1>9, <2>1, <2>2, GotoMoves, MovesPlaced DEF InstallRoutes
  <2> QED
    BY <1>9, <2>3, <2>4, <2>5 DEF TypeOK, Moves, InstallRoutes
<1>10. CASE VerifyEgress(w)
  <2>1. worker[w].slot \in Slots
    BY <1>10 DEF Placed, VerifyEgress
  <2>2. \E step \in WorkerSteps : Goto(w, step)
    BY <1>10 DEF VerifyEgress, LeaveDial, WorkerSteps
  <2>3. permits' \in Nat
    BY <1>10 DEF TypeOK, VerifyEgress, LeaveDial
  <2>4. cooling' \subseteq Nodes
    BY <1>10, WorkerTyped DEF TypeOK, VerifyEgress
  <2>5. Placed' /\ Moves(w)
    BY <1>10, <2>1, <2>2, GotoMoves, MovesPlaced DEF VerifyEgress
  <2> QED
    BY <1>10, <2>3, <2>4, <2>5 DEF TypeOK, Moves, VerifyEgress
<1>11. CASE OpenListener(w)
  <2>1. worker[w].slot \in Slots
    BY <1>11 DEF Placed, OpenListener
  <2>2. \E step \in WorkerSteps : Goto(w, step)
    BY <1>11 DEF OpenListener, LeaveDial, WorkerSteps
  <2>3. permits' \in Nat
    BY <1>11 DEF TypeOK, OpenListener, LeaveDial
  <2>4. port' \in [Slots -> Workers \cup {Repaired, None}]
    BY <1>11, <2>1 DEF TypeOK, OpenListener
  <2>5. Placed' /\ Moves(w)
    BY <1>11, <2>1, <2>2, GotoMoves, MovesPlaced DEF OpenListener
  <2> QED
    BY <1>11, <2>3, <2>4, <2>5 DEF TypeOK, Moves, OpenListener
<1>12. CASE CommitCheck(w)
  <2>1. worker[w].slot \in Slots
    BY <1>12 DEF Placed, CommitCheck
  <2>2. \E step \in WorkerSteps : Goto(w, step)
    BY <1>12 DEF CommitCheck, LeaveDial, WorkerSteps
  <2>3. permits' \in Nat
    BY <1>12 DEF TypeOK, CommitCheck, LeaveDial
  <2>4. port' \in [Slots -> Workers \cup {Repaired, None}]
    BY <1>12, <2>1 DEF TypeOK, CommitCheck, Closed
  <2>5. Placed' /\ Moves(w)
    BY <1>12, <2>1, <2>2, GotoMoves, MovesPlaced DEF CommitCheck
  <2> QED
    BY <1>12, <2>3, <2>4, <2>5 DEF TypeOK, Moves, CommitCheck
<1>13. CASE CommitWrite(w)
  <2>1. worker[w].slot \in Slots
    BY <1>13 DEF Placed, CommitWrite
  <2>2. \E step \in WorkerSteps : Goto(w, step)
    BY <1>13 DEF CommitWrite, LeaveDial, WorkerSteps
  <2>3. permits' \in Nat
    <3>1. permits' = permits \/ permits' = permits + 1
      BY <1>13 DEF CommitWrite, LeaveDial
    <3> QED BY <3>1 DEF TypeOK
  <2>4. port' \in [Slots -> Workers \cup {Repaired, None}]
    BY <1>13, <2>1 DEF TypeOK, CommitWrite, Closed
  <2>5. row' \in [Slots -> RowRec]
    <3>1. 0 \in 0..FailureLimit
      BY ExitSlotsAssumption
    <3>2. \A state \in States : [row[worker[w].slot] EXCEPT
              !.state = state, !.entry = worker[w].node, !.streak = 0] \in RowRec
      BY <2>1, <3>1, RowTyped, WorkerTyped DEF RowRec
    <3>3. \/ row' = row
          \/ \E state \in States : row' = [row EXCEPT ![worker[w].slot] =
              [row[worker[w].slot] EXCEPT !.state = state, !.entry = worker[w].node, !.streak = 0]]
      BY <1>13 DEF CommitWrite, Serving, States
    <3> QED BY ZenonT(60), <2>1, <3>2, <3>3 DEF TypeOK
  <2>6. Placed' /\ Moves(w)
    BY <1>13, <2>1, <2>2, GotoMoves, MovesPlaced DEF CommitWrite
  <2>7. UNCHANGED <<rt, reserved, cooling, fresh, proc, routes, thread>>
    BY <1>13 DEF CommitWrite
  <2> QED
    BY <2>3, <2>4, <2>5, <2>6, <2>7 DEF TypeOK, Moves
<1>14. CASE Publish(w)
  <2>1. worker[w].slot \in Slots
    BY <1>14 DEF Placed, Publish
  <2>2. \E step \in WorkerSteps : Goto(w, step)
    BY <1>14 DEF Publish, LeaveDial, WorkerSteps
  <2>3. permits' \in Nat
    BY <1>14 DEF TypeOK, Publish, LeaveDial
  <2>4. port' \in [Slots -> Workers \cup {Repaired, None}]
    BY <1>14, <2>1 DEF TypeOK, Publish, Closed
  <2>5. rt' \in [Slots -> RuntimeRec]
    <3>1. [rt[worker[w].slot] EXCEPT !.listener = w] \in RuntimeRec
      BY <2>1, RuntimeTyped DEF RuntimeRec
    <3> QED BY <1>14, <2>1, <3>1 DEF TypeOK, Publish
  <2>6. Placed' /\ Moves(w)
    BY <1>14, <2>1, <2>2, GotoMoves, MovesPlaced DEF Publish
  <2> QED
    BY <1>14, <2>3, <2>4, <2>5, <2>6 DEF TypeOK, Moves, Publish, LeaveDial
<1>15. CASE HealthCheck(w)
  <2>1. worker[w].slot \in Slots
    BY <1>15 DEF Placed, HealthCheck
  <2>2. \E step \in WorkerSteps : Goto(w, step)
    BY <1>15 DEF HealthCheck, LeaveDial, WorkerSteps
  <2>3. Placed' /\ Moves(w)
    BY <1>15, <2>1, <2>2, GotoMoves, MovesPlaced DEF HealthCheck
  <2> QED
    BY <1>15, <2>3 DEF TypeOK, Moves, HealthCheck
<1>16. CASE ProbeOutcome(w)
  <2>1. worker[w].slot \in Slots
    BY <1>16 DEF Placed, ProbeOutcome
  <2>2. \E step \in WorkerSteps : Goto(w, step)
    BY <1>16 DEF ProbeOutcome, LeaveDial, WorkerSteps
  <2>3. row' \in [Slots -> RowRec]
    <3>1. \A state \in Serving : [row[worker[w].slot] EXCEPT !.state = state] \in RowRec
      BY <2>1, RowTyped DEF RowRec, States, Serving
    <3> QED BY <1>16, <2>1, <3>1 DEF TypeOK, ProbeOutcome, Serving
  <2>4. Placed' /\ Moves(w)
    BY <1>16, <2>1, <2>2, GotoMoves, MovesPlaced DEF ProbeOutcome
  <2> QED
    BY <1>16, <2>3, <2>4 DEF TypeOK, Moves, ProbeOutcome
<1>17. CASE ExceptHandler(w)
  <2>1. worker[w].slot \in Slots
    BY <1>17 DEF Placed, ExceptHandler
  <2>2. \E step \in WorkerSteps : Goto(w, step)
    BY <1>17 DEF ExceptHandler, LeaveDial, WorkerSteps
  <2>3. Placed' /\ Moves(w)
    BY <1>17, <2>1, <2>2, GotoMoves, MovesPlaced DEF ExceptHandler
  <2> QED
    BY <1>17, <2>3 DEF TypeOK, Moves, ExceptHandler
<1>18. CASE HandleFailure(w)
  <2>1. worker[w].slot \in Slots
    BY <1>18 DEF Placed, HandleFailure
  <2>2. \E step \in WorkerSteps : Goto(w, step)
    BY <1>18 DEF HandleFailure, LeaveDial, WorkerSteps
  <2>3. rt' \in [Slots -> RuntimeRec]
    <3>1. /\ row[worker[w].slot].entry \in Nodes \cup {None}
          /\ rt[worker[w].slot].preferred \in Nodes \cup {None}
      BY <2>1, RowTyped, RuntimeTyped
    <3>2. \/ rt' = rt
          \/ \E n \in Nodes \cup {None} : rt' = [rt EXCEPT ![worker[w].slot] =
              [rt[worker[w].slot] EXCEPT !.lock = w, !.stop = TRUE, !.preferred = n]]
      BY <1>18, <3>1 DEF HandleFailure
    <3>3. ASSUME NEW n \in Nodes \cup {None},
                 rt' = [rt EXCEPT ![worker[w].slot] =
                   [rt[worker[w].slot] EXCEPT !.lock = w, !.stop = TRUE, !.preferred = n]]
          PROVE  rt' \in [Slots -> RuntimeRec]
      <4> DEFINE r == [rt[worker[w].slot] EXCEPT !.lock = w, !.stop = TRUE, !.preferred = n]
      <4>1. r \in RuntimeRec
        <5>1. PICK o : o = rt[worker[w].slot]
          OBVIOUS
        <5>2. o \in RuntimeRec
          BY <2>1, <5>1, RuntimeTyped
        <5>3. [o EXCEPT !.lock = w, !.stop = TRUE, !.preferred = n] \in RuntimeRec
          BY <5>2 DEF RuntimeRec
        <5> QED BY <5>1, <5>3
      <4>2. rt' = [rt EXCEPT ![worker[w].slot] = r]
        BY <3>3
      <4> HIDE DEF r
      <4> QED BY <2>1, <4>1, <4>2, RuntimeUpdate
    <3> QED BY <3>2, <3>3 DEF TypeOK
  <2>4. Placed' /\ Moves(w)
    BY <1>18, <2>1, <2>2, GotoMoves, MovesPlaced DEF HandleFailure
  <2> QED
    BY <1>18, <2>3, <2>4 DEF TypeOK, Moves, HandleFailure
<1>19. CASE RecordFailure(w)
  <2>1. worker[w].slot \in Slots
    BY <1>19 DEF Placed, RecordFailure
  <2>2. \E step \in WorkerSteps : Goto(w, step)
    BY <1>19 DEF RecordFailure, LeaveDial, WorkerSteps
  <2>3. row' \in [Slots -> RowRec]
    <3>1. \A retry \in BOOLEAN : \A streak \in 0..FailureLimit :
           [enabled |-> retry, state |-> IF retry THEN "failed" ELSE "disabled",
            reason |-> IF retry THEN "none" ELSE "automatic",
            streak |-> streak, entry |-> None] \in RowRec
      BY DEF RowRec, States, Reasons
    <3> DEFINE streak == IF row[worker[w].slot].streak < FailureLimit
                         THEN row[worker[w].slot].streak + 1 ELSE FailureLimit
               retry == streak < FailureLimit
    <3>2. streak \in 0..FailureLimit /\ retry \in BOOLEAN
      BY <2>1, RowTyped, ExitSlotsAssumption
    <3>3. row' = [row EXCEPT ![worker[w].slot] =
           [enabled |-> retry, state |-> IF retry THEN "failed" ELSE "disabled",
            reason |-> IF retry THEN "none" ELSE "automatic",
            streak |-> streak, entry |-> None]]
      BY <1>19 DEF RecordFailure
    <3> HIDE DEF streak, retry
    <3> QED BY <2>1, <3>1, <3>2, <3>3 DEF TypeOK
  <2>4. rt' \in [Slots -> RuntimeRec]
    <3>1. [rt[worker[w].slot] EXCEPT !.listener = None] \in RuntimeRec
      BY <2>1, RuntimeTyped DEF RuntimeRec
    <3> QED BY <1>19, <2>1, <3>1 DEF TypeOK, RecordFailure
  <2>5. port' \in [Slots -> Workers \cup {Repaired, None}]
    BY <1>19, <2>1 DEF TypeOK, RecordFailure, Closed
  <2>6. fresh' \subseteq Workers \cup Slots \cup Threads
    BY <1>19, <2>1 DEF TypeOK, RecordFailure, Bumped
  <2>7. Placed' /\ Moves(w)
    BY <1>19, <2>1, <2>2, GotoMoves, MovesPlaced DEF RecordFailure
  <2> QED
    BY <1>19, <2>3, <2>4, <2>5, <2>6, <2>7 DEF TypeOK, Moves, RecordFailure
<1>20. CASE Teardown(w)
  <2>1. worker[w].slot \in Slots
    BY <1>20 DEF Placed, Teardown
  <2>2. \E step \in WorkerSteps : Goto(w, step)
    BY <1>20 DEF Teardown, LeaveDial, WorkerSteps
  <2>3. row' \in [Slots -> RowRec]
    <3>1. [row[worker[w].slot] EXCEPT !.state = "disabled"] \in RowRec
      BY <2>1, RowTyped DEF RowRec, States
    <3> QED BY <1>20, <2>1, <3>1 DEF TypeOK, Teardown
  <2>4. rt' \in [Slots -> RuntimeRec]
    <3>1. [rt[worker[w].slot] EXCEPT !.process = None, !.lock = None] \in RuntimeRec
      BY ZenonT(60), <2>1, RuntimeTyped DEF RuntimeRec
    <3> QED BY <1>20, <2>1, <3>1 DEF TypeOK, Teardown
  <2>5. proc' \in [Workers -> {"none", "starting", "up"}]
    BY <1>20, <2>1 DEF TypeOK, Teardown, Killed
  <2>6. reserved' \in [Slots -> Nodes \cup {None}]
    BY <1>20, <2>1 DEF TypeOK, Teardown
  <2>7. routes' \in [Slots -> SUBSET {"default", "closed"}]
    BY <1>20, <2>1 DEF TypeOK, Teardown
  <2>8. cooling' \subseteq Nodes
    BY <1>20, WorkerTyped DEF TypeOK, Teardown
  <2>9. fresh' \subseteq Workers \cup Slots \cup Threads
    BY <1>20, <2>1 DEF TypeOK, Teardown
  <2>10. Placed' /\ Moves(w)
    BY <1>20, <2>1, <2>2, GotoMoves, MovesPlaced DEF Teardown
  <2> QED
    BY <1>20, <2>3, <2>4, <2>5, <2>6, <2>7, <2>8, <2>9, <2>10 DEF TypeOK, Moves, Teardown
<1>21. CASE ScheduleRetry(w)
  <2>1. worker[w].slot \in Slots
    BY <1>21 DEF Placed, ScheduleRetry
  <2>2. \E step \in WorkerSteps : Goto(w, step)
    BY <1>21 DEF ScheduleRetry, LeaveDial, WorkerSteps
  <2>3. rt' \in [Slots -> RuntimeRec]
    <3>1. [rt[worker[w].slot] EXCEPT !.timer = TRUE] \in RuntimeRec
      BY ZenonT(60), <2>1, RuntimeTyped DEF RuntimeRec
    <3> QED BY <1>21, <2>1, <3>1 DEF TypeOK, ScheduleRetry
  <2>4. fresh' \subseteq Workers \cup Slots \cup Threads
    BY <1>21, <2>1 DEF TypeOK, ScheduleRetry
  <2>5. Placed' /\ Moves(w)
    BY <1>21, <2>1, <2>2, GotoMoves, MovesPlaced DEF ScheduleRetry
  <2> QED
    BY <1>21, <2>3, <2>4, <2>5 DEF TypeOK, Moves, ScheduleRetry
<1>22. CASE Finally(w)
  <2>1. worker[w].slot \in Slots
    BY <1>22 DEF Placed, Finally
  <2>2. \E step \in WorkerSteps : Goto(w, step)
    BY <1>22 DEF Finally, LeaveDial, WorkerSteps
  <2>3. Placed' /\ Moves(w)
    BY <1>22, <2>1, <2>2, GotoMoves, MovesPlaced DEF Finally
  <2> QED
    BY <1>22, <2>3 DEF TypeOK, Moves, Finally
<1>23. CASE Cleanup(w)
  <2>1. worker[w].slot \in Slots
    BY <1>23 DEF Placed, Cleanup
  <2>2. \E step \in WorkerSteps : Goto(w, step)
    BY <1>23 DEF Cleanup, LeaveDial, WorkerSteps
  <2>3. rt' \in [Slots -> RuntimeRec]
    <3>1. \A p \in Workers \cup {None} :
            [rt[worker[w].slot] EXCEPT !.process = p] \in RuntimeRec
      BY <2>1, RuntimeTyped DEF RuntimeRec
    <3>2. \E p \in Workers \cup {None} : rt' = [rt EXCEPT ![worker[w].slot] =
            [rt[worker[w].slot] EXCEPT !.process = p]]
      BY <1>23, <2>1, RuntimeTyped DEF Cleanup
    <3> QED BY SMTT(30), <2>1, <3>1, <3>2 DEF TypeOK
  <2>4. proc' \in [Workers -> {"none", "starting", "up"}]
    BY <1>23, <2>1 DEF TypeOK, Cleanup, Killed
  <2>5. reserved' \in [Slots -> Nodes \cup {None}]
    BY <1>23, <2>1 DEF TypeOK, Cleanup
  <2>6. routes' \in [Slots -> SUBSET {"default", "closed"}]
    BY <1>23, <2>1 DEF TypeOK, Cleanup
  <2>7. Placed' /\ Moves(w)
    BY <1>23, <2>1, <2>2, GotoMoves, MovesPlaced DEF Cleanup
  <2> QED
    BY <1>23, <2>3, <2>4, <2>5, <2>6, <2>7 DEF TypeOK, Moves, Cleanup
<1>24. CASE Reclaim(w)
  <2>1. worker[w].slot \in Slots
    BY <1>24 DEF Placed, Reclaim
  <2>2. \E step \in WorkerSteps : Goto(w, step)
    BY <1>24 DEF Reclaim, LeaveDial, WorkerSteps
  <2>3. rt' \in [Slots -> RuntimeRec]
    <3>1. [rt[worker[w].slot] EXCEPT !.process = None] \in RuntimeRec
      BY <2>1, RuntimeTyped DEF RuntimeRec
    <3> QED BY <1>24, <2>1, <3>1 DEF TypeOK, Reclaim
  <2>4. proc' \in [Workers -> {"none", "starting", "up"}]
    BY <1>24, <2>1 DEF TypeOK, Reclaim, Killed
  <2>5. routes' \in [Slots -> SUBSET {"default", "closed"}]
    BY <1>24, <2>1 DEF TypeOK, Reclaim, WithoutTunnel
  <2>6. Placed' /\ Moves(w)
    BY <1>24, <2>1, <2>2, GotoMoves, MovesPlaced DEF Reclaim
  <2> QED
    BY <1>24, <2>3, <2>4, <2>5, <2>6 DEF TypeOK, Moves, Reclaim
<1>25. CASE Disown(w)
  <2>1. worker[w].slot \in Slots
    BY <1>25 DEF Placed, Disown
  <2>2. rt' \in [Slots -> RuntimeRec]
    <3>1. \A p \in Workers \cup {None} : [rt[worker[w].slot] EXCEPT !.worker = p] \in RuntimeRec
      BY <2>1, RuntimeTyped DEF RuntimeRec
    <3> QED BY <1>25, <2>1, <3>1, RuntimeTyped DEF TypeOK, Disown
  <2>3. PICK r \in WorkerRec : worker' = [worker EXCEPT ![w] = r] /\ r.pc = "done"
    <3>1. \A o \in Slots \cup {None} :
            [IdleWorker EXCEPT !.slot = o] \in WorkerRec /\ [IdleWorker EXCEPT !.slot = o].pc = "done"
      BY DEF IdleWorker, WorkerRec, WorkerSteps
    <3> QED BY <1>25, <2>1, <3>1 DEF Disown
  <2>4. /\ worker' \in [Workers -> WorkerRec]
        /\ worker'[w].pc = "done"
        /\ \A v \in Workers \ {w} : worker'[v] = worker[v]
    BY <2>3, WorkerUpdate
  <2>5. /\ thread' \in [Threads -> ThreadRec]
        /\ \A t \in Threads : /\ thread'[t].pc = thread[t].pc
                              /\ thread'[t].op = thread[t].op
                              /\ thread'[t].slot = thread[t].slot
    <3>1. \A t \in Threads : \A j \in Workers \cup {None} :
            /\ [thread[t] EXCEPT !.join = j] \in ThreadRec
            /\ [thread[t] EXCEPT !.join = j].pc = thread[t].pc
            /\ [thread[t] EXCEPT !.join = j].op = thread[t].op
            /\ [thread[t] EXCEPT !.join = j].slot = thread[t].slot
      BY ThreadTyped DEF ThreadRec
    <3>2. \A t \in Threads : (IF thread[t].join = w THEN None ELSE thread[t].join) \in Workers \cup {None}
      BY ThreadTyped
    <3> QED BY ZenonT(60), <1>25, <3>1, <3>2 DEF Disown
  <2>6. Placed'
    BY <2>4, <2>5 DEF Placed
  <2> QED
    BY <1>25, <2>2, <2>4, <2>5, <2>6 DEF TypeOK, Disown
<1> QED BY <1>1, <1>2, <1>3, <1>4, <1>5, <1>6, <1>7, <1>8, <1>9, <1>10, <1>11, <1>12, <1>13, <1>14, <1>15, <1>16, <1>17, <1>18, <1>19, <1>20, <1>21, <1>22, <1>23, <1>24, <1>25 DEF WorkerStep

\* enable_slot of the store writes a well-formed row.
LEMMA EnabledRowTyped ==
    ASSUME TypeOK, NEW s \in Slots
    PROVE  EnabledRow(s) \in [Slots -> RowRec]
<1>1. 0 \in 0..FailureLimit
  BY ExitSlotsAssumption
<1>2. [row[s] EXCEPT !.enabled = TRUE, !.state = "idle", !.streak = 0, !.reason = "none"] \in RowRec
  BY <1>1, RowTyped DEF RowRec, States, Reasons
<1> QED BY <1>2 DEF TypeOK, EnabledRow

\* Operator requests, stop_slot and start_slot keep the types.
LEMMA ThreadStepTyped ==
    ASSUME TypeOK, Placed, NEW t \in Threads, ThreadStep(t)
    PROVE  TypeOK' /\ Placed'
<1>1. CASE StopLock(t)
  <2>1. thread[t].slot \in Slots
    BY <1>1 DEF Placed, StopLock
  <2>2. rt' \in [Slots -> RuntimeRec]
    <3>1. [rt[thread[t].slot] EXCEPT !.lock = t, !.stop = TRUE] \in RuntimeRec
      BY ZenonT(60), <2>1, RuntimeTyped DEF RuntimeRec
    <3> QED BY <1>1, <2>1, <3>1 DEF TypeOK, StopLock
  <2>3. Acts(t, "stopBump")
    <3> DEFINE r == [thread[t] EXCEPT !.pc = "stopBump", !.was = row[thread[t].slot].enabled]
    <3>1. /\ r \in ThreadRec /\ r.pc = "stopBump" /\ r.slot = thread[t].slot
          /\ "stopBump" \in StopSteps => r.op = thread[t].op
      BY <2>1, RowTyped, ThreadTyped DEF ThreadRec, ThreadSteps, StopSteps
    <3>2. thread' = [thread EXCEPT ![t] = r]
      BY <1>1 DEF StopLock
    <3> HIDE DEF r
    <3> QED BY <3>1, <3>2, ThreadUpdate DEF Acts
  <2>4. UNCHANGED worker
    BY <1>1 DEF StopLock
  <2>5. Placed'
    <3>1. thread[t].pc = "stopLock"
      BY <1>1 DEF StopLock
    <3> QED BY <2>1, <2>3, <2>4, <3>1, ActsPlaced, EndsPlaced DEF StopSteps
  <2> QED
    BY <1>1, <2>1, <2>2, <2>3, <2>4, <2>5 DEF TypeOK, Acts, Ends, Steps, StopLock
<1>2. CASE StopBump(t)
  <2>1. thread[t].slot \in Slots
    BY <1>2 DEF Placed, StopBump
  <2>2. row' \in [Slots -> RowRec]
    <3>1. [row[thread[t].slot] EXCEPT !.enabled = TRUE, !.state = "idle", !.reason = "none"] \in RowRec
      BY <2>1, RowTyped DEF RowRec, States, Reasons
    <3> QED BY <1>2, <2>1, <3>1 DEF TypeOK, StopBump
  <2>3. fresh' \subseteq Workers \cup Slots \cup Threads
    BY <1>2, <2>1 DEF TypeOK, StopBump, Bumped
  <2>4. rt' \in [Slots -> RuntimeRec]
    <3>1. [rt[thread[t].slot] EXCEPT !.timer = FALSE] \in RuntimeRec
      BY ZenonT(60), <2>1, RuntimeTyped DEF RuntimeRec
    <3> QED BY <1>2, <2>1, <3>1 DEF TypeOK, StopBump
  <2>5. Acts(t, "stopClose")
    BY <1>2, StepToActs DEF StopBump, ThreadSteps
  <2>6. UNCHANGED worker
    BY <1>2 DEF StopBump
  <2>7. Placed'
    <3>1. thread[t].pc = "stopBump"
      BY <1>2 DEF StopBump
    <3> QED BY <2>1, <2>5, <2>6, <3>1, ActsPlaced, EndsPlaced DEF StopSteps
  <2> QED
    BY <1>2, <2>1, <2>2, <2>3, <2>4, <2>5, <2>6, <2>7 DEF TypeOK, Acts, Ends, Steps, StopBump
<1>3. CASE StopClose(t)
  <2>1. thread[t].slot \in Slots
    BY <1>3 DEF Placed, StopClose
  <2>2. rt' \in [Slots -> RuntimeRec]
    <3>1. [rt[thread[t].slot] EXCEPT !.listener = None, !.process = None] \in RuntimeRec
      BY ZenonT(60), <2>1, RuntimeTyped DEF RuntimeRec
    <3> QED BY <1>3, <2>1, <3>1 DEF TypeOK, StopClose
  <2>3. port' \in [Slots -> Workers \cup {Repaired, None}]
    BY <1>3, <2>1 DEF TypeOK, StopClose, Closed
  <2>4. proc' \in [Workers -> {"none", "starting", "up"}]
    BY <1>3, <2>1 DEF TypeOK, StopClose, Killed
  <2>5. routes' \in [Slots -> SUBSET {"default", "closed"}]
    BY <1>3, <2>1 DEF TypeOK, StopClose, WithoutTunnel
  <2>6. reserved' \in [Slots -> Nodes \cup {None}]
    BY <1>3, <2>1 DEF TypeOK, StopClose
  <2>7. Acts(t, "stopRoute")
    BY <1>3, StepToActs DEF StopClose, ThreadSteps
  <2>8. UNCHANGED worker
    BY <1>3 DEF StopClose
  <2>9. Placed'
    <3>1. thread[t].pc = "stopClose"
      BY <1>3 DEF StopClose
    <3> QED BY <2>1, <2>7, <2>8, <3>1, ActsPlaced, EndsPlaced DEF StopSteps
  <2> QED
    BY <1>3, <2>1, <2>2, <2>3, <2>4, <2>5, <2>6, <2>7, <2>8, <2>9 DEF TypeOK, Acts, Ends, Steps, StopClose
<1>4. CASE StopRoute(t)
  <2>1. thread[t].slot \in Slots
    BY <1>4 DEF Placed, StopRoute
  <2>2. rt' \in [Slots -> RuntimeRec]
    <3>1. [rt[thread[t].slot] EXCEPT !.lock = None] \in RuntimeRec
      BY <2>1, RuntimeTyped DEF RuntimeRec
    <3> QED BY <1>4, <2>1, <3>1 DEF TypeOK, StopRoute
  <2>3. row' \in [Slots -> RowRec]
    <3>1. [row[thread[t].slot] EXCEPT !.state = "idle", !.entry = None] \in RowRec
      BY <2>1, RowTyped DEF RowRec, States, Reasons
    <3> QED BY <1>4, <2>1, <3>1 DEF TypeOK, StopRoute
  <2>4. routes' \in [Slots -> SUBSET {"default", "closed"}]
    BY <1>4, <2>1 DEF TypeOK, StopRoute
  <2>5. Acts(t, "stopJoin")
    <3> DEFINE r == [thread[t] EXCEPT !.pc = "stopJoin", !.join = rt[thread[t].slot].worker, !.was = FALSE]
    <3>1. /\ r \in ThreadRec /\ r.pc = "stopJoin" /\ r.slot = thread[t].slot
          /\ "stopJoin" \in StopSteps => r.op = thread[t].op
      BY <2>1, RuntimeTyped, ThreadTyped DEF ThreadRec, ThreadSteps, StopSteps
    <3>2. thread' = [thread EXCEPT ![t] = r]
      BY <1>4 DEF StopRoute
    <3> HIDE DEF r
    <3> QED BY <3>1, <3>2, ThreadUpdate DEF Acts
  <2>6. UNCHANGED worker
    BY <1>4 DEF StopRoute
  <2>7. Placed'
    <3>1. thread[t].pc = "stopRoute"
      BY <1>4 DEF StopRoute
    <3> QED BY <2>1, <2>5, <2>6, <3>1, ActsPlaced, EndsPlaced DEF StopSteps
  <2> QED
    BY <1>4, <2>1, <2>2, <2>3, <2>4, <2>5, <2>6, <2>7 DEF TypeOK, Acts, Ends, Steps, StopRoute
<1>5. CASE StopJoin(t)
  <2>1. thread[t].slot \in Slots
    BY <1>5 DEF Placed, StopJoin
  <2>2. rt' \in [Slots -> RuntimeRec]
    <3>1. \A p \in Workers \cup {None} : [rt[thread[t].slot] EXCEPT !.worker = p] \in RuntimeRec
      BY <2>1, RuntimeTyped DEF RuntimeRec
    <3>2. rt' = rt \/ \E p \in Workers \cup {None} : rt' = [rt EXCEPT ![thread[t].slot] = [rt[thread[t].slot] EXCEPT !.worker = p]]
      BY <1>5, <2>1, RuntimeTyped DEF StopJoin
    <3>3. rt' = rt \/ \E r \in RuntimeRec : rt' = [rt EXCEPT ![thread[t].slot] = r]
      BY <3>1, <3>2
    <3> QED BY <2>1, <3>3 DEF TypeOK
  <2>3. thread[t].op \in StopOps
    BY <1>5 DEF Placed, StopJoin, StopSteps
  <2>4. \E step \in {"redial", "connect", "disable", "configure"} : Acts(t, step)
    <3>1. PICK step \in {"redial", "connect", "disable", "configure"} :
            thread' = [thread EXCEPT ![t] = [thread[t] EXCEPT !.join = None, !.pc = step]]
      BY <1>5, <2>3 DEF StopJoin, StopOps
    <3> DEFINE r == [thread[t] EXCEPT !.join = None, !.pc = step]
    <3>2. r \in ThreadRec /\ r.slot = thread[t].slot /\ r.pc = step
      BY ThreadTyped DEF ThreadRec, ThreadSteps
    <3>3. thread' = [thread EXCEPT ![t] = r]
      BY <3>1
    <3> HIDE DEF r
    <3> QED BY <3>1, <3>2, <3>3, ThreadUpdate DEF Acts, StopSteps
  <2>5. UNCHANGED worker
    BY <1>5 DEF StopJoin
  <2>6. Placed'
    <3>1. thread[t].pc = "stopJoin"
      BY <1>5 DEF StopJoin
    <3> QED BY <2>1, <2>4, <2>5, <3>1, ActsPlaced, EndsPlaced DEF StopSteps
  <2> QED
    BY <1>5, <2>1, <2>2, <2>3, <2>4, <2>5, <2>6 DEF TypeOK, Acts, Ends, Steps, StopJoin
<1>6. CASE RedialDecide(t)
  <2>1. thread[t].slot \in Slots
    BY <1>6 DEF Placed, RedialDecide
  <2>2. row' \in [Slots -> RowRec]
    BY <1>6, <2>1, EnabledRowTyped DEF TypeOK, RedialDecide
  <2>3. fresh' \subseteq Workers \cup Slots \cup Threads
    BY <1>6, <2>1 DEF TypeOK, RedialDecide, Bumped
  <2>4. Ends(t) \/ Acts(t, "start")
    BY <1>6, StepToActs, DoneEnds DEF RedialDecide, ThreadSteps
  <2>5. UNCHANGED worker
    BY <1>6 DEF RedialDecide
  <2>6. Placed'
    <3>1. thread[t].pc = "redial"
      BY <1>6 DEF RedialDecide
    <3> QED BY <2>1, <2>4, <2>5, <3>1, ActsPlaced, EndsPlaced DEF StopSteps
  <2> QED
    BY <1>6, <2>1, <2>2, <2>3, <2>4, <2>5, <2>6 DEF TypeOK, Acts, Ends, Steps, RedialDecide
<1>7. CASE ConnectDecide(t)
  <2>1. thread[t].slot \in Slots
    BY <1>7 DEF Placed, ConnectDecide
  <2>2. row' \in [Slots -> RowRec]
    <3>1. [row[thread[t].slot] EXCEPT !.enabled = TRUE, !.state = "idle", !.reason = "none"] \in RowRec
      BY <2>1, RowTyped DEF RowRec, States, Reasons
    <3> QED BY <1>7, <2>1, <3>1 DEF TypeOK, ConnectDecide
  <2>3. fresh' \subseteq Workers \cup Slots \cup Threads
    BY <1>7, <2>1 DEF TypeOK, ConnectDecide, Bumped
  <2>4. rt' \in [Slots -> RuntimeRec]
    <3>1. [rt[thread[t].slot] EXCEPT !.preferred = thread[t].node] \in RuntimeRec
      BY <2>1, RuntimeTyped, ThreadTyped DEF RuntimeRec
    <3> QED BY <1>7, <2>1, <3>1 DEF TypeOK, ConnectDecide
  <2>5. Acts(t, "start")
    <3> DEFINE r == [thread[t] EXCEPT !.pc = "start", !.node = None]
    <3>1. /\ r \in ThreadRec /\ r.pc = "start" /\ r.slot = thread[t].slot
          /\ "start" \in StopSteps => r.op = thread[t].op
      BY ThreadTyped DEF ThreadRec, ThreadSteps, StopSteps
    <3>2. thread' = [thread EXCEPT ![t] = r]
      BY <1>7 DEF ConnectDecide
    <3> HIDE DEF r
    <3> QED BY <3>1, <3>2, ThreadUpdate DEF Acts
  <2>6. UNCHANGED worker
    BY <1>7 DEF ConnectDecide
  <2>7. Placed'
    <3>1. thread[t].pc = "connect"
      BY <1>7 DEF ConnectDecide
    <3> QED BY <2>1, <2>5, <2>6, <3>1, ActsPlaced, EndsPlaced DEF StopSteps
  <2> QED
    BY <1>7, <2>1, <2>2, <2>3, <2>4, <2>5, <2>6, <2>7 DEF TypeOK, Acts, Ends, Steps, ConnectDecide
<1>8. CASE EnableWrite(t)
  <2>1. thread[t].slot \in Slots
    BY <1>8 DEF Placed, EnableWrite
  <2>2. row' \in [Slots -> RowRec]
    BY <1>8, <2>1, EnabledRowTyped DEF EnableWrite
  <2>3. fresh' \subseteq Workers \cup Slots \cup Threads
    BY <1>8, <2>1 DEF TypeOK, EnableWrite, Bumped
  <2>4. Acts(t, "start")
    BY <1>8, StepToActs DEF EnableWrite, ThreadSteps
  <2>5. UNCHANGED worker
    BY <1>8 DEF EnableWrite
  <2>6. Placed'
    <3>1. thread[t].pc = "enable"
      BY <1>8 DEF EnableWrite
    <3> QED BY <2>1, <2>4, <2>5, <3>1, ActsPlaced, EndsPlaced DEF StopSteps
  <2> QED
    BY <1>8, <2>1, <2>2, <2>3, <2>4, <2>5, <2>6 DEF TypeOK, Acts, Ends, Steps, EnableWrite
<1>9. CASE DisableWrite(t)
  <2>1. thread[t].slot \in Slots
    BY <1>9 DEF Placed, DisableWrite
  <2>2. row' \in [Slots -> RowRec]
    <3>1. [row[thread[t].slot] EXCEPT !.enabled = FALSE, !.state = "disabled", !.reason = "manual"] \in RowRec
      BY <2>1, RowTyped DEF RowRec, States, Reasons
    <3> QED BY <1>9, <2>1, <3>1 DEF TypeOK, DisableWrite
  <2>3. fresh' \subseteq Workers \cup Slots \cup Threads
    BY <1>9, <2>1 DEF TypeOK, DisableWrite, Bumped
  <2>4. Ends(t)
    BY <1>9, DoneEnds DEF DisableWrite
  <2>5. UNCHANGED worker
    BY <1>9 DEF DisableWrite
  <2>6. Placed'
    <3>1. thread[t].pc = "disable"
      BY <1>9 DEF DisableWrite
    <3> QED BY <2>1, <2>4, <2>5, <3>1, ActsPlaced, EndsPlaced DEF StopSteps
  <2> QED
    BY <1>9, <2>1, <2>2, <2>3, <2>4, <2>5, <2>6 DEF TypeOK, Acts, Ends, Steps, DisableWrite
<1>10. CASE ConfigureRead(t)
  <2>1. thread[t].slot \in Slots
    BY <1>10 DEF Placed, ConfigureRead
  <2>2. Acts(t, "configureWrite")
    <3> DEFINE r == [thread[t] EXCEPT !.pc = "configureWrite", !.was = row[thread[t].slot].enabled,
                !.state = row[thread[t].slot].state, !.reason = row[thread[t].slot].reason]
    <3>1. /\ r \in ThreadRec /\ r.pc = "configureWrite" /\ r.slot = thread[t].slot
          /\ "configureWrite" \in StopSteps => r.op = thread[t].op
      BY <2>1, RowTyped, ThreadTyped DEF ThreadRec, ThreadSteps, StopSteps
    <3>2. thread' = [thread EXCEPT ![t] = r]
      BY <1>10 DEF ConfigureRead
    <3> HIDE DEF r
    <3> QED BY <3>1, <3>2, ThreadUpdate DEF Acts
  <2>3. UNCHANGED worker
    BY <1>10 DEF ConfigureRead
  <2>4. Placed'
    <3>1. thread[t].pc = "configure"
      BY <1>10 DEF ConfigureRead
    <3> QED BY <2>1, <2>2, <2>3, <3>1, ActsPlaced, EndsPlaced DEF StopSteps
  <2> QED
    BY <1>10, <2>1, <2>2, <2>3, <2>4 DEF TypeOK, Acts, Ends, Steps, ConfigureRead
<1>11. CASE ConfigureWrite(t)
  <2>1. thread[t].slot \in Slots
    BY <1>11 DEF Placed, ConfigureWrite
  <2>2. row' \in [Slots -> RowRec]
    <3>1. \A was \in BOOLEAN, state \in States, reason \in Reasons :
            [row[thread[t].slot] EXCEPT !.enabled = was, !.state = state, !.reason = reason] \in RowRec
      BY <2>1, RowTyped DEF RowRec
    <3>2. \E was \in BOOLEAN, state \in States, reason \in Reasons : row' = [row EXCEPT ![thread[t].slot] =
            [row[thread[t].slot] EXCEPT !.enabled = was, !.state = state, !.reason = reason]]
      <4>1. /\ thread[t].was \in BOOLEAN
            /\ (IF thread[t].was THEN thread[t].state ELSE "disabled") \in States
            /\ (IF thread[t].was THEN thread[t].reason ELSE "manual") \in Reasons
        BY ThreadTyped DEF States, Reasons
      <4> QED BY <1>11, <4>1 DEF ConfigureWrite
    <3>3. \E r \in RowRec : row' = [row EXCEPT ![thread[t].slot] = r]
      BY <3>1, <3>2
    <3> QED BY <2>1, <3>3 DEF TypeOK
  <2>3. fresh' \subseteq Workers \cup Slots \cup Threads
    BY <1>11, <2>1 DEF TypeOK, ConfigureWrite, Bumped
  <2>4. Ends(t) \/ Acts(t, "start")
    <3> DEFINE r == [IdleThread EXCEPT !.pc = "start", !.op = "configure", !.slot = thread[t].slot]
    <3>1. /\ r \in ThreadRec /\ r.pc = "start" /\ r.slot = thread[t].slot
          /\ "start" \in StopSteps => r.op = thread[t].op
      BY <2>1, IdleTyped DEF ThreadRec, ThreadSteps, StopSteps, IdleThread, ThreadOps
    <3>2. CASE thread' = [thread EXCEPT ![t] = r]
      <4> HIDE DEF r
      <4> QED BY <3>1, <3>2, ThreadUpdate DEF Acts
    <3>3. CASE Done(t)
      BY <3>3, DoneEnds
    <3> QED BY <1>11, <3>2, <3>3 DEF ConfigureWrite, Done
  <2>5. UNCHANGED worker
    BY <1>11 DEF ConfigureWrite
  <2>6. Placed'
    <3>1. thread[t].pc = "configureWrite"
      BY <1>11 DEF ConfigureWrite
    <3> QED BY <2>1, <2>4, <2>5, <3>1, ActsPlaced, EndsPlaced DEF StopSteps
  <2> QED
    BY <1>11, <2>1, <2>2, <2>3, <2>4, <2>5, <2>6 DEF TypeOK, Acts, Ends, Steps, ConfigureWrite
<1>12. CASE Start(t)
  <2>1. thread[t].slot \in Slots
    BY <1>12 DEF Placed, Start
  <2>2. fresh' \subseteq Workers \cup Slots \cup Threads
    BY <1>12 DEF TypeOK, Start
  <2>3. Ends(t) \/ Acts(t, "startJoin")
    <3> DEFINE r == [thread[t] EXCEPT !.pc = "startJoin", !.join = rt[thread[t].slot].worker]
    <3>1. /\ r \in ThreadRec /\ r.pc = "startJoin" /\ r.slot = thread[t].slot
          /\ "startJoin" \in StopSteps => r.op = thread[t].op
      BY <2>1, RuntimeTyped, ThreadTyped DEF ThreadRec, ThreadSteps, StopSteps
    <3>2. CASE thread' = [thread EXCEPT ![t] = r]
      <4> HIDE DEF r
      <4> QED BY <3>1, <3>2, ThreadUpdate DEF Acts
    <3>3. CASE Done(t)
      BY <3>3, DoneEnds
    <3> QED BY <1>12, <3>2, <3>3 DEF Start, Done
  <2>4. UNCHANGED worker
    BY <1>12 DEF Start
  <2>5. Placed'
    <3>1. thread[t].pc = "start"
      BY <1>12 DEF Start
    <3> QED BY <2>1, <2>3, <2>4, <3>1, ActsPlaced, EndsPlaced DEF StopSteps
  <2> QED
    BY <1>12, <2>1, <2>2, <2>3, <2>4, <2>5 DEF TypeOK, Acts, Ends, Steps, Start
<1>13. CASE StartLock(t)
  <2>1. thread[t].slot \in Slots
    BY <1>13 DEF Placed, StartLock
  <2>2. rt' \in [Slots -> RuntimeRec]
    <3>1. [rt[thread[t].slot] EXCEPT !.lock = t, !.worker = None, !.timer = FALSE,
            !.listener = None, !.stop = FALSE, !.dialing = FALSE] \in RuntimeRec
      BY ZenonT(60), <2>1, RuntimeTyped DEF RuntimeRec
    <3> QED BY <1>13, <2>1, <3>1 DEF TypeOK, StartLock
  <2>3. port' \in [Slots -> Workers \cup {Repaired, None}]
    BY <1>13, <2>1 DEF TypeOK, StartLock, Closed
  <2>4. fresh' \subseteq Workers \cup Slots \cup Threads
    BY <1>13, <2>1 DEF TypeOK, StartLock
  <2>5. Ends(t) \/ Acts(t, "startLaunch")
    <3> DEFINE r == [thread[t] EXCEPT !.pc = "startLaunch", !.join = None]
    <3>1. /\ r \in ThreadRec /\ r.pc = "startLaunch" /\ r.slot = thread[t].slot
          /\ "startLaunch" \in StopSteps => r.op = thread[t].op
      BY ThreadTyped DEF ThreadRec, ThreadSteps, StopSteps
    <3>2. CASE thread' = [thread EXCEPT ![t] = r]
      <4> HIDE DEF r
      <4> QED BY <3>1, <3>2, ThreadUpdate DEF Acts
    <3>3. CASE Done(t)
      BY <3>3, DoneEnds
    <3> QED BY <1>13, <3>2, <3>3 DEF StartLock, Done
  <2>6. UNCHANGED worker
    BY <1>13 DEF StartLock
  <2>7. Placed'
    <3>1. thread[t].pc = "startJoin"
      BY <1>13 DEF StartLock
    <3> QED BY <2>1, <2>5, <2>6, <3>1, ActsPlaced, EndsPlaced DEF StopSteps
  <2> QED
    BY <1>13, <2>1, <2>2, <2>3, <2>4, <2>5, <2>6, <2>7 DEF TypeOK, Acts, Ends, Steps, StartLock
<1>14. CASE StartLaunch(t)
  <2>1. thread[t].slot \in Slots
    BY <1>14 DEF Placed, StartLaunch
  <2>2. PICK w \in Workers :
          /\ worker' = [worker EXCEPT ![w] = [pc |-> "dial", slot |-> thread[t].slot, node |-> None]]
          /\ rt' = [rt EXCEPT ![thread[t].slot] = [rt[thread[t].slot] EXCEPT !.worker = w, !.lock = None]]
          /\ fresh' = (fresh \ {t}) \cup {w}
    BY <1>14 DEF StartLaunch
  <2>3. row' \in [Slots -> RowRec]
    <3>1. [row[thread[t].slot] EXCEPT !.state = "connecting"] \in RowRec
      BY <2>1, RowTyped DEF RowRec, States
    <3> QED BY <1>14, <2>1, <3>1 DEF TypeOK, StartLaunch
  <2>4. rt' \in [Slots -> RuntimeRec]
    <3>1. [rt[thread[t].slot] EXCEPT !.worker = w, !.lock = None] \in RuntimeRec
      BY ZenonT(60), <2>1, RuntimeTyped DEF RuntimeRec
    <3> QED BY <2>1, <2>2, <3>1 DEF TypeOK
  <2>5. /\ worker' \in [Workers -> WorkerRec]
        /\ worker'[w].slot \in Slots
        /\ \A v \in Workers \ {w} : worker'[v] = worker[v]
    <3>1. [pc |-> "dial", slot |-> thread[t].slot, node |-> None] \in WorkerRec
      BY <2>1 DEF WorkerRec, WorkerSteps
    <3> QED BY <2>1, <2>2, <3>1, WorkerUpdate
  <2>6. Ends(t)
    BY <1>14, DoneEnds DEF StartLaunch
  <2>7. Placed'
    BY <2>5, <2>6 DEF Placed, Ends, Steps, IdleThread, StopSteps
  <2> QED
    BY <1>14, <2>2, <2>3, <2>4, <2>5, <2>6, <2>7 DEF TypeOK, Ends, Steps, StartLaunch
<1> QED BY <1>1, <1>2, <1>3, <1>4, <1>5, <1>6, <1>7, <1>8, <1>9, <1>10, <1>11, <1>12, <1>13, <1>14 DEF ThreadStep

\* Operator requests keep the types.
LEMMA RequestTyped ==
    ASSUME TypeOK, Placed, NEW u \in Users, NEW s \in Slots, UserRequest(u, s)
    PROVE  TypeOK' /\ Placed'
<1>1. u \in Threads
  BY DEF Threads
<1>2. ASSUME NEW op \in ThreadOps, NEW n \in Nodes \cup {None}, NEW step \in ThreadSteps,
             step \notin StopSteps \/ op \in StopOps,
             Request(u, op, s, n, step), cooling' \subseteq Nodes
      PROVE  TypeOK' /\ Placed'
  <2> DEFINE r == [IdleThread EXCEPT !.pc = step, !.op = op, !.slot = s, !.node = n]
  <2>1. r \in ThreadRec /\ r.slot = s /\ r.op = op /\ r.pc = step
    BY <1>2, IdleTyped DEF IdleThread, ThreadRec
  <2>2. /\ thread' = [thread EXCEPT ![u] = r]
        /\ UNCHANGED <<row, rt, reserved, permits, worker, fresh, proc, port, routes>>
    BY <1>2 DEF Request
  <2> HIDE DEF r
  <2>3. Steps(u) /\ thread'[u] = r
    BY <1>1, <2>1, <2>2, ThreadUpdate
  <2>4. Placed'
    BY <1>1, <1>2, <2>1, <2>2, <2>3, BeginsPlaced
  <2> QED
    BY <1>2, <2>2, <2>3, <2>4 DEF TypeOK, Steps
<1>3. /\ "stopLock" \in ThreadSteps /\ "enable" \in ThreadSteps \ StopSteps
      /\ "configure" \in ThreadSteps \ StopSteps
      /\ StopOps \subseteq ThreadOps /\ "enable" \in ThreadOps
      /\ "redial" \in StopOps /\ "connect" \in StopOps /\ "disable" \in StopOps
      /\ "configure" \in StopOps
  BY DEF ThreadSteps, StopSteps, StopOps, ThreadOps
<1>4. cooling \subseteq Nodes /\ cooling \cup ({row[s].entry} \ {None}) \subseteq Nodes
  BY RowTyped DEF TypeOK
<1>5. CASE RequestRedial(u, s)
  BY <1>2, <1>3, <1>4, <1>5 DEF RequestRedial
<1>6. CASE RequestConnect(u, s)
  BY <1>2, <1>3, <1>4, <1>6 DEF RequestConnect
<1>7. CASE RequestDisable(u, s)
  BY <1>2, <1>3, <1>4, <1>7 DEF RequestDisable
<1>8. CASE RequestEnable(u, s)
  BY <1>2, <1>3, <1>4, <1>8 DEF RequestEnable
<1>9. CASE RequestConfigure(u, s)
  <2>1. CASE row[s].enabled
    BY <1>2, <1>3, <1>4, <1>9, <2>1 DEF RequestConfigure
  <2>2. CASE ~row[s].enabled
    BY <1>2, <1>3, <1>4, <1>9, <2>2 DEF RequestConfigure
  <2> QED BY <2>1, <2>2
<1> QED BY <1>5, <1>6, <1>7, <1>8, <1>9 DEF UserRequest

\* The watchdog's steps inside a slot keep the types.
LEMMA WatchdogStepTyped ==
    ASSUME TypeOK, Placed, WatchdogStep
    PROVE  TypeOK' /\ Placed'
<1>1. Watchdog \in Threads
  BY DEF Threads
<1>2. /\ "confirm" \in ThreadSteps \ StopSteps /\ "repair" \in ThreadSteps \ StopSteps
      /\ "start" \in ThreadSteps \ StopSteps
  BY DEF ThreadSteps, StopSteps
<1>3. CASE Inspect
  <2>1. thread[Watchdog].slot \in Slots
    BY <1>1, <1>3 DEF Placed, Inspect
  <2>2. Acts(Watchdog, "confirm") \/ Acts(Watchdog, "repair") \/ Ends(Watchdog)
    BY <1>1, <1>2, <1>3, StepToActs, DoneEnds DEF Inspect, WatchdogQuits
  <2>3. row' \in [Slots -> RowRec]
    <3>1. [row[thread[Watchdog].slot] EXCEPT !.state = "degraded"] \in RowRec
      BY <2>1, RowTyped DEF RowRec, States
    <3> QED BY <1>3, <2>1, <3>1 DEF TypeOK, Inspect
  <2>4. rt' \in [Slots -> RuntimeRec]
    <3>1. [rt[thread[Watchdog].slot] EXCEPT !.listener = None, !.lock = Watchdog] \in RuntimeRec
      BY ZenonT(60), <1>1, <2>1, RuntimeTyped DEF RuntimeRec
    <3>2. [rt[thread[Watchdog].slot] EXCEPT !.listener = None] \in RuntimeRec
      BY <2>1, RuntimeTyped DEF RuntimeRec
    <3> QED BY <1>3, <2>1, <3>1, <3>2 DEF TypeOK, Inspect
  <2>5. port' \in [Slots -> Workers \cup {Repaired, None}]
    BY <1>3, <2>1 DEF TypeOK, Inspect
  <2>6. fresh' \subseteq Workers \cup Slots \cup Threads
    BY <1>3 DEF TypeOK, Inspect, WatchdogQuits
  <2>7. UNCHANGED <<reserved, cooling, permits, worker, proc, routes>>
    BY <1>3 DEF Inspect
  <2>8. Placed'
    BY <1>1, <1>2, <2>1, <2>2, <2>7, ActsPlaced, EndsPlaced
  <2> QED
    BY <2>2, <2>3, <2>4, <2>5, <2>6, <2>7, <2>8 DEF TypeOK, Acts, Ends, Steps
<1>4. CASE Repair
  <2>1. thread[Watchdog].slot \in Slots
    BY <1>1, <1>4 DEF Placed, Repair
  <2>2. Ends(Watchdog)
    BY <1>1, <1>4, DoneEnds DEF Repair, WatchdogQuits
  <2>3. rt' \in [Slots -> RuntimeRec]
    <3>1. [rt[thread[Watchdog].slot] EXCEPT !.lock = None] \in RuntimeRec
      BY <2>1, RuntimeTyped DEF RuntimeRec
    <3>2. [rt[thread[Watchdog].slot] EXCEPT !.lock = None, !.listener = Repaired] \in RuntimeRec
      BY ZenonT(60), <2>1, RuntimeTyped DEF RuntimeRec
    <3> QED BY <1>4, <2>1, <3>1, <3>2 DEF TypeOK, Repair
  <2>4. port' \in [Slots -> Workers \cup {Repaired, None}]
    BY <1>4, <2>1 DEF TypeOK, Repair, Closed
  <2>5. fresh' \subseteq Workers \cup Slots \cup Threads
    BY <1>4 DEF TypeOK, Repair, WatchdogQuits
  <2>6. UNCHANGED <<row, reserved, cooling, permits, worker, proc, routes>>
    BY <1>4 DEF Repair
  <2>7. Placed'
    BY <1>1, <2>2, <2>6, EndsPlaced
  <2> QED
    BY <2>2, <2>3, <2>4, <2>5, <2>6, <2>7 DEF TypeOK, Ends, Steps
<1>5. CASE ConfirmRedial
  <2>1. thread[Watchdog].slot \in Slots
    BY <1>1, <1>5 DEF Placed, ConfirmRedial
  <2> DEFINE s == thread[Watchdog].slot
             r == [IdleThread EXCEPT !.pc = "stopLock", !.op = "autoRedial", !.slot = s]
  <2>2. rt' \in [Slots -> RuntimeRec]
    <3>1. \A n \in Nodes \cup {None} : [rt[s] EXCEPT !.preferred = n] \in RuntimeRec
      BY <2>1, RuntimeTyped DEF RuntimeRec
    <3>2. row[s].entry \in Nodes \cup {None} /\ rt[s].preferred \in Nodes \cup {None}
      BY <2>1, RowTyped, RuntimeTyped
    <3>3. \/ rt' = rt
          \/ \E n \in Nodes \cup {None} : rt' = [rt EXCEPT ![s] = [rt[s] EXCEPT !.preferred = n]]
      BY <1>5, <3>2 DEF ConfirmRedial
    <3>4. rt' = rt \/ \E q \in RuntimeRec : rt' = [rt EXCEPT ![s] = q]
      BY <3>1, <3>3
    <3> QED BY <2>1, <3>4 DEF TypeOK
  <2>3. cooling' \subseteq Nodes
    BY <1>5, <2>1, RowTyped DEF TypeOK, ConfirmRedial
  <2>4. fresh' \subseteq Workers \cup Slots \cup Threads
    BY <1>5 DEF TypeOK, ConfirmRedial
  <2>5. UNCHANGED <<row, reserved, permits, worker, proc, port, routes>>
    BY <1>5 DEF ConfirmRedial
  <2>6. Steps(Watchdog) /\ Placed'
    <3>1. r \in ThreadRec /\ r.slot = s /\ r.op \in StopOps
      BY <2>1, IdleTyped DEF IdleThread, ThreadRec, ThreadSteps, ThreadOps, StopOps
    <3>2. CASE thread' = [thread EXCEPT ![Watchdog] = r]
      <4> HIDE DEF r
      <4> QED BY <1>1, <2>1, <2>5, <3>1, <3>2, ThreadUpdate, BeginsPlaced
    <3>3. CASE Done(Watchdog)
      BY <1>1, <2>5, <3>3, DoneEnds, EndsPlaced DEF Ends
    <3> QED BY <1>5, <3>2, <3>3 DEF ConfirmRedial
  <2> QED
    BY <2>2, <2>3, <2>4, <2>5, <2>6 DEF TypeOK, Steps
<1>6. CASE Revive
  <2>1. thread[Watchdog].slot \in Slots
    BY <1>1, <1>6 DEF Placed, Revive
  <2>2. Acts(Watchdog, "start") \/ Ends(Watchdog)
    BY <1>1, <1>2, <1>6, StepToActs, DoneEnds DEF Revive, WatchdogQuits
  <2>3. row' \in [Slots -> RowRec]
    BY <1>6, <2>1, EnabledRowTyped DEF TypeOK, Revive
  <2>4. fresh' \subseteq Workers \cup Slots \cup Threads
    BY <1>6 DEF TypeOK, Revive, WatchdogQuits, Bumped
  <2>5. UNCHANGED <<rt, reserved, cooling, permits, worker, proc, port, routes>>
    BY <1>6 DEF Revive
  <2>6. Placed'
    BY <1>1, <1>2, <2>1, <2>2, <2>5, ActsPlaced, EndsPlaced
  <2> QED
    BY <2>2, <2>3, <2>4, <2>5, <2>6 DEF TypeOK, Acts, Ends, Steps
<1> QED BY <1>3, <1>4, <1>5, <1>6 DEF WatchdogStep

\* The watchdog's passes over the slots keep the types.
LEMMA ScanTyped ==
    ASSUME TypeOK, Placed, NEW s \in Slots, WatchdogScan(s)
    PROVE  TypeOK' /\ Placed'
<1>1. Watchdog \in Threads
  BY DEF Threads
<1>2. ASSUME NEW r \in ThreadRec, r.slot = s, r.pc \notin StopSteps,
             thread' = [thread EXCEPT ![Watchdog] = r],
             fresh' \subseteq Workers \cup Slots \cup Threads,
             UNCHANGED <<row, rt, reserved, cooling, permits, worker, proc, port, routes>>
      PROVE  TypeOK' /\ Placed'
  <2>1. Steps(Watchdog) /\ thread'[Watchdog] = r
    BY <1>1, <1>2, ThreadUpdate
  <2>2. Placed'
    BY <1>1, <1>2, <2>1, BeginsPlaced
  <2> QED
    BY <1>2, <2>1, <2>2 DEF TypeOK, Steps
<1>3. /\ fresh \subseteq Workers \cup Slots \cup Threads
      /\ fresh \cup {Watchdog} \subseteq Workers \cup Slots \cup Threads
  BY <1>1 DEF TypeOK
<1>4. CASE RecoverIdle(s)
  <2> DEFINE r == [IdleThread EXCEPT !.pc = "start", !.op = "recover", !.slot = s]
  <2>1. r \in ThreadRec /\ r.slot = s /\ r.pc \notin StopSteps
    BY IdleTyped DEF IdleThread, ThreadRec, ThreadSteps, ThreadOps, StopSteps
  <2>2. /\ thread' = [thread EXCEPT ![Watchdog] = r]
        /\ UNCHANGED <<row, rt, reserved, cooling, permits, worker, fresh, proc, port, routes>>
    BY <1>4 DEF RecoverIdle
  <2> HIDE DEF r
  <2> QED BY <1>2, <1>3, <2>1, <2>2
<1>5. CASE RecoverStale(s)
  <2> DEFINE r == [IdleThread EXCEPT !.pc = "inspect", !.op = "inspect", !.slot = s,
                                     !.state = row[s].state]
  <2>1. r \in ThreadRec /\ r.slot = s /\ r.pc \notin StopSteps
    BY IdleTyped, RowTyped DEF IdleThread, ThreadRec, ThreadSteps, ThreadOps, StopSteps
  <2>2. /\ thread' = [thread EXCEPT ![Watchdog] = r]
        /\ fresh' = fresh \cup {Watchdog}
        /\ UNCHANGED <<row, rt, reserved, cooling, permits, worker, proc, port, routes>>
    BY <1>5 DEF RecoverStale
  <2> HIDE DEF r
  <2> QED BY <1>2, <1>3, <2>1, <2>2
<1>6. CASE ReviveScan(s)
  <2> DEFINE r == [IdleThread EXCEPT !.pc = "revive", !.op = "revive", !.slot = s]
  <2>1. r \in ThreadRec /\ r.slot = s /\ r.pc \notin StopSteps
    BY IdleTyped DEF IdleThread, ThreadRec, ThreadSteps, ThreadOps, StopSteps
  <2>2. /\ thread' = [thread EXCEPT ![Watchdog] = r]
        /\ fresh' = fresh \cup {Watchdog}
        /\ UNCHANGED <<row, rt, reserved, cooling, permits, worker, proc, port, routes>>
    BY <1>6 DEF ReviveScan
  <2> HIDE DEF r
  <2> QED BY <1>2, <1>3, <2>1, <2>2
<1> QED BY <1>4, <1>5, <1>6 DEF WatchdogScan

\* So does a retry timer ...
LEMMA RetryTyped ==
    ASSUME TypeOK, Placed, NEW s \in Slots, RetryFires(s)
    PROVE  TypeOK' /\ Placed'
<1>1. UNCHANGED <<reserved, cooling, permits, proc, routes, thread>>
  BY DEF RetryFires
<1>2. row' \in [Slots -> RowRec]
  <2>1. [row[s] EXCEPT !.state = "connecting"] \in RowRec
    BY RowTyped DEF RowRec, States
  <2> QED BY <2>1 DEF TypeOK, RetryFires
<1>3. port' \in [Slots -> Workers \cup {Repaired, None}]
  BY ZenonT(60) DEF TypeOK, RetryFires, Closed
<1>4. CASE /\ rt' = [rt EXCEPT ![s].timer = FALSE]
           /\ fresh' = fresh \ {s}
           /\ UNCHANGED worker
  <2>1. [rt[s] EXCEPT !.timer = FALSE] \in RuntimeRec
    BY RuntimeTyped DEF RuntimeRec
  <2>2. rt' \in [Slots -> RuntimeRec]
    BY <1>4, <2>1 DEF TypeOK
  <2> QED BY <1>1, <1>2, <1>3, <1>4, <2>2 DEF TypeOK, Placed
<1>5. CASE \E w \in Workers :
               /\ worker' = [worker EXCEPT ![w] = [pc |-> "dial", slot |-> s, node |-> None]]
               /\ rt' = [rt EXCEPT ![s] = [rt[s] EXCEPT !.timer = FALSE, !.listener = None,
                                   !.stop = FALSE, !.dialing = FALSE, !.worker = w]]
               /\ fresh' = (fresh \ {s}) \cup {w}
  <2>1. PICK w \in Workers :
               /\ worker' = [worker EXCEPT ![w] = [pc |-> "dial", slot |-> s, node |-> None]]
               /\ rt' = [rt EXCEPT ![s] = [rt[s] EXCEPT !.timer = FALSE, !.listener = None,
                                   !.stop = FALSE, !.dialing = FALSE, !.worker = w]]
               /\ fresh' = (fresh \ {s}) \cup {w}
    BY <1>5
  <2>2. [rt[s] EXCEPT !.timer = FALSE, !.listener = None, !.stop = FALSE,
                      !.dialing = FALSE, !.worker = w] \in RuntimeRec
    BY RuntimeTyped DEF RuntimeRec
  <2>3. rt' \in [Slots -> RuntimeRec]
    BY <2>1, <2>2 DEF TypeOK
  <2>4. [pc |-> "dial", slot |-> s, node |-> None] \in WorkerRec
    BY DEF WorkerRec, WorkerSteps
  <2>5. /\ worker' \in [Workers -> WorkerRec]
        /\ worker'[w].slot = s
        /\ \A v \in Workers \ {w} : worker'[v] = worker[v]
    BY <2>1, <2>4, WorkerUpdate
  <2>6. Placed'
    BY <1>1, <2>5 DEF Placed
  <2> QED BY <1>1, <1>2, <1>3, <2>1, <2>3, <2>5, <2>6 DEF TypeOK
<1> QED BY <1>4, <1>5 DEF RetryFires

\* ... and whatever fails or expires outside.
LEMMA EnvironmentTyped ==
    ASSUME TypeOK, Placed, Fault \/ \E n \in Nodes : CoolDown(n)
    PROVE  TypeOK' /\ Placed'
<1>1. ASSUME NEW w \in Workers, ProcessDies(w)
      PROVE  TypeOK' /\ Placed'
  <2>1. proc' \in [Workers -> {"none", "starting", "up"}]
    BY <1>1 DEF TypeOK, ProcessDies, Killed
  <2>2. routes' \in [Slots -> SUBSET {"default", "closed"}]
    BY <1>1, WorkerTyped DEF TypeOK, ProcessDies, WithoutTunnel
  <2>3. UNCHANGED <<row, rt, reserved, cooling, permits, worker, fresh, port, thread>>
    BY <1>1 DEF ProcessDies
  <2> QED BY <2>1, <2>2, <2>3 DEF TypeOK, Placed
<1>2. ASSUME NEW s \in Slots, ListenerDies(s)
      PROVE  TypeOK' /\ Placed'
  BY <1>2 DEF TypeOK, Placed, ListenerDies
<1>3. ASSUME NEW n \in Nodes, CoolDown(n)
      PROVE  TypeOK' /\ Placed'
  BY <1>3 DEF TypeOK, Placed, CoolDown
<1> QED BY <1>1, <1>2, <1>3 DEF Fault

LEMMA InitTyped == Init => TypeOK /\ Placed
<1> SUFFICES ASSUME Init PROVE TypeOK /\ Placed
  OBVIOUS
<1>1. row \in [Slots -> RowRec]
  <2>1. 0 \in 0..FailureLimit /\ FailureLimit \in 0..FailureLimit
        /\ 0..(FailureLimit - 1) \subseteq 0..FailureLimit
    BY ExitSlotsAssumption
  <2>2. \A k \in 0..FailureLimit :
          /\ [enabled |-> TRUE, state |-> "idle", reason |-> "none",
              streak |-> k, entry |-> None] \in RowRec
          /\ [enabled |-> FALSE, state |-> "disabled", reason |-> "automatic",
              streak |-> k, entry |-> None] \in RowRec
          /\ [enabled |-> FALSE, state |-> "disabled", reason |-> "manual",
              streak |-> k, entry |-> None] \in RowRec
    BY DEF RowRec, States, Reasons
  <2>3. row = [s \in Slots |-> row[s]]
    BY DEF Init, InitRow
  <2>4. \A s \in Slots : row[s] \in RowRec
    <3> TAKE s \in Slots
    <3>1. CASE \E k \in 0..(FailureLimit - 1) :
                 row[s] = [enabled |-> TRUE, state |-> "idle", reason |-> "none",
                           streak |-> k, entry |-> None]
      BY <2>1, <2>2, <3>1
    <3>2. CASE row[s] = [enabled |-> FALSE, state |-> "disabled", reason |-> "automatic",
                         streak |-> FailureLimit, entry |-> None]
      BY <2>1, <2>2, <3>2
    <3>3. CASE row[s] = [enabled |-> FALSE, state |-> "disabled", reason |-> "manual",
                         streak |-> 0, entry |-> None]
      BY <2>1, <2>2, <3>3
    <3> QED BY <3>1, <3>2, <3>3 DEF Init, InitRow
  <2> QED BY <2>3, <2>4
<1>2. rt \in [Slots -> RuntimeRec]
  <2>1. \A p \in Nodes \cup {None} : InitRuntime(p) \in RuntimeRec
    BY DEF InitRuntime, RuntimeRec
  <2> QED BY <2>1 DEF Init
<1>3. worker \in [Workers -> WorkerRec] /\ thread \in [Threads -> ThreadRec]
  BY IdleTyped DEF Init
<1>4. /\ reserved \in [Slots -> Nodes \cup {None}]
      /\ cooling \subseteq Nodes
      /\ permits \in Nat
      /\ fresh \subseteq Workers \cup Slots \cup Threads
      /\ proc \in [Workers -> {"none", "starting", "up"}]
      /\ port \in [Slots -> Workers \cup {Repaired, None}]
      /\ routes \in [Slots -> SUBSET {"default", "closed"}]
  BY ExitSlotsAssumption DEF Init
<1>5. Placed
  BY DEF Init, Placed, IdleWorker, IdleThread, StopSteps
<1> QED BY <1>1, <1>2, <1>3, <1>4, <1>5 DEF TypeOK

LEMMA NextTyped == TypeOK /\ Placed /\ [Next]_vars => TypeOK' /\ Placed'
<1> SUFFICES ASSUME TypeOK, Placed, [Next]_vars
             PROVE  TypeOK' /\ Placed'
  OBVIOUS
<1>1. CASE UNCHANGED vars
  BY <1>1 DEF vars, TypeOK, Placed
<1>2. CASE Next
  BY <1>2, WorkerStepTyped, ThreadStepTyped, RequestTyped, WatchdogStepTyped,
     ScanTyped, RetryTyped, EnvironmentTyped DEF Next
<1> QED BY <1>1, <1>2

\* Every reachable state is well typed, and every worker, request and timer
\* under way acts for a slot: no field of a row, a runtime, a worker or a
\* request ever gets a value the code would not store there.
THEOREM TypeCorrect == Spec => []TypeOK
<1>1. Init => TypeOK /\ Placed
  BY InitTyped
<1>2. TypeOK /\ Placed /\ [Next]_vars => (TypeOK /\ Placed)'
  BY NextTyped
<1> QED BY <1>1, <1>2, PTL DEF Spec

-----------------------------------------------------------------------------
(* OneOwner. What the steps of one actor leave of the invariant *)

LockSteps == {"stopBump", "stopClose", "stopRoute", "startLaunch", "repair"}

\* What OwnerAttends reads of slot s, up to a state in which it is served.
SlotKept(s) ==
    /\ row'[s].enabled = row[s].enabled
    /\ row'[s].state \in {row[s].state} \cup Serving
    /\ rt'[s].worker = rt[s].worker
    /\ rt'[s].stop = rt[s].stop

SlotsKept == \A s \in Slots : SlotKept(s)

\* Only x touches a runtime lock, and only one that is free or its own; nobody
\* sets the stop event of a slot that another one has locked.
LEMMA LockPassed ==
    ASSUME TypeOK, Placed, LockHeld, NEW x,
           \A t \in Threads : t # x => /\ thread'[t].pc = thread[t].pc
                                       /\ thread'[t].slot = thread[t].slot,
           \A w \in Workers : w # x => /\ worker'[w].pc = worker[w].pc
                                       /\ worker'[w].slot = worker[w].slot,
           \A s \in Slots : \/ rt'[s].lock = rt[s].lock /\ rt'[s].stop = rt[s].stop
                            \/ rt[s].lock \in {None, x},
           x \in Threads /\ thread'[x].pc \in LockSteps => rt'[thread'[x].slot].lock = x,
           x \in Threads /\ thread'[x].pc = "startLaunch" => ~rt'[thread'[x].slot].stop,
           x \in Workers /\ worker'[x].pc \in {"record", "teardown", "retire"}
               => rt'[worker'[x].slot].lock = x
    PROVE  LockHeld'
<1>1. \A t \in Threads : thread[t].pc \in LockSteps => thread[t].slot \in Slots
  BY DEF Placed, LockSteps
<1>2. \A w \in Workers : worker[w].pc \in {"record", "teardown", "retire"} => worker[w].slot \in Slots
  BY DEF Placed
<1>3. None \notin Threads /\ None \notin Workers
  BY ExitSlotsAssumption DEF Threads
<1>4. ASSUME NEW t \in Threads, thread'[t].pc \in LockSteps
      PROVE  rt'[thread'[t].slot].lock = t
  <2>1. CASE t = x
    BY <1>4, <2>1
  <2>2. CASE t # x
    <3>1. thread[t].pc \in LockSteps /\ thread'[t].slot = thread[t].slot
      BY <1>4, <2>2
    <3>2. rt[thread[t].slot].lock = t /\ thread[t].slot \in Slots
      BY <1>1, <3>1 DEF LockHeld, LockSteps
    <3> QED BY <1>3, <2>2, <3>1, <3>2
  <2> QED BY <2>1, <2>2
<1>5. ASSUME NEW w \in Workers, worker'[w].pc \in {"record", "teardown", "retire"}
      PROVE  rt'[worker'[w].slot].lock = w
  <2>1. CASE w = x
    BY <1>5, <2>1
  <2>2. CASE w # x
    <3>1. worker[w].pc \in {"record", "teardown", "retire"} /\ worker'[w].slot = worker[w].slot
      BY <1>5, <2>2
    <3>2. rt[worker[w].slot].lock = w /\ worker[w].slot \in Slots
      BY <1>2, <3>1 DEF LockHeld
    <3> QED BY <1>3, <2>2, <3>1, <3>2
  <2> QED BY <2>1, <2>2
<1>6. ASSUME NEW t \in Threads, thread'[t].pc = "startLaunch"
      PROVE  ~rt'[thread'[t].slot].stop
  <2>1. CASE t = x
    BY <1>6, <2>1
  <2>2. CASE t # x
    <3>1. thread[t].pc = "startLaunch" /\ thread'[t].slot = thread[t].slot
      BY <1>6, <2>2
    <3>2. /\ rt[thread[t].slot].lock = t /\ thread[t].slot \in Slots
          /\ ~rt[thread[t].slot].stop
      BY <1>1, <3>1 DEF LockHeld, LockSteps
    <3> QED BY <1>3, <2>2, <3>1, <3>2
  <2> QED BY <2>1, <2>2
<1> QED BY <1>4, <1>5, <1>6 DEF LockHeld, LockSteps

\* The slots of the workers about to retire them stay without an owner.
LEMMA StayRetired ==
    ASSUME Placed, RetiredAlone,
           \A w \in Workers : worker'[w].pc = "retire" =>
              worker[w].pc = "retire" /\ worker'[w].slot = worker[w].slot,
           \A s \in Slots : \/ Owners(s) = {} => Owners(s)' = {}
                            \/ rt[s].lock \notin Workers /\ LockHeld
    PROVE  RetiredAlone'
<1> SUFFICES ASSUME NEW w \in Workers, worker'[w].pc = "retire"
             PROVE  Owners(worker[w].slot)' = {}
  BY DEF RetiredAlone
<1>1. PICK s \in Slots : s = worker[w].slot /\ s = worker'[w].slot
  BY DEF Placed
<1>2. worker[w].pc = "retire"
  OBVIOUS
<1>3. Owners(s) = {}
  BY <1>1, <1>2 DEF RetiredAlone, Owners
<1>4. LockHeld => rt[s].lock = w
  BY <1>1, <1>2 DEF LockHeld
<1>5. Owners(s)' = {}
  BY <1>3, <1>4
<1> QED BY <1>1, <1>5 DEF Owners

\* A worker that goes on, without a lock, and changes no generation.
QuietSteps == WorkerSteps \ {"done", "schedule", "record", "teardown", "retire"}

LEMMA MovesKeepOwners ==
    ASSUME TypeOK, Placed, LockHeld, OwnerAttends, LockExcludesOwners,
           NEW w \in Workers, Moves(w), worker[w].pc \in QuietSteps,
           worker'[w].pc \in QuietSteps, SlotsKept,
           \A s \in Slots : rt'[s].lock = rt[s].lock, UNCHANGED <<fresh, thread>>
    PROVE  LockHeld' /\ OwnerAttends' /\ LockExcludesOwners'
<1>1. \A s : Owners(s)' = Owners(s)
  BY DEF Owners, Moves, QuietSteps
<1>2. LockHeld'
  <2>1. w \notin Threads
    BY ExitSlotsAssumption DEF Threads
  <2>2. \A s \in Slots : rt'[s].lock = rt[s].lock /\ rt'[s].stop = rt[s].stop
    BY DEF SlotsKept, SlotKept
  <2>3. /\ \A v \in Workers : v # w => /\ worker'[v].pc = worker[v].pc
                                       /\ worker'[v].slot = worker[v].slot
        /\ worker'[w].pc \notin {"record", "teardown", "retire"}
    BY DEF Moves, QuietSteps
  <2> QED BY <2>1, <2>2, <2>3, LockPassed
<1>3. \A s : Stopping(s)' = Stopping(s)
  BY DEF Stopping
<1>4. OwnerAttends'
  <2> SUFFICES ASSUME NEW s \in Slots, NEW v \in Owners(s)
               PROVE  /\ worker'[v].pc # "done"
                      /\ rt'[s].worker = v
                      /\ row'[s].enabled => row'[s].state \in Live
                      /\ row'[s].enabled /\ rt'[s].stop => Stopping(s)' \/ worker'[v].pc = "record"
    BY <1>1 DEF OwnerAttends
  <2>1. SlotKept(s) /\ v \in Workers
    BY DEF SlotsKept, Owners
  <2>2. /\ worker[v].pc # "done"
        /\ rt[s].worker = v
        /\ row[s].enabled => row[s].state \in Live
        /\ row[s].enabled /\ rt[s].stop => Stopping(s) \/ worker[v].pc = "record"
    BY DEF OwnerAttends
  <2>3. v # w => worker'[v].pc = worker[v].pc
    BY <2>1 DEF Moves
  <2> QED BY <1>3, <2>1, <2>2, <2>3 DEF SlotKept, Serving, Live, QuietSteps
<1>5. LockExcludesOwners'
  <2>1. \A v \in Workers : worker'[v].pc = "retire" =>
            worker[v].pc = "retire" /\ worker'[v].slot = worker[v].slot
    BY DEF Moves, QuietSteps
  <2>2. RetiredAlone'
    BY <1>1, <2>1, StayRetired DEF LockExcludesOwners
  <2> QED BY <1>1, <2>2 DEF LockExcludesOwners
<1> QED BY <1>2, <1>4, <1>5

\* A thread that changes neither a generation nor the stop event. It may have
\* cleared the runtime's reference to a worker if nobody owns the slot.
LEMMA StepsKeepOwners ==
    ASSUME Placed, OwnerAttends, LockExcludesOwners,
           NEW t \in Threads, Steps(t), UNCHANGED worker,
           fresh' \cap Workers = fresh \cap Workers,
           \A s \in Slots : SlotKept(s) \/ Owners(s) = {},
           ~(thread[t].pc = "stopBump" /\ thread[t].was),
           thread'[t].pc # "startLaunch",
           ~(thread'[t].pc \in {"stopClose", "stopRoute"} /\ thread'[t].was)
    PROVE  OwnerAttends' /\ LockExcludesOwners'
<1>1. \A s : Owners(s)' = Owners(s)
  BY DEF Owners
<1>2. \A s : Stopping(s) => Stopping(s)'
  BY DEF Stopping, Steps
<1>3. OwnerAttends'
  <2> SUFFICES ASSUME NEW s \in Slots, NEW v \in Owners(s)
               PROVE  /\ worker'[v].pc # "done"
                      /\ rt'[s].worker = v
                      /\ row'[s].enabled => row'[s].state \in Live
                      /\ row'[s].enabled /\ rt'[s].stop => Stopping(s)' \/ worker'[v].pc = "record"
    BY <1>1 DEF OwnerAttends
  <2>1. SlotKept(s)
    OBVIOUS
  <2>2. /\ worker[v].pc # "done"
        /\ rt[s].worker = v
        /\ row[s].enabled => row[s].state \in Live
        /\ row[s].enabled /\ rt[s].stop => Stopping(s) \/ worker[v].pc = "record"
    BY DEF OwnerAttends
  <2> QED BY <1>2, <2>1, <2>2 DEF SlotKept, Serving, Live
<1>4. LockExcludesOwners'
  <2> SUFFICES ASSUME NEW u \in Threads,
                      \/ thread'[u].pc = "startLaunch"
                      \/ thread'[u].pc \in {"stopClose", "stopRoute"} /\ thread'[u].was
               PROVE  Owners(thread[u].slot)' = {}
    BY <1>1, StayRetired DEF LockExcludesOwners
  <2>1. u # t
    OBVIOUS
  <2>2. thread'[u] = thread[u] /\ Owners(thread[u].slot) = {}
    BY <2>1 DEF Steps, LockExcludesOwners
  <2> QED BY <2>2 DEF Owners
<1> QED BY <1>3, <1>4

\* A thread that acts for slot s, which nobody owns afterwards.
LEMMA NobodyLeft ==
    ASSUME Placed, OwnerAttends, LockExcludesOwners,
           NEW t \in Threads, Steps(t), UNCHANGED worker, NEW s \in Slots,
           Owners(s)' = {},
           \A o \in Slots \ {s} : SlotKept(o) /\ Owners(o)' = Owners(o),
           thread[t].slot = s,
           thread'[t].pc = "idle" \/ thread'[t].slot = s
    PROVE  OwnerAttends' /\ LockExcludesOwners'
<1>1. \A o \in Slots \ {s} : Stopping(o)' = Stopping(o)
  BY DEF Stopping, Steps
<1>2. OwnerAttends'
  <2> SUFFICES ASSUME NEW o \in Slots \ {s}, NEW v \in Owners(o)
               PROVE  /\ worker'[v].pc # "done"
                      /\ rt'[o].worker = v
                      /\ row'[o].enabled => row'[o].state \in Live
                      /\ row'[o].enabled /\ rt'[o].stop => Stopping(o)' \/ worker'[v].pc = "record"
    BY DEF OwnerAttends
  <2>1. /\ worker[v].pc # "done"
        /\ rt[o].worker = v
        /\ row[o].enabled => row[o].state \in Live
        /\ row[o].enabled /\ rt[o].stop => Stopping(o) \/ worker[v].pc = "record"
    BY DEF OwnerAttends
  <2> QED BY <1>1, <2>1 DEF SlotKept, Serving, Live
<1>3. LockExcludesOwners'
  <2> SUFFICES ASSUME NEW u \in Threads,
                      \/ thread'[u].pc = "startLaunch"
                      \/ thread'[u].pc \in {"stopClose", "stopRoute"} /\ thread'[u].was
               PROVE  Owners(thread[u].slot)' = {}
    BY StayRetired DEF LockExcludesOwners
  <2>1. CASE u = t
    <3>1. thread'[u].slot = s
      BY <2>1
    <3> QED BY <3>1 DEF Owners
  <2>2. CASE u # t
    <3>1. thread'[u] = thread[u] /\ Owners(thread[u].slot) = {} /\ thread[u].slot \in Slots
      BY <2>2 DEF Steps, LockExcludesOwners, Placed
    <3>2. CASE thread[u].slot = s
      BY <3>1, <3>2 DEF Owners
    <3>3. CASE thread[u].slot # s
      BY <3>1, <3>3 DEF Owners
    <3> QED BY <3>2, <3>3
  <2> QED BY <2>1, <2>2
<1> QED BY <1>2, <1>3

\* Once the generation of a slot has moved on nobody owns it.
LEMMA BumpDisowns ==
    ASSUME TypeOK, NEW s \in Slots, UNCHANGED worker, fresh' = Bumped(s)
    PROVE  Owners(s)' = {} /\ \A o \in Slots \ {s} : Owners(o)' = Owners(o)
BY DEF Owners, Bumped, SlotOf

LEMMA ProcessWrite ==
    ASSUME TypeOK, NEW s, row' = row,
           rt' = rt \/ \E p : rt' = [rt EXCEPT ![s].process = p]
    PROVE  SlotsKept /\ \A o \in Slots : rt'[o].lock = rt[o].lock
<1>1. CASE rt' = rt
  BY <1>1 DEF SlotsKept, SlotKept
<1>2. CASE \E p : rt' = [rt EXCEPT ![s].process = p]
  <2>1. \A o \in Slots : /\ rt'[o].lock = rt[o].lock /\ rt'[o].stop = rt[o].stop
                         /\ rt'[o].worker = rt[o].worker
    BY <1>2 DEF TypeOK, RuntimeRec
  <2> QED BY <2>1 DEF SlotsKept, SlotKept
<1> QED BY <1>1, <1>2

\* Steps of a worker that leave the runtime alone, or nearly so.
LEMMA WorkerStepOwners ==
    ASSUME OwnerInv, NEW w \in Workers, WorkerStep(w)
    PROVE  LockHeld' /\ OwnerAttends' /\ LockExcludesOwners'
<1> USE DEF OwnerInv
<1>1. ASSUME worker[w].pc \in QuietSteps, NEW step \in QuietSteps, Goto(w, step), SlotsKept,
             \A s \in Slots : rt'[s].lock = rt[s].lock, UNCHANGED <<fresh, thread>>
      PROVE  LockHeld' /\ OwnerAttends' /\ LockExcludesOwners'
  <2>1. Moves(w) /\ worker'[w].pc = step
    BY <1>1, GotoMoves DEF QuietSteps
  <2> QED BY <1>1, <2>1, MovesKeepOwners
<1>2. ASSUME worker[w].pc \in QuietSteps, \E step \in QuietSteps : Goto(w, step),
             UNCHANGED <<row, rt, fresh, thread>>
      PROVE  LockHeld' /\ OwnerAttends' /\ LockExcludesOwners'
  BY <1>1, <1>2 DEF SlotsKept, SlotKept
<1>3. CASE DialCheck(w)
  BY <1>2, <1>3 DEF DialCheck, LeaveDial, QuietSteps, WorkerSteps
<1>4. CASE AcquireDial(w)
  BY <1>2, <1>4 DEF AcquireDial, LeaveDial, QuietSteps, WorkerSteps
<1>5. CASE CheckBeforeSpawn(w)
  BY <1>2, <1>5 DEF CheckBeforeSpawn, LeaveDial, QuietSteps, WorkerSteps
<1>6. CASE Spawn(w)
  BY <1>2, <1>6 DEF Spawn, LeaveDial, QuietSteps, WorkerSteps
<1>7. CASE AwaitTunnel(w)
  BY <1>2, <1>7 DEF AwaitTunnel, LeaveDial, QuietSteps, WorkerSteps
<1>8. CASE InstallRoutes(w)
  BY <1>2, <1>8 DEF InstallRoutes, LeaveDial, QuietSteps, WorkerSteps
<1>9. CASE VerifyEgress(w)
  BY <1>2, <1>9 DEF VerifyEgress, LeaveDial, QuietSteps, WorkerSteps
<1>10. CASE OpenListener(w)
  BY <1>2, <1>10 DEF OpenListener, LeaveDial, QuietSteps, WorkerSteps
<1>11. CASE CommitCheck(w)
  BY <1>2, <1>11 DEF CommitCheck, LeaveDial, QuietSteps, WorkerSteps
<1>12. CASE HealthCheck(w)
  BY <1>2, <1>12 DEF HealthCheck, LeaveDial, QuietSteps, WorkerSteps
<1>13. CASE ExceptHandler(w)
  BY <1>2, <1>13 DEF ExceptHandler, LeaveDial, QuietSteps, WorkerSteps
<1>14. CASE Finally(w)
  BY <1>2, <1>14 DEF Finally, LeaveDial, QuietSteps, WorkerSteps
<1>15. CASE TakePreferred(w)
  <2>1. PICK n \in Nodes \cup {None}, step \in QuietSteps :
          worker' = [worker EXCEPT ![w] = [worker[w] EXCEPT !.pc = step, !.node = n]]
    <3>1. worker[w].slot \in Slots
      BY <1>15 DEF Placed, TakePreferred
    <3>2. rt[worker[w].slot].preferred \in Nodes \cup {None} /\ "reserve" \in QuietSteps
      BY <3>1, RuntimeTyped DEF QuietSteps, WorkerSteps
    <3> QED BY <1>15, <3>2 DEF TakePreferred
  <2>2. [worker[w] EXCEPT !.pc = step, !.node = n] \in WorkerRec
    BY WorkerTyped DEF WorkerRec, QuietSteps
  <2>3. Moves(w) /\ worker'[w].pc = step
    BY <2>1, <2>2, WorkerUpdate, WorkerTyped DEF Moves, WorkerRec
  <2>4. worker[w].pc \in QuietSteps /\ UNCHANGED <<fresh, thread>>
    BY <1>15 DEF TakePreferred, QuietSteps, WorkerSteps
  <2>5. SlotsKept /\ \A s \in Slots : rt'[s].lock = rt[s].lock
    BY <1>15 DEF TakePreferred, SlotsKept, SlotKept, TypeOK, RuntimeRec
  <2> QED BY <2>3, <2>4, <2>5, MovesKeepOwners
<1>16. CASE ReserveNode(w)
  <2>1. PICK n \in Nodes \cup {None}, step \in QuietSteps :
          worker' = [worker EXCEPT ![w] = [worker[w] EXCEPT !.pc = step, !.node = n]]
    <3>1. /\ Selectable(worker[w].slot) \subseteq Nodes
          /\ {worker[w].node} \ ({None} \cup Taken(worker[w].slot)) \subseteq Nodes
          /\ "check" \in QuietSteps /\ "except" \in QuietSteps
      BY WorkerTyped DEF Selectable, QuietSteps, WorkerSteps
    <3>2. CASE \E n \in Nodes : worker' = [worker EXCEPT ![w] =
                                   [worker[w] EXCEPT !.pc = "check", !.node = n]]
      BY <3>1, <3>2
    <3>3. CASE worker' = [worker EXCEPT ![w] =
                            [worker[w] EXCEPT !.pc = "except", !.node = None]]
      BY <3>1, <3>3
    <3> QED BY <1>16, <3>1, <3>2, <3>3 DEF ReserveNode
  <2>2. [worker[w] EXCEPT !.pc = step, !.node = n] \in WorkerRec
    BY WorkerTyped DEF WorkerRec, QuietSteps
  <2>3. Moves(w) /\ worker'[w].pc = step
    BY <2>1, <2>2, WorkerUpdate, WorkerTyped DEF Moves, WorkerRec
  <2>4. worker[w].pc \in QuietSteps /\ UNCHANGED <<row, rt, fresh, thread>>
    BY <1>16 DEF ReserveNode, QuietSteps, WorkerSteps
  <2>5. SlotsKept /\ \A s \in Slots : rt'[s].lock = rt[s].lock
    BY <2>4 DEF SlotsKept, SlotKept
  <2> QED BY <2>3, <2>4, <2>5, MovesKeepOwners
<1>17. CASE Adopt(w)
  <2>1. worker[w].pc \in QuietSteps /\ \E step \in QuietSteps : Goto(w, step)
    BY <1>17 DEF Adopt, LeaveDial, QuietSteps, WorkerSteps
  <2>2. SlotsKept /\ \A s \in Slots : rt'[s].lock = rt[s].lock
    <3>1. row' = row /\ (rt' = rt \/ \E p : rt' = [rt EXCEPT ![worker[w].slot].process = p])
      BY <1>17 DEF Adopt
    <3> QED BY <3>1, ProcessWrite
  <2>3. UNCHANGED <<fresh, thread>>
    BY <1>17 DEF Adopt
  <2> QED BY <1>1, <2>1, <2>2, <2>3
<1>18. CASE Publish(w)
  <2>1. worker[w].pc \in QuietSteps /\ \E step \in QuietSteps : Goto(w, step)
    BY <1>18 DEF Publish, LeaveDial, QuietSteps, WorkerSteps
  <2>2. SlotsKept /\ \A s \in Slots : rt'[s].lock = rt[s].lock
    BY <1>18 DEF Publish, SlotsKept, SlotKept, TypeOK, RuntimeRec
  <2>3. UNCHANGED <<fresh, thread>>
    BY <1>18 DEF Publish
  <2> QED BY <1>1, <2>1, <2>2, <2>3
<1>19. CASE Cleanup(w)
  <2>1. worker[w].pc \in QuietSteps /\ \E step \in QuietSteps : Goto(w, step)
    BY <1>19 DEF Cleanup, LeaveDial, QuietSteps, WorkerSteps
  <2>2. SlotsKept /\ \A s \in Slots : rt'[s].lock = rt[s].lock
    <3>1. row' = row /\ (rt' = rt \/ \E p : rt' = [rt EXCEPT ![worker[w].slot].process = p])
      BY <1>19 DEF Cleanup
    <3> QED BY <3>1, ProcessWrite
  <2>3. UNCHANGED <<fresh, thread>>
    BY <1>19 DEF Cleanup
  <2> QED BY <1>1, <2>1, <2>2, <2>3
<1>20. CASE Reclaim(w)
  <2>1. worker[w].pc \in QuietSteps /\ \E step \in QuietSteps : Goto(w, step)
    BY <1>20 DEF Reclaim, LeaveDial, QuietSteps, WorkerSteps
  <2>2. SlotsKept /\ \A s \in Slots : rt'[s].lock = rt[s].lock
    <3>1. row' = row /\ (rt' = rt \/ \E p : rt' = [rt EXCEPT ![worker[w].slot].process = p])
      BY <1>20 DEF Reclaim
    <3> QED BY <3>1, ProcessWrite
  <2>3. UNCHANGED <<fresh, thread>>
    BY <1>20 DEF Reclaim
  <2> QED BY <1>1, <2>1, <2>2, <2>3
<1>21. CASE CommitWrite(w)
  <2>1. worker[w].pc \in QuietSteps /\ \E step \in QuietSteps : Goto(w, step)
    BY <1>21 DEF CommitWrite, LeaveDial, QuietSteps, WorkerSteps
  <2>2. SlotsKept /\ \A s \in Slots : rt'[s].lock = rt[s].lock
    <3>1. \/ row' = row
          \/ \E state \in Serving : row' = [row EXCEPT ![worker[w].slot] =
              [row[worker[w].slot] EXCEPT !.state = state, !.entry = worker[w].node, !.streak = 0]]
      BY <1>21 DEF CommitWrite
    <3>2. rt' = rt
      BY <1>21 DEF CommitWrite
    <3>3. \A o \in Slots : /\ row'[o].enabled = row[o].enabled
                           /\ row'[o].state \in {row[o].state} \cup Serving
      <4>1. CASE row' = row
        BY <4>1
      <4>2. CASE \E state \in Serving : row' = [row EXCEPT ![worker[w].slot] =
              [row[worker[w].slot] EXCEPT !.state = state, !.entry = worker[w].node, !.streak = 0]]
        BY <4>2 DEF TypeOK, RowRec
      <4> QED BY <3>1, <4>1, <4>2
    <3> QED BY <3>2, <3>3 DEF SlotsKept, SlotKept
  <2>3. UNCHANGED <<fresh, thread>>
    BY <1>21 DEF CommitWrite
  <2> QED BY <1>1, <2>1, <2>2, <2>3
<1>22. CASE ProbeOutcome(w)
  <2>1. worker[w].pc \in QuietSteps /\ \E step \in QuietSteps : Goto(w, step)
    BY <1>22 DEF ProbeOutcome, LeaveDial, QuietSteps, WorkerSteps
  <2>2. SlotsKept /\ \A s \in Slots : rt'[s].lock = rt[s].lock
    BY <1>22 DEF ProbeOutcome, SlotsKept, SlotKept, TypeOK, RowRec, Serving
  <2>3. UNCHANGED <<fresh, thread>>
    BY <1>22 DEF ProbeOutcome
  <2> QED BY <1>1, <2>1, <2>2, <2>3
<1>23. CASE HandleFailure(w)
  <2> DEFINE s == worker[w].slot
  <2>1. s \in Slots /\ w \notin Threads
    BY <1>23, ExitSlotsAssumption DEF Placed, HandleFailure, Threads
  <2>2. CASE ~row[s].enabled \/ w \notin fresh
    BY <1>2, <1>23, <2>2 DEF HandleFailure, QuietSteps, WorkerSteps
  <2>3. CASE row[s].enabled /\ w \in fresh
    <3>1. Moves(w) /\ worker'[w].pc = "record"
      BY <1>23, <2>3, GotoMoves DEF HandleFailure, WorkerSteps
    <3>2. /\ worker[w].pc \in {"fail", "failDead"}
          /\ rt[s].lock = None
          /\ UNCHANGED <<row, fresh, thread>>
      BY <1>23 DEF HandleFailure, Unlocked
    <3>3. /\ rt'[s].lock = w /\ rt'[s].worker = rt[s].worker
          /\ \A o \in Slots \ {s} : rt'[o] = rt[o]
      <4>1. \E n : rt' = [rt EXCEPT ![s] = [rt[s] EXCEPT !.lock = w, !.stop = TRUE, !.preferred = n]]
        BY <1>23, <2>3 DEF HandleFailure
      <4> QED BY <2>1, <4>1 DEF TypeOK, RuntimeRec
    <3>4. LockHeld'
      <4>1. worker'[w].slot = s
        BY <3>1 DEF Moves
      <4>2. \A v \in Workers : v # w => worker'[v].pc = worker[v].pc /\ worker'[v].slot = worker[v].slot
        BY <3>1 DEF Moves
      <4>3. \A o \in Slots : \/ rt'[o].lock = rt[o].lock /\ rt'[o].stop = rt[o].stop
                             \/ rt[o].lock \in {None, w}
        BY <3>2, <3>3
      <4> QED BY <2>1, <3>2, <3>3, <4>1, <4>2, <4>3, LockPassed
    <3>5. \A o : Owners(o)' = Owners(o)
      BY <3>1, <3>2 DEF Owners, Moves
    <3>6. OwnerAttends'
      <4> SUFFICES ASSUME NEW o \in Slots, NEW v \in Owners(o)
                   PROVE  /\ worker'[v].pc # "done"
                          /\ rt'[o].worker = v
                          /\ row'[o].enabled => row'[o].state \in Live
                          /\ row'[o].enabled /\ rt'[o].stop => Stopping(o)' \/ worker'[v].pc = "record"
        BY <3>5 DEF OwnerAttends
      <4>1. /\ worker[v].pc # "done"
            /\ rt[o].worker = v
            /\ row[o].enabled => row[o].state \in Live
            /\ row[o].enabled /\ rt[o].stop => Stopping(o) \/ worker[v].pc = "record"
        BY DEF OwnerAttends
      <4>2. Stopping(o)' = Stopping(o) /\ v \in Workers
        BY <3>2 DEF Stopping, Owners
      <4>3. CASE o = s
        <5>1. w \in Owners(o)
          BY <2>3, <3>2, <4>3 DEF Owners
        <5>2. v = w
          BY <4>1, <5>1 DEF OwnerAttends
        <5> QED BY <3>1, <3>2, <3>3, <4>1, <4>3, <5>2
      <4>4. CASE o # s
        <5>1. v # w
          BY <4>4 DEF Owners
        <5> QED BY <3>1, <3>2, <3>3, <4>1, <4>2, <4>4, <5>1 DEF Moves
      <4> QED BY <4>3, <4>4
    <3>7. LockExcludesOwners'
      <4>1. \A v \in Workers : worker'[v].pc = "retire" =>
            worker[v].pc = "retire" /\ worker'[v].slot = worker[v].slot
        BY <2>3, <3>1 DEF Moves
      <4>2. RetiredAlone'
        BY <3>5, <4>1, StayRetired DEF LockExcludesOwners
      <4> QED BY <3>2, <3>5, <4>2 DEF LockExcludesOwners
    <3> QED BY <3>4, <3>6, <3>7
  <2> QED BY <2>2, <2>3
<1>24. CASE RecordFailure(w)
  <2>1. PICK s \in Slots : s = worker[w].slot /\ w \notin Threads
    BY <1>24, ExitSlotsAssumption DEF Placed, RecordFailure, Threads
  <2>2. /\ Moves(w) /\ worker'[w].pc \in {"teardown", "retire"}
        /\ worker[w].pc = "record" /\ UNCHANGED thread
    BY <1>24, GotoMoves DEF RecordFailure, WorkerSteps
  <2>3. /\ \A o \in Slots : /\ rt'[o].lock = rt[o].lock
                            /\ rt'[o].stop = rt[o].stop
                            /\ rt'[o].worker = rt[o].worker
        /\ \A o \in Slots \ {s} : row'[o] = row[o]
        /\ rt[s].lock = w
    BY <1>24, <2>1, <2>2 DEF RecordFailure, TypeOK, RuntimeRec, LockHeld
  <2>4. Owners(s)' = {} /\ \A o \in Slots \ {s} : Owners(o)' = Owners(o)
    BY <1>24, <2>1, <2>2 DEF RecordFailure, Owners, Bumped, SlotOf, Moves
  <2>5. LockHeld'
    <3>1. /\ worker'[w].slot = s
          /\ \A v \in Workers : v # w => worker'[v].pc = worker[v].pc /\ worker'[v].slot = worker[v].slot
      BY <2>1, <2>2 DEF Moves
    <3> QED BY <2>1, <2>2, <2>3, <3>1, LockPassed
  <2>6. OwnerAttends'
    <3> SUFFICES ASSUME NEW o \in Slots, NEW v \in Owners(o)'
                 PROVE  /\ worker'[v].pc # "done"
                        /\ rt'[o].worker = v
                        /\ row'[o].enabled => row'[o].state \in Live
                        /\ row'[o].enabled /\ rt'[o].stop => Stopping(o)' \/ worker'[v].pc = "record"
      BY DEF OwnerAttends
    <3>1. o \in Slots \ {s} /\ v \in Owners(o)
      BY <2>4
    <3>2. /\ worker[v].pc # "done"
          /\ rt[o].worker = v
          /\ row[o].enabled => row[o].state \in Live
          /\ row[o].enabled /\ rt[o].stop => Stopping(o) \/ worker[v].pc = "record"
      BY <3>1 DEF OwnerAttends
    <3>3. v \in Workers /\ v # w /\ Stopping(o)' = Stopping(o)
      BY <2>1, <2>2, <3>1 DEF Owners, Stopping
    <3> QED BY <2>2, <2>3, <3>1, <3>2, <3>3 DEF Moves
  <2>7. LockExcludesOwners'
    <3>1. \A o \in Slots : Owners(o) = {} => Owners(o)' = {}
      BY <2>4
    <3>2. \A t \in Threads : thread[t].pc # "idle" => thread[t].slot \in Slots
      BY DEF Placed
    <3>3. RetiredAlone'
      <4> SUFFICES ASSUME NEW v \in Workers, worker'[v].pc = "retire"
                   PROVE  Owners(worker[v].slot)' = {}
        BY DEF RetiredAlone
      <4>1. CASE v = w
        BY <2>1, <2>2, <2>4, <4>1 DEF Moves, Owners
      <4>2. CASE v # w
        <5>1. PICK o \in Slots : /\ o = worker[v].slot /\ o = worker'[v].slot
                                /\ worker[v].pc = "retire"
          BY <2>2, <4>2 DEF Moves, Placed
        <5>2. Owners(o) = {}
          BY <5>1 DEF LockExcludesOwners, RetiredAlone, Owners
        <5>3. Owners(o)' = {}
          BY <2>4, <5>2
        <5> QED BY <5>1, <5>3 DEF Owners
      <4> QED BY <4>1, <4>2
    <3> QED BY <2>2, <3>1, <3>2, <3>3 DEF LockExcludesOwners, Owners
  <2> QED BY <2>5, <2>6, <2>7
<1>25. CASE Teardown(w)
  <2> DEFINE s == worker[w].slot
  <2>1. s \in Slots /\ w \notin Threads
    BY <1>25, ExitSlotsAssumption DEF Placed, Teardown, Threads
  <2>2. /\ Moves(w) /\ worker'[w].pc \in {"schedule", "finally"}
        /\ worker[w].pc \in {"teardown", "retire"} /\ UNCHANGED thread
    BY <1>25, GotoMoves DEF Teardown, WorkerSteps
  <2>3. /\ \A o \in Slots : /\ o # s => rt'[o].lock = rt[o].lock
                            /\ rt'[o].stop = rt[o].stop
                            /\ rt'[o].worker = rt[o].worker
                            /\ row'[o].enabled => row[o].enabled
                            /\ (o = s => worker[w].pc # "retire") => row'[o].state = row[o].state
        /\ rt[s].lock = w
    BY <1>25, <2>1, <2>2 DEF Teardown, TypeOK, RuntimeRec, RowRec, LockHeld
  <2>4. \A o : Owners(o)' \subseteq Owners(o)
    <3>1. fresh' = fresh \/ (worker'[w].pc = "schedule" /\ fresh' = fresh \cup {w})
      <4>1. fresh' = fresh \/ (Goto(w, "schedule") /\ fresh' = fresh \cup {w})
        BY <1>25 DEF Teardown
      <4> QED BY <4>1, GotoMoves DEF WorkerSteps
    <3> QED BY <2>2, <3>1 DEF Owners, Moves
  <2>5. LockHeld'
    <3>1. /\ worker'[w].slot = s
          /\ \A v \in Workers : v # w => worker'[v].pc = worker[v].pc /\ worker'[v].slot = worker[v].slot
      BY <2>2 DEF Moves
    <3>2. \A o \in Slots : \/ rt'[o].lock = rt[o].lock /\ rt'[o].stop = rt[o].stop
                           \/ rt[o].lock \in {None, w}
      <4> TAKE o \in Slots
      <4>1. CASE o = s
        BY <2>3, <4>1
      <4>2. CASE o # s
        BY <2>3, <4>2
      <4> QED BY <4>1, <4>2
    <3> QED BY <2>1, <2>2, <3>1, <3>2, LockPassed
  <2>6. OwnerAttends'
    <3> SUFFICES ASSUME NEW o \in Slots, NEW v \in Owners(o), v \in Owners(o)'
                 PROVE  /\ worker'[v].pc # "done"
                        /\ rt'[o].worker = v
                        /\ row'[o].enabled => row'[o].state \in Live
                        /\ row'[o].enabled /\ rt'[o].stop => Stopping(o)' \/ worker'[v].pc = "record"
      BY <2>4 DEF OwnerAttends
    <3>1. /\ worker[v].pc # "done"
          /\ rt[o].worker = v
          /\ row[o].enabled => row[o].state \in Live
          /\ row[o].enabled /\ rt[o].stop => Stopping(o) \/ worker[v].pc = "record"
      BY DEF OwnerAttends
    <3>2. v \in Workers /\ Stopping(o)' = Stopping(o)
      BY <2>2 DEF Owners, Stopping
    <3>3. row'[o].state = row[o].state
      BY <2>3 DEF LockExcludesOwners, RetiredAlone
    <3> QED BY <2>2, <2>3, <3>1, <3>2, <3>3 DEF Moves
  <2>7. LockExcludesOwners'
    <3>1. \A o : Owners(o) = {} => Owners(o)' = {}
      BY <2>4
    <3>2. \A v \in Workers : worker'[v].pc = "retire" =>
            worker[v].pc = "retire" /\ worker'[v].slot = worker[v].slot
      BY <2>2 DEF Moves
    <3>3. RetiredAlone'
      BY <3>1, <3>2, StayRetired DEF LockExcludesOwners
    <3> QED BY <2>2, <3>1, <3>3 DEF LockExcludesOwners
  <2> QED BY <2>5, <2>6, <2>7
<1>26. CASE ScheduleRetry(w)
  <2> DEFINE s == worker[w].slot
  <2>1. s \in Slots /\ w \notin Threads
    BY <1>26, ExitSlotsAssumption DEF Placed, ScheduleRetry, Threads
  <2>2. /\ Moves(w) /\ worker'[w].pc = "finally"
        /\ worker[w].pc = "schedule" /\ UNCHANGED thread
    BY <1>26, GotoMoves DEF ScheduleRetry, WorkerSteps
  <2>3. /\ \A o \in Slots : /\ rt'[o].lock = rt[o].lock
                            /\ rt'[o].stop = rt[o].stop
                            /\ rt'[o].worker = rt[o].worker
        /\ row' = row
    BY <1>26, <2>1 DEF ScheduleRetry, TypeOK, RuntimeRec
  <2>4. \A o : Owners(o)' \subseteq Owners(o)
    <3>1. w \notin fresh' /\ fresh' \cap Workers \subseteq fresh
      BY <1>26, <2>1, ExitSlotsAssumption DEF ScheduleRetry
    <3> QED BY <2>2, <3>1 DEF Owners, Moves
  <2>5. LockHeld'
    <3>1. /\ worker'[w].slot = s
          /\ \A v \in Workers : v # w => worker'[v].pc = worker[v].pc /\ worker'[v].slot = worker[v].slot
      BY <2>2 DEF Moves
    <3>2. \A o \in Slots : \/ rt'[o].lock = rt[o].lock /\ rt'[o].stop = rt[o].stop
                           \/ rt[o].lock \in {None, w}
      <4> TAKE o \in Slots
      <4>1. CASE o = s
        BY <2>3, <4>1
      <4>2. CASE o # s
        BY <2>3, <4>2
      <4> QED BY <4>1, <4>2
    <3> QED BY <2>1, <2>2, <3>1, <3>2, LockPassed
  <2>6. OwnerAttends'
    <3> SUFFICES ASSUME NEW o \in Slots, NEW v \in Owners(o), v \in Owners(o)'
                 PROVE  /\ worker'[v].pc # "done"
                        /\ rt'[o].worker = v
                        /\ row'[o].enabled => row'[o].state \in Live
                        /\ row'[o].enabled /\ rt'[o].stop => Stopping(o)' \/ worker'[v].pc = "record"
      BY <2>4 DEF OwnerAttends
    <3>1. /\ worker[v].pc # "done"
          /\ rt[o].worker = v
          /\ row[o].enabled => row[o].state \in Live
          /\ row[o].enabled /\ rt[o].stop => Stopping(o) \/ worker[v].pc = "record"
      BY DEF OwnerAttends
    <3>2. v \in Workers /\ Stopping(o)' = Stopping(o)
      BY <2>2 DEF Owners, Stopping
    <3> QED BY <2>2, <2>3, <3>1, <3>2 DEF Moves
  <2>7. LockExcludesOwners'
    <3>1. \A o : Owners(o) = {} => Owners(o)' = {}
      BY <2>4
    <3>2. \A v \in Workers : worker'[v].pc = "retire" =>
            worker[v].pc = "retire" /\ worker'[v].slot = worker[v].slot
      BY <2>2 DEF Moves
    <3>3. RetiredAlone'
      BY <3>1, <3>2, StayRetired DEF LockExcludesOwners
    <3> QED BY <2>2, <3>1, <3>3 DEF LockExcludesOwners
  <2> QED BY <2>5, <2>6, <2>7
<1>27. CASE Disown(w)
  <2> DEFINE s == worker[w].slot
  <2>1. s \in Slots /\ w \notin Threads
    BY <1>27, ExitSlotsAssumption DEF Placed, Disown, Threads
  <2>2. /\ worker'[w].pc = "done" /\ worker[w].pc = "disown"
        /\ \A v \in Workers \ {w} : worker'[v] = worker[v]
    <3>1. \A o : [IdleWorker EXCEPT !.slot = o].pc = "done"
      BY DEF IdleWorker
    <3> QED BY <1>27, <3>1 DEF Disown, TypeOK
  <2>3. /\ \A o \in Slots : /\ rt'[o].lock = rt[o].lock
                            /\ rt'[o].stop = rt[o].stop
                            /\ rt'[o].worker = rt[o].worker \/ rt[o].worker = w
        /\ row' = row
    BY <1>27, <2>1 DEF Disown, TypeOK, RuntimeRec
  <2>4. \A o : Owners(o)' = Owners(o) \ {w}
    <3>1. fresh' = fresh \ {w}
      BY <1>27 DEF Disown
    <3> QED BY <2>2, <3>1 DEF Owners
  <2>5. \A t \in Threads : /\ thread'[t].pc = thread[t].pc
                           /\ thread'[t].slot = thread[t].slot
                           /\ thread'[t].was = thread[t].was
    <3>1. \A t \in Threads : \A j : LET r == [thread[t] EXCEPT !.join = j] IN
            r.pc = thread[t].pc /\ r.slot = thread[t].slot /\ r.was = thread[t].was
      BY ThreadTyped DEF ThreadRec
    <3> QED BY ZenonT(60), <1>27, <3>1 DEF Disown
  <2>6. LockHeld'
    <3>1. \A v \in Workers : v # w => worker'[v].pc = worker[v].pc /\ worker'[v].slot = worker[v].slot
      BY <2>2
    <3>2. \A o \in Slots : rt'[o].lock = rt[o].lock /\ rt'[o].stop = rt[o].stop
      BY <2>3
    <3> QED BY <2>1, <2>2, <2>5, <3>1, <3>2, LockPassed
  <2>7. OwnerAttends'
    <3> SUFFICES ASSUME NEW o \in Slots, NEW v \in Owners(o) \ {w}
                 PROVE  /\ worker'[v].pc # "done"
                        /\ rt'[o].worker = v
                        /\ row'[o].enabled => row'[o].state \in Live
                        /\ row'[o].enabled /\ rt'[o].stop => Stopping(o)' \/ worker'[v].pc = "record"
      BY <2>4 DEF OwnerAttends
    <3>1. /\ worker[v].pc # "done"
          /\ rt[o].worker = v
          /\ row[o].enabled => row[o].state \in Live
          /\ row[o].enabled /\ rt[o].stop => Stopping(o) \/ worker[v].pc = "record"
      BY DEF OwnerAttends
    <3>2. v \in Workers /\ (Stopping(o) => Stopping(o)')
      BY <2>5 DEF Owners, Stopping
    <3> QED BY <2>2, <2>3, <3>1, <3>2
  <2>8. LockExcludesOwners'
    <3>1. \A v \in Workers : worker'[v].pc = "retire" =>
            worker[v].pc = "retire" /\ worker'[v].slot = worker[v].slot
      BY <2>2
    <3>2. RetiredAlone'
      BY <2>4, <3>1, StayRetired DEF LockExcludesOwners
    <3> QED BY <2>2, <2>4, <2>5, <3>2 DEF LockExcludesOwners, Owners
  <2> QED BY <2>6, <2>7, <2>8
<1> QED BY <1>3, <1>4, <1>5, <1>6, <1>7, <1>8, <1>9, <1>10, <1>11, <1>12, <1>13, <1>14, <1>15, <1>16, <1>17, <1>18, <1>19, <1>20, <1>21, <1>22, <1>23, <1>24, <1>25, <1>26, <1>27 DEF WorkerStep

-----------------------------------------------------------------------------
(* OneOwner. Operator requests, stop_slot and start_slot *)

LEMMA ThreadLocks ==
    ASSUME TypeOK, Placed, LockHeld, NEW t \in Threads, Steps(t), UNCHANGED worker,
           \A s \in Slots : \/ rt'[s].lock = rt[s].lock /\ rt'[s].stop = rt[s].stop
                            \/ rt[s].lock \in {None, t},
           thread'[t].pc \in LockSteps => rt'[thread'[t].slot].lock = t,
           thread'[t].pc = "startLaunch" => ~rt'[thread'[t].slot].stop
    PROVE  LockHeld'
<1>1. t \notin Workers
  BY ExitSlotsAssumption DEF Threads
<1>2. \A u \in Threads : u # t => /\ thread'[u].pc = thread[u].pc
                                  /\ thread'[u].slot = thread[u].slot
  BY DEF Steps
<1> QED BY <1>1, <1>2, LockPassed

\* A thread that takes no lock and changes no generation.
LEMMA QuietStep ==
    ASSUME OwnerInv, NEW t \in Threads, Steps(t), UNCHANGED worker,
           fresh' \cap Workers = fresh \cap Workers,
           \A s \in Slots : SlotKept(s) \/ Owners(s) = {},
           \A s \in Slots : rt'[s].lock = rt[s].lock /\ rt'[s].stop = rt[s].stop,
           thread[t].pc # "stopBump",
           thread'[t].pc \notin LockSteps
    PROVE  LockHeld' /\ OwnerAttends' /\ LockExcludesOwners'
<1>1. thread'[t].pc \notin {"startLaunch", "stopClose", "stopRoute"}
  BY DEF LockSteps
<1>2. LockHeld'
  BY <1>1, ThreadLocks DEF OwnerInv
<1> QED BY <1>1, <1>2, StepsKeepOwners DEF OwnerInv

\* A thread that moves the generation of its slot on.
LEMMA BumpStep ==
    ASSUME OwnerInv, NEW t \in Threads, Steps(t), UNCHANGED worker,
           NEW s \in Slots, thread[t].slot = s, fresh' = Bumped(s),
           \A o \in Slots \ {s} : row'[o] = row[o] /\ rt'[o] = rt[o],
           rt'[s].lock = rt[s].lock /\ rt'[s].stop = rt[s].stop,
           thread'[t].pc = "idle" \/ thread'[t].slot = s,
           thread'[t].pc \in LockSteps => rt[s].lock = t /\ thread'[t].slot = s,
           thread'[t].pc # "startLaunch"
    PROVE  LockHeld' /\ OwnerAttends' /\ LockExcludesOwners'
<1>1. Owners(s)' = {} /\ \A o \in Slots \ {s} : Owners(o)' = Owners(o)
  BY BumpDisowns DEF OwnerInv
<1>2. \A o \in Slots \ {s} : SlotKept(o) /\ Owners(o)' = Owners(o)
  BY <1>1 DEF SlotKept
<1>3. LockHeld'
  <2>1. \A o \in Slots : rt'[o].lock = rt[o].lock /\ rt'[o].stop = rt[o].stop
    OBVIOUS
  <2> QED BY <2>1, ThreadLocks DEF OwnerInv
<1> QED BY <1>1, <1>2, <1>3, NobodyLeft DEF OwnerInv

\* Writing another field of the row keeps the other slots.
LEMMA RowWrite ==
    ASSUME TypeOK, NEW s \in Slots, NEW r, row' = row \/ row' = [row EXCEPT ![s] = r]
    PROVE  \A o \in Slots \ {s} : row'[o] = row[o]
BY DEF TypeOK

\* The steps of stop_slot, of start_slot and of the operation in between.
LEMMA ThreadStepOwners ==
    ASSUME OwnerInv, NEW t \in Threads, ThreadStep(t)
    PROVE  LockHeld' /\ OwnerAttends' /\ LockExcludesOwners'
<1>0. TypeOK /\ Placed /\ LockHeld /\ OwnerAttends /\ LockExcludesOwners /\ t \notin Workers
  BY ExitSlotsAssumption DEF OwnerInv, Threads
<1>1. CASE StopLock(t)
  <2>1. PICK s \in Slots : s = thread[t].slot
    BY <1>0, <1>1 DEF Placed, StopLock
  <2> DEFINE r == [thread[t] EXCEPT !.pc = "stopBump", !.was = row[s].enabled]
             l == [rt[s] EXCEPT !.lock = t, !.stop = TRUE]
  <2>2. Steps(t) /\ thread'[t].pc = "stopBump" /\ thread'[t].slot = s
        /\ thread'[t].was = row[s].enabled
    <3>1. r \in ThreadRec /\ r.pc = "stopBump" /\ r.slot = s /\ r.was = row[s].enabled
      BY ZenonT(60), <1>0, <2>1, ThreadTyped, RowTyped DEF ThreadRec, ThreadSteps
    <3>2. thread' = [thread EXCEPT ![t] = r]
      BY <1>1, <2>1 DEF StopLock
    <3> HIDE DEF r
    <3> QED BY <1>0, <3>1, <3>2, ThreadUpdate
  <2>3. /\ rt'[s].lock = t /\ rt'[s].worker = rt[s].worker /\ rt[s].lock = None
        /\ \A o \in Slots \ {s} : rt'[o] = rt[o]
    BY <1>0, <1>1, <2>1 DEF StopLock, TypeOK, RuntimeRec, Unlocked
  <2>4. UNCHANGED <<row, worker, fresh>> /\ thread[t].pc = "stopLock"
    BY <1>1 DEF StopLock
  <2>5. LockHeld'
    <3>1. \A o \in Slots : \/ rt'[o].lock = rt[o].lock /\ rt'[o].stop = rt[o].stop
                           \/ rt[o].lock \in {None, t}
      BY <2>3
    <3> QED BY <1>0, <2>2, <2>3, <2>4, <3>1, ThreadLocks
  <2>6. \A o : Owners(o)' = Owners(o)
    BY <2>4 DEF Owners
  <2>7. \A o \in Slots : Stopping(o) => Stopping(o)'
    BY <2>2, <2>4 DEF Stopping, Steps
  <2>8. OwnerAttends'
    <3> SUFFICES ASSUME NEW o \in Slots, NEW v \in Owners(o)
                 PROVE  /\ worker'[v].pc # "done"
                        /\ rt'[o].worker = v
                        /\ row'[o].enabled => row'[o].state \in Live
                        /\ row'[o].enabled /\ rt'[o].stop => Stopping(o)' \/ worker'[v].pc = "record"
      BY <2>6 DEF OwnerAttends
    <3>1. /\ worker[v].pc # "done"
          /\ rt[o].worker = v
          /\ row[o].enabled => row[o].state \in Live
          /\ row[o].enabled /\ rt[o].stop => Stopping(o) \/ worker[v].pc = "record"
      BY <1>0 DEF OwnerAttends
    <3>2. CASE o = s
      <4>1. row[s].enabled => Stopping(s)'
        BY <2>1, <2>2 DEF Stopping
      <4> QED BY <2>3, <2>4, <3>1, <3>2, <4>1
    <3>3. CASE o # s
      BY <2>3, <2>4, <2>7, <3>1, <3>3
    <3> QED BY <3>2, <3>3
  <2>9. LockExcludesOwners'
    <3> SUFFICES ASSUME NEW u \in Threads,
                        \/ thread'[u].pc = "startLaunch"
                        \/ thread'[u].pc \in {"stopClose", "stopRoute"} /\ thread'[u].was
                 PROVE  Owners(thread'[u].slot) = {}
      <4>1. RetiredAlone'
        BY <1>0, <2>4, <2>6, StayRetired DEF LockExcludesOwners
      <4> QED BY <2>6, <2>4, <4>1 DEF LockExcludesOwners, Owners
    <3>1. u # t
      BY <2>2
    <3>2. thread'[u] = thread[u]
      BY <2>2, <3>1 DEF Steps
    <3> QED BY <1>0, <3>2 DEF LockExcludesOwners
  <2> QED BY <2>5, <2>8, <2>9
<1>2. CASE StopBump(t)
  <2>1. PICK s \in Slots : s = thread[t].slot
    BY <1>0, <1>2 DEF Placed, StopBump
  <2>2. Steps(t) /\ thread'[t].pc = "stopClose" /\ thread'[t].slot = s
        /\ thread'[t].was = thread[t].was
    BY <1>0, <1>2, <2>1, StepToActs DEF StopBump, Acts, ThreadSteps
  <2>3. /\ \A o \in Slots : /\ rt'[o].lock = rt[o].lock /\ rt'[o].stop = rt[o].stop
                            /\ rt'[o].worker = rt[o].worker
                            /\ o # s => rt'[o] = rt[o]
        /\ rt[s].lock = t
        /\ UNCHANGED worker
    BY <1>0, <1>2, <2>1 DEF StopBump, TypeOK, RuntimeRec, LockHeld
  <2>4. CASE thread[t].was
    <3>1. fresh' = Bumped(s) /\ \A o \in Slots \ {s} : row'[o] = row[o]
      BY <1>0, <1>2, <2>1, <2>4 DEF StopBump, TypeOK
    <3> QED BY <2>1, <2>2, <2>3, <3>1, BumpStep
  <2>5. CASE ~thread[t].was
    <3>1. row' = row /\ fresh' = fresh \ {s}
      BY <1>2, <2>1, <2>5 DEF StopBump
    <3>2. fresh' \cap Workers = fresh \cap Workers
      BY <2>1, <3>1, ExitSlotsAssumption
    <3>3. \A o \in Slots : SlotKept(o)
      BY <2>3, <3>1 DEF SlotKept
    <3>4. LockHeld'
      BY <1>0, <2>2, <2>3, ThreadLocks
    <3> QED BY <1>0, <2>2, <2>3, <2>5, <3>2, <3>3, <3>4, StepsKeepOwners
  <2> QED BY <2>4, <2>5
<1>3. CASE StopClose(t)
  <2>1. PICK s \in Slots : s = thread[t].slot
    BY <1>0, <1>3 DEF Placed, StopClose
  <2>2. Steps(t) /\ thread'[t].pc = "stopRoute" /\ thread'[t].slot = s
        /\ thread'[t].was = thread[t].was
    BY <1>0, <1>3, <2>1, StepToActs DEF StopClose, Acts, ThreadSteps
  <2>3. /\ rt'[s].lock = rt[s].lock
        /\ \A o \in Slots : /\ rt'[o].stop = rt[o].stop /\ rt'[o].worker = rt[o].worker
                            /\ o # s => rt'[o].lock = rt[o].lock
        /\ rt[s].lock = t
        /\ UNCHANGED <<worker, fresh>>
    BY <1>0, <1>3, <2>1 DEF StopClose, TypeOK, RuntimeRec, LockHeld
  <2>4. \A o \in Slots : o # s \/ ~thread[t].was => SlotKept(o)
    BY <1>3, <2>3 DEF StopClose, SlotKept
  <2>5. \A o : Owners(o)' = Owners(o)
    BY <2>3 DEF Owners
  <2>6. LockHeld'
    <3>1. \A o \in Slots : \/ rt'[o].lock = rt[o].lock /\ rt'[o].stop = rt[o].stop
                           \/ rt[o].lock \in {None, t}
      BY <2>3
    <3> QED BY <1>0, <2>1, <2>2, <2>3, <3>1, ThreadLocks DEF LockSteps
  <2>7. CASE thread[t].was
    <3>1. Owners(s) = {}
      BY <1>0, <1>3, <2>1, <2>7 DEF StopClose, LockExcludesOwners
    <3>2. /\ Owners(s)' = {}
          /\ \A o \in Slots \ {s} : SlotKept(o) /\ Owners(o)' = Owners(o)
      BY <2>4, <2>5, <3>1
    <3> QED BY <1>0, <2>1, <2>2, <2>3, <2>6, <3>2, NobodyLeft
  <2>8. CASE ~thread[t].was
    <3>1. thread[t].pc # "stopBump" /\ \A o \in Slots : SlotKept(o)
      BY <1>3, <2>4, <2>8 DEF StopClose
    <3>2. OwnerAttends' /\ LockExcludesOwners'
      BY <1>0, <2>2, <2>3, <2>8, <3>1, StepsKeepOwners
    <3> QED BY <2>6, <3>2
  <2> QED BY <2>7, <2>8
<1>4. CASE StopRoute(t)
  <2>1. PICK s \in Slots : s = thread[t].slot
    BY <1>0, <1>4 DEF Placed, StopRoute
  <2> DEFINE r == [thread[t] EXCEPT !.pc = "stopJoin", !.join = rt[s].worker, !.was = FALSE]
  <2>2. Steps(t) /\ thread'[t].pc = "stopJoin" /\ thread'[t].slot = s
        /\ ~thread'[t].was
    <3>1. r \in ThreadRec /\ r.pc = "stopJoin" /\ r.slot = s /\ ~r.was
      BY ZenonT(60), <1>0, <2>1, ThreadTyped, RuntimeTyped DEF ThreadRec, ThreadSteps
    <3>2. thread' = [thread EXCEPT ![t] = r]
      BY <1>4, <2>1 DEF StopRoute
    <3> HIDE DEF r
    <3> QED BY <1>0, <3>1, <3>2, ThreadUpdate
  <2>3. /\ rt'[s].lock = None
        /\ \A o \in Slots : /\ rt'[o].stop = rt[o].stop /\ rt'[o].worker = rt[o].worker
                            /\ o # s => rt'[o].lock = rt[o].lock
        /\ rt[s].lock = t
        /\ UNCHANGED <<worker, fresh>>
    BY <1>0, <1>4, <2>1 DEF StopRoute, TypeOK, RuntimeRec, LockHeld
  <2>4. \A o \in Slots : o # s \/ ~thread[t].was => SlotKept(o)
    <3>1. \A o \in Slots : o # s \/ ~thread[t].was => row'[o] = row[o]
      BY <1>0, <1>4, <2>1 DEF StopRoute, TypeOK
    <3> QED BY <2>3, <3>1 DEF SlotKept
  <2>5. \A o : Owners(o)' = Owners(o)
    BY <2>3 DEF Owners
  <2>6. LockHeld'
    <3>1. \A o \in Slots : \/ rt'[o].lock = rt[o].lock /\ rt'[o].stop = rt[o].stop
                           \/ rt[o].lock \in {None, t}
      BY <2>3
    <3> QED BY <1>0, <2>1, <2>2, <2>3, <3>1, ThreadLocks DEF LockSteps
  <2>7. CASE thread[t].was
    <3>1. Owners(s) = {}
      BY <1>0, <1>4, <2>1, <2>7 DEF StopRoute, LockExcludesOwners
    <3>2. /\ Owners(s)' = {}
          /\ \A o \in Slots \ {s} : SlotKept(o) /\ Owners(o)' = Owners(o)
      BY <2>4, <2>5, <3>1
    <3> QED BY <1>0, <2>1, <2>2, <2>3, <2>6, <3>2, NobodyLeft
  <2>8. CASE ~thread[t].was
    <3>1. thread[t].pc # "stopBump" /\ \A o \in Slots : SlotKept(o)
      BY <1>4, <2>4, <2>8 DEF StopRoute
    <3>2. OwnerAttends' /\ LockExcludesOwners'
      BY <1>0, <2>2, <2>3, <2>8, <3>1, StepsKeepOwners
    <3> QED BY <2>6, <3>2
  <2> QED BY <2>7, <2>8
<1>5. CASE StopJoin(t)
  <2>1. PICK s \in Slots : s = thread[t].slot
    BY <1>0, <1>5 DEF Placed, StopJoin
  <2> DEFINE r == [thread[t] EXCEPT !.join = None,
                     !.pc = IF thread[t].op = "autoRedial" THEN "redial" ELSE thread[t].op]
  <2>2. Steps(t) /\ thread'[t].pc \in StopOps
    <3>1. thread[t].op \in StopOps
      BY <1>0, <1>5 DEF Placed, StopJoin, StopSteps
    <3>2. r \in ThreadRec /\ r.pc \in StopOps
      BY ZenonT(60), <1>0, <3>1, ThreadTyped DEF ThreadRec, ThreadSteps, StopOps
    <3>3. thread' = [thread EXCEPT ![t] = r]
      BY <1>5 DEF StopJoin
    <3> HIDE DEF r
    <3> QED BY <1>0, <3>2, <3>3, ThreadUpdate
  <2>3. /\ \A o \in Slots : rt'[o].lock = rt[o].lock /\ rt'[o].stop = rt[o].stop
        /\ UNCHANGED <<row, worker, fresh>> /\ thread[t].pc = "stopJoin"
    BY <1>0, <1>5 DEF StopJoin, TypeOK, RuntimeRec
  <2>4. \A o \in Slots : SlotKept(o) \/ Owners(o) = {}
    <3> SUFFICES ASSUME NEW o \in Slots, NEW v \in Owners(o)
                 PROVE  SlotKept(o)
      OBVIOUS
    <3>1. rt[o].worker = v /\ worker[v].pc # "done" /\ v \in Workers
      BY <1>0 DEF OwnerAttends, Owners
    <3>2. Alive(v)
      BY <3>1, ExitSlotsAssumption DEF Alive
    <3>3. rt' = rt \/ (~Alive(thread[t].join)
                       /\ rt' = [rt EXCEPT ![s].worker = IF @ = thread[t].join THEN None ELSE @])
      BY <1>5, <2>1 DEF StopJoin
    <3>4. rt'[o].worker = rt[o].worker
      BY <1>0, <2>1, <3>1, <3>2, <3>3 DEF TypeOK, RuntimeRec
    <3> QED BY <2>3, <3>4 DEF SlotKept
  <2>5. thread'[t].pc \notin LockSteps
    BY <2>2 DEF StopOps, LockSteps
  <2> QED BY <2>2, <2>3, <2>4, <2>5, QuietStep
<1>6. CASE RedialDecide(t)
  <2>1. PICK s \in Slots : s = thread[t].slot
    BY <1>0, <1>6 DEF Placed, RedialDecide
  <2>2. UNCHANGED <<rt, worker>> /\ thread[t].pc = "redial"
    BY <1>6 DEF RedialDecide
  <2>3. CASE row[s].enabled /\ StepTo(t, "start") /\ UNCHANGED <<row, fresh>>
    <3>1. Steps(t) /\ thread'[t].pc = "start"
      BY <1>0, <2>3, StepToActs DEF Acts, ThreadSteps
    <3> QED BY <2>2, <2>3, <3>1, QuietStep DEF SlotKept, LockSteps
  <2>4. CASE Done(t) /\ UNCHANGED row /\ fresh' = fresh \ {t}
    <3>1. Steps(t) /\ thread'[t].pc = "idle"
      BY <1>0, <2>4, DoneEnds DEF Ends, IdleThread
    <3>2. fresh' \cap Workers = fresh \cap Workers
      BY <1>0, <2>4
    <3> QED BY <2>2, <2>4, <3>1, <3>2, QuietStep DEF SlotKept, LockSteps
  <2>5. CASE row' = EnabledRow(s) /\ fresh' = Bumped(s) /\ StepTo(t, "start")
    <3>1. Steps(t) /\ thread'[t].pc = "start" /\ thread'[t].slot = s
      BY <1>0, <2>1, <2>5, StepToActs DEF Acts, ThreadSteps
    <3>2. \A o \in Slots \ {s} : row'[o] = row[o]
      BY <1>0, <2>5 DEF EnabledRow, TypeOK
    <3> QED BY <2>1, <2>2, <2>5, <3>1, <3>2, BumpStep DEF LockSteps
  <2> QED BY <1>6, <2>1, <2>3, <2>4, <2>5 DEF RedialDecide
<1>7. CASE ConnectDecide(t)
  <2>1. PICK s \in Slots : s = thread[t].slot
    BY <1>0, <1>7 DEF Placed, ConnectDecide
  <2> DEFINE r == [thread[t] EXCEPT !.pc = "start", !.node = None]
  <2>2. Steps(t) /\ thread'[t].pc = "start" /\ thread'[t].slot = s
    <3>1. r \in ThreadRec /\ r.pc = "start" /\ r.slot = s
      BY <1>0, <2>1, ThreadTyped DEF ThreadRec, ThreadSteps
    <3>2. thread' = [thread EXCEPT ![t] = r]
      BY <1>7 DEF ConnectDecide
    <3> HIDE DEF r
    <3> QED BY <1>0, <3>1, <3>2, ThreadUpdate
  <2>3. /\ \A o \in Slots : /\ rt'[o].lock = rt[o].lock /\ rt'[o].stop = rt[o].stop
                            /\ rt'[o].worker = rt[o].worker
                            /\ o # s => rt'[o] = rt[o]
        /\ UNCHANGED worker /\ thread[t].pc = "connect"
    BY <1>0, <1>7, <2>1 DEF ConnectDecide, TypeOK, RuntimeRec
  <2>4. CASE row[s].enabled
    <3>1. UNCHANGED <<row, fresh>>
      BY <1>7, <2>1, <2>4 DEF ConnectDecide
    <3>2. \A o \in Slots : SlotKept(o)
      BY <2>3, <3>1 DEF SlotKept
    <3> QED BY <2>2, <2>3, <3>1, <3>2, QuietStep DEF LockSteps
  <2>5. CASE ~row[s].enabled
    <3>1. fresh' = Bumped(s) /\ \A o \in Slots \ {s} : row'[o] = row[o]
      BY <1>0, <1>7, <2>1, <2>5 DEF ConnectDecide, TypeOK
    <3> QED BY <2>1, <2>2, <2>3, <3>1, BumpStep DEF LockSteps
  <2> QED BY <2>4, <2>5
<1>8. CASE EnableWrite(t)
  <2>1. PICK s \in Slots : s = thread[t].slot
    BY <1>0, <1>8 DEF Placed, EnableWrite
  <2>2. Steps(t) /\ thread'[t].pc = "start" /\ thread'[t].slot = s
    BY <1>0, <1>8, <2>1, StepToActs DEF EnableWrite, Acts, ThreadSteps
  <2>3. /\ UNCHANGED <<rt, worker>> /\ fresh' = Bumped(s)
        /\ \A o \in Slots \ {s} : row'[o] = row[o]
    BY <1>0, <1>8, <2>1 DEF EnableWrite, EnabledRow, TypeOK
  <2> QED BY <2>1, <2>2, <2>3, BumpStep DEF LockSteps
<1>9. CASE DisableWrite(t)
  <2>1. PICK s \in Slots : s = thread[t].slot
    BY <1>0, <1>9 DEF Placed, DisableWrite
  <2>2. Steps(t) /\ thread'[t].pc = "idle"
    BY <1>0, <1>9, DoneEnds DEF DisableWrite, Ends, IdleThread
  <2>3. /\ UNCHANGED <<rt, worker>> /\ fresh' = Bumped(s)
        /\ \A o \in Slots \ {s} : row'[o] = row[o]
    BY <1>0, <1>9, <2>1 DEF DisableWrite, TypeOK
  <2> QED BY <2>1, <2>2, <2>3, BumpStep DEF LockSteps
<1>10. CASE ConfigureRead(t)
  <2>1. PICK s \in Slots : s = thread[t].slot
    BY <1>0, <1>10 DEF Placed, ConfigureRead
  <2> DEFINE r == [thread[t] EXCEPT !.pc = "configureWrite", !.was = row[s].enabled,
                     !.state = row[s].state, !.reason = row[s].reason]
  <2>2. Steps(t) /\ thread'[t].pc = "configureWrite"
    <3>1. r \in ThreadRec /\ r.pc = "configureWrite"
      BY ZenonT(60), <1>0, <2>1, ThreadTyped, RowTyped DEF ThreadRec, ThreadSteps
    <3>2. thread' = [thread EXCEPT ![t] = r]
      BY <1>10, <2>1 DEF ConfigureRead
    <3> HIDE DEF r
    <3> QED BY <1>0, <3>1, <3>2, ThreadUpdate
  <2>3. UNCHANGED <<row, rt, worker, fresh>> /\ thread[t].pc = "configure"
    BY <1>10 DEF ConfigureRead
  <2> QED BY <2>2, <2>3, QuietStep DEF SlotKept, LockSteps
<1>11. CASE ConfigureWrite(t)
  <2>1. PICK s \in Slots : s = thread[t].slot
    BY <1>0, <1>11 DEF Placed, ConfigureWrite
  <2> DEFINE r == IF thread[t].was
                  THEN [IdleThread EXCEPT !.pc = "start", !.op = "configure", !.slot = s]
                  ELSE IdleThread
  <2>2. Steps(t) /\ ((thread'[t].pc = "start" /\ thread'[t].slot = s) \/ thread'[t].pc = "idle")
    <3>1. r \in ThreadRec /\ ((r.pc = "start" /\ r.slot = s) \/ r.pc = "idle")
      <4>1. /\ IdleThread \in ThreadRec /\ IdleThread.pc = "idle"
            /\ "start" \in ThreadSteps /\ "configure" \in ThreadOps
        BY IdleTyped DEF IdleThread, ThreadSteps, ThreadOps
      <4> HIDE DEF IdleThread
      <4> QED BY <2>1, <4>1 DEF ThreadRec
    <3>2. thread' = [thread EXCEPT ![t] = r]
      BY <1>11, <2>1 DEF ConfigureWrite
    <3> HIDE DEF r
    <3> QED BY <1>0, <3>1, <3>2, ThreadUpdate
  <2>3. /\ UNCHANGED <<rt, worker>> /\ fresh' = Bumped(s)
        /\ \A o \in Slots \ {s} : row'[o] = row[o]
    BY <1>0, <1>11, <2>1 DEF ConfigureWrite, TypeOK
  <2> QED BY <2>1, <2>2, <2>3, BumpStep DEF LockSteps
<1>12. CASE Start(t)
  <2>1. PICK s \in Slots : s = thread[t].slot
    BY <1>0, <1>12 DEF Placed, Start
  <2>2. CASE ~row[s].enabled \/ Attended(s)
    <3>1. Done(t) /\ fresh' = fresh \ {t} /\ UNCHANGED <<row, rt, worker>>
      BY <1>12, <2>1, <2>2 DEF Start
    <3>2. Steps(t) /\ thread'[t].pc = "idle"
      BY <1>0, <3>1, DoneEnds DEF Ends, IdleThread
    <3>3. fresh' \cap Workers = fresh \cap Workers /\ thread[t].pc # "stopBump"
      BY <1>0, <1>12, <3>1 DEF Start
    <3> QED BY <3>1, <3>2, <3>3, QuietStep DEF SlotKept, LockSteps
  <2>3. CASE ~(~row[s].enabled \/ Attended(s))
    <3> DEFINE r == [thread[t] EXCEPT !.pc = "startJoin", !.join = rt[s].worker]
    <3>1. r \in ThreadRec /\ r.pc = "startJoin"
      BY ZenonT(60), <1>0, ThreadTyped, RuntimeTyped DEF ThreadRec, ThreadSteps
    <3>2. thread' = [thread EXCEPT ![t] = r] /\ UNCHANGED <<row, rt, worker, fresh>>
          /\ thread[t].pc = "start"
      BY <1>12, <2>1, <2>3 DEF Start
    <3> HIDE DEF r
    <3>3. Steps(t) /\ thread'[t].pc = "startJoin"
      BY <1>0, <3>1, <3>2, ThreadUpdate
    <3> QED BY <3>2, <3>3, QuietStep DEF SlotKept, LockSteps
  <2> QED BY <2>2, <2>3
<1>13. CASE StartLock(t)
  <2>1. PICK s \in Slots : s = thread[t].slot
    BY <1>0, <1>13 DEF Placed, StartLock
  <2>2. CASE ~row[s].enabled \/ Attended(s)
    <3>1. Done(t) /\ fresh' = fresh \ {t} /\ UNCHANGED <<row, rt, worker>>
      BY <1>13, <2>1, <2>2 DEF StartLock
    <3>2. Steps(t) /\ thread'[t].pc = "idle"
      BY <1>0, <3>1, DoneEnds DEF Ends, IdleThread
    <3>3. fresh' \cap Workers = fresh \cap Workers /\ thread[t].pc # "stopBump"
      BY <1>0, <1>13, <3>1 DEF StartLock
    <3> QED BY <3>1, <3>2, <3>3, QuietStep DEF SlotKept, LockSteps
  <2>3. CASE ~(~row[s].enabled \/ Attended(s))
    <3> DEFINE r == [thread[t] EXCEPT !.pc = "startLaunch", !.join = None]
    <3>1. r \in ThreadRec /\ r.pc = "startLaunch" /\ r.slot = s
      BY <1>0, <2>1, ThreadTyped DEF ThreadRec, ThreadSteps
    <3>2. thread' = [thread EXCEPT ![t] = r] /\ UNCHANGED <<row, worker>>
          /\ fresh' = fresh \ {s} /\ rt[s].lock = None /\ thread[t].pc = "startJoin"
      BY <1>13, <2>1, <2>3 DEF StartLock, Unlocked
    <3> HIDE DEF r
    <3>3. Steps(t) /\ thread'[t].pc = "startLaunch" /\ thread'[t].slot = s
      BY <1>0, <3>1, <3>2, ThreadUpdate
    <3>4. /\ rt'[s].lock = t /\ ~rt'[s].stop
          /\ \A o \in Slots \ {s} : rt'[o] = rt[o]
      <4>1. rt' = [rt EXCEPT ![s] = [rt[s] EXCEPT !.lock = t, !.worker = None, !.timer = FALSE,
                                !.listener = None, !.stop = FALSE, !.dialing = FALSE]]
        BY <1>13, <2>1, <2>3 DEF StartLock
      <4> QED BY <1>0, <4>1 DEF TypeOK, RuntimeRec
    <3>5. Owners(s) = {}
      <4> SUFFICES ASSUME NEW v \in Owners(s) PROVE FALSE
        OBVIOUS
      <4>1. /\ worker[v].pc # "done" /\ rt[s].worker = v /\ v \in Workers
            /\ worker[v].slot = s
            /\ row[s].enabled => row[s].state \in Live
            /\ row[s].enabled /\ rt[s].stop => Stopping(s) \/ worker[v].pc = "record"
        BY <1>0 DEF OwnerAttends, Owners
      <4>2. Alive(rt[s].worker)
        BY <4>1, ExitSlotsAssumption DEF Alive
      <4>3. rt[s].stop
        BY <2>3, <4>1, <4>2 DEF Attended
      <4>4. CASE Stopping(s)
        <5>1. PICK u \in Threads : thread[u].slot = s /\ thread[u].pc = "stopBump"
          BY <4>4 DEF Stopping
        <5>2. rt[s].lock = u
          BY <1>0, <5>1 DEF LockHeld
        <5> QED BY <3>2, <5>1, <5>2, ExitSlotsAssumption DEF Threads
      <4>5. CASE worker[v].pc = "record"
        <5>1. rt[s].lock = v
          BY <1>0, <4>1, <4>5 DEF LockHeld
        <5> QED BY <3>2, <4>1, <5>1, ExitSlotsAssumption
      <4> QED BY <2>3, <4>1, <4>3, <4>4, <4>5
    <3>6. \A o : Owners(o)' = Owners(o)
      <4>1. fresh' \cap Workers = fresh \cap Workers
        BY <3>2, ExitSlotsAssumption
      <4> QED BY <3>2, <4>1 DEF Owners
    <3>7. LockHeld'
      <4>1. \A o \in Slots : \/ rt'[o].lock = rt[o].lock /\ rt'[o].stop = rt[o].stop
                             \/ rt[o].lock \in {None, t}
        BY <3>2, <3>4
      <4> QED BY <1>0, <3>2, <3>3, <3>4, <4>1, ThreadLocks
    <3>8. /\ Owners(s)' = {}
          /\ \A o \in Slots \ {s} : SlotKept(o) /\ Owners(o)' = Owners(o)
      BY <3>2, <3>4, <3>5, <3>6 DEF SlotKept
    <3> QED BY <1>0, <2>1, <3>2, <3>3, <3>7, <3>8, NobodyLeft
  <2> QED BY <2>2, <2>3
<1>14. CASE StartLaunch(t)
  <2>1. PICK s \in Slots : s = thread[t].slot
    BY <1>0, <1>14 DEF Placed, StartLaunch
  <2>2. PICK w \in Workers :
          /\ Unborn(w)
          /\ worker' = [worker EXCEPT ![w] = [pc |-> "dial", slot |-> s, node |-> None]]
          /\ rt' = [rt EXCEPT ![s] = [rt[s] EXCEPT !.worker = w, !.lock = None]]
          /\ fresh' = (fresh \ {t}) \cup {w}
    BY <1>14, <2>1 DEF StartLaunch
  <2>3. /\ Steps(t) /\ thread'[t].pc = "idle"
        /\ thread[t].pc = "startLaunch"
    BY <1>0, <1>14, DoneEnds DEF StartLaunch, Ends, IdleThread
  <2>4. /\ worker'[w].pc = "dial" /\ worker'[w].slot = s
        /\ \A v \in Workers \ {w} : worker'[v] = worker[v]
        /\ worker[w].pc = "done"
    BY <1>0, <2>2 DEF TypeOK, Unborn
  <2>5. /\ rt'[s].worker = w /\ rt'[s].lock = None /\ rt'[s].stop = rt[s].stop
        /\ \A o \in Slots \ {s} : rt'[o] = rt[o]
    BY <1>0, <2>2 DEF TypeOK, RuntimeRec
  <2>6. rt[s].lock = t /\ ~rt[s].stop /\ Owners(s) = {}
    BY <1>0, <2>1, <2>3 DEF LockHeld, LockExcludesOwners
  <2>7. row'[s].state = "connecting" /\ \A o \in Slots \ {s} : row'[o] = row[o]
    BY <1>0, <1>14, <2>1 DEF StartLaunch, TypeOK, RowRec
  <2>8. Owners(s)' = {w} /\ \A o \in Slots \ {s} : Owners(o)' = Owners(o)
    <3>1. \A o \in Slots : w \notin Owners(o)
      BY <1>0, <2>4 DEF OwnerAttends
    <3>2. \A v \in Workers \ {w} : v \in fresh' <=> v \in fresh
      BY <1>0, <2>2
    <3>3. w \in fresh'
      BY <2>2
    <3> QED BY <2>4, <2>6, <3>1, <3>2, <3>3 DEF Owners
  <2>9. LockHeld'
    <3>1. \A u \in Threads \ {t} : /\ thread'[u] = thread[u]
                                   /\ thread[u].pc \in LockSteps /\ thread[u].slot \in Slots
                                        => thread[u].slot # s
      BY <1>0, <2>3, <2>6 DEF Steps, LockHeld, LockSteps
    <3>2. \A u \in Threads : thread'[u].pc \in LockSteps =>
            /\ rt'[thread'[u].slot].lock = u
            /\ thread'[u].pc = "startLaunch" => ~rt'[thread'[u].slot].stop
      <4> SUFFICES ASSUME NEW u \in Threads, thread'[u].pc \in LockSteps
                   PROVE  /\ rt'[thread'[u].slot].lock = u
                          /\ thread'[u].pc = "startLaunch" => ~rt'[thread'[u].slot].stop
        OBVIOUS
      <4>1. u # t
        BY <2>3 DEF LockSteps
      <4>2. thread'[u] = thread[u] /\ thread[u].slot \in Slots
        BY <1>0, <3>1, <4>1 DEF Placed, LockSteps
      <4>3. rt'[thread[u].slot] = rt[thread[u].slot]
        BY <2>5, <3>1, <4>1, <4>2
      <4>4. /\ rt[thread[u].slot].lock = u
            /\ thread[u].pc = "startLaunch" => ~rt[thread[u].slot].stop
        BY <1>0, <4>2 DEF LockHeld, LockSteps
      <4> QED BY <4>2, <4>3, <4>4
    <3>3. \A v \in Workers : worker'[v].pc \in {"record", "teardown", "retire"}
            => rt'[worker'[v].slot].lock = v
      <4> SUFFICES ASSUME NEW v \in Workers, worker'[v].pc \in {"record", "teardown", "retire"}
                   PROVE  rt'[worker'[v].slot].lock = v
        OBVIOUS
      <4>1. worker'[v] = worker[v]
        BY <2>4
      <4>2. rt[worker[v].slot].lock = v /\ worker[v].slot \in Slots
        BY <1>0, <4>1 DEF LockHeld, Placed
      <4>3. worker[v].slot # s
        BY <1>0, <2>6, <4>2
      <4> QED BY <2>5, <4>1, <4>2, <4>3
    <3> QED BY <3>2, <3>3 DEF LockHeld, LockSteps
  <2>10. OwnerAttends'
    <3> SUFFICES ASSUME NEW o \in Slots, NEW v \in Owners(o)'
                 PROVE  /\ worker'[v].pc # "done"
                        /\ rt'[o].worker = v
                        /\ row'[o].enabled => row'[o].state \in Live
                        /\ row'[o].enabled /\ rt'[o].stop => Stopping(o)' \/ worker'[v].pc = "record"
      BY DEF OwnerAttends
    <3>1. CASE o = s
      BY <2>4, <2>5, <2>6, <2>7, <2>8, <3>1 DEF Live
    <3>2. CASE o # s
      <4>1. v \in Owners(o) /\ v \in Workers
        BY <2>8, <3>2 DEF Owners
      <4>2. /\ worker[v].pc # "done"
            /\ rt[o].worker = v
            /\ row[o].enabled => row[o].state \in Live
            /\ row[o].enabled /\ rt[o].stop => Stopping(o) \/ worker[v].pc = "record"
        BY <1>0, <4>1 DEF OwnerAttends
      <4>3. Stopping(o) => Stopping(o)'
        BY <2>3 DEF Stopping, Steps
      <4>4. worker'[v] = worker[v]
        BY <2>4, <4>1, <4>2
      <4> QED BY <2>5, <2>7, <3>2, <4>2, <4>3, <4>4
    <3> QED BY <3>1, <3>2
  <2>11. LockExcludesOwners'
    <3> SUFFICES ASSUME NEW u \in Threads,
                        \/ thread'[u].pc = "startLaunch"
                        \/ thread'[u].pc \in {"stopClose", "stopRoute"} /\ thread'[u].was
                 PROVE  Owners(thread[u].slot)' = {} /\ thread'[u].slot = thread[u].slot
      <4>1. \A v \in Workers : worker'[v].pc = "retire" =>
            worker[v].pc = "retire" /\ worker'[v].slot = worker[v].slot
        BY <2>4
      <4>2. rt[s].lock \notin Workers
        BY <1>0, <2>6
      <4>3. RetiredAlone'
        BY <1>0, <2>8, <4>1, <4>2, StayRetired DEF LockExcludesOwners
      <4> QED BY <4>3 DEF LockExcludesOwners, Owners
    <3>1. u # t
      BY <2>3
    <3>2. thread'[u] = thread[u] /\ Owners(thread[u].slot) = {}
      BY <1>0, <2>3, <3>1 DEF Steps, LockExcludesOwners
    <3>3. PICK o \in Slots : o = thread[u].slot
      BY <1>0, <3>2 DEF Placed
    <3>4. o # s
      BY <1>0, <2>6, <3>1, <3>2, <3>3 DEF LockHeld
    <3>5. Owners(o)' = {}
      BY <2>8, <3>2, <3>3, <3>4
    <3> QED BY <3>2, <3>3, <3>5 DEF Owners
  <2> QED BY <2>9, <2>10, <2>11
<1> QED BY <1>1, <1>2, <1>3, <1>4, <1>5, <1>6, <1>7, <1>8, <1>9, <1>10, <1>11, <1>12, <1>13, <1>14 DEF ThreadStep

-----------------------------------------------------------------------------
(* OneOwner. Requests, the watchdog, retry timers and the environment *)

LEMMA RequestOwners ==
    ASSUME OwnerInv, NEW u \in Users, NEW s \in Slots, UserRequest(u, s)
    PROVE  LockHeld' /\ OwnerAttends' /\ LockExcludesOwners'
<1>1. u \in Threads /\ TypeOK
  BY DEF Threads, OwnerInv
<1>2. ASSUME NEW op \in ThreadOps, NEW n \in Nodes \cup {None},
             NEW step \in {"stopLock", "enable", "configure"}, Request(u, op, s, n, step)
      PROVE  LockHeld' /\ OwnerAttends' /\ LockExcludesOwners'
  <2> DEFINE r == [IdleThread EXCEPT !.pc = step, !.op = op, !.slot = s, !.node = n]
  <2>1. r \in ThreadRec /\ r.pc = step
    BY <1>2, IdleTyped DEF IdleThread, ThreadRec, ThreadSteps
  <2>2. /\ thread' = [thread EXCEPT ![u] = r]
        /\ UNCHANGED <<row, rt, worker, fresh>> /\ thread[u].pc = "idle"
    BY <1>2 DEF Request
  <2> HIDE DEF r
  <2>3. Steps(u) /\ thread'[u] = r
    BY <1>1, <2>1, <2>2, ThreadUpdate
  <2> QED BY <1>1, <2>1, <2>2, <2>3, QuietStep DEF SlotKept, LockSteps
<1>3. {"redial", "connect", "disable", "enable", "configure"} \subseteq ThreadOps
  BY DEF ThreadOps
<1>4. CASE RequestRedial(u, s)
  BY <1>2, <1>3, <1>4 DEF RequestRedial
<1>5. CASE RequestConnect(u, s)
  BY <1>2, <1>3, <1>5 DEF RequestConnect
<1>6. CASE RequestDisable(u, s)
  BY <1>2, <1>3, <1>6 DEF RequestDisable
<1>7. CASE RequestEnable(u, s)
  BY <1>2, <1>3, <1>7 DEF RequestEnable
<1>8. CASE RequestConfigure(u, s)
  <2>1. CASE row[s].enabled
    BY <1>2, <1>3, <1>8, <2>1 DEF RequestConfigure
  <2>2. CASE ~row[s].enabled
    BY <1>2, <1>3, <1>8, <2>2 DEF RequestConfigure
  <2> QED BY <2>1, <2>2
<1> QED BY <1>4, <1>5, <1>6, <1>7, <1>8 DEF UserRequest

LEMMA WatchdogStepOwners ==
    ASSUME OwnerInv, WatchdogStep
    PROVE  LockHeld' /\ OwnerAttends' /\ LockExcludesOwners'
<1>0. /\ TypeOK /\ Placed /\ LockHeld /\ OwnerAttends /\ LockExcludesOwners
      /\ Watchdog \in Threads /\ Watchdog \notin Workers
  BY ExitSlotsAssumption DEF OwnerInv, Threads
<1>1. ASSUME WatchdogQuits, UNCHANGED <<row, rt, worker>>, thread[Watchdog].pc # "stopBump"
      PROVE  LockHeld' /\ OwnerAttends' /\ LockExcludesOwners'
  <2>1. Steps(Watchdog) /\ thread'[Watchdog].pc = "idle"
    BY <1>0, <1>1, DoneEnds DEF WatchdogQuits, Ends, IdleThread
  <2>2. fresh' \cap Workers = fresh \cap Workers
    BY <1>0, <1>1 DEF WatchdogQuits
  <2> QED BY <1>0, <1>1, <2>1, <2>2, QuietStep DEF SlotKept, LockSteps
<1>2. CASE Inspect
  <2>1. PICK s \in Slots : s = thread[Watchdog].slot
    BY <1>0, <1>2 DEF Placed, Inspect
  <2>2. worker' = worker /\ thread[Watchdog].pc = "inspect" /\ rt[s].lock = None
    BY <1>2, <2>1 DEF Inspect, Unlocked
  <2>3. CASE StepTo(Watchdog, "confirm") /\ UNCHANGED <<row, rt, fresh>>
    <3>1. Steps(Watchdog) /\ thread'[Watchdog].pc = "confirm"
      BY <1>0, <2>3, StepToActs DEF Acts, ThreadSteps
    <3> QED BY <1>0, <2>2, <2>3, <3>1, QuietStep DEF SlotKept, LockSteps
  <2>4. CASE WatchdogQuits /\ UNCHANGED <<row, rt>>
    BY <1>1, <2>2, <2>4
  <2>5. CASE row' = [row EXCEPT ![s].state = "degraded"]
    <3>1. \A o \in Slots : /\ row'[o].enabled = row[o].enabled
                           /\ row'[o].state \in {row[o].state} \cup Serving
      BY <1>0, <2>5 DEF TypeOK, RowRec, Serving
    <3>2. CASE /\ rt' = [rt EXCEPT ![s] = [rt[s] EXCEPT !.listener = None, !.lock = Watchdog]]
               /\ StepTo(Watchdog, "repair") /\ UNCHANGED fresh
      <4>1. Steps(Watchdog) /\ thread'[Watchdog].pc = "repair" /\ thread'[Watchdog].slot = s
        BY <1>0, <2>1, <3>2, StepToActs DEF Acts, ThreadSteps
      <4>2. /\ rt'[s].lock = Watchdog
            /\ \A o \in Slots : /\ o # s => rt'[o] = rt[o]
                                /\ rt'[o].worker = rt[o].worker
                                /\ rt'[o].stop = rt[o].stop
        BY <1>0, <3>2 DEF TypeOK, RuntimeRec
      <4>3. LockHeld'
        <5>1. \A o \in Slots : \/ rt'[o].lock = rt[o].lock /\ rt'[o].stop = rt[o].stop
                               \/ rt[o].lock \in {None, Watchdog}
          BY <2>2, <4>2
        <5> QED BY <1>0, <2>2, <4>1, <4>2, <5>1, ThreadLocks
      <4>4. \A o \in Slots : SlotKept(o)
        BY <3>1, <4>2 DEF SlotKept
      <4> QED BY <1>0, <2>2, <3>2, <4>1, <4>3, <4>4, StepsKeepOwners
    <3>3. CASE rt' = [rt EXCEPT ![s].listener = None] /\ WatchdogQuits
      <4>1. Steps(Watchdog) /\ thread'[Watchdog].pc = "idle"
        BY <1>0, <3>3, DoneEnds DEF WatchdogQuits, Ends, IdleThread
      <4>2. fresh' \cap Workers = fresh \cap Workers
        BY <1>0, <3>3 DEF WatchdogQuits
      <4>3. \A o \in Slots : /\ rt'[o].lock = rt[o].lock
                             /\ rt'[o].worker = rt[o].worker
                             /\ rt'[o].stop = rt[o].stop
        BY <1>0, <3>3 DEF TypeOK, RuntimeRec
      <4>4. \A o \in Slots : SlotKept(o)
        BY <3>1, <4>3 DEF SlotKept
      <4> QED BY <1>0, <2>2, <4>1, <4>2, <4>3, <4>4, QuietStep DEF LockSteps
    <3> QED BY <1>2, <2>1, <2>3, <2>4, <3>2, <3>3 DEF Inspect
  <2> QED BY <1>2, <2>1, <2>3, <2>4, <2>5 DEF Inspect
<1>3. CASE Repair
  <2>1. PICK s \in Slots : s = thread[Watchdog].slot
    BY <1>0, <1>3 DEF Placed, Repair
  <2>2. /\ UNCHANGED <<row, worker>> /\ thread[Watchdog].pc = "repair"
        /\ fresh' = fresh \ {Watchdog}
    BY <1>3 DEF Repair, WatchdogQuits
  <2>3. Steps(Watchdog) /\ thread'[Watchdog].pc = "idle"
    BY <1>0, <1>3, DoneEnds DEF Repair, WatchdogQuits, Ends, IdleThread
  <2>4. /\ rt[s].lock = Watchdog
        /\ \A o \in Slots : /\ o # s => rt'[o] = rt[o]
                            /\ rt'[o].worker = rt[o].worker
                            /\ rt'[o].stop = rt[o].stop
    <3>1. \/ rt' = [rt EXCEPT ![s].lock = None]
          \/ rt' = [rt EXCEPT ![s] = [rt[s] EXCEPT !.lock = None, !.listener = Repaired]]
      BY <1>3, <2>1 DEF Repair
    <3>2. rt[s].lock = Watchdog
      BY <1>0, <2>1, <2>2 DEF LockHeld
    <3>3. \A l : [rt[s] EXCEPT !.lock = None, !.listener = l].worker = rt[s].worker
                /\ [rt[s] EXCEPT !.lock = None, !.listener = l].stop = rt[s].stop
      BY <1>0, RuntimeTyped DEF RuntimeRec
    <3>4. CASE rt' = [rt EXCEPT ![s].lock = None]
      BY <1>0, <3>2, <3>4 DEF TypeOK, RuntimeRec
    <3>5. CASE rt' = [rt EXCEPT ![s] = [rt[s] EXCEPT !.lock = None, !.listener = Repaired]]
      BY <1>0, <3>2, <3>3, <3>5 DEF TypeOK
    <3> QED BY <3>1, <3>4, <3>5
  <2>5. LockHeld'
    <3>1. \A o \in Slots : \/ rt'[o].lock = rt[o].lock /\ rt'[o].stop = rt[o].stop
                           \/ rt[o].lock \in {None, Watchdog}
      BY <2>4
    <3> QED BY <1>0, <2>2, <2>3, <3>1, ThreadLocks DEF LockSteps
  <2>6. \A o \in Slots : SlotKept(o)
    BY <2>2, <2>4 DEF SlotKept
  <2>7. fresh' \cap Workers = fresh \cap Workers
    BY <1>0, <2>2
  <2> QED BY <1>0, <2>2, <2>3, <2>5, <2>6, <2>7, StepsKeepOwners
<1>4. CASE ConfirmRedial
  <2>1. PICK s \in Slots : s = thread[Watchdog].slot
    BY <1>0, <1>4 DEF Placed, ConfirmRedial
  <2>2. /\ UNCHANGED <<row, worker>> /\ thread[Watchdog].pc = "confirm"
        /\ fresh' = fresh \ {Watchdog}
    BY <1>4 DEF ConfirmRedial
  <2>3. Steps(Watchdog) /\ thread'[Watchdog].pc \in {"idle", "stopLock"}
    <3> DEFINE r == [IdleThread EXCEPT !.pc = "stopLock", !.op = "autoRedial", !.slot = s]
    <3>1. r \in ThreadRec /\ r.pc = "stopLock"
      BY IdleTyped DEF IdleThread, ThreadRec, ThreadSteps, ThreadOps
    <3>2. CASE thread' = [thread EXCEPT ![Watchdog] = r]
      <4> HIDE DEF r
      <4> QED BY <1>0, <3>1, <3>2, ThreadUpdate
    <3>3. CASE Done(Watchdog)
      BY <1>0, <3>3, DoneEnds DEF Ends, IdleThread
    <3> QED BY <1>4, <2>1, <3>2, <3>3 DEF ConfirmRedial
  <2>4. \A o \in Slots : /\ rt'[o].lock = rt[o].lock
                         /\ rt'[o].worker = rt[o].worker
                         /\ rt'[o].stop = rt[o].stop
    <3>1. rt' = rt \/ \E n : rt' = [rt EXCEPT ![s].preferred = n]
      BY <1>4, <2>1 DEF ConfirmRedial
    <3> QED BY <1>0, <3>1 DEF TypeOK, RuntimeRec
  <2>5. \A o \in Slots : SlotKept(o)
    BY <2>2, <2>4 DEF SlotKept
  <2>6. fresh' \cap Workers = fresh \cap Workers
    BY <1>0, <2>2
  <2> QED BY <1>0, <2>2, <2>3, <2>4, <2>5, <2>6, QuietStep DEF LockSteps
<1>5. CASE Revive
  <2>1. PICK s \in Slots : s = thread[Watchdog].slot
    BY <1>0, <1>5 DEF Placed, Revive
  <2>2. UNCHANGED <<rt, worker>> /\ thread[Watchdog].pc = "revive"
    BY <1>5 DEF Revive
  <2>3. CASE row' = EnabledRow(s) /\ fresh' = Bumped(s) /\ StepTo(Watchdog, "start")
    <3>1. Steps(Watchdog) /\ thread'[Watchdog].pc = "start" /\ thread'[Watchdog].slot = s
      BY <1>0, <2>1, <2>3, StepToActs DEF Acts, ThreadSteps
    <3>2. \A o \in Slots \ {s} : row'[o] = row[o]
      BY <1>0, <2>3 DEF EnabledRow, TypeOK
    <3> QED BY <1>0, <2>1, <2>2, <2>3, <3>1, <3>2, BumpStep DEF LockSteps
  <2>4. CASE WatchdogQuits /\ UNCHANGED row
    BY <1>1, <2>2, <2>4
  <2> QED BY <1>5, <2>1, <2>3, <2>4 DEF Revive
<1> QED BY <1>2, <1>3, <1>4, <1>5 DEF WatchdogStep

LEMMA ScanOwners ==
    ASSUME OwnerInv, NEW s \in Slots, WatchdogScan(s)
    PROVE  LockHeld' /\ OwnerAttends' /\ LockExcludesOwners'
<1>0. TypeOK /\ Watchdog \in Threads /\ Watchdog \notin Workers
  BY ExitSlotsAssumption DEF OwnerInv, Threads
<1>1. ASSUME NEW r \in ThreadRec, r.pc \notin LockSteps, thread[Watchdog].pc = "idle",
             thread' = [thread EXCEPT ![Watchdog] = r],
             fresh' = fresh \/ fresh' = fresh \cup {Watchdog},
             UNCHANGED <<row, rt, worker>>
      PROVE  LockHeld' /\ OwnerAttends' /\ LockExcludesOwners'
  <2>1. Steps(Watchdog) /\ thread'[Watchdog] = r
    BY <1>0, <1>1, ThreadUpdate
  <2>2. fresh' \cap Workers = fresh \cap Workers
    BY <1>0, <1>1
  <2> QED BY <1>0, <1>1, <2>1, <2>2, QuietStep DEF SlotKept
<1>2. CASE RecoverIdle(s)
  <2> DEFINE r == [IdleThread EXCEPT !.pc = "start", !.op = "recover", !.slot = s]
  <2>1. r \in ThreadRec /\ r.pc \notin LockSteps
    BY IdleTyped DEF IdleThread, ThreadRec, ThreadSteps, ThreadOps, LockSteps
  <2>2. /\ thread' = [thread EXCEPT ![Watchdog] = r] /\ thread[Watchdog].pc = "idle"
        /\ UNCHANGED <<row, rt, worker, fresh>>
    BY <1>2 DEF RecoverIdle
  <2> HIDE DEF r
  <2> QED BY <1>1, <2>1, <2>2
<1>3. CASE RecoverStale(s)
  <2> DEFINE r == [IdleThread EXCEPT !.pc = "inspect", !.op = "inspect", !.slot = s,
                                     !.state = row[s].state]
  <2>1. r \in ThreadRec /\ r.pc \notin LockSteps
    BY <1>0, IdleTyped, RowTyped DEF IdleThread, ThreadRec, ThreadSteps, ThreadOps, LockSteps
  <2>2. /\ thread' = [thread EXCEPT ![Watchdog] = r] /\ thread[Watchdog].pc = "idle"
        /\ fresh' = fresh \cup {Watchdog} /\ UNCHANGED <<row, rt, worker>>
    BY <1>3 DEF RecoverStale
  <2> HIDE DEF r
  <2> QED BY <1>1, <2>1, <2>2
<1>4. CASE ReviveScan(s)
  <2> DEFINE r == [IdleThread EXCEPT !.pc = "revive", !.op = "revive", !.slot = s]
  <2>1. r \in ThreadRec /\ r.pc \notin LockSteps
    BY IdleTyped DEF IdleThread, ThreadRec, ThreadSteps, ThreadOps, LockSteps
  <2>2. /\ thread' = [thread EXCEPT ![Watchdog] = r] /\ thread[Watchdog].pc = "idle"
        /\ fresh' = fresh \cup {Watchdog} /\ UNCHANGED <<row, rt, worker>>
    BY <1>4 DEF ReviveScan
  <2> HIDE DEF r
  <2> QED BY <1>1, <2>1, <2>2
<1> QED BY <1>2, <1>3, <1>4 DEF WatchdogScan

\* A timer launches a worker only for a failed row, which nobody owns.
LEMMA RetryOwners ==
    ASSUME OwnerInv, NEW s \in Slots, RetryFires(s)
    PROVE  LockHeld' /\ OwnerAttends' /\ LockExcludesOwners'
<1>0. /\ TypeOK /\ Placed /\ LockHeld /\ OwnerAttends /\ LockExcludesOwners
      /\ thread' = thread /\ rt[s].lock = None
  BY DEF OwnerInv, RetryFires, Unlocked
<1>1. \A o : Stopping(o)' = Stopping(o)
  BY <1>0 DEF Stopping
<1>2. CASE /\ rt' = [rt EXCEPT ![s].timer = FALSE]
           /\ fresh' = fresh \ {s}
           /\ UNCHANGED <<row, worker>>
  <2>1. \A o : Owners(o)' = Owners(o)
    <3>1. fresh' \cap Workers = fresh \cap Workers
      BY <1>2, ExitSlotsAssumption
    <3> QED BY <1>2, <3>1 DEF Owners
  <2>2. \A o \in Slots : /\ rt'[o].lock = rt[o].lock
                         /\ rt'[o].worker = rt[o].worker
                         /\ rt'[o].stop = rt[o].stop
    BY <1>0, <1>2 DEF TypeOK, RuntimeRec
  <2>3. LockHeld'
    BY <1>0, <1>2, <2>2 DEF LockHeld, Placed
  <2>4. OwnerAttends'
    BY <1>0, <1>1, <1>2, <2>1, <2>2 DEF OwnerAttends
  <2>5. LockExcludesOwners'
    <3>1. RetiredAlone'
      BY <1>0, <1>2, <2>1, StayRetired DEF LockExcludesOwners
    <3> QED BY <1>0, <2>1, <3>1 DEF LockExcludesOwners
  <2> QED BY <2>3, <2>4, <2>5
<1>3. CASE ~(/\ rt' = [rt EXCEPT ![s].timer = FALSE]
             /\ fresh' = fresh \ {s}
             /\ UNCHANGED <<row, worker>>)
  <2>1. /\ row[s].state = "failed" /\ row[s].enabled
        /\ row' = [row EXCEPT ![s].state = "connecting"]
    BY <1>3 DEF RetryFires
  <2>2. PICK w \in Workers :
          /\ Unborn(w)
          /\ worker' = [worker EXCEPT ![w] = [pc |-> "dial", slot |-> s, node |-> None]]
          /\ rt' = [rt EXCEPT ![s] = [rt[s] EXCEPT !.timer = FALSE, !.listener = None,
                              !.stop = FALSE, !.dialing = FALSE, !.worker = w]]
          /\ fresh' = (fresh \ {s}) \cup {w}
    BY <1>3 DEF RetryFires
  <2>3. Owners(s) = {}
    <3>1. row[s].state \notin Live
      BY <2>1 DEF Live
    <3> QED BY <1>0, <2>1, <3>1 DEF OwnerAttends
  <2>4. /\ worker'[w].pc = "dial" /\ worker'[w].slot = s
        /\ \A v \in Workers \ {w} : worker'[v] = worker[v]
        /\ worker[w].pc = "done"
    BY <1>0, <2>2 DEF TypeOK, Unborn
  <2>5. /\ rt'[s].worker = w /\ ~rt'[s].stop
        /\ \A o \in Slots : rt'[o].lock = rt[o].lock
        /\ \A o \in Slots \ {s} : rt'[o] = rt[o]
    BY <1>0, <2>2 DEF TypeOK, RuntimeRec
  <2>6. row'[s].state = "connecting" /\ \A o \in Slots \ {s} : row'[o] = row[o]
    BY <1>0, <2>1 DEF TypeOK, RowRec
  <2>7. Owners(s)' = {w} /\ \A o \in Slots \ {s} : Owners(o)' = Owners(o)
    <3>1. \A o \in Slots : w \notin Owners(o)
      BY <1>0, <2>4 DEF OwnerAttends
    <3>2. \A v \in Workers \ {w} : v \in fresh' <=> v \in fresh
      BY <2>2, ExitSlotsAssumption
    <3>3. w \in fresh'
      BY <2>2
    <3> QED BY <2>3, <2>4, <3>1, <3>2, <3>3 DEF Owners
  <2>8. LockHeld'
    <3>1. \A v \in Workers : v # w => /\ worker'[v].pc = worker[v].pc
                                      /\ worker'[v].slot = worker[v].slot
      BY <2>4
    <3>2. \A o \in Slots : \/ rt'[o].lock = rt[o].lock /\ rt'[o].stop = rt[o].stop
                           \/ rt[o].lock \in {None, w}
      BY <1>0, <2>5
    <3>3. w \notin Threads
      BY ExitSlotsAssumption DEF Threads
    <3> QED BY <1>0, <2>4, <3>1, <3>2, <3>3, LockPassed
  <2>9. OwnerAttends'
    <3> SUFFICES ASSUME NEW o \in Slots, NEW v \in Owners(o)'
                 PROVE  /\ worker'[v].pc # "done"
                        /\ rt'[o].worker = v
                        /\ row'[o].enabled => row'[o].state \in Live
                        /\ row'[o].enabled /\ rt'[o].stop => Stopping(o)' \/ worker'[v].pc = "record"
      BY DEF OwnerAttends
    <3>1. CASE o = s
      BY <2>4, <2>5, <2>6, <2>7, <3>1 DEF Live
    <3>2. CASE o # s
      <4>1. v \in Owners(o) /\ v \in Workers
        BY <2>7, <3>2 DEF Owners
      <4>2. /\ worker[v].pc # "done"
            /\ rt[o].worker = v
            /\ row[o].enabled => row[o].state \in Live
            /\ row[o].enabled /\ rt[o].stop => Stopping(o) \/ worker[v].pc = "record"
        BY <1>0, <4>1 DEF OwnerAttends
      <4>3. worker'[v] = worker[v]
        BY <2>4, <4>1, <4>2
      <4> QED BY <1>1, <2>5, <2>6, <3>2, <4>2, <4>3
    <3> QED BY <3>1, <3>2
  <2>10. LockExcludesOwners'
    <3> SUFFICES ASSUME NEW u \in Threads,
                        \/ thread[u].pc = "startLaunch"
                        \/ thread[u].pc \in {"stopClose", "stopRoute"} /\ thread[u].was
                 PROVE  Owners(thread[u].slot)' = {}
      <4>1. \A v \in Workers : worker'[v].pc = "retire" =>
            worker[v].pc = "retire" /\ worker'[v].slot = worker[v].slot
        BY <2>4
      <4>2. rt[s].lock \notin Workers
        BY <1>0, ExitSlotsAssumption
      <4>3. RetiredAlone'
        BY <1>0, <2>7, <4>1, <4>2, StayRetired DEF LockExcludesOwners
      <4> QED BY <1>0, <4>3 DEF LockExcludesOwners
    <3>1. rt[thread[u].slot].lock = u /\ Owners(thread[u].slot) = {}
      BY <1>0 DEF LockHeld, LockExcludesOwners
    <3>2. PICK o \in Slots : o = thread[u].slot
      BY <1>0 DEF Placed
    <3>3. o # s
      BY <1>0, <3>1, <3>2, ExitSlotsAssumption DEF Threads
    <3>4. Owners(o)' = {}
      BY <2>7, <3>1, <3>2, <3>3
    <3> QED BY <1>0, <3>2, <3>4 DEF Owners
  <2> QED BY <2>8, <2>9, <2>10
<1> QED BY <1>2, <1>3

LEMMA EnvironmentOwners ==
    ASSUME OwnerInv, Fault \/ (\E n \in Nodes : CoolDown(n)) \/ UNCHANGED vars
    PROVE  LockHeld' /\ OwnerAttends' /\ LockExcludesOwners'
<1>1. UNCHANGED <<row, rt, worker, fresh, thread>>
  BY DEF Fault, ProcessDies, ListenerDies, CoolDown, vars
<1>2. \A o : Owners(o)' = Owners(o) /\ Stopping(o)' = Stopping(o)
  BY <1>1 DEF Owners, Stopping
<1>3. OwnerAttends'
  BY <1>1, <1>2 DEF OwnerInv, OwnerAttends
<1>4. LockExcludesOwners'
  <2>1. RetiredAlone'
    BY <1>1, <1>2, StayRetired DEF OwnerInv, LockExcludesOwners
  <2> QED BY <1>1, <1>2, <2>1 DEF OwnerInv, LockExcludesOwners
<1> QED BY <1>1, <1>3, <1>4 DEF OwnerInv, LockHeld

LEMMA InitOwners == Init => OwnerInv
<1> SUFFICES ASSUME Init PROVE OwnerInv
  OBVIOUS
<1>1. TypeOK /\ Placed
  BY InitTyped
<1>2. LockHeld
  BY DEF Init, LockHeld, IdleThread, IdleWorker
<1>3. \A s : Owners(s) = {}
  BY DEF Init, Owners
<1> QED BY <1>1, <1>2, <1>3 DEF OwnerInv, OwnerAttends, LockExcludesOwners, RetiredAlone, Owners

LEMMA NextOwners == OwnerInv /\ [Next]_vars => OwnerInv'
<1> SUFFICES ASSUME OwnerInv, [Next]_vars
             PROVE  OwnerInv'
  OBVIOUS
<1>1. TypeOK' /\ Placed'
  BY NextTyped DEF OwnerInv
<1>2. LockHeld' /\ OwnerAttends' /\ LockExcludesOwners'
  BY WorkerStepOwners, ThreadStepOwners, RequestOwners, WatchdogStepOwners,
     ScanOwners, RetryOwners, EnvironmentOwners DEF Next
<1> QED BY <1>1, <1>2 DEF OwnerInv

\* However requests, retries, the watchdog and failing workers overlap, at most
\* one connection worker of a slot holds its current generation: each path that
\* enables a row moves the generation on, and a worker is launched only by
\* start_slot under the runtime lock or by a retry timer for a failed row.
THEOREM OneOwnerAlways == Spec => []OneOwner
<1>1. Init => OwnerInv
  BY InitOwners
<1>2. OwnerInv /\ [Next]_vars => OwnerInv'
  BY NextOwners
<1>3. OwnerInv => OneOwner
  BY DEF OwnerInv, OwnerAttends, OneOwner
<1> QED BY <1>1, <1>2, <1>3, PTL DEF Spec
=============================================================================
