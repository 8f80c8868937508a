------------------------ MODULE ExitResources_proofs ------------------------
(***************************************************************************)
(* What the slots share or leave bound is never lost: the semaphore of     *)
(* KUI_DIAL_WORKERS dials is balanced, every bound SOCKS port has an       *)
(* owner, and slots are leased as SlotLease says, for every number of      *)
(* slots, nodes, workers and requests.                                     *)
(***************************************************************************)
EXTENDS ExitLease, ExitSlots_proofs, FiniteSetTheorems

-----------------------------------------------------------------------------
(* The dial permits *)

\* Only worker w may go on to another step.
OnlyMoves(w) == \A v \in Workers \ {w} : worker'[v].pc = worker[v].pc

\* What a step may do: leave permits and their holders alone, let one worker
\* acquire a permit that is left, or let one that holds a permit return it.
Keeps == /\ permits' = permits
         /\ \A v \in Workers : worker'[v].pc \in DialSteps <=> worker[v].pc \in DialSteps

Enters(w) == /\ permits > 0 /\ permits' = permits - 1
             /\ worker[w].pc \notin DialSteps /\ worker'[w].pc \in DialSteps
             /\ OnlyMoves(w)

Leaves(w) == /\ permits' = permits + 1
             /\ worker[w].pc \in DialSteps /\ worker'[w].pc \notin DialSteps
             /\ OnlyMoves(w)

LEMMA KeepsBalance ==
    ASSUME DialPermitsBalanced, Keeps
    PROVE  DialPermitsBalanced'
<1>1. Dialing' = Dialing
  BY DEF Keeps, Dialing
<1> QED BY <1>1 DEF DialPermitsBalanced, Keeps

LEMMA DialingFinite == IsFiniteSet(Dialing)
BY ExitSlotsAssumption, FS_Subset DEF Dialing, ExitSlotsAssumption

LEMMA EntersBalance ==
    ASSUME TypeOK, DialPermitsBalanced, NEW w \in Workers, Enters(w)
    PROVE  DialPermitsBalanced'
<1>1. Dialing' = Dialing \cup {w} /\ w \notin Dialing
  BY DEF Enters, OnlyMoves, Dialing
<1>2. Cardinality(Dialing') = Cardinality(Dialing) + 1
  BY <1>1, DialingFinite, FS_AddElement
<1>3. Cardinality(Dialing) \in Nat /\ permits \in Nat
  BY DialingFinite, FS_CardinalityType DEF TypeOK
<1>4. permits + Cardinality(Dialing) = DialPermits
  BY DEF DialPermitsBalanced
<1>5. permits' + Cardinality(Dialing') = DialPermits
  BY <1>2, <1>3, <1>4 DEF Enters
<1> QED BY <1>5 DEF DialPermitsBalanced

LEMMA LeavesBalance ==
    ASSUME TypeOK, DialPermitsBalanced, NEW w \in Workers, Leaves(w)
    PROVE  DialPermitsBalanced'
<1>1. Dialing' = Dialing \ {w} /\ w \in Dialing
  BY DEF Leaves, OnlyMoves, Dialing
<1>2. Cardinality(Dialing') = Cardinality(Dialing) - 1
  BY <1>1, DialingFinite, FS_RemoveElement
<1>3. Cardinality(Dialing) \in Nat /\ permits \in Nat
  BY DialingFinite, FS_CardinalityType DEF TypeOK
<1>4. permits + Cardinality(Dialing) = DialPermits
  BY DEF DialPermitsBalanced
<1>5. permits' + Cardinality(Dialing') = DialPermits
  BY <1>2, <1>3, <1>4 DEF Leaves
<1> QED BY <1>5 DEF DialPermitsBalanced

LEMMA GotoOnlyMoves ==
    ASSUME TypeOK, NEW w \in Workers, NEW step, Goto(w, step)
    PROVE  OnlyMoves(w) /\ worker'[w].pc = step
BY DEF Goto, TypeOK, WorkerRec, OnlyMoves

\* A step within the dial section, or outside of it, that leaves the permits.
LEMMA GotoKeeps ==
    ASSUME TypeOK, NEW w \in Workers, NEW step, Goto(w, step),
           permits' = permits, worker[w].pc \in DialSteps <=> step \in DialSteps
    PROVE  Keeps
BY GotoOnlyMoves DEF OnlyMoves, Keeps

\* Every exit from the dial section that goes through LeaveDial.
LEMMA LeaveDialLeaves ==
    ASSUME TypeOK, NEW w \in Workers, NEW step, LeaveDial(w, step),
           worker[w].pc \in DialSteps, step \notin DialSteps
    PROVE  Leaves(w)
BY GotoOnlyMoves DEF LeaveDial, Leaves

\* A thread is launched, or ends, outside the dial section.
LEMMA ReplaceKeeps ==
    ASSUME TypeOK, NEW w \in Workers, NEW r,
           worker' = [worker EXCEPT ![w] = r], permits' = permits,
           worker[w].pc \in DialSteps <=> r.pc \in DialSteps
    PROVE  Keeps
BY DEF TypeOK, Keeps

-----------------------------------------------------------------------------
LEMMA WorkerStepPermits ==
    ASSUME TypeOK, NEW w \in Workers, WorkerStep(w)
    PROVE  Keeps \/ Enters(w) \/ Leaves(w)
<1> USE DEF DialSteps
<1>1. CASE DialCheck(w)
  BY <1>1, GotoKeeps DEF DialCheck
<1>2. CASE AcquireDial(w)
  <2>1. CASE permits > 0 /\ permits' = permits - 1 /\ Goto(w, "prefer")
    BY <1>2, <2>1, GotoOnlyMoves DEF AcquireDial, Enters
  <2>2. CASE Goto(w, "dial") /\ UNCHANGED permits
    BY <1>2, <2>2, GotoKeeps DEF AcquireDial
  <2> QED BY <1>2, <2>1, <2>2 DEF AcquireDial
<1>3. CASE TakePreferred(w)
  <2>1. worker' = [worker EXCEPT ![w] =
                     [@ EXCEPT !.pc = "reserve", !.node = rt[worker[w].slot].preferred]]
    BY <1>3 DEF TakePreferred
  <2> QED BY <1>3, <2>1 DEF TakePreferred, Keeps, TypeOK, WorkerRec
<1>4. CASE ReserveNode(w)
  <2>1. ASSUME NEW n, UNCHANGED permits,
               worker' = [worker EXCEPT ![w] = [@ EXCEPT !.pc = "check", !.node = n]]
        PROVE  Keeps
    <3> DEFINE r == [worker[w] EXCEPT !.pc = "check", !.node = n]
    <3>1. r.pc = "check" /\ worker[w].pc = "reserve"
      BY <1>4, WorkerTyped DEF ReserveNode, WorkerRec
    <3>2. worker' = [worker EXCEPT ![w] = r]
      BY <2>1
    <3> QED BY <2>1, <3>1, <3>2, ReplaceKeeps
  <2>2. ASSUME permits' = permits + 1,
               worker' = [worker EXCEPT ![w] = [@ EXCEPT !.pc = "except", !.node = None]]
        PROVE  Leaves(w)
    <3> DEFINE r == [worker[w] EXCEPT !.pc = "except", !.node = None]
    <3>1. r.pc = "except" /\ worker[w].pc = "reserve"
      BY <1>4, WorkerTyped DEF ReserveNode, WorkerRec
    <3>2. worker' = [worker EXCEPT ![w] = r]
      BY <2>2
    <3> HIDE DEF r
    <3> QED BY <2>2, <3>1, <3>2 DEF Leaves, OnlyMoves, TypeOK
  <2> QED BY <1>4, <2>1, <2>2 DEF ReserveNode
<1>5. CASE CheckBeforeSpawn(w)
  BY <1>5, GotoKeeps, LeaveDialLeaves DEF CheckBeforeSpawn
<1>6. CASE Spawn(w)
  BY <1>6, GotoKeeps DEF Spawn
<1>7. CASE Adopt(w)
  BY <1>7, GotoKeeps, LeaveDialLeaves DEF Adopt
<1>8. CASE AwaitTunnel(w)
  BY <1>8, GotoKeeps, LeaveDialLeaves DEF AwaitTunnel
<1>9. CASE InstallRoutes(w)
  BY <1>9, GotoKeeps, LeaveDialLeaves DEF InstallRoutes
<1>10. CASE VerifyEgress(w)
  BY <1>10, GotoKeeps, LeaveDialLeaves DEF VerifyEgress
<1>11. CASE OpenListener(w)
  BY <1>11, GotoKeeps, LeaveDialLeaves DEF OpenListener
<1>12. CASE CommitCheck(w)
  BY <1>12, GotoKeeps, LeaveDialLeaves DEF CommitCheck
<1>13. CASE CommitWrite(w)
  BY <1>13, GotoKeeps, LeaveDialLeaves DEF CommitWrite
<1>14. CASE Publish(w)
  BY <1>14, LeaveDialLeaves DEF Publish
<1>15. CASE HealthCheck(w)
  BY <1>15, GotoKeeps DEF HealthCheck
<1>16. CASE ProbeOutcome(w)
  BY <1>16, GotoKeeps DEF ProbeOutcome
<1>17. CASE ExceptHandler(w)
  BY <1>17, GotoKeeps DEF ExceptHandler
<1>18. CASE HandleFailure(w)
  BY <1>18, GotoKeeps DEF HandleFailure
<1>19. CASE RecordFailure(w)
  BY <1>19, GotoKeeps DEF RecordFailure
<1>20. CASE Teardown(w)
  BY <1>20, GotoKeeps DEF Teardown
<1>21. CASE ScheduleRetry(w)
  BY <1>21, GotoKeeps DEF ScheduleRetry
<1>22. CASE Finally(w)
  BY <1>22, GotoKeeps DEF Finally
<1>23. CASE Cleanup(w)
  BY <1>23, GotoKeeps DEF Cleanup
<1>24. CASE Reclaim(w)
  BY <1>24, GotoKeeps DEF Reclaim
<1>25. CASE Disown(w)
  <2> DEFINE r == [IdleWorker EXCEPT !.slot = IF Running(w) THEN worker[w].slot ELSE None]
  <2>1. r.pc = "done" /\ worker[w].pc = "disown" /\ permits' = permits
    BY <1>25 DEF Disown, IdleWorker
  <2>2. worker' = [worker EXCEPT ![w] = r]
    BY <1>25 DEF Disown
  <2> QED BY <2>1, <2>2, ReplaceKeeps
<1> QED BY <1>1, <1>2, <1>3, <1>4, <1>5, <1>6, <1>7, <1>8, <1>9, <1>10, <1>11,
           <1>12, <1>13, <1>14, <1>15, <1>16, <1>17, <1>18, <1>19, <1>20,
           <1>21, <1>22, <1>23, <1>24, <1>25 DEF WorkerStep

LEMMA ThreadStepPermits ==
    ASSUME TypeOK, NEW t \in Threads, ThreadStep(t)
    PROVE  Keeps
<1>1. CASE UNCHANGED <<worker, permits>>
  BY <1>1 DEF Keeps
<1>2. CASE StartLaunch(t)
  <2>1. PICK w \in Workers : /\ worker[w].pc = "done"
                             /\ worker' = [worker EXCEPT ![w] =
                                  [pc |-> "dial", slot |-> thread[t].slot, node |-> None]]
    BY <1>2 DEF StartLaunch, Unborn
  <2> QED BY <1>2, <2>1, ReplaceKeeps DEF StartLaunch, DialSteps
<1> QED BY <1>1, <1>2 DEF ThreadStep, StopLock, StopBump, StopClose, StopRoute,
      StopJoin, RedialDecide, ConnectDecide, EnableWrite, DisableWrite,
      ConfigureRead, ConfigureWrite, Start, StartLock

LEMMA RetryPermits ==
    ASSUME TypeOK, NEW s \in Slots, RetryFires(s)
    PROVE  Keeps
<1>1. CASE UNCHANGED <<worker, permits>>
  BY <1>1 DEF Keeps
<1>2. CASE \E w \in Workers : /\ Unborn(w)
                              /\ worker' = [worker EXCEPT ![w] =
                                   [pc |-> "dial", slot |-> s, node |-> None]]
  <2>1. PICK w \in Workers : /\ worker[w].pc = "done"
                             /\ worker' = [worker EXCEPT ![w] =
                                  [pc |-> "dial", slot |-> s, node |-> None]]
    BY <1>2 DEF Unborn
  <2> QED BY <2>1, ReplaceKeeps DEF RetryFires, DialSteps
<1> QED BY <1>1, <1>2 DEF RetryFires

\* Operator requests, the watchdog's own steps and the environment.
LEMMA OtherPermits ==
    ASSUME \/ \E u \in Users, s \in Slots : UserRequest(u, s)
           \/ \E s \in Slots : WatchdogScan(s)
           \/ WatchdogStep \/ Fault
           \/ \E n \in Nodes : CoolDown(n)
           \/ UNCHANGED vars
    PROVE  Keeps
<1>1. UNCHANGED <<worker, permits>>
  BY DEF UserRequest, RequestRedial, RequestConnect, RequestDisable, RequestEnable,
     RequestConfigure, Request, WatchdogScan, RecoverIdle, RecoverStale, ReviveScan,
     WatchdogStep, Inspect, Repair, ConfirmRedial, Revive, Fault, ProcessDies,
     ListenerDies, CoolDown, vars
<1> QED BY <1>1 DEF Keeps

\* Early returns, exceptions, stops and failures included, the permits that are
\* left and the workers inside the dial section always add up to
\* KUI_DIAL_WORKERS: each step keeps both, takes a permit into the section, or
\* brings one back out.
THEOREM DialPermitsAlways == Spec => []DialPermitsBalanced
<1> DEFINE Inv == TypeOK /\ Placed /\ DialPermitsBalanced
<1>1. Init => Inv
  <2> SUFFICES ASSUME Init PROVE Inv
    OBVIOUS
  <2>1. TypeOK /\ Placed
    BY InitTyped
  <2>2. Dialing = {}
    BY DEF Init, Dialing, IdleWorker, DialSteps
  <2>3. permits + Cardinality(Dialing) = DialPermits
    BY <2>2, FS_EmptySet, ExitSlotsAssumption DEF Init, ExitSlotsAssumption
  <2> QED BY <2>1, <2>3 DEF DialPermitsBalanced
<1>2. Inv /\ [Next]_vars => Inv'
  <2> SUFFICES ASSUME Inv, [Next]_vars PROVE Inv'
    OBVIOUS
  <2>1. TypeOK' /\ Placed'
    BY NextTyped
  <2>2. Keeps \/ \E w \in Workers : Enters(w) \/ Leaves(w)
    BY WorkerStepPermits, ThreadStepPermits, RetryPermits, OtherPermits DEF Next
  <2>3. DialPermitsBalanced'
    BY <2>2, KeepsBalance, EntersBalance, LeavesBalance
  <2> QED BY <2>1, <2>3
<1>3. Inv => DialPermitsBalanced
  OBVIOUS
<1> QED BY <1>1, <1>2, <1>3, PTL DEF Spec

-----------------------------------------------------------------------------
(* The SOCKS port *)

\* Worker w has opened the listener of slot s and not registered it yet; the
\* watchdog has, to repair it.
Prepared(w, s) == worker[w].slot = s /\ worker[w].pc \in {"probe", "write", "publish"}
Repairs(s) == thread[Watchdog].pc = "repair" /\ thread[Watchdog].slot = s

PortHeld(s) == port[s] # None =>
    \/ rt[s].listener = port[s]
    \/ port[s] \in Workers /\ Prepared(port[s], s)
    \/ port[s] = Repaired /\ Repairs(s)

\* The watchdog has dropped the dead listener before it opens a new one, and
\* nobody registers another before it does: publishing takes the runtime lock.
RepairFirst(s) == Repairs(s) => rt[s].listener = None

ListenerInv == \A s \in Slots : PortHeld(s) /\ RepairFirst(s)

\* Slot s has the same listeners and whoever opened one still holds it.
ListenersKept(s) ==
    /\ port'[s] \in {port[s], None} /\ rt'[s].listener = rt[s].listener
    /\ \A w \in Workers : Prepared(w, s) => Prepared(w, s)'
    /\ Repairs(s)' <=> Repairs(s)

\* The runtime's listener of slot s is closed and dropped.
ListenerDropped(s) ==
    /\ port'[s] = (IF port[s] = rt[s].listener THEN None ELSE port[s]) /\ rt'[s].listener = None
    /\ \A w \in Workers : Prepared(w, s) => Prepared(w, s)'
    /\ Repairs(s)' <=> Repairs(s)

LEMMA KeptHeld ==
    ASSUME ListenerInv, \A s \in Slots : ListenersKept(s) \/ ListenerDropped(s)
    PROVE  ListenerInv'
<1> SUFFICES ASSUME NEW s \in Slots PROVE PortHeld(s)' /\ RepairFirst(s)'
  BY DEF ListenerInv
<1> QED BY DEF ListenerInv, PortHeld, RepairFirst, ListenersKept, ListenerDropped

\* What a thread other than a preparing worker or a repairing watchdog does.
LEMMA PreparedKept ==
    ASSUME \A w \in Workers : worker[w].pc \in {"probe", "write", "publish"}
                                 => worker'[w].pc = worker[w].pc /\ worker'[w].slot = worker[w].slot,
           NEW s \in Slots
    PROVE  \A w \in Workers : Prepared(w, s) => Prepared(w, s)'
BY DEF Prepared

LEMMA WorkerStepPorts ==
    ASSUME TypeOK, LockHeld, ListenerInv, NEW w \in Workers, WorkerStep(w),
           NEW s \in Slots, worker[w].slot = s
    PROVE  ListenerInv'
<1>1. \A v \in Workers \ {w} : worker'[v] = worker[v]
  <2>1. ASSUME NEW r, worker' = [worker EXCEPT ![w] = r]
        PROVE  \A v \in Workers \ {w} : worker'[v] = worker[v]
    BY <2>1 DEF TypeOK
  <2>2. ASSUME NEW step, Goto(w, step)
        PROVE  \A v \in Workers \ {w} : worker'[v] = worker[v]
    BY <2>2 DEF Goto, TypeOK
  <2>3. CASE TakePreferred(w) \/ ReserveNode(w) \/ Disown(w)
    BY <2>1, <2>2, <2>3 DEF TakePreferred, ReserveNode, Disown
  <2>4. CASE \/ DialCheck(w) \/ AcquireDial(w) \/ CheckBeforeSpawn(w) \/ Spawn(w)
             \/ Adopt(w) \/ AwaitTunnel(w) \/ InstallRoutes(w) \/ VerifyEgress(w)
             \/ OpenListener(w) \/ CommitCheck(w) \/ CommitWrite(w) \/ Publish(w)
    BY <2>2, <2>4 DEF LeaveDial, DialCheck, AcquireDial, CheckBeforeSpawn, Spawn, Adopt,
       AwaitTunnel, InstallRoutes, VerifyEgress, OpenListener, CommitCheck, CommitWrite, Publish
  <2>5. CASE \/ HealthCheck(w) \/ ProbeOutcome(w) \/ ExceptHandler(w) \/ HandleFailure(w)
             \/ RecordFailure(w) \/ Teardown(w) \/ ScheduleRetry(w) \/ Finally(w)
             \/ Cleanup(w) \/ Reclaim(w)
    BY <2>2, <2>5 DEF HealthCheck, ProbeOutcome, ExceptHandler, HandleFailure, RecordFailure,
       Teardown, ScheduleRetry, Finally, Cleanup, Reclaim
  <2> QED BY <2>3, <2>4, <2>5 DEF WorkerStep
<1>2. \A o \in Slots : Repairs(o)' <=> Repairs(o)
  <2>1. \A t \in Threads : thread'[t].pc = thread[t].pc /\ thread'[t].slot = thread[t].slot
    <3>1. CASE Disown(w)
      BY <3>1 DEF Disown, TypeOK, ThreadRec
    <3> QED BY <3>1 DEF WorkerStep, DialCheck, AcquireDial, TakePreferred, ReserveNode,
          CheckBeforeSpawn, Spawn, Adopt, AwaitTunnel, InstallRoutes, VerifyEgress, OpenListener,
          CommitCheck, CommitWrite, Publish, HealthCheck, ProbeOutcome, ExceptHandler, HandleFailure,
          RecordFailure, Teardown, ScheduleRetry, Finally, Cleanup, Reclaim
  <2> QED BY <2>1 DEF Repairs, Threads
<1>3. \A step : Goto(w, step) => worker'[w].pc = step /\ worker'[w].slot = s
  BY DEF Goto, TypeOK, WorkerRec
<1>4. ASSUME UNCHANGED port, \A o \in Slots : rt'[o].listener = rt[o].listener,
             worker[w].pc \notin {"probe", "write", "publish"}
      PROVE  ListenerInv'
  BY <1>1, <1>2, <1>4, KeptHeld, PreparedKept DEF ListenersKept
<1>5. CASE OpenListener(w)
  <2>1. CASE port[s] = None /\ port' = [port EXCEPT ![s] = w] /\ Goto(w, "probe")
    <3>1. port'[s] = w /\ \A o \in Slots \ {s} : port'[o] = port[o]
      BY <2>1 DEF TypeOK
    <3>2. rt' = rt /\ worker[w].pc = "listen"
      BY <1>5 DEF OpenListener
    <3>3. \A o \in Slots, v \in Workers : Prepared(v, o) => Prepared(v, o)'
      BY <1>1, <3>2 DEF Prepared
    <3> QED BY <1>2, <1>3, <2>1, <3>1, <3>2, <3>3 DEF ListenerInv, PortHeld, RepairFirst, Prepared
  <2>2. CASE UNCHANGED port
    BY <1>4, <1>5, <2>2 DEF OpenListener
  <2> QED BY <1>5, <2>1, <2>2 DEF OpenListener
<1>6. ASSUME UNCHANGED rt, worker[w].pc \in {"probe", "write"},
             \/ port' = Closed(s, w)
             \/ /\ port' = port \/ (port' = [port EXCEPT ![s] = w] /\ port[s] \in {w, None})
                /\ \E step \in {"write", "publish"} : Goto(w, step)
      PROVE  ListenerInv'
  <2>1. \A o \in Slots \ {s} : ListenersKept(o)
    BY <1>1, <1>2, <1>6 DEF ListenersKept, Closed, TypeOK, Prepared
  <2>2. PortHeld(s)' /\ RepairFirst(s)'
    <3>1. RepairFirst(s)'
      BY <1>2, <1>6 DEF ListenerInv, RepairFirst
    <3>2. PortHeld(s)
      BY DEF ListenerInv
    <3>3. \A v \in Workers \ {w} : Prepared(v, s)' <=> Prepared(v, s)
      BY <1>1 DEF Prepared
    <3>4. CASE port' = Closed(s, w)
      <4>1. port'[s] = None \/ (port'[s] = port[s] /\ port[s] # w)
        BY <3>4 DEF Closed, TypeOK
      <4>2. CASE port'[s] = None
        BY <3>1, <4>2 DEF PortHeld
      <4>3. CASE port'[s] = port[s] /\ port[s] # w
        BY <1>2, <1>6, <3>1, <3>2, <3>3, <4>3 DEF PortHeld
      <4> QED BY <4>1, <4>2, <4>3
    <3>5. CASE /\ port' = port \/ (port' = [port EXCEPT ![s] = w] /\ port[s] \in {w, None})
               /\ \E step \in {"write", "publish"} : Goto(w, step)
      <4>1. Prepared(w, s)'
        BY <1>3, <3>5 DEF Prepared
      <4>2. port'[s] \in {port[s], w}
        BY <3>5 DEF TypeOK
      <4> QED BY <1>2, <1>6, <3>1, <3>2, <3>3, <4>1, <4>2 DEF PortHeld
    <3> QED BY <1>6, <3>1, <3>4, <3>5
  <2>3. \A o \in Slots \ {s} : PortHeld(o)' /\ RepairFirst(o)'
    BY <2>1 DEF ListenerInv, PortHeld, RepairFirst, ListenersKept
  <2> QED BY <2>2, <2>3 DEF ListenerInv
<1>7. CASE CommitCheck(w)
  BY <1>6, <1>7 DEF CommitCheck
<1>8. CASE CommitWrite(w)
  BY <1>6, <1>8 DEF CommitWrite
<1>9. CASE Publish(w)
  <2>1. /\ worker[w].pc = "publish" /\ rt[s].lock = None
        /\ port' = IF rt[s].listener # w THEN Closed(s, rt[s].listener) ELSE port
        /\ rt' = [rt EXCEPT ![s].listener = w]
    BY <1>9 DEF Publish, Unlocked
  <2>2. rt'[s].listener = w /\ \A o \in Slots \ {s} : rt'[o] = rt[o] /\ port'[o] = port[o]
    BY <2>1 DEF TypeOK, RuntimeRec, Closed
  <2>3. \A o \in Slots \ {s} : ListenersKept(o)
    BY <1>1, <1>2, <2>2 DEF ListenersKept, Prepared
  <2>4. ~Repairs(s)
    BY <2>1, ExitSlotsAssumption DEF LockHeld, Repairs, Threads, LockSteps
  <2>5. PortHeld(s)'
    <3>1. PortHeld(s)
      BY DEF ListenerInv
    <3>2. \A v \in Workers \ {w} : Prepared(v, s)' <=> Prepared(v, s)
      BY <1>1 DEF Prepared
    <3>3. port'[s] = port[s] \/ port'[s] = None
      BY <2>1 DEF Closed, TypeOK
    <3>4. CASE rt[s].listener = w
      BY <2>1, <2>2, <2>4, <3>1, <3>2, <3>4 DEF PortHeld
    <3>5. CASE rt[s].listener # w /\ port[s] = rt[s].listener
      BY <2>1, <3>5 DEF PortHeld, Closed, TypeOK
    <3>6. CASE port[s] # rt[s].listener
      BY <2>2, <2>4, <3>1, <3>2, <3>3, <3>6 DEF PortHeld
    <3> QED BY <3>4, <3>5, <3>6
  <2>6. RepairFirst(s)'
    BY <1>2, <2>4 DEF RepairFirst
  <2>7. \A o \in Slots \ {s} : PortHeld(o)' /\ RepairFirst(o)'
    BY <2>3 DEF ListenerInv, PortHeld, RepairFirst, ListenersKept
  <2> QED BY <2>5, <2>6, <2>7 DEF ListenerInv
<1>10. CASE RecordFailure(w)
  <2>1. ListenerDropped(s)
    BY <1>1, <1>2, <1>10 DEF RecordFailure, ListenerDropped, Prepared, Closed, TypeOK, RuntimeRec
  <2>2. \A o \in Slots \ {s} : ListenersKept(o)
    BY <1>1, <1>2, <1>10 DEF RecordFailure, ListenersKept, Prepared, Closed, TypeOK
  <2> QED BY <2>1, <2>2, KeptHeld
<1>11. CASE \/ TakePreferred(w) \/ Adopt(w) \/ HandleFailure(w) \/ Teardown(w) \/ ScheduleRetry(w)
            \/ Cleanup(w) \/ Reclaim(w) \/ Disown(w)
  <2>1. \A o \in Slots : rt'[o].listener = rt[o].listener
    <3>1. rt[s] \in RuntimeRec
      BY DEF TypeOK
    <3>2. ASSUME NEW r, rt' = [rt EXCEPT ![s] = r], r.listener = rt[s].listener
          PROVE  \A o \in Slots : rt'[o].listener = rt[o].listener
      BY <3>2 DEF TypeOK
    <3>3. CASE UNCHANGED rt
      BY <3>3
    <3>4. CASE TakePreferred(w) \/ HandleFailure(w)
      BY <3>1, <3>2, <3>3, <3>4 DEF TakePreferred, HandleFailure, RuntimeRec
    <3>5. CASE Adopt(w) \/ Teardown(w) \/ ScheduleRetry(w)
      BY <3>1, <3>2, <3>3, <3>5 DEF Adopt, Teardown, ScheduleRetry, RuntimeRec
    <3>6. CASE Cleanup(w) \/ Reclaim(w) \/ Disown(w)
      BY <3>1, <3>2, <3>3, <3>6 DEF Cleanup, Reclaim, Disown, RuntimeRec
    <3> QED BY <1>11, <3>4, <3>5, <3>6
  <2> QED BY <1>4, <1>11, <2>1 DEF TakePreferred, Adopt, HandleFailure, Teardown, ScheduleRetry,
          Cleanup, Reclaim, Disown
<1> QED BY <1>4, <1>5, <1>7, <1>8, <1>9, <1>10, <1>11
  DEF WorkerStep, DialCheck, AcquireDial, ReserveNode, CheckBeforeSpawn, Spawn, AwaitTunnel,
      InstallRoutes, VerifyEgress, HealthCheck, ProbeOutcome, ExceptHandler, Finally

\* A thread that leaves the ports, or drops the listener of the slot it works on.
LEMMA ThreadPorts ==
    ASSUME TypeOK, ListenerInv, NEW t \in Threads, NEW s, thread[t].slot = s, thread[t].pc # "repair",
           thread'[t].pc # "repair", \A u \in Threads \ {t} : thread'[u] = thread[u],
           \A w \in Workers : worker[w].pc \in {"probe", "write", "publish"}
                                 => worker'[w].pc = worker[w].pc /\ worker'[w].slot = worker[w].slot,
           \/ port' = port /\ \A o \in Slots : rt'[o].listener = rt[o].listener
           \/ /\ s \in Slots /\ port' = Closed(s, rt[s].listener)
              /\ rt'[s].listener = None /\ \A o \in Slots \ {s} : rt'[o] = rt[o]
    PROVE  ListenerInv'
<1>1. \A o \in Slots : Repairs(o)' <=> Repairs(o)
  BY DEF Repairs, Threads
<1>2. \A o \in Slots, w \in Workers : Prepared(w, o) => Prepared(w, o)'
  BY DEF Prepared
<1>3. ASSUME NEW o \in Slots PROVE ListenersKept(o) \/ ListenerDropped(o)
  BY <1>1, <1>2 DEF ListenersKept, ListenerDropped, Closed, TypeOK
<1> QED BY <1>3, KeptHeld

LEMMA ThreadStepPorts ==
    ASSUME TypeOK, Placed, ListenerInv, NEW t \in Threads, ThreadStep(t),
           NEW s \in Slots, thread[t].slot = s
    PROVE  ListenerInv'
<1>1. rt[s] \in RuntimeRec
  BY DEF TypeOK
<1>2. thread[t].pc # "repair"
  BY DEF ThreadStep, StopLock, StopBump, StopClose, StopRoute, StopJoin, RedialDecide, ConnectDecide,
     EnableWrite, DisableWrite, ConfigureRead, ConfigureWrite, Start, StartLock, StartLaunch
<1>3. thread'[t].pc # "repair" /\ \A u \in Threads \ {t} : thread'[u] = thread[u]
  <2> USE DEF TypeOK, ThreadRec
  <2>1. CASE StopLock(t)
    BY <2>1 DEF StopLock
  <2>2. CASE StopRoute(t)
    BY <2>2 DEF StopRoute
  <2>3. CASE ConnectDecide(t)
    BY <2>3 DEF ConnectDecide
  <2>4. CASE ConfigureRead(t)
    BY <2>4 DEF ConfigureRead
  <2>5. ASSUME NEW step, StepTo(t, step), step # "repair"
        PROVE  thread'[t].pc # "repair" /\ \A u \in Threads \ {t} : thread'[u] = thread[u]
    BY <2>5 DEF StepTo
  <2>6. ASSUME Done(t)
        PROVE  thread'[t].pc # "repair" /\ \A u \in Threads \ {t} : thread'[u] = thread[u]
    BY <2>6 DEF Done, IdleThread
  <2>7. CASE StopBump(t) \/ StopClose(t) \/ RedialDecide(t) \/ EnableWrite(t) \/ DisableWrite(t) \/ StartLaunch(t)
    BY <2>5, <2>6, <2>7 DEF StopBump, StopClose, RedialDecide, EnableWrite, DisableWrite, StartLaunch
  <2>8. CASE StopJoin(t)
    <3>1. thread[t].op # "repair"
      BY DEF ThreadOps
    <3> QED BY <2>8, <3>1 DEF StopJoin
  <2>9. CASE ConfigureWrite(t)
    BY <2>9 DEF ConfigureWrite, IdleThread
  <2>10. CASE Start(t) \/ StartLock(t)
    <3>1. ASSUME NEW step, NEW j, step # "repair",
                 thread' = [thread EXCEPT ![t] = [@ EXCEPT !.pc = step, !.join = j]]
          PROVE  thread'[t].pc # "repair" /\ \A u \in Threads \ {t} : thread'[u] = thread[u]
      BY <3>1
    <3>2. \/ Done(t)
          \/ thread' = [thread EXCEPT ![t] = [@ EXCEPT !.pc = "startJoin", !.join = rt[s].worker]]
          \/ thread' = [thread EXCEPT ![t] = [@ EXCEPT !.pc = "startLaunch", !.join = None]]
      BY <2>10 DEF Start, StartLock
    <3> QED BY <2>6, <3>1, <3>2
  <2> QED BY <2>1, <2>2, <2>3, <2>4, <2>7, <2>8, <2>9, <2>10 DEF ThreadStep
<1>4. \A w \in Workers : worker[w].pc \in {"probe", "write", "publish"}
                            => worker'[w].pc = worker[w].pc /\ worker'[w].slot = worker[w].slot
  <2>1. CASE StartLaunch(t)
    <3>1. PICK w \in Workers : /\ worker[w].pc = "done"
                               /\ worker' = [worker EXCEPT ![w] = [pc |-> "dial", slot |-> s, node |-> None]]
      BY <2>1 DEF StartLaunch, Unborn
    <3> QED BY <3>1 DEF TypeOK
  <2> QED BY <2>1 DEF ThreadStep, StopLock, StopBump, StopClose, StopRoute, StopJoin, RedialDecide,
        ConnectDecide, EnableWrite, DisableWrite, ConfigureRead, ConfigureWrite, Start, StartLock
<1>5. ASSUME NEW r, rt' = [rt EXCEPT ![s] = r], r.listener = rt[s].listener
      PROVE  \A o \in Slots : rt'[o].listener = rt[o].listener
  BY <1>5 DEF TypeOK
<1>6. CASE StopClose(t)
  <2>1. rt'[s].listener = None /\ \A o \in Slots \ {s} : rt'[o] = rt[o]
    BY <1>6 DEF StopClose, TypeOK, RuntimeRec
  <2> QED BY <1>2, <1>3, <1>4, <1>6, <2>1, ThreadPorts DEF StopClose
<1>7. CASE StartLock(t)
  <2>1. CASE UNCHANGED <<rt, port>>
    BY <1>2, <1>3, <1>4, <2>1, ThreadPorts
  <2>2. CASE /\ rt' = [rt EXCEPT ![s] = [@ EXCEPT !.lock = t, !.worker = None, !.timer = FALSE,
                                      !.listener = None, !.stop = FALSE, !.dialing = FALSE]]
             /\ port' = Closed(s, rt[s].listener)
    <3>1. rt'[s].listener = None /\ \A o \in Slots \ {s} : rt'[o] = rt[o]
      BY <2>2 DEF TypeOK, RuntimeRec
    <3> QED BY <1>2, <1>3, <1>4, <2>2, <3>1, ThreadPorts
  <2> QED BY <1>7, <2>1, <2>2 DEF StartLock
<1>8. CASE ~StopClose(t) /\ ~StartLock(t)
  <2>1. port' = port
    BY <1>8 DEF ThreadStep, StopLock, StopBump, StopRoute, StopJoin, RedialDecide, ConnectDecide,
       EnableWrite, DisableWrite, ConfigureRead, ConfigureWrite, Start, StartLaunch
  <2>2. \A o \in Slots : rt'[o].listener = rt[o].listener
    <3>1. CASE UNCHANGED rt
      BY <3>1
    <3>2. CASE StopLock(t) \/ StopBump(t) \/ StopRoute(t)
      BY <1>1, <1>5, <3>2 DEF StopLock, StopBump, StopRoute, RuntimeRec
    <3>3. CASE StopJoin(t) \/ ConnectDecide(t)
      BY <1>1, <1>5, <3>1, <3>3 DEF StopJoin, ConnectDecide, RuntimeRec
    <3>4. CASE StartLaunch(t)
      <4>1. PICK w \in Workers : rt' = [rt EXCEPT ![s] = [@ EXCEPT !.worker = w, !.lock = None]]
        BY <3>4 DEF StartLaunch
      <4> QED BY <1>1, <1>5, <4>1 DEF RuntimeRec
    <3> QED BY <1>8, <3>1, <3>2, <3>3, <3>4 DEF ThreadStep, RedialDecide, EnableWrite, DisableWrite,
            ConfigureRead, ConfigureWrite, Start
  <2> QED BY <1>2, <1>3, <1>4, <2>1, <2>2, ThreadPorts
<1> QED BY <1>6, <1>7, <1>8

\* Only Inspect opens a listener outside of a worker, and only on a free port.
LEMMA WatchdogPorts ==
    ASSUME TypeOK, LockHeld, ListenerInv, WatchdogStep,
           NEW s \in Slots, thread[Watchdog].slot = s
    PROVE  ListenerInv'
<1>1. Watchdog \in Threads /\ rt[s] \in RuntimeRec /\ thread[Watchdog] \in ThreadRec
  BY DEF Threads, TypeOK
<1>2. ASSUME Done(Watchdog) \/ \E step \in {"confirm", "start"} : StepTo(Watchdog, step)
      PROVE  thread'[Watchdog].pc # "repair" /\ \A u \in Threads \ {Watchdog} : thread'[u] = thread[u]
  BY <1>1, <1>2 DEF Done, StepTo, IdleThread, TypeOK, ThreadRec
<1>3. CASE Inspect
  <2>1. thread[Watchdog].pc = "inspect" /\ worker' = worker
    BY <1>3 DEF Inspect
  <2>2. CASE UNCHANGED <<rt, port>> /\ (WatchdogQuits \/ StepTo(Watchdog, "confirm"))
    <3>1. Done(Watchdog) \/ StepTo(Watchdog, "confirm")
      BY <2>2 DEF WatchdogQuits
    <3> QED BY <1>1, <1>2, <2>1, <2>2, <3>1, ThreadPorts
  <2>3. CASE /\ Closed(s, rt[s].listener)[s] = None
             /\ port' = [port EXCEPT ![s] = Repaired]
             /\ rt' = [rt EXCEPT ![s] = [@ EXCEPT !.listener = None, !.lock = Watchdog]]
             /\ StepTo(Watchdog, "repair")
    <3>1. /\ port'[s] = Repaired /\ rt'[s].listener = None
          /\ \A o \in Slots \ {s} : port'[o] = port[o] /\ rt'[o] = rt[o]
      BY <1>1, <2>3 DEF TypeOK, RuntimeRec
    <3>2. Repairs(s)' /\ \A o \in Slots \ {s} : ~Repairs(o) /\ ~Repairs(o)'
      BY <1>1, <2>1, <2>3 DEF StepTo, TypeOK, ThreadRec, Repairs
    <3>3. PortHeld(s)' /\ RepairFirst(s)'
      BY <3>1, <3>2 DEF PortHeld, RepairFirst
    <3>4. \A o \in Slots \ {s} : PortHeld(o)' /\ RepairFirst(o)'
      BY <2>1, <3>1, <3>2 DEF ListenerInv, PortHeld, RepairFirst, Prepared
    <3> QED BY <3>3, <3>4 DEF ListenerInv
  <2>4. CASE /\ Closed(s, rt[s].listener)[s] # None /\ UNCHANGED port
             /\ rt' = [rt EXCEPT ![s].listener = None] /\ WatchdogQuits
    <3>1. rt'[s].listener = None /\ \A o \in Slots \ {s} : rt'[o] = rt[o]
      BY <1>1, <2>4 DEF TypeOK, RuntimeRec
    <3>2. \A o \in Slots : ~Repairs(o) /\ ~Repairs(o)'
      BY <1>1, <1>2, <2>1, <2>4 DEF Repairs, WatchdogQuits
    <3>3. port[s] # rt[s].listener
      BY <2>4 DEF Closed, TypeOK
    <3> QED BY <2>1, <2>4, <3>1, <3>2, <3>3 DEF ListenerInv, PortHeld, RepairFirst, Prepared
  <2> QED BY <1>3, <2>2, <2>3, <2>4 DEF Inspect
<1>4. CASE Repair
  <2>1. thread[Watchdog].pc = "repair" /\ worker' = worker /\ Repairs(s)
    BY <1>4 DEF Repair, Repairs
  <2>2. \A o \in Slots : ~Repairs(o)' /\ (o # s => ~Repairs(o))
    BY <1>1, <1>2, <1>4 DEF Repair, Repairs, WatchdogQuits
  <2>3. PortHeld(s) /\ rt[s].listener = None
    BY <2>1 DEF ListenerInv, RepairFirst
  <2>4. PortHeld(s)'
    <3>1. CASE Stale(Watchdog)
      <4>1. rt'[s].listener = None /\ port'[s] = IF port[s] = Repaired THEN None ELSE port[s]
        BY <1>1, <1>4, <2>3, <3>1 DEF Repair, Closed, TypeOK, RuntimeRec
      <4> QED BY <2>1, <2>3, <4>1 DEF PortHeld, Prepared
    <3>2. CASE ~Stale(Watchdog)
      <4>1. rt'[s].listener = Repaired /\ port' = port
        <5>1. rt' = [rt EXCEPT ![s] = [@ EXCEPT !.lock = None, !.listener = Repaired]] /\ port' = port
          BY <1>4, <3>2 DEF Repair
        <5> QED BY <5>1 DEF TypeOK, RuntimeRec
      <4> QED BY <2>1, <2>3, <4>1 DEF PortHeld, Prepared
    <3> QED BY <3>1, <3>2
  <2>5. \A o \in Slots \ {s} : port'[o] = port[o] /\ rt'[o] = rt[o]
    BY <1>4 DEF Repair, Closed, TypeOK
  <2>6. \A o \in Slots \ {s} : PortHeld(o)'
    BY <2>1, <2>2, <2>5 DEF ListenerInv, PortHeld, Prepared
  <2> QED BY <2>2, <2>4, <2>6 DEF ListenerInv, RepairFirst
<1>5. CASE ConfirmRedial
  <2>1. thread[Watchdog].pc = "confirm" /\ worker' = worker /\ port' = port
    BY <1>5 DEF ConfirmRedial
  <2>2. \A o \in Slots : rt'[o].listener = rt[o].listener
    <3>1. CASE UNCHANGED rt
      BY <3>1
    <3>2. ASSUME NEW p, rt' = [rt EXCEPT ![s] = [@ EXCEPT !.preferred = p]]
          PROVE  \A o \in Slots : rt'[o].listener = rt[o].listener
      BY <1>1, <3>2 DEF TypeOK, RuntimeRec
    <3> QED BY <1>5, <3>1, <3>2 DEF ConfirmRedial
  <2>3. thread'[Watchdog].pc # "repair" /\ \A u \in Threads \ {Watchdog} : thread'[u] = thread[u]
    <3>1. CASE Done(Watchdog)
      BY <1>2, <3>1
    <3>2. CASE thread' = [thread EXCEPT ![Watchdog] =
                 [IdleThread EXCEPT !.pc = "stopLock", !.op = "autoRedial", !.slot = s]]
      BY <1>1, <3>2 DEF IdleThread, TypeOK
    <3> QED BY <1>5, <3>1, <3>2 DEF ConfirmRedial
  <2> QED BY <1>1, <2>1, <2>2, <2>3, ThreadPorts
<1>6. CASE Revive
  <2>1. thread[Watchdog].pc = "revive" /\ worker' = worker /\ UNCHANGED <<port, rt>>
    BY <1>6 DEF Revive
  <2>2. Done(Watchdog) \/ StepTo(Watchdog, "start")
    BY <1>6 DEF Revive, WatchdogQuits
  <2> QED BY <1>1, <1>2, <2>1, <2>2, ThreadPorts
<1> QED BY <1>3, <1>4, <1>5, <1>6 DEF WatchdogStep

\* Requests and scans begin for a slot, timers drop what the failed worker left,
\* a listener may die.
LEMMA OtherPorts ==
    ASSUME TypeOK, ListenerInv,
           \/ \E u \in Users, s \in Slots : UserRequest(u, s)
           \/ \E s \in Slots : WatchdogScan(s) \/ RetryFires(s)
           \/ Fault \/ \E n \in Nodes : CoolDown(n)
           \/ UNCHANGED vars
    PROVE  ListenerInv'
<1>1. ASSUME UNCHANGED <<rt, port, worker>>, NEW t \in Threads, thread[t].pc = "idle",
             NEW r, r.pc # "repair", thread' = [thread EXCEPT ![t] = r]
      PROVE  ListenerInv'
  <2>1. thread'[t].pc # "repair" /\ \A u \in Threads \ {t} : thread'[u] = thread[u]
    BY <1>1 DEF TypeOK
  <2> QED BY <1>1, <2>1, ThreadPorts
<1>2. ASSUME NEW u \in Users, NEW s \in Slots, UserRequest(u, s) PROVE ListenerInv'
  <2>1. PICK op, n, step : Request(u, op, s, n, step) /\ step # "repair"
    BY <1>2 DEF UserRequest, RequestRedial, RequestConnect, RequestDisable, RequestEnable, RequestConfigure
  <2> DEFINE r == [IdleThread EXCEPT !.pc = step, !.op = op, !.slot = s, !.node = n]
  <2>2. r.pc # "repair" /\ u \in Threads
    BY <2>1 DEF IdleThread, Threads
  <2>3. UNCHANGED <<rt, port, worker>> /\ thread[u].pc = "idle" /\ thread' = [thread EXCEPT ![u] = r]
    BY <2>1 DEF Request
  <2> HIDE DEF r
  <2> QED BY <1>1, <2>2, <2>3
<1>3. ASSUME NEW s \in Slots, WatchdogScan(s) PROVE ListenerInv'
  <2>1. Watchdog \in Threads
    BY DEF Threads
  <2> QED BY <1>1, <1>3, <2>1 DEF WatchdogScan, RecoverIdle, RecoverStale, ReviveScan, IdleThread
<1>4. ASSUME NEW s \in Slots, RetryFires(s) PROVE ListenerInv'
  <2>1. \A v \in Workers : worker[v].pc # "done" => worker'[v] = worker[v]
    BY <1>4 DEF RetryFires, Unborn, TypeOK
  <2>2. \A o \in Slots : /\ Repairs(o)' <=> Repairs(o)
                         /\ \A v \in Workers : Prepared(v, o) => Prepared(v, o)'
    BY <1>4, <2>1 DEF RetryFires, Repairs, Prepared
  <2>3. CASE port' = port /\ rt' = [rt EXCEPT ![s].timer = FALSE]
    <3>1. \A o \in Slots : rt'[o].listener = rt[o].listener
      BY <2>3 DEF TypeOK, RuntimeRec
    <3> QED BY <2>2, <2>3, <3>1, KeptHeld DEF ListenersKept
  <2>4. CASE /\ port' = Closed(s, rt[s].listener)
             /\ \E w \in Workers : rt' = [rt EXCEPT ![s] = [@ EXCEPT !.timer = FALSE, !.listener = None,
                                            !.stop = FALSE, !.dialing = FALSE, !.worker = w]]
    <3>1. ListenerDropped(s)
      BY <2>2, <2>4 DEF TypeOK, RuntimeRec, ListenerDropped, Closed
    <3>2. \A o \in Slots \ {s} : ListenersKept(o)
      BY <2>2, <2>4 DEF TypeOK, ListenersKept, Closed
    <3> QED BY <3>1, <3>2, KeptHeld
  <2> QED BY <1>4, <2>3, <2>4 DEF RetryFires
<1>5. CASE \/ \E w \in Workers : ProcessDies(w)
           \/ \E n \in Nodes : CoolDown(n)
           \/ UNCHANGED vars
  BY <1>5, KeptHeld DEF ProcessDies, CoolDown, vars, ListenersKept, Prepared, Repairs
<1>6. ASSUME NEW s \in Slots, ListenerDies(s) PROVE ListenerInv'
  <2>1. \A o \in Slots : port'[o] \in {port[o], None}
    BY <1>6 DEF ListenerDies, TypeOK
  <2> QED BY <1>6, <2>1, KeptHeld DEF ListenerDies, ListenersKept, Prepared, Repairs
<1> QED BY <1>2, <1>3, <1>4, <1>5, <1>6 DEF Fault

LEMMA NextPorts ==
    ASSUME OwnerInv, ListenerInv, [Next]_vars
    PROVE  ListenerInv'
<1>1. TypeOK /\ Placed /\ LockHeld
  BY DEF OwnerInv
<1>2. ASSUME NEW w \in Workers, WorkerStep(w) PROVE ListenerInv'
  <2>1. worker[w].pc # "done"
    BY <1>2 DEF WorkerStep, DialCheck, AcquireDial, TakePreferred, ReserveNode, CheckBeforeSpawn,
       Spawn, Adopt, AwaitTunnel, InstallRoutes, VerifyEgress, OpenListener, CommitCheck, CommitWrite,
       Publish, HealthCheck, ProbeOutcome, ExceptHandler, HandleFailure, RecordFailure, Teardown,
       ScheduleRetry, Finally, Cleanup, Reclaim, Disown
  <2>2. worker[w].slot \in Slots
    BY <1>1, <2>1 DEF Placed
  <2> QED BY <1>1, <1>2, <2>2, WorkerStepPorts
<1>3. ASSUME NEW t \in Threads, ThreadStep(t) PROVE ListenerInv'
  <2>1. thread[t].pc # "idle"
    BY <1>3 DEF ThreadStep, StopLock, StopBump, StopClose, StopRoute, StopJoin, RedialDecide,
       ConnectDecide, EnableWrite, DisableWrite, ConfigureRead, ConfigureWrite, Start, StartLock, StartLaunch
  <2>2. thread[t].slot \in Slots
    BY <1>1, <2>1 DEF Placed
  <2> QED BY <1>1, <1>3, <2>2, ThreadStepPorts
<1>4. CASE WatchdogStep
  <2>1. thread[Watchdog].slot \in Slots
    BY <1>1, <1>4 DEF Placed, Threads, WatchdogStep, Inspect, Repair, ConfirmRedial, Revive
  <2> QED BY <1>1, <1>4, <2>1, WatchdogPorts
<1> QED BY <1>1, <1>2, <1>3, <1>4, OtherPorts DEF Next

\* A bound SOCKS port is never orphaned: it is the runtime's listener, or a
\* worker between opening and commit_ready's last step, or the watchdog inside
\* _repair_listener, still holds the one who bound it.
THEOREM ListenerNeverLost == Spec => []NoLostListener
<1>1. Init => OwnerInv /\ ListenerInv
  <2>1. Init => ListenerInv
    BY DEF Init, ListenerInv, PortHeld, RepairFirst, Repairs, IdleThread, Threads
  <2> QED BY <2>1, InitOwners
<1>2. OwnerInv /\ ListenerInv /\ [Next]_vars => (OwnerInv /\ ListenerInv)'
  BY NextOwners, NextPorts
<1>3. ListenerInv => NoLostListener
  BY DEF ListenerInv, PortHeld, NoLostListener, Prepared, Repairs
<1> QED BY <1>1, <1>2, <1>3, PTL DEF Spec

-----------------------------------------------------------------------------
(* The leases: ExitSlots implements SlotLease *)

\* What a step may do to the owners of the slots: leave them alone, withdraw
\* those of slot s, or give slot s, which had none, to an idle worker.
OwnersKept == \A s \in Slots : Owners(s)' = Owners(s)

OwnersLost(s) == /\ Owners(s)' = {}
                 /\ \A o \in Slots \ {s} : Owners(o)' = Owners(o)

OwnerGained(s, w) == /\ Owners(s) = {} /\ Owners(s)' = {w}
                     /\ \A o \in Slots \ {s} : Owners(o)' = Owners(o)
                     /\ \A o \in Slots : w \notin Owners(o)
                     /\ worker[w].pc = "done"

\* What it may do to the entries in the rows.
EntriesKept == \A s \in Slots : row'[s].entry = row[s].entry

EntryWritten(s, n) == /\ row'[s].entry = n
                      /\ \A o \in Slots \ {s} : row'[o].entry = row[o].entry

\* A current worker in the dial section writes its node into the row.
Committed(s, n) == /\ OwnersKept /\ Keeps /\ EntryWritten(s, n)
                   /\ Owners(s) # {} /\ Owners(s) \subseteq Dialing

-----------------------------------------------------------------------------
(* Each of these is a step of SlotLease, or none *)

LEMMA DialingKept == ASSUME Keeps PROVE Dialing' = Dialing
BY DEF Keeps, Dialing

LEMMA PermitStep ==
    ASSUME TypeOK, DialPermitsBalanced, OwnersKept, EntriesKept,
           Keeps \/ \E w \in Workers : Enters(w) \/ Leaves(w)
    PROVE  [Lease!LeaseNext]_(Lease!leaseVars)
<1>1. /\ [s \in Slots |-> Owners(s)]' = [s \in Slots |-> Owners(s)]
      /\ [s \in Slots |-> row[s].entry]' = [s \in Slots |-> row[s].entry]
  BY DEF OwnersKept, EntriesKept
<1>2. CASE Keeps
  BY <1>1, <1>2, DialingKept DEF Lease!leaseVars
<1>3. ASSUME NEW w \in Workers, Enters(w)
      PROVE  Lease!LeaseNext
  <2>1. Dialing' = Dialing \cup {w}
    BY <1>3 DEF Enters, OnlyMoves, Dialing
  <2>2. Cardinality(Dialing) < DialPermits
    <3>1. Cardinality(Dialing) \in Nat /\ permits \in Nat /\ permits > 0
      BY <1>3, DialingFinite, FS_CardinalityType DEF TypeOK, Enters
    <3>2. permits + Cardinality(Dialing) = DialPermits
      BY DEF DialPermitsBalanced
    <3> QED BY <3>1, <3>2
  <2>3. Lease!Cardinality(Dialing) < DialPermits
    BY <2>2 DEF Cardinality, Lease!Cardinality
  <2>4. Lease!Admit(w)
    BY <1>1, <2>1, <2>3 DEF Lease!Admit
  <2> QED BY <2>4 DEF Lease!LeaseNext
<1>4. ASSUME NEW w \in Workers, Leaves(w)
      PROVE  Lease!LeaseNext
  <2>1. Dialing' = Dialing \ {w}
    BY <1>4 DEF Leaves, OnlyMoves, Dialing
  <2>2. Lease!Return(w)
    BY <1>1, <2>1 DEF Lease!Return
  <2> QED BY <2>2 DEF Lease!LeaseNext
<1> QED BY <1>2, <1>3, <1>4

LEMMA LossStep ==
    ASSUME NEW s \in Slots, OwnersLost(s), Keeps,
           EntriesKept \/ EntryWritten(s, None)
    PROVE  [Lease!LeaseNext]_(Lease!leaseVars)
<1>1. [o \in Slots |-> Owners(o)]' = [[o \in Slots |-> Owners(o)] EXCEPT ![s] = {}]
  BY DEF OwnersLost
<1>2. \/ [o \in Slots |-> row[o].entry]' = [o \in Slots |-> row[o].entry]
      \/ [o \in Slots |-> row[o].entry]' = [[o \in Slots |-> row[o].entry] EXCEPT ![s] = None]
  BY DEF EntriesKept, EntryWritten
<1>3. Dialing' = Dialing
  BY DialingKept
<1>4. CASE Owners(s) # {}
  <2>1. Lease!Withdraw(s)
    BY <1>1, <1>2, <1>3, <1>4 DEF Lease!Withdraw
  <2> QED BY <2>1 DEF Lease!LeaseNext
<1>5. CASE Owners(s) = {}
  <2>1. [o \in Slots |-> Owners(o)]' = [o \in Slots |-> Owners(o)]
    BY <1>5 DEF OwnersLost
  <2>2. Lease!Forget(s) \/ UNCHANGED Lease!leaseVars
    BY <1>2, <1>3, <1>5, <2>1 DEF Lease!Forget, Lease!leaseVars
  <2> QED BY <2>2 DEF Lease!LeaseNext
<1> QED BY <1>4, <1>5

LEMMA GainStep ==
    ASSUME NEW s \in Slots, NEW w \in Workers, OwnerGained(s, w), Keeps, EntriesKept
    PROVE  Lease!LeaseNext
<1>1. [o \in Slots |-> Owners(o)]' = [[o \in Slots |-> Owners(o)] EXCEPT ![s] = {w}]
  BY DEF OwnerGained
<1>2. [o \in Slots |-> row[o].entry]' = [o \in Slots |-> row[o].entry]
  BY DEF EntriesKept
<1>3. Dialing' = Dialing /\ w \notin Dialing
  BY DialingKept DEF OwnerGained, Dialing, DialSteps
<1>4. Lease!Grant(s, w)
  BY <1>1, <1>2, <1>3 DEF Lease!Grant, OwnerGained
<1> QED BY <1>4 DEF Lease!LeaseNext

LEMMA CommitStep ==
    ASSUME NEW s \in Slots, NEW n \in Nodes, Committed(s, n)
    PROVE  Lease!LeaseNext
<1>1. [o \in Slots |-> Owners(o)]' = [o \in Slots |-> Owners(o)]
  BY DEF Committed, OwnersKept
<1>2. [o \in Slots |-> row[o].entry]' = [[o \in Slots |-> row[o].entry] EXCEPT ![s] = n]
  BY DEF Committed, EntryWritten
<1>3. Dialing' = Dialing
  BY DialingKept DEF Committed
<1>4. Lease!Commit(s, n)
  BY <1>1, <1>2, <1>3 DEF Lease!Commit, Committed
<1> QED BY <1>4 DEF Lease!LeaseNext

-----------------------------------------------------------------------------
(* The steps of a connection worker *)

\* A worker that holds a node got it from the selection.
NodeChosen == \A w \in Workers : worker[w].pc \in HoldsNode => worker[w].node \in Nodes

LeaseInv == OwnerInv /\ DialPermitsBalanced /\ NodeChosen

LEMMA SameOwners ==
    ASSUME \A v \in Workers : /\ worker'[v].slot = worker[v].slot
                              /\ worker'[v].pc = "schedule" <=> worker[v].pc = "schedule",
           \A v \in Workers : v \in fresh' <=> v \in fresh
    PROVE  OwnersKept
BY DEF OwnersKept, Owners

LEMMA GotoEffect ==
    ASSUME TypeOK, NEW w \in Workers, NEW step, Goto(w, step)
    PROVE  /\ worker'[w].pc = step
           /\ \A v \in Workers : /\ worker'[v].slot = worker[v].slot
                                 /\ worker'[v].node = worker[v].node
           /\ \A v \in Workers \ {w} : worker'[v].pc = worker[v].pc
BY DEF Goto, TypeOK, WorkerRec

LEMMA GotoOwners ==
    ASSUME TypeOK, NEW w \in Workers, NEW step, Goto(w, step),
           worker[w].pc # "schedule", step # "schedule", fresh' = fresh
    PROVE  OwnersKept
BY GotoEffect, SameOwners

\* A row that changes in other fields keeps its entry.
LEMMA SameEntry ==
    ASSUME TypeOK, NEW s \in Slots, NEW r, r.entry = row[s].entry,
           row' = [row EXCEPT ![s] = r]
    PROVE  EntriesKept
BY DEF TypeOK, EntriesKept

LEMMA NewEntry ==
    ASSUME TypeOK, NEW s \in Slots, NEW r, row' = [row EXCEPT ![s] = r]
    PROVE  EntryWritten(s, r.entry)
BY DEF TypeOK, EntryWritten

LEMMA OnlyOwner ==
    ASSUME OwnerInv, NEW s \in Slots, NEW w \in Owners(s)
    PROVE  Owners(s) = {w}
BY DEF OwnerInv, OwnerAttends

\* Worker w no longer is an owner: its slot is without one.
LEMMA WorkerLeaves ==
    ASSUME OwnerInv, NEW s \in Slots, NEW w \in Workers, worker[w].slot = s,
           \A o \in Slots : Owners(o)' = Owners(o) \ {w}
    PROVE  OwnersKept \/ OwnersLost(s)
<1>1. \A o \in Slots \ {s} : w \notin Owners(o)
  BY DEF Owners
<1>2. CASE w \in Owners(s)
  <2>1. Owners(s)' = {}
    BY <1>2, OnlyOwner
  <2> QED BY <1>1, <2>1 DEF OwnersLost
<1>3. CASE w \notin Owners(s)
  BY <1>1, <1>3 DEF OwnersKept
<1> QED BY <1>2, <1>3

LEMMA CommitWriteLease ==
    ASSUME LeaseInv, NEW w \in Workers, CommitWrite(w)
    PROVE  [Lease!LeaseNext]_(Lease!leaseVars)
<1>s. PICK s \in Slots : s = worker[w].slot
  BY DEF LeaseInv, OwnerInv, Placed, CommitWrite
<1>0. TypeOK /\ s = worker[w].slot /\ worker[w].pc = "write"
  BY <1>s DEF LeaseInv, OwnerInv, CommitWrite
<1>1. Keeps \/ Leaves(w)
  BY <1>0, WorkerStepPermits, GotoKeeps, LeaveDialLeaves DEF CommitWrite, DialSteps
<1>2. OwnersKept
  BY <1>0, GotoOwners DEF CommitWrite, LeaveDial
<1>3. CASE w \notin fresh
  <2>1. EntriesKept
    BY <1>3 DEF CommitWrite, EntriesKept
  <2> QED BY <1>0, <1>1, <1>2, <2>1, PermitStep DEF LeaseInv
<1>4. CASE w \in fresh
  <2>1. PICK state \in Serving : row' = [row EXCEPT ![s] =
              [row[s] EXCEPT !.state = state, !.entry = worker[w].node, !.streak = 0]]
    BY <1>0, <1>4 DEF CommitWrite
  <2>2. EntryWritten(s, worker[w].node)
    <3> DEFINE r == [row[s] EXCEPT !.state = state, !.entry = worker[w].node, !.streak = 0]
    <3>1. r.entry = worker[w].node
      BY <1>0, RowTyped DEF RowRec
    <3>2. row' = [row EXCEPT ![s] = r]
      BY <2>1
    <3> HIDE DEF r
    <3> QED BY <1>0, <3>1, <3>2, NewEntry
  <2>3. Keeps
    BY <1>0, <1>4, GotoKeeps DEF CommitWrite, DialSteps
  <2>4. w \in Owners(s) /\ w \in Dialing
    BY <1>0, <1>4 DEF Owners, Dialing, DialSteps
  <2>5. Owners(s) = {w}
    BY <1>0, <2>4, OnlyOwner DEF LeaseInv
  <2>6. worker[w].node \in Nodes
    BY <1>0 DEF LeaseInv, NodeChosen, HoldsNode
  <2>7. Committed(s, worker[w].node)
    BY <1>2, <2>2, <2>3, <2>4, <2>5 DEF Committed
  <2> QED BY <1>0, <2>6, <2>7, CommitStep
<1> QED BY <1>3, <1>4

LEMMA RecordFailureLease ==
    ASSUME LeaseInv, NEW w \in Workers, RecordFailure(w)
    PROVE  [Lease!LeaseNext]_(Lease!leaseVars)
<1>s. PICK s \in Slots : s = worker[w].slot
  BY DEF LeaseInv, OwnerInv, Placed, RecordFailure
<1>0. TypeOK /\ s = worker[w].slot /\ worker[w].pc = "record" /\ fresh' = Bumped(s)
      /\ \E step \in {"teardown", "retire"} : Goto(w, step)
      /\ permits' = permits
  BY <1>s DEF LeaseInv, OwnerInv, RecordFailure
<1>1. Keeps
  BY <1>0, GotoKeeps DEF DialSteps
<1>2. OwnersLost(s)
  BY <1>0, GotoEffect DEF OwnersLost, Owners, Bumped, SlotOf
<1>3. EntryWritten(s, None)
  <2> DEFINE streak == IF row[s].streak < FailureLimit THEN row[s].streak + 1 ELSE FailureLimit
             retry == streak < FailureLimit
             r == [enabled |-> retry, state |-> IF retry THEN "failed" ELSE "disabled",
                   reason |-> IF retry THEN "none" ELSE "automatic",
                   streak |-> streak, entry |-> None]
  <2>1. row' = [row EXCEPT ![s] = r]
    BY <1>0 DEF RecordFailure
  <2>2. r.entry = None
    OBVIOUS
  <2> HIDE DEF r
  <2> QED BY <1>0, <2>1, <2>2, NewEntry
<1> QED BY <1>0, <1>1, <1>2, <1>3, LossStep

LEMMA TeardownLease ==
    ASSUME LeaseInv, NEW w \in Workers, Teardown(w)
    PROVE  [Lease!LeaseNext]_(Lease!leaseVars)
<1>s. PICK s \in Slots : s = worker[w].slot
  BY DEF LeaseInv, OwnerInv, Placed, Teardown
<1>0. TypeOK /\ s = worker[w].slot /\ worker[w].pc \in {"teardown", "retire"} /\ permits' = permits
  BY <1>s DEF LeaseInv, OwnerInv, Teardown
<1>1. Keeps
  BY <1>0, GotoKeeps DEF Teardown, DialSteps
<1>2. EntriesKept
  <2>1. [row[s] EXCEPT !.state = "disabled"].entry = row[s].entry
    BY <1>0, RowTyped DEF RowRec
  <2>2. row' = row \/ row' = [row EXCEPT ![s] = [row[s] EXCEPT !.state = "disabled"]]
    BY <1>0 DEF Teardown
  <2> QED BY <1>0, <2>1, <2>2, SameEntry DEF EntriesKept
<1>3. OwnersKept \/ OwnersLost(s)
  <2>1. CASE row[s].enabled
    <3>1. Goto(w, "schedule") /\ fresh' = fresh \cup {w}
      BY <1>0, <2>1 DEF Teardown
    <3>2. \A o \in Slots : Owners(o)' = Owners(o) \ {w}
      BY <1>0, <3>1, GotoEffect DEF Owners
    <3> QED BY <1>0, <3>2, WorkerLeaves DEF LeaseInv
  <2>2. CASE ~row[s].enabled
    BY <1>0, <2>2, GotoOwners DEF Teardown
  <2> QED BY <2>1, <2>2
<1> QED BY <1>0, <1>1, <1>2, <1>3, PermitStep, LossStep DEF LeaseInv

LEMMA DisownLease ==
    ASSUME LeaseInv, NEW w \in Workers, Disown(w)
    PROVE  [Lease!LeaseNext]_(Lease!leaseVars)
<1>s. PICK s \in Slots : s = worker[w].slot
  BY DEF LeaseInv, OwnerInv, Placed, Disown
<1> DEFINE r == [IdleWorker EXCEPT !.slot = IF Running(w) THEN s ELSE None]
<1>0. /\ TypeOK /\ s = worker[w].slot /\ worker[w].pc = "disown" /\ row' = row
      /\ permits' = permits /\ fresh' = fresh \ {w}
  BY <1>s DEF LeaseInv, OwnerInv, Disown
<1>1. worker' = [worker EXCEPT ![w] = r] /\ r.pc = "done"
  BY <1>0 DEF Disown, IdleWorker
<1>2. Keeps
  BY <1>0, <1>1, ReplaceKeeps DEF DialSteps
<1>3. \A o \in Slots : Owners(o)' = Owners(o) \ {w}
  <2>1. \A v \in Workers \ {w} : worker'[v] = worker[v]
    BY <1>0, <1>1 DEF TypeOK
  <2> QED BY <1>0, <2>1 DEF Owners
<1>4. EntriesKept
  BY <1>0 DEF EntriesKept
<1> QED BY <1>0, <1>2, <1>3, <1>4, WorkerLeaves, PermitStep, LossStep DEF LeaseInv

\* A worker that carries a failed row's generation to the timer is no owner.
LEMMA ScheduleRetryLease ==
    ASSUME LeaseInv, NEW w \in Workers, ScheduleRetry(w)
    PROVE  [Lease!LeaseNext]_(Lease!leaseVars)
<1>s. PICK s \in Slots : s = worker[w].slot
  BY DEF LeaseInv, OwnerInv, Placed, ScheduleRetry
<1>0. /\ TypeOK /\ s = worker[w].slot /\ worker[w].pc = "schedule" /\ row' = row
      /\ permits' = permits /\ Goto(w, "finally")
  BY <1>s DEF LeaseInv, OwnerInv, ScheduleRetry
<1>1. Keeps
  BY <1>0, GotoKeeps DEF DialSteps
<1>2. w \notin fresh' /\ \A v \in Workers \ {w} : v \in fresh' <=> v \in fresh
  <2>1. w # s /\ s \notin Workers
    BY <1>0, ExitSlotsAssumption
  <2>2. fresh' = (fresh \ {w, s}) \cup (IF w \in fresh THEN {s} ELSE {})
    BY <1>0 DEF ScheduleRetry
  <2> QED BY <2>1, <2>2
<1>3. OwnersKept
  BY <1>0, <1>2, GotoEffect DEF OwnersKept, Owners
<1>4. EntriesKept
  BY <1>0 DEF EntriesKept
<1> QED BY <1>0, <1>1, <1>3, <1>4, PermitStep DEF LeaseInv

\* TakePreferred and ReserveNode also give the worker a node.
LEMMA NodeOwners ==
    ASSUME TypeOK, NEW w \in Workers, NEW step, NEW n,
           worker' = [worker EXCEPT ![w] = [@ EXCEPT !.pc = step, !.node = n]],
           worker[w].pc # "schedule", step # "schedule", fresh' = fresh
    PROVE  OwnersKept
<1>1. /\ worker'[w].pc = step /\ worker'[w].slot = worker[w].slot
      /\ \A v \in Workers \ {w} : worker'[v] = worker[v]
  BY DEF TypeOK, WorkerRec
<1> QED BY <1>1, SameOwners

LEMMA WorkerStepLease ==
    ASSUME LeaseInv, NEW w \in Workers, WorkerStep(w)
    PROVE  [Lease!LeaseNext]_(Lease!leaseVars)
<1>0. TypeOK /\ (Keeps \/ Enters(w) \/ Leaves(w))
  BY WorkerStepPermits DEF LeaseInv, OwnerInv
<1>1. ASSUME OwnersKept, row' = row
      PROVE  [Lease!LeaseNext]_(Lease!leaseVars)
  <2>1. EntriesKept
    BY <1>1 DEF EntriesKept
  <2> QED BY <1>0, <1>1, <2>1, PermitStep DEF LeaseInv
<1>2. CASE DialCheck(w)
  BY <1>0, <1>1, <1>2, GotoOwners DEF DialCheck
<1>3. CASE AcquireDial(w)
  BY <1>0, <1>1, <1>3, GotoOwners DEF AcquireDial
<1>4. CASE TakePreferred(w)
  BY <1>0, <1>1, <1>4, NodeOwners DEF TakePreferred
<1>5. CASE ReserveNode(w)
  BY <1>0, <1>1, <1>5, NodeOwners DEF ReserveNode
<1>6. CASE CheckBeforeSpawn(w)
  BY <1>0, <1>1, <1>6, GotoOwners DEF CheckBeforeSpawn, LeaveDial
<1>7. CASE Spawn(w)
  BY <1>0, <1>1, <1>7, GotoOwners DEF Spawn
<1>8. CASE Adopt(w)
  BY <1>0, <1>1, <1>8, GotoOwners DEF Adopt, LeaveDial
<1>9. CASE AwaitTunnel(w)
  BY <1>0, <1>1, <1>9, GotoOwners DEF AwaitTunnel, LeaveDial
<1>10. CASE InstallRoutes(w)
  BY <1>0, <1>1, <1>10, GotoOwners DEF InstallRoutes, LeaveDial
<1>11. CASE VerifyEgress(w)
  BY <1>0, <1>1, <1>11, GotoOwners DEF VerifyEgress, LeaveDial
<1>12. CASE OpenListener(w)
  BY <1>0, <1>1, <1>12, GotoOwners DEF OpenListener, LeaveDial
<1>13. CASE CommitCheck(w)
  BY <1>0, <1>1, <1>13, GotoOwners DEF CommitCheck, LeaveDial
<1>14. CASE Publish(w)
  BY <1>0, <1>1, <1>14, GotoOwners DEF Publish, LeaveDial
<1>15. CASE HealthCheck(w)
  BY <1>0, <1>1, <1>15, GotoOwners DEF HealthCheck
<1>16. CASE ProbeOutcome(w)
  <2>1. OwnersKept
    BY <1>0, <1>16, GotoOwners DEF ProbeOutcome
  <2>2. EntriesKept
    <3>1. ASSUME NEW state, row' = [row EXCEPT ![worker[w].slot].state = state]
          PROVE  EntriesKept
      BY <1>0, <3>1 DEF TypeOK, RowRec, EntriesKept
    <3>2. row' = row => EntriesKept
      BY DEF EntriesKept
    <3> QED BY <1>16, <3>1, <3>2 DEF ProbeOutcome
  <2> QED BY <1>0, <2>1, <2>2, PermitStep DEF LeaseInv
<1>17. CASE ExceptHandler(w)
  BY <1>0, <1>1, <1>17, GotoOwners DEF ExceptHandler
<1>18. CASE HandleFailure(w)
  BY <1>0, <1>1, <1>18, GotoOwners DEF HandleFailure
<1>19. CASE Finally(w)
  BY <1>0, <1>1, <1>19, GotoOwners DEF Finally
<1>20. CASE Cleanup(w)
  BY <1>0, <1>1, <1>20, GotoOwners DEF Cleanup
<1>21. CASE Reclaim(w)
  BY <1>0, <1>1, <1>21, GotoOwners DEF Reclaim
<1> QED BY <1>2, <1>3, <1>4, <1>5, <1>6, <1>7, <1>8, <1>9, <1>10, <1>11, <1>12,
           <1>13, <1>14, <1>15, <1>16, <1>17, <1>18, <1>19, <1>20, <1>21,
           CommitWriteLease, RecordFailureLease, TeardownLease, ScheduleRetryLease,
           DisownLease DEF WorkerStep

-----------------------------------------------------------------------------
(* The steps of the other threads *)

\* Nobody's generation changes, nor a row's entry.
LEMMA QuietLease ==
    ASSUME UNCHANGED <<worker, permits>>,
           \A v \in Workers : v \in fresh' <=> v \in fresh, EntriesKept
    PROVE  UNCHANGED Lease!leaseVars
<1>1. Keeps /\ OwnersKept
  BY SameOwners DEF Keeps
<1>2. Dialing' = Dialing
  BY <1>1, DialingKept
<1> QED BY <1>1, <1>2 DEF OwnersKept, EntriesKept, Lease!leaseVars

\* The generation of slot s moves on.
LEMMA BumpLease ==
    ASSUME TypeOK, NEW s \in Slots, UNCHANGED <<worker, permits>>, fresh' = Bumped(s),
           EntriesKept
    PROVE  [Lease!LeaseNext]_(Lease!leaseVars)
<1>1. Keeps /\ OwnersLost(s)
  BY BumpDisowns DEF Keeps, OwnersLost
<1> QED BY <1>1, LossStep

\* A worker is launched for slot s, which has no owner.
LEMMA LaunchLease ==
    ASSUME LeaseInv, NEW s \in Slots, NEW w \in Workers, Owners(s) = {},
           worker[w].pc = "done", permits' = permits,
           worker' = [worker EXCEPT ![w] = [pc |-> "dial", slot |-> s, node |-> None]],
           w \in fresh', \A v \in Workers \ {w} : v \in fresh' <=> v \in fresh,
           EntriesKept
    PROVE  Lease!LeaseNext
<1>0. TypeOK /\ OwnerAttends
  BY DEF LeaseInv, OwnerInv
<1>1. /\ worker'[w].pc = "dial" /\ worker'[w].slot = s
      /\ \A v \in Workers \ {w} : worker'[v] = worker[v]
  BY <1>0 DEF TypeOK
<1>2. Keeps
  BY <1>1 DEF Keeps, DialSteps
<1>3. \A o \in Slots : w \notin Owners(o)
  BY <1>0 DEF OwnerAttends
<1>4. Owners(s)' = {w} /\ \A o \in Slots \ {s} : Owners(o)' = Owners(o)
  BY <1>1, <1>3 DEF Owners
<1>5. OwnerGained(s, w)
  BY <1>3, <1>4 DEF OwnerGained
<1> QED BY <1>2, <1>5, GainStep

\* stop_slot forgets the entry under its lock, after its bump.
LEMMA StopRouteLease ==
    ASSUME LeaseInv, NEW t \in Threads, StopRoute(t)
    PROVE  [Lease!LeaseNext]_(Lease!leaseVars)
<1>s. PICK s \in Slots : s = thread[t].slot
  BY DEF LeaseInv, OwnerInv, Placed, StopRoute
<1> DEFINE r == [row[s] EXCEPT !.state = "idle", !.entry = None]
<1>0. /\ TypeOK /\ LockExcludesOwners /\ s = thread[t].slot /\ thread[t].pc = "stopRoute"
      /\ UNCHANGED <<worker, permits, fresh>>
  BY <1>s DEF LeaseInv, OwnerInv, StopRoute
<1>1. CASE ~thread[t].was
  <2>1. EntriesKept
    BY <1>1 DEF StopRoute, EntriesKept
  <2> QED BY <1>0, <2>1, QuietLease
<1>2. CASE thread[t].was
  <2>1. r.entry = None /\ row' = [row EXCEPT ![s] = r]
    BY <1>0, <1>2, RowTyped DEF RowRec, StopRoute
  <2> HIDE DEF r
  <2>2. EntryWritten(s, None)
    BY <1>0, <2>1, NewEntry
  <2>3. Owners(s) = {}
    BY <1>0, <1>2 DEF LockExcludesOwners
  <2>4. \A o \in Slots : Owners(o)' = Owners(o)
    BY <1>0 DEF Owners
  <2>5. OwnersLost(s)
    BY <1>0, <2>3, <2>4 DEF OwnersLost
  <2>6. Keeps
    BY <1>0 DEF Keeps
  <2> QED BY <1>0, <2>2, <2>5, <2>6, LossStep
<1> QED BY <1>1, <1>2

LEMMA ThreadStepLease ==
    ASSUME LeaseInv, NEW t \in Threads, ThreadStep(t)
    PROVE  [Lease!LeaseNext]_(Lease!leaseVars)
<1>s. PICK s \in Slots : s = thread[t].slot
  BY DEF LeaseInv, OwnerInv, Placed, ThreadStep, StopLock, StopBump, StopClose, StopRoute,
     StopJoin, RedialDecide, ConnectDecide, EnableWrite, DisableWrite, ConfigureRead,
     ConfigureWrite, Start, StartLock, StartLaunch
<1>0. /\ TypeOK /\ LockExcludesOwners /\ t \notin Workers
      /\ s = thread[t].slot /\ s \notin Workers
  BY <1>s, ExitSlotsAssumption DEF LeaseInv, OwnerInv, Threads
<1>1. ASSUME row' = row, UNCHANGED <<worker, permits>>,
             \A v \in Workers : v \in fresh' <=> v \in fresh
      PROVE  UNCHANGED Lease!leaseVars
  BY <1>1, QuietLease DEF EntriesKept
<1>2. ASSUME UNCHANGED <<worker, permits>>, fresh' = Bumped(s), NEW e, NEW st, NEW k, NEW rs,
             row' = [row EXCEPT ![s] = [@ EXCEPT !.enabled = e, !.state = st,
                                        !.streak = k, !.reason = rs]]
      PROVE  [Lease!LeaseNext]_(Lease!leaseVars)
  <2> DEFINE r == [row[s] EXCEPT !.enabled = e, !.state = st, !.streak = k, !.reason = rs]
  <2>1. r.entry = row[s].entry /\ row' = [row EXCEPT ![s] = r]
    BY <1>0, <1>2, RowTyped DEF RowRec
  <2> HIDE DEF r
  <2> QED BY <1>0, <1>2, <2>1, SameEntry, BumpLease
<1>3. ASSUME UNCHANGED <<worker, permits>>, fresh' = Bumped(s), NEW e, NEW st, NEW rs,
             row' = [row EXCEPT ![s] = [@ EXCEPT !.enabled = e, !.state = st, !.reason = rs]]
      PROVE  [Lease!LeaseNext]_(Lease!leaseVars)
  <2> DEFINE r == [row[s] EXCEPT !.enabled = e, !.state = st, !.reason = rs]
  <2>1. r.entry = row[s].entry /\ row' = [row EXCEPT ![s] = r]
    BY <1>0, <1>3, RowTyped DEF RowRec
  <2> HIDE DEF r
  <2> QED BY <1>0, <1>3, <2>1, SameEntry, BumpLease
<1>4. ASSUME UNCHANGED <<worker, permits>>, fresh' = Bumped(s), row' = row
      PROVE  [Lease!LeaseNext]_(Lease!leaseVars)
  BY <1>0, <1>4, BumpLease DEF EntriesKept
<1>5. CASE StopLock(t)
  BY <1>0, <1>1, <1>5 DEF StopLock
<1>6. CASE StopBump(t)
  <2>1. CASE thread[t].was
    <3>1. fresh' = Bumped(s) /\ UNCHANGED <<worker, permits>>
      BY <1>0, <1>6, <2>1 DEF StopBump
    <3>2. CASE row[s].enabled
      BY <1>0, <1>4, <1>6, <2>1, <3>1, <3>2 DEF StopBump
    <3>3. CASE ~row[s].enabled
      <4>1. row' = [row EXCEPT ![s] = [@ EXCEPT !.enabled = TRUE, !.state = "idle",
                                                !.reason = "none"]]
        BY <1>0, <1>6, <2>1, <3>3 DEF StopBump
      <4> QED BY <1>3, <3>1, <4>1
    <3> QED BY <3>2, <3>3
  <2>2. CASE ~thread[t].was
    <3>1. row' = row /\ fresh' = fresh \ {s} /\ UNCHANGED <<worker, permits>>
      BY <1>0, <1>6, <2>2 DEF StopBump
    <3>2. \A v \in Workers : v \in fresh' <=> v \in fresh
      BY <1>0, <3>1
    <3> QED BY <1>1, <3>1, <3>2
  <2> QED BY <2>1, <2>2
<1>7. CASE StopClose(t)
  BY <1>0, <1>1, <1>7 DEF StopClose
<1>8. CASE StopJoin(t)
  BY <1>0, <1>1, <1>8 DEF StopJoin
<1>9. CASE RedialDecide(t)
  <2>1. CASE row' = row
    BY <1>0, <1>1, <1>9, <2>1, <1>4 DEF RedialDecide
  <2>2. CASE row' = EnabledRow(s) /\ fresh' = Bumped(s)
    BY <1>0, <1>2, <1>9, <2>2 DEF RedialDecide, EnabledRow
  <2> QED BY <1>0, <1>9, <2>1, <2>2 DEF RedialDecide
<1>10. CASE ConnectDecide(t)
  <2>1. CASE row[s].enabled
    BY <1>0, <1>1, <1>10, <2>1 DEF ConnectDecide
  <2>2. CASE ~row[s].enabled
    <3>1. /\ row' = [row EXCEPT ![s] = [@ EXCEPT !.enabled = TRUE, !.state = "idle",
                                                !.reason = "none"]]
          /\ fresh' = Bumped(s) /\ UNCHANGED <<worker, permits>>
      BY <1>0, <1>10, <2>2 DEF ConnectDecide
    <3> QED BY <1>3, <3>1
  <2> QED BY <2>1, <2>2
<1>11. CASE EnableWrite(t)
  BY <1>0, <1>2, <1>11 DEF EnableWrite, EnabledRow
<1>12. CASE DisableWrite(t)
  BY <1>0, <1>3, <1>12 DEF DisableWrite
<1>13. CASE ConfigureRead(t)
  BY <1>0, <1>1, <1>13 DEF ConfigureRead
<1>14. CASE ConfigureWrite(t)
  BY <1>0, <1>3, <1>14 DEF ConfigureWrite
<1>15. CASE Start(t)
  BY <1>0, <1>1, <1>15 DEF Start
<1>16. CASE StartLock(t)
  BY <1>0, <1>1, <1>16 DEF StartLock
<1>17. CASE StartLaunch(t)
  <2>0. Owners(s) = {} /\ permits' = permits
    BY <1>0, <1>17 DEF StartLaunch, LockExcludesOwners
  <2>1. EntriesKept
    BY <1>0, <1>17 DEF StartLaunch, TypeOK, RowRec, EntriesKept
  <2>2. PICK w \in Workers :
          /\ worker[w].pc = "done"
          /\ worker' = [worker EXCEPT ![w] = [pc |-> "dial", slot |-> s, node |-> None]]
          /\ fresh' = (fresh \ {t}) \cup {w}
    BY <1>0, <1>17 DEF StartLaunch, Unborn
  <2>3. w \in fresh' /\ \A v \in Workers \ {w} : v \in fresh' <=> v \in fresh
    BY <1>0, <2>2
  <2> QED BY <2>0, <2>1, <2>2, <2>3, LaunchLease
<1> QED BY <1>5, <1>6, <1>7, <1>8, <1>9, <1>10, <1>11, <1>12, <1>13, <1>14, <1>15,
           <1>16, <1>17, StopRouteLease DEF ThreadStep

LEMMA WatchdogStepLease ==
    ASSUME LeaseInv, WatchdogStep
    PROVE  [Lease!LeaseNext]_(Lease!leaseVars)
<1>s. PICK s \in Slots : s = thread[Watchdog].slot
  BY DEF LeaseInv, OwnerInv, Placed, Threads, WatchdogStep, Inspect, Repair, ConfirmRedial, Revive
<1>0. TypeOK /\ Watchdog \notin Workers /\ s = thread[Watchdog].slot
  BY <1>s, ExitSlotsAssumption DEF LeaseInv, OwnerInv
<1>1. ASSUME EntriesKept, UNCHANGED <<worker, permits>>,
             fresh' = fresh \/ fresh' = fresh \ {Watchdog}
      PROVE  UNCHANGED Lease!leaseVars
  BY <1>0, <1>1, QuietLease
<1>2. row' = row => EntriesKept
  BY DEF EntriesKept
<1>3. CASE Inspect
  <2>2. row' = row \/ row' = [row EXCEPT ![s].state = "degraded"]
    BY <1>0, <1>3 DEF Inspect
  <2>3. EntriesKept
    BY <1>0, <2>2 DEF TypeOK, RowRec, EntriesKept
  <2>4. fresh' = fresh \/ fresh' = fresh \ {Watchdog}
    BY <1>3 DEF Inspect, WatchdogQuits
  <2> QED BY <1>1, <1>3, <2>3, <2>4 DEF Inspect
<1>4. CASE Repair
  BY <1>1, <1>2, <1>4 DEF Repair, WatchdogQuits
<1>5. CASE ConfirmRedial
  BY <1>1, <1>2, <1>5 DEF ConfirmRedial
<1>6. CASE Revive
  <2>1. UNCHANGED <<worker, permits>>
    BY <1>6 DEF Revive
  <2>2. CASE row' = EnabledRow(s) /\ fresh' = Bumped(s)
    <3> DEFINE r == [row[s] EXCEPT !.enabled = TRUE, !.state = "idle", !.streak = 0, !.reason = "none"]
    <3>1. r.entry = row[s].entry /\ row' = [row EXCEPT ![s] = r]
      BY <1>0, <2>1, <2>2, RowTyped DEF RowRec, EnabledRow
    <3> HIDE DEF r
    <3> QED BY <1>0, <2>1, <2>2, <3>1, SameEntry, BumpLease
  <2>3. CASE WatchdogQuits /\ UNCHANGED row
    BY <1>1, <1>2, <2>1, <2>3 DEF WatchdogQuits
  <2> QED BY <1>0, <1>6, <2>2, <2>3 DEF Revive
<1> QED BY <1>3, <1>4, <1>5, <1>6 DEF WatchdogStep

LEMMA RetryLease ==
    ASSUME LeaseInv, NEW s \in Slots, RetryFires(s)
    PROVE  [Lease!LeaseNext]_(Lease!leaseVars)
<1>0. TypeOK /\ OwnerAttends /\ s \notin Workers /\ permits' = permits
  BY ExitSlotsAssumption DEF LeaseInv, OwnerInv, RetryFires
<1>1. CASE fresh' = fresh \ {s} /\ UNCHANGED <<row, worker>>
  BY <1>0, <1>1, QuietLease DEF EntriesKept
<1>2. CASE ~(fresh' = fresh \ {s} /\ UNCHANGED <<row, worker>>)
  <2>1. /\ row[s].state = "failed" /\ row[s].enabled
        /\ row' = [row EXCEPT ![s].state = "connecting"]
    BY <1>2 DEF RetryFires
  <2>2. PICK w \in Workers :
          /\ worker[w].pc = "done"
          /\ worker' = [worker EXCEPT ![w] = [pc |-> "dial", slot |-> s, node |-> None]]
          /\ fresh' = (fresh \ {s}) \cup {w}
    BY <1>2 DEF RetryFires, Unborn
  <2>3. Owners(s) = {}
    <3>1. row[s].state \notin Live
      BY <2>1 DEF Live
    <3> QED BY <1>0, <2>1, <3>1 DEF OwnerAttends
  <2>4. EntriesKept
    BY <1>0, <2>1 DEF TypeOK, RowRec, EntriesKept
  <2>5. w \in fresh' /\ \A v \in Workers \ {w} : v \in fresh' <=> v \in fresh
    BY <1>0, <2>2
  <2> QED BY <1>0, <2>2, <2>3, <2>4, <2>5, LaunchLease
<1> QED BY <1>1, <1>2

\* Operator requests, the watchdog's scans and the environment.
LEMMA OtherLease ==
    ASSUME \/ \E u \in Users, s \in Slots : UserRequest(u, s)
           \/ \E s \in Slots : WatchdogScan(s)
           \/ Fault
           \/ \E n \in Nodes : CoolDown(n)
           \/ UNCHANGED vars
    PROVE  UNCHANGED Lease!leaseVars
<1>1. UNCHANGED <<worker, permits, row>> /\ fresh' \in {fresh, fresh \cup {Watchdog}}
  BY DEF UserRequest, RequestRedial, RequestConnect, RequestDisable, RequestEnable,
     RequestConfigure, Request, WatchdogScan, RecoverIdle, RecoverStale, ReviveScan,
     Fault, ProcessDies, ListenerDies, CoolDown, vars
<1>2. Watchdog \notin Workers
  BY ExitSlotsAssumption
<1> QED BY <1>1, <1>2, QuietLease DEF EntriesKept

-----------------------------------------------------------------------------
(* NodeChosen: a step to a state that holds a node comes from one that does,   *)
(* or from the selection.                                                      *)

LEMMA GotoNode ==
    ASSUME TypeOK, NodeChosen, NEW w \in Workers, NEW step, Goto(w, step),
           step \in HoldsNode => worker[w].pc \in HoldsNode
    PROVE  NodeChosen'
BY GotoEffect DEF NodeChosen

LEMMA ReplaceNode ==
    ASSUME TypeOK, NodeChosen, NEW w \in Workers, NEW r,
           worker' = [worker EXCEPT ![w] = r], r.pc \in HoldsNode => r.node \in Nodes
    PROVE  NodeChosen'
<1>1. worker'[w] = r /\ \A v \in Workers \ {w} : worker'[v] = worker[v]
  BY DEF TypeOK
<1> QED BY <1>1 DEF NodeChosen

LEMMA WorkerStepNode ==
    ASSUME TypeOK, NodeChosen, NEW w \in Workers, WorkerStep(w)
    PROVE  NodeChosen'
<1>1. CASE TakePreferred(w)
  <2> DEFINE r == [worker[w] EXCEPT !.pc = "reserve", !.node = rt[worker[w].slot].preferred]
  <2>1. worker' = [worker EXCEPT ![w] = r] /\ r.pc = "reserve"
    BY <1>1, WorkerTyped DEF TakePreferred, WorkerRec
  <2> HIDE DEF r
  <2> QED BY <2>1, ReplaceNode DEF HoldsNode
<1>2. CASE ReserveNode(w)
  <2>1. PICK n, step : /\ worker' = [worker EXCEPT ![w] = [worker[w] EXCEPT !.pc = step, !.node = n]]
                       /\ n \in Nodes \/ step = "except"
    <3>1. /\ Selectable(worker[w].slot) \subseteq Nodes
          /\ {worker[w].node} \ ({None} \cup Taken(worker[w].slot)) \subseteq Nodes
      BY WorkerTyped DEF Selectable
    <3> QED BY <1>2, <3>1 DEF ReserveNode
  <2> DEFINE r == [worker[w] EXCEPT !.pc = step, !.node = n]
  <2>2. worker' = [worker EXCEPT ![w] = r] /\ r.pc = step /\ r.node = n
    BY <2>1, WorkerTyped DEF WorkerRec
  <2> HIDE DEF r
  <2> QED BY <2>1, <2>2, ReplaceNode DEF HoldsNode
<1>3. CASE Disown(w)
  <2> DEFINE r == [IdleWorker EXCEPT !.slot = IF Running(w) THEN worker[w].slot ELSE None]
  <2>1. worker' = [worker EXCEPT ![w] = r] /\ r.pc = "done"
    BY <1>3 DEF Disown, IdleWorker
  <2> HIDE DEF r
  <2> QED BY <2>1, ReplaceNode DEF HoldsNode
<1>4. CASE DialCheck(w) \/ AcquireDial(w)
  BY <1>4, GotoNode DEF DialCheck, AcquireDial, HoldsNode
<1>5. CASE CheckBeforeSpawn(w) \/ Spawn(w) \/ Adopt(w) \/ AwaitTunnel(w)
  BY <1>5, GotoNode DEF CheckBeforeSpawn, Spawn, Adopt, AwaitTunnel, LeaveDial, HoldsNode
<1>6. CASE InstallRoutes(w) \/ VerifyEgress(w) \/ OpenListener(w) \/ CommitCheck(w)
  BY <1>6, GotoNode DEF InstallRoutes, VerifyEgress, OpenListener, CommitCheck,
     LeaveDial, HoldsNode
<1>7. CASE CommitWrite(w) \/ Publish(w) \/ HealthCheck(w) \/ ProbeOutcome(w)
  BY <1>7, GotoNode DEF CommitWrite, Publish, HealthCheck, ProbeOutcome, LeaveDial, HoldsNode
<1>8. CASE ExceptHandler(w) \/ HandleFailure(w) \/ RecordFailure(w) \/ Teardown(w)
  BY <1>8, GotoNode DEF ExceptHandler, HandleFailure, RecordFailure, Teardown, HoldsNode
<1>9. CASE ScheduleRetry(w) \/ Finally(w) \/ Cleanup(w) \/ Reclaim(w)
  BY <1>9, GotoNode DEF ScheduleRetry, Finally, Cleanup, Reclaim, HoldsNode
<1> QED BY <1>1, <1>2, <1>3, <1>4, <1>5, <1>6, <1>7, <1>8, <1>9 DEF WorkerStep

LEMMA OtherNode ==
    ASSUME TypeOK, NodeChosen,
           \/ \E t \in Threads : ThreadStep(t)
           \/ \E u \in Users, s \in Slots : UserRequest(u, s)
           \/ \E s \in Slots : WatchdogScan(s) \/ RetryFires(s)
           \/ WatchdogStep \/ Fault
           \/ \E n \in Nodes : CoolDown(n)
           \/ UNCHANGED vars
    PROVE  NodeChosen'
<1>1. CASE worker' = worker
  BY <1>1 DEF NodeChosen
<1>2. ASSUME NEW w \in Workers, NEW s,
             worker' = [worker EXCEPT ![w] = [pc |-> "dial", slot |-> s, node |-> None]]
      PROVE  NodeChosen'
  BY <1>2, ReplaceNode DEF HoldsNode
<1>3. ASSUME NEW t \in Threads, StartLaunch(t)
      PROVE  NodeChosen'
  BY <1>2, <1>3 DEF StartLaunch
<1>4. ASSUME NEW s \in Slots, RetryFires(s)
      PROVE  NodeChosen'
  BY <1>1, <1>2, <1>4 DEF RetryFires
<1>5. ASSUME NEW t \in Threads, ThreadStep(t)
      PROVE  NodeChosen'
  BY <1>1, <1>3, <1>5 DEF ThreadStep, StopLock, StopBump, StopClose, StopRoute, StopJoin,
     RedialDecide, ConnectDecide, EnableWrite, DisableWrite, ConfigureRead, ConfigureWrite,
     Start, StartLock
<1>6. ASSUME NEW u \in Users, NEW s \in Slots, UserRequest(u, s)
      PROVE  NodeChosen'
  BY <1>1, <1>6 DEF UserRequest, RequestRedial, RequestConnect, RequestDisable,
     RequestEnable, RequestConfigure, Request
<1>7. ASSUME NEW s \in Slots, WatchdogScan(s)
      PROVE  NodeChosen'
  BY <1>1, <1>7 DEF WatchdogScan, RecoverIdle, RecoverStale, ReviveScan
<1>8. CASE WatchdogStep
  BY <1>1, <1>8 DEF WatchdogStep, Inspect, Repair, ConfirmRedial, Revive
<1>9. CASE Fault \/ (\E n \in Nodes : CoolDown(n)) \/ UNCHANGED vars
  BY <1>1, <1>9 DEF Fault, ProcessDies, ListenerDies, CoolDown, vars
<1> QED BY <1>4, <1>5, <1>6, <1>7, <1>8, <1>9

-----------------------------------------------------------------------------
LEMMA InitLease == Init => LeaseInv /\ Lease!LeaseInit
<1> SUFFICES ASSUME Init PROVE LeaseInv /\ Lease!LeaseInit
  OBVIOUS
<1>1. OwnerInv
  BY InitOwners
<1>2. Dialing = {} /\ NodeChosen
  BY DEF Init, Dialing, NodeChosen, HoldsNode, IdleWorker, DialSteps
<1>3. DialPermitsBalanced
  <2>1. permits + Cardinality(Dialing) = DialPermits
    BY <1>2, FS_EmptySet, ExitSlotsAssumption DEF Init, ExitSlotsAssumption
  <2> QED BY <2>1 DEF DialPermitsBalanced
<1>4. \A s \in Slots : Owners(s) = {} /\ row[s].entry = None
  BY DEF Init, InitRow, Owners
<1> QED BY <1>1, <1>2, <1>3, <1>4 DEF LeaseInv, Lease!LeaseInit

LEMMA NextLease == LeaseInv /\ [Next]_vars => LeaseInv' /\ [Lease!LeaseNext]_(Lease!leaseVars)
<1> SUFFICES ASSUME LeaseInv, [Next]_vars
             PROVE  LeaseInv' /\ [Lease!LeaseNext]_(Lease!leaseVars)
  OBVIOUS
<1>1. OwnerInv'
  BY NextOwners DEF LeaseInv
<1>2. DialPermitsBalanced'
  <2>1. Keeps \/ \E w \in Workers : Enters(w) \/ Leaves(w)
    BY WorkerStepPermits, ThreadStepPermits, RetryPermits, OtherPermits
       DEF LeaseInv, OwnerInv, Next
  <2> QED BY <2>1, KeepsBalance, EntersBalance, LeavesBalance DEF LeaseInv, OwnerInv
<1>3. NodeChosen'
  BY WorkerStepNode, OtherNode DEF LeaseInv, OwnerInv, Next
<1>4. [Lease!LeaseNext]_(Lease!leaseVars)
  BY WorkerStepLease, ThreadStepLease, WatchdogStepLease, RetryLease, OtherLease DEF Next
<1> QED BY <1>1, <1>2, <1>3, <1>4 DEF LeaseInv

\* However connection workers, operator requests, retry timers, the watchdog and
\* failures interleave, each step of exit_manager.py is a step of the lease or
\* leaves it alone: a slot's generation is granted to one worker at a time and
\* never handed over without a bump in between, at most KUI_DIAL_WORKERS
\* workers dial, and only the worker that holds the slot's generation, while it
\* dials, writes an entry into the slot's row.
THEOREM LeaseImplemented == Spec => LeaseKept
<1>1. Init => LeaseInv /\ Lease!LeaseInit
  BY InitLease
<1>2. LeaseInv /\ [Next]_vars => LeaseInv' /\ [Lease!LeaseNext]_(Lease!leaseVars)
  BY NextLease
<1> QED BY <1>1, <1>2, PTL DEF Spec, LeaseKept, Lease!LeaseSpec
=============================================================================
