-------------------------- MODULE PolicyRoutes_proofs --------------------------
(***************************************************************************)
(* Proofs about PolicyRoutes, for any number of refused commands and stops.  *)
(***************************************************************************)
EXTENDS PolicyRoutes, TLAPS

\* A stop_slot that cleans up has set the stop event, and no port is open then:
\* the port belongs to a worker that serves, or is about to fail the slot.
Owned ==
    /\ stopper.pc = "clean" => stop
    /\ port => ~stop /\ worker.pc \in {"serve", "except"} /\ "closed" \in rules

\* What the cleanup in front of install has removed so far stays removed.
Removed ==
    /\ worker.pc \in {"pre", "undo", "fail"} => worker.n <= 2
    /\ worker.pc = "pre" /\ worker.n >= 1 => "lookup" \notin rules
    /\ worker.pc = "pre" /\ worker.n = 2 => "closed" \notin rules

\* What install finds before its next command; a stop may only have removed more.
Installed ==
    /\ worker.pc = "add" => "closed" \notin rules
    /\ worker.pc = "add" /\ worker.n <= 2 => "lookup" \notin rules
    /\ worker.pc = "add" /\ worker.n <= 1 => "default" \notin table
    /\ worker.pc = "add" /\ worker.n = 0 => "endpoint" \notin table
    /\ worker.pc = "add" /\ worker.n >= 1 /\ ~stop => "endpoint" \in table
    /\ worker.pc = "add" /\ worker.n = 3 /\ ~stop => "lookup" \in rules

IInv == TypeOK /\ Owned /\ Removed /\ Installed /\ InstalledWhole

LEMMA AtFields ==
    ASSUME NEW pc, NEW n
    PROVE  At(pc, n).pc = pc /\ At(pc, n).n = n
BY DEF At

LEMMA AtTyped ==
    /\ \A pc \in Steps, n \in 0..3 : At(pc, n) \in WorkerRec
    /\ \A pc \in {"none", "clean"}, n \in 0..2 : At(pc, n) \in StopperRec
BY DEF At, WorkerRec, StopperRec

LEMMA AllSteps ==
    /\ "none" \in Steps /\ "dial" \in Steps /\ "add" \in Steps /\ "commit" \in Steps
    /\ "serve" \in Steps /\ "except" \in Steps
    /\ "pre" \in Steps /\ "undo" \in Steps /\ "fail" \in Steps
BY DEF Steps, Cleaning

LEMMA Fields ==
    ASSUME TypeOK
    PROVE  /\ worker.pc \in Steps /\ worker.n \in 0..3
           /\ stopper.pc \in {"none", "clean"} /\ stopper.n \in 0..2
BY DEF TypeOK, WorkerRec, StopperRec

LEMMA CleanShrinks ==
    ASSUME TypeOK, NEW n \in 0..2, Clean(n)
    PROVE  /\ rules' \subseteq rules /\ table' \subseteq table
           /\ n = 0 => "lookup" \notin rules' /\ rules' = rules \ {"lookup"}
           /\ n = 1 => "closed" \notin rules' /\ rules' = rules \ {"closed"}
           /\ n = 2 => table' = {} /\ rules' = rules
<1>1. CASE n = 0
  BY <1>1 DEF Clean
<1>2. CASE n = 1
  BY <1>2 DEF Clean
<1>3. CASE n = 2
  BY <1>3 DEF Clean
<1> QED
  BY <1>1, <1>2, <1>3

LEMMA AddGrows ==
    ASSUME TypeOK, NEW n \in 0..3, Add(n)
    PROVE  /\ n = 0 => table' = table \cup {"endpoint"} /\ rules' = rules
           /\ n = 1 => table' = table \cup {"default"} /\ rules' = rules
           /\ n = 2 => rules' = rules \cup {"lookup"} /\ table' = table
           /\ n = 3 => rules' = rules \cup {"closed"} /\ table' = table
<1>1. CASE n = 0
  BY <1>1 DEF Add
<1>2. CASE n = 1
  BY <1>2 DEF Add
<1>3. CASE n = 2
  BY <1>3 DEF Add
<1>4. CASE n = 3
  BY <1>4 DEF Add
<1> QED
  BY <1>1, <1>2, <1>3, <1>4

LEMMA InitInv == Init => IInv
<1> SUFFICES ASSUME Init PROVE IInv
  OBVIOUS
<1>1. worker.pc = "none" /\ stopper.pc = "none" /\ worker.n = 0
  BY AtFields DEF Init
<1>2. TypeOK
  <2>1. worker \in WorkerRec /\ stopper \in StopperRec
    BY AtTyped, AllSteps DEF Init
  <2>2. tun \in BOOLEAN /\ port \in BOOLEAN /\ stop \in BOOLEAN
    BY Zenon DEF Init
  <2> QED
    BY <2>1, <2>2, RouteAssumption DEF Init, TypeOK
<1>3. Owned /\ Removed /\ Installed /\ InstalledWhole
  BY <1>1 DEF Init, Owned, Removed, Installed, InstalledWhole
<1> QED
  BY <1>2, <1>3 DEF IInv

LEMMA DialInv == ASSUME IInv, Dial PROVE IInv'
<1> USE AtFields, Fields DEF IInv
<1>1. TypeOK'
  <2>1. worker' \in WorkerRec /\ stopper' \in StopperRec
    BY AtTyped, AllSteps DEF Dial, TypeOK
  <2>2. tun' \in BOOLEAN /\ port' \in BOOLEAN /\ stop' \in BOOLEAN
    BY Zenon DEF Dial, TypeOK
  <2>3. table' \subseteq {"endpoint", "default"} /\ rules' \subseteq {"lookup", "closed"}
    BY DEF Dial, TypeOK
  <2>4. refusals' \in 0..MaxRefusals /\ stops' \in 0..MaxStops
    BY RouteAssumption DEF Dial, TypeOK
  <2> QED
    BY <2>1, <2>2, <2>3, <2>4 DEF TypeOK
<1>2. Owned'
  BY DEF Dial, Owned, InstalledWhole
<1>3. Removed'
  BY DEF Dial, Removed
<1>4. Installed'
  BY DEF Dial, Installed
<1>5. InstalledWhole'
  BY DEF Dial, InstalledWhole, Owned, Installed
<1> QED
  BY <1>1, <1>2, <1>3, <1>4, <1>5

LEMMA TunnelUpInv == ASSUME IInv, TunnelUp PROVE IInv'
<1> USE AtFields, Fields DEF IInv
<1>1. TypeOK'
  <2>1. worker' \in WorkerRec /\ stopper' \in StopperRec
    BY AtTyped, AllSteps DEF TunnelUp, TypeOK
  <2>2. tun' \in BOOLEAN /\ port' \in BOOLEAN /\ stop' \in BOOLEAN
    BY Zenon DEF TunnelUp, TypeOK
  <2>3. table' \subseteq {"endpoint", "default"} /\ rules' \subseteq {"lookup", "closed"}
    BY DEF TunnelUp, TypeOK
  <2>4. refusals' \in 0..MaxRefusals /\ stops' \in 0..MaxStops
    BY RouteAssumption DEF TunnelUp, TypeOK
  <2> QED
    BY <2>1, <2>2, <2>3, <2>4 DEF TypeOK
<1>2. Owned'
  BY DEF TunnelUp, Owned, InstalledWhole
<1>3. Removed'
  BY DEF TunnelUp, Removed
<1>4. Installed'
  BY DEF TunnelUp, Installed
<1>5. InstalledWhole'
  BY DEF TunnelUp, InstalledWhole, Owned, Installed
<1> QED
  BY <1>1, <1>2, <1>3, <1>4, <1>5

LEMMA CommitInv == ASSUME IInv, Commit PROVE IInv'
<1> USE AtFields, Fields DEF IInv
<1>1. TypeOK'
  <2>1. worker' \in WorkerRec /\ stopper' \in StopperRec
    BY AtTyped, AllSteps DEF Commit, TypeOK
  <2>2. tun' \in BOOLEAN /\ port' \in BOOLEAN /\ stop' \in BOOLEAN
    BY Zenon DEF Commit, TypeOK
  <2>3. table' \subseteq {"endpoint", "default"} /\ rules' \subseteq {"lookup", "closed"}
    BY DEF Commit, TypeOK
  <2>4. refusals' \in 0..MaxRefusals /\ stops' \in 0..MaxStops
    BY RouteAssumption DEF Commit, TypeOK
  <2> QED
    BY <2>1, <2>2, <2>3, <2>4 DEF TypeOK
<1>2. Owned'
  BY DEF Commit, Owned, InstalledWhole
<1>3. Removed'
  BY DEF Commit, Removed
<1>4. Installed'
  BY DEF Commit, Installed
<1>5. InstalledWhole'
  BY DEF Commit, InstalledWhole, Owned, Installed
<1> QED
  BY <1>1, <1>2, <1>3, <1>4, <1>5

LEMMA HealthFailsInv == ASSUME IInv, HealthFails PROVE IInv'
<1> USE AtFields, Fields DEF IInv
<1>1. TypeOK'
  <2>1. worker' \in WorkerRec /\ stopper' \in StopperRec
    BY AtTyped, AllSteps DEF HealthFails, TypeOK
  <2>2. tun' \in BOOLEAN /\ port' \in BOOLEAN /\ stop' \in BOOLEAN
    BY Zenon DEF HealthFails, TypeOK
  <2>3. table' \subseteq {"endpoint", "default"} /\ rules' \subseteq {"lookup", "closed"}
    BY DEF HealthFails, TypeOK
  <2>4. refusals' \in 0..MaxRefusals /\ stops' \in 0..MaxStops
    BY RouteAssumption DEF HealthFails, TypeOK
  <2> QED
    BY <2>1, <2>2, <2>3, <2>4 DEF TypeOK
<1>2. Owned'
  BY DEF HealthFails, Owned, InstalledWhole
<1>3. Removed'
  BY DEF HealthFails, Removed
<1>4. Installed'
  BY DEF HealthFails, Installed
<1>5. InstalledWhole'
  BY DEF HealthFails, InstalledWhole, Owned, Installed
<1> QED
  BY <1>1, <1>2, <1>3, <1>4, <1>5

LEMMA FailSlotInv == ASSUME IInv, FailSlot PROVE IInv'
<1> USE AtFields, Fields DEF IInv
<1>1. TypeOK'
  <2>1. worker' \in WorkerRec /\ stopper' \in StopperRec
    BY AtTyped, AllSteps DEF FailSlot, TypeOK
  <2>2. tun' \in BOOLEAN /\ port' \in BOOLEAN /\ stop' \in BOOLEAN
    BY Zenon DEF FailSlot, TypeOK
  <2>3. table' \subseteq {"endpoint", "default"} /\ rules' \subseteq {"lookup", "closed"}
    <3>1. (table' = table \/ table' = table \ {"default"}) /\ rules' = rules
      BY Zenon DEF FailSlot
    <3> QED
      BY <3>1 DEF TypeOK
  <2>4. refusals' \in 0..MaxRefusals /\ stops' \in 0..MaxStops
    BY RouteAssumption DEF FailSlot, TypeOK
  <2> QED
    BY <2>1, <2>2, <2>3, <2>4 DEF TypeOK
<1>2. Owned'
  BY DEF FailSlot, Owned, InstalledWhole
<1>3. Removed'
  BY DEF FailSlot, Removed
<1>4. Installed'
  BY DEF FailSlot, Installed
<1>5. InstalledWhole'
  BY DEF FailSlot, InstalledWhole, Owned, Installed
<1> QED
  BY <1>1, <1>2, <1>3, <1>4, <1>5

LEMMA StopSlotInv == ASSUME IInv, StopSlot PROVE IInv'
<1> USE AtFields, Fields DEF IInv
<1>1. TypeOK'
  <2>1. worker' \in WorkerRec /\ stopper' \in StopperRec
    BY AtTyped, AllSteps DEF StopSlot, TypeOK
  <2>2. tun' \in BOOLEAN /\ port' \in BOOLEAN /\ stop' \in BOOLEAN
    BY Zenon DEF StopSlot, TypeOK
  <2>3. table' \subseteq {"endpoint", "default"} /\ rules' \subseteq {"lookup", "closed"}
    BY DEF StopSlot, TypeOK
  <2>4. refusals' \in 0..MaxRefusals /\ stops' \in 0..MaxStops
    BY RouteAssumption DEF StopSlot, TypeOK
  <2> QED
    BY <2>1, <2>2, <2>3, <2>4 DEF TypeOK
<1>2. Owned'
  BY DEF StopSlot, Owned, InstalledWhole
<1>3. Removed'
  BY DEF StopSlot, Removed
<1>4. Installed'
  BY DEF StopSlot, Installed
<1>5. InstalledWhole'
  BY DEF StopSlot, InstalledWhole, Owned, Installed
<1> QED
  BY <1>1, <1>2, <1>3, <1>4, <1>5

LEMMA TunnelLostInv == ASSUME IInv, TunnelLost PROVE IInv'
<1> USE AtFields, Fields DEF IInv
<1>1. TypeOK'
  <2>1. worker' \in WorkerRec /\ stopper' \in StopperRec
    BY AtTyped, AllSteps DEF TunnelLost, TypeOK
  <2>2. tun' \in BOOLEAN /\ port' \in BOOLEAN /\ stop' \in BOOLEAN
    BY Zenon DEF TunnelLost, TypeOK
  <2>3. table' \subseteq {"endpoint", "default"} /\ rules' \subseteq {"lookup", "closed"}
    BY DEF TunnelLost, TypeOK
  <2>4. refusals' \in 0..MaxRefusals /\ stops' \in 0..MaxStops
    BY RouteAssumption DEF TunnelLost, TypeOK
  <2> QED
    BY <2>1, <2>2, <2>3, <2>4 DEF TypeOK
<1>2. Owned'
  BY DEF TunnelLost, Owned, InstalledWhole
<1>3. Removed'
  BY DEF TunnelLost, Removed
<1>4. Installed'
  BY DEF TunnelLost, Installed
<1>5. InstalledWhole'
  BY DEF TunnelLost, InstalledWhole, Owned, Installed
<1> QED
  BY <1>1, <1>2, <1>3, <1>4, <1>5

\* What every cleanup leaves typed, whoever runs it.
LEMMA CleanTyped ==
    ASSUME TypeOK, rules' \subseteq rules, table' \subseteq table,
           UNCHANGED <<tun, port, stop, stops>>, refusals' \in 0..MaxRefusals,
           worker' \in WorkerRec, stopper' \in StopperRec
    PROVE  TypeOK'
<1>1. tun' \in BOOLEAN /\ port' \in BOOLEAN /\ stop' \in BOOLEAN
  BY Zenon DEF TypeOK
<1>2. table' \subseteq {"endpoint", "default"} /\ rules' \subseteq {"lookup", "closed"}
  BY DEF TypeOK
<1>3. stops' \in 0..MaxStops
  BY DEF TypeOK
<1> QED
  BY <1>1, <1>2, <1>3 DEF TypeOK

LEMMA RefusedTyped == ASSUME TypeOK, Refused PROVE refusals' \in 0..MaxRefusals
BY RouteAssumption DEF TypeOK, Refused

LEMMA WorkerCleansInv == ASSUME IInv, WorkerCleans PROVE IInv'
<1> USE AtFields, Fields DEF IInv
<1>1. /\ worker.pc \in Cleaning /\ ~port
      /\ UNCHANGED <<tun, port, stopper, stop, stops>>
  BY DEF WorkerCleans, Cleaning, Owned
<1>2. CASE Refused /\ UNCHANGED <<table, rules>> /\ worker' \in {At("none", 0), At("except", 0)}
  <2>1. TypeOK'
    BY <1>1, <1>2, AtTyped, AllSteps, RefusedTyped, CleanTyped DEF TypeOK
  <2>2. worker'.pc \in {"none", "except"}
    BY <1>2
  <2>3. Owned' /\ Removed' /\ Installed' /\ InstalledWhole'
    BY <1>1, <2>2 DEF Owned, Removed, Installed, InstalledWhole
  <2> QED
    BY <2>1, <2>3
<1>3. CASE Clean(worker.n) /\ UNCHANGED refusals /\ worker.n < 2 /\ worker' = At(worker.pc, worker.n + 1)
  <2>1. worker.n \in 0..2 /\ worker.n + 1 \in 0..3
    BY <1>3
  <2>2. rules' \subseteq rules /\ table' \subseteq table
    BY <1>3, <2>1, CleanShrinks
  <2>3. TypeOK'
    BY <1>1, <1>3, <2>1, <2>2, AtTyped, CleanTyped DEF TypeOK
  <2>4. worker'.pc = worker.pc /\ worker'.n = worker.n + 1
    BY <1>3
  <2>5. Removed'
    BY <1>3, <2>1, <2>2, <2>4, CleanShrinks DEF Removed
  <2>6. Owned' /\ Installed' /\ InstalledWhole'
    BY <1>1, <2>4 DEF Owned, Installed, InstalledWhole, Cleaning
  <2> QED
    BY <2>3, <2>5, <2>6
<1>4. CASE Clean(worker.n) /\ UNCHANGED refusals /\ worker.n = 2 /\ worker' = After
  <2>1. table' = {} /\ rules' = rules
    BY <1>4, CleanShrinks
  <2>2. CASE worker.pc = "pre"
    <3>1. worker' = At("add", 0) /\ worker'.pc = "add" /\ worker'.n = 0
      BY <1>4, <2>2 DEF After
    <3>2. TypeOK'
      BY <1>1, <1>4, <2>1, <3>1, AtTyped, AllSteps, CleanTyped DEF TypeOK
    <3>3. Installed'
      BY <1>4, <2>1, <2>2, <3>1 DEF Removed, Installed
    <3>4. Owned' /\ Removed' /\ InstalledWhole'
      BY <1>1, <3>1 DEF Owned, Removed, InstalledWhole
    <3> QED
      BY <3>2, <3>3, <3>4
  <2>3. CASE worker.pc \in {"undo", "fail"}
    <3>1. worker' \in {At("none", 0), At("except", 0)} /\ worker'.pc \in {"none", "except"}
      BY <1>4, <2>3 DEF After
    <3>2. TypeOK'
      BY <1>1, <1>4, <2>1, <3>1, AtTyped, AllSteps, CleanTyped DEF TypeOK
    <3>3. Owned' /\ Removed' /\ Installed' /\ InstalledWhole'
      BY <1>1, <3>1 DEF Owned, Removed, Installed, InstalledWhole
    <3> QED
      BY <3>2, <3>3
  <2> QED
    BY <1>1, <2>2, <2>3 DEF Cleaning
<1>5. worker.n \in 0..2
  BY <1>1 DEF Removed, Cleaning
<1> QED
  BY <1>1, <1>2, <1>3, <1>4, <1>5 DEF WorkerCleans

LEMMA BothRules ==
    ASSUME NEW R, R \subseteq {"lookup", "closed"}, "lookup" \in R
    PROVE  R \cup {"closed"} = {"lookup", "closed"}
OBVIOUS

LEMMA WorkerAddsInv == ASSUME IInv, WorkerAdds PROVE IInv'
<1> USE AtFields, Fields DEF IInv
<1>1. worker.pc = "add" /\ ~port /\ UNCHANGED <<tun, port, stopper, stop, stops>>
  BY DEF WorkerAdds, Owned
<1>2. CASE /\ UNCHANGED refusals \/ Refused
           /\ worker' = At("undo", 0) /\ UNCHANGED <<table, rules>>
  <2>1. TypeOK'
    BY <1>1, <1>2, AtTyped, AllSteps, RefusedTyped, CleanTyped DEF TypeOK
  <2>2. worker'.pc = "undo" /\ worker'.n = 0
    BY <1>2
  <2>3. Owned' /\ Removed' /\ Installed' /\ InstalledWhole'
    BY <1>1, <2>2 DEF Owned, Removed, Installed, InstalledWhole
  <2> QED
    BY <2>1, <2>3
<1>3. CASE /\ Add(worker.n) /\ UNCHANGED refusals
           /\ worker' = IF worker.n < 3 THEN At("add", worker.n + 1) ELSE At("commit", 0)
  <2>1. TypeOK'
    <3>1. worker' \in WorkerRec
      BY <1>3, AtTyped, AllSteps
    <3>2. table' \subseteq {"endpoint", "default"} /\ rules' \subseteq {"lookup", "closed"}
      <4>1. table \subseteq {"endpoint", "default"} /\ rules \subseteq {"lookup", "closed"}
        BY DEF TypeOK
      <4>2. worker.n \in 0..3
        BY Fields
      <4>3. \/ table' = table \cup {"endpoint"} /\ rules' = rules
            \/ table' = table \cup {"default"} /\ rules' = rules
            \/ table' = table /\ rules' = rules \cup {"lookup"}
            \/ table' = table /\ rules' = rules \cup {"closed"}
        BY <1>3, <4>2, AddGrows
      <4> HIDE DEF IInv
      <4> QED
        BY <4>1, <4>3
    <3>3. tun' \in BOOLEAN /\ port' \in BOOLEAN /\ stop' \in BOOLEAN
      BY <1>1, Zenon DEF TypeOK
    <3> QED
      BY <1>1, <1>3, <3>1, <3>2, <3>3 DEF TypeOK
  <2>2. CASE worker.n < 3
    <3>1. worker'.pc = "add" /\ worker'.n = worker.n + 1
      BY <1>3, <2>2
    <3>2. Installed'
      BY <1>1, <1>3, <2>2, <3>1, AddGrows DEF Installed
    <3> QED
      BY <1>1, <2>1, <3>1, <3>2 DEF Owned, Removed, InstalledWhole
  <2>3. CASE worker.n = 3
    <3>1. worker'.pc = "commit" /\ worker'.n = 0
      BY <1>3, <2>3
    <3>2. rules' = rules \cup {"closed"} /\ table' = table
      BY <1>3, <2>3, AddGrows
    <3>3. InstalledWhole'
      <4>1. ~stop => "lookup" \in rules /\ "endpoint" \in table
        BY <1>1, <2>3 DEF Installed
      <4>2. rules \subseteq {"lookup", "closed"}
        BY DEF TypeOK
      <4>3. "lookup" \in rules => rules' = {"lookup", "closed"}
        BY <3>2, <4>2, BothRules
      <4> QED
        BY <1>1, <3>2, <4>1, <4>3 DEF InstalledWhole
    <3> QED
      BY <1>1, <2>1, <3>1, <3>3 DEF Owned, Removed, Installed
  <2> QED
    BY <2>2, <2>3
<1> QED
  BY <1>2, <1>3 DEF WorkerAdds

\* While stop_slot cleans up, the stop event is set and the port is closed.
LEMMA StopperCleansInv == ASSUME IInv, StopperCleans PROVE IInv'
<1> USE AtFields, Fields DEF IInv
<1>1. stop /\ ~port /\ UNCHANGED <<tun, port, worker, stop, stops>> /\ stopper.n \in 0..2
  BY DEF StopperCleans, Owned
<1>2. rules' \subseteq rules /\ table' \subseteq table
  BY <1>1, CleanShrinks DEF StopperCleans
<1>3. TypeOK'
  <2>1. stopper' \in StopperRec
    BY <1>1, AtTyped DEF StopperCleans
  <2>2. refusals' \in 0..MaxRefusals
    BY RefusedTyped DEF StopperCleans, TypeOK
  <2> QED
    BY <1>1, <1>2, <2>1, <2>2, CleanTyped DEF TypeOK
<1>4. Owned' /\ Removed' /\ Installed' /\ InstalledWhole'
  BY <1>1, <1>2 DEF Owned, Removed, Installed, InstalledWhole
<1> QED
  BY <1>3, <1>4

LEMMA StepInv == ASSUME IInv, [Next]_vars PROVE IInv'
<1>1. CASE UNCHANGED vars
  BY <1>1 DEF vars, IInv, TypeOK, Owned, Removed, Installed, InstalledWhole
<1> QED
  BY <1>1, DialInv, TunnelUpInv, WorkerCleansInv, WorkerAddsInv, CommitInv, HealthFailsInv,
     FailSlotInv, StopSlotInv, StopperCleansInv, TunnelLostInv DEF Next, WorkerStep

THEOREM Invariance == Spec => []IInv
BY InitInv, StepInv, PTL DEF Spec

\* Every reachable state is well typed: worker and stopper stay within the
\* steps of install and cleanup, and within their numbers of commands.
THEOREM TypeCorrect == Spec => []TypeOK
<1>1. IInv => TypeOK
  BY DEF IInv
<1> QED
  BY <1>1, Invariance, PTL

\* An open port has its fail-closed rule, whatever commands are refused and
\* wherever a stop or the end of the tunnel meets an installation.
THEOREM PortFailsClosed == Spec => []ClosedWhileOpen
<1>1. IInv => ClosedWhileOpen
  BY DEF IInv, Owned, ClosedWhileOpen
<1> QED
  BY <1>1, Invariance, PTL

\* A worker that is past its installation has everything installed.
THEOREM NothingSwallowed == Spec => []InstalledWhole
<1>1. IInv => InstalledWhole
  BY DEF IInv
<1> QED
  BY <1>1, Invariance, PTL

\* No leftover of an interrupted cleanup makes an installation fail.
THEOREM CleanStart == Spec => []NoCollision
<1>1. ASSUME IInv PROVE NoCollision
  <2>1. worker.n = 0 \/ worker.n = 1 \/ worker.n = 2 \/ worker.n = 3
    BY <1>1, Fields DEF IInv
  <2>2. CASE worker.pc = "add" /\ worker.n = 1
    BY <1>1, <2>2 DEF IInv, Installed, NoCollision, Addable
  <2>3. CASE worker.pc = "add" /\ worker.n # 1
    <3>1. worker.n <= 2 => "lookup" \notin rules
      BY <1>1, <2>3 DEF IInv, Installed
    <3>2. "closed" \notin rules /\ (worker.n = 0 => "endpoint" \notin table)
      BY <1>1, <2>3 DEF IInv, Installed
    <3> QED
      BY <2>1, <2>3, <3>1, <3>2 DEF NoCollision, Addable
  <2> QED
    BY <2>2, <2>3 DEF NoCollision
<1> QED
  BY <1>1, Invariance, PTL

=============================================================================
