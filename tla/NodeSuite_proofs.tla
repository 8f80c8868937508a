-------------------------- MODULE NodeSuite_proofs --------------------------
(***************************************************************************)
(* NodeSafety as a whole: its specification implies the one of each part and *)
(* of each case of its own, hence every property its run checks is proved of *)
(* that specification, for every value of the constants.  The cases of their *)
(* own are instances of what Node_proofs proves.                             *)
(***************************************************************************)
EXTENDS Node_proofs

\* An inbound whose counter restarts, no crash in the middle of an egress change,
\* a test that raises, two nodes and no switch.
Second == INSTANCE Node_proofs WITH
    Nodes <- FewNodes, MaxBytes <- MoreBytes, TrafficFaults <- {"crash", "reset"},
    MaxRevision <- MoreRevisions, EgressFaults <- EgressFaults \ {"crashMid"},
    BridgeFaults <- BridgeFaults \cup {"raise"},
    LiteNodes <- SpareNodes, Country <- SpareCountry, Procs <- SpareProcs, MaxSwitches <- 0,
    LiteFaults <- {"probe"}

\* An inbound that is removed and comes back; dials that raise.
Third == INSTANCE Node_proofs WITH
    Nodes <- FewNodes, MaxBytes <- MoreBytes, TrafficFaults <- {"crash", "delist", "unreadable"},
    LiteNodes <- SpareNodes, Country <- SpareCountry, MaxSwitches <- 0,
    LiteFaults <- {"raise", "stale", "partial"}

-----------------------------------------------------------------------------
(* What is assumed of the constants, for the instances *)

LEMMA SecondAssumed == Second!PresenceAssumption /\ Second!NodeAssumption
<1>1. Second!PresenceAssumption
  BY PresenceAssumption DEF PresenceAssumption, Second!PresenceAssumption
<1>2. Second!Traffic!TrafficAssumption
  BY NodeAssumption
     DEF NodeAssumption, Second!Traffic!TrafficAssumption, Restarts!TrafficAssumption
<1>3. Second!Restarts!TrafficAssumption
  BY NodeAssumption
     DEF NodeAssumption, Second!Restarts!TrafficAssumption, Restarts!TrafficAssumption
<1>4. Second!Removed!TrafficAssumption
  BY NodeAssumption
     DEF NodeAssumption, Second!Removed!TrafficAssumption, Removed!TrafficAssumption
<1>5. Second!Egress!EgressAssumption
  BY NodeAssumption
     DEF NodeAssumption, Second!Egress!EgressAssumption, Steady!EgressAssumption, Steady!AllModes,
         Second!Egress!AllModes
<1>6. Second!Steady!EgressAssumption
  BY NodeAssumption
     DEF NodeAssumption, Second!Steady!EgressAssumption, Steady!EgressAssumption, Steady!AllModes,
         Second!Steady!AllModes
<1>7. Second!Gateway!GatewayAssumption
  BY NodeAssumption
     DEF NodeAssumption, Second!Gateway!GatewayAssumption, Gateway!GatewayAssumption,
         Second!Gateway!MAX_SLOT_COUNT, Gateway!MAX_SLOT_COUNT, Second!Gateway!BASE_PROXY_PORT,
         Gateway!BASE_PROXY_PORT, Second!Gateway!Host, Gateway!Host, Second!Gateway!None,
         Gateway!None, Second!Gateway!Identity, Gateway!Identity
<1>8. Second!Bridge!BridgeAssumption
  BY NodeAssumption
     DEF NodeAssumption, Second!Bridge!BridgeAssumption, Raises!BridgeAssumption,
         Second!Bridge!IsFiniteSet, Raises!IsFiniteSet
<1>9. Second!Raises!BridgeAssumption
  BY NodeAssumption
     DEF NodeAssumption, Second!Raises!BridgeAssumption, Raises!BridgeAssumption,
         Second!Raises!IsFiniteSet, Raises!IsFiniteSet
<1>10. Second!Lite!LiteAssumption
  BY NodeAssumption
     DEF NodeAssumption, Second!Lite!LiteAssumption, Spares!LiteAssumption
<1>11. Second!Spares!LiteAssumption
  BY NodeAssumption
     DEF NodeAssumption, Second!Spares!LiteAssumption, Spares!LiteAssumption
<1>12. Second!Broken!LiteAssumption
  BY NodeAssumption
     DEF NodeAssumption, Second!Broken!LiteAssumption, Broken!LiteAssumption, Spares!LiteAssumption
<1> QED BY <1>1, <1>2, <1>3, <1>4, <1>5, <1>6, <1>7, <1>8, <1>9, <1>10, <1>11, <1>12
    DEF Second!NodeAssumption

LEMMA ThirdAssumed == Third!PresenceAssumption /\ Third!NodeAssumption
<1>1. Third!PresenceAssumption
  BY PresenceAssumption DEF PresenceAssumption, Third!PresenceAssumption
<1>2. Third!Traffic!TrafficAssumption
  BY NodeAssumption
     DEF NodeAssumption, Third!Traffic!TrafficAssumption, Removed!TrafficAssumption
<1>3. Third!Restarts!TrafficAssumption
  BY NodeAssumption
     DEF NodeAssumption, Third!Restarts!TrafficAssumption, Restarts!TrafficAssumption
<1>4. Third!Removed!TrafficAssumption
  BY NodeAssumption
     DEF NodeAssumption, Third!Removed!TrafficAssumption, Removed!TrafficAssumption
<1>5. Third!Egress!EgressAssumption
  BY NodeAssumption
     DEF NodeAssumption, Third!Egress!EgressAssumption, Egress!EgressAssumption, Egress!AllModes,
         Third!Egress!AllModes
<1>6. Third!Steady!EgressAssumption
  BY NodeAssumption
     DEF NodeAssumption, Third!Steady!EgressAssumption, Steady!EgressAssumption, Steady!AllModes,
         Third!Steady!AllModes
<1>7. Third!Gateway!GatewayAssumption
  BY NodeAssumption
     DEF NodeAssumption, Third!Gateway!GatewayAssumption, Gateway!GatewayAssumption,
         Third!Gateway!MAX_SLOT_COUNT, Gateway!MAX_SLOT_COUNT, Third!Gateway!BASE_PROXY_PORT,
         Gateway!BASE_PROXY_PORT, Third!Gateway!Host, Gateway!Host, Third!Gateway!None,
         Gateway!None, Third!Gateway!Identity, Gateway!Identity
<1>8. Third!Bridge!BridgeAssumption
  BY NodeAssumption
     DEF NodeAssumption, Third!Bridge!BridgeAssumption, Bridge!BridgeAssumption,
         Third!Bridge!IsFiniteSet, Bridge!IsFiniteSet
<1>9. Third!Raises!BridgeAssumption
  BY NodeAssumption
     DEF NodeAssumption, Third!Raises!BridgeAssumption, Raises!BridgeAssumption,
         Third!Raises!IsFiniteSet, Raises!IsFiniteSet
<1>10. Third!Lite!LiteAssumption
  BY NodeAssumption
     DEF NodeAssumption, Third!Lite!LiteAssumption, Broken!LiteAssumption
<1>11. Third!Spares!LiteAssumption
  BY NodeAssumption
     DEF NodeAssumption, Third!Spares!LiteAssumption, Spares!LiteAssumption
<1>12. Third!Broken!LiteAssumption
  BY NodeAssumption
     DEF NodeAssumption, Third!Broken!LiteAssumption, Broken!LiteAssumption, Spares!LiteAssumption
<1> QED BY <1>1, <1>2, <1>3, <1>4, <1>5, <1>6, <1>7, <1>8, <1>9, <1>10, <1>11, <1>12
    DEF Third!NodeAssumption

-----------------------------------------------------------------------------
(* The cases of their own are instances *)

LEMMA RestartsIsSecond == Restarts!Spec <=> Second!Traffic!Spec
<1>1. Restarts!Init <=> Second!Traffic!Init
  BY DEF Restarts!Init, Restarts!Settled, Restarts!FreeHandler, Restarts!NoBytes, Restarts!NoDelta,
         Second!Traffic!Init, Second!Traffic!Settled, Second!Traffic!FreeHandler,
         Second!Traffic!NoBytes, Second!Traffic!NoDelta
<1>2. Restarts!Next <=> Second!Traffic!Next
  BY DEF Restarts!Next, Restarts!Measure, Restarts!Display, Restarts!Freeze, Restarts!Send,
         Restarts!Answered, Restarts!TimesOut, Restarts!Crash, Restarts!SingboxRestarts,
         Restarts!Relist, Restarts!Serve, Restarts!CloudCheck, Restarts!CloudApply,
         Restarts!CloudLost, Restarts!Unused, Restarts!Measured, Restarts!Remembered,
         Restarts!WriteOK, Restarts!WriteFails, Restarts!worldVars, Restarts!cloudVars,
         Restarts!Settled, Restarts!FreeHandler, Restarts!agentVars, Restarts!Readings,
         Restarts!Delta, Restarts!NoBytes, Restarts!NoDelta, Second!Traffic!Next,
         Second!Traffic!Measure, Second!Traffic!Display, Second!Traffic!Freeze, Second!Traffic!Send,
         Second!Traffic!Answered, Second!Traffic!TimesOut, Second!Traffic!Crash,
         Second!Traffic!SingboxRestarts, Second!Traffic!Relist, Second!Traffic!Serve,
         Second!Traffic!CloudCheck, Second!Traffic!CloudApply, Second!Traffic!CloudLost,
         Second!Traffic!Unused, Second!Traffic!Measured, Second!Traffic!Remembered,
         Second!Traffic!WriteOK, Second!Traffic!WriteFails, Second!Traffic!worldVars,
         Second!Traffic!cloudVars, Second!Traffic!Settled, Second!Traffic!FreeHandler,
         Second!Traffic!agentVars, Second!Traffic!Readings, Second!Traffic!Delta,
         Second!Traffic!NoBytes, Second!Traffic!NoDelta
<1> QED BY <1>1, <1>2, PTL DEF Restarts!Spec, Second!Traffic!Spec, Restarts!vars, Second!Traffic!vars

LEMMA SteadyIsSecond == Steady!Spec <=> Second!Egress!Spec
<1>1. Steady!Init <=> Second!Egress!Init
  BY DEF Steady!Init, Steady!IdleAgent, Second!Egress!Init, Second!Egress!IdleAgent
<1>2. Steady!Next <=> Second!Egress!Next
  BY DEF Steady!Next, Steady!Loop, Steady!Choose, Steady!ArrivesLate, Steady!IsLost,
         Steady!DelayEnds, Steady!Crash, Steady!Fetch, Steady!PostPending, Steady!Decide,
         Steady!Replace, Steady!Rejected, Steady!StartSame, Steady!StartSameFails, Steady!Restart,
         Steady!RestartFails, Steady!RestartExpires, Steady!Verify, Steady!VerifyFails, Steady!Verified,
         Steady!Passes, Steady!Families, Steady!Keep,
         Steady!SaveSuccess, Steady!Rollback, Steady!SaveFailure, Steady!PostResult, Steady!Handled,
         Steady!At, Steady!IdleAgent, Steady!Answers, Steady!Post, Steady!Goto,
         Steady!AppliedRevision, Steady!Waits, Steady!AppliedMode, Steady!Success, Steady!Failure,
         Steady!Accepts, Second!Egress!Next, Second!Egress!Loop, Second!Egress!Choose,
         Second!Egress!ArrivesLate, Second!Egress!IsLost, Second!Egress!DelayEnds,
         Second!Egress!Crash, Second!Egress!Fetch, Second!Egress!PostPending, Second!Egress!Decide,
         Second!Egress!Replace, Second!Egress!Rejected, Second!Egress!StartSame,
         Second!Egress!StartSameFails, Second!Egress!Restart, Second!Egress!RestartFails,
         Second!Egress!RestartExpires, Second!Egress!Verify, Second!Egress!VerifyFails,
         Second!Egress!Verified, Second!Egress!Passes, Second!Egress!Families,
         Second!Egress!Keep, Second!Egress!SaveSuccess, Second!Egress!Rollback,
         Second!Egress!SaveFailure, Second!Egress!PostResult, Second!Egress!Handled,
         Second!Egress!At, Second!Egress!IdleAgent, Second!Egress!Answers, Second!Egress!Post,
         Second!Egress!Goto, Second!Egress!AppliedRevision, Second!Egress!Waits,
         Second!Egress!AppliedMode, Second!Egress!Success, Second!Egress!Failure,
         Second!Egress!Accepts
<1> QED BY <1>1, <1>2, PTL DEF Steady!Spec, Second!Egress!Spec, Steady!vars, Second!Egress!vars

LEMMA RaisesIsSecond == Raises!Spec <=> Second!Bridge!Spec
<1>1. Raises!Init <=> Second!Bridge!Init
  BY DEF Raises!Init, Raises!Idle, Second!Bridge!Init, Second!Bridge!Idle
<1>2. Raises!Next <=> Second!Bridge!Next
  BY DEF Raises!Next, Raises!Refresher, Raises!Tick, Raises!Work, Raises!Raise, Raises!Gone,
         Raises!Fetch, Raises!Store, Raises!GiveUp, Raises!Wake, Raises!Take, Raises!Pick,
         Raises!Spawn, Raises!Ready, Raises!Check, Raises!Measure, Raises!Stop, Raises!At,
         Raises!Set, Raises!Idle, Raises!TestCandidates, Raises!PoolDone, Raises!Fastest,
         Raises!Goto, Raises!Through, Raises!Passed, Raises!Leave, Raises!AfterStop,
         Raises!Cardinality, Second!Bridge!Next, Second!Bridge!Refresher, Second!Bridge!Tick,
         Second!Bridge!Work, Second!Bridge!Raise, Second!Bridge!Gone, Second!Bridge!Fetch,
         Second!Bridge!Store, Second!Bridge!GiveUp, Second!Bridge!Wake, Second!Bridge!Take,
         Second!Bridge!Pick, Second!Bridge!Spawn, Second!Bridge!Ready, Second!Bridge!Check,
         Second!Bridge!Measure, Second!Bridge!Stop, Second!Bridge!At, Second!Bridge!Set,
         Second!Bridge!Idle, Second!Bridge!TestCandidates, Second!Bridge!PoolDone,
         Second!Bridge!Fastest, Second!Bridge!Goto, Second!Bridge!Through, Second!Bridge!Passed,
         Second!Bridge!Leave, Second!Bridge!AfterStop, Second!Bridge!Cardinality
<1> QED BY <1>1, <1>2, PTL DEF Raises!Spec, Second!Bridge!Spec, Raises!vars, Second!Bridge!vars

LEMMA SparesIsSecond == Spares!Spec <=> Second!Lite!Spec
<1>1. Spares!Init <=> Second!Lite!Init
  BY DEF Spares!Init, Spares!Unused, Spares!IdleDial, Spares!Scanning, Spares!Sleeping,
         Second!Lite!Init, Second!Lite!Unused, Second!Lite!IdleDial, Second!Lite!Scanning,
         Second!Lite!Sleeping
<1>2. Spares!Next <=> Second!Lite!Next
  BY DEF Spares!Next, Spares!Maintain, Spares!Dial, Spares!Switch, Spares!Check, Spares!Harvest,
         Spares!ProcEnds, Spares!TakeOver, Spares!Scan, Spares!Decide, Spares!Pick, Spares!Claim,
         Spares!Launch, Spares!Spawn, Spares!Register, Spares!Initialized, Spares!Rejected,
         Spares!Recheck, Spares!Streams, Spares!NoStream, Spares!Raises, Spares!Commit,
         Spares!Finally, Spares!Ended, Spares!Unused, Spares!Snapshot, Spares!Healthy, Spares!Kick,
         Spares!Settle, Spares!MainDead, Spares!CanTakeOver, Spares!Backup, Spares!Expire,
         Spares!Needs, Spares!Scanning, Spares!Candidates, Spares!Fitting, Spares!Active,
         Spares!AtDial, Spares!Forgotten, Spares!Superseded, Spares!Terminated, Spares!GoDial,
         Spares!Alive, Spares!Matches, Spares!IdleDial, Spares!Up, Spares!Sleeping,
         Second!Lite!Next, Second!Lite!Maintain, Second!Lite!Dial, Second!Lite!Switch,
         Second!Lite!Check, Second!Lite!Harvest, Second!Lite!ProcEnds, Second!Lite!TakeOver,
         Second!Lite!Scan, Second!Lite!Decide, Second!Lite!Pick, Second!Lite!Claim,
         Second!Lite!Launch, Second!Lite!Spawn, Second!Lite!Register, Second!Lite!Initialized,
         Second!Lite!Rejected, Second!Lite!Recheck, Second!Lite!Streams, Second!Lite!NoStream,
         Second!Lite!Raises, Second!Lite!Commit, Second!Lite!Finally, Second!Lite!Ended,
         Second!Lite!Unused, Second!Lite!Snapshot, Second!Lite!Healthy, Second!Lite!Kick,
         Second!Lite!Settle, Second!Lite!MainDead, Second!Lite!CanTakeOver, Second!Lite!Backup,
         Second!Lite!Expire, Second!Lite!Needs, Second!Lite!Scanning, Second!Lite!Candidates,
         Second!Lite!Fitting, Second!Lite!Active, Second!Lite!AtDial, Second!Lite!Forgotten,
         Second!Lite!Superseded, Second!Lite!Terminated, Second!Lite!GoDial, Second!Lite!Alive,
         Second!Lite!Matches, Second!Lite!IdleDial, Second!Lite!Up, Second!Lite!Sleeping
<1> QED BY <1>1, <1>2, PTL DEF Spares!Spec, Second!Lite!Spec, Spares!vars, Second!Lite!vars

LEMMA RemovedIsThird == Removed!Spec <=> Third!Traffic!Spec
<1>1. Removed!Init <=> Third!Traffic!Init
  BY DEF Removed!Init, Removed!Settled, Removed!FreeHandler, Removed!NoBytes, Removed!NoDelta,
         Third!Traffic!Init, Third!Traffic!Settled, Third!Traffic!FreeHandler,
         Third!Traffic!NoBytes, Third!Traffic!NoDelta
<1>2. Removed!Next <=> Third!Traffic!Next
  BY DEF Removed!Next, Removed!Measure, Removed!Display, Removed!Freeze, Removed!Send,
         Removed!Answered, Removed!TimesOut, Removed!Crash, Removed!SingboxRestarts, Removed!Relist,
         Removed!Serve, Removed!CloudCheck, Removed!CloudApply, Removed!CloudLost, Removed!Unused,
         Removed!Measured, Removed!Remembered, Removed!WriteOK, Removed!WriteFails,
         Removed!worldVars, Removed!cloudVars, Removed!Settled, Removed!FreeHandler,
         Removed!agentVars, Removed!Readings, Removed!Delta, Removed!NoBytes, Removed!NoDelta,
         Third!Traffic!Next, Third!Traffic!Measure, Third!Traffic!Display, Third!Traffic!Freeze,
         Third!Traffic!Send, Third!Traffic!Answered, Third!Traffic!TimesOut, Third!Traffic!Crash,
         Third!Traffic!SingboxRestarts, Third!Traffic!Relist, Third!Traffic!Serve,
         Third!Traffic!CloudCheck, Third!Traffic!CloudApply, Third!Traffic!CloudLost,
         Third!Traffic!Unused, Third!Traffic!Measured, Third!Traffic!Remembered,
         Third!Traffic!WriteOK, Third!Traffic!WriteFails, Third!Traffic!worldVars,
         Third!Traffic!cloudVars, Third!Traffic!Settled, Third!Traffic!FreeHandler,
         Third!Traffic!agentVars, Third!Traffic!Readings, Third!Traffic!Delta,
         Third!Traffic!NoBytes, Third!Traffic!NoDelta
<1> QED BY <1>1, <1>2, PTL DEF Removed!Spec, Third!Traffic!Spec, Removed!vars, Third!Traffic!vars

LEMMA BrokenIsThird == Broken!Spec <=> Third!Lite!Spec
<1>1. Broken!Init <=> Third!Lite!Init
  BY DEF Broken!Init, Broken!Unused, Broken!IdleDial, Broken!Scanning, Broken!Sleeping,
         Third!Lite!Init, Third!Lite!Unused, Third!Lite!IdleDial, Third!Lite!Scanning,
         Third!Lite!Sleeping
<1>2. Broken!Next <=> Third!Lite!Next
  BY DEF Broken!Next, Broken!Maintain, Broken!Dial, Broken!Switch, Broken!Check, Broken!Harvest,
         Broken!ProcEnds, Broken!TakeOver, Broken!Scan, Broken!Decide, Broken!Pick, Broken!Claim,
         Broken!Launch, Broken!Spawn, Broken!Register, Broken!Initialized, Broken!Rejected,
         Broken!Recheck, Broken!Streams, Broken!NoStream, Broken!Raises, Broken!Commit,
         Broken!Finally, Broken!Ended, Broken!Unused, Broken!Snapshot, Broken!Healthy, Broken!Kick,
         Broken!Settle, Broken!MainDead, Broken!CanTakeOver, Broken!Backup, Broken!Expire,
         Broken!Needs, Broken!Scanning, Broken!Candidates, Broken!Fitting, Broken!Active,
         Broken!AtDial, Broken!Forgotten, Broken!Superseded, Broken!Terminated, Broken!GoDial,
         Broken!Alive, Broken!Matches, Broken!IdleDial, Broken!Up, Broken!Sleeping, Third!Lite!Next,
         Third!Lite!Maintain, Third!Lite!Dial, Third!Lite!Switch, Third!Lite!Check,
         Third!Lite!Harvest, Third!Lite!ProcEnds, Third!Lite!TakeOver, Third!Lite!Scan,
         Third!Lite!Decide, Third!Lite!Pick, Third!Lite!Claim, Third!Lite!Launch, Third!Lite!Spawn,
         Third!Lite!Register, Third!Lite!Initialized, Third!Lite!Rejected, Third!Lite!Recheck,
         Third!Lite!Streams, Third!Lite!NoStream, Third!Lite!Raises, Third!Lite!Commit,
         Third!Lite!Finally, Third!Lite!Ended, Third!Lite!Unused, Third!Lite!Snapshot,
         Third!Lite!Healthy, Third!Lite!Kick, Third!Lite!Settle, Third!Lite!MainDead,
         Third!Lite!CanTakeOver, Third!Lite!Backup, Third!Lite!Expire, Third!Lite!Needs,
         Third!Lite!Scanning, Third!Lite!Candidates, Third!Lite!Fitting, Third!Lite!Active,
         Third!Lite!AtDial, Third!Lite!Forgotten, Third!Lite!Superseded, Third!Lite!Terminated,
         Third!Lite!GoDial, Third!Lite!Alive, Third!Lite!Matches, Third!Lite!IdleDial,
         Third!Lite!Up, Third!Lite!Sleeping
<1> QED BY <1>1, <1>2, PTL DEF Broken!Spec, Third!Lite!Spec, Broken!vars, Third!Lite!vars

-----------------------------------------------------------------------------
(* Each part, whatever moves *)

OnTraffic  == focus = "traffic"
OnRestarts == focus = "restarts"
OnRemoved  == focus = "removed"
OnSteady   == focus = "steady"
OnBridge   == focus = "bridge"
OnRaises   == focus = "raises"
OnSpares   == focus = "spares"
OnBroken   == focus = "broken"

LEMMA PresencePart == NodeSpec => Spec
<1>1. NodeInit => Init
  BY DEF NodeInit
<1>2. [NodeNext]_nodeVars => [Next]_vars
  BY DEF NodeNext, nodeVars
<1> QED BY <1>1, <1>2, PTL DEF NodeSpec, Spec

LEMMA GatewayPart == NodeSpec => Gateway!Spec
<1>1. NodeInit => Gateway!Init
  BY DEF NodeInit
<1>2. [NodeNext]_nodeVars => [Gateway!Next]_Gateway!vars
  BY DEF NodeNext, nodeVars, gatewayVars, Gateway!vars, Gateway!files
<1> QED BY <1>1, <1>2, PTL DEF NodeSpec, Gateway!Spec

\* The part that moves is always the same.

LEMMA TrafficStays == (NodeSpec /\ OnTraffic => []OnTraffic) /\ (NodeSpec /\ ~OnTraffic => []~OnTraffic)
<1>1. OnTraffic /\ [NodeNext]_nodeVars => OnTraffic'
  BY DEF NodeNext, nodeVars, OnTraffic
<1>2. ~OnTraffic /\ [NodeNext]_nodeVars => ~OnTraffic'
  BY DEF NodeNext, nodeVars, OnTraffic
<1> QED BY <1>1, <1>2, PTL DEF NodeSpec

LEMMA RestartsStays == (NodeSpec /\ OnRestarts => []OnRestarts) /\ (NodeSpec /\ ~OnRestarts => []~OnRestarts)
<1>1. OnRestarts /\ [NodeNext]_nodeVars => OnRestarts'
  BY DEF NodeNext, nodeVars, OnRestarts
<1>2. ~OnRestarts /\ [NodeNext]_nodeVars => ~OnRestarts'
  BY DEF NodeNext, nodeVars, OnRestarts
<1> QED BY <1>1, <1>2, PTL DEF NodeSpec

LEMMA RemovedStays == (NodeSpec /\ OnRemoved => []OnRemoved) /\ (NodeSpec /\ ~OnRemoved => []~OnRemoved)
<1>1. OnRemoved /\ [NodeNext]_nodeVars => OnRemoved'
  BY DEF NodeNext, nodeVars, OnRemoved
<1>2. ~OnRemoved /\ [NodeNext]_nodeVars => ~OnRemoved'
  BY DEF NodeNext, nodeVars, OnRemoved
<1> QED BY <1>1, <1>2, PTL DEF NodeSpec

LEMMA SteadyStays == (NodeSpec /\ OnSteady => []OnSteady) /\ (NodeSpec /\ ~OnSteady => []~OnSteady)
<1>1. OnSteady /\ [NodeNext]_nodeVars => OnSteady'
  BY DEF NodeNext, nodeVars, OnSteady
<1>2. ~OnSteady /\ [NodeNext]_nodeVars => ~OnSteady'
  BY DEF NodeNext, nodeVars, OnSteady
<1> QED BY <1>1, <1>2, PTL DEF NodeSpec

LEMMA BridgeStays == (NodeSpec /\ OnBridge => []OnBridge) /\ (NodeSpec /\ ~OnBridge => []~OnBridge)
<1>1. OnBridge /\ [NodeNext]_nodeVars => OnBridge'
  BY DEF NodeNext, nodeVars, OnBridge
<1>2. ~OnBridge /\ [NodeNext]_nodeVars => ~OnBridge'
  BY DEF NodeNext, nodeVars, OnBridge
<1> QED BY <1>1, <1>2, PTL DEF NodeSpec

LEMMA RaisesStays == (NodeSpec /\ OnRaises => []OnRaises) /\ (NodeSpec /\ ~OnRaises => []~OnRaises)
<1>1. OnRaises /\ [NodeNext]_nodeVars => OnRaises'
  BY DEF NodeNext, nodeVars, OnRaises
<1>2. ~OnRaises /\ [NodeNext]_nodeVars => ~OnRaises'
  BY DEF NodeNext, nodeVars, OnRaises
<1> QED BY <1>1, <1>2, PTL DEF NodeSpec

LEMMA SparesStays == (NodeSpec /\ OnSpares => []OnSpares) /\ (NodeSpec /\ ~OnSpares => []~OnSpares)
<1>1. OnSpares /\ [NodeNext]_nodeVars => OnSpares'
  BY DEF NodeNext, nodeVars, OnSpares
<1>2. ~OnSpares /\ [NodeNext]_nodeVars => ~OnSpares'
  BY DEF NodeNext, nodeVars, OnSpares
<1> QED BY <1>1, <1>2, PTL DEF NodeSpec

LEMMA BrokenStays == (NodeSpec /\ OnBroken => []OnBroken) /\ (NodeSpec /\ ~OnBroken => []~OnBroken)
<1>1. OnBroken /\ [NodeNext]_nodeVars => OnBroken'
  BY DEF NodeNext, nodeVars, OnBroken
<1>2. ~OnBroken /\ [NodeNext]_nodeVars => ~OnBroken'
  BY DEF NodeNext, nodeVars, OnBroken
<1> QED BY <1>1, <1>2, PTL DEF NodeSpec

LEMMA TrafficPart == NodeSpec /\ ~OnRestarts /\ ~OnRemoved => Traffic!Spec
<1>1. NodeInit /\ ~OnRestarts /\ ~OnRemoved => Traffic!Init
  BY DEF NodeInit, OnRestarts, OnRemoved
<1>2. ~OnRestarts /\ ~OnRemoved /\ [NodeNext]_nodeVars => [Traffic!Next]_Traffic!vars
  BY DEF NodeNext, nodeVars, trafficVars, Traffic!vars, OnRestarts, OnRemoved
<1> QED BY <1>1, <1>2, RestartsStays, RemovedStays, PTL DEF NodeSpec, Traffic!Spec

LEMMA RestartsPart == NodeSpec /\ OnRestarts => Restarts!Spec
<1>1. NodeInit /\ OnRestarts => Restarts!Init
  BY DEF NodeInit, OnRestarts
<1>2. OnRestarts /\ [NodeNext]_nodeVars => [Restarts!Next]_Restarts!vars
  BY DEF NodeNext, nodeVars, trafficVars, Restarts!vars, OnRestarts
<1> QED BY <1>1, <1>2, RestartsStays, PTL DEF NodeSpec, Restarts!Spec

LEMMA RemovedPart == NodeSpec /\ OnRemoved => Removed!Spec
<1>1. NodeInit /\ OnRemoved => Removed!Init
  BY DEF NodeInit, OnRemoved,
         Restarts!Init, Restarts!Settled, Restarts!FreeHandler, Restarts!NoBytes, Restarts!NoDelta,
         Removed!Init, Removed!Settled, Removed!FreeHandler, Removed!NoBytes, Removed!NoDelta
<1>2. OnRemoved /\ [NodeNext]_nodeVars => [Removed!Next]_Removed!vars
  BY DEF NodeNext, nodeVars, trafficVars, Removed!vars, OnRemoved
<1> QED BY <1>1, <1>2, RemovedStays, PTL DEF NodeSpec, Removed!Spec

LEMMA EgressPart == NodeSpec /\ ~OnSteady => Egress!Spec
<1>1. NodeInit /\ ~OnSteady => Egress!Init
  BY DEF NodeInit, OnSteady
<1>2. ~OnSteady /\ [NodeNext]_nodeVars => [Egress!Next]_Egress!vars
  BY DEF NodeNext, nodeVars, egressVars, Egress!vars, OnSteady
<1> QED BY <1>1, <1>2, SteadyStays, PTL DEF NodeSpec, Egress!Spec

LEMMA SteadyPart == NodeSpec /\ OnSteady => Steady!Spec
<1>1. NodeInit /\ OnSteady => Steady!Init
  BY DEF NodeInit, OnSteady,
         Egress!Init, Egress!IdleAgent, Steady!Init, Steady!IdleAgent
<1>2. OnSteady /\ [NodeNext]_nodeVars => [Steady!Next]_Steady!vars
  BY DEF NodeNext, nodeVars, egressVars, Steady!vars, OnSteady
<1> QED BY <1>1, <1>2, SteadyStays, PTL DEF NodeSpec, Steady!Spec

LEMMA BridgePart == NodeSpec /\ ~OnRaises => Bridge!Spec
<1>1. NodeInit /\ ~OnRaises => Bridge!Init
  BY DEF NodeInit, OnRaises
<1>2. ~OnRaises /\ [NodeNext]_nodeVars => [Bridge!Next]_Bridge!vars
  BY DEF NodeNext, nodeVars, bridgeVars, Bridge!vars, OnRaises
<1> QED BY <1>1, <1>2, RaisesStays, PTL DEF NodeSpec, Bridge!Spec

LEMMA RaisesPart == NodeSpec /\ OnRaises => Raises!Spec
<1>1. NodeInit /\ OnRaises => Raises!Init
  BY DEF NodeInit, OnRaises,
         Bridge!Init, Bridge!Idle, Raises!Init, Raises!Idle
<1>2. OnRaises /\ [NodeNext]_nodeVars => [Raises!Next]_Raises!vars
  BY DEF NodeNext, nodeVars, bridgeVars, Raises!vars, OnRaises
<1> QED BY <1>1, <1>2, RaisesStays, PTL DEF NodeSpec, Raises!Spec

LEMMA LitePart == NodeSpec /\ ~OnSpares /\ ~OnBroken => Lite!Spec
<1>1. NodeInit /\ ~OnSpares /\ ~OnBroken => Lite!Init
  BY DEF NodeInit, OnSpares, OnBroken
<1>2. ~OnSpares /\ ~OnBroken /\ [NodeNext]_nodeVars => [Lite!Next]_Lite!vars
  BY DEF NodeNext, nodeVars, liteVars, Lite!vars, OnSpares, OnBroken
<1> QED BY <1>1, <1>2, SparesStays, BrokenStays, PTL DEF NodeSpec, Lite!Spec

LEMMA SparesPart == NodeSpec /\ OnSpares => Spares!Spec
<1>1. NodeInit /\ OnSpares => Spares!Init
  BY DEF NodeInit, OnSpares
<1>2. OnSpares /\ [NodeNext]_nodeVars => [Spares!Next]_Spares!vars
  BY DEF NodeNext, nodeVars, liteVars, Spares!vars, OnSpares
<1> QED BY <1>1, <1>2, SparesStays, PTL DEF NodeSpec, Spares!Spec

LEMMA BrokenPart == NodeSpec /\ OnBroken => Broken!Spec
<1>1. NodeInit /\ OnBroken => Broken!Init
  BY DEF NodeInit, OnBroken
<1>2. OnBroken /\ [NodeNext]_nodeVars => [Broken!Next]_Broken!vars
  BY DEF NodeNext, nodeVars, liteVars, Broken!vars, OnBroken
<1> QED BY <1>1, <1>2, BrokenStays, PTL DEF NodeSpec, Broken!Spec

-----------------------------------------------------------------------------
(* What the cases of their own inherit *)

LEMMA RestartsTyped == Restarts!Spec => []Restarts!TypeOK
<1>1. Second!Traffic!TypeOK <=> Restarts!TypeOK
  BY DEF Restarts!TypeOK, Restarts!Bytes, Restarts!Ledger, Restarts!Handler, Restarts!Partial,
         Second!Traffic!TypeOK, Second!Traffic!Bytes, Second!Traffic!Ledger, Second!Traffic!Handler,
         Second!Traffic!Partial
<1>2. Second!Traffic!Spec => []Second!Traffic!TypeOK
  BY Second!TrafficTypeCorrect, SecondAssumed
<1> QED BY <1>1, <1>2, RestartsIsSecond, PTL

LEMMA RemovedTyped == Removed!Spec => []Restarts!TypeOK
<1>1. Third!Traffic!TypeOK <=> Restarts!TypeOK
  BY DEF Restarts!TypeOK, Restarts!Bytes, Restarts!Ledger, Restarts!Handler, Restarts!Partial,
         Third!Traffic!TypeOK, Third!Traffic!Bytes, Third!Traffic!Ledger, Third!Traffic!Handler,
         Third!Traffic!Partial
<1>2. Third!Traffic!Spec => []Third!Traffic!TypeOK
  BY Third!TrafficTypeCorrect, ThirdAssumed
<1> QED BY <1>1, <1>2, RemovedIsThird, PTL

LEMMA SteadyTyped == Steady!Spec => []Steady!TypeOK
<1>1. Second!Egress!TypeOK <=> Steady!TypeOK
  BY DEF Steady!TypeOK, Steady!CloudRec, Steady!StateRec, Steady!AgentRec, Steady!Result,
         Steady!Revisions, Steady!Steps, Second!Egress!TypeOK, Second!Egress!CloudRec,
         Second!Egress!StateRec, Second!Egress!AgentRec, Second!Egress!Result,
         Second!Egress!Revisions, Second!Egress!Steps
<1>2. Second!Egress!Spec => []Second!Egress!TypeOK
  BY Second!EgressTypeCorrect, SecondAssumed
<1> QED BY <1>1, <1>2, SteadyIsSecond, PTL

LEMMA RaisesTyped == Raises!Spec => []Bridge!TypeOK
<1>1. Second!Bridge!TypeOK <=> Bridge!TypeOK
  BY DEF Bridge!TypeOK, Bridge!Busy, Second!Bridge!TypeOK, Second!Bridge!Busy,
         Bridge!Cardinality, Second!Bridge!Cardinality
<1>2. Second!Bridge!Spec => []Second!Bridge!TypeOK
  BY Second!BridgeTypeCorrect, SecondAssumed
<1> QED BY <1>1, <1>2, RaisesIsSecond, PTL

LEMMA SparesTyped == Spares!Spec => []Spares!TypeOK
<1>1. Second!Lite!TypeOK <=> Spares!TypeOK
  BY DEF Spares!TypeOK, Spares!TunnelRec, Spares!ProcRec, Spares!DialRec, Spares!PoolRec,
         Spares!HealthRec, Second!Lite!TypeOK, Second!Lite!TunnelRec, Second!Lite!ProcRec,
         Second!Lite!DialRec, Second!Lite!PoolRec, Second!Lite!HealthRec
<1>2. Second!Lite!Spec => []Second!Lite!TypeOK
  BY Second!LiteTypeCorrect, SecondAssumed
<1> QED BY <1>1, <1>2, SparesIsSecond, PTL

LEMMA BrokenTyped == Broken!Spec => []Broken!TypeOK
<1>1. Third!Lite!TypeOK <=> Broken!TypeOK
  BY DEF Broken!TypeOK, Broken!TunnelRec, Broken!ProcRec, Broken!DialRec, Broken!PoolRec,
         Broken!HealthRec, Third!Lite!TypeOK, Third!Lite!TunnelRec, Third!Lite!ProcRec,
         Third!Lite!DialRec, Third!Lite!PoolRec, Third!Lite!HealthRec
<1>2. Third!Lite!Spec => []Third!Lite!TypeOK
  BY Third!LiteTypeCorrect, ThirdAssumed
<1> QED BY <1>1, <1>2, BrokenIsThird, PTL

LEMMA RestartsBilled == Restarts!Spec => []BilledOnce
<1>1. Second!BilledOnce <=> BilledOnce
  BY DEF BilledOnce, Traffic!BilledOnce, Traffic!NeverOverbilled, Traffic!OneContent,
         Second!BilledOnce, Second!Traffic!BilledOnce, Second!Traffic!NeverOverbilled,
         Second!Traffic!OneContent
<1>2. Second!Traffic!Spec => []Second!BilledOnce
  BY Second!TrafficBilledOnce, SecondAssumed
<1> QED BY <1>1, <1>2, RestartsIsSecond, PTL

LEMMA RemovedBilled == Removed!Spec => []BilledOnce
<1>1. Third!BilledOnce <=> BilledOnce
  BY DEF BilledOnce, Traffic!BilledOnce, Traffic!NeverOverbilled, Traffic!OneContent,
         Third!BilledOnce, Third!Traffic!BilledOnce, Third!Traffic!NeverOverbilled,
         Third!Traffic!OneContent
<1>2. Third!Traffic!Spec => []Third!BilledOnce
  BY Third!TrafficBilledOnce, ThirdAssumed
<1> QED BY <1>1, <1>2, RemovedIsThird, PTL

LEMMA SteadyFollowed == Steady!Spec => []CloudFollowsAgent
<1>1. Second!CloudFollowsAgent <=> CloudFollowsAgent
  BY DEF CloudFollowsAgent, Egress!CloudFollowsAgent, Second!CloudFollowsAgent,
         Second!Egress!CloudFollowsAgent
<1>2. Second!Egress!Spec => []Second!CloudFollowsAgent
  BY Second!EgressFollowed, SecondAssumed
<1> QED BY <1>1, <1>2, SteadyIsSecond, PTL

LEMMA SteadyVerified == Steady!Spec => VerifiedWhenSaved
<1>1. Second!VerifiedWhenSaved <=> VerifiedWhenSaved
  BY PTL DEF VerifiedWhenSaved, Egress!VerifiedWhenSaved, Egress!vars, Second!VerifiedWhenSaved,
             Second!Egress!VerifiedWhenSaved, Second!Egress!vars, Egress!Verified, Egress!Passes,
             Egress!Families, Second!Egress!Verified, Second!Egress!Passes, Second!Egress!Families
<1>2. Second!Egress!Spec => Second!VerifiedWhenSaved
  BY Second!EgressVerified, SecondAssumed
<1> QED BY <1>1, <1>2, SteadyIsSecond

LEMMA SteadyReported == Steady!Spec => []ReportedModeRuns
<1>1. Second!ReportedModeRuns <=> ReportedModeRuns
  BY DEF ReportedModeRuns, Egress!ReportedModeRuns, Egress!At, Second!ReportedModeRuns,
         Second!Egress!ReportedModeRuns, Second!Egress!At
<1>2. "crashMid" \notin EgressFaults \ {"crashMid"}
  OBVIOUS
<1>3. Second!Egress!Spec => []Second!ReportedModeRuns
  BY <1>2, Second!EgressReported, SecondAssumed
<1> QED BY <1>1, <1>3, SteadyIsSecond, PTL

LEMMA SparesOrdered == Spares!Spec => []Spares!TunnelsInOrder
<1>1. Second!Lite!TunnelsInOrder <=> Spares!TunnelsInOrder
  BY DEF Spares!TunnelsInOrder, Spares!ReadyIsWanted, Spares!Matches, Spares!DistinctEntries,
         Spares!NoStrayProcess, Spares!Owned, Spares!OneDial,
         Second!Lite!TunnelsInOrder, Second!Lite!ReadyIsWanted, Second!Lite!Matches,
         Second!Lite!DistinctEntries, Second!Lite!NoStrayProcess, Second!Lite!Owned,
         Second!Lite!OneDial
<1>2. "raise" \notin {"probe"}
  OBVIOUS
<1>3. Second!Lite!Spec => []Second!Lite!TunnelsInOrder
  BY <1>2, Second!LiteInOrder, SecondAssumed
<1> QED BY <1>1, <1>3, SparesIsSecond, PTL

BrokenClaims == Broken!ReadyIsWanted /\ Broken!DistinctEntries /\ Broken!OneDial

LEMMA BrokenClaimed == Broken!Spec => []BrokenClaims
<1>1. Third!Lite!ReadyIsWanted /\ Third!Lite!DistinctEntries /\ Third!Lite!OneDial <=> BrokenClaims
  BY DEF BrokenClaims, Broken!ReadyIsWanted, Broken!Matches, Broken!DistinctEntries, Broken!OneDial,
         Third!Lite!ReadyIsWanted, Third!Lite!Matches, Third!Lite!DistinctEntries, Third!Lite!OneDial
<1>2. Third!Lite!Spec => [](Third!Lite!ReadyIsWanted /\ Third!Lite!DistinctEntries /\ Third!Lite!OneDial)
  BY Third!LiteClaimed, ThirdAssumed
<1> QED BY <1>1, <1>2, BrokenIsThird, PTL

-----------------------------------------------------------------------------
(* The whole *)

Parts == {"presence", "traffic", "restarts", "removed", "egress", "steady", "gateway",
          "bridge", "raises", "lite", "spares", "broken"}

TrafficTypeOK == IF OnRestarts \/ OnRemoved THEN Restarts!TypeOK ELSE Traffic!TypeOK
EgressTypeOK  == IF OnSteady THEN Steady!TypeOK ELSE Egress!TypeOK
LiteTypeOK    == IF OnSpares THEN Spares!TypeOK ELSE IF OnBroken THEN Broken!TypeOK ELSE Lite!TypeOK

LEMMA TrafficAllTyped == NodeSpec => []TrafficTypeOK
<1>1. OnRestarts /\ Restarts!TypeOK => TrafficTypeOK
  BY DEF TrafficTypeOK
<1>2. OnRemoved /\ Restarts!TypeOK => TrafficTypeOK
  BY DEF TrafficTypeOK
<1>3. ~OnRestarts /\ ~OnRemoved /\ Traffic!TypeOK => TrafficTypeOK
  BY DEF TrafficTypeOK
<1> QED BY <1>1, <1>2, <1>3, RestartsStays, RemovedStays, TrafficPart, RestartsPart, RemovedPart,
           TrafficTypeCorrect, RestartsTyped, RemovedTyped, PTL

LEMMA EgressAllTyped == NodeSpec => []EgressTypeOK
<1>1. OnSteady /\ Steady!TypeOK => EgressTypeOK
  BY DEF EgressTypeOK
<1>2. ~OnSteady /\ Egress!TypeOK => EgressTypeOK
  BY DEF EgressTypeOK
<1> QED BY <1>1, <1>2, SteadyStays, EgressPart, SteadyPart, EgressTypeCorrect, SteadyTyped, PTL

LEMMA BridgeAllTyped == NodeSpec => []Bridge!TypeOK
BY BridgePart, RaisesPart, BridgeTypeCorrect, RaisesTyped, PTL

LEMMA LiteAllTyped == NodeSpec => []LiteTypeOK
<1>1. OnSpares /\ Spares!TypeOK => LiteTypeOK
  BY DEF LiteTypeOK
<1>2. OnBroken /\ Broken!TypeOK => LiteTypeOK
  BY DEF LiteTypeOK, OnSpares, OnBroken
<1>3. ~OnSpares /\ ~OnBroken /\ Lite!TypeOK => LiteTypeOK
  BY DEF LiteTypeOK
<1> QED BY <1>1, <1>2, <1>3, SparesStays, BrokenStays, LitePart, SparesPart, BrokenPart,
           LiteTypeCorrect, SparesTyped, BrokenTyped, PTL

\* Whichever part moves, in every reachable state its variables have their types.
THEOREM NodeTyped == NodeSpec => []AllTyped
<1>1. NodeSpec => [](focus \in Parts)
  <2>1. NodeInit => focus \in Parts
    BY DEF NodeInit, Parts
  <2>2. focus \in Parts /\ [NodeNext]_nodeVars => (focus \in Parts)'
    BY DEF NodeNext, nodeVars, Parts
  <2> QED BY <2>1, <2>2, PTL DEF NodeSpec
<1>2. focus \in Parts /\ TypeOK /\ TrafficTypeOK /\ EgressTypeOK /\ Gateway!TypeOK /\ Bridge!TypeOK /\ LiteTypeOK
      => AllTyped
  BY DEF Parts, TrafficTypeOK, EgressTypeOK, LiteTypeOK, OnRestarts, OnRemoved, OnSteady, OnSpares,
         OnBroken, AllTyped
<1>3. NodeSpec => []TypeOK
  BY PresencePart, TypeCorrect
<1>4. NodeSpec => []Gateway!TypeOK
  BY GatewayPart, GatewayTypeCorrect
<1> QED BY <1>1, <1>2, <1>3, <1>4, TrafficAllTyped, EgressAllTyped, BridgeAllTyped, LiteAllTyped, PTL

LEMMA AllBilledOnce == NodeSpec => []BilledOnce
BY TrafficPart, RestartsPart, RemovedPart, TrafficBilledOnce, RestartsBilled, RemovedBilled, PTL

LEMMA AllFollowed == NodeSpec => []CloudFollowsAgent
BY EgressPart, SteadyPart, EgressFollowed, SteadyFollowed, PTL

LEMMA AllReported == NodeSpec => []ReportedModeRuns
<1>1. ~OnSteady => ReportedModeRuns
  BY DEF OnSteady, ReportedModeRuns
<1> QED BY <1>1, SteadyStays, SteadyPart, SteadyReported, PTL

\* What holds of the parts whatever fails holds of them side by side, in each of
\* their cases: nothing fresh is dropped, no byte is billed twice, the cloud shows
\* what was applied, a mode reported as running runs where no change is cut off in
\* the middle, and the files of the containers agree.
THEOREM NodeSafe ==
    NodeSpec => [](/\ NothingFreshDropped /\ BilledOnce /\ CloudFollowsAgent /\ ReportedModeRuns
                   /\ FilesAgree)
<1>1. NodeSpec => []NothingFreshDropped
  BY PresencePart, FreshKept
<1>2. NodeSpec => []FilesAgree
  BY GatewayPart, GatewayFilesAgree
<1> QED BY <1>1, <1>2, AllBilledOnce, AllFollowed, AllReported, PTL

\* So does what no step may do: a verified mode is saved only while it runs, and a
\* slot keeps its uuid.
THEOREM NodeActs == NodeSpec => VerifiedWhenSaved /\ UuidsKept
<1>1. NodeSpec => UuidsKept
  BY GatewayPart, GatewayKeepsUuids
<1> QED BY <1>1, EgressPart, SteadyPart, EgressVerified, SteadyVerified

\* While counters only grow, the state file accounts for every byte billed.
THEOREM NodeNothingLost == ASSUME GrowsOnly PROVE NodeSpec => []NothingLost
<1>1. ~OnTraffic => NothingLost
  BY DEF OnTraffic, NothingLost
<1>2. OnTraffic => ~OnRestarts /\ ~OnRemoved
  BY DEF OnTraffic, OnRestarts, OnRemoved
<1>3. Traffic!Spec => []NothingLost
  BY TrafficNothingLost
<1> QED BY <1>1, <1>2, <1>3, TrafficStays, TrafficPart, PTL

\* Where the refresher sleeps no longer than an entry is valid (as by default) and
\* no test raises, the chain nodes stay published until the sleep is over.
THEOREM NodePublished ==
    ASSUME Interval <= MaxAge, "raise" \notin BridgeFaults
    PROVE  NodeSpec => []ChainPublished
<1>1. ~OnBridge => ChainPublished
  BY DEF OnBridge, ChainPublished
<1>2. OnBridge => ~OnRaises
  BY DEF OnBridge, OnRaises
<1>3. Bridge!Spec => []ChainPublished
  BY BridgePublished
<1> QED BY <1>1, <1>2, <1>3, BridgeStays, BridgePart, PTL

\* Where no dial raises the tunnels stay in order; where dials raise, all but the
\* processes do.
THEOREM NodeTunnelsInOrder ==
    ASSUME "raise" \notin LiteFaults
    PROVE  NodeSpec => []TunnelsInOrder
<1>1. OnSpares /\ Spares!TunnelsInOrder => TunnelsInOrder
  BY DEF OnSpares, TunnelsInOrder
<1>2. OnBroken /\ BrokenClaims => TunnelsInOrder
  BY DEF OnBroken, BrokenClaims, TunnelsInOrder
<1>3. ~OnSpares /\ ~OnBroken /\ Lite!TunnelsInOrder => TunnelsInOrder
  BY DEF OnSpares, OnBroken, TunnelsInOrder
<1>4. Lite!Spec => []Lite!TunnelsInOrder
  BY LiteInOrder
<1> QED BY <1>1, <1>2, <1>3, <1>4, SparesStays, BrokenStays, LitePart, SparesPart, BrokenPart,
           SparesOrdered, BrokenClaimed, PTL
=============================================================================
