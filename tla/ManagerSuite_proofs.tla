------------------------ MODULE ManagerSuite_proofs ------------------------
(***************************************************************************)
(* ManagerSafety as a whole: its specification implies the one of each part, *)
(* hence every property its run checks is proved of that specification, for  *)
(* every value of the constants. Slots of any country are one more instance  *)
(* of what Manager_proofs proves.                                            *)
(***************************************************************************)
EXTENDS Manager_proofs

Any == INSTANCE Manager_proofs WITH
    Want <- [s \in PoolSlots |-> "ANY"], Pings <- AnyPings, Blames <- AnyBlames

Parts == {"health", "realm", "proxy", "pool", "poolAny", "records", "entry"}

-----------------------------------------------------------------------------
(* Each part, whatever moves *)

LEMMA HealthRuns == ManagerSpec => Spec
<1>1. ManagerInit => Init
  BY DEF ManagerInit
<1>2. [ManagerNext]_managerVars => [Next]_vars
  BY DEF ManagerNext, managerVars
<1> QED BY <1>1, <1>2, PTL DEF ManagerSpec, Spec

LEMMA RealmRuns == ManagerSpec => Realm!Spec
<1>1. ManagerInit => Realm!Init
  BY DEF ManagerInit
<1>2. [ManagerNext]_managerVars => [Realm!Next]_Realm!vars
  BY DEF ManagerNext, managerVars, realmVars, Realm!vars
<1> QED BY <1>1, <1>2, PTL DEF ManagerSpec, Realm!Spec

LEMMA ProxyRuns == ManagerSpec => Proxy!Spec
<1>1. ManagerInit => Proxy!Init
  BY DEF ManagerInit
<1>2. [ManagerNext]_managerVars => [Proxy!Next]_Proxy!vars
  BY DEF ManagerNext, managerVars, proxyVars, Proxy!vars
<1> QED BY <1>1, <1>2, PTL DEF ManagerSpec, Proxy!Spec

LEMMA RecordsRun == ManagerSpec => Records!Spec
<1>1. ManagerInit => Records!Init
  BY DEF ManagerInit
<1>2. [ManagerNext]_managerVars => [Records!Next]_Records!vars
  BY DEF ManagerNext, managerVars, recordsVars, Records!vars
<1> QED BY <1>1, <1>2, PTL DEF ManagerSpec, Records!Spec

LEMMA EntryRuns == ManagerSpec => Entry!Spec
<1>1. ManagerInit => Entry!Init
  BY DEF ManagerInit
<1>2. [ManagerNext]_managerVars => [Entry!Next]_Entry!vars
  BY DEF ManagerNext, managerVars, entryVars, Entry!vars
<1> QED BY <1>1, <1>2, PTL DEF ManagerSpec, Entry!Spec

\* The same variables are a pool for a country or for any.
AnyCountry == focus = "poolAny"

LEMMA PoolRuns == ManagerSpec /\ ~AnyCountry => Pool!Spec
<1>1. ManagerInit /\ ~AnyCountry => Pool!Init
  BY DEF ManagerInit, AnyCountry
<1>2. ~AnyCountry /\ [ManagerNext]_managerVars => ~AnyCountry'
  BY DEF ManagerNext, managerVars, AnyCountry
<1>3. ~AnyCountry /\ [ManagerNext]_managerVars => [Pool!Next]_Pool!vars
  BY DEF ManagerNext, managerVars, poolVars, Pool!vars, AnyCountry
<1> QED BY <1>1, <1>2, <1>3, PTL DEF ManagerSpec, Pool!Spec

LEMMA PoolAnyRuns == ManagerSpec /\ AnyCountry => PoolAny!Spec
<1>1. ManagerInit /\ AnyCountry => PoolAny!Init
  BY DEF ManagerInit, AnyCountry
<1>2. AnyCountry /\ [ManagerNext]_managerVars => AnyCountry'
  BY DEF ManagerNext, managerVars, AnyCountry
<1>3. AnyCountry /\ [ManagerNext]_managerVars => [PoolAny!Next]_PoolAny!vars
  BY DEF ManagerNext, managerVars, poolVars, PoolAny!vars, AnyCountry
<1> QED BY <1>1, <1>2, <1>3, PTL DEF ManagerSpec, PoolAny!Spec

-----------------------------------------------------------------------------
(* The pool for slots of any country *)

\* What is assumed of the constants does not depend on the three that differ.
LEMMA AnyAssumed == Any!HealthAssumption /\ Any!ManagerAssumption
<1>1. Any!Realm!RealmAssumption 
  BY ManagerAssumption DEF ManagerAssumption, Any!Realm!RealmAssumption, Realm!RealmAssumption
<1>2. Any!Proxy!ListenerAssumption
  BY ManagerAssumption
     DEF ManagerAssumption, Any!Proxy!ListenerAssumption, Proxy!ListenerAssumption, Proxy!IsFiniteSet, Any!Proxy!IsFiniteSet
<1>3. Any!Pool!PoolAssumption /\ Any!PoolAny!PoolAssumption
  BY ManagerAssumption
     DEF ManagerAssumption, Any!Pool!PoolAssumption, Any!PoolAny!PoolAssumption, PoolAny!PoolAssumption
<1>4. Any!Records!RecordsAssumption
  BY ManagerAssumption
     DEF ManagerAssumption, Any!Records!RecordsAssumption, Records!RecordsAssumption, Any!Records!Row, Records!Row
<1>5. Any!Entry!StartupAssumption
  BY ManagerAssumption
     DEF ManagerAssumption, Any!Entry!StartupAssumption, Entry!StartupAssumption,
         Any!Entry!MAX_SLOT_COUNT, Entry!MAX_SLOT_COUNT
<1>6. Any!HealthAssumption
  BY HealthAssumption DEF HealthAssumption, Any!HealthAssumption, IsFiniteSet, Any!IsFiniteSet
<1> QED BY <1>1, <1>2, <1>3, <1>4, <1>5, <1>6 DEF Any!ManagerAssumption

\* One definition at a time, from the inside out.
LEMMA AnySpec == PoolAny!Spec <=> Any!Pool!Spec
<1>1. PoolAny!Init <=> Any!Pool!Init
  BY DEF PoolAny!Init, Any!Pool!Init, PoolAny!Idle, PoolAny!NoEvent, Any!Pool!Idle, Any!Pool!NoEvent
<1>2. PoolAny!Next <=> Any!Pool!Next
  BY DEF PoolAny!Next, PoolAny!Refresh, PoolAny!Shutdown, PoolAny!Crash, PoolAny!Forget, PoolAny!Start,
         PoolAny!Tick, PoolAny!SlotStep, PoolAny!Take, PoolAny!TakeNone, PoolAny!Fail, PoolAny!Commit,
         PoolAny!Refuse, PoolAny!Record, PoolAny!Drop, PoolAny!Blame, PoolAny!Named, PoolAny!Combined,
         PoolAny!Offer, PoolAny!Merged, PoolAny!Loaded, PoolAny!Replaced, PoolAny!Pauses, PoolAny!Pruned,
         PoolAny!Suits, PoolAny!Excluded, PoolAny!Tier, PoolAny!Before, PoolAny!Ordinary,
         PoolAny!Foremost, PoolAny!Preferred, PoolAny!Remembered, PoolAny!Aged, PoolAny!Idle,
         PoolAny!NoEvent, PoolAny!Lesser, PoolAny!Bigger,
         Any!Pool!Next, Any!Pool!Refresh, Any!Pool!Shutdown, Any!Pool!Crash, Any!Pool!Forget, Any!Pool!Start,
         Any!Pool!Tick, Any!Pool!SlotStep, Any!Pool!Take, Any!Pool!TakeNone, Any!Pool!Fail, Any!Pool!Commit,
         Any!Pool!Refuse, Any!Pool!Record, Any!Pool!Drop, Any!Pool!Blame, Any!Pool!Named, Any!Pool!Combined,
         Any!Pool!Offer, Any!Pool!Merged, Any!Pool!Loaded, Any!Pool!Replaced, Any!Pool!Pauses, Any!Pool!Pruned,
         Any!Pool!Suits, Any!Pool!Excluded, Any!Pool!Tier, Any!Pool!Before, Any!Pool!Ordinary,
         Any!Pool!Foremost, Any!Pool!Preferred, Any!Pool!Remembered, Any!Pool!Aged, Any!Pool!Idle,
         Any!Pool!NoEvent, Any!Pool!Lesser, Any!Pool!Bigger
<1> QED BY <1>1, <1>2, PTL DEF PoolAny!Spec, Any!Pool!Spec, PoolAny!vars, Any!Pool!vars

LEMMA AnyChosen == PoolAny!Spec => PoolAny!PeersChosen
<1>1. Any!Pool!PeersChosen <=> PoolAny!PeersChosen
  BY PTL DEF PoolAny!PeersChosen, Any!Pool!PeersChosen, PoolAny!CooldownHeld, Any!Pool!CooldownHeld,
     PoolAny!PreferredOnce, Any!Pool!PreferredOnce, PoolAny!EntryRecovered, Any!Pool!EntryRecovered,
     PoolAny!vars, Any!Pool!vars
<1>2. Any!Pool!Spec => Any!Pool!PeersChosen
  BY Any!PeersAlwaysChosen, AnyAssumed DEF Any!PeersChosen
<1> QED BY <1>1, <1>2, AnySpec

LEMMA SameChoice == PoolAny!PeersChosen <=> PeersChosen
  BY PTL DEF PoolAny!PeersChosen, Pool!PeersChosen, PeersChosen, PoolAny!CooldownHeld, Pool!CooldownHeld,
     PoolAny!PreferredOnce, Pool!PreferredOnce, PoolAny!EntryRecovered, Pool!EntryRecovered,
     PoolAny!vars, Pool!vars

LEMMA AnyTyped == PoolAny!Spec => []PoolAny!TypeOK
<1>1. Any!Pool!TypeOK <=> PoolAny!TypeOK
  BY DEF PoolAny!TypeOK, Any!Pool!TypeOK, PoolAny!Stored, Any!Pool!Stored
<1>2. Any!Pool!Spec => []Any!Pool!TypeOK
  BY Any!PoolTypeCorrect, AnyAssumed
<1> QED BY <1>1, <1>2, AnySpec, PTL

-----------------------------------------------------------------------------
(* The whole *)

LEMMA ProxyInvariance == Proxy!Spec => []ProxyInv
BY ProxyInitial, ProxyNext, ManagerAssumption, PTL DEF ManagerAssumption, Proxy!Spec

LEMMA RecordsInvariance == Records!Spec => []RecordsInv
BY RecordsInitial, RecordsNext, ManagerAssumption, PTL DEF ManagerAssumption, Records!Spec

LEMMA RealmInvariance == Realm!Spec => []RealmInv
BY RealmInitial, RealmNext, ManagerAssumption, PTL DEF ManagerAssumption, Realm!Spec

PoolsTypeOK == IF AnyCountry THEN PoolAny!TypeOK ELSE Pool!TypeOK

LEMMA PoolsTyped == ManagerSpec => []PoolsTypeOK
<1>1. AnyCountry /\ [ManagerNext]_managerVars => AnyCountry'
  BY DEF ManagerNext, managerVars, AnyCountry
<1>2. ~AnyCountry /\ [ManagerNext]_managerVars => ~AnyCountry'
  BY DEF ManagerNext, managerVars, AnyCountry
<1>3. ManagerSpec /\ AnyCountry => []AnyCountry
  BY <1>1, PTL DEF ManagerSpec
<1>4. ManagerSpec /\ ~AnyCountry => []~AnyCountry
  BY <1>2, PTL DEF ManagerSpec
<1>5. AnyCountry /\ PoolAny!TypeOK => PoolsTypeOK
  BY DEF PoolsTypeOK
<1>6. ~AnyCountry /\ Pool!TypeOK => PoolsTypeOK
  BY DEF PoolsTypeOK
<1> QED BY <1>3, <1>4, <1>5, <1>6, PoolRuns, PoolAnyRuns, PoolTypeCorrect, AnyTyped, PTL

\* Whichever part moves, in every reachable state its variables have their types.
THEOREM ManagerTyped == ManagerSpec => []AllTyped
<1>1. ManagerSpec => [](focus \in Parts)
  <2>1. ManagerInit => focus \in Parts
    BY DEF ManagerInit, Parts
  <2>2. focus \in Parts /\ [ManagerNext]_managerVars => (focus \in Parts)'
    BY DEF ManagerNext, managerVars, Parts
  <2> QED BY <2>1, <2>2, PTL DEF ManagerSpec
<1>2. ProxyInv => Proxy!TypeOK
  BY DEF ProxyInv
<1>3. RecordsInv => Records!TypeOK
  BY DEF RecordsInv
<1>4. RealmInv => Realm!TypeOK
  BY DEF RealmInv
<1>5. focus \in Parts /\ TypeOK /\ Realm!TypeOK /\ Proxy!TypeOK /\ Records!TypeOK /\ Entry!TypeOK /\ PoolsTypeOK
      => AllTyped
  BY DEF Parts, AnyCountry, PoolsTypeOK, AllTyped
<1>6. ManagerSpec => []TypeOK
  BY HealthRuns, HealthTypeCorrect
<1>7. ManagerSpec => []RealmInv
  BY RealmRuns, RealmInvariance
<1>8. ManagerSpec => []ProxyInv
  BY ProxyRuns, ProxyInvariance
<1>9. ManagerSpec => []RecordsInv
  BY RecordsRun, RecordsInvariance
<1>10. ManagerSpec => []Entry!TypeOK
  BY EntryRuns, EntryTypeCorrect
<1> QED BY <1>1, <1>2, <1>3, <1>4, <1>5, <1>6, <1>7, <1>8, <1>9, <1>10, PoolsTyped, PTL

\* Every safety property of the parts holds of them side by side: permits and
\* repairs of the health loops, the forwarder and its restarts, the clients of the
\* listeners and the end of the process.
THEOREM ManagerSafe ==
    ManagerSpec => [](/\ PermitsConserved /\ RepairWakes /\ OneForwarder /\ RestartApplies
                      /\ ClientsAccounted /\ CleanExit)
BY HealthRuns, PermitsKept, RepairsNoticed, RealmRuns, RealmOneForwarder, RealmRestartApplies,
   ProxyRuns, ProxyClientsAccounted, EntryRuns, ExitIsClean, PTL

\* So does what no step may do: peers are chosen as they should be for slots of a
\* country and of any, and no start loses a slot, a port or a column.
THEOREM ManagerActs == ManagerSpec => PeersChosen /\ RecordsSound
BY PoolRuns, PoolAnyRuns, PeersAlwaysChosen, AnyChosen, SameChoice, RecordsRun, RecordsAlwaysSound

\* And no tunnel that works is ended by an outage of the host.
THEOREM ManagerOutage == Validity <= Retry => (ManagerSpec => OutageKeepsTunnels)
BY HealthRuns, OutageKept
=============================================================================
