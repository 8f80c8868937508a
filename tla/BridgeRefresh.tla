----------------------------- MODULE BridgeRefresh -----------------------------
(***************************************************************************)
(* The background refresh of bridge nodes (vps/bridge_nodes.py) and the      *)
(* subscription handler that reads its cache (LocalAPI._bridge_nodes).  One  *)
(* thread fetches the subscriptions, a pool of workers tries the nodes --    *)
(* most of them through a sing-box of their own on a port picked at random   *)
(* -- and what passed goes into the cache, which the handler takes for valid *)
(* during MaxAge.  Time passes in ticks.                                    *)
(***************************************************************************)
EXTENDS Integers, FiniteSets

CONSTANTS
    Nodes,      \* nodes the subscriptions may name
    Curlable,   \* those curl can use without sing-box (http, socks5)
    Priority,   \* those of the countries that are tried first
    Workers,    \* min(max_workers, 8) threads of the pool
    Ports,      \* ports _pick_free_port may draw
    Speeds,     \* outcomes of a speed test; {}: no speed tests
    TopN,       \* KUI_BRIDGE_TOP_N
    TestLimit,  \* how many candidates are tried (60)
    MaxAge,     \* validity of the cache
    Interval,   \* KUI_BRIDGE_REFRESH_INTERVAL
    Faults,     \* subset of {"raise"}: a test may raise
    None        \* no node

BridgeAssumption ==
    /\ IsFiniteSet(Nodes) /\ Curlable \subseteq Nodes /\ Priority \subseteq Nodes /\ None \notin Nodes
    /\ Speeds \subseteq Nat /\ TopN \in Nat /\ TestLimit \in Nat
    /\ MaxAge \in Nat \ {0} /\ Interval \in Nat

VARIABLES
    refresh,  \* the refresher: "sleep", "fetch", "test"
    rest,     \* ticks left to sleep
    cache,    \* the cached nodes, None before the first refresh
    age,      \* ticks since the cache was written, at most MaxAge
    queue,    \* candidates no worker has taken yet
    job,      \* what each worker does
    socks,    \* the node a sing-box listening on each port leads to
    killed,   \* ports whose process was killed and not waited for
    via,      \* ghost: the node a candidate's check really went through
    tested,   \* candidates that passed, with their speed
    raised    \* a test has raised

vars == <<refresh, rest, cache, age, queue, job, socks, killed, via, tested, raised>>

Idle == [pc |-> "idle", phase |-> "check", node |-> None, port |-> None, own |-> FALSE]
Busy == {"pick", "spawn", "bind", "curl", "stop"}

TypeOK ==
    /\ refresh \in {"sleep", "fetch", "test"} /\ rest \in 0..Interval
    /\ cache \in {None} \cup SUBSET Nodes /\ age \in 0..MaxAge
    /\ queue \subseteq Nodes /\ Cardinality(queue) <= TestLimit
    /\ job \in [Workers -> [pc : Busy \cup {"idle"}, phase : {"check", "speed"}, node : Nodes \cup {None},
                            port : Ports \cup {None}, own : BOOLEAN]]
    /\ socks \in [Ports -> Nodes \cup {None}]
    /\ killed \subseteq {p \in Ports : socks[p] # None}
    /\ via \in [Nodes -> Nodes \cup {None}]
    /\ DOMAIN tested \subseteq Nodes /\ \A n \in DOMAIN tested : tested[n] \in Speeds \cup {0}
    /\ raised \in BOOLEAN

Init ==
    /\ refresh = "fetch" /\ rest = 0
    /\ cache = None /\ age = MaxAge
    /\ queue = {} /\ job = [w \in Workers |-> Idle]
    /\ socks = [p \in Ports |-> None] /\ killed = {}
    /\ via = [n \in Nodes |-> None]
    /\ tested = [n \in {} |-> 0] /\ raised = FALSE

-----------------------------------------------------------------------------
(* The refresher: load_bridge_nodes with force_refresh *)

\* Those of the priority countries first, TestLimit of them at most.
TestCandidates(named) ==
    {S \in SUBSET named :
        /\ Cardinality(S) = IF Cardinality(named) < TestLimit THEN Cardinality(named) ELSE TestLimit
        /\ named \cap Priority \subseteq S \/ S \subseteq Priority}

\* Whatever the subscriptions name that can be fetched.
Fetch ==
    /\ refresh = "fetch"
    /\ \E named \in SUBSET Nodes : queue' \in TestCandidates(named)
    /\ refresh' = "test"
    /\ tested' = [n \in {} |-> 0] /\ raised' = FALSE
    /\ via' = [n \in Nodes |-> IF cache # None /\ n \in cache THEN via[n] ELSE None]
    /\ UNCHANGED <<rest, cache, age, job, socks, killed>>

Fastest == {S \in SUBSET DOMAIN tested :
              /\ Cardinality(S) = IF Cardinality(DOMAIN tested) < TopN THEN Cardinality(DOMAIN tested) ELSE TopN
              /\ \A n \in S, m \in DOMAIN tested \ S : tested[n] >= tested[m]}

PoolDone == queue = {} /\ \A w \in Workers : job[w].pc = "idle"

\* Mutant: the entry is stamped with the time the refresh began.
StoreStampedAtStart ==
    /\ refresh = "test" /\ PoolDone /\ ~raised
    /\ cache' \in IF Speeds = {} THEN {DOMAIN tested} ELSE Fastest
    /\ age' \in 0..MaxAge
    /\ refresh' = "sleep" /\ rest' = Interval
    /\ UNCHANGED <<queue, job, socks, killed, via, tested, raised>>

Store ==
    /\ refresh = "test" /\ PoolDone /\ ~raised
    /\ cache' \in IF Speeds = {} THEN {DOMAIN tested} ELSE Fastest
    /\ age' = 0
    /\ refresh' = "sleep" /\ rest' = Interval
    /\ UNCHANGED <<queue, job, socks, killed, via, tested, raised>>

\* One exception of a test fails the whole refresh; the loop goes on.
GiveUp ==
    /\ refresh = "test" /\ PoolDone /\ raised
    /\ refresh' = "sleep" /\ rest' = Interval
    /\ UNCHANGED <<cache, age, queue, job, socks, killed, via, tested, raised>>

Wake ==
    /\ refresh = "sleep" /\ rest = 0
    /\ refresh' = "fetch"
    /\ UNCHANGED <<rest, cache, age, queue, job, socks, killed, via, tested, raised>>

Tick ==
    /\ rest' = IF rest > 0 THEN rest - 1 ELSE 0
    /\ age' = IF age < MaxAge THEN age + 1 ELSE age
    /\ <<rest', age'>> # <<rest, age>>
    /\ refresh = "sleep" => rest > 0
    /\ UNCHANGED <<refresh, cache, queue, job, socks, killed, via, tested, raised>>

-----------------------------------------------------------------------------
(* A worker: _test_one *)

At(w, pc)  == job[w].pc = pc
Set(w, j)  == job' = [job EXCEPT ![w] = j]
Goto(w, pc) == Set(w, [job[w] EXCEPT !.pc = pc])

Take(w) ==
    /\ refresh = "test" /\ At(w, "idle")
    /\ \E n \in queue :
         /\ queue' = queue \ {n}
         /\ Set(w, [Idle EXCEPT !.node = n, !.pc = IF n \in Curlable THEN "curl" ELSE "pick"])
    /\ UNCHANGED <<refresh, rest, cache, age, socks, killed, via, tested, raised>>

\* _pick_free_port: bound and closed again, so it is free at this moment.
Pick(w) ==
    /\ At(w, "pick")
    /\ \E p \in Ports : socks[p] = None /\ Set(w, [job[w] EXCEPT !.port = p, !.pc = "spawn"])
    /\ UNCHANGED <<refresh, rest, cache, age, queue, socks, killed, via, tested, raised>>

\* Twenty ports were taken, no program to run: the future raises.
Raise(w) ==
    /\ "raise" \in Faults /\ At(w, "pick")
    /\ Set(w, Idle) /\ raised' = TRUE
    /\ UNCHANGED <<refresh, rest, cache, age, queue, socks, killed, via, tested>>

\* sing-box binds the port, or finds it taken and ends.
Spawn(w) ==
    /\ At(w, "spawn")
    /\ IF socks[job[w].port] = None
         THEN /\ socks' = [socks EXCEPT ![job[w].port] = job[w].node]
              /\ Set(w, [job[w] EXCEPT !.own = TRUE, !.pc = "bind"])
         ELSE Goto(w, "bind") /\ UNCHANGED socks
    /\ UNCHANGED <<refresh, rest, cache, age, queue, killed, via, tested, raised>>

\* Ready as soon as somebody accepts at the port; given up after five seconds.
Ready(w) ==
    /\ At(w, "bind")
    /\ \/ socks[job[w].port] # None /\ Goto(w, "curl")
       \/ Set(w, [job[w] EXCEPT !.pc = "stop", !.phase = "check"])
    /\ UNCHANGED <<refresh, rest, cache, age, queue, socks, killed, via, tested, raised>>

\* What the requests of a worker go through.
Through(w) == IF job[w].node \in Curlable THEN job[w].node ELSE socks[job[w].port]

\* After a check that passed comes the speed test, when there is one, with a
\* sing-box of its own; then the worker is done.
Passed(w, speed) ==
    tested' = [n \in DOMAIN tested \cup {job[w].node} |-> IF n = job[w].node THEN speed ELSE tested[n]]

Leave(w, phase) ==
    IF job[w].node \in Curlable
      THEN Set(w, IF phase = "speed" THEN [job[w] EXCEPT !.phase = "speed"] ELSE Idle)
      ELSE Set(w, [job[w] EXCEPT !.pc = "stop", !.phase = phase])

\* check_proxy_url and check_node_with_singbox: some target answers, or none does.
Check(w) ==
    /\ At(w, "curl") /\ job[w].phase = "check"
    /\ \/ /\ Through(w) # None
          /\ via' = [via EXCEPT ![job[w].node] = Through(w)]
          /\ Passed(w, 0)
          /\ Leave(w, IF Speeds = {} THEN "check" ELSE "speed")
       \/ Leave(w, "check") /\ UNCHANGED <<via, tested>>
    /\ UNCHANGED <<refresh, rest, cache, age, queue, socks, killed, raised>>

\* measure_node_speed: 0 when it fails.
Measure(w) ==
    /\ At(w, "curl") /\ job[w].phase = "speed"
    /\ \E v \in Speeds \cup {0} : Passed(w, v)
    /\ Leave(w, "check")
    /\ UNCHANGED <<refresh, rest, cache, age, queue, socks, killed, via, raised>>

AfterStop(w) ==
    IF job[w].phase = "speed" THEN [job[w] EXCEPT !.pc = "pick", !.own = FALSE] ELSE Idle

\* The finally clause: terminate, wait for three seconds, then kill without
\* waiting, so that the port may be held a little longer.
Stop(w, lingers) ==
    /\ At(w, "stop")
    /\ socks' = IF job[w].own /\ ~lingers THEN [socks EXCEPT ![job[w].port] = None] ELSE socks
    /\ killed' = IF job[w].own /\ lingers THEN killed \cup {job[w].port} ELSE killed
    /\ Set(w, AfterStop(w))
    /\ UNCHANGED <<refresh, rest, cache, age, queue, via, tested, raised>>

\* The killed process is gone.
Gone(p) ==
    /\ p \in killed
    /\ killed' = killed \ {p} /\ socks' = [socks EXCEPT ![p] = None]
    /\ UNCHANGED <<refresh, rest, cache, age, queue, job, via, tested, raised>>

Refresher == Fetch \/ Store \/ GiveUp \/ Wake
Work(w) ==
    \/ Take(w) \/ Pick(w) \/ Spawn(w) \/ Ready(w) \/ Check(w) \/ Measure(w)
    \/ \E lingers \in BOOLEAN : Stop(w, lingers)

Next == Refresher \/ Tick \/ (\E w \in Workers : Work(w) \/ Raise(w)) \/ (\E p \in Ports : Gone(p))

Spec == Init /\ [][Next]_vars

-----------------------------------------------------------------------------
(* LocalAPI._bridge_nodes *)

\* What a subscription request is answered with beside the manual nodes.
Answer == IF cache # None /\ age < MaxAge THEN cache ELSE {}

\* Without a valid entry the handler answers with the manual nodes only; that is
\* the case before the first refresh and while one runs, and not in between
\* (local_api.py:1189-1195). With the default, an interval as long as the
\* validity (entrypoint.py:85), the entry expires just when the sleep is over.
ChainPublished == Answer = {} => cache \in {None, {}} \/ refresh # "sleep" \/ rest = 0

\* A node is published because requests went through it, not through the
\* sing-box of another candidate (bridge_nodes.py:528-532).
ReachedItself == cache # None => \A n \in cache : via[n] = n

=============================================================================
