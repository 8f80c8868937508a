-------------------------------- MODULE NodePool --------------------------------
(***************************************************************************)
(* The pool of OpenVPN nodes (vps/vpngate.py, NodePool), the refresh that    *)
(* fills it from the providers by way of the database, and what the slots    *)
(* do with it: take a node, blame it when the dial fails, remember the peer  *)
(* that worked.  Pauses and penalties are in memory; the rows of nodes, the  *)
(* entry of a slot and its "connected" events survive the process.  Time     *)
(* passes in ticks; ages and pauses count them, up to what is told apart.    *)
(***************************************************************************)
EXTENDS Integers, FiniteSets

CONSTANTS
    Nodes,      \* nodes the providers may name
    Providers,  \* ranks of the providers, the most trusted first
    Country,    \* country of each node
    Slots,
    Want,       \* country of each slot, or "ANY"
    Pings,      \* pings a provider may report, in seconds
    Blames,     \* penalties a rejected exit adds, in thousands; 0: none
    MaxPenalty, \* bound: penalties are counted up to here
    Cooldown,   \* pause of a failed node (120 s)
    Fresh,      \* age up to which a node is fresh (1 h)
    Recent,     \* age up to which it is recent (24 h)
    History,    \* age after which its row is deleted (KUI_VPN_HISTORY_DAYS)
    Retention,  \* age after which an event is deleted (KUI_EVENT_HISTORY_DAYS)
    None

PoolAssumption ==
    /\ Country \in [Nodes -> {"JP", "KR", "US"}]
    /\ Want \in [Slots -> {"ANY", "JP", "KR", "US"}]
    /\ Providers \subseteq Nat /\ Pings \subseteq Nat /\ Blames \subseteq Nat /\ MaxPenalty \in Nat
    /\ Cooldown \in Nat \ {0} /\ Fresh \in Nat
    /\ Recent \in Nat /\ History \in Nat /\ Retention \in Nat
    /\ Fresh <= Recent /\ Recent <= History
    /\ None \notin Nodes

VARIABLES
    mode,     \* "off", "boot": initialize before its refresh, "on"
    rows,     \* table vpn_nodes: ping and age of each node
    pool,     \* NodePool._nodes
    penalty,  \* NodePool._penalties
    pause,    \* ticks until NodePool._retry_after
    slot,     \* what each slot does
    entry,    \* column entry_ip of each slot
    event,    \* peer and age of its last "connected" event
    pref,     \* SlotRuntime.preferred_node_ip
    good,     \* ghost: the peer of its last success
    calm      \* ghost: ticks since each node was last blamed, up to Cooldown

vars == <<mode, rows, pool, penalty, pause, slot, entry, event, pref, good, calm>>

Lesser(a, b) == IF a < b THEN a ELSE b
Bigger(a, b) == IF a > b THEN a ELSE b
Stored(limit) == UNION {[S -> [ping : Pings, age : 0..limit]] : S \in SUBSET Nodes}
Idle == [pc |-> "idle", peer |-> None, way |-> "none"]
NoEvent == [ip |-> None, age |-> 0]

TypeOK ==
    /\ mode \in {"off", "boot", "on"}
    /\ rows \in Stored(History + 1) /\ pool \in Stored(Recent + 1)
    /\ penalty \in [Nodes -> 0..MaxPenalty] /\ pause \in [Nodes -> 0..Cooldown]
    /\ slot \in [Slots -> [pc : {"idle", "dial", "record", "up"}, peer : Nodes \cup {None},
                           way : {"none", "pref", "pool"}]]
    /\ entry \in [Slots -> Nodes \cup {None}] /\ pref \in [Slots -> Nodes \cup {None}]
    /\ event \in [Slots -> [ip : Nodes \cup {None}, age : 0..Retention + 1]]
    /\ good \in [Slots -> Nodes \cup {None}] /\ calm \in [Nodes -> 0..Cooldown]

Init ==
    /\ mode = "off"
    /\ rows = [n \in {} |-> 0] /\ pool = [n \in {} |-> 0]
    /\ penalty = [n \in Nodes |-> 0] /\ pause = [n \in Nodes |-> 0]
    /\ slot = [s \in Slots |-> Idle]
    /\ entry = [s \in Slots |-> None] /\ event = [s \in Slots |-> NoEvent]
    /\ pref = [s \in Slots |-> None] /\ good = [s \in Slots |-> None]
    /\ calm = [n \in Nodes |-> Cooldown]

-----------------------------------------------------------------------------
(* The refresh: ExitManager.refresh_nodes *)

\* What one provider may name; one that fails names nothing and stops no other.
Offer == UNION {[S -> Pings] : S \in SUBSET Nodes}

\* A node several providers name is taken from the most trusted one.
Combined(offers) ==
    [n \in UNION {DOMAIN offers[p] : p \in Providers} |->
        LET p == CHOOSE q \in Providers :
                    /\ n \in DOMAIN offers[q]
                    /\ \A r \in Providers : n \in DOMAIN offers[r] => q <= r
        IN  offers[p][n]]

Named == {Combined(offers) : offers \in [Providers -> Offer]}

\* replace_vpn_nodes: what the providers name is written over the rows, rows
\* not seen for too long are deleted -- only here, so never by a failed fetch.
Merged(named) ==
    LET all  == DOMAIN named \cup DOMAIN rows
        keep == {n \in all : n \in DOMAIN named \/ rows[n].age <= History}
    IN  [n \in keep |-> IF n \in DOMAIN named THEN [ping |-> named[n], age |-> 0] ELSE rows[n]]

\* cached_nodes or fresh_nodes
Loaded(stored, named) ==
    IF DOMAIN stored # {} THEN stored ELSE [n \in DOMAIN named |-> [ping |-> named[n], age |-> 0]]

\* NodePool.replace: the worst ping a node ever had stays.
Replaced(nodes) ==
    [n \in DOMAIN nodes |->
        [ping |-> IF n \in DOMAIN pool THEN Bigger(nodes[n].ping, pool[n].ping) ELSE nodes[n].ping,
         age  |-> Lesser(nodes[n].age, Recent + 1)]]

\* A refresh leaves pauses alone.
Pauses(named) == pause

\* prune_history
Pruned == [s \in Slots |-> IF event[s].age > Retention THEN NoEvent ELSE event[s]]

\* Any provider may fail, and either write.
Refresh ==
    /\ mode \in {"boot", "on"}
    /\ \E named \in Named, writes, prunes \in BOOLEAN :
         LET stored == IF writes /\ DOMAIN named # {} THEN Merged(named) ELSE rows
             nodes  == Loaded(stored, named)
         IN  /\ rows' = stored
             /\ pool' = IF DOMAIN nodes # {} THEN Replaced(nodes) ELSE pool
             /\ event' = IF prunes THEN Pruned ELSE event
             /\ pause' = Pauses(named)
    /\ mode' = "on"
    /\ UNCHANGED <<penalty, slot, entry, pref, good, calm>>

-----------------------------------------------------------------------------
(* A slot takes a node: _reserve_node, NodePool.get and NodePool.select *)

Suits(s, n) == Want[s] \in {"ANY", Country[n]}

\* Entries and reservations of the other slots.
Excluded(s) == {entry[r] : r \in Slots \ {s}} \cup {slot[r].peer : r \in Slots \ {s}}

\* Freshness, put back by every ten thousand of penalty, at most by three.
Tier(n) ==
    Lesser(penalty[n] \div 10, 3) +
        IF pool[n].age <= Fresh THEN 0 ELSE IF pool[n].age <= Recent THEN 1 ELSE 2

\* NodePool._priority; nodes of the same priority come in any order.
Before(m, n) ==
    \/ Tier(m) < Tier(n)
    \/ Tier(m) = Tier(n) /\ pool[m].ping + penalty[m] < pool[n].ping + penalty[n]

Ordinary(s) == {n \in DOMAIN pool : Suits(s, n) /\ n \notin Excluded(s) /\ pause[n] = 0}

Foremost(s) == {n \in Ordinary(s) : \A m \in Ordinary(s) : ~Before(m, n)}

\* The preferred peer goes past the pause, not past the country.
Preferred(s) == {n \in DOMAIN pool : n = pref[s] /\ Suits(s, n) /\ n \notin Excluded(s)}

Take(s) ==
    /\ mode = "on" /\ slot[s].pc = "idle"
    /\ \E n \in IF Preferred(s) # {} THEN Preferred(s) ELSE Foremost(s) :
         slot' = [slot EXCEPT ![s] = [pc |-> "dial", peer |-> n,
                                      way |-> IF Preferred(s) # {} THEN "pref" ELSE "pool"]]
    /\ pref' = [pref EXCEPT ![s] = None]
    /\ UNCHANGED <<mode, rows, pool, penalty, pause, entry, event, good, calm>>

\* No node: the worker fails and its preference is gone.
TakeNone(s) ==
    /\ mode = "on" /\ slot[s].pc = "idle" /\ Preferred(s) = {} /\ Ordinary(s) = {}
    /\ pref' = [pref EXCEPT ![s] = None]
    /\ UNCHANGED <<mode, rows, pool, penalty, pause, slot, entry, event, good, calm>>

\* NodePool.penalize: once for a rejected exit, once for the failed connection.
Blame(n, amount) ==
    /\ penalty' = [penalty EXCEPT ![n] = Lesser(@ + amount, MaxPenalty)]
    /\ pause' = [pause EXCEPT ![n] = Cooldown]
    /\ calm' = [calm EXCEPT ![n] = 0]

\* The dial fails, or the exit it leads to is rejected.
Fail(s) ==
    /\ slot[s].pc = "dial"
    /\ \E b \in Blames : Blame(slot[s].peer, 10 + b)
    /\ slot' = [slot EXCEPT ![s].pc = "idle", ![s].peer = None]
    /\ UNCHANGED <<mode, rows, pool, entry, event, pref, good>>

\* Every check has passed: commit_ready compares the countries once more and
\* writes the row.
Commit(s) ==
    /\ slot[s].pc = "dial" /\ Want[s] = Country[slot[s].peer]
    /\ slot' = [slot EXCEPT ![s].pc = "record"]
    /\ entry' = [entry EXCEPT ![s] = slot[s].peer]
    /\ good' = [good EXCEPT ![s] = slot[s].peer]
    /\ UNCHANGED <<mode, rows, pool, penalty, pause, event, pref, calm>>

\* For a slot of any country they differ: a failed connection.
Refuse(s) ==
    /\ slot[s].pc = "dial" /\ Want[s] # Country[slot[s].peer]
    /\ Blame(slot[s].peer, 10)
    /\ slot' = [slot EXCEPT ![s].pc = "idle", ![s].peer = None]
    /\ UNCHANGED <<mode, rows, pool, entry, event, pref, good>>

\* The end of commit_ready: the event is written after the row.
Record(s) ==
    /\ slot[s].pc = "record"
    /\ event' = [event EXCEPT ![s] = [ip |-> slot[s].peer, age |-> 0]]
    /\ slot' = [slot EXCEPT ![s].pc = "up", ![s].way = "none"]
    /\ UNCHANGED <<mode, rows, pool, penalty, pause, entry, pref, good, calm>>

\* The tunnel is lost.  The peer is tried once more, unless the probes have
\* proved its path dead.
Drop(s) ==
    /\ slot[s].pc = "up"
    /\ \E same \in BOOLEAN : pref' = IF same THEN [pref EXCEPT ![s] = entry[s]] ELSE pref
    /\ Blame(entry[s], 10)
    /\ slot' = [slot EXCEPT ![s] = Idle]
    /\ entry' = [entry EXCEPT ![s] = None]
    /\ UNCHANGED <<mode, rows, pool, event, good>>

-----------------------------------------------------------------------------
(* The process *)

Forget ==
    /\ mode' = "off" /\ pool' = [n \in {} |-> 0]
    /\ penalty' = [n \in Nodes |-> 0] /\ pause' = [n \in Nodes |-> 0]
    /\ calm' = [n \in Nodes |-> Cooldown]
    /\ slot' = [s \in Slots |-> Idle] /\ pref' = [s \in Slots |-> None]
    /\ UNCHANGED <<rows, event, good>>

\* shutdown: stop_slot clears the entry of every slot and waits for its worker.
Shutdown ==
    /\ mode = "on" /\ \A s \in Slots : slot[s].pc # "record"
    /\ Forget /\ entry' = [s \in Slots |-> None]

\* The container is killed.
Crash == mode # "off" /\ Forget /\ UNCHANGED entry

\* Mutant: the event is looked up first.
RememberedEvent(s) == IF event[s].ip # None THEN event[s].ip ELSE entry[s]

\* The entry the row still has, or the one of the last connected event.
Remembered(s) == IF entry[s] # None THEN entry[s] ELSE event[s].ip

\* initialize up to its refresh.
Start ==
    /\ mode = "off" /\ mode' = "boot"
    /\ pref' = [s \in Slots |-> Remembered(s)]
    /\ entry' = [s \in Slots |-> None]
    /\ UNCHANGED <<rows, pool, penalty, pause, slot, event, good, calm>>

Aged(f, limit) == [n \in DOMAIN f |-> [f[n] EXCEPT !.age = Lesser(@ + 1, limit)]]

Tick ==
    /\ mode # "boot"
    /\ rows' = Aged(rows, History + 1) /\ pool' = Aged(pool, Recent + 1)
    /\ event' = [s \in Slots |-> IF event[s].ip = None THEN NoEvent
                                 ELSE [event[s] EXCEPT !.age = Lesser(@ + 1, Retention + 1)]]
    /\ pause' = [n \in Nodes |-> Bigger(pause[n] - 1, 0)]
    /\ calm' = [n \in Nodes |-> Lesser(calm[n] + 1, Cooldown)]
    /\ UNCHANGED <<mode, penalty, slot, entry, pref, good>>

SlotStep(s) ==
    Take(s) \/ TakeNone(s) \/ Fail(s) \/ Commit(s) \/ Refuse(s) \/ Record(s) \/ Drop(s)

Next ==
    \/ Refresh \/ Shutdown \/ Crash \/ Start \/ Tick
    \/ \E s \in Slots : SlotStep(s)

Spec == Init /\ [][Next]_vars

-----------------------------------------------------------------------------
(* Properties *)

\* An ordinary selection takes no node that was blamed less than Cooldown ago,
\* whatever was refreshed in between (README.md:135).
CooldownHeld ==
    [][\A s \in Slots :
         slot[s].pc = "idle" /\ slot'[s].pc = "dial" /\ slot'[s].way = "pool"
            => calm[slot'[s].peer] = Cooldown]_vars

\* The last working peer is tried past its pause once: no second dial by
\* preference follows a failed one (_handle_connection_failure's comment).
PreferredOnce ==
    [][\A s \in Slots :
         slot[s].pc = "idle" /\ slot'[s].pc = "dial" /\ slot'[s].way = "pref" => slot[s].way # "pref"]_vars

\* A process that starts prefers the peer of the slot's last success if the row
\* or the event of the slot still names it, wherever the process before it ended
\* -- between the two writes as well.
EntryRecovered ==
    [][mode = "off" /\ mode' = "boot" =>
         \A s \in Slots : good[s] \in {entry[s], event[s].ip} => pref'[s] = good[s]]_vars

\* Which peer a slot dials, over refreshes, pauses, restarts and crashes.
PeersChosen == CooldownHeld /\ PreferredOnce /\ EntryRecovered

=============================================================================
