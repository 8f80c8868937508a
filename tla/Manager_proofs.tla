--------------------------- MODULE Manager_proofs ---------------------------
(***************************************************************************)
(* What the run ManagerSafety checks of the small parts of the manager        *)
(* container, proved for every value of their constants: the health loops, the *)
(* SOCKS listeners, the Realm forwarder (Realm), the end of the process        *)
(* (Entry), the choice of nodes (Pool) and the database of slots (Records).    *)
(*                                                                           *)
(* The parts share no state: each theorem is about the specification of one   *)
(* part, on its main instance in ManagerSafety.                                *)
(***************************************************************************)
EXTENDS ManagerSafety, FiniteSetTheorems, TLAPS

-----------------------------------------------------------------------------
(* The health loops *)

Holders == {s \in Slots : loop[s].pc \in Working}

HealthTyped ==
    /\ loop \in [Slots -> LoopRec]
    /\ permits \in Nat
    /\ requested \in [Slots -> BOOLEAN] /\ repairing \in [Slots -> BOOLEAN]
    /\ untried \in [Slots -> BOOLEAN]

\* Between the wake-up and the next probe a repair needs no request.
Noticed == \A s \in Slots :
    untried[s] /\ loop[s].pc \notin {"dial", "acquire", "probe"} => requested[s] \/ repairing[s]

HealthInv == HealthTyped /\ PermitsConserved /\ Noticed

-----------------------------------------------------------------------------
(* The loop of one slot moves on; the others stay where they are *)

LEMMA Stays ==
    ASSUME HealthTyped, NEW s \in Slots, loop[s].pc \in Working, permits' = permits,
           NEW r \in LoopRec, r.pc \in Working, loop' = [loop EXCEPT ![s] = r]
    PROVE  Holders' = Holders
BY DEF HealthTyped, Holders

LEMMA StaysOut ==
    ASSUME HealthTyped, NEW s \in Slots, loop[s].pc \notin Working,
           NEW r \in LoopRec, r.pc \notin Working, loop' = [loop EXCEPT ![s] = r]
    PROVE  Holders' = Holders
BY DEF HealthTyped, Holders

LEMMA Enters ==
    ASSUME HealthTyped, NEW s \in Slots, loop[s].pc \notin Working,
           NEW r \in LoopRec, r.pc \in Working, loop' = [loop EXCEPT ![s] = r]
    PROVE  Holders' = Holders \cup {s} /\ s \notin Holders
BY DEF HealthTyped, Holders

LEMMA Leaves ==
    ASSUME HealthTyped, NEW s \in Slots, loop[s].pc \in Working,
           NEW r \in LoopRec, r.pc \notin Working, loop' = [loop EXCEPT ![s] = r]
    PROVE  Holders' = Holders \ {s} /\ s \in Holders
BY DEF HealthTyped, Holders

LEMMA HoldersCounted == IsFiniteSet(Holders) /\ Cardinality(Holders) \in Nat
<1>1. IsFiniteSet(Holders)
  BY HealthAssumption, FS_Subset DEF Holders
<1> QED
  BY <1>1, FS_CardinalityType

LEMMA LoopTyped ==
    ASSUME HealthTyped, NEW s \in Slots
    PROVE  /\ loop[s] \in LoopRec
           /\ loop[s].pc \in {"dial", "wait", "acquire"} \cup Working
           /\ loop[s].seen \in {"none", "ok", "local", "failed"}
           /\ loop[s].fails \in 0..Ladder + 1 /\ loop[s].wait \in Nat
BY DEF HealthTyped, LoopRec

LEMMA LadderTyped == Ladder \in Nat /\ \A n \in 1..Ladder : Backoff[n] \in Nat
BY HealthAssumption DEF Ladder

LEMMA DelayTyped == \A n \in 0..Ladder + 1 : Delay(n) \in Nat
BY LadderTyped, HealthAssumption DEF Delay

\* Where a record of a loop goes: the fields it may take.
LEMMA RecTyped ==
    ASSUME NEW pc \in {"dial", "wait", "acquire"} \cup Working,
           NEW seen \in {"none", "ok", "local", "failed"},
           NEW fails \in 0..Ladder + 1, NEW wait \in Nat
    PROVE  /\ [pc |-> pc, seen |-> seen, fails |-> fails, wait |-> wait] \in LoopRec
           /\ [pc |-> pc, seen |-> seen, fails |-> fails, wait |-> wait].pc = pc
BY DEF LoopRec

-----------------------------------------------------------------------------
(* What a step does to permits and holders *)

Balanced ==
    \/ permits' = permits /\ Holders' = Holders
    \/ \E s \in Slots : permits > 0 /\ permits' = permits - 1 /\ s \notin Holders /\ Holders' = Holders \cup {s}
    \/ \E s \in Slots : permits' = permits + 1 /\ s \in Holders /\ Holders' = Holders \ {s}

LEMMA BalancedConserves ==
    ASSUME HealthTyped, PermitsConserved, Balanced
    PROVE  permits' \in Nat /\ PermitsConserved'
<1>1. permits + Cardinality(Holders) = Permits /\ permits \in Nat /\ Permits \in Nat
  BY HealthAssumption DEF PermitsConserved, Holders, HealthTyped
<1>2. permits' \in Nat /\ permits' + Cardinality(Holders') = Permits
  <2>1. CASE permits' = permits /\ Holders' = Holders
    BY <1>1, <2>1
  <2>2. CASE \E s \in Slots : permits > 0 /\ permits' = permits - 1 /\ s \notin Holders /\ Holders' = Holders \cup {s}
    <3>1. PICK s \in Slots : permits > 0 /\ permits' = permits - 1 /\ s \notin Holders /\ Holders' = Holders \cup {s}
      BY <2>2
    <3>2. Cardinality(Holders') = Cardinality(Holders) + 1
      BY <3>1, HoldersCounted, FS_AddElement
    <3> QED
      BY <1>1, <3>1, <3>2, HoldersCounted
  <2>3. CASE \E s \in Slots : permits' = permits + 1 /\ s \in Holders /\ Holders' = Holders \ {s}
    <3>1. PICK s \in Slots : permits' = permits + 1 /\ s \in Holders /\ Holders' = Holders \ {s}
      BY <2>3
    <3>2. Cardinality(Holders') = Cardinality(Holders) - 1
      BY <3>1, HoldersCounted, FS_RemoveElement
    <3> QED
      BY <1>1, <3>1, <3>2, HoldersCounted
  <2> QED
    BY <2>1, <2>2, <2>3 DEF Balanced
<1> QED
  BY <1>2 DEF PermitsConserved, Holders

-----------------------------------------------------------------------------
(* One lemma per action: types, permits, requests *)

Good == /\ loop' \in [Slots -> LoopRec] /\ Balanced /\ Noticed'
        /\ requested' \in [Slots -> BOOLEAN] /\ repairing' \in [Slots -> BOOLEAN]
        /\ untried' \in [Slots -> BOOLEAN]

LEMMA GoodKeeps == ASSUME HealthInv, Good PROVE HealthInv'
BY BalancedConserves DEF HealthInv, Good, HealthTyped

LEMMA LoopSet ==
    ASSUME HealthTyped, NEW s \in Slots, NEW r \in LoopRec, loop' = [loop EXCEPT ![s] = r]
    PROVE  loop' \in [Slots -> LoopRec] /\ loop'[s] = r /\ \A t \in Slots \ {s} : loop'[t] = loop[t]
BY DEF HealthTyped

LEMMA LoopMoves ==
    ASSUME HealthInv, NEW s \in Slots, NEW r \in LoopRec, loop' = [loop EXCEPT ![s] = r]
    PROVE  /\ loop' \in [Slots -> LoopRec] /\ loop'[s] = r
           /\ \A t \in Slots \ {s} : loop'[t] = loop[t]
           /\ permits' = permits /\ (loop[s].pc \in Working <=> r.pc \in Working) => Balanced
           /\ permits' = permits + 1 /\ loop[s].pc \in Working /\ r.pc \notin Working => Balanced
           /\ permits > 0 /\ permits' = permits - 1 /\ loop[s].pc \notin Working /\ r.pc \in Working => Balanced
<1>1. loop' \in [Slots -> LoopRec] /\ loop'[s] = r /\ \A t \in Slots \ {s} : loop'[t] = loop[t]
  BY LoopSet DEF HealthInv
<1>2. ASSUME permits' = permits, loop[s].pc \in Working <=> r.pc \in Working PROVE Balanced
  <2>1. Holders' = Holders
    BY <1>2, Stays, StaysOut DEF HealthInv
  <2> QED
    BY <1>2, <2>1 DEF Balanced
<1>3. ASSUME permits' = permits + 1, loop[s].pc \in Working, r.pc \notin Working PROVE Balanced
  <2>1. Holders' = Holders \ {s} /\ s \in Holders
    BY <1>3, Leaves DEF HealthInv
  <2> QED
    BY <1>3, <2>1 DEF Balanced
<1>4. ASSUME permits > 0, permits' = permits - 1, loop[s].pc \notin Working, r.pc \in Working PROVE Balanced
  <2>1. Holders' = Holders \cup {s} /\ s \notin Holders
    BY <1>4, Enters DEF HealthInv
  <2> QED
    BY <1>4, <2>1 DEF Balanced
<1> QED
  BY <1>1, <1>2, <1>3, <1>4

\* The records an action writes.
LEMMA Waiting ==
    ASSUME NEW n \in 0..Ladder + 1
    PROVE  /\ [pc |-> "wait", seen |-> "none", fails |-> n, wait |-> Delay(n)] \in LoopRec
           /\ [pc |-> "wait", seen |-> "none", fails |-> n, wait |-> Delay(n)].pc = "wait"
BY DelayTyped, RecTyped

LEMMA Begun ==
    /\ Dialling \in LoopRec /\ Dialling.pc = "dial"
    /\ \A d \in Nat : /\ [Dialling EXCEPT !.pc = "wait", !.wait = d] \in LoopRec
                      /\ [Dialling EXCEPT !.pc = "wait", !.wait = d].pc = "wait"
<1>1. 0 \in 0..Ladder + 1
  BY LadderTyped
<1> QED
  BY <1>1 DEF Dialling, LoopRec

LEMMA Moved ==
    ASSUME NEW q \in LoopRec, NEW pc \in {"dial", "wait", "acquire"} \cup Working
    PROVE  [q EXCEPT !.pc = pc] \in LoopRec /\ [q EXCEPT !.pc = pc].pc = pc
BY DEF LoopRec

LEMMA MovedFails ==
    ASSUME NEW q \in LoopRec, NEW pc \in {"dial", "wait", "acquire"} \cup Working, NEW n \in 0..Ladder + 1
    PROVE  [q EXCEPT !.pc = pc, !.fails = n] \in LoopRec /\ [q EXCEPT !.pc = pc, !.fails = n].pc = pc
BY DEF LoopRec

-----------------------------------------------------------------------------
(* Dials, ends and waits *)

LEMMA ServeGood == ASSUME HealthInv, NEW s \in Slots, Serve(s) PROVE Good
<1>1. PICK d \in Nat : loop' = [loop EXCEPT ![s] = [Dialling EXCEPT !.pc = "wait", !.wait = d]]
  BY HealthAssumption DEF Serve
<1> DEFINE r == [Dialling EXCEPT !.pc = "wait", !.wait = d]
<1>2. r \in LoopRec /\ r.pc = "wait" /\ loop[s].pc = "dial" /\ permits' = permits
  BY Begun DEF Serve
<1>3. loop' = [loop EXCEPT ![s] = r]
  BY <1>1
<1> HIDE DEF r
<1>4. loop' \in [Slots -> LoopRec] /\ Balanced /\ \A t \in Slots \ {s} : loop'[t] = loop[t]
  BY <1>2, <1>3, LoopMoves DEF Working
<1>5. Noticed'
  BY <1>4 DEF Serve, Noticed, HealthInv, HealthTyped
<1> QED
  BY <1>4, <1>5 DEF Good, Serve, HealthInv, HealthTyped

LEMMA LeaveGood == ASSUME HealthInv, NEW s \in Slots, Leave(s) PROVE Good
<1>1. loop' = [loop EXCEPT ![s] = Dialling] /\ Dialling \in LoopRec /\ Dialling.pc = "dial"
  BY Begun DEF Leave
<1> HIDE DEF Dialling
<1>2. loop' \in [Slots -> LoopRec] /\ loop'[s] = Dialling /\ \A t \in Slots \ {s} : loop'[t] = loop[t]
  BY <1>1, LoopMoves
<1>3. permits' = IF loop[s].pc \in Working THEN permits + 1 ELSE permits
  BY DEF Leave, HealthInv, HealthTyped
<1>4. Balanced
  BY <1>1, <1>3, LoopMoves DEF Working
<1>5. Noticed'
  BY <1>1, <1>2 DEF Leave, Noticed, HealthInv, HealthTyped
<1> QED
  BY <1>2, <1>4, <1>5 DEF Good, Leave, HealthInv, HealthTyped

LEMMA WakeGood == ASSUME HealthInv, NEW s \in Slots, Wake(s) PROVE Good
<1> DEFINE r == [loop[s] EXCEPT !.pc = "acquire"]
<1>1. r \in LoopRec /\ r.pc = "acquire"
  BY Moved, LoopTyped DEF HealthInv
<1>2. loop' = [loop EXCEPT ![s] = r] /\ loop[s].pc = "wait" /\ permits' = permits
  BY DEF Wake
<1> HIDE DEF r
<1>3. loop' \in [Slots -> LoopRec] /\ loop'[s] = r /\ \A t \in Slots \ {s} : loop'[t] = loop[t]
  BY <1>1, <1>2, LoopMoves
<1>4. Balanced
  BY <1>1, <1>2, LoopMoves DEF Working
<1>5. Noticed'
  BY <1>1, <1>3 DEF Wake, Noticed, HealthInv, HealthTyped
<1> QED
  BY <1>3, <1>4, <1>5 DEF Good, Wake, HealthInv, HealthTyped

LEMMA AcquireGood == ASSUME HealthInv, NEW s \in Slots, Acquire(s) PROVE Good
<1> DEFINE r == [loop[s] EXCEPT !.pc = "probe"]
<1>1. r \in LoopRec /\ r.pc = "probe"
  BY Moved, LoopTyped DEF HealthInv, Working
<1>2. loop' = [loop EXCEPT ![s] = r] /\ loop[s].pc = "acquire" /\ permits > 0 /\ permits' = permits - 1
  BY DEF Acquire
<1> HIDE DEF r
<1>3. loop' \in [Slots -> LoopRec] /\ loop'[s] = r /\ \A t \in Slots \ {s} : loop'[t] = loop[t]
  BY <1>1, <1>2, LoopMoves
<1>4. Balanced
  BY <1>1, <1>2, LoopMoves DEF Working
<1>5. Noticed'
  BY <1>1, <1>3 DEF Acquire, Noticed, HealthInv, HealthTyped
<1> QED
  BY <1>3, <1>4, <1>5 DEF Good, Acquire, HealthInv, HealthTyped

LEMMA ProbeGood == ASSUME HealthInv, NEW s \in Slots, Probe(s) PROVE Good
<1>1. PICK seen \in {"none", "ok", "local", "failed"} :
         loop' = [loop EXCEPT ![s] = [loop[s] EXCEPT !.pc = "socks", !.seen = seen]]
  <2> DEFINE found == IF listener[s] # "up" THEN "local" ELSE IF path[s] /\ host THEN "ok" ELSE "failed"
  <2>1. found \in {"none", "ok", "local", "failed"}
    OBVIOUS
  <2>2. loop' = [loop EXCEPT ![s] = [loop[s] EXCEPT !.pc = "socks", !.seen = found]]
    BY DEF Probe
  <2> HIDE DEF found
  <2> QED
    BY <2>1, <2>2
<1> DEFINE r == [loop[s] EXCEPT !.pc = "socks", !.seen = seen]
<1>2. r \in LoopRec /\ r.pc = "socks"
  <2>1. loop[s] \in LoopRec
    BY LoopTyped DEF HealthInv
  <2>2. "socks" \in {"dial", "wait", "acquire"} \cup Working
    BY DEF Working
  <2> QED
    BY <2>1, <2>2 DEF LoopRec
<1>3. loop' = [loop EXCEPT ![s] = r] /\ loop[s].pc = "probe" /\ permits' = permits
  BY <1>1 DEF Probe
<1> HIDE DEF r
<1>4. loop' \in [Slots -> LoopRec] /\ \A t \in Slots \ {s} : loop'[t] = loop[t]
  BY <1>2, <1>3, LoopMoves
<1>5. Balanced
  BY <1>2, <1>3, LoopMoves DEF Working
<1>6. Noticed'
  BY <1>4 DEF Probe, Noticed, HealthInv, HealthTyped
<1> QED
  BY <1>4, <1>5, <1>6 DEF Good, Probe, HealthInv, HealthTyped

-----------------------------------------------------------------------------
(* The rest of the round: the loop keeps its requests, and its ghost *)

\* A step of a working loop that touches none of the flags.
LEMMA RoundGood ==
    ASSUME HealthInv, NEW s \in Slots, loop[s].pc \in {"socks", "tunnel", "judge", "decide"},
           NEW r \in LoopRec, loop' = [loop EXCEPT ![s] = r],
           \/ permits' = permits /\ r.pc \in Working
           \/ permits' = permits + 1 /\ r.pc \notin Working,
           UNCHANGED <<requested, repairing, untried>>
    PROVE  Good
<1>1. loop' \in [Slots -> LoopRec] /\ \A t \in Slots \ {s} : loop'[t] = loop[t]
  BY LoopMoves
<1>2. Balanced
  BY LoopMoves DEF Working
<1>3. Noticed'
  BY <1>1 DEF Noticed, HealthInv, HealthTyped
<1> QED
  BY <1>1, <1>2, <1>3 DEF Good, HealthInv, HealthTyped

LEMMA EndGood ==
    ASSUME HealthInv, NEW s \in Slots, loop[s].pc \in {"socks", "tunnel", "decide"},
           NEW n \in 0..Ladder + 1, EndRound(s, n), UNCHANGED <<requested, repairing, untried>>
    PROVE  Good
<1> DEFINE r == [pc |-> "wait", seen |-> "none", fails |-> n, wait |-> Delay(n)]
<1>1. r \in LoopRec /\ r.pc = "wait"
  BY Waiting
<1>2. loop' = [loop EXCEPT ![s] = r] /\ permits' = permits + 1
  BY DEF EndRound
<1> HIDE DEF r
<1>3. r.pc \notin Working
  BY <1>1 DEF Working
<1> QED
  BY <1>1, <1>2, <1>3, RoundGood

LEMMA ReportGood == ASSUME HealthInv, NEW s \in Slots, Report(s) PROVE Good
<1>1. PICK n \in 0..Ladder + 1 :
         \/ loop' = [loop EXCEPT ![s] = [loop[s] EXCEPT !.pc = "tunnel", !.fails = n]] /\ permits' = permits
         \/ EndRound(s, n)
  <2> DEFINE m == IF loop[s].seen = "ok" THEN 0
                  ELSE IF loop[s].fails > Ladder THEN Ladder + 1 ELSE loop[s].fails + 1
  <2>1. m \in 0..Ladder + 1
    BY LoopTyped, LadderTyped DEF HealthInv
  <2>2. \/ loop' = [loop EXCEPT ![s] = [loop[s] EXCEPT !.pc = "tunnel", !.fails = m]] /\ permits' = permits
        \/ EndRound(s, m)
    BY DEF Report
  <2> HIDE DEF m
  <2> QED
    BY <2>1, <2>2
<1>2. loop[s].pc = "socks" /\ UNCHANGED <<requested, repairing, untried>>
  BY DEF Report
<1>3. CASE EndRound(s, n)
  BY <1>2, <1>3, EndGood
<1>4. CASE loop' = [loop EXCEPT ![s] = [loop[s] EXCEPT !.pc = "tunnel", !.fails = n]] /\ permits' = permits
  <2> DEFINE r == [loop[s] EXCEPT !.pc = "tunnel", !.fails = n]
  <2>1. r \in LoopRec /\ r.pc = "tunnel"
    <3>1. loop[s] \in LoopRec
      BY LoopTyped DEF HealthInv
    <3>2. "tunnel" \in {"dial", "wait", "acquire"} \cup Working
      BY DEF Working
    <3> QED
      BY <3>1, <3>2, MovedFails
  <2>2. loop' = [loop EXCEPT ![s] = r] /\ permits' = permits
    BY <1>4
  <2> HIDE DEF r
  <2>3. r.pc \in Working
    BY <2>1 DEF Working
  <2> QED
    BY <1>2, <2>1, <2>2, <2>3, RoundGood
<1> QED
  BY <1>1, <1>3, <1>4

LEMMA ProbeTunnelGood == ASSUME HealthInv, NEW s \in Slots, ProbeTunnel(s) PROVE Good
<1>1. loop[s].pc = "tunnel" /\ UNCHANGED <<requested, repairing, untried>> /\ loop[s].fails \in 0..Ladder + 1
  BY LoopTyped DEF ProbeTunnel, HealthInv
<1>2. CASE path[s] /\ host
  <2>1. EndRound(s, loop[s].fails)
    BY <1>2 DEF ProbeTunnel
  <2> QED
    BY <1>1, <2>1, EndGood
<1>3. CASE ~(path[s] /\ host)
  <2> DEFINE r == [loop[s] EXCEPT !.pc = "judge"]
  <2>1. r \in LoopRec /\ r.pc = "judge"
    BY Moved, LoopTyped DEF HealthInv, Working
  <2>2. loop' = [loop EXCEPT ![s] = r] /\ permits' = permits
    BY <1>3 DEF ProbeTunnel
  <2> HIDE DEF r
  <2>3. r.pc \in Working
    BY <2>1 DEF Working
  <2> QED
    BY <1>1, <2>1, <2>2, <2>3, RoundGood
<1> QED
  BY <1>2, <1>3

LEMMA JudgeGood == ASSUME HealthInv, NEW s \in Slots, Judge(s) PROVE Good
<1>1. loop[s].pc = "judge" /\ UNCHANGED <<requested, repairing, untried, permits>>
  BY DEF Judge
<1>2. PICK seen \in {"none", "ok", "local", "failed"} :
         loop' = [loop EXCEPT ![s] = [loop[s] EXCEPT !.pc = "decide", !.seen = seen]]
  <2> DEFINE found == IF ref'.ok THEN "failed" ELSE "none"
  <2>1. found \in {"none", "ok", "local", "failed"}
    OBVIOUS
  <2>2. loop' = [loop EXCEPT ![s] = [loop[s] EXCEPT !.pc = "decide", !.seen = found]]
    BY DEF Judge
  <2> HIDE DEF found
  <2> QED
    BY <2>1, <2>2
<1> DEFINE r == [loop[s] EXCEPT !.pc = "decide", !.seen = seen]
<1>3. r \in LoopRec /\ r.pc = "decide"
  <2>1. loop[s] \in LoopRec
    BY LoopTyped DEF HealthInv
  <2>2. "decide" \in {"dial", "wait", "acquire"} \cup Working
    BY DEF Working
  <2> QED
    BY <2>1, <2>2 DEF LoopRec
<1>4. loop' = [loop EXCEPT ![s] = r]
  BY <1>2
<1> HIDE DEF r
<1>5. r.pc \in Working
  BY <1>3 DEF Working
<1> QED
  BY <1>1, <1>3, <1>4, <1>5, RoundGood

LEMMA RetainGood == ASSUME HealthInv, NEW s \in Slots, Retain(s) PROVE Good
<1>1. /\ loop[s].pc = "decide" /\ loop[s].fails \in 0..Ladder + 1
      /\ EndRound(s, loop[s].fails) /\ UNCHANGED <<requested, repairing, untried>>
  BY LoopTyped DEF Retain, HealthInv
<1> QED
  BY <1>1, EndGood

-----------------------------------------------------------------------------
(* The watchdog and the environment leave the loops where they are *)

LEMMA OthersGood ==
    ASSUME HealthInv, UNCHANGED <<loop, permits, requested, repairing, untried>>
    PROVE  Good
<1>1. Balanced /\ Noticed'
  BY DEF Balanced, Holders, Noticed, HealthInv
<1> QED
  BY <1>1 DEF Good, HealthInv, HealthTyped

LEMMA RepairGood == ASSUME HealthInv, NEW s \in Slots, Repair(s) PROVE Good
<1>1. UNCHANGED <<loop, permits, requested>>
  BY DEF Repair
<1>2. CASE UNCHANGED <<untried, repairing>>
  BY <1>1, <1>2, OthersGood
<1>3. CASE untried' = [untried EXCEPT ![s] = TRUE] /\ repairing' = [repairing EXCEPT ![s] = TRUE]
  <2>1. Balanced
    BY <1>1 DEF Balanced, Holders
  <2>2. untried' \in [Slots -> BOOLEAN] /\ repairing' \in [Slots -> BOOLEAN]
    BY <1>3 DEF HealthInv, HealthTyped
  <2>3. Noticed'
    BY <1>1, <1>3 DEF Noticed, HealthInv, HealthTyped
  <2> QED
    BY <1>1, <2>1, <2>2, <2>3 DEF Good, HealthInv, HealthTyped
<1> QED
  BY <1>2, <1>3 DEF Repair

LEMMA RequestGood == ASSUME HealthInv, NEW s \in Slots, Request(s) PROVE Good
<1>1. UNCHANGED <<loop, permits, untried>>
  BY DEF Request
<1>2. Balanced
  BY <1>1 DEF Balanced, Holders
<1>3. repairing' \in [Slots -> BOOLEAN] /\ requested' \in [Slots -> BOOLEAN]
  BY DEF Request, HealthInv, HealthTyped
<1>4. Noticed'
  BY <1>1 DEF Request, Noticed, HealthInv, HealthTyped
<1> QED
  BY <1>1, <1>2, <1>3, <1>4 DEF Good, HealthInv, HealthTyped

LEMMA TickGood == ASSUME HealthInv, Tick PROVE Good
<1>1. UNCHANGED <<permits, requested, repairing, untried>>
  BY DEF Tick
<1>2. \A q \in LoopRec : /\ [q EXCEPT !.wait = Sooner(q.wait)] \in LoopRec
                         /\ [q EXCEPT !.wait = Sooner(q.wait)].pc = q.pc
  BY DEF LoopRec, Sooner
<1>3. loop' \in [Slots -> LoopRec] /\ \A s \in Slots : loop'[s].pc = loop[s].pc
  BY <1>2 DEF Tick, HealthInv, HealthTyped
<1>4. Balanced
  BY <1>1, <1>3 DEF Balanced, Holders
<1>5. Noticed'
  BY <1>1, <1>3 DEF Noticed, HealthInv
<1> QED
  BY <1>1, <1>3, <1>4, <1>5 DEF Good, HealthInv, HealthTyped

-----------------------------------------------------------------------------
(* The variables that neither permits nor requests depend on *)

Rest ==
    /\ host \in BOOLEAN /\ path \in [Slots -> BOOLEAN]
    /\ listener \in [Slots -> {"up", "dead", "none"}]
    /\ row \in [Slots -> {"connecting", "ready", "degraded"}]
    /\ ref \in [ok : BOOLEAN, left : 0..Validity]
    /\ faults \in 0..MaxFaults
    /\ rounds \in [Slots -> 0..2] /\ excused \in [Slots -> BOOLEAN]

LEMMA FaultTyped == ASSUME Rest, Fault \/ UNCHANGED faults PROVE faults' \in 0..MaxFaults
BY HealthAssumption DEF Rest, Fault

LEMMA LeaveRest ==
    ASSUME Rest, NEW s \in Slots, Leave(s), Fault \/ UNCHANGED faults
    PROVE  Rest'
BY FaultTyped DEF Rest, Leave

\* A step of a round touches the row, what was seen, and the reference.
LEMMA StepRest == ASSUME Rest, NEW s \in Slots, Step(s) PROVE Rest'
<1>1. CASE Wake(s)
  <2>1. excused' \in [Slots -> BOOLEAN]
    BY <1>1 DEF Rest, Wake
  <2> QED
    BY <1>1, <2>1 DEF Rest, Wake
<1>2. CASE Acquire(s)
  BY <1>2 DEF Rest, Acquire
<1>3. CASE Probe(s)
  <2>1. excused' \in [Slots -> BOOLEAN]
    BY <1>3 DEF Rest, Probe
  <2>2. rounds' \in [Slots -> 0..2]
    BY <1>3 DEF Rest, Probe
  <2> QED
    BY <1>3, <2>1, <2>2 DEF Rest, Probe
<1>4. CASE Report(s) \/ ProbeTunnel(s) \/ Retain(s)
  BY <1>4 DEF Rest, Report, ProbeTunnel, Retain
<1>5. CASE Judge(s)
  <2>1. ref' \in [ok : BOOLEAN, left : 0..Validity]
    BY <1>5, HealthAssumption DEF Rest, Judge, Reference
  <2> QED
    BY <1>5, <2>1 DEF Rest, Judge
<1>6. CASE GiveUp(s)
  BY <1>6, LeaveRest DEF GiveUp
<1> QED
  BY <1>1, <1>2, <1>3, <1>4, <1>5, <1>6 DEF Step

LEMMA OutsideRest ==
    ASSUME Rest, NEW s \in Slots, Serve(s) \/ Watch(s) \/ PathLost(s) \/ ListenerDies(s)
    PROVE  Rest'
<1>1. CASE Serve(s)
  BY <1>1 DEF Rest, Serve
<1>2. CASE Repair(s)
  <2>1. faults' \in 0..MaxFaults
    BY <1>2, FaultTyped DEF Repair
  <2> QED
    BY <1>2, <2>1 DEF Rest, Repair
<1>3. CASE Request(s)
  BY <1>3 DEF Rest, Request
<1>4. CASE PathLost(s)
  BY <1>4, FaultTyped DEF Rest, PathLost
<1>5. CASE ListenerDies(s)
  BY <1>5, FaultTyped DEF Rest, ListenerDies
<1> QED
  BY <1>1, <1>2, <1>3, <1>4, <1>5 DEF Watch

LEMMA RestInv == Rest /\ [Next]_vars => Rest'
<1> SUFFICES ASSUME Rest, [Next]_vars PROVE Rest'
  OBVIOUS
<1>1. CASE HostChanges
  <2>1. faults' \in 0..MaxFaults
    BY <1>1, FaultTyped DEF HostChanges
  <2>2. excused' \in [Slots -> BOOLEAN]
    BY <1>1 DEF Rest, HostChanges
  <2> QED
    BY <1>1, <2>1, <2>2 DEF Rest, HostChanges
<1>2. CASE Tick
  <2>1. \A n \in 0..Validity : Sooner(n) \in 0..Validity
    BY HealthAssumption DEF Sooner
  <2>2. ref' = [ref EXCEPT !.left = Sooner(ref.left)] /\ ref.left \in 0..Validity
    BY <1>2 DEF Rest, Tick
  <2>3. ref' \in [ok : BOOLEAN, left : 0..Validity]
    BY <2>1, <2>2 DEF Rest
  <2> QED
    BY <1>2, <2>3 DEF Rest, Tick
<1>3. ASSUME NEW s \in Slots, Interrupt(s) PROVE Rest'
  BY <1>3, LeaveRest DEF Interrupt
<1>4. CASE UNCHANGED vars
  BY <1>4 DEF Rest, vars
<1> QED
  BY <1>1, <1>2, <1>3, <1>4, StepRest, OutsideRest DEF Next

-----------------------------------------------------------------------------
(* The theorems *)

LEMMA HealthInitial == Init => HealthInv
<1> SUFFICES ASSUME Init PROVE HealthInv
  OBVIOUS
<1>1. HealthTyped /\ Noticed
  <2>1. loop \in [Slots -> LoopRec] /\ permits \in Nat
    BY Begun, HealthAssumption DEF Init
  <2> QED
    BY <2>1 DEF Init, HealthTyped, Noticed
<1>2. {s \in Slots : loop[s].pc \in Working} = {}
  BY Begun DEF Init, Working
<1>3. PermitsConserved
  <2>1. permits = Permits /\ Permits \in Nat /\ Cardinality({s \in Slots : loop[s].pc \in Working}) = 0
    BY <1>2, FS_EmptySet, HealthAssumption DEF Init
  <2> QED
    BY <2>1 DEF PermitsConserved
<1> QED
  BY <1>1, <1>3 DEF HealthInv

LEMMA HealthNext == HealthInv /\ [Next]_vars => HealthInv'
<1> SUFFICES ASSUME HealthInv, [Next]_vars PROVE Good
  BY GoodKeeps
<1>1. ASSUME NEW s \in Slots, Step(s) PROVE Good
  BY <1>1, WakeGood, AcquireGood, ProbeGood, ReportGood, ProbeTunnelGood, JudgeGood, LeaveGood, RetainGood
     DEF Step, GiveUp
<1>2. ASSUME NEW s \in Slots, Serve(s) \/ Watch(s) PROVE Good
  BY <1>2, ServeGood, RepairGood, RequestGood DEF Watch
<1>3. ASSUME NEW s \in Slots, Interrupt(s) PROVE Good
  BY <1>3, LeaveGood DEF Interrupt
<1>4. ASSUME NEW s \in Slots, PathLost(s) \/ ListenerDies(s) PROVE Good
  BY <1>4, OthersGood DEF PathLost, ListenerDies
<1>5. CASE HostChanges
  BY <1>5, OthersGood DEF HostChanges
<1>6. CASE Tick
  BY <1>6, TickGood
<1>7. CASE UNCHANGED vars
  BY <1>7, OthersGood DEF vars
<1> QED
  BY <1>1, <1>2, <1>3, <1>4, <1>5, <1>6, <1>7 DEF Next

THEOREM HealthInvariance == Spec => []HealthInv
BY HealthInitial, HealthNext, PTL DEF Spec

\* Every reachable state is well typed: no more permits than there are, and no
\* counter of failures beyond the last delay of the back-off.
THEOREM HealthTypeCorrect == Spec => []TypeOK
<1>1. Init => Rest
  BY HealthAssumption DEF Init, Rest
<1>2. HealthInv /\ Rest => TypeOK
  <2> SUFFICES ASSUME HealthInv, Rest PROVE TypeOK
    OBVIOUS
  <2>1. permits \in Nat /\ Permits \in Nat /\ permits + Cardinality(Holders) = Permits
    BY HealthAssumption DEF HealthInv, HealthTyped, PermitsConserved, Holders
  <2>2. permits \in 0..Permits
    BY <2>1, HoldersCounted
  <2> QED
    BY <2>2 DEF HealthInv, HealthTyped, Rest, TypeOK
<1> QED
  BY <1>1, <1>2, RestInv, HealthInvariance, PTL DEF Spec

\* The semaphore of the health probes is balanced, whatever the delays are and
\* however rounds end: no permit is lost, none is given back twice.
THEOREM PermitsKept == Spec => []PermitsConserved
<1>1. HealthInv => PermitsConserved
  BY DEF HealthInv
<1> QED
  BY <1>1, HealthInvariance, PTL

\* A loop never waits for long with a listener nobody has tried.
THEOREM RepairsNoticed == Spec => []RepairWakes
<1>1. HealthInv => RepairWakes
  BY DEF HealthInv, Noticed, RepairWakes
<1> QED
  BY <1>1, HealthInvariance, PTL

-----------------------------------------------------------------------------
(* An outage of the host keeps the tunnels *)

\* What a loop knows while its failures are excused: a reference from before the
\* outage is used up when the delay after the first failure is over.
Excuse(s) == excused[s] /\ loop[s].pc # "dial" =>
    /\ ~host
    /\ loop[s].pc = "wait" => loop[s].fails > 0 /\ (ref.ok => ref.left <= loop[s].wait)
    /\ loop[s].pc = "socks" => loop[s].seen # "ok" /\ (loop[s].fails = 0 => loop[s].seen = "failed")
    /\ loop[s].pc = "decide" => loop[s].seen # "failed"
    /\ loop[s].pc \in {"acquire", "probe", "tunnel", "judge", "decide"} => loop[s].fails > 0
    /\ loop[s].pc # "wait" /\ loop[s].fails > 0 => (ref.ok => ref.left = 0)

OutageInv == HealthInv /\ Rest /\ \A s \in Slots : Excuse(s)

LEMMA ExcuseTyped ==
    ASSUME OutageInv, NEW s \in Slots
    PROVE  /\ loop[s] \in LoopRec /\ loop[s].fails \in 0..Ladder + 1 /\ loop[s].wait \in Nat
           /\ ref \in [ok : BOOLEAN, left : 0..Validity] /\ ref.left \in Nat /\ host \in BOOLEAN
           /\ excused \in [Slots -> BOOLEAN] /\ Excuse(s) /\ loop \in [Slots -> LoopRec]
<1>1. loop[s] \in LoopRec /\ loop[s].fails \in 0..Ladder + 1 /\ loop[s].wait \in Nat
  BY LoopTyped DEF OutageInv, HealthInv
<1> QED BY <1>1, HealthAssumption DEF OutageInv, Rest, HealthInv, HealthTyped

\* A slot that a step does not concern stays excused: during an outage a new
\* reference never comes out well.
LEMMA OthersExcuse ==
    ASSUME OutageInv, NEW t \in Slots, loop'[t] = loop[t], excused'[t] => excused[t], UNCHANGED host,
           ref' = ref \/ ref' = Reference
    PROVE  Excuse(t)'
<1>1. ~host /\ ref'.ok => ref' = ref
  BY DEF Reference
<1> QED BY <1>1, ExcuseTyped DEF Excuse

\* The end of a round that failed: the loop waits, for Retry or longer.
LEMMA EndExcuse ==
    ASSUME OutageInv, Validity <= Retry, NEW s \in Slots, NEW n \in 1..Ladder + 1, EndRound(s, n),
           loop[s].pc \notin {"dial", "wait"}, UNCHANGED <<host, ref, excused>>, loop[s].fails = 0 => n = 1
    PROVE  Excuse(s)'
<1> DEFINE r == [pc |-> "wait", seen |-> "none", fails |-> n, wait |-> Delay(n)]
<1>1. loop'[s] = r
  BY ExcuseTyped DEF EndRound
<1>2. r.pc = "wait" /\ r.fails = n /\ r.wait = Delay(n) /\ Delay(n) \in Nat
  BY DelayTyped
<1> HIDE DEF r
<1>3. n = 1 => ref.left <= Delay(n)
  BY HealthAssumption DEF Delay, OutageInv, Rest
<1>4. CASE loop[s].fails > 0
  <2>1. excused[s] => ~host /\ (ref.ok => ref.left = 0)
    BY <1>4, ExcuseTyped DEF Excuse
  <2> QED BY <1>1, <1>2, <2>1, ExcuseTyped DEF Excuse
<1>5. CASE loop[s].fails = 0
  <2>1. excused[s] => ~host
    BY ExcuseTyped DEF Excuse
  <2> QED BY <1>1, <1>2, <1>3, <1>5, <2>1, ExcuseTyped DEF Excuse
<1> QED BY <1>4, <1>5, ExcuseTyped

LEMMA WakeExcuse == ASSUME OutageInv, NEW s \in Slots, Wake(s) PROVE Excuse(s)'
<1>1. /\ loop'[s].pc = "acquire" /\ loop'[s].fails = loop[s].fails
      /\ excused'[s] => excused[s] /\ loop[s].wait = 0
  BY ExcuseTyped DEF Wake, LoopRec
<1> QED BY <1>1, ExcuseTyped DEF Excuse, Wake

LEMMA ProbeExcuse == ASSUME OutageInv, NEW s \in Slots, Probe(s) PROVE Excuse(s)'
<1> DEFINE found == IF listener[s] # "up" THEN "local" ELSE IF path[s] /\ host THEN "ok" ELSE "failed"
<1>1. loop' = [loop EXCEPT ![s] = [loop[s] EXCEPT !.pc = "socks", !.seen = found]]
  BY DEF Probe
<1>2. excused'[s] = (IF loop[s].fails = 0 THEN found = "failed" /\ path[s] /\ ~host ELSE excused[s])
  BY ExcuseTyped DEF Probe
<1>3. ~host => found # "ok"
  OBVIOUS
<1> HIDE DEF found
<1>4. loop'[s].pc = "socks" /\ loop'[s].seen = found /\ loop'[s].fails = loop[s].fails
  BY <1>1, ExcuseTyped DEF LoopRec
<1>5. CASE loop[s].fails = 0
  <2>1. excused'[s] => ~host /\ found = "failed"
    BY <1>2, <1>5
  <2> QED BY <1>4, <1>5, <2>1 DEF Excuse, Probe
<1>6. CASE loop[s].fails > 0
  <2>1. excused'[s] => ~host /\ (ref.ok => ref.left = 0)
    BY <1>2, <1>6, ExcuseTyped DEF Excuse, Probe
  <2> QED BY <1>3, <1>4, <1>6, <2>1 DEF Excuse, Probe
<1> QED BY <1>5, <1>6, ExcuseTyped

LEMMA ReportExcuse == ASSUME OutageInv, Validity <= Retry, NEW s \in Slots, Report(s) PROVE Excuse(s)'
<1> DEFINE n == IF loop[s].seen = "ok" THEN 0
                ELSE IF loop[s].fails > Ladder THEN Ladder + 1 ELSE loop[s].fails + 1
<1>1. loop[s].pc = "socks" /\ UNCHANGED <<host, ref, excused>>
  BY DEF Report
<1>2. CASE loop[s].seen = "ok"
  BY <1>1, <1>2, ExcuseTyped DEF Excuse
<1>3. CASE loop[s].seen # "ok"
  <2>1. n \in 1..Ladder + 1 /\ (loop[s].fails = 0 => n = 1)
    BY <1>3, ExcuseTyped, LadderTyped
  <2>2. \/ EndRound(s, n)
        \/ /\ loop' = [loop EXCEPT ![s] = [loop[s] EXCEPT !.pc = "tunnel", !.fails = n]]
           /\ n >= 2
    BY DEF Report
  <2> HIDE DEF n
  <2>3. CASE EndRound(s, n)
    BY <1>1, <2>1, <2>3, EndExcuse
  <2>4. CASE loop' = [loop EXCEPT ![s] = [loop[s] EXCEPT !.pc = "tunnel", !.fails = n]] /\ n >= 2
    <3>1. loop'[s].pc = "tunnel" /\ loop'[s].fails = n /\ loop[s].fails > 0
      BY <2>1, <2>4, ExcuseTyped DEF LoopRec
    <3>2. excused[s] => ~host /\ (ref.ok => ref.left = 0)
      BY <1>1, <3>1, ExcuseTyped DEF Excuse
    <3> QED BY <1>1, <2>1, <3>1, <3>2 DEF Excuse
  <2> QED BY <2>2, <2>3, <2>4
<1> QED BY <1>2, <1>3

LEMMA JudgeExcuse == ASSUME OutageInv, NEW s \in Slots, Judge(s) PROVE Excuse(s)'
<1>1. /\ loop[s].pc = "judge" /\ ref' = Reference /\ UNCHANGED <<host, excused>>
      /\ loop'[s].pc = "decide" /\ loop'[s].fails = loop[s].fails
      /\ loop'[s].seen = IF ref'.ok THEN "failed" ELSE "none"
  BY ExcuseTyped DEF Judge, LoopRec
<1>2. excused[s] => ~ref'.ok
  BY <1>1, ExcuseTyped DEF Excuse, Reference
<1> QED BY <1>1, <1>2, ExcuseTyped DEF Excuse

LEMMA StepExcuse ==
    ASSUME OutageInv, Validity <= Retry, NEW s \in Slots, Step(s)
    PROVE  Excuse(s)'
<1>1. CASE Acquire(s)
  <2>1. loop'[s].pc = "probe" /\ loop'[s].fails = loop[s].fails
    BY <1>1, ExcuseTyped DEF Acquire, LoopRec
  <2> QED BY <1>1, <2>1, ExcuseTyped DEF Excuse, Acquire
<1>2. CASE ProbeTunnel(s)
  <2>1. CASE path[s] /\ host
    <3>1. loop'[s].pc = "wait" /\ ~excused'[s]
      BY <1>2, <2>1, ExcuseTyped DEF ProbeTunnel, EndRound, Excuse
    <3> QED BY <3>1 DEF Excuse
  <2>2. CASE ~(path[s] /\ host)
    <3>1. loop'[s].pc = "judge" /\ loop'[s].fails = loop[s].fails
      BY <1>2, <2>2, ExcuseTyped DEF ProbeTunnel, LoopRec
    <3> QED BY <1>2, <3>1, ExcuseTyped DEF Excuse, ProbeTunnel
  <2> QED BY <2>1, <2>2
<1>3. CASE Retain(s)
  <2>1. CASE loop[s].fails = 0
    <3>1. ~excused'[s]
      BY <1>3, <2>1, ExcuseTyped DEF Retain, Excuse
    <3> QED BY <3>1 DEF Excuse
  <2>2. CASE loop[s].fails > 0
    <3>1. loop[s].fails \in 1..Ladder + 1
      BY <2>2, ExcuseTyped, LadderTyped
    <3> QED BY <1>3, <2>2, <3>1, EndExcuse DEF Retain
  <2> QED BY <2>1, <2>2, ExcuseTyped
<1>4. CASE GiveUp(s)
  BY <1>4, ExcuseTyped DEF GiveUp, Leave, Excuse, Dialling
<1> QED BY <1>1, <1>2, <1>3, <1>4, WakeExcuse, ProbeExcuse, ReportExcuse, JudgeExcuse DEF Step

\* A step of one slot leaves the loops of the others alone.
LEMMA StepAlone ==
    ASSUME OutageInv, NEW s \in Slots, NEW t \in Slots \ {s}, Step(s)
    PROVE  loop'[t] = loop[t] /\ excused'[t] = excused[t] /\ host' = host /\ (ref' = ref \/ ref' = Reference)
BY ExcuseTyped DEF Step, Wake, Acquire, Probe, Report, ProbeTunnel, Judge, GiveUp, Leave, Retain, EndRound

LEMMA TickExcuse == ASSUME OutageInv, Tick, NEW s \in Slots PROVE Excuse(s)'
<1>1. /\ loop'[s].pc = loop[s].pc /\ loop'[s].fails = loop[s].fails /\ loop'[s].seen = loop[s].seen
      /\ loop'[s].wait = Sooner(loop[s].wait)
  BY ExcuseTyped DEF Tick, LoopRec
<1>2. ref'.ok = ref.ok /\ ref'.left = Sooner(ref.left)
  BY ExcuseTyped DEF Tick
<1>3. /\ ref.left <= loop[s].wait => Sooner(ref.left) <= Sooner(loop[s].wait)
      /\ ref.left = 0 => Sooner(ref.left) = 0
  BY ExcuseTyped DEF Sooner
<1> QED BY <1>1, <1>2, <1>3, ExcuseTyped DEF Excuse, Tick

\* The steps that leave the round of a loop where it is.
LEMMA OutsideExcuse ==
    ASSUME OutageInv, NEW s \in Slots, NEW t \in Slots,
           Serve(s) \/ Watch(s) \/ Interrupt(s) \/ PathLost(s) \/ ListenerDies(s) \/ HostChanges \/ UNCHANGED vars
    PROVE  Excuse(t)'
<1>1. CASE Serve(s)
  <2>1. t # s => loop'[t] = loop[t] /\ excused'[t] = excused[t]
    BY <1>1, ExcuseTyped DEF Serve
  <2>2. ~excused'[s]
    BY <1>1, ExcuseTyped DEF Serve
  <2>3. host' = host /\ ref' = ref
    BY <1>1 DEF Serve
  <2> QED BY <2>1, <2>2, <2>3, OthersExcuse DEF Excuse
<1>2. CASE Watch(s) \/ ListenerDies(s) \/ UNCHANGED vars
  BY <1>2, OthersExcuse DEF Watch, Repair, Request, ListenerDies, vars
<1>3. CASE Interrupt(s)
  <2>1. CASE t = s
    BY <1>3, <2>1, ExcuseTyped DEF Interrupt, Leave, Excuse, Dialling
  <2>2. CASE t # s
    BY <1>3, <2>2, ExcuseTyped, OthersExcuse DEF Interrupt, Leave
  <2> QED BY <2>1, <2>2
<1>4. CASE PathLost(s)
  <2>1. excused'[t] => excused[t]
    BY <1>4, ExcuseTyped DEF PathLost
  <2> QED BY <1>4, <2>1, OthersExcuse DEF PathLost
<1>5. CASE HostChanges
  <2>1. CASE loop[t].pc = "dial"
    BY <1>5, <2>1 DEF HostChanges, Excuse
  <2>2. CASE loop[t].pc # "dial"
    <3>1. ~excused'[t]
      BY <1>5, <2>2, ExcuseTyped DEF HostChanges, Excuse
    <3> QED BY <3>1 DEF Excuse
  <2> QED BY <2>1, <2>2
<1> QED BY <1>1, <1>2, <1>3, <1>4, <1>5

\* A reference result is used again for no longer than the delay after a first
\* failure (15 s and 30 s): then an outage of the host costs no working tunnel.
THEOREM OutageKept == Validity <= Retry => (Spec => OutageKeepsTunnels)
<1> SUFFICES ASSUME Validity <= Retry PROVE Spec => OutageKeepsTunnels
  OBVIOUS
<1>1. Init => OutageInv
  BY HealthInitial, HealthAssumption DEF OutageInv, Init, Rest, Excuse
<1>2. OutageInv /\ [Next]_vars => OutageInv'
  <2> SUFFICES ASSUME OutageInv, [Next]_vars, NEW t \in Slots PROVE Excuse(t)'
    BY HealthNext, RestInv DEF OutageInv
  <2>1. ASSUME NEW s \in Slots, Step(s) PROVE Excuse(t)'
    <3>1. CASE t = s
      BY <2>1, <3>1, StepExcuse
    <3>2. CASE t # s
      BY <2>1, <3>2, StepAlone, OthersExcuse
    <3> QED BY <3>1, <3>2
  <2> QED BY <2>1, TickExcuse, OutsideExcuse DEF Next
<1>3. OutageInv => \A s \in Slots : GiveUp(s) => ~excused[s]
  BY DEF OutageInv, Excuse, GiveUp
<1> QED BY <1>1, <1>2, <1>3, PTL DEF Spec, OutageKeepsTunnels

-----------------------------------------------------------------------------
(* The SOCKS listeners *)

Handing == {"accepted", "acquired", "tracked"}
Looping == {"serve", "select"} \cup Handing
Bound   == {"bound", "published"} \cup Looping
Stopping == {"stop", "clients", "join", "stopped"}
Served  == {"run", "relay", "udp"}

\* The client a thread is about to hand over, and what each client holds.
Handed ==
    /\ \A l \in Listeners : thread[l].pc \in Handing =>
         /\ thread[l].conn \in Conns
         /\ conn[thread[l].conn].pc = "accepted" /\ conn[thread[l].conn].lis = l
         /\ conn[thread[l].conn].slot <=> thread[l].pc # "accepted"
    /\ \A c \in Conns : conn[c].pc = "accepted" =>
         /\ conn[c].lis \in Listeners
         /\ thread[conn[c].lis].pc \in Handing /\ thread[conn[c].lis].conn = c
    /\ \A c \in Conns : conn[c].pc = "idle" => ~conn[c].slot
    /\ \A c \in Conns : conn[c].pc \in Served \cup {"end", "close"} =>
         conn[c].slot /\ conn[c].lis \in Listeners

\* How far a listener's thread may be in each phase of its owner. What stop()
\* did not close is a socket the thread will close without serving it.
Phased(l) ==
    /\ owner[l] = "new" <=> thread[l].pc = "none"
    /\ flag[l] <=> owner[l] \in Stopping
    /\ ready[l] => thread[l].pc \in Looping \cup {"closing"}
    /\ owner[l] \notin Stopping =>
         /\ thread[l].pc \in Bound => open[l]
         /\ thread[l].pc = "closing" => ~ready[l]
    /\ owner[l] = "stopped" => thread[l].pc = "ended" \/ "join" \in ListenerFaults
    /\ owner[l] \notin {"clients", "join", "stopped"} /\ thread[l].pc \in Looping \cup {"published"}
         => servers[l]
    /\ owner[l] \in {"clients", "join", "stopped"} /\ thread[l].pc \in Handing \cup {"select"}
         => ~open[l]

\* The clients stop() has still to shut down are tracked; what it has missed is
\* one client.
Late(l) == {c \in Conns : conn[c].lis = l /\ ~conn[c].shut /\ conn[c].pc \in Served \cup {"accepted"}}

Followed(l) ==
    /\ owner[l] \notin {"join", "stopped"} => \A c \in Conns :
         /\ conn[c].lis = l
         /\ conn[c].pc \in Served \/ (conn[c].pc = "accepted" /\ thread[l].pc = "tracked")
         => c \in tracked[l]
    /\ owner[l] \in {"join", "stopped"} => \E x : Late(l) \subseteq {x}

ProxyInv == /\ Proxy!TypeOK /\ Handed /\ Proxy!PermitsConserved
            /\ \A l \in Listeners : Phased(l) /\ Followed(l)

-----------------------------------------------------------------------------
\* A step of listener l's owner or thread that touches no client.
Apart(l) ==
    /\ UNCHANGED <<tracked, conn, free>>
    /\ thread'[l] = thread[l] \/ (thread[l].pc \notin Handing /\ thread'[l].pc \notin Handing)
    /\ \A k \in Listeners \ {l} :
         /\ owner'[k] = owner[k] /\ flag'[k] = flag[k] /\ ready'[k] = ready[k]
         /\ thread'[k] = thread[k] /\ open'[k] = open[k] /\ servers'[k] = servers[k]
    /\ owner'[l] \in {"join", "stopped"} <=> owner[l] \in {"join", "stopped"}

LEMMA ApartKept ==
    ASSUME ProxyInv, NEW l \in Listeners, Apart(l), Proxy!TypeOK', Phased(l)'
    PROVE  ProxyInv'
<1>1. Handed'
  BY DEF ProxyInv, Apart, Handed
<1>2. Proxy!PermitsConserved'
  BY DEF ProxyInv, Apart, Proxy!PermitsConserved, Proxy!Holders
<1>3. ASSUME NEW k \in Listeners PROVE Phased(k)' /\ Followed(k)'
  <2>1. Late(k)' = Late(k)
    BY DEF Apart, Late
  <2>2. thread'[k].pc = "tracked" <=> thread[k].pc = "tracked"
    BY DEF Apart, Handing
  <2>3. Followed(k)'
    BY <2>1, <2>2 DEF ProxyInv, Apart, Followed
  <2>4. Phased(k)'
    BY DEF ProxyInv, Apart, Phased
  <2> QED BY <2>3, <2>4
<1> QED BY <1>1, <1>2, <1>3 DEF ProxyInv


LEMMA ProxyOwner ==
    ASSUME ProxyInv, NEW l \in Listeners,
           Proxy!Start(l) \/ Proxy!StartReturns(l) \/ Proxy!Stop(l) \/ Proxy!StopSockets(l) \/ Proxy!StopReturns(l)
    PROVE  ProxyInv'
<1> USE DEF ProxyInv, Proxy!TypeOK, Apart, Phased, Handing, Looping, Bound, Stopping
<1>1. CASE Proxy!Start(l)
  <2>1. Apart(l) /\ Proxy!TypeOK' /\ Phased(l)'
    BY <1>1 DEF Proxy!Start, Proxy!GoTo
  <2> QED BY <2>1, ApartKept
<1>2. CASE Proxy!StartReturns(l)
  <2>1. Apart(l) /\ Proxy!TypeOK' /\ Phased(l)'
    BY <1>2 DEF Proxy!StartReturns
  <2> QED BY <2>1, ApartKept
<1>3. CASE Proxy!Stop(l)
  <2>1. Apart(l) /\ Proxy!TypeOK' /\ Phased(l)'
    BY <1>3 DEF Proxy!Stop
  <2> QED BY <2>1, ApartKept
<1>4. CASE Proxy!StopSockets(l)
  <2>1. Apart(l) /\ Proxy!TypeOK' /\ Phased(l)'
    BY <1>4 DEF Proxy!StopSockets
  <2> QED BY <2>1, ApartKept
<1>5. CASE Proxy!StopReturns(l)
  <2>1. Apart(l) /\ Proxy!TypeOK' /\ Phased(l)'
    BY <1>5 DEF Proxy!StopReturns, Proxy!At
  <2> QED BY <2>1, ApartKept
<1> QED BY <1>1, <1>2, <1>3, <1>4, <1>5

LEMMA ProxyLoop ==
    ASSUME ProxyInv, NEW l \in Listeners,
           \/ Proxy!Bind(l) \/ Proxy!BindFails(l) \/ Proxy!Publish(l) \/ Proxy!Announce(l) \/ Proxy!Look(l) \/ Proxy!NoClient(l)
           \/ Proxy!LoopEnds(l) \/ Proxy!Close(l)
    PROVE  ProxyInv'
<1> USE DEF ProxyInv, Proxy!TypeOK, Apart, Phased, Handing, Looping, Bound, Stopping, Proxy!At,
        Proxy!GoTo
<1>1. CASE Proxy!Bind(l)
  <2>1. Apart(l) /\ Proxy!TypeOK' /\ Phased(l)'
    BY <1>1 DEF Proxy!Bind
  <2> QED BY <2>1, ApartKept
<1>2. CASE Proxy!BindFails(l)
  <2>1. Apart(l) /\ Proxy!TypeOK' /\ Phased(l)'
    BY <1>2 DEF Proxy!BindFails
  <2> QED BY <2>1, ApartKept
<1>3. CASE Proxy!Publish(l)
  <2>1. Apart(l) /\ Proxy!TypeOK' /\ Phased(l)'
    BY <1>3 DEF Proxy!Publish
  <2> QED BY <2>1, ApartKept
<1>4. CASE Proxy!Announce(l)
  <2>1. Apart(l) /\ Proxy!TypeOK' /\ Phased(l)'
    BY <1>4 DEF Proxy!Announce
  <2> QED BY <2>1, ApartKept
<1>5. CASE Proxy!Look(l)
  <2>1. Apart(l) /\ Proxy!TypeOK' /\ Phased(l)'
    BY <1>5 DEF Proxy!Look
  <2> QED BY <2>1, ApartKept
<1>6. CASE Proxy!NoClient(l)
  <2>1. Apart(l) /\ Proxy!TypeOK' /\ Phased(l)'
    BY <1>6 DEF Proxy!NoClient
  <2> QED BY <2>1, ApartKept
<1>7. CASE Proxy!LoopEnds(l)
  <2>1. Apart(l) /\ Proxy!TypeOK' /\ Phased(l)'
    BY <1>7 DEF Proxy!LoopEnds
  <2> QED BY <2>1, ApartKept
<1>8. CASE Proxy!Close(l)
  <2>1. Apart(l) /\ Proxy!TypeOK' /\ Phased(l)'
    BY <1>8 DEF Proxy!Close
  <2> QED BY <2>1, ApartKept
<1> QED BY <1>1, <1>2, <1>3, <1>4, <1>5, <1>6, <1>7, <1>8

-----------------------------------------------------------------------------
\* Permits: a step leaves who holds one, or one client takes one or returns it.
SlotsStay == free' = free /\ \A c \in Conns : conn'[c].slot = conn[c].slot

\* ProxyListener has its own instance of FiniteSets.
LEMMA Finite == ASSUME NEW S PROVE Proxy!IsFiniteSet(S) <=> IsFiniteSet(S)
BY DEF Proxy!IsFiniteSet, IsFiniteSet

LEMMA Sized == ASSUME NEW S PROVE Proxy!Cardinality(S) = Cardinality(S)
BY DEF Proxy!Cardinality, Cardinality

LEMMA SlotsStayed ==
    ASSUME Proxy!PermitsConserved, SlotsStay
    PROVE  Proxy!PermitsConserved'
<1>1. Proxy!Holders' = Proxy!Holders
  BY DEF SlotsStay, Proxy!Holders
<1> QED BY <1>1 DEF SlotsStay, Proxy!PermitsConserved

LEMMA SlotTaken ==
    ASSUME Proxy!ListenerAssumption, Proxy!TypeOK, Proxy!PermitsConserved, NEW c \in Conns,
           ~conn[c].slot, conn'[c].slot,
           \A d \in Conns \ {c} : conn'[d].slot = conn[d].slot, free' = free - 1
    PROVE  Proxy!PermitsConserved'
<1>1. Proxy!Holders' = Proxy!Holders \cup {c} /\ c \notin Proxy!Holders /\ IsFiniteSet(Proxy!Holders)
  BY Finite, FS_Subset DEF Proxy!Holders, Proxy!ListenerAssumption
<1>2. Cardinality(Proxy!Holders') = Cardinality(Proxy!Holders) + 1 /\ Cardinality(Proxy!Holders) \in Nat
  BY <1>1, FS_AddElement, FS_CardinalityType
<1>3. free + Cardinality(Proxy!Holders) = MaxConnections /\ free \in 0..MaxConnections
  BY Sized DEF Proxy!PermitsConserved, Proxy!TypeOK
<1>4. free' + Cardinality(Proxy!Holders') = MaxConnections
  BY <1>2, <1>3 DEF Proxy!ListenerAssumption
<1> QED BY <1>4, Sized DEF Proxy!PermitsConserved

LEMMA SlotReturned ==
    ASSUME Proxy!ListenerAssumption, Proxy!TypeOK, Proxy!PermitsConserved, NEW c \in Conns,
           conn[c].slot, ~conn'[c].slot,
           \A d \in Conns \ {c} : conn'[d].slot = conn[d].slot, free' = free + 1
    PROVE  Proxy!PermitsConserved' /\ free' \in 0..MaxConnections
<1>1. Proxy!Holders' = Proxy!Holders \ {c} /\ c \in Proxy!Holders /\ IsFiniteSet(Proxy!Holders)
  BY Finite, FS_Subset DEF Proxy!Holders, Proxy!ListenerAssumption
<1>2. Cardinality(Proxy!Holders') = Cardinality(Proxy!Holders) - 1 /\ Cardinality(Proxy!Holders) \in Nat
  BY <1>1, FS_RemoveElement, FS_CardinalityType
<1>3. Cardinality(Proxy!Holders') \in Nat
  BY <1>1, FS_Subset, FS_CardinalityType
<1>4. free + Cardinality(Proxy!Holders) = MaxConnections /\ free \in 0..MaxConnections
  BY Sized DEF Proxy!PermitsConserved, Proxy!TypeOK
<1>5. free' + Cardinality(Proxy!Holders') = MaxConnections /\ free' \in 0..MaxConnections
  BY <1>2, <1>3, <1>4 DEF Proxy!ListenerAssumption
<1> QED BY <1>5, Sized DEF Proxy!PermitsConserved

LEMMA ProxyStopClients ==
    ASSUME Proxy!ListenerAssumption, ProxyInv, NEW l \in Listeners, Proxy!StopClients(l)
    PROVE  ProxyInv'
<1> USE DEF ProxyInv
<1>1. /\ conn' = [c \in Conns |-> IF c \in tracked[l] THEN [conn[c] EXCEPT !.shut = TRUE] ELSE conn[c]]
      /\ tracked' = [tracked EXCEPT ![l] = {}] /\ owner[l] = "clients" /\ owner' = [owner EXCEPT ![l] = "join"]
      /\ UNCHANGED <<flag, ready, started, thread, open, servers, free>>
  BY DEF Proxy!StopClients
<1>2. \A c \in Conns : /\ conn'[c].pc = conn[c].pc /\ conn'[c].lis = conn[c].lis
                       /\ conn'[c].slot = conn[c].slot
                       /\ conn[c].shut => conn'[c].shut
                       /\ c \in tracked[l] => conn'[c].shut
                       /\ conn'[c] \in Proxy!ConnRec
  BY <1>1 DEF Proxy!TypeOK, Proxy!ConnRec
<1>3. Proxy!TypeOK'
  <2>1. conn' \in [Conns -> Proxy!ConnRec]
    BY <1>1, <1>2
  <2> QED BY <1>1, <2>1 DEF Proxy!TypeOK
<1>4. Handed'
  BY <1>1, <1>2 DEF Handed, Handing, Served
<1>5. Proxy!PermitsConserved'
  BY <1>1, <1>2, SlotsStayed DEF SlotsStay
<1>6. ASSUME NEW k \in Listeners PROVE Phased(k)'
  BY <1>1 DEF Phased, Proxy!TypeOK, Stopping
<1>7. Followed(l)'
  <2>1. ASSUME NEW c \in Late(l)' PROVE c = thread[l].conn
    <3>1. /\ c \in Conns /\ conn[c].lis = l /\ c \notin tracked[l]
          /\ conn[c].pc \in Served \cup {"accepted"}
      BY <1>2, <2>1 DEF Late
    <3>2. conn[c].pc = "accepted"
      BY <1>1, <3>1 DEF Followed
    <3> QED BY <3>1, <3>2 DEF Handed
  <2>2. owner'[l] = "join"
    BY <1>1 DEF Proxy!TypeOK
  <2> QED BY <2>1, <2>2 DEF Followed
<1>8. ASSUME NEW k \in Listeners \ {l} PROVE Followed(k)'
  <2>1. Late(k)' \subseteq Late(k)
    BY <1>2 DEF Late
  <2>2. tracked'[k] = tracked[k] /\ owner'[k] = owner[k]
    BY <1>1 DEF Proxy!TypeOK
  <2> QED BY <1>1, <1>2, <2>1, <2>2 DEF Followed
<1> QED BY <1>3, <1>4, <1>5, <1>6, <1>7, <1>8 DEF ProxyInv

-----------------------------------------------------------------------------
\* A step about client c of listener l, which moves within the loop if at all.
About(l, c) ==
    /\ UNCHANGED <<owner, flag, ready, started, open, servers>>
    /\ \A d \in Conns \ {c} : conn'[d] = conn[d]
    /\ \A k \in Listeners \ {l} : thread'[k] = thread[k] /\ tracked'[k] = tracked[k]
    /\ \A d \in Conns \ {c} : d \in tracked'[l] <=> d \in tracked[l]
    /\ conn[c].lis \in {l, None} /\ conn'[c].lis \in {l, None}

LEMMA AboutPhased ==
    ASSUME ProxyInv, NEW l \in Listeners, NEW c \in Conns, About(l, c),
           \/ thread'[l].pc = thread[l].pc
           \/ /\ thread[l].pc \in Handing \cup {"select"} /\ thread'[l].pc \in Handing \cup {"select"}
    PROVE  \A k \in Listeners : Phased(k)'
<1> SUFFICES ASSUME NEW k \in Listeners PROVE Phased(k)'
  OBVIOUS
<1>1. Phased(k)
  BY DEF ProxyInv
<1>2. CASE thread'[k].pc = thread[k].pc
  BY <1>1, <1>2 DEF About, Phased
<1>3. CASE k = l
  BY <1>1, <1>3 DEF About, Phased, Handing, Looping, Bound
<1> QED BY <1>2, <1>3 DEF About

\* Followed, when client c is late only if it was, or is accepted from an open
\* socket; and tracked where it has to be.
LEMMA AboutFollowed ==
    ASSUME Proxy!ListenerAssumption, ProxyInv, NEW l \in Listeners, NEW c \in Conns, About(l, c),
           c \in Late(l)' => c \in Late(l) \/ owner[l] \notin {"join", "stopped"},
           owner[l] \notin {"join", "stopped"} /\ conn'[c].lis = l
             /\ (conn'[c].pc \in Served \/ (conn'[c].pc = "accepted" /\ thread'[l].pc = "tracked"))
             => c \in tracked'[l],
           \A d \in Conns \ {c} : conn[d].pc = "accepted" /\ conn[d].lis = l => thread'[l].pc = thread[l].pc
    PROVE  \A k \in Listeners : Followed(k)'
<1> SUFFICES ASSUME NEW k \in Listeners PROVE Followed(k)'
  OBVIOUS
<1>1. Followed(k) /\ None \notin Listeners /\ owner'[k] = owner[k]
  BY DEF ProxyInv, Proxy!ListenerAssumption, About
<1>2. CASE k = l
  <2>1. ASSUME owner[l] \in {"join", "stopped"} PROVE Late(l)' \subseteq Late(l)
    BY <2>1 DEF Late, About
  <2>2. ASSUME owner[l] \notin {"join", "stopped"}, NEW d \in Conns, conn'[d].lis = l,
               conn'[d].pc \in Served \/ (conn'[d].pc = "accepted" /\ thread'[l].pc = "tracked")
        PROVE  d \in tracked'[l]
    <3>1. CASE d = c
      BY <2>2, <3>1
    <3>2. CASE d # c
      <4>1. conn[d].lis = l /\ (conn[d].pc \in Served \/ (conn[d].pc = "accepted" /\ thread[l].pc = "tracked"))
        BY <2>2, <3>2 DEF About
      <4>2. d \in tracked[l]
        BY <1>1, <1>2, <2>2, <4>1 DEF Followed
      <4> QED BY <3>2, <4>2 DEF About
    <3> QED BY <3>1, <3>2
  <2> QED BY <1>1, <1>2, <2>1, <2>2 DEF Followed
<1>3. CASE k # l
  <2>1. Late(k)' = Late(k)
    BY <1>1, <1>3 DEF Late, About
  <2>2. \A d \in Conns : conn'[d].lis = k \/ conn[d].lis = k => d # c
    BY <1>1, <1>3 DEF About
  <2> QED BY <1>1, <1>3, <2>1, <2>2 DEF Followed, About
<1> QED BY <1>2, <1>3

LEMMA ProxyAccept ==
    ASSUME Proxy!ListenerAssumption, ProxyInv, NEW l \in Listeners, Proxy!Accept(l)
    PROVE  ProxyInv'
<1> USE DEF ProxyInv
<1>1. PICK c \in Conns :
        /\ conn[c].pc = "idle" /\ conn' = [conn EXCEPT ![c].pc = "accepted", ![c].lis = l]
        /\ thread' = [thread EXCEPT ![l] = [pc |-> "accepted", conn |-> c]]
  BY DEF Proxy!Accept
<1>2. /\ UNCHANGED <<owner, flag, ready, started, open, servers, tracked, free>>
      /\ thread[l].pc = "select" /\ open[l]
  BY DEF Proxy!Accept, Proxy!At
<1>3. /\ conn'[c].pc = "accepted" /\ conn'[c].lis = l /\ conn'[c].slot = conn[c].slot
      /\ conn'[c].shut = conn[c].shut /\ conn' \in [Conns -> Proxy!ConnRec]
      /\ \A d \in Conns \ {c} : conn'[d] = conn[d]
      /\ thread'[l].pc = "accepted" /\ thread'[l].conn = c /\ \A k \in Listeners \ {l} : thread'[k] = thread[k]
  BY <1>1 DEF Proxy!TypeOK, Proxy!ConnRec
<1>4. Proxy!TypeOK'
  BY <1>1, <1>2, <1>3 DEF Proxy!TypeOK
<1>5. Handed'
  BY <1>1, <1>2, <1>3, <1>4 DEF Handed, Handing, Served
<1>6. Proxy!PermitsConserved'
  BY <1>2, <1>3, SlotsStayed DEF SlotsStay
<1>7. owner[l] \notin {"join", "stopped"}
  BY <1>2 DEF Phased
<1>8. ASSUME NEW k \in Listeners PROVE Phased(k)'
  BY <1>2, <1>3 DEF Phased, Handing, Looping, Bound
<1>9. ASSUME NEW k \in Listeners PROVE Followed(k)'
  <2>1. k # l => Late(k)' \subseteq Late(k)
    BY <1>3 DEF Late
  <2> QED BY <1>1, <1>2, <1>3, <1>7, <2>1 DEF Followed, Served
<1> QED BY <1>4, <1>5, <1>6, <1>8, <1>9

LEMMA ProxyHand ==
    ASSUME Proxy!ListenerAssumption, ProxyInv, NEW l \in Listeners,
           Proxy!Acquire(l) \/ Proxy!TurnAway(l) \/ Proxy!Track(l) \/ Proxy!HandOver(l) \/ Proxy!HandOverFails(l)
    PROVE  ProxyInv'
<1> USE DEF ProxyInv, Proxy!At, Proxy!GoTo
<1>1. thread[l].pc \in Handing
  BY DEF Proxy!Acquire, Proxy!TurnAway, Proxy!Track, Proxy!HandOver, Proxy!HandOverFails, Handing
<1>2. PICK c \in Conns : /\ c = thread[l].conn /\ conn[c].pc = "accepted" /\ conn[c].lis = l
                         /\ conn[c].slot <=> thread[l].pc # "accepted"
  BY <1>1 DEF Handed
<1>3. \A d \in Conns \ {c} : ~(conn[d].pc = "accepted" /\ conn[d].lis = l)
  BY <1>2 DEF Handed
<1>4. None \notin Listeners /\ None \notin Conns
  BY DEF Proxy!ListenerAssumption
<1>5. ASSUME About(l, c), Proxy!TypeOK', Proxy!PermitsConserved',
             \/ /\ thread'[l].pc \in Handing /\ thread'[l].conn = c
                /\ conn'[c].pc = "accepted" /\ conn'[c].lis = l
                /\ conn'[c].slot <=> thread'[l].pc # "accepted"
                /\ thread'[l].pc = "tracked" => c \in tracked'[l]
             \/ /\ thread'[l].pc = "select" /\ conn'[c].pc = "idle" /\ ~conn'[c].slot
             \/ /\ thread'[l].pc = "select" /\ conn'[c].pc = "run" /\ conn'[c].slot /\ conn'[c].lis = l
                /\ thread[l].pc = "tracked" /\ tracked' = tracked,
             conn'[c].shut = conn[c].shut \/ conn'[c].pc = "idle"
      PROVE  ProxyInv'
  <2>1. \A k \in Listeners : Phased(k)'
    BY <1>1, <1>5, AboutPhased
  <2>2. c \in Late(l)' => c \in Late(l)
    BY <1>2, <1>5 DEF Late, Served
  <2>3. owner[l] \notin {"join", "stopped"} /\ conn'[c].lis = l
             /\ (conn'[c].pc \in Served \/ (conn'[c].pc = "accepted" /\ thread'[l].pc = "tracked"))
             => c \in tracked'[l]
    BY <1>2, <1>5 DEF Followed, Served
  <2>4. \A k \in Listeners : Followed(k)'
    BY <1>3, <1>5, <2>2, <2>3, AboutFollowed
  <2>5. Handed'
    <3>1. ASSUME NEW k \in Listeners, thread'[k].pc \in Handing
          PROVE  /\ thread'[k].conn \in Conns
                 /\ conn'[thread'[k].conn].pc = "accepted" /\ conn'[thread'[k].conn].lis = k
                 /\ conn'[thread'[k].conn].slot <=> thread'[k].pc # "accepted"
      <4>1. CASE k = l
        BY <1>5, <3>1, <4>1 DEF Handing
      <4>2. CASE k # l
        <5>1. thread'[k] = thread[k]
          BY <1>5, <4>2 DEF About
        <5>2. thread[k].conn # c
          BY <1>2, <3>1, <4>2, <5>1 DEF Handed
        <5> QED BY <1>5, <3>1, <5>1, <5>2 DEF Handed, About
      <4> QED BY <4>1, <4>2
    <3>2. ASSUME NEW d \in Conns, conn'[d].pc = "accepted"
          PROVE  /\ conn'[d].lis \in Listeners
                 /\ thread'[conn'[d].lis].pc \in Handing /\ thread'[conn'[d].lis].conn = d
      <4>1. CASE d = c
        BY <1>5, <3>2, <4>1
      <4>2. CASE d # c
        BY <1>3, <1>5, <3>2, <4>2 DEF Handed, About
      <4> QED BY <4>1, <4>2
    <3>3. \A d \in Conns : /\ conn'[d].pc = "idle" => ~conn'[d].slot
                           /\ conn'[d].pc \in Served \cup {"end", "close"} => conn'[d].slot /\ conn'[d].lis \in Listeners
      BY <1>5 DEF Handed, About, Served
    <3> QED BY <3>1, <3>2, <3>3 DEF Handed
  <2> QED BY <1>5, <2>1, <2>4, <2>5
<1>6. CASE Proxy!Acquire(l)
  <2>1. /\ free > 0 /\ free' = free - 1 /\ conn' = [conn EXCEPT ![c].slot = TRUE]
        /\ thread' = [thread EXCEPT ![l].pc = "acquired"] /\ thread[l].pc = "accepted"
        /\ UNCHANGED <<owner, flag, ready, started, open, servers, tracked>>
    BY <1>2, <1>6 DEF Proxy!Acquire
  <2>2. /\ conn'[c].pc = "accepted" /\ conn'[c].lis = l /\ conn'[c].slot /\ conn'[c].shut = conn[c].shut
        /\ conn' \in [Conns -> Proxy!ConnRec] /\ \A d \in Conns \ {c} : conn'[d] = conn[d]
        /\ thread'[l].pc = "acquired" /\ thread'[l].conn = c /\ \A k \in Listeners \ {l} : thread'[k] = thread[k]
    <3>1. conn[c] \in Proxy!ConnRec /\ thread[l].conn = c
      BY <1>2 DEF Proxy!TypeOK
    <3>2. [conn[c] EXCEPT !.slot = TRUE] \in Proxy!ConnRec
      BY <3>1 DEF Proxy!ConnRec
    <3>3. conn'[c] = [conn[c] EXCEPT !.slot = TRUE] /\ \A d \in Conns \ {c} : conn'[d] = conn[d]
      BY <2>1 DEF Proxy!TypeOK
    <3>4. conn' \in [Conns -> Proxy!ConnRec]
      BY <2>1, <3>2 DEF Proxy!TypeOK
    <3>5. thread'[l].pc = "acquired" /\ thread'[l].conn = c /\ \A k \in Listeners \ {l} : thread'[k] = thread[k]
      BY <2>1, <3>1 DEF Proxy!TypeOK
    <3> QED BY <1>2, <3>1, <3>3, <3>4, <3>5 DEF Proxy!ConnRec
  <2>3. Proxy!TypeOK'
    BY <2>1, <2>2 DEF Proxy!TypeOK, Proxy!ListenerAssumption
  <2>4. Proxy!PermitsConserved'
    BY <1>2, <2>1, <2>2, SlotTaken
  <2>5. About(l, c)
    BY <1>2, <2>1, <2>2 DEF About
  <2> QED BY <1>5, <2>2, <2>3, <2>4, <2>5 DEF Handing
<1>7. CASE Proxy!TurnAway(l)
  <2>1. /\ conn' = [conn EXCEPT ![c] = Proxy!NoConn] /\ thread[l].pc = "accepted"
        /\ thread' = [thread EXCEPT ![l] = [pc |-> "select", conn |-> None]]
        /\ UNCHANGED <<owner, flag, ready, started, open, servers, tracked, free>>
    BY <1>2, <1>7 DEF Proxy!TurnAway
  <2>2. Proxy!NoConn \in Proxy!ConnRec /\ Proxy!NoConn.pc = "idle" /\ Proxy!NoConn.lis = None /\ Proxy!NoConn.slot = FALSE
    BY DEF Proxy!NoConn, Proxy!ConnRec
  <2>3. conn'[c] = Proxy!NoConn /\ \A d \in Conns \ {c} : conn'[d] = conn[d]
    BY <2>1 DEF Proxy!TypeOK
  <2>4. /\ thread'[l].pc = "select" /\ \A k \in Listeners \ {l} : thread'[k] = thread[k]
        /\ Proxy!TypeOK'
    BY <2>1, <2>2 DEF Proxy!TypeOK
  <2>5. Proxy!PermitsConserved'
    BY <1>2, <2>1, <2>2, <2>3, SlotsStayed DEF SlotsStay, Proxy!TypeOK, Proxy!ConnRec
  <2>6. About(l, c)
    BY <1>2, <2>1, <2>2, <2>3, <2>4 DEF About
  <2> QED BY <1>5, <2>2, <2>3, <2>4, <2>5, <2>6
<1>8. CASE Proxy!Track(l)
  <2>1. /\ tracked' = [tracked EXCEPT ![l] = @ \cup {c}] /\ thread[l].pc = "acquired"
        /\ thread' = [thread EXCEPT ![l].pc = "tracked"]
        /\ UNCHANGED <<owner, flag, ready, started, open, servers, conn, free>>
    BY <1>2, <1>8 DEF Proxy!Track
  <2>2. /\ tracked'[l] = tracked[l] \cup {c} /\ \A k \in Listeners \ {l} : tracked'[k] = tracked[k]
        /\ thread'[l].pc = "tracked" /\ thread'[l].conn = c /\ \A k \in Listeners \ {l} : thread'[k] = thread[k]
        /\ Proxy!TypeOK'
    BY <1>2, <2>1 DEF Proxy!TypeOK
  <2>3. Proxy!PermitsConserved'
    BY <2>1, SlotsStayed DEF SlotsStay
  <2>4. About(l, c)
    BY <1>2, <2>1, <2>2 DEF About
  <2> QED BY <1>2, <1>5, <2>1, <2>2, <2>3, <2>4 DEF Handing
<1>9. CASE Proxy!HandOver(l)
  <2>1. /\ conn' = [conn EXCEPT ![c].pc = "run"] /\ thread[l].pc = "tracked"
        /\ thread' = [thread EXCEPT ![l] = [pc |-> "select", conn |-> None]]
        /\ UNCHANGED <<owner, flag, ready, started, open, servers, tracked, free>>
    BY <1>2, <1>9 DEF Proxy!HandOver
  <2>2. /\ conn'[c].pc = "run" /\ conn'[c].lis = l /\ conn'[c].slot = conn[c].slot /\ conn'[c].shut = conn[c].shut
        /\ conn' \in [Conns -> Proxy!ConnRec] /\ \A d \in Conns \ {c} : conn'[d] = conn[d]
        /\ thread'[l].pc = "select" /\ \A k \in Listeners \ {l} : thread'[k] = thread[k]
    BY <1>2, <2>1 DEF Proxy!TypeOK, Proxy!ConnRec
  <2>3. Proxy!TypeOK'
    BY <2>1, <2>2 DEF Proxy!TypeOK
  <2>4. Proxy!PermitsConserved'
    BY <2>1, <2>2, SlotsStayed DEF SlotsStay
  <2>5. About(l, c)
    BY <1>2, <2>1, <2>2 DEF About
  <2> QED BY <1>2, <1>5, <2>1, <2>2, <2>3, <2>4, <2>5
<1>10. CASE Proxy!HandOverFails(l)
  <2>1. /\ conn' = [conn EXCEPT ![c] = Proxy!NoConn] /\ thread[l].pc = "tracked" /\ free' = free + 1
        /\ tracked' = [tracked EXCEPT ![l] = @ \ {c}]
        /\ thread' = [thread EXCEPT ![l] = [pc |-> "select", conn |-> None]]
        /\ UNCHANGED <<owner, flag, ready, started, open, servers>>
    BY <1>2, <1>10 DEF Proxy!HandOverFails
  <2>2. Proxy!NoConn \in Proxy!ConnRec /\ Proxy!NoConn.pc = "idle" /\ Proxy!NoConn.lis = None /\ Proxy!NoConn.slot = FALSE
    BY DEF Proxy!NoConn, Proxy!ConnRec
  <2>3. conn'[c] = Proxy!NoConn /\ \A d \in Conns \ {c} : conn'[d] = conn[d]
    BY <2>1 DEF Proxy!TypeOK
  <2>4. Proxy!PermitsConserved' /\ free' \in 0..MaxConnections
    BY <1>2, <2>1, <2>2, <2>3, SlotReturned
  <2>5. /\ thread'[l].pc = "select" /\ \A k \in Listeners \ {l} : thread'[k] = thread[k]
        /\ tracked'[l] = tracked[l] \ {c} /\ \A k \in Listeners \ {l} : tracked'[k] = tracked[k]
        /\ Proxy!TypeOK'
    BY <2>1, <2>2, <2>4 DEF Proxy!TypeOK
  <2>6. About(l, c)
    BY <1>2, <2>1, <2>2, <2>3, <2>5 DEF About
  <2> QED BY <1>5, <2>2, <2>3, <2>4, <2>5, <2>6
<1> QED BY <1>6, <1>7, <1>8, <1>9, <1>10

LEMMA ProxyClient ==
    ASSUME Proxy!ListenerAssumption, ProxyInv, NEW c \in Conns, Proxy!Client(c)
    PROVE  ProxyInv'
<1> USE DEF ProxyInv, Proxy!ClientAt
<1>1. conn[c].pc \in Served \cup {"end", "close"}
  BY DEF Proxy!Client, Proxy!Negotiate, Proxy!RelayEnds, Proxy!UdpEnds, Proxy!Discard,
      Proxy!Release, Served
<1>2. PICK l \in Listeners : conn[c].lis = l /\ conn[c].slot
  BY <1>1 DEF Handed
<1>3. \A k \in Listeners : thread[k].pc \in Handing => thread[k].conn # c
  BY <1>1 DEF Handed, Served
<1>4. None \notin Listeners /\ None \notin Conns
  BY DEF Proxy!ListenerAssumption
<1>5. ASSUME About(l, c), Proxy!TypeOK', Proxy!PermitsConserved', UNCHANGED thread,
             \/ /\ conn'[c].pc \in Served \cup {"end", "close"} /\ conn'[c].slot /\ conn'[c].lis = l
                /\ conn'[c].shut = conn[c].shut
                /\ conn'[c].pc \in Served => conn[c].pc \in Served /\ tracked' = tracked
             \/ conn'[c].pc = "idle" /\ ~conn'[c].slot
      PROVE  ProxyInv'
  <2>1. \A k \in Listeners : Phased(k)'
    BY <1>5, AboutPhased
  <2>2. c \in Late(l)' => c \in Late(l)
    BY <1>2, <1>5 DEF Late, Served
  <2>3. owner[l] \notin {"join", "stopped"} /\ conn'[c].lis = l
             /\ (conn'[c].pc \in Served \/ (conn'[c].pc = "accepted" /\ thread'[l].pc = "tracked"))
             => c \in tracked'[l]
    BY <1>2, <1>5 DEF Followed, Served
  <2>4. \A k \in Listeners : Followed(k)'
    BY <1>5, <2>2, <2>3, AboutFollowed
  <2>5. Handed'
    BY <1>3, <1>5 DEF Handed, About, Served
  <2> QED BY <1>5, <2>1, <2>4, <2>5
<1>6. ASSUME NEW pc \in Served \cup {"end"}, conn' = [conn EXCEPT ![c].pc = pc],
             pc \in Served => conn[c].pc \in Served,
             UNCHANGED <<owner, flag, ready, started, thread, open, servers, tracked, free>>
      PROVE  ProxyInv'
  <2>1. /\ conn'[c].pc = pc /\ conn'[c].lis = l /\ conn'[c].slot = conn[c].slot /\ conn'[c].shut = conn[c].shut
        /\ conn' \in [Conns -> Proxy!ConnRec] /\ \A d \in Conns \ {c} : conn'[d] = conn[d]
    BY <1>2, <1>6 DEF Proxy!TypeOK, Proxy!ConnRec, Served
  <2>2. Proxy!TypeOK'
    BY <1>6, <2>1 DEF Proxy!TypeOK
  <2>3. Proxy!PermitsConserved'
    BY <1>6, <2>1, SlotsStayed DEF SlotsStay
  <2>4. About(l, c)
    BY <1>2, <1>6, <2>1 DEF About
  <2> QED BY <1>2, <1>5, <1>6, <2>1, <2>2, <2>3, <2>4
<1>7. CASE Proxy!Negotiate(c) \/ Proxy!RelayEnds(c) \/ Proxy!UdpEnds(c)
  BY <1>6, <1>7 DEF Proxy!Negotiate, Proxy!RelayEnds, Proxy!UdpEnds, Proxy!ClientTo, Served
<1>8. CASE Proxy!Discard(c)
  <2>1. /\ conn' = [conn EXCEPT ![c].pc = "close"] /\ tracked' = [tracked EXCEPT ![l] = @ \ {c}]
        /\ UNCHANGED <<owner, flag, ready, started, thread, open, servers, free>>
    BY <1>2, <1>8 DEF Proxy!Discard
  <2>2. /\ conn'[c].pc = "close" /\ conn'[c].lis = l /\ conn'[c].slot = conn[c].slot /\ conn'[c].shut = conn[c].shut
        /\ conn' \in [Conns -> Proxy!ConnRec] /\ \A d \in Conns \ {c} : conn'[d] = conn[d]
    BY <1>2, <2>1 DEF Proxy!TypeOK, Proxy!ConnRec
  <2>3. /\ tracked'[l] = tracked[l] \ {c} /\ \A k \in Listeners \ {l} : tracked'[k] = tracked[k]
        /\ Proxy!TypeOK'
    BY <2>1, <2>2 DEF Proxy!TypeOK
  <2>4. Proxy!PermitsConserved'
    BY <2>1, <2>2, SlotsStayed DEF SlotsStay
  <2>5. About(l, c)
    BY <1>2, <2>1, <2>2, <2>3 DEF About
  <2> QED BY <1>2, <1>5, <2>1, <2>2, <2>3, <2>4, <2>5 DEF Served
<1>9. CASE Proxy!Release(c)
  <2>1. /\ conn' = [conn EXCEPT ![c] = Proxy!NoConn] /\ free' = free + 1
        /\ UNCHANGED <<owner, flag, ready, started, thread, open, servers, tracked>>
    BY <1>9 DEF Proxy!Release
  <2>2. Proxy!NoConn \in Proxy!ConnRec /\ Proxy!NoConn.pc = "idle" /\ Proxy!NoConn.lis = None /\ Proxy!NoConn.slot = FALSE
    BY DEF Proxy!NoConn, Proxy!ConnRec
  <2>3. conn'[c] = Proxy!NoConn /\ \A d \in Conns \ {c} : conn'[d] = conn[d]
    BY <2>1 DEF Proxy!TypeOK
  <2>4. Proxy!PermitsConserved' /\ free' \in 0..MaxConnections
    BY <1>2, <2>1, <2>2, <2>3, SlotReturned
  <2>5. Proxy!TypeOK'
    BY <2>1, <2>2, <2>4 DEF Proxy!TypeOK
  <2>6. About(l, c)
    BY <1>2, <2>1, <2>2, <2>3 DEF About
  <2> QED BY <1>5, <2>1, <2>2, <2>3, <2>4, <2>5, <2>6
<1> QED BY <1>7, <1>8, <1>9 DEF Proxy!Client

LEMMA ProxyInitial == ASSUME Proxy!ListenerAssumption, Proxy!Init PROVE ProxyInv
<1>1. Proxy!TypeOK
  BY DEF Proxy!ListenerAssumption, Proxy!Init, Proxy!TypeOK, Proxy!NoConn, Proxy!ConnRec
<1>2. Handed
  BY DEF Proxy!Init, Handed, Handing, Served, Proxy!NoConn
<1>3. Proxy!PermitsConserved
  <2>1. Proxy!Holders = {}
    BY DEF Proxy!Init, Proxy!Holders, Proxy!NoConn
  <2> QED BY <2>1, Sized, FS_EmptySet DEF Proxy!Init, Proxy!PermitsConserved, Proxy!ListenerAssumption
<1>4. ASSUME NEW l \in Listeners PROVE Phased(l) /\ Followed(l)
  BY DEF Proxy!Init, Phased, Followed, Stopping, Looping, Bound, Handing, Served, Proxy!NoConn
<1> QED BY <1>1, <1>2, <1>3, <1>4 DEF ProxyInv

LEMMA ProxyNext == ASSUME Proxy!ListenerAssumption, ProxyInv, [Proxy!Next]_Proxy!vars PROVE ProxyInv'
<1>1. CASE UNCHANGED Proxy!vars
  <2>1. ASSUME NEW l \in Listeners PROVE Phased(l)' /\ Followed(l)'
    BY <1>1 DEF ProxyInv, Proxy!vars, Phased, Followed, Late
  <2> QED BY <1>1, <2>1 DEF ProxyInv, Proxy!vars, Proxy!TypeOK, Handed, Proxy!PermitsConserved,
              Proxy!Holders
<1> QED BY <1>1, ProxyOwner, ProxyStopClients, ProxyLoop, ProxyAccept, ProxyHand, ProxyClient
    DEF Proxy!Next, Proxy!Owner, Proxy!Serve

\* Each client holds one permit or none, a listener is ready only on an open port
\* unless it is being stopped, and stop() leaves at most one client behind: the
\* one that was between accept() and _clients when it took them.
THEOREM ProxyClientsAccounted == Proxy!Spec => []ClientsAccounted
<1> USE ManagerAssumption DEF ManagerAssumption
<1>1. ProxyInv => Proxy!PermitsConserved
  BY DEF ProxyInv
<1>2. ProxyInv => Proxy!ReadyWhileBound
  BY DEF ProxyInv, Proxy!ReadyWhileBound, Phased, Looping, Bound, Handing, Stopping
<1>3. ProxyInv => Proxy!AtMostOneLate
  <2> SUFFICES ASSUME ProxyInv, NEW l \in Listeners, owner[l] \in {"join", "stopped"}
               PROVE  Cardinality({c \in Conns : conn[c].lis = l /\ ~conn[c].shut
                                    /\ conn[c].pc \in {"accepted", "run", "relay", "udp"}}) <= 1
    BY Sized DEF Proxy!AtMostOneLate
  <2>1. PICK x : Late(l) \subseteq {x}
    BY DEF ProxyInv, Followed
  <2>2. IsFiniteSet({x}) /\ Cardinality({x}) = 1
    BY FS_Singleton
  <2>3. Cardinality(Late(l)) <= 1
    BY <2>1, <2>2, FS_Subset
  <2>4. Late(l) = {c \in Conns : conn[c].lis = l /\ ~conn[c].shut
                                    /\ conn[c].pc \in {"accepted", "run", "relay", "udp"}}
    BY DEF Late, Served
  <2> QED BY <2>3, <2>4
<1>4. ProxyInv /\ [Proxy!Next]_Proxy!vars => ProxyInv'
  BY ProxyNext
<1> QED BY <1>1, <1>2, <1>3, <1>4, ProxyInitial, PTL DEF Proxy!Spec, Proxy!ClientsAccounted,
            ClientsAccounted

-----------------------------------------------------------------------------
(* The Realm forwarder *)

\* Who waits for a process it has signalled holds the lock, and while it does
\* no process is recorded.
RealmLocked ==
    /\ \A r \in Requests : realmLock = r <=> request[r].pc \in {"stopWait", "stopKilled"}
    /\ realmLock # None =>
         /\ process = None
         /\ request[realmLock].target \in Children
         /\ child[request[realmLock].target].life \in
              IF Realm!At(realmLock, "stopKilled") THEN {"killed", "dead"} ELSE {"term", "killed", "dead"}

\* What is recorded exists; what runs for a restart that has made its stop is
\* not older than the restart.
RealmFresh ==
    /\ process # None => child[process].life # "unborn"
    /\ \A r \in Requests :
         /\ request[r].seen <= config
         /\ request[r].restart /\ request[r].pc \in {"start", "started"} /\ Realm!Recorded
              => child[process].config >= request[r].seen

RealmInv == Realm!TypeOK /\ RealmLocked /\ RealmFresh /\ Realm!OneForwarder

LEMMA RealmTyped ==
    ASSUME Realm!RealmAssumption, Realm!TypeOK, RealmLocked, [Realm!Next]_Realm!vars
    PROVE  Realm!TypeOK'
<1> USE DEF Realm!RealmAssumption, Realm!TypeOK, Realm!RequestRec, Realm!ChildRec, Realm!Steps,
        Realm!Goto, Realm!At
<1>1. CASE Realm!Configure
  BY <1>1 DEF Realm!Configure
<1>2. CASE Realm!ChildExits
  BY <1>2 DEF Realm!ChildExits
<1>3. ASSUME NEW r \in Requests,
             Realm!RequestStart(r) \/ Realm!RequestStop(r) \/ Realm!RequestRestart(r)
      PROVE  Realm!TypeOK'
  <2>1. PICK pc \in {"start", "stop"}, b \in BOOLEAN : Realm!Begin(r, pc, b)
    BY <1>3 DEF Realm!RequestStart, Realm!RequestStop, Realm!RequestRestart
  <2>2. [pc |-> pc, restart |-> b, seen |-> config, target |-> None] \in Realm!RequestRec
    OBVIOUS
  <2> QED BY <2>1, <2>2 DEF Realm!Begin
<1>4. ASSUME NEW r \in Requests, Realm!Progress(r) PROVE Realm!TypeOK'
  <2>1. CASE Realm!StartKept(r) \/ Realm!StartRefused(r) \/ Realm!StartFails(r)
    BY <2>1 DEF Realm!StartKept, Realm!StartRefused, Realm!StartFails
  <2>2. CASE Realm!StartSpawns(r)
    BY <2>2 DEF Realm!StartSpawns
  <2>3. CASE Realm!StopIdle(r)
    <3>1. PICK step \in {"start", "stopped"} : Realm!Goto(r, step)
      BY <2>3 DEF Realm!StopIdle, Realm!Stopped
    <3> QED BY <2>3, <3>1 DEF Realm!StopIdle
  <2>4. CASE Realm!StopSignals(r)
    <3>1. process \in Children /\ child[process] \in Realm!ChildRec /\ request[r] \in Realm!RequestRec
      BY <2>4 DEF Realm!StopSignals, Realm!Recorded
    <3>2. PICK life \in {"term", "killed"} : child' = [child EXCEPT ![process].life = life]
      BY <2>4, <3>1 DEF Realm!StopSignals, Realm!Recorded, Realm!Running
    <3>3. child' \in [Children -> Realm!ChildRec]
      BY <3>1, <3>2
    <3>4. [request[r] EXCEPT !.pc = "stopWait", !.target = process] \in Realm!RequestRec
      BY <3>1
    <3>5. request' = [request EXCEPT ![r] = [@ EXCEPT !.pc = "stopWait", !.target = process]]
      BY <2>4 DEF Realm!StopSignals
    <3>6. request' \in [Requests -> Realm!RequestRec]
      BY <3>4, <3>5
    <3> QED BY <2>4, <3>3, <3>6 DEF Realm!StopSignals
  <2>5. CASE Realm!StopReaps(r)
    <3>1. PICK step \in {"start", "stopped"} : Realm!Goto(r, step)
      BY <2>5 DEF Realm!StopReaps, Realm!Stopped
    <3> QED BY <2>5, <3>1 DEF Realm!StopReaps
  <2>6. CASE Realm!StopKills(r)
    <3>1. request[r].target \in Children
      BY <2>6 DEF Realm!StopKills, RealmLocked
    <3> QED BY <2>6, <3>1 DEF Realm!StopKills
  <2>7. CASE Realm!StopExpires(r)
    BY <2>7 DEF Realm!StopExpires
  <2>8. CASE Realm!Respond(r)
    <3>1. Realm!IdleRequest \in Realm!RequestRec
      BY DEF Realm!IdleRequest
    <3> QED BY <2>8, <3>1 DEF Realm!Respond
  <2> QED BY <1>4, <2>1, <2>2, <2>3, <2>4, <2>5, <2>6, <2>7, <2>8 DEF Realm!Progress
<1> QED BY <1>1, <1>2, <1>3, <1>4 DEF Realm!Next, Realm!vars

LEMMA RealmInitial == ASSUME Realm!RealmAssumption, Realm!Init PROVE RealmInv
BY DEF Realm!RealmAssumption, Realm!Init, RealmInv, Realm!TypeOK, RealmLocked, RealmFresh,
    Realm!OneForwarder,
    Realm!IdleRequest,
       Realm!RequestRec, Realm!ChildRec, Realm!Steps, Realm!Recorded

\* Request r goes on to a step that holds no lock, with the lock as it is.
LEMMA RealmGoes ==
    ASSUME Realm!RealmAssumption, RealmInv, NEW r \in Requests,
           NEW step \in Realm!Steps \ {"stopWait", "stopKilled"},
           Realm!Goto(r, step), ~Realm!At(r, "stopWait"), ~Realm!At(r, "stopKilled"),
           UNCHANGED <<config, realmLock, child>>, process' \in {process, None},
           process' = process \/ ~Realm!Recorded,
           step \in {"start", "started"} => Realm!At(r, "start") \/ process' = None
    PROVE  RealmLocked' /\ RealmFresh' /\ Realm!OneForwarder'
<1> USE DEF RealmInv, Realm!TypeOK, Realm!RequestRec, Realm!ChildRec, Realm!Goto, Realm!At,
        Realm!RealmAssumption
<1>1. /\ request'[r].pc = step /\ request'[r].seen = request[r].seen
      /\ request'[r].restart = request[r].restart /\ request'[r].target = request[r].target
      /\ \A q \in Requests \ {r} : request'[q] = request[q]
  OBVIOUS
<1>2. RealmLocked'
  BY <1>1 DEF RealmLocked
<1>3. RealmFresh'
  BY <1>1 DEF RealmFresh, Realm!Recorded, Realm!Running
<1>4. Realm!OneForwarder'
  BY <1>1 DEF Realm!OneForwarder, Realm!Recorded, Realm!Running
<1> QED BY <1>2, <1>3, <1>4

LEMMA RealmStep ==
    ASSUME Realm!RealmAssumption, RealmInv, NEW r \in Requests, Realm!Progress(r)
    PROVE  RealmLocked' /\ RealmFresh' /\ Realm!OneForwarder'
<1> USE DEF RealmInv, Realm!TypeOK, Realm!RequestRec, Realm!ChildRec, Realm!At, Realm!RealmAssumption
<1>1. CASE Realm!StartKept(r) \/ Realm!StartRefused(r) \/ Realm!StartFails(r)
  BY <1>1, RealmGoes DEF Realm!StartKept, Realm!StartRefused, Realm!StartFails, Realm!Steps
<1>2. CASE Realm!StartSpawns(r)
  <2>1. PICK c \in Children :
          /\ child[c].life = "unborn" /\ process' = c
          /\ child' = [child EXCEPT ![c] = [life |-> "alive", config |-> config]]
    BY <1>2 DEF Realm!StartSpawns
  <2>2. /\ request'[r].pc = "started" /\ request'[r].seen = request[r].seen
        /\ request'[r].restart = request[r].restart
        /\ \A q \in Requests \ {r} : request'[q] = request[q]
    BY <1>2 DEF Realm!StartSpawns, Realm!Goto
  <2>3. realmLock = None /\ realmLock' = None /\ config' = config /\ ~Realm!Recorded /\ request[r].pc = "start"
    BY <1>2 DEF Realm!StartSpawns
  <2>4. RealmLocked'
    BY <2>2, <2>3 DEF RealmLocked
  <2>5. child'[c] = [life |-> "alive", config |-> config] /\ \A d \in Children \ {c} : child'[d] = child[d]
    BY <2>1
  <2>6. RealmFresh'
    BY <2>1, <2>2, <2>3, <2>5 DEF RealmFresh
  <2>7. Realm!OneForwarder'
    BY <2>1, <2>3, <2>5 DEF Realm!OneForwarder, Realm!Recorded, Realm!Running
  <2> QED BY <2>4, <2>6, <2>7
<1>3. CASE Realm!StopIdle(r)
  BY <1>3, RealmGoes DEF Realm!StopIdle, Realm!Stopped, Realm!Steps
<1>4. CASE Realm!StopSignals(r)
  <2>1. /\ request'[r].pc = "stopWait" /\ request'[r].target = process /\ request'[r].seen = request[r].seen
        /\ \A q \in Requests \ {r} : request'[q] = request[q]
    BY <1>4 DEF Realm!StopSignals
  <2>2. /\ realmLock = None /\ realmLock' = r /\ process' = None /\ process \in Children /\ config' = config
        /\ child[process].life \in {"alive", "term", "killed"}
    BY <1>4 DEF Realm!StopSignals, Realm!Recorded, Realm!Running
  <2>3. /\ child'[process].life = IF child[process].life = "alive" THEN "term" ELSE child[process].life
        /\ \A c \in Children \ {process} : child'[c] = child[c]
    BY <1>4, <2>2 DEF Realm!StopSignals
  <2>4. RealmLocked'
    BY <2>1, <2>2, <2>3 DEF RealmLocked
  <2>5. RealmFresh'
    BY <2>1, <2>2 DEF RealmFresh, Realm!Recorded
  <2>6. Realm!OneForwarder'
    BY <2>1, <2>2, <2>3 DEF Realm!OneForwarder
  <2> QED BY <2>4, <2>5, <2>6
<1>5. ASSUME request[r].pc \in {"stopWait", "stopKilled"},
             child[request[r].target].life \in {"killed", "dead"}, realmLock' = None,
             NEW step \in {"start", "stopped", "raised"}, Realm!Goto(r, step),
             UNCHANGED <<config, process, child>>
      PROVE  RealmLocked' /\ RealmFresh' /\ Realm!OneForwarder'
  <2>1. /\ request'[r].pc = step /\ request'[r].seen = request[r].seen
        /\ \A q \in Requests \ {r} : request'[q] = request[q]
    BY <1>5 DEF Realm!Goto
  <2>2. realmLock = r /\ process = None
    BY <1>5 DEF RealmLocked
  <2>3. RealmLocked' /\ RealmFresh'
    BY <1>5, <2>1, <2>2 DEF RealmLocked, RealmFresh, Realm!Recorded
  <2>4. Realm!OneForwarder'
    BY <1>5, <2>2 DEF Realm!OneForwarder
  <2> QED BY <2>3, <2>4
<1>6. CASE Realm!StopReaps(r)
  BY <1>5, <1>6 DEF Realm!StopReaps, Realm!Stopped
<1>7. CASE Realm!StopKills(r)
  <2>1. realmLock = r /\ process = None /\ request[r].target \in Children
    BY <1>7 DEF Realm!StopKills, RealmLocked
  <2>2. /\ request'[r].pc = "stopKilled" /\ request'[r].seen = request[r].seen
        /\ request'[r].target = request[r].target
        /\ \A q \in Requests \ {r} : request'[q] = request[q]
    BY <1>7 DEF Realm!StopKills, Realm!Goto
  <2>3. /\ child'[request[r].target].life = "killed"
        /\ \A c \in Children \ {request[r].target} : child'[c] = child[c]
    BY <1>7, <2>1 DEF Realm!StopKills
  <2>4. UNCHANGED <<config, process, realmLock>>
    BY <1>7 DEF Realm!StopKills
  <2>5. RealmLocked' /\ RealmFresh'
    BY <2>1, <2>2, <2>3, <2>4 DEF RealmLocked, RealmFresh, Realm!Recorded
  <2>6. Realm!OneForwarder'
    BY <2>1, <2>2, <2>3, <2>4 DEF Realm!OneForwarder
  <2> QED BY <2>5, <2>6
<1>8. CASE Realm!StopExpires(r)
  BY <1>5, <1>8 DEF Realm!StopExpires
<1>9. CASE Realm!Respond(r)
  <2>1. request'[r] = Realm!IdleRequest /\ \A q \in Requests \ {r} : request'[q] = request[q]
    BY <1>9 DEF Realm!Respond
  <2>2. UNCHANGED <<config, process, realmLock, child>> /\ realmLock # r
    BY <1>9 DEF Realm!Respond, RealmLocked
  <2> QED BY <2>1, <2>2 DEF RealmLocked, RealmFresh, Realm!OneForwarder, Realm!IdleRequest,
              Realm!Recorded,
      Realm!Running
<1> QED BY <1>1, <1>2, <1>3, <1>4, <1>6, <1>7, <1>8, <1>9 DEF Realm!Progress

LEMMA RealmNext ==
    ASSUME Realm!RealmAssumption, RealmInv, [Realm!Next]_Realm!vars
    PROVE  RealmInv'
<1> USE DEF RealmInv
<1>1. Realm!TypeOK'
  BY RealmTyped
<1>2. CASE Realm!Configure
  <2>1. config' = config + 1 /\ config \in Nat /\ UNCHANGED <<process, realmLock, child, request>>
    BY <1>2 DEF Realm!Configure, Realm!TypeOK
  <2>2. \A r \in Requests : request[r].seen \in Nat
    BY DEF Realm!TypeOK, Realm!RequestRec
  <2>3. RealmFresh'
    BY <2>1, <2>2 DEF RealmFresh, Realm!Recorded, Realm!Running, Realm!TypeOK
  <2> QED BY <1>1, <2>1, <2>3 DEF RealmLocked, Realm!OneForwarder, Realm!At
<1>3. CASE Realm!ChildExits
  <2>1. PICK c \in Children : Realm!Running(c) /\ child' = [child EXCEPT ![c].life = "dead"]
    BY <1>3 DEF Realm!ChildExits
  <2>2. /\ child'[c].life = "dead" /\ child'[c].config = child[c].config
        /\ \A d \in Children \ {c} : child'[d] = child[d]
    BY <2>1 DEF Realm!TypeOK, Realm!ChildRec
  <2>3. UNCHANGED <<config, process, realmLock, request>>
    BY <1>3 DEF Realm!ChildExits
  <2> QED BY <1>1, <2>1, <2>2, <2>3 DEF RealmLocked, RealmFresh, Realm!OneForwarder, Realm!Running,
      Realm!Recorded, Realm!At, Realm!TypeOK
<1>4. ASSUME NEW r \in Requests,
             Realm!RequestStart(r) \/ Realm!RequestStop(r) \/ Realm!RequestRestart(r)
      PROVE  RealmInv'
  <2>1. /\ request[r].pc = "idle" /\ request'[r].pc \in {"start", "stop"} /\ request'[r].seen = config
        /\ request'[r].restart => request'[r].pc = "stop"
        /\ \A q \in Requests \ {r} : request'[q] = request[q]
    BY <1>4 DEF Realm!RequestStart, Realm!RequestStop, Realm!RequestRestart, Realm!Begin,
        Realm!At, Realm!TypeOK
  <2>2. UNCHANGED <<config, process, realmLock, child>>
    BY <1>4 DEF Realm!RequestStart, Realm!RequestStop, Realm!RequestRestart, Realm!Begin
  <2>3. realmLock # r /\ config \in Nat
    BY <2>1 DEF RealmLocked, Realm!TypeOK
  <2> QED BY <1>1, <2>1, <2>2, <2>3 DEF RealmLocked, RealmFresh, Realm!OneForwarder, Realm!Running,
      Realm!Recorded, Realm!At, Realm!TypeOK
<1>5. CASE UNCHANGED Realm!vars
  BY <1>1, <1>5 DEF Realm!vars, RealmLocked, RealmFresh, Realm!OneForwarder, Realm!Running,
      Realm!Recorded,
      Realm!At
<1> QED BY <1>1, <1>2, <1>3, <1>4, <1>5, RealmStep DEF Realm!Next

LEMMA RealmInvariant == ASSUME Realm!RealmAssumption PROVE Realm!Spec => []RealmInv
BY RealmInitial, RealmNext, PTL DEF Realm!Spec

\* At most one forwarder runs that was not sent SIGKILL, and who could still end
\* it knows it: stop() and start() cannot interleave, and what stop() has
\* signalled it waits for with the lock held.
THEOREM RealmOneForwarder == Realm!Spec => []OneForwarder
BY RealmInvariant, ManagerAssumption, PTL DEF ManagerAssumption, RealmInv, OneForwarder

\* What runs after a restart that succeeded is at least as new as the setting
\* stored when it was requested, whatever requests come between its stop and its
\* start.
THEOREM RealmRestartApplies == Realm!Spec => []RestartApplies
<1>1. RealmInv => RestartApplies
  BY DEF RealmInv, RealmFresh, RestartApplies, Realm!RestartApplies, Realm!At
<1> QED BY <1>1, RealmInvariant, ManagerAssumption, PTL DEF ManagerAssumption

-----------------------------------------------------------------------------
(* The process of the main container *)

ShutSteps == {"out", "lock", "enter", "manager", "request", "wait", "close", "done"}
Inside    == {"enter", "manager", "request", "wait", "close"}

\* What the two threads in shutdown() know: who is inside holds the lock, and
\* _stopped says that someone is at work there or has finished it.
ShutdownInv ==
    /\ shut \in [Entry!Threads -> ShutSteps]
    /\ \A t \in Entry!Threads : shut[t] \in Inside => lock = t
    /\ \A t \in Entry!Threads : shut[t] \in {"request", "wait", "close"} => manager = "down"
    /\ \A t \in Entry!Threads : shut[t] = "done" => manager = "down" /\ closed
    /\ stopped => \/ \E t \in Entry!Threads : shut[t] \in Inside \ {"enter"}
                  \/ manager = "down" /\ closed
    /\ main = "exited" => error \in {"profile", "manager"} \/ shut["main"] = "done"

LEMMA ShutdownStep ==
    ASSUME ShutdownInv, NEW t \in Entry!Threads, Entry!Shutdown(t)
    PROVE  ShutdownInv'
<1> USE DEF ShutdownInv, ShutSteps, Inside, Entry!At, Entry!Go
<1>1. \A p : Entry!Go(t, p) => shut'[t] = p /\ \A u \in Entry!Threads \ {t} : shut'[u] = shut[u]
  OBVIOUS
<1>2. main # "exited" /\ main' = main
  BY DEF Entry!Shutdown, Entry!Acquire, Entry!Enter, Entry!ManagerShutdown, Entry!ServerRequest,
      Entry!ServerLeft, Entry!ServerClose
<1>3. CASE Entry!Acquire(t)
  BY <1>2, <1>3 DEF Entry!Acquire, Entry!Threads, Entry!Nobody
<1>4. CASE Entry!Enter(t)
  <2>1. lock = t /\ shut[t] = "enter" /\ UNCHANGED <<manager, closed>>
    BY <1>4 DEF Entry!Enter
  <2>2. CASE stopped
    <3>1. manager = "down" /\ closed
      BY <2>1, <2>2
    <3> QED BY <1>2, <1>4, <2>1, <2>2, <3>1 DEF Entry!Enter
  <2>3. CASE ~stopped
    BY <1>2, <1>4, <2>1, <2>3 DEF Entry!Enter
  <2> QED BY <2>2, <2>3
<1>5. CASE Entry!ManagerShutdown(t)
  BY <1>2, <1>5 DEF Entry!ManagerShutdown
<1>6. CASE Entry!ServerRequest(t)
  BY <1>2, <1>6 DEF Entry!ServerRequest
<1>7. CASE Entry!ServerLeft(t)
  BY <1>2, <1>7 DEF Entry!ServerLeft
<1>8. CASE Entry!ServerClose(t)
  BY <1>2, <1>8 DEF Entry!ServerClose
<1> QED BY <1>3, <1>4, <1>5, <1>6, <1>7, <1>8 DEF Entry!Shutdown

LEMMA ShutdownNext == ASSUME ShutdownInv, [Entry!Next]_Entry!vars PROVE ShutdownInv'
<1> USE DEF ShutdownInv, ShutSteps, Inside
<1>1. CASE Entry!Build \/ Entry!Initialize \/ Entry!InitializeRaises \/ Entry!Serve \/ Entry!Leave
  BY <1>1 DEF Entry!Build, Entry!Initialize, Entry!InitializeRaises, Entry!Serve, Entry!Leave
<1>2. CASE Entry!Exit \/ Entry!Restart
  BY <1>2 DEF Entry!Exit, Entry!Restart
<1>3. CASE Entry!Finally \/ Entry!Signal
  BY <1>3 DEF Entry!Finally, Entry!Signal, Entry!Threads
<1>4. CASE UNCHANGED Entry!vars
  BY <1>4 DEF Entry!vars
<1> QED BY <1>1, <1>2, <1>3, <1>4, ShutdownStep DEF Entry!Next, Entry!Main

\* The process does not end before its slots are stopped and its socket is
\* closed: the thread that finds _stopped set has waited for the one that set it.
THEOREM ExitIsClean == Entry!Spec => []CleanExit
<1>1. Entry!Init => ShutdownInv
  BY DEF Entry!Init, Entry!Process, ShutdownInv, ShutSteps, Inside
<1>2. ShutdownInv => CleanExit
  BY DEF ShutdownInv, CleanExit, Entry!CleanExit, Entry!Threads
<1> QED BY <1>1, <1>2, ShutdownNext, PTL DEF Entry!Spec

\* Every reachable state of the process is well typed.
THEOREM EntryTypeCorrect == Entry!Spec => []Entry!TypeOK
<1> USE DEF Entry!TypeOK
<1>1. Entry!Init => Entry!TypeOK
  BY DEF Entry!Init, Entry!Process
<1>2. ASSUME Entry!TypeOK, [Entry!Next]_Entry!vars PROVE Entry!TypeOK'
  <2>1. CASE Entry!Main \/ Entry!Restart \/ Entry!Signal
    BY <1>2, <2>1 DEF Entry!Main, Entry!Build, Entry!Initialize, Entry!InitializeRaises, Entry!Serve,
        Entry!Leave, Entry!Exit, Entry!Finally, Entry!Restart, Entry!Signal, Entry!Threads
  <2>2. ASSUME NEW t \in Entry!Threads, Entry!Shutdown(t) PROVE Entry!TypeOK'
    BY <1>2, <2>2 DEF Entry!Shutdown, Entry!Acquire, Entry!Enter, Entry!ManagerShutdown,
        Entry!ServerRequest, Entry!ServerLeft, Entry!ServerClose, Entry!At, Entry!Go
  <2>3. CASE UNCHANGED Entry!vars
    BY <1>2, <2>3 DEF Entry!vars
  <2> QED BY <1>2, <2>1, <2>2, <2>3 DEF Entry!Next
<1> QED BY <1>1, <1>2, PTL DEF Entry!Spec

-----------------------------------------------------------------------------
(* The node pool *)

SlotRec == [pc : {"idle", "dial", "record", "up"}, peer : Nodes \cup {None}, way : {"none", "pref", "pool"}]

\* Only nodes are pooled and stored.
Known == DOMAIN pool \subseteq Nodes /\ DOMAIN rows \subseteq Nodes

\* The pause of a node is what is left of the cooldown since it was blamed.
Paused == /\ pause \in [Nodes -> 0..Cooldown] /\ calm \in [Nodes -> 0..Cooldown]
          /\ \A n \in Nodes : pause[n] + calm[n] = Cooldown

\* A slot that has used its preference has none, until it was connected; the row
\* and the event of a slot speak of its successes.
Remembering ==
    /\ slot \in [PoolSlots -> SlotRec]
    /\ entry \in [PoolSlots -> Nodes \cup {None}] /\ pref \in [PoolSlots -> Nodes \cup {None}]
    /\ good \in [PoolSlots -> Nodes \cup {None}] /\ event \in [PoolSlots -> [ip : Nodes \cup {None}, age : Int]]
    /\ \A s \in PoolSlots :
         /\ mode = "off" => slot[s] = Pool!Idle
         /\ slot[s].way = "pref" => pref[s] = None
         /\ slot[s].pc = "dial" => slot[s].peer # None
         /\ slot[s].pc = "record" => slot[s].peer # None /\ good[s] # None
         /\ entry[s] # None => good[s] = entry[s]
         /\ event[s].ip # None => good[s] # None

PoolInv == Known /\ Paused /\ Remembering

LEMMA PoolInitial == ASSUME Pool!PoolAssumption, Pool!Init PROVE PoolInv
<1>1. Known
  BY DEF Pool!Init, Known
<1>2. Paused
  BY DEF Pool!Init, Paused, Pool!PoolAssumption
<1>3. Remembering
  BY DEF Pool!Init, Remembering, Pool!Idle, Pool!NoEvent, SlotRec
<1> QED BY <1>1, <1>2, <1>3 DEF PoolInv

\* The providers name nodes.
LEMMA NamedNodes == \A named \in Pool!Named : DOMAIN named \subseteq Nodes
<1> SUFFICES ASSUME NEW offers \in [Providers -> Pool!Offer]
             PROVE  DOMAIN Pool!Combined(offers) \subseteq Nodes
  BY DEF Pool!Named
<1>1. \A p \in Providers : DOMAIN offers[p] \subseteq Nodes
  BY DEF Pool!Offer
<1> QED BY <1>1 DEF Pool!Combined

LEMMA RefreshKnown == ASSUME PoolInv, Pool!Refresh PROVE Known'
<1>1. PICK named \in Pool!Named, writes \in BOOLEAN :
         LET stored == IF writes /\ DOMAIN named # {} THEN Pool!Merged(named) ELSE rows
             nodes  == Pool!Loaded(stored, named)
         IN  rows' = stored /\ pool' = IF DOMAIN nodes # {} THEN Pool!Replaced(nodes) ELSE pool
  BY DEF Pool!Refresh
<1> DEFINE stored == IF writes /\ DOMAIN named # {} THEN Pool!Merged(named) ELSE rows
<1>2. rows' = stored /\ pool' = IF DOMAIN Pool!Loaded(stored, named) # {} THEN Pool!Replaced(Pool!Loaded(stored, named)) ELSE pool
  BY <1>1
<1>3. DOMAIN named \subseteq Nodes
  BY NamedNodes
<1>4. DOMAIN stored \subseteq Nodes
  BY <1>3 DEF Pool!Merged, PoolInv, Known
<1> HIDE DEF stored
<1>5. DOMAIN Pool!Loaded(stored, named) \subseteq Nodes
  BY <1>3, <1>4 DEF Pool!Loaded
<1> DEFINE nodes == Pool!Loaded(stored, named)
<1>6. DOMAIN Pool!Replaced(nodes) = DOMAIN nodes
  BY DEF Pool!Replaced
<1> HIDE DEF nodes
<1> QED BY <1>2, <1>4, <1>5, <1>6 DEF Known, PoolInv, nodes

LEMMA PoolKnown == ASSUME PoolInv, [Pool!Next]_Pool!vars PROVE Known'
<1>1. CASE Pool!Tick
  BY <1>1 DEF Pool!Tick, Pool!Aged, PoolInv, Known
<1>2. CASE Pool!Shutdown \/ Pool!Crash
  BY <1>2 DEF Pool!Shutdown, Pool!Crash, Pool!Forget, PoolInv, Known
<1>3. CASE Pool!Start \/ UNCHANGED Pool!vars
  BY <1>3 DEF Pool!Start, Pool!vars, PoolInv, Known
<1>4. ASSUME NEW s \in PoolSlots, Pool!SlotStep(s) PROVE Known'
  BY <1>4 DEF Pool!SlotStep, Pool!Take, Pool!TakeNone, Pool!Fail, Pool!Commit, Pool!Refuse,
      Pool!Record,
      Pool!Drop, PoolInv, Known
<1> QED BY <1>1, <1>2, <1>3, <1>4, RefreshKnown DEF Pool!Next

LEMMA BlamePauses ==
    ASSUME Pool!PoolAssumption, PoolInv, NEW n, NEW amount, Pool!Blame(n, amount)
    PROVE  Paused'
<1>1. pause' = [pause EXCEPT ![n] = Cooldown] /\ calm' = [calm EXCEPT ![n] = 0]
  BY DEF Pool!Blame
<1>2. Cooldown \in 0..Cooldown /\ 0 \in 0..Cooldown /\ Cooldown + 0 = Cooldown
  BY DEF Pool!PoolAssumption
<1> QED BY <1>1, <1>2 DEF PoolInv, Paused

LEMMA PoolPaused == ASSUME Pool!PoolAssumption, PoolInv, [Pool!Next]_Pool!vars PROVE Paused'
<1>1. CASE Pool!Tick
  BY <1>1 DEF Pool!Tick, Pool!Bigger, Pool!Lesser, PoolInv, Paused, Pool!PoolAssumption
<1>2. CASE Pool!Shutdown \/ Pool!Crash
  BY <1>2 DEF Pool!Shutdown, Pool!Crash, Pool!Forget, Paused, Pool!PoolAssumption
<1>3. CASE Pool!Start \/ Pool!Refresh \/ UNCHANGED Pool!vars
  BY <1>3 DEF Pool!Start, Pool!Refresh, Pool!Pauses, Pool!vars, PoolInv, Paused
<1>4. ASSUME NEW s \in PoolSlots, Pool!SlotStep(s) PROVE Paused'
  <2>1. CASE Pool!Take(s) \/ Pool!TakeNone(s) \/ Pool!Commit(s) \/ Pool!Record(s)
    BY <2>1 DEF Pool!Take, Pool!TakeNone, Pool!Commit, Pool!Record, PoolInv, Paused
  <2>2. CASE Pool!Fail(s) \/ Pool!Refuse(s) \/ Pool!Drop(s)
    BY <2>2, BlamePauses DEF Pool!Fail, Pool!Refuse, Pool!Drop
  <2> QED BY <1>4, <2>1, <2>2 DEF Pool!SlotStep
<1> QED BY <1>1, <1>2, <1>3, <1>4 DEF Pool!Next

\* What a slot takes: past a pause only its preference.
LEMMA Taken ==
    ASSUME Pool!PoolAssumption, PoolInv, NEW s \in PoolSlots, Pool!Take(s)
    PROVE  \E n \in Nodes, way \in {"pref", "pool"} :
             /\ slot' = [slot EXCEPT ![s] = [pc |-> "dial", peer |-> n, way |-> way]]
             /\ way = "pref" => pref[s] # None
             /\ way = "pool" => pause[n] = 0
<1>1. Pool!Preferred(s) \subseteq Nodes /\ \A n \in Pool!Preferred(s) : pref[s] = n
  BY DEF Pool!Preferred, PoolInv, Known
<1>2. Pool!Foremost(s) \subseteq Nodes /\ \A n \in Pool!Foremost(s) : pause[n] = 0
  BY DEF Pool!Foremost, Pool!Ordinary, PoolInv, Known
<1>3. CASE Pool!Preferred(s) # {}
  <2>1. PICK n \in Pool!Preferred(s) : slot' = [slot EXCEPT ![s] = [pc |-> "dial", peer |-> n, way |-> "pref"]]
    BY <1>3 DEF Pool!Take
  <2> QED BY <1>1, <2>1 DEF Pool!PoolAssumption
<1>4. CASE Pool!Preferred(s) = {}
  <2>1. PICK n \in Pool!Foremost(s) : slot' = [slot EXCEPT ![s] = [pc |-> "dial", peer |-> n, way |-> "pool"]]
    BY <1>4 DEF Pool!Take
  <2> QED BY <1>2, <2>1
<1> QED BY <1>3, <1>4

\* A slot whose dial fails waits with its way, and without its peer.
LEMMA Resting ==
    ASSUME PoolInv, NEW s \in PoolSlots, slot[s].pc = "dial",
           slot' = [slot EXCEPT ![s].pc = "idle", ![s].peer = None],
           UNCHANGED <<mode, entry, event, pref, good>>, mode # "off"
    PROVE  Remembering'
<1> DEFINE r == [slot[s] EXCEPT !.pc = "idle", !.peer = None]
<1>1. r \in SlotRec /\ r.pc = "idle" /\ r.way = slot[s].way /\ slot' = [slot EXCEPT ![s] = r]
  BY DEF PoolInv, Remembering, SlotRec
<1> HIDE DEF r
<1>2. slot' \in [PoolSlots -> SlotRec] /\ slot'[s] = r /\ \A t \in PoolSlots \ {s} : slot'[t] = slot[t]
  BY <1>1 DEF PoolInv, Remembering
<1>3. mode' # "off" /\ UNCHANGED <<entry, event, pref, good>>
  OBVIOUS
<1>4. ASSUME NEW t \in PoolSlots PROVE slot'[t].way = slot[t].way /\ (t = s \/ slot'[t] = slot[t])
  BY <1>1, <1>2
<1> QED BY <1>1, <1>2, <1>3, <1>4 DEF PoolInv, Remembering

LEMMA SlotRemembers ==
    ASSUME Pool!PoolAssumption, PoolInv, NEW s \in PoolSlots, Pool!SlotStep(s)
    PROVE  Remembering'
<1>1. CASE Pool!Take(s)
  <2>1. PICK n \in Nodes, way \in {"pref", "pool"} :
           slot' = [slot EXCEPT ![s] = [pc |-> "dial", peer |-> n, way |-> way]]
    BY <1>1, Taken
  <2> DEFINE r == [pc |-> "dial", peer |-> n, way |-> way]
  <2>2. r \in SlotRec /\ r.pc = "dial" /\ r.peer # None /\ slot' = [slot EXCEPT ![s] = r]
    BY <2>1 DEF SlotRec, Pool!PoolAssumption
  <2> HIDE DEF r
  <2>3. mode = "on" /\ mode' = "on" /\ pref' = [pref EXCEPT ![s] = None] /\ UNCHANGED <<entry, event, good>>
    BY <1>1 DEF Pool!Take
  <2> QED BY <2>2, <2>3 DEF PoolInv, Remembering
<1>2. CASE Pool!TakeNone(s)
  <2>1. pref' = [pref EXCEPT ![s] = None] /\ UNCHANGED <<mode, slot, entry, event, good>>
    BY <1>2 DEF Pool!TakeNone
  <2>2. pref' \in [PoolSlots -> Nodes \cup {None}] /\ \A t \in PoolSlots : pref'[t] \in {None, pref[t]}
    BY <2>1 DEF PoolInv, Remembering
  <2> QED BY <2>1, <2>2 DEF PoolInv, Remembering
<1>3. CASE Pool!Fail(s) \/ Pool!Refuse(s)
  <2>1. mode # "off"
    BY <1>3 DEF Pool!Fail, Pool!Refuse, PoolInv, Remembering, Pool!Idle
  <2> QED BY <1>3, <2>1, Resting DEF Pool!Fail, Pool!Refuse
<1>4. CASE Pool!Commit(s)
  <2> DEFINE r == [slot[s] EXCEPT !.pc = "record"]
  <2>1. r \in SlotRec /\ r.pc = "record" /\ r.way = slot[s].way /\ r.peer = slot[s].peer
    BY DEF PoolInv, Remembering, SlotRec
  <2>2. slot' = [slot EXCEPT ![s] = r] /\ slot[s].pc = "dial" /\ UNCHANGED <<mode, event, pref>>
        /\ entry' = [entry EXCEPT ![s] = slot[s].peer] /\ good' = [good EXCEPT ![s] = slot[s].peer]
    BY <1>4 DEF Pool!Commit
  <2> HIDE DEF r
  <2>3. slot[s].peer \in Nodes /\ slot[s].peer # None /\ mode # "off"
    BY <2>2 DEF PoolInv, Remembering, SlotRec, Pool!Idle
  <2> QED BY <2>1, <2>2, <2>3 DEF PoolInv, Remembering
<1>5. CASE Pool!Record(s)
  <2> DEFINE r == [slot[s] EXCEPT !.pc = "up", !.way = "none"]
  <2>1. r \in SlotRec /\ r.pc = "up" /\ r.way = "none"
    BY DEF PoolInv, Remembering, SlotRec
  <2>2. slot' = [slot EXCEPT ![s] = r] /\ slot[s].pc = "record" /\ UNCHANGED <<mode, entry, pref, good>>
        /\ event' = [event EXCEPT ![s] = [ip |-> slot[s].peer, age |-> 0]]
    BY <1>5 DEF Pool!Record
  <2> HIDE DEF r
  <2>3. slot[s].peer \in Nodes \cup {None} /\ mode # "off" /\ good[s] # None
    BY <2>2 DEF PoolInv, Remembering, SlotRec, Pool!Idle
  <2> QED BY <2>1, <2>2, <2>3 DEF PoolInv, Remembering
<1>6. CASE Pool!Drop(s)
  <2>1. pref' \in [PoolSlots -> Nodes \cup {None}] /\ \A t \in PoolSlots \ {s} : pref'[t] = pref[t]
    BY <1>6 DEF Pool!Drop, PoolInv, Remembering
  <2>2. Pool!Idle \in SlotRec /\ Pool!Idle.pc = "idle" /\ Pool!Idle.way = "none"
    BY DEF Pool!Idle, SlotRec
  <2>3. slot' = [slot EXCEPT ![s] = Pool!Idle] /\ entry' = [entry EXCEPT ![s] = None] /\ UNCHANGED <<mode, event, good>>
    BY <1>6 DEF Pool!Drop
  <2> HIDE DEF Pool!Idle
  <2> QED BY <2>1, <2>2, <2>3 DEF PoolInv, Remembering
<1> QED BY <1>1, <1>2, <1>3, <1>4, <1>5, <1>6 DEF Pool!SlotStep

LEMMA ProcessRemembers ==
    ASSUME Pool!PoolAssumption, PoolInv,
           Pool!Refresh \/ Pool!Shutdown \/ Pool!Crash \/ Pool!Start \/ Pool!Tick \/ UNCHANGED Pool!vars
    PROVE  Remembering'
<1>0. Pool!Idle \in SlotRec /\ Pool!Idle.pc = "idle" /\ Pool!Idle.way = "none"
  BY DEF Pool!Idle, SlotRec
<1>1. CASE Pool!Refresh
  <2>1. event' = event \/ event' = Pool!Pruned
    BY <1>1 DEF Pool!Refresh
  <2>2. event' \in [PoolSlots -> [ip : Nodes \cup {None}, age : Int]]
        /\ \A s \in PoolSlots : event'[s].ip # None => event[s].ip # None
    BY <2>1 DEF Pool!Pruned, Pool!NoEvent, PoolInv, Remembering
  <2>3. mode # "off" /\ mode' # "off" /\ UNCHANGED <<slot, entry, pref, good>>
    BY <1>1 DEF Pool!Refresh
  <2> QED BY <2>2, <2>3 DEF PoolInv, Remembering
<1>2. CASE Pool!Shutdown \/ Pool!Crash
  <2> HIDE DEF Pool!Idle
  <2>1. /\ slot' = [s \in PoolSlots |-> Pool!Idle] /\ pref' = [s \in PoolSlots |-> None] /\ UNCHANGED <<event, good>>
        /\ entry' = entry \/ entry' = [s \in PoolSlots |-> None]
    BY <1>2 DEF Pool!Shutdown, Pool!Crash, Pool!Forget
  <2> QED BY <1>0, <2>1 DEF PoolInv, Remembering
<1>3. CASE Pool!Start
  <2>1. pref' \in [PoolSlots -> Nodes \cup {None}]
    BY <1>3 DEF Pool!Start, Pool!Remembered, PoolInv, Remembering
  <2> QED BY <1>3, <1>0, <2>1 DEF Pool!Start, PoolInv, Remembering
<1>4. CASE Pool!Tick
  <2>1. event' \in [PoolSlots -> [ip : Nodes \cup {None}, age : Int]] /\ \A s \in PoolSlots : event'[s].ip = event[s].ip
    <3>1. \A e \in [ip : Nodes \cup {None}, age : Int], limit \in Int :
             /\ [e EXCEPT !.age = Pool!Lesser(e.age + 1, limit)] \in [ip : Nodes \cup {None}, age : Int]
             /\ [e EXCEPT !.age = Pool!Lesser(e.age + 1, limit)].ip = e.ip
      BY DEF Pool!Lesser
    <3>2. Pool!NoEvent \in [ip : Nodes \cup {None}, age : Int] /\ Pool!NoEvent.ip = None
      BY DEF Pool!NoEvent
    <3>3. Retention + 1 \in Int
      BY DEF Pool!PoolAssumption
    <3> HIDE DEF Pool!NoEvent
    <3> QED BY <1>4, <3>1, <3>2, <3>3 DEF Pool!Tick, PoolInv, Remembering
  <2>2. UNCHANGED <<mode, slot, entry, pref, good>>
    BY <1>4 DEF Pool!Tick
  <2> QED BY <2>1, <2>2 DEF PoolInv, Remembering
<1>5. CASE UNCHANGED Pool!vars
  BY <1>5 DEF Pool!vars, PoolInv, Remembering
<1> QED BY <1>1, <1>2, <1>3, <1>4, <1>5

LEMMA PoolNext == ASSUME Pool!PoolAssumption, PoolInv, [Pool!Next]_Pool!vars PROVE PoolInv'
BY PoolKnown, PoolPaused, SlotRemembers, ProcessRemembers DEF PoolInv, Pool!Next

\* A slot begins a dial by taking a node.
LEMMA DialsTaken ==
    ASSUME Pool!PoolAssumption, PoolInv, [Pool!Next]_Pool!vars, NEW s \in PoolSlots,
           slot[s].pc = "idle", slot'[s].pc = "dial"
    PROVE  Pool!Take(s)
<1>1. ASSUME NEW r \in PoolSlots, Pool!SlotStep(r) PROVE Pool!Take(s)
  <2>1. CASE r # s
    BY <1>1, <2>1 DEF Pool!SlotStep, Pool!Take, Pool!TakeNone, Pool!Fail, Pool!Commit, Pool!Refuse,
        Pool!Record, Pool!Drop, PoolInv, Remembering
  <2>2. CASE r = s
    BY <1>1, <2>2 DEF Pool!SlotStep, Pool!TakeNone, Pool!Fail, Pool!Commit, Pool!Refuse, Pool!Record,
        Pool!Drop, PoolInv, Remembering
  <2> QED BY <2>1, <2>2
<1>2. CASE Pool!Shutdown \/ Pool!Crash
  BY <1>2 DEF Pool!Shutdown, Pool!Crash, Pool!Forget, Pool!Idle
<1>3. CASE Pool!Refresh \/ Pool!Start \/ Pool!Tick \/ UNCHANGED Pool!vars
  BY <1>3 DEF Pool!Refresh, Pool!Start, Pool!Tick, Pool!vars
<1> QED BY <1>1, <1>2, <1>3 DEF Pool!Next

\* Whatever is refreshed, blamed, killed and started: an ordinary selection holds
\* the cooldown, a preference is used once, and a start finds the last peer.
THEOREM PeersAlwaysChosen == Pool!Spec => PeersChosen
<1> USE ManagerAssumption DEF ManagerAssumption
<1>1. Pool!Init => PoolInv
  BY PoolInitial
<1>2. PoolInv /\ [Pool!Next]_Pool!vars => PoolInv'
  BY PoolNext
<1>3. PoolInv /\ [Pool!Next]_Pool!vars =>
        \A s \in PoolSlots :
         slot[s].pc = "idle" /\ slot'[s].pc = "dial" /\ slot'[s].way = "pool"
            => calm[slot'[s].peer] = Cooldown
  <2> SUFFICES ASSUME PoolInv, [Pool!Next]_Pool!vars, NEW s \in PoolSlots, slot[s].pc = "idle",
                      slot'[s].pc = "dial",
                      slot'[s].way = "pool"
               PROVE  calm[slot'[s].peer] = Cooldown
    OBVIOUS
  <2>1. PICK n \in Nodes, way \in {"pref", "pool"} :
           /\ slot' = [slot EXCEPT ![s] = [pc |-> "dial", peer |-> n, way |-> way]]
           /\ way = "pool" => pause[n] = 0
    BY DialsTaken, Taken
  <2>2. slot'[s].peer = n /\ pause[n] = 0
    BY <2>1 DEF PoolInv, Remembering
  <2> QED BY <2>2 DEF PoolInv, Paused, Pool!PoolAssumption
<1>4. PoolInv /\ [Pool!Next]_Pool!vars =>
        \A s \in PoolSlots :
         slot[s].pc = "idle" /\ slot'[s].pc = "dial" /\ slot'[s].way = "pref" => slot[s].way # "pref"
  <2> SUFFICES ASSUME PoolInv, [Pool!Next]_Pool!vars, NEW s \in PoolSlots, slot[s].pc = "idle",
                      slot'[s].pc = "dial",
                      slot'[s].way = "pref"
               PROVE  slot[s].way # "pref"
    OBVIOUS
  <2>1. PICK n \in Nodes, way \in {"pref", "pool"} :
           /\ slot' = [slot EXCEPT ![s] = [pc |-> "dial", peer |-> n, way |-> way]]
           /\ way = "pref" => pref[s] # None
    BY DialsTaken, Taken
  <2>2. pref[s] # None
    BY <2>1 DEF PoolInv, Remembering
  <2> QED BY <2>2 DEF PoolInv, Remembering
<1>5. PoolInv /\ [Pool!Next]_Pool!vars =>
        (mode = "off" /\ mode' = "boot" =>
         \A s \in PoolSlots : good[s] \in {entry[s], event[s].ip} => pref'[s] = good[s])
  <2> SUFFICES ASSUME PoolInv, [Pool!Next]_Pool!vars, mode = "off", mode' = "boot",
                      NEW s \in PoolSlots,
                      good[s] \in {entry[s], event[s].ip}
               PROVE  pref'[s] = good[s]
    OBVIOUS
  <2>1. ASSUME NEW r \in PoolSlots, Pool!SlotStep(r) PROVE mode' = mode
    BY <2>1 DEF Pool!SlotStep, Pool!Take, Pool!TakeNone, Pool!Fail, Pool!Commit, Pool!Refuse,
        Pool!Record,
        Pool!Drop
  <2>2. Pool!Start
    BY <2>1 DEF Pool!Next, Pool!Refresh, Pool!Shutdown, Pool!Crash, Pool!Forget, Pool!Tick, Pool!vars
  <2> QED BY <2>2 DEF Pool!Start, Pool!Remembered, PoolInv, Remembering
<1> QED BY <1>1, <1>2, <1>3, <1>4, <1>5, PTL
    DEF Pool!Spec, PeersChosen, Pool!PeersChosen, Pool!CooldownHeld, Pool!PreferredOnce,
    Pool!EntryRecovered

-----------------------------------------------------------------------------
(* The types of the node pool *)

\* The most trusted provider exists: numbers have a least one.
Less == {ss \in Nat \X Nat : ss[1] < ss[2]}

LEMMA LessWellFounded == IsWellFoundedOn(Less, Nat)
BY NatLessThanWellFounded, Zenon DEF OpToRel, Less

LEMMA Least == ASSUME NEW T, T \subseteq Nat, T # {} PROVE \E x \in T : \A y \in T : x <= y
<1>1. PICK x \in T : \A y \in T : <<y, x>> \notin Less
  BY LessWellFounded, WFMin
<1>2. ASSUME NEW y \in T, y < x PROVE FALSE
  <2>1. x \in Nat /\ y \in Nat
    OBVIOUS
  <2>2. <<y, x>> \in Nat \X Nat /\ <<y, x>>[1] < <<y, x>>[2]
    BY <1>2, <2>1
  <2> QED BY <1>1, <2>2, Zenon DEF Less
<1> QED BY <1>2

\* A table of nodes, without the union over its domains.
Table(f, limit) ==
    /\ f = [n \in DOMAIN f |-> f[n]] /\ DOMAIN f \subseteq Nodes
    /\ \A n \in DOMAIN f : f[n] \in [ping : Pings, age : 0..limit]

LEMMA StoredIsTable == ASSUME NEW f, NEW k PROVE f \in Pool!Stored(k) <=> Table(f, k)
<1>1. ASSUME f \in Pool!Stored(k) PROVE Table(f, k)
  <2>1. PICK S \in SUBSET Nodes : f \in [S -> [ping : Pings, age : 0..k]]
    BY <1>1 DEF Pool!Stored
  <2> QED BY <2>1 DEF Table
<1>2. ASSUME Table(f, k) PROVE f \in Pool!Stored(k)
  <2>1. f \in [DOMAIN f -> [ping : Pings, age : 0..k]] /\ DOMAIN f \in SUBSET Nodes
    BY <1>2 DEF Table
  <2> QED BY <2>1 DEF Pool!Stored
<1> QED BY <1>1, <1>2

\* What the providers name together has the ping one of them gave.
LEMMA NamedPings ==
    ASSUME Pool!PoolAssumption
    PROVE  \A named \in Pool!Named : \A n \in DOMAIN named : named[n] \in Pings
<1> SUFFICES ASSUME NEW offers \in [Providers -> Pool!Offer], NEW n \in DOMAIN Pool!Combined(offers)
             PROVE  Pool!Combined(offers)[n] \in Pings
  BY DEF Pool!Named
<1>1. \A p \in Providers : \A m \in DOMAIN offers[p] : offers[p][m] \in Pings
  BY DEF Pool!Offer
<1> DEFINE Ranks == {p \in Providers : n \in DOMAIN offers[p]}
<1>2. Ranks # {} /\ Ranks \subseteq Nat
  BY DEF Pool!Combined, Pool!PoolAssumption
<1>3. PICK p \in Ranks : \A r \in Ranks : p <= r
  BY <1>2, Least
<1>4. \E q \in Providers : n \in DOMAIN offers[q] /\ \A r \in Providers : n \in DOMAIN offers[r] => q <= r
  BY <1>3
<1> QED BY <1>1, <1>4 DEF Pool!Combined

LEMMA RefreshTyped ==
    ASSUME Pool!PoolAssumption, Pool!TypeOK, Pool!Refresh
    PROVE  rows' \in Pool!Stored(History + 1) /\ pool' \in Pool!Stored(Recent + 1)
<1> USE DEF Pool!PoolAssumption
<1>1. PICK named \in Pool!Named, writes \in BOOLEAN :
         LET stored == IF writes /\ DOMAIN named # {} THEN Pool!Merged(named) ELSE rows
             nodes  == Pool!Loaded(stored, named)
         IN  rows' = stored /\ pool' = IF DOMAIN nodes # {} THEN Pool!Replaced(nodes) ELSE pool
  BY DEF Pool!Refresh
<1> DEFINE stored == IF writes /\ DOMAIN named # {} THEN Pool!Merged(named) ELSE rows
           nodes  == Pool!Loaded(stored, named)
<1>2. rows' = stored /\ pool' = IF DOMAIN nodes # {} THEN Pool!Replaced(nodes) ELSE pool
  BY <1>1
<1>3. DOMAIN named \subseteq Nodes /\ \A n \in DOMAIN named : named[n] \in Pings
  BY NamedNodes, NamedPings
<1>4. Table(rows, History + 1) /\ Table(pool, Recent + 1)
  BY StoredIsTable DEF Pool!TypeOK
<1>5. Table(Pool!Merged(named), History + 1)
  BY <1>3, <1>4 DEF Pool!Merged, Table
<1>6. Table(stored, History + 1)
  BY <1>4, <1>5
<1> HIDE DEF stored
<1>7. Table(nodes, History + 1)
  <2>1. CASE DOMAIN stored # {}
    BY <1>6, <2>1 DEF Pool!Loaded
  <2>2. CASE DOMAIN stored = {}
    <3>1. nodes = [n \in DOMAIN named |-> [ping |-> named[n], age |-> 0]] /\ 0 \in 0..History + 1
      BY <2>2 DEF Pool!Loaded
    <3> QED BY <1>3, <3>1 DEF Table
  <2> QED BY <2>1, <2>2
<1> HIDE DEF nodes
<1>8. Table(Pool!Replaced(nodes), Recent + 1)
  BY <1>4, <1>7 DEF Pool!Replaced, Table, Pool!Bigger, Pool!Lesser
<1> QED BY <1>2, <1>4, <1>6, <1>8, StoredIsTable

LEMMA AgedTyped ==
    ASSUME NEW f, NEW k \in Nat, f \in Pool!Stored(k)
    PROVE  Pool!Aged(f, k) \in Pool!Stored(k)
<1>1. Table(f, k)
  BY StoredIsTable
<1>2. Table(Pool!Aged(f, k), k)
  BY <1>1 DEF Table, Pool!Aged, Pool!Lesser
<1> QED BY <1>2, StoredIsTable

\* The other variables have their types by PoolInv.
LEMMA PoolTyped ==
    ASSUME Pool!PoolAssumption, PoolInv, Pool!TypeOK, [Pool!Next]_Pool!vars
    PROVE  Pool!TypeOK'
<1> USE DEF Pool!PoolAssumption
<1> DEFINE Events == [PoolSlots -> [ip : Nodes \cup {None}, age : 0..Retention + 1]]
           Typed  == /\ mode' \in {"off", "boot", "on"} /\ event' \in Events
                     /\ rows' \in Pool!Stored(History + 1) /\ pool' \in Pool!Stored(Recent + 1)
                     /\ penalty' \in [Nodes -> 0..MaxPenalty]
<1>1. ASSUME Pool!Refresh PROVE Typed
  <2>1. event' \in Events
    BY <1>1 DEF Pool!Refresh, Pool!Pruned, Pool!NoEvent, Pool!TypeOK
  <2> QED BY <1>1, <2>1, RefreshTyped DEF Pool!Refresh, Pool!TypeOK
<1>2. ASSUME Pool!Tick PROVE Typed
  <2>1. rows' \in Pool!Stored(History + 1) /\ pool' \in Pool!Stored(Recent + 1)
    BY <1>2, AgedTyped DEF Pool!Tick, Pool!TypeOK
  <2>2. event' \in Events
    BY <1>2 DEF Pool!Tick, Pool!NoEvent, Pool!Lesser, Pool!TypeOK
  <2> QED BY <1>2, <2>1, <2>2 DEF Pool!Tick, Pool!TypeOK
<1>3. ASSUME Pool!Shutdown \/ Pool!Crash PROVE Typed
  <2>1. pool' \in Pool!Stored(Recent + 1)
    BY <1>3, StoredIsTable DEF Pool!Shutdown, Pool!Crash, Pool!Forget, Table
  <2> QED BY <1>3, <2>1 DEF Pool!Shutdown, Pool!Crash, Pool!Forget, Pool!TypeOK
<1>4. ASSUME Pool!Start \/ UNCHANGED Pool!vars PROVE Typed
  BY <1>4 DEF Pool!Start, Pool!vars, Pool!TypeOK
<1>5. ASSUME NEW s \in PoolSlots, Pool!SlotStep(s) PROVE Typed
  <2>1. ASSUME NEW n \in Nodes \cup {None}, NEW b \in Nat, Pool!Blame(n, b)
        PROVE  penalty' \in [Nodes -> 0..MaxPenalty]
    <3>1. penalty' = [penalty EXCEPT ![n] = Pool!Lesser(penalty[n] + b, MaxPenalty)]
      BY <2>1 DEF Pool!Blame
    <3>2. n \in Nodes => Pool!Lesser(penalty[n] + b, MaxPenalty) \in 0..MaxPenalty
      BY DEF Pool!Lesser, Pool!TypeOK
    <3> QED BY <3>1, <3>2 DEF Pool!TypeOK
  <2>2. slot[s].peer \in Nodes \cup {None} /\ entry[s] \in Nodes \cup {None}
    BY DEF Pool!TypeOK
  <2>3. CASE Pool!Take(s) \/ Pool!TakeNone(s) \/ Pool!Commit(s)
    BY <2>3 DEF Pool!Take, Pool!TakeNone, Pool!Commit, Pool!TypeOK
  <2>4. CASE Pool!Fail(s)
    <3>1. PICK b \in Blames : Pool!Blame(slot[s].peer, 10 + b)
      BY <2>4 DEF Pool!Fail
    <3>2. 10 + b \in Nat
      OBVIOUS
    <3> QED BY <2>1, <2>2, <2>4, <3>1, <3>2 DEF Pool!Fail, Pool!TypeOK
  <2>5. CASE Pool!Refuse(s)
    BY <2>1, <2>2, <2>5 DEF Pool!Refuse, Pool!TypeOK
  <2>6. CASE Pool!Record(s)
    <3>1. event' \in Events
      BY <2>2, <2>6 DEF Pool!Record, Pool!TypeOK
    <3> QED BY <2>6, <3>1 DEF Pool!Record, Pool!TypeOK
  <2>7. CASE Pool!Drop(s)
    BY <2>1, <2>2, <2>7 DEF Pool!Drop, Pool!TypeOK
  <2> QED BY <1>5, <2>3, <2>4, <2>5, <2>6, <2>7 DEF Pool!SlotStep
<1>6. Typed
  BY <1>1, <1>2, <1>3, <1>4, <1>5 DEF Pool!Next
<1>7. PoolInv'
  BY PoolNext
<1> QED BY <1>6, <1>7 DEF PoolInv, Paused, Remembering, SlotRec, Pool!TypeOK

\* Every reachable state of the pool is well typed: pings are those a provider
\* gave, ages, pauses and penalties stay within their bounds.
THEOREM PoolTypeCorrect == Pool!Spec => []Pool!TypeOK
<1> USE ManagerAssumption DEF ManagerAssumption
<1>1. Pool!Init => PoolInv /\ Pool!TypeOK
  <2>1. Pool!Init => rows \in Pool!Stored(History + 1) /\ pool \in Pool!Stored(Recent + 1)
    BY StoredIsTable DEF Pool!Init, Table
  <2> QED BY <2>1, PoolInitial DEF Pool!Init, Pool!TypeOK, Pool!Idle, Pool!NoEvent, Pool!PoolAssumption
<1>2. PoolInv /\ Pool!TypeOK /\ [Pool!Next]_Pool!vars => (PoolInv /\ Pool!TypeOK)'
  BY PoolNext, PoolTyped
<1> QED BY <1>1, <1>2, PTL DEF Pool!Spec


-----------------------------------------------------------------------------
(* The database of slots *)

\* Between InsertSlots and Manage: a slot of the profile that is missing has lost
\* its port to another one, and where none is missing the countries are allowed.
Filled ==
    \/ \E i \in 1..count \ DOMAIN slotRows, j \in DOMAIN slotRows : slotRows[j].port = i
    \/ 1..count \subseteq DOMAIN slotRows /\ \A i \in 1..count : slotRows[i].country \in Allowed

RecordsInv == Records!TypeOK /\ Records!DistinctPorts /\ Records!FullyMigrated /\ (start = "check" => Filled)

LEMMA Counted ==
    ASSUME Records!RecordsAssumption, Records!TypeOK
    PROVE  count \in 1..MaxSlots /\ MaxSlots \in Nat
BY DEF Records!RecordsAssumption, Records!TypeOK

LEMMA RecordsInitial == ASSUME Records!RecordsAssumption, Records!Init PROVE RecordsInv
<1>1. PICK d \in Databases : columns = d.columns /\ slotRows = d.rows
  BY DEF Records!Init
<1>2. Records!TypeOK
  BY <1>1 DEF Records!Init, Records!TypeOK, Records!RecordsAssumption
<1>3. Records!DistinctPorts
  BY <1>1 DEF Records!DistinctPorts, Records!RecordsAssumption
<1> QED BY <1>2, <1>3 DEF RecordsInv, Records!Init, Records!FullyMigrated

\* INSERT OR IGNORE leaves what there is, adds slots on their own free ports, and
\* skips a slot only when another one has its port.
LEMMA InsertKeeps ==
    ASSUME Records!RecordsAssumption, Records!TypeOK, Records!DistinctPorts
    PROVE  /\ DOMAIN Records!Inserted \subseteq 1..MaxSlots /\ DOMAIN slotRows \subseteq DOMAIN Records!Inserted
           /\ \A i \in DOMAIN Records!Inserted : Records!Inserted[i] \in Records!Row
           /\ \A i \in DOMAIN slotRows : Records!Inserted[i] = slotRows[i]
           /\ \A i, j \in DOMAIN Records!Inserted : Records!Inserted[i].port = Records!Inserted[j].port => i = j
           /\ \A i \in 1..count \ DOMAIN Records!Inserted : \E j \in DOMAIN slotRows : slotRows[j].port = i
<1> DEFINE missing == {i \in 1..count : i \notin DOMAIN slotRows /\ \A j \in DOMAIN slotRows : slotRows[j].port # i}
           new(i)  == [country |-> Template[i], port |-> i]
<1>1. missing \subseteq 1..MaxSlots /\ \A i \in missing : new(i) \in Records!Row /\ new(i).port = i
  BY Counted DEF Records!RecordsAssumption, Records!Row
<1>2. /\ DOMAIN Records!Inserted = DOMAIN slotRows \cup missing
      /\ \A i \in DOMAIN slotRows : Records!Inserted[i] = slotRows[i]
      /\ \A i \in missing : Records!Inserted[i] = new(i)
  BY DEF Records!Inserted
<1> HIDE DEF new
<1>3. \A i \in missing, j \in DOMAIN slotRows : i \notin DOMAIN slotRows /\ slotRows[j].port # i
  OBVIOUS
<1>4. \A i \in 1..count : i \in DOMAIN slotRows \/ i \in missing \/ \E j \in DOMAIN slotRows : slotRows[j].port = i
  OBVIOUS
<1> HIDE DEF missing
<1>5. DOMAIN Records!Inserted \subseteq 1..MaxSlots /\ \A i \in DOMAIN Records!Inserted : Records!Inserted[i] \in Records!Row
  BY <1>1, <1>2 DEF Records!TypeOK
<1>6. ASSUME NEW i \in DOMAIN Records!Inserted, NEW j \in DOMAIN Records!Inserted,
             Records!Inserted[i].port = Records!Inserted[j].port
      PROVE  i = j
  <2>1. CASE i \in DOMAIN slotRows /\ j \in DOMAIN slotRows
    BY <1>2, <1>6, <2>1 DEF Records!DistinctPorts
  <2>2. CASE i \in missing /\ j \in missing
    BY <1>1, <1>2, <1>6, <2>2
  <2>3. CASE i \in missing /\ j \in DOMAIN slotRows
    <3>1. Records!Inserted[i].port = i /\ Records!Inserted[j].port = slotRows[j].port
      BY <1>1, <1>2, <2>3
    <3> QED BY <1>3, <1>6, <2>3, <3>1
  <2>4. CASE i \in DOMAIN slotRows /\ j \in missing
    <3>1. Records!Inserted[j].port = j /\ Records!Inserted[i].port = slotRows[i].port
      BY <1>1, <1>2, <2>4
    <3> QED BY <1>3, <1>6, <2>4, <3>1
  <2> QED BY <1>2, <2>1, <2>2, <2>3, <2>4
<1> QED BY <1>2, <1>4, <1>5, <1>6

\* The reset of countries moves no port, and leaves none that is not allowed in
\* the slots of the profile.
LEMMA StrictKeeps ==
    ASSUME Records!RecordsAssumption, Records!TypeOK, NEW table, DOMAIN table \subseteq 1..MaxSlots,
           \A i \in DOMAIN table : table[i] \in Records!Row
    PROVE  /\ DOMAIN Records!Strict(table) = DOMAIN table
           /\ \A i \in DOMAIN table : Records!Strict(table)[i] \in Records!Row /\ Records!Strict(table)[i].port = table[i].port
           /\ \A i \in DOMAIN table : i \in 1..count => Records!Strict(table)[i].country \in Allowed
<1>1. \A i \in DOMAIN table : Template[i] \in Allowed
  BY DEF Records!RecordsAssumption
<1>2. CASE \E i \in DOMAIN table : table[i].country \notin Allowed
  <2>1. Records!Strict(table) = [i \in DOMAIN table |->
           IF i <= count THEN [table[i] EXCEPT !.country = Template[i]] ELSE table[i]]
    BY <1>2 DEF Records!Strict
  <2>2. \A i \in DOMAIN table : LET r == [table[i] EXCEPT !.country = Template[i]]
                                IN r \in Records!Row /\ r.port = table[i].port /\ r.country \in Allowed
    BY <1>1 DEF Records!Row
  <2>3. DOMAIN Records!Strict(table) = DOMAIN table
    BY <2>1
  <2>4. ASSUME NEW i \in DOMAIN table
        PROVE  /\ Records!Strict(table)[i] \in Records!Row /\ Records!Strict(table)[i].port = table[i].port
               /\ i \in 1..count => Records!Strict(table)[i].country \in Allowed
    <3>1. Records!Strict(table)[i] = IF i <= count THEN [table[i] EXCEPT !.country = Template[i]] ELSE table[i]
      BY <2>1
    <3>2. CASE i <= count
      BY <2>2, <3>1, <3>2
    <3>3. CASE ~(i <= count)
      BY <3>1, <3>3, Counted
    <3> QED BY <3>2, <3>3
  <2> QED BY <2>3, <2>4
<1>3. CASE ~ \E i \in DOMAIN table : table[i].country \notin Allowed
  BY <1>3 DEF Records!Strict
<1> QED BY <1>2, <1>3

LEMMA InsertRecords ==
    ASSUME Records!RecordsAssumption, RecordsInv, Records!InsertSlots
    PROVE  RecordsInv' /\ \A i \in DOMAIN slotRows : i \in DOMAIN slotRows' /\ slotRows'[i].port = slotRows[i].port
<1> DEFINE table == Records!Inserted
<1>1. /\ DOMAIN table \subseteq 1..MaxSlots /\ DOMAIN slotRows \subseteq DOMAIN table
      /\ \A i \in DOMAIN table : table[i] \in Records!Row
      /\ \A i \in DOMAIN slotRows : table[i] = slotRows[i]
      /\ \A i, j \in DOMAIN table : table[i].port = table[j].port => i = j
      /\ \A i \in 1..count \ DOMAIN table : \E j \in DOMAIN slotRows : slotRows[j].port = i
  BY InsertKeeps DEF RecordsInv
<1>2. slotRows' = Records!Strict(table) /\ start = "slots" /\ start' = "check" /\ UNCHANGED <<count, columns, managed, put>>
  BY DEF Records!InsertSlots
<1> HIDE DEF table
<1>3. /\ DOMAIN slotRows' = DOMAIN table
      /\ \A i \in DOMAIN table : slotRows'[i] \in Records!Row /\ slotRows'[i].port = table[i].port
      /\ \A i \in DOMAIN table : i \in 1..count => slotRows'[i].country \in Allowed
  BY <1>1, <1>2, StrictKeeps DEF RecordsInv
<1>4. Records!TypeOK'
  BY <1>1, <1>2, <1>3 DEF RecordsInv, Records!TypeOK, Records!Running
<1>5. Records!DistinctPorts'
  BY <1>1, <1>3 DEF Records!DistinctPorts
<1>6. Filled'
  BY <1>1, <1>2, <1>3 DEF Filled
<1> QED BY <1>1, <1>2, <1>3, <1>4, <1>5, <1>6 DEF RecordsInv, Records!FullyMigrated

\* A client writes a whole row, if its port is still free.
LEMMA WriteRecords ==
    ASSUME Records!RecordsAssumption, RecordsInv, NEW c \in Clients, Records!Write(c)
    PROVE  RecordsInv'
<1>1. /\ start = "on" /\ start' = "on" /\ UNCHANGED <<count, columns, managed>>
      /\ put[c] \in Records!Request /\ \A d \in Clients : put'[d] = None \/ put'[d] \in Records!Request
  BY DEF Records!Write, RecordsInv, Records!TypeOK
<1> DEFINE i == put[c].slot
           r == put[c].row
<1>2. i \in 1..MaxSlots /\ r \in Records!Row
  BY <1>1 DEF Records!Request
<1>3. CASE slotRows' = slotRows
  BY <1>1, <1>3 DEF RecordsInv, Records!TypeOK, Records!DistinctPorts, Records!FullyMigrated
<1>4. CASE Records!PortFree(i, r.port) /\ slotRows' = [slotRows EXCEPT ![i] = r]
  <2> HIDE DEF i, r
  <2>1. /\ DOMAIN slotRows' = DOMAIN slotRows
        /\ \A j \in DOMAIN slotRows : slotRows'[j] = IF j = i THEN r ELSE slotRows[j]
    BY <1>4
  <2>2. Records!TypeOK'
    BY <1>1, <1>2, <2>1 DEF RecordsInv, Records!TypeOK
  <2>3. Records!DistinctPorts'
    BY <1>4, <2>1 DEF RecordsInv, Records!DistinctPorts, Records!PortFree
  <2> QED BY <1>1, <2>2, <2>3 DEF RecordsInv, Records!FullyMigrated
<1> QED BY <1>3, <1>4 DEF Records!Write

LEMMA ValidateRecords ==
    ASSUME Records!RecordsAssumption, RecordsInv, NEW c \in Clients, Records!Validate(c)
    PROVE  RecordsInv'
<1>1. UNCHANGED <<start, count, columns, slotRows, managed>> /\ start = "on"
  BY DEF Records!Validate
<1>0. PICK i \in managed : \E country \in Countries \cup {slotRows[i].country}, port \in Ports \cup {slotRows[i].port} :
         put' = [put EXCEPT ![c] = [slot |-> i, row |-> [country |-> country, port |-> port]]]
  BY DEF Records!Validate
<1>2. PICK country \in Countries \cup {slotRows[i].country}, port \in Ports \cup {slotRows[i].port} :
         put' = [put EXCEPT ![c] = [slot |-> i, row |-> [country |-> country, port |-> port]]]
  BY <1>0
<1>3. [slot |-> i, row |-> [country |-> country, port |-> port]] \in Records!Request
  BY DEF RecordsInv, Records!TypeOK, Records!Request, Records!Row, Records!RecordsAssumption
<1>4. \A d \in Clients : put'[d] = None \/ put'[d] \in Records!Request
  BY <1>2, <1>3 DEF RecordsInv, Records!TypeOK
<1> QED BY <1>1, <1>4 DEF RecordsInv, Records!TypeOK, Records!DistinctPorts, Records!FullyMigrated

LEMMA StartRecords ==
    ASSUME Records!RecordsAssumption, RecordsInv,
           Records!Boot \/ Records!AddColumn \/ Records!Manage \/ Records!Kill \/ UNCHANGED Records!vars
    PROVE  RecordsInv'
<1>1. CASE Records!Boot
  BY <1>1 DEF Records!Boot, RecordsInv, Records!TypeOK, Records!DistinctPorts, Records!FullyMigrated,
      Records!Running
<1>2. CASE Records!AddColumn
  BY <1>2 DEF Records!AddColumn, RecordsInv, Records!TypeOK, Records!DistinctPorts,
      Records!FullyMigrated,
      Records!Running
<1>3. CASE Records!Manage
  BY <1>3 DEF Records!Manage, Records!First, RecordsInv, Records!TypeOK, Records!DistinctPorts,
      Records!FullyMigrated, Records!Running
<1>4. CASE Records!Kill
  BY <1>4 DEF Records!Kill, RecordsInv, Records!TypeOK, Records!DistinctPorts, Records!FullyMigrated,
      Records!Running
<1>5. CASE UNCHANGED Records!vars
  BY <1>5 DEF Records!vars, RecordsInv, Records!TypeOK, Records!DistinctPorts,
      Records!FullyMigrated, Filled
<1> QED BY <1>1, <1>2, <1>3, <1>4, <1>5

LEMMA RecordsNext ==
    ASSUME Records!RecordsAssumption, RecordsInv, [Records!Next]_Records!vars
    PROVE  RecordsInv'
BY InsertRecords, WriteRecords, ValidateRecords, StartRecords DEF Records!Next

\* The instance counts like its module.
LEMMA SameCount ==
    ASSUME NEW S
    PROVE  Records!Cardinality(S) = Cardinality(S)
BY Zenon DEF Records!Cardinality, Cardinality

\* The first n rows are the slots 1 to n when all of these are there.
LEMMA FirstRows ==
    ASSUME Records!RecordsAssumption, Records!TypeOK, 1..count \subseteq DOMAIN slotRows
    PROVE  Records!First(count) = 1..count
<1>1. count \in Nat /\ DOMAIN slotRows \subseteq 1..MaxSlots /\ MaxSlots \in Nat /\ count \in 1..MaxSlots
  BY Counted DEF Records!TypeOK
<1> DEFINE Below(i) == {j \in DOMAIN slotRows : j < i}
<1>2. ASSUME NEW i \in 1..count PROVE Cardinality(Below(i)) < count
  <2>1. Below(i) = 1..(i - 1)
    BY <1>1
  <2>2. Cardinality(1..(i - 1)) = i - 1
    BY FS_Interval
  <2>3. Cardinality(Below(i)) = i - 1
    BY <2>1, <2>2
  <2> HIDE DEF Below
  <2> QED BY <1>1, <2>3
<1>3. ASSUME NEW i \in DOMAIN slotRows, i \notin 1..count PROVE ~ (Cardinality(Below(i)) < count)
  <2>1. 1..count \subseteq Below(i)
    BY <1>1, <1>3
  <2>2. IsFiniteSet(1..MaxSlots) /\ Below(i) \subseteq 1..MaxSlots
    BY <1>1, FS_Interval
  <2>3. IsFiniteSet(Below(i)) /\ IsFiniteSet(1..count)
    BY <2>1, <2>2, FS_Subset
  <2>4. Cardinality(1..count) <= Cardinality(Below(i)) /\ Cardinality(1..count) = count
    BY <1>1, <2>1, <2>3, FS_Subset, FS_Interval
  <2>5. Cardinality(Below(i)) \in Nat
    BY <2>3, FS_CardinalityType
  <2> QED BY <1>1, <2>4, <2>5
<1>4. Records!First(count) = {i \in DOMAIN slotRows : Cardinality(Below(i)) < count}
  BY SameCount DEF Records!First
<1> HIDE DEF Below
<1> QED BY <1>2, <1>3, <1>4

\* Whatever database was found, wherever starts were killed and whichever counts
\* they were given: no slot is lost, no port moved or shared, no column missing,
\* and the manager begins with its slots unless one has lost its port.
THEOREM RecordsAlwaysSound == Records!Spec => RecordsSound
<1> USE ManagerAssumption DEF ManagerAssumption
<1>1. Records!Init => RecordsInv
  BY RecordsInitial
<1>2. RecordsInv /\ [Records!Next]_Records!vars => RecordsInv'
  BY RecordsNext
<1>3. RecordsInv => Records!DistinctPorts /\ Records!FullyMigrated
  BY DEF RecordsInv
<1>4. RecordsInv /\ [Records!Next]_Records!vars =>
        (start # "on" => \A i \in DOMAIN slotRows : i \in DOMAIN slotRows' /\ slotRows'[i].port = slotRows[i].port)
  <2> SUFFICES ASSUME RecordsInv, [Records!Next]_Records!vars, start # "on"
               PROVE  \A i \in DOMAIN slotRows : i \in DOMAIN slotRows' /\ slotRows'[i].port = slotRows[i].port
    OBVIOUS
  <2>1. Records!InsertSlots \/ slotRows' = slotRows
    BY DEF Records!Next, Records!Boot, Records!AddColumn, Records!Manage, Records!Kill,
        Records!Validate,
        Records!Write, Records!vars
  <2> QED BY <2>1, InsertRecords
<1>5. RecordsInv /\ [Records!Next]_Records!vars =>
        (start = "check" /\ start' = "on" =>
         \/ managed' = 1..count /\ \A i \in managed' : slotRows[i].country \in Allowed
         \/ \E i \in 1..count \ DOMAIN slotRows, j \in DOMAIN slotRows : slotRows[j].port = i)
  <2> SUFFICES ASSUME RecordsInv, [Records!Next]_Records!vars, start = "check", start' = "on",
                      ~ \E i \in 1..count \ DOMAIN slotRows, j \in DOMAIN slotRows : slotRows[j].port = i
               PROVE  managed' = 1..count /\ \A i \in managed' : slotRows[i].country \in Allowed
    OBVIOUS
  <2>1. Records!Manage
    BY DEF Records!Next, Records!Boot, Records!AddColumn, Records!InsertSlots, Records!Kill,
        Records!Validate,
        Records!Write, Records!vars
  <2>2. 1..count \subseteq DOMAIN slotRows /\ \A i \in 1..count : slotRows[i].country \in Allowed
    BY DEF RecordsInv, Filled
  <2> QED BY <2>1, <2>2, FirstRows DEF Records!Manage, RecordsInv
<1> QED BY <1>1, <1>2, <1>3, <1>4, <1>5, PTL
    DEF Records!Spec, RecordsSound, Records!RecordsSound, Records!SlotsKept, Records!BeginsStrict
=============================================================================
