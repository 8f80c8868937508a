----------------------------- MODULE Node_proofs -----------------------------
(***************************************************************************)
(* What the run NodeSafety checks of the parts around the manager, proved for *)
(* every value of their constants: the realtime channel, traffic accounting   *)
(* (Traffic), egress changes (Egress), the refresh of bridge nodes (Bridge),  *)
(* the containers that carry public traffic (Gateway) and the single-exit      *)
(* manager (Lite).                                                            *)
(*                                                                           *)
(* The parts share no state: each theorem is about the specification of one   *)
(* part, on its main instance in NodeSafety. That every part is well typed is  *)
(* proved as well, with the invariants the types of the containers, and of     *)
(* the workers of a refresh, rest on.                                          *)
(***************************************************************************)
EXTENDS NodeSafety, FiniteSetTheorems, WellFoundedInduction, TLAPS

-----------------------------------------------------------------------------
(* The realtime channel *)

Rank(b, n) == b * (MaxSeq + 1) + n

\* What a record of the object claims to have seen has been accepted.
Behind(f, n) == f.boot # 0 => Rank(f.boot, f.last) <= n

AllBehind ==
    /\ Behind(mem, accepted) /\ Behind(stored, accepted)
    /\ \A c \in Sockets : /\ Behind(att[c], accepted)
                          /\ att[c].boot = 0 => att[c].last = -1

\* A client between Accept and Join still has to say hello.
Greets ==
    /\ agent.online => agent.sock # 0
    /\ agent.sock # 0 /\ ~agent.online => agent.seq < MaxSeq
    /\ \A c \in joining : agent.sock = c => ~agent.online

PresenceInv == TypeOK /\ AllBehind /\ Greets

LEMMA AgentTyped ==
    ASSUME PresenceInv
    PROVE  /\ agent.boot \in 1..MaxBoots /\ agent.seq \in 0..MaxSeq
           /\ agent.sock \in Sockets \cup {0} /\ agent.online \in BOOLEAN
           /\ agent.seq < MaxSeq => agent.seq + 1 \in 1..MaxSeq
BY PresenceAssumption DEF PresenceInv, TypeOK

\* The premises of BroadcastBehind that every action has from the invariant.
LEMMA Held ==
    ASSUME PresenceInv
    PROVE  /\ att \in [Sockets -> Attachment] /\ accepted \in Nat /\ Listed \in SUBSET Sockets
           /\ mem \in Fields /\ stored \in Fields
           /\ shown \in [state : Stamps, connected : BOOLEAN]
           /\ Behind(mem, accepted) /\ Behind(stored, accepted)
           /\ \A c \in Sockets : Behind(att[c], accepted) /\ (att[c].boot = 0 => att[c].last = -1)
<1> USE DEF PresenceInv
<1>1. accepted \in Nat
  BY DEF TypeOK, Stamps
<1>2. Listed \in SUBSET Sockets
  BY DEF Listed
<1> QED
  BY <1>1, <1>2 DEF TypeOK, AllBehind

-----------------------------------------------------------------------------
(* Numbers *)

LEMMA RankMonotone ==
    ASSUME NEW b \in Nat, NEW m \in Int, NEW n \in Int, m <= n
    PROVE  Rank(b, m) \in Int /\ Rank(b, m) <= Rank(b, n)
<1>1. b * (MaxSeq + 1) \in Int
  BY PresenceAssumption
<1> QED
  BY <1>1 DEF Rank

LEMMA RankReached ==
    ASSUME NEW b \in Nat, NEW m \in Int, NEW n \in Int, NEW t \in Int, m <= n, Rank(b, n) <= t
    PROVE  Rank(b, m) <= t
<1>1. Rank(b, m) \in Int /\ Rank(b, m) <= Rank(b, n)
  BY RankMonotone
<1>2. Rank(b, n) \in Int
  <2>1. n <= n
    OBVIOUS
  <2> QED
    BY <2>1, RankMonotone
<1> QED
  BY <1>1, <1>2

LEMMA StampTyped ==
    ASSUME NEW m \in Message
    PROVE  Stamp(m) \in Nat /\ Stamp(m) = Rank(m.boot, m.seq) /\ m.boot \in 1..MaxBoots /\ m.seq \in 1..MaxSeq
           /\ m.boot \in 0..MaxBoots /\ m.seq \in -1..MaxSeq
<1>1. m.boot \in 1..MaxBoots /\ m.seq \in 1..MaxSeq
  BY DEF Message
<1>2. m.boot * (MaxSeq + 1) \in Nat
  BY <1>1, PresenceAssumption
<1>3. m.boot \in 0..MaxBoots /\ m.seq \in -1..MaxSeq
  BY <1>1, PresenceAssumption
<1> QED
  BY <1>1, <1>2, <1>3, PresenceAssumption DEF Stamp, Rank

LEMMA BehindLater ==
    ASSUME NEW f, f.boot \in Nat, f.last \in Int, NEW m \in Nat, NEW n \in Nat, m <= n, Behind(f, m)
    PROVE  Behind(f, n)
<1>1. Rank(f.boot, f.last) \in Int
  BY RankMonotone
<1> QED
  BY <1>1 DEF Behind

-----------------------------------------------------------------------------
(* What is published *)

LEMMA SyncedBehind ==
    ASSUME NEW s \in Fields, NEW a \in [Sockets -> Attachment], NEW n \in Nat,
           NEW sockets \in SUBSET Sockets, NEW v \in Synced(s, sockets, a),
           Behind(s, n), \A c \in Sockets : Behind(a[c], n) /\ (a[c].boot = 0 => a[c].last = -1)
    PROVE  v \in Fields /\ Behind(v, n)
<1>1. CASE sockets = {}
  <2>1. v = [s EXCEPT !.connected = FALSE]
    BY <1>1 DEF Synced
  <2>2. v \in Fields /\ v.boot = s.boot /\ v.last = s.last
    BY <2>1 DEF Fields
  <2> QED
    BY <2>2 DEF Behind
<1>2. CASE sockets # {}
  <2>1. PICK c \in sockets :
           v = [boot |-> IF a[c].boot # 0 THEN a[c].boot ELSE s.boot,
                last |-> a[c].last,
                state |-> IF a[c].state # 0 THEN a[c].state ELSE s.state,
                connected |-> TRUE]
    BY <1>2 DEF Synced
  <2>2. /\ a[c].boot \in 0..MaxBoots /\ a[c].last \in -1..MaxSeq /\ a[c].state \in Stamps
        /\ s.boot \in 0..MaxBoots /\ s.last \in -1..MaxSeq /\ s.state \in Stamps
    BY DEF Attachment, Fields
  <2>3. v \in Fields
    BY <2>1, <2>2 DEF Fields
  <2>4. CASE a[c].boot # 0
    <3>1. v.boot = a[c].boot /\ v.last = a[c].last
      BY <2>1, <2>4
    <3>2. c \in Sockets
      OBVIOUS
    <3>3. Behind(a[c], n)
      BY <3>2
    <3> QED
      BY <2>3, <3>1, <3>3 DEF Behind
  <2>5. CASE a[c].boot = 0
    <3>1. v.boot = s.boot /\ v.last = -1
      BY <2>1, <2>5
    <3>2. s.boot \in Nat /\ s.last \in Int /\ -1 <= s.last
      BY <2>2, PresenceAssumption
    <3>3. Rank(s.boot, -1) <= Rank(s.boot, s.last) /\ Rank(s.boot, -1) \in Int
      BY <3>2, RankMonotone
    <3>4. Rank(s.boot, s.last) \in Int
      BY <3>2, RankMonotone
    <3>5. s.boot # 0 => Rank(s.boot, s.last) <= n
      BY DEF Behind
    <3>6. s.boot # 0 => Rank(s.boot, -1) <= n
      BY <3>3, <3>4, <3>5
    <3> QED
      BY <2>3, <3>1, <3>6 DEF Behind
  <2> QED
    BY <2>3, <2>4, <2>5
<1> QED
  BY <1>1, <1>2

LEMMA BroadcastBehind ==
    ASSUME NEW s \in Fields, NEW a \in [Sockets -> Attachment], NEW n \in Nat,
           NEW sockets \in SUBSET Sockets, Broadcast(s, sockets, a) \/ Publish(s, sockets, a),
           Behind(s, n), \A c \in Sockets : Behind(a[c], n) /\ (a[c].boot = 0 => a[c].last = -1),
           shown \in [state : Stamps, connected : BOOLEAN]
    PROVE  mem' \in Fields /\ Behind(mem', n) /\ shown' \in [state : Stamps, connected : BOOLEAN]
<1>1. CASE mem' = s /\ UNCHANGED shown
  BY <1>1
<1>2. CASE Publish(s, sockets, a)
  <2>1. PICK v \in Synced(s, sockets, a) : mem' = v /\ shown' = [state |-> v.state, connected |-> v.connected]
    BY <1>2 DEF Publish
  <2>2. v \in Fields /\ Behind(v, n)
    BY SyncedBehind
  <2>3. v.state \in Stamps /\ v.connected \in BOOLEAN
    BY <2>2 DEF Fields
  <2> QED
    BY <2>1, <2>2, <2>3
<1> QED
  BY <1>1, <1>2 DEF Broadcast

-----------------------------------------------------------------------------
(* The channel *)

LEMMA InitInv == Init => PresenceInv
<1> SUFFICES ASSUME Init PROVE PresenceInv
  OBVIOUS
<1>1. NewFields \in Fields /\ NewAttachment \in Attachment /\ NewFields.boot = 0
      /\ NewAttachment.boot = 0 /\ NewAttachment.last = -1
  BY PresenceAssumption DEF NewFields, NewAttachment, Fields, Attachment, Stamps
<1> HIDE DEF NewFields, NewAttachment
<1>2. TypeOK
  BY <1>1, PresenceAssumption DEF Init, TypeOK, Stamps
<1>3. Greets
  BY DEF Init, Greets
<1> QED
  BY <1>1, <1>2, <1>3 DEF Init, PresenceInv, AllBehind, Behind

LEMMA AcceptInv == ASSUME PresenceInv, NEW c \in Sockets, Accept(c) PROVE PresenceInv'
<1>1. NewAttachment \in Attachment /\ NewAttachment.boot = 0 /\ NewAttachment.last = -1
  BY PresenceAssumption DEF NewAttachment, Attachment, Stamps
<1> HIDE DEF NewAttachment
<1>2. TypeOK'
  BY <1>1 DEF PresenceInv, TypeOK, Accept
<1>3. AllBehind'
  BY <1>1 DEF PresenceInv, TypeOK, Accept, AllBehind, Behind
<1>4. Greets'
  BY AgentTyped, <1>2 DEF PresenceInv, Accept, Greets, TypeOK
<1> QED
  BY <1>2, <1>3, <1>4 DEF PresenceInv

LEMMA Appended ==
    ASSUME PresenceInv, NEW c \in Sockets, NEW type \in {"hello", "status", "config.result"},
           agent.seq < MaxSeq
    PROVE  [wire EXCEPT ![c] = Append(@, [boot |-> agent.boot, seq |-> agent.seq + 1, type |-> type])]
             \in [Sockets -> Seq(Message)]
<1>1. [boot |-> agent.boot, seq |-> agent.seq + 1, type |-> type] \in Message
  BY PresenceAssumption DEF PresenceInv, TypeOK, Message
<1> QED
  BY <1>1 DEF PresenceInv, TypeOK

\* A message more, of a client on a socket.
LEMMA AgentCounts ==
    ASSUME PresenceInv, agent.seq < MaxSeq, NEW online \in BOOLEAN,
           agent' = [agent EXCEPT !.seq = agent.seq + 1, !.online = online]
    PROVE  /\ agent' \in [boot : 1..MaxBoots, seq : 0..MaxSeq, sock : Sockets \cup {0}, online : BOOLEAN]
           /\ agent'.sock = agent.sock /\ agent'.online = online
<1>1. agent.seq + 1 \in 0..MaxSeq
  BY AgentTyped, PresenceAssumption
<1>2. agent \in [boot : 1..MaxBoots, seq : 0..MaxSeq, sock : Sockets \cup {0}, online : BOOLEAN]
  BY DEF PresenceInv, TypeOK
<1> QED
  BY <1>1, <1>2

LEMMA JoinInv == ASSUME PresenceInv, NEW c \in Sockets, Join(c) PROVE PresenceInv'
<1> DEFINE s == [mem EXCEPT !.connected = TRUE]
<1>1. s \in Fields /\ s.boot = mem.boot /\ s.last = mem.last
  BY Held DEF Fields
<1>2. Behind(s, accepted) /\ Broadcast(s, Listed, att)
  BY <1>1, Held DEF Join, Behind
<1> HIDE DEF s
<1>3. mem' \in Fields /\ Behind(mem', accepted) /\ shown' \in [state : Stamps, connected : BOOLEAN]
  BY <1>1, <1>2, Held, BroadcastBehind
<1>4. UNCHANGED <<ws, att, stored, accepted>> /\ joining' = joining \ {c} /\ c \in joining
  BY DEF Join
<1>5. AllBehind'
  BY <1>3, <1>4, Held DEF AllBehind, Behind
<1>6. CASE agent.sock # c
  <2>1. UNCHANGED <<agent, wire>>
    BY <1>6 DEF Join
  <2>2. TypeOK'
    BY <1>3, <1>4, <2>1 DEF PresenceInv, TypeOK
  <2>3. Greets'
    BY <1>4, <2>1 DEF PresenceInv, Greets
  <2> QED
    BY <1>5, <2>2, <2>3 DEF PresenceInv
<1>7. CASE agent.sock = c
  <2>1. agent.seq < MaxSeq /\ c # 0
    BY <1>4, <1>7 DEF PresenceInv, Greets, Sockets
  <2>2. /\ agent' = [agent EXCEPT !.seq = agent.seq + 1, !.online = TRUE]
        /\ wire' = [wire EXCEPT ![c] = Append(wire[c], [boot |-> agent.boot, seq |-> agent.seq + 1, type |-> "hello"])]
    BY <1>7 DEF Join
  <2>3. wire' \in [Sockets -> Seq(Message)]
    BY <2>1, <2>2, Appended
  <2>4. agent' \in [boot : 1..MaxBoots, seq : 0..MaxSeq, sock : Sockets \cup {0}, online : BOOLEAN]
        /\ agent'.sock = c /\ agent'.online = TRUE
    BY <1>7, <2>1, <2>2, AgentCounts
  <2>5. TypeOK'
    BY <1>3, <1>4, <2>3, <2>4 DEF PresenceInv, TypeOK
  <2>6. Greets'
    BY <1>4, <2>1, <2>4 DEF Greets
  <2> QED
    BY <1>5, <2>5, <2>6 DEF PresenceInv
<1> QED
  BY <1>6, <1>7

LEMMA SendInv ==
    ASSUME PresenceInv, NEW type \in {"status", "config.result"}, Send(type)
    PROVE  PresenceInv'
<1>1. UNCHANGED <<ws, joining, att, mem, stored, shown, accepted>>
  BY DEF Send
<1>2. agent.sock \in Sockets /\ agent.seq < MaxSeq /\ agent.online
  BY AgentTyped DEF Send, PresenceInv, Greets
<1>3. wire' \in [Sockets -> Seq(Message)]
  BY <1>2, Appended DEF Send
<1>4. /\ agent' \in [boot : 1..MaxBoots, seq : 0..MaxSeq, sock : Sockets \cup {0}, online : BOOLEAN]
      /\ agent'.sock = agent.sock /\ agent'.online = agent.online
  <2>1. agent' = [agent EXCEPT !.seq = agent.seq + 1]
    BY DEF Send
  <2>2. agent' = [agent EXCEPT !.seq = agent.seq + 1, !.online = agent.online]
    BY <2>1 DEF PresenceInv, TypeOK
  <2>3. agent.online \in BOOLEAN
    BY AgentTyped
  <2> QED
    BY <1>2, <2>2, <2>3, AgentCounts
<1>5. TypeOK'
  BY <1>1, <1>3, <1>4 DEF PresenceInv, TypeOK
<1>6. AllBehind'
  BY <1>1 DEF PresenceInv, AllBehind, Behind
<1>7. Greets'
  BY <1>1, <1>2, <1>4 DEF PresenceInv, Greets
<1> QED
  BY <1>5, <1>6, <1>7 DEF PresenceInv

LEMMA ClientEndsInv == ASSUME PresenceInv, Disconnect \/ NewChannel PROVE PresenceInv'
<1>1. UNCHANGED <<wire, ws, joining, att, mem, stored, shown, accepted>>
  BY DEF Disconnect, NewChannel
<1>2. agent' \in [boot : 1..MaxBoots, seq : 0..MaxSeq, sock : Sockets \cup {0}, online : BOOLEAN]
      /\ agent'.sock = 0 /\ agent'.online = FALSE
  <2>1. CASE Disconnect
    BY <2>1 DEF Disconnect, PresenceInv, TypeOK
  <2>2. CASE NewChannel
    <3>1. agent' = [boot |-> agent.boot + 1, seq |-> 0, sock |-> 0, online |-> FALSE]
      BY <2>2 DEF NewChannel
    <3>2. agent.boot + 1 \in 1..MaxBoots /\ 0 \in 0..MaxSeq
      BY <2>2, AgentTyped, PresenceAssumption DEF NewChannel
    <3> QED
      BY <3>1, <3>2
  <2> QED
    BY <2>1, <2>2
<1>3. TypeOK'
  BY <1>1, <1>2 DEF PresenceInv, TypeOK
<1>4. AllBehind'
  BY <1>1 DEF PresenceInv, AllBehind, Behind
<1>5. Greets'
  BY <1>1, <1>2 DEF Greets
<1> QED
  BY <1>3, <1>4, <1>5 DEF PresenceInv

-----------------------------------------------------------------------------
(* The durable object *)

\* A step of the object: the agent does not move, what is written is behind.
LEMMA ObjectInv ==
    ASSUME PresenceInv, UNCHANGED agent, joining' \subseteq joining,
           wire' \in [Sockets -> Seq(Message)],
           ws' \in [Sockets -> {"unused", "open", "closing", "gone"}],
           att' \in [Sockets -> Attachment], mem' \in Fields, stored' \in Fields,
           shown' \in [state : Stamps, connected : BOOLEAN], accepted' \in Nat,
           Behind(mem', accepted'), Behind(stored', accepted'),
           \A c \in Sockets : Behind(att'[c], accepted') /\ (att'[c].boot = 0 => att'[c].last = -1)
    PROVE  PresenceInv'
<1>1. TypeOK'
  BY DEF PresenceInv, TypeOK, Stamps
<1>2. AllBehind'
  BY DEF AllBehind, Behind
<1>3. Greets'
  BY DEF PresenceInv, Greets
<1> QED
  BY <1>1, <1>2, <1>3 DEF PresenceInv

LEMMA SnapshotInv == ASSUME PresenceInv, Snapshot PROVE PresenceInv'
<1>1. mem' \in Fields /\ Behind(mem', accepted) /\ shown' \in [state : Stamps, connected : BOOLEAN]
  BY Held, BroadcastBehind DEF Snapshot
<1>2. UNCHANGED <<agent, wire, ws, joining, att, stored, accepted>>
  BY DEF Snapshot
<1>3. TypeOK'
  BY <1>1, <1>2 DEF PresenceInv, TypeOK
<1>4. AllBehind' /\ Greets'
  BY <1>1, <1>2 DEF PresenceInv, AllBehind, Behind, Greets
<1> QED
  BY <1>3, <1>4 DEF PresenceInv

LEMMA EvictInv == ASSUME PresenceInv, Evict PROVE PresenceInv'
<1>1. UNCHANGED <<agent, wire, ws, joining, att, stored, shown, accepted>> /\ mem' = stored
  BY DEF Evict
<1>2. TypeOK'
  BY <1>1 DEF PresenceInv, TypeOK
<1>3. AllBehind' /\ Greets'
  BY <1>1 DEF PresenceInv, AllBehind, Behind, Greets
<1> QED
  BY <1>2, <1>3 DEF PresenceInv

LEMMA CloseInv == ASSUME PresenceInv, NEW c \in Sockets, Close(c) PROVE PresenceInv'
<1>1. UNCHANGED <<agent, joining, att, accepted>>
  BY DEF Close
<1>2. wire' \in [Sockets -> Seq(Message)] /\ ws' \in [Sockets -> {"unused", "open", "closing", "gone"}]
  BY DEF Close, PresenceInv, TypeOK
<1>3. /\ mem' \in Fields /\ Behind(mem', accepted) /\ shown' \in [state : Stamps, connected : BOOLEAN]
      /\ stored' \in Fields /\ Behind(stored', accepted)
  <2>1. CASE UNCHANGED <<mem, stored, shown>>
    BY <2>1, Held DEF Behind
  <2>2. CASE stored' = [mem EXCEPT !.connected = FALSE] /\ Broadcast([mem EXCEPT !.connected = FALSE], {}, att)
    <3> DEFINE s == [mem EXCEPT !.connected = FALSE]
    <3>1. s \in Fields /\ s.boot = mem.boot /\ s.last = mem.last
      BY Held DEF Fields
    <3>2. Behind(s, accepted) /\ Broadcast(s, {}, att) /\ stored' = s
      BY <2>2, <3>1, Held DEF Behind
    <3> HIDE DEF s
    <3>3. mem' \in Fields /\ Behind(mem', accepted) /\ shown' \in [state : Stamps, connected : BOOLEAN]
      BY <3>1, <3>2, Held, BroadcastBehind
    <3> QED
      BY <3>1, <3>2, <3>3
  <2> QED
    BY <2>1, <2>2 DEF Close
<1>4. /\ \A d \in Sockets : Behind(att'[d], accepted') /\ (att'[d].boot = 0 => att'[d].last = -1)
      /\ att' \in [Sockets -> Attachment] /\ accepted' \in Nat
      /\ Behind(mem', accepted') /\ Behind(stored', accepted')
  BY <1>1, <1>3, Held
<1> QED
  BY <1>1, <1>2, <1>3, <1>4, ObjectInv

LEMMA Arrived ==
    ASSUME PresenceInv, NEW c \in Sockets, wire[c] # <<>>
    PROVE  Head(wire[c]) \in Message /\ Tail(wire[c]) \in Seq(Message)
BY DEF PresenceInv, TypeOK

LEMMA AllLater ==
    ASSUME PresenceInv, NEW n \in Nat, accepted <= n
    PROVE  /\ Behind(mem, n) /\ Behind(stored, n)
           /\ \A c \in Sockets : Behind(att[c], n) /\ (att[c].boot = 0 => att[c].last = -1)
<1>1. \A f \in Fields : f.boot \in Nat /\ f.last \in Int
  BY PresenceAssumption DEF Fields
<1>2. \A f \in Attachment : f.boot \in Nat /\ f.last \in Int
  BY PresenceAssumption DEF Attachment
<1>3. Behind(mem, n) /\ Behind(stored, n)
  BY <1>1, Held, BehindLater
<1>4. ASSUME NEW c \in Sockets PROVE Behind(att[c], n)
  <2>1. att[c] \in Attachment /\ Behind(att[c], accepted) /\ accepted \in Nat
    BY Held
  <2> QED
    BY <1>2, <2>1, BehindLater
<1> QED
  BY <1>3, <1>4, Held

\* What webSocketMessage writes before it looks at the type.
LEMMA TaggedBehind ==
    ASSUME PresenceInv, NEW c \in Sockets, NEW m \in Message, NEW n \in Nat, accepted <= n,
           Stamp(m) <= n,
           NEW t \in Stamps,
           NEW a, a = [att EXCEPT ![c].boot = m.boot, ![c].last = m.seq]
                  \/ a = [att EXCEPT ![c].boot = m.boot, ![c].last = m.seq, ![c].state = t]
    PROVE  /\ a \in [Sockets -> Attachment]
           /\ \A d \in Sockets : Behind(a[d], n) /\ (a[d].boot = 0 => a[d].last = -1)
<1>1. m.boot \in 0..MaxBoots /\ m.boot # 0 /\ m.seq \in -1..MaxSeq /\ Rank(m.boot, m.seq) <= n
  <2>1. m.boot \in 1..MaxBoots
    BY StampTyped
  <2> QED
    BY <2>1, StampTyped, PresenceAssumption
<1>2. att[c] \in Attachment
  BY Held
<1>3. PICK r \in Attachment : r.boot = m.boot /\ r.last = m.seq /\ a = [att EXCEPT ![c] = r]
  <2> DEFINE plain  == [att[c] EXCEPT !.boot = m.boot, !.last = m.seq]
             status == [att[c] EXCEPT !.boot = m.boot, !.last = m.seq, !.state = t]
  <2>1. plain \in Attachment /\ plain.boot = m.boot /\ plain.last = m.seq
    BY <1>1, <1>2 DEF Attachment
  <2>2. status \in Attachment /\ status.boot = m.boot /\ status.last = m.seq
    BY <1>1, <1>2 DEF Attachment
  <2>3. a = [att EXCEPT ![c] = plain] \/ a = [att EXCEPT ![c] = status]
    BY Held
  <2> HIDE DEF plain, status
  <2> QED
    BY <2>1, <2>2, <2>3
<1>4. a \in [Sockets -> Attachment] /\ a[c] = r /\ \A d \in Sockets \ {c} : a[d] = att[d]
  BY <1>3, Held
<1>5. Behind(r, n) /\ r.boot # 0
  BY <1>1, <1>3 DEF Behind
<1> QED
  BY <1>4, <1>5, AllLater

LEMMA ReceiveInv == ASSUME PresenceInv, NEW c \in Sockets, Receive(c) PROVE PresenceInv'
<1> DEFINE m == Head(wire[c])
           s == [mem EXCEPT !.boot = m.boot, !.last = m.seq]
           status == [s EXCEPT !.state = Stamp(m), !.connected = TRUE]
           tagged == [att EXCEPT ![c].boot = m.boot, ![c].last = m.seq]
<1>1. m \in Message /\ Tail(wire[c]) \in Seq(Message)
  BY Arrived DEF Receive
<1>2. UNCHANGED <<agent, ws, joining>> /\ wire' = [wire EXCEPT ![c] = Tail(wire[c])]
  BY DEF Receive
<1>3. wire' \in [Sockets -> Seq(Message)] /\ ws' \in [Sockets -> {"unused", "open", "closing", "gone"}]
  BY <1>1, <1>2 DEF PresenceInv, TypeOK
<1>4. CASE Duplicate(c, m)
  <2>1. UNCHANGED <<att, mem, stored, shown, accepted>>
    BY <1>4 DEF Receive
  <2> HIDE DEF m
  <2>2. TypeOK'
    BY <1>2, <1>3, <2>1 DEF PresenceInv, TypeOK
  <2>3. AllBehind' /\ Greets'
    BY <1>2, <2>1 DEF PresenceInv, AllBehind, Behind, Greets
  <2> QED
    BY <2>2, <2>3 DEF PresenceInv
<1>5. CASE ~Duplicate(c, m)
  <2>1. /\ accepted' = IF Stamp(m) > accepted THEN Stamp(m) ELSE accepted
        /\ \/ att' = tagged /\ mem' = s /\ UNCHANGED <<stored, shown>>
           \/ att' = tagged /\ stored' = s /\ Broadcast(s, Listed, att')
           \/ /\ att' = [tagged EXCEPT ![c].state = Stamp(m)]
              /\ stored' \in {stored, status}
              /\ Broadcast(status, Listed, att')
    BY <1>5 DEF Receive
  <2> HIDE DEF m
  <2>2. Stamp(m) \in Nat /\ Stamp(m) = Rank(m.boot, m.seq) /\ m.boot \in 0..MaxBoots /\ m.seq \in -1..MaxSeq
    BY <1>1, StampTyped
  <2>3. accepted' \in Nat /\ accepted <= accepted' /\ Stamp(m) <= accepted'
    BY <2>1, <2>2, Held
  <2>4. /\ s \in Fields /\ s.boot = m.boot /\ s.last = m.seq
        /\ status \in Fields /\ status.boot = m.boot /\ status.last = m.seq
    BY <2>2, Held DEF Fields, Stamps
  <2>5. Behind(s, accepted') /\ Behind(status, accepted')
    BY <2>2, <2>3, <2>4 DEF Behind
  <2> HIDE DEF s, status
  <2>6. att' = tagged \/ att' = [att EXCEPT ![c].boot = m.boot, ![c].last = m.seq, ![c].state = Stamp(m)]
    BY <2>1, Held
  <2>7. /\ att' \in [Sockets -> Attachment]
        /\ \A d \in Sockets : Behind(att'[d], accepted') /\ (att'[d].boot = 0 => att'[d].last = -1)
    BY <1>1, <2>2, <2>3, <2>6, TaggedBehind DEF Stamps
  <2> HIDE DEF tagged
  <2>8. /\ mem' \in Fields /\ Behind(mem', accepted') /\ shown' \in [state : Stamps, connected : BOOLEAN]
        /\ stored' \in Fields /\ Behind(stored', accepted')
    <3>1. CASE mem' = s /\ UNCHANGED <<stored, shown>>
      BY <2>3, <2>4, <2>5, <3>1, Held, AllLater
    <3>2. CASE stored' = s /\ Broadcast(s, Listed, att')
      <4>1. mem' \in Fields /\ Behind(mem', accepted') /\ shown' \in [state : Stamps, connected : BOOLEAN]
        BY <2>3, <2>4, <2>5, <2>7, <3>2, Held, BroadcastBehind
      <4> QED
        BY <2>4, <2>5, <3>2, <4>1
    <3>3. CASE stored' \in {stored, status} /\ Broadcast(status, Listed, att')
      <4>1. mem' \in Fields /\ Behind(mem', accepted') /\ shown' \in [state : Stamps, connected : BOOLEAN]
        BY <2>3, <2>4, <2>5, <2>7, <3>3, Held, BroadcastBehind
      <4>2. stored' \in Fields /\ Behind(stored', accepted')
        BY <2>3, <2>4, <2>5, <3>3, Held, AllLater
      <4> QED
        BY <4>1, <4>2
    <3> QED
      BY <2>1, <3>1, <3>2, <3>3
  <2> QED
    BY <1>2, <1>3, <2>3, <2>7, <2>8, ObjectInv
<1> QED
  BY <1>4, <1>5

-----------------------------------------------------------------------------
(* The theorems *)

LEMMA StepInv == PresenceInv /\ [Next]_vars => PresenceInv'
<1> SUFFICES ASSUME PresenceInv, [Next]_vars PROVE PresenceInv'
  OBVIOUS
<1>1. CASE UNCHANGED vars
  BY <1>1 DEF vars, PresenceInv, TypeOK, AllBehind, Behind, Greets
<1> QED
  BY <1>1, AcceptInv, JoinInv, ReceiveInv, CloseInv, SendInv, ClientEndsInv, SnapshotInv,
      EvictInv DEF Next

\* The inductive invariant: no record of the object claims more than was accepted.
THEOREM Invariance == Spec => []PresenceInv
BY InitInv, StepInv, PTL DEF Spec

\* Every reachable state is well typed.
THEOREM TypeCorrect == Spec => []TypeOK
<1>1. PresenceInv => TypeOK
  BY DEF PresenceInv
<1> QED
  BY <1>1, Invariance, PTL

\* Whatever sockets are replaced, closed late or listed first, and whenever the
\* object is evicted: a message newer than all that were accepted is accepted.
THEOREM FreshKept == Spec => []NothingFreshDropped
<1>1. ASSUME PresenceInv PROVE NothingFreshDropped
  <2> SUFFICES ASSUME NEW c \in Listed, wire[c] # <<>>, Duplicate(c, Head(wire[c]))
               PROVE  Stamp(Head(wire[c])) <= accepted
    BY DEF NothingFreshDropped
  <2> DEFINE m == Head(wire[c])
  <2>1. c \in Sockets
    BY DEF Listed
  <2>2. m \in Message
    BY <1>1, <2>1, Arrived
  <2> HIDE DEF m
  <2>3. m.boot \in Nat /\ m.boot # 0 /\ m.seq \in Int /\ -1 < m.seq
    BY <2>2, StampTyped, PresenceAssumption
  <2>4. Stamp(m) = Rank(m.boot, m.seq) /\ accepted \in Int
    BY <1>1, <2>2, StampTyped, Held
  <2>5. ASSUME mem.boot = m.boot /\ m.seq <= mem.last
        PROVE  Stamp(m) <= accepted
    <3>1. mem.last \in Int
      BY <1>1, Held, PresenceAssumption DEF Fields
    <3>2. Rank(m.boot, mem.last) <= accepted
      BY <1>1, <2>3, <2>5, Held DEF Behind
    <3> QED
      BY <2>3, <2>4, <2>5, <3>1, <3>2, RankReached
  <2>6. ASSUME m.seq <= (IF att[c].boot = m.boot THEN att[c].last ELSE -1)
        PROVE  Stamp(m) <= accepted
    <3>1. att[c] \in Attachment /\ Behind(att[c], accepted)
      BY <1>1, <2>1, Held
    <3>2. att[c].boot = m.boot /\ m.seq <= att[c].last /\ att[c].last \in Int
      BY <2>3, <2>6, <3>1, PresenceAssumption DEF Attachment
    <3>3. Rank(m.boot, att[c].last) <= accepted
      BY <2>3, <3>1, <3>2 DEF Behind
    <3> QED
      BY <2>3, <2>4, <3>2, <3>3, RankReached
  <2> QED
    BY <2>5, <2>6 DEF Duplicate, m
<1> QED
  BY <1>1, Invariance, PTL

-----------------------------------------------------------------------------
(* Traffic accounting *)

\* What the counter has gained on a baseline.
Grown(base, count) == IF base = Absent THEN 0 ELSE IF count >= base THEN count - base ELSE count

\* What a ledger would still bill, with what is billed, was served.
Covered(ledger) == \A n \in Nodes :
    IF ledger.frozen
      THEN used[n] + (IF ledger.id \in receipts THEN 0 ELSE ledger.traffic[n])
             + Grown(ledger.bytes[n], counter[n]) <= served[n]
      ELSE /\ used[n] + Grown(ledger.last[n], counter[n]) <= served[n]
           /\ used[n] + ledger.traffic[n] + Grown(ledger.bytes[n], counter[n]) <= served[n]

\* Only a report that was sent can have a receipt.
Named(ledger) ==
    /\ ledger.frozen => ledger.id # Absent
    /\ ~ledger.frozen => ledger.id \notin receipts

\* What is not yet applied is still held, in memory and in the state file; what
\* is answered, or was found applied, has its receipt.
Requested == \A h \in Handlers :
    /\ handler[h].stage = "free" => handler[h] = Traffic!FreeHandler
    /\ handler[h].stage # "free" => handler[h].id # Absent
    /\ handler[h].stage # "free" /\ handler[h].id \notin receipts
         => memory.id = handler[h].id /\ disk.id = handler[h].id
    /\ handler[h].stage = "answered" \/ handler[h].duplicate => handler[h].id \in receipts

\* A report is on disk before it is sent, and its answer is the one awaited.
Stage ==
    /\ at # "idle" => disk = memory /\ memory.id # Absent
    /\ IF at = "waiting"
         THEN /\ memory.frozen /\ sending \in Handlers
              /\ handler[sending].stage # "free" /\ handler[sending].id = memory.id
         ELSE sending = Absent

TrafficInv ==
    /\ Traffic!TypeOK /\ Requested /\ Traffic!OneContent /\ Stage
    /\ Named(memory) /\ Named(disk)
    /\ Covered(memory) /\ Covered(disk)
    /\ \A n \in Nodes : counter[n] <= served[n]

LEMMA TrafficInitial == ASSUME Traffic!TrafficAssumption, Traffic!Init PROVE TrafficInv
<1> USE DEF Traffic!Init, Traffic!Settled, Traffic!FreeHandler, Traffic!NoBytes, Traffic!NoDelta
<1>1. Traffic!TypeOK
  BY DEF Traffic!TrafficAssumption, Traffic!TypeOK, Traffic!Ledger, Traffic!Handler, Traffic!Partial,
      Traffic!Bytes
<1>2. Requested /\ Traffic!OneContent /\ Stage /\ Named(memory) /\ Named(disk)
  BY DEF Requested, Traffic!OneContent, Stage, Named, Traffic!TrafficAssumption
<1>3. Covered(memory) /\ Covered(disk)
  BY DEF Covered, Grown, Traffic!TrafficAssumption
<1> QED BY <1>1, <1>2, <1>3 DEF TrafficInv

LEMMA UnusedIsNew ==
    ASSUME Traffic!TrafficAssumption, Traffic!TypeOK, memory.id = Absent
    PROVE  Traffic!Unused \in Ids \ Traffic!Remembered
<1> DEFINE held == [h \in Handlers |-> handler[h].id]
<1>1. held \in [Handlers -> Ids \cup {Absent}] /\ disk.id \in Ids \cup {Absent}
  BY DEF Traffic!TypeOK, Traffic!Handler, Traffic!Ledger
<1>2. Ids \ ({disk.id} \cup {held[h] : h \in Handlers}) # {}
  BY <1>1 DEF Traffic!TrafficAssumption
<1>3. Absent \notin Ids
  BY DEF Traffic!TrafficAssumption
<1>4. \E i \in Ids : i \notin Traffic!Remembered
  BY <1>2, <1>3 DEF Traffic!Remembered
<1> QED BY <1>4 DEF Traffic!Unused

LEMMA BytesCount == ASSUME Traffic!TrafficAssumption PROVE Traffic!Bytes \subseteq Nat
BY DEF Traffic!TrafficAssumption, Traffic!Bytes

LEMMA GrownTyped ==
    ASSUME Traffic!TrafficAssumption, NEW b \in Traffic!Bytes \cup {Absent}, NEW c \in Traffic!Bytes
    PROVE  Grown(b, c) \in Traffic!Bytes /\ Grown(c, c) = 0 /\ Grown(Absent, c) = 0
BY DEF Traffic!TrafficAssumption, Traffic!Bytes, Grown

\* A measurement is covered by what was covered before it.
LEMMA TrafficMeasured ==
    ASSUME Traffic!TrafficAssumption, TrafficInv, NEW readable \in SUBSET listed, NEW id \in Ids,
           memory.frozen => id = memory.id
    PROVE  /\ Traffic!Measured(readable, id) \in Traffic!Ledger /\ Traffic!Measured(readable, id).id = id
           /\ Traffic!Measured(readable, id).frozen = memory.frozen
           /\ memory.frozen => Traffic!Measured(readable, id) = memory
           /\ Covered(Traffic!Measured(readable, id))
<1> DEFINE ledger == Traffic!Measured(readable, id)
<1> USE DEF TrafficInv
<1>1. CASE memory.frozen
  BY <1>1 DEF Traffic!Measured, Traffic!TypeOK
<1>2. CASE ~memory.frozen
  <2>1. ledger = [last |-> memory.last, id |-> id, bytes |-> Traffic!Readings(readable),
                  traffic |-> [n \in Nodes |-> IF n \in readable THEN Traffic!Delta(n) ELSE 0],
                  frozen |-> FALSE]
    BY <1>2 DEF Traffic!Measured
  <2>2. ASSUME NEW n \in Nodes
        PROVE  /\ memory.last[n] \in Traffic!Bytes \cup {Absent} /\ counter[n] \in Traffic!Bytes
               /\ Traffic!Delta(n) = Grown(memory.last[n], counter[n])
    BY DEF Traffic!TypeOK, Traffic!Ledger, Traffic!Partial, Traffic!Delta, Grown, Traffic!Bytes,
        Traffic!TrafficAssumption
  <2>3. \A n \in Nodes : Traffic!Delta(n) \in Traffic!Bytes /\ Traffic!Readings(readable)[n] \in Traffic!Bytes \cup {Absent}
    BY <2>2, GrownTyped DEF Traffic!Readings
  <2>4. 0 \in Traffic!Bytes
    BY DEF Traffic!Bytes, Traffic!TrafficAssumption
  <2>5. Traffic!Readings(readable) \in Traffic!Partial
    BY <2>3 DEF Traffic!Partial, Traffic!Readings
  <2>6. ledger \in Traffic!Ledger
    BY <2>1, <2>3, <2>4, <2>5 DEF Traffic!Ledger, Traffic!TypeOK
  <2>7. ASSUME NEW n \in Nodes
        PROVE  /\ used[n] + Grown(ledger.last[n], counter[n]) <= served[n]
               /\ used[n] + ledger.traffic[n] + Grown(ledger.bytes[n], counter[n]) <= served[n]
    <3>1. /\ used[n] \in Nat /\ served[n] \in Nat /\ Grown(memory.last[n], counter[n]) \in Nat
          /\ used[n] + Grown(memory.last[n], counter[n]) <= served[n]
          /\ Grown(counter[n], counter[n]) = 0 /\ Grown(Absent, counter[n]) = 0
      BY <1>2, <2>2, GrownTyped, BytesCount DEF Covered, Traffic!TypeOK
    <3>2. CASE n \in readable
      <4>1. ledger.traffic[n] = Grown(memory.last[n], counter[n]) /\ ledger.bytes[n] = counter[n]
        BY <2>1, <2>2, <3>2 DEF Traffic!Readings
      <4> QED BY <2>1, <3>1, <4>1
    <3>3. CASE n \notin readable
      <4>1. ledger.traffic[n] = 0 /\ ledger.bytes[n] \in {memory.last[n], Absent}
        BY <2>1, <3>3 DEF Traffic!Readings
      <4> QED BY <2>1, <3>1, <4>1
    <3> QED BY <3>2, <3>3
  <2>8. Covered(ledger)
    BY <2>1, <2>7 DEF Covered
  <2>9. ledger.id = id /\ ledger.frozen = FALSE
    BY <2>1
  <2> HIDE DEF ledger
  <2>10. memory.frozen = FALSE
    BY <1>2 DEF Traffic!TypeOK, Traffic!Ledger
  <2>11. /\ ledger \in Traffic!Ledger /\ ledger.id = id /\ ledger.frozen = memory.frozen
         /\ (memory.frozen => ledger = memory) /\ Covered(ledger)
    BY <1>2, <2>6, <2>8, <2>9, <2>10
  <2> QED BY <2>11 DEF ledger
<1> QED BY <1>1, <1>2

LEMMA TrafficMeasure ==
    ASSUME Traffic!TrafficAssumption, TrafficInv, Traffic!Measure
    PROVE  TrafficInv'
<1>1. PICK readable \in SUBSET listed, id \in Ids :
         /\ memory.id = Absent => id = Traffic!Unused
         /\ memory.id # Absent => id = memory.id
         /\ memory' = Traffic!Measured(readable, id)
         /\ receipts' = receipts \cap Traffic!Remembered
  <2>1. PICK readable \in SUBSET listed :
          /\ memory' = Traffic!Measured(readable, IF memory.id = Absent THEN Traffic!Unused ELSE memory.id)
          /\ receipts' = receipts \cap Traffic!Remembered
    BY DEF Traffic!Measure
  <2>2. (IF memory.id = Absent THEN Traffic!Unused ELSE memory.id) \in Ids
    BY UnusedIsNew DEF TrafficInv, Traffic!TypeOK, Traffic!Ledger
  <2> QED BY <2>1, <2>2
<1>2. /\ at = "idle" /\ UNCHANGED <<sending, handler, used, served, counter, listed>>
      /\ \/ disk' = memory' /\ at' = "measured"
         \/ disk' = disk /\ at' = "idle"
  BY DEF Traffic!Measure, Traffic!WriteOK, Traffic!WriteFails, Traffic!worldVars
<1>3. /\ memory' \in Traffic!Ledger /\ memory'.id = id /\ memory'.frozen = memory.frozen
      /\ memory.frozen => memory' = memory
      /\ Covered(Traffic!Measured(readable, id))
  <2>1. memory.frozen => id = memory.id
    BY <1>1 DEF TrafficInv, Named
  <2> QED BY <1>1, <2>1, TrafficMeasured
<1>4. /\ memory.id # Absent => (memory.id \in receipts' <=> memory.id \in receipts)
      /\ disk.id \in receipts' <=> disk.id \in receipts
      /\ \A h \in Handlers : handler[h].id \in receipts' <=> handler[h].id \in receipts
  BY <1>1 DEF Traffic!Remembered
<1>5. memory.id = Absent => id \notin receipts' /\ \A h \in Handlers : handler[h].id # id
  BY <1>1, UnusedIsNew DEF Traffic!Remembered, TrafficInv
<1>6. id # Absent /\ Absent \notin receipts
  BY DEF Traffic!TrafficAssumption, TrafficInv, Traffic!TypeOK
<1> USE DEF TrafficInv
<1>7. Traffic!TypeOK'
  BY <1>1, <1>2, <1>3 DEF Traffic!TypeOK
<1>8. Named(memory)' /\ Named(disk)'
  BY <1>1, <1>2, <1>3, <1>4, <1>5, <1>6 DEF Named
<1>9. Requested'
  BY <1>1, <1>2, <1>3, <1>4, <1>5, <1>6 DEF Requested
<1>10. Traffic!OneContent'
  BY <1>1, <1>2, <1>3, <1>4, <1>5, <1>6 DEF Traffic!OneContent, Requested, Named
<1>11. Stage'
  BY <1>1, <1>2, <1>3, <1>6 DEF Stage
<1>12. Covered(memory)'
  BY <1>1, <1>2, <1>3, <1>4, <1>5, <1>6 DEF Covered, Named
<1>13. Covered(disk)'
  BY <1>2, <1>4, <1>12 DEF Covered
<1> QED BY <1>2, <1>7, <1>8, <1>9, <1>10, <1>11, <1>12, <1>13

LEMMA TrafficFreeze ==
    ASSUME Traffic!TrafficAssumption, TrafficInv, Traffic!Freeze
    PROVE  TrafficInv'
<1>1. /\ at = "measured" /\ ~memory.frozen /\ disk = memory
      /\ UNCHANGED <<sending, handler, receipts, used, served, counter, listed>>
      /\ \/ disk' = memory' /\ at' = "measured"
         \/ disk' = disk /\ at' = "idle"
  BY DEF Traffic!Freeze, Traffic!WriteOK, Traffic!WriteFails, Traffic!cloudVars,
      Traffic!worldVars, TrafficInv,
      Stage
<1>2. /\ memory' \in Traffic!Ledger /\ memory'.frozen /\ memory'.id = memory.id /\ memory.id # Absent
      /\ memory'.traffic = memory.traffic /\ memory'.bytes = memory.bytes
  BY <1>1 DEF Traffic!Freeze, TrafficInv, Traffic!TypeOK, Traffic!Ledger, Stage
<1> USE DEF TrafficInv
<1>3. Traffic!TypeOK'
  BY <1>1, <1>2 DEF Traffic!TypeOK
<1>4. Named(memory)' /\ Named(disk)'
  BY <1>1, <1>2 DEF Named
<1>5. Requested' /\ Traffic!OneContent'
  BY <1>1, <1>2 DEF Requested, Traffic!OneContent
<1>6. Stage'
  BY <1>1, <1>2 DEF Stage
<1>7. Covered(memory)' /\ Covered(disk)'
  <2>1. memory.id \notin receipts
    BY <1>1 DEF Named
  <2> QED BY <1>1, <1>2, <2>1 DEF Covered
<1> QED BY <1>1, <1>3, <1>4, <1>5, <1>6, <1>7

LEMMA TrafficSend == ASSUME Traffic!TrafficAssumption, TrafficInv, Traffic!Send PROVE TrafficInv'
<1>1. PICK h \in Handlers :
        /\ handler[h].stage = "free"
        /\ handler' = [handler EXCEPT ![h] = [stage |-> "arriving", id |-> memory.id,
                          traffic |-> memory.traffic, duplicate |-> FALSE]]
        /\ sending' = h
  BY DEF Traffic!Send
<1>2. /\ at = "measured" /\ at' = "waiting" /\ memory.frozen /\ memory.id # Absent /\ disk = memory
      /\ UNCHANGED <<memory, disk, receipts, used, served, counter, listed>>
  BY DEF Traffic!Send, Traffic!worldVars, TrafficInv, Stage
<1> USE DEF TrafficInv
<1>3. /\ handler'[h].stage = "arriving" /\ handler'[h].id = memory.id
      /\ handler'[h].traffic = memory.traffic /\ handler'[h].duplicate = FALSE
      /\ \A g \in Handlers \ {h} : handler'[g] = handler[g]
  BY <1>1 DEF Traffic!TypeOK
<1>4. Traffic!TypeOK'
  BY <1>1, <1>2 DEF Traffic!TypeOK, Traffic!Handler, Traffic!Ledger
<1>5. Named(memory)' /\ Named(disk)' /\ Covered(memory)' /\ Covered(disk)'
  BY <1>2 DEF Named, Covered
<1>6. Requested' /\ Traffic!OneContent'
  BY <1>2, <1>3 DEF Requested, Traffic!OneContent
<1>7. Stage'
  BY <1>1, <1>2, <1>3 DEF Stage
<1> QED BY <1>2, <1>4, <1>5, <1>6, <1>7

LEMMA TrafficAnswered ==
    ASSUME Traffic!TrafficAssumption, TrafficInv, Traffic!Answered
    PROVE  TrafficInv'
<1> USE DEF TrafficInv
<1>1. /\ at = "waiting" /\ at' = "idle" /\ sending \in Handlers /\ sending' = Absent
      /\ memory.frozen /\ memory.id \in receipts /\ disk = memory
      /\ handler' = [handler EXCEPT ![sending] = Traffic!FreeHandler]
      /\ UNCHANGED <<receipts, used, served, counter, listed>>
      /\ disk' = memory' \/ disk' = disk
  BY DEF Traffic!Answered, Traffic!WriteOK, Traffic!WriteFails, Traffic!worldVars, Stage, Requested
<1>2. /\ memory'.last = memory.bytes /\ memory'.id = Absent /\ memory'.frozen = FALSE
      /\ memory'.bytes = Traffic!NoBytes /\ memory'.traffic = Traffic!NoDelta /\ memory' \in Traffic!Ledger
  BY DEF Traffic!Answered, Traffic!Settled, Traffic!TypeOK, Traffic!Ledger, Traffic!Partial,
      Traffic!NoBytes,
      Traffic!NoDelta, Traffic!Bytes, Traffic!TrafficAssumption
<1>3. handler'[sending] = Traffic!FreeHandler /\ \A g \in Handlers \ {sending} : handler'[g] = handler[g]
  BY <1>1 DEF Traffic!TypeOK
<1>4. Absent \notin receipts
  BY DEF Traffic!TypeOK, Traffic!TrafficAssumption
<1>5. Traffic!TypeOK'
  BY <1>1, <1>2 DEF Traffic!TypeOK, Traffic!Handler, Traffic!FreeHandler, Traffic!NoDelta,
      Traffic!Bytes,
      Traffic!TrafficAssumption
<1>6. Named(memory)' /\ Named(disk)'
  BY <1>1, <1>2, <1>4 DEF Named
<1>7. Requested'
  <2>1. \A g \in Handlers \ {sending} : handler[g].stage # "free" => handler[g].id \in receipts
    BY <1>1 DEF Requested
  <2>2. handler'[sending].stage = "free" /\ handler'[sending].duplicate = FALSE
    BY <1>3 DEF Traffic!FreeHandler
  <2>3. ASSUME NEW g \in Handlers
        PROVE  /\ handler'[g].stage = "free" => handler'[g] = Traffic!FreeHandler
               /\ handler'[g].stage # "free" => handler'[g].id \in receipts /\ handler'[g].id # Absent
               /\ handler'[g].stage = "answered" \/ handler'[g].duplicate => handler'[g].id \in receipts
    <3>1. CASE g = sending
      BY <1>3, <2>2, <3>1
    <3>2. CASE g # sending
      BY <1>3, <2>1, <3>2 DEF Requested
    <3> QED BY <3>1, <3>2
  <2>4. Traffic!FreeHandler' = Traffic!FreeHandler
    OBVIOUS
  <2> QED BY <1>1, <2>3, <2>4 DEF Requested
<1>8. Traffic!OneContent'
  BY <1>1, <1>2, <1>3 DEF Traffic!OneContent, Traffic!FreeHandler
<1>9. Stage'
  BY <1>1 DEF Stage
<1>10. Covered(memory)'
  <2>1. ASSUME NEW n \in Nodes
        PROVE  /\ used[n] + Grown(memory.bytes[n], counter[n]) <= served[n]
               /\ used[n] + 0 + 0 <= served[n]
    <3>1. memory.bytes[n] \in Traffic!Bytes \cup {Absent} /\ counter[n] \in Traffic!Bytes
      BY DEF Traffic!TypeOK, Traffic!Ledger, Traffic!Partial
    <3>2. Grown(memory.bytes[n], counter[n]) \in Nat /\ used[n] \in Nat /\ served[n] \in Nat
      <4>1. used[n] \in Traffic!Bytes /\ served[n] \in Traffic!Bytes
        BY DEF Traffic!TypeOK
      <4> QED BY <3>1, <4>1, GrownTyped, BytesCount
    <3> QED BY <1>1, <3>2 DEF Covered
  <2>2. \A n \in Nodes : memory'.traffic[n] = 0 /\ Grown(memory'.bytes[n], counter[n]) = 0
    BY <1>2 DEF Traffic!NoBytes, Traffic!NoDelta, Grown
  <2> QED BY <1>1, <1>2, <2>1, <2>2 DEF Covered
<1>11. Covered(disk)'
  BY <1>1, <1>10 DEF Covered
<1> QED BY <1>1, <1>5, <1>6, <1>7, <1>8, <1>9, <1>10, <1>11

LEMMA TrafficGoesOn ==
    ASSUME Traffic!TrafficAssumption, TrafficInv, Traffic!Display \/ Traffic!TimesOut \/ Traffic!Crash
    PROVE  TrafficInv'
<1> USE DEF TrafficInv
<1>1. /\ memory' \in {memory, disk} /\ at' = "idle" /\ sending' = Absent
      /\ UNCHANGED <<disk, handler, receipts, used, served, counter, listed>>
  BY DEF Traffic!Display, Traffic!TimesOut, Traffic!Crash, Traffic!cloudVars, Traffic!worldVars, Stage
<1>2. Traffic!TypeOK' /\ Stage'
  BY <1>1 DEF Traffic!TypeOK, Stage
<1>3. Requested' /\ Traffic!OneContent'
  BY <1>1 DEF Requested, Traffic!OneContent
<1>4. CASE memory' = memory
  BY <1>1, <1>2, <1>3, <1>4 DEF Named, Covered
<1>5. CASE memory' = disk
  BY <1>1, <1>2, <1>3, <1>5 DEF Named, Covered
<1> QED BY <1>1, <1>4, <1>5

-----------------------------------------------------------------------------

LEMMA TrafficHandled ==
    ASSUME Traffic!TrafficAssumption, TrafficInv, NEW h \in Handlers,
           Traffic!CloudCheck(h) \/ Traffic!CloudLost(h)
    PROVE  TrafficInv'
<1> USE DEF TrafficInv
<1>1. UNCHANGED <<receipts, used, memory, disk, at, sending, served, counter, listed>>
  BY DEF Traffic!CloudCheck, Traffic!CloudLost, Traffic!agentVars, Traffic!worldVars
<1>2. Named(memory)' /\ Named(disk)' /\ Covered(memory)' /\ Covered(disk)'
  BY <1>1 DEF Named, Covered
<1>3. CASE Traffic!CloudCheck(h)
  <2>1. /\ handler[h].stage # "free" /\ handler'[h].stage = "checked"
        /\ handler'[h].id = handler[h].id /\ handler'[h].traffic = handler[h].traffic
        /\ handler'[h].duplicate = (handler[h].id \in receipts)
        /\ \A g \in Handlers \ {h} : handler'[g] = handler[g]
        /\ handler' \in [Handlers -> Traffic!Handler]
    <3> DEFINE b == handler[h].id \in receipts
    <3>1. b \in BOOLEAN /\ handler' = [handler EXCEPT ![h].stage = "checked", ![h].duplicate = b]
      BY <1>3 DEF Traffic!CloudCheck
    <3>b. b = (handler[h].id \in receipts)
      OBVIOUS
    <3> HIDE DEF b
    <3>2. handler[h].stage # "free" /\ handler \in [Handlers -> Traffic!Handler] /\ handler[h] \in Traffic!Handler
      BY <1>3 DEF Traffic!CloudCheck, Traffic!TypeOK
    <3>3. /\ handler'[h] = [handler[h] EXCEPT !.stage = "checked", !.duplicate = b]
          /\ \A g \in Handlers \ {h} : handler'[g] = handler[g]
      BY <3>1, <3>2
    <3>4. handler' \in [Handlers -> Traffic!Handler]
      BY <3>1, <3>2 DEF Traffic!Handler
    <3>5. /\ handler'[h].stage = "checked" /\ handler'[h].duplicate = b
          /\ handler'[h].id = handler[h].id /\ handler'[h].traffic = handler[h].traffic
      BY <3>2, <3>3 DEF Traffic!Handler
    <3> QED BY <3>2, <3>3, <3>4, <3>5, <3>b
  <2>2. Traffic!TypeOK' /\ Requested' /\ Traffic!OneContent' /\ Stage'
    <3>1. Traffic!TypeOK' /\ Stage'
      BY <1>1, <2>1 DEF Traffic!TypeOK, Stage
    <3>2. Requested'
      BY <1>1, <2>1 DEF Requested
    <3>3. Traffic!OneContent'
      BY <1>1, <2>1 DEF Traffic!OneContent
    <3> QED BY <3>1, <3>2, <3>3
  <2> QED BY <1>1, <1>2, <2>2
<1>4. CASE Traffic!CloudLost(h)
  <2>1. /\ h # sending /\ handler'[h] = Traffic!FreeHandler
        /\ \A g \in Handlers \ {h} : handler'[g] = handler[g]
        /\ handler' \in [Handlers -> Traffic!Handler]
    BY <1>4 DEF Traffic!CloudLost, Traffic!TypeOK, Traffic!Handler, Traffic!FreeHandler,
        Traffic!NoDelta,
        Traffic!Bytes, Traffic!TrafficAssumption
  <2>2. Traffic!TypeOK' /\ Requested' /\ Traffic!OneContent' /\ Stage'
    BY <1>1, <2>1 DEF Traffic!TypeOK, Requested, Traffic!OneContent, Stage, Traffic!FreeHandler
  <2> QED BY <1>1, <1>2, <2>2
<1> QED BY <1>3, <1>4

LEMMA TrafficApplied ==
    ASSUME Traffic!TrafficAssumption, TrafficInv, NEW h \in Handlers, Traffic!CloudApply(h)
    PROVE  TrafficInv'
<1> USE DEF TrafficInv
<1>1. /\ UNCHANGED <<memory, disk, at, sending, served, counter, listed>>
      /\ handler[h].stage = "checked" /\ handler'[h].stage = "answered"
      /\ handler'[h].id = handler[h].id /\ handler'[h].traffic = handler[h].traffic
      /\ handler'[h].duplicate = handler[h].duplicate
      /\ \A g \in Handlers \ {h} : handler'[g] = handler[g]
      /\ handler' \in [Handlers -> Traffic!Handler]
  BY DEF Traffic!CloudApply, Traffic!agentVars, Traffic!worldVars, Traffic!TypeOK, Traffic!Handler
<1>2. Traffic!OneContent' /\ Stage'
  BY <1>1 DEF Traffic!OneContent, Stage
<1>3. CASE handler[h].id \in receipts
  <2>1. UNCHANGED <<receipts, used>>
    BY <1>3 DEF Traffic!CloudApply
  <2>2. Traffic!TypeOK' /\ Requested' /\ Named(memory)' /\ Named(disk)'
    BY <1>1, <1>3, <2>1 DEF Traffic!TypeOK, Requested, Named
  <2>3. Covered(memory)' /\ Covered(disk)'
    BY <1>1, <2>1 DEF Covered
  <2> QED BY <1>1, <1>2, <2>2, <2>3
<1>4. CASE handler[h].id \notin receipts
  <2>1. /\ memory.id = handler[h].id /\ disk.id = handler[h].id /\ handler[h].id # Absent
        /\ memory.frozen /\ memory.traffic = handler[h].traffic
        /\ disk.frozen /\ disk.traffic = handler[h].traffic
    BY <1>1, <1>4 DEF Requested, Traffic!OneContent
  <2>2. /\ used' = [n \in Nodes |-> used[n] + handler[h].traffic[n]]
        /\ receipts' = receipts \cup {handler[h].id}
    BY <1>1, <1>4 DEF Traffic!CloudApply, Requested
  <2>3. ASSUME NEW n \in Nodes
        PROVE  /\ used'[n] + Grown(memory.bytes[n], counter[n]) <= served[n]
               /\ used'[n] + Grown(disk.bytes[n], counter[n]) <= served[n]
               /\ used'[n] \in Traffic!Bytes
    <3>1. /\ used[n] \in Nat /\ served[n] \in Traffic!Bytes /\ handler[h].traffic[n] \in Nat
          /\ Grown(memory.bytes[n], counter[n]) \in Nat /\ Grown(disk.bytes[n], counter[n]) \in Nat
      <4>1. memory.bytes[n] \in Traffic!Bytes \cup {Absent} /\ disk.bytes[n] \in Traffic!Bytes \cup {Absent} /\ counter[n] \in Traffic!Bytes
        BY DEF Traffic!TypeOK, Traffic!Ledger, Traffic!Partial
      <4>2. used[n] \in Traffic!Bytes /\ served[n] \in Traffic!Bytes /\ handler[h].traffic[n] \in Traffic!Bytes
        BY DEF Traffic!TypeOK, Traffic!Handler
      <4> QED BY <4>1, <4>2, GrownTyped, BytesCount
    <3>2. /\ used[n] + handler[h].traffic[n] + Grown(memory.bytes[n], counter[n]) <= served[n]
          /\ used[n] + handler[h].traffic[n] + Grown(disk.bytes[n], counter[n]) <= served[n]
      BY <1>4, <2>1 DEF Covered
    <3> QED BY <2>2, <3>1, <3>2 DEF Traffic!Bytes, Traffic!TrafficAssumption
  <2>4. Traffic!TypeOK'
    BY <1>1, <2>1, <2>2, <2>3 DEF Traffic!TypeOK, Traffic!Ledger
  <2>5. Covered(memory)' /\ Covered(disk)'
    <3>1. ASSUME NEW n \in Nodes
          PROVE  /\ used'[n] + 0 + Grown(memory.bytes[n], counter[n]) <= served[n]
                 /\ used'[n] + 0 + Grown(disk.bytes[n], counter[n]) <= served[n]
      BY <2>3 DEF Traffic!Bytes
    <3>2. memory.id \in receipts' /\ disk.id \in receipts'
      BY <2>1, <2>2
    <3> QED BY <1>1, <2>1, <3>1, <3>2 DEF Covered
  <2>6. Requested' /\ Named(memory)' /\ Named(disk)'
    BY <1>1, <2>1, <2>2 DEF Requested, Named
  <2> QED BY <1>1, <1>2, <2>4, <2>5, <2>6
<1> QED BY <1>3, <1>4

-----------------------------------------------------------------------------

LEMMA TrafficWorld ==
    ASSUME Traffic!TrafficAssumption, TrafficInv,
           (\E n \in Nodes : Traffic!Serve(n)) \/ Traffic!SingboxRestarts \/ Traffic!Relist
    PROVE  TrafficInv'
<1> USE DEF TrafficInv
<1>1. UNCHANGED <<memory, disk, at, sending, handler, receipts, used>>
  BY DEF Traffic!Serve, Traffic!SingboxRestarts, Traffic!Relist, Traffic!agentVars, Traffic!cloudVars
<1>2. Requested' /\ Traffic!OneContent' /\ Stage' /\ Named(memory)' /\ Named(disk)'
  BY <1>1 DEF Requested, Traffic!OneContent, Stage, Named
<1>3. /\ counter' \in [Nodes -> Traffic!Bytes] /\ served' \in [Nodes -> Traffic!Bytes] /\ listed' \subseteq Nodes
      /\ \A n \in Nodes : \/ served'[n] = served[n] /\ counter'[n] \in {counter[n], 0}
                          \/ served'[n] = served[n] + 1 /\ counter'[n] = counter[n] + 1
  <2>1. CASE \E n \in Nodes : Traffic!Serve(n)
    <3>1. PICK n \in Nodes : Traffic!Serve(n)
      BY <2>1
    <3>2. served[n] \in Traffic!Bytes /\ counter[n] \in Traffic!Bytes /\ served[n] < MaxBytes /\ counter[n] <= served[n]
      BY <3>1 DEF Traffic!Serve, Traffic!TypeOK
    <3>3. served[n] + 1 \in Traffic!Bytes /\ counter[n] + 1 \in Traffic!Bytes
      BY <3>2 DEF Traffic!Bytes, Traffic!TrafficAssumption
    <3> QED BY <3>1, <3>3 DEF Traffic!Serve, Traffic!TypeOK
  <2>2. CASE Traffic!SingboxRestarts \/ Traffic!Relist
    BY <2>2 DEF Traffic!SingboxRestarts, Traffic!Relist, Traffic!agentVars, Traffic!cloudVars,
        Traffic!TypeOK,
        Traffic!Bytes, Traffic!TrafficAssumption
  <2> QED BY <2>1, <2>2
<1>4. Traffic!TypeOK'
  BY <1>1, <1>3 DEF Traffic!TypeOK
<1>5. ASSUME NEW n \in Nodes, NEW b \in Traffic!Bytes \cup {Absent}
      PROVE  /\ Grown(b, counter[n]) \in Nat /\ Grown(b, counter'[n]) \in Nat
             /\ Grown(b, counter'[n]) + served[n] <= Grown(b, counter[n]) + served'[n]
  <2>1. served[n] \in Traffic!Bytes /\ counter[n] \in Traffic!Bytes /\ served'[n] \in Traffic!Bytes /\ counter'[n] \in Traffic!Bytes
    BY <1>3 DEF Traffic!TypeOK
  <2> QED BY <1>3, <2>1 DEF Grown, Traffic!Bytes, Traffic!TrafficAssumption
<1>6. ASSUME NEW ledger \in Traffic!Ledger, NEW n \in Nodes
      PROVE  /\ used[n] \in Nat /\ served[n] \in Nat /\ served'[n] \in Nat
             /\ ledger.traffic[n] \in Nat
             /\ Grown(ledger.last[n], counter[n]) \in Nat /\ Grown(ledger.last[n], counter'[n]) \in Nat
             /\ Grown(ledger.bytes[n], counter[n]) \in Nat /\ Grown(ledger.bytes[n], counter'[n]) \in Nat
             /\ Grown(ledger.last[n], counter'[n]) + served[n] <= Grown(ledger.last[n], counter[n]) + served'[n]
             /\ Grown(ledger.bytes[n], counter'[n]) + served[n] <= Grown(ledger.bytes[n], counter[n]) + served'[n]
  <2>1. ledger.last[n] \in Traffic!Bytes \cup {Absent} /\ ledger.bytes[n] \in Traffic!Bytes \cup {Absent}
    BY DEF Traffic!Ledger, Traffic!Partial
  <2>2. used[n] \in Traffic!Bytes /\ served[n] \in Traffic!Bytes /\ served'[n] \in Traffic!Bytes /\ ledger.traffic[n] \in Traffic!Bytes
    BY <1>3 DEF Traffic!TypeOK, Traffic!Ledger
  <2>3. used[n] \in Nat /\ served[n] \in Nat /\ served'[n] \in Nat /\ ledger.traffic[n] \in Nat
    BY <2>2 DEF Traffic!Bytes
  <2> QED BY <1>5, <2>1, <2>3
<1>7. Covered(memory)'
  BY <1>1, <1>6 DEF Covered, Traffic!TypeOK
<1>8. Covered(disk)'
  BY <1>1, <1>6 DEF Covered, Traffic!TypeOK
<1>9. \A n \in Nodes : counter'[n] <= served'[n]
  BY <1>3 DEF Traffic!TypeOK, Traffic!Bytes
<1> QED BY <1>2, <1>4, <1>7, <1>8, <1>9

LEMMA TrafficNext ==
    ASSUME Traffic!TrafficAssumption, TrafficInv, [Traffic!Next]_Traffic!vars
    PROVE  TrafficInv'
<1>1. CASE UNCHANGED Traffic!vars
  BY <1>1 DEF Traffic!vars, TrafficInv, Traffic!TypeOK, Requested, Traffic!OneContent, Stage,
      Named, Covered
<1> QED BY <1>1, TrafficMeasure, TrafficFreeze, TrafficSend, TrafficAnswered, TrafficGoesOn,
           TrafficHandled, TrafficApplied, TrafficWorld DEF Traffic!Next

\* Every reachable state of the agent and of the cloud's books is well typed.
THEOREM TrafficTypeCorrect == Traffic!Spec => []Traffic!TypeOK
<1> USE NodeAssumption DEF NodeAssumption
<1>1. Traffic!Init => TrafficInv
  BY TrafficInitial
<1>2. TrafficInv /\ [Traffic!Next]_Traffic!vars => TrafficInv'
  BY TrafficNext
<1>3. TrafficInv => Traffic!TypeOK
  BY DEF TrafficInv
<1> QED BY <1>1, <1>2, <1>3, PTL DEF Traffic!Spec

\* No byte is billed twice and no report_id stands for two sets of deltas,
\* whatever is lost, repeated or late, and wherever the agent, sing-box or the
\* disk fails.
THEOREM TrafficBilledOnce == Traffic!Spec => []BilledOnce
<1> USE NodeAssumption DEF NodeAssumption
<1>1. Traffic!Init => TrafficInv
  BY TrafficInitial
<1>2. TrafficInv /\ [Traffic!Next]_Traffic!vars => TrafficInv'
  BY TrafficNext
<1>3. TrafficInv => BilledOnce
  <2>1. ASSUME TrafficInv, NEW n \in Nodes PROVE used[n] <= served[n]
    <3>1. used[n] \in Traffic!Bytes /\ served[n] \in Traffic!Bytes /\ counter[n] \in Traffic!Bytes /\ memory.traffic[n] \in Traffic!Bytes
      BY <2>1 DEF TrafficInv, Traffic!TypeOK, Traffic!Ledger
    <3>2. Grown(memory.bytes[n], counter[n]) \in Traffic!Bytes /\ Grown(memory.last[n], counter[n]) \in Traffic!Bytes
      <4>1. memory.last[n] \in Traffic!Bytes \cup {Absent} /\ memory.bytes[n] \in Traffic!Bytes \cup {Absent}
        BY <2>1 DEF TrafficInv, Traffic!TypeOK, Traffic!Ledger, Traffic!Partial
      <4> QED BY <3>1, <4>1, GrownTyped
    <3> QED BY <2>1, <3>1, <3>2 DEF TrafficInv, Covered, Traffic!Bytes
  <2>2. TrafficInv => DOMAIN used = Nodes
    BY DEF TrafficInv, Traffic!TypeOK
  <2> QED BY <2>1, <2>2 DEF BilledOnce, Traffic!BilledOnce, Traffic!NeverOverbilled, TrafficInv
<1> QED BY <1>1, <1>2, <1>3, PTL DEF Traffic!Spec

-----------------------------------------------------------------------------
\* Without restarts of sing-box and changes of the list, what is billed is what
\* a ledger starts from and, once applied, its report; its report ends where the
\* next begins.
Exact(ledger) == \A n \in Nodes :
    /\ ledger.last[n] \in Nat /\ ledger.last[n] <= counter[n]
    /\ ledger.id # Absent => /\ ledger.bytes[n] = ledger.last[n] + ledger.traffic[n]
                           /\ ledger.bytes[n] <= counter[n]
    /\ used[n] = ledger.last[n]
                   + (IF ledger.frozen /\ ledger.id \in receipts THEN ledger.traffic[n] ELSE 0)

GrowsOnly == TrafficFaults \cap {"reset", "delist"} = {}

ExactInv == listed = Nodes /\ Exact(memory) /\ Exact(disk)

LEMMA ExactMeasured ==
    ASSUME Traffic!TrafficAssumption, TrafficInv, ExactInv, NEW readable \in SUBSET listed,
           NEW id \in Ids,
           ~memory.frozen, NEW n \in Nodes
    PROVE  LET ledger == Traffic!Measured(readable, id)
           IN  /\ ledger.last = memory.last /\ ledger.frozen = FALSE
               /\ ledger.bytes[n] = ledger.last[n] + ledger.traffic[n]
               /\ ledger.bytes[n] <= counter[n]
<1>1. /\ memory.last[n] \in Nat /\ counter[n] \in Nat /\ memory.last[n] <= counter[n]
      /\ memory.last[n] # Absent
  BY DEF ExactInv, Exact, TrafficInv, Traffic!TypeOK, Traffic!Bytes, Traffic!TrafficAssumption
<1>2. Traffic!Delta(n) = counter[n] - memory.last[n]
  BY <1>1 DEF Traffic!Delta
<1>3. /\ Traffic!Measured(readable, id).last = memory.last /\ Traffic!Measured(readable, id).frozen = FALSE
      /\ Traffic!Measured(readable, id).bytes[n] = (IF n \in readable THEN counter[n] ELSE memory.last[n])
      /\ Traffic!Measured(readable, id).traffic[n] = (IF n \in readable THEN Traffic!Delta(n) ELSE 0)
  BY DEF Traffic!Measured, Traffic!Readings, ExactInv
<1> QED BY <1>1, <1>2, <1>3

LEMMA ExactNext ==
    ASSUME Traffic!TrafficAssumption, GrowsOnly, TrafficInv, TrafficInv', ExactInv,
           [Traffic!Next]_Traffic!vars
    PROVE  ExactInv'
<1> USE DEF ExactInv
<1>1. CASE Traffic!Measure
  <2>1. PICK readable \in SUBSET listed, id \in Ids :
          /\ memory.id # Absent => id = memory.id
          /\ memory' = Traffic!Measured(readable, id)
          /\ receipts' = receipts \cap Traffic!Remembered
    <3>1. PICK readable \in SUBSET listed :
            /\ memory' = Traffic!Measured(readable, IF memory.id = Absent THEN Traffic!Unused ELSE memory.id)
            /\ receipts' = receipts \cap Traffic!Remembered
      BY <1>1 DEF Traffic!Measure
    <3>2. (IF memory.id = Absent THEN Traffic!Unused ELSE memory.id) \in Ids
      BY UnusedIsNew DEF TrafficInv, Traffic!TypeOK, Traffic!Ledger
    <3> QED BY <3>1, <3>2
  <2>2. UNCHANGED <<used, counter, listed>> /\ (disk' = memory' \/ disk' = disk)
    BY <1>1 DEF Traffic!Measure, Traffic!WriteOK, Traffic!WriteFails, Traffic!worldVars
  <2>3. /\ memory.id \in receipts' <=> memory.id \in receipts
        /\ disk.id \in receipts' <=> disk.id \in receipts
    BY <2>1 DEF Traffic!Remembered
  <2>4. CASE memory.frozen
    <3>1. memory' = memory
      BY <2>1, <2>4 DEF Traffic!Measured
    <3> QED BY <2>2, <2>3, <3>1 DEF Exact
  <2>5. CASE ~memory.frozen
    <3>1. \A n \in Nodes : /\ memory'.last = memory.last /\ memory'.frozen = FALSE
                           /\ memory'.bytes[n] = memory'.last[n] + memory'.traffic[n]
                           /\ memory'.bytes[n] <= counter[n]
      BY <2>1, <2>5, ExactMeasured
    <3>2. Exact(memory)'
      BY <2>2, <2>5, <3>1 DEF Exact
    <3>3. Exact(disk)'
      BY <2>2, <2>3, <3>2 DEF Exact
    <3> QED BY <2>2, <3>2, <3>3
  <2> QED BY <2>4, <2>5
<1>2. CASE Traffic!Freeze
  <2>1. /\ ~memory.frozen /\ disk = memory /\ memory.id \notin receipts
        /\ UNCHANGED <<used, counter, listed, receipts>> /\ (disk' = memory' \/ disk' = disk)
    BY <1>2 DEF Traffic!Freeze, Traffic!WriteOK, Traffic!WriteFails, Traffic!worldVars,
        Traffic!cloudVars,
        TrafficInv, Stage, Named
  <2>2. /\ memory'.id = memory.id /\ memory'.last = memory.last
        /\ memory'.traffic = memory.traffic /\ memory'.bytes = memory.bytes
    BY <1>2 DEF Traffic!Freeze, TrafficInv, Traffic!TypeOK, Traffic!Ledger
  <2> QED BY <2>1, <2>2 DEF Exact
<1>3. CASE Traffic!Answered
  <2>1. /\ memory.frozen /\ memory.id \in receipts /\ memory.id # Absent
        /\ memory'.last = memory.bytes /\ memory'.id = Absent /\ memory'.frozen = FALSE
        /\ UNCHANGED <<used, counter, listed, receipts>> /\ (disk' = memory' \/ disk' = disk)
    BY <1>3 DEF Traffic!Answered, Traffic!Settled, Traffic!WriteOK, Traffic!WriteFails,
        Traffic!worldVars,
        TrafficInv, Stage, Requested
  <2>2. ASSUME NEW n \in Nodes
        PROVE  /\ memory.bytes[n] \in Nat /\ memory.bytes[n] <= counter[n]
               /\ used[n] = memory.bytes[n] + 0
    <3>1. memory.traffic[n] \in Nat
      BY DEF TrafficInv, Traffic!TypeOK, Traffic!Ledger, Traffic!Bytes
    <3> QED BY <2>1, <3>1 DEF Exact
  <2>3. Exact(memory)'
    BY <2>1, <2>2 DEF Exact
  <2>4. Exact(disk)'
    BY <2>1, <2>3 DEF Exact
  <2> QED BY <2>1, <2>3, <2>4
<1>4. CASE Traffic!Send \/ Traffic!Display \/ Traffic!TimesOut \/ Traffic!Crash
  <2>1. /\ memory' \in {memory, disk}
        /\ UNCHANGED <<disk, used, counter, listed, receipts>>
    BY <1>4 DEF Traffic!Send, Traffic!Display, Traffic!TimesOut, Traffic!Crash, Traffic!worldVars,
        Traffic!cloudVars
  <2>2. CASE memory' = memory
    BY <2>1, <2>2 DEF Exact
  <2>3. CASE memory' = disk
    BY <2>1, <2>3 DEF Exact
  <2> QED BY <2>1, <2>2, <2>3
<1>5. ASSUME NEW h \in Handlers, Traffic!CloudCheck(h) \/ Traffic!CloudLost(h) PROVE ExactInv'
  BY <1>5 DEF Traffic!CloudCheck, Traffic!CloudLost, Traffic!agentVars, Traffic!worldVars, Exact
<1>6. ASSUME NEW h \in Handlers, Traffic!CloudApply(h) PROVE ExactInv'
  <2>1. UNCHANGED <<memory, disk, counter, listed>>
    BY <1>6 DEF Traffic!CloudApply, Traffic!agentVars, Traffic!worldVars
  <2>2. CASE UNCHANGED <<receipts, used>>
    BY <2>1, <2>2 DEF Exact
  <2>3. CASE handler[h].id \notin receipts /\ ~UNCHANGED <<receipts, used>>
    <3>1. /\ used' = [n \in Nodes |-> used[n] + handler[h].traffic[n]]
          /\ receipts' = receipts \cup {handler[h].id} /\ handler[h].stage = "checked"
      BY <1>6, <2>3 DEF Traffic!CloudApply
    <3>2. /\ memory.id = handler[h].id /\ disk.id = handler[h].id /\ handler[h].id # Absent
          /\ memory.frozen /\ memory.traffic = handler[h].traffic
          /\ disk.frozen /\ disk.traffic = handler[h].traffic
      BY <2>3, <3>1 DEF TrafficInv, Requested, Traffic!OneContent
    <3> QED BY <2>1, <2>3, <3>1, <3>2 DEF Exact
  <2> QED BY <1>6, <2>2, <2>3 DEF Traffic!CloudApply
<1>7. ASSUME NEW m \in Nodes, Traffic!Serve(m) PROVE ExactInv'
  <2>1. UNCHANGED <<memory, disk, used, receipts, listed>> /\ counter' = [counter EXCEPT ![m] = @ + 1]
    BY <1>7 DEF Traffic!Serve, Traffic!agentVars, Traffic!cloudVars
  <2>2. \A n \in Nodes : counter[n] \in Nat /\ counter'[n] \in Nat /\ counter[n] <= counter'[n]
    BY <2>1 DEF TrafficInv, Traffic!TypeOK, Traffic!Bytes
  <2>3. ASSUME NEW n \in Nodes, NEW b \in Nat, b <= counter[n] PROVE b <= counter'[n]
    BY <2>2, <2>3
  <2>4. \A n \in Nodes : /\ memory.id # Absent => memory.bytes[n] \in Nat
                         /\ disk.id # Absent => disk.bytes[n] \in Nat
    BY DEF TrafficInv, Traffic!TypeOK, Traffic!Ledger, Traffic!Bytes, Exact
  <2> QED BY <2>1, <2>3, <2>4 DEF Exact
<1>8. ~Traffic!SingboxRestarts /\ ~Traffic!Relist
  BY DEF GrowsOnly, Traffic!SingboxRestarts, Traffic!Relist
<1>9. CASE UNCHANGED Traffic!vars
  BY <1>9 DEF Traffic!vars, Exact
<1> QED BY <1>1, <1>2, <1>3, <1>4, <1>5, <1>6, <1>7, <1>8, <1>9 DEF Traffic!Next

\* While counters only grow, the state file accounts for every byte billed: a
\* crash costs a repetition, never the bytes of a report.
THEOREM TrafficNothingLost == ASSUME GrowsOnly PROVE Traffic!Spec => []NothingLost
<1> USE NodeAssumption DEF NodeAssumption
<1>1. Traffic!Init => TrafficInv /\ ExactInv
  BY TrafficInitial DEF Traffic!Init, ExactInv, Exact, Traffic!Settled, Traffic!NoBytes,
      Traffic!NoDelta
<1>2. TrafficInv /\ ExactInv /\ [Traffic!Next]_Traffic!vars => (TrafficInv /\ ExactInv)'
  BY TrafficNext, ExactNext
<1>3. ExactInv => NothingLost
  BY DEF ExactInv, Exact, NothingLost, Traffic!NothingLost
<1> QED BY <1>1, <1>2, <1>3, PTL DEF Traffic!Spec

-----------------------------------------------------------------------------
(* Egress changes *)

\* A successful result is not newer than the state file, and agrees with it.
Vouched(r) == r.success => /\ r.revision <= state.revision
                           /\ r.revision = state.revision => r.mode = state.mode

\* What a pass has read: the cloud is not ahead of the file, and until the pass
\* saves a result the file still says what it said.
Read ==
    /\ loop.egress \in Egress!CloudRec /\ loop.local \in Egress!StateRec
    /\ loop.egress.appliedRevision <= loop.local.revision
    /\ loop.egress.appliedRevision = loop.local.revision => loop.egress.applied = loop.local.mode
    /\ loop.local.revision = state.revision /\ loop.local.mode = state.mode
    /\ Egress!At("fetched") => loop.local.pending = state.pending

\* What a pass builds: the operator's choice, which is new to the state file,
\* or the mode of the state file.
Builds ==
    /\ loop.change => loop.egress.revision > state.revision
    /\ loop.rollback => loop.change
    /\ loop.runtime = IF loop.change /\ ~loop.rollback THEN loop.egress.desired ELSE state.mode
    /\ Egress!At("built") /\ loop.runtime \in Egress!Verified => Egress!Passes(active, loop.runtime)

EgressInv ==
    /\ Egress!TypeOK /\ Egress!CloudFollowsAgent
    /\ \A r \in late : Vouched(r)
    /\ state.pending # Absent => Vouched(state.pending)
    /\ Egress!At("post") => state.pending # Absent
    /\ loop.pc \notin {"idle", "post"} => Read
    /\ loop.pc \in {"fetched", "decide"} => ~loop.change /\ ~loop.rollback
    /\ loop.pc \in {"build", "replaced", "verify", "built", "failed"} => Builds

LEMMA EgressInitial == ASSUME Egress!EgressAssumption, Egress!Init PROVE EgressInv
BY DEF Egress!Init, Egress!EgressAssumption, EgressInv, Egress!TypeOK, Egress!CloudFollowsAgent,
    Vouched,
    Egress!At, Egress!IdleAgent, Egress!CloudRec,
       Egress!StateRec, Egress!AgentRec, Egress!Steps, Egress!Revisions

\* What the loop read is what it still has.
LEMMA AppliedIsKept ==
    ASSUME Egress!EgressAssumption, EgressInv, loop.pc \notin {"idle", "post"}
    PROVE  Egress!AppliedRevision = state.revision /\ Egress!AppliedMode = state.mode
<1>1. Read
  BY DEF EgressInv
<1>2. loop.local.revision \in Nat /\ loop.egress.appliedRevision \in Nat
  BY <1>1 DEF Read, Egress!CloudRec, Egress!StateRec, Egress!Revisions, Egress!EgressAssumption
<1> QED BY <1>1, <1>2 DEF Read, Egress!AppliedRevision, Egress!AppliedMode

\* An answer of the cloud keeps what it shows behind the state file.
LEMMA CloudAnswers ==
    ASSUME Egress!EgressAssumption, EgressInv, NEW r \in Egress!Result, Vouched(r)
    PROVE  /\ Egress!Handled(r) \in Egress!CloudRec
           /\ Egress!Handled(r).status = "applied" =>
                Egress!Handled(r).appliedRevision = Egress!Handled(r).revision /\ Egress!Handled(r).applied = Egress!Handled(r).desired
           /\ Egress!Handled(r).appliedRevision <= state.revision
           /\ Egress!Handled(r).appliedRevision = state.revision => Egress!Handled(r).applied = state.mode
BY DEF EgressInv, Egress!TypeOK, Egress!CloudFollowsAgent, Vouched, Egress!Handled, Egress!Accepts,
    Egress!CloudRec, Egress!Result

LEMMA EgressCloud ==
    ASSUME Egress!EgressAssumption, EgressInv,
           Egress!Choose \/ Egress!ArrivesLate \/ Egress!IsLost \/ Egress!DelayEnds
    PROVE  EgressInv'
<1> USE DEF EgressInv
<1>1. CASE Egress!Choose
  <2>1. PICK m \in Modes : cloud' = [cloud EXCEPT !.desired = m, !.revision = @ + 1, !.status = "pending"]
    BY <1>1 DEF Egress!Choose
  <2>2. cloud.revision + 1 \in Egress!Revisions
    <3>1. cloud.revision \in Egress!Revisions /\ cloud.revision < MaxRevision
      BY <1>1 DEF Egress!Choose, Egress!TypeOK, Egress!CloudRec
    <3> QED BY <3>1 DEF Egress!Revisions, Egress!EgressAssumption
  <2>3. /\ cloud' \in Egress!CloudRec /\ cloud'.status = "pending"
        /\ cloud'.applied = cloud.applied /\ cloud'.appliedRevision = cloud.appliedRevision
    BY <2>1, <2>2 DEF Egress!TypeOK, Egress!CloudRec
  <2>4. UNCHANGED <<state, conf, active, loop, late, outcome>>
    BY <1>1 DEF Egress!Choose
  <2>5. Egress!TypeOK' /\ Egress!CloudFollowsAgent'
    BY <2>3, <2>4 DEF Egress!TypeOK, Egress!CloudFollowsAgent
  <2>6. (Read => Read') /\ (Builds => Builds')
    BY <2>4 DEF Read, Builds, Egress!At
  <2> QED BY <2>4, <2>5, <2>6 DEF Vouched, Egress!At
<1>2. CASE Egress!ArrivesLate
  <2>1. PICK r \in late : cloud' = Egress!Handled(r) /\ late' = late \ {r}
    BY <1>2 DEF Egress!ArrivesLate
  <2>2. r \in Egress!Result
    BY DEF Egress!TypeOK
  <2>3. /\ cloud' \in Egress!CloudRec
        /\ cloud'.status = "applied" =>
             cloud'.appliedRevision = cloud'.revision /\ cloud'.applied = cloud'.desired
        /\ cloud'.appliedRevision <= state.revision
        /\ cloud'.appliedRevision = state.revision => cloud'.applied = state.mode
    BY <2>1, <2>2, CloudAnswers
  <2> QED BY <1>2, <2>1, <2>3 DEF Egress!ArrivesLate, Egress!TypeOK, Egress!CloudFollowsAgent,
              Vouched, Read,
      Builds, Egress!At
<1>3. CASE Egress!IsLost
  BY <1>3 DEF Egress!IsLost, Egress!TypeOK, Egress!CloudFollowsAgent, Vouched, Read, Builds, Egress!At
<1>4. CASE Egress!DelayEnds
  <2>1. /\ state' \in Egress!StateRec /\ state'.mode = state.mode /\ state'.revision = state.revision
        /\ state'.pending = state.pending
    BY <1>4 DEF Egress!DelayEnds, Egress!TypeOK, Egress!StateRec
  <2> QED BY <1>4, <2>1 DEF Egress!DelayEnds, Egress!TypeOK, Egress!CloudFollowsAgent, Vouched,
              Read, Builds,
      Egress!At
<1> QED BY <1>1, <1>2, <1>3, <1>4

\* Posting a result changes the cloud or what is under way.
LEMMA EgressPost ==
    ASSUME Egress!EgressAssumption, EgressInv, NEW r \in Egress!Result, Vouched(r),
           NEW answer \in Egress!Answers, Egress!Post(r, answer), state'.mode = state.mode,
           state'.revision = state.revision
    PROVE  /\ cloud' \in Egress!CloudRec /\ late' \subseteq Egress!Result
           /\ Egress!CloudFollowsAgent' /\ \A s \in late' : Vouched(s)'
<1> USE DEF EgressInv
<1>1. CASE cloud' = Egress!Handled(r) /\ UNCHANGED late
  <2>1. /\ cloud' \in Egress!CloudRec
        /\ cloud'.status = "applied" =>
             cloud'.appliedRevision = cloud'.revision /\ cloud'.applied = cloud'.desired
        /\ cloud'.appliedRevision <= state.revision
        /\ cloud'.appliedRevision = state.revision => cloud'.applied = state.mode
    BY <1>1, CloudAnswers
  <2> QED BY <1>1, <2>1 DEF Egress!CloudFollowsAgent, Vouched, Egress!TypeOK
<1>2. CASE late' = late \cup {r} /\ UNCHANGED cloud
  BY <1>2 DEF Egress!CloudFollowsAgent, Vouched, Egress!TypeOK
<1> QED BY <1>1, <1>2 DEF Egress!Post

LEMMA EgressFetch ==
    ASSUME Egress!EgressAssumption, EgressInv, Egress!Fetch \/ Egress!PostPending \/ Egress!Decide
    PROVE  EgressInv'
<1> USE DEF EgressInv
<1>1. CASE Egress!Fetch
  <2>1. /\ loop'.pc = "fetched" /\ loop'.egress = cloud /\ loop'.local = state
        /\ loop'.change = FALSE /\ loop'.rollback = FALSE /\ loop' \in Egress!AgentRec
    BY <1>1 DEF Egress!Fetch, Egress!IdleAgent, Egress!TypeOK, Egress!AgentRec, Egress!Steps,
        Egress!EgressAssumption
  <2> QED BY <1>1, <2>1 DEF Egress!Fetch, Egress!TypeOK, Egress!CloudFollowsAgent, Vouched, Read,
              Egress!At
<1>2. CASE Egress!PostPending
  <2>1. /\ Egress!At("fetched") /\ Read /\ loop.local.pending = state.pending
        /\ ~loop.change /\ ~loop.rollback /\ UNCHANGED <<conf, active, outcome>>
    BY <1>2 DEF Egress!PostPending, Egress!At, Read
  <2>2. /\ loop'.pc = "decide" /\ loop' \in Egress!AgentRec /\ loop'.egress = loop.egress
        /\ loop'.local = loop.local /\ loop'.change = loop.change /\ loop'.rollback = loop.rollback
    BY <1>2 DEF Egress!PostPending, Egress!Goto, Egress!TypeOK, Egress!AgentRec, Egress!Steps
  <2>3. /\ state' \in Egress!StateRec /\ state'.mode = state.mode /\ state'.revision = state.revision
        /\ state'.pending \in {state.pending, Absent}
    BY <1>2 DEF Egress!PostPending, Egress!TypeOK, Egress!StateRec
  <2>4. /\ cloud' \in Egress!CloudRec /\ late' \subseteq Egress!Result
        /\ Egress!CloudFollowsAgent' /\ \A s \in late' : Vouched(s)'
    <3>1. CASE state.pending = Absent
      BY <1>2, <2>1, <2>3, <3>1 DEF Egress!PostPending, Egress!TypeOK, Egress!CloudFollowsAgent,
          Vouched
    <3>2. CASE state.pending # Absent
      <4>1. PICK answer \in Egress!Answers : Egress!Post(state.pending, answer)
        BY <1>2, <2>1, <3>2 DEF Egress!PostPending
      <4>2. state.pending \in Egress!Result /\ Vouched(state.pending)
        BY <3>2 DEF Egress!TypeOK, Egress!StateRec
      <4> QED BY <2>3, <4>1, <4>2, EgressPost
    <3> QED BY <3>1, <3>2
  <2>5. (state.pending # Absent => Vouched(state.pending))'
    BY <2>3 DEF Vouched
  <2>6. Read'
    BY <2>1, <2>2, <2>3 DEF Read, Egress!At
  <2> QED BY <2>1, <2>2, <2>3, <2>4, <2>5, <2>6 DEF Egress!TypeOK, Egress!At
<1>3. CASE Egress!Decide
  <2>1. Read /\ Egress!AppliedRevision = state.revision /\ Egress!AppliedMode = state.mode /\ ~loop.rollback
    BY <1>3, AppliedIsKept DEF Egress!Decide, Egress!At
  <2> DEFINE change == loop.egress.revision > Egress!AppliedRevision /\ ~Egress!Waits
             runtime == IF change THEN loop.egress.desired ELSE Egress!AppliedMode
  <2>2. loop' = [loop EXCEPT !.pc = "build", !.change = change, !.runtime = runtime]
    BY <1>3 DEF Egress!Decide
  <2>3. change \in BOOLEAN /\ runtime \in Modes /\ (change => loop.egress.revision > state.revision)
    BY <2>1 DEF Read, Egress!CloudRec, Egress!StateRec, Egress!TypeOK
  <2>4. runtime = IF change THEN loop.egress.desired ELSE state.mode
    BY <2>1
  <2> HIDE DEF change, runtime
  <2>5. /\ loop'.pc = "build" /\ loop'.change = change /\ loop'.runtime = runtime
        /\ loop'.egress = loop.egress /\ loop'.local = loop.local
        /\ loop'.rollback = loop.rollback /\ loop' \in Egress!AgentRec
    BY <2>2, <2>3 DEF Egress!TypeOK, Egress!AgentRec, Egress!Steps
  <2>6. UNCHANGED <<cloud, state, conf, active, late, outcome>>
    BY <1>3 DEF Egress!Decide
  <2>7. Read'
    BY <2>1, <2>5, <2>6 DEF Read, Egress!At
  <2>8. Builds'
    BY <2>1, <2>3, <2>4, <2>5, <2>6 DEF Builds, Egress!At
  <2> QED BY <2>5, <2>6, <2>7, <2>8 DEF Egress!TypeOK, Egress!CloudFollowsAgent, Vouched, Egress!At
<1> QED BY <1>1, <1>2, <1>3

\* A step of a build: only the mode that runs, the file and the place change.
LEMMA EgressBuilds ==
    ASSUME Egress!EgressAssumption, EgressInv,
           \/ Egress!Replace \/ Egress!Rejected \/ Egress!StartSame \/ Egress!StartSameFails \/ Egress!Restart \/ Egress!RestartFails
           \/ Egress!RestartExpires \/ Egress!Verify \/ Egress!VerifyFails
    PROVE  EgressInv'
<1> USE DEF EgressInv
<1>1. /\ loop.pc \in {"build", "replaced", "verify"} /\ Read /\ Builds
      /\ UNCHANGED <<cloud, state, late, outcome>>
  BY DEF Egress!Replace, Egress!Rejected, Egress!StartSame, Egress!StartSameFails, Egress!Restart,
      Egress!RestartFails, Egress!RestartExpires, Egress!Verify,
         Egress!VerifyFails, Egress!At
<1>2. loop.runtime \in Modes /\ loop.old \in Modes /\ conf \in Modes
  BY <1>1 DEF Builds, Read, Egress!CloudRec, Egress!StateRec, Egress!TypeOK, Egress!AgentRec
<1>3. /\ loop'.pc \in {"replaced", "verify", "built", "failed"} /\ loop' \in Egress!AgentRec
      /\ loop'.egress = loop.egress /\ loop'.local = loop.local /\ loop'.change = loop.change
      /\ loop'.runtime = loop.runtime /\ loop'.rollback = loop.rollback
  BY <1>2 DEF Egress!Replace, Egress!Rejected, Egress!StartSame, Egress!StartSameFails,
      Egress!Restart,
      Egress!RestartFails, Egress!RestartExpires, Egress!Verify,
         Egress!VerifyFails, Egress!Goto, Egress!TypeOK, Egress!AgentRec, Egress!Steps
<1>4. conf' \in Modes /\ active' \in Modes \cup {Down}
  BY <1>2 DEF Egress!Replace, Egress!Rejected, Egress!StartSame, Egress!StartSameFails,
      Egress!Restart,
      Egress!RestartFails, Egress!RestartExpires, Egress!Verify,
         Egress!VerifyFails, Egress!TypeOK
<1>5. loop'.pc = "built" /\ loop.runtime \in Egress!Verified => Egress!Passes(active', loop.runtime)
  BY <1>1 DEF Egress!Replace, Egress!Rejected, Egress!StartSame, Egress!StartSameFails,
      Egress!Restart,
      Egress!RestartFails, Egress!RestartExpires, Egress!Verify,
         Egress!VerifyFails, Egress!Goto, Egress!At, Egress!TypeOK, Egress!AgentRec, Egress!Steps
<1>6. Read' /\ Builds'
  BY <1>1, <1>3, <1>5 DEF Read, Builds, Egress!At
<1> QED BY <1>1, <1>3, <1>4, <1>6 DEF Egress!TypeOK, Egress!CloudFollowsAgent, Vouched, Egress!At

LEMMA EgressSaves ==
    ASSUME Egress!EgressAssumption, EgressInv,
           Egress!Keep \/ Egress!SaveSuccess \/ Egress!Rollback \/ Egress!SaveFailure \/ Egress!PostResult \/ Egress!Crash
    PROVE  EgressInv'
<1> USE DEF EgressInv
<1>1. CASE Egress!Keep \/ Egress!Crash
  <2>1. /\ loop' = Egress!IdleAgent /\ outcome' \in {"kept", "failed", "none"}
        /\ UNCHANGED <<cloud, state, conf, active, late>>
    BY <1>1 DEF Egress!Keep, Egress!Crash
  <2> QED BY <2>1 DEF Egress!IdleAgent, Egress!TypeOK, Egress!AgentRec, Egress!Steps,
              Egress!EgressAssumption,
      Egress!CloudFollowsAgent, Vouched, Egress!At
<1>2. CASE Egress!SaveSuccess
  <2>1. /\ Read /\ Builds /\ loop.change /\ ~loop.rollback /\ UNCHANGED <<cloud, conf, active, late>>
        /\ outcome' = "applied"
    BY <1>2 DEF Egress!SaveSuccess, Egress!At
  <2>2. /\ loop'.pc = "post" /\ loop' \in Egress!AgentRec
    BY <1>2 DEF Egress!SaveSuccess, Egress!Goto, Egress!TypeOK, Egress!AgentRec, Egress!Steps
  <2>3. /\ state' \in Egress!StateRec /\ state'.mode = loop.egress.desired
        /\ state'.revision = loop.egress.revision /\ state'.pending = Egress!Success
        /\ Egress!Success \in Egress!Result /\ Egress!Success.mode = loop.egress.desired
        /\ Egress!Success.revision = loop.egress.revision
    BY <1>2, <2>1 DEF Egress!SaveSuccess, Egress!Success, Egress!Result, Egress!StateRec, Read,
        Egress!CloudRec
  <2>4. state.revision < state'.revision /\ state.revision \in Nat /\ state'.revision \in Nat
    BY <2>1, <2>3 DEF Builds, Egress!TypeOK, Egress!StateRec, Egress!Revisions,
        Egress!EgressAssumption
  <2>5. \A n \in Nat : n <= state.revision => n < state'.revision
    BY <2>4
  <2>6. cloud.appliedRevision \in Nat /\ \A r \in late : r.revision \in Nat
    BY DEF Egress!TypeOK, Egress!CloudRec, Egress!Result, Egress!Revisions, Egress!EgressAssumption
  <2>7. Egress!CloudFollowsAgent' /\ \A r \in late : Vouched(r)'
    BY <2>1, <2>4, <2>5, <2>6 DEF Egress!CloudFollowsAgent, Vouched
  <2>8. state'.pending # Absent /\ Vouched(state.pending)'
    <3>1. Egress!Success # Absent /\ state'.revision <= state'.revision
      BY <2>3, <2>4 DEF Egress!Result, Egress!Revisions, Egress!EgressAssumption
    <3> QED BY <2>3, <3>1 DEF Vouched
  <2> QED BY <2>1, <2>2, <2>3, <2>7, <2>8 DEF Egress!TypeOK, Egress!At
<1>3. CASE Egress!Rollback
  <2>1. /\ Read /\ Builds /\ loop.change /\ UNCHANGED <<cloud, state, conf, active, late, outcome>>
        /\ Egress!AppliedMode = state.mode
    BY <1>3, AppliedIsKept DEF Egress!Rollback, Egress!At
  <2>2. /\ loop'.pc = "build" /\ loop' \in Egress!AgentRec /\ loop'.egress = loop.egress
        /\ loop'.local = loop.local /\ loop'.change = loop.change /\ loop'.rollback = TRUE
        /\ loop'.runtime = state.mode
    BY <1>3, <2>1 DEF Egress!Rollback, Egress!TypeOK, Egress!AgentRec, Egress!Steps, Egress!StateRec
  <2>3. Read' /\ Builds'
    BY <2>1, <2>2 DEF Read, Builds, Egress!At
  <2> QED BY <2>1, <2>2, <2>3 DEF Egress!TypeOK, Egress!CloudFollowsAgent, Vouched, Egress!At
<1>4. CASE Egress!SaveFailure
  <2>1. /\ Read /\ Egress!AppliedMode = state.mode /\ Egress!AppliedRevision = state.revision
        /\ UNCHANGED <<cloud, conf, active, late>> /\ outcome' \in {"rolledback", "failed"}
    BY <1>4, AppliedIsKept DEF Egress!SaveFailure, Egress!At
  <2>2. /\ loop'.pc = "post" /\ loop' \in Egress!AgentRec
    BY <1>4 DEF Egress!SaveFailure, Egress!Goto, Egress!TypeOK, Egress!AgentRec, Egress!Steps
  <2>3. /\ state' \in Egress!StateRec /\ state'.mode = state.mode /\ state'.revision = state.revision
        /\ state'.pending = Egress!Failure /\ Egress!Failure.success = FALSE /\ Egress!Failure \in Egress!Result
    BY <1>4, <2>1 DEF Egress!SaveFailure, Egress!Failure, Egress!Result, Egress!StateRec, Read,
        Egress!CloudRec, Egress!TypeOK
  <2>4. Egress!Failure # Absent
    BY <2>3 DEF Egress!Result, Egress!Revisions, Egress!EgressAssumption
  <2> QED BY <2>1, <2>2, <2>3, <2>4 DEF Egress!TypeOK, Egress!CloudFollowsAgent, Vouched, Egress!At
<1>5. CASE Egress!PostResult
  <2>1. /\ state.pending \in Egress!Result /\ Vouched(state.pending) /\ loop' = Egress!IdleAgent
        /\ UNCHANGED <<conf, active, outcome>>
    BY <1>5 DEF Egress!PostResult, Egress!At, Egress!TypeOK, Egress!StateRec
  <2>2. PICK answer \in Egress!Answers : Egress!Post(state.pending, answer)
    BY <1>5 DEF Egress!PostResult
  <2>3. /\ state' \in Egress!StateRec /\ state'.mode = state.mode /\ state'.revision = state.revision
        /\ state'.pending \in {state.pending, Absent}
    BY <1>5 DEF Egress!PostResult, Egress!TypeOK, Egress!StateRec
  <2>4. /\ cloud' \in Egress!CloudRec /\ late' \subseteq Egress!Result
        /\ Egress!CloudFollowsAgent' /\ \A s \in late' : Vouched(s)'
    BY <2>1, <2>2, <2>3, EgressPost
  <2>5. (state.pending # Absent => Vouched(state.pending))'
    BY <2>1, <2>3 DEF Vouched
  <2> QED BY <2>1, <2>3, <2>4, <2>5 DEF Egress!IdleAgent, Egress!TypeOK, Egress!AgentRec,
              Egress!Steps,
      Egress!EgressAssumption, Egress!At
<1> QED BY <1>1, <1>2, <1>3, <1>4, <1>5

LEMMA EgressNext ==
    ASSUME Egress!EgressAssumption, EgressInv, [Egress!Next]_Egress!vars
    PROVE  EgressInv'
<1>1. CASE UNCHANGED Egress!vars
  BY <1>1 DEF Egress!vars, EgressInv, Egress!TypeOK, Egress!CloudFollowsAgent, Vouched, Read,
      Builds, Egress!At
<1> QED BY <1>1, EgressCloud, EgressFetch, EgressBuilds, EgressSaves DEF Egress!Next, Egress!Loop

\* Every reachable state of the egress loop and of the cloud's record is well typed.
THEOREM EgressTypeCorrect == Egress!Spec => []Egress!TypeOK
<1> USE NodeAssumption DEF NodeAssumption
<1>1. Egress!Init => EgressInv
  BY EgressInitial
<1>2. EgressInv /\ [Egress!Next]_Egress!vars => EgressInv'
  BY EgressNext
<1>3. EgressInv => Egress!TypeOK
  BY DEF EgressInv
<1> QED BY <1>1, <1>2, <1>3, PTL DEF Egress!Spec

\* What the cloud shows as applied, the loop has applied, however results are
\* repeated, lost or late and wherever a pass is cut off.
THEOREM EgressFollowed == Egress!Spec => []CloudFollowsAgent
<1> USE NodeAssumption DEF NodeAssumption
<1>1. Egress!Init => EgressInv
  BY EgressInitial
<1>2. EgressInv /\ [Egress!Next]_Egress!vars => EgressInv'
  BY EgressNext
<1>3. EgressInv => CloudFollowsAgent
  BY DEF EgressInv, CloudFollowsAgent
<1> QED BY <1>1, <1>2, <1>3, PTL DEF Egress!Spec

\* What sing-box runs passes the check of a verified mode that becomes the mode
\* of a new revision, also after a pass that was cut off.
LEMMA EgressVerifies ==
    ASSUME Egress!EgressAssumption, EgressInv, Egress!Next, state'.revision > state.revision
    PROVE  state'.mode \in Egress!Verified => Egress!Passes(active, state'.mode)
<1> USE DEF EgressInv
<1>1. state.revision \in Nat
  BY DEF Egress!TypeOK, Egress!StateRec, Egress!Revisions, Egress!EgressAssumption
<1>2. ~UNCHANGED state
  BY <1>1
<1>3. state'.revision # state.revision
  BY <1>1
<1>4. CASE Egress!SaveSuccess
  <2>1. Builds /\ state'.mode = loop.egress.desired /\ loop.change /\ ~loop.rollback /\ Egress!At("built")
    BY <1>4 DEF Egress!SaveSuccess, Egress!At
  <2> QED BY <2>1 DEF Builds
<1>5. CASE Egress!SaveFailure
  BY <1>3, <1>5, AppliedIsKept DEF Egress!SaveFailure, Egress!At
<1>6. CASE Egress!PostPending \/ Egress!PostResult \/ Egress!DelayEnds
  BY <1>3, <1>6 DEF Egress!PostPending, Egress!PostResult, Egress!DelayEnds, Egress!TypeOK,
      Egress!StateRec
<1> QED BY <1>2, <1>4, <1>5, <1>6 DEF Egress!Next, Egress!Loop, Egress!Choose, Egress!ArrivesLate,
    Egress!IsLost, Egress!Crash, Egress!Fetch, Egress!Decide, Egress!Replace,
    Egress!Rejected, Egress!StartSame, Egress!StartSameFails, Egress!Restart, Egress!RestartFails,
    Egress!RestartExpires, Egress!Verify, Egress!VerifyFails,
    Egress!Keep, Egress!Rollback

\* A mode with a data-plane check is recorded as applied only while sing-box runs
\* with a mode that passes this check.
THEOREM EgressVerified == Egress!Spec => VerifiedWhenSaved
<1> USE NodeAssumption DEF NodeAssumption
<1>1. Egress!Init => EgressInv
  BY EgressInitial
<1>2. EgressInv /\ [Egress!Next]_Egress!vars => EgressInv'
  BY EgressNext
<1>3. EgressInv /\ [Egress!Next]_Egress!vars
        => [(state'.revision > state.revision /\ state'.mode \in Egress!Verified)
              => Egress!Passes(active, state'.mode)]_Egress!vars
  BY EgressVerifies
<1> QED BY <1>1, <1>2, <1>3, PTL DEF Egress!Spec, VerifiedWhenSaved, Egress!VerifiedWhenSaved

-----------------------------------------------------------------------------
\* Where a pass cannot be cut off between the new file and the restart, sing-box
\* runs the file or nothing; a build that reached the check has started it.
Runs ==
    /\ ~Egress!At("replaced") => active \in {conf, Down}
    /\ Egress!At("replaced") => conf = loop.runtime
    /\ loop.pc \in {"verify", "built"} => active = conf /\ conf = loop.runtime
    /\ loop.pc \in {"idle", "post"} /\ outcome \in {"kept", "applied", "rolledback"}
         => active = state.mode

LEMMA EgressRuns ==
    ASSUME Egress!EgressAssumption, "crashMid" \notin EgressFaults, EgressInv, Runs,
           [Egress!Next]_Egress!vars
    PROVE  Runs'
<1> USE DEF EgressInv
<1>1. conf # Down /\ loop.old # Down
  BY DEF Egress!TypeOK, Egress!AgentRec, Egress!EgressAssumption
<1>2. ASSUME UNCHANGED <<conf, active, loop, outcome>>, state'.mode = state.mode PROVE Runs'
  BY <1>2 DEF Runs, Egress!At
<1>3. CASE Egress!Choose \/ Egress!ArrivesLate \/ Egress!IsLost \/ Egress!DelayEnds \/ UNCHANGED Egress!vars
  <2>1. UNCHANGED <<conf, active, loop, outcome>> /\ state'.mode = state.mode
    BY <1>3 DEF Egress!Choose, Egress!ArrivesLate, Egress!IsLost, Egress!DelayEnds, Egress!vars,
        Egress!TypeOK,
        Egress!StateRec
  <2> QED BY <1>2, <2>1
<1>4. CASE Egress!Fetch \/ Egress!PostPending \/ Egress!Decide \/ Egress!Rollback
  <2>1. /\ ~Egress!At("replaced") /\ UNCHANGED <<conf, active>>
        /\ loop'.pc \in {"fetched", "decide", "build"}
    BY <1>4 DEF Egress!Fetch, Egress!PostPending, Egress!Decide, Egress!Rollback, Egress!Goto,
        Egress!At,
        Egress!IdleAgent, Egress!TypeOK, Egress!AgentRec
  <2> QED BY <2>1 DEF Runs, Egress!At
<1>5. CASE Egress!Replace
  <2>1. loop'.pc = "replaced" /\ loop'.runtime = loop.runtime /\ conf' = loop.runtime
    BY <1>5 DEF Egress!Replace, Egress!TypeOK, Egress!AgentRec
  <2> QED BY <2>1 DEF Runs, Egress!At
<1>6. CASE Egress!Rejected \/ Egress!StartSameFails \/ Egress!VerifyFails
  <2>1. /\ ~Egress!At("replaced") /\ UNCHANGED <<conf, active>> /\ loop'.pc = "failed"
    BY <1>6 DEF Egress!Rejected, Egress!StartSameFails, Egress!VerifyFails, Egress!Goto, Egress!At,
        Egress!TypeOK, Egress!AgentRec
  <2> QED BY <2>1 DEF Runs, Egress!At
<1>7. CASE Egress!StartSame \/ Egress!Restart \/ Egress!Verify
  <2>1. /\ loop'.pc \in {"verify", "built"} /\ loop'.runtime = loop.runtime
        /\ conf' = conf /\ active' = conf /\ conf = loop.runtime
    BY <1>1, <1>7 DEF Egress!StartSame, Egress!Restart, Egress!Verify, Egress!Goto, Egress!At,
        Egress!TypeOK,
        Egress!AgentRec, Runs
  <2> QED BY <2>1 DEF Runs, Egress!At
<1>8. CASE Egress!RestartFails \/ Egress!RestartExpires
  <2>1. loop'.pc = "failed" /\ active' \in {conf', Down}
    BY <1>8 DEF Egress!RestartFails, Egress!RestartExpires, Egress!Goto, Egress!TypeOK,
        Egress!AgentRec
  <2> QED BY <2>1 DEF Runs, Egress!At
<1>9. CASE Egress!Keep \/ Egress!SaveSuccess \/ Egress!SaveFailure
  <2>1. /\ loop.pc \in {"built", "failed"} /\ UNCHANGED <<conf, active>> /\ Builds
        /\ loop'.pc \in {"idle", "post"} /\ ~Egress!At("replaced")
        /\ outcome' \in {"kept", "applied", "rolledback"} => Egress!At("built")
    BY <1>9 DEF Egress!Keep, Egress!SaveSuccess, Egress!SaveFailure, Egress!Goto, Egress!At,
        Egress!IdleAgent,
        Egress!TypeOK, Egress!AgentRec
  <2>2. loop.runtime = state'.mode
    BY <1>9, <2>1, AppliedIsKept DEF Egress!Keep, Egress!SaveSuccess, Egress!SaveFailure,
        Egress!At, Builds
  <2> QED BY <2>1, <2>2 DEF Runs, Egress!At
<1>10. CASE Egress!PostResult
  <2>1. /\ Egress!At("post") /\ loop'.pc = "idle" /\ UNCHANGED <<conf, active, outcome>>
        /\ state'.mode = state.mode
    BY <1>10 DEF Egress!PostResult, Egress!IdleAgent, Egress!TypeOK, Egress!StateRec
  <2> QED BY <2>1 DEF Runs, Egress!At
<1>11. CASE Egress!Crash
  BY <1>11 DEF Egress!Crash, Egress!IdleAgent, Runs, Egress!At
<1> QED BY <1>3, <1>4, <1>5, <1>6, <1>7, <1>8, <1>9, <1>10, <1>11 DEF Egress!Next, Egress!Loop

\* A pass that reports success leaves its mode running.
THEOREM EgressReported ==
    ASSUME "crashMid" \notin EgressFaults
    PROVE  Egress!Spec => []ReportedModeRuns
<1> USE NodeAssumption DEF NodeAssumption
<1>1. Egress!Init => EgressInv /\ Runs
  BY EgressInitial DEF Egress!Init, Runs, Egress!At, Egress!IdleAgent
<1>2. EgressInv /\ Runs /\ [Egress!Next]_Egress!vars => (EgressInv /\ Runs)'
  BY EgressNext, EgressRuns
<1>3. Runs => ReportedModeRuns
  BY DEF Runs, ReportedModeRuns, Egress!ReportedModeRuns, Egress!At
<1> QED BY <1>1, <1>2, <1>3, PTL DEF Egress!Spec

-----------------------------------------------------------------------------
(* The refresh of bridge nodes *)

\* While the refresher sleeps, the entry it stored is as old as its sleep is long.
Rested ==
    /\ refresh \in {"sleep", "fetch", "test"} /\ rest \in Nat /\ age \in Nat
    /\ ~raised
    /\ refresh = "sleep" => age + rest <= Interval

LEMMA BridgeRested ==
    ASSUME Bridge!BridgeAssumption, "raise" \notin BridgeFaults, Rested, [Bridge!Next]_Bridge!vars
    PROVE  Rested'
<1> USE DEF Rested
<1>1. CASE Bridge!Fetch \/ Bridge!GiveUp \/ Bridge!Wake
  BY <1>1 DEF Bridge!Fetch, Bridge!GiveUp, Bridge!Wake
<1>2. CASE Bridge!Store
  BY <1>2 DEF Bridge!Store, Bridge!BridgeAssumption
<1>3. CASE Bridge!Tick
  <2>1. /\ rest' = IF rest > 0 THEN rest - 1 ELSE 0
        /\ age' = IF age < MaxAge THEN age + 1 ELSE age
        /\ refresh = "sleep" => rest > 0
        /\ UNCHANGED <<refresh, raised>>
    BY <1>3 DEF Bridge!Tick
  <2>2. rest' \in Nat /\ age' \in Nat
    BY <2>1
  <2> QED BY <2>1, <2>2, Interval \in Nat DEF Bridge!BridgeAssumption
<1>4. ASSUME NEW w \in Workers, Bridge!Work(w) \/ Bridge!Raise(w) PROVE Rested'
  <2>1. UNCHANGED <<refresh, rest, age>> /\ raised' = raised
    BY <1>4 DEF Bridge!Work, Bridge!Raise, Bridge!Take, Bridge!Pick, Bridge!Spawn, Bridge!Ready,
        Bridge!Check,
        Bridge!Measure, Bridge!Stop
  <2> QED BY <2>1
<1>5. ASSUME NEW p \in Ports, Bridge!Gone(p) PROVE Rested'
  BY <1>5 DEF Bridge!Gone
<1>6. CASE UNCHANGED Bridge!vars
  BY <1>6 DEF Bridge!vars
<1> QED BY <1>1, <1>2, <1>3, <1>4, <1>5, <1>6 DEF Bridge!Next, Bridge!Refresher

\* Between two refreshes a subscription request finds the entry valid, where the
\* refresher sleeps no longer than an entry is valid and no test raises.
THEOREM BridgePublished ==
    ASSUME Interval <= MaxAge, "raise" \notin BridgeFaults
    PROVE  Bridge!Spec => []ChainPublished
<1> USE NodeAssumption DEF NodeAssumption
<1>1. Bridge!Init => Rested
  BY DEF Bridge!Init, Rested, Bridge!BridgeAssumption
<1>2. Rested /\ [Bridge!Next]_Bridge!vars => Rested'
  BY BridgeRested
<1>3. Rested => ChainPublished
  BY DEF Rested, ChainPublished, Bridge!ChainPublished, Bridge!Answer, Bridge!BridgeAssumption
<1> QED BY <1>1, <1>2, <1>3, PTL DEF Bridge!Spec

-----------------------------------------------------------------------------
(* The types of the refresh: its workers and the processes they start *)

\* The instance counts like its module.
LEMMA BridgeCounts ==
    ASSUME NEW S
    PROVE  /\ Bridge!Cardinality(S) = Cardinality(S)
           /\ Bridge!IsFiniteSet(S) <=> IsFiniteSet(S)
BY Zenon DEF Bridge!Cardinality, Cardinality, Bridge!IsFiniteSet, IsFiniteSet

Jobs == [pc : Bridge!Busy \cup {"idle"}, phase : {"check", "speed"}, node : BridgeNodes \cup {Absent},
         port : Ports \cup {Absent}, own : BOOLEAN]

\* A worker that is not idle has its node, and a port unless it needs none or has
\* none yet; only behind a port of its own has it a sing-box.
Fits(j) ==
    /\ j.pc # "idle" => j.node \in BridgeNodes
    /\ j.pc \in {"spawn", "bind", "curl", "stop"} /\ j.node \notin Curlable => j.port \in Ports
    /\ j.pc \in {"pick", "spawn", "bind", "stop"} => j.node \notin Curlable
    /\ j.own => j.pc \in {"bind", "curl", "stop"} /\ j.node \notin Curlable

\* The sing-box that a worker calls its own listens, at a port no other worker
\* calls its own, and was not killed.
Owned(j)    == j.own => socks[j.port] # Absent /\ j.port \notin killed
Apart(j, k) == j.own /\ k.own => j.port # k.port

BridgeTyped ==
    /\ Bridge!TypeOK
    /\ \A w \in Workers : Fits(job[w]) /\ Owned(job[w])
    /\ \A v, w \in Workers : v # w => Apart(job[v], job[w])

LEMMA BridgeInitial == ASSUME Bridge!BridgeAssumption, Bridge!Init PROVE BridgeTyped
<1>1. Bridge!Cardinality({}) = 0
  BY FS_EmptySet, BridgeCounts
<1>2. \A w \in Workers : job[w] = Bridge!Idle
  BY DEF Bridge!Init
<1>3. Bridge!Idle \in Jobs /\ Fits(Bridge!Idle) /\ ~Bridge!Idle.own
  BY DEF Bridge!Idle, Jobs, Fits
<1>4. job \in [Workers -> Jobs]
  BY <1>3 DEF Bridge!Init
<1>5. Bridge!TypeOK
  <2>1. rest \in 0..Interval /\ age \in 0..MaxAge
    BY DEF Bridge!Init, Bridge!BridgeAssumption
  <2>5. refresh \in {"sleep", "fetch", "test"} /\ cache \in {Absent} \cup SUBSET BridgeNodes /\ raised \in BOOLEAN
    BY DEF Bridge!Init
  <2>2. queue \subseteq BridgeNodes /\ Bridge!Cardinality(queue) <= TestLimit
    BY <1>1 DEF Bridge!Init, Bridge!BridgeAssumption
  <2>3. /\ socks \in [Ports -> BridgeNodes \cup {Absent}] /\ killed = {}
        /\ via \in [BridgeNodes -> BridgeNodes \cup {Absent}]
    BY DEF Bridge!Init
  <2>4. DOMAIN tested = {}
    BY DEF Bridge!Init
  <2> QED BY <1>4, <2>1, <2>2, <2>3, <2>4, <2>5 DEF Bridge!TypeOK, Jobs
<1> QED BY <1>2, <1>3, <1>5 DEF BridgeTyped, Owned, Apart

\* What the refresher and time leave alone.
LEMMA RefresherTyped ==
    ASSUME Bridge!BridgeAssumption, BridgeTyped, Bridge!Refresher \/ Bridge!Tick
    PROVE  BridgeTyped'
<1> USE DEF BridgeTyped, Bridge!TypeOK, Bridge!BridgeAssumption
<1>1. UNCHANGED <<job, socks, killed>>
  BY DEF Bridge!Refresher, Bridge!Fetch, Bridge!Store, Bridge!GiveUp, Bridge!Wake, Bridge!Tick
<1>2. (\A w \in Workers : Fits(job[w]) /\ Owned(job[w]))'
  BY <1>1 DEF Owned
<1>3. CASE Bridge!Fetch
  <2>1. PICK named \in SUBSET BridgeNodes : queue' \in Bridge!TestCandidates(named)
    BY <1>3 DEF Bridge!Fetch
  <2>2. IsFiniteSet(named)
    BY BridgeCounts, FS_Subset
  <2>3. Cardinality(named) \in Nat
    BY <2>2, FS_CardinalityType
  <2>4. queue' \subseteq BridgeNodes /\ Bridge!Cardinality(queue') <= TestLimit
    BY <2>1, <2>3, BridgeCounts DEF Bridge!TestCandidates
  <2> QED BY <1>1, <1>2, <1>3, <2>4 DEF Bridge!Fetch
<1>4. CASE Bridge!Store
  <2>1. cache' \subseteq DOMAIN tested
    BY <1>4 DEF Bridge!Store, Bridge!Fastest
  <2> QED BY <1>1, <1>2, <1>4, <2>1 DEF Bridge!Store
<1>5. CASE Bridge!GiveUp \/ Bridge!Wake
  BY <1>1, <1>2, <1>5 DEF Bridge!GiveUp, Bridge!Wake
<1>6. CASE Bridge!Tick
  BY <1>1, <1>2, <1>6 DEF Bridge!Tick
<1> QED BY <1>3, <1>4, <1>5, <1>6 DEF Bridge!Refresher

\* One worker goes on with the job j: nothing else of the jobs changes.
LEMMA JobChanged ==
    ASSUME BridgeTyped, NEW w \in Workers, NEW j \in Jobs, job' = [job EXCEPT ![w] = j],
           Fits(j), Owned(j)',
           \A v \in Workers \ {w} : Owned(job[v])' /\ Apart(job[v], j)
    PROVE  /\ job' \in [Workers -> Jobs]
           /\ (\A v \in Workers : Fits(job[v]) /\ Owned(job[v]))'
           /\ (\A v, u \in Workers : v # u => Apart(job[v], job[u]))'
<1>1. job \in [Workers -> Jobs]
  BY DEF BridgeTyped, Bridge!TypeOK, Jobs
<1>2. job'[w] = j /\ \A v \in Workers \ {w} : job'[v] = job[v]
  BY <1>1
<1>3. job' \in [Workers -> Jobs]
  BY <1>1
<1>4. ASSUME NEW v \in Workers PROVE Fits(job'[v]) /\ Owned(job[v])'
  BY <1>2 DEF BridgeTyped, Owned
<1>5. ASSUME NEW v \in Workers, NEW u \in Workers, v # u PROVE Apart(job'[v], job'[u])
  BY <1>2, <1>5 DEF BridgeTyped, Apart
<1> QED BY <1>3, <1>4, <1>5

\* The job a worker may go on with while no process starts or ends: who has none
\* gets none.
GoesOn(w, j) == /\ job' = [job EXCEPT ![w] = j] /\ j \in Jobs /\ Fits(j)
                /\ j.own => job[w].own /\ j.port = job[w].port

LEMMA SameSocks ==
    ASSUME BridgeTyped, NEW w \in Workers, NEW j, GoesOn(w, j), UNCHANGED <<socks, killed>>
    PROVE  /\ job' \in [Workers -> Jobs]
           /\ (\A v \in Workers : Fits(job[v]) /\ Owned(job[v]))'
           /\ (\A v, u \in Workers : v # u => Apart(job[v], job[u]))'
<1> USE DEF GoesOn
<1>1. job \in [Workers -> Jobs]
  BY DEF BridgeTyped, Bridge!TypeOK, Jobs
<1>2. Owned(j)'
  BY DEF BridgeTyped, Owned
<1>3. ASSUME NEW v \in Workers \ {w} PROVE Owned(job[v])' /\ Apart(job[v], j)
  <2>1. job'[v] = job[v]
    BY <1>1
  <2> QED BY <2>1 DEF BridgeTyped, Owned, Apart
<1> QED BY <1>2, <1>3, JobChanged

LEMMA TakeTyped ==
    ASSUME Bridge!BridgeAssumption, BridgeTyped, NEW w \in Workers, Bridge!Take(w)
    PROVE  BridgeTyped'
<1> USE DEF BridgeTyped, Bridge!TypeOK, Bridge!BridgeAssumption
<1>1. PICK n \in queue : /\ queue' = queue \ {n}
                         /\ Bridge!Set(w, [Bridge!Idle EXCEPT !.node = n,
                                             !.pc = IF n \in Curlable THEN "curl" ELSE "pick"])
  BY DEF Bridge!Take
<1> DEFINE j == [Bridge!Idle EXCEPT !.node = n, !.pc = IF n \in Curlable THEN "curl" ELSE "pick"]
<1>2. j \in Jobs /\ Fits(j) /\ ~j.own
  BY DEF Bridge!Idle, Jobs, Fits, Bridge!Busy
<1>3. job' = [job EXCEPT ![w] = j]
  BY <1>1 DEF Bridge!Set
<1>4. IsFiniteSet(queue)
  BY BridgeCounts, FS_Subset
<1>5. IsFiniteSet(queue \ {n}) /\ Cardinality(queue \ {n}) <= Cardinality(queue)
  BY <1>4, FS_Subset
<1>6. Cardinality(queue) \in Nat /\ Cardinality(queue \ {n}) \in Nat
  BY <1>4, <1>5, FS_CardinalityType
<1>7. Bridge!Cardinality(queue') <= TestLimit
  BY <1>1, <1>5, <1>6, BridgeCounts
<1> HIDE DEF j
<1>8. UNCHANGED <<refresh, rest, cache, age, socks, killed, via, tested, raised>>
  BY DEF Bridge!Take
<1>9. /\ job' \in [Workers -> Jobs]
      /\ (\A v \in Workers : Fits(job[v]) /\ Owned(job[v]))'
      /\ (\A v, u \in Workers : v # u => Apart(job[v], job[u]))'
  BY <1>2, <1>3, <1>8, SameSocks DEF GoesOn
<1> QED BY <1>1, <1>7, <1>8, <1>9 DEF Jobs

LEMMA WorkTyped ==
    ASSUME Bridge!BridgeAssumption, BridgeTyped, NEW w \in Workers,
           Bridge!Pick(w) \/ Bridge!Raise(w) \/ Bridge!Ready(w)
    PROVE  BridgeTyped'
<1>1. PICK j : GoesOn(w, j)
  <2>1. job[w] \in Jobs /\ Fits(job[w])
    BY DEF BridgeTyped, Bridge!TypeOK, Jobs
  <2>2. CASE Bridge!Pick(w)
    <3>1. PICK p \in Ports : job' = [job EXCEPT ![w] = [job[w] EXCEPT !.port = p, !.pc = "spawn"]]
      BY <2>2 DEF Bridge!Pick, Bridge!Set
    <3>2. job[w].pc = "pick"
      BY <2>2 DEF Bridge!Pick, Bridge!At
    <3>3. GoesOn(w, [job[w] EXCEPT !.port = p, !.pc = "spawn"])
      BY <2>1, <3>1, <3>2 DEF GoesOn, Jobs, Fits, Bridge!Busy
    <3> QED BY <3>3
  <2>3. CASE Bridge!Raise(w)
    <3>1. GoesOn(w, Bridge!Idle)
      BY <2>3 DEF GoesOn, Bridge!Raise, Bridge!Set, Bridge!Idle, Jobs, Fits
    <3> QED BY <3>1
  <2>4. CASE Bridge!Ready(w)
    <3>1. job[w].pc = "bind"
      BY <2>4 DEF Bridge!Ready, Bridge!At
    <3>2. CASE job' = [job EXCEPT ![w] = [job[w] EXCEPT !.pc = "curl"]]
      <4>1. GoesOn(w, [job[w] EXCEPT !.pc = "curl"])
        BY <2>1, <3>1, <3>2 DEF GoesOn, Jobs, Fits, Bridge!Busy
      <4> QED BY <4>1
    <3>3. CASE job' = [job EXCEPT ![w] = [job[w] EXCEPT !.pc = "stop", !.phase = "check"]]
      <4>1. GoesOn(w, [job[w] EXCEPT !.pc = "stop", !.phase = "check"])
        BY <2>1, <3>1, <3>3 DEF GoesOn, Jobs, Fits, Bridge!Busy
      <4> QED BY <4>1
    <3> QED BY <2>4, <3>2, <3>3 DEF Bridge!Ready, Bridge!Goto, Bridge!Set
  <2> QED BY <2>2, <2>3, <2>4
<1>2. UNCHANGED <<refresh, rest, cache, age, queue, socks, killed, via, tested>> /\ raised' \in {raised, TRUE}
  BY DEF Bridge!Pick, Bridge!Raise, Bridge!Ready
<1>3. /\ job' \in [Workers -> Jobs]
      /\ (\A v \in Workers : Fits(job[v]) /\ Owned(job[v]))'
      /\ (\A v, u \in Workers : v # u => Apart(job[v], job[u]))'
  BY <1>1, <1>2, SameSocks
<1> QED BY <1>2, <1>3 DEF BridgeTyped, Bridge!TypeOK, Jobs

LEMMA SpawnTyped ==
    ASSUME Bridge!BridgeAssumption, BridgeTyped, NEW w \in Workers, Bridge!Spawn(w)
    PROVE  BridgeTyped'
<1>1. job[w] \in Jobs /\ Fits(job[w]) /\ job[w].pc = "spawn"
  BY DEF BridgeTyped, Bridge!TypeOK, Jobs, Bridge!Spawn, Bridge!At
<1>2. job[w].port \in Ports /\ job[w].node \in BridgeNodes /\ job[w].node \notin Curlable /\ ~job[w].own
  BY <1>1 DEF Fits
<1>3. UNCHANGED <<refresh, rest, cache, age, queue, killed, via, tested, raised>>
  BY DEF Bridge!Spawn
<1>4. CASE socks[job[w].port] = Absent
  <2> PICK j : j = [job[w] EXCEPT !.own = TRUE, !.pc = "bind"]
    OBVIOUS
  <2>1. job' = [job EXCEPT ![w] = j] /\ socks' = [socks EXCEPT ![job[w].port] = job[w].node]
    BY <1>4 DEF Bridge!Spawn, Bridge!Set
  <2>2. j \in Jobs /\ Fits(j) /\ j.own /\ j.port = job[w].port
    BY <1>1, <1>2 DEF Jobs, Fits, Bridge!Busy
  <2>3. /\ socks' \in [Ports -> BridgeNodes \cup {Absent}]
        /\ \A p \in Ports : p # job[w].port => socks'[p] = socks[p]
        /\ socks'[job[w].port] # Absent
    BY <1>2, <2>1 DEF BridgeTyped, Bridge!TypeOK, Bridge!BridgeAssumption
  <2>4. job[w].port \notin killed
    BY <1>4 DEF BridgeTyped, Bridge!TypeOK
  <2>5. Owned(j)'
    BY <1>3, <2>2, <2>3, <2>4 DEF Owned
  <2>6. ASSUME NEW v \in Workers \ {w} PROVE Owned(job[v])' /\ Apart(job[v], j)
    <3>1. job'[v] = job[v] /\ Fits(job[v]) /\ Owned(job[v]) /\ job[v] \in Jobs
      BY <2>1 DEF BridgeTyped, Bridge!TypeOK, Jobs
    <3>2. job[v].own => job[v].port \in Ports /\ job[v].port # job[w].port
      BY <1>4, <3>1 DEF Owned, Fits
    <3> QED BY <1>3, <2>2, <2>3, <3>1, <3>2 DEF Owned, Apart
  <2>7. /\ job' \in [Workers -> Jobs]
        /\ (\A v \in Workers : Fits(job[v]) /\ Owned(job[v]))'
        /\ (\A v, u \in Workers : v # u => Apart(job[v], job[u]))'
    BY <2>1, <2>2, <2>5, <2>6, JobChanged
  <2>8. killed' \subseteq {p \in Ports : socks'[p] # Absent}
    BY <1>3, <2>3 DEF BridgeTyped, Bridge!TypeOK
  <2> QED BY <1>3, <2>3, <2>7, <2>8 DEF BridgeTyped, Bridge!TypeOK, Jobs
<1>5. CASE socks[job[w].port] # Absent
  <2> DEFINE j == [job[w] EXCEPT !.pc = "bind"]
  <2>1. job' = [job EXCEPT ![w] = j] /\ UNCHANGED socks
    BY <1>5 DEF Bridge!Spawn, Bridge!Goto, Bridge!Set
  <2>2. j \in Jobs /\ Fits(j) /\ ~j.own
    BY <1>1, <1>2 DEF Jobs, Fits, Bridge!Busy
  <2> HIDE DEF j
  <2>3. /\ job' \in [Workers -> Jobs]
        /\ (\A v \in Workers : Fits(job[v]) /\ Owned(job[v]))'
        /\ (\A v, u \in Workers : v # u => Apart(job[v], job[u]))'
    BY <1>3, <2>1, <2>2, SameSocks DEF GoesOn
  <2> QED BY <1>3, <2>1, <2>3 DEF BridgeTyped, Bridge!TypeOK, Jobs
<1> QED BY <1>4, <1>5

\* A check or a measurement ends: what went through, how fast, and what is next.
LEMMA CurlTyped ==
    ASSUME Bridge!BridgeAssumption, BridgeTyped, NEW w \in Workers, Bridge!Check(w) \/ Bridge!Measure(w)
    PROVE  BridgeTyped'
<1>1. job[w] \in Jobs /\ Fits(job[w]) /\ job[w].pc = "curl"
  BY DEF BridgeTyped, Bridge!TypeOK, Jobs, Bridge!Check, Bridge!Measure, Bridge!At
<1>2. UNCHANGED <<refresh, rest, cache, age, queue, socks, killed, raised>>
  BY DEF Bridge!Check, Bridge!Measure
<1>3. job[w].node \in BridgeNodes /\ Bridge!Through(w) \in BridgeNodes \cup {Absent}
  BY <1>1 DEF Fits, Bridge!Through, BridgeTyped, Bridge!TypeOK
<1>4. ASSUME NEW phase \in {"check", "speed"}, Bridge!Leave(w, phase)
      PROVE  /\ job' \in [Workers -> Jobs]
             /\ (\A v \in Workers : Fits(job[v]) /\ Owned(job[v]))'
             /\ (\A v, u \in Workers : v # u => Apart(job[v], job[u]))'
  <2>1. PICK j : GoesOn(w, j)
    <3>1. CASE job' = [job EXCEPT ![w] = Bridge!Idle]
      <4>1. GoesOn(w, Bridge!Idle)
        BY <3>1 DEF GoesOn, Bridge!Idle, Jobs, Fits
      <4> QED BY <4>1
    <3>2. CASE job[w].node \in Curlable /\ job' = [job EXCEPT ![w] = [job[w] EXCEPT !.phase = "speed"]]
      <4>1. GoesOn(w, [job[w] EXCEPT !.phase = "speed"])
        BY <1>1, <3>2 DEF GoesOn, Jobs, Fits
      <4> QED BY <4>1
    <3>3. CASE job[w].node \notin Curlable /\ job' = [job EXCEPT ![w] = [job[w] EXCEPT !.pc = "stop", !.phase = phase]]
      <4>1. GoesOn(w, [job[w] EXCEPT !.pc = "stop", !.phase = phase])
        BY <1>1, <3>3 DEF GoesOn, Jobs, Fits, Bridge!Busy
      <4> QED BY <4>1
    <3> QED BY <1>4, <3>1, <3>2, <3>3 DEF Bridge!Leave, Bridge!Set
  <2> QED BY <1>2, <2>1, SameSocks
<1>5. ASSUME NEW speed \in Speeds \cup {0}, Bridge!Passed(w, speed)
      PROVE  DOMAIN tested' \subseteq BridgeNodes /\ \A n \in DOMAIN tested' : tested'[n] \in Speeds \cup {0}
  <2>1. DOMAIN tested' = DOMAIN tested \cup {job[w].node}
    BY <1>5 DEF Bridge!Passed
  <2>2. \A n \in DOMAIN tested' : tested'[n] = IF n = job[w].node THEN speed ELSE tested[n]
    BY <1>5 DEF Bridge!Passed
  <2> QED BY <1>3, <2>1, <2>2 DEF BridgeTyped, Bridge!TypeOK
<1>6. CASE Bridge!Check(w)
  <2>1. \E phase \in {"check", "speed"} : Bridge!Leave(w, phase)
    BY <1>6 DEF Bridge!Check
  <2>2. Bridge!Passed(w, 0) \/ tested' = tested
    BY <1>6 DEF Bridge!Check
  <2>3. via' \in [BridgeNodes -> BridgeNodes \cup {Absent}]
    BY <1>3, <1>6 DEF Bridge!Check, BridgeTyped, Bridge!TypeOK
  <2>4. DOMAIN tested' \subseteq BridgeNodes /\ \A n \in DOMAIN tested' : tested'[n] \in Speeds \cup {0}
    BY <1>5, <2>2 DEF BridgeTyped, Bridge!TypeOK
  <2> QED BY <1>2, <1>4, <2>1, <2>3, <2>4 DEF BridgeTyped, Bridge!TypeOK, Jobs
<1>7. CASE Bridge!Measure(w)
  <2>1. Bridge!Leave(w, "check") /\ via' = via
    BY <1>7 DEF Bridge!Measure
  <2>2. \E v \in Speeds \cup {0} : Bridge!Passed(w, v)
    BY <1>7 DEF Bridge!Measure
  <2>3. DOMAIN tested' \subseteq BridgeNodes /\ \A n \in DOMAIN tested' : tested'[n] \in Speeds \cup {0}
    BY <1>5, <2>2
  <2> QED BY <1>2, <1>4, <2>1, <2>3 DEF BridgeTyped, Bridge!TypeOK, Jobs
<1> QED BY <1>6, <1>7

\* The sing-box of a worker is terminated or killed; only its own.
LEMMA StopTyped ==
    ASSUME Bridge!BridgeAssumption, BridgeTyped, NEW w \in Workers, NEW lingers \in BOOLEAN,
           Bridge!Stop(w, lingers)
    PROVE  BridgeTyped'
<1> PICK j : j = Bridge!AfterStop(w)
  OBVIOUS
<1>1. job[w] \in Jobs /\ Fits(job[w]) /\ Owned(job[w]) /\ job[w].pc = "stop"
  BY DEF BridgeTyped, Bridge!TypeOK, Jobs, Bridge!Stop, Bridge!At
<1>2. UNCHANGED <<refresh, rest, cache, age, queue, via, tested, raised>> /\ job' = [job EXCEPT ![w] = j]
  BY DEF Bridge!Stop, Bridge!Set
<1>3. job[w].port \in Ports
  BY <1>1 DEF Fits
<1>4. j \in Jobs /\ Fits(j) /\ ~j.own
  BY <1>1 DEF Bridge!AfterStop, Bridge!Idle, Jobs, Fits, Bridge!Busy
<1>5. /\ socks' = IF job[w].own /\ ~lingers THEN [socks EXCEPT ![job[w].port] = Absent] ELSE socks
      /\ killed' = IF job[w].own /\ lingers THEN killed \cup {job[w].port} ELSE killed
  BY DEF Bridge!Stop
<1>6. socks' \in [Ports -> BridgeNodes \cup {Absent}] /\ killed' \subseteq {p \in Ports : socks'[p] # Absent}
  BY <1>1, <1>3, <1>5 DEF BridgeTyped, Bridge!TypeOK, Owned
<1>7. ASSUME NEW v \in Workers \ {w} PROVE Owned(job[v])' /\ Apart(job[v], j)
  <2>1. job'[v] = job[v] /\ Fits(job[v]) /\ Owned(job[v]) /\ job[v] \in Jobs /\ Apart(job[v], job[w])
    BY <1>2 DEF BridgeTyped, Bridge!TypeOK, Jobs
  <2>2. job[v].own => job[v].port \in Ports
    BY <2>1 DEF Fits
  <2>3. job[v].own /\ job[w].own => job[v].port # job[w].port
    BY <2>1 DEF Apart
  <2>4. job[v].own => socks'[job[v].port] # Absent /\ job[v].port \notin killed'
    BY <1>3, <1>5, <2>1, <2>2, <2>3 DEF Owned, BridgeTyped, Bridge!TypeOK
  <2> QED BY <1>4, <2>1, <2>4 DEF Owned, Apart
<1>8. /\ job' \in [Workers -> Jobs]
      /\ (\A v \in Workers : Fits(job[v]) /\ Owned(job[v]))'
      /\ (\A v, u \in Workers : v # u => Apart(job[v], job[u]))'
  BY <1>2, <1>4, <1>7, JobChanged DEF Owned
<1> QED BY <1>2, <1>6, <1>8 DEF BridgeTyped, Bridge!TypeOK, Jobs

LEMMA GoneTyped ==
    ASSUME Bridge!BridgeAssumption, BridgeTyped, NEW p \in Ports, Bridge!Gone(p)
    PROVE  BridgeTyped'
<1>1. /\ p \in killed /\ killed' = killed \ {p} /\ socks' = [socks EXCEPT ![p] = Absent]
      /\ UNCHANGED <<refresh, rest, cache, age, queue, job, via, tested, raised>>
  BY DEF Bridge!Gone
<1>2. socks' \in [Ports -> BridgeNodes \cup {Absent}] /\ killed' \subseteq {q \in Ports : socks'[q] # Absent}
  BY <1>1 DEF BridgeTyped, Bridge!TypeOK
<1>3. ASSUME NEW w \in Workers PROVE Owned(job[w])'
  <2>1. job[w] \in Jobs /\ Fits(job[w]) /\ Owned(job[w])
    BY DEF BridgeTyped, Bridge!TypeOK, Jobs
  <2>2. job[w].own => job[w].port \in Ports /\ job[w].port # p
    BY <1>1, <2>1 DEF Fits, Owned
  <2> QED BY <1>1, <2>1, <2>2 DEF Owned, BridgeTyped, Bridge!TypeOK
<1> QED BY <1>1, <1>2, <1>3 DEF BridgeTyped, Bridge!TypeOK

\* Every reachable state of a refresh is well typed, wherever workers collide on a
\* port: a process that was killed holds its port until it is gone.
THEOREM BridgeTypeCorrect == Bridge!Spec => []Bridge!TypeOK
<1> USE NodeAssumption DEF NodeAssumption
<1>1. Bridge!Init => BridgeTyped
  BY BridgeInitial
<1>2. BridgeTyped /\ [Bridge!Next]_Bridge!vars => BridgeTyped'
  <2>1. BridgeTyped /\ UNCHANGED Bridge!vars => BridgeTyped'
    BY DEF BridgeTyped, Bridge!TypeOK, Bridge!vars, Owned
  <2> QED BY <2>1, RefresherTyped, TakeTyped, WorkTyped, SpawnTyped, CurlTyped, StopTyped, GoneTyped
          DEF Bridge!Next, Bridge!Work
<1>3. BridgeTyped => Bridge!TypeOK
  BY DEF BridgeTyped
<1> QED BY <1>1, <1>2, <1>3, PTL DEF Bridge!Spec

-----------------------------------------------------------------------------
(* The containers that carry public traffic *)

\* Where each process may be.
Stages == [manager |-> {"down", "start", "create", "run"},
           gateway |-> {"down", "start", "identities", "save", "config", "check", "publish", "exec", "run"},
           bridge  |-> {"down", "start", "config", "check", "exec", "run"}]

Placed ==
    /\ env \in [Gateway!Containers -> Settings] /\ wanted \in Settings
    /\ DOMAIN pc = Gateway!Containers /\ DOMAIN cred = Gateway!Containers /\ DOMAIN config = Gateway!Containers
    /\ \A c \in Gateway!Containers : pc[c] \in Stages[c]

\* A process past its start has the credentials everybody reads from then on.
LoggedIn ==
    /\ \A c \in Gateway!Containers : pc[c] \notin {"down", "start", "create"} =>
         cred[c] = Gateway!Credentials(c) /\ cred[c] # Gateway!None
    /\ pc["manager"] = "create" => Gateway!Credentials("manager") = Gateway!None
    /\ \A c \in {"gateway", "bridge"} : pc[c] \in {"check", "publish", "exec", "run"} =>
         config[c].cred = cred[c]

DistinctUuids(ids) == \A s, t \in DOMAIN ids :
    s # t => ids[s].uuid # ids[t].uuid \/ ids[s].uuid = Gateway!None

\* All identities a configuration is built from share the key and the short id.
SharedKeys(ids, e) ==
    /\ Gateway!Managed(e) \subseteq DOMAIN ids
    /\ \A s \in Gateway!Managed(e) : ids[s].uuid # Gateway!None
    /\ \E key, sid : \A s \in Gateway!Managed(e) : ids[s] = [uuid |-> ids[s].uuid, key |-> key, sid |-> sid]

KeepsUuids(old, new) == \A s \in DOMAIN old : old[s].uuid # Gateway!None =>
    s \in DOMAIN new /\ new[s].uuid = old[s].uuid

\* What the gateway has loaded, what it has written of it.
Loaded ==
    /\ DistinctUuids(identities)
    /\ pc["gateway"] \in {"save", "config", "check", "publish", "exec", "run"} =>
         DistinctUuids(loaded) /\ SharedKeys(loaded, env["gateway"])
    /\ pc["gateway"] = "save" => KeepsUuids(identities, loaded)
    /\ pc["gateway"] \in {"check", "publish", "exec", "run"} =>
         config["gateway"] = Gateway!GatewayConfig(Gateway!Requested(loaded, env["gateway"]), cred["gateway"])
    /\ pc["gateway"] \in {"exec", "run"} => nodes = Gateway!Requested(loaded, env["gateway"])

GatewayInv == Placed /\ LoggedIn /\ Loaded

-----------------------------------------------------------------------------
\* load_or_create_identities keeps every uuid, gives each managed slot one of its
\* own and all of them the same keys.
LEMMA MergedKeeps ==
    ASSUME Gateway!GatewayAssumption, NEW ids, NEW e \in Settings, NEW pair,
           NEW new \in Gateway!NewUuids(ids, e),
           DistinctUuids(ids)
    PROVE  /\ DistinctUuids(Gateway!Merged(ids, e, pair, new))
           /\ SharedKeys(Gateway!Merged(ids, e, pair, new), e)
           /\ KeepsUuids(ids, Gateway!Merged(ids, e, pair, new))
<1> DEFINE merged  == Gateway!Merged(ids, e, pair, new)
           Without == {s \in Gateway!Managed(e) : Gateway!UuidOf(ids, s) = Gateway!None}
<1>1. /\ new \in [Without -> Uuids \ {Gateway!UuidOf(ids, s) : s \in DOMAIN ids}]
      /\ \A s, t \in Without : s # t => new[s] # new[t]
  BY DEF Gateway!NewUuids
<1>2. /\ DOMAIN merged = DOMAIN ids \cup Gateway!Managed(e)
      /\ \A s \in Gateway!Managed(e) : merged[s] =
           [uuid |-> IF s \in Without THEN new[s] ELSE ids[s].uuid, key |-> pair[1], sid |-> pair[2]]
      /\ \A s \in DOMAIN ids \ Gateway!Managed(e) : merged[s] = ids[s]
  BY <1>1 DEF Gateway!Merged
<1>3. \A s \in Without : /\ new[s] # Gateway!None
                         /\ \A t \in DOMAIN ids : new[s] # ids[t].uuid
                         /\ s \in DOMAIN ids => ids[s].uuid = Gateway!None
  BY <1>1 DEF Gateway!GatewayAssumption, Gateway!UuidOf
<1>4. \A s \in Gateway!Managed(e) \ Without : s \in DOMAIN ids /\ ids[s].uuid # Gateway!None
  BY DEF Gateway!UuidOf
<1>5. \A s \in Gateway!Managed(e) : merged[s].uuid = IF s \in Without THEN new[s] ELSE ids[s].uuid
  BY <1>2
<1> HIDE DEF merged
<1>6. \A s \in DOMAIN merged : \/ s \in Without /\ merged[s].uuid = new[s]
                               \/ s \in DOMAIN ids \ Without /\ merged[s].uuid = ids[s].uuid
  BY <1>2, <1>4, <1>5
<1>7. DistinctUuids(merged)
  <2> SUFFICES ASSUME NEW s \in DOMAIN merged, NEW t \in DOMAIN merged, s # t
               PROVE  merged[s].uuid # merged[t].uuid \/ merged[s].uuid = Gateway!None
    BY DEF DistinctUuids
  <2> HIDE DEF Without
  <2>1. CASE s \in Without /\ merged[s].uuid = new[s]
    BY <1>1, <1>3, <1>6, <2>1
  <2>2. CASE s \in DOMAIN ids \ Without /\ merged[s].uuid = ids[s].uuid
    BY <1>3, <1>6, <2>2 DEF DistinctUuids
  <2> QED BY <1>6, <2>1, <2>2
<1>8. SharedKeys(merged, e)
  <2>1. \A s \in Gateway!Managed(e) : merged[s] = [uuid |-> merged[s].uuid, key |-> pair[1], sid |-> pair[2]]
    BY <1>2, <1>5
  <2> QED BY <1>2, <1>3, <1>4, <1>5, <2>1 DEF SharedKeys
<1>9. KeepsUuids(ids, merged)
  BY <1>2, <1>3, <1>6 DEF KeepsUuids
<1> QED BY <1>7, <1>8, <1>9 DEF merged

\* Of what it loaded, the gateway publishes what its sing-box accepts.
LEMMA RequestedServes ==
    ASSUME Gateway!GatewayAssumption, NEW ids, NEW e \in Settings, NEW c, DistinctUuids(ids),
           SharedKeys(ids, e)
    PROVE  LET requested == Gateway!Requested(ids, e)
               built     == Gateway!GatewayConfig(requested, c)
           IN  \A s \in DOMAIN requested :
                 /\ s \in DOMAIN built.users
                 /\ requested[s] = [uuid |-> built.users[s], key |-> built.key, sid |-> built.sid]
                 /\ \A t \in DOMAIN requested \ {s} : requested[t].uuid # requested[s].uuid
<1> DEFINE requested == Gateway!Requested(ids, e)
           built == Gateway!GatewayConfig(requested, c)
<1>1. DOMAIN requested = Gateway!Managed(e) /\ \A s \in Gateway!Managed(e) : requested[s] = ids[s]
  BY DEF Gateway!Requested
<1>2. Gateway!First(requested) \in Gateway!Managed(e)
  <2>1. 1 \in Gateway!Managed(e) /\ \A t \in Gateway!Managed(e) : 1 <= t
    BY DEF Gateway!GatewayAssumption, Gateway!Managed, Gateway!Host, Gateway!MAX_SLOT_COUNT
  <2> QED BY <1>1, <2>1 DEF Gateway!First
<1>3. PICK key, sid : \A s \in Gateway!Managed(e) : ids[s] = [uuid |-> ids[s].uuid, key |-> key, sid |-> sid]
  BY DEF SharedKeys
<1>4. /\ built.users = [s \in DOMAIN requested |-> requested[s].uuid]
      /\ built.key = requested[Gateway!First(requested)].key /\ built.sid = requested[Gateway!First(requested)].sid
  BY DEF Gateway!GatewayConfig
<1> HIDE DEF requested, built
<1>5. built.key = key /\ built.sid = sid
  <2>1. ids[Gateway!First(requested)].key = key /\ ids[Gateway!First(requested)].sid = sid
    <3>1. ids[Gateway!First(requested)] = [uuid |-> ids[Gateway!First(requested)].uuid, key |-> key, sid |-> sid]
      BY <1>2, <1>3
    <3> QED BY <3>1
  <2> QED BY <1>1, <1>2, <1>4, <2>1
<1>6. ASSUME NEW s \in Gateway!Managed(e), NEW t \in Gateway!Managed(e) \ {s}
      PROVE  ids[t].uuid # ids[s].uuid
  BY DEF SharedKeys, DistinctUuids
<1>7. \A s \in DOMAIN requested :
         /\ s \in DOMAIN built.users
         /\ requested[s] = [uuid |-> built.users[s], key |-> built.key, sid |-> built.sid]
         /\ \A t \in DOMAIN requested \ {s} : requested[t].uuid # requested[s].uuid
  <2> SUFFICES ASSUME NEW s \in DOMAIN requested
               PROVE  /\ s \in DOMAIN built.users
                      /\ requested[s] = [uuid |-> built.users[s], key |-> built.key, sid |-> built.sid]
                      /\ \A t \in DOMAIN requested \ {s} : requested[t].uuid # requested[s].uuid
    OBVIOUS
  <2>1. s \in DOMAIN built.users /\ built.users[s] = ids[s].uuid
    BY <1>1, <1>4
  <2>2. requested[s] = [uuid |-> built.users[s], key |-> built.key, sid |-> built.sid]
    BY <1>1, <1>3, <1>5, <2>1
  <2>3. \A t \in DOMAIN requested \ {s} : requested[t].uuid # requested[s].uuid
    BY <1>1, <1>6
  <2> QED BY <2>1, <2>2, <2>3
<1> QED BY <1>7 DEF requested, built

-----------------------------------------------------------------------------

LEMMA GatewayInitial == ASSUME Gateway!GatewayAssumption, Gateway!Init PROVE GatewayInv
<1>1. Placed
  BY DEF Gateway!Init, Placed, Stages, Gateway!Containers
<1>2. LoggedIn
  BY DEF Gateway!Init, LoggedIn, Gateway!Containers
<1>3. Loaded
  BY DEF Gateway!Init, Loaded, DistinctUuids, Gateway!GatewayAssumption, Gateway!Containers
<1> QED BY <1>1, <1>2, <1>3 DEF GatewayInv

LEMMA GatewayStarts ==
    ASSUME Gateway!GatewayAssumption, GatewayInv,
           Gateway!ReadOrCreate \/ Gateway!Create \/ Gateway!Load("gateway", "identities") \/ Gateway!Load("bridge", "config")
    PROVE  GatewayInv'
<1> USE DEF GatewayInv
<1>1. CASE Gateway!ReadOrCreate \/ Gateway!Load("gateway", "identities") \/ Gateway!Load("bridge", "config")
  <2> DEFINE Begins(c) == IF c = "manager" THEN {"run"} ELSE IF c = "gateway" THEN {"identities"} ELSE {"config"}
             Waits(c)  == IF c = "manager" THEN {"create"} ELSE {"down"}
  <2>1. PICK c \in Gateway!Containers, next \in {"run", "identities", "config", "create", "down"} :
          /\ pc[c] = "start" /\ Gateway!Go(c, next) /\ next \in Begins(c) \cup Waits(c)
          /\ IF next \in Begins(c) THEN Gateway!Read(c, Gateway!Credentials(c)) /\ Gateway!Credentials(c) # Gateway!None
                                   ELSE UNCHANGED cred /\ Gateway!Credentials(c) = Gateway!None
    BY <1>1 DEF Gateway!ReadOrCreate, Gateway!Load, Gateway!Containers
  <2>2. UNCHANGED <<wanted, env, loaded, ports, password, identities, config, nodes, faults>>
    BY <1>1 DEF Gateway!ReadOrCreate, Gateway!Load, Gateway!files
  <2>3. /\ pc'[c] = next /\ \A d \in Gateway!Containers \ {c} : pc'[d] = pc[d]
        /\ \A d \in Gateway!Containers \ {c} : cred'[d] = cred[d]
        /\ next \in Begins(c) => cred'[c] = Gateway!Credentials(c) /\ cred'[c] # Gateway!None
        /\ next \notin Begins(c) => next \in {"create", "down"} /\ Gateway!Credentials(c) = Gateway!None
    BY <2>1 DEF Placed, Gateway!Go, Gateway!Read, Gateway!Containers
  <2>4. Placed'
    BY <2>1, <2>2, <2>3 DEF Placed, Gateway!Go, Gateway!Read, Stages, Gateway!Containers
  <2>5. \A d \in Gateway!Containers : Gateway!Credentials(d)' = Gateway!Credentials(d)
    BY <2>2 DEF Gateway!Credentials
  <2>6. LoggedIn'
    BY <2>1, <2>2, <2>3, <2>5 DEF LoggedIn, Gateway!Containers
  <2>7. Loaded'
    BY <2>1, <2>2, <2>3 DEF Loaded, Gateway!Containers
  <2> QED BY <2>4, <2>6, <2>7
<1>2. CASE Gateway!Create
  <2>1. PICK b \in Passwords : password' = b /\ Gateway!Read("manager", b)
    BY <1>2 DEF Gateway!Create
  <2>2. /\ pc["manager"] = "create" /\ Gateway!Go("manager", "run")
        /\ UNCHANGED <<wanted, env, loaded, ports, identities, config, nodes, faults>>
    BY <1>2 DEF Gateway!Create
  <2>3. /\ password = Gateway!None /\ env["manager"].explicit = Gateway!None /\ b # Gateway!None
    BY <2>2 DEF LoggedIn, Gateway!Credentials, Gateway!GatewayAssumption
  <2>4. /\ pc'["manager"] = "run" /\ cred'["manager"] = b
        /\ \A d \in Gateway!Containers \ {"manager"} : pc'[d] = pc[d] /\ cred'[d] = cred[d]
    BY <2>1, <2>2 DEF Placed, Gateway!Go, Gateway!Read, Gateway!Containers
  <2>5. Placed'
    BY <2>1, <2>2 DEF Placed, Gateway!Go, Gateway!Read, Stages, Gateway!Containers
  <2>6. /\ Gateway!Credentials("manager")' = b
        /\ \A d \in Gateway!Containers : Gateway!Credentials(d) # Gateway!None => Gateway!Credentials(d)' = Gateway!Credentials(d)
    BY <2>1, <2>2, <2>3 DEF Gateway!Credentials
  <2>7. LoggedIn'
    BY <2>2, <2>3, <2>4, <2>6 DEF LoggedIn, Gateway!Containers
  <2>8. Loaded'
    BY <2>2, <2>4 DEF Loaded, Gateway!Containers
  <2> QED BY <2>5, <2>7, <2>8
<1> QED BY <1>1, <1>2

LEMMA GatewayIdentities ==
    ASSUME Gateway!GatewayAssumption, GatewayInv,
           Gateway!Identities \/ Gateway!SaveIdentities \/ Gateway!Publish
    PROVE  GatewayInv' /\ KeepsUuids(identities, identities')
<1> USE DEF GatewayInv
<1>1. KeepsUuids(identities, identities)
  BY DEF KeepsUuids
<1>2. PICK next \in {"save", "config", "exec"} :
         /\ Gateway!Go("gateway", next) /\ pc["gateway"] \in {"identities", "save", "publish"}
         /\ UNCHANGED <<wanted, env, cred, password, config>>
  BY DEF Gateway!Identities, Gateway!SaveIdentities, Gateway!Publish, Gateway!files
<1>3. /\ pc'["gateway"] = next
      /\ \A c \in Gateway!Containers \ {"gateway"} : pc'[c] = pc[c]
  BY <1>2 DEF Placed, Gateway!Go, Gateway!Containers
<1>4. Placed'
  BY <1>2 DEF Placed, Gateway!Go, Stages, Gateway!Containers
<1>5. \A c \in Gateway!Containers : Gateway!Credentials(c)' = Gateway!Credentials(c)
  BY <1>2 DEF Gateway!Credentials
<1>6. CASE Gateway!Identities
  <2>1. PICK pair \in Gateway!SharedPairs(identities), new \in Gateway!NewUuids(identities, env["gateway"]) :
          loaded' = Gateway!Merged(identities, env["gateway"], pair, new)
    BY <1>6 DEF Gateway!Identities
  <2>2. env["gateway"] \in Settings
    BY DEF Placed, Gateway!Containers
  <2>3. /\ DistinctUuids(loaded') /\ SharedKeys(loaded', env["gateway"])
        /\ KeepsUuids(identities, loaded')
    BY <2>1, <2>2, MergedKeeps DEF Loaded
  <2>4. /\ UNCHANGED <<identities, nodes>> /\ next \in {"save", "config"} /\ pc["gateway"] = "identities"
        /\ pc'["gateway"] \in {"save", "config"}
    BY <1>3, <1>6 DEF Gateway!Identities, Gateway!Go, Gateway!files, Placed, Gateway!Containers
  <2>5. LoggedIn'
    BY <1>2, <1>3, <1>5, <2>4 DEF LoggedIn, Gateway!Containers
  <2>6. Loaded'
    BY <1>2, <1>3, <2>3, <2>4 DEF Loaded
  <2> QED BY <1>1, <1>4, <2>4, <2>5, <2>6
<1>7. CASE Gateway!SaveIdentities
  <2>1. /\ pc["gateway"] = "save" /\ pc'["gateway"] = "config" /\ identities' = loaded
        /\ UNCHANGED <<loaded, nodes>>
    BY <1>7 DEF Gateway!SaveIdentities, Gateway!Go, Placed, Gateway!Containers
  <2>2. LoggedIn'
    BY <1>2, <1>3, <1>5, <2>1 DEF LoggedIn, Gateway!Containers
  <2>3. Loaded' /\ KeepsUuids(identities, identities')
    BY <1>2, <2>1 DEF Loaded
  <2> QED BY <1>4, <2>2, <2>3
<1>8. CASE Gateway!Publish
  <2>1. /\ pc["gateway"] = "publish" /\ pc'["gateway"] = "exec"
        /\ nodes' = Gateway!Requested(loaded, env["gateway"]) /\ UNCHANGED <<loaded, identities>>
    BY <1>8 DEF Gateway!Publish, Gateway!Go, Placed, Gateway!Containers
  <2>2. LoggedIn'
    BY <1>2, <1>3, <1>5, <2>1 DEF LoggedIn, Gateway!Containers
  <2>3. Loaded'
    BY <1>2, <2>1 DEF Loaded
  <2> QED BY <1>1, <1>4, <2>1, <2>2, <2>3
<1> QED BY <1>6, <1>7, <1>8

LEMMA GatewayRuns ==
    ASSUME Gateway!GatewayAssumption, GatewayInv, NEW c \in Gateway!Containers,
           Gateway!WriteConfig(c) \/ Gateway!Check(c) \/ Gateway!Exec(c)
    PROVE  GatewayInv'
<1> USE DEF GatewayInv
<1>1. /\ UNCHANGED <<wanted, env, cred, loaded, password, identities, nodes>>
      /\ c \in {"gateway", "bridge"}
      /\ \A d \in Gateway!Containers : Gateway!Credentials(d)' = Gateway!Credentials(d)
  BY DEF Gateway!WriteConfig, Gateway!Check, Gateway!Exec, Gateway!files, Placed, Stages,
      Gateway!Containers,
      Gateway!Credentials
<1>2. CASE Gateway!WriteConfig(c)
  <2>1. /\ pc[c] = "config" /\ pc'[c] = "check" /\ \A d \in Gateway!Containers \ {c} : pc'[d] = pc[d]
        /\ config'[c] = IF c = "gateway" THEN Gateway!GatewayConfig(Gateway!Requested(loaded, env[c]), cred[c])
                                         ELSE Gateway!BridgeConfig(env[c], cred[c])
        /\ \A d \in Gateway!Containers \ {c} : config'[d] = config[d]
    BY <1>2 DEF Gateway!WriteConfig, Gateway!Go, Placed
  <2>2. Placed'
    BY <1>1, <1>2 DEF Gateway!WriteConfig, Gateway!Go, Placed, Stages, Gateway!Containers
  <2>3. config'[c].cred = cred[c]
    BY <2>1 DEF Gateway!GatewayConfig, Gateway!BridgeConfig
  <2>4. LoggedIn'
    BY <1>1, <2>1, <2>3 DEF LoggedIn, Gateway!Containers
  <2>5. Loaded'
    BY <1>1, <2>1 DEF Loaded, Gateway!Containers
  <2> QED BY <2>2, <2>4, <2>5
<1>3. CASE Gateway!Check(c) \/ Gateway!Exec(c)
  <2>1. PICK next \in {"publish", "exec", "run"} :
          /\ Gateway!Go(c, next) /\ UNCHANGED config
          /\ c = "gateway" => \/ pc[c] = "check" /\ next = "publish"
                              \/ pc[c] = "exec" /\ next = "run"
          /\ pc[c] \in {"check", "exec"} /\ next \in Stages[c]
    BY <1>1, <1>3 DEF Gateway!Check, Gateway!Exec, Gateway!files, Stages
  <2>2. pc'[c] = next /\ \A d \in Gateway!Containers \ {c} : pc'[d] = pc[d]
    BY <2>1 DEF Gateway!Go, Placed
  <2>3. Placed'
    BY <1>1, <2>1 DEF Gateway!Go, Placed
  <2>4. LoggedIn'
    BY <1>1, <2>1, <2>2 DEF LoggedIn, Gateway!Containers
  <2>5. Loaded'
    BY <1>1, <2>1, <2>2 DEF Loaded, Gateway!Containers
  <2> QED BY <2>3, <2>4, <2>5
<1> QED BY <1>2, <1>3

LEMMA GatewayAgain ==
    ASSUME Gateway!GatewayAssumption, GatewayInv, NEW c \in Gateway!Containers,
           Gateway!Restart(c) \/ Gateway!Recreate(c) \/ Gateway!Crash(c)
    PROVE  GatewayInv'
<1> USE DEF GatewayInv
<1>1. PICK next \in {"start", "down"} :
        /\ Gateway!Go(c, next) /\ UNCHANGED <<wanted, password, identities, config, nodes>>
        /\ \A d \in Gateway!Containers \ {c} : env'[d] = env[d] /\ cred'[d] = cred[d]
        /\ c # "gateway" => loaded' = loaded
        /\ env' \in [Gateway!Containers -> Settings]
        /\ DOMAIN cred' = Gateway!Containers
  BY DEF Gateway!Restart, Gateway!Recreate, Gateway!Crash, Gateway!Fresh, Gateway!Read,
      Gateway!files, Placed
<1>2. pc'[c] = next /\ \A d \in Gateway!Containers \ {c} : pc'[d] = pc[d]
  BY <1>1 DEF Gateway!Go, Placed
<1>3. Placed'
  BY <1>1 DEF Gateway!Go, Placed, Stages, Gateway!Containers
<1>4. \A d \in Gateway!Containers \ {c} : Gateway!Credentials(d)' = Gateway!Credentials(d)
  BY <1>1 DEF Gateway!Credentials
<1>5. LoggedIn'
  BY <1>1, <1>2, <1>4 DEF LoggedIn, Gateway!Containers
<1>6. Loaded'
  BY <1>1, <1>2 DEF Loaded, Gateway!Containers
<1> QED BY <1>3, <1>5, <1>6

LEMMA GatewayNext ==
    ASSUME Gateway!GatewayAssumption, GatewayInv, [Gateway!Next]_Gateway!vars
    PROVE  GatewayInv' /\ KeepsUuids(identities, identities')
<1>1. KeepsUuids(identities, identities)
  BY DEF KeepsUuids
<1>2. CASE Gateway!Configure \/ (\E s \in Gateway!Slots, p \in NewPorts : Gateway!SetPort(s, p)) \/ UNCHANGED Gateway!vars
  <2>1. /\ UNCHANGED <<env, pc, cred, loaded, password, identities, config, nodes>>
        /\ wanted' \in Settings
    BY <1>2 DEF Gateway!Configure, Gateway!SetPort, Gateway!vars, Gateway!files, GatewayInv, Placed
  <2>2. Placed' /\ LoggedIn' /\ Loaded'
    BY <2>1 DEF GatewayInv, Placed, LoggedIn, Loaded, Gateway!Credentials
  <2> QED BY <1>1, <2>1, <2>2 DEF GatewayInv
<1>3. ASSUME NEW c \in Gateway!Containers, Gateway!Step(c) \/ Gateway!Recreate(c) \/ Gateway!Crash(c)
      PROVE  GatewayInv' /\ KeepsUuids(identities, identities')
  <2>1. CASE \/ Gateway!ReadOrCreate \/ Gateway!Create \/ Gateway!Load("gateway", "identities") \/ Gateway!Load("bridge", "config")
             \/ Gateway!WriteConfig(c) \/ Gateway!Check(c) \/ Gateway!Exec(c) \/ Gateway!Restart(c) \/ Gateway!Recreate(c) \/ Gateway!Crash(c)
    <3>1. UNCHANGED identities
      BY <2>1 DEF Gateway!ReadOrCreate, Gateway!Create, Gateway!Load, Gateway!WriteConfig,
          Gateway!Check,
          Gateway!Exec, Gateway!Restart, Gateway!Recreate, Gateway!Crash, Gateway!files
    <3> QED BY <1>1, <2>1, <3>1, GatewayStarts, GatewayRuns, GatewayAgain
  <2> QED BY <1>3, <2>1, GatewayIdentities DEF Gateway!Step
<1> QED BY <1>2, <1>3 DEF Gateway!Next

\* Every published link is one the running sing-box accepts, no two share a
\* uuid, and containers with the same settings log in with the same credentials.
THEOREM GatewayFilesAgree == Gateway!Spec => []FilesAgree
<1> USE NodeAssumption DEF NodeAssumption
<1>1. Gateway!Init => GatewayInv
  BY GatewayInitial
<1>2. GatewayInv /\ [Gateway!Next]_Gateway!vars => GatewayInv'
  BY GatewayNext
<1>3. GatewayInv => FilesAgree
  <2> SUFFICES ASSUME GatewayInv PROVE FilesAgree
    OBVIOUS
  <2>1. Gateway!PublishedServes
    <3> SUFFICES ASSUME pc["gateway"] = "run"
                 PROVE  \A s \in DOMAIN nodes :
                          /\ s \in DOMAIN config["gateway"].users
                          /\ nodes[s] = [uuid |-> config["gateway"].users[s],
                                         key  |-> config["gateway"].key,
                                         sid  |-> config["gateway"].sid]
                          /\ \A t \in DOMAIN nodes \ {s} : nodes[t].uuid # nodes[s].uuid
      BY DEF Gateway!PublishedServes, Gateway!Runs
    <3>1. /\ DistinctUuids(loaded) /\ SharedKeys(loaded, env["gateway"]) /\ env["gateway"] \in Settings
          /\ nodes = Gateway!Requested(loaded, env["gateway"])
          /\ config["gateway"] = Gateway!GatewayConfig(nodes, cred["gateway"])
      BY DEF GatewayInv, Loaded, Placed, Gateway!Containers
    <3> QED BY <3>1, RequestedServes
  <2>2. Gateway!SameCredentials
    BY DEF GatewayInv, LoggedIn, Gateway!SameCredentials, Gateway!Runs, Gateway!Credentials,
        Gateway!Containers
  <2> QED BY <2>1, <2>2 DEF FilesAgree, Gateway!FilesAgree
<1> QED BY <1>1, <1>2, <1>3, PTL DEF Gateway!Spec

\* No start of the gateway, however settings change and containers die, takes a
\* stored uuid from its slot.
THEOREM GatewayKeepsUuids == Gateway!Spec => UuidsKept
<1> USE NodeAssumption DEF NodeAssumption
<1>1. Gateway!Init => GatewayInv
  BY GatewayInitial
<1>2. GatewayInv /\ [Gateway!Next]_Gateway!vars => GatewayInv' /\ KeepsUuids(identities, identities')
  BY GatewayNext
<1>3. KeepsUuids(identities, identities') =>
        [\A s \in DOMAIN identities : identities[s].uuid # Gateway!None =>
           /\ s \in DOMAIN identities'
           /\ identities'[s].uuid = identities[s].uuid]_Gateway!vars
  BY DEF KeepsUuids
<1> QED BY <1>1, <1>2, <1>3, PTL DEF Gateway!Spec, UuidsKept, Gateway!UuidsKept

-----------------------------------------------------------------------------
(* The types of the containers and of the files they share *)

Less == {p \in Nat \X Nat : p[1] < p[2]}

LEMMA LessWellFounded == IsWellFoundedOn(Less, Nat)
BY NatLessThanWellFounded, Zenon DEF OpToRel, Less

\* A set of slot counts has a greatest one.
LEMMA Greatest ==
    ASSUME NEW T, T \subseteq 0..34, T # {}
    PROVE  \E x \in T : \A y \in T : y <= x
<1> DEFINE Flipped == {34 - y : y \in T}
<1>1. Flipped \subseteq Nat /\ Flipped # {}
  <2>1. \A y \in T : 34 - y \in Nat
    OBVIOUS
  <2>2. PICK y : y \in T
    OBVIOUS
  <2>3. 34 - y \in Flipped
    BY <2>2
  <2> QED BY <2>1, <2>3
<1>2. PICK x \in Flipped : \A y \in Flipped : <<y, x>> \notin Less
  BY <1>1, LessWellFounded, WFMin
<1>3. PICK z \in T : x = 34 - z
  BY <1>2
<1>4. ASSUME NEW y \in T, z < y PROVE FALSE
  <2>1. 34 - y \in Flipped /\ 34 - y \in Nat /\ x \in Nat /\ 34 - y < x
    BY <1>3, <1>4
  <2>2. <<34 - y, x>> \in Nat \X Nat /\ <<34 - y, x>>[1] < <<34 - y, x>>[2]
    BY <2>1
  <2> QED BY <1>2, <2>1, <2>2, Zenon DEF Less
<1> QED BY <1>3, <1>4

\* Every slot has a port, from that of the first slot on.
LEMMA GatewaySlots ==
    ASSUME Gateway!GatewayAssumption, Settings # {}
    PROVE  Gateway!Slots \subseteq 1..Gateway!MAX_SLOT_COUNT
<1> DEFINE Numbers == {e.count : e \in Settings}
<1>1. Numbers \subseteq 0..34 /\ Numbers # {}
  BY DEF Gateway!GatewayAssumption, Gateway!MAX_SLOT_COUNT
<1>2. \E n \in Numbers : \A m \in Numbers : m <= n
  BY <1>1, Greatest
<1> DEFINE n == CHOOSE n \in Numbers : \A e \in Settings : e.count <= n
<1>3. n \in Numbers
  <2>1. \E m \in Numbers : \A e \in Settings : e.count <= m
    BY <1>2
  <2> QED BY <2>1, Zenon
<1>4. n \in 1..34
  BY <1>3 DEF Gateway!GatewayAssumption, Gateway!MAX_SLOT_COUNT
<1>5. Gateway!Slots = 1..n
  BY DEF Gateway!Slots
<1> HIDE DEF n
<1> QED BY <1>4, <1>5 DEF Gateway!MAX_SLOT_COUNT

\* A file of identities: records of the managed slots, some of them incomplete.
Proper(ids) == \A s \in DOMAIN ids : s \in 1..Gateway!Host /\ ids[s] \in Gateway!Identity
Whole(id) == Gateway!None \notin {id.uuid, id.key, id.sid}

\* What the gateway builds its configuration and the links from lacks nothing.
LoadedWhole == pc["gateway"] \in {"save", "config", "check", "publish", "exec", "run"} =>
    \A s \in Gateway!Managed(env["gateway"]) : s \in DOMAIN loaded /\ Whole(loaded[s])

GatewayTyped == Gateway!TypeOK /\ LoadedWhole

\* What load_or_create_identities keeps, completes and creates has the right type.
LEMMA MergedTyped ==
    ASSUME Gateway!GatewayAssumption, NEW ids, Proper(ids), NEW e \in Settings,
           NEW pair \in Gateway!SharedPairs(ids), NEW new \in Gateway!NewUuids(ids, e)
    PROVE  /\ Proper(Gateway!Merged(ids, e, pair, new))
           /\ \A s \in Gateway!Managed(e) : s \in DOMAIN Gateway!Merged(ids, e, pair, new)
                                         /\ Whole(Gateway!Merged(ids, e, pair, new)[s])
<1> DEFINE merged  == Gateway!Merged(ids, e, pair, new)
           Without == {s \in Gateway!Managed(e) : Gateway!UuidOf(ids, s) = Gateway!None}
<1>1. new \in [Without -> Uuids \ {Gateway!UuidOf(ids, s) : s \in DOMAIN ids}]
  BY DEF Gateway!NewUuids
<1>2. pair[1] \in Keys /\ pair[2] \in Sids
  BY DEF Gateway!SharedPairs, Gateway!KeySources, Proper, Gateway!Identity
<1>3. Gateway!Managed(e) \subseteq 1..Gateway!Host
  BY DEF Gateway!Managed, Gateway!Host, Gateway!MAX_SLOT_COUNT, Gateway!GatewayAssumption
<1>4. ASSUME NEW s \in Gateway!Managed(e)
      PROVE  IF s \in Without THEN new[s] \in Uuids
                              ELSE s \in DOMAIN ids /\ ids[s].uuid # Gateway!None /\ ids[s].uuid \in Uuids
  BY <1>1, <1>4 DEF Gateway!UuidOf, Proper, Gateway!Identity
<1>5. /\ DOMAIN merged = DOMAIN ids \cup Gateway!Managed(e)
      /\ \A s \in Gateway!Managed(e) : merged[s] =
           [uuid |-> IF s \in Without THEN new[s] ELSE ids[s].uuid, key |-> pair[1], sid |-> pair[2]]
      /\ \A s \in DOMAIN ids \ Gateway!Managed(e) : merged[s] = ids[s]
  BY <1>1 DEF Gateway!Merged
<1> HIDE DEF merged, Without
<1>6. ASSUME NEW s \in Gateway!Managed(e) PROVE merged[s] \in Gateway!Identity /\ Whole(merged[s])
  <2>1. PICK u \in Uuids : merged[s] = [uuid |-> u, key |-> pair[1], sid |-> pair[2]]
    BY <1>4, <1>5, <1>6
  <2> QED BY <1>2, <2>1 DEF Gateway!Identity, Whole, Gateway!GatewayAssumption
<1> QED BY <1>3, <1>5, <1>6 DEF Proper, merged

LEMMA GatewayTypedInitial == ASSUME Gateway!GatewayAssumption, Gateway!Init PROVE GatewayTyped
<1>1. Gateway!Slots \subseteq 1..34
  BY GatewaySlots DEF Gateway!Init, Gateway!MAX_SLOT_COUNT
<1>2. ports \in [Gateway!Slots -> Gateway!BASE_PROXY_PORT..(Gateway!BASE_PROXY_PORT + Gateway!MAX_SLOT_COUNT - 1)]
  BY <1>1 DEF Gateway!Init, Gateway!SlotPort, Gateway!BASE_PROXY_PORT, Gateway!MAX_SLOT_COUNT
<1>3. \A ids \in {identities, loaded, nodes} : Proper(ids)
  BY DEF Gateway!Init, Gateway!GatewayAssumption, Gateway!NoNodes, Proper
<1>4. /\ wanted \in Settings /\ env \in [Gateway!Containers -> Settings]
      /\ pc = [c \in Gateway!Containers |-> "start"] /\ \A c \in Gateway!Containers : cred[c] = Gateway!None
      /\ password = Gateway!None /\ DOMAIN nodes = {} /\ faults \in 0..MaxFaults
  BY DEF Gateway!Init, Gateway!GatewayAssumption, Gateway!NoNodes
<1>5. LoadedWhole
  BY <1>4 DEF LoadedWhole, Gateway!Containers
<1> QED BY <1>2, <1>3, <1>4, <1>5 DEF GatewayTyped, Gateway!TypeOK, Proper

\* A step moves one process or none; another is created with the settings.
LEMMA ContainersTyped ==
    ASSUME Gateway!GatewayAssumption, GatewayInv, GatewayTyped, [Gateway!Next]_Gateway!vars
    PROVE  /\ wanted' \in Settings /\ env' \in [Gateway!Containers -> Settings]
           /\ pc' \in [Gateway!Containers -> {"down", "start", "create", "identities", "save", "config", "check",
                              "publish", "exec", "run"}]
           /\ faults' \in 0..MaxFaults
<1> USE DEF GatewayTyped, Gateway!TypeOK, Gateway!GatewayAssumption
<1>1. CASE Gateway!Configure \/ (\E s \in Gateway!Slots, p \in NewPorts : Gateway!SetPort(s, p)) \/ UNCHANGED Gateway!vars
  <2>1. wanted' \in Settings /\ UNCHANGED <<env, pc>>
        /\ (faults' = faults \/ (faults < MaxFaults /\ faults' = faults + 1))
    BY <1>1 DEF Gateway!Configure, Gateway!SetPort, Gateway!vars
  <2> QED BY <2>1
<1>2. ASSUME NEW c \in Gateway!Containers, Gateway!Crash(c)
      PROVE  /\ UNCHANGED <<wanted, env>> /\ Gateway!Go(c, "down") /\ faults < MaxFaults /\ faults' = faults + 1
  BY <1>2 DEF Gateway!Crash
<1>3. ASSUME NEW c \in Gateway!Containers, Gateway!Recreate(c)
      PROVE  wanted' = wanted /\ env' = [env EXCEPT ![c] = wanted] /\ Gateway!Go(c, "start") /\ faults' = faults
  BY <1>3 DEF Gateway!Recreate, Gateway!Fresh
<1>4. ASSUME NEW c \in Gateway!Containers, Gateway!Step(c)
      PROVE  /\ UNCHANGED <<wanted, env, faults>>
             /\ \E next \in {"down", "start", "create", "identities", "save", "config", "check",
                              "publish", "exec", "run"} : Gateway!Go(c, next)
  BY <1>4 DEF Gateway!Step, Gateway!ReadOrCreate, Gateway!Create, Gateway!Load, Gateway!Identities,
      Gateway!SaveIdentities, Gateway!Publish, Gateway!WriteConfig, Gateway!Check, Gateway!Exec, Gateway!Restart,
      Gateway!Fresh
<1>5. ASSUME NEW c \in Gateway!Containers,
             NEW next \in {"down", "start", "create", "identities", "save", "config", "check",
                              "publish", "exec", "run"}, Gateway!Go(c, next)
      PROVE  pc' \in [Gateway!Containers -> {"down", "start", "create", "identities", "save", "config", "check",
                              "publish", "exec", "run"}]
  BY <1>5 DEF Gateway!Go
<1>6. ASSUME NEW c \in Gateway!Containers, Gateway!Step(c) \/ Gateway!Recreate(c) \/ Gateway!Crash(c)
      PROVE  /\ wanted' \in Settings /\ env' \in [Gateway!Containers -> Settings]
             /\ \E next \in {"down", "start", "create", "identities", "save", "config", "check",
                              "publish", "exec", "run"} : Gateway!Go(c, next)
             /\ faults' \in 0..MaxFaults
  BY <1>2, <1>3, <1>4, <1>6
<1> QED BY <1>1, <1>5, <1>6 DEF Gateway!Next

\* Credentials are read from .env or from the file that the manager writes.
LEMMA CredentialsTyped ==
    ASSUME Gateway!GatewayAssumption, GatewayInv, GatewayTyped, [Gateway!Next]_Gateway!vars
    PROVE  /\ \A c \in Gateway!Containers :
                cred'[c] \in Passwords \cup {Gateway!None} \cup {e.explicit : e \in Settings}
           /\ password' \in Passwords \cup {Gateway!None}
<1> DEFINE Known == Passwords \cup {Gateway!None} \cup {e.explicit : e \in Settings}
<1>1. ASSUME NEW c \in Gateway!Containers PROVE Gateway!Credentials(c) \in Known
  <2>1. env[c] \in Settings
    BY DEF GatewayInv, Placed
  <2> QED BY <2>1 DEF Gateway!Credentials, GatewayTyped, Gateway!TypeOK
<1>2. DOMAIN cred = Gateway!Containers /\ \A c \in Gateway!Containers : cred[c] \in Known
  BY DEF GatewayInv, Placed, GatewayTyped, Gateway!TypeOK
<1>3. ASSUME \/ Gateway!Configure \/ (\E s \in Gateway!Slots, p \in NewPorts : Gateway!SetPort(s, p))
             \/ UNCHANGED Gateway!vars
      PROVE  (\A d \in Gateway!Containers : cred'[d] \in Known) /\ password' \in Passwords \cup {Gateway!None}
  <2>1. UNCHANGED <<cred, password>>
    BY <1>3 DEF Gateway!Configure, Gateway!SetPort, Gateway!vars, Gateway!files
  <2>2. password \in Passwords \cup {Gateway!None}
    BY DEF GatewayTyped, Gateway!TypeOK
  <2> QED BY <1>2, <2>1, <2>2
<1>4. ASSUME NEW c \in Gateway!Containers, Gateway!Step(c) \/ Gateway!Recreate(c) \/ Gateway!Crash(c)
      PROVE  /\ UNCHANGED cred \/ \E p \in Known, d \in Gateway!Containers : cred' = [cred EXCEPT ![d] = p]
             /\ password' \in {password} \cup Passwords
  <2>1. CASE Gateway!Recreate(c) \/ Gateway!Crash(c) \/ Gateway!Restart(c)
    BY <2>1 DEF Gateway!Recreate, Gateway!Crash, Gateway!Restart, Gateway!Fresh, Gateway!Read, Gateway!files
  <2>2. CASE Gateway!ReadOrCreate
    BY <1>1, <2>2 DEF Gateway!ReadOrCreate, Gateway!Read, Gateway!files, Gateway!Containers
  <2>3. CASE Gateway!Create
    BY <2>3 DEF Gateway!Create, Gateway!Read, Gateway!Containers
  <2>4. CASE Gateway!Load(c, "identities") \/ Gateway!Load(c, "config")
    BY <1>1, <2>4 DEF Gateway!Load, Gateway!Read, Gateway!files
  <2>5. CASE Gateway!Identities \/ Gateway!SaveIdentities \/ Gateway!Publish \/ Gateway!WriteConfig(c)
             \/ Gateway!Check(c) \/ Gateway!Exec(c)
    BY <2>5 DEF Gateway!Identities, Gateway!SaveIdentities, Gateway!Publish, Gateway!WriteConfig, Gateway!Check,
        Gateway!Exec, Gateway!files
  <2> QED BY <1>4, <2>1, <2>2, <2>3, <2>4, <2>5 DEF Gateway!Step
<1>5. ASSUME NEW p \in Known, NEW d \in Gateway!Containers, cred' = [cred EXCEPT ![d] = p]
      PROVE  \A c \in Gateway!Containers : cred'[c] \in Known
  BY <1>2, <1>5
<1>6. ASSUME UNCHANGED cred PROVE \A c \in Gateway!Containers : cred'[c] \in Known
  BY <1>2, <1>6
<1>7. password \in Passwords \cup {Gateway!None}
  BY DEF GatewayTyped, Gateway!TypeOK
<1> HIDE DEF Known
<1>8. ASSUME NEW c \in Gateway!Containers, Gateway!Step(c) \/ Gateway!Recreate(c) \/ Gateway!Crash(c)
      PROVE  (\A d \in Gateway!Containers : cred'[d] \in Known) /\ password' \in Passwords \cup {Gateway!None}
  BY <1>4, <1>5, <1>6, <1>7, <1>8
<1> QED BY <1>3, <1>8 DEF Gateway!Next, Known

\* An administrator's port is one of the range, at any slot.
LEMMA PortsTyped ==
    ASSUME Gateway!GatewayAssumption, GatewayTyped, [Gateway!Next]_Gateway!vars
    PROVE  ports' \in [Gateway!Slots -> Gateway!BASE_PROXY_PORT..(Gateway!BASE_PROXY_PORT + Gateway!MAX_SLOT_COUNT - 1)]
<1>1. ASSUME NEW s \in Gateway!Slots, NEW p \in NewPorts, Gateway!SetPort(s, p)
      PROVE  ports' = [ports EXCEPT ![s] = p] /\ p \in Gateway!BASE_PROXY_PORT..(Gateway!BASE_PROXY_PORT + Gateway!MAX_SLOT_COUNT - 1)
  BY <1>1 DEF Gateway!SetPort, Gateway!GatewayAssumption
<1>2. ASSUME NEW c \in Gateway!Containers, Gateway!Step(c) \/ Gateway!Recreate(c) \/ Gateway!Crash(c)
      PROVE  ports' = ports
  BY <1>2 DEF Gateway!Step, Gateway!ReadOrCreate, Gateway!Create, Gateway!Load, Gateway!Identities,
      Gateway!SaveIdentities, Gateway!Publish, Gateway!WriteConfig, Gateway!Check, Gateway!Exec, Gateway!Restart,
      Gateway!Recreate, Gateway!Crash, Gateway!files
<1>3. CASE Gateway!Configure \/ UNCHANGED Gateway!vars
  BY <1>3 DEF Gateway!Configure, Gateway!vars, Gateway!files, GatewayTyped, Gateway!TypeOK
<1>4. ports \in [Gateway!Slots -> Gateway!BASE_PROXY_PORT..(Gateway!BASE_PROXY_PORT + Gateway!MAX_SLOT_COUNT - 1)]
  BY DEF GatewayTyped, Gateway!TypeOK
<1> QED BY <1>1, <1>2, <1>3, <1>4 DEF Gateway!Next

\* Identities are merged, saved and published; every record is one.
LEMMA IdentitiesTyped ==
    ASSUME Gateway!GatewayAssumption, GatewayInv, GatewayTyped, [Gateway!Next]_Gateway!vars
    PROVE  /\ \A ids \in {identities', loaded', nodes'} : Proper(ids)
           /\ \A s \in DOMAIN nodes' : Whole(nodes'[s])
           /\ LoadedWhole'
<1>1. /\ Proper(identities) /\ Proper(loaded) /\ Proper(nodes) /\ LoadedWhole
      /\ \A s \in DOMAIN nodes : Whole(nodes[s])
  BY DEF GatewayTyped, Gateway!TypeOK, Proper, Whole
<1>2. DOMAIN pc = Gateway!Containers /\ "gateway" \in Gateway!Containers /\ env["gateway"] \in Settings
  BY DEF GatewayInv, Placed, Gateway!Containers
<1>3. CASE Gateway!Identities
  <2>1. PICK pair \in Gateway!SharedPairs(identities), new \in Gateway!NewUuids(identities, env["gateway"]) :
          loaded' = Gateway!Merged(identities, env["gateway"], pair, new)
    BY <1>3 DEF Gateway!Identities
  <2>2. Proper(loaded') /\ \A s \in Gateway!Managed(env["gateway"]) : s \in DOMAIN loaded' /\ Whole(loaded'[s])
    BY <1>1, <1>2, <2>1, MergedTyped
  <2>3. UNCHANGED <<identities, nodes, env>>
    BY <1>3 DEF Gateway!Identities, Gateway!files
  <2> QED BY <1>1, <2>2, <2>3 DEF LoadedWhole
<1>4. CASE Gateway!SaveIdentities
  <2>1. pc["gateway"] = "save" /\ identities' = loaded /\ UNCHANGED <<env, loaded, nodes>>
    BY <1>4 DEF Gateway!SaveIdentities
  <2> QED BY <1>1, <2>1 DEF LoadedWhole
<1>5. CASE Gateway!Publish
  <2>1. pc["gateway"] = "publish" /\ nodes' = Gateway!Requested(loaded, env["gateway"]) /\ UNCHANGED <<env, loaded, identities>>
    BY <1>5 DEF Gateway!Publish
  <2>2. \A s \in DOMAIN nodes' : s \in DOMAIN loaded /\ nodes'[s] = loaded[s] /\ Whole(loaded[s])
    BY <1>1, <2>1 DEF LoadedWhole, Gateway!Requested
  <2>3. Proper(nodes') /\ \A s \in DOMAIN nodes' : Whole(nodes'[s])
    BY <1>1, <2>2 DEF Proper
  <2> QED BY <1>1, <2>1, <2>3 DEF LoadedWhole
<1>6. CASE \/ Gateway!ReadOrCreate \/ Gateway!Create \/ Gateway!Load("gateway", "identities") \/ Gateway!Load("bridge", "config")
           \/ (\E c \in Gateway!Containers : Gateway!WriteConfig(c) \/ Gateway!Check(c) \/ Gateway!Exec(c))
           \/ Gateway!Configure \/ (\E s \in Gateway!Slots, p \in NewPorts : Gateway!SetPort(s, p)) \/ UNCHANGED Gateway!vars
  <2>1. UNCHANGED <<env, loaded, identities, nodes>>
    BY <1>6 DEF Gateway!ReadOrCreate, Gateway!Create, Gateway!Load, Gateway!WriteConfig, Gateway!Check, Gateway!Exec,
        Gateway!Configure, Gateway!SetPort, Gateway!vars, Gateway!files
  <2>2. pc'["gateway"] \in {"save", "config", "check", "publish", "exec", "run"} =>
          pc["gateway"] \in {"save", "config", "check", "publish", "exec", "run"}
    BY <1>2, <1>6 DEF Gateway!ReadOrCreate, Gateway!Create, Gateway!Load, Gateway!WriteConfig, Gateway!Check,
        Gateway!Exec, Gateway!Configure, Gateway!SetPort, Gateway!vars, Gateway!files, Gateway!Go
  <2> QED BY <1>1, <2>1, <2>2 DEF LoadedWhole
<1>7. ASSUME NEW c \in Gateway!Containers, Gateway!Restart(c) \/ Gateway!Recreate(c) \/ Gateway!Crash(c)
      PROVE  /\ \A ids \in {identities', loaded', nodes'} : Proper(ids)
             /\ \A s \in DOMAIN nodes' : Whole(nodes'[s])
             /\ LoadedWhole'
  <2>1. /\ UNCHANGED <<identities, nodes>>
        /\ loaded' \in {loaded, Gateway!NoNodes} /\ (c # "gateway" => loaded' = loaded)
        /\ \A d \in Gateway!Containers \ {c} : env'[d] = env[d] /\ pc'[d] = pc[d]
        /\ pc'[c] \in {"start", "down"}
    BY <1>2, <1>7 DEF GatewayInv, Placed, Gateway!Restart, Gateway!Recreate, Gateway!Crash, Gateway!Fresh, Gateway!Go, Gateway!files
  <2>2. Proper(loaded')
    BY <1>1, <2>1 DEF Gateway!NoNodes, Proper
  <2>3. LoadedWhole'
    BY <1>1, <1>2, <2>1 DEF LoadedWhole
  <2> QED BY <1>1, <2>1, <2>2, <2>3
<1> QED BY <1>3, <1>4, <1>5, <1>6, <1>7 DEF Gateway!Next, Gateway!Step

\* Every reachable state of the containers and their files is well typed.
THEOREM GatewayTypeCorrect == Gateway!Spec => []Gateway!TypeOK
<1> USE NodeAssumption DEF NodeAssumption
<1>1. Gateway!Init => GatewayInv /\ GatewayTyped
  BY GatewayInitial, GatewayTypedInitial
<1>2. GatewayInv /\ GatewayTyped /\ [Gateway!Next]_Gateway!vars => (GatewayInv /\ GatewayTyped)'
  <2> SUFFICES ASSUME GatewayInv, GatewayTyped, [Gateway!Next]_Gateway!vars PROVE GatewayInv' /\ GatewayTyped'
    OBVIOUS
  <2>1. GatewayInv'
    BY GatewayNext
  <2>2. /\ \A ids \in {identities', loaded', nodes'} : Proper(ids)
        /\ \A s \in DOMAIN nodes' : Whole(nodes'[s])
        /\ LoadedWhole'
    BY IdentitiesTyped
  <2>3. /\ wanted' \in Settings /\ env' \in [Gateway!Containers -> Settings]
        /\ pc' \in [Gateway!Containers -> {"down", "start", "create", "identities", "save", "config", "check",
                              "publish", "exec", "run"}]
        /\ faults' \in 0..MaxFaults
    BY ContainersTyped
  <2>4. /\ \A c \in Gateway!Containers :
             cred'[c] \in Passwords \cup {Gateway!None} \cup {e.explicit : e \in Settings}
        /\ password' \in Passwords \cup {Gateway!None}
    BY CredentialsTyped
  <2>5. ports' \in [Gateway!Slots -> Gateway!BASE_PROXY_PORT..(Gateway!BASE_PROXY_PORT + Gateway!MAX_SLOT_COUNT - 1)]
    BY PortsTyped
  <2> QED BY <2>1, <2>2, <2>3, <2>4, <2>5 DEF GatewayTyped, Gateway!TypeOK, Proper, Whole
<1>3. GatewayTyped => Gateway!TypeOK
  BY DEF GatewayTyped
<1> QED BY <1>1, <1>2, <1>3, PTL DEF Gateway!Spec

-----------------------------------------------------------------------------
(* The single-exit manager *)

\* A dial acts for a tunnel that waits for it, until its end.
Dialling == \A d \in Dials : dial[d].pc # "idle" =>
    /\ dial[d].tun \in Tunnels /\ dial[d].node \in LiteNodes
    /\ tun[dial[d].tun].connecting /\ dial[d].gen <= generation
    /\ dial[d].pc # "finally" => ~tun[dial[d].tun].ready

\* The tunnel that maintain_pool has chosen is still without a dial, and nobody
\* else has claimed its entry.
Chosen ==
    /\ pool.pc \in {"pick", "claim", "launch"} => pool.tun \in Tunnels /\ ~tun[pool.tun].ready
    /\ pool.pc \in {"pick", "claim"} => ~tun[pool.tun].connecting
    /\ pool.pc \in {"claim", "launch"} => pool.node \in LiteNodes
    /\ pool.pc = "claim" => \A t \in Tunnels : tun[t].entry # pool.node
    /\ pool.pc = "launch" => /\ tun[pool.tun].connecting
                             /\ \A d \in Dials : dial[d].pc # "idle" => dial[d].tun # pool.tun

LiteInv == Lite!TypeOK /\ Dialling /\ Chosen /\ Lite!OneDial /\ Lite!DistinctEntries /\ Lite!ReadyIsWanted

LEMMA LiteInitial == ASSUME Lite!LiteAssumption, Lite!Init PROVE LiteInv
<1>1. Lite!TypeOK
  BY DEF Lite!Init, Lite!LiteAssumption, Lite!TypeOK, Lite!Unused, Lite!IdleDial, Lite!Scanning,
      Lite!Sleeping,
      Lite!TunnelRec, Lite!DialRec, Lite!ProcRec, Lite!PoolRec, Lite!HealthRec
<1>2. Dialling /\ Lite!OneDial /\ Chosen
  BY DEF Lite!Init, Dialling, Lite!OneDial, Chosen, Lite!IdleDial, Lite!Scanning
<1>3. Lite!DistinctEntries /\ Lite!ReadyIsWanted
  BY DEF Lite!Init, Lite!DistinctEntries, Lite!ReadyIsWanted, Lite!Unused
<1> QED BY <1>1, <1>2, <1>3 DEF LiteInv

LEMMA OtherTunnel ==
    ASSUME Lite!LiteAssumption, main \in Tunnels
    PROVE  Lite!Backup \in Tunnels /\ Lite!Backup # main
<1>1. \E t \in Tunnels : t # main
  BY DEF Lite!LiteAssumption
<1> QED BY <1>1 DEF Lite!Backup

LEMMA ProcessesTyped ==
    ASSUME Lite!TypeOK
    PROVE  /\ \A ps : Lite!Ended(ps) \in [Procs -> Lite!ProcRec]
           /\ \A q : Lite!Terminated(q) \in [Procs -> Lite!ProcRec]
<1> USE DEF Lite!TypeOK, Lite!ProcRec
<1>1. ASSUME NEW ps PROVE Lite!Ended(ps) \in [Procs -> Lite!ProcRec]
  BY DEF Lite!Ended
<1>2. ASSUME NEW q PROVE Lite!Terminated(q) \in [Procs -> Lite!ProcRec]
  BY DEF Lite!Terminated
<1> QED BY <1>1, <1>2

\* What leaves tunnels, dials and the choice alone.
LEMMA LiteElsewhere ==
    ASSUME LiteInv, UNCHANGED <<tun, main, target, generation, dial, pool>>,
           dead' \subseteq LiteNodes, reservoir' \subseteq LiteNodes, proc' \in [Procs -> Lite!ProcRec], health' \in Lite!HealthRec
    PROVE  LiteInv'
BY DEF LiteInv, Lite!TypeOK, Dialling, Chosen, Lite!OneDial, Lite!DistinctEntries, Lite!ReadyIsWanted,
    Lite!Matches

LEMMA LiteHealth ==
    ASSUME Lite!LiteAssumption, LiteInv,
           Lite!Snapshot \/ Lite!Healthy \/ Lite!Kick \/ Lite!Harvest \/ Lite!ProcEnds \/ UNCHANGED Lite!vars
    PROVE  LiteInv'
<1> USE DEF LiteInv
<1>1. UNCHANGED <<tun, main, target, generation, dial, pool>>
  BY DEF Lite!Snapshot, Lite!Healthy, Lite!Kick, Lite!Harvest, Lite!ProcEnds, Lite!vars
<1>2. dead' \subseteq LiteNodes
  BY DEF Lite!TypeOK, Lite!HealthRec, Lite!Snapshot, Lite!Healthy, Lite!Kick, Lite!Harvest,
      Lite!ProcEnds,
      Lite!vars
<1>3. reservoir' \subseteq LiteNodes
  BY DEF Lite!TypeOK, Lite!Snapshot, Lite!Healthy, Lite!Kick, Lite!Harvest, Lite!ProcEnds, Lite!vars
<1>4. proc' \in [Procs -> Lite!ProcRec]
  BY ProcessesTyped DEF Lite!TypeOK, Lite!Snapshot, Lite!Healthy, Lite!Kick, Lite!Harvest,
      Lite!ProcEnds,
      Lite!vars
<1>5. health' \in Lite!HealthRec
  BY DEF Lite!TypeOK, Lite!TunnelRec, Lite!HealthRec, Lite!Sleeping, Lite!Snapshot, Lite!Healthy,
      Lite!Kick,
      Lite!Harvest, Lite!ProcEnds, Lite!vars
<1> QED BY <1>1, <1>2, <1>3, <1>4, <1>5, LiteElsewhere

\* A dial goes on, without an end or a result for its tunnel.
LEMMA LiteDialMoves ==
    ASSUME LiteInv, NEW d \in Dials, dial[d].pc \notin {"idle", "finally"},
           NEW r \in Lite!DialRec, dial' = [dial EXCEPT ![d] = r],
           r.pc # "idle", r.tun = dial[d].tun, r.node = dial[d].node, r.gen = dial[d].gen,
           UNCHANGED <<main, target, generation, reservoir, pool, health>>,
           dead' \subseteq LiteNodes, proc' \in [Procs -> Lite!ProcRec],
           tun' \in [Tunnels -> Lite!TunnelRec],
           \A t \in Tunnels : /\ tun'[t].ready = tun[t].ready /\ tun'[t].connecting = tun[t].connecting
                              /\ tun'[t].entry = tun[t].entry /\ tun'[t].node = tun[t].node
    PROVE  LiteInv'
<1> USE DEF LiteInv
<1>0. dial'[d] = r /\ \A e \in Dials \ {d} : dial'[e] = dial[e]
  BY DEF Lite!TypeOK
<1>1. Lite!TypeOK'
  BY DEF Lite!TypeOK
<1>2. Dialling'
  BY <1>0 DEF Dialling
<1>3. Chosen'
  BY <1>0 DEF Chosen
<1>4. Lite!OneDial'
  BY <1>0 DEF Lite!OneDial
<1>5. Lite!DistinctEntries' /\ Lite!ReadyIsWanted'
  BY DEF Lite!DistinctEntries, Lite!ReadyIsWanted, Lite!Matches
<1> QED BY <1>1, <1>2, <1>3, <1>4, <1>5

LEMMA LiteDial ==
    ASSUME Lite!LiteAssumption, LiteInv, NEW d \in Dials,
           \/ Lite!Spawn(d) \/ Lite!Register(d) \/ Lite!Initialized(d) \/ Lite!Rejected(d) \/ Lite!Recheck(d)
           \/ Lite!Streams(d) \/ Lite!NoStream(d) \/ Lite!Raises(d)
    PROVE  LiteInv'
<1> USE DEF LiteInv
<1>1. dial[d] \in Lite!DialRec /\ dial[d].pc \notin {"idle", "finally"}
  BY DEF Lite!TypeOK, Lite!Spawn, Lite!Register, Lite!Initialized, Lite!Rejected, Lite!Recheck,
      Lite!Streams,
      Lite!NoStream, Lite!Raises, Lite!AtDial
<1>2. UNCHANGED <<main, target, generation, reservoir, pool, health>>
  BY DEF Lite!Spawn, Lite!Register, Lite!Initialized, Lite!Rejected, Lite!Recheck, Lite!Streams,
      Lite!NoStream,
      Lite!Raises
<1>3. dead' \subseteq LiteNodes
  BY <1>1 DEF Lite!TypeOK, Dialling, Lite!Spawn, Lite!Register, Lite!Initialized, Lite!Rejected,
      Lite!Recheck,
      Lite!Streams, Lite!NoStream, Lite!Raises
<1>4. proc' \in [Procs -> Lite!ProcRec]
  <2>1. CASE Lite!Spawn(d)
    <3>1. PICK p \in Procs : proc' = [proc EXCEPT ![p] = [state |-> "running", dev |-> dial[d].tun]]
      BY <2>1 DEF Lite!Spawn
    <3> QED BY <1>1, <3>1 DEF Lite!TypeOK, Lite!ProcRec, Lite!DialRec
  <2> QED BY <2>1, ProcessesTyped DEF Lite!TypeOK, Lite!Register, Lite!Initialized, Lite!Rejected,
      Lite!Recheck, Lite!Streams, Lite!NoStream, Lite!Raises
<1>5. PICK r \in Lite!DialRec : /\ dial' = [dial EXCEPT ![d] = r] /\ r.pc # "idle"
                           /\ r.tun = dial[d].tun /\ r.node = dial[d].node /\ r.gen = dial[d].gen
  <2>1. ASSUME NEW stage \in {"spawned", "wait", "inited", "probe", "ready", "finally"},
               Lite!GoDial(d, stage)
        PROVE  \E r \in Lite!DialRec : /\ dial' = [dial EXCEPT ![d] = r] /\ r.pc # "idle"
                           /\ r.tun = dial[d].tun /\ r.node = dial[d].node /\ r.gen = dial[d].gen
    <3> DEFINE r == [dial[d] EXCEPT !.pc = stage]
    <3>1. r \in Lite!DialRec /\ r.pc = stage /\ r.tun = dial[d].tun /\ r.node = dial[d].node /\ r.gen = dial[d].gen
      BY <1>1 DEF Lite!DialRec
    <3>2. dial' = [dial EXCEPT ![d] = r]
      BY <2>1 DEF Lite!GoDial
    <3> QED BY <3>1, <3>2
  <2>2. CASE Lite!Spawn(d)
    <3>1. PICK p \in Procs : dial' = [dial EXCEPT ![d].pc = "spawned", ![d].proc = p]
      BY <2>2 DEF Lite!Spawn
    <3> DEFINE r == [dial[d] EXCEPT !.pc = "spawned", !.proc = p]
    <3>2. r \in Lite!DialRec /\ r.pc = "spawned" /\ r.tun = dial[d].tun /\ r.node = dial[d].node /\ r.gen = dial[d].gen
      BY <1>1 DEF Lite!DialRec
    <3>3. dial' = [dial EXCEPT ![d] = r]
      BY <3>1 DEF Lite!TypeOK
    <3> QED BY <3>2, <3>3
  <2> QED BY <2>1, <2>2 DEF Lite!Register, Lite!Initialized, Lite!Rejected, Lite!Recheck,
              Lite!Streams,
      Lite!NoStream, Lite!Raises
<1>6. /\ tun' \in [Tunnels -> Lite!TunnelRec]
      /\ \A t \in Tunnels : /\ tun'[t].ready = tun[t].ready /\ tun'[t].connecting = tun[t].connecting
                            /\ tun'[t].entry = tun[t].entry /\ tun'[t].node = tun[t].node
  <2>1. tun' = tun \/ tun' = [tun EXCEPT ![dial[d].tun].process = dial[d].proc]
    BY DEF Lite!Spawn, Lite!Register, Lite!Initialized, Lite!Rejected, Lite!Recheck, Lite!Streams,
        Lite!NoStream, Lite!Raises
  <2>2. dial[d].proc \in Procs \cup {Absent}
    BY <1>1 DEF Lite!DialRec
  <2> QED BY <2>1, <2>2 DEF Lite!TypeOK, Lite!TunnelRec
<1> QED BY <1>1, <1>2, <1>3, <1>4, <1>5, <1>6, LiteDialMoves

LEMMA LiteCommit ==
    ASSUME Lite!LiteAssumption, LiteInv, NEW d \in Dials, Lite!Commit(d)
    PROVE  LiteInv'
<1> USE DEF LiteInv
<1> DEFINE t == dial[d].tun
<1>1. /\ dial[d] \in Lite!DialRec /\ dial[d].pc = "ready" /\ t \in Tunnels /\ dial[d].node \in LiteNodes
      /\ dial[d].proc \in Procs \cup {Absent}
  BY DEF Lite!Commit, Lite!AtDial, Lite!TypeOK, Dialling, Lite!DialRec
<1>2. /\ dial'[d].pc = "finally" /\ dial'[d].tun = t /\ dial'[d].node = dial[d].node
      /\ dial'[d].gen = dial[d].gen /\ dial' \in [Dials -> Lite!DialRec]
      /\ \A e \in Dials \ {d} : dial'[e] = dial[e]
      /\ UNCHANGED <<main, target, generation, dead, reservoir, pool, health>>
  BY <1>1 DEF Lite!Commit, Lite!GoDial, Lite!TypeOK, Lite!DialRec
<1>3. \/ tun' = tun /\ proc' = Lite!Terminated(dial[d].proc)
      \/ /\ Lite!Matches(dial[d].node) /\ proc' = proc
         /\ tun' = [tun EXCEPT ![t].process = dial[d].proc, ![t].node = dial[d].node, ![t].ready = TRUE]
  BY DEF Lite!Commit
<1>4. /\ tun' \in [Tunnels -> Lite!TunnelRec]
      /\ \A u \in Tunnels \ {t} : tun'[u] = tun[u]
      /\ tun'[t].entry = tun[t].entry /\ tun'[t].connecting = tun[t].connecting
      /\ \/ tun'[t] = tun[t]
         \/ tun'[t].node = dial[d].node /\ Lite!Matches(dial[d].node)
  <2>1. CASE tun' = tun
    BY <1>1, <2>1 DEF Lite!TypeOK
  <2>2. CASE /\ Lite!Matches(dial[d].node)
             /\ tun' = [tun EXCEPT ![t].process = dial[d].proc, ![t].node = dial[d].node, ![t].ready = TRUE]
    <3> DEFINE w == [tun[t] EXCEPT !.process = dial[d].proc, !.node = dial[d].node, !.ready = TRUE]
    <3>1. tun' = [tun EXCEPT ![t] = w]
      BY <2>2, <1>1 DEF Lite!TypeOK
    <3>2. w \in Lite!TunnelRec /\ w.entry = tun[t].entry /\ w.connecting = tun[t].connecting /\ w.node = dial[d].node
      <4>1. tun[t] \in Lite!TunnelRec
        BY <1>1 DEF Lite!TypeOK
      <4> QED BY <1>1, <4>1 DEF Lite!TunnelRec
    <3> HIDE DEF w
    <3> QED BY <1>1, <2>2, <3>1, <3>2 DEF Lite!TypeOK
  <2> QED BY <1>3, <2>1, <2>2
<1>5. Lite!TypeOK'
  BY <1>2, <1>3, <1>4, ProcessesTyped DEF Lite!TypeOK
<1>6. Dialling' /\ Lite!OneDial'
  BY <1>1, <1>2, <1>4 DEF Dialling, Lite!OneDial
<1>7. Chosen'
  <2>1. pool.pc \in {"pick", "claim", "launch"} => pool.tun # t
    BY <1>1 DEF Chosen, Dialling
  <2> QED BY <1>1, <1>2, <1>4, <2>1 DEF Chosen
<1>8. Lite!DistinctEntries' /\ Lite!ReadyIsWanted'
  BY <1>1, <1>2, <1>4 DEF Lite!DistinctEntries, Lite!ReadyIsWanted, Lite!Matches
<1> QED BY <1>5, <1>6, <1>7, <1>8

LEMMA LiteFinally ==
    ASSUME Lite!LiteAssumption, LiteInv, NEW d \in Dials, Lite!Finally(d)
    PROVE  LiteInv'
<1> USE DEF LiteInv
<1> DEFINE t == dial[d].tun
<1>1. dial[d].pc = "finally" /\ t \in Tunnels /\ tun[t].connecting
  BY DEF Lite!Finally, Lite!AtDial, Dialling
<1>2. /\ dial'[d] = Lite!IdleDial /\ \A e \in Dials \ {d} : dial'[e] = dial[e]
      /\ dial' \in [Dials -> Lite!DialRec]
      /\ UNCHANGED <<main, target, generation, dead, reservoir, proc, pool, health>>
  <2>1. Lite!IdleDial \in Lite!DialRec
    BY DEF Lite!IdleDial, Lite!DialRec, Lite!LiteAssumption
  <2> QED BY <2>1 DEF Lite!Finally, Lite!TypeOK
<1>3. /\ tun' \in [Tunnels -> Lite!TunnelRec]
      /\ \A u \in Tunnels \ {t} : tun'[u] = tun[u]
      /\ tun'[t].ready = tun[t].ready /\ tun'[t].node = tun[t].node
      /\ tun'[t].entry \in {tun[t].entry, Absent}
  <2> DEFINE w == [tun[t] EXCEPT !.connecting = FALSE, !.entry = IF tun[t].ready THEN @ ELSE Absent]
  <2>1. tun' = [tun EXCEPT ![t] = w]
    BY <1>1 DEF Lite!Finally, Lite!TypeOK
  <2>2. w \in Lite!TunnelRec /\ w.ready = tun[t].ready /\ w.node = tun[t].node /\ w.entry \in {tun[t].entry, Absent}
    BY <1>1 DEF Lite!TypeOK, Lite!TunnelRec
  <2> HIDE DEF w
  <2> QED BY <1>1, <2>1, <2>2 DEF Lite!TypeOK
<1>4. Lite!TypeOK'
  BY <1>2, <1>3 DEF Lite!TypeOK
<1>5. Dialling' /\ Lite!OneDial'
  BY <1>1, <1>2, <1>3 DEF Dialling, Lite!OneDial, Lite!IdleDial
<1>6. Chosen'
  <2>1. pool.pc \in {"pick", "claim", "launch"} => pool.tun # t
    BY <1>1 DEF Chosen, Lite!Finally, Lite!AtDial
  <2>2. \A u \in Tunnels : tun'[u].entry \in {tun[u].entry, Absent} /\ tun'[u].ready = tun[u].ready
    BY <1>3
  <2>3. Absent \notin LiteNodes
    BY DEF Lite!LiteAssumption
  <2> QED BY <1>2, <1>3, <2>1, <2>2, <2>3 DEF Chosen, Lite!IdleDial
<1>7. Lite!DistinctEntries' /\ Lite!ReadyIsWanted'
  BY <1>2, <1>3 DEF Lite!DistinctEntries, Lite!ReadyIsWanted, Lite!Matches
<1> QED BY <1>4, <1>5, <1>6, <1>7

\* The pool looks for dead tunnels: the main one is reset, if anything.
LEMMA LiteScans == ASSUME Lite!LiteAssumption, LiteInv, Lite!TakeOver \/ Lite!Scan PROVE LiteInv'
<1> USE DEF LiteInv
<1>1. /\ \/ tun' = tun
         \/ ~tun[main].connecting /\ tun' = [tun EXCEPT ![main] = Lite!Unused]
      /\ main' \in {main, Lite!Backup} /\ pool' = [pool EXCEPT !.pc = "needs"]
      /\ UNCHANGED <<target, generation, dial, health>>
  BY DEF Lite!TakeOver, Lite!Scan, Lite!MainDead
<1>2. proc' \in [Procs -> Lite!ProcRec]
  BY ProcessesTyped DEF Lite!TakeOver, Lite!Scan, Lite!TypeOK
<1>3. dead' \subseteq LiteNodes /\ reservoir' \subseteq LiteNodes
  BY DEF Lite!TakeOver, Lite!Scan, Lite!Expire, Lite!TypeOK
<1>4. main \in Tunnels /\ main' \in Tunnels
  BY <1>1, OtherTunnel DEF Lite!TypeOK
<1>5. tun' \in [Tunnels -> Lite!TunnelRec]
  <2>1. Lite!Unused \in Lite!TunnelRec
    BY DEF Lite!Unused, Lite!TunnelRec
  <2> QED BY <1>1, <1>4, <2>1 DEF Lite!TypeOK
<1>6. pool' \in Lite!PoolRec /\ pool'.pc = "needs"
  BY <1>1 DEF Lite!TypeOK, Lite!PoolRec
<1>7. Lite!TypeOK'
  BY <1>1, <1>2, <1>3, <1>4, <1>5, <1>6 DEF Lite!TypeOK
<1>8. \A t \in Tunnels : tun'[t] = tun[t] \/ (~tun[t].connecting /\ tun'[t] = Lite!Unused)
  BY <1>1, <1>4 DEF Lite!TypeOK
<1>9. Dialling' /\ Lite!OneDial' /\ Chosen'
  BY <1>1, <1>6, <1>8 DEF Dialling, Lite!OneDial, Chosen
<1>10. Lite!DistinctEntries' /\ Lite!ReadyIsWanted'
  BY <1>1, <1>8 DEF Lite!DistinctEntries, Lite!ReadyIsWanted, Lite!Matches, Lite!Unused
<1> QED BY <1>7, <1>9, <1>10

LEMMA LitePicks == ASSUME Lite!LiteAssumption, LiteInv, Lite!Decide \/ Lite!Pick PROVE LiteInv'
<1> USE DEF LiteInv
<1>1. /\ UNCHANGED <<tun, main, target, generation, reservoir, proc, dial, health>>
      /\ dead' \subseteq LiteNodes
  BY DEF Lite!Decide, Lite!Pick, Lite!TypeOK
<1>2. \/ pool' = Lite!Scanning
      \/ /\ pool'.pc = "pick" /\ pool'.tun \in Tunnels /\ Lite!Needs(pool'.tun)
      \/ /\ pool'.pc = "claim" /\ pool'.tun \in Tunnels /\ pool'.node \in LiteNodes /\ Lite!Needs(pool'.tun)
         /\ \A t \in Tunnels : tun[t].entry # pool'.node
  <2>1. CASE Lite!Decide
    BY <2>1, OtherTunnel DEF Lite!Decide, Lite!TypeOK, Lite!PoolRec
  <2>2. CASE Lite!Pick
    <3>1. /\ pool.pc = "pick" /\ pool.tun \in Tunnels /\ Lite!Needs(pool.tun)
          /\ \/ pool' = Lite!Scanning
             \/ \E n \in Lite!Fitting \ Lite!Active : pool' = [pool EXCEPT !.pc = "claim", !.node = n]
      BY <2>2 DEF Lite!Pick, Chosen, Lite!Needs, Lite!Candidates
    <3>2. \A n \in Lite!Fitting \ Lite!Active : n \in LiteNodes /\ \A t \in Tunnels : tun[t].entry # n
      BY DEF Lite!Fitting, Lite!Active, Lite!TypeOK, Lite!LiteAssumption
    <3> QED BY <3>1, <3>2 DEF Lite!TypeOK, Lite!PoolRec
  <2> QED BY <2>1, <2>2
<1>3. pool' \in Lite!PoolRec
  <2>1. Lite!Scanning \in Lite!PoolRec /\ Lite!Fitting \subseteq LiteNodes /\ Lite!Candidates \subseteq LiteNodes
        /\ main \in Tunnels /\ Lite!Backup \in Tunnels
    BY OtherTunnel DEF Lite!Scanning, Lite!PoolRec, Lite!Fitting, Lite!Candidates, Lite!TypeOK
  <2>2. CASE Lite!Decide
    BY <2>1, <2>2 DEF Lite!Decide, Lite!TypeOK, Lite!PoolRec
  <2>3. CASE Lite!Pick
    <3>1. \/ pool' = Lite!Scanning
          \/ \E n \in LiteNodes : pool' = [pool EXCEPT !.pc = "claim", !.node = n]
      BY <2>1, <2>3 DEF Lite!Pick
    <3> QED BY <2>1, <3>1 DEF Lite!TypeOK, Lite!PoolRec
  <2> QED BY <2>2, <2>3
<1>4. Lite!TypeOK'
  BY <1>1, <1>3 DEF Lite!TypeOK
<1>5. Dialling' /\ Lite!OneDial' /\ Lite!DistinctEntries' /\ Lite!ReadyIsWanted'
  BY <1>1 DEF Dialling, Lite!OneDial, Lite!DistinctEntries, Lite!ReadyIsWanted, Lite!Matches
<1>6. Chosen'
  BY <1>1, <1>2 DEF Chosen, Lite!Needs, Lite!Scanning
<1> QED BY <1>4, <1>5, <1>6

LEMMA LiteClaims == ASSUME Lite!LiteAssumption, LiteInv, Lite!Claim PROVE LiteInv'
<1> USE DEF LiteInv
<1> DEFINE t == pool.tun
<1>1. /\ t \in Tunnels /\ pool.node \in LiteNodes /\ ~tun[t].ready /\ ~tun[t].connecting
      /\ \A u \in Tunnels : tun[u].entry # pool.node
  BY DEF Lite!Claim, Chosen
<1>2. /\ pool' \in Lite!PoolRec /\ pool'.pc = "launch" /\ pool'.tun = t /\ pool'.node = pool.node
      /\ UNCHANGED <<main, target, generation, dead, reservoir, proc, dial, health>>
  BY DEF Lite!Claim, Lite!TypeOK, Lite!PoolRec
<1>3. /\ tun' \in [Tunnels -> Lite!TunnelRec]
      /\ \A u \in Tunnels \ {t} : tun'[u] = tun[u]
      /\ tun'[t].ready = tun[t].ready /\ tun'[t].node = tun[t].node
      /\ tun'[t].connecting = TRUE /\ tun'[t].entry = pool.node
  BY <1>1 DEF Lite!Claim, Lite!TypeOK, Lite!TunnelRec
<1>4. Lite!TypeOK'
  BY <1>2, <1>3 DEF Lite!TypeOK
<1>5. \A d \in Dials : dial[d].pc # "idle" => dial[d].tun # t
  BY <1>1 DEF Dialling
<1>6. Dialling' /\ Lite!OneDial'
  BY <1>1, <1>2, <1>3, <1>5 DEF Dialling, Lite!OneDial
<1>7. Chosen'
  BY <1>1, <1>2, <1>3, <1>5 DEF Chosen
<1>8. Lite!DistinctEntries' /\ Lite!ReadyIsWanted'
  BY <1>1, <1>2, <1>3 DEF Lite!DistinctEntries, Lite!ReadyIsWanted, Lite!Matches
<1> QED BY <1>4, <1>6, <1>7, <1>8

LEMMA LiteLaunches == ASSUME Lite!LiteAssumption, LiteInv, Lite!Launch PROVE LiteInv'
<1> USE DEF LiteInv
<1>1. /\ pool.tun \in Tunnels /\ pool.node \in LiteNodes /\ ~tun[pool.tun].ready /\ tun[pool.tun].connecting
      /\ \A d \in Dials : dial[d].pc # "idle" => dial[d].tun # pool.tun
  BY DEF Lite!Launch, Chosen
<1> DEFINE r == [pc |-> "start", tun |-> pool.tun, node |-> pool.node, gen |-> generation, proc |-> Absent]
<1>2. PICK d \in Dials : dial[d].pc = "idle" /\ dial' = [dial EXCEPT ![d] = r]
  BY DEF Lite!Launch
<1>3. r \in Lite!DialRec
  BY <1>1 DEF Lite!TypeOK, Lite!DialRec
<1>4. /\ dial' \in [Dials -> Lite!DialRec] /\ dial'[d] = r /\ \A e \in Dials \ {d} : dial'[e] = dial[e]
  BY <1>2, <1>3 DEF Lite!TypeOK
<1>5. pool' = Lite!Scanning /\ UNCHANGED <<tun, main, target, generation, dead, reservoir, proc, health>>
  BY DEF Lite!Launch
<1>6. Lite!TypeOK'
  BY <1>4, <1>5 DEF Lite!TypeOK, Lite!PoolRec, Lite!Scanning
<1>7. generation <= generation
  BY DEF Lite!TypeOK, Lite!LiteAssumption
<1>8. Dialling' /\ Lite!OneDial'
  BY <1>1, <1>4, <1>5, <1>7 DEF Dialling, Lite!OneDial
<1>9. Chosen' /\ Lite!DistinctEntries' /\ Lite!ReadyIsWanted'
  BY <1>5 DEF Chosen, Lite!Scanning, Lite!DistinctEntries, Lite!ReadyIsWanted, Lite!Matches
<1> QED BY <1>6, <1>8, <1>9

LEMMA LiteSwitch == ASSUME Lite!LiteAssumption, LiteInv, Lite!Switch PROVE LiteInv'
<1> USE DEF LiteInv
<1>1. /\ UNCHANGED <<main, reservoir, dial, pool, health>> /\ target' \in Countries \cup {Anywhere}
      /\ generation' = generation + 1 /\ generation' \in 0..MaxSwitches /\ generation \in Nat
  BY DEF Lite!Switch, Lite!TypeOK, Lite!LiteAssumption
<1>2. proc' \in [Procs -> Lite!ProcRec]
  BY ProcessesTyped DEF Lite!Switch
<1>3. dead' \subseteq LiteNodes
  BY DEF Lite!Switch, Lite!TypeOK, Lite!TunnelRec
<1>4. /\ tun' \in [Tunnels -> Lite!TunnelRec]
      /\ \A t \in Tunnels : /\ tun'[t].connecting = tun[t].connecting /\ tun'[t].ready = FALSE
                            /\ tun'[t].entry = Absent
  BY DEF Lite!Switch, Lite!TypeOK, Lite!TunnelRec, Lite!Unused
<1>5. Lite!TypeOK'
  BY <1>1, <1>2, <1>3, <1>4 DEF Lite!TypeOK
<1>6. Dialling' /\ Lite!OneDial'
  <2>1. \A d \in Dials : dial[d].gen <= generation => dial[d].gen <= generation'
    BY <1>1 DEF Lite!TypeOK, Lite!DialRec
  <2> QED BY <1>1, <1>4, <2>1 DEF Dialling, Lite!OneDial
<1>7. Chosen'
  BY <1>1, <1>4, Absent \notin LiteNodes DEF Chosen, Lite!LiteAssumption
<1>8. Lite!DistinctEntries' /\ Lite!ReadyIsWanted'
  BY <1>1, <1>4 DEF Lite!DistinctEntries, Lite!ReadyIsWanted
<1> QED BY <1>5, <1>6, <1>7, <1>8

LEMMA LiteSettle == ASSUME Lite!LiteAssumption, LiteInv, Lite!Settle PROVE LiteInv'
<1> USE DEF LiteInv
<1>1. health' = Lite!Sleeping /\ UNCHANGED <<main, target, generation, dead, reservoir, proc, dial, pool>>
  BY DEF Lite!Settle
<1>2. /\ tun' \in [Tunnels -> Lite!TunnelRec]
      /\ \A t \in Tunnels : /\ tun'[t].connecting = tun[t].connecting /\ tun'[t].entry = tun[t].entry
                            /\ \/ tun'[t] = tun[t]
                               \/ tun'[t].ready = FALSE
  <2> DEFINE t == health.tun
             w == [tun[t] EXCEPT !.ready = FALSE, !.node = Absent]
  <2>1. CASE tun' = tun
    BY <2>1 DEF Lite!TypeOK
  <2>2. CASE tun' = [tun EXCEPT ![t].ready = FALSE, ![t].node = Absent]
    <3>1. tun' = [tun EXCEPT ![t] = w]
      BY <2>2 DEF Lite!TypeOK
    <3>2. t \in Tunnels => w \in Lite!TunnelRec /\ w.ready = FALSE /\ w.connecting = tun[t].connecting /\ w.entry = tun[t].entry
      BY DEF Lite!TypeOK, Lite!TunnelRec
    <3> HIDE DEF w
    <3> QED BY <3>1, <3>2 DEF Lite!TypeOK
  <2> QED BY <2>1, <2>2 DEF Lite!Settle
<1>3. Lite!TypeOK'
  BY <1>1, <1>2 DEF Lite!TypeOK, Lite!HealthRec, Lite!Sleeping
<1>4. Dialling' /\ Lite!OneDial'
  BY <1>1, <1>2 DEF Dialling, Lite!OneDial
<1>5. Chosen'
  BY <1>1, <1>2 DEF Chosen
<1>6. Lite!DistinctEntries' /\ Lite!ReadyIsWanted'
  BY <1>1, <1>2 DEF Lite!DistinctEntries, Lite!ReadyIsWanted, Lite!Matches
<1> QED BY <1>3, <1>4, <1>5, <1>6

LEMMA LiteNext == ASSUME Lite!LiteAssumption, LiteInv, [Lite!Next]_Lite!vars PROVE LiteInv'
BY LiteHealth, LiteDial, LiteCommit, LiteFinally, LiteScans, LitePicks, LiteClaims, LiteLaunches,
    LiteSwitch,
    LiteSettle
   DEF Lite!Next, Lite!Maintain, Lite!Dial, Lite!Check

\* Every reachable state of the single-exit manager is well typed.
THEOREM LiteTypeCorrect == Lite!Spec => []Lite!TypeOK
<1> USE NodeAssumption DEF NodeAssumption
<1>1. Lite!Init => LiteInv
  BY LiteInitial
<1>2. LiteInv /\ [Lite!Next]_Lite!vars => LiteInv'
  BY LiteNext
<1>3. LiteInv => Lite!TypeOK
  BY DEF LiteInv
<1> QED BY <1>1, <1>2, <1>3, PTL DEF Lite!Spec

\* Whatever fails, a tunnel that is ready serves the wanted country, no two claim
\* the same entry and none has two dials.
THEOREM LiteClaimed ==
    Lite!Spec => [](Lite!ReadyIsWanted /\ Lite!DistinctEntries /\ Lite!OneDial)
<1> USE NodeAssumption DEF NodeAssumption
<1>1. Lite!Init => LiteInv
  BY LiteInitial
<1>2. LiteInv /\ [Lite!Next]_Lite!vars => LiteInv'
  BY LiteNext
<1>3. LiteInv => Lite!ReadyIsWanted /\ Lite!DistinctEntries /\ Lite!OneDial
  BY DEF LiteInv
<1> QED BY <1>1, <1>2, <1>3, PTL DEF Lite!Spec

Running(p) == p \in Procs /\ proc[p].state = "running"
Linked(d)  == dial[d].pc \in {"wait", "inited", "probe", "ready"}

\* A process has one owner, by whom it is ended before it is forgotten: a dial
\* that is not registered yet, or the tunnel it was started for.
ProcessInv ==
    /\ \A d \in Dials : (dial[d].pc \in {"idle", "start"}) = (dial[d].proc = Absent)
    /\ \A d, e \in Dials : dial[d].proc # Absent /\ dial[d].proc = dial[e].proc => d = e
    /\ \A d \in Dials : Running(dial[d].proc) => proc[dial[d].proc].dev = dial[d].tun
    /\ \A d \in Dials : Linked(d) /\ ~Lite!Superseded(d) => tun[dial[d].tun].process = dial[d].proc
    /\ \A t \in Tunnels : ~tun[t].ready /\ Running(tun[t].process)
         => \E d \in Dials : Linked(d) /\ dial[d].tun = t /\ dial[d].proc = tun[t].process
    /\ \A p \in Procs : Running(p) => proc[p].dev \in Tunnels /\ Lite!Owned(p)
    /\ health.pc # "sleep" => health.proc \in Procs
    /\ health.pc = "kicked" => proc[health.proc].state = "ended"

\* Processes only end.
Ebbing == \A p \in Procs : /\ Running(p)' => proc'[p] = proc[p]
                           /\ proc[p].state = "ended" => proc'[p].state = "ended"

LEMMA ProcessesEbb ==
    ASSUME Lite!TypeOK
    PROVE  /\ proc' = proc => Ebbing
           /\ \A ps : proc' = Lite!Ended(ps) => Ebbing /\ \A p \in Procs : p \in ps => proc'[p].state = "ended"
           /\ \A q : proc' = Lite!Terminated(q) => Ebbing /\ ~Running(q)'
<1>1. ASSUME NEW q, proc' = Lite!Terminated(q) PROVE Ebbing /\ ~Running(q)'
  <2>1. /\ \A p \in Procs \ {q} : proc'[p] = proc[p]
        /\ q \in Procs => proc'[q].state = IF proc[q].state = "running" THEN "term" ELSE proc[q].state
    BY <1>1 DEF Lite!Terminated, Lite!TypeOK, Lite!ProcRec
  <2> QED BY <2>1 DEF Ebbing, Running
<1>2. ASSUME NEW ps, proc' = Lite!Ended(ps)
      PROVE  Ebbing /\ \A p \in Procs : p \in ps => proc'[p].state = "ended"
  BY <1>2 DEF Lite!Ended, Ebbing, Running
<1>3. proc' = proc => Ebbing
  BY DEF Ebbing, Running
<1> QED BY <1>1, <1>2, <1>3

\* What leaves the dials, and what the tunnels have, alone.
LEMMA ProcessesElsewhere ==
    ASSUME LiteInv, ProcessInv, Ebbing, UNCHANGED <<dial, generation>>,
           \A t \in Tunnels : tun'[t].process = tun[t].process /\ tun'[t].ready = tun[t].ready,
           health'.pc # "sleep" => health'.proc \in Procs,
           health'.pc = "kicked" => proc'[health'.proc].state = "ended"
    PROVE  ProcessInv'
<1>1. \A p : Running(p)' => Running(p) /\ proc'[p] = proc[p]
  BY DEF Ebbing, Running
<1>2. \A d \in Dials : Running(dial[d].proc)' => proc'[dial[d].proc].dev = dial[d].tun
  BY <1>1 DEF ProcessInv
<1>3. \A d \in Dials : Linked(d)' /\ ~Lite!Superseded(d)' => tun'[dial'[d].tun].process = dial'[d].proc
  BY DEF ProcessInv, Linked, Lite!Superseded, LiteInv, Dialling
<1>4. \A t \in Tunnels : ~tun'[t].ready /\ Running(tun[t].process)'
        => \E d \in Dials : Linked(d)' /\ dial'[d].tun = t /\ dial'[d].proc = tun'[t].process
  BY <1>1 DEF ProcessInv, Linked
<1>5. \A p \in Procs : Running(p)' => proc'[p].dev \in Tunnels /\ Lite!Owned(p)'
  BY <1>1 DEF ProcessInv, Lite!Owned
<1> QED BY <1>2, <1>3, <1>4, <1>5 DEF ProcessInv

\* A dial goes on; what it ends with, it has ended.
LEMMA ProcessesOfDial ==
    ASSUME LiteInv, ProcessInv, Ebbing, NEW d \in Dials, NEW stage, NEW r \in Lite!DialRec,
           dial[d].pc \notin {"idle", "start", "finally"}, r = [dial[d] EXCEPT !.pc = stage],
           dial' = [dial EXCEPT ![d] = r],
           \/ stage \in {"wait", "inited", "probe", "ready"} /\ Linked(d)
           \/ stage = "finally" /\ ~Running(dial[d].proc)',
           UNCHANGED <<tun, generation, health>>
    PROVE  ProcessInv'
<1>0. /\ dial'[d] = r /\ r.pc = stage /\ r.tun = dial[d].tun /\ r.proc = dial[d].proc /\ r.gen = dial[d].gen
      /\ \A e \in Dials \ {d} : dial'[e] = dial[e]
  BY DEF LiteInv, Lite!TypeOK, Lite!DialRec
<1>1. \A p : Running(p)' => Running(p) /\ proc'[p] = proc[p]
  BY DEF Ebbing, Running
<1>2. \A e \in Dials : Running(dial[e].proc)' => proc'[dial'[e].proc].dev = dial'[e].tun
  BY <1>0, <1>1 DEF ProcessInv
<1>3. \A e \in Dials : Linked(e)' => Linked(e) /\ dial'[e].tun = dial[e].tun /\ dial'[e].proc = dial[e].proc
                                     /\ dial'[e].gen = dial[e].gen
  BY <1>0 DEF Linked
<1>4. \A e \in Dials : Linked(e)' /\ ~Lite!Superseded(e)' => tun'[dial'[e].tun].process = dial'[e].proc
  BY <1>3 DEF ProcessInv, Lite!Superseded
<1>5. ASSUME NEW t \in Tunnels, ~tun[t].ready, Running(tun[t].process)'
      PROVE  \E e \in Dials : Linked(e)' /\ dial'[e].tun = t /\ dial'[e].proc = tun'[t].process
  <2>1. Running(tun[t].process)
    BY <1>1, <1>5
  <2>2. PICK e \in Dials : Linked(e) /\ dial[e].tun = t /\ dial[e].proc = tun[t].process
    BY <1>5, <2>1 DEF ProcessInv
  <2>3. Linked(e)'
    BY <1>0, <1>5, <2>2 DEF Linked
  <2> QED BY <1>3, <2>2, <2>3
<1>6. ASSUME NEW p \in Procs, Running(p)' PROVE proc'[p].dev \in Tunnels /\ Lite!Owned(p)'
  <2>1. Running(p) /\ proc'[p] = proc[p] /\ proc[p].dev \in Tunnels /\ Lite!Owned(p)
    BY <1>1, <1>6 DEF ProcessInv
  <2>2. ASSUME NEW e \in Dials, dial[e].proc = p, dial[e].tun = proc[p].dev,
               dial[e].pc = "spawned", e = d
        PROVE  FALSE
    BY <1>6, <2>1, <2>2 DEF Linked
  <2> QED BY <1>0, <2>1, <2>2 DEF Lite!Owned
<1>7. \A e \in Dials : (dial'[e].pc \in {"idle", "start"}) = (dial'[e].proc = Absent)
  BY <1>0 DEF ProcessInv
<1>8. \A e, f \in Dials : dial'[e].proc # Absent /\ dial'[e].proc = dial'[f].proc => e = f
  <2>1. \A e \in Dials : dial'[e].proc = dial[e].proc
    BY <1>0
  <2> QED BY <2>1 DEF ProcessInv
<1>9. /\ health'.pc # "sleep" => health'.proc \in Procs
      /\ health'.pc = "kicked" => proc'[health'.proc].state = "ended"
  BY DEF ProcessInv, Ebbing
<1> QED BY <1>2, <1>4, <1>5, <1>6, <1>7, <1>8, <1>9 DEF ProcessInv

\* The tunnel takes the process of its dial for its own.
LEMMA ProcessesJoined ==
    ASSUME LiteInv, ProcessInv, NEW d \in Dials, NEW stage \in {"wait", "finally"},
           NEW r \in Lite!DialRec,
           dial[d].pc = "spawned" \/ (Linked(d) /\ ~Lite!Superseded(d)), r = [dial[d] EXCEPT !.pc = stage],
           dial' = [dial EXCEPT ![d] = r], tun' \in [Tunnels -> Lite!TunnelRec],
           tun'[dial[d].tun].process = dial[d].proc,
           \A t \in Tunnels \ {dial[d].tun} : tun'[t] = tun[t],
           IF stage = "wait" THEN tun'[dial[d].tun].ready = tun[dial[d].tun].ready ELSE tun'[dial[d].tun].ready,
           UNCHANGED <<proc, generation, health>>
    PROVE  ProcessInv'
<1>0. /\ dial'[d] = r /\ r.pc = stage /\ r.tun = dial[d].tun /\ r.proc = dial[d].proc /\ r.gen = dial[d].gen
      /\ \A e \in Dials \ {d} : dial'[e] = dial[e]
  BY DEF LiteInv, Lite!TypeOK, Lite!DialRec
<1>1. \A p : Running(p)' <=> Running(p)
  BY DEF Running
<1>2. dial[d].tun \in Tunnels /\ ~tun[dial[d].tun].ready /\ dial[d].pc # "idle"
  BY DEF LiteInv, Dialling, Linked
<1>3. \A e \in Dials \ {d} : dial[e].pc # "idle" => dial[e].tun # dial[d].tun
  BY <1>2 DEF LiteInv, Lite!OneDial
<1>4. \A e \in Dials : Linked(e)' /\ ~Lite!Superseded(e)' => tun'[dial'[e].tun].process = dial'[e].proc
  BY <1>0, <1>3 DEF ProcessInv, Linked, Lite!Superseded, LiteInv, Dialling
<1>5. ASSUME NEW t \in Tunnels, ~tun'[t].ready, Running(tun[t].process)'
      PROVE  \E e \in Dials : Linked(e)' /\ dial'[e].tun = t /\ dial'[e].proc = tun'[t].process
  <2>1. CASE t = dial[d].tun
    BY <1>0, <1>5, <2>1 DEF Linked
  <2>2. CASE t # dial[d].tun
    <3>1. PICK e \in Dials : Linked(e) /\ dial[e].tun = t /\ dial[e].proc = tun[t].process
      BY <1>1, <1>5, <2>2 DEF ProcessInv, Running
    <3> QED BY <1>0, <2>2, <3>1 DEF Linked
  <2> QED BY <2>1, <2>2
<1>6. ASSUME NEW p \in Procs, Running(p)' PROVE proc'[p].dev \in Tunnels /\ Lite!Owned(p)'
  <2>1. Running(p) /\ proc'[p] = proc[p] /\ proc[p].dev \in Tunnels /\ Lite!Owned(p)
    BY <1>1, <1>6 DEF ProcessInv
  <2>2. CASE proc[p].dev # dial[d].tun
    BY <1>0, <2>1, <2>2 DEF Lite!Owned
  <2>3. CASE proc[p].dev = dial[d].tun
    <3>1. p = dial[d].proc
      <4>1. CASE tun[dial[d].tun].process = p
        <5>1. PICK e \in Dials : Linked(e) /\ dial[e].tun = dial[d].tun /\ dial[e].proc = p
          BY <1>2, <2>1, <4>1 DEF ProcessInv
        <5> QED BY <1>3, <5>1 DEF Linked
      <4>2. CASE \E e \in Dials : dial[e].proc = p /\ dial[e].tun = proc[p].dev /\ dial[e].pc = "spawned"
        BY <1>3, <2>3, <4>2
      <4> QED BY <2>1, <2>3, <4>1, <4>2 DEF Lite!Owned
    <3> QED BY <2>1, <2>3, <3>1 DEF Lite!Owned
  <2> QED BY <2>2, <2>3
<1>7. \A e \in Dials : (dial'[e].pc \in {"idle", "start"}) = (dial'[e].proc = Absent)
  BY <1>0 DEF ProcessInv, Linked
<1>8. \A e, f \in Dials : dial'[e].proc # Absent /\ dial'[e].proc = dial'[f].proc => e = f
  <2>1. \A e \in Dials : dial'[e].proc = dial[e].proc
    BY <1>0
  <2> QED BY <2>1 DEF ProcessInv
<1>9. \A e \in Dials : Running(dial[e].proc)' => proc'[dial'[e].proc].dev = dial'[e].tun
  <2>1. \A e \in Dials : dial'[e].proc = dial[e].proc /\ dial'[e].tun = dial[e].tun
    BY <1>0
  <2> QED BY <1>1, <2>1 DEF ProcessInv, Running
<1>10. /\ health'.pc # "sleep" => health'.proc \in Procs
       /\ health'.pc = "kicked" => proc'[health'.proc].state = "ended"
  BY DEF ProcessInv
<1> QED BY <1>4, <1>5, <1>6, <1>7, <1>8, <1>9, <1>10 DEF ProcessInv

LEMMA ProcessesSpawn ==
    ASSUME Lite!LiteAssumption, LiteInv, ProcessInv, NEW d \in Dials, Lite!Spawn(d)
    PROVE  ProcessInv'
<1>1. PICK p \in Procs : /\ Lite!Forgotten(p)
                         /\ proc' = [proc EXCEPT ![p] = [state |-> "running", dev |-> dial[d].tun]]
                         /\ dial' = [dial EXCEPT ![d].pc = "spawned", ![d].proc = p]
  BY DEF Lite!Spawn
<1>2. /\ p # Absent /\ ~Running(p) /\ \A t \in Tunnels : tun[t].process # p
      /\ \A e \in Dials : dial[e].proc # p
      /\ health.proc # p
  BY <1>1 DEF Lite!Forgotten, Lite!Alive, Running, Lite!LiteAssumption
<1>3. /\ dial[d].pc = "start" /\ dial[d].tun \in Tunnels
      /\ UNCHANGED <<tun, generation, health>>
  BY DEF Lite!Spawn, Lite!AtDial, LiteInv, Dialling
<1>4. /\ dial'[d].pc = "spawned" /\ dial'[d].proc = p /\ dial'[d].tun = dial[d].tun
      /\ \A e \in Dials \ {d} : dial'[e] = dial[e]
  BY <1>1 DEF LiteInv, Lite!TypeOK, Lite!DialRec
<1>5. /\ proc'[p] = [state |-> "running", dev |-> dial[d].tun]
      /\ \A q \in Procs \ {p} : proc'[q] = proc[q]
  BY <1>1 DEF LiteInv, Lite!TypeOK
<1>6. \A q : Running(q)' <=> Running(q) \/ q = p
  BY <1>5 DEF Running
<1>7. \A e \in Dials : Linked(e)' => e # d /\ Linked(e)
  BY <1>4 DEF Linked
<1>8. \A e \in Dials : Linked(e)' /\ ~Lite!Superseded(e)' => tun'[dial'[e].tun].process = dial'[e].proc
  BY <1>3, <1>4, <1>7 DEF ProcessInv, Lite!Superseded
<1>9. ASSUME NEW t \in Tunnels, ~tun'[t].ready, Running(tun[t].process)'
      PROVE  \E e \in Dials : Linked(e)' /\ dial'[e].tun = t /\ dial'[e].proc = tun'[t].process
  <2>1. Running(tun[t].process) /\ ~tun[t].ready
    BY <1>2, <1>3, <1>6, <1>9 DEF Running
  <2>2. PICK e \in Dials : Linked(e) /\ dial[e].tun = t /\ dial[e].proc = tun[t].process
    BY <2>1 DEF ProcessInv
  <2> QED BY <1>3, <1>4, <2>2 DEF Linked
<1>10. ASSUME NEW q \in Procs, Running(q)' PROVE proc'[q].dev \in Tunnels /\ Lite!Owned(q)'
  <2>1. CASE q = p
    BY <1>3, <1>4, <1>5, <2>1 DEF Lite!Owned
  <2>2. CASE q # p
    <3>1. Running(q) /\ proc'[q] = proc[q] /\ proc[q].dev \in Tunnels /\ Lite!Owned(q)
      BY <1>5, <1>6, <1>10, <2>2 DEF ProcessInv
    <3> QED BY <1>3, <1>4, <3>1 DEF Lite!Owned
  <2> QED BY <2>1, <2>2
<1>11. \A e \in Dials : (dial'[e].pc \in {"idle", "start"}) = (dial'[e].proc = Absent)
  BY <1>2, <1>4 DEF ProcessInv
<1>12. \A e, f \in Dials : dial'[e].proc # Absent /\ dial'[e].proc = dial'[f].proc => e = f
  BY <1>2, <1>4 DEF ProcessInv
<1>13. \A e \in Dials : Running(dial[e].proc)' => proc'[dial'[e].proc].dev = dial'[e].tun
  <2>1. ASSUME NEW e \in Dials, e # d, Running(dial[e].proc)'
        PROVE  proc'[dial'[e].proc].dev = dial'[e].tun
    <3>1. dial'[e] = dial[e] /\ dial[e].proc \in Procs \ {p} /\ Running(dial[e].proc)
      BY <1>2, <1>4, <1>6, <2>1 DEF Running
    <3> QED BY <1>5, <3>1 DEF ProcessInv
  <2> QED BY <1>4, <1>5, <2>1
<1>14. /\ health'.pc # "sleep" => health'.proc \in Procs
       /\ health'.pc = "kicked" => proc'[health'.proc].state = "ended"
  BY <1>2, <1>3, <1>5 DEF ProcessInv
<1> QED BY <1>8, <1>9, <1>10, <1>11, <1>12, <1>13, <1>14 DEF ProcessInv

\* A dial that holds no process begins; one that is over lets go of its own.
LEMMA ProcessesOfEnds ==
    ASSUME Lite!LiteAssumption, LiteInv, ProcessInv, NEW d \in Dials, NEW r \in Lite!DialRec,
           dial[d].pc \in {"idle", "finally"}, r.pc \in {"idle", "start"}, r.proc = Absent,
           dial' = [dial EXCEPT ![d] = r], UNCHANGED <<proc, generation, health>>,
           \A t \in Tunnels : tun'[t].process = tun[t].process /\ tun'[t].ready = tun[t].ready
    PROVE  ProcessInv'
<1>1. dial'[d] = r /\ \A e \in Dials \ {d} : dial'[e] = dial[e]
  BY DEF LiteInv, Lite!TypeOK
<1>2. \A p : Running(p)' <=> Running(p)
  BY DEF Running
<1>3. \A e \in Dials : Linked(e)' => e # d /\ Linked(e)
  BY <1>1 DEF Linked
<1>4. \A e \in Dials : Linked(e)' /\ ~Lite!Superseded(e)' => tun'[dial'[e].tun].process = dial'[e].proc
  BY <1>1, <1>3 DEF ProcessInv, Lite!Superseded, Linked, LiteInv, Dialling
<1>5. ASSUME NEW t \in Tunnels, ~tun'[t].ready, Running(tun[t].process)'
      PROVE  \E e \in Dials : Linked(e)' /\ dial'[e].tun = t /\ dial'[e].proc = tun'[t].process
  <2>1. Running(tun[t].process) /\ ~tun[t].ready
    BY <1>5 DEF Running
  <2>2. PICK e \in Dials : Linked(e) /\ dial[e].tun = t /\ dial[e].proc = tun[t].process
    BY <2>1 DEF ProcessInv
  <2> QED BY <1>1, <2>2 DEF Linked
<1>6. ASSUME NEW q \in Procs, Running(q)' PROVE proc'[q].dev \in Tunnels /\ Lite!Owned(q)'
  <2>1. Running(q) /\ proc'[q] = proc[q] /\ proc[q].dev \in Tunnels /\ Lite!Owned(q)
    BY <1>2, <1>6 DEF ProcessInv
  <2> QED BY <1>1, <2>1 DEF Lite!Owned
<1>7. \A e \in Dials : (dial'[e].pc \in {"idle", "start"}) = (dial'[e].proc = Absent)
  BY <1>1 DEF ProcessInv
<1>8. \A e, f \in Dials : dial'[e].proc # Absent /\ dial'[e].proc = dial'[f].proc => e = f
  BY <1>1 DEF ProcessInv
<1>9. \A e \in Dials : Running(dial[e].proc)' => proc'[dial'[e].proc].dev = dial'[e].tun
  <2>1. ~Running(Absent)
    BY DEF Running, Lite!LiteAssumption
  <2>2. ~Running(dial[d].proc)'
    BY <1>1, <2>1 DEF Running
  <2>3. ASSUME NEW e \in Dials, e # d, Running(dial[e].proc)'
        PROVE  proc'[dial'[e].proc].dev = dial'[e].tun
    <3>1. dial'[e] = dial[e] /\ Running(dial[e].proc)
      BY <1>1, <2>3 DEF Running
    <3> QED BY <3>1 DEF ProcessInv
  <2> QED BY <2>2, <2>3
<1>10. /\ health'.pc # "sleep" => health'.proc \in Procs
       /\ health'.pc = "kicked" => proc'[health'.proc].state = "ended"
  BY DEF ProcessInv
<1> QED BY <1>4, <1>5, <1>6, <1>7, <1>8, <1>9, <1>10 DEF ProcessInv

\* Tunnels without a dial are given up with their processes: the main one, or
\* both by a switch, after which every dial is superseded.
LEMMA ProcessesReset ==
    ASSUME Lite!LiteAssumption, LiteInv, ProcessInv, NEW reset \in SUBSET Tunnels,
           proc' = Lite!Ended({tun[t].process : t \in reset}), tun' \in [Tunnels -> Lite!TunnelRec],
           \A t \in Tunnels : IF t \in reset THEN tun'[t].process = Absent /\ ~tun'[t].ready ELSE tun'[t] = tun[t],
           \/ generation' = generation /\ \A d \in Dials : dial[d].pc # "idle" => dial[d].tun \notin reset
           \/ generation' = generation + 1,
           UNCHANGED <<dial, health>>
    PROVE  ProcessInv'
<1>1. Ebbing /\ \A t \in reset : ~Running(tun[t].process)' \/ tun'[t].process = Absent
  BY ProcessesEbb DEF LiteInv, Lite!Ended, Running
<1>2. \A p : Running(p)' => Running(p) /\ proc'[p] = proc[p]
  BY <1>1 DEF Ebbing, Running
<1>3. \A t \in reset : tun[t].process \in Procs => proc'[tun[t].process].state = "ended"
  BY DEF Lite!Ended
<1>4. \A e \in Dials : Linked(e)' /\ ~Lite!Superseded(e)' => tun'[dial'[e].tun].process = dial'[e].proc
  <2>1. CASE generation' = generation + 1
    <3>1. \A e \in Dials : dial[e].gen \in Nat /\ generation \in Nat
      BY DEF LiteInv, Lite!TypeOK, Lite!DialRec, Lite!LiteAssumption
    <3> QED BY <2>1, <3>1 DEF Lite!Superseded, LiteInv, Dialling, Linked
  <2>2. CASE generation' = generation /\ \A d \in Dials : dial[d].pc # "idle" => dial[d].tun \notin reset
    BY <2>2 DEF ProcessInv, Lite!Superseded, Linked, LiteInv, Dialling
  <2> QED BY <2>1, <2>2
<1>5. ASSUME NEW t \in Tunnels, ~tun'[t].ready, Running(tun[t].process)'
      PROVE  \E e \in Dials : Linked(e)' /\ dial'[e].tun = t /\ dial'[e].proc = tun'[t].process
  <2>1. t \notin reset
    BY <1>5 DEF Running, Lite!LiteAssumption
  <2>2. Running(tun[t].process) /\ ~tun[t].ready
    BY <1>2, <1>5, <2>1 DEF Running
  <2>3. PICK e \in Dials : Linked(e) /\ dial[e].tun = t /\ dial[e].proc = tun[t].process
    BY <2>2 DEF ProcessInv
  <2> QED BY <2>1, <2>3 DEF Linked
<1>6. ASSUME NEW q \in Procs, Running(q)' PROVE proc'[q].dev \in Tunnels /\ Lite!Owned(q)'
  <2>1. Running(q) /\ proc'[q] = proc[q] /\ proc[q].dev \in Tunnels /\ Lite!Owned(q)
    BY <1>2, <1>6 DEF ProcessInv
  <2>2. tun[proc[q].dev].process = q => proc[q].dev \notin reset
    BY <1>3, <1>6 DEF Running
  <2> QED BY <2>1, <2>2 DEF Lite!Owned
<1>7. \A e \in Dials : Running(dial[e].proc)' => proc'[dial'[e].proc].dev = dial'[e].tun
  BY <1>2 DEF ProcessInv
<1>8. /\ health'.pc # "sleep" => health'.proc \in Procs
      /\ health'.pc = "kicked" => proc'[health'.proc].state = "ended"
  BY <1>1 DEF ProcessInv, Ebbing
<1>9. /\ \A e \in Dials : (dial'[e].pc \in {"idle", "start"}) = (dial'[e].proc = Absent)
      /\ \A e, f \in Dials : dial'[e].proc # Absent /\ dial'[e].proc = dial'[f].proc => e = f
  BY DEF ProcessInv
<1> QED BY <1>4, <1>5, <1>6, <1>7, <1>8, <1>9 DEF ProcessInv

LEMMA ProcessesMaintain ==
    ASSUME Lite!LiteAssumption, LiteInv, ProcessInv, Lite!Maintain
    PROVE  ProcessInv'
<1>0. Lite!TypeOK
  BY DEF LiteInv
<1>1. CASE Lite!TakeOver \/ Lite!Scan
  <2>1. UNCHANGED <<generation, dial, health>> /\ main \in Tunnels
    BY <1>1 DEF Lite!TakeOver, Lite!Scan, LiteInv, Lite!TypeOK
  <2>2. CASE UNCHANGED <<tun, proc>>
    <3>1. Ebbing
      BY <1>0, <2>2, ProcessesEbb
    <3> QED BY <2>1, <2>2, <3>1, ProcessesElsewhere DEF ProcessInv
  <2>3. CASE ~tun[main].connecting /\ proc' = Lite!Ended({tun[main].process}) /\ tun' = [tun EXCEPT ![main] = Lite!Unused]
    <3> DEFINE reset == {main}
    <3>1. {tun[main].process} = {tun[t].process : t \in reset}
      OBVIOUS
    <3>2. tun' \in [Tunnels -> Lite!TunnelRec]
      BY <1>1, LiteScans DEF LiteInv, Lite!TypeOK
    <3>3. \A t \in Tunnels : IF t \in reset THEN tun'[t].process = Absent /\ ~tun'[t].ready ELSE tun'[t] = tun[t]
      BY <1>0, <2>1, <2>3 DEF Lite!TypeOK, Lite!Unused
    <3>4. \A d \in Dials : dial[d].pc # "idle" => dial[d].tun \notin reset
      BY <2>3 DEF LiteInv, Dialling
    <3>5. reset \in SUBSET Tunnels /\ proc' = Lite!Ended({tun[t].process : t \in reset})
      BY <2>1, <2>3, <3>1
    <3> HIDE DEF reset
    <3> QED BY <2>1, <3>2, <3>3, <3>4, <3>5, ProcessesReset
  <2> QED BY <1>1, <2>2, <2>3 DEF Lite!TakeOver, Lite!Scan, Lite!MainDead
<1>2. CASE Lite!Decide \/ Lite!Pick \/ Lite!Claim
  <2>1. Ebbing /\ UNCHANGED <<generation, dial, health, proc>>
    BY <1>0, <1>2, ProcessesEbb DEF Lite!Decide, Lite!Pick, Lite!Claim
  <2>2. \A t \in Tunnels : tun'[t].process = tun[t].process /\ tun'[t].ready = tun[t].ready
    <3>1. CASE Lite!Claim
      <4> DEFINE w == [tun[pool.tun] EXCEPT !.connecting = TRUE, !.entry = pool.node]
      <4>1. pool.tun \in Tunnels /\ tun[pool.tun] \in Lite!TunnelRec
        BY <1>0, <3>1 DEF Lite!Claim, LiteInv, Chosen, Lite!TypeOK
      <4>2. tun' = [tun EXCEPT ![pool.tun] = w]
        BY <1>0, <3>1, <4>1 DEF Lite!Claim, Lite!TypeOK
      <4>3. w.process = tun[pool.tun].process /\ w.ready = tun[pool.tun].ready
        BY <4>1 DEF Lite!TunnelRec
      <4> HIDE DEF w
      <4> QED BY <1>0, <4>1, <4>2, <4>3 DEF Lite!TypeOK
    <3> QED BY <1>2, <3>1 DEF Lite!Decide, Lite!Pick
  <2> QED BY <2>1, <2>2, ProcessesElsewhere DEF ProcessInv
<1>3. CASE Lite!Launch
  <2> DEFINE r == [pc |-> "start", tun |-> pool.tun, node |-> pool.node, gen |-> generation, proc |-> Absent]
  <2>1. r \in Lite!DialRec
    BY <1>0, <1>3 DEF Lite!Launch, LiteInv, Chosen, Lite!TypeOK, Lite!DialRec
  <2>2. PICK d \in Dials : dial[d].pc = "idle" /\ dial' = [dial EXCEPT ![d] = r]
    BY <1>3 DEF Lite!Launch
  <2>3. UNCHANGED <<proc, generation, health, tun>> /\ r.pc = "start" /\ r.proc = Absent
    BY <1>3 DEF Lite!Launch
  <2> HIDE DEF r
  <2> QED BY <2>1, <2>2, <2>3, ProcessesOfEnds
<1> QED BY <1>1, <1>2, <1>3 DEF Lite!Maintain

LEMMA ProcessesDial ==
    ASSUME Lite!LiteAssumption, "raise" \notin LiteFaults, LiteInv, ProcessInv, NEW d \in Dials,
           Lite!Dial(d)
    PROVE  ProcessInv'
<1>0. Lite!TypeOK /\ dial[d] \in Lite!DialRec
  BY DEF LiteInv, Lite!TypeOK
<1> DEFINE Goes(stage) == [dial[d] EXCEPT !.pc = stage]
<1>1. ASSUME NEW stage \in {"spawned", "wait", "inited", "probe", "ready", "finally"}
      PROVE  Goes(stage) \in Lite!DialRec /\ (Lite!GoDial(d, stage) => dial' = [dial EXCEPT ![d] = Goes(stage)])
  BY <1>0 DEF Lite!DialRec, Lite!GoDial, Lite!TypeOK
<1>2. CASE Lite!Spawn(d)
  BY <1>2, ProcessesSpawn
<1>3. CASE Lite!Initialized(d) \/ Lite!Streams(d) \/ (Lite!Recheck(d) /\ Lite!GoDial(d, "probe") /\ proc' = proc)
  <2>1. Linked(d) /\ UNCHANGED <<tun, proc, generation, health>> /\ dial[d].pc \notin {"idle", "start", "finally"}
    BY <1>3 DEF Lite!Initialized, Lite!Streams, Lite!Recheck, Lite!AtDial, Linked
  <2>2. Ebbing
    BY <1>0, <2>1, ProcessesEbb
  <2>3. PICK stage \in {"wait", "inited", "probe", "ready"} : dial' = [dial EXCEPT ![d] = Goes(stage)]
    BY <1>1, <1>3 DEF Lite!Initialized, Lite!Streams
  <2>4. Goes(stage) \in Lite!DialRec
    BY <1>1
  <2> QED BY <2>1, <2>2, <2>3, <2>4, ProcessesOfDial
<1>4. CASE /\ Lite!Register(d) \/ Lite!Rejected(d) \/ Lite!Recheck(d) \/ Lite!NoStream(d) \/ Lite!Commit(d)
           /\ Lite!GoDial(d, "finally") /\ UNCHANGED tun
           /\ proc' = Lite!Ended({dial[d].proc}) \/ proc' = Lite!Terminated(dial[d].proc)
  <2>1. /\ UNCHANGED <<tun, generation, health>> /\ dial[d].pc \notin {"idle", "start", "finally"}
        /\ proc' = Lite!Ended({dial[d].proc}) \/ proc' = Lite!Terminated(dial[d].proc)
    BY <1>4 DEF Lite!Register, Lite!Rejected, Lite!Recheck, Lite!NoStream, Lite!Commit, Lite!AtDial
  <2>2. Ebbing /\ ~Running(dial[d].proc)'
    <3>1. CASE proc' = Lite!Ended({dial[d].proc})
      <4>1. Ebbing /\ \A p \in Procs : p \in {dial[d].proc} => proc'[p].state = "ended"
        BY <1>0, <3>1, ProcessesEbb
      <4>2. dial'[d].proc = dial[d].proc
        BY <1>0, <1>4 DEF Lite!GoDial, Lite!TypeOK, Lite!DialRec
      <4> QED BY <4>1, <4>2 DEF Running
    <3>2. CASE proc' = Lite!Terminated(dial[d].proc)
      <4>1. Ebbing /\ \A q : q = dial[d].proc => ~Running(q)'
        BY <1>0, <3>2, ProcessesEbb
      <4>2. dial'[d].proc = dial[d].proc
        BY <1>0, <1>4 DEF Lite!GoDial, Lite!TypeOK, Lite!DialRec
      <4> QED BY <4>1, <4>2 DEF Running
    <3> QED BY <2>1, <3>1, <3>2
  <2>3. Goes("finally") \in Lite!DialRec /\ dial' = [dial EXCEPT ![d] = Goes("finally")]
    BY <1>1, <1>4
  <2> QED BY <2>1, <2>2, <2>3, ProcessesOfDial
<1>5. CASE Lite!Register(d) /\ ~Lite!Superseded(d)
  <2> DEFINE w == [tun[dial[d].tun] EXCEPT !.process = dial[d].proc]
  <2>1. /\ dial[d].pc = "spawned" /\ dial' = [dial EXCEPT ![d] = Goes("wait")] /\ Goes("wait") \in Lite!DialRec
        /\ UNCHANGED <<proc, generation, health>>
    BY <1>1, <1>5 DEF Lite!Register, Lite!AtDial
  <2>2. dial[d].tun \in Tunnels /\ tun[dial[d].tun] \in Lite!TunnelRec /\ dial[d].proc \in Procs \cup {Absent}
    BY <1>0, <2>1 DEF LiteInv, Dialling, Lite!TypeOK, Lite!DialRec
  <2>3. tun' = [tun EXCEPT ![dial[d].tun] = w]
    BY <1>0, <1>5, <2>2 DEF Lite!Register, Lite!TypeOK
  <2>4. w \in Lite!TunnelRec /\ w.process = dial[d].proc /\ w.ready = tun[dial[d].tun].ready
    BY <2>2 DEF Lite!TunnelRec
  <2> HIDE DEF w
  <2>5. /\ tun' \in [Tunnels -> Lite!TunnelRec] /\ tun'[dial[d].tun].process = dial[d].proc
        /\ tun'[dial[d].tun].ready = tun[dial[d].tun].ready
        /\ \A t \in Tunnels \ {dial[d].tun} : tun'[t] = tun[t]
    BY <1>0, <2>2, <2>3, <2>4 DEF Lite!TypeOK
  <2> QED BY <2>1, <2>5, ProcessesJoined
<1>6. CASE Lite!Commit(d) /\ ~Lite!Superseded(d) /\ Lite!Matches(dial[d].node)
  <2> DEFINE w == [tun[dial[d].tun] EXCEPT !.process = dial[d].proc, !.node = dial[d].node, !.ready = TRUE]
  <2>1. /\ dial[d].pc = "ready" /\ dial' = [dial EXCEPT ![d] = Goes("finally")] /\ Goes("finally") \in Lite!DialRec
        /\ UNCHANGED <<proc, generation, health>>
    BY <1>1, <1>6 DEF Lite!Commit, Lite!AtDial
  <2>2. /\ dial[d].tun \in Tunnels /\ tun[dial[d].tun] \in Lite!TunnelRec /\ dial[d].proc \in Procs \cup {Absent}
        /\ dial[d].node \in LiteNodes
    BY <1>0, <2>1 DEF LiteInv, Dialling, Lite!TypeOK, Lite!DialRec
  <2>3. tun' = [tun EXCEPT ![dial[d].tun] = w]
    BY <1>0, <1>6, <2>2 DEF Lite!Commit, Lite!TypeOK
  <2>4. w \in Lite!TunnelRec /\ w.process = dial[d].proc /\ w.ready
    BY <2>2 DEF Lite!TunnelRec
  <2> HIDE DEF w
  <2>5. /\ tun' \in [Tunnels -> Lite!TunnelRec] /\ tun'[dial[d].tun].process = dial[d].proc
        /\ tun'[dial[d].tun].ready
        /\ \A t \in Tunnels \ {dial[d].tun} : tun'[t] = tun[t]
    BY <1>0, <2>2, <2>3, <2>4 DEF Lite!TypeOK
  <2>6. Linked(d) /\ ~Lite!Superseded(d)
    BY <1>6, <2>1 DEF Linked
  <2> QED BY <2>1, <2>5, <2>6, ProcessesJoined
<1>7. CASE Lite!Finally(d)
  <2>1. Lite!IdleDial \in Lite!DialRec /\ dial' = [dial EXCEPT ![d] = Lite!IdleDial] /\ Lite!IdleDial.pc = "idle" /\ Lite!IdleDial.proc = Absent
        /\ dial[d].pc = "finally" /\ UNCHANGED <<proc, generation, health>>
    BY <1>7 DEF Lite!Finally, Lite!AtDial, Lite!IdleDial, Lite!DialRec, Lite!LiteAssumption
  <2>2. \A t \in Tunnels : tun'[t].process = tun[t].process /\ tun'[t].ready = tun[t].ready
    BY <1>0, <1>7 DEF Lite!Finally, Lite!TypeOK, Lite!TunnelRec
  <2> QED BY <2>1, <2>2, ProcessesOfEnds
<1> QED BY <1>2, <1>3, <1>4, <1>5, <1>6, <1>7
     DEF Lite!Dial, Lite!Register, Lite!Rejected, Lite!Recheck, Lite!NoStream, Lite!Raises,
     Lite!Commit

LEMMA ProcessesSwitch ==
    ASSUME Lite!LiteAssumption, LiteInv, ProcessInv, Lite!Switch
    PROVE  ProcessInv'
<1>1. /\ proc' = Lite!Ended({tun[t].process : t \in Tunnels}) /\ generation' = generation + 1
      /\ UNCHANGED <<dial, health>>
  BY DEF Lite!Switch
<1>2. tun' \in [Tunnels -> Lite!TunnelRec]
  BY LiteSwitch DEF LiteInv, Lite!TypeOK
<1>3. \A t \in Tunnels : tun'[t].process = Absent /\ ~tun'[t].ready
  BY DEF Lite!Switch, Lite!Unused
<1> DEFINE reset == Tunnels
<1>4. reset \in SUBSET Tunnels /\ \A t \in Tunnels :
        IF t \in reset THEN tun'[t].process = Absent /\ ~tun'[t].ready ELSE tun'[t] = tun[t]
  BY <1>3
<1>5. proc' = Lite!Ended({tun[t].process : t \in reset})
  BY <1>1
<1> HIDE DEF reset
<1> QED BY <1>1, <1>2, <1>4, <1>5, ProcessesReset

LEMMA ProcessesHealth ==
    ASSUME Lite!LiteAssumption, LiteInv, ProcessInv,
           Lite!Check \/ Lite!Harvest \/ Lite!ProcEnds \/ UNCHANGED Lite!vars
    PROVE  ProcessInv'
<1>0. Lite!TypeOK
  BY DEF LiteInv
<1>1. CASE Lite!Settle
  <2> DEFINE t == health.tun
  <2>1. /\ health' = Lite!Sleeping /\ UNCHANGED <<proc, dial, generation>> /\ health.pc = "kicked"
        /\ proc[health.proc].state = "ended"
    BY <1>1 DEF Lite!Settle, ProcessInv
  <2>2. \A u \in Tunnels : /\ tun'[u].process = tun[u].process
                           /\ \/ tun'[u].ready = tun[u].ready
                              \/ ~Running(tun[u].process)
    <3>1. CASE tun' = tun
      BY <3>1
    <3>2. CASE tun[t].process = health.proc /\ tun' = [tun EXCEPT ![t].ready = FALSE, ![t].node = Absent]
      <4>1. ASSUME NEW u \in Tunnels, u # t PROVE tun'[u] = tun[u]
        BY <1>0, <3>2, <4>1 DEF Lite!TypeOK
      <4>2. t \in Tunnels => tun'[t].process = tun[t].process
        BY <1>0, <3>2 DEF Lite!TypeOK, Lite!TunnelRec
      <4> QED BY <2>1, <3>2, <4>1, <4>2 DEF Running
    <3> QED BY <1>1, <3>1, <3>2 DEF Lite!Settle
  <2>3. \A p : Running(p)' <=> Running(p)
    BY <2>1 DEF Running
  <2>4. ASSUME NEW u \in Tunnels, ~tun'[u].ready, Running(tun[u].process)'
        PROVE  \E e \in Dials : Linked(e)' /\ dial'[e].tun = u /\ dial'[e].proc = tun'[u].process
    <3>1. Running(tun[u].process) /\ ~tun[u].ready
      BY <2>1, <2>2, <2>4 DEF Running
    <3>2. PICK e \in Dials : Linked(e) /\ dial[e].tun = u /\ dial[e].proc = tun[u].process
      BY <3>1 DEF ProcessInv
    <3> QED BY <2>1, <2>2, <3>2 DEF Linked
  <2>5. \A p \in Procs : Running(p)' => proc'[p].dev \in Tunnels /\ Lite!Owned(p)'
    BY <2>1, <2>2, <2>3 DEF ProcessInv, Lite!Owned
  <2>6. \A e \in Dials : Linked(e)' /\ ~Lite!Superseded(e)' => tun'[dial'[e].tun].process = dial'[e].proc
    BY <2>1, <2>2 DEF ProcessInv, Lite!Superseded, Linked, LiteInv, Dialling
  <2>7. \A e \in Dials : Running(dial[e].proc)' => proc'[dial'[e].proc].dev = dial'[e].tun
    BY <2>1 DEF ProcessInv, Running
  <2>8. /\ \A e \in Dials : (dial'[e].pc \in {"idle", "start"}) = (dial'[e].proc = Absent)
        /\ \A e, f \in Dials : dial'[e].proc # Absent /\ dial'[e].proc = dial'[f].proc => e = f
    BY <2>1 DEF ProcessInv
  <2> QED BY <2>1, <2>4, <2>5, <2>6, <2>7, <2>8 DEF ProcessInv, Lite!Sleeping
<1>2. CASE Lite!Snapshot \/ Lite!Healthy \/ Lite!Kick \/ Lite!Harvest \/ Lite!ProcEnds \/ UNCHANGED Lite!vars
  <2>1. UNCHANGED <<tun, dial, generation>>
    BY <1>2 DEF Lite!Snapshot, Lite!Healthy, Lite!Kick, Lite!Harvest, Lite!ProcEnds, Lite!vars
  <2>2. proc' = proc \/ \E ps : proc' = Lite!Ended(ps)
    BY <1>2 DEF Lite!Snapshot, Lite!Healthy, Lite!Kick, Lite!Harvest, Lite!ProcEnds, Lite!vars
  <2>3. Ebbing
    BY <1>0, <2>2, ProcessesEbb
  <2>4. health'.pc # "sleep" => health'.proc \in Procs
    <3>1. CASE Lite!Snapshot
      BY <1>0, <3>1 DEF Lite!Snapshot, Lite!Up, Lite!Alive, Lite!TypeOK, Lite!TunnelRec
    <3>2. CASE Lite!Kick
      BY <1>0, <3>2 DEF Lite!Kick, ProcessInv, Lite!TypeOK, Lite!HealthRec
    <3> QED BY <1>2, <3>1, <3>2 DEF Lite!Healthy, Lite!Harvest, Lite!ProcEnds, Lite!Sleeping,
                ProcessInv,
        Lite!vars
  <2>5. health'.pc = "kicked" => proc'[health'.proc].state = "ended"
    <3>1. CASE Lite!Kick
      <4>1. health'.proc = health.proc /\ health.proc \in Procs
        BY <1>0, <3>1 DEF Lite!Kick, ProcessInv, Lite!TypeOK, Lite!HealthRec
      <4> QED BY <3>1, <4>1 DEF Lite!Kick, Lite!Ended
    <3> QED BY <1>2, <2>3, <3>1 DEF Lite!Snapshot, Lite!Healthy, Lite!Harvest, Lite!ProcEnds,
                Lite!Sleeping,
        ProcessInv, Ebbing, Lite!vars
  <2> QED BY <2>1, <2>3, <2>4, <2>5, ProcessesElsewhere
<1> QED BY <1>1, <1>2 DEF Lite!Check

\* While no dial raises, dials, swaps, kicks and switches at any moment leave the
\* tunnels in order: besides, no process is left behind and no device has two.
THEOREM LiteInOrder ==
    ASSUME "raise" \notin LiteFaults
    PROVE  Lite!Spec => []Lite!TunnelsInOrder
<1> USE NodeAssumption DEF NodeAssumption
<1>1. Lite!Init => LiteInv /\ ProcessInv
  <2>1. Lite!Init => ProcessInv
    BY DEF Lite!Init, ProcessInv, Lite!IdleDial, Lite!Unused, Lite!Sleeping, Running, Linked,
        Lite!LiteAssumption
  <2> QED BY <2>1, LiteInitial
<1>2. LiteInv /\ ProcessInv /\ [Lite!Next]_Lite!vars => (LiteInv /\ ProcessInv)'
  <2>1. ASSUME LiteInv, ProcessInv, [Lite!Next]_Lite!vars PROVE ProcessInv'
    BY <2>1, ProcessesMaintain, ProcessesDial, ProcessesSwitch, ProcessesHealth DEF Lite!Next
  <2> QED BY <2>1, LiteNext
<1>3. LiteInv /\ ProcessInv => Lite!TunnelsInOrder
  <2> SUFFICES ASSUME LiteInv, ProcessInv PROVE Lite!TunnelsInOrder
    OBVIOUS
  <2>1. ASSUME NEW p \in Procs, NEW q \in Procs, Running(p), Running(q),
               proc[p].dev = proc[q].dev, p # q
        PROVE  FALSE
    <3> DEFINE t == proc[p].dev
    <3>1. t \in Tunnels /\ Lite!Owned(p) /\ Lite!Owned(q)
      BY <2>1 DEF ProcessInv
    <3>2. ASSUME NEW d \in Dials, dial[d].tun = t, dial[d].pc = "spawned"
          PROVE  ~Running(tun[t].process)
      <4>1. ~tun[t].ready
        BY <3>2 DEF LiteInv, Dialling
      <4>2. ASSUME NEW e \in Dials, Linked(e), dial[e].tun = t PROVE FALSE
        BY <3>2, <4>2 DEF LiteInv, Lite!OneDial, Linked
      <4> QED BY <3>1, <4>1, <4>2 DEF ProcessInv
    <3>3. \A d, e \in Dials : dial[d].tun = t /\ dial[d].pc = "spawned" /\ dial[e].tun = t /\ dial[e].pc = "spawned"
                                => d = e
      BY DEF LiteInv, Lite!OneDial
    <3> QED BY <2>1, <3>1, <3>2, <3>3 DEF Lite!Owned
  <2>2. DOMAIN proc = Procs
    BY DEF LiteInv, Lite!TypeOK
  <2>3. Lite!NoStrayProcess
    BY <2>1, <2>2 DEF Lite!NoStrayProcess, ProcessInv, Running
  <2> QED BY <2>3 DEF Lite!TunnelsInOrder, LiteInv
<1> QED BY <1>1, <1>2, <1>3, PTL DEF Lite!Spec

=============================================================================
