------------------------------ MODULE DashboardHub ------------------------------
(***************************************************************************)
(* Who watches: the durable object DashboardHub of realtime/src/index.js     *)
(* tells a VpsPresence that somebody looks at it, and how often to report,   *)
(* under a lease.  Notices overtake each other, answers are late, and both   *)
(* objects are evicted from memory.  Time passes in ticks of 30 s.           *)
(***************************************************************************)
EXTENDS Naturals

CONSTANTS
    Admins,     \* viewers with a dashboard ticket
    Visitors,   \* viewers of the public page
    Long,       \* ticks of the five minutes given when no lease is named
    MaxVisits,  \* bound: viewers that come, agents that connect
    MaxFaults   \* bound: evictions and questions that fail

HubAssumption ==
    /\ Admins \cap Visitors = {}
    /\ Long \in Nat \ {0, 1} /\ MaxVisits \in Nat /\ MaxFaults \in Nat

VARIABLES
    open,      \* sockets "dashboard" and "public" of the hub
    hub,       \* activityInterval and activityUntil, in ticks from now
    notices,   \* /dashboard-active requests on their way
    asking,    \* answers of /active on their way, with the default of who asked
    presence,  \* dashboardActive, dashboardInterval, dashboardActiveUntil
    visits, faults

vars == <<open, hub, notices, asking, presence, visits, faults>>

Viewers == Admins \cup Visitors
Lease   == 3   \* VIEWER_LEASE_MS
Renewed == 2   \* a lease of more than 60 s is not renewed
Horizon == IF Long > Lease THEN Long ELSE Lease
Intervals == {"admin", "public", "idle"}
Activity == [active : BOOLEAN, interval : Intervals, until : 0..Horizon]
\* What is under way names the end of the lease, which may have passed when it
\* arrives, or none ("until" 0 in the code).
NoLease == Horizon + 1
Message == [active : BOOLEAN, interval : Intervals, until : 0..NoLease]

TypeOK ==
    /\ open \subseteq Viewers
    /\ hub \in [interval : Intervals, until : 0..Lease]
    /\ notices \subseteq Message
    /\ asking \subseteq [answer : Message, default : {1, Long}]
    /\ presence \in Activity
    /\ visits \in 0..MaxVisits /\ faults \in 0..MaxFaults

Unaware == [active |-> FALSE, interval |-> "idle", until |-> 0]

Init ==
    /\ open = {}
    /\ hub = [interval |-> "idle", until |-> 0]
    /\ notices = {} /\ asking = {}
    /\ presence = Unaware
    /\ visits = 0 /\ faults = 0

Fault == faults < MaxFaults /\ faults' = faults + 1

ViewerInterval(o) ==
    IF o \cap Admins # {} THEN "admin" ELSE IF o # {} THEN "public" ELSE "idle"

\* What /active answers, and what a notice says.
Current(o) == [active |-> o # {}, interval |-> ViewerInterval(o),
               until |-> IF o # {} THEN Lease ELSE NoLease]

\* setDashboardActivity of the hub, with the sockets that are open by then.
SetActivity(o) ==
    IF hub.interval = ViewerInterval(o) /\ (o = {} \/ hub.until > Renewed)
    THEN UNCHANGED <<hub, notices>>
    ELSE /\ hub' = [interval |-> ViewerInterval(o), until |-> IF o # {} THEN Lease ELSE 0]
         /\ notices' = notices \cup {Current(o)}

Come(v) ==
    /\ v \notin open /\ visits < MaxVisits
    /\ visits' = visits + 1
    /\ open' = open \cup {v}
    /\ SetActivity(open')
    /\ UNCHANGED <<asking, presence, faults>>

Go(v) ==
    /\ v \in open
    /\ open' = open \ {v}
    /\ SetActivity(open')
    /\ UNCHANGED <<asking, presence, visits, faults>>

\* The message "activity" of a viewer that stays.
Stay(v) ==
    /\ v \in open
    /\ SetActivity(open)
    /\ UNCHANGED <<open, asking, presence, visits, faults>>

\* A notice arrives, or the answer of the hub does. Without a lease it holds for
\* five minutes or half a minute from now; a lease that has run out stays so.
Given(a, default) == [a EXCEPT !.until = IF @ = NoLease THEN default ELSE @]

Arrive(n) ==
    /\ n \in notices
    /\ notices' = notices \ {n}
    /\ presence' = Given(n, Long)
    /\ UNCHANGED <<open, hub, asking, visits, faults>>

\* A status of the agent when the lease is over: refreshDashboardActivity.
Ask ==
    /\ presence.until = 0
    /\ \A q \in asking : q.default # 1
    /\ asking' = asking \cup {[answer |-> Current(open), default |-> 1]}
    /\ UNCHANGED <<open, hub, notices, presence, visits, faults>>

\* An agent that connects makes the object ask in any case.
Connect ==
    /\ visits < MaxVisits /\ visits' = visits + 1
    /\ \A q \in asking : q.default # Long
    /\ asking' = asking \cup {[answer |-> Current(open), default |-> Long]}
    /\ UNCHANGED <<open, hub, notices, presence, faults>>

\* Mutant: the answer extends the lease, and nothing else.
AnswerExtends(q) ==
    /\ q \in asking
    /\ asking' = asking \ {q}
    /\ presence' = [presence EXCEPT !.until = Given(q.answer, q.default).until]
    /\ UNCHANGED <<open, hub, notices, visits, faults>>

\* The answer, or an error: the status then counts as unwatched for a while,
\* the connection changes nothing.
Answer(q) ==
    /\ q \in asking
    /\ asking' = asking \ {q}
    /\ \/ presence' = Given(q.answer, q.default) /\ UNCHANGED faults
       \/ presence' = [Unaware EXCEPT !.until = 1] /\ q.default = 1 /\ Fault
       \/ UNCHANGED presence /\ q.default = Long /\ Fault
    /\ UNCHANGED <<open, hub, notices, visits>>

EvictHub ==
    /\ Fault
    /\ hub' = [interval |-> "idle", until |-> 0]
    /\ UNCHANGED <<open, notices, asking, presence, visits>>

EvictPresence ==
    /\ Fault /\ asking = {}
    /\ presence' = Unaware
    /\ UNCHANGED <<open, hub, notices, asking, visits>>

Sooner(n) == IF n > 0 /\ n # NoLease THEN n - 1 ELSE n

Tick ==
    /\ hub' = [hub EXCEPT !.until = Sooner(@)]
    /\ notices' = {[n EXCEPT !.until = Sooner(@)] : n \in notices}
    /\ asking' = {[q EXCEPT !.answer.until = Sooner(@)] : q \in asking}
    /\ presence' = [presence EXCEPT !.until = Sooner(@)]
    /\ <<hub, notices, asking, presence>>' # <<hub, notices, asking, presence>>
    /\ UNCHANGED <<open, visits, faults>>

Next ==
    \/ \E v \in Viewers : Come(v) \/ Go(v) \/ Stay(v)
    \/ \E n \in notices : Arrive(n)
    \/ \E q \in asking : Answer(q)
    \/ Ask \/ Connect \/ EvictHub \/ EvictPresence \/ Tick

Spec == Init /\ [][Next]_vars

\* Time passes, requests and answers arrive, the agent goes on reporting.
\* Nothing is assumed of the viewers.
Fairness ==
    /\ WF_vars(Tick) /\ WF_vars(Ask)
    /\ WF_vars(\E n \in notices : Arrive(n)) /\ WF_vars(\E q \in asking : Answer(q))

FairSpec == Spec /\ Fairness

-----------------------------------------------------------------------------

\* Whatever overtook whatever, in the end the VPS reports at the pace its
\* viewers need, and to nobody when nobody is there.
PaceSettles == <>[](presence.active = (open # {}) /\ presence.interval = ViewerInterval(open))

=============================================================================
