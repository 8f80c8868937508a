------------------------- MODULE ExitDisable_proofs -------------------------
(***************************************************************************)
(* What a slot keeps while workers, retry timers and the watchdog act on   *)
(* it and operators do no more than disable it: its node, its fail-closed  *)
(* rule and its process. Every other request breaks one of these, see the  *)
(* runs that expect a violation.                                           *)
(***************************************************************************)
EXTENDS ExitSlots_proofs

\* Operators disable slots or leave them alone, and joins of 3 s are outlasted
\* by the steps that wait for answers from the network only.
DisablesOnly == Operations \subseteq {"disable"} /\ Stalls \subseteq {"verify", "probe", "probing"}

Me == thread[Watchdog]

\* What a worker may still do once start_slot has given up waiting for it: end,
\* without touching node, routes or row.
LateSteps == {"verify", "probe", "probing", "except", "finally", "schedule", "reclaim", "disown"}

\* The dial section up to the row's write, where the slot does not serve yet.
DialingUp == {"dial", "acquire", "prefer", "reserve", "check", "spawn", "adopt", "init",
              "install", "verify", "listen", "probe", "write"}
Installed    == {"verify", "listen", "probe", "write", "publish", "health", "probing"}
Unspawned    == {"dial", "acquire", "prefer", "reserve", "check", "spawn"}
Unregistered == Unspawned \cup {"adopt"}

\* The watchdog past the bump of its stop, or before the launch of a start:
\* nobody owns the slot.
Relaunching == {"stopClose", "stopRoute", "stopJoin", "redial", "start", "startJoin"}

On(v, s) == worker[v].slot = s /\ worker[v].pc # "done"

\* A thread stops slot s and has not seen the end of its worker v yet.
Pursued(v, s) == rt[s].worker = v /\ \E t \in Threads :
    /\ thread[t].slot = s
    /\ \/ thread[t].pc \in {"stopClose", "stopRoute"} /\ thread[t].was
       \/ thread[t].pc = "stopJoin" /\ thread[t].join = v

\* The slot was disabled over the head of its worker v.
Abandoned(v, s) == rt[s].worker = v /\ ~row[s].enabled /\ row[s].reason = "manual"

\* A stop is about to close the slot, or has it closed.
Closing(s) == \E t \in Threads : thread[t].slot = s /\ thread[t].pc \in {"stopBump", "stopClose"}

\* The watchdog stops only what it redials, users only what they disable.
OnlyDisables ==
    /\ Me.op \in {"none", "autoRedial", "recover", "revive", "inspect"}
    /\ Me.pc \notin {"connect", "enable", "disable", "configure", "configureWrite"}
    /\ \A u \in Users : /\ thread[u].op \in {"none", "disable"}
                        /\ thread[u].pc \in StopSteps \cup {"idle", "disable"}

\* The runtime's worker is one that has not ended, and only it records failures.
Employed(s) == \A v \in Workers :
    /\ rt[s].worker = v => On(v, s)
    /\ On(v, s) /\ worker[v].pc \in {"record", "teardown", "retire"} => rt[s].worker = v
    /\ On(v, s) /\ worker[v].pc = "schedule" /\ v \in fresh => rt[s].worker = v /\ row[s].enabled

\* A worker that lost its generation can do no harm, or somebody waits for it,
\* or its slot stays disabled as long as it can.
Left(s) == \A v \in Workers : On(v, s) =>
    \/ v \in fresh
    \/ worker[v].pc \in LateSteps \cup {"teardown", "retire"}
    \/ Pursued(v, s)
    \/ Abandoned(v, s)

\* What runs for a disabled slot ends at once.
Fenced(s) ==
    /\ \A v \in Owners(s) : ~row[s].enabled =>
          /\ row[s].reason = "manual" /\ row[s].state \notin Serving
          /\ worker[v].pc \in {"dial", "finally", "cleanup", "disown"} /\ ~Running(v)
    /\ \A v \in Owners(s) : worker[v].pc \in {"finally", "cleanup", "disown"} =>
          Stopping(s) \/ ~row[s].enabled
    /\ \A t \in Threads :
          /\ thread[t].slot = s /\ thread[t].pc \in {"stopBump", "stopClose", "stopRoute"}
          /\ ~thread[t].was
          => ~row[s].enabled
    /\ Me.slot = s /\ Me.pc = "startLaunch" => row[s].enabled \/ row[s].reason = "manual"
    /\ s \in fresh => row[s].enabled /\ rt[s].timer

\* A failure is recorded by the owner, or by the worker of a slot just disabled.
Failing(s) == \A v \in Workers : On(v, s) =>
    /\ worker[v].pc = "record" => v \in fresh \/ Abandoned(v, s)
    /\ worker[v].pc \in {"teardown", "retire"} =>
          v \notin fresh /\ Owners(s) = {} /\ row[s].state \notin Serving

\* Nobody launches a worker behind the watchdog's back.
Window(s) == Me.slot = s =>
    /\ Me.pc \in {"stopLock", "stopBump"} /\ ~row[s].enabled => Owners(s) = {}
    /\ Me.pc \in Relaunching =>
          /\ s \notin fresh
          /\ \A v \in Workers : On(v, s) => v \notin fresh /\ worker[v].pc \notin {"record", "teardown", "retire"}
    /\ Me.pc = "startJoin" => \A v \in Workers : rt[s].worker = v => Me.join = v
    /\ Me.pc = "startLaunch" => \A v \in Workers : rt[s].worker # v

Unserved(s) == \A v \in Workers :
    /\ On(v, s) /\ worker[v].pc \in DialingUp \cup {"cleanup"}
    /\ v \in fresh \/ rt[s].worker = v
    => row[s].state \notin Serving

\* A row that the watchdog saw serving still is, unless its generation or the
\* stop event tells.
Inspected(s) ==
    /\ \A t \in Threads : thread[t].slot = s /\ thread[t].pc \in {"stopBump", "stopClose", "stopRoute"}
                           => rt[s].stop
    /\ Me.slot = s /\ Me.pc = "inspect" /\ Watchdog \in fresh /\ Me.state \in Serving
        => row[s].state \in Serving \/ (rt[s].stop /\ row[s].state \in {"idle", "disabled"})

Guarded(s) ==
    /\ row[s].enabled /\ row[s].state \in Serving => "closed" \in routes[s]
    /\ \A v \in Owners(s) : worker[v].pc \in Installed => "closed" \in routes[s]

Registered(s) ==
    /\ \A v \in Workers : worker[v].slot = s /\ Running(v) =>
          worker[v].pc = "adopt" \/ rt[s].process = v
    /\ \A v \in Workers : On(v, s) /\ worker[v].pc \in Unspawned => ~Running(v)
    /\ \A v \in Workers : rt[s].process = v =>
          worker[v].slot = s \/ (worker[v].pc = "done" /\ ~Running(v))
    /\ \A v \in Workers : On(v, s) /\ worker[v].pc \in Unregistered => rt[s].process # v
    /\ \A v \in Workers : rt[s].process = v /\ Running(v) =>
          \/ v \in Owners(s)
          \/ worker[v].pc \in {"teardown", "retire"}
          \/ Closing(s)
          \/ Abandoned(v, s) /\ worker[v].pc # "disown"

Held(s) == \A v \in Owners(s) : worker[v].pc \in HoldsNode => reserved[s] = worker[v].node

SlotInv(s) == /\ Employed(s) /\ Left(s) /\ Fenced(s) /\ Failing(s) /\ Window(s) /\ Unserved(s)
              /\ Inspected(s) /\ Guarded(s) /\ Registered(s) /\ Held(s)

\* Threads that ended hold no generation, processes belong to a slot.
Ended == \A v \in Workers :
    /\ worker[v].pc \in {"reclaim", "done"} => v \notin fresh
    /\ Running(v) => worker[v].slot \in Slots

SlotsInv == OnlyDisables /\ Ended /\ \A s \in Slots : SlotInv(s)

\* A slot its failure limit has disabled is disabled.
ReasonInv == \A s \in Slots : row[s].reason = "automatic" => ~row[s].enabled

DisableInv == OwnerInv /\ ReasonInv /\ SlotsInv

-----------------------------------------------------------------------------
\* Thread t is in a step the invariant of slot o speaks of.
Acting(t, o) == thread[t].slot = o
             /\ thread[t].pc \in StopSteps \cup {"redial", "start", "startJoin", "startLaunch", "inspect"}

\* The thread goes on with what it does; a worker of slot o it joins has not ended.
ThreadKept(t, o) ==
    /\ thread'[t].slot = thread[t].slot /\ thread'[t].pc = thread[t].pc
    /\ thread'[t].was = thread[t].was /\ thread'[t].state = thread[t].state
    /\ \A v \in Workers : worker[v].slot = o => (thread'[t].join = v <=> thread[t].join = v)
    /\ t \in fresh' => t \in fresh

\* Nothing that matters to slot o happens.
Untouched(o) ==
    /\ row'[o] = row[o] /\ reserved'[o] = reserved[o]
    /\ rt'[o].worker = rt[o].worker /\ rt'[o].process = rt[o].process
    /\ rt'[o].stop = rt[o].stop
    /\ "closed" \in routes[o] => "closed" \in routes'[o]
    /\ \A v \in Workers : worker[v].slot = o \/ worker'[v].slot = o =>
          \/ worker'[v] = worker[v] /\ (v \in fresh' <=> v \in fresh)
          \/ worker[v].pc = "done" /\ v \notin fresh /\ worker'[v].slot # o
    /\ \A v \in Workers : Running(v)' /\ (worker[v].slot = o \/ worker[v].pc = "done") => Running(v)
    /\ \A v \in Workers : rt[o].process = v => worker'[v] = worker[v]
    /\ o \in fresh' => o \in fresh /\ rt'[o].timer = rt[o].timer
    /\ \A t \in Threads : Acting(t, o) \/ Acting(t, o)' => ThreadKept(t, o)

LEMMA UntouchedKept ==
    ASSUME NEW o \in Slots, Untouched(o), SlotInv(o)
    PROVE  SlotInv(o)'
<1> USE DEF Untouched, SlotInv, StopSteps
<1>1. Owners(o)' = Owners(o) /\ \A v \in Workers : On(v, o)' <=> On(v, o)
  BY DEF Owners, On
<1>2. \A v \in Workers : /\ rt[o].worker = v => worker[v].slot = o
                         /\ Abandoned(v, o)' <=> Abandoned(v, o)
  BY DEF Employed, On, Abandoned
<1>3. \A v \in Workers : Pursued(v, o)' <=> Pursued(v, o)
  BY <1>2 DEF Pursued, Acting, ThreadKept
<1>4. (Stopping(o)' <=> Stopping(o)) /\ (Closing(o)' <=> Closing(o))
  BY DEF Stopping, Closing, Acting, ThreadKept
<1>5. /\ Acting(Watchdog, o) \/ Acting(Watchdog, o)' => ThreadKept(Watchdog, o)
      /\ Me = thread[Watchdog] /\ Me' = thread'[Watchdog]
  BY DEF Me, Threads
<1>6. Employed(o)' /\ Left(o)' /\ Unserved(o)'
  BY <1>1, <1>2, <1>3 DEF Employed, Left, Unserved, On
<1>7. Fenced(o)'
  <2>1. \A t \in Threads : thread'[t].slot = o /\ thread'[t].pc \in {"stopBump", "stopClose", "stopRoute"}
                             /\ ~thread'[t].was => ~row'[o].enabled
    BY DEF Fenced, Acting, ThreadKept
  <2>2. Me'.slot = o /\ Me'.pc = "startLaunch" => row'[o].enabled \/ row'[o].reason = "manual"
    BY <1>5 DEF Fenced, Acting, ThreadKept
  <2> QED BY <1>1, <1>4, <2>1, <2>2 DEF Fenced, Owners
<1>8. Failing(o)'
  BY <1>1, <1>2 DEF Failing, On
<1>9. Window(o)' /\ Inspected(o)'
  BY <1>1, <1>2, <1>5 DEF Window, Inspected, Acting, ThreadKept, Relaunching, On
<1>10. Guarded(o)' /\ Held(o)'
  BY <1>1 DEF Guarded, Held, Owners
<1>11. Registered(o)'
  BY <1>1, <1>2, <1>4 DEF Registered, On, Owners
<1> QED BY <1>6, <1>7, <1>8, <1>9, <1>10, <1>11

-----------------------------------------------------------------------------
(* Connection workers *)

\* Worker w goes on to a step with its slot and node; the others stay.
GoesTo(w, step) ==
    /\ \A v \in Workers \ {w} : worker'[v] = worker[v]
    /\ worker'[w].pc = step /\ worker'[w].slot = worker[w].slot
    /\ worker'[w].node = worker[w].node

LEMMA GotoGoes ==
    ASSUME TypeOK, NEW w \in Workers, NEW step, Goto(w, step)
    PROVE  GoesTo(w, step)
BY DEF Goto, TypeOK, WorkerRec, GoesTo

\* What a step of worker w leaves of the other slots.
LEMMA WorkerElsewhere ==
    ASSUME DisableInv, NEW w \in Workers, NEW s, worker[w].slot = s, worker[w].pc # "done",
           \A v \in Workers \ {w} : worker'[v] = worker[v],
           worker'[w].slot \in {s, None},
           \A o \in Slots \ {s} : /\ row'[o] = row[o] /\ rt'[o] = rt[o]
                                  /\ reserved'[o] = reserved[o] /\ routes'[o] = routes[o]
                                  /\ o \in fresh' => o \in fresh,
           \A v \in Workers : v # w /\ worker[v].slot # s => (v \in fresh' <=> v \in fresh),
           \A v \in Workers : v # w /\ Running(v)' => Running(v),
           \A o \in Slots \ {s} : \A t \in Threads : Acting(t, o) \/ Acting(t, o)' => ThreadKept(t, o),
           NEW o \in Slots \ {s}
    PROVE  SlotInv(o)'
<1>1. SlotInv(o)
  BY DEF DisableInv, SlotsInv
<1>2. None \notin Slots
  BY ExitSlotsAssumption
<1>3. rt[o].process # w
  BY <1>1 DEF SlotInv, Registered
<1> QED BY <1>1, <1>2, <1>3, UntouchedKept DEF Untouched

\* A current worker that finds itself stale is about to lose its generation, or
\* its slot was disabled just before it was launched.
LEMMA StaleOwner ==
    ASSUME DisableInv, NEW w \in Workers, worker[w].slot \in Slots, w \in fresh,
           Stale(w), worker[w].pc \notin {"record", "schedule"}, NEW s, worker[w].slot = s
    PROVE  Stopping(s) \/ ~row[s].enabled
<1>1. w \in Owners(s) /\ OwnerAttends
  BY DEF Owners, DisableInv, OwnerInv
<1>2. SlotOf(w) = s
  BY DEF SlotOf
<1> QED BY <1>1, <1>2 DEF OwnerAttends, Stale

\* The fields of slot s that the invariant reads stay.
Calm == /\ UNCHANGED <<row, reserved, routes, fresh, thread>>
        /\ \A s \in Slots : /\ rt'[s].worker = rt[s].worker /\ rt'[s].process = rt[s].process
                            /\ rt'[s].stop = rt[s].stop /\ rt'[s].timer = rt[s].timer

LEMMA QuietMove ==
    ASSUME DisableInv, NEW w \in Workers, NEW s, worker[w].slot = s, NEW step, GoesTo(w, step), Calm,
           \A o \in Slots \ {s} : rt'[o] = rt[o],
           \A v \in Workers : Running(v)' => Running(v),
           worker[w].pc \notin {"record", "teardown", "retire", "schedule", "adopt", "done"},
           step \notin {"record", "teardown", "retire", "schedule", "adopt", "done"},
           w \notin fresh => step \in LateSteps \/ worker[w].pc \notin LateSteps,
           w \in fresh /\ ~row[s].enabled => step \in {"dial", "finally", "cleanup", "disown"},
           step \in {"finally", "cleanup", "disown"} /\ w \in fresh => Stopping(s) \/ ~row[s].enabled,
           step = "reclaim" => w \notin fresh,
           step = "disown" => w \in fresh,
           step \in DialingUp => worker[w].pc \in DialingUp,
           step = "cleanup" => row[s].state \notin Serving,
           step \in Installed => worker[w].pc \in Installed,
           step \in Unspawned => worker[w].pc \in Unspawned,
           step \in HoldsNode => worker[w].pc \in HoldsNode
    PROVE  SlotsInv'
<1>1. s \in Slots
  BY DEF DisableInv, OwnerInv, Placed
<1>2. SlotInv(s)
  BY <1>1 DEF DisableInv, SlotsInv
<1>3. \A v \in Workers : /\ worker'[v].slot = worker[v].slot /\ worker'[v].node = worker[v].node
                         /\ v # w => worker'[v].pc = worker[v].pc
  BY DEF GoesTo
<1>4. Owners(s)' = Owners(s)
  BY <1>3 DEF Owners, Calm, GoesTo
<1>5. \A v \in Workers : On(v, s)' <=> On(v, s)
  BY <1>3 DEF On, GoesTo
<1>6. \A v \in Workers : /\ Pursued(v, s)' <=> Pursued(v, s)
                         /\ Abandoned(v, s)' <=> Abandoned(v, s)
  BY <1>1 DEF Pursued, Abandoned, Calm
<1>7. (Stopping(s)' <=> Stopping(s)) /\ (Closing(s)' <=> Closing(s)) /\ Me' = Me
  BY DEF Stopping, Closing, Me, Calm
<1>8. Left(s)' /\ Employed(s)'
  BY <1>1, <1>2, <1>3, <1>5, <1>6 DEF SlotInv, Left, Employed, GoesTo, Calm, LateSteps
<1>9. Fenced(s)'
  BY <1>1, <1>2, <1>3, <1>4, <1>7 DEF SlotInv, Fenced, GoesTo, Calm, Owners
<1>10. Failing(s)' /\ Window(s)'
  BY <1>1, <1>2, <1>3, <1>4, <1>5, <1>6, <1>7 DEF SlotInv, Failing, Window, GoesTo, Calm
<1>11. Unserved(s)'
  BY <1>1, <1>2, <1>3, <1>5, <1>6 DEF SlotInv, Unserved, GoesTo, Calm
<1>12. Inspected(s)' /\ Guarded(s)'
  BY <1>1, <1>2, <1>3, <1>4, <1>7 DEF SlotInv, Inspected, Guarded, GoesTo, Calm, Owners
<1>13. Registered(s)'
  BY <1>1, <1>2, <1>3, <1>4, <1>5, <1>6, <1>7
  DEF SlotInv, Registered, GoesTo, Calm, Owners, Unregistered
<1>14. Held(s)'
  BY <1>2, <1>3, <1>4 DEF SlotInv, Held, GoesTo, Calm, Owners
<1>15. SlotInv(s)'
  BY <1>8, <1>9, <1>10, <1>11, <1>12, <1>13, <1>14 DEF SlotInv
<1>16. ASSUME NEW o \in Slots \ {s} PROVE SlotInv(o)'
  BY <1>1, WorkerElsewhere DEF GoesTo, Calm, ThreadKept
<1>17. OnlyDisables' /\ Ended'
  BY <1>1, <1>3 DEF DisableInv, SlotsInv, OnlyDisables, Ended, Me, Calm, GoesTo
<1> QED BY <1>15, <1>16, <1>17 DEF SlotsInv

\* Steps between two tests of the generation, and those that only test it.
LEMMA QuietWorker ==
    ASSUME DisableInv, NEW w \in Workers, NEW s, worker[w].slot = s,
           \/ DialCheck(w) \/ AcquireDial(w) \/ CheckBeforeSpawn(w) \/ AwaitTunnel(w)
           \/ VerifyEgress(w) \/ OpenListener(w) \/ CommitCheck(w) \/ Publish(w)
           \/ HealthCheck(w) \/ ExceptHandler(w) \/ Finally(w)
    PROVE  SlotsInv'
<1> USE DEF LateSteps, DialingUp, Installed, Unspawned, HoldsNode
<1>1. TypeOK /\ s \in Slots /\ worker[w].pc # "done" /\ SlotInv(s)
  BY DEF DisableInv, OwnerInv, SlotsInv, Placed, DialCheck, AcquireDial, CheckBeforeSpawn, AwaitTunnel,
         VerifyEgress, OpenListener, CommitCheck, Publish, HealthCheck, ExceptHandler, Finally
<1>2. SlotOf(w) = s
  BY DEF SlotOf
<1>3. (w \notin fresh => Stale(w)) /\ (~row[s].enabled => Stale(w))
  BY <1>2 DEF Stale
<1>4. Stale(w) /\ w \in fresh /\ worker[w].pc \notin {"record", "schedule"}
        => Stopping(s) \/ ~row[s].enabled
  BY <1>1, StaleOwner
<1>5. \A step : Goto(w, step) => GoesTo(w, step)
  BY <1>1, GotoGoes
<1>6. w \in fresh /\ ~row[s].enabled /\ worker[w].pc \notin {"schedule", "done"} =>
        worker[w].pc \in {"dial", "finally", "cleanup", "disown"}
  BY <1>1 DEF SlotInv, Fenced, Owners
<1>7. CASE DialCheck(w)
  BY <1>3, <1>4, <1>5, <1>7, QuietMove DEF DialCheck, Calm, Running
<1>8. CASE AcquireDial(w)
  BY <1>3, <1>4, <1>5, <1>6, <1>8, QuietMove DEF AcquireDial, Calm, Running
<1>9. CASE CheckBeforeSpawn(w)
  BY <1>3, <1>4, <1>5, <1>6, <1>9, QuietMove DEF CheckBeforeSpawn, LeaveDial, Calm, Running
<1>10. CASE AwaitTunnel(w)
  <2>1. \A v \in Workers : Running(v)' => Running(v)
    BY <1>1, <1>10 DEF AwaitTunnel, Running, TypeOK
  <2>2. worker[w].pc = "init" /\ Calm /\ \A o \in Slots \ {s} : rt'[o] = rt[o]
    BY <1>10 DEF AwaitTunnel, Calm
  <2>3. CASE GoesTo(w, "finally") /\ Stale(w)
    BY <1>4, <2>1, <2>2, <2>3, QuietMove
  <2>4. CASE GoesTo(w, "install") /\ ~Stale(w)
    BY <1>3, <2>1, <2>2, <2>4, QuietMove
  <2>5. CASE GoesTo(w, "except") /\ ~Stale(w)
    BY <1>3, <2>1, <2>2, <2>5, QuietMove
  <2> QED BY <1>5, <1>10, <2>3, <2>4, <2>5 DEF AwaitTunnel, LeaveDial
<1>11. CASE VerifyEgress(w)
  BY <1>3, <1>4, <1>5, <1>6, <1>11, QuietMove DEF VerifyEgress, LeaveDial, Calm, Running
<1>12. CASE OpenListener(w)
  BY <1>3, <1>4, <1>5, <1>6, <1>12, QuietMove DEF OpenListener, LeaveDial, Calm, Running
<1>13. CASE CommitCheck(w)
  BY <1>3, <1>4, <1>5, <1>6, <1>13, QuietMove DEF CommitCheck, LeaveDial, Calm, Running
<1>14. CASE Publish(w)
  <2>1. rt' = [rt EXCEPT ![s].listener = w]
    BY <1>14 DEF Publish
  <2>2. /\ \A o \in Slots : /\ rt'[o].worker = rt[o].worker /\ rt'[o].process = rt[o].process
                            /\ rt'[o].stop = rt[o].stop /\ rt'[o].timer = rt[o].timer
        /\ \A o \in Slots \ {s} : rt'[o] = rt[o]
    BY <1>1, <2>1 DEF TypeOK, RuntimeRec
  <2>3. Calm /\ \A v \in Workers : Running(v)' => Running(v)
    BY <1>14, <2>2 DEF Publish, LeaveDial, Calm, Running
  <2> QED BY <1>5, <1>6, <1>14, <2>2, <2>3, QuietMove DEF Publish, LeaveDial
<1>15. CASE HealthCheck(w)
  BY <1>3, <1>4, <1>5, <1>6, <1>15, QuietMove DEF HealthCheck, Calm, Running
<1>16. CASE ExceptHandler(w)
  BY <1>3, <1>4, <1>5, <1>6, <1>16, QuietMove DEF ExceptHandler, Calm, Running
<1>17. CASE Finally(w)
  <2>1. w \in fresh => Stopping(s) \/ ~row[s].enabled
    BY <1>1, <1>17 DEF SlotInv, Fenced, Owners, Finally
  <2> QED BY <1>5, <1>17, <2>1, QuietMove DEF Finally, Calm, Running
<1> QED BY <1>7, <1>8, <1>9, <1>10, <1>11, <1>12, <1>13, <1>14, <1>15, <1>16, <1>17

-----------------------------------------------------------------------------
\* The rest of the workers' steps each change something the invariant reads. What
\* they leave of the other slots.
LEMMA WorkerFrame ==
    ASSUME DisableInv, NEW w \in Workers, NEW s \in Slots, worker[w].slot = s, worker[w].pc # "done",
           \A v \in Workers \ {w} : worker'[v] = worker[v], worker'[w].slot = s,
           \A o \in Slots \ {s} : /\ row'[o] = row[o] /\ rt'[o] = rt[o]
                                  /\ reserved'[o] = reserved[o] /\ routes'[o] = routes[o]
                                  /\ o \in fresh' => o \in fresh,
           \A v \in Workers : v # w /\ worker[v].slot # s => (v \in fresh' <=> v \in fresh),
           \A v \in Workers : v # w /\ v \in fresh' => v \in fresh,
           \A v \in Workers : v # w /\ Running(v)' => Running(v),
           worker'[w].pc \in {"reclaim", "done"} => w \notin fresh',
           UNCHANGED thread, \A t \in Threads : t \in fresh' => t \in fresh,
           SlotInv(s)'
    PROVE  SlotsInv'
<1>1. ASSUME NEW o \in Slots \ {s} PROVE SlotInv(o)'
  BY WorkerElsewhere DEF ThreadKept
<1>2. OnlyDisables'
  BY DEF DisableInv, SlotsInv, OnlyDisables, Me
<1>3. Ended'
  BY DEF DisableInv, SlotsInv, Ended
<1> QED BY <1>1, <1>2, <1>3 DEF SlotsInv

\* Who is neither late nor tearing down has the slot for itself.
LEMMA OwnersAlone ==
    ASSUME DisableInv, NEW s \in Slots, NEW w \in Workers, On(w, s),
           worker[w].pc \notin LateSteps \cup {"teardown", "retire"}
    PROVE  /\ \A v \in Owners(s) : v = w
           /\ rt[s].worker = w
           /\ w \in fresh \/ Pursued(w, s) \/ Abandoned(w, s)
<1>1. w \in fresh \/ Pursued(w, s) \/ Abandoned(w, s)
  BY DEF DisableInv, SlotsInv, SlotInv, Left
<1>2. \A v \in Owners(s) : rt[s].worker = v
  BY DEF DisableInv, OwnerInv, OwnerAttends
<1>3. w \in fresh => w \in Owners(s)
  BY DEF On, Owners, LateSteps
<1> QED BY <1>1, <1>2, <1>3 DEF Pursued, Abandoned

\* What a worker's step starts from.
LEMMA WorkerStart ==
    ASSUME DisableInv, NEW w \in Workers, worker[w].pc # "done"
    PROVE  \E s \in Slots : /\ worker[w].slot = s /\ On(w, s) /\ SlotInv(s)
                            /\ TypeOK /\ SlotOf(w) = s
BY DEF DisableInv, OwnerInv, SlotsInv, Placed, On, SlotOf

\* What the threads are in the middle of, as seen from slot s.
LEMMA ThreadsStay ==
    ASSUME UNCHANGED thread, NEW s
    PROVE  /\ Me' = Me /\ (Stopping(s)' <=> Stopping(s)) /\ (Closing(s)' <=> Closing(s))
           /\ rt'[s].worker = rt[s].worker =>
                \A v \in Workers : Pursued(v, s)' <=> Pursued(v, s)
BY DEF Me, Stopping, Closing, Pursued

LEMMA FreshRange ==
    ASSUME NEW s \in Slots, NEW w \in Workers
    PROVE  w \notin Slots /\ s \notin Threads /\ w \notin Threads /\ w # None
BY ExitSlotsAssumption DEF Threads

LEMMA TakePreferredKept ==
    ASSUME DisableInv, NEW w \in Workers, TakePreferred(w)
    PROVE  SlotsInv'
<1> USE DEF LateSteps, DialingUp, Installed, Unspawned, HoldsNode
<1>1. PICK s \in Slots : worker[w].slot = s /\ On(w, s) /\ SlotInv(s) /\ TypeOK
  BY WorkerStart DEF TakePreferred
<1>3. /\ worker'[w].pc = "reserve" /\ worker'[w].slot = s
      /\ \A v \in Workers \ {w} : worker'[v] = worker[v]
  BY <1>1 DEF TakePreferred, TypeOK, WorkerRec
<1>4. /\ \A o \in Slots : /\ rt'[o].worker = rt[o].worker /\ rt'[o].process = rt[o].process
                          /\ rt'[o].stop = rt[o].stop /\ rt'[o].timer = rt[o].timer
      /\ \A o \in Slots \ {s} : rt'[o] = rt[o]
  BY <1>1 DEF TakePreferred, TypeOK, RuntimeRec
<1>5. UNCHANGED <<row, reserved, fresh, proc, routes, thread>> /\ worker[w].pc = "prefer"
  BY DEF TakePreferred
<1>6. SlotInv(s)'
  <2>1. Owners(s)' = Owners(s)
    BY <1>1, <1>3, <1>5 DEF Owners
  <2>2. /\ \A v \in Workers : /\ On(v, s)' <=> On(v, s)
                              /\ Pursued(v, s)' <=> Pursued(v, s)
                              /\ Abandoned(v, s)' <=> Abandoned(v, s)
        /\ Me' = Me /\ (Stopping(s)' <=> Stopping(s)) /\ (Closing(s)' <=> Closing(s))
    BY <1>1, <1>3, <1>4, <1>5, ThreadsStay DEF On, Abandoned
  <2>3. Employed(s)' /\ Left(s)' /\ Unserved(s)'
    BY <1>1, <1>3, <1>4, <1>5, <2>2 DEF SlotInv, Employed, Left, Unserved, On
  <2>4. Fenced(s)'
    BY <1>1, <1>3, <1>4, <1>5, <2>1, <2>2 DEF SlotInv, Fenced, Owners, On, Running
  <2>5. Failing(s)' /\ Window(s)'
    BY <1>1, <1>3, <1>4, <1>5, <2>1, <2>2 DEF SlotInv, Failing, Window, On
  <2>6. Inspected(s)' /\ Guarded(s)' /\ Held(s)'
    BY <1>1, <1>3, <1>4, <1>5, <2>1, <2>2 DEF SlotInv, Inspected, Guarded, Held, Owners
  <2>7. Registered(s)'
    BY <1>1, <1>3, <1>4, <1>5, <2>1, <2>2 DEF SlotInv, Registered, Owners, Unregistered, Running, On
  <2> QED BY <2>3, <2>4, <2>5, <2>6, <2>7 DEF SlotInv
<1> QED
  BY <1>1, <1>3, <1>4, <1>5, <1>6, WorkerFrame DEF Running, On

LEMMA ReserveNodeKept ==
    ASSUME DisableInv, NEW w \in Workers, ReserveNode(w)
    PROVE  SlotsInv'
<1> USE DEF LateSteps, DialingUp, Installed, Unspawned, HoldsNode
<1>1. PICK s \in Slots : worker[w].slot = s /\ On(w, s) /\ SlotInv(s) /\ TypeOK
  BY WorkerStart DEF ReserveNode
<1>2. UNCHANGED <<row, rt, fresh, proc, routes, thread>> /\ worker[w].pc = "reserve"
  BY DEF ReserveNode
<1>3. /\ \A v \in Workers \ {w} : worker'[v] = worker[v]
      /\ worker'[w].slot = s
      /\ \/ worker'[w].pc = "check" /\ reserved'[s] = worker'[w].node
         \/ worker'[w].pc = "except"
  <2>1. ASSUME NEW n, NEW step, worker' = [worker EXCEPT ![w] = [@ EXCEPT !.pc = step, !.node = n]],
               reserved' = [reserved EXCEPT ![s] = n], step = "check" \/ step = "except"
        PROVE  /\ \A v \in Workers \ {w} : worker'[v] = worker[v]
               /\ worker'[w].slot = s /\ worker'[w].pc = step /\ reserved'[s] = worker'[w].node
    BY <1>1, <2>1 DEF TypeOK, WorkerRec
  <2> QED BY <1>1, <2>1 DEF ReserveNode
<1>4. \A o \in Slots \ {s} : reserved'[o] = reserved[o]
  BY <1>1 DEF ReserveNode, TypeOK
<1>5. SlotInv(s)'
  <2>1. Owners(s)' = Owners(s)
    BY <1>1, <1>2, <1>3 DEF Owners
  <2>2. /\ \A v \in Workers : /\ On(v, s)' <=> On(v, s)
                              /\ Pursued(v, s)' <=> Pursued(v, s)
                              /\ Abandoned(v, s)' <=> Abandoned(v, s)
        /\ Me' = Me /\ (Stopping(s)' <=> Stopping(s)) /\ (Closing(s)' <=> Closing(s))
    BY <1>1, <1>2, <1>3, ThreadsStay DEF On, Abandoned
  <2>3. Employed(s)' /\ Left(s)' /\ Unserved(s)'
    BY <1>1, <1>2, <1>3, <2>2 DEF SlotInv, Employed, Left, Unserved, On
  <2>4. Fenced(s)'
    BY <1>1, <1>2, <1>3, <2>1, <2>2 DEF SlotInv, Fenced, Owners, On, Running
  <2>5. Failing(s)' /\ Window(s)'
    BY <1>1, <1>2, <1>3, <2>1, <2>2 DEF SlotInv, Failing, Window, On
  <2>6. Inspected(s)' /\ Guarded(s)'
    BY <1>1, <1>2, <1>3, <2>1, <2>2 DEF SlotInv, Inspected, Guarded, Owners
  <2>7. Registered(s)'
    BY <1>1, <1>2, <1>3, <2>1, <2>2 DEF SlotInv, Registered, Owners, Unregistered, Running, On
  <2>8. Held(s)'
    BY <1>1, <1>2, <1>3, <2>1, OwnersAlone DEF Held
  <2> QED BY <2>3, <2>4, <2>5, <2>6, <2>7, <2>8 DEF SlotInv
<1> QED
  BY <1>1, <1>2, <1>3, <1>4, <1>5, WorkerFrame DEF Running, On

LEMMA SpawnKept ==
    ASSUME DisableInv, NEW w \in Workers, Spawn(w)
    PROVE  SlotsInv'
<1> USE DEF LateSteps, DialingUp, Installed, Unspawned, HoldsNode
<1>1. PICK s \in Slots : worker[w].slot = s /\ On(w, s) /\ SlotInv(s) /\ TypeOK
  BY WorkerStart DEF Spawn
<1>2. UNCHANGED <<row, rt, reserved, fresh, routes, thread>> /\ worker[w].pc = "spawn"
  BY DEF Spawn
<1>3. /\ GoesTo(w, "adopt")
      /\ \A v \in Workers \ {w} : Running(v)' => Running(v)
  BY <1>1, GotoGoes DEF Spawn, Running, TypeOK
<1>5. SlotInv(s)'
  <2>1. Owners(s)' = Owners(s)
    BY <1>1, <1>2, <1>3 DEF Owners, GoesTo
  <2>2. /\ \A v \in Workers : /\ On(v, s)' <=> On(v, s)
                              /\ Pursued(v, s)' <=> Pursued(v, s)
                              /\ Abandoned(v, s)' <=> Abandoned(v, s)
        /\ Me' = Me /\ (Stopping(s)' <=> Stopping(s)) /\ (Closing(s)' <=> Closing(s))
    BY <1>1, <1>2, <1>3, ThreadsStay DEF On, Abandoned, GoesTo
  <2>3. Employed(s)' /\ Left(s)' /\ Unserved(s)'
    BY <1>1, <1>2, <1>3, <2>2 DEF SlotInv, Employed, Left, Unserved, On, GoesTo
  <2>4. Fenced(s)'
    BY <1>1, <1>2, <1>3, <2>1, <2>2 DEF SlotInv, Fenced, Owners, On, GoesTo
  <2>5. Failing(s)' /\ Window(s)'
    BY <1>1, <1>2, <1>3, <2>1, <2>2 DEF SlotInv, Failing, Window, On, GoesTo
  <2>6. Inspected(s)' /\ Guarded(s)' /\ Held(s)'
    BY <1>1, <1>2, <1>3, <2>1, <2>2 DEF SlotInv, Inspected, Guarded, Held, Owners, GoesTo
  <2>7. Registered(s)'
    BY <1>1, <1>2, <1>3, <2>1, <2>2 DEF SlotInv, Registered, Owners, Unregistered, On, GoesTo
  <2> QED BY <2>3, <2>4, <2>5, <2>6, <2>7 DEF SlotInv
<1> QED
  BY <1>1, <1>2, <1>3, <1>5, WorkerFrame DEF On, GoesTo

LEMMA ProcessSet ==
    ASSUME TypeOK, NEW s \in Slots, NEW p, rt' = [rt EXCEPT ![s].process = p]
    PROVE  /\ \A o \in Slots : /\ rt'[o].worker = rt[o].worker
                               /\ rt'[o].stop = rt[o].stop /\ rt'[o].timer = rt[o].timer
           /\ \A o \in Slots \ {s} : rt'[o] = rt[o]
           /\ rt'[s].process = p
BY DEF TypeOK, RuntimeRec

LEMMA AdoptKept ==
    ASSUME DisableInv, NEW w \in Workers, Adopt(w)
    PROVE  SlotsInv'
<1> USE DEF LateSteps, DialingUp, Installed, Unspawned, HoldsNode
<1>1. PICK s \in Slots : worker[w].slot = s /\ On(w, s) /\ SlotInv(s) /\ TypeOK /\ SlotOf(w) = s
  BY WorkerStart DEF Adopt
<1>2. UNCHANGED <<row, reserved, fresh, routes, thread>> /\ worker[w].pc = "adopt"
  BY DEF Adopt
<1>3. /\ \A v \in Workers : Running(v)' => Running(v)
      /\ \/ GoesTo(w, "finally") /\ ~Running(w)' /\ rt' = rt /\ Stale(w)
         \/ GoesTo(w, "init") /\ rt' = [rt EXCEPT ![s].process = w] /\ w \in fresh
  BY <1>1, GotoGoes, ExitSlotsAssumption DEF Adopt, LeaveDial, Running, Killed, TypeOK, Stale
<1>4. /\ \A v \in Workers \ {w} : worker'[v] = worker[v]
      /\ worker'[w].slot = s /\ worker'[w].node = worker[w].node
      /\ worker'[w].pc \in {"finally", "init"}
      /\ \A o \in Slots : /\ rt'[o].worker = rt[o].worker
                          /\ rt'[o].stop = rt[o].stop /\ rt'[o].timer = rt[o].timer
      /\ \A o \in Slots \ {s} : rt'[o] = rt[o]
      /\ rt'[s].process \in {w, rt[s].process}
      /\ worker'[w].pc = "init" => rt'[s].process = w /\ w \in fresh
      /\ worker'[w].pc = "finally" => ~Running(w)' /\ rt' = rt
  <2>1. CASE rt' = rt /\ GoesTo(w, "finally") /\ ~Running(w)'
    BY <1>1, <2>1 DEF GoesTo
  <2>2. CASE GoesTo(w, "init") /\ rt' = [rt EXCEPT ![s].process = w] /\ w \in fresh
    BY <1>1, <2>2, ProcessSet DEF GoesTo
  <2> QED BY <1>3, <2>1, <2>2
<1>5. /\ worker'[w].pc = "finally" /\ w \in fresh => Stopping(s) \/ ~row[s].enabled
      /\ w \in fresh => row[s].enabled /\ w \in Owners(s)
  <2>1. w \in fresh => w \in Owners(s)
    BY <1>1, <1>2 DEF Owners
  <2> QED BY <1>1, <1>2, <1>3, <2>1, StaleOwner DEF GoesTo, SlotInv, Fenced
<1>6. SlotInv(s)'
  <2>1. Owners(s)' = Owners(s)
    BY <1>1, <1>2, <1>4 DEF Owners
  <2>2. /\ \A v \in Workers : /\ On(v, s)' <=> On(v, s)
                              /\ Pursued(v, s)' <=> Pursued(v, s)
                              /\ Abandoned(v, s)' <=> Abandoned(v, s)
        /\ Me' = Me /\ (Stopping(s)' <=> Stopping(s)) /\ (Closing(s)' <=> Closing(s))
    BY <1>1, <1>2, <1>4, ThreadsStay DEF On, Abandoned
  <2>3. Employed(s)' /\ Left(s)' /\ Unserved(s)'
    BY <1>1, <1>2, <1>4, <2>2 DEF SlotInv, Employed, Left, Unserved, On
  <2>4. Fenced(s)'
    BY <1>1, <1>2, <1>3, <1>4, <1>5, <2>1, <2>2 DEF SlotInv, Fenced, Owners, On
  <2>5. Failing(s)' /\ Window(s)'
    BY <1>1, <1>2, <1>4, <2>1, <2>2 DEF SlotInv, Failing, Window, On
  <2>6. Inspected(s)' /\ Guarded(s)' /\ Held(s)'
    BY <1>1, <1>2, <1>4, <2>1, <2>2 DEF SlotInv, Inspected, Guarded, Held, Owners
  <2>7. ASSUME NEW v \in Workers, rt[s].process = v, Running(v) PROVE v = w
    <3>1. \A x : rt[s].lock = x => x \notin Workers \cup Threads
      BY <1>1, ExitSlotsAssumption DEF Adopt, Unlocked, Threads
    <3>2. CASE v \in Owners(s) \/ Abandoned(v, s)
      <4>1. rt[s].worker = v
        BY <3>2 DEF DisableInv, OwnerInv, OwnerAttends, Abandoned
      <4> QED BY <1>1, <1>2, <4>1, OwnersAlone
    <3>3. CASE worker[v].pc \in {"teardown", "retire"}
      BY <1>1, <2>7, <3>1, <3>3 DEF DisableInv, OwnerInv, LockHeld, SlotInv, Registered
    <3>4. CASE Closing(s)
      BY <3>1, <3>4 DEF DisableInv, OwnerInv, LockHeld, Closing
    <3> QED BY <1>1, <2>7, <3>2, <3>3, <3>4 DEF SlotInv, Registered
  <2>8. Registered(s)'
    <3>1. CASE worker'[w].pc = "finally"
      BY <1>1, <1>2, <1>3, <1>4, <2>1, <2>2, <3>1 DEF SlotInv, Registered, Unregistered, On
    <3>2. CASE worker'[w].pc = "init"
      BY <1>1, <1>2, <1>3, <1>4, <1>5, <2>1, <2>2, <2>7, <3>2 DEF SlotInv, Registered, Unregistered, On
    <3> QED BY <1>4, <3>1, <3>2
  <2> QED BY <2>3, <2>4, <2>5, <2>6, <2>8 DEF SlotInv
<1> QED
  BY <1>1, <1>2, <1>3, <1>4, <1>6, WorkerFrame DEF On

LEMMA InstallRoutesKept ==
    ASSUME DisableInv, NEW w \in Workers, InstallRoutes(w)
    PROVE  SlotsInv'
<1> USE DEF LateSteps, DialingUp, Installed, Unspawned, HoldsNode
<1>1. PICK s \in Slots : worker[w].slot = s /\ On(w, s) /\ SlotInv(s) /\ TypeOK
  BY WorkerStart DEF InstallRoutes
<1>2. UNCHANGED <<row, rt, reserved, fresh, proc, thread>> /\ worker[w].pc = "install"
  BY DEF InstallRoutes
<1>3. \/ GoesTo(w, "verify") /\ routes' = [routes EXCEPT ![s] = {"default", "closed"}]
      \/ GoesTo(w, "except") /\ routes' = [routes EXCEPT ![s] = {}]
  BY <1>1, GotoGoes DEF InstallRoutes, LeaveDial
<1>4. /\ \A v \in Workers \ {w} : worker'[v] = worker[v]
      /\ worker'[w].slot = s /\ worker'[w].node = worker[w].node
      /\ \/ worker'[w].pc = "verify" /\ "closed" \in routes'[s]
         \/ worker'[w].pc = "except"
      /\ \A o \in Slots \ {s} : routes'[o] = routes[o]
  BY <1>1, <1>3 DEF GoesTo, TypeOK
<1>6. SlotInv(s)'
  <2>1. Owners(s)' = Owners(s)
    BY <1>1, <1>2, <1>4 DEF Owners
  <2>2. /\ \A v \in Workers : /\ On(v, s)' <=> On(v, s)
                              /\ Pursued(v, s)' <=> Pursued(v, s)
                              /\ Abandoned(v, s)' <=> Abandoned(v, s)
        /\ Me' = Me /\ (Stopping(s)' <=> Stopping(s)) /\ (Closing(s)' <=> Closing(s))
    BY <1>1, <1>2, <1>4, ThreadsStay DEF On, Abandoned
  <2>3. Employed(s)' /\ Left(s)' /\ Unserved(s)'
    BY <1>1, <1>2, <1>4, <2>2 DEF SlotInv, Employed, Left, Unserved, On
  <2>4. Fenced(s)'
    BY <1>1, <1>2, <1>4, <2>1, <2>2 DEF SlotInv, Fenced, Owners, On, Running
  <2>5. Failing(s)' /\ Window(s)'
    BY <1>1, <1>2, <1>4, <2>1, <2>2 DEF SlotInv, Failing, Window, On
  <2>6. Inspected(s)' /\ Held(s)'
    BY <1>1, <1>2, <1>4, <2>1, <2>2 DEF SlotInv, Inspected, Held, Owners
  <2>7. Registered(s)'
    BY <1>1, <1>2, <1>4, <2>1, <2>2 DEF SlotInv, Registered, Owners, Unregistered, Running, On
  <2>8. Guarded(s)'
    BY <1>1, <1>2, <1>4, <2>1, OwnersAlone DEF SlotInv, Guarded, Unserved
  <2> QED BY <2>3, <2>4, <2>5, <2>6, <2>7, <2>8 DEF SlotInv
<1> QED
  BY <1>1, <1>2, <1>4, <1>6, WorkerFrame DEF Running, On

LEMMA OwnerServes ==
    ASSUME DisableInv, NEW w \in Workers, NEW s \in Slots, On(w, s), w \in fresh,
           worker[w].pc \in {"write", "probing"}, NEW step, GoesTo(w, step),
           step \in {"publish", "health", "failDead"},
           \A o \in Slots \ {s} : row'[o] = row[o],
           row'[s].state \in Serving, row'[s].enabled = row[s].enabled, row'[s].reason = row[s].reason,
           UNCHANGED <<rt, reserved, fresh, proc, routes, thread>>
    PROVE  SlotsInv'
<1> USE DEF LateSteps, DialingUp, Installed, Unspawned, HoldsNode
<1>1. SlotInv(s) /\ TypeOK /\ worker[w].slot = s /\ w \in Owners(s)
  BY DEF DisableInv, OwnerInv, SlotsInv, On, Owners
<1>2. \A v \in Owners(s) : v = w
  BY <1>1 DEF DisableInv, OwnerInv, OwnerAttends
<1>3. rt[s].worker = w /\ row[s].enabled
  BY <1>1 DEF DisableInv, OwnerInv, OwnerAttends, SlotInv, Fenced
<1>4. SlotInv(s)'
  <2>1. Owners(s)' = Owners(s)
    BY <1>1 DEF Owners, GoesTo
  <2>2. /\ \A v \in Workers : /\ On(v, s)' <=> On(v, s)
                              /\ Pursued(v, s)' <=> Pursued(v, s)
                              /\ Abandoned(v, s)' <=> Abandoned(v, s)
        /\ Me' = Me /\ (Stopping(s)' <=> Stopping(s)) /\ (Closing(s)' <=> Closing(s))
    BY <1>1, ThreadsStay DEF On, Abandoned, GoesTo
  <2>3. Employed(s)' /\ Left(s)'
    BY <1>1, <2>2 DEF SlotInv, Employed, Left, On, GoesTo
  <2>4. Unserved(s)'
    BY <1>1, <1>2, <1>3, <2>2 DEF Unserved, On, GoesTo, Owners
  <2>5. Fenced(s)'
    BY <1>1, <1>3, <2>1, <2>2 DEF SlotInv, Fenced, Owners, On, GoesTo
  <2>6. Failing(s)' /\ Window(s)'
    BY <1>1, <2>1, <2>2 DEF SlotInv, Failing, Window, On, GoesTo
  <2>7. Inspected(s)' /\ Held(s)' /\ Guarded(s)'
    BY <1>1, <2>1 DEF SlotInv, Inspected, Held, Guarded, Owners, GoesTo
  <2>8. Registered(s)'
    BY <1>1, <2>1, <2>2 DEF SlotInv, Registered, Owners, Unregistered, Running, On, GoesTo
  <2> QED BY <2>3, <2>4, <2>5, <2>6, <2>7, <2>8 DEF SlotInv
<1> QED
  BY <1>1, <1>4, WorkerFrame DEF Running, On, GoesTo

LEMMA CommitWriteKept ==
    ASSUME DisableInv, NEW w \in Workers, CommitWrite(w)
    PROVE  SlotsInv'
<1> USE DEF LateSteps, DialingUp, Installed, Unspawned, HoldsNode
<1>1. PICK s \in Slots : worker[w].slot = s /\ On(w, s) /\ SlotInv(s) /\ TypeOK
  BY WorkerStart DEF CommitWrite
<1>2. CASE w \notin fresh
  <2>1. Goto(w, "except") /\ UNCHANGED <<row, rt, reserved, fresh, proc, routes, thread>>
    BY <1>2 DEF CommitWrite, LeaveDial
  <2>2. worker[w].pc = "write"
    BY DEF CommitWrite
  <2> QED BY <1>1, <1>2, <2>1, <2>2, QuietMove, GotoGoes DEF Calm, Running
<1>3. CASE w \in fresh
  <2>1. PICK state \in Serving :
          row' = [row EXCEPT ![s] = [@ EXCEPT !.state = state, !.entry = worker[w].node, !.streak = 0]]
    BY <1>1, <1>3 DEF CommitWrite
  <2>2. /\ row'[s].state = state /\ row'[s].enabled = row[s].enabled /\ row'[s].reason = row[s].reason
        /\ \A o \in Slots \ {s} : row'[o] = row[o]
    BY <1>1, <2>1 DEF TypeOK, RowRec
  <2> QED BY <1>1, <1>3, <2>2, OwnerServes, GotoGoes DEF CommitWrite
<1> QED BY <1>2, <1>3

LEMMA ProbeOutcomeKept ==
    ASSUME DisableInv, NEW w \in Workers, ProbeOutcome(w)
    PROVE  SlotsInv'
<1> USE DEF LateSteps, DialingUp, Installed, Unspawned, HoldsNode
<1>1. PICK s \in Slots : worker[w].slot = s /\ On(w, s) /\ SlotInv(s) /\ TypeOK
  BY WorkerStart DEF ProbeOutcome
<1>2. CASE Stale(w) /\ Goto(w, "finally") /\ UNCHANGED row
  <2>1. w \in fresh => Stopping(s) \/ ~row[s].enabled
    BY <1>1, <1>2, StaleOwner DEF ProbeOutcome
  <2> QED BY <1>1, <1>2, <2>1, QuietMove, GotoGoes DEF ProbeOutcome, Calm, Running
<1>3. CASE ~Stale(w)
  <2>1. PICK state \in Serving, step \in {"health", "failDead"} :
          row' = [row EXCEPT ![s].state = state] /\ Goto(w, step)
    BY <1>1, <1>3 DEF ProbeOutcome, Serving
  <2>2. /\ row'[s].state = state /\ row'[s].enabled = row[s].enabled /\ row'[s].reason = row[s].reason
        /\ \A o \in Slots \ {s} : row'[o] = row[o]
    BY <1>1, <2>1 DEF TypeOK, RowRec
  <2> QED BY <1>1, <1>3, <2>1, <2>2, OwnerServes, GotoGoes DEF ProbeOutcome, Stale
<1> QED BY <1>2, <1>3 DEF ProbeOutcome

LEMMA HandleFailureKept ==
    ASSUME DisableInv, NEW w \in Workers, HandleFailure(w)
    PROVE  SlotsInv'
<1> USE DEF LateSteps, DialingUp, Installed, Unspawned, HoldsNode
<1>1. PICK s \in Slots : worker[w].slot = s /\ On(w, s) /\ SlotInv(s) /\ TypeOK /\ SlotOf(w) = s
  BY WorkerStart DEF HandleFailure
<1>2. UNCHANGED <<row, reserved, fresh, proc, routes, thread>> /\ worker[w].pc \in {"fail", "failDead"}
  BY DEF HandleFailure
<1>3. CASE Goto(w, "finally") /\ UNCHANGED rt /\ (~row[s].enabled \/ w \notin fresh)
  BY <1>1, <1>2, <1>3, QuietMove, GotoGoes DEF Calm, Running
<1>4. CASE /\ Goto(w, "record") /\ w \in fresh /\ row[s].enabled
           /\ \E p : rt' = [rt EXCEPT ![s] = [@ EXCEPT !.lock = w, !.stop = TRUE, !.preferred = p]]
  <2>1. GoesTo(w, "record")
    BY <1>1, <1>4, GotoGoes
  <2>2. /\ \A o \in Slots : /\ rt'[o].worker = rt[o].worker /\ rt'[o].process = rt[o].process
                            /\ rt'[o].timer = rt[o].timer
        /\ \A o \in Slots \ {s} : rt'[o] = rt[o]
        /\ rt'[s].stop
    BY <1>1, <1>4 DEF TypeOK, RuntimeRec
  <2>3. rt[s].worker = w
    BY <1>1, <1>2, OwnersAlone
  <2>4. ~(Me.slot = s /\ Me.pc \in Relaunching)
    BY <1>1, <1>4 DEF SlotInv, Window
  <2>5. SlotInv(s)'
    <3>1. Owners(s)' = Owners(s)
      BY <1>1, <1>2, <2>1 DEF Owners, GoesTo
    <3>2. /\ \A v \in Workers : /\ On(v, s)' <=> On(v, s)
                                /\ Pursued(v, s)' <=> Pursued(v, s)
                                /\ Abandoned(v, s)' <=> Abandoned(v, s)
          /\ Me' = Me /\ (Stopping(s)' <=> Stopping(s)) /\ (Closing(s)' <=> Closing(s))
      BY <1>1, <1>2, <2>1, <2>2, ThreadsStay DEF On, Abandoned, GoesTo
    <3>3. Employed(s)' /\ Left(s)' /\ Unserved(s)'
      BY <1>1, <1>2, <1>4, <2>1, <2>2, <2>3, <3>2 DEF SlotInv, Employed, Left, Unserved, On, GoesTo
    <3>4. Fenced(s)'
      BY <1>1, <1>2, <1>4, <2>1, <2>2, <3>1, <3>2 DEF SlotInv, Fenced, Owners, On, GoesTo
    <3>5. Failing(s)' /\ Window(s)'
      BY <1>1, <1>2, <1>4, <2>1, <2>2, <3>1, <3>2 DEF SlotInv, Failing, Window, On, GoesTo
    <3>6. Inspected(s)' /\ Held(s)' /\ Guarded(s)'
      BY <1>1, <1>2, <2>1, <2>2, <3>1, <3>2 DEF SlotInv, Inspected, Held, Guarded, Owners, GoesTo
    <3>7. Registered(s)'
      BY <1>1, <1>2, <2>1, <2>2, <3>1, <3>2 DEF SlotInv, Registered, Owners, Unregistered, Running, On, GoesTo
    <3> QED BY <3>3, <3>4, <3>5, <3>6, <3>7 DEF SlotInv
  <2> QED
    BY <1>1, <1>2, <2>1, <2>2, <2>5, WorkerFrame DEF Running, On, GoesTo
<1> QED BY <1>1, <1>3, <1>4 DEF HandleFailure

\* While a worker is inside fail_slot it has the runtime lock and the slot.
LEMMA LockOfWorker ==
    ASSUME DisableInv, NEW s \in Slots, NEW w \in Workers, On(w, s),
           worker[w].pc \in {"record", "teardown", "retire"}
    PROVE  /\ \A t \in Threads : thread[t].slot = s =>
                thread[t].pc \notin {"stopBump", "stopClose", "stopRoute", "startLaunch"}
           /\ Me.slot = s => Me.pc \notin {"stopBump", "stopClose", "stopRoute", "startLaunch"} \cup Relaunching
           /\ rt[s].worker = w
<1>1. rt[s].lock = w /\ w \notin Threads
  BY ExitSlotsAssumption DEF DisableInv, OwnerInv, LockHeld, On, Threads
<1>2. \A t \in Threads : thread[t].slot = s =>
                thread[t].pc \notin {"stopBump", "stopClose", "stopRoute", "startLaunch"}
  BY <1>1 DEF DisableInv, OwnerInv, LockHeld
<1> QED BY <1>2 DEF Me, Threads, DisableInv, SlotsInv, SlotInv, Employed, Window

LEMMA RecordFailureKept ==
    ASSUME DisableInv, NEW w \in Workers, RecordFailure(w)
    PROVE  SlotsInv'
<1> USE DEF LateSteps, DialingUp, Installed, Unspawned, HoldsNode
<1>1. PICK s \in Slots : worker[w].slot = s /\ On(w, s) /\ SlotInv(s) /\ TypeOK
  BY WorkerStart DEF RecordFailure
<1>2. /\ UNCHANGED <<reserved, proc, routes, thread>> /\ worker[w].pc = "record"
      /\ fresh' = Bumped(s)
      /\ \E step \in {"teardown", "retire"} : GoesTo(w, step)
  BY <1>1, GotoGoes DEF RecordFailure
<1>3. /\ row'[s].state \in {"failed", "disabled"}
      /\ \A o \in Slots \ {s} : row'[o] = row[o]
  BY <1>1 DEF RecordFailure, TypeOK
<1>4. /\ \A o \in Slots : /\ rt'[o].worker = rt[o].worker /\ rt'[o].process = rt[o].process
                          /\ rt'[o].stop = rt[o].stop /\ rt'[o].timer = rt[o].timer
      /\ \A o \in Slots \ {s} : rt'[o] = rt[o]
  BY <1>1 DEF RecordFailure, TypeOK, RuntimeRec
<1>5. /\ \A v \in Workers : v \in fresh' <=> v \in fresh /\ worker[v].slot # s
      /\ \A t \in Threads : t \in fresh' => t \in fresh /\ thread[t].slot # s
      /\ s \notin fresh' /\ \A o \in Slots : o \in fresh' => o \in fresh
  BY <1>2, FreshRange, ExitSlotsAssumption DEF Bumped, SlotOf, Threads
<1>6. rt[s].worker = w /\ \A v \in Owners(s) : v = w
  BY <1>1, <1>2, OwnersAlone
<1>7. Owners(s)' = {}
  BY <1>2, <1>5 DEF Owners, GoesTo
<1>8. SlotInv(s)'
  <2>1. /\ \A v \in Workers : /\ On(v, s)' <=> On(v, s)
                              /\ Pursued(v, s)' <=> Pursued(v, s)
                              /\ Abandoned(v, s) => v = w
        /\ Me' = Me /\ (Closing(s)' <=> Closing(s))
    BY <1>1, <1>2, <1>4, <1>6, ThreadsStay DEF On, Abandoned, GoesTo
  <2>2. Left(s)' /\ Employed(s)'
    BY <1>1, <1>2, <1>4, <1>5, <1>6, <2>1 DEF SlotInv, Left, Employed, On, GoesTo, Owners
  <2>3. Failing(s)'
    <3> SUFFICES ASSUME NEW v \in Workers, On(v, s)'
                 PROVE  v \notin fresh' /\ worker'[v].pc # "record"
      BY <1>3, <1>7 DEF Failing, Serving
    <3>1. worker'[v].slot = s /\ worker[v].slot = s /\ On(v, s)
      BY <2>1 DEF On, GoesTo
    <3>2. v # w => worker[v].pc # "record"
      BY <1>1, <1>6, <3>1 DEF SlotInv, Employed
    <3> QED BY <1>2, <1>5, <3>1, <3>2 DEF GoesTo
  <2>4. Fenced(s)' /\ Window(s)'
    <3>1. /\ \A t \in Threads : thread'[t].slot = s =>
                thread'[t].pc \notin {"stopBump", "stopClose", "stopRoute", "startLaunch"}
          /\ Me'.slot = s => Me'.pc \notin {"stopBump", "stopClose", "stopRoute", "startLaunch"} \cup Relaunching
      BY <1>1, <1>2, <2>1, LockOfWorker
    <3> QED BY <1>5, <1>7, <3>1 DEF Fenced, Window, Relaunching
  <2>5. Unserved(s)' /\ Guarded(s)' /\ Held(s)'
    BY <1>3, <1>7 DEF Unserved, Guarded, Held, Serving
  <2>6. Inspected(s)'
    <3>1. \A t \in Threads : thread'[t].slot = s =>
             thread'[t].pc \notin {"stopBump", "stopClose", "stopRoute"}
      BY <1>1, <1>2, LockOfWorker
    <3> QED BY <1>2, <1>5, <2>1, <3>1 DEF Inspected, Me, Threads
  <2>7. Registered(s)'
    BY <1>1, <1>2, <1>4, <1>6, <2>1 DEF SlotInv, Registered, Unregistered, Running, On, GoesTo
  <2> QED BY <2>2, <2>3, <2>4, <2>5, <2>6, <2>7 DEF SlotInv
<1> QED
  BY <1>1, <1>2, <1>3, <1>4, <1>5, <1>8, WorkerFrame DEF Running, On, GoesTo

LEMMA TeardownKept ==
    ASSUME DisableInv, NEW w \in Workers, Teardown(w)
    PROVE  SlotsInv'
<1> USE DEF LateSteps, DialingUp, Installed, Unspawned, HoldsNode
<1>1. PICK s \in Slots : worker[w].slot = s /\ On(w, s) /\ SlotInv(s) /\ TypeOK
  BY WorkerStart DEF Teardown
<1>2. UNCHANGED thread /\ worker[w].pc \in {"teardown", "retire"}
  BY DEF Teardown
<1>3. PICK step \in {"schedule", "finally"} :
        /\ GoesTo(w, step)
        /\ \/ step = "schedule" /\ fresh' = fresh \cup {w} /\ row[s].enabled
           \/ step = "finally" /\ fresh' = fresh
  BY <1>1, GotoGoes DEF Teardown
<1>4. w \notin fresh /\ Owners(s) = {} /\ row[s].state \notin Serving
  BY <1>1, <1>2 DEF SlotInv, Failing
<1>5. /\ row'[s].state \in {row[s].state, "disabled"}
      /\ row'[s].enabled = row[s].enabled /\ row'[s].reason = row[s].reason
      /\ \A o \in Slots \ {s} : row'[o] = row[o]
  BY <1>1 DEF Teardown, TypeOK, RowRec
<1>6. /\ \A o \in Slots : /\ rt'[o].worker = rt[o].worker
                          /\ rt'[o].stop = rt[o].stop /\ rt'[o].timer = rt[o].timer
      /\ \A o \in Slots \ {s} : rt'[o] = rt[o]
      /\ rt'[s].process = None
  BY <1>1 DEF Teardown, TypeOK, RuntimeRec
<1>7. \A o \in Slots \ {s} : reserved'[o] = reserved[o] /\ routes'[o] = routes[o]
  BY <1>1 DEF Teardown, TypeOK
<1>8. /\ \A v \in Workers : Running(v)' => Running(v) /\ v # rt[s].process
      /\ \A v \in Workers : v # w => (v \in fresh' <=> v \in fresh)
  BY <1>1, <1>3, ExitSlotsAssumption DEF Teardown, Running, Killed, TypeOK
<1>9. /\ \A t \in Threads : t \in fresh' <=> t \in fresh
      /\ \A o \in Slots : o \in fresh' <=> o \in fresh
  BY <1>3, FreshRange
<1>10. Owners(s)' = {}
  BY <1>3, <1>4 DEF Owners, GoesTo
<1>11. rt[s].worker = w
  BY <1>1, <1>2, LockOfWorker
<1>12. SlotInv(s)'
  <2>1. /\ \A v \in Workers : /\ On(v, s)' <=> On(v, s)
                              /\ Pursued(v, s)' <=> Pursued(v, s)
                              /\ Abandoned(v, s)' <=> Abandoned(v, s)
        /\ Me' = Me
    BY <1>1, <1>2, <1>3, <1>5, <1>6, ThreadsStay DEF On, Abandoned, GoesTo
  <2>2. Left(s)' /\ Employed(s)'
    BY <1>1, <1>2, <1>3, <1>5, <1>6, <1>8, <1>11, <2>1 DEF SlotInv, Left, Employed, On, GoesTo
  <2>3. Failing(s)'
    <3> SUFFICES ASSUME NEW v \in Workers, On(v, s)' PROVE worker'[v].pc \notin {"record", "teardown", "retire"}
      BY DEF Failing
    <3>1. v # w => worker[v].pc \notin {"record", "teardown", "retire"}
      BY <1>1, <1>11, <2>1 DEF SlotInv, Employed
    <3> QED BY <1>3, <3>1 DEF GoesTo
  <2>4. Fenced(s)' /\ Window(s)'
    <3>1. /\ \A t \in Threads : thread'[t].slot = s =>
                thread'[t].pc \notin {"stopBump", "stopClose", "stopRoute", "startLaunch"}
          /\ Me'.slot = s => Me'.pc \notin {"stopBump", "stopClose", "stopRoute", "startLaunch"} \cup Relaunching
      BY <1>1, <1>2, <2>1, LockOfWorker
    <3> QED BY <1>1, <1>5, <1>6, <1>9, <1>10, <3>1 DEF SlotInv, Fenced, Window, Relaunching
  <2>5. Unserved(s)' /\ Guarded(s)' /\ Held(s)'
    BY <1>4, <1>5, <1>10 DEF Unserved, Guarded, Held, Serving
  <2>6. Inspected(s)'
    <3>1. \A t \in Threads : thread'[t].slot = s =>
             thread'[t].pc \notin {"stopBump", "stopClose", "stopRoute"}
      BY <1>1, <1>2, LockOfWorker
    <3>2. Watchdog \in fresh' => Watchdog \in fresh
      BY <1>9 DEF Threads
    <3> QED BY <1>1, <1>4, <1>5, <1>6, <2>1, <3>1, <3>2 DEF SlotInv, Inspected
  <2>7. Registered(s)'
    <3>1. \A v \in Workers : rt'[s].process # v
      BY <1>6, ExitSlotsAssumption
    <3> QED BY <1>1, <1>2, <1>3, <1>8, <2>1, <3>1 DEF SlotInv, Registered, Unregistered, On, GoesTo
  <2> QED BY <2>2, <2>3, <2>4, <2>5, <2>6, <2>7 DEF SlotInv
<1> QED
  BY <1>1, <1>2, <1>3, <1>5, <1>6, <1>7, <1>8, <1>9, <1>12, WorkerFrame DEF On, GoesTo

LEMMA ScheduleRetryKept ==
    ASSUME DisableInv, NEW w \in Workers, ScheduleRetry(w)
    PROVE  SlotsInv'
<1> USE DEF LateSteps, DialingUp, Installed, Unspawned, HoldsNode
<1>1. PICK s \in Slots : worker[w].slot = s /\ On(w, s) /\ SlotInv(s) /\ TypeOK
  BY WorkerStart DEF ScheduleRetry
<1>2. /\ UNCHANGED <<row, reserved, proc, routes, thread>> /\ worker[w].pc = "schedule"
      /\ GoesTo(w, "finally")
  BY <1>1, GotoGoes DEF ScheduleRetry
<1>3. /\ \A o \in Slots : /\ rt'[o].worker = rt[o].worker /\ rt'[o].process = rt[o].process
                          /\ rt'[o].stop = rt[o].stop
      /\ \A o \in Slots \ {s} : rt'[o] = rt[o]
      /\ rt'[s].timer
  BY <1>1 DEF ScheduleRetry, TypeOK, RuntimeRec
<1>4. /\ w \notin fresh' /\ \A v \in Workers : v # w => (v \in fresh' <=> v \in fresh)
      /\ \A t \in Threads : t \in fresh' => t \in fresh
      /\ \A o \in Slots \ {s} : o \in fresh' => o \in fresh
      /\ s \in fresh' <=> w \in fresh
  BY <1>1, FreshRange DEF ScheduleRetry
<1>5. s \in fresh' => row[s].enabled /\ ~(Me.slot = s /\ Me.pc \in Relaunching)
  BY <1>1, <1>2, <1>4 DEF SlotInv, Employed, Window
<1>6. SlotInv(s)'
  <2>1. Owners(s)' = Owners(s) /\ w \notin Owners(s)
    BY <1>1, <1>2, <1>4 DEF Owners, GoesTo
  <2>2. /\ \A v \in Workers : /\ On(v, s)' <=> On(v, s)
                              /\ Pursued(v, s)' <=> Pursued(v, s)
                              /\ Abandoned(v, s)' <=> Abandoned(v, s)
        /\ Me' = Me /\ (Stopping(s)' <=> Stopping(s)) /\ (Closing(s)' <=> Closing(s))
    BY <1>1, <1>2, <1>3, ThreadsStay DEF On, Abandoned, GoesTo
  <2>3. Employed(s)' /\ Left(s)' /\ Unserved(s)'
    BY <1>1, <1>2, <1>3, <1>4, <2>2 DEF SlotInv, Employed, Left, Unserved, On, GoesTo
  <2>4. Fenced(s)'
    BY <1>1, <1>2, <1>3, <1>4, <1>5, <2>1, <2>2 DEF SlotInv, Fenced, Owners, On, GoesTo, Running
  <2>5. Failing(s)' /\ Window(s)'
    BY <1>1, <1>2, <1>3, <1>4, <1>5, <2>1, <2>2 DEF SlotInv, Failing, Window, On, GoesTo
  <2>6. Inspected(s)' /\ Held(s)' /\ Guarded(s)'
    BY <1>1, <1>2, <1>3, <1>4, <2>1, <2>2 DEF SlotInv, Inspected, Held, Guarded, Owners, GoesTo, Threads
  <2>7. Registered(s)'
    BY <1>1, <1>2, <1>3, <2>1, <2>2 DEF SlotInv, Registered, Unregistered, Running, On, GoesTo
  <2> QED BY <2>3, <2>4, <2>5, <2>6, <2>7 DEF SlotInv
<1> QED
  BY <1>1, <1>2, <1>3, <1>4, <1>6, WorkerFrame DEF Running, On, GoesTo

\* A worker that unregisters its own process takes nothing from the others.
LEMMA ProcessDropped ==
    ASSUME NEW s \in Slots, NEW w \in Workers, Registered(s), GoesTo(w, "disown"),
           On(w, s), worker[w].pc \in {"cleanup", "reclaim"}, UNCHANGED <<row, thread>>,
           rt'[s].worker = rt[s].worker,
           rt'[s].process = IF rt[s].process = w THEN None ELSE rt[s].process,
           \A v \in Workers : Running(v)' => Running(v) /\ (rt[s].process = w => v # w),
           Owners(s)' = Owners(s)
    PROVE  Registered(s)'
<1>1. \A v \in Workers : /\ rt'[s].process = v => rt[s].process = v /\ v # w
                         /\ rt[s].process = v /\ v # w => rt'[s].process = v
  BY ExitSlotsAssumption
<1>2. /\ \A v \in Workers : worker'[v].slot = s /\ Running(v)' =>
           worker'[v].pc = "adopt" \/ rt'[s].process = v
      /\ \A v \in Workers : On(v, s)' /\ worker'[v].pc \in Unspawned => ~Running(v)'
  BY <1>1 DEF Registered, GoesTo, On, Unspawned
<1>3. ASSUME NEW v \in Workers, rt'[s].process = v
      PROVE  /\ rt[s].process = v /\ worker'[v] = worker[v] /\ v # w
             /\ Running(v)' => Running(v)
  BY <1>1, <1>3 DEF GoesTo
<1>4. \A v \in Workers : rt'[s].process = v =>
           worker'[v].slot = s \/ (worker'[v].pc = "done" /\ ~Running(v)')
  BY <1>3 DEF Registered
<1>5. \A v \in Workers : On(v, s)' /\ worker'[v].pc \in Unregistered => rt'[s].process # v
  BY <1>3 DEF Registered, On
<1>6. ASSUME NEW v \in Workers, rt'[s].process = v, Running(v)'
      PROVE  \/ v \in Owners(s)'
             \/ worker'[v].pc \in {"teardown", "retire"}
             \/ Closing(s)'
             \/ Abandoned(v, s)' /\ worker'[v].pc # "disown"
  BY <1>3, <1>6, ThreadsStay DEF Registered, Abandoned
<1> QED BY <1>2, <1>3, <1>4, <1>5, <1>6 DEF Registered

LEMMA CleanupKept ==
    ASSUME DisableInv, NEW w \in Workers, Cleanup(w)
    PROVE  SlotsInv'
<1> USE DEF LateSteps, DialingUp, Installed, Unspawned, HoldsNode
<1>1. PICK s \in Slots : worker[w].slot = s /\ On(w, s) /\ SlotInv(s) /\ TypeOK
  BY WorkerStart DEF Cleanup
<1>2. /\ UNCHANGED <<row, fresh, thread>> /\ worker[w].pc = "cleanup"
      /\ GoesTo(w, "disown")
  BY <1>1, GotoGoes DEF Cleanup
<1>3. /\ \A o \in Slots : /\ rt'[o].worker = rt[o].worker
                          /\ rt'[o].stop = rt[o].stop /\ rt'[o].timer = rt[o].timer
      /\ \A o \in Slots \ {s} : rt'[o] = rt[o]
      /\ rt'[s].process = IF rt[s].process = w THEN None ELSE rt[s].process
  BY <1>1 DEF Cleanup, TypeOK, RuntimeRec
<1>4. \A o \in Slots \ {s} : reserved'[o] = reserved[o] /\ routes'[o] = routes[o]
  BY <1>1 DEF Cleanup, TypeOK
<1>5. \A v \in Workers : Running(v)' => Running(v) /\ v # w
  BY <1>1, ExitSlotsAssumption DEF Cleanup, Running, Killed, TypeOK
<1>6. (\A v \in Owners(s) : v = w) /\ row[s].state \notin Serving
  BY <1>1, <1>2, OwnersAlone DEF SlotInv, Unserved
<1>7. SlotInv(s)'
  <2>1. Owners(s)' = Owners(s)
    BY <1>1, <1>2 DEF Owners, GoesTo
  <2>2. /\ \A v \in Workers : /\ On(v, s)' <=> On(v, s)
                              /\ Pursued(v, s)' <=> Pursued(v, s)
                              /\ Abandoned(v, s)' <=> Abandoned(v, s)
        /\ Me' = Me /\ (Stopping(s)' <=> Stopping(s))
    BY <1>1, <1>2, <1>3, ThreadsStay DEF On, Abandoned, GoesTo
  <2>3. Left(s)' /\ Employed(s)'
    BY <1>1, <1>2, <1>3, <2>2 DEF SlotInv, Left, Employed, On, GoesTo
  <2>4. Fenced(s)'
    BY <1>1, <1>2, <1>3, <1>5, <2>1, <2>2 DEF SlotInv, Fenced, Owners, On, GoesTo
  <2>5. Failing(s)' /\ Window(s)'
    BY <1>1, <1>2, <1>3, <2>1, <2>2 DEF SlotInv, Failing, Window, On, GoesTo
  <2>6. Inspected(s)' /\ Unserved(s)'
    BY <1>1, <1>2, <1>3, <1>6, <2>2 DEF SlotInv, Inspected, Unserved
  <2>7. Held(s)' /\ Guarded(s)'
    BY <1>2, <1>6, <2>1 DEF Held, Guarded, GoesTo
  <2>8. Registered(s)'
    BY <1>1, <1>2, <1>3, <1>5, <2>1, ProcessDropped DEF SlotInv
  <2> QED BY <2>3, <2>4, <2>5, <2>6, <2>7, <2>8 DEF SlotInv
<1> QED
  BY <1>1, <1>2, <1>3, <1>4, <1>5, <1>7, WorkerFrame DEF On, GoesTo

LEMMA ReclaimKept ==
    ASSUME DisableInv, NEW w \in Workers, Reclaim(w)
    PROVE  SlotsInv'
<1> USE DEF LateSteps, DialingUp, Installed, Unspawned, HoldsNode
<1>1. PICK s \in Slots : worker[w].slot = s /\ On(w, s) /\ SlotInv(s) /\ TypeOK
  BY WorkerStart DEF Reclaim
<1>2. /\ UNCHANGED <<row, reserved, fresh, thread>> /\ worker[w].pc = "reclaim"
      /\ GoesTo(w, "disown") /\ w \notin fresh
  BY <1>1, GotoGoes DEF Reclaim, DisableInv, SlotsInv, Ended
<1>3. /\ \A o \in Slots : /\ rt'[o].worker = rt[o].worker
                          /\ rt'[o].stop = rt[o].stop /\ rt'[o].timer = rt[o].timer
      /\ \A o \in Slots \ {s} : rt'[o] = rt[o]
      /\ rt'[s].process = IF rt[s].process = w THEN None ELSE rt[s].process
  <2>1. CASE rt[s].process = w
    BY <1>1, <2>1, ProcessSet DEF Reclaim
  <2>2. CASE rt[s].process # w
    BY <1>1, <2>2 DEF Reclaim
  <2> QED BY <2>1, <2>2
<1>4. /\ \A o \in Slots \ {s} : routes'[o] = routes[o]
      /\ "closed" \in routes[s] => "closed" \in routes'[s]
  BY <1>1 DEF Reclaim, TypeOK, WithoutTunnel
<1>5. \A v \in Workers : Running(v)' => Running(v) /\ (rt[s].process = w => v # w)
  BY <1>1, ExitSlotsAssumption DEF Reclaim, Running, Killed, TypeOK
<1>7. SlotInv(s)'
  <2>1. Owners(s)' = Owners(s)
    BY <1>1, <1>2 DEF Owners, GoesTo
  <2>2. /\ \A v \in Workers : /\ On(v, s)' <=> On(v, s)
                              /\ Pursued(v, s)' <=> Pursued(v, s)
                              /\ Abandoned(v, s)' <=> Abandoned(v, s)
        /\ Me' = Me /\ (Stopping(s)' <=> Stopping(s))
    BY <1>1, <1>2, <1>3, ThreadsStay DEF On, Abandoned, GoesTo
  <2>3. Left(s)' /\ Employed(s)' /\ Unserved(s)'
    BY <1>1, <1>2, <1>3, <2>2 DEF SlotInv, Left, Employed, Unserved, On, GoesTo
  <2>4. Fenced(s)'
    BY <1>1, <1>2, <1>3, <1>5, <2>1, <2>2 DEF SlotInv, Fenced, Owners, On, GoesTo
  <2>5. Failing(s)' /\ Window(s)'
    BY <1>1, <1>2, <1>3, <2>1, <2>2 DEF SlotInv, Failing, Window, On, GoesTo
  <2>6. Inspected(s)' /\ Held(s)' /\ Guarded(s)'
    BY <1>1, <1>2, <1>3, <1>4, <2>1, <2>2 DEF SlotInv, Inspected, Held, Guarded, Owners, GoesTo
  <2>7. Registered(s)'
    BY <1>1, <1>2, <1>3, <1>5, <2>1, ProcessDropped DEF SlotInv
  <2> QED BY <2>3, <2>4, <2>5, <2>6, <2>7 DEF SlotInv
<1> QED
  BY <1>1, <1>2, <1>3, <1>4, <1>5, <1>7, WorkerFrame DEF On, GoesTo

LEMMA DisownKept ==
    ASSUME DisableInv, NEW w \in Workers, Disown(w)
    PROVE  SlotsInv'
<1> USE DEF LateSteps, DialingUp, Installed, Unspawned, HoldsNode
<1>1. PICK s \in Slots : worker[w].slot = s /\ On(w, s) /\ SlotInv(s) /\ TypeOK
  BY WorkerStart DEF Disown
<1>2. UNCHANGED <<row, reserved, proc, port, routes>> /\ worker[w].pc = "disown"
  BY DEF Disown
<1>3. /\ \A v \in Workers \ {w} : worker'[v] = worker[v]
      /\ worker'[w].pc = "done"
      /\ worker'[w].slot = IF Running(w) THEN s ELSE None
  BY <1>1 DEF Disown, TypeOK, IdleWorker
<1>4. /\ \A o \in Slots \ {s} : rt'[o] = rt[o]
      /\ rt'[s].process = rt[s].process /\ rt'[s].stop = rt[s].stop /\ rt'[s].timer = rt[s].timer
      /\ rt'[s].worker = IF rt[s].worker = w THEN None ELSE rt[s].worker
  BY <1>1 DEF Disown, TypeOK, RuntimeRec
<1>5. /\ \A v \in Workers : v \in fresh' <=> v \in fresh /\ v # w
      /\ \A h \in Threads \cup Slots : h \in fresh' => h \in fresh
  BY DEF Disown
<1>6. \A t \in Threads :
        /\ thread'[t].slot = thread[t].slot /\ thread'[t].pc = thread[t].pc
        /\ thread'[t].was = thread[t].was /\ thread'[t].state = thread[t].state
        /\ thread'[t].op = thread[t].op
        /\ thread'[t].join = IF thread[t].join = w THEN None ELSE thread[t].join
  BY <1>1 DEF Disown, TypeOK, ThreadRec
<1>7. None \notin Slots /\ None \notin Workers
  BY ExitSlotsAssumption
<1>8. /\ Me'.slot = Me.slot /\ Me'.pc = Me.pc /\ Me'.was = Me.was /\ Me'.state = Me.state
      /\ Me'.op = Me.op /\ Me'.join = IF Me.join = w THEN None ELSE Me.join
  BY <1>6 DEF Me, Threads
<1>9. SlotInv(s)'
  <2>1. Owners(s)' = Owners(s) \ {w}
    BY <1>1, <1>2, <1>3, <1>5 DEF Owners
  <2>2. \A v \in Workers \ {w} : /\ On(v, s)' <=> On(v, s)
                                 /\ Abandoned(v, s)' <=> Abandoned(v, s)
    BY <1>1, <1>2, <1>3, <1>4, <1>7 DEF On, Abandoned
  <2>3. \A v \in Workers \ {w} : Pursued(v, s)' <=> Pursued(v, s)
    BY <1>1, <1>3, <1>4, <1>6, <1>7 DEF Pursued
  <2>4. ~On(w, s)' /\ rt'[s].worker # w
    BY <1>3, <1>4, <1>7 DEF On
  <2>5. (Stopping(s)' <=> Stopping(s)) /\ (Closing(s)' <=> Closing(s))
    BY <1>6 DEF Stopping, Closing
  <2>6. Left(s)' /\ Unserved(s)'
    BY <1>1, <1>2, <1>3, <1>4, <1>5, <1>7, <2>2, <2>3, <2>4 DEF SlotInv, Left, Unserved, On
  <2>7. Employed(s)'
    BY <1>1, <1>2, <1>3, <1>4, <1>5, <1>7, <2>2, <2>4 DEF SlotInv, Employed, On
  <2>8. Fenced(s)'
    <3>1. \A v \in Owners(s)' : v \in Owners(s) /\ worker'[v] = worker[v] /\ (Running(v)' <=> Running(v))
      BY <1>2, <1>3, <2>1 DEF Owners, Running
    <3>2. \A t \in Threads :
            thread'[t].slot = s /\ thread'[t].pc \in {"stopBump", "stopClose", "stopRoute"} /\ ~thread'[t].was
            => ~row'[s].enabled
      BY <1>1, <1>2, <1>6 DEF SlotInv, Fenced
    <3> QED BY <1>1, <1>2, <1>4, <1>5, <1>8, <2>5, <3>1, <3>2 DEF SlotInv, Fenced
  <2>9. Failing(s)'
    BY <1>1, <1>2, <1>3, <1>5, <2>1, <2>2, <2>4 DEF SlotInv, Failing, On
  <2>10. Window(s)'
    BY <1>1, <1>2, <1>3, <1>4, <1>5, <1>7, <1>8, <2>1, <2>2, <2>4 DEF SlotInv, Window, On
  <2>11. Held(s)' /\ Guarded(s)'
    BY <1>1, <1>2, <1>3, <2>1 DEF SlotInv, Held, Guarded, Owners
  <2>12. Inspected(s)'
    <3>1. \A t \in Threads : thread'[t].slot = s /\ thread'[t].pc \in {"stopBump", "stopClose", "stopRoute"}
                             => rt'[s].stop
      BY <1>1, <1>4, <1>6 DEF SlotInv, Inspected
    <3>2. Watchdog \in fresh' => Watchdog \in fresh
      BY <1>5 DEF Threads
    <3> QED BY <1>1, <1>2, <1>4, <1>8, <3>1, <3>2 DEF SlotInv, Inspected
  <2>13. Registered(s)'
    <3>1. Running(w) => rt[s].process = w
      BY <1>1, <1>2 DEF SlotInv, Registered
    <3>2. Running(w) => Closing(s)
      BY <1>1, <1>2, <3>1 DEF SlotInv, Registered, Fenced, Stopping, Closing
    <3> QED BY <1>1, <1>2, <1>3, <1>4, <1>7, <2>1, <2>2, <2>4, <2>5, <3>1, <3>2
            DEF SlotInv, Registered, Unregistered, Running, On
  <2> QED BY <2>6, <2>7, <2>8, <2>9, <2>10, <2>11, <2>12, <2>13 DEF SlotInv
<1> QED
  <2>1. ASSUME NEW o \in Slots \ {s} PROVE SlotInv(o)'
    <3>2. \A v \in Workers : Running(v)' <=> Running(v)
      BY <1>2 DEF Running
    <3>3. worker[w].slot = s /\ worker[w].pc # "done" /\ worker'[w].slot \in {s, None}
      BY <1>1, <1>2, <1>3
    <3>4. \A q \in Slots \ {s} : \A t \in Threads : Acting(t, q) \/ Acting(t, q)' => ThreadKept(t, q)
      BY <1>1, <1>5, <1>6, <1>7 DEF ThreadKept
    <3>5. \A q \in Slots \ {s} : /\ row'[q] = row[q] /\ rt'[q] = rt[q]
                                 /\ reserved'[q] = reserved[q] /\ routes'[q] = routes[q]
                                 /\ q \in fresh' => q \in fresh
      BY <1>2, <1>4, <1>5
    <3>6. \A v \in Workers : v # w /\ worker[v].slot # s => (v \in fresh' <=> v \in fresh)
      BY <1>5
    <3> QED BY <1>3, <3>2, <3>3, <3>4, <3>5, <3>6, WorkerElsewhere
  <2>2. OnlyDisables'
    BY <1>6, <1>8 DEF DisableInv, SlotsInv, OnlyDisables, Threads
  <2>3. Ended'
    BY <1>1, <1>2, <1>3, <1>5 DEF DisableInv, SlotsInv, Ended, Running
  <2> QED BY <1>9, <2>1, <2>2, <2>3 DEF SlotsInv

-----------------------------------------------------------------------------
(* Threads: disable requests and the watchdog *)

\* What a thread's step starts from.
LEMMA ThreadStart ==
    ASSUME DisableInv, NEW t \in Threads, thread[t].pc # "idle"
    PROVE  \E s \in Slots : /\ thread[t].slot = s /\ SlotInv(s) /\ TypeOK
                            /\ thread \in [Threads -> ThreadRec]
                            /\ thread[t].pc \in StopSteps =>
                                 thread[t].op = IF t = Watchdog THEN "autoRedial" ELSE "disable"
<1>1. /\ thread[t].slot \in Slots /\ SlotInv(thread[t].slot) /\ TypeOK
      /\ thread[t].pc \in StopSteps => thread[t].op \in StopOps
  BY DEF DisableInv, OwnerInv, SlotsInv, Placed
<1>2. CASE t = Watchdog
  BY <1>1, <1>2 DEF DisableInv, SlotsInv, OnlyDisables, Me, StopOps, TypeOK
<1>3. CASE t # Watchdog
  BY <1>1, <1>3 DEF DisableInv, SlotsInv, OnlyDisables, Threads, StopOps, TypeOK
<1> QED BY <1>2, <1>3

LEMMA ThreadSet ==
    ASSUME TypeOK, NEW t \in Threads, NEW r, thread' = [thread EXCEPT ![t] = r]
    PROVE  thread'[t] = r /\ \A q \in Threads \ {t} : thread'[q] = thread[q]
BY DEF TypeOK

\* What a thread may do is what its record says.
Harmless(t) ==
    IF t = Watchdog
    THEN /\ thread[t].op \in {"none", "autoRedial", "recover", "revive", "inspect"}
         /\ thread[t].pc \notin {"connect", "enable", "disable", "configure", "configureWrite"}
    ELSE /\ thread[t].op \in {"none", "disable"}
         /\ thread[t].pc \in StopSteps \cup {"idle", "disable"}

LEMMA OnlyDisablesKept ==
    ASSUME DisableInv, NEW t \in Threads, Harmless(t)',
           \A q \in Threads \ {t} : thread'[q] = thread[q]
    PROVE  OnlyDisables'
BY ExitSlotsAssumption DEF DisableInv, SlotsInv, OnlyDisables, Harmless, Me, Threads

\* What a step of thread t leaves of the other slots.
LEMMA ThreadFrame ==
    ASSUME DisableInv, NEW t \in Threads, NEW s \in Slots, UNCHANGED worker,
           \A o \in Slots \ {s} : /\ row'[o] = row[o] /\ rt'[o] = rt[o]
                                  /\ reserved'[o] = reserved[o] /\ routes'[o] = routes[o]
                                  /\ o \in fresh' => o \in fresh,
           \A v \in Workers : /\ v \in fresh' => v \in fresh
                              /\ worker[v].slot # s => (v \in fresh' <=> v \in fresh)
                              /\ Running(v)' => Running(v),
           \A q \in Threads \ {t} : thread'[q] = thread[q] /\ (q \in fresh' => q \in fresh),
           thread[t].slot = s \/ thread[t].pc = "idle", thread'[t].slot = s \/ thread'[t].pc = "idle",
           Harmless(t)', SlotInv(s)'
    PROVE  SlotsInv'
<1>1. ASSUME NEW o \in Slots \ {s} PROVE SlotInv(o)'
  <2>1. ~Acting(t, o) /\ ~Acting(t, o)'
    BY DEF Acting, StopSteps
  <2>2. \A q \in Threads : Acting(q, o) \/ Acting(q, o)' => ThreadKept(q, o)
    BY <2>1 DEF ThreadKept
  <2>3. SlotInv(o)
    BY DEF DisableInv, SlotsInv
  <2>4. /\ row'[o] = row[o] /\ rt'[o] = rt[o] /\ reserved'[o] = reserved[o] /\ routes'[o] = routes[o]
        /\ o \in fresh' => o \in fresh
        /\ \A v \in Workers : worker[v].slot = o => (v \in fresh' <=> v \in fresh)
    BY <1>1
  <2> QED BY <2>2, <2>3, <2>4, UntouchedKept DEF Untouched
<1>2. Ended'
  BY DEF DisableInv, SlotsInv, Ended
<1>3. OnlyDisables'
  BY OnlyDisablesKept
<1> QED BY <1>1, <1>2, <1>3 DEF SlotsInv

\* Whose step leaves the watchdog's alone leaves what it has in view.
LEMMA WatchdogElsewhere ==
    ASSUME NEW t \in Threads, t # Watchdog, \A q \in Threads \ {t} : thread'[q] = thread[q]
    PROVE  Me' = Me
BY DEF Me, Threads

\* Thread t goes from one step to the next and changes nothing that the slot's
\* workers have.
LEMMA ThreadMoves ==
    ASSUME DisableInv, NEW t \in Threads, NEW s \in Slots, UNCHANGED <<reserved, worker, proc, routes>>,
           \A o \in Slots \ {s} : row'[o] = row[o] /\ rt'[o] = rt[o],
           row'[s].enabled = row[s].enabled, row'[s].reason = row[s].reason,
           row'[s].state = row[s].state \/ {row'[s].state, row[s].state} \subseteq Serving,
           rt'[s].process = rt[s].process,
           \/ rt'[s].worker = rt[s].worker
           \/ /\ rt'[s].worker = None /\ row[s].enabled
              /\ \A v \in Workers : On(v, s) => v \notin fresh /\ worker[v].pc \in LateSteps,
           \A v \in Workers : v \in fresh' <=> v \in fresh,
           \A o \in Slots : o \in fresh' => o \in fresh /\ (rt[o].timer => rt'[o].timer),
           \A q \in Threads \ {t} : thread'[q] = thread[q] /\ (q \in fresh' => q \in fresh),
           thread[t].slot = s \/ thread[t].pc = "idle", thread'[t].slot = s \/ thread'[t].pc = "idle",
           Harmless(t)', thread[t].pc \notin {"stopBump", "stopClose", "stopRoute"},
           thread[t].pc = "stopJoin" => \A v \in Workers :
               thread[t].join = v /\ On(v, s) => worker[v].pc \in LateSteps,
           thread'[t].pc \in {"stopBump", "stopClose", "stopRoute"} =>
               (thread'[t].was \/ ~row[s].enabled) /\ rt'[s].stop,
           t = Watchdog /\ thread'[t].pc = "startLaunch" => row[s].enabled,
           \/ rt[s].stop => rt'[s].stop
           \/ t = Watchdog /\ Unlocked(s),
           t = Watchdog => Window(s)' /\ (Me'.slot = s /\ Me'.pc = "inspect" /\ Me'.state \in Serving
                                            => row'[s].state \in Serving)
    PROVE  SlotsInv'
<1> USE DEF LateSteps
<1>1. SlotInv(s)
  BY DEF DisableInv, SlotsInv
<1>2. /\ Owners(s)' = Owners(s)
      /\ \A v \in Workers : (On(v, s)' <=> On(v, s)) /\ (Running(v)' <=> Running(v))
  BY DEF Owners, On, Running
<1>3. \A v \in Workers : Abandoned(v, s)' <=> Abandoned(v, s)
  BY ExitSlotsAssumption DEF Abandoned
<1>4. \A v \in Workers : Pursued(v, s) /\ On(v, s) => Pursued(v, s)' \/ worker[v].pc \in LateSteps
  BY DEF Pursued
<1>5. (Stopping(s) => Stopping(s)') /\ (Closing(s) => Closing(s)')
  BY DEF Stopping, Closing
<1>6. Employed(s)' /\ Left(s)'
  BY <1>1, <1>2, <1>3, <1>4, ExitSlotsAssumption DEF SlotInv, Employed, Left
<1>7. Fenced(s)'
  <2>1. \A q \in Threads :
          thread'[q].slot = s /\ thread'[q].pc \in {"stopBump", "stopClose", "stopRoute"} /\ ~thread'[q].was
          => ~row'[s].enabled
    BY <1>1 DEF SlotInv, Fenced
  <2>2. Me'.slot = s /\ Me'.pc = "startLaunch" => row'[s].enabled \/ row'[s].reason = "manual"
    BY <1>1, WatchdogElsewhere DEF SlotInv, Fenced, Me
  <2>3. s \in fresh' => row'[s].enabled /\ rt'[s].timer
    BY <1>1 DEF SlotInv, Fenced
  <2>4. \A v \in Owners(s)' : ~row'[s].enabled =>
          /\ row'[s].reason = "manual" /\ row'[s].state \notin Serving
          /\ worker'[v].pc \in {"dial", "finally", "cleanup", "disown"} /\ ~Running(v)'
    <3> SUFFICES ASSUME NEW v \in Owners(s), ~row[s].enabled
                 PROVE  /\ row'[s].reason = "manual" /\ row'[s].state \notin Serving
                        /\ worker'[v].pc \in {"dial", "finally", "cleanup", "disown"} /\ ~Running(v)'
      BY <1>2
    <3>1. /\ row[s].reason = "manual" /\ row[s].state \notin Serving
          /\ worker[v].pc \in {"dial", "finally", "cleanup", "disown"} /\ ~Running(v)
      BY <1>1 DEF SlotInv, Fenced
    <3>2. Running(v)' <=> Running(v)
      BY <1>2 DEF Owners
    <3> QED BY <3>1, <3>2
  <2>5. \A v \in Owners(s)' : worker'[v].pc \in {"finally", "cleanup", "disown"} =>
          Stopping(s)' \/ ~row'[s].enabled
    BY <1>1, <1>2, <1>5 DEF SlotInv, Fenced
  <2> QED BY <2>1, <2>2, <2>3, <2>4, <2>5 DEF Fenced
<1>8. Failing(s)' /\ Unserved(s)'
  BY <1>1, <1>2, <1>3, ExitSlotsAssumption DEF SlotInv, Failing, Unserved
<1>9. Window(s)'
  BY <1>1, <1>2, WatchdogElsewhere, ExitSlotsAssumption DEF SlotInv, Window
<1>10. Inspected(s)'
  <2>1. \A q \in Threads : thread'[q].slot = s /\ thread'[q].pc \in {"stopBump", "stopClose", "stopRoute"}
                             => rt'[s].stop
    <3> SUFFICES ASSUME NEW q \in Threads \ {t}, thread[q].slot = s,
                        thread[q].pc \in {"stopBump", "stopClose", "stopRoute"}
                 PROVE  rt'[s].stop
      OBVIOUS
    <3>1. rt[s].stop /\ rt[s].lock = q
      BY <1>1 DEF SlotInv, Inspected, DisableInv, OwnerInv, LockHeld
    <3> QED BY <3>1, ExitSlotsAssumption DEF Unlocked, Threads
  <2>2. CASE t = Watchdog
    BY <2>1, <2>2 DEF Inspected
  <2>3. CASE t # Watchdog
    <3>1. Me' = Me /\ (Watchdog \in fresh' => Watchdog \in fresh)
      BY <2>3, WatchdogElsewhere DEF Threads
    <3> QED BY <1>1, <2>1, <2>3, <3>1 DEF SlotInv, Inspected
  <2> QED BY <2>2, <2>3
<1>11. Guarded(s)' /\ Held(s)'
  BY <1>1, <1>2 DEF SlotInv, Guarded, Held
<1>12. Registered(s)'
  BY <1>1, <1>2, <1>3, <1>5 DEF SlotInv, Registered
<1>13. SlotInv(s)'
  BY <1>6, <1>7, <1>8, <1>9, <1>10, <1>11, <1>12 DEF SlotInv
<1> QED BY <1>2, <1>13, ThreadFrame
LEMMA StopLockKept ==
    ASSUME DisableInv, NEW t \in Threads, StopLock(t)
    PROVE  SlotsInv'
<1>1. PICK s \in Slots : /\ thread[t].slot = s /\ SlotInv(s) /\ TypeOK /\ thread \in [Threads -> ThreadRec]
                         /\ thread[t].op = IF t = Watchdog THEN "autoRedial" ELSE "disable"
  BY ThreadStart DEF StopLock, StopSteps
<1>2. /\ thread[t].pc = "stopLock" /\ UNCHANGED <<row, reserved, fresh, worker, proc, routes>>
      /\ thread' = [thread EXCEPT ![t] = [@ EXCEPT !.pc = "stopBump", !.was = row[s].enabled]]
  BY <1>1 DEF StopLock
<1>3. /\ thread'[t].pc = "stopBump" /\ thread'[t].slot = s /\ thread'[t].was = row[s].enabled
      /\ thread'[t].op = thread[t].op
      /\ \A q \in Threads \ {t} : thread'[q] = thread[q]
  BY <1>1, <1>2 DEF ThreadRec
<1>4. /\ \A o \in Slots \ {s} : rt'[o] = rt[o]
      /\ rt'[s].process = rt[s].process /\ rt'[s].worker = rt[s].worker
      /\ rt'[s].timer = rt[s].timer /\ rt'[s].stop
  BY <1>1 DEF StopLock, TypeOK, RuntimeRec
<1>5. Harmless(t)'
  BY <1>1, <1>3 DEF Harmless, StopSteps
<1>6. t = Watchdog => Window(s)'
  <2> SUFFICES ASSUME t = Watchdog PROVE Window(s)'
    OBVIOUS
  <2>1. Me'.pc = "stopBump" /\ Me.pc = "stopLock" /\ Me.slot = s /\ Owners(s)' = Owners(s)
    BY <1>1, <1>2, <1>3 DEF Me, Owners
  <2> QED BY <1>1, <1>2, <2>1 DEF SlotInv, Window, Relaunching
<1>7. t = Watchdog => Me'.pc # "inspect"
  BY <1>3 DEF Me
<1> QED BY <1>1, <1>2, <1>3, <1>4, <1>5, <1>6, <1>7, ThreadMoves

LEMMA StopJoinKept ==
    ASSUME DisableInv, DisablesOnly, NEW t \in Threads, StopJoin(t)
    PROVE  SlotsInv'
<1>1. PICK s \in Slots : /\ thread[t].slot = s /\ SlotInv(s) /\ TypeOK /\ thread \in [Threads -> ThreadRec]
                         /\ thread[t].op = IF t = Watchdog THEN "autoRedial" ELSE "disable"
  BY ThreadStart DEF StopJoin, StopSteps
<1>2. /\ thread[t].pc = "stopJoin" /\ UNCHANGED <<row, reserved, fresh, worker, proc, routes>>
      /\ Joined(thread[t].join) /\ Unlocked(s)
  BY <1>1 DEF StopJoin
<1>3. /\ thread'[t].pc = IF t = Watchdog THEN "redial" ELSE "disable"
      /\ thread'[t].slot = s /\ thread'[t].op = thread[t].op
      /\ \A q \in Threads \ {t} : thread'[q] = thread[q]
  BY <1>1 DEF StopJoin, ThreadRec
<1>4. rt' = rt
  <2>1. CASE Alive(thread[t].join)
    BY <1>1, <2>1 DEF StopJoin
  <2>2. CASE ~Alive(thread[t].join)
    <3>1. rt[s].worker \in Workers => worker[rt[s].worker].pc # "done"
      BY <1>1 DEF SlotInv, Employed, On
    <3>2. rt[s].worker = thread[t].join => rt[s].worker = None
      BY <1>1, <2>2, <3>1 DEF Alive, TypeOK, RuntimeRec
    <3>3. rt' = [rt EXCEPT ![s].worker = IF @ = thread[t].join THEN None ELSE @]
      BY <1>1, <2>2 DEF StopJoin
    <3>4. rt' = [rt EXCEPT ![s].worker = rt[s].worker]
      BY <1>1, <3>2, <3>3
    <3> QED BY <1>1, <3>4 DEF TypeOK, RuntimeRec
  <2> QED BY <2>1, <2>2
<1>5. Harmless(t)'
  BY <1>1, <1>3 DEF Harmless, StopSteps
<1>6. t = Watchdog => Window(s)' /\ Me'.pc # "inspect"
  <2> SUFFICES ASSUME t = Watchdog PROVE Window(s)' /\ Me'.pc # "inspect"
    OBVIOUS
  <2>1. Me'.pc = "redial" /\ Me.pc = "stopJoin" /\ Me.slot = s
    BY <1>1, <1>2, <1>3 DEF Me
  <2> QED BY <1>1, <1>2, <2>1 DEF SlotInv, Window, Relaunching, On
<1>7. ASSUME NEW v \in Workers, thread[t].join = v, On(v, s)
      PROVE  worker[v].pc \in LateSteps
  BY <1>2, <1>7, ExitSlotsAssumption DEF Joined, Alive, On, DisablesOnly, LateSteps
<1> QED BY <1>1, <1>2, <1>3, <1>4, <1>5, <1>6, <1>7, ThreadMoves

\* Past the bump of its stop, or with the lock of the start, a thread keeps the
\* slot's workers out of fail_slot.
LEMMA LockOfThread ==
    ASSUME DisableInv, NEW s \in Slots, NEW t \in Threads, thread[t].slot = s,
           thread[t].pc \in {"stopBump", "stopClose", "stopRoute", "startLaunch"}
    PROVE  /\ \A v \in Workers : On(v, s) => worker[v].pc \notin {"record", "teardown", "retire"}
           /\ \A q \in Threads : thread[q].slot = s
                /\ thread[q].pc \in {"stopBump", "stopClose", "stopRoute", "startLaunch"} => q = t
BY LockOfWorker DEF DisableInv, OwnerInv, LockHeld

LEMMA StopBumpKept ==
    ASSUME DisableInv, NEW t \in Threads, StopBump(t)
    PROVE  SlotsInv'
<1> USE DEF LateSteps
<1>1. PICK s \in Slots : /\ thread[t].slot = s /\ SlotInv(s) /\ TypeOK /\ thread \in [Threads -> ThreadRec]
                         /\ thread[t].op = IF t = Watchdog THEN "autoRedial" ELSE "disable"
  BY ThreadStart DEF StopBump, StopSteps
<1>2. /\ thread[t].pc = "stopBump" /\ UNCHANGED <<reserved, worker, proc, routes>>
  BY DEF StopBump
<1>3. /\ thread'[t].pc = "stopClose" /\ thread'[t].slot = s /\ thread'[t].was = thread[t].was
      /\ thread'[t].op = thread[t].op
      /\ \A q \in Threads \ {t} : thread'[q] = thread[q]
  BY <1>1 DEF StopBump, StepTo, ThreadRec
<1>4. /\ \A o \in Slots \ {s} : rt'[o] = rt[o]
      /\ rt'[s].process = rt[s].process /\ rt'[s].worker = rt[s].worker /\ rt'[s].stop = rt[s].stop
  BY <1>1 DEF StopBump, TypeOK, RuntimeRec
<1>5. Harmless(t)'
  BY <1>1, <1>3 DEF Harmless, StopSteps
<1>6. /\ \A v \in Workers : On(v, s) => worker[v].pc \notin {"record", "teardown", "retire"}
      /\ \A q \in Threads \ {t} : thread'[q].slot = s =>
           thread'[q].pc \notin {"stopBump", "stopClose", "stopRoute", "startLaunch"}
  BY <1>1, <1>2, <1>3, LockOfThread
<1>7. /\ \A v \in Workers : (On(v, s)' <=> On(v, s)) /\ (Running(v)' <=> Running(v))
      /\ Closing(s) /\ Closing(s)'
  BY <1>1, <1>2, <1>3 DEF On, Running, Closing
<1>8. rt[s].stop
  BY <1>1, <1>2 DEF SlotInv, Inspected
<1>9. Me'.slot = s => Me'.pc # "startLaunch" /\ (Me'.pc = "stopClose" \/ Me' = Me)
                     /\ (Me'.pc \in {"stopBump", "stopClose", "stopRoute"} => t = Watchdog /\ Me'.pc = "stopClose")
  BY <1>3, <1>6 DEF Me, Threads
<1>10. CASE thread[t].was
  <2>1. /\ row'[s].enabled /\ row'[s].state \in {row[s].state, "idle"}
        /\ row[s].enabled => row'[s] = row[s]
        /\ ~row[s].enabled => row'[s].state = "idle"
        /\ \A o \in Slots \ {s} : row'[o] = row[o]
    <3>1. CASE row[s].enabled
      BY <1>1, <1>10, <3>1 DEF StopBump
    <3>2. CASE ~row[s].enabled
      <4>1. row' = [row EXCEPT ![s] = [@ EXCEPT !.enabled = TRUE, !.state = "idle", !.reason = "none"]]
        BY <1>1, <1>10, <3>2 DEF StopBump
      <4> QED BY <4>1, <3>2, <1>1 DEF TypeOK, RowRec
    <3> QED BY <3>1, <3>2
  <2>2. /\ \A v \in Workers : v \in fresh' <=> v \in fresh /\ worker[v].slot # s
        /\ \A q \in Threads : q \in fresh' => q \in fresh /\ thread[q].slot # s
        /\ \A o \in Slots : o \in fresh' => o \in fresh /\ o # s
    BY <1>1, <1>10, FreshRange, ExitSlotsAssumption DEF StopBump, Bumped, SlotOf, Threads
  <2>3. Owners(s)' = {}
    BY <1>2, <2>2 DEF Owners
  <2>4. \A v \in Workers : rt[s].worker = v => Pursued(v, s)'
    BY <1>3, <1>4, <1>10 DEF Pursued
  <2>5. Left(s)'
    <3> SUFFICES ASSUME NEW v \in Workers, On(v, s)
                 PROVE  worker[v].pc \in LateSteps \/ Pursued(v, s)'
      BY <1>2, <1>7 DEF Left
    <3>1. v \in Owners(s) => rt[s].worker = v
      BY DEF DisableInv, OwnerInv, OwnerAttends
    <3>2. v \in fresh => v \in Owners(s) \/ worker[v].pc = "schedule"
      BY DEF On, Owners
    <3> QED BY <1>1, <1>6, <2>4, <3>1, <3>2 DEF SlotInv, Left, Pursued, Abandoned
  <2>6. Employed(s)'
    BY <1>1, <1>2, <1>4, <1>6, <1>7, <2>2 DEF SlotInv, Employed, On
  <2>7. Fenced(s)'
    BY <1>3, <1>6, <1>9, <1>10, <2>1, <2>2, <2>3 DEF Fenced
  <2>8. Failing(s)'
    BY <1>2, <1>6, <1>7 DEF Failing
  <2>9. Window(s)'
    <3>1. \A v \in Workers : On(v, s)' => v \notin fresh' /\ worker'[v].pc \notin {"record", "teardown", "retire"}
      BY <1>2, <1>6, <1>7, <2>2 DEF On
    <3>2. Me'.slot = s /\ Me'.pc = "startJoin" => \A v \in Workers : rt'[s].worker = v => Me'.join = v
      BY <1>1, <1>4, <1>9 DEF SlotInv, Window
    <3> QED BY <1>9, <2>1, <2>2, <3>1, <3>2 DEF Window
  <2>10. Unserved(s)'
    BY <1>1, <1>2, <1>4, <1>7, <2>1, <2>2 DEF SlotInv, Unserved, Serving
  <2>11. Inspected(s)'
    <3>1. ~(Me'.slot = s /\ Me'.pc = "inspect" /\ Watchdog \in fresh')
      BY <1>9, <2>2 DEF Me, Threads
    <3> QED BY <1>4, <1>8, <3>1 DEF Inspected
  <2>12. Guarded(s)' /\ Held(s)'
    BY <1>1, <1>2, <2>1, <2>3 DEF SlotInv, Guarded, Held, Serving
  <2>13. Registered(s)'
    BY <1>1, <1>2, <1>4, <1>7 DEF SlotInv, Registered
  <2>14. SlotInv(s)'
    BY <2>5, <2>6, <2>7, <2>8, <2>9, <2>10, <2>11, <2>12, <2>13 DEF SlotInv
  <2> QED BY <1>1, <1>2, <1>3, <1>4, <1>5, <1>7, <2>1, <2>2, <2>14, ThreadFrame
<1>11. CASE ~thread[t].was
  <2>1. row' = row /\ ~row[s].enabled
    BY <1>1, <1>2, <1>11 DEF StopBump, SlotInv, Fenced
  <2>2. /\ \A v \in Workers : v \in fresh' <=> v \in fresh
        /\ \A q \in Threads : q \in fresh' <=> q \in fresh
        /\ \A o \in Slots : o \in fresh' => o \in fresh /\ o # s
    BY <1>1, <1>11, ExitSlotsAssumption DEF StopBump, Threads
  <2>3. Owners(s)' = Owners(s)
    BY <1>2, <2>2 DEF Owners
  <2>4. \A v \in Workers : /\ Abandoned(v, s)' <=> Abandoned(v, s)
                           /\ Pursued(v, s) => Pursued(v, s)'
    BY <1>1, <1>2, <1>3, <1>4, <2>1 DEF Abandoned, Pursued
  <2>5. Left(s)' /\ Employed(s)'
    BY <1>1, <1>2, <1>4, <1>7, <2>1, <2>2, <2>4 DEF SlotInv, Left, Employed
  <2>6. Fenced(s)'
    <3>1. s \notin fresh' /\ ~row'[s].enabled
      BY <2>1, <2>2
    <3>2. \A v \in Owners(s) : Running(v)' <=> Running(v)
      BY <1>7 DEF Owners
    <3> QED BY <1>1, <1>2, <1>9, <2>1, <2>3, <3>1, <3>2 DEF SlotInv, Fenced
  <2>7. Failing(s)' /\ Unserved(s)'
    BY <1>1, <1>2, <1>4, <1>7, <2>1, <2>2, <2>3, <2>4 DEF SlotInv, Failing, Unserved
  <2>8. Window(s)'
    <3>1. t = Watchdog => Me.slot = s /\ Me.pc = "stopBump"
      BY <1>1, <1>2 DEF Me
    <3>2. t = Watchdog => Owners(s) = {}
      BY <1>1, <2>1, <3>1 DEF SlotInv, Window
    <3>3. ASSUME t = Watchdog, NEW v \in Workers, On(v, s)'
          PROVE  v \notin fresh' /\ worker'[v].pc \notin {"record", "teardown", "retire"}
      <4>1. v \in fresh => worker[v].pc = "schedule"
        BY <1>7, <3>2, <3>3 DEF Owners, On
      <4>2. v \in fresh => row[s].enabled
        BY <1>1, <1>7, <3>3, <4>1 DEF SlotInv, Employed
      <4> QED BY <1>2, <1>6, <1>7, <2>1, <2>2, <3>3, <4>2
    <3>4. CASE t = Watchdog
      BY <1>3, <2>2, <3>3, <3>4 DEF Window, Relaunching, Me
    <3>5. CASE t # Watchdog
      <4>1. Me' = Me
        BY <1>3, <3>5, WatchdogElsewhere
      <4> QED BY <1>1, <1>2, <1>4, <1>7, <2>1, <2>2, <2>3, <4>1 DEF SlotInv, Window
    <3> QED BY <3>4, <3>5
  <2>9. Inspected(s)'
    BY <1>1, <1>4, <1>8, <1>9, <2>1, <2>2 DEF SlotInv, Inspected, Threads
  <2>10. Guarded(s)' /\ Held(s)'
    BY <1>1, <1>2, <2>1, <2>3 DEF SlotInv, Guarded, Held
  <2>11. Registered(s)'
    BY <1>1, <1>2, <1>4, <1>7 DEF SlotInv, Registered
  <2>12. SlotInv(s)'
    BY <2>5, <2>6, <2>7, <2>8, <2>9, <2>10, <2>11 DEF SlotInv
  <2> QED BY <1>1, <1>2, <1>3, <1>4, <1>5, <1>7, <2>1, <2>2, <2>12, ThreadFrame
<1> QED BY <1>1, <1>10, <1>11 DEF ThreadRec
\* Past its bump a stop has the slot for itself, or finds it disabled.
LEMMA StopAlone ==
    ASSUME DisableInv, NEW t \in Threads, NEW s \in Slots, thread[t].slot = s,
           thread[t].pc \in {"stopClose", "stopRoute"}
    PROVE  /\ thread[t].was => Owners(s) = {}
           /\ ~thread[t].was => ~row[s].enabled
           /\ \A v \in Owners(s) : worker[v].pc \in {"dial", "finally", "cleanup", "disown"} /\ ~Running(v)
           /\ rt[s].stop
<1>1. SlotInv(s) /\ thread[t].was \in BOOLEAN
  BY DEF DisableInv, SlotsInv, OwnerInv, TypeOK, ThreadRec
<1>2. ~thread[t].was => ~row[s].enabled
  BY <1>1 DEF SlotInv, Fenced
<1>3. thread[t].was => Owners(s) = {}
  BY DEF DisableInv, OwnerInv, LockExcludesOwners
<1>4. rt[s].stop
  BY <1>1 DEF SlotInv, Inspected
<1> QED BY <1>1, <1>2, <1>3, <1>4 DEF SlotInv, Fenced

LEMMA StopCloseKept ==
    ASSUME DisableInv, NEW t \in Threads, StopClose(t)
    PROVE  SlotsInv'
<1>1. PICK s \in Slots : /\ thread[t].slot = s /\ SlotInv(s) /\ TypeOK /\ thread \in [Threads -> ThreadRec]
                         /\ thread[t].op = IF t = Watchdog THEN "autoRedial" ELSE "disable"
  BY ThreadStart DEF StopClose, StopSteps
<1>2. thread[t].pc = "stopClose" /\ UNCHANGED <<row, fresh, worker>>
  BY DEF StopClose
<1>3. /\ thread'[t].pc = "stopRoute" /\ thread'[t].slot = s /\ thread'[t].was = thread[t].was
      /\ thread'[t].op = thread[t].op
      /\ \A q \in Threads \ {t} : thread'[q] = thread[q]
  BY <1>1 DEF StopClose, StepTo, ThreadRec
<1>4. /\ \A o \in Slots \ {s} : rt'[o] = rt[o]
      /\ rt'[s].worker = rt[s].worker /\ rt'[s].stop = rt[s].stop /\ rt'[s].timer = rt[s].timer
      /\ rt'[s].process = None
  BY <1>1 DEF StopClose, TypeOK, RuntimeRec
<1>5. /\ \A o \in Slots \ {s} : reserved'[o] = reserved[o] /\ routes'[o] = routes[o]
      /\ "closed" \in routes[s] => "closed" \in routes'[s]
  BY <1>1 DEF StopClose, TypeOK, WithoutTunnel
<1>6. \A v \in Workers : Running(v)' => Running(v) /\ v # rt[s].process
  BY <1>1, ExitSlotsAssumption DEF StopClose, Running, Killed, TypeOK
<1>7. Harmless(t)'
  BY <1>1, <1>3 DEF Harmless, StopSteps
<1>8. /\ \A v \in Workers : On(v, s) => worker[v].pc \notin {"record", "teardown", "retire"}
      /\ \A q \in Threads \ {t} : thread'[q].slot = s =>
           thread'[q].pc \notin {"stopBump", "stopClose", "stopRoute", "startLaunch"}
  BY <1>1, <1>2, <1>3, LockOfThread
<1>9. /\ Owners(s)' = Owners(s)
      /\ \A v \in Workers : /\ On(v, s)' <=> On(v, s)
                            /\ Pursued(v, s) => Pursued(v, s)'
                            /\ Abandoned(v, s)' <=> Abandoned(v, s)
  BY <1>1, <1>2, <1>3, <1>4 DEF Owners, On, Pursued, Abandoned
<1>10. /\ rt[s].stop /\ (thread[t].was \/ ~row[s].enabled)
       /\ \A v \in Owners(s) : worker[v].pc \in {"dial", "finally", "cleanup", "disown"} /\ ~Running(v)
       /\ ~row[s].enabled \/ Owners(s) = {}
  BY <1>1, <1>2, StopAlone
<1>11. /\ t = Watchdog => Me'.pc = "stopRoute" /\ Me.pc = "stopClose" /\ Me'.slot = Me.slot
       /\ t # Watchdog => Me' = Me
       /\ Me'.slot = s => Me'.pc # "startLaunch"
  BY <1>1, <1>2, <1>3, <1>8, WatchdogElsewhere DEF Me, Threads
<1>12. SlotInv(s)'
  <2>1. Left(s)' /\ Employed(s)' /\ Unserved(s)'
    BY <1>1, <1>2, <1>4, <1>9 DEF SlotInv, Left, Employed, Unserved
  <2>2. Fenced(s)'
    <3>1. \A v \in Owners(s)' : ~Running(v)'
      BY <1>6, <1>9, <1>10 DEF Owners
    <3>2. Owners(s)' = {} \/ ~row'[s].enabled
      BY <1>2, <1>9, <1>10
    <3>3. \A q \in Threads : thread'[q].slot = s /\ thread'[q].pc \in {"stopBump", "stopClose", "stopRoute"}
             /\ ~thread'[q].was => ~row'[s].enabled
      BY <1>2, <1>3, <1>8, <1>10
    <3>4. \A v \in Owners(s)' : ~row'[s].enabled => row'[s].reason = "manual" /\ row'[s].state \notin Serving
      BY <1>1, <1>2, <1>9 DEF SlotInv, Fenced
    <3>5. s \in fresh' => row'[s].enabled /\ rt'[s].timer
      BY <1>1, <1>2, <1>4 DEF SlotInv, Fenced
    <3> QED BY <1>2, <1>9, <1>10, <1>11, <3>1, <3>2, <3>3, <3>4, <3>5 DEF Fenced
  <2>3. Failing(s)'
    BY <1>2, <1>8, <1>9 DEF Failing
  <2>4. Window(s)'
    BY <1>1, <1>2, <1>4, <1>9, <1>11 DEF SlotInv, Window, Relaunching
  <2>5. Inspected(s)'
    BY <1>1, <1>2, <1>4, <1>10, <1>11 DEF SlotInv, Inspected
  <2>6. Held(s)' /\ Guarded(s)'
    BY <1>1, <1>2, <1>5, <1>9, <1>10 DEF SlotInv, Held, Guarded, HoldsNode, Installed
  <2>7. \A v \in Workers : rt'[s].process # v
    BY <1>4, ExitSlotsAssumption
  <2>8. Registered(s)'
    BY <1>1, <1>2, <1>6, <1>9, <2>7 DEF SlotInv, Registered
  <2> QED BY <2>1, <2>2, <2>3, <2>4, <2>5, <2>6, <2>8 DEF SlotInv
<1> QED BY <1>1, <1>2, <1>3, <1>4, <1>5, <1>6, <1>7, <1>12, ThreadFrame

LEMMA StopRouteKept ==
    ASSUME DisableInv, NEW t \in Threads, StopRoute(t)
    PROVE  SlotsInv'
<1>1. PICK s \in Slots : /\ thread[t].slot = s /\ SlotInv(s) /\ TypeOK /\ thread \in [Threads -> ThreadRec]
                         /\ thread[t].op = IF t = Watchdog THEN "autoRedial" ELSE "disable"
  BY ThreadStart DEF StopRoute, StopSteps
<1>2. thread[t].pc = "stopRoute" /\ UNCHANGED <<reserved, fresh, worker, proc>>
  BY DEF StopRoute
<1>3. /\ thread'[t].pc = "stopJoin" /\ thread'[t].slot = s /\ thread'[t].join = rt[s].worker
      /\ thread'[t].op = thread[t].op
      /\ \A q \in Threads \ {t} : thread'[q] = thread[q]
  BY <1>1 DEF StopRoute, ThreadRec
<1>4. /\ \A o \in Slots \ {s} : rt'[o] = rt[o] /\ routes'[o] = routes[o]
      /\ rt'[s].worker = rt[s].worker /\ rt'[s].stop = rt[s].stop /\ rt'[s].timer = rt[s].timer
      /\ rt'[s].process = rt[s].process
  BY <1>1 DEF StopRoute, TypeOK, RuntimeRec
<1>5. /\ \A o \in Slots \ {s} : row'[o] = row[o]
      /\ row'[s].enabled = row[s].enabled /\ row'[s].reason = row[s].reason
      /\ thread[t].was => row'[s].state = "idle"
      /\ ~thread[t].was => row'[s] = row[s]
  BY <1>1 DEF StopRoute, TypeOK, RowRec
<1>6. Harmless(t)'
  BY <1>1, <1>3 DEF Harmless, StopSteps
<1>7. /\ \A v \in Workers : On(v, s) => worker[v].pc \notin {"record", "teardown", "retire"}
      /\ \A q \in Threads \ {t} : thread'[q].slot = s =>
           thread'[q].pc \notin {"stopBump", "stopClose", "stopRoute", "startLaunch"}
  BY <1>1, <1>2, <1>3, LockOfThread
<1>8. /\ Owners(s)' = Owners(s)
      /\ \A v \in Workers : /\ On(v, s)' <=> On(v, s)
                            /\ Running(v)' <=> Running(v)
                            /\ Pursued(v, s) => Pursued(v, s)'
                            /\ Abandoned(v, s)' <=> Abandoned(v, s)
  BY <1>1, <1>2, <1>3, <1>4, <1>5 DEF Owners, On, Running, Pursued, Abandoned
<1>9. /\ rt[s].stop
      /\ thread[t].was => Owners(s) = {}
      /\ ~thread[t].was => ~row[s].enabled
      /\ \A v \in Owners(s) : worker[v].pc \in {"dial", "finally", "cleanup", "disown"} /\ ~Running(v)
  BY <1>1, <1>2, StopAlone
<1>10. ~row[s].enabled \/ Owners(s) = {}
  BY <1>1, <1>9 DEF ThreadRec
<1>11. /\ t = Watchdog => /\ Me'.pc = "stopJoin" /\ Me.pc = "stopRoute" /\ Me'.slot = Me.slot
                          /\ Me'.join = rt[s].worker
       /\ t # Watchdog => Me' = Me
       /\ Me'.slot = s => Me'.pc # "startLaunch"
  BY <1>1, <1>2, <1>3, <1>7, WatchdogElsewhere DEF Me, Threads
<1>12. row'[s].state \in {row[s].state, "idle"}
  BY <1>1, <1>5 DEF ThreadRec
<1>13. SlotInv(s)'
  <2>1. Left(s)' /\ Employed(s)' /\ Unserved(s)'
    BY <1>1, <1>2, <1>4, <1>5, <1>8, <1>12 DEF SlotInv, Left, Employed, Unserved, Serving
  <2>2. Fenced(s)'
    <3>1. \A v \in Owners(s)' : ~Running(v)'
      BY <1>8, <1>9 DEF Owners
    <3>2. \A q \in Threads : thread'[q].slot = s =>
             thread'[q].pc \notin {"stopBump", "stopClose", "stopRoute"}
      BY <1>3, <1>7
    <3>3. \A v \in Owners(s)' : ~row'[s].enabled => row'[s].reason = "manual" /\ row'[s].state \notin Serving
      BY <1>1, <1>5, <1>8, <1>12 DEF SlotInv, Fenced, Serving
    <3>4. s \in fresh' => row'[s].enabled /\ rt'[s].timer
      BY <1>1, <1>2, <1>4, <1>5 DEF SlotInv, Fenced
    <3> QED BY <1>2, <1>5, <1>8, <1>9, <1>10, <1>11, <3>1, <3>2, <3>3, <3>4 DEF Fenced
  <2>3. Failing(s)'
    BY <1>2, <1>7, <1>8 DEF Failing
  <2>4. Window(s)'
    BY <1>1, <1>2, <1>4, <1>5, <1>8, <1>11 DEF SlotInv, Window, Relaunching
  <2>5. Inspected(s)'
    <3>1. CASE t = Watchdog
      BY <1>4, <1>9, <1>11, <3>1 DEF Inspected
    <3>2. CASE t # Watchdog
      BY <1>1, <1>2, <1>4, <1>9, <1>11, <1>12, <3>2 DEF SlotInv, Inspected
    <3> QED BY <3>1, <3>2
  <2>6. Held(s)' /\ Guarded(s)'
    <3>1. row'[s].enabled => row'[s].state = "idle"
      BY <1>1, <1>5, <1>9 DEF ThreadRec
    <3> QED BY <1>2, <1>8, <1>9, <3>1 DEF Held, Guarded, HoldsNode, Installed, Serving
  <2>7. Registered(s)'
    <3> SUFFICES ASSUME NEW v \in Workers, rt[s].process = v, Running(v)
                 PROVE  \/ v \in Owners(s) \/ worker[v].pc \in {"teardown", "retire"} \/ Closing(s)'
                        \/ Abandoned(v, s) /\ worker[v].pc # "disown"
      BY <1>1, <1>2, <1>4, <1>8 DEF SlotInv, Registered
    <3>1. Closing(s) => Closing(s)'
      BY <1>2, <1>3 DEF Closing
    <3> QED BY <1>1, <3>1 DEF SlotInv, Registered
  <2> QED BY <2>1, <2>2, <2>3, <2>4, <2>5, <2>6, <2>7 DEF SlotInv
<1> QED BY <1>1, <1>2, <1>3, <1>4, <1>5, <1>6, <1>8, <1>13, ThreadFrame

LEMMA DisableWriteKept ==
    ASSUME DisableInv, NEW u \in Users, DisableWrite(u)
    PROVE  SlotsInv'
<1> USE DEF LateSteps
<1>1. PICK s \in Slots : /\ thread[u].slot = s /\ SlotInv(s) /\ TypeOK /\ thread \in [Threads -> ThreadRec]
  BY ThreadStart DEF DisableWrite, Threads
<1>2. u \in Threads /\ u # Watchdog
  BY ExitSlotsAssumption DEF Threads
<1>3. thread[u].pc = "disable" /\ UNCHANGED <<rt, reserved, worker, proc, routes>>
  BY DEF DisableWrite
<1>4. thread'[u] = IdleThread /\ \A q \in Threads \ {u} : thread'[q] = thread[q]
  BY <1>1, <1>2, ThreadSet DEF DisableWrite, Done
<1>5. thread'[u].pc = "idle" /\ thread'[u].op = "none" /\ Me' = Me
  BY <1>2, <1>4, WatchdogElsewhere DEF IdleThread
<1>6. /\ ~row'[s].enabled /\ row'[s].state = "disabled" /\ row'[s].reason = "manual"
      /\ \A o \in Slots \ {s} : row'[o] = row[o]
  BY <1>1 DEF DisableWrite, TypeOK, RowRec
<1>7. /\ \A v \in Workers : v \in fresh' <=> v \in fresh /\ worker[v].slot # s
      /\ \A q \in Threads : q \in fresh' => q \in fresh /\ thread[q].slot # s
      /\ \A o \in Slots : o \in fresh' => o \in fresh /\ o # s
  BY <1>1, FreshRange, ExitSlotsAssumption DEF DisableWrite, Bumped, SlotOf, Threads
<1>8. Harmless(u)'
  BY <1>2, <1>5 DEF Harmless
<1>9. Owners(s)' = {}
  BY <1>3, <1>7 DEF Owners
<1>10. /\ \A v \in Workers : /\ On(v, s)' <=> On(v, s)
                             /\ Running(v)' <=> Running(v)
                             /\ Pursued(v, s) => Pursued(v, s)'
                             /\ rt[s].worker = v => Abandoned(v, s)'
       /\ Closing(s) => Closing(s)'
  BY <1>1, <1>2, <1>3, <1>4, <1>6 DEF On, Running, Pursued, Abandoned, Closing
<1>11. \A v \in Owners(s) : rt[s].worker = v
  BY DEF DisableInv, OwnerInv, OwnerAttends
<1>12. SlotInv(s)'
  <2>1. Employed(s)'
    BY <1>1, <1>3, <1>7, <1>10 DEF SlotInv, Employed, On
  <2>2. Left(s)'
    <3> SUFFICES ASSUME NEW v \in Workers, On(v, s)
                 PROVE  worker[v].pc \in LateSteps \cup {"teardown", "retire"} \/ Pursued(v, s)' \/ Abandoned(v, s)'
      BY <1>3, <1>10 DEF Left
    <3>1. v \in fresh => v \in Owners(s) \/ worker[v].pc = "schedule"
      BY DEF On, Owners
    <3> QED BY <1>1, <1>10, <1>11, <3>1 DEF SlotInv, Left, Abandoned
  <2>3. Fenced(s)'
    BY <1>6, <1>7, <1>9 DEF Fenced
  <2>4. Failing(s)'
    BY <1>1, <1>3, <1>6, <1>7, <1>9, <1>10 DEF SlotInv, Failing, Employed, On, Serving
  <2>5. Window(s)'
    BY <1>1, <1>3, <1>5, <1>7, <1>9, <1>10 DEF SlotInv, Window, On
  <2>6. Unserved(s)' /\ Guarded(s)' /\ Held(s)'
    BY <1>6, <1>9 DEF Unserved, Guarded, Held, Serving
  <2>7. Inspected(s)'
    <3>1. ~(Me'.slot = s /\ Watchdog \in fresh')
      BY <1>5, <1>7 DEF Me, Threads
    <3>2. \A q \in Threads : thread'[q].slot = s /\ thread'[q].pc \in {"stopBump", "stopClose", "stopRoute"}
             => rt'[s].stop
      BY <1>1, <1>3, <1>4, <1>5 DEF SlotInv, Inspected
    <3> QED BY <3>1, <3>2 DEF Inspected
  <2>8. Registered(s)'
    <3> SUFFICES ASSUME NEW v \in Workers, rt[s].process = v, Running(v)
                 PROVE  \/ worker[v].pc \in {"teardown", "retire"} \/ Closing(s)'
                        \/ Abandoned(v, s)' /\ worker[v].pc # "disown"
      BY <1>1, <1>3, <1>10 DEF SlotInv, Registered
    <3>1. v \in Owners(s) /\ worker[v].pc = "disown" => Stopping(s) \/ ~Running(v)
      BY <1>1 DEF SlotInv, Fenced
    <3>2. Stopping(s) => Closing(s)
      BY DEF Stopping, Closing
    <3> QED BY <1>1, <1>10, <1>11, <3>1, <3>2 DEF SlotInv, Registered, Abandoned
  <2> QED BY <2>1, <2>2, <2>3, <2>4, <2>5, <2>6, <2>7, <2>8 DEF SlotInv
<1> QED BY <1>1, <1>2, <1>3, <1>4, <1>5, <1>6, <1>7, <1>8, <1>10, <1>12, ThreadFrame

LEMMA RequestKept ==
    ASSUME DisableInv, DisablesOnly, NEW u \in Users, NEW s \in Slots, UserRequest(u, s)
    PROVE  SlotsInv'
<1>1. TypeOK /\ u \in Threads /\ u # Watchdog
  BY ExitSlotsAssumption DEF DisableInv, OwnerInv, Threads
<1>2. Request(u, "disable", s, None, "stopLock")
  BY DEF UserRequest, RequestRedial, RequestConnect, RequestDisable, RequestEnable, RequestConfigure,
         Request, DisablesOnly
<1>3. /\ thread[u].pc = "idle" /\ UNCHANGED <<row, rt, reserved, worker, fresh, proc, routes>>
      /\ thread' = [thread EXCEPT ![u] =
           [IdleThread EXCEPT !.pc = "stopLock", !.op = "disable", !.slot = s, !.node = None]]
  BY <1>2 DEF Request
<1>4. thread'[u] = [IdleThread EXCEPT !.pc = "stopLock", !.op = "disable", !.slot = s, !.node = None]
      /\ \A q \in Threads \ {u} : thread'[q] = thread[q]
  BY <1>1, <1>3, ThreadSet
<1>5. thread'[u].pc = "stopLock" /\ thread'[u].op = "disable" /\ thread'[u].slot = s
  BY <1>4 DEF IdleThread
<1>6. Harmless(u)'
  BY <1>1, <1>5 DEF Harmless, StopSteps
<1> QED BY <1>1, <1>3, <1>4, <1>5, <1>6, ThreadMoves
-----------------------------------------------------------------------------
(* The watchdog *)

\* What the watchdog's step starts from.
LEMMA WatchdogStart ==
    ASSUME DisableInv, Me.pc # "idle"
    PROVE  \E s \in Slots : /\ Me.slot = s /\ SlotInv(s) /\ TypeOK /\ Me \in ThreadRec
                            /\ thread \in [Threads -> ThreadRec]
                            /\ Me.op \in {"none", "autoRedial", "recover", "revive", "inspect"}
                            /\ Watchdog \in Threads
BY DEF DisableInv, OwnerInv, SlotsInv, OnlyDisables, Placed, TypeOK, Threads, Me

\* Its next step is "step" of operation "op", on slot s.
Turns(step, op, s) ==
    /\ Me'.pc = step /\ Me'.op = op /\ (step = "idle" \/ Me'.slot = s)
    /\ \A q \in Threads \ {Watchdog} : thread'[q] = thread[q]

LEMMA QuitsIdle ==
    ASSUME TypeOK, WatchdogQuits \/ Done(Watchdog)
    PROVE  \A s \in Slots : Turns("idle", "none", s)
<1>1. Watchdog \in Threads
  BY DEF Threads
<1>2. Me' = IdleThread /\ \A q \in Threads \ {Watchdog} : thread'[q] = thread[q]
  BY <1>1, ThreadSet DEF WatchdogQuits, Done, Me
<1> QED BY <1>2 DEF IdleThread, Turns

LEMMA GoesOn ==
    ASSUME TypeOK, Me \in ThreadRec, NEW step, StepTo(Watchdog, step)
    PROVE  Turns(step, Me.op, Me.slot)
<1>1. Watchdog \in Threads
  BY DEF Threads
<1>2. /\ thread'[Watchdog] = [thread[Watchdog] EXCEPT !.pc = step]
      /\ \A q \in Threads \ {Watchdog} : thread'[q] = thread[q]
  BY <1>1, ThreadSet DEF StepTo
<1> QED BY <1>2 DEF Me, ThreadRec, Turns

LEMMA Begins ==
    ASSUME TypeOK, NEW r, thread' = [thread EXCEPT ![Watchdog] = r]
    PROVE  Me' = r /\ Turns(r.pc, r.op, r.slot)
<1>1. Watchdog \in Threads
  BY DEF Threads
<1> QED BY <1>1, ThreadSet DEF Me, Turns

\* The watchdog goes on, or ends what it does, and leaves the slot to its workers.
LEMMA WatchdogMoves ==
    ASSUME DisableInv, NEW s \in Slots, UNCHANGED <<reserved, worker, proc, routes>>,
           \A o \in Slots \ {s} : row'[o] = row[o] /\ rt'[o] = rt[o],
           row'[s].enabled = row[s].enabled, row'[s].reason = row[s].reason,
           row'[s].state = row[s].state \/ {row'[s].state, row[s].state} \subseteq Serving,
           rt'[s].process = rt[s].process, rt'[s].worker = rt[s].worker,
           rt'[s].stop = rt[s].stop, rt'[s].timer = rt[s].timer,
           \A h : h # Watchdog => (h \in fresh' <=> h \in fresh),
           Me.slot = s \/ Me.pc = "idle", Me.pc \notin StopSteps,
           NEW step \in {"idle", "redial", "start", "startJoin", "inspect", "repair", "confirm", "revive", "stopLock"},
           NEW op \in {"none", "autoRedial", "recover", "revive", "inspect"},
           Turns(step, op, s),
           step = "inspect" => Me'.state = row'[s].state,
           step = "stopLock" => row[s].enabled,
           step \in {"redial", "start", "startJoin"} =>
              /\ s \notin fresh
              /\ \A v \in Workers : On(v, s) => v \notin fresh /\ worker[v].pc \notin {"record", "teardown", "retire"},
           step = "startJoin" => \A v \in Workers : rt[s].worker = v => Me'.join = v
    PROVE  SlotsInv'
<1>1. Watchdog \in Threads /\ Me = thread[Watchdog] /\ Me' = thread'[Watchdog]
  BY DEF Threads, Me
<1>2. /\ \A v \in Workers : v \in fresh' <=> v \in fresh
      /\ \A o \in Slots : o \in fresh' => o \in fresh
      /\ \A q \in Threads \ {Watchdog} : q \in fresh' => q \in fresh
  BY ExitSlotsAssumption
<1>3. Harmless(Watchdog)'
  BY <1>1 DEF Harmless, Turns
<1>4. Owners(s)' = Owners(s) /\ \A v \in Workers : On(v, s)' <=> On(v, s)
  BY <1>2 DEF Owners, On
<1>5. Window(s)'
  BY <1>2, <1>4 DEF Window, Relaunching, Turns
<1>6. Me'.pc = step /\ (step = "idle" \/ Me'.slot = s)
  BY DEF Turns
<1>7. \A q \in Threads \ {Watchdog} : thread'[q] = thread[q]
  BY DEF Turns
<1> QED BY <1>1, <1>2, <1>3, <1>5, <1>6, <1>7, ThreadMoves DEF StopSteps

LEMMA RedialDecideKept ==
    ASSUME DisableInv, RedialDecide(Watchdog)
    PROVE  SlotsInv'
<1>1. PICK s \in Slots : Me.slot = s /\ SlotInv(s) /\ TypeOK /\ Me \in ThreadRec
  BY WatchdogStart DEF RedialDecide, Me
<1>2. Me.pc = "redial" /\ UNCHANGED <<rt, reserved, worker, proc, routes>>
  BY DEF RedialDecide, Me
<1>3. Me.op # "redial"
  BY DEF DisableInv, SlotsInv, OnlyDisables
<1>4. CASE UNCHANGED <<row, fresh>> /\ StepTo(Watchdog, "start")
  <2>1. Turns("start", Me.op, s)
    BY <1>1, <1>4, GoesOn
  <2>2. Me.op \in {"none", "autoRedial", "recover", "revive", "inspect"}
    BY DEF DisableInv, SlotsInv, OnlyDisables
  <2> QED BY <1>1, <1>2, <1>4, <2>1, <2>2, WatchdogMoves DEF SlotInv, Window, Relaunching, StopSteps
<1>5. CASE Done(Watchdog) /\ UNCHANGED row /\ fresh' = fresh \ {Watchdog}
  <2>1. Turns("idle", "none", s)
    BY <1>1, <1>5, QuitsIdle
  <2> QED BY <1>1, <1>2, <1>5, <2>1, WatchdogMoves DEF StopSteps
<1> QED BY <1>3, <1>4, <1>5 DEF RedialDecide, Me

LEMMA StartKept ==
    ASSUME DisableInv, Start(Watchdog)
    PROVE  SlotsInv'
<1>1. PICK s \in Slots : /\ Me.slot = s /\ SlotInv(s) /\ TypeOK /\ Me \in ThreadRec
                         /\ Me.op \in {"none", "autoRedial", "recover", "revive", "inspect"}
                         /\ Watchdog \in Threads
  BY WatchdogStart DEF Start, Me
<1>2. Me.pc = "start" /\ UNCHANGED <<row, rt, reserved, worker, proc, routes>>
  BY DEF Start, Me
<1>3. CASE Done(Watchdog) /\ fresh' = fresh \ {Watchdog}
  <2>1. Turns("idle", "none", s)
    BY <1>1, <1>3, QuitsIdle
  <2> QED BY <1>1, <1>2, <1>3, <2>1, WatchdogMoves DEF StopSteps
<1>4. CASE /\ thread' = [thread EXCEPT ![Watchdog] = [@ EXCEPT !.pc = "startJoin", !.join = rt[s].worker]]
           /\ UNCHANGED fresh
  <2>1. /\ Me' = [Me EXCEPT !.pc = "startJoin", !.join = rt[s].worker]
        /\ \A q \in Threads \ {Watchdog} : thread'[q] = thread[q]
    BY <1>1, <1>4, ThreadSet DEF Me
  <2>2. Turns("startJoin", Me.op, s) /\ Me'.join = rt[s].worker
    BY <1>1, <2>1 DEF ThreadRec, Turns
  <2> QED BY <1>1, <1>2, <1>4, <2>2, WatchdogMoves DEF SlotInv, Window, Relaunching, StopSteps
<1> QED BY <1>1, <1>3, <1>4 DEF Start, Me

LEMMA StartLockKept ==
    ASSUME DisableInv, DisablesOnly, StartLock(Watchdog)
    PROVE  SlotsInv'
<1> USE DEF LateSteps
<1>1. PICK s \in Slots : /\ Me.slot = s /\ SlotInv(s) /\ TypeOK /\ Me \in ThreadRec
                         /\ Me.op \in {"none", "autoRedial", "recover", "revive", "inspect"}
                         /\ Watchdog \in Threads
  BY WatchdogStart DEF StartLock, Me
<1>2. /\ Me.pc = "startJoin" /\ UNCHANGED <<row, reserved, worker, proc, routes>>
      /\ Joined(Me.join) /\ Unlocked(s)
  BY <1>1 DEF StartLock, Me
<1>3. CASE Done(Watchdog) /\ fresh' = fresh \ {Watchdog} /\ UNCHANGED rt
  <2>1. Turns("idle", "none", s)
    BY <1>1, <1>3, QuitsIdle
  <2> QED BY <1>1, <1>2, <1>3, <2>1, WatchdogMoves DEF StopSteps
<1>4. CASE /\ row[s].enabled
           /\ rt' = [rt EXCEPT ![s] = [@ EXCEPT !.lock = Watchdog, !.worker = None, !.timer = FALSE,
                                !.listener = None, !.stop = FALSE, !.dialing = FALSE]]
           /\ fresh' = fresh \ {s}
           /\ thread' = [thread EXCEPT ![Watchdog] = [@ EXCEPT !.pc = "startLaunch", !.join = None]]
  <2>1. /\ Me' = [Me EXCEPT !.pc = "startLaunch", !.join = None]
        /\ \A q \in Threads \ {Watchdog} : thread'[q] = thread[q]
    BY <1>1, <1>4, ThreadSet DEF Me
  <2>2. Me'.pc = "startLaunch" /\ Me'.op = Me.op /\ Me'.slot = s
    BY <1>1, <2>1 DEF ThreadRec
  <2>3. /\ \A o \in Slots \ {s} : rt'[o] = rt[o]
        /\ rt'[s].process = rt[s].process /\ rt'[s].worker = None
    BY <1>1, <1>4 DEF TypeOK, RuntimeRec
  <2>4. /\ \A v \in Workers : v \in fresh' <=> v \in fresh
        /\ \A o \in Slots : o \in fresh' => o \in fresh /\ o # s
        /\ \A q \in Threads : q \in fresh' => q \in fresh
    BY <1>4, ExitSlotsAssumption
  <2>5. ASSUME NEW v \in Workers, On(v, s) PROVE v \notin fresh /\ worker[v].pc \in LateSteps
    <3>1. v \notin fresh /\ worker[v].pc \notin {"record", "teardown", "retire"}
      BY <1>1, <1>2, <2>5 DEF SlotInv, Window, Relaunching
    <3>2. Pursued(v, s) \/ Abandoned(v, s) => Me.join = v
      BY <1>1, <1>2 DEF Pursued, Abandoned, SlotInv, Window
    <3>3. Me.join = v => worker[v].pc \in LateSteps
      BY <1>2, <2>5, ExitSlotsAssumption DEF Joined, Alive, On, DisablesOnly
    <3> QED BY <1>1, <2>5, <3>1, <3>2, <3>3 DEF SlotInv, Left
  <2>6. Window(s)'
    BY <1>4, <2>2, <2>3, ExitSlotsAssumption DEF Window, Relaunching
  <2>7. Harmless(Watchdog)'
    BY <1>1, <2>2 DEF Harmless, Me
  <2>8. Me = thread[Watchdog] /\ Me' = thread'[Watchdog]
    BY DEF Me
  <2>9. \A o \in Slots : o \in fresh' => o \in fresh /\ (rt[o].timer => rt'[o].timer)
    BY <2>3, <2>4
  <2> QED BY <1>1, <1>2, <1>4, <2>1, <2>2, <2>3, <2>4, <2>5, <2>6, <2>7, <2>8, <2>9, ThreadMoves
<1> QED BY <1>1, <1>3, <1>4 DEF StartLock, Me

\* The scans begin an operation on what they have just seen.
LEMMA ScanKept ==
    ASSUME DisableInv, NEW s \in Slots, WatchdogScan(s)
    PROVE  SlotsInv'
<1>1. SlotInv(s) /\ TypeOK
  BY DEF DisableInv, OwnerInv, SlotsInv
<1>2. Me.pc = "idle" /\ UNCHANGED <<row, rt, reserved, worker, proc, routes>>
  BY DEF WatchdogScan, RecoverIdle, RecoverStale, ReviveScan, Me
<1>3. CASE RecoverIdle(s)
  <2>1. Turns("start", "recover", s)
    <3> DEFINE r == [IdleThread EXCEPT !.pc = "start", !.op = "recover", !.slot = s]
    <3>1. Me' = r /\ Turns(r.pc, r.op, r.slot)
      BY <1>1, <1>3, Begins DEF RecoverIdle
    <3>2. r.pc = "start" /\ r.op = "recover" /\ r.slot = s
      BY DEF IdleThread
    <3> QED BY <3>1, <3>2
  <2>2. s \notin fresh
    BY <1>1, <1>3 DEF RecoverIdle, SlotInv, Fenced
  <2>3. \A v \in Workers : rt[s].worker # v
    BY <1>1, <1>3, ExitSlotsAssumption DEF RecoverIdle, Alive, SlotInv, Employed, On
  <2>4. \A v \in Workers : On(v, s) => v \notin fresh /\ worker[v].pc \notin {"record", "teardown", "retire"}
    <3>1. Owners(s) = {}
      BY <2>3 DEF DisableInv, OwnerInv, OwnerAttends, Owners
    <3> QED BY <1>1, <2>3, <3>1 DEF SlotInv, Employed, Owners, On
  <2> QED BY <1>1, <1>2, <1>3, <2>1, <2>2, <2>4, WatchdogMoves DEF RecoverIdle, StopSteps
<1>4. CASE RecoverStale(s)
  <2>1. Turns("inspect", "inspect", s) /\ Me'.state = row[s].state
    <3> DEFINE r == [IdleThread EXCEPT !.pc = "inspect", !.op = "inspect", !.slot = s,
                                       !.state = row[s].state]
    <3>1. Me' = r /\ Turns(r.pc, r.op, r.slot)
      BY <1>1, <1>4, Begins DEF RecoverStale
    <3>2. r.pc = "inspect" /\ r.op = "inspect" /\ r.slot = s /\ r.state = row[s].state
      BY DEF IdleThread
    <3> QED BY <3>1, <3>2
  <2> QED BY <1>1, <1>2, <1>4, <2>1, WatchdogMoves DEF RecoverStale, StopSteps
<1>5. CASE ReviveScan(s)
  <2>1. Turns("revive", "revive", s)
    <3> DEFINE r == [IdleThread EXCEPT !.pc = "revive", !.op = "revive", !.slot = s]
    <3>1. Me' = r /\ Turns(r.pc, r.op, r.slot)
      BY <1>1, <1>5, Begins DEF ReviveScan
    <3>2. r.pc = "revive" /\ r.op = "revive" /\ r.slot = s
      BY DEF IdleThread
    <3> QED BY <3>1, <3>2
  <2> QED BY <1>1, <1>2, <1>5, <2>1, WatchdogMoves DEF ReviveScan, StopSteps
<1> QED BY <1>3, <1>4, <1>5 DEF WatchdogScan
\* A worker is launched for a slot nobody owns, by start_slot or a retry timer.
LEMMA LaunchKept ==
    ASSUME DisableInv, NEW s \in Slots, NEW w \in Workers, Unborn(w),
           worker' = [worker EXCEPT ![w] = [pc |-> "dial", slot |-> s, node |-> None]],
           row' = [row EXCEPT ![s].state = "connecting"],
           row[s].enabled \/ row[s].reason = "manual",
           Owners(s) = {}, \A v \in Workers : rt[s].worker # v,
           \A v \in Workers : v \in fresh' <=> v \in fresh \/ v = w,
           \A o \in Slots : o \in fresh' => o \in fresh /\ (o # s \/ rt'[o].timer),
           rt'[s].worker = w, rt'[s].process = rt[s].process,
           \A o \in Slots \ {s} : rt'[o] = rt[o],
           UNCHANGED <<reserved, proc, routes>>,
           \A v \in Workers : On(v, s) => worker[v].pc \notin {"record", "teardown", "retire"},
           \A q \in Threads : thread[q].slot = s => thread[q].pc \notin {"stopBump", "stopClose", "stopRoute"},
           \A q \in Threads : q \in fresh' => q \in fresh,
           \/ /\ UNCHANGED thread /\ row[s].enabled /\ row[s].state \notin Serving \cup {"idle", "disabled"}
              /\ Me.slot = s => Me.pc \notin Relaunching \cup {"startLaunch"}
           \/ Me.slot = s /\ Turns("idle", "none", s)
    PROVE  SlotsInv'
<1> USE DEF LateSteps
<1>1. SlotInv(s) /\ TypeOK /\ OnlyDisables /\ Ended
  BY DEF DisableInv, OwnerInv, SlotsInv
<1>2. /\ worker'[w].pc = "dial" /\ worker'[w].slot = s
      /\ \A v \in Workers \ {w} : worker'[v] = worker[v]
  BY <1>1 DEF TypeOK
<1>3. /\ row'[s].state = "connecting" /\ row'[s].enabled = row[s].enabled /\ row'[s].reason = row[s].reason
      /\ \A o \in Slots \ {s} : row'[o] = row[o]
  BY <1>1 DEF TypeOK, RowRec
<1>4. worker[w].pc = "done" /\ ~Running(w) /\ w \notin fresh /\ \A o \in Slots : rt[o].process # w
  BY <1>1 DEF Unborn, Ended, Running
<1>5. /\ \A q \in Threads \ {Watchdog} : thread'[q] = thread[q]
      /\ \/ Me'.pc = "idle" /\ Me'.op = "none"
         \/ /\ Me' = Me /\ row[s].enabled /\ row[s].state \notin Serving \cup {"idle", "disabled"}
            /\ Me.slot = s => Me.pc \notin Relaunching \cup {"startLaunch"}
  BY DEF Me, Turns
<1>6. /\ \A q \in Threads : thread'[q].slot = s => thread'[q].pc \notin {"stopBump", "stopClose", "stopRoute"}
      /\ Me' = thread'[Watchdog] /\ Watchdog \in Threads
  BY <1>5 DEF Me, Threads
<1>7. \A v \in Workers : Running(v)' <=> Running(v)
  BY DEF Running
<1>8. Owners(s)' = {w}
  BY <1>2 DEF Owners
<1>9. \A v \in Workers : /\ On(v, s)' => v = w \/ (On(v, s) /\ worker'[v] = worker[v])
                         /\ ~Pursued(v, s) /\ ~Abandoned(v, s)
  BY <1>2 DEF On, Pursued, Abandoned
<1>10. SlotInv(s)'
  <2>1. Employed(s)'
    BY <1>1, <1>2, <1>9 DEF SlotInv, Employed, On
  <2>2. Left(s)'
    BY <1>1, <1>2, <1>9 DEF SlotInv, Left
  <2>3. Fenced(s)'
    BY <1>1, <1>2, <1>3, <1>4, <1>5, <1>6, <1>7, <1>8 DEF SlotInv, Fenced, Serving
  <2>4. Failing(s)' /\ Unserved(s)' /\ Guarded(s)' /\ Held(s)'
    BY <1>2, <1>3, <1>8, <1>9 DEF Failing, Unserved, Guarded, Held, Serving, Installed, HoldsNode
  <2>5. Window(s)'
    BY <1>3, <1>5 DEF Window, Relaunching
  <2>6. Inspected(s)'
    <3>1. ~(Me'.slot = s /\ Me'.pc = "inspect" /\ Watchdog \in fresh' /\ Me'.state \in Serving)
      BY <1>1, <1>5, <1>6 DEF SlotInv, Inspected
    <3> QED BY <1>6, <3>1 DEF Inspected
  <2>7. \A v \in Workers : rt[s].process = v => ~Running(v)
    <3>1. ~Closing(s)
      BY DEF Closing
    <3> QED BY <1>1, <1>9, <3>1 DEF SlotInv, Registered, On
  <2>8. Registered(s)'
    BY <1>1, <1>2, <1>4, <1>7, <1>9, <2>7 DEF SlotInv, Registered, On
  <2> QED BY <2>1, <2>2, <2>3, <2>4, <2>5, <2>6, <2>8 DEF SlotInv
<1>11. ASSUME NEW o \in Slots \ {s} PROVE SlotInv(o)'
  <2>1. \A q \in Threads : Acting(q, o) \/ Acting(q, o)' => ThreadKept(q, o)
    BY <1>5, <1>6 DEF Acting, ThreadKept, Me, StopSteps, Turns
  <2>2. SlotInv(o) /\ (o \in fresh' => o \in fresh) /\ rt'[o] = rt[o]
    BY DEF DisableInv, SlotsInv
  <2>3. \A v \in Workers : worker[v].slot = o \/ worker'[v].slot = o =>
          \/ worker'[v] = worker[v] /\ (v \in fresh' <=> v \in fresh)
          \/ worker[v].pc = "done" /\ v \notin fresh /\ worker'[v].slot # o
    BY <1>2, <1>4
  <2> QED BY <1>2, <1>3, <1>4, <1>7, <2>1, <2>2, <2>3, UntouchedKept DEF Untouched
<1>12. Ended'
  BY <1>1, <1>2, <1>4, <1>7 DEF Ended
<1>13. OnlyDisables'
  BY <1>1, <1>5, ExitSlotsAssumption DEF OnlyDisables, Threads
<1> QED BY <1>10, <1>11, <1>12, <1>13 DEF SlotsInv

LEMMA StartLaunchKept ==
    ASSUME DisableInv, StartLaunch(Watchdog)
    PROVE  SlotsInv'
<1>1. PICK s \in Slots : Me.slot = s /\ SlotInv(s) /\ TypeOK /\ Watchdog \in Threads
  BY WatchdogStart DEF StartLaunch, Me
<1>2. PICK w \in Workers :
         /\ Unborn(w)
         /\ worker' = [worker EXCEPT ![w] = [pc |-> "dial", slot |-> s, node |-> None]]
         /\ rt' = [rt EXCEPT ![s] = [@ EXCEPT !.worker = w, !.lock = None]]
         /\ fresh' = (fresh \ {Watchdog}) \cup {w}
  BY <1>1 DEF StartLaunch, Me
<1>3. /\ Me.pc = "startLaunch" /\ row' = [row EXCEPT ![s].state = "connecting"]
      /\ UNCHANGED <<reserved, proc, routes>>
  BY <1>1 DEF StartLaunch, Me
<1>4. Turns("idle", "none", s)
  BY <1>1, QuitsIdle DEF StartLaunch
<1>5. /\ rt'[s].worker = w /\ rt'[s].process = rt[s].process /\ rt'[s].timer = rt[s].timer
      /\ \A o \in Slots \ {s} : rt'[o] = rt[o]
  BY <1>1, <1>2 DEF TypeOK, RuntimeRec
<1>6. /\ Owners(s) = {} /\ \A v \in Workers : rt[s].worker # v
      /\ row[s].enabled \/ row[s].reason = "manual"
  BY <1>1, <1>3 DEF SlotInv, Fenced, Window, DisableInv, OwnerInv, LockExcludesOwners, Me
<1>7. /\ \A v \in Workers : v \in fresh' <=> v \in fresh \/ v = w
      /\ \A o \in Slots : o \in fresh' => o \in fresh
      /\ \A q \in Threads : q \in fresh' => q \in fresh
  BY <1>2, FreshRange, ExitSlotsAssumption
<1>8. \A v \in Workers : On(v, s) => worker[v].pc \notin {"record", "teardown", "retire"}
  BY <1>1, <1>3, LockOfThread DEF Me
<1>9. \A q \in Threads : thread[q].slot = s => thread[q].pc \notin {"stopBump", "stopClose", "stopRoute"}
  BY <1>1, <1>3, LockOfThread DEF Me
<1>10. \A o \in Slots : o \in fresh' => o \in fresh /\ (o # s \/ rt'[o].timer)
  BY <1>1, <1>5, <1>7 DEF SlotInv, Fenced
<1>11. UNCHANGED <<reserved, proc, routes>> /\ Unborn(w)
  BY <1>2, <1>3
<1> QED BY <1>1, <1>2, <1>3, <1>4, <1>5, <1>6, <1>7, <1>8, <1>9, <1>10, <1>11, LaunchKept

\* Nothing changes that the invariant reads.
LEMMA NothingKept ==
    ASSUME DisableInv, UNCHANGED <<row, reserved, worker, thread>>,
           \A o \in Slots : /\ rt'[o].worker = rt[o].worker /\ rt'[o].process = rt[o].process
                            /\ rt'[o].stop = rt[o].stop
                            /\ o \in fresh' => o \in fresh /\ rt'[o].timer = rt[o].timer
                            /\ "closed" \in routes[o] => "closed" \in routes'[o],
           \A v \in Workers : (v \in fresh' <=> v \in fresh) /\ (Running(v)' => Running(v)),
           \A q \in Threads : q \in fresh' => q \in fresh
    PROVE  SlotsInv'
<1>1. ASSUME NEW o \in Slots PROVE SlotInv(o)'
  BY UntouchedKept DEF Untouched, ThreadKept, DisableInv, SlotsInv
<1>2. OnlyDisables' /\ Ended'
  BY DEF DisableInv, SlotsInv, OnlyDisables, Ended, Me
<1> QED BY <1>1, <1>2 DEF SlotsInv

LEMMA RetryFiresKept ==
    ASSUME DisableInv, NEW s \in Slots, RetryFires(s)
    PROVE  SlotsInv'
<1>1. SlotInv(s) /\ TypeOK /\ Unlocked(s) /\ UNCHANGED <<reserved, proc, routes, thread>>
  BY DEF RetryFires, DisableInv, OwnerInv, SlotsInv
<1>2. CASE /\ rt' = [rt EXCEPT ![s].timer = FALSE] /\ fresh' = fresh \ {s}
           /\ UNCHANGED <<row, worker>>
  <2>1. /\ rt'[s].worker = rt[s].worker /\ rt'[s].process = rt[s].process /\ rt'[s].stop = rt[s].stop
        /\ \A o \in Slots \ {s} : rt'[o] = rt[o]
    BY <1>1, <1>2 DEF TypeOK, RuntimeRec
  <2>2. \A v \in Workers : v \in fresh' <=> v \in fresh
    BY <1>2, ExitSlotsAssumption
  <2> QED BY <1>1, <1>2, <2>1, <2>2, NothingKept DEF Running
<1>3. CASE /\ row[s].enabled /\ s \in fresh /\ row[s].state = "failed"
           /\ ~Alive(rt[s].worker)
           /\ row' = [row EXCEPT ![s].state = "connecting"]
           /\ \E w \in Workers :
               /\ Unborn(w)
               /\ worker' = [worker EXCEPT ![w] = [pc |-> "dial", slot |-> s, node |-> None]]
               /\ rt' = [rt EXCEPT ![s] = [@ EXCEPT !.timer = FALSE, !.listener = None,
                                   !.stop = FALSE, !.dialing = FALSE, !.worker = w]]
               /\ fresh' = (fresh \ {s}) \cup {w}
  <2>1. PICK w \in Workers :
               /\ Unborn(w)
               /\ worker' = [worker EXCEPT ![w] = [pc |-> "dial", slot |-> s, node |-> None]]
               /\ rt' = [rt EXCEPT ![s] = [@ EXCEPT !.timer = FALSE, !.listener = None,
                                   !.stop = FALSE, !.dialing = FALSE, !.worker = w]]
               /\ fresh' = (fresh \ {s}) \cup {w}
    BY <1>3
  <2>2. /\ rt'[s].worker = w /\ rt'[s].process = rt[s].process
        /\ \A o \in Slots \ {s} : rt'[o] = rt[o]
    BY <1>1, <2>1 DEF TypeOK, RuntimeRec
  <2>3. /\ \A v \in Workers : v \in fresh' <=> v \in fresh \/ v = w
        /\ \A o \in Slots : o \in fresh' => o \in fresh /\ o # s
        /\ \A q \in Threads : q \in fresh' => q \in fresh
    BY <2>1, FreshRange, ExitSlotsAssumption
  <2>4. \A v \in Workers : rt[s].worker # v
    BY <1>1, <1>3, ExitSlotsAssumption DEF Alive, SlotInv, Employed, On
  <2>5. Owners(s) = {}
    BY <2>4 DEF DisableInv, OwnerInv, OwnerAttends, Owners
  <2>6. /\ \A v \in Workers : On(v, s) => worker[v].pc \notin {"record", "teardown", "retire"}
        /\ \A q \in Threads : thread[q].slot = s =>
             thread[q].pc \notin {"stopBump", "stopClose", "stopRoute", "startLaunch"}
    <3>1. \A x \in Workers \cup Threads : rt[s].lock # x
      BY <1>1, ExitSlotsAssumption DEF Unlocked, Threads
    <3> QED BY <3>1 DEF DisableInv, OwnerInv, LockHeld, On
  <2>7. Me.slot = s => Me.pc \notin Relaunching \cup {"startLaunch"}
    BY <1>1, <1>3, <2>6 DEF SlotInv, Window, Me, Threads
  <2>8. row[s].state \notin Serving \cup {"idle", "disabled"}
    BY <1>3 DEF Serving
  <2>9. \A o \in Slots : o \in fresh' => o \in fresh /\ (o # s \/ rt'[o].timer)
    BY <2>3
  <2>10. \A q \in Threads : thread[q].slot = s => thread[q].pc \notin {"stopBump", "stopClose", "stopRoute"}
    BY <2>6
  <2>11. UNCHANGED <<reserved, proc, routes>> /\ UNCHANGED thread /\ Unborn(w)
    BY <1>1, <2>1
  <2> QED BY <1>3, <2>1, <2>2, <2>3, <2>4, <2>5, <2>6, <2>7, <2>8, <2>9, <2>10, <2>11, LaunchKept
<1> QED BY <1>2, <1>3 DEF RetryFires

LEMMA FaultKept ==
    ASSUME DisableInv, Fault \/ \E n \in Nodes : CoolDown(n)
    PROVE  SlotsInv'
<1>1. CASE \E s \in Slots : ListenerDies(s)
  BY <1>1, NothingKept DEF ListenerDies, Running
<1>2. CASE \E n \in Nodes : CoolDown(n)
  BY <1>2, NothingKept DEF CoolDown, Running
<1>3. ASSUME NEW w \in Workers, ProcessDies(w) PROVE SlotsInv'
  <2>1. \A o \in Slots : "closed" \in routes[o] => "closed" \in routes'[o]
    BY <1>3 DEF ProcessDies, WithoutTunnel, DisableInv, OwnerInv, TypeOK
  <2>2. \A v \in Workers : Running(v)' => Running(v)
    BY <1>3 DEF ProcessDies, Running, Killed, DisableInv, OwnerInv, TypeOK
  <2> QED BY <1>3, <2>1, <2>2, NothingKept DEF ProcessDies
<1> QED BY <1>1, <1>2, <1>3 DEF Fault

LEMMA InspectKept ==
    ASSUME DisableInv, Inspect
    PROVE  SlotsInv'
<1>1. PICK s \in Slots : /\ Me.slot = s /\ SlotInv(s) /\ TypeOK /\ Me \in ThreadRec
                         /\ Me.op \in {"none", "autoRedial", "recover", "revive", "inspect"}
  BY WatchdogStart DEF Inspect, Me
<1>2. Me.pc = "inspect" /\ UNCHANGED <<reserved, worker, proc, routes>>
  BY DEF Inspect, Me
<1>3. PICK step \in {"confirm", "repair", "idle"}, op \in {"none", "autoRedial", "recover", "revive", "inspect"} :
         Turns(step, op, s)
  BY <1>1, QuitsIdle, GoesOn DEF Inspect
<1>4. \A h : h # Watchdog => (h \in fresh' <=> h \in fresh)
  BY DEF Inspect, WatchdogQuits
<1>5. CASE UNCHANGED <<row, rt>>
  BY <1>1, <1>2, <1>3, <1>4, <1>5, WatchdogMoves DEF StopSteps
<1>6. CASE /\ NeedsRepair(s, Me.state) /\ ~Stale(Watchdog)
           /\ row' = [row EXCEPT ![s].state = "degraded"]
           /\ \/ rt' = [rt EXCEPT ![s] = [@ EXCEPT !.listener = None, !.lock = Watchdog]]
              \/ rt' = [rt EXCEPT ![s].listener = None]
  <2>1. Watchdog \in fresh /\ Me.state \in Serving /\ ~rt[s].stop
    <3>1. SlotOf(Watchdog) = s
      BY <1>1, ExitSlotsAssumption DEF SlotOf, Me
    <3> QED BY <1>6, <3>1 DEF NeedsRepair, Stale
  <2>2. row[s].state \in Serving
    BY <1>1, <1>2, <2>1 DEF SlotInv, Inspected
  <2>3. /\ row'[s].enabled = row[s].enabled /\ row'[s].reason = row[s].reason
        /\ {row'[s].state, row[s].state} \subseteq Serving
        /\ \A o \in Slots \ {s} : row'[o] = row[o]
    BY <1>1, <1>6, <2>2 DEF TypeOK, RowRec, Serving
  <2>4. /\ rt'[s].process = rt[s].process /\ rt'[s].worker = rt[s].worker
        /\ rt'[s].stop = rt[s].stop /\ rt'[s].timer = rt[s].timer
        /\ \A o \in Slots \ {s} : rt'[o] = rt[o]
    <3>1. CASE rt' = [rt EXCEPT ![s] = [@ EXCEPT !.listener = None, !.lock = Watchdog]]
      BY <1>1, <3>1 DEF TypeOK, RuntimeRec
    <3>2. CASE rt' = [rt EXCEPT ![s].listener = None]
      BY <1>1, <3>2 DEF TypeOK, RuntimeRec
    <3> QED BY <1>6, <3>1, <3>2
  <2> QED BY <1>1, <1>2, <1>3, <1>4, <2>3, <2>4, WatchdogMoves DEF StopSteps
<1> QED BY <1>1, <1>5, <1>6 DEF Inspect, Me

LEMMA RepairKept ==
    ASSUME DisableInv, Repair
    PROVE  SlotsInv'
<1>1. PICK s \in Slots : Me.slot = s /\ SlotInv(s) /\ TypeOK
  BY WatchdogStart DEF Repair, Me
<1>2. Me.pc = "repair" /\ UNCHANGED <<row, reserved, worker, proc, routes>> /\ WatchdogQuits
  BY DEF Repair, Me
<1>3. Turns("idle", "none", s) /\ \A h : h # Watchdog => (h \in fresh' <=> h \in fresh)
  BY <1>1, <1>2, QuitsIdle DEF WatchdogQuits
<1>4. /\ rt'[s].process = rt[s].process /\ rt'[s].worker = rt[s].worker
      /\ rt'[s].stop = rt[s].stop /\ rt'[s].timer = rt[s].timer
      /\ \A o \in Slots \ {s} : rt'[o] = rt[o]
  <2>1. CASE rt' = [rt EXCEPT ![s].lock = None]
    BY <1>1, <2>1 DEF TypeOK, RuntimeRec
  <2>2. CASE rt' = [rt EXCEPT ![s] = [@ EXCEPT !.lock = None, !.listener = Repaired]]
    BY <1>1, <2>2 DEF TypeOK, RuntimeRec
  <2> QED BY <1>1, <2>1, <2>2 DEF Repair, Me
<1> QED BY <1>1, <1>2, <1>3, <1>4, WatchdogMoves DEF StopSteps

LEMMA ConfirmRedialKept ==
    ASSUME DisableInv, ConfirmRedial
    PROVE  SlotsInv'
<1>1. PICK s \in Slots : Me.slot = s /\ SlotInv(s) /\ TypeOK
  BY WatchdogStart DEF ConfirmRedial, Me
<1>2. /\ Me.pc = "confirm" /\ UNCHANGED <<row, reserved, worker, proc, routes>>
      /\ fresh' = fresh \ {Watchdog}
  BY DEF ConfirmRedial, Me
<1>3. \/ Turns("stopLock", "autoRedial", s) /\ row[s].enabled
      \/ Turns("idle", "none", s)
  <2>1. CASE Done(Watchdog)
    BY <1>1, <2>1, QuitsIdle
  <2>2. CASE thread' = [thread EXCEPT ![Watchdog] =
                 [IdleThread EXCEPT !.pc = "stopLock", !.op = "autoRedial", !.slot = s]]
             /\ row[s].enabled
    <3> DEFINE r == [IdleThread EXCEPT !.pc = "stopLock", !.op = "autoRedial", !.slot = s]
    <3>1. Turns(r.pc, r.op, r.slot)
      BY <1>1, <2>2, Begins
    <3>2. r.pc = "stopLock" /\ r.op = "autoRedial" /\ r.slot = s
      BY DEF IdleThread
    <3> QED BY <2>2, <3>1, <3>2
  <2> QED BY <1>1, <2>1, <2>2 DEF ConfirmRedial, Me
<1>4. /\ rt'[s].process = rt[s].process /\ rt'[s].worker = rt[s].worker
      /\ rt'[s].stop = rt[s].stop /\ rt'[s].timer = rt[s].timer
      /\ \A o \in Slots \ {s} : rt'[o] = rt[o]
  <2>1. CASE rt' = rt
    BY <2>1
  <2>2. ASSUME NEW p, rt' = [rt EXCEPT ![s].preferred = p]
        PROVE  /\ rt'[s].process = rt[s].process /\ rt'[s].worker = rt[s].worker
               /\ rt'[s].stop = rt[s].stop /\ rt'[s].timer = rt[s].timer
               /\ \A o \in Slots \ {s} : rt'[o] = rt[o]
    BY <1>1, <2>2 DEF TypeOK, RuntimeRec
  <2> QED BY <1>1, <2>1, <2>2 DEF ConfirmRedial, Me
<1> QED BY <1>1, <1>2, <1>3, <1>4, WatchdogMoves DEF StopSteps

LEMMA ReviveKept ==
    ASSUME DisableInv, Revive
    PROVE  SlotsInv'
<1> USE DEF LateSteps
<1>1. PICK s \in Slots : /\ Me.slot = s /\ SlotInv(s) /\ TypeOK /\ Me \in ThreadRec
                         /\ Me.op \in {"none", "autoRedial", "recover", "revive", "inspect"}
                         /\ Watchdog \in Threads
  BY WatchdogStart DEF Revive, Me
<1>2. Me.pc = "revive" /\ UNCHANGED <<rt, reserved, worker, proc, routes>> /\ Unlocked(s)
  BY <1>1 DEF Revive, Me
<1>3. CASE WatchdogQuits /\ UNCHANGED row
  <2>1. Turns("idle", "none", s) /\ \A h : h # Watchdog => (h \in fresh' <=> h \in fresh)
    BY <1>1, <1>3, QuitsIdle DEF WatchdogQuits
  <2> QED BY <1>1, <1>2, <1>3, <2>1, WatchdogMoves DEF StopSteps
<1>4. CASE /\ row[s].reason = "automatic" /\ row' = EnabledRow(s) /\ fresh' = Bumped(s)
           /\ StepTo(Watchdog, "start")
  <2>1. Turns("start", Me.op, s)
    BY <1>1, <1>4, GoesOn
  <2>2. Harmless(Watchdog)'
    BY <1>1, <2>1 DEF Harmless, Turns, Me
  <2>3. row'[s].state = "idle" /\ row'[s].enabled /\ \A o \in Slots \ {s} : row'[o] = row[o]
    BY <1>1, <1>4 DEF EnabledRow, TypeOK, RowRec
  <2>4. ~row[s].enabled /\ Owners(s) = {}
    BY <1>1, <1>4 DEF SlotInv, Fenced, DisableInv, ReasonInv
  <2>5. /\ \A v \in Workers : v \in fresh' <=> v \in fresh /\ worker[v].slot # s
        /\ \A q \in Threads : q \in fresh' => q \in fresh
        /\ \A o \in Slots : o \in fresh' => o \in fresh /\ o # s
    BY <1>4, FreshRange, ExitSlotsAssumption DEF Bumped, SlotOf
  <2>6. Owners(s)' = {}
    BY <1>2, <2>5 DEF Owners
  <2>7. /\ \A v \in Workers : On(v, s) => worker[v].pc \notin {"record", "teardown", "retire"}
        /\ \A q \in Threads : thread[q].slot = s =>
             thread[q].pc \notin {"stopBump", "stopClose", "stopRoute", "startLaunch"}
    <3>1. \A x \in Workers \cup Threads : rt[s].lock # x
      BY <1>2, ExitSlotsAssumption DEF Unlocked, Threads
    <3> QED BY <3>1 DEF DisableInv, OwnerInv, LockHeld, On
  <2>8. /\ \A q \in Threads \ {Watchdog} : thread'[q] = thread[q]
        /\ Me'.pc = "start" /\ Me'.slot = s /\ Me' = thread'[Watchdog]
    BY <2>1 DEF Turns, Me
  <2>9. \A q \in Threads : thread'[q].slot = s =>
             thread'[q].pc \notin {"stopBump", "stopClose", "stopRoute", "startLaunch"}
    BY <2>7, <2>8
  <2>10. \A v \in Workers : /\ On(v, s)' <=> On(v, s)
                            /\ Running(v)' <=> Running(v)
                            /\ ~Abandoned(v, s)
                            /\ Pursued(v, s) => Pursued(v, s)'
                            /\ On(v, s) /\ v \in fresh => worker[v].pc = "schedule"
    BY <1>1, <1>2, <1>4, <2>4, <2>8 DEF On, Running, Abandoned, Pursued, Owners, Me
  <2>11. Left(s)' /\ Employed(s)'
    BY <1>1, <1>2, <2>5, <2>10 DEF SlotInv, Left, Employed, On
  <2>12. Fenced(s)'
    BY <2>3, <2>5, <2>6, <2>9 DEF Fenced
  <2>13. Failing(s)'
    BY <1>2, <2>7, <2>10 DEF Failing
  <2>14. Window(s)'
    BY <1>2, <2>5, <2>7, <2>8, <2>10 DEF Window, On
  <2>15. Unserved(s)' /\ Guarded(s)' /\ Inspected(s)' /\ Held(s)'
    BY <2>3, <2>6, <2>8, <2>9 DEF Unserved, Guarded, Inspected, Held, Serving
  <2>16. Registered(s)'
    <3>1. ~Closing(s)
      BY <2>7 DEF Closing
    <3> QED BY <1>1, <1>2, <2>4, <2>10, <3>1 DEF SlotInv, Registered
  <2>17. SlotInv(s)'
    BY <2>11, <2>12, <2>13, <2>14, <2>15, <2>16 DEF SlotInv
  <2> QED BY <1>1, <1>2, <2>2, <2>3, <2>5, <2>8, <2>10, <2>17, ThreadFrame DEF Me
<1> QED BY <1>1, <1>3, <1>4 DEF Revive, Me
-----------------------------------------------------------------------------
\* Whoever enables a slot clears the reason it was disabled for.
LEMMA ReasonKept ==
    ASSUME DisableInv, DisablesOnly, [Next]_vars
    PROVE  ReasonInv'
<1>1. TypeOK /\ ReasonInv
  BY DEF DisableInv, OwnerInv
<1>2. ASSUME NEW s \in Slots, NEW r, r.reason = "automatic" => ~r.enabled,
             row' = [row EXCEPT ![s] = r]
      PROVE  ReasonInv'
  BY <1>1, <1>2 DEF TypeOK, ReasonInv
<1>3. CASE UNCHANGED row
  BY <1>1, <1>3 DEF ReasonInv
<1>4. ASSUME NEW s \in Slots, NEW state, row' = [row EXCEPT ![s].state = state]
      PROVE  ReasonInv'
  BY <1>1, <1>4 DEF TypeOK, RowRec, ReasonInv
<1>5. ASSUME NEW w \in Workers, WorkerStep(w) PROVE ReasonInv'
  <2>1. worker[w].pc # "done" => worker[w].slot \in Slots
    BY DEF DisableInv, OwnerInv, Placed
  <2>2. CASE CommitWrite(w)
    <3>1. CASE w \in fresh
      <4>1. PICK state \in Serving : row' = [row EXCEPT ![worker[w].slot] =
                [@ EXCEPT !.state = state, !.entry = worker[w].node, !.streak = 0]]
        BY <2>2, <3>1 DEF CommitWrite
      <4>2. worker[w].slot \in Slots
        BY <2>1, <2>2 DEF CommitWrite
      <4> QED BY <1>1, <4>1, <4>2 DEF TypeOK, RowRec, ReasonInv
    <3> QED BY <1>3, <2>2, <3>1 DEF CommitWrite
  <2>3. CASE ProbeOutcome(w)
    BY <1>3, <1>4, <2>1, <2>3 DEF ProbeOutcome
  <2>4. CASE RecordFailure(w)
    <3> DEFINE s == worker[w].slot
               streak == IF row[s].streak < FailureLimit THEN row[s].streak + 1 ELSE FailureLimit
               retry == streak < FailureLimit
               r == [enabled |-> retry, state |-> IF retry THEN "failed" ELSE "disabled",
                     reason |-> IF retry THEN "none" ELSE "automatic",
                     streak |-> streak, entry |-> None]
    <3>1. row' = [row EXCEPT ![s] = r] /\ s \in Slots
      BY <2>1, <2>4 DEF RecordFailure
    <3>2. r.reason = "automatic" => ~r.enabled
      OBVIOUS
    <3> HIDE DEF r
    <3> QED BY <1>2, <3>1, <3>2
  <2>5. CASE Teardown(w)
    BY <1>3, <1>4, <2>1, <2>5 DEF Teardown
  <2>6. CASE UNCHANGED row
    BY <1>3, <2>6
  <2> QED BY <1>5, <2>2, <2>3, <2>4, <2>5, <2>6
    DEF WorkerStep, DialCheck, AcquireDial, TakePreferred, ReserveNode, CheckBeforeSpawn, Spawn,
        Adopt, AwaitTunnel, InstallRoutes, VerifyEgress, OpenListener, CommitCheck, Publish,
        HealthCheck, ExceptHandler, HandleFailure, ScheduleRetry, Finally, Cleanup, Reclaim, Disown
<1>6. ASSUME NEW s \in Slots, row' = EnabledRow(s) PROVE ReasonInv'
  BY <1>1, <1>6 DEF EnabledRow, TypeOK, RowRec, ReasonInv
<1>7. ASSUME NEW t \in Threads, ThreadStep(t) PROVE ReasonInv'
  <2>1. thread[t].pc # "idle" => thread[t].slot \in Slots
    BY DEF DisableInv, OwnerInv, Placed
  <2>2. CASE StopBump(t)
    <3>1. CASE UNCHANGED row
      BY <1>3, <3>1
    <3>2. CASE row' = [row EXCEPT ![thread[t].slot] =
                  [@ EXCEPT !.enabled = TRUE, !.state = "idle", !.reason = "none"]]
      BY <1>1, <2>1, <2>2, <3>2 DEF TypeOK, RowRec, ReasonInv, StopBump
    <3> QED BY <2>2, <3>1, <3>2 DEF StopBump
  <2>3. CASE StopRoute(t)
    <3>1. CASE UNCHANGED row
      BY <1>3, <3>1
    <3>2. CASE row' = [row EXCEPT ![thread[t].slot] = [@ EXCEPT !.state = "idle", !.entry = None]]
      BY <1>1, <2>1, <2>3, <3>2 DEF TypeOK, RowRec, ReasonInv, StopRoute
    <3> QED BY <2>3, <3>1, <3>2 DEF StopRoute
  <2>4. CASE RedialDecide(t)
    BY <1>3, <1>6, <2>1, <2>4 DEF RedialDecide
  <2>5. CASE StartLaunch(t)
    BY <1>4, <2>1, <2>5 DEF StartLaunch
  <2>6. CASE DisableWrite(t)
    <3>1. row' = [row EXCEPT ![thread[t].slot] =
                    [@ EXCEPT !.enabled = FALSE, !.state = "disabled", !.reason = "manual"]]
      BY <2>6 DEF DisableWrite
    <3> QED BY <1>1, <2>1, <2>6, <3>1 DEF TypeOK, RowRec, ReasonInv, DisableWrite
  <2>7. CASE UNCHANGED row
    BY <1>3, <2>7
  <2>8. thread[t].pc \notin {"connect", "enable", "configure", "configureWrite"}
    BY DEF DisableInv, SlotsInv, OnlyDisables, Me, Threads, StopSteps
  <2> QED BY <1>7, <2>2, <2>3, <2>4, <2>5, <2>6, <2>7, <2>8
    DEF ThreadStep, StopLock, StopClose, StopJoin, ConnectDecide, EnableWrite,
        ConfigureRead, ConfigureWrite, Start, StartLock
<1>8. thread[Watchdog].pc # "idle" => thread[Watchdog].slot \in Slots
  BY DEF DisableInv, OwnerInv, Placed, Threads
<1>9. ASSUME WatchdogStep PROVE ReasonInv'
  <2>1. CASE Inspect
    BY <1>3, <1>4, <1>8, <2>1 DEF Inspect
  <2>2. CASE Revive
    BY <1>3, <1>6, <1>8, <2>2 DEF Revive
  <2> QED BY <1>3, <1>9, <2>1, <2>2 DEF WatchdogStep, Repair, ConfirmRedial
<1>10. ASSUME NEW s \in Slots, RetryFires(s) PROVE ReasonInv'
  BY <1>3, <1>4, <1>10 DEF RetryFires
<1>11. CASE \/ UNCHANGED vars \/ Fault \/ \E s \in Slots : WatchdogScan(s)
            \/ \E n \in Nodes : CoolDown(n)
            \/ \E u \in Users, s \in Slots : UserRequest(u, s)
  BY <1>3, <1>11 DEF vars, Fault, ProcessDies, ListenerDies, WatchdogScan, RecoverIdle, RecoverStale,
     ReviveScan, CoolDown, UserRequest, RequestRedial, RequestConnect, RequestDisable, RequestEnable,
     RequestConfigure, Request
<1> QED BY <1>5, <1>7, <1>9, <1>10, <1>11 DEF Next

LEMMA NextKept ==
    ASSUME DisableInv, DisablesOnly, [Next]_vars
    PROVE  DisableInv'
<1>1. OwnerInv'
  BY NextOwners DEF DisableInv
<1>2. ReasonInv'
  BY ReasonKept
<1>3. ASSUME NEW w \in Workers, WorkerStep(w) PROVE SlotsInv'
  <2>1. worker[w].slot = worker[w].slot
    OBVIOUS
  <2> QED
    BY <1>3, <2>1, QuietWorker, TakePreferredKept, ReserveNodeKept, SpawnKept, AdoptKept, InstallRoutesKept,
       CommitWriteKept, ProbeOutcomeKept, HandleFailureKept, RecordFailureKept, TeardownKept,
       ScheduleRetryKept, CleanupKept, ReclaimKept, DisownKept
    DEF WorkerStep
<1>4. ASSUME NEW u \in Users, ThreadStep(u) PROVE SlotsInv'
  <2>1. u \in Threads /\ thread[u].pc \in StopSteps \cup {"disable"}
    BY <1>4 DEF DisableInv, SlotsInv, OnlyDisables, Threads, ThreadStep, StopLock, StopBump, StopClose,
       StopRoute, StopJoin, RedialDecide, ConnectDecide, EnableWrite, DisableWrite, ConfigureRead,
       ConfigureWrite, Start, StartLock, StartLaunch, StopSteps
  <2>2. StopLock(u) \/ StopBump(u) \/ StopClose(u) \/ StopRoute(u) \/ StopJoin(u) \/ DisableWrite(u)
    BY <1>4, <2>1 DEF ThreadStep, RedialDecide, ConnectDecide, EnableWrite, ConfigureRead,
       ConfigureWrite, Start, StartLock, StartLaunch, StopSteps
  <2> QED BY <2>1, <2>2, StopLockKept, StopBumpKept, StopCloseKept, StopRouteKept, StopJoinKept,
             DisableWriteKept
<1>5. ASSUME ThreadStep(Watchdog) PROVE SlotsInv'
  <2>1. Watchdog \in Threads /\ thread[Watchdog].pc \notin {"connect", "enable", "disable", "configure", "configureWrite"}
    BY DEF DisableInv, SlotsInv, OnlyDisables, Threads, Me
  <2>2. ~(\/ ConnectDecide(Watchdog) \/ EnableWrite(Watchdog) \/ DisableWrite(Watchdog)
          \/ ConfigureRead(Watchdog) \/ ConfigureWrite(Watchdog))
    BY <2>1 DEF ConnectDecide, EnableWrite, DisableWrite, ConfigureRead, ConfigureWrite
  <2> QED BY <1>5, <2>1, <2>2, StopLockKept, StopBumpKept, StopCloseKept, StopRouteKept, StopJoinKept,
             RedialDecideKept, StartKept, StartLockKept, StartLaunchKept
          DEF ThreadStep
<1>6. ASSUME UNCHANGED vars PROVE SlotsInv'
  BY <1>6, NothingKept DEF vars, Running
<1>7. ASSUME WatchdogStep PROVE SlotsInv'
  BY <1>7, InspectKept, RepairKept, ConfirmRedialKept, ReviveKept DEF WatchdogStep
<1>8. ASSUME NEW s \in Slots, WatchdogScan(s) \/ RetryFires(s) PROVE SlotsInv'
  BY <1>8, ScanKept, RetryFiresKept
<1>9. ASSUME Fault \/ \E n \in Nodes : CoolDown(n) PROVE SlotsInv'
  BY <1>9, FaultKept
<1>10. ASSUME NEW u \in Users, NEW s \in Slots, UserRequest(u, s) PROVE SlotsInv'
  BY <1>10, RequestKept
<1>11. SlotsInv'
  BY <1>3, <1>4, <1>5, <1>6, <1>7, <1>8, <1>9, <1>10 DEF Next, Threads
<1> QED BY <1>1, <1>2, <1>11 DEF DisableInv

LEMMA InitKept == Init => DisableInv
<1> SUFFICES ASSUME Init PROVE DisableInv
  OBVIOUS
<1>1. OwnerInv /\ TypeOK
  BY InitOwners DEF OwnerInv
<1>2. /\ \A w \in Workers : worker[w].pc = "done" /\ ~Running(w)
      /\ fresh = {} /\ \A t \in Threads : thread[t].pc = "idle" /\ thread[t].op = "none"
  BY DEF Init, IdleWorker, IdleThread, Running
<1>3. Me.pc = "idle" /\ Me.op = "none"
  BY <1>2 DEF Me, Threads
<1>4. \A s \in Slots : /\ rt[s].process = None /\ rt[s].worker = None /\ row[s].state \notin Serving
                       /\ row[s].reason = "automatic" => ~row[s].enabled
  BY DEF Init, InitRow, InitRuntime, Serving
<1>5. ReasonInv
  BY <1>4 DEF ReasonInv
<1>6. OnlyDisables /\ Ended
  BY <1>2, <1>3 DEF OnlyDisables, Ended, Threads
<1>7. ASSUME NEW s \in Slots PROVE SlotInv(s)
  <2>1. /\ Owners(s) = {} /\ \A v \in Workers : ~On(v, s) /\ rt[s].worker # v
        /\ s \notin fresh
    BY <1>2, <1>4, ExitSlotsAssumption DEF Owners, On
  <2>2. Employed(s) /\ Left(s) /\ Failing(s) /\ Unserved(s) /\ Held(s)
    BY <2>1 DEF Employed, Left, Failing, Unserved, Held
  <2>3. Fenced(s) /\ Window(s) /\ Inspected(s)
    BY <1>2, <1>3, <2>1 DEF Fenced, Window, Relaunching, Inspected
  <2>4. Guarded(s)
    BY <1>4, <2>1 DEF Guarded
  <2>5. Registered(s)
    BY <1>2, <1>4, <2>1, ExitSlotsAssumption DEF Registered
  <2> QED BY <2>2, <2>3, <2>4, <2>5 DEF SlotInv
<1> QED BY <1>1, <1>5, <1>6, <1>7 DEF DisableInv, SlotsInv

LEMMA DisableInvariant ==
    ASSUME DisablesOnly
    PROVE  Spec => []DisableInv
<1>1. DisableInv /\ [Next]_vars => DisableInv'
  BY NextKept
<1> QED BY <1>1, InitKept, PTL DEF Spec

\* From its selection to the end of its health loop, the node of a current worker
\* stays reserved for its slot: _reserve_node stores both, and what releases the
\* reservation (stop_slot, fail_slot, the finally clause) runs when the slot has
\* no owner left to lose it.
THEOREM NodeStaysReserved ==
    ASSUME DisablesOnly
    PROVE  Spec => []ReservationHeld
<1>1. DisableInv => ReservationHeld
  BY DEF DisableInv, SlotsInv, SlotInv, Held, ReservationHeld
<1> QED BY <1>1, DisableInvariant, PTL

\* A published exit has its fail-closed rule: routing.cleanup runs for rows that
\* are disabled, idle or failed, and a worker writes ready only past
\* routing.install.
THEOREM PublishedStaysFailClosed ==
    ASSUME DisablesOnly
    PROVE  Spec => []PublishedFailClosed
<1>1. DisableInv => PublishedFailClosed
  BY DEF DisableInv, SlotsInv, SlotInv, Guarded, Published, PublishedFailClosed, Serving
<1> QED BY <1>1, DisableInvariant, PTL

\* An OpenVPN process whose worker has ended is the runtime's, so the next stop
\* terminates it: process_started_after_stop kills what cannot be registered, and
\* the register is never overwritten while the process in it runs.
THEOREM ProcessNeverLost ==
    ASSUME DisablesOnly
    PROVE  Spec => []NoLostProcess
<1>1. DisableInv => NoLostProcess
  <2> SUFFICES ASSUME DisableInv, NEW w \in Workers, Running(w), ~Alive(w)
               PROVE  \E s \in Slots : rt[s].process = w
    BY DEF NoLostProcess
  <2>1. worker[w].slot \in Slots /\ worker[w].pc = "done"
    BY ExitSlotsAssumption DEF DisableInv, SlotsInv, Ended, Alive
  <2> QED BY <2>1 DEF DisableInv, SlotsInv, SlotInv, Registered
<1> QED BY <1>1, DisableInvariant, PTL

-----------------------------------------------------------------------------
(* Two slots never use one entry *)

\* Slot s gets no entry it did not have.
EntryKept(s) == {reserved'[s], row'[s].entry} \subseteq {reserved[s], row[s].entry, None}

LEMMA KeptDistinct ==
    ASSUME DistinctEntries, \A s \in Slots : EntryKept(s)
    PROVE  DistinctEntries'
BY DEF EntryKept, DistinctEntries

\* _select_node leaves out what the other slots reserve or record.
LEMMA ReserveDistinct ==
    ASSUME TypeOK, Placed, DistinctEntries, NEW w \in Workers, ReserveNode(w)
    PROVE  DistinctEntries'
<1>1. PICK s \in Slots : s = worker[w].slot
  BY DEF ReserveNode, Placed
<1>2. row' = row
  BY DEF ReserveNode
<1>3. CASE reserved' = [reserved EXCEPT ![s] = None]
  BY <1>2, <1>3, KeptDistinct DEF EntryKept, TypeOK
<1>4. CASE \E n \in Nodes : n \notin Taken(s) /\ reserved' = [reserved EXCEPT ![s] = n]
  <2>1. PICK n \in Nodes : n \notin Taken(s) /\ reserved' = [reserved EXCEPT ![s] = n]
    BY <1>4
  <2>2. n # None /\ \A o \in Slots \ {s} : n \notin {reserved[o], row[o].entry}
    <3>1. n # None
      BY ExitSlotsAssumption
    <3>2. ASSUME NEW o \in Slots \ {s}, n \in {reserved[o], row[o].entry} PROVE n \in Taken(s)
      <4> DEFINE Held1 == {{reserved[t], row[t].entry} : t \in Slots \ {s}}
      <4>1. {reserved[o], row[o].entry} \in Held1
        OBVIOUS
      <4> HIDE DEF Held1
      <4>2. n \in UNION Held1
        BY <3>2, <4>1
      <4> USE DEF Held1
      <4> QED BY <3>1, <4>2, Zenon DEF Taken
    <3> QED BY <2>1, <3>1, <3>2
  <2>3. reserved'[s] = n /\ \A o \in Slots \ {s} : reserved'[o] = reserved[o]
    BY <2>1 DEF TypeOK
  <2> QED BY <1>2, <2>2, <2>3 DEF DistinctEntries
<1>5. \/ \E n : /\ n \in ({worker[w].node} \ ({None} \cup Taken(s))) \cup Selectable(s)
                /\ reserved' = [reserved EXCEPT ![s] = n]
      \/ reserved' = [reserved EXCEPT ![s] = None]
  BY <1>1 DEF ReserveNode
<1> QED BY <1>3, <1>4, <1>5, WorkerTyped DEF Selectable

\* commit_ready records the node the slot has reserved.
LEMMA CommitDistinct ==
    ASSUME DisableInv, DistinctEntries, NEW w \in Workers, CommitWrite(w)
    PROVE  DistinctEntries'
<1>1. PICK s \in Slots : worker[w].slot = s /\ On(w, s) /\ SlotInv(s) /\ TypeOK
  BY WorkerStart DEF CommitWrite
<1>2. CASE w \notin fresh
  BY <1>2, KeptDistinct DEF CommitWrite, EntryKept
<1>3. CASE w \in fresh
  <2>1. PICK state \in Serving :
          row' = [row EXCEPT ![s] = [@ EXCEPT !.state = state, !.entry = worker[w].node, !.streak = 0]]
    BY <1>1, <1>3 DEF CommitWrite
  <2>2. row'[s].entry = worker[w].node /\ \A o \in Slots \ {s} : row'[o] = row[o]
    BY <1>1, <2>1 DEF TypeOK, RowRec
  <2>3. reserved[s] = worker[w].node
    BY <1>1, <1>3 DEF CommitWrite, SlotInv, Held, HoldsNode, Owners
  <2> QED BY <2>2, <2>3, KeptDistinct DEF CommitWrite, EntryKept
<1> QED BY <1>2, <1>3

LEMMA WorkerStepDistinct ==
    ASSUME DisableInv, DistinctEntries, NEW w \in Workers, WorkerStep(w)
    PROVE  DistinctEntries'
<1>0. TypeOK /\ Placed
  BY DEF DisableInv, OwnerInv
<1>1. CASE UNCHANGED <<row, reserved>>
  BY <1>1, KeptDistinct DEF EntryKept
<1>2. CASE ReserveNode(w)
  BY <1>0, <1>2, ReserveDistinct
<1>3. CASE CommitWrite(w)
  BY <1>3, CommitDistinct
<1>4. CASE ProbeOutcome(w)
  <2>1. \A s \in Slots : row'[s].entry = row[s].entry
    BY <1>0, <1>4 DEF ProbeOutcome, TypeOK, RowRec
  <2> QED BY <1>4, <2>1, KeptDistinct DEF ProbeOutcome, EntryKept
<1>5. CASE RecordFailure(w)
  <2>1. \A s \in Slots : row'[s].entry \in {row[s].entry, None}
    BY <1>0, <1>5 DEF RecordFailure, TypeOK, Placed
  <2> QED BY <1>5, <2>1, KeptDistinct DEF RecordFailure, EntryKept
<1>6. CASE Teardown(w)
  <2>1. \A s \in Slots : row'[s].entry = row[s].entry /\ reserved'[s] \in {reserved[s], None}
    BY <1>0, <1>6 DEF Teardown, TypeOK, RowRec
  <2> QED BY <2>1, KeptDistinct DEF EntryKept
<1>7. CASE Cleanup(w)
  <2>1. \A s \in Slots : row'[s].entry = row[s].entry /\ reserved'[s] \in {reserved[s], None}
    BY <1>0, <1>7 DEF Cleanup, TypeOK
  <2> QED BY <2>1, KeptDistinct DEF EntryKept
<1> QED BY <1>1, <1>2, <1>3, <1>4, <1>5, <1>6, <1>7
  DEF WorkerStep, DialCheck, AcquireDial, TakePreferred, CheckBeforeSpawn, Spawn, Adopt, AwaitTunnel,
      InstallRoutes, VerifyEgress, OpenListener, CommitCheck, Publish, HealthCheck, ExceptHandler,
      HandleFailure, ScheduleRetry, Finally, Reclaim, Disown

LEMMA OtherStepDistinct ==
    ASSUME TypeOK, Placed, DistinctEntries,
           \/ \E t \in Threads : ThreadStep(t)
           \/ \E u \in Users, s \in Slots : UserRequest(u, s)
           \/ \E s \in Slots : WatchdogScan(s) \/ RetryFires(s)
           \/ WatchdogStep \/ Fault \/ \E n \in Nodes : CoolDown(n)
           \/ UNCHANGED vars
    PROVE  DistinctEntries'
<1>1. CASE UNCHANGED <<row, reserved>>
  BY <1>1, KeptDistinct DEF EntryKept
<1>2. ASSUME NEW s \in Slots, NEW r, row' = [row EXCEPT ![s] = r], r.entry \in {row[s].entry, None},
             UNCHANGED reserved
      PROVE  DistinctEntries'
  <2>1. \A o \in Slots : row'[o].entry \in {row[o].entry, None}
    BY <1>2 DEF TypeOK
  <2> QED BY <1>2, <2>1, KeptDistinct DEF EntryKept
<1>3. ASSUME NEW s \in Slots, NEW state, row' = [row EXCEPT ![s].state = state], UNCHANGED reserved
      PROVE  DistinctEntries'
  <2>1. \A o \in Slots : row'[o].entry = row[o].entry
    BY <1>3 DEF TypeOK, RowRec
  <2> QED BY <1>3, <2>1, KeptDistinct DEF EntryKept
<1>4. ASSUME NEW s \in Slots, row' = EnabledRow(s), UNCHANGED reserved
      PROVE  DistinctEntries'
  <2>1. \A o \in Slots : row'[o].entry = row[o].entry
    BY <1>4 DEF EnabledRow, TypeOK, RowRec
  <2> QED BY <1>4, <2>1, KeptDistinct DEF EntryKept
<1>5. ASSUME NEW t \in Threads, ThreadStep(t) PROVE DistinctEntries'
  <2>1. thread[t].pc # "idle" => thread[t].slot \in Slots
    BY DEF Placed
  <2> DEFINE s == thread[t].slot
  <2>2. ASSUME s \in Slots, NEW e, NEW st, NEW k, row' = [row EXCEPT ![s] = [@ EXCEPT !.enabled = e, !.state = st, !.reason = k]]
        PROVE  \A o \in Slots : row'[o].entry = row[o].entry
    BY <2>2 DEF TypeOK, RowRec
  <2>3. CASE StopBump(t)
    <3>1. \A o \in Slots : row'[o].entry = row[o].entry
      <4>1. CASE row' = row
        BY <4>1
      <4>2. CASE row' = [row EXCEPT ![s] = [@ EXCEPT !.enabled = TRUE, !.state = "idle", !.reason = "none"]]
        BY <2>1, <2>2, <2>3, <4>2 DEF StopBump
      <4> QED BY <2>3, <4>1, <4>2 DEF StopBump
    <3> QED BY <2>3, <3>1, KeptDistinct DEF StopBump, EntryKept
  <2>4. CASE StopClose(t)
    <3>1. \A o \in Slots : reserved'[o] \in {reserved[o], None}
      BY <2>1, <2>4 DEF StopClose, TypeOK
    <3> QED BY <2>4, <3>1, KeptDistinct DEF StopClose, EntryKept
  <2>5. CASE StopRoute(t)
    <3>1. CASE row' = [row EXCEPT ![s] = [@ EXCEPT !.state = "idle", !.entry = None]]
      <4>1. \A o \in Slots : row'[o].entry \in {row[o].entry, None}
        BY <2>1, <2>5, <3>1 DEF StopRoute, TypeOK, RowRec
      <4> QED BY <2>5, <4>1, KeptDistinct DEF StopRoute, EntryKept
    <3> QED BY <1>1, <2>5, <3>1 DEF StopRoute
  <2>6. CASE RedialDecide(t) \/ EnableWrite(t)
    BY <1>1, <1>4, <2>1, <2>6 DEF RedialDecide, EnableWrite
  <2>7. CASE ConnectDecide(t)
    <3>1. CASE row' = [row EXCEPT ![s] = [@ EXCEPT !.enabled = TRUE, !.state = "idle", !.reason = "none"]]
      <4>1. \A o \in Slots : row'[o].entry = row[o].entry
        BY <2>1, <2>2, <2>7, <3>1 DEF ConnectDecide
      <4> QED BY <2>7, <4>1, KeptDistinct DEF ConnectDecide, EntryKept
    <3> QED BY <1>1, <2>7, <3>1 DEF ConnectDecide
  <2>8. CASE DisableWrite(t)
    BY <2>1, <2>2, <2>8, KeptDistinct DEF DisableWrite, EntryKept
  <2>9. CASE ConfigureWrite(t)
    <3>1. \A o \in Slots : row'[o].entry = row[o].entry
      BY <2>1, <2>2, <2>9 DEF ConfigureWrite
    <3> QED BY <2>9, <3>1, KeptDistinct DEF ConfigureWrite, EntryKept
  <2>10. CASE StartLaunch(t)
    BY <1>3, <2>1, <2>10 DEF StartLaunch
  <2> QED BY <1>1, <1>5, <2>3, <2>4, <2>5, <2>6, <2>7, <2>8, <2>9, <2>10
      DEF ThreadStep, StopLock, StopJoin, ConfigureRead, Start, StartLock
<1>6. CASE WatchdogStep
  <2>1. thread[Watchdog].pc # "idle" => thread[Watchdog].slot \in Slots
    BY DEF Placed, Threads
  <2>2. CASE Inspect
    BY <1>1, <1>3, <2>1, <2>2 DEF Inspect
  <2>3. CASE Revive
    BY <1>1, <1>4, <2>1, <2>3 DEF Revive
  <2> QED BY <1>1, <1>6, <2>2, <2>3 DEF WatchdogStep, Repair, ConfirmRedial
<1>7. ASSUME NEW s \in Slots, RetryFires(s) PROVE DistinctEntries'
  BY <1>1, <1>3, <1>7 DEF RetryFires
<1> QED BY <1>1, <1>5, <1>6, <1>7
  DEF UserRequest, RequestRedial, RequestConnect, RequestDisable, RequestEnable, RequestConfigure,
      Request, WatchdogScan, RecoverIdle, RecoverStale, ReviveScan, Fault, ProcessDies, ListenerDies,
      CoolDown, vars

\* No two slots ever reserve or record the same entry: a reservation avoids what
\* the others hold, and a row records only what its slot has reserved.
THEOREM EntriesDistinct ==
    ASSUME DisablesOnly
    PROVE  Spec => []DistinctEntries
<1>1. Init => DistinctEntries
  <2> SUFFICES ASSUME Init, NEW s \in Slots PROVE {reserved[s], row[s].entry} \subseteq {None}
    BY DEF DistinctEntries
  <2> QED BY DEF Init, InitRow
<1>2. DisableInv /\ DistinctEntries /\ [Next]_vars => DistinctEntries'
  BY WorkerStepDistinct, OtherStepDistinct DEF Next, DisableInv, OwnerInv
<1> QED BY <1>1, <1>2, DisableInvariant, PTL DEF Spec
=============================================================================
