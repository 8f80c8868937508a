----------------------------- MODULE EgressApply -----------------------------
(***************************************************************************)
(* How vps/agent.py applies the egress mode an operator chose in the       *)
(* panel: fetch_and_apply_configs decides, build_singbox_config replaces   *)
(* the configuration and restarts sing-box, the result is kept in          *)
(* egress-state.json and posted to the cloud (functions/api/[[path]].js),  *)
(* and a failure is rolled back and tried again after a delay.             *)
(*                                                                         *)
(* A configuration is the egress mode it was built for. Results get lost   *)
(* or arrive late, commands fail, and the agent may end between two steps. *)
(***************************************************************************)
EXTENDS Naturals, FiniteSets

CONSTANTS
    Modes,        \* the egress modes operators choose from
    Native,       \* the mode before any change
    Down,         \* sing-box is not running
    None,
    MaxRevision,  \* bound on the operator's changes
    Faults        \* subset of {"crash", "crashMid", "reject", "restart", "expire", "data"}

\* The modes a server can be given.
AllModes == {"native", "residential", "warp_ipv4", "warp_ipv6", "warp_dual", "socks5"}

EgressAssumption ==
    /\ Modes \subseteq AllModes /\ Native \in Modes
    /\ Down \notin AllModes /\ None \notin AllModes
    /\ None \notin [success : BOOLEAN, revision : 0..MaxRevision, mode : Modes]
    /\ MaxRevision \in Nat

VARIABLES
    cloud,   \* the row of servers: what is wanted, what is applied
    state,   \* egress-state.json
    conf,    \* the mode /etc/sing-box/config.json was built for
    active,  \* the mode the running sing-box was started with
    agent,   \* the configuration loop
    late,    \* posted results the cloud has not handled yet
    outcome  \* how the last pass of the loop ended

vars == <<cloud, state, conf, active, agent, late, outcome>>

Revisions == 0..MaxRevision
Steps == {"idle", "fetched", "decide", "build", "replaced", "verify", "built",
          "failed", "post"}
Result    == [success : BOOLEAN, revision : Revisions, mode : Modes]
CloudRec  == [desired : Modes, revision : Revisions, applied : Modes,
              appliedRevision : Revisions, status : {"pending", "applied", "failed"}]
\* delay: the retry_after of a failed result lies in the future.
StateRec  == [mode : Modes, revision : Revisions, pending : Result \cup {None}, delay : BOOLEAN]
\* egress: the fetched row. local: egress-state.json as read in this pass.
\* runtime, change: the mode to build, and whether that applies a revision.
\* old: the configuration file found by build. rollback: building the old mode.
AgentRec  == [pc : Steps, egress : CloudRec \cup {None}, local : StateRec \cup {None},
              runtime : Modes \cup {None}, change : BOOLEAN, rollback : BOOLEAN,
              old : Modes]

TypeOK ==
    /\ cloud \in CloudRec
    /\ state \in StateRec
    /\ conf \in Modes
    /\ active \in Modes \cup {Down}
    /\ agent \in AgentRec
    /\ late \subseteq Result
    /\ outcome \in {"none", "kept", "applied", "rolledback", "failed"}

IdleAgent == [pc |-> "idle", egress |-> None, local |-> None, runtime |-> None,
              change |-> FALSE, rollback |-> FALSE, old |-> Native]

Init ==
    /\ cloud = [desired |-> Native, revision |-> 0, applied |-> Native,
                appliedRevision |-> 0, status |-> "applied"]
    /\ state = [mode |-> Native, revision |-> 0, pending |-> None, delay |-> FALSE]
    /\ conf = Native
    /\ active = Native
    /\ agent = IdleAgent
    /\ late = {}
    /\ outcome = "none"

At(pc)   == agent.pc = pc
Goto(pc) == agent' = [agent EXCEPT !.pc = pc]

\* The address families a mode carries through WARP.
Families(mode) ==
    CASE mode = "warp_ipv4" -> {4}
      [] mode = "warp_ipv6" -> {6}
      [] mode = "warp_dual" -> {4, 6}
      [] OTHER              -> {}

\* The modes build_singbox_config ends with a data-plane check for.
Verified == {m \in Modes : m = "residential" \/ Families(m) # {}}

\* May a sing-box that runs with one mode pass the check of another? Only warp,
\* socks5 and residential open the port of the check; a proxy given by hand
\* (socks5) may itself lead into WARP.
Passes(running, mode) ==
    \/ running = "socks5"
    \/ IF mode = "residential" THEN running = "residential" \/ 4 \in Families(running)
                               ELSE Families(mode) \subseteq Families(running)

-----------------------------------------------------------------------------
(* The cloud *)

\* PUT of the operator: a new revision, whatever happened to the last one.
Choose ==
    /\ cloud.revision < MaxRevision
    /\ \E m \in Modes : cloud' = [cloud EXCEPT !.desired = m, !.revision = @ + 1,
                                               !.status = "pending"]
    /\ UNCHANGED <<state, conf, active, agent, late, outcome>>

\* Mutant: a success is taken whatever revision it is for.
AcceptsAny(r) == r.success \/ (cloud.revision = r.revision /\ cloud.applied = r.mode)

\* The WHERE clauses of egress_result.
Accepts(r) ==
    /\ cloud.revision = r.revision
    /\ IF r.success THEN cloud.desired = r.mode ELSE cloud.applied = r.mode

Handled(r) ==
    IF ~Accepts(r) THEN cloud
    ELSE IF r.success
      THEN [cloud EXCEPT !.applied = r.mode, !.appliedRevision = r.revision, !.status = "applied"]
      ELSE [cloud EXCEPT !.status = "failed"]

\* A result arrives after the agent gave up waiting for the answer.
ArrivesLate ==
    /\ \E r \in late :
         /\ cloud' = Handled(r)
         /\ late' = late \ {r}
    /\ UNCHANGED <<state, conf, active, agent, outcome>>

IsLost ==
    /\ \E r \in late : late' = late \ {r}
    /\ UNCHANGED <<cloud, state, conf, active, agent, outcome>>

\* _post_warp_result: answered, handled without an answer, or under way still.
Answers == {"accepted", "refused", "none"}
Post(r, answer) ==
    \/ cloud' = Handled(r) /\ UNCHANGED late
       /\ answer \in {IF Accepts(r) THEN "accepted" ELSE "refused", "none"}
    \/ late' = late \cup {r} /\ UNCHANGED cloud /\ answer = "none"

-----------------------------------------------------------------------------
(* fetch_and_apply_configs *)

\* The GET is answered; the state file is read.
Fetch ==
    /\ At("idle")
    /\ agent' = [IdleAgent EXCEPT !.pc = "fetched", !.egress = cloud, !.local = state]
    /\ UNCHANGED <<cloud, state, conf, active, late, outcome>>

\* A result kept from an earlier pass is posted again; an answer makes the agent
\* forget it if the cloud took a success or wants another revision.
PostPending ==
    /\ At("fetched")
    /\ IF agent.local.pending = None
         THEN UNCHANGED <<cloud, late, state>>
         ELSE \E answer \in Answers :
                /\ Post(agent.local.pending, answer)
                /\ state' = IF \/ agent.local.pending.success /\ answer = "accepted"
                               \/ /\ answer # "none"
                                  /\ agent.egress.revision # agent.local.pending.revision
                              THEN [state EXCEPT !.pending = None, !.delay = FALSE]
                              ELSE state
    /\ Goto("decide")
    /\ UNCHANGED <<conf, active, outcome>>

\* The newer of what the agent and the cloud know to be applied.
AppliedRevision ==
    IF agent.local.revision > agent.egress.appliedRevision
      THEN agent.local.revision ELSE agent.egress.appliedRevision
AppliedMode ==
    IF agent.local.revision > agent.egress.appliedRevision
      THEN agent.local.mode ELSE agent.egress.applied

\* A revision that failed is left alone until its delay is over.
Waits ==
    /\ agent.local.pending # None
    /\ ~agent.local.pending.success
    /\ agent.local.pending.revision = agent.egress.revision
    /\ state.delay

Decide ==
    /\ At("decide")
    /\ LET change == agent.egress.revision > AppliedRevision /\ ~Waits
       IN  agent' = [agent EXCEPT !.pc = "build", !.change = change,
                       !.runtime = IF change THEN agent.egress.desired ELSE AppliedMode]
    /\ UNCHANGED <<cloud, state, conf, active, late, outcome>>

\* build_singbox_config with a new configuration: checked, then put in place.
Replace ==
    /\ At("build") /\ conf # agent.runtime
    /\ conf' = agent.runtime
    /\ agent' = [agent EXCEPT !.pc = "replaced", !.old = conf]
    /\ UNCHANGED <<cloud, state, active, late, outcome>>

\* The mode is not available, or sing-box check rejects the configuration.
Rejected ==
    /\ "reject" \in Faults
    /\ At("build") /\ conf # agent.runtime
    /\ Goto("failed")
    /\ UNCHANGED <<cloud, state, conf, active, late, outcome>>

\* The same configuration: start, which does nothing to a running service.
StartSame ==
    /\ At("build") /\ conf = agent.runtime
    /\ active' = IF active = Down THEN conf ELSE active
    /\ Goto("verify")
    /\ UNCHANGED <<cloud, state, conf, late, outcome>>

StartSameFails ==
    /\ "restart" \in Faults
    /\ At("build") /\ conf = agent.runtime /\ active = Down
    /\ Goto("failed")
    /\ UNCHANGED <<cloud, state, conf, active, late, outcome>>

Restart ==
    /\ At("replaced")
    /\ active' = conf
    /\ Goto("verify")
    /\ UNCHANGED <<cloud, state, conf, late, outcome>>

\* Mutant: the old file is put back, sing-box is not restarted with it.
RestartFailsUnchecked ==
    /\ "restart" \in Faults
    /\ At("replaced")
    /\ conf' = agent.old
    /\ active' = agent.runtime
    /\ Goto("failed")
    /\ UNCHANGED <<cloud, state, late, outcome>>

\* Not healthy after the restart: the old file is put back and sing-box
\* restarted with it, which may fail as well.
RestartFails ==
    /\ "restart" \in Faults
    /\ At("replaced")
    /\ conf' = agent.old
    /\ active' \in {agent.old, Down}
    /\ Goto("failed")
    /\ UNCHANGED <<cloud, state, late, outcome>>

\* systemctl does not return within 30 s: the exception leaves the new file.
RestartExpires ==
    /\ "expire" \in Faults
    /\ At("replaced")
    /\ active' \in {conf, Down}
    /\ Goto("failed")
    /\ UNCHANGED <<cloud, state, conf, late, outcome>>

\* Mutant: the check only looks whether the service runs.
VerifyService ==
    /\ At("verify")
    /\ active # Down
    /\ Goto("built")
    /\ UNCHANGED <<cloud, state, conf, active, late, outcome>>

\* _verify_warp_exit wants "warp=on" from one address of each family of the
\* mode, _verify_residential_exit any IPv4 address but that of the VPS. Both go
\* through port 39482 of the sing-box that runs, whatever its mode.
Verify ==
    /\ At("verify")
    /\ agent.runtime \in Verified => Passes(active, agent.runtime)
    /\ Goto("built")
    /\ UNCHANGED <<cloud, state, conf, active, late, outcome>>

\* A proxy given by hand may also lead where no check is passed.
VerifyFails ==
    /\ At("verify")
    /\ agent.runtime \in Verified
    /\ "data" \in Faults \/ active = "socks5" \/ ~Passes(active, agent.runtime)
    /\ Goto("failed")
    /\ UNCHANGED <<cloud, state, conf, active, late, outcome>>

Success == [success |-> TRUE, revision |-> agent.egress.revision, mode |-> agent.egress.desired]
Failure == [success |-> FALSE, revision |-> agent.egress.revision, mode |-> AppliedMode]

\* Nothing to apply: the pass ends, with or without an error.
Keep ==
    /\ ~agent.change
    /\ At("built") \/ At("failed")
    /\ outcome' = IF At("built") THEN "kept" ELSE "failed"
    /\ agent' = IdleAgent
    /\ UNCHANGED <<cloud, state, conf, active, late>>

\* A change was built: the state file keeps the result until it is taken.
SaveSuccess ==
    /\ At("built") /\ agent.change /\ ~agent.rollback
    /\ state' = [mode |-> agent.egress.desired, revision |-> agent.egress.revision,
                 pending |-> Success, delay |-> FALSE]
    /\ outcome' = "applied"
    /\ Goto("post")
    /\ UNCHANGED <<cloud, conf, active, late>>

\* A change failed: the old mode is built again.
Rollback ==
    /\ At("failed") /\ agent.change /\ ~agent.rollback
    /\ agent' = [agent EXCEPT !.pc = "build", !.rollback = TRUE, !.runtime = AppliedMode]
    /\ UNCHANGED <<cloud, state, conf, active, late, outcome>>

\* rollback_healthy: the build went through and the service runs.
SaveFailure ==
    /\ agent.rollback /\ (At("built") \/ At("failed"))
    /\ state' = [mode |-> AppliedMode, revision |-> AppliedRevision,
                 pending |-> Failure, delay |-> TRUE]
    /\ outcome' = IF At("built") /\ active # Down THEN "rolledback" ELSE "failed"
    /\ Goto("post")
    /\ UNCHANGED <<cloud, conf, active, late>>

PostResult ==
    /\ At("post")
    /\ \E answer \in Answers :
         /\ Post(state.pending, answer)
         /\ state' = IF state.pending.success /\ answer = "accepted"
                       THEN [state EXCEPT !.pending = None] ELSE state
    /\ agent' = IdleAgent
    /\ UNCHANGED <<conf, active, outcome>>

-----------------------------------------------------------------------------
(* The environment *)

\* retry_after passes; the retry timer wakes the loop, which polls anyway.
DelayEnds ==
    /\ state.delay
    /\ state' = [state EXCEPT !.delay = FALSE]
    /\ UNCHANGED <<cloud, conf, active, agent, late, outcome>>

\* The agent ends and starts again; between the new file and the restart of
\* sing-box only under "crashMid".
Crash ==
    /\ "crash" \in Faults
    /\ At("replaced") => "crashMid" \in Faults
    /\ agent' = IdleAgent
    /\ outcome' = "none"
    /\ UNCHANGED <<cloud, state, conf, active, late>>

Loop ==
    \/ Fetch \/ PostPending \/ Decide \/ Replace \/ Rejected \/ StartSame
    \/ StartSameFails \/ Restart \/ RestartFails \/ RestartExpires \/ Verify
    \/ VerifyFails \/ Keep \/ SaveSuccess \/ Rollback \/ SaveFailure \/ PostResult

Next == Loop \/ Choose \/ ArrivesLate \/ IsLost \/ DelayEnds \/ Crash

Spec == Init /\ [][Next]_vars

-----------------------------------------------------------------------------

\* A mode with a data-plane check becomes the applied mode of a new revision
\* only while sing-box runs with one that passes this check: never natively, and
\* with WARP for each family a WARP mode asks for, even if a pass was cut off
\* between the new file and the restart, and start did nothing (agent.py:1021,
\* 1044, 1281).
VerifiedWhenSaved ==
    [][(state'.revision > state.revision /\ state'.mode \in Verified)
          => Passes(active, state'.mode)]_vars

\* The mode that is saved runs, so that nothing falls through to the mode before
\* (the comment at agent.py:937). It does not after a pass that was cut off.
SavedModeRuns ==
    [][(state'.revision > state.revision /\ state'.mode \in Verified)
          => active = state'.mode]_vars

\* What the cloud shows as applied was applied by the agent: its revision is
\* never ahead of the agent's, equal revisions mean equal modes, and the status
\* speaks of the operator's last choice, although results are repeated and
\* arrive late ([[path]].js:1245-1254).
CloudFollowsAgent ==
    /\ cloud.status = "applied" =>
         cloud.appliedRevision = cloud.revision /\ cloud.applied = cloud.desired
    /\ cloud.appliedRevision <= state.revision
    /\ cloud.appliedRevision = state.revision => cloud.applied = state.mode

\* After a pass that reported success, also that of a rollback, sing-box runs
\* the applied mode (agent.py:1277, 1304).
ReportedModeRuns ==
    (At("idle") /\ outcome \in {"kept", "applied", "rolledback"}) => active = state.mode

=============================================================================
