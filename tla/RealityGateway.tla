---------------------------- MODULE RealityGateway ----------------------------
(***************************************************************************)
(* The three containers that carry public traffic and the files they share. *)
(* The manager creates the internal SOCKS credentials                       *)
(* (vps/internal_proxy.py); the Reality gateway (vps/reality_gateway.py)     *)
(* keeps identities, writes a configuration, has it checked, publishes the   *)
(* manifest of links and becomes sing-box; the SOCKS5 bridge                *)
(* (vps/socks5_bridge.py) does the same without identities.  A container may *)
(* die between any two steps and is started again; `docker compose up -d`    *)
(* recreates the containers one after the other with other settings.        *)
(***************************************************************************)
EXTENDS Integers, FiniteSets

CONSTANTS
    Settings,                    \* set of [count, host, explicit]: slots, direct node, credentials or None
    Stored,                      \* identity files an earlier version may have left
    Uuids, Keys, Sids, Passwords, \* what the random generators may return
    Ports,                       \* proxy ports an administrator may give to a slot
    MaxFaults                    \* bound on crashes and changes of the settings

MAX_SLOT_COUNT  == 34
BASE_PROXY_PORT == 7920
Host            == MAX_SLOT_COUNT + 1   \* "host": its place in the order of slots
Direct          == "direct"
None            == 0                    \* an absent field

Containers == {"manager", "gateway", "bridge"}
NoNodes    == [s \in {} |-> None]

Identity == [uuid : Uuids \cup {None}, key : Keys \cup {None}, sid : Sids \cup {None}]

\* Uuids are random: what an earlier version left are different ones, too.
GatewayAssumption ==
    /\ \A e \in Settings : e.count \in 1..MAX_SLOT_COUNT /\ e.host \in BOOLEAN
    /\ \A ids \in Stored : DOMAIN ids \subseteq 1..Host /\ \A s \in DOMAIN ids : ids[s] \in Identity
    /\ \A ids \in Stored : \A s, t \in DOMAIN ids :
         s # t => ids[s].uuid # ids[t].uuid \/ ids[s].uuid = None
    /\ None \notin Uuids \cup Keys \cup Sids \cup Passwords
    /\ Ports \subseteq BASE_PROXY_PORT..(BASE_PROXY_PORT + MAX_SLOT_COUNT - 1)
    /\ MaxFaults \in Nat

VARIABLES
    wanted,      \* the settings in .env
    env,         \* the settings each container was created with
    pc,          \* where each process is
    ports,       \* proxy_port of each slot in the manager's store
    password,    \* internal_proxy.json
    cred,        \* the credentials a process has read
    identities,  \* identities.json
    loaded,      \* the gateway's identities of this run
    config,      \* config.json of the gateway and of the bridge
    nodes,       \* public-nodes.json
    faults

files == <<ports, password, identities, config, nodes>>
vars  == <<wanted, env, pc, cred, loaded, faults, files>>

SlotPort(s) == BASE_PROXY_PORT + s - 1
Slots       == 1..(CHOOSE n \in {e.count : e \in Settings} : \A e \in Settings : e.count <= n)

-----------------------------------------------------------------------------
(* load_or_create_identities *)

Managed(e) == 1..e.count \cup (IF e.host THEN {Host} ELSE {})
First(ids) == CHOOSE s \in DOMAIN ids : \A t \in DOMAIN ids : s <= t

\* The records the shared key pair may come from: exit-01 whatever it holds,
\* else one that has keys.
KeySources(ids) == {s \in DOMAIN ids : ids[s].key # None /\ (1 \in DOMAIN ids => s = 1)}

SharedPairs(ids) ==
    IF KeySources(ids) = {} THEN Keys \X Sids
    ELSE {<<ids[s].key, IF ids[s].sid = None THEN sid ELSE ids[s].sid>> : s \in KeySources(ids), sid \in Sids}

UuidOf(ids, s) == IF s \in DOMAIN ids THEN ids[s].uuid ELSE None

\* A random uuid is one no identity has; new holds one for every managed slot
\* that is without.
NewUuids(ids, e) ==
    LET Without == {s \in Managed(e) : UuidOf(ids, s) = None}
    IN  {new \in [Without -> Uuids \ {UuidOf(ids, s) : s \in DOMAIN ids}] :
           \A s, t \in Without : s # t => new[s] # new[t]}

\* Mutant: slots that are not managed are forgotten.
MergedDropping(ids, e, pair, new) ==
    [s \in Managed(e) |->
        [uuid |-> IF s \in DOMAIN new THEN new[s] ELSE ids[s].uuid, key |-> pair[1], sid |-> pair[2]]]

\* Mutant: a stored identity is left as it is, with keys of its own.
MergedOwnKeys(ids, e, pair, new) ==
    [s \in DOMAIN ids \cup Managed(e) |->
        IF s \in DOMAIN ids THEN ids[s]
        ELSE [uuid |-> new[s], key |-> pair[1], sid |-> pair[2]]]

\* All stored identities, those of the managed slots with a uuid and the shared keys.
Merged(ids, e, pair, new) ==
    [s \in DOMAIN ids \cup Managed(e) |->
        IF s \in Managed(e)
          THEN [uuid |-> IF s \in DOMAIN new THEN new[s] ELSE ids[s].uuid, key |-> pair[1], sid |-> pair[2]]
          ELSE ids[s]]

Requested(ids, e) == [s \in Managed(e) |-> ids[s]]

\* build_sing_box_config: the users of the inbound, and where each one goes.
GatewayConfig(ids, c) ==
    [users |-> [s \in DOMAIN ids |-> ids[s].uuid],
     key   |-> ids[First(ids)].key,
     sid   |-> ids[First(ids)].sid,
     route |-> [s \in DOMAIN ids |-> IF s = Host THEN Direct ELSE SlotPort(s)],
     cred  |-> c]

\* build_socks5_bridge_config: a slot's public port goes to the same internal port.
BridgeConfig(e, c) ==
    [route |-> [s \in 1..e.count |-> SlotPort(s)],
     cred  |-> c]

NoConfig == [cred |-> None]

TypeOK ==
    /\ wanted \in Settings /\ env \in [Containers -> Settings]
    /\ pc \in [Containers -> {"down", "start", "create", "identities", "save", "config", "check",
                              "publish", "exec", "run"}]
    /\ \A c \in Containers :
         cred[c] \in Passwords \cup {None} \cup {e.explicit : e \in Settings}
    /\ password \in Passwords \cup {None}
    /\ ports \in [Slots -> BASE_PROXY_PORT..(BASE_PROXY_PORT + MAX_SLOT_COUNT - 1)]
    /\ \A ids \in {identities, loaded, nodes} : \A s \in DOMAIN ids : s \in 1..Host /\ ids[s] \in Identity
    /\ \A s \in DOMAIN nodes : None \notin {nodes[s].uuid, nodes[s].key, nodes[s].sid}
    /\ faults \in 0..MaxFaults

Init ==
    /\ wanted \in Settings
    /\ env = [c \in Containers |-> wanted]
    /\ pc = [c \in Containers |-> "start"]
    /\ ports = [s \in Slots |-> SlotPort(s)]
    /\ password = None
    /\ cred = [c \in Containers |-> None]
    /\ identities \in Stored /\ loaded = NoNodes
    /\ config = [c \in Containers |-> NoConfig]
    /\ nodes = NoNodes
    /\ faults = 0

-----------------------------------------------------------------------------

Go(c, next) == pc' = [pc EXCEPT ![c] = next]
Read(c, p)  == cred' = [cred EXCEPT ![c] = p]

\* Explicit credentials, else the persisted ones; None: unavailable.
Credentials(c) == IF env[c].explicit # None THEN env[c].explicit ELSE password

\* load_or_create_internal_proxy_credentials, in the manager.
ReadOrCreate ==
    /\ pc["manager"] = "start"
    /\ IF Credentials("manager") # None
         THEN Read("manager", Credentials("manager")) /\ Go("manager", "run")
         ELSE Go("manager", "create") /\ UNCHANGED cred
    /\ UNCHANGED <<wanted, env, loaded, files, faults>>

Create ==
    /\ pc["manager"] = "create"
    /\ \E b \in Passwords :
         password' = b /\ Read("manager", b)
    /\ Go("manager", "run")
    /\ UNCHANGED <<wanted, env, loaded, ports, identities, config, nodes, faults>>

\* Mutant: only credentials in .env are read.
LoadExplicit(c, next) ==
    /\ pc[c] = "start"
    /\ IF env[c].explicit = None THEN Go(c, "down") /\ UNCHANGED cred
                                 ELSE Read(c, env[c].explicit) /\ Go(c, next)
    /\ UNCHANGED <<wanted, env, loaded, files, faults>>

\* load_internal_proxy_credentials: raises when there are none.
Load(c, next) ==
    /\ pc[c] = "start"
    /\ IF Credentials(c) = None THEN Go(c, "down") /\ UNCHANGED cred
                                ELSE Read(c, Credentials(c)) /\ Go(c, next)
    /\ UNCHANGED <<wanted, env, loaded, files, faults>>

\* load_or_create_identities: written when the file is missing or says otherwise.
Identities ==
    /\ pc["gateway"] = "identities"
    /\ \E pair \in SharedPairs(identities), new \in NewUuids(identities, env["gateway"]) :
         loaded' = Merged(identities, env["gateway"], pair, new)
    /\ Go("gateway", IF loaded' = identities THEN "config" ELSE "save")
    /\ UNCHANGED <<wanted, env, cred, files, faults>>

SaveIdentities ==
    /\ pc["gateway"] = "save"
    /\ identities' = loaded
    /\ Go("gateway", "config")
    /\ UNCHANGED <<wanted, env, cred, loaded, ports, password, config, nodes, faults>>

WriteConfig(c) ==
    /\ pc[c] = "config"
    /\ config' = [config EXCEPT ![c] =
         IF c = "gateway" THEN GatewayConfig(Requested(loaded, env[c]), cred[c])
                          ELSE BridgeConfig(env[c], cred[c])]
    /\ Go(c, "check")
    /\ UNCHANGED <<wanted, env, cred, loaded, ports, password, identities, nodes, faults>>

\* sing-box accepts the file; a refusal ends the process and is a Crash.
Check(c) ==
    /\ pc[c] = "check"
    /\ Go(c, IF c = "gateway" THEN "publish" ELSE "exec")
    /\ UNCHANGED <<wanted, env, cred, loaded, files, faults>>

\* build_public_nodes_manifest, and the file replaced.
Publish ==
    /\ pc["gateway"] = "publish"
    /\ nodes' = Requested(loaded, env["gateway"])
    /\ Go("gateway", "exec")
    /\ UNCHANGED <<wanted, env, cred, loaded, ports, password, identities, config, faults>>

\* exec_sing_box: from here on the process is sing-box with that file.
Exec(c) ==
    /\ pc[c] = "exec"
    /\ Go(c, "run")
    /\ UNCHANGED <<wanted, env, cred, loaded, files, faults>>

-----------------------------------------------------------------------------
(* Docker and the administrator *)

\* Any step may raise or the container may be killed.
Crash(c) ==
    /\ faults < MaxFaults /\ pc[c] # "down"
    /\ faults' = faults + 1
    /\ Go(c, "down")
    /\ UNCHANGED <<wanted, env, cred, loaded, files>>

Fresh(c) ==
    /\ Go(c, "start") /\ Read(c, None)
    /\ loaded' = IF c = "gateway" THEN NoNodes ELSE loaded

\* restart: unless-stopped
Restart(c) ==
    /\ pc[c] = "down"
    /\ Fresh(c)
    /\ UNCHANGED <<wanted, env, files, faults>>

\* .env is edited and `docker compose up -d` begins ...
Configure ==
    /\ faults < MaxFaults /\ \A c \in Containers : env[c] = wanted
    /\ wanted' \in Settings \ {wanted}
    /\ faults' = faults + 1
    /\ UNCHANGED <<env, pc, cred, loaded, files>>

\* ... and recreates the containers, the manager first: the others wait for its
\* health.
Recreate(c) ==
    /\ env[c] # wanted
    /\ c # "manager" => env["manager"] = wanted /\ pc["manager"] = "run"
    /\ env' = [env EXCEPT ![c] = wanted]
    /\ Fresh(c)
    /\ UNCHANGED <<wanted, files, faults>>

\* LocalStore.update_slot: the slot is started again at the port.
SetPort(s, p) ==
    /\ pc["manager"] = "run"
    /\ p \notin {ports[t] : t \in Slots}
    /\ ports' = [ports EXCEPT ![s] = p]
    /\ UNCHANGED <<wanted, env, pc, cred, loaded, password, identities, config, nodes, faults>>

Step(c) ==
    \/ c = "manager" /\ (ReadOrCreate \/ Create)
    \/ c = "gateway" /\ (Load(c, "identities") \/ Identities \/ SaveIdentities \/ Publish)
    \/ c = "bridge" /\ Load(c, "config")
    \/ WriteConfig(c) \/ Check(c) \/ Exec(c) \/ Restart(c)

Next ==
    \/ \E c \in Containers : Step(c) \/ Recreate(c) \/ Crash(c)
    \/ Configure
    \/ \E s \in Slots, p \in Ports : SetPort(s, p)

Spec == Init /\ [][Next]_vars

\* Processes run on, Docker starts them again and Compose finishes its work.
Fairness == \A c \in Containers : WF_vars(Step(c)) /\ WF_vars(Recreate(c))

FairSpec == Spec /\ Fairness

-----------------------------------------------------------------------------

Runs(c) == pc[c] = "run"

\* While sing-box runs, every published link is one it accepts: the uuid is a
\* user's, and the public key and the short id are its inbound's.  No two links
\* share a uuid, which alone tells the exits apart (reality_gateway.py:102-170, 417-437).
PublishedServes ==
    Runs("gateway") => \A s \in DOMAIN nodes :
        /\ s \in DOMAIN config["gateway"].users
        /\ nodes[s] = [uuid |-> config["gateway"].users[s],
                       key  |-> config["gateway"].key,
                       sid  |-> config["gateway"].sid]
        /\ \A t \in DOMAIN nodes \ {s} : nodes[t].uuid # nodes[s].uuid

\* Crashes, restarts and any sequence of slot counts leave every slot the uuid it
\* was once stored with (reality_gateway.py:107, README.md:65).
UuidsKept ==
    [][\A s \in DOMAIN identities : identities[s].uuid # None =>
         /\ s \in DOMAIN identities'
         /\ identities'[s].uuid = identities[s].uuid]_vars

\* Once the settings are the same everywhere, sing-box logs in at the manager's
\* listeners with the credentials these expect, however the containers were
\* started and killed (internal_proxy.py:52-80).
SameCredentials ==
    \A c \in {"gateway", "bridge"} :
        (Runs(c) /\ Runs("manager") /\ env[c] = env["manager"])
            => config[c].cred = cred["manager"]

\* The user of a slot, and the slot's public port, lead to the port this slot
\* listens at (README.md:8-9).
ReachesOwnExit ==
    \A c \in {"gateway", "bridge"} : Runs(c) =>
        \A s \in DOMAIN config[c].route \ {Host} : config[c].route[s] = ports[s]

\* A link that was given out for a slot is still accepted after an upgrade
\* (reality_gateway.py:109-110).
LinksPreserved ==
    [][\A s \in DOMAIN identities : None \notin {identities[s].uuid, identities[s].key, identities[s].sid} =>
         identities'[s] = identities[s]]_vars

\* Once crashes are over, all three containers come up, in whatever order they start and die.
AllUp == <>[](\A c \in Containers : Runs(c) /\ env[c] = wanted)

\* The files and the processes that read them agree, over crashes and changes of
\* the settings.
FilesAgree == PublishedServes /\ SameCredentials

=============================================================================
