---------------------------- MODULE DhcpReplicate ----------------------------
(***************************************************************************)
(* replicate_dhcp of neutron-ha-tool.py: every network on every DHCP       *)
(* agent.  A run lists the networks once, then, agent by agent, lists what *)
(* the agent has and adds what is missing.  Runs of several controllers    *)
(* overlap, and networks come and go under them.  Adding a network that    *)
(* the agent already has, or that is deleted, raises; the run goes on.     *)
(***************************************************************************)
EXTENDS Naturals, FiniteSets

CONSTANTS
    DhcpAgent,
    Network,
    Tool,
    MaxRuns,         \* bound: starts of the tool, all instances together
    MaxAddFaults     \* bound: add calls that fail for another reason

ASSUME DhcpAssumption == DhcpAgent # {} /\ MaxRuns \in Nat /\ MaxAddFaults \in Nat

VARIABLES
    networks,        \* networks that exist
    bound,           \* agent -> networks it serves
    used,            \* ids given out so far; Neutron reuses none
    addFaults, runs,
    toolPc,
    networkIdList,   \* network_id_list
    agentsToDo,      \* agents whose turn is to come
    agentId,         \* dhcp_agent_id
    missing,         \* of networkIdList, not in network_id_on_agent and not tried yet
    skipped          \* history: networks an add of this run failed on for another reason

toolVars == <<runs, toolPc, networkIdList, agentsToDo, agentId, missing, skipped>>
dhcpVars == <<networks, bound, used, addFaults, toolVars>>

DhcpTypeOK ==
    /\ networks \in SUBSET Network
    /\ bound \in [DhcpAgent -> SUBSET networks]
    /\ used \in SUBSET Network
    /\ addFaults \in 0..MaxAddFaults
    /\ runs \in 0..MaxRuns
    /\ toolPc \in [Tool -> {"idle", "agents", "add"}]
    /\ networkIdList \in [Tool -> SUBSET Network]
    /\ agentsToDo \in [Tool -> SUBSET DhcpAgent]
    /\ agentId \in [Tool -> DhcpAgent]
    /\ missing \in [Tool -> SUBSET Network]
    /\ skipped \in [Tool -> SUBSET Network]

DhcpInit ==
    /\ networks \in SUBSET Network
    /\ bound \in [DhcpAgent -> SUBSET networks]
    /\ used = networks
    /\ addFaults = 0
    /\ runs = 0
    /\ toolPc = [t \in Tool |-> "idle"]
    /\ networkIdList = [t \in Tool |-> {}]
    /\ agentsToDo = [t \in Tool |-> {}]
    /\ agentId = [t \in Tool |-> CHOOSE a \in DhcpAgent : TRUE]
    /\ missing = [t \in Tool |-> {}]
    /\ skipped = [t \in Tool |-> {}]

------------------------------------------------------------------------------
(* Neutron's own life: its scheduler gives a new network one agent, and a   *)
(* deleted network leaves every agent.                                      *)
CreateNetwork ==
    /\ \E n \in Network \ used, a \in DhcpAgent :
          /\ used' = used \cup {n}
          /\ networks' = networks \cup {n}
          /\ bound' = [bound EXCEPT ![a] = @ \cup {n}]
    /\ UNCHANGED <<addFaults, toolVars>>

DeleteNetwork ==
    /\ \E n \in networks :
          /\ networks' = networks \ {n}
          /\ bound' = [a \in DhcpAgent |-> bound[a] \ {n}]
    /\ UNCHANGED <<used, addFaults, toolVars>>

------------------------------------------------------------------------------
StartReplicate(t) ==
    /\ toolPc[t] = "idle"
    /\ runs < MaxRuns
    /\ runs' = runs + 1
    /\ networkIdList' = [networkIdList EXCEPT ![t] = networks]
    /\ agentsToDo' = [agentsToDo EXCEPT ![t] = DhcpAgent]
    /\ skipped' = [skipped EXCEPT ![t] = {}]
    /\ toolPc' = [toolPc EXCEPT ![t] = "agents"]
    /\ UNCHANGED <<networks, bound, used, addFaults, agentId, missing>>

\* mutant: only the agents that have no network at all are looked at
NextAgentEmptyOnly(t) ==
    /\ toolPc[t] = "agents"
    /\ \E a \in agentsToDo[t] :
          /\ agentsToDo' = [agentsToDo EXCEPT ![t] = @ \ {a}]
          /\ agentId' = [agentId EXCEPT ![t] = a]
          /\ missing' = [missing EXCEPT ![t] = IF bound[a] = {} THEN networkIdList[t] ELSE {}]
    /\ toolPc' = [toolPc EXCEPT ![t] = "add"]
    /\ UNCHANGED <<networks, bound, used, addFaults, runs, networkIdList, skipped>>

(* list_networks_on_dhcp_agent of the next agent.                           *)
NextAgent(t) ==
    /\ toolPc[t] = "agents"
    /\ \E a \in agentsToDo[t] :
          /\ agentsToDo' = [agentsToDo EXCEPT ![t] = @ \ {a}]
          /\ agentId' = [agentId EXCEPT ![t] = a]
          /\ missing' = [missing EXCEPT ![t] = networkIdList[t] \ bound[a]]
    /\ toolPc' = [toolPc EXCEPT ![t] = "add"]
    /\ UNCHANGED <<networks, bound, used, addFaults, runs, networkIdList, skipped>>

(* add_network_to_dhcp_agent for one missing network, or the next agent.    *)
AddMissing(t) ==
    /\ toolPc[t] = "add"
    /\ \/ /\ missing[t] = {}
          /\ toolPc' = [toolPc EXCEPT ![t] = "agents"]
          /\ UNCHANGED <<bound, addFaults, missing, skipped>>
       \/ \E n \in missing[t] :
          /\ missing' = [missing EXCEPT ![t] = @ \ {n}]
          /\ \/ /\ bound' = [bound EXCEPT ![agentId[t]] = @ \cup ({n} \cap networks)]
                /\ UNCHANGED <<addFaults, skipped>>
             \/ /\ addFaults < MaxAddFaults
                /\ addFaults' = addFaults + 1
                /\ skipped' = [skipped EXCEPT ![t] = @ \cup {n}]
                /\ UNCHANGED bound
          /\ UNCHANGED toolPc
    /\ UNCHANGED <<networks, used, runs, networkIdList, agentsToDo, agentId>>

EndReplicate(t) ==
    /\ toolPc[t] = "agents"
    /\ agentsToDo[t] = {}
    /\ toolPc' = [toolPc EXCEPT ![t] = "idle"]
    /\ UNCHANGED <<networks, bound, used, addFaults, runs, networkIdList, agentsToDo,
                   agentId, missing, skipped>>

Step(t) == NextAgent(t) \/ AddMissing(t) \/ EndReplicate(t)

DhcpNext ==
    \/ CreateNetwork
    \/ DeleteNetwork
    \/ \E t \in Tool : StartReplicate(t) \/ Step(t)

DhcpSpec == DhcpInit /\ [][DhcpNext]_dhcpVars

------------------------------------------------------------------------------
(* A run that ends has put every network that existed when it began, and    *)
(* still exists, on every DHCP agent, but for those an add failed on --     *)
(* whatever other runs and the scheduler did meanwhile.                     *)
FinishedRunReplicates ==
    [][\A t \in Tool : toolPc[t] = "agents" /\ toolPc'[t] = "idle" =>
          \A n \in (networkIdList[t] \cap networks) \ skipped[t], a \in DhcpAgent :
             n \in bound[a]]_dhcpVars
==============================================================================
