---------------------------- MODULE NeutronServer ----------------------------
(***************************************************************************)
(* The Neutron server as neutron-ha-tool.py uses it: which L3 agents send  *)
(* heartbeats, and which agent hosts which router.  External: the rules    *)
(* below are those the tool is written against.  A router has at most one  *)
(* host; removing it from another agent and adding a hosted router raise.  *)
(* "The neutron API will return "success" even when there is a subsequent  *)
(* failure" (migrate_router): a call may return without effect, and a call *)
(* that raises may have had its effect.                                    *)
(***************************************************************************)
EXTENDS Naturals, FiniteSets

CONSTANTS
    Agent,      \* L3 agents
    Router,
    NoAgent,    \* the host of a router that has none
    MaxFlips,   \* bound: how often agents go down or come back
    MaxFaults   \* bound: how many calls misbehave

ASSUME ServerAssumption ==
    /\ IsFiniteSet(Agent) /\ IsFiniteSet(Router)
    /\ NoAgent \notin Agent
    /\ MaxFlips \in Nat
    /\ MaxFaults \in Nat

VARIABLES
    host,    \* router -> its agent
    alive,   \* agents whose heartbeat is fresh
    flips,   \* agent state changes so far
    faults   \* misbehaving calls so far

serverVars == <<host, alive, flips, faults>>

ServerTypeOK ==
    /\ host \in [Router -> Agent \cup {NoAgent}]
    /\ alive \in SUBSET Agent
    /\ flips \in 0..MaxFlips
    /\ faults \in 0..MaxFaults

(* Every router is hosted when the tool is first started.                   *)
ServerInit ==
    /\ host \in [Router -> Agent]
    /\ alive \in SUBSET Agent
    /\ flips = 0
    /\ faults = 0

\* agent_dead_id_list and agent_alive_id_list of a fresh list_agents
Dead == Agent \ alive

\* list_routers_on_l3_agent
RoutersOn(a) == {r \in Router : host[r] = a}

AgentFlips ==
    /\ flips < MaxFlips
    /\ flips' = flips + 1
    /\ \E a \in Agent : alive' = IF a \in alive THEN alive \ {a} ELSE alive \cup {a}
    /\ UNCHANGED <<host, faults>>

Answers == {"returned", "raised"}

(* A call that would move r from host a to host b.                          *)
Rebind(r, a, b, answer) ==
    \/ /\ host[r] = a
       /\ answer = "returned"
       /\ host' = [host EXCEPT ![r] = b]
       /\ UNCHANGED faults
    \/ /\ host[r] # a
       /\ answer = "raised"
       /\ UNCHANGED <<host, faults>>
    \/ /\ host[r] = a
       /\ faults < MaxFaults
       /\ faults' = faults + 1
       /\ \/ answer = "returned" /\ UNCHANGED host
          \/ answer = "raised" /\ host' \in {host, [host EXCEPT ![r] = b]}

RemoveRouterFromAgent(a, r, answer) == Rebind(r, a, NoAgent, answer)
AddRouterToAgent(a, r, answer)      == Rebind(r, NoAgent, a, answer)
==============================================================================
