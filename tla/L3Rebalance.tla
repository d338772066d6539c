----------------------------- MODULE L3Rebalance -----------------------------
(***************************************************************************)
(* l3_agent_rebalance of neutron-ha-tool.py: level the number of routers   *)
(* on the L3 agents by pairing the first agent of a list with the last,    *)
(* the second with the last but one, and so on.  The list is sorted by the *)
(* length of the agent id (not by the number of routers), and ids have one *)
(* length, so its order is arbitrary.  Agents are used whether alive or    *)
(* not.  In Python 2 `num_agents-1/2` is num_agents: the loop runs through *)
(* the whole list, and past the middle a pair returns with its roles       *)
(* exchanged.  Moves are those of migrate_router, as in L3Migrate.         *)
(***************************************************************************)
EXTENDS NeutronServer, Sequences

CONSTANT NoRouter

ASSUME NoRouterAssumption == NoRouter \notin Router

VARIABLES
    pc,
    agentsLeft,     \* agents whose routers are not listed yet
    l3AgentDict,    \* l3_agent_dict
    ordered,        \* ordered_l3_agent_list
    turn,           \* turns of the for loop so far
    i,              \* the index the loop keeps by itself, from 0
    lowCount,       \* low_agent_router_count
    hghCount,       \* hgh_agent_router_count
    routersLeft,    \* routers of the high agent still to come
    routerId,
    dropped         \* history, as in L3Migrate

loopVars == <<agentsLeft, l3AgentDict, ordered, turn, i>>
vars == <<serverVars, pc, loopVars, lowCount, hghCount, routersLeft, routerId, dropped>>

N == Cardinality(Agent)

Orders == {o \in [1..N -> Agent] : \A k, l \in 1..N : o[k] = o[l] => k = l}

LowAgent == ordered[i + 1]
HghAgent == ordered[N - i]

TypeOK ==
    /\ ServerTypeOK
    /\ pc \in {"idle", "list", "pair", "routers", "remove", "add"}
    /\ agentsLeft \in SUBSET Agent
    /\ l3AgentDict \in [Agent -> SUBSET Router]
    /\ ordered \in Orders
    /\ turn \in 0..N
    /\ i \in 0..N
    /\ lowCount \in 0..Cardinality(Router)
    /\ hghCount \in 0..Cardinality(Router)
    /\ routersLeft \in SUBSET Router
    /\ routerId \in Router \cup {NoRouter}
    /\ dropped \in SUBSET Router

(* Nothing here reads `alive`: the run is the same for any agents alive.    *)
Init ==
    /\ ServerInit
    /\ alive = Agent
    /\ pc = "idle"
    /\ agentsLeft = Agent
    /\ l3AgentDict = [a \in Agent |-> {}]
    /\ ordered \in Orders
    /\ turn = 0
    /\ i = 0
    /\ lowCount = 0
    /\ hghCount = 0
    /\ routersLeft = {}
    /\ routerId = NoRouter
    /\ dropped = {}

------------------------------------------------------------------------------
(* One run is followed; "No rebalancing required for 1 or fewer agents".    *)
Start ==
    /\ pc = "idle"
    /\ agentsLeft = Agent
    /\ N > 1
    /\ pc' = "list"
    /\ UNCHANGED <<serverVars, loopVars, lowCount, hghCount, routersLeft, routerId, dropped>>

(* One list call per agent; others may rebind routers between them.         *)
ListRouters(a) ==
    /\ pc = "list"
    /\ a \in agentsLeft
    /\ agentsLeft' = agentsLeft \ {a}
    /\ l3AgentDict' = [l3AgentDict EXCEPT ![a] = RoutersOn(a)]
    /\ pc' = IF agentsLeft = {a} THEN "pair" ELSE "list"
    /\ UNCHANGED <<serverVars, ordered, turn, i, lowCount, hghCount, routersLeft, routerId, dropped>>

(* One turn of the for loop.  In the middle of an odd list both agents are  *)
(* the same: `continue`, which leaves i where it is for good.               *)
NextPair ==
    /\ pc = "pair"
    /\ turn < N
    /\ turn' = turn + 1
    /\ IF LowAgent = HghAgent
       THEN UNCHANGED <<pc, lowCount, hghCount, routersLeft>>
       ELSE /\ pc' = "routers"
            /\ lowCount' = Cardinality(l3AgentDict[LowAgent])
            /\ hghCount' = Cardinality(l3AgentDict[HghAgent])
            /\ routersLeft' = l3AgentDict[HghAgent]
    /\ UNCHANGED <<serverVars, agentsLeft, l3AgentDict, ordered, i, routerId, dropped>>

Finish ==
    /\ pc = "pair"
    /\ turn = N
    /\ pc' = "idle"
    /\ UNCHANGED <<serverVars, loopVars, lowCount, hghCount, routersLeft, routerId, dropped>>

\* mutant: routers are moved until the low agent has more
NextRouterUntilMore ==
    /\ pc = "routers"
    /\ IF routersLeft = {} \/ lowCount > hghCount
       THEN /\ pc' = "pair"
            /\ i' = i + 1
            /\ UNCHANGED <<routersLeft, routerId>>
       ELSE /\ pc' = "remove"
            /\ routerId' \in routersLeft
            /\ routersLeft' = routersLeft \ {routerId'}
            /\ UNCHANGED i
    /\ UNCHANGED <<serverVars, agentsLeft, l3AgentDict, ordered, turn, lowCount, hghCount, dropped>>

(* Another router of the high agent, or the end of this pair.               *)
NextRouter ==
    /\ pc = "routers"
    /\ IF routersLeft = {} \/ lowCount >= hghCount
       THEN /\ pc' = "pair"
            /\ i' = i + 1
            /\ UNCHANGED <<routersLeft, routerId>>
       ELSE /\ pc' = "remove"
            /\ routerId' \in routersLeft
            /\ routersLeft' = routersLeft \ {routerId'}
            /\ UNCHANGED i
    /\ UNCHANGED <<serverVars, agentsLeft, l3AgentDict, ordered, turn, lowCount, hghCount, dropped>>

NoteDrop == dropped' = IF host'[routerId] = NoAgent THEN dropped \cup {routerId}
                       ELSE dropped \ {routerId}

\* mutant: migrate_router is left when the router is found removed
RemoveOnly ==
    /\ pc = "remove"
    /\ \E answer \in Answers : RemoveRouterFromAgent(HghAgent, routerId, answer)
    /\ pc' = "routers"
    /\ UNCHANGED <<alive, flips, loopVars, lowCount, hghCount, routersLeft, routerId, dropped>>

Remove ==
    /\ pc = "remove"
    /\ \E answer \in Answers :
          /\ RemoveRouterFromAgent(HghAgent, routerId, answer)
          /\ IF answer = "returned"
             THEN pc' = "add" /\ UNCHANGED dropped
             ELSE /\ pc' = "routers"
                  /\ IF host' = host THEN UNCHANGED dropped ELSE NoteDrop
    /\ UNCHANGED <<alive, flips, loopVars, lowCount, hghCount, routersLeft, routerId>>

\* mutant: the count of the high agent is not taken down
AddOneCount ==
    /\ pc = "add"
    /\ \E answer \in Answers :
          /\ AddRouterToAgent(LowAgent, routerId, answer)
          /\ NoteDrop
          /\ lowCount' = IF answer = "returned" THEN lowCount + 1 ELSE lowCount
    /\ pc' = "routers"
    /\ UNCHANGED <<alive, flips, loopVars, hghCount, routersLeft, routerId>>

\* mutant: the two counts are mixed up
AddMixedUp ==
    /\ pc = "add"
    /\ \E answer \in Answers :
          /\ AddRouterToAgent(LowAgent, routerId, answer)
          /\ NoteDrop
          /\ IF answer = "returned"
             THEN lowCount' = lowCount - 1 /\ hghCount' = hghCount + 1
             ELSE UNCHANGED <<lowCount, hghCount>>
    /\ pc' = "routers"
    /\ UNCHANGED <<alive, flips, loopVars, routersLeft, routerId>>

(* The two counts follow the moves that did not raise.                      *)
Add ==
    /\ pc = "add"
    /\ \E answer \in Answers :
          /\ AddRouterToAgent(LowAgent, routerId, answer)
          /\ NoteDrop
          /\ IF answer = "returned"
             THEN lowCount' = lowCount + 1 /\ hghCount' = hghCount - 1
             ELSE UNCHANGED <<lowCount, hghCount>>
    /\ pc' = "routers"
    /\ UNCHANGED <<alive, flips, loopVars, routersLeft, routerId>>

Crash ==
    /\ pc # "idle"
    /\ pc' = "idle"
    /\ dropped' = IF pc = "add" /\ host[routerId] = NoAgent
                  THEN dropped \cup {routerId} ELSE dropped
    /\ agentsLeft' = {}
    /\ UNCHANGED <<serverVars, l3AgentDict, ordered, turn, i, lowCount, hghCount, routersLeft, routerId>>

Next ==
    \/ Start
    \/ \E a \in Agent : ListRouters(a)
    \/ NextPair
    \/ NextRouter
    \/ Remove
    \/ Add
    \/ Finish
    \/ Crash

Spec == Init /\ [][Next]_vars

------------------------------------------------------------------------------
(* Properties                                                               *)

Count(a) == Cardinality(RoutersOn(a))

Level(a, b) == Count(a) <= Count(b) + 1 /\ Count(b) <= Count(a) + 1

(* The rebalance takes routers off working agents; no router it touches is  *)
(* without an agent, but between the two calls of its move or after a       *)
(* failed call or a crash.                                                  *)
UnhostedIsExplained ==
    \A r \in Router :
       host[r] = NoAgent => (pc = "add" /\ routerId = r) \/ r \in dropped

(* On an even number of agents and without failing calls, the run leaves    *)
(* the two agents of each pair level, though it counts from lists read      *)
(* before its first move and meets every pair twice.                        *)
PairsEndLevel ==
    [][pc = "pair" /\ turn = N /\ pc' = "idle" /\ N % 2 = 0 /\ faults = 0
          => \A k \in 1..N : Level(ordered[k], ordered[N + 1 - k])]_vars

(* Without failing calls a router only moves from the fuller to the emptier *)
(* agent of a pair: a run never undoes in the second half of the loop what  *)
(* it did in the first.                                                     *)
NeverUphill ==
    [][pc = "remove" /\ pc' = "add" /\ faults' = 0 => Count(HghAgent) > Count(LowAgent)]_vars

(* 'The number of routers on each l3 agent will be as close as possible'.   *)
AsCloseAsPossible ==
    [][pc = "pair" /\ turn = N /\ pc' = "idle" /\ faults = 0
          => \A a, b \in Agent : Level(a, b)]_vars
==============================================================================
