------------------------------ MODULE L3Migrate ------------------------------
(***************************************************************************)
(* l3_agent_migrate and migrate_router of neutron-ha-tool.py: evacuate the *)
(* routers of L3 agents that are down.  A run reads the agents once, waits *)
(* TAKEOVER_DELAY polls for one to come back, and then moves router after  *)
(* router from the agents it first saw dead to agents it first saw alive.  *)
(* cron starts it on several controllers, so runs overlap.                 *)
(***************************************************************************)
EXTENDS NeutronServer

CONSTANTS
    NoRouter,       \* routerId of an instance that moves none
    Tool,           \* instances of the tool
    TakeoverDelay,  \* TAKEOVER_DELAY in polls of one second
    MaxRuns         \* bound: starts of the tool, all instances together

ASSUME ToolAssumption ==
    NoRouter \notin Router /\ TakeoverDelay \in Nat /\ MaxRuns \in Nat

VARIABLES
    pc,           \* where each instance is
    runs,         \* starts so far
    deadList,     \* agent_dead_list
    aliveList,    \* agent_alive_list
    deadListNew,  \* agent_dead_list_new, the last list the instance read
    timeout,
    agentsLeft,   \* agents of deadList still to come
    agentId,      \* agent_id
    routersLeft,  \* routers of agentId still to come
    routerId,     \* router_id
    targetId,     \* target_id
    dropped       \* history: routers a failed or interrupted move left unhosted

snapshot == <<deadList, aliveList>>
progress == <<agentsLeft, agentId, routersLeft, routerId, targetId>>
toolVars == <<pc, runs, snapshot, deadListNew, timeout, progress, dropped>>
vars     == <<serverVars, toolVars>>

TypeOK ==
    /\ ServerTypeOK
    /\ pc \in [Tool -> {"idle", "wait", "agents", "routers", "remove", "add"}]
    /\ runs \in 0..MaxRuns
    /\ deadList \in [Tool -> SUBSET Agent]
    /\ aliveList \in [Tool -> SUBSET Agent]
    /\ deadListNew \in [Tool -> SUBSET Agent]
    /\ timeout \in [Tool -> 0..TakeoverDelay]
    /\ agentsLeft \in [Tool -> SUBSET Agent]
    /\ agentId \in [Tool -> Agent \cup {NoAgent}]
    /\ routersLeft \in [Tool -> SUBSET Router]
    /\ routerId \in [Tool -> Router \cup {NoRouter}]
    /\ targetId \in [Tool -> Agent \cup {NoAgent}]
    /\ dropped \in SUBSET Router

Init ==
    /\ ServerInit
    /\ pc = [t \in Tool |-> "idle"]
    /\ runs = 0
    /\ deadList = [t \in Tool |-> {}]
    /\ aliveList = [t \in Tool |-> {}]
    /\ deadListNew = [t \in Tool |-> {}]
    /\ timeout = [t \in Tool |-> 0]
    /\ agentsLeft = [t \in Tool |-> {}]
    /\ agentId = [t \in Tool |-> NoAgent]
    /\ routersLeft = [t \in Tool |-> {}]
    /\ routerId = [t \in Tool |-> NoRouter]
    /\ targetId = [t \in Tool |-> NoAgent]
    /\ dropped = {}

------------------------------------------------------------------------------
(* The process ends, here or by an exception: its variables are gone.       *)
Exit(t) ==
    /\ pc' = [pc EXCEPT ![t] = "idle"]
    /\ deadList' = [deadList EXCEPT ![t] = {}]
    /\ aliveList' = [aliveList EXCEPT ![t] = {}]
    /\ deadListNew' = [deadListNew EXCEPT ![t] = {}]
    /\ timeout' = [timeout EXCEPT ![t] = 0]
    /\ agentsLeft' = [agentsLeft EXCEPT ![t] = {}]
    /\ agentId' = [agentId EXCEPT ![t] = NoAgent]
    /\ routersLeft' = [routersLeft EXCEPT ![t] = {}]
    /\ routerId' = [routerId EXCEPT ![t] = NoRouter]
    /\ targetId' = [targetId EXCEPT ![t] = NoAgent]

(* The snapshot.  A run that sees no dead agent has nothing to do.  With    *)
(* --now the wait is skipped.                                               *)
Start(t) ==
    /\ pc[t] = "idle"
    /\ runs < MaxRuns
    /\ runs' = runs + 1
    /\ IF Dead = {}
       THEN UNCHANGED <<pc, snapshot, deadListNew, agentsLeft>>
       ELSE /\ deadList' = [deadList EXCEPT ![t] = Dead]
            /\ aliveList' = [aliveList EXCEPT ![t] = alive]
            /\ deadListNew' = [deadListNew EXCEPT ![t] = Dead]
            /\ agentsLeft' = [agentsLeft EXCEPT ![t] = Dead]
            /\ \E now \in BOOLEAN :
                  pc' = [pc EXCEPT ![t] = IF now THEN "agents" ELSE "wait"]
    /\ UNCHANGED <<serverVars, timeout, agentId, routersLeft, routerId, targetId, dropped>>

\* mutant: the comparison lets one recovered agent pass
PollOffByOne(t) ==
    /\ pc[t] = "wait"
    /\ timeout[t] < TakeoverDelay
    /\ IF Cardinality(Dead) + 1 < Cardinality(deadList[t])
       THEN Exit(t)
       ELSE /\ deadListNew' = [deadListNew EXCEPT ![t] = Dead]
            /\ timeout' = [timeout EXCEPT ![t] = @ + 1]
            /\ UNCHANGED <<pc, snapshot, progress>>
    /\ UNCHANGED <<serverVars, runs, dropped>>

\* mutant: timeout is not advanced
PollForever(t) ==
    /\ pc[t] = "wait"
    /\ timeout[t] < TakeoverDelay
    /\ IF Cardinality(Dead) < Cardinality(deadList[t])
       THEN Exit(t)
       ELSE /\ deadListNew' = [deadListNew EXCEPT ![t] = Dead]
            /\ UNCHANGED <<pc, snapshot, progress, timeout>>
    /\ UNCHANGED <<serverVars, runs, dropped>>

(* One turn of the wait: fewer dead agents than at first ends the run.      *)
Poll(t) ==
    /\ pc[t] = "wait"
    /\ timeout[t] < TakeoverDelay
    /\ IF Cardinality(Dead) < Cardinality(deadList[t])
       THEN Exit(t)
       ELSE /\ deadListNew' = [deadListNew EXCEPT ![t] = Dead]
            /\ timeout' = [timeout EXCEPT ![t] = @ + 1]
            /\ UNCHANGED <<pc, snapshot, progress>>
    /\ UNCHANGED <<serverVars, runs, dropped>>

EndWait(t) ==
    /\ pc[t] = "wait"
    /\ timeout[t] = TakeoverDelay
    /\ pc' = [pc EXCEPT ![t] = "agents"]
    /\ UNCHANGED <<serverVars, runs, snapshot, deadListNew, timeout, progress, dropped>>

(* The next agent of the first list; its routers are listed now.            *)
NextAgent(t) ==
    /\ pc[t] = "agents"
    /\ \E a \in agentsLeft[t] :
          /\ agentsLeft' = [agentsLeft EXCEPT ![t] = @ \ {a}]
          /\ agentId' = [agentId EXCEPT ![t] = a]
          /\ routersLeft' = [routersLeft EXCEPT ![t] = RoutersOn(a)]
    /\ pc' = [pc EXCEPT ![t] = "routers"]
    /\ UNCHANGED <<serverVars, runs, snapshot, deadListNew, timeout, routerId, targetId, dropped>>

Finish(t) ==
    /\ pc[t] = "agents"
    /\ agentsLeft[t] = {}
    /\ Exit(t)
    /\ UNCHANGED <<serverVars, runs, dropped>>

\* mutant: the target is drawn from the list of all agents
NextRouterAnyAgent(t) ==
    /\ pc[t] = "routers"
    /\ \E r \in routersLeft[t], a \in Agent :
          /\ routersLeft' = [routersLeft EXCEPT ![t] = @ \ {r}]
          /\ routerId' = [routerId EXCEPT ![t] = r]
          /\ targetId' = [targetId EXCEPT ![t] = a]
    /\ pc' = [pc EXCEPT ![t] = "remove"]
    /\ UNCHANGED <<snapshot, deadListNew, timeout, agentsLeft, agentId>>
    /\ UNCHANGED <<serverVars, runs, dropped>>

(* random.choice on an empty list raises IndexError, outside the try.       *)
NextRouter(t) ==
    /\ pc[t] = "routers"
    /\ routersLeft[t] # {}
    /\ \/ /\ aliveList[t] = {}
          /\ Exit(t)
       \/ /\ \E r \in routersLeft[t], a \in aliveList[t] :
                /\ routersLeft' = [routersLeft EXCEPT ![t] = @ \ {r}]
                /\ routerId' = [routerId EXCEPT ![t] = r]
                /\ targetId' = [targetId EXCEPT ![t] = a]
          /\ pc' = [pc EXCEPT ![t] = "remove"]
          /\ UNCHANGED <<snapshot, deadListNew, timeout, agentsLeft, agentId>>
    /\ UNCHANGED <<serverVars, runs, dropped>>

EndRouters(t) ==
    /\ pc[t] = "routers"
    /\ routersLeft[t] = {}
    /\ pc' = [pc EXCEPT ![t] = "agents"]
    /\ UNCHANGED <<serverVars, runs, snapshot, deadListNew, timeout, progress, dropped>>

(* The router in flight is done with: the except clause of the caller       *)
(* continues with the next one.                                             *)
GoTo(t, l) ==
    /\ pc' = [pc EXCEPT ![t] = l]
    /\ UNCHANGED <<runs, snapshot, deadListNew, timeout, progress>>

NoteDrop(r) == dropped' = IF host'[r] = NoAgent THEN dropped \cup {r} ELSE dropped \ {r}

\* mutant: migrate_router is left when the router is found removed
RemoveOnly(t) ==
    /\ pc[t] = "remove"
    /\ \E answer \in Answers :
          /\ RemoveRouterFromAgent(agentId[t], routerId[t], answer)
          /\ GoTo(t, "routers")
    /\ UNCHANGED <<alive, flips, dropped>>

\* mutant: an exception of the remove does not keep the add from being tried
RemoveAnyway(t) ==
    /\ pc[t] = "remove"
    /\ \E answer \in Answers :
          RemoveRouterFromAgent(agentId[t], routerId[t], answer)
    /\ GoTo(t, "add")
    /\ UNCHANGED <<alive, flips, dropped>>

(* remove_router_from_l3_agent and the list call after it, which only logs  *)
(* what it finds but may raise: then the add is never reached.              *)
Remove(t) ==
    /\ pc[t] = "remove"
    /\ \E answer \in Answers :
          /\ RemoveRouterFromAgent(agentId[t], routerId[t], answer)
          /\ IF answer = "returned"
             THEN GoTo(t, "add") /\ UNCHANGED dropped
             ELSE /\ GoTo(t, "routers")
                  /\ IF host' = host THEN UNCHANGED dropped ELSE NoteDrop(routerId[t])
    /\ UNCHANGED <<alive, flips>>

(* add_router_to_l3_agent and the list call after it.  Whether it raised or *)
(* not, the run goes on to the next router.                                 *)
Add(t) ==
    /\ pc[t] = "add"
    /\ \E answer \in Answers :
          /\ AddRouterToAgent(targetId[t], routerId[t], answer)
          /\ GoTo(t, "routers")
          /\ NoteDrop(routerId[t])
    /\ UNCHANGED <<alive, flips>>

(* The instance is killed, or a list call outside the try raises.           *)
Crash(t) ==
    /\ pc[t] # "idle"
    /\ Exit(t)
    /\ dropped' = IF pc[t] = "add" /\ host[routerId[t]] = NoAgent
                  THEN dropped \cup {routerId[t]} ELSE dropped
    /\ UNCHANGED <<serverVars, runs>>

Step(t) ==
    \/ Poll(t) \/ EndWait(t)
    \/ NextAgent(t) \/ Finish(t)
    \/ NextRouter(t) \/ EndRouters(t)
    \/ Remove(t) \/ Add(t)

Next ==
    \/ AgentFlips /\ UNCHANGED toolVars
    \/ \E t \in Tool : Start(t) \/ Step(t) \/ Crash(t)

Spec == Init /\ [][Next]_vars

------------------------------------------------------------------------------
(* Properties                                                               *)

InFlight(r) == \E t \in Tool : pc[t] = "add" /\ routerId[t] = r

(* A router without an agent is between remove and add of some instance, or *)
(* a failed call or a crash between the two left it there: no interleaving  *)
(* of instances and agents alone takes a router off the network.            *)
UnhostedIsExplained ==
    \A r \in Router : host[r] = NoAgent => InFlight(r) \/ r \in dropped

(* A router lost that way stays lost: the tool looks for routers on dead    *)
(* agents only, and a run that listed it earlier fails on the remove and    *)
(* skips the add.  No later run repairs what a crash left.                  *)
Lost(r) == host[r] = NoAgent /\ ~InFlight(r)
LostStaysLost == [][\A r \in Router : Lost(r) => Lost(r)']_vars

(* When agents only come back during the wait, the run notices: past the    *)
(* wait, the dead agents of the last poll are never a proper part of those  *)
(* of the first.                                                            *)
RecoveryIsNoticed ==
    \A t \in Tool : pc[t] # "idle" =>
       (deadListNew[t] \subseteq deadList[t] => deadListNew[t] = deadList[t])

(* A run that reaches its end, the first of all runs and so alone, and      *)
(* without failing calls, leaves no router on an agent it found dead and    *)
(* loses none, even when agents go down and come back during the run.       *)
FinishedRunEvacuates ==
    [][\A t \in Tool : pc[t] = "agents" /\ agentsLeft[t] = {} /\ pc'[t] = "idle"
          /\ runs = 1 /\ faults = 0 /\ dropped = {}
          => \A r \in Router : host[r] \notin deadList[t] \cup {NoAgent}]_vars

(* How many steps a started instance has at most before it: the turns of    *)
(* the wait, three steps per router and two per agent.  An agent has at     *)
(* most all the routers, whatever other instances move to it meanwhile.     *)
PerAgent == 3 * Cardinality(Router) + 2

Rank(t) ==
    LET agents  == 1 + PerAgent * Cardinality(agentsLeft[t])
        routers == agents + 1 + 3 * Cardinality(routersLeft[t])
    IN  CASE pc[t] = "idle"    -> 0
          [] pc[t] = "wait"    -> 1 + agents + (TakeoverDelay - timeout[t])
          [] pc[t] = "agents"  -> agents
          [] pc[t] = "routers" -> routers
          [] pc[t] = "remove"  -> routers + 2
          [] pc[t] = "add"     -> routers + 1

(* A started instance comes to an end whatever the server answers, the      *)
(* agents do and other instances move: whatever it does brings it closer.   *)
Own(t) == <<pc[t], timeout[t], deadListNew[t], agentsLeft[t], routersLeft[t]>>

StepsAreBounded ==
    [][\A t \in Tool : pc[t] # "idle" /\ Own(t)' # Own(t) => Rank(t)' < Rank(t)]_vars
==============================================================================
