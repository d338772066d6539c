--------------------------- MODULE L3MigrateProofs ---------------------------
(***************************************************************************)
(* Proofs about L3Migrate, for any agents, routers and instances, any      *)
(* number of runs, agent state changes and misbehaving calls.              *)
(***************************************************************************)
EXTENDS L3Migrate, FiniteSetTheorems, TLAPS

(* An instance works on a real agent, and moves a real router to one.       *)
WorkOK ==
    \A t \in Tool :
       /\ pc[t] \in {"routers", "remove", "add"} => agentId[t] \in Agent
       /\ pc[t] \in {"remove", "add"} => routerId[t] \in Router /\ targetId[t] \in Agent

IInv == TypeOK /\ WorkOK /\ UnhostedIsExplained

(* The effect of a call on the bindings: at most router r changes, and only *)
(* from host a to host b.                                                   *)
LEMMA RebindEffect ==
    ASSUME ServerTypeOK, NEW r \in Router, NEW a, NEW b \in Agent \cup {NoAgent},
           NEW answer, Rebind(r, a, b, answer)
    PROVE  /\ host' = host \/ (host[r] = a /\ host' = [host EXCEPT ![r] = b])
           /\ host' \in [Router -> Agent \cup {NoAgent}]
           /\ faults' \in 0..MaxFaults
BY ServerAssumption DEF ServerTypeOK, Rebind

(* The invariant holds initially: every router is hosted, nothing runs.     *)
LEMMA InitIInv == Init => IInv
BY ServerAssumption, ToolAssumption
   DEF Init, ServerInit, IInv, TypeOK, ServerTypeOK, WorkOK, UnhostedIsExplained

(* The end of an instance, common to every way it may happen.               *)
LEMMA ExitIInv ==
    ASSUME IInv, NEW t \in Tool, Exit(t), UNCHANGED <<serverVars, runs>>,
           dropped' \in SUBSET Router, dropped \subseteq dropped',
           \A r \in Router : host[r] = NoAgent /\ pc[t] = "add" /\ routerId[t] = r => r \in dropped'
    PROVE  IInv'
<1> USE ServerAssumption, ToolAssumption
<1>1. TypeOK'
  BY DEF IInv, TypeOK, ServerTypeOK, Exit, serverVars
<1>2. WorkOK'
  BY DEF IInv, TypeOK, WorkOK, Exit
<1>3. UnhostedIsExplained'
  BY DEF IInv, TypeOK, UnhostedIsExplained, InFlight, Exit, serverVars
<1> QED
  BY <1>1, <1>2, <1>3 DEF IInv

(* Every step keeps the invariant.                                          *)
LEMMA NextIInv == IInv /\ [Next]_vars => IInv'
<1> SUFFICES ASSUME IInv, [Next]_vars PROVE IInv'
  OBVIOUS
<1> USE ServerAssumption, ToolAssumption
<1>1. CASE AgentFlips /\ UNCHANGED toolVars
  BY <1>1 DEF AgentFlips, toolVars, snapshot, progress, IInv, TypeOK, ServerTypeOK,
              WorkOK, UnhostedIsExplained, InFlight
<1>2. ASSUME NEW t \in Tool, Start(t) PROVE IInv'
  BY <1>2 DEF Start, snapshot, serverVars, Dead, IInv, TypeOK, ServerTypeOK,
              WorkOK, UnhostedIsExplained, InFlight
<1>3. ASSUME NEW t \in Tool, Poll(t) PROVE IInv'
  <2>1. CASE Exit(t)
    BY <1>3, <2>1, ExitIInv DEF Poll, IInv, TypeOK
  <2>2. CASE ~ Exit(t)
    BY <1>3, <2>2 DEF Poll, snapshot, progress, serverVars, Dead, IInv, TypeOK,
              ServerTypeOK, WorkOK, UnhostedIsExplained, InFlight
  <2> QED
    BY <2>1, <2>2
<1>4. ASSUME NEW t \in Tool, EndWait(t) \/ EndRouters(t) PROVE IInv'
  BY <1>4 DEF EndWait, EndRouters, snapshot, progress, serverVars, IInv, TypeOK,
              ServerTypeOK, WorkOK, UnhostedIsExplained, InFlight
<1>5. ASSUME NEW t \in Tool, NextAgent(t) PROVE IInv'
  BY <1>5 DEF NextAgent, RoutersOn, snapshot, serverVars, IInv, TypeOK,
              ServerTypeOK, WorkOK, UnhostedIsExplained, InFlight
<1>6. ASSUME NEW t \in Tool, Finish(t) PROVE IInv'
  BY <1>6, ExitIInv DEF Finish, IInv, TypeOK
<1>7. ASSUME NEW t \in Tool, NextRouter(t) PROVE IInv'
  <2>1. CASE Exit(t)
    BY <1>7, <2>1, ExitIInv DEF NextRouter, IInv, TypeOK
  <2>2. CASE ~ Exit(t)
    BY <1>7, <2>2 DEF NextRouter, snapshot, serverVars, IInv, TypeOK,
              ServerTypeOK, WorkOK, UnhostedIsExplained, InFlight
  <2> QED
    BY <2>1, <2>2
<1>8. ASSUME NEW t \in Tool, Remove(t) PROVE IInv'
  <2>1. PICK answer \in Answers :
           /\ RemoveRouterFromAgent(agentId[t], routerId[t], answer)
           /\ IF answer = "returned"
              THEN GoTo(t, "add") /\ UNCHANGED dropped
              ELSE /\ GoTo(t, "routers")
                   /\ IF host' = host THEN UNCHANGED dropped ELSE NoteDrop(routerId[t])
    BY <1>8 DEF Remove
  <2>2. routerId[t] \in Router /\ agentId[t] \in Agent /\ targetId[t] \in Agent
    BY <1>8 DEF Remove, IInv, WorkOK
  <2>3. /\ host' = host \/ host' = [host EXCEPT ![routerId[t]] = NoAgent]
        /\ host' \in [Router -> Agent \cup {NoAgent}]
        /\ faults' \in 0..MaxFaults
    BY <2>1, <2>2, RebindEffect DEF RemoveRouterFromAgent, IInv, TypeOK
  <2>4. TypeOK'
    BY <1>8, <2>1, <2>2, <2>3
       DEF Remove, GoTo, NoteDrop, snapshot, progress, IInv, TypeOK, ServerTypeOK
  <2>5. WorkOK'
    BY <2>1, <2>2 DEF GoTo, snapshot, progress, IInv, TypeOK, WorkOK
  <2>6. UnhostedIsExplained'
    BY <1>8, <2>1, <2>2, <2>3
       DEF Remove, GoTo, NoteDrop, snapshot, progress, IInv, TypeOK, ServerTypeOK,
           UnhostedIsExplained, InFlight
  <2> QED
    BY <2>4, <2>5, <2>6 DEF IInv
<1>9. ASSUME NEW t \in Tool, Add(t) PROVE IInv'
  <2>1. PICK answer \in Answers :
           /\ AddRouterToAgent(targetId[t], routerId[t], answer)
           /\ GoTo(t, "routers")
           /\ NoteDrop(routerId[t])
    BY <1>9 DEF Add
  <2>2. routerId[t] \in Router /\ agentId[t] \in Agent /\ targetId[t] \in Agent
    BY <1>9 DEF Add, IInv, WorkOK
  <2>3. /\ host' = host \/ host' = [host EXCEPT ![routerId[t]] = targetId[t]]
        /\ host' \in [Router -> Agent \cup {NoAgent}]
        /\ faults' \in 0..MaxFaults
    BY <2>1, <2>2, RebindEffect DEF AddRouterToAgent, IInv, TypeOK
  <2>4. TypeOK'
    BY <1>9, <2>1, <2>2, <2>3
       DEF Add, GoTo, NoteDrop, snapshot, progress, IInv, TypeOK, ServerTypeOK
  <2>5. WorkOK'
    BY <2>1, <2>2 DEF GoTo, snapshot, progress, IInv, TypeOK, WorkOK
  <2>6. UnhostedIsExplained'
    BY <1>9, <2>1, <2>2, <2>3
       DEF Add, GoTo, NoteDrop, snapshot, progress, IInv, TypeOK, ServerTypeOK,
           UnhostedIsExplained, InFlight
  <2> QED
    BY <2>4, <2>5, <2>6 DEF IInv
<1>10. ASSUME NEW t \in Tool, Crash(t) PROVE IInv'
  BY <1>10, ExitIInv DEF Crash, IInv, TypeOK, WorkOK
<1>11. CASE UNCHANGED vars
  BY <1>11 DEF vars, serverVars, toolVars, snapshot, progress, IInv, TypeOK,
               ServerTypeOK, WorkOK, UnhostedIsExplained, InFlight
<1> QED
  BY <1>1, <1>2, <1>3, <1>4, <1>5, <1>6, <1>7, <1>8, <1>9, <1>10, <1>11
     DEF Next, Step

(* The inductive invariant holds in every reachable state.                  *)
LEMMA Inductive == Spec => []IInv
BY InitIInv, NextIInv, PTL DEF Spec

------------------------------------------------------------------------------
(* Type correctness: in particular no call ever names a missing router or   *)
(* agent as a binding.                                                      *)
THEOREM TypeCorrect == Spec => []TypeOK
BY Inductive, PTL DEF IInv

(* No interleaving of instances, agents and answers leaves a router without *)
(* an agent, except between the two calls of a move, or by a failed call or *)
(* a crash that is on record.                                               *)
THEOREM UnhostedExplained == Spec => []UnhostedIsExplained
BY Inductive, PTL DEF IInv

(* A lost router is out of reach of every present and later run.            *)
THEOREM LossIsPermanent == Spec => LostStaysLost
<1>1. IInv /\ [Next]_vars => \A r \in Router : Lost(r) => Lost(r)'
  <2> SUFFICES ASSUME IInv, [Next]_vars, NEW r \in Router, Lost(r) PROVE Lost(r)'
    OBVIOUS
  <2> USE ServerAssumption DEF Lost, InFlight
  <2>1. host[r] = NoAgent /\ \A t \in Tool : ~(pc[t] = "add" /\ routerId[t] = r)
    OBVIOUS
  <2>2. ASSUME NEW t \in Tool, Remove(t) PROVE Lost(r)'
    <3>1. PICK answer \in Answers :
             /\ RemoveRouterFromAgent(agentId[t], routerId[t], answer)
             /\ GoTo(t, IF answer = "returned" THEN "add" ELSE "routers")
      BY <2>2 DEF Remove
    <3>2. routerId[t] \in Router /\ agentId[t] \in Agent
      BY <2>2 DEF Remove, IInv, WorkOK
    <3>3. CASE routerId[t] = r
      <4>1. answer = "raised" /\ host' = host
        BY <2>1, <3>1, <3>2, <3>3 DEF RemoveRouterFromAgent, Rebind
      <4> QED
        BY <2>1, <3>1, <4>1 DEF GoTo, progress, IInv, TypeOK
    <3>4. CASE routerId[t] # r
      <4>1. host'[r] = host[r]
        BY <3>1, <3>2, <3>4 DEF RemoveRouterFromAgent, Rebind, IInv, TypeOK, ServerTypeOK
      <4> QED
        BY <2>1, <3>1, <3>4, <4>1 DEF GoTo, progress, IInv, TypeOK
    <3> QED
      BY <3>3, <3>4
  <2>3. ASSUME NEW t \in Tool, Add(t) PROVE Lost(r)'
    <3>1. PICK answer \in Answers :
             /\ AddRouterToAgent(targetId[t], routerId[t], answer)
             /\ GoTo(t, "routers")
      BY <2>3 DEF Add
    <3>2. routerId[t] \in Router /\ routerId[t] # r
      BY <2>1, <2>3 DEF Add, IInv, WorkOK
    <3>3. host'[r] = host[r]
      BY <3>1, <3>2 DEF AddRouterToAgent, Rebind, IInv, TypeOK, ServerTypeOK
    <3> QED
      BY <2>1, <3>1, <3>3 DEF GoTo, progress, IInv, TypeOK
  <2>4. ASSUME NEW t \in Tool,
               \/ Start(t) \/ Poll(t) \/ EndWait(t) \/ NextAgent(t) \/ Finish(t)
               \/ NextRouter(t) \/ EndRouters(t) \/ Crash(t)
        PROVE  Lost(r)'
    <3>1. host' = host
      BY <2>4 DEF Start, Poll, EndWait, NextAgent, Finish, NextRouter, EndRouters,
                  Crash, serverVars
    <3>2. \A u \in Tool : pc'[u] = "add" => pc[u] = "add" /\ routerId'[u] = routerId[u]
      BY <2>4 DEF Start, Poll, EndWait, NextAgent, Finish, NextRouter, EndRouters,
                  Crash, Exit, progress, IInv, TypeOK
    <3> QED
      BY <2>1, <3>1, <3>2
  <2>5. CASE (AgentFlips /\ UNCHANGED toolVars) \/ UNCHANGED vars
    BY <2>1, <2>5 DEF AgentFlips, toolVars, progress, vars, serverVars
  <2> QED
    BY <2>2, <2>3, <2>4, <2>5 DEF Next, Step
<1> QED
  BY <1>1, Inductive, PTL DEF Spec, LostStaysLost

(* If agents only come back during the wait, the run notices and ends: the  *)
(* comparison of two counts is enough for that case.                        *)
THEOREM RecoveryNoticed == Spec => []RecoveryIsNoticed
<1>1. Init => RecoveryIsNoticed
  BY DEF Init, RecoveryIsNoticed
<1>2. IInv /\ RecoveryIsNoticed /\ [Next]_vars => RecoveryIsNoticed'
  <2> SUFFICES ASSUME IInv, RecoveryIsNoticed, [Next]_vars PROVE RecoveryIsNoticed'
    OBVIOUS
  <2>1. ASSUME NEW t \in Tool, Exit(t) PROVE RecoveryIsNoticed'
    BY <2>1 DEF Exit, IInv, TypeOK, RecoveryIsNoticed
  <2>2. ASSUME NEW t \in Tool, Start(t) PROVE RecoveryIsNoticed'
    BY <2>2 DEF Start, snapshot, IInv, TypeOK, RecoveryIsNoticed
  <2>3. ASSUME NEW t \in Tool, Poll(t), ~ Exit(t) PROVE RecoveryIsNoticed'
    <3>1. /\ ~(Cardinality(Dead) < Cardinality(deadList[t]))
          /\ deadListNew' = [deadListNew EXCEPT ![t] = Dead]
          /\ UNCHANGED <<pc, deadList>>
      BY <2>3 DEF Poll, snapshot
    <3>2. ASSUME Dead \subseteq deadList[t] PROVE Dead = deadList[t]
      <4>1. IsFiniteSet(deadList[t])
        BY FS_Subset, ServerAssumption DEF IInv, TypeOK
      <4>2. /\ Cardinality(Dead) <= Cardinality(deadList[t])
            /\ Cardinality(deadList[t]) = Cardinality(Dead) => deadList[t] = Dead
        BY <3>2, <4>1, FS_Subset
      <4>3. Cardinality(Dead) \in Nat /\ Cardinality(deadList[t]) \in Nat
        BY <3>2, <4>1, FS_Subset, FS_CardinalityType
      <4> QED
        BY <3>1, <4>2, <4>3
    <3> QED
      BY <3>1, <3>2 DEF IInv, TypeOK, RecoveryIsNoticed
  <2>4. ASSUME NEW t \in Tool,
               \/ EndWait(t) \/ NextAgent(t) \/ Finish(t) \/ NextRouter(t)
               \/ EndRouters(t) \/ Remove(t) \/ Add(t) \/ Crash(t),
               ~ Exit(t)
        PROVE  RecoveryIsNoticed'
    <3>1. UNCHANGED <<deadList, deadListNew>>
      BY <2>4 DEF EndWait, NextAgent, Finish, NextRouter, EndRouters, Remove, Add,
                  Crash, GoTo, snapshot
    <3>2. \A u \in Tool : pc'[u] # "idle" => pc[u] # "idle"
      BY <2>4 DEF EndWait, NextAgent, Finish, NextRouter, EndRouters, Remove, Add,
                  Crash, GoTo, IInv, TypeOK
    <3> QED
      BY <3>1, <3>2 DEF RecoveryIsNoticed
  <2>5. CASE (AgentFlips /\ UNCHANGED toolVars) \/ UNCHANGED vars
    BY <2>5 DEF toolVars, snapshot, vars, RecoveryIsNoticed
  <2> QED
    BY <2>1, <2>2, <2>3, <2>4, <2>5 DEF Next, Step
<1> QED
  BY <1>1, <1>2, Inductive, PTL DEF Spec

------------------------------------------------------------------------------
(* The first run, alone                                                     *)

Alone ==
    /\ runs = 0 => dropped = {} /\ \A t \in Tool : pc[t] = "idle"
    /\ runs = 1 => \A t \in Tool, u \in Tool : pc[t] # "idle" /\ pc[u] # "idle" => t = u

(* What router r on a dead agent still has before it.                       *)
StillToMove(t, r) ==
    \/ host[r] \in agentsLeft[t]
    \/ /\ pc[t] \in {"routers", "remove", "add"}
       /\ host[r] = agentId[t]
       /\ r \in routersLeft[t] \/ (pc[t] = "remove" /\ r = routerId[t])

Evacuates(t) ==
    runs = 1 /\ faults = 0 /\ pc[t] # "idle" =>
       /\ dropped = {}
       /\ deadList[t] \cap aliveList[t] = {}
       /\ pc[t] \in {"remove", "add"} => targetId[t] \in aliveList[t]
       /\ \A r \in Router : host[r] \in deadList[t] => StillToMove(t, r)

LEMMA NextAlone == IInv /\ Alone /\ [Next]_vars => Alone'
<1> SUFFICES ASSUME IInv, Alone, [Next]_vars PROVE Alone'
  OBVIOUS
<1> USE ToolAssumption DEF IInv, TypeOK, Alone
<1>1. ASSUME NEW t \in Tool, Start(t) PROVE Alone'
  BY <1>1 DEF Start
<1>2. ASSUME NEW t \in Tool, Step(t) \/ Crash(t) PROVE Alone'
  <2>1. runs' = runs /\ runs # 0
    BY <1>2 DEF Step, Crash, Poll, EndWait, NextAgent, Finish, NextRouter, EndRouters,
                Remove, Add, GoTo
  <2>2. \A u \in Tool : pc'[u] # "idle" => pc[u] # "idle"
    BY <1>2 DEF Step, Crash, Poll, EndWait, NextAgent, Finish, NextRouter, EndRouters,
                Remove, Add, GoTo, Exit
  <2> QED BY <2>1, <2>2
<1>3. CASE (AgentFlips /\ UNCHANGED toolVars) \/ UNCHANGED vars
  BY <1>3 DEF toolVars, vars
<1> QED BY <1>1, <1>2, <1>3 DEF Next

LEMMA NextEvacuates ==
    ASSUME IInv, Alone, \A t \in Tool : Evacuates(t), [Next]_vars
    PROVE  \A t \in Tool : Evacuates(t)'
<1> SUFFICES ASSUME NEW t \in Tool, runs' = 1, faults' = 0, pc'[t] # "idle"
             PROVE  /\ dropped' = {}
                    /\ deadList'[t] \cap aliveList'[t] = {}
                    /\ pc'[t] \in {"remove", "add"} => targetId'[t] \in aliveList'[t]
                    /\ \A r \in Router : host'[r] \in deadList'[t] => StillToMove(t, r)'
  BY DEF Evacuates
<1> USE ServerAssumption, ToolAssumption DEF IInv, TypeOK, ServerTypeOK
<1>1. ASSUME NEW u \in Tool, Start(u)
      PROVE  /\ u = t /\ dropped' = {} /\ Dead # {}
             /\ deadList'[t] = Dead /\ aliveList'[t] = alive /\ agentsLeft'[t] = Dead
             /\ pc'[t] \in {"wait", "agents"} /\ host' = host
  BY <1>1 DEF Start, Alone, serverVars
<1>2. ASSUME NEW u \in Tool, Step(u) \/ Crash(u) PROVE u = t /\ Step(t) /\ Evacuates(t)
  <2>1. runs = 1 /\ pc[u] # "idle" /\ pc[t] # "idle"
    BY <1>2 DEF Step, Crash, Poll, EndWait, NextAgent, Finish, NextRouter, EndRouters,
                Remove, Add, GoTo, Exit
  <2>2. u = t
    BY <2>1 DEF Alone
  <2>3. ~ Crash(t)
    BY DEF Crash, Exit
  <2> QED BY <1>2, <2>2, <2>3
<1>3. CASE \E u \in Tool : Start(u)
  BY <1>1, <1>3 DEF Dead, StillToMove
<1>4. ASSUME Step(t), Evacuates(t), faults = 0, runs = 1, pc[t] # "idle",
             Poll(t) \/ EndWait(t) \/ NextAgent(t) \/ NextRouter(t) \/ EndRouters(t)
      PROVE  /\ dropped' = {}
             /\ deadList'[t] \cap aliveList'[t] = {}
             /\ pc'[t] \in {"remove", "add"} => targetId'[t] \in aliveList'[t]
             /\ \A r \in Router : host'[r] \in deadList'[t] => StillToMove(t, r)'
  <2> USE DEF Evacuates, StillToMove, Exit, serverVars, snapshot, progress
  <2>1. CASE Poll(t)
    BY <1>4, <2>1 DEF Poll
  <2>2. CASE EndWait(t)
    BY <1>4, <2>2 DEF EndWait
  <2>3. CASE NextAgent(t)
    BY <1>4, <2>3 DEF NextAgent, RoutersOn
  <2>4. CASE NextRouter(t)
    BY <1>4, <2>4 DEF NextRouter
  <2>5. CASE EndRouters(t)
    BY <1>4, <2>5 DEF EndRouters
  <2> QED BY <1>4, <2>1, <2>2, <2>3, <2>4, <2>5
<1>5. ASSUME Evacuates(t), Remove(t), runs = 1
      PROVE  /\ dropped' = {}
             /\ deadList'[t] \cap aliveList'[t] = {}
             /\ pc'[t] \in {"remove", "add"} => targetId'[t] \in aliveList'[t]
             /\ \A r \in Router : host'[r] \in deadList'[t] => StillToMove(t, r)'
  <2>1. PICK answer \in Answers :
           /\ RemoveRouterFromAgent(agentId[t], routerId[t], answer)
           /\ IF answer = "returned"
              THEN GoTo(t, "add") /\ UNCHANGED dropped
              ELSE /\ GoTo(t, "routers")
                   /\ IF host' = host THEN UNCHANGED dropped ELSE NoteDrop(routerId[t])
    BY <1>5 DEF Remove
  <2>2. pc[t] = "remove" /\ routerId[t] \in Router /\ agentId[t] \in Agent
    BY <1>5 DEF Remove, WorkOK
  <2>3. /\ faults = 0
        /\ \/ host[routerId[t]] = agentId[t] /\ answer = "returned"
              /\ host' = [host EXCEPT ![routerId[t]] = NoAgent]
           \/ host[routerId[t]] # agentId[t] /\ answer = "raised" /\ host' = host
    BY <2>1, <2>2 DEF RemoveRouterFromAgent, Rebind
  <2>4. /\ pc'[t] \in {"add", "routers"} /\ dropped' = dropped
        /\ UNCHANGED <<deadList, aliveList, agentsLeft, agentId, routersLeft, routerId, targetId>>
    BY <2>1, <2>2, <2>3 DEF GoTo, snapshot, progress
  <2>5. /\ dropped = {} /\ deadList[t] \cap aliveList[t] = {} /\ targetId[t] \in aliveList[t]
        /\ \A r \in Router : host[r] \in deadList[t] => StillToMove(t, r)
    BY <1>5, <2>2, <2>3 DEF Evacuates
  <2>6. ASSUME NEW r \in Router, host'[r] \in deadList'[t] PROVE StillToMove(t, r)'
    <3>1. host'[r] = host[r] /\ StillToMove(t, r)
      BY <2>3, <2>4, <2>5, <2>6, <2>2
    <3>2. r = routerId[t] => host[r] # agentId[t]
      BY <2>2, <2>3, <2>4, <2>6
    <3> QED BY <2>4, <3>1, <3>2 DEF StillToMove
  <2> QED BY <2>4, <2>5, <2>6
<1>6. ASSUME Evacuates(t), Add(t), runs = 1
      PROVE  /\ dropped' = {}
             /\ deadList'[t] \cap aliveList'[t] = {}
             /\ pc'[t] \in {"remove", "add"} => targetId'[t] \in aliveList'[t]
             /\ \A r \in Router : host'[r] \in deadList'[t] => StillToMove(t, r)'
  <2>1. PICK answer \in Answers :
           /\ AddRouterToAgent(targetId[t], routerId[t], answer)
           /\ GoTo(t, "routers")
           /\ NoteDrop(routerId[t])
    BY <1>6 DEF Add
  <2>2. pc[t] = "add" /\ routerId[t] \in Router /\ targetId[t] \in Agent
    BY <1>6 DEF Add, WorkOK
  <2>3. /\ faults = 0
        /\ \/ host' = [host EXCEPT ![routerId[t]] = targetId[t]]
           \/ host[routerId[t]] # NoAgent /\ host' = host
    BY <2>1, <2>2 DEF AddRouterToAgent, Rebind
  <2>4. /\ pc'[t] = "routers"
        /\ UNCHANGED <<deadList, aliveList, agentsLeft, agentId, routersLeft, routerId, targetId>>
    BY <2>1, <2>2 DEF GoTo, snapshot, progress
  <2>5. /\ dropped = {} /\ deadList[t] \cap aliveList[t] = {} /\ targetId[t] \in aliveList[t]
        /\ \A r \in Router : host[r] \in deadList[t] => StillToMove(t, r)
    BY <1>6, <2>2, <2>3 DEF Evacuates
  <2>6. dropped' = {}
    BY <2>1, <2>2, <2>3, <2>5 DEF NoteDrop
  <2>7. ASSUME NEW r \in Router, host'[r] \in deadList'[t] PROVE StillToMove(t, r)'
    <3>1. host'[r] = host[r] /\ StillToMove(t, r)
      BY <2>3, <2>4, <2>5, <2>7, <2>2
    <3> QED BY <2>2, <2>4, <3>1 DEF StillToMove
  <2> QED BY <2>4, <2>5, <2>6, <2>7
<1>7. CASE (AgentFlips /\ UNCHANGED toolVars) \/ UNCHANGED vars
  BY <1>7 DEF AgentFlips, toolVars, vars, serverVars, snapshot, progress, Evacuates, StillToMove
<1>8. ASSUME Step(t), Evacuates(t), \E u \in Tool : u = t /\ Step(u)
      PROVE  runs = 1 /\ pc[t] # "idle" /\ ~ Finish(t)
             /\ (Poll(t) \/ EndWait(t) \/ NextAgent(t) \/ NextRouter(t) \/ EndRouters(t)
                   => faults = 0)
  BY <1>8 DEF Step, Poll, EndWait, NextAgent, Finish, NextRouter, EndRouters,
              Remove, Add, GoTo, Exit, serverVars
<1>9. CASE \E u \in Tool : Step(u) \/ Crash(u)
  BY <1>2, <1>4, <1>5, <1>6, <1>8, <1>9 DEF Step
<1> QED BY <1>3, <1>7, <1>9 DEF Next

(* For any agents and routers, the first run, alone and without failing     *)
(* calls, leaves no router on an agent it found dead and loses none.        *)
THEOREM FirstRunEvacuates == Spec => FinishedRunEvacuates
<1> DEFINE Inv == Alone /\ \A t \in Tool : Evacuates(t)
           Goal == \A t \in Tool : pc[t] = "agents" /\ agentsLeft[t] = {} /\ pc'[t] = "idle"
                     /\ runs = 1 /\ faults = 0 /\ dropped = {}
                     => \A r \in Router : host[r] \notin deadList[t] \cup {NoAgent}
<1>1. Init => Inv
  BY DEF Init, Alone, Evacuates
<1>2. IInv /\ Inv /\ [Next]_vars => Inv'
  BY NextAlone, NextEvacuates
<1>3. IInv /\ Inv => Goal
  BY DEF IInv, UnhostedIsExplained, InFlight, Alone, Evacuates, StillToMove
<1> HIDE DEF Inv, Goal
<1>4. Spec => [][Goal]_vars
  BY <1>1, <1>2, <1>3, Inductive, PTL DEF Spec
<1> QED
  BY <1>4 DEF Goal, FinishedRunEvacuates

------------------------------------------------------------------------------
(* Every run ends                                                           *)

(* The numbers of agents and routers still to come are numbers.             *)
LEMMA CountsAreNat ==
    ASSUME TypeOK, NEW t \in Tool
    PROVE  /\ IsFiniteSet(agentsLeft[t]) /\ Cardinality(agentsLeft[t]) \in Nat
           /\ IsFiniteSet(routersLeft[t]) /\ Cardinality(routersLeft[t]) \in Nat
           /\ Cardinality(Router) \in Nat
  BY ServerAssumption, FS_Subset, FS_CardinalityType DEF TypeOK

LEMMA PerAgentTimes ==
    ASSUME NEW k \in Nat
    PROVE  /\ PerAgent * k \in Nat
           /\ k # 0 => PerAgent * (k - 1) = PerAgent * k - PerAgent
<1>1. Cardinality(Router) \in Nat
  BY ServerAssumption, FS_CardinalityType
<1>2. PerAgent \in Nat
  BY <1>1 DEF PerAgent
<1> HIDE DEF PerAgent
<1> QED
  BY <1>2

(* The ranks of the places an instance can be in.                           *)
LEMMA RankValues ==
    ASSUME TypeOK, NEW t \in Tool
    PROVE  LET a == 1 + PerAgent * Cardinality(agentsLeft[t])
               r == a + 1 + 3 * Cardinality(routersLeft[t])
           IN  /\ pc[t] = "idle" => Rank(t) = 0
               /\ pc[t] = "wait" => Rank(t) = 1 + a + (TakeoverDelay - timeout[t])
               /\ pc[t] = "agents" => Rank(t) = a
               /\ pc[t] = "routers" => Rank(t) = r
               /\ pc[t] = "remove" => Rank(t) = r + 2
               /\ pc[t] = "add" => Rank(t) = r + 1
               /\ a \in Nat /\ a > 0 /\ r \in Nat
               /\ TakeoverDelay - timeout[t] \in Nat
  <1>1. /\ Cardinality(agentsLeft[t]) \in Nat /\ Cardinality(routersLeft[t]) \in Nat
        /\ PerAgent * Cardinality(agentsLeft[t]) \in Nat
    BY CountsAreNat, PerAgentTimes
  <1>2. TakeoverDelay - timeout[t] \in Nat
    BY ToolAssumption DEF TypeOK
  <1> HIDE DEF PerAgent
  <1> QED
    BY <1>1, <1>2 DEF Rank

(* The end of an instance is its lowest rank.                               *)
LEMMA ExitRank ==
    ASSUME TypeOK, TypeOK', NEW t \in Tool, Exit(t), pc[t] # "idle"
    PROVE  Rank(t)' < Rank(t)
<1>1. pc'[t] = "idle"
  BY DEF Exit, TypeOK
<1>2. Rank(t)' = 0
  BY <1>1 DEF Rank
<1>3. pc[t] \in {"wait", "agents", "routers", "remove", "add"}
  BY DEF TypeOK
<1>4. Rank(t) > 0
  <2> DEFINE a == 1 + PerAgent * Cardinality(agentsLeft[t])
             k == Cardinality(routersLeft[t])
  <2>1. k \in Nat /\ a \in Nat /\ a > 0 /\ TakeoverDelay - timeout[t] \in Nat
    BY CountsAreNat, RankValues
  <2>2. Rank(t) \in {1 + a + (TakeoverDelay - timeout[t]), a, a + 1 + 3 * k,
                    a + 1 + 3 * k + 2, a + 1 + 3 * k + 1}
    BY <1>3, RankValues
  <2> HIDE DEF a, k
  <2> QED
    BY <2>1, <2>2
<1> QED
  BY <1>2, <1>4

(* Whatever a started instance does, its rank drops.                        *)
LEMMA RankDrops ==
    ASSUME TypeOK, TypeOK', NEW t \in Tool, pc[t] # "idle", Step(t) \/ Crash(t)
    PROVE  Rank(t)' < Rank(t)
<1> DEFINE a == 1 + PerAgent * Cardinality(agentsLeft[t])
           r == a + 1 + 3 * Cardinality(routersLeft[t])
<1>1. CASE Exit(t)
  BY <1>1, ExitRank
<1> SUFFICES ASSUME ~Exit(t) PROVE Rank(t)' < Rank(t)
  BY <1>1
<1>2. CASE Poll(t)
  <2>1. /\ pc[t] = "wait" /\ pc'[t] = "wait" /\ timeout'[t] = timeout[t] + 1
        /\ agentsLeft'[t] = agentsLeft[t] /\ timeout[t] < TakeoverDelay
    BY <1>2 DEF Poll, progress, TypeOK
  <2>2. /\ Rank(t) = 1 + a + (TakeoverDelay - timeout[t])
        /\ Rank(t)' = 1 + a + (TakeoverDelay - (timeout[t] + 1))
        /\ a \in Nat
    BY <2>1, RankValues DEF Rank
  <2> HIDE DEF a
  <2> QED
    BY <2>1, <2>2, ToolAssumption DEF TypeOK
<1>3. CASE EndWait(t)
  <2>1. pc[t] = "wait" /\ pc'[t] = "agents" /\ agentsLeft'[t] = agentsLeft[t]
    BY <1>3 DEF EndWait, progress, TypeOK
  <2>2. /\ Rank(t) = 1 + a + (TakeoverDelay - timeout[t])
        /\ TakeoverDelay - timeout[t] \in Nat
        /\ Rank(t)' = a /\ a \in Nat
    BY <2>1, RankValues DEF Rank
  <2> HIDE DEF a
  <2> QED
    BY <2>2
<1>4. CASE NextAgent(t)
  <2>1. PICK b \in agentsLeft[t] :
           /\ agentsLeft' = [agentsLeft EXCEPT ![t] = @ \ {b}]
           /\ routersLeft' = [routersLeft EXCEPT ![t] = RoutersOn(b)]
           /\ pc[t] = "agents" /\ pc' = [pc EXCEPT ![t] = "routers"]
    BY <1>4 DEF NextAgent
  <2> DEFINE k == Cardinality(agentsLeft[t])
             q == Cardinality(RoutersOn(b))
  <2>2. k \in Nat /\ k # 0 /\ Cardinality(agentsLeft[t] \ {b}) = k - 1
    BY CountsAreNat, FS_RemoveElement, FS_EmptySet
  <2>3. q \in Nat /\ q <= Cardinality(Router) /\ Cardinality(Router) \in Nat
    BY ServerAssumption, FS_Subset, FS_CardinalityType DEF RoutersOn
  <2>4. /\ pc'[t] = "routers" /\ agentsLeft'[t] = agentsLeft[t] \ {b}
        /\ routersLeft'[t] = RoutersOn(b)
    BY <2>1 DEF TypeOK
  <2>5. Rank(t) = 1 + PerAgent * k
    BY <2>1, RankValues
  <2>6. Rank(t)' = (1 + PerAgent * (k - 1)) + 1 + 3 * q
    BY <2>2, <2>4 DEF Rank
  <2>7. PerAgent * (k - 1) = PerAgent * k - PerAgent /\ PerAgent * k \in Nat
    BY <2>2, PerAgentTimes
  <2>8. 3 * q + 2 <= PerAgent /\ PerAgent \in Nat
    BY <2>3 DEF PerAgent
  <2> HIDE DEF k, q, PerAgent
  <2> QED
    BY <2>3, <2>5, <2>6, <2>7, <2>8
<1>5. CASE NextRouter(t)
  <2>1. PICK x \in routersLeft[t] :
           /\ routersLeft' = [routersLeft EXCEPT ![t] = @ \ {x}]
           /\ pc[t] = "routers" /\ pc' = [pc EXCEPT ![t] = "remove"]
           /\ agentsLeft' = agentsLeft
    BY <1>5 DEF NextRouter
  <2> DEFINE k == Cardinality(routersLeft[t])
  <2>2. k \in Nat /\ Cardinality(routersLeft[t] \ {x}) = k - 1
    BY CountsAreNat, FS_RemoveElement
  <2>3. /\ pc'[t] = "remove" /\ agentsLeft'[t] = agentsLeft[t]
        /\ routersLeft'[t] = routersLeft[t] \ {x}
    BY <2>1 DEF TypeOK
  <2>4. Rank(t) = a + 1 + 3 * k /\ a \in Nat
    BY <2>1, RankValues
  <2>5. Rank(t)' = (a + 1 + 3 * (k - 1)) + 2
    BY <2>2, <2>3 DEF Rank
  <2> HIDE DEF a, k
  <2> QED
    BY <2>2, <2>4, <2>5
<1>6. CASE EndRouters(t)
  <2>1. /\ pc[t] = "routers" /\ pc'[t] = "agents" /\ agentsLeft'[t] = agentsLeft[t]
    BY <1>6 DEF EndRouters, progress, TypeOK
  <2>2. Rank(t) = r /\ a \in Nat /\ r > a
    BY <2>1, RankValues, CountsAreNat
  <2>3. Rank(t)' = a
    BY <2>1 DEF Rank
  <2> QED
    BY <2>2, <2>3
<1>7. CASE Remove(t) \/ Add(t)
  <2>1. /\ routersLeft' = routersLeft /\ agentsLeft' = agentsLeft
        /\ \/ pc[t] = "remove" /\ pc'[t] \in {"add", "routers"}
           \/ pc[t] = "add" /\ pc'[t] = "routers"
    BY <1>7 DEF Remove, Add, GoTo, progress, TypeOK
  <2>2. /\ pc'[t] = "add" => Rank(t)' = r + 1
        /\ pc'[t] = "routers" => Rank(t)' = r
    BY <2>1 DEF Rank
  <2>3. /\ pc[t] = "remove" => Rank(t) = r + 2
        /\ pc[t] = "add" => Rank(t) = r + 1
        /\ r \in Nat
    BY RankValues
  <2> HIDE DEF r
  <2> QED
    BY <2>1, <2>2, <2>3
<1>8. ~Finish(t) /\ ~Crash(t)
  BY DEF Finish, Crash
<1> QED
  BY <1>2, <1>3, <1>4, <1>5, <1>6, <1>7, <1>8 DEF Step

(* Instances leave each other's variables alone.                            *)
LEMMA OthersApart ==
    ASSUME TypeOK, NEW t \in Tool, NEW u \in Tool \ {t}, Start(u) \/ Step(u) \/ Crash(u)
    PROVE  Own(t)' = Own(t)
  BY DEF Step, Start, Poll, EndWait, NextAgent, Finish, NextRouter, EndRouters, Remove, Add,
     Crash, Exit, GoTo, progress, Own, TypeOK

(* For any agents, routers and instances: a started instance has a bounded  *)
(* number of steps, whatever the server answers, the agents do and others   *)
(* move; with a process that is scheduled, every run ends.                  *)
THEOREM RunsAreBounded == Spec => StepsAreBounded
<1>1. IInv /\ IInv' /\ [Next]_vars =>
         \A t \in Tool : pc[t] # "idle" /\ Own(t)' # Own(t) => Rank(t)' < Rank(t)
  <2> SUFFICES ASSUME IInv, IInv', [Next]_vars, NEW t \in Tool, pc[t] # "idle",
                      Own(t)' # Own(t)
               PROVE  Rank(t)' < Rank(t)
    OBVIOUS
  <2>1. ~UNCHANGED toolVars /\ ~UNCHANGED vars
    BY DEF toolVars, progress, vars, Own
  <2>2. PICK u \in Tool : Start(u) \/ Step(u) \/ Crash(u)
    BY <2>1 DEF Next
  <2>3. u = t
    BY <2>2, OthersApart DEF IInv
  <2>4. Step(t) \/ Crash(t)
    BY <2>2, <2>3 DEF Start
  <2> QED
    BY <2>4, RankDrops DEF IInv
<1> QED
  BY <1>1, Inductive, PTL DEF Spec, StepsAreBounded
==============================================================================
