---------------------------- MODULE MysqlHaProofs ----------------------------
(***************************************************************************)
(* Proofs about MysqlHa for any number of hosts and any bound on faults.   *)
(***************************************************************************)
EXTENDS MysqlHa, TLAPS

(* InitHost may form a cluster only without its flag, and it leaves that    *)
(* state with a flag or with a cut.                                         *)
Settled == at[InitHost] = "touch" \/ InitHost \in flag

Counted ==
    /\ clusters <= cuts + 1
    /\ ~Settled => clusters <= cuts
    /\ cuts <= faults

(* A run under way belongs to a host without the flag.                      *)
FlaggedIsIdle == \A n \in flag : at[n] = "idle"

(* A host past its start has databases on its disk.                         *)
HoldsData ==
    \A n \in Node : n \in flag \/ at[n] = "touch" => data[n] # None

(* The clusters spoken of are clusters that were formed.                    *)
Formed ==
    /\ primary \subseteq 1..clusters
    /\ content \subseteq 1..clusters
    /\ \A n \in Node : data[n] \in 0..clusters

ManagedIsInstalled == (managed => flag = Node) /\ (content # {} => managed)

IInv ==
    TypeOK /\ Counted /\ FlaggedIsIdle /\ HoldsData /\ Formed /\ ManagedIsInstalled

------------------------------------------------------------------------------
LEMMA LosingKeepsFewer ==
    ASSUME NEW n PROVE PrimaryAfterLosing(n) \subseteq primary
  BY DEF PrimaryAfterLosing

LEMMA InitIInv == Init => IInv
<1> SUFFICES ASSUME Init PROVE IInv
  OBVIOUS
<1> USE FaultsAssumption, InitHostAssumption DEF Init, ServerInit
<1>1. TypeOK
  <2>1. ServerTypeOK
    BY DEF ServerTypeOK
  <2>2. at \in [Node -> Step] /\ flag \in SUBSET Node /\ content \in SUBSET Cluster
    BY DEF Step
  <2>3. cuts \in 0..MaxFaults /\ faults \in 0..MaxFaults
    OBVIOUS
  <2>4. managed \in BOOLEAN
    OBVIOUS
  <2> QED
    BY <2>1, <2>2, <2>3, <2>4, Zenon DEF TypeOK
<1>2. Counted
  BY DEF Counted
<1>3. FlaggedIsIdle /\ HoldsData /\ Formed /\ ManagedIsInstalled
  BY DEF FlaggedIsIdle, HoldsData, Formed, ManagedIsInstalled, None
<1> QED
  BY <1>1, <1>2, <1>3 DEF IInv

(* The hosts' chef runs.                                                    *)
LEMMA RecipeStep ==
    ASSUME IInv, NEW n \in Node, Recipe(n) \/ CutOff(n)
    PROVE  IInv'
<1> USE FaultsAssumption, InitHostAssumption
<1>1. CASE Begin(n)
  BY <1>1 DEF Begin, GoTo, serverVars, IInv, TypeOK, ServerTypeOK, Step, Counted,
     Settled, FlaggedIsIdle, HoldsData, Formed, ManagedIsInstalled
<1>2. CASE Purge(n)
  <2>1. primary' \subseteq primary
    BY <1>2, LosingKeepsFewer DEF Purge, Vanish
  <2>2. n \notin flag
    BY <1>2 DEF Purge, IInv, FlaggedIsIdle
  <2>3. TypeOK'
    BY <1>2, <2>1 DEF Purge, Vanish, GoTo, IInv, TypeOK, ServerTypeOK, Step
  <2>4. Counted' /\ FlaggedIsIdle' /\ HoldsData' /\ ManagedIsInstalled'
    BY <1>2, <2>2 DEF Purge, Vanish, GoTo, IInv, TypeOK, ServerTypeOK, Step, Counted,
       Settled, FlaggedIsIdle, HoldsData, ManagedIsInstalled
  <2>5. Formed'
    <3>1. \A m \in Node : data'[m] = IF m = n THEN 0 ELSE data[m]
      BY <1>2 DEF Purge, IInv, TypeOK, ServerTypeOK, None
    <3>2. clusters' = clusters /\ content' = content /\ clusters \in Nat
      BY <1>2 DEF Purge, Vanish, IInv, TypeOK, ServerTypeOK
    <3> QED
      BY <2>1, <3>1, <3>2 DEF IInv, Formed
  <2> QED
    BY <2>3, <2>4, <2>5 DEF IInv
<1>3. CASE StartInit(n)
  <2>1. n = InitHost /\ n \notin flag /\ ~Settled /\ clusters <= cuts
    BY <1>3 DEF StartInit, IInv, TypeOK, FlaggedIsIdle, Counted, Settled
  <2>2. clusters \in Nat /\ cuts \in Nat /\ faults \in Nat /\ cuts <= faults
        /\ faults <= MaxFaults
    BY DEF IInv, TypeOK, ServerTypeOK, Counted
  <2>3. CASE FormCluster(n) /\ GoTo(n, "touch") /\ UNCHANGED <<faults, cuts>>
    BY <1>3, <2>1, <2>2, <2>3 DEF StartInit, FormCluster, GoTo, IInv, TypeOK,
       ServerTypeOK, Step, Cluster, None, Counted, Settled, FlaggedIsIdle, HoldsData,
       Formed, ManagedIsInstalled
  <2>4. CASE FormCluster(n) /\ GoTo(n, "idle") /\ Fault /\ cuts' = cuts + 1
    BY <1>3, <2>1, <2>2, <2>4 DEF StartInit, FormCluster, GoTo, Fault, IInv, TypeOK,
       ServerTypeOK, Step, Cluster, None, Counted, Settled, FlaggedIsIdle, HoldsData,
       Formed, ManagedIsInstalled
  <2>5. CASE UNCHANGED <<serverVars, cuts>> /\ GoTo(n, "idle") /\ Fault
    BY <1>3, <2>1, <2>2, <2>5 DEF StartInit, GoTo, Fault, serverVars, IInv, TypeOK,
       ServerTypeOK, Step, Counted, Settled, FlaggedIsIdle, HoldsData, Formed,
       ManagedIsInstalled
  <2> QED
    BY <1>3, <2>3, <2>4, <2>5 DEF StartInit
<1>4. CASE StartJoin(n)
  <2>1. n # InitHost /\ n \notin flag
    BY <1>4 DEF StartJoin, IInv, FlaggedIsIdle
  <2>2. /\ member' \in [Node -> Cluster \cup {None}]
        /\ data' \in [Node -> Cluster \cup {None}]
        /\ \A m \in Node : m # n => data'[m] = data[m]
        /\ data'[n] \in 0..clusters
        /\ UNCHANGED <<primary, clusters>>
    BY <1>4 DEF StartJoin, Join, serverVars, IInv, TypeOK, ServerTypeOK, Formed
  <2>3. /\ at' \in [Node -> Step]
        /\ \A m \in Node : m # n => at'[m] = at[m]
        /\ at'[n] = "idle" \/ (at'[n] = "touch" /\ data'[n] # None)
    BY <1>4 DEF StartJoin, Join, GoTo, IInv, TypeOK, ServerTypeOK, Step, Cluster, None
  <2>4. /\ faults' \in 0..MaxFaults
        /\ faults <= faults'
        /\ UNCHANGED <<flag, cuts, managed, content>>
    BY <1>4 DEF StartJoin, Fault, IInv, TypeOK
  <2> QED
    BY <2>1, <2>2, <2>3, <2>4 DEF IInv, TypeOK, ServerTypeOK, Counted, Settled,
       FlaggedIsIdle, HoldsData, Formed, ManagedIsInstalled
<1>5. CASE TouchFlag(n)
  BY <1>5 DEF TouchFlag, GoTo, serverVars, IInv, TypeOK, ServerTypeOK, Step, Counted,
     Settled, FlaggedIsIdle, HoldsData, Formed, ManagedIsInstalled
<1>6. CASE CutOff(n)
  BY <1>6 DEF CutOff, GoTo, Fault, serverVars, IInv, TypeOK, ServerTypeOK, Step,
     Counted, Settled, FlaggedIsIdle, HoldsData, Formed, ManagedIsInstalled
<1> QED
  BY <1>1, <1>2, <1>3, <1>4, <1>5, <1>6 DEF Recipe

(* The servers' own life, under Pacemaker.                                  *)
LEMMA ServerStep ==
    ASSUME IInv, NEW n \in Node, AgentStart(n) \/ AgentStop(n) \/ MysqldDies(n)
    PROVE  IInv'
<1>1. /\ primary' \subseteq primary
      /\ UNCHANGED <<at, flag, cuts, managed, content, clusters>>
      /\ member' \in [Node -> Cluster \cup {None}]
  BY LosingKeepsFewer DEF AgentStart, AgentStop, MysqldDies, Join, Leave, Vanish,
     recipeVars, IInv, TypeOK, ServerTypeOK
<1>2. /\ data' \in [Node -> Cluster \cup {None}]
      /\ \A m \in Node : /\ data'[m] \in 0..clusters
                         /\ data[m] # None => data'[m] # None
  BY DEF AgentStart, AgentStop, MysqldDies, Join, Leave, IInv, TypeOK, ServerTypeOK,
     Formed, Cluster, None
<1>3. faults' \in 0..MaxFaults /\ faults <= faults'
  BY FaultsAssumption DEF AgentStart, AgentStop, MysqldDies, Fault, recipeVars, IInv, TypeOK
<1> QED
  BY <1>1, <1>2, <1>3 DEF IInv, TypeOK, ServerTypeOK, Counted, Settled, FlaggedIsIdle,
     HoldsData, Formed, ManagedIsInstalled

LEMMA NextIInv == IInv /\ [Next]_vars => IInv'
<1> SUFFICES ASSUME IInv, [Next]_vars PROVE IInv'
  OBVIOUS
<1>1. ASSUME NEW n \in Node, Recipe(n) \/ CutOff(n) PROVE IInv'
  BY <1>1, RecipeStep
<1>2. ASSUME NEW n \in Node, AgentStart(n) \/ AgentStop(n) \/ MysqldDies(n)
      PROVE  IInv'
  BY <1>2, ServerStep
<1>3. CASE Manage
  BY <1>3 DEF Manage, serverVars, IInv, TypeOK, ServerTypeOK, Counted, Settled,
     FlaggedIsIdle, HoldsData, Formed, ManagedIsInstalled
<1>4. CASE CreateDatabases
  BY <1>4 DEF CreateDatabases, serverVars, IInv, TypeOK, ServerTypeOK, Counted, Settled,
     FlaggedIsIdle, HoldsData, Formed, ManagedIsInstalled
<1>5. CASE UNCHANGED vars
  BY <1>5 DEF vars, serverVars, recipeVars, IInv, TypeOK, ServerTypeOK, Counted, Settled,
     FlaggedIsIdle, HoldsData, Formed, ManagedIsInstalled
<1> QED
  BY <1>1, <1>2, <1>3, <1>4, <1>5 DEF Next

LEMMA Invariance == Spec => []IInv
  BY InitIInv, NextIInv, PTL DEF Spec

------------------------------------------------------------------------------
(* Every variable keeps its type; in particular the clusters formed never   *)
(* outnumber the faults by more than one.                                   *)
THEOREM TypeCorrect == Spec => []TypeOK
<1>1. IInv => TypeOK
  BY DEF IInv
<1> QED
  BY <1>1, Invariance, PTL

(* However many hosts: one cluster, plus one per run of InitHost that was   *)
(* cut between its start and its flag.                                      *)
THEOREM OneClusterPerCut == Spec => []ClustersAreCounted
<1>1. IInv => ClustersAreCounted
  BY DEF IInv, Counted, ClustersAreCounted, TypeOK, ServerTypeOK
<1> QED
  BY <1>1, Invariance, PTL

(* However many hosts and faults: without such a cut the databases that      *)
(* OpenStack was given stay on a disk.                                       *)
THEOREM DatabaseIsKept == Spec => []DatabaseSurvives
<1>1. IInv => DatabaseSurvives
  <2> SUFFICES ASSUME IInv, content # {}, cuts = 0
               PROVE  data[InitHost] \in content
    BY InitHostAssumption DEF DatabaseSurvives
  <2>1. clusters \in 0..1
    BY DEF IInv, Counted, TypeOK, ServerTypeOK
  <2>2. content = {1} /\ clusters = 1
    <3>1. content \subseteq 1..clusters
      BY DEF IInv, Formed
    <3>2. PICK c \in content : c \in 1..clusters
      BY <3>1
    <3>3. clusters = 1 /\ c = 1
      BY <2>1, <3>2
    <3>4. \A d \in content : d = 1
      BY <3>1, <3>3
    <3> QED
      BY <3>3, <3>4
  <2>3. data[InitHost] # None
    BY InitHostAssumption DEF IInv, HoldsData, ManagedIsInstalled
  <2> QED
    BY <2>2, <2>3, InitHostAssumption DEF IInv, Formed, None
<1> QED
  BY <1>1, Invariance, PTL

(* However many hosts and faults: nothing after the installation brings a   *)
(* lost primary component back.                                             *)
THEOREM NothingFormsAgain == Spec => OutageIsForGood
<1>1. IInv /\ [Next]_vars
        => [(InitHost \in flag /\ primary = {}) => (primary' = {})]_vars
  <2> SUFFICES ASSUME IInv, Next, InitHost \in flag, primary = {}
               PROVE  primary' = {}
    OBVIOUS
  <2>1. \A n \in Node : ~StartInit(n)
    BY DEF StartInit, IInv, FlaggedIsIdle
  <2>2. primary' \subseteq primary
    BY <2>1, LosingKeepsFewer DEF Next, Recipe, Begin, Purge, StartJoin, TouchFlag,
       CutOff, AgentStart, AgentStop, MysqldDies, Manage, CreateDatabases, Join, Leave,
       Vanish, serverVars
  <2> QED
    BY <2>2
<1> QED
  BY <1>1, Invariance, PTL DEF Spec, OutageIsForGood
==============================================================================
