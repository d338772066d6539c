---------------------------- MODULE GaleraServer ----------------------------
(***************************************************************************)
(* mysqld with the wsrep provider, as far as the galera recipe and the     *)
(* mysql2 agent drive it; external to the repository.  The servers of one  *)
(* cluster replicate one set of databases, and serve them while they are   *)
(* a primary component: a majority of its previous members.  The network   *)
(* between the hosts is whole.                                             *)
(***************************************************************************)
EXTENDS Naturals, FiniteSets

CONSTANTS
    Node,       \* the galera_nodes of the data bag
    MaxFaults   \* bound: interrupted chef runs and crashes of mysqld

ASSUME FaultsAssumption == MaxFaults \in Nat

Cluster == 1..(MaxFaults + 1)
None    == 0

VARIABLES
    member,     \* host -> cluster its running mysqld belongs to
    data,       \* host -> cluster whose databases its data directory holds
    primary,    \* clusters with a primary component
    clusters    \* clusters formed so far

serverVars == <<member, data, primary, clusters>>

ServerTypeOK ==
    /\ member \in [Node -> Cluster \cup {None}]
    /\ data \in [Node -> Cluster \cup {None}]
    /\ primary \in SUBSET Cluster
    /\ clusters \in 0..(MaxFaults + 1)

ServerInit ==
    /\ member = [n \in Node |-> None]
    /\ data = [n \in Node |-> None]
    /\ primary = {}
    /\ clusters = 0

Members(c) == {n \in Node : member[n] = c}

(* The cluster's remaining servers after one of them vanished: without a    *)
(* majority of the members there were, nobody serves any more, for good.    *)
PrimaryAfterLosing(n) ==
    LET c    == member[n]
        left == Members(c) \ {n}
    IN  IF 2 * Cardinality(left) > Cardinality(Members(c)) THEN primary
        ELSE primary \ {c}

(* mysqld started with the address gcomm://: a cluster of its own.          *)
FormCluster(n) ==
    /\ clusters' = clusters + 1
    /\ member' = [member EXCEPT ![n] = clusters']
    /\ data' = [data EXCEPT ![n] = clusters']
    /\ primary' = primary \cup {clusters'}

(* mysqld started with the addresses of all hosts: it takes the state of a  *)
(* primary component; where there is none it gives up.                      *)
Join(n) ==
    \E c \in primary :
       /\ member' = [member EXCEPT ![n] = c]
       /\ data' = [data EXCEPT ![n] = c]
       /\ UNCHANGED <<primary, clusters>>

(* SIGTERM: the others go on without it; the last one ends the cluster.     *)
Leave(n) ==
    /\ member' = [member EXCEPT ![n] = None]
    /\ primary' = (IF Members(member[n]) = {n} THEN primary \ {member[n]} ELSE primary)
    /\ UNCHANGED <<data, clusters>>

(* SIGKILL or a crash.                                                      *)
Vanish(n) ==
    /\ member' = [member EXCEPT ![n] = None]
    /\ primary' = PrimaryAfterLosing(n)
    /\ UNCHANGED clusters
==============================================================================
