------------------------------- MODULE MysqlHa -------------------------------
(***************************************************************************)
(* The database tier: recipe galera::server on every host of the wave with *)
(* role mysql-ha, then the Pacemaker clone with agent mysql2.  A flag file *)
(* on each host, touched as the recipe's last step, tells a first run from *)
(* a later one: without it a run kills mysqld, empties the data directory  *)
(* and starts anew.  The hosts of the wave converge at the same time.      *)
(* Chef runs at most once at a time on a host.                             *)
(***************************************************************************)
EXTENDS GaleraServer

CONSTANT InitHost      \* init_node of the data bag

ASSUME InitHostAssumption == InitHost \in Node

VARIABLES
    at,        \* host -> the step its chef run is about to take
    flag,      \* hosts with install_flag
    cuts,      \* history: runs on InitHost that ended between start and flag
    faults,    \* faults so far
    managed,   \* pacemaker-mysql has created the clone MYSQL
    content    \* clusters the OpenStack databases were written to

recipeVars == <<at, flag, cuts, faults, managed, content>>
vars == <<serverVars, recipeVars>>

Step == {"idle", "purge", "start", "touch"}

TypeOK ==
    /\ ServerTypeOK
    /\ at \in [Node -> Step]
    /\ flag \in SUBSET Node
    /\ cuts \in 0..MaxFaults
    /\ faults \in 0..MaxFaults
    /\ managed \in BOOLEAN
    /\ content \in SUBSET Cluster

Init ==
    /\ ServerInit
    /\ at = [n \in Node |-> "idle"]
    /\ flag = {}
    /\ cuts = 0
    /\ faults = 0
    /\ managed = FALSE
    /\ content = {}

------------------------------------------------------------------------------
(* The recipe                                                               *)

GoTo(n, step) == at' = [at EXCEPT ![n] = step]

Fault ==
    /\ faults < MaxFaults
    /\ faults' = faults + 1

\* mutant: the purge is not guarded by the flag
BeginAnyway(n) ==
    /\ at[n] = "idle"
    /\ GoTo(n, "purge")
    /\ UNCHANGED <<serverVars, flag, cuts, faults, managed, content>>

\* mutant: a data directory that is not empty counts as installed
BeginUnlessData(n) ==
    /\ at[n] = "idle"
    /\ n \notin flag
    /\ data[n] = None
    /\ GoTo(n, "purge")
    /\ UNCHANGED <<serverVars, flag, cuts, faults, managed, content>>

(* chef-client starts.  On a host with the flag nothing below runs: every   *)
(* resource that touches mysqld or its data asks for the flag.              *)
Begin(n) ==
    /\ at[n] = "idle"
    /\ n \notin flag
    /\ GoTo(n, "purge")
    /\ UNCHANGED <<serverVars, flag, cuts, faults, managed, content>>

(* killall -9, then rm -rf of the data directory; mysql_install_db fills it *)
(* again with empty system tables.  The rm of the flag names a path that    *)
(* does not exist.                                                          *)
Purge(n) ==
    /\ at[n] = "purge"
    /\ Vanish(n)
    /\ data' = [data EXCEPT ![n] = None]
    /\ GoTo(n, "start")
    /\ UNCHANGED <<flag, cuts, faults, managed, content>>

(* InitHost never looks for a cluster of the others.  The init script may   *)
(* also report failure, with or without mysqld running: the run ends.       *)
StartInit(n) ==
    /\ at[n] = "start"
    /\ n = InitHost
    /\ \/ FormCluster(n) /\ GoTo(n, "touch") /\ UNCHANGED <<faults, cuts>>
       \/ FormCluster(n) /\ GoTo(n, "idle") /\ Fault /\ cuts' = cuts + 1
       \/ UNCHANGED <<serverVars, cuts>> /\ GoTo(n, "idle") /\ Fault
    /\ UNCHANGED <<flag, managed, content>>

(* The joiner only slept for 30 seconds: InitHost may not be up yet.        *)
StartJoin(n) ==
    /\ at[n] = "start"
    /\ n # InitHost
    /\ \/ Join(n) /\ GoTo(n, "touch") /\ UNCHANGED faults
       \/ Join(n) /\ GoTo(n, "idle") /\ Fault
       \/ UNCHANGED serverVars /\ GoTo(n, "idle") /\ Fault
       \/ primary = {} /\ UNCHANGED <<serverVars, faults>> /\ GoTo(n, "idle")
    /\ UNCHANGED <<flag, cuts, managed, content>>

\* mutant: the flag is touched by joiners only
TouchFlagOfJoiners(n) ==
    /\ at[n] = "touch"
    /\ flag' = flag \cup ({n} \ {InitHost})
    /\ GoTo(n, "idle")
    /\ UNCHANGED <<serverVars, cuts, faults, managed, content>>

(* InitHost waits a few turns to be synced, goes on whatever the answer,    *)
(* and secures the root account; every host touches the flag.               *)
TouchFlag(n) ==
    /\ at[n] = "touch"
    /\ flag' = flag \cup {n}
    /\ GoTo(n, "idle")
    /\ UNCHANGED <<serverVars, cuts, faults, managed, content>>

(* The run fails or is killed between two steps.                            *)
CutOff(n) ==
    /\ at[n] # "idle"
    /\ Fault
    /\ cuts' = (IF n = InitHost /\ at[n] = "touch" THEN cuts + 1 ELSE cuts)
    /\ GoTo(n, "idle")
    /\ UNCHANGED <<serverVars, flag, managed, content>>

------------------------------------------------------------------------------
(* Later waves: role pacemaker-mysql-config, then the databases             *)

Manage ==
    /\ flag = Node
    /\ ~managed
    /\ managed' = TRUE
    /\ UNCHANGED <<serverVars, at, flag, cuts, faults, content>>

CreateDatabases ==
    /\ managed
    /\ \E c \in primary : content' = content \cup {c}
    /\ UNCHANGED <<serverVars, at, flag, cuts, faults, managed>>

\* mutant: the agent forms a cluster when it finds none
AgentStartForms(n) ==
    /\ managed
    /\ member[n] = None
    /\ IF primary = {} /\ clusters <= MaxFaults THEN FormCluster(n) ELSE Join(n)
    /\ UNCHANGED recipeVars

(* mysql_start of the agent: the init script with the addresses of my.cnf,  *)
(* then polls; a mysqld that gives up is reported as not running.           *)
AgentStart(n) ==
    /\ managed
    /\ member[n] = None
    /\ Join(n)
    /\ UNCHANGED recipeVars

(* mysql_stop: it reports success even if mysqld outlives its wait, in      *)
(* which case the SIGTERM takes effect later, or never.                     *)
AgentStop(n) ==
    /\ managed
    /\ member[n] # None
    /\ Leave(n)
    /\ UNCHANGED recipeVars

MysqldDies(n) ==
    /\ member[n] # None
    /\ Fault
    /\ Vanish(n)
    /\ UNCHANGED <<data, at, flag, cuts, managed, content>>

Recipe(n) ==
    Begin(n) \/ Purge(n) \/ StartInit(n) \/ StartJoin(n) \/ TouchFlag(n)

Next ==
    \/ \E n \in Node :
          Recipe(n) \/ CutOff(n) \/ AgentStart(n) \/ AgentStop(n) \/ MysqldDies(n)
    \/ Manage
    \/ CreateDatabases

Spec == Init /\ [][Next]_vars

(* A chef run goes on, and the operator starts a failed one again.          *)
FairSpec == Spec /\ \A n \in Node : WF_vars(Recipe(n))

------------------------------------------------------------------------------
(* Properties                                                               *)

(* InitHost forms one cluster, plus one more for each of its runs that ended *)
(* after the start and before the flag: only those can split the databases   *)
(* over two clusters.  Failures of joiners, reruns of finished hosts and      *)
(* Pacemaker's starts after an outage never do.                              *)
ClustersAreCounted == clusters <= 1 + cuts

(* The OpenStack databases, once written, stay on some host's disk: through  *)
(* reruns of the recipe, crashes, stops and restarts, in any order, provided *)
(* no run on InitHost was cut between its start and its flag.                *)
DatabaseSurvives ==
    content # {} /\ cuts = 0 => \E n \in Node : data[n] \in content

(* Once InitHost has its flag, an outage of every primary component is for   *)
(* good: neither a rerun of the recipe nor the agent forms a cluster again.  *)
OutageIsForGood ==
    [][(InitHost \in flag /\ primary = {}) => (primary' = {})]_vars

(* With reruns, the wave ends: every host gets its flag, whichever runs were *)
(* cut or lost the race with InitHost; except after an outage, when no       *)
(* joiner will ever finish.                                                  *)
InstallSettles ==
    <>(flag = Node \/ (InitHost \in flag /\ primary = {}))
==============================================================================
