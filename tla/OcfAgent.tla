------------------------------- MODULE OcfAgent -------------------------------
(***************************************************************************)
(* The OCF agents of the OpenStack services, which Pacemaker runs to       *)
(* start, stop and watch a daemon on one host (cookbooks/openstack-ha,     *)
(* files/default/openstack/nova-api and its siblings).                     *)
(* All an agent knows of its daemon is a number in a pid file.  The daemon *)
(* may die at any moment, its number may be given to another process, and  *)
(* the LRM cuts an operation off when its time is over.  Operations on one *)
(* resource never overlap, but the shell that su starts in a session of its *)
(* own may outlive the operation it belongs to: it then forks the daemon,   *)
(* or only writes its number, at some later time.                           *)
(***************************************************************************)
EXTENDS Naturals

CONSTANTS
    Pid,              \* process numbers; those of dead processes are given out again
    NoFile, Empty,    \* the pid file does not exist, or has nothing in it
    ShutdownTimeout,  \* shutdown_timeout in polls of one second
    MaxShells         \* bound: shells of cut off starts that have yet to fork

ASSUME OcfAssumption ==
    /\ {NoFile, Empty} \cap Pid = {}
    /\ NoFile # Empty
    /\ ShutdownTimeout \in Nat
    /\ MaxShells \in Nat

VARIABLES
    owner,    \* pid -> whose process it is
    pidFile,  \* $OCF_RESKEY_pid
    pc,       \* what the operation under way does next
    pid,      \* the variable pid of stop, and $! of start
    count,
    answer,   \* of the last operation; "none" while one is under way or was cut off
    late,     \* daemons whose shell has still to write their number
    waiting,  \* shells of cut off starts that have yet to fork
    nameless, \* those of which the file has been removed meanwhile
    killed,   \* history: daemons that were sent SIGKILL
    cut       \* history: a start was cut off from a shell of su before its echo

operation == <<pc, pid, count, answer>>
orphans == <<waiting, nameless>>
vars == <<owner, pidFile, operation, late, orphans, killed, cut>>

Starting == {"start", "launch", "fork", "su", "spin"}
Stopping == {"stop", "term", "wait", "check", "kill", "remove"}

Daemons == {p \in Pid : owner[p] = "daemon"}

TypeOK ==
    /\ owner \in [Pid -> {"none", "daemon", "other"}]
    /\ pidFile \in Pid \cup {NoFile, Empty}
    /\ pc \in {"idle"} \cup Starting \cup Stopping
    /\ pid \in Pid \cup {Empty}
    /\ count \in 0..ShutdownTimeout
    /\ answer \in {"none", "started", "stopped", "error", "running", "not running"}
    /\ late \in SUBSET Pid
    /\ waiting \in Nat /\ nameless \in Nat /\ waiting + nameless <= MaxShells
    /\ killed \in SUBSET Pid
    /\ cut \in BOOLEAN

Init ==
    /\ owner \in [Pid -> {"none", "other"}]
    /\ pidFile = NoFile
    /\ pc = "idle"
    /\ pid = Empty
    /\ count = 0
    /\ answer = "none"
    /\ late = {}
    /\ waiting = 0 /\ nameless = 0
    /\ killed = {}
    /\ cut = FALSE

------------------------------------------------------------------------------
(* nova_api_status is OCF_SUCCESS: the file names a process that is there.  *)
Status == pidFile \in Pid /\ owner[pidFile] # "none"

(* The operation is over.                                                   *)
Return(a) ==
    /\ pc' = "idle"
    /\ pid' = Empty
    /\ count' = 0
    /\ answer' = a

Go(l) ==
    /\ pc' = l
    /\ UNCHANGED <<pid, count, answer>>

Monitor ==
    /\ pc = "idle"
    /\ Return(IF Status THEN "running" ELSE "not running")
    /\ UNCHANGED <<owner, pidFile, late, orphans, killed, cut>>

Call(l) ==
    /\ pc = "idle"
    /\ pc' = l
    /\ answer' = "none"
    /\ UNCHANGED <<owner, pidFile, pid, count, late, orphans, killed, cut>>

\* mutant: start does not ask for the status first
StartUnasked ==
    /\ pc = "start"
    /\ Go("launch")
    /\ UNCHANGED <<owner, pidFile, late, orphans, killed, cut>>

Start ==
    /\ pc = "start"
    /\ IF Status THEN Return("started") ELSE Go("launch")
    /\ UNCHANGED <<owner, pidFile, late, orphans, killed, cut>>

(* su ... > $OCF_RESKEY_pid: the agent's shell empties the file, ...        *)
Launch ==
    /\ pc = "launch"
    /\ pidFile' = Empty
    /\ Go("fork")
    /\ UNCHANGED <<owner, late, orphans, killed, cut>>

(* ... the shell of su forks the daemon, which is $!, ...                   *)
Fork ==
    /\ pc = "fork"
    /\ \E p \in Pid \ late :
          /\ owner[p] = "none"
          /\ owner' = [owner EXCEPT ![p] = "daemon"]
          /\ pid' = p
          /\ late' = late \cup {p}
    /\ pc' = "su"
    /\ UNCHANGED <<pidFile, count, answer, orphans, killed, cut>>

(* ... be its operation over or not; the file that it is to write may be    *)
(* gone by then, ...                                                        *)
LateFork ==
    \E p \in Pid \ late :
       /\ owner[p] = "none"
       /\ owner' = [owner EXCEPT ![p] = "daemon"]
       /\ \/ waiting > 0 /\ waiting' = waiting - 1 /\ late' = late \cup {p} /\ UNCHANGED nameless
          \/ nameless > 0 /\ nameless' = nameless - 1 /\ UNCHANGED <<late, waiting>>
       /\ UNCHANGED <<pidFile, operation, killed, cut>>

(* ... echo $! writes the number, unless the file has been removed since,   *)
(* ...                                                                      *)
Echo(p) ==
    /\ p \in late
    /\ pidFile' = p
    /\ late' = late \ {p}
    /\ UNCHANGED <<owner, operation, orphans, killed, cut>>

(* ... and su ends with its shell.                                          *)
Su ==
    /\ pc = "su"
    /\ pid \notin late
    /\ Go("spin")
    /\ UNCHANGED <<owner, pidFile, late, orphans, killed, cut>>

(* The loop until the monitor succeeds; with a daemon that is dead by then  *)
(* it goes on until the LRM ends it.                                        *)
Spin ==
    /\ pc = "spin"
    /\ Status
    /\ Return("started")
    /\ UNCHANGED <<owner, pidFile, late, orphans, killed, cut>>

------------------------------------------------------------------------------
(* "Already stopped" leaves the pid file as it is.                          *)
Stop ==
    /\ pc = "stop"
    /\ IF Status THEN Go("term") ELSE Return("stopped")
    /\ UNCHANGED <<owner, pidFile, late, orphans, killed, cut>>

(* SIGTERM: the daemon may die of it, now or later, or not (Die).           *)
Term ==
    /\ pc = "term"
    /\ IF Status
       THEN pc' = "wait" /\ pid' = pidFile /\ UNCHANGED <<count, answer>>
       ELSE Return("error")
    /\ UNCHANGED <<owner, pidFile, late, orphans, killed, cut>>

\* mutant: count is not advanced
WaitForever ==
    /\ pc = "wait"
    /\ IF Status /\ count < ShutdownTimeout
       THEN UNCHANGED <<pc, pid, count, answer>>
       ELSE Go("check")
    /\ UNCHANGED <<owner, pidFile, late, orphans, killed, cut>>

Wait ==
    /\ pc = "wait"
    /\ IF Status /\ count < ShutdownTimeout
       THEN count' = count + 1 /\ UNCHANGED <<pc, pid, answer>>
       ELSE Go("check")
    /\ UNCHANGED <<owner, pidFile, late, orphans, killed, cut>>

\* mutant: the wait is all that stop does
CheckNothing ==
    /\ pc = "check"
    /\ Go("remove")
    /\ UNCHANGED <<owner, pidFile, late, orphans, killed, cut>>

Check ==
    /\ pc = "check"
    /\ Go(IF Status THEN "kill" ELSE "remove")
    /\ UNCHANGED <<owner, pidFile, late, orphans, killed, cut>>

\* mutant: SIGKILL goes to every process of the daemon's name
KillAll ==
    /\ pc = "kill"
    /\ killed' = killed \cup Daemons
    /\ Go("remove")
    /\ UNCHANGED <<owner, pidFile, late, orphans, cut>>

(* SIGKILL, whose end is not awaited.                                       *)
Kill ==
    /\ pc = "kill"
    /\ killed' = killed \cup ({pid} \cap Daemons)
    /\ Go("remove")
    /\ UNCHANGED <<owner, pidFile, late, orphans, cut>>

(* A shell that writes after this writes to a file that has no name.        *)
Remove ==
    /\ pc = "remove"
    /\ pidFile' = NoFile
    /\ late' = {}
    /\ waiting' = 0 /\ nameless' = nameless + waiting
    /\ Return("stopped")
    /\ UNCHANGED <<owner, killed, cut>>

------------------------------------------------------------------------------
(* The LRM kills the operation when its time is over.  A shell of su that   *)
(* is at work may live on, before its fork as well as before its echo.      *)
CutOff ==
    /\ pc # "idle"
    /\ \/ UNCHANGED <<late, waiting, cut>> /\ ~(pc = "su" /\ pid \in late)
       \/ /\ pc = "su" /\ pid \in late
          /\ late' \in {late, late \ {pid}}
          /\ cut' = TRUE
          /\ UNCHANGED waiting
       \/ /\ pc = "fork" /\ waiting + nameless < MaxShells
          /\ waiting' = waiting + 1
          /\ cut' = TRUE
          /\ UNCHANGED late
    /\ Return("none")
    /\ UNCHANGED <<owner, pidFile, nameless, killed>>

(* A process ends, by itself or by a signal.                                *)
Die(p) ==
    /\ owner[p] # "none"
    /\ owner' = [owner EXCEPT ![p] = "none"]
    /\ killed' = killed \ {p}
    /\ UNCHANGED <<pidFile, operation, late, orphans, cut>>

(* Another process begins; it may get the number of a dead daemon, though   *)
(* not as soon as its shell is still about to write it.                     *)
OtherBegins(p) ==
    /\ owner[p] = "none" /\ p \notin late
    /\ owner' = [owner EXCEPT ![p] = "other"]
    /\ UNCHANGED <<pidFile, operation, late, orphans, killed, cut>>

Script ==
    \/ Start \/ Launch \/ Fork \/ Su \/ Spin
    \/ Stop \/ Term \/ Wait \/ Check \/ Kill \/ Remove

Next ==
    \/ Monitor
    \/ Call("start") \/ Call("stop")
    \/ Script
    \/ CutOff \/ LateFork
    \/ \E p \in Pid : Echo(p) \/ Die(p) \/ OtherBegins(p)

Spec == Init /\ [][Next]_vars

(* An operation is a process that is scheduled.                             *)
FairSpec == Spec /\ WF_vars(Script)

------------------------------------------------------------------------------
(* Properties                                                               *)

(* Daemons that are not about to die of SIGKILL.                            *)
Working == Daemons \ killed

(* Working daemons of which no file, shell or operation has the number.     *)
Lost == Working \ ({pidFile, pid} \cup late)

(* There is one working daemon at most and its number is kept, whatever     *)
(* dies, whoever gets the number in a stale pid file and wherever a stop is *)
(* cut off, unless a start was cut off while a shell of su that had yet to  *)
(* fork or to echo lived on, or died in between with the daemon forked.     *)
OneDaemon == ~cut => Lost = {} /\ \A p, q \in Working : p = q

(* Nor is there a working daemon when the last operation found or left      *)
(* none: Pacemaker may start one on another host.                           *)
AbsenceIsTrue ==
    ~cut /\ answer \in {"stopped", "not running"} => Working = {}

(* A lost daemon is lost for good: no later operation finds its number or   *)
(* sends it SIGKILL, though stop after stop answers "stopped".              *)
LostIsLost == [][\A p \in Lost : owner'[p] = "daemon" => p \in Lost']_vars

(* A stop ends by itself, before or after the LRM's timeout, whatever the   *)
(* daemon does.                                                             *)
StopEnds == pc \in Stopping ~> pc = "idle"
==============================================================================
