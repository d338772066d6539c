------------------------------ MODULE Bootstrap ------------------------------
(***************************************************************************)
(* Chef.bootstrap of scripts/install_openstack.py: the operator's          *)
(* workstation converges the cluster wave by wave.  One `knife bootstrap`  *)
(* process per host of the wave is started, all of a wave run at once, and *)
(* a loop polls them: a process that ended is dropped from `dict`; one     *)
(* that ended with a nonzero code ends the script with exit(1), and the    *)
(* processes still in `dict` are left running with nobody to wait for      *)
(* them.  When `dict` is empty the next wave starts.  The operator may     *)
(* start the script again after it ended, while such orphans still run.    *)
(***************************************************************************)
EXTENDS Naturals, Sequences, FiniteSets

CONSTANTS
    Node,      \* the hosts of the XML file
    Commands,  \* the waves: Commands[w] is the set of hosts of wave w
    MaxRuns    \* bound: how often the operator starts the script

\* get_node_roles_sequence never appends a wave without hosts
ASSUME CommandsAssumption ==
    /\ Commands \in Seq(SUBSET Node)
    /\ \A w \in 1..Len(Commands) : Commands[w] # {} /\ IsFiniteSet(Commands[w])

ASSUME MaxRunsAssumption == MaxRuns \in Nat

Run  == 1..MaxRuns
Wave == 1..Len(Commands)

Outcome == {"absent", "running", "ok", "failed"}
Verdict == {"none", "running", "finished", "failed", "killed"}

VARIABLES
    pc,          \* where the script is: not running, starting a wave, polling it
    run,         \* the number of times the script was started
    wave,        \* the wave `info` of the outer loop
    unlaunched,  \* hosts of the wave the first inner loop has not reached
    dict,        \* hosts whose process the script still holds
    sweep,       \* hosts the current pass over dict.items() has not polled yet
    process,     \* run -> wave -> host -> state of that knife bootstrap
    verdict      \* run -> what the script reported: the exit it took

vars == <<pc, run, wave, unlaunched, dict, sweep, process, verdict>>

TypeOK ==
    /\ pc \in {"idle", "launch", "poll"}
    /\ run \in 0..MaxRuns
    /\ wave \in 1..(Len(Commands) + 1)
    /\ unlaunched \in SUBSET Node
    /\ dict \in SUBSET Node
    /\ sweep \in SUBSET Node
    /\ process \in [Run -> [Wave -> [Node -> Outcome]]]
    /\ verdict \in [Run -> Verdict]

Init ==
    /\ pc = "idle"
    /\ run = 0
    /\ wave = 1
    /\ unlaunched = {}
    /\ dict = {}
    /\ sweep = {}
    /\ process = [r \in Run |-> [w \in Wave |-> [n \in Node |-> "absent"]]]
    /\ verdict = [r \in Run |-> "none"]

------------------------------------------------------------------------------
(* The script                                                               *)

(* The head of the outer loop: the hosts of the next wave, or, past the     *)
(* last one, the message "Install finished".                                *)
EnterWave(r, w) ==
    /\ wave' = w
    /\ dict' = {}
    /\ sweep' = {}
    /\ \/ /\ w \in Wave
          /\ pc' = "launch"
          /\ unlaunched' = Commands[w]
          /\ verdict' = [verdict EXCEPT ![r] = "running"]
       \/ /\ w \notin Wave
          /\ pc' = "idle"
          /\ unlaunched' = {}
          /\ verdict' = [verdict EXCEPT ![r] = "finished"]
    /\ UNCHANGED process

StartScript ==
    /\ pc = "idle"
    /\ run < MaxRuns
    /\ run' = run + 1
    /\ EnterWave(run + 1, 1)

(* subprocess.Popen for one host of the wave; dict.items() has no order.    *)
Launch(n) ==
    /\ pc = "launch"
    /\ n \in unlaunched
    /\ process' = [process EXCEPT ![run][wave][n] = "running"]
    /\ unlaunched' = unlaunched \ {n}
    /\ dict' = dict \cup {n}
    /\ IF unlaunched = {n}
       THEN pc' = "poll" /\ sweep' = dict'
       ELSE UNCHANGED <<pc, sweep>>
    /\ UNCHANGED <<run, wave, verdict>>

\* mutant: the pass ends at the first process that is still running
PollRunningBreak(n) ==
    /\ pc = "poll"
    /\ n \in sweep
    /\ process[run][wave][n] = "running"
    /\ sweep' = {}
    /\ UNCHANGED <<pc, run, wave, unlaunched, dict, process, verdict>>

(* process.poll() is None                                                   *)
PollRunning(n) ==
    /\ pc = "poll"
    /\ n \in sweep
    /\ process[run][wave][n] = "running"
    /\ sweep' = sweep \ {n}
    /\ UNCHANGED <<pc, run, wave, unlaunched, dict, process, verdict>>

(* Return code 0: the host is popped from dict.                             *)
PollSuccess(n) ==
    /\ pc = "poll"
    /\ n \in sweep
    /\ process[run][wave][n] = "ok"
    /\ sweep' = sweep \ {n}
    /\ dict' = dict \ {n}
    /\ UNCHANGED <<pc, run, wave, unlaunched, process, verdict>>

\* mutant: the exit waits until no other process of the wave is left
PollFailureLast(n) ==
    /\ pc = "poll"
    /\ n \in sweep
    /\ dict = {n}
    /\ process[run][wave][n] = "failed"
    /\ pc' = "idle"
    /\ sweep' = {}
    /\ dict' = {}
    /\ verdict' = [verdict EXCEPT ![run] = "failed"]
    /\ UNCHANGED <<run, wave, unlaunched, process>>

\* mutant: the failed host is reported and popped, but there is no exit(1)
PollFailureGoOn(n) ==
    /\ pc = "poll"
    /\ n \in sweep
    /\ process[run][wave][n] = "failed"
    /\ sweep' = sweep \ {n}
    /\ dict' = dict \ {n}
    /\ UNCHANGED <<pc, run, wave, unlaunched, process, verdict>>

(* Any other return code: exit(1) in the middle of the pass.  Whatever else *)
(* dict holds goes on without the script.                                   *)
PollFailure(n) ==
    /\ pc = "poll"
    /\ n \in sweep
    /\ process[run][wave][n] = "failed"
    /\ pc' = "idle"
    /\ sweep' = {}
    /\ dict' = {}
    /\ verdict' = [verdict EXCEPT ![run] = "failed"]
    /\ UNCHANGED <<run, wave, unlaunched, process>>

\* mutant: the pass is not repeated, the next wave starts after one pass
EndSweepOnce ==
    /\ pc = "poll"
    /\ sweep = {}
    /\ EnterWave(run, wave + 1)
    /\ UNCHANGED run

\* mutant: the loop is not entered again after the sleep
EndSweepNoRearm ==
    /\ pc = "poll"
    /\ sweep = {}
    /\ dict = {}
    /\ EnterWave(run, wave + 1)
    /\ UNCHANGED run

(* The pass is over: break when dict is empty, or sleep and poll again.     *)
EndSweep ==
    /\ pc = "poll"
    /\ sweep = {}
    /\ \/ /\ dict = {}
          /\ EnterWave(run, wave + 1)
          /\ UNCHANGED run
       \/ /\ dict # {}
          /\ sweep' = dict
          /\ UNCHANGED <<pc, run, wave, unlaunched, dict, process, verdict>>

------------------------------------------------------------------------------
(* Its surroundings                                                         *)

(* A knife bootstrap returns, zero or not, in any order and at any time,    *)
(* also when the script that started it is gone.                            *)
KnifeExit(r, w, n, code) ==
    /\ process[r][w][n] = "running"
    /\ process' = [process EXCEPT ![r][w][n] = code]
    /\ UNCHANGED <<pc, run, wave, unlaunched, dict, sweep, verdict>>

(* The script dies where it stands (killed, its terminal lost, Popen        *)
(* raising OSError): the processes it started survive.                      *)
KillScript ==
    /\ pc # "idle"
    /\ pc' = "idle"
    /\ unlaunched' = {}
    /\ dict' = {}
    /\ sweep' = {}
    /\ verdict' = [verdict EXCEPT ![run] = "killed"]
    /\ UNCHANGED <<run, wave, process>>

Script ==
    \/ \E n \in Node :
          Launch(n) \/ PollRunning(n) \/ PollSuccess(n) \/ PollFailure(n)
    \/ EndSweep

Next ==
    \/ StartScript
    \/ Script
    \/ \E r \in Run, w \in Wave, n \in Node, code \in {"ok", "failed"} :
          KnifeExit(r, w, n, code)
    \/ KillScript

Spec == Init /\ [][Next]_vars

(* The script is a loop with a one second sleep: it is always scheduled     *)
(* again.  Nothing bounds a knife bootstrap, so it gets no fairness here.   *)
FairSpec == Spec /\ WF_vars(Script)

------------------------------------------------------------------------------
(* Properties                                                               *)

(* Waves are barriers: the roles of a wave are converged on a host only     *)
(* after knife returned 0 on every host of every earlier wave of the same   *)
(* run.  The order of the waves in the XML file (databases before the       *)
(* services that use them) is worth nothing without it.                     *)
WaveBarrier ==
    \A r \in Run, v, w \in Wave, n \in Node, m \in Node :
       process[r][w][n] # "absent" /\ v < w /\ m \in Commands[v]
          => process[r][v][m] = "ok"

(* "Install finished" is printed only by a run whose every knife bootstrap  *)
(* returned 0; so a run that said so left no process behind, however many   *)
(* runs come after it.                                                      *)
FinishedMeansAllOk ==
    \A r \in Run : verdict[r] = "finished" =>
       \A w \in Wave : \A n \in Commands[w] : process[r][w][n] = "ok"

(* Two knife bootstraps work on one host at once only across two runs, and  *)
(* only when the older run ended by exit(1) or was killed.                  *)
OverlapNeedsBrokenRun ==
    \A r, s \in Run, v, w \in Wave, n \in Node :
       /\ process[r][v][n] = "running"
       /\ process[s][w][n] = "running"
       /\ <<r, v>> # <<s, w>>
       => /\ r # s
          /\ \E t \in {r, s} : verdict[t] \in {"failed", "killed"}

(* A failed knife bootstrap ends its run even if another one of the wave    *)
(* never returns: the loop polls, it does not wait.                         *)
FailureIsNoticed ==
    \A r \in Run, w \in Wave, n \in Node :
       process[r][w][n] = "failed" ~> verdict[r] # "running"

(* How many steps the script takes at most until it has polled host n: the  *)
(* rest of the launches or of the pass, and one more pass.                  *)
Turns(n) ==
    IF pc = "launch" THEN Cardinality(unlaunched) + Cardinality(Commands[wave])
    ELSE IF n \in sweep THEN Cardinality(sweep)
    ELSE Cardinality(sweep) + Cardinality(Commands[wave]) + 1

(* The script attends to a knife bootstrap that returned within that many   *)
(* steps of its own, however many others of the wave hang, and does not go  *)
(* on to the next wave before: each of its steps ends the run badly, pops   *)
(* the host, which takes a return code of 0, or comes closer to polling it. *)
ReturnIsPolled ==
    [][\A n \in dict :
          /\ process[run][wave][n] \in {"ok", "failed"}
          /\ <<pc, dict, sweep>>' # <<pc, dict, sweep>>
          => \/ verdict'[run] \in {"failed", "killed"}
             \/ /\ wave' = wave
                /\ \/ process[run][wave][n] = "ok" /\ dict' = dict \ {n}
                   \/ n \in dict' /\ Turns(n)' < Turns(n)]_vars

(* If knife bootstraps do return, every run of the script reaches its end:  *)
(* the loop has no end of its own for a wave with a host that hangs.        *)
KnifeReturns ==
    \E r \in Run, w \in Wave, n \in Node, code \in {"ok", "failed"} :
       KnifeExit(r, w, n, code)

EveryRunEnds ==
    WF_vars(KnifeReturns)
       => \A r \in Run : verdict[r] = "running" ~> verdict[r] # "running"

(* The script, with its process table and its polling, implements the promise *)
(* of WaveOrder; wave - 1 waves are complete.                               *)
W == INSTANCE WaveOrder WITH completed <- wave - 1
ImplementsWaveOrder == W!Spec
==============================================================================
