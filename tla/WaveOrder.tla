------------------------------ MODULE WaveOrder ------------------------------
(***************************************************************************)
(* What scripts/install_openstack.py -B promises, without its process      *)
(* table and its polling: a run bootstraps the waves in order, a wave      *)
(* counts as complete only when `knife bootstrap` exited 0 on each of its  *)
(* nodes, and a run may stop at any moment, but reports "Install finished" *)
(* only when every wave is complete.  Module Bootstrap implements it.      *)
(***************************************************************************)
EXTENDS Naturals, Sequences

CONSTANTS
    Node,      \* the hosts of the XML file
    Commands,  \* the waves: Commands[w] is the set of hosts of wave w
    MaxRuns    \* bound: how often the operator starts the script

Run  == 1..MaxRuns
Wave == 1..Len(Commands)

Outcome == {"absent", "running", "ok", "failed"}
Verdict == {"none", "running", "finished", "failed", "killed"}

VARIABLES
    run,        \* the number of runs started so far
    verdict,    \* run -> how it stands
    completed,  \* the waves the latest run has completed
    process     \* run -> wave -> host -> what became of that knife bootstrap

vars == <<run, verdict, completed, process>>

Begun(c) == IF c = Len(Commands) THEN "finished" ELSE "running"

Init ==
    /\ run = 0
    /\ verdict = [r \in Run |-> "none"]
    /\ completed = 0
    /\ process = [r \in Run |-> [w \in Wave |-> [n \in Node |-> "absent"]]]

Begin ==
    /\ run + 1 \in Run
    /\ run \in Run => verdict[run] # "running"
    /\ run' = run + 1
    /\ completed' = 0
    /\ verdict' = [verdict EXCEPT ![run + 1] = Begun(0)]
    /\ UNCHANGED process

Active == run \in Run /\ verdict[run] = "running"

Start(n) ==
    /\ Active
    /\ completed + 1 \in Wave
    /\ n \in Commands[completed + 1]
    /\ process[run][completed + 1][n] = "absent"
    /\ process' = [process EXCEPT ![run][completed + 1][n] = "running"]
    /\ UNCHANGED <<run, verdict, completed>>

(* A knife bootstrap ends by itself, whether or not its run still waits for *)
(* it.                                                                      *)
Exit(r, w, n, code) ==
    /\ process[r][w][n] = "running"
    /\ process' = [process EXCEPT ![r][w][n] = code]
    /\ UNCHANGED <<run, verdict, completed>>

CompleteWave ==
    /\ Active
    /\ completed + 1 \in Wave
    /\ \A n \in Commands[completed + 1] : process[run][completed + 1][n] = "ok"
    /\ completed' = completed + 1
    /\ verdict' = [verdict EXCEPT ![run] = Begun(completed + 1)]
    /\ UNCHANGED <<run, process>>

Abort ==
    /\ Active
    /\ \E w \in Wave, n \in Node : process[run][w][n] = "failed"
    /\ verdict' = [verdict EXCEPT ![run] = "failed"]
    /\ UNCHANGED <<run, completed, process>>

Die ==
    /\ Active
    /\ verdict' = [verdict EXCEPT ![run] = "killed"]
    /\ UNCHANGED <<run, completed, process>>

Next ==
    \/ Begin
    \/ \E n \in Node : Start(n)
    \/ \E r \in Run, w \in Wave, n \in Node, code \in {"ok", "failed"} :
          Exit(r, w, n, code)
    \/ CompleteWave
    \/ Abort
    \/ Die

Spec == Init /\ [][Next]_vars
==============================================================================
