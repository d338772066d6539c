---------------------------- MODULE InstallProofs ----------------------------
(***************************************************************************)
(* Proofs about the modules of scripts/install_openstack.py.               *)
(*  - Bootstrap and InstallRun, for any hosts, waves and number of runs.   *)
(*    First Bootstrap by itself: its invariants, and that it implements    *)
(*    WaveOrder.  Then the whole script: whatever the phases around it do, *)
(*    its bootstrap behaves as module Bootstrap says, so the first part    *)
(*    holds of it; and roles and environment agree.                        *)
(*  - RoleSequence, for any file: the waves are its sets of roles.  What   *)
(*    Bootstrap assumes of its waves follows.                              *)
(*  - EnvironmentText, for any attributes and template: each word of the   *)
(*    template is replaced by itself.                                      *)
(* The last two are about loops, the recursive functions of those modules, *)
(* and rest on an induction of their own, proved first.                    *)
(***************************************************************************)
EXTENDS InstallRun, RoleSequence, EnvironmentText, SequenceTheorems,
        FiniteSetTheorems, WellFoundedInduction, TLAPS

------------------------------------------------------------------------------
(* Bootstrap: the inductive invariant                                       *)

(* While the script runs, it accounts for every host of the wave: not       *)
(* reached yet, held in dict, or popped after return code 0.                *)
Accounted ==
    /\ pc = "launch" =>
          /\ wave \in Wave /\ unlaunched # {}
          /\ unlaunched \subseteq Commands[wave]
          /\ dict = Commands[wave] \ unlaunched
          /\ \A n \in unlaunched : process[run][wave][n] = "absent"
    /\ pc = "poll" =>
          /\ wave \in Wave /\ unlaunched = {}
          /\ dict \subseteq Commands[wave] /\ sweep \subseteq dict
          /\ \A n \in Commands[wave] \ dict : process[run][wave][n] = "ok"
    /\ pc = "idle" => dict = {}
    /\ pc = "idle" <=> (run \in Run => verdict[run] # "running")

(* What has not been reached has not been started.                          *)
Frontier ==
    /\ \A r \in Run, w \in Wave, n \in Node :
          process[r][w][n] # "absent" =>
             /\ n \in Commands[w]
             /\ r <= run
             /\ r = run => w <= wave
    /\ \A r \in Run : r < run => verdict[r] # "running"
    /\ \A r \in Run : verdict[r] = "none" <=> r > run

(* The waves behind the current one are complete.                           *)
Behind ==
    run \in Run =>
       \A v \in Wave, m \in Node :
          v < wave /\ m \in Commands[v] => process[run][v][m] = "ok"

IInv == TypeOK /\ Accounted /\ Frontier /\ Behind /\ WaveBarrier /\ FinishedMeansAllOk
------------------------------------------------------------------------------

(* Every wave is a finite set of hosts, and there is one.                   *)
LEMMA WaveFacts ==
    /\ \A w \in Wave :
          Commands[w] \subseteq Node /\ Commands[w] # {} /\ IsFiniteSet(Commands[w])
    /\ Len(Commands) \in Nat
BY CommandsAssumption DEF Wave

(* The initial state satisfies the inductive invariant.                     *)
LEMMA InitIInv == Init => IInv
BY WaveFacts, MaxRunsAssumption
   DEF Init, IInv, TypeOK, Accounted, Frontier, Behind, WaveBarrier,
       FinishedMeansAllOk, Run, Wave, Outcome, Verdict

(* Entering a wave whose predecessors are complete keeps the invariant: the *)
(* common part of StartScript and of the end of the last pass.              *)
LEMMA EnterWaveIInv ==
    ASSUME IInv, NEW r \in Run, NEW w \in 1..(Len(Commands) + 1),
           run' = r, EnterWave(r, w),
           \/ r = run + 1 /\ w = 1 /\ pc = "idle"
           \/ r = run /\ w = wave + 1 /\ pc = "poll" /\ dict = {}
    PROVE  IInv'
<1> USE WaveFacts, MaxRunsAssumption
<1>1. TypeOK'
  <2>1. run' \in 0..MaxRuns /\ wave' \in 1..(Len(Commands) + 1)
    BY DEF EnterWave, Run
  <2>2. verdict' \in [Run -> Verdict] /\ process' \in [Run -> [Wave -> [Node -> Outcome]]]
    BY DEF IInv, TypeOK, EnterWave, Verdict
  <2>3. /\ pc' \in {"idle", "launch", "poll"} /\ unlaunched' \in SUBSET Node
        /\ dict' \in SUBSET Node /\ sweep' \in SUBSET Node
    BY DEF EnterWave
  <2> QED
    BY <2>1, <2>2, <2>3 DEF TypeOK
<1>2. \A v \in Wave, m \in Node : v < w /\ m \in Commands[v] => process[r][v][m] = "ok"
  BY DEF IInv, TypeOK, Accounted, Behind, Run, Wave
<1>3. \A v \in Wave, m \in Node :
         (w <= v => process[r][v][m] = "absent")
  BY DEF IInv, TypeOK, Accounted, Frontier, Run, Wave
<1>4. Accounted'
  <2>1. CASE w \in Wave
    <3>1. /\ pc' = "launch" /\ wave' = w /\ unlaunched' = Commands[w] /\ dict' = {}
          /\ process' = process /\ verdict' = [verdict EXCEPT ![r] = "running"]
      BY <2>1 DEF EnterWave
    <3>2. Commands[w] # {} /\ \A n \in Commands[w] : n \in Node /\ process[r][w][n] = "absent"
      BY <2>1, <1>3 DEF Wave
    <3>3. verdict'[r] = "running"
      BY <3>1 DEF IInv, TypeOK
    <3> QED BY <2>1, <3>1, <3>2, <3>3 DEF Accounted
  <2>2. CASE w \notin Wave
    <3>1. pc' = "idle" /\ dict' = {} /\ verdict' = [verdict EXCEPT ![r] = "finished"]
      BY <2>2 DEF EnterWave
    <3>2. verdict'[r] = "finished"
      BY <3>1 DEF IInv, TypeOK
    <3> QED BY <3>1, <3>2 DEF Accounted
  <2> QED BY <2>1, <2>2
<1>5. Frontier'
  <2>1. \A q \in Run, v \in Wave, n \in Node :
           process'[q][v][n] # "absent" =>
              /\ n \in Commands[v]
              /\ q <= run'
              /\ q = run' => v <= wave'
    BY <1>3 DEF IInv, TypeOK, Frontier, EnterWave, Run, Wave
  <2>2. \A q \in Run : q < run' => verdict'[q] # "running"
    <3>1. \A q \in Run : q < r => verdict[q] # "running"
      BY DEF IInv, TypeOK, Accounted, Frontier, Run
    <3>2. \A q \in Run : q # r => verdict'[q] = verdict[q]
      BY DEF IInv, TypeOK, EnterWave
    <3> QED
      BY <3>1, <3>2 DEF Run
  <2>3. \A q \in Run : verdict'[q] = "none" <=> q > run'
    BY DEF IInv, TypeOK, Frontier, EnterWave, Run, Verdict
  <2> QED
    BY <2>1, <2>2, <2>3 DEF Frontier
<1>6. Behind'
  BY <1>2 DEF Behind, EnterWave
<1>7. WaveBarrier'
  BY DEF IInv, WaveBarrier, EnterWave
<1>8. FinishedMeansAllOk'
  BY <1>2 DEF IInv, TypeOK, FinishedMeansAllOk, EnterWave, Run, Wave, Verdict
<1> QED
  BY <1>1, <1>4, <1>5, <1>6, <1>7, <1>8 DEF IInv

(* Every step keeps the inductive invariant.                                *)
LEMMA NextIInv == IInv /\ [Next]_vars => IInv'
<1> SUFFICES ASSUME IInv, [Next]_vars PROVE IInv'
  OBVIOUS
<1> USE WaveFacts, MaxRunsAssumption
<1>1. CASE StartScript
  BY <1>1, EnterWaveIInv DEF StartScript, IInv, TypeOK, Run
<1>2. ASSUME NEW n \in Node, Launch(n) PROVE IInv'
  <2>1. TypeOK'
    BY <1>2 DEF Launch, IInv, TypeOK, Accounted, Run, Wave, Outcome
  <2>2. Accounted'
    <3>1. /\ pc = "launch" /\ wave \in Wave /\ wave' = wave /\ run' = run
          /\ run \in Run /\ verdict[run] = "running" /\ verdict' = verdict
          /\ dict' = Commands[wave] \ unlaunched'
      BY <1>2 DEF Launch, IInv, Accounted
    <3>2. \A m \in Node \ {n} : process'[run][wave][m] = process[run][wave][m]
      BY <1>2, <3>1 DEF Launch, IInv, TypeOK
    <3>3. /\ unlaunched' = unlaunched \ {n} /\ unlaunched \subseteq Commands[wave]
          /\ Commands[wave] \subseteq Node
          /\ \A m \in unlaunched : process[run][wave][m] = "absent"
      BY <1>2, <3>1 DEF Launch, IInv, Accounted
    <3>4. CASE unlaunched = {n}
      <4>1. pc' = "poll" /\ sweep' = dict' /\ unlaunched' = {}
        BY <1>2, <3>3, <3>4 DEF Launch
      <4> QED BY <3>1, <4>1 DEF Accounted
    <3>5. CASE unlaunched # {n}
      <4>1. pc' = "launch" /\ unlaunched' # {}
        BY <1>2, <3>1, <3>3, <3>5 DEF Launch
      <4> QED BY <3>1, <3>2, <3>3, <4>1 DEF Accounted
    <3> QED BY <3>4, <3>5
  <2>3. Frontier'
    BY <1>2 DEF Launch, IInv, TypeOK, Accounted, Frontier, Run, Wave
  <2>4. Behind'
    BY <1>2 DEF Launch, IInv, TypeOK, Accounted, Behind, Run, Wave
  <2>5. WaveBarrier'
    BY <1>2 DEF Launch, IInv, TypeOK, Accounted, Behind, WaveBarrier, Run, Wave
  <2>6. FinishedMeansAllOk'
    BY <1>2 DEF Launch, IInv, TypeOK, Accounted, FinishedMeansAllOk, Run, Wave
  <2> QED
    BY <2>1, <2>2, <2>3, <2>4, <2>5, <2>6 DEF IInv
<1>3. ASSUME NEW n \in Node, PollRunning(n) PROVE IInv'
  BY <1>3 DEF PollRunning, IInv, TypeOK, Accounted, Frontier, Behind,
              WaveBarrier, FinishedMeansAllOk
<1>4. ASSUME NEW n \in Node, PollSuccess(n) PROVE IInv'
  BY <1>4 DEF PollSuccess, IInv, TypeOK, Accounted, Frontier, Behind,
              WaveBarrier, FinishedMeansAllOk
<1>5. ASSUME NEW n \in Node, PollFailure(n) PROVE IInv'
  <2>1. run \in Run /\ verdict[run] = "running"
    BY <1>5 DEF PollFailure, IInv, Accounted
  <2> QED
    BY <1>5, <2>1 DEF PollFailure, IInv, TypeOK, Accounted, Frontier, Behind,
                 WaveBarrier, FinishedMeansAllOk, Run, Verdict
<1>6. CASE EndSweep
  <2>1. CASE dict = {}
    <3>1. run \in Run /\ wave \in Wave
      BY <1>6 DEF EndSweep, IInv, Accounted
    <3> QED
      BY <1>6, <2>1, <3>1, EnterWaveIInv DEF EndSweep, IInv, TypeOK, Wave
  <2>2. CASE dict # {}
    BY <1>6, <2>2 DEF EndSweep, IInv, TypeOK, Accounted, Frontier, Behind,
                      WaveBarrier, FinishedMeansAllOk
  <2> QED
    BY <2>1, <2>2
<1>7. ASSUME NEW r \in Run, NEW w \in Wave, NEW n \in Node,
             NEW code \in {"ok", "failed"}, KnifeExit(r, w, n, code)
      PROVE  IInv'
  <2>1. TypeOK'
    BY <1>7 DEF KnifeExit, IInv, TypeOK, Outcome
  <2>2. \A s \in Run, v \in Wave, m \in Node :
           \/ process'[s][v][m] = process[s][v][m]
           \/ process[s][v][m] = "running" /\ process'[s][v][m] \in {"ok", "failed"}
    BY <1>7 DEF KnifeExit, IInv, TypeOK
  <2>3. Accounted' /\ Frontier'
    BY <1>7, <2>2 DEF KnifeExit, IInv, TypeOK, Accounted, Frontier, Run
  <2>4. Behind' /\ WaveBarrier' /\ FinishedMeansAllOk'
    BY <1>7, <2>2 DEF KnifeExit, IInv, TypeOK, Behind, WaveBarrier, FinishedMeansAllOk
  <2> QED
    BY <2>1, <2>3, <2>4 DEF IInv
<1>8. CASE KillScript
  <2>1. run \in Run /\ verdict[run] = "running"
    BY <1>8 DEF KillScript, IInv, Accounted
  <2> QED
    BY <1>8, <2>1 DEF KillScript, IInv, TypeOK, Accounted, Frontier, Behind,
                 WaveBarrier, FinishedMeansAllOk, Run, Verdict
<1>9. CASE UNCHANGED vars
  BY <1>9 DEF vars, IInv, TypeOK, Accounted, Frontier, Behind, WaveBarrier,
              FinishedMeansAllOk
<1> QED
  BY <1>1, <1>2, <1>3, <1>4, <1>5, <1>6, <1>7, <1>8, <1>9 DEF Next, Script

(* The inductive invariant holds in every reachable state.                  *)
LEMMA Inductive == Spec => []IInv
BY InitIInv, NextIInv, PTL DEF Spec

------------------------------------------------------------------------------
(* Type correctness: in particular the script never indexes past the last   *)
(* wave and never holds a process of a host it does not know.               *)
THEOREM TypeCorrect == Spec => []TypeOK
BY Inductive, PTL DEF IInv

(* No host is given the roles of a wave before knife returned 0 on every    *)
(* host of the earlier waves of that run, for any number of hosts, waves,   *)
(* runs and orphans.                                                        *)
THEOREM BarrierHolds == Spec => []WaveBarrier
BY Inductive, PTL DEF IInv

(* "Install finished" is never printed over a failed or unfinished host.    *)
THEOREM FinishedIsTrue == Spec => []FinishedMeansAllOk
BY Inductive, PTL DEF IInv

(* The finite sets that Turns counts.                                       *)
LEMMA Counted ==
    ASSUME IInv, pc # "idle"
    PROVE  /\ run \in Run /\ wave \in Wave /\ verdict[run] = "running"
           /\ dict \subseteq Commands[wave]
           /\ Cardinality(Commands[wave]) \in Nat
           /\ IsFiniteSet(unlaunched) /\ Cardinality(unlaunched) \in Nat
           /\ IsFiniteSet(dict) /\ Cardinality(dict) \in Nat
           /\ Cardinality(dict) <= Cardinality(Commands[wave])
           /\ pc = "poll" => IsFiniteSet(sweep) /\ Cardinality(sweep) \in Nat
<1>1. /\ run \in Run /\ wave \in Wave /\ verdict[run] = "running"
      /\ dict \subseteq Commands[wave] /\ unlaunched \subseteq Commands[wave]
      /\ pc = "poll" => sweep \subseteq Commands[wave]
  BY DEF IInv, TypeOK, Accounted
<1>2. IsFiniteSet(Commands[wave])
  BY <1>1, WaveFacts
<1>3. IsFiniteSet(unlaunched) /\ IsFiniteSet(dict) /\ Cardinality(dict) <= Cardinality(Commands[wave])
  BY <1>1, <1>2, FS_Subset
<1>4. pc = "poll" => IsFiniteSet(sweep)
  BY <1>1, <1>2, FS_Subset
<1> QED
  BY <1>1, <1>2, <1>3, <1>4, FS_CardinalityType

(* A knife bootstrap that returned is attended to within a bounded number   *)
(* of steps of the script, for any wave and whatever else hangs in it.      *)
THEOREM ReturnsArePolled == Spec => ReturnIsPolled
<1> DEFINE Attended(n) ==
             \/ verdict'[run] \in {"failed", "killed"}
             \/ /\ wave' = wave
                /\ \/ process[run][wave][n] = "ok" /\ dict' = dict \ {n}
                   \/ n \in dict' /\ Turns(n)' < Turns(n)
<1>1. ASSUME IInv, [Next]_vars, NEW n \in dict,
             process[run][wave][n] \in {"ok", "failed"},
             <<pc, dict, sweep>>' # <<pc, dict, sweep>>
      PROVE  Attended(n)
  <2>1. pc # "idle"
    BY <1>1 DEF IInv, Accounted
  <2> HIDE DEF Attended
  <2>2. /\ run \in Run /\ wave \in Wave /\ verdict[run] = "running"
        /\ dict \subseteq Commands[wave]
        /\ Cardinality(Commands[wave]) \in Nat
        /\ IsFiniteSet(unlaunched) /\ Cardinality(unlaunched) \in Nat
        /\ IsFiniteSet(dict) /\ Cardinality(dict) \in Nat
        /\ Cardinality(dict) <= Cardinality(Commands[wave])
        /\ pc = "poll" => IsFiniteSet(sweep) /\ Cardinality(sweep) \in Nat
    BY <1>1, <2>1, Counted
  <2>3. ASSUME NEW m \in Node, Launch(m) PROVE Attended(n)
    <3>1. /\ pc = "launch" /\ m \in unlaunched /\ wave' = wave /\ n \in dict'
          /\ unlaunched' = unlaunched \ {m}
      BY <2>3 DEF Launch
    <3>2. Cardinality(unlaunched') = Cardinality(unlaunched) - 1
      BY <2>2, <3>1, FS_RemoveElement
    <3>3. Turns(n) = Cardinality(unlaunched) + Cardinality(Commands[wave])
      BY <3>1 DEF Turns
    <3>4. CASE unlaunched = {m}
      <4>1. pc' = "poll" /\ sweep' = dict' /\ dict' = Commands[wave]
        BY <1>1, <2>3, <3>4 DEF Launch, IInv, Accounted
      <4>2. Turns(n)' = Cardinality(Commands[wave])
        BY <3>1, <4>1 DEF Turns
      <4>3. Cardinality(unlaunched) = 1
        BY <3>4, FS_Singleton
      <4> QED BY <2>2, <3>1, <3>3, <4>2, <4>3 DEF Attended
    <3>5. CASE unlaunched # {m}
      <4>1. pc' = "launch"
        BY <2>3, <3>1, <3>5 DEF Launch
      <4>2. Turns(n)' = Cardinality(unlaunched') + Cardinality(Commands[wave])
        BY <3>1, <4>1 DEF Turns
      <4> QED BY <2>2, <3>1, <3>2, <3>3, <4>2 DEF Attended
    <3> QED BY <3>4, <3>5
  <2>4. ASSUME NEW m \in Node, pc = "poll", m \in sweep, pc' = pc, wave' = wave,
               sweep' = sweep \ {m}, n \in dict', m # n
        PROVE  Attended(n)
    <3>1. Cardinality(sweep') = Cardinality(sweep) - 1
      BY <2>2, <2>4, FS_RemoveElement
    <3>2. n \in sweep <=> n \in sweep'
      BY <2>4
    <3>3. Turns(n)' < Turns(n)
      BY <2>2, <2>4, <3>1, <3>2 DEF Turns
    <3> QED BY <2>4, <3>3 DEF Attended
  <2>5. ASSUME NEW m \in Node, PollRunning(m) PROVE Attended(n)
    BY <1>1, <2>4, <2>5 DEF PollRunning
  <2>6. ASSUME NEW m \in Node, PollSuccess(m) PROVE Attended(n)
    <3>1. CASE m = n
      BY <2>6, <3>1 DEF PollSuccess, Attended
    <3>2. CASE m # n
      BY <2>4, <2>6, <3>2 DEF PollSuccess
    <3> QED BY <3>1, <3>2
  <2>7. ASSUME NEW m \in Node, PollFailure(m) PROVE Attended(n)
    BY <1>1, <2>2, <2>7 DEF PollFailure, Attended, IInv, TypeOK
  <2>8. CASE EndSweep
    <3>1. /\ pc = "poll" /\ pc' = "poll" /\ sweep = {} /\ sweep' = dict
          /\ wave' = wave /\ dict' = dict
      BY <2>8 DEF EndSweep
    <3>2. Turns(n) = Cardinality(Commands[wave]) + 1
      BY <2>2, <3>1, FS_EmptySet DEF Turns
    <3>3. Turns(n)' = Cardinality(dict)
      BY <3>1 DEF Turns
    <3> QED BY <2>2, <3>1, <3>2, <3>3 DEF Attended
  <2>9. CASE KillScript
    BY <1>1, <2>2, <2>9 DEF KillScript, Attended, IInv, TypeOK
  <2>10. ~StartScript
    BY <2>1 DEF StartScript
  <2>11. ~KnifeReturns /\ ~UNCHANGED vars
    BY <1>1 DEF KnifeReturns, KnifeExit, vars
  <2> QED
    BY <1>1, <2>3, <2>5, <2>6, <2>7, <2>8, <2>9, <2>10, <2>11
       DEF Next, Script, KnifeReturns
<1>2. IInv /\ [Next]_vars =>
        [\A n \in dict :
            /\ process[run][wave][n] \in {"ok", "failed"}
            /\ <<pc, dict, sweep>>' # <<pc, dict, sweep>>
            => \/ verdict'[run] \in {"failed", "killed"}
               \/ /\ wave' = wave
                  /\ \/ process[run][wave][n] = "ok" /\ dict' = dict \ {n}
                     \/ n \in dict' /\ Turns(n)' < Turns(n)]_vars
  BY <1>1
<1> QED BY <1>2, Inductive, PTL DEF Spec, ReturnIsPolled

(* Overlapping knife bootstraps of one host come from two runs of which one *)
(* was cut short.                                                           *)
THEOREM OverlapExplained == Spec => []OverlapNeedsBrokenRun
<1>1. IInv => OverlapNeedsBrokenRun
  <2> SUFFICES ASSUME IInv, NEW r \in Run, NEW s \in Run, NEW v \in Wave,
                      NEW w \in Wave, NEW n \in Node,
                      process[r][v][n] = "running", process[s][w][n] = "running",
                      <<r, v>> # <<s, w>>
               PROVE  /\ r # s
                      /\ \E t \in {r, s} : verdict[t] \in {"failed", "killed"}
    BY DEF OverlapNeedsBrokenRun
  <2>1. n \in Commands[v] /\ n \in Commands[w]
    BY DEF IInv, Frontier
  <2>2. r # s
    BY <2>1 DEF IInv, WaveBarrier, Wave
  <2>3. \A t \in {r, s} : t < run => verdict[t] \in {"failed", "killed"}
    BY <2>1 DEF IInv, TypeOK, Frontier, FinishedMeansAllOk, Run, Verdict
  <2>4. r <= run /\ s <= run
    BY DEF IInv, Frontier
  <2> QED
    BY <2>2, <2>3, <2>4 DEF IInv, TypeOK, Run
<1> QED
  BY <1>1, Inductive, PTL

------------------------------------------------------------------------------
(* Each step of the script is a step of WaveOrder or changes nothing there. *)
LEMMA StepRefines == IInv /\ IInv' /\ [Next]_vars => [W!Next]_(W!vars)
<1> SUFFICES ASSUME IInv, IInv', [Next]_vars PROVE [W!Next]_(W!vars)
  OBVIOUS
<1> USE WaveFacts, MaxRunsAssumption DEF W!Run, W!Wave, Run, Wave
<1>1. CASE StartScript
  <2>1. run + 1 \in Run /\ (run \in Run => verdict[run] # "running")
    BY <1>1 DEF StartScript, IInv, TypeOK, Accounted
  <2>2. verdict' = [verdict EXCEPT ![run + 1] = W!Begun(0)]
    BY <1>1 DEF StartScript, EnterWave, W!Begun
  <2>3. wave' - 1 = 0 /\ run' = run + 1 /\ UNCHANGED process
    BY <1>1 DEF StartScript, EnterWave
  <2>4. W!Begin
    BY <2>1, <2>2, <2>3 DEF W!Begin
  <2> QED
    BY <2>4 DEF W!Next
<1>2. ASSUME NEW n \in Node, Launch(n) PROVE W!Start(n)
  BY <1>2 DEF Launch, IInv, TypeOK, Accounted, W!Start, W!Active
<1>3. ASSUME NEW n \in Node, PollRunning(n) \/ PollSuccess(n)
      PROVE  UNCHANGED W!vars
  BY <1>3 DEF PollRunning, PollSuccess, W!vars
<1>4. ASSUME NEW n \in Node, PollFailure(n) PROVE W!Abort
  BY <1>4 DEF PollFailure, IInv, TypeOK, Accounted, W!Abort, W!Active
<1>5. CASE EndSweep /\ dict = {}
  <2>1. wave \in Wave /\ run \in Run /\ verdict[run] = "running"
    BY <1>5 DEF EndSweep, IInv, TypeOK, Accounted
  <2>2. \A n \in Commands[wave] : process[run][wave][n] = "ok"
    BY <1>5 DEF EndSweep, IInv, Accounted
  <2>3. (wave - 1) + 1 = wave /\ wave' - 1 = (wave - 1) + 1
    BY <1>5, <2>1 DEF EndSweep, EnterWave
  <2>4. verdict' = [verdict EXCEPT ![run] = W!Begun(wave)]
    BY <1>5, <2>1 DEF EndSweep, EnterWave, W!Begun
  <2>5. W!CompleteWave
    BY <1>5, <2>1, <2>2, <2>3, <2>4
       DEF EndSweep, EnterWave, W!CompleteWave, W!Active
  <2> QED
    BY <2>5 DEF W!Next
<1>6. CASE EndSweep /\ dict # {}
  BY <1>6 DEF EndSweep, W!vars
<1>7. ASSUME NEW r \in Run, NEW w \in Wave, NEW n \in Node,
             NEW code \in {"ok", "failed"}, KnifeExit(r, w, n, code)
      PROVE  W!Exit(r, w, n, code)
  BY <1>7 DEF KnifeExit, W!Exit
<1>8. CASE KillScript
  BY <1>8 DEF KillScript, IInv, Accounted, W!Die, W!Active, W!Next
<1>9. CASE UNCHANGED vars
  BY <1>9 DEF vars, W!vars
<1> QED
  BY <1>1, <1>2, <1>3, <1>4, <1>5, <1>6, <1>7, <1>8, <1>9
     DEF Next, Script, W!Next

(* The script implements WaveOrder: seen through the waves it completed, it *)
(* never skips, reorders or falsely completes one.                          *)
THEOREM Implements == Spec => ImplementsWaveOrder
<1>1. Init => W!Init
  BY DEF Init, W!Init, Run, Wave, W!Run, W!Wave
<1> QED
  BY <1>1, StepRefines, Inductive, PTL DEF Spec, ImplementsWaveOrder, W!Spec

------------------------------------------------------------------------------
(* The whole script                                                         *)

(* A bootstrap is under way only in its phase, with the commands parsed.    *)
InPhase ==
    pc # "idle" => Selected("B") /\ run \in Run

(* What the phases before have done for the run under way.                  *)
Prepared ==
    /\ phase >= 2 /\ "E" \in options => file = parsed
    /\ phase >= 3 /\ {"E", "U"} \subseteq options /\ ~refused => server = parsed

(* While a careful bootstrap is under way, nobody uploads.                  *)
Undisturbed == pc # "idle" /\ run \in careful => server = made[run]

(* Only bootstraps that were started are spoken of.                         *)
Known == \A r \in careful \cup foreign : r <= run

RInv ==
    /\ IInv
    /\ InstallTypeOK
    /\ InPhase
    /\ Prepared
    /\ Undisturbed
    /\ Known
    /\ RolesAndEnvironmentAgree

------------------------------------------------------------------------------
LEMMA PhaseFacts ==
    /\ Len(Phases) = 7
    /\ Phases[1] = "E" /\ Phases[2] = "U" /\ Phases[3] = "R" /\ Phases[4] = "C"
    /\ Phases[5] = "d" /\ Phases[6] = "B" /\ Phases[7] = "D"
  BY DEF Phases

LEMMA EnterPhaseFacts ==
    ASSUME InstallTypeOK, NEW p, EnterPhase(p)
    PROVE  /\ phase' = p
           /\ p # 0 => UNCHANGED <<options, parsed, refused>>
           /\ options' \in SUBSET Options /\ parsed' \in Version /\ refused' \in BOOLEAN
<1>1. phase' = p
  BY DEF EnterPhase
<1>2. CASE p = 0
  <2>1. options' = {} /\ parsed' = 0 /\ refused' = FALSE
    BY <1>2 DEF EnterPhase
  <2>2. 0 \in Version
    BY InstallAssumption DEF Version
  <2>3. FALSE \in BOOLEAN /\ {} \in SUBSET Options
    OBVIOUS
  <2> QED
    BY <1>1, <1>2, <2>1, <2>2, <2>3, Zenon
<1>3. CASE p # 0
  <2>1. UNCHANGED <<options, parsed, refused>>
    BY <1>3 DEF EnterPhase
  <2> QED
    BY <1>1, <1>3, <2>1, Zenon DEF InstallTypeOK
<1> QED
  BY <1>2, <1>3

(* Each step of the composition is a step of Bootstrap or leaves it alone.  *)
LEMMA StepOfBootstrap == [InstallNext]_installVars => [Next]_vars
<1> SUFFICES ASSUME [InstallNext]_installVars PROVE [Next]_vars
  OBVIOUS
<1>1. CASE EnterBootstrap
  BY <1>1 DEF EnterBootstrap, Next
<1>2. CASE ScriptStep
  BY <1>2 DEF ScriptStep, Next
<1>3. CASE KnifeStep
  BY <1>3 DEF KnifeStep, KnifeReturns, Next
<1>4. CASE Kill
  BY <1>4 DEF Kill, Next
<1>5. CASE \/ EditXml \/ (\E opts \in OptionSets : StartRun(opts)) \/ Skip
           \/ GenerateEnvironment \/ UploadEnvironment \/ UploadRest \/ DryRun
           \/ (\E r \in Run, w \in Wave, n \in Node : FetchEnvironment(r, w, n))
           \/ UNCHANGED installVars
  BY <1>5, Zenon DEF EditXml, StartRun, Skip, GenerateEnvironment, UploadEnvironment, UploadRest,
     DryRun, FetchEnvironment, Advance, installVars
<1> QED
  BY <1>1, <1>2, <1>3, <1>4, <1>5 DEF InstallNext

LEMMA BootstrapInv == IInv /\ [InstallNext]_installVars => IInv'
  BY StepOfBootstrap, NextIInv

(* The script at work changes the verdict of its own run only.              *)
LEMMA OwnVerdict ==
    ASSUME IInv, Script
    PROVE  /\ pc # "idle" /\ run' = run /\ run \in Run /\ verdict[run] = "running"
           /\ \A q \in Run : q # run => verdict'[q] = verdict[q]
  BY DEF Script, Launch, PollRunning, PollSuccess, PollFailure, EndSweep, EnterWave,
     IInv, TypeOK, Accounted, Run

(* A host of a bootstrap that ended well is not converging any more.        *)
LEMMA EndedRunsFail ==
    ASSUME IInv, NEW r \in Run, NEW w \in Wave, NEW n \in Node,
           process[r][w][n] = "running", r # run \/ pc = "idle"
    PROVE  r <= run /\ verdict[r] \in {"failed", "killed"}
<1>1. r <= run /\ n \in Commands[w]
  BY DEF IInv, Frontier
<1>2. verdict[r] # "running" /\ verdict[r] # "none"
  BY <1>1, MaxRunsAssumption DEF IInv, TypeOK, Accounted, Frontier, Run
<1>3. verdict[r] # "finished"
  BY <1>1 DEF IInv, FinishedMeansAllOk
<1> QED
  BY <1>1, <1>2, <1>3 DEF IInv, TypeOK, Verdict

LEMMA InitRInv == InstallInit => RInv
<1> SUFFICES ASSUME InstallInit PROVE RInv
  OBVIOUS
<1>1. IInv
  BY InitIInv DEF InstallInit
<1>2. InstallTypeOK
  <2>1. TypeOK /\ refused \in BOOLEAN
    BY <1>1 DEF InstallInit, IInv
  <2>5. phase \in 0..Len(Phases)
    BY PhaseFacts DEF InstallInit
  <2>2. /\ xml \in 1..MaxVersion /\ starts \in 0..MaxStarts
        /\ parsed \in Version /\ file \in Version /\ server \in Version
    BY InstallAssumption DEF InstallInit, Version
  <2>3. made \in [Run -> Version]
    BY InstallAssumption DEF InstallInit, Version
  <2>4. options \in SUBSET Options /\ careful \in SUBSET Run /\ foreign \in SUBSET Run
    BY DEF InstallInit
  <2> QED
    BY <2>1, <2>2, <2>3, <2>4, <2>5, Zenon DEF InstallTypeOK
<1>3. InPhase /\ Prepared /\ Undisturbed /\ Known /\ RolesAndEnvironmentAgree
  BY DEF InstallInit, Init, InPhase, Prepared, Undisturbed, Known, RolesAndEnvironmentAgree
<1> QED
  BY <1>1, <1>2, <1>3 DEF RInv

(* The phases before and after the bootstrap: none is under way.            *)
LEMMA PhaseStep ==
    ASSUME RInv, IInv',
           \/ EditXml \/ (\E opts \in OptionSets : StartRun(opts)) \/ Skip
           \/ GenerateEnvironment \/ UploadEnvironment \/ UploadRest \/ DryRun
    PROVE  RInv'
<1> USE PhaseFacts, InstallAssumption
<1> DEFINE SameBootstrap == UNCHANGED <<vars, historyVars>>
<1>1. SameBootstrap /\ TypeOK'
  BY DEF EditXml, StartRun, Skip, GenerateEnvironment, UploadEnvironment, UploadRest,
     DryRun, Advance, IInv, TypeOK
<1>2. (Known /\ RolesAndEnvironmentAgree)'
  BY <1>1 DEF vars, historyVars, RInv, Known, RolesAndEnvironmentAgree
<1>3. CASE EditXml
  <2>1. xml' \in 1..MaxVersion /\ UNCHANGED <<pc, run, vars, phaseVars, file, server, historyVars>>
    BY <1>3 DEF EditXml, vars, RInv, InstallTypeOK
  <2> QED
    BY <1>1, <1>2, <2>1 DEF phaseVars, historyVars, RInv, InstallTypeOK, InPhase, Selected,
       Prepared, Undisturbed
<1>4. ASSUME NEW opts \in OptionSets, StartRun(opts) PROVE RInv'
  <2>1. pc = "idle" /\ pc' = "idle"
    BY <1>1, <1>4 DEF StartRun, vars, RInv, InPhase, Selected
  <2>2. InstallTypeOK'
    <3>1. opts \in SUBSET Options /\ xml \in Version /\ FALSE \in BOOLEAN
      BY DEF RInv, InstallTypeOK, Version
    <3>2. starts' \in 0..MaxStarts /\ phase' \in 0..Len(Phases)
      BY <1>4 DEF StartRun, RInv, InstallTypeOK
    <3> QED
      BY <1>4, <3>1, <3>2, <1>1 DEF StartRun, historyVars, envVars, RInv, InstallTypeOK
  <2>3. Prepared'
    BY <1>4 DEF StartRun, Prepared
  <2> QED
    BY <1>2, <2>1, <2>2, <2>3 DEF RInv, InPhase, Undisturbed
<1>5. CASE Skip \/ GenerateEnvironment \/ UploadRest \/ DryRun
  <2>1. /\ phase # 0 /\ ~Selected("B") /\ Advance /\ server' = server
        /\ file' = file \/ (phase = 1 /\ file' = parsed)
    BY <1>5 DEF Skip, GenerateEnvironment, UploadRest, DryRun, Selected, RInv,
       InstallTypeOK
  <2>2. /\ phase \in 1..7 /\ phase' = IF phase = 7 THEN 0 ELSE phase + 1
        /\ phase' # 0 => UNCHANGED <<options, parsed, refused>>
        /\ options' \in SUBSET Options /\ parsed' \in Version /\ refused' \in BOOLEAN
    <3>1. phase \in 1..7 /\ EnterPhase(FollowingPhase)
      BY <2>1 DEF Advance, RInv, InstallTypeOK
    <3>2. FollowingPhase = IF phase = 7 THEN 0 ELSE phase + 1
      BY DEF FollowingPhase
    <3> QED
      BY <3>1, <3>2, EnterPhaseFacts DEF RInv
  <2>3. pc = "idle" /\ pc' = "idle"
    BY <1>1, <2>1 DEF vars, RInv, InPhase
  <2>4. InstallTypeOK'
    BY <1>1, <2>1, <2>2 DEF Advance, historyVars, RInv, InstallTypeOK
  <2>5. Prepared'
    <3>1. phase = 1 /\ "E" \in options => file' = parsed
      BY <1>5 DEF Skip, GenerateEnvironment, UploadRest, DryRun, Selected
    <3>2. phase = 2 => "U" \notin options
      BY <1>5 DEF Skip, GenerateEnvironment, UploadRest, DryRun, Selected
    <3> QED
      BY <2>1, <2>2, <3>1, <3>2 DEF RInv, Prepared
  <2> QED
    BY <1>2, <2>3, <2>4, <2>5 DEF RInv, InPhase, Undisturbed
<1>6. CASE UploadEnvironment
  <2>1. phase = 2 /\ phase' = 3 /\ UNCHANGED <<options, parsed, file>>
    BY <1>6 DEF UploadEnvironment, Selected, RInv, InstallTypeOK
  <2>2. \/ server' = file /\ refused' = refused
        \/ server' = server /\ refused' = TRUE
    BY <1>6 DEF UploadEnvironment
  <2>3. pc = "idle" /\ pc' = "idle"
    BY <1>1, <2>1 DEF vars, RInv, InPhase, Selected
  <2>4. InstallTypeOK'
    <3>1. server' \in Version /\ refused' \in BOOLEAN
      BY <2>2 DEF RInv, InstallTypeOK
    <3>2. UNCHANGED <<starts, xml, made, careful, foreign>>
      BY <1>6 DEF UploadEnvironment, historyVars
    <3>3. phase' \in 0..Len(Phases)
      BY <2>1
    <3> QED
      BY <1>1, <2>1, <3>1, <3>2, <3>3 DEF RInv, InstallTypeOK
  <2>5. Prepared'
    BY <2>1, <2>2 DEF RInv, Prepared
  <2> QED
    BY <1>2, <2>3, <2>4, <2>5 DEF RInv, InPhase, Undisturbed
<1> QED
  BY <1>3, <1>4, <1>5, <1>6

(* The bootstrap phase starts.                                              *)
LEMMA EnterStep ==
    ASSUME RInv, IInv', EnterBootstrap
    PROVE  RInv'
<1> USE PhaseFacts, InstallAssumption, MaxRunsAssumption
<1>1. /\ phase = 6 /\ pc = "idle" /\ run' = run + 1 /\ run' \in Run
      /\ server' = server /\ file' = file /\ starts' = starts /\ xml' = xml
      /\ foreign' = foreign
  BY DEF EnterBootstrap, Selected, StartScript, envVars, RInv, InstallTypeOK, IInv, TypeOK,
     Run
<1>2. \A q \in Run : q # run' => verdict'[q] = verdict[q]
  BY <1>1 DEF EnterBootstrap, StartScript, EnterWave, RInv, IInv, TypeOK
<1>3. /\ phase' \in 0..7
      /\ phase' # 0 => UNCHANGED <<options, parsed, refused>>
      /\ pc' # "idle" => phase' = phase
      /\ options' \in SUBSET Options /\ parsed' \in Version /\ refused' \in BOOLEAN
  <2> DEFINE p == IF pc' # "idle" THEN phase
                  ELSE IF verdict'[run'] = "finished" THEN FollowingPhase ELSE 0
  <2>1. EnterPhase(p)
    BY DEF EnterBootstrap, FollowScript
  <2>2. p \in {0, 6, 7} /\ (pc' # "idle" => p = phase)
    BY <1>1 DEF FollowingPhase
  <2> HIDE DEF p
  <2> QED
    BY <2>1, <2>2, EnterPhaseFacts DEF RInv
<1>4. /\ made' \in [Run -> Version] /\ made'[run'] = parsed
      /\ careful' \subseteq careful \cup {run'}
      /\ run' \in careful' => run' \in careful \/ server = parsed
  BY <1>1 DEF EnterBootstrap, RInv, InstallTypeOK, Prepared
<1>5. \A r \in careful \cup foreign : r # run' /\ r <= run'
  BY <1>1 DEF RInv, Known, InstallTypeOK, IInv, TypeOK, Run
<1>6. InstallTypeOK'
  BY <1>1, <1>3, <1>4 DEF RInv, InstallTypeOK, IInv
<1>7. InPhase'
  BY <1>1, <1>3 DEF EnterBootstrap, InPhase, Selected
<1>8. Prepared'
  BY <1>1, <1>3 DEF RInv, Prepared, InstallTypeOK
<1>9. Undisturbed'
  BY <1>1, <1>4, <1>5 DEF Undisturbed
<1>10. Known'
  BY <1>1, <1>4, <1>5 DEF Known, IInv, TypeOK
<1>11. RolesAndEnvironmentAgree'
  BY <1>1, <1>2, <1>4, <1>5 DEF RInv, RolesAndEnvironmentAgree, InstallTypeOK
<1> QED
  BY <1>6, <1>7, <1>8, <1>9, <1>10, <1>11 DEF RInv

(* Nothing but the script's own bookkeeping changes.                        *)
LEMMA BootstrapStep ==
    ASSUME RInv, IInv', ScriptStep \/ KnifeStep \/ Kill
    PROVE  RInv'
<1> USE PhaseFacts, InstallAssumption, MaxRunsAssumption
<1>1. UNCHANGED <<run, starts, xml, file, server, made, careful, foreign>>
  <2>1. CASE ScriptStep
    BY <2>1, OwnVerdict DEF ScriptStep, envVars, historyVars, RInv
  <2>2. CASE KnifeStep
    BY <2>2 DEF KnifeStep, KnifeReturns, KnifeExit, phaseVars, envVars, historyVars
  <2>3. CASE Kill
    BY <2>3 DEF Kill, KillScript, vars, envVars, historyVars
  <2> QED
    BY <2>1, <2>2, <2>3
<1>2. \A q \in Run : verdict[q] \in {"failed", "killed"} => verdict'[q] = verdict[q]
  <2>1. CASE ScriptStep
    BY <2>1, OwnVerdict DEF ScriptStep, RInv
  <2>2. CASE KnifeStep
    BY <2>2 DEF KnifeStep, KnifeReturns, KnifeExit
  <2>3. CASE Kill
    BY <2>3 DEF Kill, KillScript, vars, RInv, IInv, TypeOK, Accounted
  <2> QED
    BY <2>1, <2>2, <2>3
<1>3. /\ phase' \in 0..7
      /\ phase' # 0 => UNCHANGED <<options, parsed, refused>>
      /\ options' \in SUBSET Options /\ parsed' \in Version /\ refused' \in BOOLEAN
      /\ pc' # "idle" => pc # "idle" /\ phase' = phase
      /\ phase' # 0 => phase' = phase \/ (phase = 6 /\ phase' = 7)
  <2>1. CASE ScriptStep
    <3>1. pc # "idle" /\ phase = 6
      BY <2>1, OwnVerdict DEF ScriptStep, RInv, InPhase, Selected, InstallTypeOK
    <3> DEFINE p == IF pc' # "idle" THEN phase
                    ELSE IF verdict'[run'] = "finished" THEN FollowingPhase ELSE 0
    <3>2. EnterPhase(p)
      BY <2>1 DEF ScriptStep, FollowScript
    <3>3. p \in {0, 6, 7} /\ (pc' # "idle" => p = phase)
      BY <3>1 DEF FollowingPhase
    <3> HIDE DEF p
    <3> QED
      BY <3>1, <3>2, <3>3, EnterPhaseFacts DEF RInv
  <2>2. CASE KnifeStep
    BY <2>2 DEF KnifeStep, KnifeReturns, KnifeExit, phaseVars, RInv, InstallTypeOK
  <2>3. CASE Kill
    <3>1. EnterPhase(0) /\ pc' = "idle"
      BY <2>3 DEF Kill, KillScript, vars
    <3> QED
      BY <3>1, EnterPhaseFacts DEF RInv
  <2> QED
    BY <2>1, <2>2, <2>3
<1>4. InstallTypeOK'
  BY <1>1, <1>3 DEF RInv, InstallTypeOK, IInv
<1>5. InPhase' /\ Undisturbed' /\ Known'
  BY <1>1, <1>3 DEF RInv, InPhase, Selected, Undisturbed, Known, InstallTypeOK
<1>6. Prepared'
  BY <1>1, <1>3 DEF RInv, Prepared, InstallTypeOK
<1>7. RolesAndEnvironmentAgree'
  BY <1>1, <1>2 DEF RInv, RolesAndEnvironmentAgree, InstallTypeOK
<1> QED
  BY <1>4, <1>5, <1>6, <1>7 DEF RInv

(* A host fetches the environment.                                          *)
LEMMA FetchStep ==
    ASSUME RInv, IInv', NEW r \in Run, NEW w \in Wave, NEW n \in Node,
           FetchEnvironment(r, w, n)
    PROVE  RInv'
<1>1. /\ foreign' \subseteq foreign \cup {r}
      /\ server = made[r] => foreign' = foreign
      /\ process[r][w][n] = "running"
      /\ UNCHANGED <<vars, phaseVars, envVars, made, careful>>
  BY DEF FetchEnvironment
<1>2. r <= run
  BY <1>1 DEF RInv, IInv, Frontier
<1>3. r \in careful /\ r \in foreign' => verdict[r] \in {"failed", "killed"}
  <2>1. CASE r # run \/ pc = "idle"
    BY <1>1, <2>1, EndedRunsFail DEF RInv
  <2>2. CASE r = run /\ pc # "idle"
    BY <1>1, <2>2 DEF RInv, Undisturbed, RolesAndEnvironmentAgree
  <2> QED
    BY <2>1, <2>2
<1>4. UNCHANGED <<pc, run, verdict>> /\ InstallTypeOK'
  BY <1>1 DEF vars, phaseVars, envVars, RInv, InstallTypeOK, IInv
<1>5. Known' /\ RolesAndEnvironmentAgree'
  BY <1>1, <1>2, <1>3, <1>4 DEF RInv, Known, RolesAndEnvironmentAgree
<1>6. InPhase' /\ Prepared' /\ Undisturbed'
  BY <1>1, <1>4 DEF phaseVars, envVars, RInv, InPhase, Selected, Prepared, Undisturbed
<1> QED
  BY <1>4, <1>5, <1>6 DEF RInv

LEMMA NextRInv == RInv /\ [InstallNext]_installVars => RInv'
<1> SUFFICES ASSUME RInv, [InstallNext]_installVars PROVE RInv'
  OBVIOUS
<1>1. IInv'
  BY BootstrapInv DEF RInv
<1>2. CASE UNCHANGED installVars
  BY <1>1, <1>2 DEF installVars, vars, phaseVars, envVars, historyVars, RInv,
     InstallTypeOK, IInv, InPhase, Selected, Prepared, Undisturbed, Known,
     RolesAndEnvironmentAgree
<1>3. CASE InstallNext
  BY <1>1, <1>3, PhaseStep, EnterStep, BootstrapStep, FetchStep DEF InstallNext
<1> QED
  BY <1>2, <1>3

LEMMA InstallInductive == InstallSpec => []RInv
  BY InitRInv, NextRInv, PTL DEF InstallSpec

------------------------------------------------------------------------------
(* The whole script implements Bootstrap, and so WaveOrder: every theorem   *)
(* above holds of it.                                                       *)
THEOREM InstallBootstraps == InstallSpec => Spec
<1>1. InstallInit => Init
  BY DEF InstallInit
<1> QED
  BY <1>1, StepOfBootstrap, PTL DEF InstallSpec, Spec

(* Every variable of the script and of its surroundings keeps its type.     *)
THEOREM InstallTypeCorrect == InstallSpec => []InstallTypeOK
  BY InstallInductive, PTL DEF RInv

(* For any hosts, waves, command lines, edits and numbers of runs: only an  *)
(* orphan of a bootstrap that failed or was killed converges with the       *)
(* environment of another XML file, if -E -U preceded and knife took it.    *)
THEOREM EnvironmentIsOurs == InstallSpec => []RolesAndEnvironmentAgree
  BY InstallInductive, PTL DEF RInv

------------------------------------------------------------------------------
(* Induction on the turns of a loop, and that a loop has a result.          *)

(* A nonempty set of naturals has a least element, since < is well founded  *)
(* on them.                                                                 *)
LEMMA Least ==
    ASSUME NEW S \in SUBSET Nat, S # {}
    PROVE  \E x \in S : \A y \in S : x <= y
<1>1. PICK x \in S : \A y \in S : <<y, x>> \notin OpToRel(<, Nat)
  BY NatLessThanWellFounded, WFMin
<1>2. \A y \in S : ~(y < x)
  BY <1>1 DEF OpToRel
<1> QED BY <1>2

(* What holds before the first turn of a loop, and after each turn if it    *)
(* held before it, holds after the last.                                    *)
LEMMA Induction ==
    ASSUME NEW n \in Nat, NEW T, 0 \in T, \A i \in 1..n : i - 1 \in T => i \in T
    PROVE  0..n \subseteq T
<1> SUFFICES ASSUME (0..n) \ T # {} PROVE FALSE
  OBVIOUS
<1> DEFINE U == (0..n) \ T
<1>1. U \in SUBSET Nat /\ U # {}
  OBVIOUS
<1> HIDE DEF U
<1>2. PICK x \in U : \A y \in U : x <= y
  BY <1>1, Least
<1> USE DEF U
<1>3. x # 0 /\ x \in 1..n
  BY <1>2
<1>4. x - 1 \notin U
  BY <1>2, <1>3
<1> QED BY <1>3, <1>4

(* f[i] is what a loop that starts from base has after i turns, if next[i]  *)
(* is turn i.                                                               *)
Iterates(f, n, base, next, X) ==
    /\ f \in [0..n -> X]
    /\ f[0] = base
    /\ \A i \in 1..n : f[i] = next[i][f[i - 1]]

(* A loop whose turns take X to X has a result after each turn.             *)
LEMMA Recursion ==
    ASSUME NEW X, NEW base \in X, NEW n \in Nat, NEW next \in [1..n -> [X -> X]]
    PROVE  \E f : Iterates(f, n, base, next, X)
<1> DEFINE Solves(f, m) == /\ f[0] = base
                           /\ \A i \in 1..m : f[i] = next[i][f[i - 1]]
           T == {m \in 0..n : \E f \in [0..m -> X] : Solves(f, m)}
<1>1. 0 \in T
  <2> DEFINE f == [i \in 0..0 |-> base]
  <2>1. f \in [0..0 -> X] /\ f[0] = base
    OBVIOUS
  <2> HIDE DEF f
  <2>2. Solves(f, 0)
    BY <2>1
  <2> QED BY <2>1, <2>2
<1>2. ASSUME NEW m \in 1..n, m - 1 \in T PROVE m \in T
  <2>1. PICK f \in [0..(m - 1) -> X] : Solves(f, m - 1)
    BY <1>2
  <2> DEFINE g == [i \in 0..m |-> IF i = m THEN next[m][f[m - 1]] ELSE f[i]]
  <2>2. m - 1 \in 0..(m - 1) /\ m \in 1..n /\ f[m - 1] \in X
    OBVIOUS
  <2>3. next[m][f[m - 1]] \in X
    BY <2>2
  <2>4. \A i \in 0..m : i = m \/ i \in 0..(m - 1)
    OBVIOUS
  <2>5. g \in [0..m -> X]
    BY <2>3, <2>4
  <2>6. g[m] = next[m][f[m - 1]] /\ \A i \in 0..(m - 1) : g[i] = f[i]
    BY <2>2
  <2> HIDE DEF g
  <2>7. g[0] = base
    BY <2>1, <2>2, <2>6
  <2>8. ASSUME NEW i \in 1..m PROVE g[i] = next[i][g[i - 1]]
    <3>1. i - 1 \in 0..(m - 1)
      BY <2>2
    <3> QED BY <2>1, <2>4, <2>6, <2>8, <3>1
  <2>9. Solves(g, m)
    BY <2>7, <2>8
  <2> QED BY <2>2, <2>5, <2>9
<1>3. n \in T
  <2>1. 0..n \subseteq T
    <3> HIDE DEF T
    <3> QED BY <1>1, <1>2, Induction
  <2> QED BY <2>1
<1> QED BY <1>3 DEF Iterates

------------------------------------------------------------------------------
(* RoleSequence: from the file to the waves.                                *)

(* string_to_list computes what its loop says: the definition of the        *)
(* recursive function list has a solution, so the function that is chosen is*)
(* one.                                                                     *)
LEMMA ListIs ==
    ASSUME NEW S, NEW items \in Seq(S)
    PROVE  \E list \in [0..Len(items) -> Seq(S)] :
              /\ list[0] = <<>>
              /\ \A i \in 1..Len(items) : list[i] = Keep(list[i - 1], items[i])
              /\ StringToList(items) = list[Len(items)]
<1> DEFINE n == Len(items)
           Def(list) == [i \in 0..n |-> IF i = 0 THEN <<>> ELSE Keep(list[i - 1], items[i])]
           next == [i \in 1..n |-> [l \in Seq(S) |-> Keep(l, items[i])]]
           list == CHOOSE f : f = Def(f)
<1>1. n \in Nat /\ <<>> \in Seq(S) /\ next \in [1..n -> [Seq(S) -> Seq(S)]]
  BY DEF Keep
<1>0. \A i \in 1..n : i \in 0..n /\ i - 1 \in 0..n /\ i # 0
  BY <1>1
<1>2. PICK f \in [0..n -> Seq(S)] : f[0] = <<>> /\ \A i \in 1..n : f[i] = next[i][f[i - 1]]
  <2> DEFINE X == Seq(S)
             base == <<>>
  <2>1. n \in Nat /\ base \in X /\ next \in [1..n -> [X -> X]]
    BY <1>1
  <2> HIDE DEF next, n, X, base
  <2>2. \E f : Iterates(f, n, base, next, X)
    BY <2>1, Recursion
  <2> QED BY <2>2 DEF Iterates, X, base
<1>3. f = Def(f)
  <2>1. \A i \in 1..n : f[i - 1] \in Seq(S)
    BY <1>0
  <2>2. \A i \in 1..n : next[i][f[i - 1]] = Keep(f[i - 1], items[i])
    BY <2>1
  <2> HIDE DEF next, n
  <2>3. \A i \in 0..n : i = 0 \/ i \in 1..n
    BY <1>1
  <2> QED BY <1>2, <2>2, <2>3
<1>4. list = Def(list)
  <2> HIDE DEF Def
  <2> QED BY <1>3, Zenon
<1>5. StringToList(items) = list[n]
  BY DEF StringToList
<1> HIDE DEF list, next
<1>6. list[0] = <<>> /\ \A i \in 1..n : list[i] = Keep(list[i - 1], items[i])
  BY <1>1, <1>4
<1>7. \A i \in 0..n : list[i] \in Seq(S)
  <2> DEFINE T == {i \in 0..n : list[i] \in Seq(S)}
  <2>1. 0 \in T
    <3>1. 0 \in 0..n
      BY <1>1
    <3>2. list[0] \in Seq(S)
      BY <1>1, <1>6, Zenon
    <3> QED BY <3>1, <3>2
  <2>2. ASSUME NEW i \in 1..n, i - 1 \in T PROVE i \in T
    <3>1. items[i] \in S /\ list[i - 1] \in Seq(S)
      BY <1>1, <2>2
    <3>2. Keep(list[i - 1], items[i]) \in Seq(S)
      BY <3>1 DEF Keep
    <3> QED BY <1>0, <1>6, <3>2
  <2>3. 0..n \subseteq T
    <3> HIDE DEF T, n
    <3> QED BY <1>1, <2>1, <2>2, Induction
  <2> QED BY <2>3
<1>8. list \in [0..n -> Seq(S)]
  BY <1>4, <1>7
<1> QED BY <1>5, <1>6, <1>8

(* Appending what is first mentioned after everything in the list keeps the *)
(* order of first mention.                                                  *)
LEMMA Extended ==
    ASSUME NEW list, NEW items, NEW wanted, NEW x, ListsInOrder(list, items, wanted),
           \A y \in wanted : Precedes(items, y, x)
    PROVE  ListsInOrder(Append(list, x), items, wanted \cup {x})
<1> DEFINE V == wanted \cup {x}
           longer == Append(list, x)
<1>1. list \in Seq(wanted) /\ Len(list) \in Nat /\ DOMAIN list = 1..Len(list)
  BY DEF ListsInOrder
<1>2. longer \in Seq(V) /\ Len(longer) = Len(list) + 1 /\ DOMAIN longer = 1..(Len(list) + 1)
  BY <1>1
<1>3. longer[Len(list) + 1] = x /\ \A i \in DOMAIN list : longer[i] = list[i]
  BY <1>1
<1>4. \A i \in DOMAIN longer : i = Len(list) + 1 \/ i \in DOMAIN list
  BY <1>1, <1>2
<1>5. \A i \in DOMAIN list : i \in DOMAIN longer
  BY <1>1, <1>2
<1>6. Len(list) + 1 \in DOMAIN longer
  BY <1>1, <1>2
<1> HIDE DEF longer
<1>7. V \subseteq Range(longer)
  BY <1>3, <1>5, <1>6 DEF ListsInOrder, Range
<1>8. ASSUME NEW i \in DOMAIN longer, NEW j \in DOMAIN longer, i < j
      PROVE  Precedes(items, longer[i], longer[j])
  <2>1. i \in DOMAIN list /\ longer[i] = list[i] /\ list[i] \in wanted
    BY <1>1, <1>2, <1>3, <1>8
  <2>2. CASE j = Len(list) + 1
    BY <1>3, <2>1, <2>2
  <2>3. CASE j \in DOMAIN list
    BY <1>3, <1>8, <2>1, <2>3 DEF ListsInOrder
  <2> QED BY <1>4, <2>2, <2>3
<1> QED BY <1>2, <1>7, <1>8 DEF ListsInOrder, longer

(* The order of first mention, taken in a list which itself is in the order *)
(* of first mention of items, is that of items.                             *)
LEMMA Reordered ==
    ASSUME NEW list, NEW again, NEW items, NEW wanted, NEW part \in SUBSET wanted,
           ListsInOrder(list, items, wanted), ListsInOrder(again, list, part)
    PROVE  ListsInOrder(again, items, part)
<1>1. ASSUME NEW x, NEW y \in part, Precedes(list, x, y)
      PROVE  Precedes(items, x, y)
  <2>1. PICK i \in DOMAIN list : list[i] = x /\ \A k \in 1..i : list[k] # y
    BY <1>1 DEF Precedes
  <2>2. PICK j \in DOMAIN list : list[j] = y
    BY DEF ListsInOrder, Range
  <2>3. DOMAIN list = 1..Len(list) /\ Len(list) \in Nat
    BY DEF ListsInOrder
  <2>4. i < j
    BY <2>1, <2>2, <2>3
  <2> QED BY <2>1, <2>2, <2>4 DEF ListsInOrder
<1>2. again \in Seq(part) /\ DOMAIN again = 1..Len(again)
  BY DEF ListsInOrder
<1>3. \A i, j \in DOMAIN again : i < j => Precedes(list, again[i], again[j]) /\ again[j] \in part
  BY <1>2 DEF ListsInOrder
<1> QED BY <1>1, <1>2, <1>3 DEF ListsInOrder

(* string_to_list returns each item once, in the order of first mention, and*)
(* no blank one.                                                            *)
LEMMA StringToListIs ==
    ASSUME NEW S, NEW items \in Seq(S)
    PROVE  ListsInOrder(StringToList(items), items, Range(items) \ {Blank})
<1> DEFINE n == Len(items)
           Kept(i) == {items[k] : k \in 1..i} \ {Blank}
<1>1. n \in Nat /\ DOMAIN items = 1..n
  OBVIOUS
<1>2. PICK list \in [0..n -> Seq(S)] :
         /\ list[0] = <<>>
         /\ \A i \in 1..n : list[i] = Keep(list[i - 1], items[i])
         /\ StringToList(items) = list[n]
  BY ListIs
<1> DEFINE T == {i \in 0..n : ListsInOrder(list[i], items, Kept(i))}
<1>3. 0 \in T
  <2>1. Kept(0) = {}
    OBVIOUS
  <2>2. ListsInOrder(<<>>, items, {})
    BY DEF ListsInOrder
  <2>3. 0 \in 0..n
    BY <1>1
  <2> HIDE DEF n, Kept
  <2> QED BY <1>2, <2>1, <2>2, <2>3
<1>4. ASSUME NEW i \in 1..n, i - 1 \in T PROVE i \in T
  <2> DEFINE x == items[i]
             l == list[i - 1]
  <2>1. i \in 0..n /\ i - 1 \in 0..n /\ \A k \in 1..i : k = i \/ k \in 1..(i - 1)
    BY <1>1
  <2>2. ListsInOrder(l, items, Kept(i - 1)) /\ list[i] = Keep(l, x)
    BY <1>2, <1>4
  <2>3. \A k \in 1..(i - 1) : k \in 1..i
    BY <1>1
  <2>4. Kept(i) = Kept(i - 1) \cup ({x} \ {Blank})
    <3>1. i \in 1..i
      BY <1>1
    <3> QED BY <2>1, <2>3, <3>1
  <2>5. Range(l) = Kept(i - 1) /\ (Contains(l, x) <=> x \in Range(l))
    <3> HIDE DEF l, x, Kept
    <3> QED BY <2>2 DEF ListsInOrder, Range, Contains
  <2>6. CASE x = Blank \/ Contains(l, x)
    <3>1. Kept(i) = Kept(i - 1) /\ list[i] = l
      BY <2>2, <2>4, <2>5, <2>6 DEF Keep
    <3> HIDE DEF Kept, l, x
    <3> QED BY <2>1, <2>2, <3>1
  <2>7. CASE ~(x = Blank \/ Contains(l, x))
    <3>1. ASSUME NEW y \in Kept(i - 1) PROVE Precedes(items, y, x)
      <4>1. PICK k \in 1..(i - 1) : items[k] = y
        OBVIOUS
      <4>2. k \in DOMAIN items /\ \A j \in 1..k : j \in 1..(i - 1)
        BY <1>1
      <4>3. \A j \in 1..(i - 1) : items[j] # x
        BY <2>5, <2>7
      <4> QED BY <4>1, <4>2, <4>3 DEF Precedes
    <3>2. Kept(i) = Kept(i - 1) \cup {x} /\ list[i] = Append(l, x)
      BY <2>2, <2>4, <2>7 DEF Keep
    <3> HIDE DEF Kept, l, x
    <3>3. ListsInOrder(list[i], items, Kept(i))
      BY <2>2, <3>1, <3>2, Extended
    <3> QED BY <2>1, <3>3
  <2> QED BY <2>6, <2>7
<1>5. n \in T
  <2> HIDE DEF T, n
  <2>1. 0..n \subseteq T
    BY <1>1, <1>3, <1>4, Induction
  <2> QED BY <1>1, <2>1
<1>6. Kept(n) = Range(items) \ {Blank}
  BY <1>1 DEF Range
<1> QED BY <1>2, <1>5, <1>6

(* In a list of different things, what is further to the left is mentioned  *)
(* first.                                                                   *)
LEMMA ListedOnce ==
    ASSUME NEW list, NEW S, NEW items \in Seq(S), NEW wanted, ListsInOrder(list, items, wanted)
    PROVE  \A i, j \in DOMAIN list : i < j => Precedes(list, list[i], list[j])
<1>1. DOMAIN list = 1..Len(list) /\ Len(list) \in Nat
  BY DEF ListsInOrder
<1>2. ASSUME NEW i \in DOMAIN list, NEW j \in DOMAIN list, i < j
      PROVE  list[i] # list[j]
  <2>1. PICK k \in DOMAIN items : items[k] = list[i] /\ \A l \in 1..k : items[l] # list[j]
    BY <1>2 DEF ListsInOrder, Precedes
  <2> QED BY <2>1
<1>3. ASSUME NEW i \in DOMAIN list, NEW j \in DOMAIN list, i < j
      PROVE  \A k \in 1..i : list[k] # list[j]
  BY <1>1, <1>2, <1>3
<1> QED BY <1>3 DEF Precedes

(* The file is one: every string is a sequence of items.                    *)
FileOK ==
    /\ nodeRoles \in [Host -> Seq(Item)]
    /\ order \in Seq(SetName \cup {Blank})
    /\ element \in [SetName -> Seq(Seq(Item))]

(* The two dictionaries of the inner loops.                                 *)
Dicts == [dict : [Host -> Seq(Role)],
          nodes_dict : UNION {[H -> Seq(Role)] : H \in SUBSET Host}]

(* string_to_list invents nothing.                                          *)
LEMMA StringToListType ==
    ASSUME NEW S, NEW items \in Seq(S)
    PROVE  StringToList(items) \in Seq(S)
<1>1. StringToList(items) \in Seq(Range(items) \ {Blank})
  BY StringToListIs DEF ListsInOrder
<1>2. Range(items) \ {Blank} \subseteq S
  BY DEF Range
<1> QED BY <1>1, <1>2

(* get_nodes_by_role returns the hosts that list the role.                  *)
LEMMA NodesByRole ==
    ASSUME FileOK, NEW role, role # Blank
    PROVE  GetNodesByRole(role) = {node \in Host : role \in Range(nodeRoles[node])}
<1> SUFFICES ASSUME NEW node \in Host
             PROVE  Contains(GetNodeRoles(node), role) <=> role \in Range(nodeRoles[node])
  BY DEF GetNodesByRole
<1> DEFINE list == GetNodeRoles(node)
<1>1. ListsInOrder(list, nodeRoles[node], Range(nodeRoles[node]) \ {Blank})
  BY StringToListIs DEF GetNodeRoles, FileOK
<1> HIDE DEF list
<1>2. Contains(list, role) <=> role \in Range(list)
  BY <1>1 DEF ListsInOrder, Contains, Range
<1>3. Range(list) = Range(nodeRoles[node]) \ {Blank}
  BY <1>1, RangeOfSeq DEF ListsInOrder
<1> QED BY <1>2, <1>3 DEF list

(* A turn of the loop over the roles keeps the two dictionaries well formed.*)
LEMMA AddRoleType ==
    ASSUME NEW d \in Dicts, NEW role \in Role
    PROVE  AddRole(d, role) \in Dicts
<1> DEFINE nodes == GetNodesByRole(role)
           full == [node \in Host |-> IF node \in nodes THEN Append(d.dict[node], role)
                                      ELSE d.dict[node]]
           H == DOMAIN d.nodes_dict \cup nodes
           nodes_dict == [node \in H |-> IF node \in nodes THEN StringToList(full[node])
                                         ELSE d.nodes_dict[node]]
<1>1. /\ d.dict \in [Host -> Seq(Role)]
      /\ DOMAIN d.nodes_dict \in SUBSET Host
      /\ \A node \in DOMAIN d.nodes_dict : d.nodes_dict[node] \in Seq(Role)
  BY DEF Dicts
<1>2. nodes \in SUBSET Host
  BY DEF GetNodesByRole
<1> HIDE DEF nodes
<1>3. full \in [Host -> Seq(Role)]
  BY <1>1
<1> HIDE DEF full
<1>4. \A node \in Host : StringToList(full[node]) \in Seq(Role)
  BY <1>3, StringToListType
<1>5. H \in SUBSET Host /\ nodes_dict \in [H -> Seq(Role)]
  BY <1>1, <1>2, <1>4
<1>6. AddRole(d, role) = [dict |-> full, nodes_dict |-> nodes_dict]
  BY DEF AddRole, nodes, full
<1> HIDE DEF nodes_dict, H
<1> QED BY <1>3, <1>5, <1>6 DEF Dicts

(* The loop over the roles of a set computes what it says.                  *)
LEMMA DictsAre ==
    ASSUME NEW sequence \in Seq(Role)
    PROVE  \E dicts \in [0..Len(sequence) -> Dicts] :
              /\ dicts[0] = NullDicts
              /\ \A i \in 1..Len(sequence) : dicts[i] = AddRole(dicts[i - 1], sequence[i])
              /\ AddRoles(NullDicts, sequence) = dicts[Len(sequence)]
<1> DEFINE n == Len(sequence)
           Def(dicts) == [i \in 0..n |-> IF i = 0 THEN NullDicts
                                         ELSE AddRole(dicts[i - 1], sequence[i])]
           next == [i \in 1..n |-> [d \in Dicts |-> AddRole(d, sequence[i])]]
           dicts == CHOOSE f : f = Def(f)
<1>1. n \in Nat /\ \A i \in 1..n : sequence[i] \in Role
  OBVIOUS
<1>2. NullDicts \in Dicts
  <2>1. GetNodesNullDict \in [Host -> Seq(Role)]
    BY DEF GetNodesNullDict
  <2>2. [node \in {} |-> <<>>] \in [{} -> Seq(Role)]
    OBVIOUS
  <2> QED BY <2>1, <2>2 DEF NullDicts, Dicts
<1>3. next \in [1..n -> [Dicts -> Dicts]]
  BY <1>1, AddRoleType
<1>4. \A i \in 1..n : i \in 0..n /\ i - 1 \in 0..n /\ i # 0
  BY <1>1
<1>5. PICK f \in [0..n -> Dicts] : f[0] = NullDicts /\ \A i \in 1..n : f[i] = next[i][f[i - 1]]
  <2> DEFINE base == NullDicts
             X == Dicts
  <2>1. n \in Nat /\ base \in X /\ next \in [1..n -> [X -> X]]
    BY <1>1, <1>2, <1>3
  <2> HIDE DEF next, n, X, base
  <2>2. \E f : Iterates(f, n, base, next, X)
    BY <2>1, Recursion
  <2> QED BY <2>2 DEF Iterates, X, base
<1>6. f = Def(f)
  <2>1. \A i \in 1..n : next[i][f[i - 1]] = AddRole(f[i - 1], sequence[i])
    BY <1>4
  <2> HIDE DEF next, n
  <2>2. \A i \in 0..n : i = 0 \/ i \in 1..n
    BY <1>1
  <2> QED BY <1>5, <2>1, <2>2
<1>7. dicts = Def(dicts)
  <2> HIDE DEF Def
  <2> QED BY <1>6, Zenon
<1>8. AddRoles(NullDicts, sequence) = dicts[n]
  BY DEF AddRoles
<1> HIDE DEF dicts, next
<1>9. dicts[0] = NullDicts /\ \A i \in 1..n : dicts[i] = AddRole(dicts[i - 1], sequence[i])
  BY <1>1, <1>7
<1>10. \A i \in 0..n : dicts[i] \in Dicts
  <2> DEFINE T == {i \in 0..n : dicts[i] \in Dicts}
  <2>1. 0 \in T
    BY <1>1, <1>2, <1>9
  <2>2. ASSUME NEW i \in 1..n, i - 1 \in T PROVE i \in T
    BY <1>1, <1>4, <1>9, <2>2, AddRoleType
  <2> HIDE DEF T, n
  <2>3. 0..n \subseteq T
    BY <1>1, <2>1, <2>2, Induction
  <2> QED BY <2>3 DEF T
<1>11. dicts \in [0..n -> Dicts]
  BY <1>7, <1>10
<1> QED BY <1>8, <1>9, <1>11

(* The roles a host has got after i turns: those it lists among the first i.*)
Got(node, sequence, i) == {sequence[k] : k \in 1..i} \cap Range(nodeRoles[node])

(* The invariant of the loop over the roles: each host has what it should   *)
(* have got, in order, and nodes_dict holds the hosts that have got         *)
(* anything.                                                                *)
DictsFit(d, sequence, i) ==
    /\ d \in Dicts
    /\ \A node \in Host : ListsInOrder(d.dict[node], sequence, Got(node, sequence, i))
    /\ DOMAIN d.nodes_dict = {node \in Host : Got(node, sequence, i) # {}}
    /\ \A node \in DOMAIN d.nodes_dict :
          ListsInOrder(d.nodes_dict[node], sequence, Got(node, sequence, i))

(* One more role keeps that invariant.                                      *)
LEMMA AddRoleFits ==
    ASSUME FileOK, NEW wanted \in SUBSET (Role \ {Blank}), NEW sequence \in Seq(wanted),
           \A j, k \in DOMAIN sequence : j < k => Precedes(sequence, sequence[j], sequence[k]),
           NEW i \in 1..Len(sequence), NEW d, DictsFit(d, sequence, i - 1)
    PROVE  DictsFit(AddRole(d, sequence[i]), sequence, i)
<1> DEFINE role == sequence[i]
           nodes == GetNodesByRole(role)
           e == AddRole(d, role)
<1>1. role \in Role /\ role # Blank /\ i \in DOMAIN sequence /\ DOMAIN sequence = 1..Len(sequence)
  OBVIOUS
<1>2. nodes = {node \in Host : role \in Range(nodeRoles[node])}
  BY <1>1, NodesByRole
<1>3. e \in Dicts
  BY <1>1, AddRoleType DEF DictsFit
<1>4. ASSUME NEW node \in Host
      PROVE  Got(node, sequence, i) =
                IF node \in nodes THEN Got(node, sequence, i - 1) \cup {role}
                ELSE Got(node, sequence, i - 1)
  <2>1. 1..i = 1..(i - 1) \cup {i}
    BY <1>1
  <2> QED BY <1>2, <2>1 DEF Got
<1> HIDE DEF role, nodes
<1>5. /\ \A node \in Host : e.dict[node] = IF node \in nodes THEN Append(d.dict[node], role)
                                          ELSE d.dict[node]
      /\ DOMAIN e.nodes_dict = DOMAIN d.nodes_dict \cup nodes
      /\ \A node \in DOMAIN e.nodes_dict :
            e.nodes_dict[node] = IF node \in nodes THEN StringToList(e.dict[node])
                                 ELSE d.nodes_dict[node]
  <2>1. nodes \subseteq Host
    BY <1>2
  <2> QED BY <2>1 DEF AddRole, nodes
<1> HIDE DEF e
<1>6. ASSUME NEW node \in Host
      PROVE  ListsInOrder(e.dict[node], sequence, Got(node, sequence, i))
  <2>1. CASE node \in nodes
    <3> DEFINE G == Got(node, sequence, i - 1)
    <3>1. ListsInOrder(d.dict[node], sequence, G)
      BY DEF DictsFit
    <3>2. ASSUME NEW y \in G PROVE Precedes(sequence, y, role)
      <4>1. PICK k \in 1..(i - 1) : sequence[k] = y
        BY DEF Got
      <4>2. k \in DOMAIN sequence /\ k < i
        BY <1>1
      <4> QED BY <1>1, <4>1, <4>2 DEF role
    <3> HIDE DEF G
    <3>3. ListsInOrder(Append(d.dict[node], role), sequence, G \cup {role})
      BY <3>1, <3>2, Extended
    <3> QED BY <1>4, <1>5, <2>1, <3>3 DEF G
  <2>2. CASE node \notin nodes
    <3>1. e.dict[node] = d.dict[node] /\ Got(node, sequence, i) = Got(node, sequence, i - 1)
      BY <1>4, <1>5, <2>2
    <3> QED BY <3>1 DEF DictsFit
  <2> QED BY <2>1, <2>2
<1>7. DOMAIN e.nodes_dict = {node \in Host : Got(node, sequence, i) # {}}
  <2>1. DOMAIN d.nodes_dict = {node \in Host : Got(node, sequence, i - 1) # {}}
    BY DEF DictsFit
  <2> QED BY <1>2, <1>4, <1>5, <2>1
<1>8. ASSUME NEW node \in DOMAIN e.nodes_dict
      PROVE  ListsInOrder(e.nodes_dict[node], sequence, Got(node, sequence, i))
  <2> DEFINE G == Got(node, sequence, i)
             list == e.dict[node]
  <2>1. node \in Host
    BY <1>7
  <2>2. ListsInOrder(list, sequence, G)
    BY <1>6, <2>1
  <2>3. CASE node \in nodes
    <3>1. list \in Seq(Role)
      BY <1>3, <2>1 DEF Dicts
    <3>2. G \subseteq Role \ {Blank}
      BY DEF Got
    <3>3. e.nodes_dict[node] = StringToList(list)
      BY <1>5, <2>3
    <3> HIDE DEF G, list
    <3>4. Range(list) \ {Blank} = G
      BY <2>2, <3>2, RangeOfSeq DEF ListsInOrder
    <3>5. ListsInOrder(StringToList(list), list, G)
      BY <3>1, <3>4, StringToListIs
    <3>6. ListsInOrder(StringToList(list), sequence, G)
      BY <2>2, <3>5, Reordered
    <3> QED BY <3>3, <3>6 DEF G
  <2>4. CASE node \notin nodes
    <3>1. /\ e.nodes_dict[node] = d.nodes_dict[node] /\ node \in DOMAIN d.nodes_dict
          /\ Got(node, sequence, i) = Got(node, sequence, i - 1)
      BY <1>4, <1>5, <2>1, <2>4
    <3> QED BY <3>1 DEF DictsFit
  <2> QED BY <2>3, <2>4
<1> QED BY <1>3, <1>6, <1>7, <1>8 DEF DictsFit, e, role

(* So it holds when the loop ends.                                          *)
LEMMA AddRolesFits ==
    ASSUME FileOK, NEW wanted \in SUBSET (Role \ {Blank}), NEW sequence \in Seq(wanted),
           \A j, k \in DOMAIN sequence : j < k => Precedes(sequence, sequence[j], sequence[k])
    PROVE  DictsFit(AddRoles(NullDicts, sequence), sequence, Len(sequence))
<1> DEFINE n == Len(sequence)
<1>1. n \in Nat /\ sequence \in Seq(Role)
  OBVIOUS
<1>2. PICK dicts \in [0..n -> Dicts] :
         /\ dicts[0] = NullDicts
         /\ \A i \in 1..n : dicts[i] = AddRole(dicts[i - 1], sequence[i])
         /\ AddRoles(NullDicts, sequence) = dicts[n]
  BY <1>1, DictsAre
<1> DEFINE T == {i \in 0..n : DictsFit(dicts[i], sequence, i)}
<1>3. 0 \in T
  <2>1. 0 \in 0..n
    BY <1>1
  <2>2. \A node \in Host : Got(node, sequence, 0) = {}
    BY DEF Got
  <2>3. ListsInOrder(<<>>, sequence, {})
    BY DEF ListsInOrder
  <2>4. /\ \A node \in Host : NullDicts.dict[node] = <<>>
        /\ DOMAIN NullDicts.nodes_dict = {}
    BY DEF NullDicts, GetNodesNullDict
  <2>5. NullDicts \in Dicts
    BY <1>2, <2>1
  <2>6. DictsFit(NullDicts, sequence, 0)
    BY <2>2, <2>3, <2>4, <2>5 DEF DictsFit
  <2> QED BY <1>2, <2>1, <2>6
<1>4. ASSUME NEW i \in 1..n, i - 1 \in T PROVE i \in T
  <2>1. i \in 0..n /\ DictsFit(dicts[i - 1], sequence, i - 1)
    BY <1>1, <1>4
  <2>2. DictsFit(dicts[i], sequence, i)
    BY <1>2, <2>1, AddRoleFits
  <2> QED BY <2>1, <2>2
<1>5. n \in T
  <2> HIDE DEF T, n
  <2>1. 0..n \subseteq T
    BY <1>1, <1>3, <1>4, Induction
  <2> QED BY <1>1, <2>1
<1> QED BY <1>2, <1>5

(* The waves: some hosts, each with its run list.                           *)
NodesDict == UNION {[H -> Seq(Role)] : H \in SUBSET Host}

(* nodes_dict is the wave of the set: exactly the hosts that need a role of *)
(* it, each with those it needs, in the order of the set.                   *)
IsWave(nodes_dict, set) ==
    /\ DOMAIN nodes_dict = Needing(set)
    /\ \A node \in DOMAIN nodes_dict :
          ListsInOrder(nodes_dict[node], element[set][1], Needs(node, set))

(* The inner loops make of a set its wave.                                  *)
LEMMA OneWave ==
    ASSUME FileOK, NEW set \in SetName, element[set] # <<>>
    PROVE  LET nodes_dict == AddRoles(NullDicts, StringToList(element[set][1])).nodes_dict
           IN  nodes_dict \in NodesDict /\ IsWave(nodes_dict, set)
<1> DEFINE items == element[set][1]
           sequence == StringToList(items)
           wanted == Range(items) \ {Blank}
           d == AddRoles(NullDicts, sequence)
           n == Len(sequence)
<1>1. items \in Seq(Item)
  BY DEF FileOK
<1>2. wanted \in SUBSET (Role \ {Blank})
  BY <1>1, RangeOfSeq DEF Item
<1>3. ListsInOrder(sequence, items, wanted)
  <2> HIDE DEF items
  <2> QED BY <1>1, StringToListIs
<1> HIDE DEF items, sequence
<1>4. sequence \in Seq(wanted) /\ DOMAIN sequence = 1..n
  BY <1>3 DEF ListsInOrder
<1> HIDE DEF wanted
<1>5. \A j, k \in DOMAIN sequence : j < k => Precedes(sequence, sequence[j], sequence[k])
  BY <1>1, <1>3, ListedOnce
<1>6. DictsFit(d, sequence, n)
  BY <1>2, <1>4, <1>5, AddRolesFits
<1>7. ASSUME NEW node \in Host
      PROVE  Got(node, sequence, n) = Needs(node, set)
  <2>1. {sequence[k] : k \in 1..n} = wanted
    BY <1>3, <1>4 DEF ListsInOrder, Range
  <2> QED BY <2>1 DEF Got, Needs, wanted, items
<1>8. d.nodes_dict \in NodesDict
  BY <1>6 DEF DictsFit, Dicts, NodesDict
<1>9. DOMAIN d.nodes_dict = Needing(set)
  BY <1>6, <1>7 DEF DictsFit, Needing
<1>10. ASSUME NEW node \in DOMAIN d.nodes_dict
       PROVE  ListsInOrder(d.nodes_dict[node], items, Needs(node, set))
  <2>1. node \in Host
    BY <1>9 DEF Needing
  <2>2. ListsInOrder(d.nodes_dict[node], sequence, Needs(node, set))
    BY <1>6, <1>7, <2>1 DEF DictsFit
  <2>3. Needs(node, set) \in SUBSET wanted
    BY DEF Needs, wanted, items
  <2> QED BY <1>3, <2>2, <2>3, Reordered
<1> QED BY <1>8, <1>9, <1>10 DEF IsWave, items, sequence

(* The names of the sets in the order attribute, each once.                 *)
Names == StringToList(order)

(* get_role_sequences follows them, one list of roles for each.             *)
LEMMA NamesFacts ==
    ASSUME FileOK, Parses
    PROVE  /\ ListsInOrder(Names, order, Range(order) \ {Blank})
           /\ Names \in Seq(SetName)
           /\ \A k \in 1..Len(Names) : element[Names[k]] # <<>>
           /\ Len(GetRoleSequences) = Len(Names)
           /\ \A i \in 1..Len(Names) : GetRoleSequences[i] = StringToList(element[Names[i]][1])
<1>1. ListsInOrder(Names, order, Range(order) \ {Blank})
  BY StringToListIs DEF Names, FileOK
<1>2. Range(order) \ {Blank} \subseteq SetName
  BY RangeOfSeq DEF FileOK
<1>3. Names \in Seq(SetName)
  BY <1>1, <1>2 DEF ListsInOrder
<1>4. GetRoleSequences = [i \in 1..Len(Names) |-> StringToList(element[Names[i]][1])]
  BY <1>3 DEF GetRoleSequences, GetValueOfElement, Names
<1>5. Len(Names) \in Nat
  BY <1>3
<1>6. \A k \in 1..Len(Names) : Names[k] \in Range(order) \ {Blank}
  BY <1>1 DEF ListsInOrder
<1>7. \A k \in 1..Len(Names) : element[Names[k]] # <<>>
  BY <1>6 DEF Parses
<1> QED BY <1>1, <1>3, <1>4, <1>5, <1>7

(* One turn of the loop over the sets.                                      *)
Lengthened(list, i) ==
    AppendWave(list, AddRoles(NullDicts, StringToList(element[Names[i]][1])).nodes_dict)

(* That loop computes what it says.                                         *)
LEMMA WavesAre ==
    ASSUME FileOK, Parses
    PROVE  \E list \in [0..Len(Names) -> Seq(NodesDict)] :
              /\ list[0] = <<>>
              /\ \A i \in 1..Len(Names) : list[i] = Lengthened(list[i - 1], i)
              /\ Waves = list[Len(Names)]
<1> DEFINE n == Len(Names)
           Def(list) == [i \in 0..Len(GetRoleSequences) |->
                           IF i = 0 THEN <<>>
                           ELSE AppendWave(list[i - 1],
                                   AddRoles(NullDicts, GetRoleSequences[i]).nodes_dict)]
           X == Seq(NodesDict)
           next == [i \in 1..n |-> [l \in X |-> Lengthened(l, i)]]
           list == CHOOSE f : f = Def(f)
<1>1. n \in Nat /\ <<>> \in X
  BY NamesFacts
<1>2. ASSUME NEW i \in 1..n, NEW l \in X PROVE Lengthened(l, i) \in X
  <2>1. Names[i] \in SetName /\ element[Names[i]] # <<>>
    BY NamesFacts
  <2> DEFINE nodes_dict == AddRoles(NullDicts, StringToList(element[Names[i]][1])).nodes_dict
  <2>2. nodes_dict \in NodesDict
    BY <2>1, OneWave
  <2> HIDE DEF nodes_dict
  <2> QED BY <2>2 DEF AppendWave, Lengthened, nodes_dict
<1>3. \A i \in 1..n : i \in 0..n /\ i - 1 \in 0..n /\ i # 0
  BY <1>1
<1>4. PICK f \in [0..n -> X] : f[0] = <<>> /\ \A i \in 1..n : f[i] = next[i][f[i - 1]]
  <2> DEFINE base == <<>>
  <2>1. n \in Nat /\ base \in X /\ next \in [1..n -> [X -> X]]
    <3> HIDE DEF X
    <3> QED BY <1>1, <1>2
  <2> HIDE DEF next, n, X, base
  <2>2. \E f : Iterates(f, n, base, next, X)
    BY <2>1, Recursion
  <2> QED BY <2>2 DEF Iterates, base
<1> HIDE DEF X
<1>5. ASSUME NEW g, NEW i \in 1..n
      PROVE  Lengthened(g[i - 1], i) =
             AppendWave(g[i - 1], AddRoles(NullDicts, GetRoleSequences[i]).nodes_dict)
  BY NamesFacts DEF Lengthened
<1>6. f = Def(f)
  <2>1. \A i \in 1..n : next[i][f[i - 1]] = Lengthened(f[i - 1], i)
    BY <1>3
  <2>2. Len(GetRoleSequences) = n
    BY NamesFacts
  <2> HIDE DEF next, n
  <2>3. \A i \in 0..n : i = 0 \/ i \in 1..n
    BY <1>1
  <2> QED BY <1>4, <1>5, <2>1, <2>2, <2>3
<1>7. list = Def(list)
  <2> HIDE DEF Def
  <2> QED BY <1>6, Zenon
<1>8. Waves = list[n]
  BY NamesFacts DEF Waves, GetNodeRolesSequence
<1> HIDE DEF list, next
<1>9. list[0] = <<>> /\ \A i \in 1..n : list[i] = Lengthened(list[i - 1], i)
  <2>1. Len(GetRoleSequences) = n
    BY NamesFacts
  <2> HIDE DEF n
  <2> QED BY <1>1, <1>3, <1>5, <1>7, <2>1
<1>10. \A i \in 0..n : list[i] \in X
  <2> DEFINE T == {i \in 0..n : list[i] \in X}
  <2>1. 0 \in T
    <3>1. 0 \in 0..n
      BY <1>1
    <3>2. list[0] \in X
      BY <1>1, <1>9, Zenon
    <3> QED BY <3>1, <3>2
  <2>2. ASSUME NEW i \in 1..n, i - 1 \in T PROVE i \in T
    BY <1>2, <1>3, <1>9, <2>2
  <2> HIDE DEF T, n
  <2>3. 0..n \subseteq T
    BY <1>1, <2>1, <2>2, Induction
  <2> QED BY <2>3 DEF T
<1>11. list \in [0..n -> X]
  <2>1. Len(GetRoleSequences) = n
    BY NamesFacts
  <2> HIDE DEF n
  <2> QED BY <1>7, <1>10, <2>1
<1> QED BY <1>8, <1>9, <1>11 DEF X

(* The sets that gave a wave in the first i turns.                          *)
Used(i) == {set \in {Names[k] : k \in 1..i} : Needing(set) # {}}

(* The invariant of the loop over the sets: its waves are those of the used *)
(* sets so far, in their order.                                             *)
WavesFit(list, i) ==
    \E sets \in Seq(SetName) :
       /\ ListsInOrder(sets, Names, Used(i))
       /\ Len(sets) = Len(list)
       /\ \A w \in 1..Len(list) : IsWave(list[w], sets[w])

(* One more set keeps that invariant: a set nobody needs adds nothing, any  *)
(* other adds its wave at the end.                                          *)
LEMMA LengthenedFits ==
    ASSUME FileOK, Parses, NEW i \in 1..Len(Names), NEW list \in Seq(NodesDict), WavesFit(list, i - 1)
    PROVE  WavesFit(Lengthened(list, i), i)
<1> DEFINE set == Names[i]
           nodes_dict == AddRoles(NullDicts, StringToList(element[set][1])).nodes_dict
<1>1. PICK sets \in Seq(SetName) :
         /\ ListsInOrder(sets, Names, Used(i - 1))
         /\ Len(sets) = Len(list)
         /\ \A w \in 1..Len(list) : IsWave(list[w], sets[w])
  BY DEF WavesFit
<1>2. /\ set \in SetName /\ element[set] # <<>>
      /\ DOMAIN Names = 1..Len(Names) /\ Len(Names) \in Nat
  BY NamesFacts
<1>3. nodes_dict \in NodesDict /\ IsWave(nodes_dict, set)
  BY <1>2, OneWave
<1>4. Used(i) = IF Needing(set) = {} THEN Used(i - 1) ELSE Used(i - 1) \cup {set}
  <2>1. 1..i = 1..(i - 1) \cup {i}
    BY <1>2
  <2> QED BY <2>1 DEF Used
<1>5. Lengthened(list, i) = IF Needing(set) = {} THEN list ELSE Append(list, nodes_dict)
  BY <1>3 DEF Lengthened, AppendWave, IsWave
<1> HIDE DEF nodes_dict
<1>6. CASE Needing(set) = {}
  BY <1>1, <1>4, <1>5, <1>6 DEF WavesFit
<1>7. CASE Needing(set) # {}
  <2>1. ASSUME NEW y \in Used(i - 1) PROVE Precedes(Names, y, set)
    <3>1. PICK k \in 1..(i - 1) : Names[k] = y
      BY DEF Used
    <3>2. k \in DOMAIN Names /\ i \in DOMAIN Names /\ k < i
      BY <1>2
    <3>3. order \in Seq(SetName \cup {Blank})
      BY DEF FileOK
    <3> QED BY <3>1, <3>2, <3>3, NamesFacts, ListedOnce
  <2> HIDE DEF set
  <2>2. ListsInOrder(Append(sets, set), Names, Used(i))
    BY <1>1, <1>4, <1>7, <2>1, Extended
  <2>3. /\ Append(sets, set) \in Seq(SetName)
        /\ Append(list, nodes_dict) \in Seq(NodesDict)
        /\ Len(Append(sets, set)) = Len(Append(list, nodes_dict))
        /\ Len(list) \in Nat /\ Len(Append(list, nodes_dict)) = Len(list) + 1
    BY <1>1, <1>2, <1>3
  <2>4. ASSUME NEW w \in 1..(Len(list) + 1)
        PROVE  IsWave(Append(list, nodes_dict)[w], Append(sets, set)[w])
    <3>1. CASE w = Len(list) + 1
      <4>1. Append(list, nodes_dict)[w] = nodes_dict /\ Append(sets, set)[w] = set
        BY <1>1, <3>1
      <4> QED BY <1>3, <4>1
    <3>2. CASE w \in 1..Len(list)
      <4>1. Append(list, nodes_dict)[w] = list[w] /\ Append(sets, set)[w] = sets[w]
        BY <1>1, <3>2
      <4> QED BY <1>1, <3>2, <4>1
    <3> QED BY <2>3, <3>1, <3>2
  <2> QED BY <1>5, <1>7, <2>2, <2>3, <2>4 DEF WavesFit
<1> QED BY <1>6, <1>7

(* So the waves of every file that parses are its used sets, and are well   *)
(* formed.                                                                  *)
LEMMA WavesOfFile ==
    ASSUME FileOK, Parses
    PROVE  WavesAreTheSets /\ Waves \in Seq(NodesDict)
<1> DEFINE n == Len(Names)
<1>1. n \in Nat /\ ListsInOrder(Names, order, Range(order) \ {Blank})
  BY NamesFacts
<1>2. PICK list \in [0..n -> Seq(NodesDict)] :
         /\ list[0] = <<>>
         /\ \A i \in 1..n : list[i] = Lengthened(list[i - 1], i)
         /\ Waves = list[n]
  BY WavesAre
<1> DEFINE T == {i \in 0..n : WavesFit(list[i], i)}
<1>3. 0 \in T
  <2>1. 0 \in 0..n /\ Used(0) = {} /\ <<>> \in Seq(SetName) /\ Len(<<>>) = 0
    BY <1>1 DEF Used
  <2>2. ListsInOrder(<<>>, Names, {})
    BY DEF ListsInOrder
  <2>3. ASSUME NEW empty, empty = <<>> PROVE WavesFit(empty, 0)
    <3>1. empty \in Seq(SetName) /\ 1..Len(empty) = {}
      BY <2>1, <2>3
    <3>2. ListsInOrder(empty, Names, Used(0))
      BY <2>1, <2>2, <2>3
    <3> QED BY <3>1, <3>2 DEF WavesFit
  <2> QED BY <1>2, <2>1, <2>3
<1>4. ASSUME NEW i \in 1..n, i - 1 \in T PROVE i \in T
  <2>1. i \in 0..n /\ WavesFit(list[i - 1], i - 1) /\ list[i - 1] \in Seq(NodesDict)
    BY <1>1, <1>4
  <2>2. WavesFit(list[i], i)
    BY <1>2, <2>1, LengthenedFits
  <2> QED BY <2>1, <2>2
<1>5. n \in T
  <2> HIDE DEF T, n
  <2>1. 0..n \subseteq T
    BY <1>1, <1>3, <1>4, Induction
  <2> QED BY <1>1, <2>1
<1>6. Waves \in Seq(NodesDict) /\ WavesFit(Waves, n)
  BY <1>1, <1>2, <1>5
<1>7. PICK sets \in Seq(SetName) :
         /\ ListsInOrder(sets, Names, Used(n))
         /\ Len(sets) = Len(Waves)
         /\ \A w \in 1..Len(Waves) : IsWave(Waves[w], sets[w])
  BY <1>6 DEF WavesFit
<1>8. Used(n) = UsedSets
  <2>1. {Names[k] : k \in 1..n} = Range(order) \ {Blank}
    <3>1. Names \in Seq(Range(order) \ {Blank}) /\ Range(order) \ {Blank} \subseteq Range(Names)
      BY <1>1 DEF ListsInOrder
    <3>2. Range(Names) = {Names[k] : k \in 1..n}
      BY <3>1 DEF Range
    <3> QED BY <3>1, <3>2, RangeOfSeq
  <2> QED BY <2>1 DEF Used, UsedSets
<1>9. ListsInOrder(sets, order, UsedSets)
  <2>1. UsedSets \in SUBSET (Range(order) \ {Blank})
    BY DEF UsedSets
  <2> QED BY <1>1, <1>7, <1>8, <2>1, Reordered
<1>10. sets \in [DOMAIN Waves -> UsedSets] /\ DOMAIN Waves = 1..Len(Waves)
  <2>1. sets \in Seq(UsedSets)
    BY <1>9 DEF ListsInOrder
  <2> QED BY <1>6, <1>7, <2>1
<1> QED BY <1>6, <1>7, <1>9, <1>10 DEF WavesAreTheSets, IsWave

(* For any hosts, roles, sets and texts, with any number of elements of a   *)
(* name: if the file parses, get_node_roles_sequence makes one wave of each *)
(* set that is needed, in the order of the file, with exactly the hosts     *)
(* that need it, and gives each exactly the roles of the first element of   *)
(* the set that it lists.                                                   *)
THEOREM WavesCorrect == FileSpec => []WavesAreTheSets
<1>1. FileInit => FileOK
  BY FileAssumption DEF FileInit, FileOK
<1>2. FileOK /\ [UNCHANGED fileVars]_fileVars => FileOK'
  BY DEF FileOK, fileVars
<1>3. FileOK => WavesAreTheSets
  BY WavesOfFile DEF WavesAreTheSets
<1> QED BY <1>1, <1>2, <1>3, PTL DEF FileSpec

(* What Bootstrap assumes of its waves (CommandsAssumption) holds of the    *)
(* waves the script makes of any file: each is a finite set of the hosts,   *)
(* and none is empty.                                                       *)
THEOREM CommandsAreWaves ==
    FileSpec => [](/\ GetCommands \in Seq(SUBSET Host)
                   /\ \A w \in 1..Len(GetCommands) :
                         GetCommands[w] # {} /\ IsFiniteSet(GetCommands[w]))
<1>1. ASSUME FileOK
      PROVE  /\ GetCommands \in Seq(SUBSET Host)
             /\ \A w \in 1..Len(GetCommands) :
                   GetCommands[w] # {} /\ IsFiniteSet(GetCommands[w])
  <2> SUFFICES ASSUME Parses
               PROVE  /\ GetCommands \in Seq(SUBSET Host)
                      /\ \A w \in 1..Len(GetCommands) :
                            GetCommands[w] # {} /\ IsFiniteSet(GetCommands[w])
    <3> SUFFICES ASSUME ~Parses
                 PROVE  /\ GetCommands \in Seq(SUBSET Host)
                        /\ \A w \in 1..Len(GetCommands) :
                              GetCommands[w] # {} /\ IsFiniteSet(GetCommands[w])
      OBVIOUS
    <3>1. Waves = <<>>
      BY DEF Waves
    <3>2. GetCommands = <<>>
      BY <3>1 DEF GetCommands
    <3> QED BY <3>2
  <2>1. Waves \in Seq(NodesDict) /\ WavesAreTheSets
    BY <1>1, WavesOfFile
  <2>2. DOMAIN Waves = 1..Len(Waves) /\ Len(Waves) \in Nat
    BY <2>1
  <2>3. \A w \in DOMAIN Waves : DOMAIN Waves[w] \in SUBSET Host /\ DOMAIN Waves[w] # {}
    BY <2>1 DEF WavesAreTheSets, UsedSets, Needing
  <2>4. \A w \in DOMAIN Waves : IsFiniteSet(DOMAIN Waves[w])
    BY <2>3, FileAssumption, FS_Subset
  <2>5. GetCommands = [w \in 1..Len(Waves) |-> DOMAIN Waves[w]]
    BY <2>2 DEF GetCommands
  <2> QED BY <2>2, <2>3, <2>4, <2>5
<1>2. FileInit => FileOK
  BY FileAssumption DEF FileInit, FileOK
<1>3. FileOK /\ [UNCHANGED fileVars]_fileVars => FileOK'
  BY DEF FileOK, fileVars
<1> QED BY <1>1, <1>2, <1>3, PTL DEF FileSpec

------------------------------------------------------------------------------
(* EnvironmentText: from the template to the environment.                   *)

(* What replace has after some parts.                                       *)
Acc == [done : Text, tail : Text]

(* One more part keeps it a pair of texts.                                  *)
LEMMA ReadType ==
    ASSUME NEW a \in Acc, NEW part \in Part, NEW k \in Text, NEW v \in Text
    PROVE  Read(a, part, k, v) \in Acc
<1> DEFINE tail == Append(a.tail, part)
<1>1. a.done \in Text /\ tail \in Text
  BY DEF Acc, Text
<1>2. ASSUME Ends(tail, k) PROVE SubSeq(tail, 1, Len(tail) - Len(k)) \in Text
  BY <1>1, <1>2 DEF Ends, Text
<1>3. ASSUME Ends(tail, k)
      PROVE  a.done \o SubSeq(tail, 1, Len(tail) - Len(k)) \o v \in Text
  BY <1>1, <1>2, <1>3 DEF Text
<1>4. CASE Ends(tail, k)
  <2> DEFINE done == a.done \o SubSeq(tail, 1, Len(tail) - Len(k)) \o v
  <2>1. Read(a, part, k, v) = [done |-> done, tail |-> <<>>]
    BY <1>4 DEF Read
  <2>2. done \in Text
    BY <1>3, <1>4
  <2>3. <<>> \in Text
    BY DEF Text
  <2> HIDE DEF done
  <2> QED BY <2>1, <2>2, <2>3 DEF Acc
<1>5. CASE ~Ends(tail, k)
  <2>1. Read(a, part, k, v) = [done |-> a.done, tail |-> tail]
    BY <1>5 DEF Read
  <2> HIDE DEF tail
  <2> QED BY <1>1, <2>1 DEF Acc
<1> QED BY <1>4, <1>5

(* str.replace computes what its loop says.                                 *)
LEMMA ReadsAre ==
    ASSUME NEW text \in Text, NEW k \in Text, NEW v \in Text
    PROVE  \E read \in [0..Len(text) -> Acc] :
              /\ read[0] = [done |-> <<>>, tail |-> <<>>]
              /\ \A i \in 1..Len(text) : read[i] = Read(read[i - 1], text[i], k, v)
              /\ Replace(text, k, v) = read[Len(text)].done \o read[Len(text)].tail
<1> DEFINE n == Len(text)
           start == [done |-> <<>>, tail |-> <<>>]
           Def(read) == [i \in 0..n |-> IF i = 0 THEN start ELSE Read(read[i - 1], text[i], k, v)]
           next == [i \in 1..n |-> [a \in Acc |-> Read(a, text[i], k, v)]]
           read == CHOOSE f : f = Def(f)
<1>1. n \in Nat /\ start \in Acc /\ \A i \in 1..n : text[i] \in Part
  BY DEF Text, Acc
<1>2. next \in [1..n -> [Acc -> Acc]]
  BY <1>1, ReadType
<1>3. \A i \in 1..n : i \in 0..n /\ i - 1 \in 0..n /\ i # 0
  BY <1>1
<1>4. PICK f \in [0..n -> Acc] : f[0] = start /\ \A i \in 1..n : f[i] = next[i][f[i - 1]]
  <2> HIDE DEF next, n, start
  <2>1. \E f : Iterates(f, n, start, next, Acc)
    BY <1>1, <1>2, Recursion
  <2> QED BY <2>1 DEF Iterates
<1>5. f = Def(f)
  <2>1. \A i \in 1..n : next[i][f[i - 1]] = Read(f[i - 1], text[i], k, v)
    BY <1>3
  <2> HIDE DEF next, n, start
  <2>2. \A i \in 0..n : i = 0 \/ i \in 1..n
    BY <1>1
  <2> QED BY <1>4, <2>1, <2>2
<1>6. read = Def(read)
  <2> HIDE DEF Def
  <2> QED BY <1>5, Zenon
<1>7. Replace(text, k, v) = read[n].done \o read[n].tail
  BY DEF Replace
<1> HIDE DEF read, next, start
<1>8. read[0] = start /\ \A i \in 1..n : read[i] = Read(read[i - 1], text[i], k, v)
  BY <1>1, <1>6
<1>9. \A i \in 0..n : read[i] \in Acc
  <2> DEFINE T == {i \in 0..n : read[i] \in Acc}
  <2>1. 0 \in T
    BY <1>1, <1>8
  <2>2. ASSUME NEW i \in 1..n, i - 1 \in T PROVE i \in T
    BY <1>1, <1>3, <1>8, <2>2, ReadType
  <2> HIDE DEF T, n
  <2>3. 0..n \subseteq T
    BY <1>1, <2>1, <2>2, Induction
  <2> QED BY <2>3 DEF T
<1>10. read \in [0..n -> Acc]
  BY <1>6, <1>9
<1> QED BY <1>7, <1>8, <1>10 DEF start

(* A piece of a template.                                                   *)
Piece == [mark : Mark, word : Text]

(* The text of pieces grows piece by piece.                                 *)
LEMMA JoinedAre ==
    ASSUME NEW pieces \in Seq(Piece)
    PROVE  \E joined \in [0..Len(pieces) -> Text] :
              /\ joined[0] = <<>>
              /\ \A i \in 1..Len(pieces) :
                    joined[i] = joined[i - 1] \o <<pieces[i].mark>> \o pieces[i].word
              /\ Joined(pieces) = joined[Len(pieces)]
<1> DEFINE n == Len(pieces)
           start == <<>>
           Longer(q, i) == q \o <<pieces[i].mark>> \o pieces[i].word
           Def(joined) == [i \in 0..n |-> IF i = 0 THEN <<>> ELSE Longer(joined[i - 1], i)]
           next == [i \in 1..n |-> [q \in Text |-> Longer(q, i)]]
           joined == CHOOSE f : f = Def(f)
<1>1. n \in Nat /\ start \in Text /\ \A i \in 1..n : pieces[i] \in Piece
  BY DEF Text
<1>2. ASSUME NEW i \in 1..n, NEW q \in Text PROVE Longer(q, i) \in Text
  <2>1. <<pieces[i].mark>> \in Text /\ pieces[i].word \in Text
    BY <1>1, TextAssumption DEF Piece, Text
  <2> QED BY <2>1, ConcatProperties DEF Text
<1>3. \A i \in 1..n : i \in 0..n /\ i - 1 \in 0..n /\ i # 0
  BY <1>1
<1> HIDE DEF Longer
<1>4. PICK f \in [0..n -> Text] : f[0] = start /\ \A i \in 1..n : f[i] = next[i][f[i - 1]]
  <2>1. next \in [1..n -> [Text -> Text]]
    BY <1>2
  <2> DEFINE X == Text
  <2>2. n \in Nat /\ start \in X /\ next \in [1..n -> [X -> X]]
    BY <1>1, <2>1
  <2> HIDE DEF next, n, start, X
  <2>3. \E f : Iterates(f, n, start, next, X)
    BY <2>2, Recursion
  <2> QED BY <2>3 DEF Iterates, X
<1>5. f = Def(f)
  <2>1. \A i \in 1..n : next[i][f[i - 1]] = Longer(f[i - 1], i)
    BY <1>3
  <2> HIDE DEF next, n
  <2>2. \A i \in 0..n : i = 0 \/ i \in 1..n
    BY <1>1
  <2> QED BY <1>4, <2>1, <2>2
<1>6. joined = Def(joined)
  <2> HIDE DEF Def
  <2> QED BY <1>5, Zenon
<1>7. Joined(pieces) = joined[n]
  BY DEF Joined, Longer
<1> HIDE DEF joined, next
<1>8. joined[0] = start /\ \A i \in 1..n : joined[i] = Longer(joined[i - 1], i)
  <2>1. 0 \in 0..n /\ \A i \in 1..n : i \in 0..n /\ i # 0
    BY <1>1
  <2> HIDE DEF n
  <2> QED BY <1>6, <2>1
<1>9. \A i \in 0..n : joined[i] \in Text
  <2> DEFINE T == {i \in 0..n : joined[i] \in Text}
  <2> HIDE DEF start
  <2>1. 0 \in T
    BY <1>1, <1>8
  <2>2. ASSUME NEW i \in 1..n, i - 1 \in T PROVE i \in T
    BY <1>2, <1>3, <1>8, <2>2
  <2> HIDE DEF T, n
  <2>3. 0..n \subseteq T
    BY <1>1, <2>1, <2>2, Induction
  <2> QED BY <2>3 DEF T
<1>10. joined \in [0..n -> Text]
  BY <1>6, <1>9
<1> QED BY <1>7, <1>8, <1>10 DEF Longer

(* Putting texts together is associative.                                   *)
LEMMA Associative ==
    ASSUME NEW r \in Text, NEW s \in Text, NEW t \in Text
    PROVE  r \o (s \o t) = (r \o s) \o t
BY ConcatAssociative DEF Text

(* Length and parts of two texts put together.                              *)
LEMMA Concatenated ==
    ASSUME NEW r \in Text, NEW s \in Text
    PROVE  /\ r \o s \in Text
           /\ Len(r \o s) = Len(r) + Len(s)
           /\ \A b \in 1..(Len(r) + Len(s)) :
                 (r \o s)[b] = IF b <= Len(r) THEN r[b] ELSE s[b - Len(r)]
BY ConcatProperties DEF Text

(* Four texts put together in two ways.                                     *)
Regroups(q, r, s, t) ==
    /\ ((q \o r) \o s) \o t = q \o ((r \o s) \o t)
    /\ (q \o (r \o s)) \o t = (q \o r) \o (s \o t)

LEMMA Regrouped ==
    ASSUME NEW q \in Text, NEW r \in Text, NEW s \in Text, NEW t \in Text
    PROVE  Regroups(q, r, s, t)
<1> DEFINE a == q \o r
           b == r \o s
           c == s \o t
<1>1. a \in Text /\ b \in Text /\ c \in Text
  BY ConcatProperties DEF Text
<1>2. q \o b = a \o s /\ r \o c = b \o t
  BY Associative
<1>3. ASSUME NEW x \in Text
      PROVE  q \o (x \o t) = (q \o x) \o t /\ x \o (s \o t) = (x \o s) \o t
  BY Associative
<1>4. q \o (b \o t) = (q \o b) \o t
  BY <1>1, <1>3, Zenon
<1>5. a \o (s \o t) = (a \o s) \o t
  BY <1>1, <1>3, Zenon
<1> HIDE DEF a, b, c
<1> QED BY <1>2, <1>4, <1>5 DEF a, b, Regroups

(* A key has no marks and is not empty.                                     *)
IsKey(k) == k \in Seq(Part \ Mark) /\ k # <<>>

(* A text that ends in a mark does not end in a key; put before another     *)
(* text, it takes no part in an occurrence of a key at the end of that.     *)
LEMMA EndsAfterMark ==
    ASSUME NEW k, IsKey(k), NEW s \in Text, NEW t \in Text, t # <<>>, t[Len(t)] \in Mark
    PROVE  /\ ~Ends(t, k)
           /\ Ends(t \o s, k) <=> Ends(s, k)
<1> DEFINE m == Len(k)
           p == Len(t)
           n == Len(s)
           u == t \o s
<1>1. /\ m \in Nat \ {0} /\ p \in Nat \ {0} /\ n \in Nat
      /\ \A j \in 1..m : k[j] \notin Mark
  BY EmptySeq DEF IsKey, Text
<1>2. /\ Len(u) = p + n
      /\ \A b \in 1..(p + n) : u[b] = IF b <= p THEN t[b] ELSE s[b - p]
  BY Concatenated
<1>3. t[p] \in Mark
  OBVIOUS
<1> HIDE DEF u, m, p, n
<1>4. ~Ends(t, k)
  <2>1. m \in 1..m /\ p - m + m = p
    BY <1>1
  <2> QED BY <1>1, <1>3, <2>1 DEF Ends, m, p
<1>5. ASSUME Ends(u, k) PROVE m <= n
  <2> SUFFICES ASSUME m > n PROVE FALSE
    BY <1>1
  <2>1. m - n \in 1..m /\ (p + n) - m + (m - n) = p /\ p \in 1..(p + n) /\ p <= p
    BY <1>1
  <2>2. u[p] = k[m - n]
    BY <1>2, <1>5, <2>1 DEF Ends, m
  <2> QED BY <1>1, <1>2, <1>3, <2>1, <2>2
<1>6. ASSUME m <= n, NEW j \in 1..m PROVE u[Len(u) - m + j] = s[n - m + j]
  <2>1. /\ (p + n) - m + j \in 1..(p + n) /\ ~((p + n) - m + j <= p)
        /\ ((p + n) - m + j) - p = n - m + j
    BY <1>1, <1>6
  <2> QED BY <1>2, <2>1
<1>7. m <= n => m <= Len(u)
  BY <1>1, <1>2
<1>8. Ends(u, k) <=> Ends(s, k)
  BY <1>1, <1>5, <1>6, <1>7 DEF Ends, m, n
<1> QED BY <1>4, <1>8 DEF u

(* What stands before an occurrence at the end of the second of two texts.  *)
LEMMA HeadAfter ==
    ASSUME NEW s \in Text, NEW t \in Text, NEW m \in 0..Len(s)
    PROVE  SubSeq(t \o s, 1, Len(t \o s) - m) = t \o SubSeq(s, 1, Len(s) - m)
<1> DEFINE p == Len(t)
           n == Len(s)
           u == t \o s
           h == SubSeq(s, 1, n - m)
           l == SubSeq(u, 1, Len(u) - m)
           r == t \o h
<1>1. p \in Nat /\ n \in Nat /\ m \in Nat /\ m <= n
  BY DEF Text
<1>2. u \in Text /\ Len(u) = p + n /\ \A b \in 1..(p + n) : u[b] = IF b <= p THEN t[b] ELSE s[b - p]
  BY Concatenated
<1>3. h \in Text /\ Len(h) = n - m /\ \A b \in 1..(n - m) : h[b] = s[b]
  BY <1>1 DEF Text
<1> HIDE DEF u, h
<1>4. /\ r \in Text /\ Len(r) = p + (n - m)
      /\ \A b \in 1..(p + (n - m)) : r[b] = IF b <= p THEN t[b] ELSE h[b - p]
  <2>1. /\ t \o h \in Text /\ Len(t \o h) = Len(t) + Len(h)
        /\ \A b \in 1..(Len(t) + Len(h)) : (t \o h)[b] = IF b <= Len(t) THEN t[b] ELSE h[b - Len(t)]
    BY <1>3, Concatenated
  <2> QED BY <1>3, <2>1
<1> HIDE DEF r, p, n
<1>5. Len(u) - m = p + (n - m) /\ p + (n - m) \in Nat /\ p + (n - m) <= Len(u)
  BY <1>1, <1>2
<1>6. l \in Text /\ Len(l) = p + (n - m) /\ \A b \in 1..(p + (n - m)) : l[b] = u[b]
  <2> DEFINE c == p + (n - m)
  <2>1. c \in Nat /\ c <= Len(u) /\ Len(u) - m = c
    BY <1>5
  <2> HIDE DEF c
  <2>2. SubSeq(u, 1, c) \in Text /\ Len(SubSeq(u, 1, c)) = c
        /\ \A b \in 1..c : SubSeq(u, 1, c)[b] = u[b]
    BY <1>2, <2>1 DEF Text
  <2> QED BY <2>1, <2>2 DEF c
<1> HIDE DEF l
<1>7. ASSUME NEW b \in 1..(p + (n - m)) PROVE l[b] = r[b]
  <2>1. b \in 1..(p + n) /\ (~(b <= p) => b - p \in 1..(n - m))
    BY <1>1
  <2>2. l[b] = u[b] /\ u[b] = IF b <= p THEN t[b] ELSE s[b - p]
    BY <1>2, <1>6, <2>1
  <2>3. r[b] = IF b <= p THEN t[b] ELSE h[b - p]
    BY <1>4
  <2>4. ~(b <= p) => h[b - p] = s[b - p]
    BY <1>3, <2>1
  <2> QED BY <2>2, <2>3, <2>4
<1>8. l = r
  BY <1>4, <1>6, <1>7, SeqEqual DEF Text
<1> QED BY <1>8 DEF l, r, h, u, p, n

(* Replacing in a text that goes on after pre, t, with t ending in a mark   *)
(* and not yet let go, compared to replacing in the rest by itself.         *)
Aligned(R, B, pre, t) ==
    \/ R.done = pre /\ R.tail = t \o B.tail /\ B.done = <<>>
    \/ R.done = (pre \o t) \o B.done /\ R.tail = B.tail

(* One more part keeps them aligned.                                        *)
LEMMA AlignedStep ==
    ASSUME NEW k, IsKey(k), NEW v \in Text, NEW pre \in Text, NEW t \in Text, t # <<>>,
           t[Len(t)] \in Mark, NEW R \in Acc, NEW B \in Acc, Aligned(R, B, pre, t),
           NEW part \in Part
    PROVE  Aligned(Read(R, part, k, v), Read(B, part, k, v), pre, t)
<1> DEFINE s == Append(B.tail, part)
           u == Append(R.tail, part)
           h == SubSeq(s, 1, Len(s) - Len(k))
<1>1. s \in Text /\ u \in Text /\ B.done \in Text /\ B.tail \in Text
      /\ R.done \in Text /\ R.tail \in Text
  BY DEF Acc, Text
<1>2. Ends(s, k) => Len(k) \in 0..Len(s)
  BY <1>1 DEF Ends, IsKey, Text
<1>3. Ends(s, k) => h \in Text
  <2> HIDE DEF s
  <2> SUFFICES ASSUME Ends(s, k) PROVE h \in Text
    OBVIOUS
  <2> DEFINE c == Len(s) - Len(k)
  <2>1. c \in 0..Len(s)
    BY <1>1, <1>2 DEF Text
  <2> HIDE DEF c
  <2>2. SubSeq(s, 1, c) \in Text
    BY <1>1, <2>1 DEF Text
  <2> QED BY <2>2 DEF c
<1>4. /\ Read(B, part, k, v) = IF Ends(s, k) THEN [done |-> B.done \o h \o v, tail |-> <<>>]
                               ELSE [done |-> B.done, tail |-> s]
      /\ Read(R, part, k, v) =
            IF Ends(u, k)
            THEN [done |-> R.done \o SubSeq(u, 1, Len(u) - Len(k)) \o v, tail |-> <<>>]
            ELSE [done |-> R.done, tail |-> u]
  BY DEF Read
<1>5. CASE R.done = pre /\ R.tail = t \o B.tail /\ B.done = <<>>
  <2>1. u = t \o s
    <3>1. part \in Part /\ <<part>> \in Text
      BY DEF Text
    <3>2. u = (t \o B.tail) \o <<part>> /\ s = B.tail \o <<part>>
      BY <1>1, <1>5, AppendIsConcat DEF Text
    <3> HIDE DEF u, s
    <3> DEFINE bt == B.tail
               q == <<part>>
    <3>3. bt \in Text /\ q \in Text
      BY <1>1, <3>1
    <3> HIDE DEF bt, q
    <3>4. t \o (bt \o q) = (t \o bt) \o q
      BY <3>3, Associative
    <3> QED BY <3>2, <3>4 DEF bt, q
  <2> HIDE DEF u, s
  <2>2. Ends(u, k) <=> Ends(s, k)
    BY <1>1, <2>1, EndsAfterMark
  <2>3. CASE Ends(s, k)
    <3>1. SubSeq(u, 1, Len(u) - Len(k)) = t \o h
      <4> DEFINE m == Len(k)
      <4>1. m \in 0..Len(s)
        BY <1>2, <2>3
      <4> HIDE DEF m
      <4>2. SubSeq(t \o s, 1, Len(t \o s) - m) = t \o SubSeq(s, 1, Len(s) - m)
        BY <1>1, <4>1, HeadAfter
      <4> QED BY <2>1, <4>2 DEF m
    <3>2. h \in Text
      BY <1>3, <2>3
    <3> HIDE DEF h
    <3>3. (pre \o (t \o h)) \o v = (pre \o t) \o (h \o v)
      <4>1. Regroups(pre, t, h, v)
        BY <3>2, Regrouped
      <4> QED BY <4>1 DEF Regroups
    <3>4. <<>> \o h = h
      BY <3>2, ConcatEmptySeq DEF Text
    <3>5. /\ Read(R, part, k, v) = [done |-> (pre \o (t \o h)) \o v, tail |-> <<>>]
          /\ Read(B, part, k, v) = [done |-> h \o v, tail |-> <<>>]
      BY <1>4, <1>5, <2>2, <2>3, <3>1, <3>4
    <3> QED BY <3>3, <3>5 DEF Aligned
  <2>4. CASE ~Ends(s, k)
    <3>1. /\ Read(R, part, k, v) = [done |-> pre, tail |-> t \o s]
          /\ Read(B, part, k, v) = [done |-> <<>>, tail |-> s]
      BY <1>4, <1>5, <2>1, <2>2, <2>4
    <3> QED BY <3>1 DEF Aligned
  <2> QED BY <2>3, <2>4
<1>6. CASE R.done = (pre \o t) \o B.done /\ R.tail = B.tail
  <2>1. u = s
    BY <1>6
  <2> HIDE DEF u, s
  <2>2. CASE Ends(s, k)
    <3> DEFINE c == pre \o t
    <3>1. c \in Text /\ h \in Text /\ R.done = c \o B.done
      BY <1>3, <1>6, <2>2, Concatenated
    <3>2. /\ Read(R, part, k, v) = [done |-> R.done \o h \o v, tail |-> <<>>]
          /\ Read(B, part, k, v) = [done |-> B.done \o h \o v, tail |-> <<>>]
      BY <1>4, <2>1, <2>2
    <3> HIDE DEF c, h
    <3>3. ((c \o B.done) \o h) \o v = c \o ((B.done \o h) \o v)
      <4> DEFINE d == B.done
      <4>1. d \in Text
        BY <1>1
      <4> HIDE DEF d
      <4>2. ((c \o d) \o h) \o v = c \o ((d \o h) \o v)
        <5>1. Regroups(c, d, h, v)
          BY <3>1, <4>1, Regrouped
        <5> QED BY <5>1 DEF Regroups
      <4> QED BY <4>2 DEF d
    <3>4. /\ Read(R, part, k, v).done = (R.done \o h) \o v
          /\ Read(B, part, k, v).done = (B.done \o h) \o v
          /\ Read(R, part, k, v).tail = Read(B, part, k, v).tail
      BY <3>2
    <3>5. Read(R, part, k, v).done = c \o Read(B, part, k, v).done
      BY <3>1, <3>3, <3>4, Zenon
    <3> QED BY <3>4, <3>5 DEF Aligned, c
  <2>3. CASE ~Ends(s, k)
    <3>1. /\ Read(R, part, k, v) = [done |-> R.done, tail |-> s]
          /\ Read(B, part, k, v) = [done |-> B.done, tail |-> s]
      BY <1>4, <2>1, <2>3
    <3> DEFINE new_R == Read(R, part, k, v)
               new_B == Read(B, part, k, v)
    <3>2. new_R.done = R.done /\ new_R.tail = s /\ new_B.done = B.done /\ new_B.tail = s
      BY <3>1
    <3> HIDE DEF new_R, new_B
    <3>3. new_R.done = (pre \o t) \o new_B.done
      BY <1>6, <3>2
    <3>4. new_R.tail = new_B.tail
      BY <3>2
    <3>5. Aligned(new_R, new_B, pre, t)
      BY <3>3, <3>4, Zenon DEF Aligned
    <3> QED BY <3>5 DEF new_R, new_B
  <2> QED BY <2>2, <2>3
<1> QED BY <1>5, <1>6 DEF Aligned

(* Aligned reads make one text.                                             *)
AlignedTexts(R, B, pre, t) == R.done \o R.tail = (pre \o t) \o (B.done \o B.tail)

LEMMA AlignedWhole ==
    ASSUME NEW pre \in Text, NEW t \in Text, NEW R \in Acc, NEW B \in Acc, Aligned(R, B, pre, t)
    PROVE  AlignedTexts(R, B, pre, t)
<1> DEFINE c == pre \o t
           d == B.done
           e == B.tail
<1>1. c \in Text /\ d \in Text /\ e \in Text
  BY Concatenated DEF Acc
<1>2. <<>> \o e = e
  BY <1>1, ConcatEmptySeq DEF Text
<1> HIDE DEF d, e
<1>3. c \o e = pre \o (t \o e)
  BY <1>1, Associative
<1>4. c \o (d \o e) = (c \o d) \o e
  <2> HIDE DEF c
  <2> QED BY <1>1, Associative
<1>5. CASE R.done = pre /\ R.tail = t \o e /\ d = <<>>
  <2>1. R.done \o R.tail = pre \o (t \o e) /\ c \o (d \o e) = c \o e
    BY <1>2, <1>5
  <2> QED BY <1>3, <2>1 DEF d, e, AlignedTexts
<1>6. CASE R.done = c \o d /\ R.tail = e
  <2>1. R.done \o R.tail = (c \o d) \o e
    BY <1>6
  <2> QED BY <1>4, <2>1 DEF d, e, AlignedTexts
<1> QED BY <1>5, <1>6 DEF Aligned, AlignedTexts, d, e

(* One more part at the end of two texts.                                   *)
AppendsTo(r, s, d) == r \o Append(s, d) = (r \o s) \o <<d>>

LEMMA Appended ==
    ASSUME NEW r \in Text, NEW s \in Text, NEW d \in Part
    PROVE  AppendsTo(r, s, d)
<1>1. Append(s, d) = s \o <<d>>
  BY AppendIsConcat DEF Text
<1> DEFINE e == <<d>>
<1>2. e \in Text
  BY DEF Text
<1> HIDE DEF e
<1>3. r \o (s \o e) = (r \o s) \o e
  BY <1>2, Associative
<1> QED BY <1>1, <1>3 DEF e, AppendsTo

(* Length and parts of two texts with a part between them.                  *)
IsBetween(z, a, d, b) ==
    /\ z \in Text /\ Len(z) = Len(a) + 1 + Len(b)
    /\ \A i \in 1..Len(a) : z[i] = a[i]
    /\ z[Len(a) + 1] = d
    /\ \A i \in 1..Len(b) : z[Len(a) + 1 + i] = b[i]

LEMMA Between ==
    ASSUME NEW a \in Text, NEW b \in Text, NEW d \in Part
    PROVE  IsBetween((a \o <<d>>) \o b, a, d, b)
<1> DEFINE e == <<d>>
           y == a \o e
           z == y \o b
           p == Len(a)
           n == Len(b)
<1>1. e \in Text /\ Len(e) = 1 /\ e[1] = d /\ p \in Nat /\ n \in Nat
  BY DEF Text
<1> HIDE DEF e
<1>2. y \in Text /\ Len(y) = p + 1 /\ \A i \in 1..(p + 1) : y[i] = IF i <= p THEN a[i] ELSE e[i - p]
  <2>1. /\ y \in Text /\ Len(y) = Len(a) + Len(e)
        /\ \A i \in 1..(Len(a) + Len(e)) : y[i] = IF i <= Len(a) THEN a[i] ELSE e[i - Len(a)]
    BY <1>1, Concatenated
  <2> HIDE DEF y
  <2> QED BY <1>1, <2>1
<1> HIDE DEF y
<1>3. /\ z \in Text /\ Len(z) = p + 1 + n
      /\ \A i \in 1..(p + 1 + n) : z[i] = IF i <= p + 1 THEN y[i] ELSE b[i - (p + 1)]
  <2>1. /\ z \in Text /\ Len(z) = Len(y) + Len(b)
        /\ \A i \in 1..(Len(y) + Len(b)) : z[i] = IF i <= Len(y) THEN y[i] ELSE b[i - Len(y)]
    BY <1>2, Concatenated
  <2> HIDE DEF z
  <2> QED BY <1>2, <2>1
<1> HIDE DEF z, p, n
<1>4. ASSUME NEW i \in 1..p PROVE z[i] = a[i]
  BY <1>1, <1>2, <1>3
<1>5. z[p + 1] = d
  <2>1. p + 1 \in 1..(p + 1) /\ p + 1 \in 1..(p + 1 + n) /\ ~(p + 1 <= p) /\ (p + 1) - p = 1
    BY <1>1
  <2> QED BY <1>1, <1>2, <1>3, <2>1
<1>6. ASSUME NEW i \in 1..n PROVE z[p + 1 + i] = b[i]
  <2>1. /\ p + 1 + i \in 1..(p + 1 + n) /\ ~(p + 1 + i <= p + 1)
        /\ (p + 1 + i) - (p + 1) = i
    BY <1>1
  <2> QED BY <1>3, <2>1
<1> QED BY <1>3, <1>4, <1>5, <1>6 DEF z, y, e, p, n, IsBetween

(* replace does not reach over a mark: what it makes of two texts with a    *)
(* mark between them is what it makes of each.                              *)
Splits(a, d, b, k, v) ==
    Replace((a \o <<d>>) \o b, k, v) = (Replace(a, k, v) \o <<d>>) \o Replace(b, k, v)

LEMMA Split ==
    ASSUME NEW k, IsKey(k), NEW v \in Text, NEW a \in Text, NEW b \in Text, NEW d \in Mark
    PROVE  Splits(a, d, b, k, v)
<1> DEFINE z == (a \o <<d>>) \o b
           p == Len(a)
           n == Len(b)
<1>1. k \in Text /\ d \in Part /\ p \in Nat /\ n \in Nat
  BY TextAssumption DEF IsKey, Text
<1>2. /\ z \in Text /\ Len(z) = p + 1 + n
      /\ \A i \in 1..p : z[i] = a[i]
      /\ z[p + 1] = d
      /\ \A i \in 1..n : z[p + 1 + i] = b[i]
  BY <1>1, Between DEF IsBetween
<1>3. PICK ra \in [0..p -> Acc] :
         /\ ra[0] = [done |-> <<>>, tail |-> <<>>]
         /\ \A i \in 1..p : ra[i] = Read(ra[i - 1], a[i], k, v)
         /\ Replace(a, k, v) = ra[p].done \o ra[p].tail
  BY <1>1, ReadsAre
<1>4. PICK rb \in [0..n -> Acc] :
         /\ rb[0] = [done |-> <<>>, tail |-> <<>>]
         /\ \A i \in 1..n : rb[i] = Read(rb[i - 1], b[i], k, v)
         /\ Replace(b, k, v) = rb[n].done \o rb[n].tail
  BY <1>1, ReadsAre
<1> HIDE DEF z
<1>5. PICK rz \in [0..Len(z) -> Acc] :
         /\ rz[0] = [done |-> <<>>, tail |-> <<>>]
         /\ \A i \in 1..Len(z) : rz[i] = Read(rz[i - 1], z[i], k, v)
         /\ Replace(z, k, v) = rz[Len(z)].done \o rz[Len(z)].tail
  BY <1>1, <1>2, ReadsAre
<1> HIDE DEF p, n
<1>6. rz[p] = ra[p]
  <2> DEFINE T == {i \in 0..p : rz[i] = ra[i]}
  <2>1. 0 \in T
    BY <1>1, <1>3, <1>5
  <2>2. ASSUME NEW i \in 1..p, i - 1 \in T PROVE i \in T
    <3>1. i \in 1..Len(z) /\ i \in 0..p
      BY <1>1, <1>2
    <3> QED BY <1>2, <1>3, <1>5, <2>2, <3>1
  <2> HIDE DEF T
  <2>3. 0..p \subseteq T
    BY <1>1, <2>1, <2>2, Induction
  <2> QED BY <1>1, <2>3 DEF T
<1> DEFINE pre == ra[p].done
           old == ra[p].tail
           t == Append(old, d)
<1>7. pre \in Text /\ old \in Text
  BY <1>1, <1>3 DEF Acc
<1>8. t \in Text /\ t # <<>> /\ t[Len(t)] \in Mark /\ t = old \o <<d>> /\ <<d>> \in Text
  <2> HIDE DEF old
  <2>1. t \in Text /\ Len(t) = Len(old) + 1 /\ t[Len(t)] = d
    BY <1>1, <1>7 DEF Text
  <2>2. t # <<>>
    <3>1. Len(old) \in Nat
      BY <1>7 DEF Text
    <3> HIDE DEF t
    <3>2. Len(t) # 0
      BY <2>1, <3>1
    <3> QED BY <3>2
  <2>3. t = old \o <<d>> /\ <<d>> \in Text
    BY <1>1, <1>7, AppendIsConcat DEF Text
  <2> QED BY <2>1, <2>2, <2>3
<1>9. rz[p + 1] = [done |-> pre, tail |-> t]
  <2>1. ~Ends(t, k)
    <3> HIDE DEF t
    <3> QED BY <1>8, EndsAfterMark
  <2>2. p + 1 \in 1..Len(z) /\ (p + 1) - 1 = p
    BY <1>1, <1>2
  <2>3. rz[p + 1] = Read(ra[p], d, k, v)
    BY <1>2, <1>5, <1>6, <2>2
  <2> QED BY <2>1, <2>3 DEF Read
<1> HIDE DEF t, pre, old
<1>10. Aligned(rz[p + 1 + n], rb[n], pre, t)
  <2> DEFINE T == {i \in 0..n : Aligned(rz[p + 1 + i], rb[i], pre, t)}
  <2>1. 0 \in T
    <3>1. p + 1 + 0 = p + 1 /\ 0 \in 0..n
      BY <1>1
    <3>2. t \o <<>> = t
      BY <1>8, ConcatEmptySeq DEF Text
    <3>3. Aligned(rz[p + 1], rb[0], pre, t)
      <4> DEFINE R == rz[p + 1]
                 B == rb[0]
      <4>1. R.done = pre /\ R.tail = t /\ B.done = <<>> /\ B.tail = <<>>
        BY <1>4, <1>9
      <4> HIDE DEF R, B
      <4>2. Aligned(R, B, pre, t)
        BY <3>2, <4>1, Zenon DEF Aligned
      <4> QED BY <4>2 DEF R, B
    <3> QED BY <3>1, <3>3
  <2>2. ASSUME NEW i \in 1..n, i - 1 \in T PROVE i \in T
    <3> DEFINE j == p + 1 + i
    <3>1. /\ j \in 1..Len(z) /\ j - 1 = p + 1 + (i - 1) /\ j - 1 \in 0..Len(z)
          /\ i \in 0..n /\ i - 1 \in 0..n
      BY <1>1, <1>2
    <3>2. z[j] = b[i] /\ b[i] \in Part
      BY <1>1, <1>2 DEF Text, n
    <3> HIDE DEF j
    <3>3. Aligned(rz[j - 1], rb[i - 1], pre, t)
      BY <2>2, <3>1
    <3>4. rz[j] = Read(rz[j - 1], b[i], k, v) /\ rb[i] = Read(rb[i - 1], b[i], k, v)
      BY <1>4, <1>5, <3>1, <3>2
    <3>5. rz[j - 1] \in Acc /\ rb[i - 1] \in Acc
      BY <3>1
    <3>6. Aligned(rz[j], rb[i], pre, t)
      <4> DEFINE R == rz[j - 1]
                 B == rb[i - 1]
                 c == b[i]
      <4>1. R \in Acc /\ B \in Acc /\ c \in Part /\ Aligned(R, B, pre, t)
        BY <3>2, <3>3, <3>5
      <4> HIDE DEF R, B, c
      <4>2. Aligned(Read(R, c, k, v), Read(B, c, k, v), pre, t)
        BY <1>7, <1>8, <4>1, AlignedStep
      <4> QED BY <3>4, <4>2 DEF R, B, c
    <3> QED BY <3>1, <3>6 DEF j
  <2> HIDE DEF T
  <2>3. 0..n \subseteq T
    BY <1>1, <2>1, <2>2, Induction
  <2> QED BY <1>1, <2>3 DEF T
<1>11. rz[Len(z)].done \o rz[Len(z)].tail = (pre \o t) \o (rb[n].done \o rb[n].tail)
  <2>1. Len(z) = p + 1 + n /\ Len(z) \in 0..Len(z) /\ n \in 0..n
    BY <1>1, <1>2
  <2>2. rz[Len(z)] \in Acc /\ rb[n] \in Acc /\ Aligned(rz[Len(z)], rb[n], pre, t)
    BY <1>10, <2>1
  <2> DEFINE R == rz[Len(z)]
             B == rb[n]
  <2>3. R \in Acc /\ B \in Acc /\ Aligned(R, B, pre, t)
    BY <2>2
  <2> HIDE DEF R, B
  <2>4. AlignedTexts(R, B, pre, t)
    BY <1>7, <1>8, <2>3, AlignedWhole
  <2> QED BY <2>4 DEF AlignedTexts, R, B
<1>12. pre \o t = (pre \o old) \o <<d>>
  <2>1. AppendsTo(pre, old, d)
    BY <1>1, <1>7, Appended
  <2> QED BY <2>1 DEF AppendsTo, t
<1>13. Replace(a, k, v) = pre \o old
  BY <1>3 DEF pre, old
<1> QED BY <1>4, <1>5, <1>11, <1>12, <1>13 DEF z, Splits

(* replace gives a text.                                                    *)
LEMMA ReplaceType ==
    ASSUME NEW text \in Text, NEW k \in Text, NEW v \in Text
    PROVE  Replace(text, k, v) \in Text
<1>1. PICK read \in [0..Len(text) -> Acc] :
         Replace(text, k, v) = read[Len(text)].done \o read[Len(text)].tail
  BY ReadsAre
<1>2. Len(text) \in 0..Len(text)
  BY DEF Text
<1> DEFINE done == read[Len(text)].done
           tail == read[Len(text)].tail
<1>3. done \in Text /\ tail \in Text
  BY <1>2 DEF Acc
<1> HIDE DEF done, tail
<1>4. done \o tail \in Text
  BY <1>3, Concatenated
<1> QED BY <1>1, <1>4 DEF done, tail

(* Each piece by itself.                                                    *)
ReplacedEach(pieces, k, v) ==
    [i \in 1..Len(pieces) |->
        [mark |-> pieces[i].mark, word |-> Replace(pieces[i].word, k, v)]]

(* So replace works on each piece by itself.                                *)
LEMMA ReplaceJoined ==
    ASSUME NEW pieces \in Seq(Piece), NEW k, IsKey(k), NEW v \in Text
    PROVE  /\ ReplacedEach(pieces, k, v) \in Seq(Piece)
           /\ Replace(Joined(pieces), k, v) = Joined(ReplacedEach(pieces, k, v))
<1> DEFINE n == Len(pieces)
           new == ReplacedEach(pieces, k, v)
<1>1. n \in Nat /\ k \in Text /\ \A i \in 1..n : pieces[i] \in Piece
  BY DEF IsKey, Text
<1>2. \A i \in 1..n : [mark |-> pieces[i].mark, word |-> Replace(pieces[i].word, k, v)] \in Piece
  BY <1>1, ReplaceType DEF Piece
<1>3. /\ new \in Seq(Piece) /\ Len(new) = n
      /\ \A i \in 1..n : new[i].mark = pieces[i].mark /\ new[i].word = Replace(pieces[i].word, k, v)
  BY <1>1, <1>2 DEF ReplacedEach
<1> HIDE DEF new
<1>4. PICK before \in [0..n -> Text] :
         /\ before[0] = <<>>
         /\ \A i \in 1..n : before[i] = before[i - 1] \o <<pieces[i].mark>> \o pieces[i].word
         /\ Joined(pieces) = before[n]
  BY JoinedAre
<1>5. PICK after \in [0..n -> Text] :
         /\ after[0] = <<>>
         /\ \A i \in 1..n : after[i] = after[i - 1] \o <<new[i].mark>> \o new[i].word
         /\ Joined(new) = after[n]
  <2> HIDE DEF n
  <2> QED BY <1>3, JoinedAre
<1> DEFINE T == {i \in 0..n : Replace(before[i], k, v) = after[i]}
<1>6. 0 \in T
  <2>1. <<>> \in Text /\ Len(<<>>) = 0
    BY DEF Text
  <2>2. PICK read \in [0..Len(<<>>) -> Acc] :
           /\ read[0] = [done |-> <<>>, tail |-> <<>>]
           /\ Replace(<<>>, k, v) = read[Len(<<>>)].done \o read[Len(<<>>)].tail
    BY <1>1, <2>1, ReadsAre
  <2>3. Replace(<<>>, k, v) = <<>> \o <<>>
    <3>1. read[0].done = <<>> /\ read[0].tail = <<>>
      BY <2>2
    <3> QED BY <2>1, <2>2, <3>1
  <2>4. <<>> \o <<>> = <<>>
    BY <2>1, ConcatEmptySeq DEF Text
  <2> QED BY <1>1, <1>4, <1>5, <2>3, <2>4
<1>7. ASSUME NEW i \in 1..n, i - 1 \in T PROVE i \in T
  <2> DEFINE a == before[i - 1]
             b == pieces[i].word
             d == pieces[i].mark
  <2>1. i \in 0..n /\ i - 1 \in 0..n /\ a \in Text /\ b \in Text /\ d \in Mark
    BY <1>1 DEF Piece
  <2>2. before[i] = (a \o <<d>>) \o b
    BY <1>4
  <2>3. after[i] = (after[i - 1] \o <<d>>) \o Replace(b, k, v)
    BY <1>3, <1>5
  <2>4. Replace(a, k, v) = after[i - 1]
    BY <1>7
  <2> HIDE DEF a, b, d
  <2>5. Splits(a, d, b, k, v)
    BY <2>1, Split
  <2> QED BY <2>1, <2>2, <2>3, <2>4, <2>5 DEF Splits
<1>8. n \in T
  <2> HIDE DEF T, n
  <2>1. 0..n \subseteq T
    BY <1>1, <1>6, <1>7, Induction
  <2> QED BY <1>1, <2>1
<1> QED BY <1>3, <1>4, <1>5, <1>8 DEF new

(* What the key does not end in after any of the first e parts is read      *)
(* without a replacement.                                                   *)
Unread(a, text, i) ==
    /\ a.done = <<>> /\ a.tail \in Text /\ Len(a.tail) = i
    /\ \A b \in 1..i : a.tail[b] = text[b]

LEMMA ReadsOn ==
    ASSUME NEW text \in Text, NEW k, NEW v, NEW a, NEW i \in 1..Len(text), Unread(a, text, i - 1)
    PROVE  LET tail == Append(a.tail, text[i])
           IN  /\ tail \in Text /\ Len(tail) = i /\ \A b \in 1..i : tail[b] = text[b]
               /\ ~Ends(tail, k) => Unread(Read(a, text[i], k, v), text, i)
<1> DEFINE old == a.tail
           tail == Append(old, text[i])
<1>1. /\ old \in Text /\ Len(old) = i - 1 /\ text[i] \in Part /\ a.done = <<>>
      /\ \A b \in 1..(i - 1) : old[b] = text[b]
  BY DEF Unread, Text
<1> HIDE DEF old
<1>2. /\ tail \in Text /\ Len(tail) = i /\ tail[i] = text[i]
      /\ \A b \in 1..(i - 1) : tail[b] = old[b]
  BY <1>1 DEF Text
<1>3. \A b \in 1..i : b = i \/ b \in 1..(i - 1)
  OBVIOUS
<1> HIDE DEF tail
<1>4. \A b \in 1..i : tail[b] = text[b]
  BY <1>1, <1>2, <1>3
<1>5. ASSUME ~Ends(tail, k) PROVE Unread(Read(a, text[i], k, v), text, i)
  <2>1. Read(a, text[i], k, v) = [done |-> <<>>, tail |-> tail]
    BY <1>1, <1>5 DEF Read, tail, old
  <2> QED BY <1>2, <1>4, <2>1 DEF Unread
<1> QED BY <1>2, <1>4, <1>5 DEF tail, old

(* A text that no key is a part of stays as it is.                          *)
LEMMA ReplaceAbsent ==
    ASSUME NEW text \in Text, NEW k, IsKey(k), NEW v \in Text, ~IsPart(k, text)
    PROVE  Replace(text, k, v) = text
<1> DEFINE n == Len(text)
           m == Len(k)
<1>1. k \in Text /\ n \in Nat /\ m \in Nat
  BY DEF IsKey, Text
<1>2. PICK read \in [0..n -> Acc] :
         /\ read[0] = [done |-> <<>>, tail |-> <<>>]
         /\ \A i \in 1..n : read[i] = Read(read[i - 1], text[i], k, v)
         /\ Replace(text, k, v) = read[n].done \o read[n].tail
  BY <1>1, ReadsAre
<1> DEFINE T == {i \in 0..n : Unread(read[i], text, i)}
<1>3. 0 \in T
  <2>1. read[0].done = <<>> /\ read[0].tail = <<>> /\ <<>> \in Text /\ Len(<<>>) = 0 /\ 0 \in 0..n
    BY <1>1, <1>2 DEF Text
  <2> QED BY <2>1 DEF Unread
<1>4. ASSUME NEW i \in 1..n, i - 1 \in T PROVE i \in T
  <2> DEFINE a == read[i - 1]
             tail == Append(a.tail, text[i])
  <2>1. Unread(a, text, i - 1) /\ i \in 0..n /\ read[i] = Read(a, text[i], k, v)
    BY <1>1, <1>2, <1>4
  <2> HIDE DEF a
  <2>2. /\ tail \in Text /\ Len(tail) = i /\ \A b \in 1..i : tail[b] = text[b]
        /\ ~Ends(tail, k) => Unread(Read(a, text[i], k, v), text, i)
    BY <2>1, ReadsOn
  <2>3. ~Ends(tail, k)
    <3> SUFFICES ASSUME Ends(tail, k) PROVE FALSE
      OBVIOUS
    <3> HIDE DEF tail
    <3>1. m <= i /\ \A j \in 1..m : tail[i - m + j] = k[j]
      BY <2>2 DEF Ends
    <3>2. i - m \in 0..n /\ i - m + m <= n /\ \A j \in 1..m : i - m + j \in 1..i
      BY <1>1, <3>1
    <3>3. \A j \in 1..m : text[i - m + j] = k[j]
      BY <2>2, <3>1, <3>2
    <3> QED BY <3>2, <3>3 DEF IsPart
  <2> QED BY <2>1, <2>2, <2>3
<1>5. Unread(read[n], text, n)
  <2> HIDE DEF T, n
  <2>1. 0..n \subseteq T
    BY <1>1, <1>3, <1>4, Induction
  <2> QED BY <1>1, <2>1 DEF T
<1>6. read[n].done = <<>> /\ read[n].tail = text
  BY <1>5, SeqEqual DEF Unread, Text
<1>7. <<>> \o text = text
  BY ConcatEmptySeq DEF Text
<1> QED BY <1>2, <1>6, <1>7

(* A text that is the key becomes the value.                                *)
LEMMA ReplaceKey ==
    ASSUME NEW k, IsKey(k), NEW v \in Text
    PROVE  Replace(k, k, v) = v
<1> DEFINE n == Len(k)
<1>1. k \in Text /\ n \in Nat /\ n # 0 /\ n \in 1..n
  BY EmptySeq DEF IsKey, Text
<1>2. PICK read \in [0..n -> Acc] :
         /\ read[0] = [done |-> <<>>, tail |-> <<>>]
         /\ \A i \in 1..n : read[i] = Read(read[i - 1], k[i], k, v)
         /\ Replace(k, k, v) = read[n].done \o read[n].tail
  BY <1>1, ReadsAre
<1> DEFINE T == {i \in 0..(n - 1) : Unread(read[i], k, i)}
<1>3. 0 \in T
  <2>1. /\ read[0].done = <<>> /\ read[0].tail = <<>> /\ <<>> \in Text /\ Len(<<>>) = 0
        /\ 0 \in 0..(n - 1)
    BY <1>1, <1>2 DEF Text
  <2> QED BY <2>1 DEF Unread
<1>4. ASSUME NEW i \in 1..(n - 1), i - 1 \in T PROVE i \in T
  <2> DEFINE a == read[i - 1]
             tail == Append(a.tail, k[i])
  <2>1. /\ Unread(a, k, i - 1) /\ i \in 1..n /\ i \in 0..(n - 1)
        /\ read[i] = Read(a, k[i], k, v)
    BY <1>1, <1>2, <1>4
  <2> HIDE DEF a
  <2>2. /\ Len(tail) = i
        /\ ~Ends(tail, k) => Unread(Read(a, k[i], k, v), k, i)
    BY <1>1, <2>1, ReadsOn
  <2>3. ~(n <= i)
    BY <1>1
  <2> HIDE DEF tail
  <2>4. ~Ends(tail, k)
    BY <2>2, <2>3 DEF Ends
  <2> QED BY <2>1, <2>2, <2>4
<1> DEFINE a == read[n - 1]
           tail == Append(a.tail, k[n])
<1>5. Unread(a, k, n - 1) /\ read[n] = Read(a, k[n], k, v)
  <2>1. n - 1 \in Nat /\ n - 1 \in 0..(n - 1)
    BY <1>1
  <2> DEFINE o == n - 1
  <2> HIDE DEF T
  <2>2. 0..o \subseteq T
    <3>1. o \in Nat /\ \A i \in 1..o : i - 1 \in T => i \in T
      BY <1>4, <2>1
    <3> HIDE DEF o
    <3> QED BY <1>3, <3>1, Induction
  <2>3. n - 1 \in T
    BY <2>1, <2>2
  <2> QED BY <1>1, <1>2, <2>3 DEF T
<1> HIDE DEF a
<1>6. tail \in Text /\ Len(tail) = n /\ \A b \in 1..n : tail[b] = k[b]
  BY <1>1, <1>5, ReadsOn
<1>7. a.done = <<>>
  BY <1>5 DEF Unread
<1> HIDE DEF tail
<1>8. Ends(tail, k) /\ Len(tail) - n = 0
  BY <1>1, <1>6 DEF Ends
<1>9. SubSeq(tail, 1, 0) = <<>>
  BY <1>6 DEF Text
<1>10. read[n] = [done |-> <<>> \o <<>> \o v, tail |-> <<>>]
  BY <1>5, <1>7, <1>8, <1>9 DEF Read, tail
<1>11. <<>> \o <<>> \o v = v /\ v \o <<>> = v
  BY ConcatEmptySeq, EmptySeq DEF Text
<1> QED BY <1>2, <1>10, <1>11

(* The file is one: the attributes are finitely many texts with proper      *)
(* names, and the template is one of pieces.                                *)
TextOK ==
    /\ IsFiniteSet(DOMAIN key_pair)
    /\ \A k \in DOMAIN key_pair : IsKey(k) /\ key_pair[k] \in Text
    /\ template \in Seq(Piece)

(* content[i] is the text after i keys.                                     *)
IsContent(content, n, items, text) ==
    /\ content \in [0..n -> Text]
    /\ content[0] = text
    /\ \A i \in 1..n : content[i] = Replace(content[i - 1], items[i], key_pair[items[i]])
    /\ GetEnvironmentContent(items, text) = content[n]

(* get_environment_content computes what its loop says.                     *)
LEMMA ContentsAre ==
    ASSUME NEW n \in Nat, NEW items, items \in [1..n -> DOMAIN key_pair], TextOK, NEW text \in Text
    PROVE  \E content : IsContent(content, n, items, text)
<1> DEFINE After(t, i) == Replace(t, items[i], key_pair[items[i]])
           Def(content) == [i \in 0..n |-> IF i = 0 THEN text ELSE After(content[i - 1], i)]
           next == [i \in 1..n |-> [t \in Text |-> After(t, i)]]
           content == CHOOSE f : f = Def(f)
<1>1. ASSUME NEW i \in 1..n, NEW t \in Text PROVE After(t, i) \in Text
  <2> DEFINE k == items[i]
             v == key_pair[k]
  <2>1. k \in Text /\ v \in Text
    BY DEF TextOK, IsKey, Text
  <2> HIDE DEF k, v
  <2>2. Replace(t, k, v) \in Text
    BY <2>1, ReplaceType
  <2> QED BY <2>2 DEF k, v
<1>2. \A i \in 1..n : i \in 0..n /\ i - 1 \in 0..n /\ i # 0
  OBVIOUS
<1>3. Len(items) = n
  OBVIOUS
<1>4. GetEnvironmentContent(items, text) = content[n]
  BY <1>3 DEF GetEnvironmentContent
<1> HIDE DEF After
<1>5. PICK f \in [0..n -> Text] : f[0] = text /\ \A i \in 1..n : f[i] = next[i][f[i - 1]]
  <2> DEFINE X == Text
  <2>1. n \in Nat /\ text \in X /\ next \in [1..n -> [X -> X]]
    BY <1>1
  <2> HIDE DEF next, X
  <2>2. \E f : Iterates(f, n, text, next, X)
    BY <2>1, Recursion
  <2> QED BY <2>2 DEF Iterates, X
<1>6. f = Def(f)
  <2>1. \A i \in 1..n : next[i][f[i - 1]] = After(f[i - 1], i)
    BY <1>2
  <2> HIDE DEF next
  <2>2. \A i \in 0..n : i = 0 \/ i \in 1..n
    OBVIOUS
  <2> QED BY <1>5, <2>1, <2>2
<1>7. content = Def(content)
  <2> HIDE DEF Def
  <2> QED BY <1>6, Zenon
<1> HIDE DEF content, next
<1>8. content[0] = text /\ \A i \in 1..n : content[i] = After(content[i - 1], i)
  BY <1>2, <1>7
<1>9. \A i \in 0..n : content[i] \in Text
  <2> DEFINE T == {i \in 0..n : content[i] \in Text}
  <2>1. 0 \in T
    BY <1>8
  <2>2. ASSUME NEW i \in 1..n, i - 1 \in T PROVE i \in T
    BY <1>1, <1>2, <1>8, <2>2
  <2> HIDE DEF T
  <2>3. 0..n \subseteq T
    BY <2>1, <2>2, Induction
  <2> QED BY <2>3 DEF T
<1>10. content \in [0..n -> Text]
  BY <1>7, <1>9
<1> QED BY <1>4, <1>8, <1>10 DEF After, IsContent

(* What get_environment_content makes of the template is what it makes of   *)
(* each piece by itself.                                                    *)
LEMMA EachByItself ==
    ASSUME TextOK, NEW n \in Nat, NEW items, items \in [1..n -> DOMAIN key_pair]
    PROVE  GetEnvironmentContent(items, Joined(template)) = Joined(Filled(items))
<1> DEFINE l == Len(template)
           word(j) == template[j].word
           mark(j) == template[j].mark
<1>1. l \in Nat /\ \A j \in 1..l : word(j) \in Text /\ mark(j) \in Mark
  <2>1. l \in Nat /\ \A j \in 1..l : template[j] \in Piece
    BY DEF TextOK
  <2> QED BY <2>1 DEF Piece
<1>2. Joined(template) \in Text
  <2>1. l \in 0..l /\ template \in Seq(Piece)
    BY <1>1 DEF TextOK
  <2>2. \E joined \in [0..l -> Text] : Joined(template) = joined[l]
    BY <2>1, JoinedAre
  <2> HIDE DEF l
  <2> QED BY <2>1, <2>2
<1>3. PICK content : IsContent(content, n, items, Joined(template))
  BY <1>2, ContentsAre
<1> DEFINE texts == [j \in 1..l |-> CHOOSE c : IsContent(c, n, items, word(j))]
<1> HIDE DEF l, word, mark
<1>4. ASSUME NEW j \in 1..l PROVE IsContent(texts[j], n, items, word(j))
  <2>1. word(j) \in Text
    BY <1>1
  <2>2. \E c : IsContent(c, n, items, word(j))
    BY <2>1, ContentsAre
  <2> QED BY <2>2
<1> HIDE DEF texts
<1> DEFINE At(i) == [j \in 1..l |-> [mark |-> mark(j), word |-> texts[j][i]]]
<1>5. ASSUME NEW i \in 0..n PROVE At(i) \in Seq(Piece) /\ Len(At(i)) = l
  <2>1. \A j \in 1..l : texts[j][i] \in Text
    BY <1>4 DEF IsContent
  <2>2. \A j \in 1..l : [mark |-> mark(j), word |-> texts[j][i]] \in Piece
    BY <1>1, <2>1 DEF Piece
  <2> QED BY <1>1, <2>2
<1> DEFINE T == {i \in 0..n : content[i] = Joined(At(i))}
<1>6. 0 \in T
  <2>1. \A j \in 1..l : texts[j][0] = word(j)
    BY <1>4 DEF IsContent
  <2>2. template = [j \in 1..l |-> template[j]] /\ \A j \in 1..l : template[j] \in Piece
    BY DEF TextOK, l
  <2>3. \A j \in 1..l : template[j] = [mark |-> mark(j), word |-> word(j)]
    BY <2>2 DEF Piece, mark, word
  <2>4. At(0) = template
    BY <2>1, <2>2, <2>3
  <2>5. content[0] = Joined(template) /\ 0 \in 0..n
    BY <1>3 DEF IsContent
  <2> QED BY <2>4, <2>5
<1>7. ASSUME NEW i \in 1..n, i - 1 \in T PROVE i \in T
  <2> DEFINE k == items[i]
             v == key_pair[k]
             old == At(i - 1)
  <2>1. IsKey(k) /\ v \in Text /\ i \in 0..n /\ i - 1 \in 0..n
    BY DEF TextOK
  <2>2. old \in Seq(Piece) /\ Len(old) = l
    BY <1>5, <2>1
  <2>3. content[i] = Replace(content[i - 1], k, v) /\ content[i - 1] = Joined(old)
    BY <1>3, <1>7 DEF IsContent
  <2>4. \A j \in 1..l : texts[j][i] = Replace(texts[j][i - 1], k, v)
    BY <1>4 DEF IsContent
  <2>5. \A j \in 1..l : old[j].mark = mark(j) /\ old[j].word = texts[j][i - 1]
    OBVIOUS
  <2> HIDE DEF k, v, old
  <2>6. ReplacedEach(old, k, v) = At(i)
    BY <2>2, <2>4, <2>5 DEF ReplacedEach
  <2>7. Replace(Joined(old), k, v) = Joined(ReplacedEach(old, k, v))
    BY <2>1, <2>2, ReplaceJoined
  <2> HIDE DEF At
  <2> QED BY <2>1, <2>3, <2>6, <2>7
<1>8. n \in T
  <2> HIDE DEF T
  <2>1. 0..n \subseteq T
    BY <1>6, <1>7, Induction
  <2> QED BY <2>1
<1>9. At(n) = Filled(items)
  <2>1. \A j \in 1..l : texts[j][n] = GetEnvironmentContent(items, word(j))
    BY <1>4 DEF IsContent
  <2>2. DOMAIN template = 1..l /\ \A j \in 1..l : template[j] \in Piece
    BY DEF TextOK, l
  <2>3. \A j \in 1..l : [template[j] EXCEPT !.word = GetEnvironmentContent(items, template[j].word)] =
                        [mark |-> mark(j), word |-> texts[j][n]]
    BY <2>1, <2>2 DEF Piece, mark, word
  <2> QED BY <2>2, <2>3 DEF Filled
<1> QED BY <1>3, <1>8, <1>9 DEF IsContent

(* A word that no other key disturbs becomes its value, if it is a key, and *)
(* stays as it is otherwise.                                                *)
LEMMA WordFilled ==
    ASSUME TextOK, NEW n \in Nat, NEW items, items \in [1..n -> DOMAIN key_pair],
           \A p, q \in 1..n : items[p] = items[q] => p = q,
           \A k \in DOMAIN key_pair : \E p \in 1..n : items[p] = k,
           NEW word \in Text, LeftAlone(items, word)
    PROVE  GetEnvironmentContent(items, word) =
           IF word \in DOMAIN key_pair THEN key_pair[word] ELSE word
<1>1. PICK content : IsContent(content, n, items, word)
  BY ContentsAre
<1> DEFINE Became(i) == IF \E p \in 1..i : items[p] = word THEN key_pair[word] ELSE word
           T == {i \in 0..n : content[i] = Became(i)}
<1>2. 0 \in T
  BY <1>1 DEF IsContent
<1>3. ASSUME NEW i \in 1..n, i - 1 \in T PROVE i \in T
  <2> DEFINE k == items[i]
             v == key_pair[k]
  <2>1. /\ IsKey(k) /\ v \in Text /\ i \in 0..n /\ i - 1 \in 0..n
        /\ \A p \in 1..i : p = i \/ p \in 1..(i - 1)
        /\ \A p \in 1..(i - 1) : p \in 1..i /\ p \in 1..n /\ p # i
        /\ i \in 1..i
    BY DEF TextOK
  <2>2. content[i] = Replace(content[i - 1], k, v) /\ content[i - 1] \in Text
    BY <1>1, <2>1 DEF IsContent
  <2>3. content[i - 1] = Became(i - 1)
    BY <1>3
  <2>4. CASE k = word
    <3>1. ~\E p \in 1..(i - 1) : items[p] = word
      BY <2>1, <2>4
    <3>2. content[i - 1] = k
      BY <2>3, <2>4, <3>1
    <3>3. Became(i) = v
      BY <2>1, <2>4
    <3>4. content[i] = v
      <4> HIDE DEF k, v
      <4> QED BY <2>1, <2>2, <3>2, ReplaceKey
    <3> QED BY <2>1, <3>3, <3>4
  <2>5. CASE k # word
    <3>1. ~IsPart(k, Became(i - 1))
      BY <2>5 DEF LeftAlone
    <3>2. Became(i) = Became(i - 1)
      BY <2>1, <2>5
    <3>3. content[i] = content[i - 1]
      <4>1. ~IsPart(k, content[i - 1])
        BY <2>3, <3>1
      <4> HIDE DEF k, v
      <4> QED BY <2>1, <2>2, <4>1, ReplaceAbsent
    <3>4. content[i] = Became(i)
      BY <2>3, <3>2, <3>3
    <3> QED BY <2>1, <3>4
  <2> QED BY <2>4, <2>5
<1>4. n \in T
  <2> HIDE DEF T
  <2>1. 0..n \subseteq T
    BY <1>2, <1>3, Induction
  <2> QED BY <2>1
<1>5. (\E p \in 1..n : items[p] = word) <=> word \in DOMAIN key_pair
  OBVIOUS
<1> QED BY <1>1, <1>4, <1>5 DEF IsContent

(* For any attributes, template and order of the items:                     *)
(* get_environment_content replaces in each word of the template by itself, *)
(* and a word that no other key disturbs in that order becomes its value if *)
(* it is the name of an attribute, and stays as it is if it is not.         *)
THEOREM EnvironmentCorrect == TextSpec => []EnvironmentIsFilledIn
<1>1. TextInit => TextOK
  <2> SUFFICES ASSUME TextInit PROVE TextOK
    OBVIOUS
  <2> DEFINE words == Seq(Part \ Mark)
             pieces == [mark : Mark, word : words]
  <2>1. template \in Seq(pieces)
    BY TextAssumption DEF TextInit
  <2>2. words \subseteq Text
    BY DEF Text
  <2> HIDE DEF words
  <2>3. pieces \subseteq Piece
    BY <2>2 DEF Piece
  <2> HIDE DEF pieces
  <2>4. template \in Seq(Piece)
    BY <2>1, <2>3
  <2> QED BY <2>4, TextAssumption DEF TextInit, TextOK, IsKey
<1>2. TextOK /\ [UNCHANGED textVars]_textVars => TextOK'
  BY DEF TextOK, textVars
<1>3. ASSUME TextOK PROVE EnvironmentIsFilledIn
  <2> DEFINE n == Cardinality(DOMAIN key_pair)
  <2> SUFFICES ASSUME NEW items \in Bijection(1..n, DOMAIN key_pair)
               PROVE  /\ GetEnvironmentContent(items, Joined(template)) = Joined(Filled(items))
                      /\ \A i \in DOMAIN template :
                            LET word == template[i].word
                            IN  LeftAlone(items, word) =>
                                   Filled(items)[i].word =
                                      IF word \in DOMAIN key_pair THEN key_pair[word] ELSE word
    BY DEF EnvironmentIsFilledIn
  <2>1. n \in Nat
    BY <1>3, FS_CardinalityType DEF TextOK
  <2> HIDE DEF n
  <2>2. /\ items \in [1..n -> DOMAIN key_pair]
        /\ \A p, q \in 1..n : items[p] = items[q] => p = q
        /\ \A k \in DOMAIN key_pair : \E p \in 1..n : items[p] = k
    BY DEF Bijection, Injection, Surjection, IsInjective
  <2>3. GetEnvironmentContent(items, Joined(template)) = Joined(Filled(items))
    BY <1>3, <2>1, <2>2, EachByItself
  <2>4. ASSUME NEW i \in DOMAIN template, LeftAlone(items, template[i].word)
        PROVE  Filled(items)[i].word =
                  IF template[i].word \in DOMAIN key_pair
                  THEN key_pair[template[i].word] ELSE template[i].word
    <3>1. template[i] \in Piece
      BY <1>3 DEF TextOK
    <3>2. Filled(items)[i].word = GetEnvironmentContent(items, template[i].word)
      BY <3>1 DEF Filled, Piece
    <3> DEFINE w == template[i].word
    <3>3. w \in Text /\ LeftAlone(items, w)
      BY <2>4, <3>1 DEF Piece
    <3> HIDE DEF w
    <3>4. GetEnvironmentContent(items, w) =
          IF w \in DOMAIN key_pair THEN key_pair[w] ELSE w
      BY <1>3, <2>1, <2>2, <3>3, WordFilled
    <3> QED BY <3>2, <3>4 DEF w
  <2> QED BY <2>3, <2>4
<1> QED BY <1>1, <1>2, <1>3, PTL DEF TextSpec
==============================================================================
