---------------------------- MODULE OcfAgentProofs ----------------------------
(***************************************************************************)
(* What OcfAgent promises, for any process numbers and any shutdown        *)
(* timeout.  The invariant says where the number of the daemon is at each  *)
(* point of an operation: in the file, or with the one shell that is still *)
(* to write it to an empty file, as long as no start was cut off there;    *)
(* until then no shell works without its operation.                        *)
(***************************************************************************)
EXTENDS OcfAgent, TLAPS

(* An operation under way has not answered.                                 *)
Unanswered == pc # "idle" => answer = "none"

(* The one shell at work is that of the start under way, and the file it    *)
(* writes to is empty.                                                      *)
ShellKnown ==
    /\ late \subseteq {pid}
    /\ late # {} => pc = "su"
    /\ pc = "fork" \/ late # {} => pidFile = Empty
    /\ waiting = 0 /\ nameless = 0

(* Somebody has the number of every daemon at work.                         *)
NumberKept == Working \subseteq {pidFile} \cup late

(* No daemon is at work where start is about to fork one, nor where stop is *)
(* about to remove the file.                                                *)
NoneBefore == pc \in {"launch", "fork", "remove"} => Working = {}

(* Stop signals the process the file names.                                 *)
SamePid == pc \in {"wait", "check", "kill"} => pid = pidFile

AbsenceKnown == answer \in {"stopped", "not running"} => Working = {}

Uncut == ShellKnown /\ NumberKept /\ NoneBefore /\ SamePid /\ AbsenceKnown

IInv == TypeOK /\ Unanswered /\ (~cut => Uncut)

(* What Init establishes.                                                   *)
LEMMA InitIInv == Init => IInv
<1> SUFFICES ASSUME Init PROVE IInv
  OBVIOUS
<1>1. 0 \in 0..ShutdownTimeout
  BY OcfAssumption
<1>2. TypeOK
  <2>1. waiting \in Nat /\ nameless \in Nat /\ waiting + nameless <= MaxShells
    BY OcfAssumption DEF Init
  <2> QED
    BY <1>1, <2>1 DEF Init, TypeOK
<1>3. Working = {}
  BY DEF Init, Working, Daemons
<1> QED
  BY <1>2, <1>3
     DEF Init, IInv, Unanswered, Uncut, ShellKnown, NumberKept, NoneBefore, SamePid,
         AbsenceKnown

(* What a step does to the shells that have yet to fork.                    *)
LEMMA ShellsCounted ==
  ASSUME NEW w \in Nat, NEW n \in Nat, NEW M \in Nat, w + n <= M, NEW w2, NEW n2,
         \/ w2 = w /\ n2 = n
         \/ w2 = 0 /\ n2 = n + w
         \/ w + n < M /\ w2 = w + 1 /\ n2 = n
         \/ w > 0 /\ w2 = w - 1 /\ n2 = n
         \/ n > 0 /\ n2 = n - 1 /\ w2 = w
  PROVE  w2 \in Nat /\ n2 \in Nat /\ w2 + n2 <= M
  OBVIOUS

(* Each step keeps the types.                                               *)
LEMMA StepTypeOK == TypeOK /\ [Next]_vars => TypeOK'
<1> SUFFICES ASSUME TypeOK, [Next]_vars PROVE TypeOK'
  OBVIOUS
<1>0. 0 \in 0..ShutdownTimeout
  BY OcfAssumption
<1>w. waiting \in Nat /\ nameless \in Nat /\ MaxShells \in Nat /\ waiting + nameless <= MaxShells
  BY OcfAssumption DEF TypeOK
<1> USE <1>0 DEF TypeOK, Return, Go, Starting, Stopping, orphans
<1>1. CASE Monitor
  BY <1>1 DEF Monitor
<1>2. CASE Call("start") \/ Call("stop")
  BY <1>2 DEF Call
<1>3. CASE Start
  BY <1>3 DEF Start
<1>4. CASE Launch
  BY <1>4 DEF Launch
<1>5. CASE Fork
  BY <1>5 DEF Fork
<1>6. CASE Su
  BY <1>6 DEF Su
<1>7. CASE Spin
  BY <1>7 DEF Spin
<1>8. CASE Stop
  BY <1>8 DEF Stop
<1>9. CASE Term
  BY <1>9 DEF Term, Status
<1>10. CASE Wait
  <2>1. count' \in 0..ShutdownTimeout
    <3>1. count' = count \/ (count < ShutdownTimeout /\ count' = count + 1)
      BY <1>10 DEF Wait
    <3>2. count \in 0..ShutdownTimeout /\ ShutdownTimeout \in Nat
      BY OcfAssumption
    <3> QED
      BY ONLY <3>1, <3>2
  <2>2. pc' \in {"wait", "check"} /\ UNCHANGED <<owner, pidFile, pid, answer, late, orphans, killed, cut>>
    BY <1>10 DEF Wait
  <2> QED
    BY <2>1, <2>2
<1>11. CASE Check
  BY <1>11 DEF Check
<1>12. CASE Kill
  BY <1>12 DEF Kill, Daemons
<1>13. CASE Remove
  <2>1. waiting' = 0 /\ nameless' = nameless + waiting
    BY <1>13 DEF Remove
  <2>2. waiting' \in Nat /\ nameless' \in Nat /\ waiting' + nameless' <= MaxShells
    BY <1>w, <2>1, ShellsCounted
  <2>3. late' \in SUBSET Pid /\ pidFile' = NoFile
    BY <1>13 DEF Remove
  <2> QED
    BY <1>13, <2>2, <2>3 DEF Remove
<1>14. CASE CutOff
  <2>1. waiting' = waiting \/ (waiting + nameless < MaxShells /\ waiting' = waiting + 1)
    BY <1>14 DEF CutOff
  <2>2. nameless' = nameless
    BY <1>14 DEF CutOff
  <2>3. waiting' \in Nat /\ nameless' \in Nat /\ waiting' + nameless' <= MaxShells
    BY <1>w, <2>1, <2>2, ShellsCounted
  <2>4. late' \in SUBSET Pid /\ cut' \in BOOLEAN
    BY <1>14 DEF CutOff
  <2> QED
    BY <1>14, <2>3, <2>4 DEF CutOff
<1>19. CASE LateFork
  <2>1. PICK p \in Pid \ late :
          /\ owner' = [owner EXCEPT ![p] = "daemon"]
          /\ \/ waiting > 0 /\ waiting' = waiting - 1 /\ late' = late \cup {p} /\ UNCHANGED nameless
             \/ nameless > 0 /\ nameless' = nameless - 1 /\ UNCHANGED <<late, waiting>>
    BY <1>19 DEF LateFork
  <2>2. \/ waiting > 0 /\ waiting' = waiting - 1 /\ nameless' = nameless
        \/ nameless > 0 /\ nameless' = nameless - 1 /\ waiting' = waiting
    BY <2>1
  <2>3. waiting' \in Nat /\ nameless' \in Nat /\ waiting' + nameless' <= MaxShells
    BY <1>w, <2>2, ShellsCounted
  <2>4. late' \in SUBSET Pid /\ owner' \in [Pid -> {"none", "daemon", "other"}]
    BY <2>1
  <2> QED
    BY <1>19, <2>3, <2>4 DEF LateFork, operation
<1>15. ASSUME NEW p \in Pid, Echo(p) PROVE TypeOK'
  BY <1>15 DEF Echo, operation
<1>16. ASSUME NEW p \in Pid, Die(p) PROVE TypeOK'
  BY <1>16 DEF Die, operation
<1>17. ASSUME NEW p \in Pid, OtherBegins(p) PROVE TypeOK'
  BY <1>17 DEF OtherBegins, operation
<1>18. CASE UNCHANGED vars
  BY <1>18 DEF vars, operation
<1> QED
  BY <1>1, <1>2, <1>3, <1>4, <1>5, <1>6, <1>7, <1>8, <1>9, <1>10, <1>11, <1>12,
     <1>13, <1>14, <1>15, <1>16, <1>17, <1>18, <1>19 DEF Next, Script

(* Each step keeps the operation under way without an answer.               *)
LEMMA StepUnanswered == Unanswered /\ [Next]_vars => Unanswered'
<1> SUFFICES ASSUME Unanswered, [Next]_vars PROVE Unanswered'
  OBVIOUS
<1> USE DEF Unanswered, Return, Go
<1>1. CASE Monitor \/ Call("start") \/ Call("stop") \/ CutOff
  BY <1>1 DEF Monitor, Call, CutOff
<1>2. CASE Script
  BY <1>2 DEF Script, Start, Launch, Fork, Su, Spin, Stop, Term, Wait, Check, Kill, Remove
<1>3. CASE UNCHANGED operation
  BY <1>3 DEF operation
<1> QED
  BY <1>1, <1>2, <1>3 DEF Next, LateFork, Echo, Die, OtherBegins, vars, operation

(* Where the file names no process, no daemon is at work, but for one whose *)
(* number is still to be written.                                           *)
LEMMA NoStatusNoDaemon ==
  ASSUME NumberKept, late = {}, ~Status PROVE Working = {}
  BY DEF NumberKept, Status, Working, Daemons

(* As long as no start is cut off, each step keeps what is known.           *)
LEMMA StepUncut == IInv /\ [Next]_vars => (~cut' => Uncut')
<1> SUFFICES ASSUME IInv, [Next]_vars, ~cut' PROVE Uncut'
  OBVIOUS
<1>a. ~cut
  BY DEF Next, Script, Monitor, Call, Start, Launch, Fork, Su, Spin, Stop, Term, Wait,
         Check, Kill, Remove, CutOff, LateFork, Echo, Die, OtherBegins, vars
<1>b. TypeOK /\ Unanswered /\ ShellKnown /\ NumberKept /\ NoneBefore /\ SamePid /\ AbsenceKnown
  BY <1>a DEF IInv, Uncut
<1>c. pc # "su" => late = {}
  BY <1>b DEF ShellKnown
<1>d. ~Status /\ late = {} => Working = {}
  BY <1>b, NoStatusNoDaemon
<1> USE <1>b, OcfAssumption
    DEF Uncut, ShellKnown, NumberKept, NoneBefore, SamePid, AbsenceKnown, Unanswered,
        Return, Go, orphans
<1>e. ASSUME UNCHANGED <<owner, killed>> PROVE Working' = Working
  BY <1>e DEF Working, Daemons
<1>1. CASE Monitor
  BY <1>1, <1>c, <1>d, <1>e DEF Monitor
<1>2. CASE Call("start") \/ Call("stop")
  BY <1>2, <1>c, <1>e DEF Call
<1>3. CASE Start
  BY <1>3, <1>c, <1>d, <1>e DEF Start
<1>4. CASE Launch
  BY <1>4, <1>c, <1>e DEF Launch
<1>5. CASE Fork
  <2>1. PICK p \in Pid : owner' = [owner EXCEPT ![p] = "daemon"] /\ pid' = p /\ late' = late \cup {p}
    BY <1>5 DEF Fork
  <2>2. Working' \subseteq {p}
    BY <1>5, <2>1 DEF Fork, Working, Daemons, TypeOK
  <2>3. pidFile' = Empty
    BY <1>5 DEF Fork, ShellKnown
  <2> QED
    BY <1>5, <1>c, <2>1, <2>2, <2>3 DEF Fork
<1>6. CASE Su
  BY <1>6, <1>e DEF Su
<1>7. CASE Spin
  BY <1>7, <1>c, <1>e DEF Spin
<1>8. CASE Stop
  BY <1>8, <1>c, <1>d, <1>e DEF Stop
<1>9. CASE Term
  BY <1>9, <1>c, <1>e DEF Term
<1>10. CASE Wait
  BY <1>10, <1>c, <1>e DEF Wait
<1>11. CASE Check
  BY <1>11, <1>c, <1>d, <1>e DEF Check
<1>12. CASE Kill
  <2>1. Working' = {}
    BY <1>12, <1>c DEF Kill, Working, Daemons, TypeOK
  <2> QED
    BY <1>12, <1>c, <2>1 DEF Kill
<1>13. CASE Remove
  BY <1>13, <1>e DEF Remove
<1>14. CASE CutOff
  <2>1. late = {}
    BY <1>14 DEF CutOff
  <2>2. late' = {}
    BY <1>14, <2>1 DEF CutOff
  <2> QED
    BY <1>14, <1>e, <2>1, <2>2 DEF CutOff
<1>19. CASE LateFork
  <2>a. waiting = 0 /\ nameless = 0
    BY <1>b DEF ShellKnown
  <2>1. ~(waiting > 0) /\ ~(nameless > 0)
    BY ONLY <2>a
  <2> QED
    BY <1>19, <2>1 DEF LateFork
<1>15. ASSUME NEW p \in Pid, Echo(p) PROVE Uncut'
  <2>1. late = {p} /\ late' = {} /\ pc = "su" /\ pidFile = Empty
    BY <1>15 DEF Echo
  <2>2. Working \subseteq {p}
    BY <2>1 DEF Working, Daemons
  <2>3. Working' \subseteq {pidFile'}
    BY <1>15, <1>e, <2>2 DEF Echo
  <2> QED
    BY <1>15, <2>1, <2>3 DEF Echo, operation
<1>16. ASSUME NEW p \in Pid, Die(p) PROVE Uncut'
  <2>1. Working' \subseteq Working
    BY <1>16 DEF Die, Working, Daemons, TypeOK
  <2> QED
    BY <1>16, <2>1 DEF Die, operation
<1>17. ASSUME NEW p \in Pid, OtherBegins(p) PROVE Uncut'
  <2>1. Working' \subseteq Working
    BY <1>17 DEF OtherBegins, Working, Daemons, TypeOK
  <2> QED
    BY <1>17, <2>1 DEF OtherBegins, operation
<1>18. CASE UNCHANGED vars
  BY <1>18, <1>e DEF vars, operation
<1> QED
  BY <1>1, <1>2, <1>3, <1>4, <1>5, <1>6, <1>7, <1>8, <1>9, <1>10, <1>11, <1>12,
     <1>13, <1>14, <1>15, <1>16, <1>17, <1>18, <1>19 DEF Next, Script

(* The invariant is inductive.                                              *)
LEMMA Invariance == Spec => []IInv
<1>1. IInv /\ [Next]_vars => IInv'
  BY StepTypeOK, StepUnanswered, StepUncut DEF IInv
<1> QED
  BY InitIInv, <1>1, PTL DEF Spec

(* Type correctness, of every operation and of what it is cut off by.       *)
THEOREM TypeCorrect == Spec => []TypeOK
  BY Invariance, PTL DEF IInv

(* One daemon at most is at work and its number is kept, unless a start was *)
(* cut off from a shell of su that had still to fork or to echo.            *)
THEOREM AtMostOneDaemon == Spec => []OneDaemon
<1>1. IInv => OneDaemon
  BY OcfAssumption
     DEF IInv, Uncut, ShellKnown, NumberKept, OneDaemon, Lost, Working, Daemons
<1> QED
  BY Invariance, <1>1, PTL

(* "Stopped" and "not running" are true, with the same exception.           *)
THEOREM AbsenceHolds == Spec => []AbsenceIsTrue
<1>1. IInv => AbsenceIsTrue
  BY DEF IInv, Uncut, AbsenceKnown, AbsenceIsTrue
<1> QED
  BY Invariance, <1>1, PTL

(* No step of start, stop or a shell finds the number of a lost daemon.     *)
THEOREM LossIsForGood == Spec => LostIsLost
<1>1. IInv /\ [Next]_vars => [\A p \in Lost : owner'[p] = "daemon" => p \in Lost']_vars
  <2> SUFFICES ASSUME TypeOK, Next, NEW p \in Lost, owner'[p] = "daemon" PROVE p \in Lost'
    BY DEF IInv
  <2>1. p \in Pid /\ owner[p] = "daemon" /\ p \notin killed \cup late \cup {pidFile, pid}
    BY DEF Lost, Working, Daemons
  <2>2. p \notin {NoFile, Empty}
    BY <2>1, OcfAssumption
  <2>3. p \notin killed'
    BY <2>1 DEF Next, Script, Monitor, Call, Start, Launch, Fork, Su, Spin, Stop, Term, Wait,
                Check, Kill, Remove, CutOff, LateFork, Echo, Die, OtherBegins
  <2>4. p \notin late'
    <3>1. CASE Fork \/ LateFork
      BY <2>1, <3>1 DEF Fork, LateFork
    <3>2. CASE CutOff
      BY <2>1, <3>2 DEF CutOff
    <3>3. CASE ~(Fork \/ LateFork \/ CutOff)
      BY <2>1, <3>3 DEF Next, Script, Monitor, Call, Start, Launch, Su, Spin, Stop, Term, Wait,
                        Check, Kill, Remove, Echo, Die, OtherBegins
    <3> QED
      BY <3>1, <3>2, <3>3
  <2>5. p # pidFile'
    BY <2>1, <2>2 DEF Next, Script, Monitor, Call, Start, Launch, Fork, Su, Spin, Stop, Term,
                      Wait, Check, Kill, Remove, CutOff, LateFork, Echo, Die, OtherBegins
  <2>6. p # pid'
    BY <2>1, <2>2 DEF Next, Script, Monitor, Call, Start, Launch, Fork, Su, Spin, Stop, Term,
                      Wait, Check, Kill, Remove, CutOff, LateFork, Echo, Die, OtherBegins, Return, Go,
                      operation
  <2> QED
    BY <2>1, <2>3, <2>4, <2>5, <2>6 DEF Lost, Working, Daemons
<1> QED
  BY Invariance, <1>1, PTL DEF Spec, LostIsLost
==============================================================================
