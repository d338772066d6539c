----------------------------- MODULE InstallRun -----------------------------
(***************************************************************************)
(* run() of scripts/install_openstack.py, composed with Chef.bootstrap     *)
(* (module Bootstrap): the phases a command line selects, their order, and *)
(* what they leave on the workstation and on the Chef server, from where   *)
(* every knife bootstrap fetches the environment when its host converges.  *)
(* The environment is tracked as the version of the XML file it was made   *)
(* from; 0 is none.  The operator edits the XML file at any time and runs  *)
(* the script again with other options, while knife processes of earlier   *)
(* runs may still be at work.  The waves are the same in all versions.     *)
(***************************************************************************)
EXTENDS Bootstrap

CONSTANTS
    OptionSets,  \* the command lines the operator uses
    MaxVersion,  \* bound: versions of the XML file
    MaxStarts    \* bound: runs of the script

(* The options -E -U -R -C -d -B -D -a.  run() reads -a, "the same with     *)
(* -E -U -R -C -d -B", into a local variable and never uses it.             *)
Options == {"E", "U", "R", "C", "d", "B", "D", "a"}

ASSUME InstallAssumption ==
    /\ OptionSets \subseteq SUBSET Options
    /\ MaxVersion \in Nat \ {0}
    /\ MaxStarts \in Nat

Version == 0..MaxVersion

\* mutant: the environment is uploaded before it is generated
PhasesSwapped == <<"U", "E", "R", "C", "d", "B", "D">>

(* The ifs of run(), in their order.                                        *)
Phases == <<"E", "U", "R", "C", "d", "B", "D">>

VARIABLES
    xml,       \* version of the XML file on disk
    starts,    \* runs of the script so far
    phase,     \* index of the phase under way, 0 when no run is
    options,   \* options of the run under way
    parsed,    \* version it parsed: its commands and environment text
    file,      \* version in environments/<env>.json
    server,    \* version on the Chef server
    refused,   \* an upload of this run was rejected by knife, unnoticed
    made,      \* bootstrap -> version its commands were made from
    careful,   \* bootstraps of runs with -E and -U and no refused upload
    foreign    \* bootstraps with a host that fetched another version

phaseVars   == <<phase, options, parsed, refused, starts>>
envVars     == <<xml, file, server>>
historyVars == <<made, careful, foreign>>
installVars == <<vars, phaseVars, envVars, historyVars>>

InstallTypeOK ==
    /\ TypeOK
    /\ xml \in 1..MaxVersion
    /\ starts \in 0..MaxStarts
    /\ phase \in 0..Len(Phases)
    /\ options \in SUBSET Options
    /\ parsed \in Version
    /\ file \in Version
    /\ server \in Version
    /\ refused \in BOOLEAN
    /\ made \in [Run -> Version]
    /\ careful \in SUBSET Run
    /\ foreign \in SUBSET Run

InstallInit ==
    /\ Init
    /\ xml = 1
    /\ starts = 0
    /\ phase = 0
    /\ options = {}
    /\ parsed = 0
    /\ file = 0
    /\ server = 0
    /\ refused = FALSE
    /\ made = [r \in Run |-> 0]
    /\ careful = {}
    /\ foreign = {}

------------------------------------------------------------------------------
(* The phases                                                               *)

EditXml ==
    /\ xml < MaxVersion
    /\ xml' = xml + 1
    /\ UNCHANGED <<vars, phaseVars, file, server, historyVars>>

(* The XML file is parsed and the commands are built before any phase; a    *)
(* file without an SSH key and a password ends the script here.             *)
StartRun(opts) ==
    /\ phase = 0
    /\ starts < MaxStarts
    /\ starts' = starts + 1
    /\ phase' = 1
    /\ options' = opts
    /\ parsed' = xml
    /\ refused' = FALSE
    /\ UNCHANGED <<vars, envVars, historyVars>>

Selected(p) == phase # 0 /\ Phases[phase] = p /\ p \in options

(* What the script holds in memory is gone with it.                         *)
EnterPhase(p) ==
    /\ phase' = p
    /\ IF p = 0 THEN options' = {} /\ parsed' = 0 /\ refused' = FALSE
       ELSE UNCHANGED <<options, parsed, refused>>

FollowingPhase == IF phase = Len(Phases) THEN 0 ELSE phase + 1

(* The phases other than Chef.bootstrap: each is followed by the next.      *)
Advance ==
    /\ EnterPhase(FollowingPhase)
    /\ UNCHANGED <<vars, starts, xml, historyVars>>

Skip ==
    /\ phase # 0
    /\ Phases[phase] \notin options
    /\ Advance
    /\ UNCHANGED <<file, server>>

GenerateEnvironment ==
    /\ Selected("E")
    /\ Advance
    /\ file' = parsed
    /\ UNCHANGED server

(* os.system drops the exit status of knife.                                *)
UploadEnvironment ==
    /\ Selected("U")
    /\ phase' = phase + 1
    /\ \/ file # 0 /\ server' = file /\ UNCHANGED refused
       \/ UNCHANGED server /\ refused' = TRUE
    /\ UNCHANGED <<vars, starts, xml, historyVars, options, parsed, file>>

UploadRest ==
    /\ \E p \in {"R", "C", "d"} : Selected(p)
    /\ Advance
    /\ UNCHANGED <<file, server>>

DryRun ==
    /\ Selected("D")
    /\ Advance
    /\ UNCHANGED <<file, server>>

------------------------------------------------------------------------------
(* Chef.bootstrap as a phase                                                *)

(* bootstrap() returns after the last wave; exit(1) in it ends the script.  *)
FollowScript ==
    EnterPhase(IF pc' # "idle" THEN phase
               ELSE IF verdict'[run'] = "finished" THEN FollowingPhase ELSE 0)

EnterBootstrap ==
    /\ Selected("B")
    /\ StartScript
    /\ FollowScript
    /\ made' = [made EXCEPT ![run'] = parsed]
    /\ careful' = (IF {"E", "U"} \subseteq options /\ ~refused
                   THEN careful \cup {run'} ELSE careful)
    /\ UNCHANGED <<starts, envVars, foreign>>

ScriptStep ==
    /\ Script
    /\ FollowScript
    /\ UNCHANGED <<starts, envVars, historyVars>>

(* chef-client on host n, started by knife, fetches the environment.        *)
FetchEnvironment(r, w, n) ==
    /\ process[r][w][n] = "running"
    /\ foreign' = (IF server = made[r] THEN foreign ELSE foreign \cup {r})
    /\ UNCHANGED <<vars, phaseVars, envVars, made, careful>>

KnifeStep ==
    /\ KnifeReturns
    /\ UNCHANGED <<phaseVars, envVars, historyVars>>

(* The script is killed, in whatever phase.                                 *)
Kill ==
    /\ phase # 0
    /\ EnterPhase(0)
    /\ IF pc = "idle" THEN UNCHANGED vars ELSE KillScript
    /\ UNCHANGED <<starts, envVars, historyVars>>

InstallNext ==
    \/ EditXml
    \/ \E opts \in OptionSets : StartRun(opts)
    \/ Skip
    \/ GenerateEnvironment
    \/ UploadEnvironment
    \/ UploadRest
    \/ DryRun
    \/ EnterBootstrap
    \/ ScriptStep
    \/ \E r \in Run, w \in Wave, n \in Node : FetchEnvironment(r, w, n)
    \/ KnifeStep
    \/ Kill

InstallSpec == InstallInit /\ [][InstallNext]_installVars

(* The script is a loop with a one second sleep: it is always scheduled     *)
(* again.  Nothing bounds a knife bootstrap, so it gets no fairness here.   *)
InstallFairSpec == InstallSpec /\ WF_installVars(ScriptStep)

------------------------------------------------------------------------------
(* Properties                                                               *)

(* A host that converged with the environment of another XML file than the  *)
(* one its run list came from belongs to a bootstrap that was not preceded   *)
(* by a good -E -U in the same run, or that ended badly: then a later run    *)
(* may have replaced the environment under its orphans.  It never happens    *)
(* to a run that said "Install finished", whatever the operator edits while  *)
(* the script is at work and whatever earlier runs left behind.              *)
RolesAndEnvironmentAgree ==
    \A r \in foreign \cap careful : verdict[r] \in {"failed", "killed"}
==============================================================================
