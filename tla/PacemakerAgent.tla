---------------------------- MODULE PacemakerAgent ----------------------------
(***************************************************************************)
(* The agent and vip providers of cookbooks/pacemaker, as the              *)
(* pacemaker-*-config roles run them on one host of each Pacemaker cluster *)
(* (cookbooks/openstack-ha/recipes).  A provider is a list of `execute`    *)
(* resources: each looks at `pcs resource` and then runs one pcs command.  *)
(* A command that fails ends the chef run; nothing is undone.  The CIB     *)
(* outlives the run, and the next run begins with what it finds there.     *)
(***************************************************************************)
EXTENDS Naturals, Sequences

CONSTANTS
    Resource,         \* names of Pacemaker resources
    Type,             \* resource -> its pacemaker_agent type
    HasVip,           \* resources whose recipe creates a virtual IP first
    Within,           \* <<r, s>>: the address of r's virtual IP is a part of the text of s's
    Mysql,            \* resources whose name the guard's `grep -vi mysql` drops
    RunList,          \* the resources in the order of the recipes; Chef runs a recipe once
    MaxInterruptions  \* bound: commands that fail and runs that die

ASSUME AgentAssumption ==
    /\ Type \in [Resource -> {"clone", "master", "active/passive"}]
    /\ {r \in Resource : Type[r] = "master"} \subseteq HasVip
    /\ HasVip \subseteq Resource
    /\ Within \subseteq HasVip \X HasVip
    /\ Mysql \subseteq {r \in Resource : Type[r] # "master"}
    /\ RunList \in Seq(Resource)
    /\ \A j, k \in 1..Len(RunList) : RunList[j] = RunList[k] => j = k
    /\ MaxInterruptions \in Nat

VARIABLES
    res,            \* resource -> as `pcs resource` shows it
    vip,            \* resources whose virtual IP exists
    monitors,       \* resource -> monitor operations it has
    colocation,     \* resource -> constraints that keep its VIP with its master
    order,          \* resource -> constraints that start the VIP after promotion
    at,             \* position in RunList, 0 when no run is on
    command,        \* the execute resource that is next
    last,           \* how the last run ended
    interruptions

cib  == <<res, vip, monitors, colocation, order>>
vars == <<cib, at, command, last, interruptions>>

(* "wrapped": listed as NAME-clone or NAME-master, and so found by the      *)
(* guards; "plain": there, but without its clone.                           *)
Shown == {"absent", "plain", "wrapped"}

Command == {"vip", "delete", "create", "clone", "clean", "op", "colocation", "order"}

TypeOK ==
    /\ res \in [Resource -> Shown]
    /\ vip \in SUBSET Resource
    /\ monitors \in [Resource -> 0..2]
    /\ colocation \in [Resource -> 0..1]
    /\ order \in [Resource -> 0..1]
    /\ at \in 0..Len(RunList)
    /\ command \in {"none"} \cup Command
    /\ last \in {"none", "ended", "failed"}
    /\ interruptions \in 0..MaxInterruptions

Init ==
    /\ res = [r \in Resource |-> "absent"]
    /\ vip = {}
    /\ monitors = [r \in Resource |-> 0]
    /\ colocation = [r \in Resource |-> 0]
    /\ order = [r \in Resource |-> 0]
    /\ at = 0
    /\ command = "none"
    /\ last = "none"
    /\ interruptions = 0

------------------------------------------------------------------------------
(* The execute resources of one recipe, in the order they run; the sleep is *)
(* left out.  The last three are of the recipe of the one master, QPID.     *)
Second(r) == IF Type[r] = "active/passive" THEN "create" ELSE "delete"

First(r) == IF r \in HasVip THEN "vip" ELSE Second(r)

Following(r, c) ==
    CASE c = "vip"        -> Second(r)
      [] c = "delete"     -> "create"
      [] c = "create"     -> IF Type[r] = "clone" THEN "clone" ELSE "clean"
      [] c = "clone"      -> "clean"
      [] c = "clean"      -> IF Type[r] = "master" THEN "op" ELSE "end"
      [] c = "op"         -> "colocation"
      [] c = "colocation" -> "order"
      [] OTHER            -> "end"

R == RunList[at]

Does(c) == at > 0 /\ command = c

(* To the next command, the next resource, or the end of the run.           *)
Proceed ==
    /\ \/ /\ Following(R, command) # "end"
          /\ command' = Following(R, command)
          /\ UNCHANGED <<at, last>>
       \/ /\ Following(R, command) = "end"
          /\ at < Len(RunList)
          /\ at' = at + 1
          /\ command' = First(RunList[at + 1])
          /\ UNCHANGED last
       \/ /\ Following(R, command) = "end"
          /\ at = Len(RunList)
          /\ at' = 0
          /\ command' = "none"
          /\ last' = "ended"
    /\ UNCHANGED interruptions

(* The command exits with an error: so does chef-client.                    *)
Abort ==
    /\ at' = 0
    /\ command' = "none"
    /\ last' = "failed"

StartRun ==
    /\ at = 0
    /\ RunList # <<>>
    /\ at' = 1
    /\ command' = First(RunList[1])
    /\ UNCHANGED <<cib, last, interruptions>>

(* not_if of the vip provider: grep finds the address in any virtual IP     *)
(* that shows it as a part of its own.                                      *)
AddressShown(r) == \E s \in vip : s = r \/ <<r, s>> \in Within

CreateVip ==
    /\ Does("vip")
    /\ vip' = IF AddressShown(R) THEN vip ELSE vip \cup {R}
    /\ Proceed
    /\ UNCHANGED <<res, monitors, colocation, order>>

(* Constraints and operations go with the resource.                         *)
Drop ==
    /\ res' = [res EXCEPT ![R] = "absent"]
    /\ monitors' = [monitors EXCEPT ![R] = 0]
    /\ colocation' = [colocation EXCEPT ![R] = 0]
    /\ order' = [order EXCEPT ![R] = 0]

\* mutant: nothing is deleted before it is created again
DeleteNever ==
    /\ Does("delete")
    /\ Proceed
    /\ UNCHANGED cib

\* mutant: the guard looks for the resource whether wrapped or not
DeletePlainToo ==
    /\ Does("delete")
    /\ IF res[R] # "absent" /\ R \notin Mysql
       THEN Drop
       ELSE UNCHANGED <<res, monitors, colocation, order>>
    /\ Proceed
    /\ UNCHANGED vip

Delete ==
    /\ Does("delete")
    /\ IF res[R] = "wrapped" /\ R \notin Mysql
       THEN Drop
       ELSE UNCHANGED <<res, monitors, colocation, order>>
    /\ Proceed
    /\ UNCHANGED vip

(* not_if: active/passive looks for the name, the others for NAME-type.     *)
Created == IF Type[R] = "active/passive" THEN res[R] # "absent" ELSE res[R] = "wrapped"

(* `pcs resource create` refuses a name that is taken.  --master wraps the  *)
(* resource at once.                                                        *)
Create ==
    /\ Does("create")
    /\ \/ /\ Created
          /\ Proceed
          /\ UNCHANGED cib
       \/ /\ res[R] = "absent"
          /\ res' = [res EXCEPT ![R] = IF Type[R] = "master" THEN "wrapped" ELSE "plain"]
          /\ monitors' = [monitors EXCEPT ![R] = 1]
          /\ Proceed
          /\ UNCHANGED <<vip, colocation, order>>
       \/ /\ ~Created
          /\ res[R] # "absent"
          /\ Abort
          /\ UNCHANGED <<cib, interruptions>>

\* mutant: the guard looks for the name alone
CloneUnlessListed ==
    /\ Does("clone")
    /\ res' = [res EXCEPT ![R] = IF @ = "absent" THEN "wrapped" ELSE @]
    /\ Proceed
    /\ UNCHANGED <<vip, monitors, colocation, order>>

Clone ==
    /\ Does("clone")
    /\ res' = [res EXCEPT ![R] = "wrapped"]
    /\ Proceed
    /\ UNCHANGED <<vip, monitors, colocation, order>>

(* crm_resource --cleanup clears failures, not configuration.               *)
Clean ==
    /\ Does("clean")
    /\ Proceed
    /\ UNCHANGED cib

(* The slave's monitor; one of that interval may not be there yet.          *)
AddOperation ==
    /\ Does("op")
    /\ IF monitors[R] = 1
       THEN monitors' = [monitors EXCEPT ![R] = 2] /\ Proceed
       ELSE Abort /\ UNCHANGED <<monitors, interruptions>>
    /\ UNCHANGED <<res, vip, colocation, order>>

(* Constraints on a resource that is not there are refused.                 *)
AddColocation ==
    /\ Does("colocation")
    /\ IF R \in vip
       THEN colocation' = [colocation EXCEPT ![R] = @ + 1] /\ Proceed
       ELSE Abort /\ UNCHANGED <<colocation, interruptions>>
    /\ UNCHANGED <<res, vip, monitors, order>>

AddOrder ==
    /\ Does("order")
    /\ IF R \in vip
       THEN order' = [order EXCEPT ![R] = @ + 1] /\ Proceed
       ELSE Abort /\ UNCHANGED <<order, interruptions>>
    /\ UNCHANGED <<res, vip, monitors, colocation>>

(* A pcs command fails, the host goes down, the bootstrap is killed.        *)
Interrupt ==
    /\ at > 0
    /\ interruptions < MaxInterruptions
    /\ interruptions' = interruptions + 1
    /\ Abort
    /\ UNCHANGED cib

Step ==
    \/ CreateVip \/ Delete \/ Create \/ Clone \/ Clean
    \/ AddOperation \/ AddColocation \/ AddOrder

Next == StartRun \/ Step \/ Interrupt

Spec == Init /\ [][Next]_vars

(* A chef run goes on by itself, and the operator runs it again.            *)
FairSpec == Spec /\ WF_vars(Step) /\ WF_vars(StartRun)

------------------------------------------------------------------------------
(* Properties                                                               *)

Configured(r) ==
    /\ res[r] = IF Type[r] = "active/passive" THEN "plain" ELSE "wrapped"
    /\ r \in HasVip => AddressShown(r)
    /\ Type[r] = "master" => r \in vip /\ monitors[r] = 2 /\ colocation[r] = 1 /\ order[r] = 1

(* A run that gets to its end has configured every resource of its list,    *)
(* with each operation and constraint exactly once, wherever the runs       *)
(* before it were cut off.  Only a virtual IP may be missing, without an    *)
(* error: one that has no constraints and whose address is a part of that   *)
(* of another.                                                              *)
EndedMeansConfigured ==
    at = 0 /\ last = "ended" => \A k \in 1..Len(RunList) : Configured(RunList[k])

(* A clone whose run was cut off between `pcs resource create` and `pcs     *)
(* resource clone`: the guards look for NAME-clone, so it is neither        *)
(* deleted nor found created.                                               *)
HalfCloned(r) ==
    /\ Type[r] = "clone"
    /\ res[r] = "plain"
    /\ ~(Does("clone") /\ R = r)

(* A master whose virtual IP is missing because the guard of its creation   *)
(* took another's for it.                                                   *)
Shadowed(r) == Type[r] = "master" /\ r \notin vip /\ AddressShown(r)

Blocking(r) == HalfCloned(r) \/ Shadowed(r)

(* What stops a run that is not interrupted stops every later one: it is a  *)
(* resource of these two kinds, never an operation or constraint that is    *)
(* there already or not yet, wherever earlier runs were cut off; no later   *)
(* run mends it, and none gets to its end.                                  *)
StopsAreForGood ==
    [][/\ at > 0 /\ at' = 0 /\ last' = "failed" /\ interruptions' = interruptions
             => Blocking(R)
       /\ \A k \in 1..Len(RunList) : Blocking(RunList[k]) =>
             Blocking(RunList[k])' /\ ~(at > 0 /\ at' = 0 /\ last' = "ended")]_vars

(* Hardly anything else blocks: in the long run, either runs get to their   *)
(* end again and again, or what stops them is a half cloned resource, or a  *)
(* master whose virtual IP the guard takes for another's.                   *)
OnlyHalfClonedBlocks ==
    \/ []<>(at = 0 /\ last = "ended")
    \/ <>[](\E r \in Resource : Blocking(r))
==============================================================================
