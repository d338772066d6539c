------------------------- MODULE PacemakerAgentProofs -------------------------
(***************************************************************************)
(* Proofs about PacemakerAgent, for every set of resources, every run list *)
(* and any number of interruptions.  The strengthening says how far the    *)
(* resource in hand has come (Progress), that those before it in the list  *)
(* are configured (Behind), and what a resource not in hand can look like  *)
(* after any run was cut off (Sane).                                       *)
(***************************************************************************)
EXTENDS PacemakerAgent, TLAPS

Sane(r) ==
    /\ res[r] = "absent" => monitors[r] = 0 /\ colocation[r] = 0 /\ order[r] = 0
    /\ Type[r] = "master" => res[r] # "plain"
    /\ Type[r] = "active/passive" => res[r] # "wrapped"

(* What is known of the resource in hand when its next command is c.        *)
Progress(r, c) ==
    /\ c # "vip" /\ r \in HasVip => AddressShown(r)
    /\ c = "delete" => Type[r] # "active/passive"
    /\ c = "create" /\ Type[r] = "master" => res[r] = "absent"
    /\ c = "clone" => Type[r] = "clone" /\ res[r] # "absent"
    /\ c = "clean" /\ Type[r] = "clone" => res[r] = "wrapped"
    /\ c = "clean" /\ Type[r] = "active/passive" => res[r] = "plain"
    /\ c = "clean" /\ Type[r] = "master" =>
          res[r] = "wrapped" /\ monitors[r] = 1 /\ colocation[r] = 0 /\ order[r] = 0
    /\ c = "op" =>
          /\ Type[r] = "master" /\ res[r] = "wrapped"
          /\ monitors[r] = 1 /\ colocation[r] = 0 /\ order[r] = 0
    /\ c = "colocation" =>
          /\ Type[r] = "master" /\ res[r] = "wrapped"
          /\ monitors[r] = 2 /\ colocation[r] = 0 /\ order[r] = 0
    /\ c = "order" =>
          /\ Type[r] = "master" /\ res[r] = "wrapped"
          /\ monitors[r] = 2 /\ colocation[r] = 1 /\ order[r] = 0 /\ r \in vip

InHand == at > 0 => command \in Command /\ Progress(R, command)
Behind == at > 0 => \A k \in 1..(at - 1) : Configured(RunList[k])

IInv ==
    /\ TypeOK
    /\ \A r \in Resource : Sane(r)
    /\ InHand
    /\ Behind
    /\ EndedMeansConfigured

CibTypeOK ==
    /\ res \in [Resource -> Shown]
    /\ vip \in SUBSET Resource
    /\ monitors \in [Resource -> 0..2]
    /\ colocation \in [Resource -> 0..1]
    /\ order \in [Resource -> 0..1]

(* A command leaves every resource but r alone, and all virtual IPs.        *)
OnlyTouches(r) ==
  /\ vip \subseteq vip'
  /\ \A q \in Resource \ {r} :
       /\ res'[q] = res[q] /\ monitors'[q] = monitors[q]
       /\ colocation'[q] = colocation[q] /\ order'[q] = order[q]
       /\ q \in vip' <=> q \in vip

(* An address once shown stays shown.                                       *)
LEMMA ShownStays == ASSUME vip \subseteq vip', NEW r PROVE AddressShown(r) => AddressShown(r)'
BY DEF AddressShown

------------------------------------------------------------------------------
(* A recipe begins with one of three commands and never comes back to the  *)
(* virtual IP.                                                              *)
LEMMA CommandFacts ==
    ASSUME NEW r \in Resource, NEW c \in Command
    PROVE  /\ First(r) \in {"vip", "delete", "create"}
           /\ Following(r, c) \in Command \cup {"end"}
           /\ Following(r, c) # "vip"
  BY DEF First, Second, Following, Command

(* While a run is on, it has a resource of the list in hand, listed once.   *)
LEMMA InHandIsResource ==
    ASSUME TypeOK, at > 0
    PROVE  /\ at \in 1..Len(RunList)
           /\ R \in Resource
           /\ \A k \in 1..Len(RunList) : RunList[k] \in Resource
           /\ \A k \in 1..Len(RunList) : k # at => RunList[k] # R
  BY AgentAssumption DEF TypeOK, R

(* The invariant holds of an empty CIB.                                     *)
LEMMA InitIInv == Init => IInv
  BY AgentAssumption
     DEF Init, IInv, TypeOK, Shown, Command, Sane, InHand, Behind, EndedMeansConfigured

(* What a command has to establish for the run to go on from it.            *)
LEMMA ProceedKeepsIInv ==
    ASSUME IInv, at > 0, Proceed,
           NEW r \in Resource, r = R,
           NEW c, c = Following(r, command),
           CibTypeOK', OnlyTouches(r), Sane(r)',
           c # "end" => Progress(r, c)',
           c = "end" => Configured(r)'
    PROVE  IInv'
<1>1. /\ at \in 1..Len(RunList)
      /\ \A k \in 1..Len(RunList) : RunList[k] \in Resource
      /\ \A k \in 1..Len(RunList) : k # at => RunList[k] # r
  BY InHandIsResource DEF IInv
<1>2. command \in Command
  BY DEF IInv, InHand
<1>3. c \in Command \cup {"end"}
  BY <1>2, CommandFacts
<1>4. \A q \in Resource : Sane(q)'
  <2>1. ASSUME NEW q \in Resource, q # r PROVE Sane(q)'
    BY <2>1 DEF IInv, Sane, OnlyTouches
  <2> QED BY <2>1
<1>5. \A k \in 1..(at - 1) : Configured(RunList[k])'
  <2> SUFFICES ASSUME NEW k \in 1..(at - 1) PROVE Configured(RunList[k])'
    OBVIOUS
  <2>1. RunList[k] \in Resource \ {r} /\ Configured(RunList[k])
    BY <1>1 DEF IInv, Behind
  <2> QED BY <2>1, ShownStays DEF Configured, OnlyTouches
<1>6. CASE c # "end"
  <2>1. command' = c /\ at' = at /\ last' = last /\ interruptions' = interruptions
    BY <1>6 DEF Proceed
  <2>2. R' = r
    BY <2>1 DEF R
  <2>3. TypeOK'
    BY <2>1, <1>3, <1>6 DEF IInv, TypeOK, CibTypeOK
  <2>4. InHand'
    BY <2>1, <2>2, <1>3, <1>6 DEF InHand
  <2>5. Behind'
    BY <2>1, <1>5 DEF Behind
  <2>6. EndedMeansConfigured'
    BY <2>1 DEF EndedMeansConfigured
  <2> QED BY <1>4, <2>3, <2>4, <2>5, <2>6 DEF IInv
<1>7. CASE c = "end" /\ at < Len(RunList)
  <2> PICK q \in Resource : q = RunList[at + 1]
    BY <1>1, <1>7
  <2>1. at' = at + 1 /\ command' = First(q) /\ last' = last /\ interruptions' = interruptions
    BY <1>7 DEF Proceed
  <2>2. R' = q
    BY <2>1 DEF R
  <2>3. Progress(q, First(q))'
    BY AgentAssumption DEF Progress, First, Second
  <2>4. command' \in Command
    BY <2>1, <1>2, CommandFacts DEF Command
  <2>5. TypeOK'
    BY <2>1, <2>4, <1>1, <1>7 DEF IInv, TypeOK, CibTypeOK
  <2>6. InHand'
    BY <2>1, <2>2, <2>3, <2>4 DEF InHand
  <2>7. Behind'
    <3> SUFFICES ASSUME NEW k \in 1..at PROVE Configured(RunList[k])'
      BY <2>1, <1>1 DEF Behind
    <3> CASE k = at
      BY <1>7 DEF R
    <3> CASE k # at
      BY <1>5, <1>1
    <3> QED OBVIOUS
  <2>8. EndedMeansConfigured'
    BY <2>1, <1>1 DEF EndedMeansConfigured
  <2> QED BY <1>4, <2>5, <2>6, <2>7, <2>8 DEF IInv
<1>8. CASE c = "end" /\ at = Len(RunList)
  <2>1. at' = 0 /\ command' = "none" /\ last' = "ended" /\ interruptions' = interruptions
    BY <1>8 DEF Proceed
  <2>2. TypeOK'
    BY <2>1, <1>1 DEF IInv, TypeOK, CibTypeOK
  <2>3. InHand' /\ Behind'
    BY <2>1 DEF InHand, Behind
  <2>4. EndedMeansConfigured'
    <3> SUFFICES ASSUME NEW k \in 1..Len(RunList) PROVE Configured(RunList[k])'
      BY DEF EndedMeansConfigured
    <3> CASE k = at
      BY <1>8 DEF R
    <3> CASE k # at
      BY <1>5, <1>1, <1>8
    <3> QED OBVIOUS
  <2> QED BY <1>4, <2>2, <2>3, <2>4 DEF IInv
<1> QED BY <1>1, <1>6, <1>7, <1>8

(* Ending a run early leaves nothing to be shown.                           *)
LEMMA AbortKeepsIInv ==
    ASSUME IInv, Abort, UNCHANGED cib, interruptions' \in 0..MaxInterruptions
    PROVE  IInv'
<1>1. TypeOK'
  BY AgentAssumption DEF IInv, TypeOK, Abort, cib
<1>2. \A r \in Resource : Sane(r)'
  BY DEF IInv, Sane, cib
<1>3. InHand' /\ Behind' /\ EndedMeansConfigured'
  BY DEF Abort, InHand, Behind, EndedMeansConfigured
<1> QED BY <1>1, <1>2, <1>3 DEF IInv

(* Every command of a recipe takes its resource one step further.           *)
LEMMA StepIInv ==
    ASSUME IInv, Step
    PROVE  IInv'
<1>1. at > 0
  BY DEF Step, CreateVip, Delete, Create, Clone, Clean, AddOperation, AddColocation,
         AddOrder, Does
<1> PICK r \in Resource : r = R
  BY <1>1, InHandIsResource DEF IInv
<1> PICK c : c = Following(r, command)
  OBVIOUS
<1>2. /\ CibTypeOK /\ Sane(r) /\ Progress(r, command)
      /\ Type[r] \in {"clone", "master", "active/passive"}
      /\ r \in Mysql => Type[r] # "master"
  BY <1>1, AgentAssumption DEF IInv, TypeOK, CibTypeOK, InHand
<1>3. SUFFICES ASSUME Proceed
               PROVE  /\ CibTypeOK' /\ OnlyTouches(r) /\ Sane(r)'
                      /\ c # "end" => Progress(r, c)'
                      /\ c = "end" => Configured(r)'
  <2>1. CASE Proceed
    BY <1>1, <2>1, <1>3, ProceedKeepsIInv
  <2>2. CASE ~Proceed
    <3>1. Abort /\ UNCHANGED cib /\ interruptions' = interruptions
      BY <2>2 DEF Step, CreateVip, Delete, Create, Clone, Clean, AddOperation,
                  AddColocation, AddOrder, cib
    <3> QED BY <3>1, AbortKeepsIInv DEF IInv, TypeOK
  <2> QED BY <2>1, <2>2
<1>4. ~Abort
  <2>1. command \in Command
    BY <1>1 DEF IInv, InHand
  <2>2. c \in Command \cup {"end"}
    BY <2>1, CommandFacts
  <2>3. c # "none"
    BY <2>2 DEF Command
  <2>4. SUFFICES ASSUME Abort PROVE FALSE
    OBVIOUS
  <2>5. at' = 0 /\ command' = "none" /\ last' = "failed"
    BY <2>4 DEF Abort
  <2>6. at \in Nat /\ at + 1 # 0
    BY DEF IInv, TypeOK
  <2>7. \/ command' = c
        \/ at' = at + 1
        \/ last' = "ended"
    BY <1>3 DEF Proceed
  <2> QED BY <2>3, <2>5, <2>6, <2>7
<1>5. CASE CreateVip
  <2>1. /\ command = "vip" /\ vip' = IF AddressShown(r) THEN vip ELSE vip \cup {r}
        /\ res' = res /\ monitors' = monitors /\ colocation' = colocation /\ order' = order
    BY <1>5 DEF CreateVip, Does
  <2>2. c = Second(r)
    BY <2>1 DEF Following
  <2>3. CibTypeOK' /\ OnlyTouches(r) /\ Sane(r)'
    BY <1>2, <2>1 DEF CibTypeOK, OnlyTouches, Sane
  <2>4. AddressShown(r)'
    BY <2>1, ShownStays DEF AddressShown
  <2> QED BY <1>2, <2>1, <2>2, <2>3, <2>4 DEF Progress, Second
<1>6. CASE Delete
  <2>1. command = "delete" /\ vip' = vip /\ c = "create" /\ Type[r] # "active/passive"
    BY <1>2, <1>6 DEF Delete, Does, Following, Progress
  <2>2. CASE res[r] = "wrapped" /\ r \notin Mysql
    <3>1. /\ res' = [res EXCEPT ![r] = "absent"]
          /\ monitors' = [monitors EXCEPT ![r] = 0]
          /\ colocation' = [colocation EXCEPT ![r] = 0]
          /\ order' = [order EXCEPT ![r] = 0]
      BY <1>6, <2>2 DEF Delete, Drop
    <3> QED BY <1>2, ShownStays, <2>1, <3>1 DEF CibTypeOK, Shown, OnlyTouches, Sane, Progress
  <2>3. CASE ~(res[r] = "wrapped" /\ r \notin Mysql)
    <3>1. res' = res /\ monitors' = monitors /\ colocation' = colocation /\ order' = order
      BY <1>6, <2>3 DEF Delete
    <3>2. Type[r] = "master" => res[r] = "absent"
      BY <1>2, <2>3 DEF Sane, CibTypeOK, Shown
    <3> QED BY <1>2, ShownStays, <2>1, <3>1, <3>2 DEF CibTypeOK, Shown, OnlyTouches, Sane, Progress
  <2> QED BY <2>2, <2>3
<1>7. CASE Create
  <2>1. /\ command = "create" /\ c = IF Type[r] = "clone" THEN "clone" ELSE "clean"
        /\ vip' = vip /\ colocation' = colocation /\ order' = order
    BY <1>7 DEF Create, Does, Following, cib
  <2>2. CASE Created /\ UNCHANGED cib
    <3>1. res' = res /\ monitors' = monitors
      BY <2>2 DEF cib
    <3>2. IF Type[r] = "active/passive" THEN res[r] = "plain" ELSE Type[r] = "clone" /\ res[r] = "wrapped"
      BY <1>2, <2>1, <2>2 DEF Created, Sane, CibTypeOK, Shown, Progress
    <3> QED BY <1>2, ShownStays, <2>1, <3>1, <3>2 DEF CibTypeOK, OnlyTouches, Sane, Progress
  <2>3. CASE /\ res[r] = "absent"
             /\ res' = [res EXCEPT ![r] = IF Type[r] = "master" THEN "wrapped" ELSE "plain"]
             /\ monitors' = [monitors EXCEPT ![r] = 1]
    <3>1. res'[r] = (IF Type[r] = "master" THEN "wrapped" ELSE "plain") /\ monitors'[r] = 1
      BY <1>2, <2>3 DEF CibTypeOK
    <3>2. colocation[r] = 0 /\ order[r] = 0
      BY <1>2, <2>3 DEF Sane
    <3>3. CibTypeOK' /\ OnlyTouches(r)
      BY <1>2, <2>1, <2>3 DEF CibTypeOK, Shown, OnlyTouches
    <3> QED BY <1>2, ShownStays, <2>1, <3>1, <3>2, <3>3 DEF Sane, Progress
  <2> QED BY <1>7, <1>4, <2>2, <2>3 DEF Create
<1>8. CASE Clone
  <2>1. /\ command = "clone" /\ c = "clean"
        /\ res' = [res EXCEPT ![r] = "wrapped"]
        /\ vip' = vip /\ monitors' = monitors /\ colocation' = colocation /\ order' = order
    BY <1>8 DEF Clone, Does, Following
  <2>2. Type[r] = "clone" /\ res'[r] = "wrapped"
    BY <1>2, <2>1 DEF Progress, CibTypeOK
  <2>3. CibTypeOK' /\ OnlyTouches(r)
    BY <1>2, <2>1 DEF CibTypeOK, Shown, OnlyTouches
  <2> QED BY <1>2, ShownStays, <2>1, <2>2, <2>3 DEF Sane, Progress
<1>9. CASE Clean
  <2>1. /\ command = "clean" /\ c = IF Type[r] = "master" THEN "op" ELSE "end"
        /\ UNCHANGED cib
    BY <1>9 DEF Clean, Does, Following
  <2> QED BY <1>2, ShownStays, <2>1 DEF CibTypeOK, OnlyTouches, Sane, Progress, Configured, cib
<1>10. CASE AddOperation
  <2>1. /\ command = "op" /\ c = "colocation"
        /\ res' = res /\ vip' = vip /\ colocation' = colocation /\ order' = order
    BY <1>10 DEF AddOperation, Does, Following
  <2>2. monitors[r] = 1 /\ monitors' = [monitors EXCEPT ![r] = 2]
    BY <1>2, <1>10, <2>1 DEF AddOperation, Progress
  <2>3. monitors'[r] = 2 /\ CibTypeOK' /\ OnlyTouches(r)
    BY <1>2, <2>1, <2>2 DEF CibTypeOK, OnlyTouches
  <2> QED BY <1>2, ShownStays, <2>1, <2>2, <2>3 DEF Sane, Progress
<1>11. CASE AddColocation
  <2>1. /\ command = "colocation" /\ c = "order"
        /\ colocation' = [colocation EXCEPT ![r] = @ + 1] /\ r \in vip
        /\ res' = res /\ vip' = vip /\ monitors' = monitors /\ order' = order
    BY <1>4, <1>11 DEF AddColocation, Does, Following
  <2>2. colocation[r] = 0 /\ colocation'[r] = 1
    BY <1>2, <2>1 DEF Progress, CibTypeOK
  <2>3. CibTypeOK' /\ OnlyTouches(r)
    BY <1>2, <2>1, <2>2 DEF CibTypeOK, OnlyTouches
  <2> QED BY <1>2, ShownStays, <2>1, <2>2, <2>3 DEF Sane, Progress
<1>12. CASE AddOrder
  <2>1. /\ command = "order" /\ c = "end"
        /\ order' = [order EXCEPT ![r] = @ + 1] /\ r \in vip
        /\ res' = res /\ vip' = vip /\ monitors' = monitors /\ colocation' = colocation
    BY <1>4, <1>12 DEF AddOrder, Does, Following
  <2>2. order[r] = 0 /\ order'[r] = 1
    BY <1>2, <2>1 DEF Progress, CibTypeOK
  <2>3. CibTypeOK' /\ OnlyTouches(r)
    BY <1>2, <2>1, <2>2 DEF CibTypeOK, OnlyTouches
  <2> QED BY <1>2, ShownStays, <2>1, <2>2, <2>3 DEF Sane, Progress, Configured
<1> QED BY <1>5, <1>6, <1>7, <1>8, <1>9, <1>10, <1>11, <1>12 DEF Step

(* Every step of a run, its start and its interruption keep the invariant.  *)
LEMMA NextIInv == IInv /\ [Next]_vars => IInv'
<1> SUFFICES ASSUME IInv, [Next]_vars PROVE IInv'
  OBVIOUS
<1>1. CASE StartRun
  <2>1. /\ at = 0 /\ at' = 1 /\ command' = First(RunList[1])
        /\ Len(RunList) >= 1 /\ RunList[1] \in Resource
        /\ UNCHANGED <<cib, last, interruptions>>
    BY <1>1, AgentAssumption DEF StartRun
  <2> PICK q \in Resource : q = RunList[1]
    BY <2>1
  <2>2. command' \in Command /\ Progress(q, First(q))'
    BY <2>1 DEF Progress, First, Second, Command
  <2>3. InHand'
    BY <2>1, <2>2 DEF InHand, R
  <2>4. TypeOK'
    BY <2>1, <2>2, AgentAssumption DEF IInv, TypeOK, cib
  <2>5. \A r \in Resource : Sane(r)'
    BY <2>1 DEF IInv, Sane, cib
  <2>6. Behind' /\ EndedMeansConfigured'
    BY <2>1 DEF Behind, EndedMeansConfigured
  <2> QED BY <2>3, <2>4, <2>5, <2>6 DEF IInv
<1>2. CASE Step
  BY <1>2, StepIInv
<1>3. CASE Interrupt
  <2>1. Abort /\ UNCHANGED cib /\ interruptions' \in 0..MaxInterruptions
    BY <1>3, AgentAssumption DEF Interrupt, IInv, TypeOK
  <2> QED BY <2>1, AbortKeepsIInv
<1>4. CASE UNCHANGED vars
  BY <1>4 DEF vars, cib, IInv, TypeOK, Sane, InHand, R, Progress, Behind, Configured,
              AddressShown, EndedMeansConfigured
<1> QED BY <1>1, <1>2, <1>3, <1>4 DEF Next

(* So it holds in every reachable state.                                    *)
LEMMA Inductive == Spec => []IInv
  BY InitIInv, NextIInv, PTL DEF Spec

------------------------------------------------------------------------------
(* Every reachable state is well typed: no constraint and no monitor is     *)
(* ever added twice by the providers, in any sequence of cut-off runs.      *)
THEOREM TypeCorrect == Spec => []TypeOK
  BY Inductive, PTL DEF IInv

(* A run that gets to its end has configured every resource of its list,    *)
(* wherever earlier runs were cut off.                                      *)
THEOREM EndIsConfigured == Spec => []EndedMeansConfigured
  BY Inductive, PTL DEF IInv

(* A clone left half created by a cut-off run stops every later run and is  *)
(* mended by none.                                                          *)
LEMMA HalfClonedStep ==
    ASSUME IInv, [Next]_vars, NEW r \in Resource, HalfCloned(r),
           NEW k \in 1..Len(RunList), r = RunList[k]
    PROVE  HalfCloned(r)' /\ ~(at > 0 /\ at' = 0 /\ last' = "ended")
<1>1. Type[r] = "clone" /\ res[r] = "plain"
  BY DEF HalfCloned
<1>2. CASE UNCHANGED vars
  BY <1>2 DEF vars, cib, HalfCloned, Does, R
<1>3. CASE StartRun
  <2>1. command' # "clone" /\ at = 0 /\ res' = res
    BY <1>3 DEF StartRun, First, Second, cib
  <2> QED BY <1>1, <2>1 DEF HalfCloned, Does
<1>4. CASE Interrupt
  <2>1. res' = res /\ at' = 0 /\ last' = "failed"
    BY <1>4 DEF Interrupt, Abort, cib
  <2> QED BY <1>1, <2>1 DEF HalfCloned, Does
<1>5. CASE Step
  <2>1. at > 0
    BY <1>5 DEF Step, CreateVip, Delete, Create, Clone, Clean, AddOperation, AddColocation,
                AddOrder, Does
  <2> PICK q \in Resource : q = R
    BY <2>1, InHandIsResource DEF IInv
  <2>2. res \in [Resource -> Shown] /\ at \in 1..Len(RunList) /\ command \in Command
    BY <2>1 DEF IInv, TypeOK, InHand
  <2>3. res'[r] = "plain"
    <3>1. CASE Delete
      BY <1>1, <2>2, <3>1 DEF Delete, Drop
    <3>2. CASE Create
      BY <1>1, <2>2, <3>2 DEF Create, cib
    <3>3. CASE Clone
      BY <1>1, <2>2, <3>3 DEF Clone, HalfCloned
    <3> QED BY <1>1, <1>5, <3>1, <3>2, <3>3
            DEF Step, CreateVip, Clean, AddOperation, AddColocation, AddOrder, cib
  <2>4. CASE q = r
    <3>1. command # "clean" /\ command # "clone"
      BY <1>1, <2>1, <2>4 DEF IInv, InHand, Progress, HalfCloned, Does
    <3>2. command \notin {"op", "colocation", "order"}
      BY <1>1, <2>1, <2>4 DEF IInv, InHand, Progress
    <3>3. CASE command = "create"
      <4>1. Create
        BY <1>5, <3>3 DEF Step, CreateVip, Delete, Clone, Clean, AddOperation,
                          AddColocation, AddOrder, Does
      <4>2. Abort
        BY <1>1, <2>4, <4>1 DEF Create, Created
      <4> QED BY <1>1, <2>3, <4>2 DEF Abort, HalfCloned, Does
    <3>4. CASE command \in {"vip", "delete"}
      <4>1. Proceed
        BY <1>5, <3>4 DEF Step, CreateVip, Delete, Create, Clone, Clean, AddOperation,
                          AddColocation, AddOrder, Does
      <4>2. Following(R, command) \in {"delete", "create"}
        BY <3>4 DEF Following, Second
      <4>3. command' # "clone" /\ at' = at
        BY <4>1, <4>2 DEF Proceed
      <4> QED BY <1>1, <2>1, <2>3, <4>3 DEF HalfCloned, Does
    <3> QED BY <2>2, <3>1, <3>2, <3>3, <3>4 DEF Command
  <2>5. CASE q # r
    <3>1. CASE ~Proceed
      <4>1. Abort
        BY <1>5, <3>1 DEF Step, CreateVip, Delete, Create, Clone, Clean, AddOperation,
                          AddColocation, AddOrder
      <4> QED BY <1>1, <2>3, <4>1 DEF Abort, HalfCloned, Does
    <3>2. CASE Proceed /\ at' = at
      <4>1. R' = q
        BY <3>2 DEF R
      <4> QED BY <1>1, <2>1, <2>3, <2>5, <3>2, <4>1 DEF HalfCloned, Does
    <3>3. CASE Proceed /\ at' = at + 1
      <4>1. command' # "clone"
        BY <2>2, <3>3 DEF Proceed, First, Second
      <4> QED BY <1>1, <2>2, <2>3, <3>3, <4>1 DEF HalfCloned, Does
    <3>4. CASE Proceed /\ at = Len(RunList)
      <4>1. k \in 1..(at - 1)
        BY <2>2, <2>5, <3>4 DEF R
      <4>2. Configured(r)
        BY <2>1, <4>1 DEF IInv, Behind
      <4> QED BY <1>1, <4>2 DEF Configured
    <3> QED BY <2>2, <3>1, <3>2, <3>3, <3>4 DEF Proceed
  <2> QED BY <2>4, <2>5
<1> QED BY <1>2, <1>3, <1>4, <1>5 DEF Next

(* What can make a command fail that is not interrupted.                    *)
LEMMA StopExplained ==
    ASSUME IInv, [Next]_vars, at > 0, at' = 0, last' = "failed",
           interruptions' = interruptions
    PROVE  Blocking(R)
<1> PICK r \in Resource : r = R
  BY InHandIsResource DEF IInv
<1>1. /\ Progress(r, command) /\ Sane(r) /\ command \in Command
      /\ Type[r] \in {"clone", "master", "active/passive"}
      /\ res[r] \in Shown /\ at \in Nat /\ last \in {"none", "ended", "failed"}
  BY AgentAssumption DEF IInv, InHand, TypeOK
<1>2. ~Interrupt /\ ~StartRun /\ ~UNCHANGED vars
  <2>1. interruptions \in Nat
    BY DEF IInv, TypeOK
  <2> QED BY <2>1 DEF Interrupt, StartRun, vars
<1>3. Step
  BY <1>2 DEF Next
<1>4. ~Proceed
  BY <1>1, <1>3 DEF Proceed
<1>5. CASE Create
  <2>1. command = "create" /\ ~Created /\ res[r] # "absent"
    BY <1>4, <1>5 DEF Create, Does
  <2>2. Type[r] = "clone" /\ res[r] = "plain"
    BY <1>1, <2>1 DEF Created, Progress, Shown
  <2> QED BY <2>1, <2>2 DEF Blocking, HalfCloned, Does
<1>6. CASE AddOperation
  BY <1>1, <1>4, <1>6 DEF AddOperation, Does, Progress
<1>7. CASE AddColocation
  <2>1. r \notin vip /\ Type[r] = "master"
    BY <1>1, <1>4, <1>7 DEF AddColocation, Does, Progress
  <2>2. AddressShown(r)
    BY <1>1, <1>7, <2>1, AgentAssumption DEF AddColocation, Does, Progress
  <2> QED BY <2>1, <2>2 DEF Blocking, Shadowed
<1>8. CASE AddOrder
  BY <1>1, <1>4, <1>8 DEF AddOrder, Does, Progress
<1> QED
  BY <1>3, <1>4, <1>5, <1>6, <1>7, <1>8 DEF Step, CreateVip, Delete, Clone, Clean

(* A virtual IP that is shown is not created any more, and without its own  *)
(* a master is not configured.                                              *)
LEMMA ShadowedStep ==
    ASSUME IInv, [Next]_vars, NEW r \in Resource, Shadowed(r),
           NEW k \in 1..Len(RunList), r = RunList[k]
    PROVE  Shadowed(r)' /\ ~(at > 0 /\ at' = 0 /\ last' = "ended")
<1>1. vip \subseteq vip' /\ r \notin vip'
  BY DEF Next, StartRun, Interrupt, Step, CreateVip, Delete, Create, Clone, Clean,
         AddOperation, AddColocation, AddOrder, vars, cib, Shadowed
<1>2. Shadowed(r)'
  BY <1>1, ShownStays DEF Shadowed
<1>3. ASSUME at' = 0, last' = "ended" PROVE FALSE
  <2>1. Configured(RunList[k])'
    BY <1>3, NextIInv DEF IInv, EndedMeansConfigured
  <2> QED BY <1>2, <2>1 DEF Configured, Shadowed
<1> QED BY <1>2, <1>3

(* What stops an uninterrupted run is a half cloned resource or a shadowed  *)
(* virtual IP, and stops every later one, for any resources, run list and   *)
(* history of cut-off runs.                                                 *)
THEOREM StoppedForGood == Spec => StopsAreForGood
<1>1. IInv /\ [Next]_vars =>
         [/\ at > 0 /\ at' = 0 /\ last' = "failed" /\ interruptions' = interruptions
                => Blocking(R)
          /\ \A k \in 1..Len(RunList) : Blocking(RunList[k]) =>
                Blocking(RunList[k])' /\ ~(at > 0 /\ at' = 0 /\ last' = "ended")]_vars
  <2> SUFFICES ASSUME IInv, [Next]_vars, NEW k \in 1..Len(RunList), Blocking(RunList[k])
               PROVE  Blocking(RunList[k])' /\ ~(at > 0 /\ at' = 0 /\ last' = "ended")
    BY StopExplained
  <2> PICK r \in Resource : r = RunList[k]
    BY AgentAssumption
  <2>1. CASE HalfCloned(r)
    BY <2>1, HalfClonedStep DEF Blocking
  <2>2. CASE Shadowed(r)
    BY <2>2, ShadowedStep DEF Blocking
  <2> QED BY <2>1, <2>2 DEF Blocking
<1> QED BY <1>1, Inductive, PTL DEF Spec, StopsAreForGood
==============================================================================
