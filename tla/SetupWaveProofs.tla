--------------------------- MODULE SetupWaveProofs ---------------------------
(***************************************************************************)
(* Proofs about SetupWave, for any hosts and any number of runs and        *)
(* failing calls.                                                          *)
(***************************************************************************)
EXTENDS SetupWave, TLAPS

(* What Neutron holds: an address of the pool needs its subnet, and that    *)
(* its network.                                                             *)
Stored ==
    /\ "pool" \in addresses => subnet
    /\ subnet => networks >= 1

(* Two hosts about to create one thing know of each other.                  *)
Overlap ==
    \A g \in Host, h \in Host, o \in Objects :
       g # h /\ pc[g] \in Window[o] /\ pc[h] \in Window[o] => o \in met[h]

(* What a host that has had no failing call may rely on, call by call.      *)
Relied(h) ==
    /\ pc[h] = "netcreate" => ~decoy /\ (networks # 0 => "network" \in met[h])
    /\ pc[h] \in {"subnetlist", "subnetcreate"} /\ h \notin troubled => networks >= 1 \/ decoy
    /\ pc[h] = "subnetcreate" /\ h \notin troubled /\ start = "network" /\ subnet =>
          "subnet" \in met[h]
    /\ pc[h] \in {"show", "kernel", "ramdisk", "image"} /\ h \notin troubled =>
          subnet \/ found[h] = "other"
    /\ pc[h] \in {"kernel", "ramdisk", "image"} /\ h \notin troubled =>
          ids[h] /\ (Images = 1 => "image" \in met[h])

IInv == TypeOK /\ Stored /\ Overlap /\ \A h \in Host : Relied(h)

(* Windows are sets of calls, and no call is in two of them.                *)
LEMMA WindowCalls ==
    /\ Window["image"] = {"kernel", "ramdisk", "image"}
    /\ Window["network"] = {"netcreate"}
    /\ Window["subnet"] = {"subnetcreate"}
BY DEF Window

(* In SetupWave the variables have their types in every state.              *)
LEMMA StepTypeOK == TypeOK /\ [Next]_vars => TypeOK'
<1> SUFFICES ASSUME TypeOK, [Next]_vars PROVE TypeOK'
    OBVIOUS
<1> USE SetupAssumption DEF TypeOK, cloud, elsewhere, attributes, chef, Answers, Fails, GoTo, End, Calls
<1>0. ASSUME NEW h \in Host, NEW call \in Calls, NEW object \in Objects, GoToCreate(h, call, object)
      PROVE  /\ pc' \in [Host -> Calls \cup {"idle"}]
             /\ met' \in [Host -> SUBSET Objects]
             /\ result' = result
  BY <1>0 DEF GoToCreate
<1>o. "image" \in Objects /\ "network" \in Objects /\ "subnet" \in Objects
  BY DEF Objects
<1>1. CASE Tenants
  <2>1. addresses' \in SUBSET {"pool", "other"}
    BY <1>1 DEF Tenants
  <2> QED BY <1>1, <2>1 DEF Tenants
<1>12. CASE OtherSubnets
  BY <1>12 DEF OtherSubnets
<1>13. CASE ByHand
  <2>1. met' \in [Host -> SUBSET Objects]
    BY <1>13, <1>o DEF ByHand
  <2> QED BY <1>13, <2>1 DEF ByHand
<1>2. ASSUME NEW h \in Host, StartRun(h) PROVE TypeOK'
  BY <1>2 DEF StartRun
<1>3. ASSUME NEW h \in Host, FloatingIpList(h) PROVE TypeOK'
  BY <1>3 DEF FloatingIpList, Finds
<1>4. ASSUME NEW h \in Host, NetList(h) PROVE TypeOK'
  <2>1. CASE GoTo(h, "subnetlist")
    BY <1>4, <2>1 DEF NetList
  <2>2. CASE GoToCreate(h, "netcreate", "network")
    BY <1>4, <2>2, <1>0, <1>o DEF NetList
  <2> QED BY <1>4, <2>1, <2>2 DEF NetList
<1>5. ASSUME NEW h \in Host, NetCreate(h) PROVE TypeOK'
  BY <1>5 DEF NetCreate
<1>6. ASSUME NEW h \in Host, SubnetList(h) PROVE TypeOK'
  <2>1. /\ UNCHANGED <<cloud, attributes, runs, ids>>
        /\ faults' \in 0..MaxFaults /\ troubled' \in SUBSET Host
    BY <1>6 DEF SubnetList
  <2>2. found' \in [Host -> {"nothing", "own", "other"}]
    BY <1>6 DEF SubnetList, Finds
  <2>3. CASE GoTo(h, "show")
    BY <2>1, <2>2, <2>3
  <2>4. CASE GoToCreate(h, "subnetcreate", "subnet")
    BY <2>1, <2>2, <2>4, <1>0, <1>o
  <2> QED BY <1>6, <2>3, <2>4 DEF SubnetList, Finds
<1>7. ASSUME NEW h \in Host, SubnetCreate(h) PROVE TypeOK'
  <2>1. subnet' \in BOOLEAN
    BY <1>7 DEF SubnetCreate
  <2>2. CASE GoTo(h, "show")
    BY <1>7, <2>1, <2>2 DEF SubnetCreate
  <2>3. CASE End(h, "failed")
    BY <1>7, <2>1, <2>3 DEF SubnetCreate
  <2> QED BY <1>7, <2>2, <2>3 DEF SubnetCreate
<1>8. ASSUME NEW h \in Host, Show(h) PROVE TypeOK'
  <2>1. CASE End(h, "ok")
    BY <1>8, <2>1 DEF Show
  <2>2. CASE GoToCreate(h, FirstPart, "image")
    BY <1>8, <2>2, <1>0, <1>o DEF Show, FirstPart
  <2> QED BY <1>8, <2>1, <2>2 DEF Show
<1>9. ASSUME NEW h \in Host, UploadPart(h) PROVE TypeOK'
  <2>1. GoTo(h, "ramdisk") \/ GoTo(h, "image")
    BY <1>9 DEF UploadPart
  <2>2. ids' \in [Host -> BOOLEAN]
    BY <1>9 DEF UploadPart
  <2>3. faults' \in 0..MaxFaults /\ troubled' \in SUBSET Host
    BY <1>9 DEF UploadPart
  <2>4. pc' \in [Host -> Calls \cup {"idle"}] /\ UNCHANGED <<met, result>>
    BY <2>1
  <2>5. UNCHANGED <<cloud, attributes, runs, found>>
    BY <1>9 DEF UploadPart
  <2> QED BY <2>2, <2>3, <2>4, <2>5
<1>10. ASSUME NEW h \in Host, ImageCreate(h) PROVE TypeOK'
  BY <1>10 DEF ImageCreate, ImageCreated
<1>11. CASE UNCHANGED vars
  BY <1>11 DEF vars
<1> QED BY <1>1, <1>2, <1>3, <1>4, <1>5, <1>6, <1>7, <1>8, <1>9, <1>10, <1>11, <1>12, <1>13
        DEF Next, Step

LEMMA InitTypeOK == Init => TypeOK
<1> SUFFICES ASSUME Init PROVE TypeOK
  OBVIOUS
<1>1. whole \in Nat /\ broken \in Nat /\ networks \in Nat /\ faults \in 0..MaxFaults /\ runs \in 0..MaxRuns
  BY SetupAssumption DEF Init
<1>2. /\ subnet \in BOOLEAN /\ addresses \in SUBSET {"pool", "other"} /\ lookalike \in BOOLEAN
      /\ ami \in BOOLEAN /\ decoy \in BOOLEAN /\ start \in {"network", "gateway", "later"}
  BY Zenon DEF Init
<1>3. /\ pc \in [Host -> Calls \cup {"idle"}] /\ ids \in [Host -> BOOLEAN]
      /\ met \in [Host -> SUBSET Objects] /\ troubled \in SUBSET Host
      /\ result \in [Host -> {"none", "ok", "failed"}]
      /\ found \in [Host -> {"nothing", "own", "other"}]
  BY Zenon DEF Init
<1> QED BY <1>1, <1>2, <1>3 DEF TypeOK

(* Type correctness of SetupWave.                                           *)
THEOREM TypeCorrect == Spec => []TypeOK
BY InitTypeOK, StepTypeOK, PTL DEF Spec

------------------------------------------------------------------------------
(* A creation that is entered lets every host in its window know.           *)
LEMMA OverlapOnCreate ==
    ASSUME TypeOK, Overlap, NEW h \in Host, NEW object \in Objects, NEW call \in Window[object],
           GoToCreate(h, call, object), \A o \in Objects : pc[h] \notin Window[o]
    PROVE  Overlap'
<1> SUFFICES ASSUME NEW g \in Host, NEW k \in Host, NEW o \in Objects, g # k,
                    pc'[g] \in Window[o], pc'[k] \in Window[o]
             PROVE  o \in met'[k]
    BY DEF Overlap, Window
<1> DEFINE others == {x \in Host \ {h} : pc[x] \in Window[object]}
<1>1. \A x \in Host : pc'[x] = IF x = h THEN call ELSE pc[x]
  BY DEF GoToCreate, TypeOK
<1>2. \A x \in Host : met'[x] = IF x \in others \/ (x = h /\ others # {}) THEN met[x] \cup {object}
                               ELSE met[x]
  BY DEF GoToCreate
<1>3. \A p \in Objects : call \in Window[p] => p = object
  BY WindowCalls DEF Objects
<1>4. CASE g # h /\ k # h
  <2>1. o \in met[k]
    BY <1>1, <1>4 DEF Overlap
  <2> QED BY <1>2, <2>1
<1>5. CASE g = h
  BY <1>1, <1>2, <1>3, <1>5
<1>6. CASE k = h
  BY <1>1, <1>2, <1>3, <1>6
<1> QED BY <1>4, <1>5, <1>6

(* A host that moves inside a window or to a call outside of all keeps      *)
(* Overlap.                                                                 *)
LEMMA OverlapOnMove ==
    ASSUME TypeOK, Overlap, NEW h \in Host, NEW call, pc' = [pc EXCEPT ![h] = call],
           \A x \in Host \ {h} : met[x] \subseteq met'[x],
           \A o \in Objects : call \in Window[o] => pc[h] \in Window[o] /\ met'[h] = met[h]
    PROVE  Overlap'
<1>1. \A x \in Host : pc'[x] = IF x = h THEN call ELSE pc[x]
  BY DEF TypeOK
<1> SUFFICES ASSUME NEW g \in Host, NEW k \in Host, NEW o \in Objects, g # k,
                    pc'[g] \in Window[o], pc'[k] \in Window[o]
             PROVE  o \in met'[k]
    BY DEF Overlap, Window
<1>2. pc[g] \in Window[o] /\ pc[k] \in Window[o]
  BY <1>1
<1>3. o \in met[k]
  BY <1>2 DEF Overlap
<1> QED BY <1>1, <1>3

(* What another host relies on stands a step of h, for whatever h creates   *)
(* h creates in a window.                                                   *)
LEMMA OthersRely ==
    ASSUME IInv, NEW h \in Host, NEW x \in Host \ {h},
           pc'[x] = pc[x], met[x] \subseteq met'[x], x \in troubled' <=> x \in troubled,
           found'[x] = found[x], ids'[x] = ids[x],
           decoy' = decoy, start' = start,
           networks' = networks \/ (networks' = networks + 1 /\ pc[h] = "netcreate"),
           subnet => subnet', subnet' => subnet \/ pc[h] = "subnetcreate",
           Images' = Images \/ (Images' = Images + 1 /\ pc[h] = "image")
    PROVE  Relied(x)'
<1>0. networks \in Nat /\ Images \in Nat
  BY DEF IInv, TypeOK, Images
<1>1. ASSUME NEW o \in Objects, pc[x] \in Window[o], pc[h] \in Window[o] PROVE o \in met'[x]
  BY <1>1 DEF IInv, Overlap
<1>2. Relied(x)
  BY DEF IInv
<1>3. pc'[x] = "netcreate" => ~decoy' /\ (networks' # 0 => "network" \in met'[x])
  <2> SUFFICES ASSUME pc'[x] = "netcreate" PROVE ~decoy' /\ (networks' # 0 => "network" \in met'[x])
      OBVIOUS
  <2>1. CASE networks' = networks
    BY <1>2, <2>1 DEF Relied
  <2>2. CASE pc[h] = "netcreate"
    BY <1>1, <1>2, <2>2, WindowCalls DEF Relied, Objects
  <2> QED BY <2>1, <2>2
<1>4. pc'[x] \in {"subnetlist", "subnetcreate"} /\ x \notin troubled' => networks' >= 1 \/ decoy'
  BY <1>0, <1>2 DEF Relied
<1>5. pc'[x] = "subnetcreate" /\ x \notin troubled' /\ start' = "network" /\ subnet' =>
         "subnet" \in met'[x]
  <2> SUFFICES ASSUME pc'[x] = "subnetcreate", x \notin troubled', start' = "network", subnet'
               PROVE  "subnet" \in met'[x]
      OBVIOUS
  <2>1. CASE subnet
    BY <1>2, <2>1 DEF Relied
  <2>2. CASE pc[h] = "subnetcreate"
    BY <1>1, <2>2, WindowCalls DEF Objects
  <2> QED BY <2>1, <2>2
<1>6. /\ pc'[x] \in {"show", "kernel", "ramdisk", "image"} /\ x \notin troubled' =>
            subnet' \/ found'[x] = "other"
      /\ pc'[x] \in {"kernel", "ramdisk", "image"} /\ x \notin troubled' => ids'[x]
  BY <1>2 DEF Relied
<1>7. pc'[x] \in {"kernel", "ramdisk", "image"} /\ x \notin troubled' /\ Images' = 1 =>
         "image" \in met'[x]
  <2> SUFFICES ASSUME pc'[x] \in {"kernel", "ramdisk", "image"}, x \notin troubled', Images' = 1
               PROVE  "image" \in met'[x]
      OBVIOUS
  <2>1. CASE Images' = Images
    BY <1>2, <2>1 DEF Relied
  <2>2. CASE pc[h] = "image"
    BY <1>1, <2>2, WindowCalls DEF Objects
  <2> QED BY <2>1, <2>2
<1> QED BY <1>3, <1>4, <1>5, <1>6, <1>7 DEF Relied

(* The parts of the invariant that a step of h must show, given the others. *)
LEMMA StepParts ==
    ASSUME IInv, TypeOK', NEW h \in Host, Stored', Overlap', Relied(h)',
           \A x \in Host \ {h} :
              pc'[x] = pc[x] /\ met[x] \subseteq met'[x] /\ (x \in troubled' <=> x \in troubled),
           \A x \in Host \ {h} : found'[x] = found[x] /\ ids'[x] = ids[x],
           decoy' = decoy, start' = start,
           networks' = networks \/ (networks' = networks + 1 /\ pc[h] = "netcreate"),
           subnet => subnet', subnet' => subnet \/ pc[h] = "subnetcreate",
           Images' = Images \/ (Images' = Images + 1 /\ pc[h] = "image")
    PROVE  IInv'
BY OthersRely DEF IInv

(* The moves of the look-ups and of the parts of an upload.                 *)
LEMMA GoToMoves ==
    ASSUME TypeOK, NEW h \in Host, NEW call, GoTo(h, call) \/ End(h, call)
    PROVE  /\ \A x \in Host \ {h} : pc'[x] = pc[x] /\ met[x] \subseteq met'[x]
           /\ met' = met
           /\ GoTo(h, call) => pc' = [pc EXCEPT ![h] = call] /\ pc'[h] = call
           /\ End(h, call) => pc' = [pc EXCEPT ![h] = "idle"] /\ pc'[h] = "idle"
BY DEF GoTo, End, TypeOK

LEMMA CreateMoves ==
    ASSUME TypeOK, NEW h \in Host, NEW call, NEW object \in Objects, GoToCreate(h, call, object)
    PROVE  /\ \A x \in Host \ {h} : pc'[x] = pc[x] /\ met[x] \subseteq met'[x]
           /\ pc'[h] = call
BY DEF GoToCreate, TypeOK

LEMMA TroubledMoves ==
    ASSUME NEW h \in Host, Answers \/ Fails(h)
    PROVE  /\ \A x \in Host \ {h} : x \in troubled' <=> x \in troubled
           /\ Answers => (h \in troubled' <=> h \in troubled)
           /\ Fails(h) => h \in troubled'
BY DEF Answers, Fails

LEMMA NetListIInv == ASSUME IInv, TypeOK', NEW h \in Host, NetList(h) PROVE IInv'
<1> USE WindowCalls DEF Objects
<1>t. TypeOK
  BY DEF IInv
<1>1. UNCHANGED <<cloud, attributes, runs, ids, found>> /\ pc[h] = "netlist" /\ (Answers \/ Fails(h))
  BY DEF NetList
<1>f. \A x \in Host \ {h} : found'[x] = found[x] /\ ids'[x] = ids[x]
  BY <1>t, <1>1
<1>2. Stored' /\ Images' = Images
  BY <1>1 DEF IInv, Stored, cloud, elsewhere, Images
<1>3. CASE Answers /\ (networks > 0 \/ decoy) /\ GoTo(h, "subnetlist")
  <2>1. Overlap'
    BY <1>t, <1>3, GoToMoves, OverlapOnMove DEF IInv
  <2>2. Relied(h)'
    BY <1>t, <1>1, <1>3, GoToMoves DEF Relied, cloud, attributes, TypeOK
  <2> QED BY <1>t, <1>1, <1>2, <1>3, <2>1, <2>2, <1>f, StepParts, GoToMoves, TroubledMoves DEF cloud, attributes
<1>4. CASE Answers /\ networks = 0 /\ ~decoy /\ GoToCreate(h, "netcreate", "network")
  <2>1. Overlap'
    BY <1>t, <1>1, <1>4, OverlapOnCreate DEF IInv
  <2>2. Relied(h)'
    BY <1>t, <1>1, <1>4, CreateMoves DEF Relied, cloud, attributes
  <2> QED BY <1>t, <1>1, <1>2, <1>4, <2>1, <2>2, <1>f, StepParts, CreateMoves, TroubledMoves DEF cloud, attributes
<1>5. CASE Fails(h) /\ GoTo(h, "subnetlist")
  <2>1. Overlap'
    BY <1>t, <1>5, GoToMoves, OverlapOnMove DEF IInv
  <2>2. Relied(h)'
    BY <1>t, <1>1, <1>5, GoToMoves, TroubledMoves DEF Relied
  <2> QED BY <1>t, <1>1, <1>2, <1>5, <2>1, <2>2, <1>f, StepParts, GoToMoves, TroubledMoves DEF cloud, attributes
<1> QED BY <1>3, <1>4, <1>5 DEF NetList

LEMMA FloatingIpListIInv == ASSUME IInv, TypeOK', NEW h \in Host, FloatingIpList(h) PROVE IInv'
<1> USE WindowCalls DEF Objects
<1>t. TypeOK
  BY DEF IInv
<1>1. /\ UNCHANGED <<cloud, attributes, runs, ids>> /\ (Answers \/ Fails(h))
      /\ \/ GoTo(h, "netlist") /\ UNCHANGED found
         \/ /\ Answers /\ GoTo(h, "show")
            /\ \/ "pool" \in addresses /\ found' = [found EXCEPT ![h] = "own"]
               \/ found' = [found EXCEPT ![h] = "other"]
  BY DEF FloatingIpList, Finds
<1>f. \A x \in Host \ {h} : found'[x] = found[x] /\ ids'[x] = ids[x]
  BY <1>t, <1>1 DEF TypeOK
<1>2. Stored' /\ Images' = Images
  BY <1>1 DEF IInv, Stored, cloud, elsewhere, Images
<1>3. Overlap'
  BY <1>t, <1>1, GoToMoves, OverlapOnMove DEF IInv
<1>4. Relied(h)'
  BY <1>t, <1>1, GoToMoves DEF Relied, IInv, Stored, cloud, elsewhere, TypeOK
<1> QED BY <1>t, <1>1, <1>2, <1>3, <1>4, <1>f, StepParts, GoToMoves, TroubledMoves DEF cloud, attributes

LEMMA NetCreateIInv == ASSUME IInv, TypeOK', NEW h \in Host, NetCreate(h) PROVE IInv'
<1> USE WindowCalls DEF Objects
<1>t. TypeOK
  BY DEF IInv
<1>1. /\ UNCHANGED <<whole, broken, subnet, elsewhere, attributes, runs, ids, found>>
      /\ pc[h] = "netcreate" /\ (Answers \/ Fails(h))
      /\ networks' \in {networks, networks + 1}
      /\ GoTo(h, "show") \/ GoTo(h, "subnetlist")
  BY DEF NetCreate
<1>f. \A x \in Host \ {h} : found'[x] = found[x] /\ ids'[x] = ids[x]
  BY <1>t, <1>1
<1>2. Stored' /\ Images' = Images
  BY <1>t, <1>1 DEF IInv, Stored, Images, TypeOK, elsewhere
<1>3. Overlap'
  BY <1>t, <1>1, GoToMoves, OverlapOnMove DEF IInv
<1>4. Relied(h)'
  <2>1. CASE Answers /\ networks' = networks + 1 /\ GoTo(h, "subnetlist")
    BY <1>t, <1>1, <2>1, GoToMoves DEF Relied, TypeOK
  <2>2. CASE Fails(h) /\ GoTo(h, "show")
    BY <1>t, <1>1, <2>2, GoToMoves, TroubledMoves DEF Relied
  <2> QED BY <2>1, <2>2 DEF NetCreate
<1> QED BY <1>t, <1>1, <1>2, <1>3, <1>4, <1>f, StepParts, GoToMoves, TroubledMoves DEF attributes

LEMMA SubnetListIInv == ASSUME IInv, TypeOK', NEW h \in Host, SubnetList(h) PROVE IInv'
<1> USE WindowCalls DEF Objects
<1>t. TypeOK
  BY DEF IInv
<1>1. /\ UNCHANGED <<cloud, attributes, runs, ids>> /\ pc[h] = "subnetlist" /\ (Answers \/ Fails(h))
      /\ UNCHANGED found \/ Finds(h, "own") \/ Finds(h, "other")
  BY DEF SubnetList
<1>f. \A x \in Host \ {h} : found'[x] = found[x] /\ ids'[x] = ids[x]
  BY <1>t, <1>1 DEF Finds, TypeOK
<1>2. Stored' /\ Images' = Images
  BY <1>1 DEF IInv, Stored, cloud, elsewhere, Images
<1>3. CASE /\ Answers /\ GoTo(h, "show")
           /\ \/ subnet /\ found' = [found EXCEPT ![h] = "own"]
              \/ found' = [found EXCEPT ![h] = "other"]
  <2>1. Overlap'
    BY <1>t, <1>3, GoToMoves, OverlapOnMove DEF IInv
  <2>2. Relied(h)'
    BY <1>t, <1>1, <1>3, GoToMoves DEF Relied, cloud, TypeOK
  <2> QED BY <1>t, <1>1, <1>2, <1>3, <2>1, <2>2, <1>f, StepParts, GoToMoves, TroubledMoves DEF cloud, attributes
<1>4. CASE /\ Fails(h) \/ (Answers /\ ~(subnet /\ start = "network"))
           /\ GoToCreate(h, "subnetcreate", "subnet")
  <2>1. Overlap'
    BY <1>t, <1>1, <1>4, OverlapOnCreate DEF IInv
  <2>2. Relied(h)
    BY DEF IInv
  <2>3. Relied(h)'
    BY <1>t, <1>1, <1>4, <2>2, CreateMoves, TroubledMoves DEF Relied, cloud, attributes
  <2> QED BY <1>t, <1>1, <1>2, <1>4, <2>1, <2>3, <1>f, StepParts, CreateMoves, TroubledMoves DEF cloud, attributes
<1> QED BY <1>3, <1>4 DEF SubnetList, Finds

LEMMA SubnetCreateIInv == ASSUME IInv, TypeOK', NEW h \in Host, SubnetCreate(h) PROVE IInv'
<1> USE WindowCalls DEF Objects
<1>t. TypeOK
  BY DEF IInv
<1>1. /\ UNCHANGED <<whole, broken, networks, elsewhere, attributes, runs, ids, found>>
      /\ pc[h] = "subnetcreate" /\ (Answers \/ Fails(h))
      /\ (subnet => subnet')
      /\ (subnet' => subnet \/ networks = 1)
      /\ (subnet' /\ GoTo(h, "show")) \/ End(h, "failed")
  <2>1. CASE Answers /\ Accepted /\ subnet' = TRUE /\ GoTo(h, "show")
    BY <2>1 DEF SubnetCreate, Accepted
  <2>2. CASE Answers /\ ~Accepted /\ UNCHANGED subnet /\ End(h, "failed")
    BY <2>2 DEF SubnetCreate
  <2>3. CASE Fails(h) /\ UNCHANGED subnet /\ End(h, "failed")
    BY <2>3 DEF SubnetCreate
  <2>4. CASE Fails(h) /\ Accepted /\ subnet' = TRUE /\ End(h, "failed")
    BY <2>4 DEF SubnetCreate, Accepted
  <2> QED BY <2>1, <2>2, <2>3, <2>4 DEF SubnetCreate
<1>f. \A x \in Host \ {h} : found'[x] = found[x] /\ ids'[x] = ids[x]
  BY <1>t, <1>1
<1>2. Stored' /\ Images' = Images
  BY <1>t, <1>1 DEF IInv, Stored, Images, TypeOK, elsewhere
<1>3. Overlap'
  BY <1>t, <1>1, GoToMoves, OverlapOnMove DEF IInv
<1>4. Relied(h)'
  BY <1>t, <1>1, GoToMoves DEF Relied
<1> QED BY <1>t, <1>1, <1>2, <1>3, <1>4, <1>f, StepParts, GoToMoves, TroubledMoves DEF attributes

LEMMA ShowIInv == ASSUME IInv, TypeOK', NEW h \in Host, Show(h) PROVE IInv'
<1> USE WindowCalls DEF Objects
<1>t. TypeOK
  BY DEF IInv
<1>1. /\ UNCHANGED <<cloud, attributes, runs, found>> /\ pc[h] = "show" /\ (Answers \/ Fails(h))
      /\ ids' = [ids EXCEPT ![h] = TRUE]
  BY DEF Show
<1>f. \A x \in Host \ {h} : found'[x] = found[x] /\ ids'[x] = ids[x]
  BY <1>t, <1>1 DEF TypeOK
<1>2. Stored' /\ Images' = Images
  BY <1>1 DEF IInv, Stored, cloud, elsewhere, Images
<1>3. CASE Answers /\ Named /\ End(h, "ok")
  <2>1. Overlap'
    BY <1>t, <1>3, GoToMoves, OverlapOnMove DEF IInv
  <2>2. Relied(h)'
    BY <1>t, <1>1, <1>3, GoToMoves DEF Relied
  <2> QED BY <1>t, <1>1, <1>2, <1>3, <2>1, <2>2, <1>f, StepParts, GoToMoves, TroubledMoves DEF cloud, attributes
<1>4. CASE (Fails(h) \/ (Answers /\ ~Named)) /\ GoToCreate(h, FirstPart, "image")
  <2>0. FirstPart \in {"kernel", "image"}
    BY DEF FirstPart
  <2>1. Overlap'
    BY <1>t, <1>1, <1>4, <2>0, OverlapOnCreate DEF IInv
  <2>2. Relied(h)
    BY DEF IInv
  <2>3. Relied(h)'
    BY <1>t, <1>1, <1>2, <1>4, <2>0, <2>2, CreateMoves, TroubledMoves DEF Relied, cloud, Named, TypeOK
  <2> QED BY <1>t, <1>1, <1>2, <1>4, <2>1, <2>3, <1>f, StepParts, CreateMoves, TroubledMoves DEF cloud, attributes
<1> QED BY <1>3, <1>4 DEF Show

LEMMA UploadPartIInv == ASSUME IInv, TypeOK', NEW h \in Host, UploadPart(h) PROVE IInv'
<1> USE WindowCalls DEF Objects
<1>t. TypeOK /\ Relied(h)
  BY DEF IInv
<1>1. /\ UNCHANGED <<cloud, attributes, runs, found>>
      /\ (Answers /\ UNCHANGED ids) \/ (Fails(h) /\ ids' = [ids EXCEPT ![h] = FALSE])
      /\ pc[h] \in {"kernel", "ramdisk"} /\ (Answers \/ Fails(h))
      /\ GoTo(h, "ramdisk") \/ GoTo(h, "image")
  BY DEF UploadPart
<1>f. \A x \in Host \ {h} : found'[x] = found[x] /\ ids'[x] = ids[x]
  BY <1>t, <1>1 DEF TypeOK
<1>2. Stored' /\ Images' = Images
  BY <1>1 DEF IInv, Stored, cloud, elsewhere, Images
<1>3. Overlap'
  BY <1>t, <1>1, GoToMoves, OverlapOnMove DEF IInv
<1>4. Relied(h)'
  BY <1>t, <1>1, <1>2, GoToMoves, TroubledMoves DEF Relied, cloud
<1> QED BY <1>t, <1>1, <1>2, <1>3, <1>4, <1>f, StepParts, GoToMoves, TroubledMoves DEF cloud, attributes

LEMMA ImageCreateIInv == ASSUME IInv, TypeOK', NEW h \in Host, ImageCreate(h) PROVE IInv'
<1> USE WindowCalls DEF Objects
<1>t. TypeOK
  BY DEF IInv
<1>1. /\ UNCHANGED <<networks, subnet, elsewhere, attributes, runs, ids, found>>
      /\ pc[h] = "image" /\ (Answers \/ Fails(h))
      /\ End(h, "ok") \/ End(h, "failed")
  BY DEF ImageCreate
<1>f. \A x \in Host \ {h} : found'[x] = found[x] /\ ids'[x] = ids[x]
  BY <1>t, <1>1
<1>2. Images' = Images \/ Images' = Images + 1
  <2>1. whole \in Nat /\ broken \in Nat
    BY <1>t DEF TypeOK
  <2>2. CASE ImageCreated(h)
    BY <2>1, <2>2 DEF ImageCreated, Images
  <2>3. CASE UNCHANGED <<whole, broken>>
    BY <2>3 DEF Images
  <2> QED BY <2>2, <2>3 DEF ImageCreate
<1>3. Stored' /\ Overlap'
  BY <1>t, <1>1, GoToMoves, OverlapOnMove DEF IInv, Stored, elsewhere
<1>4. Relied(h)'
  BY <1>t, <1>1, GoToMoves DEF Relied
<1> QED BY <1>t, <1>1, <1>2, <1>3, <1>4, <1>f, StepParts, GoToMoves, TroubledMoves DEF attributes

LEMMA StartRunIInv == ASSUME IInv, TypeOK', NEW h \in Host, StartRun(h) PROVE IInv'
<1> USE WindowCalls DEF Objects
<1>t. TypeOK
  BY DEF IInv
<1>1. /\ UNCHANGED <<cloud, attributes, ids>> /\ found' = [found EXCEPT ![h] = "nothing"] /\ pc' = [pc EXCEPT ![h] = "floatingip"]
      /\ met' = [met EXCEPT ![h] = {}] /\ troubled' = troubled \ {h}
  BY DEF StartRun
<1>f. \A x \in Host \ {h} : found'[x] = found[x] /\ ids'[x] = ids[x]
  BY <1>t, <1>1 DEF TypeOK
<1>2. \A x \in Host \ {h} :
        pc'[x] = pc[x] /\ met[x] \subseteq met'[x] /\ (x \in troubled' <=> x \in troubled)
  BY <1>t, <1>1 DEF TypeOK
<1>3. Stored' /\ Images' = Images
  BY <1>1 DEF IInv, Stored, cloud, elsewhere, Images
<1>4. Overlap'
  BY <1>t, <1>1, <1>2, OverlapOnMove DEF IInv
<1>5. Relied(h)'
  BY <1>t, <1>1 DEF Relied, TypeOK
<1> QED BY <1>1, <1>2, <1>3, <1>4, <1>5, <1>f, StepParts DEF cloud, attributes

LEMMA InitIInv == Init => IInv
<1> SUFFICES ASSUME Init PROVE IInv
    OBVIOUS
<1>1. TypeOK
  BY InitTypeOK
<1>2. Stored /\ Overlap
  BY WindowCalls DEF Init, Stored, Overlap, Objects
<1>3. \A h \in Host : Relied(h)
  BY DEF Init, Relied
<1> QED BY <1>1, <1>2, <1>3 DEF IInv

LEMMA StepIInv == IInv /\ [Next]_vars => IInv'
<1> SUFFICES ASSUME IInv, [Next]_vars PROVE IInv'
    OBVIOUS
<1>1. TypeOK'
  BY StepTypeOK DEF IInv
<1>2. CASE Tenants \/ OtherSubnets
  <2>1. Stored'
    BY <1>2 DEF Tenants, OtherSubnets, IInv, Stored
  <2>2. UNCHANGED <<whole, broken, networks, subnet, attributes, chef, ids>>
    BY <1>2 DEF Tenants, OtherSubnets, chef
  <2> QED BY <1>1, <2>1, <2>2 DEF IInv, Overlap, Relied, Images, attributes, chef
<1>6. CASE ByHand
  <2>1. /\ networks = 1 /\ subnet' = TRUE
        /\ UNCHANGED <<whole, broken, networks, elsewhere, attributes, runs, pc, ids, troubled, found>>
        /\ \A x \in Host : /\ met[x] \subseteq met'[x]
                           /\ pc[x] = "subnetcreate" => "subnet" \in met'[x]
    BY <1>6, WindowCalls DEF ByHand
  <2>2. Stored'
    BY <2>1 DEF Stored
  <2>3. Overlap'
    BY <2>1 DEF IInv, Overlap
  <2>4. ASSUME NEW x \in Host PROVE Relied(x)'
    <3>1. Relied(x)
      BY DEF IInv
    <3> QED BY <2>1, <3>1 DEF Relied, Images, attributes
  <2> QED BY <1>1, <2>2, <2>3, <2>4 DEF IInv
<1>3. ASSUME NEW h \in Host, Step(h) PROVE IInv'
  BY <1>1, <1>3, FloatingIpListIInv, NetListIInv, NetCreateIInv, SubnetListIInv, SubnetCreateIInv,
     ShowIInv, UploadPartIInv, ImageCreateIInv DEF Step
<1>4. ASSUME NEW h \in Host, StartRun(h) PROVE IInv'
  BY <1>1, <1>4, StartRunIInv
<1>5. CASE UNCHANGED vars
  BY <1>1, <1>5 DEF vars, cloud, elsewhere, attributes, chef, IInv, Stored, Overlap, Relied, Images
<1> QED BY <1>2, <1>3, <1>4, <1>5, <1>6 DEF Next

------------------------------------------------------------------------------
(* SecondNeedsARace for any number of hosts: a network or an image of a     *)
(* name that exists is created by a host that another one overlapped in the *)
(* window, or, for an image, after a failed call of its own.                *)
THEOREM TwiceOnlyByARace == Spec => SecondNeedsARace
<1> DEFINE Second ==
      /\ networks # 0 /\ networks' > networks =>
            \E h \in Host : pc[h] = "netcreate" /\ "network" \in met[h]
      /\ Images = 1 /\ Images' > Images =>
            \E h \in Host : pc[h] = "image" /\ ("image" \in met[h] \/ h \in troubled')
<1>1. IInv /\ [Next]_vars => Second
  <2> SUFFICES ASSUME IInv, [Next]_vars PROVE Second
      OBVIOUS
  <2>t. networks \in Nat /\ whole \in Nat /\ broken \in Nat
    BY DEF IInv, TypeOK
  <2>1. CASE UNCHANGED <<whole, broken, networks>>
    BY <2>t, <2>1 DEF Images
  <2>2. ASSUME NEW h \in Host, NetCreate(h) PROVE Second
    <3>1. Images' = Images /\ pc[h] = "netcreate"
      BY <2>2 DEF NetCreate, Images
    <3>2. networks # 0 => "network" \in met[h]
      BY <3>1 DEF IInv, Relied
    <3> QED BY <2>t, <3>1, <3>2 DEF Images
  <2>3. ASSUME NEW h \in Host, ImageCreate(h) PROVE Second
    <3>1. networks' = networks /\ pc[h] = "image" /\ (Answers \/ Fails(h))
      BY <2>3 DEF ImageCreate
    <3>2. Images = 1 => "image" \in met[h] \/ h \in troubled'
      BY <3>1, TroubledMoves DEF IInv, Relied
    <3> QED BY <2>t, <3>1, <3>2
  <2> QED BY <2>1, <2>2, <2>3 DEF Next, Step, Tenants, OtherSubnets, ByHand, StartRun, FloatingIpList,
             NetList, SubnetList, SubnetCreate, Show, UploadPart, cloud, vars
<1> QED BY <1>1, InitIInv, StepIInv, PTL DEF Spec, SecondNeedsARace

(* A blocked pool never gets its subnet, and while it is blocked no host    *)
(* comes past the pool but one whose net-create failed, or one that takes   *)
(* what another network has for the pool's.                                 *)
THEOREM BlockedForGood == Spec => BlockedStays
<1> DEFINE Stays ==
      Blocked => /\ Blocked'
                 /\ \A h \in Host : pc[h] \notin {"netcreate", "show"} /\ pc'[h] = "show" =>
                       found'[h] = "other"
<1>1. IInv /\ [Next]_vars => Stays
  <2> SUFFICES ASSUME IInv, [Next]_vars, Blocked PROVE Stays
      OBVIOUS
  <2>t. TypeOK /\ networks \in Nat
    BY DEF IInv, TypeOK
  <2>n. ~subnet /\ "pool" \notin addresses /\ ~Accepted
    BY DEF Blocked, IInv, Stored, Accepted
  <2>1. CASE UNCHANGED <<networks, subnet, decoy, pc>>
    BY <2>1 DEF Blocked
  <2>2. ASSUME NEW h \in Host, Step(h) PROVE Stays
    <3>1. ASSUME UNCHANGED <<networks, subnet, decoy>> PROVE Blocked'
      BY <3>1 DEF Blocked
    <3>2. ASSUME NEW call, call # "show", \A x \in Host : pc'[x] = (IF x = h THEN call ELSE pc[x])
          PROVE  \A x \in Host : pc'[x] = "show" => pc[x] = "show"
      BY <3>2
    <3>m. ASSUME NEW call, GoTo(h, call) \/ End(h, "failed") \/ End(h, "ok")
                             \/ \E o \in Objects : GoToCreate(h, call, o)
          PROVE  \E c \in {call, "idle"} : \A x \in Host : pc'[x] = (IF x = h THEN c ELSE pc[x])
      BY <2>t, <3>m DEF GoTo, End, GoToCreate, TypeOK
    <3>o. "image" \in Objects /\ "network" \in Objects /\ "subnet" \in Objects
      BY DEF Objects
    <3>f. ASSUME Finds(h, "other")
          PROVE  \A x \in Host : pc[x] \notin {"netcreate", "show"} /\ pc'[x] = "show" =>
                    found'[x] = "other"
      BY <2>t, <3>f, GoToMoves DEF Finds, TypeOK
    <3>3. CASE FloatingIpList(h)
      <4>1. /\ GoTo(h, "netlist") \/ Finds(h, "other")
            /\ UNCHANGED <<networks, subnet, decoy>>
        BY <2>n, <3>3 DEF FloatingIpList, cloud, attributes
      <4> QED BY <3>1, <3>2, <3>m, <3>f, <4>1
    <3>4. CASE NetList(h)
      <4>1. /\ GoTo(h, "subnetlist") \/ GoToCreate(h, "netcreate", "network")
            /\ UNCHANGED <<networks, subnet, decoy>>
        BY <3>4 DEF NetList, cloud, attributes
      <4> QED BY <3>1, <3>2, <3>m, <3>o, <4>1
    <3>5. CASE NetCreate(h)
      <4>1. /\ pc[h] = "netcreate" /\ networks' \in {networks, networks + 1}
            /\ UNCHANGED <<subnet, decoy>> /\ (GoTo(h, "show") \/ GoTo(h, "subnetlist"))
        BY <3>5 DEF NetCreate, attributes
      <4>2. ~decoy
        BY <4>1 DEF IInv, Relied
      <4>3. Blocked'
        BY <2>t, <4>1, <4>2 DEF Blocked
      <4> QED BY <2>t, <4>1, <4>3, GoToMoves
    <3>6. CASE SubnetList(h)
      <4>1. /\ GoToCreate(h, "subnetcreate", "subnet") \/ Finds(h, "other")
            /\ UNCHANGED <<networks, subnet, decoy>>
        BY <2>n, <3>6 DEF SubnetList, cloud, attributes
      <4> QED BY <3>1, <3>2, <3>m, <3>f, <3>o, <4>1
    <3>7. CASE SubnetCreate(h)
      <4>1. End(h, "failed") /\ UNCHANGED <<networks, subnet, decoy>>
        BY <2>n, <3>7 DEF SubnetCreate, attributes
      <4> QED BY <3>1, <3>2, <3>m, <4>1
    <3>8. CASE Show(h) \/ UploadPart(h) \/ ImageCreate(h)
      <4>1. /\ UNCHANGED <<networks, subnet, decoy>>
            /\ \E call \in {"kernel", "ramdisk", "image"} :
                  \/ GoTo(h, call) \/ End(h, "ok") \/ End(h, "failed") \/ GoToCreate(h, call, "image")
        BY <3>8 DEF Show, UploadPart, ImageCreate, FirstPart, cloud, attributes
      <4> QED BY <3>1, <3>2, <3>m, <3>o, <4>1
    <3> QED BY <2>2, <3>3, <3>4, <3>5, <3>6, <3>7, <3>8 DEF Step
  <2>3. ASSUME NEW h \in Host, StartRun(h) PROVE Stays
    BY <2>t, <2>3 DEF StartRun, Blocked, cloud, attributes, TypeOK
  <2>4. CASE Tenants \/ OtherSubnets
    BY <2>1, <2>4 DEF Tenants, OtherSubnets, attributes, chef
  <2>5. ~ByHand
    BY DEF ByHand, Blocked
  <2> QED BY <2>1, <2>2, <2>3, <2>4, <2>5 DEF Next, vars, cloud, attributes, chef
<1> QED BY <1>1, InitIInv, StepIInv, PTL DEF Spec, BlockedStays

(* The runs that end in a step are that of the host which makes it.         *)
LEMMA EndingStep ==
    ASSUME TypeOK, [Next]_vars, NEW x \in Host, pc[x] # "idle", pc'[x] = "idle"
    PROVE  \/ Show(x) /\ Answers /\ Named /\ End(x, "ok")
           \/ SubnetCreate(x) /\ End(x, "failed")
           \/ ImageCreate(x) /\ (End(x, "ok") \/ End(x, "failed"))
<1>1. PICK h \in Host : StartRun(h) \/ Step(h)
  BY DEF Next, Tenants, OtherSubnets, ByHand, vars, chef
<1>2. ASSUME x # h PROVE pc'[x] = pc[x]
  <2>1. CASE StartRun(h)
    BY <1>2, <2>1 DEF StartRun, TypeOK
  <2>2. ASSUME NEW call, NEW o \in Objects, GoTo(h, call) \/ End(h, call) \/ GoToCreate(h, call, o)
        PROVE  pc'[x] = pc[x]
    BY <1>2, <2>2, GoToMoves, CreateMoves
  <2>3. "image" \in Objects /\ "network" \in Objects /\ "subnet" \in Objects
    BY DEF Objects
  <2>4. CASE FloatingIpList(h) \/ NetCreate(h) \/ SubnetCreate(h) \/ UploadPart(h) \/ ImageCreate(h)
    BY <2>2, <2>3, <2>4 DEF FloatingIpList, Finds, NetCreate, SubnetCreate, UploadPart, ImageCreate
  <2>5. CASE NetList(h) \/ SubnetList(h) \/ Show(h)
    BY <2>2, <2>3, <2>5 DEF NetList, SubnetList, Finds, Show
  <2> QED BY <1>1, <2>1, <2>4, <2>5 DEF Step
<1>3. x = h /\ ~StartRun(x)
  BY <1>1, <1>2 DEF StartRun
<1>4. Step(x)
  BY <1>1, <1>3
<1>5. ASSUME NEW call \in Calls, NEW o \in Objects, GoTo(x, call) \/ GoToCreate(x, call, o) PROVE FALSE
  BY <1>5, GoToMoves, CreateMoves DEF Calls
<1>6. "image" \in Objects /\ "network" \in Objects /\ "subnet" \in Objects
  BY DEF Objects
<1>7. ~FloatingIpList(x) /\ ~NetList(x) /\ ~NetCreate(x) /\ ~SubnetList(x) /\ ~UploadPart(x)
  BY <1>5, <1>6 DEF FloatingIpList, Finds, NetList, NetCreate, SubnetList, UploadPart, Calls
<1>8. CASE Show(x)
  <2>1. FirstPart \in Calls
    BY DEF FirstPart, Calls
  <2> QED BY <1>5, <1>6, <1>8, <2>1 DEF Show
<1>9. CASE SubnetCreate(x)
  BY <1>5, <1>6, <1>9 DEF SubnetCreate, Calls
<1>10. CASE ImageCreate(x)
  BY <1>10 DEF ImageCreate
<1> QED BY <1>4, <1>7, <1>8, <1>9, <1>10 DEF Step

(* A run without a failed call of its own that ends well has its network    *)
(* and the subnet, or took what another network has for it, and a whole     *)
(* image, or one left broken by others.                                     *)
THEOREM CleanRunsDeliver == Spec => CleanRunDelivers
<1>1. IInv /\ IInv' /\ [Next]_vars =>
        \A h \in Host :
          pc[h] # "idle" /\ pc'[h] = "idle" /\ result'[h] = "ok" /\ h \notin troubled' =>
             /\ found'[h] = "other" \/ (networks' >= 1 /\ subnet')
             /\ whole' >= 1 \/ broken' = 1
  <2> SUFFICES ASSUME IInv, IInv', [Next]_vars, NEW h \in Host, pc[h] # "idle", pc'[h] = "idle",
                      result'[h] = "ok", h \notin troubled'
               PROVE  /\ found'[h] = "other" \/ (networks' >= 1 /\ subnet')
                      /\ whole' >= 1 \/ broken' = 1
      OBVIOUS
  <2>t. TypeOK /\ TypeOK' /\ Relied(h) /\ (subnet' => networks' >= 1)
    BY DEF IInv, Stored
  <2>n. whole \in Nat /\ broken \in Nat
    BY <2>t DEF TypeOK
  <2>1. ~End(h, "failed")
    BY <2>t DEF End, TypeOK
  <2>2. CASE Show(h) /\ Answers /\ Named
    <3>1. /\ h \notin troubled /\ pc[h] = "show" /\ subnet' = subnet /\ found' = found
          /\ whole' = whole /\ broken' = broken /\ whole + broken = 1
      BY <2>2, TroubledMoves DEF Show, Named, Images, cloud
    <3>2. whole' >= 1 \/ broken' = 1
      BY <2>n, <3>1
    <3> QED BY <2>t, <3>1, <3>2 DEF Relied
  <2>3. CASE ImageCreate(h) /\ End(h, "ok")
    <3>1. Answers \/ Fails(h)
      BY <2>3 DEF ImageCreate
    <3>2. Answers /\ h \notin troubled
      BY <3>1, TroubledMoves
    <3>3. ImageCreated(h) /\ pc[h] = "image" /\ subnet' = subnet /\ found' = found
      BY <2>1, <2>3, <3>1, <3>2, TroubledMoves DEF ImageCreate
    <3>4. ids[h]
      BY <2>t, <3>2, <3>3 DEF Relied
    <3>5. whole' = whole + 1
      BY <3>3, <3>4 DEF ImageCreated
    <3>6. whole' >= 1
      BY <2>n, <3>5
    <3> QED BY <2>t, <3>2, <3>3, <3>6 DEF Relied
  <2> QED BY <2>t, <2>1, <2>2, <2>3, EndingStep
<1> QED BY <1>1, InitIInv, StepIInv, PTL DEF Spec, CleanRunDelivers

(* A run fails for a failed call of its own, a race for the subnet, a       *)
(* blocked pool, an allocation pool that is refused, or a subnet that is    *)
(* there but not found by its text.                                         *)
THEOREM FailuresExplained == Spec => FailuresAreExplained
<1>1. IInv /\ [Next]_vars =>
        \A h \in Host :
          pc[h] # "idle" /\ pc'[h] = "idle" /\ result'[h] = "failed" /\ h \notin troubled' =>
             \/ "subnet" \in met[h] \/ Blocked
             \/ ~subnet /\ start # "later"
             \/ subnet /\ start # "network"
  <2> SUFFICES ASSUME IInv, [Next]_vars, NEW h \in Host, pc[h] # "idle", pc'[h] = "idle",
                      result'[h] = "failed", h \notin troubled'
               PROVE  \/ "subnet" \in met[h] \/ Blocked
                      \/ ~subnet /\ start # "later"
                      \/ subnet /\ start # "network"
      OBVIOUS
  <2>t. TypeOK /\ Relied(h) /\ networks \in Nat
    BY DEF IInv, TypeOK
  <2>1. ~End(h, "ok") /\ ~Fails(h)
    BY <2>t DEF End, Fails, TypeOK
  <2>2. ~ImageCreate(h)
    BY <2>1 DEF ImageCreate
  <2>3. SubnetCreate(h) /\ End(h, "failed")
    BY <2>t, <2>1, <2>2, EndingStep
  <2>4. ~GoTo(h, "show")
    BY <2>t, GoToMoves
  <2>5. Answers /\ ~Accepted /\ pc[h] = "subnetcreate"
    BY <2>1, <2>3, <2>4 DEF SubnetCreate
  <2>6. h \notin troubled /\ (networks >= 1 \/ decoy)
    BY <2>t, <2>5, TroubledMoves DEF Relied
  <2>7. CASE subnet
    BY <2>t, <2>5, <2>6, <2>7 DEF Relied
  <2>8. CASE ~subnet
    BY <2>t, <2>5, <2>6, <2>8 DEF Accepted, Blocked
  <2> QED BY <2>7, <2>8
<1> QED BY <1>1, InitIInv, StepIInv, PTL DEF Spec, FailuresAreExplained
==============================================================================
