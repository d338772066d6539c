------------------------------ MODULE SetupWave ------------------------------
(***************************************************************************)
(* The wave <set7>os-compute-setup,os-image-upload</set7>: hosts converge  *)
(* openstack-compute::nova-setup, which runs add_floaters.py for the       *)
(* public network, and then openstack-image::image_upload.  Both look      *)
(* whether a thing is there and create it if not, with one client call     *)
(* each, against stores all hosts share.  A run that fails is started      *)
(* again.  Every client call may fail, a creation also after its effect.   *)
(* Every host here has both roles.  In the shipped files one host of the   *)
(* wave has each (icehouse.ha.xml), or several have the first of them      *)
(* (set6 of icehouse.pacemaker.xml); those make a part of these calls, in  *)
(* the same order.                                                         *)
(***************************************************************************)
EXTENDS Naturals, FiniteSets

CONSTANTS
    Host,        \* hosts of the wave; all have /root/openrc
    MaxRuns,     \* bound: converges, all hosts together
    MaxFaults    \* bound: failing client calls

ASSUME SetupAssumption == MaxRuns \in Nat /\ MaxFaults \in Nat

VARIABLES
    whole,       \* images of the wanted name that have all their parts
    broken,      \* images of that name without kernel or ramdisk
    networks,    \* networks named like the pool
    subnet,      \* the pool has its subnet
    addresses,   \* the external networks with floating addresses: the pool, another
    lookalike,   \* a subnet of another network is listed with the cidr in its text
    ami,         \* type: the image is a tar of kernel, ramdisk and disk
    decoy,       \* there is a network whose name has the pool's as a part
    start,       \* the cidr's own address: the network's, the gateway's or a later one
    faults, runs,
    pc,          \* the client call a host makes next
    ids,         \* kid and rid are the ids of images
    met,         \* history: what another host was about to create at the same time
    troubled,    \* history: a client call of the current or last run failed
    found,       \* history: what the run took for the subnet it was to make
    result       \* how the last run ended

elsewhere == <<addresses, lookalike>>
cloud == <<whole, broken, networks, subnet, elsewhere>>
attributes == <<ami, decoy, start>>
chef == <<runs, pc, ids, met, troubled, found, result>>
vars == <<cloud, attributes, faults, chef>>

Objects == {"image", "network", "subnet"}

(* The calls between the look-up of an object and its creation.             *)
Window == [image |-> {"kernel", "ramdisk", "image"},
           network |-> {"netcreate"}, subnet |-> {"subnetcreate"}]

Calls == {"floatingip", "netlist", "netcreate", "subnetlist", "subnetcreate",
          "show", "kernel", "ramdisk", "image"}

TypeOK ==
    /\ whole \in Nat /\ broken \in Nat /\ networks \in Nat
    /\ subnet \in BOOLEAN
    /\ addresses \in SUBSET {"pool", "other"} /\ lookalike \in BOOLEAN
    /\ ami \in BOOLEAN /\ decoy \in BOOLEAN /\ start \in {"network", "gateway", "later"}
    /\ faults \in 0..MaxFaults
    /\ runs \in 0..MaxRuns
    /\ pc \in [Host -> Calls \cup {"idle"}]
    /\ ids \in [Host -> BOOLEAN]
    /\ met \in [Host -> SUBSET Objects]
    /\ troubled \in SUBSET Host
    /\ found \in [Host -> {"nothing", "own", "other"}]
    /\ result \in [Host -> {"none", "ok", "failed"}]

Images == whole + broken

Init ==
    /\ whole = 0 /\ broken = 0 /\ networks = 0
    /\ subnet = FALSE /\ addresses = {} /\ lookalike = FALSE
    /\ ami \in BOOLEAN /\ decoy \in BOOLEAN /\ start \in {"network", "gateway", "later"}
    /\ faults = 0
    /\ runs = 0
    /\ pc = [h \in Host |-> "idle"]
    /\ ids = [h \in Host |-> FALSE]
    /\ met = [h \in Host |-> {}]
    /\ troubled = {}
    /\ found = [h \in Host |-> "nothing"]
    /\ result = [h \in Host |-> "none"]

------------------------------------------------------------------------------
(* How a client call of h ends: as it should, or with an error.             *)
Answers == UNCHANGED <<faults, troubled>>

Fails(h) ==
    /\ faults < MaxFaults
    /\ faults' = faults + 1
    /\ troubled' = troubled \cup {h}

(* The next call of h; the run goes on.                                     *)
GoTo(h, call) ==
    /\ pc' = [pc EXCEPT ![h] = call]
    /\ UNCHANGED <<met, result>>

(* The same, where the call is the creation of an object that was not seen. *)
GoToCreate(h, call, object) ==
    LET others == {g \in Host \ {h} : pc[g] \in Window[object]}
    IN  /\ pc' = [pc EXCEPT ![h] = call]
        /\ met' = [g \in Host |->
                      IF g \in others \/ (g = h /\ others # {}) THEN met[g] \cup {object}
                      ELSE met[g]]
        /\ UNCHANGED result

(* The run of h ends; "failed" where an execute or bash resource raises.    *)
End(h, how) ==
    /\ pc' = [pc EXCEPT ![h] = "idle"]
    /\ result' = [result EXCEPT ![h] = how]
    /\ UNCHANGED met

StartRun(h) ==
    /\ pc[h] = "idle"
    /\ runs < MaxRuns
    /\ runs' = runs + 1
    /\ pc' = [pc EXCEPT ![h] = "floatingip"]
    /\ met' = [met EXCEPT ![h] = {}]
    /\ troubled' = troubled \ {h}
    /\ found' = [found EXCEPT ![h] = "nothing"]
    /\ UNCHANGED <<cloud, attributes, faults, ids, result>>

(* Tenants allocate and release floating addresses, of the pool when it has *)
(* its subnet, or of another external network, ...                          *)
Tenants ==
    /\ \E net \in {"pool", "other"} :
          \/ net \in addresses /\ addresses' = addresses \ {net}
          \/ (net = "pool" => subnet) /\ addresses' = addresses \cup {net}
    /\ UNCHANGED <<whole, broken, networks, subnet, lookalike, attributes, faults, chef>>

(* ... and make and delete networks of their own, with subnets of any cidr. *)
OtherSubnets ==
    /\ lookalike' = ~lookalike
    /\ UNCHANGED <<whole, broken, networks, subnet, addresses, attributes, faults, chef>>

(* An administrator gives the pool its subnet by hand.                      *)
ByHand ==
    /\ networks = 1 /\ ~subnet
    /\ subnet' = TRUE
    /\ met' = [g \in Host |-> IF pc[g] \in Window["subnet"] THEN met[g] \cup {"subnet"}
                             ELSE met[g]]
    /\ UNCHANGED <<whole, broken, networks, elsewhere, attributes, faults, runs, pc, ids,
                   troubled, found, result>>

------------------------------------------------------------------------------
(* The run has seen what it takes for the subnet of the pool.               *)
Finds(h, what) ==
    /\ found' = [found EXCEPT ![h] = what]
    /\ GoTo(h, "show")

(* not_if of "neutron floating create": an address is allocated, whatever   *)
(* network it is of.                                                        *)
FloatingIpList(h) ==
    /\ pc[h] = "floatingip"
    /\ \/ Answers /\ "pool" \in addresses /\ Finds(h, "own")
       \/ Answers /\ addresses = {"other"} /\ Finds(h, "other")
       \/ Answers /\ addresses = {} /\ GoTo(h, "netlist") /\ UNCHANGED found
       \/ Fails(h) /\ GoTo(h, "netlist") /\ UNCHANGED found
    /\ UNCHANGED <<cloud, attributes, runs, ids>>

\* mutant: the list is grepped without a look at the status of net-list
NetListUnchecked(h) ==
    /\ pc[h] = "netlist"
    /\ \/ Answers /\ (networks > 0 \/ decoy) /\ GoTo(h, "subnetlist")
       \/ Answers /\ networks = 0 /\ ~decoy /\ GoToCreate(h, "netcreate", "network")
       \/ Fails(h) /\ GoToCreate(h, "netcreate", "network")
    /\ UNCHANGED <<cloud, attributes, runs, ids, found>>

(* The shell line of neutron_add_floating: grep finds the pool's name in    *)
(* any name that has it as a part.  When net-list fails the line ends with  *)
(* status 0, no exception is raised and the script goes on.                 *)
NetList(h) ==
    /\ pc[h] = "netlist"
    /\ \/ Answers /\ (networks > 0 \/ decoy) /\ GoTo(h, "subnetlist")
       \/ Answers /\ networks = 0 /\ ~decoy /\ GoToCreate(h, "netcreate", "network")
       \/ Fails(h) /\ GoTo(h, "subnetlist")
    /\ UNCHANGED <<cloud, attributes, runs, ids, found>>

(* An exception here ends the script, not the run.                          *)
NetCreate(h) ==
    /\ pc[h] = "netcreate"
    /\ \/ Answers /\ networks' = networks + 1 /\ GoTo(h, "subnetlist")
       \/ Fails(h) /\ networks' \in {networks, networks + 1} /\ GoTo(h, "show")
    /\ UNCHANGED <<whole, broken, subnet, elsewhere, attributes, runs, ids, found>>

\* mutant: the early return for a subnet that exists is missing
SubnetListNoReturn(h) ==
    /\ pc[h] = "subnetlist"
    /\ (Answers \/ Fails(h)) /\ GoToCreate(h, "subnetcreate", "subnet")
    /\ UNCHANGED <<cloud, attributes, runs, ids, found>>

(* grep for the cidr as it was given, in the texts of all subnets; Neutron  *)
(* lists them without host bits.                                            *)
SubnetList(h) ==
    LET listed == subnet /\ start = "network"
    IN  /\ pc[h] = "subnetlist"
        /\ \/ Answers /\ listed /\ Finds(h, "own")
           \/ Answers /\ ~listed /\ lookalike /\ Finds(h, "other")
           \/ /\ (Answers /\ ~listed /\ ~lookalike) \/ Fails(h)
              /\ GoToCreate(h, "subnetcreate", "subnet") /\ UNCHANGED found
        /\ UNCHANGED <<cloud, attributes, runs, ids>>

\* mutant: the subnet goes to any network of the name
AcceptedByAny == networks >= 1 /\ ~subnet /\ start = "later"

(* Neutron takes a subnet for the one network of that name, once.  The      *)
(* allocation pool starts at the cidr's own address; one with the address   *)
(* of the network or of the gateway in it is refused.                       *)
Accepted == networks = 1 /\ ~subnet /\ start = "later"

\* mutant: a refused subnet is taken as done
SubnetCreateIgnored(h) ==
    /\ pc[h] = "subnetcreate"
    /\ \/ Answers /\ subnet' = (subnet \/ Accepted) /\ GoTo(h, "show")
       \/ Fails(h) /\ (UNCHANGED subnet \/ (Accepted /\ subnet' = TRUE)) /\ End(h, "failed")
    /\ UNCHANGED <<whole, broken, networks, elsewhere, attributes, runs, ids, found>>

SubnetCreate(h) ==
    /\ pc[h] = "subnetcreate"
    /\ \/ Answers /\ Accepted /\ subnet' = TRUE /\ GoTo(h, "show")
       \/ Answers /\ ~Accepted /\ UNCHANGED subnet /\ End(h, "failed")
       \/ Fails(h) /\ (UNCHANGED subnet \/ (Accepted /\ subnet' = TRUE)) /\ End(h, "failed")
    /\ UNCHANGED <<whole, broken, networks, elsewhere, attributes, runs, ids, found>>

------------------------------------------------------------------------------
FirstPart == IF ami THEN "kernel" ELSE "image"

(* glance image-show NAME succeeds: no error for none, none for two.        *)
Named == Images = 1

(* not_if of the upload; an error counts as "no image".                     *)
Show(h) ==
    /\ pc[h] = "show"
    /\ \/ Answers /\ Named /\ End(h, "ok")
       \/ Answers /\ ~Named /\ GoToCreate(h, FirstPart, "image")
       \/ Fails(h) /\ GoToCreate(h, FirstPart, "image")
    /\ ids' = [ids EXCEPT ![h] = TRUE]
    /\ UNCHANGED <<cloud, attributes, runs, found>>

(* kid=$(...), rid=$(...): the shell goes on with an empty id.              *)
UploadPart(h) ==
    /\ pc[h] \in {"kernel", "ramdisk"}
    /\ GoTo(h, IF pc[h] = "kernel" THEN "ramdisk" ELSE "image")
    /\ \/ Answers /\ UNCHANGED ids
       \/ Fails(h) /\ ids' = [ids EXCEPT ![h] = FALSE]
    /\ UNCHANGED <<cloud, attributes, runs, found>>

ImageCreated(h) ==
    IF ids[h] THEN whole' = whole + 1 /\ UNCHANGED broken
    ELSE broken' = broken + 1 /\ UNCHANGED whole

(* image-create of the name itself; its status is that of the resource.     *)
ImageCreate(h) ==
    /\ pc[h] = "image"
    /\ \/ Answers /\ ImageCreated(h) /\ End(h, "ok")
       \/ Fails(h) /\ (ImageCreated(h) \/ UNCHANGED <<whole, broken>>) /\ End(h, "failed")
    /\ UNCHANGED <<networks, subnet, elsewhere, attributes, runs, ids, found>>

Step(h) ==
    \/ FloatingIpList(h) \/ NetList(h) \/ NetCreate(h) \/ SubnetList(h) \/ SubnetCreate(h)
    \/ Show(h) \/ UploadPart(h) \/ ImageCreate(h)

Next == Tenants \/ OtherSubnets \/ ByHand \/ \E h \in Host : StartRun(h) \/ Step(h)

Spec == Init /\ [][Next]_vars

------------------------------------------------------------------------------
(* add_floaters.py ensures that "we only ever create one" network, and the  *)
(* upload is guarded by its name.  A second network needs two hosts between *)
(* look-up and creation at once, and never comes from a call that failed; a *)
(* second image needs that too, or some call of its own run that failed,    *)
(* such as its look-up.                                                     *)
SecondNeedsARace ==
    [][/\ networks # 0 /\ networks' > networks =>
             \E h \in Host : pc[h] = "netcreate" /\ "network" \in met[h]
       /\ Images = 1 /\ Images' > Images =>
             \E h \in Host : pc[h] = "image" /\ ("image" \in met[h] \/ h \in troubled')]_vars

(* The script can give the pool no subnet any more: two networks have its   *)
(* name, or none has and none will be created, for grep takes another for   *)
(* it.                                                                      *)
Blocked == ~subnet /\ (networks > 1 \/ (networks = 0 /\ decoy))

(* A blocked pool stays blocked, and a host that has its creation of the    *)
(* network behind or not before it gets to its image only if a floating     *)
(* address or a subnet of another network passes for the pool's.            *)
BlockedStays ==
    [][Blocked => /\ Blocked'
                  /\ \A h \in Host : pc[h] \notin {"netcreate", "show"} /\ pc'[h] = "show" =>
                        found'[h] = "other"]_vars

(* A run that ends well without any failed call leaves the network and its  *)
(* subnet, unless an address or a subnet of another network passed for it,  *)
(* and an image with all its parts, unless another run left one image that  *)
(* lacks its kernel or ramdisk, which is found by its name alone; whatever  *)
(* other hosts did meanwhile.                                               *)
CleanRunDelivers ==
    [][\A h \in Host : pc[h] # "idle" /\ pc'[h] = "idle" /\ result'[h] = "ok" /\ h \notin troubled' =>
          /\ found'[h] = "other" \/ (networks' >= 1 /\ subnet')
          /\ whole' >= 1 \/ broken' = 1]_vars

(* A run without failed calls of its own fails only for a lost race for the *)
(* subnet, a blocked pool, a cidr whose allocation pool Neutron refuses, or *)
(* one with host bits, as in the script's own help text, whose subnet is    *)
(* there but not recognised.                                                *)
FailuresAreExplained ==
    [][\A h \in Host :
          pc[h] # "idle" /\ pc'[h] = "idle" /\ result'[h] = "failed" /\ h \notin troubled' =>
             \/ "subnet" \in met[h] \/ Blocked
             \/ ~subnet /\ start # "later"
             \/ subnet /\ start # "network"]_vars
==============================================================================
