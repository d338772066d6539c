--------------------------- MODULE IdentityRegister ---------------------------
(***************************************************************************)
(* The register provider of cookbooks/openstack-identity, run by the       *)
(* registration recipe on every host of the os-identity wave, all of them  *)
(* against one Keystone and at the same time.  Every resource looks up     *)
(* what it needs, one keystone call each, and then creates what is not     *)
(* there: look-up and creation are two calls.  Any error is logged and     *)
(* swallowed, and the recipe goes on.  Keystone (external) refuses a       *)
(* second tenant, role, user or grant of one name, but takes any number of *)
(* services, endpoints and EC2 credentials.                                *)
(***************************************************************************)
EXTENDS Naturals, Sequences, FiniteSets

CONSTANTS
    Node,          \* hosts that run the recipe
    MaxConverges,  \* bound: runs of the recipe, all hosts together
    MaxFaults      \* bound: calls that fail though Keystone had no reason to refuse

ASSUME RegisterAssumption ==
    IsFiniteSet(Node) /\ MaxConverges \in Nat /\ MaxFaults \in Nat

(* The ids service-list sorts by: a later service may come first.           *)
ServiceId == 1..Cardinality(Node)

\* mutant: the role is granted before its user is registered
RecipeGrantFirst == <<"tenant", "role", "grant", "user", "service", "endpoint", "ec2">>

(* The recipe for one user and one service, and the calls before each       *)
(* creation.  A call is named for what it looks for.                        *)
Recipe == <<"tenant", "role", "user", "grant", "service", "endpoint", "ec2">>

Lookups == [
    tenant   |-> <<"tenant">>,
    role     |-> <<"role">>,
    user     |-> <<"tenant", "user">>,
    grant    |-> <<"tenant", "user", "role", "grant">>,
    service  |-> <<"service">>,
    endpoint |-> <<"service", "endpoint">>,
    ec2      |-> <<"tenant", "user", "ec2">>]

(* The look-ups whose failure ends the resource.  grant_role means to test  *)
(* user_uuid and role_uuid too, but tests tenant_uuid again.                *)
Required == [
    tenant |-> {}, role |-> {}, user |-> {"tenant"}, grant |-> {"tenant"},
    service |-> {}, endpoint |-> {"service"}, ec2 |-> {"tenant", "user"}]

Unique == {"tenant", "role", "user", "grant"}

VARIABLES
    names,      \* the objects of Unique that exist
    services,   \* the services of the recipe's type
    endpoints,  \* service -> number of its endpoints
    ec2,        \* number of EC2 credentials of the user
    faults, converges,
    step,       \* host -> position in Recipe, 0 when no run is on
    seen,       \* host -> answers of the look-ups of this resource, 0 for nil
    saved,      \* hosts whose node attributes hold the credentials they created
    toSave,     \* hosts between ec2-credentials-create and node.save
    granted,    \* history: hosts that logged "already granted" in this run
    clean,      \* history: hosts none of whose calls failed in their last, ended run
    faulted,    \* history: hosts with a fault in this run
    settled,    \* history: at some moment every host was at rest and clean
    raced       \* history: a host began while another was in the recipe

server == <<names, services, endpoints, ec2>>
starts == <<converges, raced>>
vars == <<server, faults, starts, step, seen, saved, toSave, granted, clean,
          faulted, settled>>

TypeOK ==
    /\ names \in SUBSET Unique
    /\ services \in SUBSET ServiceId
    /\ endpoints \in [ServiceId -> 0..Cardinality(Node)]
    /\ ec2 \in 0..Cardinality(Node)
    /\ faults \in 0..MaxFaults
    /\ converges \in 0..MaxConverges
    /\ step \in [Node -> 0..Len(Recipe)]
    /\ seen \in [Node -> Seq(ServiceId \cup {0, 1})]
    /\ \A n \in Node : Len(seen[n]) <= 4
    /\ saved \in SUBSET Node
    /\ toSave \in SUBSET Node
    /\ granted \in SUBSET Node
    /\ clean \in SUBSET Node
    /\ faulted \in SUBSET Node
    /\ settled \in BOOLEAN
    /\ raced \in BOOLEAN

Init ==
    /\ names = {}
    /\ services = {}
    /\ endpoints = [s \in ServiceId |-> 0]
    /\ ec2 = 0
    /\ faults = 0
    /\ converges = 0
    /\ step = [n \in Node |-> 0]
    /\ seen = [n \in Node |-> <<>>]
    /\ saved = {}
    /\ toSave = {}
    /\ granted = {}
    /\ clean = {}
    /\ faulted = {}
    /\ settled = FALSE
    /\ raced = FALSE

------------------------------------------------------------------------------
Resource(n) == Recipe[step[n]]
Calls(n)    == Lookups[Resource(n)]

\* mutant: endpoints and EC2 credentials are not found again
IdentityUuidForgetful(n, kind) ==
    CASE kind \in Unique -> IF kind \in names THEN 1 ELSE 0
      [] kind = "service" -> IF services = {} THEN 0
                             ELSE CHOOSE s \in services : \A z \in services : s <= z
      [] OTHER -> 0

(* What identity_uuid finds: the first row of the list that fits, or nil.   *)
IdentityUuid(n, kind) ==
    CASE kind \in Unique    -> IF kind \in names THEN 1 ELSE 0
      [] kind = "service"   -> IF services = {} THEN 0
                               ELSE CHOOSE s \in services : \A z \in services : s <= z
      [] kind = "endpoint"  -> IF endpoints[seen[n][1]] > 0 THEN 1 ELSE 0
      [] kind = "ec2"       -> IF ec2 > 0 THEN 1 ELSE 0

Found(n) == seen[n] # <<>> /\ seen[n][Len(seen[n])] # 0

(* A grant is compared by role id: nil equals nil.                          *)
SameRole(n) == (seen[n][3] = 0) = (seen[n][4] = 0)

(* user-role-list is about to be asked for a user that is nil.              *)
Nobody(n) == Resource(n) = "grant" /\ Len(seen[n]) = 3 /\ seen[n][1] # 0 /\ seen[n][2] = 0

(* What the answers so far tell the resource to do.                         *)
MayLookUp(n) ==
    /\ Len(seen[n]) < Len(Calls(n))
    /\ \A k \in 1..Len(seen[n]) : seen[n][k] = 0 => Calls(n)[k] \notin Required[Resource(n)]

LookedUp(n) == Len(seen[n]) = Len(Calls(n))

MayCreate(n) ==
    /\ LookedUp(n)
    /\ IF Resource(n) = "grant" THEN ~SameRole(n) ELSE ~Found(n)

------------------------------------------------------------------------------
StartConverge(n) ==
    /\ step[n] = 0
    /\ converges < MaxConverges
    /\ converges' = converges + 1
    /\ step' = [step EXCEPT ![n] = 1]
    /\ raced' = (raced \/ \E m \in Node : step[m] > 0)
    /\ granted' = granted \ {n}
    /\ clean' = clean \ {n}
    /\ faulted' = faulted \ {n}
    /\ UNCHANGED <<server, faults, seen, saved, toSave, settled>>

(* The resource is done, whatever its end; the last one ends the run.       *)
NextResource(n, bad) ==
    /\ seen' = [seen EXCEPT ![n] = <<>>]
    /\ faulted' = IF bad THEN faulted \cup {n} ELSE faulted
    /\ IF step[n] < Len(Recipe)
       THEN /\ step' = [step EXCEPT ![n] = @ + 1]
            /\ UNCHANGED <<clean, settled>>
       ELSE /\ step' = [step EXCEPT ![n] = 0]
            /\ clean' = IF n \in faulted' THEN clean ELSE clean \cup {n}
            /\ settled' = (settled \/ (clean' = Node /\ \A m \in Node : step'[m] = 0))

(* Its call fails: RuntimeError, logged by `rescue StandardError`.          *)
Raise(n) ==
    /\ faults < MaxFaults
    /\ faults' = faults + 1
    /\ NextResource(n, TRUE)

LookUp(n) ==
    /\ step[n] > 0 /\ n \notin toSave
    /\ MayLookUp(n) /\ ~Nobody(n)
    /\ \/ /\ seen' = [seen EXCEPT ![n] =
                         Append(@, IdentityUuid(n, Calls(n)[Len(@) + 1]))]
          /\ UNCHANGED <<faults, step, clean, faulted, settled>>
       \/ Raise(n)
    /\ UNCHANGED <<server, starts, saved, toSave, granted>>

(* That call raises: there is no user of that id.                           *)
LookUpGrantOfNobody(n) ==
    /\ step[n] > 0
    /\ Nobody(n)
    /\ NextResource(n, FALSE)
    /\ UNCHANGED <<server, faults, starts, saved, toSave, granted>>

(* A look-up the resource needs found nothing, or the object is there.      *)
Leave(n) ==
    /\ step[n] > 0 /\ n \notin toSave
    /\ ~MayLookUp(n)
    /\ ~MayCreate(n)
    /\ granted' = IF Resource(n) = "grant" /\ LookedUp(n) THEN granted \cup {n} ELSE granted
    /\ NextResource(n, FALSE)
    /\ UNCHANGED <<server, faults, starts, saved, toSave>>

------------------------------------------------------------------------------
(* What Keystone does with the creation.  A refusal changes nothing.        *)
Refused(n) ==
    \/ Resource(n) \in names
    \/ Resource(n) = "grant" /\ seen[n][3] = 0

Effect(n) ==
    \/ /\ Resource(n) \in Unique
       /\ names' = IF Refused(n) THEN names ELSE names \cup {Resource(n)}
       /\ UNCHANGED <<services, endpoints, ec2>>
    \/ /\ Resource(n) = "service"
       /\ \E s \in ServiceId \ services : services' = services \cup {s}
       /\ UNCHANGED <<names, endpoints, ec2>>
    \/ /\ Resource(n) = "endpoint"
       /\ endpoints' = [endpoints EXCEPT ![seen[n][1]] = @ + 1]
       /\ UNCHANGED <<names, services, ec2>>
    \/ /\ Resource(n) = "ec2"
       /\ ec2' = ec2 + 1
       /\ UNCHANGED <<names, services, endpoints>>

(* The creation.  A refusal raises like any other failure; a call that      *)
(* fails may have had its effect.  So has one of EC2 credentials whose      *)
(* answer is not one row: the resource ends with an error and sets nothing. *)
Create(n) ==
    /\ step[n] > 0 /\ n \notin toSave
    /\ MayCreate(n)
    /\ \/ /\ Effect(n)
          /\ IF Resource(n) = "ec2"
             THEN /\ toSave' = toSave \cup {n}
                  /\ UNCHANGED <<step, seen, clean, faulted, settled>>
             ELSE NextResource(n, FALSE) /\ UNCHANGED toSave
          /\ UNCHANGED faults
       \/ /\ Effect(n) \/ UNCHANGED server
          /\ Raise(n)
          /\ UNCHANGED toSave
    /\ UNCHANGED <<starts, saved, granted>>

(* node.set and node.save; after a save that fails, what was set may still  *)
(* be saved by chef-client at the end of its run, or not.                   *)
SaveNode(n) ==
    /\ n \in toSave
    /\ toSave' = toSave \ {n}
    /\ \/ saved' = saved \cup {n} /\ NextResource(n, FALSE) /\ UNCHANGED faults
       \/ saved' \in {saved, saved \cup {n}} /\ Raise(n)
    /\ UNCHANGED <<server, starts, granted>>

(* The chef run dies between two calls.                                     *)
Crash(n) ==
    /\ step[n] > 0
    /\ step' = [step EXCEPT ![n] = 0]
    /\ seen' = [seen EXCEPT ![n] = <<>>]
    /\ toSave' = toSave \ {n}
    /\ UNCHANGED <<server, faults, starts, saved, granted, clean, faulted, settled>>

Next ==
    \E n \in Node :
       \/ StartConverge(n)
       \/ LookUp(n) \/ LookUpGrantOfNobody(n)
       \/ Leave(n)
       \/ Create(n) \/ SaveNode(n)
       \/ Crash(n)

Spec == Init /\ [][Next]_vars

------------------------------------------------------------------------------
(* Properties                                                               *)

(* Every error is swallowed, also those of a lost race; nevertheless a run  *)
(* none of whose calls failed by itself leaves the user, its grant, the     *)
(* service and an endpoint behind, whatever other hosts do, and however     *)
(* they fail or die.                                                        *)
ConvergedRegisters ==
    \A n \in clean :
       /\ names = Unique
       /\ services # {}
       /\ \E s \in services : endpoints[s] > 0
       /\ ec2 > 0

(* The recipe is idempotent once every host has been through it: with the   *)
(* duplicates the first runs raced into or without, no later run creates    *)
(* anything.                                                                *)
SettledIsStable == [][settled => UNCHANGED server]_vars

(* Credentials no host has saved in its attributes, after a crash between   *)
(* ec2-credentials-create and node.save, a bad answer to the one or an      *)
(* error of the other, are never saved by a later run: it finds them in     *)
(* Keystone and leaves.                                                     *)
Orphaned ==
    /\ ec2 > 0
    /\ saved = {} /\ toSave = {}
    /\ \A n \in Node : step[n] > 0 => ~(Resource(n) = "ec2" /\ MayCreate(n))

OrphanedCredentialsStay == [][Orphaned => Orphaned']_vars

(* Only hosts that are in the recipe at the same time register anything    *)
(* twice: runs one after the other, of one host or of several, do not, even *)
(* after crashes and failed calls.                                          *)
NothingTwice ==
    ~raced =>
       /\ Cardinality(services) <= 1
       /\ \A s \in ServiceId : endpoints[s] <= 1
       /\ ec2 <= 1

(* "Role ... already granted to User ... in Tenant ...".                    *)
GrantClaimIsTrue == \A n \in granted : "grant" \in names
==============================================================================
