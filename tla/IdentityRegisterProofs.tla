----------------------- MODULE IdentityRegisterProofs -----------------------
(***************************************************************************)
(* Proofs about IdentityRegister, for any number of hosts, of runs of the  *)
(* recipe and of failed calls.                                             *)
(***************************************************************************)
EXTENDS IdentityRegister, FiniteSetTheorems, TLAPS

------------------------------------------------------------------------------
(* The inductive invariant                                                  *)

(* Where the run of a host can be.                                          *)
Place ==
    \A n \in Node :
       /\ step[n] = 0 => seen[n] = <<>>
       /\ step[n] > 0 => Len(seen[n]) <= Len(Calls(n)) /\ n \notin clean
       /\ step[n] = 6 /\ Len(seen[n]) = 2 => seen[n][1] \in services
       /\ n \in toSave => step[n] = 7 /\ ec2 > 0

(* There is a first service.                                                *)
Least == services # {} => \E s \in services : \A z \in services : s <= z

(* Keystone takes nothing back: what a look-up has found is still there.    *)
Holds(n, k) ==
    /\ Calls(n)[k] \in Unique => Calls(n)[k] \in names
    /\ Calls(n)[k] = "service" => seen[n][k] \in services
    /\ Calls(n)[k] = "endpoint" => seen[n][1] \in services /\ endpoints[seen[n][1]] > 0
    /\ Calls(n)[k] = "ec2" => ec2 > 0

Truth ==
    \A n \in Node : step[n] > 0 =>
       \A k \in 1..Len(seen[n]) : seen[n][k] # 0 => Holds(n, k)

Present(kind) ==
    /\ kind \in Unique => kind \in names
    /\ kind = "service" => services # {}
    /\ kind = "endpoint" => \E s \in services : endpoints[s] > 0
    /\ kind = "ec2" => ec2 > 0

(* A run without failed calls has registered what the resources behind it   *)
(* stand for, and so finds all it needs for the next.                       *)
OnTrack ==
    \A n \in Node : step[n] > 0 /\ n \notin faulted =>
       /\ \A j \in 1..(step[n] - 1) : Present(Recipe[j])
       /\ \A k \in 1..Len(seen[n]) : k < Len(Calls(n)) => seen[n][k] # 0

(* A host that has still to pass the endpoint, and will find there the      *)
(* service s or one before it.                                              *)
Owes(n, s) ==
    /\ n \notin clean
    /\ \/ step[n] < 6
       \/ n \in faulted
       \/ /\ step[n] = 6
          /\ seen[n] # <<>> => seen[n][1] \in services /\ seen[n][1] <= s

(* An endpoint may belong to a service that is not the first; but then some *)
(* host will see to the first one before all are clean.                     *)
Owed ==
    \A s \in services :
       \/ \E z \in services : z <= s /\ endpoints[z] > 0
       \/ \E n \in Node : Owes(n, s)

(* Once settled, every look-up finds what it looks for.                     *)
FindsAll ==
    settled =>
       /\ names = Unique
       /\ \E s \in services : endpoints[s] > 0 /\ \A z \in services : s <= z
       /\ ec2 > 0
       /\ \A n \in Node : step[n] > 0 =>
             /\ \A k \in 1..Len(seen[n]) : seen[n][k] # 0
             /\ step[n] = 6 /\ seen[n] # <<>> => endpoints[seen[n][1]] > 0

(* While hosts take turns, one run is on, and what its look-up did not find *)
(* is not there until it creates it.                                        *)
TakingTurns ==
    ~raced =>
       /\ \A m, n \in Node : step[m] > 0 /\ step[n] > 0 => m = n
       /\ \A s, z \in services : s = z
       /\ \A s \in ServiceId : endpoints[s] <= 1
       /\ ec2 <= 1
       /\ \A n \in Node :
             /\ step[n] = 5 /\ seen[n] = <<0>> => services = {}
             /\ step[n] = 6 /\ Len(seen[n]) = 2 /\ seen[n][2] = 0 => endpoints[seen[n][1]] = 0
             /\ step[n] = 7 /\ Len(seen[n]) = 3 /\ seen[n][3] = 0 /\ n \notin toSave => ec2 = 0

(* The hosts that are about to create a second service, endpoint of s or    *)
(* EC2 credential: there are never more objects than there could be hosts.  *)
AtService     == {n \in Node : step[n] = 5 /\ seen[n] = <<0>>}
AtEndpoint(s) == {n \in Node : step[n] = 6 /\ Len(seen[n]) = 2 /\ seen[n][1] = s /\ seen[n][2] = 0}
AtEc2         == {n \in Node : step[n] = 7 /\ Len(seen[n]) = 3 /\ seen[n][3] = 0 /\ n \notin toSave}

Counted ==
    /\ Cardinality(services) + Cardinality(AtService) <= Cardinality(Node)
    /\ \A s \in ServiceId : endpoints[s] + Cardinality(AtEndpoint(s)) <= Cardinality(Node)
    /\ ec2 + Cardinality(AtEc2) <= Cardinality(Node)

IInv ==
    /\ TypeOK
    /\ Place
    /\ Least
    /\ Truth
    /\ OnTrack
    /\ ConvergedRegisters
    /\ Owed
    /\ FindsAll
    /\ TakingTurns
    /\ Counted

------------------------------------------------------------------------------
(* The recipe                                                               *)

Kinds == {"tenant", "role", "user", "grant", "service", "endpoint", "ec2"}

(* Every resource looks for itself last, and for those behind it before.    *)
Row(j) ==
    LET calls == Lookups[Recipe[j]]
    IN  /\ Recipe[j] \in Kinds
        /\ Recipe[j] \in Unique <=> j \in 1..4
        /\ Recipe[j] = "grant" <=> j = 4
        /\ Recipe[j] = "service" <=> j = 5
        /\ Recipe[j] = "endpoint" <=> j = 6
        /\ Recipe[j] = "ec2" <=> j = 7
        /\ Len(calls) \in 1..4
        /\ calls[Len(calls)] = Recipe[j]
        /\ \A k \in 1..(Len(calls) - 1) :
              /\ calls[k] \in Kinds \ {"endpoint", "ec2"}
              /\ \E i \in 1..(j - 1) : calls[k] = Recipe[i]
        /\ \A kind \in Required[Recipe[j]] : \E k \in 1..(Len(calls) - 1) : calls[k] = kind

(* The calls of each resource.                                              *)
LEMMA CallFacts ==
    /\ Len(Recipe) = 7
    /\ Recipe[1] = "tenant" /\ Recipe[2] = "role" /\ Recipe[3] = "user" /\ Recipe[4] = "grant"
    /\ Recipe[5] = "service" /\ Recipe[6] = "endpoint" /\ Recipe[7] = "ec2"
    /\ Lookups["tenant"] = <<"tenant">>
    /\ Lookups["role"] = <<"role">>
    /\ Lookups["user"] = <<"tenant", "user">>
    /\ Lookups["grant"] = <<"tenant", "user", "role", "grant">>
    /\ Lookups["service"] = <<"service">>
    /\ Lookups["endpoint"] = <<"service", "endpoint">>
    /\ Lookups["ec2"] = <<"tenant", "user", "ec2">>
BY DEF Recipe, Lookups

LEMMA RequiredFacts ==
    /\ Required["tenant"] = {} /\ Required["role"] = {} /\ Required["service"] = {}
    /\ Required["user"] = {"tenant"} /\ Required["grant"] = {"tenant"}
    /\ Required["endpoint"] = {"service"} /\ Required["ec2"] = {"tenant", "user"}
BY DEF Required

LEMMA RecipeFacts == \A j \in 1..7 : Row(j)
<1> USE CallFacts, RequiredFacts DEF Row, Unique, Kinds
<1>1. Row(1) /\ Row(2)
  OBVIOUS
<1>2. Row(3)
  OBVIOUS
<1>3. Row(4)
  OBVIOUS
<1>4. Row(5)
  OBVIOUS
<1>5. Row(6)
  OBVIOUS
<1>6. Row(7)
  OBVIOUS
<1> HIDE DEF Row
<1> QED BY <1>1, <1>2, <1>3, <1>4, <1>5, <1>6

------------------------------------------------------------------------------
(* The forms a step of host n takes                                         *)

(* It looks something up.                                                   *)
Asks(n) ==
    /\ step[n] \in 1..7 /\ n \notin toSave /\ MayLookUp(n) /\ ~Nobody(n)
    /\ seen' = [seen EXCEPT ![n] = Append(@, IdentityUuid(n, Calls(n)[Len(@) + 1]))]
    /\ UNCHANGED <<server, starts, step, toSave, clean, faulted, settled>>

Changes(n) == n \notin toSave /\ MayCreate(n) /\ Effect(n)

(* It creates EC2 credentials, which it has still to save.                  *)
Issues(n) ==
    /\ step[n] = 7 /\ Changes(n)
    /\ toSave' = toSave \cup {n}
    /\ UNCHANGED <<starts, step, seen, clean, faulted, settled>>

(* It is done with a resource and none of its calls failed.                 *)
Passes(n) ==
    \/ Nobody(n) /\ UNCHANGED server
    \/ n \notin toSave /\ ~MayLookUp(n) /\ ~MayCreate(n) /\ UNCHANGED server
    \/ Changes(n) /\ step[n] # 7
    \/ n \in toSave /\ UNCHANGED server

(* It is done with a resource.                                              *)
Ends(n, bad) ==
    /\ step[n] \in 1..7
    /\ NextResource(n, bad)
    /\ toSave' = toSave \ {n}
    /\ UNCHANGED starts
    /\ UNCHANGED server \/ Changes(n)
    /\ bad \/ Passes(n)

StepOf(n) ==
    \/ StartConverge(n)
    \/ LookUp(n) \/ LookUpGrantOfNobody(n)
    \/ Leave(n)
    \/ Create(n) \/ SaveNode(n)
    \/ Crash(n)

LEMMA Forms ==
    ASSUME TypeOK, Place, NEW n \in Node, StepOf(n)
    PROVE  \/ StartConverge(n) \/ Crash(n) \/ Asks(n) \/ Issues(n)
           \/ Ends(n, TRUE) \/ Ends(n, FALSE)
<1>1. step[n] \in 0..7 /\ (step[n] > 0 => step[n] \in 1..7)
  BY CallFacts DEF TypeOK
<1>2. n \notin toSave => toSave \ {n} = toSave
  OBVIOUS
<1>3. n \in toSave => step[n] = 7
  BY DEF Place
<1>4. CASE LookUp(n)
  <2>1. /\ step[n] \in 1..7 /\ n \notin toSave /\ MayLookUp(n) /\ ~Nobody(n)
        /\ UNCHANGED <<server, starts, toSave>>
    BY <1>1, <1>4 DEF LookUp
  <2>2. \/ /\ seen' = [seen EXCEPT ![n] = Append(@, IdentityUuid(n, Calls(n)[Len(@) + 1]))]
           /\ UNCHANGED <<faults, step, clean, faulted, settled>>
        \/ NextResource(n, TRUE)
    BY <1>4 DEF LookUp, Raise
  <2>3. CASE NextResource(n, TRUE)
    BY <1>2, <2>1, <2>3 DEF Ends
  <2> QED BY <2>1, <2>2, <2>3 DEF Asks
<1>5. CASE LookUpGrantOfNobody(n)
  <2>1. step[n] \in 1..7 /\ Nobody(n) /\ Resource(n) = "grant"
    BY <1>1, <1>5 DEF LookUpGrantOfNobody, Nobody
  <2>2. n \notin toSave
    BY <1>3, <2>1, CallFacts DEF Resource
  <2>3. NextResource(n, FALSE) /\ UNCHANGED <<server, starts, toSave>>
    BY <1>5 DEF LookUpGrantOfNobody
  <2> QED BY <1>2, <2>1, <2>2, <2>3 DEF Ends, Passes
<1>6. CASE Leave(n)
  <2>1. /\ step[n] \in 1..7 /\ n \notin toSave /\ ~MayLookUp(n) /\ ~MayCreate(n)
        /\ NextResource(n, FALSE) /\ UNCHANGED <<server, starts, toSave>>
    BY <1>1, <1>6 DEF Leave
  <2> QED BY <1>2, <2>1 DEF Ends, Passes
<1>7. CASE Create(n)
  <2>1. step[n] \in 1..7 /\ n \notin toSave /\ MayCreate(n) /\ UNCHANGED starts
    BY <1>1, <1>7 DEF Create
  <2>2. Resource(n) = "ec2" <=> step[n] = 7
    BY <2>1, RecipeFacts DEF Resource, Row
  <2>3. CASE /\ Effect(n)
             /\ IF Resource(n) = "ec2"
                THEN /\ toSave' = toSave \cup {n}
                     /\ UNCHANGED <<step, seen, clean, faulted, settled>>
                ELSE NextResource(n, FALSE) /\ UNCHANGED toSave
    BY <1>2, <2>1, <2>2, <2>3 DEF Issues, Ends, Passes, Changes
  <2>4. CASE (Effect(n) \/ UNCHANGED server) /\ NextResource(n, TRUE) /\ UNCHANGED toSave
    BY <1>2, <2>1, <2>4 DEF Ends, Changes
  <2> QED BY <1>7, <2>3, <2>4 DEF Create, Raise
<1>8. CASE SaveNode(n)
  <2>1. step[n] \in 1..7 /\ n \in toSave
    BY <1>3, <1>8 DEF SaveNode
  <2>2. /\ toSave' = toSave \ {n} /\ UNCHANGED <<server, starts>>
        /\ NextResource(n, FALSE) \/ NextResource(n, TRUE)
    BY <1>8 DEF SaveNode, Raise
  <2> QED BY <2>1, <2>2 DEF Ends, Passes
<1> QED BY <1>4, <1>5, <1>6, <1>7, <1>8 DEF StepOf

(* What the end of a resource does to the run of its host, and of others.   *)
LEMMA EndFacts ==
    ASSUME TypeOK, NEW n \in Node, NEW bad \in BOOLEAN, Ends(n, bad)
    PROVE  /\ seen' \in [Node -> Seq(ServiceId \cup {0, 1})] /\ seen'[n] = <<>>
           /\ step' \in [Node -> 0..7]
           /\ step'[n] = IF step[n] < 7 THEN step[n] + 1 ELSE 0
           /\ \A m \in Node \ {n} : seen'[m] = seen[m] /\ step'[m] = step[m]
           /\ faulted' \in SUBSET Node
           /\ faulted' = IF bad THEN faulted \cup {n} ELSE faulted
           /\ clean' \in SUBSET Node
           /\ clean' = IF step[n] < 7 \/ n \in faulted' THEN clean ELSE clean \cup {n}
           /\ settled' \in BOOLEAN
           /\ settled => settled'
           /\ settled' => settled \/ (step[n] = 7 /\ clean' = Node /\ \A m \in Node : step'[m] = 0)
<1> USE CallFacts DEF TypeOK, Ends, NextResource
<1>1. /\ seen' \in [Node -> Seq(ServiceId \cup {0, 1})] /\ seen'[n] = <<>>
      /\ \A m \in Node \ {n} : seen'[m] = seen[m]
  OBVIOUS
<1>2. /\ step' \in [Node -> 0..7]
      /\ step'[n] = IF step[n] < 7 THEN step[n] + 1 ELSE 0
      /\ \A m \in Node \ {n} : step'[m] = step[m]
  <2> DEFINE next == IF step[n] < 7 THEN step[n] + 1 ELSE 0
  <2>1. step' = [step EXCEPT ![n] = next]
    OBVIOUS
  <2>2. step \in [Node -> 0..7] /\ step[n] \in 0..7
    OBVIOUS
  <2> HIDE CallFacts DEF TypeOK, Ends, NextResource
  <2>3. next \in 0..7
    BY <2>2
  <2> HIDE DEF next
  <2>4. step' \in [Node -> 0..7] /\ step'[n] = next /\ \A m \in Node \ {n} : step'[m] = step[m]
    BY <2>1, <2>2, <2>3
  <2> QED BY <2>4 DEF next
<1>3. faulted' \in SUBSET Node /\ faulted' = IF bad THEN faulted \cup {n} ELSE faulted
  OBVIOUS
<1>4. clean' \in SUBSET Node /\ clean' = IF step[n] < 7 \/ n \in faulted' THEN clean ELSE clean \cup {n}
  OBVIOUS
<1>5. /\ settled' \in BOOLEAN /\ settled => settled'
      /\ settled' => settled \/ (step[n] = 7 /\ clean' = Node /\ \A m \in Node : step'[m] = 0)
  <2>1. CASE step[n] < 7
    <3>1. settled' = settled /\ settled \in BOOLEAN
      BY <2>1
    <3> HIDE DEF TypeOK, Ends, NextResource
    <3> QED BY <3>1, Zenon
  <2>2. CASE step[n] = 7
    <3>1. settled' = (settled \/ (clean' = Node /\ \A m \in Node : step'[m] = 0))
      BY <2>2
    <3> QED BY <2>2, <3>1, Zenon
  <2> QED BY <2>1, <2>2
<1> QED BY <1>1, <1>2, <1>3, <1>4, <1>5

LEMMA IdFacts == Cardinality(Node) \in Nat /\ \A s \in ServiceId : s \in Nat /\ s # 0
<1>1. Cardinality(Node) \in Nat
  BY RegisterAssumption, FS_CardinalityType
<1> QED BY <1>1 DEF ServiceId

(* What a look-up answers.                                                  *)
LEMMA AnswerFacts ==
    ASSUME TypeOK, Least, NEW n \in Node, NEW kind \in Kinds
    PROVE  LET answer == IdentityUuid(n, kind)
           IN  /\ answer \in ServiceId \cup {0, 1}
               /\ kind \in Unique => (answer # 0 <=> kind \in names)
               /\ kind = "service" =>
                     /\ answer = 0 <=> services = {}
                     /\ services # {} => answer \in services /\ \A z \in services : answer <= z
               /\ kind = "endpoint" => (answer # 0 <=> endpoints[seen[n][1]] > 0)
               /\ kind = "ec2" => (answer # 0 <=> ec2 > 0)
<1>1. CASE kind \in Unique
  BY <1>1 DEF IdentityUuid, Unique
<1>2. CASE kind = "service"
  <2>1. CASE services = {}
    BY <1>2, <2>1 DEF IdentityUuid, Unique
  <2>2. CASE services # {}
    <3> DEFINE first == CHOOSE s \in services : \A z \in services : s <= z
    <3>1. first \in services /\ \A z \in services : first <= z
      BY <2>2 DEF Least
    <3>2. IdentityUuid(n, kind) = first
      BY <1>2, <2>2 DEF IdentityUuid, Unique
    <3> HIDE DEF first
    <3>3. first \in ServiceId /\ first # 0
      BY <3>1, IdFacts DEF TypeOK
    <3> QED BY <1>2, <2>2, <3>1, <3>2, <3>3 DEF Unique
  <2> QED BY <2>1, <2>2
<1>3. CASE kind = "endpoint"
  BY <1>3 DEF IdentityUuid, Unique
<1>4. CASE kind = "ec2"
  BY <1>4 DEF IdentityUuid, Unique
<1> QED BY <1>1, <1>2, <1>3, <1>4 DEF Kinds, Unique

LEMMA CallsAt ==
    ASSUME NEW n
    PROVE  /\ step[n] = 4 => Calls(n) = <<"tenant", "user", "role", "grant">> /\ Len(Calls(n)) = 4
           /\ step[n] = 5 => Calls(n) = <<"service">> /\ Len(Calls(n)) = 1
           /\ step[n] = 6 => Calls(n) = <<"service", "endpoint">> /\ Len(Calls(n)) = 2
           /\ step[n] = 7 => Calls(n) = <<"tenant", "user", "ec2">> /\ Len(Calls(n)) = 3
<1>1. /\ step[n] = 4 => Resource(n) = "grant"
      /\ step[n] = 5 => Resource(n) = "service"
      /\ step[n] = 6 => Resource(n) = "endpoint"
      /\ step[n] = 7 => Resource(n) = "ec2"
  BY CallFacts DEF Resource
<1>2. /\ Len(Lookups["grant"]) = 4 /\ Len(Lookups["service"]) = 1
      /\ Len(Lookups["endpoint"]) = 2 /\ Len(Lookups["ec2"]) = 3
  BY CallFacts
<1>3. CASE step[n] = 4
  BY <1>1, <1>2, <1>3, CallFacts DEF Calls
<1>4. CASE step[n] = 5
  BY <1>1, <1>2, <1>4, CallFacts DEF Calls
<1>5. CASE step[n] = 6
  BY <1>1, <1>2, <1>5, CallFacts DEF Calls
<1>6. CASE step[n] = 7
  BY <1>1, <1>2, <1>6, CallFacts DEF Calls
<1> QED BY <1>3, <1>4, <1>5, <1>6

(* A resource that creates has looked for itself in vain.                   *)
LEMMA CreateFacts ==
    ASSUME TypeOK, Place, NEW n \in Node, step[n] \in 1..7, MayCreate(n)
    PROVE  /\ Len(seen[n]) = Len(Calls(n))
           /\ step[n] = 5 => seen[n] = <<0>>
           /\ step[n] = 6 => Len(seen[n]) = 2 /\ seen[n][1] \in services /\ seen[n][2] = 0
           /\ step[n] = 7 => Len(seen[n]) = 3 /\ seen[n][3] = 0
<1>1. Len(seen[n]) = Len(Calls(n)) /\ seen[n] \in Seq(ServiceId \cup {0, 1})
  BY DEF MayCreate, LookedUp, TypeOK
<1>2. step[n] \in {5, 6, 7} => seen[n] = <<>> \/ seen[n][Len(seen[n])] = 0
  BY CallFacts DEF MayCreate, Found, Resource
<1>3. ASSUME step[n] = 5 PROVE seen[n] = <<0>>
  <2>1. Len(seen[n]) = 1
    BY <1>1, <1>3, CallsAt
  <2>2. seen[n][1] = 0
    BY <1>2, <1>3, <2>1
  <2> QED BY <1>1, <2>1, <2>2
<1>4. ASSUME step[n] = 6 PROVE Len(seen[n]) = 2 /\ seen[n][1] \in services /\ seen[n][2] = 0
  <2>1. Len(seen[n]) = 2
    BY <1>1, <1>4, CallsAt
  <2> QED BY <1>2, <1>4, <2>1 DEF Place
<1>5. ASSUME step[n] = 7 PROVE Len(seen[n]) = 3 /\ seen[n][3] = 0
  <2>1. Len(seen[n]) = 3
    BY <1>1, <1>5, CallsAt
  <2> QED BY <1>2, <1>5, <2>1
<1> QED BY <1>1, <1>3, <1>4, <1>5

(* What a creation does.  Keystone only gains.                              *)
LEMMA EffectFacts ==
    ASSUME TypeOK, NEW n \in Node, step[n] \in 1..7, Effect(n)
    PROVE  /\ names \subseteq names' /\ names' \in SUBSET Unique
           /\ step[n] \in 1..3 \/ (step[n] = 4 /\ seen[n][3] # 0) => Recipe[step[n]] \in names'
           /\ step[n] # 5 => services' = services
           /\ step[n] = 5 => \E s \in ServiceId \ services : services' = services \cup {s}
           /\ endpoints' = IF step[n] = 6 THEN [endpoints EXCEPT ![seen[n][1]] = @ + 1] ELSE endpoints
           /\ ec2' = IF step[n] = 7 THEN ec2 + 1 ELSE ec2
<1>1. /\ Resource(n) \in Unique <=> step[n] \in 1..4
      /\ Resource(n) = "grant" <=> step[n] = 4
      /\ Resource(n) = "service" <=> step[n] = 5
      /\ Resource(n) = "endpoint" <=> step[n] = 6
      /\ Resource(n) = "ec2" <=> step[n] = 7
  BY RecipeFacts DEF Row, Resource
<1> HIDE DEF Resource
<1>2. CASE step[n] \in 1..4
  <2>1. /\ names' = IF Refused(n) THEN names ELSE names \cup {Resource(n)}
        /\ UNCHANGED <<services, endpoints, ec2>>
    BY <1>1, <1>2 DEF Effect
  <2>2. step[n] \in 1..3 \/ (step[n] = 4 /\ seen[n][3] # 0) => Resource(n) \in names'
    BY <1>1, <2>1 DEF Refused
  <2>3. names \subseteq names' /\ names' \in SUBSET Unique
    BY <1>1, <1>2, <2>1 DEF TypeOK
  <2> QED BY <1>2, <2>1, <2>2, <2>3 DEF Resource
<1>3. CASE step[n] = 5
  BY <1>1, <1>3 DEF Effect, TypeOK
<1>4. CASE step[n] = 6
  BY <1>1, <1>4 DEF Effect, TypeOK
<1>5. CASE step[n] = 7
  BY <1>1, <1>5 DEF Effect, TypeOK
<1> QED BY <1>2, <1>3, <1>4, <1>5

LEMMA Causes ==
    ASSUME TypeOK, Place, NEW n \in Node, StepOf(n)
    PROVE  UNCHANGED server \/ (step[n] \in 1..7 /\ Changes(n))
<1>1. CASE StartConverge(n) \/ Crash(n) \/ Asks(n)
  BY <1>1 DEF StartConverge, Crash, Asks
<1>2. CASE Issues(n)
  BY <1>2 DEF Issues
<1>3. CASE Ends(n, TRUE) \/ Ends(n, FALSE)
  BY <1>3 DEF Ends
<1> QED BY <1>1, <1>2, <1>3, Forms

LEMMA Bump ==
    ASSUME NEW S, NEW f \in [S -> Nat], NEW x
    PROVE  LET g == [f EXCEPT ![x] = @ + 1]
           IN  g \in [S -> Nat] /\ \A s \in S : g[s] = IF s = x THEN f[s] + 1 ELSE f[s]
<1> DEFINE g == [f EXCEPT ![x] = @ + 1]
<1>1. DOMAIN g = S /\ g = [s \in S |-> g[s]]
  OBVIOUS
<1>2. \A s \in S : g[s] = IF s = x THEN f[s] + 1 ELSE f[s]
  OBVIOUS
<1>3. \A s \in S : f[s] \in Nat /\ f[s] + 1 \in Nat
  OBVIOUS
<1>4. \A s \in S : g[s] \in Nat
  BY <1>2, <1>3
<1> HIDE DEF g
<1>5. g \in [S -> Nat]
  BY <1>1, <1>4
<1> QED BY <1>2, <1>5 DEF g

LEMMA ServerGrows ==
    ASSUME TypeOK, Place, NEW n \in Node, StepOf(n)
    PROVE  /\ names \subseteq names' /\ names' \in SUBSET Unique
           /\ services \subseteq services' /\ services' \in SUBSET ServiceId
           /\ endpoints' \in [ServiceId -> Nat]
           /\ \A s \in ServiceId : endpoints[s] <= endpoints'[s]
           /\ ec2' \in Nat /\ ec2 <= ec2'
<1>1. UNCHANGED server \/ (step[n] \in 1..7 /\ Changes(n))
  BY Causes
<1>2. CASE UNCHANGED server
  BY <1>2, IdFacts DEF server, TypeOK
<1>3. CASE step[n] \in 1..7 /\ Changes(n)
  <2>1. Effect(n)
    BY <1>3 DEF Changes
  <2>2. endpoints' \in [ServiceId -> Nat] /\ \A s \in ServiceId : endpoints[s] <= endpoints'[s]
    <3>1. endpoints \in [ServiceId -> Nat]
      BY IdFacts DEF TypeOK
    <3>2. endpoints' = IF step[n] = 6 THEN [endpoints EXCEPT ![seen[n][1]] = @ + 1] ELSE endpoints
      BY <1>3, <2>1, EffectFacts
    <3> QED BY <3>1, <3>2, Bump
  <2>3. ec2' \in Nat /\ ec2 <= ec2'
    BY <1>3, <2>1, EffectFacts, IdFacts DEF TypeOK
  <2>4. services \subseteq services' /\ services' \in SUBSET ServiceId
    BY <1>3, <2>1, EffectFacts DEF TypeOK
  <2>5. names \subseteq names' /\ names' \in SUBSET Unique
    BY <1>3, <2>1, EffectFacts
  <2> QED BY <2>2, <2>3, <2>4, <2>5
<1> QED BY <1>1, <1>2, <1>3

LEMMA AsksFacts ==
    ASSUME TypeOK, Place, Least, Truth, NEW n \in Node, Asks(n)
    PROVE  LET last == Len(seen[n]) + 1
               kind == Calls(n)[last]
               answer == seen'[n][last]
           IN  /\ seen' \in [Node -> Seq(ServiceId \cup {0, 1})]
               /\ last <= Len(Calls(n)) /\ Len(seen'[n]) = last
               /\ \A k \in 1..Len(seen[n]) : seen'[n][k] = seen[n][k]
               /\ \A m \in Node \ {n} : seen'[m] = seen[m]
               /\ kind \in Kinds
               /\ kind \in Unique => (answer # 0 <=> kind \in names)
               /\ kind = "service" =>
                     /\ answer = 0 <=> services = {}
                     /\ services # {} => answer \in services /\ \A z \in services : answer <= z
               /\ kind = "endpoint" =>
                     /\ step[n] = 6 /\ last = 2 /\ seen[n][1] \in services
                     /\ answer # 0 <=> endpoints[seen[n][1]] > 0
               /\ kind = "ec2" => step[n] = 7 /\ last = 3 /\ (answer # 0 <=> ec2 > 0)
               /\ kind = Resource(n) <=> last = Len(Calls(n))
<1> DEFINE last == Len(seen[n]) + 1
           kind == Calls(n)[last]
           answer == IdentityUuid(n, kind)
<1>1. /\ seen[n] \in Seq(ServiceId \cup {0, 1}) /\ Len(seen[n]) \in Nat
      /\ last <= Len(Calls(n)) /\ last \in 1..Len(Calls(n)) /\ step[n] \in 1..7
  <2>1. seen[n] \in Seq(ServiceId \cup {0, 1}) /\ Len(seen[n]) \in Nat /\ step[n] \in 1..7
    BY DEF TypeOK, Asks
  <2>2. Len(Calls(n)) \in 1..4
    BY <2>1, RecipeFacts DEF Row, Calls, Resource
  <2>3. Len(seen[n]) < Len(Calls(n))
    BY DEF Asks, MayLookUp
  <2> QED BY <2>1, <2>2, <2>3
<1>2. kind \in Kinds /\ (kind = Resource(n) <=> last = Len(Calls(n)))
  <2>1. Row(step[n])
    BY <1>1, RecipeFacts
  <2>2. CASE last = Len(Calls(n))
    BY <1>1, <2>1, <2>2 DEF Row, Calls, Resource
  <2>3. CASE last < Len(Calls(n))
    <3>0. last \in 1..(Len(Calls(n)) - 1)
      <4> DEFINE all == Len(Calls(n))
      <4>1. all \in Nat /\ last \in 1..all /\ last < all
        BY <1>1, <2>1, <2>3 DEF Row, Calls, Resource
      <4> HIDE DEF all, last
      <4>2. last \in 1..(all - 1)
        BY <4>1
      <4> QED BY <4>2 DEF all
    <3>1. kind \in Kinds /\ \E i \in 1..(step[n] - 1) : kind = Recipe[i]
      <4> HIDE DEF last
      <4> QED BY <3>0, <2>1 DEF Row, Calls, Resource
    <3>2. \A i \in 1..(step[n] - 1) : Recipe[i] # Recipe[step[n]]
      BY <1>1, CallFacts
    <3>3. last # Len(Calls(n))
      BY <1>1, <2>3
    <3> HIDE DEF last, kind
    <3> QED BY <3>1, <3>2, <3>3 DEF Resource
  <2> QED BY <1>1, <2>2, <2>3
<1>0. /\ kind \in {"endpoint", "ec2"} => kind = Resource(n) /\ last = Len(Calls(n))
      /\ Resource(n) = "endpoint" <=> step[n] = 6
      /\ Resource(n) = "ec2" <=> step[n] = 7
  <2>1. Row(step[n])
    BY <1>1, RecipeFacts
  <2>2. kind \in {"endpoint", "ec2"} => last \notin 1..(Len(Calls(n)) - 1)
    BY <2>1 DEF Row, Calls, Resource
  <2> QED BY <1>1, <1>2, <2>1, <2>2 DEF Row, Resource
<1>3. seen' = [seen EXCEPT ![n] = Append(@, answer)]
  BY DEF Asks
<1> HIDE DEF answer
<1>4. answer \in ServiceId \cup {0, 1}
  BY <1>2, AnswerFacts DEF answer
<1>5. /\ seen' \in [Node -> Seq(ServiceId \cup {0, 1})] /\ seen'[n] = Append(seen[n], answer)
      /\ \A m \in Node \ {n} : seen'[m] = seen[m]
  BY <1>3, <1>4 DEF TypeOK
<1>6. /\ Len(seen'[n]) = last /\ seen'[n][last] = answer
      /\ \A k \in 1..Len(seen[n]) : seen'[n][k] = seen[n][k]
  BY <1>1, <1>4, <1>5
<1>7. kind = "endpoint" => step[n] = 6 /\ last = 2 /\ seen[n][1] \in services
  <2> SUFFICES ASSUME kind = "endpoint" PROVE step[n] = 6 /\ last = 2 /\ seen[n][1] \in services
    OBVIOUS
  <2>1. step[n] = 6 /\ last = 2
    BY <1>1, <1>2, <1>0, CallsAt DEF Resource
  <2>2. Calls(n)[1] = "service" /\ Resource(n) = "endpoint"
    BY <2>1, CallsAt, CallFacts DEF Resource
  <2>3. seen[n][1] # 0
    BY <1>1, <2>1, <2>2, RequiredFacts DEF Asks, MayLookUp
  <2> QED BY <1>1, <2>1, <2>2, <2>3 DEF Truth, Holds
<1>8. kind = "ec2" => step[n] = 7 /\ last = 3
  BY <1>1, <1>2, <1>0, CallsAt
<1>9. /\ kind \in Unique => (answer # 0 <=> kind \in names)
      /\ kind = "service" =>
            /\ answer = 0 <=> services = {}
            /\ services # {} => answer \in services /\ \A z \in services : answer <= z
      /\ kind = "endpoint" => (answer # 0 <=> endpoints[seen[n][1]] > 0)
      /\ kind = "ec2" => (answer # 0 <=> ec2 > 0)
  BY <1>2, AnswerFacts DEF answer
<1> HIDE DEF kind, last
<1> QED BY <1>1, <1>2, <1>5, <1>6, <1>7, <1>8, <1>9 DEF kind, last

(* The answers so far stay.                                                 *)
LEMMA Appended ==
    ASSUME TypeOK, Place, Least, Truth, NEW n \in Node, Asks(n)
    PROVE  /\ Len(seen[n]) \in Nat /\ Len(seen'[n]) = Len(seen[n]) + 1
           /\ \A k \in 1..Len(seen[n]) : seen'[n][k] = seen[n][k] /\ seen'[n][1] = seen[n][1]
           /\ Calls(n)[Len(seen[n]) + 1] = "endpoint" =>
                 Len(seen[n]) = 1 /\ seen'[n][1] = seen[n][1] /\ seen[n][1] \in services
<1> DEFINE before == Len(seen[n])
           endpoint == Calls(n)[before + 1] = "endpoint"
<1>1. before \in Nat
  BY DEF TypeOK
<1>2. /\ Len(seen'[n]) = before + 1
      /\ \A k \in 1..before : seen'[n][k] = seen[n][k]
      /\ endpoint => before + 1 = 2 /\ seen[n][1] \in services
  BY AsksFacts
<1> HIDE DEF before, endpoint
<1>3. endpoint => before = 1
  BY <1>1, <1>2
<1>4. \A k \in 1..before : 1 \in 1..before
  BY <1>1
<1>5. /\ \A k \in 1..before : seen'[n][k] = seen[n][k] /\ seen'[n][1] = seen[n][1]
      /\ endpoint => seen'[n][1] = seen[n][1]
  BY <1>2, <1>3, <1>4
<1> QED BY <1>1, <1>2, <1>3, <1>5 DEF before, endpoint

------------------------------------------------------------------------------
(* A step of n is no step of another host.                                  *)
LEMMA OthersStay ==
    ASSUME TypeOK, Place, NEW n \in Node, StepOf(n), NEW m \in Node \ {n}
    PROVE  /\ step'[m] = step[m] /\ seen'[m] = seen[m] /\ Calls(m)' = Calls(m)
           /\ m \in toSave' <=> m \in toSave
           /\ m \in clean' <=> m \in clean
           /\ m \in faulted' <=> m \in faulted
<1>1. /\ step'[m] = step[m] /\ seen'[m] = seen[m]
      /\ m \in toSave' <=> m \in toSave
      /\ m \in clean' <=> m \in clean
      /\ m \in faulted' <=> m \in faulted
  <2>1. CASE StartConverge(n) \/ Crash(n)
    BY <2>1 DEF StartConverge, Crash, TypeOK
  <2>2. CASE Asks(n) \/ Issues(n)
    BY <2>2 DEF Asks, Issues, TypeOK
  <2>3. ASSUME NEW bad \in BOOLEAN, Ends(n, bad)
        PROVE  <1>1!1 /\ <1>1!2 /\ <1>1!3 /\ <1>1!4
    BY <2>3, EndFacts DEF Ends
  <2> QED BY <2>1, <2>2, <2>3, Forms
<1> QED BY <1>1 DEF Calls, Resource

LEMMA StepTypes ==
    ASSUME TypeOK, Place, Least, Truth, NEW n \in Node, StepOf(n)
    PROVE  /\ faults' \in 0..MaxFaults
           /\ converges' \in 0..MaxConverges
           /\ step' \in [Node -> 0..Len(Recipe)]
           /\ seen' \in [Node -> Seq(ServiceId \cup {0, 1})]
           /\ saved' \in SUBSET Node
           /\ toSave' \in SUBSET Node
           /\ granted' \in SUBSET Node
           /\ clean' \in SUBSET Node
           /\ faulted' \in SUBSET Node
           /\ settled' \in BOOLEAN
           /\ raced' \in BOOLEAN
<1>1. faults' \in 0..MaxFaults
  <2>1. faults' = faults \/ (faults < MaxFaults /\ faults' = faults + 1)
    <3>1. CASE LookUp(n) \/ Create(n) \/ SaveNode(n)
      BY <3>1 DEF LookUp, Create, SaveNode, Raise
    <3>2. CASE ~(LookUp(n) \/ Create(n) \/ SaveNode(n))
      BY <3>2 DEF StepOf, StartConverge, LookUpGrantOfNobody, Leave, Crash
    <3> QED BY <3>1, <3>2
  <2>2. faults \in 0..MaxFaults
    BY DEF TypeOK
  <2> QED BY <2>1, <2>2, RegisterAssumption
<1>2. converges' \in 0..MaxConverges
  <2>1. converges' = converges \/ (converges < MaxConverges /\ converges' = converges + 1)
    <3>1. CASE StartConverge(n)
      BY <3>1 DEF StartConverge
    <3>2. CASE ~StartConverge(n)
      BY <3>2 DEF StepOf, LookUp, LookUpGrantOfNobody, Leave, Create, SaveNode, Crash, starts
    <3> QED BY <3>1, <3>2
  <2>2. converges \in 0..MaxConverges
    BY DEF TypeOK
  <2> QED BY <2>1, <2>2, RegisterAssumption
<1>3. raced' \in BOOLEAN
  <2>1. CASE StartConverge(n)
    BY <2>1 DEF StartConverge, TypeOK
  <2>2. CASE ~StartConverge(n)
    <3>1. raced' = raced
      BY <2>2 DEF StepOf, LookUp, LookUpGrantOfNobody, Leave, Create, SaveNode, Crash, starts
    <3> QED BY <3>1 DEF TypeOK
  <2> QED BY <2>1, <2>2
<1>4. saved' \in SUBSET Node /\ granted' \in SUBSET Node
  BY DEF StepOf, StartConverge, LookUp, LookUpGrantOfNobody, Leave, Create,
     SaveNode, Crash, TypeOK
<1>5. /\ step' \in [Node -> 0..7]
      /\ seen' \in [Node -> Seq(ServiceId \cup {0, 1})]
      /\ toSave' \in SUBSET Node /\ clean' \in SUBSET Node /\ faulted' \in SUBSET Node
  <2> USE CallFacts
  <2>0. CASE StartConverge(n)
    BY <2>0 DEF StartConverge, TypeOK
  <2>1. CASE Crash(n)
    <3>1. <<>> \in Seq(ServiceId \cup {0, 1})
      OBVIOUS
    <3> QED BY <2>1, <3>1 DEF Crash, TypeOK
  <2>2. CASE Asks(n)
    BY <2>2, AsksFacts DEF Asks, TypeOK
  <2>3. CASE Issues(n)
    BY <2>3 DEF Issues, TypeOK
  <2>4. ASSUME NEW bad \in BOOLEAN, Ends(n, bad)
        PROVE  <1>5!1 /\ <1>5!2 /\ <1>5!3
    BY <2>4, EndFacts DEF Ends, TypeOK
  <2> QED BY <2>0, <2>1, <2>2, <2>3, <2>4, Forms
<1>6. settled' \in BOOLEAN
  <2>1. CASE StartConverge(n) \/ Crash(n) \/ Asks(n) \/ Issues(n)
    <3>1. settled' = settled
      BY <2>1 DEF StartConverge, Crash, Asks, Issues
    <3> QED BY <3>1 DEF TypeOK
  <2> QED BY <2>1, EndFacts, Forms
<1> QED BY <1>1, <1>2, <1>3, <1>4, <1>5, <1>6, CallFacts

LEMMA StepPlace ==
    ASSUME TypeOK, Place, Least, Truth, NEW n \in Node, StepOf(n)
    PROVE  Place'
<1> SUFFICES ASSUME NEW m \in Node
             PROVE  /\ step'[m] = 0 => seen'[m] = <<>>
                    /\ step'[m] > 0 => Len(seen'[m]) <= Len(Calls(m)') /\ m \notin clean'
                    /\ step'[m] = 6 /\ Len(seen'[m]) = 2 => seen'[m][1] \in services'
                    /\ m \in toSave' => step'[m] = 7 /\ ec2' > 0
  BY DEF Place
<1>1. CASE m # n
  <2>1. services \subseteq services' /\ ec2 \in Nat /\ ec2' \in Nat /\ ec2 <= ec2'
    BY ServerGrows, IdFacts DEF TypeOK
  <2>2. /\ step'[m] = step[m] /\ seen'[m] = seen[m] /\ Calls(m)' = Calls(m)
        /\ m \in toSave' => m \in toSave
        /\ m \in clean' => m \in clean
    BY <1>1, OthersStay
  <2> QED BY <2>1, <2>2 DEF Place
<1>2. CASE m = n
  <2>1. step[n] \in 0..7 /\ step'[n] \in 0..7
    BY StepTypes, CallFacts DEF TypeOK
  <2>2. step'[n] > 0 => Len(Calls(n)') \in 1..4
    <3>1. step'[n] > 0 => Row(step'[n])
      BY <2>1, RecipeFacts
    <3>2. Calls(n)' = Lookups[Recipe[step'[n]]]
      BY DEF Calls, Resource
    <3> QED BY <3>1, <3>2 DEF Row
  <2>3. Len(<<>>) = 0
    OBVIOUS
  <2>4. CASE StartConverge(n)
    BY <1>2, <2>2, <2>3, <2>4 DEF StartConverge, Place, TypeOK
  <2>5. CASE Crash(n)
    BY <1>2, <2>2, <2>3, <2>5 DEF Crash, Place, TypeOK
  <2>6. CASE Asks(n)
    <3>1. /\ UNCHANGED <<step, services, clean, toSave>> /\ step[n] \in 1..7 /\ n \notin toSave
          /\ Calls(n)' = Calls(n)
      BY <2>6 DEF Asks, server, Calls, Resource
    <3>2. n \notin clean
      BY <3>1 DEF Place
    <3>3. Len(seen'[n]) <= Len(Calls(n)) /\ Len(seen'[n]) = Len(seen[n]) + 1
      BY <2>6, AsksFacts
    <3>4. step[n] = 6 /\ Len(seen'[n]) = 2 => seen'[n][1] \in services
      <4> SUFFICES ASSUME step[n] = 6, Len(seen'[n]) = 2 PROVE seen'[n][1] \in services
        OBVIOUS
      <4>1. Len(seen[n]) = 1
        <5> DEFINE before == Len(seen[n])
                   after  == Len(seen'[n])
        <5>1. before \in Nat
          BY DEF TypeOK
        <5>2. after = before + 1
          BY <3>3, Zenon
        <5>3. after = 2
          OBVIOUS
        <5> HIDE DEF before, after
        <5>4. before = 1
          BY <5>1, <5>2, <5>3
        <5> QED BY <5>4 DEF before
      <4>2. Calls(n)[Len(seen[n]) + 1] = "endpoint"
        BY <4>1, CallsAt
      <4>3. seen'[n][1] = seen[n][1] /\ seen[n][1] \in services
        BY <2>6, <4>2, Appended
      <4> QED BY <4>3
    <3> QED BY <1>2, <3>1, <3>2, <3>3, <3>4
  <2>7. CASE Issues(n)
    <3>1. ec2' = ec2 + 1 /\ step[n] = 7
      BY <2>7, EffectFacts DEF Issues, Changes
    <3>2. UNCHANGED <<step, seen, clean>> /\ Calls(n)' = Calls(n)
      BY <2>7 DEF Issues, Calls, Resource
    <3>3. ec2 \in Nat
      BY IdFacts DEF TypeOK
    <3> QED BY <1>2, <3>1, <3>2, <3>3 DEF Place
  <2>8. ASSUME NEW bad \in BOOLEAN, Ends(n, bad)
        PROVE  /\ step'[n] = 0 => seen'[n] = <<>>
               /\ step'[n] > 0 => Len(seen'[n]) <= Len(Calls(n)') /\ n \notin clean'
               /\ step'[n] = 6 /\ Len(seen'[n]) = 2 => seen'[n][1] \in services'
               /\ n \notin toSave'
    <3>1. seen'[n] = <<>> /\ n \notin toSave' /\ n \notin clean
      BY <2>8, EndFacts DEF Ends, Place
    <3>2. step'[n] > 0 => n \notin clean'
      BY <2>1, <2>8, <3>1, EndFacts
    <3> QED BY <2>2, <2>3, <3>1, <3>2
  <2> QED BY <1>2, <2>4, <2>5, <2>6, <2>7, <2>8, Forms
<1> QED BY <1>1, <1>2

LEMMA StepLeast ==
    ASSUME TypeOK, Place, Least, Truth, NEW n \in Node, StepOf(n)
    PROVE  Least'
<1>1. services' = services \/ \E s \in ServiceId : services' = services \cup {s}
  <2>1. UNCHANGED server \/ (step[n] \in 1..7 /\ Effect(n))
    BY Causes DEF Changes
  <2>2. CASE UNCHANGED server
    BY <2>2 DEF server
  <2>3. CASE step[n] \in 1..7 /\ Effect(n)
    BY <2>3, EffectFacts
  <2> QED BY <2>1, <2>2, <2>3
<1>2. CASE services' = services
  BY <1>2 DEF Least
<1>3. ASSUME NEW s \in ServiceId, services' = services \cup {s} PROVE Least'
  <2>1. \A z \in services \cup {s} : z \in Nat
    BY IdFacts DEF TypeOK
  <2>2. CASE services = {}
    BY <1>3, <2>1, <2>2 DEF Least
  <2>3. ASSUME NEW f \in services, \A z \in services : f <= z PROVE Least'
    <3>1. CASE s <= f
      BY <1>3, <2>1, <2>3, <3>1 DEF Least
    <3>2. CASE f <= s
      BY <1>3, <2>1, <2>3, <3>2 DEF Least
    <3> QED BY <2>1, <3>1, <3>2
  <2> QED BY <2>2, <2>3 DEF Least
<1> QED BY <1>1, <1>2, <1>3

LEMMA HoldsOn ==
    ASSUME TypeOK, Place, NEW n \in Node, StepOf(n), NEW m \in Node, NEW k,
           Calls(m)' = Calls(m), seen'[m][k] = seen[m][k], seen'[m][1] = seen[m][1], Holds(m, k)
    PROVE  Holds(m, k)'
<1>1. /\ names \subseteq names' /\ services \subseteq services' /\ services \subseteq ServiceId
      /\ \A s \in ServiceId : endpoints[s] \in Nat /\ endpoints'[s] \in Nat /\ endpoints[s] <= endpoints'[s]
      /\ ec2 \in Nat /\ ec2' \in Nat /\ ec2 <= ec2'
  BY ServerGrows, IdFacts DEF TypeOK
<1>2. (Calls(m)[k] \in Unique => Calls(m)[k] \in names)'
  BY <1>1 DEF Holds
<1>3. (Calls(m)[k] = "service" => seen[m][k] \in services)'
  BY <1>1 DEF Holds
<1>4. (Calls(m)[k] = "endpoint" => seen[m][1] \in services /\ endpoints[seen[m][1]] > 0)'
  BY <1>1 DEF Holds
<1>5. (Calls(m)[k] = "ec2" => ec2 > 0)'
  BY <1>1 DEF Holds
<1> QED BY <1>2, <1>3, <1>4, <1>5 DEF Holds

LEMMA StepTruth ==
    ASSUME TypeOK, Place, Least, Truth, NEW n \in Node, StepOf(n)
    PROVE  Truth'
<1> SUFFICES ASSUME NEW m \in Node, step'[m] > 0, NEW k \in 1..Len(seen'[m]), seen'[m][k] # 0
             PROVE  Holds(m, k)'
  BY DEF Truth
<1>1. CASE m # n
  BY <1>1, OthersStay, HoldsOn DEF Truth
<1>2. CASE m = n
  <2>1. CASE StartConverge(n) \/ Crash(n)
    <3>1. seen'[n] = <<>>
      BY <2>1 DEF StartConverge, Crash, Place, TypeOK
    <3> QED BY <1>2, <3>1
  <2>2. CASE Asks(n)
    <3>1. /\ UNCHANGED <<names, services, endpoints, ec2>> /\ Calls(n)' = Calls(n) /\ step[n] \in 1..7
      BY <2>2 DEF Asks, server, Calls, Resource
    <3>2. CASE k \in 1..Len(seen[n])
      <4>1. seen'[n][k] = seen[n][k] /\ seen'[n][1] = seen[n][1]
        BY <2>2, <3>2, Appended
      <4>2. Holds(n, k)
        BY <1>2, <3>1, <3>2, <4>1 DEF Truth
      <4> QED BY <1>2, <3>1, <4>1, <4>2, HoldsOn
    <3>3. CASE k = Len(seen[n]) + 1
      <4>1. Calls(n)[k] = "endpoint" => seen'[n][1] = seen[n][1]
        BY <2>2, <3>3, Appended
      <4> QED BY <1>2, <2>2, <3>1, <3>3, <4>1, AsksFacts DEF Holds
    <3>4. Len(seen[n]) \in Nat /\ Len(seen'[n]) = Len(seen[n]) + 1
      BY <2>2, Appended
    <3> QED BY <1>2, <3>2, <3>3, <3>4
  <2>3. CASE Issues(n)
    <3>1. UNCHANGED <<step, seen>> /\ Calls(n)' = Calls(n) /\ step[n] = 7
      BY <2>3 DEF Issues, Calls, Resource
    <3>2. Holds(n, k)
      BY <1>2, <3>1 DEF Truth
    <3> QED BY <1>2, <3>1, <3>2, HoldsOn
  <2>4. ASSUME NEW bad \in BOOLEAN, Ends(n, bad) PROVE Holds(m, k)'
    <3>1. seen'[n] = <<>>
      BY <2>4, EndFacts
    <3> QED BY <1>2, <3>1
  <2> QED BY <2>1, <2>2, <2>3, <2>4, Forms
<1> QED BY <1>1, <1>2

------------------------------------------------------------------------------
(* What a run without failed calls leaves behind                            *)

LEMMA PresentOn ==
    ASSUME TypeOK, Place, NEW n \in Node, StepOf(n), NEW kind, Present(kind)
    PROVE  Present(kind)'
<1>1. /\ names \subseteq names' /\ services \subseteq services' /\ services \subseteq ServiceId
      /\ \A s \in ServiceId : endpoints[s] \in Nat /\ endpoints'[s] \in Nat /\ endpoints[s] <= endpoints'[s]
      /\ ec2 \in Nat /\ ec2' \in Nat /\ ec2 <= ec2'
  BY ServerGrows, IdFacts DEF TypeOK
<1> QED BY <1>1 DEF Present

(* A resource that has looked everything up and creates nothing is there.   *)
LEMMA LeftIsPresent ==
    ASSUME TypeOK, Place, Truth, OnTrack, NEW n \in Node, step[n] \in 1..7, n \notin faulted,
           ~MayLookUp(n), ~MayCreate(n)
    PROVE  /\ Present(Recipe[step[n]])
           /\ Len(seen[n]) = Len(Calls(n)) /\ Holds(n, Len(Calls(n)))
<1> DEFINE all == Len(Calls(n))
<1>1. Row(step[n])
  BY RecipeFacts
<1>2. all \in 1..4 /\ Calls(n)[all] = Recipe[step[n]]
  BY <1>1 DEF Row, Calls, Resource
<1>3. Len(seen[n]) \in Nat /\ Len(seen[n]) <= all
  BY DEF Place, TypeOK
<1>4. \A k \in 1..Len(seen[n]) : k < all => seen[n][k] # 0
  BY DEF OnTrack
<1>5. ~(Len(seen[n]) < all)
  BY <1>2, <1>3, <1>4 DEF MayLookUp
<1> HIDE DEF all
<1>6. Len(seen[n]) = all
  BY <1>2, <1>3, <1>5
<1>7. seen[n][all] # 0
  <2>1. LookedUp(n)
    BY <1>6 DEF LookedUp, all
  <2>2. CASE step[n] = 4
    <3>1. all = 4 /\ Resource(n) = "grant"
      BY <2>2, CallsAt, CallFacts DEF all, Resource
    <3>2. seen[n][3] # 0
      BY <1>3, <1>4, <1>6, <3>1
    <3>3. SameRole(n)
      BY <2>1, <3>1 DEF MayCreate
    <3> QED BY <3>1, <3>2, <3>3 DEF SameRole
  <2>3. CASE step[n] # 4
    <3>1. Resource(n) # "grant"
      BY <1>1, <2>3 DEF Row, Resource
    <3>2. Found(n)
      BY <2>1, <3>1 DEF MayCreate
    <3> QED BY <1>6, <3>2 DEF Found
  <2> QED BY <2>2, <2>3
<1>8. Holds(n, all)
  BY <1>2, <1>6, <1>7 DEF Truth
<1>9. Recipe[step[n]] = "endpoint" => seen[n][1] \in services /\ endpoints[seen[n][1]] > 0
  BY <1>2, <1>8 DEF Holds
<1>10. Present(Recipe[step[n]])
  BY <1>2, <1>8, <1>9 DEF Holds, Present
<1> QED BY <1>6, <1>8, <1>10 DEF all

LEMMA PassedIsPresent ==
    ASSUME TypeOK, Place, Least, Truth, OnTrack,
           NEW n \in Node, StepOf(n), Ends(n, FALSE), n \notin faulted,
           NEW j \in 1..7, step[n] = j
    PROVE  Present(Recipe[j])'
<1>1. Row(j)
  BY RecipeFacts
<1>2. \A k \in 1..Len(seen[n]) : k < Len(Calls(n)) => seen[n][k] # 0
  BY DEF OnTrack
<1>3. CASE Nobody(n)
  <2>1. step[n] = 4 /\ Len(Calls(n)) = 4 /\ Len(seen[n]) = 3 /\ seen[n][2] = 0
    BY <1>1, <1>3, CallsAt DEF Nobody, Row, Resource
  <2> QED BY <1>2, <2>1
<1>4. CASE ~MayLookUp(n) /\ ~MayCreate(n)
  <2>1. Present(Recipe[j])
    BY <1>4, LeftIsPresent
  <2> QED BY <2>1, PresentOn
<1>5. CASE Changes(n) /\ step[n] # 7
  <2>1. MayCreate(n) /\ Effect(n)
    BY <1>5 DEF Changes
  <2>2. CASE j \in 1..4
    <3>1. j = 4 => seen[n][3] # 0
      <4> SUFFICES ASSUME j = 4 PROVE seen[n][3] # 0
        OBVIOUS
      <4>1. Len(Calls(n)) = 4 /\ Len(seen[n]) = 4
        BY <2>1, CallsAt, CreateFacts
      <4>2. 3 \in 1..Len(seen[n]) /\ 3 < Len(Calls(n))
        BY <4>1
      <4> QED BY <1>2, <4>2
    <3>2. Recipe[j] \in names'
      BY <2>1, <2>2, <3>1, EffectFacts
    <3> QED BY <1>1, <2>2, <3>2 DEF Row, Present, Unique
  <2>3. CASE j = 5
    <3>1. services' # {}
      BY <2>1, <2>3, EffectFacts
    <3> QED BY <2>3, <3>1, CallFacts DEF Present, Unique
  <2>4. CASE j = 6
    <3> DEFINE s == seen[n][1]
    <3>1. services' = services /\ s \in services
      BY <2>1, <2>4, EffectFacts, CreateFacts
    <3>2. endpoints' = [endpoints EXCEPT ![s] = @ + 1]
      BY <2>1, <2>4, EffectFacts
    <3> HIDE DEF s
    <3>3. endpoints \in [ServiceId -> Nat] /\ s \in ServiceId
      BY <3>1, IdFacts DEF TypeOK
    <3>4. endpoints'[s] > 0
      BY <3>2, <3>3
    <3> QED BY <2>4, <3>1, <3>4, CallFacts DEF Present, Unique
  <2> QED BY <1>5, <2>2, <2>3, <2>4
<1>6. CASE n \in toSave
  <2>1. step[n] = 7 /\ ec2 > 0
    BY <1>6 DEF Place
  <2>2. Present("ec2")
    BY <2>1 DEF Present, Unique
  <2> QED BY <2>1, <2>2, PresentOn, CallFacts
<1> QED BY <1>3, <1>4, <1>5, <1>6 DEF Ends, Passes

LEMMA StepOnTrack ==
    ASSUME TypeOK, Place, Least, Truth, OnTrack, NEW n \in Node, StepOf(n)
    PROVE  OnTrack'
<1> SUFFICES ASSUME NEW m \in Node, step'[m] > 0, m \notin faulted'
             PROVE  /\ \A j \in 1..(step'[m] - 1) : Present(Recipe[j])'
                    /\ \A k \in 1..Len(seen'[m]) : k < Len(Calls(m)') => seen'[m][k] # 0
  BY DEF OnTrack
<1>1. CASE m # n
  BY <1>1, OthersStay, PresentOn DEF OnTrack
<1>2. CASE m = n
  <2>1. CASE StartConverge(n) \/ Crash(n)
    <3>1. seen'[n] = <<>> /\ step'[n] \in {0, 1}
      BY <2>1 DEF StartConverge, Crash, Place, TypeOK
    <3> QED BY <1>2, <3>1
  <2>2. CASE Asks(n)
    <3>1. /\ UNCHANGED <<server, step, faulted>> /\ Calls(n)' = Calls(n) /\ step[n] \in 1..7
      BY <2>2 DEF Asks, Calls, Resource
    <3>2. \A j \in 1..(step[n] - 1) : Present(Recipe[j])
      BY <1>2, <3>1 DEF OnTrack
    <3>3. ASSUME NEW k \in 1..Len(seen'[n]), k < Len(Calls(n)) PROVE seen'[n][k] # 0
      <4>1. CASE k \in 1..Len(seen[n])
        BY <1>2, <2>2, <3>1, <3>3, <4>1, AsksFacts DEF OnTrack
      <4>2. CASE k = Len(seen[n]) + 1
        <5>1. /\ Calls(n)[k] \in Kinds \ {"endpoint", "ec2"}
              /\ \E i \in 1..(step[n] - 1) : Calls(n)[k] = Recipe[i]
          <6>1. Row(step[n])
            BY <3>1, RecipeFacts
          <6>2. Len(Calls(n)) \in 1..4
            BY <6>1 DEF Row, Calls, Resource
          <6>3. k \in 1..(Len(Calls(n)) - 1)
            <7> DEFINE all == Len(Calls(n))
            <7>1. all \in 1..4 /\ k < all /\ k \in Nat /\ k >= 1
              BY <3>3, <6>2
            <7> HIDE DEF all
            <7>2. k \in 1..(all - 1)
              BY <7>1
            <7> QED BY <7>2 DEF all
          <6> QED BY <6>1, <6>3 DEF Row, Calls, Resource
        <5>2. Present(Calls(n)[k])
          BY <3>2, <5>1
        <5> QED BY <2>2, <4>2, <5>1, <5>2, AsksFacts DEF Present, Kinds, Unique
      <4>3. Len(seen[n]) \in Nat /\ Len(seen'[n]) = Len(seen[n]) + 1
        BY <2>2, Appended
      <4> QED BY <4>1, <4>2, <4>3
    <3> QED BY <1>2, <3>1, <3>2, <3>3, PresentOn
  <2>3. CASE Issues(n)
    <3>1. UNCHANGED <<step, seen, faulted>> /\ Calls(n)' = Calls(n)
      BY <2>3 DEF Issues, Calls, Resource
    <3> QED BY <1>2, <3>1, PresentOn DEF OnTrack
  <2>4. ASSUME NEW bad \in BOOLEAN, Ends(n, bad)
        PROVE  /\ \A j \in 1..(step'[n] - 1) : Present(Recipe[j])'
               /\ \A k \in 1..Len(seen'[n]) : k < Len(Calls(n)') => seen'[n][k] # 0
    <3>1. seen'[n] = <<>> /\ ~bad /\ n \notin faulted /\ step[n] \in 1..7 /\ step'[n] = step[n] + 1
      BY <1>2, <2>4, EndFacts DEF Ends
    <3>2. \A j \in 1..7 : step[n] = j => Present(Recipe[j])'
      BY <2>4, <3>1, PassedIsPresent
    <3>3. \A j \in 1..(step[n] - 1) : Present(Recipe[j])'
      BY <3>1, PresentOn DEF OnTrack
    <3> QED BY <3>1, <3>2, <3>3
  <2> QED BY <1>2, <2>1, <2>2, <2>3, <2>4, Forms
<1> QED BY <1>1, <1>2

LEMMA StepConverged ==
    ASSUME TypeOK, Place, Least, Truth, OnTrack, ConvergedRegisters, NEW n \in Node, StepOf(n)
    PROVE  ConvergedRegisters'
<1>1. /\ names \subseteq names' /\ names' \subseteq Unique /\ services \subseteq services' /\ services \subseteq ServiceId
      /\ \A s \in ServiceId : endpoints[s] \in Nat /\ endpoints'[s] \in Nat /\ endpoints[s] <= endpoints'[s]
      /\ ec2 \in Nat /\ ec2' \in Nat /\ ec2 <= ec2'
  BY ServerGrows, IdFacts DEF TypeOK
<1>2. CASE clean' \subseteq clean
  <2> SUFFICES ASSUME NEW m \in clean
               PROVE  /\ names' = Unique
                      /\ services' # {}
                      /\ \E s \in services' : endpoints'[s] > 0
                      /\ ec2' > 0
    BY <1>2 DEF ConvergedRegisters
  <2>1. names = Unique /\ services # {} /\ ec2 > 0
    BY DEF ConvergedRegisters
  <2>2. PICK s \in services : endpoints[s] > 0
    BY DEF ConvergedRegisters
  <2>3. s \in services' /\ endpoints'[s] > 0
    BY <1>1, <2>2
  <2>4. names' = Unique /\ services' # {} /\ ec2' > 0
    <3>1. names' = Unique
      BY <1>1, <2>1
    <3>2. services' # {}
      BY <2>3
    <3>3. ec2' > 0
      BY <1>1, <2>1
    <3> QED BY <3>1, <3>2, <3>3
  <2> QED BY <2>3, <2>4
<1>3. ASSUME NEW bad \in BOOLEAN, Ends(n, bad), ~(clean' \subseteq clean)
      PROVE  ConvergedRegisters'
  <2>1. step[n] = 7 /\ ~bad /\ n \notin faulted
    BY <1>3, EndFacts DEF Ends
  <2>2. \A j \in 1..7 : Present(Recipe[j])'
    <3>1. \A j \in 1..6 : Present(Recipe[j])
      <4>1. \A j \in 1..(step[n] - 1) : Present(Recipe[j])
        BY <2>1 DEF OnTrack
      <4> QED BY <2>1, <4>1
    <3>2. \A j \in 1..6 : Present(Recipe[j])'
      BY <3>1, PresentOn
    <3>3. Present(Recipe[7])'
      <4>1. bad = FALSE
        BY <2>1
      <4>2. Ends(n, FALSE)
        BY <1>3, <4>1
      <4>3. \A j \in 1..7 : step[n] = j => Present(Recipe[j])'
        BY <2>1, <4>2, PassedIsPresent
      <4> QED BY <2>1, <4>3
    <3> QED BY <3>2, <3>3
  <2>3. /\ {"tenant", "role", "user", "grant"} \subseteq names' /\ services' # {} /\ ec2' > 0
        /\ \E s \in services' : endpoints'[s] > 0
    BY <2>2, CallFacts DEF Present, Unique
  <2>4. names' = Unique
    BY <1>1, <2>3 DEF Unique
  <2> QED BY <2>3, <2>4 DEF ConvergedRegisters
<1>4. CASE StartConverge(n) \/ Crash(n) \/ Asks(n) \/ Issues(n)
  <2>1. clean' \subseteq clean
    BY <1>4 DEF StartConverge, Crash, Asks, Issues
  <2> QED BY <1>2, <2>1
<1> QED BY <1>2, <1>3, <1>4, Forms

(* The endpoint it is about is that of the service it has found.            *)
LEMMA PassedEndpoint ==
    ASSUME TypeOK, Place, Truth, OnTrack,
           NEW n \in Node, StepOf(n), Ends(n, FALSE), n \notin faulted, step[n] = 6
    PROVE  /\ seen[n] # <<>> /\ seen[n][1] \in services
           /\ services \subseteq services' /\ endpoints'[seen[n][1]] > 0
<1> DEFINE s == seen[n][1]
<1>1. /\ Calls(n) = <<"service", "endpoint">> /\ Len(Calls(n)) = 2 /\ Calls(n)[2] = "endpoint"
      /\ Resource(n) = "endpoint" /\ Len(<<>>) = 0
  BY CallsAt, CallFacts DEF Resource
<1>2. services \subseteq services' /\ services \subseteq ServiceId
  BY ServerGrows DEF TypeOK
<1>3. CASE Changes(n)
  <2>1. seen[n] # <<>> /\ s \in services /\ endpoints' = [endpoints EXCEPT ![s] = @ + 1]
    BY <1>1, <1>3, CreateFacts, EffectFacts DEF Changes
  <2>2. endpoints \in [ServiceId -> Nat] /\ s \in ServiceId
    BY <1>2, <2>1, IdFacts DEF TypeOK
  <2> HIDE DEF s
  <2>3. endpoints'[s] > 0
    BY <2>1, <2>2
  <2> QED BY <1>2, <2>1, <2>3 DEF s
<1>4. CASE ~MayLookUp(n) /\ ~MayCreate(n)
  <2>1. Len(seen[n]) = 2 /\ Holds(n, 2)
    <3>1. step[n] \in 1..7
      OBVIOUS
    <3>2. Len(seen[n]) = Len(Calls(n)) /\ Holds(n, Len(Calls(n)))
      BY <1>4, <3>1, LeftIsPresent
    <3>3. Len(Calls(n)) = 2
      BY <1>1
    <3> QED BY <3>2, <3>3, Zenon
  <2>2. seen[n] # <<>> /\ s \in services /\ endpoints[s] > 0
    BY <1>1, <2>1 DEF Holds
  <2>3. s \in ServiceId /\ endpoints[s] \in Nat /\ endpoints'[s] \in Nat /\ endpoints[s] <= endpoints'[s]
    BY <1>2, <2>2, ServerGrows, IdFacts DEF TypeOK
  <2> QED BY <1>2, <2>2, <2>3
<1>5. ~Nobody(n) /\ n \notin toSave
  BY <1>1 DEF Nobody, Place
<1> QED BY <1>3, <1>4, <1>5 DEF Ends, Passes

(* A host does not stop owing s but by seeing to it.                        *)
LEMMA OwesOn ==
    ASSUME TypeOK, Place, Least, Truth, OnTrack, NEW n \in Node, StepOf(n),
           NEW s \in services, NEW m \in Node, Owes(m, s)
    PROVE  Owes(m, s)' \/ \E z \in services' : z <= s /\ endpoints'[z] > 0
<1>1. services \subseteq services'
  BY ServerGrows
<1>2. CASE m # n
  BY <1>1, <1>2, OthersStay DEF Owes
<1>3. CASE m = n
  <2>1. CASE StartConverge(n) \/ Crash(n)
    <3>1. step'[n] < 6 /\ n \notin clean'
      BY <1>3, <2>1 DEF StartConverge, Crash, TypeOK, Owes
    <3> QED BY <1>3, <3>1 DEF Owes
  <2>2. CASE Asks(n)
    <3>1. UNCHANGED <<server, step, clean, faulted>>
      BY <2>2 DEF Asks
    <3>2. CASE step[n] < 6 \/ n \in faulted
      BY <1>3, <3>1, <3>2 DEF Owes
    <3>3. CASE step[n] = 6 /\ seen[n] = <<>>
      <4>1. Calls(n)[1] = "service" /\ Len(seen[n]) + 1 = 1
        BY <3>3, CallsAt
      <4>2. seen'[n][1] \in services /\ seen'[n][1] <= s
        BY <2>2, <4>1, AsksFacts
      <4> QED BY <1>1, <1>3, <3>1, <3>3, <4>2 DEF Owes
    <3>4. CASE step[n] = 6 /\ seen[n] # <<>>
      <4>1. 1 \in 1..Len(seen[n])
        BY <3>4 DEF TypeOK
      <4>2. seen'[n][1] = seen[n][1]
        BY <2>2, <4>1, AsksFacts
      <4> QED BY <1>1, <1>3, <3>1, <3>4, <4>2 DEF Owes
    <3> QED BY <1>3, <3>2, <3>3, <3>4 DEF Owes
  <2>3. CASE Issues(n)
    BY <1>1, <1>3, <2>3 DEF Issues, Owes
  <2>4. ASSUME NEW bad \in BOOLEAN, Ends(n, bad)
        PROVE  Owes(m, s)' \/ \E z \in services' : z <= s /\ endpoints'[z] > 0
    <3>1. /\ step[n] \in 1..7 /\ n \notin clean /\ seen'[n] = <<>>
          /\ step'[n] = IF step[n] < 7 THEN step[n] + 1 ELSE 0
          /\ faulted' = IF bad THEN faulted \cup {n} ELSE faulted
          /\ clean' = IF step[n] < 7 \/ n \in faulted' THEN clean ELSE clean \cup {n}
      BY <1>3, <2>4, EndFacts DEF Ends, Owes
    <3>2. CASE bad \/ n \in faulted
      BY <1>3, <3>1, <3>2 DEF Owes
    <3>3. CASE step[n] < 6
      BY <1>3, <3>1, <3>3 DEF Owes
    <3>4. CASE ~bad /\ n \notin faulted /\ step[n] = 6
      <4>1. bad = FALSE
        BY <3>4
      <4>2. Ends(n, FALSE)
        BY <2>4, <4>1
      <4>3. seen[n] # <<>> /\ seen[n][1] \in services' /\ endpoints'[seen[n][1]] > 0
        BY <3>4, <4>2, PassedEndpoint
      <4>4. seen[n][1] <= s
        BY <1>3, <3>4, <4>3 DEF Owes
      <4> QED BY <4>3, <4>4
    <3> QED BY <1>3, <3>1, <3>2, <3>3, <3>4 DEF Owes
  <2> QED BY <2>1, <2>2, <2>3, <2>4, Forms
<1> QED BY <1>2, <1>3

LEMMA StepOwed ==
    ASSUME TypeOK, Place, Least, Truth, OnTrack, Owed, NEW n \in Node, StepOf(n)
    PROVE  Owed'
<1> SUFFICES ASSUME NEW s \in services'
             PROVE  \/ \E z \in services' : z <= s /\ endpoints'[z] > 0
                    \/ \E m \in Node : Owes(m, s)'
  BY DEF Owed
<1>1. CASE s \in services
  <2>1. ASSUME NEW z \in services, z <= s, endpoints[z] > 0
        PROVE  z \in services' /\ endpoints'[z] > 0
    <3>1. /\ z \in services' /\ z \in ServiceId
          /\ endpoints[z] \in Nat /\ endpoints'[z] \in Nat /\ endpoints[z] <= endpoints'[z]
      BY ServerGrows, IdFacts DEF TypeOK
    <3> QED BY <2>1, <3>1
  <2>2. CASE \E m \in Node : Owes(m, s)
    BY <1>1, <2>2, OwesOn
  <2> QED BY <1>1, <2>1, <2>2 DEF Owed
<1>2. CASE s \notin services
  <2>1. step[n] \in 1..7 /\ Changes(n)
    BY <1>2, Causes DEF server
  <2>2. step[n] = 5
    BY <1>2, <2>1, EffectFacts DEF Changes
  <2>3. PICK bad \in BOOLEAN : Ends(n, bad)
    <3>1. UNCHANGED server => services' = services
      BY DEF server
    <3>2. ~StartConverge(n) /\ ~Crash(n) /\ ~Asks(n)
      BY <1>2, <3>1 DEF StartConverge, Crash, Asks
    <3>3. ~Issues(n)
      BY <2>2 DEF Issues
    <3> QED BY <3>2, <3>3, Forms
  <2>4. step'[n] = 6 /\ seen'[n] = <<>> /\ n \notin clean'
    BY <2>2, <2>3, EndFacts DEF Place
  <2> QED BY <2>4 DEF Owes
<1> QED BY <1>1, <1>2

------------------------------------------------------------------------------
(* The settled cluster                                                      *)

LEMMA SettledCreatesNothing ==
    ASSUME TypeOK, Place, FindsAll, settled, NEW n \in Node, step[n] \in 1..7
    PROVE  ~MayCreate(n)
<1> SUFFICES ASSUME MayCreate(n) PROVE FALSE
  OBVIOUS
<1> DEFINE all == Len(Calls(n))
<1>1. all \in 1..4
  BY RecipeFacts DEF Row, Calls, Resource
<1>2. Len(seen[n]) = all
  BY CreateFacts
<1>3. \A k \in 1..Len(seen[n]) : seen[n][k] # 0
  BY DEF FindsAll
<1> HIDE DEF all
<1>4. CASE step[n] = 4
  <2>1. all = 4 /\ Resource(n) = "grant"
    BY <1>4, CallsAt, CallFacts DEF all, Resource
  <2>2. seen[n][3] # 0 /\ seen[n][4] # 0
    BY <1>2, <1>3, <2>1
  <2> QED BY <2>1, <2>2 DEF MayCreate, SameRole
<1>5. CASE step[n] # 4
  <2>1. Resource(n) # "grant"
    BY <1>5, RecipeFacts DEF Row, Resource
  <2>2. seen[n][Len(seen[n])] # 0 /\ seen[n] # <<>>
    BY <1>1, <1>2, <1>3
  <2> QED BY <2>1, <2>2 DEF MayCreate, Found
<1> QED BY <1>4, <1>5

LEMMA SettledServer ==
    ASSUME TypeOK, Place, FindsAll, settled, NEW n \in Node, StepOf(n)
    PROVE  UNCHANGED server /\ ~Issues(n)
<1>1. ~(step[n] \in 1..7 /\ Changes(n))
  BY SettledCreatesNothing DEF Changes
<1>2. step[n] = 7 => step[n] \in 1..7
  OBVIOUS
<1>3. ~Issues(n)
  BY <1>1, <1>2 DEF Issues
<1> QED BY <1>1, <1>3, Causes

LEMMA StepFindsAll ==
    ASSUME TypeOK, Place, Least, Truth, OnTrack, ConvergedRegisters, Owed, FindsAll,
           NEW n \in Node, StepOf(n)
    PROVE  FindsAll'
<1> DEFINE Finds(m) ==
             /\ \A k \in 1..Len(seen[m]) : seen[m][k] # 0
             /\ step[m] = 6 /\ seen[m] # <<>> => endpoints[seen[m][1]] > 0
<1>1. ASSUME settled PROVE FindsAll'
  <2>1. UNCHANGED server /\ UNCHANGED <<names, services, endpoints, ec2>> /\ ~Issues(n)
    BY <1>1, SettledServer DEF server
  <2>2. /\ names = Unique /\ ec2 > 0
        /\ \E s \in services : endpoints[s] > 0 /\ \A z \in services : s <= z
    BY <1>1 DEF FindsAll
  <2>3. \A m \in Node : step[m] > 0 => Finds(m)
    BY <1>1 DEF FindsAll
  <2>4. ASSUME NEW m \in Node \ {n}, step'[m] > 0 PROVE Finds(m)'
    BY <2>1, <2>3, <2>4, OthersStay
  <2>5. ASSUME seen'[n] = <<>> PROVE Finds(n)'
    BY <2>5
  <2>6. ASSUME StartConverge(n) \/ Crash(n) PROVE Finds(n)'
    <3>1. seen'[n] = <<>>
      BY <2>6 DEF StartConverge, Crash, Place, TypeOK
    <3> QED BY <2>5, <3>1
  <2>7. ASSUME NEW bad \in BOOLEAN, Ends(n, bad) PROVE Finds(n)'
    BY <2>5, <2>7, EndFacts
  <2>8. ASSUME Asks(n) PROVE Finds(n)'
    <3> DEFINE last == Len(seen[n]) + 1
               kind == Calls(n)[last]
               answer == seen'[n][last]
    <3>1. /\ step[n] \in 1..7 /\ step' = step /\ Finds(n)
      BY <2>3, <2>8 DEF Asks
    <3>2. /\ Len(seen[n]) \in Nat /\ Len(seen'[n]) = last
          /\ \A k \in 1..Len(seen[n]) : seen'[n][k] = seen[n][k]
      BY <2>8, AsksFacts DEF TypeOK
    <3>3. kind = "endpoint" => step[n] = 6 /\ seen[n] # <<>>
      BY <2>8, AsksFacts
    <3>4. answer # 0
      <4>1. kind \in Unique \/ kind \in {"service", "endpoint", "ec2"}
        BY <2>8, AsksFacts DEF Kinds, Unique
      <4>2. CASE kind \in Unique
        BY <2>2, <2>8, <4>2, AsksFacts
      <4>3. CASE kind = "service"
        BY <2>2, <2>8, <4>3, AsksFacts
      <4>4. CASE kind = "endpoint"
        BY <2>8, <3>1, <3>3, <4>4, AsksFacts
      <4>5. CASE kind = "ec2"
        BY <2>2, <2>8, <4>5, AsksFacts
      <4> QED BY <4>1, <4>2, <4>3, <4>4, <4>5
    <3>5. \A k \in 1..Len(seen'[n]) : seen'[n][k] # 0
      <4>1. \A k \in 1..Len(seen'[n]) : k \in 1..Len(seen[n]) \/ k = last
        BY <3>2
      <4> QED BY <3>1, <3>2, <3>4, <4>1
    <3>6. ASSUME step[n] = 6 PROVE endpoints[seen'[n][1]] > 0
      <4>1. CASE seen[n] = <<>>
        <5>1. Len(seen[n]) + 1 = 1 /\ Calls(n)[1] = "service"
          BY <3>6, <4>1, CallsAt
        <5>2. seen'[n][1] \in services /\ \A z \in services : seen'[n][1] <= z
          BY <2>2, <2>8, <5>1, AsksFacts
        <5>3. PICK s \in services : endpoints[s] > 0 /\ \A z \in services : s <= z
          BY <2>2
        <5>4. seen'[n][1] = s
          BY <5>2, <5>3, IdFacts DEF TypeOK
        <5> QED BY <5>3, <5>4
      <4>2. CASE seen[n] # <<>>
        <5>1. 1 \in 1..Len(seen[n])
          BY <4>2 DEF TypeOK
        <5> QED BY <3>1, <3>2, <3>6, <4>2, <5>1
      <4> QED BY <4>1, <4>2
    <3> QED BY <2>1, <3>1, <3>5, <3>6
  <2>9. step'[n] > 0 => Finds(n)'
    <3> HIDE DEF Finds
    <3> QED BY <2>1, <2>6, <2>7, <2>8, Forms
  <2>10. \A m \in Node : step'[m] > 0 => Finds(m)'
    BY <2>4, <2>9
  <2> QED BY <2>1, <2>2, <2>10 DEF FindsAll
<1>2. ASSUME ~settled, settled' PROVE FindsAll'
  <2>1. PICK bad \in BOOLEAN : Ends(n, bad)
    BY <1>2, Forms DEF StartConverge, Crash, Asks, Issues
  <2>2. clean' = Node /\ \A m \in Node : step'[m] = 0
    BY <1>2, <2>1, EndFacts
  <2>3. ConvergedRegisters' /\ Owed' /\ Least'
    BY StepConverged, StepOwed, StepLeast
  <2>4. names' = Unique /\ services' # {} /\ ec2' > 0
    BY <2>2, <2>3 DEF ConvergedRegisters
  <2>5. PICK s \in services' : \A z \in services' : s <= z
    BY <2>3, <2>4 DEF Least
  <2>6. PICK z \in services' : z <= s /\ endpoints'[z] > 0
    BY <2>2, <2>3 DEF Owed, Owes
  <2>7. z = s
    BY <2>5, <2>6, IdFacts, ServerGrows
  <2> QED BY <2>2, <2>4, <2>5, <2>6, <2>7 DEF FindsAll
<1>3. ASSUME ~settled' PROVE FindsAll'
  BY <1>3 DEF FindsAll
<1> QED BY <1>1, <1>2, <1>3

------------------------------------------------------------------------------
(* Hosts between a look-up that found nothing and the creation              *)

(* Only a look-up makes n such a host, and there is no such object then.    *)
LEMMA PendingFacts ==
    ASSUME TypeOK, Place, Least, Truth, NEW n \in Node, StepOf(n)
    PROVE  /\ AtService' \ {n} \subseteq AtService
           /\ n \in AtService' => services' = {}
           /\ \A s \in ServiceId : AtEndpoint(s)' \ {n} \subseteq AtEndpoint(s)
           /\ \A s \in ServiceId : n \in AtEndpoint(s)' => endpoints'[s] = 0
           /\ AtEc2' \ {n} \subseteq AtEc2
           /\ n \in AtEc2' => ec2' = 0
<1>1. /\ AtService' \ {n} \subseteq AtService
      /\ \A s \in ServiceId : AtEndpoint(s)' \ {n} \subseteq AtEndpoint(s)
      /\ AtEc2' \ {n} \subseteq AtEc2
  BY OthersStay DEF AtService, AtEndpoint, AtEc2
<1>2. ASSUME ~Asks(n)
      PROVE  n \notin AtService' /\ n \notin AtEc2' /\ \A s \in ServiceId : n \notin AtEndpoint(s)'
  <2>1. CASE seen'[n] = <<>>
    <3>1. Len(seen'[n]) = 0 /\ seen'[n] # <<0>>
      BY <2>1
    <3> QED BY <3>1 DEF AtService, AtEndpoint, AtEc2
  <2>2. CASE Issues(n)
    BY <2>2 DEF Issues, AtService, AtEndpoint, AtEc2
  <2>3. CASE StartConverge(n) \/ Crash(n)
    <3>1. seen'[n] = <<>>
      BY <2>3 DEF StartConverge, Crash, Place, TypeOK
    <3> QED BY <2>1, <3>1
  <2> QED BY <1>2, <2>1, <2>2, <2>3, EndFacts, Forms
<1>3. ASSUME Asks(n)
      PROVE  /\ n \in AtService' => services' = {}
             /\ \A s \in ServiceId : n \in AtEndpoint(s)' => endpoints'[s] = 0
             /\ n \in AtEc2' => ec2' = 0
  <2> DEFINE before == Len(seen[n])
             after  == Len(seen'[n])
  <2>1. UNCHANGED <<step, services, endpoints, ec2>>
    BY <1>3 DEF Asks, server
  <2>2. before \in Nat
    BY DEF TypeOK
  <2>3. after = before + 1 /\ seen'[n] \in Seq(ServiceId \cup {0, 1})
    BY <1>3, AsksFacts
  <2>4. ASSUME n \in AtService' PROVE services = {}
    <3>1. step[n] = 5 /\ after = 1 /\ seen'[n][1] = 0
      BY <2>1, <2>4 DEF AtService
    <3> HIDE DEF before, after
    <3>2. before = 0 /\ before + 1 = 1
      BY <2>2, <2>3, <3>1
    <3>3. Len(seen[n]) + 1 = 1 /\ Calls(n)[1] = "service"
      BY <3>1, <3>2, CallsAt DEF before
    <3> QED BY <1>3, <3>1, <3>3, AsksFacts
  <2>5. ASSUME NEW s \in ServiceId, n \in AtEndpoint(s)' PROVE endpoints[s] = 0
    <3>1. step[n] = 6 /\ after = 2 /\ seen'[n][1] = s /\ seen'[n][2] = 0
      BY <2>1, <2>5 DEF AtEndpoint
    <3> HIDE DEF before, after
    <3>2. before = 1 /\ before + 1 = 2
      BY <2>2, <2>3, <3>1
    <3>3. Len(seen[n]) + 1 = 2 /\ 1 \in 1..Len(seen[n]) /\ Calls(n)[2] = "endpoint"
      BY <3>1, <3>2, CallsAt DEF before
    <3>4. seen[n][1] = s /\ ~(endpoints[s] > 0)
      BY <1>3, <3>1, <3>3, AsksFacts
    <3>5. endpoints[s] \in Nat
      BY IdFacts DEF TypeOK
    <3> QED BY <3>4, <3>5
  <2>6. ASSUME n \in AtEc2' PROVE ec2 = 0
    <3>1. step[n] = 7 /\ after = 3 /\ seen'[n][3] = 0
      BY <2>1, <2>6 DEF AtEc2
    <3> HIDE DEF before, after
    <3>2. before = 2 /\ before + 1 = 3
      BY <2>2, <2>3, <3>1
    <3>3. Len(seen[n]) + 1 = 3 /\ Calls(n)[3] = "ec2"
      BY <3>1, <3>2, CallsAt DEF before
    <3>4. ~(ec2 > 0) /\ ec2 \in Nat
      BY <1>3, <3>1, <3>3, AsksFacts, IdFacts DEF TypeOK
    <3> QED BY <3>4
  <2> QED BY <2>1, <2>4, <2>5, <2>6
<1> QED BY <1>1, <1>2, <1>3

(* A host that creates was such a host.                                     *)
LEMMA CreatorWasPending ==
    ASSUME TypeOK, Place, NEW n \in Node, step[n] \in 1..7, Changes(n)
    PROVE  /\ step[n] = 5 => n \in AtService
           /\ step[n] = 6 => seen[n][1] \in ServiceId /\ n \in AtEndpoint(seen[n][1])
           /\ step[n] = 7 => n \in AtEc2
BY CreateFacts DEF Changes, AtService, AtEndpoint, AtEc2, TypeOK

------------------------------------------------------------------------------
(* Hosts that take turns                                                    *)

LEMMA StepTakingTurns ==
    ASSUME TypeOK, Place, Least, Truth, TakingTurns, NEW n \in Node, StepOf(n)
    PROVE  TakingTurns'
<1> SUFFICES ASSUME ~raced' PROVE TakingTurns'
  BY DEF TakingTurns
<1>1. ~raced /\ (StartConverge(n) => \A m \in Node : ~(step[m] > 0))
  <2>1. CASE StartConverge(n)
    BY <2>1, Zenon DEF StartConverge
  <2>2. CASE ~StartConverge(n)
    <3>1. raced' = raced
      BY <2>2 DEF StepOf, LookUp, LookUpGrantOfNobody, Leave, Create, SaveNode, Crash, starts
    <3> QED BY <2>2, <3>1
  <2> QED BY <2>1, <2>2
<1>2. /\ \A m, k \in Node : step[m] > 0 /\ step[k] > 0 => m = k
      /\ \A s, z \in services : s = z
      /\ \A s \in ServiceId : endpoints[s] <= 1
      /\ ec2 <= 1
      /\ n \in AtService => services = {}
      /\ \A s \in ServiceId : n \in AtEndpoint(s) => endpoints[s] = 0
      /\ n \in AtEc2 => ec2 = 0
  BY <1>1 DEF TakingTurns, AtService, AtEndpoint, AtEc2
<1>3. \A m \in Node \ {n} : ~(step'[m] > 0)
  <2>1. StartConverge(n) \/ step[n] > 0
    <3>1. Asks(n) \/ Ends(n, TRUE) \/ Ends(n, FALSE) => step[n] \in 1..7
      BY DEF Asks, Ends
    <3>2. Issues(n) => step[n] = 7
      BY DEF Issues
    <3>3. Crash(n) => step[n] > 0
      BY DEF Crash
    <3>4. StartConverge(n) \/ step[n] > 0 \/ step[n] = 7 \/ step[n] \in 1..7
      BY <3>1, <3>2, <3>3, Forms
    <3> QED BY <3>4
  <2>2. \A m \in Node \ {n} : ~(step[m] > 0)
    <3>1. CASE StartConverge(n)
      BY <1>1, <3>1
    <3>2. CASE step[n] > 0
      BY <1>2, <3>2
    <3> QED BY <2>1, <3>1, <3>2
  <2> QED BY <2>2, OthersStay
<1>4. /\ \A s, z \in services' : s = z
      /\ \A s \in ServiceId : endpoints'[s] <= 1
      /\ ec2' <= 1
  <2>1. CASE UNCHANGED server
    BY <1>2, <2>1 DEF server
  <2>2. CASE step[n] \in 1..7 /\ Changes(n)
    <3>1. Effect(n)
      BY <2>2 DEF Changes
    <3>2. \A s, z \in services' : s = z
      <4>1. CASE step[n] = 5
        <5>1. services = {}
          BY <1>2, <2>2, <4>1, CreatorWasPending
        <5> QED BY <2>2, <3>1, <4>1, <5>1, EffectFacts
      <4>2. CASE step[n] # 5
        BY <1>2, <2>2, <3>1, <4>2, EffectFacts
      <4> QED BY <4>1, <4>2
    <3>3. \A s \in ServiceId : endpoints'[s] <= 1
      <4>1. CASE step[n] = 6
        <5> DEFINE x == seen[n][1]
        <5>1. x \in ServiceId /\ endpoints[x] = 0
          BY <1>2, <2>2, <4>1, CreatorWasPending
        <5>2. endpoints' = [endpoints EXCEPT ![x] = @ + 1]
          BY <2>2, <3>1, <4>1, EffectFacts
        <5> HIDE DEF x
        <5>3. endpoints \in [ServiceId -> Nat]
          BY IdFacts DEF TypeOK
        <5> QED BY <1>2, <5>1, <5>2, <5>3
      <4>2. CASE step[n] # 6
        BY <1>2, <2>2, <3>1, <4>2, EffectFacts
      <4> QED BY <4>1, <4>2
    <3>4. ec2' <= 1
      <4>1. CASE step[n] = 7
        <5>1. ec2 = 0
          BY <1>2, <2>2, <4>1, CreatorWasPending
        <5> QED BY <2>2, <3>1, <4>1, <5>1, EffectFacts
      <4>2. CASE step[n] # 7
        BY <1>2, <2>2, <3>1, <4>2, EffectFacts
      <4> QED BY <4>1, <4>2
    <3> QED BY <3>2, <3>3, <3>4
  <2> QED BY <2>1, <2>2, Causes
<1>5. ASSUME NEW m \in Node
      PROVE  /\ step'[m] = 5 /\ seen'[m] = <<0>> => services' = {}
             /\ step'[m] = 6 /\ Len(seen'[m]) = 2 /\ seen'[m][2] = 0 => endpoints'[seen'[m][1]] = 0
             /\ step'[m] = 7 /\ Len(seen'[m]) = 3 /\ seen'[m][3] = 0 /\ m \notin toSave' => ec2' = 0
  <2>1. CASE m # n
    BY <1>3, <2>1
  <2>2. CASE m = n
    <3>1. step'[n] = 6 /\ Len(seen'[n]) = 2 => seen'[n][1] \in ServiceId
      BY StepPlace, ServerGrows DEF Place
    <3> QED BY <2>2, <3>1, PendingFacts DEF AtService, AtEndpoint, AtEc2
  <2> QED BY <2>1, <2>2
<1> QED BY <1>3, <1>4, <1>5 DEF TakingTurns

------------------------------------------------------------------------------
(* No more objects than hosts                                               *)

(* c objects and the hosts of P that are each about to create another:      *)
(* there is still room when a host of P does, or joins because there are    *)
(* none.                                                                    *)
LEMMA Room ==
    ASSUME NEW c \in Nat, NEW d \in Nat, NEW P \in SUBSET Node, NEW Q \in SUBSET Node,
           NEW n \in Node,
           c + Cardinality(P) <= Cardinality(Node),
           Q \ {n} \subseteq P, n \in Q => d = 0,
           d = c \/ (d = c + 1 /\ n \in P)
    PROVE  d + Cardinality(Q) <= Cardinality(Node)
<1> DEFINE p == Cardinality(P)
           q == Cardinality(Q)
           N == Cardinality(Node)
<1>1. /\ IsFiniteSet(P) /\ p \in Nat
      /\ q \in Nat /\ q <= N
      /\ N \in Nat
  BY RegisterAssumption, FS_Subset, FS_CardinalityType
<1>2. CASE n \in Q
  <2>1. d = 0
    BY <1>2
  <2> HIDE DEF q, N
  <2>2. d + q <= N
    BY <1>1, <2>1
  <2> QED BY <2>2 DEF q, N
<1>3. CASE n \notin Q
  <2>1. Q \subseteq P
    BY <1>3
  <2>2. q <= p
    BY <1>1, <2>1, FS_Subset
  <2>3. c + p <= N
    OBVIOUS
  <2>4. CASE d = c
    <3> HIDE DEF p, q, N
    <3>1. d + q <= N
      BY <1>1, <2>2, <2>3, <2>4
    <3> QED BY <3>1 DEF q, N
  <2>5. CASE d = c + 1 /\ n \in P
    <3>1. IsFiniteSet(P \ {n}) /\ Cardinality(P \ {n}) = p - 1
      BY <1>1, <2>5, FS_RemoveElement
    <3>2. Q \subseteq P \ {n}
      BY <1>3, <2>1
    <3>3. q <= p - 1
      BY <3>1, <3>2, FS_Subset
    <3> HIDE DEF p, q, N
    <3>4. d + q <= N
      BY <1>1, <2>3, <2>5, <3>3
    <3> QED BY <3>4 DEF q, N
  <2> QED BY <2>4, <2>5
<1> QED BY <1>2, <1>3

LEMMA IdsFinite ==
    /\ IsFiniteSet(ServiceId) /\ Cardinality(ServiceId) = Cardinality(Node)
    /\ \A S \in SUBSET ServiceId : IsFiniteSet(S) /\ Cardinality(S) \in Nat
<1>1. Cardinality(Node) \in Nat
  BY IdFacts
<1>2. IsFiniteSet(ServiceId) /\ Cardinality(ServiceId) = Cardinality(Node)
  BY <1>1, FS_Interval DEF ServiceId
<1> QED BY <1>2, FS_Subset, FS_CardinalityType

LEMMA StepCounted ==
    ASSUME TypeOK, Place, Least, Truth, Counted, NEW n \in Node, StepOf(n)
    PROVE  Counted'
<1> USE DEF AtService, AtEndpoint, AtEc2
<1>0. UNCHANGED server \/ (step[n] \in 1..7 /\ Changes(n) /\ Effect(n))
  BY Causes DEF Changes
<1>1. Cardinality(services') + Cardinality(AtService') <= Cardinality(Node)
  <2> HIDE DEF AtService
  <2>1. /\ Cardinality(services) \in Nat /\ Cardinality(services') \in Nat
        /\ IsFiniteSet(services)
    BY ServerGrows, IdsFinite DEF TypeOK
  <2>2. \/ Cardinality(services') = Cardinality(services)
        \/ Cardinality(services') = Cardinality(services) + 1 /\ n \in AtService
    <3>1. CASE UNCHANGED server
      BY <3>1 DEF server
    <3>2. CASE step[n] \in 1..7 /\ Changes(n) /\ Effect(n) /\ step[n] # 5
      <4>1. services' = services
        BY <3>2, EffectFacts
      <4> QED BY <4>1
    <3>3. CASE step[n] \in 1..7 /\ Changes(n) /\ Effect(n) /\ step[n] = 5
      <4>1. PICK s \in ServiceId \ services : services' = services \cup {s}
        BY <3>3, EffectFacts
      <4>2. n \in AtService
        BY <3>3, CreatorWasPending
      <4> QED BY <2>1, <4>1, <4>2, FS_AddElement
    <3> QED BY <1>0, <3>1, <3>2, <3>3
  <2>3. AtService' \ {n} \subseteq AtService /\ (n \in AtService' => Cardinality(services') = 0)
    BY PendingFacts, FS_EmptySet
  <2>4. AtService \in SUBSET Node /\ AtService' \in SUBSET Node
    BY DEF AtService
  <2> QED BY <2>1, <2>2, <2>3, <2>4, Room DEF Counted
<1>2. ASSUME NEW s \in ServiceId
      PROVE  endpoints'[s] + Cardinality(AtEndpoint(s)') <= Cardinality(Node)
  <2> HIDE DEF AtEndpoint
  <2>1. endpoints \in [ServiceId -> Nat] /\ endpoints[s] \in Nat /\ endpoints'[s] \in Nat
    BY ServerGrows, IdFacts DEF TypeOK
  <2>2. \/ endpoints'[s] = endpoints[s]
        \/ endpoints'[s] = endpoints[s] + 1 /\ n \in AtEndpoint(s)
    <3>1. CASE UNCHANGED server
      BY <3>1 DEF server
    <3>2. CASE step[n] \in 1..7 /\ Changes(n) /\ Effect(n) /\ step[n] # 6
      BY <3>2, EffectFacts
    <3>3. CASE step[n] \in 1..7 /\ Changes(n) /\ Effect(n) /\ step[n] = 6
      <4>1. endpoints' = [endpoints EXCEPT ![seen[n][1]] = @ + 1]
        BY <3>3, EffectFacts
      <4>2. endpoints'[s] = IF s = seen[n][1] THEN endpoints[s] + 1 ELSE endpoints[s]
        BY <2>1, <4>1, Bump
      <4>3. n \in AtEndpoint(seen[n][1])
        BY <3>3, CreatorWasPending
      <4> QED BY <4>2, <4>3
    <3> QED BY <1>0, <3>1, <3>2, <3>3
  <2>3. /\ AtEndpoint(s)' \ {n} \subseteq AtEndpoint(s)
        /\ n \in AtEndpoint(s)' => endpoints'[s] = 0
    BY PendingFacts
  <2>4. AtEndpoint(s) \in SUBSET Node /\ AtEndpoint(s)' \in SUBSET Node
    BY DEF AtEndpoint
  <2>5. endpoints[s] + Cardinality(AtEndpoint(s)) <= Cardinality(Node)
    BY DEF Counted
  <2> QED BY <2>1, <2>2, <2>3, <2>4, <2>5, Room
<1>3. ec2' + Cardinality(AtEc2') <= Cardinality(Node)
  <2> HIDE DEF AtEc2
  <2>1. ec2 \in Nat /\ ec2' \in Nat
    BY ServerGrows, IdFacts DEF TypeOK
  <2>2. ec2' = ec2 \/ (ec2' = ec2 + 1 /\ n \in AtEc2)
    <3>1. CASE UNCHANGED server
      BY <3>1 DEF server
    <3>2. CASE step[n] \in 1..7 /\ Changes(n) /\ Effect(n)
      BY <3>2, EffectFacts, CreatorWasPending
    <3> QED BY <1>0, <3>1, <3>2
  <2>3. AtEc2' \ {n} \subseteq AtEc2 /\ (n \in AtEc2' => ec2' = 0)
    BY PendingFacts
  <2>4. AtEc2 \in SUBSET Node /\ AtEc2' \in SUBSET Node
    BY DEF AtEc2
  <2> QED BY <2>1, <2>2, <2>3, <2>4, Room DEF Counted
<1> HIDE DEF AtService, AtEndpoint, AtEc2
<1> QED BY <1>1, <1>2, <1>3 DEF Counted

(* With the room that is counted the model's finite types are never left.   *)
LEMMA StepTypeOK ==
    ASSUME TypeOK, Place, Least, Truth, Counted, NEW n \in Node, StepOf(n)
    PROVE  TypeOK'
<1>1. Counted' /\ Place'
  BY StepCounted, StepPlace
<1>2. /\ \A s \in ServiceId : endpoints'[s] \in Nat /\ endpoints'[s] <= Cardinality(Node)
      /\ ec2' \in Nat /\ ec2' <= Cardinality(Node)
  <2>1. \A s \in ServiceId : Cardinality(AtEndpoint(s)') \in Nat
    BY RegisterAssumption, FS_Subset, FS_CardinalityType DEF AtEndpoint
  <2>2. Cardinality(AtEc2') \in Nat
    BY RegisterAssumption, FS_Subset, FS_CardinalityType DEF AtEc2
  <2>3. (\A s \in ServiceId : endpoints'[s] \in Nat) /\ ec2' \in Nat /\ Cardinality(Node) \in Nat
    BY ServerGrows, IdFacts
  <2> QED BY <1>1, <2>1, <2>2, <2>3 DEF Counted
<1>3. endpoints' \in [ServiceId -> 0..Cardinality(Node)] /\ ec2' \in 0..Cardinality(Node)
  BY <1>2, ServerGrows, IdFacts
<1>4. ASSUME NEW m \in Node PROVE Len(seen'[m]) <= 4
  <2>1. step'[m] \in 0..7
    BY StepTypes, CallFacts
  <2>2. CASE step'[m] = 0
    <3>1. seen'[m] = <<>>
      BY <1>1, <2>2 DEF Place
    <3> QED BY <3>1
  <2>3. CASE step'[m] \in 1..7
    <3>1. Row(step'[m])
      BY <2>3, RecipeFacts
    <3>2. Len(Calls(m)') \in 1..4
      BY <3>1 DEF Row, Calls, Resource
    <3> DEFINE all   == Len(Calls(m)')
               after == Len(seen'[m])
    <3>3. after <= all /\ after \in Nat /\ all \in 1..4
      BY <1>1, <2>3, <3>2, StepTypes DEF Place
    <3> HIDE DEF all, after
    <3>4. after <= 4
      BY <3>3
    <3> QED BY <3>4 DEF after
  <2> QED BY <2>1, <2>2, <2>3
<1> QED BY <1>3, <1>4, ServerGrows, StepTypes DEF TypeOK

------------------------------------------------------------------------------
LEMMA InitIInv == Init => IInv
<1> SUFFICES ASSUME Init PROVE IInv
  OBVIOUS
<1> USE DEF Init
<1>0. Cardinality(Node) \in Nat /\ MaxConverges \in Nat /\ MaxFaults \in Nat /\ Len(<<>>) = 0
      /\ <<>> \in Seq(ServiceId \cup {0, 1})
  BY IdFacts, RegisterAssumption
<1>1. TypeOK
  <2>1. endpoints \in [ServiceId -> 0..Cardinality(Node)] /\ ec2 \in 0..Cardinality(Node)
    BY <1>0
  <2>2. faults \in 0..MaxFaults /\ converges \in 0..MaxConverges
    BY <1>0
  <2>3. step \in [Node -> 0..Len(Recipe)]
    BY CallFacts
  <2>4. seen \in [Node -> Seq(ServiceId \cup {0, 1})] /\ \A n \in Node : Len(seen[n]) <= 4
    BY <1>0
  <2> QED BY <2>1, <2>2, <2>3, <2>4 DEF TypeOK
<1>2. Place /\ Least /\ Truth /\ OnTrack
  BY <1>0 DEF Place, Least, Truth, OnTrack
<1>3. ConvergedRegisters /\ Owed /\ FindsAll
  BY DEF ConvergedRegisters, Owed, FindsAll
<1>4. TakingTurns
  BY <1>0 DEF TakingTurns
<1>5. Counted
  <2>1. /\ AtService = {} /\ AtEc2 = {} /\ \A s \in ServiceId : AtEndpoint(s) = {}
        /\ services = {} /\ ec2 = 0 /\ \A s \in ServiceId : endpoints[s] = 0
    BY DEF AtService, AtEndpoint, AtEc2
  <2> HIDE DEF Init
  <2>2. /\ Cardinality(services) = 0 /\ Cardinality(AtService) = 0 /\ Cardinality(AtEc2) = 0
        /\ \A s \in ServiceId : Cardinality(AtEndpoint(s)) = 0
    BY <2>1, FS_EmptySet
  <2> QED BY <1>0, <2>1, <2>2 DEF Counted
<1> QED BY <1>1, <1>2, <1>3, <1>4, <1>5 DEF IInv

LEMMA NextIInv == IInv /\ [Next]_vars => IInv'
<1> SUFFICES ASSUME IInv, [Next]_vars PROVE IInv'
  OBVIOUS
<1>1. CASE UNCHANGED vars
  <2>1. /\ UNCHANGED <<names, services, endpoints, ec2, faults, converges, raced>>
        /\ UNCHANGED <<step, seen, saved, toSave, granted, clean, faulted, settled>>
    BY <1>1 DEF vars, server, starts
  <2> USE DEF IInv
  <2>2. TypeOK'
    BY <2>1 DEF TypeOK
  <2>3. Place' /\ Least' /\ Truth' /\ OnTrack'
    BY <2>1 DEF Place, Least, Truth, Holds, OnTrack, Present, Calls, Resource
  <2>4. ConvergedRegisters' /\ Owed' /\ FindsAll'
    BY <2>1 DEF ConvergedRegisters, Owed, Owes, FindsAll
  <2>5. TakingTurns' /\ Counted'
    BY <2>1 DEF TakingTurns, Counted, AtService, AtEndpoint, AtEc2
  <2> QED BY <2>2, <2>3, <2>4, <2>5
<1>2. ASSUME NEW n \in Node, StepOf(n) PROVE IInv'
  BY <1>2, StepTypeOK, StepPlace, StepLeast, StepTruth, StepOnTrack, StepConverged, StepOwed,
     StepFindsAll, StepTakingTurns, StepCounted DEF IInv
<1> QED BY <1>1, <1>2 DEF Next, StepOf

(* The invariant holds of the recipe on any hosts, however they interleave, *)
(* fail and die.                                                            *)
THEOREM Inductive == Spec => []IInv
BY InitIInv, NextIInv, PTL DEF Spec

------------------------------------------------------------------------------
(* The theorems                                                             *)

(* Type correctness of IdentityRegister: as many service ids as there are   *)
(* hosts suffice, and there are never more endpoints of one service, or     *)
(* credentials of the user, than that.                                      *)
THEOREM TypeCorrect == Spec => []TypeOK
<1>1. IInv => TypeOK
  BY DEF IInv
<1> QED BY <1>1, Inductive, PTL

(* Whatever other hosts do, however they fail or die, a run none of whose   *)
(* calls failed by itself leaves all behind that the recipe is to register. *)
THEOREM ConvergedRegister == Spec => []ConvergedRegisters
<1>1. IInv => ConvergedRegisters
  BY DEF IInv
<1> QED BY <1>1, Inductive, PTL

(* Runs that take turns register one service with one endpoint, and one EC2 *)
(* credential, after crashes and failed calls too.                          *)
THEOREM TurnsRegisterOnce == Spec => []NothingTwice
<1>1. IInv => NothingTwice
  <2> SUFFICES ASSUME IInv, ~raced
               PROVE  /\ Cardinality(services) <= 1
                      /\ \A s \in ServiceId : endpoints[s] <= 1
                      /\ ec2 <= 1
    BY DEF NothingTwice
  <2>1. /\ \A s, z \in services : s = z
        /\ \A s \in ServiceId : endpoints[s] <= 1
        /\ ec2 <= 1
    BY DEF IInv, TakingTurns
  <2>2. Cardinality(services) <= 1
    <3>1. services = {} \/ \E s \in services : services = {s}
      BY <2>1
    <3>2. Cardinality(services) = 0 \/ Cardinality(services) = 1
      BY <3>1, FS_EmptySet, FS_Singleton
    <3> QED BY <3>2
  <2> QED BY <2>1, <2>2
<1> QED BY <1>1, Inductive, PTL

(* A host that is about to create a service finds an id Keystone has not    *)
(* given yet: the bound on ids keeps no host from a step it would take.     *)
IdIsFree ==
    \A n \in Node : step[n] = 5 /\ n \notin toSave /\ MayCreate(n) => ServiceId \ services # {}

THEOREM IdsSuffice == Spec => []IdIsFree
<1>1. IInv => IdIsFree
  <2> SUFFICES ASSUME IInv, NEW n \in Node, step[n] = 5, MayCreate(n), services = ServiceId
               PROVE  FALSE
    BY DEF IInv, TypeOK, IdIsFree
  <2>1. n \in AtService
    BY CreateFacts DEF IInv, AtService
  <2>2. IsFiniteSet(AtService) /\ Cardinality(AtService) \in Nat
    BY RegisterAssumption, FS_Subset, FS_CardinalityType DEF AtService
  <2>3. Cardinality(AtService) # 0
    BY <2>1, <2>2, FS_EmptySet
  <2> DEFINE N == Cardinality(Node)
             p == Cardinality(AtService)
  <2>4. N + p <= N /\ N \in Nat
    BY IdsFinite, IdFacts DEF IInv, Counted
  <2>5. p \in Nat /\ p # 0
    BY <2>2, <2>3
  <2> HIDE DEF N, p
  <2> QED BY <2>4, <2>5
<1> QED BY <1>1, Inductive, PTL

(* Once every host has been through the recipe without a failed call, no    *)
(* later run changes anything in Keystone: with the duplicates of the first *)
(* runs or without.                                                         *)
THEOREM SettledStable == Spec => SettledIsStable
<1>1. IInv /\ [Next]_vars => (settled => UNCHANGED server)
  <2> SUFFICES ASSUME IInv, [Next]_vars, settled PROVE UNCHANGED server
    OBVIOUS
  <2>1. CASE UNCHANGED vars
    BY <2>1 DEF vars
  <2>2. ASSUME NEW n \in Node, StepOf(n) PROVE UNCHANGED server
    BY <2>2, SettledServer DEF IInv
  <2> QED BY <2>1, <2>2 DEF Next, StepOf
<1> QED BY <1>1, Inductive, PTL DEF Spec, SettledIsStable

LEMMA OrphanedOn ==
    ASSUME IInv, Orphaned, NEW n \in Node, StepOf(n)
    PROVE  Orphaned'
<1> USE DEF IInv
<1>1. ec2' > 0
  BY ServerGrows, IdFacts DEF Orphaned, TypeOK
<1>2. ~Issues(n)
  BY CallFacts DEF Orphaned, Issues, Changes, Resource
<1>3. saved' = {} /\ toSave' = {}
  <2>1. saved' = {}
    BY DEF StepOf, StartConverge, LookUp, LookUpGrantOfNobody, Leave, Create, SaveNode, Crash, Orphaned
  <2>2. toSave' = {}
    BY <1>2, Forms DEF StartConverge, Crash, Asks, Ends, Orphaned
  <2> QED BY <2>1, <2>2
<1>4. ASSUME NEW m \in Node, step'[m] > 0, Resource(m)' = "ec2", MayCreate(m)' PROVE FALSE
  <2>1. CASE m # n
    <3>1. /\ step[m] > 0 /\ Resource(m) = "ec2"
          /\ seen'[m] = seen[m] /\ Calls(m)' = Calls(m) /\ Resource(m)' = Resource(m)
      BY <1>4, <2>1, OthersStay DEF Resource
    <3>2. MayCreate(m)
      BY <1>4, <3>1 DEF MayCreate, LookedUp, Found, SameRole
    <3> QED BY <3>1, <3>2 DEF Orphaned
  <2>2. CASE m = n
    <3>1. step'[n] = 7
      <4>1. step'[n] \in 1..7
        BY <1>4, <2>2, StepTypes, CallFacts
      <4>2. Row(step'[n])
        BY <4>1, RecipeFacts
      <4> QED BY <1>4, <2>2, <4>2 DEF Row, Resource
    <3>2. Calls(n)' = <<"tenant", "user", "ec2">> /\ Len(Calls(n)') = 3
      BY <3>1, CallFacts DEF Calls, Resource
    <3>3. Len(seen'[n]) = 3 /\ seen'[n][3] = 0
      <4>1. Len(seen'[n]) = 3
        BY <1>4, <2>2, <3>2 DEF MayCreate, LookedUp
      <4>2. seen'[n] # <<>> /\ seen'[n][Len(seen'[n])] = 0
        BY <1>4, <2>2, <4>1 DEF MayCreate, Found
      <4> QED BY <4>1, <4>2
    <3>4. n \in AtEc2'
      BY <1>3, <3>1, <3>3 DEF AtEc2
    <3>5. ec2' = 0
      BY <3>4, PendingFacts
    <3> QED BY <1>1, <3>5
  <2> QED BY <2>1, <2>2
<1> QED BY <1>1, <1>3, <1>4 DEF Orphaned

(* Credentials whose host died before it saved them are saved by no later   *)
(* run of any host.                                                         *)
THEOREM OrphansStay == Spec => OrphanedCredentialsStay
<1>1. IInv /\ [Next]_vars => (Orphaned => Orphaned')
  <2> SUFFICES ASSUME IInv, [Next]_vars, Orphaned PROVE Orphaned'
    OBVIOUS
  <2>1. CASE UNCHANGED vars
    BY <2>1 DEF vars, server, Orphaned, Resource, Calls, MayCreate, LookedUp, Found, SameRole
  <2>2. ASSUME NEW n \in Node, StepOf(n) PROVE Orphaned'
    BY <2>2, OrphanedOn
  <2> QED BY <2>1, <2>2 DEF Next, StepOf
<1> QED BY <1>1, Inductive, PTL DEF Spec, OrphanedCredentialsStay
==============================================================================
