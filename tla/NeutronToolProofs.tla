-------------------------- MODULE NeutronToolProofs --------------------------
(***************************************************************************)
(* Proofs about two functions of neutron-ha-tool.py: L3Rebalance, for any  *)
(* agents, routers, order of the list and number of misbehaving calls, and *)
(* for any agents, networks and instances of the tool, DhcpReplicate.      *)
(***************************************************************************)
EXTENDS L3Rebalance, DhcpReplicate, FiniteSetTheorems, TLAPS

------------------------------------------------------------------------------
(* The inductive invariant                                                  *)

InPair == pc \in {"routers", "remove", "add"}

(* The for loop: i keeps up with the turns unless it is stuck in the middle *)
(* of an odd list.                                                          *)
Loop ==
    /\ pc = "idle" /\ agentsLeft = Agent /\ N > 1 => turn = 0 /\ i = 0
    /\ pc = "list" => turn = 0 /\ i = 0
    /\ pc = "pair" => i <= turn /\ (N % 2 = 0 => i = turn)
    /\ InPair => i + 1 <= turn /\ (N % 2 = 0 => i + 1 = turn) /\ LowAgent # HghAgent
    /\ pc \in {"remove", "add"} => lowCount < hghCount /\ routerId \in Router

(* Nothing has moved yet: the lists are what the agents have.               *)
Listed ==
    /\ pc = "list" => \A a \in Agent \ agentsLeft : l3AgentDict[a] = RoutersOn(a)
    /\ pc = "pair" \/ InPair => agentsLeft = {}

Mirror(k) == N + 1 - k

Had(k) == Cardinality(l3AgentDict[ordered[k]])

(* The agent at k had more routers than its partner: the turn with i = N - k *)
(* moves some, and the other turn of the pair none.                          *)
Full(k) == Had(k) > Had(Mirror(k))

AsListed(k) == RoutersOn(ordered[k]) = l3AgentDict[ordered[k]]

Current(k) == InPair /\ i = N - k

(* The pair of the turn, its routers on the way.                            *)
Moving ==
    /\ lowCount = Count(LowAgent)
    /\ routerId \notin routersLeft \/ pc = "routers"
    /\ pc = "routers" => /\ RoutersOn(HghAgent) = routersLeft
                         /\ hghCount = Cardinality(routersLeft)
                         /\ lowCount <= hghCount + 1
    /\ pc = "remove" => /\ RoutersOn(HghAgent) = routersLeft \cup {routerId}
                        /\ hghCount = Cardinality(routersLeft) + 1
    /\ pc = "add" => /\ RoutersOn(HghAgent) = routersLeft
                     /\ hghCount = Cardinality(routersLeft) + 1
                     /\ host[routerId] = NoAgent

(* A pair is as it was listed, then on the way, then level.                 *)
Pair(k) ==
    IF Full(k) /\ i > N - k THEN Level(ordered[k], ordered[Mirror(k)])
    ELSE IF Full(k) /\ Current(k) THEN Moving
    ELSE AsListed(k) /\ AsListed(Mirror(k))

Pairs ==
    faults = 0 /\ (pc = "pair" \/ InPair) =>
       \A k \in 1..N : ~Full(Mirror(k)) => Pair(k)

(* The turn in which the fuller agent is the low one finds nothing to do.   *)
NothingToMove ==
    InPair /\ ~Full(N - i) => pc = "routers" /\ lowCount >= hghCount

IInv ==
    /\ TypeOK
    /\ Loop
    /\ Listed
    /\ UnhostedIsExplained
    /\ NothingToMove
    /\ Pairs

------------------------------------------------------------------------------
(* Agents, routers and the order of the list                                *)

LEMMA Sizes ==
    /\ N \in Nat
    /\ \A S \in SUBSET Router : IsFiniteSet(S) /\ Cardinality(S) \in Nat
                               /\ Cardinality(S) <= Cardinality(Router)
    /\ Cardinality(Router) \in Nat
<1>1. \A S \in SUBSET Router : IsFiniteSet(S) /\ Cardinality(S) <= Cardinality(Router)
  BY ServerAssumption, FS_Subset
<1> QED BY <1>1, ServerAssumption, FS_CardinalityType DEF N

LEMMA OrderFacts ==
    ASSUME TypeOK
    PROVE  /\ ordered \in [1..N -> Agent]
           /\ \A k, l \in 1..N : ordered[k] = ordered[l] => k = l
BY DEF TypeOK, Orders

(* The agents of a turn are those at i + 1 and at N - i.                    *)
LEMMA TurnFacts ==
    ASSUME TypeOK, Loop, InPair
    PROVE  /\ i \in Nat /\ N - i \in 1..N /\ i + 1 \in 1..N /\ N - (N - i) = i
           /\ Mirror(N - i) = i + 1 /\ Mirror(i + 1) = N - i
           /\ LowAgent \in Agent /\ HghAgent \in Agent /\ LowAgent # HghAgent
<1>1. i \in 0..N /\ turn \in 0..N /\ i + 1 <= turn /\ N \in Nat
  BY Sizes DEF TypeOK, Loop
<1>2. /\ i \in Nat /\ N - i \in 1..N /\ i + 1 \in 1..N /\ N - (N - i) = i
      /\ N + 1 - (N - i) = i + 1 /\ N + 1 - (i + 1) = N - i
  BY <1>1
<1> QED BY <1>2, OrderFacts DEF Loop, LowAgent, HghAgent, Mirror

LEMMA MirrorFacts ==
    ASSUME NEW k \in 1..N
    PROVE  Mirror(k) \in 1..N /\ Mirror(Mirror(k)) = k
BY Sizes DEF Mirror

LEMMA CountFacts ==
    ASSUME TypeOK
    PROVE  /\ \A k \in 1..N : Had(k) \in Nat /\ Had(k) <= Cardinality(Router)
           /\ \A a : RoutersOn(a) \in SUBSET Router /\ Count(a) \in Nat
           /\ \A k \in 1..N : Full(k) => ~Full(Mirror(k))
<1>1. \A k \in 1..N : l3AgentDict[ordered[k]] \in SUBSET Router
  BY OrderFacts DEF TypeOK
<1>2. \A k \in 1..N : Had(k) \in Nat /\ Had(k) <= Cardinality(Router)
  BY <1>1, Sizes DEF Had
<1>3. \A a : RoutersOn(a) \in SUBSET Router
  BY DEF RoutersOn
<1>4. \A a : Count(a) \in Nat
  BY <1>3, Sizes DEF Count
<1>5. \A k \in 1..N : Full(k) => ~Full(Mirror(k))
  BY <1>2, MirrorFacts DEF Full
<1> QED BY <1>2, <1>3, <1>4, <1>5

(* What a call that rebinds router r does to the lists of the agents.       *)
LEMMA Rebound ==
    ASSUME TypeOK, NEW r \in Router, NEW a, NEW b, a # b,
           host[r] = a, host' = [host EXCEPT ![r] = b]
    PROVE  /\ \A c : c # a /\ c # b => RoutersOn(c)' = RoutersOn(c)
           /\ RoutersOn(a)' = RoutersOn(a) \ {r} /\ r \in RoutersOn(a)
           /\ RoutersOn(b)' = RoutersOn(b) \cup {r} /\ r \notin RoutersOn(b)
           /\ host'[r] = b
BY DEF RoutersOn, TypeOK, ServerTypeOK

LEMMA Same ==
    ASSUME UNCHANGED host, NEW a
    PROVE  RoutersOn(a)' = RoutersOn(a) /\ Count(a)' = Count(a)
BY DEF RoutersOn, Count

LEMMA AddOne ==
    ASSUME NEW S \in SUBSET Router, NEW r \in Router \ S
    PROVE  Cardinality(S \cup {r}) = Cardinality(S) + 1
BY Sizes, FS_AddElement

------------------------------------------------------------------------------
LEMMA InitIInv == Init => IInv
<1> SUFFICES ASSUME Init PROVE IInv
  OBVIOUS
<1> USE DEF Init, ServerInit
<1>1. TypeOK
  <2>1. ServerTypeOK
    BY ServerAssumption DEF ServerTypeOK
  <2> QED BY <2>1, Sizes DEF TypeOK
<1>2. Loop /\ Listed /\ NothingToMove /\ Pairs
  BY DEF Loop, Listed, NothingToMove, Pairs, InPair
<1>3. UnhostedIsExplained
  BY ServerAssumption DEF UnhostedIsExplained
<1> QED BY <1>1, <1>2, <1>3 DEF IInv

(* The answers of a call, and the host it leaves.                           *)
LEMMA RebindFacts ==
    ASSUME TypeOK, NEW r \in Router, NEW a \in Agent \cup {NoAgent}, NEW b \in Agent \cup {NoAgent},
           NEW answer \in Answers, Rebind(r, a, b, answer)
    PROVE  /\ host' \in [Router -> Agent \cup {NoAgent}] /\ faults' \in 0..MaxFaults
           /\ \A q \in Router \ {r} : host'[q] = host[q]
           /\ host' = host \/ (host[r] = a /\ host' = [host EXCEPT ![r] = b])
           /\ faults' = 0 => faults = 0
           /\ faults' = 0 /\ answer = "returned" => host[r] = a /\ host' = [host EXCEPT ![r] = b]
           /\ faults' = 0 /\ answer = "raised" => host[r] # a /\ UNCHANGED host
<1>1. faults \in Nat /\ MaxFaults \in Nat /\ faults \in 0..MaxFaults
      /\ host \in [Router -> Agent \cup {NoAgent}]
  BY ServerAssumption DEF TypeOK, ServerTypeOK
<1>2. "returned" # "raised"
  OBVIOUS
<1>3. CASE host[r] = a /\ answer = "returned" /\ host' = [host EXCEPT ![r] = b] /\ UNCHANGED faults
  BY <1>1, <1>3
<1>4. CASE host[r] # a /\ answer = "raised" /\ UNCHANGED <<host, faults>>
  BY <1>1, <1>4
<1>5. CASE /\ host[r] = a /\ faults < MaxFaults /\ faults' = faults + 1
           /\ host' = host \/ host' = [host EXCEPT ![r] = b]
  BY <1>1, <1>5
<1> QED BY <1>3, <1>4, <1>5 DEF Rebind

------------------------------------------------------------------------------
(* Reading the lists                                                        *)

LEMMA StartKeeps == ASSUME IInv, Start PROVE IInv'
<1> USE DEF IInv, Start, serverVars, loopVars
<1>1. TypeOK'
  BY DEF TypeOK, ServerTypeOK
<1>2. Loop'
  BY DEF Loop, InPair
<1>3. Listed' /\ NothingToMove' /\ Pairs'
  BY DEF Listed, NothingToMove, Pairs, InPair
<1>4. UnhostedIsExplained'
  BY DEF UnhostedIsExplained
<1> QED BY <1>1, <1>2, <1>3, <1>4

LEMMA ListKeeps == ASSUME IInv, NEW a \in Agent, ListRouters(a) PROVE IInv'
<1> USE DEF IInv
<1>1. /\ pc = "list" /\ a \in agentsLeft
      /\ agentsLeft' = agentsLeft \ {a}
      /\ l3AgentDict' = [l3AgentDict EXCEPT ![a] = RoutersOn(a)]
      /\ pc' = IF agentsLeft = {a} THEN "pair" ELSE "list"
      /\ UNCHANGED <<host, alive, flips, faults, ordered, turn, i, lowCount, hghCount,
                     routersLeft, routerId, dropped>>
  BY DEF ListRouters, serverVars
<1>2. turn = 0 /\ i = 0 /\ pc' \in {"list", "pair"}
  BY <1>1 DEF Loop
<1>3. TypeOK'
  <2>1. RoutersOn(a) \in SUBSET Router
    BY DEF RoutersOn
  <2> QED BY <1>1, <1>2, <2>1 DEF TypeOK, ServerTypeOK
<1>4. Loop'
  BY <1>1, <1>2 DEF Loop, InPair
<1>5. \A b \in Agent \ agentsLeft' : l3AgentDict'[b] = RoutersOn(b)'
  BY <1>1, Same DEF Listed, TypeOK
<1>6. Listed'
  BY <1>1, <1>2, <1>5 DEF Listed, InPair
<1>7. UnhostedIsExplained' /\ NothingToMove'
  BY <1>1, <1>2 DEF UnhostedIsExplained, NothingToMove, InPair
<1>8. Pairs'
  <2> SUFFICES ASSUME pc' = "pair", NEW k \in 1..N, ~Full(Mirror(k))' PROVE Pair(k)'
    BY <1>2 DEF Pairs, InPair
  <2>1. \A b \in Agent : l3AgentDict'[b] = RoutersOn(b)'
    BY <1>1, <1>5
  <2>2. ~(i' > N - k) /\ ~Current(k)'
    BY <1>1, <1>2, Sizes DEF Current, InPair
  <2>3. ordered'[k] \in Agent /\ ordered'[Mirror(k)] \in Agent
    BY <1>1, OrderFacts, MirrorFacts
  <2>4. AsListed(k)' /\ AsListed(Mirror(k))'
    BY <2>1, <2>3 DEF AsListed, Mirror
  <2> QED BY <2>2, <2>4 DEF Pair
<1> QED BY <1>3, <1>4, <1>6, <1>7, <1>8

------------------------------------------------------------------------------
(* The loop                                                                 *)

LEMMA OddMiddle == ASSUME NEW n \in Nat, NEW j \in Nat, n = 2 * j + 1 PROVE n % 2 # 0
OBVIOUS

(* A turn that finds one agent twice is that of the middle of an odd list.  *)
LEMMA MiddleIsOdd ==
    ASSUME TypeOK, i < N, LowAgent = HghAgent
    PROVE  N % 2 # 0
<1>1. i \in Nat /\ N \in Nat /\ i + 1 \in 1..N /\ N - i \in 1..N
  BY Sizes DEF TypeOK
<1>2. i + 1 = N - i
  BY <1>1, OrderFacts DEF LowAgent, HghAgent
<1>3. N = 2 * i + 1
  BY <1>1, <1>2
<1> QED BY <1>1, <1>3, OddMiddle

LEMMA NextPairKeeps == ASSUME IInv, NextPair PROVE IInv'
<1> USE DEF IInv
<1>1. /\ pc = "pair" /\ turn < N /\ turn' = turn + 1
      /\ UNCHANGED <<host, alive, flips, faults, agentsLeft, l3AgentDict, ordered, i, routerId, dropped>>
  BY DEF NextPair, serverVars
<1>2. i \in 0..N /\ turn \in 0..N /\ N \in Nat /\ i <= turn /\ (N % 2 = 0 => i = turn) /\ i < N
  <2>1. i \in 0..N /\ turn \in 0..N /\ N \in Nat /\ i <= turn /\ (N % 2 = 0 => i = turn)
    BY <1>1, Sizes DEF TypeOK, Loop
  <2> QED BY <1>1, <2>1
<1>3. i \in Nat /\ N - i \in 1..N /\ i + 1 \in 1..N /\ Mirror(N - i) = i + 1 /\ N - (N - i) = i
  BY <1>2 DEF Mirror
<1>4. \A k : Full(k)' = Full(k) /\ AsListed(k)' = AsListed(k)
  BY <1>1 DEF Full, AsListed, Had, Mirror, RoutersOn
<1>5. UnhostedIsExplained'
  BY <1>1 DEF UnhostedIsExplained, NextPair
<1>6. turn' \in 0..N
  BY <1>1, <1>2
<1>7. CASE LowAgent = HghAgent
  <2>1. UNCHANGED <<pc, lowCount, hghCount, routersLeft>>
    BY <1>7 DEF NextPair
  <2>2. TypeOK'
    BY <1>1, <1>6, <2>1 DEF TypeOK, ServerTypeOK
  <2>3. N % 2 # 0
    BY <1>2, <1>7, MiddleIsOdd
  <2>4. Loop'
    BY <1>1, <1>2, <2>1, <2>3 DEF Loop, InPair
  <2>5. Listed' /\ NothingToMove'
    BY <1>1, <2>1 DEF Listed, NothingToMove, InPair
  <2>6. ASSUME NEW k \in 1..N, faults = 0, ~Full(Mirror(k)) PROVE Pair(k)'
    <3>1. Pair(k) /\ ~Current(k) /\ ~Current(k)'
      BY <1>1, <2>1, <2>6 DEF Pairs, Current, InPair
    <3> QED BY <1>1, <1>4, <2>1, <3>1 DEF Pair, Level, Count, RoutersOn, Mirror
  <2>7. Pairs'
    BY <1>1, <1>4, <2>6 DEF Pairs
  <2> QED BY <1>5, <2>2, <2>4, <2>5, <2>7
<1>8. CASE LowAgent # HghAgent
  <2>1. /\ pc' = "routers"
        /\ lowCount' = Cardinality(l3AgentDict[LowAgent])
        /\ hghCount' = Cardinality(l3AgentDict[HghAgent])
        /\ routersLeft' = l3AgentDict[HghAgent]
    BY <1>8 DEF NextPair
  <2>2. LowAgent \in Agent /\ HghAgent \in Agent
    BY <1>3, OrderFacts DEF LowAgent, HghAgent
  <2>3. /\ l3AgentDict[LowAgent] \in SUBSET Router /\ l3AgentDict[HghAgent] \in SUBSET Router
        /\ lowCount' \in Nat /\ hghCount' \in Nat
        /\ lowCount' <= Cardinality(Router) /\ hghCount' <= Cardinality(Router)
    <3>1. l3AgentDict[LowAgent] \in SUBSET Router /\ l3AgentDict[HghAgent] \in SUBSET Router
      BY <2>2 DEF TypeOK
    <3> QED BY <2>1, <3>1, Sizes
  <2>4. TypeOK'
    <3>1. lowCount' \in 0..Cardinality(Router) /\ hghCount' \in 0..Cardinality(Router)
      BY <2>3, Sizes
    <3>2. routersLeft' \in SUBSET Router
      BY <2>1, <2>3
    <3> QED BY <1>1, <1>6, <2>1, <3>1, <3>2 DEF TypeOK, ServerTypeOK
  <2>5. Loop'
    <3>1. LowAgent' # HghAgent'
      BY <1>1, <1>8 DEF LowAgent, HghAgent
    <3> QED BY <1>1, <1>2, <2>1, <3>1 DEF Loop, InPair
  <2>6. Listed'
    BY <1>1, <2>1 DEF Listed, InPair
  <2>7. Had(N - i) = hghCount' /\ Had(Mirror(N - i)) = lowCount'
    BY <1>3, <2>1 DEF Had, LowAgent, HghAgent
  <2>8. NothingToMove'
    <3>1. Full(N - i) <=> hghCount' > lowCount'
      BY <2>7 DEF Full
    <3>2. ~Full(N - i)' => lowCount' >= hghCount'
      <4>1. Full(N - i)' = Full(N - i)
        BY <1>1 DEF Full, Had, Mirror
      <4> QED BY <2>3, <3>1, <4>1
    <3> QED BY <2>1, <3>2 DEF NothingToMove
  <2>9. ASSUME NEW k \in 1..N, faults = 0, ~Full(Mirror(k)) PROVE Pair(k)'
    <3>1. Pair(k) /\ ~Current(k)
      BY <1>1, <2>9 DEF Pairs, Current, InPair
    <3>2. CASE Full(k) /\ i > N - k
      <4>1. Level(ordered[k], ordered[Mirror(k)])
        BY <3>1, <3>2 DEF Pair
      <4> QED BY <1>1, <1>4, <3>2, <4>1 DEF Pair, Level, Count, RoutersOn, Mirror
    <3>3. CASE ~(Full(k) /\ i > N - k)
      <4>1. AsListed(k) /\ AsListed(Mirror(k))
        BY <3>1, <3>3 DEF Pair
      <4>2. CASE ~(Full(k) /\ Current(k)')
        <5>1. AsListed(k)' /\ AsListed(Mirror(k))'
          BY <1>1, <4>1 DEF AsListed, RoutersOn, Mirror
        <5> QED BY <1>1, <1>4, <3>3, <4>2, <5>1 DEF Pair
      <4>3. CASE Full(k) /\ Current(k)'
        <5>1. k = N - i
          BY <1>1, <1>2, <4>3 DEF Current
        <5>2. RoutersOn(HghAgent) = routersLeft' /\ RoutersOn(LowAgent) = l3AgentDict[LowAgent]
          <6>1. ordered[N - i] = HghAgent /\ ordered[Mirror(N - i)] = LowAgent
            BY <1>3 DEF LowAgent, HghAgent
          <6> QED BY <2>1, <4>1, <5>1, <6>1 DEF AsListed
        <5>3. RoutersOn(HghAgent)' = routersLeft' /\ Count(LowAgent)' = lowCount'
          <6>1. LowAgent' = LowAgent /\ HghAgent' = HghAgent
            BY <1>1 DEF LowAgent, HghAgent
          <6>2. RoutersOn(HghAgent)' = RoutersOn(HghAgent) /\ RoutersOn(LowAgent)' = RoutersOn(LowAgent)
            BY <1>1, <6>1 DEF RoutersOn
          <6>3. Count(LowAgent)' = Cardinality(RoutersOn(LowAgent)')
            BY DEF Count
          <6> QED BY <2>1, <5>2, <6>2, <6>3
        <5>4. lowCount' < hghCount'
          <6>1. Full(N - i)
            BY <4>3, <5>1
          <6>2. Had(N - i) > Had(Mirror(N - i))
            BY <6>1 DEF Full
          <6>3. hghCount' > lowCount'
            BY <2>7, <6>2, Zenon
          <6> QED BY <2>3, <6>3
        <5>5. lowCount' <= hghCount' + 1
          <6> DEFINE low == lowCount'
                     hgh == hghCount'
          <6>1. low \in Nat /\ hgh \in Nat /\ low < hgh
            BY <2>3, <5>4
          <6> HIDE DEF low, hgh
          <6>2. low <= hgh + 1
            BY <6>1
          <6> QED BY <6>2 DEF low, hgh
        <5>6. Moving'
          BY <2>1, <5>3, <5>5 DEF Moving
        <5> QED BY <1>1, <1>4, <3>3, <4>3, <5>6 DEF Pair
      <4> QED BY <4>2, <4>3
    <3> QED BY <3>2, <3>3
  <2>10. Pairs'
    BY <1>1, <1>4, <2>9 DEF Pairs
  <2> QED BY <1>5, <2>4, <2>5, <2>6, <2>8, <2>10
<1> QED BY <1>7, <1>8

LEMMA CurrentIs ==
    ASSUME TypeOK, Loop, InPair, NEW k \in 1..N
    PROVE  /\ Current(k) <=> k = N - i
           /\ ~(i > N - (N - i))
           /\ i + 1 > N - k /\ ~(i > N - k) => k = N - i
<1>1. i \in Nat /\ N \in Nat /\ k \in Nat
  BY TurnFacts, Sizes
<1> QED BY <1>1 DEF Current

LEMMA EndPairKeeps ==
    ASSUME IInv, NextRouter, routersLeft = {} \/ lowCount >= hghCount
    PROVE  IInv'
<1> USE DEF IInv
<1>1. /\ pc = "routers" /\ pc' = "pair" /\ i' = i + 1
      /\ UNCHANGED <<host, alive, flips, faults, agentsLeft, l3AgentDict, ordered, turn,
                     lowCount, hghCount, routersLeft, routerId, dropped>>
  BY DEF NextRouter, serverVars
<1>2. InPair /\ agentsLeft = {}
  BY <1>1 DEF InPair, Listed
<1>3. i \in 0..N /\ turn \in 0..N /\ N \in Nat /\ i + 1 <= turn /\ (N % 2 = 0 => i + 1 = turn)
  BY <1>2, Sizes DEF TypeOK, Loop
<1>4. TypeOK'
  <2>1. i' \in 0..N
    BY <1>1, <1>3
  <2> QED BY <1>1, <2>1 DEF TypeOK, ServerTypeOK
<1>5. Loop' /\ Listed' /\ NothingToMove'
  BY <1>1, <1>2, <1>3 DEF Loop, Listed, NothingToMove, InPair
<1>6. UnhostedIsExplained'
  BY <1>1 DEF UnhostedIsExplained
<1>7. ASSUME NEW k \in 1..N, faults = 0, ~Full(Mirror(k)) PROVE Pair(k)'
  <2>1. Pair(k) /\ ~Current(k)'
    BY <1>1, <1>2, <1>7 DEF Pairs, Current, InPair
  <2>2. Full(k)' = Full(k)
    BY <1>1 DEF Full, Had, Mirror
  <2>3. CASE Full(k) /\ (i > N - k \/ Current(k))
    <3>1. Level(ordered[k], ordered[Mirror(k)])
      <4>1. CASE i > N - k
        BY <2>1, <2>3, <4>1 DEF Pair
      <4>2. CASE ~(i > N - k) /\ Current(k)
        <5>1. k = N - i /\ ordered[k] = HghAgent /\ ordered[Mirror(k)] = LowAgent
          BY <1>2, <4>2, CurrentIs, TurnFacts DEF LowAgent, HghAgent
        <5>2. Moving
          BY <2>1, <2>3, <4>2 DEF Pair
        <5> DEFINE low == lowCount
                   hgh == hghCount
        <5>3. Count(LowAgent) = low /\ Count(HghAgent) = hgh /\ low <= hgh + 1
          BY <1>1, <5>2 DEF Moving, Count
        <5>4. routersLeft = {} => hgh = 0
          BY <1>1, <5>2, FS_EmptySet DEF Moving
        <5>5. low \in Nat /\ hgh \in Nat /\ (low >= hgh \/ hgh = 0)
          BY <5>4, Sizes DEF TypeOK
        <5> HIDE DEF low, hgh
        <5>6. hgh <= low + 1 /\ low <= hgh + 1
          BY <5>3, <5>5
        <5> QED BY <5>1, <5>3, <5>6 DEF Level
      <4> QED BY <2>3, <4>1, <4>2
    <3>2. i' > N - k
      <4>1. CASE i > N - k
        BY <1>1, <1>3, <4>1
      <4>2. CASE Current(k)
        BY <1>1, <1>3, <4>2 DEF Current
      <4> QED BY <2>3, <4>1, <4>2
    <3> QED BY <1>1, <2>2, <2>3, <3>1, <3>2 DEF Pair, Level, Count, RoutersOn, Mirror
  <2>4. CASE ~(Full(k) /\ (i > N - k \/ Current(k)))
    <3>1. AsListed(k) /\ AsListed(Mirror(k))
      BY <2>1, <2>4 DEF Pair
    <3>2. AsListed(k)' /\ AsListed(Mirror(k))'
      BY <1>1, <3>1 DEF AsListed, RoutersOn, Mirror
    <3>3. ~(Full(k) /\ i' > N - k)
      BY <1>1, <1>2, <2>4, CurrentIs
    <3> QED BY <2>1, <2>2, <3>2, <3>3 DEF Pair
  <2> QED BY <2>3, <2>4
<1>8. Pairs'
  <2>1. \A k : Full(k)' = Full(k)
    BY <1>1 DEF Full, Had, Mirror
  <2>2. \A k : Mirror(k)' = Mirror(k)
    BY DEF Mirror
  <2> QED BY <1>1, <1>7, <2>1, <2>2 DEF Pairs
<1> QED BY <1>4, <1>5, <1>6, <1>8

(* Pairs other than the one of the turn.                                    *)
LEMMA OtherPairs ==
    ASSUME TypeOK, Loop, InPair, InPair', Full(N - i), UNCHANGED <<l3AgentDict, ordered, i>>,
           \A c \in Agent : c # LowAgent /\ c # HghAgent => RoutersOn(c)' = RoutersOn(c),
           NEW k \in 1..N, ~Full(Mirror(k)), k # N - i, Pair(k)
    PROVE  Pair(k)'
<1>1. /\ ordered[k] \in Agent /\ ordered[k] # LowAgent /\ ordered[k] # HghAgent
      /\ ordered[Mirror(k)] \in Agent /\ ordered[Mirror(k)] # LowAgent /\ ordered[Mirror(k)] # HghAgent
  <2>1. k # i + 1 /\ Mirror(k) # N - i /\ Mirror(k) # i + 1
    BY TurnFacts, MirrorFacts
  <2> QED BY <2>1, TurnFacts, MirrorFacts, OrderFacts DEF LowAgent, HghAgent
<1>2. /\ RoutersOn(ordered[k])' = RoutersOn(ordered[k])
      /\ RoutersOn(ordered[Mirror(k)])' = RoutersOn(ordered[Mirror(k)])
  <2>1. \A c \in Agent : c # LowAgent /\ c # HghAgent =>
           {q \in Router : host'[q] = c} = {q \in Router : host[q] = c}
    BY DEF RoutersOn
  <2> QED BY <1>1, <2>1 DEF RoutersOn, Mirror
<1>3. ~Current(k) /\ ~Current(k)'
  BY CurrentIs DEF Current
<1>4. Full(k)' = Full(k)
  BY DEF Full, Had, Mirror
<1>5. CASE Full(k) /\ i > N - k
  <2>1. Level(ordered[k], ordered[Mirror(k)])
    BY <1>5 DEF Pair
  <2>2. Level(ordered[k], ordered[Mirror(k)])'
    BY <1>2, <2>1 DEF Level, Count
  <2> QED BY <1>4, <1>5, <2>2 DEF Pair
<1>6. CASE ~(Full(k) /\ i > N - k)
  <2>1. AsListed(k) /\ AsListed(Mirror(k))
    BY <1>3, <1>6 DEF Pair
  <2>2. AsListed(k)' /\ AsListed(Mirror(k))'
    BY <1>2, <2>1 DEF AsListed
  <2> QED BY <1>3, <1>4, <1>6, <2>2 DEF Pair
<1> QED BY <1>5, <1>6

(* All pairs, when that of the turn moves on.                               *)
LEMMA PairsKept ==
    ASSUME TypeOK, Loop, Pairs, InPair, InPair', faults' = 0 => faults = 0, Full(N - i),
           UNCHANGED <<l3AgentDict, ordered, i>>,
           \A c \in Agent : c # LowAgent /\ c # HghAgent => RoutersOn(c)' = RoutersOn(c),
           faults' = 0 /\ Moving => Moving'
    PROVE  Pairs' /\ (InPair' => Full(N - i)')
<1>1. \A k : Full(k)' = Full(k) /\ Mirror(k)' = Mirror(k)
  BY DEF Full, Had, Mirror
<1>2. Full(N - i)' = Full(N - i)
  BY DEF Full, Had, Mirror
<1>3. ASSUME NEW k \in 1..N, faults' = 0, ~Full(Mirror(k)) PROVE Pair(k)'
  <2>1. Pair(k)
    BY <1>3 DEF Pairs
  <2>2. CASE k # N - i
    BY <1>3, <2>1, <2>2, OtherPairs
  <2>3. CASE k = N - i
    <3>1. Current(k) /\ ~(i > N - k) /\ Full(k)
      BY <2>3, CurrentIs
    <3>2. Moving
      BY <2>1, <3>1 DEF Pair
    <3>3. Moving' /\ Current(k)'
      BY <1>3, <3>1, <3>2 DEF Current
    <3> QED BY <1>1, <3>1, <3>3 DEF Pair
  <2> QED BY <2>2, <2>3
<1>4. Pairs'
  BY <1>1, <1>3 DEF Pairs
<1> QED BY <1>2, <1>4

------------------------------------------------------------------------------
(* The moves                                                                *)

LEMMA PickRouterKeeps ==
    ASSUME IInv, NextRouter, ~(routersLeft = {} \/ lowCount >= hghCount)
    PROVE  IInv'
<1> USE DEF IInv
<1>1. /\ pc = "routers" /\ pc' = "remove"
      /\ routerId' \in routersLeft /\ routersLeft' = routersLeft \ {routerId'}
      /\ UNCHANGED <<host, alive, flips, faults, agentsLeft, l3AgentDict, ordered, turn, i,
                     lowCount, hghCount, dropped>>
  BY DEF NextRouter, serverVars
<1>2. InPair /\ InPair' /\ agentsLeft = {}
  BY <1>1 DEF InPair, Listed
<1>3. routersLeft \in SUBSET Router /\ routerId' \in Router
  BY <1>1 DEF TypeOK
<1>4. lowCount < hghCount
  BY Sizes DEF TypeOK
<1>5. TypeOK'
  BY <1>1, <1>3 DEF TypeOK, ServerTypeOK
<1>6. Loop' /\ Listed'
  BY <1>1, <1>2, <1>3, <1>4 DEF Loop, Listed, InPair, LowAgent, HghAgent
<1>7. UnhostedIsExplained'
  BY <1>1 DEF UnhostedIsExplained
<1>8. Full(N - i)
  BY <1>2, <1>4, Sizes DEF NothingToMove, TypeOK
<1>9. \A c : RoutersOn(c)' = RoutersOn(c)
  BY <1>1 DEF RoutersOn
<1>10. ASSUME Moving PROVE Moving'
  <2>1. /\ lowCount = Count(LowAgent) /\ RoutersOn(HghAgent) = routersLeft
        /\ hghCount = Cardinality(routersLeft)
    BY <1>1, <1>10 DEF Moving
  <2>2. /\ routersLeft = routersLeft' \cup {routerId'} /\ routerId' \notin routersLeft'
        /\ routersLeft' \in SUBSET Router /\ routerId' \in Router \ routersLeft'
    BY <1>1, <1>3
  <2>3. Cardinality(routersLeft) = Cardinality(routersLeft') + 1
    BY <2>2, AddOne
  <2>4. LowAgent' = LowAgent /\ HghAgent' = HghAgent
    BY <1>1 DEF LowAgent, HghAgent
  <2>5. Count(LowAgent)' = Count(LowAgent) /\ RoutersOn(HghAgent)' = RoutersOn(HghAgent)
    BY <1>1, <2>4 DEF Count, RoutersOn
  <2> QED BY <1>1, <2>1, <2>2, <2>3, <2>5 DEF Moving
<1>11. Pairs' /\ Full(N - i)'
  BY <1>1, <1>2, <1>8, <1>9, <1>10, PairsKept
<1>12. NothingToMove'
  BY <1>11 DEF NothingToMove
<1> QED BY <1>5, <1>6, <1>7, <1>11, <1>12

LEMMA RemoveKeeps == ASSUME IInv, Remove PROVE IInv'
<1> USE DEF IInv
<1>1. PICK answer \in Answers :
        /\ RemoveRouterFromAgent(HghAgent, routerId, answer)
        /\ IF answer = "returned"
           THEN pc' = "add" /\ UNCHANGED dropped
           ELSE /\ pc' = "routers"
                /\ IF host' = host THEN UNCHANGED dropped ELSE NoteDrop
  BY DEF Remove
<1>2. /\ pc = "remove"
      /\ UNCHANGED <<alive, flips, agentsLeft, l3AgentDict, ordered, turn, i, lowCount,
                     hghCount, routersLeft, routerId>>
  BY DEF Remove, loopVars
<1>3. /\ InPair /\ InPair' /\ agentsLeft = {} /\ lowCount < hghCount /\ routerId \in Router
      /\ pc' \in {"add", "routers"}
  BY <1>1, <1>2 DEF InPair, Listed, Loop
<1>4. LowAgent \in Agent /\ HghAgent \in Agent /\ LowAgent # HghAgent /\ HghAgent # NoAgent
      /\ LowAgent # NoAgent /\ LowAgent' = LowAgent /\ HghAgent' = HghAgent
  <2>1. LowAgent \in Agent /\ HghAgent \in Agent /\ LowAgent # HghAgent
    BY <1>3, TurnFacts
  <2> QED BY <1>2, <2>1, ServerAssumption DEF LowAgent, HghAgent
<1>5. Rebind(routerId, HghAgent, NoAgent, answer)
  BY <1>1 DEF RemoveRouterFromAgent
<1>6. /\ host' \in [Router -> Agent \cup {NoAgent}] /\ faults' \in 0..MaxFaults
      /\ \A q \in Router \ {routerId} : host'[q] = host[q]
      /\ host' = host \/ (host[routerId] = HghAgent /\ host' = [host EXCEPT ![routerId] = NoAgent])
      /\ faults' = 0 => faults = 0
  BY <1>3, <1>4, <1>5, RebindFacts
<1>7. faults' = 0 /\ answer = "returned" =>
         host[routerId] = HghAgent /\ host' = [host EXCEPT ![routerId] = NoAgent]
  BY <1>3, <1>4, <1>5, RebindFacts
<1>8. faults' = 0 /\ answer # "returned" => host[routerId] # HghAgent
  BY <1>3, <1>4, <1>5, RebindFacts DEF Answers
<1>9. dropped' \in SUBSET Router
  BY <1>1, <1>3 DEF NoteDrop, TypeOK
<1>10. TypeOK'
  BY <1>2, <1>3, <1>6, <1>9 DEF TypeOK, ServerTypeOK
<1>11. Loop' /\ Listed'
  BY <1>2, <1>3, <1>4 DEF Loop, Listed, InPair
<1>12. UnhostedIsExplained'
  <2> SUFFICES ASSUME NEW q \in Router, host'[q] = NoAgent
               PROVE  (pc' = "add" /\ routerId' = q) \/ q \in dropped'
    BY DEF UnhostedIsExplained
  <2>1. CASE answer = "returned"
    BY <1>1, <1>2, <1>6, <2>1 DEF UnhostedIsExplained
  <2>2. CASE answer # "returned"
    BY <1>1, <1>2, <1>6, <2>2 DEF UnhostedIsExplained, NoteDrop
  <2> QED BY <2>1, <2>2
<1>13. Full(N - i)
  BY <1>2, <1>3 DEF NothingToMove
<1>14. \A c \in Agent : c # LowAgent /\ c # HghAgent => RoutersOn(c)' = RoutersOn(c)
  BY <1>3, <1>4, <1>6, Rebound, ServerAssumption DEF RoutersOn
<1>15. ASSUME faults' = 0, Moving PROVE Moving'
  <2>1. /\ RoutersOn(HghAgent) = routersLeft \cup {routerId} /\ routerId \notin routersLeft
        /\ lowCount = Count(LowAgent) /\ hghCount = Cardinality(routersLeft) + 1
    BY <1>2, <1>15 DEF Moving
  <2>2. host[routerId] = HghAgent
    BY <1>3, <2>1 DEF RoutersOn
  <2>3. pc' = "add" /\ host' = [host EXCEPT ![routerId] = NoAgent]
    BY <1>1, <1>7, <1>8, <1>15, <2>2
  <2> DEFINE low == LowAgent
             hgh == HghAgent
  <2>4. low # NoAgent /\ hgh # NoAgent /\ low # hgh /\ host[routerId] = hgh /\ low' = low /\ hgh' = hgh
    BY <1>4, <2>2
  <2>5. {q \in Router : host'[q] = low} = {q \in Router : host[q] = low}
    BY <2>3, <2>4 DEF TypeOK, ServerTypeOK
  <2>6. {q \in Router : host'[q] = hgh} = {q \in Router : host[q] = hgh} \ {routerId}
    BY <2>3, <2>4 DEF TypeOK, ServerTypeOK
  <2>7. host'[routerId] = NoAgent
    BY <1>3, <2>3 DEF TypeOK, ServerTypeOK
  <2>8. RoutersOn(low)' = RoutersOn(low) /\ RoutersOn(hgh)' = RoutersOn(hgh) \ {routerId}
    <3> HIDE DEF low, hgh
    <3> QED BY <2>4, <2>5, <2>6 DEF RoutersOn
  <2>9. RoutersOn(hgh)' = routersLeft' /\ Count(low)' = Count(low)
    BY <1>2, <2>1, <2>8 DEF Count
  <2> QED BY <1>2, <2>1, <2>3, <2>7, <2>9 DEF Moving
<1>16. Pairs' /\ Full(N - i)'
  BY <1>2, <1>3, <1>6, <1>13, <1>14, <1>15, PairsKept
<1>17. NothingToMove'
  BY <1>16 DEF NothingToMove
<1> QED BY <1>10, <1>11, <1>12, <1>16, <1>17

LEMMA AddKeeps == ASSUME IInv, Add PROVE IInv'
<1> USE DEF IInv
<1>1. PICK answer \in Answers :
        /\ AddRouterToAgent(LowAgent, routerId, answer)
        /\ NoteDrop
        /\ IF answer = "returned"
           THEN lowCount' = lowCount + 1 /\ hghCount' = hghCount - 1
           ELSE UNCHANGED <<lowCount, hghCount>>
  BY DEF Add
<1>2. /\ pc = "add" /\ pc' = "routers"
      /\ UNCHANGED <<alive, flips, agentsLeft, l3AgentDict, ordered, turn, i, routersLeft, routerId>>
  BY DEF Add, loopVars
<1>3. InPair /\ InPair' /\ agentsLeft = {} /\ lowCount < hghCount /\ routerId \in Router
  BY <1>2 DEF InPair, Listed, Loop
<1>4. LowAgent \in Agent /\ HghAgent \in Agent /\ LowAgent # HghAgent /\ HghAgent # NoAgent
      /\ LowAgent # NoAgent /\ LowAgent' = LowAgent /\ HghAgent' = HghAgent
  <2>1. LowAgent \in Agent /\ HghAgent \in Agent /\ LowAgent # HghAgent
    BY <1>3, TurnFacts
  <2> QED BY <1>2, <2>1, ServerAssumption DEF LowAgent, HghAgent
<1>5. Rebind(routerId, NoAgent, LowAgent, answer)
  BY <1>1 DEF AddRouterToAgent
<1>6. /\ host' \in [Router -> Agent \cup {NoAgent}] /\ faults' \in 0..MaxFaults
      /\ \A q \in Router \ {routerId} : host'[q] = host[q]
      /\ host' = host \/ (host[routerId] = NoAgent /\ host' = [host EXCEPT ![routerId] = LowAgent])
      /\ faults' = 0 => faults = 0
  BY <1>3, <1>4, <1>5, RebindFacts
<1>7. faults' = 0 /\ answer = "returned" => host' = [host EXCEPT ![routerId] = LowAgent]
  BY <1>3, <1>4, <1>5, RebindFacts
<1>8. faults' = 0 /\ answer # "returned" => host[routerId] # NoAgent
  BY <1>3, <1>4, <1>5, RebindFacts DEF Answers
<1>9. lowCount' \in 0..Cardinality(Router) /\ hghCount' \in 0..Cardinality(Router)
  BY <1>1, <1>3, Sizes DEF TypeOK
<1>10. TypeOK'
  <2>1. dropped' \in SUBSET Router
    BY <1>1, <1>3 DEF NoteDrop, TypeOK
  <2> QED BY <1>2, <1>6, <1>9, <2>1 DEF TypeOK, ServerTypeOK
<1>11. Loop' /\ Listed'
  BY <1>2, <1>3, <1>4 DEF Loop, Listed, InPair
<1>12. UnhostedIsExplained'
  <2> SUFFICES ASSUME NEW q \in Router, host'[q] = NoAgent PROVE q \in dropped'
    BY DEF UnhostedIsExplained
  <2> QED BY <1>1, <1>2, <1>6 DEF UnhostedIsExplained, NoteDrop
<1>13. Full(N - i)
  BY <1>2, <1>3 DEF NothingToMove
<1>14. \A c \in Agent : c # LowAgent /\ c # HghAgent => RoutersOn(c)' = RoutersOn(c)
  BY <1>3, <1>4, <1>6, Rebound, ServerAssumption DEF RoutersOn
<1>15. ASSUME faults' = 0, Moving PROVE Moving'
  <2>1. /\ RoutersOn(HghAgent) = routersLeft /\ host[routerId] = NoAgent
        /\ lowCount = Count(LowAgent) /\ hghCount = Cardinality(routersLeft) + 1
    BY <1>2, <1>15 DEF Moving
  <2>2. /\ host' = [host EXCEPT ![routerId] = LowAgent]
        /\ lowCount' = lowCount + 1 /\ hghCount' = hghCount - 1
    BY <1>1, <1>7, <1>8, <1>15, <2>1
  <2> DEFINE low == LowAgent
             hgh == HghAgent
  <2>3. low # NoAgent /\ hgh # NoAgent /\ low # hgh /\ low' = low /\ hgh' = hgh
    BY <1>4
  <2>4. {q \in Router : host'[q] = low} = {q \in Router : host[q] = low} \cup {routerId}
    BY <1>3, <2>2, <2>3 DEF TypeOK, ServerTypeOK
  <2>5. {q \in Router : host'[q] = hgh} = {q \in Router : host[q] = hgh}
    BY <1>3, <2>1, <2>2, <2>3 DEF TypeOK, ServerTypeOK
  <2>6. RoutersOn(low)' = RoutersOn(low) \cup {routerId} /\ RoutersOn(hgh)' = RoutersOn(hgh)
    <3> HIDE DEF low, hgh
    <3> QED BY <2>3, <2>4, <2>5 DEF RoutersOn
  <2>7. RoutersOn(low) \in SUBSET Router /\ routerId \in Router \ RoutersOn(low)
    BY <1>3, <2>1, <2>3 DEF RoutersOn
  <2>8. Count(low)' = Count(low) + 1
    BY <2>6, <2>7, AddOne DEF Count
  <2>9. RoutersOn(hgh)' = routersLeft'
    BY <1>2, <2>1, <2>6
  <2>10. lowCount' = Count(low)'
    BY <2>1, <2>2, <2>8
  <2> DEFINE kept == Cardinality(routersLeft)
  <2>11. kept \in Nat /\ Cardinality(routersLeft') = kept
    BY <1>2, Sizes DEF TypeOK
  <2>12. lowCount \in Nat /\ hghCount = kept + 1
    BY <2>1 DEF TypeOK
  <2> HIDE DEF kept, low, hgh
  <2>13. hghCount' = kept
    BY <2>2, <2>11, <2>12
  <2>14. lowCount' <= hghCount' + 1
    <3> DEFINE l == lowCount'
               h == hghCount'
    <3>1. l = lowCount + 1 /\ h = kept /\ lowCount \in Nat /\ kept \in Nat /\ lowCount < kept + 1
      BY <1>3, <2>2, <2>11, <2>12, <2>13
    <3> HIDE DEF l, h
    <3>2. l <= h + 1
      BY <3>1
    <3> QED BY <3>2 DEF l, h
  <2> QED BY <1>2, <2>9, <2>10, <2>11, <2>13, <2>14 DEF Moving, low, hgh
<1>16. Pairs' /\ Full(N - i)'
  BY <1>2, <1>3, <1>6, <1>13, <1>14, <1>15, PairsKept
<1>17. NothingToMove'
  BY <1>16 DEF NothingToMove
<1> QED BY <1>10, <1>11, <1>12, <1>16, <1>17

LEMMA StopKeeps == ASSUME IInv, Finish \/ Crash PROVE IInv'
<1> USE DEF IInv
<1>1. /\ pc # "idle" /\ pc' = "idle"
      /\ UNCHANGED <<host, alive, flips, faults, l3AgentDict, ordered, turn, i, lowCount,
                     hghCount, routersLeft, routerId>>
      /\ agentsLeft' \in {{}, agentsLeft}
  BY DEF Finish, Crash, serverVars, loopVars
<1>2. agentsLeft' = {}
  BY <1>1 DEF Finish, Crash, Listed, loopVars
<1>3. dropped' \in SUBSET Router
  BY DEF Finish, Crash, TypeOK, ServerTypeOK, Loop
<1>4. TypeOK'
  BY <1>1, <1>2, <1>3 DEF TypeOK, ServerTypeOK
<1>5. Loop'
  <2>1. N > 1 => Agent # {}
    BY FS_EmptySet DEF N
  <2> QED BY <1>1, <1>2, <2>1 DEF Loop, InPair
<1>6. Listed' /\ NothingToMove' /\ Pairs'
  BY <1>1 DEF Listed, NothingToMove, Pairs, InPair
<1>7. UnhostedIsExplained'
  BY <1>1 DEF UnhostedIsExplained, Finish, Crash
<1> QED BY <1>4, <1>5, <1>6, <1>7

LEMMA NextIInv == IInv /\ [Next]_vars => IInv'
<1> SUFFICES ASSUME IInv, [Next]_vars PROVE IInv'
  OBVIOUS
<1>1. CASE UNCHANGED vars
  <2>1. /\ UNCHANGED <<host, alive, flips, faults, pc, agentsLeft, l3AgentDict, ordered, turn, i>>
        /\ UNCHANGED <<lowCount, hghCount, routersLeft, routerId, dropped>>
    BY <1>1 DEF vars, serverVars, loopVars
  <2>2. TypeOK' /\ UnhostedIsExplained'
    BY <2>1 DEF IInv, TypeOK, ServerTypeOK, UnhostedIsExplained
  <2>3. Loop' /\ Listed' /\ NothingToMove'
    BY <2>1 DEF IInv, Loop, Listed, NothingToMove, InPair, LowAgent, HghAgent, RoutersOn, Full,
       Had, Mirror
  <2>4. Pairs'
    BY <2>1 DEF IInv, Pairs, Pair, InPair, Full, Had, Mirror, Level, Count, RoutersOn, Current,
       Moving, AsListed, LowAgent, HghAgent
  <2> QED BY <2>2, <2>3, <2>4 DEF IInv
<1>2. CASE Next
  BY <1>2, StartKeeps, ListKeeps, NextPairKeeps, EndPairKeeps, PickRouterKeeps, RemoveKeeps,
     AddKeeps, StopKeeps DEF Next
<1> QED BY <1>1, <1>2

(* The invariant holds of the rebalancing of any routers among any agents.  *)
THEOREM Inductive == Spec => []IInv
BY InitIInv, NextIInv, PTL DEF Spec

------------------------------------------------------------------------------
(* The theorems                                                             *)

(* Type correctness of L3Rebalance: no turn meets an index beyond the list, *)
(* and no count leaves 0..Cardinality(Router), with failed calls too.       *)
THEOREM TypeCorrect == Spec => []TypeOK
<1>1. IInv => TypeOK
  BY DEF IInv
<1> QED BY <1>1, Inductive, PTL

(* No router is without an agent, but between the two calls of its move or  *)
(* after a failed call or a crash.                                          *)
THEOREM UnhostedExplained == Spec => []UnhostedIsExplained
<1>1. IInv => UnhostedIsExplained
  BY DEF IInv
<1> QED BY <1>1, Inductive, PTL

(* Without failing calls a router leaves only the fuller agent of a pair,   *)
(* for any number of agents, even or odd.                                   *)
THEOREM MovesAreDownhill == Spec => NeverUphill
<1>1. IInv /\ IInv' /\ [Next]_vars =>
        (pc = "remove" /\ pc' = "add" /\ faults' = 0 => Count(HghAgent) > Count(LowAgent))
  <2> SUFFICES ASSUME IInv, [Next]_vars, pc = "remove", pc' = "add", faults' = 0
               PROVE  Count(HghAgent) > Count(LowAgent)
    OBVIOUS
  <2> USE DEF IInv
  <2>1. InPair /\ lowCount < hghCount /\ routerId \in Router
    BY DEF InPair, Loop
  <2>2. Remove
    BY DEF Next, Start, ListRouters, NextPair, NextRouter, Add, Finish, Crash, vars
  <2>3. faults = 0
    <3>1. PICK answer \in Answers : RemoveRouterFromAgent(HghAgent, routerId, answer)
      BY <2>2 DEF Remove
    <3>2. HghAgent \in Agent
      BY <2>1, TurnFacts
    <3> QED BY <2>1, <3>1, <3>2, RebindFacts DEF RemoveRouterFromAgent
  <2>4. Full(N - i) /\ N - i \in 1..N /\ ~Full(Mirror(N - i))
    BY <2>1, TurnFacts, CountFacts DEF NothingToMove
  <2>5. Moving
    BY <2>1, <2>3, <2>4, CurrentIs DEF Pairs, Pair
  <2>6. lowCount = Count(LowAgent) /\ hghCount = Count(HghAgent)
    <3>1. /\ RoutersOn(HghAgent) = routersLeft \cup {routerId} /\ routerId \notin routersLeft
          /\ hghCount = Cardinality(routersLeft) + 1 /\ lowCount = Count(LowAgent)
      BY <2>5 DEF Moving
    <3>2. routersLeft \in SUBSET Router
      BY DEF TypeOK
    <3> QED BY <2>1, <3>1, <3>2, AddOne DEF Count
  <2> QED BY <2>1, <2>6, CountFacts
<1> QED BY <1>1, Inductive, PTL DEF Spec, NeverUphill

(* For any even number of agents and any routers, however they are spread:  *)
(* a run without failing calls leaves the two agents of each pair level.    *)
THEOREM RunLevelsPairs == Spec => PairsEndLevel
<1>1. IInv /\ [Next]_vars =>
        (pc = "pair" /\ turn = N /\ pc' = "idle" /\ N % 2 = 0 /\ faults = 0
           => \A k \in 1..N : Level(ordered[k], ordered[N + 1 - k]))
  <2> SUFFICES ASSUME IInv, pc = "pair", turn = N, N % 2 = 0, faults = 0, NEW k \in 1..N
               PROVE  Level(ordered[k], ordered[Mirror(k)])
    BY DEF Mirror
  <2> USE DEF IInv
  <2>1. i = N /\ N \in Nat
    BY Sizes DEF Loop
  <2>2. \A l \in 1..N : i > N - l
    BY <2>1
  <2>3. Mirror(k) \in 1..N /\ Mirror(Mirror(k)) = k
    BY MirrorFacts
  <2>4. CASE Full(k)
    <3>1. Pair(k)
      BY <2>4, CountFacts DEF Pairs
    <3> QED BY <2>2, <2>4, <3>1 DEF Pair
  <2>5. CASE Full(Mirror(k))
    <3>1. Pair(Mirror(k))
      BY <2>3, <2>5, CountFacts DEF Pairs
    <3>2. Level(ordered[Mirror(k)], ordered[k])
      BY <2>2, <2>3, <2>5, <3>1 DEF Pair
    <3> QED BY <3>2 DEF Level
  <2>6. CASE ~Full(k) /\ ~Full(Mirror(k))
    <3>1. AsListed(k) /\ AsListed(Mirror(k))
      BY <2>6 DEF Pairs, Pair
    <3>2. Count(ordered[k]) = Had(k) /\ Count(ordered[Mirror(k)]) = Had(Mirror(k))
      BY <3>1 DEF AsListed, Count, Had
    <3>3. Had(k) \in Nat /\ Had(Mirror(k)) \in Nat
      BY <2>3, CountFacts
    <3>4. Had(k) = Had(Mirror(k))
      BY <2>3, <2>6, <3>3 DEF Full
    <3>5. Had(k) <= Had(k) + 1
      BY <3>3
    <3> QED BY <3>2, <3>4, <3>5 DEF Level
  <2> QED BY <2>4, <2>5, <2>6
<1> QED BY <1>1, Inductive, PTL DEF Spec, PairsEndLevel

------------------------------------------------------------------------------
(* The DHCP replication, for any agents, networks and instances of the tool *)

(* What the run of t has still to do to agent a: everything, if the agent   *)
(* is to come; what is missing, if it is at hand; nothing, if it was done.  *)
Ahead(t, a) ==
    IF a \in agentsToDo[t] THEN networkIdList[t]
    ELSE IF toolPc[t] = "add" /\ a = agentId[t] THEN missing[t]
    ELSE {}

(* A listed network that still exists and on which no add failed is on      *)
(* every agent, or ahead.                                                   *)
Covered(t) ==
    toolPc[t] # "idle" =>
       \A a \in DhcpAgent, n \in (networkIdList[t] \cap networks) \ skipped[t] :
          n \in bound[a] \cup Ahead(t, a)

(* Ids are given out once: nothing a run has listed is created again.       *)
Known ==
    /\ networks \subseteq used
    /\ \A t \in Tool : networkIdList[t] \subseteq used

DhcpInv == DhcpTypeOK /\ Known /\ \A t \in Tool : Covered(t)

LEMMA InitDhcpInv == ASSUME DhcpInit PROVE DhcpInv
<1>1. (CHOOSE a \in DhcpAgent : TRUE) \in DhcpAgent
  BY DhcpAssumption
<1>2. DhcpTypeOK
  BY <1>1, DhcpAssumption DEF DhcpInit, DhcpTypeOK
<1>3. Known /\ \A t \in Tool : Covered(t)
  BY DEF DhcpInit, Known, Covered
<1> QED BY <1>2, <1>3 DEF DhcpInv

LEMMA NextDhcpInv == ASSUME DhcpInv, [DhcpNext]_dhcpVars PROVE DhcpInv'
<1> USE DhcpAssumption DEF DhcpInv, DhcpTypeOK, toolVars
<1>1. CASE CreateNetwork
  <2> PICK n \in Network \ used, a \in DhcpAgent :
        /\ used' = used \cup {n}
        /\ networks' = networks \cup {n}
        /\ bound' = [bound EXCEPT ![a] = @ \cup {n}]
    BY <1>1 DEF CreateNetwork
  <2>1. UNCHANGED <<addFaults, toolVars>>
    BY <1>1 DEF CreateNetwork
  <2>2. DhcpTypeOK'
    BY <2>1
  <2>3. Known'
    BY <2>1 DEF Known
  <2>4. ASSUME NEW t \in Tool PROVE Covered(t)'
    <3>1. Covered(t) /\ n \notin networkIdList[t]
      BY DEF Known
    <3>2. \A b \in DhcpAgent : bound[b] \subseteq bound'[b] /\ Ahead(t, b)' = Ahead(t, b)
      BY <2>1 DEF Ahead
    <3> QED BY <2>1, <3>1, <3>2 DEF Covered
  <2> QED BY <2>2, <2>3, <2>4
<1>2. CASE DeleteNetwork
  <2> PICK n \in networks :
        /\ networks' = networks \ {n}
        /\ bound' = [a \in DhcpAgent |-> bound[a] \ {n}]
    BY <1>2 DEF DeleteNetwork
  <2>1. UNCHANGED <<used, addFaults, toolVars>>
    BY <1>2 DEF DeleteNetwork
  <2>2. DhcpTypeOK' /\ Known'
    BY <2>1 DEF Known
  <2>3. ASSUME NEW t \in Tool PROVE Covered(t)'
    BY <2>1 DEF Covered, Ahead
  <2> QED BY <2>2, <2>3
<1>3. ASSUME NEW u \in Tool, StartReplicate(u) PROVE DhcpInv'
  <2>1. DhcpTypeOK'
    BY <1>3 DEF StartReplicate
  <2>2. Known'
    BY <1>3 DEF StartReplicate, Known
  <2>3. ASSUME NEW t \in Tool PROVE Covered(t)'
    BY <1>3, <2>3 DEF StartReplicate, Covered, Ahead
  <2> QED BY <2>1, <2>2, <2>3
<1>4. ASSUME NEW u \in Tool, NextAgent(u) PROVE DhcpInv'
  <2> PICK b \in agentsToDo[u] :
        /\ agentsToDo' = [agentsToDo EXCEPT ![u] = @ \ {b}]
        /\ agentId' = [agentId EXCEPT ![u] = b]
        /\ missing' = [missing EXCEPT ![u] = networkIdList[u] \ bound[b]]
    BY <1>4 DEF NextAgent
  <2>1. /\ toolPc[u] = "agents" /\ toolPc' = [toolPc EXCEPT ![u] = "add"]
        /\ UNCHANGED <<networks, bound, used, addFaults, runs, networkIdList, skipped>>
    BY <1>4 DEF NextAgent
  <2>2. DhcpTypeOK' /\ Known'
    BY <2>1 DEF Known
  <2>3. ASSUME NEW t \in Tool PROVE Covered(t)'
    BY <2>1 DEF Covered, Ahead
  <2> QED BY <2>2, <2>3
<1>5. ASSUME NEW u \in Tool, AddMissing(u) PROVE DhcpInv'
  <2>1. /\ toolPc[u] = "add"
        /\ UNCHANGED <<networks, used, runs, networkIdList, agentsToDo, agentId>>
    BY <1>5 DEF AddMissing
  <2>2. CASE /\ missing[u] = {} /\ toolPc' = [toolPc EXCEPT ![u] = "agents"]
             /\ UNCHANGED <<bound, addFaults, missing, skipped>>
    <3>1. DhcpTypeOK' /\ Known'
      BY <2>1, <2>2 DEF Known
    <3>2. ASSUME NEW t \in Tool PROVE Covered(t)'
      BY <2>1, <2>2 DEF Covered, Ahead
    <3> QED BY <3>1, <3>2
  <2>3. ASSUME NEW n \in missing[u], missing' = [missing EXCEPT ![u] = @ \ {n}], UNCHANGED toolPc,
               \/ bound' = [bound EXCEPT ![agentId[u]] = @ \cup ({n} \cap networks)]
                  /\ UNCHANGED <<addFaults, skipped>>
               \/ /\ addFaults < MaxAddFaults
                  /\ addFaults' = addFaults + 1
                  /\ skipped' = [skipped EXCEPT ![u] = @ \cup {n}]
                  /\ UNCHANGED bound
        PROVE  DhcpInv'
    <3>1. DhcpTypeOK' /\ Known'
      BY <2>1, <2>3 DEF Known
    <3>2. ASSUME NEW t \in Tool PROVE Covered(t)'
      <4>1. \A b \in DhcpAgent : bound[b] \subseteq bound'[b]
        BY <2>3
      <4>2. CASE t # u
        BY <2>1, <2>3, <4>1, <4>2 DEF Covered, Ahead
      <4>3. CASE t = u
        BY <2>1, <2>3, <4>1, <4>3 DEF Covered, Ahead
      <4> QED BY <4>2, <4>3
    <3> QED BY <3>1, <3>2
  <2> QED BY <1>5, <2>2, <2>3 DEF AddMissing
<1>6. ASSUME NEW u \in Tool, EndReplicate(u) PROVE DhcpInv'
  <2>1. DhcpTypeOK' /\ Known'
    BY <1>6 DEF EndReplicate, Known
  <2>2. ASSUME NEW t \in Tool PROVE Covered(t)'
    BY <1>6, <2>2 DEF EndReplicate, Covered, Ahead
  <2> QED BY <2>1, <2>2
<1>7. CASE UNCHANGED dhcpVars
  BY <1>7 DEF dhcpVars, Known, Covered, Ahead
<1> QED BY <1>1, <1>2, <1>3, <1>4, <1>5, <1>6, <1>7 DEF DhcpNext, Step

(* Type correctness of DhcpReplicate.                                       *)
THEOREM DhcpTypeCorrect == DhcpSpec => []DhcpTypeOK
<1>1. DhcpInv => DhcpTypeOK
  BY DEF DhcpInv
<1>2. DhcpInit => DhcpInv
  BY InitDhcpInv
<1>3. DhcpInv /\ [DhcpNext]_dhcpVars => DhcpInv'
  BY NextDhcpInv
<1> QED BY <1>1, <1>2, <1>3, PTL DEF DhcpSpec

(* Each run of replicate_dhcp that ends has put every network it listed and *)
(* that still exists on every agent, but for those whose add failed.        *)
THEOREM EachRunReplicates == DhcpSpec => FinishedRunReplicates
<1>1. DhcpInv /\ [DhcpNext]_dhcpVars =>
        \A t \in Tool : toolPc[t] = "agents" /\ toolPc'[t] = "idle" =>
          \A n \in (networkIdList[t] \cap networks) \ skipped[t], a \in DhcpAgent : n \in bound[a]
  <2> SUFFICES ASSUME DhcpInv, [DhcpNext]_dhcpVars, NEW t \in Tool,
                      toolPc[t] = "agents", toolPc'[t] = "idle"
               PROVE  \A n \in (networkIdList[t] \cap networks) \ skipped[t], a \in DhcpAgent :
                         n \in bound[a]
    OBVIOUS
  <2>1. agentsToDo[t] = {}
    BY DEF DhcpNext, CreateNetwork, DeleteNetwork, StartReplicate, Step,
       NextAgent, AddMissing, EndReplicate, toolVars, dhcpVars, DhcpInv, DhcpTypeOK
  <2> QED BY <2>1 DEF DhcpInv, Covered, Ahead
<1>2. DhcpInit => DhcpInv
  BY InitDhcpInv
<1>3. DhcpInv /\ [DhcpNext]_dhcpVars => DhcpInv'
  BY NextDhcpInv
<1> QED BY <1>1, <1>2, <1>3, PTL DEF DhcpSpec, FinishedRunReplicates
==============================================================================
