------------------------- MODULE LoadBalancerProofs --------------------------
(***************************************************************************)
(* LoadBalancer for every set of instances and requests: the types, that   *)
(* the search stays in its list, that the counters of instances that stay  *)
(* listed are exact, and that round robin is even.                         *)
(***************************************************************************)
EXTENDS LoadBalancer, FiniteSetTheorems, TLAPS

\* A request past the selection has its instance, and one that is about to subtract
\* holds the lock since it found the counter.
RequestsOK ==
    \A r \in Requests :
        /\ pc[r] \in {"selected", "active", "ending"} => instance[r] \in Instances
        /\ pc[r] = "ending" => Listed(instance[r])

BalancerOK == LBTypeOK /\ RequestsOK /\ ScanInRange

-----------------------------------------------------------------------------
(* Lists and remainders                                                    *)

\* A list is a sequence of instances, among them the permanent ones.
LEMMA ListType ==
    ASSUME NEW list \in Lists
    PROVE  /\ list \in Seq(Instances) /\ Len(list) \in Nat
           /\ \A k \in 1..Len(list) : list[k] \in Instances /\ list[k] \in ElementsOf(list)
           /\ ElementsOf(list) \subseteq Instances
           /\ Permanent \subseteq ElementsOf(list)
           /\ list # <<>> => Len(list) > 0
<1>1. Cardinality(Instances) \in Nat
  BY FS_CardinalityType, LoadBalancerAssumption
<1>2. PICK n \in 0..Cardinality(Instances) : list \in [1..n -> Instances]
  BY DEF Lists
<1>3. list \in Seq(Instances) /\ Len(list) = n
  BY <1>1, <1>2
<1> QED BY <1>1, <1>2, <1>3 DEF ElementsOf, Lists

\* A remainder is less than the divisor.
LEMMA Remainders ==
    ASSUME NEW n \in Nat \ {0}, NEW count \in Nat
    PROVE  count % n \in 0..(n - 1)
  BY Z3

\* A count below the width of a word is its own remainder.
LEMMA NoWrap ==
    ASSUME NEW n \in Nat, NEW count \in Nat, count < n
    PROVE  count % n = count
  BY Z3

\* Adding the largest word subtracts one, as the atomic add of ^uint64(0) does.
LEMMA MinusOne ==
    ASSUME NEW n \in Nat \ {0}, NEW count \in 1..(n - 1)
    PROVE  (count + n - 1) % n = count - 1
  BY Z3

\* A word has room for every request.
LEMMA WordType == Word \in Nat \ {0} /\ Cardinality(Requests) \in Nat /\ Cardinality(Requests) < Word
<1>1. Cardinality(Requests) \in Nat
  BY FS_CardinalityType, LoadBalancerAssumption
<1> QED BY <1>1, LoadBalancerAssumption

-----------------------------------------------------------------------------
(* Types, and the search                                                   *)

\* No request is under way at first.
LEMMA BalancerInit == LBInit => BalancerOK
<1> SUFFICES ASSUME LBInit PROVE BalancerOK
  OBVIOUS
<1>1. 0 \in 0..Word - 1
  BY WordType
<1>2. connectionCount \in [ElementsOf(serviceInstances) -> 0..Word - 1]
  BY <1>1 DEF LBInit
<1>3. NoScan \in Scan
  BY <1>1 DEF NoScan, Scan
<1> QED BY <1>2, <1>3 DEF LBInit, BalancerOK, LBTypeOK, RequestsOK, ScanInRange

\* The selections in one step keep the invariant.
LEMMA SelectionKeeps ==
    ASSUME BalancerOK, NEW r \in Requests, GetByRoundRobin(r) \/ GetByRandom(r)
    PROVE  BalancerOK'
<1> USE DEF BalancerOK, LBTypeOK
<1>1. CASE GetByRoundRobin(r)
  <2>1. Len(serviceInstances) \in Nat \ {0}
    BY <1>1, ListType DEF GetByRoundRobin
  <2>2. counter' \in Nat /\ IndexOf(counter') \in 1..Len(serviceInstances)
    BY <1>1, <2>1, Remainders DEF GetByRoundRobin, IndexOf
  <2>3. serviceInstances[IndexOf(counter')] \in Instances
    BY <2>2, ListType
  <2> QED BY <1>1, <2>2, <2>3 DEF GetByRoundRobin, Select, RequestsOK, ScanInRange, Listed
<1>2. CASE GetByRandom(r)
  BY <1>2, ListType DEF GetByRandom, Select, RequestsOK, ScanInRange, Listed
<1> QED BY <1>1, <1>2

\* So does the search for the least connections.
LEMMA SearchKeeps ==
    ASSUME BalancerOK, NEW r \in Requests, StartScan(r) \/ ScanNext(r) \/ EndScan(r)
    PROVE  BalancerOK'
<1> USE DEF BalancerOK, LBTypeOK
<1>1. CASE StartScan(r)
  <2>1. Len(serviceInstances) \in Nat \ {0}
    BY <1>1, ListType DEF StartScan
  <2>2. [next |-> 1, minConnections |-> Word - 1, selectedIdx |-> 1] \in Scan
    BY WordType DEF Scan
  <2>3. scan' = [scan EXCEPT ![r] =
                    [next |-> 1, minConnections |-> Word - 1, selectedIdx |-> 1]]
    BY <1>1 DEF StartScan
  <2>4. scan' \in [Requests -> Scan]
    BY <2>2, <2>3
  <2>5. ScanInRange'
    BY <1>1, <2>1, <2>3 DEF StartScan, ScanInRange
  <2> QED BY <1>1, <2>4, <2>5 DEF StartScan, RequestsOK, Listed
<1>2. CASE ScanNext(r)
  <2> DEFINE k == scan[r].next
             connections == connectionCount[serviceInstances[k]]
             new == IF connections < scan[r].minConnections
                    THEN [next |-> k + 1, minConnections |-> connections, selectedIdx |-> k]
                    ELSE [scan[r] EXCEPT !.next = k + 1]
  <2>1. Len(serviceInstances) \in Nat /\ scan[r] \in Scan /\ k \in 1..Len(serviceInstances)
    BY <1>2, ListType DEF ScanNext, ScanInRange
  <2>2. serviceInstances[k] \in ElementsOf(serviceInstances)
    BY <2>1, ListType
  <2>3. connections \in 0..Word - 1
    BY <2>2
  <2>4. scan[r].selectedIdx \in 1..Len(serviceInstances)
    BY <1>2 DEF ScanNext, ScanInRange
  <2>5. new \in Scan /\ new.next = k + 1 /\ new.selectedIdx \in 1..Len(serviceInstances)
    <3>1. CASE connections < scan[r].minConnections
      BY <2>1, <2>3, <3>1 DEF Scan
    <3>2. CASE ~(connections < scan[r].minConnections)
      <4>1. new = [next |-> k + 1, minConnections |-> scan[r].minConnections,
                   selectedIdx |-> scan[r].selectedIdx]
        BY <2>1, <3>2 DEF Scan
      <4>2. scan[r].minConnections \in 0..Word - 1 /\ scan[r].selectedIdx \in Nat /\ k + 1 \in Nat
        BY <2>1 DEF Scan
      <4> QED BY <2>4, <4>1, <4>2 DEF Scan
    <3> QED BY <3>1, <3>2
  <2>6. scan' = [scan EXCEPT ![r] = new]
    BY <1>2 DEF ScanNext
  <2> HIDE DEF new
  <2>7. scan' \in [Requests -> Scan]
    BY <2>5, <2>6
  <2>8. ScanInRange'
    BY <1>2, <2>1, <2>5, <2>6 DEF ScanNext, ScanInRange
  <2> QED BY <1>2, <2>7, <2>8 DEF ScanNext, RequestsOK, Listed
<1>3. CASE EndScan(r)
  <2>1. serviceInstances[scan[r].selectedIdx] \in Instances
    BY <1>3, ListType DEF EndScan, ScanInRange
  <2>2. NoScan \in Scan
    BY WordType DEF NoScan, Scan
  <2>3. pc'[r] = "selected" /\ \A q \in Requests \ {r} : pc'[q] = pc[q] /\ scan'[q] = scan[q]
    BY <1>3 DEF EndScan, Select
  <2>4. ScanInRange'
    BY <1>3, <2>3 DEF EndScan, ScanInRange
  <2> QED BY <1>3, <2>1, <2>2, <2>4 DEF EndScan, Select, RequestsOK, Listed
<1> QED BY <1>1, <1>2, <1>3

\* So do InstanceBegin and InstanceEnd.
LEMMA CountingKeeps ==
    ASSUME BalancerOK, NEW r \in Requests, InstanceBegin(r) \/ InstanceEnd(r) \/ Decrement(r)
    PROVE  BalancerOK'
<1> USE DEF BalancerOK, LBTypeOK
<1>1. CASE InstanceBegin(r)
  <2>1. ASSUME Listed(instance[r])
        PROVE  (connectionCount[instance[r]] + 1) % Word \in 0..Word - 1
    <3>1. connectionCount[instance[r]] + 1 \in Nat
      BY <2>1, WordType DEF Listed
    <3> QED BY <3>1, Remainders, WordType
  <2>2. connectionCount' \in [ElementsOf(serviceInstances) -> 0..Word - 1]
    BY <1>1, <2>1 DEF InstanceBegin, Listed
  <2> QED BY <1>1, <2>2 DEF InstanceBegin, RequestsOK, ScanInRange, Listed
<1>2. CASE InstanceEnd(r)
  BY <1>2 DEF InstanceEnd, Leave, RequestsOK, ScanInRange, Listed
<1>3. CASE Decrement(r)
  <2>1. (connectionCount[instance[r]] + Word - 1) % Word \in 0..Word - 1
    <3>1. connectionCount[instance[r]] + Word - 1 \in Nat
      BY <1>3, WordType DEF Decrement, Listed
    <3> QED BY <3>1, Remainders, WordType
  <2>2. connectionCount' \in [ElementsOf(serviceInstances) -> 0..Word - 1]
    BY <1>3, <2>1 DEF Decrement, Listed
  <2> QED BY <1>3, <2>2 DEF Decrement, Leave, RequestsOK, ScanInRange, Listed
<1> QED BY <1>1, <1>2, <1>3

\* So does UpdateInstances.
LEMMA UpdateKeeps ==
    ASSUME BalancerOK, UpdateInstances \/ \E list \in Lists : CallUpdate(list)
    PROVE  BalancerOK'
<1> USE DEF BalancerOK, LBTypeOK
<1>1. CASE UpdateInstances
  <2>1. writer \in Lists
    BY <1>1 DEF UpdateInstances
  <2>2. Preserved(writer) \in [ElementsOf(writer) -> 0..Word - 1]
    BY WordType DEF Preserved, Listed
  <2> QED BY <1>1, <2>1, <2>2
          DEF UpdateInstances, Replace, Reading, RequestsOK, ScanInRange, Listed, requestVars
<1>2. CASE \E list \in Lists : CallUpdate(list)
  BY <1>2 DEF CallUpdate, RequestsOK, ScanInRange, Listed, requestVars
<1> QED BY <1>1, <1>2

\* So does every step.
LEMMA BalancerStep == BalancerOK /\ [LBNext]_lbVars => BalancerOK'
<1>1. BalancerOK /\ UNCHANGED lbVars => BalancerOK'
  BY DEF lbVars, requestVars, BalancerOK, LBTypeOK, RequestsOK, ScanInRange, Listed
<1> QED BY <1>1, SelectionKeeps, SearchKeeps, CountingKeeps, UpdateKeeps DEF LBNext, RequestNext

\* The methods of a balancer keep the invariant, however requests interleave.
THEOREM BalancerCorrect == LBSpec => []BalancerOK
  BY BalancerInit, BalancerStep, PTL DEF LBSpec

\* Every variable has its type; UpdateInstances keeps the counters to the instances.
THEOREM LBTypeCorrect == LBSpec => []LBTypeOK
<1>1. BalancerOK => LBTypeOK
  BY DEF BalancerOK
<1> QED BY <1>1, BalancerCorrect, PTL

\* The search of GetInstance for the least connections never leaves its list.
THEOREM ScanCorrect == LBSpec => []ScanInRange
<1>1. BalancerOK => ScanInRange
  BY DEF BalancerOK
<1> QED BY <1>1, BalancerCorrect, PTL

-----------------------------------------------------------------------------
(* The counters                                                            *)

\* What the connections of an instance have to do with the requests.
LEMMA ConnectedType ==
    ASSUME NEW i
    PROVE  /\ IsFiniteSet(Connected(i))
           /\ Cardinality(Connected(i)) \in Nat
           /\ Cardinality(Connected(i)) < Word
           /\ \A r \in Connected(i) : Cardinality(Connected(i)) > 0
<1>1. Connected(i) \subseteq Requests /\ IsFiniteSet(Requests)
  BY LoadBalancerAssumption DEF Connected
<1>2. IsFiniteSet(Connected(i)) /\ Cardinality(Connected(i)) <= Cardinality(Requests)
  BY <1>1, FS_Subset
<1>3. Cardinality(Connected(i)) \in Nat
  BY <1>2, FS_CardinalityType
<1>4. ASSUME NEW r \in Connected(i) PROVE Cardinality(Connected(i)) # 0
  BY <1>2, FS_EmptySet
<1> QED BY <1>2, <1>3, <1>4, WordType

\* A permanent instance has a counter.
LEMMA PermanentListed ==
    ASSUME LBTypeOK, NEW i \in Permanent
    PROVE  Listed(i) /\ i \in Instances
  BY ListType DEF LBTypeOK, Listed

\* Every step keeps the counters of instances that stay listed exact.
LEMMA CountedStep ==
    BalancerOK /\ BalancerOK' /\ ConnectionsCounted /\ [LBNext]_lbVars => ConnectionsCounted'
<1> SUFFICES ASSUME BalancerOK, ConnectionsCounted, [LBNext]_lbVars, NEW i \in Permanent
             PROVE  (connectionCount[i] = Cardinality(Connected(i)))'
  BY DEF ConnectionsCounted
<1> USE DEF BalancerOK, LBTypeOK
<1>1. Listed(i) /\ connectionCount[i] = Cardinality(Connected(i))
  BY PermanentListed DEF ConnectionsCounted
<1>2. ASSUME NEW r \in Requests,
             \/ GetByRoundRobin(r) \/ GetByRandom(r)
             \/ StartScan(r) \/ ScanNext(r) \/ EndScan(r)
      PROVE  (connectionCount[i] = Cardinality(Connected(i)))'
  <2>1. Connected(i)' = Connected(i)
    BY <1>2 DEF GetByRoundRobin, GetByRandom, StartScan, ScanNext, EndScan, Select, Connected
  <2>2. connectionCount' = connectionCount
    BY <1>2 DEF GetByRoundRobin, GetByRandom, StartScan, ScanNext, EndScan
  <2> QED BY <1>1, <2>1, <2>2
<1>3. ASSUME NEW r \in Requests, InstanceBegin(r)
      PROVE  (connectionCount[i] = Cardinality(Connected(i)))'
  <2>1. CASE instance[r] = i
    <3>1. r \notin Connected(i) /\ Connected(i)' = Connected(i) \cup {r}
      BY <1>3, <2>1 DEF InstanceBegin, Connected
    <3>2. Cardinality(Connected(i))' = Cardinality(Connected(i)) + 1
      BY <3>1, ConnectedType, FS_AddElement
    <3>3. Cardinality(Connected(i) \cup {r}) < Word
      <4>1. Connected(i) \cup {r} \subseteq Requests /\ IsFiniteSet(Requests)
        BY LoadBalancerAssumption DEF Connected
      <4>2. Cardinality(Connected(i) \cup {r}) <= Cardinality(Requests)
        BY <4>1, FS_Subset
      <4>3. Cardinality(Connected(i) \cup {r}) \in Nat
        BY <4>1, FS_Subset, FS_CardinalityType
      <4> QED BY <4>2, <4>3, WordType
    <3>4. connectionCount'[i] = (connectionCount[i] + 1) % Word
      BY <1>1, <1>3, <2>1 DEF InstanceBegin, Listed
    <3>5. connectionCount[i] + 1 \in Nat /\ connectionCount[i] + 1 < Word
      BY <1>1, <3>1, <3>2, <3>3, ConnectedType
    <3> QED BY <1>1, <3>2, <3>4, <3>5, NoWrap, WordType
  <2>2. CASE instance[r] # i
    <3>1. Connected(i)' = Connected(i)
      BY <1>3, <2>2 DEF InstanceBegin, Connected
    <3>2. connectionCount'[i] = connectionCount[i]
      BY <1>1, <1>3, <2>2 DEF InstanceBegin, Listed
    <3> QED BY <1>1, <3>1, <3>2
  <2> QED BY <2>1, <2>2
<1>4. ASSUME NEW r \in Requests, InstanceEnd(r)
      PROVE  (connectionCount[i] = Cardinality(Connected(i)))'
  <2>1. connectionCount' = connectionCount
    BY <1>4 DEF InstanceEnd
  <2>2. ASSUME instance[r] = i PROVE connectionCount[i] > 0
    <3>1. r \in Connected(i)
      BY <1>4, <2>2 DEF InstanceEnd, Connected
    <3> QED BY <1>1, <3>1, ConnectedType
  <2>3. Connected(i)' = Connected(i)
    BY <1>1, <1>4, <2>2 DEF InstanceEnd, Leave, Connected
  <2> QED BY <1>1, <2>1, <2>3
<1>5. ASSUME NEW r \in Requests, Decrement(r)
      PROVE  (connectionCount[i] = Cardinality(Connected(i)))'
  <2>1. CASE instance[r] = i
    <3>1. r \in Connected(i) /\ Connected(i)' = Connected(i) \ {r}
      BY <1>5, <2>1 DEF Decrement, Leave, Connected
    <3>2. Cardinality(Connected(i))' = Cardinality(Connected(i)) - 1
      BY <3>1, ConnectedType, FS_RemoveElement
    <3>3. connectionCount'[i] = (connectionCount[i] + Word - 1) % Word
      BY <1>1, <1>5, <2>1 DEF Decrement, Listed
    <3>4. connectionCount[i] \in 1..(Word - 1)
      BY <1>1, <3>1, ConnectedType, WordType
    <3> QED BY <1>1, <3>2, <3>3, <3>4, MinusOne, WordType
  <2>2. CASE instance[r] # i
    <3>1. Connected(i)' = Connected(i)
      BY <1>5, <2>2 DEF Decrement, Leave, Connected
    <3>2. connectionCount'[i] = connectionCount[i]
      BY <1>1, <1>5, <2>2 DEF Decrement, Listed
    <3> QED BY <1>1, <3>1, <3>2
  <2> QED BY <2>1, <2>2
<1>6. CASE UpdateInstances
  <2>1. Connected(i)' = Connected(i)
    BY <1>6 DEF UpdateInstances, Replace, requestVars, Connected
  <2>2. i \in ElementsOf(writer)
    BY <1>6, ListType DEF UpdateInstances
  <2>3. connectionCount'[i] = connectionCount[i]
    BY <1>1, <1>6, <2>2 DEF UpdateInstances, Replace, Preserved
  <2> QED BY <1>1, <2>1, <2>3
<1>7. CASE UNCHANGED lbVars \/ \E list \in Lists : CallUpdate(list)
  <2>1. UNCHANGED <<connectionCount, pc, instance>>
    BY <1>7 DEF lbVars, requestVars, CallUpdate
  <2> QED BY <1>1, <2>1 DEF Connected
<1> QED BY <1>2, <1>3, <1>4, <1>5, <1>6, <1>7 DEF LBNext, RequestNext

\* InstanceBegin and InstanceEnd count the connections of an instance that stays
\* listed exactly, although UpdateInstances replaces the map of counters.
THEOREM CountedCorrect == LBSpec => []ConnectionsCounted
<1>1. LBInit => ConnectionsCounted
  <2> SUFFICES ASSUME LBInit, NEW i \in Permanent
               PROVE  connectionCount[i] = Cardinality(Connected(i))
    BY DEF ConnectionsCounted
  <2>1. Connected(i) = {}
    BY DEF LBInit, Connected
  <2>2. i \in ElementsOf(serviceInstances)
    BY ListType DEF LBInit
  <2> QED BY <2>1, <2>2, FS_EmptySet DEF LBInit
<1> QED BY <1>1, BalancerInit, BalancerStep, CountedStep, PTL DEF LBSpec
-----------------------------------------------------------------------------
(* Round robin                                                             *)

\* A number has one remainder.
LEMMA OneRemainder ==
    ASSUME NEW n \in Nat \ {0}, NEW a \in Int, NEW b \in Int,
           NEW r \in 0..(n - 1), NEW s \in 0..(n - 1), n * a + r = n * b + s
    PROVE  r = s
<1>1. CASE a < b
  <2>1. n * (b - a) >= n
    BY <1>1, Z3
  <2> QED BY <2>1, Z3
<1>2. CASE b < a
  <2>1. n * (a - b) >= n
    BY <1>2, Z3
  <2> QED BY <2>1, Z3
<1> QED BY <1>1, <1>2

\* A number is its quotient times the divisor and its remainder.
LEMMA Division ==
    ASSUME NEW n \in Nat \ {0}, NEW count \in Nat
    PROVE  /\ count = n * (count \div n) + (count % n)
           /\ count \div n \in Int /\ count % n \in 0..(n - 1)
  BY Z3

\* The next remainder: one more, and after the last the first.
LEMMA NextRemainder ==
    ASSUME NEW n \in Nat \ {0}, NEW count \in Nat
    PROVE  (count + 1) % n = IF count % n = n - 1 THEN 0 ELSE (count % n) + 1
<1>1. PICK q \in Int, r \in 0..(n - 1) : count = n * q + r /\ r = count % n
  BY Division
<1>2. PICK p \in Int, s \in 0..(n - 1) : count + 1 = n * p + s /\ s = (count + 1) % n
  <2>1. count + 1 \in Nat
    OBVIOUS
  <2> QED BY <2>1, Division
<1>3. CASE r = n - 1
  <2>1. n * p + s = n * (q + 1) + 0
    <3>1. n * p + s = n * q + n
      <4>1. n * p + s = n * q + r + 1
        BY <1>1, <1>2, Z3
      <4> QED BY <1>3, <4>1, Z3
    <3>2. n * (q + 1) = n * q + n
      BY Z3
    <3> QED BY <3>1, <3>2, Z3
  <2>2. q + 1 \in Int /\ 0 \in 0..(n - 1)
    OBVIOUS
  <2>3. s = 0
    BY <2>1, <2>2, OneRemainder
  <2> QED BY <1>1, <1>2, <1>3, <2>3
<1>4. CASE r # n - 1
  <2>1. n * p + s = n * q + (r + 1)
    BY <1>1, <1>2, Z3
  <2>2. r + 1 \in 0..(n - 1)
    BY <1>4
  <2>3. s = r + 1
    BY <2>1, <2>2, OneRemainder
  <2> QED BY <1>1, <1>2, <1>4, <2>3
<1> QED BY <1>3, <1>4

\* Whether position k, from 0, comes after first and not after last on a round of
\* the list.
Between(first, k, last) ==
    IF first <= last THEN first < k /\ k <= last ELSE first < k \/ k <= last

\* Since the list was replaced the counter went round it a number of times, and from
\* the position first, where it started, on to where it is now.
RoundInv ==
    lbType = "round_robin" /\ serviceInstances # <<>> =>
        LET n == Len(serviceInstances) IN
        \E laps \in Nat, first \in 0..(n - 1) :
            \A k \in 1..n : picks[serviceInstances[k]] =
                                laps + (IF Between(first, k - 1, counter % n) THEN 1 ELSE 0)

\* A selection picks the position after the last one; on reaching the first it
\* completes the lap.
LEMMA RoundRobinKeeps ==
    ASSUME BalancerOK, BalancerOK', RoundInv, NEW r \in Requests, GetByRoundRobin(r)
    PROVE  RoundInv'
<1> DEFINE n == Len(serviceInstances)
           last == counter % n
           new == (counter + 1) % n
<1> USE DEF BalancerOK, LBTypeOK
<1>1. /\ serviceInstances \in Lists /\ serviceInstances # <<>> /\ n \in Nat \ {0}
      /\ counter \in Nat /\ counter' = counter + 1 /\ lbType = "round_robin"
      /\ UNCHANGED <<lbType, serviceInstances>>
  BY ListType DEF GetByRoundRobin
<1>2. last \in 0..(n - 1) /\ new \in 0..(n - 1)
  BY <1>1, Remainders
<1>3. new = IF last = n - 1 THEN 0 ELSE last + 1
  BY <1>1, NextRemainder
<1>4. \A k \in 1..n : picks'[serviceInstances[k]] =
          IF k - 1 = new THEN picks[serviceInstances[k]] + 1 ELSE picks[serviceInstances[k]]
  <2>1. picks' = [picks EXCEPT ![serviceInstances[new + 1]] = @ + 1]
    BY <1>1 DEF GetByRoundRobin, IndexOf
  <2>2. new + 1 \in 1..n
    BY <1>1, <1>2
  <2>3. \A k, l \in 1..n : serviceInstances[k] = serviceInstances[l] => k = l
    BY <1>1 DEF Lists
  <2>4. \A k \in 1..n : serviceInstances[k] \in Instances
    BY <1>1, ListType
  <2> HIDE DEF new, n
  <2>5. ASSUME NEW k \in 1..n
        PROVE  picks'[serviceInstances[k]] =
                 IF k - 1 = new THEN picks[serviceInstances[k]] + 1 ELSE picks[serviceInstances[k]]
    <3>1. serviceInstances[k] = serviceInstances[new + 1] <=> k - 1 = new
      BY <1>1, <1>2, <2>2, <2>3
    <3> QED BY <2>1, <2>4, <3>1
  <2> QED BY <2>5
<1>5. PICK laps \in Nat, first \in 0..(n - 1) :
          \A k \in 1..n : picks[serviceInstances[k]] =
                              laps + (IF Between(first, k - 1, last) THEN 1 ELSE 0)
  BY <1>1 DEF RoundInv
<1> HIDE DEF last, new, n
<1>6. \E l \in Nat, f \in 0..(n - 1) :
          \A k \in 1..n : picks'[serviceInstances[k]] =
                              l + (IF Between(f, k - 1, new) THEN 1 ELSE 0)
  <2>1. CASE new = first
    <3>1. ASSUME NEW k \in 1..n
          PROVE  picks'[serviceInstances[k]] =
                     (laps + 1) + (IF Between(first, k - 1, new) THEN 1 ELSE 0)
      <4>1. ~Between(first, k - 1, new)
        BY <1>1, <1>2, <2>1 DEF Between
      <4>2. Between(first, k - 1, last) <=> k - 1 # new
        BY <1>1, <1>2, <1>3, <2>1 DEF Between
      <4> QED BY <1>4, <1>5, <4>1, <4>2
    <3>2. laps + 1 \in Nat
      OBVIOUS
    <3> QED BY <3>1, <3>2
  <2>2. CASE new # first
    <3>1. ASSUME NEW k \in 1..n
          PROVE  picks'[serviceInstances[k]] =
                     laps + (IF Between(first, k - 1, new) THEN 1 ELSE 0)
      <4>1. Between(first, k - 1, new) <=> k - 1 = new \/ Between(first, k - 1, last)
        BY <1>1, <1>2, <1>3, <2>2 DEF Between
      <4>2. ~Between(first, new, last)
        BY <1>1, <1>2, <1>3, <2>2 DEF Between
      <4> QED BY <1>4, <1>5, <4>1, <4>2
    <3> QED BY <3>1
  <2> QED BY <2>1, <2>2
<1> QED BY <1>1, <1>6 DEF RoundInv, n, new

\* On a list that was just installed no one is ahead.
LEMMA FreshRound ==
    LBTypeOK /\ (\A i \in ElementsOf(serviceInstances) : picks[i] = 0) => RoundInv
<1> SUFFICES ASSUME LBTypeOK, \A i \in ElementsOf(serviceInstances) : picks[i] = 0,
                    serviceInstances # <<>>
             PROVE  \E laps \in Nat, first \in 0..(Len(serviceInstances) - 1) :
                        \A k \in 1..Len(serviceInstances) : picks[serviceInstances[k]] =
                            laps + (IF Between(first, k - 1, counter % Len(serviceInstances))
                                    THEN 1 ELSE 0)
  BY DEF RoundInv
<1> DEFINE n == Len(serviceInstances)
           last == counter % n
<1>1. n \in Nat \ {0} /\ counter \in Nat
  BY ListType DEF LBTypeOK
<1>2. last \in 0..(n - 1)
  BY <1>1, Remainders
<1>3. \A k \in 1..n : picks[serviceInstances[k]] = 0
  BY DEF ElementsOf
<1> HIDE DEF last, n
<1>4. \A k \in 1..n : ~Between(last, k - 1, last)
  BY <1>1, <1>2 DEF Between
<1>5. \A k \in 1..n : picks[serviceInstances[k]] = 0 + (IF Between(last, k - 1, last) THEN 1 ELSE 0)
  BY <1>3, <1>4
<1> QED BY <1>2, <1>5 DEF last, n

\* Every step keeps the rounds.
LEMMA RoundStep == BalancerOK /\ BalancerOK' /\ RoundInv /\ [LBNext]_lbVars => RoundInv'
<1> SUFFICES ASSUME BalancerOK, BalancerOK', RoundInv, [LBNext]_lbVars PROVE RoundInv'
  OBVIOUS
<1>1. CASE UNCHANGED <<lbType, serviceInstances, counter, picks>>
  BY <1>1 DEF RoundInv
<1>2. ASSUME NEW r \in Requests, RequestNext(r), ~GetByRoundRobin(r)
      PROVE  UNCHANGED <<lbType, serviceInstances, counter, picks>>
  BY <1>2 DEF RequestNext, GetByRandom, StartScan, ScanNext, EndScan, InstanceBegin, InstanceEnd,
              Decrement
<1>3. CASE UpdateInstances
  <2>1. \A i \in ElementsOf(serviceInstances') : picks'[i] = 0
    BY <1>3, ListType DEF UpdateInstances, Replace, BalancerOK, LBTypeOK
  <2>2. (\A i \in ElementsOf(serviceInstances) : picks[i] = 0)'
    BY <2>1 DEF ElementsOf
  <2>3. (LBTypeOK /\ (\A i \in ElementsOf(serviceInstances) : picks[i] = 0) => RoundInv)'
    BY FreshRound, PTL
  <2> QED BY <2>2, <2>3 DEF BalancerOK
<1>4. CASE UNCHANGED lbVars \/ \E list \in Lists : CallUpdate(list)
  BY <1>1, <1>4 DEF lbVars, CallUpdate
<1> QED BY <1>1, <1>2, <1>3, <1>4, RoundRobinKeeps DEF LBNext

\* GetInstance's round robin is even on a list that is not replaced, for any number
\* of instances and of concurrent selections.
THEOREM RoundRobinCorrect == LBSpec => []RoundRobinEven
<1>1. LBInit => RoundInv
  <2>1. LBInit => \A i \in ElementsOf(serviceInstances) : picks[i] = 0
    BY ListType DEF LBInit
  <2> QED BY <2>1, BalancerInit, FreshRound DEF BalancerOK
<1>2. BalancerOK /\ RoundInv => RoundRobinEven
  <2> SUFFICES ASSUME BalancerOK, RoundInv, lbType = "round_robin",
                      NEW i \in ElementsOf(serviceInstances),
                      NEW j \in ElementsOf(serviceInstances)
               PROVE  picks[i] - picks[j] <= 1
    BY DEF RoundRobinEven
  <2>1. PICK k \in 1..Len(serviceInstances) : serviceInstances[k] = i
    BY DEF ElementsOf
  <2>2. PICK l \in 1..Len(serviceInstances) : serviceInstances[l] = j
    BY DEF ElementsOf
  <2>3. serviceInstances # <<>>
    BY <2>1
  <2>4. PICK laps \in Nat : /\ picks[i] \in {laps, laps + 1}
                            /\ picks[j] \in {laps, laps + 1}
    BY <2>1, <2>2, <2>3 DEF RoundInv
  <2> QED BY <2>4
<1> QED BY <1>1, <1>2, BalancerInit, BalancerStep, BalancerCorrect, RoundStep, PTL DEF LBSpec

-----------------------------------------------------------------------------
(* What makes a counter wrong                                              *)

\* When every instance stays listed no counter goes below zero: what the run
\* not_below_zero finds takes an instance that leaves the list and comes back while
\* a request still counts as its connection.
THEOREM NotBelowZeroWhenListed ==
    ASSUME Permanent = Instances
    PROVE  LBSpec => []NotBelowZero
<1>1. BalancerOK /\ ConnectionsCounted => NotBelowZero
  <2> SUFFICES ASSUME BalancerOK, ConnectionsCounted, NEW i \in DOMAIN connectionCount
               PROVE  connectionCount[i] <= Cardinality(Requests)
    BY DEF NotBelowZero
  <2>1. i \in Permanent
    BY ListType DEF BalancerOK, LBTypeOK
  <2>2. Connected(i) \subseteq Requests /\ IsFiniteSet(Requests)
    BY LoadBalancerAssumption DEF Connected
  <2> QED BY <2>1, <2>2, FS_Subset DEF ConnectionsCounted
<1> QED BY <1>1, BalancerCorrect, CountedCorrect, PTL
=============================================================================
