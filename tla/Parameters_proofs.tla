------------------------- MODULE Parameters_proofs -------------------------
(* Proofs about Parameters, for every set of components and parameters, every *)
(* limit and any number of troubles and requests.  The handlers are functions *)
(* of the record pm: one lemma each says what it makes of a record s and      *)
(* which facts about it are kept.                                             *)
EXTENDS Parameters, FiniteSetTheorems, SequenceTheorems, WellFoundedInduction, TLAPS

-----------------------------------------------------------------------------
(* Induction up to a limit, for sets: the theorems of the library take a      *)
(* predicate as a parameter, which the provers cannot give a value.  To show  *)
(* P(n) take the set of the numbers with P; the least without would follow    *)
(* one with it.                                                               *)
LEMMA UpToInduction ==
    ASSUME NEW limit \in Nat, NEW T, 0 \in T,
           \A n \in 0 .. (limit - 1) : n \in T => n + 1 \in T
    PROVE  \A n \in 0 .. limit : n \in T
  <1> DEFINE others == {n \in Nat : n <= limit /\ n \notin T}
  <1> SUFFICES ASSUME others # {} PROVE FALSE
    BY SMT
  <1>1. PICK n \in others : \A k \in others : <<k, n>> \notin OpToRel(<, Nat)
    BY WFMin, NatLessThanWellFounded
  <1>2. \A k \in others : k < n => <<k, n>> \in OpToRel(<, Nat)
    BY SMT DEF OpToRel
  <1>3. \A k \in others : ~(k < n)
    <2> HIDE DEF others
    <2> QED
      BY <1>1, <1>2, Zenon
  <1>4. n - 1 \in 0 .. (limit - 1) /\ n - 1 < n
    BY SMT
  <1>5. n - 1 \in T
    BY <1>3, <1>4, SMT
  <1> QED
    BY <1>4, <1>5

-----------------------------------------------------------------------------
(* The members of ParameterManager as a record of their types.                *)
Index == 0..Count[DefaultComponent] - 1
Contents == [Index -> Values]
Indices == {p[2] : p \in Params}
Waiting(limit) == UNION {[D -> 0..limit] : D \in SUBSET Params}

PmType ==
    [facts : [Params -> Values \cup {NoValue}], seen : SUBSET Components,
     waitingIndex : Waiting(MaxInitialLoadRetrySingleParam),
     waitingName : Waiting(MaxReadWriteRetry), waitingWrite : Waiting(MaxReadWriteRetry),
     failedIndex : SUBSET Params, batchActive : BOOLEAN, batchQueue : SUBSET Indices,
     prevReads : 0..2 * Cardinality(Params), initialTimer : BOOLEAN, waitingTimer : BOOLEAN,
     initialRetry : 0..MaxInitialRequestListRetry + 1, lastChance : BOOLEAN,
     complete : BOOLEAN, missing : BOOLEAN,
     cache : [Index -> Values \cup {NoValue}] \cup {NoCache}, tryFtp : BOOLEAN,
     downloading : BOOLEAN, listening : BOOLEAN, file : Contents \cup {NoCache},
     progress : {"None", "Slow", "Good"}, noResponse : BOOLEAN,
     writeFailed : SUBSET Params, readFailed : SUBSET Params,
     hashed : BOOLEAN, refused : BOOLEAN, out : Seq(Requests)]

(* The names of the members. *)
Members ==
    {"facts", "seen", "waitingIndex", "waitingName", "waitingWrite", "failedIndex",
     "batchActive", "batchQueue", "prevReads", "initialTimer", "waitingTimer", "initialRetry",
     "lastChance", "complete", "missing", "cache", "tryFtp", "downloading", "listening", "file",
     "progress", "noResponse", "writeFailed", "readFailed", "hashed", "refused", "out"}

(* A parameter waited for is of a component heard of, a write waited for is   *)
(* of a parameter known, and the batch keeps its size.                        *)
Waits(s) ==
    /\ \A p \in DOMAIN s.waitingIndex \cup DOMAIN s.waitingName \cup DOMAIN s.waitingWrite :
          p[1] \in s.seen
    /\ \A p \in DOMAIN s.waitingWrite : s.facts[p] # NoValue
    /\ Cardinality(s.batchQueue) <= MaxBatchSize + 1

(* Every parameter of a component heard of is known, waited for or given up.  *)
Accounted(s) ==
    \A p \in Params : p[1] \in s.seen =>
        s.facts[p] # NoValue \/ p \in DOMAIN s.waitingIndex \cup s.failedIndex

(* What a download brings is a file, and downloads are of vehicles with FTP.  *)
(* Only a second download cuts off the end of the first.                      *)
Files(s) ==
    /\ s.listening => s.downloading /\ s.file \in Contents
    /\ s.downloading => s.listening \/ s.refused
    /\ s.downloading => s.tryFtp
    /\ ~s.complete => s.cache \in Contents \cup {NoCache}
    /\ setup.firmware = "px4" => ~s.tryFtp

(* What the load goes on by, while it is neither complete nor given up.       *)
Loading(s) ==
    ~s.complete /\ ~s.noResponse =>
        /\ s.waitingTimer => s.seen # {}
        /\ s.tryFtp /\ DefaultKnown(s) => ~ListDone(s)
        /\ setup.firmware = "px4" /\ s.seen # {} => ~s.initialTimer

(* Once it has begun a timer runs or the download will call back, but for the *)
(* four gaps: a download refused while another one stopped the list timer,    *)
(* nothing after the hash, none of the autopilot's parameters in a round that *)
(* was the last, others waited for when the file came.                        *)
Pending(s) ==
    ~s.complete /\ ~s.noResponse =>
        \/ s.waitingTimer \/ s.initialTimer \/ s.listening
        \/ s.refused /\ s.progress # "None"
        \/ s.hashed /\ s.seen = {}
        \/ /\ s.seen # {} /\ ListDone(s) /\ ~DefaultKnown(s)
           /\ s.batchActive /\ ~s.lastChance
        \/ s.tryFtp /\ DefaultComponent \in s.seen /\ ~ListDone(s)

PmInv(s) == s \in PmType /\ Waits(s) /\ Accounted(s) /\ Files(s) /\ Loading(s)

(* Nothing happens on PX4 before the load begins.                             *)
Fresh ==
    setup.firmware = "px4" /\ begun # "Yes" =>
        /\ pm.seen = {} /\ ~pm.complete /\ ~pm.initialTimer /\ ~pm.waitingTimer
        /\ toVehicle = <<>> /\ stream = <<>> /\ toStation = <<>>

(* The hash is PX4's.                                                         *)
HashesAreOfPx4 ==
    setup.firmware = "apm" =>
        /\ \A i \in 1..Len(stream) : stream[i] # HashParam
        /\ \A i \in 1..Len(toStation) : toStation[i].type # "Hash"

LoadInv ==
    /\ TypeOK /\ PmInv(pm) /\ Fresh /\ HashesAreOfPx4
    /\ begun = "Yes" => Pending(pm)

-----------------------------------------------------------------------------
(* What is written and what the vehicle has                                   *)

Lasting == {p \in Params : ~(p[1] = DefaultComponent /\ p[2] \in Volatile)}

IsSet(m, p) == m.type = "Set" /\ m.param = p
IsValue(m, p) == m.type = "Value" /\ m.param = p
InFile(p) == p[1] = DefaultComponent /\ pm.file # NoCache

(* No value of a write yet to come is anywhere.                               *)
Future == (requests + 1)..MaxEvents
NothingOfTheFuture(p) ==
    /\ vehicle[p] \notin Future /\ pm.facts[p] \notin Future
    /\ InFile(p) => pm.file[p[2]] \notin Future
    /\ \A i \in 1..Len(toVehicle) : IsSet(toVehicle[i], p) => toVehicle[i].value \notin Future
    /\ \A i \in 1..Len(toStation) : IsValue(toStation[i], p) => toStation[i].value \notin Future

(* A parameter never written has its first value everywhere.                  *)
NeverWritten(p) ==
    /\ vehicle[p] = FirstValue
    /\ pm.facts[p] \in {NoValue, FirstValue}
    /\ InFile(p) => pm.file[p[2]] = FirstValue
    /\ p \notin DOMAIN pm.waitingWrite
    /\ \A i \in 1..Len(toVehicle) : ~IsSet(toVehicle[i], p)
    /\ \A i \in 1..Len(toStation) : IsValue(toStation[i], p) => toStation[i].value = FirstValue
    /\ p[1] = DefaultComponent =>
          \A i \in 1..Len(toStation) : toStation[i].type = "Hash" =>
              toStation[i].value[p[2]] = FirstValue

(* A write not disputed: what is heard of its value the vehicle has, behind   *)
(* its request there is none of another value, and it has arrived or is       *)
(* waited for or has been reported as failed.                                 *)
Holds(p) ==
    /\ pm.facts[p] = wanted[p]
    /\ InFile(p) /\ pm.file[p[2]] = wanted[p] => vehicle[p] = wanted[p]
    /\ \A i \in 1..Len(toStation) :
          IsValue(toStation[i], p) /\ toStation[i].value = wanted[p] => vehicle[p] = wanted[p]
    /\ \A j \in 1..Len(toVehicle) : IsSet(toVehicle[j], p) =>
          /\ vehicle[p] = wanted[p] => toVehicle[j].value = wanted[p]
          /\ \A i \in 1..(j - 1) : IsSet(toVehicle[i], p) /\ toVehicle[i].value = wanted[p] =>
                toVehicle[j].value = wanted[p]
    /\ vehicle[p] = wanted[p] \/ p \in DOMAIN pm.waitingWrite \cup pm.writeFailed

ValuesInv ==
    /\ troubles + requests <= MaxEvents
    /\ (\E p \in Params : wanted[p] # NoValue) => pm.complete
    /\ \A p \in Lasting :
          /\ NothingOfTheFuture(p)
          /\ wanted[p] = NoValue => NeverWritten(p)
          /\ wanted[p] # NoValue /\ p \notin disputed => Holds(p)

-----------------------------------------------------------------------------
(* Parameters, their sets and their order                                     *)

(* What a record of that type has, whatever its members are. *)
LEMMA MemberFacts ==
  ASSUME NEW s \in PmType
  PROVE  DOMAIN s = Members
  BY DEF PmType, Members

LEMMA ParamFacts ==
    ASSUME NEW p \in Params
    PROVE  /\ p = <<p[1], p[2]>> /\ p[1] \in Components /\ p \in ParamsOf(p[1])
           /\ p[1] \in Nat /\ p[2] \in Nat /\ Count[p[1]] \in Nat /\ p[2] < Count[p[1]]
  <1>1. PICK c \in Components : p \in ParamsOf(c)
    BY DEF Params
  <1>2. c \in Nat /\ Count[c] \in Nat
    BY ParameterAssumption
  <1> QED  BY <1>1, <1>2 DEF ParamsOf

LEMMA OwnParams ==
    ASSUME NEW c \in Components, NEW p \in ParamsOf(c)
    PROVE  p \in Params /\ p[1] = c /\ p[2] \in 0..Count[c] - 1
  BY DEF ParamsOf, Params

LEMMA ParamsFinite ==
    /\ IsFiniteSet(Params) /\ Cardinality(Params) \in Nat
    /\ IsFiniteSet(Indices)
  <1> DEFINE own == [c \in Components |-> ParamsOf(c)]
             sets == {ParamsOf(c) : c \in Components}
             index == [p \in Params |-> p[2]]
  <1>1. own \in Surjection(Components, sets)
    BY DEF Surjection
  <1>2. IsFiniteSet(sets)
    BY <1>1, ParameterAssumption, FS_Surjection
  <1>3. ASSUME NEW T \in sets PROVE IsFiniteSet(T)
    <2>1. PICK c \in Components : T = ParamsOf(c)
      OBVIOUS
    <2>2. Count[c] \in Nat
      BY ParameterAssumption
    <2>3. IsFiniteSet({c})
      BY FS_Singleton
    <2>4. IsFiniteSet(0..Count[c] - 1)
      BY <2>2, FS_Interval
    <2> QED  BY <2>1, <2>3, <2>4, FS_Product DEF ParamsOf
  <1>4. IsFiniteSet(Params)
    <2>1. IsFiniteSet(UNION sets)
      BY <1>2, <1>3, FS_UNION
    <2> QED  BY <2>1 DEF Params
  <1>5. index \in Surjection(Params, Indices)
    BY DEF Surjection, Indices
  <1>6. IsFiniteSet(Indices)
    BY <1>4, <1>5, FS_Surjection
  <1> QED  BY <1>4, <1>6, FS_CardinalityType

(* The k-th in order is the one that k - 1 others are before.  The numbers of *)
(* those before differ, so each number below the cardinality is met.          *)
LEMMA InOrderFacts ==
    ASSUME NEW S \in SUBSET Params
    PROVE  /\ InOrder(S) \in Seq(S) /\ Len(InOrder(S)) = Cardinality(S)
           /\ \A p \in S : \E k \in 1..Len(InOrder(S)) : InOrder(S)[k] = p
           /\ \A j, k \in 1..Len(InOrder(S)) : InOrder(S)[j] = InOrder(S)[k] => j = k
  <1> DEFINE count == Cardinality(S)
             rank == [p \in S |-> Cardinality(Earlier(S, p))]
             order == InOrder(S)
  <1>1. IsFiniteSet(S) /\ count \in Nat
    BY ParamsFinite, FS_Subset, FS_CardinalityType
  <1>2. ASSUME NEW p \in S
        PROVE  /\ IsFiniteSet(Earlier(S, p)) /\ rank[p] \in Nat /\ rank[p] \in 0..count - 1
    <2>1. p \notin Earlier(S, p) /\ Earlier(S, p) \subseteq S
      BY ParamFacts DEF Earlier, Before
    <2>2. IsFiniteSet(S \ {p}) /\ Cardinality(S \ {p}) = count - 1
      BY <1>1, FS_RemoveElement
    <2>3. IsFiniteSet(Earlier(S, p)) /\ Cardinality(Earlier(S, p)) <= count - 1
      BY <2>1, <2>2, FS_Subset
    <2>4. Cardinality(Earlier(S, p)) \in Nat
      BY <2>3, FS_CardinalityType
    <2> QED  BY <1>1, <2>3, <2>4
  <1>3. ASSUME NEW p \in S, NEW q \in S, Before(p, q) PROVE rank[p] < rank[q]
    <2>1. Earlier(S, p) \subseteq Earlier(S, q) /\ p \in Earlier(S, q) /\ p \notin Earlier(S, p)
      BY <1>3, ParamFacts DEF Earlier, Before
    <2>2. rank[p] <= rank[q] /\ rank[p] # rank[q]
      BY <1>2, <2>1, FS_Subset
    <2> QED  BY <1>2, <2>2
  <1>4. ASSUME NEW p \in S, NEW q \in S, p # q PROVE rank[p] # rank[q]
    <2>1. Before(p, q) \/ Before(q, p)
      BY <1>4, ParamFacts DEF Before
    <2> QED  BY <1>2, <1>3, <2>1
  <1>5. rank \in Injection(S, 0..count - 1)
    BY <1>2, <1>4 DEF Injection, IsInjective
  <1>6. rank \in Surjection(S, 0..count - 1)
    <2>1. IsFiniteSet(0..count - 1) /\ Cardinality(0..count - 1) = count
      BY <1>1, FS_Interval, SMTT(60)
    <2> QED  BY <1>5, <2>1, FS_Injection
  <1>7. ASSUME NEW k \in 1..count PROVE order[k] \in S /\ rank[order[k]] = k - 1
    <2>1. k - 1 \in 0..count - 1
      BY <1>1
    <2>2. \E p \in S : rank[p] = k - 1
      BY <1>6, <2>1 DEF Surjection
    <2>3. order[k] = CHOOSE p \in S : Cardinality(Earlier(S, p)) = k - 1
      BY DEF InOrder
    <2>4. \E p \in S : Cardinality(Earlier(S, p)) = k - 1
      BY <2>2
    <2> QED  BY <2>3, <2>4
  <1>8. order \in Seq(S) /\ Len(order) = count
    <2>1. order = [k \in 1..count |-> order[k]]
      BY DEF InOrder
    <2> HIDE DEF order, count
    <2>2. order \in [1..count -> S]
      BY <1>7, <2>1
    <2> QED  BY <1>1, <2>2
  <1>9. ASSUME NEW p \in S PROVE \E k \in 1..count : order[k] = p
    <2>1. rank[p] + 1 \in 1..count
      BY <1>1, <1>2
    <2>2. order[rank[p] + 1] \in S /\ rank[order[rank[p] + 1]] = rank[p]
      BY <1>2, <1>7, <2>1
    <2> HIDE DEF rank, order
    <2> QED  BY <1>4, <2>1, <2>2
  <1>10. ASSUME NEW j \in 1..count, NEW k \in 1..count, order[j] = order[k] PROVE j = k
    <2>1. j - 1 = k - 1
      BY <1>7, <1>10
    <2> QED  BY <1>1, <2>1
  <1> QED  BY <1>8, <1>9, <1>10

(* Maps of parameters waited for.                                             *)
LEMMA WaitingFacts ==
    ASSUME NEW limit, NEW f \in Waiting(limit)
    PROVE  /\ f \in [DOMAIN f -> 0..limit] /\ DOMAIN f \subseteq Params
           /\ IsFiniteSet(DOMAIN f) /\ Cardinality(DOMAIN f) \in 0..Cardinality(Params)
  <1>1. PICK D \in SUBSET Params : f \in [D -> 0..limit]
    BY DEF Waiting
  <1>2. DOMAIN f = D
    BY <1>1
  <1>3. IsFiniteSet(D) /\ Cardinality(D) \in 0..Cardinality(Params)
    BY ParamsFinite, FS_Subset, FS_CardinalityType
  <1> QED  BY <1>1, <1>2, <1>3

LEMMA WithoutFacts ==
    ASSUME NEW limit, NEW f \in Waiting(limit), NEW S
    PROVE  Without(f, S) \in Waiting(limit) /\ DOMAIN Without(f, S) = DOMAIN f \ S
  <1>1. Without(f, S) \in [DOMAIN f \ S -> 0..limit]
    BY WaitingFacts DEF Without
  <1>2. DOMAIN f \ S \in SUBSET Params
    BY WaitingFacts
  <1> QED  BY <1>1, <1>2 DEF Waiting

LEMMA WithNewFacts ==
    ASSUME NEW limit \in Nat, NEW f \in Waiting(limit), NEW S \in SUBSET Params
    PROVE  WithNew(f, S) \in Waiting(limit) /\ DOMAIN WithNew(f, S) = DOMAIN f \cup S
  <1>1. WithNew(f, S) \in [DOMAIN f \cup S -> 0..limit]
    BY WaitingFacts DEF WithNew
  <1>2. DOMAIN f \cup S \in SUBSET Params
    BY WaitingFacts
  <1> QED  BY <1>1, <1>2 DEF Waiting

LEMMA LimitsAreNumbers ==
    /\ MaxInitialRequestListRetry \in Nat /\ MaxInitialLoadRetrySingleParam \in Nat
    /\ MaxReadWriteRetry \in Nat /\ MaxBatchSize \in Nat
  BY ParameterAssumption

-----------------------------------------------------------------------------
(* What a handler sends                                                       *)

SetsOf(q) == {q[i] : i \in {j \in 1..Len(q) : q[j].type = "Set"}}

LEMMA AppendFacts ==
    ASSUME NEW q \in Seq(Requests), NEW m \in Requests, m.type # "Set"
    PROVE  Append(q, m) \in Seq(Requests) /\ SetsOf(Append(q, m)) = SetsOf(q)
  <1> DEFINE t == Append(q, m)
  <1>1. t \in Seq(Requests) /\ Len(t) = Len(q) + 1 /\ Len(q) \in Nat
    OBVIOUS
  <1>2. \A i \in 1..Len(q) : t[i] = q[i]
    OBVIOUS
  <1>3. t[Len(t)] = m
    OBVIOUS
  <1> HIDE DEF t
  <1>4. {j \in 1..Len(t) : t[j].type = "Set"} = {j \in 1..Len(q) : q[j].type = "Set"}
    BY <1>1, <1>2, <1>3
  <1>5. SetsOf(t) = SetsOf(q)
    BY <1>2, <1>4 DEF SetsOf
  <1> QED  BY <1>1, <1>5 DEF t

LEMMA RequestFacts ==
    /\ \A p \in Params : ReadRequest(p) \in Requests /\ ReadRequest(p).type # "Set"
    /\ \A p \in Params, v \in Values : SetRequest(p, v) \in Requests
    /\ \A c \in Components \cup {AllComponents} :
          ListRequest(c) \in Requests /\ ListRequest(c).type # "Set"
    /\ HashAnswer \in Requests /\ HashAnswer.type # "Set"
  BY DEF ReadRequest, SetRequest, ListRequest, HashAnswer, Requests

-----------------------------------------------------------------------------
(* _fillIndexBatchQueue                                                       *)

(* What AskFor makes of t: p is asked for, or has been, or is given up.        *)
AskedFor(t, p, u) ==
    /\ u \in PmType
    /\ u = [t EXCEPT !.waitingIndex = u.waitingIndex, !.failedIndex = u.failedIndex,
                     !.batchQueue = u.batchQueue, !.out = u.out]
    /\ SetsOf(u.out) = SetsOf(t.out)
    /\ Cardinality(u.batchQueue) <= MaxBatchSize + 1
    /\ \/ /\ DOMAIN u.waitingIndex = DOMAIN t.waitingIndex /\ u.failedIndex = t.failedIndex
          /\ u.batchQueue # {}
       \/ /\ DOMAIN u.waitingIndex = DOMAIN t.waitingIndex \ {p}
          /\ u.failedIndex = t.failedIndex \cup {p} /\ u.batchQueue = t.batchQueue

LEMMA AskForFacts ==
    ASSUME NEW t \in PmType, NEW p \in DOMAIN t.waitingIndex,
           Cardinality(t.batchQueue) <= MaxBatchSize + 1
    PROVE  AskedFor(t, p, AskFor(t, p))
  <1> DEFINE u == AskFor(t, p)
  <1>1. t.waitingIndex \in Waiting(MaxInitialLoadRetrySingleParam)
    BY DEF PmType
  <1>2. /\ t.waitingIndex \in [DOMAIN t.waitingIndex -> 0..MaxInitialLoadRetrySingleParam]
        /\ DOMAIN t.waitingIndex \subseteq Params
        /\ t.waitingIndex[p] \in 0..MaxInitialLoadRetrySingleParam
        /\ Without(t.waitingIndex, {p}) \in Waiting(MaxInitialLoadRetrySingleParam)
        /\ DOMAIN Without(t.waitingIndex, {p}) = DOMAIN t.waitingIndex \ {p}
    <2>1. t.waitingIndex \in [DOMAIN t.waitingIndex -> 0..MaxInitialLoadRetrySingleParam]
          /\ DOMAIN t.waitingIndex \subseteq Params
      BY <1>1, WaitingFacts
    <2>2. t.waitingIndex[p] \in 0..MaxInitialLoadRetrySingleParam
      BY <2>1
    <2>3. /\ Without(t.waitingIndex, {p}) \in Waiting(MaxInitialLoadRetrySingleParam)
          /\ DOMAIN Without(t.waitingIndex, {p}) = DOMAIN t.waitingIndex \ {p}
      BY <1>1, WithoutFacts
    <2> QED  BY <2>1, <2>2, <2>3
  <1>3. p \in Params
    BY <1>2
  <1>4. t.batchQueue \subseteq Indices /\ p[2] \in Indices /\ IsFiniteSet(t.batchQueue)
    BY <1>3, ParamsFinite, FS_Subset DEF PmType, Indices
  <1>5. MaxBatchSize \in Nat /\ MaxInitialLoadRetrySingleParam \in Nat
    BY LimitsAreNumbers
  <1>6. t.out \in Seq(Requests)
    BY DEF PmType
  <1>7. CASE p[2] \in t.batchQueue \/ Cardinality(t.batchQueue) > MaxBatchSize
    <2>1. u = t
      BY <1>7 DEF AskFor
    <2>2. t.batchQueue # {}
      <3>1. Cardinality({}) = 0 /\ ~(0 > MaxBatchSize)
        BY <1>5, FS_EmptySet
      <3> QED  BY <1>7, <3>1
    <2>3. t = [t EXCEPT !.waitingIndex = t.waitingIndex, !.failedIndex = t.failedIndex,
                        !.batchQueue = t.batchQueue, !.out = t.out]
      BY DEF PmType
    <2> QED  BY <2>1, <2>2, <2>3 DEF AskedFor
  <1>8. CASE /\ ~(p[2] \in t.batchQueue \/ Cardinality(t.batchQueue) > MaxBatchSize)
             /\ t.waitingIndex[p] >= MaxInitialLoadRetrySingleParam
    <2>1. u = [t EXCEPT !.failedIndex = @ \cup {p}, !.waitingIndex = Without(@, {p})]
      BY <1>8 DEF AskFor
    <2> HIDE DEF u
    <2>2. /\ u.failedIndex = t.failedIndex \cup {p}
          /\ u.waitingIndex = Without(t.waitingIndex, {p})
          /\ u.batchQueue = t.batchQueue /\ u.out = t.out
      BY <2>1 DEF PmType
    <2>3. u \in PmType
      BY <1>2, <1>3, <2>1, ZenonT(60) DEF PmType
    <2>4. u = [t EXCEPT !.waitingIndex = u.waitingIndex, !.failedIndex = u.failedIndex,
                        !.batchQueue = u.batchQueue, !.out = u.out]
      BY <2>1, <2>2 DEF PmType
    <2>5. AskedFor(t, p, u)
      BY <1>2, <2>2, <2>3, <2>4 DEF AskedFor
    <2> QED  BY <2>5 DEF u
  <1>9. CASE /\ ~(p[2] \in t.batchQueue \/ Cardinality(t.batchQueue) > MaxBatchSize)
             /\ ~(t.waitingIndex[p] >= MaxInitialLoadRetrySingleParam)
    <2>1. u = [t EXCEPT !.waitingIndex[p] = @ + 1, !.batchQueue = @ \cup {p[2]},
                        !.out = Append(@, ReadRequest(p))]
      BY <1>9 DEF AskFor
    <2> HIDE DEF u
    <2>2. /\ u.failedIndex = t.failedIndex
          /\ u.waitingIndex = [t.waitingIndex EXCEPT ![p] = @ + 1]
          /\ u.batchQueue = t.batchQueue \cup {p[2]} /\ u.out = Append(t.out, ReadRequest(p))
      BY <2>1 DEF PmType
    <2>3. DOMAIN u.waitingIndex = DOMAIN t.waitingIndex
          /\ u.waitingIndex \in [DOMAIN t.waitingIndex -> 0..MaxInitialLoadRetrySingleParam]
      <3>1. t.waitingIndex[p] + 1 \in 0..MaxInitialLoadRetrySingleParam
        BY <1>2, <1>5, <1>9
      <3> QED  BY <1>2, <2>2, <3>1
    <2>4. u.waitingIndex \in Waiting(MaxInitialLoadRetrySingleParam)
      BY <1>2, <2>3 DEF Waiting
    <2>5. u.out \in Seq(Requests) /\ SetsOf(u.out) = SetsOf(t.out)
      BY <1>3, <1>6, <2>2, AppendFacts, RequestFacts
    <2>6. u \in PmType
      BY <1>4, <2>1, <2>2, <2>4, <2>5, ZenonT(60) DEF PmType
    <2>7. u = [t EXCEPT !.waitingIndex = u.waitingIndex, !.failedIndex = u.failedIndex,
                        !.batchQueue = u.batchQueue, !.out = u.out]
      BY <2>1, <2>2, MemberFacts, ZenonT(60) DEF Members
    <2>8. Cardinality(u.batchQueue) <= MaxBatchSize + 1 /\ u.batchQueue # {}
      <3>1. Cardinality(u.batchQueue) = Cardinality(t.batchQueue) + 1
        BY <1>4, <1>9, <2>2, FS_AddElement, ZenonT(60)
      <3>2. Cardinality(t.batchQueue) \in Nat
        BY <1>4, FS_CardinalityType
      <3> QED  BY <1>5, <1>9, <2>2, <3>1, <3>2
    <2>9. AskedFor(t, p, u)
      BY <2>2, <2>3, <2>5, <2>6, <2>7, <2>8 DEF AskedFor
    <2> QED  BY <2>9 DEF u
  <1> QED  BY <1>7, <1>8, <1>9

(* t is s after the first n of those waited for.                              *)
FilledTo(s, order, t, n) ==
    /\ t \in PmType
    /\ t = [s EXCEPT !.waitingIndex = t.waitingIndex, !.failedIndex = t.failedIndex,
                     !.batchQueue = t.batchQueue, !.out = t.out]
    /\ SetsOf(t.out) = SetsOf(s.out)
    /\ Cardinality(t.batchQueue) <= MaxBatchSize + 1
    /\ DOMAIN t.waitingIndex \subseteq DOMAIN s.waitingIndex
    /\ DOMAIN s.waitingIndex \subseteq DOMAIN t.waitingIndex \cup t.failedIndex
    /\ s.failedIndex \subseteq t.failedIndex
    /\ \A k \in 1..Len(order) : k > n => order[k] \in DOMAIN t.waitingIndex
    /\ t.batchQueue = {} =>
          \A k \in 1..Len(order) : k <= n => order[k] \notin DOMAIN t.waitingIndex

LEMMA FilledFurther ==
    ASSUME NEW s \in PmType, NEW S, NEW order \in Seq(S),
           \A j, k \in 1..Len(order) : order[j] = order[k] => j = k,
           NEW n \in Nat, n + 1 \in 1..Len(order),
           NEW t, FilledTo(s, order, t, n), NEW u, AskedFor(t, order[n + 1], u)
    PROVE  FilledTo(s, order, u, n + 1)
  <1>1. u \in PmType /\ SetsOf(u.out) = SetsOf(s.out)
        /\ Cardinality(u.batchQueue) <= MaxBatchSize + 1
    BY DEF FilledTo, AskedFor
  <1>2. u = [s EXCEPT !.waitingIndex = u.waitingIndex, !.failedIndex = u.failedIndex,
                      !.batchQueue = u.batchQueue, !.out = u.out]
    <2>1. t = [s EXCEPT !.waitingIndex = t.waitingIndex, !.failedIndex = t.failedIndex,
                        !.batchQueue = t.batchQueue, !.out = t.out]
      BY DEF FilledTo
    <2>2. u = [t EXCEPT !.waitingIndex = u.waitingIndex, !.failedIndex = u.failedIndex,
                        !.batchQueue = u.batchQueue, !.out = u.out]
      BY DEF AskedFor
    <2> QED  BY <2>1, <2>2, ZenonT(60) DEF PmType
  <1>3. \/ /\ DOMAIN u.waitingIndex = DOMAIN t.waitingIndex /\ u.failedIndex = t.failedIndex
           /\ u.batchQueue # {}
        \/ /\ DOMAIN u.waitingIndex = DOMAIN t.waitingIndex \ {order[n + 1]}
           /\ u.failedIndex = t.failedIndex \cup {order[n + 1]} /\ u.batchQueue = t.batchQueue
    BY DEF AskedFor
  <1>4. /\ DOMAIN u.waitingIndex \subseteq DOMAIN s.waitingIndex
        /\ DOMAIN s.waitingIndex \subseteq DOMAIN u.waitingIndex \cup u.failedIndex
        /\ s.failedIndex \subseteq u.failedIndex
    BY <1>3 DEF FilledTo
  <1>5. ASSUME NEW k \in 1..Len(order), k > n + 1 PROVE order[k] \in DOMAIN u.waitingIndex
    <2>1. order[k] \in DOMAIN t.waitingIndex /\ order[k] # order[n + 1]
      BY <1>5 DEF FilledTo
    <2> QED  BY <1>3, <2>1
  <1>6. ASSUME u.batchQueue = {}, NEW k \in 1..Len(order), k <= n + 1
        PROVE  order[k] \notin DOMAIN u.waitingIndex
    <2>1. DOMAIN u.waitingIndex = DOMAIN t.waitingIndex \ {order[n + 1]} /\ t.batchQueue = {}
      BY <1>3, <1>6
    <2>2. k = n + 1 \/ k <= n
      BY <1>6
    <2> QED  BY <2>1, <2>2 DEF FilledTo
  <1> QED  BY <1>1, <1>2, <1>4, <1>5, <1>6 DEF FilledTo

(* The walk that fills the queue, from any record that is s filled by nothing. *)
LEMMA FilledAll ==
    ASSUME NEW s \in PmType, s.batchActive, Cardinality(s.batchQueue) <= MaxBatchSize + 1
    PROVE  LET order == InOrder(DOMAIN s.waitingIndex)
           IN FilledTo(s, order, FillIndexBatchQueue(s), Len(order))
  <1> DEFINE order == InOrder(DOMAIN s.waitingIndex)
             count == Len(order)
             Step(f, n) == IF n = 0 THEN s ELSE AskFor(f[n - 1], order[n])
             Fills(f, m) == f = [n \in 0..m |-> Step(f, n)]
             T == {m \in 0..count : \E f : Fills(f, m)}
             filled == CHOOSE f : Fills(f, count)
  <1>1. DOMAIN s.waitingIndex \in SUBSET Params
    BY WaitingFacts DEF PmType
  <1>2. /\ order \in Seq(DOMAIN s.waitingIndex) /\ count \in Nat
        /\ \A p \in DOMAIN s.waitingIndex : \E k \in 1..Len(order) : order[k] = p
        /\ \A j, k \in 1..Len(order) : order[j] = order[k] => j = k
    BY <1>1, InOrderFacts
  <1> HIDE DEF order
  <1>3. 0 \in T
    <2> DEFINE f == [n \in 0..0 |-> s]
    <2>1. \A n \in 0..0 : f[n] = s /\ Step(f, n) = s
      OBVIOUS
    <2> HIDE DEF Step
    <2>2. f = [n \in 0..0 |-> Step(f, n)]
      BY <2>1
    <2>3. 0 \in 0..count
      BY <1>2
    <2> HIDE DEF f
    <2> QED  BY <2>2, <2>3
  <1>4. ASSUME NEW m \in 0..(count - 1), m \in T PROVE m + 1 \in T
    <2>1. PICK f : Fills(f, m)
      BY <1>4
    <2> DEFINE g == [n \in 0..(m + 1) |-> IF n = m + 1 THEN AskFor(f[m], order[m + 1])
                                          ELSE f[n]]
    <2>2. \A n \in 0..m : f[n] = Step(f, n)
      BY <2>1
    <2>3. m \in Nat /\ m < count
      BY <1>2
    <2>4. ASSUME NEW n \in 0..(m + 1) PROVE g[n] = Step(g, n)
      <3>1. CASE n = m + 1
        <4>1. g[n] = AskFor(f[m], order[m + 1]) /\ g[m] = f[m]
          BY <2>3, <3>1
        <4>2. n # 0 /\ n - 1 = m
          BY <2>3, <3>1
        <4> QED  BY <3>1, <4>1, <4>2
      <3>2. CASE n \in 0..m
        <4>1. g[n] = f[n] /\ (n # 0 => g[n - 1] = f[n - 1])
          BY <2>3, <3>2
        <4> QED  BY <2>2, <3>2, <4>1
      <3> QED  BY <2>3, <3>1, <3>2
    <2>5. g = [n \in 0..(m + 1) |-> Step(g, n)]
      BY <2>4
    <2>6. m + 1 \in 0..count
      BY <1>2, <2>3
    <2> HIDE DEF g, Step
    <2> QED  BY <2>5, <2>6
  <1>5. count \in T
    <2> HIDE DEF T
    <2>1. \A n \in 0..count : n \in T
      BY <1>2, <1>3, <1>4, UpToInduction
    <2> QED  BY <1>2, <2>1
  <1>6. Fills(filled, count)
    <2> HIDE DEF Step
    <2> QED  BY <1>5
  <1>7. FillIndexBatchQueue(s) = filled[count]
    BY DEF FillIndexBatchQueue, order
  <1> HIDE DEF filled
  <1>8. filled[0] = s /\ \A n \in 0..(count - 1) : filled[n + 1] = AskFor(filled[n], order[n + 1])
    <2>1. \A n \in 0..count : filled[n] = Step(filled, n)
      BY <1>6
    <2>2. filled[0] = s
      BY <1>2, <2>1
    <2>3. ASSUME NEW n \in 0..(count - 1)
          PROVE  filled[n + 1] = AskFor(filled[n], order[n + 1])
      <3>1. n + 1 \in 0..count /\ n + 1 # 0 /\ (n + 1) - 1 = n
        BY <1>2
      <3>2. filled[n + 1] = Step(filled, n + 1)
        BY <2>1, <3>1
      <3> QED  BY <3>1, <3>2
    <2> QED  BY <2>2, <2>3
  <1> DEFINE U == {n \in 0..count : FilledTo(s, order, filled[n], n)}
  <1>9. 0 \in U
    <2>1. s = [s EXCEPT !.waitingIndex = s.waitingIndex, !.failedIndex = s.failedIndex,
                        !.batchQueue = s.batchQueue, !.out = s.out]
      BY DEF PmType
    <2>2. \A k \in 1..Len(order) : order[k] \in DOMAIN s.waitingIndex /\ ~(k <= 0)
      BY <1>2
    <2>3. FilledTo(s, order, s, 0)
      BY <2>1, <2>2 DEF FilledTo
    <2> QED  BY <1>2, <1>8, <2>3
  <1>10. ASSUME NEW n \in 0..(count - 1), n \in U PROVE n + 1 \in U
    <2>1. n \in Nat /\ n + 1 \in 1..Len(order) /\ n + 1 \in 0..count
      BY <1>2
    <2>2. FilledTo(s, order, filled[n], n)
      BY <1>10
    <2>3. filled[n] \in PmType /\ order[n + 1] \in DOMAIN filled[n].waitingIndex
          /\ Cardinality(filled[n].batchQueue) <= MaxBatchSize + 1
      BY <2>1, <2>2 DEF FilledTo
    <2>4. AskedFor(filled[n], order[n + 1], filled[n + 1])
      BY <1>8, <2>3, AskForFacts
    <2>5. FilledTo(s, order, filled[n + 1], n + 1)
      BY <1>2, <2>1, <2>2, <2>4, FilledFurther
    <2> QED  BY <2>1, <2>5
  <1> HIDE DEF U
  <1>11. \A n \in 0..count : n \in U
    BY <1>2, <1>9, <1>10, UpToInduction
  <1>12. count \in 0..count
    BY <1>2
  <1>13. FilledTo(s, order, filled[count], count)
    BY <1>11, <1>12 DEF U
  <1> QED  BY <1>7, <1>13 DEF order

(* What _fillIndexBatchQueue makes of s: when nothing is asked for, nothing   *)
(* is waited for.                                                             *)
Filled(s, t) ==
    /\ t \in PmType
    /\ t = [s EXCEPT !.waitingIndex = t.waitingIndex, !.failedIndex = t.failedIndex,
                     !.batchQueue = t.batchQueue, !.out = t.out]
    /\ SetsOf(t.out) = SetsOf(s.out)
    /\ Cardinality(t.batchQueue) <= MaxBatchSize + 1
    /\ DOMAIN t.waitingIndex \subseteq DOMAIN s.waitingIndex
    /\ DOMAIN s.waitingIndex \subseteq DOMAIN t.waitingIndex \cup t.failedIndex
    /\ s.failedIndex \subseteq t.failedIndex
    /\ s.batchActive /\ t.batchQueue = {} => DOMAIN t.waitingIndex = {}

LEMMA FillFacts ==
    ASSUME NEW s \in PmType, Cardinality(s.batchQueue) <= MaxBatchSize + 1
    PROVE  Filled(s, FillIndexBatchQueue(s))
  <1> DEFINE order == InOrder(DOMAIN s.waitingIndex)
             t == FillIndexBatchQueue(s)
  <1>1. DOMAIN s.waitingIndex \in SUBSET Params
    BY WaitingFacts DEF PmType
  <1>2. CASE s.batchActive
    <2>1. FilledTo(s, order, t, Len(order))
      BY <1>2, FilledAll
    <2>2. Len(order) \in Nat
          /\ \A p \in DOMAIN s.waitingIndex : \E k \in 1..Len(order) : order[k] = p
      BY <1>1, InOrderFacts
    <2> HIDE DEF order, t
    <2>3. ASSUME t.batchQueue = {}, NEW p \in DOMAIN t.waitingIndex PROVE FALSE
      <3>1. p \in DOMAIN s.waitingIndex
        BY <2>1 DEF FilledTo
      <3>2. PICK k \in 1..Len(order) : order[k] = p
        BY <2>2, <3>1
      <3>3. k <= Len(order)
        BY <2>2
      <3> QED  BY <2>1, <2>3, <3>2, <3>3 DEF FilledTo
    <2>4. Filled(s, t)
      BY <2>1, <2>3 DEF FilledTo, Filled
    <2> QED  BY <2>4 DEF t
  <1>3. CASE ~s.batchActive
    <2>1. t = s
      BY <1>3 DEF FillIndexBatchQueue
    <2>2. s = [s EXCEPT !.waitingIndex = s.waitingIndex, !.failedIndex = s.failedIndex,
                        !.batchQueue = s.batchQueue, !.out = s.out]
      BY DEF PmType
    <2> QED  BY <1>3, <2>1, <2>2 DEF Filled
  <1> QED  BY <1>2, <1>3

-----------------------------------------------------------------------------
(* _handleParamValue                                                          *)

(* The waiting list after the answer: the rest is waited for still, or given  *)
(* up, and a component heard of for the first time is waited for as a whole.  *)
Answered(s, p, t) ==
    /\ t \in PmType
    /\ t = [s EXCEPT !.seen = @ \cup {p[1]}, !.waitingIndex = t.waitingIndex,
                     !.failedIndex = t.failedIndex, !.batchQueue = t.batchQueue,
                     !.out = t.out]
    /\ SetsOf(t.out) = SetsOf(s.out)
    /\ Cardinality(t.batchQueue) <= MaxBatchSize + 1
    /\ \A q \in DOMAIN t.waitingIndex : q \in DOMAIN s.waitingIndex \/ q[1] = p[1]
    /\ \A q \in Params \ {p} :
          q \in DOMAIN s.waitingIndex \cup s.failedIndex \/ (q[1] = p[1] /\ p[1] \notin s.seen) =>
              q \in DOMAIN t.waitingIndex \cup t.failedIndex

LEMMA AnsweredFacts ==
    ASSUME NEW s \in PmType, Cardinality(s.batchQueue) <= MaxBatchSize + 1,
           NEW p \in Params, NEW indexed \in BOOLEAN
    PROVE  Answered(s, p, IndexAnswered(FirstSight(s, p[1]), p, indexed))
  <1> DEFINE f == FirstSight(s, p[1])
             t == IndexAnswered(f, p, indexed)
  <1>1. /\ p[1] \in Components /\ ParamsOf(p[1]) \in SUBSET Params
        /\ \A q \in Params : q \in ParamsOf(q[1])
        /\ \A q \in ParamsOf(p[1]) : q[1] = p[1]
    BY ParamFacts, OwnParams
  <1>2. s.waitingIndex \in Waiting(MaxInitialLoadRetrySingleParam)
    BY DEF PmType
  <1>3. /\ WithNew(s.waitingIndex, ParamsOf(p[1])) \in Waiting(MaxInitialLoadRetrySingleParam)
        /\ DOMAIN WithNew(s.waitingIndex, ParamsOf(p[1])) =
              DOMAIN s.waitingIndex \cup ParamsOf(p[1])
    BY <1>1, <1>2, WithNewFacts, LimitsAreNumbers
  <1>4. /\ f \in PmType
        /\ f = [s EXCEPT !.seen = @ \cup {p[1]}, !.waitingIndex = f.waitingIndex]
        /\ DOMAIN f.waitingIndex = DOMAIN s.waitingIndex
                                      \cup (IF p[1] \in s.seen THEN {} ELSE ParamsOf(p[1]))
    <2>1. CASE p[1] \in s.seen
      <3>1. f = s
        BY <2>1 DEF FirstSight
      <3> HIDE DEF f
      <3>2. s.seen \cup {p[1]} = s.seen
        BY <2>1
      <3>3. s = [s EXCEPT !.seen = s.seen, !.waitingIndex = s.waitingIndex]
        BY DEF PmType
      <3> QED  BY <2>1, <3>1, <3>2, <3>3
    <2>2. CASE p[1] \notin s.seen
      <3>1. f = [s EXCEPT !.seen = @ \cup {p[1]}, !.waitingIndex = WithNew(@, ParamsOf(p[1]))]
        BY <2>2 DEF FirstSight
      <3> HIDE DEF f
      <3>2. f.waitingIndex = WithNew(s.waitingIndex, ParamsOf(p[1]))
        BY <3>1 DEF PmType
      <3>3. f \in PmType
        BY <1>1, <1>3, <3>1, ZenonT(60) DEF PmType
      <3> QED  BY <1>3, <2>2, <3>1, <3>2, <3>3 DEF PmType
    <2> QED  BY <2>1, <2>2
  <1> HIDE DEF f
  <1>5. CASE indexed /\ p \in DOMAIN f.waitingIndex
    <2> DEFINE g == [f EXCEPT !.waitingIndex = Without(@, {p}), !.batchQueue = @ \ {p[2]}]
    <2>1. t = FillIndexBatchQueue(g)
      BY <1>5 DEF IndexAnswered
    <2>2. /\ Without(f.waitingIndex, {p}) \in Waiting(MaxInitialLoadRetrySingleParam)
          /\ DOMAIN Without(f.waitingIndex, {p}) = DOMAIN f.waitingIndex \ {p}
      <3>1. f.waitingIndex \in Waiting(MaxInitialLoadRetrySingleParam)
        BY <1>4 DEF PmType
      <3> QED  BY <3>1, WithoutFacts
    <2>3. g \in PmType /\ g.waitingIndex = Without(f.waitingIndex, {p})
          /\ g.batchQueue = s.batchQueue \ {p[2]}
          /\ g.failedIndex = s.failedIndex /\ g.out = s.out
      BY <1>4, <2>2, ZenonT(60) DEF PmType
    <2>4. Cardinality(g.batchQueue) <= MaxBatchSize + 1
      <3>1. IsFiniteSet(s.batchQueue) /\ s.batchQueue \ {p[2]} \in SUBSET s.batchQueue
        BY ParamsFinite, FS_Subset DEF PmType
      <3>2. /\ Cardinality(s.batchQueue \ {p[2]}) <= Cardinality(s.batchQueue)
            /\ Cardinality(s.batchQueue) \in Nat /\ Cardinality(s.batchQueue \ {p[2]}) \in Nat
        BY <3>1, FS_Subset, FS_CardinalityType
      <3> QED  BY <2>3, <3>2, LimitsAreNumbers
    <2> HIDE DEF t
    <2>5. Filled(g, t)
      BY <2>1, <2>3, <2>4, FillFacts
    <2>6. t = [s EXCEPT !.seen = @ \cup {p[1]}, !.waitingIndex = t.waitingIndex,
                        !.failedIndex = t.failedIndex, !.batchQueue = t.batchQueue,
                        !.out = t.out]
      <3>1. g = [s EXCEPT !.seen = @ \cup {p[1]}, !.waitingIndex = g.waitingIndex,
                          !.batchQueue = g.batchQueue]
        BY <1>4, <2>3, ZenonT(60) DEF PmType
      <3>2. t = [g EXCEPT !.waitingIndex = t.waitingIndex, !.failedIndex = t.failedIndex,
                          !.batchQueue = t.batchQueue, !.out = t.out]
        BY <2>5 DEF Filled
      <3> HIDE DEF g
      <3> QED  BY <3>1, <3>2, MemberFacts, ZenonT(60) DEF Members
    <2> HIDE DEF g
    <2>7. \A q \in DOMAIN t.waitingIndex : q \in DOMAIN s.waitingIndex \/ q[1] = p[1]
      BY <1>1, <1>4, <2>2, <2>3, <2>5 DEF Filled
    <2>8. ASSUME NEW q \in Params \ {p},
                 q \in DOMAIN s.waitingIndex \cup s.failedIndex \/ (q[1] = p[1] /\ p[1] \notin s.seen)
          PROVE  q \in DOMAIN t.waitingIndex \cup t.failedIndex
      <3>1. q \in DOMAIN g.waitingIndex \cup g.failedIndex
        BY <1>1, <1>4, <2>2, <2>3, <2>8
      <3> QED  BY <2>5, <3>1 DEF Filled
    <2>9. Answered(s, p, t)
      BY <2>3, <2>5, <2>6, <2>7, <2>8 DEF Filled, Answered
    <2> QED  BY <2>9 DEF t, f
  <1>6. CASE ~(indexed /\ p \in DOMAIN f.waitingIndex)
    <2>1. t = f
      BY <1>6 DEF IndexAnswered
    <2> HIDE DEF t
    <2>2. f.failedIndex = s.failedIndex /\ f.batchQueue = s.batchQueue /\ f.out = s.out
      BY <1>4 DEF PmType
    <2>3. f = [s EXCEPT !.seen = @ \cup {p[1]}, !.waitingIndex = f.waitingIndex,
                        !.failedIndex = f.failedIndex, !.batchQueue = f.batchQueue,
                        !.out = f.out]
      BY <1>4, <2>2 DEF PmType
    <2>4. \A q \in DOMAIN f.waitingIndex : q \in DOMAIN s.waitingIndex \/ q[1] = p[1]
      BY <1>1, <1>4
    <2>5. \A q \in Params \ {p} :
             q \in DOMAIN s.waitingIndex \cup s.failedIndex \/ (q[1] = p[1] /\ p[1] \notin s.seen) =>
                 q \in DOMAIN f.waitingIndex \cup f.failedIndex
      BY <1>1, <1>4, <2>2
    <2>6. Answered(s, p, t)
      BY <1>4, <2>1, <2>2, <2>3, <2>4, <2>5 DEF Answered
    <2> QED  BY <2>6 DEF t, f
  <1> QED  BY <1>5, <1>6 DEF f

(* What _handleParamValue makes of s.                                         *)
Handled(s, p, v, t) ==
    /\ t \in PmType /\ Waits(t) /\ Accounted(t)
    /\ t.facts = [s.facts EXCEPT ![p] = v] /\ t.seen = s.seen \cup {p[1]}
    /\ t.waitingWrite = Without(s.waitingWrite, {p}) /\ t.writeFailed = s.writeFailed
    /\ t.file = s.file /\ t.listening = s.listening
    /\ t.refused = s.refused /\ t.downloading = s.downloading
    /\ t.tryFtp = s.tryFtp /\ t.noResponse = s.noResponse
    /\ SetsOf(t.out) = SetsOf(s.out)
    /\ ~t.initialTimer /\ (t.waitingTimer \/ t.complete)
    /\ s.complete => t.complete /\ t.missing = s.missing
    /\ ~s.complete /\ t.complete =>
          ListDone(t) /\ DefaultKnown(t) /\ t.missing = (t.failedIndex # {})
    /\ ~t.complete => ~(ListDone(t) /\ DefaultKnown(t)) /\ t.cache = s.cache

LEMMA DefaultFacts ==
    /\ \A p \in Params : p[1] = DefaultComponent => p \in ParamsOf(DefaultComponent)
    /\ ParamsOf(DefaultComponent) \in SUBSET Params /\ ParamsOf(DefaultComponent) # {}
    /\ \A p \in ParamsOf(DefaultComponent) : p[1] = DefaultComponent /\ p[2] \in Index
    /\ \A i \in Index : <<DefaultComponent, i>> \in Params
    /\ DefaultComponent \in Components
  <1>1. DefaultComponent \in Components /\ Count[DefaultComponent] \in Nat \ {0}
    BY ParameterAssumption
  <1>2. \A i \in Index : <<DefaultComponent, i>> \in ParamsOf(DefaultComponent)
    BY DEF ParamsOf, Index
  <1>3. 0 \in Index
    BY <1>1 DEF Index
  <1>4. \A p \in ParamsOf(DefaultComponent) : p \in Params /\ p[1] = DefaultComponent /\ p[2] \in Index
    BY <1>1, OwnParams DEF Index
  <1>5. \A p \in Params : p[1] = DefaultComponent => p \in ParamsOf(DefaultComponent)
    BY ParamFacts
  <1> QED  BY <1>1, <1>2, <1>3, <1>4, <1>5

LEMMA ReadsLeftFacts ==
    ASSUME NEW s \in PmType
    PROVE  /\ ReadsLeft(s) \in 0..2 * Cardinality(Params)
           /\ ~(ReadsLeft(s) > 0) <=> DOMAIN s.waitingIndex = {} /\ DOMAIN s.waitingName = {}
  <1> DEFINE a == DOMAIN s.waitingIndex
             b == DOMAIN s.waitingName
  <1>1. IsFiniteSet(a) /\ Cardinality(a) \in 0..Cardinality(Params)
    BY WaitingFacts DEF PmType
  <1>2. IsFiniteSet(b) /\ Cardinality(b) \in 0..Cardinality(Params)
    BY WaitingFacts DEF PmType
  <1>3. (Cardinality(a) = 0 <=> a = {}) /\ (Cardinality(b) = 0 <=> b = {})
    BY <1>1, <1>2, FS_EmptySet
  <1>4. ReadsLeft(s) = Cardinality(a) + Cardinality(b) /\ Cardinality(Params) \in Nat
    BY ParamsFinite DEF ReadsLeft
  <1> HIDE DEF a, b
  <1>5. ReadsLeft(s) \in 0..2 * Cardinality(Params)
    BY <1>1, <1>2, <1>4
  <1>6. ~(ReadsLeft(s) > 0) <=> a = {} /\ b = {}
    BY <1>1, <1>2, <1>3, <1>4
  <1> QED  BY <1>5, <1>6 DEF a, b

LEMMA CheckFacts ==
    ASSUME NEW s \in PmType
    PROVE  LET t == CheckInitialLoadComplete(s)
           IN /\ t \in PmType
              /\ t = [s EXCEPT !.complete = t.complete, !.missing = t.missing]
              /\ s.complete => t.complete /\ t.missing = s.missing
              /\ ~s.complete /\ t.complete =>
                    ListDone(t) /\ DefaultKnown(t) /\ t.missing = (t.failedIndex # {})
              /\ ~t.complete => ~(ListDone(t) /\ DefaultKnown(t))
  <1> DEFINE t == CheckInitialLoadComplete(s)
  <1>1. CASE s.complete \/ ~ListDone(s) \/ ~DefaultKnown(s)
    <2>1. t = s
      BY <1>1 DEF CheckInitialLoadComplete
    <2>2. s = [s EXCEPT !.complete = s.complete, !.missing = s.missing]
      BY DEF PmType
    <2> QED  BY <1>1, <2>1, <2>2
  <1>2. CASE ~(s.complete \/ ~ListDone(s) \/ ~DefaultKnown(s))
    <2>1. t = [s EXCEPT !.complete = TRUE, !.missing = s.failedIndex # {}]
      BY <1>2 DEF CheckInitialLoadComplete
    <2> HIDE DEF t
    <2>2. t \in PmType
      <3>1. PICK gone \in BOOLEAN : gone = (s.failedIndex # {})
        OBVIOUS
      <3>2. t = [s EXCEPT !.complete = TRUE, !.missing = gone]
        BY <2>1, <3>1
      <3> QED  BY <3>2, ZenonT(60) DEF PmType
    <2>3. /\ t.complete /\ t.missing = (s.failedIndex # {}) /\ t.failedIndex = s.failedIndex
          /\ t.waitingIndex = s.waitingIndex /\ t.facts = s.facts
      BY <2>1, MemberFacts DEF Members
    <2>4. t = [s EXCEPT !.complete = t.complete, !.missing = t.missing]
      BY <2>1, <2>3
    <2>5. ListDone(t) /\ DefaultKnown(t)
      BY <1>2, <2>3 DEF ListDone, DefaultKnown
    <2>6. /\ t \in PmType
          /\ t = [s EXCEPT !.complete = t.complete, !.missing = t.missing]
          /\ s.complete => t.complete /\ t.missing = s.missing
          /\ ~s.complete /\ t.complete =>
                ListDone(t) /\ DefaultKnown(t) /\ t.missing = (t.failedIndex # {})
          /\ ~t.complete => ~(ListDone(t) /\ DefaultKnown(t))
      BY <1>2, <2>2, <2>3, <2>4, <2>5
    <2> QED  BY <2>6 DEF t
  <1> QED  BY <1>1, <1>2

LEMMA TimersFacts ==
    ASSUME NEW s \in PmType, NEW a \in BOOLEAN, NEW b \in BOOLEAN
    PROVE  [s EXCEPT !.initialTimer = a, !.waitingTimer = b] \in PmType
  BY DEF PmType

LEMMA DownloadFacts ==
    ASSUME NEW s \in PmType, NEW d \in BOOLEAN, NEW l \in BOOLEAN,
           NEW f \in Contents \cup {NoCache}, NEW r \in BOOLEAN
    PROVE  [s EXCEPT !.downloading = d, !.listening = l, !.file = f, !.refused = r] \in PmType
  BY ZenonT(60) DEF PmType

LEMMA KnownFacts ==
    ASSUME NEW s \in PmType, NEW f \in [Params -> Values \cup {NoValue}]
    PROVE  [s EXCEPT !.facts = f] \in PmType
  BY DEF PmType

LEMMA HandledFacts ==
    ASSUME NEW s \in PmType, Waits(s), Accounted(s),
           NEW p \in Params, NEW v \in Values, NEW indexed \in BOOLEAN
    PROVE  Handled(s, p, v, HandleParamValue(s, p, v, indexed))
  <1> DEFINE a == IndexAnswered(FirstSight(s, p[1]), p, indexed)
             cleared == [a EXCEPT !.waitingName = Without(@, {p}),
                                  !.waitingWrite = Without(@, {p})]
             waits == \/ ReadsLeft(cleared) > 0
                      \/ DOMAIN cleared.waitingWrite # {}
                      \/ ~DefaultKnown(s)
             set == [cleared EXCEPT !.initialTimer = FALSE, !.waitingTimer = waits,
                                    !.facts[p] = v]
             updated == UpdateCache(set, p[1])
             t == CheckInitialLoadComplete(updated)
  <1>1. HandleParamValue(s, p, v, indexed) = t
    BY DEF HandleParamValue
  <1>2. Answered(s, p, a)
    BY AnsweredFacts DEF Waits
  <1> HIDE DEF a
  <1>3. a \in PmType /\ a.waitingName = s.waitingName /\ a.waitingWrite = s.waitingWrite
        /\ a.facts = s.facts /\ a.seen = s.seen \cup {p[1]}
    BY <1>2, ZenonT(60) DEF Answered, PmType
  <1>4. /\ Without(s.waitingName, {p}) \in Waiting(MaxReadWriteRetry)
        /\ DOMAIN Without(s.waitingName, {p}) = DOMAIN s.waitingName \ {p}
        /\ Without(s.waitingWrite, {p}) \in Waiting(MaxReadWriteRetry)
        /\ DOMAIN Without(s.waitingWrite, {p}) = DOMAIN s.waitingWrite \ {p}
    <2>1. s.waitingName \in Waiting(MaxReadWriteRetry) /\ s.waitingWrite \in Waiting(MaxReadWriteRetry)
      BY DEF PmType
    <2> QED  BY <2>1, WithoutFacts
  <1>5. cleared \in PmType
        /\ cleared.waitingIndex = a.waitingIndex
        /\ cleared.waitingName = Without(s.waitingName, {p})
        /\ cleared.waitingWrite = Without(s.waitingWrite, {p})
    BY <1>3, <1>4, ZenonT(60) DEF PmType
  <1>6. waits \in BOOLEAN
    BY DEF DefaultKnown
  <1>7. v # NoValue /\ NoValue \notin Values
    BY ParameterAssumption
  <1>8. set = [a EXCEPT !.waitingName = Without(s.waitingName, {p}),
                        !.waitingWrite = Without(s.waitingWrite, {p}),
                        !.initialTimer = FALSE, !.waitingTimer = waits,
                        !.facts = [s.facts EXCEPT ![p] = v]]
    BY <1>3 DEF PmType
  <1>27. set = [cleared EXCEPT !.initialTimer = FALSE, !.waitingTimer = waits,
                               !.facts = [s.facts EXCEPT ![p] = v]]
    BY <1>3, <1>5 DEF PmType
  <1> HIDE DEF cleared, waits, set
  <1>9. [s.facts EXCEPT ![p] = v] \in [Params -> Values \cup {NoValue}]
    BY DEF PmType
  <1>23. set \in PmType
    <2> DEFINE known == [s.facts EXCEPT ![p] = v]
               timed == [cleared EXCEPT !.initialTimer = FALSE, !.waitingTimer = waits]
    <2>1. timed \in PmType
      BY <1>5, <1>6, TimersFacts
    <2>2. set = [timed EXCEPT !.facts = known]
      BY <1>27
    <2> HIDE DEF timed
    <2> QED  BY <1>9, <2>1, <2>2, KnownFacts
  <1>24. /\ a.writeFailed = s.writeFailed /\ a.file = s.file
         /\ a.listening = s.listening
         /\ a.refused = s.refused /\ a.downloading = s.downloading
         /\ a.tryFtp = s.tryFtp /\ a.noResponse = s.noResponse
         /\ a.complete = s.complete /\ a.missing = s.missing /\ a.cache = s.cache
    BY <1>2, ZenonT(60) DEF Answered, PmType
  <1>25. /\ set.facts = [s.facts EXCEPT ![p] = v] /\ set.seen = s.seen \cup {p[1]}
         /\ set.waitingIndex = a.waitingIndex /\ set.failedIndex = a.failedIndex
         /\ set.batchQueue = a.batchQueue
         /\ set.waitingName = Without(s.waitingName, {p})
         /\ set.waitingWrite = Without(s.waitingWrite, {p})
         /\ ~set.initialTimer /\ set.waitingTimer = waits
    BY <1>3, <1>6, <1>8 DEF PmType
  <1>26. /\ set.writeFailed = s.writeFailed /\ set.file = s.file
         /\ set.listening = s.listening
         /\ set.refused = s.refused /\ set.downloading = s.downloading
         /\ set.tryFtp = s.tryFtp /\ set.noResponse = s.noResponse /\ set.out = a.out
         /\ set.complete = s.complete /\ set.missing = s.missing /\ set.cache = s.cache
    BY <1>3, <1>8, <1>24 DEF PmType
  <1>11. /\ updated \in PmType
         /\ updated = [set EXCEPT !.cache = updated.cache, !.prevReads = updated.prevReads]
         /\ \/ updated.cache = set.cache
            \/ p[1] = DefaultComponent /\ DOMAIN set.waitingIndex = {}
    <2> DEFINE kept == IF /\ setup.firmware = "px4" /\ p[1] = DefaultComponent
                          /\ set.prevReads # 0 /\ ReadsLeft(set) = 0
                       THEN FactsOf(set, p[1]) ELSE set.cache
    <2>1. updated = [set EXCEPT !.cache = kept, !.prevReads = ReadsLeft(set)]
      BY DEF UpdateCache
    <2>2. ReadsLeft(set) \in 0..2 * Cardinality(Params)
          /\ (~(ReadsLeft(set) > 0) <=>
                 DOMAIN set.waitingIndex = {} /\ DOMAIN set.waitingName = {})
      BY <1>23, <1>25, <1>26, ReadsLeftFacts
    <2>3. p[1] = DefaultComponent => FactsOf(set, p[1]) \in [Index -> Values \cup {NoValue}]
      BY <1>23, <1>25, <1>26, DefaultFacts DEF FactsOf, Index, PmType
    <2>4. kept \in [Index -> Values \cup {NoValue}] \cup {NoCache}
      BY <1>23, <1>25, <1>26, <2>3 DEF PmType
    <2>5. kept = set.cache \/ (p[1] = DefaultComponent /\ DOMAIN set.waitingIndex = {})
      BY <2>2
    <2> HIDE DEF kept, updated
    <2>6. updated \in PmType
      BY <1>23, <1>25, <1>26, <2>1, <2>2, <2>4, ZenonT(60) DEF PmType
    <2>7. updated.cache = kept /\ updated.prevReads = ReadsLeft(set)
      BY <1>23, <1>25, <1>26, <2>1 DEF PmType
    <2> QED  BY <2>1, <2>5, <2>6, <2>7
  <1> HIDE DEF updated
  <1>12. /\ t \in PmType
         /\ t = [updated EXCEPT !.complete = t.complete, !.missing = t.missing]
         /\ updated.complete => t.complete /\ t.missing = updated.missing
         /\ ~updated.complete /\ t.complete =>
               ListDone(t) /\ DefaultKnown(t) /\ t.missing = (t.failedIndex # {})
         /\ ~t.complete => ~(ListDone(t) /\ DefaultKnown(t))
    BY <1>11, CheckFacts
  <1> HIDE DEF t
  <1>13. t = [set EXCEPT !.cache = updated.cache, !.prevReads = updated.prevReads,
                         !.complete = t.complete, !.missing = t.missing]
    BY <1>23, <1>25, <1>26, <1>11, <1>12 DEF PmType
  <1>14. /\ t.facts = [s.facts EXCEPT ![p] = v] /\ t.seen = s.seen \cup {p[1]}
         /\ t.waitingIndex = a.waitingIndex /\ t.failedIndex = a.failedIndex
         /\ t.batchQueue = a.batchQueue
         /\ t.waitingName = Without(s.waitingName, {p})
         /\ t.waitingWrite = Without(s.waitingWrite, {p})
         /\ t.writeFailed = s.writeFailed /\ t.file = s.file
         /\ t.listening = s.listening
         /\ t.refused = s.refused /\ t.downloading = s.downloading
         /\ t.tryFtp = s.tryFtp /\ t.noResponse = s.noResponse /\ t.out = a.out
         /\ ~t.initialTimer /\ t.waitingTimer = waits /\ t.cache = updated.cache
    <2>1. /\ t.facts = set.facts /\ t.seen = set.seen
          /\ t.waitingIndex = set.waitingIndex /\ t.failedIndex = set.failedIndex
          /\ t.batchQueue = set.batchQueue /\ t.waitingName = set.waitingName
          /\ t.waitingWrite = set.waitingWrite /\ t.initialTimer = set.initialTimer
          /\ t.waitingTimer = set.waitingTimer
      BY <1>13, <1>23, ZenonT(60) DEF PmType
    <2>2. /\ t.writeFailed = set.writeFailed /\ t.file = set.file
          /\ t.listening = set.listening
          /\ t.refused = set.refused /\ t.downloading = set.downloading
          /\ t.tryFtp = set.tryFtp /\ t.noResponse = set.noResponse /\ t.out = set.out
          /\ t.cache = updated.cache
      BY <1>13, <1>23, ZenonT(60) DEF PmType
    <2> QED  BY <1>25, <1>26, <2>1, <2>2
  <1>15. updated.complete = s.complete /\ updated.missing = s.missing
    BY <1>23, <1>25, <1>26, <1>11, MemberFacts, ZenonT(60) DEF Members
  <1>16. t.facts[p] # NoValue /\ \A q \in Params \ {p} : t.facts[q] = s.facts[q]
    BY <1>7, <1>14 DEF PmType
  <1>17. Waits(t)
    <2>1. ASSUME NEW q \in DOMAIN t.waitingIndex PROVE q[1] \in t.seen
      BY <1>2, <1>14, <2>1 DEF Answered, Waits
    <2>2. ASSUME NEW q \in DOMAIN t.waitingName \cup DOMAIN t.waitingWrite
          PROVE  q[1] \in t.seen
      BY <1>4, <1>14 DEF Waits
    <2>3. ASSUME NEW q \in DOMAIN t.waitingWrite PROVE t.facts[q] # NoValue
      <3>1. q \in DOMAIN s.waitingWrite /\ q # p
        BY <1>4, <1>14
      <3>2. q \in Params
        BY <3>1, WaitingFacts DEF PmType
      <3> QED  BY <1>16, <3>1, <3>2 DEF Waits
    <2>4. Cardinality(t.batchQueue) <= MaxBatchSize + 1
      BY <1>2, <1>14 DEF Answered
    <2> QED  BY <2>1, <2>2, <2>3, <2>4 DEF Waits
  <1>18. Accounted(t)
    <2>1. ASSUME NEW q \in Params, q[1] \in t.seen, t.facts[q] = NoValue
          PROVE  q \in DOMAIN t.waitingIndex \cup t.failedIndex
      <3>1. q \in Params \ {p} /\ s.facts[q] = NoValue
        BY <1>16, <2>1
      <3>2. q \in DOMAIN s.waitingIndex \cup s.failedIndex \/ (q[1] = p[1] /\ p[1] \notin s.seen)
        BY <1>14, <2>1, <3>1 DEF Accounted
      <3> QED  BY <1>2, <1>14, <3>1, <3>2 DEF Answered
    <2> QED  BY <2>1 DEF Accounted
  <1>19. t.waitingTimer \/ t.complete
    <2>1. SUFFICES ASSUME ~waits PROVE t.complete
      BY <1>14
    <2>2. DOMAIN cleared.waitingIndex = {} /\ DefaultKnown(s)
      BY <1>5, <2>1, ReadsLeftFacts DEF waits
    <2>3. ListDone(t)
      BY <1>5, <1>14, <2>2 DEF ListDone
    <2>4. PICK q \in ParamsOf(DefaultComponent) : s.facts[q] # NoValue
      BY <2>2 DEF DefaultKnown
    <2>5. t.facts[q] # NoValue
      BY <1>16, <2>4, DefaultFacts
    <2> QED  BY <1>12, <2>3, <2>4, <2>5 DEF DefaultKnown
  <1>20. ~t.complete => t.cache = s.cache
    <2>1. SUFFICES ASSUME p[1] = DefaultComponent, DOMAIN set.waitingIndex = {} PROVE t.complete
      BY <1>23, <1>25, <1>26, <1>11, <1>14
    <2>2. ListDone(t)
      BY <1>23, <1>25, <1>26, <1>14, <2>1 DEF ListDone
    <2>3. DefaultKnown(t)
      BY <1>16, <2>1, DefaultFacts DEF DefaultKnown
    <2> QED  BY <1>12, <2>2, <2>3
  <1>21. SetsOf(t.out) = SetsOf(s.out)
    BY <1>2, <1>14 DEF Answered
  <1>22. Handled(s, p, v, t)
    BY <1>12, <1>14, <1>15, <1>17, <1>18, <1>19, <1>20, <1>21, SMTT(60) DEF Handled
  <1> QED  BY <1>1, <1>22

-----------------------------------------------------------------------------
(* _tryCacheHashLoad                                                          *)

(* Every parameter of every component heard of has a value.                   *)
AllKnown(s) == \A p \in Params : p[1] \in s.seen => s.facts[p] # NoValue

(* A load that was not complete in s and is in t, with nothing missing.       *)
Ready(s, t) == ~s.complete /\ t.complete /\ ~t.missing => AllKnown(t)

(* t is s after the first n parameters of the file.                           *)
LoadedTo(s, order, t, n) ==
    /\ t \in PmType /\ Waits(t) /\ Accounted(t)
    /\ \A p \in Params : t.facts[p] = s.facts[p] \/ (p[1] = DefaultComponent
                                                      /\ t.facts[p] = s.cache[p[2]])
    /\ \A k \in 1..Len(order) : k <= n => t.facts[order[k]] = s.cache[order[k][2]]
    /\ t.seen = IF n = 0 THEN s.seen ELSE s.seen \cup {DefaultComponent}
    /\ DOMAIN t.waitingWrite \subseteq DOMAIN s.waitingWrite
    /\ \A p \in DOMAIN s.waitingWrite : p \in DOMAIN t.waitingWrite \/ p[1] = DefaultComponent
    /\ t.writeFailed = s.writeFailed
    /\ t.file = s.file /\ t.listening = s.listening
    /\ t.refused = s.refused /\ t.downloading = s.downloading
    /\ t.tryFtp = s.tryFtp /\ t.noResponse = s.noResponse
    /\ SetsOf(t.out) = SetsOf(s.out)
    /\ n = 0 => ~t.complete
    /\ n # 0 => ~t.initialTimer /\ (t.waitingTimer \/ t.complete)
    /\ Ready(s, t)
    /\ ~t.complete => t.cache = s.cache /\ (n # 0 => ~(ListDone(t) /\ DefaultKnown(t)))

LEMMA LoadedFurther ==
    ASSUME NEW s \in PmType, ~s.complete, s.cache \in Contents,
           NEW order \in Seq(ParamsOf(DefaultComponent)),
           \A j, k \in 1..Len(order) : order[j] = order[k] => j = k,
           NEW n \in Nat, n + 1 \in 1..Len(order),
           NEW t, LoadedTo(s, order, t, n),
           NEW u, u = HandleParamValue(t, order[n + 1], s.cache[order[n + 1][2]], TRUE)
    PROVE  LoadedTo(s, order, u, n + 1)
  <1> DEFINE p == order[n + 1]
             v == s.cache[p[2]]
  <1>1. p \in Params /\ p[1] = DefaultComponent /\ p[2] \in Index /\ v \in Values
    <2>1. p \in ParamsOf(DefaultComponent)
      OBVIOUS
    <2>2. p \in Params /\ p[1] = DefaultComponent /\ p[2] \in Index
      BY <2>1, DefaultFacts
    <2> QED  BY <2>2 DEF Contents
  <1>2. t \in PmType /\ Waits(t) /\ Accounted(t)
    BY DEF LoadedTo
  <1>3. Handled(t, p, v, u)
    <2>1. u = HandleParamValue(t, p, v, TRUE)
      OBVIOUS
    <2> HIDE DEF p, v
    <2> QED  BY <1>1, <1>2, <2>1, HandledFacts, ZenonT(60)
  <1>4. \A k \in 1..Len(order) : order[k] \in Params
    BY DefaultFacts
  <1>5. v # NoValue
    BY <1>1, ParameterAssumption
  <1>6. u.facts = [t.facts EXCEPT ![p] = v] /\ t.facts \in [Params -> Values \cup {NoValue}]
    BY <1>2, <1>3, ZenonT(60) DEF Handled, PmType
  <1>7. u.facts[p] = v /\ \A q \in Params \ {p} : u.facts[q] = t.facts[q]
    BY <1>1, <1>6
  <1>8. \A q \in Params : u.facts[q] = s.facts[q] \/ (q[1] = DefaultComponent
                                                      /\ u.facts[q] = s.cache[q[2]])
    <2>1. ASSUME NEW q \in Params PROVE u.facts[q] = s.facts[q] \/ (q[1] = DefaultComponent
                                                      /\ u.facts[q] = s.cache[q[2]])
      <3>1. CASE q = p
        BY <1>1, <1>7, <3>1
      <3>2. CASE q # p
        BY <1>7, <3>2, ZenonT(60) DEF LoadedTo
      <3> QED  BY <3>1, <3>2
    <2> QED  BY <2>1
  <1>9. ASSUME NEW k \in 1..Len(order), k <= n + 1
        PROVE  u.facts[order[k]] = s.cache[order[k][2]]
    <2>1. CASE k = n + 1
      BY <1>7, <2>1
    <2>2. CASE k # n + 1
      <3>1. k <= n /\ order[k] # p
        BY <1>9, <2>2
      <3> QED  BY <1>4, <1>7, <3>1, ZenonT(60) DEF LoadedTo
    <2> QED  BY <2>1, <2>2
  <1>10. u.seen = s.seen \cup {DefaultComponent}
    <2>1. u.seen = t.seen \cup {DefaultComponent}
      BY <1>1, <1>3 DEF Handled
    <2> QED  BY <2>1 DEF LoadedTo
  <1>11. /\ DOMAIN u.waitingWrite \subseteq DOMAIN s.waitingWrite
         /\ \A q \in DOMAIN s.waitingWrite : q \in DOMAIN u.waitingWrite \/ q[1] = DefaultComponent
    <2>1. u.waitingWrite = Without(t.waitingWrite, {p})
      BY <1>3 DEF Handled
    <2>2. /\ DOMAIN t.waitingWrite \subseteq DOMAIN s.waitingWrite
          /\ \A q \in DOMAIN s.waitingWrite : q \in DOMAIN t.waitingWrite \/ q[1] = DefaultComponent
      BY DEF LoadedTo
    <2>3. DOMAIN u.waitingWrite = DOMAIN t.waitingWrite \ {p}
      BY <2>1 DEF Without
    <2> QED  BY <1>1, <2>2, <2>3
  <1>12. Ready(s, u)
    <2>1. CASE ~t.complete /\ u.complete
      <3>1. ListDone(u) /\ DefaultKnown(u) /\ u.missing = (u.failedIndex # {}) /\ Accounted(u)
        BY <1>3, <2>1 DEF Handled
      <3> QED  BY <3>1 DEF Ready, ListDone, Accounted, AllKnown
    <2>2. CASE t.complete
      <3>1. n # 0 /\ (~t.missing => AllKnown(t))
        BY <2>2 DEF LoadedTo, Ready
      <3>2. u.missing = t.missing /\ u.seen = t.seen
        BY <1>1, <1>3, <2>2, <3>1, ZenonT(60) DEF Handled, LoadedTo
      <3>3. \A q \in Params : t.facts[q] # NoValue => u.facts[q] # NoValue
        BY <1>5, <1>7
      <3>4. ~u.missing => AllKnown(u)
        BY <3>1, <3>2, <3>3 DEF AllKnown
      <3> QED  BY <3>4 DEF Ready
    <2>3. CASE ~u.complete
      BY <2>3 DEF Ready
    <2> QED  BY <2>1, <2>2, <2>3
  <1>13. ~u.complete => u.cache = s.cache /\ ~(ListDone(u) /\ DefaultKnown(u))
    <2>1. SUFFICES ASSUME ~u.complete
                   PROVE  u.cache = s.cache /\ ~(ListDone(u) /\ DefaultKnown(u))
      BY ZenonT(60)
    <2>2. ~t.complete /\ u.cache = t.cache /\ ~(ListDone(u) /\ DefaultKnown(u))
      BY <1>3, <2>1 DEF Handled
    <2> QED  BY <2>2 DEF LoadedTo
  <1>14. /\ u.writeFailed = s.writeFailed
         /\ u.file = s.file /\ u.listening = s.listening
         /\ u.refused = s.refused /\ u.downloading = s.downloading
         /\ u.tryFtp = s.tryFtp /\ u.noResponse = s.noResponse
         /\ SetsOf(u.out) = SetsOf(s.out)
    BY <1>3, ZenonT(60) DEF Handled, LoadedTo
  <1>15. u \in PmType /\ Waits(u) /\ Accounted(u)
         /\ ~u.initialTimer /\ (u.waitingTimer \/ u.complete)
    BY <1>3 DEF Handled
  <1>16. n + 1 # 0
    OBVIOUS
  <1> QED  BY <1>8, <1>9, <1>10, <1>11, <1>12, <1>13, <1>14, <1>15, <1>16 DEF LoadedTo

(* What _tryCacheHashLoad makes of s, when it takes the file.                 *)
Loaded(s, t) ==
    /\ t \in PmType /\ Waits(t) /\ Accounted(t)
    /\ \A p \in Params : t.facts[p] = IF p[1] = DefaultComponent THEN s.cache[p[2]]
                                      ELSE s.facts[p]
    /\ t.seen = s.seen \cup {DefaultComponent}
    /\ DOMAIN t.waitingWrite \subseteq DOMAIN s.waitingWrite
    /\ \A p \in DOMAIN s.waitingWrite : p \in DOMAIN t.waitingWrite \/ p[1] = DefaultComponent
    /\ t.writeFailed = s.writeFailed
    /\ t.file = s.file /\ t.listening = s.listening
    /\ t.refused = s.refused /\ t.downloading = s.downloading
    /\ t.tryFtp = s.tryFtp /\ t.noResponse = s.noResponse
    /\ SetsOf(t.out) = SetsOf(s.out)
    /\ ~t.initialTimer /\ (t.waitingTimer \/ t.complete)
    /\ Ready(s, t)
    /\ ~t.complete => t.cache = s.cache /\ ~(ListDone(t) /\ DefaultKnown(t))

LEMMA LoadedAll ==
    ASSUME NEW s \in PmType, Waits(s), Accounted(s), ~s.complete, s.cache \in Contents,
           NEW hash, Hash(s.cache) = hash
    PROVE  Loaded(s, TryCacheHashLoad(s, hash))
  <1> DEFINE order == InOrder(ParamsOf(DefaultComponent))
             count == Len(order)
             Load(t, p) == HandleParamValue(t, p, s.cache[p[2]], TRUE)
             Step(f, n) == IF n = 0 THEN s ELSE Load(f[n - 1], order[n])
             Loads(f, m) == f = [n \in 0..m |-> Step(f, n)]
             T == {m \in 0..count : \E f : Loads(f, m)}
             loaded == CHOOSE f : Loads(f, count)
             last == loaded[count]
             t == TryCacheHashLoad(s, hash)
  <1>1. /\ order \in Seq(ParamsOf(DefaultComponent)) /\ count \in Nat
        /\ \A p \in ParamsOf(DefaultComponent) : \E k \in 1..Len(order) : order[k] = p
        /\ \A j, k \in 1..Len(order) : order[j] = order[k] => j = k
    BY DefaultFacts, InOrderFacts
  <1>2. t = [last EXCEPT !.out = Append(@, HashAnswer)]
    <2>1. s.cache # NoCache
      BY ParameterAssumption DEF Contents, Index
    <2> QED  BY <2>1 DEF TryCacheHashLoad
  <1> HIDE DEF order, t
  <1>3. 0 \in T
    <2> DEFINE f == [n \in 0..0 |-> s]
    <2>1. \A n \in 0..0 : f[n] = s /\ Step(f, n) = s
      OBVIOUS
    <2> HIDE DEF Step
    <2>2. f = [n \in 0..0 |-> Step(f, n)]
      BY <2>1
    <2>3. 0 \in 0..count
      BY <1>1
    <2> HIDE DEF f
    <2> QED  BY <2>2, <2>3
  <1> HIDE DEF Load
  <1>4. ASSUME NEW m \in 0..(count - 1), m \in T PROVE m + 1 \in T
    <2>1. PICK f : Loads(f, m)
      BY <1>4
    <2> DEFINE g == [n \in 0..(m + 1) |-> IF n = m + 1 THEN Load(f[m], order[m + 1])
                                          ELSE f[n]]
    <2>2. \A n \in 0..m : f[n] = Step(f, n)
      BY <2>1
    <2>3. m \in Nat /\ m < count
      BY <1>1
    <2>4. ASSUME NEW n \in 0..(m + 1) PROVE g[n] = Step(g, n)
      <3>1. CASE n = m + 1
        <4>1. g[n] = Load(f[m], order[m + 1]) /\ g[m] = f[m]
          BY <2>3, <3>1
        <4>2. n # 0 /\ n - 1 = m
          BY <2>3, <3>1
        <4> QED  BY <3>1, <4>1, <4>2
      <3>2. CASE n \in 0..m
        <4>1. g[n] = f[n] /\ (n # 0 => g[n - 1] = f[n - 1])
          BY <2>3, <3>2
        <4> QED  BY <2>2, <3>2, <4>1
      <3> QED  BY <2>3, <3>1, <3>2
    <2>5. g = [n \in 0..(m + 1) |-> Step(g, n)]
      BY <2>4
    <2>6. m + 1 \in 0..count
      BY <1>1, <2>3
    <2> HIDE DEF g, Step
    <2> QED  BY <2>5, <2>6
  <1>5. count \in T
    <2> HIDE DEF T
    <2>1. \A n \in 0..count : n \in T
      BY <1>1, <1>3, <1>4, UpToInduction
    <2> QED  BY <1>1, <2>1
  <1>6. Loads(loaded, count)
    <2> HIDE DEF Step
    <2> QED  BY <1>5
  <1> HIDE DEF loaded
  <1>7. loaded[0] = s /\ \A n \in 0..(count - 1) : loaded[n + 1] = Load(loaded[n], order[n + 1])
    <2>1. \A n \in 0..count : loaded[n] = Step(loaded, n)
      BY <1>6
    <2>2. loaded[0] = s
      BY <1>1, <2>1
    <2>3. ASSUME NEW n \in 0..(count - 1)
          PROVE  loaded[n + 1] = Load(loaded[n], order[n + 1])
      <3>1. n + 1 \in 0..count /\ n + 1 # 0 /\ (n + 1) - 1 = n
        BY <1>1
      <3>2. loaded[n + 1] = Step(loaded, n + 1)
        BY <2>1, <3>1
      <3> QED  BY <3>1, <3>2
    <2> QED  BY <2>2, <2>3
  <1> DEFINE U == {n \in 0..count : LoadedTo(s, order, loaded[n], n)}
  <1>8. 0 \in U
    <2>1. \A k \in 1..Len(order) : ~(k <= 0)
      BY <1>1
    <2>2. LoadedTo(s, order, s, 0)
      BY <2>1 DEF LoadedTo, Ready
    <2> QED  BY <1>1, <1>7, <2>2
  <1>9. ASSUME NEW n \in 0..(count - 1), n \in U PROVE n + 1 \in U
    <2>1. n \in Nat /\ n + 1 \in 1..Len(order) /\ n + 1 \in 0..count
      BY <1>1
    <2>2. LoadedTo(s, order, loaded[n], n)
      BY <1>9
    <2>3. loaded[n + 1] = HandleParamValue(loaded[n], order[n + 1],
                                           s.cache[order[n + 1][2]], TRUE)
      BY <1>7 DEF Load
    <2>4. LoadedTo(s, order, loaded[n + 1], n + 1)
      BY <1>1, <2>1, <2>2, <2>3, LoadedFurther
    <2> QED  BY <2>1, <2>4
  <1> HIDE DEF U
  <1>10. \A n \in 0..count : n \in U
    BY <1>1, <1>8, <1>9, UpToInduction
  <1>11. count \in 0..count
    BY <1>1
  <1>12. LoadedTo(s, order, last, count)
    BY <1>10, <1>11 DEF U
  <1> HIDE DEF last
  <1>13. count # 0 /\ \A k \in 1..count : k <= count
    BY <1>1, DefaultFacts
  <1>14. \A p \in Params : last.facts[p] = IF p[1] = DefaultComponent THEN s.cache[p[2]]
                                           ELSE s.facts[p]
    <2>1. ASSUME NEW p \in Params, p[1] = DefaultComponent PROVE last.facts[p] = s.cache[p[2]]
      <3>1. PICK k \in 1..count : order[k] = p
        BY <1>1, <2>1, DefaultFacts
      <3> QED  BY <1>12, <1>13, <3>1 DEF LoadedTo
    <2> QED  BY <1>12, <2>1 DEF LoadedTo
  <1>15. last \in PmType
    BY <1>12 DEF LoadedTo
  <1>16. last.out \in Seq(Requests) /\ HashAnswer \in Requests /\ HashAnswer.type # "Set"
    BY <1>15, RequestFacts DEF PmType
  <1>17. Append(last.out, HashAnswer) \in Seq(Requests)
         /\ SetsOf(Append(last.out, HashAnswer)) = SetsOf(last.out)
    BY <1>16, AppendFacts
  <1>18. t \in PmType /\ t.out = Append(last.out, HashAnswer)
    BY <1>2, <1>15, <1>17, ZenonT(60) DEF PmType
  <1>19. /\ t.facts = last.facts /\ t.seen = last.seen /\ t.waitingWrite = last.waitingWrite
         /\ t.waitingIndex = last.waitingIndex /\ t.waitingName = last.waitingName
         /\ t.failedIndex = last.failedIndex /\ t.batchQueue = last.batchQueue
         /\ t.writeFailed = last.writeFailed /\ t.file = last.file
         /\ t.listening = last.listening
         /\ t.refused = last.refused /\ t.downloading = last.downloading
    BY <1>2, <1>15 DEF PmType
  <1>20. /\ t.tryFtp = last.tryFtp /\ t.noResponse = last.noResponse
         /\ t.initialTimer = last.initialTimer /\ t.waitingTimer = last.waitingTimer
         /\ t.complete = last.complete /\ t.missing = last.missing /\ t.cache = last.cache
    BY <1>2, <1>15 DEF PmType
  <1>21. Waits(t) /\ Accounted(t) /\ Ready(s, t)
    BY <1>12, <1>19, <1>20 DEF LoadedTo, Waits, Accounted, Ready, AllKnown, DefaultKnown
  <1>22. ~t.complete => t.cache = s.cache /\ ~(ListDone(t) /\ DefaultKnown(t))
    BY <1>12, <1>13, <1>19, <1>20 DEF LoadedTo, ListDone, DefaultKnown
  <1>23. Loaded(s, t)
    BY <1>12, <1>13, <1>14, <1>17, <1>18, <1>19, <1>20, <1>21, <1>22 DEF LoadedTo, Loaded
  <1> QED  BY <1>23 DEF t

-----------------------------------------------------------------------------
(* refreshAllParameters and what calls it                                     *)

(* What a handler leaves of s that neither takes nor writes a value.          *)
Quietly(s, contents, t) ==
    /\ t.facts = s.facts /\ t.seen = s.seen
    /\ t.waitingWrite = s.waitingWrite /\ t.writeFailed = s.writeFailed
    /\ t.file \in {s.file, contents} /\ SetsOf(t.out) = SetsOf(s.out)
    /\ s.complete => t.complete /\ (s.missing => t.missing)
    /\ Ready(s, t)

LEMMA QuietlyAgain ==
    ASSUME NEW s, NEW contents, NEW t, NEW u, Quietly(s, contents, t), Quietly(t, contents, u),
           t.complete \in BOOLEAN
    PROVE  Quietly(s, contents, u)
  <1>1. /\ t.facts = s.facts /\ t.seen = s.seen
        /\ t.waitingWrite = s.waitingWrite /\ t.writeFailed = s.writeFailed
        /\ t.file \in {s.file, contents} /\ SetsOf(t.out) = SetsOf(s.out)
        /\ s.complete => t.complete /\ (s.missing => t.missing)
        /\ Ready(s, t)
    BY DEF Quietly
  <1>2. /\ u.facts = t.facts /\ u.seen = t.seen
        /\ u.waitingWrite = t.waitingWrite /\ u.writeFailed = t.writeFailed
        /\ u.file \in {t.file, contents} /\ SetsOf(u.out) = SetsOf(t.out)
        /\ t.complete => u.complete /\ (t.missing => u.missing)
        /\ Ready(t, u)
    BY DEF Quietly
  <1>3. AllKnown(t) => AllKnown(u)
    BY <1>1, <1>2 DEF AllKnown
  <1>4. Ready(s, u)
    BY <1>1, <1>2, <1>3 DEF Ready
  <1> HIDE DEF SetsOf
  <1> QED  BY <1>1, <1>2, <1>4 DEF Quietly

(* The list timer of PX4 runs while nothing has been heard.                    *)
MayAsk(s) == setup.firmware = "px4" /\ ~s.complete /\ ~s.noResponse => s.seen = {}

LEMMA InitialTimerFacts ==
    ASSUME NEW s, PmInv(s), NEW b \in BOOLEAN, b => MayAsk(s)
    PROVE  LET t == [s EXCEPT !.initialTimer = b]
           IN /\ PmInv(t) /\ t.initialTimer = b /\ t.complete = s.complete
              /\ t.noResponse = s.noResponse /\ t.tryFtp = s.tryFtp
              /\ \A contents : Quietly(s, contents, t)
  <1> DEFINE t == [s EXCEPT !.initialTimer = b]
  <1>1. s \in PmType
    BY DEF PmInv
  <1>2. t \in PmType
    BY <1>1 DEF PmType
  <1>3. /\ t.facts = s.facts /\ t.seen = s.seen /\ t.waitingIndex = s.waitingIndex
        /\ t.waitingName = s.waitingName /\ t.waitingWrite = s.waitingWrite
        /\ t.failedIndex = s.failedIndex /\ t.batchQueue = s.batchQueue
        /\ t.initialTimer = b /\ t.waitingTimer = s.waitingTimer
        /\ t.writeFailed = s.writeFailed /\ t.out = s.out
    BY <1>1 DEF PmType
  <1>4. /\ t.complete = s.complete /\ t.missing = s.missing /\ t.cache = s.cache
        /\ t.tryFtp = s.tryFtp /\ t.downloading = s.downloading
        /\ t.listening = s.listening
        /\ t.refused = s.refused /\ t.file = s.file /\ t.noResponse = s.noResponse
    BY <1>1 DEF PmType
  <1> HIDE DEF t
  <1>5. Waits(t) /\ Accounted(t) /\ Files(t)
    BY <1>3, <1>4 DEF PmInv, Waits, Accounted, Files
  <1>6. DefaultKnown(t) = DefaultKnown(s) /\ ListDone(t) = ListDone(s)
    BY <1>3 DEF DefaultKnown, ListDone
  <1>7. Loading(t)
    BY <1>3, <1>4, <1>6 DEF PmInv, Loading, MayAsk
  <1>8. \A contents : Quietly(s, contents, t)
    BY <1>3, <1>4 DEF Quietly, Ready
  <1>9. PmInv(t)
    BY <1>2, <1>5, <1>7 DEF PmInv
  <1> QED  BY <1>3, <1>4, <1>8, <1>9 DEF t

LEMMA StartDownloadFacts ==
    ASSUME NEW s, PmInv(s), s.tryFtp, NEW contents \in Contents
    PROVE  LET t == StartDownload(s, contents)
           IN /\ PmInv(t) /\ t.initialTimer = s.initialTimer /\ t.complete = s.complete
              /\ t.noResponse = s.noResponse /\ t.tryFtp = s.tryFtp
              /\ Quietly(s, contents, t)
  <1> DEFINE t == StartDownload(s, contents)
  <1>1. s \in PmType
    BY ZenonT(60) DEF PmInv
  <1>2. PICK d \in BOOLEAN, l \in BOOLEAN, f \in {s.file, contents}, r \in BOOLEAN :
            /\ t = [s EXCEPT !.downloading = d, !.listening = l, !.file = f, !.refused = r]
            /\ l => d /\ f \in Contents
            /\ d => l \/ r
    <2>1. CASE s.downloading
      <3>1. t = [s EXCEPT !.listening = FALSE, !.refused = TRUE]
        BY <2>1 DEF StartDownload
      <3>2. t = [s EXCEPT !.downloading = s.downloading, !.listening = FALSE,
                          !.file = s.file, !.refused = TRUE]
        BY <1>1, <3>1, ZenonT(60) DEF PmType
      <3>3. s.downloading \in BOOLEAN
        BY <1>1 DEF PmType
      <3> HIDE DEF t
      <3> QED  BY <3>2, <3>3
    <2>2. CASE ~s.downloading
      <3>1. t = [s EXCEPT !.downloading = TRUE, !.listening = TRUE, !.file = contents,
                          !.refused = FALSE]
        BY <2>2 DEF StartDownload
      <3> HIDE DEF t
      <3> QED  BY <3>1
    <2> QED  BY <2>1, <2>2
  <1> HIDE DEF t
  <1>3. t \in PmType
    <2>1. f \in Contents \cup {NoCache}
      BY <1>1 DEF PmType
    <2>2. t = [s EXCEPT !.downloading = d, !.listening = l, !.file = f, !.refused = r]
      BY <1>2
    <2>3. d \in BOOLEAN /\ l \in BOOLEAN /\ r \in BOOLEAN
      OBVIOUS
    <2> HIDE <1>2
    <2> QED  BY <1>1, <2>1, <2>2, <2>3, DownloadFacts
  <1>4. /\ t.facts = s.facts /\ t.seen = s.seen /\ t.waitingIndex = s.waitingIndex
        /\ t.waitingName = s.waitingName /\ t.waitingWrite = s.waitingWrite
        /\ t.failedIndex = s.failedIndex /\ t.batchQueue = s.batchQueue
        /\ t.initialTimer = s.initialTimer /\ t.waitingTimer = s.waitingTimer
        /\ t.writeFailed = s.writeFailed /\ t.out = s.out
    BY <1>1, <1>2 DEF PmType
  <1>5. /\ t.complete = s.complete /\ t.missing = s.missing /\ t.cache = s.cache
        /\ t.tryFtp = s.tryFtp /\ t.downloading = d
        /\ t.listening = l /\ t.refused = r /\ t.file = f /\ t.noResponse = s.noResponse
    BY <1>1, <1>2 DEF PmType
  <1>6. Waits(t) /\ Accounted(t)
    BY <1>4 DEF PmInv, Waits, Accounted
  <1>7. Files(t)
    BY <1>2, <1>5 DEF PmInv, Files
  <1>8. DefaultKnown(t) = DefaultKnown(s) /\ ListDone(t) = ListDone(s)
    BY <1>4 DEF DefaultKnown, ListDone
  <1>9. Loading(t)
    BY <1>4, <1>5, <1>8 DEF PmInv, Loading
  <1>10. Quietly(s, contents, t)
    BY <1>4, <1>5 DEF Quietly, Ready
  <1>11. PmInv(t)
    BY <1>3, <1>6, <1>7, <1>9 DEF PmInv
  <1> QED  BY <1>4, <1>5, <1>10, <1>11 DEF t

LEMMA ResetFacts ==
    ASSUME NEW s, PmInv(s), NEW c
    PROVE  /\ ResetWaitLists(s, c) \in Waiting(MaxInitialLoadRetrySingleParam)
           /\ DOMAIN s.waitingIndex \subseteq DOMAIN ResetWaitLists(s, c)
           /\ \A p \in DOMAIN ResetWaitLists(s, c) : p[1] \in s.seen
  <1> DEFINE reset == {p \in Params : p[1] \in s.seen /\ c \in {p[1], AllComponents}}
  <1>1. s.waitingIndex \in Waiting(MaxInitialLoadRetrySingleParam)
    BY DEF PmInv, PmType
  <1>2. ResetWaitLists(s, c) = WithNew(s.waitingIndex, reset)
    BY DEF ResetWaitLists
  <1>3. reset \in SUBSET Params /\ \A p \in reset : p[1] \in s.seen
    OBVIOUS
  <1> HIDE DEF reset
  <1>4. /\ ResetWaitLists(s, c) \in Waiting(MaxInitialLoadRetrySingleParam)
        /\ DOMAIN ResetWaitLists(s, c) = DOMAIN s.waitingIndex \cup reset
    BY <1>1, <1>2, <1>3, WithNewFacts, LimitsAreNumbers, ZenonT(60)
  <1>5. \A p \in DOMAIN s.waitingIndex : p[1] \in s.seen
    BY DEF PmInv, Waits
  <1> QED  BY <1>3, <1>4, <1>5

(* What is set for a high latency link.                                       *)
LEMMA HighLatencyFacts ==
    ASSUME NEW s, PmInv(s)
    PROVE  LET t == [s EXCEPT !.complete = TRUE, !.missing = TRUE, !.lastChance = FALSE]
           IN /\ PmInv(t) /\ t.complete /\ t.initialTimer = s.initialTimer
              /\ t.noResponse = s.noResponse /\ t.tryFtp = s.tryFtp
              /\ t.waitingIndex = s.waitingIndex
              /\ \A contents : Quietly(s, contents, t)
  <1> DEFINE t == [s EXCEPT !.complete = TRUE, !.missing = TRUE, !.lastChance = FALSE]
  <1>1. s \in PmType
    BY DEF PmInv
  <1>2. t \in PmType
    BY <1>1, ZenonT(60) DEF PmType
  <1>3. /\ t.facts = s.facts /\ t.seen = s.seen /\ t.waitingIndex = s.waitingIndex
        /\ t.waitingName = s.waitingName /\ t.waitingWrite = s.waitingWrite
        /\ t.failedIndex = s.failedIndex /\ t.batchQueue = s.batchQueue
        /\ t.initialTimer = s.initialTimer /\ t.waitingTimer = s.waitingTimer
        /\ t.writeFailed = s.writeFailed /\ t.out = s.out
    BY <1>1 DEF PmType
  <1>4. /\ t.complete /\ t.missing /\ t.cache = s.cache
        /\ t.tryFtp = s.tryFtp /\ t.downloading = s.downloading
        /\ t.listening = s.listening
        /\ t.refused = s.refused /\ t.file = s.file /\ t.noResponse = s.noResponse
    BY <1>1 DEF PmType
  <1> HIDE DEF t
  <1>5. Waits(t) /\ Accounted(t) /\ Files(t) /\ Loading(t)
    BY <1>3, <1>4 DEF PmInv, Waits, Accounted, Files, Loading
  <1>6. \A contents : Quietly(s, contents, t)
    BY <1>3, <1>4 DEF Quietly, Ready
  <1>7. PmInv(t)
    BY <1>2, <1>5 DEF PmInv
  <1> QED  BY <1>3, <1>4, <1>6, <1>7 DEF t

LEMMA WaitingTimerOff ==
    ASSUME NEW s, PmInv(s), s.tryFtp
    PROVE  LET t == [s EXCEPT !.waitingTimer = FALSE]
           IN /\ PmInv(t) /\ t.initialTimer = s.initialTimer /\ t.complete = s.complete
              /\ t.noResponse = s.noResponse /\ t.tryFtp = s.tryFtp
              /\ \A contents : Quietly(s, contents, t)
              /\ t.file = s.file /\ SetsOf(t.out) = SetsOf(s.out) /\ t.missing = s.missing
  <1> DEFINE t == [s EXCEPT !.waitingTimer = FALSE]
  <1>1. s \in PmType
    BY DEF PmInv
  <1>2. t \in PmType
    BY <1>1, ZenonT(60) DEF PmType
  <1>3. /\ t.facts = s.facts /\ t.seen = s.seen /\ t.waitingIndex = s.waitingIndex
        /\ t.waitingName = s.waitingName /\ t.waitingWrite = s.waitingWrite
        /\ t.failedIndex = s.failedIndex /\ t.batchQueue = s.batchQueue
        /\ t.initialTimer = s.initialTimer /\ ~t.waitingTimer
        /\ t.writeFailed = s.writeFailed /\ t.out = s.out
    BY <1>1 DEF PmType
  <1>4. /\ t.complete = s.complete /\ t.missing = s.missing /\ t.cache = s.cache
        /\ t.tryFtp = s.tryFtp /\ t.downloading = s.downloading
        /\ t.listening = s.listening
        /\ t.refused = s.refused /\ t.file = s.file /\ t.noResponse = s.noResponse
    BY <1>1 DEF PmType
  <1> HIDE DEF t
  <1>5. Waits(t) /\ Accounted(t) /\ Files(t)
    BY <1>3, <1>4 DEF PmInv, Waits, Accounted, Files
  <1>6. DefaultKnown(t) = DefaultKnown(s) /\ ListDone(t) = ListDone(s)
    BY <1>3 DEF DefaultKnown, ListDone
  <1>7. Loading(t)
    BY <1>3, <1>4, <1>6 DEF PmInv, Loading, Files
  <1>8. \A contents : Quietly(s, contents, t)
    BY <1>3, <1>4 DEF Quietly, Ready
  <1>9. PmInv(t)
    BY <1>2, <1>5, <1>7 DEF PmInv
  <1> QED  BY <1>3, <1>4, <1>8, <1>9 DEF t

LEMMA ListRequested ==
    ASSUME NEW s, PmInv(s), MayAsk(s), NEW w \in Waiting(MaxInitialLoadRetrySingleParam),
           DOMAIN s.waitingIndex \subseteq DOMAIN w, \A p \in DOMAIN w : p[1] \in s.seen,
           NEW m \in Requests, m.type # "Set"
    PROVE  LET t == [s EXCEPT !.waitingIndex = w, !.out = Append(@, m)]
           IN /\ PmInv(t) /\ t.initialTimer = s.initialTimer /\ t.complete = s.complete
              /\ t.noResponse = s.noResponse /\ t.tryFtp = s.tryFtp
              /\ \A contents : Quietly(s, contents, t)
  <1> DEFINE t == [s EXCEPT !.waitingIndex = w, !.out = Append(@, m)]
  <1>1. s \in PmType
    BY DEF PmInv
  <1>2. s.out \in Seq(Requests)
    BY <1>1 DEF PmType
  <1>3. Append(s.out, m) \in Seq(Requests) /\ SetsOf(Append(s.out, m)) = SetsOf(s.out)
    BY <1>2, AppendFacts
  <1>4. t \in PmType
    BY <1>1, <1>3, ZenonT(60) DEF PmType
  <1>5. /\ t.facts = s.facts /\ t.seen = s.seen /\ t.waitingIndex = w
        /\ t.waitingName = s.waitingName /\ t.waitingWrite = s.waitingWrite
        /\ t.failedIndex = s.failedIndex /\ t.batchQueue = s.batchQueue
        /\ t.initialTimer = s.initialTimer /\ t.waitingTimer = s.waitingTimer
        /\ t.writeFailed = s.writeFailed /\ t.out = Append(s.out, m)
    BY <1>1 DEF PmType
  <1>6. /\ t.complete = s.complete /\ t.missing = s.missing /\ t.cache = s.cache
        /\ t.tryFtp = s.tryFtp /\ t.downloading = s.downloading
        /\ t.listening = s.listening
        /\ t.refused = s.refused /\ t.file = s.file /\ t.noResponse = s.noResponse
    BY <1>1 DEF PmType
  <1> HIDE DEF t
  <1>7. Waits(t) /\ Accounted(t) /\ Files(t)
    BY <1>5, <1>6 DEF PmInv, Waits, Accounted, Files
  <1>8. DefaultKnown(t) = DefaultKnown(s) /\ (ListDone(t) => ListDone(s))
    BY <1>5 DEF DefaultKnown, ListDone
  <1>9. Loading(t)
    BY <1>5, <1>6, <1>8 DEF PmInv, Loading, MayAsk
  <1>10. \A contents : Quietly(s, contents, t)
    BY <1>3, <1>5, <1>6 DEF Quietly, Ready
  <1>11. PmInv(t)
    BY <1>4, <1>7, <1>9 DEF PmInv
  <1> QED  BY <1>5, <1>6, <1>10, <1>11 DEF t

(* refreshAllParameters, with a link.                                         *)
Refreshed(s, contents, t) ==
    /\ PmInv(t) /\ Quietly(s, contents, t) /\ t.noResponse = s.noResponse
    /\ linked => t.complete \/ t.initialTimer
    /\ ~linked => t = s

LEMMA RefreshAllFacts ==
    ASSUME NEW s, PmInv(s), MayAsk(s), NEW c \in Components \cup {AllComponents},
           NEW contents, s.tryFtp => contents \in Contents
    PROVE  Refreshed(s, contents, RefreshAll(s, c, contents))
  <1> DEFINE ready == IF setup.highLatency
                      THEN [s EXCEPT !.complete = TRUE, !.missing = TRUE, !.lastChance = FALSE]
                      ELSE s
             runs == ready.initialTimer \/ ~ready.complete
             timed == [ready EXCEPT !.initialTimer = runs]
             stopped == [timed EXCEPT !.waitingTimer = FALSE]
             asked == [timed EXCEPT !.waitingIndex = ResetWaitLists(s, c),
                                    !.out = Append(@, ListRequest(c))]
             t == RefreshAll(s, c, contents)
  <1>1. t = IF ~linked THEN s
            ELSE IF s.tryFtp /\ c \in {AllComponents, DefaultComponent}
            THEN StartDownload(stopped, contents)
            ELSE asked
    BY Zenon DEF RefreshAll
  <1>2. /\ PmInv(ready) /\ ready.noResponse = s.noResponse /\ ready.tryFtp = s.tryFtp
        /\ Quietly(s, contents, ready) /\ ready.waitingIndex = s.waitingIndex
    <2>1. CASE setup.highLatency
      <3> DEFINE r == [s EXCEPT !.complete = TRUE, !.missing = TRUE, !.lastChance = FALSE]
      <3>1. ready = r
        BY <2>1
      <3> HIDE DEF ready
      <3>2. /\ PmInv(r) /\ r.noResponse = s.noResponse /\ r.tryFtp = s.tryFtp
            /\ Quietly(s, contents, r) /\ r.waitingIndex = s.waitingIndex
        BY HighLatencyFacts
      <3> QED  BY <3>1, <3>2
    <2>2. CASE ~setup.highLatency
      <3>1. ready = s
        BY <2>2
      <3> QED  BY <3>1 DEF Quietly, Ready
    <2> QED  BY <2>1, <2>2
  <1> HIDE DEF ready
  <1>3. MayAsk(ready) /\ runs \in BOOLEAN /\ (~ready.complete => runs)
    <2>1. ready.seen = s.seen /\ (s.complete => ready.complete) /\ ready.initialTimer \in BOOLEAN
      BY <1>2 DEF Quietly, PmInv, PmType
    <2> QED  BY <1>2, <2>1 DEF MayAsk
  <1> HIDE DEF runs
  <1>4. /\ PmInv(timed) /\ timed.initialTimer = runs /\ timed.complete = ready.complete
        /\ timed.noResponse = s.noResponse /\ timed.tryFtp = s.tryFtp
        /\ Quietly(ready, contents, timed) /\ timed.waitingIndex = s.waitingIndex
    <2>1. timed.waitingIndex = ready.waitingIndex
      BY <1>2 DEF PmInv, PmType
    <2> QED  BY <1>2, <1>3, <2>1, InitialTimerFacts
  <1> HIDE DEF timed
  <1>5. timed.complete \/ timed.initialTimer
    BY <1>3, <1>4
  <1>6. CASE ~linked
    <2>1. Refreshed(s, contents, s)
      BY <1>6 DEF Refreshed, Quietly, Ready
    <2> QED  BY <1>1, <1>6, <2>1
  <1>7. CASE linked /\ s.tryFtp /\ c \in {AllComponents, DefaultComponent}
    <2> DEFINE u == StartDownload(stopped, contents)
    <2>1. /\ PmInv(stopped) /\ stopped.initialTimer = timed.initialTimer
          /\ stopped.complete = timed.complete /\ stopped.noResponse = s.noResponse
          /\ stopped.tryFtp /\ Quietly(timed, contents, stopped)
      BY <1>4, <1>7, WaitingTimerOff
    <2> HIDE DEF stopped
    <2>2. /\ PmInv(u) /\ u.initialTimer = stopped.initialTimer
          /\ u.complete = stopped.complete /\ u.noResponse = stopped.noResponse
          /\ Quietly(stopped, contents, u)
      BY <1>7, <2>1, StartDownloadFacts
    <2>3. t = u
      BY <1>1, <1>7
    <2> HIDE DEF t, u
    <2>4. Quietly(s, contents, u)
      <3>1. ready.complete \in BOOLEAN /\ timed.complete \in BOOLEAN /\ stopped.complete \in BOOLEAN
        BY <1>2, <1>4, <2>1 DEF PmInv, PmType
      <3>2. Quietly(s, contents, timed)
        BY <1>2, <1>4, <3>1, QuietlyAgain
      <3>3. Quietly(s, contents, stopped)
        BY <2>1, <3>1, <3>2, QuietlyAgain
      <3> QED  BY <2>2, <3>1, <3>3, QuietlyAgain
    <2>5. Refreshed(s, contents, u)
      BY <1>4, <1>5, <1>7, <2>1, <2>2, <2>4 DEF Refreshed
    <2> QED  BY <2>3, <2>5 DEF t
  <1>8. CASE linked /\ ~(s.tryFtp /\ c \in {AllComponents, DefaultComponent})
    <2> DEFINE w == ResetWaitLists(s, c)
               m == ListRequest(c)
    <2>1. t = asked
      BY <1>1, <1>8
    <2>2. /\ w \in Waiting(MaxInitialLoadRetrySingleParam)
          /\ DOMAIN s.waitingIndex \subseteq DOMAIN w /\ \A p \in DOMAIN w : p[1] \in s.seen
      BY ResetFacts
    <2>3. m \in Requests /\ m.type # "Set"
      BY RequestFacts
    <2>4. timed.seen = s.seen /\ MayAsk(timed)
      BY <1>2, <1>3, <1>4 DEF Quietly, MayAsk
    <2> DEFINE u == [timed EXCEPT !.waitingIndex = w, !.out = Append(@, m)]
    <2>5. asked = u
      OBVIOUS
    <2> HIDE DEF t, w, m, asked
    <2>6. /\ PmInv(u) /\ u.initialTimer = timed.initialTimer
          /\ u.complete = timed.complete /\ u.noResponse = timed.noResponse
          /\ Quietly(timed, contents, u)
      <3>1. PmInv(timed) /\ MayAsk(timed)
        BY <1>4, <2>4
      <3>2. \A p \in DOMAIN w : p[1] \in timed.seen
        BY <2>2, <2>4
      <3>3. DOMAIN timed.waitingIndex \subseteq DOMAIN w
        BY <1>4, <2>2
      <3>4. w \in Waiting(MaxInitialLoadRetrySingleParam)
        BY <2>2
      <3> QED  BY <2>3, <3>1, <3>2, <3>3, <3>4, ListRequested, ZenonT(60)
    <2> HIDE DEF u
    <2>7. Quietly(s, contents, u)
      <3>1. ready.complete \in BOOLEAN /\ timed.complete \in BOOLEAN
        BY <1>2, <1>4 DEF PmInv, PmType
      <3>2. Quietly(s, contents, timed)
        BY <1>2, <1>4, <3>1, QuietlyAgain
      <3> QED  BY <2>6, <3>1, <3>2, QuietlyAgain
    <2>8. Refreshed(s, contents, u)
      BY <1>4, <1>5, <1>8, <2>6, <2>7 DEF Refreshed
    <2> QED  BY <2>1, <2>5, <2>8 DEF t
  <1> QED  BY <1>6, <1>7, <1>8

LEMMA ListStateFacts ==
    ASSUME NEW s, PmInv(s),
           NEW timer \in BOOLEAN, timer => MayAsk(s),
           NEW retry \in 0..MaxInitialRequestListRetry + 1,
           NEW ftp \in BOOLEAN, ftp => s.tryFtp, s.downloading => ftp,
           NEW none \in BOOLEAN, s.noResponse => none
    PROVE  LET t == [s EXCEPT !.initialTimer = timer, !.initialRetry = retry,
                              !.tryFtp = ftp, !.noResponse = none]
           IN /\ PmInv(t) /\ \A contents : Quietly(s, contents, t)
              /\ t.initialTimer = timer /\ t.initialRetry = retry
              /\ t.tryFtp = ftp /\ t.noResponse = none
              /\ t.complete = s.complete /\ t.downloading = s.downloading
  <1> DEFINE t == [s EXCEPT !.initialTimer = timer, !.initialRetry = retry,
                            !.tryFtp = ftp, !.noResponse = none]
  <1>1. s \in PmType
    BY DEF PmInv
  <1>2. t \in PmType
    BY <1>1, ZenonT(60) DEF PmType
  <1>3. /\ t.facts = s.facts /\ t.seen = s.seen /\ t.waitingIndex = s.waitingIndex
        /\ t.waitingName = s.waitingName /\ t.waitingWrite = s.waitingWrite
        /\ t.failedIndex = s.failedIndex /\ t.batchQueue = s.batchQueue
        /\ t.initialTimer = timer /\ t.waitingTimer = s.waitingTimer
        /\ t.writeFailed = s.writeFailed /\ t.out = s.out /\ t.initialRetry = retry
    BY <1>1 DEF PmType
  <1>4. /\ t.complete = s.complete /\ t.missing = s.missing /\ t.cache = s.cache
        /\ t.tryFtp = ftp /\ t.downloading = s.downloading
        /\ t.listening = s.listening
        /\ t.refused = s.refused /\ t.file = s.file /\ t.noResponse = none
    BY <1>1 DEF PmType
  <1> HIDE DEF t
  <1>5. Waits(t) /\ Accounted(t) /\ Files(t)
    BY <1>3, <1>4 DEF PmInv, Waits, Accounted, Files
  <1>6. DefaultKnown(t) = DefaultKnown(s) /\ ListDone(t) = ListDone(s)
    BY <1>3 DEF DefaultKnown, ListDone
  <1>7. Loading(t)
    BY <1>3, <1>4, <1>6 DEF PmInv, Loading, MayAsk
  <1>8. \A contents : Quietly(s, contents, t)
    BY <1>3, <1>4 DEF Quietly, Ready
  <1>9. PmInv(t)
    BY <1>2, <1>5, <1>7 DEF PmInv
  <1> QED  BY <1>3, <1>4, <1>8, <1>9 DEF t

(* _initialRequestTimeout: the list is asked for again, or the user told.     *)
Retried(s, contents, t) ==
    PmInv(t) /\ Quietly(s, contents, t) /\ (t.initialTimer \/ t.noResponse)

LEMMA InitialRequestTimeoutFacts ==
    ASSUME NEW s, PmInv(s), MayAsk(s), NEW contents, s.tryFtp => contents \in Contents
    PROVE  Retried(s, contents, InitialRequestTimeout(s, contents))
  <1> DEFINE retry == IF s.initialRetry > MaxInitialRequestListRetry THEN s.initialRetry
                      ELSE s.initialRetry + 1
             counted == [s EXCEPT !.initialRetry = retry, !.initialTimer = FALSE]
             asked == RefreshAll(counted, AllComponents, contents)
             t == InitialRequestTimeout(s, contents)
  <1>1. t = IF counted.initialRetry <= MaxInitialRequestListRetry
            THEN [asked EXCEPT !.initialTimer = TRUE]
            ELSE [counted EXCEPT !.noResponse = TRUE]
    BY DEF InitialRequestTimeout
  <1>2. s \in PmType /\ s.tryFtp \in BOOLEAN /\ s.noResponse \in BOOLEAN /\ s.complete \in BOOLEAN
        /\ (s.downloading => s.tryFtp)
    BY DEF PmInv, Files, PmType
  <1>3. retry \in 0..MaxInitialRequestListRetry + 1
    BY <1>2, LimitsAreNumbers DEF PmType
  <1> HIDE DEF retry
  <1> DEFINE same == [s EXCEPT !.initialTimer = FALSE, !.initialRetry = retry,
                               !.tryFtp = s.tryFtp, !.noResponse = s.noResponse]
  <1>4. counted = same
    BY <1>2 DEF PmType
  <1> HIDE DEF counted
  <1>5. /\ PmInv(counted) /\ Quietly(s, contents, counted)
        /\ counted.complete = s.complete /\ counted.noResponse = s.noResponse
        /\ counted.tryFtp = s.tryFtp /\ counted.downloading = s.downloading
    <2>1. PmInv(same) /\ Quietly(s, contents, same)
      BY <1>2, <1>3, ListStateFacts, ZenonT(60)
    <2>2. /\ same.complete = s.complete /\ same.noResponse = s.noResponse
          /\ same.tryFtp = s.tryFtp /\ same.downloading = s.downloading
      BY <1>2 DEF PmType
    <2> HIDE DEF same
    <2> QED  BY <1>4, <2>1, <2>2
  <1> HIDE DEF same
  <1>6. MayAsk(counted)
    BY <1>5 DEF MayAsk, Quietly
  <1>7. Refreshed(counted, contents, asked)
    BY <1>5, <1>6, RefreshAllFacts
  <1> HIDE DEF asked
  <1>8. MayAsk(asked)
    BY <1>5, <1>6, <1>7 DEF MayAsk, Refreshed, Quietly
  <1>9. CASE counted.initialRetry <= MaxInitialRequestListRetry
    <2> DEFINE u == [asked EXCEPT !.initialTimer = TRUE]
    <2>1. PmInv(asked) /\ Quietly(counted, contents, asked)
      BY <1>7 DEF Refreshed
    <2>2. PmInv(u) /\ u.initialTimer = TRUE /\ Quietly(asked, contents, u)
      BY <1>8, <2>1, InitialTimerFacts
    <2> HIDE DEF u
    <2>3. counted.complete \in BOOLEAN /\ asked.complete \in BOOLEAN
      BY <1>5, <2>1 DEF PmInv, PmType
    <2>4. Quietly(s, contents, asked)
      BY <1>5, <2>1, <2>3, QuietlyAgain
    <2>5. Quietly(s, contents, u)
      BY <2>2, <2>3, <2>4, QuietlyAgain
    <2>6. Retried(s, contents, u)
      BY <2>2, <2>5 DEF Retried
    <2> QED  BY <1>1, <1>9, <2>6 DEF u
  <1>10. CASE ~(counted.initialRetry <= MaxInitialRequestListRetry)
    <2> DEFINE u == [counted EXCEPT !.noResponse = TRUE]
    <2>1. counted \in PmType /\ counted.complete \in BOOLEAN /\ counted.initialTimer \in BOOLEAN
          /\ counted.initialRetry \in 0..MaxInitialRequestListRetry + 1
          /\ counted.tryFtp \in BOOLEAN /\ (counted.downloading => counted.tryFtp)
      BY <1>5 DEF PmInv, Files, PmType
    <2> DEFINE v == [counted EXCEPT !.initialTimer = counted.initialTimer,
                                    !.initialRetry = counted.initialRetry,
                                    !.tryFtp = counted.tryFtp, !.noResponse = TRUE]
    <2>2. u = v
      BY <2>1 DEF PmType
    <2>3. PmInv(u) /\ Quietly(counted, contents, u) /\ u.noResponse
      <3>1. PmInv(counted) /\ MayAsk(counted)
        BY <1>5, <1>6
      <3>2. PmInv(v) /\ Quietly(counted, contents, v) /\ v.noResponse = TRUE
        BY <2>1, <3>1, ListStateFacts, ZenonT(60)
      <3> HIDE DEF u, v
      <3> QED  BY <2>2, <3>2
    <2> HIDE DEF u
    <2>4. Quietly(s, contents, u)
      BY <1>5, <2>1, <2>3, QuietlyAgain
    <2>5. Retried(s, contents, u)
      BY <2>3, <2>4 DEF Retried
    <2> QED  BY <1>1, <1>10, <2>5 DEF u
  <1> QED  BY <1>9, <1>10

(* What follows a file that did not come.                                     *)
LEMMA ConventionalDownloadFacts ==
    ASSUME NEW s, PmInv(s), s.tryFtp, ~s.downloading, NEW immediately \in BOOLEAN
    PROVE  Retried(s, NoCache, ConventionalDownload(s, immediately))
  <1> DEFINE fallen == [s EXCEPT !.tryFtp = FALSE, !.initialRetry = 0]
             t == ConventionalDownload(s, immediately)
  <1>1. t = IF immediately THEN InitialRequestTimeout(fallen, NoCache)
            ELSE [fallen EXCEPT !.initialTimer = TRUE]
    BY DEF ConventionalDownload
  <1>2. s \in PmType /\ s.initialTimer \in BOOLEAN /\ s.noResponse \in BOOLEAN
        /\ 0 \in 0..MaxInitialRequestListRetry + 1
    BY LimitsAreNumbers DEF PmInv, PmType
  <1>3. setup.firmware # "px4"
    BY DEF PmInv, Files
  <1>4. fallen = [s EXCEPT !.initialTimer = s.initialTimer, !.initialRetry = 0,
                           !.tryFtp = FALSE, !.noResponse = s.noResponse]
    BY <1>2 DEF PmType
  <1> HIDE DEF fallen
  <1>5. PmInv(fallen) /\ Quietly(s, NoCache, fallen) /\ ~fallen.tryFtp
    BY <1>2, <1>3, <1>4, ListStateFacts, ZenonT(60) DEF MayAsk
  <1>6. MayAsk(fallen) /\ fallen.complete \in BOOLEAN
    BY <1>3, <1>5 DEF MayAsk, PmInv, PmType
  <1>7. CASE immediately
    <2>1. Retried(fallen, NoCache, t)
      BY <1>1, <1>5, <1>6, <1>7, InitialRequestTimeoutFacts
    <2> HIDE DEF t
    <2>2. Quietly(s, NoCache, t)
      BY <1>5, <1>6, <2>1, QuietlyAgain DEF Retried
    <2>3. Retried(s, NoCache, t)
      BY <2>1, <2>2 DEF Retried
    <2> QED  BY <2>3 DEF t
  <1>8. CASE ~immediately
    <2> DEFINE u == [fallen EXCEPT !.initialTimer = TRUE]
    <2>1. PmInv(u) /\ u.initialTimer = TRUE /\ Quietly(fallen, NoCache, u)
      BY <1>5, <1>6, InitialTimerFacts
    <2> HIDE DEF u
    <2>2. Quietly(s, NoCache, u)
      BY <1>5, <1>6, <2>1, QuietlyAgain
    <2>3. Retried(s, NoCache, u)
      BY <2>1, <2>2 DEF Retried
    <2> QED  BY <1>1, <1>8, <2>3 DEF u
  <1> QED  BY <1>7, <1>8

-----------------------------------------------------------------------------
(* _waitingParamTimeout                                                       *)

(* Those a round sends are waited for still, the others it reaches are not.   *)
LEMMA RoundFacts ==
    ASSUME NEW waiting \in Waiting(MaxReadWriteRetry)
    PROVE  LET r == Round(waiting)
           IN /\ r.sent \in Seq(DOMAIN r.waiting) /\ r.givenUp \subseteq DOMAIN waiting
              /\ r.waiting \in Waiting(MaxReadWriteRetry)
              /\ DOMAIN r.waiting = DOMAIN waiting \ r.givenUp
  <1> DEFINE r == Round(waiting)
             order == InOrder(DOMAIN waiting)
             again == {i \in DOMAIN order : waiting[order[i]] < MaxReadWriteRetry}
             reached == {i \in DOMAIN order :
                             Cardinality({j \in again : j < i}) <= MaxBatchSize}
             inReach == {order[i] : i \in reached}
             sent == {order[i] : i \in reached \cap again}
             after == [p \in DOMAIN waiting \ (inReach \ sent) |->
                          IF p \in sent THEN waiting[p] + 1 ELSE waiting[p]]
  <1>1. r.sent = InOrder(sent) /\ r.givenUp = inReach \ sent /\ r.waiting = after
    BY DEF Round
  <1> HIDE DEF r
  <1>2. waiting \in [DOMAIN waiting -> 0..MaxReadWriteRetry] /\ DOMAIN waiting \subseteq Params
    BY WaitingFacts
  <1>3. order \in Seq(DOMAIN waiting)
    BY <1>2, InOrderFacts
  <1> HIDE DEF order
  <1>4. \A i \in DOMAIN order : order[i] \in DOMAIN waiting
    BY <1>3
  <1>5. inReach \subseteq DOMAIN waiting /\ sent \subseteq DOMAIN waiting
        /\ \A p \in sent : waiting[p] < MaxReadWriteRetry
    BY <1>4
  <1> HIDE DEF inReach, sent
  <1>6. after \in [DOMAIN waiting \ (inReach \ sent) -> 0..MaxReadWriteRetry]
    <2>1. ASSUME NEW p \in sent PROVE waiting[p] + 1 \in 0..MaxReadWriteRetry
      <3>1. waiting[p] \in 0..MaxReadWriteRetry /\ waiting[p] < MaxReadWriteRetry
        BY <1>2, <1>5
      <3> QED  BY <3>1, LimitsAreNumbers
    <2>2. \A p \in DOMAIN waiting : waiting[p] \in 0..MaxReadWriteRetry
      BY <1>2
    <2> QED  BY <2>1, <2>2
  <1>7. after \in Waiting(MaxReadWriteRetry)
    <2>1. DOMAIN waiting \ (inReach \ sent) \in SUBSET Params
      BY <1>2
    <2> HIDE DEF after
    <2> QED  BY <1>6, <2>1 DEF Waiting
  <1>8. DOMAIN after = DOMAIN waiting \ (inReach \ sent)
    OBVIOUS
  <1> HIDE DEF after
  <1>9. InOrder(sent) \in Seq(DOMAIN after)
    <2>1. InOrder(sent) \in Seq(sent)
      BY <1>2, <1>5, InOrderFacts
    <2>2. sent \subseteq DOMAIN after
      BY <1>5, <1>8
    <2> QED  BY <2>1, <2>2
  <1> QED  BY <1>1, <1>5, <1>7, <1>8, <1>9 DEF r

LEMMA ConcatFacts ==
    ASSUME NEW q \in Seq(Requests), NEW r \in Seq(Requests)
    PROVE  /\ q \o r \in Seq(Requests)
           /\ \A m \in SetsOf(q \o r) : m \in SetsOf(q) \cup SetsOf(r)
  <1>1. q \o r \in Seq(Requests) /\ Len(q \o r) = Len(q) + Len(r)
    OBVIOUS
  <1>2. ASSUME NEW i \in 1..Len(q \o r), (q \o r)[i].type = "Set"
        PROVE  (q \o r)[i] \in SetsOf(q) \cup SetsOf(r)
    <2>1. Len(q) \in Nat /\ Len(r) \in Nat
      OBVIOUS
    <2>2. CASE i <= Len(q)
      <3>1. i \in 1..Len(q) /\ (q \o r)[i] = q[i]
        BY <1>1, <2>1, <2>2
      <3> QED  BY <1>2, <3>1 DEF SetsOf
    <2>3. CASE i > Len(q)
      <3>1. i - Len(q) \in 1..Len(r) /\ (q \o r)[i] = r[i - Len(q)]
        BY <1>1, <2>1, <2>3
      <3> DEFINE j == i - Len(q)
      <3>2. j \in 1..Len(r) /\ (q \o r)[i] = r[j] /\ r[j].type = "Set"
        BY <1>2, <3>1
      <3> HIDE DEF j
      <3> QED  BY <3>2 DEF SetsOf
    <2> QED  BY <2>1, <2>2, <2>3
  <1> QED  BY <1>1, <1>2 DEF SetsOf

(* What a handler leaves of s that takes no value: the writes waited for are  *)
(* sent with the values they have, and waited for still or given up.          *)
Sends(s, contents, t) ==
    /\ t.facts = s.facts /\ t.seen = s.seen /\ t.file \in {s.file, contents}
    /\ DOMAIN t.waitingWrite \subseteq DOMAIN s.waitingWrite
    /\ DOMAIN s.waitingWrite \cup s.writeFailed \subseteq DOMAIN t.waitingWrite \cup t.writeFailed
    /\ \A m \in SetsOf(t.out) : \/ m \in SetsOf(s.out)
                                \/ /\ m.param \in DOMAIN t.waitingWrite
                                   /\ m.value = t.facts[m.param]
    /\ s.complete => t.complete /\ (s.missing => t.missing)
    /\ Ready(s, t)

LEMMA QuietlySends ==
    ASSUME NEW s, NEW contents, NEW t, Quietly(s, contents, t)
    PROVE  Sends(s, contents, t)
  BY DEF Quietly, Sends

(* While a round can come the load goes on.                                   *)
GoingOn(s) ==
    ~s.complete /\ ~s.noResponse =>
        /\ s.seen # {}
        /\ s.tryFtp /\ DefaultKnown(s) => ~ListDone(s)
        /\ setup.firmware = "px4" => ~s.initialTimer

LEMMA RetryWritesFacts ==
    ASSUME NEW s \in PmType, Waits(s), Accounted(s), Files(s), GoingOn(s)
    PROVE  LET t == RetryWrites(s)
           IN PmInv(t) /\ t.waitingTimer /\ Sends(s, s.file, t)
  <1> DEFINE r == Round(s.waitingWrite)
             asked == [i \in DOMAIN r.sent |-> SetRequest(r.sent[i], s.facts[r.sent[i]])]
             t == RetryWrites(s)
  <1>1. t = [s EXCEPT !.waitingWrite = r.waiting, !.waitingTimer = TRUE,
                      !.writeFailed = s.writeFailed \cup r.givenUp,
                      !.out = s.out \o asked]
    BY DEF RetryWrites
  <1>2. s.waitingWrite \in Waiting(MaxReadWriteRetry) /\ s.out \in Seq(Requests)
        /\ s.facts \in [Params -> Values \cup {NoValue}]
    BY DEF PmType
  <1>3. /\ r.sent \in Seq(DOMAIN r.waiting) /\ r.givenUp \subseteq DOMAIN s.waitingWrite
        /\ r.waiting \in Waiting(MaxReadWriteRetry)
        /\ DOMAIN r.waiting = DOMAIN s.waitingWrite \ r.givenUp
    BY <1>2, RoundFacts
  <1>4. DOMAIN s.waitingWrite \subseteq Params
    BY <1>2, WaitingFacts
  <1> HIDE DEF r
  <1>5. \A p \in DOMAIN r.waiting :
           p \in Params /\ s.facts[p] \in Values /\ SetRequest(p, s.facts[p]) \in Requests
    <2>1. ASSUME NEW p \in DOMAIN r.waiting PROVE p \in Params /\ s.facts[p] \in Values
      BY <1>2, <1>3, <1>4 DEF Waits
    <2> QED  BY <2>1, RequestFacts
  <1>6. asked \in Seq(Requests) /\ \A i \in 1..Len(asked) :
            r.sent[i] \in DOMAIN r.waiting
              /\ asked[i] = SetRequest(r.sent[i], s.facts[r.sent[i]])
    <2>1. Len(r.sent) \in Nat /\ DOMAIN r.sent = 1..Len(r.sent)
          /\ \A i \in 1..Len(r.sent) : r.sent[i] \in DOMAIN r.waiting
      BY <1>3
    <2>2. asked \in [1..Len(r.sent) -> Requests]
      BY <1>5, <2>1
    <2>3. asked \in Seq(Requests) /\ Len(asked) = Len(r.sent)
      BY <2>1, <2>2
    <2> QED  BY <2>1, <2>3
  <1> HIDE DEF asked
  <1>7. ASSUME NEW m \in SetsOf(asked)
        PROVE  m.param \in DOMAIN r.waiting /\ m.value = s.facts[m.param]
    <2>1. PICK i \in 1..Len(asked) : m = asked[i]
      BY DEF SetsOf
    <2>2. PICK p \in DOMAIN r.waiting : m = SetRequest(p, s.facts[p])
      BY <1>6, <2>1
    <2>3. m.param = p /\ m.value = s.facts[p]
      BY <2>2 DEF SetRequest
    <2> QED  BY <2>3
  <1>8. s.out \o asked \in Seq(Requests)
        /\ \A m \in SetsOf(s.out \o asked) : m \in SetsOf(s.out) \cup SetsOf(asked)
    BY <1>2, <1>6, ConcatFacts
  <1> DEFINE queue == s.out \o asked
             failed == s.writeFailed \cup r.givenUp
  <1>9. failed \in SUBSET Params
    BY <1>3, <1>4 DEF PmType
  <1>10. t = [s EXCEPT !.waitingWrite = r.waiting, !.waitingTimer = TRUE,
                       !.writeFailed = failed, !.out = queue]
    BY <1>1
  <1>11. queue \in Seq(Requests)
         /\ \A m \in SetsOf(queue) : m \in SetsOf(s.out) \cup SetsOf(asked)
    BY <1>8
  <1>12. DOMAIN s.waitingWrite \cup s.writeFailed \subseteq DOMAIN r.waiting \cup failed
    BY <1>3
  <1> HIDE DEF queue, failed, t
  <1>13. t \in PmType
    BY <1>3, <1>9, <1>10, <1>11, ZenonT(60) DEF PmType
  <1>14. /\ t.facts = s.facts /\ t.seen = s.seen /\ t.waitingIndex = s.waitingIndex
         /\ t.waitingName = s.waitingName /\ t.waitingWrite = r.waiting
         /\ t.failedIndex = s.failedIndex /\ t.batchQueue = s.batchQueue
         /\ t.initialTimer = s.initialTimer /\ t.waitingTimer
         /\ t.writeFailed = failed /\ t.out = queue
    BY <1>10 DEF PmType
  <1>15. /\ t.complete = s.complete /\ t.missing = s.missing /\ t.cache = s.cache
         /\ t.tryFtp = s.tryFtp /\ t.downloading = s.downloading
         /\ t.listening = s.listening
         /\ t.refused = s.refused /\ t.file = s.file /\ t.noResponse = s.noResponse
    BY <1>10 DEF PmType
  <1>16. Waits(t) /\ Accounted(t) /\ Files(t)
    BY <1>3, <1>14, <1>15 DEF Waits, Accounted, Files
  <1>17. Loading(t)
    <2>1. DefaultKnown(t) = DefaultKnown(s) /\ ListDone(t) = ListDone(s)
      BY <1>14 DEF DefaultKnown, ListDone
    <2> QED  BY <1>14, <1>15, <2>1 DEF Loading, GoingOn
  <1>18. Sends(s, s.file, t)
    BY <1>3, <1>7, <1>11, <1>12, <1>14, <1>15 DEF Sends, Ready
  <1>19. PmInv(t) /\ t.waitingTimer
    BY <1>13, <1>14, <1>16, <1>17 DEF PmInv
  <1> QED  BY <1>18, <1>19 DEF t

LEMMA RetryReadsFacts ==
    ASSUME NEW s \in PmType, Waits(s), Accounted(s), Files(s), GoingOn(s)
    PROVE  LET t == RetryReads(s)
           IN PmInv(t) /\ t.waitingTimer /\ Sends(s, s.file, t)
  <1> DEFINE r == Round(s.waitingName)
             asked == [i \in DOMAIN r.sent |-> ReadRequest(r.sent[i])]
             queue == s.out \o asked
             failed == s.readFailed \cup r.givenUp
             t == RetryReads(s)
  <1>1. t = [s EXCEPT !.waitingName = r.waiting, !.waitingTimer = TRUE,
                      !.readFailed = failed, !.out = queue]
    BY DEF RetryReads
  <1>2. s.waitingName \in Waiting(MaxReadWriteRetry) /\ s.out \in Seq(Requests)
    BY DEF PmType
  <1>3. /\ r.sent \in Seq(DOMAIN r.waiting) /\ r.givenUp \subseteq DOMAIN s.waitingName
        /\ r.waiting \in Waiting(MaxReadWriteRetry)
        /\ DOMAIN r.waiting = DOMAIN s.waitingName \ r.givenUp
    BY <1>2, RoundFacts
  <1>4. DOMAIN s.waitingName \subseteq Params
    BY <1>2, WaitingFacts
  <1> HIDE DEF r
  <1>5. \A p \in DOMAIN r.waiting : ReadRequest(p) \in Requests /\ ReadRequest(p).type # "Set"
    BY <1>3, <1>4, RequestFacts
  <1>6. asked \in Seq(Requests) /\ \A i \in 1..Len(asked) : asked[i].type # "Set"
    <2>1. Len(r.sent) \in Nat /\ DOMAIN r.sent = 1..Len(r.sent)
          /\ \A i \in 1..Len(r.sent) : r.sent[i] \in DOMAIN r.waiting
      BY <1>3
    <2>2. asked \in [1..Len(r.sent) -> Requests]
      BY <1>5, <2>1
    <2>3. asked \in Seq(Requests) /\ Len(asked) = Len(r.sent)
      BY <2>1, <2>2
    <2>4. \A i \in 1..Len(r.sent) : asked[i].type # "Set"
      BY <1>5, <2>1
    <2> QED  BY <2>3, <2>4
  <1> HIDE DEF asked
  <1>7. SetsOf(asked) = {}
    BY <1>6 DEF SetsOf
  <1>8. queue \in Seq(Requests) /\ \A m \in SetsOf(queue) : m \in SetsOf(s.out)
    BY <1>2, <1>6, <1>7, ConcatFacts
  <1>9. failed \in SUBSET Params
    BY <1>3, <1>4 DEF PmType
  <1> HIDE DEF queue, failed, t
  <1>10. t \in PmType
    BY <1>1, <1>3, <1>8, <1>9, ZenonT(60) DEF PmType
  <1>11. /\ t.facts = s.facts /\ t.seen = s.seen /\ t.waitingIndex = s.waitingIndex
         /\ t.waitingName = r.waiting /\ t.waitingWrite = s.waitingWrite
         /\ t.failedIndex = s.failedIndex /\ t.batchQueue = s.batchQueue
         /\ t.initialTimer = s.initialTimer /\ t.waitingTimer
         /\ t.writeFailed = s.writeFailed /\ t.out = queue
    BY <1>1 DEF PmType
  <1>12. /\ t.complete = s.complete /\ t.missing = s.missing /\ t.cache = s.cache
         /\ t.tryFtp = s.tryFtp /\ t.downloading = s.downloading
         /\ t.listening = s.listening
         /\ t.refused = s.refused /\ t.file = s.file /\ t.noResponse = s.noResponse
    BY <1>1 DEF PmType
  <1>13. Waits(t) /\ Accounted(t) /\ Files(t)
    BY <1>3, <1>11, <1>12 DEF Waits, Accounted, Files
  <1>14. Loading(t)
    <2>1. DefaultKnown(t) = DefaultKnown(s) /\ ListDone(t) = ListDone(s)
      BY <1>11 DEF DefaultKnown, ListDone
    <2> QED  BY <1>11, <1>12, <2>1 DEF Loading, GoingOn
  <1>15. Sends(s, s.file, t)
    BY <1>8, <1>11, <1>12 DEF Sends, Ready
  <1>16. PmInv(t) /\ t.waitingTimer
    BY <1>10, <1>11, <1>13, <1>14 DEF PmInv
  <1> QED  BY <1>15, <1>16 DEF t

LEMMA QuietlyThenSends ==
    ASSUME NEW s, NEW contents, NEW t, NEW u, Quietly(s, contents, t), Sends(t, contents, u),
           t.complete \in BOOLEAN
    PROVE  Sends(s, contents, u)
  <1>1. /\ t.facts = s.facts /\ t.seen = s.seen
        /\ t.waitingWrite = s.waitingWrite /\ t.writeFailed = s.writeFailed
        /\ t.file \in {s.file, contents} /\ SetsOf(t.out) = SetsOf(s.out)
        /\ s.complete => t.complete /\ (s.missing => t.missing)
        /\ Ready(s, t)
    BY DEF Quietly
  <1>2. /\ u.facts = t.facts /\ u.seen = t.seen /\ u.file \in {t.file, contents}
        /\ DOMAIN u.waitingWrite \subseteq DOMAIN t.waitingWrite
        /\ DOMAIN t.waitingWrite \cup t.writeFailed
              \subseteq DOMAIN u.waitingWrite \cup u.writeFailed
        /\ t.complete => u.complete /\ (t.missing => u.missing)
        /\ Ready(t, u)
    BY DEF Sends
  <1>3. AllKnown(t) => AllKnown(u)
    BY <1>2 DEF AllKnown
  <1>4. Ready(s, u)
    BY <1>1, <1>2, <1>3 DEF Ready
  <1>5. \A m \in SetsOf(u.out) : \/ m \in SetsOf(s.out)
                                \/ /\ m.param \in DOMAIN u.waitingWrite
                                   /\ m.value = u.facts[m.param]
    BY <1>1 DEF Sends
  <1> HIDE DEF SetsOf
  <1> QED  BY <1>1, <1>2, <1>4, <1>5 DEF Sends

(* The list of those waited for, asked for again as a new batch.              *)
BatchFilled(s, t) ==
    /\ t \in PmType /\ Waits(t) /\ Accounted(t) /\ Files(t)
    /\ t = [s EXCEPT !.waitingTimer = FALSE, !.batchActive = TRUE,
                     !.waitingIndex = t.waitingIndex, !.failedIndex = t.failedIndex,
                     !.batchQueue = t.batchQueue, !.out = t.out]
    /\ t.batchActive
    /\ SetsOf(t.out) = SetsOf(s.out)
    /\ t.batchQueue = {} => ListDone(t)
    /\ ListDone(s) => ListDone(t)

LEMMA BatchFacts ==
    ASSUME NEW s, PmInv(s)
    PROVE  BatchFilled(s, FillIndexBatchQueue([s EXCEPT !.waitingTimer = FALSE,
                                                        !.batchActive = TRUE,
                                                        !.batchQueue = {}]))
  <1> DEFINE b == [s EXCEPT !.waitingTimer = FALSE, !.batchActive = TRUE, !.batchQueue = {}]
             t == FillIndexBatchQueue(b)
  <1>1. s \in PmType
    BY DEF PmInv
  <1>2. b \in PmType /\ b.batchQueue = {} /\ b.batchActive
    BY <1>1, ZenonT(60) DEF PmType
  <1>3. /\ b.waitingIndex = s.waitingIndex /\ b.failedIndex = s.failedIndex /\ b.out = s.out
        /\ b = [s EXCEPT !.waitingTimer = FALSE, !.batchActive = TRUE,
                         !.waitingIndex = s.waitingIndex, !.failedIndex = s.failedIndex,
                         !.batchQueue = {}, !.out = s.out]
    BY <1>1 DEF PmType
  <1>4. Cardinality(b.batchQueue) <= MaxBatchSize + 1
    BY <1>2, FS_EmptySet, LimitsAreNumbers
  <1> HIDE DEF b
  <1>5. Filled(b, t)
    BY <1>2, <1>4, FillFacts
  <1> HIDE DEF t
  <1>6. t = [s EXCEPT !.waitingTimer = FALSE, !.batchActive = TRUE,
                      !.waitingIndex = t.waitingIndex, !.failedIndex = t.failedIndex,
                      !.batchQueue = t.batchQueue, !.out = t.out]
    <2>1. t = [b EXCEPT !.waitingIndex = t.waitingIndex, !.failedIndex = t.failedIndex,
                        !.batchQueue = t.batchQueue, !.out = t.out]
      BY <1>5 DEF Filled
    <2> QED  BY <1>1, <1>3, <2>1 DEF PmType
  <1>7. /\ t \in PmType /\ SetsOf(t.out) = SetsOf(s.out)
        /\ Cardinality(t.batchQueue) <= MaxBatchSize + 1
        /\ DOMAIN t.waitingIndex \subseteq DOMAIN s.waitingIndex
        /\ DOMAIN s.waitingIndex \subseteq DOMAIN t.waitingIndex \cup t.failedIndex
        /\ s.failedIndex \subseteq t.failedIndex
        /\ t.batchQueue = {} => DOMAIN t.waitingIndex = {}
    BY <1>2, <1>3, <1>5 DEF Filled
  <1>8. /\ t.facts = s.facts /\ t.seen = s.seen
        /\ t.waitingName = s.waitingName /\ t.waitingWrite = s.waitingWrite
        /\ t.batchActive
    BY <1>1, <1>6, ZenonT(60) DEF PmType
  <1>9. /\ t.complete = s.complete /\ t.cache = s.cache
        /\ t.tryFtp = s.tryFtp /\ t.downloading = s.downloading
        /\ t.listening = s.listening /\ t.refused = s.refused /\ t.file = s.file
    BY <1>1, <1>6, ZenonT(60) DEF PmType
  <1>10. Waits(t)
    BY <1>7, <1>8 DEF PmInv, Waits
  <1>11. Accounted(t)
    BY <1>7, <1>8 DEF PmInv, Accounted
  <1>12. Files(t)
    BY <1>9 DEF PmInv, Files
  <1>13. (t.batchQueue = {} => ListDone(t)) /\ (ListDone(s) => ListDone(t))
    BY <1>7 DEF ListDone
  <1>14. BatchFilled(s, t)
    BY <1>6, <1>7, <1>8, <1>10, <1>11, <1>12, <1>13 DEF BatchFilled
  <1> QED  BY <1>14 DEF t, b

(* What _waitingParamTimeout makes of s.                                      *)
TimedOut(s, t) == PmInv(t) /\ Pending(t) /\ Sends(s, s.file, t)

LEMMA WaitingParamTimeoutFacts ==
    ASSUME NEW s, PmInv(s), s.waitingTimer
    PROVE  TimedOut(s, WaitingParamTimeout(s))
  <1> DEFINE filled == FillIndexBatchQueue([s EXCEPT !.waitingTimer = FALSE,
                                                     !.batchActive = TRUE, !.batchQueue = {}])
             last == [filled EXCEPT !.lastChance = FALSE]
             checked == CheckInitialLoadComplete(last)
             once == [filled EXCEPT !.waitingTimer = TRUE, !.lastChance = TRUE]
             again == [checked EXCEPT !.waitingTimer = TRUE]
             t == WaitingParamTimeout(s)
  <1>1. t = IF filled.batchQueue = {} /\ ~filled.lastChance /\ ~DefaultKnown(filled) THEN once
            ELSE IF filled.batchQueue # {} THEN again
            ELSE IF DOMAIN checked.waitingWrite # {} THEN RetryWrites(checked)
            ELSE IF DOMAIN checked.waitingName # {} THEN RetryReads(checked)
            ELSE checked
    BY DEF WaitingParamTimeout
  <1>2. BatchFilled(s, filled)
    BY BatchFacts
  <1> HIDE DEF t, filled
  <1>3. s \in PmType /\ filled \in PmType
    BY <1>2 DEF PmInv, BatchFilled
  <1>4. /\ filled.facts = s.facts /\ filled.seen = s.seen
        /\ filled.waitingName = s.waitingName /\ filled.waitingWrite = s.waitingWrite
        /\ filled.initialTimer = s.initialTimer /\ filled.writeFailed = s.writeFailed
    BY <1>2, <1>3, MemberFacts, ZenonT(60) DEF BatchFilled, Members
  <1>5. /\ filled.complete = s.complete /\ filled.missing = s.missing /\ filled.cache = s.cache
        /\ filled.tryFtp = s.tryFtp /\ filled.noResponse = s.noResponse
        /\ filled.listening = s.listening
        /\ filled.refused = s.refused /\ filled.file = s.file
        /\ filled.downloading = s.downloading /\ SetsOf(filled.out) = SetsOf(s.out)
    BY <1>2, <1>3, MemberFacts, ZenonT(60) DEF BatchFilled, Members
  <1>6. DefaultKnown(filled) = DefaultKnown(s)
    BY <1>4 DEF DefaultKnown
  <1>7. ~s.complete /\ ~s.noResponse =>
            s.seen # {} /\ (setup.firmware = "px4" => ~s.initialTimer)
    BY DEF PmInv, Loading
  <1>8. CASE filled.batchQueue = {} /\ ~filled.lastChance /\ ~DefaultKnown(filled)
    <2>1. once \in PmType
      BY <1>3, ZenonT(60) DEF PmType
    <2>2. /\ once.facts = filled.facts /\ once.seen = filled.seen
          /\ once.waitingIndex = filled.waitingIndex /\ once.waitingName = filled.waitingName
          /\ once.waitingWrite = filled.waitingWrite /\ once.failedIndex = filled.failedIndex
          /\ once.batchQueue = filled.batchQueue /\ once.initialTimer = filled.initialTimer
          /\ once.waitingTimer /\ once.writeFailed = filled.writeFailed
          /\ once.out = filled.out
      BY <1>3 DEF PmType
    <2>3. /\ once.complete = filled.complete /\ once.missing = filled.missing
          /\ once.cache = filled.cache /\ once.tryFtp = filled.tryFtp
          /\ once.downloading = filled.downloading /\ once.listening = filled.listening
          /\ once.refused = filled.refused
          /\ once.file = filled.file /\ once.noResponse = filled.noResponse
      BY <1>3 DEF PmType
    <2>4. t = once
      BY <1>1, <1>8
    <2> HIDE DEF once
    <2>5. Waits(once) /\ Accounted(once) /\ Files(once)
      BY <1>2, <2>2, <2>3 DEF BatchFilled, Waits, Accounted, Files
    <2>6. ~DefaultKnown(once)
      BY <1>8, <2>2 DEF DefaultKnown
    <2>7. Loading(once) /\ Pending(once)
      BY <1>4, <1>5, <1>7, <2>2, <2>3, <2>6 DEF Loading, Pending
    <2>8. PmInv(once)
      BY <2>1, <2>5, <2>7 DEF PmInv
    <2>9. Sends(s, s.file, once)
      BY <1>4, <1>5, <2>2, <2>3 DEF Sends, Ready
    <2>10. TimedOut(s, once)
      BY <2>7, <2>8, <2>9 DEF TimedOut
    <2> QED  BY <2>4, <2>10 DEF t
  <1>9. last \in PmType
    BY <1>3, ZenonT(60) DEF PmType
  <1>10. /\ last.facts = filled.facts /\ last.seen = filled.seen
         /\ last.waitingIndex = filled.waitingIndex /\ last.waitingName = filled.waitingName
         /\ last.waitingWrite = filled.waitingWrite /\ last.failedIndex = filled.failedIndex
         /\ last.batchQueue = filled.batchQueue /\ last.initialTimer = filled.initialTimer
         /\ last.writeFailed = filled.writeFailed /\ last.out = filled.out
         /\ last.batchActive = filled.batchActive /\ ~last.lastChance
    BY <1>3 DEF PmType
  <1>11. /\ last.complete = filled.complete /\ last.missing = filled.missing
         /\ last.cache = filled.cache /\ last.tryFtp = filled.tryFtp
         /\ last.downloading = filled.downloading /\ last.listening = filled.listening
         /\ last.refused = filled.refused
         /\ last.file = filled.file /\ last.noResponse = filled.noResponse
    BY <1>3 DEF PmType
  <1> HIDE DEF last
  <1>12. /\ checked \in PmType
         /\ checked = [last EXCEPT !.complete = checked.complete, !.missing = checked.missing]
         /\ last.complete => checked.complete /\ checked.missing = last.missing
         /\ ~last.complete /\ checked.complete =>
               ListDone(checked) /\ DefaultKnown(checked)
                 /\ checked.missing = (checked.failedIndex # {})
         /\ ~checked.complete => ~(ListDone(checked) /\ DefaultKnown(checked))
    BY <1>9, CheckFacts
  <1> HIDE DEF checked
  <1>13. /\ checked.facts = last.facts /\ checked.seen = last.seen
         /\ checked.waitingIndex = last.waitingIndex /\ checked.waitingName = last.waitingName
         /\ checked.waitingWrite = last.waitingWrite /\ checked.failedIndex = last.failedIndex
         /\ checked.batchQueue = last.batchQueue /\ checked.initialTimer = last.initialTimer
         /\ checked.writeFailed = last.writeFailed /\ checked.out = last.out
         /\ checked.batchActive = last.batchActive /\ checked.lastChance = last.lastChance
    BY <1>9, <1>12, MemberFacts, ZenonT(60) DEF Members
  <1>14. /\ checked.cache = last.cache /\ checked.tryFtp = last.tryFtp
         /\ checked.downloading = last.downloading /\ checked.listening = last.listening
         /\ checked.refused = last.refused
         /\ checked.file = last.file /\ checked.noResponse = last.noResponse
    BY <1>9, <1>12, ZenonT(60) DEF PmType
  <1>15. s.complete => checked.complete /\ checked.missing = s.missing
    BY <1>5, <1>11, <1>12
  <1>16. Waits(checked) /\ Accounted(checked)
    BY <1>2, <1>10, <1>13 DEF BatchFilled, Waits, Accounted
  <1>17. Files(checked)
    BY <1>2, <1>5, <1>11, <1>14, <1>15 DEF BatchFilled, Files
  <1>18. Ready(s, checked)
    <2>1. SUFFICES ASSUME ~s.complete, checked.complete, ~checked.missing
                   PROVE  AllKnown(checked)
      BY DEF Ready
    <2>2. DOMAIN checked.waitingIndex = {} /\ checked.failedIndex = {}
      BY <1>5, <1>11, <1>12, <2>1 DEF ListDone
    <2> QED  BY <1>16, <2>2 DEF Accounted, AllKnown
  <1>19. Quietly(s, s.file, checked)
    BY <1>4, <1>5, <1>10, <1>11, <1>13, <1>14, <1>15, <1>18 DEF Quietly
  <1>20. ~checked.complete /\ ~checked.noResponse =>
            /\ checked.seen # {} /\ (setup.firmware = "px4" => ~checked.initialTimer)
            /\ DefaultKnown(checked) => ~ListDone(checked)
    BY <1>4, <1>5, <1>7, <1>10, <1>11, <1>12, <1>13, <1>14, <1>15
  <1>21. GoingOn(checked)
    BY <1>20 DEF GoingOn
  <1>22. checked.complete \in BOOLEAN
    BY <1>12 DEF PmType
  <1>23. checked.file = s.file
    BY <1>5, <1>11, <1>14
  <1>24. CASE ~(filled.batchQueue = {} /\ ~filled.lastChance /\ ~DefaultKnown(filled))
              /\ filled.batchQueue # {}
    <2>1. again \in PmType
      BY <1>12 DEF PmType
    <2>2. /\ again.facts = checked.facts /\ again.seen = checked.seen
          /\ again.waitingIndex = checked.waitingIndex /\ again.waitingName = checked.waitingName
          /\ again.waitingWrite = checked.waitingWrite
          /\ again.failedIndex = checked.failedIndex
          /\ again.batchQueue = checked.batchQueue
          /\ again.initialTimer = checked.initialTimer
          /\ again.waitingTimer /\ again.writeFailed = checked.writeFailed
          /\ again.out = checked.out
      BY <1>12 DEF PmType
    <2>3. /\ again.complete = checked.complete /\ again.missing = checked.missing
          /\ again.cache = checked.cache /\ again.tryFtp = checked.tryFtp
          /\ again.downloading = checked.downloading /\ again.listening = checked.listening
          /\ again.refused = checked.refused
          /\ again.file = checked.file /\ again.noResponse = checked.noResponse
      BY <1>12 DEF PmType
    <2>4. t = again
      BY <1>1, <1>24
    <2> HIDE DEF again
    <2>5. Waits(again) /\ Accounted(again) /\ Files(again)
      BY <1>16, <1>17, <2>2, <2>3 DEF Waits, Accounted, Files
    <2>6. DefaultKnown(again) = DefaultKnown(checked) /\ ListDone(again) = ListDone(checked)
      BY <2>2 DEF DefaultKnown, ListDone
    <2>7. Loading(again) /\ Pending(again)
      BY <1>20, <2>2, <2>3, <2>6 DEF Loading, Pending
    <2>8. PmInv(again)
      BY <2>1, <2>5, <2>7 DEF PmInv
    <2>9. Sends(checked, s.file, again)
      BY <1>23, <2>2, <2>3 DEF Sends, Ready
    <2>10. Sends(s, s.file, again)
      BY <1>19, <1>22, <2>9, QuietlyThenSends
    <2>11. TimedOut(s, again)
      BY <2>7, <2>8, <2>10 DEF TimedOut
    <2> QED  BY <2>4, <2>11 DEF t
  <1>25. CASE ~(filled.batchQueue = {} /\ ~filled.lastChance /\ ~DefaultKnown(filled))
              /\ filled.batchQueue = {}
    <2>1. ListDone(checked)
      BY <1>2, <1>10, <1>13, <1>25 DEF BatchFilled, ListDone
    <2>2. CASE DOMAIN checked.waitingWrite # {}
      <3> DEFINE u == RetryWrites(checked)
      <3>1. PmInv(u) /\ u.waitingTimer /\ Sends(checked, checked.file, u)
        BY <1>12, <1>16, <1>17, <1>21, RetryWritesFacts
      <3>2. t = u
        BY <1>1, <1>25, <2>2
      <3> HIDE DEF u
      <3>3. Sends(s, s.file, u)
        BY <1>19, <1>22, <1>23, <3>1, QuietlyThenSends
      <3>4. TimedOut(s, u)
        BY <3>1, <3>3 DEF TimedOut, Pending
      <3> QED  BY <3>2, <3>4 DEF t
    <2>3. CASE DOMAIN checked.waitingWrite = {} /\ DOMAIN checked.waitingName # {}
      <3> DEFINE u == RetryReads(checked)
      <3>1. PmInv(u) /\ u.waitingTimer /\ Sends(checked, checked.file, u)
        BY <1>12, <1>16, <1>17, <1>21, RetryReadsFacts
      <3>2. t = u
        BY <1>1, <1>25, <2>3
      <3> HIDE DEF u
      <3>3. Sends(s, s.file, u)
        BY <1>19, <1>22, <1>23, <3>1, QuietlyThenSends
      <3>4. TimedOut(s, u)
        BY <3>1, <3>3 DEF TimedOut, Pending
      <3> QED  BY <3>2, <3>4 DEF t
    <2>4. CASE DOMAIN checked.waitingWrite = {} /\ DOMAIN checked.waitingName = {}
      <3>1. t = checked
        BY <1>1, <1>25, <2>4
      <3>2. Loading(checked) /\ Pending(checked)
        <4>1. checked.batchActive /\ ~checked.lastChance
          BY <1>2, <1>10, <1>13 DEF BatchFilled
        <4> QED  BY <1>20, <2>1, <4>1 DEF Loading, Pending
      <3>3. PmInv(checked)
        BY <1>12, <1>16, <1>17, <3>2 DEF PmInv
      <3>4. Sends(s, s.file, checked)
        BY <1>19, QuietlySends
      <3>5. TimedOut(s, checked)
        BY <3>2, <3>3, <3>4 DEF TimedOut
      <3> QED  BY <3>1, <3>5 DEF t
    <2> QED  BY <2>2, <2>3, <2>4
  <1> QED  BY <1>8, <1>24, <1>25

-----------------------------------------------------------------------------
(* _ftpDownloadComplete                                                       *)

(* What a handler leaves of s that may take the values offered, a set of      *)
(* pairs of a parameter and a value: a write waited for or reported as failed *)
(* stays so unless such a value is taken there.                               *)
Takes(s, offered, contents, t) ==
    /\ t.file \in {s.file, contents, NoCache}
    /\ \A p \in Params : t.facts[p] = s.facts[p] \/ <<p, t.facts[p]>> \in offered
    /\ DOMAIN t.waitingWrite \subseteq DOMAIN s.waitingWrite
    /\ \A p \in DOMAIN s.waitingWrite \cup s.writeFailed :
          p \in DOMAIN t.waitingWrite \cup t.writeFailed \/ <<p, t.facts[p]>> \in offered
    /\ \A m \in SetsOf(t.out) : \/ m \in SetsOf(s.out)
                                \/ /\ m.param \in DOMAIN t.waitingWrite
                                   /\ m.value = t.facts[m.param]
    /\ s.complete => t.complete
    /\ Ready(s, t)

LEMMA SendsTakes ==
    ASSUME NEW s, NEW offered, NEW contents, NEW t, Sends(s, contents, t)
    PROVE  Takes(s, offered, contents, t)
  BY DEF Sends, Takes

(* What the file offers.                                                      *)
InTheFile(s) ==
    IF s.file \in Contents THEN {<<p, s.file[p[2]]>> : p \in ParamsOf(DefaultComponent)} ELSE {}

(* The end of a download, heard or not.                                       *)
LEMMA EndedFacts ==
    ASSUME NEW s, PmInv(s)
    PROVE  LET t == [s EXCEPT !.downloading = FALSE, !.listening = FALSE]
           IN /\ PmInv(t) /\ ~t.downloading /\ ~t.listening
              /\ t.tryFtp = s.tryFtp /\ t.file = s.file /\ t.complete = s.complete
              /\ t.missing = s.missing /\ t.progress = s.progress
              /\ t.initialRetry = s.initialRetry /\ Quietly(s, NoCache, t)
              /\ ~s.listening /\ Pending(s) => Pending(t)
  <1> DEFINE t == [s EXCEPT !.downloading = FALSE, !.listening = FALSE]
  <1>1. s \in PmType
    BY DEF PmInv
  <1>2. t \in PmType
    BY <1>1, ZenonT(60) DEF PmType
  <1>3. /\ t.facts = s.facts /\ t.seen = s.seen /\ t.waitingIndex = s.waitingIndex
        /\ t.waitingName = s.waitingName /\ t.waitingWrite = s.waitingWrite
        /\ t.failedIndex = s.failedIndex /\ t.batchQueue = s.batchQueue
        /\ t.initialTimer = s.initialTimer /\ t.waitingTimer = s.waitingTimer
        /\ t.writeFailed = s.writeFailed /\ t.out = s.out
    BY <1>1 DEF PmType
  <1>4. /\ t.complete = s.complete /\ t.missing = s.missing /\ t.cache = s.cache
        /\ t.tryFtp = s.tryFtp /\ ~t.downloading /\ ~t.listening /\ t.file = s.file
        /\ t.noResponse = s.noResponse /\ t.initialRetry = s.initialRetry
        /\ t.progress = s.progress /\ t.refused = s.refused /\ t.hashed = s.hashed
        /\ t.batchActive = s.batchActive /\ t.lastChance = s.lastChance
    BY <1>1 DEF PmType
  <1> HIDE DEF t
  <1>5. Waits(t) /\ Accounted(t) /\ Files(t)
    BY <1>3, <1>4 DEF PmInv, Waits, Accounted, Files
  <1>6. DefaultKnown(t) = DefaultKnown(s) /\ ListDone(t) = ListDone(s)
    BY <1>3 DEF DefaultKnown, ListDone
  <1>7. Loading(t)
    BY <1>3, <1>4, <1>6 DEF PmInv, Loading
  <1>8. Quietly(s, NoCache, t)
    BY <1>3, <1>4 DEF Quietly, Ready
  <1>9. PmInv(t)
    BY <1>2, <1>5, <1>7 DEF PmInv
  <1>10. ~s.listening /\ Pending(s) => Pending(t)
    BY <1>3, <1>4, <1>6 DEF Pending
  <1> QED  BY <1>4, <1>8, <1>9, <1>10 DEF t

(* What the handlers of files make of s.                                      *)
Fetched(s, t) ==
    PmInv(t) /\ Pending(t) /\ Takes(s, InTheFile(s), NoCache, t)

LEMMA ParseParamFileFacts ==
    ASSUME NEW s, PmInv(s), s.tryFtp, ~s.downloading, ~s.listening, s.file \in Contents
    PROVE  Fetched(s, ParseParamFile(s))
  <1> DEFINE own == ParamsOf(DefaultComponent)
             known == [p \in Params |-> IF p \in own THEN s.file[p[2]] ELSE s.facts[p]]
             seen == s.seen \cup {DefaultComponent}
             index == Without(s.waitingIndex, own)
             names == Without(s.waitingName, own)
             writes == Without(s.waitingWrite, own)
             parsed == [s EXCEPT !.facts = known, !.seen = seen, !.waitingIndex = index,
                                 !.waitingName = names, !.waitingWrite = writes,
                                 !.progress = "None"]
             t == CheckInitialLoadComplete(parsed)
  <1>1. s \in PmType
    BY DEF PmInv
  <1>2. ParseParamFile(s) = t
    BY DEF ParseParamFile
  <1>3. /\ index \in Waiting(MaxInitialLoadRetrySingleParam)
        /\ DOMAIN index = DOMAIN s.waitingIndex \ own
        /\ names \in Waiting(MaxReadWriteRetry) /\ DOMAIN names = DOMAIN s.waitingName \ own
        /\ writes \in Waiting(MaxReadWriteRetry) /\ DOMAIN writes = DOMAIN s.waitingWrite \ own
    <2>1. /\ s.waitingIndex \in Waiting(MaxInitialLoadRetrySingleParam)
          /\ s.waitingName \in Waiting(MaxReadWriteRetry)
          /\ s.waitingWrite \in Waiting(MaxReadWriteRetry)
      BY <1>1 DEF PmType
    <2>2. index \in Waiting(MaxInitialLoadRetrySingleParam)
          /\ DOMAIN index = DOMAIN s.waitingIndex \ own
      BY <2>1, WithoutFacts
    <2>3. names \in Waiting(MaxReadWriteRetry) /\ DOMAIN names = DOMAIN s.waitingName \ own
      BY <2>1, WithoutFacts
    <2>4. writes \in Waiting(MaxReadWriteRetry) /\ DOMAIN writes = DOMAIN s.waitingWrite \ own
      BY <2>1, WithoutFacts
    <2> QED  BY <2>2, <2>3, <2>4
  <1>4. /\ own \in SUBSET Params /\ own # {} /\ DefaultComponent \in Components
        /\ \A p \in own : p[1] = DefaultComponent /\ p[2] \in Index
        /\ \A p \in Params : p[1] = DefaultComponent => p \in own
    BY DefaultFacts
  <1>5. \A p \in own : s.file[p[2]] \in Values /\ s.file[p[2]] # NoValue
    <2>1. \A i \in Index : s.file[i] \in Values
      BY DEF Contents
    <2> QED  BY <1>4, <2>1, ParameterAssumption
  <1> HIDE DEF own
  <1>6. known \in [Params -> Values \cup {NoValue}]
        /\ (\A p \in own : known[p] = s.file[p[2]])
        /\ \A p \in Params \ own : known[p] = s.facts[p]
    BY <1>1, <1>4, <1>5 DEF PmType
  <1>7. seen \in SUBSET Components
    BY <1>1, <1>4 DEF PmType
  <1> HIDE DEF known, index, names, writes, seen
  <1>8. parsed \in PmType
    BY <1>1, <1>3, <1>6, <1>7, ZenonT(60) DEF PmType
  <1>9. /\ parsed.facts = known /\ parsed.seen = seen /\ parsed.waitingIndex = index
        /\ parsed.waitingName = names /\ parsed.waitingWrite = writes
        /\ parsed.failedIndex = s.failedIndex /\ parsed.batchQueue = s.batchQueue
        /\ parsed.initialTimer = s.initialTimer /\ parsed.waitingTimer = s.waitingTimer
        /\ parsed.writeFailed = s.writeFailed /\ parsed.out = s.out
    BY <1>1 DEF PmType
  <1>10. /\ parsed.complete = s.complete /\ parsed.missing = s.missing
         /\ parsed.cache = s.cache /\ parsed.tryFtp = s.tryFtp
         /\ parsed.downloading = s.downloading /\ parsed.listening = s.listening
         /\ parsed.refused = s.refused
         /\ parsed.file = s.file /\ parsed.noResponse = s.noResponse
    BY <1>1 DEF PmType
  <1> HIDE DEF parsed
  <1>11. /\ t \in PmType
         /\ t = [parsed EXCEPT !.complete = t.complete, !.missing = t.missing]
         /\ parsed.complete => t.complete /\ t.missing = parsed.missing
         /\ ~parsed.complete /\ t.complete =>
               ListDone(t) /\ DefaultKnown(t) /\ t.missing = (t.failedIndex # {})
         /\ ~t.complete => ~(ListDone(t) /\ DefaultKnown(t))
    BY <1>8, CheckFacts
  <1> HIDE DEF t
  <1>12. /\ t.facts = known /\ t.seen = seen /\ t.waitingIndex = index
         /\ t.waitingName = names /\ t.waitingWrite = writes
         /\ t.failedIndex = s.failedIndex /\ t.batchQueue = s.batchQueue
         /\ t.initialTimer = s.initialTimer /\ t.waitingTimer = s.waitingTimer
         /\ t.writeFailed = s.writeFailed /\ t.out = s.out
    <2>1. /\ t.facts = parsed.facts /\ t.seen = parsed.seen
          /\ t.waitingIndex = parsed.waitingIndex
          /\ t.waitingName = parsed.waitingName /\ t.waitingWrite = parsed.waitingWrite
          /\ t.failedIndex = parsed.failedIndex /\ t.batchQueue = parsed.batchQueue
          /\ t.initialTimer = parsed.initialTimer /\ t.waitingTimer = parsed.waitingTimer
          /\ t.writeFailed = parsed.writeFailed /\ t.out = parsed.out
      BY <1>8, <1>11, MemberFacts, ZenonT(60) DEF Members
    <2> QED  BY <1>9, <2>1
  <1>13. /\ t.cache = s.cache /\ t.tryFtp = s.tryFtp /\ ~t.downloading
         /\ ~t.listening /\ t.file = s.file /\ t.noResponse = s.noResponse
    <2>1. /\ t.cache = parsed.cache /\ t.tryFtp = parsed.tryFtp
          /\ t.downloading = parsed.downloading /\ t.listening = parsed.listening
          /\ t.refused = parsed.refused
          /\ t.file = parsed.file /\ t.noResponse = parsed.noResponse
      BY <1>8, <1>11, ZenonT(60) DEF PmType
    <2> QED  BY <1>10, <2>1
  <1>14. \A p \in Params : s.facts[p] # NoValue => t.facts[p] # NoValue
    BY <1>5, <1>6, <1>12
  <1>15. DefaultKnown(t)
    BY <1>4, <1>5, <1>6, <1>12 DEF DefaultKnown, own
  <1>16. Waits(t)
    <2>1. ASSUME NEW p \in DOMAIN t.waitingIndex \cup DOMAIN t.waitingName \cup DOMAIN t.waitingWrite
          PROVE  p[1] \in t.seen
      BY <1>3, <1>12 DEF PmInv, Waits, seen
    <2>2. ASSUME NEW p \in DOMAIN t.waitingWrite PROVE t.facts[p] # NoValue
      <3>1. p \in DOMAIN s.waitingWrite
        BY <1>3, <1>12
      <3>2. p \in Params
        BY <1>1, <3>1, WaitingFacts DEF PmType
      <3> QED  BY <1>14, <3>1, <3>2 DEF PmInv, Waits
    <2>3. Cardinality(t.batchQueue) <= MaxBatchSize + 1
      BY <1>12 DEF PmInv, Waits
    <2> QED  BY <2>1, <2>2, <2>3 DEF Waits
  <1>17. Accounted(t)
    <2>1. ASSUME NEW p \in Params, p[1] \in t.seen, t.facts[p] = NoValue
          PROVE  p \in DOMAIN t.waitingIndex \cup t.failedIndex
      <3>1. p \notin own
        BY <1>5, <1>6, <1>12, <2>1
      <3>2. p[1] \in s.seen /\ s.facts[p] = NoValue
        BY <1>4, <1>12, <1>14, <2>1, <3>1 DEF seen
      <3>3. p \in DOMAIN s.waitingIndex \cup s.failedIndex
        BY <3>2 DEF PmInv, Accounted
      <3> QED  BY <1>3, <1>12, <3>1, <3>3
    <2> QED  BY <2>1 DEF Accounted
  <1>18. Files(t)
    BY <1>10, <1>11, <1>13 DEF PmInv, Files
  <1>19. DefaultComponent \in t.seen
    BY <1>12 DEF seen
  <1>20. setup.firmware # "px4"
    BY DEF PmInv, Files
  <1>21. Loading(t) /\ Pending(t)
    BY <1>11, <1>13, <1>15, <1>19, <1>20 DEF Loading, Pending
  <1>22. Ready(s, t)
    <2>1. SUFFICES ASSUME ~s.complete, t.complete, ~t.missing PROVE AllKnown(t)
      BY DEF Ready
    <2>2. DOMAIN t.waitingIndex = {} /\ t.failedIndex = {}
      BY <1>10, <1>11, <2>1 DEF ListDone
    <2> QED  BY <1>17, <2>2 DEF Accounted, AllKnown
  <1>23. \A p \in own : <<p, t.facts[p]>> \in InTheFile(s)
    BY <1>6, <1>12 DEF InTheFile, own
  <1>24. Takes(s, InTheFile(s), NoCache, t)
    <2>1. \A p \in Params : t.facts[p] = s.facts[p] \/ <<p, t.facts[p]>> \in InTheFile(s)
      BY <1>6, <1>12, <1>23
    <2>2. \A p \in DOMAIN s.waitingWrite \cup s.writeFailed :
             p \in DOMAIN t.waitingWrite \cup t.writeFailed \/ <<p, t.facts[p]>> \in InTheFile(s)
      BY <1>3, <1>12, <1>23
    <2>3. DOMAIN t.waitingWrite \subseteq DOMAIN s.waitingWrite
      BY <1>3, <1>12
    <2>4. SetsOf(t.out) = SetsOf(s.out) /\ t.file = s.file /\ (s.complete => t.complete)
      BY <1>10, <1>11, <1>12, <1>13
    <2> QED  BY <1>22, <2>1, <2>2, <2>3, <2>4 DEF Takes
  <1>25. Fetched(s, t)
    BY <1>11, <1>16, <1>17, <1>18, <1>21, <1>24 DEF Fetched, PmInv
  <1> QED  BY <1>2, <1>25

LEMMA BrokenFileFacts ==
    ASSUME NEW s, PmInv(s), s.tryFtp, ~s.downloading, ~s.listening, s.file \in Contents, NEW n
    PROVE  Fetched(s, ConventionalDownload(ParseBrokenFile(s, n), FALSE))
  <1> DEFINE known == [p \in Params |-> IF p[1] = DefaultComponent /\ p[2] < n
                                        THEN s.file[p[2]] ELSE s.facts[p]]
             t == [s EXCEPT !.facts = known, !.tryFtp = FALSE, !.initialRetry = 0,
                            !.initialTimer = TRUE]
  <1>1. s \in PmType
    BY DEF PmInv
  <1>2. ConventionalDownload(ParseBrokenFile(s, n), FALSE) = t
    BY <1>1 DEF ConventionalDownload, ParseBrokenFile, PmType
  <1>3. \A p \in Params : p[1] = DefaultComponent =>
            s.file[p[2]] \in Values /\ s.file[p[2]] # NoValue
                /\ <<p, s.file[p[2]]>> \in InTheFile(s)
    <2>1. \A i \in Index : s.file[i] \in Values
      BY DEF Contents
    <2>2. \A p \in Params : p[1] = DefaultComponent =>
              p \in ParamsOf(DefaultComponent) /\ p[2] \in Index
      BY DefaultFacts
    <2> QED  BY <2>1, <2>2, ParameterAssumption DEF InTheFile
  <1>4. /\ known \in [Params -> Values \cup {NoValue}]
        /\ \A p \in Params : \/ known[p] = s.facts[p]
                             \/ p[1] = DefaultComponent /\ known[p] = s.file[p[2]]
    BY <1>1, <1>3 DEF PmType
  <1> HIDE DEF known
  <1>5. t \in PmType
    <2> DEFINE k == [s EXCEPT !.facts = known]
    <2>1. k \in PmType
      BY <1>1, <1>4, KnownFacts
    <2>2. 0 \in 0..MaxInitialRequestListRetry + 1
      BY LimitsAreNumbers
    <2> HIDE DEF k
    <2>3. [k EXCEPT !.tryFtp = FALSE, !.initialRetry = 0, !.initialTimer = TRUE] \in PmType
      BY <2>1, <2>2, ZenonT(60) DEF PmType
    <2> QED  BY <2>3 DEF k
  <1>6. /\ t.facts = known /\ t.seen = s.seen /\ t.waitingIndex = s.waitingIndex
        /\ t.waitingName = s.waitingName /\ t.waitingWrite = s.waitingWrite
        /\ t.failedIndex = s.failedIndex /\ t.batchQueue = s.batchQueue
        /\ t.initialTimer /\ t.waitingTimer = s.waitingTimer
        /\ t.writeFailed = s.writeFailed /\ t.out = s.out
    BY <1>1 DEF PmType
  <1>7. /\ t.complete = s.complete /\ t.missing = s.missing /\ t.cache = s.cache
        /\ ~t.tryFtp /\ t.downloading = s.downloading
        /\ t.listening = s.listening
        /\ t.refused = s.refused /\ t.file = s.file /\ t.noResponse = s.noResponse
    BY <1>1 DEF PmType
  <1> HIDE DEF t
  <1>8. \A p \in Params : s.facts[p] # NoValue => t.facts[p] # NoValue
    BY <1>3, <1>4, <1>6
  <1>9. Waits(t)
    <2>1. ASSUME NEW p \in DOMAIN t.waitingWrite PROVE t.facts[p] # NoValue
      <3>1. p \in DOMAIN s.waitingWrite
        BY <1>6
      <3>2. p \in Params
        BY <1>1, <3>1, WaitingFacts DEF PmType
      <3> QED  BY <1>8, <3>1, <3>2 DEF PmInv, Waits
    <2> QED  BY <1>6, <2>1 DEF PmInv, Waits
  <1>10. Accounted(t)
    BY <1>6, <1>8 DEF PmInv, Accounted
  <1>11. setup.firmware # "px4"
    BY DEF PmInv, Files
  <1>12. Files(t)
    BY <1>7, <1>11 DEF PmInv, Files
  <1>13. Loading(t) /\ Pending(t)
    BY <1>6, <1>7, <1>11 DEF PmInv, Loading, Pending
  <1>14. \A p \in Params : t.facts[p] = s.facts[p] \/ <<p, t.facts[p]>> \in InTheFile(s)
    BY <1>3, <1>4, <1>6
  <1>15. Takes(s, InTheFile(s), NoCache, t)
    BY <1>6, <1>7, <1>14 DEF Takes, Ready
  <1>16. Fetched(s, t)
    BY <1>5, <1>9, <1>10, <1>12, <1>13, <1>15 DEF Fetched, PmInv
  <1> QED  BY <1>2, <1>16

LEMMA QuietlyThenTakes ==
    ASSUME NEW s, NEW offered, NEW contents, NEW t, NEW u,
           Quietly(s, contents, t), Takes(t, offered, contents, u), t.complete = s.complete
    PROVE  Takes(s, offered, contents, u)
  <1>1. /\ t.facts = s.facts
        /\ t.waitingWrite = s.waitingWrite /\ t.writeFailed = s.writeFailed
        /\ t.file \in {s.file, contents} /\ SetsOf(t.out) = SetsOf(s.out)
    BY DEF Quietly
  <1>2. Ready(s, u)
    BY DEF Takes, Ready
  <1>3. /\ u.file \in {s.file, contents, NoCache}
        /\ \A p \in Params : u.facts[p] = s.facts[p] \/ <<p, u.facts[p]>> \in offered
        /\ DOMAIN u.waitingWrite \subseteq DOMAIN s.waitingWrite
        /\ \A p \in DOMAIN s.waitingWrite \cup s.writeFailed :
              p \in DOMAIN u.waitingWrite \cup u.writeFailed \/ <<p, u.facts[p]>> \in offered
    BY <1>1 DEF Takes
  <1>4. \A m \in SetsOf(u.out) : \/ m \in SetsOf(s.out)
                                \/ /\ m.param \in DOMAIN u.waitingWrite
                                   /\ m.value = u.facts[m.param]
    BY <1>1 DEF Takes
  <1>5. s.complete => u.complete
    BY DEF Takes
  <1> HIDE DEF SetsOf
  <1> QED  BY <1>2, <1>3, <1>4, <1>5 DEF Takes

(* _ftpDownloadComplete                                                       *)
FtpEnded(s, t) ==
    PmInv(t) /\ (Pending(s) => Pending(t)) /\ Takes(s, InTheFile(s), NoCache, t)

LEMMA FtpDownloadCompleteFacts ==
    ASSUME NEW s, PmInv(s), s.downloading, NEW result
    PROVE  FtpEnded(s, FtpDownloadComplete(s, result))
  <1> DEFINE ended == [s EXCEPT !.downloading = FALSE, !.listening = FALSE]
             parsed == ParseParamFile(ended)
             broken == ConventionalDownload(ParseBrokenFile(ended, result[2]), FALSE)
             absent == ConventionalDownload(ended, s.initialRetry = 0)
             slow == ConventionalDownload(ended, FALSE)
             again == [ended EXCEPT !.initialTimer = TRUE]
             t == FtpDownloadComplete(s, result)
  <1>1. t = IF ~s.listening THEN ended
            ELSE IF result = Parsed THEN parsed
            ELSE IF result \in Broken THEN broken
            ELSE IF result = NotFound THEN absent
            ELSE IF s.progress = "Slow" \/ s.initialRetry = 1 THEN slow
            ELSE again
    BY DEF FtpDownloadComplete
  <1>2. /\ PmInv(ended) /\ ~ended.downloading /\ ~ended.listening
        /\ ended.tryFtp = s.tryFtp /\ ended.file = s.file /\ ended.complete = s.complete
        /\ ended.missing = s.missing /\ Quietly(s, NoCache, ended)
        /\ ~s.listening /\ Pending(s) => Pending(ended)
    BY EndedFacts
  <1> HIDE DEF ended, t
  <1>3. s.tryFtp /\ setup.firmware # "px4" /\ (s.listening => s.file \in Contents)
        /\ s.complete \in BOOLEAN
    BY DEF PmInv, Files, PmType
  <1>4. InTheFile(ended) = InTheFile(s)
    BY <1>2 DEF InTheFile
  <1>5. ASSUME NEW u, Fetched(ended, u) PROVE FtpEnded(s, u)
    <2>1. Takes(ended, InTheFile(s), NoCache, u) /\ PmInv(u) /\ Pending(u)
      BY <1>4, <1>5 DEF Fetched
    <2>2. Takes(s, InTheFile(s), NoCache, u)
      BY <1>2, <1>3, <2>1, QuietlyThenTakes
    <2> QED  BY <2>1, <2>2 DEF FtpEnded
  <1>6. ASSUME NEW u, PmInv(u), Pending(u), Quietly(ended, NoCache, u)
        PROVE  FtpEnded(s, u)
    <2>1. Quietly(s, NoCache, u)
      BY <1>2, <1>3, <1>6, QuietlyAgain
    <2>2. Takes(s, InTheFile(s), NoCache, u)
      BY <2>1, QuietlySends, SendsTakes
    <2> QED  BY <1>6, <2>2 DEF FtpEnded
  <1>7. ASSUME NEW u, Retried(ended, NoCache, u) PROVE FtpEnded(s, u)
    <2>1. Pending(u)
      BY <1>7 DEF Retried, Pending
    <2> QED  BY <1>6, <1>7, <2>1 DEF Retried
  <1>8. CASE ~s.listening
    <2>1. Quietly(ended, NoCache, ended)
      BY DEF Quietly, Ready
    <2>2. Takes(s, InTheFile(s), NoCache, ended)
      BY <1>2, QuietlySends, SendsTakes
    <2>3. FtpEnded(s, ended)
      BY <1>2, <1>8, <2>2 DEF FtpEnded
    <2> QED  BY <1>1, <1>8, <2>3 DEF t
  <1>9. CASE s.listening
    <2>1. FtpEnded(s, parsed)
      BY <1>2, <1>3, <1>5, <1>9, ParseParamFileFacts
    <2>2. FtpEnded(s, broken)
      BY <1>2, <1>3, <1>5, <1>9, BrokenFileFacts
    <2>3. FtpEnded(s, absent)
      <3>1. PICK b \in BOOLEAN : b = (s.initialRetry = 0)
        OBVIOUS
      <3>2. Retried(ended, NoCache, ConventionalDownload(ended, b))
        BY <1>2, <1>3, ConventionalDownloadFacts
      <3> QED  BY <1>7, <3>1, <3>2
    <2>4. FtpEnded(s, slow)
      <3>1. Retried(ended, NoCache, slow)
        BY <1>2, <1>3, ConventionalDownloadFacts
      <3> QED  BY <1>7, <3>1
    <2>5. FtpEnded(s, again)
      <3>1. MayAsk(ended)
        BY <1>3 DEF MayAsk
      <3>2. PmInv(again) /\ again.initialTimer = TRUE /\ Quietly(ended, NoCache, again)
        BY <1>2, <3>1, InitialTimerFacts
      <3> HIDE DEF again
      <3>3. Pending(again)
        BY <3>2 DEF Pending
      <3> QED  BY <1>6, <3>2, <3>3
    <2> HIDE DEF parsed, broken, absent, slow, again
    <2>6. t \in {parsed, broken, absent, slow, again}
      BY <1>1, <1>9
    <2> QED  BY <2>1, <2>2, <2>3, <2>4, <2>5, <2>6 DEF t
  <1> QED  BY <1>8, <1>9

(* _ftpDownloadProgress                                                       *)
LEMMA FtpDownloadProgressFacts ==
    ASSUME NEW s, PmInv(s), s.downloading, NEW progress \in {"Slow", "Good"},
           NEW above \in BOOLEAN
    PROVE  LET t == FtpDownloadProgress(s, progress, above)
           IN PmInv(t) /\ Pending(t) /\ Quietly(s, NoCache, t)
  <1> DEFINE timer == s.initialTimer /\ ~above
             u == [s EXCEPT !.initialTimer = timer]
             t == [u EXCEPT !.progress = progress]
  <1>1. s \in PmType /\ s.tryFtp /\ setup.firmware # "px4"
    BY DEF PmInv, Files
  <1>2. FtpDownloadProgress(s, progress, above) = t
    BY <1>1 DEF FtpDownloadProgress, PmType
  <1>3. timer \in BOOLEAN /\ MayAsk(s)
    BY <1>1 DEF MayAsk, PmType
  <1> HIDE DEF timer
  <1>4. PmInv(u) /\ Quietly(s, NoCache, u) /\ u.downloading
    <2>1. u.downloading
      BY <1>1 DEF PmType
    <2> QED  BY <1>1, <1>3, <2>1, InitialTimerFacts
  <1> HIDE DEF u
  <1>5. u \in PmType
    BY <1>4 DEF PmInv
  <1>6. t \in PmType
    BY <1>5, ZenonT(60) DEF PmType
  <1>7. /\ t.facts = u.facts /\ t.seen = u.seen /\ t.waitingIndex = u.waitingIndex
        /\ t.waitingName = u.waitingName /\ t.waitingWrite = u.waitingWrite
        /\ t.failedIndex = u.failedIndex /\ t.batchQueue = u.batchQueue
        /\ t.initialTimer = u.initialTimer /\ t.waitingTimer = u.waitingTimer
        /\ t.writeFailed = u.writeFailed /\ t.out = u.out
    BY <1>5 DEF PmType
  <1>8. /\ t.complete = u.complete /\ t.missing = u.missing /\ t.cache = u.cache
        /\ t.tryFtp = u.tryFtp /\ t.downloading = u.downloading
        /\ t.listening = u.listening
        /\ t.refused = u.refused /\ t.file = u.file /\ t.noResponse = u.noResponse
        /\ t.progress = progress
    BY <1>5 DEF PmType
  <1> HIDE DEF t
  <1>9. Waits(t) /\ Accounted(t) /\ Files(t)
    BY <1>4, <1>7, <1>8 DEF PmInv, Waits, Accounted, Files
  <1>10. DefaultKnown(t) = DefaultKnown(u) /\ ListDone(t) = ListDone(u)
    BY <1>7 DEF DefaultKnown, ListDone
  <1>11. Loading(t)
    BY <1>4, <1>7, <1>8, <1>10 DEF PmInv, Loading
  <1>12. Pending(t)
    BY <1>4, <1>8, <1>9 DEF Files, Pending
  <1>13. Quietly(u, NoCache, t)
    BY <1>7, <1>8 DEF Quietly, Ready
  <1>14. Quietly(s, NoCache, t)
    BY <1>4, <1>5, <1>13, QuietlyAgain DEF PmType
  <1>15. PmInv(t)
    BY <1>6, <1>9, <1>11 DEF PmInv
  <1> QED  BY <1>2, <1>12, <1>14, <1>15

-----------------------------------------------------------------------------
(* The other handlers, in the same terms                                      *)

LEMMA HandleParamValueFacts ==
    ASSUME NEW s, PmInv(s), NEW p \in Params, NEW v \in Values, NEW indexed \in BOOLEAN
    PROVE  LET t == HandleParamValue(s, p, v, indexed)
           IN PmInv(t) /\ Pending(t) /\ Takes(s, {<<p, v>>}, NoCache, t)
  <1> DEFINE t == HandleParamValue(s, p, v, indexed)
  <1>1. Handled(s, p, v, t)
    BY HandledFacts DEF PmInv
  <1> HIDE DEF t
  <1>2. /\ t \in PmType /\ Waits(t) /\ Accounted(t)
        /\ t.facts = [s.facts EXCEPT ![p] = v] /\ t.seen = s.seen \cup {p[1]}
        /\ t.waitingWrite = Without(s.waitingWrite, {p}) /\ t.writeFailed = s.writeFailed
        /\ t.file = s.file /\ SetsOf(t.out) = SetsOf(s.out)
    BY <1>1 DEF Handled
  <1>3. /\ t.listening = s.listening /\ t.refused = s.refused /\ t.downloading = s.downloading
        /\ t.tryFtp = s.tryFtp /\ t.noResponse = s.noResponse
        /\ ~t.initialTimer /\ (t.waitingTimer \/ t.complete)
        /\ s.complete => t.complete
        /\ ~t.complete => ~(ListDone(t) /\ DefaultKnown(t)) /\ t.cache = s.cache
    BY <1>1 DEF Handled
  <1>4. Files(t)
    BY <1>2, <1>3 DEF PmInv, Files
  <1>5. Loading(t) /\ Pending(t)
    BY <1>2, <1>3 DEF Loading, Pending
  <1>6. Ready(s, t)
    <2>1. SUFFICES ASSUME ~s.complete, t.complete, ~t.missing PROVE AllKnown(t)
      BY DEF Ready
    <2>2. DOMAIN t.waitingIndex = {} /\ t.failedIndex = {}
      BY <1>1, <2>1 DEF Handled, ListDone
    <2> QED  BY <1>2, <2>2 DEF Accounted, AllKnown
  <1>7. s.facts \in [Params -> Values \cup {NoValue}]
    BY DEF PmInv, PmType
  <1>8. t.facts[p] = v /\ \A q \in Params \ {p} : t.facts[q] = s.facts[q]
    BY <1>2, <1>7
  <1>9. DOMAIN t.waitingWrite = DOMAIN s.waitingWrite \ {p}
    BY <1>2 DEF Without
  <1>10. ASSUME NEW q \in DOMAIN s.waitingWrite \cup s.writeFailed
         PROVE  q \in DOMAIN t.waitingWrite \cup t.writeFailed \/ <<q, t.facts[q]>> \in {<<p, v>>}
    BY <1>2, <1>8, <1>9
  <1>11. \A q \in Params : t.facts[q] = s.facts[q] \/ <<q, t.facts[q]>> \in {<<p, v>>}
    BY <1>8
  <1>12. Takes(s, {<<p, v>>}, NoCache, t)
    BY <1>2, <1>3, <1>6, <1>9, <1>10, <1>11 DEF Takes
  <1>13. PmInv(t)
    BY <1>2, <1>4, <1>5 DEF PmInv
  <1> QED  BY <1>5, <1>12, <1>13 DEF t

(* What a file with this hash offers: it has the vehicle's values of then,    *)
(* but for the volatile ones.                                                 *)
OfTheHash(s, hash) ==
    IF s.complete THEN {}
    ELSE {o \in ParamsOf(DefaultComponent) \X Values :
              o[1][2] \notin Volatile => o[2] = hash[o[1][2]]}

(* The hash ends the wait of the list timer, which runs on PX4 only while     *)
(* nothing but the hash has come.                                             *)
LEMMA HeardFacts ==
    ASSUME NEW s, PmInv(s), setup.firmware = "px4", Pending(s)
    PROVE  LET t == [s EXCEPT !.initialTimer = FALSE, !.hashed = TRUE]
           IN /\ PmInv(t) /\ Pending(t) /\ Quietly(s, NoCache, t)
              /\ t.complete = s.complete /\ t.noResponse = s.noResponse
              /\ t.tryFtp = s.tryFtp
  <1> DEFINE t == [s EXCEPT !.initialTimer = FALSE, !.hashed = TRUE]
  <1>1. s \in PmType
    BY DEF PmInv
  <1>2. t \in PmType
    BY <1>1, ZenonT(60) DEF PmType
  <1>3. /\ t.facts = s.facts /\ t.seen = s.seen /\ t.waitingIndex = s.waitingIndex
        /\ t.waitingName = s.waitingName /\ t.waitingWrite = s.waitingWrite
        /\ t.failedIndex = s.failedIndex /\ t.batchQueue = s.batchQueue
        /\ ~t.initialTimer /\ t.waitingTimer = s.waitingTimer
        /\ t.writeFailed = s.writeFailed /\ t.out = s.out /\ t.hashed
    BY <1>1 DEF PmType
  <1>4. /\ t.complete = s.complete /\ t.missing = s.missing /\ t.cache = s.cache
        /\ t.tryFtp = s.tryFtp /\ t.downloading = s.downloading
        /\ t.listening = s.listening /\ t.refused = s.refused /\ t.file = s.file
        /\ t.noResponse = s.noResponse /\ t.progress = s.progress
        /\ t.batchActive = s.batchActive /\ t.lastChance = s.lastChance
    BY <1>1 DEF PmType
  <1> HIDE DEF t
  <1>5. Waits(t) /\ Accounted(t) /\ Files(t)
    BY <1>3, <1>4 DEF PmInv, Waits, Accounted, Files
  <1>6. DefaultKnown(t) = DefaultKnown(s) /\ ListDone(t) = ListDone(s)
    BY <1>3 DEF DefaultKnown, ListDone
  <1>7. Loading(t)
    BY <1>3, <1>4, <1>6 DEF PmInv, Loading
  <1>8. Pending(t)
    BY <1>3, <1>4, <1>6 DEF PmInv, Loading, Pending
  <1>9. Quietly(s, NoCache, t)
    BY <1>3, <1>4 DEF Quietly, Ready
  <1>10. PmInv(t)
    BY <1>2, <1>5, <1>7 DEF PmInv
  <1> QED  BY <1>4, <1>8, <1>9, <1>10 DEF t

LEMMA HandleHashFacts ==
    ASSUME NEW s, PmInv(s), NEW hash, setup.firmware = "px4", Pending(s)
    PROVE  LET t == HandleHash(s, hash)
           IN PmInv(t) /\ Pending(t) /\ Takes(s, OfTheHash(s, hash), NoCache, t)
  <1> DEFINE heard == [s EXCEPT !.initialTimer = FALSE, !.hashed = TRUE]
             loaded == TryCacheHashLoad(heard, hash)
             t == HandleHash(s, hash)
  <1>1. t = IF s.complete THEN heard ELSE loaded
    BY DEF HandleHash
  <1>2. /\ PmInv(heard) /\ Quietly(s, NoCache, heard) /\ heard.complete = s.complete
        /\ heard.noResponse = s.noResponse /\ heard.tryFtp = s.tryFtp
        /\ Pending(heard)
    BY HeardFacts
  <1> HIDE DEF heard, t
  <1>4. Takes(s, OfTheHash(s, hash), NoCache, heard)
    BY <1>2, QuietlySends, SendsTakes
  <1>5. CASE s.complete
    BY <1>1, <1>2, <1>4, <1>5 DEF t
  <1>6. CASE ~s.complete /\ (heard.cache = NoCache \/ Hash(heard.cache) # hash)
    <2>1. loaded = heard
      BY <1>6 DEF TryCacheHashLoad
    <2> QED  BY <1>1, <1>2, <1>4, <1>6, <2>1 DEF t
  <1>7. CASE ~s.complete /\ ~(heard.cache = NoCache \/ Hash(heard.cache) # hash)
    <2>1. heard.cache \in Contents /\ Hash(heard.cache) = hash
      BY <1>2, <1>7 DEF PmInv, Files
    <2>2. heard \in PmType /\ Waits(heard) /\ Accounted(heard)
      BY <1>2 DEF PmInv
    <2>3. Loaded(heard, loaded)
      BY <1>2, <1>7, <2>1, <2>2, LoadedAll
    <2> HIDE DEF loaded
    <2>4. /\ loaded \in PmType /\ Waits(loaded) /\ Accounted(loaded)
          /\ loaded.seen = heard.seen \cup {DefaultComponent}
          /\ DOMAIN loaded.waitingWrite \subseteq DOMAIN heard.waitingWrite
          /\ loaded.writeFailed = heard.writeFailed /\ loaded.file = heard.file
          /\ SetsOf(loaded.out) = SetsOf(heard.out) /\ Ready(heard, loaded)
      BY <2>3 DEF Loaded
    <2>5. /\ loaded.listening = heard.listening
          /\ loaded.refused = heard.refused /\ loaded.downloading = heard.downloading
          /\ loaded.tryFtp = heard.tryFtp /\ loaded.noResponse = heard.noResponse
          /\ ~loaded.initialTimer /\ (loaded.waitingTimer \/ loaded.complete)
          /\ ~loaded.complete => loaded.cache = heard.cache
                                    /\ ~(ListDone(loaded) /\ DefaultKnown(loaded))
      BY <2>3 DEF Loaded
    <2>6. Files(loaded)
      <3>1. Files(heard)
        BY <1>2 DEF PmInv
      <3>2. /\ loaded.listening = heard.listening
            /\ loaded.refused = heard.refused /\ loaded.downloading = heard.downloading
            /\ loaded.file = heard.file /\ loaded.tryFtp = heard.tryFtp
            /\ ~loaded.complete => loaded.cache \in Contents \cup {NoCache}
        BY <2>1, <2>4, <2>5
      <3> QED  BY <3>1, <3>2 DEF Files
    <2>7. Loading(loaded) /\ Pending(loaded)
      BY <2>4, <2>5 DEF Loading, Pending
    <2>8. PmInv(loaded)
      BY <2>4, <2>6, <2>7 DEF PmInv
    <2>9. \A p \in Params : loaded.facts[p] = IF p[1] = DefaultComponent THEN heard.cache[p[2]]
                                               ELSE heard.facts[p]
      BY <2>3 DEF Loaded
    <2>10. ASSUME NEW p \in Params, p[1] = DefaultComponent
           PROVE  <<p, loaded.facts[p]>> \in OfTheHash(s, hash)
      <3>1. p \in ParamsOf(DefaultComponent) /\ p[2] \in Index
        BY <2>10, DefaultFacts
      <3>2. loaded.facts[p] = heard.cache[p[2]]
        BY <2>9, <2>10
      <3>3. heard.cache[p[2]] \in Values /\ DOMAIN heard.cache = Index
        BY <2>1, <3>1 DEF Contents
      <3>4. p[2] \notin Volatile => heard.cache[p[2]] = hash[p[2]]
        BY <2>1, <3>1, <3>3 DEF Hash
      <3> QED  BY <1>7, <3>1, <3>2, <3>3, <3>4 DEF OfTheHash
    <2>11. ASSUME NEW p \in Params
           PROVE  loaded.facts[p] = heard.facts[p] \/ <<p, loaded.facts[p]>> \in OfTheHash(s, hash)
      BY <2>9, <2>10
    <2>12. ASSUME NEW p \in DOMAIN heard.waitingWrite \cup heard.writeFailed
           PROVE  \/ p \in DOMAIN loaded.waitingWrite \cup loaded.writeFailed
                  \/ <<p, loaded.facts[p]>> \in OfTheHash(s, hash)
      <3>1. CASE p \in heard.writeFailed
        BY <2>4, <3>1
      <3>2. CASE p \in DOMAIN heard.waitingWrite
        <4>1. p \in DOMAIN loaded.waitingWrite \/ p[1] = DefaultComponent
          BY <2>3, <3>2 DEF Loaded
        <4>2. p \in Params
          BY <2>2, <3>2, WaitingFacts DEF PmType
        <4> QED  BY <2>10, <4>1, <4>2
      <3> QED  BY <3>1, <3>2
    <2>13. Takes(heard, OfTheHash(s, hash), NoCache, loaded)
      BY <1>2, <1>7, <2>4, <2>11, <2>12 DEF Takes
    <2>14. Takes(s, OfTheHash(s, hash), NoCache, loaded)
      BY <1>2, <2>13, QuietlyThenTakes
    <2> QED  BY <1>1, <1>7, <2>7, <2>8, <2>14 DEF t
  <1> QED  BY <1>5, <1>6, <1>7

(* A write of the user: sent, and waited for if the component is heard of.    *)
Written(s, p, v, t) ==
    /\ PmInv(t) /\ t.complete
    /\ t.facts = [s.facts EXCEPT ![p] = v] /\ t.file = s.file
    /\ t.out = Append(s.out, SetRequest(p, v))
    /\ DOMAIN t.waitingWrite = DOMAIN s.waitingWrite \cup (IF p[1] \in s.seen THEN {p} ELSE {})
    /\ t.writeFailed = s.writeFailed \ {p}

LEMMA FactRawValueUpdatedFacts ==
    ASSUME NEW s, PmInv(s), s.complete, NEW p \in Params, NEW v \in Values
    PROVE  Written(s, p, v, FactRawValueUpdated([s EXCEPT !.writeFailed = @ \ {p}], p, v))
  <1> DEFINE known == [s.facts EXCEPT ![p] = v]
             queue == Append(s.out, SetRequest(p, v))
             failed == s.writeFailed \ {p}
             t == FactRawValueUpdated([s EXCEPT !.writeFailed = @ \ {p}], p, v)
  <1>1. s \in PmType
    BY DEF PmInv
  <1>2. PICK w \in Waiting(MaxReadWriteRetry), b \in BOOLEAN :
            /\ t = [s EXCEPT !.writeFailed = failed, !.facts = known, !.out = queue,
                             !.waitingWrite = w, !.waitingTimer = b]
            /\ DOMAIN w = DOMAIN s.waitingWrite \cup (IF p[1] \in s.seen THEN {p} ELSE {})
    <2>1. s.waitingWrite \in Waiting(MaxReadWriteRetry) /\ s.waitingTimer \in BOOLEAN
      BY <1>1 DEF PmType
    <2>2. CASE p[1] \in s.seen
      <3> DEFINE n == WithNew(s.waitingWrite, {p})
      <3>1. n \in Waiting(MaxReadWriteRetry) /\ DOMAIN n = DOMAIN s.waitingWrite \cup {p}
        BY <2>1, WithNewFacts, LimitsAreNumbers
      <3>2. t = [s EXCEPT !.writeFailed = failed, !.facts = known, !.out = queue,
                          !.waitingWrite = n, !.waitingTimer = TRUE]
        BY <1>1, <2>2 DEF FactRawValueUpdated, PmType
      <3> HIDE DEF n, t, failed, known, queue
      <3> QED  BY <2>2, <3>1, <3>2
    <2>3. CASE p[1] \notin s.seen
      <3>1. t = [s EXCEPT !.writeFailed = failed, !.facts = known, !.out = queue,
                          !.waitingWrite = s.waitingWrite, !.waitingTimer = s.waitingTimer]
        BY <1>1, <2>3, ZenonT(60) DEF FactRawValueUpdated, PmType
      <3> HIDE DEF t, failed, known, queue
      <3> QED  BY <2>1, <2>3, <3>1
    <2> QED  BY <2>2, <2>3
  <1>3. known \in [Params -> Values \cup {NoValue}] /\ known[p] = v
        /\ \A q \in Params \ {p} : known[q] = s.facts[q]
    BY <1>1 DEF PmType
  <1>4. v # NoValue
    BY ParameterAssumption
  <1>5. queue \in Seq(Requests)
    <2>1. s.out \in Seq(Requests) /\ SetRequest(p, v) \in Requests
      BY <1>1, RequestFacts DEF PmType
    <2> QED  BY <2>1
  <1>6. failed \in SUBSET Params
    BY <1>1 DEF PmType
  <1> HIDE DEF t, known, queue, failed
  <1>7. t \in PmType
    <2> DEFINE k == [s EXCEPT !.facts = known]
    <2>1. k \in PmType
      BY <1>1, <1>3, KnownFacts
    <2>2. t = [k EXCEPT !.writeFailed = failed, !.out = queue,
                        !.waitingWrite = w, !.waitingTimer = b]
      BY <1>1, <1>2 DEF PmType
    <2> HIDE DEF k
    <2>3. [k EXCEPT !.writeFailed = failed, !.out = queue,
                    !.waitingWrite = w, !.waitingTimer = b] \in PmType
      BY <1>5, <1>6, <2>1, ZenonT(60) DEF PmType
    <2> QED  BY <2>2, <2>3
  <1>8. /\ t.facts = known /\ t.seen = s.seen /\ t.waitingIndex = s.waitingIndex
        /\ t.waitingName = s.waitingName /\ t.waitingWrite = w
        /\ t.failedIndex = s.failedIndex /\ t.batchQueue = s.batchQueue
        /\ t.writeFailed = failed /\ t.out = queue
    BY <1>1, <1>2 DEF PmType
  <1>9. /\ t.complete = s.complete /\ t.cache = s.cache
        /\ t.tryFtp = s.tryFtp /\ t.downloading = s.downloading
        /\ t.listening = s.listening /\ t.refused = s.refused /\ t.file = s.file
    BY <1>1, <1>2 DEF PmType
  <1>10. Waits(t)
    <2>1. ASSUME NEW q \in DOMAIN t.waitingIndex \cup DOMAIN t.waitingName \cup DOMAIN t.waitingWrite
          PROVE  q[1] \in t.seen
      BY <1>2, <1>8 DEF PmInv, Waits
    <2>2. ASSUME NEW q \in DOMAIN t.waitingWrite PROVE t.facts[q] # NoValue
      <3>1. CASE q = p
        BY <1>3, <1>4, <1>8, <3>1
      <3>2. CASE q # p
        <4>1. q \in DOMAIN s.waitingWrite
          BY <1>2, <1>8, <3>2
        <4>2. q \in Params
          BY <1>1, <4>1, WaitingFacts DEF PmType
        <4> QED  BY <1>3, <1>8, <3>2, <4>1, <4>2 DEF PmInv, Waits
      <3> QED  BY <3>1, <3>2
    <2>3. Cardinality(t.batchQueue) <= MaxBatchSize + 1
      BY <1>8 DEF PmInv, Waits
    <2> QED  BY <2>1, <2>2, <2>3 DEF Waits
  <1>11. Accounted(t)
    BY <1>3, <1>4, <1>8 DEF PmInv, Accounted
  <1>12. Files(t) /\ Loading(t)
    BY <1>9 DEF PmInv, Files, Loading
  <1>13. PmInv(t)
    BY <1>7, <1>10, <1>11, <1>12 DEF PmInv
  <1>14. Written(s, p, v, t)
    BY <1>2, <1>8, <1>9, <1>13 DEF Written, known, queue, failed
  <1> QED  BY <1>14 DEF t

LEMMA RefreshParameterFacts ==
    ASSUME NEW s, PmInv(s), s.complete, NEW p \in Params
    PROVE  LET t == RefreshParameter(s, p) IN PmInv(t) /\ Quietly(s, NoCache, t)
  <1> DEFINE queue == Append(s.out, ReadRequest(p))
             t == RefreshParameter(s, p)
  <1>1. s \in PmType
    BY DEF PmInv
  <1>2. PICK w \in Waiting(MaxReadWriteRetry), b \in BOOLEAN :
            /\ t = [s EXCEPT !.out = queue, !.waitingName = w, !.waitingTimer = b]
            /\ DOMAIN w = DOMAIN s.waitingName \cup (IF p[1] \in s.seen THEN {p} ELSE {})
    <2>1. s.waitingName \in Waiting(MaxReadWriteRetry) /\ s.waitingTimer \in BOOLEAN
      BY <1>1 DEF PmType
    <2>2. CASE p[1] \in s.seen
      <3> DEFINE n == WithNew(s.waitingName, {p})
      <3>1. n \in Waiting(MaxReadWriteRetry) /\ DOMAIN n = DOMAIN s.waitingName \cup {p}
        BY <2>1, WithNewFacts, LimitsAreNumbers
      <3>2. t = [s EXCEPT !.out = queue, !.waitingName = n, !.waitingTimer = TRUE]
        BY <1>1, <2>2 DEF RefreshParameter, PmType
      <3> HIDE DEF n, t, queue
      <3> QED  BY <2>2, <3>1, <3>2
    <2>3. CASE p[1] \notin s.seen
      <3>1. t = [s EXCEPT !.out = queue, !.waitingName = s.waitingName,
                          !.waitingTimer = s.waitingTimer]
        BY <1>1, <2>3 DEF RefreshParameter, PmType
      <3> HIDE DEF t, queue
      <3> QED  BY <2>1, <2>3, <3>1
    <2> QED  BY <2>2, <2>3
  <1>3. queue \in Seq(Requests) /\ SetsOf(queue) = SetsOf(s.out)
    <2>1. s.out \in Seq(Requests) /\ ReadRequest(p) \in Requests /\ ReadRequest(p).type # "Set"
      BY <1>1, RequestFacts DEF PmType
    <2> QED  BY <2>1, AppendFacts
  <1> HIDE DEF t, queue
  <1>4. t \in PmType
    BY <1>1, <1>2, <1>3, ZenonT(60) DEF PmType
  <1>5. /\ t.facts = s.facts /\ t.seen = s.seen /\ t.waitingIndex = s.waitingIndex
        /\ t.waitingName = w /\ t.waitingWrite = s.waitingWrite
        /\ t.failedIndex = s.failedIndex /\ t.batchQueue = s.batchQueue
        /\ t.writeFailed = s.writeFailed /\ t.out = queue
    BY <1>1, <1>2 DEF PmType
  <1>6. /\ t.complete = s.complete /\ t.missing = s.missing /\ t.cache = s.cache
        /\ t.tryFtp = s.tryFtp /\ t.downloading = s.downloading
        /\ t.listening = s.listening /\ t.refused = s.refused /\ t.file = s.file
    BY <1>1, <1>2 DEF PmType
  <1>7. Waits(t)
    BY <1>2, <1>5 DEF PmInv, Waits
  <1>8. Accounted(t) /\ Files(t) /\ Loading(t)
    BY <1>5, <1>6 DEF PmInv, Accounted, Files, Loading
  <1>9. PmInv(t)
    BY <1>4, <1>7, <1>8 DEF PmInv
  <1>10. Quietly(s, NoCache, t)
    BY <1>3, <1>5, <1>6 DEF Quietly, Ready
  <1> QED  BY <1>9, <1>10 DEF t

-----------------------------------------------------------------------------
(* The station's steps                                                        *)

(* What a step leaves behind, that makes s of pm.                             *)
Left(s) ==
    /\ PmTypeOK' /\ PmInv(pm)' /\ toVehicle' \in Seq(Requests)
    /\ Pending(s) => Pending(pm)'
    /\ pm'.facts = s.facts /\ pm'.seen = s.seen /\ pm'.file = s.file
    /\ pm'.waitingWrite = s.waitingWrite /\ pm'.writeFailed = s.writeFailed
    /\ pm'.complete = s.complete /\ pm'.missing = s.missing

LEMMA BecomesFacts ==
    ASSUME NEW s, PmInv(s), toVehicle \in Seq(Requests), Becomes(s), setup' = setup
    PROVE  Left(s)
  <1> DEFINE t == [s EXCEPT !.out = <<>>]
  <1>1. s \in PmType /\ s.out \in Seq(Requests)
    BY DEF PmInv, PmType
  <1>2. pm' = t /\ toVehicle' \in Seq(Requests)
    BY <1>1 DEF Becomes
  <1>3. t \in PmType
    <2>1. PICK e \in Seq(Requests) : e = <<>>
      BY EmptySeq
    <2>2. [s EXCEPT !.out = e] \in PmType
      BY <1>1 DEF PmType
    <2> QED  BY <2>1, <2>2
  <1>4. /\ t.facts = s.facts /\ t.seen = s.seen /\ t.waitingIndex = s.waitingIndex
        /\ t.waitingName = s.waitingName /\ t.waitingWrite = s.waitingWrite
        /\ t.failedIndex = s.failedIndex /\ t.batchQueue = s.batchQueue
        /\ t.initialTimer = s.initialTimer /\ t.waitingTimer = s.waitingTimer
        /\ t.writeFailed = s.writeFailed /\ t.out = <<>> /\ t.progress = s.progress
        /\ t.hashed = s.hashed /\ t.batchActive = s.batchActive /\ t.lastChance = s.lastChance
    BY <1>1 DEF PmType
  <1>5. /\ t.complete = s.complete /\ t.missing = s.missing /\ t.cache = s.cache
        /\ t.tryFtp = s.tryFtp /\ t.downloading = s.downloading
        /\ t.listening = s.listening
        /\ t.refused = s.refused /\ t.file = s.file /\ t.noResponse = s.noResponse
    BY <1>1 DEF PmType
  <1> HIDE DEF t
  <1>6. Waits(t) /\ Accounted(t)
    BY <1>4 DEF PmInv, Waits, Accounted
  <1>7. DefaultKnown(t) = DefaultKnown(s) /\ ListDone(t) = ListDone(s)
    BY <1>4 DEF DefaultKnown, ListDone
  <1>8. Files(pm)'
    BY <1>2, <1>5 DEF PmInv, Files
  <1>9. Loading(pm)'
    BY <1>2, <1>4, <1>5, <1>7 DEF PmInv, Loading
  <1>10. Pending(s) => Pending(pm)'
    BY <1>2, <1>4, <1>5, <1>7 DEF Pending
  <1>11. PmInv(pm)'
    BY <1>2, <1>3, <1>6, <1>8, <1>9 DEF PmInv
  <1>12. PmTypeOK'
    <2>1. /\ pm'.facts \in [Params -> Values \cup {NoValue}]
          /\ pm'.seen \in SUBSET Components
          /\ pm'.waitingIndex \in Waiting(MaxInitialLoadRetrySingleParam)
          /\ pm'.waitingName \in Waiting(MaxReadWriteRetry)
          /\ pm'.waitingWrite \in Waiting(MaxReadWriteRetry)
          /\ pm'.batchQueue \in SUBSET Indices
          /\ pm'.prevReads \in 0..2 * Cardinality(Params)
          /\ pm'.initialRetry \in 0..MaxInitialRequestListRetry + 1
          /\ pm'.progress \in {"None", "Slow", "Good"}
          /\ pm'.out = <<>>
      BY <1>2, <1>3, <1>4 DEF PmType
    <2>2. {pm'.failedIndex, pm'.writeFailed, pm'.readFailed} \subseteq SUBSET Params
      BY <1>2, <1>3 DEF PmType
    <2>3. {pm'.batchActive, pm'.initialTimer, pm'.waitingTimer, pm'.lastChance,
           pm'.complete, pm'.missing, pm'.tryFtp, pm'.downloading, pm'.listening,
           pm'.noResponse, pm'.hashed, pm'.refused} \subseteq BOOLEAN
      BY <1>2, <1>3 DEF PmType
    <2>4. /\ \A p \in DOMAIN pm'.waitingIndex \cup DOMAIN pm'.waitingName
                         \cup DOMAIN pm'.waitingWrite : p[1] \in pm'.seen
          /\ Cardinality(pm'.batchQueue) <= MaxBatchSize + 1
      BY <1>2, <1>6 DEF Waits
    <2>5. pm'.listening => pm'.downloading
      BY <1>8 DEF Files
    <2> QED  BY <2>1, <2>2, <2>3, <2>4, <2>5 DEF PmTypeOK, Waiting, Indices
  <1> QED  BY <1>2, <1>4, <1>5, <1>10, <1>11, <1>12 DEF Left

(* The values that can be taken now, with their parameters.                   *)
OnOffer ==
    {o \in Params \X Values :
        \/ \E i \in 1..Len(toStation) : IsValue(toStation[i], o[1]) /\ toStation[i].value = o[2]
        \/ InFile(o[1]) /\ o[2] = pm.file[o[1][2]]
        \/ /\ ~pm.complete /\ o[1][1] = DefaultComponent
           /\ \E i \in 1..Len(toStation) :
                 /\ toStation[i].type = "Hash"
                 /\ o[1][2] \notin Volatile => o[2] = toStation[i].value[o[1][2]]}

(* What every step of the station makes of pm, but the writing of a value.    *)
Reached(s) ==
    /\ PmInv(s) /\ Becomes(s)
    /\ begun' = "Yes" => Pending(s)
    /\ Takes(pm, OnOffer, AutopilotValues(vehicle), s)

(* Steps that leave the writes of the user alone, and are not said to settle.  *)
Kept(s) == pm.complete => s.facts = pm.facts

LEMMA TakesWhatIsOffered ==
    ASSUME NEW s, NEW offered, NEW some, NEW t, Takes(s, offered, some, t),
           NEW all, offered \subseteq all, NEW contents, some \in {s.file, contents, NoCache}
    PROVE  Takes(s, all, contents, t)
  BY DEF Takes

LEMMA VehicleValues ==
    ASSUME vehicle \in [Params -> Values]
    PROVE  /\ AutopilotValues(vehicle) \in Contents
           /\ \A p \in Params : p[1] = DefaultComponent =>
                 AutopilotValues(vehicle)[p[2]] = vehicle[p]
  <1>1. \A i \in Index : <<DefaultComponent, i>> \in Params
    BY DefaultFacts
  <1>2. AutopilotValues(vehicle) \in Contents
    BY <1>1 DEF AutopilotValues, Contents, Index
  <1>3. ASSUME NEW p \in Params, p[1] = DefaultComponent
        PROVE  AutopilotValues(vehicle)[p[2]] = vehicle[p]
    <2>1. p[2] \in Index /\ p = <<DefaultComponent, p[2]>>
      BY <1>3, ParamFacts, DefaultFacts
    <2> QED  BY <2>1 DEF AutopilotValues, Index
  <1> QED  BY <1>2, <1>3

LEMMA InvFacts ==
    ASSUME LoadInv
    PROVE  /\ PmInv(pm) /\ pm \in PmType /\ pm.out = <<>> /\ setup.firmware \in {"px4", "apm"}
           /\ linked \in BOOLEAN /\ begun \in {"No", "Yes", "Unheard"}
           /\ vehicle \in [Params -> Values]
           /\ toVehicle \in Seq(Requests) /\ toStation \in Seq(Messages)
           /\ stream \in Seq(Params \cup {HashParam})
  BY RequestsAssumption DEF LoadInv, TypeOK, PmTypeOK, PmInv

LEMMA RequestParametersReaches ==
    ASSUME LoadInv, RequestParameters
    PROVE  \E s : Reached(s) /\ Kept(s)
  <1> DEFINE contents == AutopilotValues(vehicle)
             s == RefreshAll(pm, AllComponents, contents)
  <1>1. MayAsk(pm)
    BY DEF RequestParameters, LoadInv, Fresh, MayAsk
  <1>2. contents \in Contents
    BY InvFacts, VehicleValues
  <1>3. Becomes(s) /\ (begun' = "Yes" => linked)
    BY DEF RequestParameters
  <1>4. PmInv(pm) /\ linked \in BOOLEAN
    BY InvFacts
  <1> HIDE DEF contents
  <1>5. Refreshed(pm, contents, s)
    BY <1>1, <1>2, <1>4, RefreshAllFacts
  <1> HIDE DEF s
  <1>6. PmInv(s) /\ (begun' = "Yes" => Pending(s))
    BY <1>3, <1>5 DEF Refreshed, Pending
  <1>7. Takes(pm, OnOffer, contents, s)
    BY <1>5, QuietlySends, SendsTakes DEF Refreshed
  <1>8. Reached(s) /\ Kept(s)
    BY <1>3, <1>5, <1>6, <1>7 DEF Reached, contents, Kept, Refreshed, Quietly
  <1> QED  BY <1>8

LEMMA InitialRequestTimerReaches ==
    ASSUME LoadInv, InitialRequestTimerFires
    PROVE  \E s : Reached(s) /\ Kept(s)
  <1> DEFINE contents == AutopilotValues(vehicle)
             s == InitialRequestTimeout(pm, contents)
  <1>1. PmInv(pm) /\ contents \in Contents
    BY InvFacts, VehicleValues
  <1>2. MayAsk(pm)
    BY <1>1 DEF InitialRequestTimerFires, PmInv, Loading, MayAsk
  <1>3. Becomes(s)
    BY DEF InitialRequestTimerFires
  <1> HIDE DEF contents
  <1>4. Retried(pm, contents, s)
    BY <1>1, <1>2, InitialRequestTimeoutFacts
  <1> HIDE DEF s
  <1>5. PmInv(s) /\ Pending(s)
    BY <1>4 DEF Retried, Pending
  <1>6. Takes(pm, OnOffer, contents, s)
    BY <1>4, QuietlySends, SendsTakes DEF Retried
  <1>7. Reached(s) /\ Kept(s)
    BY <1>3, <1>4, <1>5, <1>6 DEF Reached, contents, Kept, Retried, Quietly
  <1> QED  BY <1>7

LEMMA WaitingParamTimerReaches ==
    ASSUME LoadInv, WaitingParamTimerFires
    PROVE  \E s : Reached(s) /\ Kept(s)
  <1> DEFINE s == WaitingParamTimeout(pm)
  <1>1. PmInv(pm) /\ pm.waitingTimer /\ Becomes(s)
    BY InvFacts DEF WaitingParamTimerFires
  <1>2. TimedOut(pm, s)
    BY <1>1, WaitingParamTimeoutFacts
  <1> HIDE DEF s
  <1>3. PmInv(s) /\ Pending(s) /\ Takes(pm, OnOffer, pm.file, s)
    BY <1>2, SendsTakes DEF TimedOut
  <1>4. Takes(pm, OnOffer, AutopilotValues(vehicle), s)
    BY <1>3, TakesWhatIsOffered
  <1>5. Reached(s) /\ Kept(s)
    BY <1>1, <1>2, <1>3, <1>4 DEF Reached, Kept, TimedOut, Sends
  <1> QED  BY <1>5

LEMMA DownloadReportsReaches ==
    ASSUME LoadInv, DownloadReports
    PROVE  \E s : Reached(s) /\ Kept(s)
  <1>1. PICK progress \in {"Slow", "Good"}, above \in BOOLEAN :
            Becomes(FtpDownloadProgress(pm, progress, above))
    BY DEF DownloadReports
  <1> DEFINE s == FtpDownloadProgress(pm, progress, above)
  <1>2. PmInv(pm) /\ pm.downloading
    BY InvFacts DEF DownloadReports
  <1>3. PmInv(s) /\ Pending(s) /\ Quietly(pm, NoCache, s)
    BY <1>2, FtpDownloadProgressFacts
  <1>4. Becomes(s)
    BY <1>1
  <1> HIDE DEF s
  <1>5. Takes(pm, OnOffer, NoCache, s)
    BY <1>3, QuietlySends, SendsTakes
  <1>6. Takes(pm, OnOffer, AutopilotValues(vehicle), s)
    BY <1>5, TakesWhatIsOffered
  <1>7. Reached(s) /\ Kept(s)
    BY <1>3, <1>4, <1>6 DEF Reached, Kept, Quietly
  <1> QED  BY <1>7

LEMMA DownloadEndsReaches ==
    ASSUME LoadInv, DownloadEnds
    PROVE  \E s : Reached(s) /\ Settle(s)
  <1>1. PICK result : LET s == FtpDownloadComplete(pm, result) IN Becomes(s) /\ Settle(s)
    BY DEF DownloadEnds
  <1> DEFINE s == FtpDownloadComplete(pm, result)
  <1>2. PmInv(pm) /\ pm.downloading /\ begun' = begun
    BY InvFacts DEF DownloadEnds
  <1>3. FtpEnded(pm, s)
    BY <1>2, FtpDownloadCompleteFacts
  <1>4. Becomes(s) /\ Settle(s)
    BY <1>1
  <1> HIDE DEF s
  <1>5. PmInv(s) /\ (begun' = "Yes" => Pending(s))
    BY <1>2, <1>3 DEF FtpEnded, LoadInv
  <1>6. InTheFile(pm) \subseteq OnOffer
    <2>1. SUFFICES ASSUME pm.file \in Contents, NEW p \in ParamsOf(DefaultComponent)
                   PROVE  <<p, pm.file[p[2]]>> \in OnOffer
      BY DEF InTheFile
    <2>2. p \in Params /\ p[1] = DefaultComponent /\ p[2] \in Index
      BY OwnParams, ParameterAssumption DEF Index
    <2>3. pm.file[p[2]] \in Values /\ pm.file # NoCache
      BY <2>1, <2>2, ParameterAssumption DEF Contents, Index
    <2> QED  BY <2>2, <2>3 DEF OnOffer, InFile
  <1>7. Takes(pm, OnOffer, AutopilotValues(vehicle), s)
    BY <1>3, <1>6, TakesWhatIsOffered DEF FtpEnded
  <1>8. Reached(s)
    BY <1>4, <1>5, <1>7 DEF Reached
  <1> QED  BY <1>4, <1>8

(* The first message on its way offers what it brings.                        *)
LEMMA FirstMessage ==
    ASSUME LoadInv, toStation # <<>>
    PROVE  LET m == Head(toStation)
           IN /\ 1 \in 1..Len(toStation) /\ m = toStation[1] /\ m \in Messages
              /\ m.type = "Value" => /\ m.param \in Params /\ m.value \in Values
                                     /\ m.indexed \in BOOLEAN
                                     /\ <<m.param, m.value>> \in OnOffer
              /\ m.type = "Hash" => OfTheHash(pm, m.value) \subseteq OnOffer
  <1> DEFINE m == Head(toStation)
  <1>1. 1 \in 1..Len(toStation) /\ m = toStation[1] /\ m \in Messages
    BY InvFacts
  <1> HIDE DEF m
  <1>2. ASSUME m.type = "Value"
        PROVE  /\ m.param \in Params /\ m.value \in Values /\ m.indexed \in BOOLEAN
               /\ <<m.param, m.value>> \in OnOffer
    <2>1. m.param \in Params /\ m.value \in Values /\ m.indexed \in BOOLEAN
      BY <1>1, <1>2 DEF Messages
    <2> QED  BY <1>1, <1>2, <2>1 DEF OnOffer, IsValue
  <1>3. ASSUME m.type = "Hash", NEW o \in OfTheHash(pm, m.value) PROVE o \in OnOffer
    <2>1. /\ ~pm.complete /\ o \in ParamsOf(DefaultComponent) \X Values
          /\ o[1][2] \notin Volatile => o[2] = m.value[o[1][2]]
      BY <1>3 DEF OfTheHash
    <2>2. o[1] \in Params /\ o[1][1] = DefaultComponent /\ o \in Params \X Values
      BY <2>1, OwnParams, ParameterAssumption
    <2> QED  BY <1>1, <1>3, <2>1, <2>2 DEF OnOffer
  <1> QED  BY <1>1, <1>2, <1>3 DEF m

LEMMA ReceiveValueReaches ==
    ASSUME LoadInv, ReceiveValue
    PROVE  \E s : Reached(s) /\ Settle(s)
  <1> DEFINE m == Head(toStation)
             taken == ~Ignored(pm, m.param[1]) /\ ~Disregarded(pm, m.indexed)
             t == HandleParamValue(pm, m.param, m.value, m.indexed)
             s == IF taken THEN t ELSE pm
  <1>1. PmInv(pm) /\ begun' = begun /\ toStation # <<>> /\ m.type = "Value"
    BY InvFacts DEF ReceiveValue
  <1>2. Becomes(s) /\ Settle(s)
    BY DEF ReceiveValue
  <1>3. /\ m.param \in Params /\ m.value \in Values /\ m.indexed \in BOOLEAN
        /\ <<m.param, m.value>> \in OnOffer
    BY <1>1, FirstMessage
  <1> HIDE DEF m
  <1>4. CASE taken
    <2>1. PmInv(t) /\ Pending(t) /\ Takes(pm, {<<m.param, m.value>>}, NoCache, t)
      BY <1>1, <1>3, HandleParamValueFacts
    <2>2. Becomes(t) /\ Settle(t)
      BY <1>2, <1>4
    <2> HIDE DEF t
    <2>3. Takes(pm, OnOffer, AutopilotValues(vehicle), t)
      BY <1>3, <2>1, TakesWhatIsOffered
    <2>4. Reached(t)
      BY <2>1, <2>2, <2>3 DEF Reached
    <2> QED  BY <2>2, <2>4
  <1>5. CASE ~taken
    <2>1. Becomes(pm) /\ Settle(pm)
      BY <1>2, <1>5
    <2>2. Takes(pm, OnOffer, AutopilotValues(vehicle), pm)
      BY DEF Takes, Ready
    <2>3. begun' = "Yes" => Pending(pm)
      BY <1>1 DEF LoadInv
    <2>4. Reached(pm)
      BY <1>1, <2>1, <2>2, <2>3 DEF Reached
    <2> QED  BY <2>1, <2>4
  <1> QED  BY <1>4, <1>5

LEMMA ReceiveHashReaches ==
    ASSUME LoadInv, ReceiveHash
    PROVE  \E s : Reached(s) /\ Kept(s)
  <1> DEFINE m == Head(toStation)
             s == HandleHash(pm, m.value)
  <1>1. PmInv(pm) /\ toStation # <<>> /\ m.type = "Hash" /\ Becomes(s)
    BY InvFacts DEF ReceiveHash
  <1>2. 1 \in 1..Len(toStation) /\ m = toStation[1] /\ OfTheHash(pm, m.value) \subseteq OnOffer
    BY <1>1, FirstMessage
  <1>3. setup.firmware = "px4" /\ Pending(pm)
    <2>1. setup.firmware = "px4"
      BY <1>1, <1>2, InvFacts DEF LoadInv, HashesAreOfPx4
    <2>2. begun = "Yes"
      BY <1>1, <2>1 DEF LoadInv, Fresh
    <2> QED  BY <2>1, <2>2 DEF LoadInv
  <1> HIDE DEF m
  <1>4. PmInv(s) /\ Pending(s) /\ Takes(pm, OfTheHash(pm, m.value), NoCache, s)
    BY <1>1, <1>3, HandleHashFacts
  <1> HIDE DEF s
  <1>5. Takes(pm, OnOffer, AutopilotValues(vehicle), s)
    BY <1>2, <1>4, TakesWhatIsOffered
  <1>6. Reached(s)
    BY <1>1, <1>4, <1>5 DEF Reached
  <1>7. Kept(s)
    <2>1. SUFFICES ASSUME pm.complete PROVE s.facts = pm.facts
      BY DEF Kept
    <2>2. \A p \in Params : s.facts[p] = pm.facts[p]
      BY <1>4, <2>1 DEF Takes, OfTheHash
    <2>3. /\ s.facts \in [Params -> Values \cup {NoValue}]
          /\ pm.facts \in [Params -> Values \cup {NoValue}]
      BY <1>1, <1>4 DEF PmInv, PmType
    <2> QED  BY <2>2, <2>3
  <1> QED  BY <1>6, <1>7

LEMMA UserRefreshesReaches ==
    ASSUME LoadInv, UserRefreshes
    PROVE  \E s : Reached(s) /\ Kept(s)
  <1>1. PmInv(pm) /\ pm.complete /\ linked \in BOOLEAN
    BY InvFacts DEF UserRefreshes
  <1>2. CASE Becomes(RefreshAll(pm, AllComponents, AutopilotValues(vehicle)))
    <2> DEFINE contents == AutopilotValues(vehicle)
               s == RefreshAll(pm, AllComponents, contents)
    <2>1. contents \in Contents /\ MayAsk(pm)
      BY <1>1, InvFacts, VehicleValues DEF MayAsk
    <2>2. Becomes(s)
      BY <1>2
    <2> HIDE DEF contents
    <2>3. Refreshed(pm, contents, s)
      BY <1>1, <2>1, RefreshAllFacts
    <2> HIDE DEF s
    <2>4. PmInv(s) /\ Pending(s)
      BY <1>1, <2>3 DEF Refreshed, Quietly, Pending
    <2>5. Takes(pm, OnOffer, contents, s)
      BY <2>3, QuietlySends, SendsTakes DEF Refreshed
    <2>6. Reached(s) /\ Kept(s)
      BY <2>2, <2>3, <2>4, <2>5 DEF Reached, contents, Kept, Refreshed, Quietly
    <2> QED  BY <2>6
  <1>3. ASSUME NEW p \in Params, Becomes(RefreshParameter(pm, p))
        PROVE  \E s : Reached(s) /\ Kept(s)
    <2> DEFINE s == RefreshParameter(pm, p)
    <2>1. PmInv(s) /\ Quietly(pm, NoCache, s)
      BY <1>1, RefreshParameterFacts
    <2>2. Becomes(s)
      BY <1>3
    <2> HIDE DEF s
    <2>3. Pending(s)
      BY <1>1, <2>1 DEF Quietly, Pending
    <2>4. Takes(pm, OnOffer, NoCache, s)
      BY <2>1, QuietlySends, SendsTakes
    <2>5. Takes(pm, OnOffer, AutopilotValues(vehicle), s)
      BY <2>4, TakesWhatIsOffered
    <2>6. Reached(s) /\ Kept(s)
      BY <2>1, <2>2, <2>3, <2>5 DEF Reached, Kept, Quietly
    <2> QED  BY <2>6
  <1> QED  BY <1>2, <1>3 DEF UserRefreshes

-----------------------------------------------------------------------------
(* The invariant of the load                                                  *)

(* What the station's steps have in common but for pm and its requests.       *)
Around ==
    /\ setup' = setup /\ linked' = linked /\ vehicle' = vehicle /\ stream' = stream
    /\ toStation' = toStation \/ (toStation # <<>> /\ toStation' = Tail(toStation))
    /\ troubles' \in 0..MaxEvents /\ requests' \in 0..MaxEvents
    /\ begun' \in {"No", "Yes", "Unheard"}

LEMMA Counters ==
    ASSUME LoadInv
    PROVE  /\ troubles \in 0..MaxEvents /\ requests \in 0..MaxEvents
           /\ Trouble => troubles' \in 0..MaxEvents
           /\ Patience => troubles' \in 0..MaxEvents
           /\ Request => requests' \in 0..MaxEvents /\ requests' = requests + 1
    BY RequestsAssumption DEF LoadInv, TypeOK, Trouble, Patience, Request

LEMMA TailFacts ==
    ASSUME NEW S, NEW q \in Seq(S), q # <<>>
    PROVE  /\ Tail(q) \in Seq(S) /\ Len(q) \in Nat /\ Len(Tail(q)) = Len(q) - 1
           /\ \A i \in 1..Len(Tail(q)) : Tail(q)[i] = q[i + 1] /\ i + 1 \in 1..Len(q)
           /\ 1 \in 1..Len(q) /\ Head(q) = q[1] /\ q[1] \in S
  OBVIOUS

(* The station's steps keep the invariant once its own part is shown.         *)
LEMMA StationKeepsLoadInv ==
    ASSUME LoadInv, Around, Fresh', PmTypeOK', PmInv(pm)', toVehicle' \in Seq(Requests),
           begun' = "Yes" => Pending(pm)',
           wanted' \in [Params -> Values \cup {NoValue}], disputed' \in SUBSET Params
    PROVE  LoadInv'
  <1>1. toStation \in Seq(Messages) /\ toStation' \in Seq(Messages)
    BY InvFacts, TailFacts, ZenonT(60) DEF Around
  <1>2. TypeOK'
    BY <1>1 DEF LoadInv, TypeOK, Around
  <1>3. HashesAreOfPx4'
    <2>1. SUFFICES ASSUME setup.firmware = "apm"
                   PROVE  /\ \A i \in 1..Len(stream) : stream[i] # HashParam
                          /\ \A i \in 1..Len(toStation') : toStation'[i].type # "Hash"
      BY DEF Around, HashesAreOfPx4
    <2>2. /\ \A i \in 1..Len(stream) : stream[i] # HashParam
          /\ \A i \in 1..Len(toStation) : toStation[i].type # "Hash"
      BY <2>1 DEF LoadInv, HashesAreOfPx4
    <2>3. CASE toStation' = toStation
      BY <2>2, <2>3
    <2>4. CASE toStation # <<>> /\ toStation' = Tail(toStation)
      BY <1>1, <2>2, <2>4, TailFacts
    <2> QED  BY <2>2, <2>3, <2>4 DEF Around
  <1> QED  BY <1>2, <1>3 DEF LoadInv

LEMMA ReachedKeepsLoadInv ==
    ASSUME LoadInv, Around, Fresh', NEW s, Reached(s), wanted' = wanted,
           disputed' \in SUBSET Params
    PROVE  LoadInv'
  <1>1. PmInv(s) /\ Becomes(s) /\ (begun' = "Yes" => Pending(s))
    BY DEF Reached
  <1>2. toVehicle \in Seq(Requests) /\ setup' = setup
    BY InvFacts DEF Around
  <1>3. Left(s)
    BY <1>1, <1>2, BecomesFacts
  <1>4. /\ PmTypeOK' /\ PmInv(pm)' /\ toVehicle' \in Seq(Requests)
        /\ begun' = "Yes" => Pending(pm)'
    BY <1>1, <1>3 DEF Left
  <1>5. wanted' \in [Params -> Values \cup {NoValue}]
    BY DEF LoadInv, TypeOK
  <1> QED  BY <1>4, <1>5, StationKeepsLoadInv

LEMMA RequestParametersKeepsLoadInv ==
    ASSUME LoadInv, RequestParameters
    PROVE  LoadInv'
  <1>1. Around
    BY Counters DEF RequestParameters, Around, world
  <1>2. Fresh'
    <2>1. SUFFICES ASSUME setup.firmware = "px4", begun' # "Yes"
                   PROVE  /\ pm'.seen = {} /\ ~pm'.complete /\ ~pm'.initialTimer
                          /\ ~pm'.waitingTimer
                          /\ toVehicle' = <<>> /\ stream' = <<>> /\ toStation' = <<>>
      BY <1>1 DEF Fresh, Around
    <2>2. /\ pm.seen = {} /\ ~pm.complete /\ ~pm.initialTimer /\ ~pm.waitingTimer
          /\ toVehicle = <<>> /\ stream = <<>> /\ toStation = <<>>
      BY <2>1 DEF LoadInv, Fresh, RequestParameters
    <2>3. ~linked
      BY <2>1 DEF RequestParameters
    <2>4. Becomes(pm)
      BY <2>3 DEF RequestParameters, RefreshAll
    <2>5. pm' = [pm EXCEPT !.out = <<>>] /\ toVehicle' = toVehicle
      BY <2>3, <2>4 DEF Becomes
    <2>6. pm'.seen = pm.seen /\ pm'.complete = pm.complete /\ pm'.initialTimer = pm.initialTimer
          /\ pm'.waitingTimer = pm.waitingTimer
      BY <2>5, InvFacts DEF PmType
    <2> QED  BY <2>2, <2>5, <2>6 DEF RequestParameters, world
  <1>3. PICK s : Reached(s)
    BY RequestParametersReaches
  <1>4. wanted' = wanted /\ disputed' \in SUBSET Params
    BY DEF RequestParameters, history, LoadInv, TypeOK
  <1> QED  BY <1>1, <1>2, <1>3, <1>4, ReachedKeepsLoadInv

(* Each of the other steps of the station has a guard that is not met on PX4  *)
(* before the load begins.                                                    *)
LEMMA BegunAlready ==
    ASSUME LoadInv, setup' = setup, begun' = begun,
           \/ pm.initialTimer \/ pm.waitingTimer \/ pm.downloading
           \/ pm.complete \/ toStation # <<>> \/ toVehicle # <<>> \/ stream # <<>>
    PROVE  Fresh'
  <1>1. setup.firmware = "px4" => ~pm.downloading
    BY InvFacts DEF PmInv, Files
  <1> QED  BY <1>1 DEF LoadInv, Fresh

LEMMA SettleFacts ==
    ASSUME LoadInv, NEW s, Settle(s)
    PROVE  disputed' \in SUBSET Params
  BY DEF Settle, LoadInv, TypeOK

LEMMA StationStepKeepsLoadInv ==
    ASSUME LoadInv,
           \/ InitialRequestTimerFires \/ WaitingParamTimerFires \/ DownloadReports
           \/ DownloadEnds \/ ReceiveValue \/ ReceiveHash \/ UserRefreshes
    PROVE  LoadInv'
  <1>1. disputed \in SUBSET Params /\ begun \in {"No", "Yes", "Unheard"}
    BY DEF LoadInv, TypeOK
  <1>2. CASE InitialRequestTimerFires
    <2>1. Around /\ wanted' = wanted /\ disputed' = disputed
      BY <1>1, <1>2, Counters DEF InitialRequestTimerFires, Around, world, history
    <2>2. Fresh'
      BY <1>2, BegunAlready DEF InitialRequestTimerFires
    <2> QED  BY <1>1, <1>2, <2>1, <2>2, InitialRequestTimerReaches, ReachedKeepsLoadInv
  <1>3. CASE WaitingParamTimerFires
    <2>1. Around /\ wanted' = wanted /\ disputed' = disputed
      BY <1>1, <1>3, Counters DEF WaitingParamTimerFires, Around, world, history
    <2>2. Fresh'
      BY <1>3, BegunAlready DEF WaitingParamTimerFires
    <2> QED  BY <1>1, <1>3, <2>1, <2>2, WaitingParamTimerReaches, ReachedKeepsLoadInv
  <1>4. CASE DownloadReports
    <2>1. Around /\ wanted' = wanted /\ disputed' = disputed
      BY <1>1, <1>4, Counters DEF DownloadReports, Around, world, history
    <2>2. Fresh'
      BY <1>4, BegunAlready DEF DownloadReports
    <2> QED  BY <1>1, <1>4, <2>1, <2>2, DownloadReportsReaches, ReachedKeepsLoadInv
  <1>5. CASE DownloadEnds
    <2>1. troubles' \in 0..MaxEvents
      BY <1>5, Counters DEF DownloadEnds
    <2>2. Around /\ wanted' = wanted
      BY <1>1, <1>5, <2>1, Counters DEF DownloadEnds, Around, world
    <2>3. Fresh'
      BY <1>5, BegunAlready DEF DownloadEnds
    <2>4. PICK s : Reached(s) /\ Settle(s)
      BY <1>5, DownloadEndsReaches
    <2> QED  BY <2>2, <2>3, <2>4, SettleFacts, ReachedKeepsLoadInv
  <1>6. CASE ReceiveValue
    <2>1. Around /\ wanted' = wanted
      BY <1>1, <1>6, Counters DEF ReceiveValue, Around
    <2>2. Fresh'
      BY <1>6, BegunAlready DEF ReceiveValue
    <2>3. PICK s : Reached(s) /\ Settle(s)
      BY <1>6, ReceiveValueReaches
    <2> QED  BY <2>1, <2>2, <2>3, SettleFacts, ReachedKeepsLoadInv
  <1>7. CASE ReceiveHash
    <2>1. Around /\ wanted' = wanted /\ disputed' = disputed
      BY <1>1, <1>7, Counters DEF ReceiveHash, Around, history
    <2>2. Fresh'
      BY <1>7, BegunAlready DEF ReceiveHash
    <2> QED  BY <1>1, <1>7, <2>1, <2>2, ReceiveHashReaches, ReachedKeepsLoadInv
  <1>8. CASE UserRefreshes
    <2>1. Around /\ wanted' = wanted /\ disputed' = disputed
      BY <1>1, <1>8, Counters DEF UserRefreshes, Around, world, history
    <2>2. Fresh'
      BY <1>8, BegunAlready DEF UserRefreshes
    <2> QED  BY <1>1, <1>8, <2>1, <2>2, UserRefreshesReaches, ReachedKeepsLoadInv
  <1> QED  BY <1>2, <1>3, <1>4, <1>5, <1>6, <1>7, <1>8

(* A write of the user, with what it leaves behind.                           *)
UserWrote(p, s) ==
    /\ Written(pm, p, requests', s) /\ Becomes(s) /\ Left(s)
    /\ pm.complete /\ pm.facts[p] # NoValue
    /\ requests' = requests + 1 /\ requests' \in Values /\ requests' \in 0..MaxEvents
    /\ wanted' = [wanted EXCEPT ![p] = requests']
    /\ disputed' = IF p[1] \in pm.seen THEN disputed \ {p} ELSE disputed \cup {p}

LEMMA UserWritesFacts ==
    ASSUME LoadInv, UserWrites
    PROVE  \E p \in Params : \E s : UserWrote(p, s)
  <1>1. PmInv(pm) /\ pm.complete /\ toVehicle \in Seq(Requests) /\ setup' = setup
    BY InvFacts DEF UserWrites
  <1>2. requests' = requests + 1 /\ requests' \in 0..MaxEvents
    BY Counters DEF UserWrites
  <1>3. PICK v \in Values : v = requests'
    BY <1>2, RequestsAssumption
  <1>4. PICK p \in Params :
            /\ pm.facts[p] # NoValue
            /\ Becomes(FactRawValueUpdated([pm EXCEPT !.writeFailed = @ \ {p}], p, v))
            /\ wanted' = [wanted EXCEPT ![p] = v]
            /\ disputed' = IF p[1] \in pm.seen THEN disputed \ {p} ELSE disputed \cup {p}
    BY <1>3 DEF UserWrites
  <1> DEFINE s == FactRawValueUpdated([pm EXCEPT !.writeFailed = @ \ {p}], p, v)
  <1>5. Written(pm, p, v, s)
    BY <1>1, FactRawValueUpdatedFacts
  <1>6. Becomes(s)
    BY <1>4
  <1> HIDE DEF s
  <1>7. Left(s)
    BY <1>1, <1>5, <1>6, BecomesFacts DEF Written
  <1>8. UserWrote(p, s)
    BY <1>1, <1>2, <1>3, <1>4, <1>5, <1>6, <1>7 DEF UserWrote
  <1> QED  BY <1>8

LEMMA UserWritesKeepsLoadInv ==
    ASSUME LoadInv, UserWrites
    PROVE  LoadInv'
  <1>1. PICK p \in Params : \E s : UserWrote(p, s)
    BY UserWritesFacts
  <1>2. PICK s : UserWrote(p, s)
    BY <1>1
  <1>3. Around
    BY Counters DEF UserWrites, Around, world, LoadInv, TypeOK
  <1>4. Fresh'
    BY BegunAlready DEF UserWrites
  <1>5. s.complete /\ Left(s)
    BY <1>2 DEF UserWrote, Written
  <1>6. PmTypeOK' /\ PmInv(pm)' /\ toVehicle' \in Seq(Requests) /\ Pending(pm)'
    BY <1>5 DEF Left, Pending
  <1>7. wanted' \in [Params -> Values \cup {NoValue}] /\ disputed' \in SUBSET Params
    BY <1>2 DEF UserWrote, LoadInv, TypeOK
  <1> QED  BY <1>3, <1>4, <1>6, <1>7, StationKeepsLoadInv

(* The vehicle and the link leave the station alone.                          *)
Elsewhere ==
    /\ setup' = setup /\ pm' = pm /\ begun' = begun
    /\ wanted' = wanted /\ disputed' = disputed /\ requests' = requests

LEMMA ElsewhereKeepsLoadInv ==
    ASSUME LoadInv, Elsewhere, Fresh', HashesAreOfPx4',
           linked' \in BOOLEAN, vehicle' \in [Params -> Values],
           stream' \in Seq(Params \cup {HashParam}),
           toVehicle' \in Seq(Requests), toStation' \in Seq(Messages),
           troubles' \in 0..MaxEvents
    PROVE  LoadInv'
  <1>1. PmTypeOK' /\ TypeOK'
    BY ZenonT(60) DEF LoadInv, TypeOK, PmTypeOK, Elsewhere
  <1>2. PmInv(pm)'
    BY DEF LoadInv, Elsewhere, PmInv, Waits, Accounted, Files, Loading, ListDone, DefaultKnown
  <1>3. begun' = "Yes" => Pending(pm)'
    BY DEF LoadInv, Elsewhere, Pending, ListDone, DefaultKnown
  <1> QED  BY <1>1, <1>2, <1>3 DEF LoadInv

(* Without something on its way nothing is fresh.                             *)
LEMMA SomethingUnderWay ==
    ASSUME LoadInv, setup' = setup, begun' = begun,
           toStation # <<>> \/ toVehicle # <<>> \/ stream # <<>> \/ setup.firmware = "apm"
    PROVE  Fresh'
  BY DEF LoadInv, Fresh

(* No hash on ArduPilot's lists.                                              *)
NoHash(listed, sent) ==
    setup.firmware = "apm" =>
        /\ \A i \in 1..Len(listed) : listed[i] # HashParam
        /\ \A i \in 1..Len(sent) : sent[i].type # "Hash"

LEMMA NoHashFacts ==
    ASSUME setup' = setup, NoHash(stream', toStation')
    PROVE  HashesAreOfPx4'
  BY DEF NoHash, HashesAreOfPx4

LEMMA ListFacts ==
    /\ InOrder(Params) \in Seq(Params \cup {HashParam})
    /\ \A i \in 1..Len(InOrder(Params)) : InOrder(Params)[i] # HashParam
    /\ <<HashParam>> \o InOrder(Params) \in Seq(Params \cup {HashParam})
  <1> DEFINE order == InOrder(Params)
  <1>1. order \in Seq(Params)
    BY InOrderFacts
  <1> HIDE DEF order
  <1>2. HashParam \notin Params
    BY ParamFacts DEF HashParam
  <1> HIDE DEF HashParam
  <1>3. \A i \in 1..Len(order) : order[i] # HashParam
    BY <1>1, <1>2
  <1>4. order \in Seq(Params \cup {HashParam}) /\ <<HashParam>> \in Seq(Params \cup {HashParam})
    BY <1>1
  <1>5. <<HashParam>> \o order \in Seq(Params \cup {HashParam})
    BY <1>4
  <1> QED  BY <1>3, <1>4, <1>5 DEF order

LEMMA HandleParamRequestListKeepsLoadInv ==
    ASSUME LoadInv, HandleParamRequestList
    PROVE  LoadInv'
  <1>1. Elsewhere /\ linked' = linked /\ vehicle' = vehicle /\ toStation' = toStation
        /\ troubles' = troubles /\ toVehicle # <<>> /\ toVehicle' = Tail(toVehicle)
    BY DEF HandleParamRequestList, Elsewhere, history
  <1>2. stream' \in Seq(Params \cup {HashParam})
    <2>1. CASE stream' = stream
      BY <2>1, InvFacts
    <2>2. CASE stream' = <<HashParam>> \o InOrder(Params)
      BY <2>2, ListFacts
    <2>3. CASE stream' = <<>> \o InOrder(Params)
      <3>1. stream' = InOrder(Params)
        BY <2>3, ListFacts
      <3> QED  BY <3>1, ListFacts
    <2> QED  BY <2>1, <2>2, <2>3 DEF HandleParamRequestList
  <1>3. NoHash(stream', toStation')
    <2>1. SUFFICES ASSUME setup.firmware = "apm"
                   PROVE  /\ \A i \in 1..Len(stream') : stream'[i] # HashParam
                          /\ \A i \in 1..Len(toStation) : toStation[i].type # "Hash"
      BY <1>1 DEF NoHash
    <2>2. \A i \in 1..Len(stream) : stream[i] # HashParam
      BY <2>1 DEF LoadInv, HashesAreOfPx4
    <2>3. stream' = stream \/ stream' = <<>> \o InOrder(Params)
      BY <2>1 DEF HandleParamRequestList
    <2>4. stream' = stream \/ stream' = InOrder(Params)
      BY <2>3, ListFacts
    <2>5. \A i \in 1..Len(stream') : stream'[i] # HashParam
      BY <2>2, <2>4, ListFacts
    <2> QED  BY <2>1, <2>5 DEF LoadInv, HashesAreOfPx4
  <1>4. toVehicle' \in Seq(Requests)
    BY <1>1, InvFacts, TailFacts
  <1>5. Fresh' /\ HashesAreOfPx4'
    BY <1>1, <1>3, SomethingUnderWay, NoHashFacts DEF Elsewhere
  <1> QED  BY <1>1, <1>2, <1>4, <1>5, InvFacts, Counters, ElsewhereKeepsLoadInv

(* An answer on its way is a message, and not a hash.                         *)
LEMMA AnswerFacts ==
    ASSUME toStation \in Seq(Messages), NEW p \in Params, NEW indexed \in BOOLEAN,
           Answers(p, indexed), vehicle' \in [Params -> Values]
    PROVE  /\ toStation' \in Seq(Messages) /\ Len(toStation') = Len(toStation) + 1
           /\ Len(toStation) \in Nat
           /\ \A i \in 1..Len(toStation) : toStation'[i] = toStation[i]
           /\ LET m == toStation'[Len(toStation) + 1]
              IN m.type = "Value" /\ m.param = p /\ m.value = vehicle'[p]
  <1> DEFINE m == [type |-> "Value", param |-> p, value |-> vehicle'[p], indexed |-> indexed]
  <1>1. m \in Messages /\ m.type = "Value" /\ m.param = p /\ m.value = vehicle'[p]
    BY DEF Messages
  <1>2. toStation' = Append(toStation, m)
    BY DEF Answers
  <1> HIDE DEF m
  <1> QED  BY <1>1, <1>2

LEMMA AnswerIsNoHash ==
    ASSUME LoadInv, NEW p \in Params, NEW indexed \in BOOLEAN,
           Answers(p, indexed), vehicle' \in [Params -> Values],
           NEW listed, NoHash(listed, toStation)
    PROVE  NoHash(listed, toStation')
  <1>1. SUFFICES ASSUME setup.firmware = "apm", NEW i \in 1..Len(toStation')
                 PROVE  toStation'[i].type # "Hash"
    BY DEF NoHash
  <1>2. \A j \in 1..Len(toStation) : toStation[j].type # "Hash"
    BY <1>1 DEF NoHash
  <1> QED  BY <1>1, <1>2, InvFacts, AnswerFacts

LEMMA ParamRequestListWorkerKeepsLoadInv ==
    ASSUME LoadInv, ParamRequestListWorker
    PROVE  LoadInv'
  <1>1. Elsewhere /\ linked' = linked /\ vehicle' = vehicle /\ toVehicle' = toVehicle
        /\ troubles' = troubles /\ stream # <<>> /\ stream' = Tail(stream)
    BY DEF ParamRequestListWorker, Elsewhere, history
  <1>2. /\ stream \in Seq(Params \cup {HashParam}) /\ toStation \in Seq(Messages)
        /\ vehicle \in [Params -> Values] /\ toVehicle \in Seq(Requests)
    BY InvFacts
  <1>3. /\ stream' \in Seq(Params \cup {HashParam})
        /\ \A i \in 1..Len(stream') : stream'[i] = stream[i + 1] /\ i + 1 \in 1..Len(stream)
        /\ 1 \in 1..Len(stream) /\ Head(stream) = stream[1] /\ stream[1] \in Params \cup {HashParam}
    BY <1>1, <1>2, TailFacts
  <1>4. setup.firmware = "apm" => \A i \in 1..Len(stream) : stream[i] # HashParam
    BY DEF LoadInv, HashesAreOfPx4
  <1>5. NoHash(stream', toStation)
    BY <1>3, <1>4 DEF LoadInv, HashesAreOfPx4, NoHash
  <1>6. toStation' \in Seq(Messages) /\ NoHash(stream', toStation')
    <2>1. CASE Head(stream) = HashParam
      <3> DEFINE m == [type |-> "Hash", value |-> Hash(AutopilotValues(vehicle))]
      <3>1. AutopilotValues(vehicle) \in [0..Count[DefaultComponent] - 1 -> Values]
        BY <1>2, VehicleValues DEF Contents, Index
      <3>2. m \in Messages
        BY <3>1 DEF Messages
      <3>3. toStation' = Append(toStation, m)
        BY <2>1 DEF ParamRequestListWorker
      <3> HIDE DEF m
      <3>4. setup.firmware # "apm"
        BY <1>3, <1>4, <2>1
      <3> QED  BY <1>2, <3>2, <3>3, <3>4 DEF NoHash
    <2>2. CASE Head(stream) # HashParam /\ Skipped(Head(stream))
      BY <1>2, <1>5, <2>2 DEF ParamRequestListWorker
    <2>3. CASE Head(stream) # HashParam /\ ~Skipped(Head(stream))
      <3>1. Answers(Head(stream), TRUE) /\ Head(stream) \in Params
        BY <1>3, <2>3 DEF ParamRequestListWorker
      <3> QED  BY <1>1, <1>2, <1>5, <3>1, AnswerFacts, AnswerIsNoHash
    <2> QED  BY <2>1, <2>2, <2>3
  <1>7. Fresh' /\ HashesAreOfPx4'
    BY <1>1, <1>6, SomethingUnderWay, NoHashFacts DEF Elsewhere
  <1> QED  BY <1>1, <1>2, <1>3, <1>6, <1>7, InvFacts, Counters, ElsewhereKeepsLoadInv

LEMMA FirstRequest ==
    ASSUME toVehicle \in Seq(Requests), toVehicle # <<>>
    PROVE  LET m == Head(toVehicle)
           IN /\ 1 \in 1..Len(toVehicle) /\ m = toVehicle[1] /\ m \in Requests
              /\ m.type = "Read" => m.param \in Params
              /\ m.type = "Set" => m.param \in Params /\ m.value \in Values
  <1> DEFINE m == Head(toVehicle)
  <1>1. 1 \in 1..Len(toVehicle) /\ m = toVehicle[1] /\ m \in Requests
    OBVIOUS
  <1> HIDE DEF m
  <1>2. m.type = "Read" => m.param \in Params
    BY <1>1 DEF Requests, HashAnswer
  <1>3. m.type = "Set" => m.param \in Params /\ m.value \in Values
    BY <1>1 DEF Requests, HashAnswer
  <1> QED  BY <1>1, <1>2, <1>3 DEF m

(* The steps that answer a request or lose one, of those that change no list. *)
LEMMA AnsweredKeepsLoadInv ==
    ASSUME LoadInv, Elsewhere, linked' = linked, stream' = stream,
           vehicle' \in [Params -> Values], troubles' \in 0..MaxEvents,
           \/ toVehicle # <<>> /\ toVehicle' = Tail(toVehicle)
           \/ toVehicle' = toVehicle /\ setup.firmware = "apm",
           \/ toStation' = toStation
           \/ \E p \in Params, indexed \in BOOLEAN : Answers(p, indexed)
    PROVE  LoadInv'
  <1>1. /\ stream' \in Seq(Params \cup {HashParam}) /\ toStation \in Seq(Messages)
        /\ toVehicle \in Seq(Requests) /\ linked' \in BOOLEAN
    BY InvFacts
  <1>2. toVehicle' \in Seq(Requests)
    BY <1>1, TailFacts, ZenonT(60)
  <1>3. Fresh'
    BY SomethingUnderWay DEF Elsewhere
  <1>4. NoHash(stream', toStation)
    BY DEF LoadInv, HashesAreOfPx4, NoHash
  <1>5. toStation' \in Seq(Messages) /\ NoHash(stream', toStation')
    <2>1. CASE toStation' = toStation
      BY <1>1, <1>4, <2>1
    <2>2. ASSUME NEW p \in Params, NEW indexed \in BOOLEAN, Answers(p, indexed)
          PROVE  toStation' \in Seq(Messages) /\ NoHash(stream', toStation')
      BY <1>1, <1>4, <2>2, AnswerFacts, AnswerIsNoHash
    <2> QED  BY <2>1, <2>2
  <1>6. HashesAreOfPx4'
    BY <1>5, NoHashFacts DEF Elsewhere
  <1> QED  BY <1>1, <1>2, <1>3, <1>5, <1>6, ElsewhereKeepsLoadInv

LEMMA HandleParamRequestReadKeepsLoadInv ==
    ASSUME LoadInv, HandleParamRequestRead
    PROVE  LoadInv'
  <1>1. Elsewhere /\ linked' = linked /\ vehicle' = vehicle /\ stream' = stream
        /\ troubles' = troubles /\ toVehicle # <<>> /\ toVehicle' = Tail(toVehicle)
    BY DEF HandleParamRequestRead, Elsewhere, history
  <1>2. Head(toVehicle).param \in Params
    BY <1>1, InvFacts, FirstRequest DEF HandleParamRequestRead
  <1>3. \/ toStation' = toStation
        \/ \E p \in Params, indexed \in BOOLEAN : Answers(p, indexed)
    BY <1>2 DEF HandleParamRequestRead
  <1> QED  BY <1>1, <1>3, InvFacts, Counters, AnsweredKeepsLoadInv

LEMMA HandleParamSetKeepsLoadInv ==
    ASSUME LoadInv, HandleParamSet
    PROVE  LoadInv'
  <1>1. Elsewhere /\ linked' = linked /\ stream' = stream
        /\ troubles' = troubles /\ toVehicle # <<>> /\ toVehicle' = Tail(toVehicle)
    BY DEF HandleParamSet, Elsewhere, history
  <1>2. Head(toVehicle).param \in Params /\ Head(toVehicle).value \in Values
    BY <1>1, InvFacts, FirstRequest DEF HandleParamSet
  <1>3. vehicle' \in [Params -> Values]
    BY <1>2, InvFacts DEF HandleParamSet
  <1>4. \E p \in Params, indexed \in BOOLEAN : Answers(p, indexed)
    BY <1>2 DEF HandleParamSet
  <1> QED  BY <1>1, <1>3, <1>4, Counters, AnsweredKeepsLoadInv

LEMMA HandleHashAnswerKeepsLoadInv ==
    ASSUME LoadInv, HandleHashAnswer
    PROVE  LoadInv'
  <1> DEFINE others == {p \in Range(stream) : p[1] # DefaultComponent}
  <1>1. Elsewhere /\ linked' = linked /\ vehicle' = vehicle /\ toStation' = toStation
        /\ troubles' = troubles /\ toVehicle # <<>> /\ toVehicle' = Tail(toVehicle)
        /\ stream' = InOrder(others)
    BY DEF HandleHashAnswer, Elsewhere, history
  <1>2. others \in SUBSET Params
    <2>1. ASSUME NEW p \in Range(stream), p[1] # DefaultComponent PROVE p \in Params
      <3>1. PICK i \in 1..Len(stream) : p = stream[i]
        BY InvFacts DEF Range
      <3>2. p \in Params \cup {HashParam}
        BY <3>1, InvFacts
      <3> QED  BY <2>1, <3>2 DEF HashParam
    <2> QED  BY <2>1
  <1> HIDE DEF others
  <1>3. stream' \in Seq(others) /\ HashParam \notin Params
    BY <1>1, <1>2, InOrderFacts, ParamFacts DEF HashParam
  <1>4. stream' \in Seq(Params \cup {HashParam}) /\ \A i \in 1..Len(stream') : stream'[i] \in Params
    BY <1>2, <1>3
  <1>5. NoHash(stream', toStation')
    BY <1>1, <1>3, <1>4 DEF LoadInv, HashesAreOfPx4, NoHash
  <1>6. toVehicle' \in Seq(Requests)
    BY <1>1, InvFacts, TailFacts
  <1>7. Fresh' /\ HashesAreOfPx4'
    BY <1>1, <1>5, SomethingUnderWay, NoHashFacts DEF Elsewhere
  <1> QED  BY <1>1, <1>4, <1>6, <1>7, InvFacts, Counters, ElsewhereKeepsLoadInv

LEMMA VehicleVolunteersKeepsLoadInv ==
    ASSUME LoadInv, VehicleVolunteers
    PROVE  LoadInv'
  <1>1. Elsewhere /\ linked' = linked /\ vehicle' = vehicle /\ stream' = stream
        /\ toVehicle' = toVehicle /\ setup.firmware = "apm" /\ troubles' \in 0..MaxEvents
    BY Counters DEF VehicleVolunteers, Elsewhere, history
  <1>2. \E p \in Params, indexed \in BOOLEAN : Answers(p, indexed)
    BY DEF VehicleVolunteers
  <1> QED  BY <1>1, <1>2, InvFacts, AnsweredKeepsLoadInv

LEMMA LinkKeepsLoadInv ==
    ASSUME LoadInv, LoseRequest \/ LoseAnswer \/ LinkGoes \/ LinkComes
    PROVE  LoadInv'
  <1>1. CASE LoseRequest
    <2>1. Elsewhere /\ linked' = linked /\ vehicle' = vehicle /\ stream' = stream
          /\ toStation' = toStation /\ toVehicle # <<>> /\ toVehicle' = Tail(toVehicle)
          /\ troubles' \in 0..MaxEvents
      BY <1>1, Counters DEF LoseRequest, Elsewhere, world, history
    <2> QED  BY <2>1, InvFacts, AnsweredKeepsLoadInv
  <1>2. CASE LoseAnswer
    <2>1. Elsewhere /\ linked' = linked /\ vehicle' = vehicle /\ stream' = stream
          /\ toVehicle' = toVehicle /\ toStation # <<>> /\ toStation' = Tail(toStation)
          /\ troubles' \in 0..MaxEvents
      BY <1>2, Counters DEF LoseAnswer, Elsewhere, history
    <2>2. toStation \in Seq(Messages)
      BY InvFacts
    <2>3. toStation' \in Seq(Messages) /\ NoHash(stream', toStation')
      BY <2>1, <2>2, TailFacts DEF LoadInv, HashesAreOfPx4, NoHash
    <2>4. Fresh' /\ HashesAreOfPx4'
      BY <2>1, <2>3, SomethingUnderWay, NoHashFacts DEF Elsewhere
    <2> QED  BY <2>1, <2>3, <2>4, InvFacts, ElsewhereKeepsLoadInv
  <1>3. CASE LinkGoes \/ LinkComes
    <2>1. Elsewhere /\ linked' \in BOOLEAN /\ vehicle' = vehicle /\ stream' = stream
          /\ toVehicle' = toVehicle /\ toStation' = toStation /\ troubles' \in 0..MaxEvents
      BY <1>3, Counters DEF LinkGoes, LinkComes, Elsewhere, world, history
    <2>2. Fresh' /\ HashesAreOfPx4'
      BY <2>1 DEF LoadInv, Fresh, HashesAreOfPx4, Elsewhere
    <2> QED  BY <2>1, <2>2, InvFacts, ElsewhereKeepsLoadInv
  <1> QED  BY <1>1, <1>2, <1>3

LEMMA StutterKeepsLoadInv ==
    ASSUME LoadInv, UNCHANGED vars
    PROVE  LoadInv'
  <1>1. Elsewhere /\ linked' = linked /\ vehicle' = vehicle /\ stream' = stream
        /\ toVehicle' = toVehicle /\ toStation' = toStation /\ troubles' = troubles
    BY DEF vars, Elsewhere
  <1>2. Fresh' /\ HashesAreOfPx4'
    BY <1>1 DEF LoadInv, Fresh, HashesAreOfPx4, Elsewhere
  <1> QED  BY <1>1, <1>2, InvFacts, Counters, ElsewhereKeepsLoadInv

LEMMA StepKeepsLoadInv ==
    ASSUME LoadInv, Next
    PROVE  LoadInv'
  BY RequestParametersKeepsLoadInv, StationStepKeepsLoadInv, UserWritesKeepsLoadInv,
     HandleParamRequestListKeepsLoadInv, HandleParamRequestReadKeepsLoadInv,
     HandleParamSetKeepsLoadInv, HandleHashAnswerKeepsLoadInv,
     ParamRequestListWorkerKeepsLoadInv, VehicleVolunteersKeepsLoadInv,
     LinkKeepsLoadInv DEF Next, Deliver

LEMMA NothingWaitedFor ==
    ASSUME NEW limit
    PROVE  <<>> \in Waiting(limit) /\ DOMAIN <<>> = {}
  <1>1. <<>> \in [{} -> 0..limit]
    OBVIOUS
  <1>2. DOMAIN <<>> = {}
    OBVIOUS
  <1> QED  BY <1>1, <1>2 DEF Waiting

LEMMA NewManagerFacts ==
    ASSUME NEW firmware, NEW file \in Contents \cup {NoCache}
    PROVE  LET s == NewManager(firmware, file)
           IN /\ s \in PmType /\ s.out = <<>> /\ s.batchQueue = {}
              /\ s.seen = {} /\ DOMAIN s.waitingIndex = {} /\ DOMAIN s.waitingName = {}
              /\ DOMAIN s.waitingWrite = {} /\ s.facts = [p \in Params |-> NoValue]
              /\ s.cache = file /\ s.file = NoCache /\ s.tryFtp = (firmware = "apm")
              /\ ~s.complete /\ ~s.initialTimer /\ ~s.waitingTimer
              /\ ~s.downloading /\ ~s.listening
  <1> DEFINE s == NewManager(firmware, file)
  <1>1. PICK e \in Waiting(MaxInitialLoadRetrySingleParam), d \in Waiting(MaxReadWriteRetry),
             q \in Seq(Requests), b \in BOOLEAN, facts \in [Params -> Values \cup {NoValue}] :
            /\ e = <<>> /\ d = <<>> /\ q = <<>> /\ DOMAIN e = {} /\ DOMAIN d = {}
            /\ b = (firmware = "apm") /\ facts = [p \in Params |-> NoValue]
    <2>1. /\ <<>> \in Waiting(MaxInitialLoadRetrySingleParam)
          /\ <<>> \in Waiting(MaxReadWriteRetry) /\ DOMAIN <<>> = {}
      BY NothingWaitedFor
    <2>2. <<>> \in Seq(Requests)
      BY EmptySeq
    <2>3. (firmware = "apm") \in BOOLEAN
      OBVIOUS
    <2>4. [p \in Params |-> NoValue] \in [Params -> Values \cup {NoValue}]
      OBVIOUS
    <2> QED  BY <2>1, <2>2, <2>3, <2>4
  <1>2. 0 \in 0..2 * Cardinality(Params) /\ 0 \in 0..MaxInitialRequestListRetry + 1
    BY ParamsFinite, LimitsAreNumbers
  <1>3. s = [facts |-> facts, seen |-> {}, waitingIndex |-> e, waitingName |-> d,
             waitingWrite |-> d, failedIndex |-> {}, batchActive |-> FALSE, batchQueue |-> {},
             prevReads |-> 0, initialTimer |-> FALSE, waitingTimer |-> FALSE,
             initialRetry |-> 0, lastChance |-> FALSE, complete |-> FALSE, missing |-> FALSE,
             cache |-> file, tryFtp |-> b, downloading |-> FALSE, listening |-> FALSE,
             file |-> NoCache, progress |-> "None", noResponse |-> FALSE,
             writeFailed |-> {}, readFailed |-> {}, hashed |-> FALSE, refused |-> FALSE,
             out |-> q]
    BY <1>1 DEF NewManager
  <1> HIDE DEF s
  <1>4. file \in [Index -> Values \cup {NoValue}] \cup {NoCache}
    BY DEF Contents
  <1>5. s \in PmType
    BY <1>2, <1>3, <1>4 DEF PmType
  <1>6. /\ s.out = <<>> /\ s.batchQueue = {} /\ s.seen = {} /\ DOMAIN s.waitingIndex = {}
        /\ DOMAIN s.waitingName = {} /\ DOMAIN s.waitingWrite = {}
        /\ s.facts = [p \in Params |-> NoValue] /\ s.cache = file /\ s.file = NoCache
    BY <1>1, <1>3
  <1>7. /\ s.tryFtp = (firmware = "apm") /\ ~s.complete /\ ~s.initialTimer /\ ~s.waitingTimer
        /\ ~s.downloading /\ ~s.listening
    BY <1>1, <1>3
  <1> QED  BY <1>5, <1>6, <1>7 DEF s

LEMMA InitLoadInv ==
    ASSUME Init
    PROVE  LoadInv
  <1>1. PICK file \in Contents \cup {NoCache} : pm = NewManager(setup.firmware, file)
    BY RequestsAssumption DEF Init, Contents, Index
  <1>2. /\ pm \in PmType /\ pm.out = <<>> /\ pm.batchQueue = {}
        /\ pm.seen = {} /\ DOMAIN pm.waitingIndex = {} /\ DOMAIN pm.waitingName = {}
        /\ DOMAIN pm.waitingWrite = {} /\ pm.facts = [p \in Params |-> NoValue]
        /\ pm.cache = file /\ pm.tryFtp = (setup.firmware = "apm")
        /\ ~pm.complete /\ ~pm.initialTimer /\ ~pm.waitingTimer
        /\ ~pm.downloading /\ ~pm.listening
    BY <1>1, NewManagerFacts
  <1>3. setup \in Setups /\ setup.firmware \in {"px4", "apm"}
    BY RequestsAssumption DEF Init
  <1>4. /\ begun = "No" /\ linked = TRUE /\ vehicle = [p \in Params |-> FirstValue]
        /\ wanted = [p \in Params |-> NoValue] /\ disputed = {}
        /\ stream = <<>> /\ toVehicle = <<>> /\ toStation = <<>>
        /\ troubles = 0 /\ requests = 0
    BY DEF Init
  <1>5. Waits(pm) /\ Accounted(pm)
    <2>1. Cardinality(pm.batchQueue) <= MaxBatchSize + 1
      BY <1>2, LimitsAreNumbers, FS_EmptySet
    <2> QED  BY <1>2, <2>1 DEF Waits, Accounted
  <1>6. ~DefaultKnown(pm)
    BY <1>2, OwnParams, ParameterAssumption DEF DefaultKnown
  <1>7. Files(pm) /\ Loading(pm)
    BY <1>2, <1>6 DEF Files, Loading
  <1>8. PmInv(pm)
    BY <1>2, <1>5, <1>7 DEF PmInv
  <1>9. Fresh /\ HashesAreOfPx4
    BY <1>2, <1>4 DEF Fresh, HashesAreOfPx4
  <1>10. PmTypeOK
    <2>1. /\ pm.facts \in [Params -> Values \cup {NoValue}]
          /\ pm.seen \in SUBSET Components
          /\ pm.waitingIndex \in Waiting(MaxInitialLoadRetrySingleParam)
          /\ pm.waitingName \in Waiting(MaxReadWriteRetry)
          /\ pm.waitingWrite \in Waiting(MaxReadWriteRetry)
          /\ pm.batchQueue \in SUBSET Indices
          /\ pm.prevReads \in 0..2 * Cardinality(Params)
          /\ pm.initialRetry \in 0..MaxInitialRequestListRetry + 1
          /\ pm.progress \in {"None", "Slow", "Good"}
      BY <1>2 DEF PmType
    <2>2. {pm.failedIndex, pm.writeFailed, pm.readFailed} \subseteq SUBSET Params
      BY <1>2 DEF PmType
    <2>3. {pm.batchActive, pm.initialTimer, pm.waitingTimer, pm.lastChance,
           pm.complete, pm.missing, pm.tryFtp, pm.downloading, pm.listening,
           pm.noResponse, pm.hashed, pm.refused} \subseteq BOOLEAN
      BY <1>2 DEF PmType
    <2> QED  BY <1>2, <1>5, <2>1, <2>2, <2>3 DEF PmTypeOK, Waiting, Indices, Waits
  <1>11. TypeOK
    <2>1. /\ vehicle \in [Params -> Values] /\ wanted \in [Params -> Values \cup {NoValue}]
          /\ linked \in BOOLEAN /\ begun \in {"No", "Yes", "Unheard"} /\ disputed \in SUBSET Params
      BY <1>4, ParameterAssumption
    <2>2. /\ stream \in Seq(Params \cup {HashParam}) /\ toVehicle \in Seq(Requests)
          /\ toStation \in Seq(Messages)
      BY <1>4, EmptySeq
    <2>3. troubles \in 0..MaxEvents /\ requests \in 0..MaxEvents
      BY <1>4, RequestsAssumption
    <2> QED  BY <1>3, <1>10, <2>1, <2>2, <2>3 DEF TypeOK
  <1> QED  BY <1>4, <1>8, <1>9, <1>11 DEF LoadInv

(* The invariant of the load holds in every reachable state.                  *)
THEOREM LoadInvariant == Spec => []LoadInv
  <1>1. Init => LoadInv
    BY InitLoadInv
  <1>2. LoadInv /\ [Next]_vars => LoadInv'
    BY StepKeepsLoadInv, StutterKeepsLoadInv
  <1> QED  BY <1>1, <1>2, PTL DEF Spec

(* From the first request on, until the parameters are ready or the user has  *)
(* been told that nothing answers, a timer runs or a download will call back, *)
(* but for the four gaps the property names: _initialRequestTimeoutTimer,     *)
(* _waitingParamTimeoutTimer and the FTP download hand the wait over.         *)
THEOREM AlwaysWaitsForAnAnswer == Spec => []NeverAbandoned
  <1>1. LoadInv => NeverAbandoned
    <2>1. SUFFICES ASSUME LoadInv, begun = "Yes", ~LoadOver, ~WaitsForAnAnswer
                   PROVE  Stranded
      BY DEF NeverAbandoned, LoadInv
    <2>2. /\ ~pm.complete /\ ~pm.noResponse /\ ~pm.waitingTimer /\ ~pm.initialTimer
          /\ ~(pm.downloading /\ pm.listening)
      BY <2>1 DEF LoadOver, WaitsForAnAnswer
    <2>3. ~pm.listening
      BY <2>1, <2>2, InvFacts DEF PmInv, Files
    <2>4. \/ pm.refused /\ pm.progress # "None"
          \/ pm.hashed /\ pm.seen = {}
          \/ /\ pm.seen # {} /\ ListDone(pm) /\ ~DefaultKnown(pm)
             /\ pm.batchActive /\ ~pm.lastChance
          \/ pm.tryFtp /\ DefaultComponent \in pm.seen /\ ~ListDone(pm)
      BY <2>1, <2>2, <2>3 DEF LoadInv, Pending
    <2> QED  BY <2>1, <2>4 DEF Stranded, Deafened, OnlyHash, OnlyOthers, OthersForgotten
  <1> QED  BY <1>1, LoadInvariant, PTL

(* The steps of the station but the writing of a value.                       *)
Station ==
    \/ RequestParameters \/ InitialRequestTimerFires \/ WaitingParamTimerFires
    \/ DownloadReports \/ DownloadEnds \/ ReceiveValue \/ ReceiveHash \/ UserRefreshes

LEMMA ReachedLeaves ==
    ASSUME LoadInv, NEW s, Reached(s), setup' = setup
    PROVE  Left(s)
  BY InvFacts, BecomesFacts DEF Reached

LEMMA StationReaches ==
    ASSUME LoadInv, Station
    PROVE  \E s : Reached(s) /\ Left(s)
  <1>1. \E s : Reached(s)
    BY RequestParametersReaches, InitialRequestTimerReaches, WaitingParamTimerReaches,
       DownloadReportsReaches, DownloadEndsReaches, ReceiveValueReaches,
       ReceiveHashReaches, UserRefreshesReaches DEF Station
  <1>2. setup' = setup
    BY DEF Station, RequestParameters, InitialRequestTimerFires, WaitingParamTimerFires,
           DownloadReports, DownloadEnds, ReceiveValue, ReceiveHash, UserRefreshes
  <1> QED  BY <1>1, <1>2, ReachedLeaves

LEMMA OthersLeavePm ==
    ASSUME [Next]_vars, ~Station, ~UserWrites
    PROVE  UNCHANGED <<setup, pm, begun>>
  BY DEF Next, Station, Deliver, HandleParamRequestList, HandleParamRequestRead,
         HandleParamSet, HandleHashAnswer, ParamRequestListWorker, VehicleVolunteers,
         LoseRequest, LoseAnswer, LinkGoes, LinkComes, vars

(* The step that reports the parameters ready with none missing has every     *)
(* parameter of every component heard of.                                     *)
THEOREM ReadyWhenComplete == Spec => ReadyMeansComplete
  <1>1. ASSUME LoadInv, [Next]_vars, ~pm.complete, pm'.complete, ~pm'.missing,
               NEW c \in pm'.seen, NEW p \in ParamsOf(c)
        PROVE  pm'.facts[p] # NoValue
    <2>1. Station
      BY <1>1, OthersLeavePm DEF UserWrites
    <2>2. PICK s : Reached(s) /\ Left(s)
      BY <1>1, <2>1, StationReaches
    <2>3. AllKnown(s)
      BY <1>1, <2>2 DEF Reached, Takes, Left, Ready
    <2>4. p \in Params /\ p[1] = c /\ c \in s.seen
      <3>1. s.seen \subseteq Components /\ pm'.seen = s.seen
        BY <2>2 DEF Reached, Left, PmInv, PmType
      <3> QED  BY <1>1, <3>1, OwnParams
    <2> QED  BY <2>2, <2>3, <2>4 DEF AllKnown, Left
  <1>2. LoadInv /\ [Next]_vars =>
            [(~pm.complete /\ pm'.complete /\ ~pm'.missing) =>
                \A c \in pm'.seen : \A p \in ParamsOf(c) : pm'.facts[p] # NoValue]_vars
    BY <1>1
  <1> QED  BY <1>2, LoadInvariant, PTL DEF Spec, ReadyMeansComplete

-----------------------------------------------------------------------------
(* What is written and what the vehicle has, step by step                     *)

(* What is on offer is never of the future, is the first value of a parameter *)
(* never written, and the value of an undisputed write once the vehicle has   *)
(* it.                                                                        *)
LEMMA OffersAreSound ==
    ASSUME LoadInv, ValuesInv, NEW p \in Lasting, NEW v, <<p, v>> \in OnOffer
    PROVE  /\ v \notin Future
           /\ wanted[p] = NoValue => v = FirstValue
           /\ wanted[p] # NoValue /\ p \notin disputed /\ v = wanted[p] => vehicle[p] = wanted[p]
  <1>1. /\ p \in Params /\ NothingOfTheFuture(p)
        /\ wanted[p] = NoValue => NeverWritten(p)
        /\ wanted[p] # NoValue /\ p \notin disputed => Holds(p)
    BY DEF ValuesInv, Lasting
  <1>2. CASE \E i \in 1..Len(toStation) : IsValue(toStation[i], p) /\ toStation[i].value = v
    BY <1>1, <1>2 DEF NothingOfTheFuture, NeverWritten, Holds
  <1>3. CASE InFile(p) /\ v = pm.file[p[2]]
    BY <1>1, <1>3 DEF NothingOfTheFuture, NeverWritten, Holds
  <1>4. CASE /\ ~pm.complete /\ p[1] = DefaultComponent
             /\ \E i \in 1..Len(toStation) : /\ toStation[i].type = "Hash"
                                             /\ p[2] \notin Volatile =>
                                                   v = toStation[i].value[p[2]]
    <2>1. wanted[p] = NoValue
      BY <1>1, <1>4 DEF ValuesInv
    <2>2. v = FirstValue
      BY <1>1, <1>4, <2>1 DEF NeverWritten, Lasting
    <2>3. FirstValue \notin Future
      BY RequestsAssumption DEF LoadInv, TypeOK, Future
    <2> QED  BY <2>1, <2>2, <2>3
  <1>5. \/ \E i \in 1..Len(toStation) : IsValue(toStation[i], p) /\ toStation[i].value = v
        \/ InFile(p) /\ v = pm.file[p[2]]
        \/ /\ ~pm.complete /\ p[1] = DefaultComponent
           /\ \E i \in 1..Len(toStation) : /\ toStation[i].type = "Hash"
                                           /\ p[2] \notin Volatile =>
                                                 v = toStation[i].value[p[2]]
    BY DEF OnOffer
  <1> QED  BY <1>2, <1>3, <1>4, <1>5

(* What is on the link to the vehicle after a step that sends what s has to.  *)
Sent(s) ==
    /\ Len(toVehicle) \in Nat
    /\ \A j \in 1..Len(toVehicle') :
          \/ j \in 1..Len(toVehicle) /\ toVehicle'[j] = toVehicle[j]
          \/ j > Len(toVehicle) /\ (toVehicle'[j].type = "Set" => toVehicle'[j] \in SetsOf(s.out))

LEMMA BecomesSends ==
    ASSUME NEW s, Becomes(s), toVehicle \in Seq(Requests), s.out \in Seq(Requests)
    PROVE  Sent(s)
  <1> DEFINE sent == s.out
  <1>1. Len(toVehicle) \in Nat /\ sent \in Seq(Requests) /\ Len(sent) \in Nat
    OBVIOUS
  <1>2. toVehicle' = toVehicle \/ toVehicle' = toVehicle \o sent
    BY DEF Becomes
  <1>3. \A i \in 1..Len(sent) : sent[i].type = "Set" => sent[i] \in SetsOf(s.out)
    BY DEF SetsOf
  <1> HIDE DEF sent
  <1>4. CASE toVehicle' = toVehicle
    BY <1>1, <1>4 DEF Sent
  <1>5. CASE toVehicle' = toVehicle \o sent
    <2>1. Len(toVehicle') = Len(toVehicle) + Len(sent)
      BY <1>1, <1>5
    <2>2. \A j \in 1..Len(toVehicle') :
              toVehicle'[j] = IF j <= Len(toVehicle) THEN toVehicle[j]
                              ELSE sent[j - Len(toVehicle)]
      BY <1>1, <1>5
    <2>3. \A j \in 1..Len(toVehicle') :
              j > Len(toVehicle) => j - Len(toVehicle) \in 1..Len(sent)
      BY <1>1, <2>1
    <2>4. \A j \in 1..Len(toVehicle') :
              \/ j \in 1..Len(toVehicle) /\ toVehicle'[j] = toVehicle[j]
              \/ /\ j > Len(toVehicle)
                 /\ toVehicle'[j].type = "Set" => toVehicle'[j] \in SetsOf(s.out)
      BY <1>1, <1>3, <2>1, <2>2, <2>3, SMTT(60)
    <2> QED  BY <1>1, <2>4 DEF Sent
  <1> QED  BY <1>2, <1>4, <1>5

(* The facts change to what is on offer, but not away from a write that stays *)
(* undisputed.                                                                *)
Respects(s) ==
    /\ disputed \subseteq disputed'
    /\ \A p \in Params : wanted[p] # NoValue /\ p \notin disputed' /\ pm.facts[p] = wanted[p] =>
           s.facts[p] = wanted[p]

LEMMA ReachedKeepsValues ==
    ASSUME LoadInv, ValuesInv, Around, NEW s, Reached(s), Left(s), Respects(s), wanted' = wanted,
           requests' \in {requests, requests + 1}, troubles' + requests' <= MaxEvents
    PROVE  ValuesInv'
  <1> DEFINE contents == AutopilotValues(vehicle)
  <1>1. Takes(pm, OnOffer, contents, s) /\ Becomes(s) /\ PmInv(s)
    BY DEF Reached
  <1>2. /\ pm'.facts = s.facts /\ pm'.file = s.file /\ pm'.waitingWrite = s.waitingWrite
        /\ pm'.writeFailed = s.writeFailed /\ pm'.complete = s.complete
    BY DEF Left
  <1>3. Sent(s)
    BY <1>1, InvFacts, BecomesSends DEF PmInv, PmType
  <1>4. Future' \subseteq Future
    BY Counters DEF Future
  <1>5. /\ s.file \in {pm.file, contents, NoCache}
        /\ \A p \in Params : s.facts[p] = pm.facts[p] \/ <<p, s.facts[p]>> \in OnOffer
        /\ DOMAIN s.waitingWrite \subseteq DOMAIN pm.waitingWrite
        /\ \A p \in DOMAIN pm.waitingWrite \cup pm.writeFailed :
              p \in DOMAIN s.waitingWrite \cup s.writeFailed \/ <<p, s.facts[p]>> \in OnOffer
        /\ pm.complete => s.complete
    BY <1>1 DEF Takes
  <1>6. \A m \in SetsOf(s.out) : m.param \in DOMAIN s.waitingWrite /\ m.value = s.facts[m.param]
    <2>1. SetsOf(pm.out) = {}
      <3>1. pm.out = <<>> /\ Len(<<>>) = 0
        BY InvFacts
      <3> QED  BY <3>1 DEF SetsOf
    <2> QED  BY <1>1, <2>1 DEF Takes
  <1>7. /\ Len(toStation) \in Nat
        /\ \A i \in 1..Len(toStation') :
              \E j \in 1..Len(toStation) : toStation'[i] = toStation[j]
    <2>1. toStation \in Seq(Messages)
      BY InvFacts
    <2>2. CASE toStation' = toStation
      BY <2>1, <2>2
    <2>3. CASE toStation # <<>> /\ toStation' = Tail(toStation)
      BY <2>1, <2>3, TailFacts
    <2> QED  BY <2>1, <2>2, <2>3 DEF Around
  <1>8. \A p \in Params : p[1] = DefaultComponent => contents[p[2]] = vehicle[p]
    BY InvFacts, VehicleValues
  <1>9. vehicle' = vehicle
    BY DEF Around
  <1> HIDE DEF contents
  <1>10. ASSUME NEW p \in Lasting
         PROVE  /\ NothingOfTheFuture(p)'
                /\ wanted'[p] = NoValue => NeverWritten(p)'
                /\ wanted'[p] # NoValue /\ p \notin disputed' => Holds(p)'
    <2>1. /\ p \in Params /\ NothingOfTheFuture(p)
          /\ wanted[p] = NoValue => NeverWritten(p)
          /\ wanted[p] # NoValue /\ p \notin disputed => Holds(p)
      BY DEF ValuesInv, Lasting
    <2>2. \A v : <<p, v>> \in OnOffer =>
            /\ v \notin Future
            /\ wanted[p] = NoValue => v = FirstValue
            /\ wanted[p] # NoValue /\ p \notin disputed /\ v = wanted[p] => vehicle[p] = wanted[p]
      BY OffersAreSound
    <2>3. s.facts[p] = pm.facts[p] \/ <<p, s.facts[p]>> \in OnOffer
      BY <1>5, <2>1
    <2>4. InFile(p)' => \/ InFile(p) /\ pm'.file[p[2]] = pm.file[p[2]]
                        \/ pm'.file[p[2]] = vehicle[p]
      BY <1>2, <1>5, <1>8, <2>1 DEF InFile
    <2>5. \A j \in 1..Len(toVehicle') : IsSet(toVehicle'[j], p) =>
              \/ j \in 1..Len(toVehicle) /\ toVehicle'[j] = toVehicle[j]
              \/ /\ j > Len(toVehicle) /\ p \in DOMAIN s.waitingWrite
                 /\ toVehicle'[j].value = s.facts[p]
      BY <1>3, <1>6 DEF Sent, IsSet
    <2>6. NothingOfTheFuture(p)'
      <3>1. vehicle'[p] \notin Future' /\ s.facts[p] \notin Future'
        BY <1>4, <1>9, <2>1, <2>2, <2>3 DEF NothingOfTheFuture
      <3>2. InFile(p)' => pm'.file[p[2]] \notin Future'
        BY <1>4, <2>1, <2>4 DEF NothingOfTheFuture
      <3>3. \A j \in 1..Len(toVehicle') :
                IsSet(toVehicle'[j], p) => toVehicle'[j].value \notin Future'
        BY <1>4, <2>1, <2>5, <3>1 DEF NothingOfTheFuture
      <3>4. \A i \in 1..Len(toStation') :
                IsValue(toStation'[i], p) => toStation'[i].value \notin Future'
        BY <1>4, <1>7, <2>1 DEF NothingOfTheFuture
      <3> QED  BY <1>2, <3>1, <3>2, <3>3, <3>4 DEF NothingOfTheFuture
    <2>7. ASSUME wanted[p] = NoValue PROVE NeverWritten(p)'
      <3>1. NeverWritten(p)
        BY <2>1, <2>7
      <3>2. /\ vehicle'[p] = FirstValue /\ s.facts[p] \in {NoValue, FirstValue}
            /\ InFile(p)' => pm'.file[p[2]] = FirstValue
            /\ p \notin DOMAIN s.waitingWrite
        BY <1>5, <1>9, <2>2, <2>3, <2>4, <2>7, <3>1 DEF NeverWritten
      <3>3. \A j \in 1..Len(toVehicle') : ~IsSet(toVehicle'[j], p)
        BY <2>5, <3>1, <3>2 DEF NeverWritten
      <3>4. \A i \in 1..Len(toStation') :
                IsValue(toStation'[i], p) => toStation'[i].value = FirstValue
        BY <1>7, <3>1 DEF NeverWritten
      <3>5. p[1] = DefaultComponent =>
                \A i \in 1..Len(toStation') : toStation'[i].type = "Hash" =>
                    toStation'[i].value[p[2]] = FirstValue
        BY <1>7, <3>1 DEF NeverWritten
      <3> QED  BY <1>2, <3>2, <3>3, <3>4, <3>5 DEF NeverWritten
    <2>8. ASSUME wanted[p] # NoValue, p \notin disputed' PROVE Holds(p)'
      <3>1. Holds(p) /\ p \notin disputed
        BY <2>1, <2>8 DEF Respects
      <3>2. s.facts[p] = wanted[p]
        BY <2>1, <2>8, <3>1 DEF Respects, Holds
      <3>3. InFile(p)' /\ pm'.file[p[2]] = wanted[p] => vehicle[p] = wanted[p]
        BY <2>4, <3>1 DEF Holds
      <3>4. \A i \in 1..Len(toStation') :
                IsValue(toStation'[i], p) /\ toStation'[i].value = wanted[p] =>
                    vehicle[p] = wanted[p]
        BY <1>7, <3>1 DEF Holds
      <3>5. ASSUME NEW j \in 1..Len(toVehicle'), IsSet(toVehicle'[j], p)
            PROVE  /\ vehicle[p] = wanted[p] => toVehicle'[j].value = wanted[p]
                   /\ \A i \in 1..(j - 1) :
                          IsSet(toVehicle'[i], p) /\ toVehicle'[i].value = wanted[p] =>
                              toVehicle'[j].value = wanted[p]
        <4>1. CASE toVehicle'[j].value = s.facts[p]
          BY <3>2, <4>1
        <4>2. CASE j \in 1..Len(toVehicle) /\ toVehicle'[j] = toVehicle[j]
          <5>1. \A i \in 1..(j - 1) : toVehicle'[i] = toVehicle[i]
            BY <1>3, <3>5, <4>2 DEF Sent
          <5> QED  BY <3>1, <3>5, <4>2, <5>1 DEF Holds
        <4> QED  BY <2>5, <3>5, <4>1, <4>2
      <3>6. vehicle[p] = wanted[p] \/ p \in DOMAIN s.waitingWrite \cup s.writeFailed
        BY <1>5, <2>2, <2>8, <3>1, <3>2 DEF Holds
      <3> QED  BY <1>2, <1>9, <3>2, <3>3, <3>4, <3>5, <3>6 DEF Holds
    <2> QED  BY <2>6, <2>7, <2>8
  <1>11. (\E p \in Params : wanted'[p] # NoValue) => pm'.complete
    BY <1>2, <1>5 DEF ValuesInv
  <1> QED  BY <1>10, <1>11 DEF ValuesInv

(* Steps that keep the facts while a write can be disputed, and those that    *)
(* settle it.                                                                 *)
LEMMA KeptRespects ==
    ASSUME ValuesInv, NEW s, Kept(s), disputed' = disputed
    PROVE  Respects(s)
  BY DEF ValuesInv, Kept, Respects

LEMMA SettleRespects ==
    ASSUME NEW s, Settle(s)
    PROVE  Respects(s)
  BY DEF Settle, Respects

LEMMA Bounds ==
    ASSUME LoadInv, ValuesInv
    PROVE  /\ troubles + requests <= MaxEvents /\ requests \in {requests, requests + 1}
           /\ Patience => troubles' + requests <= MaxEvents
           /\ Trouble => troubles' + requests <= MaxEvents
           /\ Request => /\ troubles + requests' <= MaxEvents
                         /\ requests' \in {requests, requests + 1}
    BY Counters, RequestsAssumption DEF ValuesInv, Trouble, Patience, Request

LEMMA StationKeepsValues ==
    ASSUME LoadInv, ValuesInv, Station
    PROVE  ValuesInv'
  <1>1. ASSUME NEW s, Reached(s), Respects(s), Around, wanted' = wanted,
               requests' \in {requests, requests + 1}, troubles' + requests' <= MaxEvents
        PROVE  ValuesInv'
    <2>1. Left(s)
      BY <1>1, ReachedLeaves DEF Around
    <2> QED  BY <1>1, <2>1, ReachedKeepsValues
  <1>2. begun \in {"No", "Yes", "Unheard"}
    BY InvFacts
  <1>3. CASE RequestParameters
    <2>1. Around /\ wanted' = wanted /\ disputed' = disputed
          /\ troubles' = troubles /\ requests' = requests
      BY <1>3, Counters DEF RequestParameters, Around, world, history
    <2> QED  BY <1>1, <1>3, <2>1, RequestParametersReaches, KeptRespects, Bounds
  <1>4. CASE InitialRequestTimerFires
    <2>1. Around /\ wanted' = wanted /\ disputed' = disputed /\ Patience /\ requests' = requests
      BY <1>2, <1>4, Counters DEF InitialRequestTimerFires, Around, world, history
    <2> QED  BY <1>1, <1>4, <2>1, InitialRequestTimerReaches, KeptRespects, Bounds
  <1>5. CASE WaitingParamTimerFires
    <2>1. Around /\ wanted' = wanted /\ disputed' = disputed /\ Patience /\ requests' = requests
      BY <1>2, <1>5, Counters DEF WaitingParamTimerFires, Around, world, history
    <2> QED  BY <1>1, <1>5, <2>1, WaitingParamTimerReaches, KeptRespects, Bounds
  <1>6. CASE DownloadReports
    <2>1. Around /\ wanted' = wanted /\ disputed' = disputed
          /\ troubles' = troubles /\ requests' = requests
      BY <1>2, <1>6, Counters DEF DownloadReports, Around, world, history
    <2> QED  BY <1>1, <1>6, <2>1, DownloadReportsReaches, KeptRespects, Bounds
  <1>7. CASE DownloadEnds
    <2>1. (troubles' = troubles \/ Trouble) /\ wanted' = wanted /\ requests' = requests
      BY <1>7 DEF DownloadEnds
    <2>2. Around
      BY <1>2, <1>7, <2>1, Counters DEF DownloadEnds, Around, world
    <2>3. troubles' + requests' <= MaxEvents
      BY <2>1, Bounds
    <2>4. requests' \in {requests, requests + 1}
      BY <2>1
    <2> QED  BY <1>1, <1>7, <2>1, <2>2, <2>3, <2>4, DownloadEndsReaches, SettleRespects
  <1>8. CASE ReceiveValue
    <2>1. Around /\ wanted' = wanted /\ troubles' = troubles /\ requests' = requests
      BY <1>2, <1>8, Counters DEF ReceiveValue, Around
    <2> QED  BY <1>1, <1>8, <2>1, ReceiveValueReaches, SettleRespects, Bounds
  <1>9. CASE ReceiveHash
    <2>1. Around /\ wanted' = wanted /\ disputed' = disputed
          /\ troubles' = troubles /\ requests' = requests
      BY <1>2, <1>9, Counters DEF ReceiveHash, Around, history
    <2> QED  BY <1>1, <1>9, <2>1, ReceiveHashReaches, KeptRespects, Bounds
  <1>10. CASE UserRefreshes
    <2>1. Around /\ wanted' = wanted /\ disputed' = disputed /\ troubles' = troubles /\ Request
      BY <1>2, <1>10, Counters DEF UserRefreshes, Around, world, history
    <2> QED  BY <1>1, <1>10, <2>1, UserRefreshesReaches, KeptRespects, Bounds
  <1> QED  BY <1>3, <1>4, <1>5, <1>6, <1>7, <1>8, <1>9, <1>10 DEF Station

(* A write is of a value that is nowhere yet: it is the last request on its   *)
(* way, and waited for if its component has been heard of.                    *)
LEMMA UserWritesKeepsValues ==
    ASSUME LoadInv, ValuesInv, UserWrites
    PROVE  ValuesInv'
  <1>1. PICK q \in Params : \E s : UserWrote(q, s)
    BY UserWritesFacts
  <1>2. PICK s : UserWrote(q, s)
    BY <1>1
  <1>3. /\ Written(pm, q, requests', s) /\ Becomes(s) /\ Left(s)
        /\ pm.complete /\ pm.facts[q] # NoValue
        /\ requests' = requests + 1 /\ requests' \in Values /\ requests' \in 0..MaxEvents
        /\ wanted' = [wanted EXCEPT ![q] = requests']
        /\ disputed' = IF q[1] \in pm.seen THEN disputed \ {q} ELSE disputed \cup {q}
    BY <1>2 DEF UserWrote
  <1>4. vehicle' = vehicle /\ toStation' = toStation /\ troubles' = troubles /\ Request
    BY DEF UserWrites, world
  <1>5. /\ pm'.facts = [pm.facts EXCEPT ![q] = requests'] /\ pm'.file = pm.file
        /\ DOMAIN pm'.waitingWrite = DOMAIN pm.waitingWrite
                                        \cup (IF q[1] \in pm.seen THEN {q} ELSE {})
        /\ pm'.writeFailed = pm.writeFailed \ {q} /\ pm'.complete
    BY <1>3 DEF Written, Left
  <1>6. /\ pm.facts \in [Params -> Values \cup {NoValue}]
        /\ wanted \in [Params -> Values \cup {NoValue}]
        /\ requests \in Nat /\ MaxEvents \in Nat /\ toVehicle \in Seq(Requests)
    BY InvFacts, Counters, RequestsAssumption DEF LoadInv, TypeOK, PmType
  <1> DEFINE m == SetRequest(q, requests')
  <1>7. /\ Len(toVehicle) \in Nat /\ IsSet(m, q) /\ m.value = requests'
        /\ \A p : IsSet(m, p) => p = q
        /\ \A j \in 1..Len(toVehicle') :
              \/ j \in 1..Len(toVehicle) /\ toVehicle'[j] = toVehicle[j]
              \/ j > Len(toVehicle) /\ toVehicle'[j] = m
    <2>1. m \in Requests /\ IsSet(m, q) /\ m.value = requests' /\ \A p : IsSet(m, p) => p = q
      BY <1>3, RequestFacts DEF SetRequest, IsSet
    <2>2. pm.out = <<>> /\ s.out = Append(pm.out, m)
      BY <1>3, InvFacts DEF Written
    <2> HIDE DEF m
    <2>3. s.out = <<m>>
      BY <2>2
    <2>4. toVehicle' = toVehicle \/ toVehicle' = Append(toVehicle, m)
      BY <1>3, <1>6, <2>1, <2>3 DEF Becomes
    <2> QED  BY <1>6, <2>1, <2>4
  <1> HIDE DEF m
  <1>8. Future' \subseteq Future /\ requests' \in Future /\ requests' \notin Future'
    BY <1>3, <1>6 DEF Future
  <1>9. requests' # NoValue
    BY <1>3, ParameterAssumption
  <1>10. ASSUME NEW p \in Lasting
        PROVE  /\ NothingOfTheFuture(p)'
               /\ wanted'[p] = NoValue => NeverWritten(p)'
               /\ wanted'[p] # NoValue /\ p \notin disputed' => Holds(p)'
    <2>1. /\ p \in Params /\ NothingOfTheFuture(p)
          /\ wanted[p] = NoValue => NeverWritten(p)
          /\ wanted[p] # NoValue /\ p \notin disputed => Holds(p)
      BY DEF ValuesInv, Lasting
    <2>2. InFile(p)' = InFile(p)
      BY <1>5 DEF InFile
    <2>3. NothingOfTheFuture(p)'
      <3>1. vehicle'[p] \notin Future' /\ pm'.facts[p] \notin Future'
        BY <1>4, <1>5, <1>6, <1>8, <2>1 DEF NothingOfTheFuture
      <3>2. InFile(p)' => pm'.file[p[2]] \notin Future'
        BY <1>5, <1>8, <2>1, <2>2 DEF NothingOfTheFuture
      <3>3. \A j \in 1..Len(toVehicle') :
                IsSet(toVehicle'[j], p) => toVehicle'[j].value \notin Future'
        BY <1>7, <1>8, <2>1 DEF NothingOfTheFuture
      <3>4. \A i \in 1..Len(toStation') :
                IsValue(toStation'[i], p) => toStation'[i].value \notin Future'
        BY <1>4, <1>8, <2>1 DEF NothingOfTheFuture
      <3> QED  BY <3>1, <3>2, <3>3, <3>4 DEF NothingOfTheFuture
    <2>4. CASE p = q
      <3>1. wanted'[p] = requests' /\ pm'.facts[p] = requests'
        BY <1>3, <1>5, <1>6, <2>4
      <3>2. ASSUME p \notin disputed' PROVE Holds(p)'
        <4>1. p \in DOMAIN pm'.waitingWrite
          BY <1>3, <1>5, <2>4, <3>2
        <4>2. vehicle'[p] # requests'
          BY <1>4, <1>8, <2>1 DEF NothingOfTheFuture
        <4>3. InFile(p)' => pm'.file[p[2]] # requests'
          BY <1>5, <1>8, <2>1, <2>2 DEF NothingOfTheFuture
        <4>4. \A i \in 1..Len(toStation') :
                  IsValue(toStation'[i], p) => toStation'[i].value # requests'
          BY <1>4, <1>8, <2>1 DEF NothingOfTheFuture
        <4>5. ASSUME NEW j \in 1..Len(toVehicle'), IsSet(toVehicle'[j], p),
                     NEW i \in 1..(j - 1), IsSet(toVehicle'[i], p), toVehicle'[i].value = requests'
              PROVE  toVehicle'[j].value = requests'
          <5>1. CASE j > Len(toVehicle)
            BY <1>7, <4>5, <5>1
          <5>2. CASE j \in 1..Len(toVehicle)
            <6>1. i \in 1..Len(toVehicle) /\ i \in 1..Len(toVehicle') /\ toVehicle'[i] = toVehicle[i]
              BY <1>7, <4>5, <5>2
            <6> QED  BY <1>8, <2>1, <4>5, <6>1 DEF NothingOfTheFuture
          <5> QED  BY <1>7, <4>5, <5>1, <5>2
        <4> QED  BY <3>1, <4>1, <4>2, <4>3, <4>4, <4>5 DEF Holds
      <3> QED  BY <1>9, <2>3, <3>1, <3>2
    <2>5. CASE p # q
      <3>1. wanted'[p] = wanted[p] /\ pm'.facts[p] = pm.facts[p]
            /\ (p \in disputed' <=> p \in disputed)
        BY <1>3, <1>5, <1>6, <2>1, <2>5
      <3>2. \A j \in 1..Len(toVehicle') : IsSet(toVehicle'[j], p) =>
                j \in 1..Len(toVehicle) /\ toVehicle'[j] = toVehicle[j]
        BY <1>7, <2>5
      <3>3. ASSUME wanted[p] = NoValue PROVE NeverWritten(p)'
        <4>1. NeverWritten(p)
          BY <2>1, <3>3
        <4>2. \A j \in 1..Len(toVehicle') : ~IsSet(toVehicle'[j], p)
          BY <3>2, <4>1 DEF NeverWritten
        <4>3. p \notin DOMAIN pm'.waitingWrite
          BY <1>5, <2>5, <4>1 DEF NeverWritten
        <4> QED  BY <1>4, <1>5, <2>2, <3>1, <4>1, <4>2, <4>3 DEF NeverWritten
      <3>4. ASSUME wanted[p] # NoValue, p \notin disputed PROVE Holds(p)'
        <4>1. Holds(p)
          BY <2>1, <3>4
        <4>2. ASSUME NEW j \in 1..Len(toVehicle'), IsSet(toVehicle'[j], p)
              PROVE  /\ vehicle[p] = wanted[p] => toVehicle'[j].value = wanted[p]
                     /\ \A i \in 1..(j - 1) :
                            IsSet(toVehicle'[i], p) /\ toVehicle'[i].value = wanted[p] =>
                                toVehicle'[j].value = wanted[p]
          <5>1. j \in 1..Len(toVehicle) /\ toVehicle'[j] = toVehicle[j]
            BY <3>2, <4>2
          <5>2. \A i \in 1..(j - 1) : toVehicle'[i] = toVehicle[i]
            BY <1>7, <4>2, <5>1
          <5> QED  BY <4>1, <4>2, <5>1, <5>2 DEF Holds
        <4>3. vehicle[p] = wanted[p] \/ p \in DOMAIN pm'.waitingWrite \cup pm'.writeFailed
          BY <1>5, <2>5, <4>1 DEF Holds
        <4> QED  BY <1>4, <1>5, <2>2, <3>1, <4>1, <4>2, <4>3 DEF Holds
      <3> QED  BY <2>3, <3>1, <3>3, <3>4
    <2> QED  BY <2>4, <2>5
  <1>11. troubles' + requests' <= MaxEvents
    BY <1>4, Bounds
  <1> QED  BY <1>5, <1>10, <1>11 DEF ValuesInv

(* What the vehicle and the link make of the requests and the messages: the   *)
(* requests in their order, but for the first, and messages that were there   *)
(* or say what the vehicle has.                                               *)
Fewer ==
    /\ Len(toVehicle) \in Nat
    /\ \/ toVehicle' = toVehicle
       \/ /\ Len(toVehicle') = Len(toVehicle) - 1
          /\ \A i \in 1..Len(toVehicle') : toVehicle'[i] = toVehicle[i + 1]

Truthful ==
    \A i \in 1..Len(toStation') :
        \/ \E j \in 1..Len(toStation) : toStation'[i] = toStation[j]
        \/ toStation'[i].type = "Value" /\ toStation'[i].value = vehicle'[toStation'[i].param]
        \/ toStation'[i].type = "Hash" /\ toStation'[i].value = Hash(AutopilotValues(vehicle'))

LEMMA TailIsFewer ==
    ASSUME LoadInv, toVehicle' = toVehicle \/ (toVehicle # <<>> /\ toVehicle' = Tail(toVehicle))
    PROVE  Fewer
  <1>1. toVehicle \in Seq(Requests) /\ Len(toVehicle) \in Nat
    BY InvFacts
  <1>2. CASE toVehicle' = toVehicle
    BY <1>1, <1>2 DEF Fewer
  <1>3. CASE toVehicle # <<>> /\ toVehicle' = Tail(toVehicle)
    BY <1>1, <1>3, TailFacts DEF Fewer
  <1> QED  BY <1>2, <1>3

LEMMA AnswersAreTrue ==
    ASSUME LoadInv, vehicle' \in [Params -> Values],
           \/ toStation' = toStation \/ (toStation # <<>> /\ toStation' = Tail(toStation))
           \/ \E p \in Params, indexed \in BOOLEAN : Answers(p, indexed)
    PROVE  Truthful
  <1>1. toStation \in Seq(Messages) /\ Len(toStation) \in Nat
    BY InvFacts
  <1>2. CASE toStation' = toStation
    BY <1>2 DEF Truthful
  <1>3. CASE toStation # <<>> /\ toStation' = Tail(toStation)
    BY <1>1, <1>3, TailFacts DEF Truthful
  <1>4. ASSUME NEW p \in Params, NEW indexed \in BOOLEAN, Answers(p, indexed)
        PROVE  Truthful
    <2>1. /\ Len(toStation') = Len(toStation) + 1
          /\ \A i \in 1..Len(toStation) : toStation'[i] = toStation[i]
          /\ toStation'[Len(toStation) + 1].type = "Value"
          /\ toStation'[Len(toStation) + 1].param = p
          /\ toStation'[Len(toStation) + 1].value = vehicle'[p]
      BY <1>1, <1>4, AnswerFacts
    <2>2. \A i \in 1..Len(toStation') : i \in 1..Len(toStation) \/ i = Len(toStation) + 1
      BY <1>1, <2>1
    <2> QED  BY <2>1, <2>2 DEF Truthful
  <1> QED  BY <1>2, <1>3, <1>4

(* Every step of the vehicle and the link, but the taking of a write.         *)
LEMMA ElsewhereKeepsValues ==
    ASSUME LoadInv, ValuesInv, Elsewhere, vehicle' = vehicle, Fewer, Truthful,
           troubles' + requests <= MaxEvents
    PROVE  ValuesInv'
  <1>1. Future' = Future /\ pm' = pm /\ wanted' = wanted /\ disputed' = disputed
        /\ requests' = requests
    BY DEF Elsewhere, Future
  <1>2. vehicle \in [Params -> Values]
    BY InvFacts
  <1>3. ASSUME NEW p \in Lasting
        PROVE  /\ NothingOfTheFuture(p)'
               /\ wanted'[p] = NoValue => NeverWritten(p)'
               /\ wanted'[p] # NoValue /\ p \notin disputed' => Holds(p)'
    <2>1. /\ p \in Params /\ NothingOfTheFuture(p)
          /\ wanted[p] = NoValue => NeverWritten(p)
          /\ wanted[p] # NoValue /\ p \notin disputed => Holds(p)
      BY DEF ValuesInv, Lasting
    <2>2. InFile(p)' = InFile(p)
      BY <1>1 DEF InFile
    <2>3. \A i \in 1..Len(toStation') : IsValue(toStation'[i], p) =>
              \/ \E j \in 1..Len(toStation) : toStation'[i] = toStation[j]
              \/ toStation'[i].value = vehicle[p]
      BY DEF Truthful, IsValue
    <2>4. \A i \in 1..Len(toVehicle') :
              \E j \in 1..Len(toVehicle) : toVehicle'[i] = toVehicle[j]
      BY DEF Fewer
    <2>5. NothingOfTheFuture(p)'
      <3>1. \A i \in 1..Len(toStation') :
                IsValue(toStation'[i], p) => toStation'[i].value \notin Future
        BY <2>1, <2>3 DEF NothingOfTheFuture
      <3>2. \A i \in 1..Len(toVehicle') :
                IsSet(toVehicle'[i], p) => toVehicle'[i].value \notin Future
        BY <2>1, <2>4 DEF NothingOfTheFuture
      <3> QED  BY <1>1, <2>1, <2>2, <3>1, <3>2 DEF NothingOfTheFuture
    <2>6. ASSUME wanted[p] = NoValue PROVE NeverWritten(p)'
      <3>1. NeverWritten(p)
        BY <2>1, <2>6
      <3>2. \A i \in 1..Len(toStation') :
                IsValue(toStation'[i], p) => toStation'[i].value = FirstValue
        BY <2>3, <3>1 DEF NeverWritten
      <3>3. \A i \in 1..Len(toVehicle') : ~IsSet(toVehicle'[i], p)
        BY <2>4, <3>1 DEF NeverWritten
      <3>4. ASSUME p[1] = DefaultComponent, NEW i \in 1..Len(toStation'),
                   toStation'[i].type = "Hash"
            PROVE  toStation'[i].value[p[2]] = FirstValue
        <4>1. CASE \E j \in 1..Len(toStation) : toStation'[i] = toStation[j]
          BY <3>1, <3>4, <4>1 DEF NeverWritten
        <4>2. CASE toStation'[i].value = Hash(AutopilotValues(vehicle))
          <5>1. AutopilotValues(vehicle)[p[2]] = vehicle[p]
            BY <1>2, <2>1, <3>4, VehicleValues
          <5>2. p[2] \in 0..Count[DefaultComponent] - 1 /\ p[2] \notin Volatile
            BY <2>1, <3>4, ParamFacts DEF Lasting
          <5>3. Hash(AutopilotValues(vehicle))[p[2]] = AutopilotValues(vehicle)[p[2]]
            BY <5>2 DEF Hash, AutopilotValues
          <5> QED  BY <3>1, <4>2, <5>1, <5>3 DEF NeverWritten
        <4> QED  BY <3>4, <4>1, <4>2 DEF Truthful
      <3> QED  BY <1>1, <2>2, <3>1, <3>2, <3>3, <3>4 DEF NeverWritten
    <2>7. ASSUME wanted[p] # NoValue, p \notin disputed PROVE Holds(p)'
      <3>1. Holds(p)
        BY <2>1, <2>7
      <3>2. \A i \in 1..Len(toStation') :
                IsValue(toStation'[i], p) /\ toStation'[i].value = wanted[p] =>
                    vehicle[p] = wanted[p]
        BY <2>3, <3>1 DEF Holds
      <3>3. ASSUME NEW j \in 1..Len(toVehicle'), IsSet(toVehicle'[j], p)
            PROVE  /\ vehicle[p] = wanted[p] => toVehicle'[j].value = wanted[p]
                   /\ \A i \in 1..(j - 1) :
                          IsSet(toVehicle'[i], p) /\ toVehicle'[i].value = wanted[p] =>
                              toVehicle'[j].value = wanted[p]
        <4>1. CASE toVehicle' = toVehicle
          BY <3>1, <3>3, <4>1 DEF Holds
        <4>2. CASE /\ Len(toVehicle') = Len(toVehicle) - 1
                   /\ \A i \in 1..Len(toVehicle') : toVehicle'[i] = toVehicle[i + 1]
          <5>1. /\ j + 1 \in 1..Len(toVehicle) /\ toVehicle'[j] = toVehicle[j + 1]
                /\ \A i \in 1..(j - 1) : /\ i + 1 \in 1..((j + 1) - 1)
                                         /\ toVehicle'[i] = toVehicle[i + 1]
            BY <3>3, <4>2 DEF Fewer
          <5> QED  BY <3>1, <3>3, <5>1 DEF Holds
        <4> QED  BY <4>1, <4>2 DEF Fewer
      <3> QED  BY <1>1, <2>2, <3>1, <3>2, <3>3 DEF Holds
    <2> QED  BY <1>1, <2>5, <2>6, <2>7
  <1> QED  BY <1>1, <1>3 DEF ValuesInv

(* The vehicle takes a write: all behind it are of the value wanted last, if  *)
(* it is of that.                                                             *)
LEMMA HandleParamSetKeepsValues ==
    ASSUME LoadInv, ValuesInv, HandleParamSet
    PROVE  ValuesInv'
  <1> DEFINE q == Head(toVehicle).param
             v == Head(toVehicle).value
  <1>1. /\ Elsewhere /\ Future' = Future /\ pm' = pm /\ wanted' = wanted
        /\ disputed' = disputed /\ requests' = requests /\ troubles' = troubles
        /\ toVehicle # <<>> /\ toVehicle' = Tail(toVehicle)
        /\ vehicle' = [vehicle EXCEPT ![q] = v] /\ Answers(q, TRUE)
    BY DEF HandleParamSet, Elsewhere, history, Future
  <1>2. /\ 1 \in 1..Len(toVehicle) /\ IsSet(toVehicle[1], q) /\ toVehicle[1].value = v
        /\ q \in Params /\ v \in Values
    BY InvFacts, FirstRequest DEF HandleParamSet, IsSet
  <1> HIDE DEF q, v
  <1>3. /\ vehicle \in [Params -> Values] /\ toVehicle \in Seq(Requests)
        /\ toStation \in Seq(Messages)
    BY InvFacts
  <1>4. vehicle' \in [Params -> Values] /\ vehicle'[q] = v
        /\ \A p \in Params \ {q} : vehicle'[p] = vehicle[p]
    BY <1>1, <1>2, <1>3
  <1>5. /\ Len(toVehicle) \in Nat /\ Len(toVehicle') = Len(toVehicle) - 1
        /\ \A i \in 1..Len(toVehicle') :
              toVehicle'[i] = toVehicle[i + 1] /\ i + 1 \in 1..Len(toVehicle)
    BY <1>1, <1>3, TailFacts
  <1>6. \A i \in 1..Len(toStation') :
            \/ \E j \in 1..Len(toStation) : toStation'[i] = toStation[j]
            \/ toStation'[i].type = "Value" /\ toStation'[i].param = q /\ toStation'[i].value = v
    <2>1. /\ Len(toStation) \in Nat /\ Len(toStation') = Len(toStation) + 1
          /\ \A i \in 1..Len(toStation) : toStation'[i] = toStation[i]
          /\ toStation'[Len(toStation) + 1].type = "Value"
          /\ toStation'[Len(toStation) + 1].param = q
          /\ toStation'[Len(toStation) + 1].value = v
      BY <1>1, <1>2, <1>3, <1>4, AnswerFacts
    <2>2. \A i \in 1..Len(toStation') : i \in 1..Len(toStation) \/ i = Len(toStation) + 1
      BY <2>1
    <2> QED  BY <2>1, <2>2
  <1>7. ASSUME NEW p \in Lasting
        PROVE  /\ NothingOfTheFuture(p)'
               /\ wanted'[p] = NoValue => NeverWritten(p)'
               /\ wanted'[p] # NoValue /\ p \notin disputed' => Holds(p)'
    <2>1. /\ p \in Params /\ NothingOfTheFuture(p)
          /\ wanted[p] = NoValue => NeverWritten(p)
          /\ wanted[p] # NoValue /\ p \notin disputed => Holds(p)
      BY DEF ValuesInv, Lasting
    <2>2. InFile(p)' = InFile(p)
      BY <1>1 DEF InFile
    <2>3. p = q => v \notin Future
      BY <1>2, <2>1 DEF NothingOfTheFuture
    <2>4. NothingOfTheFuture(p)'
      <3>1. vehicle'[p] \notin Future
        BY <1>4, <2>1, <2>3 DEF NothingOfTheFuture
      <3>2. \A i \in 1..Len(toStation') :
                IsValue(toStation'[i], p) => toStation'[i].value \notin Future
        BY <1>6, <2>1, <2>3 DEF NothingOfTheFuture, IsValue
      <3>3. \A i \in 1..Len(toVehicle') :
                IsSet(toVehicle'[i], p) => toVehicle'[i].value \notin Future
        BY <1>5, <2>1 DEF NothingOfTheFuture
      <3> QED  BY <1>1, <2>1, <2>2, <3>1, <3>2, <3>3 DEF NothingOfTheFuture
    <2>5. ASSUME wanted[p] = NoValue PROVE NeverWritten(p)'
      <3>1. NeverWritten(p)
        BY <2>1, <2>5
      <3>2. p # q
        BY <1>2, <3>1 DEF NeverWritten
      <3>3. vehicle'[p] = FirstValue
        BY <1>4, <2>1, <3>1, <3>2 DEF NeverWritten
      <3>4. \A i \in 1..Len(toStation') :
                IsValue(toStation'[i], p) => toStation'[i].value = FirstValue
        BY <1>6, <3>1, <3>2 DEF NeverWritten, IsValue
      <3>5. \A i \in 1..Len(toVehicle') : ~IsSet(toVehicle'[i], p)
        BY <1>5, <3>1 DEF NeverWritten
      <3>6. p[1] = DefaultComponent =>
                \A i \in 1..Len(toStation') : toStation'[i].type = "Hash" =>
                    toStation'[i].value[p[2]] = FirstValue
        BY <1>6, <3>1 DEF NeverWritten
      <3> QED  BY <1>1, <2>2, <3>1, <3>3, <3>4, <3>5, <3>6 DEF NeverWritten
    <2>6. ASSUME wanted[p] # NoValue, p \notin disputed PROVE Holds(p)'
      <3>1. Holds(p)
        BY <2>1, <2>6
      <3>2. \/ vehicle'[p] = vehicle[p] /\ p # q
            \/ p = q /\ vehicle'[p] = wanted[p] /\ v = wanted[p]
            \/ p = q /\ vehicle'[p] # wanted[p] /\ v # wanted[p] /\ vehicle[p] # wanted[p]
        <4>1. p = q /\ vehicle[p] = wanted[p] => v = wanted[p]
          BY <1>2, <3>1 DEF Holds
        <4> QED  BY <1>4, <2>1, <4>1
      <3>3. InFile(p)' /\ pm'.file[p[2]] = wanted[p] => vehicle'[p] = wanted[p]
        BY <1>1, <2>2, <3>1, <3>2 DEF Holds
      <3>4. \A i \in 1..Len(toStation') :
                IsValue(toStation'[i], p) /\ toStation'[i].value = wanted[p] =>
                    vehicle'[p] = wanted[p]
        BY <1>6, <3>1, <3>2 DEF Holds, IsValue
      <3>5. vehicle'[p] = wanted[p] \/ p \in DOMAIN pm.waitingWrite \cup pm.writeFailed
        BY <3>1, <3>2 DEF Holds
      <3>6. ASSUME NEW j \in 1..Len(toVehicle'), IsSet(toVehicle'[j], p)
            PROVE  /\ vehicle'[p] = wanted[p] => toVehicle'[j].value = wanted[p]
                   /\ \A i \in 1..(j - 1) :
                          IsSet(toVehicle'[i], p) /\ toVehicle'[i].value = wanted[p] =>
                              toVehicle'[j].value = wanted[p]
        <4>1. /\ j + 1 \in 1..Len(toVehicle) /\ toVehicle'[j] = toVehicle[j + 1]
              /\ \A i \in 1..(j - 1) : /\ i + 1 \in 1..((j + 1) - 1)
                                       /\ toVehicle'[i] = toVehicle[i + 1]
              /\ 1 \in 1..((j + 1) - 1)
          BY <1>5, <3>6, SMTT(60)
        <4>2. /\ vehicle[p] = wanted[p] => toVehicle[j + 1].value = wanted[p]
              /\ \A i \in 1..((j + 1) - 1) :
                     IsSet(toVehicle[i], p) /\ toVehicle[i].value = wanted[p] =>
                         toVehicle[j + 1].value = wanted[p]
          BY <3>1, <3>6, <4>1 DEF Holds
        <4>3. p = q /\ v = wanted[p] => toVehicle[j + 1].value = wanted[p]
          BY <1>2, <4>1, <4>2
        <4> QED  BY <3>2, <4>1, <4>2, <4>3
      <3> QED  BY <1>1, <3>1, <3>3, <3>4, <3>5, <3>6 DEF Holds
    <2> QED  BY <1>1, <2>4, <2>5, <2>6
  <1>8. troubles' + requests' <= MaxEvents
    BY <1>1, Bounds
  <1> QED  BY <1>1, <1>7, <1>8 DEF ValuesInv

LEMMA VehicleAndLinkKeepValues ==
    ASSUME LoadInv, ValuesInv,
           \/ HandleParamRequestList \/ HandleParamRequestRead \/ HandleHashAnswer
           \/ ParamRequestListWorker \/ VehicleVolunteers
           \/ LoseRequest \/ LoseAnswer \/ LinkGoes \/ LinkComes
    PROVE  ValuesInv'
  <1>1. ASSUME Elsewhere, vehicle' = vehicle, troubles' = troubles \/ Trouble,
               toVehicle' = toVehicle \/ (toVehicle # <<>> /\ toVehicle' = Tail(toVehicle)),
               \/ toStation' = toStation \/ (toStation # <<>> /\ toStation' = Tail(toStation))
               \/ \E p \in Params, indexed \in BOOLEAN : Answers(p, indexed)
        PROVE  ValuesInv'
    <2>1. vehicle' \in [Params -> Values] /\ troubles' + requests <= MaxEvents
      BY <1>1, InvFacts, Bounds
    <2>2. Fewer /\ Truthful
      BY <1>1, <2>1, TailIsFewer, AnswersAreTrue
    <2> QED  BY <1>1, <2>1, <2>2, ElsewhereKeepsValues
  <1>2. CASE HandleParamRequestList
    BY <1>1, <1>2 DEF HandleParamRequestList, Elsewhere, history
  <1>3. CASE HandleParamRequestRead
    <2>1. Elsewhere /\ vehicle' = vehicle /\ troubles' = troubles
          /\ toVehicle # <<>> /\ toVehicle' = Tail(toVehicle)
      BY <1>3 DEF HandleParamRequestRead, Elsewhere, history
    <2>2. Head(toVehicle).param \in Params
      BY <1>3, <2>1, InvFacts, FirstRequest DEF HandleParamRequestRead
    <2>3. \/ toStation' = toStation
          \/ \E p \in Params, indexed \in BOOLEAN : Answers(p, indexed)
      BY <1>3, <2>2 DEF HandleParamRequestRead
    <2> QED  BY <1>1, <2>1, <2>3
  <1>4. CASE HandleHashAnswer
    BY <1>1, <1>4 DEF HandleHashAnswer, Elsewhere, history
  <1>5. CASE ParamRequestListWorker
    <2>1. Elsewhere /\ vehicle' = vehicle /\ troubles' = troubles /\ toVehicle' = toVehicle
      BY <1>5 DEF ParamRequestListWorker, Elsewhere, history
    <2>2. CASE Head(stream) = HashParam
      <3> DEFINE m == [type |-> "Hash", value |-> Hash(AutopilotValues(vehicle))]
      <3>1. toStation' = Append(toStation, m) /\ toStation \in Seq(Messages)
        BY <1>5, <2>2, InvFacts DEF ParamRequestListWorker
      <3>2. m.type = "Hash" /\ m.value = Hash(AutopilotValues(vehicle))
        OBVIOUS
      <3> HIDE DEF m
      <3>3. \A i \in 1..Len(toStation') :
                \/ i \in 1..Len(toStation) /\ toStation'[i] = toStation[i]
                \/ toStation'[i] = m
        BY <3>1
      <3>4. Truthful
        BY <2>1, <3>2, <3>3 DEF Truthful
      <3>5. troubles' + requests <= MaxEvents
        BY <2>1, Bounds
      <3> QED  BY <2>1, <3>4, <3>5, TailIsFewer, ElsewhereKeepsValues
    <2>3. CASE Head(stream) # HashParam
      <3>1. Head(stream) \in Params
        BY <1>5, <2>3, InvFacts, TailFacts DEF ParamRequestListWorker
      <3>2. \/ toStation' = toStation
            \/ \E p \in Params, indexed \in BOOLEAN : Answers(p, indexed)
        BY <1>5, <2>3, <3>1 DEF ParamRequestListWorker
      <3> QED  BY <1>1, <2>1, <3>2
    <2> QED  BY <2>2, <2>3
  <1>6. CASE VehicleVolunteers
    <2>1. \E p \in Params, indexed \in BOOLEAN : Answers(p, indexed)
      BY <1>6 DEF VehicleVolunteers
    <2> QED  BY <1>1, <1>6, <2>1 DEF VehicleVolunteers, Elsewhere, history
  <1>7. CASE LoseRequest \/ LoseAnswer \/ LinkGoes \/ LinkComes
    BY <1>1, <1>7 DEF LoseRequest, LoseAnswer, LinkGoes, LinkComes, Elsewhere, world, history
  <1> QED  BY <1>2, <1>3, <1>4, <1>5, <1>6, <1>7

LEMMA StutterKeepsValues ==
    ASSUME LoadInv, ValuesInv, UNCHANGED vars
    PROVE  ValuesInv'
  <1>1. Elsewhere /\ vehicle' = vehicle /\ toVehicle' = toVehicle
        /\ toStation' = toStation /\ troubles' = troubles
    BY DEF vars, Elsewhere
  <1>2. vehicle' \in [Params -> Values] /\ troubles' + requests <= MaxEvents
    BY <1>1, InvFacts, Bounds
  <1> QED  BY <1>1, <1>2, TailIsFewer, AnswersAreTrue, ElsewhereKeepsValues

LEMMA InitValues ==
    ASSUME Init
    PROVE  ValuesInv
  <1>1. PICK file \in Contents \cup {NoCache} : pm = NewManager(setup.firmware, file)
    BY RequestsAssumption DEF Init, Contents, Index
  <1>2. /\ DOMAIN pm.waitingWrite = {} /\ pm.facts = [p \in Params |-> NoValue]
        /\ pm.file = NoCache
    BY <1>1, NewManagerFacts
  <1>3. /\ vehicle = [p \in Params |-> FirstValue] /\ wanted = [p \in Params |-> NoValue]
        /\ toVehicle = <<>> /\ toStation = <<>> /\ troubles = 0 /\ requests = 0
    BY DEF Init
  <1>4. FirstValue \notin Future /\ NoValue \notin Future /\ 0 + 0 <= MaxEvents
    <2>1. Future \subseteq Values
      BY <1>3, RequestsAssumption DEF Future
    <2> QED  BY <1>3, <2>1, RequestsAssumption, ParameterAssumption DEF Future
  <1>5. ASSUME NEW p \in Lasting PROVE NothingOfTheFuture(p) /\ NeverWritten(p)
    <2>1. p \in Params /\ ~InFile(p)
      BY <1>2 DEF Lasting, InFile
    <2>2. vehicle[p] = FirstValue /\ pm.facts[p] = NoValue
      BY <1>2, <1>3, <2>1
    <2> QED  BY <1>2, <1>3, <1>4, <2>1, <2>2 DEF NothingOfTheFuture, NeverWritten
  <1>6. \A p \in Params : wanted[p] = NoValue
    BY <1>3
  <1> QED  BY <1>3, <1>4, <1>5, <1>6 DEF ValuesInv, Lasting

(* What the station shows is what the vehicle has, but for writes waited for, *)
(* reported as failed or disputed, and volatile values.  A value on its way   *)
(* that is the one written last says that the vehicle has it, so what it      *)
(* takes off _waitingWriteParamNameMap has arrived.                           *)
THEOREM StationAndVehicleAgree == Spec => []FactsAgree
  <1>1. Init => LoadInv /\ ValuesInv
    BY InitLoadInv, InitValues
  <1>2. LoadInv /\ ValuesInv /\ [Next]_vars => LoadInv' /\ ValuesInv'
    <2>1. SUFFICES ASSUME LoadInv, ValuesInv, [Next]_vars PROVE LoadInv' /\ ValuesInv'
      OBVIOUS
    <2>2. LoadInv'
      BY <2>1, StepKeepsLoadInv, StutterKeepsLoadInv
    <2>3. Next => ValuesInv'
      BY <2>1, StationKeepsValues, UserWritesKeepsValues, HandleParamSetKeepsValues,
         VehicleAndLinkKeepValues DEF Next, Station, Deliver
    <2>4. UNCHANGED vars => ValuesInv'
      BY <2>1, StutterKeepsValues
    <2> QED  BY <2>1, <2>2, <2>3, <2>4
  <1>3. LoadInv /\ ValuesInv => FactsAgree
    <2>1. SUFFICES ASSUME ValuesInv, NEW p \in Lasting
                   PROVE  \/ pm.facts[p] \in {NoValue, vehicle[p]}
                          \/ p \in DOMAIN pm.waitingWrite \cup pm.writeFailed \cup disputed
      BY DEF FactsAgree, Lasting
    <2>2. /\ wanted[p] = NoValue => NeverWritten(p)
          /\ wanted[p] # NoValue /\ p \notin disputed => Holds(p)
      BY <2>1 DEF ValuesInv
    <2> QED  BY <2>2 DEF NeverWritten, Holds
  <1> QED  BY <1>1, <1>2, <1>3, PTL DEF Spec
=============================================================================
