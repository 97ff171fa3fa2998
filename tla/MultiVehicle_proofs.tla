------------------------ MODULE MultiVehicle_proofs ------------------------
(* Proofs about MultiVehicle for every set of vehicles, links and kinds of    *)
(* links, whatever the bounds and with links that come and go at any time.    *)
EXTENDS MultiVehicle, SequenceTheorems, FiniteSetTheorems, TLAPS

-----------------------------------------------------------------------------
(* The primary link.                                                         *)

(* What _updatePrimaryLink may choose is a link of the vehicle or none, works *)
(* if any link does, and is a normal one if any normal one works.             *)
LEMMA PrimaryChoice ==
    ASSUME NEW L \in SUBSET Links, NEW lost \in SUBSET (L \ HighLatency),
           NEW p \in L \cup {NoLink}, NEW q \in PrimaryAfter(L, lost, p)
    PROVE  /\ q \in L \cup {NoLink}
           /\ L \ lost # {} =>
                 /\ q \in L \ lost
                 /\ (L \ lost) \ HighLatency # {} => q \notin HighLatency
           /\ p \in (L \ lost) \ HighLatency => q = p
  <1>1. ASSUME BestActive(L \ lost, p) # {}
        PROVE  /\ BestActive(L \ lost, p) \subseteq L \ lost
               /\ (L \ lost) \ HighLatency # {} =>
                     BestActive(L \ lost, p) \cap HighLatency = {}
    BY LinksAssumption DEF BestActive
  <1>2. L \ lost # {} => BestActive(L \ lost, p) # {}
    BY DEF BestActive
  <1>3. CASE StillWorks(L, lost, p)
    BY <1>3 DEF PrimaryAfter, StillWorks
  <1>4. CASE ~StillWorks(L, lost, p) /\ BestActive(L \ lost, p) # {}
    BY <1>1, <1>4 DEF PrimaryAfter, StillWorks
  <1>5. CASE ~StillWorks(L, lost, p) /\ BestActive(L \ lost, p) = {}
    BY <1>2, <1>5 DEF PrimaryAfter, StillWorks
  <1> QED  BY <1>3, <1>4, <1>5

(* The types of what UpdatePrimaryLink assigns.                               *)
PrimaryTypeOK ==
    /\ links \in [Vehicles -> SUBSET Links]
    /\ commLost \in [Vehicles -> SUBSET Links]
    /\ primaryLink \in [Vehicles -> Links \cup {NoLink}]
    /\ control \in [Vehicles -> Controls]
    /\ \A v \in Vehicles :
          /\ commLost[v] \subseteq links[v] \ HighLatency
          /\ primaryLink[v] \in links[v] \cup {NoLink}

(* What a step does to the links of u: where they change the primary link is  *)
(* then a good one, and one that was and is good is kept.                     *)
PrimaryStep(u) ==
    /\ links'[u] # links[u] \/ commLost'[u] # commLost[u] => PrimaryIsGood(u)'
    /\ primaryLink[u] \in Alive(u)' \ HighLatency => primaryLink'[u] = primaryLink[u]

(* A call of _updatePrimaryLink, p being the primary link if v still has it.  *)
LEMMA UpdateStep ==
    ASSUME PrimaryTypeOK,
           NEW v \in Vehicles, NEW L \in SUBSET Links,
           NEW lost \in SUBSET (L \ HighLatency), NEW p \in L \cup {NoLink},
           primaryLink[v] \in L => p = primaryLink[v],
           UpdatePrimaryLink(v, L, lost, p)
    PROVE  PrimaryTypeOK' /\ \A u \in Vehicles : PrimaryStep(u)
  <1>1. PICK q \in PrimaryAfter(L, lost, p) :
            /\ primaryLink' = [primaryLink EXCEPT ![v] = q]
            /\ control' = [control EXCEPT ![v] = ControlAfter(@, p, q)]
    BY DEF UpdatePrimaryLink
  <1>2. /\ links' = [links EXCEPT ![v] = L]
        /\ commLost' = [commLost EXCEPT ![v] = lost]
    BY DEF UpdatePrimaryLink
  <1>3. /\ q \in L \cup {NoLink}
        /\ L \ lost # {} =>
              /\ q \in L \ lost
              /\ (L \ lost) \ HighLatency # {} => q \notin HighLatency
        /\ p \in (L \ lost) \ HighLatency => q = p
    BY <1>1, PrimaryChoice
  <1>4. PrimaryTypeOK'
    <2>1. ControlAfter(control[v], p, q) \in Controls
      BY DEF PrimaryTypeOK, ControlAfter, Controls
    <2> QED  BY <1>1, <1>2, <1>3, <2>1 DEF PrimaryTypeOK
  <1>5. ASSUME NEW u \in Vehicles PROVE PrimaryStep(u)
    <2>1. CASE u = v
      <3>1. links'[v] = L /\ commLost'[v] = lost /\ primaryLink'[v] = q
        BY <1>1, <1>2 DEF PrimaryTypeOK
      <3>2. PrimaryIsGood(v)'
        BY <1>3, <3>1 DEF PrimaryIsGood, Alive
      <3>3. primaryLink[v] \in Alive(v)' \ HighLatency => q = primaryLink[v]
        BY <1>3, <3>1 DEF Alive
      <3> QED  BY <2>1, <3>1, <3>2, <3>3 DEF PrimaryStep
    <2>2. CASE u # v
      BY <1>1, <1>2, <2>2 DEF PrimaryTypeOK, PrimaryStep
    <2> QED  BY <2>1, <2>2
  <1> QED  BY <1>4, <1>5

(* A step that leaves the links and the primary link alone.                   *)
LEMMA StutterStep ==
    ASSUME UNCHANGED <<links, commLost, primaryLink>>
    PROVE  \A u \in Vehicles : PrimaryStep(u)
  BY DEF PrimaryStep

(* A vehicle that loses all its links at once has no primary link then.       *)
LEMMA ClearedStep ==
    ASSUME PrimaryTypeOK, NEW v,
           links' = [links EXCEPT ![v] = {}],
           commLost' = [commLost EXCEPT ![v] = {}],
           primaryLink' = [primaryLink EXCEPT ![v] = NoLink]
    PROVE  \A u \in Vehicles : PrimaryStep(u)
  BY DEF PrimaryTypeOK, PrimaryStep, PrimaryIsGood, Alive

-----------------------------------------------------------------------------
(* The operations on the links of a vehicle.                                 *)

(* Each keeps the types, the marks on links the vehicle has, and the primary  *)
(* link one of them.                                                          *)
LEMMA AddLinkStep ==
    ASSUME LinksTypeOK, NEW v \in Vehicles, NEW l \in Links, AddLink(v, l)
    PROVE  LinksTypeOK' /\ \A u \in Vehicles : PrimaryStep(u)
  <1>1. PrimaryTypeOK
    BY DEF LinksTypeOK, PrimaryTypeOK
  <1>2. /\ links[v] \cup {l} \in SUBSET Links
        /\ commLost[v] \in SUBSET ((links[v] \cup {l}) \ HighLatency)
        /\ primaryLink[v] \in (links[v] \cup {l}) \cup {NoLink}
    BY DEF LinksTypeOK
  <1>3. UpdatePrimaryLink(v, links[v] \cup {l}, commLost[v], primaryLink[v])
    BY DEF AddLink
  <1>4. PrimaryTypeOK' /\ \A u \in Vehicles : PrimaryStep(u)
    BY <1>1, <1>2, <1>3, UpdateStep
  <1>5. open' \in SUBSET Links /\ references' \in [Links -> Nat]
        /\ communicationLost' \in [Vehicles -> BOOLEAN]
        /\ communicationLostEnabled' \in [Vehicles -> BOOLEAN]
    BY DEF LinksTypeOK, AddLink
  <1> QED  BY <1>4, <1>5 DEF LinksTypeOK, PrimaryTypeOK

LEMMA RegainedStep ==
    ASSUME LinksTypeOK, NEW v \in Vehicles, NEW l \in Links, CommRegainedOnLink(v, l)
    PROVE  LinksTypeOK' /\ \A u \in Vehicles : PrimaryStep(u)
  <1>1. PrimaryTypeOK
    BY DEF LinksTypeOK, PrimaryTypeOK
  <1>2. /\ links[v] \in SUBSET Links
        /\ commLost[v] \ {l} \in SUBSET (links[v] \ HighLatency)
        /\ primaryLink[v] \in links[v] \cup {NoLink}
    BY DEF LinksTypeOK
  <1>3. UpdatePrimaryLink(v, links[v], commLost[v] \ {l}, primaryLink[v])
    BY DEF CommRegainedOnLink
  <1>4. PrimaryTypeOK' /\ \A u \in Vehicles : PrimaryStep(u)
    BY <1>1, <1>2, <1>3, UpdateStep
  <1>5. open' \in SUBSET Links /\ references' \in [Links -> Nat]
    BY DEF LinksTypeOK, CommRegainedOnLink
  <1>6. /\ communicationLost' \in [Vehicles -> BOOLEAN]
        /\ communicationLostEnabled' \in [Vehicles -> BOOLEAN]
    BY DEF LinksTypeOK, CommRegainedOnLink
  <1> QED  BY <1>4, <1>5, <1>6 DEF LinksTypeOK, PrimaryTypeOK

(* References are given back, and only links nobody else refers to close.     *)
LEMMA ReferencesStep ==
    ASSUME LinksTypeOK, NEW L \in SUBSET Links, RemoveReferences(L)
    PROVE  open' \in SUBSET Links /\ references' \in [Links -> Nat]
  BY DEF LinksTypeOK, RemoveReferences, LastToLeave

LEMMA RemoveLinkStep ==
    ASSUME LinksTypeOK, NEW v \in Vehicles, NEW l \in Links, RemoveLink(v, l)
    PROVE  LinksTypeOK' /\ \A u \in Vehicles : PrimaryStep(u)
  <1>1. PrimaryTypeOK
    BY DEF LinksTypeOK, PrimaryTypeOK
  <1>2. /\ links[v] \ {l} \in SUBSET Links
        /\ commLost[v] \ {l} \in SUBSET ((links[v] \ {l}) \ HighLatency)
        /\ WithoutRemoved(v, l) \in (links[v] \ {l}) \cup {NoLink}
        /\ primaryLink[v] \in links[v] \ {l} => WithoutRemoved(v, l) = primaryLink[v]
    BY DEF LinksTypeOK, WithoutRemoved
  <1>3. UpdatePrimaryLink(v, links[v] \ {l}, commLost[v] \ {l}, WithoutRemoved(v, l))
    BY DEF RemoveLink
  <1>4. PrimaryTypeOK' /\ \A u \in Vehicles : PrimaryStep(u)
    BY <1>1, <1>2, <1>3, UpdateStep
  <1>5. open' \in SUBSET Links /\ references' \in [Links -> Nat]
    BY ReferencesStep DEF RemoveLink
  <1>6. /\ communicationLost' \in [Vehicles -> BOOLEAN]
        /\ communicationLostEnabled' \in [Vehicles -> BOOLEAN]
    BY DEF LinksTypeOK, RemoveLink
  <1> QED  BY <1>4, <1>5, <1>6 DEF LinksTypeOK, PrimaryTypeOK

LEMMA RemoveAllStep ==
    ASSUME LinksTypeOK, NEW v \in Vehicles, RemoveAllLinks(v)
    PROVE  LinksTypeOK' /\ \A u \in Vehicles : PrimaryStep(u)
  <1>1. \A u \in Vehicles : PrimaryStep(u)
    <2>1. PrimaryTypeOK
      BY DEF LinksTypeOK, PrimaryTypeOK
    <2> QED  BY <2>1, ClearedStep DEF RemoveAllLinks
  <1>2. open' \in SUBSET Links /\ references' \in [Links -> Nat]
    BY ReferencesStep DEF RemoveAllLinks, LinksTypeOK
  <1> QED  BY <1>1, <1>2 DEF LinksTypeOK, RemoveAllLinks

LEMMA MarkLostStep ==
    ASSUME LinksTypeOK, NEW v \in Vehicles, NEW silent \in SUBSET links[v],
           MarkLost(v, silent)
    PROVE  LinksTypeOK' /\ \A u \in Vehicles : PrimaryStep(u)
  <1>1. PrimaryTypeOK
    BY DEF LinksTypeOK, PrimaryTypeOK
  <1>2. /\ links[v] \in SUBSET Links
        /\ commLost[v] \cup silent \in SUBSET (links[v] \ HighLatency)
        /\ primaryLink[v] \in links[v] \cup {NoLink}
    BY DEF LinksTypeOK, MarkLost
  <1>3. UpdatePrimaryLink(v, links[v], commLost[v] \cup silent, primaryLink[v])
    BY DEF MarkLost
  <1>4. PrimaryTypeOK' /\ \A u \in Vehicles : PrimaryStep(u)
    BY <1>1, <1>2, <1>3, UpdateStep
  <1>5. open' \in SUBSET Links /\ references' \in [Links -> Nat]
    BY DEF LinksTypeOK, MarkLost
  <1>6. /\ communicationLost' \in [Vehicles -> BOOLEAN]
        /\ communicationLostEnabled' \in [Vehicles -> BOOLEAN]
    BY DEF LinksTypeOK, MarkLost, TotalLoss
  <1> QED  BY <1>4, <1>5, <1>6 DEF LinksTypeOK, PrimaryTypeOK

LEMMA ForgetStep ==
    ASSUME LinksTypeOK, NEW v, ForgetLinks(v)
    PROVE  LinksTypeOK' /\ \A u \in Vehicles : PrimaryStep(u)
  <1>1. \A u \in Vehicles : PrimaryStep(u)
    <2>1. PrimaryTypeOK
      BY DEF LinksTypeOK, PrimaryTypeOK
    <2> QED  BY <2>1, ClearedStep DEF ForgetLinks
  <1>2. LinksTypeOK'
    BY DEF LinksTypeOK, ForgetLinks, Controls
  <1> QED  BY <1>1, <1>2

-----------------------------------------------------------------------------
(* Sequences.                                                                *)

LEMMA RemoveAtProperties ==
    ASSUME NEW S, NEW s \in Seq(S), NEW i \in 1 .. Len(s)
    PROVE  /\ RemoveAt(s, i) \in Seq(S)
           /\ Len(RemoveAt(s, i)) = Len(s) - 1
           /\ \A k \in 1 .. Len(s) - 1 :
                 RemoveAt(s, i)[k] = s[IF k < i THEN k ELSE k + 1]
  <1> DEFINE n == Len(s) - 1
             t == [k \in 1 .. n |-> s[IF k < i THEN k ELSE k + 1]]
  <1>1. n \in Nat
    OBVIOUS
  <1>2. t \in [1 .. n -> S]
    <2>1. ASSUME NEW k \in 1 .. n
          PROVE  s[IF k < i THEN k ELSE k + 1] \in S
      OBVIOUS
    <2> QED  BY <2>1
  <1>3. t \in Seq(S)
    <2> HIDE DEF t, n
    <2> QED  BY <1>1, <1>2, SeqDef
  <1>4. Len(t) = n
    <2>1. DOMAIN t = 1 .. n
      OBVIOUS
    <2> HIDE DEF t, n
    <2> QED  BY <1>1, <1>3, <2>1, LenProperties
  <1> QED  BY <1>3, <1>4 DEF RemoveAt

LEMMA RemoveFirst ==
    ASSUME NEW S, NEW s \in Seq(S), s # <<>>
    PROVE  /\ RemoveAt(s, 1) \in Seq(S)
           /\ Len(RemoveAt(s, 1)) = Len(s) - 1
           /\ \A k \in 1 .. Len(s) - 1 : RemoveAt(s, 1)[k] = s[k + 1]
  <1>1. 1 \in 1 .. Len(s)
    OBVIOUS
  <1>2. /\ RemoveAt(s, 1) \in Seq(S)
        /\ Len(RemoveAt(s, 1)) = Len(s) - 1
    BY <1>1, RemoveAtProperties
  <1>3. ASSUME NEW k \in 1 .. Len(s) - 1
        PROVE  RemoveAt(s, 1)[k] = s[k + 1]
    BY DEF RemoveAt
  <1> QED  BY <1>2, <1>3

(* Only v goes, and nobody comes.                                             *)
LEMMA WithoutProperties ==
    ASSUME NEW s \in Seq(Vehicles), NEW v \in Vehicles
    PROVE  /\ Without(s, v) \in Seq(Vehicles)
           /\ ElementsOf(Without(s, v)) \subseteq ElementsOf(s)
           /\ ElementsOf(s) \subseteq ElementsOf(Without(s, v)) \cup {v}
  <1>1. CASE v \in ElementsOf(s)
    <2> DEFINE i == CHOOSE j \in DOMAIN s : s[j] = v
    <2>1. i \in 1 .. Len(s) /\ s[i] = v
      BY <1>1 DEF ElementsOf
    <2> HIDE DEF i
    <2>2. /\ RemoveAt(s, i) \in Seq(Vehicles)
          /\ Len(RemoveAt(s, i)) = Len(s) - 1
          /\ \A k \in 1 .. Len(s) - 1 :
                RemoveAt(s, i)[k] = s[IF k < i THEN k ELSE k + 1]
      BY <2>1, RemoveAtProperties
    <2>3. ElementsOf(RemoveAt(s, i)) \subseteq ElementsOf(s)
      BY <2>1, <2>2 DEF ElementsOf
    <2>4. ASSUME NEW u \in ElementsOf(s), u # v
          PROVE  u \in ElementsOf(RemoveAt(s, i))
      <3>1. PICK k \in 1 .. Len(s) : s[k] = u
        BY DEF ElementsOf
      <3>2. k # i
        BY <2>1, <2>4, <3>1
      <3>3. CASE k < i
        <4>1. k \in 1 .. Len(s) - 1 /\ RemoveAt(s, i)[k] = u
          BY <2>1, <2>2, <3>1, <3>3
        <4> QED  BY <2>2, <4>1 DEF ElementsOf
      <3>4. CASE k > i
        <4>1. k - 1 \in 1 .. Len(s) - 1 /\ RemoveAt(s, i)[k - 1] = u
          BY <2>1, <2>2, <3>1, <3>4
        <4> QED  BY <2>2, <4>1 DEF ElementsOf
      <3> QED  BY <2>1, <3>2, <3>3, <3>4
    <2>5. Without(s, v) = RemoveAt(s, i)
      BY <1>1 DEF Without, i
    <2> QED  BY <2>2, <2>3, <2>4, <2>5
  <1>2. CASE v \notin ElementsOf(s)
    BY <1>2 DEF Without
  <1> QED  BY <1>1, <1>2

LEMMA AppendElements ==
    ASSUME NEW S, NEW s \in Seq(S), NEW e \in S
    PROVE  ElementsOf(Append(s, e)) = ElementsOf(s) \cup {e}
  <1>1. /\ Len(Append(s, e)) = Len(s) + 1
        /\ \A k \in 1 .. Len(s) : Append(s, e)[k] = s[k]
        /\ Append(s, e)[Len(s) + 1] = e
        /\ Append(s, e) \in Seq(S)
    OBVIOUS
  <1>2. DOMAIN s = 1 .. Len(s) /\ DOMAIN Append(s, e) = 1 .. Len(s) + 1
    BY <1>1
  <1>3. ASSUME NEW u \in ElementsOf(s) \cup {e}
        PROVE  u \in ElementsOf(Append(s, e))
    <2>1. Len(s) + 1 \in DOMAIN Append(s, e)
      BY <1>2
    <2>2. CASE u = e
      BY <1>1, <2>1, <2>2 DEF ElementsOf
    <2>3. CASE u \in ElementsOf(s)
      <3>1. PICK k \in 1 .. Len(s) : s[k] = u
        BY <2>3 DEF ElementsOf
      <3>2. k \in DOMAIN Append(s, e) /\ Append(s, e)[k] = u
        BY <1>1, <1>2, <3>1
      <3> QED  BY <3>2 DEF ElementsOf
    <2> QED  BY <2>2, <2>3
  <1>4. ASSUME NEW u \in ElementsOf(Append(s, e))
        PROVE  u \in ElementsOf(s) \cup {e}
    <2>1. PICK k \in 1 .. Len(s) + 1 : Append(s, e)[k] = u
      BY <1>2 DEF ElementsOf
    <2>2. CASE k = Len(s) + 1
      BY <1>1, <2>1, <2>2
    <2>3. CASE k # Len(s) + 1
      <3>1. k \in DOMAIN s /\ s[k] = u
        BY <1>1, <2>1, <2>3
      <3> QED  BY <3>1 DEF ElementsOf
    <2> QED  BY <2>2, <2>3
  <1> QED  BY <1>3, <1>4

-----------------------------------------------------------------------------
(* The timers.                                                               *)

(* at[j] is the timer of the j-th deletion: they are in the order of the      *)
(* deletions, there are no others, and a vehicle that is to be made active    *)
(* by timer k is still there when timer k fires.                              *)
DeletionsAt(at) ==
    /\ at \in [1 .. Len(vehiclesBeingDeleted) -> 1 .. Len(singleShots)]
    /\ \A i, j \in DOMAIN at : i < j => at[i] < at[j]
    /\ \A k \in 1 .. Len(singleShots) :
          singleShots[k] = "Delete" => \E j \in DOMAIN at : at[j] = k
    /\ \A j \in DOMAIN at : singleShots[at[j]] = "Delete"
    /\ \A k \in 1 .. Len(singleShots) : singleShots[k] = "SetActive" =>
          \/ vehicleBeingSetActive \in Connected
          \/ \E j \in DOMAIN at :
                at[j] > k /\ vehiclesBeingDeleted[j] = vehicleBeingSetActive

TimersMatch == \E at \in [1 .. Len(vehiclesBeingDeleted) -> 1 .. Len(singleShots)] :
                  DeletionsAt(at)

ManagerTypeOK ==
    /\ vehicles \in Seq(Vehicles) /\ vehiclesBeingDeleted \in Seq(Vehicles)
    /\ activeVehicle \in Vehicles \cup {NoVehicle}
    /\ activeVehicleAvailable \in BOOLEAN
    /\ vehicleBeingSetActive \in Vehicles \cup {NoVehicle}
    /\ singleShots \in Seq({"SetActive", "Delete"})

(* The invariant of the manager: ActiveIsAlive needs to know which timer      *)
(* deletes which vehicle, ActiveWhenAny that none is deleted without one.     *)
ManagerInv ==
    /\ ManagerTypeOK
    /\ TimersMatch
    /\ activeVehicle \in Existing \cup {NoVehicle}
    /\ ActiveWhenAny

(* A vehicle that is to be made active exists.                                *)
LEMMA NextActiveExists ==
    ASSUME ManagerInv
    PROVE  ActiveIsAlive
  <1>1. PICK at \in [1 .. Len(vehiclesBeingDeleted) -> 1 .. Len(singleShots)] :
            DeletionsAt(at)
    BY DEF ManagerInv, TimersMatch
  <1>2. ASSUME "SetActive" \in ElementsOf(singleShots)
        PROVE  vehicleBeingSetActive \in Existing
    <2>1. PICK k \in 1 .. Len(singleShots) : singleShots[k] = "SetActive"
      BY <1>2 DEF ElementsOf, ManagerInv, ManagerTypeOK
    <2>2. CASE vehicleBeingSetActive \in Connected
      BY <2>2 DEF Existing
    <2>3. CASE vehicleBeingSetActive \notin Connected
      <3>1. PICK j \in DOMAIN at : vehiclesBeingDeleted[j] = vehicleBeingSetActive
        BY <1>1, <2>1, <2>3 DEF DeletionsAt
      <3>2. j \in DOMAIN vehiclesBeingDeleted
        BY DEF ManagerInv, ManagerTypeOK
      <3> QED  BY <3>1, <3>2 DEF Existing, Doomed, ElementsOf
    <2> QED  BY <2>2, <2>3
  <1> QED  BY <1>2 DEF ActiveIsAlive, ManagerInv

(* A timer is started to make a vehicle active that is connected.             *)
LEMMA BeginTimers ==
    ASSUME ManagerInv, NEW v \in Vehicles, v \in Connected', BeginSetActive(v),
           UNCHANGED vehiclesBeingDeleted
    PROVE  /\ TimersMatch'
           /\ singleShots' \in Seq({"SetActive", "Delete"}) /\ singleShots' # <<>>
           /\ vehicleBeingSetActive' \in Vehicles \cup {NoVehicle}
           /\ activeVehicleAvailable' \in BOOLEAN
  <1>1. PICK at \in [1 .. Len(vehiclesBeingDeleted) -> 1 .. Len(singleShots)] :
            DeletionsAt(at)
    BY DEF ManagerInv, TimersMatch
  <1>2. /\ singleShots' = Append(singleShots, "SetActive")
        /\ vehicleBeingSetActive' = v
        /\ singleShots \in Seq({"SetActive", "Delete"})
    BY DEF BeginSetActive, ManagerInv, ManagerTypeOK
  <1>3. /\ Len(singleShots') = Len(singleShots) + 1
        /\ \A k \in 1 .. Len(singleShots) : singleShots'[k] = singleShots[k]
        /\ singleShots'[Len(singleShots) + 1] = "SetActive"
        /\ singleShots' \in Seq({"SetActive", "Delete"}) /\ singleShots' # <<>>
    BY <1>2
  <1>4. at \in [1 .. Len(vehiclesBeingDeleted') -> 1 .. Len(singleShots')]
    BY <1>2, <1>3
  <1>5. DeletionsAt(at)'
    <2>1. \A k \in 1 .. Len(singleShots') :
             singleShots'[k] = "Delete" => \E j \in DOMAIN at : at[j] = k
      BY <1>1, <1>2, <1>3 DEF DeletionsAt
    <2>2. \A j \in DOMAIN at : singleShots'[at[j]] = "Delete"
      BY <1>1, <1>3 DEF DeletionsAt
    <2>3. \A i, j \in DOMAIN at : i < j => at[i] < at[j]
      BY <1>1 DEF DeletionsAt
    <2> QED  BY <1>2, <1>4, <2>1, <2>2, <2>3 DEF DeletionsAt
  <1> QED  BY <1>2, <1>3, <1>4, <1>5 DEF TimersMatch, BeginSetActive, ManagerInv, ManagerTypeOK

(* A vehicle appears, and is to be the active one if it is the only one.      *)
LEMMA AppearStep ==
    ASSUME ManagerInv, NEW v \in Vehicles,
           vehicles' = Append(vehicles, v),
           IF vehicles = <<>> THEN BeginSetActive(v)
           ELSE UNCHANGED <<activeVehicleAvailable, vehicleBeingSetActive, singleShots>>,
           UNCHANGED <<vehiclesBeingDeleted, activeVehicle>>
    PROVE  ManagerInv'
  <1>1. Connected' = Connected \cup {v}
    <2>1. Connected' = ElementsOf(vehicles') /\ Connected = ElementsOf(vehicles)
      BY DEF Connected, ElementsOf
    <2> QED  BY <2>1, AppendElements DEF ManagerInv, ManagerTypeOK
  <1>2. vehicles' \in Seq(Vehicles) /\ vehicles' # <<>>
    BY DEF ManagerInv, ManagerTypeOK
  <1>3. activeVehicle' \in Existing' \cup {NoVehicle}
    BY <1>1 DEF ManagerInv, Existing, Doomed, ElementsOf
  <1>4. CASE vehicles = <<>>
    <2>1. /\ TimersMatch'
          /\ singleShots' \in Seq({"SetActive", "Delete"}) /\ singleShots' # <<>>
          /\ vehicleBeingSetActive' \in Vehicles \cup {NoVehicle}
          /\ activeVehicleAvailable' \in BOOLEAN
      BY <1>1, <1>4, BeginTimers
    <2> QED  BY <1>2, <1>3, <2>1 DEF ManagerInv, ManagerTypeOK, ActiveWhenAny
  <1>5. CASE vehicles # <<>>
    <2>1. UNCHANGED <<activeVehicleAvailable, vehicleBeingSetActive, singleShots>>
      BY <1>5
    <2>2. TimersMatch'
      <3>1. PICK at \in [1 .. Len(vehiclesBeingDeleted) -> 1 .. Len(singleShots)] :
                DeletionsAt(at)
        BY DEF ManagerInv, TimersMatch
      <3>2. DeletionsAt(at)'
        BY <1>1, <2>1, <3>1 DEF DeletionsAt
      <3> QED  BY <2>1, <3>2 DEF TimersMatch
    <2>3. ActiveWhenAny'
      BY <1>1, <1>2, <1>5, <2>1 DEF ManagerInv, ActiveWhenAny
    <2> QED  BY <1>2, <1>3, <2>1, <2>2, <2>3 DEF ManagerInv, ManagerTypeOK
  <1> QED  BY <1>4, <1>5

LEMMA SetActiveStep ==
    ASSUME ManagerInv, NEW v \in Connected, BeginSetActive(v),
           UNCHANGED <<vehicles, vehiclesBeingDeleted, activeVehicle>>
    PROVE  ManagerInv'
  <1>1. v \in Vehicles /\ v \in Connected'
    BY DEF Connected, ElementsOf, ManagerInv, ManagerTypeOK
  <1>2. /\ TimersMatch'
        /\ singleShots' \in Seq({"SetActive", "Delete"}) /\ singleShots' # <<>>
        /\ vehicleBeingSetActive' \in Vehicles \cup {NoVehicle}
        /\ activeVehicleAvailable' \in BOOLEAN
    BY <1>1, BeginTimers
  <1>3. activeVehicle' \in Existing' \cup {NoVehicle}
    BY DEF ManagerInv, Existing, Connected, Doomed, ElementsOf
  <1> QED  BY <1>2, <1>3 DEF ManagerInv, ManagerTypeOK, ActiveWhenAny

(* One more deletion gets the timer that is started last.                     *)
OneMore(at, n, m) == [j \in 1 .. n + 1 |-> IF j = n + 1 THEN m + 1 ELSE at[j]]

LEMMA OneMoreProperties ==
    ASSUME NEW n \in Nat, NEW m \in Nat, NEW at \in [1 .. n -> 1 .. m],
           \A i, j \in 1 .. n : i < j => at[i] < at[j]
    PROVE  /\ OneMore(at, n, m) \in [1 .. n + 1 -> 1 .. m + 1]
           /\ OneMore(at, n, m)[n + 1] = m + 1
           /\ \A j \in 1 .. n : OneMore(at, n, m)[j] = at[j]
           /\ \A i, j \in 1 .. n + 1 :
                 i < j => OneMore(at, n, m)[i] < OneMore(at, n, m)[j]
  <1> DEFINE to == [j \in 1 .. n + 1 |-> IF j = n + 1 THEN m + 1 ELSE at[j]]
  <1> USE DEF OneMore
  <1>1. ASSUME NEW j \in 1 .. n
        PROVE  j \in 1 .. n + 1 /\ j # n + 1 /\ at[j] \in 1 .. m /\ at[j] \in 1 .. m + 1
    OBVIOUS
  <1>2. n + 1 \in 1 .. n + 1 /\ m + 1 \in 1 .. m + 1
    OBVIOUS
  <1>3. to \in [1 .. n + 1 -> 1 .. m + 1]
    <2>1. ASSUME NEW j \in 1 .. n + 1
          PROVE  (IF j = n + 1 THEN m + 1 ELSE at[j]) \in 1 .. m + 1
      OBVIOUS
    <2> QED  BY <2>1
  <1>4. to[n + 1] = m + 1 /\ \A j \in 1 .. n : to[j] = at[j]
    BY <1>1, <1>2
  <1> HIDE DEF to
  <1>5. ASSUME NEW i \in 1 .. n + 1, NEW j \in 1 .. n + 1, i < j
        PROVE  to[i] < to[j]
    <2>1. i \in 1 .. n /\ to[i] = at[i] /\ at[i] \in 1 .. m
      BY <1>4, <1>5
    <2>2. CASE j = n + 1
      BY <1>4, <2>1, <2>2
    <2>3. CASE j # n + 1
      <3>1. j \in 1 .. n /\ to[j] = at[j]
        BY <1>4, <2>3
      <3> QED  BY <1>5, <2>1, <3>1
    <2> QED  BY <2>2, <2>3
  <1> QED  BY <1>3, <1>4, <1>5

(* A vehicle joins those to be deleted: its timer is the last.                *)
LEMMA DeleteStep ==
    ASSUME ManagerInv, NEW v \in Vehicles, v \in Existing, DeleteVehiclePhase1(v)
    PROVE  ManagerInv'
  <1> DEFINE n == Len(vehiclesBeingDeleted)
             m == Len(singleShots)
  <1>1. PICK at \in [1 .. n -> 1 .. m] : DeletionsAt(at)
    BY DEF ManagerInv, TimersMatch
  <1>2. /\ singleShots' = Append(singleShots, "Delete")
        /\ vehiclesBeingDeleted' = Append(vehiclesBeingDeleted, v)
        /\ vehicles' = Without(vehicles, v)
        /\ UNCHANGED <<activeVehicle, vehicleBeingSetActive>>
        /\ activeVehicleAvailable' = FALSE
    BY DEF DeleteVehiclePhase1
  <1>3. /\ singleShots \in Seq({"SetActive", "Delete"})
        /\ vehiclesBeingDeleted \in Seq(Vehicles)
        /\ n \in Nat /\ m \in Nat
    BY DEF ManagerInv, ManagerTypeOK
  <1>4. /\ Len(singleShots') = m + 1
        /\ \A k \in 1 .. m : singleShots'[k] = singleShots[k]
        /\ singleShots'[m + 1] = "Delete"
        /\ singleShots' \in Seq({"SetActive", "Delete"}) /\ singleShots' # <<>>
    BY <1>2, <1>3
  <1>5. /\ Len(vehiclesBeingDeleted') = n + 1
        /\ \A j \in 1 .. n : vehiclesBeingDeleted'[j] = vehiclesBeingDeleted[j]
        /\ vehiclesBeingDeleted'[n + 1] = v
        /\ vehiclesBeingDeleted' \in Seq(Vehicles)
    BY <1>2, <1>3
  <1>6. /\ vehicles' \in Seq(Vehicles)
        /\ Connected' \subseteq Connected
        /\ Connected \subseteq Connected' \cup {v}
    <2>1. Connected' = ElementsOf(vehicles') /\ Connected = ElementsOf(vehicles)
      BY DEF Connected, ElementsOf
    <2> QED  BY <1>2, <2>1, WithoutProperties DEF ManagerInv, ManagerTypeOK
  <1>7. Existing' \subseteq Existing /\ Existing \subseteq Existing'
    <2>1. /\ Doomed' = ElementsOf(vehiclesBeingDeleted')
          /\ Doomed = ElementsOf(vehiclesBeingDeleted)
      BY DEF Doomed, ElementsOf
    <2>2. Doomed' = Doomed \cup {v}
      BY <1>2, <1>3, <2>1, AppendElements
    <2> QED  BY <1>6, <2>2 DEF Existing
  <1>8. PICK to : to = OneMore(at, n, m)
    OBVIOUS
  <1>9. /\ to \in [1 .. n + 1 -> 1 .. m + 1]
        /\ to[n + 1] = m + 1
        /\ \A j \in 1 .. n : to[j] = at[j]
        /\ \A i, j \in 1 .. n + 1 : i < j => to[i] < to[j]
    <2>1. \A i, j \in 1 .. n : i < j => at[i] < at[j]
      BY <1>1 DEF DeletionsAt
    <2>2. n \in Nat /\ m \in Nat
      BY <1>3
    <2> HIDE DEF n, m
    <2> QED  BY <1>8, <2>1, <2>2, OneMoreProperties
  <1>10. DeletionsAt(to)'
    <2>2. \A k \in 1 .. m + 1 :
             singleShots'[k] = "Delete" => \E j \in DOMAIN to : to[j] = k
      <3>1. to[n + 1] = m + 1 /\ n + 1 \in DOMAIN to
        BY <1>3, <1>9
      <3>2. ASSUME NEW k \in 1 .. m, singleShots'[k] = "Delete"
            PROVE  \E j \in DOMAIN to : to[j] = k
        <4>1. PICK j \in 1 .. n : at[j] = k
          BY <1>1, <1>4, <3>2 DEF DeletionsAt
        <4>2. j \in DOMAIN to /\ to[j] = k
          BY <1>3, <1>9, <4>1
        <4> QED  BY <4>2
      <3> QED  BY <1>3, <3>1, <3>2
    <2>3. ASSUME NEW j \in DOMAIN to
          PROVE  singleShots'[to[j]] = "Delete"
      <3>1. CASE j = n + 1
        BY <1>4, <1>9, <3>1
      <3>2. CASE j \in 1 .. n
        <4>1. at[j] \in 1 .. m /\ singleShots[at[j]] = "Delete" /\ to[j] = at[j]
          BY <1>1, <1>9, <3>2 DEF DeletionsAt
        <4> QED  BY <1>4, <4>1
      <3> QED  BY <1>3, <1>9, <3>1, <3>2
    <2>4. ASSUME NEW k \in 1 .. m + 1, singleShots'[k] = "SetActive",
                 vehicleBeingSetActive \notin Connected'
          PROVE  \E j \in DOMAIN to :
                    to[j] > k /\ vehiclesBeingDeleted'[j] = vehicleBeingSetActive
      <3>1. k \in 1 .. m /\ singleShots[k] = "SetActive"
        BY <1>3, <1>4, <2>4
      <3>2. CASE vehicleBeingSetActive \in Connected
        <4>1. vehicleBeingSetActive = v
          BY <1>6, <2>4, <3>2
        <4>2. n + 1 \in DOMAIN to /\ to[n + 1] = m + 1
          BY <1>3, <1>9
        <4> QED  BY <1>3, <1>5, <3>1, <4>1, <4>2
      <3>3. CASE vehicleBeingSetActive \notin Connected
        <4>1. PICK j \in 1 .. n :
                  at[j] > k /\ vehiclesBeingDeleted[j] = vehicleBeingSetActive
          BY <1>1, <3>1, <3>3 DEF DeletionsAt
        <4>2. j \in DOMAIN to /\ to[j] = at[j]
          BY <1>3, <1>9, <4>1
        <4> QED  BY <1>5, <4>1, <4>2
      <3> QED  BY <3>2, <3>3
    <2>5. to \in [1 .. Len(vehiclesBeingDeleted') -> 1 .. Len(singleShots')]
      BY <1>4, <1>5, <1>9
    <2> QED  BY <1>2, <1>4, <1>9, <2>2, <2>3, <2>4, <2>5 DEF DeletionsAt
  <1>11. TimersMatch'
    BY <1>4, <1>5, <1>9, <1>10 DEF TimersMatch
  <1>12. ManagerTypeOK'
    BY <1>2, <1>4, <1>5, <1>6 DEF ManagerInv, ManagerTypeOK
  <1>13. activeVehicle' \in Existing' \cup {NoVehicle}
    BY <1>2, <1>7 DEF ManagerInv
  <1> QED  BY <1>4, <1>11, <1>12, <1>13 DEF ManagerInv, ActiveWhenAny

(* The timers that are left when the first has fired, and d deletions are     *)
(* done.                                                                      *)
OneLess(at, n, d) == [j \in 1 .. n - d |-> at[j + d] - 1]

LEMMA OneLessProperties ==
    ASSUME NEW n \in Nat, NEW m \in Nat, NEW d \in Nat, d <= n,
           NEW at \in [1 .. n -> 1 .. m],
           \A j \in 1 .. n : j > d => at[j] > 1,
           \A i, j \in 1 .. n : i < j => at[i] < at[j]
    PROVE  /\ OneLess(at, n, d) \in [1 .. n - d -> 1 .. m - 1]
           /\ \A j \in 1 .. n - d : OneLess(at, n, d)[j] = at[j + d] - 1
           /\ \A i, j \in 1 .. n - d :
                 i < j => OneLess(at, n, d)[i] < OneLess(at, n, d)[j]
  <1>1. ASSUME NEW j \in 1 .. n - d
        PROVE  j + d \in 1 .. n /\ at[j + d] - 1 \in 1 .. m - 1
    <2>1. j + d \in 1 .. n /\ j + d > d
      OBVIOUS
    <2>2. at[j + d] > 1 /\ at[j + d] \in 1 .. m
      BY <2>1
    <2> QED  BY <2>1, <2>2
  <1> DEFINE to == [j \in 1 .. n - d |-> at[j + d] - 1]
  <1>2. to \in [1 .. n - d -> 1 .. m - 1]
    BY <1>1
  <1>3. \A j \in 1 .. n - d : to[j] = at[j + d] - 1
    OBVIOUS
  <1> HIDE DEF to
  <1>4. ASSUME NEW i \in 1 .. n - d, NEW j \in 1 .. n - d, i < j
        PROVE  to[i] < to[j]
    <2>1. i + d \in 1 .. n /\ j + d \in 1 .. n /\ i + d < j + d
      BY <1>4
    <2>2. at[i + d] < at[j + d] /\ at[i + d] \in 1 .. m /\ at[j + d] \in 1 .. m
      BY <2>1
    <2> QED  BY <1>3, <2>2
  <1> QED  BY <1>2, <1>3, <1>4 DEF OneLess, to

(* The first timer fires, and with it d deletions are done.                   *)
LEMMA FireTimers ==
    ASSUME ManagerInv, singleShots # <<>>, singleShots' = RemoveAt(singleShots, 1),
           NEW d \in {0, 1}, d <= Len(vehiclesBeingDeleted),
           NEW at \in [1 .. Len(vehiclesBeingDeleted) -> 1 .. Len(singleShots)],
           DeletionsAt(at),
           \A j \in 1 .. Len(vehiclesBeingDeleted) : at[j] > 1 <=> j > d,
           Len(vehiclesBeingDeleted') = Len(vehiclesBeingDeleted) - d,
           \A j \in 1 .. Len(vehiclesBeingDeleted) - d :
              vehiclesBeingDeleted'[j] = vehiclesBeingDeleted[j + d],
           UNCHANGED <<vehicles, vehicleBeingSetActive>>
    PROVE  TimersMatch' /\ singleShots' \in Seq({"SetActive", "Delete"})
  <1> DEFINE n == Len(vehiclesBeingDeleted)
             m == Len(singleShots)
  <1>1. /\ singleShots \in Seq({"SetActive", "Delete"})
        /\ vehiclesBeingDeleted \in Seq(Vehicles)
        /\ n \in Nat /\ m \in Nat /\ 1 \in 1 .. m
    BY DEF ManagerInv, ManagerTypeOK
  <1>2. /\ singleShots' \in Seq({"SetActive", "Delete"})
        /\ Len(singleShots') = m - 1
        /\ \A k \in 1 .. m - 1 : singleShots'[k] = singleShots[k + 1]
    <2>1. /\ RemoveAt(singleShots, 1) \in Seq({"SetActive", "Delete"})
          /\ Len(RemoveAt(singleShots, 1)) = m - 1
          /\ \A k \in 1 .. m - 1 : RemoveAt(singleShots, 1)[k] = singleShots[k + 1]
      BY <1>1, RemoveFirst
    <2> QED  BY <2>1
  <1>3. n \in Nat /\ m \in Nat /\ d \in Nat /\ d <= n /\ at \in [1 .. n -> 1 .. m]
    BY <1>1
  <1>4. PICK to : to = OneLess(at, n, d)
    OBVIOUS
  <1>5. /\ to \in [1 .. n - d -> 1 .. m - 1]
        /\ \A j \in 1 .. n - d : to[j] = at[j + d] - 1
        /\ \A i, j \in 1 .. n - d : i < j => to[i] < to[j]
    <2>1. \A i, j \in 1 .. n : i < j => at[i] < at[j]
      BY DEF DeletionsAt
    <2>2. \A j \in 1 .. n : j > d => at[j] > 1
      OBVIOUS
    <2> HIDE DEF n, m
    <2> QED  BY <1>3, <1>4, <2>1, <2>2, OneLessProperties
  <1>6. ASSUME NEW j \in 1 .. n, at[j] > 1
        PROVE  /\ j - d \in 1 .. n - d
               /\ to[j - d] = at[j] - 1
               /\ vehiclesBeingDeleted'[j - d] = vehiclesBeingDeleted[j]
    <2>1. j > d
      BY <1>6
    <2>2. j - d \in 1 .. n - d /\ (j - d) + d = j
      BY <1>3, <2>1
    <2> QED  BY <1>5, <2>2
  <1>7. ASSUME NEW k \in 1 .. m - 1, singleShots'[k] = "Delete"
        PROVE  \E j \in DOMAIN to : to[j] = k
    <2>1. k + 1 \in 1 .. m
      BY <1>3
    <2>2. singleShots[k + 1] = "Delete"
      BY <1>2, <1>7
    <2>3. PICK j \in 1 .. n : at[j] = k + 1
      BY <2>1, <2>2 DEF DeletionsAt
    <2>4. j - d \in 1 .. n - d /\ to[j - d] = at[j] - 1
      BY <1>3, <1>6, <2>3
    <2> QED  BY <1>3, <1>5, <2>3, <2>4
  <1>8. ASSUME NEW j \in 1 .. n - d
        PROVE  singleShots'[to[j]] = "Delete"
    <2>1. j + d \in 1 .. n
      BY <1>3
    <2>2. singleShots[at[j + d]] = "Delete" /\ at[j + d] \in 1 .. m
      BY <1>3, <2>1 DEF DeletionsAt
    <2>3. to[j] \in 1 .. m - 1 /\ to[j] + 1 = at[j + d]
      BY <1>3, <1>5, <2>2
    <2> QED  BY <1>2, <2>2, <2>3
  <1>9. ASSUME NEW k \in 1 .. m - 1, singleShots'[k] = "SetActive",
               vehicleBeingSetActive \notin Connected
        PROVE  \E j \in DOMAIN to :
                  to[j] > k /\ vehiclesBeingDeleted'[j] = vehicleBeingSetActive
    <2>1. k + 1 \in 1 .. m
      BY <1>3
    <2>2. singleShots[k + 1] = "SetActive"
      BY <1>2, <1>9
    <2>3. PICK j \in 1 .. n :
              at[j] > k + 1 /\ vehiclesBeingDeleted[j] = vehicleBeingSetActive
      BY <1>9, <2>1, <2>2 DEF DeletionsAt
    <2>4. /\ j - d \in 1 .. n - d /\ to[j - d] = at[j] - 1
          /\ vehiclesBeingDeleted'[j - d] = vehiclesBeingDeleted[j]
      BY <1>3, <1>6, <2>3
    <2> QED  BY SMTT(30), <1>3, <1>5, <2>3, <2>4
  <1>10. Connected' = Connected
    BY DEF Connected, ElementsOf
  <1>11. to \in [1 .. Len(vehiclesBeingDeleted') -> 1 .. Len(singleShots')]
    BY <1>2, <1>5
  <1>12. DeletionsAt(to)'
    <2>1. \A i, j \in DOMAIN to : i < j => to[i] < to[j]
      BY <1>5
    <2>2. \A j \in DOMAIN to : singleShots'[to[j]] = "Delete"
      BY <1>5, <1>8
    <2>3. \A k \in 1 .. Len(singleShots') :
             singleShots'[k] = "Delete" => \E j \in DOMAIN to : to[j] = k
      BY <1>2, <1>7
    <2>4. \A k \in 1 .. Len(singleShots') : singleShots'[k] = "SetActive" =>
             \/ vehicleBeingSetActive \in Connected
             \/ \E j \in DOMAIN to :
                   to[j] > k /\ vehiclesBeingDeleted'[j] = vehicleBeingSetActive
      BY <1>2, <1>9
    <2> QED  BY <1>10, <1>11, <2>1, <2>2, <2>3, <2>4 DEF DeletionsAt
  <1> QED  BY <1>2, <1>11, <1>12 DEF TimersMatch

(* The first timer makes a vehicle active.                                    *)
LEMMA Phase2ActiveStep ==
    ASSUME ManagerInv, singleShots # <<>>, singleShots[1] = "SetActive",
           singleShots' = RemoveAt(singleShots, 1),
           activeVehicle' = vehicleBeingSetActive,
           activeVehicleAvailable' =
              (activeVehicleAvailable \/ vehicleBeingSetActive # NoVehicle),
           UNCHANGED <<vehicles, vehiclesBeingDeleted, vehicleBeingSetActive>>
    PROVE  ManagerInv'
  <1>1. PICK at \in [1 .. Len(vehiclesBeingDeleted) -> 1 .. Len(singleShots)] :
            DeletionsAt(at)
    BY DEF ManagerInv, TimersMatch
  <1>2. /\ singleShots \in Seq({"SetActive", "Delete"}) /\ 1 \in 1 .. Len(singleShots)
        /\ vehiclesBeingDeleted \in Seq(Vehicles) /\ Len(vehiclesBeingDeleted) \in Nat
    BY DEF ManagerInv, ManagerTypeOK
  <1>3. ASSUME NEW j \in 1 .. Len(vehiclesBeingDeleted)
        PROVE  at[j] > 1
    <2>1. singleShots[at[j]] = "Delete" /\ at[j] \in 1 .. Len(singleShots)
      BY <1>1 DEF DeletionsAt
    <2>2. at[j] # 1
      BY <2>1
    <2> QED  BY <2>1, <2>2
  <1>4. TimersMatch' /\ singleShots' \in Seq({"SetActive", "Delete"})
    <2>1. \A j \in 1 .. Len(vehiclesBeingDeleted) : at[j] > 1 <=> j > 0
      BY <1>3
    <2>2. /\ 0 \in {0, 1} /\ 0 <= Len(vehiclesBeingDeleted)
          /\ Len(vehiclesBeingDeleted') = Len(vehiclesBeingDeleted) - 0
          /\ \A j \in 1 .. Len(vehiclesBeingDeleted) - 0 :
                vehiclesBeingDeleted'[j] = vehiclesBeingDeleted[j + 0]
      BY <1>2
    <2> QED  BY <1>1, <2>1, <2>2, FireTimers
  <1>5. activeVehicle' \in Existing'
    <2>1. "SetActive" \in ElementsOf(singleShots)
      BY <1>2 DEF ElementsOf
    <2>2. vehicleBeingSetActive \in Existing
      BY <2>1, NextActiveExists DEF ActiveIsAlive
    <2> QED  BY <2>2 DEF Existing, Connected, Doomed, ElementsOf
  <1>6. ActiveWhenAny'
    <2> SUFFICES ASSUME singleShots' = <<>>
                 PROVE  activeVehicle' \in
                           (IF vehicles' = <<>> THEN {NoVehicle} ELSE Connected')
      BY DEF ActiveWhenAny
    <2>1. Len(singleShots) = 1
      <3>1. Len(singleShots') = Len(singleShots) - 1
        BY <1>2, RemoveFirst
      <3> QED  BY <1>2, <3>1
    <2>2. \A j \in 1 .. Len(vehiclesBeingDeleted) : FALSE
      BY <1>3, <2>1
    <2>3. vehicleBeingSetActive \in Connected
      BY <1>1, <1>2, <2>2 DEF DeletionsAt
    <2>4. Connected' = Connected /\ vehicles # <<>>
      BY <2>3 DEF Connected, ElementsOf
    <2> QED  BY <2>3, <2>4
  <1> QED  BY <1>4, <1>5, <1>6 DEF ManagerInv, ManagerTypeOK

(* The first timer deletes a vehicle.                                         *)
LEMMA Phase2DeleteStep ==
    ASSUME ManagerInv, singleShots # <<>>, singleShots[1] = "Delete",
           singleShots' = RemoveAt(singleShots, 1),
           activeVehicle' = FirstOfTheOthers,
           vehiclesBeingDeleted' = Tail(vehiclesBeingDeleted),
           UNCHANGED <<vehicles, vehicleBeingSetActive, activeVehicleAvailable>>
    PROVE  ManagerInv'
  <1>1. PICK at \in [1 .. Len(vehiclesBeingDeleted) -> 1 .. Len(singleShots)] :
            DeletionsAt(at)
    BY DEF ManagerInv, TimersMatch
  <1>2. /\ singleShots \in Seq({"SetActive", "Delete"}) /\ 1 \in 1 .. Len(singleShots)
        /\ vehiclesBeingDeleted \in Seq(Vehicles) /\ Len(vehiclesBeingDeleted) \in Nat
    BY DEF ManagerInv, ManagerTypeOK
  <1>3. PICK first \in 1 .. Len(vehiclesBeingDeleted) : at[first] = 1
    BY <1>1, <1>2 DEF DeletionsAt
  <1>4. 1 \in 1 .. Len(vehiclesBeingDeleted) /\ at[1] = 1
    <2>1. 1 \in 1 .. Len(vehiclesBeingDeleted)
      BY <1>2, <1>3
    <2>2. ~(1 < first)
      <3>1. at[1] \in 1 .. Len(singleShots)
        BY <2>1
      <3>2. 1 < first => at[1] < at[first]
        BY <1>1, <2>1 DEF DeletionsAt
      <3> QED  BY <1>3, <3>1, <3>2
    <2>3. first = 1
      BY <1>2, <2>2
    <2> QED  BY <1>3, <2>1, <2>3
  <1>5. \A j \in 1 .. Len(vehiclesBeingDeleted) : at[j] > 1 <=> j > 1
    <2> TAKE j \in 1 .. Len(vehiclesBeingDeleted)
    <2>1. j > 1 => at[1] < at[j]
      BY <1>1, <1>4 DEF DeletionsAt
    <2> QED  BY <1>4, <2>1
  <1>6. /\ vehiclesBeingDeleted' \in Seq(Vehicles)
        /\ Len(vehiclesBeingDeleted') = Len(vehiclesBeingDeleted) - 1
        /\ \A j \in 1 .. Len(vehiclesBeingDeleted) - 1 :
              vehiclesBeingDeleted'[j] = vehiclesBeingDeleted[j + 1]
    <2>1. vehiclesBeingDeleted # <<>>
      BY <1>2, <1>4
    <2> QED  BY <1>2, <2>1, HeadTailProperties
  <1>7. TimersMatch' /\ singleShots' \in Seq({"SetActive", "Delete"})
    <2>1. 1 \in {0, 1} /\ 1 <= Len(vehiclesBeingDeleted)
      BY <1>4
    <2> QED  BY <1>1, <1>5, <1>6, <2>1, FireTimers
  <1>8. activeVehicle' \in (IF vehicles' = <<>> THEN {NoVehicle} ELSE Connected')
    <2>1. vehicles \in Seq(Vehicles)
      BY DEF ManagerInv, ManagerTypeOK
    <2>2. vehicles # <<>> => vehicles[1] \in Connected /\ Connected \subseteq Vehicles
      BY <2>1 DEF Connected, ElementsOf
    <2> QED  BY <2>2 DEF FirstOfTheOthers, Connected, ElementsOf
  <1>9. activeVehicle' \in Vehicles \cup {NoVehicle}
    BY DEF ManagerInv, ManagerTypeOK, FirstOfTheOthers
  <1>10. activeVehicle' \in Existing' \cup {NoVehicle} /\ ActiveWhenAny'
    BY <1>8 DEF Existing, ActiveWhenAny
  <1> QED  BY <1>6, <1>7, <1>9, <1>10 DEF ManagerInv, ManagerTypeOK

(* A step that does not touch the manager.                                    *)
LEMMA ManagerStutter ==
    ASSUME ManagerInv, UNCHANGED managerVars
    PROVE  ManagerInv'
  <1>1. /\ UNCHANGED <<vehicles, vehiclesBeingDeleted, activeVehicle>>
        /\ UNCHANGED <<activeVehicleAvailable, vehicleBeingSetActive, singleShots>>
    BY DEF managerVars
  <1>2. Connected' = Connected /\ Doomed' = Doomed
    BY <1>1 DEF Connected, Doomed, ElementsOf
  <1>3. PICK at \in [1 .. Len(vehiclesBeingDeleted) -> 1 .. Len(singleShots)] :
            DeletionsAt(at)
    BY DEF ManagerInv, TimersMatch
  <1>4. DeletionsAt(at)'
    BY <1>1, <1>2, <1>3 DEF DeletionsAt
  <1>5. TimersMatch'
    BY <1>1, <1>4 DEF TimersMatch
  <1> QED  BY <1>1, <1>2, <1>5 DEF ManagerInv, ManagerTypeOK, Existing, ActiveWhenAny

-----------------------------------------------------------------------------
(* Every step.                                                               *)

(* What the invariants follow from.                                           *)
IInv == LinksTypeOK /\ ManagerInv

(* Every step keeps it, and changes primary links as it should, unless the    *)
(* user picks one.                                                            *)
StepIsGood ==
    /\ IInv'
    /\ \/ \A u \in Vehicles : PrimaryStep(u)
       \/ \E v \in Vehicles, l \in Links : UserPicksPrimary(v, l)

LEMMA GoodStep ==
    ASSUME LinksTypeOK', ManagerInv', \A u \in Vehicles : PrimaryStep(u)
    PROVE  StepIsGood
  BY DEF StepIsGood, IInv

LEMMA ConnectsIsGood ==
    ASSUME IInv, NEW l \in Links, LinkConnects(l) \/ LinkDisconnects(l)
    PROVE  StepIsGood
  <1>1. /\ UNCHANGED <<links, commLost, primaryLink, communicationLost,
                       communicationLostEnabled, control>>
        /\ UNCHANGED managerVars
        /\ open' \in SUBSET Links /\ references' \in [Links -> Nat]
    BY DEF LinkConnects, LinkDisconnects, IInv, LinksTypeOK
  <1>2. LinksTypeOK'
    BY <1>1 DEF IInv, LinksTypeOK
  <1>3. ManagerInv'
    BY <1>1, ManagerStutter DEF IInv
  <1>4. \A u \in Vehicles : PrimaryStep(u)
    BY <1>1, StutterStep
  <1> QED  BY <1>2, <1>3, <1>4, GoodStep

LEMMA HeartbeatIsGood ==
    ASSUME IInv, NEW v \in Vehicles, NEW l \in Links, VehicleHeartbeatInfo(v, l)
    PROVE  StepIsGood
  <1>1. LinksTypeOK' /\ \A u \in Vehicles : PrimaryStep(u)
    BY AddLinkStep DEF IInv, VehicleHeartbeatInfo
  <1>2. ManagerInv'
    BY AppearStep DEF IInv, VehicleHeartbeatInfo
  <1> QED  BY <1>1, <1>2, GoodStep

LEMMA MessageIsGood ==
    ASSUME IInv, NEW v \in Vehicles, NEW l \in Links, MavlinkMessageReceived(v, l)
    PROVE  StepIsGood
  <1>1. CASE AddLink(v, l)
    <2>1. LinksTypeOK' /\ \A u \in Vehicles : PrimaryStep(u)
      BY <1>1, AddLinkStep DEF IInv
    <2>2. ManagerInv'
      BY ManagerStutter DEF IInv, MavlinkMessageReceived
    <2> QED  BY <2>1, <2>2, GoodStep
  <1>2. CASE CommRegainedOnLink(v, l)
    <2>1. LinksTypeOK' /\ \A u \in Vehicles : PrimaryStep(u)
      BY <1>2, RegainedStep DEF IInv
    <2>2. ManagerInv'
      BY ManagerStutter DEF IInv, MavlinkMessageReceived
    <2> QED  BY <2>1, <2>2, GoodStep
  <1> QED  BY <1>1, <1>2 DEF MavlinkMessageReceived

LEMMA DisconnectedIsGood ==
    ASSUME IInv, NEW v \in Vehicles, NEW l \in Links, LinkDisconnected(v, l)
    PROVE  StepIsGood
  <1>1. LinksTypeOK' /\ \A u \in Vehicles : PrimaryStep(u)
    BY RemoveLinkStep DEF IInv, LinkDisconnected
  <1>2. ManagerInv'
    <2>1. CASE IsLastLink(v, l)
      BY <2>1, DeleteStep DEF IInv, LinkDisconnected
    <2>2. CASE ~IsLastLink(v, l)
      BY <2>2, ManagerStutter DEF IInv, LinkDisconnected
    <2> QED  BY <2>1, <2>2
  <1> QED  BY <1>1, <1>2, GoodStep

LEMMA PickIsGood ==
    ASSUME IInv, NEW v \in Vehicles, NEW l \in Links, UserPicksPrimary(v, l)
    PROVE  StepIsGood
  <1>1. LinksTypeOK'
    BY DEF IInv, LinksTypeOK, UserPicksPrimary, SetPrimaryLinkByName
  <1>2. ManagerInv'
    BY ManagerStutter DEF IInv, UserPicksPrimary
  <1> QED  BY <1>1, <1>2 DEF StepIsGood, IInv

LEMMA SetActiveIsGood ==
    ASSUME IInv, NEW v \in Vehicles, SetActiveVehicle(v)
    PROVE  StepIsGood
  <1>1. UNCHANGED linkVars
    BY DEF SetActiveVehicle
  <1>2. LinksTypeOK' /\ \A u \in Vehicles : PrimaryStep(u)
    BY <1>1, StutterStep DEF linkVars, IInv, LinksTypeOK
  <1>3. ManagerInv'
    BY SetActiveStep DEF IInv, SetActiveVehicle
  <1> QED  BY <1>2, <1>3, GoodStep

LEMMA CloseIsGood ==
    ASSUME IInv, NEW v \in Vehicles, CloseVehicle(v)
    PROVE  StepIsGood
  <1>1. LinksTypeOK' /\ \A u \in Vehicles : PrimaryStep(u)
    BY RemoveAllStep DEF IInv, CloseVehicle
  <1>2. ManagerInv'
    BY DeleteStep DEF IInv, CloseVehicle, Existing
  <1> QED  BY <1>1, <1>2, GoodStep

LEMMA AnswerIsGood ==
    ASSUME IInv, NEW v \in Vehicles, ControlAnswered(v)
    PROVE  StepIsGood
  <1>1. LinksTypeOK'
    BY DEF IInv, LinksTypeOK, ControlAnswered, ControlEnds, Controls
  <1>2. \A u \in Vehicles : PrimaryStep(u)
    BY StutterStep DEF ControlAnswered, ControlEnds
  <1>3. ManagerInv'
    BY ManagerStutter DEF IInv, ControlAnswered
  <1> QED  BY <1>1, <1>2, <1>3, GoodStep

LEMMA BusyIsGood ==
    ASSUME IInv, NEW v \in Vehicles, BusyBegins(v) \/ BusyEnds(v)
    PROVE  StepIsGood
  <1>1. LinksTypeOK'
    BY DEF IInv, LinksTypeOK, BusyBegins, BusyEnds, SetCommunicationLostEnabled
  <1>2. \A u \in Vehicles : PrimaryStep(u)
    BY StutterStep DEF BusyBegins, BusyEnds, SetCommunicationLostEnabled
  <1>3. ManagerInv'
    BY ManagerStutter DEF IInv, BusyBegins, BusyEnds
  <1> QED  BY <1>1, <1>2, <1>3, GoodStep

LEMMA CheckIsGood ==
    ASSUME IInv, NEW v \in Vehicles, SomeCheck(v)
    PROVE  StepIsGood
  <1>1. PICK silent \in SUBSET links[v], autoDisconnect \in BOOLEAN :
            CommLostCheck(v, silent, autoDisconnect)
    BY DEF SomeCheck
  <1>2. CASE MarkLost(v, silent) /\ UNCHANGED managerVars
    <2>1. LinksTypeOK' /\ \A u \in Vehicles : PrimaryStep(u)
      BY <1>2, MarkLostStep DEF IInv
    <2>2. ManagerInv'
      BY <1>2, ManagerStutter DEF IInv
    <2> QED  BY <2>1, <2>2, GoodStep
  <1>3. CASE RemoveAllLinks(v) /\ DeleteVehiclePhase1(v)
    <2>1. LinksTypeOK' /\ \A u \in Vehicles : PrimaryStep(u)
      BY <1>3, RemoveAllStep DEF IInv
    <2>2. ManagerInv'
      BY <1>1, <1>3, DeleteStep DEF IInv, CommLostCheck, Existing
    <2> QED  BY <2>1, <2>2, GoodStep
  <1> QED  BY <1>1, <1>2, <1>3 DEF CommLostCheck

LEMMA SingleShotIsGood ==
    ASSUME IInv, SingleShot
    PROVE  StepIsGood
  <1>1. /\ singleShots # <<>> /\ singleShots' = RemoveAt(singleShots, 1)
        /\ UNCHANGED vehicleBeingSetActive
    BY DEF SingleShot, FirstStarted
  <1>2. CASE singleShots[1] = "SetActive" /\ SetActiveVehiclePhase2
    <2>1. UNCHANGED linkVars
      BY <1>2 DEF SetActiveVehiclePhase2
    <2>2. LinksTypeOK' /\ \A u \in Vehicles : PrimaryStep(u)
      BY <2>1, StutterStep DEF linkVars, IInv, LinksTypeOK
    <2>3. ManagerInv'
      BY <1>1, <1>2, Phase2ActiveStep DEF IInv, SetActiveVehiclePhase2
    <2> QED  BY <2>2, <2>3, GoodStep
  <1>3. CASE singleShots[1] = "Delete" /\ DeleteVehiclePhase2
    <2>1. LinksTypeOK' /\ \A u \in Vehicles : PrimaryStep(u)
      BY <1>3, ForgetStep DEF IInv, DeleteVehiclePhase2
    <2>2. ManagerInv'
      BY <1>1, <1>3, Phase2DeleteStep DEF IInv, DeleteVehiclePhase2
    <2> QED  BY <2>1, <2>2, GoodStep
  <1> QED  BY <1>2, <1>3 DEF SingleShot, FirstStarted

LEMMA NextIsGood ==
    ASSUME IInv, Next
    PROVE  StepIsGood
  <1>1. ASSUME NEW l \in Links, LinkConnects(l) \/ LinkDisconnects(l)
        PROVE  StepIsGood
    BY <1>1, ConnectsIsGood
  <1>2. ASSUME NEW v \in Vehicles, NEW l \in Links,
               \/ VehicleHeartbeatInfo(v, l) \/ MavlinkMessageReceived(v, l)
               \/ LinkDisconnected(v, l) \/ UserPicksPrimary(v, l)
        PROVE  StepIsGood
    BY <1>2, HeartbeatIsGood, MessageIsGood, DisconnectedIsGood, PickIsGood
  <1>3. ASSUME NEW v \in Vehicles,
               \/ SetActiveVehicle(v) \/ CloseVehicle(v) \/ ControlAnswered(v)
               \/ BusyBegins(v) \/ BusyEnds(v) \/ SomeCheck(v)
        PROVE  StepIsGood
    BY <1>3, SetActiveIsGood, CloseIsGood, AnswerIsGood, BusyIsGood, CheckIsGood
  <1>4. CASE SingleShot
    BY <1>4, SingleShotIsGood
  <1> QED  BY <1>1, <1>2, <1>3, <1>4 DEF Next

LEMMA InitIsGood ==
    ASSUME Init
    PROVE  IInv
  <1>1. LinksTypeOK
    BY DEF Init, LinksInit, LinksTypeOK, Controls
  <1>2. ManagerTypeOK
    <2>1. <<>> \in Seq(Vehicles) /\ <<>> \in Seq({"SetActive", "Delete"})
      BY EmptySeq
    <2> QED  BY <2>1 DEF Init, ManagerTypeOK
  <1>3. TimersMatch
    <2>1. Len(vehiclesBeingDeleted) = 0 /\ Len(singleShots) = 0
      BY DEF Init
    <2>2. PICK at : at = [j \in 1 .. 0 |-> j]
      OBVIOUS
    <2>3. at \in [1 .. 0 -> 1 .. 0]
      BY <2>2
    <2>4. DeletionsAt(at)
      BY <2>1, <2>3 DEF DeletionsAt
    <2> QED  BY <2>1, <2>3, <2>4 DEF TimersMatch
  <1>4. activeVehicle = NoVehicle /\ ActiveWhenAny
    BY DEF Init, ActiveWhenAny
  <1> QED  BY <1>1, <1>2, <1>3, <1>4 DEF IInv, ManagerInv

(* The same of a stuttering step, for the temporal theorems.                  *)
LEMMA StepKeepsInvariant ==
    IInv /\ [Next]_vars => IInv'
  <1> SUFFICES ASSUME IInv, [Next]_vars PROVE IInv'
    OBVIOUS
  <1>1. CASE Next
    BY <1>1, NextIsGood DEF StepIsGood
  <1>2. CASE UNCHANGED vars
    <2>1. UNCHANGED linkVars /\ UNCHANGED managerVars
      BY <1>2 DEF vars
    <2>2. LinksTypeOK'
      BY <2>1 DEF IInv, linkVars, LinksTypeOK
    <2> QED  BY <2>1, <2>2, ManagerStutter DEF IInv
  <1> QED  BY <1>1, <1>2

-----------------------------------------------------------------------------
(* The references.                                                           *)

Users(l) == {v \in Vehicles : l \in links[v]}

(* No link that is open has more users than references, and only objects that *)
(* exist use links.  A link may have more references than users: those of a   *)
(* vehicle that was deleted with a link are never given back.                 *)
ReferencesCover ==
    /\ \A l \in open : Cardinality(Users(l)) <= references[l]
    /\ \A v \in Vehicles \ Existing : links[v] = {}

LEMMA UsersFinite ==
    ASSUME NEW l
    PROVE  IsFiniteSet(Users(l)) /\ Cardinality(Users(l)) \in Nat
  <1>1. Users(l) \in SUBSET Vehicles
    BY DEF Users
  <1>2. IsFiniteSet(Users(l))
    BY <1>1, LinksAssumption, FS_Subset
  <1> QED  BY <1>2, FS_CardinalityType

(* A user more or less is one reference more or less.                         *)
LEMMA UsersStep ==
    ASSUME NEW l, NEW v
    PROVE  /\ Cardinality(Users(l) \cup {v}) <= Cardinality(Users(l)) + 1
           /\ v \in Users(l) =>
                 /\ Cardinality(Users(l) \ {v}) = Cardinality(Users(l)) - 1
                 /\ Cardinality(Users(l)) <= 1 => Users(l) = {v}
  <1>1. IsFiniteSet(Users(l)) /\ Cardinality(Users(l)) \in Nat
    BY UsersFinite
  <1>2. Cardinality(Users(l) \cup {v}) <= Cardinality(Users(l)) + 1
    BY <1>1, FS_AddElement
  <1>3. ASSUME v \in Users(l)
        PROVE  /\ Cardinality(Users(l) \ {v}) = Cardinality(Users(l)) - 1
               /\ IsFiniteSet(Users(l) \ {v})
    BY <1>1, <1>3, FS_RemoveElement
  <1>4. ASSUME v \in Users(l), Cardinality(Users(l)) <= 1
        PROVE  Users(l) = {v}
    <2>1. Cardinality(Users(l) \ {v}) \in Nat
      BY <1>3, <1>4, FS_CardinalityType
    <2>2. Cardinality(Users(l) \ {v}) = 0
      BY <1>1, <1>3, <1>4, <2>1
    <2>3. Users(l) \ {v} = {}
      BY <1>3, <1>4, <2>2, FS_EmptySet
    <2> QED  BY <1>4, <2>3
  <1> QED  BY <1>2, <1>3, <1>4

(* A link that loses users has references enough.                             *)
LEMMA FewerUsers ==
    ASSUME NEW l, Users(l)' \subseteq Users(l)
    PROVE  Cardinality(Users(l)') <= Cardinality(Users(l))
  BY UsersFinite, FS_Subset

LEMMA AddCovers ==
    ASSUME LinksTypeOK, ReferencesCover, NEW v \in Vehicles, NEW l \in Links,
           AddLink(v, l), Existing' = Existing \cup {v}
    PROVE  ReferencesCover'
  <1>1. /\ links' = [links EXCEPT ![v] = links[v] \cup {l}]
        /\ references' = [references EXCEPT ![l] = @ + 1]
        /\ open' = open
    BY DEF AddLink, UpdatePrimaryLink
  <1>2. links \in [Vehicles -> SUBSET Links] /\ references \in [Links -> Nat]
        /\ open \subseteq Links
    BY DEF LinksTypeOK
  <1>3. ASSUME NEW k \in open'
        PROVE  Cardinality(Users(k)') <= references'[k]
    <2>1. Cardinality(Users(k)) <= references[k] /\ Cardinality(Users(k)) \in Nat
      BY <1>1, UsersFinite DEF ReferencesCover
    <2>2. CASE k = l
      <3>1. Users(k)' = Users(k) \cup {v}
        BY <1>1, <1>2, <2>2 DEF Users
      <3>2. Cardinality(Users(k) \cup {v}) <= Cardinality(Users(k)) + 1
        BY UsersStep
      <3>3. IsFiniteSet(Users(k) \cup {v})
        BY UsersFinite, FS_AddElement
      <3>4. Cardinality(Users(k) \cup {v}) \in Nat
        BY <3>3, FS_CardinalityType
      <3>5. references'[k] = references[k] + 1 /\ references[k] \in Nat
        BY <1>1, <1>2, <2>2
      <3> QED  BY <2>1, <3>1, <3>2, <3>4, <3>5
    <2>3. CASE k # l
      <3>1. Users(k)' = Users(k) /\ references'[k] = references[k]
        BY <1>1, <1>2, <2>3 DEF Users
      <3> QED  BY <2>1, <3>1
    <2> QED  BY <2>2, <2>3
  <1>4. ASSUME NEW u \in Vehicles \ Existing'
        PROVE  links'[u] = {}
    BY <1>1, <1>2 DEF ReferencesCover
  <1> QED  BY <1>3, <1>4 DEF ReferencesCover

(* v loses all its links, and gives back their references or not.             *)
LEMMA ClearCovers ==
    ASSUME LinksTypeOK, ReferencesCover, NEW v,
           links' = [links EXCEPT ![v] = {}],
           Existing \subseteq Existing' \cup {v},
           \/ RemoveReferences(links[v]) /\ v \in Vehicles
           \/ UNCHANGED <<open, references>>
    PROVE  ReferencesCover'
  <1>1. links \in [Vehicles -> SUBSET Links] /\ references \in [Links -> Nat]
        /\ open \subseteq Links
    BY DEF LinksTypeOK
  <1>2. ASSUME NEW k \in open'
        PROVE  Cardinality(Users(k)') <= references'[k]
    <2>1. k \in open /\ k \in Links
      BY <1>1 DEF RemoveReferences
    <2>2. /\ Cardinality(Users(k)) <= references[k] /\ references[k] \in Nat
          /\ Cardinality(Users(k)) \in Nat
      BY <1>1, <2>1, UsersFinite DEF ReferencesCover
    <2>3. Users(k)' = Users(k) \ {v}
      BY <1>1 DEF Users
    <2>4. CASE v \in Users(k) /\ RemoveReferences(links[v])
      <3>1. Cardinality(Users(k)') = Cardinality(Users(k)) - 1
        BY <2>3, <2>4, UsersStep
      <3>2. references'[k] >= references[k] - 1
        BY <1>1, <2>1, <2>4 DEF RemoveReferences
      <3>3. references'[k] \in Int
        BY <1>1, <2>1, <2>4 DEF RemoveReferences
      <3> QED  BY <2>2, <3>1, <3>2, <3>3
    <2>5. CASE references'[k] = references[k]
      <3>1. Cardinality(Users(k)') <= Cardinality(Users(k))
        BY <2>3, FewerUsers
      <3>2. Users(k)' \in SUBSET Users(k)
        BY <2>3
      <3>3. Cardinality(Users(k)') \in Nat
        BY <3>2, UsersFinite, FS_Subset, FS_CardinalityType
      <3> QED  BY <2>2, <2>5, <3>1, <3>3
    <2>6. \/ v \in Users(k) /\ RemoveReferences(links[v])
          \/ references'[k] = references[k]
      BY <1>1, <2>1 DEF RemoveReferences, Users
    <2> QED  BY <2>4, <2>5, <2>6
  <1>3. ASSUME NEW u \in Vehicles \ Existing'
        PROVE  links'[u] = {}
    BY <1>1 DEF ReferencesCover
  <1> QED  BY <1>2, <1>3 DEF ReferencesCover

(* Neither the users nor the references of an open link change.               *)
LEMMA SameCovers ==
    ASSUME ReferencesCover, links' = links, Existing \subseteq Existing',
           open' \subseteq open, references' = references
    PROVE  ReferencesCover'
  <1>1. \A k : Users(k)' = Users(k)
    BY DEF Users
  <1> QED  BY <1>1 DEF ReferencesCover

(* A vehicle that is to be deleted still exists.                              *)
LEMMA ExistingWhenDeleted ==
    ASSUME ManagerTypeOK, NEW v \in Existing, DeleteVehiclePhase1(v)
    PROVE  Existing' = Existing
  <1>1. /\ Doomed' = ElementsOf(vehiclesBeingDeleted')
        /\ Doomed = ElementsOf(vehiclesBeingDeleted)
        /\ Connected' = ElementsOf(vehicles') /\ Connected = ElementsOf(vehicles)
    BY DEF Doomed, Connected, ElementsOf
  <1>2. v \in Vehicles
    BY DEF ManagerTypeOK, Existing, Connected, Doomed, ElementsOf
  <1>3. Doomed' = Doomed \cup {v}
    BY <1>1, <1>2, AppendElements DEF DeleteVehiclePhase1, ManagerTypeOK
  <1>4. Connected' \subseteq Connected /\ Connected \subseteq Connected' \cup {v}
    BY <1>1, <1>2, WithoutProperties DEF DeleteVehiclePhase1, ManagerTypeOK
  <1> QED  BY <1>3, <1>4 DEF Existing

LEMMA ExistingWithoutManager ==
    ASSUME UNCHANGED managerVars
    PROVE  Existing' = Existing
  BY DEF managerVars, Existing, Connected, Doomed, ElementsOf

(* The links of the first doomed vehicle are forgotten when it goes.          *)
LEMMA ExistingWhenGone ==
    ASSUME ManagerTypeOK, UNCHANGED vehicles,
           vehiclesBeingDeleted' = Tail(vehiclesBeingDeleted)
    PROVE  Existing \subseteq Existing' \cup {vehiclesBeingDeleted[1]}
  <1>1. Connected' = Connected
    BY DEF Connected, ElementsOf
  <1>2. ASSUME NEW u \in Doomed, u # vehiclesBeingDeleted[1]
        PROVE  u \in Doomed'
    <2>1. PICK k \in 1 .. Len(vehiclesBeingDeleted) : vehiclesBeingDeleted[k] = u
      BY DEF Doomed, ElementsOf, ManagerTypeOK
    <2>2. k # 1 /\ vehiclesBeingDeleted # <<>>
      BY <1>2, <2>1
    <2>3. /\ vehiclesBeingDeleted' \in Seq(Vehicles)
          /\ Len(vehiclesBeingDeleted') = Len(vehiclesBeingDeleted) - 1
          /\ \A j \in 1 .. Len(vehiclesBeingDeleted') :
                vehiclesBeingDeleted'[j] = vehiclesBeingDeleted[j + 1]
      BY <2>2, HeadTailProperties DEF ManagerTypeOK
    <2>4. k - 1 \in DOMAIN vehiclesBeingDeleted' /\ vehiclesBeingDeleted'[k - 1] = u
      BY <2>1, <2>2, <2>3 DEF ManagerTypeOK
    <2> QED  BY <2>4 DEF Doomed, ElementsOf
  <1> QED  BY <1>1, <1>2 DEF Existing

LEMMA LinkStepsCover ==
    ASSUME IInv, ReferencesCover, NEW l \in Links,
           LinkConnects(l) \/ LinkDisconnects(l)
    PROVE  ReferencesCover'
  <1>1. CASE LinkDisconnects(l)
    BY <1>1, SameCovers, ExistingWithoutManager DEF LinkDisconnects
  <1>2. CASE LinkConnects(l)
    <2>1. /\ open' = open \cup {l} /\ links' = links
          /\ references' = [references EXCEPT ![l] = 0]
          /\ \A v \in Existing : l \notin links[v]
          /\ Existing' = Existing
      BY <1>2, ExistingWithoutManager DEF LinkConnects
    <2>2. \A k : Users(k)' = Users(k)
      BY <2>1 DEF Users
    <2>3. Users(l) = {}
      BY <2>1 DEF Users, ReferencesCover
    <2>4. Cardinality(Users(l)) <= references'[l]
      BY <2>1, <2>3, FS_EmptySet DEF IInv, LinksTypeOK
    <2>5. \A k \in open \ {l} : references'[k] = references[k]
      BY <2>1 DEF IInv, LinksTypeOK
    <2> QED  BY <2>1, <2>2, <2>4, <2>5 DEF ReferencesCover
  <1> QED  BY <1>1, <1>2

LEMMA VehicleLinkStepsCover ==
    ASSUME IInv, ReferencesCover, NEW v \in Vehicles, NEW l \in Links,
           \/ VehicleHeartbeatInfo(v, l) \/ MavlinkMessageReceived(v, l)
           \/ LinkDisconnected(v, l) \/ UserPicksPrimary(v, l)
    PROVE  ReferencesCover'
  <1> USE DEF IInv, ManagerInv
  <1>1. CASE VehicleHeartbeatInfo(v, l)
    <2>1. /\ Connected' = ElementsOf(vehicles') /\ Connected = ElementsOf(vehicles)
          /\ vehicles' = Append(vehicles, v) /\ Doomed' = Doomed
      BY <1>1 DEF VehicleHeartbeatInfo, Connected, Doomed, ElementsOf
    <2>2. Existing' = Existing \cup {v}
      BY <2>1, AppendElements DEF ManagerTypeOK, Existing
    <2> QED  BY <1>1, <2>2, AddCovers DEF VehicleHeartbeatInfo
  <1>2. CASE MavlinkMessageReceived(v, l)
    <2>1. Existing' = Existing /\ v \in Existing
      BY <1>2, ExistingWithoutManager DEF MavlinkMessageReceived
    <2>2. CASE AddLink(v, l)
      BY <2>1, <2>2, AddCovers
    <2>3. CASE CommRegainedOnLink(v, l)
      <3>1. links' = links
        BY <2>3 DEF CommRegainedOnLink, UpdatePrimaryLink, LinksTypeOK
      <3> QED  BY <2>1, <2>3, <3>1, SameCovers DEF CommRegainedOnLink
    <2> QED  BY <1>2, <2>2, <2>3 DEF MavlinkMessageReceived
  <1>3. CASE LinkDisconnected(v, l)
    <2>1. Existing' = Existing
      BY <1>3, ExistingWhenDeleted, ExistingWithoutManager DEF LinkDisconnected
    <2>2. /\ l \notin open /\ links' = [links EXCEPT ![v] = links[v] \ {l}]
          /\ RemoveReferences({l})
      BY <1>3 DEF LinkDisconnected, RemoveLink, UpdatePrimaryLink
    <2>3. /\ open' \subseteq open
          /\ \A k \in open : references'[k] = references[k]
      BY <2>2 DEF RemoveReferences, LastToLeave, LinksTypeOK
    <2>4. \A k \in open : Users(k)' = Users(k)
      BY <2>2 DEF Users, LinksTypeOK
    <2>5. \A u \in Vehicles \ Existing' : links'[u] = {}
      BY <2>1, <2>2 DEF ReferencesCover, LinksTypeOK
    <2> QED  BY <2>3, <2>4, <2>5 DEF ReferencesCover
  <1>4. CASE UserPicksPrimary(v, l)
    BY <1>4, SameCovers, ExistingWithoutManager DEF UserPicksPrimary, SetPrimaryLinkByName
  <1> QED  BY <1>1, <1>2, <1>3, <1>4

(* v is closed: by the user, or for being silent on all of its links.         *)
LEMMA RemoveAllCovers ==
    ASSUME IInv, ReferencesCover, NEW v \in Vehicles, v \in Existing,
           RemoveAllLinks(v), DeleteVehiclePhase1(v)
    PROVE  ReferencesCover'
  <1>1. Existing' = Existing
    BY ExistingWhenDeleted DEF IInv, ManagerInv
  <1> QED  BY <1>1, ClearCovers DEF IInv, RemoveAllLinks

LEMMA VehicleStepsCover ==
    ASSUME IInv, ReferencesCover, NEW v \in Vehicles,
           \/ SetActiveVehicle(v) \/ CloseVehicle(v) \/ ControlAnswered(v)
           \/ BusyBegins(v) \/ BusyEnds(v) \/ SomeCheck(v)
    PROVE  ReferencesCover'
  <1>1. CASE SetActiveVehicle(v)
    <2>1. /\ links' = links /\ open' = open /\ references' = references
          /\ Existing' = Existing
      BY <1>1 DEF SetActiveVehicle, linkVars, Existing, Connected, Doomed, ElementsOf
    <2> QED  BY <2>1, SameCovers
  <1>2. CASE CloseVehicle(v)
    BY <1>2, RemoveAllCovers DEF CloseVehicle, Existing
  <1>3. CASE ControlAnswered(v)
    BY <1>3, SameCovers, ExistingWithoutManager DEF ControlAnswered, ControlEnds
  <1>4. CASE SomeCheck(v)
    <2>1. PICK silent \in SUBSET links[v], autoDisconnect \in BOOLEAN :
              CommLostCheck(v, silent, autoDisconnect)
      BY <1>4 DEF SomeCheck
    <2>2. CASE MarkLost(v, silent) /\ UNCHANGED managerVars
      <3>1. links' = links
        BY <2>2 DEF MarkLost, UpdatePrimaryLink, IInv, LinksTypeOK
      <3> QED  BY <2>2, <3>1, SameCovers, ExistingWithoutManager DEF MarkLost
    <2>3. CASE RemoveAllLinks(v) /\ DeleteVehiclePhase1(v)
      BY <2>1, <2>3, RemoveAllCovers DEF CommLostCheck, Existing
    <2> QED  BY <2>1, <2>2, <2>3 DEF CommLostCheck
  <1>5. CASE BusyBegins(v) \/ BusyEnds(v)
    BY <1>5, SameCovers, ExistingWithoutManager
       DEF BusyBegins, BusyEnds, SetCommunicationLostEnabled
  <1> QED  BY <1>1, <1>2, <1>3, <1>4, <1>5

LEMMA SingleShotCovers ==
    ASSUME IInv, ReferencesCover, SingleShot
    PROVE  ReferencesCover'
  <1>1. CASE SetActiveVehiclePhase2
    <2>1. /\ links' = links /\ open' = open /\ references' = references
          /\ Existing' = Existing
      BY <1>1 DEF SetActiveVehiclePhase2, linkVars, Existing, Connected, Doomed, ElementsOf
    <2> QED  BY <2>1, SameCovers
  <1>2. CASE DeleteVehiclePhase2
    <2>1. Existing \subseteq Existing' \cup {vehiclesBeingDeleted[1]}
      BY <1>2, ExistingWhenGone DEF DeleteVehiclePhase2, IInv, ManagerInv
    <2> QED  BY <1>2, <2>1, ClearCovers DEF DeleteVehiclePhase2, ForgetLinks, IInv
  <1> QED  BY <1>1, <1>2 DEF SingleShot

LEMMA NextCovers ==
    ASSUME IInv, ReferencesCover, Next
    PROVE  ReferencesCover'
  BY LinkStepsCover, VehicleLinkStepsCover, VehicleStepsCover, SingleShotCovers DEF Next

-----------------------------------------------------------------------------
(* Theorems.                                                                 *)

LEMMA InvariantHolds == Spec => []IInv
  BY InitIsGood, StepKeepsInvariant, PTL DEF Spec

(* Links, vehicles and timers have their types: a link marked as lost is one  *)
(* the vehicle has and no high latency one, and so is the primary link one it *)
(* has, whatever the order of removals and messages.                          *)
THEOREM TypeCorrect == Spec => []TypeOK
  <1>1. IInv => TypeOK
    BY DEF IInv, ManagerInv, ManagerTypeOK, TypeOK
  <1> QED  BY <1>1, InvariantHolds, PTL

(* The active vehicle and the one a timer makes active exist (_deleteVehicle  *)
(* Phase2, _setActiveVehiclePhase2), with any number of vehicles and timers.  *)
THEOREM ActiveExists == Spec => []ActiveIsAlive
  <1>1. IInv => ActiveIsAlive
    BY NextActiveExists DEF IInv
  <1> QED  BY <1>1, InvariantHolds, PTL

(* When no timer runs a connected vehicle is the active one, if there is any. *)
THEOREM SomeActive == Spec => []ActiveWhenAny
  <1>1. IInv => ActiveWhenAny
    BY DEF IInv, ManagerInv
  <1> QED  BY <1>1, InvariantHolds, PTL

(* _updatePrimaryLink is called wherever the links of a vehicle change, and   *)
(* leaves its traffic on a link that works, a normal one if it can.           *)
THEOREM PrimaryAlwaysFollows == Spec => PrimaryFollowsLinks
  <1> DEFINE Good == \A v \in Vehicles :
                links'[v] # links[v] \/ commLost'[v] # commLost[v] => PrimaryIsGood(v)'
  <1>1. ASSUME IInv, Next
        PROVE  Good
    <2>1. CASE \A u \in Vehicles : PrimaryStep(u)
      BY <2>1 DEF PrimaryStep
    <2>2. ASSUME NEW v \in Vehicles, NEW l \in Links, UserPicksPrimary(v, l)
          PROVE  Good
      BY <2>2 DEF UserPicksPrimary, SetPrimaryLinkByName
    <2> QED  BY <1>1, <2>1, <2>2, NextIsGood DEF StepIsGood
  <1>2. IInv /\ [Next]_vars => [Good]_vars
    BY <1>1
  <1> QED  BY <1>2, InvariantHolds, PTL DEF Spec, PrimaryFollowsLinks

(* A normal primary link that works is left only because the user says so.    *)
THEOREM NoSwitchWithoutNeed == Spec => NoNeedlessSwitch
  <1> DEFINE Good == \A v \in Vehicles :
                primaryLink[v] \in Alive(v)' \ HighLatency /\ primaryLink'[v] # primaryLink[v]
                    => \E l \in Links : UserPicksPrimary(v, l)
  <1>1. ASSUME IInv, Next
        PROVE  Good
    <2>1. CASE \A u \in Vehicles : PrimaryStep(u)
      BY <2>1 DEF PrimaryStep
    <2>2. ASSUME NEW v \in Vehicles, NEW l \in Links, UserPicksPrimary(v, l)
          PROVE  Good
      <3>1. ASSUME NEW u \in Vehicles, u # v
            PROVE  primaryLink'[u] = primaryLink[u]
        BY <1>1, <2>2, <3>1 DEF IInv, LinksTypeOK, UserPicksPrimary, SetPrimaryLinkByName
      <3> QED  BY <2>2, <3>1
    <2> QED  BY <1>1, <2>1, <2>2, NextIsGood DEF StepIsGood
  <1>2. IInv /\ [Next]_vars => [Good]_vars
    BY <1>1
  <1> QED  BY <1>2, InvariantHolds, PTL DEF Spec, NoNeedlessSwitch

(* closeVehicle gives the references of a vehicle back, and closes a link     *)
(* with the last of them: no vehicle is left on it, however many share links, *)
(* and although references of deleted vehicles may be lost.                   *)
THEOREM OthersKeepTheirLinks == Spec => UsedLinksStayOpen
  <1> DEFINE Good == \A l \in open \ open' :
                LinkDisconnects(l) \/ \A v \in Vehicles : l \notin links'[v]
  <1>1. ASSUME IInv, ReferencesCover, NEW v \in Vehicles, RemoveAllLinks(v)
        PROVE  Good
    <2> SUFFICES ASSUME NEW l \in open \ open', NEW u \in Vehicles
                 PROVE  l \notin links'[u]
      OBVIOUS
    <2>1. l \in links[v] /\ references[l] = 1
      BY <1>1 DEF RemoveAllLinks, RemoveReferences, LastToLeave
    <2>2. v \in Users(l) /\ Cardinality(Users(l)) <= 1
      BY <1>1, <2>1 DEF Users, ReferencesCover
    <2>3. Users(l) = {v}
      BY <2>2, UsersStep
    <2> QED  BY <1>1, <2>3 DEF RemoveAllLinks, Users, IInv, LinksTypeOK
  <1>2. ASSUME IInv, ReferencesCover, Next
        PROVE  Good
    <2>1. ASSUME NEW l \in Links, LinkConnects(l) \/ LinkDisconnects(l)
          PROVE  Good
      BY <2>1 DEF LinkConnects, LinkDisconnects
    <2>2. ASSUME NEW v \in Vehicles, NEW l \in Links,
                 \/ VehicleHeartbeatInfo(v, l) \/ MavlinkMessageReceived(v, l)
                 \/ LinkDisconnected(v, l) \/ UserPicksPrimary(v, l)
          PROVE  Good
      <3>1. open' = open
        BY <2>2 DEF VehicleHeartbeatInfo, MavlinkMessageReceived, AddLink,
                    CommRegainedOnLink, LinkDisconnected, RemoveLink, RemoveReferences,
                    LastToLeave, UserPicksPrimary, SetPrimaryLinkByName
      <3> QED  BY <3>1
    <2>3. ASSUME NEW v \in Vehicles,
                 \/ SetActiveVehicle(v) \/ CloseVehicle(v) \/ ControlAnswered(v)
                 \/ BusyBegins(v) \/ BusyEnds(v) \/ SomeCheck(v)
          PROVE  Good
      <3>1. RemoveAllLinks(v) \/ open' = open
        BY <2>3 DEF SetActiveVehicle, CloseVehicle, ControlAnswered, ControlEnds,
                    BusyBegins, BusyEnds, SetCommunicationLostEnabled,
                    SomeCheck, CommLostCheck, MarkLost, linkVars
      <3> QED  BY <1>1, <1>2, <3>1
    <2>4. CASE SingleShot
      BY <2>4 DEF SingleShot, SetActiveVehiclePhase2, DeleteVehiclePhase2, ForgetLinks,
                  linkVars
    <2> QED  BY <1>2, <2>1, <2>2, <2>3, <2>4 DEF Next
  <1>3. Init => ReferencesCover
    BY UsersFinite, FS_EmptySet DEF Init, LinksInit, ReferencesCover
  <1>4. IInv /\ ReferencesCover /\ [Next]_vars => ReferencesCover' /\ [Good]_vars
    <2>1. CASE UNCHANGED vars
      <3>1. /\ UNCHANGED <<links, open, references>> /\ UNCHANGED managerVars
        BY <2>1 DEF vars, linkVars
      <3> QED  BY <2>1, <3>1, SameCovers, ExistingWithoutManager
    <2> QED  BY <1>2, <2>1, NextCovers
  <1> QED  BY <1>3, <1>4, InvariantHolds, PTL DEF Spec, UsedLinksStayOpen

=============================================================================
