-------------------------- MODULE PlanMaster_proofs --------------------------
(* Proofs about PlanMaster, for every set of vehicles and contents and any    *)
(* number of events.  Every invariant rests on Base: what the slots yet to    *)
(* run may be, and what they and the vehicles have to do with each other.     *)
(* What goes wrong in the middle of something is named in Disturbances: each  *)
(* theorem says which of it has to be absent.                                 *)
EXTENDS PlanMaster, SequenceTheorems, TLAPS

-----------------------------------------------------------------------------
(* The slots yet to run.                                                      *)
ViewSlotNames ==
    {"loadComplete", "sendComplete", "newItems", "managerSendComplete", "managerRemoveAllComplete"}
MachineCalls ==
    {AdvanceOf(v) : v \in Vehicles} \cup {FirstLoadOf(v, e) : v \in Vehicles, e \in Elements}
Avc(w) == Call("activeVehicleChanged", w, "mission", FALSE)
TransferCalls == [slot : ViewSlotNames, of : Views, element : Elements, error : BOOLEAN]
CallType == MachineCalls \cup {Avc(w) : w \in Views} \cup TransferCalls

Entries(s) == {s[k] : k \in 1 .. Len(s)}
Slots == Entries(calls)
Machine(v) == \E c \in Slots \cap MachineCalls : c.of = v
Idle(v) == \A e \in Elements : ~inProgress(v, e)

(* Every variable has its type, those that only record included.              *)
FleetType ==
    /\ calls \in Seq(CallType)
    /\ connected \in Seq(Vehicles)
    /\ activeVehicle \in Vehicles \cup {NoVehicle}
MasterType ==
    /\ managerVehicle \in [Views -> Vehicles \cup {NoVehicle}]
    /\ chain \in [Views -> SUBSET Chain]
    /\ items \in [Views -> [Elements -> Contents]]
    /\ dirty \in [Views -> [Elements -> BOOLEAN]]
    /\ itemsRequested \in [Views -> SUBSET Elements]
    /\ prompting \in BOOLEAN
HistoryType ==
    /\ uploadTo \in Vehicles \cup {NoVehicle}
    /\ drawn \in [Elements -> SUBSET Contents]
    /\ uploading \in [Elements -> SUBSET Contents]
    /\ failed \in SUBSET (Vehicles \X Elements)
Types == ManagersTypeOK /\ ConnectTypeOK /\ FleetType /\ MasterType /\ HistoryType

(* A call of a machine is the next to run.  A view whose manager is not the   *)
(* active vehicle's is about to be told, and no slot of a transfer is left    *)
(* when the active vehicle changes.                                           *)
MachineFirst == \A k \in 2 .. Len(calls) : calls[k] \notin MachineCalls
Stack ==
    /\ MachineFirst
    /\ \A w \in Views : managerVehicle[w] = activeVehicle \/ Avc(w) \in Slots
    /\ \A c \in Slots \cap TransferCalls :
          /\ managerVehicle[c.of] = activeVehicle /\ activeVehicle # NoVehicle
          /\ \A w \in Views : Avc(w) \notin Slots
    /\ \A v \in Vehicles : Machine(v) => Is(v)

(* The vehicles are distinct, one of them is active when there is any, and    *)
(* nothing goes on with one that is not there.                                *)
Fleet ==
    /\ \A i, j \in DOMAIN connected : connected[i] = connected[j] => i = j
    /\ activeVehicle = NoVehicle <=> connected = <<>>
    /\ activeVehicle # NoVehicle => Is(activeVehicle)
    /\ \A v \in Vehicles : ~Is(v) =>
          stateIndex[v] = 0 /\ awaited[v] = {} /\ firstLoad[v] = Elements /\ Idle(v)

Base == Types /\ Stack /\ Fleet

-----------------------------------------------------------------------------
(* Sequences                                                                  *)

LEMMA EntriesConcat ==
    ASSUME NEW S, NEW s \in Seq(S), NEW t \in Seq(S)
    PROVE  /\ s \o t \in Seq(S)
           /\ Entries(s \o t) = Entries(s) \cup Entries(t)
  <1> DEFINE u == s \o t
  <1>1. /\ u \in Seq(S) /\ Len(u) = Len(s) + Len(t)
        /\ \A i \in 1 .. Len(s) + Len(t) : u[i] = IF i <= Len(s) THEN s[i] ELSE t[i - Len(s)]
        /\ Len(s) \in Nat /\ Len(t) \in Nat
    BY ConcatProperties, LenProperties
  <1> HIDE DEF u
  <1>2. ASSUME NEW i \in 1 .. Len(u) PROVE u[i] \in Entries(s) \cup Entries(t)
    <2>1. CASE i <= Len(s)
      BY <1>1, <2>1 DEF Entries
    <2>2. CASE ~(i <= Len(s))
      <3>1. i - Len(s) \in 1 .. Len(t) /\ u[i] = t[i - Len(s)]
        BY <1>1, <2>2
      <3> QED  BY <3>1 DEF Entries
    <2> QED  BY <2>1, <2>2
  <1>3. ASSUME NEW i \in 1 .. Len(s) PROVE s[i] \in Entries(u)
    <2>1. i \in 1 .. Len(u) /\ u[i] = s[i]
      BY <1>1
    <2> QED  BY <2>1 DEF Entries
  <1>4. ASSUME NEW i \in 1 .. Len(t) PROVE t[i] \in Entries(u)
    <2> DEFINE j == i + Len(s)
    <2>1. j \in 1 .. Len(s) + Len(t) /\ ~(j <= Len(s)) /\ j - Len(s) = i
      BY <1>1
    <2>2. j \in 1 .. Len(u) /\ u[j] = t[i]
      BY <1>1, <2>1
    <2> QED  BY <2>2 DEF Entries
  <1>5. Entries(u) = Entries(s) \cup Entries(t)
    BY <1>2, <1>3, <1>4 DEF Entries
  <1> QED  BY <1>1, <1>5 DEF u

LEMMA EntriesSmall ==
    /\ Entries(<<>>) = {}
    /\ \A x : Entries(<<x>>) = {x}
    /\ \A x, y : Entries(<<x, y>>) = {x, y}
  <1>1. Entries(<<>>) = {}
    BY DEF Entries
  <1>2. ASSUME NEW x PROVE Entries(<<x>>) = {x}
    BY DEF Entries
  <1>3. ASSUME NEW x, NEW y PROVE Entries(<<x, y>>) = {x, y}
    <2> DEFINE s == <<x, y>>
    <2>1. Len(s) = 2 /\ s[1] = x /\ s[2] = y
      OBVIOUS
    <2> HIDE DEF s
    <2>2. 1 .. Len(s) = {1, 2}
      BY <2>1
    <2>3. Entries(s) = {x, y}
      BY <2>1, <2>2 DEF Entries
    <2> QED  BY <2>3 DEF s
  <1> QED  BY <1>1, <1>2, <1>3

LEMMA EntriesTyped ==
    ASSUME NEW S, NEW s \in Seq(S)
    PROVE  Entries(s) \subseteq S
  BY ElementOfSeq DEF Entries

(* A sequence and its tail.                                                   *)
LEMMA EntriesTail ==
    ASSUME NEW S, NEW s \in Seq(S), s # <<>>
    PROVE  /\ Head(s) \in Entries(s) /\ Head(s) = s[1]
           /\ Tail(s) \in Seq(S)
           /\ Entries(Tail(s)) = {s[k] : k \in 2 .. Len(s)}
           /\ Entries(s) = {Head(s)} \cup Entries(Tail(s))
  <1> DEFINE t == Tail(s)
  <1>1. /\ t \in Seq(S) /\ Len(t) = Len(s) - 1 /\ Len(s) \in Nat \ {0}
        /\ \A i \in 1 .. Len(t) : t[i] = s[i + 1]
    BY HeadTailProperties, EmptySeq
  <1>2. Head(s) = s[1]
    OBVIOUS
  <1> HIDE DEF t
  <1>3. Entries(t) = {s[k] : k \in 2 .. Len(s)}
    <2>1. ASSUME NEW i \in 1 .. Len(t) PROVE t[i] \in {s[k] : k \in 2 .. Len(s)}
      BY <1>1
    <2>2. ASSUME NEW k \in 2 .. Len(s) PROVE s[k] \in Entries(t)
      <3>1. k - 1 \in 1 .. Len(t) /\ t[k - 1] = s[k]
        BY <1>1
      <3> QED  BY <3>1 DEF Entries
    <2> QED  BY <2>1, <2>2 DEF Entries
  <1>4. Entries(s) = {s[1]} \cup {s[k] : k \in 2 .. Len(s)}
    BY <1>1 DEF Entries
  <1> QED  BY <1>1, <1>2, <1>3, <1>4 DEF t

-----------------------------------------------------------------------------
(* Calls                                                                      *)

LEMMA Numbers == Finished = 9 /\ \A k \in 1 .. 8 : ConnectStates[k] =
        CASE k = 1 -> "AutopilotVersion" [] k = 2 -> "ProtocolVersion" [] k = 3 -> "CompInfo"
          [] k = 4 -> "Parameters" [] k = 5 -> "Mission" [] k = 6 -> "GeoFence"
          [] k = 7 -> "RallyPoints" [] k = 8 -> "SignalComplete"
  <1>1. Finished = 9
    BY DEF Finished, ConnectStates
  <1>2. ASSUME NEW k \in 1 .. 8
        PROVE  ConnectStates[k] =
                  CASE k = 1 -> "AutopilotVersion" [] k = 2 -> "ProtocolVersion"
                    [] k = 3 -> "CompInfo" [] k = 4 -> "Parameters" [] k = 5 -> "Mission"
                    [] k = 6 -> "GeoFence" [] k = 7 -> "RallyPoints" [] k = 8 -> "SignalComplete"
    <2>1. k = 1 \/ k = 2 \/ k = 3 \/ k = 4 \/ k = 5 \/ k = 6 \/ k = 7 \/ k = 8
      OBVIOUS
    <2> QED  BY <2>1 DEF ConnectStates
  <1> QED  BY <1>1, <1>2

(* Calls differ when one of their parts does.                                 *)
LEMMA CallFacts ==
    ASSUME NEW s, NEW o, NEW e, NEW r
    PROVE  /\ Call(s, o, e, r).slot = s /\ Call(s, o, e, r).of = o
           /\ Call(s, o, e, r).element = e /\ Call(s, o, e, r).error = r
           /\ \A s2, o2, e2, r2 : Call(s, o, e, r) = Call(s2, o2, e2, r2) =>
                 s = s2 /\ o = o2 /\ e = e2 /\ r = r2
  BY DEF Call

LEMMA MachineCallFacts ==
    /\ \A c \in MachineCalls :
          /\ c.of \in Vehicles /\ c.element \in Elements
          /\ c.slot \in {"advance", "firstLoadComplete"}
          /\ c = AdvanceOf(c.of) \/ c = FirstLoadOf(c.of, c.element)
    /\ \A v \in Vehicles : AdvanceOf(v) \in MachineCalls /\ AdvanceOf(v).of = v
          /\ AdvanceOf(v).slot = "advance"
    /\ \A v \in Vehicles, e \in Elements :
          /\ FirstLoadOf(v, e) \in MachineCalls /\ FirstLoadOf(v, e).of = v
          /\ FirstLoadOf(v, e).slot = "firstLoadComplete" /\ FirstLoadOf(v, e).element = e
  <1>1. \A v : AdvanceOf(v).of = v /\ AdvanceOf(v).slot = "advance" /\ AdvanceOf(v).element = "mission"
    BY DEF AdvanceOf, Call
  <1>2. \A v, e : FirstLoadOf(v, e).of = v /\ FirstLoadOf(v, e).slot = "firstLoadComplete"
                  /\ FirstLoadOf(v, e).element = e
    BY DEF FirstLoadOf, Call
  <1>3. "mission" \in Elements
    BY DEF Elements
  <1> QED  BY <1>1, <1>2, <1>3 DEF MachineCalls

LEMMA TransferCallFacts ==
    /\ \A c \in TransferCalls :
          /\ c.slot \in ViewSlotNames /\ c.of \in Views /\ c.element \in Elements
          /\ c.error \in BOOLEAN
          /\ c = Call(c.slot, c.of, c.element, c.error)
    /\ \A s \in ViewSlotNames, w \in Views, e \in Elements, r \in BOOLEAN :
          Call(s, w, e, r) \in TransferCalls
  BY DEF TransferCalls, Call

LEMMA AvcFacts ==
    \A w : Avc(w).slot = "activeVehicleChanged" /\ Avc(w).of = w
  BY DEF Avc, Call

(* A call is of one kind.                                                     *)
LEMMA CallKinds ==
    /\ \A w : Avc(w) \notin MachineCalls /\ Avc(w) \notin TransferCalls
    /\ MachineCalls \cap TransferCalls = {}
    /\ \A c \in CallType : c \in MachineCalls \/ (c.of \in Views /\ c = Avc(c.of)) \/ c \in TransferCalls
    /\ \A c \in CallType : c.of \in Vehicles \cup Views
  <1>1. ASSUME NEW c \in MachineCalls PROVE c.slot \in {"advance", "firstLoadComplete"}
    BY MachineCallFacts
  <1>2. ASSUME NEW c \in TransferCalls PROVE c.slot \in ViewSlotNames
    BY TransferCallFacts
  <1>3. \A w : Avc(w) \notin MachineCalls /\ Avc(w) \notin TransferCalls
    BY <1>1, <1>2, AvcFacts DEF ViewSlotNames
  <1>4. MachineCalls \cap TransferCalls = {}
    BY <1>1, <1>2 DEF ViewSlotNames
  <1>5. \A c \in CallType : c \in MachineCalls \/ (c.of \in Views /\ c = Avc(c.of)) \/ c \in TransferCalls
    BY AvcFacts DEF CallType
  <1>6. \A c \in CallType : c.of \in Vehicles \cup Views
    BY <1>5, MachineCallFacts, TransferCallFacts
  <1> QED  BY <1>3, <1>4, <1>5, <1>6

(* What becomes of the slots when the one that runs makes no call, and when   *)
(* it calls c.                                                                *)
Popped ==
    /\ calls' \in Seq(CallType)
    /\ Slots' \subseteq Slots
    /\ \A c \in Slots : c = Head(calls) \/ c \in Slots'
    /\ Slots' \cap MachineCalls = {}
    /\ MachineFirst'
Replaced(d) ==
    /\ calls' \in Seq(CallType)
    /\ d \in Slots'
    /\ \A c \in Slots' : c = d \/ (c \in Slots /\ c \notin MachineCalls)
    /\ \A c \in Slots : c = Head(calls) \/ c \in Slots'
    /\ MachineFirst'

LEMMA ReturnsFacts ==
    ASSUME Types, MachineFirst, calls # <<>>, Returns
    PROVE  Popped /\ Head(calls) \in Slots /\ Head(calls) \in CallType
  <1>1. /\ Head(calls) \in Slots /\ Head(calls) = calls[1]
        /\ calls' \in Seq(CallType)
        /\ Entries(calls') = {calls[k] : k \in 2 .. Len(calls)}
        /\ Slots = {Head(calls)} \cup Entries(calls')
    BY EntriesTail DEF Types, FleetType, Slots, Returns
  <1>2. Slots' = Entries(calls')
    BY DEF Slots, Entries
  <1>3. Slots' \cap MachineCalls = {}
    BY <1>1, <1>2 DEF MachineFirst
  <1>4. MachineFirst'
    <2>1. Len(calls') \in Nat
      BY <1>1
    <2>2. \A k \in 2 .. Len(calls') : calls'[k] \in Entries(calls')
      BY <2>1 DEF Entries
    <2> QED  BY <1>2, <1>3, <2>2 DEF MachineFirst
  <1>5. Head(calls) \in CallType
    BY EntriesTyped, <1>1 DEF Slots, Types, FleetType
  <1> QED  BY <1>1, <1>2, <1>3, <1>4, <1>5 DEF Popped

LEMMA ThenFacts ==
    ASSUME Types, MachineFirst, calls # <<>>, NEW d \in CallType, Then(<<d>>)
    PROVE  Replaced(d) /\ Head(calls) \in Slots /\ Head(calls) \in CallType
  <1> DEFINE t == Tail(calls)
  <1>1. /\ Head(calls) \in Slots /\ Head(calls) = calls[1]
        /\ t \in Seq(CallType)
        /\ Entries(t) = {calls[k] : k \in 2 .. Len(calls)}
        /\ Slots = {Head(calls)} \cup Entries(t)
    BY EntriesTail DEF Types, FleetType, Slots
  <1> HIDE DEF t
  <1>2. calls' = <<d>> \o t
    BY DEF Then, t
  <1>3. <<d>> \in Seq(CallType)
    OBVIOUS
  <1>4. calls' \in Seq(CallType) /\ Entries(calls') = {d} \cup Entries(t)
    <2>1. /\ <<d>> \o t \in Seq(CallType)
          /\ Entries(<<d>> \o t) = Entries(<<d>>) \cup Entries(t)
      <3> DEFINE q == <<d>>
      <3>1. q \in Seq(CallType)
        BY <1>3
      <3> HIDE DEF q
      <3>2. q \o t \in Seq(CallType) /\ Entries(q \o t) = Entries(q) \cup Entries(t)
        BY <1>1, <3>1, EntriesConcat
      <3> QED  BY <3>2 DEF q
    <2>2. Entries(<<d>>) = {d}
      BY EntriesSmall
    <2> QED  BY <1>2, <2>1, <2>2, Zenon
  <1>5. Slots' = {d} \cup Entries(t)
    BY <1>4 DEF Slots, Entries
  <1>6. \A c \in Entries(t) : c \in Slots /\ c \notin MachineCalls
    BY <1>1 DEF MachineFirst
  <1>7. MachineFirst'
    <2>1. ASSUME NEW k \in 2 .. Len(calls') PROVE calls'[k] \in Entries(t)
      <3>1. Len(calls') = 1 + Len(t) /\ calls'[k] = t[k - 1] /\ Len(t) \in Nat
        BY <1>1, <1>2, <1>3
      <3> QED  BY <3>1 DEF Entries
    <2> QED  BY <1>6, <2>1 DEF MachineFirst
  <1>8. Head(calls) \in CallType
    BY EntriesTyped, <1>1 DEF Slots, Types, FleetType
  <1> QED  BY <1>1, <1>4, <1>5, <1>6, <1>7, <1>8 DEF Replaced

LEMMA NoSlots ==
    ASSUME calls = <<>>
    PROVE  Slots = {}
  BY EntriesSmall DEF Slots

(* One slot to run, or both views' for the new active vehicle.                *)
LEMMA OneSlot ==
    ASSUME NEW d \in CallType, calls' = <<d>>
    PROVE  calls' \in Seq(CallType) /\ Slots' = {d} /\ MachineFirst'
  BY EntriesSmall DEF Slots, Entries, MachineFirst

LEMMA ToViewsFacts ==
    LET s == ToViews("activeVehicleChanged", "mission", FALSE)
    IN /\ s \in Seq(CallType) /\ s # <<>>
       /\ Entries(s) = {Avc(w) : w \in Views}
       /\ \A k \in 1 .. Len(s) : s[k] \notin MachineCalls
  <1> DEFINE s == ToViews("activeVehicleChanged", "mission", FALSE)
  <1>1. s = [k \in 1 .. 2 |-> Avc(ViewOrder[k])]
    BY DEF ToViews, Avc
  <1> HIDE DEF s
  <1>2. ViewOrder[1] = "Plan" /\ ViewOrder[2] = "Fly"
    BY DEF ViewOrder
  <1>3. DOMAIN s = 1 .. 2 /\ s[1] = Avc("Plan") /\ s[2] = Avc("Fly")
    BY <1>1, <1>2
  <1>4. \A w \in Views : Avc(w) \in CallType
    BY DEF CallType
  <1>5. s \in [1 .. 2 -> CallType]
    BY <1>1, <1>2, <1>4 DEF Views
  <1>6. s \in Seq(CallType)
    BY <1>5, SeqDef
  <1>7. Len(s) \in Nat /\ DOMAIN s = 1 .. Len(s)
    BY <1>6, LenProperties
  <1>8. Len(s) = 2
    BY <1>3, <1>7
  <1>9. Entries(s) = {Avc("Plan"), Avc("Fly")}
    <2>1. \A k \in 1 .. 2 : k = 1 \/ k = 2
      OBVIOUS
    <2> QED  BY <1>3, <1>8, <2>1 DEF Entries
  <1>10. Entries(s) = {Avc(w) : w \in Views}
    BY <1>9 DEF Views
  <1>11. \A k \in 1 .. Len(s) : s[k] \notin MachineCalls
    <2>1. \A k \in 1 .. Len(s) : k = 1 \/ k = 2
      BY <1>8
    <2> QED  BY <1>3, <2>1, CallKinds
  <1>12. s # <<>>
    BY <1>6, <1>8, EmptySeq
  <1> QED  BY <1>6, <1>10, <1>11, <1>12 DEF s

LEMMA ViewsTold ==
    ASSUME calls' = ToViews("activeVehicleChanged", "mission", FALSE)
    PROVE  /\ calls' \in Seq(CallType) /\ Slots' = {Avc(w) : w \in Views} /\ MachineFirst'
  <1> DEFINE s == ToViews("activeVehicleChanged", "mission", FALSE)
  <1>1. /\ s \in Seq(CallType) /\ Entries(s) = {Avc(w) : w \in Views}
        /\ \A k \in 1 .. Len(s) : s[k] \notin MachineCalls
    BY ToViewsFacts
  <1>2. Len(s) \in Nat
    BY <1>1, LenProperties
  <1>3. calls' = s
    OBVIOUS
  <1>4. Slots' = Entries(calls')
    BY DEF Slots, Entries
  <1> HIDE DEF s
  <1>5. \A k \in 2 .. Len(s) : s[k] \notin MachineCalls
    BY <1>1, <1>2
  <1> QED  BY <1>1, <1>3, <1>4, <1>5 DEF MachineFirst

-----------------------------------------------------------------------------
(* Managers, views and vehicles                                               *)

LEMMA ElementFacts ==
    /\ Elements = {"mission", "fence", "rally"}
    /\ \A v \in Vehicles : Supports[v] \subseteq Elements
    /\ NoItems \in Contents /\ NoVehicle \notin Vehicles /\ Drafts \subseteq Contents
  BY ContentsAssumption, VehiclesAssumption, MasterAssumption DEF Elements

LEMMA TransferFacts ==
    /\ Nothing \in Transfers /\ Reading \in Transfers /\ Removing \in Transfers
    /\ GuidedItem \in Transfers /\ \A c \in Contents : Writing(c) \in Transfers
    /\ Nothing.op = "None" /\ Reading.op = "Read" /\ Removing.op = "RemoveAll"
    /\ GuidedItem.op = "Guided"
    /\ \A c : Writing(c).op = "Write" /\ Writing(c).items = c
    /\ Nothing.items = NoItems /\ Reading.items = NoItems /\ Removing.items = NoItems
    /\ GuidedItem.items = NoItems
    /\ \A t \in Transfers :
          /\ t.op \in {"None", "Read", "Write", "RemoveAll", "Guided"}
          /\ t.items \in Contents
          /\ t.op = "None" <=> t = Nothing
          /\ t.op = "Read" <=> t = Reading
          /\ t.op = "RemoveAll" <=> t = Removing
  <1>1. /\ Nothing \in Transfers /\ Reading \in Transfers /\ Removing \in Transfers
        /\ GuidedItem \in Transfers /\ \A c \in Contents : Writing(c) \in Transfers
    BY DEF Transfers
  <1>2. /\ Nothing.op = "None" /\ Reading.op = "Read" /\ Removing.op = "RemoveAll"
        /\ GuidedItem.op = "Guided"
        /\ \A c : Writing(c).op = "Write" /\ Writing(c).items = c
        /\ Nothing.items = NoItems /\ Reading.items = NoItems /\ Removing.items = NoItems
        /\ GuidedItem.items = NoItems
    BY DEF Nothing, Reading, Removing, GuidedItem, Writing
  <1>3. ASSUME NEW t \in Transfers
        PROVE  t \in {Nothing, Reading, Removing, GuidedItem} \/ \E c \in Contents : t = Writing(c)
    BY DEF Transfers
  <1>4. ASSUME NEW t \in Transfers
        PROVE  /\ t.op \in {"None", "Read", "Write", "RemoveAll", "Guided"}
               /\ t.items \in Contents
               /\ t.op = "None" <=> t = Nothing
               /\ t.op = "Read" <=> t = Reading
               /\ t.op = "RemoveAll" <=> t = Removing
    <2>1. CASE t \in {Nothing, Reading, Removing, GuidedItem}
      BY <1>2, <2>1, ContentsAssumption
    <2>2. CASE \E c \in Contents : t = Writing(c)
      BY <1>2, <2>2
    <2> QED  BY <1>3, <2>1, <2>2
  <1> QED  BY <1>1, <1>2, <1>4

(* What Start, Finish and Forget make of each manager.                        *)
Started(v, S, t) ==
    /\ stored' = stored
    /\ transfer' \in [Vehicles -> [Elements -> Transfers]]
    /\ held' \in [Vehicles -> [Elements -> Contents]]
    /\ \A u \in Vehicles, e \in Elements :
          /\ transfer'[u][e] = IF u = v /\ e \in S /\ transfer[u][e] = Nothing THEN t
                               ELSE transfer[u][e]
          /\ held'[u][e] = IF /\ u = v /\ e \in S /\ transfer[u][e] = Nothing
                              /\ t = Removing \/ (t = Reading /\ e = "mission")
                           THEN NoItems ELSE held[u][e]

LEMMA StartFacts ==
    ASSUME Types, NEW v \in Vehicles, NEW S \in SUBSET Elements, NEW t \in Transfers,
           Start(v, S, t)
    PROVE  Started(v, S, t)
  <1> DEFINE idle == {e \in S : ~inProgress(v, e)}
             forgets == CASE t = Removing -> idle
                          [] t = Reading  -> idle \cap {"mission"}
                          [] OTHER        -> {}
  <1>1. /\ transfer' = [transfer EXCEPT ![v] =
                           [e \in Elements |-> IF e \in idle THEN t ELSE @[e]]]
        /\ held' = [held EXCEPT ![v] =
                       [e \in Elements |-> IF e \in forgets THEN NoItems ELSE @[e]]]
        /\ stored' = stored
    BY DEF Start
  <1>2. \A e \in Elements : e \in idle <=> e \in S /\ transfer[v][e] = Nothing
    BY DEF inProgress
  <1>3. Removing # Reading
    BY TransferFacts
  <1>4. \A e \in Elements : e \in forgets <=>
            /\ e \in S /\ transfer[v][e] = Nothing
            /\ t = Removing \/ (t = Reading /\ e = "mission")
    <2>1. CASE t = Removing
      BY <1>2, <1>3, <2>1
    <2>2. CASE t = Reading
      BY <1>2, <1>3, <2>2
    <2>3. CASE t # Removing /\ t # Reading
      BY <1>2, <1>3, <2>3
    <2> QED  BY <2>1, <2>2, <2>3
  <1> HIDE DEF idle, forgets
  <1>5. /\ transfer \in [Vehicles -> [Elements -> Transfers]]
        /\ held \in [Vehicles -> [Elements -> Contents]]
    BY DEF Types, ManagersTypeOK
  <1>6. /\ transfer' \in [Vehicles -> [Elements -> Transfers]]
        /\ held' \in [Vehicles -> [Elements -> Contents]]
    BY <1>1, <1>5, ElementFacts
  <1>7. ASSUME NEW u \in Vehicles, NEW e \in Elements
        PROVE  /\ transfer'[u][e] = IF u = v /\ e \in S /\ transfer[u][e] = Nothing THEN t
                                    ELSE transfer[u][e]
               /\ held'[u][e] = IF /\ u = v /\ e \in S /\ transfer[u][e] = Nothing
                                   /\ t = Removing \/ (t = Reading /\ e = "mission")
                                THEN NoItems ELSE held[u][e]
    BY <1>1, <1>2, <1>4, <1>5
  <1> QED  BY <1>1, <1>6, <1>7 DEF Started

Ended(v, e, ok, c) ==
    LET t == transfer[v][e]
        changes == t.op \in {"Write", "RemoveAll"}
    IN /\ t # Nothing
       /\ transfer' \in [Vehicles -> [Elements -> Transfers]]
       /\ held' \in [Vehicles -> [Elements -> Contents]]
       /\ stored' \in [Vehicles -> [Elements -> Contents]]
       /\ ~changes => c = stored[v][e]
       /\ changes /\ ok => c = t.items
       /\ \A u \in Vehicles, x \in Elements :
             /\ transfer'[u][x] = IF u = v /\ x = e THEN Nothing ELSE transfer[u][x]
             /\ stored'[u][x] = IF u = v /\ x = e THEN c ELSE stored[u][x]
             /\ held'[u][x] = IF u = v /\ x = e THEN HeldAfter(e, t, ok, c, held[v][e])
                              ELSE held[u][x]

LEMMA FinishFacts ==
    ASSUME Types, NEW v \in Vehicles, NEW e \in Elements, NEW ok \in BOOLEAN, Finish(v, e, ok)
    PROVE  \E c \in Contents : Ended(v, e, ok, c)
  <1> DEFINE t == transfer[v][e]
             changes == t.op \in {"Write", "RemoveAll"}
  <1>1. /\ transfer \in [Vehicles -> [Elements -> Transfers]]
        /\ held \in [Vehicles -> [Elements -> Contents]]
        /\ stored \in [Vehicles -> [Elements -> Contents]]
    BY DEF Types, ManagersTypeOK
  <1>2. t \in Transfers /\ t.items \in Contents /\ stored[v][e] \in Contents
        /\ held[v][e] \in Contents
    BY <1>1, TransferFacts
  <1>3. t # Nothing /\ transfer' = [transfer EXCEPT ![v][e] = Nothing]
    BY DEF Finish, inProgress
  <1>4. PICK c \in {stored[v][e], t.items} :
          /\ ~changes => c = stored[v][e]
          /\ changes /\ ok => c = t.items
          /\ stored' = [stored EXCEPT ![v][e] = c]
          /\ held' = [held EXCEPT ![v][e] = HeldAfter(e, t, ok, c, @)]
    BY DEF Finish
  <1> DEFINE h == HeldAfter(e, t, ok, c, held[v][e])
  <1>5. c \in Contents /\ h \in Contents
    BY <1>2, <1>4, ElementFacts DEF HeldAfter
  <1>6. held' = [held EXCEPT ![v][e] = h]
    BY <1>1, <1>4, Zenon
  <1> HIDE DEF t, h
  <1>7. /\ transfer' \in [Vehicles -> [Elements -> Transfers]]
        /\ held' \in [Vehicles -> [Elements -> Contents]]
        /\ stored' \in [Vehicles -> [Elements -> Contents]]
    BY <1>1, <1>3, <1>4, <1>5, <1>6, TransferFacts
  <1>8. ASSUME NEW u \in Vehicles, NEW x \in Elements
        PROVE  /\ transfer'[u][x] = IF u = v /\ x = e THEN Nothing ELSE transfer[u][x]
               /\ stored'[u][x] = IF u = v /\ x = e THEN c ELSE stored[u][x]
               /\ held'[u][x] = IF u = v /\ x = e THEN h ELSE held[u][x]
    BY <1>1, <1>3, <1>4, <1>6
  <1> QED  BY <1>3, <1>4, <1>5, <1>7, <1>8 DEF Ended, t, h

Forgotten(v) ==
    /\ transfer' \in [Vehicles -> [Elements -> Transfers]]
    /\ held' \in [Vehicles -> [Elements -> Contents]]
    /\ stored' = stored
    /\ \A u \in Vehicles, e \in Elements :
          /\ transfer'[u][e] = IF u = v THEN Nothing ELSE transfer[u][e]
          /\ held'[u][e] = IF u = v THEN NoItems ELSE held[u][e]

LEMMA ForgetFacts ==
    ASSUME Types, NEW v \in Vehicles, Forget(v)
    PROVE  Forgotten(v)
  <1>1. /\ transfer \in [Vehicles -> [Elements -> Transfers]]
        /\ held \in [Vehicles -> [Elements -> Contents]]
    BY DEF Types, ManagersTypeOK
  <1> QED  BY <1>1, ElementFacts, TransferFacts DEF Forget, Forgotten

(* What the views show.                                                       *)
Filled(w, S, f) ==
    /\ items' \in [Views -> [Elements -> Contents]]
    /\ \A u \in Views, e \in Elements :
          items'[u][e] = IF u = w /\ e \in S THEN f[e] ELSE items[u][e]

LEMMA SetItemsFacts ==
    ASSUME Types, NEW w \in Views, NEW S \in SUBSET Elements, NEW f \in [Elements -> Contents],
           SetItems(w, S, f)
    PROVE  Filled(w, S, f)
  <1>1. items \in [Views -> [Elements -> Contents]]
    BY DEF Types, MasterType
  <1> QED  BY <1>1 DEF SetItems, Filled

LEMMA SetDirtyFacts ==
    ASSUME Types, NEW w \in Views, NEW S \in SUBSET Elements, NEW d \in BOOLEAN,
           SetDirty(w, S, d)
    PROVE  /\ dirty' \in [Views -> [Elements -> BOOLEAN]]
           /\ \A u \in Views, e \in Elements :
                 dirty'[u][e] = IF u = w /\ e \in S THEN d ELSE dirty[u][e]
  <1>1. dirty \in [Views -> [Elements -> BOOLEAN]]
    BY DEF Types, MasterType
  <1>2. dirty' \in [Views -> [Elements -> BOOLEAN]]
    BY <1>1, Zenon DEF SetDirty
  <1>3. ASSUME NEW u \in Views, NEW e \in Elements
        PROVE  dirty'[u][e] = IF u = w /\ e \in S THEN d ELSE dirty[u][e]
    BY <1>1 DEF SetDirty
  <1> QED  BY <1>2, <1>3

Shown(w, v, S) ==
    /\ items' \in [Views -> [Elements -> Contents]]
    /\ dirty' \in [Views -> [Elements -> BOOLEAN]]
    /\ \A u \in Views, e \in Elements :
          /\ items'[u][e] = IF u = w /\ e \in S THEN held[v][e] ELSE items[u][e]
          /\ dirty'[u][e] = IF u = w /\ e \in S THEN FALSE ELSE dirty[u][e]

LEMMA ShowFacts ==
    ASSUME Types, NEW w \in Views, NEW v \in Vehicles, NEW S \in SUBSET Elements, Show(w, v, S)
    PROVE  Shown(w, v, S)
  <1>1. held[v] \in [Elements -> Contents]
    BY DEF Types, ManagersTypeOK
  <1>2. SetItems(w, S, held[v]) /\ SetDirty(w, S, FALSE)
    BY DEF Show
  <1>3. /\ items' \in [Views -> [Elements -> Contents]]
        /\ \A u \in Views, e \in Elements :
              items'[u][e] = IF u = w /\ e \in S THEN held[v][e] ELSE items[u][e]
    <2>1. Filled(w, S, held[v])
      BY <1>1, <1>2, SetItemsFacts
    <2> QED  BY <2>1 DEF Filled
  <1>4. /\ dirty' \in [Views -> [Elements -> BOOLEAN]]
        /\ \A u \in Views, e \in Elements :
              dirty'[u][e] = IF u = w /\ e \in S THEN FALSE ELSE dirty[u][e]
    BY <1>2, SetDirtyFacts
  <1> QED  BY <1>3, <1>4, Zenon DEF Shown

Emptied(w) ==
    /\ items' \in [Views -> [Elements -> Contents]]
    /\ dirty' \in [Views -> [Elements -> BOOLEAN]]
    /\ \A u \in Views, e \in Elements :
          /\ items'[u][e] = IF u = w THEN NoItems ELSE items[u][e]
          /\ dirty'[u][e] = IF u = w THEN FALSE ELSE dirty[u][e]

LEMMA RemoveAllFacts ==
    ASSUME Types, NEW w \in Views, RemoveAll(w)
    PROVE  Emptied(w)
  <1>1. AllOf(NoItems) \in [Elements -> Contents] /\ \A e \in Elements : AllOf(NoItems)[e] = NoItems
    BY ElementFacts DEF AllOf
  <1>2. SetItems(w, Elements, AllOf(NoItems)) /\ SetDirty(w, Elements, FALSE)
    BY DEF RemoveAll
  <1>3. /\ items' \in [Views -> [Elements -> Contents]]
        /\ \A u \in Views, e \in Elements :
              items'[u][e] = IF u = w THEN NoItems ELSE items[u][e]
    <2>1. /\ items' \in [Views -> [Elements -> Contents]]
          /\ \A u \in Views, e \in Elements :
                items'[u][e] = IF u = w /\ e \in Elements THEN AllOf(NoItems)[e] ELSE items[u][e]
      <3>1. Filled(w, Elements, AllOf(NoItems))
        BY <1>1, <1>2, SetItemsFacts
      <3> QED  BY <3>1 DEF Filled
    <2> QED  BY <1>1, <2>1
  <1>4. /\ dirty' \in [Views -> [Elements -> BOOLEAN]]
        /\ \A u \in Views, e \in Elements :
              dirty'[u][e] = IF u = w THEN FALSE ELSE dirty[u][e]
    <2>1. /\ dirty' \in [Views -> [Elements -> BOOLEAN]]
          /\ \A u \in Views, e \in Elements :
                dirty'[u][e] = IF u = w /\ e \in Elements THEN FALSE ELSE dirty[u][e]
      BY <1>2, SetDirtyFacts
    <2> QED  BY <2>1, Zenon
  <1> QED  BY <1>3, <1>4, Zenon DEF Emptied

LEMMA AskForFacts ==
    ASSUME Types, NEW w \in Views, NEW S \in SUBSET Elements, AskFor(w, S)
    PROVE  /\ itemsRequested' \in [Views -> SUBSET Elements]
           /\ \A u \in Views : itemsRequested'[u] = IF u = w THEN itemsRequested[u] \cup S
                                                    ELSE itemsRequested[u]
  <1>1. itemsRequested \in [Views -> SUBSET Elements]
    BY DEF Types, MasterType
  <1> QED  BY <1>1 DEF AskFor

(* The elements of v a view may show are those up to the first that is busy.  *)
Showing(w, v, complete, shown) ==
    /\ complete \in BOOLEAN /\ shown \in SUBSET Elements
    /\ complete <=> initialPlanRequestComplete[v] \/ Idle(v)
    /\ ~complete => shown = {}
    /\ complete /\ Idle(v) => shown = Elements
    /\ complete /\ ~inProgress(v, "mission") => "mission" \in shown
    /\ \A e \in shown : ~inProgress(v, e)
    /\ shown = {"mission"} => inProgress(v, "fence")
    /\ initialPlanRequestComplete' \in [Vehicles -> BOOLEAN]
    /\ \A u \in Vehicles : initialPlanRequestComplete'[u] =
          IF u = v THEN complete ELSE initialPlanRequestComplete[u]
    /\ Shown(w, v, shown)
    /\ itemsRequested' \in [Views -> SUBSET Elements]
    /\ \A u \in Views : u # w => itemsRequested'[u] = itemsRequested[u]
    /\ itemsRequested'[w] = (itemsRequested[w] \ shown)
                            \cup (IF shown = {"mission"} THEN {"fence"} ELSE {})
    /\ UNCHANGED <<stateIndex, awaited, firstLoad, link, outages>>

LEMMA ShowPlanFacts ==
    ASSUME Types, NEW w \in Views, NEW v \in Vehicles, ShowPlanFrom(w, v)
    PROVE  \E complete, shown : Showing(w, v, complete, shown)
  <1> DEFINE idle(e) == ~inProgress(v, e)
             complete == initialPlanRequestComplete[v] \/ \A e \in Elements : idle(e)
             shown == IF ~complete \/ ~idle("mission") THEN {}
                      ELSE IF ~idle("fence") THEN {"mission"}
                      ELSE IF ~idle("rally") THEN {"mission", "fence"}
                      ELSE Elements
  <1>1. /\ initialPlanRequestComplete' = [initialPlanRequestComplete EXCEPT ![v] = complete]
        /\ Show(w, v, shown)
        /\ itemsRequested' =
              [itemsRequested EXCEPT ![w] =
                  (@ \ shown) \cup (IF shown = {"mission"} THEN {"fence"} ELSE {})]
        /\ UNCHANGED <<stateIndex, awaited, firstLoad, link, outages>>
    BY DEF ShowPlanFrom
  <1>2. shown \in SUBSET Elements
    BY ElementFacts
  <1>3. /\ complete <=> initialPlanRequestComplete[v] \/ Idle(v)
        /\ ~complete => shown = {}
        /\ complete /\ Idle(v) => shown = Elements
        /\ complete /\ ~inProgress(v, "mission") => "mission" \in shown
        /\ \A e \in shown : ~inProgress(v, e)
        /\ shown = {"mission"} => inProgress(v, "fence")
    BY ElementFacts DEF Idle
  <1>4. /\ initialPlanRequestComplete \in [Vehicles -> BOOLEAN]
        /\ itemsRequested \in [Views -> SUBSET Elements]
        /\ "fence" \in Elements
    BY DEF Types, ConnectTypeOK, MasterType, Elements
  <1>5. complete \in BOOLEAN
    BY <1>4, Zenon
  <1> HIDE DEF complete, shown
  <1>6. /\ initialPlanRequestComplete' \in [Vehicles -> BOOLEAN]
        /\ \A u \in Vehicles : initialPlanRequestComplete'[u] =
              IF u = v THEN complete ELSE initialPlanRequestComplete[u]
    <2>1. initialPlanRequestComplete' \in [Vehicles -> BOOLEAN]
      BY <1>1, <1>4, <1>5, Zenon
    <2>2. ASSUME NEW u \in Vehicles
          PROVE  initialPlanRequestComplete'[u] =
                    IF u = v THEN complete ELSE initialPlanRequestComplete[u]
      BY <1>1, <1>4, <2>1, Zenon
    <2> QED  BY <2>1, <2>2
  <1>7. /\ itemsRequested' \in [Views -> SUBSET Elements]
        /\ \A u \in Views : u # w => itemsRequested'[u] = itemsRequested[u]
        /\ itemsRequested'[w] = (itemsRequested[w] \ shown)
                                \cup (IF shown = {"mission"} THEN {"fence"} ELSE {})
    BY <1>1, <1>2, <1>4
  <1>8. Shown(w, v, shown)
    BY <1>1, <1>2, ShowFacts
  <1>9. Showing(w, v, complete, shown)
    BY <1>1, <1>2, <1>3, <1>5, <1>6, <1>7, <1>8, Zenon DEF Showing
  <1> QED  BY <1>9

(* A vehicle comes, and one goes.                                             *)
LEMMA ComesFacts ==
    ASSUME Types, Fleet, NEW v \in Vehicles, ~Is(v), connected' = Append(connected, v)
    PROVE  /\ connected' \in Seq(Vehicles) /\ connected' # <<>>
           /\ \A i, j \in DOMAIN connected' : connected'[i] = connected'[j] => i = j
           /\ \A u : Is(u)' <=> Is(u) \/ u = v
  <1> DEFINE s == connected
             n == Len(connected)
             r == connected'
  <1>1. s \in Seq(Vehicles) /\ n \in Nat /\ DOMAIN s = 1 .. n
    BY LenProperties DEF Types, FleetType
  <1>2. /\ r \in Seq(Vehicles) /\ r # <<>> /\ Len(r) = n + 1 /\ DOMAIN r = 1 .. n + 1
        /\ \A i \in 1 .. n : r[i] = s[i]
        /\ r[n + 1] = v
    <2>1. /\ r \in Seq(Vehicles) /\ r # <<>> /\ Len(r) = n + 1
          /\ \A i \in 1 .. n : r[i] = s[i]
          /\ r[n + 1] = v
      BY <1>1, AppendProperties
    <2> QED  BY <2>1, LenProperties
  <1>3. \A u : Is(u) <=> \E k \in 1 .. n : s[k] = u
    BY <1>1 DEF Is
  <1>4. \A u : Is(u)' <=> \E k \in 1 .. n + 1 : r[k] = u
    BY <1>2 DEF Is
  <1>5. \A i, j \in 1 .. n : s[i] = s[j] => i = j
    BY <1>1 DEF Fleet
  <1> HIDE DEF s, n, r
  <1>6. \A u : Is(u)' <=> Is(u) \/ u = v
    <2>1. ASSUME NEW u, NEW k \in 1 .. n, s[k] = u PROVE k \in 1 .. n + 1 /\ r[k] = u
      BY <1>1, <1>2, <2>1
    <2>2. ASSUME NEW u, NEW k \in 1 .. n + 1, r[k] = u PROVE u = v \/ (k \in 1 .. n /\ s[k] = u)
      BY <1>1, <1>2, <2>2
    <2>3. n + 1 \in 1 .. n + 1
      BY <1>1
    <2> QED  BY <1>2, <1>3, <1>4, <2>1, <2>2, <2>3
  <1>7. ASSUME NEW i \in 1 .. n + 1, NEW j \in 1 .. n + 1, r[i] = r[j] PROVE i = j
    <2>1. \A k \in 1 .. n : s[k] # v
      BY <1>3
    <2> QED  BY <1>1, <1>2, <1>5, <1>7, <2>1
  <1> QED  BY <1>2, <1>6, <1>7 DEF r

LEMMA GoesFacts ==
    ASSUME Types, Fleet, NEW v \in Vehicles, Is(v), connected' = Removed(connected, v)
    PROVE  /\ connected' \in Seq(Vehicles)
           /\ \A i, j \in DOMAIN connected' : connected'[i] = connected'[j] => i = j
           /\ \A u : Is(u)' <=> Is(u) /\ u # v
           /\ connected' # <<>> => \E u \in Vehicles : u = connected'[1] /\ Is(u)'
  <1> DEFINE s == connected
             n == Len(connected)
             r == connected'
             i == CHOOSE k \in DOMAIN s : s[k] = v
  <1>1. s \in Seq(Vehicles) /\ n \in Nat /\ DOMAIN s = 1 .. n
        /\ \A k \in 1 .. n : s[k] \in Vehicles
    BY LenProperties DEF Types, FleetType
  <1>2. i \in 1 .. n /\ s[i] = v
    BY <1>1 DEF Is
  <1>3. r = [k \in 1 .. n - 1 |-> s[IF k < i THEN k ELSE k + 1]]
    BY DEF Removed
  <1>4. \A a, b \in 1 .. n : s[a] = s[b] => a = b
    BY <1>1 DEF Fleet
  <1>5. \A u : Is(u) <=> \E k \in 1 .. n : s[k] = u
    BY <1>1 DEF Is
  <1> HIDE DEF s, n, i
  <1>6. n - 1 \in Nat
    BY <1>1, <1>2
  <1>7. ASSUME NEW k \in 1 .. n - 1
        PROVE  /\ (IF k < i THEN k ELSE k + 1) \in 1 .. n
               /\ r[k] = s[IF k < i THEN k ELSE k + 1]
    BY <1>1, <1>2, <1>3
  <1>8. r \in [1 .. n - 1 -> Vehicles]
    <2>1. \A k \in 1 .. n - 1 : s[IF k < i THEN k ELSE k + 1] \in Vehicles
      BY <1>1, <1>7
    <2> QED  BY <1>3, <2>1
  <1>9. r \in Seq(Vehicles) /\ DOMAIN r = 1 .. n - 1 /\ Len(r) = n - 1
    <2>1. r \in Seq(Vehicles) /\ DOMAIN r = 1 .. n - 1
      BY <1>6, <1>8, SeqDef
    <2> QED  BY <1>6, <2>1, LenProperties
  <1>10. \A u : Is(u)' <=> \E k \in 1 .. n - 1 : r[k] = u
    BY <1>9 DEF Is
  <1> HIDE DEF r
  <1>11. ASSUME NEW a \in 1 .. n - 1, NEW b \in 1 .. n - 1, r[a] = r[b] PROVE a = b
    <2> DEFINE x == IF a < i THEN a ELSE a + 1
               y == IF b < i THEN b ELSE b + 1
    <2>1. x \in 1 .. n /\ y \in 1 .. n /\ s[x] = s[y]
      BY <1>7, <1>11
    <2>2. x = y
      BY <1>4, <2>1
    <2> QED  BY <1>2, <2>2
  <1>12. \A u : Is(u)' <=> Is(u) /\ u # v
    <2>1. ASSUME NEW u, NEW k \in 1 .. n - 1, r[k] = u PROVE Is(u) /\ u # v
      <3> DEFINE x == IF k < i THEN k ELSE k + 1
      <3>1. x \in 1 .. n /\ s[x] = u
        BY <1>7, <2>1
      <3>2. x # i
        BY <1>2
      <3>3. u # v
        BY <1>2, <1>4, <3>1, <3>2
      <3> QED  BY <1>5, <3>1, <3>3
    <2>2. ASSUME NEW u, NEW k \in 1 .. n, s[k] = u, u # v PROVE \E a \in 1 .. n - 1 : r[a] = u
      <3> DEFINE a == IF k < i THEN k ELSE k - 1
      <3>1. k # i
        BY <1>2, <2>2
      <3>2. a \in 1 .. n - 1 /\ (IF a < i THEN a ELSE a + 1) = k
        BY <1>1, <1>2, <3>1
      <3>3. r[a] = u
        BY <1>7, <2>2, <3>2
      <3> QED  BY <3>2, <3>3
    <2> QED  BY <1>5, <1>10, <2>1, <2>2
  <1>13. r # <<>> => \E u \in Vehicles : u = r[1] /\ Is(u)'
    <2>1. SUFFICES ASSUME r # <<>> PROVE \E u \in Vehicles : u = r[1] /\ Is(u)'
      OBVIOUS
    <2>2. 1 \in 1 .. n - 1
      BY <1>6, <1>9, <2>1, EmptySeq
    <2> QED  BY <1>8, <1>10, <2>2
  <1> QED  BY <1>9, <1>11, <1>12, <1>13 DEF r

-----------------------------------------------------------------------------
(* What the steps make of the slots                                           *)

LEMMA ConcatRest ==
    ASSUME NEW S, NEW s \in Seq(S), NEW t \in Seq(S), NEW k \in Len(s) + 1 .. Len(s \o t)
    PROVE  (s \o t)[k] \in Entries(t)
  <1> DEFINE u == s \o t
  <1>1. /\ Len(u) = Len(s) + Len(t)
        /\ \A i \in 1 .. Len(s) + Len(t) : u[i] = IF i <= Len(s) THEN s[i] ELSE t[i - Len(s)]
        /\ Len(s) \in Nat /\ Len(t) \in Nat
    BY ConcatProperties, LenProperties
  <1> HIDE DEF u
  <1>2. k \in Len(s) + 1 .. Len(u)
    BY DEF u
  <1>3. k - Len(s) \in 1 .. Len(t) /\ u[k] = t[k - Len(s)]
    BY <1>1, <1>2
  <1> QED  BY <1>3 DEF u, Entries

(* A machine's call before those of the views.                                *)
LEMMA PushFacts ==
    ASSUME NEW a \in Seq(CallType), a = <<>> \/ Len(a) = 1, NEW b \in Seq(CallType),
           Entries(b) \cap MachineCalls = {}, calls' = a \o b
    PROVE  calls' \in Seq(CallType) /\ Slots' = Entries(a) \cup Entries(b) /\ MachineFirst'
  <1>1. a \o b \in Seq(CallType) /\ Entries(a \o b) = Entries(a) \cup Entries(b)
    BY EntriesConcat
  <1>2. Slots' = Entries(calls')
    BY DEF Slots, Entries
  <1>3. ASSUME NEW k \in 2 .. Len(a \o b) PROVE (a \o b)[k] \notin MachineCalls
    <2> DEFINE n == Len(a \o b)
    <2>1. Len(a) \in {0, 1} /\ n \in Nat /\ k \in 2 .. n
      BY <1>1, EmptySeq, LenProperties
    <2> HIDE DEF n
    <2>2. k \in Len(a) + 1 .. n
      BY <2>1
    <2>3. (a \o b)[k] \in Entries(b)
      BY <2>2, ConcatRest DEF n
    <2> QED  BY <2>3
  <1> QED  BY <1>1, <1>2, <1>3 DEF MachineFirst

(* The slots a view has connected to the end of a transfer.                   *)
ViewHears(w, e, op, error, c) ==
    /\ c \in TransferCalls /\ c.of = w /\ c.element = e /\ c.error = error
    /\ CASE op = "Read"      -> c.slot = "newItems" \/ (c.slot = "loadComplete" /\ w = "Plan")
         [] op = "RemoveAll" -> c.slot = "managerRemoveAllComplete"
         [] op = "Write" \/ (op = "Guided" /\ error) ->
               c.slot = "managerSendComplete" \/ (c.slot = "sendComplete" /\ w = "Plan")
         [] OTHER            -> FALSE

LEMMA SlotsOfFacts ==
    ASSUME NEW w \in Views, NEW e \in Elements, NEW op, NEW error \in BOOLEAN
    PROVE  /\ SlotsOf(w, e, op, error) \in Seq(TransferCalls)
           /\ \A c : c \in Entries(SlotsOf(w, e, op, error)) <=> ViewHears(w, e, op, error, c)
  <1> DEFINE call(slot) == Call(slot, w, e, error)
             master(slot) == IF w = "Plan" THEN <<call(slot)>> ELSE <<>>
             s == SlotsOf(w, e, op, error)
  <1>1. \A slot \in ViewSlotNames : call(slot) \in TransferCalls
    BY TransferCallFacts
  <1>2. \A c : c \in TransferCalls /\ c.of = w /\ c.element = e /\ c.error = error =>
            c = call(c.slot)
    BY TransferCallFacts
  <1>3. \A slot : call(slot).slot = slot /\ call(slot).of = w /\ call(slot).element = e
                  /\ call(slot).error = error
    BY CallFacts
  <1>4. ASSUME NEW slot1 \in ViewSlotNames, NEW slot2 \in ViewSlotNames
        PROVE  /\ Append(master(slot1), call(slot2)) \in Seq(TransferCalls)
               /\ Entries(Append(master(slot1), call(slot2)))
                     = {call(slot2)} \cup (IF w = "Plan" THEN {call(slot1)} ELSE {})
    <2> HIDE DEF call
    <2>1. call(slot1) \in TransferCalls /\ call(slot2) \in TransferCalls
      BY <1>1
    <2> DEFINE m == master(slot1)
               l == <<call(slot2)>>
    <2>2. m \in Seq(TransferCalls) /\ Entries(m) = IF w = "Plan" THEN {call(slot1)} ELSE {}
      <3>1. CASE w = "Plan"
        BY <2>1, <3>1, EntriesSmall
      <3>2. CASE w # "Plan"
        BY <3>2, EntriesSmall, EmptySeq
      <3> QED  BY <3>1, <3>2
    <2>3. l \in Seq(TransferCalls) /\ Entries(l) = {call(slot2)}
      BY <2>1, EntriesSmall
    <2>4. Append(m, call(slot2)) = m \o l
      BY <2>1, <2>2, AppendIsConcat
    <2> HIDE DEF m, l
    <2>5. m \o l \in Seq(TransferCalls) /\ Entries(m \o l) = Entries(m) \cup Entries(l)
      BY <2>2, <2>3, EntriesConcat
    <2>6. /\ Append(m, call(slot2)) \in Seq(TransferCalls)
          /\ Entries(Append(m, call(slot2)))
                = {call(slot2)} \cup (IF w = "Plan" THEN {call(slot1)} ELSE {})
      BY <2>2, <2>3, <2>4, <2>5
    <2> QED  BY <2>6 DEF m
  <1>5. CASE op = "Read"
    <2>1. s = Append(master("loadComplete"), call("newItems"))
      BY <1>5 DEF SlotsOf
    <2> HIDE DEF s, call, master
    <2>2. /\ s \in Seq(TransferCalls)
          /\ Entries(s) = {call("newItems")} \cup (IF w = "Plan" THEN {call("loadComplete")} ELSE {})
      BY <1>4, <2>1 DEF ViewSlotNames
    <2>3. \A c : c \in Entries(s) <=> ViewHears(w, e, op, error, c)
      BY <1>1, <1>2, <1>3, <1>5, <2>2 DEF ViewHears, ViewSlotNames
    <2> QED  BY <2>2, <2>3 DEF s
  <1>6. CASE op = "RemoveAll"
    <2>1. s = <<call("managerRemoveAllComplete")>>
      BY <1>6 DEF SlotsOf
    <2> HIDE DEF s, call, master
    <2>2. s \in Seq(TransferCalls) /\ Entries(s) = {call("managerRemoveAllComplete")}
      BY <1>1, <2>1, EntriesSmall DEF ViewSlotNames
    <2>3. \A c : c \in Entries(s) <=> ViewHears(w, e, op, error, c)
      BY <1>1, <1>2, <1>3, <1>6, <2>2 DEF ViewHears, ViewSlotNames
    <2> QED  BY <2>2, <2>3 DEF s
  <1>7. CASE op \notin {"Read", "RemoveAll"} /\ (op = "Write" \/ (op = "Guided" /\ error))
    <2>1. s = Append(master("sendComplete"), call("managerSendComplete"))
      BY <1>7 DEF SlotsOf
    <2> HIDE DEF s, call, master
    <2>2. /\ s \in Seq(TransferCalls)
          /\ Entries(s) = {call("managerSendComplete")} \cup
                          (IF w = "Plan" THEN {call("sendComplete")} ELSE {})
      BY <1>4, <2>1 DEF ViewSlotNames
    <2>3. \A c : c \in Entries(s) <=> ViewHears(w, e, op, error, c)
      BY <1>1, <1>2, <1>3, <1>7, <2>2 DEF ViewHears, ViewSlotNames
    <2> QED  BY <2>2, <2>3 DEF s
  <1>8. CASE op \notin {"Read", "RemoveAll"} /\ ~(op = "Write" \/ (op = "Guided" /\ error))
    <2>1. s = <<>>
      BY <1>8 DEF SlotsOf
    <2>2. s \in Seq(TransferCalls) /\ Entries(s) = {}
      BY <2>1, EmptySeq, EntriesSmall
    <2> HIDE DEF s, call, master
    <2>3. \A c : c \in Entries(s) <=> ViewHears(w, e, op, error, c)
      BY <1>8, <2>2 DEF ViewHears
    <2> QED  BY <2>2, <2>3 DEF s
  <1> QED  BY <1>5, <1>6, <1>7, <1>8

(* The slots after the end of a transfer.                                     *)
Heard(v, e, op, error) ==
    /\ calls' \in Seq(CallType)
    /\ MachineFirst'
    /\ \A c : c \in Slots' <=>
          \/ c = FirstLoadOf(v, e) /\ op = "Read" /\ e \in firstLoad[v]
          \/ \E w \in Views : managerVehicle[w] = v /\ ViewHears(w, e, op, error, c)

LEMMA HeardFacts ==
    ASSUME NEW v \in Vehicles, NEW e \in Elements, NEW op, NEW error \in BOOLEAN,
           calls' = (IF op = "Read" /\ e \in firstLoad[v] THEN <<FirstLoadOf(v, e)>> ELSE <<>>)
                    \o (IF managerVehicle["Plan"] = v THEN SlotsOf("Plan", e, op, error) ELSE <<>>)
                    \o (IF managerVehicle["Fly"] = v THEN SlotsOf("Fly", e, op, error) ELSE <<>>)
    PROVE  Heard(v, e, op, error)
  <1> DEFINE a == IF op = "Read" /\ e \in firstLoad[v] THEN <<FirstLoadOf(v, e)>> ELSE <<>>
             b == IF managerVehicle["Plan"] = v THEN SlotsOf("Plan", e, op, error) ELSE <<>>
             d == IF managerVehicle["Fly"] = v THEN SlotsOf("Fly", e, op, error) ELSE <<>>
  <1>1. calls' = (a \o b) \o d
    OBVIOUS
  <1>2. TransferCalls \subseteq CallType /\ MachineCalls \subseteq CallType
        /\ MachineCalls \cap TransferCalls = {}
    BY CallKinds DEF CallType
  <1>3. /\ a \in Seq(CallType)
        /\ a = <<>> \/ Len(a) = 1
        /\ \A c : c \in Entries(a) <=> c = FirstLoadOf(v, e) /\ op = "Read" /\ e \in firstLoad[v]
    <2>1. CASE op = "Read" /\ e \in firstLoad[v]
      <3>1. a = <<FirstLoadOf(v, e)>>
        BY <2>1
      <3>2. FirstLoadOf(v, e) \in CallType
        BY <1>2, MachineCallFacts
      <3> HIDE DEF a
      <3>3. a \in Seq(CallType) /\ Len(a) = 1
        BY <3>1, <3>2
      <3>4. Entries(a) = {FirstLoadOf(v, e)}
        BY <3>1, EntriesSmall
      <3> QED  BY <2>1, <3>3, <3>4
    <2>2. CASE ~(op = "Read" /\ e \in firstLoad[v])
      <3>1. a = <<>>
        BY <2>2
      <3> HIDE DEF a
      <3> QED  BY <2>2, <3>1, EntriesSmall, EmptySeq
    <2> QED  BY <2>1, <2>2
  <1>4. ASSUME NEW w \in Views
        PROVE  LET s == IF managerVehicle[w] = v THEN SlotsOf(w, e, op, error) ELSE <<>>
               IN /\ s \in Seq(TransferCalls)
                  /\ \A c : c \in Entries(s) <=>
                        managerVehicle[w] = v /\ ViewHears(w, e, op, error, c)
    <2>1. CASE managerVehicle[w] = v
      BY <2>1, SlotsOfFacts
    <2>2. CASE managerVehicle[w] # v
      BY <2>2, EntriesSmall, EmptySeq
    <2> QED  BY <2>1, <2>2
  <1>5. /\ b \in Seq(TransferCalls)
        /\ \A c : c \in Entries(b) <=>
              managerVehicle["Plan"] = v /\ ViewHears("Plan", e, op, error, c)
    BY <1>4 DEF Views
  <1>6. /\ d \in Seq(TransferCalls)
        /\ \A c : c \in Entries(d) <=>
              managerVehicle["Fly"] = v /\ ViewHears("Fly", e, op, error, c)
    BY <1>4 DEF Views
  <1> HIDE DEF a, b, d
  <1>7. b \in Seq(CallType) /\ d \in Seq(CallType)
    BY <1>2, <1>5, <1>6, SeqMonotonic
  <1>8. b \o d \in Seq(TransferCalls) /\ Entries(b \o d) = Entries(b) \cup Entries(d)
    BY <1>5, <1>6, EntriesConcat
  <1>9. Entries(b \o d) \cap MachineCalls = {}
    BY <1>2, <1>8, EntriesTyped
  <1>10. calls' = a \o (b \o d) /\ b \o d \in Seq(CallType)
    <2>1. (a \o b) \o d = a \o (b \o d)
      BY <1>3, <1>7, ConcatAssociative
    <2>2. b \o d \in Seq(CallType)
      BY <1>7, ConcatProperties
    <2> QED  BY <1>1, <2>1, <2>2
  <1> DEFINE r == b \o d
  <1> HIDE DEF r
  <1>11. r \in Seq(CallType) /\ calls' = a \o r /\ Entries(r) \cap MachineCalls = {}
         /\ Entries(r) = Entries(b) \cup Entries(d)
    BY <1>8, <1>9, <1>10 DEF r
  <1>12. calls' \in Seq(CallType) /\ Slots' = Entries(a) \cup Entries(r) /\ MachineFirst'
    BY <1>3, <1>11, PushFacts
  <1>13. \A c : (\E w \in Views : managerVehicle[w] = v /\ ViewHears(w, e, op, error, c)) <=>
            \/ managerVehicle["Plan"] = v /\ ViewHears("Plan", e, op, error, c)
            \/ managerVehicle["Fly"] = v /\ ViewHears("Fly", e, op, error, c)
    BY Zenon DEF Views
  <1>14. \A c : c \in Slots' <=> c \in Entries(a) \/ c \in Entries(b) \/ c \in Entries(d)
    BY <1>11, <1>12
  <1> QED  BY <1>3, <1>5, <1>6, <1>12, <1>13, <1>14, Zenon DEF Heard

-----------------------------------------------------------------------------
(* What the machine's steps do                                                *)

Position == [mission |-> 5, fence |-> 6, rally |-> 7]

LEMMA PositionFacts ==
    /\ Position["mission"] = 5 /\ Position["fence"] = 6 /\ Position["rally"] = 7
    /\ \A e \in Elements : Position[e] \in 5 .. 7
    /\ \A e, x \in Elements : Position[e] = Position[x] => e = x
    /\ \A k \in 5 .. 7 : ElementOf[ConnectStates[k]] \in Elements
                         /\ Position[ElementOf[ConnectStates[k]]] = k
  <1>1. Position["mission"] = 5 /\ Position["fence"] = 6 /\ Position["rally"] = 7
    BY DEF Position
  <1>2. \A e \in Elements : e = "mission" \/ e = "fence" \/ e = "rally"
    BY DEF Elements
  <1>3. ASSUME NEW k \in 5 .. 7
        PROVE  ElementOf[ConnectStates[k]] \in Elements /\ Position[ElementOf[ConnectStates[k]]] = k
    <2>1. ElementOf["Mission"] = "mission" /\ ElementOf["GeoFence"] = "fence"
          /\ ElementOf["RallyPoints"] = "rally"
      BY DEF ElementOf
    <2>2. k = 5 \/ k = 6 \/ k = 7
      OBVIOUS
    <2>3. ConnectStates[5] = "Mission" /\ ConnectStates[6] = "GeoFence"
          /\ ConnectStates[7] = "RallyPoints"
      BY DEF ConnectStates
    <2> QED  BY <1>1, <2>1, <2>2, <2>3 DEF Elements
  <1> QED  BY <1>1, <1>2, <1>3

(* What advance() may do in state s.                                          *)
Advanced(v, s) ==
    \/ s >= 8 /\ Popped /\ UNCHANGED <<awaited, managerVars>>
    \/ /\ s + 1 \in 1 .. 4 /\ ConnectStates[s + 1] \in AnsweredStates
       /\ Popped
       /\ awaited' = [awaited EXCEPT ![v] = @ \cup {ConnectStates[s + 1]}]
       /\ UNCHANGED managerVars
    \/ /\ s < 8
       /\ s # 2 /\ (link[v] => s + 1 \notin 5 .. 7)
       /\ Replaced(AdvanceOf(v))
       /\ UNCHANGED <<awaited, managerVars>>
    \/ s = 3 /\ ~link[v] /\ Popped /\ UNCHANGED <<awaited, managerVars>>
    \/ \E e \in Elements :
          /\ Position[e] = s + 1 /\ link[v] /\ v \notin HighLatency /\ e \in Supports[v]
          /\ Popped /\ Started(v, {e}, Reading) /\ awaited' = awaited
    \/ \E e \in Elements :
          /\ Position[e] = s + 1 /\ link[v]
          /\ v \in HighLatency \/ e \notin Supports[v]
          /\ Replaced(FirstLoadOf(v, e)) /\ UNCHANGED <<awaited, managerVars>>

LEMMA AdvanceFacts ==
    ASSUME Types, MachineFirst, NEW v \in Vehicles, Advance(v)
    PROVE  /\ Advanced(v, stateIndex[v])
           /\ calls # <<>> /\ Head(calls) = AdvanceOf(v) /\ AdvanceOf(v) \in Slots
           /\ stateIndex' \in [Vehicles -> 0 .. Finished]
           /\ \A u \in Vehicles : stateIndex'[u] =
                 IF u = v /\ stateIndex[v] < 9 THEN stateIndex[v] + 1 ELSE stateIndex[u]
           /\ UNCHANGED <<firstLoad, initialPlanRequestComplete, link, outages>>
  <1> DEFINE s == stateIndex[v]
  <1>1. stateIndex \in [Vehicles -> 0 .. 9] /\ s \in 0 .. 9
    BY Numbers DEF Types, ConnectTypeOK
  <1>2. calls # <<>> /\ Head(calls) = AdvanceOf(v)
    BY DEF Advance, Running
  <1>3. AdvanceOf(v) \in Slots
    BY <1>2, EntriesTail DEF Types, FleetType, Slots
  <1>4. stateIndex' = [stateIndex EXCEPT ![v] = IF s < 9 THEN s + 1 ELSE s]
    BY <1>1, Numbers DEF Advance, NextState
  <1>5. /\ stateIndex' \in [Vehicles -> 0 .. 9]
        /\ \A u \in Vehicles : stateIndex'[u] = IF u = v /\ s < 9 THEN s + 1 ELSE stateIndex[u]
    BY <1>1, <1>4
  <1>6. UNCHANGED <<firstLoad, initialPlanRequestComplete, link, outages>>
    BY DEF Advance
  <1>7. Returns => Popped
    BY <1>2, ReturnsFacts
  <1>8. /\ Then(<<AdvanceOf(v)>>) => Replaced(AdvanceOf(v))
        /\ \A e \in Elements : Then(<<FirstLoadOf(v, e)>>) => Replaced(FirstLoadOf(v, e))
    BY <1>2, ThenFacts, MachineCallFacts DEF CallType
  <1>9. CASE s >= 8
    <2>1. Returns /\ UNCHANGED <<awaited, managerVars>>
      BY <1>1, <1>9, Numbers DEF Advance
    <2>2. Advanced(v, s)
      BY <1>7, <1>9, <2>1 DEF Advanced
    <2> QED  BY <1>1, <1>2, <1>3, <1>5, <1>6, <2>2, Numbers
  <1>10. ASSUME s < 8 PROVE Advanced(v, s)
    <2>1. Enter(v, ConnectStates[s + 1])
      BY <1>1, <1>10, Numbers DEF Advance
    <2>2. ASSUME Skip(v), s # 2, link[v] => s + 1 \notin 5 .. 7 PROVE Advanced(v, s)
      BY <1>8, <1>10, <2>2 DEF Skip, Advanced
    <2>3. ASSUME s + 1 \in 1 .. 4, Await(v, ConnectStates[s + 1]) PROVE Advanced(v, s)
      <3>1. ConnectStates[s + 1] \in AnsweredStates
        BY <2>3, Numbers DEF AnsweredStates
      <3> QED  BY <1>7, <2>3, <3>1 DEF Await, Advanced
    <2>4. CASE s \in {0, 1}
      <3>1. RequestVersion(v, ConnectStates[s + 1])
        BY <2>1, <2>4, Numbers DEF Enter
      <3> QED  BY <2>2, <2>3, <2>4, <3>1 DEF RequestVersion
    <2>5. CASE s = 2
      <3>1. Await(v, ConnectStates[s + 1])
        BY <2>1, <2>5, Numbers DEF Enter
      <3> QED  BY <2>3, <2>5, <3>1
    <2>6. CASE s = 3
      <3>1. RequestParameters(v) /\ ConnectStates[s + 1] = "Parameters"
        BY <2>1, <2>6, Numbers DEF Enter
      <3>2. CASE ~link[v]
        BY <1>7, <2>6, <3>1, <3>2 DEF RequestParameters, Advanced
      <3>3. CASE link[v] /\ v \in HighLatency
        BY <2>2, <2>6, <3>1, <3>3 DEF RequestParameters
      <3>4. CASE link[v] /\ v \notin HighLatency
        BY <2>3, <2>6, <3>1, <3>4 DEF RequestParameters
      <3> QED  BY <3>2, <3>3, <3>4
    <2>7. CASE s \in 4 .. 6
      <3> DEFINE e == ElementOf[ConnectStates[s + 1]]
      <3>1. e \in Elements /\ Position[e] = s + 1
        BY <2>7, PositionFacts
      <3>2. RequestElement(v, e)
        BY <2>1, <2>7, Numbers DEF Enter
      <3> HIDE DEF e
      <3>3. CASE ~link[v]
        BY <2>2, <2>7, <3>2, <3>3 DEF RequestElement
      <3>4. CASE link[v] /\ (v \in HighLatency \/ e \notin Supports[v])
        BY <1>8, <3>1, <3>2, <3>4 DEF RequestElement, Advanced
      <3>5. CASE link[v] /\ ~(v \in HighLatency \/ e \notin Supports[v])
        <4>1. Returns /\ Start(v, {e}, Reading) /\ awaited' = awaited
          BY <3>2, <3>5 DEF RequestElement
        <4>2. Started(v, {e}, Reading)
          BY <3>1, <4>1, StartFacts, TransferFacts
        <4> QED  BY <1>7, <3>1, <3>5, <4>1, <4>2 DEF Advanced
      <3> QED  BY <3>3, <3>4, <3>5
    <2>8. CASE s = 7
      <3>1. Skip(v)
        BY <2>1, <2>8, Numbers DEF Enter
      <3> QED  BY <2>2, <2>8, <3>1
    <2> QED  BY <1>1, <1>10, <2>4, <2>5, <2>6, <2>7, <2>8
  <1> QED  BY <1>1, <1>2, <1>3, <1>5, <1>6, <1>9, <1>10, Numbers

-----------------------------------------------------------------------------
(* What every step keeps                                                      *)

LEMMA TypesKept ==
    ASSUME Types
    PROVE  /\ UNCHANGED managerVars => ManagersTypeOK'
           /\ UNCHANGED connectVars => ConnectTypeOK'
           /\ UNCHANGED masterVars => MasterType'
           /\ UNCHANGED historyVars => HistoryType'
           /\ UNCHANGED <<calls, connected, activeVehicle>> => FleetType'
  <1>1. UNCHANGED managerVars => ManagersTypeOK'
    BY DEF Types, managerVars, ManagersTypeOK
  <1>2. UNCHANGED connectVars => ConnectTypeOK'
    BY DEF Types, connectVars, ConnectTypeOK
  <1>3. UNCHANGED masterVars => MasterType'
    BY DEF Types, masterVars, MasterType
  <1>4. UNCHANGED historyVars => HistoryType'
    BY DEF Types, historyVars, HistoryType
  <1>5. UNCHANGED <<calls, connected, activeVehicle>> => FleetType'
    BY DEF Types, FleetType
  <1> QED  BY <1>1, <1>2, <1>3, <1>4, <1>5

LEMMA FleetKept ==
    ASSUME Fleet, UNCHANGED <<connected, activeVehicle>>,
           \A v \in Vehicles : ~Is(v) =>
              /\ stateIndex'[v] = stateIndex[v] /\ awaited'[v] = awaited[v]
              /\ firstLoad'[v] = firstLoad[v]
              /\ Idle(v) => Idle(v)'
    PROVE  Fleet'
  <1>1. \A v : Is(v)' <=> Is(v)
    BY DEF Is
  <1>2. activeVehicle # NoVehicle => Is(activeVehicle)'
    BY DEF Fleet, Is
  <1>3. \A v \in Vehicles : ~Is(v)' =>
            stateIndex'[v] = 0 /\ awaited'[v] = {} /\ firstLoad'[v] = Elements /\ Idle(v)'
    BY <1>1, Zenon DEF Fleet
  <1> QED  BY <1>2, <1>3, Zenon DEF Fleet

Steady == UNCHANGED <<connected, activeVehicle, managerVehicle>>

LEMMA IsKept ==
    ASSUME Steady
    PROVE  \A v : Is(v)' <=> Is(v)
  BY DEF Steady, Is

LEMMA StackPopped ==
    ASSUME Base, Popped, Steady, \A w \in Views : Head(calls) # Avc(w)
    PROVE  Stack'
  <1>1. \A w \in Views : managerVehicle'[w] = activeVehicle' \/ Avc(w) \in Slots'
    BY DEF Base, Stack, Popped, Steady
  <1>2. \A c \in Slots' \cap TransferCalls :
          /\ managerVehicle'[c.of] = activeVehicle' /\ activeVehicle' # NoVehicle
          /\ \A w \in Views : Avc(w) \notin Slots'
    BY DEF Base, Stack, Popped, Steady
  <1>3. \A v \in Vehicles : ~Machine(v)'
    BY DEF Popped, Machine
  <1> QED  BY <1>1, <1>2, <1>3 DEF Stack, Popped

LEMMA StackReplaced ==
    ASSUME Base, NEW d, Replaced(d), Steady, \A w \in Views : Head(calls) # Avc(w) /\ d # Avc(w),
           d \in MachineCalls => Is(d.of),
           d \in TransferCalls =>
              /\ managerVehicle[d.of] = activeVehicle /\ activeVehicle # NoVehicle
              /\ \A w \in Views : Avc(w) \notin Slots
    PROVE  Stack'
  <1>1. \A w \in Views : managerVehicle'[w] = activeVehicle' \/ Avc(w) \in Slots'
    BY DEF Base, Stack, Replaced, Steady
  <1>2. \A c \in Slots' \cap TransferCalls :
          /\ managerVehicle'[c.of] = activeVehicle' /\ activeVehicle' # NoVehicle
          /\ \A w \in Views : Avc(w) \notin Slots'
    <2>1. ASSUME NEW c \in Slots', c \in TransferCalls
          PROVE  /\ managerVehicle[c.of] = activeVehicle /\ activeVehicle # NoVehicle
                 /\ \A w \in Views : Avc(w) \notin Slots
      BY <2>1 DEF Base, Stack, Replaced
    <2> QED  BY <2>1 DEF Steady, Replaced
  <1>3. \A v \in Vehicles : Machine(v)' => Is(v)'
    <2>1. ASSUME NEW v \in Vehicles, NEW c \in Slots', c \in MachineCalls, c.of = v PROVE Is(v)
      BY <2>1 DEF Replaced
    <2> QED  BY <2>1, IsKept DEF Machine
  <1> QED  BY <1>1, <1>2, <1>3 DEF Stack, Replaced

LEMMA StackKept ==
    ASSUME Base, Steady, UNCHANGED calls
    PROVE  Stack'
  <1>1. Slots' = Slots
    BY DEF Slots, Entries
  <1>2. \A v : Machine(v)' <=> Machine(v)
    BY <1>1 DEF Machine
  <1>3. MachineFirst'
    BY DEF Base, Stack, MachineFirst
  <1> QED  BY <1>1, <1>2, <1>3, IsKept, Zenon DEF Base, Stack, Steady

(* A transfer's slot runs only while its view shows the active vehicle.       *)
LEMMA TransferCallRuns ==
    ASSUME Base, NEW slot \in ViewSlotNames, NEW w \in Views, NEW e \in Elements,
           NEW error \in BOOLEAN, Running(Call(slot, w, e, error))
    PROVE  /\ calls # <<>> /\ Call(slot, w, e, error) \in Slots
           /\ Head(calls) = Call(slot, w, e, error)
           /\ managerVehicle[w] = activeVehicle
           /\ activeVehicle \in Vehicles /\ Is(activeVehicle)
           /\ \A u \in Views : Avc(u) \notin Slots
           /\ Slots \cap MachineCalls = {}
           /\ \A u \in Views : managerVehicle[u] = activeVehicle
  <1> DEFINE c == Call(slot, w, e, error)
  <1>1. calls # <<>> /\ Head(calls) = c /\ c \in Slots
    BY EntriesTail DEF Running, Base, Types, FleetType, Slots
  <1>2. c \in TransferCalls /\ c.of = w
    BY TransferCallFacts, CallFacts
  <1> HIDE DEF c
  <1>3. /\ managerVehicle[w] = activeVehicle /\ activeVehicle # NoVehicle
        /\ \A u \in Views : Avc(u) \notin Slots
    BY <1>1, <1>2 DEF Base, Stack
  <1>4. activeVehicle \in Vehicles /\ Is(activeVehicle)
    BY <1>3 DEF Base, Types, FleetType, Fleet
  <1>5. Slots \cap MachineCalls = {}
    <2>1. Slots = {Head(calls)} \cup {calls[k] : k \in 2 .. Len(calls)}
      BY <1>1, EntriesTail DEF Base, Types, FleetType, Slots
    <2>2. c \notin MachineCalls
      BY <1>2, CallKinds
    <2> QED  BY <1>1, <2>1, <2>2 DEF Base, Stack, MachineFirst
  <1>6. \A u \in Views : managerVehicle[u] = activeVehicle
    BY <1>3 DEF Base, Stack
  <1> QED  BY <1>1, <1>3, <1>4, <1>5, <1>6 DEF c

(* With nothing left to run both views show the active vehicle.               *)
LEMMA Settles ==
    ASSUME Base, calls = <<>>
    PROVE  /\ Slots = {} /\ \A w \in Views : managerVehicle[w] = activeVehicle
           /\ "Plan" \in Views /\ "Fly" \in Views
  BY NoSlots DEF Base, Stack, Views

(* A transfer that begins is one of a vehicle that is there.                  *)
LEMMA StartedKeepsFleet ==
    ASSUME NEW v \in Vehicles, NEW S, NEW t, Started(v, S, t), Is(v)
    PROVE  \A u \in Vehicles : ~Is(u) => (Idle(u) => Idle(u)')
  BY DEF Started, Idle, inProgress

LEMMA IdleKept ==
    ASSUME UNCHANGED managerVars
    PROVE  \A u \in Vehicles : Idle(u)' <=> Idle(u)
  BY DEF managerVars, Idle, inProgress

LEMMA StartedTypes ==
    ASSUME Types, NEW v, NEW S, NEW t, Started(v, S, t)
    PROVE  ManagersTypeOK'
  BY DEF Types, ManagersTypeOK, Started

(* The type of what a vehicle's calls give.                                   *)
LEMMA TypesImply ==
    ASSUME Types
    PROVE  TypeOK
  <1>1. \A k \in DOMAIN calls : calls[k].of \in Vehicles \cup Views
    <2>1. DOMAIN calls = 1 .. Len(calls) /\ \A k \in 1 .. Len(calls) : calls[k] \in CallType
      BY LenProperties, ElementOfSeq DEF Types, FleetType
    <2> QED  BY <2>1, CallKinds
  <1>2. \A k \in DOMAIN connected : connected[k] \in Vehicles
    BY LenProperties, ElementOfSeq DEF Types, FleetType
  <1> QED  BY <1>1, <1>2 DEF Types, TypeOK, FleetType, MasterType

-----------------------------------------------------------------------------
(* Base holds at first and after every step of a machine or a link.           *)

Elsewhere == UNCHANGED <<connected, activeVehicle, masterVars, historyVars>>

LEMMA InitBase == Init => Base
  <1> SUFFICES ASSUME Init PROVE Base
    OBVIOUS
  <1>1. Slots = {}
    BY NoSlots DEF Init, ConnectInit
  <1>2. Types
    <2>1. ManagersTypeOK
      BY ElementFacts, TransferFacts, VehiclesAssumption
         DEF Init, ManagersInit, ManagersTypeOK
    <2>2. ConnectTypeOK
      BY OutagesAssumption, Numbers DEF Init, ConnectInit, ConnectTypeOK
    <2>3. FleetType
      BY EmptySeq DEF Init, ConnectInit, FleetType
    <2>4. MasterType
      BY ElementFacts DEF Init, MasterType
    <2>5. HistoryType
      BY DEF Init, HistoryType, NotDrawn
    <2> QED  BY <2>1, <2>2, <2>3, <2>4, <2>5 DEF Types
  <1>3. Stack
    <2>1. MachineFirst
      BY EmptySeq DEF MachineFirst, Init, ConnectInit
    <2> QED  BY <1>1, <2>1 DEF Stack, Init, Machine
  <1>4. Fleet
    BY DEF Fleet, Init, ManagersInit, ConnectInit, Idle, inProgress
  <1> QED  BY <1>2, <1>3, <1>4 DEF Base

LEMMA AdvanceBase ==
    ASSUME Base, NEW v \in Vehicles, Advance(v), Elsewhere
    PROVE  Base'
  <1> DEFINE s == stateIndex[v]
  <1>1. /\ Advanced(v, s)
        /\ Head(calls) = AdvanceOf(v) /\ AdvanceOf(v) \in Slots
        /\ stateIndex' \in [Vehicles -> 0 .. Finished]
        /\ \A u \in Vehicles : stateIndex'[u] =
              IF u = v /\ s < 9 THEN s + 1 ELSE stateIndex[u]
        /\ UNCHANGED <<firstLoad, initialPlanRequestComplete, link, outages>>
    BY AdvanceFacts DEF Base, Stack
  <1>2. Steady
    BY DEF Elsewhere, masterVars, Steady
  <1>3. AdvanceOf(v) \in MachineCalls /\ AdvanceOf(v).of = v
        /\ \A e \in Elements : FirstLoadOf(v, e) \in MachineCalls /\ FirstLoadOf(v, e).of = v
    BY MachineCallFacts
  <1>4. Is(v)
    BY <1>1, <1>3 DEF Base, Stack, Machine
  <1>5. MachineCalls \cap TransferCalls = {} /\ \A w : Avc(w) \notin MachineCalls
    BY CallKinds
  <1>6. Popped => Stack'
    BY <1>1, <1>2, <1>3, <1>5, StackPopped
  <1>7. ASSUME NEW d \in MachineCalls, d.of = v, Replaced(d) PROVE Stack'
    BY <1>1, <1>2, <1>3, <1>4, <1>5, <1>7, StackReplaced
  <1>8. Stack' /\ calls' \in Seq(CallType)
    BY <1>1, <1>3, <1>6, <1>7 DEF Advanced, Popped, Replaced
  <1>9. ManagersTypeOK'
    BY <1>1, TypesKept, StartedTypes DEF Advanced, Base
  <1>10. awaited \in [Vehicles -> SUBSET AnsweredStates]
    BY DEF Base, Types, ConnectTypeOK
  <1>11. /\ awaited' \in [Vehicles -> SUBSET AnsweredStates]
         /\ \A u \in Vehicles : u # v => awaited'[u] = awaited[u]
    BY <1>1, <1>10 DEF Advanced
  <1>12. ConnectTypeOK'
    BY <1>1, <1>11 DEF Base, Types, ConnectTypeOK
  <1>13. FleetType' /\ MasterType' /\ HistoryType'
    BY <1>8, TypesKept DEF Base, Types, FleetType, Elsewhere
  <1>14. \A u \in Vehicles : ~Is(u) => (Idle(u) => Idle(u)')
    <2>1. CASE UNCHANGED managerVars
      BY <2>1, IdleKept
    <2>2. CASE \E e \in Elements : Started(v, {e}, Reading)
      BY <1>4, <2>2, StartedKeepsFleet
    <2> QED  BY <1>1, <2>1, <2>2 DEF Advanced
  <1>15. Fleet'
    <2>1. UNCHANGED <<connected, activeVehicle>>
      BY DEF Elsewhere
    <2>2. \A u \in Vehicles : ~Is(u) =>
              /\ stateIndex'[u] = stateIndex[u] /\ awaited'[u] = awaited[u]
              /\ firstLoad'[u] = firstLoad[u]
              /\ Idle(u) => Idle(u)'
      BY <1>1, <1>4, <1>11, <1>14
    <2> QED  BY <2>1, <2>2, FleetKept DEF Base
  <1> QED  BY <1>8, <1>9, <1>12, <1>13, <1>15 DEF Base, Types

LEMMA FirstLoadFacts ==
    ASSUME Base, NEW v \in Vehicles, NEW e \in Elements, FirstLoadComplete(v, e)
    PROVE  /\ Replaced(AdvanceOf(v)) /\ calls # <<>> /\ Head(calls) = FirstLoadOf(v, e)
           /\ FirstLoadOf(v, e) \in Slots /\ Is(v)
           /\ firstLoad' \in [Vehicles -> SUBSET Elements]
           /\ \A u \in Vehicles : firstLoad'[u] = IF u = v THEN firstLoad[v] \ {e} ELSE firstLoad[u]
           /\ initialPlanRequestComplete' \in [Vehicles -> BOOLEAN]
           /\ \A u \in Vehicles : initialPlanRequestComplete'[u] <=>
                 initialPlanRequestComplete[u] \/ (u = v /\ e = "rally")
           /\ UNCHANGED <<stateIndex, awaited, link, outages, managerVars>>
  <1>1. calls # <<>> /\ Head(calls) = FirstLoadOf(v, e)
    BY DEF FirstLoadComplete, Running
  <1>2. AdvanceOf(v) \in CallType
    BY MachineCallFacts DEF CallType
  <1>3. Replaced(AdvanceOf(v)) /\ FirstLoadOf(v, e) \in Slots
    BY <1>1, <1>2, ThenFacts DEF FirstLoadComplete, Base, Stack
  <1>4. Is(v)
    BY <1>3, MachineCallFacts DEF Base, Stack, Machine
  <1>5. firstLoad \in [Vehicles -> SUBSET Elements]
        /\ initialPlanRequestComplete \in [Vehicles -> BOOLEAN]
    BY DEF Base, Types, ConnectTypeOK
  <1>6. /\ firstLoad' \in [Vehicles -> SUBSET Elements]
        /\ \A u \in Vehicles : firstLoad'[u] = IF u = v THEN firstLoad[v] \ {e} ELSE firstLoad[u]
    BY <1>5 DEF FirstLoadComplete
  <1>7. initialPlanRequestComplete' =
            [initialPlanRequestComplete EXCEPT ![v] = initialPlanRequestComplete[v] \/ e = "rally"]
    BY <1>5, Zenon DEF FirstLoadComplete
  <1>8. (initialPlanRequestComplete[v] \/ e = "rally") \in BOOLEAN
    BY <1>5, Zenon
  <1>9. initialPlanRequestComplete' \in [Vehicles -> BOOLEAN]
    BY <1>5, <1>7, <1>8, Zenon
  <1>10. ASSUME NEW u \in Vehicles
         PROVE  initialPlanRequestComplete'[u] <=>
                   initialPlanRequestComplete[u] \/ (u = v /\ e = "rally")
    <2>1. CASE u = v
      BY <1>5, <1>7, <2>1, Zenon
    <2>2. CASE u # v
      BY <1>5, <1>7, <2>2, Zenon
    <2> QED  BY <2>1, <2>2
  <1>11. UNCHANGED <<stateIndex, awaited, link, outages, managerVars>>
    BY DEF FirstLoadComplete
  <1> QED  BY <1>1, <1>3, <1>4, <1>6, <1>9, <1>10, <1>11, Zenon

LEMMA FirstLoadBase ==
    ASSUME Base, NEW v \in Vehicles, NEW e \in Elements, FirstLoadComplete(v, e), Elsewhere
    PROVE  Base'
  <1>1. /\ Replaced(AdvanceOf(v)) /\ Head(calls) = FirstLoadOf(v, e) /\ Is(v)
        /\ firstLoad' \in [Vehicles -> SUBSET Elements]
        /\ \A u \in Vehicles : firstLoad'[u] = IF u = v THEN firstLoad[v] \ {e} ELSE firstLoad[u]
        /\ initialPlanRequestComplete' \in [Vehicles -> BOOLEAN]
        /\ UNCHANGED <<stateIndex, awaited, link, outages, managerVars>>
    BY FirstLoadFacts
  <1>2. Steady
    BY DEF Elsewhere, masterVars, Steady
  <1>3. /\ AdvanceOf(v) \in MachineCalls /\ AdvanceOf(v).of = v
        /\ FirstLoadOf(v, e) \in MachineCalls
    BY MachineCallFacts
  <1>4. Stack'
    BY <1>1, <1>2, <1>3, StackReplaced, CallKinds
  <1>5. ConnectTypeOK'
    BY <1>1 DEF Base, Types, ConnectTypeOK
  <1>6. Types'
    BY <1>1, <1>5, TypesKept DEF Base, Types, FleetType, Elsewhere, Replaced
  <1>7. Fleet'
    <2>1. UNCHANGED <<connected, activeVehicle>>
      BY DEF Elsewhere
    <2>2. \A u \in Vehicles : ~Is(u) =>
              /\ stateIndex'[u] = stateIndex[u] /\ awaited'[u] = awaited[u]
              /\ firstLoad'[u] = firstLoad[u]
              /\ Idle(u) => Idle(u)'
      BY <1>1, IdleKept
    <2> QED  BY <2>1, <2>2, FleetKept DEF Base
  <1> QED  BY <1>4, <1>6, <1>7 DEF Base

LEMMA AnsweredFacts ==
    ASSUME Base, NEW v \in Vehicles, NEW s \in AnsweredStates, Answered(v, s)
    PROVE  /\ calls = <<>> /\ calls' \in Seq(CallType) /\ Slots' = {AdvanceOf(v)} /\ MachineFirst'
           /\ s \in awaited[v] /\ Is(v)
           /\ awaited' \in [Vehicles -> SUBSET AnsweredStates]
           /\ \A u \in Vehicles : awaited'[u] = IF u = v THEN awaited[v] \ {s} ELSE awaited[u]
           /\ UNCHANGED <<stateIndex, firstLoad, initialPlanRequestComplete, link, outages,
                          managerVars>>
  <1>1. calls = <<>> /\ s \in awaited[v] /\ calls' = <<AdvanceOf(v)>>
        /\ UNCHANGED <<stateIndex, firstLoad, initialPlanRequestComplete, link, outages,
                       managerVars>>
    BY DEF Answered
  <1>2. AdvanceOf(v) \in CallType
    BY MachineCallFacts DEF CallType
  <1>3. calls' \in Seq(CallType) /\ Slots' = {AdvanceOf(v)} /\ MachineFirst'
    BY <1>1, <1>2, OneSlot
  <1>4. Is(v)
    BY <1>1 DEF Base, Fleet
  <1>5. awaited \in [Vehicles -> SUBSET AnsweredStates]
    BY DEF Base, Types, ConnectTypeOK
  <1>6. /\ awaited' \in [Vehicles -> SUBSET AnsweredStates]
        /\ \A u \in Vehicles : awaited'[u] = IF u = v THEN awaited[v] \ {s} ELSE awaited[u]
    BY <1>5 DEF Answered
  <1> QED  BY <1>1, <1>3, <1>4, <1>6

LEMMA AnsweredBase ==
    ASSUME Base, NEW v \in Vehicles, NEW s \in AnsweredStates, Answered(v, s), Elsewhere
    PROVE  Base'
  <1>1. /\ calls = <<>> /\ calls' \in Seq(CallType) /\ Slots' = {AdvanceOf(v)} /\ MachineFirst'
        /\ Is(v)
        /\ awaited' \in [Vehicles -> SUBSET AnsweredStates]
        /\ \A u \in Vehicles : awaited'[u] = IF u = v THEN awaited[v] \ {s} ELSE awaited[u]
        /\ UNCHANGED <<stateIndex, firstLoad, initialPlanRequestComplete, link, outages,
                       managerVars>>
    BY AnsweredFacts
  <1>2. Steady
    BY DEF Elsewhere, masterVars, Steady
  <1>3. AdvanceOf(v) \in MachineCalls /\ AdvanceOf(v).of = v
    BY MachineCallFacts
  <1>4. Stack'
    <2>1. \A w \in Views : managerVehicle'[w] = activeVehicle'
      BY <1>1, <1>2, Settles DEF Steady
    <2>2. Slots' \cap TransferCalls = {}
      BY <1>1, <1>3, CallKinds
    <2>3. \A u \in Vehicles : Machine(u)' => Is(u)'
      BY <1>1, <1>2, <1>3, IsKept DEF Machine
    <2> QED  BY <1>1, <2>1, <2>2, <2>3 DEF Stack
  <1>5. ConnectTypeOK'
    BY <1>1 DEF Base, Types, ConnectTypeOK
  <1>6. Types'
    BY <1>1, <1>5, TypesKept DEF Base, Types, FleetType, Elsewhere
  <1>7. Fleet'
    <2>1. UNCHANGED <<connected, activeVehicle>>
      BY DEF Elsewhere
    <2>2. \A u \in Vehicles : ~Is(u) =>
              /\ stateIndex'[u] = stateIndex[u] /\ awaited'[u] = awaited[u]
              /\ firstLoad'[u] = firstLoad[u]
              /\ Idle(u) => Idle(u)'
      BY <1>1, IdleKept
    <2> QED  BY <2>1, <2>2, FleetKept DEF Base
  <1> QED  BY <1>4, <1>6, <1>7 DEF Base

LinkStep(v) == LinkGoes(v) \/ LinkReturns(v)

LEMMA LinkBase ==
    ASSUME Base, NEW v \in Vehicles, LinkStep(v), Elsewhere
    PROVE  Base'
  <1>1. /\ UNCHANGED <<calls, stateIndex, awaited, firstLoad, initialPlanRequestComplete,
                       managerVars>>
    BY DEF LinkStep, LinkGoes, LinkReturns
  <1>2. link' \in [Vehicles -> BOOLEAN] /\ outages' \in 0 .. MaxOutages
    <2>1. link \in [Vehicles -> BOOLEAN] /\ outages \in 0 .. MaxOutages
      BY DEF Base, Types, ConnectTypeOK
    <2>2. CASE LinkGoes(v)
      <3>1. link' = [link EXCEPT ![v] = FALSE] /\ outages' = outages + 1 /\ outages < MaxOutages
        BY <2>2 DEF LinkGoes
      <3>2. link' \in [Vehicles -> BOOLEAN]
        BY <2>1, <3>1, Zenon
      <3> QED  BY <2>1, <3>1, <3>2, OutagesAssumption
    <2>3. CASE LinkReturns(v)
      <3>1. link' = [link EXCEPT ![v] = TRUE] /\ outages' = outages
        BY <2>3 DEF LinkReturns
      <3>2. link' \in [Vehicles -> BOOLEAN]
        BY <2>1, <3>1, Zenon
      <3> QED  BY <2>1, <3>1, <3>2
    <2> QED  BY <2>2, <2>3 DEF LinkStep
  <1>3. Steady
    BY DEF Elsewhere, masterVars, Steady
  <1>4. Stack'
    BY <1>1, <1>3, StackKept
  <1>5. ConnectTypeOK'
    BY <1>1, <1>2 DEF Base, Types, ConnectTypeOK
  <1>6. Types'
    BY <1>1, <1>5, TypesKept DEF Base, Types, Elsewhere
  <1>7. Fleet'
    <2>1. UNCHANGED <<connected, activeVehicle>>
      BY DEF Elsewhere
    <2>2. \A u \in Vehicles : ~Is(u) =>
              /\ stateIndex'[u] = stateIndex[u] /\ awaited'[u] = awaited[u]
              /\ firstLoad'[u] = firstLoad[u]
              /\ Idle(u) => Idle(u)'
      BY <1>1, IdleKept
    <2> QED  BY <2>1, <2>2, FleetKept DEF Base
  <1> QED  BY <1>4, <1>6, <1>7 DEF Base

-----------------------------------------------------------------------------
(* Vehicles come and go                                                      *)

LEMMA VehicleComesFacts ==
    ASSUME Base, NEW v \in Vehicles, VehicleComes(v)
    PROVE  /\ calls = <<>> /\ ~Is(v) /\ calls' \in Seq(CallType) /\ MachineFirst'
           /\ Slots' = {AdvanceOf(v)} \cup (IF connected = <<>> THEN {Avc(w) : w \in Views} ELSE {})
           /\ connected' \in Seq(Vehicles) /\ connected' # <<>>
           /\ \A i, j \in DOMAIN connected' : connected'[i] = connected'[j] => i = j
           /\ \A u : Is(u)' <=> Is(u) \/ u = v
           /\ activeVehicle' = IF connected = <<>> THEN v ELSE activeVehicle
           /\ UNCHANGED <<managerVars, connectVars, masterVars, historyVars>>
  <1> DEFINE a == <<AdvanceOf(v)>>
             t == ToViews("activeVehicleChanged", "mission", FALSE)
             b == IF connected = <<>> THEN t ELSE <<>>
  <1>1. /\ calls = <<>> /\ ~Is(v) /\ connected' = Append(connected, v) /\ calls' = a \o b
        /\ activeVehicle' = IF connected = <<>> THEN v ELSE activeVehicle
        /\ UNCHANGED <<managerVars, connectVars, masterVars, historyVars>>
    BY DEF VehicleComes
  <1>2. AdvanceOf(v) \in CallType
    BY MachineCallFacts DEF CallType
  <1>3. a \in Seq(CallType) /\ Len(a) = 1 /\ Entries(a) = {AdvanceOf(v)}
    BY <1>2, EntriesSmall
  <1>4. t \in Seq(CallType) /\ Entries(t) = {Avc(w) : w \in Views}
    BY ToViewsFacts
  <1> HIDE DEF a, t
  <1>5. /\ b \in Seq(CallType)
        /\ Entries(b) = IF connected = <<>> THEN {Avc(w) : w \in Views} ELSE {}
    BY <1>4, EntriesSmall, EmptySeq
  <1> HIDE DEF b
  <1>6. Entries(b) \cap MachineCalls = {}
    BY <1>5, CallKinds
  <1>7. calls' \in Seq(CallType) /\ Slots' = Entries(a) \cup Entries(b) /\ MachineFirst'
    BY <1>1, <1>3, <1>5, <1>6, PushFacts
  <1>8. /\ connected' \in Seq(Vehicles) /\ connected' # <<>>
        /\ \A i, j \in DOMAIN connected' : connected'[i] = connected'[j] => i = j
        /\ \A u : Is(u)' <=> Is(u) \/ u = v
    BY <1>1, ComesFacts DEF Base
  <1> QED  BY <1>1, <1>3, <1>5, <1>7, <1>8, Zenon

LEMMA VehicleComesBase ==
    ASSUME Base, NEW v \in Vehicles, VehicleComes(v)
    PROVE  Base'
  <1>1. /\ calls = <<>> /\ ~Is(v) /\ calls' \in Seq(CallType) /\ MachineFirst'
        /\ Slots' = {AdvanceOf(v)} \cup (IF connected = <<>> THEN {Avc(w) : w \in Views} ELSE {})
        /\ connected' \in Seq(Vehicles) /\ connected' # <<>>
        /\ \A i, j \in DOMAIN connected' : connected'[i] = connected'[j] => i = j
        /\ \A u : Is(u)' <=> Is(u) \/ u = v
        /\ activeVehicle' = IF connected = <<>> THEN v ELSE activeVehicle
        /\ UNCHANGED <<managerVars, connectVars, masterVars, historyVars>>
    BY VehicleComesFacts
  <1>2. \A w \in Views : managerVehicle'[w] = managerVehicle[w] /\ managerVehicle[w] = activeVehicle
    BY <1>1, Settles DEF masterVars
  <1>3. AdvanceOf(v) \in MachineCalls /\ AdvanceOf(v).of = v
    BY MachineCallFacts
  <1>4. Stack'
    <2>1. \A w \in Views : managerVehicle'[w] = activeVehicle' \/ Avc(w) \in Slots'
      <3>1. CASE connected = <<>>
        BY <1>1, <3>1
      <3>2. CASE connected # <<>>
        BY <1>1, <1>2, <3>2
      <3> QED  BY <3>1, <3>2
    <2>2. Slots' \cap TransferCalls = {} /\ Slots' \cap MachineCalls = {AdvanceOf(v)}
      BY <1>1, <1>3, CallKinds
    <2>3. \A u \in Vehicles : Machine(u)' => Is(u)'
      BY <1>1, <1>3, <2>2 DEF Machine
    <2> QED  BY <1>1, <2>1, <2>2, <2>3 DEF Stack
  <1>5. activeVehicle' \in Vehicles
    <2>1. connected # <<>> => activeVehicle \in Vehicles
      BY DEF Base, Types, FleetType, Fleet
    <2> QED  BY <1>1, <2>1
  <1>6. Types'
    BY <1>1, <1>5, TypesKept DEF Base, Types, FleetType
  <1>7. Fleet'
    <2>1. activeVehicle' # NoVehicle
      BY <1>5, ElementFacts
    <2>2. Is(activeVehicle)'
      <3>1. \A u : u = activeVehicle' => Is(u)'
        BY <1>1 DEF Base, Fleet
      <3> QED  BY <3>1 DEF Is
    <2>3. ASSUME NEW u \in Vehicles, ~Is(u)'
          PROVE  stateIndex'[u] = 0 /\ awaited'[u] = {} /\ firstLoad'[u] = Elements /\ Idle(u)'
      <3>1. ~Is(u)
        BY <1>1, <2>3
      <3>2. stateIndex[u] = 0 /\ awaited[u] = {} /\ firstLoad[u] = Elements /\ Idle(u)
        BY <3>1 DEF Base, Fleet
      <3> QED  BY <1>1, <3>2, IdleKept DEF connectVars
    <2> QED  BY <1>1, <2>1, <2>2, <2>3, Zenon DEF Fleet
  <1> QED  BY <1>4, <1>6, <1>7 DEF Base

LEMMA VehicleGoesFacts ==
    ASSUME Base, NEW v \in Vehicles, VehicleGoes(v)
    PROVE  /\ calls = <<>> /\ Is(v) /\ calls' \in Seq(CallType) /\ MachineFirst'
           /\ Slots' = {Avc(w) : w \in Views}
           /\ connected' \in Seq(Vehicles)
           /\ \A i, j \in DOMAIN connected' : connected'[i] = connected'[j] => i = j
           /\ \A u : Is(u)' <=> Is(u) /\ u # v
           /\ activeVehicle' \in Vehicles \cup {NoVehicle} /\ activeVehicle' # v
           /\ activeVehicle' = NoVehicle <=> connected' = <<>>
           /\ \A u : u = activeVehicle' /\ u # NoVehicle => Is(u)'
           /\ Forgotten(v)
           /\ ConnectTypeOK'
           /\ \A u \in Vehicles :
                 /\ stateIndex'[u] = IF u = v THEN 0 ELSE stateIndex[u]
                 /\ awaited'[u] = IF u = v THEN {} ELSE awaited[u]
                 /\ firstLoad'[u] = IF u = v THEN Elements ELSE firstLoad[u]
                 /\ u # v => initialPlanRequestComplete'[u] = initialPlanRequestComplete[u]
                 /\ u # v => link'[u] = link[u]
           /\ link'[v] = TRUE /\ outages' = outages
           /\ uploadTo' = IF uploadTo = v THEN NoVehicle ELSE uploadTo
           /\ failed' = {f \in failed : f[1] # v}
           /\ uploading' = NotDrawn
           /\ UNCHANGED <<masterVars, drawn>>
  <1>1. /\ calls = <<>> /\ Is(v) /\ connected' = Removed(connected, v)
        /\ activeVehicle' = IF connected' = <<>> THEN NoVehicle ELSE connected'[1]
        /\ calls' = ToViews("activeVehicleChanged", "mission", FALSE)
        /\ Forget(v)
        /\ stateIndex' = [stateIndex EXCEPT ![v] = 0]
        /\ awaited' = [awaited EXCEPT ![v] = {}]
        /\ firstLoad' = [firstLoad EXCEPT ![v] = Elements]
        /\ initialPlanRequestComplete' = [initialPlanRequestComplete EXCEPT ![v] = FALSE]
        /\ link' = [link EXCEPT ![v] = TRUE]
        /\ uploadTo' = IF uploadTo = v THEN NoVehicle ELSE uploadTo
        /\ failed' = {f \in failed : f[1] # v}
        /\ uploading' = NotDrawn
        /\ UNCHANGED <<outages, masterVars, drawn>>
    BY DEF VehicleGoes
  <1>2. calls' \in Seq(CallType) /\ Slots' = {Avc(w) : w \in Views} /\ MachineFirst'
    BY <1>1, ViewsTold
  <1>3. /\ connected' \in Seq(Vehicles)
        /\ \A i, j \in DOMAIN connected' : connected'[i] = connected'[j] => i = j
        /\ \A u : Is(u)' <=> Is(u) /\ u # v
        /\ connected' # <<>> => \E u \in Vehicles : u = connected'[1] /\ Is(u)'
    BY <1>1, GoesFacts DEF Base
  <1>4. /\ activeVehicle' \in Vehicles \cup {NoVehicle} /\ activeVehicle' # v
        /\ activeVehicle' = NoVehicle <=> connected' = <<>>
        /\ \A u : u = activeVehicle' /\ u # NoVehicle => Is(u)'
    <2>1. CASE connected' = <<>>
      BY <1>1, <2>1, ElementFacts
    <2>2. CASE connected' # <<>>
      <3>1. PICK u \in Vehicles : u = connected'[1] /\ Is(u)'
        BY <1>3, <2>2
      <3>2. activeVehicle' = u
        BY <1>1, <2>2, <3>1
      <3> QED  BY <1>3, <2>2, <3>1, <3>2, ElementFacts
    <2> QED  BY <2>1, <2>2
  <1>5. Forgotten(v)
    BY <1>1, ForgetFacts DEF Base
  <1>6. /\ stateIndex \in [Vehicles -> 0 .. Finished]
        /\ awaited \in [Vehicles -> SUBSET AnsweredStates]
        /\ firstLoad \in [Vehicles -> SUBSET Elements]
        /\ initialPlanRequestComplete \in [Vehicles -> BOOLEAN]
        /\ link \in [Vehicles -> BOOLEAN]
        /\ outages \in 0 .. MaxOutages
    BY DEF Base, Types, ConnectTypeOK
  <1>7. /\ stateIndex' \in [Vehicles -> 0 .. Finished]
        /\ awaited' \in [Vehicles -> SUBSET AnsweredStates]
        /\ firstLoad' \in [Vehicles -> SUBSET Elements]
    BY <1>1, <1>6, Numbers
  <1>8. /\ initialPlanRequestComplete' \in [Vehicles -> BOOLEAN]
        /\ link' \in [Vehicles -> BOOLEAN]
    BY <1>1, <1>6, Zenon
  <1>9. ConnectTypeOK'
    BY <1>1, <1>6, <1>7, <1>8 DEF ConnectTypeOK
  <1>10. ASSUME NEW u \in Vehicles
         PROVE  /\ stateIndex'[u] = IF u = v THEN 0 ELSE stateIndex[u]
                /\ awaited'[u] = IF u = v THEN {} ELSE awaited[u]
                /\ firstLoad'[u] = IF u = v THEN Elements ELSE firstLoad[u]
    BY <1>1, <1>6
  <1>11. ASSUME NEW u \in Vehicles, u # v
         PROVE  /\ initialPlanRequestComplete'[u] = initialPlanRequestComplete[u]
                /\ link'[u] = link[u]
    BY <1>1, <1>6, <1>11, Zenon
  <1>12. link'[v] = TRUE
    BY <1>1, <1>6, Zenon
  <1> QED  BY <1>1, <1>2, <1>3, <1>4, <1>5, <1>9, <1>10, <1>11, <1>12, Zenon

LEMMA ForgottenIdle ==
    ASSUME NEW v \in Vehicles, Forgotten(v)
    PROVE  Idle(v)' /\ \A u \in Vehicles : u # v => (Idle(u)' <=> Idle(u))
  BY DEF Forgotten, Idle, inProgress

LEMMA VehicleGoesBase ==
    ASSUME Base, NEW v \in Vehicles, VehicleGoes(v)
    PROVE  Base'
  <1>1. /\ calls = <<>> /\ Is(v) /\ calls' \in Seq(CallType) /\ MachineFirst'
        /\ Slots' = {Avc(w) : w \in Views}
        /\ connected' \in Seq(Vehicles)
        /\ \A i, j \in DOMAIN connected' : connected'[i] = connected'[j] => i = j
        /\ \A u : Is(u)' <=> Is(u) /\ u # v
        /\ activeVehicle' \in Vehicles \cup {NoVehicle} /\ activeVehicle' # v
        /\ activeVehicle' = NoVehicle <=> connected' = <<>>
        /\ \A u : u = activeVehicle' /\ u # NoVehicle => Is(u)'
        /\ Forgotten(v)
        /\ ConnectTypeOK'
    BY VehicleGoesFacts
  <1>2. \A u \in Vehicles :
           /\ stateIndex'[u] = IF u = v THEN 0 ELSE stateIndex[u]
           /\ awaited'[u] = IF u = v THEN {} ELSE awaited[u]
           /\ firstLoad'[u] = IF u = v THEN Elements ELSE firstLoad[u]
    BY VehicleGoesFacts
  <1>3. /\ uploadTo' = IF uploadTo = v THEN NoVehicle ELSE uploadTo
        /\ failed' = {f \in failed : f[1] # v}
        /\ uploading' = NotDrawn
        /\ UNCHANGED <<masterVars, drawn>>
    BY VehicleGoesFacts
  <1>4. Stack'
    <2>1. Slots' \cap TransferCalls = {} /\ Slots' \cap MachineCalls = {}
      BY <1>1, CallKinds
    <2>2. \A u \in Vehicles : ~Machine(u)'
      BY <2>1 DEF Machine
    <2> QED  BY <1>1, <2>1, <2>2 DEF Stack
  <1>5. ManagersTypeOK'
    BY <1>1 DEF Forgotten, ManagersTypeOK, Base, Types
  <1>6. HistoryType'
    BY <1>3, ElementFacts DEF HistoryType, Base, Types, NotDrawn
  <1>7. Types'
    BY <1>1, <1>3, <1>5, <1>6, TypesKept DEF Base, Types, FleetType
  <1>8. Fleet'
    <2>1. activeVehicle' # NoVehicle => Is(activeVehicle)'
      BY <1>1 DEF Is
    <2>2. ASSUME NEW u \in Vehicles, ~Is(u)'
          PROVE  stateIndex'[u] = 0 /\ awaited'[u] = {} /\ firstLoad'[u] = Elements /\ Idle(u)'
      <3>1. CASE u = v
        BY <1>1, <1>2, <3>1, ForgottenIdle
      <3>2. CASE u # v
        <4>1. ~Is(u)
          BY <1>1, <2>2, <3>2
        <4>2. stateIndex[u] = 0 /\ awaited[u] = {} /\ firstLoad[u] = Elements /\ Idle(u)
          BY <4>1 DEF Base, Fleet
        <4> QED  BY <1>1, <1>2, <3>2, <4>2, ForgottenIdle
      <3> QED  BY <3>1, <3>2
    <2> QED  BY <1>1, <2>1, <2>2, Zenon DEF Fleet
  <1> QED  BY <1>4, <1>7, <1>8 DEF Base

LEMMA SetActiveFacts ==
    ASSUME Base, NEW v \in Vehicles, SetActiveVehicle(v)
    PROVE  /\ calls = <<>> /\ Is(v) /\ ~prompting /\ v # activeVehicle
           /\ calls' \in Seq(CallType) /\ MachineFirst'
           /\ Slots' = {Avc(w) : w \in Views}
           /\ activeVehicle' = v
           /\ UNCHANGED <<managerVars, connectVars, connected, masterVars, historyVars>>
  BY ViewsTold DEF SetActiveVehicle

LEMMA SetActiveBase ==
    ASSUME Base, NEW v \in Vehicles, SetActiveVehicle(v)
    PROVE  Base'
  <1>1. /\ calls = <<>> /\ Is(v) /\ calls' \in Seq(CallType) /\ MachineFirst'
        /\ Slots' = {Avc(w) : w \in Views}
        /\ activeVehicle' = v
        /\ UNCHANGED <<managerVars, connectVars, connected, masterVars, historyVars>>
    BY SetActiveFacts
  <1>2. Stack'
    <2>1. Slots' \cap TransferCalls = {} /\ Slots' \cap MachineCalls = {}
      BY <1>1, CallKinds
    <2>2. \A u \in Vehicles : ~Machine(u)'
      BY <2>1 DEF Machine
    <2> QED  BY <1>1, <2>1, <2>2 DEF Stack
  <1>3. Types'
    BY <1>1, TypesKept DEF Base, Types, FleetType
  <1>4. Fleet'
    <2>1. \A u : Is(u)' <=> Is(u)
      BY <1>1 DEF Is
    <2>2. Is(activeVehicle)' /\ activeVehicle' # NoVehicle
      BY <1>1, ElementFacts DEF Is
    <2>3. connected' # <<>>
      <3>1. connected # <<>>
        BY <1>1, EmptySeq, LenProperties DEF Is, Base, Types, FleetType
      <3> QED  BY <1>1, <3>1
    <2>4. ASSUME NEW u \in Vehicles, ~Is(u)'
          PROVE  stateIndex'[u] = 0 /\ awaited'[u] = {} /\ firstLoad'[u] = Elements /\ Idle(u)'
      <3>1. stateIndex[u] = 0 /\ awaited[u] = {} /\ firstLoad[u] = Elements /\ Idle(u)
        BY <2>1, <2>4 DEF Base, Fleet
      <3> QED  BY <1>1, <3>1, IdleKept DEF connectVars
    <2> QED  BY <1>1, <2>2, <2>3, <2>4, Zenon DEF Base, Fleet
  <1> QED  BY <1>2, <1>3, <1>4 DEF Base

(* A view is told: it keeps what it shows, empties, or shows the new active   *)
(* vehicle's plan.                                                            *)
Takes(w) ==
    \/ /\ managerVehicle[w] = activeVehicle \/ MustAsk(w)
       /\ UNCHANGED <<connectVars, items, dirty, itemsRequested>>
    \/ /\ activeVehicle = NoVehicle /\ managerVehicle[w] # activeVehicle /\ ~MustAsk(w)
       /\ Emptied(w)
       /\ UNCHANGED <<connectVars, itemsRequested>>
    \/ /\ activeVehicle = NoVehicle /\ managerVehicle[w] # activeVehicle /\ ~MustAsk(w)
       /\ w = "Plan" /\ ~containsItems(w)
       /\ UNCHANGED <<connectVars, items, dirty, itemsRequested>>
    \/ /\ activeVehicle \in Vehicles /\ managerVehicle[w] # activeVehicle /\ ~MustAsk(w)
       /\ \E complete, shown : Showing(w, activeVehicle, complete, shown)
Asks(w) ==
    /\ prompting' \in BOOLEAN
    /\ prompting' <=> prompting \/ (managerVehicle[w] # activeVehicle /\ MustAsk(w))
Told(w) ==
    /\ Popped /\ Avc(w) \in Slots /\ calls # <<>> /\ Head(calls) = Avc(w)
    /\ managerVehicle' \in [Views -> Vehicles \cup {NoVehicle}]
    /\ \A u \in Views : managerVehicle'[u] = IF u = w THEN activeVehicle ELSE managerVehicle[u]
    /\ Asks(w)
    /\ Takes(w)
    /\ UNCHANGED <<managerVars, chain, connected, activeVehicle, historyVars>>

LEMMA ToldFacts ==
    ASSUME Base, NEW w \in Views, ActiveVehicleChanged(w)
    PROVE  Told(w)
  <1>1. calls # <<>> /\ Head(calls) = Avc(w)
    BY DEF ActiveVehicleChanged, Running, Avc
  <1>2. Popped /\ Avc(w) \in Slots
    BY <1>1, ReturnsFacts DEF ActiveVehicleChanged, Base, Stack
  <1>3. /\ managerVehicle \in [Views -> Vehicles \cup {NoVehicle}] /\ prompting \in BOOLEAN
        /\ activeVehicle \in Vehicles \cup {NoVehicle}
    BY DEF Base, Types, MasterType, FleetType
  <1>4. /\ managerVehicle' \in [Views -> Vehicles \cup {NoVehicle}]
        /\ \A u \in Views : managerVehicle'[u] = IF u = w THEN activeVehicle ELSE managerVehicle[u]
    BY <1>3 DEF ActiveVehicleChanged
  <1>5. prompting' = (prompting \/ (managerVehicle[w] # activeVehicle /\ MustAsk(w)))
    BY DEF ActiveVehicleChanged
  <1>6. (prompting \/ (managerVehicle[w] # activeVehicle /\ MustAsk(w))) \in BOOLEAN
    BY <1>3, Zenon
  <1>7. Asks(w)
    BY <1>5, <1>6, Zenon DEF Asks
  <1>8. UNCHANGED <<managerVars, chain, connected, activeVehicle, historyVars>>
    BY DEF ActiveVehicleChanged
  <1>9. IF managerVehicle[w] = activeVehicle \/ MustAsk(w)
        THEN UNCHANGED <<connectVars, items, dirty, itemsRequested>>
        ELSE IF activeVehicle = NoVehicle
        THEN /\ IF w = "Fly" \/ containsItems(w) THEN RemoveAll(w)
                ELSE UNCHANGED <<items, dirty>>
             /\ UNCHANGED <<connectVars, itemsRequested>>
        ELSE ShowPlanFrom(w, activeVehicle)
    BY DEF ActiveVehicleChanged
  <1>10. Takes(w)
    <2>1. CASE managerVehicle[w] = activeVehicle \/ MustAsk(w)
      BY <1>9, <2>1 DEF Takes
    <2>2. CASE /\ ~(managerVehicle[w] = activeVehicle \/ MustAsk(w)) /\ activeVehicle = NoVehicle
               /\ w = "Fly" \/ containsItems(w)
      <3>1. Emptied(w) /\ UNCHANGED <<connectVars, itemsRequested>>
        BY <1>9, <2>2, RemoveAllFacts DEF Base
      <3> QED  BY <2>2, <3>1 DEF Takes
    <2>3. CASE /\ ~(managerVehicle[w] = activeVehicle \/ MustAsk(w)) /\ activeVehicle = NoVehicle
               /\ ~(w = "Fly" \/ containsItems(w))
      <3>1. UNCHANGED <<connectVars, items, dirty, itemsRequested>> /\ w = "Plan"
        BY <1>9, <2>3 DEF Views
      <3> QED  BY <2>3, <3>1 DEF Takes
    <2>4. CASE /\ ~(managerVehicle[w] = activeVehicle \/ MustAsk(w)) /\ activeVehicle # NoVehicle
      <3>1. ShowPlanFrom(w, activeVehicle) /\ activeVehicle \in Vehicles
        BY <1>3, <1>9, <2>4
      <3>2. \E complete, shown : Showing(w, activeVehicle, complete, shown)
        BY <3>1, ShowPlanFacts DEF Base
      <3> QED  BY <2>4, <3>1, <3>2 DEF Takes
    <2> QED  BY <2>1, <2>2, <2>3, <2>4
  <1> QED  BY <1>1, <1>2, <1>4, <1>7, <1>8, <1>10 DEF Told

LEMMA ShowingTypes ==
    ASSUME Types, NEW w, NEW v, NEW complete, NEW shown, Showing(w, v, complete, shown)
    PROVE  /\ ConnectTypeOK'
           /\ items' \in [Views -> [Elements -> Contents]]
           /\ dirty' \in [Views -> [Elements -> BOOLEAN]]
           /\ itemsRequested' \in [Views -> SUBSET Elements]
           /\ UNCHANGED <<stateIndex, awaited, firstLoad, link, outages>>
  BY DEF Types, ConnectTypeOK, Showing, Shown

LEMMA ToldBase ==
    ASSUME Base, NEW w \in Views, ActiveVehicleChanged(w)
    PROVE  Base'
  <1>1. Told(w)
    BY ToldFacts
  <1>2. /\ Popped /\ Avc(w) \in Slots /\ Head(calls) = Avc(w)
        /\ managerVehicle' \in [Views -> Vehicles \cup {NoVehicle}]
        /\ \A u \in Views : managerVehicle'[u] = IF u = w THEN activeVehicle ELSE managerVehicle[u]
        /\ prompting' \in BOOLEAN
        /\ UNCHANGED <<managerVars, chain, connected, activeVehicle, historyVars>>
    BY <1>1, Zenon DEF Told, Asks
  <1>3. /\ ConnectTypeOK' /\ UNCHANGED <<stateIndex, awaited, firstLoad>>
        /\ items' \in [Views -> [Elements -> Contents]]
        /\ dirty' \in [Views -> [Elements -> BOOLEAN]]
        /\ itemsRequested' \in [Views -> SUBSET Elements]
    <2>1. CASE UNCHANGED <<connectVars, items, dirty, itemsRequested>>
      <3>1. UNCHANGED connectVars
        BY <2>1
      <3> QED  BY <2>1, <3>1, TypesKept DEF Base, Types, MasterType, connectVars
    <2>2. CASE Emptied(w) /\ UNCHANGED <<connectVars, itemsRequested>>
      <3>1. UNCHANGED connectVars
        BY <2>2
      <3> QED  BY <2>2, <3>1, TypesKept DEF Base, Types, MasterType, connectVars, Emptied
    <2>3. CASE \E complete, shown : Showing(w, activeVehicle, complete, shown)
      BY <2>3, ShowingTypes DEF Base
    <2> QED  BY <1>1, <2>1, <2>2, <2>3 DEF Told, Takes
  <1>4. Slots \cap TransferCalls = {}
    BY <1>2 DEF Base, Stack
  <1>5. Stack'
    <2>1. \A u \in Views : managerVehicle'[u] = activeVehicle' \/ Avc(u) \in Slots'
      <3>1. ASSUME NEW u \in Views, u # w PROVE Avc(u) # Avc(w)
        BY <3>1, AvcFacts
      <3>2. ASSUME NEW u \in Views, u # w, managerVehicle[u] # activeVehicle PROVE Avc(u) \in Slots'
        BY <1>2, <3>1, <3>2 DEF Base, Stack, Popped
      <3> QED  BY <1>2, <3>2
    <2>2. Slots' \cap TransferCalls = {} /\ Slots' \cap MachineCalls = {}
      BY <1>2, <1>4 DEF Popped
    <2>3. \A u \in Vehicles : ~Machine(u)'
      BY <2>2 DEF Machine
    <2> QED  BY <1>2, <2>1, <2>2, <2>3 DEF Stack, Popped
  <1>6. Types'
    <2>1. ManagersTypeOK' /\ HistoryType'
      BY <1>2, TypesKept DEF Base
    <2>2. FleetType'
      BY <1>2 DEF Base, Types, FleetType, Popped
    <2>3. MasterType'
      BY <1>2, <1>3 DEF Base, Types, MasterType
    <2> QED  BY <1>3, <2>1, <2>2, <2>3 DEF Types
  <1>7. Fleet'
    <2>1. UNCHANGED <<connected, activeVehicle>> /\ UNCHANGED managerVars
      BY <1>2
    <2>2. \A u \in Vehicles : ~Is(u) =>
              /\ stateIndex'[u] = stateIndex[u] /\ awaited'[u] = awaited[u]
              /\ firstLoad'[u] = firstLoad[u]
              /\ Idle(u) => Idle(u)'
      BY <1>3, <2>1, IdleKept
    <2> QED  BY <2>1, <2>2, FleetKept DEF Base
  <1> QED  BY <1>5, <1>6, <1>7 DEF Base

-----------------------------------------------------------------------------
(* The slots of a transfer's end                                             *)

LEMMA NextFacts ==
    /\ NextElement["mission"] = "fence" /\ NextElement["fence"] = "rally"
    /\ LoadFlag["mission"] = "loadGeoFence" /\ LoadFlag["fence"] = "loadRallyPoints"
    /\ SendFlag["mission"] = "sendGeoFence" /\ SendFlag["fence"] = "sendRallyPoints"
    /\ DOMAIN LoadFlag = {"mission", "fence"} /\ DOMAIN SendFlag = {"mission", "fence"}
    /\ \A e \in {"mission", "fence"} :
          e \in Elements /\ NextElement[e] \in Elements /\ Position[NextElement[e]] = Position[e] + 1
  <1>1. /\ NextElement["mission"] = "fence" /\ NextElement["fence"] = "rally"
        /\ LoadFlag["mission"] = "loadGeoFence" /\ LoadFlag["fence"] = "loadRallyPoints"
        /\ SendFlag["mission"] = "sendGeoFence" /\ SendFlag["fence"] = "sendRallyPoints"
        /\ DOMAIN LoadFlag = {"mission", "fence"} /\ DOMAIN SendFlag = {"mission", "fence"}
    BY DEF NextElement, LoadFlag, SendFlag
  <1> QED  BY <1>1, PositionFacts DEF Elements

(* The flag of e is traded for that of the next element.                      *)
Traded(w, flag, e) ==
    /\ chain' \in [Views -> SUBSET Chain]
    /\ \A u \in Views : chain'[u] =
          IF u = w THEN (chain[w] \ {flag[e]}) \cup (IF e = "mission" THEN {flag["fence"]} ELSE {})
          ELSE chain[u]

LEMMA TakeFlagFacts ==
    ASSUME Types, NEW w \in Views, NEW e \in {"mission", "fence"},
           NEW flag \in {LoadFlag, SendFlag}, TakeFlag(w, flag, e)
    PROVE  Traded(w, flag, e)
  <1> DEFINE new == {flag[n] : n \in {NextElement[e]} \cap DOMAIN flag}
  <1>1. chain \in [Views -> SUBSET Chain]
    BY DEF Types, MasterType
  <1>2. DOMAIN flag = {"mission", "fence"} /\ flag["fence"] \in Chain
    BY NextFacts DEF Chain
  <1>3. new = IF e = "mission" THEN {flag["fence"]} ELSE {}
    <2>1. CASE e = "mission"
      BY <1>2, <2>1, NextFacts
    <2>2. CASE e = "fence"
      BY <1>2, <2>2, NextFacts
    <2> QED  BY <2>1, <2>2
  <1>4. chain' = [chain EXCEPT ![w] = (chain[w] \ {flag[e]}) \cup new]
    BY <1>1 DEF TakeFlag
  <1> HIDE DEF new
  <1>5. new \subseteq Chain
    BY <1>2, <1>3
  <1> QED  BY <1>1, <1>3, <1>4, <1>5 DEF Traded

SlotSteady == UNCHANGED <<connectVars, connected, activeVehicle, managerVehicle, prompting, historyVars>>

(* The end of a load: nothing more, or the next element's load, or its turn   *)
(* when the vehicle does not support it.                                      *)
NothingMore == Popped /\ UNCHANGED <<managerVars, chain, items, dirty, itemsRequested>>
LoadsNext(w, n) ==
    /\ n \in Supports[activeVehicle]
    /\ Popped /\ Started(activeVehicle, {n}, Reading) /\ items' = items
    /\ itemsRequested' \in [Views -> SUBSET Elements]
    /\ \A u \in Views : itemsRequested'[u] =
          IF u = w /\ ~inProgress(activeVehicle, n) THEN itemsRequested[u] \cup {n}
          ELSE itemsRequested[u]
SkipsLoad(w, n, error) ==
    /\ n \notin Supports[activeVehicle]
    /\ Replaced(Call("loadComplete", w, n, error))
    /\ items' \in [Views -> [Elements -> Contents]]
    /\ \A u \in Views, x \in Elements :
          items'[u][x] = IF u = w /\ x = n THEN NoItems ELSE items[u][x]
    /\ UNCHANGED <<managerVars, itemsRequested>>
Cleaned(w, S) ==
    /\ dirty' \in [Views -> [Elements -> BOOLEAN]]
    /\ \A u \in Views, x \in Elements :
          dirty'[u][x] = IF u = w /\ x \in S THEN FALSE ELSE dirty[u][x]
Loaded(w, e, error) ==
    \/ (e = "rally" \/ LoadFlag[e] \notin chain[w]) /\ NothingMore
    \/ /\ e \in {"mission", "fence"} /\ LoadFlag[e] \in chain[w]
       /\ Traded(w, LoadFlag, e)
       /\ Cleaned(w, Elements)
       /\ LoadsNext(w, NextElement[e]) \/ SkipsLoad(w, NextElement[e], error)

LEMMA CleanedFacts ==
    ASSUME Types, NEW w \in Views, NEW S \in SUBSET Elements, SetDirty(w, S, FALSE)
    PROVE  Cleaned(w, S)
  <1>1. FALSE \in BOOLEAN
    OBVIOUS
  <1> QED  BY <1>1, SetDirtyFacts DEF Cleaned

LEMMA LoadCompleteFacts ==
    ASSUME Base, NEW w \in Views, NEW e \in Elements, NEW error \in BOOLEAN,
           LoadComplete(w, e, error)
    PROVE  /\ Loaded(w, e, error)
           /\ Running(Call("loadComplete", w, e, error))
           /\ SlotSteady
  <1> DEFINE n == NextElement[e]
  <1>1. Running(Call("loadComplete", w, e, error)) /\ SlotSteady
    BY DEF LoadComplete, SlotSteady
  <1>2. calls # <<>> /\ managerVehicle[w] = activeVehicle /\ activeVehicle \in Vehicles
    BY <1>1, TransferCallRuns DEF ViewSlotNames
  <1>3. Returns => Popped
    BY <1>2, ReturnsFacts DEF Base, Stack
  <1>4. CASE e = "rally" \/ LoadFlag[e] \notin chain[w]
    <2>1. Returns /\ UNCHANGED <<managerVars, chain, items, dirty, itemsRequested>>
      BY <1>4 DEF LoadComplete
    <2>2. NothingMore
      BY <1>3, <2>1 DEF NothingMore
    <2> QED  BY <1>1, <1>4, <2>2 DEF Loaded
  <1>5. CASE ~(e = "rally" \/ LoadFlag[e] \notin chain[w])
    <2>1. /\ TakeFlag(w, LoadFlag, e)
          /\ SetDirty(w, Elements, FALSE)
          /\ IF supported(w, n)
             THEN /\ Returns
                  /\ IF busy(w, n) THEN UNCHANGED itemsRequested ELSE AskFor(w, {n})
                  /\ Start(managerVehicle[w], {n}, Reading)
                  /\ UNCHANGED items
             ELSE /\ GoOn("loadComplete", w, n, error)
                  /\ SetItems(w, {n}, AllOf(NoItems))
                  /\ UNCHANGED <<managerVars, itemsRequested>>
      BY <1>5 DEF LoadComplete
    <2>2. e \in {"mission", "fence"} /\ n \in Elements
      BY <1>5, NextFacts DEF Elements
    <2> HIDE DEF n
    <2>3. Traded(w, LoadFlag, e)
      BY <2>1, <2>2, TakeFlagFacts DEF Base
    <2>4. Cleaned(w, Elements)
      BY <2>1, CleanedFacts DEF Base
    <2>5. CASE supported(w, n)
      <3>1. n \in Supports[activeVehicle]
        BY <1>2, <2>5 DEF supported
      <3>2. Started(activeVehicle, {n}, Reading)
        BY <1>2, <2>1, <2>2, <2>5, StartFacts, TransferFacts DEF Base
      <3>3. busy(w, n) <=> inProgress(activeVehicle, n)
        BY <1>2, ElementFacts DEF busy, offline
      <3>4. /\ itemsRequested' \in [Views -> SUBSET Elements]
            /\ \A u \in Views : itemsRequested'[u] =
                  IF u = w /\ ~inProgress(activeVehicle, n) THEN itemsRequested[u] \cup {n}
                  ELSE itemsRequested[u]
        <4>1. CASE inProgress(activeVehicle, n)
          <5>1. itemsRequested' = itemsRequested
            BY <2>1, <2>5, <3>3, <4>1
          <5> QED  BY <4>1, <5>1 DEF Base, Types, MasterType
        <4>2. CASE ~inProgress(activeVehicle, n)
          <5>1. AskFor(w, {n})
            BY <2>1, <2>5, <3>3, <4>2
          <5> QED  BY <2>2, <4>2, <5>1, AskForFacts DEF Base
        <4> QED  BY <4>1, <4>2
      <3>5. LoadsNext(w, n)
        BY <1>3, <2>1, <2>5, <3>1, <3>2, <3>4 DEF LoadsNext
      <3> QED  BY <1>1, <1>5, <2>2, <2>3, <2>4, <3>5 DEF Loaded, n
    <2>6. CASE ~supported(w, n)
      <3>1. n \notin Supports[activeVehicle]
        BY <1>2, <2>6 DEF supported
      <3>2. Call("loadComplete", w, n, error) \in CallType
        BY <2>2, TransferCallFacts DEF CallType, ViewSlotNames
      <3>3. Replaced(Call("loadComplete", w, n, error))
        BY <1>2, <2>1, <2>6, <3>2, ThenFacts DEF GoOn, Base, Stack
      <3>4. AllOf(NoItems) \in [Elements -> Contents] /\ \A x \in Elements : AllOf(NoItems)[x] = NoItems
        BY ElementFacts DEF AllOf
      <3>5. /\ items' \in [Views -> [Elements -> Contents]]
            /\ \A u \in Views, x \in Elements :
                  items'[u][x] = IF u = w /\ x \in {n} THEN AllOf(NoItems)[x] ELSE items[u][x]
        <4> DEFINE S == {n}
                   f == AllOf(NoItems)
        <4>1. SetItems(w, S, f) /\ S \in SUBSET Elements /\ f \in [Elements -> Contents] /\ Types
          BY <2>1, <2>2, <2>6, <3>4 DEF Base
        <4> HIDE DEF S, f
        <4>2. Filled(w, S, f)
          BY <4>1, SetItemsFacts
        <4> QED  BY <4>2 DEF Filled, S, f
      <3>6. SkipsLoad(w, n, error)
        BY <2>1, <2>6, <3>1, <3>3, <3>4, <3>5 DEF SkipsLoad
      <3> QED  BY <1>1, <1>5, <2>2, <2>3, <2>4, <3>6 DEF Loaded, n
    <2> QED  BY <2>5, <2>6
  <1> QED  BY <1>1, <1>4, <1>5

(* The end of a sending likewise.                                             *)
SendsNext(w, n) ==
    /\ n \in Supports[activeVehicle]
    /\ Popped /\ Started(activeVehicle, {n}, Writing(items[w][n]))
SkipsSend(w, n, error) ==
    /\ n \notin Supports[activeVehicle]
    /\ Replaced(Call("sendComplete", w, n, error))
    /\ UNCHANGED managerVars
Sent(w, e, error) ==
    \/ (e = "rally" \/ SendFlag[e] \notin chain[w]) /\ NothingMore
    \/ /\ e \in {"mission", "fence"} /\ SendFlag[e] \in chain[w]
       /\ Traded(w, SendFlag, e)
       /\ \E S \in SUBSET Elements : Cleaned(w, S)
       /\ SendsNext(w, NextElement[e]) \/ SkipsSend(w, NextElement[e], error)
       /\ UNCHANGED <<items, itemsRequested>>

LEMMA SendCompleteFacts ==
    ASSUME Base, NEW w \in Views, NEW e \in Elements, NEW error \in BOOLEAN,
           SendComplete(w, e, error)
    PROVE  /\ Sent(w, e, error)
           /\ Running(Call("sendComplete", w, e, error))
           /\ SlotSteady
  <1> DEFINE n == NextElement[e]
             S == IF e = "mission" THEN Elements
                  ELSE {n} \cap {x \in Elements : supported(w, x) /\ ~busy(w, x)}
  <1>1. /\ Running(Call("sendComplete", w, e, error)) /\ SlotSteady
        /\ UNCHANGED <<items, itemsRequested>>
    BY DEF SendComplete, SlotSteady
  <1>2. calls # <<>> /\ managerVehicle[w] = activeVehicle /\ activeVehicle \in Vehicles
    BY <1>1, TransferCallRuns DEF ViewSlotNames
  <1>3. Returns => Popped
    BY <1>2, ReturnsFacts DEF Base, Stack
  <1>4. CASE e = "rally" \/ SendFlag[e] \notin chain[w]
    BY <1>1, <1>3, <1>4 DEF SendComplete, Sent, NothingMore
  <1>5. CASE ~(e = "rally" \/ SendFlag[e] \notin chain[w])
    <2>1. /\ TakeFlag(w, SendFlag, e)
          /\ SetDirty(w, S, FALSE)
          /\ IF supported(w, n)
             THEN Returns /\ Start(managerVehicle[w], {n}, Writing(items[w][n]))
             ELSE GoOn("sendComplete", w, n, error) /\ UNCHANGED managerVars
      BY <1>5 DEF SendComplete
    <2>2. e \in {"mission", "fence"} /\ n \in Elements
      BY <1>5, NextFacts DEF Elements
    <2>3. S \in SUBSET Elements
      OBVIOUS
    <2> HIDE DEF n, S
    <2>4. Traded(w, SendFlag, e)
      BY <2>1, <2>2, TakeFlagFacts DEF Base
    <2>5. \E T \in SUBSET Elements : Cleaned(w, T)
      BY <2>1, <2>3, CleanedFacts DEF Base
    <2>6. items[w][n] \in Contents
      BY <2>2 DEF Base, Types, MasterType
    <2>7. SendsNext(w, n) \/ SkipsSend(w, n, error)
      <3>1. CASE supported(w, n)
        <4>1. n \in Supports[activeVehicle]
          BY <1>2, <3>1 DEF supported
        <4>2. Started(activeVehicle, {n}, Writing(items[w][n]))
          BY <1>2, <2>1, <2>2, <2>6, <3>1, StartFacts, TransferFacts DEF Base
        <4> QED  BY <1>3, <2>1, <3>1, <4>1, <4>2 DEF SendsNext
      <3>2. CASE ~supported(w, n)
        <4>1. n \notin Supports[activeVehicle]
          BY <1>2, <3>2 DEF supported
        <4>2. Call("sendComplete", w, n, error) \in CallType
          BY <2>2, TransferCallFacts DEF CallType, ViewSlotNames
        <4>3. Replaced(Call("sendComplete", w, n, error))
          BY <1>2, <2>1, <3>2, <4>2, ThenFacts DEF GoOn, Base, Stack
        <4> QED  BY <2>1, <3>2, <4>1, <4>3 DEF SkipsSend
      <3> QED  BY <3>1, <3>2
    <2> QED  BY <1>1, <1>5, <2>2, <2>4, <2>5, <2>7 DEF Sent, n
  <1> QED  BY <1>1, <1>4, <1>5

(* A transfer's slot that starts a transfer at most, or calls the next.       *)
LEMMA SlotBase ==
    ASSUME Base, NEW slot \in ViewSlotNames, NEW w \in Views, NEW e \in Elements,
           NEW error \in BOOLEAN, Running(Call(slot, w, e, error)), SlotSteady,
           Popped \/ \E x \in Elements : Replaced(Call(slot, w, x, error)),
           UNCHANGED managerVars \/ \E S, t : Started(activeVehicle, S, t),
           chain' \in [Views -> SUBSET Chain],
           items' \in [Views -> [Elements -> Contents]],
           dirty' \in [Views -> [Elements -> BOOLEAN]],
           itemsRequested' \in [Views -> SUBSET Elements]
    PROVE  Base'
  <1>1. /\ Head(calls) = Call(slot, w, e, error)
        /\ managerVehicle[w] = activeVehicle
        /\ activeVehicle \in Vehicles /\ Is(activeVehicle)
        /\ \A u \in Views : Avc(u) \notin Slots
    BY TransferCallRuns
  <1>2. Steady
    BY DEF SlotSteady, Steady
  <1>3. \A x \in Elements : Call(slot, w, x, error) \in TransferCalls /\ Call(slot, w, x, error).of = w
    BY TransferCallFacts, CallFacts
  <1>4. \A u, x \in Elements : Call(slot, w, x, error) # Avc(u)
    BY <1>3, CallKinds
  <1>5. \A u \in Views : Head(calls) # Avc(u)
    BY <1>1, <1>3, CallKinds
  <1>6. ASSUME NEW x \in Elements, Replaced(Call(slot, w, x, error)) PROVE Stack'
    <2>1. /\ Call(slot, w, x, error) \in TransferCalls /\ Call(slot, w, x, error).of = w
          /\ Call(slot, w, x, error) \notin MachineCalls
          /\ \A u : Call(slot, w, x, error) # Avc(u)
      BY <1>3, CallKinds
    <2> QED  BY <1>1, <1>2, <1>5, <1>6, <2>1, ElementFacts, StackReplaced
  <1>7. Stack'
    BY <1>2, <1>5, <1>6, StackPopped
  <1>8. calls' \in Seq(CallType)
    BY DEF Popped, Replaced
  <1>9. Types'
    <2>1. ManagersTypeOK'
      BY TypesKept, StartedTypes DEF Base
    <2>2. ConnectTypeOK' /\ HistoryType'
      BY TypesKept DEF Base, SlotSteady
    <2>3. FleetType'
      BY <1>8 DEF Base, Types, FleetType, SlotSteady
    <2>4. MasterType'
      BY DEF Base, Types, MasterType, SlotSteady
    <2> QED  BY <2>1, <2>2, <2>3, <2>4 DEF Types
  <1>10. Fleet'
    <2>1. UNCHANGED <<connected, activeVehicle>> /\ UNCHANGED connectVars
      BY DEF SlotSteady
    <2>2. \A u \in Vehicles : ~Is(u) => (Idle(u) => Idle(u)')
      BY <1>1, IdleKept, StartedKeepsFleet
    <2> QED  BY <2>1, <2>2, FleetKept DEF Base, connectVars
  <1> QED  BY <1>7, <1>9, <1>10 DEF Base

LEMMA LoadCompleteBase ==
    ASSUME Base, NEW w \in Views, NEW e \in Elements, NEW error \in BOOLEAN,
           LoadComplete(w, e, error)
    PROVE  Base'
  <1>1. Loaded(w, e, error) /\ Running(Call("loadComplete", w, e, error)) /\ SlotSteady
    BY LoadCompleteFacts
  <1>2. "loadComplete" \in ViewSlotNames
    BY DEF ViewSlotNames
  <1>3. MasterType
    BY DEF Base, Types
  <1>4. CASE NothingMore
    BY <1>1, <1>2, <1>3, <1>4, SlotBase DEF NothingMore, MasterType
  <1>5. CASE /\ e \in {"mission", "fence"} /\ Traded(w, LoadFlag, e) /\ Cleaned(w, Elements)
             /\ LoadsNext(w, NextElement[e]) \/ SkipsLoad(w, NextElement[e], error)
    <2>1. chain' \in [Views -> SUBSET Chain] /\ dirty' \in [Views -> [Elements -> BOOLEAN]]
      BY <1>5 DEF Traded, Cleaned
    <2>2. NextElement[e] \in Elements
      BY <1>5, NextFacts
    <2>3. CASE LoadsNext(w, NextElement[e])
      BY <1>1, <1>2, <1>3, <2>1, <2>3, SlotBase DEF LoadsNext, MasterType
    <2>4. CASE SkipsLoad(w, NextElement[e], error)
      BY <1>1, <1>2, <1>3, <2>1, <2>2, <2>4, SlotBase DEF SkipsLoad, MasterType
    <2> QED  BY <1>5, <2>3, <2>4
  <1> QED  BY <1>1, <1>4, <1>5 DEF Loaded

LEMMA SendCompleteBase ==
    ASSUME Base, NEW w \in Views, NEW e \in Elements, NEW error \in BOOLEAN,
           SendComplete(w, e, error)
    PROVE  Base'
  <1>1. Sent(w, e, error) /\ Running(Call("sendComplete", w, e, error)) /\ SlotSteady
    BY SendCompleteFacts
  <1>2. "sendComplete" \in ViewSlotNames
    BY DEF ViewSlotNames
  <1>3. MasterType
    BY DEF Base, Types
  <1>4. CASE NothingMore
    BY <1>1, <1>2, <1>3, <1>4, SlotBase DEF NothingMore, MasterType
  <1>5. CASE /\ e \in {"mission", "fence"} /\ Traded(w, SendFlag, e)
             /\ \E S \in SUBSET Elements : Cleaned(w, S)
             /\ SendsNext(w, NextElement[e]) \/ SkipsSend(w, NextElement[e], error)
             /\ UNCHANGED <<items, itemsRequested>>
    <2>1. chain' \in [Views -> SUBSET Chain] /\ dirty' \in [Views -> [Elements -> BOOLEAN]]
      BY <1>5 DEF Traded, Cleaned
    <2>2. NextElement[e] \in Elements
      BY <1>5, NextFacts
    <2>3. CASE SendsNext(w, NextElement[e])
      BY <1>1, <1>2, <1>3, <1>5, <2>1, <2>3, SlotBase DEF SendsNext, MasterType
    <2>4. CASE SkipsSend(w, NextElement[e], error)
      BY <1>1, <1>2, <1>3, <1>5, <2>1, <2>2, <2>4, SlotBase DEF SkipsSend, MasterType
    <2> QED  BY <1>5, <2>3, <2>4
  <1> QED  BY <1>1, <1>4, <1>5 DEF Sent

(* The items of e are shown, or not.                                          *)
ShownOrNot(w, e, shows) ==
    /\ Popped /\ UNCHANGED <<managerVars, chain>>
    /\ shows => Shown(w, activeVehicle, {e})
    /\ ~shows => UNCHANGED <<items, dirty>>
    /\ itemsRequested' \in [Views -> SUBSET Elements]
    /\ \A u \in Views : u # w => itemsRequested'[u] = itemsRequested[u]

LEMMA NewItemsFacts ==
    ASSUME Base, NEW w \in Views, NEW e \in Elements, NEW error \in BOOLEAN,
           NewItems(w, e, error)
    PROVE  /\ ShownOrNot(w, e, w = "Fly" \/ e \in itemsRequested[w] \/ items[w][e] = NoItems)
           /\ itemsRequested'[w] = itemsRequested[w] \ {e}
           /\ Running(Call("newItems", w, e, error))
           /\ SlotSteady
  <1> DEFINE shows == w = "Fly" \/ e \in itemsRequested[w] \/ items[w][e] = NoItems
  <1>1. Running(Call("newItems", w, e, error)) /\ SlotSteady /\ UNCHANGED <<managerVars, chain>>
    BY DEF NewItems, SlotSteady
  <1>2. calls # <<>> /\ managerVehicle[w] = activeVehicle /\ activeVehicle \in Vehicles
    BY <1>1, TransferCallRuns DEF ViewSlotNames
  <1>3. Popped
    BY <1>2, ReturnsFacts DEF NewItems, Base, Stack
  <1>4. IF shows THEN Show(w, managerVehicle[w], {e}) ELSE UNCHANGED <<items, dirty>>
    BY DEF NewItems
  <1> HIDE DEF shows
  <1>5. shows => Shown(w, activeVehicle, {e})
    BY <1>2, <1>4, ShowFacts DEF Base
  <1>6. /\ itemsRequested' \in [Views -> SUBSET Elements]
        /\ \A u \in Views : u # w => itemsRequested'[u] = itemsRequested[u]
        /\ itemsRequested'[w] = itemsRequested[w] \ {e}
    <2>1. itemsRequested \in [Views -> SUBSET Elements]
      BY DEF Base, Types, MasterType
    <2> QED  BY <2>1 DEF NewItems
  <1>7. ShownOrNot(w, e, shows)
    BY <1>1, <1>3, <1>4, <1>5, <1>6 DEF ShownOrNot
  <1> QED  BY <1>1, <1>6, <1>7 DEF shows

LEMMA ShownOrNotBase ==
    ASSUME Base, NEW slot \in ViewSlotNames, NEW w \in Views, NEW e \in Elements,
           NEW error \in BOOLEAN, NEW shows, Running(Call(slot, w, e, error)), SlotSteady,
           ShownOrNot(w, e, shows)
    PROVE  Base'
  <1>1. /\ items' \in [Views -> [Elements -> Contents]]
        /\ dirty' \in [Views -> [Elements -> BOOLEAN]]
        /\ chain' \in [Views -> SUBSET Chain]
        /\ itemsRequested' \in [Views -> SUBSET Elements]
    <2>1. MasterType
      BY DEF Base, Types
    <2>2. CASE shows
      BY <2>1, <2>2 DEF ShownOrNot, Shown, MasterType
    <2>3. CASE ~shows
      BY <2>1, <2>3 DEF ShownOrNot, MasterType
    <2> QED  BY <2>2, <2>3
  <1>2. Popped /\ UNCHANGED managerVars
    BY DEF ShownOrNot
  <1> QED  BY <1>1, <1>2, SlotBase

ManagerSlots == {"managerSendComplete", "managerRemoveAllComplete"}
Refreshes(slot, w, e, error) ==
    ShowsAfter(slot, w, error) /\ initialPlanRequestComplete[activeVehicle]
    /\ ~inProgress(activeVehicle, e)

(* What becomes of the view's request for the element.                        *)
RequestAfter(slot, w, e, error) ==
    /\ ~ShowsAfter(slot, w, error) => itemsRequested'[w] = itemsRequested[w]
    /\ Refreshes(slot, w, e, error) => itemsRequested'[w] = itemsRequested[w] \ {e}
LEMMA ManagerCompleteFacts ==
    ASSUME Base, NEW slot \in ManagerSlots, NEW w \in Views, NEW e \in Elements,
           NEW error \in BOOLEAN, ManagerComplete(slot, w, e, error)
    PROVE  /\ ShownOrNot(w, e, Refreshes(slot, w, e, error))
           /\ RequestAfter(slot, w, e, error)
           /\ Running(Call(slot, w, e, error))
           /\ SlotSteady
  <1> DEFINE shows == ShowsAfter(slot, w, error)
             ready == initialPlanRequestComplete[managerVehicle[w]] /\ ~busy(w, e)
             refreshes == Refreshes(slot, w, e, error)
  <1>1. Running(Call(slot, w, e, error)) /\ SlotSteady /\ UNCHANGED <<managerVars, chain>>
    BY DEF ManagerComplete, SlotSteady
  <1>2. calls # <<>> /\ managerVehicle[w] = activeVehicle /\ activeVehicle \in Vehicles
    BY <1>1, TransferCallRuns DEF ViewSlotNames, ManagerSlots
  <1>3. Popped
    BY <1>2, ReturnsFacts DEF ManagerComplete, Base, Stack
  <1>4. busy(w, e) <=> inProgress(activeVehicle, e)
    BY <1>2, ElementFacts DEF busy, offline
  <1>5. refreshes <=> shows /\ ready
    BY <1>2, <1>4, Zenon DEF Refreshes
  <1>6. /\ IF shows /\ ready THEN Show(w, managerVehicle[w], {e}) ELSE UNCHANGED <<items, dirty>>
        /\ itemsRequested' =
              [itemsRequested EXCEPT ![w] =
                  IF ~shows THEN @
                  ELSE IF ready THEN @ \ {e} ELSE @ \cup ({e} \cap {"fence"})]
    BY DEF ManagerComplete
  <1> HIDE DEF shows, ready, refreshes
  <1>7. refreshes => Shown(w, activeVehicle, {e})
    BY <1>2, <1>5, <1>6, ShowFacts DEF Base
  <1>8. ~refreshes => UNCHANGED <<items, dirty>>
    BY <1>5, <1>6
  <1>9. /\ itemsRequested' \in [Views -> SUBSET Elements]
        /\ \A u \in Views : u # w => itemsRequested'[u] = itemsRequested[u]
        /\ ~shows => itemsRequested'[w] = itemsRequested[w]
        /\ refreshes => itemsRequested'[w] = itemsRequested[w] \ {e}
    <2>1. itemsRequested \in [Views -> SUBSET Elements]
      BY DEF Base, Types, MasterType
    <2>2. CASE ~shows
      BY <1>5, <1>6, <2>1, <2>2
    <2>3. CASE shows /\ ready
      BY <1>5, <1>6, <2>1, <2>3
    <2>4. CASE shows /\ ~ready
      BY <1>5, <1>6, <2>1, <2>4
    <2> QED  BY <2>2, <2>3, <2>4
  <1>10. ShownOrNot(w, e, refreshes)
    BY <1>1, <1>3, <1>7, <1>8, <1>9 DEF ShownOrNot
  <1>11. RequestAfter(slot, w, e, error)
    BY <1>9 DEF RequestAfter, shows, refreshes
  <1> QED  BY <1>1, <1>10, <1>11 DEF refreshes

LEMMA NewItemsBase ==
    ASSUME Base, NEW w \in Views, NEW e \in Elements, NEW error \in BOOLEAN,
           NewItems(w, e, error)
    PROVE  Base'
  <1>1. "newItems" \in ViewSlotNames
    BY DEF ViewSlotNames
  <1>2. /\ ShownOrNot(w, e, w = "Fly" \/ e \in itemsRequested[w] \/ items[w][e] = NoItems)
        /\ Running(Call("newItems", w, e, error)) /\ SlotSteady
    BY NewItemsFacts
  <1> QED  BY <1>1, <1>2, ShownOrNotBase

LEMMA ManagerCompleteBase ==
    ASSUME Base, NEW slot \in ManagerSlots, NEW w \in Views, NEW e \in Elements,
           NEW error \in BOOLEAN, ManagerComplete(slot, w, e, error)
    PROVE  Base'
  <1>1. slot \in ViewSlotNames
    BY DEF ViewSlotNames, ManagerSlots
  <1>2. /\ ShownOrNot(w, e, Refreshes(slot, w, e, error))
        /\ Running(Call(slot, w, e, error)) /\ SlotSteady
    BY ManagerCompleteFacts
  <1> QED  BY <1>1, <1>2, ShownOrNotBase

-----------------------------------------------------------------------------
(* A transfer ends                                                           *)

LEMMA EndsFacts ==
    ASSUME Base, NEW v \in Vehicles, NEW e \in Elements, NEW ok \in BOOLEAN,
           TransferEnds(v, e, ok)
    PROVE  /\ calls = <<>> /\ Is(v)
           /\ ok => link[v]
           /\ ok \/ transfer[v][e].op # "RemoveAll" \/ "removals" \in Disturbances
           /\ \E c \in Contents : Ended(v, e, ok, c)
           /\ Heard(v, e, transfer[v][e].op, ~ok)
           /\ failed' = IF transfer[v][e].op \notin {"Write", "RemoveAll"} THEN failed
                        ELSE IF ok THEN failed \ {<<v, e>>} ELSE failed \cup {<<v, e>>}
           /\ UNCHANGED <<connectVars, connected, activeVehicle, masterVars,
                          uploadTo, drawn, uploading>>
  <1> DEFINE op == transfer[v][e].op
  <1>1. /\ calls = <<>>
        /\ ok => link[v]
        /\ ok \/ op # "RemoveAll" \/ "removals" \in Disturbances
        /\ Finish(v, e, ok)
        /\ failed' = IF op \notin {"Write", "RemoveAll"} THEN failed
                     ELSE IF ok THEN failed \ {<<v, e>>} ELSE failed \cup {<<v, e>>}
        /\ UNCHANGED <<connectVars, connected, activeVehicle, masterVars,
                       uploadTo, drawn, uploading>>
    BY DEF TransferEnds
  <1>2. calls' = (IF op = "Read" /\ e \in firstLoad[v] THEN <<FirstLoadOf(v, e)>> ELSE <<>>)
                 \o (IF managerVehicle["Plan"] = v THEN SlotsOf("Plan", e, op, ~ok) ELSE <<>>)
                 \o (IF managerVehicle["Fly"] = v THEN SlotsOf("Fly", e, op, ~ok) ELSE <<>>)
    BY DEF TransferEnds
  <1> HIDE DEF op
  <1>3. (~ok) \in BOOLEAN
    OBVIOUS
  <1>4. Heard(v, e, op, ~ok)
    BY <1>2, <1>3, HeardFacts
  <1>5. \E c \in Contents : Ended(v, e, ok, c)
    BY <1>1, FinishFacts DEF Base
  <1>6. Is(v)
    BY <1>1 DEF Finish, Base, Fleet, Idle
  <1> QED  BY <1>1, <1>4, <1>5, <1>6 DEF op

LEMMA EndsBase ==
    ASSUME Base, NEW v \in Vehicles, NEW e \in Elements, NEW ok \in BOOLEAN,
           TransferEnds(v, e, ok)
    PROVE  Base'
  <1> DEFINE op == transfer[v][e].op
  <1>1. /\ calls = <<>> /\ Is(v) /\ \E c \in Contents : Ended(v, e, ok, c)
        /\ Heard(v, e, op, ~ok)
        /\ UNCHANGED <<connectVars, connected, activeVehicle, masterVars,
                       uploadTo, drawn, uploading>>
    BY EndsFacts
  <1>2. failed' \in SUBSET (Vehicles \X Elements)
    <2>1. failed \in SUBSET (Vehicles \X Elements) /\ <<v, e>> \in Vehicles \X Elements
      BY DEF Base, Types, HistoryType
    <2> QED  BY <2>1, EndsFacts
  <1> HIDE DEF op
  <1>3. Steady
    BY <1>1 DEF Steady, masterVars
  <1>4. Stack'
    <2>1. /\ \A w \in Views : managerVehicle[w] = activeVehicle
          /\ \A w \in Views : managerVehicle'[w] = managerVehicle[w]
          /\ activeVehicle' = activeVehicle
      BY <1>1, <1>3, Settles DEF Steady
    <2>2. ASSUME NEW c \in Slots', c \notin TransferCalls PROVE c = FirstLoadOf(v, e)
      BY <1>1, <2>2 DEF Heard, ViewHears
    <2>3. FirstLoadOf(v, e) \in MachineCalls /\ FirstLoadOf(v, e).of = v
      BY MachineCallFacts
    <2>4. ASSUME NEW c \in Slots', c \in TransferCalls
          PROVE  c.of \in Views /\ managerVehicle[c.of] = v
      <3>1. c # FirstLoadOf(v, e)
        BY <2>3, <2>4, CallKinds
      <3> QED  BY <1>1, <2>4, <3>1 DEF Heard, ViewHears
    <2>5. \A w \in Views : Avc(w) \notin Slots'
      BY <2>2, <2>3, CallKinds
    <2>6. \A u \in Vehicles : Machine(u)' => Is(u)'
      <3>1. \A u \in Vehicles : Machine(u)' => u = v
        BY <2>2, <2>3, CallKinds DEF Machine
      <3> QED  BY <1>1, <1>3, <3>1, IsKept
    <2>7. v # NoVehicle
      BY ElementFacts
    <2>8. \A c \in Slots' \cap TransferCalls :
            /\ managerVehicle'[c.of] = activeVehicle' /\ activeVehicle' # NoVehicle
            /\ \A w \in Views : Avc(w) \notin Slots'
      BY <2>1, <2>4, <2>5, <2>7
    <2> QED  BY <1>1, <2>1, <2>6, <2>8 DEF Stack, Heard
  <1>5. Types'
    <2>1. ManagersTypeOK'
      BY <1>1 DEF Ended, ManagersTypeOK
    <2>2. ConnectTypeOK' /\ MasterType'
      BY <1>1, TypesKept DEF Base
    <2>3. FleetType' /\ HistoryType'
      BY <1>1, <1>2 DEF Base, Types, FleetType, HistoryType, Heard
    <2> QED  BY <2>1, <2>2, <2>3 DEF Types
  <1>6. Fleet'
    <2>1. UNCHANGED <<connected, activeVehicle>> /\ UNCHANGED connectVars
      BY <1>1
    <2>2. \A u \in Vehicles : ~Is(u) => (Idle(u) => Idle(u)')
      BY <1>1 DEF Ended, Idle, inProgress
    <2> QED  BY <2>1, <2>2, FleetKept DEF Base, connectVars
  <1> QED  BY <1>4, <1>5, <1>6 DEF Base

-----------------------------------------------------------------------------
(* The user's requests                                                       *)

RequestSteady == UNCHANGED <<calls, connectVars, connected, activeVehicle, managerVehicle,
                             prompting, failed>>
Asked ==
    /\ calls = <<>> /\ ~prompting
    /\ activeVehicle \in Vehicles /\ Is(activeVehicle)
    /\ managerVehicle["Plan"] = activeVehicle /\ managerVehicle["Fly"] = activeVehicle
    /\ "requests" \in Disturbances \/ stateIndex[activeVehicle] = Finished
    /\ RequestSteady

LEMMA AskedFacts ==
    ASSUME Base, NEW kind, MayAsk(kind)
    PROVE  Asked
  BY Settles DEF Asked, MayAsk, RequestSteady, Base, Types, FleetType, Fleet

LEMMA RequestBase ==
    ASSUME Base, Asked, NEW S, NEW t, Started(activeVehicle, S, t),
           chain' \in [Views -> SUBSET Chain],
           items' = items,
           dirty' \in [Views -> [Elements -> BOOLEAN]],
           itemsRequested' \in [Views -> SUBSET Elements],
           uploadTo' \in Vehicles \cup {NoVehicle},
           drawn' \in [Elements -> SUBSET Contents],
           uploading' \in [Elements -> SUBSET Contents]
    PROVE  Base'
  <1>1. Steady /\ UNCHANGED <<calls, connected, activeVehicle>> /\ UNCHANGED connectVars
    BY DEF Asked, RequestSteady, Steady
  <1>2. Stack'
    BY <1>1, StackKept
  <1>3. Types'
    <2>1. ManagersTypeOK'
      BY StartedTypes DEF Base, Asked
    <2>2. ConnectTypeOK' /\ FleetType'
      BY <1>1, TypesKept DEF Base
    <2>3. MasterType' /\ HistoryType'
      BY DEF Base, Types, MasterType, HistoryType, Asked, RequestSteady
    <2> QED  BY <2>1, <2>2, <2>3 DEF Types
  <1>4. Fleet'
    <2>1. UNCHANGED <<connected, activeVehicle>>
      BY <1>1
    <2>2. \A u \in Vehicles : ~Is(u) => (Idle(u) => Idle(u)')
      BY StartedKeepsFleet DEF Asked
    <2> QED  BY <1>1, <2>1, <2>2, FleetKept DEF Base, connectVars
  <1> QED  BY <1>2, <1>3, <1>4 DEF Base

(* An upload or download is asked for only while the plan view's vehicle is   *)
(* idle.                                                                      *)
LEMMA SyncFacts ==
    ASSUME NEW w \in Views, managerVehicle[w] = activeVehicle, activeVehicle \in Vehicles
    PROVE  ~syncInProgress(w) <=> Idle(activeVehicle)
  BY ElementFacts DEF syncInProgress, busy, offline, Idle

LEMMA UploadFacts ==
    ASSUME Base, Upload
    PROVE  /\ Asked /\ Idle(activeVehicle) /\ link[activeVehicle]
           /\ chain' \in [Views -> SUBSET Chain]
           /\ chain'["Plan"] = chain["Plan"] \cup {"sendGeoFence"} /\ chain'["Fly"] = chain["Fly"]
           /\ items["Plan"]["mission"] \in Contents
           /\ Started(activeVehicle, {"mission"}, Writing(items["Plan"]["mission"]))
           /\ Cleaned("Plan", Elements)
           /\ uploadTo' = activeVehicle /\ drawn' = NotDrawn
           /\ uploading' = [e \in Elements |-> {items["Plan"][e]}]
           /\ UNCHANGED <<items, itemsRequested>>
  <1>1. MayAsk("Upload") /\ Asked
    BY AskedFacts DEF Upload
  <1>2. /\ activeVehicle \in Vehicles /\ managerVehicle["Plan"] = activeVehicle
        /\ "Plan" \in Views /\ "Fly" \in Views /\ "Plan" # "Fly"
        /\ "mission" \in Elements
    BY <1>1, ElementFacts DEF Asked, Views, Elements
  <1>3. Idle(activeVehicle) /\ link[activeVehicle]
    BY <1>2, SyncFacts DEF Upload
  <1>4. items["Plan"]["mission"] \in Contents
    BY <1>2 DEF Base, Types, MasterType
  <1>5. Started(activeVehicle, {"mission"}, Writing(items["Plan"]["mission"]))
    <2>1. Start(activeVehicle, {"mission"}, Writing(items["Plan"]["mission"]))
      BY <1>2 DEF Upload
    <2>2. {"mission"} \in SUBSET Elements /\ Writing(items["Plan"]["mission"]) \in Transfers
      BY <1>2, <1>4, TransferFacts
    <2> QED  BY <1>2, <2>1, <2>2, StartFacts DEF Base
  <1>6. /\ chain' \in [Views -> SUBSET Chain]
        /\ chain'["Plan"] = chain["Plan"] \cup {"sendGeoFence"} /\ chain'["Fly"] = chain["Fly"]
    <2>1. chain \in [Views -> SUBSET Chain] /\ "sendGeoFence" \in Chain
      BY DEF Base, Types, MasterType, Chain
    <2>2. chain' = [chain EXCEPT !["Plan"] = @ \cup {"sendGeoFence"}]
      BY DEF Upload
    <2> QED  BY <1>2, <2>1, <2>2
  <1>7. Cleaned("Plan", Elements)
    BY <1>2, CleanedFacts DEF Upload, Base
  <1>8. /\ uploadTo' = activeVehicle /\ drawn' = NotDrawn
        /\ uploading' = [e \in Elements |-> {items["Plan"][e]}]
        /\ UNCHANGED <<items, itemsRequested>>
    BY <1>2 DEF Upload
  <1> QED  BY <1>1, <1>3, <1>4, <1>5, <1>6, <1>7, <1>8

LEMMA UploadBase ==
    ASSUME Base, Upload
    PROVE  Base'
  <1>1. /\ Asked /\ chain' \in [Views -> SUBSET Chain]
        /\ Started(activeVehicle, {"mission"}, Writing(items["Plan"]["mission"]))
        /\ Cleaned("Plan", Elements)
        /\ uploadTo' = activeVehicle /\ drawn' = NotDrawn
        /\ uploading' = [e \in Elements |-> {items["Plan"][e]}]
        /\ UNCHANGED <<items, itemsRequested>>
    BY UploadFacts
  <1>2. dirty' \in [Views -> [Elements -> BOOLEAN]] /\ activeVehicle \in Vehicles
    BY <1>1 DEF Cleaned, Asked
  <1>3. itemsRequested' \in [Views -> SUBSET Elements]
        /\ items \in [Views -> [Elements -> Contents]]
    BY <1>1 DEF Base, Types, MasterType
  <1>4. drawn' \in [Elements -> SUBSET Contents] /\ uploading' \in [Elements -> SUBSET Contents]
    BY <1>1, <1>3 DEF NotDrawn, Views
  <1> QED  BY <1>1, <1>2, <1>3, <1>4, RequestBase

LEMMA DownloadFacts ==
    ASSUME Base, Download
    PROVE  /\ Asked /\ Idle(activeVehicle) /\ link[activeVehicle]
           /\ chain' \in [Views -> SUBSET Chain]
           /\ chain'["Plan"] = chain["Plan"] \cup {"loadGeoFence"} /\ chain'["Fly"] = chain["Fly"]
           /\ Started(activeVehicle, {"mission"}, Reading)
           /\ Cleaned("Plan", Elements)
           /\ itemsRequested' \in [Views -> SUBSET Elements]
           /\ itemsRequested'["Plan"] = itemsRequested["Plan"] \cup {"mission"}
           /\ uploadTo' = NoVehicle /\ drawn' = NotDrawn /\ uploading' = NotDrawn
           /\ items' = items
  <1>1. MayAsk("Download") /\ Asked
    BY AskedFacts DEF Download
  <1>2. /\ activeVehicle \in Vehicles /\ managerVehicle["Plan"] = activeVehicle
        /\ "Plan" \in Views /\ "Fly" \in Views /\ "Plan" # "Fly"
        /\ "mission" \in Elements
    BY <1>1, ElementFacts DEF Asked, Views, Elements
  <1>3. Idle(activeVehicle) /\ link[activeVehicle]
    BY <1>2, SyncFacts DEF Download
  <1>4. Started(activeVehicle, {"mission"}, Reading)
    <2>1. Start(activeVehicle, {"mission"}, Reading) /\ {"mission"} \in SUBSET Elements
      BY <1>2 DEF Download
    <2> QED  BY <1>2, <2>1, StartFacts, TransferFacts DEF Base
  <1>5. /\ chain' \in [Views -> SUBSET Chain]
        /\ chain'["Plan"] = chain["Plan"] \cup {"loadGeoFence"} /\ chain'["Fly"] = chain["Fly"]
    <2>1. chain \in [Views -> SUBSET Chain] /\ "loadGeoFence" \in Chain
      BY DEF Base, Types, MasterType, Chain
    <2>2. chain' = [chain EXCEPT !["Plan"] = @ \cup {"loadGeoFence"}]
      BY DEF Download
    <2> QED  BY <1>2, <2>1, <2>2
  <1>6. Cleaned("Plan", Elements)
    BY <1>2, CleanedFacts DEF Download, Base
  <1>7. /\ itemsRequested' \in [Views -> SUBSET Elements]
        /\ itemsRequested'["Plan"] = itemsRequested["Plan"] \cup {"mission"}
    <2>1. AskFor("Plan", {"mission"}) /\ {"mission"} \in SUBSET Elements
      BY <1>2 DEF Download
    <2> QED  BY <1>2, <2>1, AskForFacts DEF Base
  <1>8. uploadTo' = NoVehicle /\ drawn' = NotDrawn /\ uploading' = NotDrawn /\ items' = items
    BY DEF Download
  <1> QED  BY <1>1, <1>3, <1>4, <1>5, <1>6, <1>7, <1>8

LEMMA DownloadBase ==
    ASSUME Base, Download
    PROVE  Base'
  <1>1. /\ Asked /\ chain' \in [Views -> SUBSET Chain]
        /\ Started(activeVehicle, {"mission"}, Reading)
        /\ Cleaned("Plan", Elements)
        /\ itemsRequested' \in [Views -> SUBSET Elements]
        /\ uploadTo' = NoVehicle /\ drawn' = NotDrawn /\ uploading' = NotDrawn
        /\ items' = items
    BY DownloadFacts
  <1>2. dirty' \in [Views -> [Elements -> BOOLEAN]]
    BY <1>1 DEF Cleaned
  <1>3. drawn' \in [Elements -> SUBSET Contents] /\ uploading' \in [Elements -> SUBSET Contents]
    BY <1>1 DEF NotDrawn
  <1> QED  BY <1>1, <1>2, <1>3, RequestBase

LEMMA RemoveAllRequestFacts ==
    ASSUME Base, NEW w \in Views, NEW kind, RemoveAllFromVehicle(w, kind)
    PROVE  /\ Asked
           /\ (w = "Fly" /\ "requests" \in Disturbances) \/ Idle(activeVehicle)
           /\ Started(activeVehicle, Supports[activeVehicle], Removing)
           /\ Cleaned(w, Elements)
           /\ itemsRequested' \in [Views -> SUBSET Elements]
           /\ \A u \in Views : itemsRequested'[u] =
                 IF u = w /\ ~inProgress(activeVehicle, "mission")
                 THEN itemsRequested[u] \cup {"mission"} ELSE itemsRequested[u]
           /\ drawn' = NotDrawn /\ uploading' = NotDrawn
           /\ UNCHANGED <<chain, items, uploadTo>>
  <1>1. MayAsk(kind) /\ Asked
    BY AskedFacts DEF RemoveAllFromVehicle
  <1>2. /\ activeVehicle \in Vehicles /\ managerVehicle[w] = activeVehicle
        /\ "mission" \in Elements
    BY <1>1 DEF Asked, Views, Elements
  <1>3. (w = "Fly" /\ "requests" \in Disturbances) \/ Idle(activeVehicle)
    BY <1>2, SyncFacts DEF RemoveAllFromVehicle
  <1>4. Started(activeVehicle, Supports[activeVehicle], Removing)
    <2>1. Start(activeVehicle, Supports[activeVehicle], Removing)
          /\ Supports[activeVehicle] \in SUBSET Elements
      BY <1>2, ElementFacts DEF RemoveAllFromVehicle
    <2> QED  BY <1>2, <2>1, StartFacts, TransferFacts DEF Base
  <1>5. Cleaned(w, Elements)
    BY <1>2, CleanedFacts DEF RemoveAllFromVehicle, Base
  <1>6. busy(w, "mission") <=> inProgress(activeVehicle, "mission")
    BY <1>2, ElementFacts DEF busy, offline
  <1>7. /\ itemsRequested' \in [Views -> SUBSET Elements]
        /\ \A u \in Views : itemsRequested'[u] =
              IF u = w /\ ~inProgress(activeVehicle, "mission")
              THEN itemsRequested[u] \cup {"mission"} ELSE itemsRequested[u]
    <2>1. CASE inProgress(activeVehicle, "mission")
      <3>1. itemsRequested' = itemsRequested
        BY <1>6, <2>1 DEF RemoveAllFromVehicle
      <3> QED  BY <2>1, <3>1 DEF Base, Types, MasterType
    <2>2. CASE ~inProgress(activeVehicle, "mission")
      <3>1. AskFor(w, {"mission"}) /\ {"mission"} \in SUBSET Elements
        BY <1>2, <1>6, <2>2 DEF RemoveAllFromVehicle
      <3> QED  BY <2>2, <3>1, AskForFacts DEF Base
    <2> QED  BY <2>1, <2>2
  <1>8. drawn' = NotDrawn /\ uploading' = NotDrawn /\ UNCHANGED <<chain, items, uploadTo>>
    BY DEF RemoveAllFromVehicle
  <1> QED  BY <1>1, <1>3, <1>4, <1>5, <1>7, <1>8

LEMMA RemoveAllRequestBase ==
    ASSUME Base, NEW w \in Views, NEW kind, RemoveAllFromVehicle(w, kind)
    PROVE  Base'
  <1>1. /\ Asked /\ Started(activeVehicle, Supports[activeVehicle], Removing)
        /\ Cleaned(w, Elements)
        /\ itemsRequested' \in [Views -> SUBSET Elements]
        /\ drawn' = NotDrawn /\ uploading' = NotDrawn
        /\ UNCHANGED <<chain, items, uploadTo>>
    BY RemoveAllRequestFacts
  <1>2. dirty' \in [Views -> [Elements -> BOOLEAN]]
    BY <1>1 DEF Cleaned
  <1>3. drawn' \in [Elements -> SUBSET Contents] /\ uploading' \in [Elements -> SUBSET Contents]
    BY <1>1 DEF NotDrawn
  <1>4. chain' \in [Views -> SUBSET Chain] /\ uploadTo' \in Vehicles \cup {NoVehicle}
    BY <1>1 DEF Base, Types, MasterType, HistoryType
  <1> QED  BY <1>1, <1>2, <1>3, <1>4, RequestBase

(* The fly view's requests, a resumed mission or a guided item.               *)
FlyTransfers == {GuidedItem} \cup {Writing(c) : c \in Contents}

LEMMA FlyMissionFacts ==
    ASSUME Base, NEW kind, NEW t \in FlyTransfers, FlyMission(kind, t)
    PROVE  /\ Asked /\ ~inProgress(activeVehicle, "mission")
           /\ Started(activeVehicle, {"mission"}, t)
           /\ uploading' \in [Elements -> SUBSET Contents]
           /\ uploading'["mission"] = {}
           /\ \A e \in Elements : e # "mission" => uploading'[e] = uploading[e]
           /\ UNCHANGED <<chain, items, dirty, itemsRequested, uploadTo, drawn>>
  <1>1. MayAsk(kind) /\ Asked
    BY AskedFacts DEF FlyMission
  <1>2. /\ activeVehicle \in Vehicles /\ managerVehicle["Fly"] = activeVehicle
        /\ "mission" \in Elements
    BY <1>1 DEF Asked, Elements
  <1>3. t \in Transfers
    BY TransferFacts DEF FlyTransfers
  <1>4. ~inProgress(activeVehicle, "mission")
    BY <1>2, ElementFacts DEF FlyMission, busy, offline
  <1>5. Started(activeVehicle, {"mission"}, t)
    <2>1. Start(activeVehicle, {"mission"}, t) /\ {"mission"} \in SUBSET Elements
      BY <1>2 DEF FlyMission
    <2> QED  BY <1>2, <1>3, <2>1, StartFacts DEF Base
  <1>6. /\ uploading' \in [Elements -> SUBSET Contents]
        /\ uploading'["mission"] = {}
        /\ \A e \in Elements : e # "mission" => uploading'[e] = uploading[e]
    <2>1. uploading \in [Elements -> SUBSET Contents]
      BY DEF Base, Types, HistoryType
    <2>2. uploading' = [uploading EXCEPT !["mission"] = {}]
      BY DEF FlyMission
    <2> QED  BY <1>2, <2>1, <2>2
  <1>7. UNCHANGED <<chain, items, dirty, itemsRequested, uploadTo, drawn>>
    BY DEF FlyMission
  <1> QED  BY <1>1, <1>4, <1>5, <1>6, <1>7

LEMMA FlyMissionBase ==
    ASSUME Base, NEW kind, NEW t \in FlyTransfers, FlyMission(kind, t)
    PROVE  Base'
  <1>1. /\ Asked /\ Started(activeVehicle, {"mission"}, t)
        /\ uploading' \in [Elements -> SUBSET Contents]
        /\ UNCHANGED <<chain, items, dirty, itemsRequested, uploadTo, drawn>>
    BY FlyMissionFacts
  <1>2. /\ chain' \in [Views -> SUBSET Chain] /\ dirty' \in [Views -> [Elements -> BOOLEAN]]
        /\ itemsRequested' \in [Views -> SUBSET Elements]
        /\ uploadTo' \in Vehicles \cup {NoVehicle} /\ drawn' \in [Elements -> SUBSET Contents]
    BY <1>1 DEF Base, Types, MasterType, HistoryType
  <1> QED  BY <1>1, <1>2, RequestBase

LEMMA ResumeFacts ==
    ASSUME Base, Resume
    PROVE  \E t \in FlyTransfers : FlyMission("Resume", t)
  <1>1. activeVehicle \in Vehicles /\ "mission" \in Elements
    BY DEF Resume, Base, Types, FleetType, Elements
  <1>2. held[activeVehicle]["mission"] \in Contents
    BY <1>1 DEF Base, Types, ManagersTypeOK
  <1> QED  BY <1>2 DEF Resume, FlyTransfers

-----------------------------------------------------------------------------
(* The user edits.  What every edit leaves alone, and what becomes of the     *)
(* plan view's plan.                                                          *)
Marked(w, S, d) ==
    /\ dirty' \in [Views -> [Elements -> BOOLEAN]]
    /\ \A u \in Views, x \in Elements :
          dirty'[u][x] = IF u = w /\ x \in S THEN d ELSE dirty[u][x]
EditSteady == UNCHANGED <<calls, managerVars, connected, activeVehicle, managerVehicle, chain,
                          uploadTo, failed>>
Edited ==
    /\ calls = <<>> /\ ~prompting /\ EditSteady
    /\ uploading' = NotDrawn
    /\ UNCHANGED <<connectVars, itemsRequested, prompting>>

LEMMA NotDrawnFacts ==
    NotDrawn \in [Elements -> SUBSET Contents] /\ \A e \in Elements : NotDrawn[e] = {}
  BY DEF NotDrawn

LEMMA MarkedFacts ==
    ASSUME Types, NEW w \in Views, NEW S \in SUBSET Elements, NEW d \in BOOLEAN,
           SetDirty(w, S, d)
    PROVE  Marked(w, S, d)
  BY SetDirtyFacts DEF Marked

LEMMA EditedFacts ==
    ASSUME MayEdit
    PROVE  Edited
  <1>1. /\ calls = <<>> /\ ~prompting
        /\ uploading' = NotDrawn
        /\ UNCHANGED <<calls, managerVars, connectVars, connected, activeVehicle,
                       managerVehicle, chain, itemsRequested, prompting, uploadTo, failed>>
    BY DEF MayEdit
  <1> QED  BY <1>1, Zenon DEF Edited, EditSteady

LEMMA AllOfFacts ==
    ASSUME NEW c \in Contents
    PROVE  AllOf(c) \in [Elements -> Contents] /\ \A e \in Elements : AllOf(c)[e] = c
  BY DEF AllOf

DrawnOne(e, S) ==
    /\ drawn' \in [Elements -> SUBSET Contents]
    /\ \A x \in Elements : drawn'[x] = IF x = e THEN S ELSE drawn[x]

LEMMA DrawFacts ==
    ASSUME Base, NEW e \in Elements, NEW c \in Drafts, Draw(e, c)
    PROVE  /\ Edited /\ Filled("Plan", {e}, AllOf(c)) /\ Marked("Plan", {e}, TRUE)
           /\ DrawnOne(e, {c} \ {NoItems})
           /\ "edits" \in Disturbances \/ ~syncInProgress("Plan")
  <1>1. "Plan" \in Views /\ {e} \in SUBSET Elements /\ c \in Contents
    BY ElementFacts DEF Views
  <1>2. AllOf(c) \in [Elements -> Contents]
    BY <1>1, AllOfFacts
  <1>3. Edited
    BY EditedFacts DEF Draw
  <1>4. Filled("Plan", {e}, AllOf(c))
    BY <1>1, <1>2, SetItemsFacts DEF Draw, Base
  <1>5. Marked("Plan", {e}, TRUE)
    BY <1>1, MarkedFacts DEF Draw, Base
  <1>6. drawn \in [Elements -> SUBSET Contents]
    BY DEF Base, Types, HistoryType
  <1>7. DrawnOne(e, {c} \ {NoItems})
    BY <1>1, <1>6 DEF Draw, DrawnOne
  <1> QED  BY <1>3, <1>4, <1>5, <1>7 DEF Draw

LEMMA RemoveRallyFacts ==
    ASSUME Base, RemoveRallyPoint
    PROVE  /\ Edited /\ Filled("Plan", {"rally"}, AllOf(NoItems)) /\ dirty' = dirty
           /\ DrawnOne("rally", {})
           /\ "edits" \in Disturbances \/ ~syncInProgress("Plan")
  <1>1. "Plan" \in Views /\ {"rally"} \in SUBSET Elements /\ NoItems \in Contents
    BY ElementFacts DEF Views
  <1>2. AllOf(NoItems) \in [Elements -> Contents]
    BY <1>1, AllOfFacts
  <1>3. Edited
    BY EditedFacts DEF RemoveRallyPoint
  <1>4. Filled("Plan", {"rally"}, AllOf(NoItems))
    BY <1>1, <1>2, SetItemsFacts DEF RemoveRallyPoint, Base
  <1>5. drawn \in [Elements -> SUBSET Contents]
    BY DEF Base, Types, HistoryType
  <1>6. DrawnOne("rally", {})
    BY <1>1, <1>5 DEF RemoveRallyPoint, DrawnOne
  <1> QED  BY <1>3, <1>4, <1>6 DEF RemoveRallyPoint

LEMMA LoadFileFacts ==
    ASSUME Base, NEW c \in Drafts, LoadFromFile(c)
    PROVE  /\ Edited /\ Filled("Plan", Elements, AllOf(c))
           /\ \E d \in BOOLEAN : Marked("Plan", Elements, d)
           /\ drawn' = NotDrawn
           /\ ~syncInProgress("Plan")
  <1>1. "Plan" \in Views /\ Elements \in SUBSET Elements /\ c \in Contents
    BY ElementFacts DEF Views
  <1>2. AllOf(c) \in [Elements -> Contents]
    BY <1>1, AllOfFacts
  <1>3. Edited
    BY EditedFacts DEF LoadFromFile
  <1>4. Filled("Plan", Elements, AllOf(c))
    BY <1>1, <1>2, SetItemsFacts DEF LoadFromFile, Base
  <1>5. (~offline("Plan")) \in BOOLEAN
    BY DEF offline
  <1>6. SetDirty("Plan", Elements, ~offline("Plan"))
    BY DEF LoadFromFile
  <1>7. \E d \in BOOLEAN : Marked("Plan", Elements, d)
    <2> DEFINE d == ~offline("Plan")
    <2>1. d \in BOOLEAN /\ SetDirty("Plan", Elements, d)
      BY <1>5, <1>6
    <2> HIDE DEF d
    <2> QED  BY <1>1, <2>1, MarkedFacts DEF Base
  <1> QED  BY <1>3, <1>4, <1>7 DEF LoadFromFile

LEMMA SaveFacts ==
    ASSUME Base, SaveToFile
    PROVE  /\ Edited /\ Cleaned("Plan", Elements) /\ drawn' = NotDrawn /\ items' = items
  <1>1. "Plan" \in Views
    BY DEF Views
  <1>2. Edited
    BY EditedFacts DEF SaveToFile
  <1> QED  BY <1>1, <1>2, CleanedFacts DEF SaveToFile, Base

(* The plan view takes over the new vehicle's plan, or nothing when there is  *)
(* no vehicle, or keeps its own as unsent.                                    *)
TakesOver ==
    \/ activeVehicle = NoVehicle /\ Emptied("Plan") /\ UNCHANGED <<connectVars, itemsRequested>>
    \/ /\ activeVehicle \in Vehicles
       /\ \E complete, shown : Showing("Plan", activeVehicle, complete, shown)
Keeps ==
    /\ dirty' = dirty \/ Marked("Plan", Elements, TRUE)
    /\ UNCHANGED <<connectVars, items, itemsRequested, drawn>>
Replied ==
    /\ calls = <<>> /\ prompting /\ prompting' = FALSE
    /\ EditSteady /\ uploading' = uploading
    /\ \/ drawn' = NotDrawn /\ TakesOver
       \/ Keeps

LEMMA AnswerFacts ==
    ASSUME Base, NEW load \in BOOLEAN, AnswerPrompt(load)
    PROVE  Replied
  <1>1. /\ calls = <<>> /\ prompting /\ prompting' = FALSE /\ uploading' = uploading
        /\ UNCHANGED <<calls, managerVars, connected, activeVehicle, managerVehicle, chain,
                       events, uploadTo, uploading, failed>>
    BY DEF AnswerPrompt
  <1>2. EditSteady
    BY <1>1 DEF EditSteady
  <1>3. "Plan" \in Views /\ managerVehicle["Plan"] = activeVehicle
    BY <1>1, Settles
  <1>4. activeVehicle \in Vehicles \cup {NoVehicle} /\ NoVehicle \notin Vehicles
    BY ElementFacts DEF Base, Types, FleetType
  <1>5. offline("Plan") <=> activeVehicle = NoVehicle
    BY <1>3 DEF offline
  <1>6. CASE load
    <2>1. drawn' = NotDrawn
      BY <1>6 DEF AnswerPrompt
    <2>2. CASE offline("Plan")
      <3>1. RemoveAll("Plan") /\ UNCHANGED <<connectVars, itemsRequested>>
        BY <1>6, <2>2 DEF AnswerPrompt
      <3> QED  BY <1>1, <1>2, <1>3, <1>5, <2>1, <2>2, <3>1, RemoveAllFacts
               DEF Replied, TakesOver, Base
    <2>3. CASE ~offline("Plan")
      <3>1. ShowPlanFrom("Plan", managerVehicle["Plan"])
        BY <1>6, <2>3 DEF AnswerPrompt
      <3>2. activeVehicle \in Vehicles
        BY <1>4, <1>5, <2>3
      <3>3. ShowPlanFrom("Plan", activeVehicle)
        BY <1>3, <3>1
      <3>4. \E complete, shown : Showing("Plan", activeVehicle, complete, shown)
        BY <1>3, <3>2, <3>3, ShowPlanFacts DEF Base
      <3> QED  BY <1>1, <1>2, <2>1, <3>2, <3>4 DEF Replied, TakesOver
    <2> QED  BY <2>2, <2>3
  <1>7. CASE ~load
    <2>1. /\ IF offline("Plan") THEN UNCHANGED dirty ELSE SetDirty("Plan", Elements, TRUE)
          /\ UNCHANGED <<connectVars, items, itemsRequested, drawn>>
      BY <1>7 DEF AnswerPrompt
    <2>2. dirty' = dirty \/ Marked("Plan", Elements, TRUE)
      <3>1. Elements \in SUBSET Elements
        OBVIOUS
      <3> QED  BY <1>3, <2>1, <3>1, MarkedFacts DEF Base
    <2> QED  BY <1>1, <1>2, <2>1, <2>2 DEF Replied, Keeps
  <1> QED  BY <1>6, <1>7

LEMMA EditBase ==
    ASSUME Base, EditSteady, ConnectTypeOK', MasterType', HistoryType',
           UNCHANGED <<stateIndex, awaited, firstLoad>>
    PROVE  Base'
  <1>1. /\ UNCHANGED managerVars /\ UNCHANGED <<calls, connected, activeVehicle>>
        /\ Steady /\ UNCHANGED calls
    BY DEF EditSteady, Steady
  <1>2. Stack'
    BY <1>1, StackKept
  <1>3. Types'
    BY <1>1, TypesKept DEF Base, Types
  <1>4. Fleet'
    <2>1. \A u \in Vehicles : ~Is(u) =>
              /\ stateIndex'[u] = stateIndex[u] /\ awaited'[u] = awaited[u]
              /\ firstLoad'[u] = firstLoad[u]
              /\ Idle(u) => Idle(u)'
      BY <1>1, IdleKept
    <2> QED  BY <1>1, <2>1, FleetKept DEF Base
  <1> QED  BY <1>2, <1>3, <1>4 DEF Base

(* The edits and the answer to the prompt, as one relation.                   *)
Drawing == Edited
    /\ items' \in [Views -> [Elements -> Contents]] /\ items'["Fly"] = items["Fly"]
    /\ dirty' \in [Views -> [Elements -> BOOLEAN]]
    /\ drawn' \in [Elements -> SUBSET Contents]

LEMMA FlyLeft ==
    ASSUME Types, NEW S, NEW f, Filled("Plan", S, f)
    PROVE  items' \in [Views -> [Elements -> Contents]] /\ items'["Fly"] = items["Fly"]
  <1>1. items \in [Views -> [Elements -> Contents]] /\ items' \in [Views -> [Elements -> Contents]]
        /\ "Fly" \in Views
    BY DEF Types, MasterType, Filled, Views
  <1>2. items["Fly"] \in [Elements -> Contents] /\ items'["Fly"] \in [Elements -> Contents]
    BY <1>1
  <1>3. \A e \in Elements : items'["Fly"][e] = items["Fly"][e]
    BY <1>1 DEF Filled
  <1> QED  BY <1>1, <1>2, <1>3

LEMMA DrawingFacts ==
    ASSUME Base
    PROVE  /\ \A e \in Elements, c \in Drafts : Draw(e, c) => Drawing
           /\ RemoveRallyPoint => Drawing
           /\ \A c \in Drafts : LoadFromFile(c) => Drawing
           /\ SaveToFile => Drawing
  <1>1. Types /\ NotDrawn \in [Elements -> SUBSET Contents]
        /\ dirty \in [Views -> [Elements -> BOOLEAN]]
        /\ items \in [Views -> [Elements -> Contents]]
    BY NotDrawnFacts DEF Base, Types, MasterType
  <1>2. ASSUME NEW e \in Elements, NEW c \in Drafts, Draw(e, c) PROVE Drawing
    BY <1>1, <1>2, DrawFacts, FlyLeft DEF Drawing, Marked, DrawnOne
  <1>3. ASSUME RemoveRallyPoint PROVE Drawing
    BY <1>1, <1>3, RemoveRallyFacts, FlyLeft DEF Drawing, DrawnOne
  <1>4. ASSUME NEW c \in Drafts, LoadFromFile(c) PROVE Drawing
    BY <1>1, <1>4, LoadFileFacts, FlyLeft DEF Drawing, Marked
  <1>5. ASSUME SaveToFile PROVE Drawing
    BY <1>1, <1>5, SaveFacts DEF Drawing, Cleaned
  <1> QED  BY <1>2, <1>3, <1>4, <1>5

LEMMA UserEdits ==
    ASSUME Base, UserEdit
    PROVE  Drawing \/ Replied
  BY DrawingFacts, AnswerFacts DEF UserEdit

LEMMA UserEditBase ==
    ASSUME Base, Drawing \/ Replied
    PROVE  Base'
  <1>1. Types
    BY DEF Base
  <1>2. CASE Drawing
    <2>1. EditSteady /\ UNCHANGED <<connectVars, itemsRequested, prompting>>
          /\ uploading' = NotDrawn
      BY <1>2 DEF Drawing, Edited
    <2>2. ConnectTypeOK' /\ UNCHANGED <<stateIndex, awaited, firstLoad>>
      BY <1>1, <2>1, TypesKept DEF connectVars
    <2>3. MasterType'
      BY <1>1, <1>2, <2>1 DEF Types, MasterType, EditSteady, Drawing
    <2>4. HistoryType'
      BY <1>1, <1>2, <2>1, NotDrawnFacts DEF Types, HistoryType, EditSteady, Drawing
    <2> QED  BY <2>1, <2>2, <2>3, <2>4, EditBase
  <1>3. CASE Replied
    <2>1. EditSteady /\ prompting' = FALSE /\ uploading' = uploading
      BY <1>3 DEF Replied
    <2>2. HistoryType'
      BY <1>1, <1>3, <2>1, NotDrawnFacts DEF Types, HistoryType, EditSteady, Replied, Keeps
    <2>3. /\ ConnectTypeOK' /\ UNCHANGED <<stateIndex, awaited, firstLoad>>
          /\ items' \in [Views -> [Elements -> Contents]]
          /\ dirty' \in [Views -> [Elements -> BOOLEAN]]
          /\ itemsRequested' \in [Views -> SUBSET Elements]
      <3>1. CASE \E complete, shown : Showing("Plan", activeVehicle, complete, shown)
        BY <1>1, <3>1, ShowingTypes
      <3>2. CASE Emptied("Plan") /\ UNCHANGED <<connectVars, itemsRequested>>
        <4>1. ConnectTypeOK' /\ UNCHANGED <<stateIndex, awaited, firstLoad>>
          BY <1>1, <3>2, TypesKept DEF connectVars
        <4> QED  BY <1>1, <3>2, <4>1 DEF Emptied, Types, MasterType
      <3>3. CASE Keeps
        <4>1. ConnectTypeOK' /\ UNCHANGED <<stateIndex, awaited, firstLoad>>
          BY <1>1, <3>3, TypesKept DEF connectVars, Keeps
        <4> QED  BY <1>1, <3>3, <4>1 DEF Keeps, Marked, Types, MasterType
      <3> QED  BY <1>3, <3>1, <3>2, <3>3 DEF Replied, TakesOver
    <2>4. MasterType'
      BY <1>1, <2>1, <2>3 DEF Types, MasterType, EditSteady
    <2> QED  BY <2>1, <2>2, <2>3, <2>4, EditBase
  <1> QED  BY <1>2, <1>3

-----------------------------------------------------------------------------
(* Every step, by the action taken.                                           *)

LEMMA ConnectMachineSteps ==
    ASSUME ConnectMachine
    PROVE  /\ Elsewhere
           /\ \E v \in Vehicles :
                 \/ Advance(v)
                 \/ \E e \in Elements : FirstLoadComplete(v, e)
                 \/ \E s \in AnsweredStates : Answered(v, s)
                 \/ LinkStep(v)
  <1>1. Elsewhere
    BY DEF ConnectMachine, Elsewhere
  <1>2. ConnectStep
    BY DEF ConnectMachine
  <1> QED  BY <1>1, <1>2, Zenon DEF ConnectStep, LinkStep

LEMMA StepBase ==
    ASSUME Base, [Next]_vars
    PROVE  Base'
  <1>1. CASE ConnectMachine
    BY <1>1, ConnectMachineSteps, AdvanceBase, FirstLoadBase, AnsweredBase, LinkBase
  <1>2. CASE VehiclesComeAndGo
    BY <1>2, VehicleComesBase, VehicleGoesBase, SetActiveBase DEF VehiclesComeAndGo
  <1>3. CASE ViewSlots
    BY <1>3, ToldBase, LoadCompleteBase, SendCompleteBase, NewItemsBase, ManagerCompleteBase
       DEF ViewSlots, ManagerSlots
  <1>4. CASE SomeTransferEnds
    BY <1>4, EndsBase DEF SomeTransferEnds
  <1>5. CASE UserRequest
    <2>1. "Plan" \in Views /\ "Fly" \in Views /\ GuidedItem \in FlyTransfers
      BY DEF Views, FlyTransfers
    <2>2. Resume => Base'
      BY ResumeFacts, FlyMissionBase
    <2> QED  BY <1>5, <2>1, <2>2, UploadBase, DownloadBase, RemoveAllRequestBase, FlyMissionBase
             DEF UserRequest
  <1>6. CASE UserEdit
    BY <1>6, UserEdits, UserEditBase
  <1>7. CASE UNCHANGED vars
    <2>1. UNCHANGED <<calls, managerVars, connectVars, connected, activeVehicle, masterVars,
                      historyVars>>
      BY <1>7 DEF vars
    <2>2. Types /\ Types'
      BY <2>1, TypesKept DEF Base, Types
    <2>3. EditSteady /\ UNCHANGED <<stateIndex, awaited, firstLoad>>
      BY <2>1 DEF EditSteady, masterVars, historyVars, connectVars
    <2> QED  BY <2>2, <2>3, EditBase DEF Types
  <1> QED  BY <1>1, <1>2, <1>3, <1>4, <1>5, <1>6, <1>7 DEF Next

LEMMA AlwaysBase == Spec => []Base
  <1> QED  BY InitBase, StepBase, PTL DEF Spec

(* Every variable keeps its type, a machine's state its range.                *)
THEOREM TypeCorrect == Spec => []TypeOK
  <1>1. Base => TypeOK
    BY TypesImply DEF Base
  <1> QED  BY <1>1, AlwaysBase, PTL

-----------------------------------------------------------------------------
(* The machine of a connecting vehicle, as long as no link went away: either  *)
(* it is about to be advanced, with nothing asked, or it waits for the one    *)
(* answer its state asks for, having asked for everything in order.           *)
Later(s) == {e \in Elements : Position[e] >= s}

Asking(v) ==
    LET s == stateIndex[v]
    IN /\ awaited[v] = {} /\ Idle(v)
       /\ AdvanceOf(v) \in Slots => s < Finished /\ firstLoad[v] = Later(s + 1)
       /\ \A e \in Elements :
             FirstLoadOf(v, e) \in Slots => s = Position[e] /\ firstLoad[v] = Later(s)
NotMet(v) ==
    stateIndex[v] = 0 /\ awaited[v] = {} /\ firstLoad[v] = Elements /\ Idle(v)
WaitsForAnswer(v) ==
    /\ stateIndex[v] \in 1 .. 4
    /\ awaited[v] = {ConnectStates[stateIndex[v]]} /\ firstLoad[v] = Elements /\ Idle(v)
WaitsForLoad(v) ==
    LET s == stateIndex[v]
    IN /\ s \in 5 .. 7 /\ awaited[v] = {} /\ firstLoad[v] = Later(s)
       /\ v \notin HighLatency
       /\ \A e \in Elements :
             /\ Position[e] = s => transfer[v][e] = Reading /\ e \in Supports[v]
             /\ Position[e] # s => transfer[v][e] = Nothing
Through(v) ==
    stateIndex[v] = Finished /\ awaited[v] = {} /\ firstLoad[v] = {}
Waiting(v) == NotMet(v) \/ WaitsForAnswer(v) \/ WaitsForLoad(v) \/ Through(v)

(* The machine has got past e, the elements in between being unsupported.     *)
Behind(v, e) ==
    LET s == stateIndex[v]
    IN /\ s >= Position[e]
       /\ Machine(v) \/ s > Position[e]
       /\ v \notin HighLatency
       /\ \A x \in Elements : Position[e] < Position[x] =>
             (Position[x] < s \/ (Position[x] = s /\ Machine(v)) => x \notin Supports[v])
Done(v) == stateIndex[v] = Finished /\ ~Machine(v)

(* The plan view's sequence asks the active vehicle for an element only when  *)
(* its machine is done, or has asked for it already.                          *)
InOrder(c) ==
    /\ c.slot = "sendComplete" => Done(activeVehicle)
    /\ c.slot = "loadComplete" => Done(activeVehicle) \/ Behind(activeVehicle, c.element)

LinksUp == \A v \in Vehicles : link[v]
MachineOK(v) == (Machine(v) => Asking(v)) /\ (~Machine(v) => Waiting(v))
Connect ==
    outages = 0 =>
        /\ LinksUp
        /\ \A v \in Vehicles : MachineOK(v)
        /\ \A c \in Slots : InOrder(c)
ConnInv == Base /\ Connect

LEMMA LaterFacts ==
    /\ \A s \in 0 .. 5 : Later(s) = Elements
    /\ \A s \in 8 .. 10 : Later(s) = {}
    /\ \A s \in 0 .. 9 : s \notin 5 .. 7 => Later(s) = Later(s + 1)
    /\ \A e \in Elements :
          /\ Later(Position[e]) \ {e} = Later(Position[e] + 1)
          /\ e \in Later(Position[e])
  BY PositionFacts DEF Later

(* The call of a machine is the only one.                                     *)
LEMMA MachinesBefore ==
    ASSUME Base, calls # <<>>
    PROVE  /\ Slots \cap MachineCalls = MachineCalls \cap {Head(calls)}
           /\ \A v \in Vehicles : Machine(v) <=> Head(calls) \in MachineCalls /\ Head(calls).of = v
  <1>1. /\ Slots = {Head(calls)} \cup {calls[k] : k \in 2 .. Len(calls)}
    BY EntriesTail DEF Base, Types, FleetType, Slots
  <1>2. Slots \cap MachineCalls = MachineCalls \cap {Head(calls)}
    BY <1>1 DEF Base, Stack, MachineFirst
  <1> QED  BY <1>2 DEF Machine

LEMMA MachinesAfter ==
    /\ Popped => \A v : ~Machine(v)'
    /\ \A d : Replaced(d) =>
          /\ \A v : Machine(v)' <=> d \in MachineCalls /\ d.of = v
          /\ \A c \in Slots' : c \in MachineCalls => c = d
    /\ Slots \cap MachineCalls = {} => \A v : ~Machine(v)
    /\ Slots' \cap MachineCalls = {} => \A v : ~Machine(v)'
  BY DEF Popped, Replaced, Machine

SameMachine(v) ==
    /\ stateIndex'[v] = stateIndex[v] /\ awaited'[v] = awaited[v] /\ firstLoad'[v] = firstLoad[v]
    /\ stateIndex[v] = Finished \/ \A e \in Elements : transfer'[v][e] = transfer[v][e]

LEMMA WaitingKept ==
    ASSUME NEW v \in Vehicles, SameMachine(v), Waiting(v)
    PROVE  Waiting(v)'
  <1>1. CASE NotMet(v)
    BY <1>1, Numbers DEF NotMet, SameMachine, Waiting, Idle, inProgress
  <1>2. CASE WaitsForAnswer(v)
    BY <1>2, Numbers DEF WaitsForAnswer, SameMachine, Waiting, Idle, inProgress
  <1>3. CASE WaitsForLoad(v)
    BY <1>3, Numbers DEF WaitsForLoad, SameMachine, Waiting
  <1>4. CASE Through(v)
    BY <1>4 DEF Through, SameMachine, Waiting
  <1> QED  BY <1>1, <1>2, <1>3, <1>4 DEF Waiting

(* A step between the machines' steps.                                        *)
LEMMA ConnectKept ==
    ASSUME Base, Connect,
           Slots \cap MachineCalls = {}, Slots' \cap MachineCalls = {},
           UNCHANGED <<stateIndex, awaited, firstLoad, link, outages>>,
           \A v \in Vehicles : SameMachine(v),
           outages = 0 /\ LinksUp =>
              \A c \in Slots' : InOrder(c)' \/ (c \in Slots /\ activeVehicle' = activeVehicle)
    PROVE  Connect'
  <1> SUFFICES ASSUME outages = 0 PROVE Connect'
    BY DEF Connect
  <1>1. \A v : ~Machine(v) /\ ~Machine(v)'
    BY MachinesAfter
  <1>2. LinksUp /\ LinksUp'
    BY DEF Connect, LinksUp
  <1>3. \A v \in Vehicles : Waiting(v)
    BY <1>1 DEF Connect, MachineOK
  <1>4. \A v \in Vehicles : MachineOK(v)'
    BY <1>1, <1>3, WaitingKept DEF MachineOK
  <1>5. ASSUME NEW c \in Slots', c \in Slots, activeVehicle' = activeVehicle PROVE InOrder(c)'
    <2>1. InOrder(c)
      BY <1>5 DEF Connect
    <2> QED  BY <1>1, <1>5, <2>1 DEF InOrder, Done, Behind
  <1> QED  BY <1>2, <1>4, <1>5 DEF Connect

LEMMA SameAll ==
    ASSUME UNCHANGED <<stateIndex, awaited, firstLoad, managerVars>>
    PROVE  \A v \in Vehicles : SameMachine(v)
  BY DEF SameMachine, managerVars

-----------------------------------------------------------------------------
(* Connect after every step of a machine                                      *)

LEMMA InitConnect == Init => ConnInv
  <1> SUFFICES ASSUME Init PROVE ConnInv
    OBVIOUS
  <1>1. Slots = {}
    BY NoSlots DEF Init, ConnectInit
  <1>2. \A v \in Vehicles : ~Machine(v) /\ NotMet(v)
    BY <1>1 DEF Machine, NotMet, Init, ConnectInit, ManagersInit, Idle, inProgress
  <1>3. LinksUp
    BY DEF LinksUp, Init, ConnectInit
  <1> QED  BY <1>1, <1>2, <1>3, InitBase DEF ConnInv, Connect, MachineOK, Waiting

LEMMA AdvanceMachine ==
    ASSUME Base, Connect, outages = 0, NEW v \in Vehicles, Advance(v)
    PROVE  /\ MachineOK(v)'
           /\ Machine(v)' => \A x \in Elements :
                 Position[x] = stateIndex[v] + 1 => v \in HighLatency \/ x \notin Supports[v]
  <1> DEFINE s == stateIndex[v]
  <1>1. /\ Advanced(v, s)
        /\ Head(calls) = AdvanceOf(v) /\ AdvanceOf(v) \in Slots /\ calls # <<>>
        /\ stateIndex'[v] = IF s < 9 THEN s + 1 ELSE s
        /\ UNCHANGED <<firstLoad, initialPlanRequestComplete, link, outages>>
    BY AdvanceFacts DEF Base, Stack
  <1>2. AdvanceOf(v) \in MachineCalls /\ AdvanceOf(v).of = v /\ AdvanceOf(v).slot = "advance"
        /\ \A e \in Elements :
              /\ FirstLoadOf(v, e) \in MachineCalls /\ FirstLoadOf(v, e).of = v
              /\ FirstLoadOf(v, e).slot = "firstLoadComplete" /\ FirstLoadOf(v, e).element = e
    BY MachineCallFacts
  <1>3. Machine(v) /\ link[v]
    BY <1>1, <1>2, MachinesBefore DEF Connect, LinksUp
  <1>4. Asking(v)
    BY <1>3 DEF Connect, MachineOK
  <1>5. s \in 0 .. 8 /\ awaited[v] = {} /\ Idle(v) /\ firstLoad[v] = Later(s + 1)
    BY <1>1, <1>4, Numbers DEF Asking, Base, Types, ConnectTypeOK
  <1>6. stateIndex'[v] = s + 1 /\ firstLoad'[v] = Later(s + 1)
    BY <1>1, <1>5
  <1>7. awaited \in [Vehicles -> SUBSET AnsweredStates]
    BY DEF Base, Types, ConnectTypeOK
  <1> HIDE DEF s
  <1>8. CASE s >= 8 /\ Popped /\ UNCHANGED <<awaited, managerVars>>
    <2>1. Through(v)' /\ ~Machine(v)'
      BY <1>5, <1>6, <1>8, LaterFacts, Numbers, MachinesAfter DEF Through
    <2> QED  BY <2>1 DEF MachineOK, Waiting
  <1>9. CASE /\ s + 1 \in 1 .. 4 /\ ConnectStates[s + 1] \in AnsweredStates
             /\ Popped
             /\ awaited' = [awaited EXCEPT ![v] = @ \cup {ConnectStates[s + 1]}]
             /\ UNCHANGED managerVars
    <2>1. awaited'[v] = {ConnectStates[s + 1]}
      BY <1>5, <1>7, <1>9
    <2>2. Idle(v)'
      BY <1>5, <1>9, IdleKept
    <2>3. firstLoad'[v] = Elements
      BY <1>6, <1>9, LaterFacts
    <2>4. WaitsForAnswer(v)' /\ ~Machine(v)'
      BY <1>6, <1>9, <2>1, <2>2, <2>3, MachinesAfter DEF WaitsForAnswer
    <2> QED  BY <2>4 DEF MachineOK, Waiting
  <1>10. CASE s < 8 /\ s + 1 \notin 5 .. 7 /\ Replaced(AdvanceOf(v)) /\ UNCHANGED <<awaited, managerVars>>
    <2>1. Machine(v)' /\ Idle(v)' /\ awaited'[v] = {}
      BY <1>2, <1>5, <1>10, IdleKept, MachinesAfter
    <2>2. firstLoad'[v] = Later((s + 1) + 1)
      BY <1>5, <1>6, <1>10, LaterFacts
    <2>3. \A e \in Elements : FirstLoadOf(v, e) \notin Slots'
      BY <1>2, <1>10, MachinesAfter
    <2>4. Asking(v)'
      BY <1>5, <1>6, <1>10, <2>1, <2>2, <2>3, Numbers DEF Asking
    <2> QED  BY <1>10, <2>1, <2>4, PositionFacts DEF MachineOK, s
  <1>11. ASSUME NEW e \in Elements, Position[e] = s + 1, v \notin HighLatency, e \in Supports[v],
                Popped, Started(v, {e}, Reading), awaited' = awaited
         PROVE  WaitsForLoad(v)' /\ ~Machine(v)'
    <2>1. \A x \in Elements :
              /\ Position[x] = s + 1 => transfer'[v][x] = Reading /\ x \in Supports[v]
              /\ Position[x] # s + 1 => transfer'[v][x] = Nothing
      BY <1>5, <1>11, PositionFacts DEF Started, Idle, inProgress
    <2> QED  BY <1>5, <1>6, <1>11, <2>1, PositionFacts, MachinesAfter DEF WaitsForLoad
  <1>12. ASSUME NEW e \in Elements, Position[e] = s + 1, v \in HighLatency \/ e \notin Supports[v],
                Replaced(FirstLoadOf(v, e)), UNCHANGED <<awaited, managerVars>>
         PROVE  /\ MachineOK(v)'
                /\ \A x \in Elements : Position[x] = s + 1 => v \in HighLatency \/ x \notin Supports[v]
    <2>1. Machine(v)' /\ Idle(v)' /\ awaited'[v] = {}
      BY <1>2, <1>5, <1>12, IdleKept, MachinesAfter
    <2>2. AdvanceOf(v) \notin Slots'
      BY <1>2, <1>12, MachinesAfter
    <2>3. \A x \in Elements : FirstLoadOf(v, x) \in Slots' => x = e
      BY <1>2, <1>12, MachinesAfter
    <2>4. Asking(v)'
      BY <1>6, <1>12, <2>1, <2>2, <2>3 DEF Asking
    <2> QED  BY <1>12, <2>1, <2>4, PositionFacts DEF MachineOK
  <1>13. CASE \E e \in Elements :
                /\ Position[e] = s + 1 /\ link[v] /\ v \notin HighLatency /\ e \in Supports[v]
                /\ Popped /\ Started(v, {e}, Reading) /\ awaited' = awaited
    <2>1. WaitsForLoad(v)' /\ ~Machine(v)'
      BY <1>11, <1>13
    <2> QED  BY <2>1 DEF MachineOK, Waiting
  <1>14. CASE \E e \in Elements :
                /\ Position[e] = s + 1 /\ link[v]
                /\ v \in HighLatency \/ e \notin Supports[v]
                /\ Replaced(FirstLoadOf(v, e)) /\ UNCHANGED <<awaited, managerVars>>
    BY <1>12, <1>14 DEF s
  <1>15. \/ s >= 8 /\ Popped /\ UNCHANGED <<awaited, managerVars>>
         \/ /\ s + 1 \in 1 .. 4 /\ ConnectStates[s + 1] \in AnsweredStates
            /\ Popped
            /\ awaited' = [awaited EXCEPT ![v] = @ \cup {ConnectStates[s + 1]}]
            /\ UNCHANGED managerVars
         \/ s < 8 /\ s + 1 \notin 5 .. 7 /\ Replaced(AdvanceOf(v)) /\ UNCHANGED <<awaited, managerVars>>
         \/ \E e \in Elements :
                /\ Position[e] = s + 1 /\ link[v] /\ v \notin HighLatency /\ e \in Supports[v]
                /\ Popped /\ Started(v, {e}, Reading) /\ awaited' = awaited
         \/ \E e \in Elements :
                /\ Position[e] = s + 1 /\ link[v]
                /\ v \in HighLatency \/ e \notin Supports[v]
                /\ Replaced(FirstLoadOf(v, e)) /\ UNCHANGED <<awaited, managerVars>>
    BY <1>1, <1>3, Zenon DEF Advanced
  <1>16. Popped => ~Machine(v)'
    BY MachinesAfter
  <1> QED  BY <1>8, <1>9, <1>10, <1>13, <1>14, <1>15, <1>16

LEMMA AdvanceOthers ==
    ASSUME Base, NEW v \in Vehicles, Advance(v)
    PROVE  /\ \A u \in Vehicles : u # v => SameMachine(u) /\ ~Machine(u) /\ ~Machine(u)'
           /\ Machine(v)
           /\ \A c \in Slots' : c \in Slots \/ c \in MachineCalls
  <1>1. /\ Advanced(v, stateIndex[v])
        /\ Head(calls) = AdvanceOf(v) /\ AdvanceOf(v) \in Slots /\ calls # <<>>
        /\ \A u \in Vehicles : u # v => stateIndex'[u] = stateIndex[u]
        /\ UNCHANGED <<firstLoad, initialPlanRequestComplete, link, outages>>
    BY AdvanceFacts DEF Base, Stack
  <1>2. AdvanceOf(v) \in MachineCalls /\ AdvanceOf(v).of = v
        /\ \A e \in Elements : FirstLoadOf(v, e) \in MachineCalls /\ FirstLoadOf(v, e).of = v
    BY MachineCallFacts
  <1>3. Machine(v) /\ \A u \in Vehicles : u # v => ~Machine(u)
    BY <1>1, <1>2, MachinesBefore
  <1>4. Popped \/ \E d \in MachineCalls : d.of = v /\ Replaced(d)
    BY <1>1, <1>2, Zenon DEF Advanced
  <1>5. \A u \in Vehicles : u # v => ~Machine(u)'
    BY <1>4, MachinesAfter
  <1>6. awaited \in [Vehicles -> SUBSET AnsweredStates]
    BY DEF Base, Types, ConnectTypeOK
  <1>7. \A u \in Vehicles : u # v => awaited'[u] = awaited[u]
    BY <1>1, <1>6 DEF Advanced
  <1>8. \A u \in Vehicles : u # v => \A e \in Elements : transfer'[u][e] = transfer[u][e]
    <2>1. CASE UNCHANGED managerVars
      BY <2>1 DEF managerVars
    <2>2. CASE \E e \in Elements : Started(v, {e}, Reading)
      BY <2>2 DEF Started
    <2> QED  BY <1>1, <2>1, <2>2, Zenon DEF Advanced
  <1>9. \A c \in Slots' : c \in Slots \/ c \in MachineCalls
    BY <1>4 DEF Popped, Replaced
  <1> QED  BY <1>1, <1>3, <1>5, <1>7, <1>8, <1>9 DEF SameMachine

LEMMA AdvanceConnect ==
    ASSUME ConnInv, NEW v \in Vehicles, Advance(v), Elsewhere
    PROVE  Connect'
  <1>1. Base /\ Connect /\ UNCHANGED <<firstLoad, link, outages, activeVehicle>>
    BY DEF ConnInv, Advance, Elsewhere
  <1> SUFFICES ASSUME outages = 0 PROVE Connect'
    BY <1>1 DEF Connect
  <1>2. /\ LinksUp /\ (\A u \in Vehicles : MachineOK(u)) /\ (\A c \in Slots : InOrder(c))
    BY <1>1 DEF Connect
  <1>3. LinksUp'
    BY <1>1, <1>2 DEF LinksUp
  <1>4. /\ \A u \in Vehicles : u # v => SameMachine(u) /\ ~Machine(u) /\ ~Machine(u)'
        /\ Machine(v)
        /\ \A c \in Slots' : c \in Slots \/ c \in MachineCalls
    BY <1>1, AdvanceOthers
  <1>5. /\ MachineOK(v)'
        /\ Machine(v)' => \A x \in Elements :
                 Position[x] = stateIndex[v] + 1 => v \in HighLatency \/ x \notin Supports[v]
    BY <1>1, AdvanceMachine
  <1>6. \A u \in Vehicles : MachineOK(u)'
    BY <1>2, <1>4, <1>5, WaitingKept DEF MachineOK
  <1>7. stateIndex'[v] = stateIndex[v] + 1 /\ stateIndex[v] \in 0 .. 8
    <2>1. /\ stateIndex'[v] = IF stateIndex[v] < 9 THEN stateIndex[v] + 1 ELSE stateIndex[v]
          /\ AdvanceOf(v) \in Slots
      BY <1>1, AdvanceFacts DEF Base, Stack
    <2>2. stateIndex[v] \in 0 .. 8
      BY <1>1, <1>2, <1>4, <2>1, Numbers DEF MachineOK, Asking, Base, Types, ConnectTypeOK
    <2> QED  BY <2>1, <2>2
  <1>8. ASSUME NEW c \in Slots' PROVE InOrder(c)'
    <2>1. CASE c \in MachineCalls
      BY <2>1, MachineCallFacts DEF InOrder
    <2>2. CASE c \in Slots /\ c \notin MachineCalls /\ c.slot \in {"sendComplete", "loadComplete"}
      <3>1. c \in TransferCalls /\ c.element \in Elements
        <4>1. c \in CallType
          BY <1>1, <2>2, EntriesTyped DEF Base, Types, FleetType, Slots
        <4>2. c \in TransferCalls
          BY <2>2, <4>1, CallKinds, AvcFacts
        <4> QED  BY <4>2, TransferCallFacts
      <3>2. activeVehicle \in Vehicles
        BY <1>1, <2>2, <3>1 DEF Base, Stack, Types, FleetType
      <3>3. CASE activeVehicle # v
        BY <1>1, <1>2, <1>4, <2>2, <3>2, <3>3 DEF InOrder, Done, Behind, SameMachine
      <3>4. CASE activeVehicle = v
        <4>1. c.slot = "loadComplete" /\ Behind(v, c.element)
          BY <1>2, <1>4, <2>2, <3>4 DEF InOrder, Done
        <4>2. Behind(v, c.element)'
          BY <1>4, <1>5, <1>7, <3>1, <4>1, PositionFacts DEF Behind
        <4> QED  BY <1>1, <3>4, <4>1, <4>2 DEF InOrder
      <3> QED  BY <3>3, <3>4
    <2> QED  BY <1>4, <2>1, <2>2 DEF InOrder
  <1> QED  BY <1>3, <1>6, <1>8 DEF Connect

LEMMA FirstLoadConnect ==
    ASSUME ConnInv, NEW v \in Vehicles, NEW e \in Elements, FirstLoadComplete(v, e), Elsewhere
    PROVE  Connect'
  <1>1. Base /\ Connect /\ activeVehicle' = activeVehicle
    BY DEF ConnInv, Elsewhere
  <1>2. /\ Replaced(AdvanceOf(v)) /\ calls # <<>> /\ Head(calls) = FirstLoadOf(v, e)
        /\ FirstLoadOf(v, e) \in Slots
        /\ \A u \in Vehicles : firstLoad'[u] = IF u = v THEN firstLoad[v] \ {e} ELSE firstLoad[u]
        /\ UNCHANGED <<stateIndex, awaited, link, outages, managerVars>>
    BY <1>1, FirstLoadFacts
  <1> SUFFICES ASSUME outages = 0 PROVE Connect'
    BY <1>2 DEF Connect
  <1>3. /\ LinksUp /\ (\A u \in Vehicles : MachineOK(u)) /\ (\A c \in Slots : InOrder(c))
    BY <1>1 DEF Connect
  <1>4. /\ AdvanceOf(v) \in MachineCalls /\ AdvanceOf(v).of = v /\ AdvanceOf(v).slot = "advance"
        /\ \A x \in Elements :
              /\ FirstLoadOf(v, x) \in MachineCalls /\ FirstLoadOf(v, x).of = v
              /\ FirstLoadOf(v, x).slot = "firstLoadComplete" /\ FirstLoadOf(v, x).element = x
    BY MachineCallFacts
  <1>5. \A u \in Vehicles : (Machine(u) <=> u = v) /\ (Machine(u)' <=> u = v)
    BY <1>1, <1>2, <1>4, MachinesBefore, MachinesAfter
  <1>6. /\ awaited[v] = {} /\ Idle(v)
        /\ stateIndex[v] = Position[e] /\ firstLoad[v] = Later(stateIndex[v])
    BY <1>2, <1>3, <1>5 DEF MachineOK, Asking
  <1>7. firstLoad'[v] = Later(stateIndex[v] + 1) /\ stateIndex[v] \in 5 .. 7
    <2>1. firstLoad'[v] = Later(Position[e]) \ {e}
      BY <1>2, <1>6
    <2>2. Later(Position[e]) \ {e} = Later(Position[e] + 1)
      BY LaterFacts
    <2> QED  BY <1>6, <2>1, <2>2, PositionFacts
  <1>8. \A x \in Elements : FirstLoadOf(v, x) \notin Slots'
    BY <1>2, <1>4, MachinesAfter
  <1>9. Asking(v)'
    <2>1. Idle(v)'
      BY <1>2, <1>6, IdleKept
    <2> QED  BY <1>2, <1>6, <1>7, <1>8, <2>1, Numbers DEF Asking
  <1>10. \A u \in Vehicles : u # v => SameMachine(u)
    BY <1>2 DEF SameMachine, managerVars
  <1>11. \A u \in Vehicles : MachineOK(u)'
    BY <1>3, <1>5, <1>9, <1>10, WaitingKept DEF MachineOK
  <1>12. LinksUp'
    BY <1>2, <1>3 DEF LinksUp
  <1>13. ASSUME NEW c \in Slots' PROVE InOrder(c)'
    <2>1. CASE c = AdvanceOf(v)
      BY <1>4, <2>1 DEF InOrder
    <2>2. CASE c \in Slots /\ c \notin MachineCalls /\ c.slot \in {"sendComplete", "loadComplete"}
      <3>1. c \in TransferCalls
        <4>1. c \in CallType
          BY <1>1, <2>2, EntriesTyped DEF Base, Types, FleetType, Slots
        <4> QED  BY <2>2, <4>1, CallKinds, AvcFacts
      <3>2. activeVehicle \in Vehicles
        BY <1>1, <2>2, <3>1 DEF Base, Stack, Types, FleetType
      <3>3. Machine(activeVehicle)' <=> Machine(activeVehicle)
        BY <1>1, <1>5, <3>2
      <3> QED  BY <1>1, <1>2, <1>3, <2>2, <3>3 DEF InOrder, Done, Behind
    <2>3. c = AdvanceOf(v) \/ (c \in Slots /\ c \notin MachineCalls)
      BY <1>2 DEF Replaced
    <2> QED  BY <2>1, <2>2, <2>3 DEF InOrder
  <1> QED  BY <1>11, <1>12, <1>13 DEF Connect

LEMMA AnsweredConnect ==
    ASSUME ConnInv, NEW v \in Vehicles, NEW a \in AnsweredStates, Answered(v, a), Elsewhere
    PROVE  Connect'
  <1>1. Base /\ Connect
    BY DEF ConnInv
  <1>2. /\ calls = <<>> /\ Slots' = {AdvanceOf(v)}
        /\ a \in awaited[v]
        /\ \A u \in Vehicles : awaited'[u] = IF u = v THEN awaited[v] \ {a} ELSE awaited[u]
        /\ UNCHANGED <<stateIndex, firstLoad, link, outages, managerVars>>
    BY <1>1, AnsweredFacts
  <1> SUFFICES ASSUME outages = 0 PROVE Connect'
    BY <1>2 DEF Connect
  <1>3. LinksUp /\ (\A u \in Vehicles : MachineOK(u))
    BY <1>1 DEF Connect
  <1>4. /\ AdvanceOf(v) \in MachineCalls /\ AdvanceOf(v).of = v /\ AdvanceOf(v).slot = "advance"
        /\ \A x \in Elements : FirstLoadOf(v, x).slot = "firstLoadComplete"
    BY MachineCallFacts
  <1>5. \A u \in Vehicles : ~Machine(u) /\ (Machine(u)' <=> u = v)
    BY <1>2, <1>4, NoSlots DEF Machine
  <1>6. WaitsForAnswer(v)
    BY <1>2, <1>3, <1>5 DEF MachineOK, Waiting, NotMet, WaitsForLoad, Through
  <1>7. /\ awaited'[v] = {} /\ Idle(v)'
        /\ stateIndex'[v] \in 1 .. 4 /\ firstLoad'[v] = Elements
    BY <1>2, <1>6, IdleKept DEF WaitsForAnswer
  <1>8. firstLoad'[v] = Later(stateIndex'[v] + 1)
    BY <1>7, LaterFacts
  <1>9. Asking(v)'
    BY <1>2, <1>4, <1>7, <1>8, Numbers DEF Asking
  <1>10. \A u \in Vehicles : u # v => SameMachine(u)
    BY <1>2 DEF SameMachine, managerVars
  <1>11. \A u \in Vehicles : MachineOK(u)'
    BY <1>3, <1>5, <1>9, <1>10, WaitingKept DEF MachineOK
  <1>12. LinksUp'
    BY <1>2, <1>3 DEF LinksUp
  <1>13. \A c \in Slots' : InOrder(c)'
    BY <1>2, <1>4 DEF InOrder
  <1> QED  BY <1>11, <1>12, <1>13 DEF Connect

LEMMA LinkConnect ==
    ASSUME ConnInv, NEW v \in Vehicles, LinkStep(v), Elsewhere
    PROVE  Connect'
  <1>1. outages \in Nat
    BY OutagesAssumption DEF ConnInv, Base, Types, ConnectTypeOK
  <1>2. CASE LinkGoes(v)
    <2>1. outages' = outages + 1
      BY <1>2 DEF LinkGoes
    <2> QED  BY <1>1, <2>1 DEF Connect
  <1>3. CASE LinkReturns(v)
    <2>1. outages' = outages /\ ~link[v]
      BY <1>3 DEF LinkReturns
    <2>2. outages # 0
      BY <2>1 DEF ConnInv, Connect, LinksUp
    <2> QED  BY <2>1, <2>2 DEF Connect
  <1> QED  BY <1>2, <1>3 DEF LinkStep

-----------------------------------------------------------------------------
(* Connect after every other step, when the user makes no request of a        *)
(* vehicle that is connecting.                                                *)

LEMMA VehicleComesConnect ==
    ASSUME ConnInv, NEW v \in Vehicles, VehicleComes(v)
    PROVE  Connect'
  <1>1. Base /\ Connect
    BY DEF ConnInv
  <1>2. /\ calls = <<>> /\ ~Is(v)
        /\ Slots' = {AdvanceOf(v)} \cup (IF connected = <<>> THEN {Avc(w) : w \in Views} ELSE {})
        /\ UNCHANGED <<managerVars, connectVars>>
    BY <1>1, VehicleComesFacts
  <1>3. UNCHANGED <<stateIndex, awaited, firstLoad, link, outages>>
    BY <1>2 DEF connectVars
  <1> SUFFICES ASSUME outages = 0 PROVE Connect'
    BY <1>3 DEF Connect
  <1>4. LinksUp /\ (\A u \in Vehicles : MachineOK(u))
    BY <1>1 DEF Connect
  <1>5. /\ AdvanceOf(v) \in MachineCalls /\ AdvanceOf(v).of = v /\ AdvanceOf(v).slot = "advance"
        /\ \A x \in Elements : FirstLoadOf(v, x).slot = "firstLoadComplete"
    BY MachineCallFacts
  <1>6. \A u \in Vehicles : ~Machine(u) /\ (Machine(u)' <=> u = v)
    BY <1>2, <1>5, NoSlots, CallKinds DEF Machine
  <1>7. stateIndex[v] = 0 /\ awaited[v] = {} /\ firstLoad[v] = Elements /\ Idle(v)
    BY <1>1, <1>2 DEF Base, Fleet
  <1>8. Idle(v)' /\ Elements = Later(0 + 1)
    BY <1>2, <1>7, IdleKept, LaterFacts
  <1>9. \A x \in Elements : FirstLoadOf(v, x) \notin Slots'
    BY <1>2, <1>5, AvcFacts
  <1>10. Asking(v)'
    BY <1>3, <1>7, <1>8, <1>9, Numbers DEF Asking
  <1>11. \A u \in Vehicles : u # v => SameMachine(u)
    BY <1>2, <1>3 DEF SameMachine, managerVars
  <1>12. \A u \in Vehicles : MachineOK(u)'
    BY <1>4, <1>6, <1>10, <1>11, WaitingKept DEF MachineOK
  <1>13. LinksUp'
    BY <1>3, <1>4 DEF LinksUp
  <1>14. \A c \in Slots' : InOrder(c)'
    BY <1>2, <1>5, AvcFacts DEF InOrder
  <1> QED  BY <1>12, <1>13, <1>14 DEF Connect

(* Both views being told of a vehicle is in order.                            *)
LEMMA ToldInOrder ==
    ASSUME Slots' = {Avc(w) : w \in Views}
    PROVE  (\A c \in Slots' : InOrder(c)') /\ Slots' \cap MachineCalls = {}
  BY AvcFacts, CallKinds DEF InOrder

LEMMA VehicleGoesConnect ==
    ASSUME ConnInv, NEW v \in Vehicles, VehicleGoes(v)
    PROVE  Connect'
  <1>1. Base /\ Connect
    BY DEF ConnInv
  <1>2. /\ calls = <<>> /\ Slots' = {Avc(w) : w \in Views}
        /\ Forgotten(v)
        /\ \A u \in Vehicles :
              /\ stateIndex'[u] = IF u = v THEN 0 ELSE stateIndex[u]
              /\ awaited'[u] = IF u = v THEN {} ELSE awaited[u]
              /\ firstLoad'[u] = IF u = v THEN Elements ELSE firstLoad[u]
              /\ u # v => link'[u] = link[u]
        /\ link'[v] = TRUE /\ outages' = outages
    BY <1>1, VehicleGoesFacts
  <1> SUFFICES ASSUME outages = 0 PROVE Connect'
    BY <1>2 DEF Connect
  <1>3. LinksUp /\ (\A u \in Vehicles : MachineOK(u))
    BY <1>1 DEF Connect
  <1>4. (\A c \in Slots' : InOrder(c)') /\ \A u : ~Machine(u) /\ ~Machine(u)'
    BY <1>2, NoSlots, ToldInOrder, MachinesAfter
  <1>5. NotMet(v)'
    BY <1>2, ForgottenIdle DEF NotMet
  <1>6. \A u \in Vehicles : u # v => SameMachine(u)
    BY <1>2 DEF SameMachine, Forgotten
  <1>7. \A u \in Vehicles : MachineOK(u)'
    <2>1. MachineOK(v)'
      BY <1>4, <1>5 DEF MachineOK, Waiting
    <2>2. \A u \in Vehicles : u # v => MachineOK(u)'
      BY <1>3, <1>4, <1>6, WaitingKept DEF MachineOK
    <2> QED  BY <2>1, <2>2
  <1>8. LinksUp'
    BY <1>2, <1>3 DEF LinksUp
  <1> QED  BY <1>4, <1>7, <1>8 DEF Connect

LEMMA SetActiveConnect ==
    ASSUME ConnInv, NEW v \in Vehicles, SetActiveVehicle(v)
    PROVE  Connect'
  <1>1. Base /\ Connect
    BY DEF ConnInv
  <1>2. calls = <<>> /\ Slots' = {Avc(w) : w \in Views} /\ UNCHANGED <<managerVars, connectVars>>
    BY <1>1, SetActiveFacts
  <1>3. /\ UNCHANGED <<stateIndex, awaited, firstLoad, link, outages>>
        /\ UNCHANGED <<stateIndex, awaited, firstLoad, managerVars>>
    BY <1>2 DEF connectVars
  <1> QED  BY <1>1, <1>2, <1>3, NoSlots, ToldInOrder, SameAll, ConnectKept

LEMMA ToldConnect ==
    ASSUME ConnInv, NEW w \in Views, ActiveVehicleChanged(w)
    PROVE  Connect'
  <1>1. Base /\ Connect
    BY DEF ConnInv
  <1>2. Told(w)
    BY <1>1, ToldFacts
  <1>3. /\ Popped /\ calls # <<>> /\ Head(calls) = Avc(w)
        /\ UNCHANGED <<managerVars, activeVehicle>>
    BY <1>2 DEF Told
  <1>4. UNCHANGED <<stateIndex, awaited, firstLoad, link, outages>>
    BY <1>2 DEF Told, Takes, Showing, connectVars
  <1>5. UNCHANGED <<stateIndex, awaited, firstLoad, managerVars>>
    BY <1>3, <1>4
  <1>6. /\ Slots \cap MachineCalls = {} /\ Slots' \cap MachineCalls = {}
        /\ \A c \in Slots' : c \in Slots
    BY <1>1, <1>3, MachinesBefore, CallKinds DEF Popped
  <1> QED  BY <1>1, <1>3, <1>4, <1>5, <1>6, SameAll, ConnectKept

LEMMA SlotCallFacts ==
    ASSUME NEW slot \in ViewSlotNames, NEW w \in Views, NEW e \in Elements, NEW error \in BOOLEAN
    PROVE  LET d == Call(slot, w, e, error)
           IN /\ d \in TransferCalls /\ d \notin MachineCalls
              /\ d.slot = slot /\ d.of = w /\ d.element = e /\ d.error = error
  BY TransferCallFacts, CallFacts, CallKinds

(* What the slots of a transfer share.                                        *)
LEMMA SlotConnect ==
    ASSUME ConnInv, NEW slot \in ViewSlotNames, NEW w \in Views, NEW e \in Elements,
           NEW error \in BOOLEAN, Running(Call(slot, w, e, error)), SlotSteady
    PROVE  /\ Base /\ Connect /\ Slots \cap MachineCalls = {}
           /\ UNCHANGED <<stateIndex, awaited, firstLoad, link, outages, activeVehicle>>
           /\ activeVehicle \in Vehicles
           /\ outages = 0 => /\ Waiting(activeVehicle)
                             /\ InOrder(Call(slot, w, e, error))
           /\ \A u : ~Machine(u)
  <1>1. Base /\ Connect
    BY DEF ConnInv
  <1>2. /\ Slots \cap MachineCalls = {} /\ activeVehicle \in Vehicles
        /\ Call(slot, w, e, error) \in Slots
    BY <1>1, TransferCallRuns
  <1>3. \A u : ~Machine(u)
    BY <1>2, MachinesAfter
  <1> QED  BY <1>1, <1>2, <1>3 DEF Connect, MachineOK, SlotSteady, connectVars

LEMMA PoppedConnect ==
    ASSUME ConnInv, NEW slot \in ViewSlotNames, NEW w \in Views, NEW e \in Elements,
           NEW error \in BOOLEAN, Running(Call(slot, w, e, error)), SlotSteady, Popped,
           \A v \in Vehicles : SameMachine(v)
    PROVE  Connect'
  <1>1. /\ Base /\ Connect /\ Slots \cap MachineCalls = {}
        /\ UNCHANGED <<stateIndex, awaited, firstLoad, link, outages, activeVehicle>>
    BY SlotConnect
  <1>2. Slots' \cap MachineCalls = {} /\ \A c \in Slots' : c \in Slots
    BY DEF Popped
  <1> QED  BY <1>1, <1>2, ConnectKept

LEMMA StartedSame ==
    ASSUME NEW v \in Vehicles, stateIndex[v] = Finished, NEW S, NEW t, Started(v, S, t),
           UNCHANGED <<stateIndex, awaited, firstLoad>>
    PROVE  \A u \in Vehicles : SameMachine(u)
  BY DEF SameMachine, Started

LEMMA LoadCompleteConnect ==
    ASSUME ConnInv, NEW w \in Views, NEW e \in Elements, NEW error \in BOOLEAN,
           LoadComplete(w, e, error)
    PROVE  Connect'
  <1> DEFINE a == activeVehicle
             c == Call("loadComplete", w, e, error)
             n == NextElement[e]
  <1>1. Base /\ "loadComplete" \in ViewSlotNames
    BY DEF ConnInv, ViewSlotNames
  <1>2. Loaded(w, e, error) /\ Running(c) /\ SlotSteady
    BY <1>1, LoadCompleteFacts
  <1>3. /\ Base /\ Connect /\ Slots \cap MachineCalls = {}
        /\ UNCHANGED <<stateIndex, awaited, firstLoad, link, outages, activeVehicle>>
        /\ a \in Vehicles
        /\ outages = 0 => Waiting(a) /\ InOrder(c)
        /\ \A u : ~Machine(u)
    BY <1>1, <1>2, SlotConnect
  <1>4. c.slot = "loadComplete" /\ c.element = e
    BY CallFacts
  <1>5. outages = 0 => Waiting(a) /\ (stateIndex[a] = Finished \/ Behind(a, e))
    BY <1>3, <1>4 DEF InOrder, Done
  <1> SUFFICES ASSUME outages = 0 PROVE Connect'
    BY <1>3 DEF Connect
  <1>6. CASE NothingMore
    <2>1. Popped /\ UNCHANGED <<stateIndex, awaited, firstLoad, managerVars>>
      BY <1>3, <1>6 DEF NothingMore
    <2> QED  BY <1>1, <1>2, <2>1, SameAll, PoppedConnect
  <1>7. ASSUME e \in {"mission", "fence"}
        PROVE  /\ n \in Elements /\ Position[n] = Position[e] + 1
               /\ Position[e] \in 5 .. 6
               /\ stateIndex[a] = Finished \/ (Behind(a, e) /\ stateIndex[a] >= Position[n])
               /\ stateIndex[a] = Position[n] => WaitsForLoad(a)
    <2>1. n \in Elements /\ Position[n] = Position[e] + 1 /\ Position[e] \in 5 .. 6
      BY <1>7, NextFacts, PositionFacts
    <2>2. stateIndex[a] \in 0 .. 9
      BY <1>3, Numbers DEF Base, Types, ConnectTypeOK
    <2>3. stateIndex[a] = Finished \/ (Behind(a, e) /\ stateIndex[a] >= Position[n])
      BY <1>3, <1>5, <2>1, <2>2 DEF Behind
    <2>4. stateIndex[a] = Position[n] => WaitsForLoad(a)
      BY <1>5, <2>1, Numbers DEF Waiting, NotMet, WaitsForAnswer, Through
    <2> QED  BY <2>1, <2>3, <2>4
  <1>8. CASE e \in {"mission", "fence"} /\ LoadsNext(w, n)
    <2>1. n \in Supports[a] /\ Popped /\ Started(a, {n}, Reading)
      BY <1>8 DEF LoadsNext
    <2>2. CASE stateIndex[a] = Finished
      BY <1>1, <1>2, <1>3, <2>1, <2>2, StartedSame, PoppedConnect
    <2>3. CASE Behind(a, e) /\ stateIndex[a] >= Position[n]
      <3>1. stateIndex[a] = Position[n]
        <4>1. stateIndex[a] \in 0 .. 9
          BY <1>3, Numbers DEF Base, Types, ConnectTypeOK
        <4>2. n \in Elements /\ Position[n] = Position[e] + 1 /\ Position[e] \in 5 .. 6
          BY <1>7, <1>8
        <4> HIDE DEF n
        <4>3. ~(Position[n] < stateIndex[a])
          BY <2>1, <2>3, <4>2 DEF Behind
        <4> QED  BY <2>3, <4>1, <4>2, <4>3
      <3>2. transfer[a][n] = Reading
        BY <1>7, <1>8, <3>1 DEF WaitsForLoad
      <3>3. \A u \in Vehicles : SameMachine(u)
        BY <1>3, <2>1, <3>2, TransferFacts DEF Started, SameMachine
      <3> QED  BY <1>1, <1>2, <2>1, <3>3, PoppedConnect
    <2> QED  BY <1>7, <1>8, <2>2, <2>3
  <1>9. CASE e \in {"mission", "fence"} /\ SkipsLoad(w, n, error)
    <2> DEFINE d == Call("loadComplete", w, n, error)
    <2>1. n \notin Supports[a] /\ Replaced(d) /\ UNCHANGED managerVars
      BY <1>9 DEF SkipsLoad
    <2>2. d \notin MachineCalls /\ d.slot = "loadComplete" /\ d.element = n
      <3>1. n \in Elements
        BY <1>7, <1>9
      <3> HIDE DEF n
      <3> QED  BY <1>1, <3>1, SlotCallFacts
    <2> HIDE DEF d
    <2>3. (\A u : ~Machine(u)') /\ Slots' \cap MachineCalls = {}
      BY <2>1, <2>2, MachinesAfter DEF Replaced
    <2>4. stateIndex[a] = Finished \/ Behind(a, n)'
      <3> SUFFICES ASSUME Behind(a, e) /\ stateIndex[a] >= Position[n] PROVE Behind(a, n)'
        BY <1>7, <1>9
      <3>1. stateIndex[a] # Position[n]
        BY <1>7, <1>9, <2>1 DEF WaitsForLoad
      <3>2. stateIndex[a] \in 0 .. 9
        BY <1>3, Numbers DEF Base, Types, ConnectTypeOK
      <3> QED  BY <1>3, <1>7, <1>9, <2>3, <3>1, <3>2, PositionFacts DEF Behind
    <2>5. InOrder(d)'
      BY <1>3, <2>2, <2>3, <2>4 DEF InOrder, Done
    <2>6. \A x \in Slots' : InOrder(x)' \/ x \in Slots
      BY <2>1, <2>5 DEF Replaced
    <2> QED  BY <1>3, <2>1, <2>3, <2>6, SameAll, ConnectKept
  <1> QED  BY <1>2, <1>6, <1>8, <1>9 DEF Loaded

LEMMA SendCompleteConnect ==
    ASSUME ConnInv, NEW w \in Views, NEW e \in Elements, NEW error \in BOOLEAN,
           SendComplete(w, e, error)
    PROVE  Connect'
  <1> DEFINE a == activeVehicle
             c == Call("sendComplete", w, e, error)
             n == NextElement[e]
  <1>1. Base /\ "sendComplete" \in ViewSlotNames
    BY DEF ConnInv, ViewSlotNames
  <1>2. Sent(w, e, error) /\ Running(c) /\ SlotSteady
    BY <1>1, SendCompleteFacts
  <1>3. /\ Base /\ Connect /\ Slots \cap MachineCalls = {}
        /\ UNCHANGED <<stateIndex, awaited, firstLoad, link, outages, activeVehicle>>
        /\ a \in Vehicles
        /\ outages = 0 => Waiting(a) /\ InOrder(c)
        /\ \A u : ~Machine(u)
    BY <1>1, <1>2, SlotConnect
  <1> SUFFICES ASSUME outages = 0 PROVE Connect'
    BY <1>3 DEF Connect
  <1>4. stateIndex[a] = Finished
    BY <1>3, CallFacts DEF InOrder, Done
  <1>5. CASE NothingMore
    <2>1. Popped /\ UNCHANGED <<stateIndex, awaited, firstLoad, managerVars>>
      BY <1>3, <1>5 DEF NothingMore
    <2> QED  BY <1>1, <1>2, <2>1, SameAll, PoppedConnect
  <1>6. CASE SendsNext(w, n)
    BY <1>1, <1>2, <1>3, <1>4, <1>6, StartedSame, PoppedConnect DEF SendsNext
  <1>7. CASE e \in {"mission", "fence"} /\ SkipsSend(w, n, error)
    <2> DEFINE d == Call("sendComplete", w, n, error)
    <2>1. Replaced(d) /\ UNCHANGED managerVars
      BY <1>7 DEF SkipsSend
    <2>2. d \notin MachineCalls /\ d.slot = "sendComplete"
      BY <1>1, <1>7, NextFacts, SlotCallFacts
    <2> HIDE DEF d
    <2>3. (\A u : ~Machine(u)') /\ Slots' \cap MachineCalls = {}
      BY <2>1, <2>2, MachinesAfter DEF Replaced
    <2>4. InOrder(d)'
      BY <1>3, <1>4, <2>2, <2>3 DEF InOrder, Done
    <2>5. \A x \in Slots' : InOrder(x)' \/ x \in Slots
      BY <2>1, <2>4 DEF Replaced
    <2> QED  BY <1>3, <2>1, <2>3, <2>5, SameAll, ConnectKept
  <1> QED  BY <1>2, <1>5, <1>6, <1>7 DEF Sent

LEMMA ShownConnect ==
    ASSUME ConnInv, NEW slot \in ViewSlotNames, NEW w \in Views, NEW e \in Elements,
           NEW error \in BOOLEAN, NEW shows, Running(Call(slot, w, e, error)), SlotSteady,
           ShownOrNot(w, e, shows)
    PROVE  Connect'
  <1>1. Popped /\ UNCHANGED managerVars
    BY DEF ShownOrNot
  <1>2. UNCHANGED <<stateIndex, awaited, firstLoad>>
    BY DEF SlotSteady, connectVars
  <1> QED  BY <1>1, <1>2, SameAll, PoppedConnect

LEMMA EndsConnect ==
    ASSUME ConnInv, NEW v \in Vehicles, NEW e \in Elements, NEW ok \in BOOLEAN,
           TransferEnds(v, e, ok)
    PROVE  Connect'
  <1> DEFINE op == transfer[v][e].op
             s == stateIndex[v]
  <1>1. Base /\ Connect
    BY DEF ConnInv
  <1>2. /\ calls = <<>>
        /\ \E c \in Contents : Ended(v, e, ok, c)
        /\ Heard(v, e, op, ~ok)
        /\ UNCHANGED <<connectVars, activeVehicle>>
    BY <1>1, EndsFacts
  <1>3. /\ UNCHANGED <<stateIndex, awaited, firstLoad, link, outages, activeVehicle>>
        /\ transfer[v][e] # Nothing
        /\ \A u \in Vehicles, x \in Elements :
              transfer'[u][x] = IF u = v /\ x = e THEN Nothing ELSE transfer[u][x]
    BY <1>2 DEF Ended, connectVars
  <1> SUFFICES ASSUME outages = 0 PROVE Connect'
    BY <1>3 DEF Connect
  <1>4. LinksUp /\ (\A u \in Vehicles : MachineOK(u)) /\ Slots = {} /\ \A u : ~Machine(u)
    BY <1>1, <1>2, NoSlots, MachinesAfter DEF Connect
  <1>5. /\ FirstLoadOf(v, e) \in MachineCalls /\ FirstLoadOf(v, e).of = v
        /\ FirstLoadOf(v, e).slot = "firstLoadComplete"
        /\ \A x \in Elements :
              FirstLoadOf(v, x).slot = "firstLoadComplete" /\ FirstLoadOf(v, x).element = x
        /\ AdvanceOf(v).slot = "advance"
    BY MachineCallFacts
  <1>6. \A c \in Slots' : c = FirstLoadOf(v, e)
           \/ (c \in TransferCalls /\ \E w \in Views : managerVehicle[w] = v /\ ViewHears(w, e, op, ~ok, c))
    BY <1>2 DEF Heard, ViewHears
  <1>7. \A w \in Views : managerVehicle[w] = activeVehicle
    BY <1>1, <1>2, Settles
  <1>8. \A c \in Slots' : c \in MachineCalls => c = FirstLoadOf(v, e) /\ op = "Read" /\ e \in firstLoad[v]
    BY <1>2, <1>6, CallKinds DEF Heard, ViewHears
  <1>9. \A u : Machine(u)' <=> u = v /\ op = "Read" /\ e \in firstLoad[v]
    <2>1. op = "Read" /\ e \in firstLoad[v] => FirstLoadOf(v, e) \in Slots'
      BY <1>2 DEF Heard
    <2> QED  BY <1>5, <1>8, <2>1 DEF Machine
  <1>10. Waiting(v)
    BY <1>4 DEF MachineOK
  <1>11. WaitsForLoad(v) \/ Through(v)
    BY <1>3, <1>10 DEF Waiting, NotMet, WaitsForAnswer, Idle, inProgress
  <1>12. CASE WaitsForLoad(v)
    <2>1. /\ s = Position[e] /\ transfer[v][e] = Reading /\ op = "Read"
          /\ awaited[v] = {} /\ firstLoad[v] = Later(s) /\ v \notin HighLatency
          /\ \A x \in Elements : x # e => transfer[v][x] = Nothing
      BY <1>3, <1>12, PositionFacts, TransferFacts DEF WaitsForLoad
    <2>2. e \in firstLoad[v]
      BY <2>1, LaterFacts
    <2>3. Machine(v)'
      BY <1>9, <2>1, <2>2
    <2>4. Idle(v)'
      BY <1>3, <2>1 DEF Idle, inProgress
    <2>5. /\ AdvanceOf(v) \notin Slots'
          /\ \A x \in Elements : FirstLoadOf(v, x) \in Slots' => x = e
      BY <1>5, <1>8, MachineCallFacts
    <2>6. Asking(v)'
      BY <1>3, <2>1, <2>4, <2>5 DEF Asking
    <2>7. Behind(v, e)'
      BY <1>3, <2>1, <2>3, PositionFacts DEF Behind
    <2>8. ASSUME NEW c \in Slots' PROVE InOrder(c)'
      <3>1. CASE c = FirstLoadOf(v, e)
        BY <1>5, <3>1 DEF InOrder
      <3>2. CASE \E w \in Views : managerVehicle[w] = v /\ ViewHears(w, e, op, ~ok, c)
        <4>1. activeVehicle = v /\ c.element = e /\ c.slot # "sendComplete"
          BY <1>7, <2>1, <3>2 DEF ViewHears
        <4> QED  BY <1>3, <2>7, <4>1 DEF InOrder
      <3> QED  BY <1>6, <3>1, <3>2
    <2> QED  BY <1>3, <1>4, <1>9, <2>3, <2>6, <2>8, WaitingKept
             DEF Connect, MachineOK, LinksUp, SameMachine
  <1>13. CASE Through(v)
    <2>1. \A u : ~Machine(u)'
      BY <1>9, <1>13 DEF Through
    <2>2. \A u \in Vehicles : SameMachine(u)
      BY <1>3, <1>13 DEF SameMachine, Through
    <2>3. ASSUME NEW c \in Slots' PROVE InOrder(c)'
      <3>1. CASE c = FirstLoadOf(v, e)
        BY <1>5, <3>1 DEF InOrder
      <3>2. CASE \E w \in Views : managerVehicle[w] = v
        <4>1. Done(activeVehicle)'
          BY <1>3, <1>7, <1>13, <2>1, <3>2 DEF Done, Through
        <4> QED  BY <4>1 DEF InOrder
      <3> QED  BY <1>6, <3>1, <3>2
    <2> QED  BY <1>3, <1>4, <2>1, <2>2, <2>3, WaitingKept DEF Connect, MachineOK, LinksUp
  <1> QED  BY <1>11, <1>12, <1>13

(* A step that touches no machine while nothing is left to run.               *)
LEMMA QuietConnect ==
    ASSUME ConnInv, calls = <<>>, calls' = calls,
           UNCHANGED <<stateIndex, awaited, firstLoad, link, outages, activeVehicle>>,
           \A v \in Vehicles : SameMachine(v)
    PROVE  Connect'
  <1>1. Base /\ Connect
    BY DEF ConnInv
  <1>2. Slots = {} /\ Slots' = {}
    BY NoSlots, EntriesSmall DEF Slots, Entries
  <1> QED  BY <1>1, <1>2, ConnectKept

LEMMA AskedConnect ==
    ASSUME ConnInv, "requests" \notin Disturbances, Asked,
           NEW S, NEW t, Started(activeVehicle, S, t)
    PROVE  Connect'
  <1>1. /\ calls = <<>> /\ calls' = calls /\ activeVehicle \in Vehicles
        /\ stateIndex[activeVehicle] = Finished
        /\ UNCHANGED <<stateIndex, awaited, firstLoad, link, outages, activeVehicle>>
    BY DEF Asked, RequestSteady, connectVars
  <1> QED  BY <1>1, StartedSame, QuietConnect

LEMMA UserRequestConnect ==
    ASSUME ConnInv, "requests" \notin Disturbances, UserRequest
    PROVE  Connect'
  <1>1. Base
    BY DEF ConnInv
  <1>2. CASE Upload
    BY <1>1, <1>2, UploadFacts, AskedConnect
  <1>3. CASE Download
    BY <1>1, <1>3, DownloadFacts, AskedConnect
  <1>4. ASSUME NEW w \in Views, NEW kind, RemoveAllFromVehicle(w, kind) PROVE Connect'
    BY <1>1, <1>4, RemoveAllRequestFacts, AskedConnect
  <1>5. ASSUME NEW kind, NEW t \in FlyTransfers, FlyMission(kind, t) PROVE Connect'
    BY <1>1, <1>5, FlyMissionFacts, AskedConnect
  <1>6. CASE Resume
    BY <1>1, <1>5, <1>6, ResumeFacts
  <1>7. "Plan" \in Views /\ "Fly" \in Views /\ GuidedItem \in FlyTransfers
    BY DEF Views, FlyTransfers
  <1> QED  BY <1>2, <1>3, <1>4, <1>5, <1>6, <1>7 DEF UserRequest

LEMMA UserEditConnect ==
    ASSUME ConnInv, Drawing \/ Replied
    PROVE  Connect'
  <1>1. calls = <<>> /\ calls' = calls /\ UNCHANGED <<managerVars, activeVehicle>>
    BY DEF Drawing, Edited, Replied, EditSteady
  <1>2. UNCHANGED <<stateIndex, awaited, firstLoad, link, outages>>
    BY DEF Drawing, Edited, Replied, TakesOver, Keeps, Showing, connectVars
  <1>3. UNCHANGED <<stateIndex, awaited, firstLoad, managerVars>>
    BY <1>1, <1>2
  <1> QED  BY <1>1, <1>2, <1>3, SameAll, QuietConnect

LEMMA StepConnect ==
    ASSUME "requests" \notin Disturbances, ConnInv, [Next]_vars
    PROVE  ConnInv'
  <1>1. Base
    BY DEF ConnInv
  <1>2. Base'
    BY <1>1, StepBase
  <1> SUFFICES Connect'
    BY <1>2 DEF ConnInv
  <1>3. CASE ConnectMachine
    BY <1>3, ConnectMachineSteps, AdvanceConnect, FirstLoadConnect, AnsweredConnect, LinkConnect
  <1>4. CASE VehiclesComeAndGo
    BY <1>4, VehicleComesConnect, VehicleGoesConnect, SetActiveConnect DEF VehiclesComeAndGo
  <1>5. CASE ViewSlots
    <2>1. {"newItems"} \cup ManagerSlots \subseteq ViewSlotNames
      BY DEF ManagerSlots, ViewSlotNames
    <2>2. ASSUME NEW w \in Views, NEW e \in Elements, NEW error \in BOOLEAN, NewItems(w, e, error)
          PROVE  Connect'
      BY <1>1, <2>1, <2>2, NewItemsFacts, ShownConnect
    <2>3. ASSUME NEW slot \in ManagerSlots, NEW w \in Views, NEW e \in Elements,
                 NEW error \in BOOLEAN, ManagerComplete(slot, w, e, error)
          PROVE  Connect'
      <3> DEFINE shows == Refreshes(slot, w, e, error)
      <3>1. ShownOrNot(w, e, shows) /\ Running(Call(slot, w, e, error)) /\ SlotSteady
        BY <1>1, <2>3, ManagerCompleteFacts
      <3>2. slot \in ViewSlotNames
        BY <2>1
      <3> HIDE DEF shows
      <3> QED  BY <3>1, <3>2, ShownConnect
    <2>4. "managerSendComplete" \in ManagerSlots /\ "managerRemoveAllComplete" \in ManagerSlots
      BY DEF ManagerSlots
    <2>5. PICK w \in Views :
            \/ ActiveVehicleChanged(w)
            \/ \E e \in Elements, error \in BOOLEAN :
                  \/ LoadComplete(w, e, error)
                  \/ SendComplete(w, e, error)
                  \/ NewItems(w, e, error)
                  \/ ManagerComplete("managerSendComplete", w, e, error)
                  \/ ManagerComplete("managerRemoveAllComplete", w, e, error)
      BY <1>5 DEF ViewSlots
    <2>6. CASE ActiveVehicleChanged(w)
      BY <2>6, ToldConnect
    <2>7. ASSUME NEW e \in Elements, NEW error \in BOOLEAN, LoadComplete(w, e, error) PROVE Connect'
      BY <2>7, LoadCompleteConnect
    <2>8. ASSUME NEW e \in Elements, NEW error \in BOOLEAN, SendComplete(w, e, error) PROVE Connect'
      BY <2>8, SendCompleteConnect
    <2>9. ASSUME NEW e \in Elements, NEW error \in BOOLEAN,
                 \/ ManagerComplete("managerSendComplete", w, e, error)
                 \/ ManagerComplete("managerRemoveAllComplete", w, e, error)
          PROVE  Connect'
      BY <2>3, <2>4, <2>9
    <2> QED  BY <2>2, <2>5, <2>6, <2>7, <2>8, <2>9
  <1>6. CASE SomeTransferEnds
    BY <1>6, EndsConnect DEF SomeTransferEnds
  <1>7. CASE UserRequest
    BY <1>7, UserRequestConnect
  <1>8. CASE UserEdit
    BY <1>1, <1>8, UserEdits, UserEditConnect
  <1>9. CASE UNCHANGED vars
    <2>1. /\ UNCHANGED <<calls, managerVars, activeVehicle, connectVars>>
          /\ UNCHANGED <<stateIndex, awaited, firstLoad, managerVars>>
          /\ UNCHANGED <<stateIndex, awaited, firstLoad, link, outages>>
      BY <1>9 DEF vars, connectVars
    <2>2. Slots' = Slots /\ \A v \in Vehicles : SameMachine(v) /\ (Idle(v)' <=> Idle(v))
      BY <2>1, SameAll, IdleKept DEF Slots, Entries
    <2>3. \A v : Machine(v)' <=> Machine(v)
      BY <2>2 DEF Machine
    <2>4. \A v \in Vehicles : (Asking(v) => Asking(v)') /\ (Waiting(v) => Waiting(v)')
      BY <2>1, <2>2, WaitingKept DEF Asking
    <2>5. \A c : InOrder(c) => InOrder(c)'
      BY <2>1, <2>3 DEF InOrder, Done, Behind
    <2> QED  BY <2>1, <2>2, <2>3, <2>4, <2>5 DEF ConnInv, Connect, LinksUp, MachineOK
  <1> QED  BY <1>2, <1>3, <1>4, <1>5, <1>6, <1>7, <1>8, <1>9 DEF Next

(* Waiting is what the property says of a machine with nothing left to run.   *)
LEMMA ConnInvImplies ==
    ASSUME ConnInv
    PROVE  ConnectWaits
  <1>1. TypeOK
    BY TypesImply DEF ConnInv, Base
  <1>2. ASSUME NEW v \in Vehicles, calls = <<>> /\ stateIndex[v] > 0 /\ outages = 0
        PROVE  LET s == stateIndex[v]
                   asked == IF s < Finished THEN {ConnectStates[s]} ELSE {}
                   later == {ElementOf[ConnectStates[k]] : k \in {k \in s .. 7 : k >= 5}}
               IN /\ awaited[v] = asked \cap AnsweredStates
                  /\ firstLoad[v] = later
                  /\ \A a \in asked \ AnsweredStates : transfer[v][ElementOf[a]] = Reading
    <2> DEFINE s == stateIndex[v]
               asked == IF s < Finished THEN {ConnectStates[s]} ELSE {}
               L == {ElementOf[ConnectStates[k]] : k \in {k \in s .. 7 : k >= 5}}
    <2> SUFFICES /\ awaited[v] = asked \cap AnsweredStates
                 /\ firstLoad[v] = L
                 /\ \A a \in asked \ AnsweredStates : transfer[v][ElementOf[a]] = Reading
      OBVIOUS
    <2>1. Waiting(v) /\ s \in 0 .. 9 /\ s > 0
      <3>1. ~Machine(v)
        BY <1>2, NoSlots DEF Machine
      <3> QED  BY <1>2, <3>1, Numbers DEF ConnInv, Connect, MachineOK, Base, Types, ConnectTypeOK
    <2>2. L = Later(s)
      <3>1. ASSUME NEW e \in Later(s) PROVE e \in L
        <4>1. Position[e] \in s .. 7 /\ Position[e] >= 5 /\ e \in Elements
          BY <2>1, <3>1, PositionFacts DEF Later
        <4>2. ElementOf[ConnectStates[Position[e]]] = e
          BY <4>1, PositionFacts
        <4> QED  BY <4>1, <4>2
      <3>2. ASSUME NEW k \in s .. 7, k >= 5 PROVE ElementOf[ConnectStates[k]] \in Later(s)
        BY <2>1, <3>2, PositionFacts DEF Later
      <3> QED  BY <3>1, <3>2
    <2> HIDE DEF L
    <2>3. CASE WaitsForAnswer(v)
      <3>1. s \in 1 .. 4 /\ awaited[v] = {ConnectStates[s]} /\ firstLoad[v] = Elements
        BY <1>2, <2>3 DEF WaitsForAnswer
      <3>2. asked = {ConnectStates[s]} /\ ConnectStates[s] \in AnsweredStates
        BY <1>2, <3>1, Numbers DEF AnsweredStates
      <3>3. L = Elements
        BY <2>2, <3>1, LaterFacts
      <3> QED  BY <3>1, <3>2, <3>3
    <2>4. CASE WaitsForLoad(v)
      <3>1. s \in 5 .. 7 /\ awaited[v] = {} /\ firstLoad[v] = Later(s)
        BY <1>2, <2>4 DEF WaitsForLoad
      <3>2. asked = {ConnectStates[s]} /\ ConnectStates[s] \notin AnsweredStates
        BY <1>2, <3>1, Numbers DEF AnsweredStates
      <3>3. /\ ElementOf[ConnectStates[s]] \in Elements
            /\ Position[ElementOf[ConnectStates[s]]] = s
        BY <3>1, PositionFacts
      <3>4. transfer[v][ElementOf[ConnectStates[s]]] = Reading
        BY <1>2, <2>4, <3>3 DEF WaitsForLoad
      <3> QED  BY <2>2, <3>1, <3>2, <3>4
    <2>5. CASE Through(v)
      <3>1. s = 9 /\ asked = {} /\ awaited[v] = {} /\ firstLoad[v] = {}
        BY <1>2, <2>5, Numbers DEF Through
      <3>2. L = {}
        BY <2>2, <3>1, LaterFacts
      <3> QED  BY <3>1, <3>2
    <2> QED  BY <2>1, <2>3, <2>4, <2>5 DEF Waiting, NotMet
  <1> QED  BY <1>1, <1>2, Zenon DEF ConnectWaits

(* A connecting vehicle whose link stays up waits for the one answer that     *)
(* advances its machine, however many vehicles come and go and transfers fail *)
(* meanwhile, unless the user makes a request of it before it is through.     *)
THEOREM ConnectWaitsHolds ==
    ASSUME "requests" \notin Disturbances
    PROVE  Spec => []ConnectWaits
  <1>1. ConnInv /\ [Next]_vars => ConnInv'
    BY StepConnect
  <1>2. ConnInv => ConnectWaits
    BY ConnInvImplies
  <1> QED  BY <1>1, <1>2, InitConnect, PTL DEF Spec

-----------------------------------------------------------------------------
(* What the steps of the machines, and those between transfers, are to the    *)
(* plan and fly views.                                                        *)

(* A vehicle that is being met has asked for no plan yet.                     *)
JustMet(v) ==
    /\ Idle(v)
    /\ Machine(v) => AdvanceOf(v) \in Slots /\ stateIndex[v] <= 2
AsItWas(v, e) == transfer'[v][e] = transfer[v][e] /\ held'[v][e] = held[v][e]
Moves ==
    /\ Elsewhere /\ stored' = stored
    /\ \A c \in Slots : c \in MachineCalls \/ c \in Slots'
    /\ \A c \in Slots' : c \in MachineCalls \/ c \in Slots
    /\ \A v \in Vehicles : stateIndex[v] = Finished =>
          stateIndex'[v] = Finished /\ \A e \in Elements : AsItWas(v, e)
    /\ \A v \in Vehicles, e \in Elements :
          AsItWas(v, e) \/ (transfer[v][e] = Nothing /\ transfer'[v][e] = Reading)
    /\ \A v \in Vehicles : initialPlanRequestComplete[v] => initialPlanRequestComplete'[v]
    /\ \A v \in Vehicles : (\E w \in Views : Avc(w) \in Slots) /\ JustMet(v) => JustMet(v)'
    /\ Slots \cap MachineCalls = {} => Slots = {} /\ UNCHANGED managerVars

LEMMA UnchangedAsItWas ==
    ASSUME UNCHANGED managerVars
    PROVE  stored' = stored /\ \A v \in Vehicles, e \in Elements : AsItWas(v, e)
  BY DEF managerVars, AsItWas

LEMMA AdvanceMoves ==
    ASSUME Base, NEW v \in Vehicles, Advance(v), Elsewhere
    PROVE  Moves
  <1> DEFINE s == stateIndex[v]
  <1>1. /\ Advanced(v, s)
        /\ Head(calls) = AdvanceOf(v) /\ AdvanceOf(v) \in Slots /\ calls # <<>>
        /\ \A u \in Vehicles : stateIndex'[u] = IF u = v /\ s < 9 THEN s + 1 ELSE stateIndex[u]
        /\ UNCHANGED <<firstLoad, initialPlanRequestComplete, link, outages>>
    BY AdvanceFacts DEF Base, Stack
  <1>2. s \in 0 .. 9 /\ \A u \in Vehicles : stateIndex[u] \in 0 .. 9
    BY Numbers DEF Base, Types, ConnectTypeOK
  <1>3. /\ AdvanceOf(v) \in MachineCalls /\ AdvanceOf(v).of = v
        /\ \A e \in Elements : FirstLoadOf(v, e) \in MachineCalls /\ FirstLoadOf(v, e).of = v
    BY MachineCallFacts
  <1>4. \A u \in Vehicles : (Machine(u) <=> u = v)
    BY <1>1, <1>3, MachinesBefore
  <1> HIDE DEF s
  <1>5. CASE /\ Popped \/ Replaced(AdvanceOf(v)) \/ \E e \in Elements : Replaced(FirstLoadOf(v, e))
             /\ s \in 0 .. 1 \/ ~Replaced(AdvanceOf(v)) \/ s \in 3 .. 9
             /\ (\E e \in Elements : Replaced(FirstLoadOf(v, e))) => s \in 4 .. 6
             /\ UNCHANGED managerVars
    <2>1. stored' = stored /\ \A u \in Vehicles, e \in Elements : AsItWas(u, e)
      BY <1>5, UnchangedAsItWas
    <2>2. \A u \in Vehicles : Idle(u)' <=> Idle(u)
      BY <1>5, IdleKept
    <2>3. /\ \A c \in Slots : c \in MachineCalls \/ c \in Slots'
          /\ \A c \in Slots' : c \in MachineCalls \/ c \in Slots
      BY <1>1, <1>3, <1>5 DEF Popped, Replaced
    <2>4. ASSUME NEW u \in Vehicles, JustMet(u) PROVE JustMet(u)'
      <3>1. CASE ~Machine(u)'
        BY <2>2, <2>4, <3>1 DEF JustMet
      <3>2. CASE Machine(u)'
        <4>1. u = v
          BY <1>3, <1>5, <3>2, MachinesAfter
        <4>2. s <= 2 /\ Idle(v)
          BY <1>4, <2>4, <4>1 DEF JustMet, s
        <4>3. Replaced(AdvanceOf(v)) /\ s \in 0 .. 1
          BY <1>2, <1>5, <3>2, <4>2, MachinesAfter
        <4>4. AdvanceOf(v) \in Slots' /\ stateIndex'[v] <= 2
          BY <1>1, <4>3 DEF Replaced, s
        <4> QED  BY <2>2, <4>1, <4>2, <4>4 DEF JustMet
      <3> QED  BY <3>1, <3>2
    <2>5. \A u \in Vehicles : stateIndex[u] = Finished => stateIndex'[u] = Finished
      BY <1>1, <1>2, Numbers DEF s
    <2>6. Slots \cap MachineCalls # {}
      BY <1>1, <1>3
    <2> QED  BY <1>1, <1>5, <2>1, <2>3, <2>4, <2>5, <2>6 DEF Moves
  <1>6. ASSUME NEW e \in Elements, Position[e] = s + 1, Popped, Started(v, {e}, Reading)
        PROVE  Moves
    <2>1. s \in 4 .. 6
      BY <1>2, <1>6, PositionFacts
    <2>2. stored' = stored
          /\ \A u \in Vehicles, x \in Elements :
                /\ AsItWas(u, x) \/ (transfer[u][x] = Nothing /\ transfer'[u][x] = Reading)
                /\ u # v => AsItWas(u, x)
      BY <1>6 DEF Started, AsItWas
    <2>3. \A u \in Vehicles : ~Machine(u)' /\ (u # v => (Idle(u) => Idle(u)'))
      BY <1>6, <2>2, MachinesAfter DEF Idle, inProgress, AsItWas
    <2>4. ASSUME NEW u \in Vehicles, JustMet(u) PROVE JustMet(u)'
      <3>1. u # v
        BY <1>4, <2>1, <2>4 DEF JustMet, s
      <3> QED  BY <2>3, <2>4, <3>1 DEF JustMet
    <2>5. \A u \in Vehicles : stateIndex[u] = Finished => u # v /\ stateIndex'[u] = Finished
      BY <1>1, <1>2, <2>1, Numbers DEF s
    <2>6. /\ \A c \in Slots : c \in MachineCalls \/ c \in Slots'
          /\ \A c \in Slots' : c \in MachineCalls \/ c \in Slots
      BY <1>1, <1>3, <1>6 DEF Popped
    <2> QED  BY <1>1, <1>3, <2>2, <2>4, <2>5, <2>6 DEF Moves
  <1>7. \A d1, d2 : Replaced(d1) /\ Replaced(d2) /\ d1 \in MachineCalls => d1 = d2
    BY MachinesAfter DEF Replaced
  <1>8. \A e \in Elements : AdvanceOf(v) # FirstLoadOf(v, e)
    BY MachineCallFacts
  <1>9. ASSUME Popped PROVE ~Replaced(AdvanceOf(v)) /\ \A e \in Elements : ~Replaced(FirstLoadOf(v, e))
    BY <1>3, <1>9 DEF Popped, Replaced
  <1>10. CASE (\E e \in Elements : Position[e] = s + 1 /\ Replaced(FirstLoadOf(v, e))) /\ UNCHANGED managerVars
    <2>1. s \in 4 .. 6
      BY <1>2, <1>10, PositionFacts
    <2> QED  BY <1>5, <1>10, <2>1
  <1>11. CASE Replaced(AdvanceOf(v)) /\ s # 2 /\ UNCHANGED managerVars
    <2>1. \A e \in Elements : ~Replaced(FirstLoadOf(v, e))
      BY <1>3, <1>7, <1>8, <1>11
    <2> QED  BY <1>2, <1>5, <1>11, <2>1
  <1>12. CASE Popped /\ UNCHANGED managerVars
    BY <1>5, <1>9, <1>12
  <1> QED  BY <1>1, <1>6, <1>10, <1>11, <1>12 DEF Advanced

LEMMA OtherMoves ==
    ASSUME Base, Elsewhere, UNCHANGED managerVars, UNCHANGED stateIndex,
           Slots \cap MachineCalls = {} => Slots = {},
           \A c \in Slots : c \in MachineCalls \/ c \in Slots',
           \A c \in Slots' : c \in MachineCalls \/ c \in Slots,
           \A v \in Vehicles : initialPlanRequestComplete[v] => initialPlanRequestComplete'[v],
           \A v \in Vehicles : (\E w \in Views : Avc(w) \in Slots) /\ JustMet(v) /\ Machine(v)'
              => AdvanceOf(v) \in Slots' /\ stateIndex[v] <= 2
    PROVE  Moves
  <1>1. stored' = stored /\ \A u \in Vehicles, e \in Elements : AsItWas(u, e)
    BY UnchangedAsItWas
  <1>2. \A u \in Vehicles : Idle(u)' <=> Idle(u)
    BY IdleKept
  <1>3. \A v \in Vehicles : (\E w \in Views : Avc(w) \in Slots) /\ JustMet(v) => JustMet(v)'
    BY <1>2 DEF JustMet
  <1> QED  BY <1>1, <1>3 DEF Moves

LEMMA MachineMoves ==
    ASSUME Base, ConnectMachine
    PROVE  Moves
  <1>1. PICK v \in Vehicles :
            /\ Elsewhere
            /\ \/ Advance(v)
               \/ \E e \in Elements : FirstLoadComplete(v, e)
               \/ \E s \in AnsweredStates : Answered(v, s)
               \/ LinkStep(v)
    BY ConnectMachineSteps
  <1>2. CASE Advance(v)
    BY <1>1, <1>2, AdvanceMoves
  <1>3. ASSUME NEW e \in Elements, FirstLoadComplete(v, e) PROVE Moves
    <2>1. /\ Replaced(AdvanceOf(v)) /\ calls # <<>> /\ Head(calls) = FirstLoadOf(v, e)
          /\ FirstLoadOf(v, e) \in Slots
          /\ \A u \in Vehicles : initialPlanRequestComplete[u] => initialPlanRequestComplete'[u]
          /\ UNCHANGED managerVars /\ UNCHANGED stateIndex
      BY <1>3, FirstLoadFacts
    <2>2. /\ AdvanceOf(v) \in MachineCalls /\ AdvanceOf(v).of = v /\ AdvanceOf(v).slot = "advance"
          /\ FirstLoadOf(v, e) \in MachineCalls /\ FirstLoadOf(v, e).of = v
          /\ FirstLoadOf(v, e).slot = "firstLoadComplete"
      BY MachineCallFacts
    <2>3. \A u : Machine(u)' <=> u = v
      BY <2>1, <2>2, MachinesAfter
    <2>4. Machine(v) /\ AdvanceOf(v) \notin Slots
      BY <2>1, <2>2, MachinesBefore
    <2>5. ~JustMet(v)
      BY <2>4 DEF JustMet
    <2>6. /\ \A c \in Slots : c \in MachineCalls \/ c \in Slots'
          /\ \A c \in Slots' : c \in MachineCalls \/ c \in Slots
      BY <2>1, <2>2 DEF Replaced
    <2>7. Slots \cap MachineCalls # {}
      BY <2>1, <2>2
    <2> QED  BY <1>1, <2>1, <2>3, <2>5, <2>6, <2>7, OtherMoves
  <1>4. ASSUME NEW s \in AnsweredStates, Answered(v, s) PROVE Moves
    <2>1. /\ calls = <<>> /\ Slots' = {AdvanceOf(v)} /\ AdvanceOf(v) \in MachineCalls
          /\ initialPlanRequestComplete' = initialPlanRequestComplete
          /\ UNCHANGED managerVars /\ UNCHANGED stateIndex
      BY <1>4, AnsweredFacts, MachineCallFacts
    <2>2. Slots = {}
      BY <2>1, NoSlots
    <2> QED  BY <1>1, <2>1, <2>2, OtherMoves
  <1>5. CASE LinkStep(v)
    <2>1. /\ calls = <<>> /\ calls' = calls /\ initialPlanRequestComplete' = initialPlanRequestComplete
          /\ UNCHANGED managerVars /\ UNCHANGED stateIndex
      BY <1>5 DEF LinkStep, LinkGoes, LinkReturns
    <2>2. Slots = {} /\ Slots' = {}
      BY <2>1, NoSlots, EntriesSmall DEF Slots, Entries
    <2> QED  BY <1>1, <2>1, <2>2, OtherMoves
  <1> QED  BY <1>1, <1>2, <1>3, <1>4, <1>5

(* With the vehicles settled, nothing goes on with any.                       *)
LEMMA SettledFacts ==
    ASSUME Base, Settled
    PROVE  \A v \in Vehicles : Idle(v)
  BY DEF Base, Fleet, Settled, Idle

(* Nothing is left to run and nothing comes to be.                            *)
LEMMA StillQuiet ==
    ASSUME calls = <<>>, calls' = calls
    PROVE  Slots = {} /\ Slots' = {}
  BY NoSlots, EntriesSmall DEF Slots, Entries

-----------------------------------------------------------------------------
(* The flag of the sequence: there is at most one, and the transfer whose end *)
(* takes it is under way or its end about to be told, with the later elements *)
(* idle.                                                                      *)
FlagElement ==
    [sendGeoFence |-> "mission", sendRallyPoints |-> "fence",
     loadGeoFence |-> "mission", loadRallyPoints |-> "fence"]
FlagOp ==
    [sendGeoFence |-> "Write", sendRallyPoints |-> "Write",
     loadGeoFence |-> "Read", loadRallyPoints |-> "Read"]
FlagSlot ==
    [sendGeoFence |-> "sendComplete", sendRallyPoints |-> "sendComplete",
     loadGeoFence |-> "loadComplete", loadRallyPoints |-> "loadComplete"]
After(e) == {x \in Elements : Position[x] > Position[e]}
PlanCall(slot, e) == \E err \in BOOLEAN : Call(slot, "Plan", e, err) \in Slots

Goes(f) ==
    LET v == activeVehicle
        e == FlagElement[f]
    IN /\ v \in Vehicles /\ managerVehicle["Plan"] = v
       /\ \A w \in Views : Avc(w) \notin Slots
       /\ stateIndex[v] = Finished
       /\ transfer[v][e].op = FlagOp[f] \/ PlanCall(FlagSlot[f], e)
       /\ \A x \in After(e) : ~inProgress(v, x)
Flags ==
    /\ chain["Fly"] = {}
    /\ \A f, g \in chain["Plan"] : f = g
    /\ \A f \in chain["Plan"] : Goes(f)
FlagInv == Base /\ Flags

LEMMA FlagFacts ==
    /\ \A f \in Chain :
          /\ FlagElement[f] \in {"mission", "fence"}
          /\ FlagOp[f] \in {"Read", "Write"}
          /\ FlagOp[f] = "Read" => FlagSlot[f] = "loadComplete" /\ f = LoadFlag[FlagElement[f]]
          /\ FlagOp[f] = "Write" => FlagSlot[f] = "sendComplete" /\ f = SendFlag[FlagElement[f]]
    /\ \A e \in {"mission", "fence"} :
          /\ LoadFlag[e] \in Chain /\ FlagElement[LoadFlag[e]] = e
          /\ FlagOp[LoadFlag[e]] = "Read" /\ FlagSlot[LoadFlag[e]] = "loadComplete"
          /\ SendFlag[e] \in Chain /\ FlagElement[SendFlag[e]] = e
          /\ FlagOp[SendFlag[e]] = "Write" /\ FlagSlot[SendFlag[e]] = "sendComplete"
    /\ After("mission") = {"fence", "rally"} /\ After("fence") = {"rally"}
  <1>1. After("mission") = {"fence", "rally"} /\ After("fence") = {"rally"}
    BY ElementFacts, PositionFacts DEF After
  <1>2. \A f \in Chain :
          /\ FlagElement[f] \in {"mission", "fence"}
          /\ FlagOp[f] \in {"Read", "Write"}
          /\ FlagOp[f] = "Read" => FlagSlot[f] = "loadComplete" /\ f = LoadFlag[FlagElement[f]]
          /\ FlagOp[f] = "Write" => FlagSlot[f] = "sendComplete" /\ f = SendFlag[FlagElement[f]]
    BY DEF Chain, FlagElement, FlagOp, FlagSlot, LoadFlag, SendFlag
  <1>3. \A e \in {"mission", "fence"} :
          /\ LoadFlag[e] \in Chain /\ FlagElement[LoadFlag[e]] = e
          /\ FlagOp[LoadFlag[e]] = "Read" /\ FlagSlot[LoadFlag[e]] = "loadComplete"
          /\ SendFlag[e] \in Chain /\ FlagElement[SendFlag[e]] = e
          /\ FlagOp[SendFlag[e]] = "Write" /\ FlagSlot[SendFlag[e]] = "sendComplete"
    BY DEF Chain, FlagElement, FlagOp, FlagSlot, LoadFlag, SendFlag
  <1> QED  BY <1>1, <1>2, <1>3

LEMMA ChainFacts ==
    ASSUME Base
    PROVE  chain["Plan"] \subseteq Chain /\ "Plan" \in Views /\ "Fly" \in Views
  BY DEF Base, Types, MasterType, Views

LEMMA GoesKept ==
    ASSUME NEW f, Goes(f),
           UNCHANGED <<activeVehicle, managerVehicle>>,
           stateIndex'[activeVehicle] = stateIndex[activeVehicle],
           \A x \in {FlagElement[f]} \cup After(FlagElement[f]) :
              transfer'[activeVehicle][x] = transfer[activeVehicle][x],
           \A w \in Views : Avc(w) \in Slots' => Avc(w) \in Slots,
           PlanCall(FlagSlot[f], FlagElement[f]) => PlanCall(FlagSlot[f], FlagElement[f])'
    PROVE  Goes(f)'
  BY DEF Goes, inProgress, After

LEMMA FlagsKept ==
    ASSUME Flags, UNCHANGED chain, \A f \in chain["Plan"] : Goes(f) => Goes(f)'
    PROVE  Flags'
  BY DEF Flags

LEMMA NoFlags ==
    ASSUME FlagInv, chain["Plan"] = {}, UNCHANGED chain
    PROVE  Flags'
  BY FlagsKept DEF FlagInv

(* With nothing left to run and the active vehicle idle no flag is set.       *)
LEMMA IdleNoFlags ==
    ASSUME FlagInv, calls = <<>>, activeVehicle \in Vehicles => Idle(activeVehicle)
    PROVE  chain["Plan"] = {}
  <1> SUFFICES ASSUME NEW f \in chain["Plan"] PROVE FALSE
    OBVIOUS
  <1>1. f \in Chain /\ Goes(f)
    BY ChainFacts DEF FlagInv, Flags
  <1>2. ~PlanCall(FlagSlot[f], FlagElement[f])
    BY NoSlots DEF PlanCall
  <1>3. /\ activeVehicle \in Vehicles
        /\ transfer[activeVehicle][FlagElement[f]].op = FlagOp[f]
    BY <1>1, <1>2 DEF Goes
  <1>4. FlagElement[f] \in Elements /\ FlagOp[f] # "None"
    BY <1>1, FlagFacts DEF Elements
  <1>5. transfer[activeVehicle][FlagElement[f]] = Nothing
    BY <1>3, <1>4 DEF Idle, inProgress
  <1> QED  BY <1>3, <1>4, <1>5, TransferFacts

(* No flag is set while a view is to be told of another vehicle.              *)
LEMMA ToldNoFlags ==
    ASSUME FlagInv, NEW w \in Views, Avc(w) \in Slots
    PROVE  chain["Plan"] = {}
  BY DEF FlagInv, Flags, Goes

LEMMA InitFlags == Init => FlagInv
  <1> SUFFICES ASSUME Init PROVE FlagInv
    OBVIOUS
  <1>1. chain["Fly"] = {} /\ chain["Plan"] = {}
    BY DEF Init, Views
  <1> QED  BY <1>1, InitBase DEF FlagInv, Flags

LEMMA MovesFlags ==
    ASSUME FlagInv, Moves
    PROVE  Flags'
  <1>1. UNCHANGED <<chain, activeVehicle, managerVehicle>>
    BY DEF Moves, Elsewhere, masterVars
  <1>2. ASSUME NEW f \in chain["Plan"], Goes(f) PROVE Goes(f)'
    <2>1. f \in Chain /\ activeVehicle \in Vehicles /\ stateIndex[activeVehicle] = Finished
      BY <1>2, ChainFacts DEF FlagInv, Goes
    <2>2. FlagElement[f] \in Elements /\ FlagSlot[f] \in ViewSlotNames /\ After(FlagElement[f]) \subseteq Elements
      BY <2>1, FlagFacts DEF Elements, ViewSlotNames, After
    <2>3. stateIndex'[activeVehicle] = Finished
          /\ \A x \in Elements : transfer'[activeVehicle][x] = transfer[activeVehicle][x]
      BY <2>1 DEF Moves, AsItWas
    <2>4. \A w \in Views : Avc(w) \in Slots' => Avc(w) \in Slots
      BY CallKinds DEF Moves
    <2>5. ASSUME NEW err \in BOOLEAN, Call(FlagSlot[f], "Plan", FlagElement[f], err) \in Slots
          PROVE  Call(FlagSlot[f], "Plan", FlagElement[f], err) \in Slots'
      <3>1. "Plan" \in Views
        BY DEF Views
      <3>2. Call(FlagSlot[f], "Plan", FlagElement[f], err) \notin MachineCalls
        BY <2>2, <3>1, SlotCallFacts
      <3> QED  BY <2>5, <3>2 DEF Moves
    <2>6. PlanCall(FlagSlot[f], FlagElement[f]) => PlanCall(FlagSlot[f], FlagElement[f])'
      BY <2>5 DEF PlanCall
    <2> QED  BY <1>1, <1>2, <2>1, <2>2, <2>3, <2>4, <2>6, GoesKept
  <1> QED  BY <1>1, <1>2, FlagsKept DEF FlagInv

(* A vehicle comes, goes or is made active between transfers.                 *)
LEMMA FleetFlags ==
    ASSUME FlagInv, "vehicles" \notin Disturbances, VehiclesComeAndGo
    PROVE  Flags'
  <1>1. Base
    BY DEF FlagInv
  <1>2. calls = <<>> /\ Settled
    BY DEF VehiclesComeAndGo, VehicleComes, VehicleGoes, SetActiveVehicle
  <1>3. UNCHANGED masterVars
    BY DEF VehiclesComeAndGo, VehicleComes, VehicleGoes, SetActiveVehicle
  <1>4. chain["Plan"] = {}
    BY <1>1, <1>2, SettledFacts, IdleNoFlags
  <1> QED  BY <1>3, <1>4, NoFlags DEF masterVars

LEMMA ToldFlags ==
    ASSUME FlagInv, NEW w \in Views, ActiveVehicleChanged(w)
    PROVE  Flags'
  <1>1. Told(w)
    BY ToldFacts DEF FlagInv
  <1>2. chain["Plan"] = {} /\ UNCHANGED chain
    BY <1>1, ToldNoFlags DEF Told
  <1> QED  BY <1>2, NoFlags

(* Another slot than the one that runs is left to run.                        *)
LEMMA PlanCallStays ==
    ASSUME NEW s \in ViewSlotNames, NEW x \in Elements, PlanCall(s, x),
           \A c \in Slots : c = Head(calls) \/ c \in Slots',
           NEW slot \in ViewSlotNames, NEW w \in Views, NEW e \in Elements, NEW error \in BOOLEAN,
           Running(Call(slot, w, e, error)), s # slot \/ x # e \/ w # "Plan"
    PROVE  PlanCall(s, x)'
  <1>1. PICK err \in BOOLEAN : Call(s, "Plan", x, err) \in Slots
    BY DEF PlanCall
  <1>2. "Plan" \in Views
    BY DEF Views
  <1>3. Call(s, "Plan", x, err) # Call(slot, w, e, error)
    BY <1>2, SlotCallFacts
  <1>4. Call(s, "Plan", x, err) \in Slots'
    BY <1>1, <1>3 DEF Running
  <1> QED  BY <1>4 DEF PlanCall

(* A slot that leaves the flags, and the transfers they mean, alone.          *)
LEMMA SlotFlags ==
    ASSUME FlagInv, NEW slot \in ViewSlotNames, NEW w \in Views, NEW e \in Elements,
           NEW error \in BOOLEAN, Running(Call(slot, w, e, error)), SlotSteady, Popped,
           UNCHANGED <<managerVars, chain>>,
           \A f \in chain["Plan"] : FlagSlot[f] # slot \/ FlagElement[f] # e \/ w # "Plan"
    PROVE  Flags'
  <1>1. UNCHANGED <<chain, activeVehicle, managerVehicle, stateIndex, transfer>>
    BY DEF SlotSteady, connectVars, managerVars
  <1>2. ASSUME NEW f \in chain["Plan"], Goes(f) PROVE Goes(f)'
    <2>1. f \in Chain
      BY <1>2, ChainFacts DEF FlagInv
    <2>2. FlagElement[f] \in Elements /\ FlagSlot[f] \in ViewSlotNames
      BY <2>1, FlagFacts DEF Elements, ViewSlotNames
    <2>3. PlanCall(FlagSlot[f], FlagElement[f]) => PlanCall(FlagSlot[f], FlagElement[f])'
      BY <2>2, PlanCallStays DEF Popped
    <2> QED  BY <1>1, <1>2, <2>3, GoesKept DEF Popped
  <1> QED  BY <1>1, <1>2, FlagsKept DEF FlagInv

(* The one flag is traded for that of the next element, whose transfer starts *)
(* or whose turn it is.                                                       *)
LEMMA TradedFlags ==
    ASSUME FlagInv, NEW slot \in ViewSlotNames, NEW w \in Views, NEW e \in {"mission", "fence"},
           NEW error \in BOOLEAN, Running(Call(slot, w, e, error)), SlotSteady,
           NEW flag \in {LoadFlag, SendFlag}, flag[e] \in chain[w], Traded(w, flag, e),
           NEW t \in Transfers, t # Nothing, NEW n, n = NextElement[e],
           flag = LoadFlag => t.op = "Read" /\ slot = "loadComplete",
           flag = SendFlag => t.op = "Write" /\ slot = "sendComplete",
           \/ Popped /\ Started(activeVehicle, {n}, t)
           \/ Replaced(Call(slot, w, n, error)) /\ UNCHANGED managerVars
    PROVE  Flags'
  <1>1. w = "Plan" /\ Base /\ "Plan" \in Views /\ "Fly" \in Views
    BY DEF FlagInv, Flags, Views
  <1>2. flag[e] \in Chain /\ FlagElement[flag[e]] = e /\ Goes(flag[e]) /\ chain["Plan"] = {flag[e]}
    BY <1>1, FlagFacts DEF FlagInv, Flags
  <1>3. /\ activeVehicle \in Vehicles /\ managerVehicle["Plan"] = activeVehicle
        /\ \A u \in Views : Avc(u) \notin Slots
        /\ stateIndex[activeVehicle] = Finished
        /\ \A x \in After(e) : ~inProgress(activeVehicle, x)
    BY <1>2 DEF Goes
  <1>4. UNCHANGED <<activeVehicle, managerVehicle, stateIndex>>
    BY DEF SlotSteady, connectVars
  <1>5. n \in Elements /\ n \in After(e) /\ (e = "mission" => n = "fence")
    BY NextFacts, FlagFacts DEF Elements
  <1>6. chain'["Fly"] = {} /\ chain'["Plan"] = IF e = "mission" THEN {flag["fence"]} ELSE {}
    BY <1>1, <1>2 DEF Traded, FlagInv, Flags
  <1>7. \A u \in Views : Avc(u) \notin Slots'
    <2>1. Call(slot, w, n, error) \in TransferCalls
      BY <1>1, <1>5, SlotCallFacts
    <2> QED  BY <1>3, <2>1, CallKinds DEF Popped, Replaced
  <1>8. ASSUME e = "mission" PROVE Goes(flag["fence"])'
    <2>1. n = "fence" /\ After("fence") = {"rally"} /\ "rally" \in After(e) /\ "rally" \in Elements
      BY <1>5, <1>8, FlagFacts DEF Elements
    <2>2. /\ FlagElement[flag["fence"]] = "fence"
          /\ FlagOp[flag["fence"]] = t.op /\ FlagSlot[flag["fence"]] = slot
      BY FlagFacts
    <2>3. CASE Popped /\ Started(activeVehicle, {n}, t)
      <3>1. /\ transfer'[activeVehicle]["fence"] = t
            /\ transfer'[activeVehicle]["rally"] = transfer[activeVehicle]["rally"]
        BY <1>3, <1>5, <2>1, <2>3 DEF Started, inProgress
      <3>2. ~inProgress(activeVehicle, "rally")' 
        BY <1>3, <1>4, <2>1, <3>1 DEF inProgress
      <3> QED  BY <1>3, <1>4, <1>7, <2>1, <2>2, <3>1, <3>2 DEF Goes, After
    <2>4. CASE Replaced(Call(slot, w, n, error)) /\ UNCHANGED managerVars
      <3>1. PlanCall(slot, "fence")'
        BY <1>1, <2>1, <2>4 DEF Replaced, PlanCall
      <3>2. ~inProgress(activeVehicle, "rally")' 
        BY <1>3, <1>4, <2>1, <2>4 DEF inProgress, managerVars
      <3> QED  BY <1>3, <1>4, <1>7, <2>1, <2>2, <3>1, <3>2 DEF Goes, After
    <2> QED  BY <2>3, <2>4
  <1> QED  BY <1>6, <1>8 DEF Flags

LEMMA LoadCompleteFlags ==
    ASSUME FlagInv, NEW w \in Views, NEW e \in Elements, NEW error \in BOOLEAN,
           LoadComplete(w, e, error)
    PROVE  Flags'
  <1>1. Base /\ "loadComplete" \in ViewSlotNames
    BY DEF FlagInv, ViewSlotNames
  <1>2. Loaded(w, e, error) /\ Running(Call("loadComplete", w, e, error)) /\ SlotSteady
    BY <1>1, LoadCompleteFacts
  <1>3. CASE (e = "rally" \/ LoadFlag[e] \notin chain[w]) /\ NothingMore
    <2>1. Popped /\ UNCHANGED <<managerVars, chain>>
      BY <1>3 DEF NothingMore
    <2>2. ASSUME NEW f \in chain["Plan"]
          PROVE  FlagSlot[f] # "loadComplete" \/ FlagElement[f] # e \/ w # "Plan"
      <3>1. f \in Chain
        BY <1>1, ChainFacts
      <3> QED  BY <1>3, <3>1, FlagFacts
    <2> QED  BY <1>1, <1>2, <2>1, <2>2, SlotFlags
  <1>4. CASE /\ e \in {"mission", "fence"} /\ LoadFlag[e] \in chain[w]
             /\ Traded(w, LoadFlag, e)
             /\ LoadsNext(w, NextElement[e]) \/ SkipsLoad(w, NextElement[e], error)
    <2> DEFINE n == NextElement[e]
    <2>1. /\ Reading \in Transfers /\ Reading.op = "Read" /\ Reading # Nothing
          /\ LoadFlag # SendFlag
      BY TransferFacts, NextFacts
    <2>2. \/ Popped /\ Started(activeVehicle, {n}, Reading)
          \/ Replaced(Call("loadComplete", w, n, error)) /\ UNCHANGED managerVars
      BY <1>4 DEF LoadsNext, SkipsLoad
    <2> HIDE DEF n
    <2>3. n = NextElement[e]
      BY DEF n
    <2> DEFINE flag == LoadFlag
               slot == "loadComplete"
               t == Reading
    <2>4. /\ flag \in {LoadFlag, SendFlag} /\ flag[e] \in chain[w] /\ Traded(w, flag, e)
          /\ t \in Transfers /\ t # Nothing /\ slot \in ViewSlotNames
          /\ flag = LoadFlag => t.op = "Read" /\ slot = "loadComplete"
          /\ flag = SendFlag => t.op = "Write" /\ slot = "sendComplete"
          /\ e \in {"mission", "fence"}
          /\ Running(Call(slot, w, e, error))
          /\ \/ Popped /\ Started(activeVehicle, {n}, t)
             \/ Replaced(Call(slot, w, n, error)) /\ UNCHANGED managerVars
      BY <1>1, <1>2, <1>4, <2>1, <2>2
    <2> HIDE DEF flag, slot, t
    <2> QED  BY <1>2, <2>3, <2>4, TradedFlags
  <1> QED  BY <1>2, <1>3, <1>4 DEF Loaded

LEMMA SendCompleteFlags ==
    ASSUME FlagInv, NEW w \in Views, NEW e \in Elements, NEW error \in BOOLEAN,
           SendComplete(w, e, error)
    PROVE  Flags'
  <1>1. Base /\ "sendComplete" \in ViewSlotNames
    BY DEF FlagInv, ViewSlotNames
  <1>2. Sent(w, e, error) /\ Running(Call("sendComplete", w, e, error)) /\ SlotSteady
    BY <1>1, SendCompleteFacts
  <1>3. CASE (e = "rally" \/ SendFlag[e] \notin chain[w]) /\ NothingMore
    <2>1. Popped /\ UNCHANGED <<managerVars, chain>>
      BY <1>3 DEF NothingMore
    <2>2. ASSUME NEW f \in chain["Plan"]
          PROVE  FlagSlot[f] # "sendComplete" \/ FlagElement[f] # e \/ w # "Plan"
      <3>1. f \in Chain
        BY <1>1, ChainFacts
      <3> QED  BY <1>3, <3>1, FlagFacts
    <2> QED  BY <1>1, <1>2, <2>1, <2>2, SlotFlags
  <1>4. CASE /\ e \in {"mission", "fence"} /\ SendFlag[e] \in chain[w]
             /\ Traded(w, SendFlag, e)
             /\ SendsNext(w, NextElement[e]) \/ SkipsSend(w, NextElement[e], error)
    <2> DEFINE n == NextElement[e]
               t == Writing(items[w][n])
    <2>1. n \in Elements
      BY <1>4, NextFacts
    <2>2. items[w][n] \in Contents
      BY <1>1, <2>1 DEF Base, Types, MasterType
    <2>3. t \in Transfers /\ t.op = "Write" /\ t # Nothing /\ LoadFlag # SendFlag
      BY <2>2, TransferFacts, NextFacts
    <2>4. \/ Popped /\ Started(activeVehicle, {n}, t)
          \/ Replaced(Call("sendComplete", w, n, error)) /\ UNCHANGED managerVars
      BY <1>4 DEF SendsNext, SkipsSend
    <2> HIDE DEF t
    <2> HIDE DEF n
    <2>5. n = NextElement[e]
      BY DEF n
    <2> DEFINE flag == SendFlag
               slot == "sendComplete"
    <2>6. /\ flag \in {LoadFlag, SendFlag} /\ flag[e] \in chain[w] /\ Traded(w, flag, e)
          /\ t \in Transfers /\ t # Nothing /\ slot \in ViewSlotNames
          /\ flag = LoadFlag => t.op = "Read" /\ slot = "loadComplete"
          /\ flag = SendFlag => t.op = "Write" /\ slot = "sendComplete"
          /\ e \in {"mission", "fence"}
          /\ Running(Call(slot, w, e, error))
          /\ \/ Popped /\ Started(activeVehicle, {n}, t)
             \/ Replaced(Call(slot, w, n, error)) /\ UNCHANGED managerVars
      BY <1>1, <1>2, <1>4, <2>3, <2>4
    <2> HIDE DEF flag, slot
    <2> QED  BY <1>2, <2>5, <2>6, TradedFlags
  <1> QED  BY <1>2, <1>3, <1>4 DEF Sent

LEMMA ShownFlags ==
    ASSUME FlagInv, NEW slot \in {"newItems"} \cup ManagerSlots, NEW w \in Views, NEW e \in Elements,
           NEW error \in BOOLEAN, NEW shows, Running(Call(slot, w, e, error)), SlotSteady,
           ShownOrNot(w, e, shows)
    PROVE  Flags'
  <1>1. Popped /\ UNCHANGED <<managerVars, chain>> /\ slot \in ViewSlotNames
    BY DEF ShownOrNot, ManagerSlots, ViewSlotNames
  <1>2. ASSUME NEW f \in chain["Plan"] PROVE FlagSlot[f] # slot
    <2>1. f \in Chain
      BY ChainFacts DEF FlagInv
    <2> QED  BY <2>1, FlagFacts DEF ManagerSlots
  <1> QED  BY <1>1, <1>2, SlotFlags

LEMMA EndsFlags ==
    ASSUME FlagInv, NEW v \in Vehicles, NEW e \in Elements, NEW ok \in BOOLEAN,
           TransferEnds(v, e, ok)
    PROVE  Flags'
  <1> DEFINE op == transfer[v][e].op
  <1>1. /\ calls = <<>>
        /\ \E c \in Contents : Ended(v, e, ok, c)
        /\ Heard(v, e, op, ~ok)
        /\ UNCHANGED <<connectVars, activeVehicle, masterVars>>
    BY EndsFacts DEF FlagInv
  <1>2. UNCHANGED <<chain, activeVehicle, managerVehicle, stateIndex>>
    BY <1>1 DEF connectVars, masterVars
  <1>3. /\ transfer[v][e] # Nothing
        /\ \A u \in Vehicles, x \in Elements :
              transfer'[u][x] = IF u = v /\ x = e THEN Nothing ELSE transfer[u][x]
    BY <1>1 DEF Ended
  <1>4. Slots = {} /\ "Plan" \in Views
    BY <1>1, NoSlots DEF Views
  <1>5. \A w \in Views : Avc(w) \notin Slots'
    <2>1. FirstLoadOf(v, e) \in MachineCalls
      BY MachineCallFacts
    <2> QED  BY <1>1, <2>1, CallKinds DEF Heard, ViewHears
  <1>6. ASSUME NEW f \in chain["Plan"], Goes(f) PROVE Goes(f)'
    <2>1. f \in Chain
      BY <1>6, ChainFacts DEF FlagInv
    <2>2. /\ FlagElement[f] \in Elements /\ FlagSlot[f] \in ViewSlotNames
          /\ After(FlagElement[f]) \subseteq Elements
      BY <2>1, FlagFacts DEF Elements, ViewSlotNames, After
    <2>3. /\ activeVehicle \in Vehicles /\ managerVehicle["Plan"] = activeVehicle
          /\ stateIndex[activeVehicle] = Finished
          /\ transfer[activeVehicle][FlagElement[f]].op = FlagOp[f]
          /\ \A x \in After(FlagElement[f]) : ~inProgress(activeVehicle, x)
      BY <1>4, <1>6 DEF Goes, PlanCall
    <2>4. \A x \in After(FlagElement[f]) : ~inProgress(activeVehicle, x)'
      BY <1>2, <1>3, <2>2, <2>3 DEF inProgress
    <2>5. CASE v = activeVehicle /\ e = FlagElement[f]
      <3> DEFINE s == FlagSlot[f]
                 err == ~ok
                 c == Call(s, "Plan", e, err)
      <3>0. s \in ViewSlotNames /\ err \in BOOLEAN /\ "Plan" \in Views
        BY <1>4, <2>2
      <3> HIDE DEF s, err
      <3>1. c \in TransferCalls /\ c.slot = s /\ c.of = "Plan" /\ c.element = e /\ c.error = err
        BY <3>0, SlotCallFacts
      <3>2. op = FlagOp[f]
        BY <2>3, <2>5
      <3> HIDE DEF c
      <3>3. ViewHears("Plan", e, op, ~ok, c)
        BY <2>1, <3>1, <3>2, FlagFacts DEF ViewHears, s, err
      <3>4. c \in Slots'
        BY <1>1, <1>4, <2>3, <2>5, <3>3 DEF Heard
      <3>5. PlanCall(FlagSlot[f], FlagElement[f])'
        BY <2>5, <3>4 DEF PlanCall, c, s, err
      <3> QED  BY <1>2, <1>5, <2>3, <2>4, <3>5 DEF Goes, After
    <2>6. CASE ~(v = activeVehicle /\ e = FlagElement[f])
      <3>1. transfer'[activeVehicle][FlagElement[f]] = transfer[activeVehicle][FlagElement[f]]
        BY <1>3, <2>2, <2>3, <2>6
      <3> QED  BY <1>2, <1>5, <2>3, <2>4, <3>1 DEF Goes, After
    <2> QED  BY <2>5, <2>6
  <1> QED  BY <1>2, <1>6, FlagsKept DEF FlagInv

(* The user's requests: an upload or a download sets its flag when nothing is *)
(* in progress, and the mission's own requests leave the rest alone.          *)
LEMMA BeginsFlags ==
    ASSUME FlagInv, "requests" \notin Disturbances, Asked, Idle(activeVehicle),
           NEW f \in {"sendGeoFence", "loadGeoFence"},
           chain'["Plan"] = chain["Plan"] \cup {f}, chain'["Fly"] = chain["Fly"],
           NEW t \in Transfers, t.op = FlagOp[f], Started(activeVehicle, {"mission"}, t)
    PROVE  Flags'
  <1>1. /\ calls = <<>> /\ activeVehicle \in Vehicles /\ managerVehicle["Plan"] = activeVehicle
        /\ stateIndex[activeVehicle] = Finished
        /\ UNCHANGED <<calls, activeVehicle, managerVehicle, stateIndex>>
    BY DEF Asked, RequestSteady, connectVars
  <1>2. chain["Plan"] = {} /\ chain["Fly"] = {}
    BY <1>1, IdleNoFlags DEF FlagInv, Flags
  <1>3. Slots' = {}
    BY <1>1, StillQuiet
  <1>4. f \in Chain /\ FlagElement[f] = "mission" /\ "mission" \in Elements
        /\ After("mission") = {"fence", "rally"} /\ {"fence", "rally"} \subseteq Elements
    BY FlagFacts DEF Chain, FlagElement, Elements
  <1>5. /\ transfer'[activeVehicle]["mission"] = t
        /\ \A x \in {"fence", "rally"} : transfer'[activeVehicle][x] = Nothing
    BY <1>1, <1>4 DEF Started, Idle, inProgress
  <1>6. \A x \in After("mission") : ~inProgress(activeVehicle, x)'
    BY <1>1, <1>4, <1>5 DEF inProgress
  <1>7. Goes(f)'
    BY <1>1, <1>3, <1>4, <1>5, <1>6 DEF Goes, After
  <1> QED  BY <1>2, <1>7 DEF Flags

LEMMA FlyMissionFlags ==
    ASSUME FlagInv, Asked, UNCHANGED chain, NEW t, Started(activeVehicle, {"mission"}, t),
           ~inProgress(activeVehicle, "mission")
    PROVE  Flags'
  <1>1. /\ calls = <<>> /\ activeVehicle \in Vehicles
        /\ UNCHANGED <<calls, activeVehicle, managerVehicle, stateIndex>>
    BY DEF Asked, RequestSteady, connectVars
  <1>2. Slots = {} /\ Slots' = {}
    BY <1>1, StillQuiet
  <1>3. ASSUME NEW f \in chain["Plan"], Goes(f) PROVE Goes(f)'
    <2>1. f \in Chain
      BY <1>3, ChainFacts DEF FlagInv
    <2>2. transfer[activeVehicle][FlagElement[f]].op = FlagOp[f]
      BY <1>2, <1>3 DEF Goes, PlanCall
    <2>3. FlagElement[f] # "mission"
      BY <2>1, <2>2, FlagFacts, TransferFacts DEF inProgress
    <2>4. FlagElement[f] = "fence" /\ After(FlagElement[f]) = {"rally"}
      BY <2>1, <2>3, FlagFacts
    <2>5. \A x \in {"fence", "rally"} : transfer'[activeVehicle][x] = transfer[activeVehicle][x]
      BY <1>1 DEF Started, Elements
    <2> QED  BY <1>1, <1>2, <1>3, <2>4, <2>5, GoesKept DEF PlanCall
  <1> QED  BY <1>3, FlagsKept DEF FlagInv

LEMMA UserRequestFlags ==
    ASSUME FlagInv, "requests" \notin Disturbances, UserRequest
    PROVE  Flags'
  <1>1. Base
    BY DEF FlagInv
  <1>2. CASE Upload
    <2> DEFINE t == Writing(items["Plan"]["mission"])
    <2>1. /\ Asked /\ Idle(activeVehicle)
          /\ chain'["Plan"] = chain["Plan"] \cup {"sendGeoFence"} /\ chain'["Fly"] = chain["Fly"]
          /\ items["Plan"]["mission"] \in Contents
          /\ Started(activeVehicle, {"mission"}, t)
      BY <1>1, <1>2, UploadFacts
    <2>2. t \in Transfers /\ t.op = FlagOp["sendGeoFence"]
      BY <2>1, TransferFacts DEF FlagOp
    <2> HIDE DEF t
    <2> QED  BY <2>1, <2>2, BeginsFlags
  <1>3. CASE Download
    <2>1. /\ Asked /\ Idle(activeVehicle)
          /\ chain'["Plan"] = chain["Plan"] \cup {"loadGeoFence"} /\ chain'["Fly"] = chain["Fly"]
          /\ Started(activeVehicle, {"mission"}, Reading)
      BY <1>1, <1>3, DownloadFacts
    <2>2. Reading \in Transfers /\ Reading.op = FlagOp["loadGeoFence"]
      BY TransferFacts DEF FlagOp
    <2> QED  BY <2>1, <2>2, BeginsFlags
  <1>4. ASSUME NEW w \in Views, NEW kind, RemoveAllFromVehicle(w, kind) PROVE Flags'
    <2>1. Asked /\ Idle(activeVehicle) /\ UNCHANGED chain
      BY <1>1, <1>4, RemoveAllRequestFacts
    <2>2. chain["Plan"] = {}
      BY <2>1, IdleNoFlags DEF Asked
    <2> QED  BY <2>1, <2>2, NoFlags
  <1>5. ASSUME NEW kind, NEW t \in FlyTransfers, FlyMission(kind, t) PROVE Flags'
    BY <1>1, <1>5, FlyMissionFacts, FlyMissionFlags
  <1>6. CASE Resume
    BY <1>1, <1>5, <1>6, ResumeFacts
  <1>7. "Plan" \in Views /\ "Fly" \in Views /\ GuidedItem \in FlyTransfers
    BY DEF Views, FlyTransfers
  <1> QED  BY <1>2, <1>3, <1>4, <1>5, <1>6, <1>7 DEF UserRequest

(* A step that leaves the calls, the flags and the transfers alone.           *)
LEMMA SteadyFlags ==
    ASSUME FlagInv, UNCHANGED <<calls, chain, activeVehicle, managerVehicle>>, stateIndex' = stateIndex,
           UNCHANGED managerVars
    PROVE  Flags'
  <1>1. Slots' = Slots /\ transfer' = transfer
    BY DEF Slots, Entries, managerVars
  <1>2. ASSUME NEW f \in chain["Plan"], Goes(f) PROVE Goes(f)'
    BY <1>1, <1>2, GoesKept DEF PlanCall
  <1> QED  BY <1>2, FlagsKept DEF FlagInv

LEMMA UserEditFlags ==
    ASSUME FlagInv, Drawing \/ Replied
    PROVE  Flags'
  <1>1. /\ UNCHANGED <<calls, chain, activeVehicle, managerVehicle>> /\ UNCHANGED managerVars
    BY DEF Drawing, Edited, Replied, EditSteady
  <1>2. stateIndex' = stateIndex
    BY DEF Drawing, Edited, Replied, TakesOver, Keeps, Showing, connectVars
  <1> QED  BY <1>1, <1>2, SteadyFlags

LEMMA StepFlags ==
    ASSUME {"vehicles", "requests"} \cap Disturbances = {}, FlagInv, [Next]_vars
    PROVE  FlagInv'
  <1>1. Base
    BY DEF FlagInv
  <1>2. Base' /\ "vehicles" \notin Disturbances /\ "requests" \notin Disturbances
    BY <1>1, StepBase
  <1> SUFFICES Flags'
    BY <1>2 DEF FlagInv
  <1>3. CASE ConnectMachine
    BY <1>1, <1>3, MachineMoves, MovesFlags
  <1>4. CASE VehiclesComeAndGo
    BY <1>2, <1>4, FleetFlags
  <1>5. CASE ViewSlots
    <2>1. PICK w \in Views :
            \/ ActiveVehicleChanged(w)
            \/ \E e \in Elements, error \in BOOLEAN :
                  \/ LoadComplete(w, e, error)
                  \/ SendComplete(w, e, error)
                  \/ NewItems(w, e, error)
                  \/ ManagerComplete("managerSendComplete", w, e, error)
                  \/ ManagerComplete("managerRemoveAllComplete", w, e, error)
      BY <1>5 DEF ViewSlots
    <2>2. CASE ActiveVehicleChanged(w)
      BY <2>2, ToldFlags
    <2>3. ASSUME NEW e \in Elements, NEW error \in BOOLEAN, LoadComplete(w, e, error) PROVE Flags'
      BY <2>3, LoadCompleteFlags
    <2>4. ASSUME NEW e \in Elements, NEW error \in BOOLEAN, SendComplete(w, e, error) PROVE Flags'
      BY <2>4, SendCompleteFlags
    <2>5. ASSUME NEW e \in Elements, NEW error \in BOOLEAN, NewItems(w, e, error) PROVE Flags'
      <3> DEFINE shows == w = "Fly" \/ e \in itemsRequested[w] \/ items[w][e] = NoItems
      <3>1. ShownOrNot(w, e, shows) /\ Running(Call("newItems", w, e, error)) /\ SlotSteady
        BY <1>1, <2>5, NewItemsFacts
      <3> HIDE DEF shows
      <3> QED  BY <3>1, ShownFlags
    <2>6. ASSUME NEW slot \in ManagerSlots, NEW e \in Elements, NEW error \in BOOLEAN,
                 ManagerComplete(slot, w, e, error)
          PROVE  Flags'
      <3> DEFINE shows == Refreshes(slot, w, e, error)
      <3>1. ShownOrNot(w, e, shows) /\ Running(Call(slot, w, e, error)) /\ SlotSteady
        BY <1>1, <2>6, ManagerCompleteFacts
      <3> HIDE DEF shows
      <3> QED  BY <3>1, ShownFlags
    <2>7. ASSUME NEW e \in Elements, NEW error \in BOOLEAN,
                 \/ ManagerComplete("managerSendComplete", w, e, error)
                 \/ ManagerComplete("managerRemoveAllComplete", w, e, error)
          PROVE  Flags'
      BY <2>6, <2>7 DEF ManagerSlots
    <2> QED  BY <2>1, <2>2, <2>3, <2>4, <2>5, <2>7
  <1>6. CASE SomeTransferEnds
    BY <1>6, EndsFlags DEF SomeTransferEnds
  <1>7. CASE UserRequest
    BY <1>2, <1>7, UserRequestFlags
  <1>8. CASE UserEdit
    BY <1>1, <1>8, UserEdits, UserEditFlags
  <1>9. CASE UNCHANGED vars
    BY <1>9, SteadyFlags DEF vars, masterVars, connectVars
  <1> QED  BY <1>3, <1>4, <1>5, <1>6, <1>7, <1>8, <1>9 DEF Next

LEMMA FlagInvImplies ==
    ASSUME FlagInv
    PROVE  FlagMeansTransfer
  <1> DEFINE v == managerVehicle["Plan"]
  <1>1. ASSUME calls = <<>>, NEW f \in chain["Plan"]
        PROVE  v # NoVehicle /\ transfer[v][FlagElement[f]].op = FlagOp[f]
    <2>1. Goes(f) /\ NoVehicle \notin Vehicles
      BY ElementFacts DEF FlagInv, Flags
    <2> QED  BY <1>1, <2>1, NoSlots DEF Goes, PlanCall
  <1> QED  BY <1>1 DEF FlagMeansTransfer, FlagElement, FlagOp

(* A flag of an upload or download is set only while the transfer whose end   *)
(* takes it is under way, unless vehicles come and go, or the user asks for   *)
(* something else, in the middle of it.                                       *)
THEOREM FlagMeansTransferHolds ==
    ASSUME {"vehicles", "requests"} \cap Disturbances = {}
    PROVE  Spec => []FlagMeansTransfer
  <1>1. FlagInv /\ [Next]_vars => FlagInv'
    BY StepFlags
  <1>2. FlagInv => FlagMeansTransfer
    BY FlagInvImplies
  <1> QED  BY <1>1, <1>2, InitFlags, PTL DEF Spec

-----------------------------------------------------------------------------
(* The fly view shows what its vehicle's managers hold, or a transfer of the  *)
(* element is on its way or its end about to be told, or the last one failed. *)

(* A slot about to run that has the fly view show element x.                  *)
Brings(c, x) ==
    /\ c \in TransferCalls /\ c.of = "Fly" /\ c.element = x
    /\ c.slot = "newItems" \/ (c.slot \in ManagerSlots /\ ~c.error)
FlyComes(x) == \E c \in Slots : Brings(c, x)
FlyShows(v, x) ==
    \/ items["Fly"][x] = held[v][x]
    \/ <<v, x>> \in failed
    \/ transfer[v][x].op \in {"Read", "Write", "RemoveAll"}
    \/ FlyComes(x)
FlyOf(v) == v \in Vehicles /\ managerVehicle["Fly"] = v /\ Is(v)

FlyMeets ==
    (\E w \in Views : Avc(w) \in Slots) /\ activeVehicle \in Vehicles => JustMet(activeVehicle)
FlyNotGuided ==
    \A c \in Slots \cap TransferCalls : c.of = "Fly" =>
        transfer[activeVehicle][c.element].op # "Guided"
Fly ==
    /\ chain["Fly"] = {}
    /\ FlyMeets
    /\ FlyNotGuided
    /\ \A v : FlyOf(v) => initialPlanRequestComplete[v] /\ \A x \in Elements : FlyShows(v, x)
FlyInv == Base /\ Fly

LEMMA FlyFacts ==
    ASSUME Base
    PROVE  /\ "Fly" \in Views /\ "Plan" \in Views /\ "Fly" # "Plan"
           /\ calls = <<>> =>
                 /\ \A x : ~FlyComes(x)
                 /\ \A v : FlyOf(v) <=> v = activeVehicle /\ v \in Vehicles
           /\ (\E w \in Views : Avc(w) \in Slots) => \A x : ~FlyComes(x)
  <1>1. "Fly" \in Views /\ "Plan" \in Views
    BY DEF Views
  <1>2. ASSUME calls = <<>>
        PROVE  (\A x : ~FlyComes(x)) /\ \A v : FlyOf(v) <=> v = activeVehicle /\ v \in Vehicles
    <2>1. Slots = {} /\ managerVehicle["Fly"] = activeVehicle
      BY <1>1, <1>2, Settles
    <2>2. activeVehicle # NoVehicle => Is(activeVehicle)
      BY DEF Base, Fleet
    <2> QED  BY <2>1, <2>2, ElementFacts DEF FlyComes, FlyOf
  <1>3. ASSUME NEW w \in Views, Avc(w) \in Slots, NEW x PROVE ~FlyComes(x)
    BY <1>3 DEF FlyComes, Brings, Base, Stack
  <1> QED  BY <1>1, <1>2, <1>3

LEMMA InitFly == Init => FlyInv
  <1> SUFFICES ASSUME Init PROVE Fly
    BY InitBase DEF FlyInv
  <1>1. /\ calls = <<>> /\ chain["Fly"] = {} /\ managerVehicle["Fly"] = NoVehicle
    BY DEF Init, ConnectInit, Views
  <1>2. Slots = {}
    BY <1>1, NoSlots
  <1> QED  BY <1>1, <1>2, ElementFacts DEF Fly, FlyMeets, FlyNotGuided, FlyOf

(* What an element's manager and the slots leave as it was.                   *)
LEMMA FlyShowsKept ==
    ASSUME NEW v, NEW x, FlyShows(v, x), AsItWas(v, x), items'["Fly"][x] = items["Fly"][x],
           <<v, x>> \in failed => <<v, x>> \in failed',
           FlyComes(x) => FlyComes(x)'
    PROVE  FlyShows(v, x)'
  BY DEF FlyShows, AsItWas

(* A transfer that begins takes care of its element.                          *)
LEMMA FlyStarted ==
    ASSUME NEW v \in Vehicles, NEW x \in Elements, FlyShows(v, x),
           NEW S, NEW t \in Transfers, t # Nothing, NEW u, Started(u, S, t),
           items'["Fly"] = items["Fly"], failed' = failed, FlyComes(x) => FlyComes(x)'
    PROVE  FlyShows(v, x)'
  <1>1. CASE AsItWas(v, x)
    BY <1>1, FlyShowsKept
  <1>2. CASE ~AsItWas(v, x) /\ t.op = "Guided"
    BY <1>2, TransferFacts DEF Started, AsItWas, FlyShows
  <1>3. CASE ~AsItWas(v, x) /\ t.op # "Guided"
    <2>1. transfer'[v][x] = t
      BY <1>3 DEF Started, AsItWas
    <2> QED  BY <1>3, <2>1, TransferFacts DEF FlyShows
  <1> QED  BY <1>1, <1>2, <1>3

LEMMA MovesFly ==
    ASSUME FlyInv, Moves
    PROVE  Fly'
  <1>1. /\ UNCHANGED <<chain, activeVehicle, managerVehicle, connected, items, failed>>
        /\ Base /\ Fly
    BY DEF FlyInv, Moves, Elsewhere, masterVars, historyVars
  <1>2. \A c : c \in TransferCalls \/ (\E w \in Views : c = Avc(w)) => (c \in Slots' <=> c \in Slots)
    BY CallKinds DEF Moves
  <1>3. FlyMeets'
    BY <1>1, <1>2 DEF Moves, Fly, FlyMeets
  <1>4. \A v \in Vehicles, x \in Elements :
           AsItWas(v, x) \/ (transfer[v][x] = Nothing /\ transfer'[v][x] = Reading)
    BY DEF Moves
  <1>5. FlyNotGuided'
    <2> SUFFICES ASSUME NEW c \in Slots', c \in TransferCalls, c.of = "Fly"
                 PROVE  transfer'[activeVehicle][c.element].op # "Guided"
      BY <1>1 DEF FlyNotGuided
    <2>1. c \in Slots /\ c.element \in Elements
      BY <1>2, TransferCallFacts
    <2>2. transfer[activeVehicle][c.element].op # "Guided" /\ activeVehicle \in Vehicles
      BY <1>1, <2>1 DEF Fly, FlyNotGuided, Base, Stack, Types, FleetType
    <2> QED  BY <1>4, <2>1, <2>2, TransferFacts DEF AsItWas
  <1>6. ASSUME NEW v, FlyOf(v)'
        PROVE  initialPlanRequestComplete'[v] /\ \A x \in Elements : FlyShows(v, x)'
    <2>1. FlyOf(v) /\ v \in Vehicles
      BY <1>1, <1>6 DEF FlyOf, Is
    <2>2. initialPlanRequestComplete[v] /\ \A x \in Elements : FlyShows(v, x)
      BY <1>1, <2>1 DEF Fly
    <2>3. ASSUME NEW x \in Elements PROVE FlyShows(v, x)'
      <3>1. FlyComes(x) => FlyComes(x)'
        BY <1>2 DEF FlyComes, Brings
      <3>2. CASE AsItWas(v, x)
        BY <1>1, <2>2, <3>1, <3>2, FlyShowsKept
      <3>3. CASE transfer'[v][x] = Reading
        BY <3>3, TransferFacts DEF FlyShows
      <3> QED  BY <1>4, <2>1, <3>2, <3>3
    <2> QED  BY <2>1, <2>2, <2>3 DEF Moves
  <1> QED  BY <1>1, <1>3, <1>5, <1>6 DEF Fly

(* A vehicle comes, goes or is made active between transfers.                 *)
LEMMA ComesFly ==
    ASSUME FlyInv, NEW v \in Vehicles, VehicleComes(v)
    PROVE  Fly'
  <1>1. Base /\ Fly
    BY DEF FlyInv
  <1>2. /\ calls = <<>> /\ ~Is(v)
        /\ Slots' = {AdvanceOf(v)} \cup (IF connected = <<>> THEN {Avc(w) : w \in Views} ELSE {})
        /\ \A u : Is(u)' <=> Is(u) \/ u = v
        /\ activeVehicle' = IF connected = <<>> THEN v ELSE activeVehicle
        /\ UNCHANGED <<managerVars, connectVars, masterVars, historyVars>>
    BY <1>1, VehicleComesFacts
  <1>3. /\ UNCHANGED <<transfer, held, stateIndex, initialPlanRequestComplete, chain, managerVehicle,
                       items, failed>>
    BY <1>2 DEF managerVars, connectVars, masterVars, historyVars
  <1>4. AdvanceOf(v) \in MachineCalls /\ AdvanceOf(v).of = v
    BY MachineCallFacts
  <1>5. stateIndex[v] = 0 /\ Idle(v)
    BY <1>1, <1>2 DEF Base, Fleet
  <1>6. FlyMeets'
    <2>1. CASE connected = <<>>
      <3>1. activeVehicle' = v /\ AdvanceOf(v) \in Slots'
        BY <1>2, <2>1
      <3>2. JustMet(v)'
        BY <1>3, <1>5, <3>1 DEF JustMet, Idle, inProgress
      <3> QED  BY <3>1, <3>2 DEF FlyMeets
    <2>2. CASE connected # <<>>
      <3>1. Slots' = {AdvanceOf(v)}
        BY <1>2, <2>2
      <3> QED  BY <1>4, <3>1, CallKinds DEF FlyMeets
    <2> QED  BY <2>1, <2>2
  <1>7. FlyNotGuided'
    BY <1>2, <1>4, CallKinds DEF FlyNotGuided
  <1>8. ASSUME NEW u, FlyOf(u)'
        PROVE  initialPlanRequestComplete'[u] /\ \A x \in Elements : FlyShows(u, x)'
    <2>1. managerVehicle["Fly"] = activeVehicle /\ u = activeVehicle /\ u \in Vehicles
      BY <1>1, <1>2, <1>3, <1>8, Settles DEF FlyOf
    <2>2. FlyOf(u)
      BY <1>1, <1>2, <2>1, FlyFacts
    <2>3. initialPlanRequestComplete[u] /\ \A x \in Elements : FlyShows(u, x) /\ ~FlyComes(x)
      BY <1>1, <1>2, <2>2, FlyFacts DEF Fly
    <2> QED  BY <1>3, <2>3, FlyShowsKept DEF AsItWas
  <1> QED  BY <1>1, <1>3, <1>6, <1>7, <1>8 DEF Fly

LEMMA GoesFly ==
    ASSUME FlyInv, "vehicles" \notin Disturbances, NEW v \in Vehicles, VehicleGoes(v)
    PROVE  Fly'
  <1>1. Base /\ Fly /\ Settled
    BY DEF FlyInv, VehicleGoes
  <1>2. /\ calls = <<>>
        /\ Slots' = {Avc(w) : w \in Views}
        /\ \A u : Is(u)' <=> Is(u) /\ u # v
        /\ activeVehicle' # v
        /\ Forgotten(v)
        /\ \A u \in Vehicles : u # v => initialPlanRequestComplete'[u] = initialPlanRequestComplete[u]
        /\ failed' = {f \in failed : f[1] # v}
        /\ UNCHANGED masterVars
    BY <1>1, VehicleGoesFacts
  <1>3. UNCHANGED <<chain, managerVehicle, items>>
    BY <1>2 DEF masterVars
  <1>4. FlyMeets'
    <2> SUFFICES ASSUME activeVehicle' \in Vehicles PROVE JustMet(activeVehicle)'
      BY DEF FlyMeets
    <2>1. \A u \in Vehicles : u # v => Idle(u)'
      BY <1>1, <1>2, SettledFacts, ForgottenIdle
    <2>2. \A u : ~Machine(u)'
      BY <1>2, CallKinds DEF Machine
    <2>3. PICK a \in Vehicles : a = activeVehicle'
      OBVIOUS
    <2> QED  BY <1>2, <2>1, <2>2 DEF JustMet
  <1>5. FlyNotGuided'
    BY <1>2, CallKinds DEF FlyNotGuided
  <1>6. ASSUME NEW u, FlyOf(u)'
        PROVE  initialPlanRequestComplete'[u] /\ \A x \in Elements : FlyShows(u, x)'
    <2>1. u # v /\ FlyOf(u) /\ u \in Vehicles
      BY <1>2, <1>3, <1>6 DEF FlyOf
    <2>2. initialPlanRequestComplete[u] /\ \A x \in Elements : FlyShows(u, x) /\ ~FlyComes(x)
      BY <1>1, <1>2, <2>1, FlyFacts DEF Fly
    <2>3. \A x \in Elements : AsItWas(u, x)
      BY <1>2, <2>1 DEF Forgotten, AsItWas
    <2>4. ASSUME NEW x \in Elements, <<u, x>> \in failed PROVE <<u, x>> \in failed'
      <3>1. <<u, x>>[1] # v
        BY <2>1
      <3> QED  BY <1>2, <2>4, <3>1
    <2> QED  BY <1>2, <1>3, <2>1, <2>2, <2>3, <2>4, FlyShowsKept
  <1> QED  BY <1>1, <1>3, <1>4, <1>5, <1>6 DEF Fly

LEMMA SetActiveFly ==
    ASSUME FlyInv, "vehicles" \notin Disturbances, NEW v \in Vehicles, SetActiveVehicle(v)
    PROVE  Fly'
  <1>1. Base /\ Fly /\ Settled
    BY DEF FlyInv, SetActiveVehicle
  <1>2. /\ calls = <<>> /\ Slots' = {Avc(w) : w \in Views} /\ activeVehicle' = v
        /\ UNCHANGED <<managerVars, connectVars, connected, masterVars, historyVars>>
    BY <1>1, SetActiveFacts
  <1>3. UNCHANGED <<transfer, held, initialPlanRequestComplete, chain, managerVehicle, items, failed>>
    BY <1>2 DEF managerVars, connectVars, masterVars, historyVars
  <1>4. FlyMeets'
    <2>1. Idle(v)'
      BY <1>1, <1>2, SettledFacts, IdleKept
    <2>2. \A u : ~Machine(u)'
      BY <1>2, CallKinds DEF Machine
    <2>3. JustMet(v)'
      BY <2>1, <2>2 DEF JustMet
    <2> QED  BY <1>2, <2>3 DEF FlyMeets
  <1>5. FlyNotGuided'
    BY <1>2, CallKinds DEF FlyNotGuided
  <1>6. ASSUME NEW u, FlyOf(u)'
        PROVE  initialPlanRequestComplete'[u] /\ \A x \in Elements : FlyShows(u, x)'
    <2>1. FlyOf(u)
      BY <1>2, <1>3, <1>6 DEF FlyOf, Is
    <2>2. initialPlanRequestComplete[u] /\ \A x \in Elements : FlyShows(u, x) /\ ~FlyComes(x)
      BY <1>1, <1>2, <2>1, FlyFacts DEF Fly
    <2> QED  BY <1>3, <2>2, FlyShowsKept DEF AsItWas
  <1> QED  BY <1>1, <1>3, <1>4, <1>5, <1>6 DEF Fly

(* A view is told: the fly view shows all the vehicle's managers hold, none   *)
(* being busy.                                                                *)
LEMMA ToldFly ==
    ASSUME FlyInv, NEW w \in Views, ActiveVehicleChanged(w)
    PROVE  Fly'
  <1>1. Base /\ Fly /\ Types
    BY DEF FlyInv, Base
  <1>2. Told(w)
    BY <1>1, ToldFacts
  <1>3. /\ Slots' \subseteq Slots /\ Slots' \cap MachineCalls = {} /\ Avc(w) \in Slots
        /\ \A u \in Views : managerVehicle'[u] = IF u = w THEN activeVehicle ELSE managerVehicle[u]
        /\ UNCHANGED <<transfer, held, chain, connected, activeVehicle, failed>>
    BY <1>2 DEF Told, Popped, managerVars, historyVars
  <1>4. \A u : ~Machine(u)'
    BY <1>3 DEF Machine
  <1>5. activeVehicle \in Vehicles => JustMet(activeVehicle)
    BY <1>1, <1>3 DEF Fly, FlyMeets
  <1>6. FlyMeets'
    <2>1. ASSUME activeVehicle \in Vehicles PROVE JustMet(activeVehicle)'
      BY <1>3, <1>4, <1>5, <2>1 DEF JustMet, Idle, inProgress
    <2> QED  BY <1>3, <2>1 DEF FlyMeets
  <1>7. FlyNotGuided'
    <2>1. Slots' \cap TransferCalls = {}
      BY <1>1, <1>3 DEF Base, Stack
    <2> QED  BY <2>1 DEF FlyNotGuided
  <1>8. \A u \in Vehicles : initialPlanRequestComplete[u] => initialPlanRequestComplete'[u]
    BY <1>2 DEF Told, Takes, connectVars, Showing
  <1>9. ASSUME NEW u, FlyOf(u)'
        PROVE  initialPlanRequestComplete'[u] /\ \A x \in Elements : FlyShows(u, x)'
    <2>1. u \in Vehicles /\ managerVehicle'["Fly"] = u /\ Is(u)
      BY <1>3, <1>9 DEF FlyOf, Is
    <2>2. ASSUME managerVehicle["Fly"] = u, items'["Fly"] = items["Fly"]
          PROVE  initialPlanRequestComplete'[u] /\ \A x \in Elements : FlyShows(u, x)'
      <3>1. FlyOf(u)
        BY <2>1, <2>2 DEF FlyOf
      <3>2. initialPlanRequestComplete[u] /\ \A x \in Elements : FlyShows(u, x) /\ ~FlyComes(x)
        BY <1>1, <1>3, <3>1, FlyFacts DEF Fly
      <3> QED  BY <1>3, <1>8, <2>1, <2>2, <3>2, FlyShowsKept DEF AsItWas
    <2>3. CASE w # "Fly"
      <3>1. managerVehicle["Fly"] = u
        BY <1>1, <1>3, <2>1, <2>3, FlyFacts
      <3>2. items'["Fly"] = items["Fly"]
        <4>1. items \in [Views -> [Elements -> Contents]]
          BY <1>1 DEF Types, MasterType
        <4>2. CASE items' = items
          BY <4>2
        <4>3. ASSUME items' \in [Views -> [Elements -> Contents]],
                     \A e \in Elements : items'["Fly"][e] = items["Fly"][e]
              PROVE  items'["Fly"] = items["Fly"]
          BY <1>1, <4>1, <4>3, FlyFacts
        <4>4. CASE Emptied(w)
          BY <1>1, <2>3, <4>3, <4>4, FlyFacts DEF Emptied
        <4>5. CASE \E complete, shown : Showing(w, activeVehicle, complete, shown)
          BY <1>1, <2>3, <4>3, <4>5, FlyFacts DEF Showing, Shown
        <4> QED  BY <1>2, <4>2, <4>4, <4>5 DEF Told, Takes
      <3> QED  BY <2>2, <3>1, <3>2
    <2>4. CASE w = "Fly"
      <3>1. activeVehicle = u
        BY <1>1, <1>3, <2>1, <2>4, FlyFacts
      <3>2. CASE managerVehicle[w] = activeVehicle /\ items' = items
        BY <2>2, <2>4, <3>1, <3>2
      <3>3. ASSUME NEW complete, NEW shown, Showing(w, activeVehicle, complete, shown)
            PROVE  initialPlanRequestComplete'[u] /\ \A x \in Elements : FlyShows(u, x)'
        <4>1. Idle(u)
          BY <1>5, <2>1, <3>1 DEF JustMet
        <4>2. complete /\ shown = Elements
          BY <3>1, <3>3, <4>1 DEF Showing
        <4>3. \A x \in Elements : items'["Fly"][x] = held[u][x]
          BY <2>4, <3>1, <3>3, <4>2 DEF Showing, Shown
        <4>4. initialPlanRequestComplete'[u]
          BY <2>1, <3>1, <3>3, <4>2 DEF Showing
        <4> QED  BY <1>3, <4>3, <4>4 DEF FlyShows
      <3>4. ~MustAsk(w) /\ w # "Plan" /\ activeVehicle # NoVehicle
        BY <2>1, <2>4, <3>1, ElementFacts DEF MustAsk
      <3> QED  BY <1>2, <3>2, <3>3, <3>4 DEF Told, Takes
    <2> QED  BY <2>3, <2>4
  <1> QED  BY <1>1, <1>3, <1>6, <1>7, <1>9 DEF Fly

(* A slot of a transfer's end: it is enough to look at the active vehicle.    *)
LEMMA SlotFly ==
    ASSUME FlyInv, NEW slot \in ViewSlotNames, NEW w \in Views, NEW e \in Elements,
           NEW error \in BOOLEAN, Running(Call(slot, w, e, error)), SlotSteady,
           \A u \in Views : Avc(u) \notin Slots',
           chain'["Fly"] = {}, FlyNotGuided', NEW a \in Vehicles, a = activeVehicle,
           initialPlanRequestComplete[a] /\ (\A x \in Elements : FlyShows(a, x))
              => \A x \in Elements : FlyShows(a, x)'
    PROVE  Fly'
  <1>1. Base /\ Fly
    BY DEF FlyInv
  <1>2. UNCHANGED <<connected, activeVehicle, managerVehicle, initialPlanRequestComplete>>
    BY DEF SlotSteady, connectVars
  <1>3. managerVehicle["Fly"] = activeVehicle
    BY <1>1, TransferCallRuns, FlyFacts
  <1>4. ASSUME NEW u, FlyOf(u)'
        PROVE  initialPlanRequestComplete'[u] /\ \A x \in Elements : FlyShows(u, x)'
    <2>1. u = a /\ FlyOf(u)
      BY <1>2, <1>3, <1>4 DEF FlyOf, Is
    <2>2. initialPlanRequestComplete[u] /\ \A x \in Elements : FlyShows(u, x)
      BY <1>1, <2>1 DEF Fly
    <2>3. \A x \in Elements : FlyShows(a, x)'
      BY <2>1, <2>2
    <2> QED  BY <1>2, <2>1, <2>2, <2>3
  <1>5. FlyMeets'
    BY DEF FlyMeets
  <1> QED  BY <1>4, <1>5 DEF Fly

(* What a slot that runs leaves to bring the fly view an element.             *)
LEMMA BringsLeft ==
    ASSUME \A c \in Slots : c = Head(calls) \/ c \in Slots',
           NEW slot \in ViewSlotNames, NEW w \in Views, NEW e \in Elements,
           NEW error \in BOOLEAN, Running(Call(slot, w, e, error)), NEW x,
           \/ w = "Plan" \/ x # e \/ slot \in {"loadComplete", "sendComplete"}
           \/ slot \in ManagerSlots /\ error
    PROVE  FlyComes(x) => FlyComes(x)'
  <1>1. ASSUME NEW c \in Slots, Brings(c, x) PROVE c \in Slots'
    <2>1. c # Call(slot, w, e, error)
      BY <1>1, SlotCallFacts DEF Brings, ManagerSlots
    <2> QED  BY <2>1 DEF Running
  <1> QED  BY <1>1 DEF FlyComes

(* A slot of the plan view, or one of the fly view that does nothing.         *)
LEMMA StartsFly ==
    ASSUME FlyInv, NEW slot \in {"loadComplete", "sendComplete"}, NEW w \in Views, NEW e \in Elements,
           NEW error \in BOOLEAN, Running(Call(slot, w, e, error)), SlotSteady,
           chain'["Fly"] = {}, items'["Fly"] = items["Fly"],
           \/ Popped
           \/ w = "Plan" /\ \E n \in Elements : Replaced(Call(slot, "Plan", n, error)),
           \/ UNCHANGED managerVars
           \/ \E S, t : t \in Transfers /\ t.op \in {"Read", "Write"} /\ Started(activeVehicle, S, t)
    PROVE  Fly'
  <1>1. Base /\ Fly /\ slot \in ViewSlotNames
    BY DEF FlyInv, ViewSlotNames
  <1>2. /\ UNCHANGED <<connected, activeVehicle, managerVehicle, failed>>
        /\ activeVehicle \in Vehicles
        /\ \A u \in Views : Avc(u) \notin Slots
    BY <1>1, TransferCallRuns DEF SlotSteady, historyVars
  <1>3. \A c \in Slots' : c \in Slots \/ (c \in TransferCalls /\ c.of = "Plan")
    BY <1>1, SlotCallFacts DEF Popped, Replaced
  <1>4. \A c \in Slots : c = Head(calls) \/ c \in Slots'
    BY DEF Popped, Replaced
  <1>5. \A u \in Views : Avc(u) \notin Slots'
    BY <1>2, <1>3, CallKinds
  <1>6. \A x \in Elements :
           \/ transfer'[activeVehicle][x] = transfer[activeVehicle][x]
           \/ transfer'[activeVehicle][x].op \in {"Read", "Write"}
    BY <1>2 DEF managerVars, Started
  <1>7. FlyNotGuided'
    <2> SUFFICES ASSUME NEW c \in Slots', c \in TransferCalls, c.of = "Fly"
                 PROVE  transfer'[activeVehicle][c.element].op # "Guided"
      BY <1>2 DEF FlyNotGuided
    <2>1. c \in Slots /\ c.element \in Elements
      BY <1>1, <1>3, TransferCallFacts, FlyFacts
    <2> QED  BY <1>1, <1>6, <2>1 DEF Fly, FlyNotGuided
  <1>8. PICK a \in Vehicles : a = activeVehicle
    BY <1>2
  <1>9. ASSUME NEW x \in Elements, FlyShows(a, x) PROVE FlyShows(a, x)'
    <2>1. FlyComes(x) => FlyComes(x)'
      BY <1>1, <1>4, BringsLeft
    <2>2. CASE UNCHANGED managerVars
      BY <1>2, <1>9, <2>1, <2>2, UnchangedAsItWas, FlyShowsKept
    <2>3. ASSUME NEW S, NEW t \in Transfers, t.op \in {"Read", "Write"}, Started(activeVehicle, S, t)
          PROVE  FlyShows(a, x)'
      <3>1. t # Nothing /\ Started(a, S, t)
        BY <1>8, <2>3, TransferFacts
      <3> QED  BY <1>2, <1>9, <2>1, <3>1, FlyStarted
    <2> QED  BY <2>2, <2>3
  <1> QED  BY <1>1, <1>5, <1>7, <1>8, <1>9, SlotFly

LEMMA LoadCompleteFly ==
    ASSUME FlyInv, NEW w \in Views, NEW e \in Elements, NEW error \in BOOLEAN,
           LoadComplete(w, e, error)
    PROVE  Fly'
  <1>1. Base /\ Fly /\ chain["Fly"] = {}
    BY DEF FlyInv, Fly
  <1>2. Loaded(w, e, error) /\ Running(Call("loadComplete", w, e, error)) /\ SlotSteady
    BY <1>1, LoadCompleteFacts
  <1>3. CASE NothingMore
    BY <1>1, <1>2, <1>3, StartsFly DEF NothingMore
  <1>4. CASE /\ e \in {"mission", "fence"} /\ LoadFlag[e] \in chain[w]
             /\ Traded(w, LoadFlag, e)
             /\ LoadsNext(w, NextElement[e]) \/ SkipsLoad(w, NextElement[e], error)
    <2> DEFINE n == NextElement[e]
    <2>1. w = "Plan" /\ n \in Elements
      BY <1>1, <1>4, NextFacts DEF Views
    <2>2. chain'["Fly"] = {}
      BY <1>1, <1>4, <2>1, FlyFacts DEF Traded
    <2>3. LoadsNext(w, n) \/ SkipsLoad(w, n, error)
      BY <1>4
    <2> HIDE DEF n
    <2>4. items'["Fly"] = items["Fly"]
      <3>1. CASE items' = items
        BY <3>1
      <3>2. CASE SkipsLoad(w, n, error)
        <4>1. /\ items \in [Views -> [Elements -> Contents]] /\ items' \in [Views -> [Elements -> Contents]]
              /\ \A x \in Elements : items'["Fly"][x] = items["Fly"][x]
          BY <1>1, <2>1, <3>2, FlyFacts DEF SkipsLoad, Base, Types, MasterType
        <4> QED  BY <1>1, <4>1, FlyFacts
      <3> QED  BY <2>3, <3>1, <3>2 DEF LoadsNext
    <2>5. \/ Popped
          \/ w = "Plan" /\ \E x \in Elements : Replaced(Call("loadComplete", "Plan", x, error))
      BY <2>1, <2>3 DEF LoadsNext, SkipsLoad
    <2>6. \/ UNCHANGED managerVars
          \/ \E S, t : t \in Transfers /\ t.op \in {"Read", "Write"} /\ Started(activeVehicle, S, t)
      BY <2>3, TransferFacts DEF LoadsNext, SkipsLoad
    <2> QED  BY <1>2, <2>2, <2>4, <2>5, <2>6, StartsFly
  <1> QED  BY <1>2, <1>3, <1>4 DEF Loaded

LEMMA SendCompleteFly ==
    ASSUME FlyInv, NEW w \in Views, NEW e \in Elements, NEW error \in BOOLEAN,
           SendComplete(w, e, error)
    PROVE  Fly'
  <1>1. Base /\ Fly /\ chain["Fly"] = {}
    BY DEF FlyInv, Fly
  <1>2. Sent(w, e, error) /\ Running(Call("sendComplete", w, e, error)) /\ SlotSteady
    BY <1>1, SendCompleteFacts
  <1>3. CASE NothingMore
    BY <1>1, <1>2, <1>3, StartsFly DEF NothingMore
  <1>4. CASE /\ e \in {"mission", "fence"} /\ SendFlag[e] \in chain[w]
             /\ Traded(w, SendFlag, e)
             /\ SendsNext(w, NextElement[e]) \/ SkipsSend(w, NextElement[e], error)
             /\ items' = items
    <2> DEFINE n == NextElement[e]
    <2>1. w = "Plan" /\ n \in Elements
      BY <1>1, <1>4, NextFacts DEF Views
    <2>2. chain'["Fly"] = {}
      BY <1>1, <1>4, <2>1, FlyFacts DEF Traded
    <2>3. SendsNext(w, n) \/ SkipsSend(w, n, error)
      BY <1>4
    <2> HIDE DEF n
    <2>4. items[w][n] \in Contents
      BY <1>1, <2>1 DEF Base, Types, MasterType
    <2>5. \/ Popped
          \/ w = "Plan" /\ \E x \in Elements : Replaced(Call("sendComplete", "Plan", x, error))
      BY <2>1, <2>3 DEF SendsNext, SkipsSend
    <2>6. \/ UNCHANGED managerVars
          \/ \E S, t : t \in Transfers /\ t.op \in {"Read", "Write"} /\ Started(activeVehicle, S, t)
      BY <2>3, <2>4, TransferFacts DEF SendsNext, SkipsSend
    <2> QED  BY <1>2, <1>4, <2>2, <2>5, <2>6, StartsFly
  <1> QED  BY <1>2, <1>3, <1>4 DEF Sent

(* A controller's slot shows its element, or need not, or finds it busy.      *)
LEMMA ShownFly ==
    ASSUME FlyInv, NEW slot \in {"newItems"} \cup ManagerSlots, NEW w \in Views, NEW e \in Elements,
           NEW error \in BOOLEAN, NEW shows, Running(Call(slot, w, e, error)), SlotSteady,
           ShownOrNot(w, e, shows),
           \/ w = "Plan" \/ shows \/ (slot \in ManagerSlots /\ error)
           \/ inProgress(activeVehicle, e) \/ ~initialPlanRequestComplete[activeVehicle]
    PROVE  Fly'
  <1>1. Base /\ Fly /\ slot \in ViewSlotNames /\ chain["Fly"] = {}
    BY DEF FlyInv, Fly, ViewSlotNames, ManagerSlots
  <1>2. /\ UNCHANGED <<connected, activeVehicle, managerVehicle, failed>>
        /\ activeVehicle \in Vehicles
        /\ \A u \in Views : Avc(u) \notin Slots
        /\ Call(slot, w, e, error) \in Slots
    BY <1>1, TransferCallRuns DEF SlotSteady, historyVars
  <1>3. /\ Slots' \subseteq Slots
        /\ \A c \in Slots : c = Head(calls) \/ c \in Slots'
        /\ chain' = chain /\ UNCHANGED managerVars /\ transfer' = transfer /\ held' = held
    BY DEF ShownOrNot, Popped, managerVars
  <1>4. FlyNotGuided'
    BY <1>1, <1>2, <1>3 DEF Fly, FlyNotGuided
  <1>5. PICK a \in Vehicles : a = activeVehicle
    BY <1>2
  <1>6. ASSUME initialPlanRequestComplete[a], NEW x \in Elements, FlyShows(a, x)
        PROVE  FlyShows(a, x)'
    <2>1. AsItWas(a, x)
      BY <1>3 DEF AsItWas
    <2>2. CASE w = "Fly" /\ x = e /\ shows
      <3>1. items'["Fly"][x] = held[a][x]
        BY <1>5, <2>2 DEF ShownOrNot, Shown
      <3> QED  BY <1>3, <3>1 DEF FlyShows
    <2>3. items'["Fly"][x] = items["Fly"][x] \/ (w = "Fly" /\ x = e /\ shows)
      BY <1>1, FlyFacts DEF ShownOrNot, Shown
    <2>4. CASE w = "Plan" \/ x # e \/ (slot \in ManagerSlots /\ error)
      <3>1. FlyComes(x) => FlyComes(x)'
        BY <1>1, <1>3, <2>4, BringsLeft
      <3>2. CASE items'["Fly"][x] = items["Fly"][x]
        BY <1>2, <1>6, <2>1, <3>1, <3>2, FlyShowsKept
      <3> QED  BY <2>2, <2>3, <3>2
    <2>5. CASE w = "Fly" /\ inProgress(a, e) /\ x = e
      <3>1. transfer[a][e] \in Transfers
        BY DEF FlyInv, Base, Types, ManagersTypeOK
      <3>2. transfer[a][e].op # "Guided"
        <4>1. Call(slot, w, e, error) \in TransferCalls
              /\ Call(slot, w, e, error).of = "Fly" /\ Call(slot, w, e, error).element = e
          BY <1>1, <2>5, SlotCallFacts
        <4> QED  BY <1>1, <1>2, <1>5, <4>1 DEF Fly, FlyNotGuided
      <3>3. transfer'[a][e].op \in {"Read", "Write", "RemoveAll"}
        BY <1>3, <2>5, <3>1, <3>2, TransferFacts DEF inProgress
      <3> QED  BY <2>5, <3>3 DEF FlyShows
    <2> QED  BY <1>5, <1>6, <2>2, <2>4, <2>5 DEF Views
  <1> QED  BY <1>1, <1>2, <1>3, <1>4, <1>5, <1>6, SlotFly

(* A transfer ends: its end is about to be told, or it has failed.            *)
LEMMA EndsFly ==
    ASSUME FlyInv, NEW v \in Vehicles, NEW e \in Elements, NEW ok \in BOOLEAN,
           TransferEnds(v, e, ok)
    PROVE  Fly'
  <1> DEFINE op == transfer[v][e].op
             err == ~ok
  <1>1. /\ calls = <<>>
        /\ \E c \in Contents : Ended(v, e, ok, c)
        /\ Heard(v, e, op, err)
        /\ failed' = IF op \notin {"Write", "RemoveAll"} THEN failed
                     ELSE IF ok THEN failed \ {<<v, e>>} ELSE failed \cup {<<v, e>>}
        /\ UNCHANGED <<connectVars, connected, activeVehicle, masterVars>>
    BY EndsFacts DEF FlyInv
  <1>2. Base /\ Fly /\ UNCHANGED <<chain, managerVehicle, items, initialPlanRequestComplete>>
    BY <1>1 DEF connectVars, masterVars, FlyInv
  <1>3. /\ transfer[v][e] # Nothing /\ transfer[v][e] \in Transfers
        /\ \A u \in Vehicles, x \in Elements :
              /\ transfer'[u][x] = IF u = v /\ x = e THEN Nothing ELSE transfer[u][x]
              /\ (u = v /\ x = e) \/ held'[u][x] = held[u][x]
              /\ u = v /\ x = e /\ op = "Guided" => held'[u][x] = held[u][x]
    BY <1>1, <1>2 DEF Ended, HeldAfter, Base, Types, ManagersTypeOK
  <1>4. err \in BOOLEAN /\ (err <=> ~ok)
    OBVIOUS
  <1>5. op \in {"Read", "Write", "RemoveAll", "Guided"}
    BY <1>3, TransferFacts
  <1> HIDE DEF op, err
  <1>6. \A w \in Views : Avc(w) \notin Slots'
    <2>1. FirstLoadOf(v, e) \in MachineCalls
      BY MachineCallFacts
    <2> QED  BY <1>1, <2>1, CallKinds DEF Heard, ViewHears
  <1>7. FlyNotGuided'
    <2> SUFFICES ASSUME NEW c \in Slots', c \in TransferCalls, c.of = "Fly"
                 PROVE  transfer'[activeVehicle][c.element].op # "Guided"
      BY <1>1 DEF FlyNotGuided
    <2>1. c # FirstLoadOf(v, e)
      BY MachineCallFacts, CallKinds
    <2>2. PICK w \in Views : managerVehicle[w] = v /\ ViewHears(w, e, op, err, c)
      BY <1>1, <2>1 DEF Heard
    <2>3. activeVehicle = v /\ c.element = e
      BY <1>1, <1>2, <2>2, Settles DEF ViewHears
    <2> QED  BY <1>3, <2>3, TransferFacts
  <1>8. ASSUME NEW u, FlyOf(u)'
        PROVE  initialPlanRequestComplete'[u] /\ \A x \in Elements : FlyShows(u, x)'
    <2>1. FlyOf(u) /\ u \in Vehicles /\ managerVehicle["Fly"] = u /\ "Fly" \in Views
      BY <1>1, <1>2, <1>8, FlyFacts DEF FlyOf, Is
    <2>2. initialPlanRequestComplete[u] /\ \A x \in Elements : FlyShows(u, x) /\ ~FlyComes(x)
      BY <1>1, <1>2, <2>1, FlyFacts DEF Fly
    <2>3. ASSUME NEW x \in Elements, ~(u = v /\ x = e) PROVE FlyShows(u, x)'
      <3>1. AsItWas(u, x)
        BY <1>3, <2>1, <2>3 DEF AsItWas
      <3>2. <<u, x>> # <<v, e>>
        BY <2>3
      <3>3. <<u, x>> \in failed => <<u, x>> \in failed'
        BY <1>1, <3>2
      <3> QED  BY <1>2, <2>2, <3>1, <3>3, FlyShowsKept
    <2>4. ASSUME u = v PROVE FlyShows(v, e)'
      <3>1. CASE op = "Guided"
        <4>1. held'[v][e] = held[v][e] /\ transfer[v][e].op = "Guided" /\ failed' = failed
          BY <1>1, <1>3, <3>1 DEF op
        <4>2. items["Fly"][e] = held[v][e] \/ <<v, e>> \in failed
          BY <2>2, <2>4, <4>1 DEF FlyShows
        <4> QED  BY <1>2, <4>1, <4>2 DEF FlyShows
      <3>2. CASE op \in {"Write", "RemoveAll"} /\ ~ok
        BY <1>1, <3>2 DEF FlyShows
      <3>3. ASSUME NEW s \in ViewSlotNames, ViewHears("Fly", e, op, err, Call(s, "Fly", e, err)),
                   s = "newItems" \/ (s \in ManagerSlots /\ ok)
            PROVE  FlyShows(v, e)'
        <4> DEFINE c == Call(s, "Fly", e, err)
        <4>1. c \in TransferCalls /\ c.slot = s /\ c.of = "Fly" /\ c.element = e /\ c.error = err
          BY <1>4, <2>1, SlotCallFacts
        <4>2. c \in Slots'
          BY <1>1, <2>1, <2>4, <3>3 DEF Heard
        <4> HIDE DEF c
        <4>3. Brings(c, e)
          BY <1>4, <3>3, <4>1 DEF Brings
        <4> QED  BY <4>2, <4>3 DEF FlyShows, FlyComes
      <3>4. ASSUME NEW s \in ViewSlotNames,
                   \/ op = "Read" /\ s = "newItems"
                   \/ op = "RemoveAll" /\ s = "managerRemoveAllComplete"
                   \/ op = "Write" /\ s = "managerSendComplete"
            PROVE  ViewHears("Fly", e, op, err, Call(s, "Fly", e, err))
        <4> DEFINE c == Call(s, "Fly", e, err)
        <4>1. c \in TransferCalls /\ c.slot = s /\ c.of = "Fly" /\ c.element = e /\ c.error = err
          BY <1>4, <2>1, SlotCallFacts
        <4> HIDE DEF c
        <4>2. ViewHears("Fly", e, op, err, c)
          BY <3>4, <4>1 DEF ViewHears
        <4> QED  BY <4>2 DEF c
      <3>5. CASE op = "Read"
        <4>1. "newItems" \in ViewSlotNames
          BY DEF ViewSlotNames
        <4> QED  BY <3>3, <3>4, <3>5, <4>1
      <3>6. CASE op = "Write" /\ ok
        <4>1. "managerSendComplete" \in ViewSlotNames /\ "managerSendComplete" \in ManagerSlots
          BY DEF ViewSlotNames, ManagerSlots
        <4> QED  BY <3>3, <3>4, <3>6, <4>1
      <3>7. CASE op = "RemoveAll" /\ ok
        <4>1. "managerRemoveAllComplete" \in ViewSlotNames /\ "managerRemoveAllComplete" \in ManagerSlots
          BY DEF ViewSlotNames, ManagerSlots
        <4> QED  BY <3>3, <3>4, <3>7, <4>1
      <3> QED  BY <1>5, <3>1, <3>2, <3>5, <3>6, <3>7
    <2> QED  BY <1>2, <2>2, <2>3, <2>4
  <1>9. FlyMeets'
    BY <1>6 DEF FlyMeets
  <1> QED  BY <1>2, <1>7, <1>8, <1>9 DEF Fly

(* A request begins transfers of the active vehicle.                          *)
LEMMA AskedFly ==
    ASSUME FlyInv, Asked, NEW S, NEW t \in Transfers, t # Nothing, Started(activeVehicle, S, t),
           chain'["Fly"] = chain["Fly"], items' = items
    PROVE  Fly'
  <1>1. Base /\ Fly
    BY DEF FlyInv
  <1>2. /\ calls = <<>>
        /\ UNCHANGED <<calls, connected, activeVehicle, managerVehicle, initialPlanRequestComplete, failed>>
    BY DEF Asked, RequestSteady, connectVars
  <1>3. Slots' = {}
    BY <1>2, StillQuiet
  <1>4. ASSUME NEW u, FlyOf(u)'
        PROVE  initialPlanRequestComplete'[u] /\ \A x \in Elements : FlyShows(u, x)'
    <2>1. FlyOf(u) /\ u \in Vehicles
      BY <1>2, <1>4 DEF FlyOf, Is
    <2>2. initialPlanRequestComplete[u] /\ \A x \in Elements : FlyShows(u, x) /\ ~FlyComes(x)
      BY <1>1, <1>2, <2>1, FlyFacts DEF Fly
    <2> QED  BY <1>2, <2>1, <2>2, FlyStarted
  <1> QED  BY <1>1, <1>3, <1>4 DEF Fly, FlyMeets, FlyNotGuided

LEMMA UserRequestFly ==
    ASSUME FlyInv, UserRequest
    PROVE  Fly'
  <1>1. Base
    BY DEF FlyInv
  <1>2. CASE Upload
    <2> DEFINE t == Writing(items["Plan"]["mission"])
    <2>1. /\ Asked /\ chain'["Fly"] = chain["Fly"] /\ items' = items
          /\ items["Plan"]["mission"] \in Contents
          /\ Started(activeVehicle, {"mission"}, t)
      BY <1>1, <1>2, UploadFacts
    <2>2. t \in Transfers /\ t # Nothing
      BY <2>1, TransferFacts
    <2> HIDE DEF t
    <2> QED  BY <2>1, <2>2, AskedFly
  <1>3. CASE Download
    <2>1. Reading \in Transfers /\ Reading # Nothing
      BY TransferFacts
    <2> QED  BY <1>1, <1>3, <2>1, DownloadFacts, AskedFly
  <1>4. ASSUME NEW w \in Views, NEW kind, RemoveAllFromVehicle(w, kind) PROVE Fly'
    <2>1. Removing \in Transfers /\ Removing # Nothing
      BY TransferFacts
    <2> QED  BY <1>1, <1>4, <2>1, RemoveAllRequestFacts, AskedFly
  <1>5. ASSUME NEW kind, NEW t \in FlyTransfers, FlyMission(kind, t) PROVE Fly'
    <2>1. t \in Transfers /\ t # Nothing
      BY TransferFacts DEF FlyTransfers
    <2> QED  BY <1>1, <1>5, <2>1, FlyMissionFacts, AskedFly
  <1>6. CASE Resume
    BY <1>1, <1>5, <1>6, ResumeFacts
  <1>7. "Plan" \in Views /\ "Fly" \in Views /\ GuidedItem \in FlyTransfers
    BY DEF Views, FlyTransfers
  <1> QED  BY <1>2, <1>3, <1>4, <1>5, <1>6, <1>7 DEF UserRequest

(* A step that leaves the calls, the transfers and the fly view alone.        *)
LEMMA SteadyFly ==
    ASSUME FlyInv, UNCHANGED <<calls, connected, activeVehicle, managerVehicle, chain, failed>>,
           UNCHANGED managerVars, stateIndex' = stateIndex, items'["Fly"] = items["Fly"],
           \A u \in Vehicles : initialPlanRequestComplete[u] => initialPlanRequestComplete'[u]
    PROVE  Fly'
  <1>1. Fly /\ Slots' = Slots /\ UNCHANGED <<transfer, held>>
    BY DEF FlyInv, Slots, Entries, managerVars
  <1>2. FlyMeets'
    BY <1>1 DEF Fly, FlyMeets, JustMet, Idle, inProgress, Machine
  <1>3. FlyNotGuided'
    BY <1>1 DEF Fly, FlyNotGuided
  <1>4. ASSUME NEW u, FlyOf(u)'
        PROVE  initialPlanRequestComplete'[u] /\ \A x \in Elements : FlyShows(u, x)'
    <2>1. FlyOf(u) /\ u \in Vehicles
      BY <1>4 DEF FlyOf, Is
    <2>2. initialPlanRequestComplete[u] /\ \A x \in Elements : FlyShows(u, x)
      BY <1>1, <2>1 DEF Fly
    <2>3. \A x : FlyComes(x) => FlyComes(x)'
      BY <1>1 DEF FlyComes
    <2> QED  BY <1>1, <2>1, <2>2, <2>3, FlyShowsKept DEF AsItWas
  <1> QED  BY <1>1, <1>2, <1>3, <1>4 DEF Fly

LEMMA UserEditFly ==
    ASSUME FlyInv, Drawing \/ Replied
    PROVE  Fly'
  <1>1. /\ UNCHANGED <<calls, connected, activeVehicle, managerVehicle, chain, failed>>
        /\ UNCHANGED managerVars
    BY DEF Drawing, Edited, Replied, EditSteady
  <1>2. /\ stateIndex' = stateIndex
        /\ \A u \in Vehicles : initialPlanRequestComplete[u] => initialPlanRequestComplete'[u]
    BY DEF Drawing, Edited, Replied, TakesOver, Keeps, Showing, connectVars
  <1>3. items'["Fly"] = items["Fly"]
    <2>1. /\ "Fly" \in Views /\ "Fly" # "Plan" /\ items \in [Views -> [Elements -> Contents]]
      BY DEF FlyInv, Base, Types, MasterType, Views
    <2>2. ASSUME items' \in [Views -> [Elements -> Contents]],
                 \A e \in Elements : items'["Fly"][e] = items["Fly"][e]
          PROVE  items'["Fly"] = items["Fly"]
      BY <2>1, <2>2
    <2>3. CASE Emptied("Plan")
      BY <2>1, <2>2, <2>3 DEF Emptied
    <2>4. CASE \E complete, shown : Showing("Plan", activeVehicle, complete, shown)
      BY <2>1, <2>2, <2>4 DEF Showing, Shown
    <2> QED  BY <2>3, <2>4 DEF Drawing, Replied, TakesOver, Keeps
  <1> QED  BY <1>1, <1>2, <1>3, SteadyFly

LEMMA StepFly ==
    ASSUME "vehicles" \notin Disturbances, FlyInv, [Next]_vars
    PROVE  FlyInv'
  <1>1. Base /\ Fly
    BY DEF FlyInv
  <1>2. Base'
    BY <1>1, StepBase
  <1> SUFFICES Fly'
    BY <1>2 DEF FlyInv
  <1>3. CASE ConnectMachine
    BY <1>1, <1>3, MachineMoves, MovesFly
  <1>4. CASE VehiclesComeAndGo
    BY <1>4, ComesFly, GoesFly, SetActiveFly DEF VehiclesComeAndGo
  <1>5. CASE ViewSlots
    <2>1. PICK w \in Views :
            \/ ActiveVehicleChanged(w)
            \/ \E e \in Elements, error \in BOOLEAN :
                  \/ LoadComplete(w, e, error)
                  \/ SendComplete(w, e, error)
                  \/ NewItems(w, e, error)
                  \/ ManagerComplete("managerSendComplete", w, e, error)
                  \/ ManagerComplete("managerRemoveAllComplete", w, e, error)
      BY <1>5 DEF ViewSlots
    <2>2. CASE ActiveVehicleChanged(w)
      BY <2>2, ToldFly
    <2>3. ASSUME NEW e \in Elements, NEW error \in BOOLEAN, LoadComplete(w, e, error) PROVE Fly'
      BY <2>3, LoadCompleteFly
    <2>4. ASSUME NEW e \in Elements, NEW error \in BOOLEAN, SendComplete(w, e, error) PROVE Fly'
      BY <2>4, SendCompleteFly
    <2>5. ASSUME NEW e \in Elements, NEW error \in BOOLEAN, NewItems(w, e, error) PROVE Fly'
      <3> DEFINE shows == w = "Fly" \/ e \in itemsRequested[w] \/ items[w][e] = NoItems
      <3>1. ShownOrNot(w, e, shows) /\ Running(Call("newItems", w, e, error)) /\ SlotSteady
        BY <1>1, <2>5, NewItemsFacts
      <3>2. w = "Plan" \/ shows
        BY DEF Views
      <3> HIDE DEF shows
      <3> QED  BY <3>1, <3>2, ShownFly
    <2>6. ASSUME NEW slot \in ManagerSlots, NEW e \in Elements, NEW error \in BOOLEAN,
                 ManagerComplete(slot, w, e, error)
          PROVE  Fly'
      <3> DEFINE shows == Refreshes(slot, w, e, error)
      <3>1. ShownOrNot(w, e, shows) /\ Running(Call(slot, w, e, error)) /\ SlotSteady
        BY <1>1, <2>6, ManagerCompleteFacts
      <3>2. \/ w = "Plan" \/ shows \/ (slot \in ManagerSlots /\ error)
            \/ inProgress(activeVehicle, e) \/ ~initialPlanRequestComplete[activeVehicle]
        BY DEF Refreshes, ShowsAfter, Views
      <3> HIDE DEF shows
      <3> QED  BY <3>1, <3>2, ShownFly
    <2>7. ASSUME NEW e \in Elements, NEW error \in BOOLEAN,
                 \/ ManagerComplete("managerSendComplete", w, e, error)
                 \/ ManagerComplete("managerRemoveAllComplete", w, e, error)
          PROVE  Fly'
      BY <2>6, <2>7 DEF ManagerSlots
    <2> QED  BY <2>1, <2>2, <2>3, <2>4, <2>5, <2>7
  <1>6. CASE SomeTransferEnds
    BY <1>6, EndsFly DEF SomeTransferEnds
  <1>7. CASE UserRequest
    BY <1>7, UserRequestFly
  <1>8. CASE UserEdit
    BY <1>1, <1>8, UserEdits, UserEditFly
  <1>9. CASE UNCHANGED vars
    BY <1>9, SteadyFly DEF vars, masterVars, connectVars, historyVars
  <1> QED  BY <1>3, <1>4, <1>5, <1>6, <1>7, <1>8, <1>9 DEF Next

LEMMA FlyInvImplies ==
    ASSUME FlyInv
    PROVE  FlyViewFollows
  <1> DEFINE v == managerVehicle["Fly"]
  <1> SUFFICES ASSUME v # NoVehicle, Quiet(v), NEW e \in Elements
               PROVE  <<v, e>> \in failed \/ items["Fly"][e] = held[v][e]
    BY DEF FlyViewFollows
  <1>1. Base /\ Fly /\ calls = <<>> /\ ~inProgress(v, e)
    BY DEF FlyInv, Quiet
  <1>2. v = activeVehicle /\ v \in Vehicles
    BY <1>1, Settles DEF Base, Types, FleetType
  <1>3. FlyOf(v) /\ ~FlyComes(e)
    BY <1>1, <1>2, FlyFacts
  <1> HIDE DEF v
  <1>4. FlyShows(v, e)
    BY <1>1, <1>3 DEF Fly
  <1> QED  BY <1>1, <1>3, <1>4, TransferFacts DEF FlyShows, inProgress

(* Between transfers the fly view shows what the active vehicle's managers    *)
(* hold, for the elements whose last write or removal did not fail, whatever  *)
(* the user asks for, edits and breaks off: unless vehicles come and go in    *)
(* the middle of a transfer or of a connection.                               *)
THEOREM FlyViewFollowsHolds ==
    ASSUME "vehicles" \notin Disturbances
    PROVE  Spec => []FlyViewFollows
  <1>1. FlyInv /\ [Next]_vars => FlyInv'
    BY StepFly
  <1>2. FlyInv => FlyViewFollows
    BY FlyInvImplies
  <1> QED  BY <1>1, <1>2, InitFly, PTL DEF Spec

-----------------------------------------------------------------------------
(* Each element of an upload is on the vehicle, or its transfer has failed or *)
(* is under way, or its turn is to come and the plan view has not changed it. *)

(* The upload's sequence is to send element x yet.                            *)
ToCome(x) ==
    \E f \in chain["Plan"] : FlagOp[f] = "Write" /\ x \in After(FlagElement[f])
(* A slot about to run that may replace the plan view's element x.            *)
Replaces(c, x) ==
    /\ c \in TransferCalls /\ c.of = "Plan" /\ c.element = x
    /\ c.slot \in {"newItems", "managerRemoveAllComplete"}
Arrives(v, x) ==
    LET t == transfer[v][x]
    IN /\ t.op = "Write" => uploading[x] \subseteq {t.items}
       /\ t.op = "RemoveAll" => uploading[x] = {}
       /\ \/ uploading[x] \subseteq {stored[v][x]}
          \/ <<v, x>> \in failed
          \/ t.op = "Write"
          \/ ToCome(x)
       /\ ToCome(x) => uploading[x] \subseteq {items["Plan"][x]}
UploadOf(v) ==
    /\ Is(v) /\ stateIndex[v] = Finished
    /\ \A x \in Supports[v] : Arrives(v, x)
Upl ==
    /\ prompting => chain["Plan"] = {}
    /\ \A f \in chain["Plan"] : FlagOp[f] = "Write" => uploadTo = activeVehicle
    /\ \A c \in Slots : \A x : Replaces(c, x) => ~ToCome(x)
    /\ \A v \in Vehicles : uploadTo = v => UploadOf(v)
UplInv == FlagInv /\ Upl

LEMMA UplFacts ==
    ASSUME UplInv
    PROVE  /\ Base /\ Flags /\ Upl /\ FlagInv
           /\ chain["Plan"] \subseteq Chain
           /\ chain["Plan"] = {} => \A x : ~ToCome(x)
           /\ \A v \in Vehicles : Supports[v] \subseteq Elements
           /\ "Plan" \in Views /\ "Fly" \in Views
  <1>1. /\ Base /\ Flags /\ Upl /\ FlagInv
        /\ chain["Plan"] \subseteq Chain
        /\ \A v \in Vehicles : Supports[v] \subseteq Elements
        /\ "Plan" \in Views /\ "Fly" \in Views
    BY ChainFacts, ElementFacts DEF UplInv, FlagInv
  <1>2. chain["Plan"] = {} => \A x : ~ToCome(x)
    BY DEF ToCome
  <1> QED  BY <1>1, <1>2

LEMMA InitUpl == Init => UplInv
  <1> SUFFICES ASSUME Init PROVE Upl
    BY InitFlags DEF UplInv
  <1>1. calls = <<>> /\ chain["Plan"] = {} /\ uploadTo = NoVehicle
    BY DEF Init, ConnectInit, Views
  <1>2. Slots = {}
    BY <1>1, NoSlots
  <1> QED  BY <1>1, <1>2, ElementFacts DEF Upl

(* Nothing is left to bring of an element nothing of which was to be brought. *)
LEMMA NoneArrives ==
    ASSUME NEW v, NEW x, uploading'[x] = {}
    PROVE  Arrives(v, x)'
  BY DEF Arrives

(* The element is left alone, or begins to be read.                           *)
LEMMA ArrivesKept ==
    ASSUME NEW v, NEW x, Arrives(v, x),
           \/ transfer'[v][x] = transfer[v][x]
           \/ transfer[v][x] = Nothing /\ transfer'[v][x].op \notin {"Write", "RemoveAll"},
           stored'[v][x] = stored[v][x], uploading'[x] = uploading[x],
           <<v, x>> \in failed => <<v, x>> \in failed',
           ToCome(x)' <=> ToCome(x),
           ToCome(x) => items'["Plan"][x] = items["Plan"][x]
    PROVE  Arrives(v, x)'
  BY TransferFacts DEF Arrives

LEMMA UplKept ==
    ASSUME UplInv, UNCHANGED chain,
           chain["Plan"] # {} =>
              /\ UNCHANGED <<activeVehicle, uploadTo>> /\ (prompting' => prompting)
              /\ \A c \in Slots' : c \in Slots \/ \A x : ~Replaces(c, x),
           \A v \in Vehicles : uploadTo' = v => UploadOf(v)'
    PROVE  Upl'
  <1>1. Upl /\ (chain["Plan"] = {} => \A x : ~ToCome(x)) /\ \A x : ToCome(x)' <=> ToCome(x)
    BY UplFacts DEF ToCome
  <1>2. \A c \in Slots' : \A x : Replaces(c, x) => ~ToCome(x)'
    BY <1>1 DEF Upl
  <1>3. \A c \in Slots' : \A x : Replaces(c, x)' => ~ToCome(x)'
    BY <1>2 DEF Replaces
  <1> QED  BY <1>1, <1>3 DEF Upl

(* What the vehicle of the upload and its managers keep.                      *)
LEMMA UploadOfKept ==
    ASSUME UplInv, NEW v \in Vehicles, uploadTo = v, UNCHANGED chain, Is(v)', stateIndex'[v] = stateIndex[v],
           stored' = stored, uploading' = uploading, \A x : <<v, x>> \in failed => <<v, x>> \in failed',
           \A x \in Elements :
              \/ transfer'[v][x] = transfer[v][x]
              \/ transfer[v][x] = Nothing /\ transfer'[v][x].op \notin {"Write", "RemoveAll"},
           \A x \in Elements : ToCome(x) => items'["Plan"][x] = items["Plan"][x]
    PROVE  UploadOf(v)'
  <1>1. UploadOf(v) /\ \A x : ToCome(x)' <=> ToCome(x)
    BY UplFacts DEF Upl, ToCome
  <1>2. ASSUME NEW x \in Supports[v] PROVE Arrives(v, x)'
    <2>1. x \in Elements
      BY <1>2, UplFacts
    <2> QED  BY <1>1, <1>2, <2>1, ArrivesKept DEF UploadOf
  <1> QED  BY <1>1, <1>2 DEF UploadOf

LEMMA MovesUpl ==
    ASSUME UplInv, Moves
    PROVE  Upl'
  <1>1. /\ UNCHANGED <<chain, activeVehicle, items, prompting, connected>>
        /\ UNCHANGED <<uploadTo, uploading, failed>> /\ stored' = stored
    BY DEF Moves, Elsewhere, masterVars, historyVars
  <1>2. \A c \in Slots' : c \in Slots \/ \A x : ~Replaces(c, x)
    BY CallKinds DEF Moves, Replaces
  <1>3. ASSUME NEW v \in Vehicles, uploadTo = v PROVE UploadOf(v)'
    <2>1. Is(v) /\ stateIndex[v] = Finished
      BY <1>3, UplFacts DEF Upl, UploadOf
    <2>2. Is(v)' /\ stateIndex'[v] = stateIndex[v]
          /\ \A x \in Elements : transfer'[v][x] = transfer[v][x]
      BY <1>1, <2>1 DEF Moves, AsItWas, Is
    <2> QED  BY <1>1, <1>3, <2>2, UploadOfKept
  <1> QED  BY <1>1, <1>2, <1>3, UplKept

LEMMA FleetUpl ==
    ASSUME UplInv, "vehicles" \notin Disturbances, VehiclesComeAndGo
    PROVE  Upl'
  <1>1. Base /\ FlagInv
    BY UplFacts
  <1>2. calls = <<>> /\ Settled /\ UNCHANGED masterVars
    BY DEF VehiclesComeAndGo, VehicleComes, VehicleGoes, SetActiveVehicle
  <1>3. chain["Plan"] = {} /\ UNCHANGED <<chain, items, prompting>> /\ \A x : ~ToCome(x)
    BY <1>1, <1>2, SettledFacts, IdleNoFlags, UplFacts DEF masterVars
  <1>4. ASSUME NEW u \in Vehicles, uploadTo' = u PROVE UploadOf(u)'
    <2>1. ASSUME UNCHANGED <<managerVars, connectVars, historyVars>>, Is(u) => Is(u)' 
          PROVE  UploadOf(u)'
      <3>1. UNCHANGED <<transfer, stored, stateIndex, uploadTo, uploading, failed>>
        BY <2>1 DEF managerVars, connectVars, historyVars
      <3>2. Is(u)
        BY <1>4, <3>1, UplFacts DEF Upl, UploadOf
      <3> QED  BY <1>3, <1>4, <2>1, <3>1, <3>2, UploadOfKept
    <2>2. ASSUME NEW v \in Vehicles, VehicleComes(v) PROVE UploadOf(u)'
      <3>1. UNCHANGED <<managerVars, connectVars, historyVars>> /\ (Is(u) => Is(u)')
        BY <1>1, <2>2, VehicleComesFacts
      <3> QED  BY <2>1, <3>1
    <2>3. ASSUME NEW v \in Vehicles, SetActiveVehicle(v) PROVE UploadOf(u)'
      <3>1. UNCHANGED <<managerVars, connectVars, historyVars>> /\ (Is(u) => Is(u)')
        BY <1>1, <2>3, SetActiveFacts DEF Is
      <3> QED  BY <2>1, <3>1
    <2>4. ASSUME NEW v \in Vehicles, VehicleGoes(v) PROVE UploadOf(u)'
      <3>1. /\ Is(u)' <=> Is(u) /\ u # v
            /\ \A x \in Vehicles : stateIndex'[x] = IF x = v THEN 0 ELSE stateIndex[x]
            /\ uploadTo' = IF uploadTo = v THEN NoVehicle ELSE uploadTo
            /\ uploading' = NotDrawn
        BY <1>1, <2>4, VehicleGoesFacts
      <3>2. u # v /\ uploadTo = u
        BY <1>4, <3>1, ElementFacts
      <3>3. UploadOf(u)
        BY <3>2, UplFacts DEF Upl
      <3>4. \A x \in Supports[u] : uploading'[x] = {}
        BY <3>1, NotDrawnFacts, UplFacts
      <3> QED  BY <3>1, <3>2, <3>3, <3>4, NoneArrives DEF UploadOf
    <2> QED  BY <2>2, <2>3, <2>4 DEF VehiclesComeAndGo
  <1> QED  BY <1>3, <1>4, UplKept

LEMMA ToldUpl ==
    ASSUME UplInv, NEW w \in Views, ActiveVehicleChanged(w)
    PROVE  Upl'
  <1>1. Told(w) /\ FlagInv
    BY ToldFacts, UplFacts
  <1>2. chain["Plan"] = {} /\ (\A x : ~ToCome(x))
        /\ UNCHANGED <<chain, connected, transfer, stored, uploadTo, uploading, failed>>
    BY <1>1, ToldNoFlags, UplFacts DEF Told, managerVars, historyVars
  <1>3. stateIndex' = stateIndex
    BY <1>1 DEF Told, Takes, Showing, connectVars
  <1>4. ASSUME NEW u \in Vehicles, uploadTo = u PROVE UploadOf(u)'
    <2>1. Is(u)'
      BY <1>2, <1>4, UplFacts DEF Upl, UploadOf, Is
    <2> QED  BY <1>2, <1>3, <1>4, <2>1, UploadOfKept
  <1> QED  BY <1>2, <1>4, UplKept

(* A slot that starts reading at most and leaves the elements to come alone.  *)
LEMMA SlotUpl ==
    ASSUME UplInv, SlotSteady, UNCHANGED chain,
           \A c \in Slots' : c \in Slots \/ \A x : ~Replaces(c, x),
           UNCHANGED managerVars,
           \A x \in Elements : ToCome(x) => items'["Plan"][x] = items["Plan"][x]
    PROVE  Upl'
  <1>1. UNCHANGED <<connected, activeVehicle, prompting, stateIndex, uploadTo, uploading, failed>>
        /\ UNCHANGED <<transfer, stored>>
    BY DEF SlotSteady, connectVars, historyVars, managerVars
  <1>2. ASSUME NEW v \in Vehicles, uploadTo = v PROVE UploadOf(v)'
    <2>1. Is(v)'
      BY <1>1, <1>2, UplFacts DEF Upl, UploadOf, Is
    <2> QED  BY <1>1, <1>2, <2>1, UploadOfKept
  <1> QED  BY <1>1, <1>2, UplKept

(* The one flag of the plan view is taken.                                    *)
LEMMA TakenFacts ==
    ASSUME UplInv, NEW w \in Views, NEW e \in {"mission", "fence"},
           NEW flag \in {LoadFlag, SendFlag}, flag[e] \in chain[w], Traded(w, flag, e)
    PROVE  /\ w = "Plan" /\ chain["Plan"] = {flag[e]} /\ Goes(flag[e])
           /\ chain'["Plan"] = IF e = "mission" THEN {flag["fence"]} ELSE {}
           /\ flag = LoadFlag => \A x : ~ToCome(x) /\ ~ToCome(x)'
           /\ flag = SendFlag =>
                 /\ uploadTo = activeVehicle
                 /\ \A x : ToCome(x) <=> x \in After(e)
                 /\ \A x : ToCome(x)' <=> e = "mission" /\ x \in After("fence")
  <1>1. Flags /\ Upl /\ "Plan" \in Views
    BY UplFacts
  <1>2. w = "Plan"
    BY <1>1 DEF Flags, Views
  <1>3. chain["Plan"] = {flag[e]} /\ Goes(flag[e])
    BY <1>1, <1>2 DEF Flags
  <1>4. chain'["Plan"] = IF e = "mission" THEN {flag["fence"]} ELSE {}
    BY <1>2, <1>3 DEF Traded
  <1>5. ASSUME flag = LoadFlag PROVE \A x : ~ToCome(x) /\ ~ToCome(x)'
    BY <1>3, <1>4, <1>5, FlagFacts DEF ToCome
  <1>6. ASSUME flag = SendFlag
        PROVE  /\ uploadTo = activeVehicle
               /\ \A x : ToCome(x) <=> x \in After(e)
               /\ \A x : ToCome(x)' <=> e = "mission" /\ x \in After("fence")
    <2>1. FlagOp[flag[e]] = "Write" /\ FlagElement[flag[e]] = e
          /\ FlagOp[flag["fence"]] = "Write" /\ FlagElement[flag["fence"]] = "fence"
      BY <1>6, FlagFacts
    <2>2. uploadTo = activeVehicle /\ \A x : ToCome(x) <=> x \in After(e)
      BY <1>1, <1>3, <2>1 DEF Upl, ToCome
    <2>3. \A x : ToCome(x)' <=> e = "mission" /\ x \in After("fence")
      BY <1>4, <2>1 DEF ToCome, After
    <2> QED  BY <2>2, <2>3
  <1> QED  BY <1>2, <1>3, <1>4, <1>5, <1>6

(* A sequence goes on: what is to come of it, and what the active vehicle's   *)
(* managers do.                                                               *)
LEMMA GoesOnUpl ==
    ASSUME UplInv, SlotSteady,
           \A x : ToCome(x)' => ToCome(x),
           \A c \in Slots' : c \in Slots \/ \A x : ~Replaces(c, x),
           \A f \in chain'["Plan"] : FlagOp[f] = "Write" => uploadTo = activeVehicle,
           chain'["Plan"] # {} => ~prompting,
           \A u \in Vehicles : uploadTo = u =>
              \A x \in Supports[u] : Arrives(u, x) => Arrives(u, x)'
    PROVE  Upl'
  <1>1. UNCHANGED <<connected, activeVehicle, prompting, stateIndex, uploadTo>>
    BY DEF SlotSteady, connectVars, historyVars
  <1>2. Upl
    BY UplFacts
  <1>3. \A c \in Slots' : \A x : Replaces(c, x)' => ~ToCome(x)'
    BY <1>2 DEF Upl, Replaces
  <1>4. ASSUME NEW v \in Vehicles, uploadTo' = v PROVE UploadOf(v)'
    <2>1. uploadTo = v /\ UploadOf(v)
      BY <1>1, <1>2, <1>4 DEF Upl
    <2>2. \A x \in Supports[v] : Arrives(v, x)'
      BY <2>1 DEF UploadOf
    <2> QED  BY <1>1, <2>1, <2>2 DEF UploadOf, Is
  <1> QED  BY <1>1, <1>3, <1>4 DEF Upl

LEMMA LoadCompleteUpl ==
    ASSUME UplInv, NEW w \in Views, NEW e \in Elements, NEW error \in BOOLEAN,
           LoadComplete(w, e, error)
    PROVE  Upl'
  <1>1. Base /\ Upl
    BY UplFacts
  <1>2. Loaded(w, e, error) /\ SlotSteady
    BY <1>1, LoadCompleteFacts
  <1>3. CASE NothingMore
    BY <1>2, <1>3, SlotUpl DEF NothingMore, Popped
  <1>4. CASE /\ e \in {"mission", "fence"} /\ LoadFlag[e] \in chain[w]
             /\ Traded(w, LoadFlag, e)
             /\ LoadsNext(w, NextElement[e]) \/ SkipsLoad(w, NextElement[e], error)
    <2> DEFINE n == NextElement[e]
    <2>1. /\ w = "Plan" /\ chain["Plan"] = {LoadFlag[e]}
          /\ chain'["Plan"] = IF e = "mission" THEN {LoadFlag["fence"]} ELSE {}
          /\ \A x : ~ToCome(x) /\ ~ToCome(x)'
      BY <1>4, TakenFacts
    <2>2. LoadsNext(w, n) \/ SkipsLoad(w, n, error)
      BY <1>4
    <2>3. n \in Elements
      BY <1>4, NextFacts
    <2> HIDE DEF n
    <2>4. \A f \in chain'["Plan"] : FlagOp[f] = "Read"
      BY <2>1, FlagFacts
    <2>5. ~prompting
      BY <1>1, <2>1 DEF Upl
    <2>6. \A c \in Slots' : c \in Slots \/ \A x : ~Replaces(c, x)
      <3>1. "loadComplete" \in ViewSlotNames
        BY DEF ViewSlotNames
      <3>2. \A x : ~Replaces(Call("loadComplete", w, n, error), x)
        BY <2>3, <3>1, SlotCallFacts DEF Replaces
      <3> QED  BY <2>2, <3>2 DEF LoadsNext, SkipsLoad, Popped, Replaced
    <2>7. UNCHANGED managerVars \/ Started(activeVehicle, {n}, Reading)
      BY <2>2 DEF LoadsNext, SkipsLoad
    <2>8. UNCHANGED <<uploading, failed>>
      BY <1>2 DEF SlotSteady, historyVars
    <2>9. ASSUME NEW u \in Vehicles, NEW x \in Supports[u], Arrives(u, x) PROVE Arrives(u, x)'
      <3>1. x \in Elements
        BY <2>9, UplFacts
      <3>2. stored'[u][x] = stored[u][x]
            /\ \/ transfer'[u][x] = transfer[u][x]
               \/ transfer[u][x] = Nothing /\ transfer'[u][x].op \notin {"Write", "RemoveAll"}
        BY <2>7, <3>1, TransferFacts DEF managerVars, Started
      <3> QED  BY <2>1, <2>8, <2>9, <3>2, ArrivesKept
    <2> QED  BY <1>2, <2>1, <2>4, <2>5, <2>6, <2>9, GoesOnUpl
  <1> QED  BY <1>2, <1>3, <1>4 DEF Loaded

LEMMA SendCompleteUpl ==
    ASSUME UplInv, NEW w \in Views, NEW e \in Elements, NEW error \in BOOLEAN,
           SendComplete(w, e, error)
    PROVE  Upl'
  <1>1. Base /\ Upl
    BY UplFacts
  <1>2. Sent(w, e, error) /\ SlotSteady
    BY <1>1, SendCompleteFacts
  <1>3. CASE NothingMore
    BY <1>2, <1>3, SlotUpl DEF NothingMore, Popped
  <1>4. CASE /\ e \in {"mission", "fence"} /\ SendFlag[e] \in chain[w]
             /\ Traded(w, SendFlag, e)
             /\ SendsNext(w, NextElement[e]) \/ SkipsSend(w, NextElement[e], error)
             /\ items' = items
    <2> DEFINE n == NextElement[e]
               t == Writing(items["Plan"][n])
    <2>1. /\ w = "Plan" /\ chain["Plan"] = {SendFlag[e]} /\ Goes(SendFlag[e])
          /\ chain'["Plan"] = IF e = "mission" THEN {SendFlag["fence"]} ELSE {}
          /\ uploadTo = activeVehicle
          /\ \A x : ToCome(x) <=> x \in After(e)
          /\ \A x : ToCome(x)' <=> e = "mission" /\ x \in After("fence")
      BY <1>4, TakenFacts
    <2>2. SendsNext(w, n) \/ SkipsSend(w, n, error)
      BY <1>4
    <2>3. /\ n \in Elements
          /\ \A x : ToCome(x) => ToCome(x)' \/ x = n
          /\ \A x : ToCome(x)' => ToCome(x)
          /\ ToCome(n)
      BY <1>4, <2>1, NextFacts, FlagFacts
    <2>4. t.op = "Write" /\ t.items = items["Plan"][n]
      BY TransferFacts
    <2>5. SendsNext(w, n) => Popped /\ Started(activeVehicle, {n}, t)
      BY <2>1 DEF SendsNext
    <2> HIDE DEF n, t
    <2>6. ~prompting
      BY <1>1, <2>1 DEF Upl
    <2>7. \A c \in Slots' : c \in Slots \/ \A x : ~Replaces(c, x)
      <3>1. "sendComplete" \in ViewSlotNames
        BY DEF ViewSlotNames
      <3>2. \A x : ~Replaces(Call("sendComplete", w, n, error), x)
        BY <2>3, <3>1, SlotCallFacts DEF Replaces
      <3> QED  BY <2>2, <3>2 DEF SendsNext, SkipsSend, Popped, Replaced
    <2>8. UNCHANGED managerVars \/ Started(activeVehicle, {n}, t)
      BY <2>2, <2>5 DEF SkipsSend
    <2>9. UNCHANGED <<uploading, failed>>
      BY <1>2 DEF SlotSteady, historyVars
    <2>10. ASSUME NEW u \in Vehicles, NEW x \in Supports[u], uploadTo = u, Arrives(u, x)
           PROVE  Arrives(u, x)'
      <3>1. x \in Elements
        BY <2>10, UplFacts
      <3>2. CASE x # n
        <4>1. stored'[u][x] = stored[u][x] /\ transfer'[u][x] = transfer[u][x]
          BY <2>8, <3>1, <3>2 DEF managerVars, Started
        <4>2. ToCome(x)' <=> ToCome(x)
          BY <2>3, <3>2
        <4> QED  BY <1>4, <2>9, <2>10, <4>1, <4>2, ArrivesKept
      <3>3. CASE x = n
        <4>1. u = activeVehicle /\ SendsNext(w, n)
          BY <2>1, <2>2, <2>10, <3>3 DEF SkipsSend
        <4>2. transfer[u][n] = Nothing
          <5>1. n \in After(e) /\ FlagElement[SendFlag[e]] = e
            BY <1>4, <2>1, <2>3, FlagFacts
          <5> QED  BY <2>1, <4>1, <5>1 DEF Goes, inProgress
        <4>3. transfer'[u][n] = t
          BY <2>3, <2>5, <4>1, <4>2 DEF Started
        <4>4. uploading[n] \subseteq {items["Plan"][n]}
          BY <2>3, <2>10, <3>3 DEF Arrives
        <4>5. ~ToCome(n)'
          BY <1>4, <2>1, FlagFacts, NextFacts DEF n
        <4> QED  BY <2>4, <2>9, <3>3, <4>3, <4>4, <4>5 DEF Arrives
      <3> QED  BY <3>2, <3>3
    <2> QED  BY <1>2, <2>1, <2>3, <2>6, <2>7, <2>10, GoesOnUpl
  <1> QED  BY <1>2, <1>3, <1>4 DEF Sent

(* A controller's slot changes no element the plan view is to send yet.       *)
LEMMA ShownUpl ==
    ASSUME UplInv, NEW slot \in {"newItems"} \cup ManagerSlots, NEW w \in Views, NEW e \in Elements,
           NEW error \in BOOLEAN, NEW shows, Running(Call(slot, w, e, error)), SlotSteady,
           ShownOrNot(w, e, shows),
           shows => w = "Fly" \/ slot # "managerSendComplete"
    PROVE  Upl'
  <1>1. /\ Slots' \subseteq Slots /\ UNCHANGED managerVars /\ chain' = chain
        /\ Base /\ Upl /\ slot \in ViewSlotNames
    BY UplFacts DEF ShownOrNot, Popped, ManagerSlots, ViewSlotNames
  <1>2. ASSUME NEW x \in Elements, ToCome(x) PROVE items'["Plan"][x] = items["Plan"][x]
    <2>1. CASE ~shows \/ w = "Fly" \/ x # e
      BY <1>2, <2>1, UplFacts DEF ShownOrNot, Shown
    <2>2. CASE w = "Plan" /\ x = e /\ slot # "managerSendComplete"
      <3>1. Call(slot, w, e, error) \in Slots
        BY <1>1, TransferCallRuns
      <3>2. Replaces(Call(slot, w, e, error), x)
        BY <1>1, <2>2, SlotCallFacts DEF Replaces, ManagerSlots
      <3> QED  BY <1>1, <1>2, <3>1, <3>2 DEF Upl
    <2> QED  BY <2>1, <2>2 DEF Views
  <1> QED  BY <1>1, <1>2, SlotUpl

(* A transfer ends: the vehicle has the element or the transfer has failed.   *)
LEMMA EndsUpl ==
    ASSUME UplInv, NEW v \in Vehicles, NEW e \in Elements, NEW ok \in BOOLEAN,
           TransferEnds(v, e, ok)
    PROVE  Upl'
  <1> DEFINE t == transfer[v][e]
             op == t.op
             err == ~ok
  <1>1. /\ calls = <<>>
        /\ Heard(v, e, op, err)
        /\ failed' = IF op \notin {"Write", "RemoveAll"} THEN failed
                     ELSE IF ok THEN failed \ {<<v, e>>} ELSE failed \cup {<<v, e>>}
        /\ UNCHANGED <<connectVars, connected, activeVehicle, masterVars, uploadTo, uploading>>
    BY EndsFacts, UplFacts
  <1>2. /\ Base /\ Upl /\ Flags
        /\ UNCHANGED <<chain, managerVehicle, items, prompting, stateIndex>>
    BY <1>1, UplFacts DEF connectVars, masterVars
  <1>3. PICK c \in Contents : Ended(v, e, ok, c)
    BY EndsFacts, UplFacts
  <1>4. /\ t # Nothing
        /\ op \notin {"Write", "RemoveAll"} => c = stored[v][e]
        /\ op = "Write" /\ ok => c = t.items
        /\ \A u \in Vehicles, x \in Elements :
              /\ transfer'[u][x] = IF u = v /\ x = e THEN Nothing ELSE transfer[u][x]
              /\ stored'[u][x] = IF u = v /\ x = e THEN c ELSE stored[u][x]
    BY <1>3 DEF Ended
  <1>5. ASSUME NEW d \in Slots', NEW x, Replaces(d, x) PROVE ~ToCome(x)
    <2>1. d # FirstLoadOf(v, e)
      BY <1>5, MachineCallFacts, CallKinds DEF Replaces
    <2>2. PICK w \in Views : managerVehicle[w] = v /\ ViewHears(w, e, op, err, d)
      BY <1>1, <2>1 DEF Heard
    <2>3. activeVehicle = v /\ x = e
      BY <1>1, <1>2, <1>5, <2>2, Settles DEF ViewHears, Replaces
    <2>4. ASSUME NEW f \in chain["Plan"], e \in After(FlagElement[f]) PROVE FALSE
      <3>1. ~inProgress(v, e)
        BY <1>2, <2>3, <2>4 DEF Flags, Goes
      <3> QED  BY <1>4, <3>1 DEF inProgress
    <2> QED  BY <2>3, <2>4 DEF ToCome
  <1>6. \A x : ToCome(x)' <=> ToCome(x)
    BY <1>2 DEF ToCome
  <1>7. ASSUME NEW u \in Vehicles, NEW x \in Supports[u], Arrives(u, x) PROVE Arrives(u, x)'
    <2>1. x \in Elements
      BY <1>7, UplFacts
    <2>2. CASE ~(u = v /\ x = e)
      <3>1. transfer'[u][x] = transfer[u][x] /\ stored'[u][x] = stored[u][x]
        BY <1>4, <2>1, <2>2
      <3>2. <<u, x>> # <<v, e>>
        BY <2>2
      <3>3. <<u, x>> \in failed => <<u, x>> \in failed'
        BY <1>1, <3>2
      <3> QED  BY <1>1, <1>2, <1>6, <1>7, <3>1, <3>3, ArrivesKept
    <2>3. CASE u = v /\ x = e
      <3>1. transfer'[u][x] = Nothing /\ stored'[u][x] = c /\ transfer[u][x] = t
        BY <1>4, <2>1, <2>3
      <3>2. uploading' = uploading /\ (ToCome(x) => uploading[x] \subseteq {items'["Plan"][x]})
        BY <1>1, <1>2, <1>7 DEF Arrives
      <3>3. uploading[x] \subseteq {c} \/ <<u, x>> \in failed' \/ ToCome(x)
        <4>1. CASE op = "Write" /\ ok
          BY <1>4, <1>7, <2>3, <4>1 DEF Arrives
        <4>2. CASE op = "Write" /\ ~ok
          BY <1>1, <2>3, <4>2
        <4>3. CASE op = "RemoveAll"
          BY <1>7, <2>3, <4>3 DEF Arrives
        <4>4. CASE op \notin {"Write", "RemoveAll"}
          BY <1>1, <1>4, <1>7, <2>3, <4>4 DEF Arrives
        <4> QED  BY <4>1, <4>2, <4>3, <4>4
      <3>4. Nothing.op = "None"
        BY TransferFacts
      <3> QED  BY <1>6, <3>1, <3>2, <3>3, <3>4 DEF Arrives
    <2> QED  BY <2>2, <2>3
  <1>8. ASSUME NEW u \in Vehicles, uploadTo' = u PROVE UploadOf(u)'
    <2>1. UploadOf(u)
      BY <1>1, <1>2, <1>8 DEF Upl
    <2> QED  BY <1>1, <1>2, <1>7, <2>1 DEF UploadOf, Is
  <1>9. \A d \in Slots' : \A x : Replaces(d, x)' => ~ToCome(x)'
    BY <1>5, <1>6 DEF Replaces
  <1> QED  BY <1>1, <1>2, <1>8, <1>9 DEF Upl

(* The user's requests.                                                       *)
LEMMA UploadUpl ==
    ASSUME UplInv, "requests" \notin Disturbances, Upload
    PROVE  Upl'
  <1> DEFINE t == Writing(items["Plan"]["mission"])
  <1>1. /\ Asked /\ Idle(activeVehicle)
        /\ chain'["Plan"] = chain["Plan"] \cup {"sendGeoFence"}
        /\ Started(activeVehicle, {"mission"}, t)
        /\ uploadTo' = activeVehicle
        /\ uploading' = [e \in Elements |-> {items["Plan"][e]}]
        /\ items' = items
    BY UploadFacts, UplFacts
  <1>2. t.op = "Write" /\ t.items = items["Plan"]["mission"] /\ Nothing.op = "None"
    BY TransferFacts
  <1> HIDE DEF t
  <1>3. /\ calls = <<>> /\ activeVehicle \in Vehicles /\ Is(activeVehicle)
        /\ stateIndex[activeVehicle] = Finished /\ ~prompting
        /\ UNCHANGED <<calls, connected, activeVehicle, stateIndex, prompting>>
    BY <1>1 DEF Asked, RequestSteady, connectVars
  <1>4. Slots' = {}
    BY <1>3, StillQuiet
  <1>5. chain'["Plan"] = {"sendGeoFence"}
    BY <1>1, <1>3, IdleNoFlags, UplFacts
  <1>6. \A x : ToCome(x)' <=> x \in {"fence", "rally"}
    BY <1>5, FlagFacts DEF ToCome, After, FlagElement, FlagOp
  <1>7. PICK a \in Vehicles : a = activeVehicle
    BY <1>3
  <1>8. ASSUME NEW x \in Supports[a] PROVE Arrives(a, x)'
    <2>1. x \in {"mission", "fence", "rally"} /\ x \in Elements
      BY <1>8, ElementFacts
    <2>2. uploading'[x] = {items["Plan"][x]}
      BY <1>1, <2>1
    <2>3. transfer'[a][x] = IF x = "mission" THEN t ELSE Nothing
      BY <1>1, <1>7, <2>1 DEF Started, Idle, inProgress
    <2> QED  BY <1>1, <1>2, <1>6, <2>1, <2>2, <2>3 DEF Arrives
  <1>9. UploadOf(a)'
    BY <1>3, <1>7, <1>8 DEF UploadOf, Is
  <1> QED  BY <1>1, <1>3, <1>4, <1>7, <1>9 DEF Upl

LEMMA DownloadUpl ==
    ASSUME UplInv, Download
    PROVE  Upl'
  <1>1. /\ Asked /\ Idle(activeVehicle) /\ uploadTo' = NoVehicle
        /\ chain'["Plan"] = chain["Plan"] \cup {"loadGeoFence"}
    BY DownloadFacts, UplFacts
  <1>2. /\ calls = <<>> /\ activeVehicle \in Vehicles /\ ~prompting
        /\ UNCHANGED <<calls, prompting>>
    BY <1>1 DEF Asked, RequestSteady
  <1>3. Slots' = {}
    BY <1>2, StillQuiet
  <1>4. chain'["Plan"] = {"loadGeoFence"}
    BY <1>1, <1>2, IdleNoFlags, UplFacts
  <1>5. FlagOp["loadGeoFence"] = "Read"
    BY DEF FlagOp
  <1> QED  BY <1>1, <1>2, <1>3, <1>4, <1>5, ElementFacts DEF Upl

LEMMA RemoveAllUpl ==
    ASSUME UplInv, "requests" \notin Disturbances, NEW w \in Views, NEW kind,
           RemoveAllFromVehicle(w, kind)
    PROVE  Upl'
  <1>1. /\ Asked /\ Idle(activeVehicle) /\ uploading' = NotDrawn /\ UNCHANGED <<chain, uploadTo>>
    BY RemoveAllRequestFacts, UplFacts
  <1>2. /\ calls = <<>> /\ activeVehicle \in Vehicles
        /\ UNCHANGED <<connected, stateIndex>>
    BY <1>1 DEF Asked, RequestSteady, connectVars
  <1>3. chain["Plan"] = {}
    BY <1>1, <1>2, IdleNoFlags, UplFacts
  <1>4. ASSUME NEW v \in Vehicles, uploadTo' = v PROVE UploadOf(v)'
    <2>1. UploadOf(v)
      BY <1>1, <1>4, UplFacts DEF Upl
    <2>2. \A x \in Supports[v] : uploading'[x] = {}
      BY <1>1, NotDrawnFacts, UplFacts
    <2> QED  BY <1>2, <2>1, <2>2, NoneArrives DEF UploadOf, Is
  <1> QED  BY <1>1, <1>3, <1>4, UplKept

LEMMA FlyMissionUpl ==
    ASSUME UplInv, NEW kind, NEW t \in FlyTransfers, FlyMission(kind, t)
    PROVE  Upl'
  <1>1. /\ Asked
        /\ Started(activeVehicle, {"mission"}, t)
        /\ uploading'["mission"] = {}
        /\ \A e \in Elements : e # "mission" => uploading'[e] = uploading[e]
        /\ UNCHANGED <<chain, items, uploadTo>>
    BY FlyMissionFacts, UplFacts
  <1>2. /\ calls = <<>>
        /\ UNCHANGED <<calls, connected, activeVehicle, stateIndex, prompting, failed>>
    BY <1>1 DEF Asked, RequestSteady, connectVars
  <1>3. Slots' = {}
    BY <1>2, StillQuiet
  <1>4. \A x : ToCome(x)' <=> ToCome(x)
    BY <1>1 DEF ToCome
  <1>5. ASSUME NEW v \in Vehicles, uploadTo' = v PROVE UploadOf(v)'
    <2>1. UploadOf(v)
      BY <1>1, <1>5, UplFacts DEF Upl
    <2>2. ASSUME NEW x \in Supports[v] PROVE Arrives(v, x)'
      <3>1. CASE x = "mission"
        BY <1>1, <3>1, NoneArrives
      <3>2. CASE x # "mission"
        <4>1. x \in Elements /\ Arrives(v, x)
          BY <2>1, <2>2, UplFacts DEF UploadOf
        <4>2. transfer'[v][x] = transfer[v][x] /\ stored' = stored
          BY <1>1, <3>2, <4>1 DEF Started
        <4> QED  BY <1>1, <1>2, <1>4, <3>2, <4>1, <4>2, ArrivesKept
      <3> QED  BY <3>1, <3>2
    <2> QED  BY <1>2, <2>1, <2>2 DEF UploadOf, Is
  <1> QED  BY <1>1, <1>2, <1>3, <1>5, UplKept

LEMMA UserRequestUpl ==
    ASSUME UplInv, "requests" \notin Disturbances, UserRequest
    PROVE  Upl'
  <1>1. CASE Resume
    BY <1>1, ResumeFacts, FlyMissionUpl, UplFacts
  <1>2. "Plan" \in Views /\ "Fly" \in Views /\ GuidedItem \in FlyTransfers
    BY DEF Views, FlyTransfers
  <1> QED  BY <1>1, <1>2, UploadUpl, DownloadUpl, RemoveAllUpl, FlyMissionUpl DEF UserRequest

(* A step that leaves the calls, the flags and the transfers alone.           *)
LEMMA UserEditUpl ==
    ASSUME UplInv, Drawing \/ Replied
    PROVE  Upl'
  <1>1. /\ UNCHANGED <<calls, connected, activeVehicle, chain, failed, uploadTo>>
        /\ UNCHANGED <<transfer, stored>>
    BY DEF Drawing, Edited, Replied, EditSteady, managerVars
  <1>2. stateIndex' = stateIndex /\ (prompting' => prompting)
    <2>1. stateIndex' = stateIndex
      BY DEF Drawing, Edited, Replied, TakesOver, Keeps, Showing, connectVars
    <2>2. prompting' = prompting \/ prompting' = FALSE
      BY DEF Drawing, Edited, Replied
    <2> QED  BY <2>1, <2>2
  <1>3. Slots' = Slots
    BY <1>1 DEF Slots, Entries
  <1>4. ASSUME NEW v \in Vehicles, uploadTo' = v PROVE UploadOf(v)'
    <2>1. UploadOf(v) /\ uploadTo = v
      BY <1>1, <1>4, UplFacts DEF Upl
    <2>2. Is(v)'
      BY <1>1, <2>1 DEF UploadOf, Is
    <2>3. CASE Drawing
      <3>1. \A x \in Supports[v] : uploading'[x] = {}
        BY <2>3, NotDrawnFacts, UplFacts DEF Drawing, Edited
      <3> QED  BY <1>2, <2>1, <2>2, <3>1, NoneArrives DEF UploadOf
    <2>4. CASE Replied
      <3>1. uploading' = uploading /\ \A x : ~ToCome(x)
        BY <2>4, UplFacts DEF Replied, Upl
      <3> QED  BY <1>1, <1>2, <2>1, <2>2, <3>1, UploadOfKept
    <2> QED  BY <2>3, <2>4
  <1> QED  BY <1>1, <1>2, <1>3, <1>4, UplKept

LEMMA StutterUpl ==
    ASSUME UplInv, UNCHANGED vars
    PROVE  Upl'
  <1>1. /\ UNCHANGED <<calls, connected, activeVehicle, chain, items, prompting, failed, uploadTo,
                       uploading, stateIndex, transfer, stored>>
    BY DEF vars, managerVars, connectVars, masterVars, historyVars
  <1>2. Slots' = Slots
    BY <1>1 DEF Slots, Entries
  <1>3. ASSUME NEW v \in Vehicles, uploadTo = v PROVE UploadOf(v)'
    <2>1. Is(v)'
      BY <1>1, <1>3, UplFacts DEF Upl, UploadOf, Is
    <2> QED  BY <1>1, <1>3, <2>1, UploadOfKept
  <1> QED  BY <1>1, <1>2, <1>3, UplKept

LEMMA StepUpl ==
    ASSUME {"vehicles", "requests"} \cap Disturbances = {}, UplInv, [Next]_vars
    PROVE  UplInv'
  <1>1. Base /\ FlagInv
    BY UplFacts
  <1>2. FlagInv' /\ "vehicles" \notin Disturbances /\ "requests" \notin Disturbances
    BY <1>1, StepFlags
  <1> SUFFICES Upl'
    BY <1>2 DEF UplInv
  <1>3. CASE ConnectMachine
    BY <1>1, <1>3, MachineMoves, MovesUpl
  <1>4. CASE VehiclesComeAndGo
    BY <1>2, <1>4, FleetUpl
  <1>5. CASE ViewSlots
    <2>1. PICK w \in Views :
            \/ ActiveVehicleChanged(w)
            \/ \E e \in Elements, error \in BOOLEAN :
                  \/ LoadComplete(w, e, error)
                  \/ SendComplete(w, e, error)
                  \/ NewItems(w, e, error)
                  \/ ManagerComplete("managerSendComplete", w, e, error)
                  \/ ManagerComplete("managerRemoveAllComplete", w, e, error)
      BY <1>5 DEF ViewSlots
    <2>2. CASE ActiveVehicleChanged(w)
      BY <2>2, ToldUpl
    <2>3. ASSUME NEW e \in Elements, NEW error \in BOOLEAN, LoadComplete(w, e, error) PROVE Upl'
      BY <2>3, LoadCompleteUpl
    <2>4. ASSUME NEW e \in Elements, NEW error \in BOOLEAN, SendComplete(w, e, error) PROVE Upl'
      BY <2>4, SendCompleteUpl
    <2>5. ASSUME NEW e \in Elements, NEW error \in BOOLEAN, NewItems(w, e, error) PROVE Upl'
      <3> DEFINE shows == w = "Fly" \/ e \in itemsRequested[w] \/ items[w][e] = NoItems
      <3>1. ShownOrNot(w, e, shows) /\ Running(Call("newItems", w, e, error)) /\ SlotSteady
        BY <1>1, <2>5, NewItemsFacts
      <3> HIDE DEF shows
      <3> QED  BY <3>1, ShownUpl DEF ManagerSlots
    <2>6. ASSUME NEW slot \in ManagerSlots, NEW e \in Elements, NEW error \in BOOLEAN,
                 ManagerComplete(slot, w, e, error)
          PROVE  Upl'
      <3> DEFINE shows == Refreshes(slot, w, e, error)
      <3>1. ShownOrNot(w, e, shows) /\ Running(Call(slot, w, e, error)) /\ SlotSteady
        BY <1>1, <2>6, ManagerCompleteFacts
      <3>2. shows => w = "Fly" \/ slot # "managerSendComplete"
        BY DEF Refreshes, ShowsAfter
      <3> HIDE DEF shows
      <3> QED  BY <3>1, <3>2, ShownUpl
    <2>7. ASSUME NEW e \in Elements, NEW error \in BOOLEAN,
                 \/ ManagerComplete("managerSendComplete", w, e, error)
                 \/ ManagerComplete("managerRemoveAllComplete", w, e, error)
          PROVE  Upl'
      BY <2>6, <2>7 DEF ManagerSlots
    <2> QED  BY <2>1, <2>2, <2>3, <2>4, <2>5, <2>7
  <1>6. CASE SomeTransferEnds
    BY <1>6, EndsUpl DEF SomeTransferEnds
  <1>7. CASE UserRequest
    BY <1>2, <1>7, UserRequestUpl
  <1>8. CASE UserEdit
    BY <1>1, <1>8, UserEdits, UserEditUpl
  <1>9. CASE UNCHANGED vars
    BY <1>9, StutterUpl
  <1> QED  BY <1>3, <1>4, <1>5, <1>6, <1>7, <1>8, <1>9 DEF Next

LEMMA UplInvImplies ==
    ASSUME UplInv
    PROVE  UploadArrives
  <1> DEFINE v == uploadTo
  <1> SUFFICES ASSUME v # NoVehicle, Quiet(v), NEW e \in Supports[v]
               PROVE  uploading[e] \subseteq {stored[v][e]} \/ <<v, e>> \in failed
    BY DEF UploadArrives
  <1>1. /\ Base /\ Upl /\ Flags /\ v \in Vehicles /\ e \in Elements
        /\ calls = <<>> /\ \A x \in Elements : transfer[v][x] = Nothing
    BY UplFacts DEF Quiet, inProgress, Base, Types, HistoryType
  <1> HIDE DEF v
  <1>2. Arrives(v, e)
    BY <1>1 DEF Upl, UploadOf, v
  <1>3. ~ToCome(e)
    <2> SUFFICES ASSUME NEW f \in chain["Plan"], FlagOp[f] = "Write" PROVE FALSE
      BY DEF ToCome
    <2>1. Goes(f) /\ v = activeVehicle /\ f \in Chain
      BY <1>1, UplFacts DEF Upl, Flags, v
    <2>2. ~PlanCall(FlagSlot[f], FlagElement[f])
      BY <1>1, NoSlots DEF PlanCall
    <2>3. transfer[v][FlagElement[f]].op = "Write" /\ FlagElement[f] \in Elements
      BY <2>1, <2>2, FlagFacts DEF Goes, Elements
    <2> QED  BY <1>1, <2>3, TransferFacts
  <1>4. transfer[v][e].op # "Write"
    BY <1>1, TransferFacts
  <1> QED  BY <1>2, <1>3, <1>4 DEF Arrives

(* When an upload is over the vehicle has every element of the plan that it   *)
(* supports, as it was when the user asked, but for those whose transfer      *)
(* failed: unless vehicles come and go, or the user asks for something else,  *)
(* in the middle of it.                                                       *)
THEOREM UploadArrivesHolds ==
    ASSUME {"vehicles", "requests"} \cap Disturbances = {}
    PROVE  Spec => []UploadArrives
  <1>1. UplInv /\ [Next]_vars => UplInv'
    BY StepUpl
  <1>2. UplInv => UploadArrives
    BY UplInvImplies
  <1> QED  BY <1>1, <1>2, InitUpl, PTL DEF Spec

-----------------------------------------------------------------------------
(* The user's drawing stays in the plan view.                                 *)

(* A slot about to run that takes the plan view's request for element x back. *)
Clears(c, x) ==
    /\ c \in TransferCalls /\ c.of = "Plan" /\ c.element = x
    /\ c.slot = "newItems" \/ (c.slot = "managerRemoveAllComplete" /\ ~c.error)
Requested(x) ==
    /\ activeVehicle \in Vehicles
    /\ \/ transfer[activeVehicle][x].op \in {"Read", "RemoveAll"}
       \/ \E c \in Slots : Clears(c, x)

(* The user is asked while at most the vehicle's first plan is loaded.        *)
PromptsAlone ==
    prompting =>
        /\ chain["Plan"] = {}
        /\ activeVehicle \in Vehicles =>
              \A x \in Elements : transfer[activeVehicle][x] \in {Nothing, Reading}
DrawnKept ==
    \A x \in Elements : drawn[x] # {} =>
        items["Plan"][x] \in drawn[x] /\ dirty["Plan"][x] /\ NoItems \notin drawn[x]
(* With something drawn nothing is under way that would replace it.           *)
DrawnAlone ==
    drawn # NotDrawn =>
        /\ chain["Plan"] = {} /\ itemsRequested["Plan"] = {}
        /\ activeVehicle \in Vehicles =>
              \A x \in Elements : transfer[activeVehicle][x].op # "RemoveAll"
        /\ \A c \in Slots : c.slot # "managerRemoveAllComplete"
RequestsOpen == \A x \in itemsRequested["Plan"] : Requested(x)
(* A removal has been done when its end is told, and nothing else is.         *)
RemovalsDone ==
    \A c \in Slots : c.slot = "managerRemoveAllComplete" =>
        \A d \in Slots :
            d.slot = "managerRemoveAllComplete" /\ ~d.error /\ ~inProgress(activeVehicle, d.element)
Edits == PromptsAlone /\ DrawnKept /\ DrawnAlone /\ RequestsOpen /\ RemovalsDone
EditInv == FlagInv /\ FlyInv /\ Edits

LEMMA EditFacts ==
    ASSUME EditInv
    PROVE  /\ Base /\ Types /\ Flags /\ Fly /\ FlagInv /\ FlyInv
           /\ PromptsAlone /\ DrawnKept /\ DrawnAlone /\ RequestsOpen /\ RemovalsDone
           /\ "Plan" \in Views /\ "Fly" \in Views
           /\ drawn = NotDrawn <=> \A x \in Elements : drawn[x] = {}
           /\ itemsRequested["Plan"] \subseteq Elements
  <1>1. /\ Base /\ Types /\ Flags /\ Fly /\ FlagInv /\ FlyInv
        /\ PromptsAlone /\ DrawnKept /\ DrawnAlone /\ RequestsOpen /\ RemovalsDone
        /\ "Plan" \in Views /\ "Fly" \in Views
    BY DEF EditInv, FlagInv, FlyInv, Edits, Base, Views
  <1>2. drawn \in [Elements -> SUBSET Contents] /\ itemsRequested["Plan"] \subseteq Elements
    BY <1>1 DEF Types, HistoryType, MasterType
  <1>3. drawn = NotDrawn <=> \A x \in Elements : drawn[x] = {}
    BY <1>2 DEF NotDrawn
  <1> QED  BY <1>1, <1>2, <1>3

LEMMA NothingDrawn ==
    ASSUME drawn' = NotDrawn
    PROVE  DrawnKept' /\ DrawnAlone'
  <1>1. \A x \in Elements : drawn'[x] = {}
    BY NotDrawnFacts
  <1> QED  BY <1>1 DEF DrawnKept, DrawnAlone, NotDrawn

(* With nothing left to run and the active vehicle idle no flag is set and no *)
(* element is asked for.                                                      *)
LEMMA IdleNoRequests ==
    ASSUME EditInv, activeVehicle \in Vehicles => Idle(activeVehicle),
           \A c \in Slots : c \notin TransferCalls
    PROVE  itemsRequested["Plan"] = {}
  <1> SUFFICES ASSUME NEW x \in itemsRequested["Plan"] PROVE FALSE
    OBVIOUS
  <1>1. Requested(x) /\ x \in Elements
    BY EditFacts DEF RequestsOpen
  <1>2. transfer[activeVehicle][x].op \in {"Read", "RemoveAll"} /\ Idle(activeVehicle)
    BY <1>1 DEF Requested, Clears
  <1> QED  BY <1>1, <1>2, TransferFacts DEF Idle, inProgress

LEMMA InitEdits == Init => EditInv
  <1> SUFFICES ASSUME Init PROVE Edits
    BY InitFlags, InitFly DEF EditInv
  <1>1. /\ calls = <<>> /\ chain["Plan"] = {} /\ itemsRequested["Plan"] = {}
        /\ prompting = FALSE /\ drawn = NotDrawn
    BY DEF Init, ConnectInit, Views
  <1>2. Slots = {}
    BY <1>1, NoSlots
  <1> QED  BY <1>1, <1>2, NotDrawnFacts
           DEF Edits, PromptsAlone, DrawnKept, DrawnAlone, RequestsOpen, RemovalsDone

(* What leaves the plan view's plan and the drawing alone.                    *)
LEMMA DrawnKeptKept ==
    ASSUME DrawnKept, drawn' = drawn,
           \A x \in Elements : drawn[x] # {} =>
              items'["Plan"][x] = items["Plan"][x] /\ dirty'["Plan"][x] = dirty["Plan"][x]
    PROVE  DrawnKept'
  BY DEF DrawnKept

LEMMA RequestsKept ==
    ASSUME RequestsOpen, activeVehicle' = activeVehicle,
           itemsRequested["Plan"] \subseteq Elements,
           itemsRequested'["Plan"] \subseteq itemsRequested["Plan"],
           \A x \in Elements :
              activeVehicle \in Vehicles /\ transfer[activeVehicle][x].op \in {"Read", "RemoveAll"}
              => transfer'[activeVehicle][x] = transfer[activeVehicle][x],
           \A c \in Slots : \A x \in itemsRequested'["Plan"] : Clears(c, x) => c \in Slots'
    PROVE  RequestsOpen'
  <1> SUFFICES ASSUME NEW x \in itemsRequested'["Plan"] PROVE Requested(x)'
    BY DEF RequestsOpen
  <1>1. Requested(x) /\ x \in Elements
    BY DEF RequestsOpen
  <1>2. ASSUME NEW c \in Slots, Clears(c, x) PROVE c \in Slots' /\ Clears(c, x)'
    BY <1>2 DEF Clears
  <1> QED  BY <1>1, <1>2 DEF Requested

LEMMA MovesEdits ==
    ASSUME EditInv, Moves
    PROVE  Edits'
  <1>1. UNCHANGED <<activeVehicle, chain, items, dirty, itemsRequested, prompting, drawn>>
    BY DEF Moves, Elsewhere, masterVars, historyVars
  <1>2. /\ \A c \in Slots : c \in TransferCalls => c \in Slots'
        /\ \A c \in Slots' : c \in MachineCalls \/ c \in Slots
        /\ \A c \in Slots : c \in MachineCalls => c.slot # "managerRemoveAllComplete"
        /\ \A c \in Slots' : c \in MachineCalls => c.slot # "managerRemoveAllComplete"
    BY MachineCallFacts, CallKinds DEF Moves
  <1>3. \A v \in Vehicles, x \in Elements :
           transfer'[v][x] = transfer[v][x] \/ (transfer[v][x] = Nothing /\ transfer'[v][x] = Reading)
    BY DEF Moves, AsItWas
  <1>4. PromptsAlone'
    BY <1>1, <1>3, EditFacts DEF PromptsAlone
  <1>5. DrawnKept'
    BY <1>1, EditFacts, DrawnKeptKept
  <1>6. DrawnAlone'
    BY <1>1, <1>2, <1>3, EditFacts, TransferFacts DEF DrawnAlone
  <1>7. RequestsOpen'
    BY <1>1, <1>2, <1>3, EditFacts, TransferFacts, RequestsKept DEF Clears
  <1>8. RemovalsDone'
    <2> SUFFICES ASSUME NEW c \in Slots', c.slot = "managerRemoveAllComplete" PROVE FALSE
      BY DEF RemovalsDone
    <2>1. c \in Slots
      BY <1>2
    <2>2. \A d \in Slots : d.slot = "managerRemoveAllComplete"
      BY <2>1, EditFacts DEF RemovalsDone
    <2>3. Slots \cap MachineCalls = {}
      BY <1>2, <2>2
    <2> QED  BY <2>1, <2>3 DEF Moves
  <1> QED  BY <1>4, <1>5, <1>6, <1>7, <1>8 DEF Edits

(* A vehicle comes, goes or is made active between transfers.                 *)
LEMMA FleetEdits ==
    ASSUME EditInv, "vehicles" \notin Disturbances, VehiclesComeAndGo
    PROVE  Edits'
  <1>1. Base /\ FlagInv
    BY EditFacts
  <1>2. calls = <<>> /\ Settled /\ UNCHANGED <<masterVars, drawn>>
    BY DEF VehiclesComeAndGo, VehicleComes, VehicleGoes, SetActiveVehicle, historyVars
  <1>3. UNCHANGED <<chain, items, dirty, itemsRequested, prompting, drawn>>
    BY <1>2 DEF masterVars
  <1>4. \A v \in Vehicles : Idle(v)
    BY <1>1, <1>2, SettledFacts
  <1>5. chain["Plan"] = {} /\ itemsRequested["Plan"] = {}
    BY <1>1, <1>2, <1>4, IdleNoFlags, IdleNoRequests, NoSlots
  <1>6. /\ \A v \in Vehicles : Idle(v)'
        /\ \A c \in Slots' : c.slot # "managerRemoveAllComplete"
    <2>1. ASSUME NEW v \in Vehicles, VehicleComes(v)
          PROVE  UNCHANGED managerVars
                 /\ Slots' \subseteq {AdvanceOf(v)} \cup {Avc(w) : w \in Views}
      BY <1>1, <2>1, VehicleComesFacts
    <2>2. ASSUME NEW v \in Vehicles, SetActiveVehicle(v)
          PROVE  UNCHANGED managerVars /\ Slots' = {Avc(w) : w \in Views}
      BY <1>1, <2>2, SetActiveFacts
    <2>3. ASSUME NEW v \in Vehicles, VehicleGoes(v)
          PROVE  Slots' = {Avc(w) : w \in Views} /\ \A u \in Vehicles : Idle(u)'
      BY <1>1, <1>4, <2>3, VehicleGoesFacts, ForgottenIdle
    <2>4. /\ \A v \in Vehicles : AdvanceOf(v).slot # "managerRemoveAllComplete"
          /\ \A w : Avc(w).slot # "managerRemoveAllComplete"
      BY MachineCallFacts, AvcFacts
    <2>5. UNCHANGED managerVars => \A v \in Vehicles : Idle(v)'
      BY <1>4, IdleKept
    <2> QED  BY <2>1, <2>2, <2>3, <2>4, <2>5 DEF VehiclesComeAndGo
  <1>7. \A v \in Vehicles, x \in Elements : transfer'[v][x] = Nothing
    BY <1>6 DEF Idle, inProgress
  <1>8. PromptsAlone'
    BY <1>3, <1>5, <1>7 DEF PromptsAlone
  <1>9. DrawnKept'
    BY <1>3, EditFacts, DrawnKeptKept
  <1>10. DrawnAlone'
    BY <1>3, <1>5, <1>6, <1>7, TransferFacts DEF DrawnAlone
  <1> QED  BY <1>3, <1>5, <1>6, <1>8, <1>9, <1>10 DEF Edits, RequestsOpen, RemovalsDone

(* The plan view does not take over a new vehicle's plan with something drawn.*)
LEMMA ToldEdits ==
    ASSUME EditInv, NEW w \in Views, ActiveVehicleChanged(w)
    PROVE  Edits'
  <1>1. Base /\ FlagInv /\ Fly /\ Types
    BY EditFacts
  <1>2. Told(w)
    BY <1>1, ToldFacts
  <1>3. /\ Slots' \subseteq Slots /\ Avc(w) \in Slots
        /\ UNCHANGED <<transfer, chain, activeVehicle, drawn>>
    BY <1>2 DEF Told, Popped, managerVars, historyVars
  <1>4. activeVehicle \in Vehicles => Idle(activeVehicle)
    BY <1>1, <1>3 DEF Fly, FlyMeets, JustMet
  <1>5. \A c \in Slots : c \notin TransferCalls
    BY <1>1, <1>3 DEF Base, Stack
  <1>6. chain["Plan"] = {} /\ itemsRequested["Plan"] = {}
    BY <1>1, <1>3, <1>4, <1>5, ToldNoFlags, IdleNoRequests
  <1>7. \A c \in Slots : c.slot # "managerRemoveAllComplete"
    <2>1. Slots \subseteq CallType
      BY <1>1, EntriesTyped DEF Types, FleetType, Slots
    <2> QED  BY <1>5, <2>1, CallKinds, MachineCallFacts, AvcFacts
  <1>8. /\ itemsRequested'["Plan"] = {}
        /\ \/ \A x \in Elements : items'["Plan"][x] = items["Plan"][x] /\ dirty'["Plan"][x] = dirty["Plan"][x]
           \/ w = "Plan" /\ ~MustAsk(w)
    <2>1. CASE UNCHANGED <<items, dirty, itemsRequested>>
      BY <1>6, <2>1
    <2>2. CASE Emptied(w) /\ itemsRequested' = itemsRequested /\ ~MustAsk(w)
      BY <1>6, <2>2, EditFacts DEF Emptied, Views
    <2>3. ASSUME NEW complete, NEW shown, Showing(w, activeVehicle, complete, shown), ~MustAsk(w),
                 activeVehicle \in Vehicles
          PROVE  <1>8!1 /\ <1>8!2
      <3>1. shown # {"mission"}
        <4>1. "fence" \in Elements
          BY DEF Elements
        <4> QED  BY <1>4, <2>3, <4>1 DEF Showing, Idle
      <3>2. itemsRequested'["Plan"] = {}
        BY <1>6, <2>3, <3>1, EditFacts DEF Showing
      <3> QED  BY <2>3, <3>2, EditFacts DEF Showing, Shown, Views
    <2> QED  BY <1>2, <2>1, <2>2, <2>3 DEF Told, Takes
  <1>9. ASSUME w = "Plan", ~MustAsk(w) PROVE drawn = NotDrawn
    <2> SUFFICES ASSUME NEW x \in Elements, drawn[x] # {} PROVE FALSE
      BY EditFacts
    <2>1. items["Plan"][x] # NoItems /\ dirty["Plan"][x]
      BY EditFacts DEF DrawnKept
    <2> QED  BY <1>9, <2>1 DEF MustAsk, containsItems, isDirty
  <1>10. PromptsAlone'
    BY <1>3, <1>4, <1>6 DEF PromptsAlone, Idle, inProgress
  <1>11. DrawnKept' /\ DrawnAlone'
    <2>1. CASE drawn = NotDrawn
      BY <1>3, <2>1, NothingDrawn
    <2>2. CASE drawn # NotDrawn
      <3>1. DrawnKept'
        BY <1>3, <1>8, <1>9, <2>2, EditFacts, DrawnKeptKept
      <3>2. DrawnAlone'
        BY <1>3, <1>6, <1>7, <1>8, EditFacts DEF DrawnAlone
      <3> QED  BY <3>1, <3>2
    <2> QED  BY <2>1, <2>2
  <1>12. RequestsOpen' /\ RemovalsDone'
    BY <1>3, <1>7, <1>8 DEF RequestsOpen, RemovalsDone
  <1> QED  BY <1>10, <1>11, <1>12 DEF Edits

(* Slots that are not a removal's end run while no such end is to be told.    *)
LEMMA NoRemovals ==
    ASSUME EditInv, NEW slot \in ViewSlotNames, NEW w \in Views, NEW e \in Elements,
           NEW error \in BOOLEAN, Running(Call(slot, w, e, error)),
           slot # "managerRemoveAllComplete"
    PROVE  \A c \in Slots : c.slot # "managerRemoveAllComplete"
  <1>1. Call(slot, w, e, error) \in Slots
    BY TransferCallRuns, EditFacts
  <1>2. Call(slot, w, e, error).slot # "managerRemoveAllComplete"
    BY SlotCallFacts
  <1> QED  BY <1>1, <1>2, EditFacts DEF RemovalsDone

(* Another slot than the one that runs is left to take the request back.      *)
LEMMA ClearsLeft ==
    ASSUME \A c \in Slots : c = Head(calls) \/ c \in Slots',
           NEW slot \in ViewSlotNames, NEW w \in Views, NEW e \in Elements,
           NEW error \in BOOLEAN, Running(Call(slot, w, e, error)), NEW x,
           w = "Fly" \/ x # e \/ slot \notin {"newItems", "managerRemoveAllComplete"}
    PROVE  \A c \in Slots : Clears(c, x) => c \in Slots'
  <1> SUFFICES ASSUME NEW c \in Slots, Clears(c, x) PROVE c \in Slots'
    OBVIOUS
  <1>1. c # Call(slot, w, e, error)
    BY SlotCallFacts DEF Clears
  <1> QED  BY <1>1 DEF Running

(* The master's slots: nothing is drawn when they find a flag.                *)
LEMMA StartsEdits ==
    ASSUME EditInv, NEW slot \in {"loadComplete", "sendComplete"}, NEW w \in Views, NEW e \in Elements,
           NEW error \in BOOLEAN, Running(Call(slot, w, e, error)), SlotSteady,
           NothingMore \/ chain["Plan"] # {},
           \A c \in Slots : c = Head(calls) \/ c \in Slots',
           \A c \in Slots' : c \in Slots \/ c.slot = slot,
           \A x \in Elements :
              \/ transfer'[activeVehicle][x] = transfer[activeVehicle][x]
              \/ transfer[activeVehicle][x] = Nothing,
           \A x \in itemsRequested'["Plan"] :
              x \in itemsRequested["Plan"] \/ transfer'[activeVehicle][x].op = "Read"
    PROVE  Edits'
  <1>1. /\ UNCHANGED <<activeVehicle, prompting, drawn>> /\ slot \in ViewSlotNames
        /\ activeVehicle \in Vehicles
    BY EditFacts, TransferCallRuns DEF SlotSteady, historyVars, ViewSlotNames
  <1>2. \A c \in Slots : c.slot # "managerRemoveAllComplete"
    BY <1>1, NoRemovals
  <1>3. \A c \in Slots' : c.slot # "managerRemoveAllComplete"
    BY <1>2
  <1>4. RequestsOpen'
    <2> SUFFICES ASSUME NEW x \in itemsRequested'["Plan"] PROVE Requested(x)'
      BY DEF RequestsOpen
    <2>1. CASE transfer'[activeVehicle][x].op = "Read"
      BY <1>1, <2>1 DEF Requested
    <2>2. CASE x \in itemsRequested["Plan"]
      <3>1. Requested(x) /\ x \in Elements
        BY <2>2, EditFacts DEF RequestsOpen
      <3>2. \A c \in Slots : Clears(c, x) => c \in Slots' /\ Clears(c, x)'
        BY <1>1, ClearsLeft DEF Clears
      <3>3. \/ transfer'[activeVehicle][x] = transfer[activeVehicle][x]
            \/ transfer[activeVehicle][x].op = "None"
        BY <3>1, TransferFacts
      <3> QED  BY <1>1, <3>1, <3>2, <3>3 DEF Requested
    <2> QED  BY <2>1, <2>2
  <1>5. CASE NothingMore
    <2>1. UNCHANGED <<chain, items, dirty, itemsRequested, transfer>>
      BY <1>5 DEF NothingMore, managerVars
    <2>2. PromptsAlone'
      BY <1>1, <2>1, EditFacts DEF PromptsAlone
    <2>3. DrawnKept'
      BY <1>1, <2>1, EditFacts, DrawnKeptKept
    <2>4. DrawnAlone'
      BY <1>1, <1>3, <2>1, EditFacts DEF DrawnAlone
    <2> QED  BY <1>3, <1>4, <2>2, <2>3, <2>4 DEF Edits, RemovalsDone
  <1>6. CASE chain["Plan"] # {}
    <2>1. drawn' = NotDrawn /\ (prompting' => FALSE)
      BY <1>1, <1>6, EditFacts DEF DrawnAlone, PromptsAlone
    <2>2. DrawnKept' /\ DrawnAlone' /\ PromptsAlone'
      BY <2>1, NothingDrawn DEF PromptsAlone
    <2> QED  BY <1>3, <1>4, <2>2 DEF Edits, RemovalsDone
  <1> QED  BY <1>5, <1>6

LEMMA LoadCompleteEdits ==
    ASSUME EditInv, NEW w \in Views, NEW e \in Elements, NEW error \in BOOLEAN,
           LoadComplete(w, e, error)
    PROVE  Edits'
  <1>1. Base /\ chain["Fly"] = {} /\ "loadComplete" \in ViewSlotNames
    BY EditFacts DEF Flags, ViewSlotNames
  <1>2. Loaded(w, e, error) /\ Running(Call("loadComplete", w, e, error)) /\ SlotSteady
    BY <1>1, LoadCompleteFacts
  <1>3. activeVehicle \in Vehicles
    BY <1>1, <1>2, TransferCallRuns
  <1>4. CASE NothingMore
    BY <1>2, <1>4, StartsEdits DEF NothingMore, Popped, managerVars
  <1>5. CASE /\ e \in {"mission", "fence"} /\ LoadFlag[e] \in chain[w]
             /\ Traded(w, LoadFlag, e)
             /\ LoadsNext(w, NextElement[e]) \/ SkipsLoad(w, NextElement[e], error)
    <2> DEFINE n == NextElement[e]
    <2>1. w = "Plan" /\ chain["Plan"] # {} /\ n \in Elements
      BY <1>1, <1>5, NextFacts DEF Views
    <2>2. LoadsNext(w, n) \/ SkipsLoad(w, n, error)
      BY <1>5
    <2> HIDE DEF n
    <2>3. Call("loadComplete", w, n, error).slot = "loadComplete"
      BY CallFacts
    <2>4. /\ \A c \in Slots : c = Head(calls) \/ c \in Slots'
          /\ \A c \in Slots' : c \in Slots \/ c.slot = "loadComplete"
      BY <2>2, <2>3 DEF LoadsNext, SkipsLoad, Popped, Replaced
    <2>5. \A x \in Elements :
             \/ transfer'[activeVehicle][x] = transfer[activeVehicle][x]
             \/ transfer[activeVehicle][x] = Nothing
      BY <1>3, <2>2 DEF LoadsNext, SkipsLoad, Started, managerVars
    <2>6. ASSUME NEW x \in itemsRequested'["Plan"]
          PROVE  x \in itemsRequested["Plan"] \/ transfer'[activeVehicle][x].op = "Read"
      <3>1. CASE LoadsNext(w, n) /\ x = n /\ x \notin itemsRequested["Plan"]
        <4>1. Started(activeVehicle, {n}, Reading) /\ ~inProgress(activeVehicle, n)
          BY <2>6, <3>1, EditFacts DEF LoadsNext
        <4>2. transfer'[activeVehicle][n] = Reading
          BY <1>3, <2>1, <4>1 DEF Started, inProgress
        <4> QED  BY <3>1, <4>2, TransferFacts
      <3> QED  BY <2>1, <2>2, <2>6, <3>1, EditFacts DEF LoadsNext, SkipsLoad
    <2> QED  BY <1>2, <2>1, <2>4, <2>5, <2>6, StartsEdits
  <1> QED  BY <1>2, <1>4, <1>5 DEF Loaded

LEMMA SendCompleteEdits ==
    ASSUME EditInv, NEW w \in Views, NEW e \in Elements, NEW error \in BOOLEAN,
           SendComplete(w, e, error)
    PROVE  Edits'
  <1>1. Base /\ chain["Fly"] = {} /\ "sendComplete" \in ViewSlotNames
    BY EditFacts DEF Flags, ViewSlotNames
  <1>2. Sent(w, e, error) /\ Running(Call("sendComplete", w, e, error)) /\ SlotSteady
    BY <1>1, SendCompleteFacts
  <1>3. activeVehicle \in Vehicles
    BY <1>1, <1>2, TransferCallRuns
  <1>4. CASE NothingMore
    BY <1>2, <1>4, StartsEdits DEF NothingMore, Popped, managerVars
  <1>5. CASE /\ e \in {"mission", "fence"} /\ SendFlag[e] \in chain[w]
             /\ Traded(w, SendFlag, e)
             /\ SendsNext(w, NextElement[e]) \/ SkipsSend(w, NextElement[e], error)
             /\ itemsRequested' = itemsRequested
    <2> DEFINE n == NextElement[e]
    <2>1. w = "Plan" /\ chain["Plan"] # {} /\ n \in Elements
      BY <1>1, <1>5, NextFacts DEF Views
    <2>2. SendsNext(w, n) \/ SkipsSend(w, n, error)
      BY <1>5
    <2> HIDE DEF n
    <2>3. Call("sendComplete", w, n, error).slot = "sendComplete"
      BY CallFacts
    <2>4. /\ \A c \in Slots : c = Head(calls) \/ c \in Slots'
          /\ \A c \in Slots' : c \in Slots \/ c.slot = "sendComplete"
      BY <2>2, <2>3 DEF SendsNext, SkipsSend, Popped, Replaced
    <2>5. \A x \in Elements :
             \/ transfer'[activeVehicle][x] = transfer[activeVehicle][x]
             \/ transfer[activeVehicle][x] = Nothing
      BY <1>3, <2>2 DEF SendsNext, SkipsSend, Started, managerVars
    <2>6. \A x \in itemsRequested'["Plan"] : x \in itemsRequested["Plan"]
      BY <1>5
    <2> QED  BY <1>2, <2>1, <2>4, <2>5, <2>6, StartsEdits
  <1> QED  BY <1>2, <1>4, <1>5 DEF Sent

(* The controllers' slots: what is drawn was not asked for and is not shown   *)
(* over.                                                                      *)
LEMMA ShownEdits ==
    ASSUME EditInv, NEW slot \in {"newItems"} \cup ManagerSlots, NEW w \in Views, NEW e \in Elements,
           NEW error \in BOOLEAN, NEW shows, Running(Call(slot, w, e, error)), SlotSteady,
           ShownOrNot(w, e, shows),
           w = "Plan" => /\ itemsRequested'["Plan"] \subseteq itemsRequested["Plan"]
                         /\ slot # "managerSendComplete" => e \notin itemsRequested'["Plan"],
           w = "Plan" /\ shows /\ slot = "newItems" =>
              e \in itemsRequested["Plan"] \/ items["Plan"][e] = NoItems,
           w = "Plan" /\ shows => slot # "managerSendComplete"
    PROVE  Edits'
  <1>1. /\ Slots' \subseteq Slots
        /\ \A c \in Slots : c = Head(calls) \/ c \in Slots'
        /\ UNCHANGED <<chain, transfer, activeVehicle, prompting, drawn>>
        /\ slot \in ViewSlotNames /\ slot \in {"newItems", "managerSendComplete", "managerRemoveAllComplete"}
    BY DEF ShownOrNot, Popped, SlotSteady, historyVars, managerVars, ViewSlotNames, ManagerSlots
  <1>2. itemsRequested'["Plan"] \subseteq itemsRequested["Plan"]
    BY EditFacts DEF ShownOrNot, Views
  <1>3. PromptsAlone'
    BY <1>1, EditFacts DEF PromptsAlone
  <1>4. RemovalsDone'
    BY <1>1, EditFacts DEF RemovalsDone, inProgress
  <1>5. DrawnAlone'
    BY <1>1, <1>2, EditFacts DEF DrawnAlone
  <1>6. RequestsOpen'
    <2>1. \A x \in itemsRequested'["Plan"] : \A c \in Slots : Clears(c, x) => c \in Slots'
      BY <1>1, ClearsLeft DEF Views
    <2> QED  BY <1>1, <1>2, <2>1, EditFacts, RequestsKept
  <1>7. DrawnKept'
    <2>1. CASE drawn = NotDrawn
      BY <1>1, <2>1, NothingDrawn
    <2>2. CASE drawn # NotDrawn
      <3>1. slot # "managerRemoveAllComplete" /\ itemsRequested["Plan"] = {}
        <4>1. Call(slot, w, e, error) \in Slots /\ Call(slot, w, e, error).slot = slot
          BY <1>1, TransferCallRuns, SlotCallFacts, EditFacts
        <4> QED  BY <2>2, <4>1, EditFacts DEF DrawnAlone
      <3>2. ASSUME NEW x \in Elements, drawn[x] # {}
            PROVE  items'["Plan"][x] = items["Plan"][x] /\ dirty'["Plan"][x] = dirty["Plan"][x]
        <4>1. items["Plan"][x] # NoItems
          BY <3>2, EditFacts DEF DrawnKept
        <4>2. ~(w = "Plan" /\ shows /\ x = e)
          BY <1>1, <3>1, <4>1
        <4> QED  BY <4>2, EditFacts DEF ShownOrNot, Shown
      <3> QED  BY <1>1, <3>2, EditFacts, DrawnKeptKept
    <2> QED  BY <2>1, <2>2
  <1> QED  BY <1>3, <1>4, <1>5, <1>6, <1>7 DEF Edits

(* A transfer ends.                                                           *)
LEMMA EndsEdits ==
    ASSUME EditInv, "removals" \notin Disturbances,
           NEW v \in Vehicles, NEW e \in Elements, NEW ok \in BOOLEAN,
           TransferEnds(v, e, ok)
    PROVE  Edits'
  <1> DEFINE op == transfer[v][e].op
             err == ~ok
  <1>1. /\ calls = <<>>
        /\ ok \/ op # "RemoveAll"
        /\ Heard(v, e, op, err)
        /\ UNCHANGED <<activeVehicle, masterVars, drawn>>
    BY EndsFacts, EditFacts
  <1>2. /\ UNCHANGED <<chain, managerVehicle, items, dirty, itemsRequested, prompting>>
        /\ Slots = {} /\ managerVehicle["Plan"] = activeVehicle /\ managerVehicle["Fly"] = activeVehicle
    BY <1>1, Settles, EditFacts DEF masterVars
  <1>3. /\ \A u \in Vehicles, x \in Elements :
              transfer'[u][x] = IF u = v /\ x = e THEN Nothing ELSE transfer[u][x]
    <2>1. PICK c \in Contents : Ended(v, e, ok, c)
      BY EndsFacts, EditFacts
    <2> QED  BY <2>1 DEF Ended
  <1>4. err \in BOOLEAN /\ (err <=> ~ok) /\ transfer[v][e].op = op
    OBVIOUS
  <1> HIDE DEF op, err
  <1>5. PromptsAlone'
    BY <1>1, <1>2, <1>3, EditFacts DEF PromptsAlone
  <1>6. DrawnKept'
    BY <1>1, <1>2, EditFacts, DrawnKeptKept
  <1>7. ASSUME NEW c \in Slots', c.slot = "managerRemoveAllComplete"
        PROVE  /\ drawn = NotDrawn
               /\ \A d \in Slots' : d.slot = "managerRemoveAllComplete" /\ ~d.error
                                    /\ d.element = e /\ v = activeVehicle
    <2>1. /\ c # FirstLoadOf(v, e)
      BY <1>7, MachineCallFacts
    <2>2. op = "RemoveAll" /\ v = activeVehicle
      BY <1>1, <1>2, <1>7, <2>1 DEF Heard, ViewHears, Views
    <2>3. drawn = NotDrawn
      BY <1>4, <2>2, EditFacts DEF DrawnAlone
    <2>4. \A d \in Slots' : d.slot = "managerRemoveAllComplete" /\ d.error = err /\ d.element = e
      BY <1>1, <2>2 DEF Heard, ViewHears
    <2> QED  BY <1>1, <1>4, <2>2, <2>3, <2>4
  <1>8. RemovalsDone'
    <2> SUFFICES ASSUME NEW c \in Slots', c.slot = "managerRemoveAllComplete", NEW d \in Slots'
                 PROVE  d.slot = "managerRemoveAllComplete" /\ ~d.error
                        /\ ~inProgress(activeVehicle, d.element)'
      BY DEF RemovalsDone
    <2>1. d.slot = "managerRemoveAllComplete" /\ ~d.error /\ d.element = e /\ v = activeVehicle
      BY <1>7
    <2> QED  BY <1>1, <1>3, <2>1 DEF inProgress
  <1>9. DrawnAlone'
    <2> SUFFICES ASSUME drawn # NotDrawn PROVE DrawnAlone'
      BY <1>1 DEF DrawnAlone
    <2>1. \A c \in Slots' : c.slot # "managerRemoveAllComplete"
      BY <1>7
    <2>2. chain["Plan"] = {} /\ itemsRequested["Plan"] = {}
          /\ (activeVehicle \in Vehicles => \A x \in Elements : transfer[activeVehicle][x].op # "RemoveAll")
      BY EditFacts DEF DrawnAlone
    <2>3. activeVehicle \in Vehicles => \A x \in Elements : transfer'[activeVehicle][x].op # "RemoveAll"
      BY <1>3, <2>2, TransferFacts
    <2> QED  BY <1>1, <1>2, <2>1, <2>2, <2>3 DEF DrawnAlone
  <1>10. RequestsOpen'
    <2> SUFFICES ASSUME NEW x \in itemsRequested["Plan"] PROVE Requested(x)'
      BY <1>2 DEF RequestsOpen
    <2>1. activeVehicle \in Vehicles /\ x \in Elements
          /\ transfer[activeVehicle][x].op \in {"Read", "RemoveAll"}
      BY <1>2, EditFacts DEF RequestsOpen, Requested
    <2>2. CASE ~(activeVehicle = v /\ x = e)
      BY <1>1, <1>3, <2>1, <2>2 DEF Requested
    <2>3. CASE activeVehicle = v /\ x = e
      <3> DEFINE s == IF op = "Read" THEN "newItems" ELSE "managerRemoveAllComplete"
                 c == Call(s, "Plan", e, err)
      <3>1. s \in ViewSlotNames /\ op \in {"Read", "RemoveAll"}
            /\ (op = "Read" => s = "newItems") /\ (op = "RemoveAll" => s = "managerRemoveAllComplete")
        BY <1>4, <2>1, <2>3 DEF ViewSlotNames
      <3> HIDE DEF s
      <3>2. c \in TransferCalls /\ c.slot = s /\ c.of = "Plan" /\ c.element = e /\ c.error = err
        BY <1>4, <3>1, EditFacts, SlotCallFacts
      <3> HIDE DEF c
      <3>3. ViewHears("Plan", e, op, err, c)
        BY <3>1, <3>2 DEF ViewHears
      <3>4. c \in Slots'
        BY <1>1, <1>2, <2>3, <3>3, EditFacts DEF Heard
      <3>5. Clears(c, x)
        BY <1>1, <1>4, <2>3, <3>1, <3>2 DEF Clears
      <3> QED  BY <1>1, <2>1, <3>4, <3>5 DEF Requested, Clears
    <2> QED  BY <2>2, <2>3
  <1> QED  BY <1>5, <1>6, <1>8, <1>9, <1>10 DEF Edits


(* The user's requests.                                                       *)
LEMMA AskedEdits ==
    ASSUME EditInv, Asked, DrawnKept', DrawnAlone', RequestsOpen'
    PROVE  Edits'
  <1>1. calls = <<>> /\ ~prompting /\ UNCHANGED <<calls, prompting>>
    BY DEF Asked, RequestSteady
  <1>2. Slots' = {}
    BY <1>1, StillQuiet
  <1> QED  BY <1>1, <1>2 DEF Edits, PromptsAlone, RemovalsDone

(* A request the plan view makes of an idle vehicle.                          *)
LEMMA AskedIdle ==
    ASSUME EditInv, Asked, Idle(activeVehicle)
    PROVE  itemsRequested["Plan"] = {}
  <1>1. Slots = {}
    BY NoSlots DEF Asked
  <1> QED  BY <1>1, IdleNoRequests

LEMMA UploadEdits ==
    ASSUME EditInv, Upload
    PROVE  Edits'
  <1>1. /\ Asked /\ Idle(activeVehicle) /\ drawn' = NotDrawn /\ itemsRequested' = itemsRequested
    BY UploadFacts, EditFacts
  <1>2. itemsRequested["Plan"] = {}
    BY <1>1, AskedIdle
  <1>3. RequestsOpen'
    BY <1>1, <1>2 DEF RequestsOpen
  <1> QED  BY <1>1, <1>3, NothingDrawn, AskedEdits

LEMMA DownloadEdits ==
    ASSUME EditInv, Download
    PROVE  Edits'
  <1>1. /\ Asked /\ Idle(activeVehicle) /\ drawn' = NotDrawn
        /\ itemsRequested'["Plan"] = itemsRequested["Plan"] \cup {"mission"}
        /\ Started(activeVehicle, {"mission"}, Reading)
    BY DownloadFacts, EditFacts
  <1>2. itemsRequested["Plan"] = {}
    BY <1>1, AskedIdle
  <1>3. activeVehicle \in Vehicles /\ activeVehicle' = activeVehicle
    BY <1>1 DEF Asked, RequestSteady
  <1>4. transfer'[activeVehicle]["mission"] = Reading
    BY <1>1, <1>3 DEF Started, Idle, inProgress, Elements
  <1>5. RequestsOpen'
    BY <1>1, <1>2, <1>3, <1>4, TransferFacts DEF RequestsOpen, Requested
  <1> QED  BY <1>1, <1>5, NothingDrawn, AskedEdits

LEMMA RemoveAllEdits ==
    ASSUME EditInv, "requests" \notin Disturbances, NEW w \in Views, NEW kind,
           RemoveAllFromVehicle(w, kind)
    PROVE  Edits'
  <1>1. /\ Asked /\ Idle(activeVehicle) /\ drawn' = NotDrawn
        /\ Started(activeVehicle, Supports[activeVehicle], Removing)
        /\ itemsRequested'["Plan"] \subseteq itemsRequested["Plan"] \cup {"mission"}
    BY RemoveAllRequestFacts, EditFacts
  <1>2. itemsRequested["Plan"] = {}
    BY <1>1, AskedIdle
  <1>3. activeVehicle \in Vehicles /\ activeVehicle' = activeVehicle
    BY <1>1 DEF Asked, RequestSteady
  <1>4. "mission" \in Supports[activeVehicle] /\ "mission" \in Elements
    BY <1>3, VehiclesAssumption DEF Elements
  <1>5. transfer'[activeVehicle]["mission"] = Removing
    BY <1>1, <1>3, <1>4 DEF Started, Idle, inProgress
  <1>6. RequestsOpen'
    BY <1>1, <1>2, <1>3, <1>5, TransferFacts DEF RequestsOpen, Requested
  <1> QED  BY <1>1, <1>6, NothingDrawn, AskedEdits

LEMMA FlyMissionEdits ==
    ASSUME EditInv, NEW kind, NEW t \in FlyTransfers, FlyMission(kind, t)
    PROVE  Edits'
  <1>1. /\ Asked /\ Started(activeVehicle, {"mission"}, t)
        /\ UNCHANGED <<chain, items, dirty, itemsRequested, drawn>>
    BY FlyMissionFacts, EditFacts
  <1>2. calls = <<>> /\ activeVehicle \in Vehicles /\ UNCHANGED <<calls, activeVehicle>>
    BY <1>1 DEF Asked, RequestSteady
  <1>3. Slots = {} /\ Slots' = {}
    BY <1>2, StillQuiet
  <1>4. t.op \in {"Write", "Guided"}
    BY TransferFacts DEF FlyTransfers
  <1>5. \A x \in Elements :
           \/ transfer'[activeVehicle][x] = transfer[activeVehicle][x]
           \/ transfer[activeVehicle][x].op = "None" /\ transfer'[activeVehicle][x].op \in {"Write", "Guided"}
    BY <1>1, <1>2, <1>4, TransferFacts DEF Started
  <1>6. DrawnKept'
    BY <1>1, EditFacts, DrawnKeptKept
  <1>7. DrawnAlone'
    BY <1>1, <1>2, <1>3, <1>5, EditFacts DEF DrawnAlone
  <1>8. RequestsOpen'
    BY <1>1, <1>2, <1>3, <1>5, EditFacts, RequestsKept
  <1> QED  BY <1>1, <1>6, <1>7, <1>8, AskedEdits

LEMMA UserRequestEdits ==
    ASSUME EditInv, "requests" \notin Disturbances, UserRequest
    PROVE  Edits'
  <1>1. CASE Resume
    BY <1>1, ResumeFacts, FlyMissionEdits, EditFacts
  <1>2. "Plan" \in Views /\ "Fly" \in Views /\ GuidedItem \in FlyTransfers
    BY DEF Views, FlyTransfers
  <1> QED  BY <1>1, <1>2, UploadEdits, DownloadEdits, RemoveAllEdits, FlyMissionEdits DEF UserRequest

(* The user edits, with nothing in progress or nothing left of the drawing.   *)
LEMMA EditedEdits ==
    ASSUME EditInv, Edited, DrawnKept',
           drawn' = NotDrawn \/ ~syncInProgress("Plan")
    PROVE  Edits'
  <1>1. /\ calls = <<>> /\ ~prompting
        /\ UNCHANGED <<calls, transfer, activeVehicle, chain, itemsRequested, prompting>>
    BY DEF Edited, EditSteady, managerVars
  <1>2. Slots = {} /\ Slots' = {}
    BY <1>1, StillQuiet
  <1>3. RequestsOpen'
    BY <1>1, <1>2, EditFacts, RequestsKept
  <1>4. DrawnAlone'
    <2>1. CASE drawn' = NotDrawn
      BY <2>1, NothingDrawn
    <2>2. CASE ~syncInProgress("Plan")
      <3>1. activeVehicle \in Vehicles => Idle(activeVehicle)
        BY <1>1, <2>2, Settles, SyncFacts, EditFacts
      <3>2. itemsRequested["Plan"] = {}
        BY <1>2, <3>1, IdleNoRequests
      <3>3. chain["Plan"] = {}
        BY <1>1, <3>1, IdleNoFlags, EditFacts
      <3>4. activeVehicle \in Vehicles => \A x \in Elements : transfer[activeVehicle][x].op # "RemoveAll"
        BY <3>1, TransferFacts DEF Idle, inProgress
      <3> QED  BY <1>1, <1>2, <3>2, <3>3, <3>4 DEF DrawnAlone
    <2> QED  BY <2>1, <2>2
  <1> QED  BY <1>1, <1>2, <1>3, <1>4 DEF Edits, PromptsAlone, RemovalsDone

LEMMA DrawEdits ==
    ASSUME EditInv, "edits" \notin Disturbances, NEW e \in Elements, NEW c \in Drafts, Draw(e, c)
    PROVE  Edits'
  <1>1. /\ Edited /\ Filled("Plan", {e}, AllOf(c)) /\ Marked("Plan", {e}, TRUE)
        /\ DrawnOne(e, {c} \ {NoItems}) /\ ~syncInProgress("Plan")
    BY DrawFacts, EditFacts
  <1>2. \A x \in Elements : AllOf(c)[x] = c
    BY AllOfFacts, ElementFacts
  <1>3. ASSUME NEW x \in Elements, drawn'[x] # {}
        PROVE  items'["Plan"][x] \in drawn'[x] /\ dirty'["Plan"][x] /\ NoItems \notin drawn'[x]
    <2>1. CASE x = e
      <3>1. drawn'[x] = {c} \ {NoItems} /\ items'["Plan"][x] = c
        BY <1>1, <1>2, <2>1, EditFacts DEF DrawnOne, Filled
      <3>2. dirty'["Plan"][x] = TRUE
        BY <1>1, <2>1, EditFacts DEF Marked
      <3> QED  BY <1>3, <3>1, <3>2
    <2>2. CASE x # e
      <3>1. drawn'[x] = drawn[x] /\ items'["Plan"][x] = items["Plan"][x]
        BY <1>1, <2>2, EditFacts DEF DrawnOne, Filled
      <3>2. dirty'["Plan"][x] = dirty["Plan"][x]
        BY <1>1, <2>2, EditFacts DEF Marked
      <3>3. items["Plan"][x] \in drawn[x] /\ dirty["Plan"][x] /\ NoItems \notin drawn[x]
        BY <1>3, <3>1, EditFacts DEF DrawnKept
      <3> QED  BY <3>1, <3>2, <3>3
    <2> QED  BY <2>1, <2>2
  <1>4. DrawnKept'
    BY <1>3 DEF DrawnKept
  <1> QED  BY <1>1, <1>4, EditedEdits

LEMMA RemoveRallyEdits ==
    ASSUME EditInv, "edits" \notin Disturbances, RemoveRallyPoint
    PROVE  Edits'
  <1>1. /\ Edited /\ Filled("Plan", {"rally"}, AllOf(NoItems)) /\ dirty' = dirty
        /\ DrawnOne("rally", {}) /\ ~syncInProgress("Plan")
    BY RemoveRallyFacts, EditFacts
  <1>2. ASSUME NEW x \in Elements, drawn'[x] # {}
        PROVE  items'["Plan"][x] \in drawn'[x] /\ dirty'["Plan"][x] /\ NoItems \notin drawn'[x]
    <2>1. x # "rally" /\ drawn'[x] = drawn[x]
      BY <1>1, <1>2 DEF DrawnOne
    <2>2. items'["Plan"][x] = items["Plan"][x]
      BY <1>1, <2>1, EditFacts DEF Filled
    <2>3. items["Plan"][x] \in drawn[x] /\ dirty["Plan"][x] /\ NoItems \notin drawn[x]
      BY <1>2, <2>1, EditFacts DEF DrawnKept
    <2> QED  BY <1>1, <2>1, <2>2, <2>3
  <1>3. DrawnKept'
    BY <1>2 DEF DrawnKept
  <1> QED  BY <1>1, <1>3, EditedEdits

(* The answer to the prompt.                                                  *)
LEMMA RepliedEdits ==
    ASSUME EditInv, Replied
    PROVE  Edits'
  <1>1. /\ calls = <<>> /\ prompting
        /\ UNCHANGED <<calls, transfer, activeVehicle, chain>>
    BY DEF Replied, EditSteady, managerVars
  <1>2. Slots = {} /\ Slots' = {}
    BY <1>1, StillQuiet
  <1>3. prompting' = FALSE
    BY DEF Replied
  <1>4. PromptsAlone' /\ RemovalsDone'
    BY <1>2, <1>3 DEF PromptsAlone, RemovalsDone
  <1>5. ASSUME itemsRequested' = itemsRequested PROVE RequestsOpen'
    BY <1>1, <1>2, <1>5, EditFacts, RequestsKept
  <1>6. CASE Keeps
    <2>1. UNCHANGED <<items, itemsRequested, drawn>>
      BY <1>6 DEF Keeps
    <2>2. DrawnAlone'
      BY <1>1, <1>2, <2>1, EditFacts DEF DrawnAlone
    <2>3. ASSUME NEW x \in Elements, drawn[x] # {} PROVE dirty'["Plan"][x] = dirty["Plan"][x]
      <3>1. dirty["Plan"][x] /\ dirty["Plan"][x] \in BOOLEAN
        BY <2>3, EditFacts DEF DrawnKept, Types, MasterType
      <3>2. CASE Marked("Plan", Elements, TRUE)
        <4>1. dirty'["Plan"][x] = TRUE
          BY <3>2, EditFacts DEF Marked
        <4> QED  BY <3>1, <4>1
      <3> QED  BY <1>6, <3>2 DEF Keeps
    <2>4. DrawnKept'
      BY <2>1, <2>3, EditFacts, DrawnKeptKept
    <2> QED  BY <1>4, <1>5, <2>1, <2>2, <2>4 DEF Edits
  <1>7. CASE drawn' = NotDrawn /\ TakesOver
    <2>1. RequestsOpen'
      <3>1. CASE itemsRequested' = itemsRequested
        BY <1>5, <3>1
      <3>2. CASE activeVehicle \in Vehicles /\ \E complete, shown : Showing("Plan", activeVehicle, complete, shown)
        <4>1. PICK complete, shown : Showing("Plan", activeVehicle, complete, shown)
          BY <3>2
        <4>2. ASSUME NEW x \in itemsRequested'["Plan"] PROVE Requested(x)'
          <5>1. CASE x \in itemsRequested["Plan"]
            <6>1. Requested(x)
              BY <5>1, EditFacts DEF RequestsOpen
            <6> QED  BY <1>1, <1>2, <6>1 DEF Requested
          <5>2. CASE x = "fence" /\ inProgress(activeVehicle, "fence")
            <6>1. transfer[activeVehicle]["fence"] = Reading
              BY <1>1, <3>2, <5>2, EditFacts DEF PromptsAlone, inProgress, Elements
            <6> QED  BY <1>1, <3>2, <5>2, <6>1, TransferFacts DEF Requested
          <5> QED  BY <4>1, <4>2, <5>1, <5>2 DEF Showing
        <4> QED  BY <4>2 DEF RequestsOpen
      <3> QED  BY <1>7, <3>1, <3>2 DEF TakesOver
    <2> QED  BY <1>4, <1>7, <2>1, NothingDrawn DEF Edits
  <1> QED  BY <1>6, <1>7 DEF Replied

LEMMA UserEditEdits ==
    ASSUME EditInv, "edits" \notin Disturbances, UserEdit
    PROVE  Edits'
  <1>1. Base
    BY EditFacts
  <1>2. ASSUME NEW c \in Drafts, LoadFromFile(c) PROVE Edits'
    <2>1. Edited /\ drawn' = NotDrawn
      BY <1>1, <1>2, LoadFileFacts
    <2> QED  BY <2>1, NothingDrawn, EditedEdits
  <1>3. CASE SaveToFile
    <2>1. Edited /\ drawn' = NotDrawn
      BY <1>1, <1>3, SaveFacts
    <2> QED  BY <2>1, NothingDrawn, EditedEdits
  <1>4. ASSUME NEW load \in BOOLEAN, AnswerPrompt(load) PROVE Edits'
    BY <1>1, <1>4, AnswerFacts, RepliedEdits
  <1> QED  BY <1>2, <1>3, <1>4, DrawEdits, RemoveRallyEdits DEF UserEdit

LEMMA StutterEdits ==
    ASSUME EditInv, UNCHANGED vars
    PROVE  Edits'
  <1>1. UNCHANGED <<calls, activeVehicle, chain, items, dirty, itemsRequested, prompting, drawn, transfer>>
    BY DEF vars, managerVars, masterVars, historyVars
  <1>2. Slots' = Slots
    BY <1>1 DEF Slots, Entries
  <1>3. DrawnKept'
    BY <1>1, EditFacts, DrawnKeptKept
  <1>4. RequestsOpen'
    BY <1>1, <1>2, EditFacts, RequestsKept
  <1>5. PromptsAlone'
    BY <1>1, EditFacts DEF PromptsAlone
  <1>6. DrawnAlone' /\ RemovalsDone'
    BY <1>1, <1>2, EditFacts DEF DrawnAlone, RemovalsDone, inProgress
  <1> QED  BY <1>3, <1>4, <1>5, <1>6 DEF Edits

(* A controller's slot takes back the request of what it shows.               *)
LEMMA NewItemsEdits ==
    ASSUME EditInv, NEW w \in Views, NEW e \in Elements, NEW error \in BOOLEAN,
           NewItems(w, e, error)
    PROVE  Edits'
  <1> DEFINE shows == w = "Fly" \/ e \in itemsRequested[w] \/ items[w][e] = NoItems
  <1>1. /\ ShownOrNot(w, e, shows) /\ Running(Call("newItems", w, e, error)) /\ SlotSteady
        /\ itemsRequested'[w] = itemsRequested[w] \ {e}
    BY EditFacts, NewItemsFacts
  <1>2. w = "Plan" /\ shows => e \in itemsRequested["Plan"] \/ items["Plan"][e] = NoItems
    BY DEF Views
  <1> HIDE DEF shows
  <1>3. w = "Plan" => /\ itemsRequested'["Plan"] \subseteq itemsRequested["Plan"]
                      /\ "newItems" # "managerSendComplete" => e \notin itemsRequested'["Plan"]
    BY <1>1
  <1> QED  BY <1>1, <1>2, <1>3, ShownEdits DEF ManagerSlots

LEMMA ManagerCompleteEdits ==
    ASSUME EditInv, NEW slot \in ManagerSlots, NEW w \in Views, NEW e \in Elements,
           NEW error \in BOOLEAN, ManagerComplete(slot, w, e, error)
    PROVE  Edits'
  <1> DEFINE shows == Refreshes(slot, w, e, error)
             after == ShowsAfter(slot, w, error)
  <1>a. Base
    BY EditFacts
  <1>b. /\ ShownOrNot(w, e, shows) /\ Running(Call(slot, w, e, error)) /\ SlotSteady
    BY <1>a, ManagerCompleteFacts
  <1>c. /\ ~after => itemsRequested'[w] = itemsRequested[w]
        /\ shows => itemsRequested'[w] = itemsRequested[w] \ {e}
    BY <1>a, ManagerCompleteFacts DEF RequestAfter
  <1>1. /\ ShownOrNot(w, e, shows) /\ Running(Call(slot, w, e, error)) /\ SlotSteady
        /\ ~after => itemsRequested'[w] = itemsRequested[w]
        /\ shows => itemsRequested'[w] = itemsRequested[w] \ {e}
    BY <1>b, <1>c
  <1>2. w = "Plan" /\ shows => slot # "managerSendComplete"
    BY DEF Refreshes, ShowsAfter
  <1>3. slot \in ViewSlotNames /\ slot \in {"managerSendComplete", "managerRemoveAllComplete"}
    BY DEF ViewSlotNames, ManagerSlots
  <1>4. ASSUME w = "Plan", slot = "managerRemoveAllComplete" PROVE shows
    <2> DEFINE c == Call(slot, w, e, error)
    <2>1. c \in Slots /\ c.slot = slot /\ c.element = e /\ c.error = error
          /\ activeVehicle \in Vehicles
      BY <1>1, <1>3, TransferCallRuns, SlotCallFacts, EditFacts
    <2> HIDE DEF c
    <2>2. ~error /\ ~inProgress(activeVehicle, e)
      BY <1>4, <2>1, EditFacts DEF RemovalsDone
    <2>3. FlyOf(activeVehicle)
      BY <1>1, <1>3, TransferCallRuns, EditFacts DEF FlyOf, Base, Stack, Fleet
    <2>4. initialPlanRequestComplete[activeVehicle]
      BY <2>3, EditFacts DEF Fly
    <2> QED  BY <1>4, <2>2, <2>4 DEF Refreshes, ShowsAfter
  <1>5. ASSUME w = "Plan", slot = "managerRemoveAllComplete" PROVE after
    BY <1>4, <1>5 DEF Refreshes
  <1>6. ASSUME w = "Plan", slot = "managerSendComplete" PROVE ~after
    BY <1>6 DEF ShowsAfter
  <1> HIDE DEF shows, after
  <1>7. w = "Plan" => /\ itemsRequested'["Plan"] \subseteq itemsRequested["Plan"]
                      /\ slot # "managerSendComplete" => e \notin itemsRequested'["Plan"]
    BY <1>1, <1>3, <1>4, <1>5, <1>6
  <1>8. slot # "newItems"
    BY <1>3
  <1> QED  BY <1>1, <1>2, <1>7, <1>8, ShownEdits

LEMMA StepEdits ==
    ASSUME Disturbances = {}, EditInv, [Next]_vars
    PROVE  EditInv'
  <1>1. Base /\ FlagInv /\ FlyInv
    BY EditFacts
  <1>2. /\ "vehicles" \notin Disturbances /\ "requests" \notin Disturbances
        /\ "edits" \notin Disturbances /\ "removals" \notin Disturbances
        /\ {"vehicles", "requests"} \cap Disturbances = {}
    OBVIOUS
  <1>3. FlagInv' /\ FlyInv'
    BY <1>1, <1>2, StepFlags, StepFly
  <1> SUFFICES Edits'
    BY <1>3 DEF EditInv
  <1>4. CASE ConnectMachine
    BY <1>1, <1>4, MachineMoves, MovesEdits
  <1>5. CASE VehiclesComeAndGo
    BY <1>2, <1>5, FleetEdits
  <1>6. CASE ViewSlots
    <2>1. PICK w \in Views :
            \/ ActiveVehicleChanged(w)
            \/ \E e \in Elements, error \in BOOLEAN :
                  \/ LoadComplete(w, e, error)
                  \/ SendComplete(w, e, error)
                  \/ NewItems(w, e, error)
                  \/ ManagerComplete("managerSendComplete", w, e, error)
                  \/ ManagerComplete("managerRemoveAllComplete", w, e, error)
      BY <1>6 DEF ViewSlots
    <2>2. CASE ActiveVehicleChanged(w)
      BY <2>2, ToldEdits
    <2>3. ASSUME NEW e \in Elements, NEW error \in BOOLEAN, LoadComplete(w, e, error) PROVE Edits'
      BY <2>3, LoadCompleteEdits
    <2>4. ASSUME NEW e \in Elements, NEW error \in BOOLEAN, SendComplete(w, e, error) PROVE Edits'
      BY <2>4, SendCompleteEdits
    <2>5. ASSUME NEW e \in Elements, NEW error \in BOOLEAN, NewItems(w, e, error) PROVE Edits'
      BY <2>5, NewItemsEdits
    <2>6. ASSUME NEW e \in Elements, NEW error \in BOOLEAN,
                 \/ ManagerComplete("managerSendComplete", w, e, error)
                 \/ ManagerComplete("managerRemoveAllComplete", w, e, error)
          PROVE  Edits'
      BY <2>6, ManagerCompleteEdits DEF ManagerSlots
    <2> QED  BY <2>1, <2>2, <2>3, <2>4, <2>5, <2>6
  <1>7. CASE SomeTransferEnds
    BY <1>2, <1>7, EndsEdits DEF SomeTransferEnds
  <1>8. CASE UserRequest
    BY <1>2, <1>8, UserRequestEdits
  <1>9. CASE UserEdit
    BY <1>2, <1>9, UserEditEdits
  <1>10. CASE UNCHANGED vars
    BY <1>10, StutterEdits
  <1> QED  BY <1>4, <1>5, <1>6, <1>7, <1>8, <1>9, <1>10 DEF Next

(* What the user drew stays in the plan view, marked as unsent, whatever the  *)
(* vehicles that come and go have and whatever is loaded from them: unless    *)
(* one of the disturbances gets in the way, the removal of a plan failing     *)
(* included.                                                                  *)
THEOREM EditsKeptHolds ==
    ASSUME Disturbances = {}
    PROVE  Spec => []EditsKept
  <1>1. EditInv /\ [Next]_vars => EditInv'
    BY StepEdits
  <1>2. EditInv => EditsKept
    BY EditFacts DEF DrawnKept, EditsKept
  <1> QED  BY <1>1, <1>2, InitEdits, PTL DEF Spec

=============================================================================
