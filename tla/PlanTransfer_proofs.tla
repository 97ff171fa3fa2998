------------------------- MODULE PlanTransfer_proofs -------------------------
(* Proofs about PlanTransfer for every plan length, retry limit, capacity of *)
(* the link, set of late timers, failure mode and firmware.  The second half *)
(* is about what a transfer promises, which not every link can keep.         *)
EXTENDS PlanTransfer, WellFoundedInduction, FiniteSetTheorems, TLAPS

-----------------------------------------------------------------------------
(* Lemmas about the operators.                                               *)

(* Sending keeps a direction of the link a sequence of its messages.          *)
LEMMA SentType ==
    ASSUME NEW S, NEW channel \in Seq(S), NEW m \in S
    PROVE  Sent(channel, m) \in Seq(S)
  BY DEF Sent

(* A message from the vehicle carries what its type says.                     *)
LEMMA ToGcsFields ==
    ASSUME NEW m \in ToGcsMessage
    PROVE  /\ m.type \in {"COUNT", "REQUEST", "ITEM", "ACK"}
           /\ m.type = "COUNT" => m.count \in Nat
           /\ m.type = "REQUEST" => m.seq \in Nat
           /\ m.type = "ITEM" => m.seq \in Nat /\ m.item \in Item
           /\ m.type = "ACK" => m.result \in AckResult
  BY DEF ToGcsMessage

(* A message to the vehicle carries what its type says.                       *)
LEMMA ToVehicleFields ==
    ASSUME NEW m \in ToVehicleMessage
    PROVE  /\ m.type = "COUNT" => m.count \in Nat
           /\ m.type = "REQUEST" => m.seq \in Nat
           /\ m.type = "ITEM" => m.seq \in Nat /\ m.item \in Item
  BY DEF ToVehicleMessage

(* Shifting a jump target makes an item of an item.                           *)
LEMMA ShiftedType ==
    ASSUME NEW i \in Item, NEW by \in Int
    PROVE  Shifted(i, by) \in Item
  <1>1. CASE IsJump(i)
    <2>1. i.param1 + by \in Int  BY DEF Item
    <2>2. [i EXCEPT !.param1 = @ + by] \in Item  BY <2>1 DEF Item
    <2> QED  BY <1>1, <2>2 DEF Shifted
  <1>2. CASE ~IsJump(i)
    BY <1>2 DEF Shifted
  <1> QED  BY <1>1, <1>2

(* An item read from the vehicle is an item.                                  *)
LEMMA FromVehicleType ==
    ASSUME NEW i \in Item
    PROVE  FromVehicle(i) \in Item
  BY ShiftedType DEF FromVehicle

(* The members of a list of entries carry an item and its number.             *)
LEMMA EntryFields ==
    ASSUME NEW list \in Seq(Entry), NEW j \in 1 .. Len(list)
    PROVE  list[j] \in Entry /\ list[j].seq \in Nat /\ list[j].item \in Item
  <1>1. list[j] \in Entry
    OBVIOUS
  <1> QED  BY <1>1 DEF Entry

(* The write list numbers its items 0, 1, 2, ...                              *)
LEMMA WriteListType ==
    ASSUME NEW items \in Seq(Item)
    PROVE  /\ WriteList(items) \in Seq(Entry)
           /\ \A k \in 1 .. Len(WriteList(items)) : WriteList(items)[k].seq = k - 1
  <1>1. CASE skipFirstItem
    <2> DEFINE n == Len(items) - 1
               list == [k \in 1 .. n |-> [seq |-> k - 1, item |-> Shifted(items[k + 1], -1)]]
    <2>1. WriteList(items) = list  BY <1>1 DEF WriteList
    <2>2. \A k \in 1 .. n : [seq |-> k - 1, item |-> Shifted(items[k + 1], -1)] \in Entry
      BY ShiftedType DEF Entry
    <2>3. CASE items = <<>>
      <3>1. list = <<>>  BY <2>3
      <3>2. WriteList(items) = <<>>  BY <3>1, <2>1
      <3> QED  BY <3>2
    <2>4. CASE items # <<>>
      <3>1. n \in Nat  BY <2>4
      <3>2. list \in Seq(Entry) /\ Len(list) = n  BY <2>2, <3>1
      <3> QED  BY <2>1, <3>1, <3>2
    <2> QED  BY <2>3, <2>4
  <1>2. CASE ~skipFirstItem
    <2> DEFINE list == [k \in 1 .. Len(items) |-> [seq |-> k - 1, item |-> items[k]]]
    <2>1. WriteList(items) = list  BY <1>2 DEF WriteList
    <2>2. \A k \in 1 .. Len(items) : [seq |-> k - 1, item |-> items[k]] \in Entry
      BY DEF Entry
    <2>3. list \in Seq(Entry) /\ Len(list) = Len(items)  BY <2>2
    <2> QED  BY <2>1, <2>3
  <1> QED  BY <1>1, <1>2

-----------------------------------------------------------------------------
(* Type correctness.                                                         *)

(* The end of a transaction leaves well-typed variables.                      *)
LEMMA FinishType ==
    ASSUME ManagerTypeOK, NEW success \in BOOLEAN, NEW items \in Seq(Entry),
           FinishTransaction(success, items)
    PROVE  /\ connected' \in BOOLEAN /\ resumeMission' \in BOOLEAN
           /\ transaction' \in Transaction
           /\ indicesToRead' \in SUBSET Nat /\ indicesToWrite' \in SUBSET Nat
           /\ missionItems' \in Seq(Entry) /\ writeMissionItems' \in Seq(Entry)
           /\ signals' \in SUBSET (Signal \X BOOLEAN)
  <1>0. \A name \in Signal, error \in BOOLEAN : {<<name, error>>} \in SUBSET (Signal \X BOOLEAN)
    OBVIOUS
  <1>1. CompletionSignals(success) \in SUBSET (Signal \X BOOLEAN)
    <2>1. (~success) \in BOOLEAN
      OBVIOUS
    <2>2. CompletionSignals(success) \in
             {{}, {<<"newMissionItemsAvailable", FALSE>>}, {<<"sendComplete", ~success>>},
              {<<"removeAllComplete", ~success>>}}
      BY DEF CompletionSignals
    <2> QED  BY ZenonT(60), <1>0, <2>1, <2>2 DEF Signal
  <1>2. ResumeSignals(success) \in SUBSET (Signal \X BOOLEAN)
    BY <1>0 DEF ResumeSignals, Signal
  <1>3. ErrorSignal(success) \in SUBSET (Signal \X BOOLEAN)
    BY <1>0 DEF ErrorSignal, Signal
  <1>4. signals' \in SUBSET (Signal \X BOOLEAN)
    BY <1>1, <1>2, <1>3 DEF FinishTransaction
  <1>5. ListAfter(success, items) \in Seq(Entry)
    BY DEF ListAfter, ManagerTypeOK
  <1>6. writeMissionItems' \in Seq(Entry)
    BY DEF FinishTransaction, ManagerTypeOK
  <1> QED  BY <1>4, <1>5, <1>6 DEF FinishTransaction, Transaction

(* A transaction that starts, starts well-typed.                              *)
LEMMA StartType ==
    ASSUME TypeOK, StartTransaction
    PROVE  LinkTypeOK' /\ ManagerTypeOK'
  <1> USE ManagerAssumption DEF ToVehicleMessage
  <1>1. CASE LoadFromVehicle
    <2>1. toVehicle' \in Seq(ToVehicleMessage)
      BY <1>1, SentType DEF LoadFromVehicle, SendRequestList, SendToVehicle, TypeOK, LinkTypeOK
    <2> QED
      BY <1>1, <2>1 DEF LoadFromVehicle, ClearMissionItems, StartAckTimeout, TypeOK, LinkTypeOK,
                        ManagerTypeOK, AckType, Transaction
  <1>2. ASSUME NEW list \in Seq(Entry), StartWrite(list), resumeMission' \in BOOLEAN
        PROVE  LinkTypeOK' /\ ManagerTypeOK'
    <2>1. toVehicle' \in Seq(ToVehicleMessage)
      BY <1>2, SentType DEF StartWrite, SendMissionCount, SendToVehicle, TypeOK, LinkTypeOK
    <2>2. indicesToWrite' \in SUBSET Nat
      BY <1>2 DEF StartWrite
    <2> QED
      BY <1>2, <2>1, <2>2 DEF StartWrite, StartAckTimeout, TypeOK, LinkTypeOK,
                        ManagerTypeOK, AckType, Transaction
  <1>3. CASE WriteMissionItems
    <2>1. PICK items \in EditorPlans : StartWrite(WriteList(items))
      BY <1>3 DEF WriteMissionItems
    <2>2. WriteList(items) \in Seq(Entry)
      BY WriteListType
    <2> QED  BY <1>2, <1>3, <2>1, <2>2 DEF WriteMissionItems, TypeOK, ManagerTypeOK
  <1>4. CASE GenerateResumeMission
    <2>0. PICK n \in 1 .. Len(missionItems) : \E pos \in ResumePositions(n) :
             StartWrite([k \in 1 .. n |-> [seq |-> k - 1, item |-> missionItems[pos[k]].item]])
      BY <1>4 DEF GenerateResumeMission
    <2>1. PICK pos \in ResumePositions(n) :
             StartWrite([k \in 1 .. n |-> [seq |-> k - 1, item |-> missionItems[pos[k]].item]])
      BY <2>0
    <2> DEFINE list == [k \in 1 .. n |-> [seq |-> k - 1, item |-> missionItems[pos[k]].item]]
    <2>2. \A k \in 1 .. n : pos[k] \in 1 .. Len(missionItems)
      BY DEF ResumePositions
    <2>3. \A j \in 1 .. Len(missionItems) : missionItems[j].item \in Item
      BY EntryFields DEF TypeOK, ManagerTypeOK
    <2>4. n \in Nat
      BY <2>0 DEF TypeOK, ManagerTypeOK
    <2>5. ASSUME NEW k \in 1 .. n
          PROVE  [seq |-> k - 1, item |-> missionItems[pos[k]].item] \in Entry
      <3>1. k - 1 \in Nat
        BY <2>4
      <3>2. missionItems[pos[k]].item \in Item
        BY <2>2, <2>3
      <3> QED  BY <3>1, <3>2 DEF Entry
    <2>6. list \in Seq(Entry)
      BY <2>4, <2>5
    <2> QED  BY <1>2, <1>4, <2>1, <2>6 DEF GenerateResumeMission
  <1>5. CASE RemoveAll
    <2>1. toVehicle' \in Seq(ToVehicleMessage)
      BY <1>5, SentType DEF RemoveAll, SendClearAll, SendToVehicle, TypeOK, LinkTypeOK
    <2> QED
      BY <1>5, <2>1 DEF RemoveAll, StartAckTimeout, TypeOK, LinkTypeOK,
                        ManagerTypeOK, AckType, Transaction
  <1>6. CASE WriteGuidedItem
    <2>1. toVehicle' \in Seq(ToVehicleMessage)
      BY <1>6, SentType DEF WriteGuidedItem, SendToVehicle, TypeOK, LinkTypeOK
    <2> QED
      BY <1>6, <2>1 DEF WriteGuidedItem, StartAckTimeout, TypeOK, LinkTypeOK,
                        ManagerTypeOK, AckType, Transaction
  <1> QED  BY <1>1, <1>3, <1>4, <1>5, <1>6 DEF StartTransaction

(* The lowest of some indices is one of them.                                 *)
LEMMA FirstIsMember ==
    ASSUME NEW indices \in SUBSET Nat, indices # {}
    PROVE  First(indices) \in indices
  <1> DEFINE Below == {ss \in Nat \X Nat : ss[1] < ss[2]}
  <1>1. IsWellFoundedOn(Below, Nat)
    BY NatLessThanWellFounded DEF OpToRel
  <1>2. \E i \in indices : \A j \in indices : <<j, i>> \notin Below
    <2> HIDE DEF Below
    <2> QED  BY <1>1, WFMin
  <1>3. \A i, j \in Nat : <<j, i>> \notin Below => i <= j
    OBVIOUS
  <1>4. PICK i \in indices : \A j \in indices : <<j, i>> \notin Below
    BY <1>2
  <1>5. \A j \in indices : i <= j
    <2> HIDE DEF Below
    <2> QED  BY <1>3, <1>4
  <1> QED  BY <1>5 DEF First

(* What is left of the channel from the vehicle, and what has been taken off. *)
LEMMA ArrivalType ==
    ASSUME TypeOK, toGcs # <<>>
    PROVE  Head(toGcs) \in ToGcsMessage /\ Tail(toGcs) \in Seq(ToGcsMessage)
  BY DEF TypeOK, LinkTypeOK

(* The end of a guided item leaves well-typed variables.                      *)
LEMMA FinishGuidedType ==
    ASSUME ManagerTypeOK, NEW success \in BOOLEAN, FinishGuidedItem(success)
    PROVE  /\ connected' \in BOOLEAN /\ resumeMission' \in BOOLEAN
           /\ transaction' \in Transaction
           /\ indicesToRead' \in SUBSET Nat /\ indicesToWrite' \in SUBSET Nat
           /\ missionItems' \in Seq(Entry) /\ writeMissionItems' \in Seq(Entry)
           /\ signals' \in SUBSET (Signal \X BOOLEAN)
  <1>0. \A name \in Signal, error \in BOOLEAN : {<<name, error>>} \in SUBSET (Signal \X BOOLEAN)
    OBVIOUS
  <1>1. ResumeSignals(success) \in SUBSET (Signal \X BOOLEAN)
    BY <1>0 DEF ResumeSignals, Signal
  <1>2. ErrorSignal(success) \in SUBSET (Signal \X BOOLEAN)
    BY <1>0 DEF ErrorSignal, Signal
  <1>3. signals' \in SUBSET (Signal \X BOOLEAN)
    BY <1>1, <1>2 DEF FinishGuidedItem
  <1> QED  BY <1>3 DEF FinishGuidedItem, Transaction, ManagerTypeOK

(* Going on with a read, or completing it, keeps the types.                   *)
LEMMA ReadStepType ==
    ASSUME TypeOK, NEW left \in SUBSET Nat, NEW items \in Seq(Entry),
           toGcs' \in Seq(ToGcsMessage), noise' = noise, retryCount' = 0,
           \/ left # {} /\ ContinueRead(left, items)
           \/ ReadTransactionComplete(items)
    PROVE  LinkTypeOK' /\ ManagerTypeOK'
  <1> USE ManagerAssumption DEF ToVehicleMessage
  <1>1. CASE left # {} /\ ContinueRead(left, items)
    <2>1. First(left) \in Nat
      BY <1>1, FirstIsMember
    <2>2. toVehicle' \in Seq(ToVehicleMessage)
      BY <1>1, <2>1, SentType DEF ContinueRead, RequestNextMissionItem, SendToVehicle, TypeOK, LinkTypeOK
    <2> QED
      BY <1>1, <2>2 DEF ContinueRead, RequestNextMissionItem, StartAckTimeout, TypeOK, LinkTypeOK,
                        ManagerTypeOK, AckType
  <1>2. CASE ReadTransactionComplete(items)
    <2>1. toVehicle' \in Seq(ToVehicleMessage)
      BY <1>2, SentType DEF ReadTransactionComplete, SendToVehicle, TypeOK, LinkTypeOK
    <2>2. FinishTransaction(TRUE, items) /\ StopAckTimeout /\ ManagerTypeOK
      BY <1>2 DEF ReadTransactionComplete, TypeOK
    <2>3. /\ connected' \in BOOLEAN /\ resumeMission' \in BOOLEAN
          /\ transaction' \in Transaction
          /\ indicesToRead' \in SUBSET Nat /\ indicesToWrite' \in SUBSET Nat
          /\ missionItems' \in Seq(Entry) /\ writeMissionItems' \in Seq(Entry)
          /\ signals' \in SUBSET (Signal \X BOOLEAN)
      BY <2>2, FinishType, Zenon
    <2>4. LinkTypeOK'
      BY <2>1 DEF TypeOK, LinkTypeOK
    <2>5. retryCount' \in 0 .. (MaxRetryCount + 1)
      OBVIOUS
    <2>6. expectedAck' \in AckType /\ timerRunning' \in BOOLEAN
      BY <2>2 DEF StopAckTimeout, AckType
    <2> QED
      BY <2>3, <2>4, <2>5, <2>6 DEF ManagerTypeOK
  <1> QED  BY <1>1, <1>2

(* Every message from the vehicle leaves well-typed variables.                *)
LEMMA AnswerType ==
    ASSUME TypeOK, ReceiveFromVehicle
    PROVE  LinkTypeOK' /\ ManagerTypeOK'
  <1> USE ManagerAssumption
  <1> DEFINE m == Head(toGcs)
  <1>0. m \in ToGcsMessage /\ toGcs' \in Seq(ToGcsMessage) /\ noise' = noise
    <2>1. toGcs # <<>> /\ toGcs' = Tail(toGcs) /\ noise' = noise
      BY DEF ReceiveFromVehicle, HandleMissionCount, HandleMissionItem, HandleHomePosition,
             HandleMissionRequest, HandleMissionAck, IgnoreMessage, Arrives
    <2> QED  BY <2>1, ArrivalType
  <1> HIDE DEF m
  <1>1. CASE HandleMissionCount
    <2>1. m.type = "COUNT" /\ retryCount' = 0
      BY <1>1 DEF HandleMissionCount, Arrives, m
    <2>2. m.count \in Nat
      BY <1>0, <2>1, ToGcsFields
    <2>3. \/ m.count = 0 /\ ReadTransactionComplete(missionItems)
          \/ m.count > 0 /\ ContinueRead(IndicesOf(m.count), missionItems)
      BY <1>1 DEF HandleMissionCount, m
    <2>4. IndicesOf(m.count) \in SUBSET Nat /\ (m.count > 0 => IndicesOf(m.count) # {})
      <3>1. m.count > 0 => 0 \in 0 .. (m.count - 1)
        BY <2>2
      <3> QED  BY <2>2, <3>1 DEF IndicesOf
    <2>5. missionItems \in Seq(Entry)
      BY DEF TypeOK, ManagerTypeOK
    <2>6. \/ IndicesOf(m.count) # {} /\ ContinueRead(IndicesOf(m.count), missionItems)
          \/ ReadTransactionComplete(missionItems)
      BY <2>3, <2>4
    <2> QED  BY <1>0, <2>1, <2>4, <2>5, <2>6, ReadStepType
  <1>2. CASE HandleMissionItem /\ DisregardMissionItem
    BY <1>0, <1>2 DEF DisregardMissionItem, StartAckTimeout, TypeOK, LinkTypeOK, ManagerTypeOK, AckType
  <1>3. CASE HandleMissionItem /\ TakeMissionItem
    <2> DEFINE left == indicesToRead \ {m.seq}
               items == Append(missionItems, [seq |-> m.seq, item |-> FromVehicle(m.item)])
    <2>1. m.type = "ITEM"
      BY <1>3 DEF HandleMissionItem, Arrives, m
    <2>2. m.seq \in Nat /\ m.item \in Item
      BY <1>0, <2>1, ToGcsFields
    <2>3. FromVehicle(m.item) \in Item
      BY <2>2, FromVehicleType
    <2>4. [seq |-> m.seq, item |-> FromVehicle(m.item)] \in Entry
      BY <2>2, <2>3 DEF Entry
    <2>5. items \in Seq(Entry) /\ left \in SUBSET Nat
      <3>1. missionItems \in Seq(Entry) /\ indicesToRead \in SUBSET Nat
        BY DEF TypeOK, ManagerTypeOK
      <3>2. left \in SUBSET Nat
        BY <3>1
      <3>3. \A e \in Entry : Append(missionItems, e) \in Seq(Entry)
        BY <3>1
      <3> QED  BY <2>4, <3>2, <3>3
    <2>6. retryCount' = 0 /\ (\/ left = {} /\ ReadTransactionComplete(items)
                              \/ left # {} /\ ContinueRead(left, items))
      BY <1>3 DEF TakeMissionItem, m
    <2> HIDE DEF left, items
    <2> QED  BY <1>0, <2>5, <2>6, ReadStepType
  <1>4. CASE HandleHomePosition
    <2>1. signals' \in SUBSET (Signal \X BOOLEAN)
      <3>1. \A name \in Signal, error \in BOOLEAN :
               {<<name, error>>} \in SUBSET (Signal \X BOOLEAN)
        OBVIOUS
      <3>2. signals' = {<<"homePosition", FALSE>>} /\ "homePosition" \in Signal
        BY <1>4 DEF HandleHomePosition, Signal
      <3> QED  BY <3>1, <3>2
    <2> QED
      BY <1>0, <1>4, <2>1 DEF HandleHomePosition, TypeOK, LinkTypeOK, ManagerTypeOK
  <1>5. CASE HandleMissionRequest /\ SendRequestedItem(m.seq)
    <2>1. m.type = "REQUEST" /\ retryCount' = retryCount
      BY <1>5 DEF HandleMissionRequest, Arrives, m
    <2>2. m.seq \in Nat /\ m.seq + 1 \in 1 .. Len(writeMissionItems)
      BY <1>0, <1>5, <2>1, ToGcsFields DEF SendRequestedItem, TypeOK, ManagerTypeOK
    <2>3. writeMissionItems[m.seq + 1].item \in Item
      BY <2>2, EntryFields DEF TypeOK, ManagerTypeOK
    <2>4. [type |-> "ITEM", seq |-> m.seq, item |-> writeMissionItems[m.seq + 1].item]
             \in ToVehicleMessage
      BY <2>2, <2>3 DEF ToVehicleMessage
    <2>5. toVehicle' \in Seq(ToVehicleMessage)
      BY <1>5, <2>4, SentType DEF SendRequestedItem, SendToVehicle, TypeOK, LinkTypeOK
    <2>6. indicesToWrite' \in SUBSET Nat /\ expectedAck' \in AckType /\ timerRunning' \in BOOLEAN
      BY <1>5 DEF SendRequestedItem, StartAckTimeout, AckType, TypeOK, ManagerTypeOK
    <2> QED
      BY <1>0, <1>5, <2>1, <2>5, <2>6 DEF SendRequestedItem, TypeOK, LinkTypeOK, ManagerTypeOK
  <1>6. ASSUME StopAckTimeout, retryCount' = retryCount, toVehicle' = toVehicle,
               NEW success \in BOOLEAN,
               FinishTransaction(success, missionItems) \/ FinishGuidedItem(success)
        PROVE  LinkTypeOK' /\ ManagerTypeOK'
    <2>1. missionItems \in Seq(Entry) /\ ManagerTypeOK
      BY DEF TypeOK, ManagerTypeOK
    <2>2. /\ connected' \in BOOLEAN /\ resumeMission' \in BOOLEAN
          /\ transaction' \in Transaction
          /\ indicesToRead' \in SUBSET Nat /\ indicesToWrite' \in SUBSET Nat
          /\ missionItems' \in Seq(Entry) /\ writeMissionItems' \in Seq(Entry)
          /\ signals' \in SUBSET (Signal \X BOOLEAN)
      <3>1. CASE FinishTransaction(success, missionItems)
        BY <2>1, <3>1, FinishType, Zenon
      <3>2. CASE FinishGuidedItem(success)
        BY <2>1, <3>2, FinishGuidedType, Zenon
      <3> QED  BY <1>6, <3>1, <3>2
    <2>3. LinkTypeOK'
      BY <1>0, <1>6 DEF TypeOK, LinkTypeOK
    <2>4. expectedAck' \in AckType /\ timerRunning' \in BOOLEAN
      BY <1>6 DEF StopAckTimeout, AckType
    <2>5. retryCount' \in 0 .. (MaxRetryCount + 1)
      BY <1>6 DEF TypeOK, ManagerTypeOK
    <2> QED  BY <2>2, <2>3, <2>4, <2>5 DEF ManagerTypeOK
  <1>7. CASE HandleMissionRequest /\ RefuseRequestedItem(m.seq)
    <2>1. /\ StopAckTimeout /\ retryCount' = retryCount /\ toVehicle' = toVehicle
          /\ FinishTransaction(FALSE, missionItems)
      BY <1>7 DEF HandleMissionRequest, RefuseRequestedItem
    <2> QED  BY <1>6, <2>1
  <1>8. CASE HandleMissionAck
    <2>1. AckMeansSuccess(m.result) \in BOOLEAN
      BY DEF AckMeansSuccess
    <2>2. /\ StopAckTimeout /\ retryCount' = retryCount /\ toVehicle' = toVehicle
          /\ \/ FinishTransaction(AckMeansSuccess(m.result), missionItems)
             \/ FinishGuidedItem(AckMeansSuccess(m.result))
      BY <1>8 DEF HandleMissionAck, m
    <2> QED  BY <1>6, <2>1, <2>2
  <1>9. CASE IgnoreMessage
    BY <1>0, <1>9 DEF IgnoreMessage, TypeOK, LinkTypeOK, ManagerTypeOK
  <1> QED
    BY <1>1, <1>2, <1>3, <1>4, <1>5, <1>7, <1>8, <1>9
    DEF ReceiveFromVehicle, HandleMissionItem, HandleMissionRequest, m

(* The ack timer leaves well-typed variables.  A retry of an item asks for    *)
(* the first open index, so there has to be one.                              *)
LEMMA TimeoutType ==
    ASSUME TypeOK, WaitsForAnAnswer, SomethingLeftToRead, AckTimeout
    PROVE  LinkTypeOK' /\ ManagerTypeOK'
  <1> USE ManagerAssumption
  <1>0. toGcs' = toGcs /\ noise' = noise /\ timerRunning
    BY DEF AckTimeout, MissionCountTimeout, MissionItemTimeout, MissionRequestTimeout,
           ClearAllTimeout, GuidedItemTimeout, TimerFires
  <1>1. ASSUME NEW ack \in AckType, GiveUp(ack)
        PROVE  LinkTypeOK' /\ ManagerTypeOK'
    <2>1. missionItems \in Seq(Entry) /\ ManagerTypeOK
      BY DEF TypeOK, ManagerTypeOK
    <2>2. FinishTransaction(FALSE, missionItems)
      BY <1>1 DEF GiveUp
    <2>3. /\ connected' \in BOOLEAN /\ resumeMission' \in BOOLEAN
          /\ transaction' \in Transaction
          /\ indicesToRead' \in SUBSET Nat /\ indicesToWrite' \in SUBSET Nat
          /\ missionItems' \in Seq(Entry) /\ writeMissionItems' \in Seq(Entry)
          /\ signals' \in SUBSET (Signal \X BOOLEAN)
      BY <2>1, <2>2, FinishType, Zenon
    <2>4. /\ expectedAck' \in AckType /\ timerRunning' \in BOOLEAN
          /\ retryCount' = retryCount /\ toVehicle' = toVehicle
      BY <1>1 DEF GiveUp
    <2>5. retryCount' \in 0 .. (MaxRetryCount + 1)
      BY <2>4 DEF TypeOK, ManagerTypeOK
    <2> QED  BY <1>0, <2>3, <2>4, <2>5 DEF ManagerTypeOK, TypeOK, LinkTypeOK
  <1>2. ASSUME NEW ack \in AckType, Retry(ack), NEW msg \in ToVehicleMessage, SendToVehicle(msg),
               connected' \in BOOLEAN, indicesToRead' \in SUBSET Nat,
               missionItems' \in Seq(Entry)
        PROVE  LinkTypeOK' /\ ManagerTypeOK'
    <2>1. toVehicle' \in Seq(ToVehicleMessage)
      BY <1>2, SentType DEF SendToVehicle, TypeOK, LinkTypeOK
    <2>2. retryCount' \in 0 .. (MaxRetryCount + 1)
      BY <1>2 DEF Retry, mayRetry, TypeOK, ManagerTypeOK
    <2> QED
      BY <1>0, <1>2, <2>1, <2>2 DEF Retry, StartAckTimeout, TypeOK, LinkTypeOK, ManagerTypeOK
  <1> USE DEF ToVehicleMessage
  <1>3. CASE MissionCountTimeout
    <2>1. CASE GiveUp("MissionCount")
      BY <1>1, <2>1 DEF AckType
    <2>2. CASE Retry("MissionCount") /\ SendRequestList /\ ClearMissionItems /\ connected' = connected
      <3>1. [type |-> "REQUEST_LIST"] \in ToVehicleMessage /\ "MissionCount" \in AckType
        BY DEF AckType
      <3>2. connected' \in BOOLEAN /\ indicesToRead' \in SUBSET Nat /\ missionItems' \in Seq(Entry)
        BY <2>2 DEF ClearMissionItems, TypeOK, ManagerTypeOK
      <3> QED  BY <1>2, <2>2, <3>1, <3>2 DEF SendRequestList
    <2> QED  BY <1>3, <2>1, <2>2 DEF MissionCountTimeout
  <1>4. CASE MissionItemTimeout
    <2>1. CASE GiveUp("MissionItem")
      BY <1>1, <2>1 DEF AckType
    <2>2. CASE /\ Retry("MissionItem")
               /\ SendToVehicle([type |-> "REQUEST", seq |-> First(indicesToRead)])
               /\ UNCHANGED <<indicesToRead, missionItems, connected>>
      <3>1. indicesToRead # {} /\ indicesToRead \in SUBSET Nat
        BY <1>0, <1>4 DEF MissionItemTimeout, TimerFires, WaitsForAnAnswer, inProgress,
                          SomethingLeftToRead, TypeOK, ManagerTypeOK, Transaction
      <3>2. First(indicesToRead) \in Nat
        BY <3>1, FirstIsMember
      <3>3. [type |-> "REQUEST", seq |-> First(indicesToRead)] \in ToVehicleMessage
        BY <3>2
      <3>4. connected' \in BOOLEAN /\ indicesToRead' \in SUBSET Nat /\ missionItems' \in Seq(Entry)
        BY <2>2 DEF TypeOK, ManagerTypeOK
      <3> QED  BY <1>2, <2>2, <3>3, <3>4 DEF AckType
    <2> QED  BY <1>4, <2>1, <2>2 DEF MissionItemTimeout
  <1>5. CASE MissionRequestTimeout
    <2>1. CASE GiveUp("MissionRequest") \/ GiveUp("None")
      BY <1>1, <2>1 DEF AckType
    <2>2. CASE /\ Retry("MissionRequest")
               /\ SendMissionCount(Len(writeMissionItems))
               /\ UNCHANGED <<indicesToRead, missionItems, connected>>
      <3>1. Len(writeMissionItems) \in Nat
        BY DEF TypeOK, ManagerTypeOK
      <3>2. [type |-> "COUNT", count |-> Len(writeMissionItems)] \in ToVehicleMessage
        BY <3>1
      <3>3. connected' \in BOOLEAN /\ indicesToRead' \in SUBSET Nat /\ missionItems' \in Seq(Entry)
        BY <2>2 DEF TypeOK, ManagerTypeOK
      <3> QED  BY <1>2, <2>2, <3>2, <3>3 DEF SendMissionCount, AckType
    <2> QED  BY <1>5, <2>1, <2>2 DEF MissionRequestTimeout
  <1>6. CASE ClearAllTimeout
    <2>1. CASE GiveUp("MissionClearAll")
      BY <1>1, <2>1 DEF AckType
    <2>2. CASE /\ Retry("MissionClearAll") /\ SendClearAll /\ connected' = TRUE
               /\ UNCHANGED <<indicesToRead, missionItems>>
      <3>1. [type |-> "CLEAR_ALL"] \in ToVehicleMessage /\ "MissionClearAll" \in AckType
        BY DEF AckType
      <3>2. connected' \in BOOLEAN /\ indicesToRead' \in SUBSET Nat /\ missionItems' \in Seq(Entry)
        BY <2>2 DEF TypeOK, ManagerTypeOK
      <3> QED  BY <1>2, <2>2, <3>1, <3>2 DEF SendClearAll
    <2> QED  BY <1>6, <2>1, <2>2 DEF ClearAllTimeout
  <1>7. CASE GuidedItemTimeout
    BY <1>1, <1>7 DEF GuidedItemTimeout, AckType
  <1> QED  BY <1>3, <1>4, <1>5, <1>6, <1>7 DEF AckTimeout

(* The vehicle's handlers leave well-typed variables.                         *)
LEMMA VehicleType ==
    ASSUME TypeOK, ReceiveFromGcs
    PROVE  LinkTypeOK' /\ HandlerTypeOK'
  <1> USE HandlerAssumption
  <1> DEFINE m == Head(toVehicle)
  <1>0. /\ m \in ToVehicleMessage /\ toVehicle' \in Seq(ToVehicleMessage)
        /\ noise' = noise /\ failureMode' = failureMode
    <2>1. /\ toVehicle # <<>> /\ toVehicle' = Tail(toVehicle)
          /\ noise' = noise /\ failureMode' = failureMode
      BY DEF ReceiveFromGcs, HandleMissionRequestList, HandleMissionRequestRead,
             HandleMissionCountWrite, HandleMissionItemWrite, HandleMissionClearAll,
             HandleMissionAckRead, HandleGuidedItem, Takes
    <2> QED  BY <2>1 DEF TypeOK, LinkTypeOK
  <1> HIDE DEF m
  <1>1. ASSUME NEW r \in ToGcsMessage, Respond(r)
        PROVE  toGcs' \in Seq(ToGcsMessage)
    BY <1>1, SentType DEF Respond, TypeOK, LinkTypeOK
  <1>2. ASSUME NoResponse
        PROVE  toGcs' \in Seq(ToGcsMessage)
    BY <1>2 DEF NoResponse, TypeOK, LinkTypeOK
  <1>3. ASSUME NEW r \in AckResult
        PROVE  AckReply(r) \in ToGcsMessage
    BY DEF AckReply, ToGcsMessage
  <1>4. ASSUME NEW seq \in Nat, NEW count \in Nat, RequestNextItem(seq, count)
        PROVE  toGcs' \in Seq(ToGcsMessage)
    <2>1. ASSUME NEW asked \in Nat
          PROVE  RequestReply(asked) \in ToGcsMessage
      BY DEF RequestReply, ToGcsMessage
    <2>2. \/ NoResponse \/ Respond(AckReply("ERROR"))
          \/ Respond(RequestReply(seq)) \/ Respond(RequestReply(seq + 1))
      BY <1>4 DEF RequestNextItem
    <2>3. AckReply("ERROR") \in ToGcsMessage
      BY <1>3 DEF AckResult
    <2> QED  BY <1>1, <1>2, <2>1, <2>2, <2>3
  <1>5. ASSUME NEW seq \in Nat, NEW item \in Item
        PROVE  /\ DOMAIN WithItem(vehicleItems, seq, item) \in SUBSET Nat
               /\ IsFiniteSet(DOMAIN WithItem(vehicleItems, seq, item))
               /\ \A s \in DOMAIN WithItem(vehicleItems, seq, item) :
                     WithItem(vehicleItems, seq, item)[s] \in Item
    <2>1. DOMAIN WithItem(vehicleItems, seq, item) = DOMAIN vehicleItems \cup {seq}
      BY DEF WithItem
    <2>2. IsFiniteSet(DOMAIN vehicleItems \cup {seq})
      BY FS_AddElement DEF TypeOK, HandlerTypeOK
    <2>3. ASSUME NEW s \in DOMAIN vehicleItems \cup {seq}
          PROVE  WithItem(vehicleItems, seq, item)[s] \in Item
      BY DEF WithItem, TypeOK, HandlerTypeOK
    <2> QED  BY <2>1, <2>2, <2>3 DEF TypeOK, HandlerTypeOK
  <1>6. /\ DOMAIN noItems \in SUBSET Nat /\ IsFiniteSet(DOMAIN noItems)
        /\ \A s \in DOMAIN noItems : noItems[s] \in Item
    BY FS_EmptySet DEF noItems
  <1>7. ASSUME NEW seq \in Nat, AnswerRequest(seq)
        PROVE  /\ DOMAIN vehicleItems' \in SUBSET Nat /\ IsFiniteSet(DOMAIN vehicleItems')
               /\ \A s \in DOMAIN vehicleItems' : vehicleItems'[s] \in Item
               /\ toGcs' \in Seq(ToGcsMessage)
    <2>1. BlankItem \in Item
      BY DEF BlankItem, Item
    <2>2. /\ DOMAIN vehicleItems' \in SUBSET Nat /\ IsFiniteSet(DOMAIN vehicleItems')
          /\ \A s \in DOMAIN vehicleItems' : vehicleItems'[s] \in Item
      <3>1. CASE seq \in DOMAIN vehicleItems
        BY <1>7, <3>1 DEF AnswerRequest, TypeOK, HandlerTypeOK
      <3>2. CASE seq \notin DOMAIN vehicleItems
        <4>1. vehicleItems' = WithItem(vehicleItems, seq, BlankItem)
          BY <1>7, <3>2 DEF AnswerRequest
        <4> QED  BY <1>5, <2>1, <4>1
      <3> QED  BY <3>1, <3>2
    <2>3. seq \in DOMAIN vehicleItems'
      BY <1>7 DEF AnswerRequest, WithItem
    <2>4. ItemReply(seq, vehicleItems'[seq]) \in ToGcsMessage
      BY <2>2, <2>3 DEF ItemReply, ToGcsMessage
    <2> QED  BY <1>1, <1>7, <2>2, <2>4 DEF AnswerRequest
  <1>8. LinkTypeOK' <=> toGcs' \in Seq(ToGcsMessage)
    BY <1>0 DEF TypeOK, LinkTypeOK
  <1>9. ASSUME vehicleItems' = vehicleItems \/ vehicleItems' = noItems
        PROVE  /\ DOMAIN vehicleItems' \in SUBSET Nat /\ IsFiniteSet(DOMAIN vehicleItems')
               /\ \A s \in DOMAIN vehicleItems' : vehicleItems'[s] \in Item
    BY <1>6, <1>9 DEF TypeOK, HandlerTypeOK
  <1>10. CASE HandleMissionRequestList
    <2>1. itemCount \in Nat
      BY FS_CardinalityType DEF itemCount, TypeOK, HandlerTypeOK
    <2>2. CountReply(itemCount) \in ToGcsMessage
      BY <2>1 DEF CountReply, ToGcsMessage
    <2>3. toGcs' \in Seq(ToGcsMessage)
      BY <1>1, <1>2, <1>10, <2>2 DEF HandleMissionRequestList
    <2>4. failFirstResponse' \in BOOLEAN /\ UNCHANGED <<vehicleItems, writeSequenceCount, writeSequenceIndex>>
      BY <1>10 DEF HandleMissionRequestList, TypeOK, HandlerTypeOK
    <2> QED  BY <1>0, <1>8, <2>3, <2>4 DEF TypeOK, HandlerTypeOK
  <1>11. CASE HandleMissionRequestRead
    <2>1. m.seq \in Nat /\ m.seq + 1 \in Nat
      <3>1. m.type = "REQUEST"
        BY <1>11 DEF HandleMissionRequestRead, Takes, m
      <3>2. m.seq \in Nat
        BY <1>0, <3>1, ToVehicleFields
      <3> QED  BY <3>2
    <2>2. \/ NoResponse /\ vehicleItems' = vehicleItems
          \/ Respond(AckReply("ERROR")) /\ vehicleItems' = vehicleItems
          \/ AnswerRequest(m.seq + 1)
          \/ AnswerRequest(m.seq)
      BY <1>11 DEF HandleMissionRequestRead, m
    <2>3. AckReply("ERROR") \in ToGcsMessage
      BY <1>3 DEF AckResult
    <2>4. /\ toGcs' \in Seq(ToGcsMessage)
          /\ DOMAIN vehicleItems' \in SUBSET Nat /\ IsFiniteSet(DOMAIN vehicleItems')
          /\ \A s \in DOMAIN vehicleItems' : vehicleItems'[s] \in Item
      BY <1>1, <1>2, <1>7, <1>9, <2>1, <2>2, <2>3
    <2>5. failFirstResponse' \in BOOLEAN /\ UNCHANGED <<writeSequenceCount, writeSequenceIndex>>
      BY <1>11 DEF HandleMissionRequestRead, TypeOK, HandlerTypeOK
    <2> QED  BY <1>0, <1>8, <2>4, <2>5 DEF TypeOK, HandlerTypeOK
  <1>12. CASE HandleMissionCountWrite
    <2>1. m.type = "COUNT"
      BY <1>12 DEF HandleMissionCountWrite, Takes, m
    <2>2. m.count \in Nat
      BY <1>0, <2>1, ToVehicleFields
    <2>3. \/ Respond(AckReply("ACCEPTED"))
          \/ NoResponse
          \/ RequestNextItem(0, m.count)
      BY <1>12 DEF HandleMissionCountWrite, m
    <2>4. AckReply("ACCEPTED") \in ToGcsMessage
      BY <1>3 DEF AckResult
    <2>5. toGcs' \in Seq(ToGcsMessage)
      BY <1>1, <1>2, <1>4, <2>2, <2>3, <2>4
    <2>6. /\ vehicleItems' = noItems /\ writeSequenceCount' = m.count
          /\ writeSequenceIndex' = writeSequenceIndex \/ writeSequenceIndex' = 0
      BY <1>12 DEF HandleMissionCountWrite, m
    <2>7. failFirstResponse' \in BOOLEAN
      <3>1. (failureMode # "WriteMissionCountFirstResponse") \in BOOLEAN
        OBVIOUS
      <3>2. failFirstResponse' \in {failFirstResponse, TRUE,
                                    failureMode # "WriteMissionCountFirstResponse"}
        BY <1>12 DEF HandleMissionCountWrite
      <3> QED  BY <3>1, <3>2 DEF TypeOK, HandlerTypeOK
    <2> QED  BY <1>0, <1>8, <1>9, <2>2, <2>5, <2>6, <2>7 DEF TypeOK, HandlerTypeOK
  <1>13. CASE HandleMissionItemWrite
    <2>1. m.type = "ITEM"
      BY <1>13 DEF HandleMissionItemWrite, Takes, m
    <2>2. m.seq \in Nat /\ m.item \in Item
      BY <1>0, <2>1, ToVehicleFields
    <2>3. /\ vehicleItems' = WithItem(vehicleItems, m.seq, m.item)
          /\ writeSequenceIndex' = writeSequenceIndex + 1
          /\ UNCHANGED <<writeSequenceCount, failFirstResponse>>
          /\ \/ FinalAck
             \/ Respond(AckReply("ACCEPTED"))
             \/ RequestNextItem(writeSequenceIndex + 1, writeSequenceCount)
      BY <1>13 DEF HandleMissionItemWrite, m
    <2>4. writeSequenceIndex + 1 \in Nat /\ writeSequenceCount \in Nat
      BY DEF TypeOK, HandlerTypeOK
    <2>5. AckReply("ACCEPTED") \in ToGcsMessage /\ AckReply("ERROR") \in ToGcsMessage
      BY <1>3 DEF AckResult
    <2>6. ASSUME FinalAck
          PROVE  NoResponse \/ Respond(AckReply("ACCEPTED")) \/ Respond(AckReply("ERROR"))
      BY <2>6 DEF FinalAck
    <2>7. toGcs' \in Seq(ToGcsMessage)
      BY <1>1, <1>2, <1>4, <2>3, <2>4, <2>5, <2>6
    <2>8. /\ DOMAIN vehicleItems' \in SUBSET Nat /\ IsFiniteSet(DOMAIN vehicleItems')
          /\ \A s \in DOMAIN vehicleItems' : vehicleItems'[s] \in Item
      BY <1>5, <2>2, <2>3
    <2> QED  BY <1>0, <1>8, <2>3, <2>4, <2>7, <2>8 DEF TypeOK, HandlerTypeOK
  <1>14. CASE HandleMissionClearAll
    <2>1. AckReply("ACCEPTED") \in ToGcsMessage
      BY <1>3 DEF AckResult
    <2>2. toGcs' \in Seq(ToGcsMessage)
      BY <1>1, <1>14, <2>1 DEF HandleMissionClearAll
    <2>3. vehicleItems' = noItems /\ UNCHANGED <<writeSequenceCount, writeSequenceIndex, failFirstResponse>>
      BY <1>14 DEF HandleMissionClearAll
    <2> QED  BY <1>0, <1>8, <1>9, <2>2, <2>3 DEF TypeOK, HandlerTypeOK
  <1>15. CASE HandleMissionAckRead \/ HandleGuidedItem
    <2>1. NoResponse \/ \E r \in AckResult : Respond(AckReply(r))
      BY <1>15 DEF HandleMissionAckRead, HandleGuidedItem
    <2>2. toGcs' \in Seq(ToGcsMessage)
      BY <1>1, <1>2, <1>3, <2>1
    <2>3. UNCHANGED <<vehicleItems, writeSequenceCount, writeSequenceIndex, failFirstResponse>>
      BY <1>15 DEF HandleMissionAckRead, HandleGuidedItem
    <2> QED  BY <1>0, <1>8, <2>2, <2>3 DEF TypeOK, HandlerTypeOK
  <1> QED
    BY <1>10, <1>11, <1>12, <1>13, <1>14, <1>15 DEF ReceiveFromGcs

(* The link leaves well-typed channels.                                       *)
LEMMA LinkType ==
    ASSUME TypeOK, LoseToVehicle \/ LoseToGcs \/ RepeatToGcs \/ ForeignToGcs
    PROVE  LinkTypeOK'
  <1>0. toVehicle \in Seq(ToVehicleMessage) /\ toGcs \in Seq(ToGcsMessage) /\ noise \in Nat
    BY DEF TypeOK, LinkTypeOK
  <1>1. CASE LoseToVehicle \/ LoseToGcs
    <2>1. \/ toVehicle # <<>> /\ toVehicle' = Tail(toVehicle) /\ UNCHANGED <<toGcs, noise>>
          \/ toGcs # <<>> /\ toGcs' = Tail(toGcs) /\ UNCHANGED <<toVehicle, noise>>
      BY <1>1 DEF LoseToVehicle, LoseToGcs
    <2>2. toVehicle' \in Seq(ToVehicleMessage)
      BY <1>0, <2>1
    <2>3. toGcs' \in Seq(ToGcsMessage)
      BY <1>0, <2>1
    <2> QED  BY <1>0, <2>1, <2>2, <2>3 DEF LinkTypeOK
  <1>2. CASE RepeatToGcs
    <2>1. Head(toGcs) \in ToGcsMessage /\ toGcs \in Seq(ToGcsMessage)
      BY <1>2, ArrivalType DEF RepeatToGcs, TypeOK, LinkTypeOK
    <2>2. <<Head(toGcs)>> \o toGcs \in Seq(ToGcsMessage)
      BY <2>1
    <2> QED  BY <1>2, <2>2 DEF RepeatToGcs, TypeOK, LinkTypeOK
  <1>3. CASE ForeignToGcs
    <2>1. PICK m \in ForeignMessage : toGcs' = Append(toGcs, m)
      BY <1>3 DEF ForeignToGcs
    <2>2. BlankItem \in Item
      BY DEF BlankItem, Item
    <2>3. m \in ToGcsMessage
      <3> USE DEF ToGcsMessage
      <3>1. [type |-> "COUNT", count |-> 0, own |-> FALSE] \in ToGcsMessage
        OBVIOUS
      <3>2. [type |-> "REQUEST", seq |-> 0, own |-> FALSE] \in ToGcsMessage
        OBVIOUS
      <3>3. [type |-> "ITEM", seq |-> 0, item |-> BlankItem, own |-> FALSE] \in ToGcsMessage
        BY <2>2
      <3>4. [type |-> "ACK", result |-> "ACCEPTED", own |-> FALSE] \in ToGcsMessage
        BY DEF AckResult
      <3> HIDE DEF ToGcsMessage
      <3> QED  BY <2>1, <3>1, <3>2, <3>3, <3>4 DEF ForeignMessage
    <2> QED  BY <1>3, <2>1, <2>3 DEF ForeignToGcs, TypeOK, LinkTypeOK
  <1> QED  BY <1>1, <1>2, <1>3

-----------------------------------------------------------------------------
(* The inductive invariant.  TypeOK alone is not inductive: the retry of an   *)
(* item asks for the first of the open indices, which is an index only while  *)
(* there is one, and that a timer armed for an item belongs to a read is what *)
(* WaitsForAnAnswer says.                                                     *)

IInv == TypeOK /\ WaitsForAnAnswer /\ SomethingLeftToRead

(* What a start leaves behind.                                                *)
LEMMA StartWaits ==
    ASSUME IInv, StartTransaction
    PROVE  WaitsForAnAnswer' /\ SomethingLeftToRead'
  <1> USE DEF IInv, TypeOK, ManagerTypeOK, WaitsForAnAnswer, SomethingLeftToRead, inProgress,
              StartAckTimeout
  <1>1. CASE LoadFromVehicle
    BY <1>1 DEF LoadFromVehicle, ClearMissionItems
  <1>2. ASSUME NEW list, StartWrite(list), ~inProgress
        PROVE  /\ connected' /\ timerRunning' /\ transaction' = "Write"
               /\ expectedAck' = "MissionRequest" /\ indicesToRead' = {}
    BY <1>2 DEF StartWrite
  <1>3. CASE WriteMissionItems
    BY <1>2, <1>3 DEF WriteMissionItems
  <1>4. CASE GenerateResumeMission
    BY <1>2, <1>4 DEF GenerateResumeMission
  <1>5. CASE RemoveAll
    BY <1>5 DEF RemoveAll
  <1>6. CASE WriteGuidedItem
    BY <1>6 DEF WriteGuidedItem
  <1> QED  BY <1>1, <1>3, <1>4, <1>5, <1>6 DEF StartTransaction

(* What the end of a transaction leaves behind.                               *)
LEMMA FinishWaits ==
    ASSUME NEW success, NEW items,
           FinishTransaction(success, items) \/ FinishGuidedItem(success),
           timerRunning' = FALSE
    PROVE  WaitsForAnAnswer' /\ SomethingLeftToRead'
  BY DEF FinishTransaction, FinishGuidedItem, WaitsForAnAnswer, SomethingLeftToRead, inProgress

(* What a message from the vehicle leaves behind.                             *)
LEMMA AnswerWaits ==
    ASSUME IInv, ReceiveFromVehicle
    PROVE  WaitsForAnAnswer' /\ SomethingLeftToRead'
  <1> USE DEF IInv
  <1>1. ASSUME NEW left \in SUBSET Nat, NEW items, transaction = "Read",
               left # {} /\ ContinueRead(left, items)
        PROVE  WaitsForAnAnswer' /\ SomethingLeftToRead'
    BY <1>1 DEF ContinueRead, RequestNextMissionItem, StartAckTimeout, WaitsForAnAnswer,
                SomethingLeftToRead, inProgress
  <1>2. ASSUME NEW items, ReadTransactionComplete(items)
        PROVE  WaitsForAnAnswer' /\ SomethingLeftToRead'
    BY <1>2, FinishWaits DEF ReadTransactionComplete, StopAckTimeout
  <1>3. CASE HandleMissionCount
    <2>1. connected /\ expectedAck = "MissionCount" /\ transaction = "Read"
      BY <1>3 DEF HandleMissionCount, Arrives, WaitsForAnAnswer, inProgress, TypeOK, ManagerTypeOK,
                  Transaction
    <2> DEFINE count == Head(toGcs).count
    <2>2. count \in Nat
      BY <1>3, ArrivalType, ToGcsFields DEF HandleMissionCount, Arrives
    <2>3. \/ ReadTransactionComplete(missionItems)
          \/ count > 0 /\ ContinueRead(IndicesOf(count), missionItems)
      BY <1>3 DEF HandleMissionCount
    <2> HIDE DEF count
    <2>4. IndicesOf(count) \in SUBSET Nat /\ (count > 0 => 0 \in IndicesOf(count))
      BY <2>2 DEF IndicesOf
    <2> QED  BY <1>1, <1>2, <2>1, <2>3, <2>4
  <1>4. CASE HandleMissionItem
    <2>1. connected /\ expectedAck = "MissionItem" /\ transaction = "Read" /\ indicesToRead # {}
      BY <1>4 DEF HandleMissionItem, Arrives, WaitsForAnAnswer, SomethingLeftToRead, inProgress,
                  TypeOK, ManagerTypeOK, Transaction
    <2>2. CASE DisregardMissionItem
      BY <2>1, <2>2 DEF DisregardMissionItem, StartAckTimeout, WaitsForAnAnswer,
                        SomethingLeftToRead, inProgress
    <2>3. CASE TakeMissionItem
      <3> DEFINE left == indicesToRead \ {Head(toGcs).seq}
      <3>1. left \in SUBSET Nat
        BY DEF TypeOK, ManagerTypeOK
      <3>2. \E items : ReadTransactionComplete(items) \/ (left # {} /\ ContinueRead(left, items))
        BY <2>3 DEF TakeMissionItem
      <3> HIDE DEF left
      <3> QED  BY <1>1, <1>2, <2>1, <3>1, <3>2
    <2> QED  BY <1>4, <2>2, <2>3 DEF HandleMissionItem
  <1>5. CASE HandleHomePosition
    BY <1>5 DEF HandleHomePosition, WaitsForAnAnswer, SomethingLeftToRead, inProgress
  <1>6. CASE HandleMissionRequest
    <2>1. connected /\ expectedAck = "MissionRequest" /\ transaction = "Write"
      BY <1>6 DEF HandleMissionRequest, Arrives, WaitsForAnAnswer, inProgress, TypeOK,
                  ManagerTypeOK, Transaction
    <2>2. ASSUME NEW seq, SendRequestedItem(seq)
          PROVE  WaitsForAnAnswer' /\ SomethingLeftToRead'
      BY <2>1, <2>2 DEF SendRequestedItem, StartAckTimeout, WaitsForAnAnswer,
                        SomethingLeftToRead, inProgress
    <2>3. ASSUME NEW seq, RefuseRequestedItem(seq)
          PROVE  WaitsForAnAnswer' /\ SomethingLeftToRead'
      BY <2>3, FinishWaits DEF RefuseRequestedItem, StopAckTimeout
    <2> QED  BY <1>6, <2>2, <2>3 DEF HandleMissionRequest
  <1>7. CASE HandleMissionAck
    BY <1>7, FinishWaits DEF HandleMissionAck, StopAckTimeout
  <1>8. CASE IgnoreMessage
    BY <1>8 DEF IgnoreMessage, WaitsForAnAnswer, SomethingLeftToRead, inProgress
  <1> QED  BY <1>3, <1>4, <1>5, <1>6, <1>7, <1>8 DEF ReceiveFromVehicle

(* What the ack timer leaves behind.                                          *)
LEMMA TimeoutWaits ==
    ASSUME IInv, AckTimeout
    PROVE  WaitsForAnAnswer' /\ SomethingLeftToRead'
  <1> USE DEF IInv
  <1>1. ASSUME NEW ack, GiveUp(ack)
        PROVE  WaitsForAnAnswer' /\ SomethingLeftToRead'
    BY <1>1, FinishWaits DEF GiveUp
  <1>2. ASSUME NEW ack, TimerFires(ack), Retry(ack), connected' = connected,
               ack = "MissionItem" => indicesToRead' = indicesToRead
        PROVE  WaitsForAnAnswer' /\ SomethingLeftToRead'
    BY <1>2 DEF TimerFires, Retry, StartAckTimeout, WaitsForAnAnswer, SomethingLeftToRead,
                inProgress
  <1>3. CASE MissionCountTimeout
    BY <1>1, <1>2, <1>3 DEF MissionCountTimeout
  <1>4. CASE MissionItemTimeout
    BY <1>1, <1>2, <1>4 DEF MissionItemTimeout
  <1>5. CASE MissionRequestTimeout
    BY <1>1, <1>2, <1>5 DEF MissionRequestTimeout
  <1>6. CASE ClearAllTimeout
    <2>1. connected = TRUE
      BY <1>6 DEF ClearAllTimeout, TimerFires, WaitsForAnAnswer, TypeOK, ManagerTypeOK
    <2> QED  BY <1>1, <1>2, <1>6, <2>1 DEF ClearAllTimeout
  <1>7. CASE GuidedItemTimeout
    BY <1>1, <1>7 DEF GuidedItemTimeout
  <1> QED  BY <1>3, <1>4, <1>5, <1>6, <1>7 DEF AckTimeout

(* The invariant holds initially.                                             *)
LEMMA InitInvariant == Init => IInv
  <1> SUFFICES ASSUME Init
               PROVE  IInv
    OBVIOUS
  <1> USE ManagerAssumption, HandlerAssumption
  <1>1. LinkTypeOK
    BY DEF Init, LinkInit, LinkTypeOK
  <1>2. ManagerTypeOK
    <2>1. retryCount \in 0 .. (MaxRetryCount + 1)
      BY DEF Init, ManagerInit
    <2>2. indicesToRead \in SUBSET Nat /\ indicesToWrite \in SUBSET Nat
      BY DEF Init, ManagerInit
    <2>3. missionItems \in Seq(Entry) /\ writeMissionItems \in Seq(Entry)
      BY DEF Init, ManagerInit
    <2>4. signals \in SUBSET (Signal \X BOOLEAN)
      BY DEF Init, ManagerInit
    <2>5. /\ timerRunning \in BOOLEAN /\ resumeMission \in BOOLEAN /\ connected \in BOOLEAN
          /\ expectedAck \in AckType /\ transaction \in Transaction
      BY DEF Init, ManagerInit, AckType, Transaction
    <2> QED  BY <2>1, <2>2, <2>3, <2>4, <2>5 DEF ManagerTypeOK
  <1>3. HandlerTypeOK
    <2>1. DOMAIN noItems = {}
      BY DEF noItems
    <2>2. IsFiniteSet({}) /\ vehicleItems = noItems
      BY FS_EmptySet DEF Init, HandlerInit
    <2> QED  BY <2>1, <2>2 DEF Init, HandlerInit, HandlerTypeOK
  <1>4. WaitsForAnAnswer /\ SomethingLeftToRead
    BY DEF Init, ManagerInit, WaitsForAnAnswer, SomethingLeftToRead, inProgress
  <1> QED  BY <1>1, <1>2, <1>3, <1>4 DEF IInv, TypeOK

(* Every step keeps the invariant.                                            *)
LEMMA StepInvariant == IInv /\ [Next]_vars => IInv'
  <1> SUFFICES ASSUME IInv, [Next]_vars
               PROVE  IInv'
    OBVIOUS
  <1> USE DEF IInv
  <1>1. ASSUME ManagerRests
        PROVE  (LinkTypeOK' /\ HandlerTypeOK') => IInv'
    <2>1. ManagerTypeOK'
      BY <1>1 DEF ManagerRests, TypeOK, ManagerTypeOK
    <2>2. WaitsForAnAnswer' /\ SomethingLeftToRead'
      BY <1>1 DEF ManagerRests, WaitsForAnAnswer, SomethingLeftToRead, inProgress
    <2> QED  BY <2>1, <2>2 DEF TypeOK
  <1>2. ASSUME UNCHANGED vehicleVars
        PROVE  HandlerTypeOK'
    BY <1>2 DEF vehicleVars, TypeOK, HandlerTypeOK
  <1>3. CASE ManagerStep
    <2>1. CASE StartTransaction
      BY <1>2, <1>3, <2>1, StartType, StartWaits DEF ManagerStep, TypeOK
    <2>2. CASE ReceiveFromVehicle
      BY <1>2, <1>3, <2>2, AnswerType, AnswerWaits DEF ManagerStep, TypeOK
    <2>3. CASE AckTimeout
      BY <1>2, <1>3, <2>3, TimeoutType, TimeoutWaits DEF ManagerStep, TypeOK
    <2> QED  BY <1>3, <2>1, <2>2, <2>3 DEF ManagerStep
  <1>4. CASE VehicleStep
    BY <1>1, <1>4, VehicleType DEF VehicleStep
  <1>5. CASE LinkStep
    BY <1>1, <1>2, <1>5, LinkType DEF LinkStep
  <1>6. CASE UNCHANGED vars
    <2>1. LinkTypeOK' /\ ManagerTypeOK' /\ HandlerTypeOK'
      BY <1>2, <1>6 DEF vars, linkVars, managerVars, TypeOK, LinkTypeOK, ManagerTypeOK
    <2>2. WaitsForAnAnswer' /\ SomethingLeftToRead'
      BY <1>6 DEF vars, managerVars, WaitsForAnAnswer, SomethingLeftToRead, inProgress
    <2> QED  BY <2>1, <2>2 DEF TypeOK
  <1> QED  BY <1>3, <1>4, <1>5, <1>6 DEF Next

(* The invariant holds in every reachable state.                              *)
THEOREM Invariant == Spec => []IInv
  BY InitInvariant, StepInvariant, PTL DEF Spec

(* Every variable of the manager, the vehicle and the link keeps its type; in *)
(* particular _retryCount never passes _maxRetryCount + 1, although a guided  *)
(* item starts with whatever the last transaction left in it.                 *)
THEOREM TypeCorrect == Spec => []TypeOK
  <1>1. IInv => TypeOK
    BY DEF IInv
  <1> QED  BY <1>1, Invariant, PTL

(* A transaction never hangs without a timer (PlanManager.cc:168-293): while  *)
(* one is open the manager listens, waits for an answer of its kind and has   *)
(* the ack timer armed, whatever the link and the vehicle do.                 *)
THEOREM AlwaysWaits == Spec => []WaitsForAnAnswer
  <1>1. IInv => WaitsForAnAnswer
    BY DEF IInv
  <1> QED  BY <1>1, Invariant, PTL

(* _requestNextMissionItem is never reached with an empty index list          *)
(* (PlanManager.cc:349), the one return that would leave no timer behind.     *)
THEOREM NeverOutOfIndices == Spec => []SomethingLeftToRead
  <1>1. IInv => SomethingLeftToRead
    BY DEF IInv
  <1> QED  BY <1>1, Invariant, PTL

-----------------------------------------------------------------------------
(* The downloaded list.  Items may arrive late, twice or out of order, yet    *)
(* the list's sequence numbers and the open indices always partition 0 .. n-1.*)

Numbers(list) == {list[k].seq : k \in DOMAIN list}

Partition(list, open) ==
    /\ IsFiniteSet(open)
    /\ \A j, k \in DOMAIN list : list[j].seq = list[k].seq => j = k
    /\ Numbers(list) \cap open = {}
    /\ Numbers(list) \cup open = 0 .. (Len(list) + Cardinality(open) - 1)

Numbered(list) == \A k \in 1 .. Len(list) : list[k].seq = k - 1

(* Before the first item all indices announced are open.                      *)
LEMMA PartitionStart ==
    ASSUME NEW count \in Nat
    PROVE  Partition(<<>>, IndicesOf(count))
  <1> DEFINE list == <<>>
  <1>1. IndicesOf(count) = 0 .. (count - 1) /\ count - 1 \in Int
    BY DEF IndicesOf
  <1>2. /\ IsFiniteSet(0 .. (count - 1))
        /\ Cardinality(0 .. (count - 1)) = IF 0 > count - 1 THEN 0 ELSE count - 1 - 0 + 1
    BY <1>1, FS_Interval
  <1>3. Cardinality(IndicesOf(count)) = count
    BY <1>1, <1>2
  <1>4. Numbers(<<>>) = {} /\ Len(<<>>) = 0 /\ DOMAIN <<>> = {}
    BY DEF Numbers
  <1> QED  BY <1>1, <1>2, <1>3, <1>4 DEF Partition

(* Taking an open item closes its index.                                      *)
LEMMA PartitionTake ==
    ASSUME NEW list \in Seq(Entry), NEW open \in SUBSET Nat, Partition(list, open),
           NEW e \in Entry, e.seq \in open
    PROVE  Partition(Append(list, e), open \ {e.seq})
  <1> DEFINE longer == Append(list, e)
             n == Len(list)
             left == open \ {e.seq}
  <1>1. /\ n \in Nat /\ Len(longer) = n + 1 /\ DOMAIN longer = 1 .. (n + 1) /\ DOMAIN list = 1 .. n
        /\ longer[n + 1] = e
        /\ \A k \in 1 .. n : longer[k] = list[k]
    OBVIOUS
  <1>2. IsFiniteSet(open) /\ Cardinality(open) \in Nat
    BY FS_CardinalityType DEF Partition
  <1>3. IsFiniteSet(left) /\ Cardinality(left) = Cardinality(open) - 1
    BY <1>2, FS_RemoveElement
  <1>4. \A k \in 1 .. n : list[k].seq \in Numbers(list)
    BY <1>1 DEF Numbers
  <1>5. e.seq \notin Numbers(list)
    BY DEF Partition
  <1>6. Numbers(longer) = Numbers(list) \cup {e.seq}
    BY <1>1 DEF Numbers
  <1>7. \A j, k \in DOMAIN longer : longer[j].seq = longer[k].seq => j = k
    <2>1. \A j, k \in 1 .. n : list[j].seq = list[k].seq => j = k
      BY <1>1 DEF Partition
    <2> SUFFICES ASSUME NEW j \in 1 .. (n + 1), NEW k \in 1 .. (n + 1), longer[j].seq = longer[k].seq
                 PROVE  j = k
      BY <1>1
    <2> HIDE DEF longer
    <2>2. j \in 1 .. n \/ j = n + 1
      BY <1>1
    <2>3. k \in 1 .. n \/ k = n + 1
      BY <1>1
    <2>4. CASE j \in 1 .. n /\ k \in 1 .. n
      BY <1>1, <2>1, <2>4
    <2>5. CASE j \in 1 .. n /\ k = n + 1
      <3>1. longer[j].seq \in Numbers(list) /\ longer[k].seq = e.seq
        BY <1>1, <1>4, <2>5
      <3> QED  BY <1>5, <3>1
    <2>6. CASE j = n + 1 /\ k \in 1 .. n
      <3>1. longer[k].seq \in Numbers(list) /\ longer[j].seq = e.seq
        BY <1>1, <1>4, <2>6
      <3> QED  BY <1>5, <3>1
    <2>7. CASE j = n + 1 /\ k = n + 1
      BY <2>7
    <2> QED  BY <2>2, <2>3, <2>4, <2>5, <2>6, <2>7
  <1>8. Numbers(longer) \cap left = {}
    BY <1>6 DEF Partition
  <1>9. Numbers(longer) \cup left = 0 .. (Len(longer) + Cardinality(left) - 1)
    <2>1. Numbers(longer) \cup left = Numbers(list) \cup open
      BY <1>6
    <2>2. Len(longer) + Cardinality(left) - 1 = n + Cardinality(open) - 1
      BY <1>1, <1>2, <1>3
    <2>3. Numbers(list) \cup open = 0 .. (n + Cardinality(open) - 1)
      BY DEF Partition
    <2> HIDE DEF longer, left, n
    <2> QED  BY <2>1, <2>2, <2>3
  <1> QED  BY <1>3, <1>7, <1>8, <1>9 DEF Partition

(* A list numbered from 0 is whole.                                           *)
LEMMA PartitionWhole ==
    ASSUME NEW list \in Seq(Entry), Numbered(list)
    PROVE  Partition(list, {})
  <1>1. Len(list) \in Nat /\ DOMAIN list = 1 .. Len(list)
    OBVIOUS
  <1>2. Numbers(list) = {k - 1 : k \in 1 .. Len(list)}
    BY <1>1 DEF Numbers, Numbered
  <1>3. {k - 1 : k \in 1 .. Len(list)} = 0 .. (Len(list) - 1)
    <2> DEFINE n == Len(list)
    <2> HIDE DEF n
    <2>0. n \in Nat
      BY <1>1 DEF n
    <2>1. \A i \in 0 .. (n - 1) : i \in {k - 1 : k \in 1 .. n}
      <3> TAKE i \in 0 .. (n - 1)
      <3>1. i + 1 \in 1 .. n /\ i = (i + 1) - 1
        BY <2>0
      <3> QED  BY <3>1
    <2>2. \A k \in 1 .. n : k - 1 \in 0 .. (n - 1)
      BY <2>0
    <2>3. {k - 1 : k \in 1 .. n} \subseteq 0 .. (n - 1)
      BY <2>2
    <2>4. 0 .. (n - 1) \subseteq {k - 1 : k \in 1 .. n}
      BY <2>1
    <2>5. {k - 1 : k \in 1 .. n} = 0 .. (n - 1)
      BY <2>3, <2>4
    <2> QED  BY <2>5 DEF n
  <1>4. Cardinality({}) = 0 /\ IsFiniteSet({})
    BY FS_EmptySet
  <1>5. \A j, k \in DOMAIN list : list[j].seq = list[k].seq => j = k
    BY <1>1 DEF Numbered
  <1>6. Len(list) + Cardinality({}) - 1 = Len(list) - 1
    BY <1>1, <1>4
  <1>7. Numbers(list) \cap {} = {} /\ Numbers(list) \cup {} = Numbers(list)
    OBVIOUS
  <1>8. Numbers(list) \cup {} = 0 .. (Len(list) + Cardinality({}) - 1)
    BY <1>2, <1>3, <1>6, <1>7
  <1> QED  BY <1>4, <1>5, <1>7, <1>8 DEF Partition

(* What makes the partition inductive: only a read has open indices, the      *)
(* vehicle's count comes before any item, and write lists are numbered.       *)
ListInv ==
    /\ Partition(missionItems, indicesToRead)
    /\ transaction # "Read" => indicesToRead = {}
    /\ transaction = "Read" /\ expectedAck = "MissionCount"
         => missionItems = <<>> /\ indicesToRead = {}
    /\ Numbered(writeMissionItems)

(* The empty list is a whole list.                                            *)
LEMMA PartitionEmpty == Partition(<<>>, {}) /\ Numbered(<<>>)
  <1>1. Numbered(<<>>)
    BY DEF Numbered
  <1>2. <<>> \in Seq(Entry)
    OBVIOUS
  <1> QED  BY <1>1, <1>2, PartitionWhole

(* A transaction ends with a whole list: a read only with all indices closed. *)
LEMMA FinishList ==
    ASSUME IInv, ListInv, NEW success \in BOOLEAN, NEW items \in Seq(Entry),
           FinishTransaction(success, items),
           Partition(items, {}) \/ (transaction = "Read" /\ ~success)
    PROVE  ListInv'
  <1>1. Partition(writeMissionItems, {})
    BY PartitionWhole DEF IInv, TypeOK, ManagerTypeOK, ListInv
  <1>2. Partition(ListAfter(success, items), {})
    BY <1>1, PartitionEmpty DEF ListAfter
  <1>3. /\ indicesToRead' = {} /\ transaction' = "None"
        /\ missionItems' = ListAfter(success, items)
        /\ writeMissionItems' = <<>> \/ writeMissionItems' = writeMissionItems
    BY DEF FinishTransaction
  <1>4. Numbered(writeMissionItems)'
    <2>1. Numbered(writeMissionItems) /\ Numbered(<<>>)
      BY PartitionEmpty DEF ListInv
    <2> QED  BY <1>3, <2>1 DEF Numbered
  <1>5. Partition(missionItems, indicesToRead)'
    BY <1>2, <1>3
  <1> QED  BY <1>3, <1>4, <1>5 DEF ListInv

(* A start keeps the partition.                                               *)
LEMMA StartList ==
    ASSUME IInv, ListInv, StartTransaction
    PROVE  ListInv'
  <1>0. ~inProgress /\ indicesToRead = {} /\ Partition(missionItems, {})
    BY DEF StartTransaction, LoadFromVehicle, WriteMissionItems, GenerateResumeMission, RemoveAll,
           WriteGuidedItem, IInv, ListInv, inProgress
  <1>1. CASE LoadFromVehicle
    <2>1. /\ missionItems' = <<>> /\ indicesToRead' = {} /\ transaction' = "Read"
          /\ writeMissionItems' = writeMissionItems
      BY <1>1 DEF LoadFromVehicle, ClearMissionItems
    <2> QED  BY <2>1, PartitionEmpty DEF ListInv, Numbered
  <1>2. ASSUME NEW list, Numbered(list), StartWrite(list)
        PROVE  ListInv'
    <2>1. /\ writeMissionItems' = list /\ transaction' = "Write"
          /\ indicesToRead' = indicesToRead /\ missionItems' = missionItems
      BY <1>2 DEF StartWrite
    <2> QED  BY <1>0, <1>2, <2>1 DEF ListInv, Numbered
  <1>3. CASE WriteMissionItems
    <2>1. PICK items \in EditorPlans : StartWrite(WriteList(items))
      BY <1>3 DEF WriteMissionItems
    <2>2. items \in Seq(Item)
      BY <2>1, ManagerAssumption
    <2>3. Numbered(WriteList(items))
      BY <2>2, WriteListType DEF Numbered
    <2> QED  BY <1>2, <2>1, <2>3
  <1>4. CASE GenerateResumeMission
    <2>0. PICK n \in 1 .. Len(missionItems) : \E pos \in ResumePositions(n) :
             StartWrite([k \in 1 .. n |-> [seq |-> k - 1, item |-> missionItems[pos[k]].item]])
      BY <1>4 DEF GenerateResumeMission
    <2>1. PICK pos \in ResumePositions(n) :
             StartWrite([k \in 1 .. n |-> [seq |-> k - 1, item |-> missionItems[pos[k]].item]])
      BY <2>0
    <2> DEFINE list == [k \in 1 .. n |-> [seq |-> k - 1, item |-> missionItems[pos[k]].item]]
    <2>2. n \in Nat
      BY <2>0 DEF IInv, TypeOK, ManagerTypeOK
    <2>3. Numbered(list)
      <3>1. Len(list) = n
        BY <2>2
      <3> QED  BY <3>1 DEF Numbered
    <2> QED  BY <1>2, <2>1, <2>3
  <1>5. CASE RemoveAll
    <2>1. /\ missionItems' = <<>> /\ indicesToRead' = indicesToRead /\ transaction' = "RemoveAll"
          /\ writeMissionItems' = writeMissionItems
      BY <1>5 DEF RemoveAll
    <2> QED  BY <1>0, <2>1, PartitionEmpty DEF ListInv, Numbered
  <1>6. CASE WriteGuidedItem
    BY <1>0, <1>6 DEF WriteGuidedItem, ListInv, Numbered
  <1> QED  BY <1>1, <1>3, <1>4, <1>5, <1>6 DEF StartTransaction

(* A message from the vehicle keeps the partition.                            *)
LEMMA AnswerList ==
    ASSUME IInv, ListInv, ReceiveFromVehicle
    PROVE  ListInv'
  <1> DEFINE m == Head(toGcs)
  <1>0. m \in ToGcsMessage
    <2>1. toGcs # <<>>
      BY DEF ReceiveFromVehicle, HandleMissionCount, HandleMissionItem, HandleHomePosition,
             HandleMissionRequest, HandleMissionAck, IgnoreMessage, Arrives
    <2> QED  BY <2>1, ArrivalType DEF IInv
  <1> HIDE DEF m
  <1>1. ASSUME NEW left \in SUBSET Nat, NEW items \in Seq(Entry), Partition(items, left),
               transaction = "Read",
               \/ left # {} /\ ContinueRead(left, items)
               \/ left = {} /\ ReadTransactionComplete(items)
        PROVE  ListInv'
    <2>1. CASE ContinueRead(left, items)
      <3>1. /\ indicesToRead' = left /\ missionItems' = items /\ expectedAck' = "MissionItem"
            /\ transaction' = "Read" /\ writeMissionItems' = writeMissionItems
        BY <1>1, <2>1 DEF ContinueRead, RequestNextMissionItem, StartAckTimeout
      <3> QED  BY <1>1, <3>1 DEF ListInv, Numbered
    <2>2. CASE left = {} /\ ReadTransactionComplete(items)
      BY <1>1, <2>2, FinishList DEF ReadTransactionComplete
    <2> QED  BY <1>1, <2>1, <2>2
  <1>2. CASE HandleMissionCount
    <2>1. /\ m.type = "COUNT" /\ expectedAck = "MissionCount" /\ connected
          /\ \/ m.count = 0 /\ ReadTransactionComplete(missionItems)
             \/ m.count > 0 /\ ContinueRead(IndicesOf(m.count), missionItems)
      BY <1>2 DEF HandleMissionCount, Arrives, m
    <2>2. transaction = "Read" /\ missionItems = <<>>
      BY <2>1 DEF IInv, WaitsForAnAnswer, inProgress, TypeOK, ManagerTypeOK, Transaction, ListInv
    <2>3. m.count \in Nat
      BY <1>0, <2>1, ToGcsFields
    <2>4. /\ IndicesOf(m.count) \in SUBSET Nat
          /\ m.count > 0 => 0 \in IndicesOf(m.count)
          /\ m.count = 0 => IndicesOf(m.count) = {}
      BY <2>3 DEF IndicesOf
    <2>5. Partition(missionItems, IndicesOf(m.count)) /\ missionItems \in Seq(Entry)
      BY <2>2, <2>3, PartitionStart
    <2> QED  BY <1>1, <2>1, <2>2, <2>4, <2>5
  <1>3. CASE HandleMissionItem
    <2>1. m.type = "ITEM" /\ expectedAck = "MissionItem" /\ connected
      BY <1>3 DEF HandleMissionItem, Arrives, m
    <2>2. transaction = "Read"
      BY <2>1 DEF IInv, WaitsForAnAnswer, inProgress, TypeOK, ManagerTypeOK, Transaction
    <2>3. CASE DisregardMissionItem
      BY <2>2, <2>3 DEF DisregardMissionItem, StartAckTimeout, ListInv, Numbered
    <2>4. CASE TakeMissionItem
      <3> DEFINE e == [seq |-> m.seq, item |-> FromVehicle(m.item)]
                 left == indicesToRead \ {m.seq}
                 items == Append(missionItems, e)
      <3>1. m.seq \in Nat /\ m.item \in Item
        BY <1>0, <2>1, ToGcsFields
      <3>2. e \in Entry /\ e.seq = m.seq
        BY <3>1, FromVehicleType DEF Entry
      <3>3. m.seq \in indicesToRead
        BY <2>4 DEF TakeMissionItem, Wanted, m
      <3>4. missionItems \in Seq(Entry) /\ indicesToRead \in SUBSET Nat
        BY DEF IInv, TypeOK, ManagerTypeOK
      <3>5. \/ left # {} /\ ContinueRead(left, items)
            \/ left = {} /\ ReadTransactionComplete(items)
        BY <2>4 DEF TakeMissionItem, m
      <3> HIDE DEF e
      <3>6. Partition(items, left)
        BY <3>2, <3>3, <3>4, PartitionTake DEF ListInv
      <3>7. \A x \in Entry : Append(missionItems, x) \in Seq(Entry)
        BY <3>4
      <3>8. items \in Seq(Entry)
        BY <3>2, <3>7
      <3>9. left \in SUBSET Nat
        BY <3>4
      <3> HIDE DEF items, left
      <3> QED  BY <1>1, <2>2, <3>5, <3>6, <3>8, <3>9
    <2> QED  BY <1>3, <2>3, <2>4 DEF HandleMissionItem
  <1>4. CASE HandleHomePosition
    BY <1>4 DEF HandleHomePosition, ListInv, Numbered
  <1>5. ASSUME NEW success \in BOOLEAN, transaction = "Read" => ~success,
               FinishTransaction(success, missionItems)
        PROVE  ListInv'
    <2>1. missionItems \in Seq(Entry)
      BY DEF IInv, TypeOK, ManagerTypeOK
    <2>2. Partition(missionItems, {}) \/ (transaction = "Read" /\ ~success)
      BY <1>5 DEF ListInv
    <2> QED  BY <1>5, <2>1, <2>2, FinishList
  <1>6. CASE HandleMissionRequest
    <2>1. CASE SendRequestedItem(m.seq)
      <3>1. connected /\ expectedAck = "MissionRequest"
        BY <1>6 DEF HandleMissionRequest, Arrives
      <3>2. transaction # "Read"
        BY <3>1 DEF IInv, WaitsForAnAnswer
      <3> QED  BY <2>1, <3>2 DEF SendRequestedItem, ListInv, Numbered
    <2>2. CASE RefuseRequestedItem(m.seq)
      BY <1>5, <2>2 DEF RefuseRequestedItem
    <2> QED  BY <1>6, <2>1, <2>2 DEF HandleMissionRequest, m
  <1>7. CASE HandleMissionAck
    <2>1. transaction = "Read" => ~AckMeansSuccess(m.result)
      BY DEF AckMeansSuccess, IInv, WaitsForAnAnswer
    <2>2. AckMeansSuccess(m.result) \in BOOLEAN
      BY DEF AckMeansSuccess
    <2>3. CASE FinishTransaction(AckMeansSuccess(m.result), missionItems)
      BY <1>5, <2>1, <2>2, <2>3
    <2>4. CASE expectedAck = "GuidedItem" /\ FinishGuidedItem(AckMeansSuccess(m.result))
      <3>1. transaction # "Read"
        BY <2>4 DEF IInv, WaitsForAnAnswer
      <3> QED  BY <2>4, <3>1 DEF FinishGuidedItem, ListInv, Numbered
    <2> QED  BY <1>7, <2>3, <2>4 DEF HandleMissionAck, m
  <1>8. CASE IgnoreMessage
    BY <1>8 DEF IgnoreMessage, ListInv, Numbered
  <1> QED  BY <1>2, <1>3, <1>4, <1>6, <1>7, <1>8 DEF ReceiveFromVehicle

(* The ack timer keeps the partition.                                         *)
LEMMA TimeoutList ==
    ASSUME IInv, ListInv, AckTimeout
    PROVE  ListInv'
  <1>1. ASSUME NEW ack, GiveUp(ack)
        PROVE  ListInv'
    <2>1. missionItems \in Seq(Entry)
      BY DEF IInv, TypeOK, ManagerTypeOK
    <2>2. Partition(missionItems, {}) \/ transaction = "Read"
      BY DEF ListInv
    <2> QED  BY <1>1, <2>1, <2>2, FinishList DEF GiveUp
  <1>2. ASSUME NEW ack, TimerFires(ack), Retry(ack), UNCHANGED <<indicesToRead, missionItems>>
        PROVE  ListInv'
    BY <1>2 DEF TimerFires, Retry, StartAckTimeout, ListInv, Numbered
  <1>3. CASE MissionCountTimeout
    <2>1. ASSUME Retry("MissionCount"), ClearMissionItems
          PROVE  ListInv'
      BY <2>1, PartitionEmpty DEF Retry, ClearMissionItems, ListInv, Numbered
    <2> QED  BY <1>1, <1>3, <2>1 DEF MissionCountTimeout
  <1>4. CASE MissionItemTimeout
    BY <1>1, <1>2, <1>4 DEF MissionItemTimeout
  <1>5. CASE MissionRequestTimeout
    BY <1>1, <1>2, <1>5 DEF MissionRequestTimeout
  <1>6. CASE ClearAllTimeout
    BY <1>1, <1>2, <1>6 DEF ClearAllTimeout
  <1>7. CASE GuidedItemTimeout
    BY <1>1, <1>7 DEF GuidedItemTimeout
  <1> QED  BY <1>3, <1>4, <1>5, <1>6, <1>7 DEF AckTimeout

(* Every step keeps the partition.                                            *)
LEMMA ListStep == IInv /\ ListInv /\ [Next]_vars => ListInv'
  <1> SUFFICES ASSUME IInv, ListInv, [Next]_vars
               PROVE  ListInv'
    OBVIOUS
  <1>1. CASE ManagerStep
    BY <1>1, StartList, AnswerList, TimeoutList DEF ManagerStep
  <1>2. CASE VehicleStep \/ LinkStep
    BY <1>2 DEF VehicleStep, LinkStep, ManagerRests, ListInv, Numbered
  <1>3. CASE UNCHANGED vars
    BY <1>3 DEF vars, managerVars, ListInv, Numbered
  <1> QED  BY <1>1, <1>2, <1>3 DEF Next

(* The list of downloaded items is partitioned in every reachable state.      *)
THEOREM ListInvariant == Spec => []ListInv
  <1>1. Init => ListInv
    BY PartitionEmpty DEF Init, ManagerInit, ListInv
  <1> QED  BY <1>1, ListStep, Invariant, PTL DEF Spec

(* No item is taken twice, however often the link repeats one or however late *)
(* the answer to a retried request is (PlanManager.cc:439-494).               *)
THEOREM ItemsOnce == Spec => []EachItemOnce
  <1>1. ListInv => EachItemOnce
    BY DEF ListInv, Partition, Numbers, EachItemOnce, ReadSequences
  <1> QED  BY <1>1, ListInvariant, PTL

(* The list and the open indices make up 0 .. n-1, so that a list handed to   *)
(* the controllers has no gap.                                                *)
THEOREM ItemsWhole == Spec => []NoItemMissing
  <1>1. ListInv => NoItemMissing
    BY DEF ListInv, Partition, Numbers, NoItemMissing, ReadSequences
  <1> QED  BY <1>1, ListInvariant, PTL

-----------------------------------------------------------------------------
(* What a plan transfer promises: that a success reported is one, that a     *)
(* read brings the vehicle's plan, and that PlanTransfer implements          *)
(* PlanStore.  The simulator's failure modes are off, the timers of writes   *)
(* outlast the round trip, and the link does not repeat what the protocol    *)
(* cannot tell from a new answer.                                            *)

(* Lemmas about the link.                                                    *)

(* What is sent comes last, or is lost on a full link.                        *)
SentLast(S, q, m, t) ==
    /\ t \in Seq(S)
    /\ \A i \in 1 .. Len(t) : (i \in 1 .. Len(q) /\ t[i] = q[i] /\ (Len(t) = Len(q) \/ i < Len(t)))
                             \/ (i = Len(t) /\ t[i] = m)
    /\ \A i \in 1 .. Len(q) : i \in 1 .. Len(t) /\ t[i] = q[i]
    /\ q = <<>> => t = <<m>>

LEMMA SentMembers ==
    ASSUME NEW S, NEW q \in Seq(S), NEW m \in S, NEW t, t = Sent(q, m)
    PROVE  SentLast(S, q, m, t)
  <1>1. CASE Len(q) < MaxInFlight
    <2>1. t = Append(q, m)
      BY <1>1 DEF Sent
    <2>2. t \in Seq(S) /\ Len(t) = Len(q) + 1
      BY <2>1
    <2>3. \A i \in 1 .. Len(q) : i \in 1 .. Len(t) /\ i < Len(t) /\ t[i] = q[i]
      BY <2>1, <2>2
    <2>4. t[Len(t)] = m
      BY <2>1, <2>2
    <2>5. \A i \in 1 .. Len(t) : i \in 1 .. Len(q) \/ i = Len(t)
      BY <2>2
    <2>6. q = <<>> => t = <<m>>
      BY <2>1
    <2> QED  BY <2>2, <2>3, <2>4, <2>5, <2>6 DEF SentLast
  <1>2. CASE ~(Len(q) < MaxInFlight)
    <2>1. t = q
      BY <1>2 DEF Sent
    <2>2. q # <<>>
      BY <1>2, ProtocolAssumption
    <2> QED  BY <2>1, <2>2 DEF SentLast
  <1> QED  BY <1>1, <1>2

(* What is taken off the front leaves the rest in its order.                  *)
FrontTaken(S, q, t) ==
    /\ t \in Seq(S) /\ Len(t) = Len(q) - 1 /\ Len(q) \in Nat
    /\ \A i \in 1 .. Len(t) : i + 1 \in 1 .. Len(q) /\ t[i] = q[i + 1]
    /\ Head(q) \in S /\ Head(q) = q[1] /\ 1 \in 1 .. Len(q)
    /\ Len(q) = 1 => t = <<>>

LEMMA TailMembers ==
    ASSUME NEW S, NEW q \in Seq(S), q # <<>>, NEW t, t = Tail(q)
    PROVE  FrontTaken(S, q, t)
  BY DEF FrontTaken

(* A message repeated stands before all others.                               *)
FrontRepeated(S, q, t) ==
    /\ t \in Seq(S) /\ Len(t) = Len(q) + 1 /\ Len(q) \in Nat
    /\ t[1] = q[1] /\ 1 \in 1 .. Len(q)
    /\ \A i \in 2 .. Len(t) : i - 1 \in 1 .. Len(q) /\ t[i] = q[i - 1]

LEMMA RepeatMembers ==
    ASSUME NEW S, NEW q \in Seq(S), q # <<>>, NEW t, t = <<Head(q)>> \o q
    PROVE  FrontRepeated(S, q, t)
  BY DEF FrontRepeated

-----------------------------------------------------------------------------
(* Writes and removals.  Each has at most one message of its own in the air: *)
(* what the ground station asks of the vehicle, or the vehicle's answer to it.*)

Asks(m) == m.type \in {"COUNT", "ITEM", "CLEAR_ALL", "GUIDED_ITEM"}
Answers(m) == m.own /\ m.type \in {"REQUEST", "ACK"}

NothingAsked(q) == \A i \in 1 .. Len(q) : ~Asks(q[i])
NothingAnswered(q) == \A i \in 1 .. Len(q) : ~Answers(q[i])

Writing == transaction = "Write" /\ expectedAck = "MissionRequest"
Guiding == transaction = "Write" /\ expectedAck = "GuidedItem"

(* The vehicle has the first n items of the list being written, and waits for *)
(* the next; the indices from n on are still to be asked for.                 *)
Stored(n) ==
    /\ DOMAIN vehicleItems = 0 .. (n - 1)
    /\ \A k \in 1 .. n : vehicleItems[k - 1] = writeMissionItems[k].item
Awaits(n) ==
    /\ Stored(n)
    /\ writeSequenceIndex = n
    /\ writeSequenceCount = Len(writeMissionItems)
Unsent(n) == indicesToWrite = n .. (Len(writeMissionItems) - 1)

AskFits(m) ==
    /\ m.type = "COUNT" => Writing /\ m.count = Len(writeMissionItems) /\ Unsent(0)
    /\ m.type = "ITEM" =>
          /\ Writing /\ toVehicle = <<m>>
          /\ m.seq < Len(writeMissionItems) /\ m.item = writeMissionItems[m.seq + 1].item
          /\ Awaits(m.seq) /\ Unsent(m.seq + 1)
    /\ m.type = "CLEAR_ALL" => transaction = "RemoveAll"
    /\ m.type = "GUIDED_ITEM" => Guiding

AnswerFits(m) ==
    /\ m.type = "REQUEST" =>
          Writing /\ m.seq < Len(writeMissionItems) /\ Awaits(m.seq) /\ Unsent(m.seq)
    /\ m.type = "ACK" =>
          \/ Writing /\ Stored(Len(writeMissionItems)) /\ indicesToWrite = {}
          \/ transaction = "RemoveAll" /\ DOMAIN vehicleItems = {}
          \/ Guiding

AskInv ==
    \A i \in 1 .. Len(toVehicle) : Asks(toVehicle[i]) =>
        i = Len(toVehicle) /\ NothingAnswered(toGcs) /\ AskFits(toVehicle[i])
AnswerInv ==
    \A i \in 1 .. Len(toGcs) : Answers(toGcs[i]) =>
        /\ toVehicle = <<>>
        /\ \A j \in (i + 1) .. Len(toGcs) : ~toGcs[j].own
        /\ AnswerFits(toGcs[i])
UnsentInv == Writing => \E n \in 0 .. Len(writeMissionItems) : Unsent(n)

WriteInv == failureMode = "None" /\ AskInv /\ AnswerInv /\ UnsentInv

(* The conditions of the runs that check these properties: no failure mode,   *)
(* timers of writes that outlast the round trip, and no repeated answer to a  *)
(* write.                                                                     *)
PlainVehicle == FailureModes \subseteq {"None"}
SlowWriteTimers == LateAcks \subseteq {"MissionCount", "MissionItem"}
OnlyReadsRepeated == Noises \subseteq {"COUNT", "ITEM", "foreign"}
WriteConditions == PlainVehicle /\ SlowWriteTimers /\ OnlyReadsRepeated

-----------------------------------------------------------------------------
(* Outside a write or removal nothing of one is in the air.                   *)
LEMMA NothingOfAWrite ==
    ASSUME WriteInv, transaction \notin {"Write", "RemoveAll"}
    PROVE  NothingAsked(toVehicle) /\ NothingAnswered(toGcs)
  <1>1. ASSUME NEW i \in 1 .. Len(toVehicle), Asks(toVehicle[i]) PROVE FALSE
    <2>1. AskFits(toVehicle[i])
      BY <1>1 DEF WriteInv, AskInv
    <2> QED  BY <1>1, <2>1 DEF Asks, AskFits, Writing, Guiding
  <1>2. ASSUME NEW i \in 1 .. Len(toGcs), Answers(toGcs[i]) PROVE FALSE
    <2>1. AnswerFits(toGcs[i])
      BY <1>2 DEF WriteInv, AnswerInv
    <2> QED  BY <1>2, <2>1 DEF Answers, AnswerFits, Writing, Guiding
  <1> QED  BY <1>1, <1>2 DEF NothingAsked, NothingAnswered

(* An idle link is one.                                                       *)
LEMMA NothingWhenQuiet ==
    ASSUME Quiet
    PROVE  NothingAsked(toVehicle) /\ NothingAnswered(toGcs)
  BY DEF Quiet, NothingAsked, NothingAnswered

(* With nothing of a write in the air there is nothing to keep.               *)
LEMMA NothingToKeep ==
    ASSUME failureMode' = "None", UnsentInv', NothingAsked(toVehicle'), NothingAnswered(toGcs')
    PROVE  WriteInv'
  BY DEF WriteInv, AskInv, AnswerInv, NothingAsked, NothingAnswered

(* The ground station asks for something.                                     *)
LEMMA AskIsSent ==
    ASSUME TypeOK, NEW m \in ToVehicleMessage,
           NothingAsked(toVehicle), NothingAnswered(toGcs'),
           toVehicle' = Sent(toVehicle, m), AskFits(m)',
           failureMode' = "None", UnsentInv'
    PROVE  WriteInv'
  <1> DEFINE t == toVehicle'
  <1>1. t = Sent(toVehicle, m) /\ toVehicle \in Seq(ToVehicleMessage)
    BY DEF TypeOK, LinkTypeOK
  <1>2. \A i \in 1 .. Len(t) : Asks(t[i]) => i = Len(t) /\ t[i] = m
    <2> HIDE DEF t
    <2>1. SentLast(ToVehicleMessage, toVehicle, m, t)
      BY <1>1, SentMembers
    <2> QED  BY <2>1 DEF SentLast, NothingAsked
  <1>3. AskInv'
    BY <1>2 DEF AskInv, Asks, AskFits, Writing, Guiding, Awaits, Stored, Unsent
  <1> QED  BY <1>3 DEF WriteInv, AnswerInv, NothingAnswered

(* The vehicle answers.                                                       *)
LEMMA AnswerIsSent ==
    ASSUME TypeOK, NEW m \in ToGcsMessage,
           NothingAnswered(toGcs), toVehicle' = <<>>,
           toGcs' = Sent(toGcs, m), AnswerFits(m)',
           failureMode' = "None", UnsentInv'
    PROVE  WriteInv'
  <1> DEFINE t == toGcs'
  <1>1. t = Sent(toGcs, m) /\ toGcs \in Seq(ToGcsMessage)
    BY DEF TypeOK, LinkTypeOK
  <1>2. \A i \in 1 .. Len(t) : Answers(t[i]) => i = Len(t) /\ t[i] = m
    <2> HIDE DEF t
    <2>1. SentLast(ToGcsMessage, toGcs, m, t)
      BY <1>1, SentMembers
    <2> QED  BY <2>1 DEF SentLast, NothingAnswered
  <1>3. AnswerInv'
    <2> SUFFICES ASSUME NEW i \in 1 .. Len(t), Answers(t[i])
                 PROVE  /\ \A j \in (i + 1) .. Len(t) : ~t[j].own
                        /\ AnswerFits(toGcs[i])'
      BY DEF AnswerInv, Answers
    <2>1. i = Len(t) /\ t[i] = m
      BY <1>2
    <2>2. Len(t) \in Nat
      <3> HIDE DEF t
      <3> QED  BY <1>1, SentMembers
    <2>3. (i + 1) .. Len(t) = {}
      BY <2>1, <2>2
    <2>4. AnswerFits(toGcs[i])'
      BY <2>1 DEF AnswerFits, Writing, Guiding, Awaits, Stored, Unsent
    <2> QED  BY <2>3, <2>4
  <1> QED  BY <1>3 DEF WriteInv, AskInv


(* What both facts speak of, besides the link.                                *)
writeVars == <<transaction, expectedAck, writeMissionItems, indicesToWrite, vehicleVars>>

LEMMA FitsStill ==
    ASSUME UNCHANGED writeVars, UNCHANGED toVehicle, NEW m
    PROVE  /\ AskFits(m) => AskFits(m)'
           /\ AnswerFits(m) => AnswerFits(m)'
           /\ UnsentInv => UnsentInv'
           /\ failureMode' = failureMode
  BY DEF writeVars, vehicleVars, AskFits, AnswerFits, UnsentInv, Unsent, Awaits, Stored, Writing, Guiding

(* Nothing new is among the own messages of some types, and what follows one  *)
(* is no newer.                                                               *)
OldOf(types, q, t) ==
    \A i \in 1 .. Len(t) : t[i].own /\ t[i].type \in types =>
        \E k \in 1 .. Len(q) :
            /\ q[k] = t[i]
            /\ \A j \in (i + 1) .. Len(t) : t[j].own => \E l \in (k + 1) .. Len(q) : q[l] = t[j]

OldAnswers(q, t) == OldOf({"REQUEST", "ACK"}, q, t)

LEMMA OldAnswersFit ==
    ASSUME WriteInv, UNCHANGED writeVars, UNCHANGED toVehicle, OldAnswers(toGcs, toGcs')
    PROVE  WriteInv'
  <1>1. AskInv'
    <2> SUFFICES ASSUME NEW i \in 1 .. Len(toVehicle), Asks(toVehicle[i])
                 PROVE  /\ i = Len(toVehicle) /\ NothingAnswered(toGcs')
                        /\ AskFits(toVehicle[i])'
      BY DEF AskInv
    <2>1. i = Len(toVehicle) /\ NothingAnswered(toGcs) /\ AskFits(toVehicle[i])
      BY DEF WriteInv, AskInv
    <2>2. NothingAnswered(toGcs')
      BY <2>1 DEF NothingAnswered, Answers, OldAnswers, OldOf
    <2>3. PICK m : m = toVehicle[i]
      OBVIOUS
    <2>4. AskFits(m)'
      BY <2>1, <2>3, FitsStill
    <2>5. AskFits(toVehicle[i])'
      BY <2>3, <2>4
    <2> QED  BY <2>1, <2>2, <2>5
  <1>2. AnswerInv'
    <2> SUFFICES ASSUME NEW i \in 1 .. Len(toGcs'), Answers(toGcs'[i])
                 PROVE  /\ toVehicle' = <<>>
                        /\ \A j \in (i + 1) .. Len(toGcs') : ~toGcs'[j].own
                        /\ AnswerFits(toGcs[i])'
      BY DEF AnswerInv, Answers
    <2>1. PICK k \in 1 .. Len(toGcs) :
            /\ toGcs[k] = toGcs'[i]
            /\ \A j \in (i + 1) .. Len(toGcs') :
                  toGcs'[j].own => \E l \in (k + 1) .. Len(toGcs) : toGcs[l] = toGcs'[j]
      BY DEF Answers, OldAnswers, OldOf
    <2>2. /\ toVehicle = <<>>
          /\ \A l \in (k + 1) .. Len(toGcs) : ~toGcs[l].own
          /\ AnswerFits(toGcs[k])
      BY <2>1 DEF WriteInv, AnswerInv
    <2>3. \A j \in (i + 1) .. Len(toGcs') : ~toGcs'[j].own
      BY <2>1, <2>2
    <2>4. PICK m : m = toGcs[k]
      OBVIOUS
    <2>5. AnswerFits(m)'
      BY <2>2, <2>4, FitsStill
    <2>6. AnswerFits(toGcs[i])'
      BY <2>1, <2>4, <2>5
    <2> QED  BY <2>2, <2>3, <2>6
  <1> QED  BY <1>1, <1>2, FitsStill DEF WriteInv

(* A message taken by the ground station, or lost, leaves older ones.         *)
LEMMA FrontLeavesOld ==
    ASSUME TypeOK, NEW types, toGcs # <<>>, toGcs' = Tail(toGcs)
    PROVE  OldOf(types, toGcs, toGcs')
  <1> DEFINE q == toGcs
             t == toGcs'
  <1>1. q \in Seq(ToGcsMessage) /\ q # <<>> /\ t = Tail(q)
    BY DEF TypeOK, LinkTypeOK
  <1> HIDE DEF q, t
  <1>2. FrontTaken(ToGcsMessage, q, t)
    BY <1>1, TailMembers
  <1>3. OldOf(types, q, t)
    <2> SUFFICES ASSUME NEW i \in 1 .. Len(t)
                 PROVE  /\ q[i + 1] = t[i]
                        /\ i + 1 \in 1 .. Len(q)
                        /\ \A j \in (i + 1) .. Len(t) :
                              t[j].own => \E l \in (i + 2) .. Len(q) : q[l] = t[j]
      <3>1. ASSUME NEW i \in 1 .. Len(t)
            PROVE  (i + 1) + 1 = i + 2
        BY <1>2 DEF FrontTaken
      <3> QED  BY <3>1 DEF OldOf
    <2>1. q[i + 1] = t[i] /\ i + 1 \in 1 .. Len(q)
      BY <1>2 DEF FrontTaken
    <2>2. ASSUME NEW j \in (i + 1) .. Len(t)
          PROVE  j + 1 \in (i + 2) .. Len(q) /\ q[j + 1] = t[j]
      <3>1. j \in 1 .. Len(t) /\ Len(t) = Len(q) - 1 /\ Len(q) \in Nat
        BY <1>2 DEF FrontTaken
      <3>2. q[j + 1] = t[j]
        BY <1>2, <3>1 DEF FrontTaken
      <3> QED  BY <3>1, <3>2
    <2> QED  BY <2>1, <2>2
  <1> QED  BY <1>3 DEF q, t

LEMMA MessageDropped ==
    ASSUME TypeOK, WriteInv, UNCHANGED writeVars, UNCHANGED toVehicle,
           toGcs # <<>>, toGcs' = Tail(toGcs)
    PROVE  WriteInv'
  BY FrontLeavesOld, OldAnswersFit DEF OldAnswers

(* What the link repeats is of the noisy types, and a foreign message not own. *)
LEMMA RepetitionIsOld ==
    ASSUME TypeOK, NEW types, types \cap Noises = {}, RepeatToGcs
    PROVE  OldOf(types, toGcs, toGcs')
  <1> DEFINE q == toGcs
             t == toGcs'
  <1>1. q \in Seq(ToGcsMessage) /\ q # <<>> /\ t = <<Head(q)>> \o q
    BY DEF TypeOK, LinkTypeOK, RepeatToGcs
  <1>2. Head(q).type \notin types
    BY DEF RepeatToGcs
  <1> HIDE DEF q, t
  <1>3. FrontRepeated(ToGcsMessage, q, t)
    BY <1>1, RepeatMembers
  <1>4. OldOf(types, q, t)
    <2> SUFFICES ASSUME NEW i \in 1 .. Len(t), t[i].own, t[i].type \in types
                 PROVE  \E k \in 1 .. Len(q) :
                           /\ q[k] = t[i]
                           /\ \A j \in (i + 1) .. Len(t) :
                                 t[j].own => \E l \in (k + 1) .. Len(q) : q[l] = t[j]
      BY DEF OldOf
    <2>1. t[1] = Head(q)
      BY <1>1
    <2>2. i # 1
      BY <1>2, <2>1
    <2>3. i \in 2 .. Len(t) /\ Len(t) = Len(q) + 1 /\ Len(q) \in Nat
      BY <1>3, <2>2 DEF FrontRepeated
    <2>4. q[i - 1] = t[i] /\ i - 1 \in 1 .. Len(q)
      BY <1>3, <2>3 DEF FrontRepeated
    <2>5. ASSUME NEW j \in (i + 1) .. Len(t)
          PROVE  j - 1 \in ((i - 1) + 1) .. Len(q) /\ q[j - 1] = t[j]
      <3>1. j \in 2 .. Len(t)
        BY <2>3
      <3>2. q[j - 1] = t[j]
        BY <1>3, <3>1 DEF FrontRepeated
      <3> QED  BY <2>3, <3>2
    <2> QED  BY <2>4, <2>5
  <1> QED  BY <1>4 DEF q, t

LEMMA ForeignIsNotOwn ==
    ASSUME TypeOK, NEW types, ForeignToGcs
    PROVE  OldOf(types, toGcs, toGcs')
  <1> DEFINE q == toGcs
             t == toGcs'
  <1>1. PICK m \in ForeignMessage : t = Append(q, m)
    BY DEF ForeignToGcs
  <1>2. q \in Seq(ToGcsMessage) /\ m.own = FALSE
    BY DEF TypeOK, LinkTypeOK, ForeignMessage
  <1> HIDE DEF q, t
  <1>3. /\ Len(t) = Len(q) + 1 /\ Len(q) \in Nat /\ t[Len(t)] = m
        /\ \A i \in 1 .. Len(q) : t[i] = q[i]
    BY <1>1, <1>2
  <1>4. OldOf(types, q, t)
    <2> SUFFICES ASSUME NEW i \in 1 .. Len(t), t[i].own, t[i].type \in types
                 PROVE  \E k \in 1 .. Len(q) :
                           /\ q[k] = t[i]
                           /\ \A j \in (i + 1) .. Len(t) :
                                 t[j].own => \E l \in (k + 1) .. Len(q) : q[l] = t[j]
      BY DEF OldOf
    <2>1. i # Len(t)
      BY <1>2, <1>3
    <2>2. i \in 1 .. Len(q) /\ q[i] = t[i]
      BY <1>3, <2>1
    <2>3. \A j \in (i + 1) .. Len(t) : t[j].own => j \in (i + 1) .. Len(q) /\ q[j] = t[j]
      BY <1>2, <1>3, <2>2
    <2> QED  BY <2>2, <2>3
  <1> QED  BY <1>4 DEF q, t

(* Taking or losing the oldest message to the vehicle, unless it answers a    *)
(* write, leaves what is asked behind it, or nothing.                         *)
LEMMA FrontOfVehicle ==
    ASSUME TypeOK, WriteInv, toVehicle # <<>>, toVehicle' = Tail(toVehicle),
           NothingAnswered(toGcs) => NothingAnswered(toGcs'),
           UNCHANGED <<transaction, expectedAck, writeMissionItems, indicesToWrite, failureMode>>
    PROVE  WriteInv'
  <1> DEFINE q == toVehicle
             t == toVehicle'
  <1>1. q \in Seq(ToVehicleMessage) /\ q # <<>> /\ t = Tail(q)
    BY DEF TypeOK, LinkTypeOK
  <1> HIDE DEF t
  <1>2. FrontTaken(ToVehicleMessage, q, t)
    BY <1>1, TailMembers
  <1>3. NothingAnswered(toGcs)
    BY <1>1 DEF NothingAnswered, WriteInv, AnswerInv
  <1>4. AskInv'
    <2> SUFFICES ASSUME NEW i \in 1 .. Len(t), Asks(t[i])
                 PROVE  /\ i = Len(t) /\ AskFits(toVehicle[i])'
      BY <1>1, <1>3 DEF AskInv, t
    <2>1. i + 1 \in 1 .. Len(q) /\ t[i] = q[i + 1] /\ Len(t) = Len(q) - 1 /\ Len(q) \in Nat
      BY <1>2 DEF FrontTaken
    <2>2. i + 1 = Len(q) /\ AskFits(q[i + 1])
      BY <2>1 DEF WriteInv, AskInv
    <2>3. PICK m : m = q[i + 1]
      OBVIOUS
    <2>4. m.type # "ITEM"
      <3>1. m.type = "ITEM" => q = <<m>>
        BY <2>2, <2>3 DEF AskFits
      <3>2. i + 1 # 1
        BY <2>1
      <3> QED  BY <2>2, <3>1, <3>2
    <2>5. toVehicle'[i] = m
      BY <2>1, <2>3 DEF t
    <2>6. AskFits(m)'
      BY <2>2, <2>3, <2>4 DEF AskFits, Writing, Guiding, Unsent
    <2>7. AskFits(toVehicle[i])'
      BY <2>5, <2>6
    <2> QED  BY <2>1, <2>2, <2>7
  <1>5. UnsentInv' /\ failureMode' = "None"
    BY DEF WriteInv, UnsentInv, Unsent, Writing
  <1> QED  BY <1>1, <1>3, <1>4, <1>5 DEF WriteInv, AnswerInv, NothingAnswered

LEMMA LinkKeepsWrite ==
    ASSUME TypeOK, OnlyReadsRepeated, WriteInv, LinkStep
    PROVE  WriteInv'
  <1>1. UNCHANGED writeVars
    BY DEF LinkStep, ManagerRests, writeVars
  <1>2. CASE LoseToVehicle
    BY <1>1, <1>2, FrontOfVehicle DEF LoseToVehicle, writeVars, vehicleVars
  <1>3. CASE LoseToGcs
    BY <1>1, <1>3, MessageDropped DEF LoseToGcs
  <1>4. CASE RepeatToGcs
    BY <1>1, <1>4, RepetitionIsOld, OldAnswersFit DEF RepeatToGcs, OldAnswers, OnlyReadsRepeated
  <1>5. CASE ForeignToGcs
    BY <1>1, <1>5, ForeignIsNotOwn, OldAnswersFit DEF ForeignToGcs, OldAnswers
  <1> QED  BY <1>2, <1>3, <1>4, <1>5 DEF LinkStep

-----------------------------------------------------------------------------
(* The vehicle's steps.                                                       *)

LEMMA VehicleMeans ==
    ASSUME ManagerRests
    PROVE  UNCHANGED <<transaction, expectedAck, writeMissionItems, indicesToWrite>>
  BY DEF ManagerRests

(* An answer to a read is none to a write.                                    *)
LEMMA ReadAnswerSent ==
    ASSUME TypeOK, NEW m \in ToGcsMessage, m.type \in {"COUNT", "ITEM"},
           toGcs' = Sent(toGcs, m), NothingAnswered(toGcs)
    PROVE  NothingAnswered(toGcs')
  <1> DEFINE t == toGcs'
  <1>1. toGcs \in Seq(ToGcsMessage) /\ t = Sent(toGcs, m)
    BY DEF TypeOK, LinkTypeOK
  <1> HIDE DEF t
  <1>2. SentLast(ToGcsMessage, toGcs, m, t)
    BY <1>1, SentMembers
  <1>3. NothingAnswered(t)
    BY <1>2 DEF SentLast, NothingAnswered, Answers
  <1> QED  BY <1>3 DEF t

(* The number a read asks for.                                                *)
LEMMA HeadRequest ==
    ASSUME TypeOK, HandleMissionRequestRead
    PROVE  Head(toVehicle).seq \in Nat
  <1>1. toVehicle \in Seq(ToVehicleMessage) /\ toVehicle # <<>> /\ Head(toVehicle).type = "REQUEST"
    BY DEF TypeOK, LinkTypeOK, HandleMissionRequestRead, Takes
  <1>2. Head(toVehicle) \in ToVehicleMessage
    BY <1>1
  <1> QED  BY <1>1, <1>2, ToVehicleFields

LEMMA ReadRequestsKeepWrite ==
    ASSUME TypeOK, TypeOK', WriteInv, ManagerRests,
           HandleMissionRequestList \/ HandleMissionRequestRead \/ HandleMissionAckRead
    PROVE  WriteInv'
  <1>1. /\ toVehicle # <<>> /\ toVehicle' = Tail(toVehicle)
        /\ UNCHANGED <<transaction, expectedAck, writeMissionItems, indicesToWrite, failureMode>>
    BY VehicleMeans DEF HandleMissionRequestList, HandleMissionRequestRead, HandleMissionAckRead, Takes
  <1>2. ASSUME NothingAnswered(toGcs)
        PROVE  NothingAnswered(toGcs')
    <2>1. CASE toGcs' = toGcs
      BY <1>2, <2>1
    <2>2. CASE HandleMissionRequestList
      <3>1. CASE toGcs' = Sent(toGcs, CountReply(itemCount))
        <4>1. CountReply(itemCount) \in ToGcsMessage /\ CountReply(itemCount).type = "COUNT"
          <5>1. itemCount \in Nat
            BY FS_CardinalityType DEF TypeOK, HandlerTypeOK, itemCount
          <5> QED  BY <5>1 DEF CountReply, ToGcsMessage
        <4>2. PICK m : m = CountReply(itemCount)
          OBVIOUS
        <4> QED  BY <1>2, <3>1, <4>1, <4>2, ReadAnswerSent
      <3> QED  BY <2>1, <2>2, <3>1 DEF HandleMissionRequestList, Respond, NoResponse
    <2>3. CASE HandleMissionRequestRead
      <3>1. PICK s \in Nat : Head(toVehicle).seq = s
        BY <2>3, HeadRequest
      <3>2. CASE AnswerRequest(s)
        <4>1. toGcs' = Sent(toGcs, ItemReply(s, vehicleItems'[s]))
          BY <3>2 DEF AnswerRequest, Respond
        <4>2. vehicleItems'[s] \in Item
          BY <3>2 DEF AnswerRequest, TypeOK, HandlerTypeOK, WithItem
        <4>3. PICK m : m = ItemReply(s, vehicleItems'[s])
          OBVIOUS
        <4>4. m \in ToGcsMessage /\ m.type = "ITEM"
          BY <3>1, <4>2, <4>3 DEF ItemReply, ToGcsMessage
        <4> QED  BY <1>2, <4>1, <4>3, <4>4, ReadAnswerSent
      <3> QED  BY <2>1, <2>3, <3>1, <3>2 DEF HandleMissionRequestRead, FailsAt, WriteInv, NoResponse
    <2> QED  BY <2>1, <2>2, <2>3 DEF HandleMissionAckRead, NoResponse
  <1> QED  BY <1>1, <1>2, FrontOfVehicle

(* What is asked in a write is alone in the air.                              *)
LEMMA AskTaken ==
    ASSUME TypeOK, WriteInv, toVehicle # <<>>, Asks(Head(toVehicle)), toVehicle' = Tail(toVehicle)
    PROVE  /\ toVehicle' = <<>> /\ NothingAnswered(toGcs) /\ AskFits(Head(toVehicle))
           /\ Head(toVehicle) \in ToVehicleMessage
  <1>1. toVehicle \in Seq(ToVehicleMessage)
    BY DEF TypeOK, LinkTypeOK
  <1>2. 1 \in 1 .. Len(toVehicle) /\ Head(toVehicle) = toVehicle[1]
    BY <1>1
  <1>3. 1 = Len(toVehicle) /\ NothingAnswered(toGcs) /\ AskFits(Head(toVehicle))
    BY <1>2 DEF WriteInv, AskInv
  <1>4. toVehicle' = <<>>
    BY <1>1, <1>3
  <1>5. Head(toVehicle) \in ToVehicleMessage
    BY <1>1
  <1> QED  BY <1>3, <1>4, <1>5

(* The vehicle accepts, or asks for item n, when it stands at n.              *)
LEMMA AnswerTypes ==
    /\ \A n \in Nat : RequestReply(n) \in ToGcsMessage /\ RequestReply(n).seq = n
                      /\ RequestReply(n).type = "REQUEST"
    /\ \A r \in AckResult : AckReply(r) \in ToGcsMessage /\ AckReply(r).type = "ACK"
  BY DEF RequestReply, AckReply, ToGcsMessage

LEMMA VehicleAsksNext ==
    ASSUME TypeOK, WriteInv, NothingAnswered(toGcs), toVehicle' = <<>>, failureMode' = failureMode,
           UNCHANGED <<transaction, expectedAck, writeMissionItems, indicesToWrite>>,
           Writing, NEW n \in Nat, Awaits(n)', Unsent(n), n < Len(writeMissionItems),
           RequestNextItem(n, Len(writeMissionItems))
    PROVE  WriteInv'
  <1>1. toGcs' = Sent(toGcs, RequestReply(n))
    BY DEF RequestNextItem, FailsAt, WriteInv, Respond, TypeOK, ManagerTypeOK
  <1>2. PICK m : m = RequestReply(n)
    OBVIOUS
  <1>3. m \in ToGcsMessage /\ m.seq = n /\ m.type = "REQUEST"
    BY <1>2, AnswerTypes
  <1>4. AnswerFits(m)'
    BY <1>3 DEF AnswerFits, Writing, Unsent
  <1>5. UnsentInv' /\ failureMode' = "None"
    BY DEF WriteInv, UnsentInv, Writing, Unsent
  <1> QED  BY <1>1, <1>2, <1>3, <1>4, <1>5, AnswerIsSent

LEMMA VehicleAcks ==
    ASSUME TypeOK, WriteInv, NothingAnswered(toGcs), toVehicle' = <<>>, failureMode' = failureMode,
           UNCHANGED <<transaction, expectedAck, writeMissionItems, indicesToWrite>>,
           NEW r \in AckResult, toGcs' = Sent(toGcs, AckReply(r)),
           \/ Writing /\ Stored(Len(writeMissionItems))' /\ indicesToWrite = {}
           \/ transaction = "RemoveAll" /\ DOMAIN vehicleItems' = {}
           \/ Guiding
    PROVE  WriteInv'
  <1>1. PICK m : m = AckReply(r)
    OBVIOUS
  <1>2. m \in ToGcsMessage /\ m.type = "ACK"
    BY <1>1, AnswerTypes
  <1>3. AnswerFits(m)'
    BY <1>2 DEF AnswerFits, Writing, Guiding, Stored
  <1>4. UnsentInv' /\ failureMode' = "None"
    BY DEF WriteInv, UnsentInv, Writing, Unsent
  <1> QED  BY <1>1, <1>2, <1>3, <1>4, AnswerIsSent

LEMMA ClearAndGuidedKeepWrite ==
    ASSUME TypeOK, WriteInv, ManagerRests, HandleMissionClearAll \/ HandleGuidedItem
    PROVE  WriteInv'
  <1>1. /\ toVehicle # <<>> /\ toVehicle' = Tail(toVehicle) /\ Asks(Head(toVehicle))
        /\ failureMode' = failureMode
    BY DEF HandleMissionClearAll, HandleGuidedItem, Takes, Asks
  <1>2. toVehicle' = <<>> /\ NothingAnswered(toGcs) /\ AskFits(Head(toVehicle))
    BY <1>1, AskTaken
  <1>3. UNCHANGED <<transaction, expectedAck, writeMissionItems, indicesToWrite>>
    BY VehicleMeans
  <1>4. CASE HandleMissionClearAll
    <2>1. transaction = "RemoveAll" /\ DOMAIN vehicleItems' = {}
      BY <1>2, <1>4 DEF HandleMissionClearAll, Takes, AskFits, noItems
    <2>2. toGcs' = Sent(toGcs, AckReply("ACCEPTED")) /\ "ACCEPTED" \in AckResult
      BY <1>4 DEF HandleMissionClearAll, Respond, AckResult
    <2> QED  BY <1>1, <1>2, <1>3, <2>1, <2>2, VehicleAcks
  <1>5. CASE HandleGuidedItem
    <2>1. Guiding
      BY <1>2, <1>5 DEF HandleGuidedItem, Takes, AskFits
    <2>2. CASE toGcs' = toGcs
      <3>1. UnsentInv' /\ failureMode' = "None"
        BY <1>1, <1>3 DEF WriteInv, UnsentInv, Writing, Unsent
      <3> QED  BY <1>2, <2>2, <3>1, NothingToKeep DEF NothingAsked
    <2>3. CASE \E r \in AckResult : toGcs' = Sent(toGcs, AckReply(r))
      BY <1>1, <1>2, <1>3, <2>1, <2>3, VehicleAcks
    <2> QED  BY <1>5, <2>2, <2>3 DEF HandleGuidedItem, NoResponse, Respond
  <1> QED  BY <1>4, <1>5

LEMMA CountKeepsWrite ==
    ASSUME TypeOK, WriteInv, ManagerRests, HandleMissionCountWrite
    PROVE  WriteInv'
  <1>1. /\ toVehicle # <<>> /\ toVehicle' = Tail(toVehicle) /\ Asks(Head(toVehicle))
        /\ Head(toVehicle).type = "COUNT" /\ failureMode' = failureMode
    BY DEF HandleMissionCountWrite, Takes, Asks
  <1>2. toVehicle' = <<>> /\ NothingAnswered(toGcs) /\ AskFits(Head(toVehicle))
    BY <1>1, AskTaken
  <1>3. UNCHANGED <<transaction, expectedAck, writeMissionItems, indicesToWrite>>
    BY VehicleMeans
  <1>4. Writing /\ Head(toVehicle).count = Len(writeMissionItems) /\ Unsent(0)
    BY <1>1, <1>2 DEF AskFits
  <1>5. Len(writeMissionItems) \in Nat /\ failureMode = "None"
    BY DEF TypeOK, ManagerTypeOK, WriteInv
  <1>6. vehicleItems' = noItems /\ writeSequenceCount' = Len(writeMissionItems)
    BY <1>4 DEF HandleMissionCountWrite
  <1>7. Stored(0)'
    BY <1>6 DEF Stored, noItems
  <1>8. CASE Len(writeMissionItems) = 0
    <2>1. ~(Head(toVehicle).count > 0)
      BY <1>4, <1>8
    <2>2. toGcs' = Sent(toGcs, AckReply("ACCEPTED"))
      BY Zenon, <2>1 DEF HandleMissionCountWrite, Respond
    <2>3. "ACCEPTED" \in AckResult
      BY DEF AckResult
    <2>4. indicesToWrite = {} /\ Stored(Len(writeMissionItems))'
      BY <1>3, <1>4, <1>7, <1>8 DEF Unsent
    <2> QED  BY <1>1, <1>2, <1>3, <1>4, <2>2, <2>3, <2>4, VehicleAcks
  <1>9. CASE Len(writeMissionItems) > 0
    <2>1. RequestNextItem(0, Len(writeMissionItems)) /\ writeSequenceIndex' = 0
      BY <1>4, <1>5, <1>9 DEF HandleMissionCountWrite, CountUnanswered
    <2>2. Awaits(0)'
      BY <1>3, <1>6, <1>7, <2>1 DEF Awaits
    <2> QED  BY <1>1, <1>2, <1>3, <1>4, <1>9, <2>1, <2>2, VehicleAsksNext
  <1> QED  BY <1>5, <1>8, <1>9

(* The item asked for comes next to those the vehicle has.                    *)
LEMMA ItemIsStored ==
    ASSUME TypeOK, NEW n \in Nat, n < Len(writeMissionItems), Stored(n),
           writeMissionItems' = writeMissionItems,
           vehicleItems' = WithItem(vehicleItems, n, writeMissionItems[n + 1].item)
    PROVE  Stored(n + 1)'
  <1>1. DOMAIN vehicleItems' = 0 .. ((n + 1) - 1)
    BY DEF WithItem, Stored
  <1>2. ASSUME NEW k \in 1 .. (n + 1)
        PROVE  vehicleItems'[k - 1] = writeMissionItems[k].item
    <2>1. CASE k = n + 1
      BY <2>1 DEF WithItem
    <2>2. CASE k # n + 1
      <3>1. k \in 1 .. n /\ k - 1 # n /\ k - 1 \in DOMAIN vehicleItems
        BY <2>2 DEF Stored
      <3>2. vehicleItems'[k - 1] = vehicleItems[k - 1]
        BY <3>1 DEF WithItem
      <3> QED  BY <3>1, <3>2 DEF Stored
    <2> QED  BY <2>1, <2>2
  <1> QED  BY <1>1, <1>2 DEF Stored

LEMMA ItemKeepsWrite ==
    ASSUME TypeOK, WriteInv, ManagerRests, HandleMissionItemWrite
    PROVE  WriteInv'
  <1>1. /\ toVehicle # <<>> /\ toVehicle' = Tail(toVehicle) /\ Asks(Head(toVehicle))
        /\ Head(toVehicle).type = "ITEM" /\ failureMode' = failureMode
    BY DEF HandleMissionItemWrite, Takes, Asks
  <1>2. toVehicle' = <<>> /\ NothingAnswered(toGcs) /\ AskFits(Head(toVehicle))
        /\ Head(toVehicle) \in ToVehicleMessage
    BY <1>1, AskTaken
  <1>3. UNCHANGED <<transaction, expectedAck, writeMissionItems, indicesToWrite>>
    BY VehicleMeans
  <1>4. PICK n \in Nat : n = Head(toVehicle).seq
    BY <1>1, <1>2, ToVehicleFields
  <1>5. /\ Writing /\ Awaits(n) /\ Unsent(n + 1)
        /\ n < Len(writeMissionItems) /\ Head(toVehicle).item = writeMissionItems[n + 1].item
    BY <1>1, <1>2, <1>4 DEF AskFits
  <1>6. Len(writeMissionItems) \in Nat /\ failureMode = "None"
    BY DEF TypeOK, ManagerTypeOK, WriteInv
  <1>7. /\ vehicleItems' = WithItem(vehicleItems, n, writeMissionItems[n + 1].item)
        /\ writeSequenceIndex' = n + 1 /\ writeSequenceCount' = Len(writeMissionItems)
    BY <1>4, <1>5 DEF HandleMissionItemWrite, Awaits
  <1>8. Stored(n + 1)'
    BY <1>3, <1>5, <1>7, ItemIsStored DEF Awaits
  <1>9. CASE n + 1 = Len(writeMissionItems)
    <2>1. FinalAck
      BY <1>4, <1>5, <1>6, <1>9 DEF HandleMissionItemWrite, Awaits
    <2>2. toGcs' = Sent(toGcs, AckReply("ACCEPTED")) /\ "ACCEPTED" \in AckResult
      BY <2>1, <1>6 DEF FinalAck, Respond, AckResult
    <2>3. indicesToWrite = {} /\ Stored(Len(writeMissionItems))'
      BY <1>3, <1>5, <1>6, <1>8, <1>9 DEF Unsent
    <2> QED  BY <1>1, <1>2, <1>3, <1>5, <2>2, <2>3, VehicleAcks
  <1>10. CASE n + 1 < Len(writeMissionItems)
    <2>1. RequestNextItem(n + 1, Len(writeMissionItems))
      BY <1>4, <1>5, <1>6, <1>10 DEF HandleMissionItemWrite, Awaits
    <2>2. Awaits(n + 1)'
      BY <1>3, <1>7, <1>8 DEF Awaits
    <2> QED  BY <1>1, <1>2, <1>3, <1>5, <1>10, <2>1, <2>2, VehicleAsksNext
  <1> QED  BY <1>5, <1>6, <1>9, <1>10

LEMMA VehicleKeepsWrite ==
    ASSUME TypeOK, TypeOK', WriteInv, VehicleStep
    PROVE  WriteInv'
  BY ReadRequestsKeepWrite, ClearAndGuidedKeepWrite, CountKeepsWrite, ItemKeepsWrite
     DEF VehicleStep, ReceiveFromGcs

-----------------------------------------------------------------------------
(* The ground station's steps.                                                *)

(* What a read sends is nothing a write asks.                                 *)
LEMMA ReadAskSent ==
    ASSUME TypeOK, NEW m \in ToVehicleMessage, ~Asks(m),
           toVehicle' = Sent(toVehicle, m), NothingAsked(toVehicle)
    PROVE  NothingAsked(toVehicle')
  <1> DEFINE t == toVehicle'
  <1>1. toVehicle \in Seq(ToVehicleMessage) /\ t = Sent(toVehicle, m)
    BY DEF TypeOK, LinkTypeOK
  <1> HIDE DEF t
  <1>2. SentLast(ToVehicleMessage, toVehicle, m, t)
    BY <1>1, SentMembers
  <1>3. NothingAsked(t)
    BY <1>2 DEF SentLast, NothingAsked
  <1> QED  BY <1>3 DEF t

LEMMA ReadMessages ==
    /\ [type |-> "REQUEST_LIST"] \in ToVehicleMessage /\ ~Asks([type |-> "REQUEST_LIST"])
    /\ [type |-> "ACK"] \in ToVehicleMessage /\ ~Asks([type |-> "ACK"])
    /\ \A n \in Nat : [type |-> "REQUEST", seq |-> n] \in ToVehicleMessage
                      /\ ~Asks([type |-> "REQUEST", seq |-> n])
  BY DEF ToVehicleMessage, Asks

(* The steps of a read, from its start to its end.                            *)
LEMMA ReadKeepsWrite ==
    ASSUME TypeOK, WriteInv, transaction \in {"None", "Read"}, transaction' \in {"None", "Read"},
           toGcs' = toGcs \/ (toGcs # <<>> /\ toGcs' = Tail(toGcs)),
           \/ toVehicle' = toVehicle
           \/ \E m \in ToVehicleMessage : ~Asks(m) /\ toVehicle' = Sent(toVehicle, m),
           UNCHANGED vehicleVars
    PROVE  WriteInv'
  <1>1. NothingAsked(toVehicle) /\ NothingAnswered(toGcs)
    BY NothingOfAWrite
  <1>2. NothingAsked(toVehicle')
    BY <1>1, ReadAskSent
  <1>3. NothingAnswered(toGcs')
    <2>1. ASSUME toGcs # <<>>, toGcs' = Tail(toGcs)
          PROVE  OldAnswers(toGcs, toGcs')
      BY <2>1, FrontLeavesOld DEF OldAnswers
    <2> QED  BY <1>1, <2>1 DEF NothingAnswered, Answers, OldAnswers, OldOf
  <1>4. UnsentInv' /\ failureMode' = "None"
    BY DEF UnsentInv, Writing, vehicleVars, WriteInv
  <1> QED  BY <1>2, <1>3, <1>4, NothingToKeep

LEMMA StartKeepsWrite ==
    ASSUME IInv, IInv', WriteInv, StartTransaction, UNCHANGED vehicleVars
    PROVE  WriteInv'
  <1>1. TypeOK /\ TypeOK' /\ transaction = "None" /\ toGcs' = toGcs
    BY DEF IInv, StartTransaction, LoadFromVehicle, WriteMissionItems, GenerateResumeMission, RemoveAll,
           WriteGuidedItem, StartWrite, inProgress
  <1>2. NothingAsked(toVehicle) /\ NothingAnswered(toGcs')
    BY <1>1, NothingOfAWrite
  <1>3. failureMode' = "None"
    BY DEF WriteInv, vehicleVars
  <1>4. CASE LoadFromVehicle
    BY <1>1, <1>4, ReadKeepsWrite, ReadMessages DEF LoadFromVehicle, SendRequestList, SendToVehicle
  <1>5. ASSUME NEW list, StartWrite(list)
        PROVE  WriteInv'
    <2>1. writeMissionItems' = list /\ Len(list) \in Nat /\ Writing' /\ Unsent(0)'
      BY <1>1, <1>5 DEF StartWrite, TypeOK, ManagerTypeOK, Writing, Unsent, StartAckTimeout
    <2>2. PICK m : m = [type |-> "COUNT", count |-> Len(list)]
      OBVIOUS
    <2>3. m \in ToVehicleMessage /\ m.type = "COUNT" /\ m.count = Len(list)
      BY <2>1, <2>2 DEF ToVehicleMessage
    <2>4. toVehicle' = Sent(toVehicle, m)
      BY <1>5, <2>2 DEF StartWrite, SendMissionCount, SendToVehicle
    <2>5. AskFits(m)' /\ UnsentInv'
      BY <2>1, <2>3 DEF AskFits, UnsentInv
    <2> QED  BY <1>1, <1>2, <1>3, <2>3, <2>4, <2>5, AskIsSent
  <1>6. CASE RemoveAll
    <2>1. PICK m : m = [type |-> "CLEAR_ALL"]
      OBVIOUS
    <2>2. m \in ToVehicleMessage /\ m.type = "CLEAR_ALL" /\ toVehicle' = Sent(toVehicle, m)
      BY <1>6, <2>1 DEF ToVehicleMessage, RemoveAll, SendClearAll, SendToVehicle
    <2>3. AskFits(m)' /\ UnsentInv'
      BY <1>6, <2>2 DEF AskFits, UnsentInv, RemoveAll, Writing
    <2> QED  BY <1>1, <1>2, <1>3, <2>2, <2>3, AskIsSent
  <1>7. CASE WriteGuidedItem
    <2>1. PICK m : m = [type |-> "GUIDED_ITEM"]
      OBVIOUS
    <2>2. m \in ToVehicleMessage /\ m.type = "GUIDED_ITEM" /\ toVehicle' = Sent(toVehicle, m)
      BY <1>7, <2>1 DEF ToVehicleMessage, WriteGuidedItem, SendToVehicle
    <2>3. AskFits(m)' /\ UnsentInv'
      BY <1>7, <2>2 DEF AskFits, UnsentInv, WriteGuidedItem, Writing, Guiding, StartAckTimeout
    <2> QED  BY <1>1, <1>2, <1>3, <2>2, <2>3, AskIsSent
  <1> QED  BY <1>4, <1>5, <1>6, <1>7 DEF StartTransaction, WriteMissionItems, GenerateResumeMission

(* A message of a read, while a transaction waits for it.                     *)
LEMMA ReadAnswered ==
    ASSUME IInv, IInv', WriteInv, HandleMissionCount \/ HandleMissionItem, UNCHANGED vehicleVars
    PROVE  WriteInv'
  <1>1. TypeOK /\ toGcs # <<>> /\ toGcs' = Tail(toGcs)
    BY DEF IInv, HandleMissionCount, HandleMissionItem, Arrives
  <1>2. transaction = "Read"
    BY DEF IInv, WaitsForAnAnswer, HandleMissionCount, HandleMissionItem, Arrives, inProgress,
           TypeOK, ManagerTypeOK, Transaction
  <1>3. \/ toVehicle' = toVehicle /\ transaction' = transaction
        \/ /\ toVehicle' = Sent(toVehicle, [type |-> "ACK"])
           /\ transaction' = "None"
        \/ \E left : /\ toVehicle' = Sent(toVehicle, [type |-> "REQUEST", seq |-> First(left)])
                     /\ indicesToRead' = left /\ transaction' = transaction
                     /\ expectedAck' = "MissionItem"
    BY DEF HandleMissionCount, HandleMissionItem, DisregardMissionItem, TakeMissionItem,
           ReadTransactionComplete, ContinueRead, RequestNextMissionItem, StartAckTimeout,
           SendToVehicle, FinishTransaction
  <1>4. ASSUME NEW left, indicesToRead' = left, transaction' = "Read", expectedAck' = "MissionItem"
        PROVE  First(left) \in Nat
    <2>1. left # {} /\ left \in SUBSET Nat
      BY <1>4 DEF IInv, SomethingLeftToRead, TypeOK, ManagerTypeOK
    <2> QED  BY <2>1, FirstIsMember
  <1> QED  BY <1>1, <1>2, <1>3, <1>4, ReadMessages, ReadKeepsWrite

(* An own request or ack answers what a write or removal asked, and is alone  *)
(* in the air but for foreign messages.                                       *)
LEMMA AnswerTaken ==
    ASSUME TypeOK, WriteInv, toGcs # <<>>, Answers(Head(toGcs)), toGcs' = Tail(toGcs)
    PROVE  /\ toVehicle = <<>> /\ AnswerFits(Head(toGcs))
           /\ \A i \in 1 .. Len(toGcs') : ~toGcs'[i].own
           /\ NothingAnswered(toGcs')
  <1> DEFINE t == toGcs'
  <1>1. toGcs \in Seq(ToGcsMessage) /\ toGcs # <<>> /\ t = Tail(toGcs)
    BY DEF TypeOK, LinkTypeOK
  <1> HIDE DEF t
  <1>2. FrontTaken(ToGcsMessage, toGcs, t)
    BY <1>1, TailMembers
  <1>3. 1 \in 1 .. Len(toGcs) /\ Head(toGcs) = toGcs[1]
    BY <1>2 DEF FrontTaken
  <1>4. /\ toVehicle = <<>> /\ AnswerFits(Head(toGcs))
        /\ \A j \in 2 .. Len(toGcs) : ~toGcs[j].own
    BY <1>3 DEF WriteInv, AnswerInv
  <1>5. ASSUME NEW i \in 1 .. Len(t)
        PROVE  ~t[i].own
    <2>1. i + 1 \in 2 .. Len(toGcs) /\ t[i] = toGcs[i + 1]
      BY <1>2 DEF FrontTaken
    <2> QED  BY <1>4, <2>1
  <1> QED  BY <1>4, <1>5 DEF NothingAnswered, Answers, t

LEMMA RequestKeepsWrite ==
    ASSUME IInv, IInv', WriteInv, HandleMissionRequest, UNCHANGED vehicleVars
    PROVE  WriteInv'
  <1>1. /\ TypeOK /\ toGcs # <<>> /\ toGcs' = Tail(toGcs) /\ Answers(Head(toGcs))
        /\ Head(toGcs).type = "REQUEST"
    BY DEF IInv, HandleMissionRequest, Arrives, Answers, ForThisPlan
  <1>2. toVehicle = <<>> /\ AnswerFits(Head(toGcs)) /\ NothingAnswered(toGcs')
    BY <1>1, AnswerTaken
  <1>3. Head(toGcs).seq \in Nat
    <2>1. toGcs \in Seq(ToGcsMessage)
      BY <1>1 DEF TypeOK, LinkTypeOK
    <2>2. Head(toGcs) \in ToGcsMessage
      BY <1>1, <2>1
    <2> QED  BY <1>1, <2>2, ToGcsFields
  <1>4. PICK n \in Nat : n = Head(toGcs).seq
    BY <1>3
  <1>5. Writing /\ n < Len(writeMissionItems) /\ Awaits(n) /\ Unsent(n)
    BY <1>1, <1>2, <1>4 DEF AnswerFits
  <1>6. Len(writeMissionItems) \in Nat
    BY <1>1 DEF TypeOK, ManagerTypeOK
  <1>7. SendRequestedItem(n)
    <2>1. SendRequestedItem(n) \/ RefuseRequestedItem(n)
      BY <1>4 DEF HandleMissionRequest
    <2>2. ~(n >= Len(writeMissionItems))
      BY <1>5, <1>6
    <2> QED  BY <2>1, <2>2 DEF RefuseRequestedItem
  <1>8. PICK m : m = [type |-> "ITEM", seq |-> n, item |-> writeMissionItems[n + 1].item]
    OBVIOUS
  <1>9. m \in ToVehicleMessage
    <2>1. n + 1 \in 1 .. Len(writeMissionItems) /\ writeMissionItems \in Seq(Entry)
      BY <1>1, <1>5, <1>6 DEF TypeOK, ManagerTypeOK
    <2>2. writeMissionItems[n + 1].item \in Item
      BY <2>1, EntryFields
    <2> QED  BY <1>8, <2>2 DEF ToVehicleMessage
  <1>10. m.type = "ITEM" /\ m.seq = n /\ m.item = writeMissionItems[n + 1].item
    BY <1>8
  <1>11. /\ toVehicle' = Sent(toVehicle, m) /\ indicesToWrite' = indicesToWrite \ {n}
         /\ transaction' = transaction /\ expectedAck' = expectedAck
         /\ writeMissionItems' = writeMissionItems
    BY <1>5, <1>7, <1>8 DEF SendRequestedItem, SendToVehicle, StartAckTimeout, Writing
  <1>12. Unsent(n + 1)'
    BY <1>5, <1>6, <1>11 DEF Unsent
  <1>13. toVehicle' = <<m>>
    <2>1. SentLast(ToVehicleMessage, toVehicle, m, toVehicle')
      BY <1>1, <1>9, <1>11, SentMembers DEF TypeOK, LinkTypeOK
    <2> QED  BY <1>2, <2>1 DEF SentLast
  <1>14. AskFits(m)'
    BY <1>5, <1>10, <1>11, <1>12, <1>13 DEF AskFits, Writing, Awaits, Stored, vehicleVars
  <1>15. UnsentInv' /\ failureMode' = "None"
    BY <1>5, <1>6, <1>11, <1>12 DEF UnsentInv, WriteInv, vehicleVars
  <1>16. NothingAsked(toVehicle)
    BY <1>2 DEF NothingAsked
  <1> QED  BY <1>1, <1>2, <1>9, <1>11, <1>14, <1>15, <1>16, AskIsSent

LEMMA AckKeepsWrite ==
    ASSUME IInv, WriteInv, HandleMissionAck, UNCHANGED vehicleVars
    PROVE  WriteInv'
  <1>1. /\ TypeOK /\ toGcs # <<>> /\ toGcs' = Tail(toGcs) /\ Answers(Head(toGcs))
        /\ toVehicle' = toVehicle /\ transaction' = "None"
    BY DEF IInv, HandleMissionAck, Arrives, Answers, ForThisPlan, FinishTransaction, FinishGuidedItem
  <1>2. toVehicle = <<>> /\ NothingAnswered(toGcs')
    BY <1>1, AnswerTaken
  <1>3. UnsentInv' /\ failureMode' = "None"
    BY <1>1 DEF UnsentInv, Writing, WriteInv, vehicleVars
  <1> QED  BY <1>1, <1>2, <1>3, NothingToKeep DEF NothingAsked

LEMMA AnswerKeepsWrite ==
    ASSUME IInv, IInv', WriteInv, ReceiveFromVehicle, UNCHANGED vehicleVars
    PROVE  WriteInv'
  <1>1. CASE HandleHomePosition
    BY <1>1, MessageDropped DEF IInv, HandleHomePosition, Arrives, writeVars
  <1>2. CASE IgnoreMessage
    BY <1>2, MessageDropped DEF IInv, IgnoreMessage, writeVars
  <1> QED  BY <1>1, <1>2, ReadAnswered, RequestKeepsWrite, AckKeepsWrite DEF ReceiveFromVehicle

(* Giving up leaves no transaction.                                           *)
LEMMA GivenUp ==
    ASSUME NEW ack, GiveUp(ack)
    PROVE  transaction' = "None" /\ toVehicle' = toVehicle
  BY DEF GiveUp, FinishTransaction

LEMMA ReadTimeoutKeepsWrite ==
    ASSUME IInv, WriteInv, MissionCountTimeout \/ MissionItemTimeout, UNCHANGED vehicleVars
    PROVE  WriteInv'
  <1>1. TypeOK /\ toGcs' = toGcs
    BY DEF IInv, MissionCountTimeout, MissionItemTimeout, TimerFires
  <1>2. transaction = "Read"
    BY DEF IInv, WaitsForAnAnswer, MissionCountTimeout, MissionItemTimeout, TimerFires, inProgress,
           TypeOK, ManagerTypeOK, Transaction
  <1>3. \/ toVehicle' = toVehicle /\ transaction' = "None"
        \/ /\ toVehicle' = Sent(toVehicle, [type |-> "REQUEST_LIST"])
           /\ transaction' = "Read"
        \/ /\ toVehicle' = Sent(toVehicle, [type |-> "REQUEST", seq |-> First(indicesToRead)])
           /\ transaction' = "Read" /\ expectedAck = "MissionItem"
    BY <1>2, GivenUp DEF MissionCountTimeout, MissionItemTimeout, Retry, SendRequestList, SendToVehicle,
                   TimerFires
  <1>4. expectedAck = "MissionItem" => First(indicesToRead) \in Nat
    <2>1. expectedAck = "MissionItem" => indicesToRead # {}
      BY <1>2 DEF IInv, SomethingLeftToRead
    <2>2. indicesToRead \in SUBSET Nat
      BY <1>1 DEF TypeOK, ManagerTypeOK
    <2> QED  BY <2>1, <2>2, FirstIsMember
  <1> QED  BY <1>1, <1>2, <1>3, <1>4, ReadMessages, ReadKeepsWrite

LEMMA WriteTimeoutKeepsWrite ==
    ASSUME IInv, WriteInv, SlowWriteTimers,
           MissionRequestTimeout \/ ClearAllTimeout \/ GuidedItemTimeout, UNCHANGED vehicleVars
    PROVE  WriteInv'
  <1>1. TypeOK /\ toGcs' = toGcs /\ Quiet
    BY DEF IInv, MissionRequestTimeout, ClearAllTimeout, GuidedItemTimeout, TimerFires, SlowWriteTimers
  <1>2. /\ NothingAsked(toVehicle) /\ NothingAnswered(toGcs')
        /\ toVehicle = <<>> /\ failureMode' = "None"
    BY <1>1, NothingWhenQuiet DEF Quiet, WriteInv, vehicleVars
  <1>3. ASSUME NEW ack, GiveUp(ack)
        PROVE  WriteInv'
    <2>1. UnsentInv'
      BY <1>3, GivenUp DEF UnsentInv, Writing
    <2> QED  BY <1>2, <1>3, <2>1, GivenUp, NothingToKeep
  <1>4. CASE MissionRequestTimeout /\ \A ack : ~GiveUp(ack)
    <2>1. /\ 0 \in indicesToWrite /\ expectedAck = "MissionRequest" /\ Retry("MissionRequest")
          /\ SendMissionCount(Len(writeMissionItems))
      BY <1>4 DEF MissionRequestTimeout, TimerFires
    <2>2. Writing
      BY <2>1, <1>4 DEF Writing, IInv, WaitsForAnAnswer, inProgress, MissionRequestTimeout, TimerFires,
                  TypeOK, ManagerTypeOK, Transaction
    <2>3. Len(writeMissionItems) \in Nat
      BY <1>1 DEF TypeOK, ManagerTypeOK
    <2>4. Unsent(0)
      <3>1. PICK n \in 0 .. Len(writeMissionItems) : Unsent(n)
        BY <2>2 DEF WriteInv, UnsentInv
      <3>2. n = 0
        BY <2>1, <2>3, <3>1 DEF Unsent
      <3> QED  BY <3>1, <3>2
    <2>5. PICK m : m = [type |-> "COUNT", count |-> Len(writeMissionItems)]
      OBVIOUS
    <2>6. m \in ToVehicleMessage /\ m.type = "COUNT" /\ m.count = Len(writeMissionItems)
      BY <2>3, <2>5 DEF ToVehicleMessage
    <2>7. toVehicle' = Sent(toVehicle, m)
      BY <2>1, <2>5 DEF SendMissionCount, SendToVehicle
    <2>8. AskFits(m)' /\ UnsentInv'
      BY <2>1, <2>2, <2>3, <2>4, <2>6 DEF AskFits, UnsentInv, Unsent, Writing, Retry, StartAckTimeout
    <2> QED  BY <1>1, <1>2, <2>6, <2>7, <2>8, AskIsSent
  <1>5. CASE ClearAllTimeout /\ \A ack : ~GiveUp(ack)
    <2>1. expectedAck = "MissionClearAll" /\ Retry("MissionClearAll") /\ SendClearAll
      BY <1>5 DEF ClearAllTimeout, TimerFires
    <2>2. transaction = "RemoveAll" /\ transaction' = "RemoveAll"
      BY <2>1, <1>5 DEF IInv, WaitsForAnAnswer, inProgress, ClearAllTimeout, TimerFires, Retry,
                  TypeOK, ManagerTypeOK, Transaction
    <2>3. PICK m : m = [type |-> "CLEAR_ALL"]
      OBVIOUS
    <2>4. m \in ToVehicleMessage /\ m.type = "CLEAR_ALL" /\ toVehicle' = Sent(toVehicle, m)
      BY <2>1, <2>3 DEF ToVehicleMessage, SendClearAll, SendToVehicle
    <2>5. AskFits(m)' /\ UnsentInv'
      BY <2>2, <2>4 DEF AskFits, UnsentInv, Writing
    <2> QED  BY <1>1, <1>2, <2>4, <2>5, AskIsSent
  <1> QED  BY <1>3, <1>4, <1>5 DEF GuidedItemTimeout

LEMMA InitOfAWrite ==
    ASSUME Init, PlainVehicle
    PROVE  WriteInv
  BY DEF Init, PlainVehicle, LinkInit, ManagerInit, HandlerInit, WriteInv, AskInv, AnswerInv, UnsentInv, Writing

LEMMA StepKeepsWrite ==
    ASSUME WriteConditions, IInv, IInv', WriteInv, [Next]_vars
    PROVE  WriteInv'
  <1>1. CASE ManagerStep
    BY <1>1, StartKeepsWrite, AnswerKeepsWrite, ReadTimeoutKeepsWrite, WriteTimeoutKeepsWrite
       DEF ManagerStep, AckTimeout, WriteConditions
  <1>2. CASE VehicleStep
    BY <1>2, VehicleKeepsWrite DEF IInv
  <1>3. CASE LinkStep
    BY <1>3, LinkKeepsWrite DEF IInv, WriteConditions
  <1>4. CASE UNCHANGED vars
    <2>1. UNCHANGED writeVars /\ UNCHANGED <<toVehicle, toGcs>>
      BY <1>4 DEF vars, linkVars, managerVars, vehicleVars, writeVars
    <2>2. OldAnswers(toGcs, toGcs')
      BY <2>1 DEF OldAnswers, OldOf
    <2> QED  BY <2>1, <2>2, OldAnswersFit
  <1> QED  BY <1>1, <1>2, <1>3, <1>4 DEF Next

THEOREM WriteInvariant ==
    ASSUME WriteConditions
    PROVE  Spec => []WriteInv
  <1>1. Init => WriteInv
    BY InitOfAWrite DEF WriteConditions
  <1>2. IInv /\ IInv' /\ WriteInv /\ [Next]_vars => WriteInv'
    BY StepKeepsWrite
  <1> QED  BY <1>1, <1>2, Invariant, PTL DEF Spec

-----------------------------------------------------------------------------
(* A success reported is one.                                                 *)

Stores == Reported("sendComplete", FALSE)
Removes == Reported("removeAllComplete", FALSE)

LEMMA FinishReports ==
    ASSUME NEW success \in BOOLEAN, NEW items, FinishTransaction(success, items)
    PROVE  /\ Stores => success = TRUE /\ transaction = "Write"
           /\ Removes => success = TRUE /\ transaction = "RemoveAll"
  <1>1. /\ <<"sendComplete", FALSE>> \notin ResumeSignals(success) \cup ErrorSignal(success)
        /\ <<"removeAllComplete", FALSE>> \notin ResumeSignals(success) \cup ErrorSignal(success)
    BY DEF ResumeSignals, ErrorSignal
  <1>2. <<"sendComplete", FALSE>> \in CompletionSignals(success) =>
            success = TRUE /\ transaction = "Write"
    <2>1. success = FALSE => (~success) = TRUE
      OBVIOUS
    <2>2. CASE transaction = "Write"
      BY <2>1, <2>2 DEF CompletionSignals
    <2>3. CASE transaction # "Write"
      BY <2>3 DEF CompletionSignals
    <2> QED  BY <2>2, <2>3
  <1>3. <<"removeAllComplete", FALSE>> \in CompletionSignals(success) =>
            success = TRUE /\ transaction = "RemoveAll"
    <2>1. success = FALSE => (~success) = TRUE
      OBVIOUS
    <2>2. CASE transaction = "RemoveAll"
      BY <2>1, <2>2 DEF CompletionSignals
    <2>3. CASE transaction # "RemoveAll"
      BY <2>3 DEF CompletionSignals
    <2> QED  BY <2>2, <2>3
  <1> QED  BY <1>1, <1>2, <1>3 DEF FinishTransaction, Stores, Removes, Reported

(* Only an accepting ack, or the end of a read, is a success.                 *)
LEMMA SuccessIsAnAck ==
    ASSUME IInv, Next, Stores \/ Removes
    PROVE  /\ HandleMissionAck /\ AckMeansSuccess(Head(toGcs).result) /\ expectedAck # "GuidedItem"
           /\ Stores => transaction = "Write"
           /\ Removes => transaction = "RemoveAll"
           /\ UNCHANGED vehicleVars
  <1>1. signals' # {} /\ signals' # {<<"homePosition", FALSE>>}
    <2> DEFINE send == <<"sendComplete", FALSE>>
               remove == <<"removeAllComplete", FALSE>>
               home == <<"homePosition", FALSE>>
    <2>1. send # home /\ remove # home
      OBVIOUS
    <2>2. send \in signals' \/ remove \in signals'
      BY DEF Stores, Removes, Reported
    <2> HIDE DEF send, remove, home
    <2>3. signals' # {} /\ signals' # {home}
      BY <2>1, <2>2
    <2> QED  BY <2>3 DEF home
  <1>2. ASSUME NEW ack, GiveUp(ack) PROVE FALSE
    <2>1. FinishTransaction(FALSE, missionItems)
      BY <1>2 DEF GiveUp
    <2> QED  BY <2>1, FinishReports
  <1>3. ASSUME NEW items, ReadTransactionComplete(items), transaction = "Read" PROVE FALSE
    <2>1. FinishTransaction(TRUE, items)
      BY <1>3 DEF ReadTransactionComplete
    <2> QED  BY <1>3, <2>1, FinishReports
  <1>4. HandleMissionCount \/ HandleMissionItem => transaction = "Read"
    BY DEF IInv, WaitsForAnAnswer, HandleMissionCount, HandleMissionItem, Arrives, inProgress,
           TypeOK, ManagerTypeOK, Transaction
  <1>5. ~HandleMissionCount /\ ~HandleMissionItem /\ ~HandleHomePosition /\ ~IgnoreMessage
    BY <1>1, <1>3, <1>4 DEF HandleMissionCount, HandleMissionItem, DisregardMissionItem,
           TakeMissionItem, ContinueRead, HandleHomePosition, IgnoreMessage
  <1>6. ~HandleMissionRequest
    <2>1. ASSUME NEW n, SendRequestedItem(n) PROVE FALSE
      BY <1>1, <2>1 DEF SendRequestedItem
    <2>2. ASSUME NEW n, RefuseRequestedItem(n) PROVE FALSE
      <3>1. FinishTransaction(FALSE, missionItems)
        BY <2>2 DEF RefuseRequestedItem
      <3> QED  BY <3>1, FinishReports
    <2> QED  BY <2>1, <2>2 DEF HandleMissionRequest
  <1>7. ~AckTimeout
    BY <1>1, <1>2 DEF AckTimeout, MissionCountTimeout, MissionItemTimeout, MissionRequestTimeout,
           ClearAllTimeout, GuidedItemTimeout, Retry
  <1>8. ~StartTransaction /\ ~VehicleStep /\ ~LinkStep
    BY <1>1 DEF StartTransaction, LoadFromVehicle, WriteMissionItems, GenerateResumeMission, RemoveAll,
           WriteGuidedItem, StartWrite, VehicleStep, LinkStep, ManagerRests
  <1>9. HandleMissionAck /\ UNCHANGED vehicleVars
    BY <1>5, <1>6, <1>7, <1>8 DEF Next, ManagerStep, ReceiveFromVehicle
  <1>10. ASSUME NEW success \in BOOLEAN, FinishGuidedItem(success) PROVE FALSE
    BY <1>10 DEF FinishGuidedItem, ResumeSignals, ErrorSignal, Stores, Removes, Reported
  <1> DEFINE success == AckMeansSuccess(Head(toGcs).result)
  <1>11. success \in BOOLEAN
    BY DEF AckMeansSuccess
  <1>12. expectedAck # "GuidedItem" /\ FinishTransaction(success, missionItems)
    BY <1>9, <1>10, <1>11 DEF HandleMissionAck
  <1> HIDE DEF success
  <1>13. success = TRUE /\ (Stores => transaction = "Write") /\ (Removes => transaction = "RemoveAll")
    BY <1>11, <1>12, FinishReports
  <1> QED  BY <1>9, <1>12, <1>13 DEF success

LEMMA SuccessfulAck ==
    ASSUME IInv, WriteInv, HandleMissionAck, expectedAck # "GuidedItem"
    PROVE  \/ Writing /\ Stored(Len(writeMissionItems))
           \/ transaction = "RemoveAll" /\ DOMAIN vehicleItems = {}
  <1>1. /\ TypeOK /\ toGcs # <<>> /\ toGcs' = Tail(toGcs) /\ Answers(Head(toGcs))
        /\ Head(toGcs).type = "ACK"
    BY DEF IInv, HandleMissionAck, Arrives, Answers, ForThisPlan
  <1>2. AnswerFits(Head(toGcs))
    BY <1>1, AnswerTaken
  <1> QED  BY <1>1, <1>2 DEF AnswerFits, Guiding

LEMMA StoredCount ==
    ASSUME NEW n \in Nat, Stored(n)
    PROVE  itemCount = n
  <1>1. Cardinality(0 .. (n - 1)) = n
    BY FS_Interval
  <1> QED  BY <1>1 DEF Stored, itemCount

(* sendComplete without an error is emitted only when the vehicle holds the   *)
(* whole write list and nothing else, removeAllComplete only when it holds    *)
(* nothing.                                                                   *)
THEOREM SuccessIsStored ==
    ASSUME WriteConditions
    PROVE  Spec => SuccessMeansStored
  <1>1. ASSUME IInv, WriteInv, Next
        PROVE  /\ Reported("sendComplete", FALSE) =>
                    /\ itemCount = Len(writeMissionItems)
                    /\ \A k \in 1 .. itemCount :
                          vehicleItems[k - 1] = writeMissionItems[k].item
               /\ Reported("removeAllComplete", FALSE) => itemCount = 0
    <2>1. Len(writeMissionItems) \in Nat
      BY <1>1 DEF IInv, TypeOK, ManagerTypeOK
    <2>2. ASSUME Stores
          PROVE  /\ itemCount = Len(writeMissionItems)
                 /\ \A k \in 1 .. itemCount : vehicleItems[k - 1] = writeMissionItems[k].item
      <3>1. Stored(Len(writeMissionItems))
        BY <1>1, <2>2, SuccessIsAnAck, SuccessfulAck
      <3>2. itemCount = Len(writeMissionItems)
        BY <2>1, <3>1, StoredCount
      <3> QED  BY <3>1, <3>2 DEF Stored
    <2>3. ASSUME Removes
          PROVE  itemCount = 0
      <3>1. DOMAIN vehicleItems = {}
        BY <1>1, <2>3, SuccessIsAnAck, SuccessfulAck DEF Writing
      <3> QED  BY <3>1, FS_EmptySet DEF itemCount
    <2> QED  BY <2>2, <2>3 DEF Stores, Removes
  <1>2. [][IInv /\ WriteInv /\ Next]_vars => SuccessMeansStored
    <2>1. [IInv /\ WriteInv /\ Next]_vars =>
            [ /\ Reported("sendComplete", FALSE) =>
                    /\ itemCount = Len(writeMissionItems)
                    /\ \A k \in 1 .. itemCount :
                          vehicleItems[k - 1] = writeMissionItems[k].item
              /\ Reported("removeAllComplete", FALSE) => itemCount = 0 ]_vars
      BY <1>1
    <2> QED  BY <2>1, PTL DEF SuccessMeansStored
  <1>3. Spec => [][IInv /\ WriteInv /\ Next]_vars
    BY Invariant, WriteInvariant, PTL DEF Spec
  <1> QED  BY <1>2, <1>3, PTL

-----------------------------------------------------------------------------
(* Reads.  The vehicle's items have the numbers 0 .. n-1 at all times, the    *)
(* count on its way to the ground station is that n, and items come in order. *)

Listing == transaction = "Read" /\ expectedAck = "MissionCount"
Reading == transaction = "Read" /\ expectedAck = "MissionItem"

IsCount(m) == m.own /\ m.type = "COUNT"
IsItem(m) == m.own /\ m.type = "ITEM"

NothingListed(q) == \A i \in 1 .. Len(q) : q[i].type # "REQUEST_LIST"
NothingCounted(q) == \A i \in 1 .. Len(q) : ~IsCount(q[i])

HoldsItems(n) == DOMAIN vehicleItems = 0 .. (n - 1)

RequestFits(m) ==
    /\ m.seq \in DOMAIN vehicleItems
    /\ Reading => m.seq <= Len(missionItems)

(* An item left over from a read is forgotten before the vehicle's items are  *)
(* read again, so that it counts only between transactions and in a read.     *)
ItemFits(m) ==
    /\ transaction \in {"None", "Read"} =>
          m.seq \in DOMAIN vehicleItems /\ m.item = vehicleItems[m.seq]
    /\ Reading => m.seq <= Len(missionItems)

RequestInv ==
    \A i \in 1 .. Len(toVehicle) :
        toVehicle[i].type = "REQUEST" => RequestFits(toVehicle[i])
ListingInv ==
    \A i \in 1 .. Len(toVehicle) : toVehicle[i].type = "REQUEST_LIST" =>
        Listing /\ i = Len(toVehicle) /\ NothingCounted(toGcs)
CountInv ==
    \A i \in 1 .. Len(toGcs) : IsCount(toGcs[i]) =>
        /\ Listing /\ toVehicle = <<>>
        /\ HoldsItems(toGcs[i].count)
        /\ \A j \in (i + 1) .. Len(toGcs) : ~toGcs[j].own
ItemInv ==
    \A i \in 1 .. Len(toGcs) : IsItem(toGcs[i]) => ItemFits(toGcs[i])

(* The list is the beginning of the vehicle's, and the rest is still open.    *)
BeginsThePlan(list) ==
    \A k \in 1 .. Len(list) :
        list[k] = [seq |-> k - 1, item |-> FromVehicle(vehicleItems[k - 1])]
ReadUpTo(n) ==
    /\ HoldsItems(n) /\ Len(missionItems) < n
    /\ indicesToRead = Len(missionItems) .. (n - 1)
    /\ BeginsThePlan(missionItems)
ReadSoFar ==
    /\ \E n \in Nat : HoldsItems(n)
    /\ Listing => missionItems = <<>>
    /\ Reading => \E n \in Nat : ReadUpTo(n)

ReadInv == RequestInv /\ ListingInv /\ CountInv /\ ItemInv /\ ReadSoFar

(* What the link repeats, and which timers fire early, where a read brings    *)
(* the plan: the conditions of the runs that check it.                        *)
EarlyItemsOnly == LateAcks \subseteq {"MissionItem"}
OnlyItemsRepeated == Noises \subseteq {"ITEM", "foreign"}
ReadConditions == PlainVehicle /\ EarlyItemsOnly /\ OnlyItemsRepeated

LEMMA ReadConditionsSuffice == ReadConditions => WriteConditions
  BY DEF ReadConditions, WriteConditions, EarlyItemsOnly, OnlyItemsRepeated, SlowWriteTimers,
         OnlyReadsRepeated

-----------------------------------------------------------------------------
(* No new request of a read, and no new item.                                 *)

KeptRequests(q, t) ==
    \A i \in 1 .. Len(t) : t[i].type = "REQUEST" => \E k \in 1 .. Len(q) : q[k] = t[i]
KeptItems(q, t) ==
    \A i \in 1 .. Len(t) : IsItem(t[i]) => \E k \in 1 .. Len(q) : q[k] = t[i]

LEMMA KeptRequestsFit ==
    ASSUME TypeOK, TypeOK', RequestInv, KeptRequests(toVehicle, toVehicle'),
           DOMAIN vehicleItems' = DOMAIN vehicleItems,
           Reading' => Reading /\ Len(missionItems) <= Len(missionItems')
    PROVE  RequestInv'
  <1> SUFFICES ASSUME NEW i \in 1 .. Len(toVehicle'), toVehicle'[i].type = "REQUEST"
               PROVE  /\ toVehicle'[i].seq \in DOMAIN vehicleItems'
                      /\ Reading' => toVehicle'[i].seq <= Len(missionItems')
    BY DEF RequestInv, RequestFits
  <1>1. PICK k \in 1 .. Len(toVehicle) : toVehicle[k] = toVehicle'[i]
    BY DEF KeptRequests
  <1>2. RequestFits(toVehicle[k])
    BY <1>1 DEF RequestInv
  <1>3. DOMAIN vehicleItems \in SUBSET Nat /\ Len(missionItems) \in Nat /\ Len(missionItems') \in Nat
    BY DEF TypeOK, HandlerTypeOK, ManagerTypeOK
  <1> QED  BY <1>1, <1>2, <1>3 DEF RequestFits

LEMMA KeptItemsFit ==
    ASSUME TypeOK, TypeOK', ItemInv, KeptItems(toGcs, toGcs'), vehicleItems' = vehicleItems,
           transaction' \in {"None", "Read"} => transaction \in {"None", "Read"},
           Reading' => Reading /\ Len(missionItems) <= Len(missionItems')
    PROVE  ItemInv'
  <1> SUFFICES ASSUME NEW i \in 1 .. Len(toGcs'), IsItem(toGcs'[i])
               PROVE  /\ transaction' \in {"None", "Read"} =>
                            /\ toGcs'[i].seq \in DOMAIN vehicleItems
                            /\ toGcs'[i].item = vehicleItems[toGcs'[i].seq]
                      /\ Reading' => toGcs'[i].seq <= Len(missionItems')
    BY DEF ItemInv, ItemFits, IsItem
  <1>1. PICK k \in 1 .. Len(toGcs) : toGcs[k] = toGcs'[i]
    BY DEF KeptItems
  <1>2. ItemFits(toGcs[k])
    BY <1>1 DEF ItemInv
  <1>3. DOMAIN vehicleItems \in SUBSET Nat /\ Len(missionItems) \in Nat /\ Len(missionItems') \in Nat
    BY DEF TypeOK, HandlerTypeOK, ManagerTypeOK
  <1> QED  BY <1>1, <1>2, <1>3 DEF ItemFits, Reading

LEMMA FrontKeepsRequests ==
    ASSUME TypeOK, toVehicle # <<>>, toVehicle' = Tail(toVehicle)
    PROVE  /\ KeptRequests(toVehicle, toVehicle')
           /\ NothingListed(toVehicle) => NothingListed(toVehicle')
  <1> DEFINE t == toVehicle'
  <1>1. toVehicle \in Seq(ToVehicleMessage) /\ toVehicle # <<>> /\ t = Tail(toVehicle)
    BY DEF TypeOK, LinkTypeOK
  <1> HIDE DEF t
  <1>2. FrontTaken(ToVehicleMessage, toVehicle, t)
    BY <1>1, TailMembers
  <1>3. KeptRequests(toVehicle, t) /\ (NothingListed(toVehicle) => NothingListed(t))
    BY <1>2 DEF FrontTaken, KeptRequests, NothingListed
  <1> QED  BY <1>3 DEF t

LEMMA SentKeepsRequests ==
    ASSUME TypeOK, NEW m \in ToVehicleMessage, toVehicle' = Sent(toVehicle, m)
    PROVE  /\ m.type # "REQUEST" => KeptRequests(toVehicle, toVehicle')
           /\ m.type # "REQUEST_LIST" /\ NothingListed(toVehicle) => NothingListed(toVehicle')
  <1> DEFINE t == toVehicle'
  <1>1. toVehicle \in Seq(ToVehicleMessage) /\ t = Sent(toVehicle, m)
    BY DEF TypeOK, LinkTypeOK
  <1> HIDE DEF t
  <1>2. SentLast(ToVehicleMessage, toVehicle, m, t)
    BY <1>1, SentMembers
  <1>3. /\ m.type # "REQUEST" => KeptRequests(toVehicle, t)
        /\ m.type # "REQUEST_LIST" /\ NothingListed(toVehicle) => NothingListed(t)
    BY <1>2 DEF SentLast, KeptRequests, NothingListed
  <1> QED  BY <1>3 DEF t

LEMMA OldKeepsItems ==
    ASSUME OldOf({"ITEM"}, toGcs, toGcs')
    PROVE  KeptItems(toGcs, toGcs')
  BY DEF OldOf, KeptItems, IsItem

LEMMA SentKeepsItems ==
    ASSUME TypeOK, NEW m \in ToGcsMessage, toGcs' = Sent(toGcs, m)
    PROVE  /\ m.type # "ITEM" => KeptItems(toGcs, toGcs')
           /\ m.type # "COUNT" /\ NothingCounted(toGcs) => NothingCounted(toGcs')
  <1> DEFINE t == toGcs'
  <1>1. toGcs \in Seq(ToGcsMessage) /\ t = Sent(toGcs, m)
    BY DEF TypeOK, LinkTypeOK
  <1> HIDE DEF t
  <1>2. SentLast(ToGcsMessage, toGcs, m, t)
    BY <1>1, SentMembers
  <1>3. /\ m.type # "ITEM" => KeptItems(toGcs, t)
        /\ m.type # "COUNT" /\ NothingCounted(toGcs) => NothingCounted(t)
    BY <1>2 DEF SentLast, KeptItems, NothingCounted, IsCount, IsItem
  <1> QED  BY <1>3 DEF t

(* Outside the wait for a count nothing of one is in the air.                 *)
LEMMA NothingOfAList ==
    ASSUME ReadInv, ~Listing
    PROVE  NothingListed(toVehicle) /\ NothingCounted(toGcs)
  BY DEF ReadInv, ListingInv, CountInv, NothingListed, NothingCounted

LEMMA NoListToKeep ==
    ASSUME NothingListed(toVehicle'), NothingCounted(toGcs')
    PROVE  ListingInv' /\ CountInv'
  BY DEF ListingInv, CountInv, NothingListed, NothingCounted

(* What the facts about a read speak of, besides the link.                    *)
readVars == <<transaction, expectedAck, missionItems, indicesToRead, vehicleItems>>

LEMMA RestKeepsReadSoFar ==
    ASSUME ReadSoFar, UNCHANGED readVars
    PROVE  ReadSoFar'
  <1>1. ASSUME NEW n \in Nat
        PROVE  (HoldsItems(n) => HoldsItems(n)') /\ (ReadUpTo(n) => ReadUpTo(n)')
    BY DEF readVars, HoldsItems, ReadUpTo, BeginsThePlan
  <1>2. Listing' = Listing /\ Reading' = Reading /\ missionItems' = missionItems
    BY DEF readVars, Listing, Reading
  <1> QED  BY <1>1, <1>2 DEF ReadSoFar

(* Messages arrive that change nothing, or are lost, repeated or foreign.     *)
LEMMA OldKeepsRead ==
    ASSUME TypeOK, TypeOK', ReadInv, UNCHANGED readVars, UNCHANGED toVehicle,
           OldOf({"COUNT"}, toGcs, toGcs'), KeptItems(toGcs, toGcs')
    PROVE  ReadInv'
  <1>1. Len(missionItems) <= Len(missionItems') /\ Reading' = Reading /\ Listing' = Listing
    BY DEF TypeOK, ManagerTypeOK, readVars, Reading, Listing
  <1>2. RequestInv'
    BY DEF ReadInv, RequestInv, RequestFits, readVars, Reading
  <1>3. ItemInv'
    BY <1>1, KeptItemsFit DEF ReadInv, readVars
  <1>4. ListingInv'
    <2> SUFFICES ASSUME NEW i \in 1 .. Len(toVehicle), toVehicle[i].type = "REQUEST_LIST"
                 PROVE  Listing /\ i = Len(toVehicle) /\ NothingCounted(toGcs')
      BY <1>1 DEF ListingInv
    <2>1. Listing /\ i = Len(toVehicle) /\ NothingCounted(toGcs)
      BY DEF ReadInv, ListingInv
    <2>2. NothingCounted(toGcs')
      BY <2>1 DEF NothingCounted, OldOf, IsCount
    <2> QED  BY <2>1, <2>2
  <1>5. CountInv'
    <2> SUFFICES ASSUME NEW i \in 1 .. Len(toGcs'), IsCount(toGcs'[i])
                 PROVE  /\ Listing /\ toVehicle = <<>>
                        /\ DOMAIN vehicleItems = 0 .. (toGcs'[i].count - 1)
                        /\ \A j \in (i + 1) .. Len(toGcs') : ~toGcs'[j].own
      BY <1>1 DEF CountInv, IsCount, HoldsItems, readVars
    <2>1. PICK k \in 1 .. Len(toGcs) :
            /\ toGcs[k] = toGcs'[i]
            /\ \A j \in (i + 1) .. Len(toGcs') :
                  toGcs'[j].own => \E l \in (k + 1) .. Len(toGcs) : toGcs[l] = toGcs'[j]
      BY DEF OldOf, IsCount
    <2>2. /\ Listing /\ toVehicle = <<>> /\ HoldsItems(toGcs[k].count)
          /\ \A l \in (k + 1) .. Len(toGcs) : ~toGcs[l].own
      BY <2>1 DEF ReadInv, CountInv
    <2> QED  BY <2>1, <2>2 DEF HoldsItems
  <1>6. ReadSoFar'
    BY RestKeepsReadSoFar DEF ReadInv
  <1> QED  BY <1>2, <1>3, <1>4, <1>5, <1>6 DEF ReadInv

(* The vehicle takes, or the link loses, what was sent to it.                 *)
LEMMA FrontKeepsLists ==
    ASSUME TypeOK, TypeOK', ReadInv, UNCHANGED readVars, toVehicle # <<>>, toVehicle' = Tail(toVehicle),
           NothingCounted(toGcs) => NothingCounted(toGcs')
    PROVE  RequestInv' /\ ListingInv' /\ CountInv' /\ ReadSoFar'
  <1> DEFINE q == toVehicle
             t == toVehicle'
  <1>1. q \in Seq(ToVehicleMessage) /\ q # <<>> /\ t = Tail(q)
    BY DEF TypeOK, LinkTypeOK
  <1>2. Len(missionItems) <= Len(missionItems') /\ Reading' = Reading /\ Listing' = Listing
    BY DEF TypeOK, ManagerTypeOK, readVars, Reading, Listing
  <1>3. RequestInv'
    BY <1>2, FrontKeepsRequests, KeptRequestsFit DEF ReadInv, readVars
  <1>4. NothingCounted(toGcs)
    BY DEF ReadInv, CountInv, NothingCounted
  <1> HIDE DEF t
  <1>5. FrontTaken(ToVehicleMessage, q, t)
    BY <1>1, TailMembers
  <1>6. ListingInv'
    <2> SUFFICES ASSUME NEW i \in 1 .. Len(t), t[i].type = "REQUEST_LIST"
                 PROVE  Listing /\ i = Len(t)
      BY <1>2, <1>4 DEF ListingInv, t
    <2>1. /\ i + 1 \in 1 .. Len(q) /\ t[i] = q[i + 1] /\ Len(t) = Len(q) - 1
          /\ Len(q) \in Nat
      BY <1>5 DEF FrontTaken
    <2>2. Listing /\ i + 1 = Len(q)
      BY <2>1 DEF ReadInv, ListingInv
    <2> QED  BY <2>1, <2>2
  <1>7. CountInv'
    BY <1>4 DEF CountInv, NothingCounted
  <1>8. ReadSoFar'
    BY RestKeepsReadSoFar DEF ReadInv
  <1> QED  BY <1>3, <1>6, <1>7, <1>8

LEMMA FrontKeepsRead ==
    ASSUME TypeOK, TypeOK', ReadInv, UNCHANGED readVars, toVehicle # <<>>, toVehicle' = Tail(toVehicle),
           toGcs' = toGcs
    PROVE  ReadInv'
  <1>1. RequestInv' /\ ListingInv' /\ CountInv' /\ ReadSoFar'
    BY FrontKeepsLists
  <1>2. ItemInv'
    BY DEF ReadInv, ItemInv, ItemFits, readVars, Reading
  <1> QED  BY <1>1, <1>2 DEF ReadInv

LEMMA LinkKeepsRead ==
    ASSUME TypeOK, TypeOK', OnlyItemsRepeated, ReadInv, LinkStep
    PROVE  ReadInv'
  <1>1. UNCHANGED readVars
    BY DEF LinkStep, ManagerRests, readVars, vehicleVars
  <1>2. CASE LoseToVehicle
    BY <1>1, <1>2, FrontKeepsRead DEF LoseToVehicle
  <1>3. CASE LoseToGcs
    <2>1. toGcs # <<>> /\ toGcs' = Tail(toGcs) /\ UNCHANGED toVehicle
      BY <1>3 DEF LoseToGcs
    <2> QED  BY <1>1, <2>1, FrontLeavesOld, OldKeepsItems, OldKeepsRead
  <1>4. CASE RepeatToGcs
    <2>1. OldOf({"COUNT"}, toGcs, toGcs')
      BY <1>4, RepetitionIsOld DEF OnlyItemsRepeated
    <2>2. KeptItems(toGcs, toGcs')
      <3> DEFINE t == toGcs'
      <3>1. toGcs \in Seq(ToGcsMessage) /\ toGcs # <<>> /\ t = <<Head(toGcs)>> \o toGcs
        BY <1>4 DEF RepeatToGcs, TypeOK, LinkTypeOK
      <3> HIDE DEF t
      <3>2. FrontRepeated(ToGcsMessage, toGcs, t)
        BY <3>1, RepeatMembers
      <3>3. KeptItems(toGcs, t)
        <4> SUFFICES ASSUME NEW i \in 1 .. Len(t)
                     PROVE  \E k \in 1 .. Len(toGcs) : toGcs[k] = t[i]
          BY DEF KeptItems
        <4>1. i = 1 \/ i \in 2 .. Len(t)
          BY <3>2 DEF FrontRepeated
        <4> QED  BY <3>2, <4>1 DEF FrontRepeated
      <3> QED  BY <3>3 DEF t
    <2> QED  BY <1>1, <1>4, <2>1, <2>2, OldKeepsRead DEF RepeatToGcs
  <1>5. CASE ForeignToGcs
    <2>1. UNCHANGED toVehicle
      BY <1>5 DEF ForeignToGcs
    <2> QED  BY <1>1, <1>5, <2>1, ForeignIsNotOwn, OldKeepsItems, OldKeepsRead
  <1> QED  BY <1>2, <1>3, <1>4, <1>5 DEF LinkStep

-----------------------------------------------------------------------------
(* The vehicle in a read.                                                     *)

LEMMA VehicleRests ==
    ASSUME ManagerRests, UNCHANGED vehicleItems
    PROVE  UNCHANGED readVars
  BY DEF ManagerRests, readVars

(* The vehicle has n items when they have the numbers 0 .. n-1.               *)
LEMMA HeldCount ==
    ASSUME NEW n \in Nat, HoldsItems(n)
    PROVE  itemCount = n
  <1>1. Cardinality(0 .. (n - 1)) = n
    BY FS_Interval
  <1> QED  BY <1>1 DEF HoldsItems, itemCount

LEMMA ListKeepsRead ==
    ASSUME TypeOK, TypeOK', WriteInv, ReadInv, ManagerRests, HandleMissionRequestList
    PROVE  ReadInv'
  <1> DEFINE q == toVehicle
             t == toGcs'
  <1>1. /\ q # <<>> /\ toVehicle' = Tail(q) /\ Head(q).type = "REQUEST_LIST"
        /\ vehicleItems' = vehicleItems
        /\ t = Sent(toGcs, CountReply(itemCount))
    BY DEF HandleMissionRequestList, Takes, WriteInv, Respond
  <1>2. UNCHANGED readVars
    BY <1>1, VehicleRests
  <1>3. q \in Seq(ToVehicleMessage) /\ toGcs \in Seq(ToGcsMessage)
    BY DEF TypeOK, LinkTypeOK
  <1>4. Listing /\ 1 = Len(q) /\ NothingCounted(toGcs)
    <2>1. 1 \in 1 .. Len(q) /\ q[1].type = "REQUEST_LIST"
      BY <1>1, <1>3
    <2> QED  BY <2>1 DEF ReadInv, ListingInv
  <1>5. toVehicle' = <<>>
    BY <1>1, <1>3, <1>4
  <1>6. PICK n \in Nat : HoldsItems(n)
    BY DEF ReadInv, ReadSoFar
  <1>7. PICK m : m = CountReply(itemCount)
    OBVIOUS
  <1>8. m \in ToGcsMessage /\ m.type = "COUNT" /\ m.count = n
    BY <1>6, <1>7, HeldCount DEF CountReply, ToGcsMessage
  <1>9. KeptItems(toGcs, toGcs')
    BY <1>1, <1>7, <1>8, SentKeepsItems
  <1>10. /\ Len(missionItems) <= Len(missionItems') /\ Reading' = Reading /\ Listing' = Listing
         /\ transaction' = transaction
    BY <1>2 DEF TypeOK, ManagerTypeOK, readVars, Reading, Listing
  <1>11. ItemInv'
    BY <1>1, <1>9, <1>10, KeptItemsFit DEF ReadInv
  <1>12. CountInv'
    <2> HIDE DEF t
    <2>1. SentLast(ToGcsMessage, toGcs, m, t)
      BY <1>1, <1>3, <1>7, <1>8, SentMembers
    <2>2. \A i \in 1 .. Len(t) : IsCount(t[i]) => i = Len(t) /\ t[i] = m
      BY <1>4, <2>1 DEF SentLast, NothingCounted
    <2>3. t \in Seq(ToGcsMessage)
      BY <2>1 DEF SentLast
    <2> SUFFICES ASSUME NEW i \in 1 .. Len(t), IsCount(t[i])
                 PROVE  /\ DOMAIN vehicleItems = 0 .. (t[i].count - 1)
                        /\ \A j \in (i + 1) .. Len(t) : ~t[j].own
      BY <1>1, <1>4, <1>5, <1>10 DEF CountInv, HoldsItems, IsCount, t
    <2>4. i = Len(t) /\ t[i].count = n
      BY <1>8, <2>2
    <2> QED  BY <1>6, <2>3, <2>4 DEF HoldsItems
  <1>13. RequestInv' /\ ListingInv'
    BY <1>5 DEF RequestInv, ListingInv
  <1>14. ReadSoFar'
    BY <1>2, RestKeepsReadSoFar DEF ReadInv
  <1> QED  BY <1>11, <1>12, <1>13, <1>14 DEF ReadInv

(* The vehicle has what a read asks for, and sends it.                        *)
LEMMA RequestedIsHeld ==
    ASSUME TypeOK, WriteInv, ReadInv, HandleMissionRequestRead
    PROVE  /\ Head(toVehicle).seq \in Nat /\ RequestFits(Head(toVehicle))
           /\ vehicleItems' = vehicleItems
           /\ toGcs' = Sent(toGcs, ItemReply(Head(toVehicle).seq, vehicleItems[Head(toVehicle).seq]))
  <1>1. toVehicle \in Seq(ToVehicleMessage) /\ toVehicle # <<>> /\ Head(toVehicle).type = "REQUEST"
    BY DEF TypeOK, LinkTypeOK, HandleMissionRequestRead, Takes
  <1>2. Head(toVehicle) = toVehicle[1] /\ 1 \in 1 .. Len(toVehicle)
    BY <1>1
  <1>3. RequestFits(Head(toVehicle))
    BY <1>1, <1>2 DEF ReadInv, RequestInv
  <1>4. PICK s \in Nat : s = Head(toVehicle).seq
    BY HeadRequest
  <1>5. s \in DOMAIN vehicleItems
    BY <1>3, <1>4 DEF RequestFits
  <1>6. AnswerRequest(s)
    BY <1>4 DEF HandleMissionRequestRead, RequestUnanswered, FailsAt, WriteInv
  <1>7. vehicleItems' = vehicleItems
    BY <1>5, <1>6 DEF AnswerRequest
  <1>8. toGcs' = Sent(toGcs, ItemReply(s, vehicleItems[s]))
    BY <1>6, <1>7 DEF AnswerRequest, Respond
  <1> QED  BY <1>3, <1>4, <1>7, <1>8

LEMMA RequestedKeepsRead ==
    ASSUME TypeOK, TypeOK', WriteInv, ReadInv, ManagerRests, HandleMissionRequestRead
    PROVE  ReadInv'
  <1> DEFINE t == toGcs'
  <1>1. PICK s \in Nat : s = Head(toVehicle).seq
    BY RequestedIsHeld
  <1>2. PICK m : m = ItemReply(s, vehicleItems[s])
    OBVIOUS
  <1>3. /\ toVehicle # <<>> /\ toVehicle' = Tail(toVehicle)
        /\ vehicleItems' = vehicleItems /\ t = Sent(toGcs, m)
        /\ s \in DOMAIN vehicleItems /\ (Reading => s <= Len(missionItems))
    BY <1>1, <1>2, RequestedIsHeld DEF HandleMissionRequestRead, Takes, RequestFits
  <1>4. m \in ToGcsMessage /\ m.type = "ITEM" /\ m.seq = s /\ m.item = vehicleItems[s]
    BY <1>2, <1>3 DEF ItemReply, ToGcsMessage, TypeOK, HandlerTypeOK
  <1>5. UNCHANGED readVars
    BY <1>3, VehicleRests
  <1>6. RequestInv' /\ ListingInv' /\ CountInv' /\ ReadSoFar'
    BY <1>3, <1>4, <1>5, SentKeepsItems, FrontKeepsLists
  <1>7. ItemInv'
    <2> HIDE DEF t
    <2>1. toGcs \in Seq(ToGcsMessage)
      BY DEF TypeOK, LinkTypeOK
    <2>2. SentLast(ToGcsMessage, toGcs, m, t)
      BY <1>3, <1>4, <2>1, SentMembers
    <2>3. \A i \in 1 .. Len(t) : (i \in 1 .. Len(toGcs) /\ t[i] = toGcs[i]) \/ t[i] = m
      BY <2>2 DEF SentLast
    <2>4. ItemFits(m)
      BY <1>3, <1>4 DEF ItemFits
    <2>5. \A i \in 1 .. Len(t) : IsItem(t[i]) => ItemFits(t[i])
      BY <2>3, <2>4 DEF ReadInv, ItemInv
    <2> QED  BY <1>5, <2>5 DEF ItemInv, ItemFits, readVars, Reading, IsItem, t
  <1> QED  BY <1>6, <1>7 DEF ReadInv

-----------------------------------------------------------------------------
(* The vehicle in a write or removal.                                         *)

(* What a step outside a read has to leave in the air.                        *)
LEMMA NotReading ==
    ASSUME TypeOK, TypeOK', KeptRequests(toVehicle, toVehicle'),
           DOMAIN vehicleItems' = DOMAIN vehicleItems \/ toVehicle' = <<>>,
           RequestInv, NothingListed(toVehicle'), NothingCounted(toGcs'),
           transaction' \in {"Write", "RemoveAll"},
           \E n \in Nat : HoldsItems(n)'
    PROVE  ReadInv'
  <1>1. ~Reading' /\ ~Listing' /\ transaction' \notin {"None", "Read"}
    BY DEF Reading, Listing
  <1>2. RequestInv'
    <2>1. CASE toVehicle' = <<>>
      BY <2>1 DEF RequestInv
    <2>2. CASE DOMAIN vehicleItems' = DOMAIN vehicleItems
      BY <1>1, <2>2, KeptRequestsFit
    <2> QED  BY <2>1, <2>2
  <1>3. ItemInv'
    BY <1>1 DEF ItemInv, ItemFits
  <1>4. ReadSoFar'
    BY <1>1 DEF ReadSoFar
  <1> QED  BY <1>2, <1>3, <1>4, NoListToKeep DEF ReadInv

(* What the vehicle holds after each of its steps.                            *)
LEMMA VehicleHolds ==
    ASSUME TypeOK, WriteInv, ReadInv,
           \/ HandleMissionCountWrite \/ HandleMissionItemWrite
           \/ HandleMissionClearAll \/ HandleGuidedItem
    PROVE  \E n \in Nat : HoldsItems(n)'
  <1>1. CASE vehicleItems' = noItems
    <2>1. HoldsItems(0)'
      BY <1>1 DEF noItems, HoldsItems
    <2> QED  BY <2>1
  <1>2. CASE HandleMissionItemWrite
    <2>1. /\ toVehicle # <<>> /\ toVehicle' = Tail(toVehicle) /\ Asks(Head(toVehicle))
          /\ Head(toVehicle).type = "ITEM"
      BY <1>2 DEF HandleMissionItemWrite, Takes, Asks
    <2>2. AskFits(Head(toVehicle)) /\ Head(toVehicle) \in ToVehicleMessage
      BY <2>1, AskTaken
    <2>3. PICK n \in Nat : n = Head(toVehicle).seq
      BY <2>1, <2>2, ToVehicleFields
    <2>4. DOMAIN vehicleItems = 0 .. (n - 1)
      BY <2>1, <2>2, <2>3 DEF AskFits, Awaits, Stored
    <2>5. DOMAIN vehicleItems' = DOMAIN vehicleItems \cup {n}
      BY <1>2, <2>3 DEF HandleMissionItemWrite, WithItem
    <2>6. HoldsItems(n + 1)'
      BY <2>4, <2>5 DEF HoldsItems
    <2> QED  BY <2>6
  <1>3. CASE HandleGuidedItem
    BY <1>3 DEF HandleGuidedItem, ReadInv, ReadSoFar, HoldsItems
  <1> QED  BY <1>1, <1>2, <1>3 DEF HandleMissionCountWrite, HandleMissionClearAll

LEMMA WriteAnswerSent ==
    ASSUME TypeOK, WriteInv, NothingCounted(toGcs),
           \/ HandleMissionCountWrite \/ HandleMissionItemWrite
           \/ HandleMissionClearAll \/ HandleGuidedItem
    PROVE  NothingCounted(toGcs')
  <1>1. ASSUME NEW m \in ToGcsMessage, m.type \in {"REQUEST", "ACK"}, Respond(m)
        PROVE  NothingCounted(toGcs')
    BY <1>1, SentKeepsItems DEF Respond
  <1>2. ASSUME NEW n \in Nat, Respond(RequestReply(n))
        PROVE  NothingCounted(toGcs')
    <2>1. PICK m : m = RequestReply(n)
      OBVIOUS
    <2> QED  BY <1>1, <1>2, <2>1, AnswerTypes
  <1>3. ASSUME NEW r \in AckResult, Respond(AckReply(r))
        PROVE  NothingCounted(toGcs')
    <2>1. PICK m : m = AckReply(r)
      OBVIOUS
    <2> QED  BY <1>1, <1>3, <2>1, AnswerTypes
  <1>4. "ACCEPTED" \in AckResult
    BY DEF AckResult
  <1>5. ASSUME NEW n \in Nat, NEW count, RequestNextItem(n, count)
        PROVE  NothingCounted(toGcs')
    <2>1. NoResponse \/ Respond(RequestReply(n))
      BY <1>5 DEF RequestNextItem, FailsAt, WriteInv
    <2> QED  BY <1>2, <2>1 DEF NoResponse
  <1>6. CASE HandleMissionCountWrite
    <2>1. Respond(AckReply("ACCEPTED")) \/ NoResponse \/ \E count : RequestNextItem(0, count)
      BY <1>6 DEF HandleMissionCountWrite
    <2> QED  BY <1>3, <1>4, <1>5, <2>1 DEF NoResponse
  <1>7. CASE HandleMissionItemWrite
    <2>1. \/ Respond(AckReply("ACCEPTED")) \/ NoResponse
          \/ RequestNextItem(writeSequenceIndex + 1, writeSequenceCount)
      BY <1>7 DEF HandleMissionItemWrite, FinalAck, WriteInv
    <2>2. writeSequenceIndex + 1 \in Nat
      BY DEF TypeOK, HandlerTypeOK
    <2> QED  BY <1>3, <1>4, <1>5, <2>1, <2>2 DEF NoResponse
  <1>8. CASE HandleMissionClearAll
    BY <1>3, <1>4, <1>8 DEF HandleMissionClearAll
  <1>9. CASE HandleGuidedItem
    BY <1>3, <1>9 DEF HandleGuidedItem, NoResponse
  <1> QED  BY <1>6, <1>7, <1>8, <1>9

LEMMA WriteTakenKeepsRead ==
    ASSUME TypeOK, TypeOK', WriteInv, ReadInv, ManagerRests,
           \/ HandleMissionCountWrite \/ HandleMissionItemWrite
           \/ HandleMissionClearAll \/ HandleGuidedItem
    PROVE  ReadInv'
  <1>1. toVehicle # <<>> /\ toVehicle' = Tail(toVehicle) /\ Asks(Head(toVehicle))
    BY DEF HandleMissionCountWrite, HandleMissionItemWrite, HandleMissionClearAll, HandleGuidedItem,
           Takes, Asks
  <1>2. toVehicle' = <<>> /\ AskFits(Head(toVehicle))
    BY <1>1, AskTaken
  <1>3. transaction \in {"Write", "RemoveAll"} /\ transaction' = transaction
    BY <1>1, <1>2, VehicleMeans DEF Asks, AskFits, Writing, Guiding
  <1>4. NothingCounted(toGcs')
    BY <1>3, NothingOfAList, WriteAnswerSent DEF Listing
  <1>5. NothingListed(toVehicle') /\ KeptRequests(toVehicle, toVehicle')
    BY <1>2 DEF NothingListed, KeptRequests
  <1> QED  BY <1>2, <1>3, <1>4, <1>5, VehicleHolds, NotReading DEF ReadInv

LEMMA VehicleKeepsRead ==
    ASSUME TypeOK, TypeOK', WriteInv, ReadInv, VehicleStep
    PROVE  ReadInv'
  <1>1. CASE HandleMissionAckRead /\ ManagerRests
    <2>1. /\ toVehicle # <<>> /\ toVehicle' = Tail(toVehicle) /\ toGcs' = toGcs
          /\ vehicleItems' = vehicleItems
      BY <1>1 DEF HandleMissionAckRead, Takes, NoResponse
    <2> QED  BY <1>1, <2>1, VehicleRests, FrontKeepsRead
  <1> QED  BY <1>1, ListKeepsRead, RequestedKeepsRead, WriteTakenKeepsRead DEF VehicleStep, ReceiveFromGcs

-----------------------------------------------------------------------------
(* The ground station's steps in a read.                                      *)

NothingOwn(q) == \A i \in 1 .. Len(q) : ~q[i].own

LEMMA NothingOwnArrives ==
    ASSUME NothingOwn(toGcs')
    PROVE  NothingCounted(toGcs') /\ ItemInv'
  BY DEF NothingOwn, NothingCounted, ItemInv, IsCount, IsItem

LEMMA StillHeld ==
    ASSUME ReadInv, UNCHANGED vehicleItems
    PROVE  \E n \in Nat : HoldsItems(n)'
  BY DEF ReadInv, ReadSoFar, HoldsItems

LEMMA WriteMessages ==
    /\ [type |-> "CLEAR_ALL"] \in ToVehicleMessage
    /\ [type |-> "GUIDED_ITEM"] \in ToVehicleMessage
    /\ \A n \in Nat : [type |-> "COUNT", count |-> n] \in ToVehicleMessage
    /\ \A n \in Nat, i \in Item : [type |-> "ITEM", seq |-> n, item |-> i] \in ToVehicleMessage
  BY DEF ToVehicleMessage

(* Something else than a read is asked for.                                   *)
LEMMA WriteAskKeepsRead ==
    ASSUME TypeOK, TypeOK', ReadInv, ~Listing, UNCHANGED vehicleItems,
           transaction' \in {"Write", "RemoveAll"},
           NothingCounted(toGcs) => NothingCounted(toGcs'),
           NEW m \in ToVehicleMessage, m.type \notin {"REQUEST", "REQUEST_LIST"},
           toVehicle' = Sent(toVehicle, m)
    PROVE  ReadInv'
  <1>1. KeptRequests(toVehicle, toVehicle') /\ NothingListed(toVehicle') /\ NothingCounted(toGcs')
    BY NothingOfAList, SentKeepsRequests
  <1> QED  BY <1>1, StillHeld, NotReading DEF ReadInv

(* A transaction is over.                                                     *)
LEMMA EndKeepsRead ==
    ASSUME TypeOK, TypeOK', ReadInv, UNCHANGED vehicleItems, transaction' = "None",
           KeptRequests(toVehicle, toVehicle'), NothingListed(toVehicle'),
           NothingCounted(toGcs'), ItemInv'
    PROVE  ReadInv'
  <1>1. ~Reading' /\ ~Listing'
    BY DEF Reading, Listing
  <1>2. RequestInv'
    BY <1>1, KeptRequestsFit DEF ReadInv
  <1>3. ReadSoFar'
    BY <1>1, StillHeld DEF ReadSoFar
  <1> QED  BY <1>2, <1>3, NoListToKeep DEF ReadInv

LEMMA StartKeepsRead ==
    ASSUME TypeOK, TypeOK', ReadInv, StartTransaction, UNCHANGED vehicleVars
    PROVE  ReadInv'
  <1>1. transaction = "None" /\ toGcs' = toGcs /\ vehicleItems' = vehicleItems /\ ~Listing
    BY DEF StartTransaction, LoadFromVehicle, WriteMissionItems, GenerateResumeMission, RemoveAll,
           WriteGuidedItem, StartWrite, inProgress, vehicleVars, Listing
  <1>2. CASE LoadFromVehicle
    <2> DEFINE t == toVehicle'
    <2>1. /\ Listing' /\ ~Reading' /\ transaction' = "Read" /\ missionItems' = <<>>
          /\ toVehicle' = Sent(toVehicle, [type |-> "REQUEST_LIST"])
      BY <1>2 DEF LoadFromVehicle, StartAckTimeout, ClearMissionItems, SendRequestList, SendToVehicle,
                  Listing, Reading
    <2>2. PICK m : m = [type |-> "REQUEST_LIST"]
      OBVIOUS
    <2>3. m \in ToVehicleMessage /\ m.type = "REQUEST_LIST"
      BY <2>2, ReadMessages
    <2>4. NothingListed(toVehicle) /\ NothingCounted(toGcs)
      BY <1>1, NothingOfAList
    <2>5. RequestInv'
      BY <1>1, <2>1, <2>2, <2>3, SentKeepsRequests, KeptRequestsFit DEF ReadInv
    <2>6. KeptItems(toGcs, toGcs')
      BY <1>1 DEF KeptItems
    <2>7. ItemInv'
      BY <1>1, <2>1, <2>6, KeptItemsFit DEF ReadInv
    <2>8. CountInv'
      BY <1>1, <2>4 DEF CountInv, NothingCounted
    <2>9. ListingInv'
      <3> HIDE DEF t
      <3>1. SentLast(ToVehicleMessage, toVehicle, m, t)
        BY <2>1, <2>2, <2>3, SentMembers DEF TypeOK, LinkTypeOK, t
      <3>2. \A i \in 1 .. Len(t) : t[i].type = "REQUEST_LIST" => i = Len(t)
        BY <2>4, <3>1 DEF SentLast, NothingListed
      <3> QED  BY <1>1, <2>1, <2>4, <3>2 DEF ListingInv, t
    <2>10. ReadSoFar'
      BY <1>1, <2>1, StillHeld DEF ReadSoFar
    <2> QED  BY <2>5, <2>7, <2>8, <2>9, <2>10 DEF ReadInv
  <1>3. ASSUME NEW list, StartWrite(list)
        PROVE  ReadInv'
    <2>1. Len(list) \in Nat
      BY <1>3 DEF StartWrite, TypeOK, ManagerTypeOK
    <2>2. PICK m : m = [type |-> "COUNT", count |-> Len(list)]
      OBVIOUS
    <2>3. m \in ToVehicleMessage /\ m.type = "COUNT"
      BY <2>1, <2>2, WriteMessages
    <2>4. toVehicle' = Sent(toVehicle, m) /\ transaction' = "Write"
      BY <1>3, <2>2 DEF StartWrite, SendMissionCount, SendToVehicle
    <2> QED  BY <1>1, <2>3, <2>4, WriteAskKeepsRead
  <1>4. CASE RemoveAll
    <2>1. PICK m : m = [type |-> "CLEAR_ALL"]
      OBVIOUS
    <2>2. m \in ToVehicleMessage /\ m.type = "CLEAR_ALL"
      BY <2>1, WriteMessages
    <2>3. toVehicle' = Sent(toVehicle, m) /\ transaction' = "RemoveAll"
      BY <1>4, <2>1 DEF RemoveAll, SendClearAll, SendToVehicle
    <2> QED  BY <1>1, <2>2, <2>3, WriteAskKeepsRead
  <1>5. CASE WriteGuidedItem
    <2>1. PICK m : m = [type |-> "GUIDED_ITEM"]
      OBVIOUS
    <2>2. m \in ToVehicleMessage /\ m.type = "GUIDED_ITEM"
      BY <2>1, WriteMessages
    <2>3. toVehicle' = Sent(toVehicle, m) /\ transaction' = "Write"
      BY <1>5, <2>1 DEF WriteGuidedItem, SendToVehicle
    <2> QED  BY <1>1, <2>2, <2>3, WriteAskKeepsRead
  <1> QED  BY <1>2, <1>3, <1>4, <1>5 DEF StartTransaction, WriteMissionItems, GenerateResumeMission

(* The lowest of consecutive indices.                                         *)
LEMMA FirstIsLowest ==
    ASSUME NEW a \in Int, NEW b \in Int, a <= b
    PROVE  First(a .. b) = a
  <1> DEFINE Lowest(i) == i \in a .. b /\ \A j \in a .. b : i <= j
  <1>1. Lowest(a)
    OBVIOUS
  <1>2. \A i : Lowest(i) => i = a
    OBVIOUS
  <1>3. First(a .. b) = CHOOSE i : Lowest(i)
    BY DEF First
  <1> QED  BY <1>1, <1>2, <1>3

(* The read goes on: item s of the vehicle is asked for.                      *)
LEMMA RequestSent ==
    ASSUME TypeOK, TypeOK', RequestInv, UNCHANGED vehicleItems,
           NEW s \in DOMAIN vehicleItems, s <= Len(missionItems'),
           toVehicle' = Sent(toVehicle, [type |-> "REQUEST", seq |-> s]),
           Reading \/ toVehicle = <<>>, Len(missionItems) <= Len(missionItems')
    PROVE  RequestInv' /\ (NothingListed(toVehicle) => NothingListed(toVehicle'))
  <1> DEFINE t == toVehicle'
  <1>1. PICK m : m = [type |-> "REQUEST", seq |-> s]
    OBVIOUS
  <1>2. s \in Nat /\ toVehicle \in Seq(ToVehicleMessage) /\ Len(missionItems) \in Nat
        /\ Len(missionItems') \in Nat /\ DOMAIN vehicleItems \in SUBSET Nat
    BY DEF TypeOK, LinkTypeOK, ManagerTypeOK, HandlerTypeOK
  <1>3. m \in ToVehicleMessage /\ m.type = "REQUEST" /\ m.seq = s /\ t = Sent(toVehicle, m)
    BY <1>1, <1>2, ReadMessages
  <1> HIDE DEF t
  <1>4. SentLast(ToVehicleMessage, toVehicle, m, t)
    BY <1>2, <1>3, SentMembers
  <1>5. \A i \in 1 .. Len(t) : t[i] = m \/ (toVehicle # <<>> /\ i \in 1 .. Len(toVehicle) /\ t[i] = toVehicle[i])
    BY <1>4 DEF SentLast
  <1>6. ASSUME NEW i \in 1 .. Len(t), t[i].type = "REQUEST"
        PROVE  t[i].seq \in DOMAIN vehicleItems /\ t[i].seq <= Len(missionItems')
    <2>1. CASE t[i] = m
      BY <1>3, <2>1
    <2>2. CASE toVehicle # <<>> /\ i \in 1 .. Len(toVehicle) /\ t[i] = toVehicle[i]
      <3>1. RequestFits(toVehicle[i]) /\ Reading
        BY <1>6, <2>2 DEF RequestInv
      <3> QED  BY <1>2, <2>2, <3>1 DEF RequestFits
    <2> QED  BY <1>5, <2>1, <2>2
  <1>7. RequestInv'
    BY <1>6 DEF RequestInv, RequestFits, t
  <1>8. NothingListed(toVehicle) => NothingListed(toVehicle')
    BY <1>3, SentKeepsRequests DEF t
  <1> QED  BY <1>7, <1>8

(* The count comes alone, and finds an empty list.                            *)
LEMMA CountTaken ==
    ASSUME TypeOK, ReadInv, HandleMissionCount
    PROVE  /\ Listing /\ toVehicle = <<>> /\ missionItems = <<>>
           /\ Head(toGcs).count \in Nat /\ HoldsItems(Head(toGcs).count)
           /\ NothingOwn(toGcs')
  <1> DEFINE t == toGcs'
  <1>1. /\ toGcs \in Seq(ToGcsMessage) /\ toGcs # <<>> /\ t = Tail(toGcs)
        /\ IsCount(Head(toGcs))
    BY DEF TypeOK, LinkTypeOK, HandleMissionCount, Arrives, ForThisPlan, IsCount
  <1> HIDE DEF t
  <1>2. FrontTaken(ToGcsMessage, toGcs, t)
    BY <1>1, TailMembers
  <1>3. Head(toGcs) \in ToGcsMessage /\ Head(toGcs) = toGcs[1] /\ 1 \in 1 .. Len(toGcs)
    BY <1>2 DEF FrontTaken
  <1>4. /\ Listing /\ toVehicle = <<>> /\ HoldsItems(Head(toGcs).count)
        /\ \A j \in 2 .. Len(toGcs) : ~toGcs[j].own
    BY <1>1, <1>3 DEF ReadInv, CountInv
  <1>5. NothingOwn(t)
    <2> SUFFICES ASSUME NEW i \in 1 .. Len(t)
                 PROVE  ~t[i].own
      BY DEF NothingOwn
    <2>1. i + 1 \in 2 .. Len(toGcs) /\ t[i] = toGcs[i + 1]
      BY <1>2 DEF FrontTaken
    <2> QED  BY <1>4, <2>1
  <1>6. Head(toGcs).count \in Nat
    BY <1>1, <1>3, ToGcsFields DEF IsCount
  <1>7. missionItems = <<>>
    BY <1>4 DEF ReadInv, ReadSoFar
  <1> QED  BY <1>4, <1>5, <1>6, <1>7 DEF t

(* A read that goes on.                                                       *)
LEMMA ContinueKeepsRead ==
    ASSUME TypeOK, TypeOK', ReadInv, UNCHANGED vehicleItems,
           NEW n \in Nat, HoldsItems(n), NEW items, BeginsThePlan(items), Len(items) < n,
           Len(missionItems) <= Len(items), transaction = "Read",
           ContinueRead(Len(items) .. (n - 1), items),
           Reading \/ toVehicle = <<>>, NothingListed(toVehicle),
           NothingCounted(toGcs'), ItemInv'
    PROVE  ReadInv'
  <1>1. missionItems' = items /\ Len(items) \in Nat
    BY DEF ContinueRead, TypeOK, ManagerTypeOK
  <1>2. First(Len(items) .. (n - 1)) = Len(items)
    BY <1>1, FirstIsLowest
  <1>3. /\ toVehicle' = Sent(toVehicle, [type |-> "REQUEST", seq |-> Len(items)])
        /\ Reading' /\ ~Listing'
        /\ indicesToRead' = Len(items) .. (n - 1)
    BY <1>2 DEF ContinueRead, RequestNextMissionItem, SendToVehicle, StartAckTimeout, Reading, Listing
  <1>4. Len(items) \in DOMAIN vehicleItems
    BY <1>1 DEF HoldsItems
  <1>5. RequestInv' /\ NothingListed(toVehicle')
    BY <1>1, <1>3, <1>4, RequestSent DEF ReadInv
  <1>6. HoldsItems(n)' /\ ReadUpTo(n)'
    BY <1>1, <1>3 DEF HoldsItems, ReadUpTo, BeginsThePlan
  <1>7. ReadSoFar'
    BY <1>3, <1>6 DEF ReadSoFar
  <1> QED  BY <1>5, <1>7, NoListToKeep DEF ReadInv

(* A read that is complete.                                                   *)
LEMMA CompleteKeepsRead ==
    ASSUME TypeOK, TypeOK', ReadInv, UNCHANGED vehicleItems,
           NEW items, ReadTransactionComplete(items), NothingListed(toVehicle),
           NothingCounted(toGcs'), ItemInv'
    PROVE  ReadInv'
  <1>1. PICK m : m = [type |-> "ACK"]
    OBVIOUS
  <1>2. m \in ToVehicleMessage /\ m.type = "ACK"
    BY <1>1, ReadMessages
  <1>3. toVehicle' = Sent(toVehicle, m) /\ transaction' = "None"
    BY <1>1 DEF ReadTransactionComplete, SendToVehicle, FinishTransaction
  <1>4. KeptRequests(toVehicle, toVehicle') /\ NothingListed(toVehicle')
    BY <1>2, <1>3, SentKeepsRequests
  <1> QED  BY <1>3, <1>4, EndKeepsRead

LEMMA CountKeepsRead ==
    ASSUME TypeOK, TypeOK', ReadInv, HandleMissionCount, UNCHANGED vehicleVars
    PROVE  ReadInv'
  <1>1. PICK n \in Nat : n = Head(toGcs).count
    BY CountTaken
  <1>2. /\ Listing /\ toVehicle = <<>> /\ missionItems = <<>> /\ HoldsItems(n)
        /\ NothingOwn(toGcs') /\ vehicleItems' = vehicleItems
    BY <1>1, CountTaken DEF vehicleVars
  <1>3. NothingCounted(toGcs') /\ ItemInv' /\ NothingListed(toVehicle)
    BY <1>2, NothingOwnArrives DEF NothingListed
  <1>4. CASE ReadTransactionComplete(missionItems)
    BY <1>2, <1>3, <1>4, CompleteKeepsRead
  <1>5. CASE n > 0 /\ ContinueRead(0 .. (n - 1), missionItems)
    <2>1. BeginsThePlan(missionItems) /\ Len(missionItems) = 0 /\ transaction = "Read"
      BY <1>2 DEF BeginsThePlan, Listing
    <2> QED  BY <1>2, <1>3, <1>5, <2>1, ContinueKeepsRead
  <1> QED  BY <1>1, <1>4, <1>5 DEF HandleMissionCount, IndicesOf

(* The item wanted is the next one of the vehicle's.                          *)
TakenItems == Append(missionItems, [seq |-> Head(toGcs).seq, item |-> FromVehicle(Head(toGcs).item)])
ItemsLeft == indicesToRead \ {Head(toGcs).seq}

LEMMA WantedIsNext ==
    ASSUME TypeOK, ReadInv, toGcs # <<>>, IsItem(Head(toGcs)), Reading, Wanted(Head(toGcs).seq),
           NEW n \in Nat, ReadUpTo(n)
    PROVE  /\ TakenItems \in Seq(Entry) /\ Len(TakenItems) = Len(missionItems) + 1
           /\ BeginsThePlan(TakenItems) /\ HoldsItems(n)
           /\ Len(missionItems) \in Nat /\ Len(TakenItems) <= n
           /\ ItemsLeft = Len(TakenItems) .. (n - 1)
  <1>1. toGcs \in Seq(ToGcsMessage) /\ missionItems \in Seq(Entry) /\ Len(missionItems) \in Nat
    BY DEF TypeOK, LinkTypeOK, ManagerTypeOK
  <1>2. Head(toGcs) = toGcs[1] /\ 1 \in 1 .. Len(toGcs) /\ Head(toGcs) \in ToGcsMessage
    BY <1>1
  <1>3. ItemFits(Head(toGcs))
    BY <1>2 DEF ReadInv, ItemInv
  <1>4. PICK m : m = Head(toGcs)
    OBVIOUS
  <1>5. m.seq \in Nat /\ m.item \in Item
    BY <1>2, <1>4, ToGcsFields DEF IsItem
  <1>6. m.item = vehicleItems[m.seq] /\ m.seq <= Len(missionItems)
    BY <1>3, <1>4 DEF ItemFits, Reading
  <1>7. m.seq = Len(missionItems) /\ m.seq < n
    BY <1>1, <1>4, <1>5, <1>6 DEF Wanted, ReadUpTo
  <1>8. PICK e : e = [seq |-> m.seq, item |-> FromVehicle(m.item)]
    OBVIOUS
  <1>9. e \in Entry
    BY <1>5, <1>8, FromVehicleType DEF Entry
  <1>10. TakenItems = Append(missionItems, e)
    BY <1>4, <1>8 DEF TakenItems
  <1>11. /\ TakenItems \in Seq(Entry) /\ Len(TakenItems) = Len(missionItems) + 1
         /\ \A k \in 1 .. Len(missionItems) : TakenItems[k] = missionItems[k]
         /\ TakenItems[Len(missionItems) + 1] = e
    BY <1>1, <1>9, <1>10
  <1>12. BeginsThePlan(TakenItems)
    <2> SUFFICES ASSUME NEW k \in 1 .. Len(TakenItems)
                 PROVE  TakenItems[k] = [seq |-> k - 1, item |-> FromVehicle(vehicleItems[k - 1])]
      BY DEF BeginsThePlan
    <2>1. CASE k \in 1 .. Len(missionItems)
      BY <1>11, <2>1 DEF ReadUpTo, BeginsThePlan
    <2>2. CASE k = Len(missionItems) + 1
      <3>1. k - 1 = m.seq
        BY <1>1, <1>7, <2>2
      <3> QED  BY <1>6, <1>8, <1>11, <2>2, <3>1
    <2> QED  BY <1>1, <1>11, <2>1, <2>2
  <1>13. ItemsLeft = Len(TakenItems) .. (n - 1)
    BY <1>1, <1>4, <1>7, <1>11 DEF ItemsLeft, ReadUpTo
  <1> QED  BY <1>1, <1>7, <1>11, <1>12, <1>13 DEF ReadUpTo

LEMMA ItemKeepsRead ==
    ASSUME TypeOK, TypeOK', WaitsForAnAnswer, ReadInv, HandleMissionItem, UNCHANGED vehicleVars
    PROVE  ReadInv'
  <1>1. /\ toGcs # <<>> /\ toGcs' = Tail(toGcs) /\ IsItem(Head(toGcs)) /\ Reading
        /\ vehicleItems' = vehicleItems
    BY DEF HandleMissionItem, Arrives, ForThisPlan, IsItem, Reading, WaitsForAnAnswer, inProgress,
           TypeOK, ManagerTypeOK, Transaction, vehicleVars
  <1>2. OldOf({"COUNT"}, toGcs, toGcs') /\ KeptItems(toGcs, toGcs')
    BY <1>1, FrontLeavesOld, OldKeepsItems
  <1>3. NothingListed(toVehicle) /\ NothingCounted(toGcs)
    BY <1>1, NothingOfAList DEF Listing, Reading
  <1>4. NothingCounted(toGcs')
    BY <1>2, <1>3 DEF NothingCounted, OldOf, IsCount
  <1>5. CASE DisregardMissionItem
    <2>1. UNCHANGED readVars /\ UNCHANGED toVehicle
      BY <1>1, <1>5 DEF DisregardMissionItem, StartAckTimeout, readVars, Reading
    <2> QED  BY <1>2, <2>1, OldKeepsRead
  <1>6. CASE TakeMissionItem
    <2>1. PICK n \in Nat : ReadUpTo(n)
      BY <1>1 DEF ReadInv, ReadSoFar
    <2>2. /\ TakenItems \in Seq(Entry) /\ Len(TakenItems) = Len(missionItems) + 1
          /\ BeginsThePlan(TakenItems) /\ HoldsItems(n)
          /\ Len(missionItems) \in Nat /\ Len(TakenItems) <= n
          /\ ItemsLeft = Len(TakenItems) .. (n - 1)
      BY <1>1, <1>6, <2>1, WantedIsNext DEF TakeMissionItem
    <2>3. \/ ReadTransactionComplete(TakenItems)
          \/ ItemsLeft # {} /\ ContinueRead(ItemsLeft, TakenItems)
      BY <1>6 DEF TakeMissionItem, TakenItems, ItemsLeft
    <2>4. CASE ReadTransactionComplete(TakenItems)
      <3>1. transaction' = "None"
        BY <2>4 DEF ReadTransactionComplete, FinishTransaction
      <3>2. ItemInv'
        BY <1>1, <1>2, <3>1, KeptItemsFit DEF ReadInv, Reading
      <3> QED  BY <1>1, <1>3, <1>4, <2>4, <3>2, CompleteKeepsRead
    <2>5. CASE ItemsLeft # {} /\ ContinueRead(ItemsLeft, TakenItems)
      <3>1. Len(TakenItems) < n
        BY <2>2, <2>5
      <3>2. missionItems' = TakenItems
        BY <2>5 DEF ContinueRead
      <3>3. ItemInv'
        BY <1>1, <1>2, <2>2, <3>2, KeptItemsFit DEF ReadInv, Reading
      <3> QED  BY <1>1, <1>3, <1>4, <2>2, <2>5, <3>1, <3>3, ContinueKeepsRead DEF Reading
    <2> QED  BY <2>3, <2>4, <2>5
  <1> QED  BY <1>5, <1>6 DEF HandleMissionItem

LEMMA IgnoredKeepsRead ==
    ASSUME TypeOK, TypeOK', ReadInv, HandleHomePosition \/ IgnoreMessage, UNCHANGED vehicleVars
    PROVE  ReadInv'
  <1>1. /\ toGcs # <<>> /\ toGcs' = Tail(toGcs) /\ UNCHANGED toVehicle /\ UNCHANGED readVars
    BY DEF HandleHomePosition, IgnoreMessage, Arrives, readVars, vehicleVars
  <1> QED  BY <1>1, FrontLeavesOld, OldKeepsItems, OldKeepsRead

(* The answer to a write or removal leaves nothing of a read behind it.       *)
LEMMA AnswerKeepsRead ==
    ASSUME TypeOK, TypeOK', WaitsForAnAnswer, WriteInv, ReadInv,
           HandleMissionRequest \/ HandleMissionAck, UNCHANGED vehicleVars
    PROVE  ReadInv'
  <1>1. /\ toGcs # <<>> /\ toGcs' = Tail(toGcs) /\ Answers(Head(toGcs)) /\ vehicleItems' = vehicleItems
    BY DEF HandleMissionRequest, HandleMissionAck, Arrives, ForThisPlan, Answers, vehicleVars
  <1>2. toVehicle = <<>> /\ NothingOwn(toGcs')
    BY <1>1, AnswerTaken DEF NothingOwn
  <1>3. NothingCounted(toGcs') /\ ItemInv'
    BY <1>2, NothingOwnArrives
  <1>4. CASE transaction' = "None" /\ toVehicle' = toVehicle
    <2>1. KeptRequests(toVehicle, toVehicle') /\ NothingListed(toVehicle')
      BY <1>2, <1>4 DEF KeptRequests, NothingListed
    <2> QED  BY <1>1, <1>3, <1>4, <2>1, EndKeepsRead
  <1>5. CASE HandleMissionRequest /\ SendRequestedItem(Head(toGcs).seq)
    <2>1. transaction = "Write" /\ transaction' = "Write" /\ ~Listing
      BY <1>5 DEF HandleMissionRequest, SendRequestedItem, WaitsForAnAnswer, inProgress, Arrives,
                  TypeOK, ManagerTypeOK, Transaction, Listing
    <2>2. PICK n \in Nat : n = Head(toGcs).seq
      <3>1. toGcs \in Seq(ToGcsMessage)
        BY DEF TypeOK, LinkTypeOK
      <3>2. Head(toGcs) \in ToGcsMessage /\ Head(toGcs).type = "REQUEST"
        BY <1>1, <1>5, <3>1 DEF HandleMissionRequest, Arrives
      <3> QED  BY <3>2, ToGcsFields
    <2>3. PICK m : m = [type |-> "ITEM", seq |-> n, item |-> writeMissionItems[n + 1].item]
      OBVIOUS
    <2>4. m \in ToVehicleMessage /\ m.type = "ITEM"
      <3>1. n + 1 \in 1 .. Len(writeMissionItems) /\ writeMissionItems \in Seq(Entry)
        BY <1>5, <2>2 DEF SendRequestedItem, TypeOK, ManagerTypeOK
      <3>2. writeMissionItems[n + 1].item \in Item
        BY <3>1, EntryFields
      <3> QED  BY <2>3, <3>2, WriteMessages
    <2>5. toVehicle' = Sent(toVehicle, m)
      BY <1>5, <2>2, <2>3 DEF SendRequestedItem, SendToVehicle
    <2> QED  BY <1>1, <1>3, <2>1, <2>4, <2>5, WriteAskKeepsRead
  <1> QED  BY <1>4, <1>5 DEF HandleMissionRequest, RefuseRequestedItem, HandleMissionAck, FinishTransaction,
                  FinishGuidedItem

(* A transaction is given up.                                                 *)
LEMMA GiveUpKeepsRead ==
    ASSUME TypeOK, TypeOK', ReadInv, UNCHANGED <<vehicleItems, toGcs>>, NEW ack, GiveUp(ack),
           Reading \/ Quiet
    PROVE  ReadInv'
  <1>1. transaction' = "None" /\ toVehicle' = toVehicle
    BY GivenUp
  <1>2. NothingListed(toVehicle') /\ NothingCounted(toGcs')
    <2>1. CASE Reading
      BY <1>1, <2>1, NothingOfAList DEF Listing, Reading
    <2>2. CASE Quiet
      BY <1>1, <2>2 DEF Quiet, NothingListed, NothingCounted
    <2> QED  BY <2>1, <2>2
  <1>3. KeptRequests(toVehicle, toVehicle') /\ KeptItems(toGcs, toGcs')
    BY <1>1 DEF KeptRequests, KeptItems
  <1>4. ItemInv'
    <2>1. CASE Reading
      BY <1>1, <1>3, <2>1, KeptItemsFit DEF ReadInv, Reading
    <2>2. CASE Quiet
      BY <2>2 DEF Quiet, ItemInv
    <2> QED  BY <2>1, <2>2
  <1> QED  BY <1>1, <1>2, <1>3, <1>4, EndKeepsRead

LEMMA CountTimeoutKeepsRead ==
    ASSUME TypeOK, TypeOK', WaitsForAnAnswer, EarlyItemsOnly, ReadInv, MissionCountTimeout,
           UNCHANGED vehicleVars
    PROVE  ReadInv'
  <1>1. Quiet /\ toGcs' = toGcs /\ vehicleItems' = vehicleItems /\ transaction = "Read"
    BY DEF MissionCountTimeout, TimerFires, EarlyItemsOnly, vehicleVars, WaitsForAnAnswer, inProgress,
           TypeOK, ManagerTypeOK, Transaction
  <1>2. CASE GiveUp("MissionCount")
    BY <1>1, <1>2, GiveUpKeepsRead
  <1>3. CASE Retry("MissionCount") /\ SendRequestList /\ ClearMissionItems
    <2> DEFINE t == toVehicle'
    <2>1. PICK m : m = [type |-> "REQUEST_LIST"]
      OBVIOUS
    <2>2. m \in ToVehicleMessage /\ m.type = "REQUEST_LIST"
      BY <2>1, ReadMessages
    <2>3. t = Sent(toVehicle, m) /\ toVehicle \in Seq(ToVehicleMessage)
      BY <1>3, <2>1 DEF SendRequestList, SendToVehicle, TypeOK, LinkTypeOK
    <2>4. t = <<m>>
      <3> HIDE DEF t
      <3>1. SentLast(ToVehicleMessage, toVehicle, m, t)
        BY <2>2, <2>3, SentMembers
      <3> QED  BY <1>1, <3>1 DEF SentLast, Quiet
    <2>5. missionItems' = <<>> /\ toGcs' = <<>> /\ expectedAck' = "MissionCount"
      BY <1>1, <1>3 DEF ClearMissionItems, Retry, StartAckTimeout, Quiet
    <2>6. CountInv' /\ ItemInv'
      BY <2>5 DEF CountInv, ItemInv
    <2>7. RequestInv'
      BY <2>2, <2>4 DEF RequestInv
    <2>8. transaction' = transaction /\ Listing' /\ ~Reading'
      BY <1>1, <1>3, <2>5 DEF Retry, Listing, Reading
    <2>9. ReadSoFar'
      BY <1>1, <2>5, <2>8, StillHeld DEF ReadSoFar
    <2>10. ListingInv'
      BY <2>4, <2>5, <2>8 DEF ListingInv, NothingCounted
    <2> QED  BY <2>6, <2>7, <2>9, <2>10 DEF ReadInv
  <1> QED  BY <1>2, <1>3 DEF MissionCountTimeout

LEMMA ItemTimeoutKeepsRead ==
    ASSUME TypeOK, TypeOK', WaitsForAnAnswer, ReadInv, MissionItemTimeout, UNCHANGED vehicleVars
    PROVE  ReadInv'
  <1>1. Reading /\ toGcs' = toGcs /\ vehicleItems' = vehicleItems
    BY DEF MissionItemTimeout, TimerFires, vehicleVars, Reading, WaitsForAnAnswer, inProgress,
           TypeOK, ManagerTypeOK, Transaction
  <1>2. CASE GiveUp("MissionItem")
    BY <1>1, <1>2, GiveUpKeepsRead
  <1>3. CASE /\ Retry("MissionItem")
             /\ SendToVehicle([type |-> "REQUEST", seq |-> First(indicesToRead)])
             /\ UNCHANGED <<indicesToRead, missionItems>>
    <2>1. PICK n \in Nat : ReadUpTo(n)
      BY <1>1 DEF ReadInv, ReadSoFar
    <2>2. Len(missionItems) \in Nat /\ missionItems' = missionItems
      BY <1>3 DEF TypeOK, ManagerTypeOK
    <2>3. First(indicesToRead) = Len(missionItems)
      BY <2>1, <2>2, FirstIsLowest DEF ReadUpTo
    <2>4. Len(missionItems) \in DOMAIN vehicleItems
      BY <2>1, <2>2 DEF ReadUpTo, HoldsItems
    <2>5. toVehicle' = Sent(toVehicle, [type |-> "REQUEST", seq |-> Len(missionItems)])
      BY <1>3, <2>3 DEF SendToVehicle
    <2>6. UNCHANGED readVars
      BY <1>1, <1>3 DEF readVars, Retry, StartAckTimeout, Reading
    <2>7. NothingListed(toVehicle) /\ NothingCounted(toGcs) /\ Reading' /\ transaction' = transaction
      BY <1>1, <2>6, NothingOfAList DEF Listing, Reading, readVars
    <2>8. RequestInv' /\ NothingListed(toVehicle')
      BY <1>1, <2>2, <2>4, <2>5, <2>7, RequestSent DEF ReadInv
    <2>9. KeptItems(toGcs, toGcs')
      BY <1>1 DEF KeptItems
    <2>10. ItemInv'
      BY <1>1, <2>2, <2>7, <2>9, KeptItemsFit DEF ReadInv
    <2> QED  BY <1>1, <2>6, <2>7, <2>8, <2>10, NoListToKeep, RestKeepsReadSoFar DEF ReadInv
  <1> QED  BY <1>2, <1>3 DEF MissionItemTimeout

LEMMA OtherTimeoutKeepsRead ==
    ASSUME TypeOK, TypeOK', WaitsForAnAnswer, EarlyItemsOnly, ReadInv,
           MissionRequestTimeout \/ ClearAllTimeout \/ GuidedItemTimeout, UNCHANGED vehicleVars
    PROVE  ReadInv'
  <1>1. Quiet /\ toGcs' = toGcs /\ vehicleItems' = vehicleItems
    BY DEF MissionRequestTimeout, ClearAllTimeout, GuidedItemTimeout, TimerFires, EarlyItemsOnly,
           vehicleVars
  <1>2. ASSUME NEW ack, GiveUp(ack)
        PROVE  ReadInv'
    BY <1>1, <1>2, GiveUpKeepsRead
  <1>3. transaction \in {"Write", "RemoveAll"} /\ ~Listing
    BY DEF MissionRequestTimeout, ClearAllTimeout, GuidedItemTimeout, TimerFires, WaitsForAnAnswer,
           inProgress, TypeOK, ManagerTypeOK, Transaction, Listing
  <1>4. CASE Retry("MissionRequest") /\ SendMissionCount(Len(writeMissionItems))
    <2>1. PICK m : m = [type |-> "COUNT", count |-> Len(writeMissionItems)]
      OBVIOUS
    <2>2. Len(writeMissionItems) \in Nat
      BY DEF TypeOK, ManagerTypeOK
    <2>3. m \in ToVehicleMessage /\ m.type = "COUNT"
      BY <2>1, <2>2, WriteMessages
    <2>4. toVehicle' = Sent(toVehicle, m) /\ transaction' = transaction
      BY <1>4, <2>1 DEF SendMissionCount, SendToVehicle, Retry
    <2> QED  BY <1>1, <1>3, <2>3, <2>4, WriteAskKeepsRead
  <1>5. CASE Retry("MissionClearAll") /\ SendClearAll
    <2>1. PICK m : m = [type |-> "CLEAR_ALL"]
      OBVIOUS
    <2>2. m \in ToVehicleMessage /\ m.type = "CLEAR_ALL"
      BY <2>1, WriteMessages
    <2>3. toVehicle' = Sent(toVehicle, m) /\ transaction' = transaction
      BY <1>5, <2>1 DEF SendClearAll, SendToVehicle, Retry
    <2> QED  BY <1>1, <1>3, <2>2, <2>3, WriteAskKeepsRead
  <1> QED  BY <1>2, <1>4, <1>5 DEF MissionRequestTimeout, ClearAllTimeout, GuidedItemTimeout

LEMMA InitOfARead ==
    ASSUME Init
    PROVE  ReadInv
  <1>1. /\ toVehicle = <<>> /\ toGcs = <<>> /\ transaction = "None" /\ vehicleItems = noItems
    BY DEF Init, LinkInit, ManagerInit, HandlerInit
  <1>2. HoldsItems(0)
    BY <1>1 DEF HoldsItems, noItems
  <1> QED  BY <1>1, <1>2 DEF ReadInv, RequestInv, ListingInv, CountInv, ItemInv, ReadSoFar, Listing, Reading

LEMMA StepKeepsRead ==
    ASSUME ReadConditions, IInv, IInv', WriteInv, ReadInv, [Next]_vars
    PROVE  ReadInv'
  <1>1. TypeOK /\ TypeOK' /\ WaitsForAnAnswer /\ EarlyItemsOnly /\ OnlyItemsRepeated
    BY DEF IInv, ReadConditions
  <1>2. CASE StartTransaction /\ UNCHANGED vehicleVars
    BY <1>1, <1>2, StartKeepsRead
  <1>3. CASE ReceiveFromVehicle /\ UNCHANGED vehicleVars
    BY <1>1, <1>3, CountKeepsRead, ItemKeepsRead, IgnoredKeepsRead, AnswerKeepsRead DEF ReceiveFromVehicle
  <1>4. CASE AckTimeout /\ UNCHANGED vehicleVars
    BY <1>1, <1>4, CountTimeoutKeepsRead, ItemTimeoutKeepsRead, OtherTimeoutKeepsRead DEF AckTimeout
  <1>5. CASE VehicleStep
    BY <1>1, <1>5, VehicleKeepsRead
  <1>6. CASE LinkStep
    BY <1>1, <1>6, LinkKeepsRead
  <1>7. CASE UNCHANGED vars
    <2>1. UNCHANGED readVars /\ UNCHANGED <<toVehicle, toGcs>>
      BY <1>7 DEF vars, linkVars, managerVars, vehicleVars, readVars
    <2>2. OldOf({"COUNT"}, toGcs, toGcs') /\ KeptItems(toGcs, toGcs')
      BY <2>1 DEF OldOf, KeptItems
    <2> QED  BY <1>1, <2>1, <2>2, OldKeepsRead
  <1> QED  BY <1>2, <1>3, <1>4, <1>5, <1>6, <1>7 DEF Next, ManagerStep

THEOREM ReadInvariant ==
    ASSUME ReadConditions
    PROVE  Spec => []ReadInv
  <1>1. Init => ReadInv
    BY InitOfARead
  <1>2. IInv /\ IInv' /\ WriteInv /\ ReadInv /\ [Next]_vars => ReadInv'
    BY StepKeepsRead
  <1>3. Spec => []WriteInv
    BY ReadConditionsSuffice, WriteInvariant
  <1> QED  BY <1>1, <1>2, <1>3, Invariant, PTL DEF Spec

-----------------------------------------------------------------------------
(* A read without an error brings the vehicle's plan.                         *)

LEMMA FailureReported ==
    ASSUME NEW items, FinishTransaction(FALSE, items)
    PROVE  Failed
  BY DEF FinishTransaction, ErrorSignal, Failed, Reported

LEMMA WholePlan ==
    ASSUME NEW items \in Seq(Entry), HoldsItems(Len(items)), BeginsThePlan(items)
    PROVE  items = Downloaded
  <1>1. itemCount = Len(items)
    BY HeldCount
  <1>2. Downloaded = [k \in 1 .. Len(items) |-> [seq |-> k - 1, item |-> FromVehicle(vehicleItems[k - 1])]]
    BY <1>1 DEF Downloaded
  <1>3. items = [k \in 1 .. Len(items) |-> items[k]]
    OBVIOUS
  <1> QED  BY <1>2, <1>3 DEF BeginsThePlan

(* The two ways a read succeeds.                                              *)
LEMMA ReadSucceeds ==
    ASSUME IInv, ReadInv, HandleMissionCount \/ HandleMissionItem, transaction' = "None"
    PROVE  /\ missionItems' \in Seq(Entry) /\ missionItems' = Downloaded
           /\ transaction = "Read" /\ toGcs # <<>>
  <1>1. TypeOK /\ missionItems \in Seq(Entry)
    BY DEF IInv, TypeOK, ManagerTypeOK
  <1>2. transaction = "Read"
    BY DEF IInv, WaitsForAnAnswer, HandleMissionCount, HandleMissionItem, Arrives, inProgress,
           TypeOK, ManagerTypeOK, Transaction
  <1>3. ASSUME NEW items, ReadTransactionComplete(items)
        PROVE  missionItems' = items
    BY <1>2, <1>3 DEF ReadTransactionComplete, FinishTransaction, ListAfter
  <1>4. CASE HandleMissionCount
    <2>1. Head(toGcs).count = 0 /\ ReadTransactionComplete(missionItems)
      BY <1>2, <1>4 DEF HandleMissionCount, ContinueRead
    <2>2. missionItems = <<>> /\ HoldsItems(0)
      BY <1>1, <1>4, <2>1, CountTaken
    <2>3. HoldsItems(Len(missionItems)) /\ BeginsThePlan(missionItems)
      BY <2>2 DEF BeginsThePlan
    <2> QED  BY <1>1, <1>2, <1>3, <1>4, <2>1, <2>3, WholePlan DEF HandleMissionCount, Arrives
  <1>5. CASE HandleMissionItem
    <2>1. /\ TakeMissionItem /\ ItemsLeft = {} /\ ReadTransactionComplete(TakenItems)
      BY <1>2, <1>5 DEF HandleMissionItem, DisregardMissionItem, TakeMissionItem, ContinueRead,
                        ItemsLeft, TakenItems
    <2>2. Reading /\ toGcs # <<>> /\ IsItem(Head(toGcs)) /\ Wanted(Head(toGcs).seq)
      BY <1>2, <1>5, <2>1 DEF HandleMissionItem, Arrives, ForThisPlan, Reading, IsItem, TakeMissionItem
    <2>3. PICK n \in Nat : ReadUpTo(n)
      BY <2>2 DEF ReadInv, ReadSoFar
    <2>4. /\ TakenItems \in Seq(Entry) /\ BeginsThePlan(TakenItems) /\ HoldsItems(n)
          /\ Len(TakenItems) <= n /\ ItemsLeft = Len(TakenItems) .. (n - 1)
      BY <1>1, <2>2, <2>3, WantedIsNext
    <2>5. Len(TakenItems) = n
      <3>1. Len(TakenItems) \in Nat
        BY <2>4
      <3>2. ~(Len(TakenItems) < n)
        BY <2>1, <2>4, <3>1
      <3> QED  BY <2>4, <3>1, <3>2
    <2> QED  BY <1>2, <1>3, <2>1, <2>2, <2>4, <2>5, WholePlan
  <1> QED  BY <1>4, <1>5

LEMMA ReadEnds ==
    ASSUME IInv, ReadInv, Next, Ends("Read"), ~Failed
    PROVE  missionItems' = Downloaded
  <1>1. transaction = "Read" /\ transaction' = "None"
    BY DEF Ends
  <1>2. ASSUME NEW ack, GiveUp(ack) PROVE FALSE
    <2>1. FinishTransaction(FALSE, missionItems)
      BY <1>2 DEF GiveUp
    <2> QED  BY <2>1, FailureReported
  <1>3. ~StartTransaction /\ ~VehicleStep /\ ~LinkStep
    BY <1>1 DEF StartTransaction, LoadFromVehicle, WriteMissionItems, GenerateResumeMission, RemoveAll,
           WriteGuidedItem, VehicleStep, LinkStep, ManagerRests, inProgress
  <1>4. ~AckTimeout
    BY <1>1, <1>2 DEF AckTimeout, MissionCountTimeout, MissionItemTimeout, MissionRequestTimeout,
           ClearAllTimeout, GuidedItemTimeout, Retry
  <1>5. expectedAck \in {"MissionCount", "MissionItem"}
    BY <1>1 DEF IInv, WaitsForAnAnswer
  <1>6. ~HandleMissionAck
    <2>1. AckMeansSuccess(Head(toGcs).result) = FALSE
      BY <1>5 DEF AckMeansSuccess
    <2>2. HandleMissionAck => FinishTransaction(FALSE, missionItems)
      BY <1>5, <2>1 DEF HandleMissionAck
    <2> QED  BY <2>2, FailureReported
  <1>7. ~HandleMissionRequest /\ ~HandleHomePosition /\ ~IgnoreMessage
    BY <1>1, <1>5 DEF HandleMissionRequest, HandleHomePosition, IgnoreMessage
  <1>8. HandleMissionCount \/ HandleMissionItem
    BY <1>3, <1>4, <1>6, <1>7 DEF Next, ManagerStep, ReceiveFromVehicle
  <1> QED  BY <1>1, <1>8, ReadSucceeds

(* A read that reports no error leaves exactly the vehicle's items in the     *)
(* ground station's list, in their order: no item is missing, doubled or out  *)
(* of place, whatever the link loses and whenever the item timer fires.       *)
THEOREM ReadsBringThePlan ==
    ASSUME ReadConditions
    PROVE  Spec => ReadBringsThePlan
  <1>1. ASSUME IInv, ReadInv, Next, Ends("Read"), ~Failed
        PROVE  missionItems' = Downloaded
    BY <1>1, ReadEnds
  <1>2. [][IInv /\ ReadInv /\ Next]_vars => ReadBringsThePlan
    <2>1. [IInv /\ ReadInv /\ Next]_vars => [Ends("Read") /\ ~Failed => missionItems' = Downloaded]_vars
      BY <1>1
    <2> QED  BY <2>1, PTL DEF ReadBringsThePlan
  <1>3. Spec => [][IInv /\ ReadInv /\ Next]_vars
    BY Invariant, ReadInvariant, PTL DEF Spec
  <1> QED  BY <1>2, <1>3, PTL

-----------------------------------------------------------------------------
(* The transfer implements PlanStore.  The variables of the abstract          *)
(* specification, as PlanTransfer defines them:                               *)

gcsPlan == IF transaction = "Read" THEN <<>> ELSE Items(missionItems)
vehiclePlan == [k \in 1 .. itemCount |-> vehicleItems[k - 1]]
pending == [op |-> OpenTransaction,
            plan |-> IF OpenTransaction = "Write" THEN Items(writeMissionItems) ELSE <<>>]

WritePlans == UNION {PartsOf(Items(WriteList(p))) : p \in EditorPlans}
Plans == WritePlans \cup {<<>>}

Idle == [op |-> "None", plan |-> <<>>]
Open(op, plan) == [op |-> op, plan |-> plan]

(* The steps of PlanStore in these terms.                                     *)
LEMMA StoreSteps ==
    /\ Store!Begin <=>
        /\ pending = Idle
        /\ \/ /\ pending' \in {Open("Read", <<>>), Open("RemoveAll", <<>>)}
              /\ gcsPlan' = <<>>
           \/ /\ \E plan \in WritePlans : pending' = Open("Write", plan)
              /\ UNCHANGED gcsPlan
           \/ pending' = Open("Guided", <<>>) /\ UNCHANGED gcsPlan
        /\ UNCHANGED vehiclePlan
    /\ Store!VehicleStores <=>
        /\ pending.op \in {"Write", "RemoveAll"}
        /\ \E n \in 0 .. Len(pending.plan) : vehiclePlan' = SubSeq(pending.plan, 1, n)
        /\ UNCHANGED <<gcsPlan, pending>>
    /\ Store!Succeed <=>
        /\ pending # Idle
        /\ pending' = Idle
        /\ \/ /\ pending.op = "Read"
              /\ gcsPlan' = [k \in 1 .. Len(vehiclePlan) |-> FromVehicle(vehiclePlan[k])]
           \/ /\ pending.op \in {"Write", "RemoveAll"}
              /\ vehiclePlan = pending.plan
              /\ gcsPlan' = pending.plan
           \/ pending.op = "Guided" /\ UNCHANGED gcsPlan
        /\ UNCHANGED vehiclePlan
    /\ Store!Fail <=>
        /\ pending # Idle
        /\ pending' = Idle
        /\ UNCHANGED <<gcsPlan, vehiclePlan>>
    /\ Store!StoreNext <=> Store!Begin \/ Store!VehicleStores \/ Store!Succeed \/ Store!Fail
    /\ UNCHANGED Store!storeVars <=> UNCHANGED <<gcsPlan, vehiclePlan, pending>>
    /\ Store!StoreInit <=> gcsPlan = <<>> /\ vehiclePlan = <<>> /\ pending = Idle
  BY DEF Store!Begin, Store!VehicleStores, Store!Succeed, Store!Fail, Store!StoreNext, Store!storeVars,
         Store!StoreInit, Store!Idle, Store!Open, gcsPlan, vehiclePlan, pending, WritePlans, Idle, Open

StoreStep == Store!StoreNext \/ UNCHANGED <<gcsPlan, vehiclePlan, pending>>

-----------------------------------------------------------------------------
(* Lemmas about plans.                                                        *)

LEMMA PlanType ==
    ASSUME NEW list \in Seq(Entry)
    PROVE  /\ Items(list) \in Seq(Item) /\ Len(Items(list)) = Len(list)
           /\ \A k \in 1 .. Len(list) : Items(list)[k] = list[k].item
  <1>1. Items(list) = [k \in 1 .. Len(list) |-> list[k].item]
    BY DEF Items
  <1>2. \A k \in 1 .. Len(list) : list[k].item \in Item
    BY EntryFields
  <1> QED  BY <1>1, <1>2

LEMMA NoItemsNoPlan == Items(<<>>) = <<>>
  <1>1. <<>> \in Seq(Entry)
    OBVIOUS
  <1>2. Items(<<>>) \in Seq(Item) /\ Len(Items(<<>>)) = 0
    BY <1>1, PlanType
  <1> QED  BY <1>2

(* The parts of a plan.                                                       *)
LEMMA PartsMembers ==
    ASSUME NEW plan, NEW part
    PROVE  part \in PartsOf(plan) <=>
              \E n \in 0 .. Len(plan) : \E pos \in [1 .. n -> 1 .. Len(plan)] :
                  part = [k \in 1 .. n |-> plan[pos[k]]]
  <1> DEFINE Selections(n) ==
               {[k \in 1 .. n |-> plan[pos[k]]] : pos \in [1 .. n -> 1 .. Len(plan)]}
  <1>1. \A n : part \in Selections(n) <=>
            \E pos \in [1 .. n -> 1 .. Len(plan)] : part = [k \in 1 .. n |-> plan[pos[k]]]
    OBVIOUS
  <1>2. PartsOf(plan) = UNION {Selections(n) : n \in 0 .. Len(plan)}
    BY DEF PartsOf
  <1> HIDE DEF Selections
  <1>3. part \in PartsOf(plan) <=> \E n \in 0 .. Len(plan) : part \in Selections(n)
    BY <1>2
  <1> QED  BY <1>1, <1>3

LEMMA PlanIsPart ==
    ASSUME NEW plan \in Seq(Item)
    PROVE  plan \in PartsOf(plan)
  <1> DEFINE n == Len(plan)
             pos == [k \in 1 .. n |-> k]
  <1>1. n \in 0 .. Len(plan) /\ pos \in [1 .. n -> 1 .. n]
    OBVIOUS
  <1>2. plan = [k \in 1 .. n |-> plan[pos[k]]]
    OBVIOUS
  <1> HIDE DEF n, pos
  <1> QED  BY <1>1, <1>2, PartsMembers DEF n

LEMMA PartType ==
    ASSUME NEW plan \in Seq(Item), NEW part \in PartsOf(plan)
    PROVE  part \in Seq(Item) /\ Len(part) \in 0 .. Len(plan)
  <1>1. PICK n \in 0 .. Len(plan) : \E pos \in [1 .. n -> 1 .. Len(plan)] :
            part = [k \in 1 .. n |-> plan[pos[k]]]
    BY PartsMembers
  <1>2. PICK pos \in [1 .. n -> 1 .. Len(plan)] : part = [k \in 1 .. n |-> plan[pos[k]]]
    BY <1>1
  <1>3. \A k \in 1 .. n : plan[pos[k]] \in Item
    OBVIOUS
  <1>4. n \in Nat
    OBVIOUS
  <1> QED  BY <1>2, <1>3, <1>4

(* A selection from a part is a part.                                         *)
LEMMA PartOfPart ==
    ASSUME NEW plan \in Seq(Item), NEW part \in PartsOf(plan),
           NEW m \in 0 .. Len(part), NEW sel \in [1 .. m -> 1 .. Len(part)]
    PROVE  [k \in 1 .. m |-> part[sel[k]]] \in PartsOf(plan)
  <1>1. PICK n \in 0 .. Len(plan) : \E pos \in [1 .. n -> 1 .. Len(plan)] :
            part = [k \in 1 .. n |-> plan[pos[k]]]
    BY PartsMembers, SMTT(30)
  <1>2. PICK pos \in [1 .. n -> 1 .. Len(plan)] : part = [k \in 1 .. n |-> plan[pos[k]]]
    BY <1>1
  <1>3. Len(part) = n
    BY <1>2
  <1> DEFINE both == [k \in 1 .. m |-> pos[sel[k]]]
             new == [k \in 1 .. m |-> part[sel[k]]]
  <1>4. m \in 0 .. Len(plan) /\ both \in [1 .. m -> 1 .. Len(plan)]
    BY <1>3
  <1>5. new = [k \in 1 .. m |-> plan[both[k]]]
    BY <1>2, <1>3
  <1> HIDE DEF both, new
  <1>6. \E pos2 \in [1 .. m -> 1 .. Len(plan)] : new = [k \in 1 .. m |-> plan[pos2[k]]]
    BY <1>4, <1>5
  <1>7. new \in PartsOf(plan)
    BY <1>4, <1>6, PartsMembers
  <1> QED  BY <1>7 DEF new

LEMMA WritePlanBase ==
    ASSUME NEW w \in WritePlans
    PROVE  \E plan \in Seq(Item) : w \in PartsOf(plan) /\ PartsOf(plan) \subseteq WritePlans
  <1>1. PICK p \in EditorPlans : w \in PartsOf(Items(WriteList(p)))
    BY DEF WritePlans
  <1>2. p \in Seq(Item)
    BY ManagerAssumption
  <1>3. Items(WriteList(p)) \in Seq(Item)
    BY <1>2, WriteListType, PlanType
  <1>4. PartsOf(Items(WriteList(p))) \subseteq WritePlans
    BY DEF WritePlans
  <1> QED  BY <1>1, <1>3, <1>4

(* A selection from a plan that may be written may be written, and so may its *)
(* beginning.                                                                 *)
LEMMA SelectionIsPlan ==
    ASSUME NEW w \in WritePlans, NEW m \in 0 .. Len(w), NEW sel \in [1 .. m -> 1 .. Len(w)]
    PROVE  [k \in 1 .. m |-> w[sel[k]]] \in WritePlans
  <1>1. PICK plan \in Seq(Item) : w \in PartsOf(plan) /\ PartsOf(plan) \subseteq WritePlans
    BY WritePlanBase
  <1>2. [k \in 1 .. m |-> w[sel[k]]] \in PartsOf(plan)
    BY <1>1, PartOfPart, SMTT(30)
  <1> QED  BY <1>1, <1>2

LEMMA PlanTypes ==
    ASSUME NEW w \in Plans
    PROVE  w \in Seq(Item)
  <1>1. CASE w \in WritePlans
    <2>1. PICK plan \in Seq(Item) : w \in PartsOf(plan)
      BY <1>1, WritePlanBase
    <2> QED  BY <2>1, PartType
  <1>2. CASE w = <<>>
    BY <1>2
  <1> QED  BY <1>1, <1>2 DEF Plans

LEMMA BeginningIsPlan ==
    ASSUME NEW w \in Plans, NEW m \in 0 .. Len(w)
    PROVE  SubSeq(w, 1, m) \in Plans
  <1>1. w \in Seq(Item)
    BY PlanTypes
  <1>2. CASE w \in WritePlans
    <2> DEFINE sel == [k \in 1 .. m |-> k]
    <2>1. sel \in [1 .. m -> 1 .. Len(w)]
      BY <1>1
    <2>2. SubSeq(w, 1, m) = [k \in 1 .. m |-> w[sel[k]]]
      BY <1>1
    <2> HIDE DEF sel
    <2>3. [k \in 1 .. m |-> w[sel[k]]] \in WritePlans
      BY <1>2, <2>1, SelectionIsPlan, ZenonT(30)
    <2> QED  BY <2>2, <2>3 DEF Plans
  <1>3. CASE w = <<>>
    <2>1. SubSeq(w, 1, m) = <<>>
      BY <1>3
    <2> QED  BY <2>1 DEF Plans
  <1> QED  BY <1>2, <1>3 DEF Plans

(* What a read shows differs from what the vehicle has only in jumps, which   *)
(* it keeps jumps; a mission without them may be resumed.                     *)
MadeOf(list, plan) ==
    /\ Len(list) = Len(plan)
    /\ \A k \in 1 .. Len(list) : ~IsJump(list[k]) => list[k] = plan[k]

(* The lists come from plans of the editors; the open transaction fits them.  *)
PlansInv ==
    /\ vehiclePlan \in Plans
    /\ pending.op = "Write" => pending.plan \in WritePlans
    /\ pending.op # "Write" => pending.plan = <<>>
    /\ pending.op \in {"Read", "RemoveAll"} => gcsPlan = <<>>
    /\ \E plan \in Plans : MadeOf(gcsPlan, plan)

LEMMA DecodedJumps ==
    ASSUME NEW i \in Item, ~IsJump(FromVehicle(i))
    PROVE  FromVehicle(i) = i
  <1>1. ASSUME IsJump(i) PROVE IsJump([i EXCEPT !.param1 = @ + 1])
    BY <1>1 DEF IsJump, Item
  <1> QED  BY <1>1 DEF FromVehicle, Shifted

LEMMA DecodedIsMadeOf ==
    ASSUME NEW plan \in Seq(Item), NEW list, list = [k \in 1 .. Len(plan) |-> FromVehicle(plan[k])]
    PROVE  MadeOf(list, plan)
  <1>1. Len(list) = Len(plan) /\ \A k \in 1 .. Len(plan) : list[k] = FromVehicle(plan[k]) /\ plan[k] \in Item
    OBVIOUS
  <1> QED  BY <1>1, DecodedJumps DEF MadeOf

LEMMA PlanIsMadeOf ==
    ASSUME NEW plan
    PROVE  MadeOf(plan, plan)
  BY DEF MadeOf

LEMMA StoreKeepsPlans ==
    ASSUME PlansInv, StoreStep
    PROVE  PlansInv'
  <1> USE DEF PlansInv
  <1>0. <<>> \in Plans /\ MadeOf(<<>>, <<>>)
    BY PlanIsMadeOf DEF Plans
  <1>1. CASE Store!Begin
    <2>1. UNCHANGED vehiclePlan /\ (gcsPlan' = <<>> \/ UNCHANGED gcsPlan)
      BY <1>1, StoreSteps
    <2>2. \E plan \in Plans : MadeOf(gcsPlan', plan)
      BY <1>0, <2>1
    <2>3. /\ pending'.op = "Write" => pending'.plan \in WritePlans
          /\ pending'.op # "Write" => pending'.plan = <<>>
          /\ pending'.op \in {"Read", "RemoveAll"} => gcsPlan' = <<>>
      BY <1>1, StoreSteps DEF Open
    <2> QED  BY <2>1, <2>2, <2>3 DEF MadeOf
  <1>2. CASE Store!VehicleStores
    <2>1. pending.plan \in Plans
      BY <1>2, <1>0, StoreSteps DEF Plans
    <2>2. PICK n \in 0 .. Len(pending.plan) : vehiclePlan' = SubSeq(pending.plan, 1, n)
      BY <1>2, StoreSteps
    <2>3. vehiclePlan' \in Plans
      BY <2>1, <2>2, BeginningIsPlan
    <2>4. UNCHANGED <<gcsPlan, pending>>
      BY <1>2, StoreSteps
    <2> QED  BY <2>3, <2>4 DEF MadeOf
  <1>3. CASE Store!Succeed
    <2>1. pending' = Idle /\ UNCHANGED vehiclePlan
      BY <1>3, StoreSteps
    <2>2. \E plan \in Plans : MadeOf(gcsPlan', plan)
      <3>1. CASE gcsPlan' = [k \in 1 .. Len(vehiclePlan) |-> FromVehicle(vehiclePlan[k])]
        BY <3>1, PlanTypes, DecodedIsMadeOf
      <3>2. CASE pending.op \in {"Write", "RemoveAll"} /\ gcsPlan' = pending.plan
        BY <1>0, <3>2, PlanIsMadeOf DEF Plans
      <3>3. CASE UNCHANGED gcsPlan
        BY <3>3
      <3> QED  BY <1>3, <3>1, <3>2, <3>3, StoreSteps
    <2> QED  BY <2>1, <2>2 DEF Idle, MadeOf
  <1>4. CASE Store!Fail
    <2>1. pending' = Idle /\ UNCHANGED <<gcsPlan, vehiclePlan>>
      BY <1>4, StoreSteps
    <2> QED  BY <2>1 DEF Idle, MadeOf
  <1>5. CASE UNCHANGED <<gcsPlan, vehiclePlan, pending>>
    BY <1>5 DEF MadeOf
  <1> QED  BY <1>1, <1>2, <1>3, <1>4, <1>5, StoreSteps DEF StoreStep

(* A mission resumed is a plan that may be written.                           *)
LEMMA ResumedIsPlan ==
    ASSUME NEW list \in Seq(Item), list # <<>>, \A k \in 1 .. Len(list) : ~IsJump(list[k]),
           NEW plan \in Plans, MadeOf(list, plan),
           NEW n \in 1 .. Len(list), NEW pos \in [1 .. n -> 1 .. Len(list)]
    PROVE  [k \in 1 .. n |-> list[pos[k]]] \in WritePlans
  <1>1. list = plan
    <2>1. plan \in Seq(Item)
      BY PlanTypes
    <2> QED  BY <2>1 DEF MadeOf
  <1>2. list \in WritePlans
    BY <1>1 DEF Plans
  <1>3. n \in 0 .. Len(list)
    OBVIOUS
  <1> QED  BY <1>2, <1>3, SelectionIsPlan, ZenonT(30)

-----------------------------------------------------------------------------
(* What the variables of PlanStore are, by the open transaction.              *)

PendingIs ==
    /\ transaction = "None" => pending = Idle
    /\ transaction = "Read" => pending = Open("Read", <<>>)
    /\ transaction = "RemoveAll" => pending = Open("RemoveAll", <<>>)
    /\ transaction = "Write" =>
          /\ expectedAck = "GuidedItem" => pending = Open("Guided", <<>>)
          /\ expectedAck # "GuidedItem" => pending = Open("Write", Items(writeMissionItems))
GcsPlanIs ==
    /\ transaction = "Read" => gcsPlan = <<>>
    /\ transaction # "Read" => gcsPlan = Items(missionItems)

LEMMA StoreShape == PendingIs /\ PendingIs' /\ GcsPlanIs /\ GcsPlanIs'
  BY DEF PendingIs, GcsPlanIs, pending, gcsPlan, OpenTransaction, Idle, Open

LEMMA SameVehiclePlan ==
    ASSUME UNCHANGED vehicleItems
    PROVE  UNCHANGED vehiclePlan
  BY DEF vehiclePlan, itemCount

(* An operation that is still open, and one that is not.                      *)
LEMMA OpenIsNotIdle ==
    /\ \A op, plan : Open(op, plan).op = op /\ Open(op, plan).plan = plan
    /\ \A op, plan : op # "None" => Open(op, plan) # Idle
    /\ Idle.op = "None" /\ Idle.plan = <<>>
  <1>1. \A op, plan : Open(op, plan).op = op /\ Open(op, plan).plan = plan
    BY DEF Open
  <1>2. Idle.op = "None" /\ Idle.plan = <<>>
    BY DEF Idle
  <1> QED  BY <1>1, <1>2

(* A step within a transaction.                                               *)
LEMMA StoreStutters ==
    ASSUME UNCHANGED <<transaction, writeMissionItems, vehicleItems>>,
           missionItems' = missionItems \/ transaction = "Read",
           transaction = "Write" => (expectedAck' = "GuidedItem" <=> expectedAck = "GuidedItem"),
           transaction \in Transaction
    PROVE  StoreStep
  <1>1. UNCHANGED pending
    BY StoreShape DEF PendingIs, Transaction
  <1>2. UNCHANGED gcsPlan
    BY StoreShape DEF GcsPlanIs
  <1> QED  BY <1>1, <1>2, SameVehiclePlan DEF StoreStep

(* What the vehicle stores of a list, as a plan.                              *)
LEMMA StoredPlan ==
    ASSUME NEW items, NEW list \in Seq(Entry), NEW n \in 0 .. Len(list),
           DOMAIN items = 0 .. (n - 1),
           \A k \in 1 .. n : items[k - 1] = list[k].item
    PROVE  [k \in 1 .. Cardinality(DOMAIN items) |-> items[k - 1]] = SubSeq(Items(list), 1, n)
  <1>1. n \in Nat /\ Cardinality(0 .. (n - 1)) = n
    BY FS_Interval
  <1>2. Items(list) \in Seq(Item) /\ Len(Items(list)) = Len(list)
        /\ \A k \in 1 .. n : Items(list)[k] = items[k - 1]
    BY PlanType
  <1> DEFINE plan == Items(list)
  <1> HIDE DEF plan
  <1>3. SubSeq(plan, 1, n) = [k \in 1 .. n |-> plan[k]]
    BY <1>1, <1>2 DEF plan
  <1>4. [k \in 1 .. n |-> plan[k]] = [k \in 1 .. n |-> items[k - 1]]
    BY <1>2 DEF plan
  <1> QED  BY <1>1, <1>3, <1>4 DEF plan

-----------------------------------------------------------------------------
(* Transactions start.                                                        *)

LEMMA WriteBegins ==
    ASSUME NEW list \in Seq(Entry), Items(list) \in WritePlans, StartWrite(list),
           transaction = "None", UNCHANGED vehicleItems
    PROVE  StoreStep
  <1>1. /\ transaction' = "Write" /\ expectedAck' # "GuidedItem" /\ writeMissionItems' = list
        /\ missionItems' = missionItems
    BY DEF StartWrite, StartAckTimeout
  <1>2. pending = Idle /\ pending' = Open("Write", Items(list)) /\ UNCHANGED gcsPlan
    BY <1>1, StoreShape DEF PendingIs, GcsPlanIs
  <1> QED  BY <1>2, SameVehiclePlan, StoreSteps DEF StoreStep

LEMMA ResumeBegins ==
    ASSUME TypeOK, PlansInv, GenerateResumeMission, UNCHANGED vehicleItems
    PROVE  StoreStep
  <1>1. /\ missionItems \in Seq(Entry) /\ missionItems # <<>> /\ transaction = "None"
        /\ \A k \in 1 .. Len(missionItems) : ~IsJump(missionItems[k].item)
    BY DEF TypeOK, ManagerTypeOK, GenerateResumeMission, inProgress
  <1> DEFINE size == Len(missionItems)
             Resumed(n, pos) == [k \in 1 .. n |-> [seq |-> k - 1, item |-> missionItems[pos[k]].item]]
  <1>2. PICK n \in 1 .. size : \E pos \in ResumePositions(n) : StartWrite(Resumed(n, pos))
    BY DEF GenerateResumeMission
  <1>3. PICK pos \in [1 .. n -> 1 .. size] : StartWrite(Resumed(n, pos))
    BY <1>2 DEF ResumePositions
  <1> DEFINE list == Resumed(n, pos)
             plan == Items(missionItems)
  <1>4. plan \in Seq(Item) /\ Len(plan) = size /\ \A k \in 1 .. size : plan[k] = missionItems[k].item
    BY <1>1, PlanType
  <1>5. list \in Seq(Entry)
    <2>1. \A k \in 1 .. n : missionItems[pos[k]].item \in Item
      BY <1>1, EntryFields
    <2>2. \A k \in 1 .. n : [seq |-> k - 1, item |-> missionItems[pos[k]].item] \in Entry
      BY <2>1 DEF Entry
    <2>3. n \in Nat
      BY <1>1
    <2> QED  BY <2>2, <2>3
  <1>6. Items(list) = [k \in 1 .. n |-> plan[pos[k]]]
    <2>1. DOMAIN list = 1 .. n /\ \A k \in 1 .. n : list[k].item = plan[pos[k]]
      BY <1>4
    <2> HIDE DEF list, plan
    <2> QED  BY <2>1 DEF Items
  <1>7. gcsPlan = plan
    BY <1>1, StoreShape DEF GcsPlanIs
  <1> HIDE DEF list, plan
  <1>8. PICK p \in Plans : MadeOf(plan, p)
    BY <1>7 DEF PlansInv
  <1>9. plan # <<>> /\ \A k \in 1 .. Len(plan) : ~IsJump(plan[k])
    BY <1>1, <1>4
  <1>10. Items(list) \in WritePlans
    <2>1. n \in 1 .. Len(plan) /\ pos \in [1 .. n -> 1 .. Len(plan)]
      BY <1>4
    <2>2. [k \in 1 .. n |-> plan[pos[k]]] \in WritePlans
      BY <1>4, <1>8, <1>9, <2>1, ResumedIsPlan
    <2> QED  BY <1>6, <2>2
  <1>11. StartWrite(list)
    BY <1>3 DEF list
  <1> QED  BY <1>1, <1>5, <1>10, <1>11, WriteBegins

LEMMA StartBegins ==
    ASSUME TypeOK, PlansInv, StartTransaction, UNCHANGED vehicleVars
    PROVE  StoreStep
  <1>1. transaction = "None" /\ UNCHANGED vehicleItems
    BY DEF StartTransaction, LoadFromVehicle, WriteMissionItems, GenerateResumeMission, RemoveAll,
           WriteGuidedItem, inProgress, vehicleVars
  <1>2. UNCHANGED vehiclePlan /\ pending = Idle
    BY <1>1, StoreShape, SameVehiclePlan DEF PendingIs
  <1>3. CASE LoadFromVehicle
    <2>1. pending' = Open("Read", <<>>) /\ gcsPlan' = <<>>
      BY <1>3, StoreShape DEF LoadFromVehicle, PendingIs, GcsPlanIs
    <2> QED  BY <1>2, <2>1, StoreSteps DEF StoreStep
  <1>4. CASE WriteMissionItems
    <2>1. PICK p \in EditorPlans : StartWrite(WriteList(p))
      BY <1>4 DEF WriteMissionItems
    <2>2. WriteList(p) \in Seq(Entry)
      BY ManagerAssumption, WriteListType
    <2>3. Items(WriteList(p)) \in WritePlans
      BY <2>2, PlanType, PlanIsPart DEF WritePlans
    <2> QED  BY <1>1, <2>1, <2>2, <2>3, WriteBegins
  <1>5. CASE GenerateResumeMission
    BY <1>1, <1>5, ResumeBegins
  <1>6. CASE RemoveAll
    <2>1. pending' = Open("RemoveAll", <<>>) /\ gcsPlan' = <<>>
      BY <1>6, StoreShape, NoItemsNoPlan DEF RemoveAll, PendingIs, GcsPlanIs
    <2> QED  BY <1>2, <2>1, StoreSteps DEF StoreStep
  <1>7. CASE WriteGuidedItem
    <2>1. pending' = Open("Guided", <<>>) /\ UNCHANGED gcsPlan
      BY <1>1, <1>7, StoreShape DEF WriteGuidedItem, StartAckTimeout, PendingIs, GcsPlanIs
    <2> QED  BY <1>2, <2>1, StoreSteps DEF StoreStep
  <1> QED  BY <1>3, <1>4, <1>5, <1>6, <1>7 DEF StartTransaction

-----------------------------------------------------------------------------
(* Transactions end.                                                          *)

LEMMA TransactionOpen ==
    ASSUME transaction \in Transaction, transaction # "None"
    PROVE  pending # Idle
  BY StoreShape, OpenIsNotIdle DEF PendingIs, Transaction

(* A failure of any kind.                                                     *)
LEMMA FailureEnds ==
    ASSUME TypeOK, transaction # "None", FinishTransaction(FALSE, missionItems), UNCHANGED vehicleItems
    PROVE  StoreStep
  <1>1. transaction' = "None" /\ missionItems' = IF transaction = "Read" THEN <<>> ELSE missionItems
    BY DEF FinishTransaction, ListAfter
  <1>2. pending # Idle /\ pending' = Idle
    BY <1>1, StoreShape, TransactionOpen DEF PendingIs, TypeOK, ManagerTypeOK
  <1>3. UNCHANGED gcsPlan
    BY <1>1, StoreShape, NoItemsNoPlan DEF GcsPlanIs
  <1> QED  BY <1>2, <1>3, SameVehiclePlan, StoreSteps DEF StoreStep

LEMMA GivingUpEnds ==
    ASSUME TypeOK, transaction # "None", NEW ack, GiveUp(ack), UNCHANGED vehicleItems
    PROVE  StoreStep
  BY FailureEnds DEF GiveUp

LEMMA GuidedEnds ==
    ASSUME TypeOK, Guiding, NEW success, FinishGuidedItem(success), UNCHANGED vehicleItems
    PROVE  StoreStep
  <1>1. transaction = "Write" /\ transaction' = "None" /\ missionItems' = missionItems
    BY DEF Guiding, FinishGuidedItem
  <1>2. pending # Idle /\ pending' = Idle /\ UNCHANGED gcsPlan
    BY <1>1, StoreShape, TransactionOpen DEF PendingIs, GcsPlanIs, Transaction
  <1> QED  BY <1>2, SameVehiclePlan, StoreSteps DEF StoreStep

(* The vehicle's plan after a read, as PlanStore decodes it.                  *)
LEMMA DecodedPlan ==
    ASSUME itemCount \in Nat
    PROVE  Items(Downloaded) = [k \in 1 .. Len(vehiclePlan) |-> FromVehicle(vehiclePlan[k])]
  <1>1. DOMAIN Downloaded = 1 .. itemCount
        /\ \A k \in 1 .. itemCount : Downloaded[k].item = FromVehicle(vehicleItems[k - 1])
    BY DEF Downloaded
  <1>2. Len(vehiclePlan) = itemCount /\ \A k \in 1 .. itemCount : vehiclePlan[k] = vehicleItems[k - 1]
    BY DEF vehiclePlan
  <1>3. Items(Downloaded) = [k \in 1 .. itemCount |-> FromVehicle(vehicleItems[k - 1])]
    BY <1>1 DEF Items
  <1> QED  BY <1>2, <1>3

LEMMA ReadSuccessEnds ==
    ASSUME IInv, ReadInv, HandleMissionCount \/ HandleMissionItem, transaction' = "None",
           UNCHANGED vehicleItems
    PROVE  StoreStep
  <1>1. missionItems' = Downloaded /\ transaction = "Read"
    BY ReadSucceeds
  <1>2. itemCount \in Nat
    BY FS_CardinalityType DEF IInv, TypeOK, HandlerTypeOK, itemCount
  <1>3. pending = Open("Read", <<>>) /\ pending' = Idle /\ gcsPlan' = Items(Downloaded)
    BY <1>1, StoreShape DEF PendingIs, GcsPlanIs
  <1> QED  BY <1>2, <1>3, DecodedPlan, OpenIsNotIdle, SameVehiclePlan, StoreSteps DEF StoreStep

(* A write or removal that the vehicle has accepted.                          *)
LEMMA WriteSuccessEnds ==
    ASSUME IInv, WriteInv, PlansInv, HandleMissionAck, expectedAck # "GuidedItem",
           FinishTransaction(TRUE, missionItems), UNCHANGED vehicleItems
    PROVE  StoreStep
  <1>1. writeMissionItems \in Seq(Entry)
    BY DEF IInv, TypeOK, ManagerTypeOK
  <1>2. CASE Writing /\ Stored(Len(writeMissionItems))
    <2> DEFINE plan == Items(writeMissionItems)
    <2>1. vehiclePlan = SubSeq(plan, 1, Len(writeMissionItems))
      <3>1. PICK n \in 0 .. Len(writeMissionItems) : n = Len(writeMissionItems)
        BY <1>1
      <3>2. DOMAIN vehicleItems = 0 .. (n - 1)
            /\ \A k \in 1 .. n : vehicleItems[k - 1] = writeMissionItems[k].item
        BY <1>2, <3>1 DEF Stored
      <3>3. [k \in 1 .. Cardinality(DOMAIN vehicleItems) |-> vehicleItems[k - 1]] = SubSeq(plan, 1, n)
        BY <1>1, <3>2, StoredPlan
      <3> QED  BY <3>1, <3>3 DEF vehiclePlan, itemCount
    <2>2. plan \in Seq(Item) /\ Len(plan) = Len(writeMissionItems)
      BY <1>1, PlanType
    <2>3. vehiclePlan = plan
      <3> HIDE DEF plan
      <3> QED  BY <2>1, <2>2
    <2>4. pending = Open("Write", plan)
      BY <1>2, StoreShape DEF Writing, PendingIs
    <2>5. transaction' = "None" /\ missionItems' = writeMissionItems
      BY <1>2 DEF FinishTransaction, ListAfter, Writing
    <2>6. pending' = Idle /\ gcsPlan' = plan
      BY <2>5, StoreShape DEF PendingIs, GcsPlanIs
    <2> HIDE DEF plan
    <2> QED  BY <2>3, <2>4, <2>6, OpenIsNotIdle, SameVehiclePlan, StoreSteps DEF StoreStep
  <1>3. CASE transaction = "RemoveAll" /\ DOMAIN vehicleItems = {}
    <2>1. pending = Open("RemoveAll", <<>>)
      BY <1>3, StoreShape DEF PendingIs
    <2>2. vehiclePlan = <<>>
      <3>1. itemCount = 0
        BY <1>3, FS_EmptySet DEF itemCount
      <3> QED  BY <3>1 DEF vehiclePlan
    <2>3. gcsPlan = <<>> /\ gcsPlan = Items(missionItems)
      BY <1>3, <2>1, StoreShape, OpenIsNotIdle DEF PlansInv, GcsPlanIs
    <2>4. transaction' = "None" /\ missionItems' = missionItems
      BY <1>3 DEF FinishTransaction, ListAfter
    <2>5. pending' = Idle /\ gcsPlan' = <<>>
      BY <2>3, <2>4, StoreShape DEF PendingIs, GcsPlanIs
    <2> QED  BY <2>1, <2>2, <2>5, OpenIsNotIdle, SameVehiclePlan, StoreSteps DEF StoreStep
  <1> QED  BY <1>2, <1>3, SuccessfulAck

LEMMA AckEnds ==
    ASSUME IInv, WriteInv, PlansInv, HandleMissionAck, UNCHANGED vehicleItems
    PROVE  StoreStep
  <1> DEFINE success == AckMeansSuccess(Head(toGcs).result)
  <1>1. success \in BOOLEAN /\ TypeOK
    BY DEF AckMeansSuccess, IInv
  <1>2. transaction # "None"
    BY DEF HandleMissionAck, Arrives, IInv, WaitsForAnAnswer, inProgress
  <1>3. CASE expectedAck = "GuidedItem"
    <2>1. Guiding
      BY <1>1, <1>2, <1>3 DEF Guiding, IInv, WaitsForAnAnswer, TypeOK, ManagerTypeOK, Transaction
    <2>2. FinishGuidedItem(success)
      BY <1>3 DEF HandleMissionAck
    <2> QED  BY <1>1, <2>1, <2>2, GuidedEnds
  <1>4. CASE expectedAck # "GuidedItem"
    <2>1. FinishTransaction(success, missionItems)
      BY <1>4 DEF HandleMissionAck
    <2> HIDE DEF success
    <2>2. CASE success = TRUE
      BY <1>4, <2>1, <2>2, WriteSuccessEnds
    <2>3. CASE success = FALSE
      BY <1>1, <1>2, <2>1, <2>3, FailureEnds
    <2> QED  BY <1>1, <2>2, <2>3
  <1> QED  BY <1>3, <1>4

-----------------------------------------------------------------------------
(* The ground station's other steps, and the vehicle's.                       *)

LEMMA AnswersImplement ==
    ASSUME IInv, WriteInv, ReadInv, PlansInv, ReceiveFromVehicle, UNCHANGED vehicleVars
    PROVE  StoreStep
  <1>1. TypeOK /\ transaction \in Transaction /\ UNCHANGED vehicleItems
    BY DEF IInv, TypeOK, ManagerTypeOK, vehicleVars
  <1>2. CASE HandleMissionCount \/ HandleMissionItem
    <2>1. transaction = "Read"
      BY <1>2 DEF IInv, WaitsForAnAnswer, HandleMissionCount, HandleMissionItem, Arrives, inProgress,
             TypeOK, ManagerTypeOK, Transaction
    <2>2. CASE transaction' = "None"
      BY <1>1, <1>2, <2>2, ReadSuccessEnds
    <2>3. CASE transaction' # "None"
      <3>1. UNCHANGED <<transaction, writeMissionItems>>
        BY <1>2, <2>3 DEF HandleMissionCount, HandleMissionItem, DisregardMissionItem, TakeMissionItem,
               ContinueRead, ReadTransactionComplete, FinishTransaction
      <3> QED  BY <1>1, <2>1, <3>1, StoreStutters
    <2> QED  BY <2>2, <2>3
  <1>3. CASE HandleHomePosition \/ IgnoreMessage
    <2>1. UNCHANGED <<transaction, writeMissionItems, missionItems, expectedAck>>
      BY <1>3 DEF HandleHomePosition, IgnoreMessage
    <2> QED  BY <1>1, <2>1, StoreStutters
  <1>4. CASE HandleMissionRequest
    <2>1. transaction # "None" /\ expectedAck = "MissionRequest"
      BY <1>4 DEF HandleMissionRequest, Arrives, IInv, WaitsForAnAnswer, inProgress
    <2>2. ASSUME NEW s, SendRequestedItem(s)
          PROVE  StoreStep
      <3>1. /\ UNCHANGED <<transaction, writeMissionItems, missionItems>>
            /\ expectedAck' = "MissionRequest"
        BY <2>2 DEF SendRequestedItem, StartAckTimeout
      <3> QED  BY <1>1, <2>1, <3>1, StoreStutters
    <2>3. ASSUME NEW s, RefuseRequestedItem(s)
          PROVE  StoreStep
      BY <1>1, <2>1, <2>3, FailureEnds DEF RefuseRequestedItem
    <2> QED  BY <1>4, <2>2, <2>3 DEF HandleMissionRequest
  <1>5. CASE HandleMissionAck
    BY <1>1, <1>5, AckEnds
  <1> QED  BY <1>2, <1>3, <1>4, <1>5 DEF ReceiveFromVehicle

LEMMA TimeoutsImplement ==
    ASSUME IInv, AckTimeout, UNCHANGED vehicleVars
    PROVE  StoreStep
  <1>1. TypeOK /\ transaction \in Transaction /\ UNCHANGED vehicleItems
    BY DEF IInv, TypeOK, ManagerTypeOK, vehicleVars
  <1>2. timerRunning /\ transaction # "None"
    BY DEF AckTimeout, MissionCountTimeout, MissionItemTimeout, MissionRequestTimeout,
           ClearAllTimeout, GuidedItemTimeout, TimerFires, IInv, WaitsForAnAnswer, inProgress
  <1>3. ASSUME NEW ack, GiveUp(ack)
        PROVE  StoreStep
    BY <1>1, <1>2, <1>3, GivingUpEnds
  <1>4. CASE \A ack : ~GiveUp(ack)
    <2>1. PICK ack : Retry(ack) /\ expectedAck = ack
      BY <1>4 DEF AckTimeout, MissionCountTimeout, MissionItemTimeout, MissionRequestTimeout,
             ClearAllTimeout, GuidedItemTimeout, TimerFires
    <2>2. UNCHANGED <<transaction, writeMissionItems, expectedAck>>
      BY <2>1 DEF Retry, StartAckTimeout
    <2>3. missionItems' = missionItems \/ expectedAck = "MissionCount"
      BY <1>4 DEF AckTimeout, MissionCountTimeout, MissionItemTimeout, MissionRequestTimeout,
             ClearAllTimeout, GuidedItemTimeout, TimerFires
    <2>4. expectedAck = "MissionCount" => transaction = "Read"
      BY <1>1, <1>2 DEF IInv, WaitsForAnAnswer, Transaction
    <2> QED  BY <1>1, <2>2, <2>3, <2>4, StoreStutters
  <1> QED  BY <1>3, <1>4

(* The vehicle's steps in these terms.                                        *)
LEMMA VehicleOnly ==
    ASSUME ManagerRests
    PROVE  UNCHANGED <<gcsPlan, pending>>
  BY DEF ManagerRests, gcsPlan, pending, OpenTransaction

LEMMA VehicleStoresPlan ==
    ASSUME ManagerRests, NEW plan \in Seq(Item), NEW n \in 0 .. Len(plan),
           NEW op \in {"Write", "RemoveAll"}, pending = Open(op, plan),
           vehiclePlan' = SubSeq(plan, 1, n)
    PROVE  StoreStep
  <1>1. Store!VehicleStores
    <2>1. pending.op \in {"Write", "RemoveAll"} /\ pending.plan = plan
      BY OpenIsNotIdle
    <2> QED  BY <2>1, VehicleOnly, StoreSteps
  <1> QED  BY <1>1, StoreSteps DEF StoreStep

LEMMA NothingHeld ==
    ASSUME vehicleItems' = noItems
    PROVE  vehiclePlan' = <<>>
  <1> DEFINE items == vehicleItems'
  <1>1. DOMAIN items = {}
    BY DEF noItems
  <1>2. vehiclePlan' = [k \in 1 .. Cardinality(DOMAIN items) |-> items[k - 1]]
    BY DEF vehiclePlan, itemCount
  <1> HIDE DEF items
  <1>3. [k \in 1 .. Cardinality(DOMAIN items) |-> items[k - 1]] = <<>>
    BY <1>1, FS_EmptySet
  <1> QED  BY <1>2, <1>3

LEMMA VehicleImplements ==
    ASSUME TypeOK, WriteInv, ReadInv, VehicleStep
    PROVE  StoreStep
  <1>1. ManagerRests /\ writeMissionItems \in Seq(Entry)
    BY DEF VehicleStep, TypeOK, ManagerTypeOK
  <1>2. ASSUME UNCHANGED vehicleItems
        PROVE  StoreStep
    BY <1>1, <1>2, VehicleOnly, SameVehiclePlan DEF StoreStep
  <1>3. CASE HandleMissionCountWrite
    <2>1. /\ toVehicle # <<>> /\ toVehicle' = Tail(toVehicle) /\ Asks(Head(toVehicle))
          /\ Head(toVehicle).type = "COUNT" /\ vehicleItems' = noItems
      BY <1>3 DEF HandleMissionCountWrite, Takes, Asks
    <2>2. Writing
      BY <2>1, AskTaken DEF AskFits
    <2>3. PICK plan : plan = Items(writeMissionItems)
      OBVIOUS
    <2>4. pending = Open("Write", plan) /\ plan \in Seq(Item)
      BY <1>1, <2>2, <2>3, StoreShape, PlanType DEF Writing, PendingIs
    <2>5. vehiclePlan' = SubSeq(plan, 1, 0) /\ 0 \in 0 .. Len(plan)
      BY <2>1, <2>4, NothingHeld
    <2> QED  BY <1>1, <2>4, <2>5, VehicleStoresPlan
  <1>4. CASE HandleMissionItemWrite
    <2>1. /\ toVehicle # <<>> /\ toVehicle' = Tail(toVehicle) /\ Asks(Head(toVehicle))
          /\ Head(toVehicle).type = "ITEM"
      BY <1>4 DEF HandleMissionItemWrite, Takes, Asks
    <2>2. AskFits(Head(toVehicle)) /\ Head(toVehicle) \in ToVehicleMessage
      BY <2>1, AskTaken
    <2>3. PICK n \in Nat : n = Head(toVehicle).seq
      BY <2>1, <2>2, ToVehicleFields
    <2>4. /\ Writing /\ Stored(n) /\ n < Len(writeMissionItems)
          /\ Head(toVehicle).item = writeMissionItems[n + 1].item
      BY <2>1, <2>2, <2>3 DEF AskFits, Awaits
    <2>5. vehicleItems' = WithItem(vehicleItems, n, writeMissionItems[n + 1].item)
      BY <1>4, <2>3, <2>4 DEF HandleMissionItemWrite
    <2>6. writeMissionItems' = writeMissionItems
      BY <1>1 DEF ManagerRests
    <2>7. Stored(n + 1)'
      BY <2>4, <2>5, <2>6, ItemIsStored
    <2>8. PICK plan : plan = Items(writeMissionItems)
      OBVIOUS
    <2>9. pending = Open("Write", plan) /\ plan \in Seq(Item) /\ Len(plan) = Len(writeMissionItems)
      BY <1>1, <2>4, <2>8, StoreShape, PlanType DEF Writing, PendingIs
    <2>10. n + 1 \in 0 .. Len(writeMissionItems)
      BY <1>1, <2>4
    <2>11. vehiclePlan' = SubSeq(plan, 1, n + 1)
      <3> DEFINE items == vehicleItems'
      <3>1. /\ DOMAIN items = 0 .. ((n + 1) - 1)
            /\ \A k \in 1 .. (n + 1) : items[k - 1] = writeMissionItems[k].item
        BY <2>6, <2>7 DEF Stored
      <3>2. vehiclePlan' = [k \in 1 .. Cardinality(DOMAIN items) |-> items[k - 1]]
        BY DEF vehiclePlan, itemCount
      <3> HIDE DEF items
      <3>3. PICK m \in 0 .. Len(writeMissionItems) : m = n + 1
        BY <2>10
      <3>4. [k \in 1 .. Cardinality(DOMAIN items) |-> items[k - 1]] = SubSeq(plan, 1, m)
        BY <1>1, <2>8, <3>1, <3>3, StoredPlan
      <3> QED  BY <3>2, <3>3, <3>4
    <2>12. n + 1 \in 0 .. Len(plan)
      BY <2>9, <2>10
    <2> QED  BY <1>1, <2>9, <2>11, <2>12, VehicleStoresPlan
  <1>5. CASE HandleMissionClearAll
    <2>1. /\ toVehicle # <<>> /\ toVehicle' = Tail(toVehicle) /\ Asks(Head(toVehicle))
          /\ Head(toVehicle).type = "CLEAR_ALL" /\ vehicleItems' = noItems
      BY <1>5 DEF HandleMissionClearAll, Takes, Asks
    <2>2. transaction = "RemoveAll"
      BY <2>1, AskTaken DEF AskFits
    <2>3. PICK plan : plan = <<>>
      OBVIOUS
    <2>4. pending = Open("RemoveAll", plan) /\ plan \in Seq(Item)
      BY <2>2, <2>3, StoreShape DEF PendingIs
    <2>5. vehiclePlan' = SubSeq(plan, 1, 0) /\ 0 \in 0 .. Len(plan)
      BY <2>1, <2>3, NothingHeld
    <2> QED  BY <1>1, <2>4, <2>5, VehicleStoresPlan
  <1>6. CASE HandleMissionRequestRead
    BY <1>2, <1>6, RequestedIsHeld
  <1> QED  BY <1>2, <1>3, <1>4, <1>5, <1>6 DEF VehicleStep, ReceiveFromGcs, HandleMissionRequestList,
                  HandleMissionAckRead, HandleGuidedItem

LEMMA StepImplements ==
    ASSUME IInv, WriteInv, ReadInv, PlansInv, [Next]_vars
    PROVE  StoreStep
  <1>1. TypeOK
    BY DEF IInv
  <1>2. CASE ManagerStep
    BY <1>1, <1>2, StartBegins, AnswersImplement, TimeoutsImplement DEF ManagerStep
  <1>3. CASE VehicleStep
    BY <1>1, <1>3, VehicleImplements
  <1>4. CASE LinkStep
    BY <1>4, VehicleOnly, SameVehiclePlan DEF LinkStep, vehicleVars, StoreStep
  <1>5. CASE UNCHANGED vars
    BY <1>5 DEF vars, linkVars, managerVars, vehicleVars, StoreStep, gcsPlan, vehiclePlan, pending,
                OpenTransaction, itemCount
  <1> QED  BY <1>2, <1>3, <1>4, <1>5 DEF Next

LEMMA InitImplements ==
    ASSUME Init
    PROVE  Store!StoreInit /\ PlansInv
  <1>1. transaction = "None" /\ missionItems = <<>> /\ vehicleItems = noItems
    BY DEF Init, ManagerInit, HandlerInit
  <1>2. gcsPlan = <<>> /\ pending = Idle
    BY <1>1, StoreShape, NoItemsNoPlan DEF PendingIs, GcsPlanIs
  <1>3. vehiclePlan = <<>>
    <2>1. itemCount = 0
      BY <1>1, FS_EmptySet DEF itemCount, noItems
    <2> QED  BY <2>1 DEF vehiclePlan
  <1>4. PlansInv
    BY <1>2, <1>3, PlanIsMadeOf, OpenIsNotIdle DEF PlansInv, Plans
  <1> QED  BY <1>2, <1>3, <1>4, StoreSteps

THEOREM PlansInvariant ==
    ASSUME ReadConditions
    PROVE  Spec => []PlansInv
  <1>1. Init => PlansInv
    BY InitImplements
  <1>2. IInv /\ WriteInv /\ ReadInv /\ PlansInv /\ [Next]_vars => PlansInv'
    BY StepImplements, StoreKeepsPlans
  <1>3. Spec => []WriteInv /\ []ReadInv
    BY ReadConditionsSuffice, WriteInvariant, ReadInvariant
  <1> QED  BY <1>1, <1>2, <1>3, Invariant, PTL DEF Spec

(* Whatever the link loses, however the item timer and the vehicle's answers  *)
(* interleave: the transfer does nothing PlanStore does not do.  A transaction *)
(* either moves the whole list between the two ends or is reported as failed; *)
(* the vehicle never holds anything but the beginning of a plan written.      *)
THEOREM TransferImplementsStore ==
    ASSUME ReadConditions
    PROVE  Spec => ImplementsStore
  <1>1. Init => Store!StoreInit
    BY InitImplements
  <1>2. IInv /\ WriteInv /\ ReadInv /\ PlansInv /\ [Next]_vars => [Store!StoreNext]_(Store!storeVars)
    BY StepImplements, StoreSteps DEF StoreStep
  <1>3. Spec => []WriteInv /\ []ReadInv
    BY ReadConditionsSuffice, WriteInvariant, ReadInvariant
  <1> QED  BY <1>1, <1>2, <1>3, Invariant, PlansInvariant, PTL DEF Spec, ImplementsStore, Store!StoreSpec
=============================================================================
