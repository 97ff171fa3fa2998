----------------------------- MODULE PlanManager -----------------------------
(* PlanManager.cc and the transactions of its subclass MissionManager.cc:    *)
(* the ground station's end of one plan transfer.  One transaction at a time *)
(* (read, write, remove all, guided item); each sends one message, arms the  *)
(* single-shot ack timer, and waits for the answer.                          *)
EXTENDS MissionProtocol

CONSTANTS
    EditorPlans,       \* the item lists the controllers may hand over
    IsMission,         \* _planType = MAV_MISSION_TYPE_MISSION
    SendHomePosition,  \* firmwarePlugin()->sendHomePositionToVehicle()
    ApmFirmware,       \* _vehicle->apmFirmware()
    MaxRetryCount,     \* _maxRetryCount (5 in the code)
    LateAcks           \* the waits whose timer may fire with the answer still
                       \* on its way; the other timers outlast the round trip

VARIABLES
    expectedAck,         \* _expectedAck
    timerRunning,        \* _ackTimeoutTimer is active
    transaction,         \* _transactionInProgress
    retryCount,          \* _retryCount, not set by the constructor
    indicesToWrite,      \* _itemIndicesToWrite; ascending, so a set
    indicesToRead,       \* _itemIndicesToRead; ascending, so a set
    missionItems,        \* _missionItems
    writeMissionItems,   \* _writeMissionItems
    resumeMission,       \* _resumeMission
    connected,           \* _mavlinkMessageReceived is connected to the vehicle
    signals              \* what the last step emitted, with its error argument

managerVars == <<expectedAck, timerRunning, transaction, retryCount, indicesToWrite,
                 indicesToRead, missionItems, writeMissionItems, resumeMission,
                 connected, signals>>

AckType == {"None", "MissionCount", "MissionItem", "MissionRequest",
            "MissionClearAll", "GuidedItem"}

Transaction == {"None", "Read", "Write", "RemoveAll"}

Signal == {"newMissionItemsAvailable", "sendComplete", "removeAllComplete",
           "resumeMissionReady", "resumeMissionUploadFail", "error", "homePosition"}

(* A MissionItem of the manager's lists, with its sequence number.            *)
Entry == [seq : Nat, item : Item]

ASSUME ManagerAssumption ==
    /\ EditorPlans \subseteq Seq(Item)
    /\ IsMission \in BOOLEAN /\ SendHomePosition \in BOOLEAN /\ ApmFirmware \in BOOLEAN
    /\ MaxRetryCount \in Nat
    /\ LateAcks \subseteq AckType

ManagerTypeOK ==
    /\ expectedAck \in AckType
    /\ timerRunning \in BOOLEAN
    /\ transaction \in Transaction
    /\ retryCount \in 0 .. (MaxRetryCount + 1)
    /\ indicesToWrite \in SUBSET Nat
    /\ indicesToRead \in SUBSET Nat
    /\ missionItems \in Seq(Entry)
    /\ writeMissionItems \in Seq(Entry)
    /\ resumeMission \in BOOLEAN
    /\ connected \in BOOLEAN
    /\ signals \in SUBSET (Signal \X BOOLEAN)

ManagerInit ==
    /\ expectedAck = "None"
    /\ timerRunning = FALSE
    /\ transaction = "None"
    /\ retryCount \in {0, MaxRetryCount + 1}
    /\ indicesToWrite = {}
    /\ indicesToRead = {}
    /\ missionItems = <<>>
    /\ writeMissionItems = <<>>
    /\ resumeMission = FALSE
    /\ connected = FALSE
    /\ signals = {}

inProgress == transaction # "None"

-----------------------------------------------------------------------------
(* Helpers shared by the handlers.                                           *)

(* The lowest index is the list's first, _itemIndicesToRead[0].               *)
First(indices) == CHOOSE i \in indices : \A j \in indices : i <= j

StartAckTimeout(ack) ==
    /\ expectedAck' = ack
    /\ timerRunning' = TRUE

StopAckTimeout ==
    /\ expectedAck' = "None"
    /\ timerRunning' = FALSE

SendToVehicle(m) == toVehicle' = Sent(toVehicle, m)

(* DO_JUMP param1 follows the numbering: the vehicle counts without home.     *)
Shifted(i, by) == IF IsJump(i) THEN [i EXCEPT !.param1 = @ + by] ELSE i

FromVehicle(i) == IF SendHomePosition THEN i ELSE Shifted(i, 1)

skipFirstItem == IsMission /\ ~SendHomePosition

(* The write list made of the caller's items: home, item 0, stays behind on   *)
(* firmware that does not take it, and the others move down by one.           *)
WriteList(items) ==
    IF skipFirstItem
    THEN [k \in 1 .. (Len(items) - 1) |-> [seq |-> k - 1, item |-> Shifted(items[k + 1], -1)]]
    ELSE [k \in 1 .. Len(items) |-> [seq |-> k - 1, item |-> items[k]]]

CompletionSignals(success) ==
    (CASE transaction = "Read"      -> {<<"newMissionItemsAvailable", FALSE>>}
       [] transaction = "Write"     -> {<<"sendComplete", ~success>>}
       [] transaction = "RemoveAll" -> {<<"removeAllComplete", ~success>>}
       [] OTHER                     -> {})

ResumeSignals(success) ==
    IF ~resumeMission THEN {}
    ELSE IF success THEN {<<"resumeMissionReady", FALSE>>}
    ELSE {<<"resumeMissionUploadFail", TRUE>>}

ErrorSignal(success) == IF success THEN {} ELSE {<<"error", TRUE>>}

(* _missionItems after the transaction, with items its content before.        *)
KeepPartialRead(success, items) ==   \* mutant: a failed read keeps what it got
    IF transaction = "Write" /\ success THEN writeMissionItems ELSE items
ListAfter(success, items) ==
    CASE transaction = "Read" /\ ~success  -> <<>>
      [] transaction = "Write" /\ success  -> writeMissionItems
      [] OTHER                             -> items

(* _finishTransaction(success) with items the current content of              *)
(* _missionItems.  Disconnects, forgets the open indices and the transaction, *)
(* settles the two item lists and emits the completion signals.               *)
FinishTransaction(success, items) ==
    /\ connected' = FALSE
    /\ indicesToRead' = {}
    /\ indicesToWrite' = {}
    /\ transaction' = "None"
    /\ missionItems' = ListAfter(success, items)
    /\ writeMissionItems' = IF transaction = "Write" THEN <<>> ELSE writeMissionItems
    /\ resumeMission' = FALSE
    /\ signals' = CompletionSignals(success) \cup ResumeSignals(success) \cup ErrorSignal(success)

(* _finishTransaction(success, true): the reply to a guided item touches      *)
(* neither list and emits no sendComplete.                                    *)
FinishGuidedItem(success) ==
    /\ connected' = FALSE
    /\ indicesToRead' = {}
    /\ indicesToWrite' = {}
    /\ transaction' = "None"
    /\ resumeMission' = FALSE
    /\ signals' = ResumeSignals(success) \cup ErrorSignal(success)
    /\ UNCHANGED <<missionItems, writeMissionItems>>

-----------------------------------------------------------------------------
(* Operations the controllers and the firmware plugins call.                 *)

SendRequestList == SendToVehicle([type |-> "REQUEST_LIST"])
SendMissionCount(n) == SendToVehicle([type |-> "COUNT", count |-> n])
SendClearAll == SendToVehicle([type |-> "CLEAR_ALL"])

KeepMissionItems == indicesToRead' = {} /\ UNCHANGED missionItems   \* mutant: stale list
ClearMissionItems == indicesToRead' = {} /\ missionItems' = <<>>

LoadFromVehicle ==
    /\ ~inProgress
    /\ retryCount' = 0
    /\ transaction' = "Read"
    /\ connected' = TRUE
    /\ ClearMissionItems
    /\ SendRequestList
    /\ StartAckTimeout("MissionCount")
    /\ signals' = {}
    /\ UNCHANGED <<indicesToWrite, writeMissionItems, resumeMission, toGcs, noise>>

(* _writeMissionItemsWorker on a write list.                                  *)
StartWrite(list) ==
    /\ writeMissionItems' = list
    /\ indicesToWrite' = 0 .. (Len(list) - 1)
    /\ retryCount' = 0
    /\ transaction' = "Write"
    /\ connected' = TRUE
    /\ SendMissionCount(Len(list))
    /\ StartAckTimeout("MissionRequest")
    /\ signals' = {}
    /\ UNCHANGED <<indicesToRead, missionItems, toGcs, noise>>

WriteMissionItems ==
    /\ ~inProgress
    /\ \E items \in EditorPlans : StartWrite(WriteList(items))
    /\ UNCHANGED resumeMission

(* generateResumeMission: everything from the resume index on, home first if  *)
(* the firmware takes it, and those commands of the part already flown that   *)
(* survive the command filter and the removal of duplicates.  pos lists the   *)
(* positions kept.                                                            *)
ResumePositions(n) ==
    LET size == Len(missionItems) IN
    {pos \in [1 .. n -> 1 .. size] :
        /\ \A j, k \in 1 .. n : j < k => pos[j] < pos[k]
        /\ pos[n] = size
        /\ SendHomePosition => pos[1] = 1}

GenerateResumeMission ==
    /\ IsMission
    /\ ~inProgress
    /\ missionItems # <<>>
    /\ \A k \in 1 .. Len(missionItems) : ~IsJump(missionItems[k].item)
    /\ \E n \in 1 .. Len(missionItems) : \E pos \in ResumePositions(n) :
          StartWrite([k \in 1 .. n |-> [seq |-> k - 1, item |-> missionItems[pos[k]].item]])
    /\ resumeMission' = TRUE

(* removeAll empties the list at once, before the vehicle has answered.       *)
RemoveAll ==
    /\ ~inProgress
    /\ missionItems' = <<>>
    /\ retryCount' = 0
    /\ transaction' = "RemoveAll"
    /\ connected' = TRUE
    /\ SendClearAll
    /\ StartAckTimeout("MissionClearAll")
    /\ signals' = {}
    /\ UNCHANGED <<indicesToWrite, indicesToRead, writeMissionItems, resumeMission, toGcs, noise>>

(* writeArduPilotGuidedMissionItem does not touch _retryCount.                *)
WriteGuidedItem ==
    /\ IsMission /\ ApmFirmware
    /\ ~inProgress
    /\ transaction' = "Write"
    /\ connected' = TRUE
    /\ SendToVehicle([type |-> "GUIDED_ITEM"])
    /\ StartAckTimeout("GuidedItem")
    /\ signals' = {}
    /\ UNCHANGED <<retryCount, indicesToWrite, indicesToRead, missionItems,
                   writeMissionItems, resumeMission, toGcs, noise>>

-----------------------------------------------------------------------------
(* Messages from the vehicle.                                                *)

AnyPlan(m) == TRUE   \* mutant: mission_type is not compared
ForThisPlan(m) == m.own

(* The oldest message from the vehicle is a type message for this manager.    *)
Arrives(type) ==
    /\ toGcs # <<>> /\ connected
    /\ Head(toGcs).type = type
    /\ ForThisPlan(Head(toGcs))
    /\ toGcs' = Tail(toGcs)
    /\ UNCHANGED noise

(* _requestNextMissionItem, with left the indices still to be read.           *)
RequestNextMissionItem(left) ==
    /\ SendToVehicle([type |-> "REQUEST", seq |-> First(left)])
    /\ StartAckTimeout("MissionItem")

ReadTransactionComplete(items) ==
    /\ SendToVehicle([type |-> "ACK"])
    /\ StopAckTimeout
    /\ FinishTransaction(TRUE, items)

ContinueRead(left, items) ==
    /\ RequestNextMissionItem(left)
    /\ indicesToRead' = left
    /\ missionItems' = items
    /\ signals' = {}
    /\ UNCHANGED <<transaction, indicesToWrite, writeMissionItems, resumeMission, connected>>

IndicesFromOne(count) == 1 .. count   \* mutant: as if home took sequence 0
IndicesOf(count) == 0 .. (count - 1)

HandleMissionCount ==
    /\ Arrives("COUNT")
    /\ expectedAck = "MissionCount"
    /\ retryCount' = 0
    /\ LET count == Head(toGcs).count IN
       \/ count = 0 /\ ReadTransactionComplete(missionItems)
       \/ count > 0 /\ ContinueRead(IndicesOf(count), missionItems)

AnySequence(seq) == TRUE   \* mutant: repeated items are taken again
Wanted(seq) == seq \in indicesToRead

(* An item that was not asked for restarts the timer the check has stopped.   *)
DisregardUntimed ==   \* mutant: the timer stays stopped
    /\ ~Wanted(Head(toGcs).seq)
    /\ StopAckTimeout
    /\ signals' = {}
    /\ UNCHANGED <<retryCount, transaction, indicesToWrite, indicesToRead, missionItems,
                   writeMissionItems, resumeMission, connected, toVehicle>>
DisregardMissionItem ==
    /\ ~Wanted(Head(toGcs).seq)
    /\ StartAckTimeout("MissionItem")
    /\ signals' = {}
    /\ UNCHANGED <<retryCount, transaction, indicesToWrite, indicesToRead, missionItems,
                   writeMissionItems, resumeMission, connected, toVehicle>>

TakeMissionItem ==
    LET m     == Head(toGcs)
        left  == indicesToRead \ {m.seq}
        items == Append(missionItems, [seq |-> m.seq, item |-> FromVehicle(m.item)])
    IN  /\ Wanted(m.seq)
        /\ retryCount' = 0
        /\ \/ left = {} /\ ReadTransactionComplete(items)
           \/ left # {} /\ ContinueRead(left, items)

HandleMissionItem ==
    /\ Arrives("ITEM")
    /\ expectedAck = "MissionItem"
    /\ DisregardMissionItem \/ TakeMissionItem

(* ArduPilot reports a new home by an unsolicited item 0.                     *)
HandleHomePosition ==
    /\ Arrives("ITEM")
    /\ expectedAck # "MissionItem"
    /\ ApmFirmware /\ IsMission /\ Head(toGcs).seq = 0
    /\ signals' = {<<"homePosition", FALSE>>}
    /\ UNCHANGED <<expectedAck, timerRunning, transaction, retryCount, indicesToWrite,
                   indicesToRead, missionItems, writeMissionItems, resumeMission,
                   connected, toVehicle>>

(* Also answers a request for an item that has been sent before.              *)
SendRequestedItem(seq) ==
    /\ seq < Len(writeMissionItems)
    /\ SendToVehicle([type |-> "ITEM", seq |-> seq, item |-> writeMissionItems[seq + 1].item])
    /\ StartAckTimeout("MissionRequest")
    /\ indicesToWrite' = indicesToWrite \ {seq}
    /\ signals' = {}
    /\ UNCHANGED <<transaction, indicesToRead, missionItems, writeMissionItems,
                   resumeMission, connected>>

RefuseRequestedItem(seq) ==
    /\ seq >= Len(writeMissionItems)
    /\ StopAckTimeout
    /\ FinishTransaction(FALSE, missionItems)
    /\ UNCHANGED toVehicle

HandleMissionRequest ==
    /\ Arrives("REQUEST")
    /\ expectedAck = "MissionRequest"
    /\ SendRequestedItem(Head(toGcs).seq) \/ RefuseRequestedItem(Head(toGcs).seq)
    /\ UNCHANGED retryCount

(* What an ack of each result means for the wait it ends.                     *)
AnyAcceptedAck(result) == result = "ACCEPTED"   \* mutant: open indices do not matter
AckMeansSuccess(result) ==
    /\ result = "ACCEPTED"
    /\ \/ expectedAck = "MissionRequest" /\ indicesToWrite = {}
       \/ expectedAck \in {"MissionClearAll", "GuidedItem"}

IgnoredAck(m) == ApmFirmware /\ m.result = "INVALID_SEQUENCE"

HandleMissionAck ==
    /\ Arrives("ACK")
    /\ ~IgnoredAck(Head(toGcs))
    /\ expectedAck # "None"
    /\ StopAckTimeout
    /\ LET success == AckMeansSuccess(Head(toGcs).result) IN
       \/ expectedAck = "GuidedItem" /\ FinishGuidedItem(success)
       \/ expectedAck # "GuidedItem" /\ FinishTransaction(success, missionItems)
    /\ UNCHANGED <<retryCount, toVehicle>>

(* Nobody is connected, the type is foreign, or the wait is for another kind. *)
Unexpected(m) ==
    \/ ~connected
    \/ ~ForThisPlan(m)
    \/ m.type = "COUNT" /\ expectedAck # "MissionCount"
    \/ /\ m.type = "ITEM" /\ expectedAck # "MissionItem"
       /\ ~(ApmFirmware /\ IsMission /\ m.seq = 0)
    \/ m.type = "REQUEST" /\ expectedAck # "MissionRequest"
    \/ m.type = "ACK" /\ (IgnoredAck(m) \/ expectedAck = "None")

IgnoreMessage ==
    /\ toGcs # <<>> /\ Unexpected(Head(toGcs))
    /\ toGcs' = Tail(toGcs)
    /\ signals' = {}
    /\ UNCHANGED <<expectedAck, timerRunning, transaction, retryCount, indicesToWrite,
                   indicesToRead, missionItems, writeMissionItems, resumeMission,
                   connected, toVehicle, noise>>

ReceiveFromVehicle ==
    \/ HandleMissionCount
    \/ HandleMissionItem
    \/ HandleHomePosition
    \/ HandleMissionRequest
    \/ HandleMissionAck
    \/ IgnoreMessage

-----------------------------------------------------------------------------
(* The ack timer.                                                            *)

TimerFires(ack) ==
    /\ timerRunning
    /\ expectedAck = ack
    /\ ack \in LateAcks \/ Quiet
    /\ UNCHANGED <<toGcs, noise>>

(* The test is >, so the answer is asked for MaxRetryCount + 2 times in all.  *)
retriesForEver == TRUE   \* mutant: no limit
mayRetry == retryCount <= MaxRetryCount

RetryUncounted(ack) ==   \* mutant: _retryCount is not incremented
    /\ mayRetry
    /\ StartAckTimeout(ack)
    /\ signals' = {}
    /\ UNCHANGED <<retryCount, transaction, indicesToWrite, writeMissionItems, resumeMission>>
Retry(ack) ==
    /\ mayRetry
    /\ retryCount' = retryCount + 1
    /\ StartAckTimeout(ack)
    /\ signals' = {}
    /\ UNCHANGED <<transaction, indicesToWrite, writeMissionItems, resumeMission>>

(* The timer is single shot.  Only some branches reset _expectedAck.          *)
GiveUp(ackAfterwards) ==
    /\ timerRunning' = FALSE
    /\ expectedAck' = ackAfterwards
    /\ FinishTransaction(FALSE, missionItems)
    /\ UNCHANGED <<retryCount, toVehicle>>

MissionCountTimeout ==
    /\ TimerFires("MissionCount")
    /\ \/ ~mayRetry /\ GiveUp("MissionCount")
       \/ /\ Retry("MissionCount")
          /\ SendRequestList
          /\ ClearMissionItems
          /\ UNCHANGED connected

MissionItemTimeout ==
    /\ TimerFires("MissionItem")
    /\ \/ ~mayRetry /\ GiveUp("MissionItem")
       \/ /\ Retry("MissionItem")
          /\ SendToVehicle([type |-> "REQUEST", seq |-> First(indicesToRead)])
          /\ UNCHANGED <<indicesToRead, missionItems, connected>>

(* Only MISSION_COUNT is repeated, and only while item 0 is still unsent.     *)
MissionRequestTimeout ==
    /\ TimerFires("MissionRequest")
    /\ \/ indicesToWrite = {} /\ GiveUp("MissionRequest")
       \/ indicesToWrite # {} /\ 0 \notin indicesToWrite /\ GiveUp("None")
       \/ 0 \in indicesToWrite /\ ~mayRetry /\ GiveUp("MissionRequest")
       \/ /\ 0 \in indicesToWrite
          /\ Retry("MissionRequest")
          /\ SendMissionCount(Len(writeMissionItems))
          /\ UNCHANGED <<indicesToRead, missionItems, connected>>

ClearAllTimeout ==
    /\ TimerFires("MissionClearAll")
    /\ \/ ~mayRetry /\ GiveUp("MissionClearAll")
       \/ /\ Retry("MissionClearAll")
          /\ SendClearAll
          /\ connected' = TRUE
          /\ UNCHANGED <<indicesToRead, missionItems>>

(* Finishes as an ordinary write: the guided flag is not passed.              *)
GuidedItemTimeout ==
    /\ TimerFires("GuidedItem")
    /\ GiveUp("None")

AckTimeout ==
    \/ MissionCountTimeout
    \/ MissionItemTimeout
    \/ MissionRequestTimeout
    \/ ClearAllTimeout
    \/ GuidedItemTimeout

StartTransaction ==
    \/ LoadFromVehicle
    \/ WriteMissionItems
    \/ GenerateResumeMission
    \/ RemoveAll
    \/ WriteGuidedItem

=============================================================================
