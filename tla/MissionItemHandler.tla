-------------------------- MODULE MissionItemHandler --------------------------
(* MockLinkMissionItemHandler.cc: the vehicle's end of the mission protocol, *)
(* for one mission type, with the failures its FailureMode_t injects.        *)
EXTENDS MissionProtocol, FiniteSets

CONSTANTS
    FailureModes,     \* the failure modes a behaviour may be run under
    EarlyAckIndex     \* where FailWriteFinalAckMissingRequests acks (3 in the code)

VARIABLES
    vehicleItems,        \* _missionItems, a QMap from sequence number to item
    writeSequenceCount,  \* _writeSequenceCount
    writeSequenceIndex,  \* _writeSequenceIndex
    failureMode,         \* _failureMode
    failFirstResponse    \* the _fail...FirstResponse flag of the failure mode

vehicleVars == <<vehicleItems, writeSequenceCount, writeSequenceIndex, failureMode,
                 failFirstResponse>>

FailureMode == {"None",
    "ReadRequestListNoResponse", "ReadRequestListFirstResponse",
    "ReadRequest0NoResponse", "ReadRequest1NoResponse", "ReadRequest1FirstResponse",
    "ReadRequest0IncorrectSequence", "ReadRequest1IncorrectSequence",
    "ReadRequest0ErrorAck", "ReadRequest1ErrorAck",
    "WriteMissionCountNoResponse", "WriteMissionCountFirstResponse",
    "WriteRequest1NoResponse",
    "WriteRequest0IncorrectSequence", "WriteRequest1IncorrectSequence",
    "WriteRequest0ErrorAck", "WriteRequest1ErrorAck",
    "WriteFinalAckNoResponse", "WriteFinalAckErrorAck", "WriteFinalAckMissingRequests"}

ASSUME HandlerAssumption ==
    /\ FailureModes \subseteq FailureMode
    /\ EarlyAckIndex \in Nat

HandlerTypeOK ==
    /\ DOMAIN vehicleItems \in SUBSET Nat /\ IsFiniteSet(DOMAIN vehicleItems)
    /\ \A s \in DOMAIN vehicleItems : vehicleItems[s] \in Item
    /\ writeSequenceCount \in Nat
    /\ writeSequenceIndex \in Nat
    /\ failureMode \in FailureModes
    /\ failFirstResponse \in BOOLEAN

noItems == [s \in {} |-> BlankItem]

HandlerInit ==
    /\ vehicleItems = noItems
    /\ writeSequenceCount = 0
    /\ writeSequenceIndex = 0
    /\ failureMode \in FailureModes
    /\ failFirstResponse = TRUE

-----------------------------------------------------------------------------
WithItem(items, seq, item) ==
    [s \in DOMAIN items \cup {seq} |-> IF s = seq THEN item ELSE items[s]]

Respond(m) == toGcs' = Sent(toGcs, m)
NoResponse == toGcs' = toGcs

Takes(type) ==
    /\ toVehicle # <<>> /\ Head(toVehicle).type = type
    /\ toVehicle' = Tail(toVehicle)
    /\ UNCHANGED <<noise, failureMode>>

FailsAt(mode0, mode1, seq) ==
    \/ failureMode = mode0 /\ seq = 0
    \/ failureMode = mode1 /\ seq = 1

(* _missionItems.count().  Keys need not be consecutive.                      *)
itemCount == Cardinality(DOMAIN vehicleItems)

-----------------------------------------------------------------------------
(* Reads.                                                                    *)

HandleMissionRequestList ==
    /\ Takes("REQUEST_LIST")
    /\ \/ failureMode = "ReadRequestListNoResponse" /\ NoResponse /\ UNCHANGED failFirstResponse
       \/ /\ failureMode = "ReadRequestListFirstResponse" /\ failFirstResponse
          /\ NoResponse
          /\ failFirstResponse' = FALSE
       \/ /\ failureMode # "ReadRequestListNoResponse"
          /\ ~(failureMode = "ReadRequestListFirstResponse" /\ failFirstResponse)
          /\ Respond(CountReply(itemCount))
          /\ failFirstResponse' = IF failureMode \in {"ReadRequestListFirstResponse",
                                                      "ReadRequest1FirstResponse"}
                                  THEN TRUE ELSE failFirstResponse
    /\ UNCHANGED <<vehicleItems, writeSequenceCount, writeSequenceIndex>>

(* Reading a key the map does not hold inserts a blank item.                  *)
AnswerRequest(seq) ==
    /\ vehicleItems' = IF seq \in DOMAIN vehicleItems THEN vehicleItems
                       ELSE WithItem(vehicleItems, seq, BlankItem)
    /\ Respond(ItemReply(seq, vehicleItems'[seq]))

RequestUnanswered(seq) ==
    \/ FailsAt("ReadRequest0NoResponse", "ReadRequest1NoResponse", seq)
    \/ failureMode = "ReadRequest1FirstResponse" /\ seq = 1 /\ failFirstResponse

HandleMissionRequestRead ==
    /\ Takes("REQUEST")
    /\ LET seq == Head(toVehicle).seq IN
       \/ /\ RequestUnanswered(seq)
          /\ NoResponse
          /\ failFirstResponse' = IF failureMode = "ReadRequest1FirstResponse" THEN FALSE
                                  ELSE failFirstResponse
          /\ UNCHANGED vehicleItems
       \/ /\ FailsAt("ReadRequest0ErrorAck", "ReadRequest1ErrorAck", seq)
          /\ Respond(AckReply("ERROR"))
          /\ UNCHANGED <<vehicleItems, failFirstResponse>>
       \/ /\ FailsAt("ReadRequest0IncorrectSequence", "ReadRequest1IncorrectSequence", seq)
          /\ AnswerRequest(seq + 1)
          /\ UNCHANGED failFirstResponse
       \/ /\ ~RequestUnanswered(seq)
          /\ ~FailsAt("ReadRequest0ErrorAck", "ReadRequest1ErrorAck", seq)
          /\ ~FailsAt("ReadRequest0IncorrectSequence", "ReadRequest1IncorrectSequence", seq)
          /\ AnswerRequest(seq)
          /\ UNCHANGED failFirstResponse
    /\ UNCHANGED <<writeSequenceCount, writeSequenceIndex>>

-----------------------------------------------------------------------------
(* Writes.  _requestNextMissionItem(seq) of count items.                     *)

RequestNextItem(seq, count) ==
    LET asked == IF FailsAt("WriteRequest0IncorrectSequence", "WriteRequest1IncorrectSequence", seq)
                 THEN seq + 1 ELSE seq
    IN  IF (failureMode = "WriteRequest1NoResponse" /\ seq = 1) \/ seq >= count
        THEN NoResponse
        ELSE IF FailsAt("WriteRequest0ErrorAck", "WriteRequest1ErrorAck", asked)
        THEN Respond(AckReply("ERROR"))
        ELSE Respond(RequestReply(asked))

CountUnanswered ==
    \/ failureMode = "WriteMissionCountNoResponse"
    \/ failureMode = "WriteMissionCountFirstResponse" /\ failFirstResponse

HandleMissionCountWrite ==
    /\ Takes("COUNT")
    /\ LET count == Head(toVehicle).count IN
       /\ writeSequenceCount' = count
       /\ vehicleItems' = noItems
       /\ \/ /\ count = 0
             /\ Respond(AckReply("ACCEPTED"))
             /\ UNCHANGED <<writeSequenceIndex, failFirstResponse>>
          \/ /\ count > 0 /\ CountUnanswered
             /\ NoResponse
             /\ failFirstResponse' = (failureMode # "WriteMissionCountFirstResponse")
             /\ UNCHANGED writeSequenceIndex
          \/ /\ count > 0 /\ ~CountUnanswered
             /\ writeSequenceIndex' = 0
             /\ RequestNextItem(0, count)
             /\ failFirstResponse' = IF failureMode = "WriteMissionCountFirstResponse" THEN TRUE
                                     ELSE failFirstResponse

FinalAck ==
    CASE failureMode = "WriteFinalAckNoResponse" -> NoResponse
      [] failureMode = "WriteFinalAckErrorAck"   -> Respond(AckReply("ERROR"))
      [] OTHER                                   -> Respond(AckReply("ACCEPTED"))

(* The index counts items received, whatever their sequence number.           *)
HandleMissionItemWrite ==
    /\ Takes("ITEM")
    /\ LET m == Head(toVehicle)
           next == writeSequenceIndex + 1
       IN  /\ vehicleItems' = WithItem(vehicleItems, m.seq, m.item)
           /\ writeSequenceIndex' = next
           /\ IF next >= writeSequenceCount THEN FinalAck
              ELSE IF failureMode = "WriteFinalAckMissingRequests" /\ next = EarlyAckIndex
              THEN Respond(AckReply("ACCEPTED"))
              ELSE RequestNextItem(next, writeSequenceCount)
    /\ UNCHANGED <<writeSequenceCount, failFirstResponse>>

HandleMissionClearAll ==
    /\ Takes("CLEAR_ALL")
    /\ vehicleItems' = noItems
    /\ Respond(AckReply("ACCEPTED"))
    /\ UNCHANGED <<writeSequenceCount, writeSequenceIndex, failFirstResponse>>

HandleMissionAckRead ==
    /\ Takes("ACK")
    /\ NoResponse
    /\ UNCHANGED <<vehicleItems, writeSequenceCount, writeSequenceIndex, failFirstResponse>>

(* Not in the simulator: ArduPilot acks the guided MISSION_ITEM, or does not. *)
HandleGuidedItem ==
    /\ Takes("GUIDED_ITEM")
    /\ NoResponse \/ \E r \in AckResult : Respond(AckReply(r))
    /\ UNCHANGED <<vehicleItems, writeSequenceCount, writeSequenceIndex, failFirstResponse>>

ReceiveFromGcs ==
    \/ HandleMissionRequestList
    \/ HandleMissionRequestRead
    \/ HandleMissionCountWrite
    \/ HandleMissionItemWrite
    \/ HandleMissionClearAll
    \/ HandleMissionAckRead
    \/ HandleGuidedItem

=============================================================================
