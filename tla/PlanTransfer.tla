----------------------------- MODULE PlanTransfer -----------------------------
(* A plan manager and the vehicle's mission item handler joined by the link, *)
(* and what the two achieve together.                                        *)
EXTENDS PlanManager, MissionItemHandler

CONSTANT LinkLoses   \* messages may be lost

ASSUME LinkAssumption == LinkLoses \in BOOLEAN

vars == <<linkVars, managerVars, vehicleVars>>

Init == LinkInit /\ ManagerInit /\ HandlerInit

ManagerStep == (StartTransaction \/ ReceiveFromVehicle \/ AckTimeout) /\ UNCHANGED vehicleVars

ManagerRests ==
    /\ signals' = {}
    /\ UNCHANGED <<expectedAck, timerRunning, transaction, retryCount, indicesToWrite,
                   indicesToRead, missionItems, writeMissionItems, resumeMission, connected>>

VehicleStep == ReceiveFromGcs /\ ManagerRests

LinkStep ==
    /\ \/ LinkLoses /\ (LoseToVehicle \/ LoseToGcs)
       \/ RepeatToGcs
       \/ ForeignToGcs
    /\ ManagerRests
    /\ UNCHANGED vehicleVars

Next == ManagerStep \/ VehicleStep \/ LinkStep

Spec == Init /\ [][Next]_vars

(* The event loop delivers what has arrived and runs expired timers, and the  *)
(* vehicle works off its messages.  Nobody has to start a transaction.        *)
Fairness ==
    /\ WF_vars(ReceiveFromVehicle /\ UNCHANGED vehicleVars)
    /\ WF_vars(AckTimeout /\ UNCHANGED vehicleVars)
    /\ WF_vars(VehicleStep)

FairSpec == Spec /\ Fairness

-----------------------------------------------------------------------------
TypeOK == LinkTypeOK /\ ManagerTypeOK /\ HandlerTypeOK

(* An open transaction listens to the vehicle, waits for one kind of answer   *)
(* that fits it, and has its timer armed; an idle manager does none of this.  *)
(* Otherwise the plan view shows "syncing" for ever (PlanManager.cc:168-293). *)
WaitsForAnAnswer ==
    /\ connected = inProgress
    /\ timerRunning = inProgress
    /\ ~inProgress => indicesToRead = {} /\ indicesToWrite = {} /\ ~resumeMission
    /\ transaction = "Read" => expectedAck \in {"MissionCount", "MissionItem"}
    /\ transaction = "Write" => expectedAck \in {"MissionRequest", "GuidedItem"}
    /\ transaction = "RemoveAll" => expectedAck = "MissionClearAll"
    /\ resumeMission => expectedAck = "MissionRequest"

(* While items are being read there is one left to ask for, so that the retry *)
(* never ends in _requestNextMissionItem's internal error, which arms no      *)
(* timer (PlanManager.cc:349).                                                *)
SomethingLeftToRead ==
    transaction = "Read" /\ expectedAck = "MissionItem" => indicesToRead # {}

ReadSequences == {missionItems[k].seq : k \in DOMAIN missionItems}

(* No item is taken twice: an index is either still open or in the list once. *)
EachItemOnce ==
    /\ \A j, k \in DOMAIN missionItems : missionItems[j].seq = missionItems[k].seq => j = k
    /\ ReadSequences \cap indicesToRead = {}

(* The list and the open indices make up 0 .. n-1: nothing is skipped.  In an *)
(* idle manager the list itself is complete, whatever was lost or repeated.   *)
NoItemMissing ==
    ReadSequences \cup indicesToRead = 0 .. (Len(missionItems) + Cardinality(indicesToRead) - 1)

-----------------------------------------------------------------------------
(* Properties of the step that ends a transaction.                           *)

Ends(t) == transaction = t /\ transaction' = "None"
Reported(signal, error) == <<signal, error>> \in signals'
Failed == Reported("error", TRUE)

(* The vehicle's items as a list of the ground station.                       *)
Downloaded ==
    [k \in 1 .. itemCount |-> [seq |-> k - 1, item |-> FromVehicle(vehicleItems[k - 1])]]

(* A read without an error brings exactly the vehicle's items, in order.      *)
ReadBringsThePlan == [][Ends("Read") /\ ~Failed => missionItems' = Downloaded]_vars

(* A success reported is one: sendComplete(false) is emitted only when the    *)
(* vehicle holds every item of the write list and nothing else, and           *)
(* removeAllComplete(false) only when it holds no item.                       *)
SuccessMeansStored ==
    [][ /\ Reported("sendComplete", FALSE) =>
             /\ itemCount = Len(writeMissionItems)
             /\ \A k \in 1 .. itemCount : vehicleItems[k - 1] = writeMissionItems[k].item
        /\ Reported("removeAllComplete", FALSE) => itemCount = 0 ]_vars

(* Which transactions must fail under which failure mode, by the tables of    *)
(* MissionManagerTest.cc:240-252 and 286-297; all others must succeed.        *)
ReadMustFail ==
    \/ failureMode = "ReadRequestListNoResponse"
    \/ /\ failureMode \in {"ReadRequest0NoResponse", "ReadRequest0IncorrectSequence",
                           "ReadRequest0ErrorAck"}
       /\ itemCount >= 1
    \/ /\ failureMode \in {"ReadRequest1NoResponse", "ReadRequest1IncorrectSequence",
                           "ReadRequest1ErrorAck"}
       /\ itemCount >= 2

WriteMustFail ==
    \/ /\ failureMode \in {"WriteMissionCountNoResponse", "WriteRequest0IncorrectSequence",
                           "WriteRequest0ErrorAck", "WriteFinalAckNoResponse",
                           "WriteFinalAckErrorAck"}
       /\ Len(writeMissionItems) >= 1
    \/ /\ failureMode \in {"WriteRequest1NoResponse", "WriteRequest1IncorrectSequence",
                           "WriteRequest1ErrorAck"}
       /\ Len(writeMissionItems) >= 2
    \/ failureMode = "WriteFinalAckMissingRequests" /\ Len(writeMissionItems) > EarlyAckIndex

OutcomesAsTested ==
    [][ /\ Ends("Read") => (Failed <=> ReadMustFail)
        /\ Ends("Write") /\ expectedAck = "MissionRequest" => (Failed <=> WriteMustFail)
        /\ Ends("RemoveAll") => ~Failed ]_vars

(* Every transaction ends, however much the link loses.                       *)
TransactionsEnd == inProgress ~> ~inProgress

-----------------------------------------------------------------------------
(* The transfer implements PlanStore.  A read's partial list is not yet the   *)
(* ground station's plan, and an item's place in a list is its number.        *)

Items(list) == [k \in DOMAIN list |-> list[k].item]

OpenTransaction ==
    CASE transaction = "Write" /\ expectedAck = "GuidedItem" -> "Guided"
      [] OTHER -> transaction

(* What may be written: an editor's plan, or the part of one that resumes it. *)
PartsOf(plan) ==
    UNION {{[k \in 1 .. n |-> plan[pos[k]]] : pos \in [1 .. n -> 1 .. Len(plan)]} : n \in 0 .. Len(plan)}

Store == INSTANCE PlanStore WITH
    WritePlans  <- UNION {PartsOf(Items(WriteList(p))) : p \in EditorPlans},
    Decoded     <- FromVehicle,
    gcsPlan     <- IF transaction = "Read" THEN <<>> ELSE Items(missionItems),
    vehiclePlan <- [k \in 1 .. itemCount |-> vehicleItems[k - 1]],
    pending     <- [op |-> OpenTransaction,
                    plan |-> IF OpenTransaction = "Write" THEN Items(writeMissionItems) ELSE <<>>]

(* Every behaviour of the transfer is one of PlanStore.                       *)
ImplementsStore == Store!StoreSpec

=============================================================================
