--------------------------- MODULE MissionProtocol ---------------------------
(* The MAVLink mission sub-protocol as PlanManager.cc and                    *)
(* MockLinkMissionItemHandler.cc use it: the mission items, the messages,    *)
(* and the two directions of the link between ground station and vehicle.    *)
(* Each direction is a FIFO that may lose its oldest message, may repeat it, *)
(* and may carry messages that belong to another MAV_MISSION_TYPE.           *)
EXTENDS Integers, Sequences

CONSTANTS
    Commands,     \* commands other than DO_JUMP, e.g. waypoints
    JumpTargets,  \* param1 values a DO_JUMP may have, as the editor counts them
    MaxInFlight,  \* BOUND: messages in one direction; more are lost
    Noises,       \* what else the link does: types of message it repeats, "foreign" ones
    MaxNoise      \* BOUND: repeated and foreign messages in a behaviour

ASSUME ProtocolAssumption ==
    /\ JumpTargets \subseteq Nat
    /\ MaxInFlight \in Nat \ {0}
    /\ Noises \subseteq {"COUNT", "ITEM", "REQUEST", "ACK", "foreign"}
    /\ MaxNoise \in Nat

-----------------------------------------------------------------------------
(* Mission items.  Only what the protocol code reads is kept: the command,   *)
(* and for DO_JUMP its param1 (the sequence number to jump to).              *)

Waypoint(c) == [command |-> c, param1 |-> 0]
DoJump(t)   == [command |-> "DO_JUMP", param1 |-> t]
IsJump(i)   == i.command = "DO_JUMP"

(* The value QMap::operator[] creates for a sequence number it does not hold. *)
BlankItem   == [command |-> "BLANK", param1 |-> 0]

(* Every value an item can have anywhere: DO_JUMP targets are shifted by one  *)
(* in either direction between the editor's and the vehicle's numbering.      *)
Item == [command : Commands \cup {"DO_JUMP", "BLANK"}, param1 : Int]

(* The items an editor hands to the plan manager.                             *)
EditorItem == {Waypoint(c) : c \in Commands} \cup {DoJump(t) : t \in JumpTargets}

-----------------------------------------------------------------------------
(* Messages.  "own" says whether mission_type is the manager's _planType.     *)

AckResult == {"ACCEPTED", "ERROR", "INVALID_SEQUENCE"}

ToVehicleMessage ==
         [type : {"REQUEST_LIST", "CLEAR_ALL", "ACK", "GUIDED_ITEM"}]
    \cup [type : {"REQUEST"}, seq : Nat]
    \cup [type : {"COUNT"}, count : Nat]
    \cup [type : {"ITEM"}, seq : Nat, item : Item]

ToGcsMessage ==
         [type : {"COUNT"}, count : Nat, own : BOOLEAN]
    \cup [type : {"REQUEST"}, seq : Nat, own : BOOLEAN]
    \cup [type : {"ITEM"}, seq : Nat, item : Item, own : BOOLEAN]
    \cup [type : {"ACK"}, result : AckResult, own : BOOLEAN]

CountReply(n)     == [type |-> "COUNT", count |-> n, own |-> TRUE]
ItemReply(s, i)   == [type |-> "ITEM", seq |-> s, item |-> i, own |-> TRUE]
RequestReply(s)   == [type |-> "REQUEST", seq |-> s, own |-> TRUE]
AckReply(r)       == [type |-> "ACK", result |-> r, own |-> TRUE]

(* What is left in the air when another plan manager of the same vehicle has  *)
(* given up its transaction: one message of each kind with a foreign type.    *)
ForeignMessage ==
    { [type |-> "COUNT", count |-> 0, own |-> FALSE],
      [type |-> "REQUEST", seq |-> 0, own |-> FALSE],
      [type |-> "ITEM", seq |-> 0, item |-> BlankItem, own |-> FALSE],
      [type |-> "ACK", result |-> "ACCEPTED", own |-> FALSE] }

-----------------------------------------------------------------------------
VARIABLES
    toVehicle,   \* messages on their way to the vehicle, oldest first
    toGcs,       \* messages on their way to the ground station, oldest first
    noise        \* repeated and foreign messages so far

linkVars == <<toVehicle, toGcs, noise>>

LinkTypeOK ==
    /\ toVehicle \in Seq(ToVehicleMessage)
    /\ toGcs \in Seq(ToGcsMessage)
    /\ noise \in Nat

LinkInit == toVehicle = <<>> /\ toGcs = <<>> /\ noise = 0

(* A full direction drops what is sent into it, so a sender never blocks.     *)
Sent(channel, m) == IF Len(channel) < MaxInFlight THEN Append(channel, m) ELSE channel

Quiet == toVehicle = <<>> /\ toGcs = <<>>

-----------------------------------------------------------------------------
(* What the radio may do.  A send while primaryLink() is expired is a loss.   *)

LoseToVehicle ==
    /\ toVehicle # <<>>
    /\ toVehicle' = Tail(toVehicle)
    /\ UNCHANGED <<toGcs, noise>>

LoseToGcs ==
    /\ toGcs # <<>>
    /\ toGcs' = Tail(toGcs)
    /\ UNCHANGED <<toVehicle, noise>>

RepeatToGcs ==
    /\ noise < MaxNoise
    /\ toGcs # <<>> /\ Len(toGcs) < MaxInFlight
    /\ Head(toGcs).type \in Noises
    /\ toGcs' = <<Head(toGcs)>> \o toGcs
    /\ noise' = noise + 1
    /\ UNCHANGED toVehicle

ForeignToGcs ==
    /\ "foreign" \in Noises /\ noise < MaxNoise
    /\ Len(toGcs) < MaxInFlight
    /\ \E m \in ForeignMessage : toGcs' = Append(toGcs, m)
    /\ noise' = noise + 1
    /\ UNCHANGED toVehicle

=============================================================================
