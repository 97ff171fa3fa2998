---------------------------- MODULE PlanTransferMC ----------------------------
(* Small instances of PlanTransfer for TLC.                                  *)
EXTENDS PlanTransfer

CONSTANT MaxItems   \* BOUND: items in a plan, without home

Home == Waypoint("HOME")

Lists(items) == UNION {[1 .. n -> items] : n \in 0 .. MaxItems}

(* The mission editor always has the home item in front.                      *)
MissionPlans == {<<Home>> \o list : list \in Lists(EditorItem)}

AllModes    == FailureMode
NoFailures  == {"None"}
NoLateAcks  == {}
LateItems   == {"MissionItem"}
LateReads   == {"MissionCount", "MissionItem"}
NoNoise     == {}
Foreign     == {"foreign"}
ReadNoise   == {"COUNT", "ITEM", "foreign"}
NoJumps     == {}
OneJump     == {1}
OneCommand  == {"HOME", "WP"}

=============================================================================
