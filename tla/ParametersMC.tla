---------------------------- MODULE ParametersMC ----------------------------
(* A small instance of Parameters for TLC: an autopilot with two parameters  *)
(* and one other component with one.  ArduPilot's failure modes that skip a  *)
(* parameter are left out: its parameters come by FTP.                       *)
EXTENDS Parameters

Two == {1, 2}
TwoAndOne == <<2, 1>>
OldOrNew == -1..MaxEvents
FirstOfTheAutopilot == <<1, 0>>
SecondIndex == {1}

File(first, second) == (0 :> first) @@ (1 :> second)

(* A file whose volatile value alone is old, and one that is of no use.      *)
StaleOrUseless == {File(0, -1), File(-1, 0)}

Vehicle(firmware, failureMode, highLatency) ==
    [firmware |-> firmware, failureMode |-> failureMode, highLatency |-> highLatency]

Vehicles ==
    {Vehicle("px4", mode, FALSE) : mode \in FailureModes}
        \cup {Vehicle("apm", mode, FALSE) :
                  mode \in {"FailNone", "FailParamNoReponseToRequestList"}}
        \cup {Vehicle("px4", "FailNone", TRUE)}

=============================================================================
