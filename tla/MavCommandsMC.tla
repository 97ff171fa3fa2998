----------------------------- MODULE MavCommandsMC -----------------------------
(* Values of MavCommands' constants for TLC.                                 *)
EXTENDS MavCommands

Command(component, command) ==
    [component |-> component, command |-> command, message |-> NoMessage]
Request(component, message) ==
    [component |-> component, command |-> "REQUEST_MESSAGE", message |-> message]

(* The first steps of the initial connection, and one command nobody repeats. *)
Connect ==
    [version |-> Request("autopilot", "AUTOPILOT_VERSION"),
     protocol |-> Request("autopilot", "PROTOCOL_VERSION"),
     arm |-> Command("autopilot", "ARM_DISARM")]

(* Commands from different parts of the program that collide: two requests,   *)
(* two commands that may be sent while they wait, and one to every component. *)
Colliding ==
    [version |-> Request("autopilot", "AUTOPILOT_VERSION"),
     protocol |-> Request("autopilot", "PROTOCOL_VERSION"),
     motor |-> Command("autopilot", "DO_MOTOR_TEST"),
     again |-> Command("autopilot", "DO_MOTOR_TEST"),
     all |-> Command("ALL", "DO_MOTOR_TEST")]

ConnectCalls == DOMAIN Connect
CollidingCalls == DOMAIN Colliding

RetriedInTheCode == {"REQUEST_MESSAGE"}

Nothing == {}
FromAnotherComponent ==
    {[kind |-> "MESSAGE", component |-> "camera", message |-> "AUTOPILOT_VERSION"]}

=============================================================================
