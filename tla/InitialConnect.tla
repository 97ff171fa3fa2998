---------------------------- MODULE InitialConnect ----------------------------
(* What the ground station asks of a vehicle it has just met, one thing after *)
(* the other.  A state function asks and returns; the answer's handler calls  *)
(* advance(), wherever the machine is by then.  Slots run to completion: the  *)
(* calls a signal makes are a stack, and nothing else happens until it is     *)
(* empty.                                                                     *)
EXTENDS PlanManagers

CONSTANTS
    ApmVehicles,    \* those with ArduPilot firmware
    HighLatency,    \* those on a high latency link; a log replay's connects alike
    MaxOutages      \* bound on the primary link going away

ASSUME OutagesAssumption == MaxOutages \in Nat

VARIABLES
    calls,          \* slots and functions yet to run, the next one first
    stateIndex,     \* [Vehicles -> 0 .. Finished], 0 before the machine starts
    awaited,        \* [Vehicles -> SUBSET AnsweredStates]: requests without an answer
    firstLoad,      \* elements whose first load is still to advance the machine
    initialPlanRequestComplete,
    link,           \* [Vehicles -> BOOLEAN]: there is a primary link
    outages

connectVars ==
    <<stateIndex, awaited, firstLoad, initialPlanRequestComplete, link, outages>>

ConnectStates ==
    <<"AutopilotVersion", "ProtocolVersion", "CompInfo", "Parameters",
      "Mission", "GeoFence", "RallyPoints", "SignalComplete">>
Finished == Len(ConnectStates) + 1
AnsweredStates == {"AutopilotVersion", "ProtocolVersion", "CompInfo", "Parameters"}
ElementOf ==
    [Mission |-> "mission", GeoFence |-> "fence", RallyPoints |-> "rally"]

Call(slot, of, element, error) ==
    [slot |-> slot, of |-> of, element |-> element, error |-> error]
AdvanceOf(v) == Call("advance", v, "mission", FALSE)
FirstLoadOf(v, e) == Call("firstLoadComplete", v, e, FALSE)

ConnectTypeOK ==
    /\ stateIndex \in [Vehicles -> 0 .. Finished]
    /\ awaited \in [Vehicles -> SUBSET AnsweredStates]
    /\ firstLoad \in [Vehicles -> SUBSET Elements]
    /\ initialPlanRequestComplete \in [Vehicles -> BOOLEAN]
    /\ link \in [Vehicles -> BOOLEAN]
    /\ outages \in 0 .. MaxOutages

ConnectInit ==
    /\ calls = <<>>
    /\ stateIndex = [v \in Vehicles |-> 0]
    /\ awaited = [v \in Vehicles |-> {}]
    /\ firstLoad = [v \in Vehicles |-> Elements]
    /\ initialPlanRequestComplete = [v \in Vehicles |-> FALSE]
    /\ link = [v \in Vehicles |-> TRUE]
    /\ outages = 0

Running(c) == calls # <<>> /\ Head(calls) = c
Returns == calls' = Tail(calls)
Then(more) == calls' = more \o Tail(calls)

(* Asks for an answer that arrives later.                                     *)
Await(v, s) ==
    /\ awaited' = [awaited EXCEPT ![v] = @ \cup {s}]
    /\ Returns
    /\ UNCHANGED managerVars

(* mutant: a state with nothing to ask for just returns                       *)
SkipSilently(v) ==
    /\ Returns
    /\ UNCHANGED <<awaited, managerVars>>

(* With nothing to ask for the next state follows at once.                    *)
Skip(v) ==
    /\ Then(<<AdvanceOf(v)>>)
    /\ UNCHANGED <<awaited, managerVars>>

(* A version is not asked for on a high latency link, and ArduPilot's protocol     *)
(* version never.                                                             *)
RequestVersion(v, s) ==
    IF ~link[v] \/ v \in HighLatency \/ (s = "ProtocolVersion" /\ v \in ApmVehicles)
    THEN Skip(v)
    ELSE Await(v, s)

(* Without a link refreshAllParameters returns at once and nothing advances   *)
(* the machine; a high latency link is ready without parameters.                   *)
RequestParameters(v) ==
    IF ~link[v] THEN Returns /\ UNCHANGED <<awaited, managerVars>>
    ELSE IF v \in HighLatency THEN Skip(v)
    ELSE Await(v, "Parameters")

(* The manager refuses the load when it has a transfer in progress; nobody    *)
(* looks.  On a high latency link or without support the slot is called directly.  *)
RequestElement(v, e) ==
    IF ~link[v]
    THEN Skip(v)
    ELSE /\ UNCHANGED awaited
         /\ IF v \in HighLatency \/ e \notin Supports[v]
            THEN Then(<<FirstLoadOf(v, e)>>) /\ UNCHANGED managerVars
            ELSE Returns /\ Start(v, {e}, Reading)

Enter(v, s) ==
    CASE s \in {"AutopilotVersion", "ProtocolVersion"} -> RequestVersion(v, s)
      [] s = "CompInfo"        -> Await(v, s)
      [] s = "Parameters"      -> RequestParameters(v)
      [] s = "SignalComplete"  -> Skip(v)
      [] OTHER                 -> RequestElement(v, ElementOf[s])

(* A machine that is done is not active any more and stays where it is.       *)
NextState(s) == IF s < Finished THEN s + 1 ELSE s

(* StateMachine::advance                                                      *)
Advance(v) ==
    /\ Running(AdvanceOf(v))
    /\ stateIndex' = [stateIndex EXCEPT ![v] = NextState(@)]
    /\ IF stateIndex[v] >= Finished - 1
       THEN Returns /\ UNCHANGED <<awaited, managerVars>>
       ELSE Enter(v, ConnectStates[stateIndex[v] + 1])
    /\ UNCHANGED <<firstLoad, initialPlanRequestComplete, link, outages>>

(* Vehicle::_firstMissionLoadComplete and its fence and rally point fellows.  *)
FirstLoadComplete(v, e) ==
    /\ Running(FirstLoadOf(v, e))
    /\ firstLoad' = [firstLoad EXCEPT ![v] = @ \ {e}]
    /\ initialPlanRequestComplete' =
          [initialPlanRequestComplete EXCEPT ![v] = @ \/ e = "rally"]
    /\ Then(<<AdvanceOf(v)>>)
    /\ UNCHANGED <<stateIndex, awaited, link, outages, managerVars>>

(* The answer, or the last timeout, to a request.                             *)
Answered(v, s) ==
    /\ calls = <<>>
    /\ s \in awaited[v]
    /\ awaited' = [awaited EXCEPT ![v] = @ \ {s}]
    /\ calls' = <<AdvanceOf(v)>>
    /\ UNCHANGED <<stateIndex, firstLoad, initialPlanRequestComplete, link, outages,
                   managerVars>>

(* The primary link is closed while another one is silent, and heard again.   *)
LinkGoes(v) ==
    /\ calls = <<>>
    /\ stateIndex[v] > 0 /\ link[v] /\ outages < MaxOutages
    /\ link' = [link EXCEPT ![v] = FALSE]
    /\ outages' = outages + 1
    /\ UNCHANGED <<calls, stateIndex, awaited, firstLoad, initialPlanRequestComplete,
                   managerVars>>

LinkReturns(v) ==
    /\ calls = <<>>
    /\ ~link[v]
    /\ link' = [link EXCEPT ![v] = TRUE]
    /\ UNCHANGED <<calls, stateIndex, awaited, firstLoad, initialPlanRequestComplete,
                   outages, managerVars>>

ConnectStep ==
    \E v \in Vehicles :
        \/ Advance(v)
        \/ \E e \in Elements : FirstLoadComplete(v, e)
        \/ \E s \in AnsweredStates : Answered(v, s)
        \/ LinkGoes(v)
        \/ LinkReturns(v)

=============================================================================
