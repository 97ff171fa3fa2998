----------------------------- MODULE PlanManagers -----------------------------
(* The mission, fence and rally point managers of the vehicles, as the rest   *)
(* of the ground station sees them: each carries out one transfer at a time,  *)
(* refuses another, and reports the end.  This is the interface PlanStore     *)
(* describes and PlanTransfer implements; a plan element's contents are one   *)
(* value here.                                                                *)
EXTENDS Integers, Sequences, FiniteSets

CONSTANTS
    Vehicles,       \* the vehicles that may be connected
    Contents,       \* what a mission, a fence or a set of rally points may be
    NoItems,        \* the empty one
    InitialPlans,   \* [Vehicles -> [Elements -> Contents]]: on the vehicle at first
    Supports        \* [Vehicles -> SUBSET Elements]: the capability bits

Elements == {"mission", "fence", "rally"}

ASSUME ContentsAssumption == NoItems \in Contents
ASSUME VehiclesAssumption ==
    /\ InitialPlans \in [Vehicles -> [Elements -> Contents]]
    /\ Supports \in [Vehicles -> SUBSET Elements]
    /\ \A v \in Vehicles : "mission" \in Supports[v]

VARIABLES
    transfer,   \* [Vehicles -> [Elements -> Transfers]]: the transaction in progress
    held,       \* what the manager believes the vehicle has
    stored      \* what the vehicle has

managerVars == <<transfer, held, stored>>

Nothing == [op |-> "None", items |-> NoItems]
Reading == [op |-> "Read", items |-> NoItems]
Writing(c) == [op |-> "Write", items |-> c]
Removing == [op |-> "RemoveAll", items |-> NoItems]
GuidedItem == [op |-> "Guided", items |-> NoItems]

Transfers ==
    {Nothing, Reading, Removing, GuidedItem} \cup {Writing(c) : c \in Contents}

ManagersTypeOK ==
    /\ transfer \in [Vehicles -> [Elements -> Transfers]]
    /\ held \in [Vehicles -> [Elements -> Contents]]
    /\ stored \in [Vehicles -> [Elements -> Contents]]

ManagersInit ==
    /\ transfer = [v \in Vehicles |-> [e \in Elements |-> Nothing]]
    /\ held = [v \in Vehicles |-> [e \in Elements |-> NoItems]]
    /\ stored = InitialPlans

inProgress(v, e) == transfer[v][e] # Nothing

(* Starts transfer t of each element of S whose manager is idle; the others   *)
(* refuse.  Removing forgets the manager's list at once, and so does reading  *)
(* a mission; the fence and rally managers keep theirs until it has ended.    *)
Start(v, S, t) ==
    LET idle == {e \in S : ~inProgress(v, e)}
        forgets == CASE t = Removing -> idle
                     [] t = Reading  -> idle \cap {"mission"}
                     [] OTHER        -> {}
    IN /\ transfer' = [transfer EXCEPT ![v] =
                          [e \in Elements |-> IF e \in idle THEN t ELSE @[e]]]
       /\ held' = [held EXCEPT ![v] =
                      [e \in Elements |-> IF e \in forgets THEN NoItems ELSE @[e]]]
       /\ UNCHANGED stored

(* What the manager believes after a transfer t has ended; c is what the      *)
(* vehicle has then.  A failed write leaves the mission list alone, while the *)
(* fence and rally managers clear theirs.                                     *)
HeldAfter(e, t, ok, c, old) ==
    CASE t.op = "Read"      -> IF ok THEN c ELSE NoItems
      [] t.op = "Write"     -> IF ok THEN t.items ELSE IF e = "mission" THEN old ELSE NoItems
      [] t.op = "RemoveAll" -> NoItems
      [] OTHER              -> old

(* A transfer ends.  When it fails the vehicle may have it all the same, its  *)
(* last answer lost.                                                          *)
Finish(v, e, ok) ==
    LET t == transfer[v][e]
        changes == t.op \in {"Write", "RemoveAll"}
    IN /\ inProgress(v, e)
       /\ transfer' = [transfer EXCEPT ![v][e] = Nothing]
       /\ \E c \in {stored[v][e], t.items} :
             /\ ~changes => c = stored[v][e]
             /\ changes /\ ok => c = t.items
             /\ stored' = [stored EXCEPT ![v][e] = c]
             /\ held' = [held EXCEPT ![v][e] = HeldAfter(e, t, ok, c, @)]

(* The vehicle is deleted, and its managers with it.                          *)
Forget(v) ==
    /\ transfer' = [transfer EXCEPT ![v] = [e \in Elements |-> Nothing]]
    /\ held' = [held EXCEPT ![v] = [e \in Elements |-> NoItems]]
    /\ UNCHANGED stored

=============================================================================
