------------------------------ MODULE PlanStore ------------------------------
(* What a plan transfer promises its callers, without messages or timers:    *)
(* one transaction at a time, which either takes place between the two lists *)
(* as a whole or is reported as failed.                                      *)
EXTENDS Integers, Sequences

CONSTANTS
    WritePlans,   \* the item sequences that may be written
    Decoded(_)    \* an item as the ground station shows it after a read

VARIABLES
    gcsPlan,      \* the items the ground station believes the vehicle has
    vehiclePlan,  \* the items the vehicle has
    pending       \* the open transaction, with the items it writes

storeVars == <<gcsPlan, vehiclePlan, pending>>

Idle == [op |-> "None", plan |-> <<>>]
Open(op, plan) == [op |-> op, plan |-> plan]

StoreInit == gcsPlan = <<>> /\ vehiclePlan = <<>> /\ pending = Idle

(* Reading and removing forget the list at once; writing keeps the old one.   *)
Begin ==
    /\ pending = Idle
    /\ \/ /\ pending' \in {Open("Read", <<>>), Open("RemoveAll", <<>>)}
          /\ gcsPlan' = <<>>
       \/ /\ \E plan \in WritePlans : pending' = Open("Write", plan)
          /\ UNCHANGED gcsPlan
       \/ pending' = Open("Guided", <<>>) /\ UNCHANGED gcsPlan
    /\ UNCHANGED vehiclePlan

(* Only a write or a removal changes the vehicle, and what the vehicle holds  *)
(* then is the beginning of the plan being written.                           *)
VehicleStores ==
    /\ pending.op \in {"Write", "RemoveAll"}
    /\ \E n \in 0 .. Len(pending.plan) : vehiclePlan' = SubSeq(pending.plan, 1, n)
    /\ UNCHANGED <<gcsPlan, pending>>

Succeed ==
    /\ pending # Idle
    /\ pending' = Idle
    /\ \/ /\ pending.op = "Read"
          /\ gcsPlan' = [k \in 1 .. Len(vehiclePlan) |-> Decoded(vehiclePlan[k])]
       \/ /\ pending.op \in {"Write", "RemoveAll"}
          /\ vehiclePlan = pending.plan
          /\ gcsPlan' = pending.plan
       \/ pending.op = "Guided" /\ UNCHANGED gcsPlan
    /\ UNCHANGED vehiclePlan

Fail ==
    /\ pending # Idle
    /\ pending' = Idle
    /\ UNCHANGED <<gcsPlan, vehiclePlan>>

StoreNext == Begin \/ VehicleStores \/ Succeed \/ Fail

StoreSpec == StoreInit /\ [][StoreNext]_storeVars

=============================================================================
