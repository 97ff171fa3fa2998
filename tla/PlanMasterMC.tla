----------------------------- MODULE PlanMasterMC -----------------------------
(* Small instances of PlanMaster for TLC.                                    *)
EXTENDS PlanMaster

CONSTANTS A, B, C, planA, planB, draft

Three == {A, B, C}
Both == {A, B}
OnlyA == {A}
OnlyC == {C}
SomeContents == {NoItems, planA, planB, draft}
OneDraft == {draft}
Plan(c) == [e \in Elements |-> c]

(* A has a plan of every kind; B supports no fence and has a mission only; C  *)
(* is on a high latency link where it is used.                                *)
TheirPlans ==
    [v \in Vehicles |-> IF v = A THEN Plan(planA)
                        ELSE [mission |-> planB, fence |-> NoItems, rally |-> NoItems]]
TheirSupport ==
    [v \in Vehicles |-> IF v = A THEN Elements ELSE {"mission", "rally"}]

None == {}
AllRequests == RequestKinds
UploadAndGuided == {"Upload", "Guided"}
VehiclesDisturb == {"vehicles"}

=============================================================================
