----------------------------- MODULE VehicleLinks -----------------------------
(* The links of each vehicle: VehicleLinkManager adds a link when the vehicle *)
(* is first heard on it, marks it lost when it is silent, and keeps the       *)
(* vehicle's traffic on one primary link.  Vehicle objects share the links;   *)
(* LinkInterface counts those that use it and closes with the last.           *)
EXTENDS Integers, Sequences, FiniteSets

CONSTANTS
    Vehicles,       \* Vehicle objects; two of them may stand for one vehicle
    NoVehicle,
    Links,
    NoLink,
    Usb,            \* the links that are a USB connection to a flight controller
    HighLatency     \* those that are expensive and slow

ASSUME LinksAssumption ==
    /\ IsFiniteSet(Vehicles)
    /\ NoLink \notin Links /\ NoVehicle \notin Vehicles
    /\ Usb \subseteq Links
    /\ HighLatency \subseteq Links \ Usb

VARIABLES
    open,               \* the links LinkManager has
    references,         \* [Links -> Nat]: _vehicleReferenceCount
    links,              \* [Vehicles -> SUBSET Links]: those in _rgLinkInfo
    commLost,           \* [Vehicles -> SUBSET Links]: those of them marked as lost
    primaryLink,        \* [Vehicles -> Links \cup {NoLink}]
    communicationLost,  \* [Vehicles -> BOOLEAN]
    communicationLostEnabled,   \* [Vehicles -> BOOLEAN]: whether a loss is looked for
    control             \* [Vehicles -> Controls]: CONTROL_HIGH_LATENCY not acked yet

linkVars ==
    <<open, references, links, commLost, primaryLink, communicationLost,
      communicationLostEnabled, control>>

Controls == {"None", "Stop", "Start"}

LinksTypeOK ==
    /\ open \in SUBSET Links
    /\ references \in [Links -> Nat]
    /\ links \in [Vehicles -> SUBSET Links]
    /\ commLost \in [Vehicles -> SUBSET Links]
    /\ primaryLink \in [Vehicles -> Links \cup {NoLink}]
    /\ communicationLost \in [Vehicles -> BOOLEAN]
    /\ communicationLostEnabled \in [Vehicles -> BOOLEAN]
    /\ control \in [Vehicles -> Controls]
    /\ \A v \in Vehicles :
          /\ commLost[v] \subseteq links[v] \ HighLatency
          /\ primaryLink[v] \in links[v] \cup {NoLink}

LinksInit ==
    /\ open = {}
    /\ references = [l \in Links |-> 0]
    /\ links = [v \in Vehicles |-> {}]
    /\ commLost = [v \in Vehicles |-> {}]
    /\ primaryLink = [v \in Vehicles |-> NoLink]
    /\ communicationLost = [v \in Vehicles |-> FALSE]
    /\ communicationLostEnabled = [v \in Vehicles |-> TRUE]
    /\ control = [v \in Vehicles |-> "None"]

(* _bestActivePrimaryLink, with p the primary link so far: the code takes the *)
(* first of its list, the model any of the kind.                              *)
BestActive(alive, p) ==
    LET plugged == alive \cap Usb
        normal == alive \ HighLatency
    IN IF plugged # {} THEN plugged
       ELSE IF normal # {} THEN normal
       ELSE IF p \in HighLatency THEN {p} ELSE alive

(* mutant: a link that works is left for a better one                         *)
NoneWorks(L, lost, p) == FALSE

(* mutant: a link is left only when it is removed                             *)
WorksUntilRemoved(L, lost, p) == p \in L \ HighLatency

(* A normal link that works stays the primary one, better ones or not.        *)
StillWorks(L, lost, p) == p \in L \ (lost \cup HighLatency)

(* _updatePrimaryLink: what the primary link may be once the vehicle has the  *)
(* links L, those of lost silent; p is kept when there is nothing better.     *)
PrimaryAfter(L, lost, p) ==
    LET best == BestActive(L \ lost, p)
    IN IF StillWorks(L, lost, p) THEN {p}
       ELSE IF best # {} THEN best
       ELSE IF p \in L THEN {p} ELSE {NoLink}

(* The command that goes with the change, if one is not waiting for its ack:  *)
(* then it is refused, and on a high latency link the wait is two minutes.    *)
ControlAfter(c, p, q) ==
    IF p = q \/ c # "None" THEN c
    ELSE IF p \in HighLatency THEN "Stop"
    ELSE IF q \in HighLatency THEN "Start"
    ELSE c

(* v has links L now, those of lost silent, and p for a primary link.         *)
UpdatePrimaryLink(v, L, lost, p) ==
    /\ links' = [links EXCEPT ![v] = L]
    /\ commLost' = [commLost EXCEPT ![v] = lost]
    /\ \E q \in PrimaryAfter(L, lost, p) :
          /\ primaryLink' = [primaryLink EXCEPT ![v] = q]
          /\ control' = [control EXCEPT ![v] = ControlAfter(@, p, q)]

(* _addLink; a link LinkManager has no more is not added.                     *)
AddLink(v, l) ==
    /\ l \in open
    /\ UpdatePrimaryLink(v, links[v] \cup {l}, commLost[v], primaryLink[v])
    /\ references' = [references EXCEPT ![l] = @ + 1]
    /\ UNCHANGED <<open, communicationLost, communicationLostEnabled>>

(* _commRegainedOnLink: the total loss is over when no link is lost.          *)
CommRegainedOnLink(v, l) ==
    LET lost == commLost[v] \ {l}
    IN /\ l \in commLost[v]
       /\ UpdatePrimaryLink(v, links[v], lost, primaryLink[v])
       /\ communicationLost' =
             [communicationLost EXCEPT ![v] = @ /\ lost # {}]
       /\ UNCHANGED <<open, references, communicationLostEnabled>>

(* mutant: a link closes when the first vehicle leaves it                     *)
FirstToLeave(L) == L

(* The links of L that nobody else refers to.                                 *)
LastToLeave(L) == {l \in L : references[l] = 1}

(* removeVehicleReference of the links of L: the last one closes the link.    *)
RemoveReferences(L) ==
    /\ references' = [l \in Links |->
                         IF l \in L /\ references[l] > 0 THEN references[l] - 1
                         ELSE references[l]]
    /\ open' = open \ LastToLeave(L)

(* mutant: the primary link is not reset                                      *)
RemovedStays(v, l) == primaryLink[v]

WithoutRemoved(v, l) == IF primaryLink[v] = l THEN NoLink ELSE primaryLink[v]

(* _linkDisconnected, for a link LinkManager has closed; whether v is then    *)
(* without links is the caller's business.                                    *)
RemoveLink(v, l) ==
    /\ l \in links[v] \ open
    /\ UpdatePrimaryLink(v, links[v] \ {l}, commLost[v] \ {l}, WithoutRemoved(v, l))
    /\ RemoveReferences({l})
    /\ UNCHANGED <<communicationLost, communicationLostEnabled>>

(* closeVehicle                                                               *)
RemoveAllLinks(v) ==
    /\ links' = [links EXCEPT ![v] = {}]
    /\ commLost' = [commLost EXCEPT ![v] = {}]
    /\ primaryLink' = [primaryLink EXCEPT ![v] = NoLink]
    /\ RemoveReferences(links[v])
    /\ UNCHANGED <<communicationLost, communicationLostEnabled, control>>

(* mutant: a check that has nothing new to say looks no further               *)
IfNewlySilent(v, silent) ==
    silent # {} /\ links[v] \subseteq commLost[v] \cup silent

(* Every link of v is lost, now that those of silent are too.                 *)
TotalLoss(v, silent) == links[v] \subseteq commLost[v] \cup silent

(* _commLostCheck finds the links of silent unheard for 3.5 seconds; a high   *)
(* latency link is never lost.  Whether v is to be closed when all are lost   *)
(* is for closes to say.                                                      *)
MarkLost(v, silent) ==
    /\ silent \subseteq links[v] \ (commLost[v] \cup HighLatency)
    /\ UpdatePrimaryLink(v, links[v], commLost[v] \cup silent, primaryLink[v])
    /\ communicationLost' =
          [communicationLost EXCEPT ![v] = @ \/ TotalLoss(v, silent)]
    /\ UNCHANGED <<open, references, communicationLostEnabled>>

(* A calibration, or a download of the logs, keeps losses from being looked   *)
(* for while it goes on: the vehicle may be too busy to be heard.             *)
SetCommunicationLostEnabled(v, enabled) ==
    /\ communicationLostEnabled[v] # enabled
    /\ communicationLostEnabled' = [communicationLostEnabled EXCEPT ![v] = enabled]
    /\ UNCHANGED <<open, references, links, commLost, primaryLink, communicationLost,
                   control>>

(* A primary link is set by its name; nothing is told to a high latency one.  *)
SetPrimaryLinkByName(v, l) ==
    /\ l \in links[v]
    /\ primaryLink' = [primaryLink EXCEPT ![v] = l]
    /\ UNCHANGED <<open, references, links, commLost, communicationLost,
                   communicationLostEnabled, control>>

(* The ack of the command, or its timeout.                                    *)
ControlEnds(v) ==
    /\ control[v] # "None"
    /\ control' = [control EXCEPT ![v] = "None"]
    /\ UNCHANGED <<open, references, links, commLost, primaryLink, communicationLost,
                   communicationLostEnabled>>

(* A vehicle object is deleted, without a word to the links it may have.      *)
ForgetLinks(v) ==
    /\ links' = [links EXCEPT ![v] = {}]
    /\ commLost' = [commLost EXCEPT ![v] = {}]
    /\ primaryLink' = [primaryLink EXCEPT ![v] = NoLink]
    /\ communicationLost' = [communicationLost EXCEPT ![v] = FALSE]
    /\ communicationLostEnabled' = [communicationLostEnabled EXCEPT ![v] = TRUE]
    /\ control' = [control EXCEPT ![v] = "None"]
    /\ UNCHANGED <<open, references>>

=============================================================================
