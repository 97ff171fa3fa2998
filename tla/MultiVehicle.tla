----------------------------- MODULE MultiVehicle -----------------------------
(* MultiVehicleManager over the vehicles' links: it creates a Vehicle object  *)
(* for the first heartbeat, keeps one vehicle active, and deletes the object  *)
(* of a vehicle without links.  Making a vehicle active and deleting one each *)
(* end in a single shot timer of 20 ms, during which everything else goes on. *)
EXTENDS VehicleLinks

CONSTANTS
    Id,             \* [Vehicles -> id]: the vehicle an object stands for
    HeardOn,        \* [Vehicles -> SUBSET Links]: where it may be heard
    MaxTimers,      \* BOUND: single shots under way before the user switches again
    MaxClosing,     \* BOUND: links closed of which a vehicle is yet to be told
    MaxDangling,    \* BOUND: references held by vehicles that are gone or going
    QuickLinks,     \* links may come and go within the 20 ms of a deletion
    BusyVehicles    \* BOUND: those that are calibrated or asked for their logs

ASSUME ManagerAssumption ==
    /\ HeardOn \in [Vehicles -> SUBSET Links]
    /\ {MaxTimers, MaxClosing, MaxDangling} \subseteq Nat
    /\ QuickLinks \in BOOLEAN
    /\ BusyVehicles \subseteq Vehicles

VARIABLES
    vehicles,               \* Seq(Vehicles)
    vehiclesBeingDeleted,   \* Seq(Vehicles)
    activeVehicle,
    activeVehicleAvailable,
    vehicleBeingSetActive,
    singleShots             \* Seq({"SetActive", "Delete"}), the next to fire first

managerVars ==
    <<vehicles, vehiclesBeingDeleted, activeVehicle, activeVehicleAvailable,
      vehicleBeingSetActive, singleShots>>

vars == <<linkVars, managerVars>>

ElementsOf(s) == {s[k] : k \in DOMAIN s}
Connected == ElementsOf(vehicles)
Doomed == ElementsOf(vehiclesBeingDeleted)
Existing == Connected \cup Doomed

RemoveAt(s, i) == [k \in 1 .. Len(s) - 1 |-> s[IF k < i THEN k ELSE k + 1]]
Without(s, v) ==
    IF v \in ElementsOf(s) THEN RemoveAt(s, CHOOSE i \in DOMAIN s : s[i] = v) ELSE s

(* The references to open links that no connected vehicle will give back.     *)
Dangling ==
    Cardinality({l \in open : references[l] > Cardinality({v \in Connected : l \in links[v]})})

TypeOK ==
    /\ LinksTypeOK
    /\ vehicles \in Seq(Vehicles) /\ vehiclesBeingDeleted \in Seq(Vehicles)
    /\ activeVehicle \in Vehicles \cup {NoVehicle}
    /\ activeVehicleAvailable \in BOOLEAN
    /\ vehicleBeingSetActive \in Vehicles \cup {NoVehicle}
    /\ singleShots \in Seq({"SetActive", "Delete"})

Init ==
    /\ LinksInit
    /\ vehicles = <<>> /\ vehiclesBeingDeleted = <<>>
    /\ activeVehicle = NoVehicle /\ activeVehicleAvailable = FALSE
    /\ vehicleBeingSetActive = NoVehicle
    /\ singleShots = <<>>

-----------------------------------------------------------------------------
(* Vehicles                                                                  *)

(* setActiveVehicle for a vehicle that is not the active one.                 *)
BeginSetActive(v) ==
    /\ activeVehicleAvailable' = (activeVehicleAvailable /\ activeVehicle = NoVehicle)
    /\ vehicleBeingSetActive' = v
    /\ singleShots' = Append(singleShots, "SetActive")

(* _vehicleHeartbeatInfo of a vehicle that is not known yet.                  *)
VehicleHeartbeatInfo(v, l) ==
    /\ v \notin Existing
    /\ l \in HeardOn[v]
    /\ \A u \in Connected : Id[u] # Id[v]
    /\ AddLink(v, l)
    /\ vehicles' = Append(vehicles, v)
    /\ IF vehicles = <<>> THEN BeginSetActive(v)
       ELSE UNCHANGED <<activeVehicleAvailable, vehicleBeingSetActive, singleShots>>
    /\ UNCHANGED <<vehiclesBeingDeleted, activeVehicle>>

(* The user picks another active vehicle.                                     *)
SetActiveVehicle(v) ==
    /\ v \in Connected \ {activeVehicle}
    /\ Len(singleShots) < MaxTimers
    /\ BeginSetActive(v)
    /\ UNCHANGED <<linkVars, vehicles, vehiclesBeingDeleted, activeVehicle>>

(* _setActiveVehiclePhase2                                                    *)
SetActiveVehiclePhase2 ==
    /\ activeVehicle' = vehicleBeingSetActive
    /\ activeVehicleAvailable' =
          (activeVehicleAvailable \/ vehicleBeingSetActive # NoVehicle)
    /\ UNCHANGED <<linkVars, vehicles, vehiclesBeingDeleted>>

(* _deleteVehiclePhase1, called by allLinksRemoved.                           *)
DeleteVehiclePhase1(v) ==
    /\ vehiclesBeingDeleted' = Append(vehiclesBeingDeleted, v)
    /\ vehicles' = Without(vehicles, v)
    /\ activeVehicleAvailable' = FALSE
    /\ singleShots' = Append(singleShots, "Delete")
    /\ UNCHANGED <<activeVehicle, vehicleBeingSetActive>>

(* mutant: the active vehicle changes only when the deleted one was the last  *)
NoneLeft == IF vehicles = <<>> THEN NoVehicle ELSE activeVehicle

(* Whichever vehicle goes, the first of the others is the active one then.    *)
FirstOfTheOthers == IF vehicles = <<>> THEN NoVehicle ELSE vehicles[1]

(* _deleteVehiclePhase2; activeVehicleAvailable is signalled but not set.     *)
DeleteVehiclePhase2 ==
    /\ activeVehicle' = FirstOfTheOthers
    /\ ForgetLinks(vehiclesBeingDeleted[1])
    /\ vehiclesBeingDeleted' = Tail(vehiclesBeingDeleted)
    /\ UNCHANGED <<vehicles, activeVehicleAvailable>>

(* mutant: the last timer that was started fires first                        *)
LastStarted == Len(singleShots)

(* They all take 20 ms, so the first that was started fires first.            *)
FirstStarted == 1

SingleShot ==
    /\ singleShots # <<>>
    /\ \/ singleShots[FirstStarted] = "SetActive" /\ SetActiveVehiclePhase2
       \/ singleShots[FirstStarted] = "Delete" /\ DeleteVehiclePhase2
    /\ singleShots' = RemoveAt(singleShots, FirstStarted)
    /\ UNCHANGED vehicleBeingSetActive

-----------------------------------------------------------------------------
(* Links                                                                     *)

(* A link is connected.                                                       *)
LinkConnects(l) ==
    /\ l \notin open
    /\ QuickLinks \/ Doomed = {}
    /\ \A v \in Existing : l \notin links[v]
    /\ open' = open \cup {l}
    /\ references' = [references EXCEPT ![l] = 0]
    /\ UNCHANGED <<links, commLost, primaryLink, communicationLost,
                   communicationLostEnabled, control, managerVars>>

(* It is unplugged or closed; the vehicles are told one after the other.      *)
LinkDisconnects(l) ==
    /\ l \in open
    /\ Cardinality({k \in Links \ open : \E v \in Existing : k \in links[v]}) < MaxClosing
    /\ QuickLinks \/ Doomed = {}
    /\ open' = open \ {l}
    /\ UNCHANGED <<references, links, commLost, primaryLink, communicationLost,
                   communicationLostEnabled, control, managerVars>>

(* No link is left without l: allLinksRemoved is emitted.                     *)
IsLastLink(v, l) == links[v] = {l}

LinkDisconnected(v, l) ==
    /\ v \in Existing
    /\ RemoveLink(v, l)
    /\ IF IsLastLink(v, l) THEN DeleteVehiclePhase1(v) ELSE UNCHANGED managerVars

(* Any message of the vehicle, handled by its object, a doomed one included,  *)
(* and by one it has on the way from a link just closed.                      *)
MavlinkMessageReceived(v, l) ==
    /\ v \in Existing
    /\ l \in HeardOn[v]
    /\ \/ /\ l \notin links[v]
          /\ v \in Doomed => Dangling < MaxDangling
          /\ AddLink(v, l)
       \/ CommRegainedOnLink(v, l)
    /\ UNCHANGED managerVars

(* _commLostCheck, once a second, if it is enabled.  autoDisconnect is set    *)
(* during a firmware upgrade.  The 20 ms of a doomed vehicle are too short    *)
(* for a loss.                                                                *)
CommLostCheck(v, silent, autoDisconnect) ==
    /\ v \in Connected
    /\ communicationLostEnabled[v]
    /\ IF autoDisconnect /\ ~communicationLost[v] /\ TotalLoss(v, silent)
       THEN /\ silent \subseteq links[v] \ (commLost[v] \cup HighLatency)
            /\ RemoveAllLinks(v)
            /\ DeleteVehiclePhase1(v)
       ELSE MarkLost(v, silent) /\ UNCHANGED managerVars

(* The user disconnects the active vehicle, or it has agreed to reboot.       *)
CloseVehicle(v) ==
    /\ v = activeVehicle /\ v \in Connected
    /\ RemoveAllLinks(v)
    /\ DeleteVehiclePhase1(v)

(* The property primaryLinkName of the active vehicle is written.  The menu   *)
(* that writes it is shown for two links or more; what it writes ends in the  *)
(* link's status, an empty one after a blank, and finds no link, so that with *)
(* this menu the action never happens.                                        *)
UserPicksPrimary(v, l) ==
    /\ v = activeVehicle /\ v \in Connected
    /\ Cardinality(links[v]) > 1
    /\ SetPrimaryLinkByName(v, l)
    /\ UNCHANGED managerVars

(* A calibration or a log download of the active vehicle begins, or one ends: *)
(* that of a vehicle no longer active, or the vehicle made active since.  It  *)
(* may also never end for the vehicle it began with.  On a doomed vehicle it  *)
(* makes no difference.                                                       *)
BusyBegins(v) ==
    /\ v = activeVehicle /\ v \in Connected \cap BusyVehicles
    /\ SetCommunicationLostEnabled(v, FALSE)
    /\ UNCHANGED managerVars

BusyEnds(v) ==
    /\ v \in Connected
    /\ SetCommunicationLostEnabled(v, TRUE)
    /\ UNCHANGED managerVars

ControlAnswered(v) ==
    /\ ControlEnds(v)
    /\ UNCHANGED managerVars

SomeCheck(v) ==
    \E silent \in SUBSET links[v], autoDisconnect \in BOOLEAN :
        CommLostCheck(v, silent, autoDisconnect)

Next ==
    \/ \E l \in Links : LinkConnects(l) \/ LinkDisconnects(l)
    \/ \E v \in Vehicles, l \in Links :
          \/ VehicleHeartbeatInfo(v, l)
          \/ MavlinkMessageReceived(v, l)
          \/ LinkDisconnected(v, l)
          \/ UserPicksPrimary(v, l)
    \/ \E v \in Vehicles :
          \/ SetActiveVehicle(v)
          \/ CloseVehicle(v)
          \/ ControlAnswered(v)
          \/ BusyBegins(v)
          \/ BusyEnds(v)
          \/ SomeCheck(v)
    \/ SingleShot

Spec == Init /\ [][Next]_vars

(* The check is a repeating timer of one second.  Checks that find no further *)
(* silent link are enough.                                                    *)
FairSpec == Spec /\ \A v \in Vehicles : WF_vars(CommLostCheck(v, {}, FALSE))

-----------------------------------------------------------------------------
(* Properties                                                                *)

Alive(v) == links[v] \ commLost[v]

PrimaryIsGood(v) ==
    Alive(v) # {} =>
        /\ primaryLink[v] \in Alive(v)
        /\ Alive(v) \ HighLatency # {} => primaryLink[v] \notin HighLatency

(* Whatever happens to the links of a vehicle, its traffic is then on one     *)
(* that works, and not on an expensive one while there is another: also when  *)
(* the user has picked a link that does not, and when links go in any order.  *)
PrimaryFollowsLinks ==
    [][\A v \in Vehicles :
          links'[v] # links[v] \/ commLost'[v] # commLost[v] => PrimaryIsGood(v)']_vars

(* A normal primary link that works is left for no other, a better one or one *)
(* heard again, unless the user picks it.                                     *)
NoNeedlessSwitch ==
    [][\A v \in Vehicles :
          primaryLink[v] \in Alive(v)' \ HighLatency /\ primaryLink'[v] # primaryLink[v]
              => \E l \in Links : UserPicksPrimary(v, l)]_vars

(* A vehicle left with lost links only does not stay unreported for ever:     *)
(* also when its last good link was removed and no link became silent since,  *)
(* and also when that was during a calibration or a log download: then once   *)
(* the check is enabled again.  While it is not, nothing need be reported.    *)
LossIsNoticed ==
    \A v \in Vehicles :
        []<>(v \in Connected /\ Alive(v) = {} /\ communicationLostEnabled[v]
                => communicationLost[v])

(* A link is not closed under one vehicle because another one on it left.     *)
UsedLinksStayOpen ==
    [][\A l \in open \ open' :
          LinkDisconnects(l) \/ \A v \in Vehicles : l \notin links'[v]]_vars

(* The active vehicle is never an object that has been deleted, and neither   *)
(* is the one a timer is about to make active.                                *)
ActiveIsAlive ==
    /\ activeVehicle \in Existing \cup {NoVehicle}
    /\ "SetActive" \in ElementsOf(singleShots) => vehicleBeingSetActive \in Existing

(* When the timers have fired some connected vehicle is the active one.       *)
ActiveWhenAny ==
    singleShots = <<>> =>
        activeVehicle \in (IF vehicles = <<>> THEN {NoVehicle} ELSE Connected)

=============================================================================
