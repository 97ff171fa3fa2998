------------------------------ MODULE PlanMaster ------------------------------
(* The plan view and the fly view over the vehicles' plan managers: each is a *)
(* PlanMasterController with a mission, a fence and a rally point controller. *)
(* An upload or download goes element by element, the end of one transfer     *)
(* starting the next.                                                         *)
EXTENDS InitialConnect

CONSTANTS
    NoVehicle,          \* the active vehicle when there is none
    Drafts,             \* what the user may draw
    MaxEvents,          \* BOUND: vehicles coming, links going, requests and edits
    Requests,           \* the requests the user makes
    Disturbances        \* what may also go wrong or happen in the middle of something

Views == {"Plan", "Fly"}
ViewOrder == <<"Plan", "Fly">>
Chain == {"loadGeoFence", "loadRallyPoints", "sendGeoFence", "sendRallyPoints"}
RequestKinds == {"Upload", "Download", "Clear", "FlyClear", "Resume", "Guided"}
DisturbanceKinds == {
    "vehicles",     \* one comes, goes or is made active during a transfer or a connection
    "requests",     \* the user asks for something during a connection, clears during a transfer
    "edits",        \* the user edits the plan during a transfer
    "removals"}     \* removing a plan from the vehicle fails

ASSUME MasterAssumption ==
    /\ NoVehicle \notin Vehicles
    /\ Drafts \subseteq Contents
    /\ Requests \subseteq RequestKinds
    /\ Disturbances \subseteq DisturbanceKinds

VARIABLES
    connected,      \* the vehicles MultiVehicleManager has, in its order
    activeVehicle,
    managerVehicle, \* [Views -> vehicle or NoVehicle]
    chain,          \* [Views -> SUBSET Chain]: the flags that are set
    items,          \* [Views -> [Elements -> Contents]]: what the view shows
    dirty,          \* [Views -> [Elements -> BOOLEAN]]
    itemsRequested, \* [Views -> SUBSET Elements]
    prompting,      \* the plan view asks what to do with its plan
    events

masterVars ==
    <<managerVehicle, chain, items, dirty, itemsRequested, prompting>>

(* History: the vehicle of the last upload, until a download; what the user   *)
(* drew and has not asked to send, save or replace since; what the last       *)
(* upload was to bring, until an edit or another request; the elements of     *)
(* which the last write or removal failed.                                    *)
VARIABLES uploadTo, drawn, uploading, failed
historyVars == <<uploadTo, drawn, uploading, failed>>

vars == <<calls, managerVars, connectVars, connected, activeVehicle, masterVars,
          events, historyVars>>

NotDrawn == [e \in Elements |-> {}]

TypeOK ==
    /\ ManagersTypeOK
    /\ ConnectTypeOK
    /\ \A k \in DOMAIN calls : calls[k].of \in Vehicles \cup Views
    /\ \A k \in DOMAIN connected : connected[k] \in Vehicles
    /\ activeVehicle \in Vehicles \cup {NoVehicle}
    /\ managerVehicle \in [Views -> Vehicles \cup {NoVehicle}]
    /\ chain \in [Views -> SUBSET Chain]
    /\ items \in [Views -> [Elements -> Contents]]
    /\ dirty \in [Views -> [Elements -> BOOLEAN]]
    /\ itemsRequested \in [Views -> SUBSET Elements]
    /\ prompting \in BOOLEAN

Init ==
    /\ ManagersInit
    /\ ConnectInit
    /\ connected = <<>>
    /\ activeVehicle = NoVehicle
    /\ managerVehicle = [w \in Views |-> NoVehicle]
    /\ chain = [w \in Views |-> {}]
    /\ items = [w \in Views |-> [e \in Elements |-> NoItems]]
    /\ dirty = [w \in Views |-> [e \in Elements |-> FALSE]]
    /\ itemsRequested = [w \in Views |-> {}]
    /\ prompting = FALSE
    /\ events = 0
    /\ uploadTo = NoVehicle /\ drawn = NotDrawn /\ uploading = NotDrawn /\ failed = {}

-----------------------------------------------------------------------------
(* Helpers of the controllers                                                *)

Is(v) == \E k \in DOMAIN connected : connected[k] = v

(* The sequence s without the first of its elements that is v.                *)
Removed(s, v) ==
    LET i == CHOOSE i \in DOMAIN s : s[i] = v
    IN [k \in 1 .. Len(s) - 1 |-> s[IF k < i THEN k ELSE k + 1]]
offline(w) == managerVehicle[w] = NoVehicle
busy(w, e) == ~offline(w) /\ inProgress(managerVehicle[w], e)
syncInProgress(w) == \E e \in Elements : busy(w, e)
containsItems(w) == \E e \in Elements : items[w][e] # NoItems
isDirty(w) == \E e \in Elements : dirty[w][e]
supported(w, e) == e \in Supports[managerVehicle[w]]

(* No vehicle is connecting or has a transfer in progress.                    *)
Settled ==
    \A v \in Vehicles : Is(v) =>
        stateIndex[v] = Finished /\ \A e \in Elements : ~inProgress(v, e)

AllOf(c) == [e \in Elements |-> c]

SetItems(w, S, contents) ==
    items' = [items EXCEPT ![w] = [e \in Elements |-> IF e \in S THEN contents[e] ELSE @[e]]]
SetDirty(w, S, d) ==
    dirty' = [dirty EXCEPT ![w] = [e \in Elements |-> IF e \in S THEN d ELSE @[e]]]
AskFor(w, S) == itemsRequested' = [itemsRequested EXCEPT ![w] = @ \cup S]

(* The view takes over what the manager of v holds for the elements of S.     *)
Show(w, v, S) ==
    /\ SetItems(w, S, held[v])
    /\ SetDirty(w, S, FALSE)

RemoveAll(w) ==
    /\ SetItems(w, Elements, AllOf(NoItems))
    /\ SetDirty(w, Elements, FALSE)

(* _showPlanFromManagerVehicle: the elements up to the first whose manager is *)
(* busy; the fence controller remembers that it waits, the mission controller *)
(* does not.  A plan request that went wrong is taken for complete.           *)
ShowPlanFrom(w, v) ==
    LET idle(e) == ~inProgress(v, e)
        complete == initialPlanRequestComplete[v] \/ \A e \in Elements : idle(e)
        shown == IF ~complete \/ ~idle("mission") THEN {}
                 ELSE IF ~idle("fence") THEN {"mission"}
                 ELSE IF ~idle("rally") THEN {"mission", "fence"}
                 ELSE Elements
    IN /\ initialPlanRequestComplete' = [initialPlanRequestComplete EXCEPT ![v] = complete]
       /\ Show(w, v, shown)
       /\ itemsRequested' =
             [itemsRequested EXCEPT ![w] =
                 (@ \ shown) \cup (IF shown = {"mission"} THEN {"fence"} ELSE {})]
       /\ UNCHANGED <<stateIndex, awaited, firstLoad, link, outages>>

-----------------------------------------------------------------------------
(* Vehicles come and go                                                      *)

ToViews(slot, e, error) == [k \in 1 .. 2 |-> Call(slot, ViewOrder[k], e, error)]

(* The first vehicle becomes the active one; each starts its initial          *)
(* connection when it is created.                                             *)
VehicleComes(v) ==
    /\ calls = <<>>
    /\ ~Is(v) /\ events < MaxEvents
    /\ "vehicles" \in Disturbances \/ Settled
    /\ connected' = Append(connected, v)
    /\ events' = events + 1
    /\ activeVehicle' = IF connected = <<>> THEN v ELSE activeVehicle
    /\ calls' = <<AdvanceOf(v)>> \o
                (IF connected = <<>> THEN ToViews("activeVehicleChanged", "mission", FALSE)
                 ELSE <<>>)
    /\ UNCHANGED <<managerVars, connectVars, masterVars, historyVars>>

(* All links of a vehicle are gone: whichever it was, the first of the others *)
(* becomes the active one, and the vehicle is deleted.                        *)
VehicleGoes(v) ==
    /\ calls = <<>>
    /\ Is(v)
    /\ "vehicles" \in Disturbances \/ Settled
    /\ connected' = Removed(connected, v)
    /\ activeVehicle' = IF connected' = <<>> THEN NoVehicle ELSE connected'[1]
    /\ calls' = ToViews("activeVehicleChanged", "mission", FALSE)
    /\ Forget(v)
    /\ stateIndex' = [stateIndex EXCEPT ![v] = 0]
    /\ awaited' = [awaited EXCEPT ![v] = {}]
    /\ firstLoad' = [firstLoad EXCEPT ![v] = Elements]
    /\ initialPlanRequestComplete' = [initialPlanRequestComplete EXCEPT ![v] = FALSE]
    /\ link' = [link EXCEPT ![v] = TRUE]
    /\ uploadTo' = IF uploadTo = v THEN NoVehicle ELSE uploadTo
    /\ failed' = {f \in failed : f[1] # v}
    /\ uploading' = NotDrawn
    /\ UNCHANGED <<outages, masterVars, events, drawn>>

(* The user chooses another active vehicle.                                   *)
SetActiveVehicle(v) ==
    /\ calls = <<>>
    /\ Is(v) /\ v # activeVehicle /\ ~prompting /\ events < MaxEvents
    /\ "vehicles" \in Disturbances \/ Settled
    /\ events' = events + 1
    /\ activeVehicle' = v
    /\ calls' = ToViews("activeVehicleChanged", "mission", FALSE)
    /\ UNCHANGED <<managerVars, connectVars, connected, masterVars, historyVars>>

(* mutant: only when there is another vehicle to load a plan from             *)
MustAskOnline(w) == w = "Plan" /\ containsItems(w) /\ isDirty(w) /\ activeVehicle # NoVehicle

(* The plan view leaves what to do with an unsent plan to the user.           *)
MustAsk(w) == w = "Plan" /\ containsItems(w) /\ isDirty(w)

(* _activeVehicleChanged.  The flags of an upload or download in progress,    *)
(* and the controllers' requests, are left as they are.                       *)
ActiveVehicleChanged(w) ==
    LET v == activeVehicle
    IN /\ Running(Call("activeVehicleChanged", w, "mission", FALSE))
       /\ Returns
       /\ managerVehicle' = [managerVehicle EXCEPT ![w] = v]
       /\ prompting' = (prompting \/ (managerVehicle[w] # v /\ MustAsk(w)))
       /\ IF managerVehicle[w] = v \/ MustAsk(w)
          THEN UNCHANGED <<connectVars, items, dirty, itemsRequested>>
          ELSE IF v = NoVehicle
          THEN /\ IF w = "Fly" \/ containsItems(w) THEN RemoveAll(w)
                  ELSE UNCHANGED <<items, dirty>>
               /\ UNCHANGED <<connectVars, itemsRequested>>
          ELSE ShowPlanFrom(w, v)
       /\ UNCHANGED <<managerVars, chain, connected, activeVehicle, events, historyVars>>

-----------------------------------------------------------------------------
(* The user's requests                                                       *)

MayAsk(kind) ==
    /\ calls = <<>>
    /\ kind \in Requests /\ events < MaxEvents /\ ~prompting
    /\ activeVehicle # NoVehicle
    /\ "requests" \in Disturbances \/ stateIndex[activeVehicle] = Finished
    /\ events' = events + 1
    /\ UNCHANGED <<calls, connectVars, connected, activeVehicle, managerVehicle,
                   prompting, failed>>

(* MissionController's part of an upload, and the flag for the rest of it.    *)
Upload ==
    LET v == managerVehicle["Plan"]
    IN /\ MayAsk("Upload")
       /\ link[v] /\ v \notin HighLatency /\ ~syncInProgress("Plan")
       /\ chain' = [chain EXCEPT !["Plan"] = @ \cup {"sendGeoFence"}]
       /\ Start(v, {"mission"}, Writing(items["Plan"]["mission"]))
       /\ SetDirty("Plan", Elements, FALSE)
       /\ uploadTo' = v
       /\ drawn' = NotDrawn
       /\ uploading' = [e \in Elements |-> {items["Plan"][e]}]
       /\ UNCHANGED <<items, itemsRequested>>

Download ==
    LET v == managerVehicle["Plan"]
    IN /\ MayAsk("Download")
       /\ link[v] /\ v \notin HighLatency /\ ~syncInProgress("Plan")
       /\ chain' = [chain EXCEPT !["Plan"] = @ \cup {"loadGeoFence"}]
       /\ AskFor("Plan", {"mission"})
       /\ Start(v, {"mission"}, Reading)
       /\ SetDirty("Plan", Elements, FALSE)
       /\ uploadTo' = NoVehicle
       /\ drawn' = NotDrawn
       /\ uploading' = NotDrawn
       /\ UNCHANGED items

(* Removing asks each controller at once, whatever transfers are in progress: *)
(* the plan view's button is disabled then, the fly view's dialog is not.     *)
RemoveAllFromVehicle(w, kind) ==
    LET v == managerVehicle[w]
    IN /\ MayAsk(kind)
       /\ (w = "Fly" /\ "requests" \in Disturbances) \/ ~syncInProgress(w)
       /\ IF busy(w, "mission") THEN UNCHANGED itemsRequested ELSE AskFor(w, {"mission"})
       /\ Start(v, Supports[v], Removing)
       /\ SetDirty(w, Elements, FALSE)
       /\ drawn' = NotDrawn
       /\ uploading' = NotDrawn
       /\ UNCHANGED <<chain, items, uploadTo>>

(* Transactions of the mission manager from the fly view.                     *)
FlyMission(kind, t) ==
    /\ MayAsk(kind)
    /\ ~busy("Fly", "mission")
    /\ Start(activeVehicle, {"mission"}, t)
    /\ uploading' = [uploading EXCEPT !["mission"] = {}]
    /\ UNCHANGED <<chain, items, dirty, itemsRequested, uploadTo, drawn>>

Resume ==
    /\ activeVehicle # NoVehicle
    /\ held[activeVehicle]["mission"] # NoItems
    /\ FlyMission("Resume", Writing(held[activeVehicle]["mission"]))

UserRequest ==
    \/ Upload
    \/ Download
    \/ RemoveAllFromVehicle("Plan", "Clear")
    \/ RemoveAllFromVehicle("Fly", "FlyClear")
    \/ Resume
    \/ FlyMission("Guided", GuidedItem)

-----------------------------------------------------------------------------
(* The user edits                                                            *)

MayEdit ==
    /\ calls = <<>>
    /\ events < MaxEvents /\ ~prompting
    /\ events' = events + 1
    /\ uploading' = NotDrawn
    /\ UNCHANGED <<calls, managerVars, connectVars, connected, activeVehicle,
                   managerVehicle, chain, itemsRequested, prompting, uploadTo, failed>>

Draw(e, c) ==
    /\ MayEdit
    /\ "edits" \in Disturbances \/ ~syncInProgress("Plan")
    /\ c # items["Plan"][e]
    /\ SetItems("Plan", {e}, AllOf(c))
    /\ SetDirty("Plan", {e}, TRUE)
    /\ drawn' = [drawn EXCEPT ![e] = {c} \ {NoItems}]

(* Removing rally points does not mark them as changed.                       *)
RemoveRallyPoint ==
    /\ MayEdit
    /\ "edits" \in Disturbances \/ ~syncInProgress("Plan")
    /\ items["Plan"]["rally"] # NoItems
    /\ SetItems("Plan", {"rally"}, AllOf(NoItems))
    /\ drawn' = [drawn EXCEPT !["rally"] = {}]
    /\ UNCHANGED dirty

(* A file has something for every element.  Saving and loading offline leave  *)
(* nothing to do; online the vehicle still has to get it.                     *)
LoadFromFile(c) ==
    /\ MayEdit
    /\ ~syncInProgress("Plan")
    /\ SetItems("Plan", Elements, AllOf(c))
    /\ SetDirty("Plan", Elements, ~offline("Plan"))
    /\ drawn' = NotDrawn

SaveToFile ==
    /\ MayEdit
    /\ isDirty("Plan") /\ offline("Plan")
    /\ SetDirty("Plan", Elements, FALSE)
    /\ drawn' = NotDrawn
    /\ UNCHANGED items

(* The answer to promptForPlanUsageOnVehicleChange.                           *)
AnswerPrompt(load) ==
    /\ calls = <<>>
    /\ prompting
    /\ prompting' = FALSE
    /\ IF load
       THEN /\ drawn' = NotDrawn
            /\ IF offline("Plan")
               THEN RemoveAll("Plan") /\ UNCHANGED <<connectVars, itemsRequested>>
               ELSE ShowPlanFrom("Plan", managerVehicle["Plan"])
       ELSE /\ IF offline("Plan") THEN UNCHANGED dirty ELSE SetDirty("Plan", Elements, TRUE)
            /\ UNCHANGED <<connectVars, items, itemsRequested, drawn>>
    /\ UNCHANGED <<calls, managerVars, connected, activeVehicle, managerVehicle, chain,
                   events, uploadTo, uploading, failed>>

UserEdit ==
    \/ \E e \in Elements, c \in Drafts : Draw(e, c)
    \/ RemoveRallyPoint
    \/ \E c \in Drafts : LoadFromFile(c)
    \/ SaveToFile
    \/ \E load \in BOOLEAN : AnswerPrompt(load)

-----------------------------------------------------------------------------
(* A transfer ends, and the views follow                                     *)

(* What a view has connected to the signal that reports the end of a          *)
(* transfer: the master's slot first, then the controller's.  The fly view    *)
(* begins no upload or download, so its master's slots never find a flag and  *)
(* are left out.  A guided item that was taken reports nothing, one that      *)
(* failed ends like an upload.                                                *)
SlotsOf(w, e, op, error) ==
    LET call(slot) == Call(slot, w, e, error)
        master(slot) == IF w = "Plan" THEN <<call(slot)>> ELSE <<>>
    IN CASE op = "Read"      -> Append(master("loadComplete"), call("newItems"))
         [] op = "RemoveAll" -> <<call("managerRemoveAllComplete")>>
         [] op = "Write" \/ (op = "Guided" /\ error) ->
               Append(master("sendComplete"), call("managerSendComplete"))
         [] OTHER            -> <<>>

TransferEnds(v, e, ok) ==
    LET op == transfer[v][e].op
        ofVehicle == IF op = "Read" /\ e \in firstLoad[v] THEN <<FirstLoadOf(v, e)>> ELSE <<>>
        ofView(w) == IF managerVehicle[w] = v THEN SlotsOf(w, e, op, ~ok) ELSE <<>>
    IN /\ calls = <<>>
       /\ ok => link[v]
       /\ ok \/ op # "RemoveAll" \/ "removals" \in Disturbances
       /\ Finish(v, e, ok)
       /\ calls' = ofVehicle \o ofView("Plan") \o ofView("Fly")
       /\ failed' = IF op \notin {"Write", "RemoveAll"} THEN failed
                    ELSE IF ok THEN failed \ {<<v, e>>} ELSE failed \cup {<<v, e>>}
       /\ UNCHANGED <<connectVars, connected, activeVehicle, masterVars, events,
                      uploadTo, drawn, uploading>>

NextElement == [mission |-> "fence", fence |-> "rally"]
LoadFlag == [mission |-> "loadGeoFence", fence |-> "loadRallyPoints"]
SendFlag == [mission |-> "sendGeoFence", fence |-> "sendRallyPoints"]

(* mutant: the flag of e stays set                                            *)
KeepFlag(w, flag, e) ==
    chain' = [chain EXCEPT ![w] =
                 @ \cup {flag[n] : n \in {NextElement[e]} \cap DOMAIN flag}]

(* The flag of element e is traded for that of the next, after which nothing  *)
(* is left to do.                                                             *)
TakeFlag(w, flag, e) ==
    chain' = [chain EXCEPT ![w] =
                 (@ \ {flag[e]}) \cup {flag[n] : n \in {NextElement[e]} \cap DOMAIN flag}]

(* mutant: it is not                                                          *)
GoNoFurther(slot, w, e, error) == Returns

(* An element the vehicle does not support is skipped: its slot is called     *)
(* directly.                                                                  *)
GoOn(slot, w, e, error) == Then(<<Call(slot, w, e, error)>>)

(* _loadMissionComplete and _loadGeoFenceComplete: ask for the next element;  *)
(* the last one's end needs nothing.                                          *)
LoadComplete(w, e, error) ==
    /\ Running(Call("loadComplete", w, e, error))
    /\ IF e = "rally" \/ LoadFlag[e] \notin chain[w]
       THEN /\ Returns
            /\ UNCHANGED <<managerVars, chain, items, dirty, itemsRequested>>
       ELSE LET next == NextElement[e]
            IN /\ TakeFlag(w, LoadFlag, e)
               /\ SetDirty(w, Elements, FALSE)
               /\ IF supported(w, next)
                  THEN /\ Returns
                       /\ IF busy(w, next) THEN UNCHANGED itemsRequested
                          ELSE AskFor(w, {next})
                       /\ Start(managerVehicle[w], {next}, Reading)
                       /\ UNCHANGED items
                  ELSE /\ GoOn("loadComplete", w, next, error)
                       /\ SetItems(w, {next}, AllOf(NoItems))
                       /\ UNCHANGED <<managerVars, itemsRequested>>
    /\ UNCHANGED <<connectVars, connected, activeVehicle, managerVehicle, prompting,
                   events, historyVars>>

(* _sendMissionComplete and _sendGeoFenceComplete, whatever the transfer's    *)
(* outcome.  Only the first marks the plan as unchanged once more.            *)
SendComplete(w, e, error) ==
    /\ Running(Call("sendComplete", w, e, error))
    /\ IF e = "rally" \/ SendFlag[e] \notin chain[w]
       THEN Returns /\ UNCHANGED <<managerVars, chain, dirty>>
       ELSE LET next == NextElement[e]
            IN /\ TakeFlag(w, SendFlag, e)
               /\ SetDirty(w, IF e = "mission" THEN Elements
                              ELSE {next} \cap {x \in Elements : supported(w, x) /\ ~busy(w, x)},
                           FALSE)
               /\ IF supported(w, next)
                  THEN Returns /\ Start(managerVehicle[w], {next}, Writing(items[w][next]))
                  ELSE /\ GoOn("sendComplete", w, next, error)
                       /\ UNCHANGED managerVars
    /\ UNCHANGED <<connectVars, connected, activeVehicle, managerVehicle, items,
                   itemsRequested, prompting, events, historyVars>>

(* What the vehicle has is shown in the fly view, and in the plan view when   *)
(* it was asked for or there is nothing else.                                 *)
NewItems(w, e, error) ==
    /\ Running(Call("newItems", w, e, error))
    /\ Returns
    /\ IF w = "Fly" \/ e \in itemsRequested[w] \/ items[w][e] = NoItems
       THEN Show(w, managerVehicle[w], {e})
       ELSE UNCHANGED <<items, dirty>>
    /\ itemsRequested' = [itemsRequested EXCEPT ![w] = @ \ {e}]
    /\ UNCHANGED <<managerVars, connectVars, connected, activeVehicle, managerVehicle,
                   chain, prompting, events, historyVars>>

(* mutant: the fly view takes no notice of writes                             *)
ShowsAfterRemoval(slot, w, error) ==
    ~error /\ slot = "managerRemoveAllComplete"

(* After a removal both views show what there is, after a write the fly view. *)
ShowsAfter(slot, w, error) ==
    ~error /\ (slot = "managerRemoveAllComplete" \/ w = "Fly")

(* _managerSendComplete and _managerRemoveAllComplete of the three            *)
(* controllers: showPlanFromManagerVehicle of the one element.                *)
ManagerComplete(slot, w, e, error) ==
    LET shows == ShowsAfter(slot, w, error)
        ready == initialPlanRequestComplete[managerVehicle[w]] /\ ~busy(w, e)
    IN /\ Running(Call(slot, w, e, error))
       /\ Returns
       /\ IF shows /\ ready THEN Show(w, managerVehicle[w], {e}) ELSE UNCHANGED <<items, dirty>>
       /\ itemsRequested' =
             [itemsRequested EXCEPT ![w] =
                 IF ~shows THEN @
                 ELSE IF ready THEN @ \ {e} ELSE @ \cup ({e} \cap {"fence"})]
       /\ UNCHANGED <<managerVars, connectVars, connected, activeVehicle, managerVehicle,
                      chain, prompting, events, historyVars>>

-----------------------------------------------------------------------------
ConnectMachine ==
    /\ ConnectStep
    /\ events' = events + outages' - outages
    /\ events' <= MaxEvents
    /\ UNCHANGED <<connected, activeVehicle, masterVars, historyVars>>

VehiclesComeAndGo ==
    \E v \in Vehicles : VehicleComes(v) \/ VehicleGoes(v) \/ SetActiveVehicle(v)

ViewSlots ==
    \E w \in Views :
        \/ ActiveVehicleChanged(w)
        \/ \E e \in Elements, error \in BOOLEAN :
              \/ LoadComplete(w, e, error)
              \/ SendComplete(w, e, error)
              \/ NewItems(w, e, error)
              \/ ManagerComplete("managerSendComplete", w, e, error)
              \/ ManagerComplete("managerRemoveAllComplete", w, e, error)

SomeTransferEnds ==
    \E v \in Vehicles, e \in Elements, ok \in BOOLEAN : TransferEnds(v, e, ok)

Next ==
    \/ ConnectMachine
    \/ VehiclesComeAndGo
    \/ ViewSlots
    \/ SomeTransferEnds
    \/ UserRequest
    \/ UserEdit

Spec == Init /\ [][Next]_vars

-----------------------------------------------------------------------------
(* Properties                                                                *)

Quiet(v) == calls = <<>> /\ \A e \in Elements : ~inProgress(v, e)

(* A flag of the sequence is set only while the transfer whose end takes it   *)
(* is under way: otherwise the end of some later transfer, of another request *)
(* or another vehicle, would send or load the rest of this plan.              *)
FlagMeansTransfer ==
    LET v == managerVehicle["Plan"]
        of(e, op) == v # NoVehicle /\ transfer[v][e].op = op
    IN calls = <<>> =>
        /\ "sendGeoFence" \in chain["Plan"] => of("mission", "Write")
        /\ "sendRallyPoints" \in chain["Plan"] => of("fence", "Write")
        /\ "loadGeoFence" \in chain["Plan"] => of("mission", "Read")
        /\ "loadRallyPoints" \in chain["Plan"] => of("fence", "Read")

(* What the user drew stays in the plan view, marked as unsent, until it is   *)
(* sent or saved or the user has it replaced, whatever is loaded from the     *)
(* vehicles that come and go meanwhile.                                       *)
EditsKept ==
    \A e \in Elements : drawn[e] # {} => items["Plan"][e] \in drawn[e] /\ dirty["Plan"][e]

(* A connecting vehicle whose link stays up waits for the one answer that     *)
(* advances its machine, which has asked for everything in order: no answer   *)
(* comes early and advances it past another request, and none is missing, in  *)
(* which case it would never finish.  Every variable has its type, the        *)
(* machine's state its range.                                                 *)
ConnectWaits ==
  /\ TypeOK
  /\ \A v \in Vehicles : calls = <<>> /\ stateIndex[v] > 0 /\ outages = 0 =>
        LET s == stateIndex[v]
            asked == IF s < Finished THEN {ConnectStates[s]} ELSE {}
            later == {ElementOf[ConnectStates[k]] : k \in {k \in s .. 7 : k >= 5}}
        IN /\ awaited[v] = asked \cap AnsweredStates
           /\ firstLoad[v] = later
           /\ \A a \in asked \ AnsweredStates : transfer[v][ElementOf[a]] = Reading

(* Between transfers the fly view shows what the active vehicle's managers    *)
(* hold, unless a transfer of that element has failed.                        *)
FlyViewFollows ==
    LET v == managerVehicle["Fly"]
    IN v # NoVehicle /\ Quiet(v) /\ initialPlanRequestComplete[v] =>
        \A e \in Elements :
            <<v, e>> \in failed \/ items["Fly"][e] = held[v][e]

(* When an upload is over the vehicle has all of the plan it was to bring     *)
(* that it supports, but for the elements whose transfer failed.              *)
UploadArrives ==
    LET v == uploadTo
    IN v # NoVehicle /\ Quiet(v) =>
        \A e \in Supports[v] :
            \/ uploading[e] \subseteq {stored[v][e]}
            \/ <<v, e>> \in failed

(* The sequence goes on with the vehicle it was begun with.                   *)
UploadsStayWithTheirVehicle ==
    \A v \in Vehicles, e \in {"fence", "rally"} :
        transfer[v][e].op = "Write" => uploadTo = v

=============================================================================
