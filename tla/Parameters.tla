------------------------------- MODULE Parameters -------------------------------
(* ParameterManager with a vehicle and the link between them, which loses     *)
(* messages but keeps their order.  The vehicle is MockLink's, with what QGC  *)
(* expects of PX4 (the hash before the list) and ArduPilot (values it was not *)
(* asked for, the parameter file).                                            *)
EXTENDS ParameterManager

CONSTANTS
    FailParam,      \* the parameter MockLink fails to send
    Setups,         \* the vehicles considered
    EarlierFiles,   \* what an earlier session may have left in the cache
    MaxEvents       \* how many troubles of the link and requests of the user

FailureModes == {"FailNone", "FailParamNoReponseToRequestList",
                 "FailMissingParamOnInitialReqest", "FailMissingParamOnAllRequests"}

(* Values stand for how old they are: 0 is what the vehicle has at first, n    *)
(* what the user's n-th request wrote, and others belong to earlier sessions.  *)
ASSUME RequestsAssumption ==
    /\ MaxEvents \in Nat
    /\ FirstValue = 0
    /\ 0..MaxEvents \subseteq Values
    /\ Setups \subseteq [firmware : {"px4", "apm"}, failureMode : FailureModes,
                         highLatency : BOOLEAN]
    /\ EarlierFiles \subseteq
           {NoCache} \cup [0..Count[DefaultComponent] - 1 -> Values]

VARIABLES
    begun,          \* "No", "Yes", or "Unheard": there was no link to ask on
    vehicle,        \* [Params -> Values]: what the vehicle has
    stream,         \* what it has still to send of its list
    toVehicle,
    toStation,
    wanted,         \* the value the user wrote last, or NoValue
    disputed,       \* what the user wrote there was replaced by another value,
                    \* or nothing watches over it
    troubles,       \* losses, early timeouts, failed downloads, unasked values
    requests        \* writes and refreshes of the user

vars == <<setup, pm, linked, begun, vehicle, stream, toVehicle, toStation,
          wanted, disputed, troubles, requests>>

HashParam == <<DefaultComponent, -1>>

Messages ==
    [type : {"Value"}, param : Params, value : Values, indexed : BOOLEAN]
        \cup [type : {"Hash"}, value : {Hash(f) : f \in [0..Count[DefaultComponent] - 1 -> Values]}]

Requests ==
    [type : {"List"}, component : Components \cup {AllComponents}]
        \cup [type : {"Read"}, param : Params]
        \cup [type : {"Set"}, param : Params, value : Values]
        \cup {HashAnswer}

PmTypeOK ==
    LET params == SUBSET Params
    IN /\ pm.facts \in [Params -> Values \cup {NoValue}]
       /\ pm.seen \in SUBSET Components
       /\ pm.waitingIndex \in UNION {[D -> 0..MaxInitialLoadRetrySingleParam] : D \in params}
       /\ pm.waitingName \in UNION {[D -> 0..MaxReadWriteRetry] : D \in params}
       /\ pm.waitingWrite \in UNION {[D -> 0..MaxReadWriteRetry] : D \in params}
       /\ \A p \in DOMAIN pm.waitingIndex \cup DOMAIN pm.waitingName
                      \cup DOMAIN pm.waitingWrite : p[1] \in pm.seen
       /\ {pm.failedIndex, pm.writeFailed, pm.readFailed} \subseteq params
       /\ pm.batchQueue \in SUBSET {p[2] : p \in Params}
       /\ Cardinality(pm.batchQueue) <= MaxBatchSize + 1
       /\ pm.prevReads \in 0..2 * Cardinality(Params)
       /\ pm.initialRetry \in 0..MaxInitialRequestListRetry + 1
       /\ {pm.batchActive, pm.initialTimer, pm.waitingTimer, pm.lastChance,
           pm.complete, pm.missing, pm.tryFtp, pm.downloading, pm.listening,
           pm.noResponse, pm.hashed, pm.refused} \subseteq BOOLEAN
       /\ pm.listening => pm.downloading
       /\ pm.progress \in {"None", "Slow", "Good"}
       /\ pm.out = <<>>

TypeOK ==
    /\ setup \in Setups
    /\ PmTypeOK
    /\ linked \in BOOLEAN
    /\ begun \in {"No", "Yes", "Unheard"}
    /\ vehicle \in [Params -> Values]
    /\ stream \in Seq(Params \cup {HashParam})
    /\ toVehicle \in Seq(Requests)
    /\ toStation \in Seq(Messages)
    /\ wanted \in [Params -> Values \cup {NoValue}]
    /\ disputed \in SUBSET Params
    /\ troubles \in 0..MaxEvents
    /\ requests \in 0..MaxEvents

-------------------------------------------------------------------------------
(* The autopilot's file is what an earlier session left: nothing, or the      *)
(* vehicle's values of then.                                                  *)
AutopilotValues(f) == [i \in 0..Count[DefaultComponent] - 1 |-> f[<<DefaultComponent, i>>]]

Init ==
    /\ setup \in Setups
    /\ \E file \in IF setup.firmware = "px4" /\ setup.failureMode = "FailNone"
                    THEN EarlierFiles ELSE {NoCache} :
            pm = NewManager(setup.firmware, file)
    /\ linked = TRUE
    /\ begun = "No"
    /\ vehicle = [p \in Params |-> FirstValue]
    /\ stream = <<>>
    /\ toVehicle = <<>>
    /\ toStation = <<>>
    /\ wanted = [p \in Params |-> NoValue]
    /\ disputed = {}
    /\ troubles = 0
    /\ requests = 0

(* What a step leaves behind: the manager after it, its requests on the link. *)
Becomes(s) ==
    /\ pm' = [s EXCEPT !.out = <<>>]
    /\ toVehicle' = IF linked THEN toVehicle \o s.out ELSE toVehicle

(* The value a user wrote is replaced by another.                             *)
Settle(s) ==
    disputed' = disputed \cup {p \in Params : /\ wanted[p] # NoValue
                                              /\ pm.facts[p] = wanted[p]
                                              /\ s.facts[p] # wanted[p]}

Trouble ==
    /\ troubles + requests < MaxEvents
    /\ troubles' = troubles + 1

Request ==
    /\ troubles + requests < MaxEvents
    /\ requests' = requests + 1

NothingUnderWay ==
    stream = <<>> /\ toVehicle = <<>> /\ toStation = <<>> /\ ~pm.downloading

(* A timer may run out with an answer on its way, but not often.              *)
Patience == IF NothingUnderWay THEN UNCHANGED troubles ELSE Trouble

world == <<vehicle, stream, toStation>>
history == <<wanted, disputed>>

-------------------------------------------------------------------------------
(* The initial connection asks for everything, once.                          *)
RequestParameters ==
    /\ begun = "No"
    /\ begun' = IF linked THEN "Yes" ELSE "Unheard"
    /\ Becomes(RefreshAll(pm, AllComponents, AutopilotValues(vehicle)))
    /\ UNCHANGED <<setup, linked, world, history, troubles, requests>>

InitialRequestTimerFires ==
    /\ pm.initialTimer
    /\ Becomes(InitialRequestTimeout(pm, AutopilotValues(vehicle)))
    /\ Patience
    /\ UNCHANGED <<setup, linked, begun, world, history, requests>>

WaitingParamTimerFires ==
    /\ pm.waitingTimer
    /\ Becomes(WaitingParamTimeout(pm))
    /\ Patience
    /\ UNCHANGED <<setup, linked, begun, world, history, requests>>

DownloadReports ==
    /\ pm.downloading
    /\ \E progress \in {"Slow", "Good"}, above \in BOOLEAN :
          /\ progress = "Good" => above
          /\ Becomes(FtpDownloadProgress(pm, progress, above))
    /\ UNCHANGED <<setup, linked, begun, world, history, troubles, requests>>

(* A file that arrives has reported progress: the vehicle tells its size.     *)
DownloadEnds ==
    /\ pm.downloading
    /\ \E result \in {Parsed, NotFound, Failed} \cup Broken :
          /\ result \in {Parsed} \cup Broken => pm.progress # "None"
          /\ LET s == FtpDownloadComplete(pm, result)
             IN Becomes(s) /\ Settle(s)
          /\ IF result = Parsed THEN UNCHANGED troubles ELSE Trouble
    /\ UNCHANGED <<setup, linked, begun, world, wanted, requests>>

ReceiveValue ==
    /\ toStation # <<>> /\ Head(toStation).type = "Value"
    /\ LET m == Head(toStation)
           taken == ~Ignored(pm, m.param[1]) /\ ~Disregarded(pm, m.indexed)
           s == IF taken THEN HandleParamValue(pm, m.param, m.value, m.indexed) ELSE pm
       IN Becomes(s) /\ Settle(s)
    /\ toStation' = Tail(toStation)
    /\ UNCHANGED <<setup, linked, begun, vehicle, stream, wanted, troubles, requests>>

ReceiveHash ==
    /\ toStation # <<>> /\ Head(toStation).type = "Hash"
    /\ Becomes(HandleHash(pm, Head(toStation).value))
    /\ toStation' = Tail(toStation)
    /\ UNCHANGED <<setup, linked, begun, vehicle, stream, history, troubles, requests>>

-------------------------------------------------------------------------------
(* The user; the views are there once the initial load is over.  Every value  *)
(* written is a new one.  A write goes out unwatched if its component has not *)
(* been heard of: its parameters are then those of a file that broke off.     *)
UserWrites ==
    /\ pm.complete
    /\ Request
    /\ \E p \in Params :
          /\ pm.facts[p] # NoValue
          /\ Becomes(FactRawValueUpdated([pm EXCEPT !.writeFailed = @ \ {p}],
                                         p, requests'))
          /\ wanted' = [wanted EXCEPT ![p] = requests']
          /\ disputed' = IF p[1] \in pm.seen THEN disputed \ {p} ELSE disputed \cup {p}
    /\ UNCHANGED <<setup, linked, begun, world, troubles>>

UserRefreshes ==
    /\ pm.complete
    /\ Request
    /\ \/ Becomes(RefreshAll(pm, AllComponents, AutopilotValues(vehicle)))
       \/ \E p \in Params : Becomes(RefreshParameter(pm, p))
    /\ UNCHANGED <<setup, linked, begun, world, history, troubles>>

-------------------------------------------------------------------------------
(* The vehicle                                                                *)
Answers(p, indexed) ==
    toStation' = Append(toStation,
        [type |-> "Value", param |-> p, value |-> vehicle'[p], indexed |-> indexed])

HandleParamRequestList ==
    /\ toVehicle # <<>> /\ Head(toVehicle).type = "List"
    /\ stream' = IF \/ setup.failureMode = "FailParamNoReponseToRequestList"
                    \/ setup.highLatency
                 THEN stream
                 ELSE (IF setup.firmware = "px4" THEN <<HashParam>> ELSE <<>>)
                         \o InOrder(Params)
    /\ toVehicle' = Tail(toVehicle)
    /\ UNCHANGED <<setup, pm, linked, begun, vehicle, toStation, history, troubles, requests>>

Skipped(p) ==
    /\ p = FailParam
    /\ setup.failureMode \in {"FailMissingParamOnInitialReqest",
                              "FailMissingParamOnAllRequests"}

ParamRequestListWorker ==
    /\ stream # <<>>
    /\ UNCHANGED vehicle
    /\ IF Head(stream) = HashParam
       THEN toStation' = Append(toStation,
                            [type |-> "Hash", value |-> Hash(AutopilotValues(vehicle))])
       ELSE IF Skipped(Head(stream)) THEN UNCHANGED toStation
       ELSE Answers(Head(stream), TRUE)
    /\ stream' = Tail(stream)
    /\ UNCHANGED <<setup, pm, linked, begun, toVehicle, history, troubles, requests>>

HandleParamRequestRead ==
    /\ toVehicle # <<>> /\ Head(toVehicle).type = "Read"
    /\ UNCHANGED vehicle
    /\ IF /\ Head(toVehicle).param = FailParam
          /\ setup.failureMode = "FailMissingParamOnAllRequests"
       THEN UNCHANGED toStation
       ELSE Answers(Head(toVehicle).param, TRUE)
    /\ toVehicle' = Tail(toVehicle)
    /\ UNCHANGED <<setup, pm, linked, begun, stream, history, troubles, requests>>

HandleParamSet ==
    /\ toVehicle # <<>> /\ Head(toVehicle).type = "Set"
    /\ vehicle' = [vehicle EXCEPT ![Head(toVehicle).param] = Head(toVehicle).value]
    /\ Answers(Head(toVehicle).param, TRUE)
    /\ toVehicle' = Tail(toVehicle)
    /\ UNCHANGED <<setup, pm, linked, begun, stream, history, troubles, requests>>

(* The autopilot stops when the hash is sent back to it; the others' part of  *)
(* the list is in key order like all of it.                                   *)
HandleHashAnswer ==
    /\ toVehicle # <<>> /\ Head(toVehicle).type = "SetHash"
    /\ stream' = InOrder({p \in Range(stream) : p[1] # DefaultComponent})
    /\ toVehicle' = Tail(toVehicle)
    /\ UNCHANGED <<setup, pm, linked, begun, vehicle, toStation, history, troubles, requests>>

(* ArduPilot sends values it was not asked for.                               *)
VehicleVolunteers ==
    /\ setup.firmware = "apm"
    /\ Trouble
    /\ UNCHANGED vehicle
    /\ \E p \in Params : Answers(p, FALSE)
    /\ UNCHANGED <<setup, pm, linked, begun, stream, toVehicle, history, requests>>

-------------------------------------------------------------------------------
(* The link                                                                   *)
LoseRequest ==
    /\ toVehicle # <<>>
    /\ toVehicle' = Tail(toVehicle)
    /\ Trouble
    /\ UNCHANGED <<setup, pm, linked, begun, world, history, requests>>

LoseAnswer ==
    /\ toStation # <<>>
    /\ toStation' = Tail(toStation)
    /\ Trouble
    /\ UNCHANGED <<setup, pm, linked, begun, vehicle, stream, toVehicle, history, requests>>

LinkGoes ==
    /\ linked
    /\ linked' = FALSE
    /\ Trouble
    /\ UNCHANGED <<setup, pm, begun, world, toVehicle, history, requests>>

LinkComes ==
    /\ ~linked
    /\ linked' = TRUE
    /\ UNCHANGED <<setup, pm, begun, world, toVehicle, history, troubles, requests>>

Deliver ==
    \/ HandleParamRequestList
    \/ HandleParamRequestRead
    \/ HandleParamSet
    \/ HandleHashAnswer

Next ==
    \/ RequestParameters
    \/ InitialRequestTimerFires
    \/ WaitingParamTimerFires
    \/ DownloadReports
    \/ DownloadEnds
    \/ ReceiveValue
    \/ ReceiveHash
    \/ UserWrites
    \/ UserRefreshes
    \/ Deliver
    \/ ParamRequestListWorker
    \/ VehicleVolunteers
    \/ LoseRequest
    \/ LoseAnswer
    \/ LinkGoes
    \/ LinkComes

Spec == Init /\ [][Next]_vars

-------------------------------------------------------------------------------
(* The step that reports the parameters ready with none missing has every     *)
(* parameter of every component heard of so far, whichever way they came and  *)
(* however often they were asked for: _checkInitialLoadComplete looks at the  *)
(* waiting lists, never at the facts.                                         *)
ReadyMeansComplete ==
    [][(~pm.complete /\ pm'.complete /\ ~pm'.missing) =>
          \A c \in pm'.seen : \A p \in ParamsOf(c) : pm'.facts[p] # NoValue]_vars

(* What the station shows is what the vehicle has, whatever writes, answers    *)
(* and refreshes are lost or cross each other.  Left out are the writes still *)
(* waited for or reported as failed, those whose value an answer of before    *)
(* the write has replaced (_handleParamValue takes it for the write's own) or *)
(* that nothing waits for (_factRawValueUpdateWorker, "component id not       *)
(* found"), and volatile values, which the cache gives unread.                *)
FactsAgree ==
    \A p \in Params :
        \/ pm.facts[p] \in {NoValue, vehicle[p]}
        \/ p \in DOMAIN pm.waitingWrite \cup pm.writeFailed \cup disputed
        \/ p[1] = DefaultComponent /\ p[2] \in Volatile

LoadOver == pm.complete \/ pm.noResponse

WaitsForAnAnswer ==
    pm.initialTimer \/ pm.waitingTimer \/ (pm.downloading /\ pm.listening)

(* Four ways in which the code gives up the load without a word, no timer     *)
(* running: the parameter file was asked for again while it was coming, which *)
(* cut off the end of the download, and its progress stopped the list timer;  *)
Deafened == pm.refused /\ pm.progress # "None"

(* the hash came, which stops the list timer, and nothing after it;           *)
OnlyHash == pm.hashed /\ pm.seen = {}

(* the other components' parameters came and none of the autopilot's, nor in  *)
(* the one cycle more that _waitingForDefaultComponent gives it;              *)
OnlyOthers ==
    /\ ~DefaultKnown(pm) /\ ListDone(pm) /\ pm.seen # {}
    /\ pm.batchActive /\ ~pm.lastChance

(* another component was heard of before the parameter file came, whose       *)
(* download had stopped the timer of the re-requests.                         *)
OthersForgotten == pm.tryFtp /\ DefaultComponent \in pm.seen /\ ~ListDone(pm)

Stranded ==
    ~WaitsForAnAnswer /\ (Deafened \/ OnlyHash \/ OnlyOthers \/ OthersForgotten)

(* From the first request on, until the parameters are ready or the user has  *)
(* been told that the vehicle does not respond, a timer runs or a download    *)
(* will call back, whatever is lost: the handlers hand the wait over from one *)
(* timer to the other and to FTP and back.  The four gaps are named above.    *)
(* Every variable has its type, the batch its size.                           *)
NeverAbandoned == TypeOK /\ (begun = "Yes" => LoadOver \/ WaitsForAnAnswer \/ Stranded)

(* Weak fairness of the station, the vehicle and the link, and of the timers  *)
(* while nothing is under way.  A download makes progress and ends; one that  *)
(* has reported its size may end with the file.  ENABLED is written out:      *)
(* these actions change the state whenever their guards hold.                 *)
Fairness ==
    /\ []<>(begun # "No") \/ []<><<RequestParameters>>_vars
    /\ []<>~(NothingUnderWay /\ pm.initialTimer) \/ []<><<InitialRequestTimerFires>>_vars
    /\ []<>~(NothingUnderWay /\ pm.waitingTimer) \/ []<><<WaitingParamTimerFires>>_vars
    /\ []<>~(pm.downloading /\ pm.progress = "None") \/ []<><<DownloadReports>>_vars
    /\ []<>~(pm.downloading /\ pm.progress # "None") \/ []<><<DownloadEnds>>_vars
    /\ []<>(toStation = <<>>) \/ []<><<ReceiveValue \/ ReceiveHash>>_vars
    /\ []<>(toVehicle = <<>>) \/ []<><<Deliver>>_vars
    /\ []<>(stream = <<>>) \/ []<><<ParamRequestListWorker>>_vars
    /\ []<>linked \/ []<><<LinkComes>>_vars

FairSpec == Spec /\ Fairness

(* The initial load ends, "whether successful or not" (ParameterManager.h, of *)
(* _initialLoadComplete): complete, or with a message that nothing came; or   *)
(* it is stranded, in one of the four gaps and for good.                      *)
LoadEnds == <>[](begun = "Yes" => LoadOver \/ Stranded)

(* What ParameterManagerTest expects of MockLink's failure modes.             *)
Expected ==
    CASE setup.firmware = "px4" /\ setup.failureMode = "FailMissingParamOnAllRequests" ->
            pm.complete /\ pm.missing
      [] setup.firmware = "px4" /\ setup.failureMode = "FailParamNoReponseToRequestList" ->
            ~pm.complete /\ pm.noResponse
      [] OTHER -> pm.complete /\ (pm.missing <=> setup.highLatency)

(* On a link that loses nothing every failure mode ends as the tests say:     *)
(* what is skipped at first is re-requested, what never comes is reported     *)
(* missing, and a vehicle that does not answer is reported; and so it stays.  *)
OutcomesAsTested == <>[](begun = "Yes" => Expected \/ troubles > 0)

===============================================================================
