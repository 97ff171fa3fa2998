# Verification of the ground station's vehicle protocols

This directory holds TLA+ models of the parts of shift-qgc, a QGroundControl fork, that
talk to a vehicle over an unreliable link and keep track of what it said; TLC
configurations that check them on small instances; and TLAPS proofs for instances of
every size. Paths are relative to `src/src/` of the repository unless they say otherwise.

The program is C++ with QML views, and that is what is modelled. The repository's `.ts`
files are Qt translations: XML tables of texts, with no behaviour to model.

## The system

QGroundControl is a single event loop. Almost every class with state is a Qt object living
in the main thread: it sends a MAVLink message, arms a `QTimer`, and goes on in the slot
that runs when an answer or the timer arrives. Hardly anything here is a data race.
What is hard is the order of events: answers that are lost, late, repeated or meant for
somebody else, timers that run out with the answer on its way, the link or the vehicle
going away in the middle, callbacks that start the next operation before the last has
finished, and two users of one slot.

| Component | State | Operations and handlers | Talks to | What makes it correct |
|---|---|---|---|---|
| **Plan transfer** `MissionManager/PlanManager.cc`, `MissionManager.cc` (and the fence and rally managers built on it) | the open transaction, the answer expected, retry count, indices still to read and to write, item list, write list | load, write, resume, remove all, guided item; MISSION_COUNT, ITEM, REQUEST, ACK; ack timer | vehicle; plan master by signals | a success is one; the list is whole and in order; a transaction always ends, and never hangs without a timer |
| **Simulated vehicle's missions** `comm/MockLinkMissionItemHandler.cc` | the items, write count and index, failure mode | the same messages seen from the other side | plan transfer | each failure mode fails what the tests say |
| **MAVLink commands** `Vehicle/Vehicle.cc` (2990–3400) | list of commands waiting for COMMAND_ACK, the one wait slot for a message | send command, request message; ack, message, check timer | vehicle; callers by handlers | each caller is told exactly once, the right thing |
| **FTP download** `Vehicle/FTPManager.cc` | state machine, expected number and offset, list of holes, retry count, local file | download, cancel; answers by state; ack timer | vehicle's FTP server; component information, parameters and camera by signals | a success is the whole file; every download ends and is reported once |
| **Simulated FTP server** `comm/MockLinkFTP.cc` | open file, last reply, failure mode | open, read, burst, terminate, reset | FTP download | recognises a repeated request |
| **Plan master and plan editors** `MissionManager/PlanMasterController.cc`, with Mission-, GeoFence- and RallyPointController | which transfers come next, what is shown and unsent, the managing vehicle; once for the plan view, once for the fly view | upload, download, remove all, resume, guided item, edits, files; completion slots; vehicle changes | three plan managers per vehicle | no edit is lost unasked, no part of a plan is skipped silently, the views show what the vehicle has |
| **Initial connection** `Vehicle/InitialConnectStateMachine.cc`, `StateMachine.cc` | state index, first loads left | one request per state; `advance()` from every answer | commands, component information, parameters, plan managers | nothing is skipped, and it always waits for the answer its state asks for |
| **Parameters** `FactSystem/ParameterManager.cc` | facts, waiting lists with retry counts, batch queue, two timers, cache file | load by list, cache or FTP; read, write, refresh; PARAM_VALUE, hash, timers, downloads | vehicle; FTP on ArduPilot | something waits until the load has ended, but for named gaps; ready means complete; what is shown is what the vehicle has |
| **Links and vehicles** `Vehicle/VehicleLinkManager.cc`, `MultiVehicleManager.cc`, `comm/LinkInterface.cc`, `LinkManager.cc` | each vehicle's links and which are lost, the primary link, reference counts; vehicles, the active one, those being deleted | link heard, silent, removed; check timer; vehicle appears, is made active, is deleted (20 ms timers) | every component above | traffic is on a link that works, a loss is noticed, the active vehicle exists |
| **Audio communications** `OceanSled/AudioCommsService.cc` | level and on/off shown | HTTP requests and replies | a network service | the buttons show the speaker's state |
| **Log download** `AnalyzeView/LogDownloadController.cc` | bitmap of blocks, timer | list, data, cancel | vehicle | as FTP download |

Not protocol logic, and left out: telemetry decoding, facts and settings, camera, gimbal
and video, terrain tiles, firmware upgrade, map tiles, survey geometry, user interface,
vendored and generated code. `PROJECT.json` lists each with its reason.

How they interact: the plan master starts the managers' transactions one after the other
and continues in their completion signals. The initial connection starts commands, FTP
downloads, the parameter load and the first plan load in the same way. All send
through the vehicle's primary link, which may be gone at any moment, and all see every
message of the vehicle. The active vehicle decides whose managers the views are
connected to.

## Modules

| Module | Models |
|---|---|
| `MissionProtocol` | mission items, mission messages, the link's two directions |
| `PlanManager` | the ground station's side of a plan transfer |
| `MissionItemHandler` | the vehicle's side, by the simulator |
| `PlanTransfer`, `PlanTransferMC` | the two joined by the link; the properties |
| `PlanStore` | what a plan transfer promises, without messages and timers |
| `PlanTransfer_proofs` | theorems about `PlanTransfer`, and that it implements `PlanStore` |
| `MavCommands`, `MavCommandsMC` | commands and message requests |
| `MavCommands_proofs` | theorems about `MavCommands` |
| `FtpDownload`, `FtpDownloadMC` | FTP manager and simulated server |
| `FtpDownload_proofs` | theorems about `FtpDownload`: the manager's state |
| `FtpPackets_proofs` | and with the packets in flight |
| `PlanManagers` | the vehicles' mission, fence and rally point managers, each reduced to what `PlanStore` promises |
| `InitialConnect` | the connection's state machine, over `PlanManagers` |
| `PlanMaster`, `PlanMasterMC` | both views over several vehicles, over `InitialConnect` |
| `PlanMaster_proofs` | theorems about `PlanMaster` and `InitialConnect` |
| `VehicleLinks` | the links of each vehicle |
| `MultiVehicle`, `MultiVehicleMC` | the vehicles and the active one, over `VehicleLinks` |
| `MultiVehicle_proofs` | theorems about `MultiVehicle` |
| `ParameterManager` | the parameter manager's handlers |
| `Parameters`, `ParametersMC` | these joined with a vehicle, a link, the cache and FTP |
| `Parameters_proofs` | theorems about `Parameters` |
| `AudioComms`, `AudioCommsMC` | the speaker's buttons and requests |
| `AudioComms_proofs` | theorems about `AudioComms` |

In each, the variables are the members of the class (the comment beside a variable gives
the member's name), an action is one slot run to its end with everything it calls, and
the data is cut down to what the code compares: a mission item to its command and DO_JUMP
target, a file to numbered blocks, a command to its component and id, a parameter's value
to its age.

Where a slot calls other functions that change the same members again, in an order
that matters (`MavCommands`, `FtpDownload`, `ParameterManager`), the functions
are operators on a record of the members and the action assigns what comes out.

### Plan transfer

`PlanManager` has one action per operation (`LoadFromVehicle`, `WriteMissionItems`,
`GenerateResumeMission`, `RemoveAll`, `WriteGuidedItem`), per message handler
(`HandleMissionCount`, `HandleMissionItem`, ...) and per case of `_ackTimeout`.
`_checkForExpectedAck` stops the ack timer when the message is of the expected kind; a
handler below it is the whole rest of the slot, up to the timer armed again or
`_finishTransaction`. `FinishTransaction` emits into the variable `signals`, which holds
what the last step reported, so that properties can speak of a report at the step that
makes it. `_itemIndicesToRead` and `_itemIndicesToWrite` are lists the code only appends
ascending numbers to and removes from by value, hence sets.

DO_JUMP targets are numbers of items. The editor counts home as item 0, vehicles other
than ArduPilot's do not get a home item, and the code adds or subtracts one on the way:
the only item content the model keeps besides the command.

`MissionItemHandler` is the simulator's vehicle, with all its failure modes; a reading of
an item it does not hold inserts a blank one, as `QMap::operator[]` does. Its answer to a
guided item is not in the simulator and is taken from what `PlanManager` expects of
ArduPilot.

The link (`MissionProtocol`) is a FIFO in each direction that may lose its oldest message
(a send without primary link is a loss too), may repeat answers, and may bring messages
of another `mission_type`, left by a fence or rally transaction with the same vehicle.
Timers: the 250 ms item timer is shorter than a slow link's round trip and may fire with
the answer on its way; `LateAcks` names the waits for which this is so. For the others,
1500 ms, the model lets a timer fire only when nothing is on its way. `plan_px4` also
allows it for MISSION_COUNT.

`PlanStore` is the abstract specification: a plan at the ground station, one at the
vehicle, at most one pending operation. A read makes the first a copy of the second or
leaves nothing; a write or removal makes the vehicle's a prefix of the plan and, when
reported a success, all of it. `ImplementsStore` is the refinement; its mapping hides
partial reads.

### MAVLink commands

`MavCommands` keeps `_mavCommandList` as a sequence of entries and `requestMessage`'s
single wait slot as `waitFor` and `waitTimer`. Slots call handlers and handlers call back
into the list, so these are functions of the record of all tracking variables. Time is counted in periods of the 500 ms check timer: an
entry's elapsed time, the wait's time. `requests` are the `RequestMessageInfo_t` objects
the code allocates per request. `sends` and `answers` are not in the code; they
record how often a command went out and which call an ack really answers. Two facts about the code keep the model smaller than it might be: the
branch that returns early for a repeated START_RX_PAIR cannot be reached, as that command
is given up before its second try (it is not in `_sendMavCommandShouldRetry`), and handlers called from the backward walk
of the timeout check append to the list only behind the position the walk has reached.

### FTP download

`FtpDownload` has the whole state machine of a download: open, burst read, filling
holes, reset, and terminate after a cancel. An answer is taken by the state's function when its
opcode and number fit; those functions call the next state's begin function. A file is a number of blocks; a block is a packet's
payload (the simulated server always fills packets but for the last). `local` is the set of
blocks in the local file, each named with the file it came from, so that a block of
another download would show. Sequence numbers are modulo `SeqNumbers`, 64 in the runs
for 2^16 in the code: more than twice what is in the air at a time, which is all the
test for old packets depends on. The server recognises a repeated request
by its number, as `MockLinkFTP` does, and has one session. The caller cancels from the
progress signal (`ComponentInformationManager.cc:386`), that is while a download is under
way.

### Plan master, editors and initial connection

`PlanManagers` keeps, per vehicle and plan element (mission, fence, rally points), the
transfer in progress, what the manager holds and what the vehicle has: the interface that
`PlanStore` describes and `PlanTransfer` implements. A plan element's content is one
value.

A signal calls its slots in the order they were connected, a slot may call further
functions or start a transfer, and nothing else runs meanwhile. `calls` is that stack:
an action that needs it empty is an event from outside, an action that needs its own
name on top is a slot. So `TransferEnds` pushes the slots of both views that are connected to the vehicle's
manager (the master's before the controller's, as `_activeVehicleChanged` connects them)
and of the initial connection, and each of `LoadComplete`, `SendComplete`, `NewItems`,
`ManagerComplete`, `FirstLoadComplete` and `Advance` runs one of them.

`PlanMaster` has the flags `_loadGeoFence`, `_loadRallyPoints`, `_sendGeoFence` and
`_sendRallyPoints` as a set `chain` per view; `items` and `dirty` are the editors'
contents, `itemsRequested` the controllers' flags, `prompting` the plan view's question after a
vehicle change. The user's operations are enabled as the QML enables them. `Forget`,
within `VehicleGoes`, is the vehicle's destruction with its managers. `drawn`,
`uploading`, `uploadTo` and `failed` are history, for the properties.

`InitialConnect` has the eight states. Each asks for something or skips to the next;
answers call `advance()`, whose only idea of who calls is the present state.

### Links and vehicles

`VehicleLinks` keeps per vehicle the links in `_rgLinkInfo`, those marked lost, the
primary link, `communicationLost`, and whether a high latency command waits for its ack
(the command list is `MavCommands`'; here it is one slot, refused while taken), and
`communicationLostEnabled`. While that is off the one second check returns at once (`VehicleLinkManager.cc:102`).
APM calibrations and log downloads of the active vehicle switch it off (`BusyBegins`)
and on (`BusyEnds`).
`PrimaryAfter` is `_updatePrimaryLink` with `_bestActivePrimaryLink`; the code takes the
first of its list and the model any of the best kind. `UserPicksPrimary` is its setter,
`setPrimaryLinkByName`, under the condition for the menu, which is there when a vehicle has several links. The menu of
`LinkIndicator.qml` hands over the name followed by the status, which no link is called: as it stands a
pick changes nothing, and the model has both the pick that works and none at all. `references` counts a link's
vehicles; the last to leave closes it.

`MultiVehicle` adds MultiVehicleManager: a vehicle is created at its first heartbeat;
making one active and deleting one both end in a 20 ms single shot. These timers all
have the same length, so `singleShots` is a queue. `LinkDisconnected` is delivered to each
vehicle in its own step.
`Id` lets two objects stand for one vehicle, one of them being deleted while the next
one is created.

### Parameters

`ParameterManager` is the object: each handler an operator on the record `pm` of its
members. The waiting maps are functions from parameters to retry counts; the batch
queue holds indices without their component, as the code's does. `Parameters` joins it
with MockLink's side (`HandleParamRequestList`, `ParamRequestListWorker`, ...), a FIFO
link in each direction, the cache file of an earlier session, and FTPManager reduced to
a download that reports progress and ends one way or another, refuses a second, and calls
whoever is connected. PX4 sends its hash before the list and stops when the hash comes
back; ArduPilot's parameters come by FTP first. A value is its age: 0 is what the vehicle has at first, n what the user's
n-th request wrote, -1 comes from an earlier session. Two members of `pm` are history, for the
properties: `hashed`, that the list came to the hash, and `refused`, that FTPManager refused a
second download while it had one.

Two facts of the code worth knowing: what `refreshAllParameters` sets for a high latency
link is followed by the request all the same (only the list timer is kept from
running); and `_handleParamValue` takes any value with the right name for the answer to a write.

### Audio communications

`AudioComms` has the four requests and their replies. A request is served by the speaker
at one moment and its reply finishes, or fails, at a later one, in any order among
requests. `sure` and `doubt` are history: which requests had no other about the same
under way, and what the station cannot know since two crossed or an answer was lost.

## Runs

Each `.cfg` belongs to one MC module; `PROJECT.json` has the full list and, for every
property, a plausible mistake in the code (an operator marked `mutant` beside the right
one) under which the property fails.

| Run | Shows |
|---|---|
| `plan_apm` | ArduPilot missions over a lossy link, early item retries, foreign messages: a read without error brings exactly the vehicle's items (`ReadBringsThePlan`), every transaction ends (`TransactionsEnd`), the whole implements `PlanStore` (`ImplementsStore`) |
| `plan_px4` | PX4 missions with jumps, late and repeated answers to reads: no transaction hangs (`WaitsForAnAnswer`), no item twice (`EachItemOnce`) or skipped (`NoItemMissing`), a reported success is one (`SuccessMeansStored`) |
| `plan_failure_modes` | under each failure mode of the simulator, for plans of every small size, exactly the transactions fail that `MissionManagerTest.cc:240-252, 286-297` lists (`OutcomesAsTested`); the test has one plan |
| `mav_sequential` | callers that wait for one another, lossy slow link, progress reports, another component's messages: no call loses its timer (`NoCallForgotten`), a handler is told the truth: the message asked for, or a failure for want of a response after all tries (`ResultsAreTrue`), no call waits for ever (`EveryCallAnswered`) |
| `mav_colliding` | callers that do not know of each other, a link that comes and goes, prompt acks: a handler is called once at most (`AtMostOneResult`), nothing of a reported call is kept (`NothingPendingAfterResult`), an ack ends the call it answers (`AckIsForThisCall`) |
| `ftp_download` | downloads with losses, a reordered packet, a late answer, an outage, a cancel, disk errors and every server failure mode: a success is the whole file (`DownloadedFileIsWhole`), blocks and holes add up at each step (`EveryBlockAccountedFor`), a timer runs exactly while a download does (`AlwaysWaits`), each is reported once (`ReportedOnce`), losses alone fail none (`LossesAreMadeGood`), and every download ends (`EveryDownloadEnds`) |
| `plan_master` | vehicles that connect, go and come again, and a user who edits, uploads, downloads, clears, resumes and changes the active vehicle between transfers: a sequence goes on only from the transfer it waits for (`FlagMeansTransfer`), no edit is lost unasked (`EditsKept`), a connection waits for exactly what it asked for (`ConnectWaits`), the fly view shows what the vehicle has (`FlyViewFollows`), an upload brings all but what failed (`UploadArrives`) |
| `vehicle_links` | a vehicle on a USB, a radio and a satellite link and one that shares the radio; links are unplugged, lost and heard again, vehicles closed and made active, one calibrated: traffic follows the links that work (`PrimaryFollowsLinks`) and is not moved without need (`NoNeedlessSwitch`), a loss is noticed unless its detection is switched off (`LossIsNoticed`), a shared link stays open (`UsedLinksStayOpen`), the active vehicle exists (`ActiveIsAlive`) and is there if any is (`ActiveWhenAny`) |
| `parameters` | PX4 and ArduPilot vehicles with a second component and each failure mode; a link that loses, delays and goes; a cache that is stale or of no use; a user who writes and refreshes: the load ends, complete or reported, or is stranded in one of four named gaps for good (`LoadEnds`); outside these something waits until then (`NeverAbandoned`), ready means complete (`ReadyMeansComplete`), what is shown is what the vehicle has (`FactsAgree`), and failure modes end as `ParameterManagerTest` says (`OutcomesAsTested`) |
| `audio` | a speaker found near either end of its range, presses of all buttons, requests served and answered in any order or failing: the buttons show the speaker's state but for named troubles (`ShownIsTrue`), each press counts once (`PressesCount`) |
| `finding_overlap`, `finding_switch` | disagreements of the code with its own comments, see below |

Every module has one type invariant. `plan_apm` and `vehicle_links` check theirs as `TypeOK`;
in the other modules `TypeOK` is the first conjunct of a checked invariant
(`ResultsAreTrue`, `EveryBlockAccountedFor`, `ConnectWaits`, `NeverAbandoned`), except
in `AudioComms`, where it is proved.

### Bounds and why they are enough

*Plan transfer.* Plans have home and up to two items, or three in `plan_failure_modes`
where the early ack comes at an index of two instead of three. Nothing in the code
distinguishes items but first, last and the ones between; three cover them. Two or three messages in a direction: the
protocol is stop and wait, so a second is always a retry's or a stranger's. Retry limits 0
and 1 for 5: both sides of the test and its off-by-one are met, each retry repeats the
same step. One repeated or foreign message per behaviour, at any point of it. Losses are
not bounded.

*MAVLink commands.* Three calls that follow one another, or five that collide: two
requests, two equal commands that may be sent twice, one to all components. Calls are made once
each; a handler that calls again is a further call. Retry limit 2 for 3, timeouts of one
period; the state of a call that has been reported does not come back into play.

*FTP.* Files of six blocks and one, five blocks to a burst (nine in the code): a file of several bursts, one whose burst ends
with the file, a burst long enough that a packet left of it is numbered ahead of the next download's
(with four blocks to a burst TLC does not find the second fault listed below), holes of one block and of more, at the beginning, in the middle and at the
end. Two losses, one of each other trouble, three troubles in all. Retry limit 2 for 3: losses
alone reach it and must not fail a download; with an outage, or a server that does not
answer, it is passed.

*Plan master.* Three vehicles: one with all elements and ArduPilot, one without fence, one on a
high latency link. Four events in all: vehicles coming, changes of the active one,
outages, requests, edits. The shortest ways to break each property take two or three
(the mutants), and no more than two views and two vehicles take part in any slot. Transfers, their
outcomes and vehicles that go are not bounded.

*Links and vehicles.* Two vehicles and one link of each kind, the radio shared. `MaxTimers`,
`MaxClosing` and `MaxDangling` are 1: the user switches when no other switch is under
way, one link at a time has been closed without every vehicle knowing, and one
reference may be left over. `BusyVehicles` is one of the two: one is calibrated, and the other is not. Links neither come nor go in the 20 ms of a deletion
(`QuickLinks`): otherwise `allLinksRemoved` can fire twice for one object, which is then
deleted twice, and what follows is undefined in the code. None of these bounds is used in the proofs.

*Parameters.* Two parameters of the autopilot, one volatile, and one of another
component: the last of a component, the last of all and one in the middle. Retry limits 1
for 4, 5 and 5, batches of 1 for 10 (`MaxBatchSize` 0: the code compares with > after
adding). Three events in all: losses, timers that outrun an answer, downloads that fail,
unasked values, outages, writes, refreshes.

*Audio.* Four presses, from levels at both ends and in the reach of them.

Runs without a deadlock check (`CHECK_DEADLOCK FALSE`): the system rests when all
downloads are done, the events are used up, or no button is pressed any more.

### Fairness

Timers started fire, arrived messages are delivered, the vehicle answers what it has
received: weak fairness of each, which the event loop and a working vehicle give. Nobody
is obliged to start, cancel or lose anything, and, but in `Parameters`, no link need come back.

- `MavCommands` needs one thing more: `requestMessage`'s wait is looked at only when some message arrives
  (`Vehicle.cc:3319`), so `EveryCallAnswered` holds because telemetry keeps coming
  (`ReceiveUnasked`). A vehicle gone silent leaves the caller waiting.
- `MultiVehicle`: the one second check of each vehicle is run again and again; it is
  enough that those which find no further silent link are. They do nothing while detection is
  switched off, and nobody is obliged to switch it on again.
- `Parameters`: a timer is obliged to fire only while nothing is under way, that is
  when nothing else will happen; a download makes progress and ends, which is
  `EveryDownloadEnds`; an outage ends.

In `FtpDownload` and `Parameters` weak fairness is written with its condition spelled
out, `[]<>~guard \/ []<><<A>>_vars`: those actions change the state whenever their
guard holds, so the guard is ENABLED, and TLC checks the formula many times faster.

### What the runs needed to be told

These are limits of the code or of MAVLink, met while modelling, and conditions of the
properties above.

*Plan transfer*
- `SuccessMeansStored` and `ReadBringsThePlan` fail if the link may repeat a
  MISSION_ACK, or a MISSION_COUNT across transactions: neither message says what it
  answers, so the code cannot tell. Runs repeat answers of the same read only, or where the
  property does not depend on it.
- The simulated vehicle counts received items without looking at their numbers; a
  repeated MISSION_REQUEST makes it miss the last. MISSION_REQUEST is not repeated.
- A MISSION_COUNT for an empty plan is not sent again if lost, against the comment at
  `PlanManager.cc:209`; a guided item whose ack is lost ends as a failed upload
  (`PlanManager.cc:241`), against the one at 825. Both take one lost message; the model
  contains both steps.
- After a write to PX4 the list keeps DO_JUMP targets in the vehicle's numbering, one
  lower than a read brings (`PlanManager.cc:837`), where line 828 calls it current.

*MAVLink commands*
- `AckIsForThisCall` needs acks that come within the timeout, and one ack per command:
  COMMAND_ACK has the command only. Any result ends the wait, IN_PROGRESS too, and the
  final ack may then end the next call of that command.
- The right message is one of the right id. Another component's message of that id is
  taken too (`Vehicle.cc:3313`).
- A command sent without a primary link is never reported to its caller
  (`Vehicle.cc:3086`). `NoCallForgotten` is checked where the link stays.
- A retry does not restart the entry's elapsed time, so the third try follows the
  second after one check period (`Vehicle.cc:3205`); the comment at 3031 has it 3 seconds later.

*FTP*
- `DownloadedFileIsWhole` without a size check, and the hole accounting after the last
  burst, hold only if answers keep step with requests (`InStep`: no timeout that outruns its answer, no outage).
  A repeated request brings a second burst whose numbers run in parallel, and the end of
  that one is taken for the end of the file. `ParameterManager` downloads without the check.
- With the check it still needs that the packets taken are this download's own. The manager tests
  number and opcode only, and these let another file's packets through in two ways:
  - After an outage. A repetition takes two off the expected
    number (`FTPManager.cc:321`) even when there is no link and nothing is sent (604), so
    the numbers start earlier than the server's last reply; the next download's
    open may carry the number of the open before it, the server takes it for a repetition and
    answers with the other file's size.
  - After a download broken off in a burst, by a disk error or a cancel. The rest of the burst is still
    coming, numbered ahead of what the next download begins with. If the answer to the next
    open overtakes one of these packets, it is taken for a packet of the next file's burst.

  In both the download succeeds, at the expected size, with the other file's blocks. `OwnPackets`
  names what leaves this out: no outage and nothing reordered, or answers in step and no opened download
  before this one that failed. `AnswersAreOurs` says that it is enough: an answer that passes the tests
  for number and opcode is then about the file wanted.
- One packet lost at the wrap of the 16 bit sequence numbers leaves a download with no timer
  (`FTPManager.cc:348`: a plain comparison after the wrap-safe one). The runs' files end before.
- The simulated server takes a terminate that happens to have the number of the request
  before its last reply for a repetition, so a cancelled download may end as failed
  (`LossesAreMadeGood` leaves cancels out).
- `download()` with a URI that cannot be parsed leaves the state machine filled: every
  later download is refused (`FTPManager.cc:55`). `ReportedOnce` counts these as refused.

*Plan master and connection.* `Disturbances` names what `plan_master` leaves out, as a
property is false with it. TLC finds each of these within five events on two vehicles, and the
proofs show that nothing more has to be left out:
- `"vehicles"`, changes during a transfer or connection: `FlyViewFollows`, as
  `showPlanFromManagerVehicle` waits for a signal of the vehicle it was called for;
  `FlagMeansTransfer`, which is `finding_switch`, and with it `UploadArrives`; `EditsKept`, as a
  download asked of the old vehicle stays asked for when the new one's first plan comes.
- `"requests"`, uploads and downloads during a connection: `ConnectWaits`. The state's own
  load is refused, nobody looks at that, and the machine waits for ever. A view shown a
  vehicle in the middle of its connection forces `initialPlanRequestComplete`
  (`PlanMasterController.cc:609`). And a removal asked for in the fly view during an upload or
  download, which refuses the next transfer of the sequence and leaves its flag set:
  `FlagMeansTransfer`, `UploadArrives`, and `EditsKept` when the next vehicle's fence has come.
- `"edits"`, during a transfer: `EditsKept`, as the end of the mission's transfer marks the plan as
  unchanged (`PlanMasterController.cc:293`): an edit made during an upload is shown as sent.
- `"removals"`, removing a plan fails: `EditsKept`, as the controller still counts the next load as asked for.
- `ConnectWaits` leaves connections with an outage out: `refreshAllParameters` returns
  without a word when there is no primary link (`ParameterManager.cc:507`), and nothing
  advances the machine any more.

*Links and vehicles*
- While detection is switched off no loss is reported, as `VehicleLinkManagerTest.cc:133-136`
  expects. `LossIsNoticed` therefore says that again and again a vehicle which has lost all its links is
  shown as lost, if its detection is on. `LogDownloadController` switches detection on for the
  vehicle it has at the end (659, 670); when the active vehicle has changed during a log
  download (`_setActiveVehicle`, 134) that is another one, and the first stays without detection.
- The command that switches a high latency link on is refused as a duplicate while the
  one that switched it off waits for its ack, up to 120 s (`VehicleLinkManager.cc:319`,
  `Vehicle.cc:3064`): a satellite link may take over without being told to transmit.
  No property is about it. A user who picks such a link sends nothing at all (366).
- `communicationLost` is cleared only when no link at all is lost (`VehicleLinkManager.cc:84`):
  a vehicle heard on one of two links stays shown as lost.
- `_activeVehicleAvailable` is cleared by the deletion of any vehicle and not set again by
  the phase 2 that makes the next one active (`MultiVehicleManager.cc:211`).

*Parameters.* There are four ways to a load that never ends and tells nobody, each a
named predicate. `NeverAbandoned` allows them only with no timer running and no download to
call back (`Stranded`), and `LoadEnds` only if it stays so for good:
- `Deafened`: the parameter file was asked for again while it was coming and FTPManager
  refused; the disconnect that follows cuts off the first download's end, whose progress has stopped the list timer.
- `OnlyHash`: PX4's hash has come and stopped the list timer, the cache was of no use, and no value has
  come, of any component.
- `OnlyOthers`: another component's parameters came and none of the autopilot's, in two rounds.
- `OthersForgotten`: the download stopped the timer on which another component's missing parameters depend.

Nothing else is excused. A PX4 vehicle that never answers needs the list timer and its report, and so does
ArduPilot after a download that failed, was broken off or found no file: `_ftpDownloadComplete` (478-490) tries once more or
falls back to the conventional list, and has to start the list timer either way.

`FactsAgree` leaves out volatile values, which the cache gives unread, and disputed writes:
those that an earlier answer of the same name has ended, and those nothing watches over. The
second kind was found while proving it. A parameter file that breaks off leaves the facts read so far
without their component's waiting lists, and another component's values can complete the load all the same;
a write of such a fact goes out with "component id not found"
(`ParameterManager.cc:417`) and, when lost, is neither repeated nor reported. Seen and not made a
property: a parameter file that arrives drops all pending writes (`ParameterManager.cc:1607`);
indices of two components share the batch queue's places; a refresh after the load starts no timer for lists it resets.

*Audio.* After two requests have crossed the status is not asked for again: the doubt
lasts until the next request that is alone. A level of 0, which a status may report, is never left again
(`AudioCommsService.cc:81`), as `volumeUp` refuses it while its button is enabled.

### Findings

| Run | The code | What it says of itself |
|---|---|---|
| `finding_overlap` | a second `requestMessage` takes the only wait slot; the first is never reported | "Calls timeoutHandler if not received", `Vehicle.h:1286` |
| `finding_switch` | the active vehicle changes during an upload; the sequence's flag stays set, and the end of a transfer with the new vehicle sends it the rest of the plan | "We use these signals to sequence upload and download to the multiple controller/managers", `PlanMasterController.cc:149` |

## Proofs

`PlanTransfer_proofs` proves, for every set of plans, capacity of the link, retry
limit, set of early timers, failure mode and firmware that satisfies the named
assumptions of the modules:

| Theorem | States |
|---|---|
| `TypeCorrect` | `[]TypeOK`; the retry count stays within its limit plus one |
| `AlwaysWaits` | `[]WaitsForAnAnswer`: an open transaction always has its timer armed |
| `NeverOutOfIndices` | `[]SomethingLeftToRead`: `_requestNextMissionItem` is never reached with no index open |
| `ItemsOnce`, `ItemsWhole` | `[]EachItemOnce`, `[]NoItemMissing`: numbers in the list and open indices partition 0 .. n-1 |

The argument has two layers. The inductive invariant is `IInv == TypeOK /\
WaitsForAnAnswer /\ SomethingLeftToRead`. `TypeOK` alone is not inductive: the retry of
an item asks for the first of the open indices, which is a number only if there is one;
that there is one is `SomethingLeftToRead`, which holds because the last item ends the
read in the same slot, and only as long as an armed item timer means an open read, which
is `WaitsForAnAnswer`. One lemma per group of actions (starts, answers, timeouts,
vehicle, link) shows that it is kept.

On top of it, `ListInv` says that list and open indices partition an interval
(`Partition`), that nothing is open outside a read, and that the write list is numbered
in order, which is needed because a write that succeeds becomes the list.
`PartitionStart`, `PartitionTake` and `PartitionWhole` are the facts about intervals and cardinalities
the steps rest on.

Its second half goes on to what a transfer promises, for the same constants:

| Theorem | States | Assumes |
|---|---|---|
| `WriteInvariant` | `[]WriteInv` | `WriteConditions` |
| `SuccessIsStored` | `SuccessMeansStored` | `WriteConditions` |
| `ReadInvariant` | `[]ReadInv` | `ReadConditions` |
| `ReadsBringThePlan` | `ReadBringsThePlan` | `ReadConditions` |
| `TransferImplementsStore` | `ImplementsStore` | `ReadConditions` |

The conditions are those of the runs and are needed (see "What the runs needed to be
told"): the simulator's failure modes are off, the timers of a write outlast the round
trip, and nothing is repeated but messages of a read (`WriteConditions`, which `plan_px4`
meets); of a read only items come late or twice (`ReadConditions`, which `plan_apm` meets).

`WriteInv` follows the one message of a write or removal that is in the air: no more than
one of its requests and answers is, and which one it is, with the index in it, says how many
items the vehicle has stored and which; the final ack is in the air only with the whole list
stored. `ReadInv` does the same for a read, where more may be in the air: the count comes
alone, nothing of the read is behind it, the items in the air are the vehicle's, and the list
read so far is the beginning of the vehicle's plan with exactly the rest still open. Both are
kept by each group of actions over a set of lemmas about a link that loses, repeats and delivers
in order.

For the refinement, `PendingIs` and `GcsPlanIs` give the abstract variables by the open
transaction. Each action is shown to be one of `PlanStore`'s steps (`StoreStep`) or a stutter: a
transaction begins where it sends its first message, an item the vehicle takes up is `VehicleStores`,
and the step that reports the end is `Succeed` or `Fail`. That a resumed mission is one `PlanStore` may be asked to write is not plain: it
is a selection from the list, which a read has brought from the vehicle, which a write
has stored there. `PlansInv`, stated on the abstract variables alone and kept by
`PlanStore`'s own steps, says so.

`MultiVehicle_proofs` proves, for every set of vehicles and links, whatever the bounds,
and with links that come and go at any time (`QuickLinks` either way):

| Theorem | States |
|---|---|
| `TypeCorrect` | `[]TypeOK`; a lost link is one of the vehicle's and never a high latency one, the primary link is one of the vehicle's or none |
| `ActiveExists` | `[]ActiveIsAlive`: neither the active vehicle nor the one a timer will make active is a deleted object |
| `SomeActive` | `[]ActiveWhenAny` |
| `PrimaryAlwaysFollows`, `NoSwitchWithoutNeed` | `PrimaryFollowsLinks`, `NoNeedlessSwitch` |
| `OthersKeepTheirLinks` | `UsedLinksStayOpen` |

Here `IInv == LinksTypeOK /\ ManagerInv`. That the active vehicle exists rests on the
order of the timers: a vehicle made active before its deletion began is put in place
before the deletion removes it. `TimersMatch` says so: the j-th vehicle being deleted has
its own "Delete" timer, in the same order, and there are no others; and a vehicle that a
"SetActive" timer would make active is connected, or is deleted only by a later timer.
`PrimaryChoice` is the
lemma about `_updatePrimaryLink` that both link theorems rest on. `OthersKeepTheirLinks`
needs `ReferencesCover` besides: an open link has at least as many references as users,
and a vehicle that does not exist has no links.

`AudioComms_proofs` proves, for every set of levels and any number of presses:

| Theorem | States |
|---|---|
| `TypeCorrect` | `[]TypeOK` |
| `ShownAlwaysTrue` | `[]ShownIsTrue` |
| `PressesAlwaysCount` | `[]PressesCount` |

`IInv == TypeOK /\ Numbered /\ \A A \in Aspects : Known(A)`, for the two aspects
"Speaker" and "Volume". `ShownIsTrue` alone says nothing of requests under way. `Known(A)`
does: a request that is sure of A is the only one about A, and once served its answer tells
the speaker's state; and where A is not in doubt every request about A is sure, and the
buttons are right or such an answer is still to come. `Numbered` (no request has a number above
the presses so far) makes a new request differ from those under way. One lemma per action. `PressesCount` needs
`Counted` on top: the only status request is the first, no volume request goes out before it
has brought the level, and as long as none failed or was hurried there is at most one,
which asks for the level due.

`MavCommands_proofs` proves, for every set of calls and commands, every limit, and handlers
that make further calls from inside any slot:

| Theorem | States | Assumes |
|---|---|---|
| `TypeCorrect` | `[]TypeOK` | |
| `OneResultAtMost` | `[]AtMostOneResult` | |
| `ReportEndsCall` | `[]NothingPendingAfterResult` | |
| `EveryCallIsWatched` | `[]NoCallForgotten` | callers that wait for one another, a link that stays |
| `ResultsTellTheTruth` | `[]ResultsAreTrue` | the same |
| `AcksFindTheirCalls` | `[]AckIsForThisCall` | acks within the timeout, one per command |

The assumptions are those of the runs; `finding_overlap` and the notes above say what
happens without. As the slots are functions of the tracked record, so are the invariants: each is a
predicate of the record (and of what is in flight), with one lemma per function saying that it keeps the predicate.
`Once` is the core: the calls in the list differ, a listed or awaited call has no result,
none has two. `Tries` bounds how often a command has gone out and says that a failure for want of
a response comes after the last try. `Sound` says where an unreported call is:
listed, or acked and in the wait slot with its timer running. `Mine`, `NoTwins` and `Flight`
say that a command in flight, or else its ack, is the only one of its call, and that call still
listed, so that the ack finds it and no other. The timeout check walks the list backwards while the handlers
it calls append behind the walk; `WalkedFacts` is the rule for this loop, by induction on the
position (`UpToInduction`, proved for sets from the library's theorem that the naturals are
well-founded), with the invariant of the loop as a set.

`FtpDownload_proofs` and `FtpPackets_proofs` prove, for every list of downloads and their sizes, every burst length,
range of sequence numbers, retry limit and number of troubles:

| Theorem | States | Assumes |
|---|---|---|
| `TypeCorrect` | `[]TypeOK` | |
| `ReportedExactlyOnce` | `[]ReportedOnce` | |
| `BurstsAreAccountedFor` | `[]BurstAccountedFor`, the first part of `EveryBlockAccountedFor` | |
| `HolesAreAccountedFor` | while filling: blocks and holes are disjoint and together a beginning of a file; the block asked for is the first hole's | |
| `TimerAlwaysRuns` | `[]AlwaysWaits` | `[]NumbersInOrder`: no packet taken has a number before the one expected |
| `TimerRunsInFirstHalf` | `[]AlwaysWaits` | `[]FirstHalf`: the numbers have not gone half way round |
| `OwnBlocksOnly` | a file handed over has blocks of the file asked for only | `[]AnswersAreOurs` |
| `CheckedFilesAreWhole` | `[]DownloadedFileIsWhole` | `[]AnswersAreOurs`, sizes compared and given rightly |
| `FullAccount` (this and the next two in `FtpPackets_proofs`) | `[]EveryBlockAccountedFor` | `Room`, `[]FirstHalf` |
| `WholeFiles` | `[]DownloadedFileIsWhole` | `Room`, `SizesRight`, `[]FirstHalf` |
| `RetriesMakeGood` | `[]LossesAreMadeGood` | `Room`, `SizesRight`, `[]FirstHalf` |

`NumbersInOrder` and `AnswersAreOurs` are where the code's tests for stale packets do not reach
(the wrap at `FTPManager.cc:348`, and the answers of an earlier download, above). The last three theorems
do without `AnswersAreOurs`: it is a part of `EveryBlockAccountedFor`, and follows from `OwnPackets`.
What they assume instead is `Room`, that there are four times as many numbers as a burst
and the request before it can use (4 * 11 of 65536 in the code, 4 * 7 of 64 in the run);
`FirstHalf`, that the numbers have not gone half way round, as the wrap is a finding of its own; and
`SizesRight`, that the server reports the real size of a file whose size is compared,
without which a whole file is refused. The inductive
invariant of the first theorems is `FtpInv == LinkInv /\ ManagerInv`. As in `MavCommands`, each of the state machine's functions has a lemma: it
leaves the download `Waiting` (busy, timer armed, `Account` kept) or `Over` (idle, reported
once). `Account(f, B, Z)` ties written blocks, holes and offsets together, with B where written
blocks may lie and Z the sizes a file may have: taken with all blocks and all numbers it holds without
any assumption, and with the file's own blocks and size it holds as long as answers are our own.
That the holes of a lost packet fill the gap exactly, and that filling one block of the first hole keeps
the rest, are `Solid`'s lemmas.

The last three need an account of every packet in flight. `OrderedInv` adds it to `FtpInv`, a part for
each of the things that may go wrong, so that each part assumes only that its own did not:

- `NumberInv` (no outage): a request in flight has a number before the expected one, and no answer in flight or
  kept by the server is ahead of it by two bursts, so that no test of a number is taken in by the wrap.
- `OpenInv` (no outage): the local file is open from the first burst on, and only a
  cancelled download is terminated.
- `OrderInv` (nothing reordered besides): an open asked, answered or remembered is stale or the one waited
  for, with its own size, and once bursts are read everything on its way is about the one file.
- `StepInv` (no early timeout, packets our own): one request is asked at a time, and each answer not
  stale answers it, one burst in its order, up to the last one, which the server keeps to repeat. So an
  `eof` is taken only when everything before it has been taken or recorded as a hole.
- `CleanInv` (no early timeout, no download broken off before): between downloads what an earlier one has left is
  stale, and the answers to the next open are its own.

On `OrderedInv` rest `OwnFiles` (the account of blocks, with the download's own blocks and
size), `WholeInv` (a file reported as brought is whole), `RetryInv` and `LossInv`: the retries used, and one more
when the answer awaited is not on its way, are no more than the packets lost, and so with `MaxRetry`
losses the last retry is not needed. The argument goes by what the manager does with a packet (drops it, keeps
it, moves on, quits) and what the server does with a request (repeats its last reply or answers), and
has one lemma for each of the two per part.

`Parameters_proofs` proves, for every set of components, parameters and values, every limit,
firmware, failure mode and cache file, any number of troubles and requests, with no assumption but
the modules' named ones:

| Theorem | States |
|---|---|
| `LoadInvariant` | `[]LoadInv`, with `TypeOK`, the batch's size and `Accounted` in it |
| `AlwaysWaitsForAnAnswer` | `[]NeverAbandoned` |
| `ReadyWhenComplete` | `ReadyMeansComplete` |
| `StationAndVehicleAgree` | `[]FactsAgree` |

The handlers are functions of the record `pm`; each has a lemma that says which members it
changes and that it keeps `PmInv`, a predicate of such a record. Its parts: `Accounted`
(a parameter of a component heard of is known, waited for or given up, which is why complete
means complete), `Waits` (what is waited for belongs to a component heard of, and the batch never has more
than `MaxBatchSize + 1` places), `Files` (which downloads there can be, and that nobody listens to one only after
a second was refused) and `Loading` (what an unfinished load goes on by). Two of them walk a list: the batch is filled parameter by parameter, and the cache is
loaded as if each value had come by itself. They are recursive functions over the
parameters in order (`InOrder`, shown to list each once), and each loop has an invariant, by
`UpToInduction`. `LoadInv` adds what ties the record to the link: before the load nothing is under way
(`Fresh`), and only PX4 sends hashes. `Pending` says, of either firmware, which of the two timers and the
download the load waits for once it has begun, or which of the four gaps it has fallen into, each as narrow as in
the property, and `NeverAbandoned` follows. `HeardFacts` says that the hash may end the list timer, as it only takes it into the second gap.

`FactsAgree` is about values, and values under way. `ValuesInv` takes the lasting parameters one by one. One
never written has its first value on the vehicle, on the station, in the file and in every message
(`NeverWritten`). No value of a write yet to come is anywhere (`NothingOfTheFuture`), so that a new
write differs from all before it. And of a write not disputed (`Holds`): behind its request there is none of another value, a
message or file with its value means that the vehicle has it, and until the vehicle has it it is waited for
or has been reported as failed. So when a value takes the write off the waiting list, either it is the one
written and the write has arrived, or it is another and the write is disputed.

`PlanMaster_proofs` proves, for every set of vehicles and plans, supported elements, any number of
events and with transfers that fail at any point:

| Theorem | States | Not in `Disturbances` |
|---|---|---|
| `TypeCorrect` | `[]TypeOK` | |
| `ConnectWaitsHolds` | `[]ConnectWaits` | `"requests"` |
| `FlagMeansTransferHolds` | `[]FlagMeansTransfer` | `"vehicles"`, `"requests"` |
| `FlyViewFollowsHolds` | `[]FlyViewFollows` | `"vehicles"` |
| `UploadArrivesHolds` | `[]UploadArrives` | `"vehicles"`, `"requests"` |
| `EditsKeptHolds` | `[]EditsKept` | all four |

Everything rests on `Base`: the types, what the stack of slots yet to run may hold (`Stack`: a machine's
call comes first; a view whose manager is not the active vehicle's is about to be told; no slot
of a transfer is left when the active vehicle changes), and that the vehicles are distinct and nothing
goes on with one that is not there (`Fleet`). As the stack is a sequence only in the order its slots run in, the
invariants speak of `Slots`, the set of them, and one lemma each says what returning and calling make of it. On top of
`Base` each property has an invariant of its own, and a lemma for each action:

- `Connect`, for `ConnectWaits`: a machine is about to be advanced with nothing asked, or waits for
  the one answer of its state. What the sequence of a download asks for has been asked for by the
  connection already (`Behind`, `InOrder`), or the download's slots would disturb the first load.
- `Flags`, for `FlagMeansTransfer`: there is at most one flag, and the transfer whose end takes it is under way,
  or its end about to be told, with the later elements idle.
- `Fly`, for `FlyViewFollows`: an element the fly view does not show yet is in a transfer, has failed, or
  a slot that brings it is about to run (`FlyComes`).
- `Upl`, for `UploadArrives`: each element of an upload is on the vehicle, has failed, is under way, or its
  turn is to come and the plan view still has it (`ToCome`), with no slot about to replace it.
- `Edits`, for `EditsKept`, over `Flags` and `Fly`: with something drawn no flag is set, no element
  is asked for and no removal is under way; an element asked for is being read or removed or a
  slot is about to take the request back (`RequestsOpen`); and when a removal's end is told it has been done.
  `Fly` is needed because a request is taken back only by a vehicle whose first plan is complete.

Only model-checked: the outcomes of the simulator's failure modes; an FTP download once its numbers have gone
half way round; and liveness, which is beyond this prover.

## Plan

Done: every component above but the log download. What would come next:

1. **FTP abstractly**: a file transfer (idle, under way, done whole, failed) that
   `FtpDownload` implements.
2. **`PlanManagers` as an instance of `PlanStore`**, so that plan master and plan transfer
   meet in one refinement.
3. **Log download**, a bitmap of blocks with one timer, beside FTP.
4. **Component information's own state machine**, one answer in `InitialConnect` now.

## Not modelled

- *Plan transfer*: progress and error texts, MissionManager's current item,
  `_sendHomePositionOnEmptyList` (nothing sets it), the simulator's response timer
  (it only asserts).
- *Commands*: the rest of `Vehicle.cc`, and what the callers' handlers do.
- *FTP*: directory listing and session ids, URI parsing (whether it fails is an input).
- *Plan master*: the content and geometry of plans, JSON, the transient master of `sendPlanToVehicle`.
- *Connection*: what version handlers store; component information's own machine.
- *Links*: bytes and threads, auto-connect, forwarding, MAVLink decoding and versions. `prepareDelete` runs the event loop once within a
  deletion's first phase; what happens there is modelled as happening after it.
- *Parameters*: log replay, offline parameters, the progress bar, generic firmware, cache
  files of other components, other users of FTPManager, parameter files of the user, resets.
- *All*: the content of packets, items and files beyond what the code compares, and whatever is
  listed as not modelled in `PROJECT.json`, with reasons.

## Running

    tlasany PlanTransfer.tla
    tlc -workers 2 -config plan_apm.cfg PlanTransferMC
    tlapm PlanTransfer_proofs.tla

`parameters`, the longest run, takes about three minutes with two workers, and
`Parameters_proofs`, `PlanMaster_proofs` and `FtpPackets_proofs`, the longest proofs, about eight each.
