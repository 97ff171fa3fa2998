------------------------------ MODULE MavCommands ------------------------------
(* Vehicle.cc's MAVLink commands: the list of commands waiting for their     *)
(* COMMAND_ACK, its retries, and requestMessage, which waits for the ack and *)
(* for the message in either order and through a single wait slot.           *)
EXTENDS Integers, Sequences, SequencesExt

CONSTANTS
    Calls,            \* the calls of a behaviour, each made at most once
    Target,           \* call -> component, command, and the message it requests
    NoCall,           \* the wait slot is empty: _waitForMavlinkMessageId = 0
    RetriedCommands,  \* _sendMavCommandShouldRetry
    MaxRetryCount,    \* _mavCommandMaxRetryCount (3 in the code)
    AckTimeout,       \* _mavCommandAckTimeoutMSecs in periods of the check timer
    WaitTimeout,      \* requestMessage's 1000 ms in periods of the check timer
    Overlapping,      \* callers do not wait for one another's results
    PromptLink,       \* a round trip takes less than a period of the check timer
    LinkLoses,        \* messages may be lost
    LinkMayGo,        \* the primary link may go and come back
    Unsolicited,      \* messages nobody asked for, but for telemetry
    ReportsProgress,  \* the vehicle may say IN_PROGRESS before the final ack
    MaxInFlight       \* BOUND: messages in one direction; more are lost

Messages == {Target[c].message : c \in Calls}
NoMessage == "no message"
NoReply == <<>>
Components == {Target[c].component : c \in Calls}

(* Telemetry comes all the time.  A wait that times out is handed the message *)
(* it is noticed at, which may be any.                                        *)
Telemetry == [kind |-> "MESSAGE", component |-> "autopilot", message |-> "telemetry"]
HandedOver ==
    (Components \X (Messages \cup {"COMMAND_ACK"}))
        \cup {<<m.component, m.message>> : m \in {Telemetry} \cup Unsolicited}

ASSUME CommandsAssumption ==
    /\ NoCall \notin Calls
    /\ \A c \in Calls : DOMAIN Target[c] = {"component", "command", "message"}
    /\ MaxRetryCount \in Nat \ {0} /\ AckTimeout \in Nat \ {0} /\ WaitTimeout \in Nat \ {0}
    /\ {Overlapping, PromptLink, LinkLoses, LinkMayGo, ReportsProgress} \subseteq BOOLEAN
    /\ MaxInFlight \in Nat \ {0}
    /\ \A m \in Unsolicited : DOMAIN m = {"kind", "component", "message"} /\ m.kind = "MESSAGE"

VARIABLES
    commands,     \* _mavCommandList
    waitFor,      \* the call the wait slot belongs to
    waitTimer,    \* [active, elapsed] of the wait slot
    requests,     \* call -> [acked, message] of its RequestMessageInfo_t
    results,      \* call -> what its result handler was called with, in order
    issued,       \* the calls made so far
    sends,        \* call -> how often its command went out
    linkUp,       \* the primary link is there
    toVehicle,    \* commands on their way, oldest first
    toGcs         \* acks and messages on their way, oldest first

trackVars == <<commands, waitFor, waitTimer, requests, results>>
linkVars  == <<toVehicle, toGcs, linkUp>>
vars      == <<trackVars, issued, sends, linkVars>>

Result == {"ACCEPTED", "FAILED", "IN_PROGRESS"}

(* NoFailure and MessageNotReceived are requestMessage's; the others are      *)
(* those of both kinds of call, by the same names.                            *)
Failure == {"NoFailure", "CommandResult", "NoResponse", "Duplicate", "MessageNotReceived"}

IsRequest(c) == Target[c].message # NoMessage

MaxTries(c) == IF Target[c].command \in RetriedCommands THEN MaxRetryCount ELSE 1

Outcome == [failure : Failure, result : Result,
            message : HandedOver \cup {NoReply}, answers : Calls]

TypeOK ==
    /\ \A i \in DOMAIN commands :
          /\ commands[i].call \in issued
          /\ commands[i].tryCount \in 1 .. MaxTries(commands[i].call)
          /\ commands[i].elapsed \in 0 .. (AckTimeout + 1)
    /\ waitFor \in issued \cup {NoCall}
    /\ waitTimer \in [active : BOOLEAN, elapsed : 0 .. (WaitTimeout + 1)]
    /\ \A c \in Calls : results[c] \in Seq(Outcome)
    /\ issued \in SUBSET Calls
    /\ \A c \in Calls : sends[c] \in 0 .. MaxTries(c)
    /\ linkUp \in BOOLEAN
    /\ Len(toVehicle) <= MaxInFlight /\ Len(toGcs) <= MaxInFlight

Init ==
    /\ commands = <<>>
    /\ waitFor = NoCall
    /\ waitTimer = [active |-> FALSE, elapsed |-> 0]
    /\ requests = [c \in Calls |-> [acked |-> FALSE, message |-> NoReply]]
    /\ results = [c \in Calls |-> <<>>]
    /\ issued = {}
    /\ sends = [c \in Calls |-> 0]
    /\ linkUp = TRUE
    /\ toVehicle = <<>>
    /\ toGcs = <<>>

-----------------------------------------------------------------------------
(* The slots call one another and the callers' handlers synchronously, so     *)
(* they are functions of the record s of the tracking variables and of the    *)
(* calls whose commands are sent meanwhile.                                   *)

Tracked == [commands |-> commands, waitFor |-> waitFor, waitTimer |-> waitTimer,
            requests |-> requests, results |-> results, sent |-> <<>>]

Becomes(s) ==
    /\ commands' = s.commands
    /\ waitFor' = s.waitFor
    /\ waitTimer' = s.waitTimer
    /\ requests' = s.requests
    /\ results' = s.results

Reported(s, c, failure, result, message, answers) ==
    [s EXCEPT !.results[c] = Append(@,
        [failure |-> failure, result |-> result, message |-> message, answers |-> answers])]

WaitLeft(s) ==   \* mutant: the message is still waited for
    [s EXCEPT !.waitTimer.active = FALSE]
WaitCleared(s) == [s EXCEPT !.waitFor = NoCall, !.waitTimer.active = FALSE]

WaitTimerLeft(s) == s   \* mutant: the ack does not start the wait's timer
WaitTimerStarted(s) == [s EXCEPT !.waitTimer = [active |-> TRUE, elapsed |-> 0]]

(* _requestMessageCmdResultHandler.  It touches the wait slot whoever it      *)
(* belongs to.                                                                *)
RequestCmdResult(s, c, result, failure, answers) ==
    LET acked == [s EXCEPT !.requests[c].acked = TRUE]
    IN  IF result # "ACCEPTED"
        THEN Reported(WaitCleared(acked), c, failure, result, NoReply, answers)
        ELSE IF s.requests[c].message # NoReply
        THEN Reported(acked, c, "NoFailure", result, s.requests[c].message, answers)
        ELSE WaitTimerStarted(acked)

(* The result handler of a command, or the signal mavCommandResult.           *)
CmdResult(s, c, result, failure, answers) ==
    IF IsRequest(c) THEN RequestCmdResult(s, c, result, failure, answers)
    ELSE Reported(s, c, failure, result, NoReply, answers)

-----------------------------------------------------------------------------
(* Sending.                                                                  *)

CanBeDuplicated(c) == Target[c].command = "DO_MOTOR_TEST"

SameCommand(c, d) ==
    Target[c].component = Target[d].component /\ Target[c].command = Target[d].command

(* _findMavCommandListEntryIndex(c's component and command): the first entry. *)
EntryIndex(s, c) ==
    SelectInSeq(s.commands, LAMBDA e : SameCommand(e.call, c))

isMavCommandPending(s, c) == EntryIndex(s, c) > 0

OnlyToOne(c) == Target[c].component = "ALL"   \* mutant: duplicates are sent
Refused(c) ==
    \/ Target[c].component = "ALL"
    \/ isMavCommandPending(Tracked, c) /\ ~CanBeDuplicated(c)

RefusalFailure(c) == IF Target[c].component = "ALL" THEN "CommandResult" ELSE "Duplicate"

Entry(c) == [call |-> c, tryCount |-> 1, elapsed |-> 0]

Delivered(channel, list) ==
    LET all == channel \o list
    IN  SubSeq(all, 1, IF Len(all) < MaxInFlight THEN Len(all) ELSE MaxInFlight)

(* With the link gone an entry's command is not sent, though counted a try.   *)
Transmit(list) ==
    IF linkUp
    THEN /\ toVehicle' = Delivered(toVehicle, list)
         /\ sends' = [c \in Calls |-> IF Contains(list, c) THEN sends[c] + 1 ELSE sends[c]]
    ELSE UNCHANGED <<toVehicle, sends>>

(* requestMessage takes the wait slot before the command is sent.             *)
Prepared(c) ==
    IF IsRequest(c)
    THEN [Tracked EXCEPT !.waitFor = c, !.waitTimer = [active |-> FALSE, elapsed |-> 0]]
    ELSE Tracked

(* _sendMavCommandWorker.  Without a link nobody is told.                     *)
Call(c) ==
    /\ c \notin issued
    /\ Overlapping \/ \A d \in issued : results[d] # <<>>
    /\ issued' = issued \cup {c}
    /\ \/ /\ Refused(c)
          /\ Becomes(CmdResult(Prepared(c), c, "FAILED", RefusalFailure(c), c))
          /\ UNCHANGED <<toVehicle, sends>>
       \/ /\ ~Refused(c) /\ ~linkUp
          /\ Becomes(Prepared(c))
          /\ UNCHANGED <<toVehicle, sends>>
       \/ /\ ~Refused(c) /\ linkUp
          /\ Becomes([Prepared(c) EXCEPT !.commands = Append(@, Entry(c))])
          /\ Transmit(<<c>>)
    /\ UNCHANGED <<linkUp, toGcs>>

-----------------------------------------------------------------------------
(* The check timer, and the time that passes between two of its ticks.        *)

Older(n, limit) == IF n > limit THEN n ELSE n + 1

Aged(e) == [e EXCEPT !.elapsed = Older(@, AckTimeout)]
AllAged(s) ==
    [s EXCEPT !.commands = [i \in DOMAIN @ |-> Aged(@[i])],
              !.waitTimer.elapsed = IF s.waitTimer.active THEN Older(@, WaitTimeout) ELSE @]

Overdue(e) == e.elapsed > AckTimeout
LastTry(e) == e.tryCount >= MaxTries(e.call)

LeftInList(s, i) == s   \* mutant: at for takeAt
TakenFromList(s, i) == [s EXCEPT !.commands = RemoveAt(@, i)]

(* _sendMavCommandFromList, for the entry at i if it is overdue: its last try *)
(* was given its time, or there is another.  The entry's elapsed timer is not *)
(* restarted when its command is sent again.                                  *)
SendFromList(s, i) ==
    LET e == s.commands[i]
    IN  IF ~Overdue(e) THEN s
        ELSE IF LastTry(e)
        THEN CmdResult(TakenFromList(s, i), e.call, "FAILED", "NoResponse", e.call)
        ELSE [s EXCEPT !.commands[i].tryCount = @ + 1, !.sent = Append(@, e.call)]

(* _sendMavCommandResponseTimeoutCheck walks the list backwards, since an     *)
(* entry given up leaves it: walk[n] is after the last n entries.             *)
Walked(s) ==
    LET count == Len(s.commands)
        walk[n \in 0 .. count] ==
            IF n = 0 THEN s ELSE SendFromList(walk[n - 1], count - n + 1)
    IN  walk[count]

ResponseTimeoutCheck ==
    LET s == Walked(AllAged(Tracked))
    IN  /\ commands # <<>> \/ waitTimer.active
        /\ PromptLink => toVehicle = <<>> /\ toGcs = <<>>
        /\ Becomes(s)
        /\ Transmit(s.sent)
        /\ UNCHANGED <<issued, linkUp, toGcs>>

-----------------------------------------------------------------------------
(* Messages from the vehicle.                                                *)

(* _requestMessageWaitForMessageResultHandler.                                *)
RequestWaitResult(s, c, noResponse, m) ==
    IF s.requests[c].acked
    THEN IF noResponse
         THEN Reported(s, c, "MessageNotReceived", "FAILED", <<m.component, m.message>>, c)
         ELSE Reported(s, c, "NoFailure", "ACCEPTED", <<m.component, m.message>>, c)
    ELSE [s EXCEPT !.requests[c].message = <<m.component, m.message>>]

(* _waitForMavlinkMessageMessageReceived looks at every message, and at its   *)
(* identity only.                                                             *)
AnyReply(s, m) == m.kind = "MESSAGE"   \* mutant: the id is not compared
WaitedFor(s, m) == m.message = Target[s.waitFor].message

WaitChecked(s, m) ==
    IF s.waitFor = NoCall THEN s
    ELSE IF WaitedFor(s, m)
    THEN RequestWaitResult(WaitCleared(s), s.waitFor, FALSE, m)
    ELSE IF s.waitTimer.active /\ s.waitTimer.elapsed > WaitTimeout
    THEN RequestWaitResult(WaitCleared(s), s.waitFor, TRUE, m)
    ELSE s

(* _handleCommandAck.  Any result ends the entry, IN_PROGRESS too.            *)
AckHandled(s, m) ==
    LET i == EntryIndex(s, m.answers)
        c == s.commands[i].call
    IN  IF i = 0 THEN s
        ELSE CmdResult(TakenFromList(s, i), c, m.result, "CommandResult", m.answers)

Received(m) ==
    LET s == WaitChecked(Tracked, m)
    IN  Becomes(IF m.kind = "ACK" THEN AckHandled(s, m) ELSE s)

Receive ==
    /\ toGcs # <<>>
    /\ Received(Head(toGcs))
    /\ toGcs' = Tail(toGcs)
    /\ UNCHANGED <<issued, sends, linkUp, toVehicle>>

ReceiveUnasked ==
    /\ linkUp
    /\ \E m \in {Telemetry} \cup Unsolicited : Received(m)
    /\ UNCHANGED <<issued, sends, linkUp, toVehicle, toGcs>>

-----------------------------------------------------------------------------
(* The vehicle and the link.  "answers" is the call an ack answers, which no  *)
(* COMMAND_ACK tells; the code sees its component and command only.           *)

Ack(c, r) == [kind |-> "ACK", component |-> Target[c].component, message |-> "COMMAND_ACK",
              result |-> r, answers |-> c]
Message(c) == [kind |-> "MESSAGE", component |-> Target[c].component, message |-> Target[c].message]

(* A requested message comes before its ack or after it; a vehicle that does  *)
(* not know the message refuses.                                              *)
Answers(c) ==
    {<<>>} \cup (IF IsRequest(c)
                 THEN {<<Message(c), Ack(c, "ACCEPTED")>>, <<Ack(c, "ACCEPTED"), Message(c)>>,
                       <<Ack(c, "ACCEPTED")>>, <<Ack(c, "FAILED")>>}
                 ELSE {<<Ack(c, "ACCEPTED")>>, <<Ack(c, "FAILED")>>}
                      \cup IF ReportsProgress THEN {<<Ack(c, "IN_PROGRESS"), Ack(c, "ACCEPTED")>>}
                           ELSE {})

VehicleAnswers ==
    /\ toVehicle # <<>>
    /\ \E a \in Answers(Head(toVehicle)) : toGcs' = Delivered(toGcs, a)
    /\ toVehicle' = Tail(toVehicle)
    /\ UNCHANGED <<trackVars, issued, sends, linkUp>>

LoseMessage ==
    /\ LinkLoses
    /\ \/ toVehicle # <<>> /\ toVehicle' = Tail(toVehicle) /\ UNCHANGED toGcs
       \/ toGcs # <<>> /\ toGcs' = Tail(toGcs) /\ UNCHANGED toVehicle
    /\ UNCHANGED <<trackVars, issued, sends, linkUp>>

LinkGoes ==
    /\ LinkMayGo
    /\ linkUp' = ~linkUp
    /\ toVehicle' = <<>> /\ toGcs' = <<>>
    /\ UNCHANGED <<trackVars, issued, sends>>

Next ==
    \/ \E c \in Calls : Call(c)
    \/ ResponseTimeoutCheck
    \/ Receive
    \/ ReceiveUnasked
    \/ VehicleAnswers
    \/ LoseMessage
    \/ LinkGoes

Spec == Init /\ [][Next]_vars

(* The check timer runs, what has arrived is delivered, telemetry keeps       *)
(* coming and the vehicle works off its commands.                             *)
Fairness ==
    /\ WF_vars(ResponseTimeoutCheck)
    /\ WF_vars(Receive)
    /\ WF_vars(ReceiveUnasked)
    /\ WF_vars(VehicleAnswers)

FairSpec == Spec /\ Fairness

-----------------------------------------------------------------------------
(* Properties.                                                               *)

Answered(c) == results[c] # <<>>
Tracks(c) == \E i \in DOMAIN commands : commands[i].call = c

(* Every caller's handler is called once at most: nothing that comes later,   *)
(* an ack, the message, a timeout, reports a call that has been reported.     *)
(* The code frees the call's RequestMessageInfo_t with such a report.         *)
AtMostOneResult == \A c \in Calls : Len(results[c]) <= 1

(* After its report a call is in neither the list nor the wait slot, which    *)
(* keep a pointer to the caller's data: it is not used again.                 *)
NothingPendingAfterResult ==
    \A c \in Calls : Answered(c) => ~Tracks(c) /\ waitFor # c

(* A call that was made and not reported is still watched by a timer: its     *)
(* entry in the list or, once acked, the wait slot.                           *)
NoCallForgotten ==
    \A c \in issued : \/ Answered(c)
                      \/ Tracks(c)
                      \/ waitFor = c /\ waitTimer.active /\ requests[c].acked

(* With round trips shorter than the ack timeout and one ack per command, the *)
(* ack that ends a call is an ack of that call: a second call with the same   *)
(* component and command is refused while the first waits.                    *)
AckIsForThisCall ==
    \A c \in Calls : \A i \in DOMAIN results[c] :
        ~CanBeDuplicated(c) => results[c][i].answers = c

(* What a call's handler is told is true, and every variable has its type:    *)
(* the message a request brings has the id asked for (not an earlier          *)
(* request's, nor the one a timeout was noticed at, though it may be another  *)
(* component's), and a call that fails for want of a response went out as     *)
(* often as its command may, which is what the tests count, and none more.    *)
ResultsAreTrue ==
    /\ TypeOK
    /\ \A c \in Calls : \A i \in DOMAIN results[c] :
          /\ IsRequest(c) /\ results[c][i].failure = "NoFailure"
                => results[c][i].message[2] = Target[c].message
          /\ results[c][i].failure = "NoResponse" => sends[c] = MaxTries(c)

(* Whatever the link loses, there is always a time when no call waits.        *)
EveryCallAnswered == (\E c \in issued : ~Answered(c)) ~> (\A c \in issued : Answered(c))

=============================================================================
