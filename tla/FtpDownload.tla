------------------------------ MODULE FtpDownload ------------------------------
(* FTPManager.cc: the download of a file from the vehicle over MAVLink FTP,  *)
(* in bursts, with the holes of lost packets filled afterwards, and the FTP  *)
(* server of the simulated vehicle, MockLinkFTP.cc.                          *)
(*                                                                           *)
(* A file is a number of blocks, a block what one packet carries; offsets    *)
(* and sizes are counted in blocks.                                          *)
EXTENDS Integers, Sequences, FiniteSets, SequencesExt, FiniteSetsExt

CONSTANTS
    Downloads,      \* the sequence of downloads asked for
    SeqNumbers,         \* sequence numbers are modulo this (2^16 in the code)
    FirstSeq,       \* sequence numbers earlier transfers may have left behind
    MaxRetry,       \* _maxRetry (3 in the code)
    BurstMax,       \* the server's burstMax (10 in the code)
    ErrModes,       \* the server's failure modes, among them "None"
    DiskMayFail,    \* the local file may fail to open or to take data
    MaxCancels,     \* BOUND: how often the caller cancels
    MaxOutages,     \* BOUND: how often the primary link goes
    MaxLosses,      \* BOUND: messages lost in a behaviour
    MaxReorders,    \* BOUND: messages from the vehicle overtaken by the next
    MaxEarly,       \* BOUND: timeouts with an answer still on its way
    MaxTroubles     \* BOUND: all of these together

(* A download: the file's blocks, the size the vehicle reports, whether the  *)
(* caller wants the two compared, whether the vehicle has it, and whether    *)
(* the URI can be parsed.                                                    *)
DownloadType == [size : Nat, reported : Nat, checksize : BOOLEAN,
                 found : BOOLEAN, uriOk : BOOLEAN]

ASSUME FtpAssumption ==
    /\ Downloads \in Seq(DownloadType)
    /\ SeqNumbers \in Nat /\ SeqNumbers > 3
    /\ FirstSeq \subseteq 0 .. (SeqNumbers - 1)
    /\ MaxRetry \in Nat /\ BurstMax \in Nat /\ BurstMax > 1
    /\ DiskMayFail \in BOOLEAN
    /\ {MaxCancels, MaxOutages, MaxLosses, MaxReorders, MaxEarly, MaxTroubles} \subseteq Nat

VARIABLES
    ftp,          \* FTPManager, with its DownloadState_t and the local file
    results,      \* download -> what downloadComplete reported, and the file then
    started,      \* how many downloads were asked for
    refused,      \* those download() returned false for
    server,       \* MockLinkFTP: the failure mode, the open file, the last reply
    toVehicle,    \* requests on their way, oldest first
    toGcs,        \* replies on their way, oldest first
    linkUp,       \* the primary link is there
    spent         \* what is used up of MaxCancels, MaxOutages, MaxLosses...

vars == <<ftp, results, started, refused, server, toVehicle, toGcs, linkUp, spent>>

NoFile == 0
NoReply == <<>>

(* rgDownloadStateMachine and rgTerminateStateMachine: the states that wait; *)
(* the last entry of each reports and is left at once.                       *)
DownloadMachine  == <<"open", "burst", "fill", "reset">>
TerminateMachine == <<"terminate">>

state == IF ftp.index = -1 THEN "none" ELSE ftp.machine[ftp.index + 1]

Blocks == UNION {{d} \X (0 .. (Downloads[d].size - 1)) : d \in DOMAIN Downloads}
Error == {"none", "Download failed", "Error saving file", "Aborted"}

TypeOK ==
    /\ ftp.path \in 0 .. started
    /\ ftp.machine \in {<<>>, DownloadMachine, TerminateMachine}
    /\ ftp.index \in -1 .. (Len(ftp.machine) - 1)
    /\ ftp.expectedSeq \in 0 .. (SeqNumbers - 1)
    /\ {ftp.expectedOffset, ftp.bytesWritten, ftp.fileSize} \subseteq Nat
    /\ ftp.missing \in Seq([offset : Nat, count : Nat \ {0}])
    /\ ftp.retryCount \in 0 .. (MaxRetry + 1)
    /\ {ftp.checksize, ftp.timer, ftp.fileOpen} \subseteq BOOLEAN
    /\ ftp.local \subseteq Blocks
    /\ \A d \in DOMAIN Downloads :
          results[d] \in Seq([error : Error, file : SUBSET Blocks, opened : BOOLEAN])
    /\ started \in 0 .. Len(Downloads)
    /\ refused \subseteq 1 .. started
    /\ server.errMode \in ErrModes /\ server.file \in 0 .. started
    /\ linkUp \in BOOLEAN
    /\ spent \in [cancels : 0 .. MaxCancels, outages : 0 .. MaxOutages,
                 losses : 0 .. MaxLosses, reorders : 0 .. MaxReorders, early : 0 .. MaxEarly]

Init ==
    /\ \E n \in FirstSeq :
          ftp = [path |-> NoFile, machine |-> <<>>, index |-> -1, expectedSeq |-> n,
                 expectedOffset |-> 0, bytesWritten |-> 0, missing |-> <<>>, fileSize |-> 0,
                 retryCount |-> 0, checksize |-> TRUE, timer |-> FALSE,
                 fileOpen |-> FALSE, local |-> {}]
    /\ results = [d \in DOMAIN Downloads |-> <<>>]
    /\ started = 0
    /\ refused = {}
    /\ \E mode \in ErrModes : server = [errMode |-> mode, file |-> NoFile, lastReply |-> NoReply]
    /\ toVehicle = <<>>
    /\ toGcs = <<>>
    /\ linkUp = TRUE
    /\ spent = [cancels |-> 0, outages |-> 0, losses |-> 0, reorders |-> 0, early |-> 0]

(* One more of a trouble, within its bound and that of all together.         *)
Troubled(trouble, limit) ==
    /\ spent[trouble] < limit
    /\ spent.cancels + spent.outages + spent.losses + spent.reorders + spent.early < MaxTroubles
    /\ spent' = [spent EXCEPT ![trouble] = @ + 1]

-----------------------------------------------------------------------------
(* The state functions call one another, so they are functions of the record *)
(* s of the manager, the requests it sends and what it reports.              *)

Manager == [ftp |-> ftp, sent |-> <<>>, reports |-> <<>>]

Becomes(s) ==
    /\ ftp' = s.ftp
    /\ toVehicle' = toVehicle \o s.sent
    /\ results' = [d \in DOMAIN results |->
                       IF d = s.ftp.path THEN results[d] \o s.reports ELSE results[d]]

TimerStopped(s) == [s EXCEPT !.ftp.timer = FALSE]
TimerStarted(s) == [s EXCEPT !.ftp.timer = TRUE]
Advanced(s) == [s EXCEPT !.ftp.index = @ + 1]

(* _sendRequestExpectAck.  Without a link the request and its number are     *)
(* skipped and the timeout has to fail the sequence.                         *)
SendRequest(s, opcode, offset) ==   \* mutant: no timer without a link
    LET request == [opcode |-> opcode, offset |-> offset, file |-> s.ftp.path,
                    seq |-> (s.ftp.expectedSeq + 1) % SeqNumbers]
    IN  IF linkUp
        THEN [TimerStarted(s) EXCEPT !.sent = Append(@, request),
                                     !.ftp.expectedSeq = (@ + 2) % SeqNumbers]
        ELSE s
SendRequestExpectAck(s, opcode, offset) ==
    LET request == [opcode |-> opcode, offset |-> offset, file |-> s.ftp.path,
                    seq |-> (s.ftp.expectedSeq + 1) % SeqNumbers]
    IN  IF linkUp
        THEN [TimerStarted(s) EXCEPT !.sent = Append(@, request),
                                     !.ftp.expectedSeq = (@ + 2) % SeqNumbers]
        ELSE TimerStarted(s)

(* _downloadComplete.  fileSize stays.                                       *)
IdleInState(f) ==   \* mutant: the state machine is not left
    [f EXCEPT !.timer = FALSE, !.fileOpen = FALSE]
Idle(f) == [f EXCEPT !.timer = FALSE, !.machine = <<>>, !.index = -1, !.fileOpen = FALSE]

DownloadComplete(s, error) ==
    LET kept == IF s.ftp.fileOpen /\ error # "none" THEN {} ELSE s.ftp.local
    IN  [s EXCEPT !.ftp = [Idle(@) EXCEPT !.local = kept],
                  !.reports = Append(@, [error |-> error, file |-> kept,
                                    opened |-> s.ftp.fileOpen])]

(* The same number again, so that the vehicle can tell a repeated request.   *)
SameNumber(s) == [s EXCEPT !.ftp.expectedSeq = (@ - 2) % SeqNumbers]

FirstTry(s) == [s EXCEPT !.ftp.retryCount = 0]
Counted(s) == [s EXCEPT !.ftp.retryCount = @ + 1]

(* One retry more, if there is one left.                                     *)
RetryTooSeldom(s, again) ==   \* mutant: >= for >
    IF Counted(s).ftp.retryCount >= MaxRetry
    THEN DownloadComplete(Counted(s), "Download failed")
    ELSE again
Retry(s, again) ==
    IF Counted(s).ftp.retryCount > MaxRetry
    THEN DownloadComplete(Counted(s), "Download failed")
    ELSE again

-----------------------------------------------------------------------------
(* The workers and begin functions, last state first.                        *)

TerminateBegin(s) == SendRequestExpectAck(s, "Terminate", 0)
ResetBegin(s) == SendRequestExpectAck(s, "Reset", 0)

Complete(s) == ~s.ftp.checksize \/ s.ftp.bytesWritten = s.ftp.fileSize

ReadMissing(s) ==
    LET hole == Head(s.ftp.missing)
    IN  SendRequestExpectAck([s EXCEPT !.ftp.expectedOffset = hole.offset], "Read", hole.offset)

(* _fillMissingBlocksWorker(true) and (false).                               *)
FillMissing(s) ==
    IF s.ftp.missing # <<>> THEN ReadMissing(FirstTry(s))
    ELSE IF Complete(s) THEN ResetBegin(Advanced(s))
    ELSE DownloadComplete(s, "Download failed")
FillMissingAgain(s) == ReadMissing(SameNumber(s))

(* _burstReadFileWorker(true) and (false).                                   *)
BurstRead(s) == SendRequestExpectAck(FirstTry(s), "Burst", s.ftp.expectedOffset)
BurstReadAgain(s) == SendRequestExpectAck(SameNumber(s), "Burst", s.ftp.expectedOffset)

-----------------------------------------------------------------------------
(* Starting and cancelling.                                                  *)

Reset(f, d) ==
    [f EXCEPT !.path = d, !.expectedOffset = 0, !.bytesWritten = 0, !.retryCount = 0,
              !.fileSize = 0, !.missing = <<>>, !.fileOpen = FALSE, !.local = {},
              !.checksize = Downloads[d].checksize]

(* download().  The state machine is filled before the URI is parsed.        *)
Download ==
    /\ started < Len(Downloads)
    /\ started' = started + 1
    /\ LET d    == started'
           busy == [ftp EXCEPT !.machine = DownloadMachine]
           open == [Manager EXCEPT !.ftp = [Reset(busy, d) EXCEPT !.index = 0]]
       IN  \/ /\ ftp.machine # <<>>
              /\ refused' = refused \cup {d}
              /\ Becomes(Manager)
           \/ /\ ftp.machine = <<>> /\ ~Downloads[d].uriOk
              /\ refused' = refused \cup {d}
              /\ Becomes([Manager EXCEPT !.ftp = Reset(busy, d)])
           \/ /\ ftp.machine = <<>> /\ Downloads[d].uriOk
              /\ Becomes(SendRequestExpectAck(open, "Open", 0))
              /\ UNCHANGED refused
    /\ UNCHANGED <<server, toGcs, linkUp, spent>>

(* cancel(), which commandProgress' receiver calls.                          *)
inProgress == ftp.fileSize > 0

Cancel ==
    /\ state # "none"
    /\ inProgress
    /\ Troubled("cancels", MaxCancels)
    /\ Becomes(TerminateBegin([Manager EXCEPT !.ftp.machine = TerminateMachine,
                                              !.ftp.index = 0, !.ftp.retryCount = 0]))
    /\ UNCHANGED <<started, refused, server, toGcs, linkUp>>

-----------------------------------------------------------------------------
(* _ackOrNakTimeout.                                                         *)

TimedOut(s) ==
    CASE state = "open"      -> DownloadComplete(s, "Download failed")
      [] state = "burst"     -> Retry(s, BurstReadAgain(Counted(s)))
      [] state = "fill"      -> Retry(s, FillMissingAgain(Counted(s)))
      [] state = "reset"     -> DownloadComplete(s, "none")
      [] state = "terminate" -> Retry(s, TerminateBegin(Counted(s)))

InFlight == toVehicle # <<>> \/ toGcs # <<>>

Timeout ==
    /\ ftp.timer
    /\ IF InFlight THEN Troubled("early", MaxEarly) ELSE UNCHANGED spent
    /\ Becomes(TimedOut(TimerStopped(Manager)))
    /\ UNCHANGED <<started, refused, server, toGcs, linkUp>>

-----------------------------------------------------------------------------
(* The ack or nak functions.                                                 *)

(* Writing a block to the local file, over what was there.                   *)
Written(s, r) ==
    [s EXCEPT !.ftp.local = {b \in @ : b[2] # r.offset} \cup {<<r.file, r.offset>>},
              !.ftp.bytesWritten = @ + 1]

Saved(s, next) ==
    {next} \cup (IF DiskMayFail THEN {DownloadComplete(s, "Error saving file")} ELSE {})

(* _openFileROAckOrNak.                                                      *)
OpenAnswered(s, r) ==
    LET opened == Advanced([s EXCEPT !.ftp.fileSize = r.size, !.ftp.expectedOffset = 0,
                                     !.ftp.fileOpen = TRUE])
        failed == DownloadComplete(s, "Download failed")
    IN  IF r.ack THEN {BurstRead(opened)} \cup
                      (IF DiskMayFail
                       THEN {DownloadComplete([s EXCEPT !.ftp.fileSize = r.size],
                                              "Download failed")}
                       ELSE {})
        ELSE {failed}

(* _burstReadFileAckOrNak's acks.                                            *)
NothingSkipped(s, r) == s   \* mutant: holes are not recorded
Skipped(s, r) ==
    IF r.offset > s.ftp.expectedOffset
    THEN [s EXCEPT !.ftp.missing =
             Append(@, [offset |-> s.ftp.expectedOffset, count |-> r.offset - s.ftp.expectedOffset])]
    ELSE s

BurstBlockUntimed(s, r) ==   \* mutant: the timer is not started again within a burst
    LET next == [s EXCEPT !.ftp.expectedOffset = r.offset + 1]
    IN  IF r.burstComplete
        THEN BurstRead([next EXCEPT !.ftp.expectedSeq = r.seq])
        ELSE [next EXCEPT !.ftp.expectedSeq = (r.seq + 1) % SeqNumbers]
BurstBlock(s, r) ==
    LET next == [s EXCEPT !.ftp.expectedOffset = r.offset + 1]
    IN  IF r.burstComplete
        THEN BurstRead([next EXCEPT !.ftp.expectedSeq = r.seq])
        ELSE TimerStarted([next EXCEPT !.ftp.expectedSeq = (r.seq + 1) % SeqNumbers])

BurstAcked(s, r) ==
    IF r.seq < s.ftp.expectedSeq THEN {s}
    ELSE IF r.offset < s.ftp.expectedOffset THEN {TimerStarted(s)}
    ELSE Saved(Skipped(s, r), BurstBlock(Written(Skipped(s, r), r), r))

BurstAnswered(s, r) ==
    CASE r.ack -> BurstAcked(s, r)
      [] ~r.ack /\ r.eof /\ r.seq # s.ftp.expectedSeq ->
            {BurstRead([s EXCEPT !.ftp.expectedSeq = r.seq])}
      [] ~r.ack /\ r.eof /\ r.seq = s.ftp.expectedSeq -> {FillMissing(Advanced(s))}
      [] ~r.ack /\ ~r.eof -> {DownloadComplete(s, "Download failed")}

(* _fillMissingBlocksAckOrNak.                                               *)
HoleClosed(holes) == Tail(holes)   \* mutant: one block closes a hole
HoleShrunk(holes) ==
    LET hole == Head(holes)
    IN  IF hole.count = 1 THEN Tail(holes)
        ELSE <<[offset |-> hole.offset + 1, count |-> hole.count - 1]>> \o Tail(holes)

FillBlock(s) == FillMissing([s EXCEPT !.ftp.missing = HoleShrunk(@)])

FillAnswered(s, r) ==
    CASE r.ack /\ r.offset # s.ftp.expectedOffset -> {Retry(s, FillMissingAgain(Counted(s)))}
      [] r.ack /\ r.offset = s.ftp.expectedOffset -> Saved(s, FillBlock(Written(s, r)))
      [] ~r.ack -> {IF r.eof /\ Complete(s) THEN ResetBegin(Advanced(s))
                    ELSE DownloadComplete(s, "Download failed")}

ResetAnswered(s, r) == {DownloadComplete(s, "none")}
TerminateAnswered(s, r) == {DownloadComplete(s, "Aborted")}

(* What the state's function takes: a burst has many answers, every other    *)
(* request one.                                                              *)
OpcodeOf == [open |-> "Open", burst |-> "Burst", fill |-> "Read", reset |-> "Reset",
             terminate |-> "Terminate"]

Expected(r) ==
    /\ r.opcode = OpcodeOf[state]
    /\ state # "burst" => r.seq = ftp.expectedSeq

Answered(s, r) ==
    CASE state = "open"      -> OpenAnswered(s, r)
      [] state = "burst"     -> BurstAnswered(s, r)
      [] state = "fill"      -> FillAnswered(s, r)
      [] state = "reset"     -> ResetAnswered(s, r)
      [] state = "terminate" -> TerminateAnswered(s, r)

(* _mavlinkMessageReceived's test for old and reordered packets.             *)
Old(seq) == (ftp.expectedSeq - 1 - seq) % SeqNumbers < (SeqNumbers - 1) \div 2

Taken(r) == state # "none" /\ ~Old(r.seq) /\ Expected(r)

Receive ==
    /\ toGcs # <<>>
    /\ LET r == Head(toGcs)
       IN  IF Taken(r)
           THEN \E s \in Answered(TimerStopped(Manager), r) : Becomes(s)
           ELSE UNCHANGED <<ftp, results, toVehicle>>
    /\ toGcs' = Tail(toGcs)
    /\ UNCHANGED <<started, refused, server, linkUp, spent>>

-----------------------------------------------------------------------------
(* MockLinkFTP.                                                              *)

Reply(q, n, ack, eof, offset, size, burstComplete) ==
    [opcode |-> q.opcode, seq |-> n % SeqNumbers, ack |-> ack, eof |-> eof, offset |-> offset,
     size |-> size, file |-> server.file, burstComplete |-> burstComplete]

(* _nextSeqNumber, n times.                                                  *)
NextSeq(q, n) == q.seq + n * (IF server.errMode = "BadSequence" THEN 2 ELSE 1)

Ack(q, offset, size) == Reply(q, NextSeq(q, 1), TRUE, FALSE, offset, size, FALSE)
Nak(q) == Reply(q, NextSeq(q, 1), FALSE, FALSE, 0, 0, FALSE)
EndOfFile(q, n) == Reply(q, NextSeq(q, n), FALSE, TRUE, 0, 0, FALSE)

FileSize == IF server.file = NoFile THEN 0 ELSE Downloads[server.file].size

OpenCommand(q) ==
    IF Downloads[q.file].found THEN <<Ack(q, 0, Downloads[q.file].reported)>> ELSE <<Nak(q)>>

ReadCommand(q) ==
    CASE q.offset # 0 /\ server.errMode = "NakSecondResponse" -> <<Nak(q)>>
      [] q.offset # 0 /\ server.errMode = "NoSecondResponse" -> <<>>
      [] OTHER -> <<IF q.offset >= FileSize THEN EndOfFile(q, 1) ELSE Ack(q, q.offset, 1)>>

BurstReadCommand(q) ==
    LET n    == Min({BurstMax - 1, Max({FileSize - q.offset, 0})})
        acks == [i \in 1 .. n |-> Reply(q, NextSeq(q, i), TRUE, FALSE, q.offset + i - 1, 1,
                                        i = BurstMax - 1)]
    IN  IF q.offset + n >= FileSize THEN Append(acks, EndOfFile(q, n + 1)) ELSE acks

Replies(q) ==
    CASE server.errMode = "NoResponse" /\ q.opcode \notin {"Reset", "Terminate"} -> <<>>
      [] server.errMode = "NakResponse" /\ q.opcode \notin {"Reset", "Terminate"} -> <<Nak(q)>>
      [] OTHER -> CASE q.opcode = "Open" -> OpenCommand(q)
                    [] q.opcode = "Read" -> ReadCommand(q)
                    [] q.opcode = "Burst" -> BurstReadCommand(q)
                    [] q.opcode \in {"Reset", "Terminate"} -> <<Ack(q, 0, 0)>>

(* A request with the number before the last reply's is the last one again.  *)
Repeated(q) == server.lastReply # NoReply /\ q.seq = server.lastReply.seq - 1

FileAfter(q) ==
    CASE q.opcode = "Reset" -> NoFile
      [] q.opcode = "Open" /\ server.errMode \notin {"NoResponse", "NakResponse"} ->
            IF Downloads[q.file].found THEN q.file ELSE NoFile
      [] OTHER -> server.file

Serve ==
    /\ toVehicle # <<>>
    /\ LET q       == Head(toVehicle)
           replies == Replies(q)
       IN  IF Repeated(q)
           THEN /\ toGcs' = Append(toGcs, server.lastReply)
                /\ UNCHANGED server
           ELSE /\ toGcs' = toGcs \o replies
                /\ server' = [server EXCEPT
                                 !.file = FileAfter(q),
                                 !.lastReply = IF replies = <<>> THEN @ ELSE Last(replies)]
    /\ toVehicle' = Tail(toVehicle)
    /\ UNCHANGED <<ftp, results, started, refused, linkUp, spent>>

-----------------------------------------------------------------------------
(* The link.                                                                 *)

Lose ==
    /\ Troubled("losses", MaxLosses)
    /\ \/ /\ toVehicle # <<>>
          /\ toVehicle' = Tail(toVehicle)
          /\ UNCHANGED toGcs
       \/ /\ toGcs # <<>>
          /\ toGcs' = Tail(toGcs)
          /\ UNCHANGED toVehicle
    /\ UNCHANGED <<ftp, results, started, refused, server, linkUp>>

Reorder ==
    /\ Len(toGcs) > 1
    /\ Troubled("reorders", MaxReorders)
    /\ toGcs' = <<toGcs[2], toGcs[1]>> \o SubSeq(toGcs, 3, Len(toGcs))
    /\ UNCHANGED <<ftp, results, started, refused, server, toVehicle, linkUp>>

(* What is on its way goes with the link: MAVLinkProtocol drops late bytes.  *)
LinkGoes ==
    /\ linkUp
    /\ linkUp' = FALSE
    /\ Troubled("outages", MaxOutages)
    /\ toVehicle' = <<>> /\ toGcs' = <<>>
    /\ UNCHANGED <<ftp, results, started, refused, server>>

LinkComesBack ==
    /\ ~linkUp
    /\ linkUp' = TRUE
    /\ UNCHANGED <<ftp, results, started, refused, server, toVehicle, toGcs, spent>>

Next ==
    \/ Download \/ Cancel \/ Timeout \/ Receive
    \/ Serve \/ Lose \/ Reorder \/ LinkGoes \/ LinkComesBack

Spec == Init /\ [][Next]_vars

(* The single-shot timer fires, the link delivers and the vehicle answers:    *)
(* weak fairness, with its ENABLED written out, since each of the three steps *)
(* changes the state whenever its guard holds.                                *)
FairSpec ==
    /\ Spec
    /\ []<>~(ftp.timer /\ ~InFlight) \/ []<><<Timeout>>_vars
    /\ []<>(toGcs = <<>>) \/ []<><<Receive>>_vars
    /\ []<>(toVehicle = <<>>) \/ []<><<Serve>>_vars

-----------------------------------------------------------------------------
(* Properties.                                                               *)

(* A download reported without an error has brought exactly the blocks of    *)
(* its file, whatever was lost or reordered.  If its size is not compared    *)
(* that takes answers that keep step with requests.  And what comes must be  *)
(* about this file, which the tests of number and opcode do not ensure:      *)
(*  - a retry without a link takes the number back and sends nothing, so     *)
(*    that after an outage an open may be answered with what an earlier one  *)
(*    was, the other file's size;                                            *)
(*  - a download broken off in a burst leaves packets numbered ahead of the  *)
(*    next one's; one that the answer to the next open overtakes is taken    *)
(*    for a part of the next file.                                           *)
Whole(d, file) == file = {d} \X (0 .. (Downloads[d].size - 1))
Successes(d) == {results[d][i] : i \in {i \in DOMAIN results[d] : results[d][i].error = "none"}}

InStep == spent.outages = 0 /\ spent.early = 0
InOrder == spent.outages = 0 /\ spent.reorders = 0

NoneBrokenOffBefore(d) ==
    \A e \in 1 .. (d - 1) : \A i \in DOMAIN results[e] :
        results[e][i].error = "none" \/ ~results[e][i].opened

OwnPackets(d) == InOrder \/ (InStep /\ NoneBrokenOffBefore(d))

DownloadedFileIsWhole ==
    \A d \in DOMAIN Downloads : \A done \in Successes(d) :
        OwnPackets(d) /\ (Downloads[d].checksize \/ InStep) => Whole(d, done.file)

(* While a file is read, what is written and the holes recorded as missing   *)
(* are disjoint and together everything before the offset expected next, and *)
(* the whole file once the bursts are through; bytesWritten counts it.  What *)
(* the number and opcode tests let through is about the file wanted, unless  *)
(* an earlier download left packets in the way (OwnPackets).                 *)
(* Every variable has its type, the retry count its limit.                   *)
HolesIn(holes) ==
    UNION {{holes[i].offset + k : k \in 0 .. (holes[i].count - 1)} : i \in DOMAIN holes}
OffsetsIn(blocks) == {b[2] : b \in blocks}
BlocksSeen ==
    IF state = "burst" THEN 0 .. (ftp.expectedOffset - 1)
    ELSE 0 .. (Downloads[ftp.path].size - 1)

Accounted ==
    /\ OffsetsIn(ftp.local) \cup HolesIn(ftp.missing) = BlocksSeen
    /\ OffsetsIn(ftp.local) \cap HolesIn(ftp.missing) = {}
    /\ ftp.bytesWritten = Cardinality(OffsetsIn(ftp.local))

BurstAccountedFor == state = "burst" => Accounted

AnswersAreOurs ==
    toGcs # <<>> /\ Taken(Head(toGcs)) /\ Head(toGcs).ack =>
        /\ state = "open" => Head(toGcs).size = Downloads[ftp.path].reported
        /\ state \in {"burst", "fill"} => Head(toGcs).file = ftp.path

EveryBlockAccountedFor ==
    /\ TypeOK
    /\ BurstAccountedFor
    /\ state \in {"fill", "reset"} /\ InStep /\ OwnPackets(ftp.path) => Accounted
    /\ OwnPackets(ftp.path) => AnswersAreOurs

(* A download under way always has a timer running to end its wait, and an   *)
(* idle manager has none, which would call through the empty state machine.  *)
AlwaysWaits == ftp.timer <=> state # "none"

(* A download is reported once, and not again when it is over; meanwhile     *)
(* the next one is refused.                                                  *)
ReportedOnce ==
    \A d \in 1 .. started :
        Len(results[d]) = IF d \in refused \/ (d = ftp.path /\ state # "none") THEN 0 ELSE 1

(* A lossy link alone does not fail a download once the file is open: with   *)
(* no more losses than retries it comes through, unless it is cancelled (the *)
(* server may take the terminate for a request repeated) or takes what an    *)
(* earlier one left.                                                         *)
LossesAreMadeGood ==
    \A d \in DOMAIN Downloads : \A i \in DOMAIN results[d] :
        results[d][i].error = "Download failed"
            /\ spent.losses <= MaxRetry /\ spent.cancels = 0
            /\ InStep /\ OwnPackets(d) /\ server.errMode = "None"
            => ~results[d][i].opened

(* A download that was started ends.                                         *)
EveryDownloadEnds ==
    \A d \in DOMAIN Downloads :
        started >= d ~> d \in refused \/ results[d] # <<>>
=============================================================================
