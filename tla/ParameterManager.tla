--------------------------- MODULE ParameterManager ---------------------------
(* The parameters of one vehicle as ParameterManager keeps them: the initial  *)
(* load by PARAM_REQUEST_LIST, from the cache or by FTP, the re-requests of   *)
(* what is missing, and the writes and reads of the user, over a link that    *)
(* loses messages.  The handlers are operators on pm, the members of the      *)
(* object; what a handler sends is in pm.out until the end of its step.       *)
EXTENDS Integers, Sequences, FiniteSets, SequencesExt

CONSTANTS
    Components,         \* component ids of the vehicle
    DefaultComponent,   \* the autopilot's
    Count,              \* [Components -> Nat]: how many parameters each has
    Values,
    FirstValue,         \* what every parameter is at first
    NoValue,            \* a parameter the station does not know
    NoCache,
    Volatile,           \* indices of the autopilot's parameters left out of its hash
    MaxInitialRequestListRetry,
    MaxInitialLoadRetrySingleParam,
    MaxReadWriteRetry,
    MaxBatchSize        \* both of the code's constants of this name

AllComponents == 0      \* MAV_COMP_ID_ALL

ASSUME ParameterAssumption ==
    /\ Components \subseteq Nat \ {0} /\ IsFiniteSet(Components)
    /\ DefaultComponent \in Components
    /\ Count \in [Components -> Nat \ {0}]
    /\ FirstValue \in Values /\ NoValue \notin Values
    /\ Volatile \subseteq 0..Count[DefaultComponent] - 1
    /\ NoCache \notin [0..Count[DefaultComponent] - 1 -> Values]
    /\ {MaxInitialRequestListRetry, MaxInitialLoadRetrySingleParam,
        MaxReadWriteRetry, MaxBatchSize} \subseteq Nat

ParamsOf(c) == {c} \X (0..Count[c] - 1)
Params == UNION {ParamsOf(c) : c \in Components}

(* The key order of the code's maps.                                          *)
Before(p, q) == p[1] < q[1] \/ (p[1] = q[1] /\ p[2] < q[2])
Earlier(S, p) == {q \in S : Before(q, p)}
InOrder(S) ==
    [k \in 1..Cardinality(S) |-> CHOOSE p \in S : Cardinality(Earlier(S, p)) = k - 1]

Without(f, S) == [x \in DOMAIN f \ S |-> f[x]]
WithNew(f, S) == [x \in DOMAIN f \cup S |-> IF x \in S THEN 0 ELSE f[x]]

ListRequest(c) == [type |-> "List", component |-> c]
ReadRequest(p) == [type |-> "Read", param |-> p]
SetRequest(p, v) == [type |-> "Set", param |-> p, value |-> v]
HashAnswer == [type |-> "SetHash"]

VARIABLES
    setup,      \* firmware, failure mode and link of this vehicle; never changes
    pm,         \* the members of ParameterManager
    linked      \* is there a primary link

(* The waiting maps are functions from the parameters waited for to the       *)
(* number of retries; the batch queue holds indices without their component,  *)
(* as the code's does.  The last two members before out are history and no    *)
(* members of the code's: only the properties read them.                      *)
NewManager(firmware, file) ==
    [facts         |-> [p \in Params |-> NoValue],
     seen          |-> {},
     waitingIndex  |-> <<>>,
     waitingName   |-> <<>>,
     waitingWrite  |-> <<>>,
     failedIndex   |-> {},
     batchActive   |-> FALSE,
     batchQueue    |-> {},
     prevReads     |-> 0,
     initialTimer  |-> FALSE,       \* _initialRequestTimeoutTimer
     waitingTimer  |-> FALSE,       \* _waitingParamTimeoutTimer
     initialRetry  |-> 0,
     lastChance    |-> FALSE,       \* _waitingForDefaultComponent
     complete      |-> FALSE,
     missing       |-> FALSE,
     cache         |-> file,
     tryFtp        |-> firmware = "apm",
     downloading   |-> FALSE,       \* FTPManager, of the parameter file
     listening     |-> FALSE,       \* connected to its downloadComplete
     file          |-> NoCache,     \* what the download will bring
     progress      |-> "None",      \* _loadProgress, as far as FTP reports it
     noResponse    |-> FALSE,       \* the user was told
     writeFailed   |-> {},          \* the user was told of these
     readFailed    |-> {},
     hashed        |-> FALSE,       \* the hash has come
     refused       |-> FALSE,       \* a second download was, and none began since
     out           |-> <<>>]

DefaultKnown(s) == \E p \in ParamsOf(DefaultComponent) : s.facts[p] # NoValue

(* Mutant of AskFor: what is given up is not noted as missing.                 *)
GiveUpQuietly(s, p) ==
    IF p[2] \in s.batchQueue \/ Cardinality(s.batchQueue) > MaxBatchSize THEN s
    ELSE IF s.waitingIndex[p] >= MaxInitialLoadRetrySingleParam
    THEN [s EXCEPT !.waitingIndex = Without(@, {p})]
    ELSE [s EXCEPT !.waitingIndex[p] = @ + 1,
                   !.batchQueue = @ \cup {p[2]},
                   !.out = Append(@, ReadRequest(p))]

(* _fillIndexBatchQueue, for the next parameter of the waiting list           *)
AskFor(s, p) ==
    IF p[2] \in s.batchQueue \/ Cardinality(s.batchQueue) > MaxBatchSize THEN s
    ELSE IF s.waitingIndex[p] >= MaxInitialLoadRetrySingleParam
    THEN [s EXCEPT !.failedIndex = @ \cup {p},
                   !.waitingIndex = Without(@, {p})]
    ELSE [s EXCEPT !.waitingIndex[p] = @ + 1,
                   !.batchQueue = @ \cup {p[2]},
                   !.out = Append(@, ReadRequest(p))]

FillIndexBatchQueue(s) ==
    LET order == InOrder(DOMAIN s.waitingIndex)
        filled[n \in 0..Len(order)] ==
            IF n = 0 THEN s ELSE AskFor(filled[n - 1], order[n])
    IN IF s.batchActive THEN filled[Len(order)] ELSE s

(* No parameter of the list is waited for any more, of any component.         *)
ListDone(s) == DOMAIN s.waitingIndex = {}

(* Mutant of CheckInitialLoadComplete: what was given up is not looked at.     *)
CompleteWithoutMissing(s) ==
    IF s.complete \/ ~ListDone(s) \/ ~DefaultKnown(s) THEN s
    ELSE [s EXCEPT !.complete = TRUE, !.missing = FALSE]

(* _checkInitialLoadComplete                                                  *)
CheckInitialLoadComplete(s) ==
    IF s.complete \/ ~ListDone(s) \/ ~DefaultKnown(s) THEN s
    ELSE [s EXCEPT !.complete = TRUE, !.missing = s.failedIndex # {}]

(* _handleParamValue, up to the test of the list timer: a value without an    *)
(* index is one nobody asked for.                                             *)
Disregarded(s, indexed) == ~indexed /\ s.initialTimer

FirstSight(s, c) ==
    IF c \in s.seen THEN s
    ELSE [s EXCEPT !.seen = @ \cup {c}, !.waitingIndex = WithNew(@, ParamsOf(c))]

IndexAnswered(s, p, indexed) ==
    IF indexed /\ p \in DOMAIN s.waitingIndex
    THEN FillIndexBatchQueue(
            [s EXCEPT !.waitingIndex = Without(@, {p}), !.batchQueue = @ \ {p[2]}])
    ELSE s

ReadsLeft(s) == Cardinality(DOMAIN s.waitingIndex) + Cardinality(DOMAIN s.waitingName)

FactsOf(s, c) == [i \in 0..Count[c] - 1 |-> s.facts[<<c, i>>]]

(* The cache is written when the last read is answered, for the component     *)
(* that answered; the model keeps the autopilot's file only.                  *)
UpdateCache(s, c) ==
    [s EXCEPT !.cache = IF /\ setup.firmware = "px4" /\ c = DefaultComponent
                           /\ s.prevReads # 0 /\ ReadsLeft(s) = 0
                        THEN FactsOf(s, c) ELSE @,
              !.prevReads = ReadsLeft(s)]

HandleParamValue(s, p, v, indexed) ==
    LET answered == IndexAnswered(FirstSight(s, p[1]), p, indexed)
        cleared == [answered EXCEPT !.waitingName = Without(@, {p}),
                                    !.waitingWrite = Without(@, {p})]
        timed == [cleared EXCEPT
                    !.initialTimer = FALSE,
                    !.waitingTimer = \/ ReadsLeft(cleared) > 0
                                     \/ DOMAIN cleared.waitingWrite # {}
                                     \/ ~DefaultKnown(s)]
        set == [timed EXCEPT !.facts[p] = v]
    IN CheckInitialLoadComplete(UpdateCache(set, p[1]))

(* The hash stands for the values it is computed from: no collisions.         *)
Hash(values) == [i \in DOMAIN values \ Volatile |-> values[i]]

(* _tryCacheHashLoad                                                          *)
TryCacheHashLoad(s, hash) ==
    IF s.cache = NoCache \/ Hash(s.cache) # hash THEN s
    ELSE LET order == InOrder(ParamsOf(DefaultComponent))
             load(t, p) == HandleParamValue(t, p, s.cache[p[2]], TRUE)
             loaded[n \in 0..Len(order)] ==
                 IF n = 0 THEN s ELSE load(loaded[n - 1], order[n])
         IN [loaded[Len(order)] EXCEPT !.out = Append(@, HashAnswer)]

(* _HASH_CHECK ends the wait for an answer, whether the cache is of use or not. *)
HandleHash(s, hash) ==
    LET heard == [s EXCEPT !.initialTimer = FALSE, !.hashed = TRUE]
    IN IF s.complete THEN heard ELSE TryCacheHashLoad(heard, hash)

(* Until the autopilot's parameters have come by FTP nothing else is taken.   *)
Ignored(s, c) == s.tryFtp /\ c = DefaultComponent /\ ~s.complete

(* The index wait lists are reset, of the components seen so far.             *)
ResetWaitLists(s, c) ==
    LET reset == {p \in Params : p[1] \in s.seen /\ c \in {p[1], AllComponents}}
    IN WithNew(s.waitingIndex, reset)

(* FTPManager::download refuses a second download; the disconnect that follows *)
(* takes the connection of the first one with it.                             *)
StartDownload(s, contents) ==
    IF s.downloading THEN [s EXCEPT !.listening = FALSE, !.refused = TRUE]
    ELSE [s EXCEPT !.downloading = TRUE, !.listening = TRUE, !.file = contents,
                   !.refused = FALSE]

(* refreshAllParameters.  What it sets for a high latency link does not keep  *)
(* it from asking.                                                            *)
RefreshAll(s, c, contents) ==
    LET ready == IF setup.highLatency
                 THEN [s EXCEPT !.complete = TRUE, !.missing = TRUE,
                                !.lastChance = FALSE]
                 ELSE s
        timed == [ready EXCEPT !.initialTimer = @ \/ ~ready.complete]
    IN IF ~linked THEN s
       ELSE IF s.tryFtp /\ c \in {AllComponents, DefaultComponent}
       THEN StartDownload([timed EXCEPT !.waitingTimer = FALSE], contents)
       ELSE [timed EXCEPT !.waitingIndex = ResetWaitLists(s, c),
                          !.out = Append(@, ListRequest(c))]

(* Mutant of InitialRequestTimeout: the list is asked for without end.         *)
AskForListForever(s, contents) ==
    [RefreshAll([s EXCEPT !.initialTimer = FALSE], AllComponents, contents)
        EXCEPT !.initialTimer = TRUE]

(* _initialRequestTimeout; the count is kept below a bound, the code compares *)
(* it with 0, 1 and the limit only.                                           *)
InitialRequestTimeout(s, contents) ==
    LET counted == [s EXCEPT !.initialRetry =
                        IF @ > MaxInitialRequestListRetry THEN @ ELSE @ + 1,
                             !.initialTimer = FALSE]
    IN IF counted.initialRetry <= MaxInitialRequestListRetry
       THEN [RefreshAll(counted, AllComponents, contents) EXCEPT !.initialTimer = TRUE]
       ELSE [counted EXCEPT !.noResponse = TRUE]

(* One round of re-requests of a waiting map: those before the batch is full  *)
(* are sent again or, after the last try, given up.                           *)
Round(waiting) ==
    LET order == InOrder(DOMAIN waiting)
        again == {i \in DOMAIN order : waiting[order[i]] < MaxReadWriteRetry}
        reached == {i \in DOMAIN order :
                        Cardinality({j \in again : j < i}) <= MaxBatchSize}
        inReach == {order[i] : i \in reached}
        sent == {order[i] : i \in reached \cap again}
    IN [sent     |-> InOrder(sent),
        givenUp  |-> inReach \ sent,
        waiting  |-> [p \in DOMAIN waiting \ (inReach \ sent) |->
                        IF p \in sent THEN waiting[p] + 1 ELSE waiting[p]]]

RetryWrites(s) ==
    LET round == Round(s.waitingWrite)
        request(p) == SetRequest(p, s.facts[p])
    IN [s EXCEPT !.waitingWrite = round.waiting,
                 !.waitingTimer = TRUE,
                 !.writeFailed = @ \cup round.givenUp,
                 !.out = @ \o [i \in DOMAIN round.sent |-> request(round.sent[i])]]

RetryReads(s) ==
    LET round == Round(s.waitingName)
    IN [s EXCEPT !.waitingName = round.waiting,
                 !.waitingTimer = TRUE,
                 !.readFailed = @ \cup round.givenUp,
                 !.out = @ \o [i \in DOMAIN round.sent |-> ReadRequest(round.sent[i])]]

(* _waitingParamTimeout: the list first, then the writes, then the reads; the *)
(* autopilot, if nothing is known of it, gets one more cycle.                 *)
WaitingParamTimeout(s) ==
    LET filled == FillIndexBatchQueue(
                    [s EXCEPT !.waitingTimer = FALSE, !.batchActive = TRUE,
                              !.batchQueue = {}])
        checked == CheckInitialLoadComplete([filled EXCEPT !.lastChance = FALSE])
    IN IF filled.batchQueue = {} /\ ~filled.lastChance /\ ~DefaultKnown(filled)
       THEN [filled EXCEPT !.waitingTimer = TRUE, !.lastChance = TRUE]
       ELSE IF filled.batchQueue # {} THEN [checked EXCEPT !.waitingTimer = TRUE]
       ELSE IF DOMAIN checked.waitingWrite # {} THEN RetryWrites(checked)
       ELSE IF DOMAIN checked.waitingName # {} THEN RetryReads(checked)
       ELSE checked

(* _parseParamFile: all of the autopilot's parameters at once                 *)
ParseParamFile(s) ==
    LET own == ParamsOf(DefaultComponent)
    IN CheckInitialLoadComplete(
        [s EXCEPT !.facts = [p \in Params |-> IF p \in own THEN s.file[p[2]] ELSE @[p]],
                  !.seen = @ \cup {DefaultComponent},
                  !.waitingIndex = Without(@, own),
                  !.waitingName = Without(@, own),
                  !.waitingWrite = Without(@, own),
                  !.progress = "None"])

(* A file that breaks off: the parameters before that are facts already.      *)
ParseBrokenFile(s, n) ==
    [s EXCEPT !.facts = [p \in Params |->
        IF p[1] = DefaultComponent /\ p[2] < n THEN s.file[p[2]] ELSE @[p]]]

(* Mutant of ConventionalDownload: nothing waits for the second attempt.       *)
UntimedDownload(s, immediately) ==
    LET fallen == [s EXCEPT !.tryFtp = FALSE, !.initialRetry = 0]
    IN IF immediately THEN InitialRequestTimeout(fallen, NoCache) ELSE fallen

(* What follows a parameter file that did not come.                           *)
ConventionalDownload(s, immediately) ==
    LET fallen == [s EXCEPT !.tryFtp = FALSE, !.initialRetry = 0]
    IN IF immediately THEN InitialRequestTimeout(fallen, NoCache)
       ELSE [fallen EXCEPT !.initialTimer = TRUE]

(* What a download may end with; the second part of a broken file is how many *)
(* parameters were read from it.                                              *)
Parsed == <<"Parsed", 0>>
NotFound == <<"NotFound", 0>>
Failed == <<"Failed", 0>>
Broken == {"Broken"} \X (0..Count[DefaultComponent] - 1)

(* _ftpDownloadComplete                                                       *)
FtpDownloadComplete(s, result) ==
    LET ended == [s EXCEPT !.downloading = FALSE, !.listening = FALSE]
    IN IF ~s.listening THEN ended
       ELSE IF result = Parsed THEN ParseParamFile(ended)
       ELSE IF result \in Broken
       THEN ConventionalDownload(ParseBrokenFile(ended, result[2]), FALSE)
       ELSE IF result = NotFound
       THEN ConventionalDownload(ended, s.initialRetry = 0)
       ELSE IF s.progress = "Slow" \/ s.initialRetry = 1
       THEN ConventionalDownload(ended, FALSE)
       ELSE [ended EXCEPT !.initialTimer = TRUE]

(* _ftpDownloadProgress: from one per mille on the list timer is stopped,     *)
(* which lies within what counts as slow.                                     *)
FtpDownloadProgress(s, progress, aboveOnePerMille) ==
    [s EXCEPT !.progress = progress,
              !.initialTimer = @ /\ ~aboveOnePerMille]

(* Mutant of FactRawValueUpdated: the write is not waited for.                 *)
WrittenOnce(s, p, v) == [s EXCEPT !.facts[p] = v, !.out = Append(@, SetRequest(p, v))]

(* _factRawValueUpdateWorker, for a value the user has set                    *)
FactRawValueUpdated(s, p, v) ==
    LET set == [s EXCEPT !.facts[p] = v, !.out = Append(@, SetRequest(p, v))]
    IN IF p[1] \notin s.seen THEN set
       ELSE [set EXCEPT !.waitingWrite = WithNew(@, {p}), !.waitingTimer = TRUE]

RefreshParameter(s, p) ==
    LET asked == [s EXCEPT !.out = Append(@, ReadRequest(p))]
    IN IF p[1] \notin s.seen THEN asked
       ELSE [asked EXCEPT !.waitingName = WithNew(@, {p}), !.waitingTimer = TRUE]

===============================================================================
