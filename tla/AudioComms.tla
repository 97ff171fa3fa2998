------------------------------ MODULE AudioComms ------------------------------
(* AudioCommsService: the speaker of the OceanSled, switched and set by HTTP  *)
(* requests from the buttons of the fly view.  A request is answered, or      *)
(* fails, at any time after it was sent: several are under way at once, and   *)
(* the speaker may serve and the station hear them in any order.              *)
EXTENDS Integers, FiniteSets

CONSTANTS
    StartLevels,    \* levels at which the speaker may be found
    MaxPresses      \* BOUND: presses of the buttons

Unknown == -1
MaxLevel == 10

ASSUME AudioAssumption ==
    /\ StartLevels \subseteq 0..MaxLevel
    /\ MaxPresses \in Nat

VARIABLES
    speakerOn,      \* _speakerOn, what the button shows
    volume,         \* _volume, what the button shows
    replies,        \* the requests under way
    speaker,        \* the speaker itself
    presses,
    doubt,          \* what the station cannot be sure of
    upset,          \* a volume request failed, or a button was pressed meanwhile
    due             \* the level the presses should have led to

vars == <<speakerOn, volume, replies, speaker, presses, doubt, upset, due>>

Concerns(kind) ==
    CASE kind = "status" -> {"Speaker", "Volume"}
      [] kind = "volume" -> {"Volume"}
      [] kind \in {"mute", "unmute"} -> {"Speaker"}

Speakers == [on : BOOLEAN, level : 0..MaxLevel]

(* A request in the service's order: its number keeps equal ones apart; sure  *)
(* is what its answer alone tells; found is what a status request has read.   *)
Replies == [kind : {"status", "volume", "mute", "unmute"}, number : 0..MaxPresses,
            level : 0..MaxLevel, served : BOOLEAN, found : Speakers,
            sure : SUBSET {"Speaker", "Volume"}]

TypeOK ==
    /\ speakerOn \in BOOLEAN
    /\ volume \in {Unknown} \cup 0..MaxLevel
    /\ replies \subseteq Replies
    /\ \A r, s \in replies : r.number = s.number => r = s
    /\ speaker \in Speakers
    /\ presses \in 0..MaxPresses
    /\ doubt \subseteq {"Speaker", "Volume"}
    /\ upset \in BOOLEAN
    /\ due \in 0..MaxLevel

Reply(kind, number, level, sure) ==
    [kind |-> kind, number |-> number, level |-> level, served |-> FALSE,
     found |-> speaker, sure |-> sure]

Init ==
    /\ speakerOn = FALSE
    /\ volume = Unknown
    /\ speaker \in [on : BOOLEAN, level : StartLevels]
    /\ replies = {Reply("status", 0, 0, Concerns("status"))}
    /\ presses = 0
    /\ doubt = {"Speaker", "Volume"}
    /\ upset = FALSE
    /\ due = speaker.level

-------------------------------------------------------------------------------
(* A request sent while another about the same is under way makes both unsure. *)
Disputed(kind) == Concerns(kind) \cap UNION {Concerns(r.kind) : r \in replies}

Send(kind, level) ==
    LET disputed == Disputed(kind)
    IN /\ replies' = {[r EXCEPT !.sure = @ \ disputed] : r \in replies}
                        \cup {Reply(kind, presses', level, Concerns(kind) \ disputed)}
       /\ doubt' = doubt \cup disputed

SendNothing == UNCHANGED <<replies, doubt>>

Press ==
    /\ presses < MaxPresses
    /\ presses' = presses + 1
    /\ UNCHANGED <<speakerOn, volume, speaker>>

(* setVolume's guard                                                          *)
Allowed(level) == level >= 1 /\ level <= MaxLevel

SetVolume(level) == IF Allowed(level) THEN Send("volume", level) ELSE SendNothing

VolumePress ==
    /\ Press
    /\ upset' = (upset \/ \E r \in replies : r.kind = "volume")

(* The buttons are enabled by the level shown; volumeUp and volumeDown look   *)
(* at it again.                                                               *)
VolumeUp ==
    /\ VolumePress
    /\ volume < MaxLevel
    /\ IF volume > 0 /\ volume <= MaxLevel THEN SetVolume(volume + 1) ELSE SendNothing
    /\ due' = IF volume = Unknown \/ due = MaxLevel THEN due ELSE due + 1

VolumeDown ==
    /\ VolumePress
    /\ volume > 0
    /\ IF volume > 1 THEN SetVolume(volume - 1) ELSE SendNothing
    /\ due' = IF due <= 1 THEN due ELSE due - 1

(* muteSpeaker, unmuteSpeaker: by what the button shows                       *)
ToggleSpeaker ==
    /\ Press
    /\ Send(IF speakerOn THEN "mute" ELSE "unmute", 0)
    /\ UNCHANGED <<upset, due>>

-------------------------------------------------------------------------------
(* The speaker serves a request.                                              *)
Serve ==
    /\ \E r \in replies :
          /\ ~r.served
          /\ speaker' = CASE r.kind = "volume" -> [speaker EXCEPT !.level = r.level]
                          [] r.kind = "mute"   -> [speaker EXCEPT !.on = FALSE]
                          [] r.kind = "unmute" -> [speaker EXCEPT !.on = TRUE]
                          [] r.kind = "status" -> speaker
          /\ replies' = (replies \ {r}) \cup {[r EXCEPT !.served = TRUE, !.found = speaker]}
    /\ UNCHANGED <<speakerOn, volume, presses, doubt, upset, due>>

(* Mutant of VolumeAfter: the level shown is not updated.                     *)
VolumeKept(r, success) ==
    IF success /\ r.kind = "status" THEN r.found.level ELSE volume

(* Mutant of VolumeAfter: the error is not looked at.                         *)
VolumeWhateverHappened(r, success) ==
    CASE r.kind = "volume" -> r.level
      [] success /\ r.kind = "status" -> r.found.level
      [] OTHER -> volume

(* What the buttons show after a reply has finished                           *)
VolumeAfter(r, success) ==
    CASE success /\ r.kind = "volume" -> r.level
      [] success /\ r.kind = "status" -> r.found.level
      [] OTHER -> volume

SpeakerAfter(r, success) ==
    CASE success /\ r.kind = "unmute" -> TRUE
      [] success /\ r.kind = "mute"   -> FALSE
      [] success /\ r.kind = "status" -> r.found.on
      [] OTHER -> speakerOn

Finish(r, success) ==
    /\ speakerOn' = SpeakerAfter(r, success)
    /\ volume' = VolumeAfter(r, success)
    /\ replies' = replies \ {r}
    /\ UNCHANGED <<speaker, presses, due>>

Succeeds ==
    \E r \in replies :
        /\ r.served
        /\ Finish(r, TRUE)
        /\ doubt' = doubt \ r.sure
        /\ UNCHANGED upset

(* A request fails before the speaker has it, or its answer is lost.          *)
Fails ==
    \E r \in replies :
        /\ Finish(r, FALSE)
        /\ doubt' = IF r.served /\ r.kind # "status"
                    THEN doubt \cup Concerns(r.kind) ELSE doubt
        /\ upset' = (upset \/ r.kind = "volume")

Next ==
    \/ VolumeUp
    \/ VolumeDown
    \/ ToggleSpeaker
    \/ Serve
    \/ Succeeds
    \/ Fails

Spec == Init /\ [][Next]_vars

-------------------------------------------------------------------------------
(* When no request is under way the buttons show the speaker's own state and  *)
(* level, whatever failed before, except where two requests crossed or an     *)
(* answer was lost and none has succeeded alone since, or nothing was ever    *)
(* heard of the speaker.  setVolume and _postToApi take over what was asked   *)
(* only when the reply comes.                                                 *)
ShownIsTrue ==
    replies = {} =>
        /\ "Speaker" \notin doubt => speakerOn = speaker.on
        /\ "Volume" \notin doubt => volume = speaker.level

(* On a network that fails no request, and with one request at a time, every  *)
(* press of the volume buttons moves the speaker by one level, between 1 and  *)
(* 10: volumeUp and volumeDown count from the level shown, so each has to     *)
(* find the level of the press before.  At level 0 the buttons do nothing.    *)
PressesCount ==
    replies = {} /\ ~upset => speaker.level = due \/ speaker.level = 0

===============================================================================
