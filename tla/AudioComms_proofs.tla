--------------------------- MODULE AudioComms_proofs ---------------------------
(* Proofs about AudioComms for every set of levels and number of presses.     *)
EXTENDS AudioComms, TLAPS

Aspects == {"Speaker", "Volume"}

(* The buttons show the speaker's state, as far as aspect A goes.             *)
Right(A) ==
    /\ A = "Speaker" => speakerOn = speaker.on
    /\ A = "Volume" => volume = speaker.level

(* What r tells of aspect A, once it is taken over, is the state now.         *)
Told(r, A, now) ==
    /\ A = "Speaker" =>
          /\ r.kind = "mute" => now.on = FALSE
          /\ r.kind = "unmute" => now.on = TRUE
          /\ r.kind = "status" => r.found.on = now.on
    /\ A = "Volume" =>
          /\ r.kind = "volume" => r.level = now.level
          /\ r.kind = "status" => r.found.level = now.level

(* A request that is sure of A is the only one about it, and once served it   *)
(* tells the truth.  Without doubt every request about A is sure of it, and   *)
(* the buttons are right, or will be with the answer to come.                 *)
Known(A) ==
    /\ \A r \in replies : A \in r.sure =>
          /\ A \in Concerns(r.kind)
          /\ \A s \in replies : A \in Concerns(s.kind) => s = r
          /\ r.served => Told(r, A, speaker)
    /\ A \notin doubt =>
          /\ \A r \in replies : A \in Concerns(r.kind) => A \in r.sure
          /\ \/ Right(A)
             \/ \E r \in replies : A \in r.sure /\ r.served /\ r.kind # "status"

(* Requests are numbered by the presses that made them.                       *)
Numbered == \A r \in replies : r.number <= presses

IInv == TypeOK /\ Numbered /\ \A A \in Aspects : Known(A)

-------------------------------------------------------------------------------
LEMMA InitIsGood == Init => IInv
  <1> SUFFICES ASSUME Init PROVE IInv
    OBVIOUS
  <1> DEFINE first == Reply("status", 0, 0, Concerns("status"))
  <1>1. /\ replies = {first}
        /\ first \in Replies /\ first.number = 0 /\ first.served = FALSE
        /\ first.kind = "status" /\ first.sure = Aspects
    BY AudioAssumption DEF Init, Reply, Replies, Concerns, Speakers, Aspects, MaxLevel
  <1> HIDE DEF first
  <1>2. TypeOK
    <2>1. speaker \in Speakers /\ speaker.level \in 0..MaxLevel
      BY AudioAssumption DEF Init, Speakers
    <2>2. presses \in 0..MaxPresses
      BY AudioAssumption DEF Init
    <2> QED  BY <1>1, <2>1, <2>2 DEF Init, TypeOK
  <1>3. Numbered
    BY <1>1 DEF Numbered, Init
  <1>4. ASSUME NEW A \in Aspects PROVE Known(A)
    BY <1>1 DEF Known, Init, Concerns, Aspects
  <1> QED  BY <1>2, <1>3, <1>4 DEF IInv

(* A request is sent, nothing else changes but the number of presses.         *)
LEMMA SendIsGood ==
    ASSUME IInv, NEW kind \in {"volume", "mute", "unmute"}, NEW level \in 0..MaxLevel,
           Send(kind, level),
           presses' = presses + 1, presses' \in 0..MaxPresses,
           UNCHANGED <<speakerOn, volume, speaker>>,
           upset' \in BOOLEAN, due' \in 0..MaxLevel
    PROVE  IInv'
  <1> DEFINE disputed == Disputed(kind)
             new == Reply(kind, presses', level, Concerns(kind) \ disputed)
             old(r) == [r EXCEPT !.sure = @ \ disputed]
  <1>1. /\ replies \subseteq Replies /\ doubt \subseteq Aspects /\ speaker \in Speakers
        /\ \A r, s \in replies : r.number = s.number => r = s
        /\ presses \in Nat /\ \A r \in replies : r.number \in Nat /\ r.number <= presses
    BY AudioAssumption DEF IInv, TypeOK, Replies, Numbered, Aspects
  <1>2. /\ replies' = {old(r) : r \in replies} \cup {new}
        /\ doubt' = doubt \cup disputed
    BY DEF Send
  <1>3. /\ new \in Replies /\ new.kind = kind /\ new.number = presses + 1
        /\ new.served = FALSE /\ new.sure = Concerns(kind) \ disputed
    BY <1>1 DEF Reply, Replies, Concerns
  <1>4. ASSUME NEW r \in replies
        PROVE  /\ old(r) \in Replies /\ old(r).kind = r.kind /\ old(r).number = r.number
               /\ old(r).served = r.served /\ old(r).sure = r.sure \ disputed
               /\ old(r).level = r.level /\ old(r).found = r.found
    BY <1>1 DEF Replies
  <1>5. disputed \subseteq Concerns(kind) /\ Concerns(kind) \subseteq Aspects
    BY DEF Disputed, Concerns, Aspects
  <1>6. \A A : A \in disputed <=>
               A \in Concerns(kind) /\ \E r \in replies : A \in Concerns(r.kind)
    BY DEF Disputed
  <1> HIDE DEF disputed, new, old
  <1>7. \A t \in replies' : t = new \/ \E r \in replies : t = old(r)
    BY <1>2
  <1>8. TypeOK'
    <2>1. replies' \subseteq Replies
      BY <1>3, <1>4, <1>7
    <2>2. ASSUME NEW t \in replies', NEW u \in replies', t.number = u.number
          PROVE  t = u
      BY <1>1, <1>3, <1>4, <1>7, <2>2
    <2>3. doubt' \subseteq Aspects
      BY <1>1, <1>2, <1>5
    <2> QED  BY <2>1, <2>2, <2>3 DEF IInv, TypeOK, Aspects
  <1>9. Numbered'
    BY <1>1, <1>3, <1>4, <1>7 DEF Numbered
  <1>10. ASSUME NEW A \in Aspects PROVE Known(A)'
    <2>1. Known(A) /\ Right(A)' = Right(A)
      BY DEF IInv, Right
    <2>2. ASSUME NEW r \in replies PROVE Told(old(r), A, speaker') = Told(r, A, speaker)
      BY <1>4 DEF Told
    <2>3. CASE A \in disputed
      BY <1>2, <1>3, <1>4, <1>7, <2>3 DEF Known
    <2>4. CASE A \notin disputed /\ A \in Concerns(kind)
      <3>1. \A r \in replies : A \notin Concerns(r.kind)
        BY <1>6, <2>4
      <3>2. \A r \in replies : A \notin r.sure
        BY <2>1, <3>1 DEF Known
      <3>3. A \notin doubt' => Right(A)'
        BY <1>2, <2>1, <3>2 DEF Known
      <3>4. \A t \in replies' : A \in t.sure \/ A \in Concerns(t.kind) => t = new
        BY <1>4, <1>7, <3>1, <3>2
      <3> QED  BY <1>3, <2>4, <3>3, <3>4 DEF Known
    <2>5. CASE A \notin Concerns(kind)
      <3>1. A \notin disputed /\ A \notin new.sure /\ A \notin Concerns(new.kind)
        BY <1>3, <1>5, <2>5
      <3>2. ASSUME NEW t \in replies', A \in t.sure
            PROVE  /\ A \in Concerns(t.kind)
                   /\ \A u \in replies' : A \in Concerns(u.kind) => u = t
                   /\ t.served => Told(t, A, speaker')
        <4>1. PICK r \in replies : t = old(r) /\ A \in r.sure
          BY <1>4, <1>7, <3>1, <3>2
        <4>2. /\ A \in Concerns(r.kind)
              /\ \A s \in replies : A \in Concerns(s.kind) => s = r
              /\ r.served => Told(r, A, speaker)
          BY <2>1, <4>1 DEF Known
        <4> QED  BY <1>4, <1>7, <2>2, <3>1, <4>1, <4>2
      <3>3. ASSUME A \notin doubt'
            PROVE  /\ \A t \in replies' : A \in Concerns(t.kind) => A \in t.sure
                   /\ \/ Right(A)'
                      \/ \E t \in replies' : A \in t.sure /\ t.served /\ t.kind # "status"
        <4>1. A \notin doubt
          BY <1>2, <3>3
        <4>2. \A t \in replies' : A \in Concerns(t.kind) => A \in t.sure
          BY <1>4, <1>7, <2>1, <3>1, <4>1 DEF Known
        <4>3. ASSUME NEW r \in replies, A \in r.sure, r.served, r.kind # "status"
              PROVE  /\ old(r) \in replies' /\ A \in old(r).sure
                     /\ old(r).served /\ old(r).kind # "status"
          BY <1>2, <1>4, <3>1, <4>3
        <4> QED  BY <2>1, <4>1, <4>2, <4>3 DEF Known
      <3> QED  BY <3>2, <3>3 DEF Known
    <2> QED  BY <2>3, <2>4, <2>5
  <1> QED  BY <1>8, <1>9, <1>10 DEF IInv

(* A press that sends nothing.                                                *)
LEMMA QuietPressIsGood ==
    ASSUME IInv, SendNothing,
           presses' = presses + 1, presses' \in 0..MaxPresses,
           UNCHANGED <<speakerOn, volume, speaker>>,
           upset' \in BOOLEAN, due' \in 0..MaxLevel
    PROVE  IInv'
  <1>1. TypeOK'
    BY DEF IInv, TypeOK, SendNothing
  <1>2. Numbered'
    <2>1. \A r \in replies : r.number \in Int /\ presses \in Int
      BY AudioAssumption DEF IInv, TypeOK, Replies
    <2> QED  BY <2>1 DEF IInv, Numbered, SendNothing
  <1>3. \A A \in Aspects : Known(A)'
    BY DEF IInv, Known, Right, Told, SendNothing
  <1> QED  BY <1>1, <1>2, <1>3 DEF IInv

LEMMA PressIsGood ==
    ASSUME IInv, VolumeUp \/ VolumeDown \/ ToggleSpeaker
    PROVE  IInv'
  <1>1. /\ presses' = presses + 1 /\ presses' \in 0..MaxPresses
        /\ UNCHANGED <<speakerOn, volume, speaker>>
    BY AudioAssumption DEF IInv, TypeOK, VolumeUp, VolumeDown, VolumePress, ToggleSpeaker, Press
  <1>2. upset' \in BOOLEAN
    BY DEF IInv, TypeOK, VolumeUp, VolumeDown, VolumePress, ToggleSpeaker
  <1>3. due' \in 0..MaxLevel /\ volume \in Int
    BY DEF IInv, TypeOK, VolumeUp, VolumeDown, VolumePress, ToggleSpeaker, MaxLevel, Unknown
  <1>4. CASE VolumeUp \/ VolumeDown
    <2>1. SendNothing \/ \E level \in 0..MaxLevel : Send("volume", level)
      BY <1>3, <1>4 DEF VolumeUp, VolumeDown, SetVolume, Allowed, MaxLevel
    <2> QED  BY <1>1, <1>2, <1>3, <2>1, SendIsGood, QuietPressIsGood
  <1>5. CASE ToggleSpeaker
    <2>1. Send("mute", 0) \/ Send("unmute", 0)
      BY <1>5 DEF ToggleSpeaker
    <2>2. 0 \in 0..MaxLevel
      BY DEF MaxLevel
    <2> QED  BY <1>1, <1>2, <1>3, <2>1, <2>2, SendIsGood
  <1> QED  BY <1>4, <1>5

-------------------------------------------------------------------------------
(* The speaker serves a request: one that is sure of an aspect tells the      *)
(* truth from then on, one that is not leaves the aspect in doubt.            *)
LEMMA ServeIsGood ==
    ASSUME IInv, Serve
    PROVE  IInv'
  <1>1. PICK r \in replies :
           /\ ~r.served
           /\ speaker' = CASE r.kind = "volume" -> [speaker EXCEPT !.level = r.level]
                           [] r.kind = "mute"   -> [speaker EXCEPT !.on = FALSE]
                           [] r.kind = "unmute" -> [speaker EXCEPT !.on = TRUE]
                           [] r.kind = "status" -> speaker
           /\ replies' = (replies \ {r})
                            \cup {[r EXCEPT !.served = TRUE, !.found = speaker]}
    BY DEF Serve
  <1> DEFINE new == [r EXCEPT !.served = TRUE, !.found = speaker]
  <1>2. UNCHANGED <<speakerOn, volume, presses, doubt, upset, due>>
    BY DEF Serve
  <1>3. replies \subseteq Replies /\ r \in Replies /\ speaker \in Speakers
    BY DEF IInv, TypeOK
  <1>4. /\ new \in Replies /\ new.kind = r.kind /\ new.number = r.number
        /\ new.level = r.level /\ new.sure = r.sure
        /\ new.served = TRUE /\ new.found = speaker
    BY <1>3 DEF Replies
  <1>5. r.kind \in {"status", "volume", "mute", "unmute"}
    BY <1>3 DEF Replies
  <1>6. /\ speaker' \in Speakers
        /\ r.kind = "volume" => speaker'.level = r.level /\ speaker'.on = speaker.on
        /\ r.kind = "mute" => speaker'.on = FALSE /\ speaker'.level = speaker.level
        /\ r.kind = "unmute" => speaker'.on = TRUE /\ speaker'.level = speaker.level
        /\ r.kind = "status" => speaker' = speaker
    BY <1>1, <1>3, <1>5 DEF Replies, Speakers
  <1> HIDE DEF new
  <1>7. \A t \in replies' : t = new \/ (t \in replies /\ t # r)
    BY <1>1 DEF new
  <1>8. new \in replies' /\ \A t \in replies : t # r => t \in replies'
    BY <1>1 DEF new
  <1>9. TypeOK'
    <2>1. replies' \subseteq Replies
      BY <1>3, <1>4, <1>7
    <2>2. \A t, u \in replies' : t.number = u.number => t = u
      BY <1>4, <1>7 DEF IInv, TypeOK
    <2> QED  BY <1>2, <1>6, <2>1, <2>2 DEF IInv, TypeOK
  <1>10. Numbered'
    BY <1>2, <1>4, <1>7 DEF IInv, Numbered
  <1>11. ASSUME NEW A \in Aspects PROVE Known(A)'
    <2>1. Known(A) /\ doubt' = doubt
      BY <1>2 DEF IInv
    <2>2. CASE A \notin Concerns(r.kind)
      <3>1. A \notin r.sure
        BY <2>1, <2>2 DEF Known
      <3>2. /\ A = "Speaker" => speaker'.on = speaker.on
            /\ A = "Volume" => speaker'.level = speaker.level
        BY <1>5, <1>6, <2>2 DEF Concerns
      <3>3. /\ Right(A)' = Right(A)
            /\ \A s \in replies : Told(s, A, speaker) => Told(s, A, speaker')
        BY <1>2, <3>2 DEF Right, Told
      <3> QED  BY <1>4, <1>7, <1>8, <2>1, <2>2, <3>1, <3>3 DEF Known
    <2>3. CASE A \in r.sure
      <3>1. \A t \in replies' : A \in t.sure \/ A \in Concerns(t.kind) => t = new
        BY <1>7, <2>1, <2>3 DEF Known
      <3>2. Told(new, A, speaker')
        BY <1>4, <1>6 DEF Told
      <3>3. A \in Concerns(new.kind)
        BY <1>4, <2>1, <2>3 DEF Known
      <3>4. A \notin doubt /\ r.kind = "status" => Right(A)'
        BY <1>1, <1>2, <1>6, <2>1, <2>3 DEF Known, Right
      <3> QED  BY <1>4, <1>8, <2>1, <2>3, <3>1, <3>2, <3>3, <3>4 DEF Known
    <2>4. CASE A \in Concerns(r.kind) /\ A \notin r.sure
      <3>1. A \in doubt
        BY <2>1, <2>4 DEF Known
      <3>2. \A t \in replies' : A \notin t.sure
        BY <1>4, <1>7, <2>1, <2>4 DEF Known
      <3> QED  BY <2>1, <3>1, <3>2 DEF Known
    <2> QED  BY <2>2, <2>3, <2>4
  <1> QED  BY <1>9, <1>10, <1>11 DEF IInv

(* What a finished request leaves of the other requests.                      *)
LEMMA FinishKeepsTypes ==
    ASSUME IInv, NEW r \in replies, NEW success \in BOOLEAN, Finish(r, success),
           doubt' \subseteq Aspects, upset' \in BOOLEAN
    PROVE  TypeOK' /\ Numbered'
  <1>1. r \in Replies
    BY DEF IInv, TypeOK
  <1>2. /\ r.kind \in {"status", "volume", "mute", "unmute"}
        /\ r.level \in 0..MaxLevel
        /\ r.found.on \in BOOLEAN /\ r.found.level \in 0..MaxLevel
    BY <1>1 DEF Replies, Speakers
  <1>3. speakerOn' \in BOOLEAN
    BY <1>2 DEF IInv, TypeOK, Finish, SpeakerAfter
  <1>4. volume' \in {Unknown} \cup 0..MaxLevel
    BY <1>2 DEF IInv, TypeOK, Finish, VolumeAfter
  <1> QED  BY <1>3, <1>4 DEF IInv, TypeOK, Finish, Aspects, Numbered

(* An answer is taken over: what it was sure of is shown right.               *)
LEMMA SucceedsIsGood ==
    ASSUME IInv, Succeeds
    PROVE  IInv'
  <1>1. PICK r \in replies : r.served /\ Finish(r, TRUE) /\ doubt' = doubt \ r.sure
    BY DEF Succeeds
  <1>2. UNCHANGED <<speaker, presses, due, upset>> /\ replies' = replies \ {r}
    BY <1>1 DEF Succeeds, Finish
  <1>3. r.kind \in {"status", "volume", "mute", "unmute"}
    BY DEF IInv, TypeOK, Replies
  <1>4. TypeOK' /\ Numbered'
    <2>1. doubt' \subseteq Aspects /\ upset' \in BOOLEAN
      BY <1>1, <1>2 DEF IInv, TypeOK, Aspects
    <2> QED  BY <1>1, <2>1, FinishKeepsTypes
  <1>5. /\ speakerOn' = SpeakerAfter(r, TRUE)
        /\ volume' = VolumeAfter(r, TRUE)
    BY <1>1 DEF Finish
  <1>6. ASSUME NEW A \in Aspects PROVE Known(A)'
    <2>1. Known(A) /\ \A s \in replies : Told(s, A, speaker') = Told(s, A, speaker)
      BY <1>2 DEF IInv, Told
    <2>2. CASE A \in r.sure
      <3>1. \A t \in replies' : A \notin t.sure /\ A \notin Concerns(t.kind)
        BY <1>2, <2>1, <2>2 DEF Known
      <3>2. Told(r, A, speaker) /\ A \in Concerns(r.kind)
        BY <1>1, <2>1, <2>2 DEF Known
      <3>3. ASSUME A = "Speaker" PROVE speakerOn' = speaker'.on
        BY <1>2, <1>3, <1>5, <3>2, <3>3 DEF Told, Concerns, SpeakerAfter
      <3>4. ASSUME A = "Volume" PROVE volume' = speaker'.level
        BY <1>2, <1>3, <1>5, <3>2, <3>4 DEF Told, Concerns, VolumeAfter
      <3>5. Right(A)'
        BY <3>3, <3>4 DEF Right
      <3> QED  BY <3>1, <3>5 DEF Known
    <2>3. CASE A \in Concerns(r.kind) /\ A \notin r.sure
      <3>1. A \in doubt'
        BY <1>1, <2>1, <2>3 DEF Known
      <3> QED  BY <1>2, <2>1, <3>1 DEF Known
    <2>4. CASE A \notin Concerns(r.kind)
      <3>1. A \notin r.sure
        BY <2>1, <2>4 DEF Known
      <3>2. ASSUME A = "Speaker" PROVE speakerOn' = speakerOn
        BY <1>3, <1>5, <2>4, <3>2 DEF Concerns, SpeakerAfter
      <3>3. ASSUME A = "Volume" PROVE volume' = volume
        BY <1>3, <1>5, <2>4, <3>3 DEF Concerns, VolumeAfter
      <3>4. Right(A)' = Right(A)
        BY <1>2, <3>2, <3>3 DEF Right
      <3> QED  BY <1>1, <1>2, <2>1, <3>1, <3>4 DEF Known
    <2> QED  BY <2>2, <2>3, <2>4
  <1> QED  BY <1>4, <1>6 DEF IInv

(* A request fails: if the speaker had served it, what it set is in doubt.    *)
LEMMA FailsIsGood ==
    ASSUME IInv, Fails
    PROVE  IInv'
  <1>1. PICK r \in replies :
           /\ Finish(r, FALSE)
           /\ doubt' = IF r.served /\ r.kind # "status"
                       THEN doubt \cup Concerns(r.kind) ELSE doubt
           /\ upset' = (upset \/ r.kind = "volume")
    BY DEF Fails
  <1>2. /\ UNCHANGED <<speaker, presses, due, speakerOn, volume>>
        /\ replies' = replies \ {r}
    <2>1. SpeakerAfter(r, FALSE) = speakerOn /\ VolumeAfter(r, FALSE) = volume
      BY DEF SpeakerAfter, VolumeAfter
    <2> QED  BY <1>1, <2>1 DEF Finish
  <1>3. TypeOK' /\ Numbered'
    <2>1. r.kind \in {"status", "volume", "mute", "unmute"}
      BY DEF IInv, TypeOK, Replies
    <2>2. doubt' \subseteq Aspects
      BY <1>1, <2>1 DEF IInv, TypeOK, Aspects, Concerns
    <2>3. upset' \in BOOLEAN
      BY <1>1 DEF IInv, TypeOK
    <2> QED  BY <1>1, <2>2, <2>3, FinishKeepsTypes
  <1>4. ASSUME NEW A \in Aspects PROVE Known(A)'
    <2>1. Known(A) /\ Right(A)' = Right(A)
      BY <1>2 DEF IInv, Right
    <2>2. \A s \in replies : Told(s, A, speaker') = Told(s, A, speaker)
      BY <1>2 DEF Told
    <2>3. ASSUME A \notin doubt', NEW s \in replies,
                 A \in s.sure, s.served, s.kind # "status"
          PROVE  s \in replies'
      BY <1>1, <1>2, <2>1, <2>3 DEF Known
    <2>4. A \notin doubt' => A \notin doubt
      BY <1>1
    <2> QED  BY <1>2, <2>1, <2>2, <2>3, <2>4 DEF Known
  <1> QED  BY <1>3, <1>4 DEF IInv

-------------------------------------------------------------------------------
LEMMA StepIsGood == IInv /\ [Next]_vars => IInv'
  <1> SUFFICES ASSUME IInv, [Next]_vars PROVE IInv'
    OBVIOUS
  <1>1. CASE VolumeUp \/ VolumeDown \/ ToggleSpeaker
    BY <1>1, PressIsGood
  <1>2. CASE Serve
    BY <1>2, ServeIsGood
  <1>3. CASE Succeeds
    BY <1>3, SucceedsIsGood
  <1>4. CASE Fails
    BY <1>4, FailsIsGood
  <1>5. CASE UNCHANGED vars
    BY <1>5 DEF vars, IInv, TypeOK, Numbered, Known, Right, Told
  <1> QED  BY <1>1, <1>2, <1>3, <1>4, <1>5 DEF Next

(* The invariant holds in every reachable state.                              *)
THEOREM AlwaysGood == Spec => []IInv
  BY InitIsGood, StepIsGood, PTL DEF Spec

(* The state of the service has its types, and the requests under way are     *)
(* told apart by the press that made them.                                    *)
THEOREM TypeCorrect == Spec => []TypeOK
  <1>1. IInv => TypeOK
    BY DEF IInv
  <1> QED  BY <1>1, AlwaysGood, PTL

(* Once no request of AudioCommsService is under way the buttons show the     *)
(* speaker's own state and level, except for what two requests that crossed,  *)
(* or a lost answer, have left in doubt.                                      *)
THEOREM ShownAlwaysTrue == Spec => []ShownIsTrue
  <1>1. IInv => ShownIsTrue
    <2>1. \A A \in Aspects : Known(A) /\ replies = {} /\ A \notin doubt => Right(A)
      BY DEF Known
    <2> QED  BY <2>1 DEF IInv, ShownIsTrue, Right, Aspects
  <1> QED  BY <1>1, AlwaysGood, PTL

-------------------------------------------------------------------------------
(* The presses of the volume buttons.  The only status request is the first   *)
(* request, and no volume request is sent before it has brought the level.    *)
(* While no volume request failed or was hurried, there is at most one, it    *)
(* asks for the level due, and without one the level shown is the speaker's.  *)
FirstTheLevel ==
    /\ \A r \in replies : r.kind = "status" =>
          r.number = 0 /\ volume = Unknown /\ (r.served => r.found.level = speaker.level)
    /\ volume = Unknown =>
          speaker.level = due /\ \A r \in replies : r.kind # "volume"

OneAtATime ==
    /\ \A r, s \in replies : r.kind = "volume" /\ s.kind = "volume" => r = s
    /\ \A r \in replies : r.kind = "volume" =>
          volume >= 1 /\ r.level = due /\ due >= 1 /\ (r.served => speaker.level = due)
    /\ volume # Unknown /\ (\A r \in replies : r.kind # "volume") =>
          volume = speaker.level /\ (volume = due \/ volume = 0)

Counted == FirstTheLevel /\ (~upset => OneAtATime)

LEMMA InitIsCounted == Init => Counted
  BY DEF Init, Reply, Counted, FirstTheLevel, OneAtATime

(* A request, when one of the kind is sent beside it.                         *)
Beside(r, kind) == [r EXCEPT !.sure = @ \ Disputed(kind)]

(* What a press leaves: the requests under way, but for what they are sure    *)
(* of, and the new one.                                                       *)
LEMMA SendAdds ==
    ASSUME IInv, NEW kind \in {"volume", "mute", "unmute"}, NEW level \in 0..MaxLevel,
           presses' \in Nat, Send(kind, level)
    PROVE  \E new \in replies' :
              /\ new.kind = kind /\ new.level = level /\ ~new.served
              /\ \A t \in replies' : t = new \/
                    \E r \in replies : /\ t.kind = r.kind /\ t.number = r.number
                                      /\ t.level = r.level /\ t.served = r.served
                                      /\ t.found = r.found
                                      /\ t = Beside(r, kind)
              /\ \A r \in replies : Beside(r, kind) \in replies'
  <1> DEFINE new == Reply(kind, presses', level, Concerns(kind) \ Disputed(kind))
  <1>1. replies' = {Beside(r, kind) : r \in replies} \cup {new}
    BY DEF Send, Beside
  <1>2. new.kind = kind /\ new.level = level /\ ~new.served
    BY DEF Reply
  <1>3. ASSUME NEW r \in replies
        PROVE  /\ Beside(r, kind).kind = r.kind /\ Beside(r, kind).number = r.number
               /\ Beside(r, kind).level = r.level /\ Beside(r, kind).served = r.served
               /\ Beside(r, kind).found = r.found
    <2>1. r \in Replies
      BY DEF IInv, TypeOK
    <2> QED  BY <2>1 DEF Replies, Beside
  <1> HIDE DEF new
  <1>4. new \in replies' /\ \A t \in replies' : t = new \/ \E r \in replies : t = Beside(r, kind)
    BY <1>1
  <1>5. \A r \in replies : Beside(r, kind) \in replies'
    BY <1>1
  <1>6. \A t \in replies' : t = new \/
           \E r \in replies : /\ t.kind = r.kind /\ t.number = r.number
                             /\ t.level = r.level /\ t.served = r.served
                             /\ t.found = r.found /\ t = Beside(r, kind)
    BY <1>3, <1>4
  <1> QED  BY <1>2, <1>4, <1>5, <1>6

(* A volume request is sent only while the level shown is known and no other  *)
(* is under way, or somebody was in a hurry.                                  *)
LEMMA VolumeSentIsCounted ==
    ASSUME IInv, Counted, NEW level \in 1..MaxLevel, Send("volume", level), Press,
           volume \in 1..MaxLevel,
           volume = due => due' = level,
           upset' = (upset \/ \E r \in replies : r.kind = "volume")
    PROVE  Counted'
  <1>1. UNCHANGED <<volume, speaker>> /\ presses' \in Nat /\ level \in 0..MaxLevel
    BY AudioAssumption DEF IInv, TypeOK, Press, MaxLevel
  <1>2. PICK new \in replies' :
           /\ new.kind = "volume" /\ new.level = level /\ ~new.served
           /\ \A t \in replies' : t = new \/
                 \E r \in replies : /\ t.kind = r.kind /\ t.number = r.number
                                   /\ t.level = r.level /\ t.served = r.served
                                   /\ t.found = r.found
    BY <1>1, SendAdds
  <1>3. volume # Unknown
    BY DEF Unknown, MaxLevel
  <1>4. FirstTheLevel'
    BY <1>1, <1>2, <1>3 DEF Counted, FirstTheLevel
  <1>5. ASSUME ~upset' PROVE OneAtATime'
    <2>1. ~upset /\ \A r \in replies : r.kind # "volume"
      BY <1>5
    <2>2. due' = level
      BY <1>3, <2>1 DEF Counted, OneAtATime, MaxLevel
    <2>3. \A t \in replies' : t.kind = "volume" => t = new
      BY <1>2, <2>1
    <2> QED  BY <1>1, <1>2, <2>2, <2>3 DEF OneAtATime, MaxLevel
  <1> QED  BY <1>4, <1>5 DEF Counted

(* The other presses.                                                         *)
LEMMA OtherPressIsCounted ==
    ASSUME IInv, Counted, Press,
           \/ SendNothing /\ \/ due' = due
                             \/ volume = 0
           \/ \E kind \in {"mute", "unmute"} : Send(kind, 0) /\ due' = due,
           upset' \in BOOLEAN, upset => upset',
           (\E r \in replies : r.kind = "volume") /\ due' # due => upset'
    PROVE  Counted'
  <1>1. UNCHANGED <<volume, speaker>> /\ presses' \in Nat
    BY AudioAssumption DEF IInv, TypeOK, Press
  <1>2. \A t \in replies' :
           \/ t.kind \in {"mute", "unmute"}
           \/ \E r \in replies : /\ t.kind = r.kind /\ t.number = r.number
                                 /\ t.level = r.level /\ t.served = r.served
                                 /\ t.found = r.found
    BY <1>1, SendAdds DEF SendNothing, MaxLevel
  <1>3. \A r \in replies : \E t \in replies' : t.kind = r.kind
    <2>1. CASE SendNothing
      BY <2>1 DEF SendNothing
    <2>2. ASSUME NEW kind \in {"mute", "unmute"}, Send(kind, 0),
                 NEW r \in replies
          PROVE  \E t \in replies' : t.kind = r.kind
      <3>1. Beside(r, kind) \in replies'
        BY <1>1, <2>2, SendAdds DEF MaxLevel
      <3>2. r \in Replies
        BY DEF IInv, TypeOK
      <3> QED  BY <3>1, <3>2 DEF Replies, Beside
    <2> QED  BY <2>1, <2>2
  <1>4. volume = 0 => volume # Unknown
    BY DEF Unknown
  <1>5. FirstTheLevel'
    BY <1>1, <1>2, <1>4 DEF Counted, FirstTheLevel
  <1>6. ASSUME ~upset' PROVE OneAtATime'
    <2>1. OneAtATime
      BY <1>6 DEF Counted
    <2>2. \A t, u \in replies' : t.kind = "volume" /\ u.kind = "volume" => t = u
      <3>1. CASE SendNothing
        BY <2>1, <3>1 DEF OneAtATime, SendNothing
      <3>2. ASSUME NEW kind \in {"mute", "unmute"}, Send(kind, 0)
            PROVE  \A t, u \in replies' : t.kind = "volume" /\ u.kind = "volume" => t = u
        <4>1. \A t \in replies' : t.kind = "volume" =>
                 \E r \in replies : t.kind = r.kind /\ t = Beside(r, kind)
          BY <1>1, <3>2, SendAdds DEF MaxLevel
        <4> QED  BY <2>1, <4>1 DEF OneAtATime
      <3> QED  BY <3>1, <3>2
    <2>3. \A t \in replies' : t.kind = "volume" =>
             volume' >= 1 /\ t.level = due' /\ due' >= 1 /\ (t.served => speaker'.level = due')
      BY <1>1, <1>2, <1>6, <2>1 DEF OneAtATime
    <2>4. volume' # Unknown /\ (\A t \in replies' : t.kind # "volume") =>
             volume' = speaker'.level /\ (volume' = due' \/ volume' = 0)
      BY <1>1, <1>3, <2>1 DEF OneAtATime
    <2> QED  BY <2>2, <2>3, <2>4 DEF OneAtATime
  <1> QED  BY <1>5, <1>6 DEF Counted

LEMMA PressIsCounted ==
    ASSUME IInv, Counted, VolumeUp \/ VolumeDown \/ ToggleSpeaker
    PROVE  Counted'
  <1>1. /\ volume \in Int /\ due \in Int /\ 0 <= due /\ due <= 10
        /\ volume = Unknown \/ (0 <= volume /\ volume <= 10)
        /\ upset \in BOOLEAN
    BY DEF IInv, TypeOK, Unknown, MaxLevel
  <1>2. CASE VolumeUp
    <2>1. /\ VolumePress /\ volume < 10
          /\ due' = IF volume = Unknown \/ due = 10 THEN due ELSE due + 1
      BY <1>2 DEF VolumeUp, MaxLevel
    <2>2. /\ Press /\ upset' \in BOOLEAN
          /\ upset \/ (\E r \in replies : r.kind = "volume") => upset'
      BY <1>1, <2>1 DEF VolumePress
    <2>5. upset' = (upset \/ \E r \in replies : r.kind = "volume")
      BY <2>1 DEF VolumePress
    <2>3. CASE volume \in {Unknown, 0}
      <3>1. SendNothing
        BY <1>2, <2>3 DEF VolumeUp, Unknown
      <3> QED  BY <2>1, <2>2, <2>3, <3>1, OtherPressIsCounted
    <2>4. CASE volume \notin {Unknown, 0}
      <3>1. Send("volume", volume + 1) /\ volume + 1 \in 1..MaxLevel
        BY <1>1, <1>2, <2>1, <2>4 DEF VolumeUp, SetVolume, Allowed, MaxLevel
      <3>2. volume = due => due' = volume + 1
        BY <1>1, <2>1, <2>4
      <3>3. volume \in 1..MaxLevel
        BY <1>1, <2>4 DEF MaxLevel
      <3> QED  BY <2>2, <2>5, <3>1, <3>2, <3>3, VolumeSentIsCounted
    <2> QED  BY <2>3, <2>4
  <1>3. CASE VolumeDown
    <2>1. /\ VolumePress /\ volume > 0 /\ volume <= 10
          /\ due' = IF due <= 1 THEN due ELSE due - 1
      BY <1>1, <1>3 DEF VolumeDown, Unknown
    <2>2. /\ Press /\ upset' \in BOOLEAN
          /\ upset \/ (\E r \in replies : r.kind = "volume") => upset'
      BY <1>1, <2>1 DEF VolumePress
    <2>5. upset' = (upset \/ \E r \in replies : r.kind = "volume")
      BY <2>1 DEF VolumePress
    <2>3. CASE volume = 1
      <3>1. SendNothing
        BY <1>3, <2>3 DEF VolumeDown
      <3>2. ~upset' => due' = due
        <4>1. ASSUME ~upset' PROVE due = 1
          BY <2>2, <2>3, <4>1 DEF Counted, OneAtATime, Unknown
        <4> QED  BY <2>1, <4>1
      <3>3. UNCHANGED <<replies, volume, speaker>>
        BY <2>2, <3>1 DEF SendNothing, Press
      <3> QED
        BY <1>1, <2>2, <2>3, <3>2, <3>3 DEF Counted, FirstTheLevel, OneAtATime, Unknown
    <2>4. CASE volume # 1
      <3>1. Send("volume", volume - 1) /\ volume - 1 \in 1..MaxLevel
        BY <1>1, <1>3, <2>1, <2>4 DEF VolumeDown, SetVolume, Allowed, MaxLevel
      <3>2. volume = due => due' = volume - 1
        BY <1>1, <2>1, <2>4
      <3>3. volume \in 1..MaxLevel
        BY <1>1, <2>1 DEF MaxLevel
      <3> QED  BY <2>2, <2>5, <3>1, <3>2, <3>3, VolumeSentIsCounted
    <2> QED  BY <2>3, <2>4
  <1>4. CASE ToggleSpeaker
    BY <1>1, <1>4, OtherPressIsCounted DEF ToggleSpeaker
  <1> QED  BY <1>2, <1>3, <1>4

LEMMA ServeIsCounted ==
    ASSUME IInv, Counted, Serve
    PROVE  Counted'
  <1>1. PICK r \in replies :
           /\ ~r.served
           /\ speaker' = CASE r.kind = "volume" -> [speaker EXCEPT !.level = r.level]
                           [] r.kind = "mute"   -> [speaker EXCEPT !.on = FALSE]
                           [] r.kind = "unmute" -> [speaker EXCEPT !.on = TRUE]
                           [] r.kind = "status" -> speaker
           /\ replies' = (replies \ {r})
                            \cup {[r EXCEPT !.served = TRUE, !.found = speaker]}
    BY DEF Serve
  <1> DEFINE new == [r EXCEPT !.served = TRUE, !.found = speaker]
  <1>2. UNCHANGED <<speakerOn, volume, presses, doubt, upset, due>>
    BY DEF Serve
  <1>3. /\ new.kind = r.kind /\ new.number = r.number /\ new.level = r.level
        /\ new.found = speaker
        /\ r.kind \in {"status", "volume", "mute", "unmute"}
    BY DEF IInv, TypeOK, Replies
  <1>4. speaker'.level = IF r.kind = "volume" THEN r.level ELSE speaker.level
    BY <1>1, <1>3 DEF IInv, TypeOK, Speakers
  <1> HIDE DEF new
  <1>5. \A t \in replies' : t = new \/ (t \in replies /\ t # r)
    BY <1>1 DEF new
  <1>6. new \in replies' /\ \A t \in replies : t # r => t \in replies'
    BY <1>1 DEF new
  <1>7. r.kind = "volume" => volume # Unknown /\ \A t \in replies : t.kind # "status"
    BY DEF Counted, FirstTheLevel
  <1>8. \A t \in replies : t.kind = "status" /\ r.kind = "status" => t = r
    BY DEF IInv, TypeOK, Counted, FirstTheLevel
  <1>9. FirstTheLevel'
    BY <1>2, <1>3, <1>4, <1>5, <1>6, <1>7, <1>8 DEF Counted, FirstTheLevel
  <1>10. ASSUME ~upset PROVE OneAtATime'
    BY <1>2, <1>3, <1>4, <1>5, <1>6, <1>10 DEF Counted, OneAtATime
  <1> QED  BY <1>2, <1>9, <1>10 DEF Counted

LEMMA AnswerIsCounted ==
    ASSUME IInv, Counted, Succeeds \/ Fails
    PROVE  Counted'
  <1>1. PICK r \in replies :
           /\ replies' = replies \ {r}
           /\ UNCHANGED <<speaker, due>>
           /\ \/ /\ r.served
                 /\ volume' = VolumeAfter(r, TRUE)
                 /\ upset' = upset
              \/ /\ volume' = VolumeAfter(r, FALSE)
                 /\ upset' = (upset \/ r.kind = "volume")
    BY DEF Succeeds, Fails, Finish
  <1>2. /\ r.kind \in {"status", "volume", "mute", "unmute"}
        /\ volume \in Int
        /\ r.level \in Nat /\ r.found.level \in Nat
        /\ upset \in BOOLEAN
    BY DEF IInv, TypeOK, Replies, Speakers, Unknown, MaxLevel
  <1>3. \/ r.served /\ r.kind = "volume" /\ volume' = r.level
        \/ r.served /\ r.kind = "status" /\ volume' = r.found.level
        \/ volume' = volume
    BY <1>1, <1>2 DEF VolumeAfter
  <1>4. volume' = volume => (r.kind = "volume" => upset') \/ (r.served /\ volume' = r.level)
    BY <1>1, <1>2 DEF VolumeAfter
  <1>5. r.kind = "volume" => \A t \in replies : t.kind # "status"
    BY DEF Counted, FirstTheLevel, Unknown
  <1>6. r.kind = "status" => \A t \in replies : t.kind = "status" => t = r
    BY DEF IInv, TypeOK, Counted, FirstTheLevel
  <1>7. r.kind = "status" => \A t \in replies : t.kind # "volume"
    BY DEF Counted, FirstTheLevel, Unknown
  <1>8. upset' \in BOOLEAN /\ (upset => upset')
    BY <1>1, <1>2
  <1>9. FirstTheLevel'
    BY <1>1, <1>2, <1>3, <1>5, <1>6, <1>7 DEF Counted, FirstTheLevel, Unknown
  <1>10. ASSUME ~upset' PROVE OneAtATime'
    BY <1>1, <1>2, <1>3, <1>4, <1>5, <1>6, <1>7, <1>8, <1>10
       DEF Counted, FirstTheLevel, OneAtATime, Unknown
  <1> QED  BY <1>9, <1>10 DEF Counted

LEMMA StepIsCounted == IInv /\ Counted /\ [Next]_vars => Counted'
  <1> SUFFICES ASSUME IInv, Counted, [Next]_vars PROVE Counted'
    OBVIOUS
  <1>1. CASE UNCHANGED vars
    BY <1>1 DEF vars, Counted, FirstTheLevel, OneAtATime
  <1> QED  BY <1>1, PressIsCounted, ServeIsCounted, AnswerIsCounted DEF Next

(* On a network that fails no request, and with one request at a time, every  *)
(* press of the volume buttons has moved the speaker by one level once its    *)
(* request is answered: volumeUp and volumeDown count from the level shown.   *)
THEOREM PressesAlwaysCount == Spec => []PressesCount
  <1>1. Counted => PressesCount
    BY DEF Counted, FirstTheLevel, OneAtATime, PressesCount
  <1> QED  BY <1>1, AlwaysGood, InitIsCounted, StepIsCounted, PTL DEF Spec

===============================================================================
