-------------------------- MODULE MavCommands_proofs --------------------------
(* Proofs about MavCommands for every set of calls, limit and timeout.  What  *)
(* changes the tracking variables are functions of their record s: the lemmas *)
(* say what each makes of s, and which facts about s it keeps.                *)
EXTENDS MavCommands, FiniteSetTheorems, SequenceTheorems, WellFoundedInduction, TLAPS

-----------------------------------------------------------------------------
(* A set of natural numbers has a least one, and induction up to a limit, for *)
(* sets: the theorems of the library take a predicate as a parameter, which   *)
(* the provers cannot give a value.                                           *)
LEMMA LeastNat ==
    ASSUME NEW T \in SUBSET Nat, NEW m \in T
    PROVE  \E n \in T : \A k \in T : n <= k
  <1>1. PICK n \in T : \A k \in T : <<k, n>> \notin OpToRel(<, Nat)
    BY WFMin, NatLessThanWellFounded
  <1>2. \A k \in T : k < n => <<k, n>> \in OpToRel(<, Nat)
    BY SMT DEF OpToRel
  <1>3. \A k \in T : ~(k < n)
    BY <1>1, <1>2, Zenon
  <1> QED
    BY <1>3, SMT

LEMMA UpToInduction ==
    ASSUME NEW limit \in Nat, NEW T, 0 \in T,
           \A n \in 0 .. (limit - 1) : n \in T => n + 1 \in T
    PROVE  \A n \in 0 .. limit : n \in T
  <1> DEFINE others == {n \in Nat : n <= limit /\ n \notin T}
  <1> SUFFICES ASSUME NEW m \in others PROVE FALSE
    OBVIOUS
  <1>1. PICK n \in others : \A k \in others : n <= k
    BY LeastNat
  <1>2. n - 1 \in 0 .. (limit - 1) /\ n - 1 \notin others
    BY <1>1
  <1> QED
    BY <1>2

-----------------------------------------------------------------------------
(* The types of the tracking variables, as a record of them.                  *)
EntryType == [call : Calls, tryCount : Nat \ {0}, elapsed : 0 .. (AckTimeout + 1)]
WaitTimerType == [active : BOOLEAN, elapsed : 0 .. (WaitTimeout + 1)]
ReplyType == HandedOver \cup {NoReply}
RequestType == [acked : BOOLEAN, message : ReplyType]

TrackType ==
    [commands : Seq(EntryType), waitFor : Calls \cup {NoCall}, waitTimer : WaitTimerType,
     requests : [Calls -> RequestType], results : [Calls -> Seq(Outcome)], sent : Seq(Calls)]

Out(failure, result, message, answers) ==
    [failure |-> failure, result |-> result, message |-> message, answers |-> answers]

(* A list without its i-th member.                                            *)
LEMMA RemoveAtFacts ==
    ASSUME NEW S, NEW q \in Seq(S), NEW i \in 1 .. Len(q)
    PROVE  /\ RemoveAt(q, i) \in Seq(S)
           /\ Len(RemoveAt(q, i)) = Len(q) - 1
           /\ \A j \in 1 .. (Len(q) - 1) :
                 RemoveAt(q, i)[j] = IF j < i THEN q[j] ELSE q[j + 1]
  <1> DEFINE a == SubSeq(q, 1, i - 1)
             b == SubSeq(q, i + 1, Len(q))
  <1>1. Len(q) \in Nat
    OBVIOUS
  <1>2. a \in Seq(S) /\ Len(a) = i - 1 /\ \A j \in 1 .. (i - 1) : a[j] = q[j]
    OBVIOUS
  <1>3. b \in Seq(S) /\ Len(b) = Len(q) - i /\ \A j \in 1 .. (Len(q) - i) : b[j] = q[i + j]
    OBVIOUS
  <1> HIDE DEF a, b
  <1>4. /\ a \o b \in Seq(S) /\ Len(a \o b) = Len(a) + Len(b)
        /\ \A j \in 1 .. (Len(a) + Len(b)) :
              (a \o b)[j] = IF j <= Len(a) THEN a[j] ELSE b[j - Len(a)]
    BY <1>2, <1>3, ConcatProperties
  <1>5. Len(a \o b) = Len(q) - 1
    BY <1>1, <1>2, <1>3, <1>4
  <1>6. ASSUME NEW j \in 1 .. (Len(q) - 1)
        PROVE  (a \o b)[j] = IF j < i THEN q[j] ELSE q[j + 1]
    <2>1. CASE j < i
      BY <1>1, <1>2, <1>3, <1>4, <2>1
    <2>2. CASE j >= i
      <3>1. (a \o b)[j] = b[j - (i - 1)] /\ j - (i - 1) \in 1 .. (Len(q) - i)
        BY <1>1, <1>2, <1>3, <1>4, <2>2
      <3>2. b[j - (i - 1)] = q[i + (j - (i - 1))]
        BY <1>3, <3>1
      <3>3. i + (j - (i - 1)) = j + 1
        BY <1>1
      <3> QED  BY <1>1, <2>2, <3>1, <3>2, <3>3
    <2>3. j < i \/ j >= i
      BY <1>1
    <2> QED  BY <2>1, <2>2, <2>3
  <1> QED  BY <1>4, <1>5, <1>6 DEF RemoveAt, a, b

LEMMA OutType ==
    ASSUME NEW failure \in Failure, NEW result \in Result,
           NEW message \in ReplyType, NEW answers \in Calls
    PROVE  Out(failure, result, message, answers) \in Outcome
  BY DEF Out, Outcome, ReplyType

(* Reporting a call appends to its results and changes nothing else.          *)
LEMMA ReportedShape ==
    ASSUME NEW s \in TrackType, NEW c \in Calls, NEW failure \in Failure, NEW result \in Result,
           NEW message \in ReplyType, NEW answers \in Calls,
           NEW t, t = Reported(s, c, failure, result, message, answers)
    PROVE  /\ t \in TrackType
           /\ t.commands = s.commands /\ t.sent = s.sent
           /\ t.waitFor = s.waitFor /\ t.waitTimer = s.waitTimer
           /\ t.requests = s.requests
           /\ t.results[c] = Append(s.results[c], Out(failure, result, message, answers))
           /\ \A d \in Calls : d # c => t.results[d] = s.results[d]
  <1> DEFINE o == Out(failure, result, message, answers)
  <1>1. o \in Outcome
    BY OutType
  <1>2. t = [s EXCEPT !.results[c] = Append(@, o)]
    BY DEF Reported, Out
  <1> HIDE DEF o
  <1>3. s.results \in [Calls -> Seq(Outcome)]
    BY DEF TrackType
  <1>4. Append(s.results[c], o) \in Seq(Outcome)
    BY <1>1, <1>3
  <1>5. /\ t \in TrackType
        /\ t.commands = s.commands /\ t.sent = s.sent
        /\ t.waitFor = s.waitFor /\ t.waitTimer = s.waitTimer
        /\ t.requests = s.requests
        /\ t.results[c] = Append(s.results[c], o)
        /\ \A d \in Calls : d # c => t.results[d] = s.results[d]
    BY ZenonT(60), <1>2, <1>3, <1>4 DEF TrackType
  <1> QED  BY <1>5 DEF o

LEMMA WaitClearedShape ==
    ASSUME NEW s \in TrackType,
           NEW t, t = WaitCleared(s)
    PROVE  /\ t \in TrackType
           /\ t.commands = s.commands /\ t.sent = s.sent
           /\ t.waitFor = NoCall /\ ~t.waitTimer.active
           /\ t.requests = s.requests /\ t.results = s.results
  <1>1. s.waitTimer \in WaitTimerType
    BY DEF TrackType
  <1> QED  BY <1>1 DEF TrackType, WaitTimerType, WaitCleared

LEMMA WaitTimerStartedShape ==
    ASSUME NEW s \in TrackType,
           NEW t, t = WaitTimerStarted(s)
    PROVE  /\ t \in TrackType
           /\ t.commands = s.commands /\ t.sent = s.sent
           /\ t.waitFor = s.waitFor /\ t.waitTimer.active
           /\ t.requests = s.requests /\ t.results = s.results
  <1>1. [active |-> TRUE, elapsed |-> 0] \in WaitTimerType
    BY CommandsAssumption DEF WaitTimerType
  <1> QED  BY <1>1 DEF TrackType, WaitTimerStarted

(* The first result of a call is its only one.                                *)
LEMMA FirstResult ==
    ASSUME NEW o
    PROVE  /\ Append(<<>>, o) = <<o>> /\ Len(Append(<<>>, o)) = 1 /\ Append(<<>>, o) # <<>>
           /\ DOMAIN Append(<<>>, o) = {1} /\ Append(<<>>, o)[1] = o
  <1>1. <<>> \in Seq({o})
    OBVIOUS
  <1>2. Append(<<>>, o) = <<o>>
    BY <1>1
  <1> QED  BY <1>2

MessageKept(s, c, message) == [s EXCEPT !.requests[c].message = message]

LEMMA MessageKeptShape ==
    ASSUME NEW s \in TrackType, NEW c \in Calls, NEW message \in ReplyType,
           NEW t, t = MessageKept(s, c, message)
    PROVE  /\ t \in TrackType
           /\ t.commands = s.commands /\ t.sent = s.sent
           /\ t.waitFor = s.waitFor /\ t.waitTimer = s.waitTimer
           /\ t.results = s.results
           /\ t.requests[c].message = message /\ t.requests[c].acked = s.requests[c].acked
           /\ \A d \in Calls : d # c => t.requests[d] = s.requests[d]
  <1>1. s.requests \in [Calls -> RequestType] /\ s.requests[c] \in RequestType
    BY DEF TrackType
  <1>2. [s.requests[c] EXCEPT !.message = message] \in RequestType
    BY <1>1 DEF RequestType
  <1> QED  BY <1>1, <1>2 DEF TrackType, RequestType, MessageKept

Acked(s, c) == [s EXCEPT !.requests[c].acked = TRUE]

LEMMA AckedShape ==
    ASSUME NEW s \in TrackType, NEW c \in Calls,
           NEW t, t = Acked(s, c)
    PROVE  /\ t \in TrackType
           /\ t.commands = s.commands /\ t.sent = s.sent
           /\ t.waitFor = s.waitFor /\ t.waitTimer = s.waitTimer
           /\ t.results = s.results
           /\ t.requests[c].acked /\ t.requests[c].message = s.requests[c].message
           /\ \A d \in Calls : d # c => t.requests[d] = s.requests[d]
  <1>1. s.requests \in [Calls -> RequestType] /\ s.requests[c] \in RequestType
    BY DEF TrackType
  <1>2. [s.requests[c] EXCEPT !.acked = TRUE] \in RequestType
    BY <1>1 DEF RequestType
  <1> QED  BY <1>1, <1>2 DEF TrackType, RequestType, Acked


(* What a result handler makes of s: the call is reported, or, for a request  *)
(* acked before its message has come, the wait for the message is timed.      *)
Handled(s, t, c, result, failure, answers) ==
    /\ \A d \in Calls : d # c =>
          t.results[d] = s.results[d] /\ t.requests[d] = s.requests[d]
    /\ t.requests[c].message = s.requests[c].message
    /\ IsRequest(c) => t.requests[c].acked
    /\ \/ /\ ~IsRequest(c)
          /\ t.waitFor = s.waitFor /\ t.waitTimer = s.waitTimer
          /\ t.requests = s.requests
          /\ t.results[c] = Append(s.results[c], Out(failure, result, NoReply, answers))
       \/ /\ IsRequest(c) /\ result # "ACCEPTED"
          /\ t.waitFor = NoCall /\ ~t.waitTimer.active
          /\ t.results[c] = Append(s.results[c], Out(failure, result, NoReply, answers))
       \/ /\ IsRequest(c) /\ result = "ACCEPTED" /\ s.requests[c].message # NoReply
          /\ t.waitFor = s.waitFor /\ t.waitTimer = s.waitTimer
          /\ t.results[c] = Append(s.results[c],
                 Out("NoFailure", result, s.requests[c].message, answers))
       \/ /\ IsRequest(c) /\ result = "ACCEPTED" /\ s.requests[c].message = NoReply
          /\ t.waitFor = s.waitFor /\ t.waitTimer.active
          /\ t.results[c] = s.results[c]

LEMMA CmdResultShape ==
    ASSUME NEW s \in TrackType, NEW c \in Calls, NEW result \in Result, NEW failure \in Failure,
           NEW answers \in Calls,
           NEW t, t = CmdResult(s, c, result, failure, answers)
    PROVE  /\ t \in TrackType
           /\ t.commands = s.commands /\ t.sent = s.sent
           /\ Handled(s, t, c, result, failure, answers)
  <1>0. NoReply \in ReplyType
    BY DEF ReplyType
  <1> DEFINE acked == Acked(s, c)
  <1>1. CASE ~IsRequest(c)
    <2>1. t = Reported(s, c, failure, result, NoReply, answers)
      BY <1>1 DEF CmdResult
    <2>2. /\ t \in TrackType
          /\ t.commands = s.commands /\ t.sent = s.sent
          /\ t.waitFor = s.waitFor /\ t.waitTimer = s.waitTimer
          /\ t.requests = s.requests
          /\ t.results[c] = Append(s.results[c], Out(failure, result, NoReply, answers))
          /\ \A d \in Calls : d # c => t.results[d] = s.results[d]
      BY <1>0, <2>1, ReportedShape
    <2> QED  BY <1>1, <2>2 DEF Handled
  <1>2. CASE IsRequest(c)
    <2>0. acked = Acked(s, c)
      OBVIOUS
    <2> HIDE DEF acked
    <2>1. /\ acked \in TrackType
          /\ acked.commands = s.commands /\ acked.sent = s.sent
          /\ acked.waitFor = s.waitFor /\ acked.waitTimer = s.waitTimer
          /\ acked.results = s.results
          /\ acked.requests[c].acked /\ acked.requests[c].message = s.requests[c].message
          /\ \A d \in Calls : d # c => acked.requests[d] = s.requests[d]
      BY SMTT(30), <2>0, AckedShape
    <2>2. t = IF result # "ACCEPTED"
              THEN Reported(WaitCleared(acked), c, failure, result, NoReply, answers)
              ELSE IF s.requests[c].message # NoReply
              THEN Reported(acked, c, "NoFailure", result, s.requests[c].message, answers)
              ELSE WaitTimerStarted(acked)
      BY <1>2 DEF CmdResult, RequestCmdResult, acked, Acked
    <2>6. acked \in TrackType
      BY <2>1
    <2>3. CASE result # "ACCEPTED"
      <3> DEFINE u == WaitCleared(acked)
      <3>1. /\ u \in TrackType
            /\ u.commands = acked.commands /\ u.sent = acked.sent
            /\ u.waitFor = NoCall /\ ~u.waitTimer.active
            /\ u.requests = acked.requests /\ u.results = acked.results
        BY <2>1, WaitClearedShape
      <3>2. t = Reported(u, c, failure, result, NoReply, answers)
        BY <2>2, <2>3
      <3> HIDE DEF u
      <3>4. u \in TrackType
        BY <3>1
      <3>3. /\ t \in TrackType
            /\ t.commands = u.commands /\ t.sent = u.sent
            /\ t.waitFor = u.waitFor /\ t.waitTimer = u.waitTimer
            /\ t.requests = u.requests
            /\ t.results[c] = Append(u.results[c], Out(failure, result, NoReply, answers))
            /\ \A d \in Calls : d # c => t.results[d] = u.results[d]
        BY <1>0, <3>2, <3>4, ReportedShape
      <3> QED  BY <1>2, <2>1, <2>3, <3>1, <3>3 DEF Handled
    <2>4. CASE result = "ACCEPTED" /\ s.requests[c].message # NoReply
      <3> DEFINE message == s.requests[c].message
                 none == "NoFailure"
      <3>1. message \in ReplyType /\ none \in Failure
        BY DEF TrackType, RequestType, Failure
      <3>2. t = Reported(acked, c, none, result, message, answers)
        BY <2>2, <2>4
      <3> HIDE DEF message, none
      <3>3. /\ t \in TrackType
            /\ t.commands = acked.commands /\ t.sent = acked.sent
            /\ t.waitFor = acked.waitFor /\ t.waitTimer = acked.waitTimer
            /\ t.requests = acked.requests
            /\ t.results[c] = Append(acked.results[c],
                                  Out(none, result, message, answers))
            /\ \A d \in Calls : d # c => t.results[d] = acked.results[d]
        BY <2>6, <3>1, <3>2, ReportedShape
      <3> QED  BY <1>2, <2>1, <2>4, <3>3 DEF message, none, Handled
    <2>5. CASE result = "ACCEPTED" /\ s.requests[c].message = NoReply
      <3>1. t = WaitTimerStarted(acked)
        BY <2>2, <2>5
      <3>2. /\ t \in TrackType
            /\ t.commands = acked.commands /\ t.sent = acked.sent
            /\ t.waitFor = acked.waitFor /\ t.waitTimer.active
            /\ t.requests = acked.requests /\ t.results = acked.results
        BY <2>1, <3>1, WaitTimerStartedShape
      <3> QED  BY <1>2, <2>1, <2>5, <3>2 DEF Handled
    <2> QED  BY <2>3, <2>4, <2>5
  <1> QED  BY <1>1, <1>2

(* What the wait slot makes of s when a message comes.                        *)
WaitHandled(s, t, m) ==
    \/ t = s
    \/ LET c == s.waitFor
           message == <<m.component, m.message>>
       IN  /\ c \in Calls /\ t.waitFor = NoCall /\ ~t.waitTimer.active
           /\ m.message = Target[c].message \/ s.waitTimer.active
           /\ \A d \in Calls : d # c =>
                 t.results[d] = s.results[d] /\ t.requests[d] = s.requests[d]
           /\ \/ /\ s.requests[c].acked /\ t.requests[c] = s.requests[c]
                 /\ \/ /\ m.message = Target[c].message
                       /\ t.results[c] = Append(s.results[c],
                              Out("NoFailure", "ACCEPTED", message, c))
                    \/ t.results[c] = Append(s.results[c],
                           Out("MessageNotReceived", "FAILED", message, c))
              \/ /\ ~s.requests[c].acked
                 /\ t.results[c] = s.results[c]
                 /\ ~t.requests[c].acked /\ t.requests[c].message = message

LEMMA WaitCheckedShape ==
    ASSUME NEW s \in TrackType, NEW m, <<m.component, m.message>> \in HandedOver,
           NEW t, t = WaitChecked(s, m)
    PROVE  /\ t \in TrackType
           /\ t.commands = s.commands /\ t.sent = s.sent
           /\ WaitHandled(s, t, m)
  <1> DEFINE c == s.waitFor
             message == <<m.component, m.message>>
             u == WaitCleared(s)
  <1>1. CASE t = s
    BY <1>1 DEF WaitHandled
  <1>2. ASSUME NEW late \in BOOLEAN, t = RequestWaitResult(u, c, late, m), c \in Calls,
               IF late THEN s.waitTimer.active ELSE m.message = Target[c].message
        PROVE  /\ t \in TrackType
               /\ t.commands = s.commands /\ t.sent = s.sent
               /\ t.waitFor = NoCall /\ ~t.waitTimer.active
               /\ m.message = Target[c].message \/ s.waitTimer.active
               /\ \A d \in Calls : d # c =>
                     t.results[d] = s.results[d] /\ t.requests[d] = s.requests[d]
               /\ \/ /\ s.requests[c].acked /\ t.requests[c] = s.requests[c]
                     /\ \/ /\ m.message = Target[c].message
                           /\ t.results[c] = Append(s.results[c],
                                  Out("NoFailure", "ACCEPTED", message, c))
                        \/ t.results[c] = Append(s.results[c],
                               Out("MessageNotReceived", "FAILED", message, c))
                  \/ /\ ~s.requests[c].acked
                     /\ t.results[c] = s.results[c]
                     /\ ~t.requests[c].acked /\ t.requests[c].message = message
    <2>1. /\ u \in TrackType
          /\ u.commands = s.commands /\ u.sent = s.sent
          /\ u.waitFor = NoCall /\ ~u.waitTimer.active
          /\ u.requests = s.requests /\ u.results = s.results
      BY WaitClearedShape
    <2>2. message \in ReplyType
      BY DEF ReplyType
    <2>3. /\ {"NoFailure", "MessageNotReceived"} \subseteq Failure
          /\ {"ACCEPTED", "FAILED"} \subseteq Result
      BY DEF Failure, Result
    <2>4. t = IF u.requests[c].acked
              THEN IF late
                   THEN Reported(u, c, "MessageNotReceived", "FAILED", message, c)
                   ELSE Reported(u, c, "NoFailure", "ACCEPTED", message, c)
              ELSE [u EXCEPT !.requests[c].message = message]
      BY <1>2 DEF RequestWaitResult
    <2> HIDE DEF u, message
    <2>8. u \in TrackType
      BY <2>1
    <2>9. c \in Calls
      BY <1>2
    <2>5. CASE u.requests[c].acked /\ late
      <3> DEFINE failure == "MessageNotReceived"
                 result == "FAILED"
      <3>0. failure \in Failure /\ result \in Result
        BY <2>3
      <3>1. t = Reported(u, c, failure, result, message, c)
        BY <2>4, <2>5
      <3> HIDE DEF failure, result
      <3>2. /\ t \in TrackType
            /\ t.commands = u.commands /\ t.sent = u.sent
            /\ t.waitFor = u.waitFor /\ t.waitTimer = u.waitTimer
            /\ t.requests = u.requests
            /\ t.results[c] = Append(u.results[c], Out(failure, result, message, c))
            /\ \A d \in Calls : d # c => t.results[d] = u.results[d]
        BY SMTT(30), <2>2, <2>8, <2>9, <3>0, <3>1, ReportedShape
      <3> QED  BY <1>2, <2>1, <2>5, <3>2 DEF failure, result
    <2>6. CASE u.requests[c].acked /\ ~late
      <3> DEFINE failure == "NoFailure"
                 result == "ACCEPTED"
      <3>0. failure \in Failure /\ result \in Result
        BY <2>3
      <3>1. t = Reported(u, c, failure, result, message, c)
        BY <2>4, <2>6
      <3> HIDE DEF failure, result
      <3>2. /\ t \in TrackType
            /\ t.commands = u.commands /\ t.sent = u.sent
            /\ t.waitFor = u.waitFor /\ t.waitTimer = u.waitTimer
            /\ t.requests = u.requests
            /\ t.results[c] = Append(u.results[c], Out(failure, result, message, c))
            /\ \A d \in Calls : d # c => t.results[d] = u.results[d]
        BY SMTT(30), <2>2, <2>8, <2>9, <3>0, <3>1, ReportedShape
      <3> QED  BY <1>2, <2>1, <2>6, <3>2 DEF failure, result
    <2>7. CASE ~u.requests[c].acked
      <3>1. t = MessageKept(u, c, message)
        BY <2>4, <2>7 DEF MessageKept
      <3>4. /\ t \in TrackType
            /\ t.commands = u.commands /\ t.sent = u.sent
            /\ t.waitFor = u.waitFor /\ t.waitTimer = u.waitTimer
            /\ t.results = u.results
            /\ t.requests[c].message = message /\ t.requests[c].acked = u.requests[c].acked
            /\ \A d \in Calls : d # c => t.requests[d] = u.requests[d]
        BY <2>2, <2>8, <2>9, <3>1, MessageKeptShape
      <3> QED  BY <1>2, <2>1, <2>7, <3>4
    <2> QED  BY <2>5, <2>6, <2>7
  <1>3. \/ t = s
        \/ /\ c \in Calls
           /\ \E late \in BOOLEAN :
                 /\ t = RequestWaitResult(u, c, late, m)
                 /\ IF late THEN s.waitTimer.active ELSE m.message = Target[c].message
    <2>1. s.waitFor \in Calls \cup {NoCall}
      BY DEF TrackType
    <2> QED  BY <2>1 DEF WaitChecked, WaitedFor
  <1> HIDE DEF u
  <1> QED  BY <1>1, <1>2, <1>3 DEF WaitHandled

-----------------------------------------------------------------------------
(* The list of commands.                                                     *)

Listed(s, c) == \E i \in 1 .. Len(s.commands) : s.commands[i].call = c

(* The entry found for a call has its component and command; there is none    *)
(* only if no entry has.                                                      *)
LEMMA EntryIndexFacts ==
    ASSUME NEW s \in TrackType, NEW c \in Calls
    PROVE  /\ EntryIndex(s, c) \in 0 .. Len(s.commands)
           /\ EntryIndex(s, c) # 0 => SameCommand(s.commands[EntryIndex(s, c)].call, c)
           /\ EntryIndex(s, c) = 0 =>
                 \A i \in 1 .. Len(s.commands) : ~SameCommand(s.commands[i].call, c)
  <1> DEFINE I == {i \in 1 .. Len(s.commands) : SameCommand(s.commands[i].call, c)}
  <1>1. Len(s.commands) \in Nat
    BY DEF TrackType
  <1>2. EntryIndex(s, c) = IF I # {} THEN Min(I) ELSE 0
    BY DEF EntryIndex, SelectInSeq
  <1>3. I \in SUBSET Nat /\ \A i \in I : i \in 1 .. Len(s.commands)
    BY <1>1
  <1>4. CASE I = {}
    BY <1>1, <1>2, <1>4
  <1>5. CASE I # {}
    <2> HIDE DEF I
    <2>1. PICK m \in I : \A k \in I : m <= k
      BY <1>3, <1>5, LeastNat
    <2>2. Min(I) \in I
      BY <2>1 DEF Min
    <2>3. EntryIndex(s, c) \in I
      BY <1>2, <1>5, <2>2
    <2> QED  BY <1>1, <1>3, <2>3 DEF I
  <1> QED  BY <1>4, <1>5

(* An entry leaves the list and its call's handler is called.                 *)
Ended(s, i, result, failure, answers) ==
    CmdResult(TakenFromList(s, i), s.commands[i].call, result, failure, answers)

EntryGone(s, t, i) ==
    /\ Len(t.commands) = Len(s.commands) - 1
    /\ \A j \in 1 .. (Len(s.commands) - 1) :
          t.commands[j] = IF j < i THEN s.commands[j] ELSE s.commands[j + 1]

CallsDiffer(s) ==
    \A i, j \in 1 .. Len(s.commands) : s.commands[i].call = s.commands[j].call => i = j

LEMMA EndedShape ==
    ASSUME NEW s \in TrackType, NEW i \in 1 .. Len(s.commands),
           NEW result \in Result, NEW failure \in Failure, NEW answers \in Calls,
           NEW t, t = Ended(s, i, result, failure, answers),
           NEW c, c = s.commands[i].call
    PROVE  /\ c \in Calls
           /\ t \in TrackType
           /\ t.sent = s.sent
           /\ EntryGone(s, t, i)
           /\ Handled(s, t, c, result, failure, answers)
  <1> DEFINE u == TakenFromList(s, i)
  <1>1. s.commands \in Seq(EntryType) /\ s.commands[i] \in EntryType
    BY DEF TrackType
  <1>2. c \in Calls
    BY <1>1 DEF EntryType
  <1>3. /\ RemoveAt(s.commands, i) \in Seq(EntryType)
        /\ Len(RemoveAt(s.commands, i)) = Len(s.commands) - 1
        /\ \A j \in 1 .. (Len(s.commands) - 1) :
              RemoveAt(s.commands, i)[j] = IF j < i THEN s.commands[j] ELSE s.commands[j + 1]
    BY <1>1, RemoveAtFacts
  <1>4. /\ u \in TrackType
        /\ u.commands = RemoveAt(s.commands, i)
        /\ u.waitFor = s.waitFor /\ u.waitTimer = s.waitTimer /\ u.sent = s.sent
        /\ u.requests = s.requests /\ u.results = s.results
    BY <1>3 DEF TakenFromList, TrackType
  <1>5. t = CmdResult(u, c, result, failure, answers)
    BY DEF Ended
  <1>6. u \in TrackType
    BY <1>4
  <1> HIDE DEF u
  <1>7. /\ t \in TrackType
        /\ t.commands = u.commands /\ t.sent = u.sent
        /\ Handled(u, t, c, result, failure, answers)
    BY <1>2, <1>5, <1>6, CmdResultShape
  <1>8. Handled(s, t, c, result, failure, answers)
    BY ZenonT(60), <1>4, <1>7 DEF Handled
  <1> QED  BY <1>2, <1>3, <1>4, <1>7, <1>8 DEF EntryGone

(* The walk over the list goes through all positions from the last.           *)
LEMMA WalkedFacts ==
    ASSUME NEW s \in TrackType, NEW G, s \in G[0],
           \A n \in 0 .. (Len(s.commands) - 1) : \A t \in G[n] :
               SendFromList(t, Len(s.commands) - n) \in G[n + 1]
    PROVE  Walked(s) \in G[Len(s.commands)]
  <1> DEFINE count == Len(s.commands)
             Step(f, n) == IF n = 0 THEN s ELSE SendFromList(f[n - 1], count - n + 1)
             Walks(f, m) == f = [n \in 0 .. m |-> Step(f, n)]
             T == {m \in 0 .. count : \E f : Walks(f, m)}
             walk == CHOOSE f : Walks(f, count)
  <1>1. count \in Nat
    BY DEF TrackType
  <1> HIDE DEF count
  <1>2. 0 \in T
    <2> DEFINE f == [n \in 0 .. 0 |-> s]
    <2>1. \A n \in 0 .. 0 : f[n] = s /\ Step(f, n) = s
      OBVIOUS
    <2> HIDE DEF Step
    <2>2. f = [n \in 0 .. 0 |-> Step(f, n)]
      BY <2>1
    <2>3. 0 \in 0 .. count
      BY <1>1
    <2> HIDE DEF f
    <2> QED  BY <2>2, <2>3
  <1>3. ASSUME NEW m \in 0 .. (count - 1), m \in T PROVE m + 1 \in T
    <2>1. PICK f : Walks(f, m)
      BY <1>3
    <2> DEFINE g == [n \in 0 .. (m + 1) |-> IF n = m + 1 THEN SendFromList(f[m], count - m)
                                            ELSE f[n]]
    <2>2. \A n \in 0 .. m : f[n] = Step(f, n)
      BY <2>1
    <2>3. m \in Nat /\ m < count
      BY <1>1
    <2>4. ASSUME NEW n \in 0 .. (m + 1) PROVE g[n] = Step(g, n)
      <3>1. CASE n = m + 1
        <4>1. g[n] = SendFromList(f[m], count - m) /\ g[m] = f[m]
          BY <2>3, <3>1
        <4>2. n # 0 /\ n - 1 = m /\ count - n + 1 = count - m
          BY <1>1, <2>3, <3>1
        <4> QED  BY <4>1, <4>2
      <3>2. CASE n \in 0 .. m
        <4>1. g[n] = f[n] /\ (n # 0 => g[n - 1] = f[n - 1])
          BY <2>3, <3>2
        <4> QED  BY <2>2, <3>2, <4>1
      <3> QED  BY <2>3, <3>1, <3>2
    <2>5. g = [n \in 0 .. (m + 1) |-> Step(g, n)]
      BY <2>4
    <2>6. m + 1 \in 0 .. count
      BY <1>1, <2>3
    <2> HIDE DEF g, Step
    <2> QED  BY <2>5, <2>6
  <1>4. count \in T
    <2> HIDE DEF T
    <2>1. \A n \in 0 .. count : n \in T
      BY <1>1, <1>2, <1>3, UpToInduction
    <2> QED  BY <1>1, <2>1
  <1>5. Walks(walk, count)
    <2> HIDE DEF Step
    <2> QED  BY <1>4
  <1>6. Walked(s) = walk[count]
    BY DEF Walked, count
  <1> HIDE DEF walk
  <1>7. walk[0] = s /\ \A n \in 0 .. (count - 1) : walk[n + 1] = SendFromList(walk[n], count - n)
    <2>1. \A n \in 0 .. count : walk[n] = Step(walk, n)
      BY <1>5
    <2>2. walk[0] = s
      BY <1>1, <2>1
    <2>3. ASSUME NEW n \in 0 .. (count - 1)
          PROVE  walk[n + 1] = SendFromList(walk[n], count - n)
      <3>1. n + 1 \in 0 .. count /\ n + 1 # 0 /\ (n + 1) - 1 = n /\ count - (n + 1) + 1 = count - n
        BY <1>1
      <3>2. walk[n + 1] = Step(walk, n + 1)
        BY <2>1, <3>1
      <3> QED  BY <3>1, <3>2
    <2> QED  BY <2>2, <2>3
  <1> DEFINE U == {n \in 0 .. count : walk[n] \in G[n]}
  <1>8. 0 \in U
    BY <1>1, <1>7
  <1>9. ASSUME NEW n \in 0 .. (count - 1), n \in U PROVE n + 1 \in U
    <2>1. walk[n] \in G[n] /\ n + 1 \in 0 .. count
      BY <1>1, <1>9
    <2>2. SendFromList(walk[n], count - n) \in G[n + 1]
      BY <2>1 DEF count
    <2> QED  BY <1>7, <2>1, <2>2
  <1> HIDE DEF U
  <1>10. \A n \in 0 .. count : n \in U
    BY <1>1, <1>8, <1>9, UpToInduction
  <1>11. count \in 0 .. count
    BY <1>1
  <1> QED  BY <1>6, <1>10, <1>11 DEF U, count

-----------------------------------------------------------------------------
(* Calls.                                                                    *)

PreparedFor(s, c) ==
    IF IsRequest(c)
    THEN [s EXCEPT !.waitFor = c, !.waitTimer = [active |-> FALSE, elapsed |-> 0]]
    ELSE s

LEMMA PreparedShape ==
    ASSUME NEW s \in TrackType, NEW c \in Calls,
           NEW t, t = PreparedFor(s, c)
    PROVE  /\ t \in TrackType
           /\ t.commands = s.commands /\ t.sent = s.sent
           /\ t.requests = s.requests /\ t.results = s.results
           /\ IF IsRequest(c) THEN t.waitFor = c /\ ~t.waitTimer.active
              ELSE t.waitFor = s.waitFor /\ t.waitTimer = s.waitTimer
  <1>1. [active |-> FALSE, elapsed |-> 0] \in WaitTimerType
    BY CommandsAssumption DEF WaitTimerType
  <1> QED  BY <1>1 DEF TrackType, PreparedFor

(* The made call's handler is called right away: the call is refused.         *)
RefusedTo(s, t, c, failure) ==
    /\ t.commands = s.commands /\ t.sent = s.sent
    /\ \A d \in Calls : d # c =>
          t.results[d] = s.results[d] /\ t.requests[d] = s.requests[d]
    /\ IF IsRequest(c) THEN t.waitFor = NoCall /\ ~t.waitTimer.active
       ELSE t.waitFor = s.waitFor /\ t.waitTimer = s.waitTimer
    /\ t.requests[c].message = s.requests[c].message
    /\ t.results[c] = Append(s.results[c], Out(failure, "FAILED", NoReply, c))

LEMMA RefusedShape ==
    ASSUME NEW s \in TrackType, NEW c \in Calls,
           NEW failure \in Failure,
           NEW t, t = CmdResult(PreparedFor(s, c), c, "FAILED", failure, c)
    PROVE  t \in TrackType /\ RefusedTo(s, t, c, failure)
  <1> DEFINE u == PreparedFor(s, c)
             result == "FAILED"
  <1>1. result \in Result /\ result # "ACCEPTED"
    BY DEF Result
  <1>2. /\ u \in TrackType
        /\ u.commands = s.commands /\ u.sent = s.sent
        /\ u.requests = s.requests /\ u.results = s.results
        /\ IF IsRequest(c) THEN u.waitFor = c /\ ~u.waitTimer.active
           ELSE u.waitFor = s.waitFor /\ u.waitTimer = s.waitTimer
    BY PreparedShape
  <1>3. t = CmdResult(u, c, result, failure, c)
    OBVIOUS
  <1>4. u \in TrackType
    BY <1>2
  <1> HIDE DEF u, result
  <1>5. /\ t \in TrackType
        /\ t.commands = u.commands /\ t.sent = u.sent
        /\ Handled(u, t, c, result, failure, c)
    BY <1>1, <1>3, <1>4, CmdResultShape
  <1> QED  BY <1>1, <1>2, <1>5 DEF Handled, RefusedTo, result

Added(s, c) == [s EXCEPT !.commands = Append(@, Entry(c))]

AddedTo(s, t, c) ==
    /\ t.waitFor = s.waitFor /\ t.waitTimer = s.waitTimer /\ t.sent = s.sent
    /\ t.requests = s.requests /\ t.results = s.results
    /\ Len(t.commands) = Len(s.commands) + 1
    /\ \A i \in 1 .. Len(s.commands) : t.commands[i] = s.commands[i]
    /\ t.commands[Len(t.commands)] = Entry(c)
    /\ \A d : Listed(t, d) <=> Listed(s, d) \/ d = c

LEMMA AddedShape ==
    ASSUME NEW s \in TrackType, NEW c \in Calls,
           NEW t, t = Added(s, c)
    PROVE  t \in TrackType /\ AddedTo(s, t, c)
  <1>1. Entry(c) \in EntryType
    BY CommandsAssumption DEF Entry, EntryType
  <1> DEFINE e == Entry(c)
  <1>2. e.call = c /\ e \in EntryType
    BY <1>1 DEF Entry
  <1> HIDE DEF e
  <1>3. s.commands \in Seq(EntryType)
    BY DEF TrackType
  <1>4. /\ Append(s.commands, e) \in Seq(EntryType)
        /\ Len(Append(s.commands, e)) = Len(s.commands) + 1
        /\ \A i \in 1 .. Len(s.commands) : Append(s.commands, e)[i] = s.commands[i]
        /\ Append(s.commands, e)[Len(s.commands) + 1] = e
    BY <1>2, <1>3
  <1>5. t = [s EXCEPT !.commands = Append(s.commands, e)]
    BY DEF Added, e
  <1>6. /\ t \in TrackType /\ t.commands = Append(s.commands, e)
        /\ t.waitFor = s.waitFor /\ t.waitTimer = s.waitTimer /\ t.sent = s.sent
        /\ t.requests = s.requests /\ t.results = s.results
    BY <1>4, <1>5 DEF TrackType
  <1>7. Len(s.commands) \in Nat
    BY <1>3
  <1>8. ASSUME NEW d PROVE Listed(t, d) <=> Listed(s, d) \/ d = c
    <2>1. \A i \in 1 .. Len(t.commands) : i \in 1 .. Len(s.commands) \/ i = Len(s.commands) + 1
      BY <1>4, <1>6, <1>7
    <2>2. 1 .. Len(s.commands) \subseteq 1 .. Len(t.commands) /\ Len(s.commands) + 1 \in 1 .. Len(t.commands)
      BY <1>4, <1>6, <1>7
    <2> QED  BY <1>2, <1>4, <1>6, <2>1, <2>2 DEF Listed
  <1> QED  BY <1>4, <1>6, <1>8 DEF AddedTo, e

-----------------------------------------------------------------------------
(* The check timer.                                                          *)

LEMMA AgedEntry ==
    ASSUME NEW e \in EntryType
    PROVE  /\ Aged(e) \in EntryType
           /\ Aged(e).call = e.call /\ Aged(e).tryCount = e.tryCount
  <1>1. Older(e.elapsed, AckTimeout) \in 0 .. (AckTimeout + 1)
    BY CommandsAssumption DEF EntryType, Older
  <1> QED  BY <1>1 DEF EntryType, Aged

LEMMA TriedEntry ==
    ASSUME NEW e \in EntryType,
           NEW again, again = [e EXCEPT !.tryCount = @ + 1]
    PROVE  /\ again \in EntryType
           /\ again.call = e.call /\ again.tryCount = e.tryCount + 1
  <1>1. e.tryCount + 1 \in Nat \ {0}
    BY DEF EntryType
  <1> QED  BY <1>1 DEF EntryType

LEMMA AllAgedShape ==
    ASSUME NEW s \in TrackType, NEW t, t = AllAged(s)
    PROVE  /\ t \in TrackType
           /\ t.waitFor = s.waitFor /\ t.waitTimer.active = s.waitTimer.active /\ t.sent = s.sent
           /\ t.requests = s.requests /\ t.results = s.results
           /\ Len(t.commands) = Len(s.commands)
           /\ \A i \in 1 .. Len(s.commands) :
                 /\ t.commands[i].call = s.commands[i].call
                 /\ t.commands[i].tryCount = s.commands[i].tryCount
           /\ \A d : Listed(t, d) = Listed(s, d)
  <1> DEFINE aged == [i \in DOMAIN s.commands |-> Aged(s.commands[i])]
             timer == [s.waitTimer EXCEPT !.elapsed =
                          IF s.waitTimer.active THEN Older(@, WaitTimeout) ELSE @]
  <1>1. s.commands \in Seq(EntryType) /\ s.waitTimer \in WaitTimerType
    BY DEF TrackType
  <1>2. \A i \in 1 .. Len(s.commands) :
           /\ Aged(s.commands[i]) \in EntryType
           /\ Aged(s.commands[i]).call = s.commands[i].call
           /\ Aged(s.commands[i]).tryCount = s.commands[i].tryCount
    <2>1. ASSUME NEW i \in 1 .. Len(s.commands) PROVE s.commands[i] \in EntryType
      BY <1>1
    <2> QED  BY <2>1, AgedEntry
  <1>3. /\ aged \in Seq(EntryType) /\ Len(aged) = Len(s.commands)
        /\ \A i \in 1 .. Len(s.commands) : aged[i] = Aged(s.commands[i])
    BY <1>1, <1>2
  <1>4. timer \in WaitTimerType /\ timer.active = s.waitTimer.active
    BY <1>1, CommandsAssumption DEF WaitTimerType, Older
  <1>5. t = [s EXCEPT !.commands = aged, !.waitTimer = timer]
    BY <1>1 DEF AllAged, TrackType, WaitTimerType
  <1> HIDE DEF aged, timer
  <1>6. /\ t \in TrackType /\ t.commands = aged /\ t.waitTimer = timer
        /\ t.waitFor = s.waitFor /\ t.sent = s.sent
        /\ t.requests = s.requests /\ t.results = s.results
    BY <1>3, <1>4, <1>5 DEF TrackType
  <1>7. \A i \in 1 .. Len(s.commands) :
                 /\ t.commands[i].call = s.commands[i].call
                 /\ t.commands[i].tryCount = s.commands[i].tryCount
    BY <1>2, <1>3, <1>6
  <1>8. \A d : Listed(t, d) = Listed(s, d)
    BY <1>3, <1>6, <1>7 DEF Listed
  <1> QED  BY <1>3, <1>4, <1>6, <1>7, <1>8

(* An entry's command is sent again.                                          *)
SentAgain(s, t, i) ==
    /\ t.sent = Append(s.sent, s.commands[i].call)
    /\ Len(t.commands) = Len(s.commands)
    /\ \A j \in 1 .. Len(s.commands) : t.commands[j].call = s.commands[j].call
    /\ \A j \in 1 .. Len(s.commands) : j # i => t.commands[j].tryCount = s.commands[j].tryCount
    /\ t.commands[i].tryCount = s.commands[i].tryCount + 1
    /\ t.commands[i].tryCount <= MaxTries(s.commands[i].call)
    /\ t.waitFor = s.waitFor /\ t.waitTimer = s.waitTimer
    /\ t.requests = s.requests /\ t.results = s.results

GivenUp(s, i) == Ended(s, i, "FAILED", "NoResponse", s.commands[i].call)

LEMMA SendFromListShape ==
    ASSUME NEW s \in TrackType, NEW i \in 1 .. Len(s.commands),
           NEW t, t = SendFromList(s, i)
    PROVE  \/ t = s
           \/ LastTry(s.commands[i]) /\ t = GivenUp(s, i)
           \/ t \in TrackType /\ SentAgain(s, t, i)
  <1> DEFINE e == s.commands[i]
             again == [e EXCEPT !.tryCount = @ + 1]
  <1>1. s.commands \in Seq(EntryType) /\ e \in EntryType /\ s.sent \in Seq(Calls)
    BY DEF TrackType
  <1>2. CASE Overdue(e) /\ ~LastTry(e)
    <2>1. MaxTries(e.call) \in Nat
      BY CommandsAssumption DEF MaxTries
    <2>2. /\ again \in EntryType /\ again.call = e.call
          /\ again.tryCount = e.tryCount + 1 /\ again.tryCount <= MaxTries(e.call)
      <3>1. /\ again \in EntryType /\ again.call = e.call
            /\ again.tryCount = e.tryCount + 1
        BY <1>1, TriedEntry
      <3>2. e.tryCount \in Nat /\ e.tryCount < MaxTries(e.call)
        BY <1>1, <1>2, <2>1 DEF EntryType, LastTry
      <3> QED  BY <2>1, <3>1, <3>2
    <2>3. t = [s EXCEPT !.commands = [s.commands EXCEPT ![i] = again],
                        !.sent = Append(s.sent, e.call)]
      BY <1>1, <1>2 DEF SendFromList, TrackType
    <2>4. Append(s.sent, e.call) \in Seq(Calls)
      BY <1>1 DEF EntryType
    <2> HIDE DEF again
    <2>5. /\ [s.commands EXCEPT ![i] = again] \in Seq(EntryType)
          /\ Len([s.commands EXCEPT ![i] = again]) = Len(s.commands)
          /\ [s.commands EXCEPT ![i] = again][i] = again
          /\ \A j \in 1 .. Len(s.commands) : j # i =>
                [s.commands EXCEPT ![i] = again][j] = s.commands[j]
      BY <1>1, <2>2
    <2>6. /\ t \in TrackType /\ t.commands = [s.commands EXCEPT ![i] = again]
          /\ t.sent = Append(s.sent, e.call)
          /\ t.waitFor = s.waitFor /\ t.waitTimer = s.waitTimer
          /\ t.requests = s.requests /\ t.results = s.results
      BY <2>3, <2>4, <2>5 DEF TrackType
    <2>7. SentAgain(s, t, i)
      BY <2>2, <2>5, <2>6 DEF SentAgain
    <2> QED  BY <2>6, <2>7
  <1>3. CASE ~Overdue(e)
    BY <1>3 DEF SendFromList
  <1>4. CASE Overdue(e) /\ LastTry(e)
    BY <1>4 DEF SendFromList, GivenUp, Ended
  <1> QED  BY <1>2, <1>3, <1>4

-----------------------------------------------------------------------------
(* Facts about s, is being the calls made so far.                            *)

(* Listed calls are told apart; a call that was reported is neither in the    *)
(* list nor in the wait slot; the slot's call has no message yet; a call that *)
(* was acked is not listed.                                                   *)
Once(s, is) ==
    /\ \A i \in 1 .. Len(s.commands) : s.commands[i].call \in is
    /\ CallsDiffer(s)
    /\ s.waitFor \in is \cup {NoCall}
    /\ \A c \in Calls :
          /\ Listed(s, c) => s.results[c] = <<>> /\ ~s.requests[c].acked
          /\ s.waitFor = c => /\ s.results[c] = <<>> /\ s.requests[c].message = NoReply
                              /\ IsRequest(c)
          /\ Len(s.results[c]) <= 1
          /\ c \notin is => /\ s.results[c] = <<>> /\ ~s.requests[c].acked
                            /\ s.requests[c].message = NoReply

(* What is left of the list when an entry has gone.                           *)
OthersLeft(s, t, i) ==
    /\ \A j \in 1 .. Len(t.commands) : \E k \in 1 .. Len(s.commands) :
          k # i /\ t.commands[j] = s.commands[k]
    /\ \A k \in 1 .. Len(s.commands) : k # i =>
          \E j \in 1 .. Len(t.commands) : t.commands[j] = s.commands[k]
    /\ CallsDiffer(t)
    /\ \A d : Listed(t, d) <=> Listed(s, d) /\ d # s.commands[i].call

LEMMA EntriesLeft ==
    ASSUME NEW s \in TrackType, NEW t \in TrackType, NEW i \in 1 .. Len(s.commands),
           EntryGone(s, t, i), CallsDiffer(s)
    PROVE  OthersLeft(s, t, i)
  <1> DEFINE from(j) == IF j < i THEN j ELSE j + 1
  <1>1. Len(s.commands) \in Nat /\ i \in Int
    BY DEF TrackType
  <1>2. \A j \in 1 .. Len(t.commands) :
           /\ from(j) \in 1 .. Len(s.commands) /\ from(j) # i /\ j \in Int
           /\ t.commands[j] = s.commands[from(j)]
    BY <1>1 DEF EntryGone
  <1>3. \A j, k \in 1 .. Len(t.commands) : from(j) = from(k) => j = k
    BY <1>1
  <1>4. ASSUME NEW k \in 1 .. Len(s.commands), k # i
        PROVE  \E j \in 1 .. Len(t.commands) : from(j) = k
    <2>1. CASE k < i
      <3>1. k \in 1 .. Len(t.commands) /\ from(k) = k
        BY <1>1, <2>1 DEF EntryGone
      <3> QED  BY <3>1
    <2>2. CASE k > i
      <3>1. k - 1 \in 1 .. Len(t.commands) /\ from(k - 1) = k
        BY <1>1, <2>2 DEF EntryGone
      <3> QED  BY <3>1
    <2> QED  BY <1>1, <1>4, <2>1, <2>2
  <1> HIDE DEF from
  <1>5. \A j \in 1 .. Len(t.commands) : \E k \in 1 .. Len(s.commands) :
           k # i /\ t.commands[j] = s.commands[k]
    BY <1>2
  <1>6. \A k \in 1 .. Len(s.commands) : k # i =>
           \E j \in 1 .. Len(t.commands) : t.commands[j] = s.commands[k]
    BY <1>2, <1>4
  <1>7. CallsDiffer(t)
    <2> SUFFICES ASSUME NEW j \in 1 .. Len(t.commands), NEW k \in 1 .. Len(t.commands),
                        t.commands[j].call = t.commands[k].call
                 PROVE  j = k
      BY DEF CallsDiffer
    <2>1. s.commands[from(j)].call = s.commands[from(k)].call
      BY <1>2
    <2>2. from(j) = from(k)
      BY <1>2, <2>1 DEF CallsDiffer
    <2> QED  BY <1>3, <2>2
  <1>8. ASSUME NEW d
        PROVE  Listed(t, d) <=> Listed(s, d) /\ d # s.commands[i].call
    <2>1. ASSUME Listed(t, d) PROVE Listed(s, d) /\ d # s.commands[i].call
      <3>1. PICK j \in 1 .. Len(t.commands) : t.commands[j].call = d
        BY <2>1 DEF Listed
      <3>2. PICK k \in 1 .. Len(s.commands) : k # i /\ t.commands[j] = s.commands[k]
        BY <1>5
      <3> QED  BY <3>1, <3>2 DEF Listed, CallsDiffer
    <2>2. ASSUME Listed(s, d), d # s.commands[i].call PROVE Listed(t, d)
      <3>1. PICK k \in 1 .. Len(s.commands) : s.commands[k].call = d
        BY <2>2 DEF Listed
      <3>2. k # i
        BY <2>2, <3>1
      <3>3. PICK j \in 1 .. Len(t.commands) : t.commands[j] = s.commands[k]
        BY <1>6, <3>2
      <3> QED  BY <3>1, <3>3 DEF Listed
    <2> QED  BY <2>1, <2>2
  <1> QED  BY <1>5, <1>6, <1>7, <1>8 DEF OthersLeft

LEMMA EndedOnce ==
    ASSUME NEW s \in TrackType, NEW is \in SUBSET Calls, Once(s, is),
           NEW i \in 1 .. Len(s.commands),
           NEW result \in Result, NEW failure \in Failure, NEW answers \in Calls,
           NEW t, t = Ended(s, i, result, failure, answers)
    PROVE  Once(t, is)
  <1> DEFINE c == s.commands[i].call
  <1>1. /\ c \in Calls /\ t \in TrackType
        /\ EntryGone(s, t, i)
        /\ Handled(s, t, c, result, failure, answers)
    BY EndedShape
  <1>2. /\ \A j \in 1 .. Len(t.commands) : \E k \in 1 .. Len(s.commands) :
                 k # i /\ t.commands[j] = s.commands[k]
        /\ CallsDiffer(t)
        /\ \A d : Listed(t, d) <=> Listed(s, d) /\ d # c
    <2>1. CallsDiffer(s)
      BY DEF Once
    <2>2. EntryGone(s, t, i) /\ t \in TrackType
      BY <1>1
    <2>3. OthersLeft(s, t, i)
      BY <2>1, <2>2, EntriesLeft
    <2> QED  BY <2>3 DEF OthersLeft
  <1>3. Listed(s, c) /\ c \in is /\ s.results[c] = <<>> /\ ~s.requests[c].acked
    BY <1>1 DEF Once, Listed
  <1> HIDE DEF c
  <1>4. \A j \in 1 .. Len(t.commands) : t.commands[j].call \in is
    BY <1>2 DEF Once
  <1>5. t.waitFor \in is \cup {NoCall}
    BY <1>1 DEF Handled, Once
  <1>6. ASSUME NEW d \in Calls, d # c
        PROVE  /\ Listed(t, d) => t.results[d] = <<>> /\ ~t.requests[d].acked
               /\ t.waitFor = d => /\ t.results[d] = <<>> /\ t.requests[d].message = NoReply
                                   /\ IsRequest(d)
               /\ Len(t.results[d]) <= 1
               /\ d \notin is => /\ t.results[d] = <<>> /\ ~t.requests[d].acked
                                 /\ t.requests[d].message = NoReply
    <2>1. t.results[d] = s.results[d] /\ t.requests[d] = s.requests[d]
      BY <1>1, <1>6 DEF Handled
    <2>2. t.waitFor = d => s.waitFor = d
      BY <1>1, CommandsAssumption DEF Handled
    <2>3. /\ Listed(s, d) => s.results[d] = <<>> /\ ~s.requests[d].acked
          /\ s.waitFor = d => /\ s.results[d] = <<>> /\ s.requests[d].message = NoReply
                              /\ IsRequest(d)
          /\ Len(s.results[d]) <= 1
          /\ d \notin is => /\ s.results[d] = <<>> /\ ~s.requests[d].acked
                            /\ s.requests[d].message = NoReply
      BY DEF Once
    <2> QED  BY <1>2, <2>1, <2>2, <2>3
  <1>7. /\ ~Listed(t, c) /\ Len(t.results[c]) <= 1
        /\ t.waitFor = c => /\ t.results[c] = <<>> /\ t.requests[c].message = NoReply
                            /\ IsRequest(c)
    <2>1. s.waitFor = c => s.requests[c].message = NoReply /\ IsRequest(c)
      BY <1>1 DEF Once
    <2>2. NoCall # c
      BY <1>1, CommandsAssumption
    <2>3. t.results[c] = <<>> \/ \E o : t.results[c] = Append(s.results[c], o)
      BY <1>1, <1>3 DEF Handled
    <2>4. Len(t.results[c]) <= 1
      <3>1. CASE t.results[c] = <<>>
        BY <3>1
      <3>2. CASE \E o : t.results[c] = Append(s.results[c], o)
        <4>1. PICK o : t.results[c] = Append(<<>>, o)
          BY <1>3, <3>2
        <4> QED  BY <4>1, FirstResult
      <3> QED  BY <2>3, <3>1, <3>2
    <2> QED  BY <1>1, <1>2, <1>3, <2>1, <2>2, <2>4 DEF Handled
  <1> QED  BY <1>2, <1>3, <1>4, <1>5, <1>6, <1>7 DEF Once

LEMMA WaitCheckedOnce ==
    ASSUME NEW s \in TrackType, NEW is \in SUBSET Calls, Once(s, is), NEW t,
           t.commands = s.commands, NEW m, WaitHandled(s, t, m)
    PROVE  Once(t, is)
  <1>1. CASE t = s
    BY <1>1
  <1>2. CASE t # s
    <2> DEFINE c == s.waitFor
    <2>1. /\ c \in Calls /\ t.waitFor = NoCall
          /\ \A d \in Calls : d # c =>
                t.results[d] = s.results[d] /\ t.requests[d] = s.requests[d]
          /\ \/ /\ s.requests[c].acked /\ t.requests[c] = s.requests[c]
                /\ \E o : t.results[c] = Append(s.results[c], o)
             \/ /\ ~s.requests[c].acked
                /\ t.results[c] = s.results[c] /\ ~t.requests[c].acked
      BY <1>2 DEF WaitHandled
    <2> HIDE DEF c
    <2>2. \A d : Listed(t, d) = Listed(s, d)
      BY DEF Listed
    <2>3. c \in is /\ s.results[c] = <<>>
      BY <2>1, CommandsAssumption DEF Once, c
    <2>4. ASSUME NEW d \in Calls
          PROVE  /\ Listed(t, d) => t.results[d] = <<>> /\ ~t.requests[d].acked
                 /\ t.waitFor # d
                 /\ Len(t.results[d]) <= 1
                 /\ d \notin is => /\ t.results[d] = <<>> /\ ~t.requests[d].acked
                                   /\ t.requests[d].message = NoReply
      <3>1. /\ Listed(s, d) => s.results[d] = <<>> /\ ~s.requests[d].acked
            /\ Len(s.results[d]) <= 1
            /\ d \notin is => /\ s.results[d] = <<>> /\ ~s.requests[d].acked
                              /\ s.requests[d].message = NoReply
        BY DEF Once
      <3>2. t.waitFor # d
        BY <2>1, CommandsAssumption
      <3>3. CASE d # c
        BY <2>1, <2>2, <3>1, <3>2, <3>3
      <3>4. CASE d = c
        <4>1. Len(t.results[c]) <= 1
          <5>1. CASE t.results[c] = <<>>
            BY <5>1
          <5>2. CASE \E o : t.results[c] = Append(s.results[c], o)
            <6>1. PICK o : t.results[c] = Append(<<>>, o)
              BY <2>3, <5>2
            <6> QED  BY <6>1, FirstResult
          <5> QED  BY <2>1, <2>3, <5>1, <5>2
        <4> QED  BY <2>1, <2>2, <2>3, <3>1, <3>2, <3>4, <4>1
      <3> QED  BY <3>3, <3>4
    <2>5. CallsDiffer(t) /\ \A i \in 1 .. Len(t.commands) : t.commands[i].call \in is
      BY DEF Once, CallsDiffer
    <2> QED  BY <2>1, <2>4, <2>5 DEF Once
  <1> QED  BY <1>1, <1>2

(* The same calls are listed, and nothing else changes that Once is about.    *)
SameCalls(s, t) ==
    /\ Len(t.commands) = Len(s.commands)
    /\ \A i \in 1 .. Len(s.commands) : t.commands[i].call = s.commands[i].call
    /\ t.waitFor = s.waitFor /\ t.waitTimer.active = s.waitTimer.active
    /\ t.requests = s.requests /\ t.results = s.results

LEMMA SameCallsListed ==
    ASSUME NEW s, NEW t, SameCalls(s, t)
    PROVE  \A d : Listed(t, d) = Listed(s, d)
  BY DEF SameCalls, Listed

LEMMA SameCallsOnce ==
    ASSUME NEW s \in TrackType, NEW is \in SUBSET Calls, Once(s, is),
           NEW t \in TrackType, SameCalls(s, t)
    PROVE  Once(t, is)
  <1>1. \A d : Listed(t, d) = Listed(s, d)
    BY SameCallsListed
  <1>2. CallsDiffer(t)
    BY DEF Once, CallsDiffer, SameCalls
  <1> QED  BY <1>1, <1>2 DEF Once, SameCalls

LEMMA PreparedOnce ==
    ASSUME NEW s \in TrackType, NEW is \in SUBSET Calls, Once(s, is), NEW c \in Calls \ is,
           NEW t, t = PreparedFor(s, c)
    PROVE  Once(t, is \cup {c}) /\ ~Listed(t, c)
  <1>1. /\ t \in TrackType
        /\ t.commands = s.commands
        /\ t.requests = s.requests /\ t.results = s.results
        /\ IF IsRequest(c) THEN t.waitFor = c ELSE t.waitFor = s.waitFor
    BY PreparedShape
  <1>2. \A d : Listed(t, d) = Listed(s, d)
    BY <1>1 DEF Listed
  <1>3. ~Listed(s, c)
    BY DEF Once, Listed
  <1>4. CallsDiffer(t)
    BY <1>1 DEF Once, CallsDiffer
  <1>5. \A d \in Calls : t.waitFor = d =>
           t.results[d] = <<>> /\ t.requests[d].message = NoReply /\ IsRequest(d)
    BY <1>1 DEF Once
  <1> QED  BY <1>1, <1>2, <1>3, <1>4, <1>5 DEF Once

LEMMA RefusedOnce ==
    ASSUME NEW s \in TrackType, NEW is \in SUBSET Calls, Once(s, is), NEW c \in Calls \ is,
           NEW failure \in Failure,
           NEW t \in TrackType, RefusedTo(s, t, c, failure)
    PROVE  Once(t, is \cup {c})
  <1>1. /\ t \in TrackType
        /\ t.commands = s.commands
        /\ \A d \in Calls : d # c =>
              t.results[d] = s.results[d] /\ t.requests[d] = s.requests[d]
        /\ IF IsRequest(c) THEN t.waitFor = NoCall ELSE t.waitFor = s.waitFor
        /\ \E o : t.results[c] = Append(s.results[c], o)
    BY DEF RefusedTo
  <1>2. \A d : Listed(t, d) = Listed(s, d)
    BY <1>1 DEF Listed
  <1>3. ~Listed(s, c) /\ s.results[c] = <<>> /\ s.waitFor # c
    BY CommandsAssumption DEF Once, Listed
  <1>4. CallsDiffer(t)
    BY <1>1 DEF Once, CallsDiffer
  <1>5. Len(t.results[c]) <= 1
    <2>1. PICK o : t.results[c] = Append(<<>>, o)
      BY <1>1, <1>3
    <2> QED  BY <2>1, FirstResult
  <1>6. t.waitFor # c /\ (t.waitFor = s.waitFor \/ t.waitFor = NoCall)
    BY <1>1, <1>3, CommandsAssumption
  <1>7. ASSUME NEW d \in Calls
        PROVE  /\ Listed(t, d) => t.results[d] = <<>> /\ ~t.requests[d].acked
               /\ t.waitFor = d => /\ t.results[d] = <<>> /\ t.requests[d].message = NoReply
                                   /\ IsRequest(d)
               /\ Len(t.results[d]) <= 1
               /\ d \notin is \cup {c} => /\ t.results[d] = <<>> /\ ~t.requests[d].acked
                                          /\ t.requests[d].message = NoReply
    <2>1. CASE d = c
      BY <1>2, <1>3, <1>5, <1>6, <2>1
    <2>2. CASE d # c
      <3>1. t.waitFor = d => s.waitFor = d
        BY <1>6, CommandsAssumption
      <3>2. /\ Listed(s, d) => s.results[d] = <<>> /\ ~s.requests[d].acked
            /\ s.waitFor = d => /\ s.results[d] = <<>> /\ s.requests[d].message = NoReply
                                /\ IsRequest(d)
            /\ Len(s.results[d]) <= 1
            /\ d \notin is => /\ s.results[d] = <<>> /\ ~s.requests[d].acked
                              /\ s.requests[d].message = NoReply
        BY DEF Once
      <3> QED  BY <1>1, <1>2, <2>2, <3>1, <3>2
    <2> QED  BY <2>1, <2>2
  <1>8. /\ \A i \in 1 .. Len(t.commands) : t.commands[i].call \in is \cup {c}
        /\ t.waitFor \in is \cup {c, NoCall}
    BY <1>1, <1>6 DEF Once
  <1> QED  BY <1>4, <1>7, <1>8 DEF Once

LEMMA AddedOnce ==
    ASSUME NEW s \in TrackType, NEW is \in SUBSET Calls, Once(s, is), NEW c \in is,
           ~Listed(s, c), s.results[c] = <<>>, ~s.requests[c].acked,
           NEW t, t = Added(s, c)
    PROVE  Once(t, is)
  <1>1. /\ t \in TrackType
        /\ t.waitFor = s.waitFor
        /\ t.requests = s.requests /\ t.results = s.results
        /\ Len(t.commands) = Len(s.commands) + 1
        /\ \A i \in 1 .. Len(s.commands) : t.commands[i] = s.commands[i]
        /\ t.commands[Len(t.commands)] = Entry(c)
        /\ \A d : Listed(t, d) <=> Listed(s, d) \/ d = c
    <2>0. c \in Calls
      OBVIOUS
    <2>1. t \in TrackType /\ AddedTo(s, t, c)
      BY <2>0, AddedShape
    <2> QED  BY <2>1 DEF AddedTo
  <1>2. Len(s.commands) \in Nat
    BY DEF TrackType
  <1>3. \A i \in 1 .. Len(t.commands) : i \in 1 .. Len(s.commands) \/ i = Len(t.commands)
    BY <1>1, <1>2
  <1>4. t.commands[Len(t.commands)].call = c
    BY <1>1 DEF Entry
  <1>5. CallsDiffer(t)
    <2>1. \A i \in 1 .. Len(s.commands) : t.commands[i].call = s.commands[i].call
      BY <1>1
    <2>2. \A i, j \in 1 .. Len(s.commands) : s.commands[i].call = s.commands[j].call => i = j
      BY DEF Once, CallsDiffer
    <2>3. \A i \in 1 .. Len(s.commands) : s.commands[i].call # c
      BY DEF Listed
    <2> QED  BY SMTT(30), <1>3, <1>4, <2>1, <2>2, <2>3 DEF CallsDiffer
  <1>6. \A i \in 1 .. Len(t.commands) : t.commands[i].call \in is
    BY <1>1, <1>3, <1>4 DEF Once
  <1>7. \A d \in Calls : Listed(t, d) => t.results[d] = <<>> /\ ~t.requests[d].acked
    BY <1>1 DEF Once
  <1> QED  BY <1>1, <1>5, <1>6, <1>7 DEF Once

LEMMA AckHandledShape ==
    ASSUME NEW s \in TrackType, NEW m, m.answers \in Calls, m.result \in Result,
           NEW t, t = AckHandled(s, m)
    PROVE  \/ t = s
           \/ \E i \in 1 .. Len(s.commands) :
                 /\ SameCommand(s.commands[i].call, m.answers)
                 /\ t = Ended(s, i, m.result, "CommandResult", m.answers)
  <1> DEFINE i == EntryIndex(s, m.answers)
  <1>1. CASE i = 0
    BY <1>1 DEF AckHandled
  <1>2. CASE i # 0
    <2>1. i \in 1 .. Len(s.commands) /\ SameCommand(s.commands[i].call, m.answers)
      <3>1. i \in 0 .. Len(s.commands) /\ Len(s.commands) \in Nat
        <4>1. Len(s.commands) \in Nat
          BY DEF TrackType
        <4> QED  BY <4>1, EntryIndexFacts
      <3>2. SameCommand(s.commands[i].call, m.answers)
        BY <1>2, EntryIndexFacts
      <3> QED  BY <1>2, <3>1, <3>2
    <2>2. t = Ended(s, i, m.result, "CommandResult", m.answers)
      BY <1>2 DEF AckHandled, Ended
    <2> QED  BY <2>1, <2>2
  <1> QED  BY <1>1, <1>2

-----------------------------------------------------------------------------
(* The types of all variables.                                               *)
AckType == [kind : {"ACK"}, component : Components, message : {"COMMAND_ACK"},
            result : Result, answers : Calls]
MessageType == [kind : {"MESSAGE"}, component : Components, message : Messages]
InboundType == AckType \cup MessageType

TypeInv ==
    /\ Tracked \in TrackType
    /\ issued \in SUBSET Calls
    /\ sends \in [Calls -> Nat]
    /\ linkUp \in BOOLEAN /\ (LinkMayGo \/ linkUp)
    /\ toVehicle \in Seq(Calls) /\ Len(toVehicle) <= MaxInFlight
    /\ toGcs \in Seq(InboundType) /\ Len(toGcs) <= MaxInFlight

Unsent(s) == [s EXCEPT !.sent = <<>>]

LEMMA UnsentShape ==
    ASSUME NEW s \in TrackType, NEW t, t = Unsent(s)
    PROVE  /\ t \in TrackType /\ t.sent = <<>>
           /\ t.commands = s.commands /\ t.waitFor = s.waitFor /\ t.waitTimer = s.waitTimer
           /\ t.requests = s.requests /\ t.results = s.results
           /\ SameCalls(s, t)
           /\ s.sent = <<>> => t = s
  <1>1. <<>> \in Seq(Calls)
    OBVIOUS
  <1>2. /\ t \in TrackType /\ t.sent = <<>>
        /\ t.commands = s.commands /\ t.waitFor = s.waitFor /\ t.waitTimer = s.waitTimer
        /\ t.requests = s.requests /\ t.results = s.results
    BY <1>1 DEF Unsent, TrackType
  <1>3. SameCalls(s, t)
    BY <1>2 DEF SameCalls
  <1>4. s.sent = <<>> => t = s
    BY DEF Unsent, TrackType
  <1> QED  BY <1>2, <1>3, <1>4

LEMMA BecomesUnsent ==
    ASSUME NEW s \in TrackType, Becomes(s)
    PROVE  Tracked' = Unsent(s)
  <1> DEFINE t == Unsent(s)
  <1>1. t = [commands |-> s.commands, waitFor |-> s.waitFor, waitTimer |-> s.waitTimer,
             requests |-> s.requests, results |-> s.results, sent |-> <<>>]
    <2>1. /\ t \in TrackType /\ t.sent = <<>>
          /\ t.commands = s.commands /\ t.waitFor = s.waitFor /\ t.waitTimer = s.waitTimer
          /\ t.requests = s.requests /\ t.results = s.results
      BY UnsentShape
    <2> HIDE DEF t
    <2>2. t = [commands |-> t.commands, waitFor |-> t.waitFor, waitTimer |-> t.waitTimer,
               requests |-> t.requests, results |-> t.results, sent |-> t.sent]
      BY <2>1 DEF TrackType
    <2> QED  BY <2>1, <2>2
  <1> HIDE DEF t
  <1>2. /\ commands' = s.commands /\ waitFor' = s.waitFor /\ waitTimer' = s.waitTimer
        /\ requests' = s.requests /\ results' = s.results
    BY DEF Becomes
  <1>3. Tracked' = t
    BY <1>1, <1>2 DEF Tracked
  <1> QED  BY <1>3 DEF t

(* What a channel holds after a list was put on it: what was there and then   *)
(* the list's members, as far as there is room.                               *)
LEMMA DeliveredFacts ==
    ASSUME NEW S, NEW channel \in Seq(S), NEW list \in Seq(S), Len(channel) <= MaxInFlight,
           NEW d, d = Delivered(channel, list)
    PROVE  /\ d \in Seq(S) /\ Len(d) <= MaxInFlight
           /\ Len(channel) <= Len(d) /\ Len(d) <= Len(channel) + Len(list)
           /\ \A i \in 1 .. Len(channel) : d[i] = channel[i]
           /\ \A i \in 1 .. Len(d) : i > Len(channel) =>
                 i - Len(channel) \in 1 .. Len(list) /\ d[i] = list[i - Len(channel)]
  <1> DEFINE all == channel \o list
             n == IF Len(all) < MaxInFlight THEN Len(all) ELSE MaxInFlight
  <1>1. /\ all \in Seq(S) /\ Len(all) = Len(channel) + Len(list)
        /\ \A i \in 1 .. (Len(channel) + Len(list)) :
              all[i] = IF i <= Len(channel) THEN channel[i] ELSE list[i - Len(channel)]
    BY ConcatProperties
  <1>2. d = SubSeq(all, 1, n)
    BY DEF Delivered
  <1>3. Len(channel) \in Nat /\ Len(list) \in Nat /\ MaxInFlight \in Nat
    BY CommandsAssumption
  <1>4. n \in 0 .. Len(all) /\ n <= MaxInFlight /\ Len(channel) <= n /\ n <= Len(channel) + Len(list)
    BY <1>1, <1>3
  <1> HIDE DEF all, n
  <1>5. d \in Seq(S) /\ Len(d) = n /\ \A i \in 1 .. n : d[i] = all[i]
    BY <1>1, <1>2, <1>4
  <1>6. ASSUME NEW i \in 1 .. n
        PROVE  /\ i <= Len(channel) => d[i] = channel[i]
               /\ i > Len(channel) => i - Len(channel) \in 1 .. Len(list) /\ d[i] = list[i - Len(channel)]
    BY <1>1, <1>3, <1>4, <1>5
  <1>7. \A i \in 1 .. Len(channel) : i \in 1 .. n /\ i <= Len(channel)
    BY <1>3, <1>4
  <1> QED  BY <1>4, <1>5, <1>6, <1>7

LEMMA TailFacts ==
    ASSUME NEW S, NEW q \in Seq(S), q # <<>>
    PROVE  /\ Head(q) \in S /\ Head(q) = q[1] /\ 1 \in 1 .. Len(q)
           /\ Tail(q) \in Seq(S) /\ Len(Tail(q)) = Len(q) - 1
           /\ \A i \in 1 .. Len(Tail(q)) : i + 1 \in 1 .. Len(q) /\ Tail(q)[i] = q[i + 1]
  OBVIOUS

(* Who makes a call, and what comes of it.                                    *)
CallMade(c) ==
    /\ c \notin issued /\ issued' = issued \cup {c}
    /\ Overlapping \/ \A d \in issued : results[d] # <<>>
    /\ linkUp' = linkUp /\ toGcs' = toGcs
    /\ \/ /\ \E failure \in {"CommandResult", "Duplicate"} : RefusedTo(Tracked, Tracked', c, failure)
          /\ toVehicle' = toVehicle /\ sends' = sends
       \/ /\ ~linkUp /\ Tracked' = PreparedFor(Tracked, c)
          /\ toVehicle' = toVehicle /\ sends' = sends
       \/ /\ ~Refused(c) /\ linkUp
          /\ Tracked' = Added(PreparedFor(Tracked, c), c)
          /\ Transmit(<<c>>)

LEMMA CallCases ==
    ASSUME TypeInv, NEW c \in Calls, Call(c)
    PROVE  Tracked' \in TrackType /\ CallMade(c)
  <1> DEFINE s == Tracked
             u == PreparedFor(s, c)
             failure == RefusalFailure(c)
             t == CmdResult(u, c, "FAILED", failure, c)
  <1>1. Prepared(c) = u
    BY DEF Prepared, PreparedFor
  <1>2. s \in TrackType /\ s.sent = <<>>
    BY DEF TypeInv, Tracked
  <1>3. failure \in {"CommandResult", "Duplicate"} /\ failure \in Failure
    BY DEF RefusalFailure, Failure
  <1>4. u \in TrackType /\ u.sent = <<>>
    <2> HIDE DEF s, u
    <2>1. u = PreparedFor(s, c)
      BY DEF u
    <2>2. u \in TrackType /\ u.sent = s.sent
      BY <1>2, <2>1, PreparedShape
    <2> QED  BY <1>2, <2>2
  <1>5. /\ c \notin issued /\ issued' = issued \cup {c}
        /\ Overlapping \/ \A d \in issued : results[d] # <<>>
        /\ linkUp' = linkUp /\ toGcs' = toGcs
    BY DEF Call
  <1> HIDE DEF failure
  <1>6. \/ Becomes(t) /\ toVehicle' = toVehicle /\ sends' = sends
        \/ ~linkUp /\ Becomes(u) /\ toVehicle' = toVehicle /\ sends' = sends
        \/ ~Refused(c) /\ linkUp /\ Becomes(Added(u, c)) /\ Transmit(<<c>>)
    BY <1>1 DEF Call, Added, failure
  <1>7. CASE Becomes(t) /\ toVehicle' = toVehicle /\ sends' = sends
    <2>1. t \in TrackType /\ RefusedTo(s, t, c, failure)
      <3> HIDE DEF s
      <3> QED  BY <1>2, <1>3, RefusedShape
    <2>2. t.sent = <<>>
      BY <1>2, <2>1 DEF RefusedTo
    <2> HIDE DEF t, s
    <2>3. Tracked' = Unsent(t)
      BY <1>7, <2>1, BecomesUnsent
    <2>4. Tracked' = t
      BY <2>1, <2>2, <2>3, UnsentShape
    <2> QED  BY <1>3, <1>5, <1>7, <2>1, <2>4 DEF CallMade, s
  <1>8. CASE ~linkUp /\ Becomes(u) /\ toVehicle' = toVehicle /\ sends' = sends
    <2> HIDE DEF u
    <2>1. Tracked' = Unsent(u)
      BY <1>4, <1>8, BecomesUnsent
    <2>2. Tracked' = u
      BY <1>4, <2>1, UnsentShape
    <2> QED  BY <1>4, <1>5, <1>8, <2>2 DEF CallMade, u
  <1>9. CASE ~Refused(c) /\ linkUp /\ Becomes(Added(u, c)) /\ Transmit(<<c>>)
    <2> DEFINE a == Added(u, c)
    <2>1. a \in TrackType /\ a.sent = <<>>
      <3> HIDE DEF u
      <3>1. a \in TrackType /\ AddedTo(u, a, c)
        BY <1>4, AddedShape
      <3> QED  BY <1>4, <3>1 DEF AddedTo
    <2>2. Becomes(a)
      BY <1>9
    <2>5. a = Added(PreparedFor(Tracked, c), c)
      OBVIOUS
    <2> HIDE DEF a, u, t
    <2>3. Tracked' = Unsent(a)
      BY <2>1, <2>2, BecomesUnsent
    <2>4. Tracked' = a
      BY <2>1, <2>3, UnsentShape
    <2> QED  BY <1>5, <1>9, <2>1, <2>4, <2>5 DEF CallMade
  <1> QED  BY <1>6, <1>7, <1>8, <1>9

(* What arrives: it is shown to the wait slot, and an ack then to the list.   *)
Arrives(m) ==
    /\ <<m.component, m.message>> \in HandedOver
    /\ m.kind = "ACK" => m.answers \in Calls /\ m.result \in Result

MessageTaken(m, u) ==
    /\ u \in TrackType /\ u.commands = Tracked.commands /\ u.sent = <<>>
    /\ WaitHandled(Tracked, u, m)
    /\ \/ Tracked' = u
       \/ /\ m.kind = "ACK"
          /\ \E i \in 1 .. Len(u.commands) :
                /\ SameCommand(u.commands[i].call, m.answers)
                /\ Tracked' = Ended(u, i, m.result, "CommandResult", m.answers)

LEMMA ReceivedCases ==
    ASSUME TypeInv, NEW m, Arrives(m), Received(m)
    PROVE  Tracked' \in TrackType /\ \E u : MessageTaken(m, u)
  <1> DEFINE s == Tracked
             u == WaitChecked(s, m)
             t == IF m.kind = "ACK" THEN AckHandled(u, m) ELSE u
  <1>1. s \in TrackType /\ s.sent = <<>>
    BY DEF TypeInv, Tracked
  <1>2. u \in TrackType /\ u.commands = s.commands /\ u.sent = <<>> /\ WaitHandled(s, u, m)
    <2> HIDE DEF s
    <2>1. <<m.component, m.message>> \in HandedOver
      BY DEF Arrives
    <2>2. u \in TrackType /\ u.commands = s.commands /\ u.sent = s.sent /\ WaitHandled(s, u, m)
      BY <1>1, <2>1, WaitCheckedShape
    <2> QED  BY <1>1, <2>2
  <1>3. Becomes(t)
    BY DEF Received
  <1> HIDE DEF u
  <1>4. /\ t \in TrackType /\ t.sent = <<>>
        /\ \/ t = u
           \/ /\ m.kind = "ACK"
              /\ \E i \in 1 .. Len(u.commands) :
                    /\ SameCommand(u.commands[i].call, m.answers)
                    /\ t = Ended(u, i, m.result, "CommandResult", m.answers)
    <2>1. CASE t = u
      BY <1>2, <2>1
    <2>2. CASE m.kind = "ACK" /\ t # u
      <3> DEFINE failure == "CommandResult"
      <3>0. failure \in Failure
        BY DEF Failure
      <3>1. m.answers \in Calls /\ m.result \in Result
        BY <2>2 DEF Arrives
      <3>2. t = AckHandled(u, m)
        BY <2>2
      <3> HIDE DEF t, s
      <3>3. PICK i \in 1 .. Len(u.commands) :
               /\ SameCommand(u.commands[i].call, m.answers)
               /\ t = Ended(u, i, m.result, "CommandResult", m.answers)
        <4>1. u \in TrackType
          BY <1>2
        <4> QED  BY <2>2, <3>1, <3>2, <4>1, AckHandledShape
      <3>4. t = Ended(u, i, m.result, failure, m.answers)
        BY <3>3
      <3> HIDE DEF failure
      <3>5. t \in TrackType /\ t.sent = u.sent
        <4>1. u \in TrackType
          BY <1>2
        <4> QED  BY <3>0, <3>1, <3>4, <4>1, EndedShape
      <3> QED  BY <1>2, <2>2, <3>3, <3>5
    <2> QED  BY <2>1, <2>2
  <1> HIDE DEF t, s
  <1>5. Tracked' = Unsent(t)
    BY <1>3, <1>4, BecomesUnsent
  <1>6. Tracked' = t
    BY <1>4, <1>5, UnsentShape
  <1> QED  BY <1>2, <1>4, <1>6 DEF MessageTaken, s

-----------------------------------------------------------------------------
(* How often each call's command went out, n being call -> that number.       *)

EntryTries(e, n) ==
    /\ e.tryCount <= MaxTries(e.call) /\ n[e.call] <= e.tryCount
    /\ ~LinkMayGo => n[e.call] = e.tryCount

FailsInTheEnd(q, c, n) == \A j \in DOMAIN q : q[j].failure = "NoResponse" => n[c] = MaxTries(c)

(* An entry counts what was sent, and more only if the link was gone; a call  *)
(* fails for want of a response once all of its tries went out.               *)
Tries(s, n, is) ==
    /\ \A i \in 1 .. Len(s.commands) : EntryTries(s.commands[i], n)
    /\ \A c \in Calls :
          /\ n[c] <= MaxTries(c)
          /\ c \notin is => n[c] = 0
          /\ ~LinkMayGo => FailsInTheEnd(s.results[c], c, n)

LEMMA MaxTriesType == \A c : MaxTries(c) \in Nat /\ MaxTries(c) >= 1
  BY CommandsAssumption DEF MaxTries

LEMMA FirstFails ==
    ASSUME NEW o, NEW q, q = Append(<<>>, o), NEW c, NEW n,
           o.failure = "NoResponse" => n[c] = MaxTries(c)
    PROVE  FailsInTheEnd(q, c, n)
  BY FirstResult DEF FailsInTheEnd

LEMMA SameTries ==
    ASSUME NEW s, NEW is, NEW n, Tries(s, n, is),
           NEW t, Len(t.commands) = Len(s.commands),
           \A i \in 1 .. Len(s.commands) : /\ t.commands[i].call = s.commands[i].call
                                           /\ t.commands[i].tryCount = s.commands[i].tryCount,
           t.results = s.results,
           NEW more, is \subseteq more
    PROVE  Tries(t, n, more)
  BY DEF Tries, EntryTries

LEMMA EndedTries ==
    ASSUME NEW s \in TrackType, NEW is \in SUBSET Calls, Once(s, is),
           NEW n, Tries(s, n, is),
           NEW i \in 1 .. Len(s.commands),
           NEW result \in Result, NEW failure \in Failure, NEW answers \in Calls,
           NEW c, c = s.commands[i].call,
           ~LinkMayGo /\ failure = "NoResponse" => n[c] = MaxTries(c),
           NEW t, t = Ended(s, i, result, failure, answers)
    PROVE  Tries(t, n, is)
  <1>1. c \in Calls /\ t \in TrackType /\ EntryGone(s, t, i) /\ Handled(s, t, c, result, failure, answers)
    BY EndedShape
  <1>2. OthersLeft(s, t, i)
    <2>1. CallsDiffer(s)
      BY DEF Once
    <2>2. EntryGone(s, t, i) /\ t \in TrackType
      BY <1>1
    <2> QED  BY <2>1, <2>2, EntriesLeft
  <1>3. \A j \in 1 .. Len(t.commands) : EntryTries(t.commands[j], n)
    BY <1>2 DEF OthersLeft, Tries
  <1>4. s.results[c] = <<>>
    BY <1>1 DEF Once, Listed
  <1>5. ASSUME ~LinkMayGo PROVE FailsInTheEnd(t.results[c], c, n)
    <2>1. t.results[c] = <<>> \/ \E o : /\ t.results[c] = Append(s.results[c], o)
                                        /\ o.failure = failure \/ o.failure = "NoFailure"
      <3>1. Out(failure, result, NoReply, answers).failure = failure
        BY DEF Out
      <3>2. Out("NoFailure", result, s.requests[c].message, answers).failure = "NoFailure"
        BY DEF Out
      <3>3. \/ t.results[c] = s.results[c]
            \/ t.results[c] = Append(s.results[c], Out(failure, result, NoReply, answers))
            \/ t.results[c] = Append(s.results[c],
                   Out("NoFailure", result, s.requests[c].message, answers))
        BY <1>1 DEF Handled
      <3> QED  BY <1>4, <3>1, <3>2, <3>3
    <2>2. CASE t.results[c] = <<>>
      BY <2>2 DEF FailsInTheEnd
    <2>3. CASE \E o : /\ t.results[c] = Append(s.results[c], o)
                      /\ o.failure = failure \/ o.failure = "NoFailure"
      <3>1. PICK o : /\ t.results[c] = Append(<<>>, o)
                     /\ o.failure = failure \/ o.failure = "NoFailure"
        BY <1>4, <2>3
      <3>2. o.failure = "NoResponse" => n[c] = MaxTries(c)
        BY <1>5, <3>1
      <3> QED  BY <3>1, <3>2, FirstFails
    <2> QED  BY <2>1, <2>2, <2>3
  <1>6. \A d \in Calls : d # c => t.results[d] = s.results[d]
    BY <1>1 DEF Handled
  <1> QED  BY <1>3, <1>5, <1>6 DEF Tries

LEMMA WaitCheckedTries ==
    ASSUME NEW s \in TrackType, NEW is \in SUBSET Calls, Once(s, is),
           NEW n, Tries(s, n, is),
           NEW t, t.commands = s.commands, NEW m, WaitHandled(s, t, m)
    PROVE  Tries(t, n, is)
  <1>1. CASE t = s
    BY <1>1
  <1>2. CASE t # s
    <2> DEFINE c == s.waitFor
    <2>1. /\ c \in Calls
          /\ \A d \in Calls : d # c => t.results[d] = s.results[d]
          /\ t.results[c] = s.results[c]
                \/ \E o : t.results[c] = Append(s.results[c], o) /\ o.failure # "NoResponse"
      <3> DEFINE message == <<m.component, m.message>>
                 received == Out("NoFailure", "ACCEPTED", message, c)
                 missed == Out("MessageNotReceived", "FAILED", message, c)
      <3>1. received.failure # "NoResponse" /\ missed.failure # "NoResponse"
        BY DEF Out
      <3>2. /\ c \in Calls
            /\ \A d \in Calls : d # c => t.results[d] = s.results[d]
            /\ \/ t.results[c] = s.results[c]
               \/ t.results[c] = Append(s.results[c], received)
               \/ t.results[c] = Append(s.results[c], missed)
        BY <1>2 DEF WaitHandled
      <3> HIDE DEF c, received, missed
      <3> QED  BY <3>1, <3>2
    <2> HIDE DEF c
    <2>2. s.results[c] = <<>>
      BY <2>1 DEF Once, c
    <2>3. ~LinkMayGo => FailsInTheEnd(t.results[c], c, n)
      <3>1. CASE t.results[c] = <<>>
        BY <3>1 DEF FailsInTheEnd
      <3>2. CASE \E o : t.results[c] = Append(s.results[c], o) /\ o.failure # "NoResponse"
        <4>1. PICK o : t.results[c] = Append(<<>>, o) /\ o.failure # "NoResponse"
          BY <2>2, <3>2
        <4> QED  BY <4>1, FirstFails
      <3> QED  BY <2>1, <2>2, <3>1, <3>2
    <2> QED  BY <2>1, <2>3 DEF Tries
  <1> QED  BY <1>1, <1>2

LEMMA RefusedTries ==
    ASSUME NEW s \in TrackType, NEW is \in SUBSET Calls, Once(s, is), NEW c \in Calls \ is,
           NEW n, Tries(s, n, is),
           NEW failure \in {"CommandResult", "Duplicate"},
           NEW t \in TrackType, RefusedTo(s, t, c, failure)
    PROVE  Tries(t, n, is \cup {c})
  <1>1. s.results[c] = <<>>
    BY DEF Once
  <1>2. \E o : t.results[c] = Append(<<>>, o) /\ o.failure # "NoResponse"
    BY <1>1 DEF RefusedTo, Out
  <1>3. FailsInTheEnd(t.results[c], c, n)
    BY <1>2, FirstFails
  <1> QED  BY <1>3 DEF Tries, RefusedTo

LEMMA SentAgainTries ==
    ASSUME NEW s \in TrackType, NEW is \in SUBSET Calls, Once(s, is),
           NEW n \in [Calls -> Nat], Tries(s, n, is),
           NEW i \in 1 .. Len(s.commands), NEW t \in TrackType, SentAgain(s, t, i),
           NEW more \in [Calls -> Nat],
           \A c \in Calls : more[c] = IF c = s.commands[i].call THEN n[c] + 1 ELSE n[c]
    PROVE  Tries(t, more, is)
  <1> DEFINE c == s.commands[i].call
  <1>1. s.commands \in Seq(EntryType) /\ t.commands \in Seq(EntryType) /\ s.commands[i] \in EntryType
    BY DEF TrackType
  <1>2. c \in Calls /\ c \in is /\ s.results[c] = <<>>
    BY <1>1 DEF Once, Listed, EntryType
  <1>3. ASSUME NEW j \in 1 .. Len(t.commands) PROVE EntryTries(t.commands[j], more)
    <2>1. /\ j \in 1 .. Len(s.commands) /\ t.commands[j].call = s.commands[j].call
          /\ s.commands[j] \in EntryType /\ s.commands[j].call \in Calls
      <3>1. j \in 1 .. Len(s.commands) /\ t.commands[j].call = s.commands[j].call
        BY DEF SentAgain
      <3>2. s.commands[j] \in EntryType
        BY <1>1, <3>1
      <3> QED  BY <3>1, <3>2 DEF EntryType
    <2>5. t.commands[j].tryCount \in Nat
      <3>1. t.commands[j] \in EntryType
        BY <1>1
      <3> QED  BY <3>1 DEF EntryType
    <2>2. EntryTries(s.commands[j], n)
      BY <2>1 DEF Tries
    <2>3. CASE j = i
      <3>1. /\ t.commands[j].tryCount = s.commands[j].tryCount + 1
            /\ t.commands[j].tryCount <= MaxTries(c) /\ t.commands[j].call = c
        BY <2>1, <2>3 DEF SentAgain
      <3>2. more[c] = n[c] + 1 /\ n[c] \in Nat /\ s.commands[j].tryCount \in Nat
        BY <1>2, <2>1, <2>3 DEF EntryType
      <3>3. n[c] <= s.commands[j].tryCount /\ (~LinkMayGo => n[c] = s.commands[j].tryCount)
        BY <2>2, <2>3 DEF EntryTries
      <3> HIDE DEF c
      <3> QED  BY <3>1, <3>2, <3>3 DEF EntryTries
    <2>4. CASE j # i
      <3>1. s.commands[j].call # c
        BY <2>1, <2>4 DEF Once, CallsDiffer
      <3> QED  BY <2>1, <2>2, <2>4, <3>1 DEF EntryTries, SentAgain
    <2> QED  BY <2>3, <2>4
  <1>4. more[c] <= MaxTries(c)
    <2>1. EntryTries(t.commands[i], more)
      BY <1>3 DEF SentAgain
    <2>2. t.commands[i].call = c /\ t.commands[i] \in EntryType
      BY <1>1 DEF SentAgain
    <2> QED  BY <1>2, <2>1, <2>2, MaxTriesType DEF EntryTries, EntryType
  <1>5. FailsInTheEnd(t.results[c], c, more)
    BY <1>2 DEF SentAgain, FailsInTheEnd
  <1> HIDE DEF c
  <1>6. ASSUME NEW d \in Calls, d # c
        PROVE  /\ more[d] <= MaxTries(d)
               /\ d \notin is => more[d] = 0
               /\ ~LinkMayGo => FailsInTheEnd(t.results[d], d, more)
    BY <1>6 DEF Tries, SentAgain, FailsInTheEnd, c
  <1> QED  BY <1>2, <1>3, <1>4, <1>5, <1>6 DEF Tries

LEMMA AddedTries ==
    ASSUME NEW s \in TrackType, NEW is \in SUBSET Calls, NEW c \in Calls, s.results[c] = <<>>,
           NEW n \in [Calls -> Nat], Tries(s, n, is), n[c] = 0, ~Listed(s, c),
           NEW t \in TrackType, AddedTo(s, t, c),
           NEW more \in [Calls -> Nat], more[c] = 1, \A d \in Calls : d # c => more[d] = n[d]
    PROVE  Tries(t, more, is \cup {c})
  <1>1. ASSUME NEW j \in 1 .. Len(t.commands) PROVE EntryTries(t.commands[j], more)
    <2>1. Len(s.commands) \in Nat /\ Len(t.commands) = Len(s.commands) + 1
      BY DEF TrackType, AddedTo
    <2>2. CASE j \in 1 .. Len(s.commands)
      <3>1. t.commands[j] = s.commands[j] /\ s.commands[j].call # c
        BY <2>2 DEF AddedTo, Listed
      <3>2. EntryTries(s.commands[j], n)
        BY <2>2 DEF Tries
      <3>3. s.commands[j].call \in Calls
        <4>1. s.commands[j] \in EntryType
          BY <2>2 DEF TrackType
        <4> QED  BY <4>1 DEF EntryType
      <3> QED  BY <3>1, <3>2, <3>3 DEF EntryTries
    <2>3. CASE j = Len(t.commands)
      <3>1. t.commands[j].call = c /\ t.commands[j].tryCount = 1
        BY <2>3 DEF AddedTo, Entry
      <3> QED  BY <3>1, MaxTriesType DEF EntryTries
    <2> QED  BY <2>1, <2>2, <2>3
  <1>2. FailsInTheEnd(t.results[c], c, more) /\ more[c] <= MaxTries(c)
    BY MaxTriesType DEF AddedTo, FailsInTheEnd
  <1>3. ASSUME NEW d \in Calls, d # c
        PROVE  /\ more[d] <= MaxTries(d)
               /\ d \notin is => more[d] = 0
               /\ ~LinkMayGo => FailsInTheEnd(t.results[d], d, more)
    BY <1>3 DEF Tries, AddedTo, FailsInTheEnd
  <1> QED  BY <1>1, <1>2, <1>3 DEF Tries

(* With the link gone less is sent than is counted.                           *)
LEMMA FewerTries ==
    ASSUME NEW s \in TrackType, NEW is, NEW n \in [Calls -> Nat], Tries(s, n, is),
           NEW fewer \in [Calls -> Nat], \A c \in Calls : fewer[c] <= n[c], LinkMayGo
    PROVE  Tries(s, fewer, is)
  <1>1. ASSUME NEW i \in 1 .. Len(s.commands) PROVE EntryTries(s.commands[i], fewer)
    <2>1. s.commands[i] \in EntryType /\ EntryTries(s.commands[i], n)
      BY DEF TrackType, Tries
    <2>2. s.commands[i].call \in Calls /\ s.commands[i].tryCount \in Nat
      BY <2>1 DEF EntryType
    <2> QED  BY <2>1, <2>2 DEF EntryTries
  <1>2. ASSUME NEW c \in Calls
        PROVE  fewer[c] <= MaxTries(c) /\ (c \notin is => fewer[c] = 0)
    <2>1. n[c] <= MaxTries(c) /\ (c \notin is => n[c] = 0)
      BY DEF Tries
    <2>2. fewer[c] <= n[c] /\ fewer[c] \in Nat /\ n[c] \in Nat /\ MaxTries(c) \in Nat
      BY MaxTriesType
    <2> QED  BY <2>1, <2>2
  <1> QED  BY <1>1, <1>2 DEF Tries

-----------------------------------------------------------------------------
(* The walk over the list, k entries before its end.                          *)

TriesSoFar(sent, n) == [c \in Calls |-> IF Contains(sent, c) THEN n[c] + 1 ELSE n[c]]

SentOnce(s) == \A i, j \in 1 .. Len(s.sent) : s.sent[i] = s.sent[j] => i = j

(* What was sent again are calls of entries already walked over, once each.   *)
Walking(s, k) ==
    /\ k <= Len(s.commands)
    /\ \A j \in 1 .. Len(s.sent) : \E i \in (k + 1) .. Len(s.commands) :
          s.commands[i].call = s.sent[j]
    /\ SentOnce(s)

WalkInv(s, k, is, n) ==
    /\ s \in TrackType
    /\ Walking(s, k)
    /\ Once(s, is)
    /\ Tries(s, TriesSoFar(s.sent, n), is)

LEMMA ContainsAppend ==
    ASSUME NEW S, NEW q \in Seq(S), NEW x \in S
    PROVE  \A c : Contains(Append(q, x), c) <=> Contains(q, c) \/ c = x
  <1>1. /\ Append(q, x) \in Seq(S) /\ Len(Append(q, x)) = Len(q) + 1 /\ Len(q) \in Nat
        /\ \A i \in 1 .. Len(q) : Append(q, x)[i] = q[i]
        /\ Append(q, x)[Len(q) + 1] = x
    OBVIOUS
  <1>2. \A i \in 1 .. Len(Append(q, x)) : i \in 1 .. Len(q) \/ i = Len(q) + 1
    BY <1>1
  <1>3. 1 .. Len(q) \subseteq 1 .. Len(Append(q, x)) /\ Len(q) + 1 \in 1 .. Len(Append(q, x))
    BY <1>1
  <1> QED  BY <1>1, <1>2, <1>3 DEF Contains

LEMMA WalkStep ==
    ASSUME NEW is \in SUBSET Calls, NEW n \in [Calls -> Nat],
           NEW s, NEW k \in 1 .. Len(s.commands), WalkInv(s, k, is, n),
           NEW t, t = SendFromList(s, k)
    PROVE  WalkInv(t, k - 1, is, n)
  <1> DEFINE c == s.commands[k].call
             sofar == TriesSoFar(s.sent, n)
  <1>1. s \in TrackType /\ Walking(s, k) /\ Once(s, is) /\ Tries(s, sofar, is)
    BY DEF WalkInv
  <1>2. s.commands \in Seq(EntryType) /\ Len(s.commands) \in Nat /\ s.sent \in Seq(Calls)
    BY <1>1 DEF TrackType
  <1>3. s.commands[k] \in EntryType /\ c \in Calls
    <2>1. s.commands[k] \in EntryType
      BY <1>2
    <2> QED  BY <2>1 DEF EntryType
  <1>4. sofar \in [Calls -> Nat] /\ \A d \in Calls : sofar[d] = IF Contains(s.sent, d) THEN n[d] + 1 ELSE n[d]
    BY DEF TriesSoFar
  <1>5. \A j \in 1 .. Len(s.sent) : s.sent[j] # c
    BY <1>1, <1>2 DEF Walking, Once, CallsDiffer
  <1> HIDE DEF sofar
  <1>6. CASE t = s
    <2>1. Walking(s, k - 1)
      BY <1>1, <1>2 DEF Walking
    <2> QED  BY <1>1, <1>6, <2>1 DEF WalkInv, sofar
  <1>7. CASE LastTry(s.commands[k]) /\ t = GivenUp(s, k)
    <2> DEFINE result == "FAILED"
               failure == "NoResponse"
    <2>1. result \in Result /\ failure \in Failure
      BY DEF Result, Failure
    <2>2. t = Ended(s, k, result, failure, c)
      BY <1>7 DEF GivenUp
    <2>3. ~LinkMayGo /\ failure = "NoResponse" => sofar[c] = MaxTries(c)
      <3>1. EntryTries(s.commands[k], sofar)
        BY <1>1 DEF Tries
      <3>2. s.commands[k].tryCount = MaxTries(c)
        BY <1>3, <1>7, <3>1, MaxTriesType DEF EntryTries, LastTry, EntryType
      <3> QED  BY <3>1, <3>2 DEF EntryTries
    <2>4. s \in TrackType
      BY <1>1
    <2>9. Once(s, is) /\ Tries(s, sofar, is)
      BY <1>1
    <2>10. c = s.commands[k].call
      OBVIOUS
    <2> HIDE DEF result, failure, c
    <2>5. t \in TrackType /\ t.sent = s.sent /\ EntryGone(s, t, k)
      BY <1>3, <2>1, <2>2, <2>4, EndedShape
    <2>6. Once(t, is)
      BY <1>3, <2>1, <2>2, <2>4, <2>9, EndedOnce
    <2>7. Tries(t, sofar, is)
      BY <1>3, <2>1, <2>2, <2>3, <2>4, <2>9, <2>10, EndedTries
    <2>8. Walking(t, k - 1)
      <3>1. k - 1 <= Len(t.commands)
        BY <1>2, <2>5 DEF EntryGone
      <3>2. ASSUME NEW j \in 1 .. Len(t.sent)
            PROVE  \E i \in ((k - 1) + 1) .. Len(t.commands) : t.commands[i].call = t.sent[j]
        <4>1. PICK i \in (k + 1) .. Len(s.commands) : s.commands[i].call = s.sent[j]
          BY <1>1, <2>5 DEF Walking
        <4>2. i - 1 \in ((k - 1) + 1) .. Len(t.commands) /\ i - 1 \in 1 .. (Len(s.commands) - 1)
              /\ ~(i - 1 < k) /\ (i - 1) + 1 = i
          BY <1>2, <2>5 DEF EntryGone
        <4>3. t.commands[i - 1] = s.commands[i]
          BY <2>5, <4>2 DEF EntryGone
        <4> QED  BY <2>5, <4>1, <4>2, <4>3
      <3>3. SentOnce(t)
        BY <1>1, <2>5 DEF Walking, SentOnce
      <3> QED  BY <3>1, <3>2, <3>3 DEF Walking
    <2> QED  BY <2>5, <2>6, <2>7, <2>8 DEF WalkInv, sofar
  <1>8. CASE t \in TrackType /\ SentAgain(s, t, k)
    <2> DEFINE more == TriesSoFar(t.sent, n)
    <2>1. t.sent = Append(s.sent, c) /\ t \in TrackType /\ SentAgain(s, t, k)
      BY <1>8 DEF SentAgain
    <2>2. more \in [Calls -> Nat] /\ \A d \in Calls : more[d] = IF Contains(t.sent, d) THEN n[d] + 1 ELSE n[d]
      BY DEF TriesSoFar
    <2>3. \A d : Contains(t.sent, d) <=> Contains(s.sent, d) \/ d = c
      BY <1>2, <1>3, <2>1, ContainsAppend
    <2>4. ~Contains(s.sent, c)
      BY <1>5 DEF Contains
    <2> HIDE DEF more
    <2>5. \A d \in Calls : more[d] = IF d = c THEN sofar[d] + 1 ELSE sofar[d]
      BY <1>4, <2>2, <2>3, <2>4
    <2>6. s \in TrackType /\ Once(s, is) /\ Tries(s, sofar, is)
      BY <1>1
    <2>7. Tries(t, more, is)
      BY ZenonT(60), <1>4, <2>1, <2>2, <2>5, <2>6, SentAgainTries
    <2>8. Once(t, is)
      <3>1. SameCalls(s, t)
        BY <2>1 DEF SentAgain, SameCalls
      <3> QED  BY <2>1, <2>6, <3>1, SameCallsOnce
    <2>9. Walking(t, k - 1)
      <3>1. /\ Len(t.sent) = Len(s.sent) + 1 /\ Len(s.sent) \in Nat
            /\ \A j \in 1 .. Len(s.sent) : t.sent[j] = s.sent[j]
            /\ t.sent[Len(s.sent) + 1] = c
        BY <1>2, <1>3, <2>1
      <3>2. /\ Len(t.commands) = Len(s.commands)
            /\ \A i \in 1 .. Len(s.commands) : t.commands[i].call = s.commands[i].call
        BY <2>1 DEF SentAgain
      <3>3. \A j \in 1 .. Len(t.sent) : j \in 1 .. Len(s.sent) \/ j = Len(s.sent) + 1
        BY <3>1
      <3>4. ASSUME NEW j \in 1 .. Len(t.sent)
            PROVE  \E i \in ((k - 1) + 1) .. Len(t.commands) : t.commands[i].call = t.sent[j]
        <4>1. CASE j \in 1 .. Len(s.sent)
          <5>1. PICK i \in (k + 1) .. Len(s.commands) : s.commands[i].call = s.sent[j]
            BY <1>1, <4>1 DEF Walking
          <5>2. i \in ((k - 1) + 1) .. Len(t.commands) /\ i \in 1 .. Len(s.commands)
            BY <1>2, <3>2
          <5> QED  BY <3>1, <3>2, <4>1, <5>1, <5>2
        <4>2. CASE j = Len(s.sent) + 1
          <5>1. k \in ((k - 1) + 1) .. Len(t.commands) /\ t.commands[k].call = c
            BY <1>2, <3>2
          <5> QED  BY <3>1, <4>2, <5>1
        <4> QED  BY <3>3, <4>1, <4>2
      <3>5. SentOnce(t)
        <4> SUFFICES ASSUME NEW i \in 1 .. Len(t.sent), NEW j \in 1 .. Len(t.sent),
                            t.sent[i] = t.sent[j]
                     PROVE  i = j
          BY DEF SentOnce
        <4>1. CASE i \in 1 .. Len(s.sent) /\ j \in 1 .. Len(s.sent)
          <5>1. s.sent[i] = s.sent[j]
            BY <3>1, <4>1
          <5> QED  BY <1>1, <4>1, <5>1 DEF Walking, SentOnce
        <4>2. CASE i = Len(s.sent) + 1 /\ j \in 1 .. Len(s.sent)
          BY <1>5, <3>1, <4>2
        <4>3. CASE i \in 1 .. Len(s.sent) /\ j = Len(s.sent) + 1
          BY <1>5, <3>1, <4>3
        <4>4. CASE i = Len(s.sent) + 1 /\ j = Len(s.sent) + 1
          BY <4>4
        <4> QED  BY <3>3, <4>1, <4>2, <4>3, <4>4
      <3>6. k - 1 <= Len(t.commands)
        BY <1>2, <3>2
      <3> QED  BY <3>4, <3>5, <3>6 DEF Walking
    <2> QED  BY <2>1, <2>7, <2>8, <2>9 DEF WalkInv, more
  <1> QED
    <2>1. s \in TrackType
      BY <1>1
    <2>2. \/ t = s
          \/ LastTry(s.commands[k]) /\ t = GivenUp(s, k)
          \/ t \in TrackType /\ SentAgain(s, t, k)
      BY <2>1, SendFromListShape
    <2> QED  BY <1>6, <1>7, <1>8, <2>2

LEMMA WalkedInv ==
    ASSUME NEW is \in SUBSET Calls, NEW n \in [Calls -> Nat],
           NEW s \in TrackType, s.sent = <<>>, Once(s, is), Tries(s, n, is),
           NEW t, t = Walked(s)
    PROVE  WalkInv(t, 0, is, n)
  <1> DEFINE count == Len(s.commands)
             G == [m \in Nat |-> {u \in TrackType : WalkInv(u, count - m, is, n)}]
  <1>1. count \in Nat
    BY DEF TrackType
  <1>2. WalkInv(s, count, is, n)
    <2>1. TriesSoFar(s.sent, n) = n
      BY DEF TriesSoFar, Contains
    <2>2. Walking(s, count)
      BY <1>1 DEF Walking, SentOnce
    <2> QED  BY <2>1, <2>2 DEF WalkInv
  <1>3. s \in G[0]
    <2>1. count - 0 = count
      BY <1>1
    <2> QED  BY <1>2, <2>1
  <1>4. ASSUME NEW m \in 0 .. (count - 1), NEW u \in G[m]
        PROVE  SendFromList(u, count - m) \in G[m + 1]
    <2> DEFINE k == count - m
               v == SendFromList(u, k)
    <2>1. u \in TrackType /\ WalkInv(u, k, is, n)
      BY <1>1
    <2>2. k \in 1 .. Len(u.commands) /\ k - 1 = count - (m + 1) /\ m + 1 \in Nat
      <3>1. k <= Len(u.commands)
        BY <2>1 DEF WalkInv, Walking
      <3>2. Len(u.commands) \in Nat
        BY <2>1 DEF TrackType
      <3> QED  BY <1>1, <3>1, <3>2
    <2> HIDE DEF k
    <2>3. v = SendFromList(u, k)
      OBVIOUS
    <2> HIDE DEF v
    <2>4. WalkInv(v, k - 1, is, n)
      BY <2>1, <2>2, <2>3, WalkStep
    <2>5. v \in TrackType
      BY <2>4 DEF WalkInv
    <2>6. v \in G[m + 1]
      BY <2>2, <2>4, <2>5
    <2> QED  BY <2>6 DEF v, k
  <1> HIDE DEF G
  <1>5. Walked(s) \in G[count]
    BY <1>3, <1>4, WalkedFacts
  <1>6. WalkInv(t, count - count, is, n)
    BY <1>1, <1>5 DEF G
  <1> QED  BY <1>1, <1>6

-----------------------------------------------------------------------------
(* What holds whoever calls and whatever the link does: every call is         *)
(* reported once at most, and nothing waits for a call that was reported.     *)
CoreInv ==
    /\ TypeInv
    /\ Once(Tracked, issued)
    /\ Tries(Tracked, sends, issued)

LEMMA TransmitFacts ==
    ASSUME TypeInv, NEW list \in Seq(Calls), Transmit(list)
    PROVE  /\ toVehicle' \in Seq(Calls) /\ Len(toVehicle') <= MaxInFlight
           /\ sends' \in [Calls -> Nat]
           /\ sends' = IF linkUp THEN TriesSoFar(list, sends) ELSE sends
  <1>1. CASE linkUp
    <2>1. toVehicle' = Delivered(toVehicle, list) /\ sends' = TriesSoFar(list, sends)
      BY <1>1 DEF Transmit, TriesSoFar
    <2>2. toVehicle \in Seq(Calls) /\ Len(toVehicle) <= MaxInFlight
      BY DEF TypeInv
    <2>3. TriesSoFar(list, sends) \in [Calls -> Nat]
      BY DEF TypeInv, TriesSoFar
    <2>4. toVehicle' \in Seq(Calls) /\ Len(toVehicle') <= MaxInFlight
      BY <2>1, <2>2, DeliveredFacts
    <2> QED  BY <1>1, <2>1, <2>3, <2>4
  <1>2. CASE ~linkUp
    BY <1>2 DEF Transmit, TypeInv
  <1> QED  BY <1>1, <1>2

LEMMA InitIsCore ==
    ASSUME Init
    PROVE  CoreInv
  <1>1. [active |-> FALSE, elapsed |-> 0] \in WaitTimerType
    BY CommandsAssumption DEF WaitTimerType
  <1>2. [acked |-> FALSE, message |-> NoReply] \in RequestType
    BY DEF RequestType, ReplyType
  <1>3. Tracked \in TrackType
    BY <1>1, <1>2 DEF Init, Tracked, TrackType
  <1>4. TypeInv
    BY <1>3, CommandsAssumption DEF Init, TypeInv
  <1>5. Once(Tracked, issued)
    BY CommandsAssumption DEF Init, Once, Tracked, CallsDiffer, Listed
  <1>6. Tries(Tracked, sends, issued)
    BY MaxTriesType DEF Init, Tries, Tracked, FailsInTheEnd
  <1> QED  BY <1>4, <1>5, <1>6 DEF CoreInv

LEMMA CallKeepsCore ==
    ASSUME CoreInv, NEW c \in Calls, Call(c)
    PROVE  CoreInv'
  <1> DEFINE s == Tracked
             t == Tracked'
  <1>1. t \in TrackType /\ CallMade(c)
    BY CallCases DEF CoreInv
  <1>2. s \in TrackType /\ Once(s, issued) /\ Tries(s, sends, issued)
    BY DEF CoreInv, TypeInv
  <1>3. /\ c \notin issued /\ issued' = issued \cup {c}
        /\ issued \in SUBSET Calls /\ sends \in [Calls -> Nat]
        /\ linkUp' = linkUp /\ toGcs' = toGcs
    BY <1>1 DEF CallMade, CoreInv, TypeInv
  <1>4. ASSUME Once(t, issued'), Tries(t, sends', issued'),
               toVehicle' \in Seq(Calls), Len(toVehicle') <= MaxInFlight, sends' \in [Calls -> Nat]
        PROVE  CoreInv'
    <2>1. TypeInv'
      BY <1>1, <1>3, <1>4 DEF CoreInv, TypeInv
    <2> QED  BY <1>4, <2>1 DEF CoreInv
  <1> HIDE DEF s, t
  <1>5. CASE /\ \E failure \in {"CommandResult", "Duplicate"} : RefusedTo(s, t, c, failure)
             /\ toVehicle' = toVehicle /\ sends' = sends
    <2>1. PICK failure \in {"CommandResult", "Duplicate"} : RefusedTo(s, t, c, failure)
      BY <1>5
    <2>2. failure \in Failure /\ t \in TrackType
      BY <1>1 DEF Failure
    <2>3. Once(t, issued \cup {c})
      BY <1>2, <1>3, <2>1, <2>2, RefusedOnce
    <2>4. Tries(t, sends, issued \cup {c})
      BY <1>2, <1>3, <2>1, <2>2, RefusedTries
    <2> QED  BY <1>3, <1>4, <1>5, <2>3, <2>4 DEF CoreInv, TypeInv
  <1>6. ASSUME NEW u, u = PreparedFor(s, c)
        PROVE  /\ u \in TrackType
               /\ Once(u, issued \cup {c}) /\ ~Listed(u, c)
               /\ Tries(u, sends, issued \cup {c})
               /\ u.results[c] = <<>> /\ ~u.requests[c].acked
    <2>1. /\ u \in TrackType
          /\ u.commands = s.commands
          /\ u.requests = s.requests /\ u.results = s.results
      BY <1>2, <1>6, PreparedShape
    <2>2. Once(u, issued \cup {c}) /\ ~Listed(u, c)
      BY <1>2, <1>3, <1>6, PreparedOnce
    <2>3. Tries(u, sends, issued \cup {c})
      BY <1>2, <2>1, SameTries
    <2>4. s.results[c] = <<>> /\ ~s.requests[c].acked
      BY <1>2, <1>3 DEF Once
    <2> QED  BY <2>1, <2>2, <2>3, <2>4
  <1>7. CASE ~linkUp /\ t = PreparedFor(s, c) /\ toVehicle' = toVehicle /\ sends' = sends
    BY <1>3, <1>4, <1>6, <1>7 DEF CoreInv, TypeInv
  <1>8. CASE ~Refused(c) /\ linkUp /\ t = Added(PreparedFor(s, c), c) /\ Transmit(<<c>>)
    <2> DEFINE u == PreparedFor(s, c)
               is == issued \cup {c}
    <2>1. /\ u \in TrackType
          /\ Once(u, is) /\ ~Listed(u, c)
          /\ Tries(u, sends, is)
          /\ u.results[c] = <<>> /\ ~u.requests[c].acked
      BY <1>6
    <2>2. <<c>> \in Seq(Calls) /\ TypeInv
      BY DEF CoreInv
    <2>3. /\ toVehicle' \in Seq(Calls) /\ Len(toVehicle') <= MaxInFlight
          /\ sends' \in [Calls -> Nat] /\ sends' = TriesSoFar(<<c>>, sends)
      BY <1>8, <2>2, TransmitFacts
    <2>4. sends[c] = 0
      BY <1>2, <1>3 DEF Tries
    <2>5. sends'[c] = 1 /\ \A d \in Calls : d # c => sends'[d] = sends[d]
      BY <1>3, <2>3, <2>4 DEF TriesSoFar, Contains
    <2>6. is \in SUBSET Calls /\ c \in is /\ c \in Calls /\ is \cup {c} = is
      BY <1>3
    <2>7. t = Added(u, c)
      BY <1>8
    <2> HIDE DEF u, is
    <2>8. AddedTo(u, t, c)
      BY <2>1, <2>7, AddedShape
    <2>9. Once(t, is)
      BY <2>1, <2>6, <2>7, AddedOnce
    <2>10. Tries(t, sends', is \cup {c})
      <3> DEFINE after == sends'
      <3>1. after \in [Calls -> Nat] /\ after[c] = 1 /\ \A d \in Calls : d # c => after[d] = sends[d]
        BY <2>3, <2>5
      <3> HIDE DEF after
      <3>2. Tries(t, after, is \cup {c})
        BY <1>1, <1>3, <2>1, <2>4, <2>6, <2>8, <3>1, AddedTries
      <3> QED  BY <3>2 DEF after
    <2> QED  BY <1>3, <1>4, <2>3, <2>6, <2>9, <2>10 DEF is
  <1>9. \/ /\ \E failure \in {"CommandResult", "Duplicate"} : RefusedTo(s, t, c, failure)
           /\ toVehicle' = toVehicle /\ sends' = sends
        \/ ~linkUp /\ t = PreparedFor(s, c) /\ toVehicle' = toVehicle /\ sends' = sends
        \/ ~Refused(c) /\ linkUp /\ t = Added(PreparedFor(s, c), c) /\ Transmit(<<c>>)
    BY <1>1 DEF CallMade, s, t
  <1> QED  BY <1>5, <1>6, <1>7, <1>8, <1>9

LEMMA InboundArrives ==
    ASSUME NEW m \in InboundType
    PROVE  Arrives(m) /\ (m.kind = "MESSAGE" => m.message \in Messages) /\ m.component \in Components
  BY DEF InboundType, AckType, MessageType, Arrives, HandedOver

LEMMA UnaskedArrives ==
    ASSUME NEW m \in {Telemetry} \cup Unsolicited
    PROVE  Arrives(m) /\ m.kind = "MESSAGE"
  <1>1. m.kind = "MESSAGE"
    BY CommandsAssumption DEF Telemetry
  <1> QED  BY <1>1 DEF Arrives, HandedOver

LEMMA ReceivedKeepsCore ==
    ASSUME CoreInv, NEW m, Arrives(m), Received(m)
    PROVE  Tracked' \in TrackType /\ Once(Tracked', issued) /\ Tries(Tracked', sends, issued)
  <1> DEFINE s == Tracked
             t == Tracked'
  <1>1. s \in TrackType /\ Once(s, issued) /\ Tries(s, sends, issued) /\ issued \in SUBSET Calls
    BY DEF CoreInv, TypeInv
  <1>2. t \in TrackType
    BY ReceivedCases DEF CoreInv
  <1>3. PICK u : MessageTaken(m, u)
    BY ReceivedCases DEF CoreInv
  <1>4. /\ u \in TrackType /\ u.commands = s.commands
        /\ WaitHandled(s, u, m)
        /\ \/ t = u
           \/ /\ m.kind = "ACK"
              /\ \E i \in 1 .. Len(u.commands) :
                    t = Ended(u, i, m.result, "CommandResult", m.answers)
    BY <1>3 DEF MessageTaken
  <1> HIDE DEF s, t
  <1>5. Once(u, issued)
    BY <1>1, <1>4, WaitCheckedOnce
  <1>6. Tries(u, sends, issued)
    BY <1>1, <1>4, WaitCheckedTries
  <1>7. CASE t = u
    BY <1>2, <1>5, <1>6, <1>7 DEF t
  <1>8. CASE /\ m.kind = "ACK"
             /\ \E i \in 1 .. Len(u.commands) :
                   t = Ended(u, i, m.result, "CommandResult", m.answers)
    <2> DEFINE failure == "CommandResult"
    <2>1. PICK i \in 1 .. Len(u.commands) : t = Ended(u, i, m.result, failure, m.answers)
      BY <1>8
    <2>2. m.answers \in Calls /\ m.result \in Result
      BY <1>8 DEF Arrives
    <2>3. failure \in Failure /\ failure # "NoResponse"
      BY DEF Failure
    <2> HIDE DEF failure
    <2>4. u \in TrackType
      BY <1>4
    <2>5. Once(t, issued)
      BY <1>1, <1>5, <2>1, <2>2, <2>3, <2>4, EndedOnce
    <2>6. Tries(t, sends, issued)
      BY <1>1, <1>5, <1>6, <2>1, <2>2, <2>3, <2>4, EndedTries
    <2> QED  BY <1>2, <2>5, <2>6 DEF t
  <1> QED  BY <1>4, <1>7, <1>8

LEMMA CheckCases ==
    ASSUME CoreInv, ResponseTimeoutCheck
    PROVE  LET s == AllAged(Tracked)
               t == Walked(s)
           IN  /\ s \in TrackType /\ SameCalls(Tracked, s)
               /\ s.sent = <<>> /\ Once(s, issued) /\ Tries(s, sends, issued)
               /\ WalkInv(t, 0, issued, sends)
               /\ Tracked' = Unsent(t) /\ Transmit(t.sent)
  <1> DEFINE r == Tracked
             s == AllAged(r)
             t == Walked(s)
  <1>1. r \in TrackType /\ r.sent = <<>> /\ issued \in SUBSET Calls /\ sends \in [Calls -> Nat]
    BY DEF CoreInv, TypeInv, Tracked
  <1>2. Once(r, issued) /\ Tries(r, sends, issued)
    BY DEF CoreInv
  <1>3. Becomes(t) /\ Transmit(t.sent)
    BY DEF ResponseTimeoutCheck
  <1> HIDE DEF r
  <1>4. /\ s \in TrackType
        /\ s.waitFor = r.waitFor /\ s.waitTimer.active = r.waitTimer.active /\ s.sent = r.sent
        /\ s.requests = r.requests /\ s.results = r.results
        /\ Len(s.commands) = Len(r.commands)
        /\ \A i \in 1 .. Len(r.commands) :
              /\ s.commands[i].call = r.commands[i].call
              /\ s.commands[i].tryCount = r.commands[i].tryCount
    BY <1>1, AllAgedShape
  <1> HIDE DEF s
  <1>5. SameCalls(r, s)
    BY <1>4 DEF SameCalls
  <1>6. Once(s, issued)
    BY <1>1, <1>2, <1>4, <1>5, SameCallsOnce
  <1>7. Tries(s, sends, issued)
    BY <1>2, <1>4, SameTries
  <1>8. s.sent = <<>>
    BY <1>1, <1>4
  <1>9. WalkInv(t, 0, issued, sends)
    BY <1>1, <1>4, <1>6, <1>7, <1>8, WalkedInv
  <1>10. Tracked' = Unsent(t)
    <2>1. t \in TrackType
      BY <1>9 DEF WalkInv
    <2> HIDE DEF t
    <2> QED  BY <1>3, <2>1, BecomesUnsent
  <1> QED  BY <1>3, <1>4, <1>5, <1>6, <1>7, <1>8, <1>9, <1>10 DEF s, r

LEMMA CheckKeepsCore ==
    ASSUME CoreInv, ResponseTimeoutCheck
    PROVE  CoreInv'
  <1> DEFINE u == Walked(AllAged(Tracked))
             list == u.sent
             t == Tracked'
             n == TriesSoFar(list, sends)
  <1>1. WalkInv(u, 0, issued, sends) /\ t = Unsent(u) /\ Transmit(list)
    BY CheckCases
  <1>2. u \in TrackType /\ Once(u, issued) /\ Tries(u, n, issued)
    BY <1>1 DEF WalkInv
  <1>3. issued \in SUBSET Calls /\ sends \in [Calls -> Nat] /\ (LinkMayGo \/ linkUp) /\ TypeInv
    BY DEF CoreInv, TypeInv
  <1>4. /\ toVehicle' \in Seq(Calls) /\ Len(toVehicle') <= MaxInFlight
        /\ sends' \in [Calls -> Nat] /\ sends' = IF linkUp THEN n ELSE sends
    <2>1. list \in Seq(Calls)
      BY <1>2 DEF TrackType
    <2> HIDE DEF list, u
    <2> QED  BY <1>1, <1>3, <2>1, TransmitFacts
  <1>5. n \in [Calls -> Nat] /\ \A c \in Calls : sends[c] <= n[c]
    <2> HIDE DEF list
    <2> QED  BY <1>3 DEF TriesSoFar
  <1> HIDE DEF u, n, t
  <1>6. t \in TrackType /\ SameCalls(u, t) /\ t.commands = u.commands /\ t.results = u.results
    BY <1>1, <1>2, UnsentShape
  <1>7. Once(t, issued)
    BY <1>2, <1>3, <1>6, SameCallsOnce
  <1>8. Tries(t, n, issued)
    BY <1>2, <1>6, SameTries
  <1>9. Tries(t, sends', issued)
    <2>1. CASE linkUp
      <3>1. sends' = n
        BY <1>4, <2>1
      <3> QED  BY <1>8, <3>1
    <2>2. CASE ~linkUp
      <3>1. LinkMayGo /\ sends' = sends
        BY <1>3, <1>4, <2>2
      <3>2. Tries(t, sends, issued)
        BY <1>3, <1>5, <1>6, <1>8, <3>1, FewerTries
      <3> QED  BY <3>1, <3>2
    <2> QED  BY <2>1, <2>2
  <1>10. issued' = issued /\ linkUp' = linkUp /\ toGcs' = toGcs
    BY DEF ResponseTimeoutCheck
  <1>11. TypeInv'
    <2>1. Tracked' \in TrackType
      BY <1>6 DEF t
    <2> QED  BY <1>4, <1>10, <2>1 DEF CoreInv, TypeInv
  <1> QED  BY <1>7, <1>9, <1>10, <1>11 DEF CoreInv, t

LEMMA UnwatchedKeepsCore ==
    ASSUME CoreInv, Tracked' = Tracked, issued' = issued, sends' = sends, TypeInv'
    PROVE  CoreInv'
  BY DEF CoreInv

LEMMA AnswersType ==
    ASSUME NEW c \in Calls, NEW a \in Answers(c)
    PROVE  a \in Seq(InboundType)
  <1> DEFINE accepted == Ack(c, "ACCEPTED")
             failed == Ack(c, "FAILED")
             progress == Ack(c, "IN_PROGRESS")
             message == Message(c)
  <1>1. {accepted, failed, progress, message} \subseteq InboundType
    BY DEF Ack, Message, InboundType, AckType, MessageType, Components, Messages, Result
  <1>2. a \in {<<>>, <<message, accepted>>, <<accepted, message>>, <<accepted>>, <<failed>>,
               <<progress, accepted>>}
    BY DEF Answers
  <1> HIDE DEF accepted, failed, progress, message
  <1>3. \A x, y \in InboundType : <<x>> \in Seq(InboundType) /\ <<x, y>> \in Seq(InboundType)
    OBVIOUS
  <1>4. <<>> \in Seq(InboundType)
    OBVIOUS
  <1> QED  BY <1>1, <1>2, <1>3, <1>4

LEMMA StepKeepsCore ==
    ASSUME CoreInv, [Next]_vars
    PROVE  CoreInv'
  <1>0. TypeInv
    BY DEF CoreInv
  <1>1. ASSUME NEW c \in Calls, Call(c) PROVE CoreInv'
    BY <1>1, CallKeepsCore
  <1>2. CASE ResponseTimeoutCheck
    BY <1>2, CheckKeepsCore
  <1>3. ASSUME NEW m, Arrives(m), Received(m), issued' = issued, sends' = sends, linkUp' = linkUp,
               toVehicle' = toVehicle, toGcs' \in Seq(InboundType), Len(toGcs') <= MaxInFlight
        PROVE  CoreInv'
    <2>1. Tracked' \in TrackType /\ Once(Tracked', issued) /\ Tries(Tracked', sends, issued)
      BY <1>3, ReceivedKeepsCore
    <2>2. TypeInv'
      BY <1>0, <1>3, <2>1 DEF TypeInv
    <2> QED  BY <1>3, <2>1, <2>2 DEF CoreInv
  <1>4. CASE Receive
    <2> DEFINE m == Head(toGcs)
    <2>1. /\ toGcs # <<>> /\ Received(m) /\ toGcs' = Tail(toGcs)
          /\ issued' = issued /\ sends' = sends /\ linkUp' = linkUp /\ toVehicle' = toVehicle
      BY <1>4 DEF Receive
    <2>2. toGcs \in Seq(InboundType) /\ Len(toGcs) <= MaxInFlight /\ MaxInFlight \in Nat
      BY <1>0, CommandsAssumption DEF TypeInv
    <2>3. m \in InboundType /\ Tail(toGcs) \in Seq(InboundType) /\ Len(Tail(toGcs)) <= MaxInFlight
      <3>1. /\ m \in InboundType /\ Tail(toGcs) \in Seq(InboundType)
            /\ Len(Tail(toGcs)) = Len(toGcs) - 1
        BY <2>1, <2>2, TailFacts
      <3>2. Len(toGcs) \in Nat
        BY <2>2
      <3> QED  BY <2>2, <3>1, <3>2
    <2> HIDE DEF m
    <2>4. Arrives(m)
      BY <2>3, InboundArrives
    <2> QED  BY <1>3, <2>1, <2>3, <2>4
  <1>5. CASE ReceiveUnasked
    <2>1. PICK m \in {Telemetry} \cup Unsolicited : Received(m)
      BY <1>5 DEF ReceiveUnasked
    <2>2. Arrives(m)
      BY UnaskedArrives
    <2>3. /\ issued' = issued /\ sends' = sends /\ linkUp' = linkUp
          /\ toVehicle' = toVehicle /\ toGcs' = toGcs
      BY <1>5 DEF ReceiveUnasked
    <2> QED  BY <1>0, <1>3, <2>1, <2>2, <2>3 DEF TypeInv
  <1>6. ASSUME UNCHANGED <<trackVars, issued, sends>>,
               linkUp' \in BOOLEAN, LinkMayGo \/ linkUp',
               toVehicle' \in Seq(Calls), Len(toVehicle') <= MaxInFlight,
               toGcs' \in Seq(InboundType), Len(toGcs') <= MaxInFlight
        PROVE  CoreInv'
    <2>1. Tracked' = Tracked
      BY <1>6 DEF Tracked, trackVars
    <2>2. TypeInv'
      BY <1>0, <1>6, <2>1 DEF TypeInv
    <2> QED  BY <1>6, <2>1, <2>2, UnwatchedKeepsCore
  <1>7. CASE VehicleAnswers
    <2>1. PICK a \in Answers(Head(toVehicle)) : toGcs' = Delivered(toGcs, a)
      BY <1>7 DEF VehicleAnswers
    <2>2. /\ toVehicle # <<>> /\ toVehicle' = Tail(toVehicle)
          /\ UNCHANGED <<trackVars, issued, sends>> /\ linkUp' = linkUp
      BY <1>7 DEF VehicleAnswers
    <2>3. /\ toVehicle \in Seq(Calls) /\ Len(toVehicle) <= MaxInFlight
          /\ toGcs \in Seq(InboundType) /\ Len(toGcs) <= MaxInFlight
          /\ linkUp \in BOOLEAN /\ (LinkMayGo \/ linkUp) /\ MaxInFlight \in Nat
      BY <1>0, CommandsAssumption DEF TypeInv
    <2>4. /\ Head(toVehicle) \in Calls /\ Tail(toVehicle) \in Seq(Calls)
          /\ Len(Tail(toVehicle)) = Len(toVehicle) - 1 /\ Len(toVehicle) \in Nat
      BY <2>2, <2>3, TailFacts
    <2>5. a \in Seq(InboundType)
      BY <2>1, <2>4, AnswersType
    <2>6. toGcs' \in Seq(InboundType) /\ Len(toGcs') <= MaxInFlight
      BY <2>1, <2>3, <2>5, DeliveredFacts
    <2>7. Len(toVehicle') <= MaxInFlight
      BY <2>2, <2>3, <2>4
    <2> QED  BY <1>6, <2>2, <2>3, <2>4, <2>6, <2>7
  <1>8. CASE LoseMessage
    <2>1. /\ toVehicle \in Seq(Calls) /\ Len(toVehicle) <= MaxInFlight
          /\ toGcs \in Seq(InboundType) /\ Len(toGcs) <= MaxInFlight
          /\ linkUp \in BOOLEAN /\ (LinkMayGo \/ linkUp) /\ MaxInFlight \in Nat
      BY <1>0, CommandsAssumption DEF TypeInv
    <2>2. /\ UNCHANGED <<trackVars, issued, sends>> /\ linkUp' = linkUp
          /\ \/ toVehicle # <<>> /\ toVehicle' = Tail(toVehicle) /\ toGcs' = toGcs
             \/ toGcs # <<>> /\ toGcs' = Tail(toGcs) /\ toVehicle' = toVehicle
      BY <1>8 DEF LoseMessage
    <2>3. toVehicle # <<>> => Tail(toVehicle) \in Seq(Calls) /\ Len(Tail(toVehicle)) <= MaxInFlight
      BY <2>1, TailFacts
    <2>4. toGcs # <<>> => Tail(toGcs) \in Seq(InboundType) /\ Len(Tail(toGcs)) <= MaxInFlight
      BY <2>1, TailFacts
    <2> QED  BY <1>6, <2>1, <2>2, <2>3, <2>4
  <1>9. CASE LinkGoes
    <2>1. /\ UNCHANGED <<trackVars, issued, sends>> /\ linkUp' = ~linkUp /\ LinkMayGo
          /\ toVehicle' = <<>> /\ toGcs' = <<>>
      BY <1>9 DEF LinkGoes
    <2>2. <<>> \in Seq(Calls) /\ <<>> \in Seq(InboundType) /\ Len(<<>>) <= MaxInFlight
      BY CommandsAssumption
    <2>3. linkUp' \in BOOLEAN
      BY <2>1
    <2> QED  BY <1>6, <2>1, <2>2, <2>3
  <1>10. CASE UNCHANGED vars
    <2>1. UNCHANGED <<trackVars, issued, sends>> /\ UNCHANGED <<toVehicle, toGcs, linkUp>>
      BY <1>10 DEF vars, linkVars
    <2> QED  BY <1>0, <1>6, <2>1 DEF TypeInv
  <1> QED  BY <1>1, <1>2, <1>4, <1>5, <1>7, <1>8, <1>9, <1>10 DEF Next

(* The invariant every theorem below rests on.                                *)
THEOREM CoreInvariant == Spec => []CoreInv
  BY InitIsCore, StepKeepsCore, PTL DEF Spec

LEMMA CoreMeansType ==
    ASSUME CoreInv
    PROVE  TypeOK
  <1> DEFINE s == Tracked
  <1>1. /\ s.commands = commands /\ s.waitFor = waitFor /\ s.waitTimer = waitTimer
        /\ s.results = results
    BY DEF Tracked
  <1>2. s \in TrackType /\ Once(s, issued) /\ Tries(s, sends, issued) /\ TypeInv
    BY DEF CoreInv, TypeInv
  <1> HIDE DEF s
  <1>3. commands \in Seq(EntryType)
    BY <1>1, <1>2 DEF TrackType
  <1>4. ASSUME NEW i \in DOMAIN commands
        PROVE  /\ commands[i].call \in issued
               /\ commands[i].tryCount \in 1 .. MaxTries(commands[i].call)
               /\ commands[i].elapsed \in 0 .. (AckTimeout + 1)
    <2>1. i \in 1 .. Len(commands) /\ commands[i] \in EntryType
      BY <1>3
    <2>2. EntryTries(commands[i], sends) /\ commands[i].call \in issued
      BY <1>1, <1>2, <2>1 DEF Tries, Once
    <2>3. commands[i].tryCount \in Nat \ {0} /\ commands[i].elapsed \in 0 .. (AckTimeout + 1)
      BY <2>1 DEF EntryType
    <2> QED  BY <2>2, <2>3, MaxTriesType DEF EntryTries
  <1>5. \A c \in Calls : sends[c] \in 0 .. MaxTries(c)
    <2>1. \A c \in Calls : sends[c] \in Nat /\ sends[c] <= MaxTries(c)
      BY <1>2 DEF TypeInv, Tries
    <2> QED  BY <2>1, MaxTriesType
  <1>6. waitFor \in issued \cup {NoCall} /\ waitTimer \in WaitTimerType
    BY <1>1, <1>2 DEF Once, TrackType
  <1>7. \A c \in Calls : results[c] \in Seq(Outcome)
    BY <1>1, <1>2 DEF TrackType
  <1> QED  BY <1>2, <1>4, <1>5, <1>6, <1>7 DEF TypeOK, TypeInv, WaitTimerType

(* Every variable has its type.                                               *)
THEOREM TypeCorrect == Spec => []TypeOK
  BY CoreInvariant, CoreMeansType, PTL

(* Whoever calls and whatever the link does, a call is reported once at most. *)
THEOREM OneResultAtMost == Spec => []AtMostOneResult
  <1>1. CoreInv => AtMostOneResult
    <2> DEFINE s == Tracked
    <2>1. s.results = results
      BY DEF Tracked
    <2> HIDE DEF s
    <2>2. Once(s, issued) => \A c \in Calls : Len(s.results[c]) <= 1
      BY DEF Once
    <2> QED  BY <2>1, <2>2 DEF CoreInv, AtMostOneResult, s
  <1> QED  BY <1>1, CoreInvariant, PTL

(* A call that was reported is in neither the list nor the wait slot: the     *)
(* code, which has freed its data, does not reach it any more.                *)
THEOREM ReportEndsCall == Spec => []NothingPendingAfterResult
  <1>1. CoreInv => NothingPendingAfterResult
    <2> DEFINE s == Tracked
    <2>1. s.results = results /\ s.commands = commands /\ s.waitFor = waitFor
      BY DEF Tracked
    <2>2. CoreInv => Once(s, issued) /\ commands \in Seq(EntryType)
      BY DEF CoreInv, TypeInv, TrackType, Tracked
    <2> HIDE DEF s
    <2>3. Once(s, issued) => \A c \in Calls : (Listed(s, c) => s.results[c] = <<>>)
                                              /\ (s.waitFor = c => s.results[c] = <<>>)
      BY DEF Once
    <2>4. commands \in Seq(EntryType) => \A c \in Calls : Tracks(c) => Listed(s, c)
      BY <2>1 DEF Tracks, Listed
    <2> QED  BY <2>1, <2>2, <2>3, <2>4 DEF NothingPendingAfterResult, Answered
  <1> QED  BY <1>1, CoreInvariant, PTL

-----------------------------------------------------------------------------
(* Callers that wait for one another's results, over a link that stays.       *)

Asked(message, c) == message # NoReply => message[2] = Target[c].message

TellsTruth(q, c) ==
    IsRequest(c) =>
        \A j \in DOMAIN q : q[j].failure = "NoFailure" => q[j].message[2] = Target[c].message

(* One call at most is unanswered; a timer watches it; if it is a request     *)
(* whose message has not come, the wait slot is its.  The slot's timer runs   *)
(* only for an acked request, and no other message than the one asked for is  *)
(* kept or told.                                                              *)
Sound(s, is) ==
    /\ \A c, d \in is : s.results[c] = <<>> /\ s.results[d] = <<>> => c = d
    /\ \A c \in is : s.results[c] = <<>> =>
          \/ Listed(s, c)
          \/ s.waitFor = c /\ s.waitTimer.active /\ s.requests[c].acked
    /\ \A c \in is :
          (s.results[c] = <<>> /\ IsRequest(c) /\ s.requests[c].message = NoReply) => s.waitFor = c
    /\ s.waitTimer.active => s.waitFor # NoCall /\ s.requests[s.waitFor].acked
    /\ \A c \in Calls : Asked(s.requests[c].message, c) /\ TellsTruth(s.results[c], c)

LEMMA FirstTells ==
    ASSUME NEW o, NEW q, q = Append(<<>>, o), NEW c,
           o.failure = "NoFailure" => o.message[2] = Target[c].message
    PROVE  TellsTruth(q, c) /\ q # <<>>
  BY FirstResult DEF TellsTruth

LEMMA SameCallsSound ==
    ASSUME NEW s, NEW t, SameCalls(s, t), NEW is, Sound(s, is)
    PROVE  Sound(t, is)
  <1>1. \A d : Listed(t, d) = Listed(s, d)
    BY SameCallsListed
  <1> QED  BY <1>1 DEF Sound, SameCalls

(* All calls but c are answered: what is left to say is about c.              *)
LEMMA AllAnsweredSound ==
    ASSUME NEW s, NEW is, NEW t, Sound(s, is),
           NEW more, is \subseteq more, NEW c \in Calls, more \subseteq Calls,
           \A d \in more : d # c => t.results[d] # <<>>,
           \A d \in Calls : d # c => t.results[d] = s.results[d] /\ t.requests[d] = s.requests[d],
           (c \in more /\ t.results[c] = <<>>) =>
              \/ Listed(t, c)
              \/ t.waitFor = c /\ t.waitTimer.active /\ t.requests[c].acked,
           (c \in more /\ t.results[c] = <<>> /\ IsRequest(c) /\ t.requests[c].message = NoReply)
              => t.waitFor = c,
           t.waitTimer.active => t.waitFor # NoCall /\ t.requests[t.waitFor].acked,
           Asked(t.requests[c].message, c), TellsTruth(t.results[c], c)
    PROVE  Sound(t, more)
  BY DEF Sound

LEMMA RefusedSound ==
    ASSUME NEW s \in TrackType, NEW is \in SUBSET Calls, Once(s, is), NEW c \in Calls \ is,
           Sound(s, is), \A d \in is : s.results[d] # <<>>,
           NEW failure \in {"CommandResult", "Duplicate"},
           NEW t \in TrackType, RefusedTo(s, t, c, failure)
    PROVE  Sound(t, is \cup {c})
  <1>1. s.results[c] = <<>> /\ Asked(s.requests[c].message, c)
    BY DEF Once, Sound
  <1>2. s.waitFor = NoCall
    BY DEF Once
  <1>3. /\ t.requests[c].message = s.requests[c].message
        /\ \A d \in Calls : d # c => t.results[d] = s.results[d] /\ t.requests[d] = s.requests[d]
        /\ ~t.waitTimer.active
    BY <1>2 DEF RefusedTo, Sound
  <1>4. PICK o : t.results[c] = Append(<<>>, o) /\ o.failure # "NoFailure"
    BY <1>1 DEF RefusedTo, Out
  <1>5. TellsTruth(t.results[c], c) /\ t.results[c] # <<>>
    BY <1>4, FirstTells
  <1>6. /\ \A d \in is \cup {c} : d # c => t.results[d] # <<>>
        /\ is \subseteq is \cup {c} /\ is \cup {c} \subseteq Calls /\ c \in Calls
        /\ Asked(t.requests[c].message, c)
    BY <1>1, <1>3
  <1> QED  BY <1>3, <1>5, <1>6, AllAnsweredSound

LEMMA AddedSound ==
    ASSUME NEW s \in TrackType, NEW is \in SUBSET Calls, Once(s, is), NEW c \in Calls \ is,
           Sound(s, is), \A d \in is : s.results[d] # <<>>,
           NEW u, u = PreparedFor(s, c), NEW t \in TrackType, AddedTo(u, t, c)
    PROVE  Sound(t, is \cup {c})
  <1>1. s.results[c] = <<>> /\ Asked(s.requests[c].message, c) /\ TellsTruth(s.results[c], c)
    BY DEF Once, Sound
  <1>2. s.waitFor = NoCall /\ ~s.waitTimer.active
    BY DEF Once, Sound
  <1>3. /\ u.commands = s.commands
        /\ u.requests = s.requests /\ u.results = s.results
        /\ IF IsRequest(c) THEN u.waitFor = c /\ ~u.waitTimer.active
           ELSE u.waitFor = s.waitFor /\ u.waitTimer = s.waitTimer
    BY PreparedShape
  <1>4. /\ t.requests = s.requests /\ t.results = s.results
        /\ ~t.waitTimer.active /\ Listed(t, c)
        /\ IsRequest(c) => t.waitFor = c
    BY <1>2, <1>3 DEF AddedTo
  <1> QED  BY <1>1, <1>4, AllAnsweredSound

LEMMA EndedSound ==
    ASSUME NEW s \in TrackType, NEW is \in SUBSET Calls, Once(s, is), Sound(s, is),
           NEW i \in 1 .. Len(s.commands),
           NEW result \in Result, NEW failure \in Failure, NEW answers \in Calls,
           failure # "NoFailure",
           NEW t, t = Ended(s, i, result, failure, answers)
    PROVE  Sound(t, is)
  <1> DEFINE c == s.commands[i].call
  <1>1. c \in Calls /\ t \in TrackType /\ Handled(s, t, c, result, failure, answers)
    BY EndedShape
  <1>2. Listed(s, c) /\ c \in is
    BY DEF Once, Listed
  <1> HIDE DEF c
  <1>3. s.results[c] = <<>>
    BY <1>1, <1>2 DEF Once
  <1>4. /\ \A d \in is : d # c => s.results[d] # <<>>
        /\ Asked(s.requests[c].message, c) /\ TellsTruth(s.results[c], c)
        /\ (IsRequest(c) /\ s.requests[c].message = NoReply) => s.waitFor = c
        /\ s.waitTimer.active => s.waitFor # NoCall /\ s.requests[s.waitFor].acked
    BY <1>1, <1>2, <1>3 DEF Sound
  <1>5. s.waitFor = NoCall \/ (s.waitFor = c /\ IsRequest(c))
    BY <1>4 DEF Once
  <1>6. /\ \A d \in Calls : d # c => t.results[d] = s.results[d] /\ t.requests[d] = s.requests[d]
        /\ t.requests[c].message = s.requests[c].message
        /\ IsRequest(c) => t.requests[c].acked
    BY <1>1 DEF Handled
  <1>7. t.waitTimer.active => t.waitFor # NoCall /\ t.requests[t.waitFor].acked
    BY <1>1, <1>4, <1>5, <1>6, CommandsAssumption DEF Handled
  <1>8. t.results[c] = <<>> => t.waitFor = c /\ t.waitTimer.active /\ t.requests[c].acked
    <2>1. CASE IsRequest(c) /\ result = "ACCEPTED" /\ s.requests[c].message = NoReply
      BY <1>1, <1>4, <2>1 DEF Handled
    <2>2. CASE ~(IsRequest(c) /\ result = "ACCEPTED" /\ s.requests[c].message = NoReply)
      <3>1. \E o : t.results[c] = Append(<<>>, o)
        BY <1>1, <1>3, <2>2 DEF Handled
      <3> QED  BY <3>1, FirstResult
    <2> QED  BY <2>1, <2>2
  <1>9. TellsTruth(t.results[c], c)
    <2>1. CASE t.results[c] = s.results[c]
      BY <1>4, <2>1
    <2>2. CASE t.results[c] = Append(s.results[c], Out(failure, result, NoReply, answers))
      <3>1. Out(failure, result, NoReply, answers).failure = failure
        BY DEF Out
      <3> QED  BY <1>3, <2>2, <3>1, FirstTells
    <2>3. CASE /\ t.results[c] = Append(s.results[c],
                     Out("NoFailure", result, s.requests[c].message, answers))
               /\ s.requests[c].message # NoReply
      <3> DEFINE o == Out("NoFailure", result, s.requests[c].message, answers)
      <3>1. o.message = s.requests[c].message
        BY DEF Out
      <3>2. t.results[c] = Append(<<>>, o)
        BY <1>3, <2>3
      <3> HIDE DEF o
      <3>3. o.message[2] = Target[c].message
        BY <1>4, <2>3, <3>1 DEF Asked
      <3> QED  BY <3>2, <3>3, FirstTells
    <2> QED  BY <1>1, <2>1, <2>2, <2>3 DEF Handled
  <1> QED
    <2>1. \A d \in is : d # c => t.results[d] # <<>>
      BY <1>4, <1>6
    <2>2. is \subseteq is /\ is \subseteq Calls /\ Asked(t.requests[c].message, c)
      BY <1>4, <1>6
    <2> QED  BY <1>1, <1>6, <1>7, <1>8, <1>9, <2>1, <2>2, AllAnsweredSound

LEMMA WaitCheckedSound ==
    ASSUME NEW s \in TrackType, NEW is \in SUBSET Calls, Once(s, is), Sound(s, is),
           NEW t, t.commands = s.commands, NEW m, WaitHandled(s, t, m)
    PROVE  Sound(t, is)
  <1>1. CASE t = s
    BY <1>1
  <1>2. CASE t # s
    <2> DEFINE c == s.waitFor
               message == <<m.component, m.message>>
               received == Out("NoFailure", "ACCEPTED", message, c)
               missed == Out("MessageNotReceived", "FAILED", message, c)
    <2>1. /\ c \in Calls /\ t.waitFor = NoCall /\ ~t.waitTimer.active
          /\ m.message = Target[c].message \/ s.waitTimer.active
          /\ \A d \in Calls : d # c =>
                t.results[d] = s.results[d] /\ t.requests[d] = s.requests[d]
          /\ \/ /\ s.requests[c].acked /\ t.requests[c] = s.requests[c]
                /\ \/ /\ m.message = Target[c].message
                      /\ t.results[c] = Append(s.results[c], received)
                   \/ t.results[c] = Append(s.results[c], missed)
             \/ /\ ~s.requests[c].acked
                /\ t.results[c] = s.results[c]
                /\ ~t.requests[c].acked /\ t.requests[c].message = message
      BY <1>2 DEF WaitHandled
    <2>2. received.failure = "NoFailure" /\ received.message = message
          /\ missed.failure # "NoFailure"
      BY DEF Out
    <2>3. message[2] = m.message /\ message # NoReply
      BY DEF NoReply
    <2>4. c \in is /\ s.results[c] = <<>> /\ Asked(s.requests[c].message, c)
      BY <2>1, CommandsAssumption DEF Once, Sound
    <2>5. \A d \in is : d # c => s.results[d] # <<>>
      BY <2>4 DEF Sound
    <2>6. /\ s.waitTimer.active => s.requests[c].acked
          /\ Listed(s, c) \/ s.requests[c].acked
      BY <2>4 DEF Sound
    <2>7. Listed(t, c) = Listed(s, c)
      BY DEF Listed
    <2> HIDE DEF c, received, missed, message
    <2>8. CASE s.requests[c].acked
      <3>1. PICK o \in {received, missed} :
               /\ t.results[c] = Append(<<>>, o)
               /\ o = received => m.message = Target[c].message
        BY <2>1, <2>2, <2>4, <2>8
      <3>2. o.failure = "NoFailure" => o.message[2] = Target[c].message
        BY <2>2, <2>3, <3>1
      <3>3. TellsTruth(t.results[c], c) /\ t.results[c] # <<>>
        BY <3>1, <3>2, FirstTells
      <3>4. /\ \A d \in is : d # c => t.results[d] # <<>>
            /\ Asked(t.requests[c].message, c) /\ is \subseteq is /\ is \subseteq Calls
        BY <2>1, <2>4, <2>5, <2>8
      <3>5. /\ \A d \in Calls : d # c =>
                  t.results[d] = s.results[d] /\ t.requests[d] = s.requests[d]
            /\ ~t.waitTimer.active /\ c \in Calls
        BY <2>1
      <3> QED  BY <3>3, <3>4, <3>5, AllAnsweredSound
    <2>9. CASE ~s.requests[c].acked
      <3>1. m.message = Target[c].message /\ Listed(t, c) /\ t.requests[c].message = message
            /\ t.results[c] = <<>>
        BY <2>1, <2>4, <2>6, <2>7, <2>9
      <3>2. /\ \A d \in is : d # c => t.results[d] # <<>>
            /\ is \subseteq is /\ is \subseteq Calls
        BY <2>1, <2>5
      <3>3. Asked(t.requests[c].message, c) /\ t.requests[c].message # NoReply
        BY <2>3, <3>1 DEF Asked
      <3>4. TellsTruth(t.results[c], c)
        BY <3>1 DEF TellsTruth
      <3>5. /\ \A d \in Calls : d # c =>
                  t.results[d] = s.results[d] /\ t.requests[d] = s.requests[d]
            /\ ~t.waitTimer.active /\ c \in Calls /\ Listed(t, c)
        BY <2>1, <3>1
      <3>6. /\ (c \in is /\ t.results[c] = <<>>) =>
                  \/ Listed(t, c)
                  \/ t.waitFor = c /\ t.waitTimer.active /\ t.requests[c].acked
            /\ (c \in is /\ t.results[c] = <<>> /\ IsRequest(c) /\ t.requests[c].message = NoReply)
                  => t.waitFor = c
            /\ t.waitTimer.active => t.waitFor # NoCall /\ t.requests[t.waitFor].acked
        BY <3>3, <3>5
      <3>7. Asked(t.requests[c].message, c)
        BY <3>3
      <3>8. /\ \A d \in Calls : d # c =>
                  t.results[d] = s.results[d] /\ t.requests[d] = s.requests[d]
            /\ c \in Calls
        BY <3>5
      <3>9. \A d \in Calls : Asked(t.requests[d].message, d) /\ TellsTruth(t.results[d], d)
        BY <3>4, <3>7, <3>8 DEF Sound
      <3>10. \A d \in is : t.results[d] = <<>> => d = c
        BY <3>2
      <3> QED  BY <3>6, <3>9, <3>10 DEF Sound
    <2> QED  BY <2>8, <2>9
  <1> QED  BY <1>1, <1>2

LEMMA SendFromListSound ==
    ASSUME NEW is \in SUBSET Calls, NEW s \in TrackType, Once(s, is), Sound(s, is),
           NEW k \in 1 .. Len(s.commands),
           NEW t, t = SendFromList(s, k)
    PROVE  Sound(t, is)
  <1>1. CASE t = s
    BY <1>1
  <1>2. CASE t = GivenUp(s, k)
    <2> DEFINE result == "FAILED"
               failure == "NoResponse"
               c == s.commands[k].call
    <2>1. result \in Result /\ failure \in Failure /\ failure # "NoFailure"
      BY DEF Result, Failure
    <2>2. t = Ended(s, k, result, failure, c)
      BY <1>2 DEF GivenUp
    <2>3. c \in Calls
      BY DEF Once
    <2> HIDE DEF result, failure, c
    <2> QED  BY <2>1, <2>2, <2>3, EndedSound
  <1>3. CASE SentAgain(s, t, k)
    <2>1. SameCalls(s, t)
      BY <1>3 DEF SentAgain, SameCalls
    <2> QED  BY <2>1, SameCallsSound
  <1> QED  BY <1>1, <1>2, <1>3, SendFromListShape

LEMMA WalkedSound ==
    ASSUME NEW is \in SUBSET Calls, NEW n \in [Calls -> Nat],
           NEW s \in TrackType, s.sent = <<>>, Once(s, is), Tries(s, n, is), Sound(s, is),
           NEW t, t = Walked(s)
    PROVE  Sound(t, is)
  <1> DEFINE count == Len(s.commands)
             G == [m \in Nat |-> {u \in TrackType : WalkInv(u, count - m, is, n) /\ Sound(u, is)}]
  <1>1. count \in Nat
    BY DEF TrackType
  <1>2. WalkInv(s, count, is, n)
    <2>1. TriesSoFar(s.sent, n) = n
      BY DEF TriesSoFar, Contains
    <2>2. Walking(s, count)
      BY <1>1 DEF Walking, SentOnce
    <2> QED  BY <2>1, <2>2 DEF WalkInv
  <1>3. s \in G[0]
    <2>1. count - 0 = count
      BY <1>1
    <2> QED  BY <1>2, <2>1
  <1>4. ASSUME NEW m \in 0 .. (count - 1), NEW u \in G[m]
        PROVE  SendFromList(u, count - m) \in G[m + 1]
    <2> DEFINE k == count - m
               v == SendFromList(u, k)
    <2>1. u \in TrackType /\ WalkInv(u, k, is, n) /\ Sound(u, is)
      BY <1>1
    <2>2. k \in 1 .. Len(u.commands) /\ k - 1 = count - (m + 1) /\ m + 1 \in Nat
      <3>1. k <= Len(u.commands)
        BY <2>1 DEF WalkInv, Walking
      <3>2. Len(u.commands) \in Nat
        BY <2>1 DEF TrackType
      <3> QED  BY <1>1, <3>1, <3>2
    <2> HIDE DEF k
    <2>3. v = SendFromList(u, k)
      OBVIOUS
    <2> HIDE DEF v
    <2>4. WalkInv(v, k - 1, is, n)
      BY <2>1, <2>2, <2>3, WalkStep
    <2>5. v \in TrackType
      BY <2>4 DEF WalkInv
    <2>6. Sound(v, is)
      <3>1. Once(u, is)
        BY <2>1 DEF WalkInv
      <3> QED  BY <2>1, <2>2, <2>3, <3>1, SendFromListSound
    <2>7. v \in G[m + 1]
      BY <2>2, <2>4, <2>5, <2>6
    <2> QED  BY <2>7 DEF v, k
  <1> HIDE DEF G
  <1>5. Walked(s) \in G[count]
    BY <1>3, <1>4, WalkedFacts
  <1> QED  BY <1>1, <1>5 DEF G

SoundInv == Sound(Tracked, issued)

LEMMA InitIsSound ==
    ASSUME Init
    PROVE  SoundInv
  BY DEF Init, SoundInv, Sound, Tracked, Asked, TellsTruth

LEMMA StepKeepsSound ==
    ASSUME Overlapping = FALSE, LinkMayGo = FALSE, CoreInv, SoundInv, [Next]_vars
    PROVE  SoundInv'
  <1> DEFINE s == Tracked
             t == Tracked'
  <1>1. /\ s \in TrackType /\ Once(s, issued) /\ Tries(s, sends, issued)
        /\ issued \in SUBSET Calls /\ sends \in [Calls -> Nat] /\ linkUp /\ TypeInv
    BY DEF CoreInv, TypeInv
  <1>2. Sound(s, issued) /\ s.results = results
    BY DEF SoundInv, Tracked
  <1>3. SUFFICES Sound(t, issued')
    BY DEF SoundInv
  <1>4. ASSUME NEW c \in Calls, Call(c) PROVE Sound(t, issued')
    <2>1. t \in TrackType /\ CallMade(c)
      BY <1>1, <1>4, CallCases
    <2>2. /\ c \in Calls \ issued /\ issued' = issued \cup {c}
          /\ \A d \in issued : s.results[d] # <<>>
      BY <1>2, <2>1 DEF CallMade
    <2>3. \/ \E failure \in {"CommandResult", "Duplicate"} : RefusedTo(s, t, c, failure)
          \/ t = Added(PreparedFor(s, c), c)
      BY <1>1, <2>1 DEF CallMade
    <2> HIDE DEF s, t
    <2>4. CASE \E failure \in {"CommandResult", "Duplicate"} : RefusedTo(s, t, c, failure)
      <3>1. PICK failure \in {"CommandResult", "Duplicate"} : RefusedTo(s, t, c, failure)
        BY <2>4
      <3>2. Sound(t, issued \cup {c})
        BY <1>1, <1>2, <2>1, <2>2, <3>1, RefusedSound
      <3> QED  BY <2>2, <3>2
    <2>5. CASE t = Added(PreparedFor(s, c), c)
      <3> DEFINE u == PreparedFor(s, c)
      <3>1. u \in TrackType
        BY <1>1, PreparedShape
      <3>2. u = PreparedFor(s, c) /\ t = Added(u, c)
        BY <2>5
      <3> HIDE DEF u
      <3>3. AddedTo(u, t, c)
        BY <3>1, <3>2, AddedShape
      <3>4. Sound(t, issued \cup {c})
        BY <1>1, <1>2, <2>1, <2>2, <3>2, <3>3, AddedSound
      <3> QED  BY <2>2, <3>4
    <2> QED  BY <2>3, <2>4, <2>5
  <1>5. CASE ResponseTimeoutCheck
    <2> DEFINE a == AllAged(Tracked)
               w == Walked(a)
    <2>1. /\ a \in TrackType /\ SameCalls(s, a) /\ a.sent = <<>>
          /\ Once(a, issued) /\ Tries(a, sends, issued)
          /\ WalkInv(w, 0, issued, sends) /\ t = Unsent(w)
      BY <1>5, CheckCases
    <2>2. issued' = issued
      BY <1>5 DEF ResponseTimeoutCheck
    <2> HIDE DEF s, t, a
    <2>3. Sound(a, issued)
      BY <1>2, <2>1, SameCallsSound
    <2>4. Sound(w, issued)
      BY <1>1, <2>1, <2>3, WalkedSound
    <2> HIDE DEF w
    <2>5. w \in TrackType
      BY <2>1 DEF WalkInv
    <2>6. SameCalls(w, t)
      BY <2>1, <2>5, UnsentShape
    <2>7. Sound(t, issued)
      BY <2>4, <2>6, SameCallsSound
    <2> QED  BY <2>2, <2>7
  <1>6. ASSUME NEW m, Arrives(m), Received(m), issued' = issued
        PROVE  Sound(t, issued')
    <2>1. PICK u : MessageTaken(m, u)
      BY <1>1, <1>6, ReceivedCases
    <2>2. /\ u \in TrackType /\ u.commands = s.commands
          /\ WaitHandled(s, u, m)
          /\ \/ t = u
             \/ /\ m.kind = "ACK"
                /\ \E i \in 1 .. Len(u.commands) :
                      t = Ended(u, i, m.result, "CommandResult", m.answers)
      BY <2>1 DEF MessageTaken
    <2> HIDE DEF s, t
    <2>3. Once(u, issued)
      BY <1>1, <2>2, WaitCheckedOnce
    <2>4. Sound(u, issued)
      BY <1>1, <1>2, <2>2, WaitCheckedSound
    <2>5. CASE /\ m.kind = "ACK"
               /\ \E i \in 1 .. Len(u.commands) :
                     t = Ended(u, i, m.result, "CommandResult", m.answers)
      <3> DEFINE failure == "CommandResult"
      <3>1. PICK i \in 1 .. Len(u.commands) : t = Ended(u, i, m.result, failure, m.answers)
        BY <2>5
      <3>2. m.answers \in Calls /\ m.result \in Result
        BY <1>6, <2>5 DEF Arrives
      <3>3. failure \in Failure /\ failure # "NoFailure"
        BY DEF Failure
      <3> HIDE DEF failure
      <3>4. u \in TrackType
        BY <2>2
      <3>5. Sound(t, issued)
        BY <1>1, <2>3, <2>4, <3>1, <3>2, <3>3, <3>4, EndedSound
      <3> QED  BY <1>6, <3>5
    <2> QED  BY <1>6, <2>2, <2>4, <2>5
  <1>7. CASE Receive
    <2> DEFINE m == Head(toGcs)
    <2>1. toGcs # <<>> /\ Received(m) /\ issued' = issued
      BY <1>7 DEF Receive
    <2>2. toGcs \in Seq(InboundType)
      BY <1>1 DEF TypeInv
    <2>3. m \in InboundType
      BY <2>1, <2>2, TailFacts
    <2> HIDE DEF m
    <2>4. Arrives(m)
      BY <2>3, InboundArrives
    <2> QED  BY <1>6, <2>1, <2>4
  <1>8. CASE ReceiveUnasked
    <2>1. PICK m \in {Telemetry} \cup Unsolicited : Received(m)
      BY <1>8 DEF ReceiveUnasked
    <2>2. Arrives(m)
      BY UnaskedArrives
    <2>3. issued' = issued
      BY <1>8 DEF ReceiveUnasked
    <2> QED  BY <1>6, <2>1, <2>2, <2>3
  <1>9. CASE UNCHANGED <<trackVars, issued>>
    <2>1. t = s /\ issued' = issued
      BY <1>9 DEF Tracked, trackVars
    <2> HIDE DEF s, t
    <2> QED  BY <1>2, <2>1
  <1>10. VehicleAnswers \/ LoseMessage \/ LinkGoes \/ UNCHANGED vars => UNCHANGED <<trackVars, issued>>
    BY DEF VehicleAnswers, LoseMessage, LinkGoes, vars
  <1> QED  BY <1>4, <1>5, <1>7, <1>8, <1>9, <1>10 DEF Next

THEOREM SoundInvariant ==
    ASSUME Overlapping = FALSE, LinkMayGo = FALSE
    PROVE  Spec => [](CoreInv /\ SoundInv)
  <1>1. SoundInv /\ CoreInv /\ [Next]_vars => SoundInv'
    BY StepKeepsSound
  <1> QED  BY <1>1, InitIsSound, CoreInvariant, PTL DEF Spec

(* Callers that wait for one another, over a link that stays: a call made and *)
(* not reported is in the list, or acked and its wait for the message timed.  *)
THEOREM EveryCallIsWatched ==
    ASSUME Overlapping = FALSE, LinkMayGo = FALSE
    PROVE  Spec => []NoCallForgotten
  <1>1. CoreInv /\ SoundInv => NoCallForgotten
    <2> SUFFICES ASSUME CoreInv, SoundInv, NEW c \in issued, results[c] = <<>>
                 PROVE  \/ Tracks(c)
                        \/ waitFor = c /\ waitTimer.active /\ requests[c].acked
      BY DEF NoCallForgotten, Answered
    <2> DEFINE s == Tracked
    <2>1. /\ s.results = results /\ s.commands = commands /\ s.waitFor = waitFor
          /\ s.waitTimer = waitTimer /\ s.requests = requests
      BY DEF Tracked
    <2>2. Sound(s, issued) /\ s \in TrackType
      BY DEF SoundInv, CoreInv, TypeInv
    <2> HIDE DEF s
    <2>3. \/ Listed(s, c)
          \/ s.waitFor = c /\ s.waitTimer.active /\ s.requests[c].acked
      BY <2>1, <2>2 DEF Sound
    <2>4. commands \in Seq(EntryType)
      BY <2>1, <2>2 DEF TrackType
    <2>5. Listed(s, c) => Tracks(c)
      BY <2>1, <2>4 DEF Listed, Tracks
    <2> QED  BY <2>1, <2>3, <2>5
  <1> QED  BY <1>1, SoundInvariant, PTL

(* What they are told is true: the message has the id asked for, and a call   *)
(* that fails for want of a response went out as often as its command may.    *)
THEOREM ResultsTellTheTruth ==
    ASSUME Overlapping = FALSE, LinkMayGo = FALSE
    PROVE  Spec => []ResultsAreTrue
  <1>1. CoreInv /\ SoundInv => ResultsAreTrue
    <2> SUFFICES ASSUME CoreInv, SoundInv, NEW c \in Calls, NEW i \in DOMAIN results[c]
                 PROVE  /\ IsRequest(c) /\ results[c][i].failure = "NoFailure"
                              => results[c][i].message[2] = Target[c].message
                        /\ results[c][i].failure = "NoResponse" => sends[c] = MaxTries(c)
      BY CoreMeansType DEF ResultsAreTrue
    <2> DEFINE s == Tracked
    <2>1. s.results = results
      BY DEF Tracked
    <2>2. Sound(s, issued) /\ Tries(s, sends, issued)
      BY DEF SoundInv, CoreInv
    <2> HIDE DEF s
    <2>3. TellsTruth(s.results[c], c)
      BY <2>2 DEF Sound
    <2>4. FailsInTheEnd(s.results[c], c, sends)
      BY <2>2 DEF Tries
    <2> QED  BY <2>1, <2>3, <2>4 DEF TellsTruth, FailsInTheEnd
  <1> QED  BY <1>1, SoundInvariant, PTL

-----------------------------------------------------------------------------
(* Round trips shorter than the ack timeout, and one ack per command.         *)

(* Every result of a call that cannot be sent twice at a time is its own.     *)
AnsweredBy(q, c) == \A j \in DOMAIN q : q[j].answers = c

Mine(s) == \A c \in Calls : ~CanBeDuplicated(c) => AnsweredBy(s.results[c], c)

(* No two listed calls have the same component and command, unless they may.  *)
NoTwins(s) ==
    \A c, d \in Calls :
        (Listed(s, c) /\ Listed(s, d) /\ SameCommand(c, d) /\ ~CanBeDuplicated(c)) => c = d

AckFor(m, c) == m.kind = "ACK" /\ m.answers = c

(* A command in flight, or else its ack, is the only one of its call, which   *)
(* is still listed.                                                           *)
Flight(s, there, back) ==
    /\ \A i \in 1 .. Len(there) : ~CanBeDuplicated(there[i]) =>
          /\ Listed(s, there[i])
          /\ \A j \in 1 .. Len(there) : there[j] = there[i] => j = i
          /\ \A j \in 1 .. Len(back) : ~AckFor(back[j], there[i])
    /\ \A i \in 1 .. Len(back) : \A c \in Calls : (AckFor(back[i], c) /\ ~CanBeDuplicated(c)) =>
          /\ Listed(s, c)
          /\ \A j \in 1 .. Len(back) : AckFor(back[j], c) => j = i

LEMMA OutAnswers ==
    ASSUME NEW failure, NEW result, NEW message, NEW answers
    PROVE  Out(failure, result, message, answers).answers = answers
  BY DEF Out

LEMMA FirstMine ==
    ASSUME NEW o, NEW q, q = Append(<<>>, o), NEW c, o.answers = c
    PROVE  AnsweredBy(q, c)
  BY FirstResult DEF AnsweredBy

LEMMA EndedMine ==
    ASSUME NEW s \in TrackType, NEW is \in SUBSET Calls, Once(s, is), Mine(s), NoTwins(s),
           NEW i \in 1 .. Len(s.commands),
           NEW result \in Result, NEW failure \in Failure, NEW answers \in Calls,
           NEW c, c = s.commands[i].call, ~CanBeDuplicated(c) => answers = c,
           NEW t, t = Ended(s, i, result, failure, answers)
    PROVE  /\ c \in Calls /\ Mine(t) /\ NoTwins(t)
           /\ \A d \in Calls : Listed(t, d) <=> Listed(s, d) /\ d # c
  <1>1. c \in Calls /\ t \in TrackType /\ EntryGone(s, t, i) /\ Handled(s, t, c, result, failure, answers)
    BY EndedShape
  <1>2. OthersLeft(s, t, i)
    <2>1. CallsDiffer(s)
      BY DEF Once
    <2>2. EntryGone(s, t, i) /\ t \in TrackType
      BY <1>1
    <2> QED  BY <2>1, <2>2, EntriesLeft
  <1>3. \A d \in Calls : Listed(t, d) <=> Listed(s, d) /\ d # c
    BY <1>2 DEF OthersLeft
  <1>4. s.results[c] = <<>>
    BY <1>1 DEF Once, Listed
  <1>5. ~CanBeDuplicated(c) => AnsweredBy(t.results[c], c)
    <2>1. t.results[c] = <<>> \/ \E o : t.results[c] = Append(<<>>, o) /\ o.answers = answers
      <3>1. Out(failure, result, NoReply, answers).answers = answers
        BY OutAnswers
      <3>2. Out("NoFailure", result, s.requests[c].message, answers).answers = answers
        BY OutAnswers
      <3>3. \/ t.results[c] = s.results[c]
            \/ t.results[c] = Append(s.results[c], Out(failure, result, NoReply, answers))
            \/ t.results[c] = Append(s.results[c],
                   Out("NoFailure", result, s.requests[c].message, answers))
        BY <1>1 DEF Handled
      <3> QED  BY <1>4, <3>1, <3>2, <3>3
    <2>2. CASE t.results[c] = <<>>
      BY <2>2 DEF AnsweredBy
    <2>3. CASE \E o : t.results[c] = Append(<<>>, o) /\ o.answers = answers
      <3>1. PICK o : t.results[c] = Append(<<>>, o) /\ o.answers = answers
        BY <2>3
      <3> QED  BY <3>1, FirstMine
    <2> QED  BY <2>1, <2>2, <2>3
  <1>6. \A d \in Calls : d # c => t.results[d] = s.results[d]
    BY <1>1 DEF Handled
  <1>7. Mine(t)
    BY <1>5, <1>6 DEF Mine
  <1>8. NoTwins(t)
    BY <1>3 DEF NoTwins
  <1> QED  BY <1>1, <1>3, <1>7, <1>8

LEMMA WaitCheckedMine ==
    ASSUME NEW s \in TrackType, NEW is \in SUBSET Calls, Once(s, is), Mine(s),
           NEW t, t.commands = s.commands, NEW m, WaitHandled(s, t, m)
    PROVE  Mine(t)
  <1>1. CASE t = s
    BY <1>1
  <1>2. CASE t # s
    <2> DEFINE c == s.waitFor
               message == <<m.component, m.message>>
               received == Out("NoFailure", "ACCEPTED", message, c)
               missed == Out("MessageNotReceived", "FAILED", message, c)
    <2>1. /\ c \in Calls
          /\ \A d \in Calls : d # c => t.results[d] = s.results[d]
          /\ \/ t.results[c] = s.results[c]
             \/ t.results[c] = Append(s.results[c], received)
             \/ t.results[c] = Append(s.results[c], missed)
      BY <1>2 DEF WaitHandled
    <2>2. received.answers = c /\ missed.answers = c
      BY OutAnswers
    <2>3. s.results[c] = <<>>
      BY <2>1 DEF Once
    <2> HIDE DEF c, received, missed
    <2>4. AnsweredBy(t.results[c], c)
      <3>1. CASE t.results[c] = s.results[c]
        BY <2>3, <3>1 DEF AnsweredBy
      <3>2. CASE t.results[c] # s.results[c]
        <4>1. PICK o \in {received, missed} : t.results[c] = Append(<<>>, o)
          BY <2>1, <2>3, <3>2
        <4> QED  BY <2>2, <4>1, FirstMine
      <3> QED  BY <3>1, <3>2
    <2> QED  BY <2>1, <2>4 DEF Mine
  <1> QED  BY <1>1, <1>2

LEMMA RefusedMine ==
    ASSUME NEW s \in TrackType, NEW is \in SUBSET Calls, Once(s, is), Mine(s),
           NEW c \in Calls \ is,
           NEW failure, NEW t \in TrackType, RefusedTo(s, t, c, failure)
    PROVE  Mine(t)
  <1> DEFINE o == Out(failure, "FAILED", NoReply, c)
  <1>1. s.results[c] = <<>>
    BY DEF Once
  <1>2. t.results[c] = Append(<<>>, o)
    BY <1>1 DEF RefusedTo
  <1>3. o.answers = c
    BY OutAnswers
  <1> HIDE DEF o
  <1>4. AnsweredBy(t.results[c], c)
    BY <1>2, <1>3, FirstMine
  <1> QED  BY <1>4 DEF Mine, RefusedTo

LEMMA SendFromListMine ==
    ASSUME NEW is \in SUBSET Calls, NEW s \in TrackType, Once(s, is), Mine(s), NoTwins(s),
           NEW k \in 1 .. Len(s.commands),
           NEW t, t = SendFromList(s, k)
    PROVE  Mine(t) /\ NoTwins(t)
  <1>1. CASE t = s
    BY <1>1
  <1>2. CASE t = GivenUp(s, k)
    <2> DEFINE result == "FAILED"
               failure == "NoResponse"
               c == s.commands[k].call
    <2>1. result \in Result /\ failure \in Failure
      BY DEF Result, Failure
    <2>2. t = Ended(s, k, result, failure, c)
      BY <1>2 DEF GivenUp
    <2>3. c \in Calls /\ c = s.commands[k].call
      BY DEF Once
    <2> HIDE DEF result, failure, c
    <2> QED  BY <2>1, <2>2, <2>3, EndedMine
  <1>3. CASE SentAgain(s, t, k)
    <2>1. SameCalls(s, t) /\ t.results = s.results
      BY <1>3 DEF SentAgain, SameCalls
    <2>2. \A d : Listed(t, d) = Listed(s, d)
      BY <2>1, SameCallsListed
    <2> QED  BY <2>1, <2>2 DEF Mine, NoTwins
  <1> QED  BY <1>1, <1>2, <1>3, SendFromListShape

LEMMA WalkedMine ==
    ASSUME NEW is \in SUBSET Calls, NEW n \in [Calls -> Nat],
           NEW s \in TrackType, s.sent = <<>>, Once(s, is), Tries(s, n, is), Mine(s), NoTwins(s),
           NEW t, t = Walked(s)
    PROVE  Mine(t) /\ NoTwins(t)
  <1> DEFINE count == Len(s.commands)
             G == [m \in Nat |->
                     {u \in TrackType : WalkInv(u, count - m, is, n) /\ Mine(u) /\ NoTwins(u)}]
  <1>1. count \in Nat
    BY DEF TrackType
  <1>2. WalkInv(s, count, is, n)
    <2>1. TriesSoFar(s.sent, n) = n
      BY DEF TriesSoFar, Contains
    <2>2. Walking(s, count)
      BY <1>1 DEF Walking, SentOnce
    <2> QED  BY <2>1, <2>2 DEF WalkInv
  <1>3. s \in G[0]
    <2>1. count - 0 = count
      BY <1>1
    <2> QED  BY <1>2, <2>1
  <1>4. ASSUME NEW m \in 0 .. (count - 1), NEW u \in G[m]
        PROVE  SendFromList(u, count - m) \in G[m + 1]
    <2> DEFINE k == count - m
               v == SendFromList(u, k)
    <2>1. u \in TrackType /\ WalkInv(u, k, is, n) /\ Mine(u) /\ NoTwins(u)
      BY <1>1
    <2>2. k \in 1 .. Len(u.commands) /\ k - 1 = count - (m + 1) /\ m + 1 \in Nat
      <3>1. k <= Len(u.commands)
        BY <2>1 DEF WalkInv, Walking
      <3>2. Len(u.commands) \in Nat
        BY <2>1 DEF TrackType
      <3> QED  BY <1>1, <3>1, <3>2
    <2> HIDE DEF k
    <2>3. v = SendFromList(u, k)
      OBVIOUS
    <2> HIDE DEF v
    <2>4. WalkInv(v, k - 1, is, n)
      BY <2>1, <2>2, <2>3, WalkStep
    <2>5. v \in TrackType
      BY <2>4 DEF WalkInv
    <2>6. Mine(v) /\ NoTwins(v)
      <3>1. Once(u, is)
        BY <2>1 DEF WalkInv
      <3> QED  BY <2>1, <2>2, <2>3, <3>1, SendFromListMine
    <2>7. v \in G[m + 1]
      BY <2>2, <2>4, <2>5, <2>6
    <2> QED  BY <2>7 DEF v, k
  <1> HIDE DEF G
  <1>5. Walked(s) \in G[count]
    BY <1>3, <1>4, WalkedFacts
  <1> QED  BY <1>1, <1>5 DEF G

(* Part of what was in flight.                                                *)
LEMMA FlightLess ==
    ASSUME NEW s, NEW there \in Seq(Calls), NEW back \in Seq(InboundType), Flight(s, there, back),
           NEW x \in {0, 1}, NEW lessThere \in Seq(Calls),
           \A i \in 1 .. Len(lessThere) : i + x \in 1 .. Len(there) /\ lessThere[i] = there[i + x],
           NEW y \in {0, 1}, NEW lessBack \in Seq(InboundType),
           \A i \in 1 .. Len(lessBack) : i + y \in 1 .. Len(back) /\ lessBack[i] = back[i + y],
           NEW t,
           \A i \in 1 .. Len(lessThere) : ~CanBeDuplicated(lessThere[i]) /\ Listed(s, lessThere[i])
              => Listed(t, lessThere[i]),
           \A i \in 1 .. Len(lessBack) : \A c \in Calls :
              (AckFor(lessBack[i], c) /\ ~CanBeDuplicated(c) /\ Listed(s, c)) => Listed(t, c)
    PROVE  Flight(t, lessThere, lessBack)
  <1>1. ASSUME NEW i \in 1 .. Len(lessThere), ~CanBeDuplicated(lessThere[i])
        PROVE  /\ Listed(t, lessThere[i])
               /\ \A j \in 1 .. Len(lessThere) : lessThere[j] = lessThere[i] => j = i
               /\ \A j \in 1 .. Len(lessBack) : ~AckFor(lessBack[j], lessThere[i])
    <2>1. /\ Listed(s, lessThere[i])
          /\ \A j \in 1 .. Len(there) : there[j] = lessThere[i] => j = i + x
          /\ \A j \in 1 .. Len(back) : ~AckFor(back[j], lessThere[i])
      BY <1>1 DEF Flight
    <2>2. \A j \in 1 .. Len(lessThere) : lessThere[j] = lessThere[i] => j = i
      <3> SUFFICES ASSUME NEW j \in 1 .. Len(lessThere), lessThere[j] = lessThere[i]
                   PROVE  j = i
        OBVIOUS
      <3>1. j + x = i + x
        BY <2>1
      <3> QED  BY <3>1
    <2> QED  BY <1>1, <2>1, <2>2
  <1>2. ASSUME NEW i \in 1 .. Len(lessBack), NEW c \in Calls,
               AckFor(lessBack[i], c), ~CanBeDuplicated(c)
        PROVE  Listed(t, c) /\ \A j \in 1 .. Len(lessBack) : AckFor(lessBack[j], c) => j = i
    <2>1. Listed(s, c) /\ \A j \in 1 .. Len(back) : AckFor(back[j], c) => j = i + y
      BY <1>2 DEF Flight
    <2>2. \A j \in 1 .. Len(lessBack) : AckFor(lessBack[j], c) => j = i
      <3> SUFFICES ASSUME NEW j \in 1 .. Len(lessBack), AckFor(lessBack[j], c)
                   PROVE  j = i
        OBVIOUS
      <3>1. j + y = i + y
        BY <2>1
      <3> QED  BY <3>1
    <2> QED  BY <1>2, <2>1, <2>2
  <1> QED  BY <1>1, <1>2 DEF Flight

OwnInv == Mine(Tracked) /\ NoTwins(Tracked) /\ Flight(Tracked, toVehicle, toGcs)

LEMMA InitIsOwn ==
    ASSUME Init
    PROVE  OwnInv
  BY DEF Init, OwnInv, Mine, NoTwins, Flight, Tracked, Listed, AnsweredBy

(* With nothing in flight that matters but a list of listed calls' commands.  *)
LEMMA SentFlight ==
    ASSUME NEW s, NEW none \in Seq(Calls), Len(none) = 0, NEW list \in Seq(Calls),
           \A j \in 1 .. Len(list) : Listed(s, list[j]),
           \A i, j \in 1 .. Len(list) : list[i] = list[j] => i = j,
           NEW there, there = Delivered(none, list)
    PROVE  Flight(s, there, <<>>)
  <1>1. Len(none) <= MaxInFlight
    BY CommandsAssumption
  <1>2. \A i \in 1 .. Len(there) : i > Len(none) =>
              i - Len(none) \in 1 .. Len(list) /\ there[i] = list[i - Len(none)]
    BY <1>1, DeliveredFacts
  <1>3. \A i \in 1 .. Len(there) : i \in 1 .. Len(list) /\ there[i] = list[i]
    <2>1. \A i \in 1 .. Len(there) : i > Len(none) /\ i - Len(none) = i
      OBVIOUS
    <2> QED  BY <1>2, <2>1
  <1> QED  BY <1>3 DEF Flight

LEMMA CallKeepsOwn ==
    ASSUME CoreInv, OwnInv, NEW c \in Calls, Call(c)
    PROVE  OwnInv'
  <1> DEFINE s == Tracked
             t == Tracked'
  <1>1. /\ s \in TrackType /\ Once(s, issued) /\ TypeInv /\ issued \in SUBSET Calls
        /\ toVehicle \in Seq(Calls) /\ Len(toVehicle) <= MaxInFlight
        /\ toGcs \in Seq(InboundType)
    BY DEF CoreInv, TypeInv
  <1>2. Mine(s) /\ NoTwins(s) /\ Flight(s, toVehicle, toGcs)
    BY DEF OwnInv
  <1>3. t \in TrackType /\ CallMade(c)
    BY <1>1, CallCases
  <1>4. c \notin issued /\ toGcs' = toGcs
    BY <1>3 DEF CallMade
  <1>5. ASSUME Mine(t), NoTwins(t), Flight(t, toVehicle', toGcs) PROVE OwnInv'
    BY <1>4, <1>5 DEF OwnInv
  <1>6. \/ /\ \E failure \in {"CommandResult", "Duplicate"} : RefusedTo(s, t, c, failure)
           /\ toVehicle' = toVehicle
        \/ t = PreparedFor(s, c) /\ toVehicle' = toVehicle
        \/ /\ ~Refused(c) /\ t = Added(PreparedFor(s, c), c)
           /\ toVehicle' = Delivered(toVehicle, <<c>>)
    BY <1>3 DEF CallMade, Transmit
  <1>7. Refused(c) \/ CanBeDuplicated(c) \/ \A d \in Calls : Listed(s, d) => ~SameCommand(d, c)
    <2>1. CASE EntryIndex(s, c) = 0
      <3> HIDE DEF s
      <3>1. \A i \in 1 .. Len(s.commands) : ~SameCommand(s.commands[i].call, c)
        BY <1>1, <2>1, EntryIndexFacts
      <3> QED  BY <3>1 DEF Listed
    <2>2. CASE EntryIndex(s, c) # 0
      <3>1. EntryIndex(s, c) \in 0 .. Len(s.commands) /\ Len(s.commands) \in Nat
        <4> HIDE DEF s
        <4>1. Len(s.commands) \in Nat
          BY <1>1 DEF TrackType
        <4> QED  BY <1>1, <4>1, EntryIndexFacts
      <3> QED  BY <2>2, <3>1 DEF Refused, isMavCommandPending
    <2> QED  BY <2>1, <2>2
  <1> HIDE DEF s, t
  <1>8. ASSUME \A d \in Calls : Listed(t, d) = Listed(s, d)
        PROVE  NoTwins(t) /\ Flight(t, toVehicle, toGcs)
    BY <1>1, <1>2, <1>8 DEF NoTwins, Flight
  <1>9. CASE /\ \E failure \in {"CommandResult", "Duplicate"} : RefusedTo(s, t, c, failure)
             /\ toVehicle' = toVehicle
    <2>1. PICK failure \in {"CommandResult", "Duplicate"} : RefusedTo(s, t, c, failure)
      BY <1>9
    <2>2. Mine(t)
      BY <1>1, <1>2, <1>3, <1>4, <2>1, RefusedMine
    <2>3. \A d \in Calls : Listed(t, d) = Listed(s, d)
      BY <2>1 DEF RefusedTo, Listed
    <2> QED  BY <1>5, <1>8, <1>9, <2>2, <2>3
  <1>10. ASSUME NEW u, u = PreparedFor(s, c)
         PROVE  u \in TrackType /\ Mine(u) /\ \A d : Listed(u, d) = Listed(s, d)
    <2>1. u \in TrackType /\ u.commands = s.commands /\ u.results = s.results
      BY <1>1, <1>10, PreparedShape
    <2> QED  BY <1>2, <2>1 DEF Mine, Listed
  <1>11. CASE t = PreparedFor(s, c) /\ toVehicle' = toVehicle
    BY <1>5, <1>8, <1>10, <1>11
  <1>12. CASE ~Refused(c) /\ t = Added(PreparedFor(s, c), c) /\ toVehicle' = Delivered(toVehicle, <<c>>)
    <2> DEFINE u == PreparedFor(s, c)
               list == <<c>>
               there == toVehicle'
    <2>1. u \in TrackType /\ Mine(u) /\ \A d : Listed(u, d) = Listed(s, d)
      BY <1>10
    <2>2. t = Added(u, c)
      BY <1>12
    <2> HIDE DEF u
    <2>3. AddedTo(u, t, c)
      BY <2>1, <2>2, AddedShape
    <2>4. Mine(t) /\ \A d : Listed(t, d) <=> Listed(s, d) \/ d = c
      BY <2>1, <2>3 DEF AddedTo, Mine
    <2>5. ~Listed(s, c)
      BY <1>1, <1>4 DEF Once, Listed
    <2>6. NoTwins(t)
      <3> SUFFICES ASSUME NEW d \in Calls, NEW e \in Calls, Listed(t, d), Listed(t, e),
                          SameCommand(d, e), ~CanBeDuplicated(d)
                   PROVE  d = e
        BY DEF NoTwins
      <3>1. SameCommand(e, d) /\ ~CanBeDuplicated(e)
        BY DEF SameCommand, CanBeDuplicated
      <3> QED  BY <1>2, <1>7, <1>12, <2>4, <3>1 DEF NoTwins
    <2>7. list \in Seq(Calls) /\ Len(list) = 1 /\ list[1] = c
      OBVIOUS
    <2>8. there = Delivered(toVehicle, list)
      BY <1>12
    <2> HIDE DEF list, there
    <2>9. /\ there \in Seq(Calls) /\ Len(there) <= Len(toVehicle) + 1
          /\ \A i \in 1 .. Len(toVehicle) : there[i] = toVehicle[i]
          /\ \A i \in 1 .. Len(there) : i > Len(toVehicle) =>
                i - Len(toVehicle) \in 1 .. Len(list) /\ there[i] = list[i - Len(toVehicle)]
      BY SMTT(30), <1>1, <2>7, <2>8, DeliveredFacts
    <2>10. \A i \in 1 .. Len(there) :
              \/ i \in 1 .. Len(toVehicle) /\ there[i] = toVehicle[i]
              \/ i = Len(toVehicle) + 1 /\ there[i] = c
      <3> SUFFICES ASSUME NEW i \in 1 .. Len(there)
                   PROVE  \/ i \in 1 .. Len(toVehicle) /\ there[i] = toVehicle[i]
                          \/ i = Len(toVehicle) + 1 /\ there[i] = c
        OBVIOUS
      <3>1. Len(toVehicle) \in Nat /\ Len(there) \in Nat /\ i \in Nat
        BY <1>1, <2>9
      <3>2. CASE i <= Len(toVehicle)
        BY <2>9, <3>1, <3>2
      <3>3. CASE i > Len(toVehicle)
        <4>1. i - Len(toVehicle) = 1 /\ i = Len(toVehicle) + 1
          BY <2>7, <2>9, <3>1, <3>3
        <4> QED  BY <2>7, <2>9, <3>3, <4>1
      <3> QED  BY <3>1, <3>2, <3>3
    <2>11. /\ \A i \in 1 .. Len(toVehicle) : ~CanBeDuplicated(toVehicle[i]) => Listed(s, toVehicle[i])
           /\ \A i \in 1 .. Len(toGcs) : \A d \in Calls :
                 (AckFor(toGcs[i], d) /\ ~CanBeDuplicated(d)) => Listed(s, d)
      BY <1>2 DEF Flight
    <2>12. Flight(t, there, toGcs)
      <3>1. ASSUME NEW i \in 1 .. Len(there), ~CanBeDuplicated(there[i])
            PROVE  /\ Listed(t, there[i])
                   /\ \A j \in 1 .. Len(there) : there[j] = there[i] => j = i
                   /\ \A j \in 1 .. Len(toGcs) : ~AckFor(toGcs[j], there[i])
        <4>1. CASE i \in 1 .. Len(toVehicle) /\ there[i] = toVehicle[i]
          <5>1. /\ Listed(s, there[i])
                /\ \A j \in 1 .. Len(toVehicle) : toVehicle[j] = there[i] => j = i
                /\ \A j \in 1 .. Len(toGcs) : ~AckFor(toGcs[j], there[i])
            BY <1>2, <3>1, <4>1 DEF Flight
          <5>2. there[i] # c
            BY <2>5, <5>1
          <5> QED  BY <2>4, <2>10, <5>1, <5>2
        <4>2. CASE i = Len(toVehicle) + 1 /\ there[i] = c
          <5>1. \A j \in 1 .. Len(toVehicle) : toVehicle[j] # c
            BY <2>5, <2>11, <3>1, <4>2
          <5>2. \A j \in 1 .. Len(toGcs) : ~AckFor(toGcs[j], c)
            BY <2>5, <2>11, <3>1, <4>2
          <5> QED  BY <2>4, <2>10, <4>2, <5>1, <5>2
        <4> QED  BY <2>10, <4>1, <4>2
      <3>2. ASSUME NEW i \in 1 .. Len(toGcs), NEW d \in Calls, AckFor(toGcs[i], d), ~CanBeDuplicated(d)
            PROVE  Listed(t, d) /\ \A j \in 1 .. Len(toGcs) : AckFor(toGcs[j], d) => j = i
        BY <1>2, <2>4, <3>2 DEF Flight
      <3> QED  BY <3>1, <3>2 DEF Flight
    <2> QED  BY <1>5, <2>4, <2>6, <2>12 DEF there
  <1> QED  BY <1>6, <1>9, <1>11, <1>12

LEMMA CheckKeepsOwn ==
    ASSUME PromptLink = TRUE, CoreInv, OwnInv, ResponseTimeoutCheck
    PROVE  OwnInv'
  <1> DEFINE s == Tracked
             a == AllAged(Tracked)
             w == Walked(a)
             list == w.sent
             t == Tracked'
  <1>1. /\ a \in TrackType /\ SameCalls(s, a) /\ a.sent = <<>>
        /\ Once(a, issued) /\ Tries(a, sends, issued)
        /\ WalkInv(w, 0, issued, sends) /\ t = Unsent(w) /\ Transmit(list)
    BY CheckCases
  <1>2. Mine(s) /\ NoTwins(s) /\ issued \in SUBSET Calls /\ sends \in [Calls -> Nat]
    BY DEF OwnInv, CoreInv, TypeInv
  <1>3. toVehicle = <<>> /\ toGcs = <<>> /\ toGcs' = <<>>
    BY DEF ResponseTimeoutCheck
  <1>4. toVehicle' = Delivered(<<>>, list) \/ toVehicle' = <<>>
    BY <1>1, <1>3 DEF Transmit
  <1> HIDE DEF s, t, a
  <1>5. Mine(a) /\ NoTwins(a)
    <2>1. \A d : Listed(a, d) = Listed(s, d)
      BY <1>1, SameCallsListed
    <2> QED  BY <1>1, <1>2, <2>1 DEF Mine, NoTwins, SameCalls
  <1>6. Mine(w) /\ NoTwins(w)
    BY <1>1, <1>2, <1>5, WalkedMine
  <1> HIDE DEF w
  <1>7. w \in TrackType /\ Walking(w, 0)
    BY <1>1 DEF WalkInv
  <1>8. t.results = w.results /\ t.commands = w.commands
    BY <1>1, <1>7, UnsentShape
  <1>9. \A d : Listed(t, d) = Listed(w, d)
    BY <1>8 DEF Listed
  <1>10. list \in Seq(Calls) /\ \A j \in 1 .. Len(list) : Listed(t, list[j])
    <2>1. list \in Seq(Calls)
      BY <1>7 DEF TrackType
    <2>2. ASSUME NEW j \in 1 .. Len(list) PROVE Listed(w, list[j])
      <3>1. PICK i \in (0 + 1) .. Len(w.commands) : w.commands[i].call = w.sent[j]
        BY <1>7 DEF Walking
      <3>2. i \in 1 .. Len(w.commands)
        OBVIOUS
      <3> QED  BY <3>1, <3>2 DEF Listed
    <2> QED  BY <1>9, <2>1, <2>2
  <1>11. \A i, j \in 1 .. Len(list) : list[i] = list[j] => i = j
    BY <1>7 DEF Walking, SentOnce
  <1> HIDE DEF list
  <1>12. Flight(t, toVehicle', <<>>)
    <2> DEFINE there == toVehicle'
    <2>1. CASE there = Delivered(<<>>, list)
      <3> DEFINE none == <<>>
      <3>0. none \in Seq(Calls) /\ Len(none) = 0 /\ there = Delivered(none, list)
        BY <2>1
      <3> HIDE DEF there, none
      <3>1. Flight(t, there, <<>>)
        BY <1>10, <1>11, <3>0, SentFlight
      <3> QED  BY <3>1 DEF there
    <2>2. CASE there = <<>>
      BY <2>2 DEF Flight
    <2> QED  BY <1>4, <2>1, <2>2
  <1>13. Mine(t) /\ NoTwins(t)
    BY <1>6, <1>8, <1>9 DEF Mine, NoTwins
  <1> QED  BY <1>3, <1>12, <1>13 DEF OwnInv, t

EndOf(rest, q) ==
    \E x \in {0, 1} : \A i \in 1 .. Len(rest) : i + x \in 1 .. Len(q) /\ rest[i] = q[i + x]

LEMMA RestFacts ==
    ASSUME NEW S, NEW q \in Seq(S), NEW rest, rest = q \/ (q # <<>> /\ rest = Tail(q))
    PROVE  /\ rest \in Seq(S)
           /\ EndOf(rest, q)
  <1>1. CASE rest = q
    <2>1. \A i \in 1 .. Len(rest) : i + 0 \in 1 .. Len(q) /\ rest[i] = q[i + 0]
      BY <1>1
    <2> QED  BY <1>1, <2>1 DEF EndOf
  <1>2. CASE q # <<>> /\ rest = Tail(q)
    <2>1. /\ rest \in Seq(S)
          /\ \A i \in 1 .. Len(rest) : i + 1 \in 1 .. Len(q) /\ rest[i] = q[i + 1]
      BY <1>2, TailFacts
    <2> QED  BY <2>1 DEF EndOf
  <1> QED  BY <1>1, <1>2

LEMMA LessKeepsFlight ==
    ASSUME NEW s, NEW there \in Seq(Calls), NEW back \in Seq(InboundType), Flight(s, there, back),
           NEW lessThere, lessThere = there \/ (there # <<>> /\ lessThere = Tail(there)),
           NEW lessBack, lessBack = back \/ (back # <<>> /\ lessBack = Tail(back))
    PROVE  Flight(s, lessThere, lessBack)
  <1>1. lessThere \in Seq(Calls) /\ lessBack \in Seq(InboundType)
    BY RestFacts
  <1>2. EndOf(lessThere, there)
    BY RestFacts
  <1>3. EndOf(lessBack, back)
    BY RestFacts
  <1>4. PICK x \in {0, 1} : \A i \in 1 .. Len(lessThere) :
                               i + x \in 1 .. Len(there) /\ lessThere[i] = there[i + x]
    BY <1>2 DEF EndOf
  <1>5. PICK y \in {0, 1} : \A i \in 1 .. Len(lessBack) :
                               i + y \in 1 .. Len(back) /\ lessBack[i] = back[i + y]
    BY <1>3 DEF EndOf
  <1> QED  BY ZenonT(60), <1>1, <1>4, <1>5, FlightLess

LEMMA ReceiveKeepsOwn ==
    ASSUME CoreInv, OwnInv, NEW m, Arrives(m), Received(m), toVehicle' = toVehicle,
           \/ m.kind # "ACK" /\ toGcs' = toGcs
           \/ toGcs # <<>> /\ m = Head(toGcs) /\ toGcs' = Tail(toGcs)
    PROVE  OwnInv'
  <1> DEFINE s == Tracked
             t == Tracked'
             there == toVehicle
             back == toGcs
             rest == toGcs'
  <1>1. /\ s \in TrackType /\ Once(s, issued) /\ TypeInv /\ issued \in SUBSET Calls
        /\ there \in Seq(Calls) /\ back \in Seq(InboundType)
    BY DEF CoreInv, TypeInv
  <1>2. Mine(s) /\ NoTwins(s) /\ Flight(s, there, back)
    BY DEF OwnInv
  <1>3. PICK u : MessageTaken(m, u)
    BY <1>1, ReceivedCases
  <1>4. /\ u \in TrackType /\ u.commands = s.commands
        /\ WaitHandled(s, u, m)
        /\ \/ t = u
           \/ /\ m.kind = "ACK"
              /\ \E i \in 1 .. Len(u.commands) :
                    /\ SameCommand(u.commands[i].call, m.answers)
                    /\ t = Ended(u, i, m.result, "CommandResult", m.answers)
    BY <1>3 DEF MessageTaken
  <1>5. \/ m.kind # "ACK" /\ rest = back
        \/ back # <<>> /\ m = Head(back) /\ rest = Tail(back)
    OBVIOUS
  <1>6. ASSUME Mine(t), NoTwins(t), Flight(t, there, rest) PROVE OwnInv'
    BY <1>6 DEF OwnInv
  <1> HIDE DEF s, t, there, back, rest
  <1>7. Once(u, issued)
    BY <1>1, <1>4, WaitCheckedOnce
  <1>8. Mine(u)
    BY <1>1, <1>2, <1>4, WaitCheckedMine
  <1>9. \A d : Listed(u, d) = Listed(s, d)
    BY <1>4 DEF Listed
  <1>10. NoTwins(u) /\ Flight(u, there, back)
    BY <1>2, <1>9 DEF NoTwins, Flight
  <1>11. Flight(u, there, rest)
    BY <1>1, <1>5, <1>10, LessKeepsFlight
  <1>12. CASE t = u
    BY <1>6, <1>8, <1>10, <1>11, <1>12
  <1>13. CASE /\ m.kind = "ACK"
              /\ \E i \in 1 .. Len(u.commands) :
                    /\ SameCommand(u.commands[i].call, m.answers)
                    /\ t = Ended(u, i, m.result, "CommandResult", m.answers)
    <2> DEFINE failure == "CommandResult"
    <2>1. PICK i \in 1 .. Len(u.commands) :
             /\ SameCommand(u.commands[i].call, m.answers)
             /\ t = Ended(u, i, m.result, failure, m.answers)
      BY <1>13
    <2> DEFINE c == u.commands[i].call
               d == m.answers
    <2>2. d \in Calls /\ m.result \in Result
      BY <1>13 DEF Arrives
    <2>3. failure \in Failure
      BY DEF Failure
    <2>4. u \in TrackType
      BY <1>4
    <2>5. c \in Calls /\ Listed(u, c)
      <3>1. Listed(u, c)
        BY DEF Listed
      <3>2. c \in issued
        BY <1>7 DEF Once
      <3> QED  BY <1>1, <3>1, <3>2
    <2>6. SameCommand(c, d)
      BY <2>1
    <2>7. CanBeDuplicated(c) = CanBeDuplicated(d)
      BY <2>6 DEF SameCommand, CanBeDuplicated
    <2>8. back # <<>> /\ rest = Tail(back) /\ AckFor(back[1], d) /\ 1 \in 1 .. Len(back)
      <3>1. back # <<>> /\ m = Head(back) /\ rest = Tail(back)
        BY <1>5, <1>13
      <3>2. Head(back) = back[1] /\ 1 \in 1 .. Len(back)
        BY <1>1, <3>1, TailFacts
      <3> QED  BY <1>13, <3>1, <3>2 DEF AckFor
    <2>9. c = u.commands[i].call /\ t = Ended(u, i, m.result, failure, d)
      BY <2>1
    <2> HIDE DEF failure, c, d
    <2>10. ~CanBeDuplicated(d) =>
             /\ Listed(u, d)
             /\ \A j \in 1 .. Len(back) : AckFor(back[j], d) => j = 1
             /\ \A j \in 1 .. Len(there) : there[j] # d
      BY <1>10, <2>2, <2>8 DEF Flight
    <2>11. ~CanBeDuplicated(c) => d = c
      BY <1>10, <2>2, <2>5, <2>6, <2>7, <2>10 DEF NoTwins
    <2>12. /\ Mine(t) /\ NoTwins(t)
           /\ \A e \in Calls : Listed(t, e) <=> Listed(u, e) /\ e # c
      <3>1. Mine(u) /\ NoTwins(u)
        BY <1>8, <1>10
      <3> QED  BY <1>1, <1>7, <2>2, <2>3, <2>4, <2>9, <2>11, <3>1, EndedMine
    <2>13. ASSUME NEW j \in 1 .. Len(there), ~CanBeDuplicated(there[j]), Listed(u, there[j])
           PROVE  Listed(t, there[j])
      <3>1. there[j] \in Calls
        BY <1>1
      <3>2. there[j] # c
        BY <2>7, <2>10, <2>11, <2>13
      <3> QED  BY <2>12, <2>13, <3>1, <3>2
    <2>14. rest \in Seq(InboundType) /\ \A j \in 1 .. Len(rest) :
              j + 1 \in 1 .. Len(back) /\ rest[j] = back[j + 1] /\ j + 1 # 1
      BY <1>1, <2>8, TailFacts
    <2>15. ASSUME NEW j \in 1 .. Len(rest), NEW e \in Calls, AckFor(rest[j], e),
                  ~CanBeDuplicated(e), Listed(u, e)
           PROVE  Listed(t, e)
      <3>1. e # c
        BY <2>7, <2>10, <2>11, <2>14, <2>15
      <3> QED  BY <2>12, <2>15, <3>1
    <2>16. \A j \in 1 .. Len(there) : j + 0 \in 1 .. Len(there) /\ there[j] = there[j + 0]
      OBVIOUS
    <2>17. Flight(t, there, rest)
      BY <1>1, <1>10, <2>13, <2>14, <2>15, <2>16, FlightLess
    <2> QED  BY <1>6, <2>12, <2>17
  <1> QED  BY <1>4, <1>12, <1>13

(* A vehicle that reports no progress acks a command once, if at all.         *)
LEMMA OneAck ==
    ASSUME ReportsProgress = FALSE, NEW c \in Calls, NEW a \in Answers(c)
    PROVE  /\ a \in Seq(InboundType)
           /\ \A i \in 1 .. Len(a), d \in Calls : AckFor(a[i], d) => d = c
           /\ \A i, j \in 1 .. Len(a) : AckFor(a[i], c) /\ AckFor(a[j], c) => i = j
  <1> DEFINE accepted == Ack(c, "ACCEPTED")
             failed == Ack(c, "FAILED")
             message == Message(c)
  <1>1. /\ accepted.answers = c /\ failed.answers = c
        /\ message.kind # "ACK"
    BY DEF Ack, Message
  <1>2. a \in {<<>>, <<message, accepted>>, <<accepted, message>>, <<accepted>>, <<failed>>}
    BY DEF Answers
  <1>3. a \in Seq(InboundType)
    BY AnswersType
  <1> HIDE DEF accepted, failed, message
  <1>4. CASE a = <<>>
    BY <1>3, <1>4
  <1>5. CASE a = <<message, accepted>>
    <2>1. Len(a) = 2 /\ a[1] = message /\ a[2] = accepted
      BY <1>5
    <2>2. \A i \in 1 .. Len(a) : i = 1 \/ i = 2
      BY <2>1
    <2> QED  BY <1>1, <1>3, <2>1, <2>2 DEF AckFor
  <1>6. CASE a = <<accepted, message>>
    <2>1. Len(a) = 2 /\ a[1] = accepted /\ a[2] = message
      BY <1>6
    <2>2. \A i \in 1 .. Len(a) : i = 1 \/ i = 2
      BY <2>1
    <2> QED  BY <1>1, <1>3, <2>1, <2>2 DEF AckFor
  <1>7. CASE a = <<accepted>> \/ a = <<failed>>
    <2>1. Len(a) = 1 /\ (a[1] = accepted \/ a[1] = failed)
      BY <1>7
    <2>2. \A i \in 1 .. Len(a) : i = 1
      BY <2>1
    <2> QED  BY <1>1, <1>3, <2>1, <2>2 DEF AckFor
  <1> QED  BY <1>2, <1>4, <1>5, <1>6, <1>7

LEMMA AnswersKeepOwn ==
    ASSUME ReportsProgress = FALSE, CoreInv, OwnInv, VehicleAnswers
    PROVE  OwnInv'
  <1> DEFINE s == Tracked
             there == toVehicle
             back == toGcs
             left == toVehicle'
             all == toGcs'
             c == Head(toVehicle)
  <1>1. /\ there \in Seq(Calls) /\ back \in Seq(InboundType) /\ Len(back) <= MaxInFlight
    BY DEF CoreInv, TypeInv
  <1>2. Mine(s) /\ NoTwins(s) /\ Flight(s, there, back)
    BY DEF OwnInv
  <1>3. PICK a \in Answers(c) : all = Delivered(back, a)
    BY DEF VehicleAnswers
  <1>4. there # <<>> /\ left = Tail(there) /\ c = Head(there)
    BY DEF VehicleAnswers
  <1>5. Tracked' = s
    BY DEF VehicleAnswers, trackVars, Tracked
  <1>6. ASSUME Flight(s, left, all) PROVE OwnInv'
    BY <1>2, <1>5, <1>6 DEF OwnInv
  <1> HIDE DEF s, there, back, left, all, c
  <1>7. /\ c \in Calls /\ c = there[1] /\ 1 \in 1 .. Len(there)
        /\ \A i \in 1 .. Len(left) : i + 1 \in 1 .. Len(there) /\ left[i] = there[i + 1]
    BY <1>1, <1>4, TailFacts
  <1>8. /\ a \in Seq(InboundType)
        /\ \A i \in 1 .. Len(a), d \in Calls : AckFor(a[i], d) => d = c
        /\ \A i, j \in 1 .. Len(a) : AckFor(a[i], c) /\ AckFor(a[j], c) => i = j
    BY <1>7, OneAck
  <1>9. /\ all \in Seq(InboundType)
        /\ \A i \in 1 .. Len(back) : all[i] = back[i]
        /\ \A i \in 1 .. Len(all) : i > Len(back) =>
              i - Len(back) \in 1 .. Len(a) /\ all[i] = a[i - Len(back)]
    BY <1>1, <1>3, <1>8, DeliveredFacts
  <1>10. \A i \in 1 .. Len(all) :
            \/ i \in 1 .. Len(back) /\ all[i] = back[i]
            \/ /\ i - Len(back) \in 1 .. Len(a) /\ all[i] = a[i - Len(back)]
               /\ \A d \in Calls : AckFor(all[i], d) => d = c
    <2> SUFFICES ASSUME NEW i \in 1 .. Len(all)
                 PROVE  \/ i \in 1 .. Len(back) /\ all[i] = back[i]
                        \/ /\ i - Len(back) \in 1 .. Len(a) /\ all[i] = a[i - Len(back)]
                           /\ \A d \in Calls : AckFor(all[i], d) => d = c
      OBVIOUS
    <2>1. Len(back) \in Nat /\ i \in Nat /\ i >= 1
      BY <1>1, <1>9
    <2>2. CASE i <= Len(back)
      BY <1>9, <2>1, <2>2
    <2>3. CASE i > Len(back)
      BY <1>8, <1>9, <2>1, <2>3
    <2> QED  BY <2>1, <2>2, <2>3
  <1>11. ASSUME NEW i \in 1 .. Len(left), ~CanBeDuplicated(left[i])
         PROVE  /\ Listed(s, left[i])
                /\ \A j \in 1 .. Len(left) : left[j] = left[i] => j = i
                /\ \A j \in 1 .. Len(all) : ~AckFor(all[j], left[i])
    <2>1. i + 1 \in 1 .. Len(there) /\ left[i] = there[i + 1] /\ left[i] \in Calls /\ i + 1 # 1
      BY <1>1, <1>7
    <2>2. /\ Listed(s, left[i])
          /\ \A j \in 1 .. Len(there) : there[j] = left[i] => j = i + 1
          /\ \A j \in 1 .. Len(back) : ~AckFor(back[j], left[i])
      BY <1>2, <1>11, <2>1 DEF Flight
    <2>3. left[i] # c
      BY <1>7, <2>1, <2>2
    <2>4. \A j \in 1 .. Len(left) : left[j] = left[i] => j = i
      <3> SUFFICES ASSUME NEW j \in 1 .. Len(left), left[j] = left[i] PROVE j = i
        OBVIOUS
      <3>1. j + 1 = i + 1
        BY <1>7, <2>2
      <3> QED  BY <3>1
    <2>5. \A j \in 1 .. Len(all) : ~AckFor(all[j], left[i])
      BY <1>10, <2>1, <2>2, <2>3
    <2> QED  BY <2>2, <2>4, <2>5
  <1>12. ASSUME NEW i \in 1 .. Len(all), NEW d \in Calls, AckFor(all[i], d), ~CanBeDuplicated(d)
         PROVE  Listed(s, d) /\ \A j \in 1 .. Len(all) : AckFor(all[j], d) => j = i
    <2>1. ~CanBeDuplicated(c) => /\ Listed(s, c)
                                 /\ \A j \in 1 .. Len(back) : ~AckFor(back[j], c)
      BY <1>2, <1>7 DEF Flight
    <2>2. CASE i \in 1 .. Len(back) /\ all[i] = back[i]
      <3>1. Listed(s, d) /\ \A j \in 1 .. Len(back) : AckFor(back[j], d) => j = i
        BY <1>2, <1>12, <2>2 DEF Flight
      <3>2. d # c
        BY <1>12, <2>1, <2>2
      <3> QED  BY <1>10, <3>1, <3>2
    <2>3. CASE /\ i - Len(back) \in 1 .. Len(a) /\ all[i] = a[i - Len(back)]
               /\ \A e \in Calls : AckFor(all[i], e) => e = c
      <3>1. d = c
        BY <1>12, <2>3
      <3>2. \A j \in 1 .. Len(all) : AckFor(all[j], d) => j = i
        <4> SUFFICES ASSUME NEW j \in 1 .. Len(all), AckFor(all[j], c) PROVE j = i
          BY <3>1
        <4>1. j - Len(back) \in 1 .. Len(a) /\ all[j] = a[j - Len(back)]
          BY <1>10, <1>12, <2>1, <3>1
        <4>2. AckFor(a[i - Len(back)], c) /\ AckFor(a[j - Len(back)], c)
          BY <1>12, <2>3, <3>1, <4>1
        <4>3. i - Len(back) = j - Len(back)
          BY <1>8, <2>3, <4>1, <4>2
        <4>4. Len(back) \in Nat /\ i \in Nat /\ j \in Nat
          BY <1>1, <1>9
        <4> QED  BY <4>3, <4>4
      <3> QED  BY <1>12, <2>1, <3>1, <3>2
    <2> QED  BY <1>10, <2>2, <2>3
  <1>13. Flight(s, left, all)
    BY <1>11, <1>12 DEF Flight
  <1> QED  BY <1>6, <1>13

LEMMA StepKeepsOwn ==
    ASSUME PromptLink = TRUE, ReportsProgress = FALSE, CoreInv, OwnInv, [Next]_vars
    PROVE  OwnInv'
  <1>1. /\ toVehicle \in Seq(Calls) /\ toGcs \in Seq(InboundType)
        /\ Mine(Tracked) /\ NoTwins(Tracked) /\ Flight(Tracked, toVehicle, toGcs)
    BY DEF CoreInv, TypeInv, OwnInv
  <1>2. ASSUME NEW c \in Calls, Call(c) PROVE OwnInv'
    BY <1>2, CallKeepsOwn
  <1>3. CASE ResponseTimeoutCheck
    BY <1>3, CheckKeepsOwn
  <1>4. CASE Receive
    <2> DEFINE m == Head(toGcs)
    <2>1. /\ toGcs # <<>> /\ Received(m) /\ toGcs' = Tail(toGcs) /\ toVehicle' = toVehicle
          /\ m = Head(toGcs)
      BY <1>4 DEF Receive
    <2>2. m \in InboundType
      BY <1>1, <2>1, TailFacts
    <2> HIDE DEF m
    <2>3. Arrives(m)
      BY <2>2, InboundArrives
    <2> QED  BY <2>1, <2>3, ReceiveKeepsOwn
  <1>5. CASE ReceiveUnasked
    <2>1. PICK m \in {Telemetry} \cup Unsolicited : Received(m)
      BY <1>5 DEF ReceiveUnasked
    <2>2. Arrives(m) /\ m.kind = "MESSAGE"
      BY UnaskedArrives
    <2>3. m.kind # "ACK" /\ toGcs' = toGcs /\ toVehicle' = toVehicle
      BY <1>5, <2>2 DEF ReceiveUnasked
    <2> QED  BY <2>1, <2>2, <2>3, ReceiveKeepsOwn
  <1>6. CASE VehicleAnswers
    BY <1>6, AnswersKeepOwn
  <1>7. ASSUME Tracked' = Tracked, Flight(Tracked, toVehicle', toGcs') PROVE OwnInv'
    BY <1>1, <1>7 DEF OwnInv
  <1>8. CASE LoseMessage
    <2> DEFINE s == Tracked
               there == toVehicle'
               back == toGcs'
    <2>1. Tracked' = Tracked
      BY <1>8 DEF LoseMessage, trackVars, Tracked
    <2>2. /\ there = toVehicle \/ (toVehicle # <<>> /\ there = Tail(toVehicle))
          /\ back = toGcs \/ (toGcs # <<>> /\ back = Tail(toGcs))
      BY <1>8 DEF LoseMessage
    <2>3. Flight(s, toVehicle, toGcs)
      BY <1>1
    <2> HIDE DEF s, there, back
    <2>4. Flight(s, there, back)
      BY <1>1, <2>2, <2>3, LessKeepsFlight
    <2> QED  BY <1>7, <2>1, <2>4 DEF s, there, back
  <1>9. CASE LinkGoes
    <2>1. Tracked' = Tracked
      BY <1>9 DEF LinkGoes, trackVars, Tracked
    <2>2. Flight(Tracked, <<>>, <<>>) /\ toVehicle' = <<>> /\ toGcs' = <<>>
      BY <1>9 DEF LinkGoes, Flight
    <2> QED  BY <1>7, <2>1, <2>2
  <1>10. CASE UNCHANGED vars
    <2>1. Tracked' = Tracked /\ toVehicle' = toVehicle /\ toGcs' = toGcs
      BY <1>10 DEF vars, trackVars, linkVars, Tracked
    <2> QED  BY <1>1, <1>7, <2>1
  <1> QED  BY <1>2, <1>3, <1>4, <1>5, <1>6, <1>8, <1>9, <1>10 DEF Next

(* Round trips shorter than the ack timeout, and one ack per command, whoever *)
(* calls and whether or not the link goes: an ack reports the call it         *)
(* answers, though no ack names one.                                          *)
THEOREM AcksFindTheirCalls ==
    ASSUME PromptLink = TRUE, ReportsProgress = FALSE
    PROVE  Spec => []AckIsForThisCall
  <1>1. OwnInv /\ CoreInv /\ [Next]_vars => OwnInv'
    BY StepKeepsOwn
  <1>2. OwnInv => AckIsForThisCall
    BY DEF OwnInv, Mine, AnsweredBy, AckIsForThisCall, Tracked
  <1> QED  BY <1>1, <1>2, InitIsOwn, CoreInvariant, PTL DEF Spec

=============================================================================
