-------------------------- MODULE FtpPackets_proofs ---------------------------
(* More proofs about FtpDownload, with an account of every packet in flight:  *)
(* which answers are taken, what they bring and what it takes to lose them.   *)
(* The number of a packet tells what it is as long as the numbers have not    *)
(* gone half way round (FirstHalf) and there is room for two bursts between   *)
(* those in use (Room).  OrderedInv is the inductive invariant.               *)
EXTENDS FtpDownload_proofs

-----------------------------------------------------------------------------
(* What exactly a state function does while there is a link: the request it   *)
(* sends, the number it expects next and what it reports.                     *)

(* The download is over and says so.                                          *)
Ends(s, t, error) ==
    /\ t.sent = s.sent /\ t.ftp.expectedSeq = s.ftp.expectedSeq /\ t.ftp.path = s.ftp.path
    /\ t.ftp.index = -1 /\ t.ftp.machine = <<>>
    /\ \E file : /\ t.reports = <<[error |-> error, file |-> file, opened |-> s.ftp.fileOpen]>>
                 /\ error = "none" => file = s.ftp.local

LEMMA EndsSo ==
    ASSUME NEW p, NEW s, Typed(s, p), s.reports = <<>>, NEW error,
           NEW t, t = DownloadComplete(s, error)
    PROVE  Ends(s, t, error)
  <1> DEFINE kept == IF s.ftp.fileOpen /\ error # "none" THEN {} ELSE s.ftp.local
             f0 == Idle(s.ftp)
             f == [f0 EXCEPT !.local = kept]
             r == [error |-> error, file |-> kept, opened |-> s.ftp.fileOpen]
             q == Append(s.reports, r)
  <1>1. s \in ManagerType(p) /\ s.ftp \in FtpType
    BY DEF Typed, ManagerType
  <1>2. t = [s EXCEPT !.ftp = f, !.reports = q]
    BY DEF DownloadComplete
  <1>3. kept \in SUBSET (Nat \X Nat) /\ (error = "none" => kept = s.ftp.local)
    BY <1>1 DEF FtpType
  <1>4. q = <<r>>
    BY <1>1 DEF ManagerType
  <1>5. r = [error |-> error, file |-> kept, opened |-> s.ftp.fileOpen]
    OBVIOUS
  <1> HIDE DEF kept, r
  <1>6. /\ f0 \in FtpType /\ f0.machine = <<>> /\ f0.index = -1 /\ f0.path = s.ftp.path
        /\ f0.expectedSeq = s.ftp.expectedSeq
    <2> DEFINE f1 == [s.ftp EXCEPT !.timer = FALSE, !.machine = <<>>]
               f2 == [f1 EXCEPT !.index = -1]
               f3 == [f2 EXCEPT !.fileOpen = FALSE]
    <2>1. f0 = f3
      BY DEF Idle
    <2>2. /\ f1 \in FtpType /\ f1.machine = <<>> /\ f1.path = s.ftp.path
          /\ f1.expectedSeq = s.ftp.expectedSeq
      BY <1>1 DEF FtpType
    <2> HIDE DEF f1
    <2>3. /\ f2 \in FtpType /\ f2.machine = <<>> /\ f2.path = s.ftp.path
          /\ f2.expectedSeq = s.ftp.expectedSeq /\ f2.index = -1
      <3>1. -1 \in Int
        OBVIOUS
      <3>2. f2 \in FtpType
        BY <2>2, <3>1, IndexSet
      <3> QED
        BY <2>2, <3>1 DEF FtpType
    <2> HIDE DEF f2
    <2>4. /\ f3 \in FtpType /\ f3.machine = <<>> /\ f3.path = s.ftp.path
          /\ f3.expectedSeq = s.ftp.expectedSeq /\ f3.index = -1
      BY <2>3 DEF FtpType
    <2> QED
      BY <2>1, <2>4
  <1> HIDE DEF f0
  <1>7. /\ f.machine = <<>> /\ f.index = -1 /\ f.path = s.ftp.path
        /\ f.expectedSeq = s.ftp.expectedSeq
    BY <1>6 DEF FtpType
  <1> HIDE DEF f, q
  <1>8. t.ftp = f /\ t.reports = q /\ t.sent = s.sent
    BY <1>1, <1>2 DEF ManagerType
  <1> QED
    BY <1>3, <1>4, <1>5, <1>7, <1>8 DEF Ends

(* The download goes on where it was.                                         *)
SamePlace(f, g) ==
    /\ g.path = f.path /\ g.machine = f.machine /\ g.index = f.index
    /\ g.expectedOffset = f.expectedOffset /\ g.fileOpen = f.fileOpen
    /\ g.missing = f.missing /\ g.local = f.local

LEMMA BurstAskedFor ==
    ASSUME linkUp, NEW p \in DOMAIN Downloads, NEW B, NEW Z, NEW s, Going(s, p, B, Z),
           NEW t, t = BurstRead(s)
    PROVE  /\ Asks(s, t, "Burst", s.ftp.expectedOffset, s.ftp.expectedSeq)
           /\ SamePlace(s.ftp, t.ftp) /\ t.ftp.retryCount = 0 /\ t.reports = <<>>
  <1> DEFINE u == FirstTry(s)
  <1>0. Typed(s, p) /\ s.reports = <<>>
    BY DEF Going
  <1>1. RecountedTo(s, u, 0, p)
    BY <1>0, RetriesStart, CountSet DEF FirstTry
  <1>2. s.ftp.expectedOffset \in Nat
    BY GoingIsTyped DEF FtpType
  <1>3. t = SendRequestExpectAck(u, "Burst", s.ftp.expectedOffset)
    BY DEF BurstRead
  <1> HIDE DEF u
  <1>4. Typed(u, p) /\ Recounted(s.ftp, u.ftp, 0) /\ u.reports = <<>> /\ Silent(s, u)
    BY <1>0, <1>1 DEF RecountedTo
  <1>5. /\ TimedFrom(u, t, p)
        /\ Asks(u, t, "Burst", s.ftp.expectedOffset, u.ftp.expectedSeq)
    BY <1>2, <1>3, <1>4, Names, RequestSent
  <1> QED
    BY <1>4, <1>5 DEF TimedFrom, Kept, Recounted, Silent, Asks, SamePlace

LEMMA BurstAskedAgain ==
    ASSUME linkUp, NEW p \in DOMAIN Downloads, NEW B, NEW Z, NEW s, Going(s, p, B, Z),
           NEW t, t = BurstReadAgain(s)
    PROVE  /\ Asks(s, t, "Burst", s.ftp.expectedOffset, (s.ftp.expectedSeq - 2) % SeqNumbers)
           /\ SamePlace(s.ftp, t.ftp) /\ t.ftp.retryCount = s.ftp.retryCount
           /\ t.reports = <<>>
  <1> DEFINE u == SameNumber(s)
  <1>0. Typed(s, p) /\ s.reports = <<>>
    BY DEF Going
  <1>1. /\ Typed(u, p) /\ Kept(s.ftp, u.ftp) /\ u.reports = <<>>
        /\ u.sent = s.sent /\ u.ftp.expectedSeq = (s.ftp.expectedSeq - 2) % SeqNumbers
    BY <1>0, NumberTakenBack
  <1>2. s.ftp.expectedOffset \in Nat
    BY GoingIsTyped DEF FtpType
  <1>3. t = SendRequestExpectAck(u, "Burst", s.ftp.expectedOffset)
    BY DEF BurstReadAgain
  <1> HIDE DEF u
  <1>4. /\ TimedFrom(u, t, p)
        /\ Asks(u, t, "Burst", s.ftp.expectedOffset, u.ftp.expectedSeq)
    BY <1>1, <1>2, <1>3, Names, RequestSent
  <1> QED
    BY <1>1, <1>4 DEF TimedFrom, Kept, Asks, SamePlace

(* A hole is asked for.                                                       *)
Reads(s, t, n) ==
    /\ In(t.ftp, 2) /\ t.reports = <<>> /\ t.ftp.path = s.ftp.path
    /\ Asks(s, t, "Read", t.ftp.expectedOffset, n)
    /\ t.ftp.missing = s.ftp.missing /\ t.ftp.local = s.ftp.local
    /\ t.ftp.fileOpen = s.ftp.fileOpen /\ t.ftp.missing # <<>>
    /\ t.ftp.expectedOffset = Head(s.ftp.missing).offset

LEMMA HoleAskedFor ==
    ASSUME linkUp, NEW p \in DOMAIN Downloads, NEW s, Typed(s, p), In(s.ftp, 2),
           s.reports = <<>>, s.ftp.missing # <<>>, NEW t, t = ReadMissing(s)
    PROVE  Reads(s, t, s.ftp.expectedSeq) /\ t.ftp.retryCount = s.ftp.retryCount
  <1> DEFINE hole == Head(s.ftp.missing)
             g == [s.ftp EXCEPT !.expectedOffset = hole.offset]
             u == [s EXCEPT !.ftp = g]
  <1>1. s.ftp \in FtpType
    BY DEF Typed, ManagerType
  <1>2. s.ftp.missing \in Seq(HoleType)
    BY <1>1 DEF FtpType
  <1>3. hole \in HoleType
    BY <1>2
  <1>4. hole.offset \in Nat
    BY <1>3 DEF HoleType
  <1>5. t = SendRequestExpectAck(u, "Read", hole.offset)
    BY DEF ReadMissing
  <1>a. hole = Head(s.ftp.missing)
    OBVIOUS
  <1> HIDE DEF hole
  <1>6. /\ g \in FtpType /\ g.path = s.ftp.path /\ g.checksize = s.ftp.checksize
        /\ g.machine = s.ftp.machine /\ g.index = s.ftp.index /\ g.local = s.ftp.local
        /\ g.missing = s.ftp.missing /\ g.retryCount = s.ftp.retryCount
        /\ g.expectedOffset = hole.offset /\ g.expectedSeq = s.ftp.expectedSeq
        /\ g.fileOpen = s.ftp.fileOpen
    BY <1>1, <1>4 DEF FtpType
  <1> HIDE DEF g
  <1>7. Replaced(s, u, g, p)
    BY <1>1, <1>6, StateReplaced
  <1> HIDE DEF u
  <1>8. Typed(u, p) /\ u.ftp = g /\ u.reports = <<>> /\ u.sent = s.sent
    BY <1>7 DEF Replaced
  <1>9. TimedFrom(u, t, p) /\ Asks(u, t, "Read", hole.offset, u.ftp.expectedSeq)
    BY <1>4, <1>5, <1>8, Names, RequestSent
  <1>10. t.reports = <<>> /\ Kept(g, t.ftp)
    BY <1>8, <1>9 DEF TimedFrom
  <1>11. /\ t.ftp.path = s.ftp.path /\ t.ftp.machine = s.ftp.machine
         /\ t.ftp.index = s.ftp.index /\ t.ftp.local = s.ftp.local
         /\ t.ftp.missing = s.ftp.missing /\ t.ftp.retryCount = s.ftp.retryCount
         /\ t.ftp.expectedOffset = hole.offset /\ t.ftp.fileOpen = s.ftp.fileOpen
    BY <1>6, <1>10 DEF Kept
  <1>12. Asks(s, t, "Read", t.ftp.expectedOffset, s.ftp.expectedSeq)
    BY <1>6, <1>8, <1>9, <1>11 DEF Asks
  <1>13. In(t.ftp, 2)
    BY <1>11 DEF In
  <1> QED
    BY <1>a, <1>10, <1>11, <1>12, <1>13 DEF Reads

(* The sessions are reset after the last one.                                 *)
Resets(s, t, n) ==
    /\ In(t.ftp, 3) /\ t.reports = <<>> /\ t.ftp.path = s.ftp.path
    /\ Asks(s, t, "Reset", 0, n)
    /\ t.ftp.missing = s.ftp.missing /\ t.ftp.local = s.ftp.local
    /\ t.ftp.fileOpen = s.ftp.fileOpen

LEMMA ResetAskedFor ==
    ASSUME linkUp, NEW p \in DOMAIN Downloads, NEW s, Typed(s, p), In(s.ftp, 2),
           s.reports = <<>>, NEW t, t = ResetBegin(Advanced(s))
    PROVE  Resets(s, t, s.ftp.expectedSeq)
  <1> DEFINE u == Advanced(s)
  <1>1. AdvancedTo(s, u, p)
    BY AdvancedFacts
  <1>2. t = SendRequestExpectAck(u, "Reset", 0)
    BY DEF ResetBegin
  <1> HIDE DEF u
  <1>3. Typed(u, p) /\ AdvancedFrom(s.ftp, u.ftp) /\ u.reports = <<>> /\ Silent(s, u)
    BY <1>1 DEF AdvancedTo
  <1>4. TimedFrom(u, t, p) /\ Asks(u, t, "Reset", 0, u.ftp.expectedSeq)
    BY <1>2, <1>3, Names, RequestSent
  <1>5. t.reports = <<>> /\ Kept(u.ftp, t.ftp)
    BY <1>3, <1>4 DEF TimedFrom
  <1>6. /\ t.ftp.path = s.ftp.path /\ t.ftp.machine = s.ftp.machine
        /\ t.ftp.index = s.ftp.index + 1 /\ t.ftp.local = s.ftp.local
        /\ t.ftp.missing = s.ftp.missing /\ t.ftp.fileOpen = s.ftp.fileOpen
    BY <1>3, <1>5 DEF Kept, AdvancedFrom, Silent
  <1>7. Asks(s, t, "Reset", 0, s.ftp.expectedSeq)
    BY <1>3, <1>4 DEF Asks, Silent, AdvancedFrom
  <1>8. In(t.ftp, 3)
    BY <1>6 DEF In
  <1> QED
    BY <1>5, <1>6, <1>7, <1>8 DEF Resets

(* A file that is not of the size given.                                      *)
TooShort(f) == f.checksize /\ \A n \in Nat : Seen(f) = 0 .. (n - 1) => n # f.fileSize

LEMMA ShortFile ==
    ASSUME NEW f, Solid(f), f.missing = <<>>, f.checksize, f.bytesWritten # f.fileSize
    PROVE  TooShort(f)
  <1> SUFFICES ASSUME NEW n \in Nat, Seen(f) = 0 .. (n - 1)
               PROVE  n # f.fileSize
    BY DEF TooShort
  <1>1. HolesIn(f.missing) = {}
    BY DEF HolesIn
  <1>2. OffsetsIn(f.local) = 0 .. (n - 1)
    BY <1>1 DEF Seen
  <1> DEFINE m == n - 1
  <1>3. m \in Int /\ (IF 0 > m THEN 0 ELSE m - 0 + 1) = n
    OBVIOUS
  <1>4. Cardinality(0 .. m) = n
    <2>1. 0 \in Int
      OBVIOUS
    <2> HIDE DEF m
    <2> QED
      BY <1>3, <2>1, FS_Interval
  <1>5. f.bytesWritten = Cardinality(0 .. (n - 1))
    BY <1>2 DEF Solid
  <1> QED
    BY <1>4, <1>5

(* The next hole, the reset, or the failure.                                  *)
FillsOn(s, t, n) ==
    \/ Reads(s, t, n) /\ t.ftp.retryCount = 0
    \/ s.ftp.missing = <<>> /\ Resets(s, t, n)
    \/ TooShort(s.ftp) /\ Ends(s, t, "Download failed")

LEMMA FillMissingExactly ==
    ASSUME linkUp, NEW p \in DOMAIN Downloads, NEW s, Typed(s, p), In(s.ftp, 2),
           Solid(s.ftp), s.reports = <<>>, NEW t, t = FillMissing(s)
    PROVE  FillsOn(s, t, s.ftp.expectedSeq)
  <1>1. CASE s.ftp.missing # <<>>
    <2> DEFINE u == FirstTry(s)
    <2>1. RecountedTo(s, u, 0, p)
      BY RetriesStart, CountSet DEF FirstTry
    <2>2. t = ReadMissing(u)
      BY <1>1 DEF FillMissing
    <2> HIDE DEF u
    <2>3. Typed(u, p) /\ Recounted(s.ftp, u.ftp, 0) /\ u.reports = <<>> /\ Silent(s, u)
      BY <2>1 DEF RecountedTo
    <2>4. In(u.ftp, 2) /\ u.ftp.missing # <<>>
      BY <1>1, <2>3 DEF Recounted, In
    <2>5. Reads(u, t, u.ftp.expectedSeq) /\ t.ftp.retryCount = u.ftp.retryCount
      BY <2>2, <2>3, <2>4, HoleAskedFor
    <2>6. Reads(s, t, s.ftp.expectedSeq) /\ t.ftp.retryCount = 0
      BY <2>3, <2>5 DEF Reads, Recounted, Silent, Asks
    <2> QED
      BY <1>1, <2>6 DEF FillsOn
  <1>2. CASE s.ftp.missing = <<>> /\ Complete(s)
    <2>1. t = ResetBegin(Advanced(s))
      BY <1>2 DEF FillMissing
    <2> QED
      BY <1>2, <2>1, ResetAskedFor DEF FillsOn
  <1>3. CASE s.ftp.missing = <<>> /\ ~Complete(s)
    <2>1. t = DownloadComplete(s, "Download failed")
      BY <1>3 DEF FillMissing
    <2>2. TooShort(s.ftp)
      BY <1>3, ShortFile DEF Complete
    <2> QED
      BY <2>1, <2>2, EndsSo DEF FillsOn
  <1> QED
    BY <1>1, <1>2, <1>3

LEMMA BurstsEndExactly ==
    ASSUME linkUp, NEW p \in DOMAIN Downloads, NEW B, NEW Z, NEW s, Going(s, p, B, Z),
           In(s.ftp, 1), NEW t, t = FillMissing(Advanced(s))
    PROVE  FillsOn(s, t, s.ftp.expectedSeq)
  <1> DEFINE u == Advanced(s)
  <1>1. Typed(s, p) /\ Reading(s.ftp) /\ s.reports = <<>>
    BY DEF Going, In, Reading
  <1>2. AdvancedTo(s, u, p)
    BY <1>1, AdvancedFacts
  <1>3. t = FillMissing(u)
    OBVIOUS
  <1> HIDE DEF u
  <1>4. Typed(u, p) /\ AdvancedFrom(s.ftp, u.ftp) /\ u.reports = <<>> /\ Silent(s, u)
    BY <1>1, <1>2 DEF AdvancedTo
  <1>5. In(u.ftp, 2)
    BY <1>4 DEF AdvancedFrom, In
  <1>6. Solid(u.ftp) /\ Seen(u.ftp) = Seen(s.ftp)
    BY <1>1, <1>4 DEF AdvancedFrom, Going, Account, Solid, Seen
  <1>7. FillsOn(u, t, u.ftp.expectedSeq)
    BY <1>1, <1>3, <1>4, <1>5, <1>6, FillMissingExactly
  <1>8. /\ u.ftp.missing = s.ftp.missing /\ u.ftp.local = s.ftp.local
        /\ u.ftp.path = s.ftp.path /\ u.ftp.checksize = s.ftp.checksize
        /\ u.ftp.fileSize = s.ftp.fileSize /\ u.ftp.fileOpen = s.ftp.fileOpen
        /\ u.ftp.expectedSeq = s.ftp.expectedSeq /\ u.sent = s.sent
    BY <1>4 DEF AdvancedFrom, Silent
  <1>9. CASE Reads(u, t, u.ftp.expectedSeq) /\ t.ftp.retryCount = 0
    BY <1>8, <1>9 DEF FillsOn, Reads, Asks
  <1>10. CASE u.ftp.missing = <<>> /\ Resets(u, t, u.ftp.expectedSeq)
    BY <1>8, <1>10 DEF FillsOn, Resets, Asks
  <1>11. CASE TooShort(u.ftp) /\ Ends(u, t, "Download failed")
    BY <1>6, <1>8, <1>11 DEF FillsOn, TooShort, Ends
  <1> QED
    BY <1>7, <1>9, <1>10, <1>11 DEF FillsOn

-----------------------------------------------------------------------------
(* The answers to a burst.                                                    *)

(* The same state but for the number, or the offset, expected.                *)
NumberedTo(s, t, n, p) ==
    /\ Typed(t, p) /\ Kept(s.ftp, t.ftp) /\ t.reports = s.reports
    /\ t.sent = s.sent /\ t.ftp.expectedSeq = n

LEMMA NumberSet ==
    ASSUME NEW p, NEW s, Typed(s, p), NEW n \in Numbers,
           NEW t, t = [s EXCEPT !.ftp.expectedSeq = n]
    PROVE  NumberedTo(s, t, n, p)
  <1> DEFINE g == [s.ftp EXCEPT !.expectedSeq = n]
  <1>1. s.ftp \in FtpType
    BY DEF Typed, ManagerType
  <1>2. t = [s EXCEPT !.ftp = g]
    OBVIOUS
  <1>3. g \in FtpType /\ Kept(s.ftp, g) /\ g.expectedSeq = n
    BY <1>1 DEF FtpType, Kept
  <1>4. g.path = s.ftp.path /\ g.checksize = s.ftp.checksize
    BY <1>3 DEF Kept
  <1> HIDE DEF g
  <1>5. Replaced(s, t, g, p)
    BY <1>2, <1>3, <1>4, StateReplaced
  <1> QED
    BY <1>3, <1>5 DEF Replaced, NumberedTo

PlacedTo(s, t, o, p) ==
    /\ Typed(t, p) /\ t.reports = s.reports /\ Silent(s, t)
    /\ t.ftp.path = s.ftp.path /\ t.ftp.machine = s.ftp.machine /\ t.ftp.index = s.ftp.index
    /\ t.ftp.retryCount = s.ftp.retryCount /\ t.ftp.expectedOffset = o

LEMMA OffsetSet ==
    ASSUME NEW p, NEW s, Typed(s, p), NEW o \in Nat,
           NEW t, t = [s EXCEPT !.ftp.expectedOffset = o]
    PROVE  PlacedTo(s, t, o, p)
  <1> DEFINE g == [s.ftp EXCEPT !.expectedOffset = o]
  <1>1. s.ftp \in FtpType
    BY DEF Typed, ManagerType
  <1>2. t = [s EXCEPT !.ftp = g]
    OBVIOUS
  <1>3. /\ g \in FtpType /\ g.expectedOffset = o /\ g.path = s.ftp.path
        /\ g.checksize = s.ftp.checksize /\ g.machine = s.ftp.machine
        /\ g.index = s.ftp.index /\ g.retryCount = s.ftp.retryCount
        /\ g.fileOpen = s.ftp.fileOpen /\ g.expectedSeq = s.ftp.expectedSeq
    BY <1>1 DEF FtpType
  <1> HIDE DEF g
  <1>5. Replaced(s, t, g, p)
    BY <1>2, <1>3, StateReplaced
  <1> QED
    BY <1>3, <1>5 DEF Replaced, PlacedTo, Silent

(* The next burst is asked for.                                               *)
BurstsOn(s, t, offset, n) ==
    /\ In(t.ftp, 1) /\ t.reports = <<>> /\ t.ftp.path = s.ftp.path
    /\ Asks(s, t, "Burst", offset, n)
    /\ t.ftp.expectedOffset = offset /\ t.ftp.fileOpen = s.ftp.fileOpen

LEMMA BurstAskedExactly ==
    ASSUME linkUp, NEW p \in DOMAIN Downloads, NEW s, Typed(s, p), In(s.ftp, 1),
           s.reports = <<>>, NEW t, t = BurstRead(s)
    PROVE  BurstsOn(s, t, s.ftp.expectedOffset, s.ftp.expectedSeq) /\ t.ftp.retryCount = 0
  <1> DEFINE u == FirstTry(s)
  <1>1. RecountedTo(s, u, 0, p)
    BY RetriesStart, CountSet DEF FirstTry
  <1>2. s.ftp.expectedOffset \in Nat
    BY DEF Typed, ManagerType, FtpType
  <1>3. t = SendRequestExpectAck(u, "Burst", s.ftp.expectedOffset)
    BY DEF BurstRead
  <1> HIDE DEF u
  <1>4. Typed(u, p) /\ Recounted(s.ftp, u.ftp, 0) /\ u.reports = <<>> /\ Silent(s, u)
    BY <1>1 DEF RecountedTo
  <1>5. /\ TimedFrom(u, t, p)
        /\ Asks(u, t, "Burst", s.ftp.expectedOffset, u.ftp.expectedSeq)
    BY <1>2, <1>3, <1>4, Names, RequestSent
  <1> QED
    BY <1>4, <1>5 DEF TimedFrom, Kept, Recounted, Silent, Asks, BurstsOn, In

(* A block is taken, which is not the burst's last.                           *)
Passes(s, t, r) ==
    /\ In(t.ftp, 1) /\ t.reports = <<>> /\ t.ftp.path = s.ftp.path /\ t.sent = s.sent
    /\ t.ftp.expectedSeq = (r.seq + 1) % SeqNumbers /\ t.ftp.expectedOffset = r.offset + 1
    /\ t.ftp.fileOpen = s.ftp.fileOpen /\ t.ftp.retryCount = s.ftp.retryCount

BlockTaken(s, t, r) ==
    \/ ~r.burstComplete /\ Passes(s, t, r)
    \/ r.burstComplete /\ BurstsOn(s, t, r.offset + 1, r.seq) /\ t.ftp.retryCount = 0

LEMMA TimerSet ==
    ASSUME NEW p, NEW s, Typed(s, p), NEW t, t = TimerStarted(s)
    PROVE  NumberedTo(s, t, s.ftp.expectedSeq, p)
  <1> DEFINE g == [s.ftp EXCEPT !.timer = TRUE]
  <1>1. s.ftp \in FtpType
    BY DEF Typed, ManagerType
  <1>2. t = [s EXCEPT !.ftp = g]
    BY DEF TimerStarted
  <1>3. g \in FtpType /\ Kept(s.ftp, g) /\ g.expectedSeq = s.ftp.expectedSeq
    BY <1>1 DEF FtpType, Kept
  <1>4. g.path = s.ftp.path /\ g.checksize = s.ftp.checksize
    BY <1>3 DEF Kept
  <1> HIDE DEF g
  <1>5. Replaced(s, t, g, p)
    BY <1>2, <1>3, <1>4, StateReplaced
  <1> QED
    BY <1>3, <1>5 DEF Replaced, NumberedTo

LEMMA BurstBlockExactly ==
    ASSUME linkUp, NEW p \in DOMAIN Downloads, NEW s, Typed(s, p), In(s.ftp, 1),
           s.reports = <<>>, NEW r \in AnswerType, NEW t, t = BurstBlock(s, r)
    PROVE  BlockTaken(s, t, r)
  <1> DEFINE next == [s EXCEPT !.ftp.expectedOffset = r.offset + 1]
             n == (r.seq + 1) % SeqNumbers
             o == r.offset + 1
  <1>1. r.seq \in Numbers /\ r.seq \in Int /\ o \in Nat
    BY FtpAssumption DEF AnswerType, Numbers
  <1>2. n \in Numbers
    BY <1>1, NumbersAreModulo
  <1>3. PlacedTo(s, next, o, p)
    BY <1>1, OffsetSet
  <1>4. \/ r.burstComplete /\ t = BurstRead([next EXCEPT !.ftp.expectedSeq = r.seq])
        \/ ~r.burstComplete /\ t = TimerStarted([next EXCEPT !.ftp.expectedSeq = n])
    BY DEF BurstBlock
  <1>n. n = (r.seq + 1) % SeqNumbers /\ o = r.offset + 1
    OBVIOUS
  <1> HIDE DEF next, n, o
  <1>5. /\ Typed(next, p) /\ next.reports = <<>> /\ next.sent = s.sent
        /\ next.ftp.fileOpen = s.ftp.fileOpen /\ next.ftp.path = s.ftp.path
        /\ In(next.ftp, 1) /\ next.ftp.retryCount = s.ftp.retryCount
        /\ next.ftp.expectedOffset = o
    BY <1>3 DEF PlacedTo, Silent, In
  <1>6. CASE r.burstComplete /\ t = BurstRead([next EXCEPT !.ftp.expectedSeq = r.seq])
    <2> DEFINE v == [next EXCEPT !.ftp.expectedSeq = r.seq]
    <2>1. NumberedTo(next, v, r.seq, p)
      BY <1>1, <1>5, NumberSet
    <2>2. t = BurstRead(v)
      BY <1>6
    <2> HIDE DEF v
    <2>3. /\ Typed(v, p) /\ v.reports = <<>> /\ v.sent = s.sent /\ v.ftp.expectedSeq = r.seq
          /\ v.ftp.fileOpen = s.ftp.fileOpen /\ v.ftp.path = s.ftp.path /\ In(v.ftp, 1)
          /\ v.ftp.expectedOffset = o
      BY <1>5, <2>1 DEF NumberedTo, Kept, In
    <2>4. BurstsOn(v, t, v.ftp.expectedOffset, v.ftp.expectedSeq) /\ t.ftp.retryCount = 0
      BY <2>2, <2>3, BurstAskedExactly
    <2> QED
      BY <1>6, <1>n, <2>3, <2>4 DEF BurstsOn, Asks, BlockTaken
  <1>7. CASE ~r.burstComplete /\ t = TimerStarted([next EXCEPT !.ftp.expectedSeq = n])
    <2> DEFINE v == [next EXCEPT !.ftp.expectedSeq = n]
    <2>1. NumberedTo(next, v, n, p)
      BY <1>2, <1>5, NumberSet
    <2>2. t = TimerStarted(v)
      BY <1>7
    <2> HIDE DEF v
    <2>3. Typed(v, p) /\ v.reports = <<>> /\ v.sent = s.sent /\ v.ftp.expectedSeq = n
      BY <1>5, <2>1 DEF NumberedTo
    <2>4. NumberedTo(v, t, n, p)
      BY <2>2, <2>3, TimerSet
    <2> QED
      BY <1>5, <1>7, <1>n, <2>1, <2>3, <2>4 DEF NumberedTo, Kept, In, Passes, BlockTaken
  <1> QED
    BY <1>4, <1>6, <1>7

(* All that an answer to a burst may do.                                      *)
Stays(s, t) ==
    /\ Kept(s.ftp, t.ftp) /\ t.reports = <<>>
    /\ t.sent = s.sent /\ t.ftp.expectedSeq = s.ftp.expectedSeq

BurstOutcome(s, t, r) ==
    \/ /\ r.ack /\ (r.seq < s.ftp.expectedSeq \/ r.offset < s.ftp.expectedOffset)
       /\ Stays(s, t)
    \/ r.ack /\ Ends(s, t, "Error saving file")
    \/ r.ack /\ r.offset >= s.ftp.expectedOffset /\ BlockTaken(s, t, r)
    \/ /\ ~r.ack /\ r.eof /\ r.seq # s.ftp.expectedSeq /\ t.ftp.retryCount = 0
       /\ BurstsOn(s, t, s.ftp.expectedOffset, r.seq)
    \/ ~r.ack /\ r.eof /\ r.seq = s.ftp.expectedSeq /\ FillsOn(s, t, s.ftp.expectedSeq)
    \/ ~r.ack /\ ~r.eof /\ Ends(s, t, "Download failed")

LEMMA SavedExactly ==
    ASSUME NEW p, NEW s, Typed(s, p), s.reports = <<>>, NEW next, NEW t \in Saved(s, next)
    PROVE  t = next \/ Ends(s, t, "Error saving file")
  <1>1. t = next \/ t = DownloadComplete(s, "Error saving file")
    BY DEF Saved
  <1> QED
    BY <1>1, EndsSo

LEMMA BurstAckExactly ==
    ASSUME linkUp, NEW p \in DOMAIN Downloads, NEW B, NEW Z, NEW s, Going(s, p, B, Z),
           In(s.ftp, 1), NEW r \in AnswerType, r.ack, NEW t \in BurstAcked(s, r)
    PROVE  BurstOutcome(s, t, r)
  <1>0. Typed(s, p) /\ s.reports = <<>> /\ Reading(s.ftp)
    BY DEF Going, In, Reading
  <1>a. r.offset \in Nat /\ s.ftp.expectedOffset \in Nat
    BY <1>0 DEF Typed, ManagerType, FtpType, AnswerType
  <1>1. CASE r.seq < s.ftp.expectedSeq
    <2>1. t = s
      BY <1>1 DEF BurstAcked
    <2> QED
      BY <1>0, <1>1, <2>1 DEF BurstOutcome, Stays, Kept
  <1>2. CASE ~(r.seq < s.ftp.expectedSeq) /\ r.offset < s.ftp.expectedOffset
    <2>1. t = TimerStarted(s)
      BY <1>2 DEF BurstAcked
    <2>2. NumberedTo(s, t, s.ftp.expectedSeq, p)
      BY <1>0, <2>1, TimerSet
    <2> QED
      BY <1>0, <1>2, <2>2 DEF BurstOutcome, Stays, NumberedTo
  <1>3. CASE ~(r.seq < s.ftp.expectedSeq) /\ ~(r.offset < s.ftp.expectedOffset)
    <2> DEFINE u == Skipped(s, r)
               w == Written(u, r)
               next == BurstBlock(w, r)
    <2>1. t \in Saved(u, next)
      BY <1>3 DEF BurstAcked
    <2>3. Solid(s.ftp) /\ Seen(s.ftp) = 0 .. (s.ftp.expectedOffset - 1)
      BY <1>0 DEF Going, Account
    <2>4. SkippedTo(s, u, r, p)
      BY <1>0, <1>3, <2>3, SkippedFacts
    <2>5. WrittenTo(u, w, r, p)
      BY <2>4, WrittenFacts DEF SkippedTo
    <2> HIDE DEF u, w
    <2>6. /\ Typed(u, p) /\ u.reports = <<>> /\ Silent(s, u) /\ u.ftp.path = s.ftp.path
          /\ In(u.ftp, 1) /\ u.ftp.retryCount = s.ftp.retryCount
      BY <1>0, <2>4 DEF SkippedTo, In
    <2>7. /\ Typed(w, p) /\ w.reports = <<>> /\ Silent(s, w) /\ w.ftp.path = s.ftp.path
          /\ In(w.ftp, 1) /\ w.ftp.retryCount = s.ftp.retryCount
      BY <2>5, <2>6 DEF WrittenTo, WrittenFrom, Silent, In
    <2>8. BlockTaken(w, next, r)
      BY <2>7, BurstBlockExactly
    <2>9. BlockTaken(s, next, r)
      BY <2>7, <2>8 DEF BlockTaken, BurstsOn, Passes, Silent, Asks
    <2> HIDE DEF next
    <2>10. t = next \/ Ends(u, t, "Error saving file")
      BY <2>1, <2>6, SavedExactly
    <2>11. t = next \/ Ends(s, t, "Error saving file")
      BY <2>6, <2>10 DEF Ends, Silent
    <2>12. r.offset >= s.ftp.expectedOffset
      BY <1>3, <1>a
    <2> QED
      BY <2>9, <2>11, <2>12 DEF BurstOutcome
  <1> QED
    BY <1>1, <1>2, <1>3

LEMMA BurstExactly ==
    ASSUME linkUp, NEW p \in DOMAIN Downloads, NEW B, NEW Z, NEW s, Going(s, p, B, Z),
           In(s.ftp, 1), NEW r \in AnswerType, NEW t \in BurstAnswered(s, r)
    PROVE  BurstOutcome(s, t, r)
  <1>0. Typed(s, p) /\ s.reports = <<>>
    BY DEF Going
  <1>1. r.ack \in BOOLEAN /\ r.eof \in BOOLEAN /\ r.seq \in Numbers
    BY DEF AnswerType
  <1>2. CASE r.ack
    <2>1. t \in BurstAcked(s, r)
      BY <1>2 DEF BurstAnswered
    <2> QED
      BY <1>2, <2>1, BurstAckExactly
  <1>3. CASE ~r.ack /\ r.eof /\ r.seq # s.ftp.expectedSeq
    <2> DEFINE u == [s EXCEPT !.ftp.expectedSeq = r.seq]
    <2>1. t = BurstRead(u)
      BY <1>3 DEF BurstAnswered
    <2>2. NumberedTo(s, u, r.seq, p)
      BY <1>0, <1>1, NumberSet
    <2> HIDE DEF u
    <2>3. /\ Typed(u, p) /\ u.reports = <<>> /\ u.sent = s.sent /\ u.ftp.expectedSeq = r.seq
          /\ u.ftp.fileOpen = s.ftp.fileOpen /\ u.ftp.path = s.ftp.path /\ In(u.ftp, 1)
          /\ u.ftp.expectedOffset = s.ftp.expectedOffset
      BY <1>0, <2>2 DEF NumberedTo, Kept, In
    <2>4. BurstsOn(u, t, u.ftp.expectedOffset, u.ftp.expectedSeq) /\ t.ftp.retryCount = 0
      BY <2>1, <2>3, BurstAskedExactly
    <2> QED
      BY <1>3, <2>3, <2>4 DEF BurstsOn, Asks, BurstOutcome
  <1>4. CASE ~r.ack /\ r.eof /\ r.seq = s.ftp.expectedSeq
    <2>1. t = FillMissing(Advanced(s))
      BY <1>4 DEF BurstAnswered
    <2> QED
      BY <1>4, <2>1, BurstsEndExactly DEF BurstOutcome
  <1>5. CASE ~r.ack /\ ~r.eof
    <2>1. t = DownloadComplete(s, "Download failed")
      BY <1>5 DEF BurstAnswered
    <2> QED
      BY <1>0, <1>5, <2>1, EndsSo DEF BurstOutcome
  <1> QED
    BY <1>1, <1>2, <1>3, <1>4, <1>5

-----------------------------------------------------------------------------
(* The answers to a read.                                                     *)

(* The hole is asked for again, with the same number.                         *)
LEMMA HoleAskedAgain ==
    ASSUME linkUp, NEW p \in DOMAIN Downloads, NEW s, Typed(s, p), In(s.ftp, 2),
           s.reports = <<>>, s.ftp.missing # <<>>, NEW t, t = FillMissingAgain(s)
    PROVE  /\ Reads(s, t, (s.ftp.expectedSeq - 2) % SeqNumbers)
           /\ t.ftp.retryCount = s.ftp.retryCount
  <1> DEFINE u == SameNumber(s)
  <1>1. /\ Typed(u, p) /\ Kept(s.ftp, u.ftp) /\ u.reports = <<>>
        /\ u.sent = s.sent /\ u.ftp.expectedSeq = (s.ftp.expectedSeq - 2) % SeqNumbers
    BY NumberTakenBack
  <1>2. t = ReadMissing(u)
    BY DEF FillMissingAgain
  <1> HIDE DEF u
  <1>3. In(u.ftp, 2) /\ u.ftp.missing # <<>>
    BY <1>1 DEF Kept, In
  <1>4. Reads(u, t, u.ftp.expectedSeq) /\ t.ftp.retryCount = u.ftp.retryCount
    BY <1>1, <1>2, <1>3, HoleAskedFor
  <1> QED
    BY <1>1, <1>4 DEF Reads, Kept, Asks

(* The next hole is asked for, or the reset, or the file is too short; what   *)
(* is seen of the file stays.                                                 *)
ReadsOn(s, t, n) ==
    /\ In(t.ftp, 2) /\ t.reports = <<>> /\ t.ftp.path = s.ftp.path
    /\ Asks(s, t, "Read", t.ftp.expectedOffset, n)
    /\ t.ftp.fileOpen = s.ftp.fileOpen /\ Seen(t.ftp) = Seen(s.ftp)

ResetsOn(s, t, n) ==
    /\ In(t.ftp, 3) /\ t.reports = <<>> /\ t.ftp.path = s.ftp.path
    /\ Asks(s, t, "Reset", 0, n)
    /\ t.ftp.fileOpen = s.ftp.fileOpen /\ Seen(t.ftp) = Seen(s.ftp)

FillsFrom(s, t, n) ==
    \/ ReadsOn(s, t, n) /\ t.ftp.retryCount = 0
    \/ ResetsOn(s, t, n) /\ t.ftp.missing = <<>>
    \/ TooShort(s.ftp) /\ Ends(s, t, "Download failed")

LEMMA OnIsFrom ==
    ASSUME NEW s, NEW u, NEW t, NEW n, FillsOn(u, t, n), Closes(s.ftp, u.ftp), Silent(s, u)
    PROVE  FillsFrom(s, t, n)
  <1>1. /\ Seen(u.ftp) = Seen(s.ftp) /\ u.ftp.path = s.ftp.path
        /\ u.ftp.checksize = s.ftp.checksize /\ u.ftp.fileSize = s.ftp.fileSize
        /\ u.ftp.fileOpen = s.ftp.fileOpen /\ u.ftp.expectedSeq = s.ftp.expectedSeq
        /\ u.sent = s.sent
    BY DEF Closes, Silent
  <1>2. CASE Reads(u, t, n) /\ t.ftp.retryCount = 0
    <2>1. Seen(t.ftp) = Seen(u.ftp)
      BY <1>2 DEF Reads, Seen
    <2> QED
      BY <1>1, <1>2, <2>1 DEF Reads, ReadsOn, Asks, FillsFrom
  <1>3. CASE u.ftp.missing = <<>> /\ Resets(u, t, n)
    <2>1. Seen(t.ftp) = Seen(u.ftp)
      BY <1>3 DEF Resets, Seen
    <2> QED
      BY <1>1, <1>3, <2>1 DEF Resets, ResetsOn, Asks, FillsFrom
  <1>4. CASE TooShort(u.ftp) /\ Ends(u, t, "Download failed")
    BY <1>1, <1>4 DEF TooShort, Ends, FillsFrom
  <1> QED
    BY <1>2, <1>3, <1>4 DEF FillsOn

FillOutcome(s, t, r) ==
    \/ /\ r.ack /\ r.offset # s.ftp.expectedOffset
       /\ \/ Ends(s, t, "Download failed")
          \/ ReadsOn(s, t, (s.ftp.expectedSeq - 2) % SeqNumbers)
    \/ r.ack /\ Ends(s, t, "Error saving file")
    \/ r.ack /\ r.offset = s.ftp.expectedOffset /\ FillsFrom(s, t, s.ftp.expectedSeq)
    \/ ~r.ack /\ Ends(s, t, "Download failed")
    \/ ~r.ack /\ r.eof /\ ResetsOn(s, t, s.ftp.expectedSeq)

(* A retry, if there is one left.                                             *)
Retried(s, u, again, t, p) ==
    /\ RecountedTo(s, u, s.ftp.retryCount + 1, p) /\ u.reports = <<>>
    /\ \/ s.ftp.retryCount = MaxRetry /\ Ends(s, t, "Download failed")
       \/ s.ftp.retryCount < MaxRetry /\ t = again

LEMMA RetryExactly ==
    ASSUME NEW p \in DOMAIN Downloads, NEW B, NEW Z, NEW s, Going(s, p, B, Z), NEW again,
           NEW u, u = Counted(s), NEW t, t = Retry(s, again)
    PROVE  Retried(s, u, again, t, p)
  <1>1. RecountedTo(s, u, s.ftp.retryCount + 1, p)
    BY CountedFacts
  <1>2. Typed(u, p) /\ u.reports = <<>> /\ Recounted(s.ftp, u.ftp, s.ftp.retryCount + 1) /\ Silent(s, u)
    BY <1>1 DEF RecountedTo, Going
  <1>3. u.ftp.retryCount = s.ftp.retryCount + 1 /\ u.ftp.path = s.ftp.path
    BY <1>2 DEF Recounted
  <1>4. s.ftp.retryCount \in Nat /\ s.ftp.retryCount <= MaxRetry /\ MaxRetry \in Nat
    BY FtpAssumption DEF Going, Typed, ManagerType, FtpType
  <1>5. CASE u.ftp.retryCount > MaxRetry
    <2>1. t = DownloadComplete(u, "Download failed")
      BY <1>5 DEF Retry
    <2>2. Ends(u, t, "Download failed")
      BY <1>2, <2>1, EndsSo
    <2>3. Ends(s, t, "Download failed")
      BY <1>2, <1>3, <2>2 DEF Ends, Silent
    <2>4. s.ftp.retryCount = MaxRetry
      BY <1>3, <1>4, <1>5
    <2> QED
      BY <1>1, <1>2, <2>3, <2>4 DEF Retried
  <1>6. CASE ~(u.ftp.retryCount > MaxRetry)
    <2>1. t = again
      BY <1>6 DEF Retry
    <2>2. s.ftp.retryCount < MaxRetry
      BY <1>3, <1>4, <1>6
    <2> QED
      BY <1>1, <1>2, <2>1, <2>2 DEF Retried
  <1> QED
    BY <1>5, <1>6

LEMMA FillExactly ==
    ASSUME linkUp, NEW p \in DOMAIN Downloads, NEW s, Going(s, p, Blocks, Nat),
           In(s.ftp, 2), NEW r \in AnswerType, r.ack => <<r.file, r.offset>> \in Blocks,
           NEW t \in FillAnswered(s, r)
    PROVE  FillOutcome(s, t, r)
  <1>1. r.ack \in BOOLEAN /\ r.eof \in BOOLEAN
    BY DEF AnswerType
  <1>2. Typed(s, p) /\ s.reports = <<>> /\ Reading(s.ftp)
    BY DEF Going, In, Reading
  <1>4. /\ Filling(s, p, Blocks, Nat) /\ s.ftp.missing # <<>>
        /\ s.ftp.expectedOffset = Head(s.ftp.missing).offset
    BY <1>2 DEF Going, Account, Filling
  <1>5. CASE r.ack /\ r.offset # s.ftp.expectedOffset
    <2> DEFINE u == Counted(s)
               again == FillMissingAgain(u)
    <2>1. t = Retry(s, again)
      BY <1>5 DEF FillAnswered
    <2>a. u = Counted(s)
      OBVIOUS
    <2> HIDE DEF u, again
    <2>b. Retried(s, u, again, t, p)
      BY <2>1, <2>a, RetryExactly
    <2>2. /\ RecountedTo(s, u, s.ftp.retryCount + 1, p) /\ u.reports = <<>>
          /\ Ends(s, t, "Download failed") \/ t = again
      BY <2>b DEF Retried
    <2>3. /\ Typed(u, p) /\ In(u.ftp, 2) /\ u.ftp.missing # <<>> /\ Silent(s, u)
          /\ u.ftp.missing = s.ftp.missing /\ u.ftp.local = s.ftp.local /\ u.ftp.path = s.ftp.path
      BY <1>4, <2>2 DEF RecountedTo, Recounted, In
    <2>4. Reads(u, again, (u.ftp.expectedSeq - 2) % SeqNumbers)
      BY <2>2, <2>3, HoleAskedAgain DEF again
    <2> HIDE DEF again
    <2>5. Seen(again.ftp) = Seen(s.ftp)
      BY <2>3, <2>4 DEF Reads, Seen
    <2>6. ReadsOn(s, again, (s.ftp.expectedSeq - 2) % SeqNumbers)
      BY <2>3, <2>4, <2>5 DEF Reads, ReadsOn, Asks, Silent
    <2> QED
      BY <1>5, <2>2, <2>6 DEF FillOutcome
  <1>6. CASE r.ack /\ r.offset = s.ftp.expectedOffset
    <2> DEFINE w == Written(s, r)
               v == [w EXCEPT !.ftp.missing = HoleShrunk(@)]
               next == FillMissing(v)
    <2>1. t \in Saved(s, next)
      BY <1>6 DEF FillAnswered, FillBlock
    <2>2. WrittenTo(s, w, r, p)
      BY <1>2, WrittenFacts
    <2> HIDE DEF w
    <2>3. Filling(v, p, Blocks, Nat) /\ Closes(s.ftp, v.ftp) /\ Silent(s, v)
      BY <1>4, <1>6, <2>2, HoleCloses
    <2> HIDE DEF v
    <2>4. Typed(v, p) /\ In(v.ftp, 2) /\ Solid(v.ftp) /\ v.reports = <<>>
      BY <2>3 DEF Filling
    <2>5. FillsOn(v, next, v.ftp.expectedSeq)
      BY <2>4, FillMissingExactly
    <2> HIDE DEF next
    <2>6. v.ftp.expectedSeq = s.ftp.expectedSeq
      BY <2>3 DEF Silent
    <2>7. FillsFrom(s, next, s.ftp.expectedSeq)
      BY <2>3, <2>5, <2>6, OnIsFrom
    <2>8. t = next \/ Ends(s, t, "Error saving file")
      BY <1>2, <2>1, SavedExactly
    <2> QED
      BY <1>6, <2>7, <2>8 DEF FillOutcome
  <1>7. CASE ~r.ack
    <2>1. \/ r.eof /\ t = ResetBegin(Advanced(s))
          \/ t = DownloadComplete(s, "Download failed")
      BY <1>7 DEF FillAnswered
    <2>2. CASE r.eof /\ t = ResetBegin(Advanced(s))
      <3>1. Resets(s, t, s.ftp.expectedSeq)
        BY <1>2, <2>2, ResetAskedFor
      <3>2. Seen(t.ftp) = Seen(s.ftp)
        BY <3>1 DEF Resets, Seen
      <3> QED
        BY <1>7, <2>2, <3>1, <3>2 DEF Resets, ResetsOn, FillOutcome
    <2>3. CASE t = DownloadComplete(s, "Download failed")
      BY <1>2, <1>7, <2>3, EndsSo DEF FillOutcome
    <2> QED
      BY <2>1, <2>2, <2>3
  <1> QED
    BY <1>1, <1>5, <1>6, <1>7

-----------------------------------------------------------------------------
(* The answer to an open, and the requests that start and end a download.     *)
OpensFile(s, t) ==
    /\ In(t.ftp, 1) /\ t.reports = <<>> /\ t.ftp.path = s.ftp.path
    /\ t.ftp.fileOpen = TRUE /\ t.ftp.expectedOffset = 0 /\ t.ftp.retryCount = 0
    /\ Asks(s, t, "Burst", 0, s.ftp.expectedSeq)

LEMMA OpenExactly ==
    ASSUME linkUp, NEW p \in DOMAIN Downloads, NEW s, Typed(s, p), s.reports = <<>>,
           In(s.ftp, 0), NEW r \in AnswerType, NEW t \in OpenAnswered(s, r)
    PROVE  (r.ack /\ OpensFile(s, t)) \/ Ends(s, t, "Download failed")
  <1>2. r.size \in Nat
    BY DEF AnswerType
  <1> DEFINE u == Opened(s, r.size)
             v == [s EXCEPT !.ftp.fileSize = r.size]
  <1>4. \/ r.ack /\ t = BurstRead(u)
        \/ t = DownloadComplete(v, "Download failed")
        \/ t = DownloadComplete(s, "Download failed")
    BY DEF OpenAnswered, Opened
  <1>5. OpenedTo(s, u, r.size, p)
    BY <1>2, OpenedFacts
  <1>6. SizedTo(s, v, r.size, p)
    BY <1>2, SizeSet
  <1> HIDE DEF u, v
  <1>7. CASE r.ack /\ t = BurstRead(u)
    <2>1. /\ Typed(u, p) /\ u.reports = <<>> /\ u.sent = s.sent /\ u.ftp.path = s.ftp.path
          /\ u.ftp.expectedSeq = s.ftp.expectedSeq /\ u.ftp.fileOpen = TRUE
          /\ u.ftp.expectedOffset = 0 /\ In(u.ftp, 1)
      BY <1>5 DEF OpenedTo, OpenedFrom, In
    <2>2. BurstsOn(u, t, u.ftp.expectedOffset, u.ftp.expectedSeq) /\ t.ftp.retryCount = 0
      BY <1>7, <2>1, BurstAskedExactly
    <2> QED
      BY <1>7, <2>1, <2>2 DEF BurstsOn, Asks, OpensFile
  <1>8. CASE t = DownloadComplete(v, "Download failed")
    <2>1. s.ftp \in FtpType
      BY DEF Typed, ManagerType
    <2>2. /\ Typed(v, p) /\ v.reports = <<>> /\ v.sent = s.sent
          /\ v.ftp = [s.ftp EXCEPT !.fileSize = r.size]
      BY <1>6 DEF SizedTo
    <2>3. /\ v.ftp.path = s.ftp.path /\ v.ftp.expectedSeq = s.ftp.expectedSeq
          /\ v.ftp.fileOpen = s.ftp.fileOpen
      BY <2>1, <2>2 DEF FtpType
    <2>4. Ends(v, t, "Download failed")
      BY <1>8, <2>2, EndsSo
    <2> QED
      BY <2>2, <2>3, <2>4 DEF Ends
  <1>9. CASE t = DownloadComplete(s, "Download failed")
    BY <1>9, EndsSo
  <1> QED
    BY <1>4, <1>7, <1>8, <1>9

(* Terminating.                                                               *)
Terminating(f, t, n) ==
    /\ Ending(t.ftp) /\ t.reports = <<>> /\ t.ftp.path = f.path /\ t.ftp.fileOpen = f.fileOpen
    /\ t.sent = <<[opcode |-> "Terminate", offset |-> 0, file |-> f.path,
                   seq |-> (n + 1) % SeqNumbers]>>
    /\ t.ftp.expectedSeq = (n + 2) % SeqNumbers

LEMMA CancelExactly ==
    ASSUME linkUp, NEW B, NEW Z, Downloading(B, Z),
           NEW s, s = [Manager EXCEPT !.ftp.machine = TerminateMachine,
                                      !.ftp.index = 0, !.ftp.retryCount = 0],
           NEW t, t = TerminateBegin(s)
    PROVE  Terminating(ftp, t, ftp.expectedSeq)
  <1> DEFINE g1 == [ftp EXCEPT !.machine = TerminateMachine]
             g2 == [g1 EXCEPT !.index = 0]
             g == [g2 EXCEPT !.retryCount = 0]
             p == ftp.path
  <1>1. ftp \in FtpType /\ p \in DOMAIN Downloads
    BY DEF Downloading
  <1>2. s = [ftp |-> g, sent |-> <<>>, reports |-> <<>>]
    BY DEF Manager
  <1>s. s.sent = <<>>
    BY DEF Manager
  <1>3. /\ g \in FtpType /\ g.path = p /\ g.checksize = ftp.checksize
        /\ g.machine = TerminateMachine /\ g.index = 0
        /\ g.expectedSeq = ftp.expectedSeq /\ g.fileOpen = ftp.fileOpen
    <2>1. /\ g1 \in FtpType /\ g1.path = p /\ g1.checksize = ftp.checksize
          /\ g1.machine = TerminateMachine
          /\ g1.expectedSeq = ftp.expectedSeq /\ g1.fileOpen = ftp.fileOpen
      BY <1>1 DEF FtpType
    <2> HIDE DEF g1
    <2>2. /\ g2 \in FtpType /\ g2.path = p /\ g2.checksize = ftp.checksize
          /\ g2.machine = TerminateMachine /\ g2.index = 0
          /\ g2.expectedSeq = ftp.expectedSeq /\ g2.fileOpen = ftp.fileOpen
      <3>1. 0 \in Int
        OBVIOUS
      <3>2. g2 \in FtpType
        BY <2>1, <3>1, IndexSet
      <3> QED
        BY <2>1, <3>1, <3>2 DEF FtpType
    <2> HIDE DEF g2
    <2> QED
      BY <2>2, RetriesStart DEF FtpType
  <1> HIDE DEF g
  <1>a. g.checksize = Downloads[p].checksize
    BY <1>3 DEF Downloading
  <1>b. ManagerAt(s, g, p)
    BY <1>2, <1>3, <1>a, ManagerMade
  <1>4. Typed(s, p) /\ s.ftp = g /\ s.reports = <<>> /\ s.sent = <<>>
    BY <1>s, <1>b DEF ManagerAt
  <1>c. p = ftp.path
    OBVIOUS
  <1> HIDE DEF p
  <1>5. TimedFrom(s, t, p) /\ Asks(s, t, "Terminate", 0, s.ftp.expectedSeq)
    BY <1>1, <1>4, Names, RequestSent DEF TerminateBegin
  <1>6. t.sent = <<[opcode |-> "Terminate", offset |-> 0, file |-> ftp.path,
                    seq |-> (ftp.expectedSeq + 1) % SeqNumbers]>>
    BY <1>3, <1>4, <1>5, <1>c DEF Asks
  <1>7. t.ftp.expectedSeq = (ftp.expectedSeq + 2) % SeqNumbers
    BY <1>3, <1>4, <1>5 DEF Asks
  <1> QED
    BY <1>3, <1>4, <1>5, <1>6, <1>7, <1>c DEF TimedFrom, Kept, Ending, Terminating

LEMMA TerminateAgainExactly ==
    ASSUME linkUp, NEW p \in DOMAIN Downloads, NEW s, Typed(s, p), Ending(s.ftp),
           s.reports = <<>>, s.sent = <<>>, NEW t, t = TerminateBegin(s)
    PROVE  Terminating(s.ftp, t, s.ftp.expectedSeq)
  <1>1. TimedFrom(s, t, p) /\ Asks(s, t, "Terminate", 0, s.ftp.expectedSeq)
    BY Names, RequestSent DEF TerminateBegin
  <1> QED
    BY <1>1 DEF TimedFrom, Kept, Asks, Ending, Terminating

(* Starting.                                                                  *)
Fresh(g, d) ==
    /\ g.path = d /\ g.expectedSeq = ftp.expectedSeq /\ g.fileOpen = FALSE /\ g.fileSize = 0

LEMMA ResetExactly ==
    ASSUME ftp \in FtpType, NEW d \in DOMAIN Downloads,
           NEW g, g = Reset([ftp EXCEPT !.machine = DownloadMachine], d)
    PROVE  Fresh(g, d) /\ g \in FtpType
  <1> DEFINE f == [ftp EXCEPT !.machine = DownloadMachine]
             c == Downloads[d].checksize
  <1>a. Downloads \in Seq(DownloadType)
    BY FtpAssumption
  <1>b. d \in Nat /\ Downloads[d] \in DownloadType
    BY <1>a
  <1>1. d \in Nat /\ c \in BOOLEAN
    BY <1>b DEF DownloadType
  <1>2. f \in FtpType /\ f.expectedSeq = ftp.expectedSeq
    BY DEF FtpType
  <1>3. g = [f EXCEPT !.path = d, !.expectedOffset = 0, !.bytesWritten = 0, !.retryCount = 0,
              !.fileSize = 0, !.missing = <<>>, !.fileOpen = FALSE, !.local = {},
              !.checksize = c]
    BY DEF Reset
  <1>4. <<>> \in Seq(HoleType) /\ 0 \in 0 .. (MaxRetry + 1) /\ {} \in SUBSET (Nat \X Nat)
    BY FtpAssumption
  <1> HIDE DEF f, c
  <1> DEFINE g1 == [f EXCEPT !.path = d, !.expectedOffset = 0, !.bytesWritten = 0,
                             !.retryCount = 0]
             g2 == [g1 EXCEPT !.fileSize = 0, !.missing = <<>>, !.fileOpen = FALSE]
             g3 == [g2 EXCEPT !.local = {}, !.checksize = c]
  <1>5. g = g3
    BY <1>3
  <1>6. g1 \in FtpType /\ g1.path = d /\ g1.expectedSeq = ftp.expectedSeq
    BY <1>1, <1>2, <1>4 DEF FtpType
  <1> HIDE DEF g1
  <1>7. /\ g2 \in FtpType /\ g2.path = d /\ g2.expectedSeq = ftp.expectedSeq
        /\ g2.fileSize = 0 /\ g2.fileOpen = FALSE
    BY <1>4, <1>6 DEF FtpType
  <1> HIDE DEF g2
  <1>8. /\ g3 \in FtpType /\ g3.path = d /\ g3.expectedSeq = ftp.expectedSeq
        /\ g3.fileSize = 0 /\ g3.fileOpen = FALSE
    BY <1>1, <1>4, <1>7 DEF FtpType
  <1> QED
    BY <1>5, <1>8 DEF Fresh

Opening(t, d, n) ==
    /\ In(t.ftp, 0) /\ t.reports = <<>> /\ t.ftp.path = d
    /\ t.ftp.fileOpen = FALSE /\ t.ftp.fileSize = 0
    /\ t.sent = <<[opcode |-> "Open", offset |-> 0, file |-> d, seq |-> (n + 1) % SeqNumbers]>>
    /\ t.ftp.expectedSeq = (n + 2) % SeqNumbers

LEMMA DownloadExactly ==
    ASSUME linkUp, ftp \in FtpType, NEW d \in DOMAIN Downloads,
           NEW g, g = Reset([ftp EXCEPT !.machine = DownloadMachine], d),
           NEW s, s = [Manager EXCEPT !.ftp = [g EXCEPT !.index = 0]],
           NEW t, t = SendRequestExpectAck(s, "Open", 0)
    PROVE  Opening(t, d, ftp.expectedSeq)
  <1> DEFINE h == [g EXCEPT !.index = 0]
  <1>1. /\ g \in FtpType /\ g.path = d /\ g.checksize = Downloads[d].checksize
        /\ g.machine = DownloadMachine
    BY ResetFacts
  <1>a. Fresh(g, d)
    BY ResetExactly
  <1>2. /\ h \in FtpType /\ h.path = d /\ h.checksize = Downloads[d].checksize
        /\ h.machine = DownloadMachine /\ h.index = 0 /\ Fresh(h, d)
    <2>1. 0 \in Int
      OBVIOUS
    <2>2. h \in FtpType /\ Indexed(g, h, 0)
      BY <1>1, <2>1, IndexSet
    <2>3. Fresh(h, d)
      BY <1>1, <1>a DEF Fresh, FtpType
    <2> QED
      BY <1>1, <2>2, <2>3 DEF Indexed
  <1>3. s = [ftp |-> h, sent |-> <<>>, reports |-> <<>>]
    BY DEF Manager
  <1> HIDE DEF h
  <1>b. ManagerAt(s, h, d)
    BY <1>2, <1>3, ManagerMade
  <1>4. Typed(s, d) /\ s.ftp = h /\ s.reports = <<>> /\ s.sent = <<>>
    BY <1>3, <1>b DEF ManagerAt
  <1>5. TimedFrom(s, t, d) /\ Asks(s, t, "Open", 0, s.ftp.expectedSeq)
    BY <1>4, Names, RequestSent
  <1>6. t.sent = <<[opcode |-> "Open", offset |-> 0, file |-> d,
                    seq |-> (ftp.expectedSeq + 1) % SeqNumbers]>>
    BY <1>2, <1>4, <1>5 DEF Asks, Fresh
  <1>7. t.ftp.expectedSeq = (ftp.expectedSeq + 2) % SeqNumbers
    BY <1>2, <1>4, <1>5 DEF Asks, Fresh
  <1> QED
    BY <1>2, <1>4, <1>5, <1>6, <1>7 DEF TimedFrom, Kept, In, Opening, Fresh

-----------------------------------------------------------------------------
(* The steps of the manager while there is a link and no number wraps.        *)
Room == 4 * (BurstMax + 1) <= SeqNumbers

LEMMA NoWrap ==
    ASSUME NEW n \in Nat, n + 2 < SeqNumbers
    PROVE  (n + 1) % SeqNumbers = n + 1 /\ (n + 2) % SeqNumbers = n + 2
  <1>1. SeqNumbers \in Nat /\ SeqNumbers > 3
    BY FtpAssumption
  <1>2. \A k \in 0 .. (SeqNumbers - 1) : k % SeqNumbers = k
    BY <1>1
  <1>3. n + 1 \in 0 .. (SeqNumbers - 1) /\ n + 2 \in 0 .. (SeqNumbers - 1)
    BY <1>1
  <1> QED
    BY <1>2, <1>3

LEMMA NoWrapBack ==
    ASSUME NEW n \in Numbers, n >= 2
    PROVE  (n - 2) % SeqNumbers = n - 2
  <1>1. SeqNumbers \in Nat /\ SeqNumbers > 3
    BY FtpAssumption
  <1>2. \A k \in 0 .. (SeqNumbers - 1) : k % SeqNumbers = k
    BY <1>1
  <1>3. n - 2 \in 0 .. (SeqNumbers - 1)
    BY <1>1 DEF Numbers
  <1> QED
    BY <1>2, <1>3

Goes(opcode, offset, n) ==
    /\ results' = results /\ ftp'.path = ftp.path /\ ftp'.fileOpen = ftp.fileOpen
    /\ toVehicle' = Append(toVehicle, [opcode |-> opcode, offset |-> offset,
                                       file |-> ftp.path, seq |-> n + 1])
    /\ ftp'.expectedSeq = n + 2

Burst(offset, n) ==
    state' = "burst" /\ Goes("Burst", offset, n) /\ ftp'.expectedOffset = offset
Read(n) ==
    state' = "fill" /\ Goes("Read", ftp'.expectedOffset, n) /\ Seen(ftp') = Seen(ftp)
ResetSent(n) ==
    state' = "reset" /\ Goes("Reset", 0, n) /\ Seen(ftp') = Seen(ftp)
Terminates(n) == state' = "terminate" /\ Goes("Terminate", 0, n)

Quits(error) ==
    /\ state' = "none" /\ ftp'.path = ftp.path /\ ftp'.expectedSeq = ftp.expectedSeq
    /\ toVehicle' = toVehicle
    /\ \A d \in DOMAIN Downloads : d # ftp.path => results'[d] = results[d]
    /\ \E file :
          /\ results'[ftp.path] = <<[error |-> error, file |-> file, opened |-> ftp.fileOpen]>>
          /\ error = "none" => file = ftp.local

Rests ==
    /\ Kept(ftp, ftp') /\ ftp'.expectedSeq = ftp.expectedSeq
    /\ UNCHANGED <<toVehicle, results>>

PassesOn(r) ==
    /\ state' = "burst" /\ ftp'.path = ftp.path /\ ftp'.fileOpen = ftp.fileOpen
    /\ ftp'.retryCount = ftp.retryCount
    /\ ftp'.expectedSeq = r.seq + 1 /\ ftp'.expectedOffset = r.offset + 1
    /\ UNCHANGED <<toVehicle, results>>

Fills ==
    \/ Read(ftp.expectedSeq) /\ ftp'.retryCount = 0
    \/ ResetSent(ftp.expectedSeq) /\ ftp'.missing = <<>>
    \/ TooShort(ftp) /\ Quits("Download failed")

Opens ==
    /\ state' = "burst" /\ results' = results /\ ftp'.path = ftp.path
    /\ ftp'.fileOpen = TRUE /\ ftp'.expectedOffset = 0 /\ ftp'.retryCount = 0
    /\ toVehicle' = Append(toVehicle, [opcode |-> "Burst", offset |-> 0, file |-> ftp.path,
                                       seq |-> ftp.expectedSeq + 1])
    /\ ftp'.expectedSeq = ftp.expectedSeq + 2

-----------------------------------------------------------------------------
(* From the manager's record to the state.                                    *)
LEMMA StateAfter ==
    /\ In(ftp', 0) => state' = "open"
    /\ In(ftp', 1) => state' = "burst"
    /\ In(ftp', 2) => state' = "fill"
    /\ In(ftp', 3) => state' = "reset"
    /\ Ending(ftp') => state' = "terminate"
    /\ ftp'.index = -1 => state' = "none"
  BY DEF state, In, Ending, DownloadMachine, TerminateMachine

(* The manager's record when a step begins.                                   *)
Begins(s) ==
    /\ s.sent = <<>> /\ Kept(ftp, s.ftp) /\ s.ftp.expectedSeq = ftp.expectedSeq
    /\ Going(s, ftp.path, Blocks, Nat)

LEMMA StoppedBegins ==
    ASSUME FtpInv, ftp.index # -1, NEW s, s = TimerStopped(Manager)
    PROVE  Begins(s)
  <1>1. Downloading(Blocks, Nat)
    BY DEF FtpInv, ManagerInv
  <1>2. Going(s, ftp.path, Blocks, Nat) /\ Kept(ftp, s.ftp) /\ s.ftp.expectedSeq = ftp.expectedSeq
    BY <1>1, ManagerStops
  <1>3. s.sent = <<>>
    BY DEF TimerStopped, Manager
  <1> QED
    BY <1>2, <1>3 DEF Begins

(* Nothing is reported.                                                       *)
LEMMA Unannounced ==
    ASSUME ManagerInv, NEW t, t.reports = <<>>, Becomes(t)
    PROVE  results' = results /\ ftp' = t.ftp /\ toVehicle' = toVehicle \o t.sent
  <1>1. results' = [d \in DOMAIN results |->
                       IF d = t.ftp.path THEN results[d] \o t.reports ELSE results[d]]
    BY DEF Becomes
  <1>2. results \in [DOMAIN Downloads -> Seq(ResultType)]
    BY DEF ManagerInv
  <1>3. \A d \in DOMAIN Downloads : results[d] \o <<>> = results[d]
    BY <1>2
  <1>4. results' = results
    BY <1>1, <1>2, <1>3
  <1> QED
    BY <1>4 DEF Becomes

LEMMA RequestAppended ==
    ASSUME FtpInv, NEW s, s.sent = <<>>, NEW q, NEW t, t.sent = Append(s.sent, q),
           t.reports = <<>>, Becomes(t)
    PROVE  results' = results /\ ftp' = t.ftp /\ toVehicle' = Append(toVehicle, q)
  <1>1. results' = results /\ ftp' = t.ftp /\ toVehicle' = toVehicle \o t.sent
    BY Unannounced DEF FtpInv
  <1>2. t.sent = <<q>>
    OBVIOUS
  <1>3. toVehicle \in Seq(RequestType(1 .. started))
    BY DEF FtpInv, LinkInv
  <1>4. toVehicle' = Append(toVehicle, q)
    BY <1>1, <1>2, <1>3, OneMore
  <1> QED
    BY <1>1, <1>4

LEMMA GoesSo ==
    ASSUME FtpInv, NEW s, Begins(s), NEW opcode, NEW offset, NEW n \in Nat,
           n + 2 < SeqNumbers, NEW t, Asks(s, t, opcode, offset, n), t.reports = <<>>,
           t.ftp.path = s.ftp.path, t.ftp.fileOpen = s.ftp.fileOpen, Becomes(t)
    PROVE  Goes(opcode, offset, n) /\ ftp' = t.ftp
  <1>1. s.sent = <<>> /\ s.ftp.path = ftp.path /\ s.ftp.fileOpen = ftp.fileOpen
    BY DEF Begins, Kept
  <1> DEFINE q == [opcode |-> opcode, offset |-> offset, file |-> s.ftp.path,
                   seq |-> (n + 1) % SeqNumbers]
  <1>2. t.sent = Append(s.sent, q) /\ t.ftp.expectedSeq = (n + 2) % SeqNumbers
    BY DEF Asks
  <1>3. q = [opcode |-> opcode, offset |-> offset, file |-> ftp.path, seq |-> n + 1]
    BY <1>1, NoWrap
  <1> HIDE DEF q
  <1>4. results' = results /\ ftp' = t.ftp /\ toVehicle' = Append(toVehicle, q)
    BY <1>1, <1>2, RequestAppended
  <1>5. ftp'.expectedSeq = n + 2
    BY <1>2, <1>4, NoWrap
  <1> QED
    BY <1>1, <1>3, <1>4, <1>5 DEF Goes

LEMMA QuitsSo ==
    ASSUME FtpInv, ftp.index # -1, NEW s, Begins(s), NEW error, NEW t, Ends(s, t, error),
           Becomes(t)
    PROVE  Quits(error)
  <1> DEFINE p == ftp.path
  <1>0. ManagerInv /\ LinkInv
    BY DEF FtpInv
  <1>1. /\ s.sent = <<>> /\ s.ftp.path = p /\ s.ftp.fileOpen = ftp.fileOpen
        /\ s.ftp.local = ftp.local /\ s.ftp.expectedSeq = ftp.expectedSeq
    BY DEF Begins, Kept
  <1>2. /\ t.sent = <<>> /\ t.ftp.path = p /\ t.ftp.expectedSeq = ftp.expectedSeq
        /\ t.ftp.index = -1
    BY <1>1 DEF Ends
  <1>3. PICK file : /\ t.reports = <<[error |-> error, file |-> file, opened |-> s.ftp.fileOpen]>>
                    /\ error = "none" => file = s.ftp.local
    BY DEF Ends
  <1>4. p \in DOMAIN Downloads
    BY <1>0 DEF ManagerInv, Downloading
  <1>5. Len(results[p]) = 0 /\ results[p] \in Seq(ResultType)
    BY <1>0, <1>4 DEF ManagerInv, Reported
  <1>6. results[p] = <<>>
    BY <1>5
  <1>7. /\ ftp' = t.ftp /\ toVehicle' = toVehicle \o t.sent
        /\ results' = [d \in DOMAIN results |->
                          IF d = p THEN results[d] \o t.reports ELSE results[d]]
    BY <1>2 DEF Becomes
  <1>8. toVehicle' = toVehicle
    BY <1>0, <1>2, <1>7 DEF LinkInv
  <1>9. DOMAIN results = DOMAIN Downloads
    BY <1>0 DEF ManagerInv
  <1>10. results'[p] = <<>> \o t.reports
    BY <1>4, <1>6, <1>7, <1>9
  <1>11. results'[p] = <<[error |-> error, file |-> file, opened |-> s.ftp.fileOpen]>>
    BY <1>3, <1>10
  <1>12. \A d \in DOMAIN Downloads : d # p => results'[d] = results[d]
    BY <1>7, <1>9
  <1>13. state' = "none"
    BY <1>2, <1>7, StateAfter
  <1> QED
    BY <1>1, <1>2, <1>3, <1>7, <1>8, <1>11, <1>12, <1>13 DEF Quits

-----------------------------------------------------------------------------
(* No outage yet: there is a link, and the numbers on their way are close to  *)
(* the one expected.                                                          *)
Numbered ==
    /\ linkUp
    /\ state # "none" => ftp.expectedSeq >= 2
    /\ \A i \in DOMAIN toVehicle : toVehicle[i].seq < ftp.expectedSeq
    /\ \A i \in DOMAIN toGcs : toGcs[i].seq < ftp.expectedSeq + 2 * BurstMax
    /\ server.lastReply # NoReply => server.lastReply.seq < ftp.expectedSeq + 2 * BurstMax

Counts == FtpInv /\ FirstHalf /\ Numbered /\ Room

LEMMA NumbersAreFar ==
    ASSUME Counts
    PROVE  /\ ftp.expectedSeq \in Nat /\ ftp.expectedSeq + 2 < SeqNumbers
           /\ ftp.expectedSeq + 2 * BurstMax + 2 < SeqNumbers
           /\ BurstMax \in Nat /\ SeqNumbers \in Nat
  <1>1. ftp.expectedSeq \in Numbers /\ BurstMax \in Nat /\ BurstMax > 1 /\ SeqNumbers \in Nat
    BY FtpAssumption DEF Counts, FtpInv, ManagerInv, FtpType
  <1> QED
    BY <1>1 DEF Counts, FirstHalf, Room, Numbers

LEMMA NumberBefore ==
    ASSUME Counts, state # "none", NEW e, e = ftp.expectedSeq
    PROVE  /\ e \in Numbers /\ e \in Nat /\ e >= 2 /\ (e - 2) + 2 < SeqNumbers /\ e - 2 \in Nat
           /\ (e - 2) % SeqNumbers = e - 2
  <1>1. e >= 2
    BY DEF Counts, Numbered
  <1>2. e \in Numbers
    BY DEF Counts, FtpInv, ManagerInv, FtpType
  <1>3. e \in Nat /\ e + 2 < SeqNumbers /\ SeqNumbers \in Nat
    BY NumbersAreFar
  <1>4. (e - 2) % SeqNumbers = e - 2
    BY <1>1, <1>2, NoWrapBack
  <1> QED
    BY <1>1, <1>2, <1>3, <1>4

(* The timeout.                                                               *)
TimeoutMove ==
    \/ state = "open" /\ Quits("Download failed")
    \/ /\ state = "burst" /\ Burst(ftp.expectedOffset, ftp.expectedSeq - 2)
       /\ ftp'.retryCount = ftp.retryCount + 1
    \/ /\ state = "fill" /\ Read(ftp.expectedSeq - 2)
       /\ ftp'.retryCount = ftp.retryCount + 1 /\ ftp'.expectedOffset = ftp.expectedOffset
    \/ /\ state \in {"burst", "fill", "terminate"} /\ ftp.retryCount = MaxRetry
       /\ Quits("Download failed")
    \/ state = "reset" /\ Quits("none")
    \/ state = "terminate" /\ Terminates(ftp.expectedSeq)

LEMMA BurstTimesOut ==
    ASSUME Counts, state = "burst", In(ftp, 1), NEW s, Begins(s), NEW u, u = Counted(s),
           NEW t, t = Retry(s, BurstReadAgain(u)), Becomes(t)
    PROVE  TimeoutMove
  <1> DEFINE e == ftp.expectedSeq
             p == ftp.path
             again == BurstReadAgain(u)
  <1>0. ftp.index # -1 /\ FtpInv /\ linkUp
    BY DEF In, Counts, Numbered
  <1>1. Going(s, p, Blocks, Nat) /\ s.ftp.expectedSeq = e /\ Kept(ftp, s.ftp) /\ s.sent = <<>>
    BY DEF Begins
  <1>2. p \in DOMAIN Downloads
    BY <1>0 DEF FtpInv, ManagerInv, Downloading
  <1>3. /\ e \in Numbers /\ e \in Nat /\ e >= 2 /\ (e - 2) + 2 < SeqNumbers /\ e - 2 \in Nat
        /\ (e - 2) % SeqNumbers = e - 2
    BY NumberBefore
  <1>5. t = Retry(s, again)
    OBVIOUS
  <1>6. In(s.ftp, 1)
    BY <1>1 DEF Kept, In
  <1>a. again = BurstReadAgain(u)
    OBVIOUS
  <1> HIDE DEF again, p, e
  <1>7. Retried(s, u, again, t, p)
    BY <1>1, <1>2, <1>5, RetryExactly
  <1>8. CASE Ends(s, t, "Download failed") /\ s.ftp.retryCount = MaxRetry
    <2>1. Quits("Download failed")
      BY <1>0, <1>8, QuitsSo
    <2> QED
      BY <1>1, <1>8, <2>1 DEF TimeoutMove, Kept
  <1>9. CASE s.ftp.retryCount < MaxRetry /\ t = again
    <2>a. s.ftp.retryCount \in Nat /\ MaxRetry \in Nat
      BY <1>1, FtpAssumption DEF Going, Typed, ManagerType, FtpType
    <2>b. u.ftp.retryCount = s.ftp.retryCount + 1
      BY <1>7 DEF Retried, RecountedTo, Recounted
    <2>1. u.ftp.retryCount <= MaxRetry
      BY <1>9, <2>a, <2>b
    <2>2. Going(u, p, Blocks, Nat)
      BY <1>1, <2>1, CountedFacts
    <2>3. /\ Asks(u, t, "Burst", u.ftp.expectedOffset, (u.ftp.expectedSeq - 2) % SeqNumbers)
          /\ SamePlace(u.ftp, t.ftp) /\ t.ftp.retryCount = u.ftp.retryCount
          /\ t.reports = <<>>
      BY <1>0, <1>2, <1>9, <1>a, <2>2, BurstAskedAgain
    <2>4. /\ u.sent = s.sent /\ u.ftp.expectedSeq = e /\ u.ftp.path = s.ftp.path
          /\ u.ftp.expectedOffset = ftp.expectedOffset /\ u.ftp.fileOpen = s.ftp.fileOpen
          /\ u.ftp.retryCount = ftp.retryCount + 1
          /\ u.ftp.machine = s.ftp.machine /\ u.ftp.index = s.ftp.index
      BY <1>1, <1>7 DEF Retried, RecountedTo, Recounted, Silent, Kept
    <2>5. Asks(s, t, "Burst", ftp.expectedOffset, e - 2)
      BY <1>3, <2>3, <2>4 DEF Asks
    <2>6. /\ t.ftp.path = s.ftp.path /\ t.ftp.fileOpen = s.ftp.fileOpen /\ In(t.ftp, 1)
          /\ t.ftp.expectedOffset = ftp.expectedOffset /\ t.ftp.retryCount = ftp.retryCount + 1
      BY <1>6, <2>3, <2>4 DEF SamePlace, In
    <2>7. Goes("Burst", ftp.expectedOffset, e - 2) /\ ftp' = t.ftp
      BY <1>0, <1>3, <2>3, <2>5, <2>6, GoesSo
    <2>8. state' = "burst"
      BY <2>6, <2>7, StateAfter
    <2> QED
      BY <2>6, <2>7, <2>8 DEF TimeoutMove, Burst, e
  <1> QED
    BY <1>7, <1>8, <1>9 DEF Retried

LEMMA FillTimesOut ==
    ASSUME Counts, state = "fill", In(ftp, 2), NEW s, Begins(s), NEW u, u = Counted(s),
           NEW t, t = Retry(s, FillMissingAgain(u)), Becomes(t)
    PROVE  TimeoutMove
  <1> DEFINE e == ftp.expectedSeq
             p == ftp.path
             again == FillMissingAgain(u)
  <1>0. ftp.index # -1 /\ FtpInv /\ linkUp
    BY DEF In, Counts, Numbered
  <1>1. Going(s, p, Blocks, Nat) /\ s.ftp.expectedSeq = e /\ Kept(ftp, s.ftp) /\ s.sent = <<>>
    BY DEF Begins
  <1>2. p \in DOMAIN Downloads
    BY <1>0 DEF FtpInv, ManagerInv, Downloading
  <1>3. /\ e \in Numbers /\ e \in Nat /\ e >= 2 /\ (e - 2) + 2 < SeqNumbers /\ e - 2 \in Nat
        /\ (e - 2) % SeqNumbers = e - 2
    BY NumberBefore
  <1>5. t = Retry(s, again)
    OBVIOUS
  <1>6. /\ In(s.ftp, 2) /\ s.ftp.missing # <<>>
        /\ s.ftp.expectedOffset = Head(s.ftp.missing).offset
    BY <1>1 DEF Kept, In, Going, Account
  <1>a. again = FillMissingAgain(u)
    OBVIOUS
  <1> HIDE DEF again, p, e
  <1>7. Retried(s, u, again, t, p)
    BY <1>1, <1>2, <1>5, RetryExactly
  <1>8. CASE Ends(s, t, "Download failed") /\ s.ftp.retryCount = MaxRetry
    <2>1. Quits("Download failed")
      BY <1>0, <1>8, QuitsSo
    <2> QED
      BY <1>1, <1>8, <2>1 DEF TimeoutMove, Kept
  <1>9. CASE s.ftp.retryCount < MaxRetry /\ t = again
    <2>1. Typed(u, p) /\ u.reports = <<>> /\ Recounted(s.ftp, u.ftp, s.ftp.retryCount + 1) /\ Silent(s, u)
      BY <1>7 DEF Retried, RecountedTo
    <2>2. In(u.ftp, 2) /\ u.ftp.missing # <<>>
      BY <1>6, <2>1 DEF Recounted, In
    <2>3. Reads(u, t, (u.ftp.expectedSeq - 2) % SeqNumbers) /\ t.ftp.retryCount = u.ftp.retryCount
      BY <1>0, <1>2, <1>9, <1>a, <2>1, <2>2, HoleAskedAgain
    <2>4. /\ u.sent = s.sent /\ u.ftp.expectedSeq = e /\ u.ftp.path = s.ftp.path
          /\ u.ftp.missing = s.ftp.missing /\ u.ftp.fileOpen = s.ftp.fileOpen
          /\ u.ftp.retryCount = ftp.retryCount + 1 /\ u.ftp.local = s.ftp.local
      BY <1>1, <2>1 DEF Recounted, Silent, Kept
    <2>5. Asks(s, t, "Read", t.ftp.expectedOffset, e - 2)
      BY <1>3, <2>3, <2>4 DEF Asks, Reads
    <2>6. /\ t.ftp.path = s.ftp.path /\ t.ftp.fileOpen = s.ftp.fileOpen /\ In(t.ftp, 2)
          /\ t.reports = <<>>
          /\ t.ftp.expectedOffset = ftp.expectedOffset /\ t.ftp.retryCount = ftp.retryCount + 1
      BY <1>1, <1>6, <2>3, <2>4 DEF Reads, Kept
    <2>9. Seen(t.ftp) = Seen(ftp)
      BY <1>1, <2>3, <2>4 DEF Reads, Seen, Kept
    <2>7. Goes("Read", t.ftp.expectedOffset, e - 2) /\ ftp' = t.ftp
      BY <1>0, <1>3, <2>5, <2>6, GoesSo
    <2>8. state' = "fill"
      BY <2>6, <2>7, StateAfter
    <2> QED
      BY <2>6, <2>7, <2>8, <2>9 DEF TimeoutMove, Read, e
  <1> QED
    BY <1>7, <1>8, <1>9 DEF Retried

LEMMA TerminateTimesOut ==
    ASSUME Counts, state = "terminate", Ending(ftp), NEW s, Begins(s), NEW u, u = Counted(s),
           NEW t, t = Retry(s, TerminateBegin(u)), Becomes(t)
    PROVE  TimeoutMove
  <1> DEFINE e == ftp.expectedSeq
             p == ftp.path
             again == TerminateBegin(u)
  <1>0. ftp.index # -1 /\ FtpInv /\ linkUp
    BY DEF Ending, Counts, Numbered
  <1>1. Going(s, p, Blocks, Nat) /\ s.ftp.expectedSeq = e /\ Kept(ftp, s.ftp) /\ s.sent = <<>>
    BY DEF Begins
  <1>2. p \in DOMAIN Downloads
    BY <1>0 DEF FtpInv, ManagerInv, Downloading
  <1>3. e \in Nat /\ e + 2 < SeqNumbers
    BY NumbersAreFar
  <1>5. t = Retry(s, again)
    OBVIOUS
  <1>6. Ending(s.ftp)
    BY <1>1 DEF Kept, Ending
  <1>a. again = TerminateBegin(u)
    OBVIOUS
  <1> HIDE DEF again, p, e
  <1>7. Retried(s, u, again, t, p)
    BY <1>1, <1>2, <1>5, RetryExactly
  <1>8. CASE Ends(s, t, "Download failed") /\ s.ftp.retryCount = MaxRetry
    <2>1. Quits("Download failed")
      BY <1>0, <1>8, QuitsSo
    <2> QED
      BY <1>1, <1>8, <2>1 DEF TimeoutMove, Kept
  <1>9. CASE t = again
    <2>1. Typed(u, p) /\ u.reports = <<>> /\ Recounted(s.ftp, u.ftp, s.ftp.retryCount + 1) /\ Silent(s, u)
      BY <1>7 DEF Retried, RecountedTo
    <2>2. TimedFrom(u, t, p) /\ Asks(u, t, "Terminate", 0, u.ftp.expectedSeq)
      BY <1>0, <1>2, <1>9, <1>a, <2>1, Names, RequestSent DEF TerminateBegin
    <2>4. /\ u.sent = s.sent /\ u.ftp.expectedSeq = e /\ u.ftp.path = s.ftp.path
          /\ u.ftp.fileOpen = s.ftp.fileOpen /\ Ending(u.ftp)
      BY <1>1, <1>6, <2>1 DEF Recounted, Silent, Kept, Ending
    <2>5. Asks(s, t, "Terminate", 0, e)
      BY <2>2, <2>4 DEF Asks
    <2>6. /\ t.ftp.path = s.ftp.path /\ t.ftp.fileOpen = s.ftp.fileOpen /\ Ending(t.ftp)
          /\ t.reports = <<>>
      BY <2>1, <2>2, <2>4 DEF TimedFrom, Kept, Ending
    <2>7. Goes("Terminate", 0, e) /\ ftp' = t.ftp
      BY <1>0, <1>3, <2>5, <2>6, GoesSo
    <2>8. state' = "terminate"
      BY <2>6, <2>7, StateAfter
    <2> QED
      BY <2>7, <2>8 DEF TimeoutMove, Terminates, e
  <1> QED
    BY <1>7, <1>8, <1>9 DEF Retried

LEMMA TimeoutMoves ==
    ASSUME Counts, Timeout
    PROVE  TimeoutMove /\ state # "none"
  <1> DEFINE s == TimerStopped(Manager)
             t == TimedOut(s)
             u == Counted(s)
  <1>0. FtpInv
    BY DEF Counts
  <1>1. ftp.index # -1 /\ Becomes(t)
    BY <1>0 DEF Timeout, FtpInv, ManagerInv
  <1>2. Downloading(Blocks, Nat)
    BY <1>0, <1>1 DEF FtpInv, ManagerInv
  <1>3. Busy(ftp)
    BY <1>2 DEF Downloading
  <1>s. s = TimerStopped(Manager) /\ t = TimedOut(s) /\ u = Counted(s)
    OBVIOUS
  <1> HIDE DEF s, t, u
  <1>4. Begins(s)
    BY <1>0, <1>1, <1>s, StoppedBegins
  <1>5. Typed(s, ftp.path) /\ s.reports = <<>>
    BY <1>4 DEF Begins, Going
  <1>6. CASE state = "open"
    <2>1. t = DownloadComplete(s, "Download failed")
      BY <1>6, <1>s DEF TimedOut
    <2>2. Quits("Download failed")
      BY <1>0, <1>1, <1>4, <1>5, <2>1, EndsSo, QuitsSo
    <2> QED
      BY <1>6, <2>2 DEF TimeoutMove
  <1>7. CASE state = "burst" /\ In(ftp, 1)
    <2>1. t = Retry(s, BurstReadAgain(u))
      BY <1>7, <1>s DEF TimedOut
    <2> QED
      BY <1>1, <1>4, <1>7, <1>s, <2>1, BurstTimesOut
  <1>8. CASE state = "fill" /\ In(ftp, 2)
    <2>1. t = Retry(s, FillMissingAgain(u))
      BY <1>8, <1>s DEF TimedOut
    <2> QED
      BY <1>1, <1>4, <1>8, <1>s, <2>1, FillTimesOut
  <1>9. CASE state = "reset"
    <2>1. t = DownloadComplete(s, "none")
      BY <1>9, <1>s DEF TimedOut
    <2>2. Quits("none")
      BY <1>0, <1>1, <1>4, <1>5, <2>1, EndsSo, QuitsSo
    <2> QED
      BY <1>9, <2>2 DEF TimeoutMove
  <1>10. CASE state = "terminate" /\ Ending(ftp)
    <2>1. t = Retry(s, TerminateBegin(u))
      BY <1>10, <1>s DEF TimedOut
    <2> QED
      BY <1>1, <1>4, <1>10, <1>s, <2>1, TerminateTimesOut
  <1> QED
    BY <1>3, <1>6, <1>7, <1>8, <1>9, <1>10, StateNames

-----------------------------------------------------------------------------
(* An answer.                                                                 *)
BlockMove(r) ==
    \/ ~r.burstComplete /\ PassesOn(r)
    \/ r.burstComplete /\ Burst(r.offset + 1, r.seq) /\ ftp'.retryCount = 0

OpenMove(r) == (r.ack /\ Opens) \/ Quits("Download failed")

BurstMove(r) ==
    \/ r.ack /\ r.offset < ftp.expectedOffset /\ Rests
    \/ r.ack /\ Quits("Error saving file")
    \/ r.ack /\ r.offset >= ftp.expectedOffset /\ BlockMove(r)
    \/ /\ ~r.ack /\ r.eof /\ r.seq # ftp.expectedSeq /\ ftp'.retryCount = 0
       /\ Burst(ftp.expectedOffset, r.seq)
    \/ ~r.ack /\ r.eof /\ r.seq = ftp.expectedSeq /\ Fills
    \/ ~r.ack /\ ~r.eof /\ Quits("Download failed")

FillMove(r) ==
    \/ /\ r.ack /\ r.offset # ftp.expectedOffset
       /\ Quits("Download failed") \/ Read(ftp.expectedSeq - 2)
    \/ r.ack /\ Quits("Error saving file")
    \/ r.ack /\ r.offset = ftp.expectedOffset /\ Fills
    \/ ~r.ack /\ Quits("Download failed")
    \/ ~r.ack /\ r.eof /\ ResetSent(ftp.expectedSeq)

AnswerMove(r) ==
    \/ state = "open" /\ OpenMove(r)
    \/ state = "burst" /\ BurstMove(r)
    \/ state = "fill" /\ FillMove(r)
    \/ state = "reset" /\ Quits("none")
    \/ state = "terminate" /\ Quits("Aborted")

(* What is taken is not behind.                                               *)
LEMMA TakenIsAhead ==
    ASSUME Counts, NEW r \in AnswerType, Taken(r)
    PROVE  r.seq >= ftp.expectedSeq /\ (state # "burst" => r.seq = ftp.expectedSeq)
  <1>1. r.seq \in Numbers /\ ftp.expectedSeq \in Numbers
    BY DEF Counts, FtpInv, ManagerInv, FtpType, AnswerType
  <1>2. ~Old(r.seq)
    BY DEF Taken
  <1>3. ~(r.seq < ftp.expectedSeq)
    BY <1>1, <1>2, SmallNumbersKeepOrder DEF Counts, FirstHalf, Old
  <1> QED
    BY <1>1, <1>3, FtpAssumption DEF Taken, Expected, Numbers

(* Something asked, in a state's own terms.                                   *)
LEMMA BurstSo ==
    ASSUME Counts, NEW s, Begins(s), NEW offset, NEW n \in Nat, n + 2 < SeqNumbers,
           NEW t, BurstsOn(s, t, offset, n), Becomes(t)
    PROVE  Burst(offset, n) /\ ftp' = t.ftp
  <1>1. FtpInv /\ s.ftp.fileOpen = ftp.fileOpen
    BY DEF Counts, Begins, Kept
  <1>2. /\ Asks(s, t, "Burst", offset, n) /\ t.reports = <<>> /\ t.ftp.path = s.ftp.path
        /\ t.ftp.fileOpen = s.ftp.fileOpen /\ In(t.ftp, 1) /\ t.ftp.expectedOffset = offset
    BY DEF BurstsOn
  <1>3. Goes("Burst", offset, n) /\ ftp' = t.ftp
    BY <1>1, <1>2, GoesSo
  <1> QED
    BY <1>2, <1>3, StateAfter DEF Burst

LEMMA ReadSo ==
    ASSUME Counts, NEW s, Begins(s), NEW n \in Nat, n + 2 < SeqNumbers,
           NEW t, ReadsOn(s, t, n), Becomes(t)
    PROVE  Read(n) /\ ftp' = t.ftp
  <1>1. FtpInv /\ Seen(s.ftp) = Seen(ftp)
    BY DEF Counts, Begins, Kept, Seen
  <1>2. /\ Asks(s, t, "Read", t.ftp.expectedOffset, n) /\ t.reports = <<>>
        /\ t.ftp.path = s.ftp.path /\ t.ftp.fileOpen = s.ftp.fileOpen /\ In(t.ftp, 2)
        /\ Seen(t.ftp) = Seen(s.ftp)
    BY DEF ReadsOn
  <1>3. Goes("Read", t.ftp.expectedOffset, n) /\ ftp' = t.ftp
    BY <1>1, <1>2, GoesSo
  <1> QED
    BY <1>1, <1>2, <1>3, StateAfter DEF Read

LEMMA ResetSo ==
    ASSUME Counts, NEW s, Begins(s), NEW n \in Nat, n + 2 < SeqNumbers,
           NEW t, ResetsOn(s, t, n), Becomes(t)
    PROVE  ResetSent(n) /\ ftp' = t.ftp
  <1>1. FtpInv /\ Seen(s.ftp) = Seen(ftp)
    BY DEF Counts, Begins, Kept, Seen
  <1>2. /\ Asks(s, t, "Reset", 0, n) /\ t.reports = <<>>
        /\ t.ftp.path = s.ftp.path /\ t.ftp.fileOpen = s.ftp.fileOpen /\ In(t.ftp, 3)
        /\ Seen(t.ftp) = Seen(s.ftp)
    BY DEF ResetsOn
  <1>3. Goes("Reset", 0, n) /\ ftp' = t.ftp
    BY <1>1, <1>2, GoesSo
  <1> QED
    BY <1>1, <1>2, <1>3, StateAfter DEF ResetSent

LEMMA FillsSo ==
    ASSUME Counts, ftp.index # -1, NEW s, Begins(s), NEW t,
           FillsFrom(s, t, ftp.expectedSeq), Becomes(t)
    PROVE  Fills
  <1>1. FtpInv /\ ftp.expectedSeq \in Nat /\ ftp.expectedSeq + 2 < SeqNumbers
    BY NumbersAreFar DEF Counts
  <1>2. CASE ReadsOn(s, t, ftp.expectedSeq) /\ t.ftp.retryCount = 0
    <2>1. Read(ftp.expectedSeq) /\ ftp' = t.ftp
      BY <1>1, <1>2, ReadSo
    <2> QED
      BY <1>2, <2>1 DEF Fills
  <1>3. CASE ResetsOn(s, t, ftp.expectedSeq) /\ t.ftp.missing = <<>>
    <2>1. ResetSent(ftp.expectedSeq) /\ ftp' = t.ftp
      BY <1>1, <1>3, ResetSo
    <2> QED
      BY <1>3, <2>1 DEF Fills
  <1>4. CASE TooShort(s.ftp) /\ Ends(s, t, "Download failed")
    <2>1. Quits("Download failed")
      BY <1>1, <1>4, QuitsSo
    <2>2. TooShort(ftp)
      <3>1. Kept(ftp, s.ftp)
        BY DEF Begins
      <3> QED
        BY <1>4, <3>1 DEF TooShort, Seen, Kept
    <2> QED
      BY <2>1, <2>2 DEF Fills
  <1> QED
    BY <1>2, <1>3, <1>4 DEF FillsFrom

(* The end of the bursts is a way of filling on.                              *)
LEMMA BurstsEndOn ==
    ASSUME NEW s, NEW t, NEW n, FillsOn(s, t, n)
    PROVE  FillsFrom(s, t, n)
  <1>1. Closes(s.ftp, s.ftp) /\ Silent(s, s)
    BY DEF Closes, Silent
  <1> QED
    BY <1>1, OnIsFrom

LEMMA OpenMoves ==
    ASSUME Counts, In(ftp, 0), NEW s, Begins(s), NEW r \in AnswerType,
           NEW t \in OpenAnswered(s, r), Becomes(t)
    PROVE  OpenMove(r)
  <1>0. FtpInv /\ linkUp /\ ftp.index # -1
    BY DEF Counts, Numbered, In
  <1>1. ftp.path \in DOMAIN Downloads
    BY <1>0 DEF FtpInv, ManagerInv, Downloading
  <1>2. /\ Typed(s, ftp.path) /\ s.reports = <<>> /\ In(s.ftp, 0) /\ s.sent = <<>>
        /\ s.ftp.path = ftp.path /\ s.ftp.expectedSeq = ftp.expectedSeq
    BY DEF Begins, Going, Kept, In
  <1>3. (r.ack /\ OpensFile(s, t)) \/ Ends(s, t, "Download failed")
    BY <1>0, <1>1, <1>2, OpenExactly
  <1>4. CASE r.ack /\ OpensFile(s, t)
    <2> DEFINE q == [opcode |-> "Burst", offset |-> 0, file |-> s.ftp.path,
                     seq |-> (ftp.expectedSeq + 1) % SeqNumbers]
    <2>1. ftp.expectedSeq \in Nat /\ ftp.expectedSeq + 2 < SeqNumbers
      BY NumbersAreFar
    <2>2. t.sent = Append(s.sent, q) /\ t.ftp.expectedSeq = (ftp.expectedSeq + 2) % SeqNumbers
      BY <1>2, <1>4 DEF OpensFile, Asks
    <2>3. q = [opcode |-> "Burst", offset |-> 0, file |-> ftp.path, seq |-> ftp.expectedSeq + 1]
      BY <1>2, <2>1, NoWrap
    <2> HIDE DEF q
    <2>4. /\ t.reports = <<>> /\ In(t.ftp, 1) /\ t.ftp.path = s.ftp.path
          /\ t.ftp.fileOpen = TRUE /\ t.ftp.expectedOffset = 0 /\ t.ftp.retryCount = 0
      BY <1>4 DEF OpensFile
    <2>5. results' = results /\ ftp' = t.ftp /\ toVehicle' = Append(toVehicle, q)
      BY <1>0, <1>2, <2>2, <2>4, RequestAppended
    <2>6. ftp'.expectedSeq = ftp.expectedSeq + 2 /\ state' = "burst"
      BY <2>1, <2>2, <2>4, <2>5, NoWrap, StateAfter
    <2> QED
      BY <1>2, <1>4, <2>3, <2>4, <2>5, <2>6 DEF Opens, OpenMove
  <1>5. CASE Ends(s, t, "Download failed")
    BY <1>0, <1>5, QuitsSo DEF OpenMove
  <1> QED
    BY <1>3, <1>4, <1>5

LEMMA BlockMoves ==
    ASSUME Counts, NEW s, Begins(s), NEW r \in AnswerType, r.seq + 2 < SeqNumbers,
           NEW t, BlockTaken(s, t, r), Becomes(t)
    PROVE  BlockMove(r)
  <1>1. r.seq \in Nat
    BY DEF AnswerType, Numbers
  <1>2. CASE ~r.burstComplete /\ Passes(s, t, r)
    <2>1. /\ s.sent = <<>> /\ s.ftp.path = ftp.path /\ s.ftp.fileOpen = ftp.fileOpen
          /\ s.ftp.retryCount = ftp.retryCount
      BY DEF Begins, Kept
    <2>2. /\ In(t.ftp, 1) /\ t.reports = <<>> /\ t.ftp.path = s.ftp.path /\ t.sent = s.sent
          /\ t.ftp.expectedSeq = (r.seq + 1) % SeqNumbers /\ t.ftp.expectedOffset = r.offset + 1
          /\ t.ftp.fileOpen = s.ftp.fileOpen /\ t.ftp.retryCount = s.ftp.retryCount
      BY <1>2 DEF Passes
    <2>3. results' = results /\ ftp' = t.ftp /\ toVehicle' = toVehicle \o t.sent
      BY <2>2, Unannounced DEF Counts, FtpInv
    <2>4. toVehicle' = toVehicle
      <3>1. toVehicle \in Seq(RequestType(1 .. started))
        BY DEF Counts, FtpInv, LinkInv
      <3> QED
        BY <2>1, <2>2, <2>3, <3>1
    <2>5. ftp'.expectedSeq = r.seq + 1 /\ state' = "burst"
      BY <1>1, <2>2, <2>3, NoWrap, StateAfter
    <2> QED
      BY <1>2, <2>1, <2>2, <2>3, <2>4, <2>5 DEF PassesOn, BlockMove
  <1>3. CASE r.burstComplete /\ BurstsOn(s, t, r.offset + 1, r.seq) /\ t.ftp.retryCount = 0
    <2>1. Burst(r.offset + 1, r.seq) /\ ftp' = t.ftp
      BY <1>1, <1>3, BurstSo
    <2> QED
      BY <1>3, <2>1 DEF BlockMove
  <1> QED
    BY <1>2, <1>3 DEF BlockTaken

LEMMA BurstMoves ==
    ASSUME Counts, In(ftp, 1), NEW s, Begins(s), NEW r \in AnswerType,
           r.seq >= ftp.expectedSeq, r.seq + 2 < SeqNumbers,
           NEW t \in BurstAnswered(s, r), Becomes(t)
    PROVE  BurstMove(r)
  <1>0. FtpInv /\ linkUp /\ ftp.index # -1
    BY DEF Counts, Numbered, In
  <1>1. ftp.path \in DOMAIN Downloads
    BY <1>0 DEF FtpInv, ManagerInv, Downloading
  <1>2. /\ Going(s, ftp.path, Blocks, Nat) /\ In(s.ftp, 1) /\ s.sent = <<>>
        /\ s.ftp.expectedSeq = ftp.expectedSeq /\ s.ftp.expectedOffset = ftp.expectedOffset
        /\ Kept(ftp, s.ftp)
    BY DEF Begins, Kept, In
  <1>3. r.seq \in Nat /\ ftp.expectedSeq \in Nat
    BY NumbersAreFar DEF AnswerType, Numbers
  <1>4. BurstOutcome(s, t, r)
    BY <1>0, <1>1, <1>2, BurstExactly
  <1>5. CASE r.ack /\ (r.seq < s.ftp.expectedSeq \/ r.offset < s.ftp.expectedOffset) /\ Stays(s, t)
    <2>1. r.offset < ftp.expectedOffset
      BY <1>2, <1>3, <1>5
    <2>2. /\ t.reports = <<>> /\ t.sent = <<>> /\ Kept(s.ftp, t.ftp)
          /\ t.ftp.expectedSeq = ftp.expectedSeq
      BY <1>2, <1>5 DEF Stays
    <2>3. results' = results /\ ftp' = t.ftp /\ toVehicle' = toVehicle \o t.sent
      BY <2>2, Unannounced DEF Counts, FtpInv
    <2>4. toVehicle' = toVehicle
      <3>1. toVehicle \in Seq(RequestType(1 .. started))
        BY DEF Counts, FtpInv, LinkInv
      <3> QED
        BY <2>2, <2>3, <3>1
    <2>5. Kept(ftp, ftp')
      BY <1>2, <2>2, <2>3 DEF Kept
    <2> QED
      BY <1>5, <2>1, <2>2, <2>3, <2>4, <2>5 DEF Rests, BurstMove
  <1>6. CASE r.ack /\ Ends(s, t, "Error saving file")
    BY <1>0, <1>6, QuitsSo DEF BurstMove
  <1>7. CASE r.ack /\ r.offset >= s.ftp.expectedOffset /\ BlockTaken(s, t, r)
    <2>1. BlockMove(r)
      BY <1>7, BlockMoves
    <2> QED
      BY <1>2, <1>7, <2>1 DEF BurstMove
  <1>8. CASE /\ ~r.ack /\ r.eof /\ r.seq # s.ftp.expectedSeq /\ t.ftp.retryCount = 0
             /\ BurstsOn(s, t, s.ftp.expectedOffset, r.seq)
    <2>1. Burst(ftp.expectedOffset, r.seq) /\ ftp' = t.ftp
      BY <1>2, <1>3, <1>8, BurstSo
    <2> QED
      BY <1>2, <1>8, <2>1 DEF BurstMove
  <1>9. CASE ~r.ack /\ r.eof /\ r.seq = s.ftp.expectedSeq /\ FillsOn(s, t, s.ftp.expectedSeq)
    <2>1. Fills
      BY <1>0, <1>2, <1>9, BurstsEndOn, FillsSo
    <2> QED
      BY <1>2, <1>9, <2>1 DEF BurstMove
  <1>10. CASE ~r.ack /\ ~r.eof /\ Ends(s, t, "Download failed")
    BY <1>0, <1>10, QuitsSo DEF BurstMove
  <1> QED
    BY <1>4, <1>5, <1>6, <1>7, <1>8, <1>9, <1>10 DEF BurstOutcome

LEMMA FillMoves ==
    ASSUME Counts, state = "fill", In(ftp, 2), NEW s, Begins(s), NEW r \in AnswerType,
           r.ack => <<r.file, r.offset>> \in Blocks, NEW t \in FillAnswered(s, r), Becomes(t)
    PROVE  FillMove(r)
  <1>0. FtpInv /\ linkUp /\ ftp.index # -1
    BY DEF Counts, Numbered, In
  <1>1. ftp.path \in DOMAIN Downloads
    BY <1>0 DEF FtpInv, ManagerInv, Downloading
  <1>2. /\ Going(s, ftp.path, Blocks, Nat) /\ In(s.ftp, 2)
        /\ s.ftp.expectedSeq = ftp.expectedSeq /\ s.ftp.expectedOffset = ftp.expectedOffset
    BY DEF Begins, Kept, In
  <1>3. /\ ftp.expectedSeq \in Nat /\ ftp.expectedSeq + 2 < SeqNumbers
        /\ ftp.expectedSeq - 2 \in Nat /\ (ftp.expectedSeq - 2) + 2 < SeqNumbers
        /\ (ftp.expectedSeq - 2) % SeqNumbers = ftp.expectedSeq - 2
    BY NumbersAreFar, NumberBefore
  <1>4. FillOutcome(s, t, r)
    BY <1>0, <1>1, <1>2, FillExactly
  <1>5. CASE r.ack /\ r.offset # s.ftp.expectedOffset /\ Ends(s, t, "Download failed")
    BY <1>0, <1>2, <1>5, QuitsSo DEF FillMove
  <1>6. CASE /\ r.ack /\ r.offset # s.ftp.expectedOffset
             /\ ReadsOn(s, t, (s.ftp.expectedSeq - 2) % SeqNumbers)
    <2>1. ReadsOn(s, t, ftp.expectedSeq - 2)
      BY <1>2, <1>3, <1>6
    <2>2. Read(ftp.expectedSeq - 2)
      BY <1>3, <2>1, ReadSo
    <2> QED
      BY <1>2, <1>6, <2>2 DEF FillMove
  <1>7. CASE r.ack /\ Ends(s, t, "Error saving file")
    BY <1>0, <1>7, QuitsSo DEF FillMove
  <1>8. CASE r.ack /\ r.offset = s.ftp.expectedOffset /\ FillsFrom(s, t, s.ftp.expectedSeq)
    <2>1. Fills
      BY <1>0, <1>2, <1>8, FillsSo
    <2> QED
      BY <1>2, <1>8, <2>1 DEF FillMove
  <1>9. CASE ~r.ack /\ Ends(s, t, "Download failed")
    BY <1>0, <1>9, QuitsSo DEF FillMove
  <1>10. CASE ~r.ack /\ r.eof /\ ResetsOn(s, t, s.ftp.expectedSeq)
    <2>1. ResetSent(ftp.expectedSeq)
      BY <1>2, <1>3, <1>10, ResetSo
    <2> QED
      BY <1>10, <2>1 DEF FillMove
  <1> QED
    BY <1>4, <1>5, <1>6, <1>7, <1>8, <1>9, <1>10 DEF FillOutcome

LEMMA AnswerMoves ==
    ASSUME Counts, NEW r \in GoodAnswer, Taken(r), r.seq + 2 < SeqNumbers,
           NEW t \in Answered(TimerStopped(Manager), r), Becomes(t)
    PROVE  AnswerMove(r)
  <1> DEFINE s == TimerStopped(Manager)
  <1>0. FtpInv
    BY DEF Counts
  <1>1. ftp.index # -1
    BY DEF Taken, state
  <1>2. Downloading(Blocks, Nat)
    BY <1>0, <1>1 DEF FtpInv, ManagerInv
  <1>3. Busy(ftp)
    BY <1>2 DEF Downloading
  <1>s. s = TimerStopped(Manager) /\ t \in Answered(s, r)
    OBVIOUS
  <1> HIDE DEF s
  <1>4. Begins(s)
    BY <1>0, <1>1, <1>s, StoppedBegins
  <1>5. Typed(s, ftp.path) /\ s.reports = <<>>
    BY <1>4 DEF Begins, Going
  <1>6. r \in AnswerType /\ Ours(r, ftp, Blocks, Nat)
    BY <1>2, TakenAnswer
  <1>7. r.seq >= ftp.expectedSeq
    BY <1>6, TakenIsAhead
  <1>8. CASE state = "open" /\ In(ftp, 0)
    <2>1. t \in OpenAnswered(s, r)
      BY <1>8, <1>s DEF Answered
    <2>2. OpenMove(r)
      BY <1>4, <1>6, <1>8, <2>1, OpenMoves
    <2> QED
      BY <1>8, <2>2 DEF AnswerMove
  <1>9. CASE state = "burst" /\ In(ftp, 1)
    <2>1. t \in BurstAnswered(s, r)
      BY <1>9, <1>s DEF Answered
    <2>2. BurstMove(r)
      BY <1>4, <1>6, <1>7, <1>9, <2>1, BurstMoves
    <2> QED
      BY <1>9, <2>2 DEF AnswerMove
  <1>10. CASE state = "fill" /\ In(ftp, 2)
    <2>1. t \in FillAnswered(s, r)
      BY <1>10, <1>s DEF Answered
    <2>2. r.ack => <<r.file, r.offset>> \in Blocks
      BY <1>6, <1>10 DEF Ours
    <2>3. FillMove(r)
      BY <1>4, <1>6, <1>10, <2>1, <2>2, FillMoves
    <2> QED
      BY <1>10, <2>3 DEF AnswerMove
  <1>11. CASE state = "reset"
    <2>1. t = DownloadComplete(s, "none")
      BY <1>11, <1>s DEF Answered, ResetAnswered
    <2>2. Quits("none")
      BY <1>0, <1>1, <1>4, <1>5, <2>1, EndsSo, QuitsSo
    <2> QED
      BY <1>11, <2>2 DEF AnswerMove
  <1>12. CASE state = "terminate"
    <2>1. t = DownloadComplete(s, "Aborted")
      BY <1>12, <1>s DEF Answered, TerminateAnswered
    <2>2. Quits("Aborted")
      BY <1>0, <1>1, <1>4, <1>5, <2>1, EndsSo, QuitsSo
    <2> QED
      BY <1>12, <2>2 DEF AnswerMove
  <1> QED
    BY <1>3, <1>8, <1>9, <1>10, <1>11, <1>12, StateNames

(* The whole of Receive.                                                      *)
ReceiveMove(r) ==
    /\ toGcs # <<>> /\ r = toGcs[1] /\ r \in AnswerType /\ toGcs' = Tail(toGcs)
    /\ \/ /\ Taken(r) /\ r.seq >= ftp.expectedSeq /\ r.seq < ftp.expectedSeq + 2 * BurstMax
          /\ AnswerMove(r)
       \/ ~Taken(r) /\ UNCHANGED <<ftp, results, toVehicle>>

LEMMA ReceiveMoves ==
    ASSUME Counts, Receive
    PROVE  ReceiveMove(toGcs[1])
  <1> DEFINE r == toGcs[1]
  <1>1. /\ toGcs # <<>> /\ toGcs' = Tail(toGcs)
        /\ \/ /\ Taken(Head(toGcs))
              /\ \E t \in Answered(TimerStopped(Manager), Head(toGcs)) : Becomes(t)
           \/ ~Taken(Head(toGcs)) /\ UNCHANGED <<ftp, results, toVehicle>>
    BY DEF Receive
  <1>2. toGcs \in Seq(GoodAnswer)
    BY DEF Counts, FtpInv, LinkInv
  <1>3. Head(toGcs) = r /\ 1 \in DOMAIN toGcs
    BY <1>1, <1>2
  <1>4. r \in GoodAnswer
    BY <1>2, <1>3
  <1>5. r \in AnswerType
    BY <1>4 DEF GoodAnswer
  <1>6. r.seq < ftp.expectedSeq + 2 * BurstMax
    BY <1>3 DEF Counts, Numbered
  <1>7. r.seq + 2 < SeqNumbers
    <2>1. r.seq \in Nat
      BY <1>5 DEF AnswerType, Numbers
    <2> QED
      BY <1>6, <2>1, NumbersAreFar
  <1> HIDE DEF r
  <1>8. CASE Taken(r)
    <2>1. PICK t \in Answered(TimerStopped(Manager), r) : Becomes(t)
      BY <1>1, <1>3, <1>8
    <2>2. AnswerMove(r)
      BY <1>4, <1>7, <1>8, <2>1, AnswerMoves
    <2>3. r.seq >= ftp.expectedSeq
      BY <1>5, <1>8, TakenIsAhead
    <2> QED
      BY <1>1, <1>5, <1>6, <1>8, <2>2, <2>3 DEF ReceiveMove, r
  <1>9. CASE ~Taken(r)
    BY <1>1, <1>3, <1>5, <1>9 DEF ReceiveMove, r
  <1> QED
    BY <1>8, <1>9 DEF r

-----------------------------------------------------------------------------
(* Starting and cancelling.                                                   *)
CancelMove ==
    /\ state # "none" /\ ftp.fileSize > 0 /\ Troubled("cancels", MaxCancels)
    /\ Terminates(ftp.expectedSeq)
    /\ UNCHANGED <<started, refused, server, toGcs, linkUp>>

LEMMA CancelMoves ==
    ASSUME Counts, Cancel
    PROVE  CancelMove
  <1> DEFINE s == [Manager EXCEPT !.ftp.machine = TerminateMachine,
                                  !.ftp.index = 0, !.ftp.retryCount = 0]
             t == TerminateBegin(s)
             e == ftp.expectedSeq
             q == [opcode |-> "Terminate", offset |-> 0, file |-> ftp.path,
                   seq |-> (e + 1) % SeqNumbers]
  <1>1. /\ state # "none" /\ ftp.fileSize > 0 /\ Troubled("cancels", MaxCancels) /\ Becomes(t)
        /\ UNCHANGED <<started, refused, server, toGcs, linkUp>>
    BY DEF Cancel, inProgress
  <1>2. ftp.index # -1
    BY <1>1 DEF state
  <1>3. Downloading(Blocks, Nat) /\ linkUp /\ FtpInv
    BY <1>2 DEF Counts, Numbered, FtpInv, ManagerInv
  <1>4. s = [Manager EXCEPT !.ftp.machine = TerminateMachine,
                            !.ftp.index = 0, !.ftp.retryCount = 0]
        /\ t = TerminateBegin(s)
    OBVIOUS
  <1> HIDE DEF s, t
  <1>5. Terminating(ftp, t, e)
    BY <1>3, <1>4, CancelExactly
  <1>6. /\ Ending(t.ftp) /\ t.reports = <<>> /\ t.ftp.path = ftp.path
        /\ t.ftp.fileOpen = ftp.fileOpen /\ t.sent = <<q>>
        /\ t.ftp.expectedSeq = (e + 2) % SeqNumbers
    BY <1>5 DEF Terminating
  <1>7. e \in Nat /\ e + 2 < SeqNumbers
    BY NumbersAreFar
  <1>8. q = [opcode |-> "Terminate", offset |-> 0, file |-> ftp.path, seq |-> e + 1]
    BY <1>7, NoWrap
  <1> HIDE DEF q, e
  <1>9. results' = results /\ ftp' = t.ftp /\ toVehicle' = toVehicle \o t.sent
    BY <1>1, <1>3, <1>6, Unannounced DEF FtpInv
  <1>10. toVehicle' = Append(toVehicle, q)
    <2>1. toVehicle \in Seq(RequestType(1 .. started))
      BY <1>3 DEF FtpInv, LinkInv
    <2> QED
      BY <1>6, <1>9, <2>1, OneMore
  <1>11. ftp'.expectedSeq = e + 2 /\ state' = "terminate"
    BY <1>6, <1>7, <1>9, NoWrap, StateAfter
  <1> QED
    BY <1>1, <1>6, <1>8, <1>9, <1>10, <1>11 DEF CancelMove, Terminates, Goes, e

DownloadMove ==
    /\ started < Len(Downloads) /\ started' = started + 1 /\ started' \in DOMAIN Downloads
    /\ UNCHANGED <<server, toGcs, linkUp, spent, results>>
    /\ \/ UNCHANGED <<ftp, toVehicle>>
       \/ /\ state = "none" /\ state' = "none" /\ ftp'.path = started'
          /\ ftp'.expectedSeq = ftp.expectedSeq /\ toVehicle' = toVehicle
       \/ /\ state = "none" /\ state' = "open" /\ ftp'.path = started'
          /\ ftp'.fileOpen = FALSE /\ ftp'.fileSize = 0
          /\ ftp'.expectedSeq = ftp.expectedSeq + 2
          /\ toVehicle' = Append(toVehicle, [opcode |-> "Open", offset |-> 0, file |-> started',
                                             seq |-> ftp.expectedSeq + 1])

LEMMA DownloadMoves ==
    ASSUME Counts, Download
    PROVE  DownloadMove
  <1> DEFINE d == started'
             g == Reset([ftp EXCEPT !.machine = DownloadMachine], d)
             u == [Manager EXCEPT !.ftp = g]
             open == [Manager EXCEPT !.ftp = [g EXCEPT !.index = 0]]
             t == SendRequestExpectAck(open, "Open", 0)
             e == ftp.expectedSeq
             q == [opcode |-> "Open", offset |-> 0, file |-> d, seq |-> (e + 1) % SeqNumbers]
  <1>1. started < Len(Downloads) /\ started' = started + 1 /\ UNCHANGED <<server, toGcs, linkUp, spent>>
    BY DEF Download
  <1>2. /\ started \in 0 .. Len(Downloads) /\ toVehicle \in Seq(RequestType(1 .. started))
        /\ ftp \in FtpType /\ linkUp /\ ManagerInv /\ FtpInv
    BY DEF Counts, Numbered, FtpInv, LinkInv, ManagerInv
  <1>3. Downloads \in Seq(DownloadType)
    BY FtpAssumption
  <1>4. d \in DOMAIN Downloads
    BY <1>1, <1>2, <1>3
  <1>5. \/ Becomes(Manager)
        \/ ftp.machine = <<>> /\ Becomes(u)
        \/ ftp.machine = <<>> /\ Becomes(t)
    BY DEF Download
  <1>6. ftp.machine = <<>> => ftp.index = -1 /\ state = "none"
    <2> SUFFICES ASSUME ftp.machine = <<>>, ftp.index # -1
                 PROVE  FALSE
      BY DEF state
    <2>1. Busy(ftp)
      BY <1>2 DEF ManagerInv, Downloading
    <2> QED
      BY <2>1, Machines DEF Busy, In, Reading, Ending
  <1>s. /\ g = Reset([ftp EXCEPT !.machine = DownloadMachine], d)
        /\ u = [Manager EXCEPT !.ftp = g]
        /\ open = [Manager EXCEPT !.ftp = [g EXCEPT !.index = 0]]
        /\ t = SendRequestExpectAck(open, "Open", 0)
    OBVIOUS
  <1>e. e \in Nat /\ e + 2 < SeqNumbers
    BY NumbersAreFar
  <1>q. q = [opcode |-> "Open", offset |-> 0, file |-> d, seq |-> e + 1]
    BY <1>e, NoWrap
  <1> HIDE DEF g, u, open, t, q
  <1>7. CASE Becomes(Manager)
    <2>1. Manager.ftp = ftp /\ Manager.sent = <<>> /\ Manager.reports = <<>>
      BY DEF Manager
    <2>2. results' = results /\ ftp' = Manager.ftp /\ toVehicle' = toVehicle \o Manager.sent
      BY <1>2, <1>7, <2>1, Unannounced
    <2>3. toVehicle' = toVehicle
      BY <1>2, <2>1, <2>2
    <2> QED
      BY <1>1, <1>4, <2>1, <2>2, <2>3 DEF DownloadMove
  <1>8. CASE ftp.machine = <<>> /\ Becomes(u)
    <2>1. u.ftp = g /\ u.sent = <<>> /\ u.reports = <<>>
      BY <1>s DEF Manager
    <2>2. /\ g.path = d /\ g.index = ftp.index /\ g.expectedSeq = e
      <3>1. g.path = d /\ g.index = ftp.index
        BY <1>2, <1>4, <1>s, ResetFacts
      <3>2. Fresh(g, d)
        BY <1>2, <1>4, <1>s, ResetExactly
      <3> QED
        BY <3>1, <3>2 DEF Fresh
    <2>3. results' = results /\ ftp' = u.ftp /\ toVehicle' = toVehicle \o u.sent
      BY <1>2, <1>8, <2>1, Unannounced
    <2>4. toVehicle' = toVehicle
      BY <1>2, <2>1, <2>3
    <2>5. state = "none" /\ state' = "none"
      BY <1>6, <1>8, <2>1, <2>2, <2>3, StateAfter
    <2> QED
      BY <1>1, <1>4, <2>1, <2>2, <2>3, <2>4, <2>5 DEF DownloadMove
  <1>9. CASE ftp.machine = <<>> /\ Becomes(t)
    <2> HIDE DEF d, e
    <2>1. Opening(t, d, e)
      BY <1>2, <1>4, <1>s, DownloadExactly DEF e
    <2>2. /\ In(t.ftp, 0) /\ t.reports = <<>> /\ t.ftp.path = d /\ t.ftp.fileOpen = FALSE
          /\ t.ftp.fileSize = 0 /\ t.sent = <<q>> /\ t.ftp.expectedSeq = (e + 2) % SeqNumbers
      BY <2>1 DEF Opening, q
    <2>3. results' = results /\ ftp' = t.ftp /\ toVehicle' = toVehicle \o t.sent
      BY <1>2, <1>9, <2>2, Unannounced
    <2>4. toVehicle' = Append(toVehicle, q)
      BY <1>2, <2>2, <2>3, OneMore
    <2>5. state = "none" /\ state' = "open" /\ ftp'.expectedSeq = e + 2
      BY <1>6, <1>9, <1>e, <2>2, <2>3, NoWrap, StateAfter
    <2> QED
      BY <1>1, <1>4, <1>q, <2>2, <2>3, <2>4, <2>5 DEF DownloadMove, d, e
  <1> QED
    BY <1>5, <1>7, <1>8, <1>9

-----------------------------------------------------------------------------
(* What the server answers.                                                   *)
Stride == IF server.errMode = "BadSequence" THEN 2 ELSE 1

ReplyTo(r, q, k) ==
    /\ r \in AnswerType /\ r.opcode = q.opcode /\ r.file = server.file
    /\ r.seq = q.seq + k * Stride

(* The reply with all its fields.                                             *)
Answering(r, q, k, ack, eof, offset, size, complete) ==
    /\ ReplyTo(r, q, k) /\ r.ack = ack /\ r.eof = eof /\ r.offset = offset
    /\ r.size = size /\ r.burstComplete = complete

LEMMA StrideOf == Stride \in {1, 2}
  BY DEF Stride

LEMMA ReplyExactly ==
    ASSUME started \in 0 .. Len(Downloads), server \in ServerType,
           NEW q \in RequestType(1 .. started), q.seq + 2 * BurstMax < SeqNumbers,
           NEW k \in 1 .. BurstMax, NEW ack \in BOOLEAN, NEW eof \in BOOLEAN,
           NEW offset \in Nat, NEW size \in Nat, NEW complete \in BOOLEAN,
           NEW r, r = Reply(q, NextSeq(q, k), ack, eof, offset, size, complete)
    PROVE  Answering(r, q, k, ack, eof, offset, size, complete)
  <1> DEFINE n == q.seq + k * Stride
  <1>1. q.seq \in Nat /\ k \in Nat /\ k <= BurstMax /\ BurstMax \in Nat /\ SeqNumbers \in Nat
    BY FtpAssumption DEF RequestType, Numbers
  <1>2. NextSeq(q, k) = n
    BY DEF NextSeq, Stride
  <1>3. n \in Nat /\ n < SeqNumbers
    <2>1. CASE Stride = 1
      BY <1>1, <2>1
    <2>2. CASE Stride = 2
      BY <1>1, <2>2
    <2> QED
      BY <2>1, <2>2, StrideOf
  <1>d. n = q.seq + k * Stride
    OBVIOUS
  <1> HIDE DEF n
  <1>4. n % SeqNumbers = n /\ n \in Numbers
    BY <1>1, <1>3 DEF Numbers
  <1>5. r = [opcode |-> q.opcode, seq |-> n, ack |-> ack, eof |-> eof, offset |-> offset,
             size |-> size, file |-> server.file, burstComplete |-> complete]
    BY <1>2, <1>4 DEF Reply
  <1>6. q.opcode \in Opcodes /\ server.file \in Nat
    BY DEF RequestType, ServerType
  <1>7. r \in AnswerType
    BY <1>4, <1>5, <1>6 DEF AnswerType
  <1> QED
    BY <1>5, <1>7, <1>d DEF Answering, ReplyTo

(* An only answer.                                                            *)
SingleReply(r, q) ==
    /\ ReplyTo(r, q, 1)
    /\ q.opcode = "Open" /\ r.ack =>
          r.size = Downloads[q.file].reported /\ FileAfter(q) = q.file
    /\ q.opcode = "Read" /\ r.ack => r.offset = q.offset
    /\ r.eof => q.opcode = "Read" /\ q.offset >= FileSize
    /\ q.opcode = "Burst" => ~r.ack /\ server.errMode # "None"
    /\ server.errMode = "None" => r.ack \/ r.eof \/ q.opcode = "Open"

(* The answers to a burst that is served.                                     *)
BurstReplies(t, q) ==
    /\ Len(t) > 0 /\ Len(t) <= BurstMax
    /\ \A i \in DOMAIN t :
          /\ ReplyTo(t[i], q, i)
          /\ t[i].ack => t[i].offset = q.offset + i - 1 /\ t[i].offset < FileSize
          /\ t[i].eof <=> ~t[i].ack
          /\ ~t[i].ack => i = Len(t) /\ (q.offset <= FileSize => i - 1 = FileSize - q.offset)
          /\ t[i].burstComplete => Len(t) <= i + 1
          /\ i = Len(t) => t[i].burstComplete \/ ~t[i].ack

RepliesTo(t, q) ==
    \/ t = <<>> /\ server.errMode \notin {"None", "BadSequence"}
    \/ \E r : t = <<r>> /\ SingleReply(r, q)
    \/ q.opcode = "Burst" /\ BurstReplies(t, q)

ServerKnows(q) ==
    /\ started \in 0 .. Len(Downloads) /\ server \in ServerType
    /\ q \in RequestType(1 .. started) /\ q.seq + 2 * BurstMax < SeqNumbers

LEMMA NakExactly ==
    ASSUME NEW q, ServerKnows(q), server.errMode # "None" \/ q.opcode = "Open"
    PROVE  SingleReply(Nak(q), q)
  <1> DEFINE no == FALSE
             z == 0
             k == 1
             r == Nak(q)
  <1>1. k \in 1 .. BurstMax /\ no \in BOOLEAN /\ z \in Nat
    BY FtpAssumption
  <1>2. r = Reply(q, NextSeq(q, k), no, no, z, z, no)
    BY DEF Nak
  <1> HIDE DEF k, no, z, r
  <1>3. Answering(r, q, k, no, no, z, z, no)
    BY <1>1, <1>2, ReplyExactly DEF ServerKnows
  <1>4. ReplyTo(r, q, 1) /\ ~r.ack /\ ~r.eof
    BY <1>3 DEF Answering, k, no
  <1>5. SingleReply(r, q)
    BY <1>4 DEF SingleReply
  <1> QED
    BY <1>5 DEF r

LEMMA AckExactly ==
    ASSUME NEW q, ServerKnows(q), NEW offset \in Nat, NEW size \in Nat, q.opcode # "Burst",
           q.opcode = "Open" => size = Downloads[q.file].reported /\ FileAfter(q) = q.file,
           q.opcode = "Read" => offset = q.offset
    PROVE  SingleReply(Ack(q, offset, size), q)
  <1> DEFINE no == FALSE
             yes == TRUE
             k == 1
             r == Ack(q, offset, size)
  <1>1. k \in 1 .. BurstMax /\ no \in BOOLEAN /\ yes \in BOOLEAN
    BY FtpAssumption
  <1>2. r = Reply(q, NextSeq(q, k), yes, no, offset, size, no)
    BY DEF Ack
  <1> HIDE DEF k, no, yes, r
  <1>3. Answering(r, q, k, yes, no, offset, size, no)
    BY <1>1, <1>2, ReplyExactly DEF ServerKnows
  <1>4. ReplyTo(r, q, 1) /\ r.ack /\ ~r.eof /\ r.offset = offset /\ r.size = size
    BY <1>3 DEF Answering, k, no, yes
  <1>5. SingleReply(r, q)
    BY <1>4 DEF SingleReply
  <1> QED
    BY <1>5 DEF r

LEMMA EndExactly ==
    ASSUME NEW q, ServerKnows(q), NEW k \in 1 .. BurstMax
    PROVE  Answering(EndOfFile(q, k), q, k, FALSE, TRUE, 0, 0, FALSE)
  <1> DEFINE no == FALSE
             yes == TRUE
             z == 0
             r == EndOfFile(q, k)
  <1>1. no \in BOOLEAN /\ yes \in BOOLEAN /\ z \in Nat
    OBVIOUS
  <1>2. r = Reply(q, NextSeq(q, k), no, yes, z, z, no)
    BY DEF EndOfFile
  <1> HIDE DEF no, yes, z, r
  <1>3. Answering(r, q, k, no, yes, z, z, no)
    BY <1>1, <1>2, ReplyExactly DEF ServerKnows
  <1> QED
    BY <1>3 DEF r, no, yes, z

LEMMA BurstRepliesExactly ==
    ASSUME NEW q, ServerKnows(q), q.opcode = "Burst", NEW t, t = BurstReadCommand(q)
    PROVE  BurstReplies(t, q)
  <1> DEFINE rest == FileSize - q.offset
             some == Max({rest, 0})
             n == Min({BurstMax - 1, some})
             Block(i) == Reply(q, NextSeq(q, i), TRUE, FALSE, q.offset + i - 1, 1, i = BurstMax - 1)
             acks == [i \in 1 .. n |-> Block(i)]
             end == EndOfFile(q, n + 1)
  <1>0. /\ started \in 0 .. Len(Downloads) /\ server \in ServerType
        /\ q \in RequestType(1 .. started)
    BY DEF ServerKnows
  <1>1. q.offset \in Nat /\ FileSize \in Nat /\ BurstMax \in Nat /\ BurstMax > 1
    BY <1>0, FtpAssumption, FileSizeType DEF RequestType
  <1>2. rest \in Int
    BY <1>1
  <1>3. some = IF rest >= 0 THEN rest ELSE 0
    <2> HIDE DEF rest
    <2>1. 0 \in Int
      OBVIOUS
    <2> QED
      BY <1>2, <2>1, MaxOfTwo
  <1>4. some \in Nat
    <2> HIDE DEF some, rest
    <2> QED
      BY <1>2, <1>3
  <1>5. n = IF BurstMax - 1 <= some THEN BurstMax - 1 ELSE some
    <2> DEFINE b == BurstMax - 1
    <2>1. b \in Int
      BY <1>1
    <2> HIDE DEF b, some
    <2>2. n = Min({b, some})
      BY DEF b
    <2>3. some \in Int
      BY <1>4
    <2>4. n = IF b <= some THEN b ELSE some
      BY <2>1, <2>2, <2>3, MinOfTwo
    <2> QED
      BY <2>4 DEF b
  <1>6. /\ n \in Nat /\ n <= BurstMax - 1
        /\ n = BurstMax - 1 \/ n = some
        /\ q.offset <= FileSize => n <= FileSize - q.offset
        /\ ~(q.offset <= FileSize) => n = 0
        /\ n = some /\ q.offset <= FileSize => n = FileSize - q.offset
        /\ n = some => q.offset + n >= FileSize
    <2> DEFINE o == q.offset
               z == FileSize
    <2>1. rest = z - o /\ o \in Nat /\ z \in Nat
      BY <1>1
    <2> HIDE DEF rest, some, n, o, z
    <2>2. some = IF o <= z THEN z - o ELSE 0
      BY <1>3, <2>1
    <2> QED
      BY <1>1, <1>4, <1>5, <2>1, <2>2 DEF o, z
  <1>t. t = IF q.offset + n >= FileSize THEN Append(acks, end) ELSE acks
    BY DEF BurstReadCommand
  <1> HIDE DEF n, some, rest
  <1>7. ASSUME NEW i \in 1 .. n
        PROVE  /\ ReplyTo(Block(i), q, i) /\ Block(i).ack /\ ~Block(i).eof
               /\ Block(i).offset = q.offset + i - 1 /\ Block(i).offset < FileSize
               /\ Block(i).burstComplete <=> i = BurstMax - 1
    <2> DEFINE yes == TRUE
               no == FALSE
               o == q.offset + i - 1
               one == 1
               last == (i = BurstMax - 1)
               r == Block(i)
    <2>1. i \in 1 .. BurstMax /\ i \in Nat /\ i >= 1 /\ i <= n
      BY <1>1, <1>6
    <2>3. o \in Nat /\ o < FileSize
      BY <1>1, <1>6, <2>1
    <2>4. yes \in BOOLEAN /\ no \in BOOLEAN /\ last \in BOOLEAN /\ one \in Nat
      OBVIOUS
    <2>5. r = Reply(q, NextSeq(q, i), yes, no, o, one, last)
      OBVIOUS
    <2> HIDE DEF yes, no, o, one, last, r
    <2>6. Answering(r, q, i, yes, no, o, one, last)
      BY <2>1, <2>3, <2>4, <2>5, ReplyExactly DEF ServerKnows
    <2>7. /\ ReplyTo(r, q, i) /\ r.ack = yes /\ r.eof = no /\ r.offset = o
          /\ r.burstComplete = last
      BY <2>6 DEF Answering
    <2> QED
      BY <2>3, <2>7 DEF r, yes, no, o, last
  <1> HIDE DEF Block
  <1>8. /\ Len(acks) = n /\ DOMAIN acks = 1 .. n
        /\ \A i \in 1 .. n : acks[i] = Block(i)
    BY <1>6
  <1>9. /\ ReplyTo(end, q, n + 1) /\ ~end.ack /\ end.eof /\ ~end.burstComplete
    <2> DEFINE k == n + 1
    <2>1. k \in 1 .. BurstMax
      BY <1>1, <1>6
    <2> HIDE DEF k
    <2>2. Answering(EndOfFile(q, k), q, k, FALSE, TRUE, 0, 0, FALSE)
      BY <2>1, EndExactly
    <2> QED
      BY <2>2 DEF k, Answering
  <1>a. acks \in Seq({Block(i) : i \in 1 .. n})
    BY <1>6
  <1> HIDE DEF acks, end
  <1>10. CASE q.offset + n >= FileSize
    <2>1. t = Append(acks, end)
      BY <1>10, <1>t
    <2>2. /\ Len(t) = n + 1 /\ DOMAIN t = 1 .. (n + 1)
          /\ \A i \in 1 .. n : t[i] = Block(i)
          /\ t[n + 1] = end
      BY <1>6, <1>8, <1>a, <2>1
    <2>3. q.offset <= FileSize => n = FileSize - q.offset
      BY <1>1, <1>6, <1>10
    <2>4. ASSUME NEW i \in DOMAIN t
          PROVE  /\ ReplyTo(t[i], q, i)
                 /\ t[i].ack => t[i].offset = q.offset + i - 1 /\ t[i].offset < FileSize
                 /\ t[i].eof <=> ~t[i].ack
                 /\ ~t[i].ack => i = Len(t) /\ (q.offset <= FileSize => i - 1 = FileSize - q.offset)
                 /\ t[i].burstComplete => Len(t) <= i + 1
                 /\ i = Len(t) => t[i].burstComplete \/ ~t[i].ack
      <3>1. CASE i \in 1 .. n
        <4>1. t[i] = Block(i) /\ i # Len(t) /\ Len(t) = n + 1
          BY <1>6, <2>2, <3>1
        <4>2. t[i].burstComplete => n <= i
          BY <1>1, <1>6, <1>7, <3>1, <4>1
        <4> QED
          BY <1>6, <1>7, <3>1, <4>1, <4>2
      <3>2. CASE i = n + 1
        BY <1>6, <1>9, <2>2, <2>3, <3>2
      <3> QED
        BY <1>6, <2>2, <3>1, <3>2
    <2>5. Len(t) > 0 /\ Len(t) <= BurstMax
      BY <1>1, <1>6, <2>2
    <2> QED
      BY <2>4, <2>5 DEF BurstReplies
  <1>11. CASE ~(q.offset + n >= FileSize)
    <2>1. t = acks /\ n = BurstMax - 1
      BY <1>6, <1>11, <1>t
    <2>2. Len(t) = n /\ DOMAIN t = 1 .. n /\ \A i \in 1 .. n : t[i] = Block(i)
      BY <1>8, <2>1
    <2>4. ASSUME NEW i \in DOMAIN t
          PROVE  /\ ReplyTo(t[i], q, i)
                 /\ t[i].ack => t[i].offset = q.offset + i - 1 /\ t[i].offset < FileSize
                 /\ t[i].eof <=> ~t[i].ack
                 /\ ~t[i].ack => i = Len(t) /\ (q.offset <= FileSize => i - 1 = FileSize - q.offset)
                 /\ t[i].burstComplete => Len(t) <= i + 1
                 /\ i = Len(t) => t[i].burstComplete \/ ~t[i].ack
      <3>1. i \in 1 .. n /\ t[i] = Block(i)
        BY <2>2
      <3>2. t[i].burstComplete <=> i = n
        BY <1>7, <2>1, <3>1
      <3> QED
        BY <1>6, <1>7, <2>2, <3>1, <3>2
    <2>5. Len(t) > 0 /\ Len(t) <= BurstMax
      BY <1>1, <1>6, <2>1, <2>2
    <2> QED
      BY <2>4, <2>5 DEF BurstReplies
  <1> QED
    BY <1>10, <1>11

LEMMA RepliesExactly ==
    ASSUME NEW q, ServerKnows(q), NEW t, t = Replies(q)
    PROVE  RepliesTo(t, q)
  <1>0. /\ started \in 0 .. Len(Downloads) /\ server \in ServerType
        /\ q \in RequestType(1 .. started) /\ q.opcode \in Opcodes /\ q.offset \in Nat
    BY DEF ServerKnows, RequestType
  <1>1. FileSize \in Nat
    BY <1>0, FileSizeType
  <1>2. CASE server.errMode = "NoResponse" /\ q.opcode \notin {"Reset", "Terminate"}
    <2>1. t = <<>>
      BY <1>2 DEF Replies
    <2> QED
      BY <1>2, <2>1 DEF RepliesTo
  <1>3. CASE server.errMode = "NakResponse" /\ q.opcode \notin {"Reset", "Terminate"}
    <2>1. t = <<Nak(q)>>
      BY <1>3 DEF Replies
    <2>2. SingleReply(Nak(q), q)
      BY <1>3, NakExactly
    <2> QED
      BY <2>1, <2>2 DEF RepliesTo
  <1>4. CASE q.opcode = "Open" /\ server.errMode \notin {"NoResponse", "NakResponse"}
    <2>1. t = OpenCommand(q)
      BY <1>4 DEF Replies
    <2>2. CASE Downloads[q.file].found
      <3> DEFINE size == Downloads[q.file].reported
                 z == 0
      <3>1. t = <<Ack(q, z, size)>>
        BY <2>1, <2>2 DEF OpenCommand
      <3>2. size \in Nat /\ z \in Nat
        BY <1>0, FilesAreDownloads, DownloadFacts
      <3>3. FileAfter(q) = q.file
        BY <1>4, <2>2 DEF FileAfter
      <3>4. q.opcode = "Open" => size = Downloads[q.file].reported
        OBVIOUS
      <3> HIDE DEF size, z
      <3>5. SingleReply(Ack(q, z, size), q)
        BY <1>4, <3>2, <3>3, <3>4, AckExactly
      <3> QED
        BY <3>1, <3>5 DEF RepliesTo
    <2>3. CASE ~Downloads[q.file].found
      <3>1. t = <<Nak(q)>>
        BY <2>1, <2>3 DEF OpenCommand
      <3>2. SingleReply(Nak(q), q)
        BY <1>4, NakExactly
      <3> QED
        BY <3>1, <3>2 DEF RepliesTo
    <2> QED
      BY <2>2, <2>3
  <1>5. CASE q.opcode = "Read" /\ server.errMode \notin {"NoResponse", "NakResponse"}
    <2>1. t = ReadCommand(q)
      BY <1>5 DEF Replies
    <2>2. CASE q.offset # 0 /\ server.errMode = "NakSecondResponse"
      <3>1. t = <<Nak(q)>>
        BY <2>1, <2>2 DEF ReadCommand
      <3>2. SingleReply(Nak(q), q)
        BY <2>2, NakExactly
      <3> QED
        BY <3>1, <3>2 DEF RepliesTo
    <2>3. CASE q.offset # 0 /\ server.errMode = "NoSecondResponse"
      <3>1. t = <<>>
        BY <2>1, <2>3 DEF ReadCommand
      <3> QED
        BY <2>3, <3>1 DEF RepliesTo
    <2>4. CASE /\ ~(q.offset # 0 /\ server.errMode = "NakSecondResponse")
               /\ ~(q.offset # 0 /\ server.errMode = "NoSecondResponse")
      <3>1. t = <<IF q.offset >= FileSize THEN EndOfFile(q, 1) ELSE Ack(q, q.offset, 1)>>
        BY <2>1, <2>4 DEF ReadCommand
      <3>2. CASE q.offset >= FileSize
        <4> DEFINE r == EndOfFile(q, 1)
        <4>1. 1 \in 1 .. BurstMax
          BY FtpAssumption
        <4>2. Answering(r, q, 1, FALSE, TRUE, 0, 0, FALSE)
          BY <4>1, EndExactly
        <4>3. SingleReply(r, q)
          BY <1>5, <3>2, <4>2 DEF Answering, SingleReply
        <4> QED
          BY <3>1, <3>2, <4>3 DEF RepliesTo
      <3>3. CASE ~(q.offset >= FileSize)
        <4> DEFINE o == q.offset
                   one == 1
        <4>1. o \in Nat /\ one \in Nat /\ q.opcode # "Burst" /\ q.opcode # "Open" /\ o = q.offset
          BY <1>0, <1>5
        <4>2. t = <<Ack(q, o, one)>>
          BY <3>1, <3>3
        <4> HIDE DEF o, one
        <4>3. SingleReply(Ack(q, o, one), q)
          BY <4>1, AckExactly
        <4> QED
          BY <4>2, <4>3 DEF RepliesTo
      <3> QED
        BY <3>2, <3>3
    <2> QED
      BY <2>2, <2>3, <2>4
  <1>6. CASE q.opcode = "Burst" /\ server.errMode \notin {"NoResponse", "NakResponse"}
    <2>1. t = BurstReadCommand(q)
      BY <1>6 DEF Replies
    <2> QED
      BY <1>6, <2>1, BurstRepliesExactly DEF RepliesTo
  <1>7. CASE q.opcode \in {"Reset", "Terminate"}
    <2> DEFINE z == 0
    <2>1. t = <<Ack(q, z, z)>>
      BY <1>7 DEF Replies
    <2>2. z \in Nat /\ q.opcode # "Burst" /\ q.opcode # "Open" /\ q.opcode # "Read"
      BY <1>7
    <2> HIDE DEF z
    <2>3. SingleReply(Ack(q, z, z), q)
      BY <2>2, AckExactly
    <2> QED
      BY <2>1, <2>3 DEF RepliesTo
  <1> QED
    BY <1>0, <1>2, <1>3, <1>4, <1>5, <1>6, <1>7 DEF Opcodes

-----------------------------------------------------------------------------
(* The elements of sequences that lose, gain or swap some.                    *)
TailOf(q, t) ==
    /\ 1 \in DOMAIN q /\ Head(q) = q[1] /\ Len(q) \in Nat /\ Len(t) = Len(q) - 1
    /\ (1 = Len(q) <=> t = <<>>)
    /\ \A i \in DOMAIN t : i + 1 \in DOMAIN q /\ t[i] = q[i + 1]
                           /\ (i = Len(t) <=> i + 1 = Len(q))
    /\ \A i \in DOMAIN q : i # 1 => i - 1 \in DOMAIN t /\ q[i] = t[i - 1]

LEMMA TailElements ==
    ASSUME NEW S, NEW q \in Seq(S), q # <<>>, NEW t, t = Tail(q)
    PROVE  TailOf(q, t)
  <1>1. /\ Len(q) \in Nat /\ Len(q) > 0 /\ DOMAIN q = 1 .. Len(q)
        /\ Len(t) = Len(q) - 1 /\ DOMAIN t = 1 .. Len(t)
        /\ \A i \in 1 .. Len(t) : t[i] = q[i + 1]
        /\ Head(q) = q[1] /\ t \in Seq(S)
    OBVIOUS
  <1>2. Len(t) = 0 <=> t = <<>>
    BY <1>1
  <1> QED
    BY <1>1, <1>2 DEF TailOf

MoreThan(q, t, r) ==
    /\ t # <<>> /\ Len(t) = Len(q) + 1 /\ Len(t) \in DOMAIN t /\ t[Len(t)] = r
    /\ \A i \in DOMAIN t : \/ i \in DOMAIN q /\ t[i] = q[i] /\ i # Len(t)
                           \/ i = Len(t) /\ t[i] = r
    /\ \A i \in DOMAIN q : i \in DOMAIN t /\ t[i] = q[i]

LEMMA AppendElements ==
    ASSUME NEW S, NEW q \in Seq(S), NEW r, NEW t, t = Append(q, r)
    PROVE  MoreThan(q, t, r)
  <1> DEFINE T == S \cup {r}
  <1>1. S \subseteq T /\ r \in T
    OBVIOUS
  <1> HIDE DEF T
  <1>2. q \in Seq(T)
    BY <1>1, WiderSequence
  <1>3. /\ Len(q) \in Nat /\ DOMAIN q = 1 .. Len(q)
        /\ Len(t) = Len(q) + 1 /\ DOMAIN t = 1 .. Len(t)
        /\ \A i \in 1 .. Len(q) : t[i] = q[i]
        /\ t[Len(q) + 1] = r /\ t # <<>>
    BY <1>1, <1>2
  <1> QED
    BY <1>3 DEF MoreThan

Joined(a, b, t) ==
    /\ Len(t) = Len(a) + Len(b)
    /\ \A i \in DOMAIN t : \/ i \in DOMAIN a /\ t[i] = a[i]
                           \/ \E k \in DOMAIN b : i = Len(a) + k /\ t[i] = b[k]
    /\ \A i \in DOMAIN a : i \in DOMAIN t /\ t[i] = a[i]
    /\ \A k \in DOMAIN b : Len(a) + k \in DOMAIN t /\ t[Len(a) + k] = b[k]

LEMMA ConcatElements ==
    ASSUME NEW S, NEW a \in Seq(S), NEW b \in Seq(S), NEW t, t = a \o b
    PROVE  Joined(a, b, t)
  <1>1. /\ Len(a) \in Nat /\ Len(b) \in Nat /\ DOMAIN a = 1 .. Len(a) /\ DOMAIN b = 1 .. Len(b)
        /\ Len(t) = Len(a) + Len(b) /\ DOMAIN t = 1 .. Len(t)
        /\ \A i \in 1 .. Len(a) : t[i] = a[i]
        /\ \A i \in 1 .. Len(t) : i > Len(a) => t[i] = b[i - Len(a)]
    OBVIOUS
  <1>2. ASSUME NEW i \in DOMAIN t, i \notin DOMAIN a
        PROVE  \E k \in DOMAIN b : i = Len(a) + k /\ t[i] = b[k]
    <2>1. i > Len(a) /\ i - Len(a) \in DOMAIN b /\ i = Len(a) + (i - Len(a))
      BY <1>1, <1>2
    <2>2. t[i] = b[i - Len(a)]
      BY <1>1, <2>1
    <2> QED
      BY <2>1, <2>2
  <1>3. ASSUME NEW k \in DOMAIN b
        PROVE  Len(a) + k \in DOMAIN t /\ t[Len(a) + k] = b[k]
    <2>1. Len(a) + k \in 1 .. Len(t) /\ Len(a) + k > Len(a) /\ (Len(a) + k) - Len(a) = k
      BY <1>1
    <2> QED
      BY <1>1, <2>1
  <1> QED
    BY <1>1, <1>2, <1>3 DEF Joined

Swapped(q, t) ==
    /\ \A i \in DOMAIN t : \E k \in DOMAIN q : t[i] = q[k]
    /\ \A k \in DOMAIN q : \E i \in DOMAIN t : t[i] = q[k]

LEMMA SwapElements ==
    ASSUME NEW S, NEW q \in Seq(S), Len(q) > 1,
           NEW t, t = <<q[2], q[1]>> \o SubSeq(q, 3, Len(q))
    PROVE  Swapped(q, t)
  <1> DEFINE a == <<q[2], q[1]>>
             b == SubSeq(q, 3, Len(q))
  <1>1. Len(q) \in Nat /\ DOMAIN q = 1 .. Len(q) /\ q[1] \in S /\ q[2] \in S
    OBVIOUS
  <1>2. a \in Seq(S) /\ Len(a) = 2 /\ a[1] = q[2] /\ a[2] = q[1] /\ DOMAIN a = 1 .. 2
    BY <1>1
  <1>3. \A i \in 3 .. Len(q) : q[i] \in S
    OBVIOUS
  <1>4. /\ b \in Seq(S) /\ Len(b) = Len(q) - 2
        /\ \A k \in 1 .. (Len(q) - 2) : b[k] = q[k + 2]
    <2>1. /\ b \in Seq(S) /\ Len(b) = IF 3 <= Len(q) THEN Len(q) - 3 + 1 ELSE 0
          /\ \A k \in 1 .. (Len(q) - 3 + 1) : b[k] = q[3 + k - 1]
      BY <1>1, <1>3, SubSeqProperties
    <2>2. ASSUME NEW k \in 1 .. (Len(q) - 2)
          PROVE  b[k] = q[k + 2]
      <3>1. 3 + k - 1 = k + 2 /\ k \in 1 .. (Len(q) - 3 + 1)
        BY <1>1
      <3> QED
        BY <2>1, <3>1
    <2> QED
      BY <1>1, <2>1, <2>2
  <1>5. DOMAIN b = 1 .. (Len(q) - 2)
    BY <1>4
  <1> HIDE DEF a, b
  <1>6. Joined(a, b, t)
    <2>1. t = a \o b
      BY DEF a, b
    <2>2. a \in Seq(S) /\ b \in Seq(S)
      BY <1>2, <1>4
    <2> QED
      BY <2>1, <2>2, ConcatElements
  <1>7. 1 \in DOMAIN a /\ 2 \in DOMAIN a
    <2>1. 1 \in 1 .. 2 /\ 2 \in 1 .. 2 /\ DOMAIN a = 1 .. 2
      BY <1>2
    <2> QED
      BY <2>1
  <1>8. 1 \in DOMAIN t /\ 2 \in DOMAIN t /\ t[1] = q[2] /\ t[2] = q[1]
    BY <1>2, <1>6, <1>7 DEF Joined
  <1>9. ASSUME NEW k \in DOMAIN q, k > 2
        PROVE  k \in DOMAIN t /\ t[k] = q[k]
    <2>1. k - 2 \in DOMAIN b /\ (k - 2) + 2 = k /\ k - 2 \in 1 .. (Len(q) - 2) /\ 2 + (k - 2) = k
      BY <1>1, <1>5, <1>9
    <2>2. b[k - 2] = q[k]
      BY <1>4, <2>1
    <2>3. 2 + (k - 2) \in DOMAIN t /\ t[2 + (k - 2)] = b[k - 2]
      BY <1>2, <1>6, <2>1 DEF Joined
    <2> QED
      BY <2>1, <2>2, <2>3
  <1>10. DOMAIN t \subseteq DOMAIN q
    <2> SUFFICES ASSUME NEW i \in DOMAIN t
                 PROVE  i \in DOMAIN q
      OBVIOUS
    <2>1. CASE i \in DOMAIN a
      BY <1>1, <1>2, <2>1
    <2>2. CASE \E k \in DOMAIN b : i = Len(a) + k
      <3>1. PICK k \in DOMAIN b : i = Len(a) + k
        BY <2>2
      <3> QED
        BY <1>1, <1>2, <1>5, <3>1
    <2> QED
      BY <1>6, <2>1, <2>2 DEF Joined
  <1>11. 1 \in DOMAIN q /\ 2 \in DOMAIN q /\ \A k \in DOMAIN q : k = 1 \/ k = 2 \/ k > 2
    BY <1>1
  <1> QED
    BY <1>8, <1>9, <1>10, <1>11 DEF Swapped

-----------------------------------------------------------------------------
(* What is used up of the troubles is used up.                                *)
Grows(n, m) == n \in Nat /\ m \in Nat /\ n <= m

LEMMA SpentGrows ==
    ASSUME FtpInv, [Next]_vars
    PROVE  /\ Grows(spent.outages, spent'.outages) /\ Grows(spent.early, spent'.early)
           /\ Grows(spent.reorders, spent'.reorders) /\ Grows(spent.losses, spent'.losses)
           /\ Grows(spent.cancels, spent'.cancels)
  <1>1. /\ spent.cancels \in Nat /\ spent.outages \in Nat /\ spent.early \in Nat
        /\ spent.reorders \in Nat /\ spent.losses \in Nat
        /\ DOMAIN spent = {"cancels", "outages", "losses", "reorders", "early"}
    <2>1. SpentType
      BY DEF FtpInv, LinkInv
    <2>2. /\ MaxCancels \in Nat /\ MaxOutages \in Nat /\ MaxLosses \in Nat
          /\ MaxReorders \in Nat /\ MaxEarly \in Nat
      BY FtpAssumption
    <2> QED
      BY <2>1, <2>2 DEF SpentType
  <1>2. \/ spent' = spent
        \/ \E trouble \in {"cancels", "outages", "losses", "reorders", "early"} :
              spent' = [spent EXCEPT ![trouble] = @ + 1]
    BY DEF Next, Download, Cancel, Timeout, Receive, Serve, Lose, Reorder, LinkGoes,
           LinkComesBack, Troubled, vars
  <1>3. CASE spent' = spent
    BY <1>1, <1>3 DEF Grows
  <1>4. ASSUME NEW trouble \in {"cancels", "outages", "losses", "reorders", "early"},
               spent' = [spent EXCEPT ![trouble] = @ + 1]
        PROVE  /\ Grows(spent.outages, spent'.outages) /\ Grows(spent.early, spent'.early)
               /\ Grows(spent.reorders, spent'.reorders) /\ Grows(spent.losses, spent'.losses)
               /\ Grows(spent.cancels, spent'.cancels)
    <2> DEFINE n == spent[trouble] + 1
    <2>1. n \in Nat /\ spent[trouble] <= n
      BY <1>1
    <2>2. spent' = [spent EXCEPT ![trouble] = n]
      BY <1>4
    <2> HIDE DEF n
    <2>3. \A k \in {"cancels", "outages", "losses", "reorders", "early"} :
             spent'[k] = IF k = trouble THEN n ELSE spent[k]
      BY <1>1, <2>2
    <2>4. \A k \in {"cancels", "outages", "losses", "reorders", "early"} :
             Grows(spent[k], spent'[k])
      BY <1>1, <2>1, <2>3 DEF Grows
    <2> QED
      BY <2>4
  <1> QED
    BY <1>2, <1>3, <1>4

LEMMA OrderWas ==
    ASSUME FtpInv, [Next]_vars
    PROVE  /\ spent'.outages = 0 => spent.outages = 0
           /\ InOrder' => InOrder
           /\ InStep' => InStep
           /\ spent'.cancels = 0 => spent.cancels = 0
  BY SpentGrows DEF Grows, InOrder, InStep

-----------------------------------------------------------------------------
(* The steps of the vehicle and of the link.                                  *)
Serves(rs) ==
    /\ rs \in Seq(GoodAnswer) /\ RepliesTo(rs, toVehicle[1])
    /\ toGcs' = toGcs \o rs
    /\ server'.file = FileAfter(toVehicle[1]) /\ server'.errMode = server.errMode
    /\ server'.lastReply = IF rs = <<>> THEN server.lastReply ELSE rs[Len(rs)]

ServeMove ==
    /\ toVehicle # <<>> /\ toVehicle' = Tail(toVehicle)
    /\ UNCHANGED <<ftp, results, started, refused, linkUp, spent>>
    /\ \/ /\ Repeated(toVehicle[1]) /\ toGcs' = Append(toGcs, server.lastReply)
          /\ server' = server
       \/ ~Repeated(toVehicle[1]) /\ \E rs : Serves(rs)

LEMMA ServeMoves ==
    ASSUME Counts, Serve
    PROVE  ServeMove /\ ServerKnows(toVehicle[1])
  <1> DEFINE q == Head(toVehicle)
             rs == Replies(q)
             file == FileAfter(q)
             last == IF rs = <<>> THEN server.lastReply ELSE Last(rs)
  <1>1. /\ toVehicle # <<>> /\ toVehicle' = Tail(toVehicle)
        /\ UNCHANGED <<ftp, results, started, refused, linkUp, spent>>
        /\ \/ Repeated(q) /\ toGcs' = Append(toGcs, server.lastReply) /\ server' = server
           \/ ~Repeated(q) /\ toGcs' = toGcs \o rs
              /\ server' = [server EXCEPT !.file = file, !.lastReply = last]
    BY DEF Serve
  <1>2. /\ started \in 0 .. Len(Downloads) /\ server \in ServerType
        /\ toVehicle \in Seq(RequestType(1 .. started))
    BY DEF Counts, FtpInv, LinkInv
  <1>3. 1 \in DOMAIN toVehicle /\ q = toVehicle[1] /\ q \in RequestType(1 .. started)
    BY <1>1, <1>2
  <1>4. q.seq + 2 * BurstMax < SeqNumbers
    <2>1. toVehicle[1].seq < ftp.expectedSeq
      BY <1>3 DEF Counts, Numbered
    <2>2. q.seq \in Nat
      BY <1>3 DEF RequestType, Numbers
    <2> QED
      BY <1>3, <2>1, <2>2, NumbersAreFar
  <1>5. rs = Replies(q) /\ file = FileAfter(q)
    OBVIOUS
  <1> HIDE DEF q, rs, file
  <1>6. ServerKnows(q)
    BY <1>2, <1>3, <1>4 DEF ServerKnows
  <1>7. RepliesTo(rs, q) /\ rs \in Seq(GoodAnswer)
    BY <1>2, <1>3, <1>5, <1>6, RepliesExactly, RepliesGood
  <1>8. last = IF rs = <<>> THEN server.lastReply ELSE rs[Len(rs)]
    BY DEF Last
  <1> HIDE DEF last
  <1>9. server' = [server EXCEPT !.file = file, !.lastReply = last] =>
           server'.file = file /\ server'.errMode = server.errMode /\ server'.lastReply = last
    BY <1>2 DEF ServerType
  <1>10. CASE Repeated(q) /\ toGcs' = Append(toGcs, server.lastReply) /\ server' = server
    BY <1>1, <1>3, <1>6, <1>10 DEF ServeMove
  <1>11. CASE ~Repeated(q) /\ toGcs' = toGcs \o rs
              /\ server' = [server EXCEPT !.file = file, !.lastReply = last]
    <2>1. Serves(rs)
      BY <1>3, <1>5, <1>7, <1>8, <1>9, <1>11 DEF Serves
    <2> QED
      BY <1>1, <1>3, <1>6, <1>11, <2>1 DEF ServeMove
  <1> QED
    BY <1>1, <1>10, <1>11

LoseMove ==
    /\ UNCHANGED <<ftp, results, started, refused, server, linkUp>>
    /\ spent'.losses = spent.losses + 1 /\ spent'.reorders = spent.reorders
    /\ \/ toVehicle # <<>> /\ toVehicle' = Tail(toVehicle) /\ toGcs' = toGcs
       \/ toGcs # <<>> /\ toGcs' = Tail(toGcs) /\ toVehicle' = toVehicle

ReorderMove ==
    /\ UNCHANGED <<ftp, results, started, refused, server, toVehicle, linkUp>>
    /\ ~InOrder'
    /\ Len(toGcs) > 1 /\ toGcs' = <<toGcs[2], toGcs[1]>> \o SubSeq(toGcs, 3, Len(toGcs))

EarlyOrDue ==
    /\ UNCHANGED <<started, refused, server, toGcs, linkUp>>
    /\ \/ InFlight /\ ~InStep'
       \/ ~InFlight /\ spent' = spent

StepMove ==
    \/ DownloadMove
    \/ CancelMove /\ spent'.cancels > 0
    \/ TimeoutMove /\ state # "none" /\ EarlyOrDue
    \/ ReceiveMove(toGcs[1]) /\ UNCHANGED <<started, refused, server, linkUp, spent>>
    \/ ServeMove /\ ServerKnows(toVehicle[1])
    \/ LoseMove
    \/ ReorderMove
    \/ UNCHANGED vars

LEMMA StepMoves ==
    ASSUME Counts, [Next]_vars, spent'.outages = 0
    PROVE  StepMove
  <1>1. SpentType /\ FtpInv
    BY DEF Counts, FtpInv, LinkInv
  <1>2. /\ spent.cancels \in Nat /\ spent.outages \in Nat /\ spent.early \in Nat
        /\ spent.reorders \in Nat /\ spent.losses \in Nat
    BY <1>1, FtpAssumption DEF SpentType
  <1>3. ASSUME NEW trouble \in {"cancels", "outages", "losses", "reorders", "early"},
               NEW limit, Troubled(trouble, limit)
        PROVE  /\ spent'[trouble] = spent[trouble] + 1
               /\ \A k \in {"cancels", "outages", "losses", "reorders", "early"} :
                     k # trouble => spent'[k] = spent[k]
    BY <1>1, <1>3 DEF Troubled, SpentType
  <1>4. CASE Download
    BY <1>4, DownloadMoves DEF StepMove
  <1>5. CASE Cancel
    <2>1. CancelMove
      BY <1>5, CancelMoves
    <2>2. spent'.cancels > 0
      BY <1>2, <1>3, <2>1 DEF CancelMove
    <2> QED
      BY <2>1, <2>2 DEF StepMove
  <1>6. CASE Timeout
    <2>1. TimeoutMove /\ state # "none"
      BY <1>6, TimeoutMoves
    <2>2. /\ UNCHANGED <<started, refused, server, toGcs, linkUp>>
          /\ \/ InFlight /\ Troubled("early", MaxEarly)
             \/ ~InFlight /\ spent' = spent
      BY <1>6 DEF Timeout
    <2>3. Troubled("early", MaxEarly) => ~InStep'
      BY <1>2, <1>3 DEF InStep
    <2> QED
      BY <2>1, <2>2, <2>3 DEF StepMove, EarlyOrDue
  <1>7. CASE Receive
    <2>1. ReceiveMove(toGcs[1])
      BY <1>7, ReceiveMoves
    <2> QED
      BY <1>7, <2>1 DEF Receive, StepMove
  <1>8. CASE Serve
    BY <1>8, ServeMoves DEF StepMove
  <1>9. CASE Lose
    <2>1. Troubled("losses", MaxLosses)
      BY <1>9 DEF Lose
    <2>2. spent'.losses = spent.losses + 1 /\ spent'.reorders = spent.reorders
      BY <1>3, <2>1
    <2> QED
      BY <1>9, <2>2 DEF Lose, LoseMove, StepMove
  <1>10. CASE Reorder
    <2>1. Troubled("reorders", MaxReorders)
      BY <1>10 DEF Reorder
    <2>2. ~InOrder'
      BY <1>2, <1>3, <2>1 DEF InOrder
    <2> QED
      BY <1>10, <2>2 DEF Reorder, ReorderMove, StepMove
  <1>11. CASE LinkGoes
    <2>1. Troubled("outages", MaxOutages)
      BY <1>11 DEF LinkGoes
    <2> QED
      BY <1>2, <1>3, <2>1
  <1>12. CASE LinkComesBack
    BY <1>12 DEF LinkComesBack, Counts, Numbered
  <1>13. CASE UNCHANGED vars
    BY <1>13 DEF StepMove
  <1> QED
    BY <1>4, <1>5, <1>6, <1>7, <1>8, <1>9, <1>10, <1>11, <1>12, <1>13 DEF Next

-----------------------------------------------------------------------------
(* Whatever the manager does, the number expected does not go back, and what  *)
(* it asks is numbered before it.                                             *)
Onward ==
    /\ ftp'.expectedSeq >= ftp.expectedSeq
    /\ state' # "none" => ftp'.expectedSeq >= 2
    /\ \/ toVehicle' = toVehicle
       \/ \E q : toVehicle' = Append(toVehicle, q) /\ q.seq < ftp'.expectedSeq

AtLeast(n) == n \in Nat /\ n + 2 >= ftp.expectedSeq

LEMMA GoesOnward ==
    ASSUME Counts, NEW opcode, NEW offset, NEW n, AtLeast(n), Goes(opcode, offset, n)
    PROVE  Onward
  <1>1. n \in Nat /\ n + 2 >= ftp.expectedSeq /\ ftp.expectedSeq \in Nat
    BY NumbersAreFar DEF AtLeast
  <1> DEFINE q == [opcode |-> opcode, offset |-> offset, file |-> ftp.path, seq |-> n + 1]
  <1>2. toVehicle' = Append(toVehicle, q) /\ ftp'.expectedSeq = n + 2 /\ q.seq = n + 1
    BY DEF Goes
  <1>3. q.seq < ftp'.expectedSeq /\ ftp'.expectedSeq >= 2 /\ ftp'.expectedSeq >= ftp.expectedSeq
    BY <1>1, <1>2
  <1> QED
    BY <1>2, <1>3 DEF Onward

LEMMA QuitsOnward ==
    ASSUME Counts, NEW error, Quits(error)
    PROVE  Onward
  BY NumbersAreFar DEF Quits, Onward

LEMMA FillsOnward ==
    ASSUME Counts, Fills
    PROVE  Onward
  <1>1. AtLeast(ftp.expectedSeq)
    BY NumbersAreFar DEF AtLeast
  <1> QED
    BY <1>1, GoesOnward, QuitsOnward DEF Fills, Read, ResetSent

LEMMA TimeoutOnward ==
    ASSUME Counts, TimeoutMove, state # "none"
    PROVE  Onward
  <1>1. AtLeast(ftp.expectedSeq - 2) /\ AtLeast(ftp.expectedSeq)
    BY NumbersAreFar, NumberBefore DEF AtLeast
  <1> QED
    BY <1>1, GoesOnward, QuitsOnward DEF TimeoutMove, Burst, Read, Terminates

LEMMA AnswerOnward ==
    ASSUME Counts, NEW r \in AnswerType, r.seq >= ftp.expectedSeq, AnswerMove(r)
    PROVE  Onward
  <1>1. r.seq \in Nat /\ ftp.expectedSeq \in Nat
    BY NumbersAreFar DEF AnswerType, Numbers
  <1>2. AtLeast(ftp.expectedSeq) /\ AtLeast(r.seq)
    BY <1>1 DEF AtLeast
  <1>3. state # "none" => AtLeast(ftp.expectedSeq - 2)
    BY NumberBefore DEF AtLeast
  <1>4. Opens => Onward
    <2> SUFFICES ASSUME Opens
                 PROVE  Onward
      OBVIOUS
    <2> DEFINE q == [opcode |-> "Burst", offset |-> 0, file |-> ftp.path,
                     seq |-> ftp.expectedSeq + 1]
    <2>1. toVehicle' = Append(toVehicle, q) /\ ftp'.expectedSeq = ftp.expectedSeq + 2
      BY DEF Opens
    <2>2. q.seq < ftp'.expectedSeq /\ ftp'.expectedSeq >= 2 /\ ftp'.expectedSeq >= ftp.expectedSeq
      BY <1>1, <2>1
    <2> QED
      BY <2>1, <2>2 DEF Onward
  <1>5. state # "none" /\ PassesOn(r) => Onward
    <2> SUFFICES ASSUME PassesOn(r), state # "none"
                 PROVE  Onward
      OBVIOUS
    <2>1. ftp.expectedSeq >= 2
      BY DEF Counts, Numbered
    <2> QED
      BY <1>1, <2>1 DEF PassesOn, Onward
  <1>6. Rests => Onward
    <2> SUFFICES ASSUME Rests
                 PROVE  Onward
      OBVIOUS
    <2>1. state' = state
      BY DEF Rests, Kept, state
    <2>2. state # "none" => ftp.expectedSeq >= 2
      BY DEF Counts, Numbered
    <2> QED
      BY <1>1, <2>1, <2>2 DEF Rests, Onward
  <1>7. state = "open" /\ OpenMove(r) => Onward
    BY <1>4, QuitsOnward DEF OpenMove
  <1>8. state = "burst" /\ BurstMove(r) => Onward
    BY <1>2, <1>5, <1>6, GoesOnward, QuitsOnward, FillsOnward DEF BurstMove, BlockMove, Burst
  <1>9. state = "fill" /\ FillMove(r) => Onward
    BY <1>2, <1>3, GoesOnward, QuitsOnward, FillsOnward DEF FillMove, Read, ResetSent
  <1> QED
    BY <1>7, <1>8, <1>9, QuitsOnward DEF AnswerMove

-----------------------------------------------------------------------------
(* The numbers on their way stay close to the one expected.                   *)
NumberInv == spent.outages = 0 => Numbered

Near(r) == r.seq < ftp.expectedSeq + 2 * BurstMax

LEMMA OnwardNumbers ==
    ASSUME Counts, FtpInv', Onward, linkUp' = linkUp, server' = server,
           \A i \in DOMAIN toGcs' : \E k \in DOMAIN toGcs : toGcs'[i] = toGcs[k]
    PROVE  Numbered'
  <1> DEFINE e == ftp.expectedSeq
             f == ftp'.expectedSeq
  <1>1. e \in Nat /\ f \in Nat /\ BurstMax \in Nat
    <2>1. f \in Numbers
      BY DEF FtpInv, ManagerInv, FtpType
    <2> QED
      BY <2>1, NumbersAreFar DEF Numbers
  <1>2. e <= f /\ (state' # "none" => f >= 2)
    BY <1>1 DEF Onward
  <1>3. \A r \in AnswerType : r.seq < e + 2 * BurstMax => r.seq < f + 2 * BurstMax
    BY <1>1, <1>2 DEF AnswerType, Numbers
  <1>4. toGcs \in Seq(AnswerType) /\ toVehicle \in Seq(RequestType(1 .. started))
    <2>1. GoodAnswer \subseteq AnswerType
      BY DEF GoodAnswer
    <2> QED
      BY <2>1, WiderSequence DEF Counts, FtpInv, LinkInv
  <1>5. ASSUME NEW i \in DOMAIN toGcs'
        PROVE  toGcs'[i].seq < f + 2 * BurstMax
    <2>1. PICK k \in DOMAIN toGcs : toGcs'[i] = toGcs[k]
      OBVIOUS
    <2>2. toGcs[k] \in AnswerType
      BY <1>4
    <2>3. toGcs[k].seq < e + 2 * BurstMax
      BY DEF Counts, Numbered
    <2> QED
      BY <1>3, <2>1, <2>2, <2>3
  <1>6. server.lastReply # NoReply => server.lastReply.seq < f + 2 * BurstMax
    <2> SUFFICES ASSUME server.lastReply # NoReply
                 PROVE  server.lastReply.seq < f + 2 * BurstMax
      OBVIOUS
    <2>1. server.lastReply \in AnswerType
      BY DEF Counts, FtpInv, LinkInv, ServerType, GoodAnswer
    <2>2. server.lastReply.seq < e + 2 * BurstMax
      BY DEF Counts, Numbered
    <2> QED
      BY <1>3, <2>1, <2>2
  <1>7. \A q \in RequestType(1 .. started) : q.seq < e => q.seq < f
    BY <1>1, <1>2 DEF RequestType, Numbers
  <1>8. \A i \in DOMAIN toVehicle : toVehicle[i].seq < f
    <2> SUFFICES ASSUME NEW i \in DOMAIN toVehicle
                 PROVE  toVehicle[i].seq < f
      OBVIOUS
    <2>1. toVehicle[i] \in RequestType(1 .. started)
      BY <1>4
    <2>2. toVehicle[i].seq < e
      BY DEF Counts, Numbered
    <2> QED
      BY <1>7, <2>1, <2>2
  <1>9. \A i \in DOMAIN toVehicle' : toVehicle'[i].seq < f
    <2>1. CASE toVehicle' = toVehicle
      BY <1>8, <2>1
    <2>2. CASE \E q : toVehicle' = Append(toVehicle, q) /\ q.seq < f
      <3>1. PICK q : toVehicle' = Append(toVehicle, q) /\ q.seq < f
        BY <2>2
      <3>2. MoreThan(toVehicle, toVehicle', q)
        BY <1>4, <3>1, AppendElements
      <3> QED
        BY <1>8, <3>1, <3>2 DEF MoreThan
    <2> QED
      BY <2>1, <2>2 DEF Onward
  <1>10. linkUp
    BY DEF Counts, Numbered
  <1> QED
    BY <1>2, <1>5, <1>6, <1>9, <1>10 DEF Numbered

(* Every reply is to the request.                                             *)
LEMMA RepliesAreTo ==
    ASSUME NEW q, NEW rs, RepliesTo(rs, q), NEW i \in DOMAIN rs
    PROVE  \E k \in 1 .. BurstMax : ReplyTo(rs[i], q, k)
  <1>0. BurstMax \in Nat /\ BurstMax > 1
    BY FtpAssumption
  <1>1. CASE rs = <<>>
    BY <1>1
  <1>2. CASE \E r : rs = <<r>> /\ SingleReply(r, q)
    <2>1. PICK r : rs = <<r>> /\ SingleReply(r, q)
      BY <1>2
    <2>2. rs[i] = r /\ 1 \in 1 .. BurstMax
      BY <1>0, <2>1
    <2> QED
      BY <2>1, <2>2 DEF SingleReply
  <1>3. CASE BurstReplies(rs, q)
    <2>1. i \in 1 .. BurstMax
      <3>1. Len(rs) <= BurstMax /\ ReplyTo(rs[i], q, i)
        BY <1>3 DEF BurstReplies
      <3>2. rs \in Seq(AnswerType) \/ rs \notin Seq(AnswerType)
        OBVIOUS
      <3> QED
        BY <1>0, <3>1
    <2> QED
      BY <1>3, <2>1 DEF BurstReplies
  <1> QED
    BY <1>1, <1>2, <1>3 DEF RepliesTo

LEMMA RepliedNear ==
    ASSUME Counts, NEW q \in RequestType(1 .. started), q.seq < ftp.expectedSeq,
           NEW rs, RepliesTo(rs, q), NEW i \in DOMAIN rs
    PROVE  Near(rs[i])
  <1>1. PICK k \in 1 .. BurstMax : ReplyTo(rs[i], q, k)
    BY RepliesAreTo
  <1>2. rs[i].seq = q.seq + k * Stride
    BY <1>1 DEF ReplyTo
  <1>3. q.seq \in Nat /\ ftp.expectedSeq \in Nat /\ BurstMax \in Nat
    BY NumbersAreFar DEF RequestType, Numbers
  <1>4. CASE Stride = 1
    BY <1>2, <1>3, <1>4 DEF Near
  <1>5. CASE Stride = 2
    BY <1>2, <1>3, <1>5 DEF Near
  <1> QED
    BY <1>4, <1>5, StrideOf

(* What was on its way to either side still is, or less.                      *)
LEMMA TailsNumbered ==
    ASSUME Counts, ftp' = ftp, linkUp' = linkUp, server' = server,
           toVehicle' = toVehicle \/ (toVehicle # <<>> /\ toVehicle' = Tail(toVehicle)),
           \A i \in DOMAIN toGcs' : \E k \in DOMAIN toGcs : toGcs'[i] = toGcs[k]
    PROVE  Numbered'
  <1>1. toVehicle \in Seq(RequestType(1 .. started))
    BY DEF Counts, FtpInv, LinkInv
  <1>2. \A i \in DOMAIN toVehicle' : \E k \in DOMAIN toVehicle : toVehicle'[i] = toVehicle[k]
    <2>1. toVehicle # <<>> /\ toVehicle' = Tail(toVehicle) => TailOf(toVehicle, toVehicle')
      BY <1>1, TailElements
    <2> QED
      BY <2>1 DEF TailOf
  <1>3. state' = state
    BY DEF state
  <1> QED
    BY <1>2, <1>3 DEF Counts, Numbered

LEMMA ServeNumbers ==
    ASSUME Counts, ServeMove
    PROVE  Numbered'
  <1> DEFINE q == toVehicle[1]
  <1>1. /\ toVehicle \in Seq(RequestType(1 .. started)) /\ toGcs \in Seq(GoodAnswer)
        /\ toVehicle # <<>> /\ toVehicle' = Tail(toVehicle) /\ ftp' = ftp /\ linkUp' = linkUp
    BY DEF Counts, FtpInv, LinkInv, ServeMove
  <1>2. TailOf(toVehicle, toVehicle')
    BY <1>1, TailElements
  <1>3. q \in RequestType(1 .. started) /\ q.seq < ftp.expectedSeq
    BY <1>1, <1>2 DEF TailOf, Counts, Numbered
  <1>4. state' = state
    BY <1>1 DEF state
  <1>5. \A i \in DOMAIN toVehicle' : toVehicle'[i].seq < ftp.expectedSeq
    BY <1>2 DEF TailOf, Counts, Numbered
  <1>6. /\ \A i \in DOMAIN toGcs : Near(toGcs[i])
        /\ server.lastReply # NoReply => Near(server.lastReply)
        /\ linkUp /\ (state # "none" => ftp.expectedSeq >= 2)
    BY DEF Counts, Numbered, Near
  <1> HIDE DEF q
  <1>7. (\A i \in DOMAIN toGcs' : Near(toGcs'[i])) /\ (server'.lastReply # NoReply => Near(server'.lastReply))
    <2>1. CASE /\ Repeated(q) /\ toGcs' = Append(toGcs, server.lastReply) /\ server' = server
      <3>1. MoreThan(toGcs, toGcs', server.lastReply)
        BY <1>1, <2>1, AppendElements
      <3>2. Near(server.lastReply)
        BY <1>6, <2>1 DEF Repeated
      <3> QED
        BY <1>6, <2>1, <3>1, <3>2 DEF MoreThan
    <2>2. CASE \E rs : Serves(rs)
      <3>1. PICK rs : Serves(rs)
        BY <2>2
      <3>2. rs \in Seq(GoodAnswer) /\ RepliesTo(rs, q) /\ toGcs' = toGcs \o rs
            /\ server'.lastReply = IF rs = <<>> THEN server.lastReply ELSE rs[Len(rs)]
        BY <3>1 DEF Serves, q
      <3>3. Joined(toGcs, rs, toGcs')
        BY <1>1, <3>2, ConcatElements
      <3>4. \A i \in DOMAIN rs : Near(rs[i])
        BY <1>3, <3>2, RepliedNear
      <3>5. rs # <<>> => Len(rs) \in DOMAIN rs
        BY <3>2
      <3> QED
        BY <1>6, <3>2, <3>3, <3>4, <3>5 DEF Joined
    <2> QED
      BY <2>1, <2>2 DEF ServeMove, q
  <1> QED
    BY <1>1, <1>4, <1>5, <1>6, <1>7 DEF Numbered, Near

LEMMA ReceiveKeepsFew ==
    ASSUME Counts, toGcs # <<>>, toGcs' = Tail(toGcs)
    PROVE  \A i \in DOMAIN toGcs' : \E k \in DOMAIN toGcs : toGcs'[i] = toGcs[k]
  <1>1. toGcs \in Seq(GoodAnswer)
    BY DEF Counts, FtpInv, LinkInv
  <1>2. TailOf(toGcs, toGcs')
    BY <1>1, TailElements
  <1> QED
    BY <1>2 DEF TailOf

LEMMA StepNumbers ==
    ASSUME Counts, FtpInv', StepMove
    PROVE  Numbered'
  <1>1. UNCHANGED toGcs => \A i \in DOMAIN toGcs' : \E k \in DOMAIN toGcs : toGcs'[i] = toGcs[k]
    OBVIOUS
  <1>2. CASE DownloadMove
    <2>1. UNCHANGED <<server, toGcs, linkUp>>
      BY <1>2 DEF DownloadMove
    <2>2. ftp.expectedSeq \in Nat
      BY NumbersAreFar
    <2>3. CASE UNCHANGED <<ftp, toVehicle>>
      BY <1>1, <2>1, <2>3, TailsNumbered
    <2>4. CASE /\ state' = "none" /\ ftp'.expectedSeq = ftp.expectedSeq /\ toVehicle' = toVehicle
      <3>1. Onward
        BY <2>2, <2>4 DEF Onward
      <3> QED
        BY <1>1, <2>1, <3>1, OnwardNumbers
    <2>5. CASE /\ ftp'.expectedSeq = ftp.expectedSeq + 2
               /\ toVehicle' = Append(toVehicle, [opcode |-> "Open", offset |-> 0, file |-> started',
                                                  seq |-> ftp.expectedSeq + 1])
      <3> DEFINE q == [opcode |-> "Open", offset |-> 0, file |-> started',
                       seq |-> ftp.expectedSeq + 1]
      <3>1. q.seq < ftp'.expectedSeq /\ ftp'.expectedSeq >= 2 /\ ftp'.expectedSeq >= ftp.expectedSeq
        BY <2>2, <2>5
      <3>2. toVehicle' = Append(toVehicle, q)
        BY <2>5
      <3> HIDE DEF q
      <3>3. Onward
        BY <3>1, <3>2 DEF Onward
      <3> QED
        BY <1>1, <2>1, <3>3, OnwardNumbers
    <2> QED
      BY <1>2, <2>3, <2>4, <2>5 DEF DownloadMove
  <1>3. CASE CancelMove
    <2>1. AtLeast(ftp.expectedSeq)
      BY NumbersAreFar DEF AtLeast
    <2>2. Onward /\ UNCHANGED <<server, toGcs, linkUp>>
      BY <1>3, <2>1, GoesOnward DEF CancelMove, Terminates
    <2> QED
      BY <1>1, <2>2, OnwardNumbers
  <1>4. CASE TimeoutMove /\ state # "none" /\ EarlyOrDue
    <2>1. Onward /\ UNCHANGED <<server, toGcs, linkUp>>
      BY <1>4, TimeoutOnward DEF EarlyOrDue
    <2> QED
      BY <1>1, <2>1, OnwardNumbers
  <1>5. CASE ReceiveMove(toGcs[1]) /\ UNCHANGED <<started, refused, server, linkUp, spent>>
    <2> DEFINE r == toGcs[1]
    <2>1. toGcs # <<>> /\ toGcs' = Tail(toGcs) /\ r \in AnswerType
      BY <1>5 DEF ReceiveMove
    <2>2. \A i \in DOMAIN toGcs' : \E k \in DOMAIN toGcs : toGcs'[i] = toGcs[k]
      BY <2>1, ReceiveKeepsFew
    <2>3. CASE r.seq >= ftp.expectedSeq /\ AnswerMove(r)
      <3> HIDE DEF r
      <3>1. Onward
        BY <2>1, <2>3, AnswerOnward
      <3> QED
        BY <1>5, <2>2, <3>1, OnwardNumbers
    <2>4. CASE UNCHANGED <<ftp, results, toVehicle>>
      BY <1>5, <2>2, <2>4, TailsNumbered
    <2> QED
      BY <1>5, <2>3, <2>4 DEF ReceiveMove
  <1>6. CASE ServeMove
    BY <1>6, ServeNumbers
  <1>7. CASE LoseMove
    <2>1. toGcs # <<>> /\ toGcs' = Tail(toGcs) =>
             \A i \in DOMAIN toGcs' : \E k \in DOMAIN toGcs : toGcs'[i] = toGcs[k]
      BY ReceiveKeepsFew
    <2> QED
      BY <1>1, <1>7, <2>1, TailsNumbered DEF LoseMove
  <1>8. CASE ReorderMove
    <2>1. toGcs \in Seq(GoodAnswer)
      BY DEF Counts, FtpInv, LinkInv
    <2>2. Swapped(toGcs, toGcs')
      BY <1>8, <2>1, SwapElements DEF ReorderMove
    <2> QED
      BY <1>8, <2>2, TailsNumbered DEF ReorderMove, Swapped
  <1>9. CASE UNCHANGED vars
    BY <1>1, <1>9, TailsNumbered DEF vars
  <1> QED
    BY <1>2, <1>3, <1>4, <1>5, <1>6, <1>7, <1>8, <1>9 DEF StepMove

LEMMA NumbersStart ==
    ASSUME Init
    PROVE  NumberInv
  BY DEF Init, NumberInv, Numbered, state

LEMMA NumbersKeep ==
    ASSUME Room, FtpInv, FirstHalf, NumberInv, [Next]_vars
    PROVE  NumberInv'
  <1> SUFFICES ASSUME spent'.outages = 0
               PROVE  Numbered'
    BY DEF NumberInv
  <1>1. Counts
    BY OrderWas DEF Counts, NumberInv
  <1>2. FtpInv' /\ StepMove
    BY <1>1, StepKeeps, StepMoves
  <1> QED
    BY <1>1, <1>2, StepNumbers

-----------------------------------------------------------------------------
(* While there is a link: nothing is open while the open is asked for, and    *)
(* from then on the local file is; what is terminated was cancelled.          *)
OpenFile ==
    /\ state = "open" => ~ftp.fileOpen /\ ftp.fileSize = 0
    /\ state \in {"burst", "fill", "reset", "terminate"} => ftp.fileOpen
    /\ state = "terminate" => spent.cancels > 0

OpenInv == spent.outages = 0 => OpenFile

(* What an answer or the timeout makes of a download that is under way.       *)
ReadMove ==
    /\ ftp'.path = ftp.path /\ ftp'.fileOpen = ftp.fileOpen
    /\ state' \in {"burst", "fill", "reset", "terminate"}
    /\ state' \in {"burst", "fill", "reset"} => state \in {"burst", "fill"}
    /\ \/ toVehicle' = toVehicle
       \/ \E q : /\ toVehicle' = Append(toVehicle, q) /\ q.file = ftp.path
                 /\ q.opcode = OpcodeOf[state']

Gone == \E error : Quits(error)

LEMMA RestsWhere ==
    ASSUME Rests
    PROVE  state' = state
  BY DEF Rests, Kept, state

LEMMA GoesReads ==
    ASSUME NEW opcode, NEW offset, NEW n, Goes(opcode, offset, n),
           state' \in {"burst", "fill", "reset", "terminate"}, opcode = OpcodeOf[state'],
           state' \in {"burst", "fill", "reset"} => state \in {"burst", "fill"}
    PROVE  ReadMove
  BY DEF Goes, ReadMove

LEMMA BurstReads ==
    ASSUME NEW offset, NEW n, Burst(offset, n), state \in {"burst", "fill"}
    PROVE  ReadMove
  BY GoesReads DEF Burst, OpcodeOf

LEMMA HoleReads ==
    ASSUME NEW n, Read(n), state \in {"burst", "fill"}
    PROVE  ReadMove
  BY GoesReads DEF Read, OpcodeOf

LEMMA ResetReads ==
    ASSUME NEW n, ResetSent(n), state \in {"burst", "fill"}
    PROVE  ReadMove
  BY GoesReads DEF ResetSent, OpcodeOf

LEMMA TerminateReads ==
    ASSUME NEW n, Terminates(n)
    PROVE  ReadMove
  BY GoesReads DEF Terminates, OpcodeOf

LEMMA FillsRead ==
    ASSUME Fills, state \in {"burst", "fill"}
    PROVE  ReadMove \/ Gone
  BY HoleReads, ResetReads DEF Fills, Gone

LEMMA TimeoutReads ==
    ASSUME TimeoutMove
    PROVE  (state # "open" /\ state # "none" /\ ReadMove) \/ Gone
  BY BurstReads, HoleReads, TerminateReads DEF TimeoutMove, Gone

LEMMA AnswerReads ==
    ASSUME NEW r, AnswerMove(r)
    PROVE  \/ state # "open" /\ state # "none" /\ ReadMove
           \/ Gone
           \/ state = "open" /\ r.ack /\ Opens
  <1>1. state = "open" /\ OpenMove(r) => Gone \/ (state = "open" /\ r.ack /\ Opens)
    BY DEF OpenMove, Gone
  <1>2. state = "burst" /\ BurstMove(r) => ReadMove \/ Gone
    <2>1. state = "burst" /\ Rests => ReadMove
      BY RestsWhere DEF Rests, Kept, ReadMove
    <2>2. state = "burst" /\ PassesOn(r) => ReadMove
      BY DEF PassesOn, ReadMove
    <2> QED
      BY <2>1, <2>2, BurstReads, FillsRead DEF BurstMove, BlockMove, Gone
  <1>3. state = "fill" /\ FillMove(r) => ReadMove \/ Gone
    BY HoleReads, ResetReads, FillsRead DEF FillMove, Gone
  <1> QED
    BY <1>1, <1>2, <1>3 DEF AnswerMove, Gone

LEMMA OpenKeeps ==
    ASSUME FtpInv, [Next]_vars, OpenFile, StepMove
    PROVE  OpenFile'
  <1>1. spent.cancels > 0 => spent'.cancels > 0
    BY SpentGrows DEF Grows
  <1>2. ftp' = ftp => state' = state
    BY DEF state
  <1>3. UNCHANGED ftp => OpenFile'
    BY <1>1, <1>2 DEF OpenFile
  <1>4. Gone => OpenFile'
    BY DEF Gone, Quits, OpenFile
  <1>5. ASSUME ReadMove, state # "open", state # "none", state' = "terminate" => spent'.cancels > 0
        PROVE  OpenFile'
    <2>1. ftp.fileOpen
      <3>1. ftp.index # -1
        BY <1>5 DEF state
      <3>2. Busy(ftp)
        BY <3>1 DEF FtpInv, ManagerInv, Downloading
      <3>3. state \in {"burst", "fill", "reset", "terminate"}
        BY <1>5, <3>2, StateNames
      <3> QED
        BY <3>3 DEF OpenFile
    <2> QED
      BY <1>5, <2>1 DEF ReadMove, OpenFile
  <1>6. CASE DownloadMove
    BY <1>3, <1>6 DEF DownloadMove, OpenFile
  <1>7. CASE CancelMove /\ spent'.cancels > 0
    <2>1. state # "none" /\ state # "open"
      BY <1>7 DEF CancelMove, OpenFile
    <2> QED
      BY <1>5, <1>7, <2>1, TerminateReads DEF CancelMove
  <1>8. CASE TimeoutMove /\ state # "none" /\ EarlyOrDue
    <2>1. state' = "terminate" => state = "terminate" \/ Gone
      BY <1>8 DEF TimeoutMove, Burst, Read, Gone
    <2>2. state = "terminate" => spent'.cancels > 0
      BY <1>1 DEF OpenFile
    <2> QED
      BY <1>4, <1>5, <1>8, <2>1, <2>2, TimeoutReads
  <1>9. CASE ReceiveMove(toGcs[1])
    <2> DEFINE r == toGcs[1]
    <2>1. AnswerMove(r) \/ UNCHANGED ftp
      BY <1>9 DEF ReceiveMove
    <2> HIDE DEF r
    <2>2. CASE AnswerMove(r)
      <3>1. state' = "terminate" => Gone
        <4>1. Rests /\ state = "burst" => state' = "burst"
          BY RestsWhere
        <4> QED
          BY <2>2, <4>1 DEF AnswerMove, OpenMove, BurstMove, BlockMove, FillMove, Fills, Burst, Read,
                     ResetSent, PassesOn, Opens, Gone
      <3>2. Opens => OpenFile'
        BY DEF Opens, OpenFile
      <3> QED
        BY <1>4, <1>5, <2>2, <3>1, <3>2, AnswerReads
    <2> QED
      BY <1>3, <2>1, <2>2
  <1> QED
    BY <1>3, <1>6, <1>7, <1>8, <1>9 DEF StepMove, ServeMove, LoseMove, ReorderMove, vars

-----------------------------------------------------------------------------
(* While nothing is reordered either: an open is answered by its own answer,  *)
(* and what is on its way while a file is read is about that file.            *)
OpenAsked(q, last) ==
    \/ q.seq + 2 < ftp.expectedSeq
    \/ state = "none" /\ q.seq < ftp.expectedSeq
    \/ state = "open" /\ last /\ q.seq = ftp.expectedSeq - 1 /\ q.file = ftp.path

OpenReplied(r, last) ==
    \/ r.seq < ftp.expectedSeq
    \/ state = "none" /\ r.seq < ftp.expectedSeq + 2
    \/ /\ state = "open" /\ r.seq < ftp.expectedSeq + 2
       /\ last /\ toVehicle = <<>> /\ server.lastReply = r
       /\ r.ack => r.size = Downloads[ftp.path].reported /\ server.file = ftp.path
       /\ server.errMode = "BadSequence" => r.seq # ftp.expectedSeq

OpenRemembered(r) ==
    \/ r.seq < ftp.expectedSeq
    \/ state = "none" /\ r.seq < ftp.expectedSeq + 2
    \/ state = "open" /\ toVehicle = <<>> /\ r.seq < ftp.expectedSeq + 2

OpensAsked ==
    \A i \in DOMAIN toVehicle :
        toVehicle[i].opcode = "Open" => OpenAsked(toVehicle[i], i = Len(toVehicle))
OpensReplied ==
    \A i \in DOMAIN toGcs :
        toGcs[i].opcode = "Open" => OpenReplied(toGcs[i], i = Len(toGcs))
OpensRemembered ==
    server.lastReply # NoReply /\ server.lastReply.opcode = "Open"
        => OpenRemembered(server.lastReply)

BlockIs(r, p) == r.opcode \in {"Burst", "Read"} /\ r.ack => r.file = p

OneFile ==
    /\ \A i \in DOMAIN toVehicle :
          /\ toVehicle[i].file = ftp.path
          /\ toVehicle[i].opcode \in {"Burst", "Read", "Reset"}
          /\ toVehicle[i].opcode = "Reset" => state = "reset" /\ i = Len(toVehicle)
    /\ \A i \in DOMAIN toGcs : BlockIs(toGcs[i], ftp.path)
    /\ server.lastReply # NoReply => BlockIs(server.lastReply, ftp.path)
    /\ server.file = ftp.path \/ (state = "reset" /\ toVehicle = <<>>)

Ordered ==
    /\ OpensAsked /\ OpensReplied /\ OpensRemembered
    /\ state \in {"burst", "fill", "reset"} => OneFile

OrderInv == InOrder => Ordered

(* The messages on their way have numbers, not yet wrapped.                   *)
Messages ==
    /\ ftp.expectedSeq \in Nat
    /\ \A i \in DOMAIN toVehicle : toVehicle[i].seq \in Nat /\ toVehicle[i].seq < ftp.expectedSeq
    /\ \A i \in DOMAIN toGcs : toGcs[i] \in AnswerType /\ toGcs[i].seq \in Nat
    /\ server.lastReply # NoReply => server.lastReply \in AnswerType /\ server.lastReply.seq \in Nat
    /\ toVehicle \in Seq(RequestType(1 .. started)) /\ toGcs \in Seq(GoodAnswer)

LEMMA MessagesAre ==
    ASSUME Counts
    PROVE  Messages
  <1>1. /\ toVehicle \in Seq(RequestType(1 .. started)) /\ toGcs \in Seq(GoodAnswer)
        /\ server \in ServerType
    BY DEF Counts, FtpInv, LinkInv
  <1>2. \A i \in DOMAIN toVehicle : toVehicle[i].seq \in Nat /\ toVehicle[i].seq < ftp.expectedSeq
    <2>1. \A i \in DOMAIN toVehicle : toVehicle[i] \in RequestType(1 .. started)
      BY <1>1
    <2> QED
      BY <2>1 DEF Counts, Numbered, RequestType, Numbers
  <1>3. \A r \in GoodAnswer : r \in AnswerType /\ r.seq \in Nat
    BY DEF GoodAnswer, AnswerType, Numbers
  <1>4. \A i \in DOMAIN toGcs : toGcs[i] \in GoodAnswer
    BY <1>1
  <1> QED
    BY <1>1, <1>2, <1>3, <1>4, NumbersAreFar DEF Messages, ServerType

FewerToGcs == \A i \in DOMAIN toGcs' : \E k \in DOMAIN toGcs : toGcs'[i] = toGcs[k]

LEMMA GoneOrdered ==
    ASSUME Messages, Ordered, Gone, server' = server, FewerToGcs
    PROVE  Ordered'
  <1>1. state' = "none" /\ ftp'.expectedSeq = ftp.expectedSeq /\ toVehicle' = toVehicle
    BY DEF Gone, Quits
  <1>2. OpensAsked'
    <2>1. \A i \in DOMAIN toVehicle : OpenAsked(toVehicle[i], i = Len(toVehicle)) =>
             toVehicle[i].seq < ftp.expectedSeq
      BY DEF Messages
    <2> QED
      BY <1>1, <2>1 DEF Ordered, OpensAsked, OpenAsked
  <1>3. \A r \in AnswerType : r.seq \in Nat /\ (OpenRemembered(r) \/ \E last \in BOOLEAN : OpenReplied(r, last)) =>
           r.seq < ftp.expectedSeq + 2
    BY DEF Messages, OpenRemembered, OpenReplied
  <1>4. OpensReplied'
    <2> SUFFICES ASSUME NEW i \in DOMAIN toGcs', toGcs'[i].opcode = "Open"
                 PROVE  toGcs'[i].seq < ftp.expectedSeq + 2
      BY <1>1 DEF OpensReplied, OpenReplied
    <2>1. PICK k \in DOMAIN toGcs : toGcs'[i] = toGcs[k]
      BY DEF FewerToGcs
    <2>2. OpenReplied(toGcs[k], k = Len(toGcs))
      BY <2>1 DEF Ordered, OpensReplied
    <2>3. (k = Len(toGcs)) \in BOOLEAN /\ toGcs[k] \in AnswerType /\ toGcs[k].seq \in Nat
      BY DEF Messages
    <2> QED
      BY <1>3, <2>1, <2>2, <2>3
  <1>5. OpensRemembered'
    <2>1. server.lastReply # NoReply /\ server.lastReply.opcode = "Open" =>
             server.lastReply.seq < ftp.expectedSeq + 2
      BY <1>3 DEF Messages, Ordered, OpensRemembered
    <2> QED
      BY <1>1, <2>1 DEF OpensRemembered, OpenRemembered
  <1> QED
    BY <1>1, <1>2, <1>4, <1>5 DEF Ordered

LEMMA ReadOrdered ==
    ASSUME Messages, Ordered, ReadMove, state # "open", state # "none", server' = server,
           FewerToGcs, ftp'.expectedSeq \in Nat, ftp'.expectedSeq >= ftp.expectedSeq
    PROVE  Ordered'
  <1>0. /\ ftp'.path = ftp.path /\ state' \in {"burst", "fill", "reset", "terminate"}
        /\ state' \in {"burst", "fill", "reset"} => state \in {"burst", "fill"}
    BY DEF ReadMove
  <1>1. \A i \in DOMAIN toVehicle : toVehicle[i].opcode = "Open" =>
           toVehicle[i].seq + 2 < ftp'.expectedSeq
    BY DEF Messages, Ordered, OpensAsked, OpenAsked
  <1>2. \A i \in DOMAIN toGcs : toGcs[i].opcode = "Open" => toGcs[i].seq < ftp'.expectedSeq
    BY DEF Messages, Ordered, OpensReplied, OpenReplied
  <1>3. server.lastReply # NoReply /\ server.lastReply.opcode = "Open" =>
           server.lastReply.seq < ftp'.expectedSeq
    BY DEF Messages, Ordered, OpensRemembered, OpenRemembered
  <1>4. CASE toVehicle' = toVehicle
    <2>1. OpensAsked' /\ OpensReplied' /\ OpensRemembered'
      BY <1>1, <1>2, <1>3, <1>4
         DEF OpensAsked, OpenAsked, OpensReplied, OpenReplied, OpensRemembered, OpenRemembered, FewerToGcs
    <2>2. state' \in {"burst", "fill", "reset"} => OneFile'
      BY <1>0, <1>4 DEF Ordered, OneFile, FewerToGcs
    <2> QED
      BY <2>1, <2>2 DEF Ordered
  <1>5. ASSUME NEW q, toVehicle' = Append(toVehicle, q), q.file = ftp.path,
               q.opcode = OpcodeOf[state']
        PROVE  Ordered'
    <2>1. MoreThan(toVehicle, toVehicle', q)
      BY <1>5, AppendElements DEF Messages
    <2>2. /\ q.opcode # "Open"
          /\ state' \in {"burst", "fill", "reset"} => q.opcode \in {"Burst", "Read", "Reset"}
          /\ q.opcode = "Reset" => state' = "reset"
      BY <1>0, <1>5 DEF OpcodeOf
    <2>3. OpensAsked'
      BY <1>1, <2>1, <2>2 DEF OpensAsked, OpenAsked, MoreThan
    <2>4. OpensReplied' /\ OpensRemembered'
      BY <1>2, <1>3 DEF OpensReplied, OpenReplied, OpensRemembered, OpenRemembered, FewerToGcs
    <2>5. ASSUME state' \in {"burst", "fill", "reset"}
          PROVE  OneFile'
      <3>1. state \in {"burst", "fill"} /\ OneFile
        BY <1>0, <2>5 DEF Ordered
      <3>2. \A i \in DOMAIN toVehicle :
               toVehicle[i].file = ftp.path /\ toVehicle[i].opcode \in {"Burst", "Read"}
        BY <3>1 DEF OneFile
      <3>3. \A i \in DOMAIN toVehicle' :
               /\ toVehicle'[i].file = ftp'.path
               /\ toVehicle'[i].opcode \in {"Burst", "Read", "Reset"}
               /\ toVehicle'[i].opcode = "Reset" => state' = "reset" /\ i = Len(toVehicle')
        BY <1>0, <1>5, <2>1, <2>2, <2>5, <3>2 DEF MoreThan
      <3>4. /\ \A i \in DOMAIN toGcs' : BlockIs(toGcs'[i], ftp'.path)
            /\ server'.lastReply # NoReply => BlockIs(server'.lastReply, ftp'.path)
            /\ server'.file = ftp'.path
        BY <1>0, <3>1 DEF OneFile, FewerToGcs
      <3> QED
        BY <3>3, <3>4 DEF OneFile
    <2> QED
      BY <2>3, <2>4, <2>5 DEF Ordered
  <1> QED
    BY <1>4, <1>5 DEF ReadMove

(* The open is answered, and nothing else is on its way.                      *)
LEMMA OpensOrdered ==
    ASSUME Messages, Ordered, NEW r, r = toGcs[1], r.ack, r.opcode = "Open",
           r.seq = ftp.expectedSeq, state = "open", toGcs # <<>>, toGcs' = Tail(toGcs),
           Opens, server' = server
    PROVE  Ordered'
  <1>1. TailOf(toGcs, toGcs')
    BY TailElements DEF Messages
  <1>2. OpenReplied(r, 1 = Len(toGcs))
    BY <1>1 DEF Ordered, OpensReplied, TailOf
  <1>3. ~(r.seq < ftp.expectedSeq)
    BY DEF Messages
  <1>4. /\ 1 = Len(toGcs) /\ toVehicle = <<>> /\ server.lastReply = r
        /\ server.file = ftp.path
    BY <1>2, <1>3 DEF OpenReplied
  <1> DEFINE q == [opcode |-> "Burst", offset |-> 0, file |-> ftp.path,
                   seq |-> ftp.expectedSeq + 1]
  <1>5. /\ toVehicle' = Append(toVehicle, q) /\ ftp'.expectedSeq = ftp.expectedSeq + 2
        /\ ftp'.path = ftp.path /\ state' = "burst"
    BY DEF Opens
  <1>6. toVehicle' = <<q>> /\ q.opcode = "Burst" /\ q.file = ftp.path
    BY <1>4, <1>5
  <1> HIDE DEF q
  <1>7. DOMAIN toVehicle' = {1} /\ toVehicle'[1] = q /\ toGcs' = <<>>
    BY <1>1, <1>4, <1>6 DEF TailOf
  <1>8. DOMAIN toGcs' = {}
    BY <1>7
  <1>9. OpensAsked' /\ OpensReplied'
    BY <1>6, <1>7, <1>8 DEF OpensAsked, OpensReplied
  <1>10. OpensRemembered'
    <2>1. r.seq < ftp'.expectedSeq
      BY <1>5 DEF Messages
    <2> QED
      BY <1>4, <2>1 DEF OpensRemembered, OpenRemembered
  <1>11. OneFile'
    BY <1>4, <1>5, <1>6, <1>7, <1>8 DEF OneFile, BlockIs
  <1> QED
    BY <1>9, <1>10, <1>11 DEF Ordered

LEMMA DownloadOrdered ==
    ASSUME Messages, Ordered, DownloadMove
    PROVE  Ordered'
  <1>1. server' = server /\ toGcs' = toGcs
    BY DEF DownloadMove
  <1>2. CASE UNCHANGED <<ftp, toVehicle>>
    <2>1. state' = state
      BY <1>2 DEF state
    <2> QED
      BY <1>1, <1>2, <2>1 DEF Ordered, OpensAsked, OpenAsked, OpensReplied, OpenReplied,
                              OpensRemembered, OpenRemembered, OneFile
  <1>3. CASE /\ state = "none" /\ state' = "none"
             /\ ftp'.expectedSeq = ftp.expectedSeq /\ toVehicle' = toVehicle
    BY <1>1, <1>3 DEF Ordered, OpensAsked, OpenAsked, OpensReplied, OpenReplied,
                      OpensRemembered, OpenRemembered
  <1>4. CASE /\ state = "none" /\ state' = "open" /\ ftp'.path = started'
             /\ ftp'.expectedSeq = ftp.expectedSeq + 2
             /\ toVehicle' = Append(toVehicle, [opcode |-> "Open", offset |-> 0, file |-> started',
                                                seq |-> ftp.expectedSeq + 1])
    <2> DEFINE q == [opcode |-> "Open", offset |-> 0, file |-> started', seq |-> ftp.expectedSeq + 1]
               e == ftp.expectedSeq
    <2>1. toVehicle' = Append(toVehicle, q) /\ q.seq = e + 1 /\ q.file = started'
      BY <1>4
    <2>2. e \in Nat /\ ftp'.expectedSeq = e + 2
      BY <1>4 DEF Messages
    <2> HIDE DEF q, e
    <2>3. MoreThan(toVehicle, toVehicle', q)
      BY <2>1, AppendElements DEF Messages
    <2>4. \A i \in DOMAIN toVehicle : toVehicle[i].opcode = "Open" => toVehicle[i].seq + 2 < e + 2
      BY <1>4, <2>2 DEF Messages, Ordered, OpensAsked, OpenAsked, e
    <2>5. q.seq = (e + 2) - 1
      BY <2>1, <2>2
    <2>6. OpensAsked'
      BY <1>4, <2>1, <2>2, <2>3, <2>4, <2>5 DEF OpensAsked, OpenAsked, MoreThan
    <2>7. \A i \in DOMAIN toGcs : toGcs[i].opcode = "Open" => toGcs[i].seq < e + 2
      BY <1>4, <2>2 DEF Messages, Ordered, OpensReplied, OpenReplied, e
    <2>8. server.lastReply # NoReply /\ server.lastReply.opcode = "Open" => server.lastReply.seq < e + 2
      BY <1>4, <2>2 DEF Messages, Ordered, OpensRemembered, OpenRemembered, e
    <2>9. OpensReplied' /\ OpensRemembered'
      BY <1>1, <2>2, <2>7, <2>8 DEF OpensReplied, OpenReplied, OpensRemembered, OpenRemembered
    <2> QED
      BY <1>4, <2>6, <2>9 DEF Ordered
  <1> QED
    BY <1>2, <1>3, <1>4 DEF DownloadMove

(* Messages lost, or dropped.                                                 *)
Drops ==
    /\ ftp' = ftp /\ server' = server
    /\ \/ toVehicle # <<>> /\ toVehicle' = Tail(toVehicle) /\ toGcs' = toGcs
       \/ toGcs # <<>> /\ toGcs' = Tail(toGcs) /\ toVehicle' = toVehicle
       \/ UNCHANGED <<toVehicle, toGcs>>

LEMMA DropsOrdered ==
    ASSUME Messages, Ordered, Drops
    PROVE  Ordered'
  <1>1. state' = state /\ ftp' = ftp /\ server' = server
    BY DEF state, Drops
  <1>2. CASE toVehicle # <<>> /\ toVehicle' = Tail(toVehicle) /\ toGcs' = toGcs
    <2>1. TailOf(toVehicle, toVehicle')
      BY <1>2, TailElements DEF Messages
    <2>2. OpensAsked'
      BY <1>1, <2>1 DEF Ordered, OpensAsked, OpenAsked, TailOf
    <2>3. OpensReplied' /\ OpensRemembered'
      BY <1>1, <1>2 DEF Ordered, OpensReplied, OpenReplied, OpensRemembered, OpenRemembered
    <2>4. OneFile => OneFile'
      BY <1>1, <1>2, <2>1 DEF OneFile, TailOf
    <2> QED
      BY <1>1, <2>2, <2>3, <2>4 DEF Ordered
  <1>3. CASE toGcs # <<>> /\ toGcs' = Tail(toGcs) /\ toVehicle' = toVehicle
    <2>1. TailOf(toGcs, toGcs')
      BY <1>3, TailElements DEF Messages
    <2>2. OpensAsked' /\ OpensRemembered'
      BY <1>1, <1>3 DEF Ordered, OpensAsked, OpenAsked, OpensRemembered, OpenRemembered
    <2>3. OpensReplied'
      BY <1>1, <1>3, <2>1 DEF Ordered, OpensReplied, OpenReplied, TailOf
    <2>4. OneFile => OneFile'
      BY <1>1, <1>3, <2>1 DEF OneFile, TailOf
    <2> QED
      BY <1>1, <2>2, <2>3, <2>4 DEF Ordered
  <1>4. CASE UNCHANGED <<toVehicle, toGcs>>
    BY <1>1, <1>4 DEF Ordered, OpensAsked, OpenAsked, OpensReplied, OpenReplied,
                      OpensRemembered, OpenRemembered, OneFile
  <1> QED
    BY <1>2, <1>3, <1>4 DEF Drops

(* A reply to an open, by when it was asked.                                  *)
LEMMA OpenAnswer ==
    ASSUME Messages, toVehicle # <<>>, toVehicle' = Tail(toVehicle), NEW q, q = toVehicle[1],
           q.opcode = "Open", OpenAsked(q, 1 = Len(toVehicle)),
           NEW r, SingleReply(r, q)
    PROVE  \/ r.seq < ftp.expectedSeq
           \/ state = "none" /\ r.seq < ftp.expectedSeq + 2
           \/ /\ state = "open" /\ r.seq < ftp.expectedSeq + 2 /\ toVehicle' = <<>>
              /\ r.ack => r.size = Downloads[ftp.path].reported /\ FileAfter(q) = ftp.path
              /\ server.errMode = "BadSequence" => r.seq # ftp.expectedSeq
  <1>1. TailOf(toVehicle, toVehicle')
    BY TailElements DEF Messages
  <1>2. q.seq \in Nat /\ q.seq < ftp.expectedSeq /\ ftp.expectedSeq \in Nat
    BY <1>1 DEF TailOf, Messages
  <1>3. /\ r.seq = q.seq + 1 * Stride
        /\ r.ack => r.size = Downloads[q.file].reported /\ FileAfter(q) = q.file
    BY DEF SingleReply, ReplyTo
  <1>4. r.seq = q.seq + Stride
    BY <1>2, <1>3, StrideOf
  <1>5. Stride \in {1, 2} /\ (server.errMode = "BadSequence" => Stride = 2)
    BY DEF Stride
  <1>6. CASE q.seq + 2 < ftp.expectedSeq
    BY <1>2, <1>4, <1>5, <1>6
  <1>7. CASE state = "none" /\ q.seq < ftp.expectedSeq
    BY <1>2, <1>4, <1>5, <1>7
  <1>8. CASE state = "open" /\ 1 = Len(toVehicle) /\ q.seq = ftp.expectedSeq - 1 /\ q.file = ftp.path
    <2>1. r.seq < ftp.expectedSeq + 2 /\ (server.errMode = "BadSequence" => r.seq # ftp.expectedSeq)
      BY <1>2, <1>4, <1>5, <1>8
    <2>2. toVehicle' = <<>>
      BY <1>1, <1>8 DEF TailOf
    <2> QED
      BY <1>3, <1>8, <2>1, <2>2
  <1> QED
    BY <1>6, <1>7, <1>8 DEF OpenAsked

(* The vehicle serves a request.                                              *)
LEMMA RepeatedOrdered ==
    ASSUME Messages, Ordered, toVehicle # <<>>, toVehicle' = Tail(toVehicle), ftp' = ftp,
           server.lastReply # NoReply, toGcs' = Append(toGcs, server.lastReply), server' = server
    PROVE  Ordered'
  <1>1. state' = state
    BY DEF state
  <1>2. TailOf(toVehicle, toVehicle') /\ MoreThan(toGcs, toGcs', server.lastReply)
    BY TailElements, AppendElements DEF Messages
  <1>3. OpensAsked'
    BY <1>1, <1>2 DEF Ordered, OpensAsked, OpenAsked, TailOf
  <1>4. server.lastReply.opcode = "Open" =>
           \/ server.lastReply.seq < ftp.expectedSeq
           \/ state = "none" /\ server.lastReply.seq < ftp.expectedSeq + 2
    BY DEF Ordered, OpensRemembered, OpenRemembered
  <1>5. OpensRemembered'
    BY <1>1, <1>4 DEF OpensRemembered, OpenRemembered
  <1>6. OpensReplied'
    BY <1>1, <1>2, <1>4 DEF Ordered, OpensReplied, OpenReplied, MoreThan
  <1>7. OneFile => OneFile'
    BY <1>1, <1>2 DEF OneFile, TailOf, MoreThan
  <1> QED
    BY <1>1, <1>3, <1>5, <1>6, <1>7 DEF Ordered

LEMMA RepliedOrdered ==
    ASSUME Messages, Ordered, toVehicle # <<>>, toVehicle' = Tail(toVehicle), ftp' = ftp,
           NEW rs, Serves(rs)
    PROVE  Ordered'
  <1> DEFINE q == toVehicle[1]
  <1>1. state' = state
    BY DEF state
  <1>2. TailOf(toVehicle, toVehicle')
    BY TailElements DEF Messages
  <1>3. /\ rs \in Seq(GoodAnswer) /\ RepliesTo(rs, q) /\ toGcs' = toGcs \o rs
        /\ server'.file = FileAfter(q) /\ server'.errMode = server.errMode
        /\ server'.lastReply = IF rs = <<>> THEN server.lastReply ELSE rs[Len(rs)]
    BY DEF Serves
  <1>4. Joined(toGcs, rs, toGcs')
    BY <1>3, ConcatElements DEF Messages
  <1>5. rs # <<>> => Len(rs) \in DOMAIN rs
    BY <1>3
  <1>6. \A i \in DOMAIN rs : rs[i].opcode = q.opcode /\ rs[i].file = server.file
    <2> SUFFICES ASSUME NEW i \in DOMAIN rs
                 PROVE  rs[i].opcode = q.opcode /\ rs[i].file = server.file
      OBVIOUS
    <2> HIDE DEF q
    <2>1. PICK k \in 1 .. BurstMax : ReplyTo(rs[i], q, k)
      BY <1>3, RepliesAreTo
    <2> QED
      BY <2>1 DEF ReplyTo
  <1>q. q.opcode = "Open" => OpenAsked(q, 1 = Len(toVehicle))
    BY <1>2 DEF TailOf, Ordered, OpensAsked
  <1>7. OpensAsked'
    BY <1>1, <1>2 DEF Ordered, OpensAsked, OpenAsked, TailOf
  <1>8. ASSUME q.opcode # "Open"
        PROVE  OpensReplied' /\ OpensRemembered'
    <2>1. OpensRemembered'
      BY <1>1, <1>3, <1>5, <1>6, <1>8 DEF Ordered, OpensRemembered, OpenRemembered
    <2>2. OpensReplied'
      BY <1>1, <1>4, <1>6, <1>8 DEF Ordered, OpensReplied, OpenReplied, Joined
    <2> QED
      BY <2>1, <2>2
  <1>9. ASSUME q.opcode = "Open"
        PROVE  OpensReplied' /\ OpensRemembered'
    <2>1. CASE rs = <<>>
      <3>1. server'.lastReply = server.lastReply /\ DOMAIN rs = {}
        BY <1>3, <2>1
      <3> QED
        BY <1>1, <1>4, <3>1 DEF Ordered, OpensReplied, OpenReplied, Joined,
                                OpensRemembered, OpenRemembered
    <2>2. CASE \E r : rs = <<r>> /\ SingleReply(r, q)
      <3>1. PICK r : rs = <<r>> /\ SingleReply(r, q)
        BY <2>2
      <3>2. server'.lastReply = r /\ DOMAIN rs = {1} /\ rs[1] = r /\ Len(rs) = 1
        BY <1>3, <3>1
      <3> HIDE DEF q
      <3>3. \/ r.seq < ftp.expectedSeq
            \/ state = "none" /\ r.seq < ftp.expectedSeq + 2
            \/ /\ state = "open" /\ r.seq < ftp.expectedSeq + 2 /\ toVehicle' = <<>>
               /\ r.ack => r.size = Downloads[ftp.path].reported /\ FileAfter(q) = ftp.path
               /\ server.errMode = "BadSequence" => r.seq # ftp.expectedSeq
        BY <1>9, <1>q, <3>1, OpenAnswer DEF q
      <3>4. OpensRemembered'
        BY <1>1, <3>2, <3>3 DEF OpensRemembered, OpenRemembered
      <3>5. Len(toGcs) + 1 = Len(toGcs') /\ toGcs'[Len(toGcs')] = r
        BY <1>4, <3>2 DEF Joined
      <3>6. \A i \in DOMAIN toGcs' : \/ i \in DOMAIN toGcs /\ toGcs'[i] = toGcs[i]
                                     \/ i = Len(toGcs') /\ toGcs'[i] = r
        BY <1>4, <3>2, <3>5 DEF Joined
      <3>7. \A i \in DOMAIN toGcs : toGcs[i].opcode = "Open" =>
               \/ toGcs[i].seq < ftp.expectedSeq
               \/ state = "none" /\ toGcs[i].seq < ftp.expectedSeq + 2
        BY DEF Ordered, OpensReplied, OpenReplied
      <3>8. OpensReplied'
        BY <1>1, <1>3, <3>2, <3>3, <3>6, <3>7 DEF OpensReplied, OpenReplied
      <3> QED
        BY <3>4, <3>8
    <2> QED
      BY <1>3, <1>9, <2>1, <2>2 DEF RepliesTo
  <1>10. ASSUME state \in {"burst", "fill", "reset"}
         PROVE  OneFile'
    <2>1. /\ OneFile /\ server.file = ftp.path
          /\ q.opcode \in {"Burst", "Read", "Reset"}
          /\ q.opcode = "Reset" => state = "reset" /\ 1 = Len(toVehicle)
      BY <1>2, <1>10 DEF Ordered, OneFile, TailOf
    <2>2. \A i \in DOMAIN rs : BlockIs(rs[i], ftp.path)
      BY <1>6, <2>1 DEF BlockIs
    <2>3. \A i \in DOMAIN toGcs' : BlockIs(toGcs'[i], ftp.path)
      BY <1>4, <2>1, <2>2 DEF OneFile, Joined
    <2>4. server'.lastReply # NoReply => BlockIs(server'.lastReply, ftp.path)
      BY <1>3, <1>5, <2>1, <2>2 DEF OneFile
    <2>5. server'.file = ftp.path \/ (state = "reset" /\ toVehicle' = <<>>)
      BY <1>2, <1>3, <2>1 DEF FileAfter, TailOf
    <2>6. \A i \in DOMAIN toVehicle' :
             /\ toVehicle'[i].file = ftp.path
             /\ toVehicle'[i].opcode \in {"Burst", "Read", "Reset"}
             /\ toVehicle'[i].opcode = "Reset" => state = "reset" /\ i = Len(toVehicle')
      BY <1>2, <2>1 DEF OneFile, TailOf
    <2> QED
      BY <1>1, <2>3, <2>4, <2>5, <2>6 DEF OneFile
  <1> QED
    BY <1>1, <1>7, <1>8, <1>9, <1>10 DEF Ordered

LEMMA OrderKeeps ==
    ASSUME Counts, FtpInv', OpenFile, Ordered, StepMove, InOrder'
    PROVE  Ordered'
  <1>0. Messages
    BY MessagesAre
  <1>f. ftp'.expectedSeq \in Nat
    BY DEF FtpInv, ManagerInv, FtpType, Numbers
  <1>1. CASE DownloadMove
    BY <1>0, <1>1, DownloadOrdered
  <1>2. CASE CancelMove
    <2>1. /\ state # "none" /\ state # "open" /\ server' = server /\ toGcs' = toGcs
          /\ ReadMove
      <3>1. state # "open"
        <4>1. state = "open" => ftp.fileSize = 0
          BY DEF OpenFile
        <4>2. ftp.fileSize > 0
          BY <1>2 DEF CancelMove
        <4> QED
          BY <4>1, <4>2
      <3> QED
        BY <1>2, <3>1, TerminateReads DEF CancelMove
    <2>2. AtLeast(ftp.expectedSeq)
      BY NumbersAreFar DEF AtLeast
    <2>3. Onward
      BY <1>2, <2>2, GoesOnward DEF CancelMove, Terminates
    <2> QED
      BY <1>0, <1>f, <2>1, <2>3, ReadOrdered DEF FewerToGcs, Onward
  <1>3. CASE TimeoutMove /\ state # "none" /\ EarlyOrDue
    <2>1. Onward /\ server' = server /\ FewerToGcs
      BY <1>3, TimeoutOnward DEF EarlyOrDue, FewerToGcs
    <2> QED
      BY <1>0, <1>3, <1>f, <2>1, TimeoutReads, GoneOrdered, ReadOrdered DEF Onward
  <1>4. CASE ReceiveMove(toGcs[1]) /\ UNCHANGED <<started, refused, server, linkUp, spent>>
    <2> DEFINE r == toGcs[1]
    <2>1. /\ toGcs # <<>> /\ toGcs' = Tail(toGcs) /\ r \in AnswerType /\ server' = server
          /\ \/ Taken(r) /\ r.seq >= ftp.expectedSeq /\ AnswerMove(r)
             \/ UNCHANGED <<ftp, results, toVehicle>>
      BY <1>4 DEF ReceiveMove
    <2>2. FewerToGcs
      BY <2>1, ReceiveKeepsFew DEF FewerToGcs
    <2>r. r = toGcs[1]
      OBVIOUS
    <2> HIDE DEF r
    <2>3. CASE Taken(r) /\ r.seq >= ftp.expectedSeq /\ AnswerMove(r)
      <3>1. Onward
        BY <2>1, <2>3, AnswerOnward
      <3>2. CASE Gone
        BY <1>0, <2>1, <2>2, <3>2, GoneOrdered
      <3>3. CASE state # "open" /\ state # "none" /\ ReadMove
        BY <1>0, <1>f, <2>1, <2>2, <3>1, <3>3, ReadOrdered DEF Onward
      <3>4. CASE state = "open" /\ r.ack /\ Opens
        <4>1. r.opcode = "Open" /\ r.seq = ftp.expectedSeq
          BY <2>3, <3>4 DEF Taken, Expected, OpcodeOf
        <4> QED
          BY <1>0, <2>1, <2>r, <3>4, <4>1, OpensOrdered
      <3> QED
        BY <2>3, <3>2, <3>3, <3>4, AnswerReads
    <2>4. CASE UNCHANGED <<ftp, results, toVehicle>>
      <3>1. Drops
        BY <2>1, <2>4 DEF Drops
      <3> QED
        BY <1>0, <3>1, DropsOrdered
    <2> QED
      BY <2>1, <2>3, <2>4
  <1>5. CASE ServeMove
    <2>1. toVehicle # <<>> /\ toVehicle' = Tail(toVehicle) /\ ftp' = ftp
      BY <1>5 DEF ServeMove
    <2>2. CASE /\ Repeated(toVehicle[1]) /\ toGcs' = Append(toGcs, server.lastReply)
               /\ server' = server
      BY <1>0, <2>1, <2>2, RepeatedOrdered DEF Repeated
    <2>3. CASE \E rs : Serves(rs)
      BY <1>0, <2>1, <2>3, RepliedOrdered
    <2> QED
      BY <1>5, <2>2, <2>3 DEF ServeMove
  <1>6. CASE LoseMove \/ UNCHANGED vars
    <2>1. Drops
      BY <1>6 DEF LoseMove, Drops, vars
    <2> QED
      BY <1>0, <2>1, DropsOrdered
  <1>7. CASE ReorderMove
    BY <1>7 DEF ReorderMove
  <1> QED
    BY <1>1, <1>2, <1>3, <1>4, <1>5, <1>6, <1>7 DEF StepMove

-----------------------------------------------------------------------------
(* While answers keep step with requests: what is on its way to the vehicle   *)
(* is the one request asked now, and what comes from it that is not behind    *)
(* answers that request, up to the last answer, which the vehicle keeps.      *)
Asked(q) ==
    /\ q.opcode = OpcodeOf[state] /\ q.seq = ftp.expectedSeq - 1 /\ q.file = ftp.path
    /\ state \in {"burst", "fill"} => q.offset = ftp.expectedOffset

Size == Downloads[ftp.path].size
Behind(r) == r.seq < ftp.expectedSeq

Answer(r) ==
    /\ r.opcode = OpcodeOf[state]
    /\ state # "burst" =>
         r.seq = ftp.expectedSeq + (IF server.errMode = "BadSequence" THEN 1 ELSE 0)
    /\ state = "open" /\ r.ack =>
         r.size = Downloads[ftp.path].reported /\ server.file = ftp.path
    /\ state = "burst" =>
         /\ r.ack => /\ r.file = ftp.path /\ r.offset < Size
                     /\ r.offset - ftp.expectedOffset = r.seq - ftp.expectedSeq
         /\ ~r.ack /\ r.eof => Size - ftp.expectedOffset = r.seq - ftp.expectedSeq
    /\ state = "fill" =>
         /\ r.ack => r.offset = ftp.expectedOffset /\ r.file = ftp.path
         /\ ~r.eof
    /\ server.errMode = "None" => r.ack \/ (state = "burst" /\ r.eof) \/ state = "open"

UpTo(r, last) ==
    /\ r.seq <= last.seq
    /\ r.seq = last.seq => r = last
    /\ r.burstComplete => last.seq <= r.seq + 1
    /\ ~r.ack => r = last
Final(r) == state = "burst" /\ server.errMode = "None" => r.burstComplete \/ ~r.ack

OneAsked ==
    toVehicle # <<>> =>
        /\ Len(toVehicle) = 1 /\ Asked(toVehicle[1])
        /\ \A i \in DOMAIN toGcs : Behind(toGcs[i])
AllAnswer ==
    \A i \in DOMAIN toGcs :
        \/ Behind(toGcs[i])
        \/ Answer(toGcs[i]) /\ server.lastReply # NoReply /\ UpTo(toGcs[i], server.lastReply)
LastAnswer ==
    server.lastReply # NoReply /\ ~Behind(server.lastReply) =>
        Answer(server.lastReply) /\ Final(server.lastReply)

Answers == OneAsked /\ AllAnswer /\ LastAnswer

Paced ==
    /\ state \in {"burst", "fill", "reset"} => Answers /\ server.errMode # "BadSequence"
    /\ state \in {"burst", "fill"} => server.file = ftp.path
    /\ state = "burst" => ftp.expectedOffset <= Size
    /\ state \in {"fill", "reset"} => Seen(ftp) = 0 .. (Size - 1)
    /\ state = "reset" => ftp.missing = <<>>

StepInv == InStep /\ OwnPackets(ftp.path) => Paced

Cleared ==
    /\ toVehicle = <<>>
    /\ \A i \in DOMAIN toGcs : toGcs[i].seq < ftp.expectedSeq + 2
    /\ server.lastReply # NoReply => server.lastReply.seq < ftp.expectedSeq + 2

CleanInv ==
    InStep =>
      /\ NoneBrokenOffBefore(ftp.path) /\ state = "open" => Answers
      /\ NoneBrokenOffBefore(started + 1) /\ state = "none" => Cleared

-----------------------------------------------------------------------------
(* The sizes of the file under way.                                           *)
Places ==
    /\ ftp.expectedOffset \in Nat /\ Size \in Nat
    /\ state = "fill" /\ Seen(ftp) = 0 .. (Size - 1) => ftp.expectedOffset < Size
    /\ state = "burst" => Seen(ftp) = 0 .. (ftp.expectedOffset - 1)

LEMMA PlacesAre ==
    ASSUME FtpInv, state # "none"
    PROVE  Places
  <1>1. Downloading(Blocks, Nat)
    BY DEF state, FtpInv, ManagerInv
  <1>2. Account(ftp, Blocks, Nat) /\ ftp.expectedOffset \in Nat /\ ftp.missing \in Seq(HoleType)
    BY <1>1 DEF Downloading, FtpType
  <1>3. Size \in Nat
    BY <1>1, DownloadFacts DEF Downloading, Size
  <1>4. Busy(ftp)
    BY <1>1 DEF Downloading
  <1>5. state = "burst" => Seen(ftp) = 0 .. (ftp.expectedOffset - 1)
    BY <1>2, <1>4, StateNames DEF Account
  <1>6. ASSUME state = "fill", Seen(ftp) = 0 .. (Size - 1)
        PROVE  ftp.expectedOffset < Size
    <2>1. ftp.missing # <<>> /\ ftp.expectedOffset = Head(ftp.missing).offset
      BY <1>2, <1>4, <1>6, StateNames DEF Account
    <2>2. 1 \in DOMAIN ftp.missing /\ ftp.missing[1] \in HoleType /\ Head(ftp.missing) = ftp.missing[1]
      BY <1>2, <2>1
    <2>3. ftp.missing[1].offset \in Nat /\ ftp.missing[1].count \in Nat \ {0}
      BY <2>2 DEF HoleType
    <2>4. ftp.missing[1].offset \in OffsetsOf(ftp.missing[1])
      BY <2>3 DEF OffsetsOf
    <2>5. ftp.expectedOffset \in HolesIn(ftp.missing)
      BY <1>2, <2>1, <2>2, <2>4, HoleMembers
    <2>6. ftp.expectedOffset \in 0 .. (Size - 1)
      BY <1>6, <2>5 DEF Seen
    <2> QED
      BY <1>3, <2>6
  <1> QED
    BY <1>2, <1>3, <1>5, <1>6 DEF Places

(* What is not behind when it is taken.                                       *)
LEMMA TakenAnswers ==
    ASSUME Messages, Answers, toGcs # <<>>, NEW r, r = toGcs[1], r.seq >= ftp.expectedSeq
    PROVE  /\ toVehicle = <<>> /\ r \in AnswerType /\ Answer(r)
           /\ server.lastReply # NoReply /\ UpTo(r, server.lastReply)
  <1>1. 1 \in DOMAIN toGcs
    <2>1. toGcs \in Seq(GoodAnswer)
      BY DEF Messages
    <2> DEFINE t == Tail(toGcs)
    <2>2. TailOf(toGcs, t)
      BY <2>1, TailElements
    <2> QED
      BY <2>2 DEF TailOf
  <1>2. r.seq \in Nat /\ r \in AnswerType /\ ~Behind(r)
    BY <1>1 DEF Messages, Behind
  <1> QED
    BY <1>1, <1>2 DEF Answers, OneAsked, AllAnswer

(* Nothing new.                                                               *)
FewerToVehicle ==
    toVehicle' = toVehicle \/ (toVehicle # <<>> /\ toVehicle' = Tail(toVehicle))

LEMMA StillAnswers ==
    ASSUME Messages, Answers, ftp' = ftp, server' = server, FewerToVehicle, FewerToGcs
    PROVE  Answers'
  <1>1. state' = state
    BY DEF state
  <1>2. toVehicle' = toVehicle \/ toVehicle' = <<>>
    <2>1. toVehicle # <<>> /\ toVehicle' = Tail(toVehicle) => TailOf(toVehicle, toVehicle')
      BY TailElements DEF Messages
    <2> QED
      BY <2>1 DEF Answers, OneAsked, TailOf, FewerToVehicle
  <1>3. OneAsked'
    BY <1>1, <1>2 DEF Answers, OneAsked, Asked, Behind, FewerToGcs
  <1>4. \A r : (Answer(r))' <=> Answer(r)
    BY <1>1 DEF Answer, Size
  <1>5. AllAnswer'
    BY <1>4 DEF Answers, AllAnswer, Behind, UpTo, FewerToGcs
  <1>6. LastAnswer'
    BY <1>1, <1>4 DEF Answers, LastAnswer, Behind, Final
  <1> QED
    BY <1>3, <1>5, <1>6 DEF Answers

(* The next request, everything else behind it.                               *)
LEMMA AskedAnew ==
    ASSUME NEW q, toVehicle' = <<q>>, (Asked(q))',
           \A i \in DOMAIN toGcs' : toGcs'[i].seq < ftp'.expectedSeq,
           server'.lastReply # NoReply => server'.lastReply.seq < ftp'.expectedSeq
    PROVE  Answers'
  <1>1. Len(toVehicle') = 1 /\ toVehicle'[1] = q
    OBVIOUS
  <1>2. AllAnswer'
    BY DEF AllAnswer, Behind
  <1>3. LastAnswer'
    BY DEF LastAnswer, Behind
  <1>4. OneAsked'
    BY <1>1 DEF OneAsked, Behind
  <1> QED
    BY <1>2, <1>3, <1>4 DEF Answers

-----------------------------------------------------------------------------
(* The vehicle answers.                                                       *)
Sound ==
    /\ state \in {"open", "burst", "fill", "reset"}
    /\ state \in {"burst", "fill"} => server.file = ftp.path /\ server.errMode # "BadSequence"
    /\ state = "burst" => ftp.expectedOffset <= Size
    /\ state = "fill" => ftp.expectedOffset < Size

LEMMA RepeatedAnswers ==
    ASSUME Messages, Answers, toVehicle # <<>>, toVehicle' = Tail(toVehicle), ftp' = ftp,
           Repeated(toVehicle[1]), toGcs' = Append(toGcs, server.lastReply), server' = server
    PROVE  Answers'
  <1>1. state' = state
    BY DEF state
  <1>2. TailOf(toVehicle, toVehicle') /\ MoreThan(toGcs, toGcs', server.lastReply)
    BY TailElements, AppendElements DEF Messages
  <1>3. Len(toVehicle) = 1 /\ Asked(toVehicle[1]) /\ \A i \in DOMAIN toGcs : Behind(toGcs[i])
    BY DEF Answers, OneAsked
  <1>4. toVehicle' = <<>>
    BY <1>2, <1>3 DEF TailOf
  <1>5. server.lastReply # NoReply /\ ~Behind(server.lastReply)
    <2>1. /\ server.lastReply # NoReply /\ toVehicle[1].seq = ftp.expectedSeq - 1
          /\ toVehicle[1].seq = server.lastReply.seq - 1
      BY <1>3 DEF Repeated, Asked
    <2>2. server.lastReply.seq \in Nat /\ ftp.expectedSeq \in Nat
      BY <2>1 DEF Messages
    <2> QED
      BY <2>1, <2>2 DEF Behind
  <1>6. Answer(server.lastReply) /\ UpTo(server.lastReply, server.lastReply)
    <2>1. Answer(server.lastReply)
      BY <1>5 DEF Answers, LastAnswer
    <2>2. server.lastReply.seq \in Nat
      BY <1>5 DEF Messages
    <2> QED
      BY <2>1, <2>2 DEF UpTo
  <1>7. \A r : (Answer(r))' <=> Answer(r)
    BY <1>1 DEF Answer, Size
  <1>8. AllAnswer'
    BY <1>2, <1>3, <1>5, <1>6, <1>7 DEF AllAnswer, Behind, UpTo, MoreThan
  <1>9. LastAnswer'
    BY <1>1, <1>7 DEF Answers, LastAnswer, Behind, Final
  <1> QED
    BY <1>4, <1>8, <1>9 DEF Answers, OneAsked

(* With all before behind, new answers are all that is to be looked at.       *)
LEMMA NewAnswers ==
    ASSUME Messages, Answers, toVehicle # <<>>, toVehicle' = Tail(toVehicle), ftp' = ftp,
           NEW rs, rs # <<>>, Serves(rs), NEW last, last = rs[Len(rs)],
           \A i \in DOMAIN rs : (Answer(rs[i]))' /\ UpTo(rs[i], last),
           (Final(last))'
    PROVE  Answers'
  <1>1. state' = state
    BY DEF state
  <1>2. TailOf(toVehicle, toVehicle')
    BY TailElements DEF Messages
  <1>3. Len(toVehicle) = 1 /\ \A i \in DOMAIN toGcs : Behind(toGcs[i])
    BY DEF Answers, OneAsked
  <1>4. toVehicle' = <<>>
    BY <1>2, <1>3 DEF TailOf
  <1>5. /\ rs \in Seq(GoodAnswer) /\ toGcs' = toGcs \o rs /\ server'.lastReply = last
    BY DEF Serves
  <1>6. Joined(toGcs, rs, toGcs') /\ Len(rs) \in DOMAIN rs
    <2>1. toGcs \in Seq(GoodAnswer)
      BY DEF Messages
    <2>2. Joined(toGcs, rs, toGcs')
      BY <1>5, <2>1, ConcatElements
    <2>3. Len(rs) \in DOMAIN rs
      BY <1>5
    <2> QED
      BY <2>2, <2>3
  <1>7. last # NoReply
    <2>1. last \in GoodAnswer
      BY <1>5, <1>6
    <2>2. last \in AnswerType
      BY <2>1 DEF GoodAnswer
    <2>3. "seq" \in DOMAIN last
      BY <2>2 DEF AnswerType
    <2>4. DOMAIN NoReply = {}
      BY DEF NoReply
    <2> QED
      BY <2>3, <2>4
  <1>8. AllAnswer'
    BY <1>3, <1>5, <1>6, <1>7 DEF AllAnswer, Behind, UpTo, Joined
  <1>9. LastAnswer'
    BY <1>5, <1>6 DEF LastAnswer
  <1> QED
    BY <1>4, <1>8, <1>9 DEF Answers, OneAsked

-----------------------------------------------------------------------------
(* Nothing is answered: what was remembered is behind, or of a burst.         *)
LEMMA SilenceAnswers ==
    ASSUME Messages, Answers, Sound, toVehicle # <<>>, toVehicle' = Tail(toVehicle),
           ftp' = ftp, ~Repeated(toVehicle[1]), Serves(<<>>)
    PROVE  Answers'
  <1>1. state' = state
    BY DEF state
  <1>2. TailOf(toVehicle, toVehicle')
    BY TailElements DEF Messages
  <1>3. Len(toVehicle) = 1 /\ Asked(toVehicle[1]) /\ \A i \in DOMAIN toGcs : Behind(toGcs[i])
    BY DEF Answers, OneAsked
  <1>4. toVehicle' = <<>>
    BY <1>2, <1>3 DEF TailOf
  <1>5. /\ toGcs' = toGcs \o <<>> /\ server'.lastReply = server.lastReply
        /\ server'.errMode = server.errMode /\ RepliesTo(<<>>, toVehicle[1])
    BY DEF Serves
  <1>6. toGcs' = toGcs
    <2>1. toGcs \in Seq(GoodAnswer)
      BY DEF Messages
    <2> QED
      BY <1>5, <2>1
  <1>7. server.errMode # "BadSequence"
    <2>1. ASSUME NEW r, <<>> = <<r>> PROVE FALSE
      BY <2>1
    <2>2. ~BurstReplies(<<>>, toVehicle[1])
      BY DEF BurstReplies
    <2> QED
      BY <1>5, <2>1, <2>2 DEF RepliesTo
  <1>8. LastAnswer'
    <2> SUFFICES ASSUME server.lastReply # NoReply, ~Behind(server.lastReply)
                 PROVE  (Answer(server.lastReply))' /\ (Final(server.lastReply))'
      BY <1>5 DEF LastAnswer, Behind
    <2>1. Answer(server.lastReply) /\ Final(server.lastReply)
      BY DEF Answers, LastAnswer
    <2>2. server.lastReply.seq \in Nat /\ ftp.expectedSeq \in Nat
      BY DEF Messages
    <2>3. toVehicle[1].seq = ftp.expectedSeq - 1
      BY <1>3 DEF Asked
    <2>4. state = "burst"
      <3>1. server.lastReply.seq # ftp.expectedSeq
        BY <2>2, <2>3 DEF Repeated
      <3> QED
        BY <1>7, <2>1, <2>2, <3>1 DEF Answer
    <2> QED
      BY <1>1, <1>5, <2>1, <2>4 DEF Answer, Final, Size
  <1>9. AllAnswer'
    BY <1>3, <1>6 DEF AllAnswer, Behind
  <1> QED
    BY <1>4, <1>8, <1>9 DEF Answers, OneAsked

(* The one answer that a request other than a served burst gets.              *)
LEMMA SingleAnswers ==
    ASSUME Messages, Answers, Sound, ftp.path \in DOMAIN Downloads, ftp.expectedOffset \in Nat,
           Size \in Nat, toVehicle # <<>>, toVehicle' = Tail(toVehicle),
           ftp' = ftp, NEW r, SingleReply(r, toVehicle[1]), Serves(<<r>>)
    PROVE  Answers'
  <1> DEFINE q == toVehicle[1]
             rs == <<r>>
  <1>1. state' = state
    BY DEF state
  <1>2. Asked(q)
    BY DEF Answers, OneAsked
  <1>3. server'.file = FileAfter(q) /\ server'.errMode = server.errMode
    BY DEF Serves
  <1>4. ftp.expectedSeq \in Nat
    BY DEF Messages
  <1>5. /\ r \in AnswerType /\ r.opcode = q.opcode /\ r.file = server.file
        /\ r.seq = q.seq + Stride /\ r.seq \in Nat /\ r.ack \in BOOLEAN
    <2>1. ReplyTo(r, q, 1)
      BY DEF SingleReply
    <2>2. r.seq \in Nat /\ r.ack \in BOOLEAN
      BY <2>1 DEF ReplyTo, AnswerType, Numbers
    <2>3. 1 * Stride = Stride
      BY StrideOf
    <2> QED
      BY <2>1, <2>2, <2>3 DEF ReplyTo
  <1>6. /\ q.opcode = OpcodeOf[state] /\ q.seq = ftp.expectedSeq - 1 /\ q.file = ftp.path
        /\ state \in {"burst", "fill"} => q.offset = ftp.expectedOffset
    BY <1>2 DEF Asked
  <1>7. /\ state = "open" => q.opcode = "Open"
        /\ state = "burst" => q.opcode = "Burst"
        /\ state = "fill" => q.opcode = "Read"
        /\ state = "reset" => q.opcode = "Reset"
    BY <1>6 DEF OpcodeOf
  <1>8. r.seq = ftp.expectedSeq + (IF server.errMode = "BadSequence" THEN 1 ELSE 0)
    BY <1>4, <1>5, <1>6 DEF Stride
  <1>9. state = "open" /\ r.ack =>
          r.size = Downloads[ftp.path].reported /\ server'.file = ftp.path
    BY <1>3, <1>6, <1>7 DEF SingleReply
  <1>10. state = "burst" => ~r.ack /\ ~r.eof /\ server.errMode # "None"
    BY <1>7 DEF SingleReply
  <1>11. state = "fill" => /\ r.ack => r.offset = ftp.expectedOffset /\ r.file = ftp.path
                           /\ ~r.eof
    <2> SUFFICES ASSUME state = "fill"
                 PROVE  /\ r.ack => r.offset = ftp.expectedOffset /\ r.file = ftp.path
                        /\ ~r.eof
      OBVIOUS
    <2>1. server.file = ftp.path /\ ftp.expectedOffset < Size
      BY DEF Sound
    <2>2. ftp.path # NoFile
      BY FtpAssumption DEF NoFile
    <2>3. FileSize = Size
      BY <2>1, <2>2 DEF FileSize, Size
    <2>4. ~(q.offset >= FileSize)
      BY <1>6, <2>1, <2>3
    <2> QED
      BY <1>5, <1>6, <1>7, <2>1, <2>4 DEF SingleReply
  <1>12. server.errMode = "None" => r.ack \/ state = "open"
    <2>1. r.eof => state = "fill"
      BY <1>6, <1>7 DEF SingleReply, Sound
    <2> QED
      BY <1>7, <1>11, <2>1 DEF SingleReply, Sound
  <1>13. (Answer(r))'
    BY <1>1, <1>3, <1>5, <1>6, <1>8, <1>9, <1>10, <1>11, <1>12 DEF Answer, Size
  <1>14. (Final(r))'
    BY <1>1, <1>3, <1>10 DEF Final
  <1>15. UpTo(r, r)
    BY <1>5 DEF UpTo
  <1>16. rs # <<>> /\ r = rs[Len(rs)] /\ \A i \in DOMAIN rs : rs[i] = r
    OBVIOUS
  <1> HIDE DEF rs
  <1>17. \A i \in DOMAIN rs : (Answer(rs[i]))' /\ UpTo(rs[i], r)
    BY <1>13, <1>15, <1>16
  <1>18. Serves(rs)
    BY DEF rs
  <1> QED
    BY <1>14, <1>16, <1>17, <1>18, NewAnswers

(* A burst's answers.                                                         *)
LEMMA BurstAnswers ==
    ASSUME Messages, Answers, Sound, ftp.path \in DOMAIN Downloads, ftp.expectedOffset \in Nat,
           Size \in Nat, toVehicle # <<>>, toVehicle' = Tail(toVehicle),
           ftp' = ftp, toVehicle[1].opcode = "Burst",
           NEW rs, BurstReplies(rs, toVehicle[1]), Serves(rs)
    PROVE  Answers'
  <1> DEFINE q == toVehicle[1]
             n == Len(rs)
             last == rs[n]
             e == ftp.expectedSeq
  <1>1. state' = state
    BY DEF state
  <1>2. Asked(q)
    BY DEF Answers, OneAsked
  <1>3. server'.errMode = server.errMode /\ rs \in Seq(GoodAnswer)
    BY DEF Serves
  <1>4. ftp.expectedSeq \in Nat
    BY DEF Messages
  <1>5. state = "burst"
    BY <1>2 DEF Asked, OpcodeOf, Sound
  <1>6. q.seq = e - 1 /\ q.offset = ftp.expectedOffset
    BY <1>2, <1>5 DEF Asked
  <1>7. /\ server.file = ftp.path /\ server.errMode # "BadSequence"
        /\ ftp.expectedOffset <= Size
    BY <1>5 DEF Sound
  <1>8. FileSize = Size
    <2>1. ftp.path # NoFile
      BY FtpAssumption DEF NoFile
    <2> QED
      BY <1>7, <2>1 DEF FileSize, Size
  <1>9. n \in Nat /\ n > 0 /\ n \in DOMAIN rs /\ rs # <<>> /\ DOMAIN rs = 1 .. n
    <2>1. Len(rs) > 0
      BY DEF BurstReplies
    <2> QED
      BY <1>3, <2>1
  <1>10. ASSUME NEW i \in DOMAIN rs
         PROVE  /\ rs[i] \in AnswerType /\ rs[i].opcode = "Burst" /\ rs[i].file = ftp.path
                /\ rs[i].seq = (e - 1) + i /\ rs[i].ack \in BOOLEAN /\ i \in Nat
    <2>1. ReplyTo(rs[i], q, i)
      BY DEF BurstReplies
    <2>2. i \in Nat /\ i * 1 = i
      BY <1>9
    <2>3. Stride = 1
      BY <1>7 DEF Stride
    <2>4. rs[i].ack \in BOOLEAN
      BY <2>1 DEF ReplyTo, AnswerType
    <2> QED
      BY <1>6, <1>7, <2>1, <2>2, <2>3, <2>4 DEF ReplyTo
  <1>11. ASSUME NEW i \in DOMAIN rs
         PROVE  (Answer(rs[i]))' /\ UpTo(rs[i], last)
    <2> DEFINE r == rs[i]
    <2>1. /\ r.ack => r.offset = ftp.expectedOffset + i - 1 /\ r.offset < Size
          /\ r.eof <=> ~r.ack
          /\ ~r.ack => i = n /\ (ftp.expectedOffset <= Size => i - 1 = Size - ftp.expectedOffset)
          /\ r.burstComplete => n <= i + 1
      BY <1>6, <1>8 DEF BurstReplies
    <2>2. /\ r \in AnswerType /\ r.opcode = "Burst" /\ r.file = ftp.path
          /\ r.seq = (e - 1) + i /\ r.ack \in BOOLEAN /\ i \in Nat /\ i <= n
      BY <1>9, <1>10
    <2>3. last.seq = (e - 1) + n
      BY <1>9, <1>10
    <2>4. r.ack => /\ r.offset - ftp.expectedOffset = r.seq - e
                   /\ r.file = ftp.path /\ r.offset < Size
      BY <1>4, <2>1, <2>2
    <2>5. ~r.ack => Size - ftp.expectedOffset = r.seq - e
      BY <1>4, <1>7, <2>1, <2>2
    <2>6. (Answer(r))'
      BY <1>1, <1>3, <1>5, <2>1, <2>2, <2>4, <2>5 DEF Answer, Size, OpcodeOf
    <2>7. r.seq <= last.seq /\ (r.seq = last.seq => r = last)
      BY <1>4, <1>9, <2>2, <2>3
    <2>8. r.burstComplete => last.seq <= r.seq + 1
      BY <1>4, <1>9, <2>1, <2>2, <2>3
    <2>9. ~r.ack => r = last
      BY <2>1
    <2>10. UpTo(r, last)
      BY <2>7, <2>8, <2>9 DEF UpTo
    <2> QED
      BY <2>6, <2>10
  <1>12. (Final(last))'
    <2>1. last.burstComplete \/ ~last.ack
      BY <1>9 DEF BurstReplies
    <2> QED
      BY <2>1 DEF Final
  <1>13. last = rs[Len(rs)]
    OBVIOUS
  <1> HIDE DEF last, n, e
  <1> QED
    BY <1>9, <1>11, <1>12, <1>13, NewAnswers

LEMMA ServedAnswers ==
    ASSUME Messages, Answers, Sound, ftp.path \in DOMAIN Downloads, ftp.expectedOffset \in Nat,
           Size \in Nat, ServeMove
    PROVE  Answers'
  <1>1. /\ toVehicle # <<>> /\ toVehicle' = Tail(toVehicle) /\ ftp' = ftp
    BY DEF ServeMove
  <1>2. CASE /\ Repeated(toVehicle[1]) /\ toGcs' = Append(toGcs, server.lastReply)
             /\ server' = server
    BY <1>1, <1>2, RepeatedAnswers
  <1>3. ASSUME ~Repeated(toVehicle[1]), NEW rs, Serves(rs)
        PROVE  Answers'
    <2>1. RepliesTo(rs, toVehicle[1])
      BY <1>3 DEF Serves
    <2>2. CASE rs = <<>>
      BY <1>1, <1>3, <2>2, SilenceAnswers
    <2>3. ASSUME NEW r, rs = <<r>>, SingleReply(r, toVehicle[1])
          PROVE  Answers'
      BY <1>1, <1>3, <2>3, SingleAnswers
    <2>4. CASE toVehicle[1].opcode = "Burst" /\ BurstReplies(rs, toVehicle[1])
      BY <1>1, <1>3, <2>4, BurstAnswers
    <2> QED
      BY <2>1, <2>2, <2>3, <2>4 DEF RepliesTo
  <1> QED
    BY <1>2, <1>3 DEF ServeMove

-----------------------------------------------------------------------------
(* Whether a download was broken off is known from what was reported.         *)
LEMMA BrokenOffEarlier ==
    ASSUME NEW d \in Int, NEW m \in Int, d <= m, NoneBrokenOffBefore(m)
    PROVE  NoneBrokenOffBefore(d)
  <1>1. \A e \in 1 .. (d - 1) : e \in 1 .. (m - 1)
    OBVIOUS
  <1> QED
    BY <1>1 DEF NoneBrokenOffBefore

(* The packets were the download's own if they still are.                     *)
Onwards ==
    /\ ftp'.path = ftp.path /\ started' = started
    /\ \A d \in DOMAIN Downloads : d # ftp.path => results'[d] = results[d]
    /\ InOrder' => InOrder
    /\ InStep' => InStep
Past ==
    /\ (OwnPackets(ftp.path))' => OwnPackets(ftp.path)
    /\ (NoneBrokenOffBefore(ftp.path))' => NoneBrokenOffBefore(ftp.path)
    /\ (NoneBrokenOffBefore(started + 1))' => NoneBrokenOffBefore(ftp.path)

LEMMA PastOwn ==
    ASSUME FtpInv, Onwards
    PROVE  Past
  <1>1. /\ started \in 0 .. Len(Downloads) /\ ftp.path \in 0 .. started
        /\ DOMAIN Downloads = 1 .. Len(Downloads) /\ Len(Downloads) \in Nat
    BY FtpAssumption DEF FtpInv, LinkInv, ManagerInv
  <1>2. \A e \in 1 .. (ftp.path - 1) : /\ e \in DOMAIN Downloads /\ e # ftp.path
                                       /\ e \in 1 .. (started + 1 - 1)
    BY <1>1
  <1>3. \A e \in 1 .. (ftp.path - 1) : results'[e] = results[e]
    BY <1>2 DEF Onwards
  <1>4. (NoneBrokenOffBefore(ftp.path))' => NoneBrokenOffBefore(ftp.path)
    BY <1>3 DEF NoneBrokenOffBefore, Onwards
  <1>5. (NoneBrokenOffBefore(started + 1))' => NoneBrokenOffBefore(ftp.path)
    <2>0. PICK m : m = started' + 1
      OBVIOUS
    <2>1. ASSUME (NoneBrokenOffBefore(m))', NEW e \in 1 .. (ftp.path - 1)
          PROVE  \A i \in DOMAIN results'[e] :
                     results'[e][i].error = "none" \/ ~results'[e][i].opened
      <3>1. \A d \in 1 .. (m - 1) : \A i \in DOMAIN results'[d] :
                results'[d][i].error = "none" \/ ~results'[d][i].opened
        BY <2>1 DEF NoneBrokenOffBefore
      <3>2. e \in 1 .. (m - 1)
        BY <1>1, <2>0 DEF Onwards
      <3> QED
        BY <3>1, <3>2
    <2>2. (NoneBrokenOffBefore(m))' => NoneBrokenOffBefore(ftp.path)
      BY <1>3, <2>1 DEF NoneBrokenOffBefore
    <2>3. (NoneBrokenOffBefore(started + 1))' => (NoneBrokenOffBefore(m))'
      BY <2>0
    <2> QED
      BY <2>2, <2>3
  <1>6. (OwnPackets(ftp.path))' => OwnPackets(ftp.path)
    BY <1>4 DEF OwnPackets, Onwards
  <1> QED
    BY <1>4, <1>5, <1>6 DEF Past

(* A download that quits with its file open is broken off.                    *)
LEMMA BrokenOff ==
    ASSUME FtpInv, FtpInv', ftp.index # -1, started' = started, ftp.fileOpen,
           NEW error, error # "none", Quits(error), (NoneBrokenOffBefore(started + 1))'
    PROVE  FALSE
  <1> DEFINE p == ftp.path
  <1>1. /\ started \in 0 .. Len(Downloads) /\ p \in 0 .. started /\ p \in DOMAIN Downloads
        /\ DOMAIN Downloads = 1 .. Len(Downloads) /\ Len(Downloads) \in Nat
    BY FtpAssumption DEF FtpInv, LinkInv, ManagerInv, Downloading
  <1>2. p \in 1 .. (started' + 1 - 1)
    BY <1>1
  <1>3. PICK file : results'[p] = <<[error |-> error, file |-> file, opened |-> ftp.fileOpen]>>
    BY DEF Quits
  <1>4. 1 \in DOMAIN results'[p] /\ results'[p][1].error = error /\ results'[p][1].opened = ftp.fileOpen
    <2>1. PICK r : r = [error |-> error, file |-> file, opened |-> ftp.fileOpen]
      OBVIOUS
    <2>2. results'[p] = <<r>> /\ r.error = error /\ r.opened = ftp.fileOpen
      BY <1>3, <2>1
    <2>3. PICK t : t = results'[p]
      OBVIOUS
    <2>4. t = <<r>>
      BY <2>2, <2>3
    <2>5. 1 \in DOMAIN t /\ t[1] = r
      BY <2>4
    <2> QED
      BY <2>2, <2>3, <2>5
  <1>5. results'[p][1].error = "none" \/ ~results'[p][1].opened
    <2>0. PICK m : m = started' + 1
      OBVIOUS
    <2>1. (NoneBrokenOffBefore(m))'
      BY <2>0
    <2>2. \A d \in 1 .. (m - 1) : \A i \in DOMAIN results'[d] :
              results'[d][i].error = "none" \/ ~results'[d][i].opened
      BY <2>1 DEF NoneBrokenOffBefore
    <2>3. p \in 1 .. (m - 1)
      BY <1>1, <2>0
    <2> HIDE DEF p
    <2> QED
      BY <1>4, <2>2, <2>3
  <1> QED
    BY <1>4, <1>5

-----------------------------------------------------------------------------
(* What is on its way when a download quits, asked at most two numbers ago.   *)
LEMMA QuitCleared ==
    ASSUME Messages, Answers, state \in {"open", "reset"}, toVehicle = <<>>,
           NEW error, Quits(error), server' = server, FewerToGcs
    PROVE  Cleared'
  <1> DEFINE e == ftp.expectedSeq
  <1>1. ftp'.expectedSeq = e /\ toVehicle' = <<>> /\ e \in Nat
    BY DEF Quits, Messages
  <1>2. ASSUME NEW r, Answer(r) PROVE r.seq < e + 2
    BY <1>1, <1>2 DEF Answer
  <1>3. \A i \in DOMAIN toGcs : toGcs[i].seq < e + 2
    <2> TAKE i \in DOMAIN toGcs
    <2>1. toGcs[i].seq \in Nat
      BY DEF Messages
    <2>2. Behind(toGcs[i]) \/ Answer(toGcs[i])
      BY DEF Answers, AllAnswer
    <2> QED
      BY <1>1, <1>2, <2>1, <2>2 DEF Behind
  <1>4. server.lastReply # NoReply => server.lastReply.seq < e + 2
    <2> SUFFICES ASSUME server.lastReply # NoReply PROVE server.lastReply.seq < e + 2
      OBVIOUS
    <2>1. server.lastReply.seq \in Nat
      BY DEF Messages
    <2>2. Behind(server.lastReply) \/ Answer(server.lastReply)
      BY DEF Answers, LastAnswer
    <2> QED
      BY <1>1, <1>2, <2>1, <2>2 DEF Behind
  <1> QED
    BY <1>1, <1>3, <1>4 DEF Cleared, FewerToGcs

(* The same request again, with nothing on its way.                           *)
LEMMA AskedAgain ==
    ASSUME Messages, Answers, toVehicle = <<>>, toGcs = <<>>, toGcs' = toGcs, server' = server,
           state' = state, ftp'.path = ftp.path, ftp'.expectedSeq = ftp.expectedSeq,
           ftp'.expectedOffset = ftp.expectedOffset, NEW q, toVehicle' = <<q>>, Asked(q)
    PROVE  Answers'
  <1>1. Len(toVehicle') = 1 /\ toVehicle'[1] = q
    OBVIOUS
  <1>2. (Asked(q))'
    BY DEF Asked
  <1>3. OneAsked'
    BY <1>1, <1>2 DEF OneAsked
  <1>4. AllAnswer'
    BY DEF AllAnswer
  <1>5. \A r : (Answer(r))' <=> Answer(r)
    BY DEF Answer, Size
  <1>6. LastAnswer'
    BY <1>5 DEF Answers, LastAnswer, Behind, Final
  <1> QED
    BY <1>3, <1>4, <1>6 DEF Answers

(* With nothing left to be looked at but what is behind.                      *)
LEMMA NextAsked ==
    ASSUME Messages, toVehicle = <<>>, FewerToGcs, server' = server, NEW n \in Nat,
           \A i \in DOMAIN toGcs : toGcs[i].seq < n + 2,
           server.lastReply # NoReply => server.lastReply.seq < n + 2,
           NEW opcode, NEW offset, Goes(opcode, offset, n), opcode = OpcodeOf[state'],
           state' \in {"burst", "fill"} => ftp'.expectedOffset = offset
    PROVE  Answers'
  <1>0. PICK q : q = [opcode |-> opcode, offset |-> offset, file |-> ftp.path, seq |-> n + 1]
    OBVIOUS
  <1>1. toVehicle' = <<q>>
    <2>1. toVehicle' = Append(toVehicle, q)
      BY <1>0 DEF Goes
    <2> QED
      BY <2>1
  <1>2. ftp'.expectedSeq = n + 2 /\ ftp'.path = ftp.path
    BY DEF Goes
  <1>3. (Asked(q))'
    BY <1>0, <1>2 DEF Asked
  <1>4. \A i \in DOMAIN toGcs' : toGcs'[i].seq < ftp'.expectedSeq
    BY <1>2 DEF FewerToGcs
  <1>5. server'.lastReply # NoReply => server'.lastReply.seq < ftp'.expectedSeq
    BY <1>2
  <1> QED
    BY <1>1, <1>3, <1>4, <1>5, AskedAnew

-----------------------------------------------------------------------------
(* Steps that only take something off the way.                                *)
LEMMA StillPaced ==
    ASSUME FtpInv, Messages, StepInv, CleanInv, InOrder' => InOrder, InStep' => InStep,
           ftp' = ftp, server' = server, results' = results, started' = started,
           FewerToVehicle, FewerToGcs
    PROVE  StepInv' /\ CleanInv'
  <1>1. state' = state
    BY DEF state
  <1>2. Onwards
    BY DEF Onwards
  <1>3. Past
    BY <1>2, PastOwn
  <1>4. Answers => Answers'
    BY StillAnswers
  <1>5. StepInv'
    BY <1>1, <1>3, <1>4 DEF StepInv, Past, Paced, Size, Seen
  <1>6. Cleared => Cleared'
    BY DEF Cleared, FewerToVehicle, FewerToGcs
  <1>7. (NoneBrokenOffBefore(started + 1))' => NoneBrokenOffBefore(started + 1)
    BY DEF NoneBrokenOffBefore
  <1>8. CleanInv'
    BY <1>1, <1>3, <1>4, <1>6, <1>7 DEF CleanInv, Past
  <1> QED
    BY <1>5, <1>8

(* The next download.                                                         *)
LEMMA DownloadPaced ==
    ASSUME FtpInv, Messages, StepInv, CleanInv, DownloadMove
    PROVE  StepInv' /\ CleanInv'
  <1>1. /\ started \in Nat /\ started' = started + 1
        /\ UNCHANGED <<server, toGcs, linkUp, spent, results>>
    BY FtpAssumption DEF DownloadMove, FtpInv, LinkInv
  <1>2. InStep' = InStep /\ InOrder' = InOrder /\ \A d : (NoneBrokenOffBefore(d))' <=> NoneBrokenOffBefore(d)
    BY <1>1 DEF InStep, InOrder, NoneBrokenOffBefore
  <1>3. (NoneBrokenOffBefore(started + 1))' => NoneBrokenOffBefore(started + 1)
    <2> SUFFICES ASSUME NoneBrokenOffBefore(started' + 1)
                 PROVE  NoneBrokenOffBefore(started + 1)
      BY <1>1 DEF NoneBrokenOffBefore
    <2>1. started + 1 \in Int /\ started' + 1 \in Int /\ started + 1 <= started' + 1
      BY <1>1
    <2> QED
      BY <2>1, BrokenOffEarlier
  <1>4. CASE UNCHANGED <<ftp, toVehicle>>
    <2>1. state' = state
      BY <1>4 DEF state
    <2>2. Answers' <=> Answers
      BY <1>1, <1>4, <2>1 DEF Answers, OneAsked, AllAnswer, LastAnswer, Asked, Behind, Answer,
            UpTo, Final, Size
    <2>3. Paced' <=> Paced
      BY <1>1, <1>4, <2>1, <2>2 DEF Paced, Size, Seen
    <2>4. StepInv'
      BY <1>1, <1>2, <1>4, <2>3 DEF StepInv, OwnPackets, NoneBrokenOffBefore
    <2>5. Cleared' <=> Cleared
      BY <1>1, <1>4 DEF Cleared
    <2>6. (NoneBrokenOffBefore(ftp.path))' <=> NoneBrokenOffBefore(ftp.path)
      BY <1>1, <1>4 DEF NoneBrokenOffBefore
    <2>7. CleanInv'
      BY <1>2, <1>3, <2>1, <2>2, <2>5, <2>6 DEF CleanInv
    <2> QED
      BY <2>4, <2>7
  <1>5. CASE /\ state = "none" /\ state' = "none" /\ ftp'.path = started'
             /\ ftp'.expectedSeq = ftp.expectedSeq /\ toVehicle' = toVehicle
    <2>1. StepInv'
      BY <1>5 DEF StepInv, Paced
    <2>2. Cleared => Cleared'
      BY <1>1, <1>5 DEF Cleared
    <2>3. CleanInv'
      BY <1>2, <1>3, <1>5, <2>2 DEF CleanInv
    <2> QED
      BY <2>1, <2>3
  <1>6. CASE /\ state = "none" /\ state' = "open" /\ ftp'.path = started'
             /\ ftp'.fileOpen = FALSE /\ ftp'.fileSize = 0
             /\ ftp'.expectedSeq = ftp.expectedSeq + 2
             /\ toVehicle' = Append(toVehicle, [opcode |-> "Open", offset |-> 0, file |-> started',
                                                seq |-> ftp.expectedSeq + 1])
    <2>1. StepInv'
      BY <1>6 DEF StepInv, Paced
    <2>2. ASSUME InStep', (NoneBrokenOffBefore(ftp.path))'
          PROVE  Answers'
      <3>0. PICK q : q = [opcode |-> "Open", offset |-> 0, file |-> started',
                          seq |-> ftp.expectedSeq + 1]
        OBVIOUS
      <3>1. NoneBrokenOffBefore(started + 1)
        BY <1>1, <1>6, <2>2 DEF NoneBrokenOffBefore
      <3>2. Cleared
        BY <1>2, <1>6, <2>2, <3>1 DEF CleanInv
      <3>3. toVehicle' = <<q>>
        BY <1>6, <3>0, <3>2 DEF Cleared
      <3>4. ftp.expectedSeq \in Nat
        BY DEF Messages
      <3>5. (Asked(q))'
        BY <1>6, <3>0, <3>4 DEF Asked, OpcodeOf
      <3>6. \A i \in DOMAIN toGcs' : toGcs'[i].seq < ftp'.expectedSeq
        BY <1>1, <1>6, <3>2 DEF Cleared
      <3>7. server'.lastReply # NoReply => server'.lastReply.seq < ftp'.expectedSeq
        BY <1>1, <1>6, <3>2 DEF Cleared
      <3> QED
        BY <3>3, <3>5, <3>6, <3>7, AskedAnew
    <2>3. CleanInv'
      BY <1>6, <2>2 DEF CleanInv
    <2> QED
      BY <2>1, <2>3
  <1> QED
    BY <1>4, <1>5, <1>6 DEF DownloadMove

-----------------------------------------------------------------------------
(* The invariants of the pace, and what may be said as soon as they are known *)
(* to apply.                                                                  *)
Quitting(error) == error # "none" /\ ftp.fileOpen /\ Quits(error)

(* A download that quits with the file open leaves no promise for the next.   *)
LEMMA QuittingPaced ==
    ASSUME FtpInv, FtpInv', ftp.index # -1, started' = started, NEW error, Quitting(error)
    PROVE  StepInv' /\ CleanInv'
  <1>1. state' = "none"
    BY DEF Quitting, Quits
  <1>2. StepInv'
    BY <1>1 DEF StepInv, Paced
  <1>3. (NoneBrokenOffBefore(started + 1))' => FALSE
    BY BrokenOff DEF Quitting
  <1> QED
    BY <1>1, <1>2, <1>3 DEF CleanInv

(* One that quits before that, or after the last answer.                      *)
LEMMA QuitPaced ==
    ASSUME FtpInv, Messages, ftp.index # -1, InStep' => InStep, InOrder' => InOrder,
           started' = started, server' = server, FewerToGcs, NEW error, Quits(error),
           state \in {"open", "reset"},
           InStep /\ NoneBrokenOffBefore(ftp.path) => Answers /\ toVehicle = <<>>
    PROVE  StepInv' /\ CleanInv'
  <1>1. state' = "none"
    BY DEF Quits
  <1>2. StepInv'
    BY <1>1 DEF StepInv, Paced
  <1>3. Onwards
    BY DEF Onwards, Quits
  <1>4. Past
    BY <1>3, PastOwn
  <1>5. ASSUME InStep', (NoneBrokenOffBefore(started + 1))'
        PROVE  Cleared'
    <2>1. Answers /\ toVehicle = <<>>
      BY <1>4, <1>5 DEF Past
    <2> QED
      BY <2>1, QuitCleared
  <1> QED
    BY <1>1, <1>2, <1>5 DEF CleanInv

(* What the invariants say of a download under way.                           *)
Known ==
    /\ state = "open" /\ InStep /\ NoneBrokenOffBefore(ftp.path) => Answers
    /\ state = "open" /\ InOrder => Ordered
    /\ InStep /\ OwnPackets(ftp.path) => Paced

LEMMA WhatIsKnown ==
    ASSUME StepInv, CleanInv, OrderInv
    PROVE  Known
  BY DEF StepInv, CleanInv, OrderInv, Known

-----------------------------------------------------------------------------
(* The timeout, with nothing on its way.                                      *)
LEMMA TimeoutPaced ==
    ASSUME FtpInv, FtpInv', Messages, OpenFile, Known, ftp.index # -1, Places,
           TimeoutMove, state # "none", EarlyOrDue, InStep'
    PROVE  StepInv' /\ CleanInv'
  <1>1. /\ ~InFlight /\ spent' = spent
        /\ UNCHANGED <<started, refused, server, toGcs, linkUp>>
    BY DEF EarlyOrDue
  <1>2. /\ toVehicle = <<>> /\ toGcs = <<>> /\ InStep /\ (InOrder' => InOrder)
        /\ InStep' => InStep
    BY <1>1 DEF InFlight, InStep, InOrder
  <1>3. FewerToGcs
    BY <1>1 DEF FewerToGcs
  <1>4. CASE state = "open" /\ Quits("Download failed")
    BY <1>1, <1>2, <1>3, <1>4, QuitPaced DEF Known
  <1>5. CASE state \in {"burst", "fill", "terminate"} /\ Quits("Download failed")
    BY <1>1, <1>5, QuittingPaced DEF Quitting, OpenFile
  <1>6. CASE state = "reset" /\ Quits("none")
    <2>1. NoneBrokenOffBefore(ftp.path) => OwnPackets(ftp.path)
      BY <1>2 DEF OwnPackets
    <2> QED
      BY <1>1, <1>2, <1>3, <1>6, <2>1, QuitPaced DEF Known, Paced
  <1>7. CASE state = "terminate" /\ Terminates(ftp.expectedSeq)
    BY <1>7 DEF Terminates, StepInv, CleanInv, Paced
  <1>8. CASE state = "burst" /\ Burst(ftp.expectedOffset, ftp.expectedSeq - 2)
    <2>1. /\ state' = "burst" /\ results' = results /\ ftp'.path = ftp.path
          /\ toVehicle' = Append(toVehicle, [opcode |-> "Burst", offset |-> ftp.expectedOffset,
                              file |-> ftp.path, seq |-> ftp.expectedSeq - 2 + 1])
          /\ ftp'.expectedSeq = ftp.expectedSeq - 2 + 2 /\ ftp'.expectedOffset = ftp.expectedOffset
      BY <1>8 DEF Burst, Goes
    <2>2. Past
      BY <1>1, <1>2, <2>1, PastOwn DEF Onwards
    <2>3. ASSUME (OwnPackets(ftp.path))'
          PROVE  Paced'
      <3>1. Paced
        BY <1>2, <2>2, <2>3 DEF Past, Known
      <3>2. PICK q : q = [opcode |-> "Burst", offset |-> ftp.expectedOffset,
                          file |-> ftp.path, seq |-> ftp.expectedSeq - 2 + 1]
        OBVIOUS
      <3>3. toVehicle' = <<q>>
        BY <1>2, <2>1, <3>2
      <3>4. ftp.expectedSeq \in Nat
        BY DEF Messages
      <3>5. Asked(q)
        BY <1>8, <3>2, <3>4 DEF Asked, OpcodeOf
      <3>6. ftp'.expectedSeq = ftp.expectedSeq
        BY <2>1, <3>4
      <3>7. Answers /\ state' = state
        BY <1>8, <2>1, <3>1 DEF Paced
      <3>8. Answers'
        BY <1>1, <1>2, <2>1, <3>3, <3>5, <3>6, <3>7, AskedAgain
      <3> QED
        BY <1>1, <1>8, <2>1, <3>1, <3>8 DEF Paced, Size
    <2>4. StepInv'
      BY <2>3 DEF StepInv
    <2> QED
      BY <2>1, <2>4 DEF CleanInv
  <1>9. CASE /\ state = "fill" /\ Read(ftp.expectedSeq - 2)
             /\ ftp'.expectedOffset = ftp.expectedOffset
    <2>1. /\ state' = "fill" /\ results' = results /\ ftp'.path = ftp.path
          /\ toVehicle' = Append(toVehicle, [opcode |-> "Read", offset |-> ftp.expectedOffset,
                              file |-> ftp.path, seq |-> ftp.expectedSeq - 2 + 1])
          /\ ftp'.expectedSeq = ftp.expectedSeq - 2 + 2 /\ Seen(ftp') = Seen(ftp)
      BY <1>9 DEF Read, Goes
    <2>2. Past
      BY <1>1, <1>2, <2>1, PastOwn DEF Onwards
    <2>3. ASSUME (OwnPackets(ftp.path))'
          PROVE  Paced'
      <3>1. Paced
        BY <1>2, <2>2, <2>3 DEF Past, Known
      <3>2. PICK q : q = [opcode |-> "Read", offset |-> ftp.expectedOffset,
                          file |-> ftp.path, seq |-> ftp.expectedSeq - 2 + 1]
        OBVIOUS
      <3>3. toVehicle' = <<q>>
        BY <1>2, <2>1, <3>2
      <3>4. ftp.expectedSeq \in Nat
        BY DEF Messages
      <3>5. Asked(q)
        BY <1>9, <3>2, <3>4 DEF Asked, OpcodeOf
      <3>6. ftp'.expectedSeq = ftp.expectedSeq
        BY <2>1, <3>4
      <3>7. Answers /\ state' = state
        BY <1>9, <2>1, <3>1 DEF Paced
      <3>8. Answers'
        BY <1>1, <1>2, <1>9, <2>1, <3>3, <3>5, <3>6, <3>7, AskedAgain
      <3>9. Seen(ftp) = 0 .. (Size - 1) /\ (Seen(ftp))' = Seen(ftp') /\ Size' = Size
        BY <1>9, <2>1, <3>1 DEF Paced, Size, Seen
      <3> QED
        BY <1>1, <1>9, <2>1, <3>1, <3>8, <3>9 DEF Paced
    <2>4. StepInv'
      BY <2>3 DEF StepInv
    <2> QED
      BY <2>1, <2>4 DEF CleanInv
  <1> QED
    BY <1>4, <1>5, <1>6, <1>7, <1>8, <1>9 DEF TimeoutMove

-----------------------------------------------------------------------------
(* An answer to the open.                                                     *)
LEMMA OpensPaced ==
    ASSUME FtpInv, Messages, Known, ftp.index # -1, Places, InStep' => InStep,
           InOrder' => InOrder, started' = started, server' = server,
           toGcs # <<>>, toGcs' = Tail(toGcs), FewerToGcs,
           NEW r, r = toGcs[1], r.opcode = "Open", r.ack, r.seq = ftp.expectedSeq,
           state = "open", Opens
    PROVE  StepInv' /\ CleanInv'
  <1> DEFINE e == ftp.expectedSeq
  <1>1. /\ state' = "burst" /\ results' = results /\ ftp'.path = ftp.path
        /\ ftp'.expectedOffset = 0 /\ ftp'.expectedSeq = e + 2 /\ e \in Nat
        /\ toVehicle' = Append(toVehicle, [opcode |-> "Burst", offset |-> 0, file |-> ftp.path,
                                           seq |-> e + 1])
    BY DEF Opens, Messages
  <1>2. Past
    BY <1>1, PastOwn DEF Onwards
  <1>3. ASSUME InStep', (OwnPackets(ftp.path))'
        PROVE  Paced'
    <2>1. InStep /\ OwnPackets(ftp.path)
      BY <1>2, <1>3 DEF Past
    <2>2. /\ toVehicle = <<>> /\ server.file = ftp.path /\ server.errMode # "BadSequence"
          /\ \A i \in DOMAIN toGcs : toGcs[i].seq < e + 2
          /\ server.lastReply # NoReply => server.lastReply.seq < e + 2
      <3>1. CASE InOrder
        <4>1. Ordered
          BY <2>1, <3>1 DEF Known
        <4>2. toGcs \in Seq(GoodAnswer)
          BY DEF Messages
        <4> DEFINE t == Tail(toGcs)
        <4>3. TailOf(toGcs, t)
          BY <4>2, TailElements
        <4>4. 1 \in DOMAIN toGcs
          BY <4>3 DEF TailOf
        <4>5. OpenReplied(r, 1 = Len(toGcs))
          BY <4>1, <4>4 DEF Ordered, OpensReplied
        <4>6. /\ 1 = Len(toGcs) /\ toVehicle = <<>> /\ server.lastReply = r
              /\ server.file = ftp.path /\ server.errMode # "BadSequence"
          BY <1>1, <4>5 DEF OpenReplied
        <4>7. \A i \in DOMAIN toGcs : i = 1
          BY <4>2, <4>6
        <4> QED
          BY <1>1, <4>6, <4>7
      <3>2. CASE NoneBrokenOffBefore(ftp.path)
        <4>1. Answers
          BY <2>1, <3>2 DEF Known
        <4>2. /\ toVehicle = <<>> /\ Answer(r) /\ server.lastReply # NoReply
              /\ UpTo(r, server.lastReply)
          <5>1. r.seq >= ftp.expectedSeq
            BY <1>1
          <5> QED
            BY <4>1, <5>1, TakenAnswers
        <4>3. server.errMode # "BadSequence" /\ server.file = ftp.path
          BY <1>1, <4>2 DEF Answer
        <4>4. ASSUME NEW x, Answer(x) PROVE x.seq < e + 2
          BY <1>1, <4>3, <4>4 DEF Answer
        <4>5. \A i \in DOMAIN toGcs : toGcs[i].seq < e + 2
          <5> TAKE i \in DOMAIN toGcs
          <5>1. toGcs[i].seq \in Nat
            BY DEF Messages
          <5>2. Behind(toGcs[i]) \/ Answer(toGcs[i])
            BY <4>1 DEF Answers, AllAnswer
          <5> QED
            BY <1>1, <4>4, <5>1, <5>2 DEF Behind
        <4>6. server.lastReply.seq < e + 2
          <5>1. server.lastReply.seq \in Nat
            BY <4>2 DEF Messages
          <5>2. Behind(server.lastReply) \/ Answer(server.lastReply)
            BY <4>1, <4>2 DEF Answers, LastAnswer
          <5> QED
            BY <1>1, <4>4, <5>1, <5>2 DEF Behind
        <4> QED
          BY <4>2, <4>3, <4>5, <4>6
      <3> QED
        BY <2>1, <3>1, <3>2 DEF OwnPackets
    <2>3. PICK q : q = [opcode |-> "Burst", offset |-> 0, file |-> ftp.path, seq |-> e + 1]
      OBVIOUS
    <2>4. toVehicle' = <<q>>
      BY <1>1, <2>2, <2>3
    <2>5. (Asked(q))'
      BY <1>1, <2>3 DEF Asked, OpcodeOf
    <2>6. \A i \in DOMAIN toGcs' : toGcs'[i].seq < ftp'.expectedSeq
      BY <1>1, <2>2 DEF FewerToGcs
    <2>7. server'.lastReply # NoReply => server'.lastReply.seq < ftp'.expectedSeq
      BY <1>1, <2>2
    <2>8. Answers'
      BY <2>4, <2>5, <2>6, <2>7, AskedAnew
    <2>9. Size \in Nat /\ Size' = Size
      BY <1>1 DEF Places, Size
    <2> QED
      BY <1>1, <2>2, <2>8, <2>9 DEF Paced
  <1>4. StepInv'
    BY <1>3 DEF StepInv
  <1> QED
    BY <1>1, <1>4 DEF CleanInv

-----------------------------------------------------------------------------
(* An answer taken while the file is read, and its own.                       *)
Arrives(r) ==
    /\ toGcs # <<>> /\ r = toGcs[1] /\ toGcs' = Tail(toGcs) /\ r \in AnswerType
    /\ r.opcode = OpcodeOf[state] /\ r.seq >= ftp.expectedSeq
    /\ state # "burst" => r.seq = ftp.expectedSeq
    /\ server' = server /\ started' = started /\ spent' = spent

LEMMA ArrivesFirst ==
    ASSUME Messages, NEW r, Arrives(r)
    PROVE  /\ 1 \in DOMAIN toGcs /\ r.seq \in Nat /\ FewerToGcs
           /\ TailOf(toGcs, toGcs')
  <1>1. toGcs \in Seq(GoodAnswer) /\ toGcs # <<>> /\ toGcs' = Tail(toGcs) /\ r = toGcs[1]
    BY DEF Messages, Arrives
  <1>2. TailOf(toGcs, toGcs')
    BY <1>1, TailElements
  <1>3. 1 \in DOMAIN toGcs
    BY <1>2 DEF TailOf
  <1>4. r.seq \in Nat
    BY <1>1, <1>3 DEF Messages
  <1>5. FewerToGcs
    BY <1>2 DEF TailOf, FewerToGcs
  <1> QED
    BY <1>2, <1>3, <1>4, <1>5

(* What is known then.                                                        *)
Own(r) ==
    /\ toVehicle = <<>> /\ Answer(r) /\ server.lastReply # NoReply
    /\ UpTo(r, server.lastReply) /\ server.lastReply.seq \in Nat

LEMMA ArrivesOwn ==
    ASSUME Messages, Paced, state \in {"burst", "fill", "reset"}, NEW r, Arrives(r)
    PROVE  Own(r)
  <1>1. Answers
    BY DEF Paced
  <1>2. toGcs # <<>> /\ r = toGcs[1] /\ r.seq >= ftp.expectedSeq
    BY DEF Arrives
  <1>3. toVehicle = <<>> /\ Answer(r) /\ server.lastReply # NoReply /\ UpTo(r, server.lastReply)
    BY <1>1, <1>2, TakenAnswers
  <1> QED
    BY <1>3 DEF Own, Messages

(* All that comes is numbered up to the last.                                 *)
LEMMA UpToLast ==
    ASSUME Messages, Answers, NEW n \in Nat, n >= ftp.expectedSeq, server.lastReply # NoReply,
           server.lastReply.seq < n + 2
    PROVE  \A i \in DOMAIN toGcs : toGcs[i].seq < n + 2
  <1> TAKE i \in DOMAIN toGcs
  <1>1. toGcs[i].seq \in Nat /\ ftp.expectedSeq \in Nat /\ server.lastReply.seq \in Nat
    BY DEF Messages
  <1>2. Behind(toGcs[i]) \/ toGcs[i].seq <= server.lastReply.seq
    BY DEF Answers, AllAnswer, UpTo
  <1> QED
    BY <1>1, <1>2 DEF Behind

(* The next thing is asked, after the last answer.                            *)
LEMMA AnsweredAsks ==
    ASSUME Messages, Paced, state \in {"burst", "fill"}, NEW r, Arrives(r), Own(r),
           NEW n \in Nat, n >= ftp.expectedSeq, server.lastReply.seq < n + 2,
           NEW opcode, NEW offset, Goes(opcode, offset, n), opcode = OpcodeOf[state'],
           state' \in {"burst", "fill"} => ftp'.expectedOffset = offset
    PROVE  Answers'
  <1>1. FewerToGcs
    BY ArrivesFirst
  <1>2. \A i \in DOMAIN toGcs : toGcs[i].seq < n + 2
    BY UpToLast DEF Paced, Own
  <1>3. toVehicle = <<>> /\ server' = server
    BY DEF Own, Arrives
  <1> QED
    BY <1>1, <1>2, <1>3, NextAsked

LEMMA Differences ==
    ASSUME NEW a \in Int, NEW b \in Int, NEW c \in Int, NEW d \in Int,
           NEW e \in Int, NEW f \in Int, c - f = d - e, a - f = b - e
    PROVE  a - (c + 1) = b - (d + 1)
  OBVIOUS

-----------------------------------------------------------------------------
(* Answers to a burst.                                                        *)
LEMMA PassesOnPaced ==
    ASSUME Messages, Places, Paced, state = "burst", NEW r, Arrives(r), Own(r), r.ack,
           PassesOn(r)
    PROVE  Paced'
  <1> DEFINE e == ftp.expectedSeq
             f == ftp.expectedOffset
  <1>1. /\ state' = "burst" /\ ftp'.path = ftp.path /\ ftp'.expectedSeq = r.seq + 1
        /\ ftp'.expectedOffset = r.offset + 1 /\ toVehicle' = toVehicle /\ server' = server
    BY DEF PassesOn, Arrives
  <1>2. /\ e \in Nat /\ r.seq \in Nat /\ r.seq >= e /\ f \in Nat /\ Size \in Nat
        /\ Size' = Size /\ FewerToGcs /\ r.offset \in Nat
    <2>1. r.offset \in Nat
      BY DEF Arrives, AnswerType
    <2> QED
      BY <1>1, <2>1, ArrivesFirst DEF Messages, Places, Size, Arrives
  <1>3. /\ toVehicle = <<>> /\ r.offset < Size /\ r.offset - f = r.seq - e
        /\ server.errMode # "BadSequence" /\ server.file = ftp.path /\ Answers
    BY DEF Own, Answer, Paced
  <1>4. ASSUME NEW x, Answer(x), x.seq \in Nat, x \in AnswerType
        PROVE  (Answer(x))'
    <2>1. x.offset \in Nat
      BY <1>4 DEF AnswerType
    <2>2. x.ack => x.offset - f = x.seq - e
      BY <1>4 DEF Answer
    <2>3. x.ack => x.offset - (r.offset + 1) = x.seq - (r.seq + 1)
      <3> SUFFICES ASSUME x.ack PROVE x.offset - (r.offset + 1) = x.seq - (r.seq + 1)
        OBVIOUS
      <3>2. x.offset - f = x.seq - e /\ r.offset - f = r.seq - e
        BY <1>3, <2>2
      <3>1. x.offset \in Int /\ x.seq \in Int /\ r.offset \in Int /\ r.seq \in Int
            /\ e \in Int /\ f \in Int
        BY <1>2, <1>4, <2>1
      <3> QED
        BY <3>1, <3>2, Differences
    <2>4. ~x.ack /\ x.eof => Size - f = x.seq - e
      BY <1>4 DEF Answer
    <2>5. ~x.ack /\ x.eof => Size - (r.offset + 1) = x.seq - (r.seq + 1)
      <3> SUFFICES ASSUME ~x.ack, x.eof PROVE Size - (r.offset + 1) = x.seq - (r.seq + 1)
        OBVIOUS
      <3>2. Size - f = x.seq - e /\ r.offset - f = r.seq - e
        BY <1>3, <2>4
      <3>1. Size \in Int /\ x.seq \in Int /\ r.offset \in Int /\ r.seq \in Int
            /\ e \in Int /\ f \in Int
        BY <1>2, <1>4
      <3> QED
        BY <3>1, <3>2, Differences
    <2> QED
      BY <1>1, <1>2, <1>4, <2>3, <2>5 DEF Answer
  <1>5. AllAnswer'
    <2>1. ASSUME NEW i \in DOMAIN toGcs'
          PROVE  \/ toGcs'[i].seq < ftp'.expectedSeq
                 \/ /\ \E x : x = toGcs'[i] /\ (Answer(x))'
                    /\ server.lastReply # NoReply /\ UpTo(toGcs'[i], server.lastReply)
      <3>1. PICK k \in DOMAIN toGcs : toGcs'[i] = toGcs[k]
        BY <1>2 DEF FewerToGcs
      <3>2. PICK x : x = toGcs[k]
        OBVIOUS
      <3>3. x.seq \in Nat /\ x \in AnswerType
        BY <3>2 DEF Messages
      <3>4. Behind(x) \/ (Answer(x) /\ server.lastReply # NoReply /\ UpTo(x, server.lastReply))
        BY <1>3, <3>2 DEF Answers, AllAnswer
      <3>5. Behind(x) => x.seq < ftp'.expectedSeq
        BY <1>1, <1>2, <3>3 DEF Behind
      <3> QED
        BY <1>4, <3>1, <3>2, <3>3, <3>4, <3>5
    <2> QED
      BY <1>1, <2>1 DEF AllAnswer, Behind, UpTo
  <1>6. LastAnswer'
    <2> SUFFICES ASSUME server'.lastReply # NoReply, ~(server'.lastReply.seq < ftp'.expectedSeq)
                 PROVE  (Answer(server.lastReply) /\ Final(server.lastReply))'
      BY DEF LastAnswer, Behind
    <2>1. PICK x : x = server.lastReply
      OBVIOUS
    <2>2. x # NoReply /\ x \in AnswerType /\ x.seq \in Nat /\ ~(x.seq < r.seq + 1)
      BY <1>1, <2>1 DEF Messages
    <2>3. ~Behind(x)
      BY <1>2, <2>2 DEF Behind
    <2>4. Answer(x) /\ Final(x)
      BY <1>3, <2>1, <2>2, <2>3 DEF Answers, LastAnswer
    <2>5. (Answer(x))' /\ (Final(x))'
      BY <1>1, <1>4, <2>2, <2>4 DEF Final
    <2>6. x = server'.lastReply
      BY <1>1, <2>1
    <2> QED
      BY <2>5, <2>6
  <1>7. OneAsked'
    BY <1>1, <1>3 DEF OneAsked
  <1>8. ftp'.expectedOffset <= Size'
    BY <1>1, <1>2, <1>3
  <1> QED
    BY <1>1, <1>3, <1>5, <1>6, <1>7, <1>8 DEF Paced, Answers

(* The burst goes on with another.                                            *)
LEMMA NextBurstPaced ==
    ASSUME Messages, Places, Paced, state = "burst", NEW r, Arrives(r), Own(r),
           server.lastReply.seq < r.seq + 2, NEW offset, offset <= Size, Burst(offset, r.seq)
    PROVE  Paced'
  <1>1. /\ state' = "burst" /\ ftp'.path = ftp.path /\ Goes("Burst", offset, r.seq)
        /\ ftp'.expectedOffset = offset /\ server' = server /\ Size' = Size
    BY DEF Burst, Goes, Arrives, Size
  <1>2. r.seq \in Nat /\ r.seq >= ftp.expectedSeq
    BY ArrivesFirst DEF Arrives
  <1>3. "Burst" = OpcodeOf[state']
    BY <1>1 DEF OpcodeOf
  <1>4. Answers'
    BY <1>1, <1>2, <1>3, AnsweredAsks
  <1> QED
    BY <1>1, <1>4 DEF Paced

(* A hole, or the reset, is asked for.                                        *)
LEMMA HolesPaced ==
    ASSUME Messages, Places, Paced, state \in {"burst", "fill"}, NEW r, Arrives(r), Own(r),
           server.lastReply.seq < ftp.expectedSeq + 2, Seen(ftp) = 0 .. (Size - 1),
           \/ Read(ftp.expectedSeq)
           \/ ResetSent(ftp.expectedSeq) /\ ftp'.missing = <<>>
    PROVE  Paced'
  <1>1. ftp.expectedSeq \in Nat /\ ftp.expectedSeq >= ftp.expectedSeq /\ server' = server
    BY DEF Messages, Arrives
  <1>2. server.file = ftp.path /\ server.errMode # "BadSequence"
    BY DEF Paced
  <1>3. CASE Read(ftp.expectedSeq)
    <2>1. /\ state' = "fill" /\ Goes("Read", ftp'.expectedOffset, ftp.expectedSeq)
          /\ ftp'.path = ftp.path /\ Seen(ftp') = Seen(ftp)
      BY <1>3 DEF Read, Goes
    <2>2. "Read" = OpcodeOf[state']
      BY <2>1 DEF OpcodeOf
    <2>3. PICK o : o = ftp'.expectedOffset
      OBVIOUS
    <2>4. Goes("Read", o, ftp.expectedSeq)
      BY <2>1, <2>3
    <2>5. Answers'
      BY <1>1, <2>2, <2>3, <2>4, AnsweredAsks
    <2>6. (Seen(ftp))' = Seen(ftp') /\ Size' = Size
      BY <2>1 DEF Seen, Size
    <2> QED
      BY <1>1, <1>2, <2>1, <2>5, <2>6 DEF Paced
  <1>4. CASE ResetSent(ftp.expectedSeq) /\ ftp'.missing = <<>>
    <2>1. /\ state' = "reset" /\ Goes("Reset", 0, ftp.expectedSeq)
          /\ ftp'.path = ftp.path /\ Seen(ftp') = Seen(ftp)
      BY <1>4 DEF ResetSent, Goes
    <2>2. "Reset" = OpcodeOf[state']
      BY <2>1 DEF OpcodeOf
    <2>5. Answers'
      BY <1>1, <2>1, <2>2, AnsweredAsks
    <2>6. (Seen(ftp))' = Seen(ftp') /\ Size' = Size
      BY <2>1 DEF Seen, Size
    <2> QED
      BY <1>1, <1>2, <1>4, <2>1, <2>5, <2>6 DEF Paced
  <1> QED
    BY <1>3, <1>4

-----------------------------------------------------------------------------
(* From the pace of a download that still is its own.                         *)
LEMMA OnlyPaced ==
    ASSUME FtpInv, Known, Onwards, state' # "none", state' # "open",
           InStep /\ OwnPackets(ftp.path) /\ Paced => Paced'
    PROVE  StepInv' /\ CleanInv'
  <1>1. Past
    BY PastOwn
  <1>2. InStep' /\ (OwnPackets(ftp.path))' => InStep /\ OwnPackets(ftp.path)
    BY <1>1 DEF Past, Onwards
  <1>3. InStep /\ OwnPackets(ftp.path) => Paced
    BY DEF Known
  <1> QED
    BY <1>2, <1>3 DEF StepInv, CleanInv

LEMMA FillsPaced ==
    ASSUME FtpInv, FtpInv', Messages, Known, Places, OpenFile, ftp.index # -1,
           Onwards, state \in {"burst", "fill"}, NEW r, Arrives(r), Fills,
           InStep /\ OwnPackets(ftp.path) /\ Paced =>
               Seen(ftp) = 0 .. (Size - 1) /\ server.lastReply.seq < ftp.expectedSeq + 2
    PROVE  StepInv' /\ CleanInv'
  <1>1. CASE TooShort(ftp) /\ Quits("Download failed")
    BY <1>1, QuittingPaced DEF Quitting, OpenFile, Arrives
  <1>2. CASE \/ Read(ftp.expectedSeq)
             \/ ResetSent(ftp.expectedSeq) /\ ftp'.missing = <<>>
    <2>1. state' # "none" /\ state' # "open"
      BY <1>2 DEF Read, ResetSent
    <2>2. ASSUME InStep, OwnPackets(ftp.path), Paced
          PROVE  Paced'
      <3>1. Own(r)
        BY <2>2, ArrivesOwn
      <3> QED
        BY <1>2, <2>2, <3>1, HolesPaced
    <2> QED
      BY <2>1, <2>2, OnlyPaced
  <1> QED
    BY <1>1, <1>2 DEF Fills

LEMMA BurstMovePaced ==
    ASSUME FtpInv, FtpInv', Messages, Known, Places, OpenFile, ftp.index # -1,
           Onwards, state = "burst", NEW r, Arrives(r), BurstMove(r)
    PROVE  StepInv' /\ CleanInv'
  <1>0. /\ ftp.expectedSeq \in Nat /\ ftp.expectedOffset \in Nat /\ r.seq \in Nat
        /\ r.seq >= ftp.expectedSeq /\ r.offset \in Nat
    <2>1. r.seq >= ftp.expectedSeq /\ r.offset \in Nat
      BY DEF Arrives, AnswerType
    <2> QED
      BY <2>1, ArrivesFirst DEF Messages, Places
  <1>1. Paced => Own(r)
    BY ArrivesOwn
  <1>2. CASE r.ack /\ r.offset < ftp.expectedOffset /\ Rests
    <2>1. state' = "burst"
      BY <1>2, RestsWhere
    <2>2. Paced => FALSE
      <3> SUFFICES ASSUME Paced PROVE FALSE
        OBVIOUS
      <3>1. Answer(r)
        BY <1>1 DEF Own
      <3>2. r.offset - ftp.expectedOffset = r.seq - ftp.expectedSeq
        BY <1>2, <3>1 DEF Answer
      <3> QED
        BY <1>0, <1>2, <3>2
    <2> QED
      BY <2>1, <2>2, OnlyPaced
  <1>3. CASE Quits("Error saving file") \/ Quits("Download failed")
    BY <1>3, QuittingPaced DEF Quitting, OpenFile, Arrives
  <1>4. CASE r.ack /\ PassesOn(r)
    <2>1. state' = "burst"
      BY <1>4 DEF PassesOn
    <2>2. Paced => Paced'
      BY <1>1, <1>4, PassesOnPaced
    <2> QED
      BY <2>1, <2>2, OnlyPaced
  <1>5. CASE /\ r.ack /\ r.burstComplete /\ Burst(r.offset + 1, r.seq)
    <2>1. state' = "burst"
      BY <1>5 DEF Burst
    <2>2. ASSUME Paced PROVE Paced'
      <3>1. Own(r) /\ Size \in Nat
        BY <1>1, <2>2 DEF Places
      <3>2. server.lastReply.seq < r.seq + 2
        BY <1>0, <1>5, <3>1 DEF Own, UpTo
      <3>3. r.offset + 1 <= Size
        BY <1>0, <1>5, <3>1 DEF Own, Answer
      <3> QED
        BY <1>5, <2>2, <3>1, <3>2, <3>3, NextBurstPaced
    <2> QED
      BY <2>1, <2>2, OnlyPaced
  <1>6. CASE ~r.ack /\ r.eof /\ Burst(ftp.expectedOffset, r.seq)
    <2>1. state' = "burst"
      BY <1>6 DEF Burst
    <2>2. ASSUME Paced PROVE Paced'
      <3>1. Own(r)
        BY <1>1, <2>2
      <3>2. server.lastReply.seq < r.seq + 2
        BY <1>0, <1>6, <3>1 DEF Own, UpTo
      <3>3. ftp.expectedOffset <= Size
        BY <2>2 DEF Paced
      <3> QED
        BY <1>6, <2>2, <3>1, <3>2, <3>3, NextBurstPaced
    <2> QED
      BY <2>1, <2>2, OnlyPaced
  <1>7. CASE ~r.ack /\ r.eof /\ r.seq = ftp.expectedSeq /\ Fills
    <2>1. ASSUME Paced
          PROVE  Seen(ftp) = 0 .. (Size - 1) /\ server.lastReply.seq < ftp.expectedSeq + 2
      <3>1. Own(r) /\ Size \in Nat
        BY <1>1, <2>1 DEF Places
      <3>2. Size - ftp.expectedOffset = r.seq - ftp.expectedSeq
        BY <1>7, <3>1 DEF Own, Answer
      <3>3. Size = ftp.expectedOffset
        BY <1>0, <1>7, <3>1, <3>2
      <3>4. Seen(ftp) = 0 .. (Size - 1)
        BY <3>3 DEF Places
      <3>5. r = server.lastReply
        BY <1>7, <3>1 DEF Own, UpTo
      <3> QED
        BY <1>0, <1>7, <3>4, <3>5
    <2> QED
      BY <1>7, <2>1, FillsPaced
  <1> QED
    BY <1>2, <1>3, <1>4, <1>5, <1>6, <1>7 DEF BurstMove, BlockMove

LEMMA FillMovePaced ==
    ASSUME FtpInv, FtpInv', Messages, Known, Places, OpenFile, ftp.index # -1,
           Onwards, state = "fill", NEW r, Arrives(r), FillMove(r)
    PROVE  StepInv' /\ CleanInv'
  <1>0. /\ ftp.expectedSeq \in Nat /\ r.seq \in Nat /\ r.seq = ftp.expectedSeq
    <2>1. r.seq = ftp.expectedSeq
      BY DEF Arrives
    <2> QED
      BY <2>1 DEF Messages
  <1>1. Paced => Own(r)
    BY ArrivesOwn
  <1>2. CASE Quits("Error saving file") \/ Quits("Download failed")
    BY <1>2, QuittingPaced DEF Quitting, OpenFile, Arrives
  <1>3. CASE r.ack /\ r.offset # ftp.expectedOffset /\ Read(ftp.expectedSeq - 2)
    <2>1. state' = "fill"
      BY <1>3 DEF Read
    <2>2. Paced => FALSE
      BY <1>1, <1>3 DEF Own, Answer
    <2> QED
      BY <2>1, <2>2, OnlyPaced
  <1>4. CASE Fills
    <2>1. ASSUME Paced
          PROVE  Seen(ftp) = 0 .. (Size - 1) /\ server.lastReply.seq < ftp.expectedSeq + 2
      <3>1. Seen(ftp) = 0 .. (Size - 1) /\ Answers /\ server.errMode # "BadSequence"
        BY <2>1 DEF Paced
      <3>2. server.lastReply # NoReply /\ server.lastReply.seq \in Nat
        BY <1>1, <2>1 DEF Own
      <3>3. Behind(server.lastReply) \/ server.lastReply.seq = ftp.expectedSeq
        <4>1. Behind(server.lastReply) \/ Answer(server.lastReply)
          BY <3>1, <3>2 DEF Answers, LastAnswer
        <4> QED
          BY <1>0, <3>1, <4>1 DEF Answer
      <3> QED
        BY <1>0, <3>1, <3>2, <3>3 DEF Behind
    <2> QED
      BY <1>4, <2>1, FillsPaced
  <1>5. CASE ~r.ack /\ r.eof /\ ResetSent(ftp.expectedSeq)
    <2>1. state' = "reset"
      BY <1>5 DEF ResetSent
    <2>2. Paced => FALSE
      BY <1>1, <1>5 DEF Own, Answer
    <2> QED
      BY <2>1, <2>2, OnlyPaced
  <1> QED
    BY <1>2, <1>3, <1>4, <1>5 DEF FillMove

-----------------------------------------------------------------------------
LEMMA ReceivePaced ==
    ASSUME Counts, FtpInv', Messages, Known, StepInv, CleanInv, OpenFile,
           ftp.index # -1 => Places, InStep' => InStep, InOrder' => InOrder,
           ReceiveMove(toGcs[1]), UNCHANGED <<started, refused, server, linkUp, spent>>
    PROVE  StepInv' /\ CleanInv'
  <1> DEFINE r == toGcs[1]
  <1>0. FtpInv /\ started' = started /\ server' = server
    BY DEF Counts
  <1>1. toGcs # <<>> /\ r \in AnswerType /\ toGcs' = Tail(toGcs)
    BY DEF ReceiveMove
  <1>2. FewerToGcs
    BY <1>1, ReceiveKeepsFew DEF FewerToGcs
  <1>3. CASE UNCHANGED <<ftp, results, toVehicle>>
    BY <1>0, <1>2, <1>3, StillPaced DEF FewerToVehicle
  <1>4. CASE Taken(r) /\ r.seq >= ftp.expectedSeq /\ AnswerMove(r)
    <2>1. ftp.index # -1 /\ r.opcode = OpcodeOf[state] /\ (state # "burst" => r.seq = ftp.expectedSeq)
      <3>1. state # "none"
        BY <1>4 DEF Taken
      <3>2. ftp.index # -1
        BY <1>0, <3>1, IdleOrBusy DEF FtpInv
      <3> QED
        BY <1>4, <3>2 DEF Taken, Expected
    <2>2. PICK x : x = r
      OBVIOUS
    <2>3. Arrives(x)
      BY <1>0, <1>1, <1>4, <2>1, <2>2 DEF Arrives
    <2>4. CASE state = "open"
      <3>1. CASE r.ack /\ Opens
        <4>1. x.opcode = "Open" /\ x.seq = ftp.expectedSeq /\ x.ack /\ x = toGcs[1]
          BY <2>1, <2>2, <2>4, <3>1 DEF OpcodeOf
        <4> QED
          BY <1>0, <1>1, <1>2, <2>1, <2>4, <3>1, <4>1, OpensPaced
      <3>2. CASE Quits("Download failed")
        <4>1. InStep /\ NoneBrokenOffBefore(ftp.path) => Answers /\ toVehicle = <<>>
          <5> SUFFICES ASSUME InStep, NoneBrokenOffBefore(ftp.path)
                       PROVE  Answers /\ toVehicle = <<>>
            OBVIOUS
          <5>1. Answers
            BY <2>4 DEF Known
          <5>2. x = toGcs[1] /\ x.seq >= ftp.expectedSeq
            BY <1>4, <2>2
          <5> QED
            BY <1>1, <5>1, <5>2, TakenAnswers
        <4> QED
          BY <1>0, <1>2, <2>1, <2>4, <3>2, <4>1, QuitPaced
      <3> QED
        BY <1>4, <2>4, <3>1, <3>2 DEF AnswerMove, OpenMove
    <2>5. CASE state = "burst" /\ BurstMove(x)
      <3>1. Onwards
        <4>1. ftp'.path = ftp.path /\ \A d \in DOMAIN Downloads : d # ftp.path => results'[d] = results[d]
          BY <2>5 DEF BurstMove, BlockMove, Fills, Rests, Quits, PassesOn, Burst, Read, ResetSent, Goes, Kept
        <4> QED
          BY <1>0, <4>1 DEF Onwards
      <3> QED
        BY <1>0, <2>1, <2>3, <2>5, <3>1, BurstMovePaced
    <2>6. CASE state = "fill" /\ FillMove(x)
      <3>1. Onwards
        <4>1. ftp'.path = ftp.path /\ \A d \in DOMAIN Downloads : d # ftp.path => results'[d] = results[d]
          BY <2>6 DEF FillMove, Fills, Quits, Read, ResetSent, Goes
        <4> QED
          BY <1>0, <4>1 DEF Onwards
      <3> QED
        BY <1>0, <2>1, <2>3, <2>6, <3>1, FillMovePaced
    <2>7. CASE state = "reset" /\ Quits("none")
      <3>1. InStep /\ NoneBrokenOffBefore(ftp.path) => Answers /\ toVehicle = <<>>
        <4> SUFFICES ASSUME InStep, NoneBrokenOffBefore(ftp.path)
                     PROVE  Answers /\ toVehicle = <<>>
          OBVIOUS
        <4>1. Paced
          BY DEF Known, OwnPackets
        <4>2. Own(x)
          BY <2>3, <2>7, <4>1, ArrivesOwn
        <4> QED
          BY <2>7, <4>1, <4>2 DEF Own, Paced
      <3> QED
        BY <1>0, <1>2, <2>1, <2>7, <3>1, QuitPaced
    <2>8. CASE state = "terminate" /\ Quits("Aborted")
      BY <1>0, <2>1, <2>8, QuittingPaced DEF Quitting, OpenFile
    <2> QED
      BY <1>4, <2>2, <2>4, <2>5, <2>6, <2>7, <2>8 DEF AnswerMove
  <1> QED
    BY <1>3, <1>4 DEF ReceiveMove

-----------------------------------------------------------------------------
(* The vehicle serves.                                                        *)
LEMMA ServePaced ==
    ASSUME FtpInv, Messages, Known, StepInv, CleanInv, ftp.index # -1 => Places,
           InStep' => InStep, InOrder' => InOrder, ServeMove
    PROVE  StepInv' /\ CleanInv'
  <1>1. /\ toVehicle # <<>> /\ toVehicle' = Tail(toVehicle)
        /\ UNCHANGED <<ftp, results, started, refused, linkUp, spent>>
    BY DEF ServeMove
  <1>2. state' = state /\ Onwards
    BY <1>1 DEF state, Onwards
  <1>3. Past
    BY <1>2, PastOwn
  <1>4. server'.errMode = server.errMode
    BY DEF ServeMove, Serves
  <1>5. ASSUME Answers, Sound
        PROVE  Answers'
    <2>1. state # "none"
      BY <1>5 DEF Sound
    <2>2. ftp.index # -1
      BY <2>1, IdleOrBusy DEF FtpInv
    <2>3. ftp.path \in DOMAIN Downloads
      BY <2>2 DEF FtpInv, ManagerInv, Downloading
    <2>4. ftp.expectedOffset \in Nat /\ Size \in Nat
      BY <2>2 DEF Places
    <2> QED
      BY <1>5, <2>3, <2>4, ServedAnswers
  <1>6. ASSUME Paced, state \in {"burst", "fill", "reset"}
        PROVE  Paced'
    <2>1. Answers /\ server.errMode # "BadSequence"
      BY <1>6 DEF Paced
    <2>2. ftp.index # -1
      BY <1>6, IdleOrBusy DEF FtpInv
    <2>3. Sound
      BY <1>6, <2>2 DEF Paced, Sound, Places
    <2>4. Answers'
      BY <1>5, <2>1, <2>3
    <2>5. state \in {"burst", "fill"} => server'.file = server.file
      <3>1. Asked(toVehicle[1])
        BY <1>1, <2>1 DEF Answers, OneAsked
      <3>2. state \in {"burst", "fill"} => toVehicle[1].opcode \in {"Burst", "Read"}
        BY <3>1 DEF Asked, OpcodeOf
      <3>3. state \in {"burst", "fill"} => FileAfter(toVehicle[1]) = server.file
        BY <3>2 DEF FileAfter
      <3> QED
        BY <3>3 DEF ServeMove, Serves
    <2> QED
      BY <1>1, <1>2, <1>4, <1>6, <2>1, <2>4, <2>5 DEF Paced, Size, Seen
  <1>7. StepInv'
    <2>1. InStep' /\ (OwnPackets(ftp.path))' => Paced
      BY <1>2, <1>3 DEF Past, Known, Onwards
    <2>2. state' \notin {"burst", "fill", "reset"} => Paced'
      BY DEF Paced
    <2> QED
      BY <1>2, <1>6, <2>1, <2>2 DEF StepInv
  <1>8. CleanInv'
    <2>1. ASSUME InStep', (NoneBrokenOffBefore(ftp.path))', state = "open"
          PROVE  Answers'
      <3>1. Answers
        BY <1>2, <1>3, <2>1 DEF Past, Known, Onwards
      <3>2. Sound
        BY <2>1 DEF Sound
      <3> QED
        BY <1>5, <3>1, <3>2
    <2>2. ASSUME InStep', (NoneBrokenOffBefore(started + 1))', state = "none"
          PROVE  FALSE
      <3>1. NoneBrokenOffBefore(started + 1)
        BY <1>1, <2>2 DEF NoneBrokenOffBefore
      <3>2. Cleared
        BY <2>2, <3>1 DEF CleanInv
      <3> QED
        BY <1>1, <3>2 DEF Cleared
    <2> QED
      BY <1>2, <2>1, <2>2 DEF CleanInv
  <1> QED
    BY <1>7, <1>8

-----------------------------------------------------------------------------
LEMMA PaceKeeps ==
    ASSUME Counts, FtpInv', OpenFile, OrderInv, StepInv, CleanInv, InStep',
           InStep' => InStep, InOrder' => InOrder, StepMove
    PROVE  StepInv' /\ CleanInv'
  <1>1. FtpInv /\ Messages /\ Known
    BY MessagesAre, WhatIsKnown DEF Counts
  <1>2. ftp.index # -1 => Places
    <2>1. state # "none" <=> ftp.index # -1
      BY <1>1, IdleOrBusy DEF FtpInv
    <2> QED
      BY <1>1, <2>1, PlacesAre
  <1>3. CASE DownloadMove
    BY <1>1, <1>3, DownloadPaced
  <1>4. CASE CancelMove
    <2>1. state' = "terminate"
      BY <1>4 DEF CancelMove, Terminates
    <2> QED
      BY <2>1 DEF StepInv, CleanInv, Paced
  <1>5. CASE TimeoutMove /\ state # "none" /\ EarlyOrDue
    <2>1. ftp.index # -1
      BY <1>1, <1>5, IdleOrBusy DEF FtpInv
    <2> QED
      BY <1>1, <1>2, <1>5, <2>1, TimeoutPaced
  <1>6. CASE ReceiveMove(toGcs[1]) /\ UNCHANGED <<started, refused, server, linkUp, spent>>
    BY <1>1, <1>2, <1>6, ReceivePaced
  <1>7. CASE ServeMove
    BY <1>1, <1>2, <1>7, ServePaced
  <1>8. CASE LoseMove
    <2>1. FewerToVehicle /\ FewerToGcs
      BY <1>8, ReceiveKeepsFew DEF LoseMove, FewerToVehicle, FewerToGcs
    <2> QED
      BY <1>1, <1>8, <2>1, StillPaced DEF LoseMove
  <1>9. CASE ReorderMove
    <2>1. Swapped(toGcs, toGcs')
      <3>1. toGcs \in Seq(GoodAnswer)
        BY <1>1 DEF Messages
      <3> QED
        BY <1>9, <3>1, SwapElements DEF ReorderMove
    <2>2. FewerToVehicle /\ FewerToGcs
      BY <1>9, <2>1 DEF ReorderMove, Swapped, FewerToVehicle, FewerToGcs
    <2> QED
      BY <1>1, <1>9, <2>2, StillPaced DEF ReorderMove
  <1>10. CASE UNCHANGED vars
    BY <1>1, <1>10, StillPaced DEF vars, FewerToVehicle, FewerToGcs
  <1> QED
    BY <1>3, <1>4, <1>5, <1>6, <1>7, <1>8, <1>9, <1>10 DEF StepMove

LEMMA PaceStarts ==
    ASSUME Init
    PROVE  OpenInv /\ OrderInv /\ StepInv /\ CleanInv
  <1>1. state = "none" /\ toVehicle = <<>> /\ toGcs = <<>> /\ server.lastReply = NoReply
    BY DEF Init, state
  <1>2. OpenInv /\ StepInv
    BY <1>1 DEF OpenInv, OpenFile, StepInv, Paced
  <1>3. CleanInv
    BY <1>1 DEF CleanInv, Cleared
  <1>4. OrderInv
    BY <1>1 DEF OrderInv, Ordered, OpensAsked, OpensReplied, OpensRemembered
  <1> QED
    BY <1>2, <1>3, <1>4

-----------------------------------------------------------------------------
(* All of it together.                                                        *)
OrderedInv == FtpInv /\ NumberInv /\ OpenInv /\ OrderInv /\ StepInv /\ CleanInv

LEMMA OrderStarts ==
    ASSUME Init
    PROVE  OrderedInv
  BY PaceStarts, NumbersStart, NothingStarted DEF OrderedInv

LEMMA OrderStays ==
    ASSUME Room, OrderedInv, FirstHalf, [Next]_vars
    PROVE  OrderedInv'
  <1>1. FtpInv' /\ NumberInv'
    BY StepKeeps, NumbersKeep DEF OrderedInv
  <1>2. /\ spent'.outages = 0 => spent.outages = 0
        /\ InOrder' => InOrder
        /\ InStep' => InStep
    BY OrderWas DEF OrderedInv
  <1>3. ASSUME spent'.outages = 0
        PROVE  Counts /\ OpenFile /\ StepMove /\ OpenFile'
    <2>1. spent.outages = 0
      BY <1>2, <1>3
    <2>2. Counts /\ OpenFile
      BY <2>1 DEF Counts, OrderedInv, NumberInv, OpenInv
    <2>3. StepMove
      BY <1>3, <2>2, StepMoves
    <2>4. OpenFile'
      BY <2>2, <2>3, OpenKeeps DEF OrderedInv
    <2> QED
      BY <2>2, <2>3, <2>4
  <1>4. OpenInv'
    BY <1>3 DEF OpenInv
  <1>5. OrderInv'
    <2> SUFFICES ASSUME InOrder' PROVE Ordered'
      BY DEF OrderInv
    <2>1. Counts /\ OpenFile /\ StepMove /\ Ordered
      BY <1>2, <1>3 DEF InOrder, OrderedInv, OrderInv
    <2> QED
      BY <1>1, <2>1, OrderKeeps
  <1>6. StepInv' /\ CleanInv'
    <2>1. CASE InStep'
      <3>1. Counts /\ OpenFile /\ StepMove
        BY <1>3, <2>1 DEF InStep
      <3> QED
        BY <1>1, <1>2, <2>1, <3>1, PaceKeeps DEF OrderedInv
    <2>2. CASE ~InStep'
      BY <2>2 DEF StepInv, CleanInv
    <2> QED
      BY <2>1, <2>2
  <1> QED
    BY <1>1, <1>4, <1>5, <1>6 DEF OrderedInv

-----------------------------------------------------------------------------
(* What is let through is about the file wanted.                              *)
LEMMA AnswersOurs ==
    ASSUME Room, OrderedInv, FirstHalf, OwnPackets(ftp.path)
    PROVE  AnswersAreOurs
  <1> SUFFICES ASSUME toGcs # <<>>, Taken(Head(toGcs)), Head(toGcs).ack
               PROVE  /\ state = "open" => Head(toGcs).size = Downloads[ftp.path].reported
                      /\ state \in {"burst", "fill"} => Head(toGcs).file = ftp.path
    BY DEF AnswersAreOurs
  <1>1. spent.outages = 0
    BY DEF OwnPackets, InOrder, InStep
  <1>2. Counts
    BY <1>1 DEF Counts, OrderedInv, NumberInv
  <1>3. Messages
    BY <1>2, MessagesAre
  <1>4. PICK r : r = Head(toGcs)
    OBVIOUS
  <1> DEFINE t == Tail(toGcs)
  <1>5. TailOf(toGcs, t)
    BY <1>3, TailElements DEF Messages
  <1>6. 1 \in DOMAIN toGcs /\ r = toGcs[1] /\ r \in AnswerType
    BY <1>3, <1>4, <1>5 DEF TailOf, Messages
  <1>7. /\ r.seq >= ftp.expectedSeq /\ (state # "burst" => r.seq = ftp.expectedSeq)
        /\ r.opcode = OpcodeOf[state]
    BY <1>2, <1>4, <1>6, TakenIsAhead DEF Taken, Expected
  <1>8. CASE InOrder
    <2>1. Ordered
      BY <1>8 DEF OrderedInv, OrderInv
    <2>2. state = "open" => r.size = Downloads[ftp.path].reported
      <3> SUFFICES ASSUME state = "open" PROVE r.size = Downloads[ftp.path].reported
        OBVIOUS
      <3>1. r.opcode = "Open" /\ r.seq = ftp.expectedSeq /\ ftp.expectedSeq \in Nat
        BY <1>3, <1>7 DEF OpcodeOf, Messages
      <3>2. OpenReplied(r, 1 = Len(toGcs))
        BY <1>6, <2>1, <3>1 DEF Ordered, OpensReplied
      <3> QED
        BY <1>4, <3>1, <3>2 DEF OpenReplied
    <2>3. state \in {"burst", "fill"} => r.file = ftp.path
      <3> SUFFICES ASSUME state \in {"burst", "fill"} PROVE r.file = ftp.path
        OBVIOUS
      <3>1. r.opcode \in {"Burst", "Read"}
        BY <1>7 DEF OpcodeOf
      <3>2. BlockIs(r, ftp.path)
        BY <1>6, <2>1 DEF Ordered, OneFile
      <3> QED
        BY <1>4, <3>1, <3>2 DEF BlockIs
    <2> QED
      BY <1>4, <2>2, <2>3
  <1>9. CASE InStep /\ NoneBrokenOffBefore(ftp.path)
    <2>1. state \in {"open", "burst", "fill"} => Answers
      BY <1>9 DEF OrderedInv, StepInv, CleanInv, Paced, OwnPackets
    <2>2. state \in {"open", "burst", "fill"} => Answer(r)
      <3>1. toGcs # <<>> /\ r = toGcs[1] /\ r.seq >= ftp.expectedSeq
        BY <1>6, <1>7
      <3> QED
        BY <1>3, <2>1, <3>1, TakenAnswers
    <2> QED
      BY <1>4, <2>2 DEF Answer
  <1> QED
    BY <1>8, <1>9 DEF OwnPackets

(* The account of a file that is filled, and of one that is read whole.       *)
LEMMA AccountInFull ==
    ASSUME OrderedInv, state \in {"fill", "reset"}, InStep, OwnPackets(ftp.path)
    PROVE  Accounted
  <1>1. Paced
    BY DEF OrderedInv, StepInv
  <1>2. OffsetsIn(ftp.local) \cup HolesIn(ftp.missing) = BlocksSeen
    BY <1>1 DEF Paced, Seen, Size, BlocksSeen
  <1>3. ftp.index # -1
    BY IdleOrBusy DEF OrderedInv, FtpInv
  <1>4. Account(ftp, Blocks, Nat) /\ Busy(ftp)
    BY <1>3 DEF OrderedInv, FtpInv, ManagerInv, Downloading
  <1>5. Solid(ftp)
    <2>1. In(ftp, 2) \/ In(ftp, 3)
      BY <1>4, StateNames
    <2> QED
      BY <1>4, <2>1 DEF Account, In, Reading
  <1> QED
    BY <1>2, <1>5 DEF Accounted, Solid

(* In every state before the numbers have gone half way round the account is  *)
(* in full.  While bursts are read what is written and the holes are together *)
(* what lies before the offset expected, whatever happens; while holes are    *)
(* filled, and until the end, the whole file, as long as no timeout is early  *)
(* and no outage comes; and an answer let through is about the file wanted    *)
(* unless an earlier download, broken off, has left packets that overtake.    *)
THEOREM FullAccount ==
    ASSUME Room
    PROVE  Spec /\ []FirstHalf => []EveryBlockAccountedFor
  <1>1. Init => OrderedInv
    BY OrderStarts
  <1>2. OrderedInv /\ FirstHalf /\ [Next]_vars => OrderedInv'
    BY OrderStays
  <1>3. ASSUME OrderedInv, FirstHalf
        PROVE  BurstAccount => EveryBlockAccountedFor
    BY <1>3, AnswersOurs, AccountInFull DEF BurstAccount, EveryBlockAccountedFor
  <1>4. Spec => []BurstAccount
    BY BurstsAreAccountedFor
  <1> QED
    BY <1>1, <1>2, <1>3, <1>4, PTL DEF Spec

-----------------------------------------------------------------------------
(* Retries are paid for with losses: with no more than those counted a        *)
(* request or the last answer to it is on its way.                            *)
AnswerComes ==
    \/ toVehicle # <<>>
    \/ /\ server.lastReply # NoReply /\ ~Behind(server.lastReply)
       /\ \E i \in DOMAIN toGcs : toGcs[i] = server.lastReply

Lossy(d) ==
    /\ InStep /\ OwnPackets(d) /\ spent.cancels = 0
    /\ server.errMode = "None"
PaidFor == ftp.retryCount + (IF AnswerComes THEN 0 ELSE 1) <= spent.losses
RetryInv == Lossy(ftp.path) /\ state \in {"burst", "fill"} => PaidFor

(* What was paid for and still comes.                                         *)
LEMMA StillPaidFor ==
    ASSUME PaidFor, ftp.retryCount \in Nat, spent.losses \in Nat, spent'.losses \in Nat,
           spent.losses <= spent'.losses, ftp'.retryCount = ftp.retryCount,
           AnswerComes => AnswerComes'
    PROVE  PaidFor'
  BY DEF PaidFor

LEMMA NewlyPaidFor ==
    ASSUME spent'.losses \in Nat, toVehicle' # <<>>, ftp'.retryCount <= spent'.losses,
           ftp'.retryCount \in Nat
    PROVE  PaidFor'
  BY DEF PaidFor, AnswerComes

LEMMA AppendedComes ==
    ASSUME NEW S, toVehicle \in Seq(S), NEW q, toVehicle' = Append(toVehicle, q)
    PROVE  toVehicle' # <<>>
  <1>1. MoreThan(toVehicle, toVehicle', q)
    BY AppendElements
  <1> QED
    BY <1>1 DEF MoreThan

(* An answer not behind and not far ahead is not taken for an old one.        *)
LEMMA AheadIsNotOld ==
    ASSUME Counts, NEW n \in Nat, n >= ftp.expectedSeq, n < ftp.expectedSeq + 2 * BurstMax
    PROVE  ~Old(n)
  <1> DEFINE m == ftp.expectedSeq - 1 - n
  <1>1. /\ ftp.expectedSeq \in Nat /\ SeqNumbers \in Nat /\ BurstMax \in Nat
        /\ 4 * (BurstMax + 1) <= SeqNumbers
    BY NumbersAreFar DEF Counts, Room
  <1>2. m \in Int /\ m + SeqNumbers >= SeqNumbers - 2 * BurstMax /\ m < 0
        /\ 0 <= m + SeqNumbers /\ m + SeqNumbers < SeqNumbers
    BY <1>1
  <1> HIDE DEF m
  <1>3. m % SeqNumbers = m + SeqNumbers
    BY <1>1, <1>2
  <1>4. (SeqNumbers - 1) \div 2 <= SeqNumbers - 2 * BurstMax
    BY <1>1
  <1>5. ~(m % SeqNumbers < (SeqNumbers - 1) \div 2)
    BY <1>1, <1>2, <1>3, <1>4
  <1> QED
    BY <1>5 DEF m, Old

(* The last answer is let through when it comes.                              *)
LEMMA LastIsTaken ==
    ASSUME Counts, Messages, Paced, state \in {"burst", "fill"}, server.errMode = "None",
           server.lastReply # NoReply, ~Behind(server.lastReply)
    PROVE  Taken(server.lastReply)
  <1> DEFINE r == server.lastReply
  <1>1. r.seq \in Nat /\ ftp.expectedSeq \in Nat /\ r.seq < ftp.expectedSeq + 2 * BurstMax
    BY DEF Messages, Counts, Numbered
  <1>2. r.seq >= ftp.expectedSeq
    BY <1>1 DEF Behind
  <1>3. ~Old(r.seq)
    BY <1>1, <1>2, AheadIsNotOld
  <1>4. Answer(r)
    BY DEF Paced, Answers, LastAnswer
  <1>5. r.opcode = OpcodeOf[state] /\ (state # "burst" => r.seq = ftp.expectedSeq)
    BY <1>1, <1>4 DEF Answer
  <1> QED
    BY <1>3, <1>5 DEF Taken, Expected

(* Something is taken off the way from the vehicle that is not that answer.   *)
LEMMA StillComes ==
    ASSUME Messages, toGcs # <<>>, toGcs' = Tail(toGcs), toVehicle' = toVehicle,
           server' = server, ftp'.expectedSeq \in Nat, AnswerComes,
           toVehicle = <<>> /\ server.lastReply # NoReply /\ ~Behind(server.lastReply) =>
               server.lastReply # toGcs[1] /\ server.lastReply.seq >= ftp'.expectedSeq
    PROVE  AnswerComes'
  <1>1. CASE toVehicle # <<>>
    BY <1>1 DEF AnswerComes
  <1>2. CASE toVehicle = <<>>
    <2>1. /\ server.lastReply # NoReply /\ ~Behind(server.lastReply)
          /\ \E i \in DOMAIN toGcs : toGcs[i] = server.lastReply
      BY <1>2 DEF AnswerComes
    <2>2. server.lastReply # toGcs[1] /\ server.lastReply.seq >= ftp'.expectedSeq
          /\ server.lastReply.seq \in Nat
      BY <1>2, <2>1 DEF Messages
    <2>3. PICK i \in DOMAIN toGcs : toGcs[i] = server.lastReply
      BY <2>1
    <2>4. TailOf(toGcs, toGcs')
      BY TailElements DEF Messages
    <2>5. i # 1
      BY <2>2, <2>3
    <2>6. i - 1 \in DOMAIN toGcs' /\ toGcs'[i - 1] = server.lastReply
      BY <2>3, <2>4, <2>5 DEF TailOf
    <2>7. ~(server'.lastReply.seq < ftp'.expectedSeq)
      BY <2>2
    <2> QED
      BY <2>1, <2>6, <2>7 DEF AnswerComes, Behind
  <1> QED
    BY <1>1, <1>2

-----------------------------------------------------------------------------
Counters ==
    /\ ftp.retryCount \in Nat /\ ftp'.retryCount \in Nat /\ ftp'.expectedSeq \in Nat
    /\ spent.losses \in Nat /\ spent'.losses \in Nat /\ spent.losses <= spent'.losses

LEMMA CountsAre ==
    ASSUME FtpInv, FtpInv', [Next]_vars
    PROVE  Counters
  <1>1. ftp \in FtpType /\ ftp' \in FtpType
    BY DEF FtpInv, ManagerInv
  <1>2. /\ ftp.retryCount \in Nat /\ ftp'.retryCount \in Nat /\ ftp'.expectedSeq \in Nat
    BY <1>1, FtpAssumption DEF FtpType, Numbers
  <1>3. Grows(spent.losses, spent'.losses)
    BY SpentGrows
  <1> QED
    BY <1>2, <1>3 DEF Counters, Grows

LEMMA GoesPaidFor ==
    ASSUME Messages, Counters, NEW opcode, NEW offset, NEW n, Goes(opcode, offset, n),
           ftp'.retryCount <= spent'.losses
    PROVE  PaidFor'
  <1>1. toVehicle' # <<>>
    <2>1. PICK q : toVehicle' = Append(toVehicle, q)
      BY DEF Goes
    <2> QED
      BY <2>1, AppendedComes DEF Messages
  <1> QED
    BY <1>1, NewlyPaidFor DEF Counters

LEMMA TimeoutPaid ==
    ASSUME Messages, Counters, TimeoutMove, EarlyOrDue, InStep', state' \in {"burst", "fill"},
           Lossy(ftp.path) /\ state \in {"burst", "fill"} => PaidFor, Lossy(ftp.path)
    PROVE  PaidFor'
  <1>1. toVehicle = <<>> /\ toGcs = <<>> /\ spent' = spent
    BY DEF EarlyOrDue, InFlight
  <1>2. ~AnswerComes
    BY <1>1 DEF AnswerComes
  <1>3. state \in {"burst", "fill"} => ftp.retryCount + 1 <= spent.losses
    BY <1>2 DEF PaidFor
  <1>4. \/ /\ state = "burst" /\ Burst(ftp.expectedOffset, ftp.expectedSeq - 2)
           /\ ftp'.retryCount = ftp.retryCount + 1
        \/ /\ state = "fill" /\ Read(ftp.expectedSeq - 2)
           /\ ftp'.retryCount = ftp.retryCount + 1
    BY DEF TimeoutMove, Quits, Terminates
  <1>5. ftp'.retryCount <= spent'.losses
    BY <1>1, <1>3, <1>4
  <1>6. PICK o : o = ftp'.expectedOffset
    OBVIOUS
  <1>7. \/ Goes("Burst", ftp.expectedOffset, ftp.expectedSeq - 2)
        \/ Goes("Read", o, ftp.expectedSeq - 2)
    BY <1>4, <1>6 DEF Burst, Read
  <1> QED
    BY <1>5, <1>7, GoesPaidFor

(* A block is taken, and the burst goes on: the last answer is another.        *)
LEMMA PassedPaid ==
    ASSUME Messages, Counters, NEW r, Arrives(r), Own(r), Paced, PaidFor,
           state = "burst", server.errMode = "None", r.ack, ~r.burstComplete, PassesOn(r)
    PROVE  PaidFor'
  <1>1. /\ ftp'.retryCount = ftp.retryCount /\ toVehicle' = toVehicle
        /\ ftp'.expectedSeq = r.seq + 1 /\ r.seq \in Nat
    BY ArrivesFirst DEF PassesOn
  <1>2. /\ server' = server /\ toGcs # <<>> /\ r = toGcs[1] /\ toGcs' = Tail(toGcs)
    BY DEF Arrives
  <1>3. server.lastReply # NoReply /\ ~Behind(server.lastReply) =>
            server.lastReply # r /\ server.lastReply.seq >= ftp'.expectedSeq
    <2> SUFFICES ASSUME server.lastReply # NoReply, ~Behind(server.lastReply)
                 PROVE  server.lastReply # r /\ server.lastReply.seq >= ftp'.expectedSeq
      OBVIOUS
    <2>1. Final(server.lastReply)
      BY DEF Paced, Answers, LastAnswer
    <2>2. server.lastReply # r
      BY <2>1 DEF Final
    <2>3. /\ r.seq <= server.lastReply.seq /\ r.seq # server.lastReply.seq
          /\ server.lastReply.seq \in Nat
      BY <2>2 DEF Own, UpTo
    <2> QED
      BY <1>1, <2>2, <2>3
  <1>4. AnswerComes => AnswerComes'
    BY <1>1, <1>2, <1>3, StillComes DEF Counters
  <1> QED
    BY <1>1, <1>4, StillPaidFor DEF Counters

LEMMA FillsGoes ==
    ASSUME Messages, Counters, Fills, state' \in {"burst", "fill"}
    PROVE  PaidFor'
  <1>1. Read(ftp.expectedSeq) /\ ftp'.retryCount = 0
    BY DEF Fills, ResetSent, Quits
  <1>2. PICK o : o = ftp'.expectedOffset
    OBVIOUS
  <1>3. Goes("Read", o, ftp.expectedSeq)
    BY <1>1, <1>2 DEF Read
  <1>4. ftp'.retryCount <= spent'.losses
    BY <1>1 DEF Counters
  <1> QED
    BY <1>3, <1>4, GoesPaidFor

LEMMA TakenPaid ==
    ASSUME Counts, Messages, Counters, NEW r, Arrives(r), AnswerMove(r),
           state' \in {"burst", "fill"}, server.errMode = "None",
           state \in {"burst", "fill"} => Paced /\ PaidFor
    PROVE  PaidFor'
  <1>1. state \in {"burst", "fill"} => Own(r)
    BY ArrivesOwn
  <1>2. 0 <= spent'.losses
    BY DEF Counters
  <1>3. CASE state = "open"
    <2>1. Opens
      BY <1>3 DEF AnswerMove, OpenMove, Quits
    <2>2. toVehicle' # <<>>
      <3>1. PICK q : toVehicle' = Append(toVehicle, q)
        BY <2>1 DEF Opens
      <3> QED
        BY <3>1, AppendedComes DEF Messages
    <2> QED
      BY <1>2, <2>1, <2>2, NewlyPaidFor DEF Opens, Counters
  <1>4. CASE state = "burst" /\ BurstMove(r)
    <2>1. Own(r) /\ Paced /\ PaidFor /\ Answer(r)
      BY <1>1, <1>4 DEF Own
    <2>2. CASE r.ack /\ r.offset < ftp.expectedOffset /\ Rests
      <3>1. /\ r.offset - ftp.expectedOffset = r.seq - ftp.expectedSeq
            /\ r.seq >= ftp.expectedSeq /\ r.offset \in Nat
        BY <1>4, <2>1, <2>2 DEF Answer, Arrives, AnswerType
      <3>2. r.seq \in Nat /\ ftp.expectedSeq \in Nat /\ ftp.expectedOffset \in Nat
        <4>1. ftp.index # -1 /\ FtpInv
          BY <1>4, IdleOrBusy DEF Counts, FtpInv
        <4>2. Places
          BY <1>4, <4>1, PlacesAre
        <4> QED
          BY <4>2, ArrivesFirst DEF Places, Messages
      <3> QED
        BY <2>2, <3>1, <3>2
    <2>3. CASE r.ack /\ ~r.burstComplete /\ PassesOn(r)
      BY <1>4, <2>1, <2>3, PassedPaid
    <2>4. CASE Fills
      BY <2>4, FillsGoes
    <2>5. ASSUME NEW offset, Burst(offset, r.seq), ftp'.retryCount = 0
          PROVE  PaidFor'
      <3>1. Goes("Burst", offset, r.seq)
        BY <2>5 DEF Burst
      <3>2. ftp'.retryCount <= spent'.losses
        BY <1>2, <2>5
      <3> QED
        BY <3>1, <3>2, GoesPaidFor
    <2> QED
      BY <1>4, <2>2, <2>3, <2>4, <2>5 DEF BurstMove, BlockMove, Quits
  <1>5. CASE state = "fill" /\ FillMove(r)
    <2>1. Answer(r)
      BY <1>1, <1>5 DEF Own
    <2>2. r.ack => r.offset = ftp.expectedOffset
      BY <1>5, <2>1 DEF Answer
    <2>3. Fills
      BY <1>5, <2>2 DEF FillMove, Quits, ResetSent
    <2> QED
      BY <2>3, FillsGoes
  <1> QED
    BY <1>3, <1>4, <1>5 DEF AnswerMove, Quits

-----------------------------------------------------------------------------
(* An answer is dropped, lost, or overtaken.                                   *)
LEMMA DroppedPaid ==
    ASSUME Counts, Messages, Counters, Paced, PaidFor, state \in {"burst", "fill"},
           server.errMode = "None", toGcs # <<>>, ~Taken(toGcs[1]), toGcs' = Tail(toGcs),
           UNCHANGED <<ftp, toVehicle, server>>
    PROVE  PaidFor'
  <1>1. server.lastReply # NoReply /\ ~Behind(server.lastReply) =>
            server.lastReply # toGcs[1] /\ server.lastReply.seq >= ftp'.expectedSeq
    <2> SUFFICES ASSUME server.lastReply # NoReply, ~Behind(server.lastReply)
                 PROVE  server.lastReply # toGcs[1] /\ server.lastReply.seq >= ftp'.expectedSeq
      OBVIOUS
    <2>1. Taken(server.lastReply)
      BY LastIsTaken
    <2>2. server.lastReply.seq \in Nat /\ ftp.expectedSeq \in Nat
      BY DEF Messages
    <2> QED
      BY <2>1, <2>2 DEF Behind
  <1>2. AnswerComes => AnswerComes'
    BY <1>1, StillComes DEF Counters
  <1> QED
    BY <1>2, StillPaidFor DEF Counters

LEMMA LostPaid ==
    ASSUME Counters, PaidFor, ftp' = ftp, spent'.losses = spent.losses + 1
    PROVE  PaidFor'
  BY DEF PaidFor, Counters

LEMMA SwappedPaid ==
    ASSUME Counters, PaidFor, UNCHANGED <<ftp, server, toVehicle>>, Swapped(toGcs, toGcs')
    PROVE  PaidFor'
  <1>1. AnswerComes => AnswerComes'
    BY DEF AnswerComes, Swapped, Behind
  <1> QED
    BY <1>1, StillPaidFor DEF Counters

(* The vehicle serves the request, which is the one asked for.                 *)
LEMMA ServedPaid ==
    ASSUME Messages, Counters, Paced, PaidFor, state \in {"burst", "fill"},
           server.errMode = "None", ServeMove
    PROVE  PaidFor'
  <1> DEFINE q == toVehicle[1]
  <1>1. /\ toVehicle # <<>> /\ ftp' = ftp
        /\ ftp.expectedSeq \in Nat /\ toGcs \in Seq(GoodAnswer)
    BY DEF ServeMove, Messages
  <1>2. q.seq = ftp.expectedSeq - 1
    BY <1>1 DEF Paced, Answers, OneAsked, Asked
  <1>3. AnswerComes
    BY <1>1 DEF AnswerComes
  <1>4. CASE Repeated(q) /\ toGcs' = Append(toGcs, server.lastReply) /\ server' = server
    <2>1. MoreThan(toGcs, toGcs', server.lastReply)
      BY <1>1, <1>4, AppendElements
    <2>2. Len(toGcs') \in DOMAIN toGcs' /\ toGcs'[Len(toGcs')] = server.lastReply
      BY <2>1 DEF MoreThan
    <2>3. server.lastReply # NoReply /\ q.seq = server.lastReply.seq - 1
      BY <1>4 DEF Repeated
    <2>4. server.lastReply.seq \in Nat
      BY <2>3 DEF Messages
    <2>5. ~(server.lastReply.seq < ftp.expectedSeq)
      BY <1>1, <1>2, <2>3, <2>4
    <2>6. AnswerComes'
      BY <1>1, <1>4, <2>2, <2>3, <2>5 DEF AnswerComes, Behind
    <2> QED
      BY <1>1, <2>6, StillPaidFor DEF Counters
  <1>5. ASSUME NEW rs, Serves(rs)
        PROVE  PaidFor'
    <2>1. /\ rs \in Seq(GoodAnswer) /\ RepliesTo(rs, q) /\ toGcs' = toGcs \o rs
          /\ server'.lastReply = IF rs = <<>> THEN server.lastReply ELSE rs[Len(rs)]
      BY <1>5 DEF Serves
    <2>2. rs # <<>>
      <3>1. ASSUME NEW r, rs = <<r>> PROVE rs # <<>>
        BY <3>1
      <3>2. BurstReplies(rs, q) => rs # <<>>
        BY DEF BurstReplies
      <3> QED
        BY <2>1, <3>1, <3>2 DEF RepliesTo
    <2>3. Len(rs) \in DOMAIN rs
      BY <2>1, <2>2
    <2>4. PICK k \in 1 .. BurstMax : ReplyTo(rs[Len(rs)], q, k)
      BY <2>1, <2>3, RepliesAreTo
    <2>5. PICK last : last = rs[Len(rs)]
      OBVIOUS
    <2>6. server'.lastReply = last /\ last \in AnswerType /\ last.seq = q.seq + k * Stride
      BY <2>1, <2>2, <2>4, <2>5 DEF ReplyTo
    <2>7. last # NoReply
      <3>1. "seq" \in DOMAIN last /\ DOMAIN NoReply = {}
        BY <2>6 DEF AnswerType, NoReply
      <3> QED
        BY <3>1
    <2>8. ~(last.seq < ftp.expectedSeq)
      <3>1. Stride = 1
        BY DEF Stride
      <3>2. k \in Nat /\ k >= 1
        BY FtpAssumption
      <3> QED
        BY <1>1, <1>2, <2>6, <3>1, <3>2
    <2>9. Joined(toGcs, rs, toGcs')
      BY <1>1, <2>1, ConcatElements
    <2>10. Len(toGcs) + Len(rs) \in DOMAIN toGcs' /\ toGcs'[Len(toGcs) + Len(rs)] = last
      BY <2>3, <2>5, <2>9 DEF Joined
    <2>11. AnswerComes'
      BY <1>1, <2>6, <2>7, <2>8, <2>10 DEF AnswerComes, Behind
    <2> QED
      BY <1>1, <2>11, StillPaidFor DEF Counters
  <1> QED
    BY <1>4, <1>5 DEF ServeMove

-----------------------------------------------------------------------------
(* Reports are only added, one to a download that has none.                    *)
Adds == \A d \in DOMAIN Downloads : results'[d] = results[d] \/ results[d] = <<>>

LEMMA QuitsAdds ==
    ASSUME FtpInv, ftp.index # -1, NEW error, Quits(error)
    PROVE  Adds
  <1>1. ftp.path \in DOMAIN Downloads /\ Len(results[ftp.path]) = 0
    BY DEF FtpInv, ManagerInv, Downloading, Reported
  <1>2. results[ftp.path] = <<>>
    BY <1>1 DEF FtpInv, ManagerInv
  <1> QED
    BY <1>2 DEF Adds, Quits

LEMMA StepAdds ==
    ASSUME Counts, StepMove
    PROVE  Adds
  <1>0. FtpInv
    BY DEF Counts
  <1>1. results' = results => Adds
    BY DEF Adds
  <1>2. state # "none" => ftp.index # -1
    BY DEF state
  <1>3. ASSUME NEW error, Quits(error), state # "none"
        PROVE  Adds
    BY <1>0, <1>2, <1>3, QuitsAdds
  <1>4. CASE TimeoutMove /\ state # "none"
    BY <1>1, <1>3, <1>4 DEF TimeoutMove, Burst, Read, Terminates, Goes
  <1>5. ASSUME NEW r, AnswerMove(r), state # "none"
        PROVE  Adds
    BY <1>1, <1>3, <1>5 DEF AnswerMove, OpenMove, Opens, BurstMove, BlockMove, FillMove, Fills,
                            Rests, PassesOn, Burst, Read, ResetSent, Goes
  <1>6. CASE ReceiveMove(toGcs[1])
    BY <1>1, <1>5, <1>6 DEF ReceiveMove, Taken
  <1> QED
    BY <1>1, <1>4, <1>6 DEF StepMove, DownloadMove, CancelMove, Terminates, Goes, ServeMove,
                            LoseMove, ReorderMove, vars

LEMMA OwnWas ==
    ASSUME FtpInv, [Next]_vars, Adds, NEW d \in 0 .. Len(Downloads)
    PROVE  (OwnPackets(d))' => OwnPackets(d)
  <1>1. \A e \in 1 .. (d - 1) : e \in DOMAIN Downloads
    BY FtpAssumption
  <1>2. (NoneBrokenOffBefore(d))' => NoneBrokenOffBefore(d)
    BY <1>1 DEF NoneBrokenOffBefore, Adds
  <1> QED
    BY <1>2, OrderWas DEF OwnPackets

(* What made a state lossy, and no more, did so before.                        *)
LEMMA LossyWas ==
    ASSUME FtpInv, [Next]_vars, Adds, NEW d \in 0 .. Len(Downloads),
           server'.errMode = server.errMode
    PROVE  (Lossy(d))' => Lossy(d)
  BY OwnWas, OrderWas DEF Lossy

LEMMA PathInRange ==
    ASSUME FtpInv
    PROVE  ftp.path \in 0 .. Len(Downloads)
  BY FtpAssumption DEF FtpInv, ManagerInv, LinkInv

LEMMA RetryKeeps ==
    ASSUME Counts, FtpInv', [Next]_vars, StepMove, StepInv, RetryInv
    PROVE  RetryInv'
  <1> SUFFICES ASSUME (Lossy(ftp.path))', state' \in {"burst", "fill"}
               PROVE  PaidFor'
    BY DEF RetryInv
  <1>1. FtpInv /\ Messages /\ Adds /\ Counters
    BY MessagesAre, StepAdds, CountsAre DEF Counts
  <1>2. server'.errMode = server.errMode
    BY DEF StepMove, DownloadMove, CancelMove, EarlyOrDue, ServeMove, Serves, LoseMove,
           ReorderMove, vars
  <1>3. ASSUME ftp'.path = ftp.path
        PROVE  Lossy(ftp.path) /\ server.errMode = "None" /\ InStep'
    <2>1. PICK p : p = ftp.path
      OBVIOUS
    <2>2. p \in 0 .. Len(Downloads)
      BY <1>1, <2>1, PathInRange
    <2>3. (Lossy(p))'
      <3>1. p = ftp'.path
        BY <1>3, <2>1
      <3> QED
        BY <3>1
    <2>4. Lossy(p)
      BY <1>1, <1>2, <2>2, <2>3, LossyWas
    <2> QED
      BY <2>1, <2>3, <2>4 DEF Lossy
  <1>4. ASSUME ftp'.path = ftp.path, state \in {"burst", "fill"}
        PROVE  Paced /\ PaidFor
    BY <1>3, <1>4 DEF RetryInv, StepInv, Lossy
  <1>5. CASE UNCHANGED <<ftp, toVehicle, toGcs, server, spent>>
    <2>1. state' = state
      BY <1>5 DEF state
    <2>2. PaidFor
      BY <1>4, <1>5, <2>1
    <2>3. AnswerComes' <=> AnswerComes
      BY <1>5 DEF AnswerComes, Behind
    <2> QED
      BY <1>5, <2>2, <2>3 DEF PaidFor
  <1>6. CASE DownloadMove
    <2>1. UNCHANGED <<ftp, toVehicle>>
      BY <1>6 DEF DownloadMove
    <2> QED
      BY <1>5, <1>6, <2>1 DEF DownloadMove
  <1>7. CASE CancelMove
    BY <1>7 DEF CancelMove, Terminates
  <1>8. CASE TimeoutMove /\ state # "none" /\ EarlyOrDue
    <2>1. ftp'.path = ftp.path
      BY <1>8 DEF TimeoutMove, Burst, Read, Terminates, Goes, Quits
    <2> QED
      BY <1>1, <1>3, <1>4, <1>8, <2>1, TimeoutPaid
  <1>9. CASE ReceiveMove(toGcs[1]) /\ UNCHANGED <<started, refused, server, linkUp, spent>>
    <2>1. toGcs # <<>> /\ toGcs[1] \in AnswerType /\ toGcs' = Tail(toGcs)
      BY <1>9 DEF ReceiveMove
    <2>2. CASE ~Taken(toGcs[1]) /\ UNCHANGED <<ftp, results, toVehicle>>
      <3>1. state' = state /\ ftp'.path = ftp.path
        BY <2>2 DEF state
      <3> QED
        BY <1>1, <1>3, <1>4, <1>9, <2>1, <2>2, <3>1, DroppedPaid
    <2>3. CASE Taken(toGcs[1]) /\ toGcs[1].seq >= ftp.expectedSeq /\ AnswerMove(toGcs[1])
      <3>1. PICK r : r = toGcs[1]
        OBVIOUS
      <3>2. Arrives(r) /\ AnswerMove(r)
        BY <1>9, <2>1, <2>3, <3>1 DEF Arrives, Taken, Expected
      <3>3. ftp'.path = ftp.path
        BY <3>2 DEF AnswerMove, OpenMove, Opens, BurstMove, BlockMove, FillMove, Fills, Rests,
                    Kept, PassesOn, Burst, Read, ResetSent, Goes, Quits
      <3> QED
        BY <1>1, <1>3, <1>4, <3>2, <3>3, TakenPaid
    <2> QED
      BY <1>9, <2>2, <2>3 DEF ReceiveMove
  <1>10. ASSUME UNCHANGED ftp
         PROVE  state \in {"burst", "fill"} /\ Paced /\ PaidFor /\ server.errMode = "None"
    <2>1. state' = state /\ ftp'.path = ftp.path
      BY <1>10 DEF state
    <2> QED
      BY <1>3, <1>4, <2>1
  <1>11. CASE ServeMove
    BY <1>1, <1>10, <1>11, ServedPaid DEF ServeMove
  <1>12. CASE LoseMove
    BY <1>1, <1>10, <1>12, LostPaid DEF LoseMove
  <1>13. CASE ReorderMove
    <2>1. Swapped(toGcs, toGcs')
      <3>1. toGcs \in Seq(GoodAnswer)
        BY <1>1 DEF Messages
      <3> QED
        BY <1>13, <3>1, SwapElements DEF ReorderMove
    <2> QED
      BY <1>1, <1>10, <1>13, <2>1, SwappedPaid DEF ReorderMove
  <1> QED
    BY <1>5, <1>6, <1>7, <1>8, <1>9, <1>11, <1>12, <1>13 DEF StepMove, vars

-----------------------------------------------------------------------------
(* What is reported of a download, by what quits it while timeouts are due.   *)
Refuses(r) ==
    \/ TooShort(ftp) /\ (state = "burst" => ~r.ack /\ r.eof /\ r.seq = ftp.expectedSeq)
    \/ state = "burst" /\ ~r.ack /\ ~r.eof
    \/ state = "fill" /\ (~r.ack \/ r.offset # ftp.expectedOffset)

Fails ==
    \/ state \in {"open", "terminate"}
    \/ /\ state \in {"burst", "fill"} /\ ftp.retryCount = MaxRetry
       /\ ~InFlight /\ spent' = spent
    \/ state \in {"burst", "fill"} /\ \E r : Arrives(r) /\ Refuses(r)

QuitsFor(error) ==
    /\ state # "none" /\ Quits(error)
    /\ error = "none" => state = "reset"
    /\ error = "Download failed" => Fails

LEMMA StepReports ==
    ASSUME Counts, StepMove, InStep'
    PROVE  results' = results \/ \E error : QuitsFor(error)
  <1>1. CASE TimeoutMove /\ state # "none" /\ EarlyOrDue
    <2>1. ~InFlight /\ spent' = spent
      BY <1>1 DEF EarlyOrDue
    <2>2. ASSUME Quits("Download failed"), state \in {"burst", "fill"}, ftp.retryCount = MaxRetry
          PROVE  QuitsFor("Download failed")
      BY <2>1, <2>2 DEF QuitsFor, Fails
    <2>3. ASSUME Quits("Download failed"), state \in {"open", "terminate"}
          PROVE  QuitsFor("Download failed")
      BY <2>3 DEF QuitsFor, Fails
    <2>4. ASSUME Quits("none"), state = "reset"
          PROVE  QuitsFor("none")
      BY <2>4 DEF QuitsFor
    <2>5. results' = results \/ QuitsFor("Download failed") \/ QuitsFor("none")
      BY <1>1, <2>2, <2>3, <2>4 DEF TimeoutMove, Burst, Read, Terminates, Goes
    <2> QED
      BY <2>5
  <1>2. CASE ReceiveMove(toGcs[1]) /\ UNCHANGED <<started, refused, server, linkUp, spent>>
    <2>1. CASE UNCHANGED results
      BY <2>1
    <2>2. CASE Taken(toGcs[1]) /\ toGcs[1].seq >= ftp.expectedSeq /\ AnswerMove(toGcs[1])
      <3>1. PICK r : r = toGcs[1]
        OBVIOUS
      <3>2. Arrives(r) /\ AnswerMove(r) /\ state # "none"
        BY <1>2, <2>2, <3>1 DEF ReceiveMove, Arrives, Taken, Expected
      <3>3. CASE state = "open"
        <4>1. results' = results \/ Quits("Download failed")
          BY <3>2, <3>3 DEF AnswerMove, OpenMove, Opens
        <4>2. Quits("Download failed") => QuitsFor("Download failed")
          BY <3>3 DEF QuitsFor, Fails
        <4> QED
          BY <4>1, <4>2
      <3>4. ASSUME Fills, state \in {"burst", "fill"},
                   state = "burst" => ~r.ack /\ r.eof /\ r.seq = ftp.expectedSeq
            PROVE  results' = results \/ QuitsFor("Download failed")
        BY <3>2, <3>4 DEF Fills, Read, ResetSent, Goes, QuitsFor, Fails, Refuses
      <3>5. CASE state = "burst" /\ BurstMove(r)
        <4>1. CASE Fills /\ ~r.ack /\ r.eof /\ r.seq = ftp.expectedSeq
          BY <3>4, <3>5, <4>1
        <4>2. CASE ~r.ack /\ ~r.eof /\ Quits("Download failed")
          <5>1. Arrives(r) /\ Refuses(r)
            BY <3>2, <3>5, <4>2 DEF Refuses
          <5>2. QuitsFor("Download failed")
            BY <3>5, <4>2, <5>1 DEF QuitsFor, Fails
          <5> QED
            BY <5>2
        <4>3. CASE Quits("Error saving file")
          <5>1. QuitsFor("Error saving file")
            BY <3>2, <4>3 DEF QuitsFor
          <5> QED
            BY <5>1
        <4> QED
          BY <3>5, <4>1, <4>2, <4>3 DEF BurstMove, BlockMove, Rests, PassesOn, Burst, Goes
      <3>6. CASE state = "fill" /\ FillMove(r)
        <4>1. CASE Fills
          BY <3>4, <3>6, <4>1
        <4>2. CASE Quits("Download failed") /\ (~r.ack \/ r.offset # ftp.expectedOffset)
          <5>1. Arrives(r) /\ Refuses(r)
            BY <3>2, <3>6, <4>2 DEF Refuses
          <5>2. QuitsFor("Download failed")
            BY <3>6, <4>2, <5>1 DEF QuitsFor, Fails
          <5> QED
            BY <5>2
        <4>3. CASE Quits("Error saving file")
          <5>1. QuitsFor("Error saving file")
            BY <3>2, <4>3 DEF QuitsFor
          <5> QED
            BY <5>1
        <4> QED
          BY <3>6, <4>1, <4>2, <4>3 DEF FillMove, Read, ResetSent, Goes
      <3>7. CASE state = "reset" /\ Quits("none")
        <4>1. QuitsFor("none")
          BY <3>7 DEF QuitsFor
        <4> QED
          BY <4>1
      <3>8. CASE state = "terminate" /\ Quits("Aborted")
        <4>1. QuitsFor("Aborted")
          BY <3>8 DEF QuitsFor
        <4> QED
          BY <4>1
      <3> QED
        BY <3>2, <3>3, <3>5, <3>6, <3>7, <3>8 DEF AnswerMove
    <2> QED
      BY <1>2, <2>1, <2>2 DEF ReceiveMove
  <1> QED
    BY <1>1, <1>2 DEF StepMove, DownloadMove, CancelMove, Terminates, Goes, ServeMove,
                      LoseMove, ReorderMove, vars

(* The report itself.                                                         *)
ReportIs(t, error) ==
    t.error = error /\ t.opened = ftp.fileOpen /\ (error = "none" => t.file = ftp.local)

LEMMA NewReport ==
    ASSUME NEW error, Quits(error), NEW d \in DOMAIN Downloads, NEW i \in DOMAIN results'[d],
           results'[d] # results[d]
    PROVE  d = ftp.path /\ ReportIs(results'[d][i], error)
  <1>1. d = ftp.path
    BY DEF Quits
  <1>2. PICK t : results'[d] = <<t>> /\ ReportIs(t, error)
    BY <1>1 DEF Quits, ReportIs
  <1>3. PICK q : q = results'[d]
    OBVIOUS
  <1>4. q = <<t>> /\ i \in DOMAIN q
    BY <1>2, <1>3
  <1>5. q[i] = t
    BY <1>4
  <1> QED
    BY <1>1, <1>2, <1>3, <1>5

-----------------------------------------------------------------------------
(* A download whose packets are its own reads its own file.                   *)
OwnFiles == \A d \in DOMAIN Downloads : OwnPackets(d) => FileOf(d)

LEMMA InRange ==
    ASSUME NEW d \in DOMAIN Downloads
    PROVE  d \in 0 .. Len(Downloads)
  BY FtpAssumption

LEMMA OwnFilesKeep ==
    ASSUME Room, OrderedInv, FirstHalf, [Next]_vars, OwnFiles
    PROVE  OwnFiles'
  <1> SUFFICES ASSUME NEW d \in DOMAIN Downloads, (OwnPackets(d))'
               PROVE  (FileOf(d))'
    BY DEF OwnFiles
  <1>1. spent'.outages = 0 /\ FtpInv
    BY DEF OwnPackets, InOrder, InStep, OrderedInv
  <1>2. Counts
    BY <1>1, OrderWas DEF Counts, OrderedInv, NumberInv
  <1>3. Adds
    BY <1>1, <1>2, StepMoves, StepAdds
  <1>4. OwnPackets(d)
    BY <1>1, <1>3, InRange, OwnWas
  <1>5. FileOf(d)
    BY <1>4 DEF OwnFiles
  <1>6. ftp.path = d => AnswersAreOurs
    BY <1>4, AnswersOurs
  <1> QED
    BY <1>1, <1>5, <1>6, StepFiles

-----------------------------------------------------------------------------
(* Read to the end, the file is whole.                                        *)
LEMMA SeenAll ==
    ASSUME OwnFiles, OwnPackets(ftp.path), ftp.index # -1, ftp.path \in DOMAIN Downloads,
           Seen(ftp) = 0 .. (Size - 1), ftp.missing = <<>>
    PROVE  Whole(ftp.path, ftp.local)
  <1> DEFINE p == ftp.path
  <1>1. Downloading(Within(p, p), Sizes(p, p))
    BY DEF OwnFiles, FileOf
  <1>2. ftp.local \subseteq {p} \X (0 .. (Size - 1))
    BY <1>1 DEF Downloading, Account, Within, Of, Size
  <1>3. HolesIn(<<>>) = {}
    BY DEF HolesIn
  <1>4. OffsetsIn(ftp.local) = 0 .. (Size - 1)
    BY <1>3 DEF Seen
  <1>5. ASSUME NEW o \in 0 .. (Size - 1)
        PROVE  <<p, o>> \in ftp.local
    <2>1. PICK b \in ftp.local : o = b[2]
      BY <1>4, <1>5 DEF OffsetsIn
    <2>2. b = <<p, o>>
      BY <1>2, <2>1
    <2> QED
      BY <2>1, <2>2
  <1> QED
    BY <1>2, <1>5 DEF Whole, Size

ReadWhole(d) ==
    \A i \in DOMAIN results[d] : results[d][i].error = "none" => Whole(d, results[d][i].file)
WholeInv == \A d \in DOMAIN Downloads : InStep /\ OwnPackets(d) => ReadWhole(d)

LEMMA WholeKeeps ==
    ASSUME Room, OrderedInv, FirstHalf, [Next]_vars, OwnFiles, WholeInv
    PROVE  WholeInv'
  <1> SUFFICES ASSUME NEW d \in DOMAIN Downloads, InStep', (OwnPackets(d))',
                      NEW i \in DOMAIN results'[d], results'[d][i].error = "none"
               PROVE  Whole(d, results'[d][i].file)
    BY DEF WholeInv, ReadWhole
  <1>1. spent'.outages = 0 /\ FtpInv
    BY DEF InStep, OrderedInv
  <1>2. Counts
    BY <1>1, OrderWas DEF Counts, OrderedInv, NumberInv
  <1>3. StepMove /\ Adds
    BY <1>1, <1>2, StepMoves, StepAdds
  <1>4. OwnPackets(d) /\ InStep
    BY <1>1, <1>3, InRange, OwnWas, OrderWas
  <1>5. CASE results'[d] = results[d]
    BY <1>4, <1>5 DEF WholeInv, ReadWhole
  <1>6. CASE results'[d] # results[d]
    <2>1. PICK error : QuitsFor(error)
      BY <1>2, <1>3, <1>6, StepReports
    <2>2. d = ftp.path /\ ReportIs(results'[d][i], error)
      BY <1>6, <2>1, NewReport DEF QuitsFor
    <2>3. state = "reset" /\ results'[d][i].file = ftp.local
      BY <2>1, <2>2 DEF QuitsFor, ReportIs
    <2>4. Paced
      BY <1>4, <2>2 DEF OrderedInv, StepInv
    <2>5. ftp.index # -1
      BY <2>3 DEF state
    <2>6. Whole(ftp.path, ftp.local)
      BY <1>4, <2>2, <2>3, <2>4, <2>5, SeenAll DEF Paced
    <2> QED
      BY <2>2, <2>3, <2>6
  <1> QED
    BY <1>5, <1>6

-----------------------------------------------------------------------------
(* With a size that is right, if it is compared, no file is too short.        *)
SizesRight == \A d \in DOMAIN Downloads :
                  Downloads[d].checksize => Downloads[d].reported = Downloads[d].size

LEMMA LongEnough ==
    ASSUME SizesRight, FtpInv, OwnFiles, OwnPackets(ftp.path), state \in {"burst", "fill"},
           Seen(ftp) = 0 .. (Size - 1)
    PROVE  ~TooShort(ftp)
  <1> DEFINE p == ftp.path
  <1>1. ftp.index # -1
    BY DEF state
  <1>2. Downloading(Blocks, Nat)
    BY <1>1 DEF FtpInv, ManagerInv
  <1>3. p \in DOMAIN Downloads /\ ftp.checksize = Downloads[p].checksize
        /\ (In(ftp, 1) \/ In(ftp, 2))
    BY <1>2, StateNames DEF Downloading
  <1>4. Downloading(Within(p, p), Sizes(p, p))
    BY <1>1, <1>3 DEF OwnFiles, FileOf
  <1>5. ftp.fileSize = Downloads[p].reported
    BY <1>3, <1>4 DEF Downloading, Account, Reading, In, Sizes, SizeOf
  <1>6. Size \in Nat
    BY <1>3, DownloadFacts DEF Size
  <1> QED
    BY <1>3, <1>5, <1>6 DEF TooShort, SizesRight, Size

MadeGood(d) ==
    \A i \in DOMAIN results[d] : results[d][i].error = "Download failed" => ~results[d][i].opened
LossInv == \A d \in DOMAIN Downloads : Lossy(d) /\ spent.losses <= MaxRetry => MadeGood(d)

(* An answer that is the download's own is not refused.                       *)
LEMMA NotRefused ==
    ASSUME SizesRight, Counts, Messages, OwnFiles, Lossy(ftp.path), Paced,
           state \in {"burst", "fill"}, NEW r, Arrives(r)
    PROVE  ~Refuses(r)
  <1>1. Own(r) /\ Answer(r)
    BY ArrivesOwn DEF Own
  <1>2. FtpInv /\ server.errMode = "None" /\ OwnPackets(ftp.path)
    BY DEF Counts, Lossy
  <1>3. Places
    BY <1>2, PlacesAre
  <1>4. ASSUME state = "burst" => ~r.ack /\ r.eof /\ r.seq = ftp.expectedSeq
        PROVE  ~TooShort(ftp)
    <2>1. Seen(ftp) = 0 .. (Size - 1)
      <3>1. CASE state = "fill"
        BY <3>1 DEF Paced
      <3>2. CASE state = "burst"
        <4>1. Size - ftp.expectedOffset = r.seq - ftp.expectedSeq
          BY <1>1, <1>4, <3>2 DEF Answer
        <4>2. r.seq = ftp.expectedSeq /\ ftp.expectedSeq \in Nat
          BY <1>4, <3>2 DEF Messages
        <4>3. Size = ftp.expectedOffset
          BY <1>3, <4>1, <4>2 DEF Places
        <4> QED
          BY <1>3, <3>2, <4>3 DEF Places
      <3> QED
        BY <3>1, <3>2
    <2> QED
      BY <1>2, <2>1, LongEnough
  <1>5. state = "burst" => r.ack \/ r.eof
    BY <1>1, <1>2 DEF Answer
  <1>6. state = "fill" => r.ack /\ r.offset = ftp.expectedOffset
    BY <1>1, <1>2 DEF Answer
  <1> QED
    BY <1>4, <1>5, <1>6 DEF Refuses

(* What fails has no open file, or lost too much.                             *)
LEMMA FailsFor ==
    ASSUME SizesRight, Counts, Messages, Counters, OpenFile, OwnFiles, RetryInv, Paced,
           Lossy(ftp.path), Fails
    PROVE  ~ftp.fileOpen \/ ~(spent'.losses <= MaxRetry)
  <1>1. state # "terminate"
    BY DEF OpenFile, Lossy
  <1>2. CASE state = "open"
    BY <1>2 DEF OpenFile
  <1>3. CASE /\ state \in {"burst", "fill"} /\ ftp.retryCount = MaxRetry
             /\ ~InFlight /\ spent' = spent
    <2>1. ~AnswerComes
      BY <1>3 DEF AnswerComes, InFlight
    <2>2. ftp.retryCount + 1 <= spent.losses
      BY <1>3, <2>1 DEF RetryInv, PaidFor
    <2> QED
      BY <1>3, <2>2, FtpAssumption DEF Counters
  <1>4. CASE state \in {"burst", "fill"} /\ \E r : Arrives(r) /\ Refuses(r)
    BY <1>4, NotRefused
  <1> QED
    BY <1>1, <1>2, <1>3, <1>4 DEF Fails

LEMMA FewLosses ==
    ASSUME Counters, spent'.losses <= MaxRetry
    PROVE  spent.losses <= MaxRetry
  BY FtpAssumption DEF Counters

LEMMA LossesKeep ==
    ASSUME SizesRight, Room, OrderedInv, FirstHalf, [Next]_vars, OwnFiles, RetryInv, LossInv
    PROVE  LossInv'
  <1> SUFFICES ASSUME NEW d \in DOMAIN Downloads, (Lossy(d))', spent'.losses <= MaxRetry,
                      NEW i \in DOMAIN results'[d], results'[d][i].error = "Download failed"
               PROVE  ~results'[d][i].opened
    BY DEF LossInv, MadeGood
  <1>1. spent'.outages = 0 /\ FtpInv /\ FtpInv' /\ InStep'
    BY OrderStays DEF Lossy, InStep, OrderedInv
  <1>2. Counts
    BY <1>1, OrderWas DEF Counts, OrderedInv, NumberInv
  <1>3. StepMove /\ Adds
    BY <1>1, <1>2, StepMoves, StepAdds
  <1>4. Lossy(d) /\ spent.losses <= MaxRetry
    <2>1. server'.errMode = server.errMode
      BY <1>3 DEF StepMove, DownloadMove, CancelMove, EarlyOrDue, ServeMove, Serves, LoseMove,
                  ReorderMove, vars
    <2>2. Lossy(d)
      BY <1>1, <1>3, <2>1, InRange, LossyWas
    <2>3. spent.losses <= MaxRetry
      BY <1>1, CountsAre, FewLosses
    <2> QED
      BY <2>2, <2>3
  <1>5. CASE results'[d] = results[d]
    BY <1>4, <1>5 DEF LossInv, MadeGood
  <1>6. CASE results'[d] # results[d]
    <2>1. PICK error : QuitsFor(error)
      BY <1>1, <1>2, <1>3, <1>6, StepReports
    <2>2. d = ftp.path /\ ReportIs(results'[d][i], error)
      BY <1>6, <2>1, NewReport DEF QuitsFor
    <2>3. Fails /\ results'[d][i].opened = ftp.fileOpen
      BY <2>1, <2>2 DEF QuitsFor, ReportIs
    <2>4. OpenFile
      BY <1>2, <1>4 DEF OrderedInv, OpenInv, Lossy, InStep
    <2>5. Paced
      BY <1>4, <2>2 DEF OrderedInv, StepInv, Lossy
    <2>6. Messages /\ Counters
      BY <1>1, <1>2, MessagesAre, CountsAre
    <2>7. Lossy(ftp.path)
      BY <1>4, <2>2
    <2> QED
      BY <1>2, <2>3, <2>4, <2>5, <2>6, <2>7, FailsFor
  <1> QED
    BY <1>5, <1>6

-----------------------------------------------------------------------------
LEMMA RetryStays ==
    ASSUME Room, OrderedInv, FirstHalf, [Next]_vars, RetryInv
    PROVE  RetryInv'
  <1> SUFFICES ASSUME (Lossy(ftp.path))'
               PROVE  RetryInv'
    BY DEF RetryInv
  <1>1. spent'.outages = 0 /\ FtpInv /\ FtpInv'
    BY OrderStays DEF Lossy, InStep, OrderedInv
  <1>2. Counts
    BY <1>1, OrderWas DEF Counts, OrderedInv, NumberInv
  <1>3. StepMove
    BY <1>1, <1>2, StepMoves
  <1> QED
    BY <1>1, <1>2, <1>3, RetryKeeps DEF OrderedInv

FileReadInv == OrderedInv /\ OwnFiles /\ WholeInv
LossyInv == FileReadInv /\ RetryInv /\ LossInv

LEMMA FilesStart ==
    ASSUME Init
    PROVE  LossyInv
  <1>0. OrderedInv
    BY OrderStarts
  <1>1. ftp.index = -1 /\ state = "none"
    <2>1. ftp.index = -1
      BY DEF Init
    <2> QED
      BY <2>1 DEF state
  <1>2. \A d \in DOMAIN Downloads : results[d] = <<>>
    BY DEF Init
  <1>3. OwnFiles
    BY <1>1, <1>2 DEF OwnFiles, FileOf, Results
  <1>4. \A d \in DOMAIN Downloads : ReadWhole(d) /\ MadeGood(d)
    <2>1. \A d \in DOMAIN Downloads : \A i \in DOMAIN results[d] : FALSE
      BY <1>2
    <2> QED
      BY <2>1 DEF ReadWhole, MadeGood
  <1>6. WholeInv /\ LossInv
    BY <1>4 DEF WholeInv, LossInv
  <1>5. RetryInv
    BY <1>1 DEF RetryInv
  <1> QED
    BY <1>0, <1>3, <1>5, <1>6 DEF LossyInv, FileReadInv

LEMMA FilesStay ==
    ASSUME Room, FileReadInv, FirstHalf, [Next]_vars
    PROVE  FileReadInv'
  BY OrderStays, OwnFilesKeep, WholeKeeps DEF FileReadInv

LEMMA LossyStays ==
    ASSUME Room, SizesRight, LossyInv, FirstHalf, [Next]_vars
    PROVE  LossyInv'
  BY FilesStay, RetryStays, LossesKeep DEF LossyInv, FileReadInv

(* One of a size that is compared and right is whole, in step or not.         *)
LEMMA CheckedIsWhole ==
    ASSUME SizesRight, NEW d \in DOMAIN Downloads, Downloads[d].checksize, FileOf(d),
           NEW done \in Successes(d)
    PROVE  Whole(d, done.file)
  <1> DEFINE n == Downloads[d].size
             file == done.file
  <1>1. PICK i \in DOMAIN results[d] : results[d][i].error = "none" /\ done = results[d][i]
    BY DEF Successes
  <1>2. GoodResult(done, d, Of(d), SizeOf(d)) /\ done.error = "none"
    BY <1>1 DEF FileOf, Results
  <1>3. /\ file \subseteq {d} \X (0 .. (n - 1)) /\ IsFiniteSet(OffsetsIn(file))
        /\ Cardinality(OffsetsIn(file)) = n
    BY <1>2 DEF GoodResult, Of, SizeOf, SizesRight
  <1>4. n \in Nat
    BY DownloadFacts
  <1> HIDE DEF n, file
  <1>5. file = {d} \X (0 .. (n - 1))
    BY <1>3, <1>4, AllBlocks
  <1> QED
    BY <1>5 DEF n, file, Whole

(* A download reported without an error has brought exactly the blocks of its *)
(* file, as DownloadedFileIsWhole says, in every state before the numbers     *)
(* have gone half way round, if a size that is compared was given rightly.    *)
THEOREM WholeFiles ==
    ASSUME Room, SizesRight
    PROVE  Spec /\ []FirstHalf => []DownloadedFileIsWhole
  <1>1. Init => FileReadInv
    BY FilesStart DEF LossyInv
  <1>2. FileReadInv /\ FirstHalf /\ [Next]_vars => FileReadInv'
    BY FilesStay
  <1>3. FileReadInv => DownloadedFileIsWhole
    <2> SUFFICES ASSUME FileReadInv, NEW d \in DOMAIN Downloads, NEW done \in Successes(d),
                        OwnPackets(d), Downloads[d].checksize \/ InStep
                 PROVE  Whole(d, done.file)
      BY DEF DownloadedFileIsWhole
    <2>1. CASE Downloads[d].checksize
      BY <2>1, CheckedIsWhole DEF FileReadInv, OwnFiles
    <2>2. CASE InStep
      <3>1. PICK i \in DOMAIN results[d] : results[d][i].error = "none" /\ done = results[d][i]
        BY DEF Successes
      <3> QED
        BY <2>2, <3>1 DEF FileReadInv, WholeInv, ReadWhole
    <2> QED
      BY <2>1, <2>2
  <1> QED
    BY <1>1, <1>2, <1>3, PTL DEF Spec

(* A lossy link alone does not fail a download once its file is open, as      *)
(* LossesAreMadeGood says, in every state before the numbers have gone half   *)
(* way round, if a size that is compared was given rightly.                   *)
THEOREM RetriesMakeGood ==
    ASSUME Room, SizesRight
    PROVE  Spec /\ []FirstHalf => []LossesAreMadeGood
  <1>1. Init => LossyInv
    BY FilesStart
  <1>2. LossyInv /\ FirstHalf /\ [Next]_vars => LossyInv'
    BY LossyStays
  <1>3. LossyInv => LossesAreMadeGood
    BY DEF LossyInv, LossInv, Lossy, MadeGood, LossesAreMadeGood
  <1> QED
    BY <1>1, <1>2, <1>3, PTL DEF Spec
=============================================================================
