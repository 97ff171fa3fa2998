-------------------------- MODULE FtpDownload_proofs --------------------------
(* Proofs about FtpDownload for every sequence of downloads, modulus and      *)
(* limit.  The state functions of the manager are functions of its record s:  *)
(* a lemma for each says that it leaves the download waiting, or over and     *)
(* reported once, and keeps the account of blocks written and holes.          *)
EXTENDS FtpDownload, FiniteSetTheorems, SequenceTheorems, TLAPS

-----------------------------------------------------------------------------
(* The types of the manager's state and of the messages.                      *)
HoleType == [offset : Nat, count : Nat \ {0}]
ResultType == [error : Error, file : SUBSET Blocks, opened : BOOLEAN]
Opcodes == {"Open", "Burst", "Read", "Reset", "Terminate"}
Numbers == 0 .. (SeqNumbers - 1)

FtpType ==
    [path : Nat, machine : {<<>>, DownloadMachine, TerminateMachine}, index : Int,
     expectedSeq : Numbers, expectedOffset : Nat, bytesWritten : Nat,
     missing : Seq(HoleType), fileSize : Nat, retryCount : 0 .. (MaxRetry + 1),
     checksize : BOOLEAN, timer : BOOLEAN, fileOpen : BOOLEAN, local : SUBSET (Nat \X Nat)]

RequestType(files) == [opcode : Opcodes, offset : Nat, file : files, seq : Numbers]

AnswerType ==
    [opcode : Opcodes, seq : Numbers, ack : BOOLEAN, eof : BOOLEAN, offset : Nat,
     size : Nat, file : Nat, burstComplete : BOOLEAN]

ManagerType(p) ==
    [ftp : FtpType, sent : Seq(RequestType({p})),
     reports : Seq([error : Error, file : SUBSET (Nat \X Nat), opened : BOOLEAN])]

(* Where the state machine is.                                                *)
In(f, i) == f.machine = DownloadMachine /\ f.index = i
Reading(f) == f.machine = DownloadMachine /\ f.index \in 1 .. 3
Ending(f) == f.machine = TerminateMachine /\ f.index = 0
Busy(f) == In(f, 0) \/ Reading(f) \/ Ending(f)

-----------------------------------------------------------------------------
(* Numbers modulo SeqNumbers are numbers.                                     *)
LEMMA NumbersAreModulo ==
    ASSUME NEW n \in Int
    PROVE  n % SeqNumbers \in Numbers
  BY FtpAssumption, SMT DEF Numbers

(* The number of a packet that is not behind the expected one's half of the   *)
(* circle is not before it either, until that number passes the half.         *)
LEMMA SmallNumbersKeepOrder ==
    ASSUME NEW n \in Numbers, NEW e \in Numbers, n < e, e <= (SeqNumbers - 1) \div 2
    PROVE  (e - 1 - n) % SeqNumbers < (SeqNumbers - 1) \div 2
  <1>1. /\ SeqNumbers \in Nat /\ SeqNumbers > 3
        /\ n \in Nat /\ e \in Nat
        /\ e - 1 - n \in 0 .. (SeqNumbers - 1)
    BY FtpAssumption DEF Numbers
  <1>2. \A k \in 0 .. (SeqNumbers - 1) : k % SeqNumbers = k
    BY <1>1
  <1>3. (e - 1 - n) % SeqNumbers = e - 1 - n
    BY <1>1, <1>2
  <1>4. (SeqNumbers - 1) \div 2 \in Int
    BY <1>1
  <1> QED
    BY <1>1, <1>3, <1>4

-----------------------------------------------------------------------------
(* The account: what is written and the holes, as sets of offsets.            *)
HolesInOrder(holes) ==
    \A i, j \in DOMAIN holes : i < j => holes[i].offset + holes[i].count <= holes[j].offset

Solid(f) ==
    /\ IsFiniteSet(OffsetsIn(f.local))
    /\ f.bytesWritten = Cardinality(OffsetsIn(f.local))
    /\ OffsetsIn(f.local) \cap HolesIn(f.missing) = {}
    /\ HolesInOrder(f.missing)

Seen(f) == OffsetsIn(f.local) \cup HolesIn(f.missing)

(* The offsets of a hole.                                                     *)
OffsetsOf(h) == h.offset .. (h.offset + h.count - 1)

LEMMA LastOffset ==
    ASSUME NEW h \in HoleType
    PROVE  h.offset + h.count - 1 \in OffsetsOf(h)
  <1>1. h.offset \in Nat /\ h.count \in Nat \ {0}
    BY DEF HoleType
  <1>2. ASSUME NEW a \in Nat, NEW c \in Nat \ {0}
        PROVE  a + c - 1 \in a .. (a + c - 1)
    OBVIOUS
  <1> QED
    BY <1>1, <1>2 DEF OffsetsOf

LEMMA HoleMembers ==
    ASSUME NEW holes \in Seq(HoleType), NEW o
    PROVE  o \in HolesIn(holes) <=> \E i \in 1 .. Len(holes) : o \in OffsetsOf(holes[i])
  <1>1. ASSUME NEW i \in 1 .. Len(holes)
        PROVE  {holes[i].offset + k : k \in 0 .. (holes[i].count - 1)} = OffsetsOf(holes[i])
    <2>0. holes[i] \in HoleType
      OBVIOUS
    <2>1. holes[i].offset \in Nat /\ holes[i].count \in Nat
      BY <2>0 DEF HoleType
    <2>2. ASSUME NEW x \in OffsetsOf(holes[i])
          PROVE  x \in {holes[i].offset + k : k \in 0 .. (holes[i].count - 1)}
      <3>1. x - holes[i].offset \in 0 .. (holes[i].count - 1) /\ x \in Int
        BY <2>1 DEF OffsetsOf
      <3>2. x = holes[i].offset + (x - holes[i].offset)
        BY <2>1, <3>1
      <3> QED
        BY <3>1, <3>2
    <2> QED
      BY <2>1, <2>2 DEF OffsetsOf
  <1>2. DOMAIN holes = 1 .. Len(holes)
    OBVIOUS
  <1> QED
    BY <1>1, <1>2 DEF HolesIn

(* A hole more at the end, beyond everything seen.                            *)
LEMMA HoleAdded ==
    ASSUME NEW holes \in Seq(HoleType), HolesInOrder(holes), NEW h \in HoleType,
           \A o \in HolesIn(holes) : o < h.offset,
           NEW t, t = Append(holes, h)
    PROVE  /\ t \in Seq(HoleType)
           /\ HolesInOrder(t)
           /\ HolesIn(t) = HolesIn(holes) \cup OffsetsOf(h)
  <1>1. /\ t \in Seq(HoleType) /\ Len(t) = Len(holes) + 1 /\ Len(holes) \in Nat
        /\ \A i \in 1 .. Len(holes) : t[i] = holes[i]
        /\ t[Len(holes) + 1] = h
    OBVIOUS
  <1>2. ASSUME NEW i \in 1 .. Len(t), NEW j \in 1 .. Len(t), i < j
        PROVE  t[i].offset + t[i].count <= t[j].offset
    <2>1. CASE j \in 1 .. Len(holes)
      BY <2>1, <1>1, <1>2 DEF HolesInOrder
    <2>2. CASE j = Len(holes) + 1
      <3>1. i \in 1 .. Len(holes) /\ t[i] = holes[i] /\ t[j] = h
        BY <1>1, <1>2, <2>2
      <3>a. holes[i] \in HoleType
        BY <3>1
      <3>2. holes[i].offset \in Nat /\ holes[i].count \in Nat \ {0} /\ h.offset \in Nat
        BY <3>a DEF HoleType
      <3>3. holes[i].offset + holes[i].count - 1 \in OffsetsOf(holes[i])
        BY <3>a, LastOffset
      <3>4. holes[i].offset + holes[i].count - 1 \in HolesIn(holes)
        BY <3>1, <3>3, HoleMembers
      <3>5. holes[i].offset + holes[i].count - 1 < h.offset
        BY <3>4
      <3> QED
        BY <3>1, <3>2, <3>5
    <2> QED
      BY <1>1, <2>1, <2>2
  <1>3. HolesInOrder(t)
    BY <1>1, <1>2 DEF HolesInOrder
  <1>4. ASSUME NEW o
        PROVE  o \in HolesIn(t) <=> o \in HolesIn(holes) \cup OffsetsOf(h)
    <2>1. o \in HolesIn(t) <=> \E i \in 1 .. Len(t) : o \in OffsetsOf(t[i])
      BY <1>1, HoleMembers
    <2>2. o \in HolesIn(holes) <=> \E i \in 1 .. Len(holes) : o \in OffsetsOf(holes[i])
      BY HoleMembers
    <2>3. 1 .. Len(t) = 1 .. Len(holes) \cup {Len(holes) + 1}
      BY <1>1
    <2> QED
      BY <1>1, <2>1, <2>2, <2>3
  <1> QED
    BY <1>1, <1>3, <1>4

(* The first block of the first hole is read: the hole begins one later, or   *)
(* is gone, and the other holes stay.                                         *)
LEMMA HoleShrinks ==
    ASSUME NEW holes \in Seq(HoleType), holes # <<>>, HolesInOrder(holes),
           NEW t, t = HoleShrunk(holes)
    PROVE  /\ t \in Seq(HoleType)
           /\ HolesInOrder(t)
           /\ HolesIn(t) = HolesIn(holes) \ {Head(holes).offset}
           /\ Head(holes).offset \in HolesIn(holes)
  <1> DEFINE h == Head(holes)
             q == Tail(holes)
  <1>1. /\ Len(holes) \in Nat \ {0} /\ DOMAIN holes = 1 .. Len(holes)
        /\ h = holes[1] /\ h \in HoleType
        /\ q \in Seq(HoleType) /\ Len(q) = Len(holes) - 1
        /\ \A i \in 1 .. Len(q) : q[i] = holes[i + 1]
    OBVIOUS
  <1>2. h.offset \in Nat /\ h.count \in Nat \ {0}
    BY <1>1 DEF HoleType
  <1>3. HolesInOrder(q)
    <2>1. DOMAIN q = 1 .. Len(q)
      BY <1>1
    <2>2. \A i \in 1 .. Len(q) : i + 1 \in 1 .. Len(holes)
      BY <1>1
    <2> QED
      BY <1>1, <2>1, <2>2 DEF HolesInOrder
  <1>4. ASSUME NEW i \in 1 .. Len(q)
        PROVE  /\ q[i].offset \in Nat /\ q[i].count \in Nat
               /\ h.offset + h.count <= q[i].offset
    <2>1. i + 1 \in 1 .. Len(holes) /\ q[i] = holes[i + 1] /\ 1 < i + 1
      BY <1>1
    <2>2. h.offset + h.count <= q[i].offset
      BY <1>1, <2>1 DEF HolesInOrder
    <2>3. q[i] \in HoleType
      BY <1>1
    <2>4. q[i].offset \in Nat /\ q[i].count \in Nat
      BY <2>3 DEF HoleType
    <2> QED
      BY <2>2, <2>4
  <1>5. h.offset \in OffsetsOf(h)
    BY <1>2 DEF OffsetsOf
  <1>6. h.offset \in HolesIn(holes)
    BY <1>1, <1>5, HoleMembers
  <1>7. ASSUME NEW o
        PROVE  o \in HolesIn(holes) <=> o \in OffsetsOf(h) \/ o \in HolesIn(q)
    <2>1. o \in HolesIn(q) <=> \E i \in 1 .. Len(q) : o \in OffsetsOf(q[i])
      BY <1>1, HoleMembers
    <2>2. o \in HolesIn(holes) <=> \E i \in 1 .. Len(holes) : o \in OffsetsOf(holes[i])
      BY HoleMembers
    <2>3. ASSUME NEW i \in 1 .. Len(holes), o \in OffsetsOf(holes[i])
          PROVE  o \in OffsetsOf(h) \/ o \in HolesIn(q)
      <3>1. i = 1 \/ (i - 1 \in 1 .. Len(q) /\ q[i - 1] = holes[i])
        BY <1>1
      <3> QED
        BY <3>1, <2>3, <1>1, <2>1
    <2>4. ASSUME NEW i \in 1 .. Len(q), o \in OffsetsOf(q[i])
          PROVE  o \in HolesIn(holes)
      <3>1. i + 1 \in 1 .. Len(holes) /\ q[i] = holes[i + 1]
        BY <1>1
      <3> QED
        BY <3>1, <2>2, <2>4
    <2>5. 1 \in 1 .. Len(holes)
      BY <1>1
    <2> QED
      BY <2>1, <2>2, <2>3, <2>4, <2>5, <1>1
  <1>8. h.offset \notin HolesIn(q)
    <2>1. \A i \in 1 .. Len(q) : h.offset \notin OffsetsOf(q[i])
      BY <1>2, <1>4 DEF OffsetsOf
    <2> QED
      BY <1>1, <2>1, HoleMembers
  <1> HIDE DEF h, q
  <1>9. CASE h.count = 1
    <2>1. t = q
      BY <1>9 DEF HoleShrunk, h, q
    <2>2. OffsetsOf(h) = {h.offset}
      BY <1>2, <1>9 DEF OffsetsOf
    <2> QED
      BY <2>1, <2>2, <1>1, <1>3, <1>6, <1>7, <1>8 DEF h
  <1>10. CASE h.count # 1
    <2> DEFINE g == [offset |-> h.offset + 1, count |-> h.count - 1]
    <2>1. g \in HoleType /\ g.offset = h.offset + 1 /\ g.count = h.count - 1
      BY <1>2, <1>10 DEF HoleType
    <2>2. t = <<g>> \o q
      BY <1>10 DEF HoleShrunk, h, q
    <2> HIDE DEF g
    <2>a. <<g>> \in Seq(HoleType) /\ Len(<<g>>) = 1 /\ <<g>>[1] = g
      BY <2>1
    <2>b. q \in Seq(HoleType) /\ Len(q) \in Nat
      BY <1>1
    <2>c. /\ t \in Seq(HoleType) /\ Len(t) = 1 + Len(q)
          /\ \A i \in 1 .. (1 + Len(q)) :
                t[i] = IF i <= Len(<<g>>) THEN <<g>>[i] ELSE q[i - Len(<<g>>)]
      BY <2>2, <2>a, <2>b, ConcatProperties
    <2>3. /\ t \in Seq(HoleType) /\ Len(t) = Len(q) + 1 /\ t[1] = g
          /\ \A i \in 1 .. Len(q) : t[i + 1] = q[i]
      BY <2>a, <2>b, <2>c
    <2>4. OffsetsOf(g) = OffsetsOf(h) \ {h.offset}
      BY <2>1, <1>2 DEF OffsetsOf
    <2>5. ASSUME NEW o
          PROVE  o \in HolesIn(t) <=> o \in OffsetsOf(g) \/ o \in HolesIn(q)
      <3>1. o \in HolesIn(q) <=> \E i \in 1 .. Len(q) : o \in OffsetsOf(q[i])
        BY <1>1, HoleMembers
      <3>2. o \in HolesIn(t) <=> \E i \in 1 .. Len(t) : o \in OffsetsOf(t[i])
        BY <2>3, HoleMembers
      <3>3. ASSUME NEW i \in 1 .. Len(t), o \in OffsetsOf(t[i])
            PROVE  o \in OffsetsOf(g) \/ o \in HolesIn(q)
        <4>1. Len(q) \in Nat
          BY <1>1
        <4>2. i = 1 \/ (i - 1 \in 1 .. Len(q) /\ i = (i - 1) + 1)
          BY <4>1, <2>3
        <4>3. i = 1 \/ (i - 1 \in 1 .. Len(q) /\ t[i] = q[i - 1])
          BY <4>2, <2>3
        <4> QED
          BY <4>3, <3>3, <2>3, <3>1
      <3>4. ASSUME NEW i \in 1 .. Len(q), o \in OffsetsOf(q[i])
            PROVE  o \in HolesIn(t)
        <4>1. i + 1 \in 1 .. Len(t) /\ t[i + 1] = q[i]
          BY <2>3, <1>1
        <4> QED
          BY <4>1, <3>2, <3>4
      <3>5. 1 \in 1 .. Len(t)
        BY <2>3, <1>1
      <3> QED
        BY <3>1, <3>2, <3>3, <3>4, <3>5, <2>3
    <2>6. HolesInOrder(t)
      <3>1. DOMAIN t = 1 .. Len(t) /\ DOMAIN q = 1 .. Len(q) /\ Len(q) \in Nat
        BY <2>3, <1>1
      <3>2. ASSUME NEW i \in 1 .. Len(t), NEW j \in 1 .. Len(t), i < j
            PROVE  t[i].offset + t[i].count <= t[j].offset
        <4>1. j - 1 \in 1 .. Len(q) /\ j = (j - 1) + 1
          BY <3>1, <3>2, <2>3
        <4>2. t[j] = q[j - 1]
          BY <4>1, <2>3
        <4>3. CASE i = 1
          <5>a. t[i].offset = h.offset + 1 /\ t[i].count = h.count - 1
            BY <4>3, <2>1, <2>3
          <5>b. \A a \in Nat, c \in Nat : (a + 1) + (c - 1) = a + c
            OBVIOUS
          <5>1. t[i].offset + t[i].count = h.offset + h.count
            BY <5>a, <5>b, <1>2
          <5>2. h.offset + h.count <= q[j - 1].offset
            BY <4>1, <1>4
          <5> QED
            BY <5>1, <5>2, <4>2
        <4>4. CASE i # 1
          <5>1. i - 1 \in 1 .. Len(q) /\ i = (i - 1) + 1 /\ i - 1 < j - 1
            BY <3>1, <3>2, <2>3, <4>4
          <5>2. t[i] = q[i - 1]
            BY <5>1, <2>3
          <5> QED
            BY <5>1, <5>2, <4>1, <4>2, <1>3, <3>1 DEF HolesInOrder
        <4> QED
          BY <4>3, <4>4
      <3> QED
        BY <3>1, <3>2 DEF HolesInOrder
    <2> QED
      BY <2>3, <2>4, <2>5, <2>6, <1>6, <1>7, <1>8 DEF h
  <1> QED
    BY <1>9, <1>10

(* A block is written over what was there.                                    *)
BlockSets == SUBSET (Nat \X Nat)
Overwritten(blocks, file, o) == {b \in blocks : b[2] # o} \cup {<<file, o>>}

LEMMA OffsetWritten ==
    ASSUME NEW blocks \in BlockSets, NEW file \in Nat, NEW o \in Nat,
           NEW t, t = Overwritten(blocks, file, o)
    PROVE  /\ t \in BlockSets
           /\ OffsetsIn(t) = OffsetsIn(blocks) \cup {o}
  <1>1. t \in BlockSets
    BY DEF Overwritten, BlockSets
  <1>2. <<file, o>> \in t /\ <<file, o>>[2] = o
    BY DEF Overwritten, BlockSets
  <1> QED
    BY <1>1, <1>2 DEF OffsetsIn, Overwritten, BlockSets

(* One that was not there counts.                                             *)
LEMMA OffsetCounts ==
    ASSUME NEW S, IsFiniteSet(S), NEW o, o \notin S
    PROVE  /\ IsFiniteSet(S \cup {o})
           /\ Cardinality(S \cup {o}) = Cardinality(S) + 1
  BY FS_AddElement

-----------------------------------------------------------------------------
(* What the state functions leave: the download of p under way and waiting,   *)
(* or over and reported.  B is where the blocks written lie, Z what the size  *)
(* of the file may be.                                                        *)
Typed(s, p) == s \in ManagerType(p) /\ s.ftp.path = p /\ s.ftp.checksize = Downloads[p].checksize

Account(f, B, Z) ==
    /\ f.local \subseteq B
    /\ In(f, 0) => f.local = {} /\ f.missing = <<>> /\ f.bytesWritten = 0
    /\ Reading(f) => Solid(f) /\ f.fileSize \in Z /\ \E n \in Nat : Seen(f) = 0 .. (n - 1)
    /\ In(f, 1) => Seen(f) = 0 .. (f.expectedOffset - 1)
    /\ In(f, 2) => f.missing # <<>> /\ f.expectedOffset = Head(f.missing).offset
    /\ In(f, 3) => (f.checksize => f.bytesWritten = f.fileSize)

Waiting(s, p, B, Z) ==
    /\ Typed(s, p) /\ Busy(s.ftp) /\ s.ftp.retryCount <= MaxRetry
    /\ s.reports = <<>>
    /\ s.ftp.timer = TRUE
    /\ Account(s.ftp, B, Z)

GoodResult(r, p, B, Z) ==
    /\ r \in [error : Error, file : SUBSET (Nat \X Nat), opened : BOOLEAN]
    /\ r.file \subseteq B
    /\ r.error = "none" =>
          /\ IsFiniteSet(OffsetsIn(r.file))
          /\ Downloads[p].checksize => Cardinality(OffsetsIn(r.file)) \in Z

Over(s, p, B, Z) ==
    /\ Typed(s, p)
    /\ s.ftp.machine = <<>> /\ s.ftp.index = -1 /\ s.ftp.timer = FALSE
    /\ s.ftp.local \subseteq B
    /\ \E r : s.reports = <<r>> /\ GoodResult(r, p, B, Z)

(* All but the timer and the number expected.                                 *)
Kept(f, g) ==
    /\ g.path = f.path /\ g.machine = f.machine /\ g.index = f.index
    /\ g.expectedOffset = f.expectedOffset /\ g.bytesWritten = f.bytesWritten
    /\ g.missing = f.missing /\ g.fileSize = f.fileSize /\ g.retryCount = f.retryCount
    /\ g.checksize = f.checksize /\ g.fileOpen = f.fileOpen /\ g.local = f.local

LEMMA AccountKept ==
    ASSUME NEW f, NEW g, NEW B, NEW Z, Kept(f, g), Account(f, B, Z)
    PROVE  Account(g, B, Z)
  BY DEF Kept, Account, Solid, Seen, In, Reading

(* t asks nothing more than s.                                                *)
Silent(s, t) ==
    /\ t.sent = s.sent /\ t.ftp.expectedSeq = s.ftp.expectedSeq
    /\ t.ftp.fileOpen = s.ftp.fileOpen

(* t is s with a request more, numbered after n.                              *)
Asks(s, t, opcode, offset, n) ==
    /\ t.sent = Append(s.sent, [opcode |-> opcode, offset |-> offset, file |-> s.ftp.path,
                                seq |-> (n + 1) % SeqNumbers])
    /\ t.ftp.expectedSeq = (n + 2) % SeqNumbers

(* t is s with the timer running, and perhaps a request more.                 *)
TimedFrom(s, t, p) ==
    Typed(t, p) /\ t.ftp.timer = TRUE /\ t.reports = s.reports /\ Kept(s.ftp, t.ftp)

LEMMA RequestSent ==
    ASSUME NEW p \in DOMAIN Downloads, NEW s, Typed(s, p), NEW opcode \in Opcodes,
           NEW offset \in Nat, NEW t, t = SendRequestExpectAck(s, opcode, offset)
    PROVE  /\ TimedFrom(s, t, p)
           /\ linkUp => Asks(s, t, opcode, offset, s.ftp.expectedSeq)
  <1> DEFINE request == [opcode |-> opcode, offset |-> offset, file |-> s.ftp.path,
                         seq |-> (s.ftp.expectedSeq + 1) % SeqNumbers]
             next == (s.ftp.expectedSeq + 2) % SeqNumbers
  <1>1. s \in ManagerType(p) /\ s.ftp \in FtpType /\ s.ftp.path = p
    BY DEF Typed, ManagerType
  <1>2. s.ftp.expectedSeq \in Int
    BY <1>1, FtpAssumption DEF FtpType, Numbers
  <1>3. next \in Numbers /\ (s.ftp.expectedSeq + 1) % SeqNumbers \in Numbers
    BY <1>2, NumbersAreModulo
  <1>4. request \in RequestType({p})
    BY <1>1, <1>3 DEF RequestType
  <1> HIDE DEF request, next
  <1>5. CASE linkUp
    <2> DEFINE f == [s.ftp EXCEPT !.timer = TRUE, !.expectedSeq = next]
               q == Append(s.sent, request)
    <2>1. t = [s EXCEPT !.ftp = f, !.sent = q]
      BY <1>1, <1>5 DEF SendRequestExpectAck, TimerStarted, request, next, ManagerType, FtpType
    <2>2. f \in FtpType /\ f.timer = TRUE /\ Kept(s.ftp, f) /\ f.expectedSeq = next
      BY <1>1, <1>3 DEF FtpType, Kept
    <2>3. q \in Seq(RequestType({p}))
      BY <1>1, <1>4 DEF ManagerType
    <2>a. q = Append(s.sent, request)
      OBVIOUS
    <2> HIDE DEF f, q
    <2>4. t \in ManagerType(p) /\ t.ftp = f /\ t.reports = s.reports /\ t.sent = q
      BY <1>1, <2>1, <2>2, <2>3 DEF ManagerType
    <2>5. Asks(s, t, opcode, offset, s.ftp.expectedSeq)
      BY <2>2, <2>4, <2>a DEF Asks, request, next
    <2> QED
      BY <2>2, <2>4, <2>5, <1>1 DEF Typed, Kept, TimedFrom
  <1>6. CASE ~linkUp
    <2> DEFINE f == [s.ftp EXCEPT !.timer = TRUE]
    <2>1. t = [s EXCEPT !.ftp = f]
      BY <1>1, <1>6 DEF SendRequestExpectAck, TimerStarted
    <2>2. f \in FtpType /\ f.timer = TRUE /\ Kept(s.ftp, f)
      BY <1>1 DEF FtpType, Kept
    <2> HIDE DEF f
    <2>3. t \in ManagerType(p) /\ t.ftp = f /\ t.reports = s.reports
      BY <1>1, <2>1, <2>2 DEF ManagerType
    <2> QED
      BY <1>6, <2>2, <2>3, <1>1 DEF Typed, Kept, TimedFrom
  <1> QED
    BY <1>5, <1>6

(* A request sent for a download under way leaves it waiting.                 *)
LEMMA SentAndWaits ==
    ASSUME NEW p \in DOMAIN Downloads, NEW B, NEW Z, NEW s, Typed(s, p), Busy(s.ftp),
           s.ftp.retryCount <= MaxRetry, s.reports = <<>>, Account(s.ftp, B, Z),
           NEW opcode \in Opcodes, NEW offset \in Nat,
           NEW t, t = SendRequestExpectAck(s, opcode, offset)
    PROVE  Waiting(t, p, B, Z)
  <1>0. TimedFrom(s, t, p)
    BY RequestSent
  <1>1. Typed(t, p) /\ t.ftp.timer = TRUE /\ t.reports = <<>> /\ Kept(s.ftp, t.ftp)
    BY <1>0 DEF TimedFrom
  <1>2. Account(t.ftp, B, Z)
    BY <1>1, AccountKept
  <1>3. Busy(t.ftp) /\ t.ftp.retryCount <= MaxRetry
    BY <1>1 DEF Kept, Busy, In, Reading, Ending
  <1> QED
    BY <1>1, <1>2, <1>3 DEF Waiting

LEMMA DownloadEnds ==
    ASSUME NEW p \in DOMAIN Downloads, NEW B, NEW Z, NEW s, Typed(s, p),
           s.reports = <<>>, s.ftp.local \subseteq B, NEW error \in Error,
           error = "none" =>
               /\ IsFiniteSet(OffsetsIn(s.ftp.local))
               /\ Downloads[p].checksize => Cardinality(OffsetsIn(s.ftp.local)) \in Z,
           NEW t, t = DownloadComplete(s, error)
    PROVE  Over(t, p, B, Z)
  <1> DEFINE kept == IF s.ftp.fileOpen /\ error # "none" THEN {} ELSE s.ftp.local
             f == [Idle(s.ftp) EXCEPT !.local = kept]
             r == [error |-> error, file |-> kept, opened |-> s.ftp.fileOpen]
             q == Append(s.reports, r)
  <1>1. s \in ManagerType(p) /\ s.ftp \in FtpType /\ s.ftp.path = p
    BY DEF Typed, ManagerType
  <1>2. kept \subseteq B /\ kept \in SUBSET (Nat \X Nat) /\ (error = "none" => kept = s.ftp.local)
    BY <1>1 DEF FtpType
  <1>3. s.ftp.fileOpen \in BOOLEAN
    BY <1>1 DEF FtpType
  <1>4. t = [s EXCEPT !.ftp = f, !.reports = q]
    BY DEF DownloadComplete
  <1> HIDE DEF kept
  <1>a. /\ Idle(s.ftp) \in FtpType /\ Idle(s.ftp).machine = <<>> /\ Idle(s.ftp).index = -1
        /\ Idle(s.ftp).timer = FALSE /\ Idle(s.ftp).path = s.ftp.path
        /\ Idle(s.ftp).checksize = s.ftp.checksize
    <2> DEFINE f1 == [s.ftp EXCEPT !.timer = FALSE]
               f2 == [f1 EXCEPT !.machine = <<>>]
               f3 == [f2 EXCEPT !.index = -1]
               f4 == [f3 EXCEPT !.fileOpen = FALSE]
    <2>1. f1 \in FtpType /\ f1.timer = FALSE /\ f1.path = s.ftp.path
          /\ f1.checksize = s.ftp.checksize
      BY <1>1 DEF FtpType
    <2>2. Idle(s.ftp) = f4
      BY DEF Idle
    <2> HIDE DEF f1
    <2>3. f2 \in FtpType /\ f2.timer = FALSE /\ f2.path = s.ftp.path
          /\ f2.checksize = s.ftp.checksize /\ f2.machine = <<>>
      BY <2>1 DEF FtpType
    <2> HIDE DEF f2
    <2>4. f3 \in FtpType /\ f3.timer = FALSE /\ f3.path = s.ftp.path
          /\ f3.checksize = s.ftp.checksize /\ f3.machine = <<>> /\ f3.index = -1
      BY <2>3 DEF FtpType
    <2> HIDE DEF f3
    <2>5. f4 \in FtpType /\ f4.timer = FALSE /\ f4.path = s.ftp.path
          /\ f4.checksize = s.ftp.checksize /\ f4.machine = <<>> /\ f4.index = -1
      BY <2>4 DEF FtpType
    <2> QED
      BY <2>2, <2>5
  <1>5. /\ f \in FtpType /\ f.machine = <<>> /\ f.index = -1 /\ f.timer = FALSE
        /\ f.local = kept /\ f.path = s.ftp.path /\ f.checksize = s.ftp.checksize
    BY <1>a, <1>2 DEF FtpType
  <1>6. r \in [error : Error, file : SUBSET (Nat \X Nat), opened : BOOLEAN]
    BY <1>2, <1>3
  <1>7. GoodResult(r, p, B, Z)
    BY <1>2, <1>6 DEF GoodResult
  <1>8. q = <<r>> /\ q \in Seq([error : Error, file : SUBSET (Nat \X Nat), opened : BOOLEAN])
    BY <1>6
  <1> HIDE DEF f, q, r
  <1>9. t \in ManagerType(p) /\ t.ftp = f /\ t.reports = q
    BY <1>1, <1>4, <1>5, <1>8 DEF ManagerType
  <1> QED
    BY <1>1, <1>2, <1>5, <1>7, <1>8, <1>9 DEF Over, Typed

(* The manager with another state of the same download.                       *)
Replaced(s, t, g, p) == Typed(t, p) /\ t.ftp = g /\ t.reports = s.reports /\ t.sent = s.sent

LEMMA StateReplaced ==
    ASSUME NEW p, NEW s, Typed(s, p), NEW g \in FtpType, g.path = s.ftp.path,
           g.checksize = s.ftp.checksize, NEW t, t = [s EXCEPT !.ftp = g]
    PROVE  Replaced(s, t, g, p)
  <1>1. s \in ManagerType(p) /\ s.ftp \in FtpType
    BY DEF Typed, ManagerType
  <1>2. t \in ManagerType(p) /\ t.ftp = g /\ t.reports = s.reports /\ t.sent = s.sent
    BY <1>1 DEF ManagerType
  <1> QED
    BY <1>2 DEF Replaced, Typed

(* The same state with another number, another retry count.                   *)
LEMMA NumberTakenBack ==
    ASSUME NEW p, NEW s, Typed(s, p), NEW t, t = SameNumber(s)
    PROVE  /\ Typed(t, p) /\ Kept(s.ftp, t.ftp) /\ t.reports = s.reports
           /\ t.sent = s.sent /\ t.ftp.expectedSeq = (s.ftp.expectedSeq - 2) % SeqNumbers
  <1> DEFINE n == (s.ftp.expectedSeq - 2) % SeqNumbers
             g == [s.ftp EXCEPT !.expectedSeq = n]
  <1>1. s.ftp \in FtpType
    BY DEF Typed, ManagerType
  <1>a. s.ftp.expectedSeq \in Int
    BY <1>1, FtpAssumption DEF FtpType, Numbers
  <1>2. n \in Numbers
    BY <1>a, NumbersAreModulo
  <1>3. t = [s EXCEPT !.ftp = g]
    BY <1>1 DEF SameNumber, FtpType
  <1>b. n = (s.ftp.expectedSeq - 2) % SeqNumbers
    OBVIOUS
  <1> HIDE DEF n
  <1>4. g \in FtpType /\ Kept(s.ftp, g) /\ g.expectedSeq = n
    BY <1>1, <1>2 DEF FtpType, Kept
  <1>5. g.path = s.ftp.path /\ g.checksize = s.ftp.checksize
    BY <1>4 DEF Kept
  <1> HIDE DEF g
  <1>6. Replaced(s, t, g, p)
    BY <1>3, <1>4, <1>5, StateReplaced
  <1> QED
    BY <1>4, <1>6, <1>b DEF Replaced

(* All but the retry count.                                                   *)
Recounted(f, g, n) ==
    /\ g.path = f.path /\ g.machine = f.machine /\ g.index = f.index
    /\ g.expectedOffset = f.expectedOffset /\ g.bytesWritten = f.bytesWritten
    /\ g.missing = f.missing /\ g.fileSize = f.fileSize /\ g.retryCount = n
    /\ g.checksize = f.checksize /\ g.fileOpen = f.fileOpen /\ g.local = f.local

RecountedTo(s, t, n, p) ==
    Typed(t, p) /\ Recounted(s.ftp, t.ftp, n) /\ t.reports = s.reports /\ Silent(s, t)

LEMMA CountSet ==
    ASSUME NEW p, NEW s, Typed(s, p), NEW n \in 0 .. (MaxRetry + 1),
           NEW t, t = [s EXCEPT !.ftp.retryCount = n]
    PROVE  RecountedTo(s, t, n, p)
  <1> DEFINE g == [s.ftp EXCEPT !.retryCount = n]
  <1>1. s.ftp \in FtpType
    BY DEF Typed, ManagerType
  <1>3. t = [s EXCEPT !.ftp = g]
    OBVIOUS
  <1>4. g \in FtpType /\ Recounted(s.ftp, g, n) /\ g.expectedSeq = s.ftp.expectedSeq
    BY <1>1 DEF FtpType, Recounted
  <1>5. g.path = s.ftp.path /\ g.checksize = s.ftp.checksize
    BY <1>4 DEF Recounted
  <1> HIDE DEF g
  <1>6. Replaced(s, t, g, p)
    BY <1>3, <1>4, <1>5, StateReplaced
  <1> QED
    BY <1>4, <1>6 DEF Replaced, RecountedTo, Recounted, Silent

LEMMA AccountRecounted ==
    ASSUME NEW f, NEW g, NEW n, NEW B, NEW Z, Recounted(f, g, n)
    PROVE  /\ Account(f, B, Z) => Account(g, B, Z)
           /\ Busy(f) => Busy(g)
           /\ \A i : In(f, i) => In(g, i)
  BY DEF Recounted, Account, Solid, Seen, In, Reading, Busy, Ending

(* A download under way, its timer aside.                                     *)
Going(s, p, B, Z) ==
    /\ Typed(s, p) /\ Busy(s.ftp) /\ s.ftp.retryCount <= MaxRetry
    /\ s.reports = <<>>
    /\ Account(s.ftp, B, Z)

LEMMA GoingIsTyped ==
    ASSUME NEW p, NEW B, NEW Z, NEW s, Going(s, p, B, Z)
    PROVE  s \in ManagerType(p) /\ s.ftp \in FtpType
  BY DEF Going, Typed, ManagerType

LEMMA FirstTryGoes ==
    ASSUME NEW p, NEW B, NEW Z, NEW s, Going(s, p, B, Z), NEW t, t = FirstTry(s)
    PROVE  Going(t, p, B, Z) /\ Recounted(s.ftp, t.ftp, 0)
  <1>1. Typed(s, p) /\ 0 \in 0 .. (MaxRetry + 1) /\ 0 <= MaxRetry
    BY FtpAssumption DEF Going
  <1>2. t = [s EXCEPT !.ftp.retryCount = 0]
    BY DEF FirstTry
  <1>a. RecountedTo(s, t, 0, p)
    BY <1>1, <1>2, CountSet
  <1>3. Typed(t, p) /\ Recounted(s.ftp, t.ftp, 0) /\ t.reports = s.reports
    BY <1>a DEF RecountedTo
  <1>4. Account(t.ftp, B, Z) /\ Busy(t.ftp)
    BY <1>3, AccountRecounted DEF Going
  <1>5. t.ftp.retryCount = 0 /\ t.reports = <<>>
    BY <1>3 DEF Recounted, Going
  <1> QED
    BY <1>1, <1>3, <1>4, <1>5 DEF Going

(* The number taken back, if there is a retry left.                           *)
LEMMA SameNumberGoes ==
    ASSUME NEW p, NEW B, NEW Z, NEW s, Going(s, p, B, Z), NEW t, t = SameNumber(s)
    PROVE  Going(t, p, B, Z) /\ Kept(s.ftp, t.ftp)
  <1>1. Typed(s, p)
    BY DEF Going
  <1>3. Typed(t, p) /\ Kept(s.ftp, t.ftp) /\ t.reports = s.reports
    BY <1>1, NumberTakenBack
  <1>4. Account(t.ftp, B, Z)
    BY <1>3, AccountKept DEF Going
  <1>5. Busy(t.ftp) /\ t.ftp.retryCount <= MaxRetry /\ t.reports = <<>>
    BY <1>3 DEF Kept, Going, Busy, In, Reading, Ending
  <1> QED
    BY <1>3, <1>4, <1>5 DEF Going

LEMMA GoingSends ==
    ASSUME NEW p \in DOMAIN Downloads, NEW B, NEW Z, NEW s, Going(s, p, B, Z),
           NEW opcode \in Opcodes, NEW offset \in Nat,
           NEW t, t = SendRequestExpectAck(s, opcode, offset)
    PROVE  Waiting(t, p, B, Z)
  BY SentAndWaits DEF Going

LEMMA Names ==
    /\ "Open" \in Opcodes /\ "Burst" \in Opcodes /\ "Read" \in Opcodes
    /\ "Reset" \in Opcodes /\ "Terminate" \in Opcodes /\ 0 \in Nat
    /\ "none" \in Error /\ "Download failed" \in Error
    /\ "Error saving file" \in Error /\ "Aborted" \in Error
  BY DEF Opcodes, Error

LEMMA BurstReadWaits ==
    ASSUME NEW p \in DOMAIN Downloads, NEW B, NEW Z, NEW s, Going(s, p, B, Z),
           NEW t, t = BurstRead(s)
    PROVE  Waiting(t, p, B, Z)
  <1> DEFINE u == FirstTry(s)
  <1>1. Going(u, p, B, Z) /\ Recounted(s.ftp, u.ftp, 0)
    BY FirstTryGoes
  <1>2. s.ftp.expectedOffset \in Nat
    BY GoingIsTyped DEF FtpType
  <1>3. t = SendRequestExpectAck(u, "Burst", s.ftp.expectedOffset)
    BY DEF BurstRead
  <1> HIDE DEF u
  <1> QED
    BY <1>1, <1>2, <1>3, Names, GoingSends

LEMMA BurstReadAgainWaits ==
    ASSUME NEW p \in DOMAIN Downloads, NEW B, NEW Z, NEW s, Going(s, p, B, Z),
           NEW t, t = BurstReadAgain(s)
    PROVE  Waiting(t, p, B, Z)
  <1> DEFINE u == SameNumber(s)
  <1>1. Going(u, p, B, Z)
    BY SameNumberGoes
  <1>2. s.ftp.expectedOffset \in Nat
    BY GoingIsTyped DEF FtpType
  <1>3. t = SendRequestExpectAck(u, "Burst", s.ftp.expectedOffset)
    BY DEF BurstReadAgain
  <1> HIDE DEF u
  <1> QED
    BY <1>1, <1>2, <1>3, Names, GoingSends

LEMMA TerminateWaits ==
    ASSUME NEW p \in DOMAIN Downloads, NEW B, NEW Z, NEW s, Going(s, p, B, Z),
           NEW t, t = TerminateBegin(s)
    PROVE  Waiting(t, p, B, Z)
  BY Names, GoingSends DEF TerminateBegin

LEMMA ResetWaits ==
    ASSUME NEW p \in DOMAIN Downloads, NEW B, NEW Z, NEW s, Going(s, p, B, Z),
           NEW t, t = ResetBegin(s)
    PROVE  Waiting(t, p, B, Z)
  BY Names, GoingSends DEF ResetBegin

-----------------------------------------------------------------------------
(* Retries and the filling of holes.                                          *)
Leaves(t, p, B, Z) == Waiting(t, p, B, Z) \/ Over(t, p, B, Z)

LEMMA CountedFacts ==
    ASSUME NEW p, NEW B, NEW Z, NEW s, Going(s, p, B, Z), NEW t, t = Counted(s)
    PROVE  /\ RecountedTo(s, t, s.ftp.retryCount + 1, p)
           /\ t.ftp.retryCount <= MaxRetry => Going(t, p, B, Z)
  <1>1. s.ftp \in FtpType /\ Typed(s, p) /\ s.ftp.retryCount <= MaxRetry /\ s.reports = <<>>
    BY GoingIsTyped DEF Going
  <1>2. s.ftp.retryCount \in Nat
    BY <1>1, FtpAssumption DEF FtpType
  <1> DEFINE n == s.ftp.retryCount + 1
  <1>3. n \in 0 .. (MaxRetry + 1)
    BY SMTT(30), <1>1, <1>2, FtpAssumption
  <1>4. t = [s EXCEPT !.ftp.retryCount = n]
    BY DEF Counted
  <1> HIDE DEF n
  <1>5. RecountedTo(s, t, n, p)
    BY <1>1, <1>3, <1>4, CountSet
  <1>6. Typed(t, p) /\ Recounted(s.ftp, t.ftp, n) /\ t.reports = <<>>
    BY <1>1, <1>5 DEF RecountedTo
  <1>7. Account(t.ftp, B, Z) /\ Busy(t.ftp)
    BY <1>6, AccountRecounted DEF Going
  <1>8. t.ftp.retryCount <= MaxRetry => Going(t, p, B, Z)
    BY <1>6, <1>7 DEF Going
  <1> QED
    BY <1>5, <1>8 DEF n

LEMMA FailedEnds ==
    ASSUME NEW p \in DOMAIN Downloads, NEW B, NEW Z, NEW s, Typed(s, p),
           s.reports = <<>>, s.ftp.local \subseteq B, NEW error \in Error \ {"none"},
           NEW t, t = DownloadComplete(s, error)
    PROVE  Over(t, p, B, Z)
  BY DownloadEnds

LEMMA RetryLeaves ==
    ASSUME NEW p \in DOMAIN Downloads, NEW B, NEW Z, NEW s, Going(s, p, B, Z), NEW again,
           Going(Counted(s), p, B, Z) => Waiting(again, p, B, Z),
           NEW t, t = Retry(s, again)
    PROVE  Leaves(t, p, B, Z)
  <1> DEFINE u == Counted(s)
  <1>1. /\ RecountedTo(s, u, s.ftp.retryCount + 1, p)
        /\ u.ftp.retryCount <= MaxRetry => Going(u, p, B, Z)
    BY CountedFacts
  <1>2. Typed(u, p) /\ Recounted(s.ftp, u.ftp, s.ftp.retryCount + 1) /\ u.reports = s.reports
    BY <1>1 DEF RecountedTo
  <1>3. u.ftp.local = s.ftp.local
    BY <1>2 DEF Recounted
  <1>4. u.ftp.local \subseteq B /\ u.reports = <<>>
    BY <1>2, <1>3 DEF Going, Account
  <1>5. MaxRetry \in Nat /\ u.ftp.retryCount \in Int
    BY <1>2, FtpAssumption DEF Typed, ManagerType, FtpType
  <1>6. t = IF u.ftp.retryCount > MaxRetry THEN DownloadComplete(u, "Download failed") ELSE again
    BY DEF Retry
  <1>7. Going(u, p, B, Z) => Waiting(again, p, B, Z)
    OBVIOUS
  <1> HIDE DEF u
  <1>8. CASE u.ftp.retryCount > MaxRetry
    <2>1. "Download failed" \in Error \ {"none"}
      BY DEF Error
    <2>2. t = DownloadComplete(u, "Download failed")
      BY <1>6, <1>8
    <2> QED
      BY <1>2, <1>4, <2>1, <2>2, FailedEnds DEF Leaves
  <1>9. CASE ~(u.ftp.retryCount > MaxRetry)
    <2>1. u.ftp.retryCount <= MaxRetry
      BY <1>5, <1>9
    <2> QED
      BY <1>1, <1>6, <1>7, <1>9, <2>1 DEF Leaves
  <1> QED
    BY <1>8, <1>9

(* A download that reads its holes, before it is known what the next one is.  *)
Filling(s, p, B, Z) ==
    /\ Typed(s, p) /\ In(s.ftp, 2) /\ s.ftp.retryCount <= MaxRetry
    /\ s.reports = <<>>
    /\ s.ftp.local \subseteq B
    /\ Solid(s.ftp) /\ s.ftp.fileSize \in Z
    /\ \E n \in Nat : Seen(s.ftp) = 0 .. (n - 1)

LEMMA ReadMissingWaits ==
    ASSUME NEW p \in DOMAIN Downloads, NEW B, NEW Z, NEW s, Filling(s, p, B, Z),
           s.ftp.missing # <<>>, NEW t, t = ReadMissing(s)
    PROVE  Waiting(t, p, B, Z)
  <1> DEFINE hole == Head(s.ftp.missing)
             g == [s.ftp EXCEPT !.expectedOffset = hole.offset]
             u == [s EXCEPT !.ftp = g]
  <1>1. s.ftp \in FtpType /\ Typed(s, p)
    BY DEF Filling, Typed, ManagerType
  <1>2. s.ftp.missing \in Seq(HoleType)
    BY <1>1 DEF FtpType
  <1>3. hole \in HoleType
    BY <1>2
  <1>4. hole.offset \in Nat
    BY <1>3 DEF HoleType
  <1>5. t = SendRequestExpectAck(u, "Read", hole.offset)
    BY DEF ReadMissing
  <1>a. hole = Head(s.ftp.missing)
    OBVIOUS
  <1> HIDE DEF hole
  <1>6. /\ g \in FtpType /\ g.path = s.ftp.path /\ g.checksize = s.ftp.checksize
        /\ g.machine = s.ftp.machine /\ g.index = s.ftp.index /\ g.local = s.ftp.local
        /\ g.missing = s.ftp.missing /\ g.fileSize = s.ftp.fileSize
        /\ g.bytesWritten = s.ftp.bytesWritten /\ g.retryCount = s.ftp.retryCount
        /\ g.expectedOffset = hole.offset
    BY <1>1, <1>4 DEF FtpType
  <1> HIDE DEF g
  <1>7. Replaced(s, u, g, p)
    BY <1>1, <1>6, StateReplaced
  <1> HIDE DEF u
  <1>8. In(g, 2) /\ Busy(g) /\ Solid(g) /\ Seen(g) = Seen(s.ftp)
    BY <1>6 DEF Filling, In, Busy, Reading, Solid, Seen
  <1>9. Account(g, B, Z)
    <2>1. ~In(g, 0) /\ ~In(g, 1) /\ ~In(g, 3)
      BY <1>8 DEF In
    <2> QED
      BY <1>6, <1>8, <1>a, <2>1 DEF Filling, Account
  <1>10. Going(u, p, B, Z)
    BY <1>6, <1>7, <1>8, <1>9 DEF Replaced, Going, Filling
  <1> QED
    BY <1>4, <1>5, <1>10, Names, GoingSends

LEMMA FillingRecounted ==
    ASSUME NEW p, NEW B, NEW Z, NEW s, Filling(s, p, B, Z), NEW t, t = FirstTry(s)
    PROVE  Filling(t, p, B, Z) /\ t.ftp.missing = s.ftp.missing
  <1>1. Typed(s, p) /\ 0 \in 0 .. (MaxRetry + 1) /\ 0 <= MaxRetry
    BY FtpAssumption DEF Filling
  <1>2. t = [s EXCEPT !.ftp.retryCount = 0]
    BY DEF FirstTry
  <1>3. RecountedTo(s, t, 0, p)
    BY <1>1, <1>2, CountSet
  <1>4. Typed(t, p) /\ Recounted(s.ftp, t.ftp, 0) /\ t.reports = s.reports
    BY <1>3 DEF RecountedTo
  <1>5. In(t.ftp, 2) /\ Solid(t.ftp) /\ Seen(t.ftp) = Seen(s.ftp)
    BY <1>4 DEF Recounted, In, Solid, Seen, Filling
  <1>6. /\ t.ftp.retryCount = 0 /\ t.ftp.local = s.ftp.local
        /\ t.ftp.fileSize = s.ftp.fileSize /\ t.ftp.missing = s.ftp.missing
    BY <1>4 DEF Recounted
  <1> QED
    BY <1>1, <1>4, <1>5, <1>6 DEF Filling

(* The next state of the machine.                                             *)
AdvancedFrom(f, g) ==
    /\ g.path = f.path /\ g.machine = f.machine /\ g.index = f.index + 1
    /\ g.expectedOffset = f.expectedOffset /\ g.bytesWritten = f.bytesWritten
    /\ g.missing = f.missing /\ g.fileSize = f.fileSize /\ g.retryCount = f.retryCount
    /\ g.checksize = f.checksize /\ g.local = f.local

AdvancedTo(s, t, p) ==
    Typed(t, p) /\ AdvancedFrom(s.ftp, t.ftp) /\ t.reports = s.reports /\ Silent(s, t)

LEMMA AdvancedFacts ==
    ASSUME NEW p, NEW s, Typed(s, p), NEW t, t = Advanced(s)
    PROVE  AdvancedTo(s, t, p)
  <1> DEFINE n == s.ftp.index + 1
             g == [s.ftp EXCEPT !.index = n]
  <1>1. s.ftp \in FtpType
    BY DEF Typed, ManagerType
  <1>2. n \in Int
    BY <1>1 DEF FtpType
  <1>3. t = [s EXCEPT !.ftp = g]
    BY <1>1 DEF Advanced, FtpType
  <1>b. n = s.ftp.index + 1
    OBVIOUS
  <1> HIDE DEF n
  <1>4. /\ g \in FtpType /\ AdvancedFrom(s.ftp, g) /\ g.expectedSeq = s.ftp.expectedSeq
        /\ g.fileOpen = s.ftp.fileOpen
    BY <1>1, <1>2, <1>b DEF FtpType, AdvancedFrom
  <1>5. g.path = s.ftp.path /\ g.checksize = s.ftp.checksize
    BY <1>4 DEF AdvancedFrom
  <1> HIDE DEF g
  <1>6. Replaced(s, t, g, p)
    BY <1>3, <1>4, <1>5, StateReplaced
  <1> QED
    BY <1>4, <1>6 DEF Replaced, AdvancedTo, Silent

(* The holes are read, or the file is not worth it: the sessions are reset.   *)
LEMMA AdvancesToReset ==
    ASSUME NEW p \in DOMAIN Downloads, NEW B, NEW Z, NEW s, Filling(s, p, B, Z), Complete(s),
           NEW t, t = ResetBegin(Advanced(s))
    PROVE  Waiting(t, p, B, Z)
  <1> DEFINE u == Advanced(s)
  <1>1. AdvancedTo(s, u, p)
    BY AdvancedFacts DEF Filling
  <1>2. t = ResetBegin(u)
    OBVIOUS
  <1> HIDE DEF u
  <1>3. Typed(u, p) /\ AdvancedFrom(s.ftp, u.ftp) /\ u.reports = s.reports
    BY <1>1 DEF AdvancedTo
  <1>4. In(u.ftp, 3) /\ Busy(u.ftp) /\ Solid(u.ftp) /\ Seen(u.ftp) = Seen(s.ftp)
    BY <1>3 DEF Filling, In, Busy, Reading, Solid, Seen, AdvancedFrom
  <1>5. u.ftp.checksize => u.ftp.bytesWritten = u.ftp.fileSize
    BY <1>3 DEF AdvancedFrom, Complete
  <1>6. /\ u.ftp.local = s.ftp.local /\ u.ftp.fileSize = s.ftp.fileSize
        /\ u.ftp.retryCount = s.ftp.retryCount
    BY <1>3 DEF AdvancedFrom
  <1>7. Account(u.ftp, B, Z)
    <2>1. ~In(u.ftp, 0) /\ ~In(u.ftp, 1) /\ ~In(u.ftp, 2)
      BY <1>4 DEF In
    <2> QED
      BY <1>4, <1>5, <1>6, <2>1 DEF Filling, Account
  <1>8. Going(u, p, B, Z)
    BY <1>3, <1>4, <1>6, <1>7 DEF Going, Filling
  <1> QED
    BY <1>2, <1>8, ResetWaits

LEMMA FillMissingLeaves ==
    ASSUME NEW p \in DOMAIN Downloads, NEW B, NEW Z, NEW s, Filling(s, p, B, Z),
           NEW t, t = FillMissing(s)
    PROVE  Leaves(t, p, B, Z)
  <1>1. CASE s.ftp.missing # <<>>
    <2> DEFINE u == FirstTry(s)
    <2>1. Filling(u, p, B, Z) /\ u.ftp.missing = s.ftp.missing
      BY FillingRecounted
    <2>2. t = ReadMissing(u)
      BY <1>1 DEF FillMissing
    <2> HIDE DEF u
    <2> QED
      BY <1>1, <2>1, <2>2, ReadMissingWaits DEF Leaves
  <1>2. CASE s.ftp.missing = <<>> /\ Complete(s)
    <2>1. t = ResetBegin(Advanced(s))
      BY <1>2 DEF FillMissing
    <2> QED
      BY <1>2, <2>1, AdvancesToReset DEF Leaves
  <1>3. CASE s.ftp.missing = <<>> /\ ~Complete(s)
    <2>1. "Download failed" \in Error \ {"none"}
      BY DEF Error
    <2>2. t = DownloadComplete(s, "Download failed")
      BY <1>3 DEF FillMissing
    <2> QED
      BY <2>1, <2>2, FailedEnds DEF Filling, Leaves
  <1> QED
    BY <1>1, <1>2, <1>3

(* A hole asked for again.                                                    *)
LEMMA FillMissingAgainWaits ==
    ASSUME NEW p \in DOMAIN Downloads, NEW B, NEW Z, NEW s, Going(s, p, B, Z), In(s.ftp, 2),
           NEW t, t = FillMissingAgain(s)
    PROVE  Waiting(t, p, B, Z)
  <1> DEFINE u == SameNumber(s)
  <1>1. Going(u, p, B, Z) /\ Kept(s.ftp, u.ftp)
    BY SameNumberGoes
  <1>2. t = ReadMissing(u)
    BY DEF FillMissingAgain
  <1> HIDE DEF u
  <1>3. In(u.ftp, 2)
    BY <1>1 DEF Kept, In
  <1>4. Reading(u.ftp)
    BY <1>3 DEF In, Reading
  <1>5. Filling(u, p, B, Z) /\ u.ftp.missing # <<>>
    BY <1>1, <1>3, <1>4 DEF Going, Account, Filling
  <1> QED
    BY <1>2, <1>5, ReadMissingWaits

-----------------------------------------------------------------------------
(* The answers.                                                               *)

(* A download that is opened starts with an empty account.                    *)
OpenedFrom(f, g, size) ==
    /\ g.path = f.path /\ g.machine = f.machine /\ g.index = f.index + 1
    /\ g.expectedOffset = 0 /\ g.bytesWritten = f.bytesWritten
    /\ g.missing = f.missing /\ g.fileSize = size /\ g.retryCount = f.retryCount
    /\ g.checksize = f.checksize /\ g.local = f.local

Opened(s, size) == Advanced([s EXCEPT !.ftp.fileSize = size, !.ftp.expectedOffset = 0,
                                      !.ftp.fileOpen = TRUE])

SizedTo(s, t, size, p) ==
    /\ Typed(t, p) /\ t.reports = s.reports /\ t.sent = s.sent
    /\ t.ftp = [s.ftp EXCEPT !.fileSize = size]

LEMMA SizeSet ==
    ASSUME NEW p, NEW s, Typed(s, p), NEW size \in Nat, NEW t, t = [s EXCEPT !.ftp.fileSize = size]
    PROVE  SizedTo(s, t, size, p)
  <1> DEFINE g == [s.ftp EXCEPT !.fileSize = size]
  <1>1. s.ftp \in FtpType
    BY DEF Typed, ManagerType
  <1>2. t = [s EXCEPT !.ftp = g]
    OBVIOUS
  <1>3. g \in FtpType /\ g.path = s.ftp.path /\ g.checksize = s.ftp.checksize
    BY <1>1 DEF FtpType
  <1> HIDE DEF g
  <1>4. Replaced(s, t, g, p)
    BY <1>2, <1>3, StateReplaced
  <1> QED
    BY <1>4 DEF Replaced, SizedTo, g

OpenedTo(s, t, size, p) ==
    /\ Typed(t, p) /\ t.reports = s.reports /\ OpenedFrom(s.ftp, t.ftp, size)
    /\ t.sent = s.sent /\ t.ftp.expectedSeq = s.ftp.expectedSeq /\ t.ftp.fileOpen = TRUE

LEMMA OpenedFacts ==
    ASSUME NEW p, NEW s, Typed(s, p), NEW size \in Nat, NEW t, t = Opened(s, size)
    PROVE  OpenedTo(s, t, size, p)
  <1> DEFINE g1 == [s.ftp EXCEPT !.fileSize = size]
             g2 == [g1 EXCEPT !.expectedOffset = 0]
             g3 == [g2 EXCEPT !.fileOpen = TRUE]
             u == [s EXCEPT !.ftp.fileSize = size, !.ftp.expectedOffset = 0,
                            !.ftp.fileOpen = TRUE]
  <1>1. s.ftp \in FtpType /\ s \in ManagerType(p)
    BY DEF Typed, ManagerType
  <1>2. u = [s EXCEPT !.ftp = g3]
    BY <1>1 DEF ManagerType
  <1>3. t = Advanced(u)
    BY DEF Opened
  <1> HIDE DEF u
  <1>4. /\ g3 \in FtpType /\ g3.path = s.ftp.path /\ g3.checksize = s.ftp.checksize
        /\ g3.machine = s.ftp.machine /\ g3.index = s.ftp.index /\ g3.local = s.ftp.local
        /\ g3.missing = s.ftp.missing /\ g3.fileSize = size
        /\ g3.bytesWritten = s.ftp.bytesWritten /\ g3.retryCount = s.ftp.retryCount
        /\ g3.expectedOffset = 0 /\ g3.fileOpen = TRUE /\ g3.expectedSeq = s.ftp.expectedSeq
    BY <1>1 DEF FtpType
  <1> HIDE DEF g3
  <1>5. Replaced(s, u, g3, p)
    BY <1>2, <1>4, StateReplaced
  <1>6. Typed(u, p) /\ u.ftp = g3 /\ u.reports = s.reports /\ u.sent = s.sent
    BY <1>5 DEF Replaced
  <1>7. AdvancedTo(u, t, p)
    BY <1>3, <1>6, AdvancedFacts
  <1> QED
    BY <1>4, <1>6, <1>7 DEF AdvancedTo, AdvancedFrom, OpenedFrom, OpenedTo, Silent

LEMMA NothingSeen ==
    ASSUME NEW f, f.local = {}, f.missing = <<>>, f.bytesWritten = 0
    PROVE  Solid(f) /\ Seen(f) = 0 .. (0 - 1)
  <1>1. OffsetsIn(f.local) = {} /\ HolesIn(f.missing) = {}
    BY DEF OffsetsIn, HolesIn
  <1>2. HolesInOrder(f.missing)
    BY DEF HolesInOrder
  <1>3. 0 .. (0 - 1) = {}
    OBVIOUS
  <1>4. IsFiniteSet({}) /\ Cardinality({}) = 0
    BY FS_EmptySet
  <1> QED
    BY <1>1, <1>2, <1>3, <1>4 DEF Solid, Seen

LEMMA OpenLeaves ==
    ASSUME NEW p \in DOMAIN Downloads, NEW B, NEW Z, NEW s, Going(s, p, B, Z), In(s.ftp, 0),
           NEW r \in AnswerType, r.ack => r.size \in Z,
           NEW t \in OpenAnswered(s, r)
    PROVE  Leaves(t, p, B, Z)
  <1>1. Typed(s, p) /\ s.reports = <<>> /\ s.ftp.local \subseteq B
    BY DEF Going, Account
  <1>2. r.size \in Nat
    BY DEF AnswerType
  <1>3. "Download failed" \in Error \ {"none"}
    BY DEF Error
  <1> DEFINE u == Opened(s, r.size)
             v == [s EXCEPT !.ftp.fileSize = r.size]
  <1>4. \/ r.ack /\ t = BurstRead(u)
        \/ t = DownloadComplete(v, "Download failed")
        \/ t = DownloadComplete(s, "Download failed")
    BY DEF OpenAnswered, Opened
  <1>5. Typed(u, p) /\ u.reports = <<>> /\ OpenedFrom(s.ftp, u.ftp, r.size)
    <2>1. OpenedTo(s, u, r.size, p)
      BY <1>1, <1>2, OpenedFacts
    <2> QED
      BY <1>1, <2>1 DEF OpenedTo
  <1>6. /\ Typed(v, p) /\ v.reports = s.reports
        /\ v.ftp = [s.ftp EXCEPT !.fileSize = r.size]
    <2>1. SizedTo(s, v, r.size, p)
      BY <1>1, <1>2, SizeSet
    <2> QED
      BY <2>1 DEF SizedTo
  <1>a. v.ftp.local = s.ftp.local
    BY <1>1, <1>6 DEF Typed, ManagerType, FtpType
  <1> HIDE DEF u, v
  <1>7. CASE r.ack /\ t = BurstRead(u)
    <2>1. u.ftp.local = {} /\ u.ftp.missing = <<>> /\ u.ftp.bytesWritten = 0
      BY <1>5 DEF OpenedFrom, Going, Account
    <2>2. Solid(u.ftp) /\ Seen(u.ftp) = 0 .. (0 - 1)
      BY <2>1, NothingSeen
    <2>3. u.ftp.expectedOffset = 0 /\ u.ftp.fileSize \in Z /\ u.ftp.retryCount = s.ftp.retryCount
      BY <1>5, <1>7 DEF OpenedFrom
    <2>4. In(u.ftp, 1) /\ Reading(u.ftp) /\ Busy(u.ftp)
      BY <1>5 DEF OpenedFrom, In, Reading, Busy
    <2>5. Account(u.ftp, B, Z)
      <3>1. ~In(u.ftp, 0) /\ ~In(u.ftp, 2) /\ ~In(u.ftp, 3)
        BY <2>4 DEF In
      <3>2. u.ftp.local \subseteq B
        BY <2>1
      <3>3. \E n \in Nat : Seen(u.ftp) = 0 .. (n - 1)
        BY <2>2, Names
      <3>4. Seen(u.ftp) = 0 .. (u.ftp.expectedOffset - 1)
        BY <2>2, <2>3
      <3> QED
        BY <2>2, <2>3, <3>1, <3>2, <3>3, <3>4 DEF Account
    <2>6. Going(u, p, B, Z)
      BY <1>5, <2>3, <2>4, <2>5 DEF Going
    <2> QED
      BY <1>7, <2>6, BurstReadWaits DEF Leaves
  <1>8. CASE t = DownloadComplete(v, "Download failed")
    <2>1. v.reports = <<>> /\ v.ftp.local \subseteq B
      BY <1>1, <1>6, <1>a
    <2> QED
      BY <1>3, <1>6, <1>8, <2>1, FailedEnds DEF Leaves
  <1>9. CASE t = DownloadComplete(s, "Download failed")
    BY <1>1, <1>3, <1>9, FailedEnds DEF Leaves
  <1> QED
    BY <1>4, <1>7, <1>8, <1>9

(* A block is written.                                                        *)
WrittenFrom(f, g, r) ==
    /\ g.path = f.path /\ g.machine = f.machine /\ g.index = f.index
    /\ g.expectedOffset = f.expectedOffset /\ g.bytesWritten = f.bytesWritten + 1
    /\ g.missing = f.missing /\ g.fileSize = f.fileSize /\ g.retryCount = f.retryCount
    /\ g.checksize = f.checksize
    /\ g.local = {b \in f.local : b[2] # r.offset} \cup {<<r.file, r.offset>>}

WrittenTo(s, t, r, p) ==
    Typed(t, p) /\ WrittenFrom(s.ftp, t.ftp, r) /\ t.reports = s.reports /\ Silent(s, t)

LEMMA WrittenFacts ==
    ASSUME NEW p, NEW s, Typed(s, p), NEW r \in AnswerType, NEW t, t = Written(s, r)
    PROVE  WrittenTo(s, t, r, p)
  <1> DEFINE l == {b \in s.ftp.local : b[2] # r.offset} \cup {<<r.file, r.offset>>}
             n == s.ftp.bytesWritten + 1
             g == [s.ftp EXCEPT !.local = l, !.bytesWritten = n]
  <1>1. s.ftp \in FtpType /\ s \in ManagerType(p) /\ r.offset \in Nat /\ r.file \in Nat
    BY DEF Typed, ManagerType, AnswerType
  <1>2. l \in SUBSET (Nat \X Nat) /\ n \in Nat
    BY SMTT(30), <1>1 DEF FtpType
  <1>3. t = [s EXCEPT !.ftp = g]
    BY <1>1 DEF Written, ManagerType, FtpType
  <1>a. /\ l = {b \in s.ftp.local : b[2] # r.offset} \cup {<<r.file, r.offset>>}
        /\ n = s.ftp.bytesWritten + 1
    OBVIOUS
  <1> HIDE DEF l, n
  <1>4. g \in FtpType
    BY <1>1, <1>2 DEF FtpType
  <1>5. /\ WrittenFrom(s.ftp, g, r) /\ g.expectedSeq = s.ftp.expectedSeq
        /\ g.fileOpen = s.ftp.fileOpen
    BY <1>1, <1>2, <1>a DEF FtpType, WrittenFrom
  <1>6. g.path = s.ftp.path /\ g.checksize = s.ftp.checksize
    BY <1>5 DEF WrittenFrom
  <1> HIDE DEF g
  <1>7. Replaced(s, t, g, p)
    BY <1>3, <1>4, <1>6, StateReplaced
  <1> QED
    BY <1>5, <1>7 DEF Replaced, WrittenTo, Silent

(* A block beyond what was seen: what is between is a hole, and everything    *)
(* before the next block is seen.                                             *)
NextFrom(f, g, r) ==
    /\ g.path = f.path /\ g.machine = f.machine /\ g.index = f.index
    /\ g.expectedOffset = r.offset + 1 /\ g.fileSize = f.fileSize
    /\ g.retryCount = f.retryCount /\ g.checksize = f.checksize
    /\ Solid(g) /\ Seen(g) = 0 .. r.offset

SkippedTo(s, t, r, p) ==
    /\ Typed(t, p) /\ t.reports = s.reports /\ Silent(s, t) /\ t.ftp.local = s.ftp.local
    /\ t.ftp.path = s.ftp.path /\ t.ftp.machine = s.ftp.machine /\ t.ftp.index = s.ftp.index
    /\ t.ftp.fileSize = s.ftp.fileSize /\ t.ftp.retryCount = s.ftp.retryCount
    /\ t.ftp.bytesWritten = s.ftp.bytesWritten /\ t.ftp.checksize = s.ftp.checksize
    /\ HolesInOrder(t.ftp.missing)
    /\ HolesIn(t.ftp.missing) =
          HolesIn(s.ftp.missing) \cup (s.ftp.expectedOffset .. (r.offset - 1))

LEMMA SkippedFacts ==
    ASSUME NEW p, NEW s, Typed(s, p), Solid(s.ftp), Seen(s.ftp) = 0 .. (s.ftp.expectedOffset - 1),
           NEW r \in AnswerType, ~(r.offset < s.ftp.expectedOffset),
           NEW t, t = Skipped(s, r)
    PROVE  SkippedTo(s, t, r, p)
  <1> DEFINE e == s.ftp.expectedOffset
             h == [offset |-> e, count |-> r.offset - e]
             q == Append(s.ftp.missing, h)
             g == [s.ftp EXCEPT !.missing = q]
  <1>1. s.ftp \in FtpType /\ s \in ManagerType(p)
    BY DEF Typed, ManagerType
  <1>2. r.offset \in Nat /\ e \in Nat /\ s.ftp.missing \in Seq(HoleType)
    BY <1>1 DEF AnswerType, FtpType
  <1>3. HolesInOrder(s.ftp.missing)
    BY DEF Solid
  <1>4. CASE r.offset > e
    <2>1. h \in HoleType /\ h.offset = e
      BY <1>2, <1>4 DEF HoleType
    <2>2. \A o \in HolesIn(s.ftp.missing) : o < e
      <3>1. HolesIn(s.ftp.missing) \subseteq 0 .. (e - 1)
        BY DEF Seen
      <3> QED
        BY <3>1, <1>2
    <2>3. OffsetsOf(h) = e .. (r.offset - 1)
      BY <1>2, <1>4 DEF OffsetsOf
    <2>4. t = [s EXCEPT !.ftp = g]
      BY <1>1, <1>4 DEF Skipped
    <2> HIDE DEF h
    <2>5. /\ q \in Seq(HoleType)
          /\ HolesInOrder(q)
          /\ HolesIn(q) = HolesIn(s.ftp.missing) \cup OffsetsOf(h)
      BY <1>2, <1>3, <2>1, <2>2, HoleAdded
    <2> HIDE DEF q
    <2>6. /\ g \in FtpType /\ g.path = s.ftp.path /\ g.checksize = s.ftp.checksize
          /\ g.machine = s.ftp.machine /\ g.index = s.ftp.index /\ g.local = s.ftp.local
          /\ g.missing = q /\ g.fileSize = s.ftp.fileSize
          /\ g.bytesWritten = s.ftp.bytesWritten /\ g.retryCount = s.ftp.retryCount
          /\ g.expectedSeq = s.ftp.expectedSeq /\ g.fileOpen = s.ftp.fileOpen
      BY <1>1, <2>5 DEF FtpType
    <2> HIDE DEF g
    <2>7. Replaced(s, t, g, p)
      BY <2>4, <2>6, StateReplaced
    <2> QED
      BY <2>3, <2>5, <2>6, <2>7 DEF Replaced, SkippedTo, Silent
  <1>5. CASE ~(r.offset > e)
    <2>1. t = s
      BY <1>5 DEF Skipped
    <2>2. e .. (r.offset - 1) = {}
      BY <1>2, <1>5
    <2> QED
      BY <2>1, <2>2, <1>3 DEF SkippedTo, Silent
  <1> QED
    BY <1>4, <1>5

LEMMA BurstBlockSeen ==
    ASSUME NEW p, NEW s, Typed(s, p), Solid(s.ftp), Seen(s.ftp) = 0 .. (s.ftp.expectedOffset - 1),
           NEW r \in AnswerType, ~(r.offset < s.ftp.expectedOffset),
           NEW u, SkippedTo(s, u, r, p), NEW w, WrittenTo(u, w, r, p),
           NEW g, g.local = w.ftp.local, g.missing = w.ftp.missing,
           g.bytesWritten = w.ftp.bytesWritten
    PROVE  Solid(g) /\ Seen(g) = 0 .. r.offset
  <1> DEFINE e == s.ftp.expectedOffset
             L == OffsetsIn(s.ftp.local)
             H == HolesIn(s.ftp.missing)
  <1>1. s.ftp \in FtpType /\ r.offset \in Nat /\ r.file \in Nat
    BY DEF Typed, ManagerType, AnswerType
  <1>2. e \in Nat /\ s.ftp.local \in SUBSET (Nat \X Nat) /\ e <= r.offset
    BY <1>1 DEF FtpType
  <1>3. /\ g.local = {b \in s.ftp.local : b[2] # r.offset} \cup {<<r.file, r.offset>>}
        /\ g.missing = u.ftp.missing /\ g.bytesWritten = s.ftp.bytesWritten + 1
    BY DEF WrittenTo, WrittenFrom, SkippedTo
  <1>4. OffsetsIn(g.local) = L \cup {r.offset}
    <2> DEFINE l == s.ftp.local
               o == r.offset
               file == r.file
               m == g.local
    <2>1. l \in BlockSets /\ file \in Nat /\ o \in Nat
      BY <1>1, <1>2 DEF BlockSets
    <2>2. m = Overwritten(l, file, o)
      BY <1>3 DEF Overwritten
    <2> HIDE DEF l, o, file, m
    <2>3. m \in BlockSets /\ OffsetsIn(m) = OffsetsIn(l) \cup {o}
      BY <2>1, <2>2, OffsetWritten
    <2> QED
      BY <2>3 DEF l, o, m
  <1>5. HolesIn(g.missing) = H \cup (e .. (r.offset - 1)) /\ HolesInOrder(g.missing)
    BY <1>3 DEF SkippedTo
  <1>6. IsFiniteSet(L) /\ s.ftp.bytesWritten = Cardinality(L) /\ L \cap H = {}
    BY DEF Solid
  <1>7. L \cup H = 0 .. (e - 1)
    BY DEF Seen
  <1> HIDE DEF e, L, H
  <1>8. r.offset \notin L /\ r.offset \notin H
    BY <1>1, <1>2, <1>7
  <1>9. IsFiniteSet(L \cup {r.offset}) /\ Cardinality(L \cup {r.offset}) = Cardinality(L) + 1
    BY <1>6, <1>8, OffsetCounts
  <1>10. (L \cup {r.offset}) \cap (H \cup (e .. (r.offset - 1))) = {}
    <2>1. \A x \in L : x \in 0 .. (e - 1)
      BY <1>7
    <2>2. \A x \in L : x \notin e .. (r.offset - 1)
      BY <2>1, <1>1, <1>2
    <2>3. r.offset \notin e .. (r.offset - 1)
      BY <1>1, <1>2
    <2> QED
      BY <2>2, <2>3, <1>6, <1>8
  <1>11. L \cup {r.offset} \cup H \cup (e .. (r.offset - 1)) = 0 .. r.offset
    <2>1. 0 .. r.offset = (0 .. (e - 1)) \cup (e .. (r.offset - 1)) \cup {r.offset}
      BY <1>1, <1>2
    <2> QED
      BY <2>1, <1>7
  <1> QED
    BY <1>3, <1>4, <1>5, <1>6, <1>9, <1>10, <1>11 DEF Solid, Seen

(* The timer alone.                                                           *)
LEMMA TimerGoes ==
    ASSUME NEW p, NEW B, NEW Z, NEW s, Going(s, p, B, Z), NEW t, t = TimerStarted(s)
    PROVE  Waiting(t, p, B, Z)
  <1> DEFINE g == [s.ftp EXCEPT !.timer = TRUE]
  <1>1. s.ftp \in FtpType /\ Typed(s, p)
    BY GoingIsTyped DEF Going
  <1>2. t = [s EXCEPT !.ftp = g]
    BY DEF TimerStarted
  <1>3. g \in FtpType /\ Kept(s.ftp, g) /\ g.timer = TRUE
    BY <1>1 DEF FtpType, Kept
  <1>4. g.path = s.ftp.path /\ g.checksize = s.ftp.checksize
    BY <1>3 DEF Kept
  <1> HIDE DEF g
  <1>5. Replaced(s, t, g, p)
    BY <1>1, <1>2, <1>3, <1>4, StateReplaced
  <1>6. Account(g, B, Z)
    BY <1>3, AccountKept DEF Going
  <1>7. Busy(g) /\ g.retryCount <= MaxRetry
    BY <1>3 DEF Kept, Going, Busy, In, Reading, Ending
  <1> QED
    BY <1>3, <1>5, <1>6, <1>7 DEF Replaced, Waiting, Going

LEMMA NumberGoes ==
    ASSUME NEW p, NEW B, NEW Z, NEW s, Going(s, p, B, Z), NEW n \in Numbers,
           NEW t, t = [s EXCEPT !.ftp.expectedSeq = n]
    PROVE  Going(t, p, B, Z) /\ Kept(s.ftp, t.ftp)
  <1> DEFINE g == [s.ftp EXCEPT !.expectedSeq = n]
  <1>1. s.ftp \in FtpType /\ Typed(s, p)
    BY GoingIsTyped DEF Going
  <1>2. t = [s EXCEPT !.ftp = g]
    OBVIOUS
  <1>3. g \in FtpType /\ Kept(s.ftp, g)
    BY <1>1 DEF FtpType, Kept
  <1>4. g.path = s.ftp.path /\ g.checksize = s.ftp.checksize
    BY <1>3 DEF Kept
  <1> HIDE DEF g
  <1>5. Replaced(s, t, g, p)
    BY <1>1, <1>2, <1>3, <1>4, StateReplaced
  <1>6. Account(g, B, Z)
    BY <1>3, AccountKept DEF Going
  <1>7. Busy(g) /\ g.retryCount <= MaxRetry
    BY <1>3 DEF Kept, Going, Busy, In, Reading, Ending
  <1> QED
    BY <1>3, <1>5, <1>6, <1>7 DEF Replaced, Going

(* A block of a burst is written and the download goes on after it.           *)
LEMMA BurstBlockGoes ==
    ASSUME NEW p, NEW B, NEW Z, NEW s, Going(s, p, B, Z), In(s.ftp, 1),
           NEW r \in AnswerType, ~(r.offset < s.ftp.expectedOffset), <<r.file, r.offset>> \in B,
           NEW u, SkippedTo(s, u, r, p), NEW w, WrittenTo(u, w, r, p),
           NEW t, t = [w EXCEPT !.ftp.expectedOffset = r.offset + 1]
    PROVE  Going(t, p, B, Z)
  <1> DEFINE o == r.offset + 1
             g == [w.ftp EXCEPT !.expectedOffset = o]
  <1>1. Typed(w, p) /\ w.ftp \in FtpType /\ Typed(s, p)
    BY DEF WrittenTo, Typed, ManagerType, Going
  <1>2. r.offset \in Nat /\ o \in Nat /\ o - 1 = r.offset
    BY DEF AnswerType
  <1>3. t = [w EXCEPT !.ftp = g]
    OBVIOUS
  <1> HIDE DEF o
  <1>4. /\ g \in FtpType /\ g.path = w.ftp.path /\ g.checksize = w.ftp.checksize
        /\ g.machine = w.ftp.machine /\ g.index = w.ftp.index /\ g.local = w.ftp.local
        /\ g.missing = w.ftp.missing /\ g.fileSize = w.ftp.fileSize
        /\ g.bytesWritten = w.ftp.bytesWritten /\ g.retryCount = w.ftp.retryCount
        /\ g.expectedOffset = o
    BY <1>1, <1>2 DEF FtpType
  <1> HIDE DEF g
  <1>5. Replaced(w, t, g, p)
    BY <1>1, <1>3, <1>4, StateReplaced
  <1>6. Reading(s.ftp)
    BY DEF In, Reading
  <1>7. Solid(s.ftp) /\ Seen(s.ftp) = 0 .. (s.ftp.expectedOffset - 1) /\ s.ftp.fileSize \in Z
    BY <1>6 DEF Going, Account
  <1>8. Solid(g) /\ Seen(g) = 0 .. r.offset
    BY <1>1, <1>4, <1>7, BurstBlockSeen
  <1>9. /\ g.machine = s.ftp.machine /\ g.index = s.ftp.index /\ g.fileSize = s.ftp.fileSize
        /\ g.retryCount = s.ftp.retryCount
        /\ g.local = {b \in s.ftp.local : b[2] # r.offset} \cup {<<r.file, r.offset>>}
    BY <1>4 DEF WrittenTo, WrittenFrom, SkippedTo
  <1>10. In(g, 1) /\ Reading(g) /\ Busy(g) /\ ~In(g, 0) /\ ~In(g, 2) /\ ~In(g, 3)
    BY <1>9 DEF In, Reading, Busy
  <1>11. g.local \subseteq B
    BY <1>9 DEF Going, Account
  <1>12. Account(g, B, Z)
    <2>1. Seen(g) = 0 .. (g.expectedOffset - 1)
      BY <1>2, <1>4, <1>8
    <2>2. \E n \in Nat : Seen(g) = 0 .. (n - 1)
      BY <1>2, <1>4, <2>1
    <2> QED
      BY <1>7, <1>8, <1>9, <1>10, <1>11, <2>1, <2>2 DEF Account
  <1>13. t.reports = <<>>
    BY <1>5 DEF Replaced, WrittenTo, SkippedTo, Going
  <1> QED
    BY <1>5, <1>9, <1>10, <1>12, <1>13 DEF Going, Replaced

LEMMA BurstBlockWaits ==
    ASSUME NEW p \in DOMAIN Downloads, NEW B, NEW Z, NEW s, Going(s, p, B, Z), In(s.ftp, 1),
           NEW r \in AnswerType, ~(r.offset < s.ftp.expectedOffset), <<r.file, r.offset>> \in B,
           NEW u, SkippedTo(s, u, r, p), NEW w, WrittenTo(u, w, r, p),
           NEW t, t = BurstBlock(w, r)
    PROVE  Waiting(t, p, B, Z)
  <1> DEFINE next == [w EXCEPT !.ftp.expectedOffset = r.offset + 1]
             n == (r.seq + 1) % SeqNumbers
  <1>1. Going(next, p, B, Z)
    BY BurstBlockGoes
  <1>2. r.seq \in Numbers /\ r.seq \in Int
    BY FtpAssumption DEF AnswerType, Numbers
  <1>3. n \in Numbers
    BY <1>2, NumbersAreModulo
  <1>4. \/ t = BurstRead([next EXCEPT !.ftp.expectedSeq = r.seq])
        \/ t = TimerStarted([next EXCEPT !.ftp.expectedSeq = n])
    BY DEF BurstBlock
  <1> HIDE DEF next, n
  <1>5. CASE t = BurstRead([next EXCEPT !.ftp.expectedSeq = r.seq])
    <2> DEFINE v == [next EXCEPT !.ftp.expectedSeq = r.seq]
    <2>1. Going(v, p, B, Z)
      BY <1>1, <1>2, NumberGoes
    <2>2. t = BurstRead(v)
      BY <1>5
    <2> HIDE DEF v
    <2> QED
      BY <2>1, <2>2, BurstReadWaits
  <1>6. CASE t = TimerStarted([next EXCEPT !.ftp.expectedSeq = n])
    <2> DEFINE v == [next EXCEPT !.ftp.expectedSeq = n]
    <2>1. Going(v, p, B, Z)
      BY <1>1, <1>3, NumberGoes
    <2>2. t = TimerStarted(v)
      BY <1>6
    <2> HIDE DEF v
    <2> QED
      BY <2>1, <2>2, TimerGoes
  <1> QED
    BY <1>4, <1>5, <1>6

LEMMA SavedLeaves ==
    ASSUME NEW p \in DOMAIN Downloads, NEW B, NEW Z, NEW s, Typed(s, p),
           s.reports = <<>>, s.ftp.local \subseteq B, NEW next, Leaves(next, p, B, Z),
           NEW t \in Saved(s, next)
    PROVE  Leaves(t, p, B, Z)
  <1>1. t = next \/ t = DownloadComplete(s, "Error saving file")
    BY DEF Saved
  <1>2. "Error saving file" \in Error \ {"none"}
    BY DEF Error
  <1>3. CASE t = DownloadComplete(s, "Error saving file")
    BY <1>2, <1>3, FailedEnds DEF Leaves
  <1> QED
    BY <1>1, <1>3

LEMMA BurstAckLeaves ==
    ASSUME NEW p \in DOMAIN Downloads, NEW B, NEW Z, NEW s, Going(s, p, B, Z), In(s.ftp, 1),
           NEW r \in AnswerType, <<r.file, r.offset>> \in B,
           NEW t \in BurstAcked(s, r)
    PROVE  Leaves(t, p, B, Z) \/ (r.seq < s.ftp.expectedSeq /\ t = s)
  <1>1. CASE r.seq < s.ftp.expectedSeq
    BY <1>1 DEF BurstAcked
  <1>2. CASE ~(r.seq < s.ftp.expectedSeq) /\ r.offset < s.ftp.expectedOffset
    <2>1. t = TimerStarted(s)
      BY <1>2 DEF BurstAcked
    <2> QED
      BY <2>1, TimerGoes DEF Leaves
  <1>3. CASE ~(r.seq < s.ftp.expectedSeq) /\ ~(r.offset < s.ftp.expectedOffset)
    <2> DEFINE u == Skipped(s, r)
               w == Written(u, r)
               next == BurstBlock(w, r)
    <2>1. t \in Saved(u, next)
      BY <1>3 DEF BurstAcked
    <2>2. Reading(s.ftp) /\ Typed(s, p)
      BY DEF In, Reading, Going
    <2>3. Solid(s.ftp) /\ Seen(s.ftp) = 0 .. (s.ftp.expectedOffset - 1)
      BY <2>2 DEF Going, Account
    <2>4. SkippedTo(s, u, r, p)
      BY <1>3, <2>2, <2>3, SkippedFacts
    <2>5. WrittenTo(u, w, r, p)
      BY <2>4, WrittenFacts DEF SkippedTo
    <2> HIDE DEF u, w
    <2>6. Waiting(next, p, B, Z)
      BY <1>3, <2>4, <2>5, BurstBlockWaits
    <2> HIDE DEF next
    <2>7. Typed(u, p) /\ u.reports = <<>> /\ u.ftp.local \subseteq B
      BY <2>4 DEF SkippedTo, Going, Account
    <2>8. Leaves(next, p, B, Z)
      BY <2>6 DEF Leaves
    <2> QED
      BY <2>1, <2>7, <2>8, SavedLeaves
  <1> QED
    BY <1>1, <1>2, <1>3

(* The end of the bursts.                                                     *)
LEMMA BurstsEnd ==
    ASSUME NEW p \in DOMAIN Downloads, NEW B, NEW Z, NEW s, Going(s, p, B, Z), In(s.ftp, 1),
           NEW t, t = FillMissing(Advanced(s))
    PROVE  Leaves(t, p, B, Z)
  <1> DEFINE u == Advanced(s)
  <1>1. Typed(s, p) /\ Reading(s.ftp)
    BY DEF Going, In, Reading
  <1>2. AdvancedTo(s, u, p)
    BY <1>1, AdvancedFacts
  <1>3. t = FillMissing(u)
    OBVIOUS
  <1> HIDE DEF u
  <1>4. Typed(u, p) /\ AdvancedFrom(s.ftp, u.ftp) /\ u.reports = s.reports
    BY <1>2 DEF AdvancedTo
  <1>5. In(u.ftp, 2)
    BY <1>4 DEF AdvancedFrom, In
  <1>6. Solid(u.ftp) /\ Seen(u.ftp) = Seen(s.ftp)
    BY <1>1, <1>4 DEF AdvancedFrom, Going, Account, Solid, Seen
  <1>7. /\ u.ftp.local = s.ftp.local /\ u.ftp.fileSize = s.ftp.fileSize
        /\ u.ftp.retryCount = s.ftp.retryCount
    BY <1>4 DEF AdvancedFrom
  <1>8. Filling(u, p, B, Z)
    BY <1>1, <1>4, <1>5, <1>6, <1>7 DEF Going, Account, Filling
  <1> QED
    BY <1>3, <1>8, FillMissingLeaves

LEMMA BurstLeaves ==
    ASSUME NEW p \in DOMAIN Downloads, NEW B, NEW Z, NEW s, Going(s, p, B, Z), In(s.ftp, 1),
           NEW r \in AnswerType, r.ack => <<r.file, r.offset>> \in B,
           NEW t \in BurstAnswered(s, r)
    PROVE  Leaves(t, p, B, Z) \/ (r.seq < s.ftp.expectedSeq /\ t = s)
  <1>1. r.ack \in BOOLEAN /\ r.eof \in BOOLEAN /\ r.seq \in Numbers
    BY DEF AnswerType
  <1>2. CASE r.ack
    <2>1. t \in BurstAcked(s, r)
      BY <1>2 DEF BurstAnswered
    <2> QED
      BY <1>2, <2>1, BurstAckLeaves
  <1>3. CASE ~r.ack /\ r.eof /\ r.seq # s.ftp.expectedSeq
    <2> DEFINE u == [s EXCEPT !.ftp.expectedSeq = r.seq]
    <2>1. t = BurstRead(u)
      BY <1>3 DEF BurstAnswered
    <2>2. Going(u, p, B, Z)
      BY <1>1, NumberGoes
    <2> HIDE DEF u
    <2> QED
      BY <2>1, <2>2, BurstReadWaits DEF Leaves
  <1>4. CASE ~r.ack /\ r.eof /\ r.seq = s.ftp.expectedSeq
    <2>1. t = FillMissing(Advanced(s))
      BY <1>4 DEF BurstAnswered
    <2> QED
      BY <2>1, BurstsEnd
  <1>5. CASE ~r.ack /\ ~r.eof
    <2>1. t = DownloadComplete(s, "Download failed")
      BY <1>5 DEF BurstAnswered
    <2>2. "Download failed" \in Error \ {"none"}
      BY DEF Error
    <2>3. Typed(s, p) /\ s.reports = <<>> /\ s.ftp.local \subseteq B
      BY DEF Going, Account
    <2> QED
      BY <2>1, <2>2, <2>3, FailedEnds DEF Leaves
  <1> QED
    BY <1>1, <1>2, <1>3, <1>4, <1>5

(* A block asked for is read: the hole it was the first of closes.            *)
Closes(f, g) ==
    /\ Seen(g) = Seen(f) /\ g.path = f.path /\ g.checksize = f.checksize
    /\ g.fileSize = f.fileSize

LEMMA HoleCloses ==
    ASSUME NEW p \in DOMAIN Downloads, NEW B, NEW Z, NEW s, Filling(s, p, B, Z),
           s.ftp.missing # <<>>, NEW r \in AnswerType, r.offset = Head(s.ftp.missing).offset,
           <<r.file, r.offset>> \in B, NEW w, WrittenTo(s, w, r, p),
           NEW t, t = [w EXCEPT !.ftp.missing = HoleShrunk(@)]
    PROVE  Filling(t, p, B, Z) /\ Closes(s.ftp, t.ftp) /\ Silent(s, t)
  <1> DEFINE q == HoleShrunk(s.ftp.missing)
             g == [w.ftp EXCEPT !.missing = q]
             l == s.ftp.local
             o == r.offset
             file == r.file
             m == w.ftp.local
             L == OffsetsIn(l)
             H == HolesIn(s.ftp.missing)
  <1>1. Typed(w, p) /\ w.ftp \in FtpType /\ Typed(s, p) /\ s.ftp \in FtpType
    BY DEF WrittenTo, Typed, ManagerType, Filling
  <1>2. /\ w.ftp.machine = s.ftp.machine /\ w.ftp.index = s.ftp.index
        /\ w.ftp.bytesWritten = s.ftp.bytesWritten + 1 /\ w.ftp.missing = s.ftp.missing
        /\ w.ftp.fileSize = s.ftp.fileSize /\ w.ftp.retryCount = s.ftp.retryCount
        /\ w.ftp.local = {b \in l : b[2] # o} \cup {<<file, o>>}
        /\ w.reports = <<>>
    BY DEF WrittenTo, WrittenFrom, Filling
  <1>3. l \in BlockSets /\ o \in Nat /\ file \in Nat /\ s.ftp.missing \in Seq(HoleType)
    BY <1>1 DEF FtpType, AnswerType, BlockSets
  <1>4. Solid(s.ftp)
    BY DEF Filling
  <1>5. HolesInOrder(s.ftp.missing) /\ IsFiniteSet(L) /\ L \cap H = {}
        /\ s.ftp.bytesWritten = Cardinality(L)
    BY <1>4 DEF Solid
  <1>6. /\ q \in Seq(HoleType) /\ HolesInOrder(q) /\ HolesIn(q) = H \ {o} /\ o \in H
    <2> DEFINE holes == s.ftp.missing
    <2>1. holes \in Seq(HoleType) /\ holes # <<>> /\ HolesInOrder(holes)
      BY <1>3, <1>5
    <2>2. o = Head(holes).offset /\ q = HoleShrunk(holes) /\ H = HolesIn(holes)
      OBVIOUS
    <2> HIDE DEF holes, q, o, H
    <2>3. /\ q \in Seq(HoleType)
          /\ HolesInOrder(q)
          /\ HolesIn(q) = HolesIn(holes) \ {Head(holes).offset}
          /\ Head(holes).offset \in HolesIn(holes)
      BY <2>1, <2>2, HoleShrinks
    <2> QED
      BY <2>2, <2>3
  <1>7. t = [w EXCEPT !.ftp = g]
    BY <1>2
  <1>8. OffsetsIn(m) = L \cup {o}
    <2>1. m = Overwritten(l, file, o)
      BY <1>2 DEF Overwritten
    <2> HIDE DEF l, o, file, m
    <2>2. m \in BlockSets /\ OffsetsIn(m) = OffsetsIn(l) \cup {o}
      BY <1>3, <2>1, OffsetWritten
    <2> QED
      BY <2>2 DEF L
  <1>9. m \subseteq B
    BY <1>2 DEF Filling
  <1>10. \E n \in Nat : L \cup H = 0 .. (n - 1)
    BY DEF Filling, Seen
  <1>11. w.ftp.path = s.ftp.path /\ w.ftp.checksize = s.ftp.checksize
    BY DEF WrittenTo, WrittenFrom
  <1>12. /\ g \in FtpType /\ g.path = w.ftp.path /\ g.checksize = w.ftp.checksize
         /\ g.machine = s.ftp.machine /\ g.index = s.ftp.index /\ g.local = m
         /\ g.missing = q /\ g.fileSize = s.ftp.fileSize
         /\ g.bytesWritten = s.ftp.bytesWritten + 1 /\ g.retryCount = s.ftp.retryCount
         /\ g.expectedSeq = w.ftp.expectedSeq /\ g.fileOpen = w.ftp.fileOpen
    <2> HIDE DEF q, l, o, file
    <2> QED
      BY <1>1, <1>2, <1>6 DEF FtpType
  <1> HIDE DEF g, q, l, o, file, m, L, H
  <1>13. Replaced(w, t, g, p)
    BY <1>1, <1>7, <1>12, StateReplaced
  <1>14. o \notin L
    BY <1>5, <1>6
  <1>15. IsFiniteSet(L \cup {o}) /\ Cardinality(L \cup {o}) = Cardinality(L) + 1
    BY <1>5, <1>14, OffsetCounts
  <1>16. (L \cup {o}) \cap (H \ {o}) = {} /\ (L \cup {o}) \cup (H \ {o}) = L \cup H
    BY <1>5, <1>6
  <1>a. OffsetsIn(g.local) \cup HolesIn(g.missing) = L \cup H
    BY <1>6, <1>8, <1>12, <1>16
  <1>b. Seen(g) = Seen(s.ftp)
    BY <1>a DEF Seen, L, H, l
  <1>17. Solid(g) /\ \E n \in Nat : Seen(g) = 0 .. (n - 1)
    BY <1>5, <1>6, <1>8, <1>10, <1>12, <1>15, <1>16 DEF Solid, Seen
  <1>18. In(g, 2)
    BY <1>12 DEF In, Filling
  <1>19. Filling(t, p, B, Z)
    BY <1>2, <1>9, <1>12, <1>13, <1>17, <1>18 DEF Replaced, Filling
  <1>20. t.ftp = g /\ t.sent = w.sent
    BY <1>13 DEF Replaced
  <1>21. Closes(s.ftp, t.ftp)
    BY <1>11, <1>12, <1>20, <1>b DEF Closes
  <1>22. Silent(s, t)
    BY <1>12, <1>20 DEF WrittenTo, Silent
  <1> QED
    BY <1>19, <1>21, <1>22

LEMMA FillLeaves ==
    ASSUME NEW p \in DOMAIN Downloads, NEW B, NEW Z, NEW s, Going(s, p, B, Z), In(s.ftp, 2),
           NEW r \in AnswerType, r.ack => <<r.file, r.offset>> \in B,
           NEW t \in FillAnswered(s, r)
    PROVE  Leaves(t, p, B, Z)
  <1>1. r.ack \in BOOLEAN /\ r.eof \in BOOLEAN
    BY DEF AnswerType
  <1>2. Typed(s, p) /\ s.reports = <<>> /\ s.ftp.local \subseteq B
    BY DEF Going, Account
  <1>3. Reading(s.ftp)
    BY DEF In, Reading
  <1>4. /\ Filling(s, p, B, Z) /\ s.ftp.missing # <<>>
        /\ s.ftp.expectedOffset = Head(s.ftp.missing).offset
    BY <1>3 DEF Going, Account, Filling
  <1>5. CASE r.ack /\ r.offset # s.ftp.expectedOffset
    <2> DEFINE u == Counted(s)
               again == FillMissingAgain(u)
    <2>1. t = Retry(s, again)
      BY <1>5 DEF FillAnswered
    <2>2. RecountedTo(s, u, s.ftp.retryCount + 1, p)
      BY CountedFacts
    <2>3. In(u.ftp, 2)
      BY <2>2 DEF RecountedTo, Recounted, In
    <2>4. ASSUME Going(u, p, B, Z)
          PROVE  Waiting(again, p, B, Z)
      <3> HIDE DEF u
      <3> QED
        BY <2>3, <2>4, FillMissingAgainWaits
    <2>5. Going(Counted(s), p, B, Z) => Waiting(again, p, B, Z)
      BY <2>4
    <2> HIDE DEF again
    <2> QED
      BY <2>1, <2>5, RetryLeaves
  <1>6. CASE r.ack /\ r.offset = s.ftp.expectedOffset
    <2> DEFINE w == Written(s, r)
               v == [w EXCEPT !.ftp.missing = HoleShrunk(@)]
               next == FillMissing(v)
    <2>1. t \in Saved(s, next)
      BY <1>6 DEF FillAnswered, FillBlock
    <2>2. WrittenTo(s, w, r, p)
      BY <1>2, WrittenFacts
    <2> HIDE DEF w
    <2>3. Filling(v, p, B, Z)
      BY <1>4, <1>6, <2>2, HoleCloses
    <2> HIDE DEF v
    <2>4. Leaves(next, p, B, Z)
      BY <2>3, FillMissingLeaves
    <2> HIDE DEF next
    <2> QED
      BY <1>2, <2>1, <2>4, SavedLeaves
  <1>7. CASE ~r.ack
    <2>1. \/ Complete(s) /\ t = ResetBegin(Advanced(s))
          \/ t = DownloadComplete(s, "Download failed")
      BY <1>7 DEF FillAnswered
    <2>2. "Download failed" \in Error \ {"none"}
      BY DEF Error
    <2>3. CASE Complete(s) /\ t = ResetBegin(Advanced(s))
      BY <1>4, <2>3, AdvancesToReset DEF Leaves
    <2>4. CASE t = DownloadComplete(s, "Download failed")
      BY <1>2, <2>2, <2>4, FailedEnds DEF Leaves
    <2> QED
      BY <2>1, <2>3, <2>4
  <1> QED
    BY <1>1, <1>5, <1>6, <1>7

(* The sessions are reset, or given up waiting for: a success.                *)
LEMMA SuccessEnds ==
    ASSUME NEW p \in DOMAIN Downloads, NEW B, NEW Z, NEW s, Going(s, p, B, Z), In(s.ftp, 3),
           NEW t, t = DownloadComplete(s, "none")
    PROVE  Over(t, p, B, Z)
  <1>1. Typed(s, p) /\ s.reports = <<>> /\ s.ftp.local \subseteq B
    BY DEF Going, Account
  <1>2. Reading(s.ftp)
    BY DEF In, Reading
  <1>3. /\ Solid(s.ftp) /\ s.ftp.fileSize \in Z
        /\ s.ftp.checksize => s.ftp.bytesWritten = s.ftp.fileSize
    BY <1>2 DEF Going, Account
  <1>4. s.ftp.checksize = Downloads[p].checksize
    BY <1>1 DEF Typed
  <1>5. /\ IsFiniteSet(OffsetsIn(s.ftp.local))
        /\ Downloads[p].checksize => Cardinality(OffsetsIn(s.ftp.local)) \in Z
    BY <1>3, <1>4 DEF Solid
  <1>6. "none" \in Error
    BY DEF Error
  <1> QED
    BY <1>1, <1>5, <1>6, DownloadEnds

-----------------------------------------------------------------------------
(* The actions of the manager: what they make of a download under way.        *)
Downloading(B, Z) ==
    /\ ftp \in FtpType /\ Busy(ftp) /\ ftp.retryCount <= MaxRetry
    /\ ftp.path \in DOMAIN Downloads /\ ftp.checksize = Downloads[ftp.path].checksize
    /\ Account(ftp, B, Z)

(* The answer is about this file.                                             *)
Ours(r, f, B, Z) ==
    r.ack => /\ In(f, 0) => r.size \in Z
             /\ In(f, 1) \/ In(f, 2) => <<r.file, r.offset>> \in B

LEMMA StateNames ==
    ASSUME Busy(ftp)
    PROVE  \/ state = "open" /\ In(ftp, 0)
           \/ state = "burst" /\ In(ftp, 1)
           \/ state = "fill" /\ In(ftp, 2)
           \/ state = "reset" /\ In(ftp, 3)
           \/ state = "terminate" /\ Ending(ftp)
  <1>1. CASE In(ftp, 0)
    <2>1. ftp.index = 0 /\ ftp.machine = DownloadMachine
      BY <1>1 DEF In
    <2> QED
      BY <1>1, <2>1 DEF state, DownloadMachine
  <1>2. CASE Reading(ftp)
    <2>1. ftp.machine = DownloadMachine /\ ftp.index \in 1 .. 3
      BY <1>2 DEF Reading
    <2>2. CASE ftp.index = 1
      BY <2>1, <2>2 DEF state, DownloadMachine, In
    <2>3. CASE ftp.index = 2
      BY <2>1, <2>3 DEF state, DownloadMachine, In
    <2>4. CASE ftp.index = 3
      BY <2>1, <2>4 DEF state, DownloadMachine, In
    <2> QED
      BY <2>1, <2>2, <2>3, <2>4
  <1>3. CASE Ending(ftp)
    <2>1. ftp.index = 0 /\ ftp.machine = TerminateMachine
      BY <1>3 DEF Ending
    <2> QED
      BY <1>3, <2>1 DEF state, TerminateMachine
  <1> QED
    BY <1>1, <1>2, <1>3 DEF Busy

LEMMA ManagerStops ==
    ASSUME NEW B, NEW Z, Downloading(B, Z), NEW s, s = TimerStopped(Manager)
    PROVE  /\ Going(s, ftp.path, B, Z) /\ Kept(ftp, s.ftp)
           /\ s.ftp.expectedSeq = ftp.expectedSeq
  <1> DEFINE g == [ftp EXCEPT !.timer = FALSE]
             p == ftp.path
  <1>1. ftp \in FtpType
    BY DEF Downloading
  <1>2. g \in FtpType /\ Kept(ftp, g) /\ g.expectedSeq = ftp.expectedSeq
    BY <1>1 DEF FtpType, Kept
  <1>3. s = [ftp |-> g, sent |-> <<>>, reports |-> <<>>]
    BY DEF TimerStopped, Manager
  <1> HIDE DEF g
  <1>4. s \in ManagerType(p) /\ s.ftp = g /\ s.reports = <<>>
    BY <1>2, <1>3 DEF ManagerType
  <1>5. Typed(s, p)
    BY <1>2, <1>4 DEF Kept, Downloading, Typed
  <1>6. Account(g, B, Z)
    BY <1>2, AccountKept DEF Downloading
  <1>7. Busy(g) /\ g.retryCount <= MaxRetry
    BY <1>2 DEF Kept, Downloading, Busy, In, Reading, Ending
  <1> QED
    BY <1>2, <1>4, <1>5, <1>6, <1>7 DEF Going

LEMMA TimeoutLeaves ==
    ASSUME NEW B, NEW Z, Downloading(B, Z), NEW s, s = TimerStopped(Manager),
           NEW t, t = TimedOut(s)
    PROVE  Leaves(t, ftp.path, B, Z)
  <1> DEFINE p == ftp.path
             u == Counted(s)
  <1>1. Going(s, p, B, Z) /\ Kept(ftp, s.ftp)
    BY ManagerStops
  <1>2. p \in DOMAIN Downloads /\ Busy(ftp)
    BY DEF Downloading
  <1>3. Typed(s, p) /\ s.reports = <<>> /\ s.ftp.local \subseteq B
    BY <1>1 DEF Going, Account
  <1>4. "Download failed" \in Error \ {"none"}
    BY DEF Error
  <1>u. u = Counted(s)
    OBVIOUS
  <1> HIDE DEF p, u
  <1>5. CASE state = "open"
    <2>1. t = DownloadComplete(s, "Download failed")
      BY <1>5 DEF TimedOut
    <2> QED
      BY <1>2, <1>3, <1>4, <2>1, FailedEnds DEF Leaves, p
  <1>6. CASE state = "burst"
    <2> DEFINE again == BurstReadAgain(u)
    <2>1. t = Retry(s, again)
      BY <1>6, <1>u DEF TimedOut
    <2>2. Going(u, p, B, Z) => Waiting(again, p, B, Z)
      BY <1>2, BurstReadAgainWaits
    <2> HIDE DEF again
    <2> QED
      BY <1>1, <1>2, <1>u, <2>1, <2>2, RetryLeaves DEF p
  <1>7. CASE state = "fill" /\ In(ftp, 2)
    <2> DEFINE again == FillMissingAgain(u)
    <2>1. t = Retry(s, again)
      BY <1>7, <1>u DEF TimedOut
    <2>2. In(s.ftp, 2)
      BY <1>1, <1>7 DEF Kept, In
    <2>3. RecountedTo(s, u, s.ftp.retryCount + 1, p)
      BY <1>1, <1>u, CountedFacts
    <2>4. In(u.ftp, 2)
      BY <2>2, <2>3 DEF RecountedTo, Recounted, In
    <2>5. Going(u, p, B, Z) => Waiting(again, p, B, Z)
      BY <1>2, <2>4, FillMissingAgainWaits
    <2> HIDE DEF again
    <2> QED
      BY <1>1, <1>2, <1>u, <2>1, <2>5, RetryLeaves DEF p
  <1>8. CASE state = "reset" /\ In(ftp, 3)
    <2>1. t = DownloadComplete(s, "none")
      BY <1>8 DEF TimedOut
    <2>2. In(s.ftp, 3)
      BY <1>1, <1>8 DEF Kept, In
    <2> QED
      BY <1>1, <1>2, <2>1, <2>2, SuccessEnds DEF Leaves, p
  <1>9. CASE state = "terminate"
    <2> DEFINE again == TerminateBegin(u)
    <2>1. t = Retry(s, again)
      BY <1>9, <1>u DEF TimedOut
    <2>2. Going(u, p, B, Z) => Waiting(again, p, B, Z)
      BY <1>2, TerminateWaits
    <2> HIDE DEF again
    <2> QED
      BY <1>1, <1>2, <1>u, <2>1, <2>2, RetryLeaves DEF p
  <1> QED
    BY <1>2, <1>5, <1>6, <1>7, <1>8, <1>9, StateNames

LEMMA AnswerLeaves ==
    ASSUME NEW B, NEW Z, Downloading(B, Z), NEW s, s = TimerStopped(Manager),
           NEW r \in AnswerType, Ours(r, ftp, B, Z), NEW t \in Answered(s, r)
    PROVE  \/ Leaves(t, ftp.path, B, Z)
           \/ state = "burst" /\ r.seq < ftp.expectedSeq /\ t = s
  <1> DEFINE p == ftp.path
  <1>1. Going(s, p, B, Z) /\ Kept(ftp, s.ftp) /\ s.ftp.expectedSeq = ftp.expectedSeq
    BY ManagerStops
  <1>2. p \in DOMAIN Downloads /\ Busy(ftp)
    BY DEF Downloading
  <1>3. Typed(s, p) /\ s.reports = <<>> /\ s.ftp.local \subseteq B
    BY <1>1 DEF Going, Account
  <1>4. \A i : In(ftp, i) => In(s.ftp, i)
    BY <1>1 DEF Kept, In
  <1> HIDE DEF p
  <1>5. CASE state = "open" /\ In(ftp, 0)
    <2>1. t \in OpenAnswered(s, r)
      BY <1>5 DEF Answered
    <2>2. r.ack => r.size \in Z
      BY <1>5 DEF Ours
    <2> QED
      BY <1>1, <1>2, <1>4, <1>5, <2>1, <2>2, OpenLeaves DEF p
  <1>6. CASE state = "burst" /\ In(ftp, 1)
    <2>1. t \in BurstAnswered(s, r)
      BY <1>6 DEF Answered
    <2>2. r.ack => <<r.file, r.offset>> \in B
      BY <1>6 DEF Ours
    <2>3. In(s.ftp, 1)
      BY <1>4, <1>6
    <2>4. Leaves(t, p, B, Z) \/ (r.seq < s.ftp.expectedSeq /\ t = s)
      BY <1>1, <1>2, <2>1, <2>2, <2>3, BurstLeaves
    <2> QED
      BY <1>1, <1>6, <2>4 DEF p
  <1>7. CASE state = "fill" /\ In(ftp, 2)
    <2>1. t \in FillAnswered(s, r)
      BY <1>7 DEF Answered
    <2>2. r.ack => <<r.file, r.offset>> \in B
      BY <1>7 DEF Ours
    <2> QED
      BY <1>1, <1>2, <1>4, <1>7, <2>1, <2>2, FillLeaves DEF p
  <1>8. CASE state = "reset" /\ In(ftp, 3)
    <2>1. t = DownloadComplete(s, "none")
      BY <1>8 DEF Answered, ResetAnswered
    <2> QED
      BY <1>1, <1>2, <1>4, <1>8, <2>1, SuccessEnds DEF Leaves, p
  <1>9. CASE state = "terminate"
    <2>1. t = DownloadComplete(s, "Aborted")
      BY <1>9 DEF Answered, TerminateAnswered
    <2>2. "Aborted" \in Error \ {"none"}
      BY DEF Error
    <2> QED
      BY <1>2, <1>3, <2>1, <2>2, FailedEnds DEF Leaves, p
  <1> QED
    BY <1>2, <1>5, <1>6, <1>7, <1>8, <1>9, StateNames

LEMMA Machines ==
    /\ DownloadMachine # TerminateMachine
    /\ DownloadMachine # <<>> /\ TerminateMachine # <<>>
  <1>1. Len(DownloadMachine) = 4 /\ Len(TerminateMachine) = 1
    BY DEF DownloadMachine, TerminateMachine
  <1>2. Len(<<>>) = 0
    OBVIOUS
  <1> QED
    BY <1>1, <1>2

ManagerAt(s, g, p) == Typed(s, p) /\ s.ftp = g /\ s.reports = <<>>

LEMMA ManagerMade ==
    ASSUME NEW p, NEW g \in FtpType, g.path = p, g.checksize = Downloads[p].checksize,
           NEW s, s = [ftp |-> g, sent |-> <<>>, reports |-> <<>>]
    PROVE  ManagerAt(s, g, p)
  <1>1. s \in ManagerType(p) /\ s.ftp = g /\ s.reports = <<>>
    BY DEF ManagerType
  <1> QED
    BY <1>1 DEF ManagerAt, Typed

LEMMA RetriesStart == 0 \in 0 .. (MaxRetry + 1) /\ 0 <= MaxRetry
  BY FtpAssumption

Indexed(f, g, n) ==
    /\ g.path = f.path /\ g.machine = f.machine /\ g.index = n
    /\ g.bytesWritten = f.bytesWritten /\ g.missing = f.missing
    /\ g.retryCount = f.retryCount /\ g.checksize = f.checksize /\ g.local = f.local

LEMMA IndexSet ==
    ASSUME NEW f \in FtpType, NEW n \in Int, NEW g, g = [f EXCEPT !.index = n]
    PROVE  g \in FtpType /\ Indexed(f, g, n)
  BY DEF FtpType, Indexed

LEMMA CancelWaits ==
    ASSUME NEW B, NEW Z, Downloading(B, Z),
           NEW s, s = [Manager EXCEPT !.ftp.machine = TerminateMachine,
                                      !.ftp.index = 0, !.ftp.retryCount = 0],
           NEW t, t = TerminateBegin(s)
    PROVE  Waiting(t, ftp.path, B, Z)
  <1> DEFINE g1 == [ftp EXCEPT !.machine = TerminateMachine]
             g2 == [g1 EXCEPT !.index = 0]
             g == [g2 EXCEPT !.retryCount = 0]
             p == ftp.path
  <1>1. ftp \in FtpType /\ p \in DOMAIN Downloads
    BY DEF Downloading
  <1>2. s = [ftp |-> g, sent |-> <<>>, reports |-> <<>>]
    BY DEF Manager
  <1>3. /\ g \in FtpType /\ g.path = p /\ g.checksize = ftp.checksize
        /\ g.machine = TerminateMachine /\ g.index = 0 /\ g.retryCount = 0
        /\ g.local = ftp.local
    <2>1. g1 \in FtpType /\ g1.path = p /\ g1.checksize = ftp.checksize
          /\ g1.machine = TerminateMachine /\ g1.local = ftp.local
      BY <1>1 DEF FtpType
    <2> HIDE DEF g1
    <2>2. g2 \in FtpType /\ g2.path = p /\ g2.checksize = ftp.checksize
          /\ g2.machine = TerminateMachine /\ g2.index = 0 /\ g2.local = ftp.local
      <3>1. 0 \in Int
        OBVIOUS
      <3>2. g2 \in FtpType /\ Indexed(g1, g2, 0)
        BY <2>1, <3>1, IndexSet
      <3> QED
        BY <2>1, <3>2 DEF Indexed
    <2> HIDE DEF g2
    <2> QED
      BY <2>2, RetriesStart DEF FtpType
  <1> HIDE DEF g
  <1>a. g.checksize = Downloads[p].checksize
    BY <1>3 DEF Downloading
  <1>b. ManagerAt(s, g, p)
    BY <1>2, <1>3, <1>a, ManagerMade
  <1>4. Typed(s, p) /\ s.ftp = g /\ s.reports = <<>>
    BY <1>b DEF ManagerAt
  <1>6. Account(g, B, Z) /\ Busy(g)
    BY <1>3, Machines DEF Downloading, Account, In, Reading, Busy, Ending
  <1>7. Going(s, p, B, Z)
    BY <1>3, <1>4, <1>6, RetriesStart DEF Going
  <1> HIDE DEF p
  <1> QED
    BY <1>1, <1>7, TerminateWaits DEF p

(* What a download starts from.                                               *)
LEMMA ResetFacts ==
    ASSUME ftp \in FtpType, NEW d \in DOMAIN Downloads,
           NEW g, g = Reset([ftp EXCEPT !.machine = DownloadMachine], d)
    PROVE  /\ g \in FtpType /\ g.path = d /\ g.checksize = Downloads[d].checksize
           /\ g.machine = DownloadMachine /\ g.index = ftp.index /\ g.retryCount = 0
           /\ g.timer = ftp.timer /\ g.local = {} /\ g.missing = <<>> /\ g.bytesWritten = 0
  <1> DEFINE f == [ftp EXCEPT !.machine = DownloadMachine]
             c == Downloads[d].checksize
  <1>a. Downloads \in Seq(DownloadType)
    BY FtpAssumption
  <1>b. d \in Nat /\ Downloads[d] \in DownloadType
    BY <1>a
  <1>1. d \in Nat /\ c \in BOOLEAN
    BY <1>b DEF DownloadType
  <1>2. f \in FtpType /\ f.machine = DownloadMachine /\ f.index = ftp.index /\ f.timer = ftp.timer
    BY DEF FtpType
  <1>3. g = [f EXCEPT !.path = d, !.expectedOffset = 0, !.bytesWritten = 0, !.retryCount = 0,
              !.fileSize = 0, !.missing = <<>>, !.fileOpen = FALSE, !.local = {},
              !.checksize = c]
    BY DEF Reset
  <1>4. <<>> \in Seq(HoleType) /\ 0 \in 0 .. (MaxRetry + 1) /\ {} \in SUBSET (Nat \X Nat)
    BY FtpAssumption
  <1> HIDE DEF f, c
  <1> DEFINE g1 == [f EXCEPT !.path = d, !.expectedOffset = 0, !.bytesWritten = 0,
                             !.retryCount = 0]
             g2 == [g1 EXCEPT !.fileSize = 0, !.missing = <<>>, !.fileOpen = FALSE]
             g3 == [g2 EXCEPT !.local = {}, !.checksize = c]
  <1>5. g = g3
    BY <1>3
  <1>6. /\ g1 \in FtpType /\ g1.path = d /\ g1.machine = DownloadMachine
        /\ g1.index = ftp.index /\ g1.retryCount = 0 /\ g1.timer = ftp.timer
        /\ g1.bytesWritten = 0
    BY <1>1, <1>2, <1>4 DEF FtpType
  <1> HIDE DEF g1
  <1>7. /\ g2 \in FtpType /\ g2.path = d /\ g2.machine = DownloadMachine
        /\ g2.index = ftp.index /\ g2.retryCount = 0 /\ g2.timer = ftp.timer
        /\ g2.bytesWritten = 0 /\ g2.missing = <<>>
    BY <1>4, <1>6 DEF FtpType
  <1> HIDE DEF g2
  <1>8. /\ g3 \in FtpType /\ g3.path = d /\ g3.machine = DownloadMachine
        /\ g3.index = ftp.index /\ g3.retryCount = 0 /\ g3.timer = ftp.timer
        /\ g3.bytesWritten = 0 /\ g3.missing = <<>> /\ g3.local = {} /\ g3.checksize = c
    BY <1>1, <1>4, <1>7 DEF FtpType
  <1> QED
    BY <1>5, <1>8 DEF c

LEMMA DownloadWaits ==
    ASSUME ftp \in FtpType, NEW d \in DOMAIN Downloads, NEW B, NEW Z,
           NEW g, g = Reset([ftp EXCEPT !.machine = DownloadMachine], d),
           NEW s, s = [Manager EXCEPT !.ftp = [g EXCEPT !.index = 0]],
           NEW t, t = SendRequestExpectAck(s, "Open", 0)
    PROVE  Waiting(t, d, B, Z)
  <1> DEFINE h == [g EXCEPT !.index = 0]
  <1>1. /\ g \in FtpType /\ g.path = d /\ g.checksize = Downloads[d].checksize
        /\ g.machine = DownloadMachine /\ g.retryCount = 0
        /\ g.local = {} /\ g.missing = <<>> /\ g.bytesWritten = 0
    BY ResetFacts
  <1>2. /\ h \in FtpType /\ h.path = d /\ h.checksize = Downloads[d].checksize
        /\ h.machine = DownloadMachine /\ h.index = 0 /\ h.retryCount = 0
        /\ h.local = {} /\ h.missing = <<>> /\ h.bytesWritten = 0
    <2>1. 0 \in Int
      OBVIOUS
    <2>2. h \in FtpType /\ Indexed(g, h, 0)
      BY <1>1, <2>1, IndexSet
    <2> QED
      BY <1>1, <2>2 DEF Indexed
  <1>3. s = [ftp |-> h, sent |-> <<>>, reports |-> <<>>]
    BY DEF Manager
  <1> HIDE DEF h
  <1>a. ManagerAt(s, h, d)
    BY <1>2, <1>3, ManagerMade
  <1>4. Typed(s, d) /\ s.ftp = h /\ s.reports = <<>>
    BY <1>a DEF ManagerAt
  <1>6. Account(h, B, Z) /\ Busy(h)
    BY <1>2 DEF Account, In, Reading, Busy
  <1>7. Going(s, d, B, Z)
    BY <1>2, <1>4, <1>6, RetriesStart DEF Going
  <1> QED
    BY <1>7, Names, GoingSends

-----------------------------------------------------------------------------
(* The vehicle: the blocks it sends are blocks of a file it has.              *)
GoodAnswer ==
    {r \in AnswerType : r.ack /\ r.opcode \in {"Burst", "Read"} => <<r.file, r.offset>> \in Blocks}

ServerType ==
    [errMode : ErrModes, file : 0 .. started, lastReply : GoodAnswer \cup {NoReply}]

LEMMA MaxOfTwo ==
    ASSUME NEW a \in Int, NEW b \in Int, NEW m, m = Max({a, b})
    PROVE  m = IF a >= b THEN a ELSE b
  <1> DEFINE S == {a, b}
             w == IF a >= b THEN a ELSE b
  <1>1. w \in S /\ \A y \in S : w >= y
    OBVIOUS
  <1>2. m \in S /\ \A y \in S : m >= y
    BY <1>1 DEF Max
  <1> QED
    BY <1>1, <1>2

LEMMA MinOfTwo ==
    ASSUME NEW a \in Int, NEW b \in Int, NEW m, m = Min({a, b})
    PROVE  m = IF a <= b THEN a ELSE b
  <1> DEFINE S == {a, b}
             w == IF a <= b THEN a ELSE b
  <1>1. w \in S /\ \A y \in S : w <= y
    OBVIOUS
  <1>2. m \in S /\ \A y \in S : m <= y
    BY <1>1 DEF Min
  <1> QED
    BY <1>1, <1>2

ReplyOf(r, q, ack, offset, size) ==
    /\ r \in AnswerType
    /\ r.ack = ack /\ r.opcode = q.opcode /\ r.file = server.file
    /\ r.offset = offset /\ r.size = size

LEMMA ReplyType ==
    ASSUME started \in 0 .. Len(Downloads), server \in ServerType,
           NEW q \in RequestType(1 .. started), NEW n \in Int, NEW ack \in BOOLEAN,
           NEW eof \in BOOLEAN, NEW offset \in Nat, NEW size \in Nat, NEW last \in BOOLEAN,
           NEW r, r = Reply(q, n, ack, eof, offset, size, last)
    PROVE  ReplyOf(r, q, ack, offset, size)
  <1>1. n % SeqNumbers \in Numbers
    BY NumbersAreModulo
  <1>2. q.opcode \in Opcodes /\ server.file \in Nat
    BY DEF RequestType, ServerType
  <1> QED
    BY <1>1, <1>2 DEF Reply, AnswerType, ReplyOf

LEMMA NextSeqType ==
    ASSUME NEW q \in RequestType(1 .. started), NEW n \in Nat
    PROVE  NextSeq(q, n) \in Int
  <1>1. q.seq \in Int
    BY FtpAssumption DEF RequestType, Numbers
  <1>2. n * 2 \in Int /\ n * 1 \in Int
    OBVIOUS
  <1>3. CASE server.errMode = "BadSequence"
    BY <1>1, <1>2, <1>3 DEF NextSeq
  <1>4. CASE server.errMode # "BadSequence"
    BY <1>1, <1>2, <1>4 DEF NextSeq
  <1> QED
    BY <1>3, <1>4

(* Answers that carry no block.                                               *)
LEMMA BlocklessIsGood ==
    ASSUME NEW r \in AnswerType, r.ack = FALSE \/ r.opcode \notin {"Burst", "Read"}
    PROVE  r \in GoodAnswer
  BY DEF GoodAnswer

LEMMA BlockIsGood ==
    ASSUME started \in 0 .. Len(Downloads), server \in ServerType,
           NEW r \in AnswerType, r.file = server.file, r.offset < FileSize
    PROVE  r \in GoodAnswer
  <1>1. r.offset \in Nat
    BY DEF AnswerType
  <1>2. server.file \in 0 .. started
    BY DEF ServerType
  <1>3. server.file # 0
    BY <1>1 DEF FileSize, NoFile
  <1>4. Downloads \in Seq(DownloadType)
    BY FtpAssumption
  <1>5. server.file \in DOMAIN Downloads
    BY <1>2, <1>3, <1>4
  <1>6. Downloads[server.file] \in DownloadType
    BY <1>4, <1>5
  <1>7. FileSize = Downloads[server.file].size /\ Downloads[server.file].size \in Nat
    BY <1>3, <1>6 DEF FileSize, NoFile, DownloadType
  <1>8. r.offset \in 0 .. (Downloads[server.file].size - 1)
    BY <1>1, <1>7
  <1>9. <<r.file, r.offset>> \in {server.file} \X (0 .. (Downloads[server.file].size - 1))
    BY <1>8
  <1>10. <<r.file, r.offset>> \in Blocks
    BY <1>5, <1>9 DEF Blocks
  <1> QED
    BY <1>10 DEF GoodAnswer

LEMMA FileSizeType ==
    ASSUME started \in 0 .. Len(Downloads), server \in ServerType
    PROVE  FileSize \in Nat
  <1>1. Downloads \in Seq(DownloadType) /\ server.file \in 0 .. started
    BY FtpAssumption DEF ServerType
  <1>2. CASE server.file # 0
    <2>1. server.file \in 1 .. Len(Downloads)
      BY <1>1, <1>2
    <2>2. Downloads[server.file] \in DownloadType
      BY <1>1, <2>1
    <2> QED
      BY <1>2, <2>2 DEF FileSize, NoFile, DownloadType
  <1>3. CASE server.file = 0
    BY <1>3 DEF FileSize, NoFile
  <1> QED
    BY <1>2, <1>3

LEMMA AckGood ==
    ASSUME started \in 0 .. Len(Downloads), server \in ServerType,
           NEW q \in RequestType(1 .. started), NEW offset \in Nat, NEW size \in Nat,
           q.opcode \in {"Burst", "Read"} => offset < FileSize,
           NEW r, r = Ack(q, offset, size)
    PROVE  r \in GoodAnswer
  <1>1. NextSeq(q, 1) \in Int
    BY NextSeqType
  <1> DEFINE n == NextSeq(q, 1)
             yes == TRUE
             no == FALSE
  <1>2. r = Reply(q, n, yes, no, offset, size, no) /\ yes \in BOOLEAN /\ no \in BOOLEAN
    BY DEF Ack
  <1>3. n \in Int
    BY <1>1
  <1> HIDE DEF n, yes, no
  <1>a. ReplyOf(r, q, yes, offset, size)
    BY <1>2, <1>3, ReplyType
  <1>4. /\ r \in AnswerType
        /\ r.opcode = q.opcode /\ r.file = server.file /\ r.offset = offset
    BY <1>a DEF ReplyOf
  <1>5. CASE q.opcode \in {"Burst", "Read"}
    BY <1>4, <1>5, BlockIsGood
  <1>6. CASE q.opcode \notin {"Burst", "Read"}
    BY <1>4, <1>6, BlocklessIsGood
  <1> QED
    BY <1>5, <1>6

LEMMA RefusalGood ==
    ASSUME started \in 0 .. Len(Downloads), server \in ServerType,
           NEW q \in RequestType(1 .. started), NEW n \in Nat, NEW eof \in BOOLEAN,
           NEW r, r = Reply(q, NextSeq(q, n), FALSE, eof, 0, 0, FALSE)
    PROVE  r \in GoodAnswer
  <1> DEFINE m == NextSeq(q, n)
             no == FALSE
             z == 0
  <1>1. m \in Int /\ no \in BOOLEAN /\ z \in Nat
    BY NextSeqType
  <1>2. r = Reply(q, m, no, eof, z, z, no)
    OBVIOUS
  <1> HIDE DEF m, no, z
  <1>a. ReplyOf(r, q, no, z, z)
    BY <1>1, <1>2, ReplyType
  <1>3. r \in AnswerType
    BY <1>a DEF ReplyOf
  <1>4. r.ack = FALSE
    BY <1>a DEF no, ReplyOf
  <1> QED
    BY <1>3, <1>4, BlocklessIsGood

LEMMA NakGood ==
    ASSUME started \in 0 .. Len(Downloads), server \in ServerType,
           NEW q \in RequestType(1 .. started), NEW r, r = Nak(q)
    PROVE  r \in GoodAnswer
  <1>1. FALSE \in BOOLEAN /\ 1 \in Nat
    OBVIOUS
  <1>2. r = Reply(q, NextSeq(q, 1), FALSE, FALSE, 0, 0, FALSE)
    BY DEF Nak
  <1> QED
    BY <1>1, <1>2, RefusalGood

LEMMA EndOfFileGood ==
    ASSUME started \in 0 .. Len(Downloads), server \in ServerType,
           NEW q \in RequestType(1 .. started), NEW n \in Nat, NEW r, r = EndOfFile(q, n)
    PROVE  r \in GoodAnswer
  <1>1. TRUE \in BOOLEAN
    OBVIOUS
  <1>2. r = Reply(q, NextSeq(q, n), FALSE, TRUE, 0, 0, FALSE)
    BY DEF EndOfFile
  <1> QED
    BY <1>1, <1>2, RefusalGood

(* A burst stays within the file.                                             *)
LEMMA BurstGood ==
    ASSUME started \in 0 .. Len(Downloads), server \in ServerType,
           NEW q \in RequestType(1 .. started), NEW t, t = BurstReadCommand(q)
    PROVE  t \in Seq(GoodAnswer)
  <1> DEFINE rest == FileSize - q.offset
             some == Max({rest, 0})
             n == Min({BurstMax - 1, some})
             Block(i) == Reply(q, NextSeq(q, i), TRUE, FALSE, q.offset + i - 1, 1, i = BurstMax - 1)
             acks == [i \in 1 .. n |-> Block(i)]
  <1>1. q.offset \in Nat /\ FileSize \in Nat /\ BurstMax \in Nat /\ BurstMax > 1
    BY FtpAssumption, FileSizeType DEF RequestType
  <1>2. rest \in Int
    BY <1>1
  <1>3. some = IF rest >= 0 THEN rest ELSE 0
    <2> HIDE DEF rest
    <2>1. 0 \in Int
      OBVIOUS
    <2> QED
      BY <1>2, <2>1, MaxOfTwo
  <1>4. some \in Nat
    <2> HIDE DEF some, rest
    <2> QED
      BY <1>2, <1>3
  <1>5. n = IF BurstMax - 1 <= some THEN BurstMax - 1 ELSE some
    <2> DEFINE b == BurstMax - 1
    <2>1. b \in Int
      BY <1>1
    <2> HIDE DEF b, some
    <2>2. n = Min({b, some})
      BY DEF b
    <2>3. some \in Int
      BY <1>4
    <2>4. n = IF b <= some THEN b ELSE some
      BY <2>1, <2>2, <2>3, MinOfTwo
    <2> QED
      BY <2>4 DEF b
  <1>6. n \in Nat /\ \A i \in 1 .. n : q.offset + i - 1 < FileSize
    <2>1. n \in Nat /\ n <= some
      <3> HIDE DEF some, n
      <3> QED
        BY <1>1, <1>4, <1>5
    <2>2. CASE rest >= 0
      <3>1. some = rest
        BY <1>3, <2>2
      <3>2. n \in Nat /\ n <= FileSize - q.offset
        BY <2>1, <3>1
      <3> HIDE DEF n
      <3> QED
        BY <1>1, <3>2
    <2>3. CASE ~(rest >= 0)
      <3>1. some = 0
        BY <1>3, <2>3
      <3>2. n = 0
        BY <2>1, <3>1
      <3> HIDE DEF n
      <3> QED
        BY <3>2
    <2> QED
      BY <2>2, <2>3
  <1> HIDE DEF n, some, rest
  <1>7. ASSUME NEW i \in 1 .. n
        PROVE  Block(i) \in GoodAnswer
    <2> DEFINE m == NextSeq(q, i)
               yes == TRUE
               no == FALSE
               o == q.offset + i - 1
               one == 1
               last == (i = BurstMax - 1)
               r == Block(i)
    <2>1. i \in Nat
      BY <1>6
    <2>2. m \in Int
      BY <2>1, NextSeqType
    <2>3. o \in Nat /\ o < FileSize
      BY <1>1, <1>6, <2>1
    <2>4. yes \in BOOLEAN /\ no \in BOOLEAN /\ last \in BOOLEAN /\ one \in Nat
      OBVIOUS
    <2>5. r = Reply(q, m, yes, no, o, one, last)
      OBVIOUS
    <2> HIDE DEF m, yes, no, o, one, last, r
    <2>a. ReplyOf(r, q, yes, o, one)
      BY <2>2, <2>3, <2>4, <2>5, ReplyType
    <2>6. r \in AnswerType /\ r.file = server.file /\ r.offset = o
      BY <2>a DEF ReplyOf
    <2>7. r \in GoodAnswer
      BY <2>3, <2>6, BlockIsGood
    <2> QED
      BY <2>7 DEF r
  <1> HIDE DEF Block
  <1>8. acks \in Seq(GoodAnswer)
    BY <1>6, <1>7
  <1>9. EndOfFile(q, n + 1) \in GoodAnswer
    <2> DEFINE m == n + 1
               r == EndOfFile(q, m)
    <2>1. m \in Nat
      BY <1>6
    <2> HIDE DEF m
    <2>2. r \in GoodAnswer
      BY <2>1, EndOfFileGood
    <2> QED
      BY <2>2 DEF m
  <1>10. t = acks \/ t = Append(acks, EndOfFile(q, n + 1))
    BY DEF BurstReadCommand, n, some, rest, Block
  <1> HIDE DEF acks
  <1> QED
    BY <1>8, <1>9, <1>10

LEMMA DownloadFacts ==
    ASSUME NEW d \in DOMAIN Downloads
    PROVE  /\ d \in 1 .. Len(Downloads)
           /\ Downloads[d].size \in Nat /\ Downloads[d].reported \in Nat
           /\ Downloads[d].checksize \in BOOLEAN
  <1>1. Downloads \in Seq(DownloadType)
    BY FtpAssumption
  <1>2. d \in 1 .. Len(Downloads) /\ Downloads[d] \in DownloadType
    BY <1>1
  <1> QED
    BY <1>2 DEF DownloadType

LEMMA FilesAreDownloads ==
    ASSUME started \in 0 .. Len(Downloads), NEW q \in RequestType(1 .. started)
    PROVE  q.file \in DOMAIN Downloads /\ q.file \in 1 .. started
  <1>1. Downloads \in Seq(DownloadType)
    BY FtpAssumption
  <1>2. q.file \in 1 .. started
    BY DEF RequestType
  <1> QED
    BY <1>1, <1>2

LEMMA RepliesGood ==
    ASSUME started \in 0 .. Len(Downloads), server \in ServerType,
           NEW q \in RequestType(1 .. started), NEW t, t = Replies(q)
    PROVE  t \in Seq(GoodAnswer)
  <1>1. q.opcode \in Opcodes /\ q.offset \in Nat
    BY DEF RequestType
  <1>2. Nak(q) \in GoodAnswer
    <2> DEFINE r == Nak(q)
    <2>1. r \in GoodAnswer
      BY NakGood
    <2> QED
      BY <2>1
  <1>3. <<Nak(q)>> \in Seq(GoodAnswer) /\ <<>> \in Seq(GoodAnswer)
    BY <1>2
  <1>4. CASE t = <<>> \/ t = <<Nak(q)>>
    BY <1>3, <1>4
  <1>5. CASE q.opcode = "Open" /\ t = OpenCommand(q)
    <2> DEFINE size == Downloads[q.file].reported
               r == Ack(q, 0, size)
    <2>1. size \in Nat /\ 0 \in Nat
      BY FilesAreDownloads, DownloadFacts
    <2>2. q.opcode \notin {"Burst", "Read"}
      BY <1>5
    <2>3. t = <<r>> \/ t = <<Nak(q)>>
      BY <1>5 DEF OpenCommand
    <2> HIDE DEF size
    <2>4. r \in GoodAnswer
      BY <2>1, <2>2, AckGood
    <2> HIDE DEF r
    <2>5. <<r>> \in Seq(GoodAnswer)
      BY <2>4
    <2> QED
      BY <1>3, <2>3, <2>5
  <1>6. CASE t = ReadCommand(q)
    <2> DEFINE r == Ack(q, q.offset, 1)
               e == EndOfFile(q, 1)
    <2>1. e \in GoodAnswer
      <3>1. 1 \in Nat
        OBVIOUS
      <3> QED
        BY <3>1, EndOfFileGood
    <2>2. FileSize \in Nat
      BY FileSizeType
    <2>3. t = <<Nak(q)>> \/ t = <<>> \/ t = <<e>> \/ (t = <<r>> /\ q.offset < FileSize)
      <3> HIDE DEF r, e
      <3>1. t = <<Nak(q)>> \/ t = <<>> \/ t = <<IF q.offset >= FileSize THEN e ELSE r>>
        BY <1>6 DEF ReadCommand, r, e
      <3>2. q.offset >= FileSize \/ q.offset < FileSize
        BY <1>1, <2>2
      <3> QED
        BY <1>1, <2>2, <3>1, <3>2
    <2>4. CASE t = <<r>> /\ q.offset < FileSize
      <3>1. 1 \in Nat
        OBVIOUS
      <3>2. r \in GoodAnswer
        BY <1>1, <2>4, <3>1, AckGood
      <3> HIDE DEF r
      <3> QED
        BY <2>4, <3>2
    <2> HIDE DEF r, e
    <2>5. <<e>> \in Seq(GoodAnswer)
      BY <2>1
    <2> QED
      BY <1>3, <2>3, <2>4, <2>5
  <1>7. CASE t = BurstReadCommand(q)
    BY <1>7, BurstGood
  <1>8. CASE q.opcode \in {"Reset", "Terminate"} /\ t = <<Ack(q, 0, 0)>>
    <2> DEFINE r == Ack(q, 0, 0)
    <2>1. q.opcode \notin {"Burst", "Read"} /\ 0 \in Nat
      BY <1>8
    <2>2. r \in GoodAnswer
      BY <2>1, AckGood
    <2>3. t = <<r>>
      BY <1>8
    <2> HIDE DEF r
    <2> QED
      BY <2>2, <2>3
  <1> QED
    BY <1>1, <1>4, <1>5, <1>6, <1>7, <1>8 DEF Replies, Opcodes

LEMMA FileAfterType ==
    ASSUME started \in 0 .. Len(Downloads), server \in ServerType,
           NEW q \in RequestType(1 .. started), NEW t, t = FileAfter(q)
    PROVE  t \in 0 .. started
  <1>1. server.file \in 0 .. started /\ q.file \in 0 .. started /\ 0 \in 0 .. started
    <2>1. q.file \in 1 .. started
      BY FilesAreDownloads
    <2> QED
      BY <2>1 DEF ServerType
  <1>2. t = NoFile \/ t = q.file \/ t = server.file
    BY DEF FileAfter
  <1> QED
    BY <1>1, <1>2 DEF NoFile

-----------------------------------------------------------------------------
(* The inductive invariant.                                                   *)
SpentType ==
    spent \in [cancels : 0 .. MaxCancels, outages : 0 .. MaxOutages,
               losses : 0 .. MaxLosses, reorders : 0 .. MaxReorders, early : 0 .. MaxEarly]

LinkInv ==
    /\ started \in 0 .. Len(Downloads) /\ linkUp \in BOOLEAN
    /\ SpentType
    /\ toVehicle \in Seq(RequestType(1 .. started))
    /\ toGcs \in Seq(GoodAnswer)
    /\ server \in ServerType

(* How often a download has been reported.                                    *)
Reported(d) ==
    IF d \notin 1 .. started \/ d \in refused \/ (d = ftp.path /\ ftp.index # -1)
    THEN 0 ELSE 1

ManagerInv ==
    /\ ftp \in FtpType /\ ftp.path \in 0 .. started /\ ftp.local \subseteq Blocks
    /\ refused \subseteq 1 .. started
    /\ results \in [DOMAIN Downloads -> Seq(ResultType)]
    /\ ftp.index # -1 => Downloading(Blocks, Nat) /\ ftp.path \notin refused
    /\ ftp.index = -1 => ftp.timer = FALSE /\ ftp.machine \in {<<>>, DownloadMachine}
    /\ \A d \in DOMAIN Downloads : Len(results[d]) = Reported(d)

LEMMA TroubledType ==
    ASSUME SpentType, NEW trouble, NEW limit,
           \/ trouble = "cancels" /\ limit = MaxCancels
           \/ trouble = "outages" /\ limit = MaxOutages
           \/ trouble = "losses" /\ limit = MaxLosses
           \/ trouble = "reorders" /\ limit = MaxReorders
           \/ trouble = "early" /\ limit = MaxEarly,
           Troubled(trouble, limit)
    PROVE  SpentType'
  <1>1. \A a \in Nat : \A b \in 0 .. a : b < a => b + 1 \in 0 .. a
    OBVIOUS
  <1>2. /\ MaxCancels \in Nat /\ MaxOutages \in Nat /\ MaxLosses \in Nat
        /\ MaxReorders \in Nat /\ MaxEarly \in Nat
    BY FtpAssumption
  <1>3. spent[trouble] < limit /\ spent' = [spent EXCEPT ![trouble] = spent[trouble] + 1]
    BY DEF Troubled
  <1>4. spent[trouble] \in 0 .. limit /\ limit \in Nat
    BY <1>2 DEF SpentType
  <1>5. spent[trouble] + 1 \in 0 .. limit
    BY <1>1, <1>3, <1>4
  <1> DEFINE n == spent[trouble] + 1
  <1>6. spent' = [spent EXCEPT ![trouble] = n] /\ n \in 0 .. limit
    BY <1>3, <1>5
  <1> HIDE DEF n
  <1> QED
    BY <1>6 DEF SpentType

LEMMA ManagerLeft ==
    ASSUME ManagerInv, UNCHANGED <<ftp, results, started, refused>>
    PROVE  ManagerInv'
  BY DEF ManagerInv, Downloading, Reported, Account, Solid, Seen, In, Reading, Ending, Busy

(* The manager's next state is the record's.                                  *)
LEMMA DownloadingNext ==
    ASSUME NEW p \in DOMAIN Downloads, NEW B, NEW Z, NEW t, Going(t, p, B, Z), ftp' = t.ftp
    PROVE  Downloading(B, Z)' /\ ftp'.path = p /\ ftp'.index # -1
  <1>1. t.ftp \in FtpType
    BY GoingIsTyped
  <1>2. t.ftp.index # -1
    BY DEF Going, Busy, In, Reading, Ending
  <1> QED
    BY <1>1, <1>2
       DEF Downloading, Going, Typed, Account, Solid, Seen, In, Reading, Ending, Busy

Unreported(t, p, B, Z) == Going(t, p, B, Z) \/ Over(t, p, B, Z)

LEMMA LeavesOutcome ==
    ASSUME NEW p, NEW B, NEW Z, NEW t, Leaves(t, p, B, Z)
    PROVE  Unreported(t, p, B, Z)
  BY DEF Leaves, Waiting, Going, Unreported

LEMMA ResultsAfter ==
    ASSUME NEW t, NEW p, t.ftp.path = p, Becomes(t),
           results \in [DOMAIN Downloads -> Seq(ResultType)],
           t.reports \in Seq(ResultType)
    PROVE  /\ results' \in [DOMAIN Downloads -> Seq(ResultType)]
           /\ \A d \in DOMAIN Downloads :
                 /\ d # p => results'[d] = results[d]
                 /\ d = p => results'[d] = results[d] \o t.reports
  <1>1. results' = [d \in DOMAIN Downloads |->
                       IF d = p THEN results[d] \o t.reports ELSE results[d]]
    BY DEF Becomes
  <1>2. \A d \in DOMAIN Downloads : results[d] \o t.reports \in Seq(ResultType)
    OBVIOUS
  <1> QED
    BY <1>1, <1>2

LEMMA BlocksAreSets == Blocks \subseteq Nat \X Nat
  <1>1. ASSUME NEW d \in DOMAIN Downloads
        PROVE  {d} \X (0 .. (Downloads[d].size - 1)) \subseteq Nat \X Nat
    <2>1. d \in Nat
      BY DownloadFacts
    <2> QED
      BY <2>1
  <1> QED
    BY <1>1 DEF Blocks

LEMMA WiderSequence ==
    ASSUME NEW S, NEW T, S \subseteq T, NEW q \in Seq(S)
    PROVE  q \in Seq(T)
  <1>1. Len(q) \in Nat /\ q \in [1 .. Len(q) -> S]
    BY LenProperties
  <1>2. q \in [1 .. Len(q) -> T]
    BY <1>1
  <1> QED
    BY <1>1, <1>2, SeqDef

LEMMA RequestsOfOne ==
    ASSUME NEW p \in 1 .. started, NEW q \in Seq(RequestType({p}))
    PROVE  q \in Seq(RequestType(1 .. started))
  <1> DEFINE one == RequestType({p})
             all == RequestType(1 .. started)
  <1>1. one \subseteq all
    BY DEF RequestType
  <1>2. q \in Seq(one)
    OBVIOUS
  <1> HIDE DEF one, all
  <1>3. q \in Seq(all)
    BY <1>1, <1>2, WiderSequence
  <1> QED
    BY <1>3 DEF all

LEMMA LenOfConcat ==
    ASSUME NEW S, NEW a \in Seq(S), NEW b \in Seq(S), NEW t, t = a \o b
    PROVE  Len(t) = Len(a) + Len(b)
  OBVIOUS

LEMMA BecomesKeeps ==
    ASSUME LinkInv, ManagerInv, ftp.index # -1, NEW p, p = ftp.path,
           NEW t, Unreported(t, p, Blocks, Nat), Becomes(t),
           started' = started, refused' = refused
    PROVE  ManagerInv' /\ toVehicle' \in Seq(RequestType(1 .. started))
  <1>1. Downloading(Blocks, Nat) /\ p \notin refused /\ p \in 0 .. started
    BY DEF ManagerInv
  <1>2. p \in DOMAIN Downloads
    BY <1>1 DEF Downloading
  <1>3. p \in 1 .. started /\ p \in 1 .. Len(Downloads)
    BY <1>1, <1>2, DownloadFacts
  <1>4. Typed(t, p)
    BY DEF Unreported, Going, Over
  <1>5. t.ftp \in FtpType /\ t.ftp.path = p /\ t.sent \in Seq(RequestType({p}))
    BY <1>4 DEF Typed, ManagerType
  <1>6. ftp' = t.ftp /\ toVehicle' = toVehicle \o t.sent
    BY DEF Becomes
  <1>7. toVehicle' \in Seq(RequestType(1 .. started))
    <2>1. t.sent \in Seq(RequestType(1 .. started))
      BY <1>3, <1>5, RequestsOfOne
    <2> QED
      BY <1>6, <2>1 DEF LinkInv
  <1>8. results \in [DOMAIN Downloads -> Seq(ResultType)]
    BY DEF ManagerInv
  <1>9. CASE Going(t, p, Blocks, Nat)
    <2>1. t.reports = <<>> /\ t.reports \in Seq(ResultType)
      BY <1>9 DEF Going
    <2>2. /\ results' \in [DOMAIN Downloads -> Seq(ResultType)]
          /\ \A d \in DOMAIN Downloads :
                /\ d # p => results'[d] = results[d]
                /\ d = p => results'[d] = results[d] \o t.reports
      BY <1>5, <1>8, <2>1, ResultsAfter
    <2>3. \A d \in DOMAIN Downloads : Len(results'[d]) = Len(results[d])
      BY <1>8, <2>1, <2>2
    <2>4. Downloading(Blocks, Nat)' /\ ftp'.path = p /\ ftp'.index # -1
      BY <1>2, <1>6, <1>9, DownloadingNext
    <2>5. t.ftp.local \subseteq Blocks
      BY <1>9 DEF Going, Account
    <2>6. \A d \in DOMAIN Downloads : Len(results'[d]) = Reported(d)'
      BY <2>3, <2>4 DEF Reported, ManagerInv
    <2>7. ManagerInv'
      BY <1>1, <1>5, <1>6, <2>2, <2>4, <2>5, <2>6 DEF ManagerInv
    <2> QED
      BY <1>7, <2>7
  <1>10. CASE Over(t, p, Blocks, Nat)
    <2>1. PICK r : t.reports = <<r>> /\ GoodResult(r, p, Blocks, Nat)
      BY <1>10 DEF Over
    <2>2. r \in ResultType
      BY <2>1 DEF GoodResult, ResultType
    <2>3. t.reports \in Seq(ResultType) /\ Len(t.reports) = 1
      BY <2>1, <2>2
    <2>4. /\ results' \in [DOMAIN Downloads -> Seq(ResultType)]
          /\ \A d \in DOMAIN Downloads :
                /\ d # p => results'[d] = results[d]
                /\ d = p => results'[d] = results[d] \o t.reports
      BY <1>5, <1>8, <2>3, ResultsAfter
    <2>5. /\ ftp'.path = p /\ ftp'.index = -1 /\ ftp'.machine = <<>> /\ ftp'.timer = FALSE
          /\ ftp'.local \subseteq Blocks
      BY <1>5, <1>6, <1>10 DEF Over
    <2>6. ASSUME NEW d \in DOMAIN Downloads
          PROVE  Len(results'[d]) = Reported(d)'
      <3>1. CASE d = p
        <4>1. Len(results[d]) = 0
          BY <3>1 DEF ManagerInv, Reported
        <4>2. Len(results'[d]) = Len(results[d]) + Len(t.reports)
          <5>1. results[d] \in Seq(ResultType) /\ results'[d] = results[d] \o t.reports
            BY <3>1, <2>4, <1>8
          <5> QED
            BY <5>1, <2>3, LenOfConcat
        <4>3. Reported(d)' = 1
          BY <3>1, <2>5, <1>1, <1>3 DEF Reported
        <4> QED
          BY <4>1, <4>2, <4>3, <2>3
      <3>2. CASE d # p
        <4>1. Len(results'[d]) = Reported(d)
          BY <3>2, <2>4 DEF ManagerInv
        <4>2. Reported(d)' = Reported(d)
          BY <3>2, <2>5 DEF Reported
        <4> QED
          BY <4>1, <4>2
      <3> QED
        BY <3>1, <3>2
    <2>7. ManagerInv'
      BY <1>1, <1>5, <1>6, <2>4, <2>5, <2>6 DEF ManagerInv
    <2> QED
      BY <1>7, <2>7
  <1> QED
    BY <1>9, <1>10 DEF Unreported

-----------------------------------------------------------------------------
(* The invariant holds at first and after every step.                         *)
FtpInv == LinkInv /\ ManagerInv

LEMMA NothingStarted ==
    ASSUME Init
    PROVE  FtpInv
  <1>1. PICK n \in FirstSeq :
          ftp = [path |-> NoFile, machine |-> <<>>, index |-> -1, expectedSeq |-> n,
                 expectedOffset |-> 0, bytesWritten |-> 0, missing |-> <<>>, fileSize |-> 0,
                 retryCount |-> 0, checksize |-> TRUE, timer |-> FALSE,
                 fileOpen |-> FALSE, local |-> {}]
    BY DEF Init
  <1>2. n \in Numbers
    <2>1. FirstSeq \subseteq 0 .. (SeqNumbers - 1)
      BY FtpAssumption
    <2> QED
      BY <2>1 DEF Numbers
  <1>3. ftp \in FtpType
    <2>1. <<>> \in Seq(HoleType) /\ {} \in SUBSET (Nat \X Nat) /\ -1 \in Int
      OBVIOUS
    <2> QED
      BY <1>1, <1>2, <2>1, RetriesStart DEF FtpType, NoFile
  <1>4. Downloads \in Seq(DownloadType)
    BY FtpAssumption
  <1>5. started \in 0 .. Len(Downloads)
    BY <1>4 DEF Init
  <1>6. SpentType
    <2>1. /\ MaxCancels \in Nat /\ MaxOutages \in Nat /\ MaxLosses \in Nat
          /\ MaxReorders \in Nat /\ MaxEarly \in Nat
      BY FtpAssumption
    <2> QED
      BY <2>1 DEF Init, SpentType
  <1>7. server \in ServerType
    BY DEF Init, ServerType, NoFile
  <1>8. LinkInv
    <2>1. \A S : <<>> \in Seq(S)
      OBVIOUS
    <2> QED
      BY <1>5, <1>6, <1>7, <2>1 DEF Init, LinkInv
  <1>9. ManagerInv
    <2>1. results \in [DOMAIN Downloads -> Seq(ResultType)]
      BY DEF Init
    <2>2. \A d \in DOMAIN Downloads : Len(results[d]) = 0
      BY DEF Init
    <2>3. \A d \in DOMAIN Downloads : Reported(d) = 0
      BY <1>4 DEF Init, Reported
    <2>4. /\ ftp.index = -1 /\ ftp.timer = FALSE /\ ftp.machine = <<>> /\ ftp.local = {}
          /\ ftp.path = 0
      BY <1>1 DEF NoFile
    <2> QED
      BY <1>3, <1>5, <2>1, <2>2, <2>3, <2>4 DEF ManagerInv, Init
  <1> QED
    BY <1>8, <1>9 DEF FtpInv

(* The messages and the server's record keep their types as downloads start.  *)
LEMMA MoreStarted ==
    ASSUME NEW n \in Nat, NEW m \in Nat, n <= m, NEW q \in Seq(RequestType(1 .. n))
    PROVE  q \in Seq(RequestType(1 .. m))
  <1> DEFINE few == RequestType(1 .. n)
             many == RequestType(1 .. m)
  <1>1. few \subseteq many
    <2>1. 1 .. n \subseteq 1 .. m
      OBVIOUS
    <2> QED
      BY <2>1 DEF RequestType
  <1>2. q \in Seq(few)
    OBVIOUS
  <1> HIDE DEF few, many
  <1>3. q \in Seq(many)
    BY <1>1, <1>2, WiderSequence
  <1> QED
    BY <1>3 DEF many

LEMMA ServerKept ==
    ASSUME server \in ServerType, server' = server, started \in Nat, started' \in Nat,
           started <= started'
    PROVE  (server \in ServerType)'
  <1>1. 0 .. started \subseteq 0 .. started'
    OBVIOUS
  <1> QED
    BY <1>1 DEF ServerType

LEMMA HeadOfSome ==
    ASSUME NEW S, NEW q \in Seq(S), q # <<>>
    PROVE  Head(q) \in S /\ Tail(q) \in Seq(S)
  OBVIOUS

(* A download that is refused leaves the one under way alone.                 *)
LEMMA RefusalKeeps ==
    ASSUME FtpInv, started < Len(Downloads), started' = started + 1,
           ftp.machine # <<>>, refused' = refused \cup {started'}, Becomes(Manager)
    PROVE  ManagerInv' /\ toVehicle' = toVehicle
  <1>1. /\ started \in 0 .. Len(Downloads) /\ started \in Nat
        /\ toVehicle \in Seq(RequestType(1 .. started))
    BY DEF FtpInv, LinkInv
  <1>2. ftp' = ftp /\ toVehicle' = toVehicle \o <<>>
    BY DEF Becomes, Manager
  <1>3. toVehicle' = toVehicle
    BY <1>1, <1>2
  <1>4. /\ ftp \in FtpType /\ ftp.path \in 0 .. started /\ ftp.local \subseteq Blocks
        /\ refused \subseteq 1 .. started
        /\ results \in [DOMAIN Downloads -> Seq(ResultType)]
        /\ ftp.index # -1 => Downloading(Blocks, Nat) /\ ftp.path \notin refused
        /\ ftp.index = -1 => ftp.timer = FALSE /\ ftp.machine \in {<<>>, DownloadMachine}
        /\ \A d \in DOMAIN Downloads : Len(results[d]) = Reported(d)
    BY DEF FtpInv, ManagerInv
  <1>5. results' = results
    <2>1. results' = [d \in DOMAIN Downloads |->
                         IF d = ftp.path THEN results[d] \o <<>> ELSE results[d]]
      BY <1>4 DEF Becomes, Manager
    <2>2. \A d \in DOMAIN Downloads : results[d] \o <<>> = results[d]
      BY <1>4
    <2> QED
      BY <1>4, <2>1, <2>2
  <1>6. (Downloading(Blocks, Nat))' <=> Downloading(Blocks, Nat)
    BY <1>2 DEF Downloading, Account, Solid, Seen, In, Reading, Ending, Busy
  <1>7. \A d \in DOMAIN Downloads : Reported(d)' = Reported(d)
    <2>1. Downloads \in Seq(DownloadType)
      BY FtpAssumption
    <2>2. ftp.path # started' /\ started \notin {-1} /\ started' \notin 1 .. started
      BY <1>1, <1>4
    <2> QED
      BY <1>1, <1>2, <2>1, <2>2 DEF Reported
  <1> QED
    BY <1>1, <1>2, <1>3, <1>4, <1>5, <1>6, <1>7 DEF ManagerInv

(* A path that cannot be parsed: the record is reset, and stays idle.         *)
LEMMA BadPathKeeps ==
    ASSUME FtpInv, started < Len(Downloads), started' = started + 1, ftp.machine = <<>>,
           NEW g, g = Reset([ftp EXCEPT !.machine = DownloadMachine], started'),
           refused' = refused \cup {started'}, Becomes([Manager EXCEPT !.ftp = g])
    PROVE  ManagerInv' /\ toVehicle' = toVehicle
  <1>1. /\ started \in 0 .. Len(Downloads) /\ started \in Nat
        /\ toVehicle \in Seq(RequestType(1 .. started))
    BY DEF FtpInv, LinkInv
  <1>2. Downloads \in Seq(DownloadType)
    BY FtpAssumption
  <1>3. started' \in DOMAIN Downloads /\ started' \notin 1 .. started
    BY <1>1, <1>2
  <1>4. /\ ftp \in FtpType /\ refused \subseteq 1 .. started
        /\ results \in [DOMAIN Downloads -> Seq(ResultType)]
        /\ ftp.index # -1 => Downloading(Blocks, Nat)
        /\ ftp.index = -1 => ftp.timer = FALSE
        /\ \A d \in DOMAIN Downloads : Len(results[d]) = Reported(d)
    BY DEF FtpInv, ManagerInv
  <1>5. ftp.index = -1
    <2>1. Downloading(Blocks, Nat) => ftp.machine # <<>>
      BY Machines DEF Downloading, Busy, In, Reading, Ending
    <2> QED
      BY <1>4, <2>1
  <1>6. /\ g \in FtpType /\ g.path = started' /\ g.machine = DownloadMachine
        /\ g.index = ftp.index /\ g.timer = ftp.timer /\ g.local = {}
    BY ZenonT(60), <1>3, <1>4, ResetFacts
  <1>7. ftp' = g /\ toVehicle' = toVehicle \o <<>>
    BY DEF Becomes, Manager
  <1>8. results' = results
    <2>1. results' = [d \in DOMAIN Downloads |->
                         IF d = g.path THEN results[d] \o <<>> ELSE results[d]]
      BY <1>4 DEF Becomes, Manager
    <2>2. \A d \in DOMAIN Downloads : results[d] \o <<>> = results[d]
      BY <1>4
    <2> QED
      BY <1>4, <2>1, <2>2
  <1>9. ASSUME NEW d \in DOMAIN Downloads
        PROVE  Reported(d)' = Reported(d)
    <2>1. d \in Nat
      BY DownloadFacts
    <2>2. ~(d = ftp.path /\ ftp.index # -1) /\ ~(d = ftp'.path /\ ftp'.index # -1)
      BY <1>5, <1>6, <1>7
    <2>3. CASE d = started'
      BY <1>3, <2>3 DEF Reported
    <2>4. CASE d # started'
      <3>1. d \in 1 .. started' <=> d \in 1 .. started
        BY <1>1, <2>1, <2>4
      <3> QED
        BY <2>2, <2>4, <3>1 DEF Reported
    <2> QED
      BY <2>3, <2>4
  <1>10. ftp' \in FtpType /\ ftp'.path \in 0 .. started' /\ ftp'.local \subseteq Blocks
    BY <1>1, <1>6, <1>7
  <1>11. refused' \subseteq 1 .. started'
    BY <1>1, <1>4
  <1>12. ftp'.index = -1 /\ ftp'.timer = FALSE /\ ftp'.machine = DownloadMachine
    BY <1>4, <1>5, <1>6, <1>7
  <1>13. results' \in [DOMAIN Downloads -> Seq(ResultType)]
    BY <1>4, <1>8
  <1>14. \A e \in DOMAIN Downloads : Len(results'[e]) = Reported(e)'
    BY <1>4, <1>8, <1>9
  <1>15. toVehicle' = toVehicle
    BY <1>1, <1>7
  <1> QED
    BY <1>10, <1>11, <1>12, <1>13, <1>14, <1>15 DEF ManagerInv

(* A download that is opened.                                                 *)
LEMMA OpeningKeeps ==
    ASSUME FtpInv, started < Len(Downloads), started' = started + 1, ftp.machine = <<>>,
           NEW t, Waiting(t, started', Blocks, Nat),
           refused' = refused, Becomes(t)
    PROVE  ManagerInv' /\ toVehicle' \in Seq(RequestType(1 .. started'))
  <1>1. /\ started \in 0 .. Len(Downloads) /\ started \in Nat /\ started' \in Nat
        /\ started <= started' /\ toVehicle \in Seq(RequestType(1 .. started))
    BY DEF FtpInv, LinkInv
  <1>2. Downloads \in Seq(DownloadType)
    BY FtpAssumption
  <1>3. started' \in DOMAIN Downloads /\ started' \notin 1 .. started
        /\ started' \in 1 .. started'
    BY <1>1, <1>2
  <1>4. /\ ftp \in FtpType /\ refused \subseteq 1 .. started
        /\ results \in [DOMAIN Downloads -> Seq(ResultType)]
        /\ ftp.index # -1 => Downloading(Blocks, Nat)
        /\ \A d \in DOMAIN Downloads : Len(results[d]) = Reported(d)
    BY DEF FtpInv, ManagerInv
  <1>5. ftp.index = -1
    <2>1. Downloading(Blocks, Nat) => ftp.machine # <<>>
      BY Machines DEF Downloading, Busy, In, Reading, Ending
    <2> QED
      BY <1>4, <2>1
  <1>6. Going(t, started', Blocks, Nat) /\ Typed(t, started') /\ t.reports = <<>>
    BY DEF Waiting, Going
  <1>7. /\ ftp' = t.ftp /\ toVehicle' = toVehicle \o t.sent
        /\ t.ftp.path = started' /\ t.sent \in Seq(RequestType({started'}))
    BY <1>6 DEF Becomes, Typed, ManagerType
  <1>8. results' = results
    <2>1. results' = [d \in DOMAIN Downloads |->
                         IF d = t.ftp.path THEN results[d] \o <<>> ELSE results[d]]
      BY <1>4, <1>6 DEF Becomes
    <2>2. \A d \in DOMAIN Downloads : results[d] \o <<>> = results[d]
      BY <1>4
    <2> QED
      BY <1>4, <2>1, <2>2
  <1>9. Downloading(Blocks, Nat)' /\ ftp'.path = started' /\ ftp'.index # -1
    BY <1>3, <1>6, <1>7, DownloadingNext
  <1>10. ASSUME NEW d \in DOMAIN Downloads
         PROVE  Reported(d)' = Reported(d)
    <2>1. d \in Nat
      BY DownloadFacts
    <2>2. CASE d = started'
      BY <1>3, <1>9, <2>2 DEF Reported
    <2>3. CASE d # started'
      <3>1. d \in 1 .. started' <=> d \in 1 .. started
        BY <1>1, <2>1, <2>3
      <3> QED
        BY <1>5, <1>9, <2>3, <3>1 DEF Reported
    <2> QED
      BY <2>2, <2>3
  <1>11. ftp' \in FtpType /\ ftp'.local \subseteq Blocks
    BY <1>9 DEF Downloading, Account
  <1>12. ManagerInv'
    BY <1>1, <1>3, <1>4, <1>8, <1>9, <1>10, <1>11 DEF ManagerInv
  <1>13. toVehicle' \in Seq(RequestType(1 .. started'))
    <2> DEFINE all == RequestType(1 .. started')
               one == RequestType({started'})
    <2>1. toVehicle \in Seq(all)
      BY <1>1, MoreStarted
    <2>2. one \subseteq all
      BY <1>3 DEF RequestType
    <2>3. t.sent \in Seq(one)
      BY <1>7
    <2> HIDE DEF all, one
    <2>4. t.sent \in Seq(all)
      BY <2>2, <2>3, WiderSequence
    <2>5. toVehicle' \in Seq(all)
      BY <1>7, <2>1, <2>4
    <2> QED
      BY <2>5 DEF all
  <1> QED
    BY <1>12, <1>13

LEMMA DownloadKeeps ==
    ASSUME FtpInv, Download
    PROVE  FtpInv'
  <1> DEFINE d == started'
             g == Reset([ftp EXCEPT !.machine = DownloadMachine], d)
             open == [Manager EXCEPT !.ftp = [g EXCEPT !.index = 0]]
             t == SendRequestExpectAck(open, "Open", 0)
  <1>1. /\ started < Len(Downloads) /\ started' = started + 1
        /\ server' = server /\ toGcs' = toGcs /\ linkUp' = linkUp /\ spent' = spent
    BY DEF Download
  <1>2. /\ started \in 0 .. Len(Downloads) /\ started \in Nat /\ linkUp \in BOOLEAN /\ SpentType
        /\ toVehicle \in Seq(RequestType(1 .. started))
        /\ toGcs \in Seq(GoodAnswer) /\ server \in ServerType /\ ftp \in FtpType
    BY DEF FtpInv, LinkInv, ManagerInv
  <1>3. Downloads \in Seq(DownloadType)
    BY FtpAssumption
  <1>4. /\ started' \in 0 .. Len(Downloads) /\ started' \in Nat /\ started <= started'
        /\ started' \in DOMAIN Downloads
    BY <1>1, <1>2, <1>3
  <1>5. toVehicle \in Seq(RequestType(1 .. started'))
    BY <1>2, <1>4, MoreStarted
  <1>6. (server \in ServerType)'
    BY <1>1, <1>2, <1>4, ServerKept
  <1>7. \/ /\ ftp.machine # <<>> /\ refused' = refused \cup {started'} /\ Becomes(Manager)
        \/ /\ ftp.machine = <<>> /\ refused' = refused \cup {started'}
           /\ Becomes([Manager EXCEPT !.ftp = g])
        \/ ftp.machine = <<>> /\ refused' = refused /\ Becomes(t)
    BY DEF Download
  <1> HIDE DEF g
  <1>8. ManagerInv' /\ toVehicle' \in Seq(RequestType(1 .. started'))
    <2>1. CASE ftp.machine # <<>> /\ refused' = refused \cup {started'} /\ Becomes(Manager)
      BY <1>1, <1>5, <2>1, RefusalKeeps
    <2>2. CASE /\ ftp.machine = <<>> /\ refused' = refused \cup {started'}
               /\ Becomes([Manager EXCEPT !.ftp = g])
      <3>1. g = Reset([ftp EXCEPT !.machine = DownloadMachine], started')
        BY DEF g
      <3> QED
        BY <1>1, <1>5, <2>2, <3>1, BadPathKeeps
    <2>3. CASE ftp.machine = <<>> /\ refused' = refused /\ Becomes(t)
      <3>1. g = Reset([ftp EXCEPT !.machine = DownloadMachine], d)
        BY DEF g
      <3>2. open = [Manager EXCEPT !.ftp = [g EXCEPT !.index = 0]]
        OBVIOUS
      <3>3. t = SendRequestExpectAck(open, "Open", 0)
        OBVIOUS
      <3>4. d \in DOMAIN Downloads
        BY <1>4
      <3> HIDE DEF open, t, d
      <3>5. Waiting(t, d, Blocks, Nat)
        BY <1>2, <3>1, <3>2, <3>3, <3>4, DownloadWaits
      <3>6. Waiting(t, started', Blocks, Nat)
        BY <3>5 DEF d
      <3> QED
        BY <1>1, <2>3, <3>6, OpeningKeeps
    <2> QED
      BY <1>7, <2>1, <2>2, <2>3
  <1> HIDE DEF t, open, d
  <1>9. LinkInv'
    BY <1>1, <1>2, <1>4, <1>6, <1>8 DEF LinkInv, SpentType
  <1> QED
    BY <1>8, <1>9 DEF FtpInv

LEMMA CancelKeeps ==
    ASSUME FtpInv, Cancel
    PROVE  FtpInv'
  <1> DEFINE s == [Manager EXCEPT !.ftp.machine = TerminateMachine,
                                  !.ftp.index = 0, !.ftp.retryCount = 0]
             t == TerminateBegin(s)
  <1>1. /\ state # "none" /\ Troubled("cancels", MaxCancels) /\ Becomes(t)
        /\ started' = started /\ refused' = refused /\ server' = server
        /\ toGcs' = toGcs /\ linkUp' = linkUp
    BY DEF Cancel
  <1>2. ftp.index # -1
    BY <1>1 DEF state
  <1>3. LinkInv /\ ManagerInv /\ Downloading(Blocks, Nat) /\ ftp.path \in DOMAIN Downloads
    BY <1>2 DEF FtpInv, ManagerInv, Downloading
  <1>4. s = [Manager EXCEPT !.ftp.machine = TerminateMachine,
                            !.ftp.index = 0, !.ftp.retryCount = 0]
        /\ t = TerminateBegin(s)
    OBVIOUS
  <1> HIDE DEF s, t
  <1>5. Waiting(t, ftp.path, Blocks, Nat)
    BY <1>3, <1>4, CancelWaits
  <1>6. Unreported(t, ftp.path, Blocks, Nat)
    BY <1>5 DEF Waiting, Going, Unreported
  <1>7. ManagerInv' /\ toVehicle' \in Seq(RequestType(1 .. started))
    <2> DEFINE p == ftp.path
    <2>1. p = ftp.path /\ Unreported(t, p, Blocks, Nat)
      BY <1>6
    <2> HIDE DEF p
    <2> QED
      BY <1>1, <1>2, <1>3, <2>1, BecomesKeeps
  <1>8. SpentType'
    BY <1>1, <1>3, TroubledType DEF LinkInv
  <1>9. LinkInv'
    BY <1>1, <1>3, <1>7, <1>8 DEF LinkInv, ServerType
  <1> QED
    BY <1>7, <1>9 DEF FtpInv

LEMMA TimeoutKeeps ==
    ASSUME FtpInv, Timeout
    PROVE  FtpInv'
  <1> DEFINE s == TimerStopped(Manager)
             t == TimedOut(s)
             p == ftp.path
  <1>1. /\ ftp.timer /\ (Troubled("early", MaxEarly) \/ UNCHANGED spent) /\ Becomes(t)
        /\ started' = started /\ refused' = refused /\ server' = server
        /\ toGcs' = toGcs /\ linkUp' = linkUp
    BY DEF Timeout
  <1>2. ftp.index # -1
    BY <1>1 DEF FtpInv, ManagerInv
  <1>3. LinkInv /\ ManagerInv /\ Downloading(Blocks, Nat) /\ p \in DOMAIN Downloads
    BY <1>2 DEF FtpInv, ManagerInv, Downloading
  <1>4. s = TimerStopped(Manager) /\ t = TimedOut(s) /\ p = ftp.path
    OBVIOUS
  <1> HIDE DEF s, t
  <1>5. Leaves(t, ftp.path, Blocks, Nat)
    BY <1>3, <1>4, TimeoutLeaves
  <1>6. Unreported(t, p, Blocks, Nat)
    BY <1>5, LeavesOutcome
  <1> HIDE DEF p
  <1>7. ManagerInv' /\ toVehicle' \in Seq(RequestType(1 .. started))
    BY <1>1, <1>2, <1>3, <1>4, <1>6, BecomesKeeps
  <1>8. SpentType'
    <2>1. SpentType
      BY <1>3 DEF LinkInv
    <2>2. CASE Troubled("early", MaxEarly)
      BY <2>1, <2>2, TroubledType
    <2>3. CASE UNCHANGED spent
      BY <2>1, <2>3 DEF SpentType
    <2> QED
      BY <1>1, <2>2, <2>3
  <1>9. LinkInv'
    BY <1>1, <1>3, <1>7, <1>8 DEF LinkInv, ServerType
  <1> QED
    BY <1>7, <1>9 DEF FtpInv

(* An answer taken is about a block of some file.                             *)
LEMMA TakenAnswer ==
    ASSUME Downloading(Blocks, Nat), NEW r \in GoodAnswer, Taken(r)
    PROVE  r \in AnswerType /\ Ours(r, ftp, Blocks, Nat)
  <1>1. /\ r \in AnswerType /\ r.size \in Nat
        /\ r.ack /\ r.opcode \in {"Burst", "Read"} => <<r.file, r.offset>> \in Blocks
    BY DEF GoodAnswer, AnswerType
  <1>2. r.opcode = OpcodeOf[state]
    BY DEF Taken, Expected
  <1>3. In(ftp, 1) \/ In(ftp, 2) => state \in {"burst", "fill"}
    BY DEF In, state, DownloadMachine
  <1>4. In(ftp, 1) \/ In(ftp, 2) => r.opcode \in {"Burst", "Read"}
    BY <1>2, <1>3 DEF OpcodeOf
  <1> QED
    BY <1>1, <1>4 DEF Ours

LEMMA ReceiveKeeps ==
    ASSUME FtpInv, Receive
    PROVE  FtpInv'
  <1> DEFINE r == Head(toGcs)
             s == TimerStopped(Manager)
             p == ftp.path
  <1>1. /\ toGcs # <<>> /\ toGcs' = Tail(toGcs)
        /\ started' = started /\ refused' = refused /\ server' = server
        /\ linkUp' = linkUp /\ spent' = spent
        /\ \/ Taken(r) /\ \E t \in Answered(s, r) : Becomes(t)
           \/ UNCHANGED <<ftp, results, toVehicle>>
    BY DEF Receive
  <1>2. LinkInv /\ ManagerInv
    BY DEF FtpInv
  <1>3. toGcs \in Seq(GoodAnswer)
    BY <1>2 DEF LinkInv
  <1>4. r \in GoodAnswer /\ toGcs' \in Seq(GoodAnswer)
    <2> HIDE DEF r
    <2>1. Head(toGcs) \in GoodAnswer /\ Tail(toGcs) \in Seq(GoodAnswer)
      BY <1>1, <1>3, HeadOfSome
    <2> QED
      BY <1>1, <2>1 DEF r
  <1> HIDE DEF r
  <1>5. ManagerInv' /\ toVehicle' \in Seq(RequestType(1 .. started))
    <2>1. CASE Taken(r) /\ \E t \in Answered(s, r) : Becomes(t)
      <3>1. PICK t \in Answered(s, r) : Becomes(t)
        BY <2>1
      <3>2. ftp.index # -1
        BY <2>1 DEF Taken, state
      <3>3. Downloading(Blocks, Nat)
        BY <1>2, <3>2 DEF ManagerInv
      <3>4. r \in AnswerType /\ Ours(r, ftp, Blocks, Nat)
        BY <1>4, <2>1, <3>3, TakenAnswer
      <3>5. s = TimerStopped(Manager) /\ p = ftp.path
        OBVIOUS
      <3> HIDE DEF s
      <3>6. Leaves(t, p, Blocks, Nat) \/ t = s
        BY <3>1, <3>3, <3>4, <3>5, AnswerLeaves
      <3>7. Going(s, p, Blocks, Nat)
        BY <3>3, <3>5, ManagerStops
      <3> HIDE DEF p
      <3>8. Unreported(t, p, Blocks, Nat)
        BY <3>6, <3>7, LeavesOutcome DEF Unreported
      <3> QED
        BY <1>1, <1>2, <3>1, <3>2, <3>5, <3>8, BecomesKeeps
    <2>2. CASE UNCHANGED <<ftp, results, toVehicle>>
      BY <1>1, <1>2, <2>2, ManagerLeft DEF LinkInv
    <2> QED
      BY <1>1, <2>1, <2>2
  <1>6. LinkInv'
    BY <1>1, <1>2, <1>4, <1>5 DEF LinkInv, ServerType, SpentType
  <1> QED
    BY <1>5, <1>6 DEF FtpInv

LEMMA ServeKeeps ==
    ASSUME FtpInv, Serve
    PROVE  FtpInv'
  <1> DEFINE q == Head(toVehicle)
             replies == Replies(q)
             file == FileAfter(q)
             reply == IF replies = <<>> THEN server.lastReply ELSE Last(replies)
  <1>1. /\ toVehicle # <<>> /\ toVehicle' = Tail(toVehicle)
        /\ UNCHANGED <<ftp, results, started, refused, linkUp, spent>>
        /\ \/ toGcs' = Append(toGcs, server.lastReply) /\ Repeated(q) /\ server' = server
           \/ /\ toGcs' = toGcs \o replies
              /\ server' = [server EXCEPT !.file = file, !.lastReply = reply]
    BY DEF Serve
  <1>2. /\ started \in 0 .. Len(Downloads) /\ linkUp \in BOOLEAN
        /\ toVehicle \in Seq(RequestType(1 .. started)) /\ toGcs \in Seq(GoodAnswer)
        /\ server \in ServerType
    BY DEF FtpInv, LinkInv
  <1>3. q \in RequestType(1 .. started) /\ toVehicle' \in Seq(RequestType(1 .. started))
    <2> DEFINE all == RequestType(1 .. started)
    <2>1. toVehicle \in Seq(all)
      BY <1>2
    <2> HIDE DEF all, q
    <2>2. Head(toVehicle) \in all /\ Tail(toVehicle) \in Seq(all)
      BY <1>1, <2>1, HeadOfSome
    <2> QED
      BY <1>1, <2>2 DEF all, q
  <1>4. replies = Replies(q) /\ file = FileAfter(q)
    OBVIOUS
  <1> HIDE DEF q, replies, file
  <1>5. replies \in Seq(GoodAnswer)
    BY <1>2, <1>3, <1>4, RepliesGood
  <1>6. file \in 0 .. started
    BY <1>2, <1>3, <1>4, FileAfterType
  <1>7. server.lastReply \in GoodAnswer \cup {NoReply}
    BY <1>2 DEF ServerType
  <1>8. reply \in GoodAnswer \cup {NoReply}
    <2>1. replies # <<>> => Last(replies) \in GoodAnswer
      BY <1>5 DEF Last
    <2> QED
      BY <1>7, <2>1
  <1> HIDE DEF reply
  <1>9. toGcs' \in Seq(GoodAnswer) /\ server' \in ServerType
    <2>1. CASE toGcs' = Append(toGcs, server.lastReply) /\ Repeated(q) /\ server' = server
      <3>1. server.lastReply \in GoodAnswer
        BY <1>7, <2>1 DEF Repeated
      <3> QED
        BY <1>2, <2>1, <3>1
    <2>2. CASE /\ toGcs' = toGcs \o replies
               /\ server' = [server EXCEPT !.file = file, !.lastReply = reply]
      <3>1. toGcs' \in Seq(GoodAnswer)
        BY <1>2, <1>5, <2>2
      <3>2. server' \in ServerType
        BY <1>2, <1>6, <1>8, <2>2 DEF ServerType
      <3> QED
        BY <3>1, <3>2
    <2> QED
      BY <1>1, <2>1, <2>2
  <1>10. LinkInv'
    BY <1>1, <1>2, <1>3, <1>9 DEF FtpInv, LinkInv, ServerType, SpentType
  <1> QED
    BY <1>1, <1>10, ManagerLeft DEF FtpInv

LEMMA LoseKeeps ==
    ASSUME FtpInv, Lose
    PROVE  FtpInv'
  <1> DEFINE all == RequestType(1 .. started)
  <1>1. /\ Troubled("losses", MaxLosses)
        /\ UNCHANGED <<ftp, results, started, refused, server, linkUp>>
        /\ \/ toVehicle # <<>> /\ toVehicle' = Tail(toVehicle) /\ toGcs' = toGcs
           \/ toGcs # <<>> /\ toGcs' = Tail(toGcs) /\ toVehicle' = toVehicle
    BY DEF Lose
  <1>2. LinkInv /\ toVehicle \in Seq(all) /\ toGcs \in Seq(GoodAnswer) /\ SpentType
    BY DEF FtpInv, LinkInv
  <1> HIDE DEF all
  <1>3. toVehicle' \in Seq(all) /\ toGcs' \in Seq(GoodAnswer)
    <2>1. toVehicle # <<>> => Tail(toVehicle) \in Seq(all)
      BY <1>2, HeadOfSome
    <2>2. toGcs # <<>> => Tail(toGcs) \in Seq(GoodAnswer)
      BY <1>2, HeadOfSome
    <2> QED
      BY <1>1, <1>2, <2>1, <2>2
  <1>4. SpentType'
    BY <1>1, <1>2, TroubledType
  <1>5. LinkInv'
    BY <1>1, <1>2, <1>3, <1>4 DEF LinkInv, ServerType, all
  <1> QED
    BY <1>1, <1>5, ManagerLeft DEF FtpInv

LEMMA TwoSwapped ==
    ASSUME NEW S, NEW q \in Seq(S), Len(q) > 1,
           NEW t, t = <<q[2], q[1]>> \o SubSeq(q, 3, Len(q))
    PROVE  t \in Seq(S)
  <1>1. Len(q) \in Nat /\ q[1] \in S /\ q[2] \in S
    OBVIOUS
  <1>2. <<q[2], q[1]>> \in Seq(S)
    BY <1>1
  <1>3. \A i \in 3 .. Len(q) : q[i] \in S
    OBVIOUS
  <1>4. SubSeq(q, 3, Len(q)) \in Seq(S)
    BY <1>1, <1>3, SubSeqProperties
  <1> QED
    BY <1>2, <1>4

LEMMA LinkKeeps ==
    ASSUME FtpInv, Reorder \/ LinkGoes \/ LinkComesBack
    PROVE  FtpInv'
  <1> DEFINE all == RequestType(1 .. started)
  <1>1. LinkInv /\ toVehicle \in Seq(all) /\ toGcs \in Seq(GoodAnswer) /\ SpentType
    BY DEF FtpInv, LinkInv
  <1>2. /\ UNCHANGED <<ftp, results, started, refused, server>>
        /\ \/ Troubled("reorders", MaxReorders) \/ Troubled("outages", MaxOutages)
           \/ spent' = spent
        /\ linkUp' = linkUp \/ linkUp' \in BOOLEAN
    BY DEF Reorder, LinkGoes, LinkComesBack
  <1> HIDE DEF all
  <1>3. toVehicle' \in Seq(all) /\ toGcs' \in Seq(GoodAnswer)
    <2>1. CASE Reorder
      <3>1. /\ Len(toGcs) > 1 /\ toVehicle' = toVehicle
            /\ toGcs' = <<toGcs[2], toGcs[1]>> \o SubSeq(toGcs, 3, Len(toGcs))
        BY <2>1 DEF Reorder
      <3>2. toGcs' \in Seq(GoodAnswer)
        BY <1>1, <3>1, TwoSwapped
      <3> QED
        BY <1>1, <3>1, <3>2
    <2>2. CASE LinkGoes
      <3>1. toVehicle' = <<>> /\ toGcs' = <<>>
        BY <2>2 DEF LinkGoes
      <3> QED
        BY <3>1
    <2>3. CASE LinkComesBack
      BY <1>1, <2>3 DEF LinkComesBack
    <2> QED
      BY <2>1, <2>2, <2>3
  <1>4. SpentType'
    <2>1. spent' = spent => SpentType'
      BY <1>1 DEF SpentType
    <2>2. Troubled("reorders", MaxReorders) => SpentType'
      BY <1>1, TroubledType
    <2>3. Troubled("outages", MaxOutages) => SpentType'
      BY <1>1, TroubledType
    <2> QED
      BY <1>2, <2>1, <2>2, <2>3
  <1>5. LinkInv'
    BY <1>1, <1>2, <1>3, <1>4 DEF LinkInv, ServerType, all
  <1> QED
    BY <1>2, <1>5, ManagerLeft DEF FtpInv

LEMMA StepKeeps ==
    ASSUME FtpInv, [Next]_vars
    PROVE  FtpInv'
  <1>1. CASE UNCHANGED vars
    <2>1. LinkInv'
      BY <1>1 DEF FtpInv, LinkInv, ServerType, SpentType, vars
    <2> QED
      BY <1>1, <2>1, ManagerLeft DEF FtpInv, vars
  <1> QED
    BY <1>1, DownloadKeeps, CancelKeeps, TimeoutKeeps, ReceiveKeeps, ServeKeeps, LoseKeeps,
       LinkKeeps DEF Next

(* The invariant of the manager and of what is on its way, in every state,    *)
(* whatever is lost, late or out of order.                                    *)
THEOREM FtpInvariant == Spec => []FtpInv
  <1>1. Init => FtpInv
    BY NothingStarted
  <1>2. FtpInv /\ [Next]_vars => FtpInv'
    BY StepKeeps
  <1> QED
    BY <1>1, <1>2, PTL DEF Spec

-----------------------------------------------------------------------------
(* What follows from it.                                                      *)

(* Where the machine is, when a download is under way, and when none is.      *)
LEMMA IdleOrBusy ==
    ASSUME ManagerInv
    PROVE  state # "none" <=> ftp.index # -1
  <1>1. ftp.index # -1 => Busy(ftp)
    BY DEF ManagerInv, Downloading
  <1>2. ftp.index # -1 => state \in {"open", "burst", "fill", "reset", "terminate"}
    BY <1>1, StateNames
  <1>3. ftp.index = -1 => state = "none"
    BY DEF state
  <1> QED
    BY <1>2, <1>3

LEMMA ResultsTyped ==
    ASSUME NEW d \in DOMAIN Downloads, ManagerInv
    PROVE  results[d] \in Seq([error : Error, file : SUBSET Blocks, opened : BOOLEAN])
  BY DEF ManagerInv, ResultType

LEMMA TypesFollow ==
    ASSUME FtpInv
    PROVE  TypeOK
  <1>1. /\ ftp \in FtpType /\ ftp.path \in 0 .. started /\ ftp.local \subseteq Blocks
        /\ refused \subseteq 1 .. started /\ started \in 0 .. Len(Downloads)
        /\ linkUp \in BOOLEAN /\ SpentType /\ server \in ServerType
    BY DEF FtpInv, LinkInv, ManagerInv
  <1>2. ftp.index \in -1 .. (Len(ftp.machine) - 1)
    <2>1. CASE ftp.index = -1
      <3>1. Len(ftp.machine) \in Nat
        BY <1>1 DEF FtpType, DownloadMachine, TerminateMachine
      <3> QED
        BY <2>1, <3>1
    <2>2. CASE ftp.index # -1
      <3>1. Busy(ftp)
        BY <2>2 DEF FtpInv, ManagerInv, Downloading
      <3>2. \/ ftp.machine = DownloadMachine /\ ftp.index \in 0 .. 3
            \/ ftp.machine = TerminateMachine /\ ftp.index = 0
        BY <3>1 DEF Busy, In, Reading, Ending
      <3>3. Len(DownloadMachine) = 4 /\ Len(TerminateMachine) = 1
        BY DEF DownloadMachine, TerminateMachine
      <3>4. CASE ftp.machine = DownloadMachine /\ ftp.index \in 0 .. 3
        <4> DEFINE top == Len(ftp.machine) - 1
                   i == ftp.index
        <4>1. top = 3 /\ i \in 0 .. 3
          BY <3>3, <3>4
        <4> HIDE DEF top, i
        <4>2. i \in -1 .. top
          BY <4>1
        <4> QED
          BY <4>2 DEF top, i
      <3>5. CASE ftp.machine = TerminateMachine /\ ftp.index = 0
        <4>1. Len(ftp.machine) - 1 = 0
          BY <3>3, <3>5
        <4> QED
          BY SMTT(30), <3>5, <4>1
      <3> QED
        BY <3>2, <3>4, <3>5
    <2> QED
      BY <2>1, <2>2
  <1>3. /\ ftp.machine \in {<<>>, DownloadMachine, TerminateMachine}
        /\ ftp.expectedSeq \in 0 .. (SeqNumbers - 1)
        /\ ftp.expectedOffset \in Nat /\ ftp.bytesWritten \in Nat /\ ftp.fileSize \in Nat
        /\ ftp.retryCount \in 0 .. (MaxRetry + 1)
        /\ ftp.checksize \in BOOLEAN /\ ftp.timer \in BOOLEAN /\ ftp.fileOpen \in BOOLEAN
    BY <1>1 DEF FtpType, Numbers
  <1>4. ftp.missing \in Seq([offset : Nat, count : Nat \ {0}])
    BY <1>1 DEF FtpType, HoleType
  <1>5. server.errMode \in ErrModes /\ server.file \in 0 .. started
    BY <1>1 DEF ServerType
  <1>6. \A d \in DOMAIN Downloads :
           results[d] \in Seq([error : Error, file : SUBSET Blocks, opened : BOOLEAN])
    BY ResultsTyped DEF FtpInv
  <1> QED
    BY <1>1, <1>2, <1>3, <1>4, <1>5, <1>6 DEF TypeOK, SpentType

(* Every variable has its type: the index stays within its machine, the       *)
(* number within its modulus, a hole is never empty and the retry count never *)
(* goes past its limit by more than the one that fails the download.          *)
THEOREM TypeCorrect == Spec => []TypeOK
  BY FtpInvariant, TypesFollow, PTL

(* However requests, answers, timeouts, cancels and outages interleave, a     *)
(* download is reported once, never while it is under way, and one that is    *)
(* refused is not reported at all.                                            *)
THEOREM ReportedExactlyOnce == Spec => []ReportedOnce
  <1>1. FtpInv => ReportedOnce
    <2> SUFFICES ASSUME FtpInv, NEW d \in 1 .. started
                 PROVE  Len(results[d]) =
                           IF d \in refused \/ (d = ftp.path /\ state # "none") THEN 0 ELSE 1
      BY DEF ReportedOnce
    <2>1. started \in 0 .. Len(Downloads) /\ Downloads \in Seq(DownloadType)
      BY FtpAssumption DEF FtpInv, LinkInv
    <2>2. d \in DOMAIN Downloads
      BY <2>1
    <2>3. Len(results[d]) = Reported(d)
      BY <2>2 DEF FtpInv, ManagerInv
    <2>4. state # "none" <=> ftp.index # -1
      BY IdleOrBusy DEF FtpInv
    <2> QED
      BY <2>3, <2>4 DEF Reported
  <1> QED
    BY <1>1, FtpInvariant, PTL

(* While bursts are read, the blocks written and the holes noted are disjoint *)
(* and are together exactly what lies before the offset expected next, and    *)
(* bytesWritten counts the blocks: whatever is lost, repeated or late.        *)
BurstAccount == TypeOK /\ BurstAccountedFor

THEOREM BurstsAreAccountedFor == Spec => []BurstAccount
  <1>1. FtpInv => BurstAccountedFor
    <2> SUFFICES ASSUME FtpInv, state = "burst"
                 PROVE  Accounted
      BY DEF BurstAccountedFor
    <2>1. ftp.index # -1
      BY DEF state
    <2>2. Downloading(Blocks, Nat)
      BY <2>1 DEF FtpInv, ManagerInv
    <2>3. In(ftp, 1)
      BY <2>2, StateNames DEF Downloading
    <2>4. Account(ftp, Blocks, Nat)
      BY <2>2 DEF Downloading
    <2>5. Seen(ftp) = 0 .. (ftp.expectedOffset - 1) /\ Solid(ftp)
      BY <2>3, <2>4 DEF Account, In, Reading
    <2> QED
      BY <2>5 DEF Accounted, BlocksSeen, Solid, Seen
  <1>2. FtpInv => BurstAccount
    BY <1>1, TypesFollow DEF BurstAccount
  <1> QED
    BY <1>2, FtpInvariant, PTL

(* While holes are filled, and until the download is over, the blocks written *)
(* and the holes left are still disjoint and together a beginning of a file,  *)
(* none missed and none counted twice, the hole asked for being the first;    *)
(* and the reset is only sent with the size reached that the vehicle gave.    *)
FillAccount ==
    /\ state \in {"fill", "reset"} =>
          /\ \E n \in Nat : OffsetsIn(ftp.local) \cup HolesIn(ftp.missing) = 0 .. (n - 1)
          /\ OffsetsIn(ftp.local) \cap HolesIn(ftp.missing) = {}
          /\ ftp.bytesWritten = Cardinality(OffsetsIn(ftp.local))
    /\ state = "fill" => ftp.missing # <<>> /\ ftp.expectedOffset = Head(ftp.missing).offset
    /\ state = "reset" /\ ftp.checksize => ftp.bytesWritten = ftp.fileSize

THEOREM HolesAreAccountedFor == Spec => []FillAccount
  <1>1. FtpInv => FillAccount
    <2> SUFFICES ASSUME FtpInv, state \in {"fill", "reset"}
                 PROVE  FillAccount
      BY DEF FillAccount
    <2>1. ftp.index # -1
      BY DEF state
    <2>2. Downloading(Blocks, Nat)
      BY <2>1 DEF FtpInv, ManagerInv
    <2>3. (state = "fill" /\ In(ftp, 2)) \/ (state = "reset" /\ In(ftp, 3))
      BY <2>2, StateNames DEF Downloading
    <2>4. Account(ftp, Blocks, Nat)
      BY <2>2 DEF Downloading
    <2>5. (\E n \in Nat : Seen(ftp) = 0 .. (n - 1)) /\ Solid(ftp)
      BY <2>3, <2>4 DEF Account, In, Reading
    <2>6. /\ state = "fill" => ftp.missing # <<>> /\ ftp.expectedOffset = Head(ftp.missing).offset
          /\ state = "reset" /\ ftp.checksize => ftp.bytesWritten = ftp.fileSize
      BY <2>3, <2>4 DEF Account
    <2> QED
      BY <2>5, <2>6 DEF FillAccount, Solid, Seen
  <1> QED
    BY <1>1, FtpInvariant, PTL

-----------------------------------------------------------------------------
(* The timer.  A packet of a burst whose number is before the expected one    *)
(* by plain comparison, but not by the test for old packets, is dropped with  *)
(* the timer stopped: that happens when the numbers wrap.                     *)
NumbersInOrder ==
    toGcs # <<>> /\ ~Old(Head(toGcs).seq) => Head(toGcs).seq >= ftp.expectedSeq

WaitInv == ftp.index # -1 => ftp.timer = TRUE

LEMMA WaitsOn ==
    ASSUME NEW t, NEW p, NEW B, NEW Z, Leaves(t, p, B, Z), ftp' = t.ftp
    PROVE  WaitInv'
  BY DEF Leaves, Waiting, Over, WaitInv

LEMMA DownloadWaitsOn ==
    ASSUME FtpInv, WaitInv, Download
    PROVE  WaitInv'
  <1> DEFINE d == started'
             g == Reset([ftp EXCEPT !.machine = DownloadMachine], d)
             open == [Manager EXCEPT !.ftp = [g EXCEPT !.index = 0]]
             t == SendRequestExpectAck(open, "Open", 0)
  <1>1. /\ d \in DOMAIN Downloads /\ ftp \in FtpType
        /\ ftp.index # -1 => Downloading(Blocks, Nat)
    <2>1. started \in 0 .. Len(Downloads) /\ Downloads \in Seq(DownloadType)
      BY FtpAssumption DEF FtpInv, LinkInv
    <2>2. started < Len(Downloads) /\ started' = started + 1
      BY DEF Download
    <2> QED
      BY <2>1, <2>2 DEF FtpInv, ManagerInv
  <1>2. \/ Becomes(Manager)
        \/ ftp.machine = <<>> /\ Becomes([Manager EXCEPT !.ftp = g])
        \/ Becomes(t)
    BY DEF Download
  <1>3. g = Reset([ftp EXCEPT !.machine = DownloadMachine], d)
    OBVIOUS
  <1>4. open = [Manager EXCEPT !.ftp = [g EXCEPT !.index = 0]]
    OBVIOUS
  <1>5. t = SendRequestExpectAck(open, "Open", 0)
    OBVIOUS
  <1> HIDE DEF g, open, t, d
  <1>6. CASE Becomes(Manager)
    BY <1>6 DEF Becomes, Manager, WaitInv
  <1>7. CASE ftp.machine = <<>> /\ Becomes([Manager EXCEPT !.ftp = g])
    <2>1. ftp.index = -1
      BY <1>1, <1>7, Machines DEF Downloading, Busy, In, Reading, Ending
    <2>2. g.index = ftp.index
      BY <1>1, <1>3, ResetFacts
    <2> QED
      BY <1>7, <2>1, <2>2 DEF Becomes, Manager, WaitInv
  <1>8. CASE Becomes(t)
    <2>1. Waiting(t, d, Blocks, Nat)
      BY <1>1, <1>3, <1>4, <1>5, DownloadWaits
    <2> QED
      BY <1>8, <2>1 DEF Becomes, Waiting, WaitInv
  <1> QED
    BY <1>2, <1>6, <1>7, <1>8

LEMMA CancelWaitsOn ==
    ASSUME FtpInv, Cancel
    PROVE  WaitInv'
  <1> DEFINE s == [Manager EXCEPT !.ftp.machine = TerminateMachine,
                                  !.ftp.index = 0, !.ftp.retryCount = 0]
             t == TerminateBegin(s)
  <1>1. state # "none" /\ Becomes(t)
    BY DEF Cancel
  <1>2. Downloading(Blocks, Nat)
    BY <1>1 DEF FtpInv, ManagerInv, state
  <1>3. s = [Manager EXCEPT !.ftp.machine = TerminateMachine,
                            !.ftp.index = 0, !.ftp.retryCount = 0]
        /\ t = TerminateBegin(s)
    OBVIOUS
  <1> HIDE DEF s, t
  <1>4. Waiting(t, ftp.path, Blocks, Nat)
    BY <1>2, <1>3, CancelWaits
  <1> QED
    BY <1>1, <1>4 DEF Becomes, Waiting, WaitInv

LEMMA TimeoutWaitsOn ==
    ASSUME FtpInv, Timeout
    PROVE  WaitInv'
  <1> DEFINE s == TimerStopped(Manager)
             t == TimedOut(s)
  <1>1. ftp.timer /\ Becomes(t)
    BY DEF Timeout
  <1>2. Downloading(Blocks, Nat)
    BY <1>1 DEF FtpInv, ManagerInv
  <1>3. s = TimerStopped(Manager) /\ t = TimedOut(s)
    OBVIOUS
  <1> HIDE DEF s, t
  <1>4. Leaves(t, ftp.path, Blocks, Nat)
    BY <1>2, <1>3, TimeoutLeaves
  <1> QED
    BY <1>1, <1>4 DEF Becomes, Leaves, Waiting, Over, WaitInv

LEMMA ReceiveWaitsOn ==
    ASSUME FtpInv, WaitInv, NumbersInOrder, Receive
    PROVE  WaitInv'
  <1> DEFINE r == Head(toGcs)
             s == TimerStopped(Manager)
  <1>1. /\ toGcs # <<>>
        /\ \/ Taken(r) /\ \E t \in Answered(s, r) : Becomes(t)
           \/ ftp' = ftp
    BY DEF Receive
  <1>2. CASE Taken(r) /\ \E t \in Answered(s, r) : Becomes(t)
    <2>1. PICK t \in Answered(s, r) : Becomes(t)
      BY <1>2
    <2>2. Downloading(Blocks, Nat)
      BY <1>2 DEF Taken, state, FtpInv, ManagerInv
    <2>3. r \in GoodAnswer
      <3>1. toGcs \in Seq(GoodAnswer)
        BY DEF FtpInv, LinkInv
      <3> QED
        BY <1>1, <3>1
    <2>4. r.seq >= ftp.expectedSeq /\ r.seq \in Nat /\ ftp.expectedSeq \in Nat
      <3>1. ~Old(r.seq)
        BY <1>2 DEF Taken
      <3>2. r.seq \in Numbers /\ ftp.expectedSeq \in Numbers
        BY <2>2, <2>3 DEF GoodAnswer, AnswerType, Downloading, FtpType
      <3>3. SeqNumbers \in Nat
        BY FtpAssumption
      <3>4. Numbers \subseteq Nat
        BY <3>3 DEF Numbers
      <3> QED
        BY <1>1, <3>1, <3>2, <3>4 DEF NumbersInOrder
    <2>5. s = TimerStopped(Manager)
      OBVIOUS
    <2> HIDE DEF r, s
    <2>6. r \in AnswerType /\ Ours(r, ftp, Blocks, Nat)
      BY <1>2, <2>2, <2>3, TakenAnswer
    <2>7. Leaves(t, ftp.path, Blocks, Nat) \/ r.seq < ftp.expectedSeq
      BY <2>1, <2>2, <2>5, <2>6, AnswerLeaves
    <2>8. Leaves(t, ftp.path, Blocks, Nat)
      BY <2>4, <2>7
    <2> QED
      BY <2>1, <2>8 DEF Becomes, Leaves, Waiting, Over, WaitInv
  <1>3. CASE ftp' = ftp
    BY <1>3 DEF WaitInv
  <1> QED
    BY <1>1, <1>2, <1>3

LEMMA StepWaitsOn ==
    ASSUME FtpInv, WaitInv, NumbersInOrder, [Next]_vars
    PROVE  WaitInv'
  <1>1. CASE UNCHANGED ftp
    BY <1>1 DEF WaitInv
  <1>2. Serve \/ Lose \/ Reorder \/ LinkGoes \/ LinkComesBack \/ UNCHANGED vars => UNCHANGED ftp
    BY DEF Serve, Lose, Reorder, LinkGoes, LinkComesBack, vars
  <1> QED
    BY <1>1, <1>2, DownloadWaitsOn, CancelWaitsOn, TimeoutWaitsOn, ReceiveWaitsOn DEF Next

(* A download under way always has a timer to end its wait, and an idle       *)
(* manager has none, as long as no packet is let through whose number is      *)
(* before the expected one.                                                   *)
THEOREM TimerAlwaysRuns == Spec /\ []NumbersInOrder => []AlwaysWaits
  <1>1. Init => WaitInv
    BY DEF Init, WaitInv
  <1>2. FtpInv /\ WaitInv /\ NumbersInOrder /\ [Next]_vars => WaitInv'
    BY StepWaitsOn
  <1>3. FtpInv /\ WaitInv => AlwaysWaits
    <2> SUFFICES ASSUME FtpInv, WaitInv
                 PROVE  ftp.timer <=> state # "none"
      BY DEF AlwaysWaits
    <2>1. state # "none" <=> ftp.index # -1
      BY IdleOrBusy DEF FtpInv
    <2>2. ftp.index = -1 => ftp.timer = FALSE
      BY DEF FtpInv, ManagerInv
    <2> QED
      BY <2>1, <2>2 DEF WaitInv
  <1> QED
    BY <1>1, <1>2, <1>3, FtpInvariant, PTL DEF Spec

(* In particular before the numbers have gone half way round.                 *)
FirstHalf == ftp.expectedSeq <= (SeqNumbers - 1) \div 2

THEOREM TimerRunsInFirstHalf == Spec /\ []FirstHalf => []AlwaysWaits
  <1>1. FtpInv /\ FirstHalf => NumbersInOrder
    <2> SUFFICES ASSUME FtpInv, FirstHalf, toGcs # <<>>, ~Old(Head(toGcs).seq)
                 PROVE  Head(toGcs).seq >= ftp.expectedSeq
      BY DEF NumbersInOrder
    <2> DEFINE n == Head(toGcs).seq
               e == ftp.expectedSeq
    <2>1. Head(toGcs) \in GoodAnswer
      <3>1. toGcs \in Seq(GoodAnswer)
        BY DEF FtpInv, LinkInv
      <3> QED
        BY <3>1
    <2>2. n \in Numbers
      BY <2>1 DEF GoodAnswer, AnswerType
    <2>3. e \in Numbers
      BY DEF FtpInv, ManagerInv, FtpType
    <2>4. e <= (SeqNumbers - 1) \div 2 /\ ~((e - 1 - n) % SeqNumbers < (SeqNumbers - 1) \div 2)
      BY DEF FirstHalf, Old
    <2>5. n \in Int /\ e \in Int
      BY <2>2, <2>3 DEF Numbers
    <2> HIDE DEF n, e
    <2>6. ~(n < e)
      BY <2>2, <2>3, <2>4, SmallNumbersKeepOrder
    <2>7. n >= e
      BY <2>5, <2>6
    <2> QED
      BY <2>7 DEF n, e
  <1> QED
    BY <1>1, TimerAlwaysRuns, FtpInvariant, PTL

-----------------------------------------------------------------------------
(* The file.  As long as the answers taken for a download are about the file  *)
(* wanted, its account lies in its own blocks and in the size reported.       *)
Of(p) == {p} \X (0 .. (Downloads[p].size - 1))
SizeOf(p) == {Downloads[p].reported}

Results(d) == \A i \in DOMAIN results[d] : GoodResult(results[d][i], d, Of(d), SizeOf(d))

(* The blocks and sizes of download p, as far as d is concerned.              *)
Within(p, d) == IF p = d THEN Of(p) ELSE Blocks
Sizes(p, d) == IF p = d THEN SizeOf(p) ELSE Nat

FileOf(d) ==
    /\ ftp.index # -1 => Downloading(Within(ftp.path, d), Sizes(ftp.path, d))
    /\ Results(d)

FileInv == \A d \in DOMAIN Downloads : FileOf(d)

LEMMA OneMore ==
    ASSUME NEW S, NEW q \in Seq(S), NEW r, NEW t, t = q \o <<r>>
    PROVE  t = Append(q, r)
  <1> DEFINE T == S \cup {r}
  <1>1. S \subseteq T /\ r \in T
    OBVIOUS
  <1> HIDE DEF T
  <1>2. q \in Seq(T)
    BY <1>1, WiderSequence
  <1>3. <<r>> \in Seq(T)
    BY <1>1
  <1> QED
    BY <1>1, <1>2, <1>3

LEMMA FilesAfter ==
    ASSUME ManagerInv, NEW d \in DOMAIN Downloads, FileOf(d), NEW p, p \in DOMAIN Downloads,
           NEW t, Unreported(t, p, Within(p, d), Sizes(p, d)), Becomes(t)
    PROVE  FileOf(d)'
  <1> DEFINE B == Within(p, d)
             Z == Sizes(p, d)
  <1>1. t.ftp.path = p
    BY DEF Unreported, Going, Over, Typed
  <1>2. results \in [DOMAIN Downloads -> Seq(ResultType)]
    BY DEF ManagerInv
  <1>3. ftp' = t.ftp
    BY DEF Becomes
  <1>4. results'[d] = IF d = p THEN results[d] \o t.reports ELSE results[d]
    BY <1>1, <1>2 DEF Becomes
  <1>5. CASE Going(t, p, B, Z)
    <2>1. Downloading(B, Z)' /\ ftp'.path = p
      <3> HIDE DEF B, Z
      <3> QED
        BY <1>3, <1>5, DownloadingNext
    <2>2. t.reports = <<>>
      BY <1>5 DEF Going
    <2>3. results'[d] = results[d]
      BY <1>2, <1>4, <2>2
    <2>4. Results(d)'
      BY <2>3 DEF FileOf, Results
    <2>5. Downloading(Within(ftp.path, d), Sizes(ftp.path, d))'
      BY <2>1
    <2> QED
      BY <2>4, <2>5 DEF FileOf
  <1>6. CASE Over(t, p, B, Z)
    <2>1. PICK r : t.reports = <<r>> /\ GoodResult(r, p, B, Z)
      BY <1>6 DEF Over
    <2>2. ftp'.index = -1
      BY <1>3, <1>6 DEF Over
    <2>3. Results(d)'
      <3>1. CASE d # p
        BY <1>4, <3>1 DEF FileOf, Results
      <3>2. CASE d = p
        <4>1. results'[d] = Append(results[d], r)
          <5>1. results[d] \in Seq(ResultType) /\ results'[d] = results[d] \o <<r>>
            BY <1>2, <1>4, <2>1, <3>2
          <5> QED
            BY <5>1, OneMore
        <4>0. GoodResult(r, d, Of(d), SizeOf(d))
          BY <2>1, <3>2 DEF Within, Sizes
        <4> DEFINE q == results[d]
        <4>2. q \in Seq(ResultType) /\ \A i \in DOMAIN q : GoodResult(q[i], d, Of(d), SizeOf(d))
          BY <1>2 DEF FileOf, Results
        <4> HIDE DEF q
        <4>3. \A i \in DOMAIN Append(q, r) : GoodResult(Append(q, r)[i], d, Of(d), SizeOf(d))
          <5> SUFFICES ASSUME NEW i \in DOMAIN Append(q, r)
                       PROVE  GoodResult(Append(q, r)[i], d, Of(d), SizeOf(d))
            OBVIOUS
          <5>1. /\ DOMAIN q = 1 .. Len(q) /\ Len(q) \in Nat
                /\ DOMAIN Append(q, r) = 1 .. (Len(q) + 1)
                /\ \A j \in 1 .. Len(q) : Append(q, r)[j] = q[j]
                /\ Append(q, r)[Len(q) + 1] = r
            BY <4>2
          <5>2. CASE i = Len(q) + 1
            BY <4>0, <5>1, <5>2
          <5>3. CASE i # Len(q) + 1
            <6>1. i \in 1 .. Len(q)
              BY <5>1, <5>3
            <6> QED
              BY <4>2, <5>1, <6>1
          <5> QED
            BY <5>2, <5>3
        <4> QED
          BY <4>1, <4>3 DEF q, Results
      <3> QED
        BY <3>1, <3>2
    <2> QED
      BY <2>2, <2>3 DEF FileOf
  <1> QED
    BY <1>5, <1>6 DEF Unreported

(* With answers that are ours the blocks let through are ours as well.        *)
LEMMA OwnAnswer ==
    ASSUME FtpInv, AnswersAreOurs, toGcs # <<>>, NEW r, r = Head(toGcs), Taken(r),
           NEW p, p = ftp.path, p \in DOMAIN Downloads
    PROVE  r \in AnswerType /\ Ours(r, ftp, Of(p), SizeOf(p))
  <1>1. r \in GoodAnswer
    <2>1. toGcs \in Seq(GoodAnswer)
      BY DEF FtpInv, LinkInv
    <2> QED
      BY <2>1
  <1>2. r \in AnswerType /\ (r.ack /\ r.opcode \in {"Burst", "Read"} => <<r.file, r.offset>> \in Blocks)
    BY <1>1 DEF GoodAnswer
  <1>3. ASSUME r.ack, In(ftp, 0)
        PROVE  r.size \in SizeOf(p)
    <2>1. state = "open"
      BY <1>3 DEF In, state, DownloadMachine
    <2> QED
      BY <1>3, <2>1 DEF AnswersAreOurs, SizeOf
  <1>4. ASSUME r.ack, In(ftp, 1) \/ In(ftp, 2)
        PROVE  <<r.file, r.offset>> \in Of(p)
    <2>1. state \in {"burst", "fill"}
      BY <1>4 DEF In, state, DownloadMachine
    <2>2. r.file = p
      BY <1>4, <2>1 DEF AnswersAreOurs
    <2>3. r.opcode \in {"Burst", "Read"}
      BY <2>1 DEF Taken, Expected, OpcodeOf
    <2>4. <<r.file, r.offset>> \in Blocks
      BY <1>2, <1>4, <2>3
    <2>5. PICK d \in DOMAIN Downloads : <<r.file, r.offset>> \in {d} \X (0 .. (Downloads[d].size - 1))
      BY <2>4 DEF Blocks
    <2>6. r.file = d
      BY <2>5
    <2> QED
      BY <2>2, <2>5, <2>6 DEF Of
  <1> QED
    BY <1>2, <1>3, <1>4 DEF Ours

LEMMA AnswerWithin ==
    ASSUME FtpInv, NEW p, p = ftp.path, p \in DOMAIN Downloads, Downloading(Blocks, Nat),
           NEW d, p = d => AnswersAreOurs, toGcs # <<>>, NEW r, r = Head(toGcs), Taken(r)
    PROVE  r \in AnswerType /\ Ours(r, ftp, Within(p, d), Sizes(p, d))
  <1>1. CASE p = d
    BY <1>1, OwnAnswer DEF Within, Sizes
  <1>2. CASE p # d
    <2>1. r \in GoodAnswer
      <3>1. toGcs \in Seq(GoodAnswer)
        BY DEF FtpInv, LinkInv
      <3> QED
        BY <3>1
    <2>2. r \in AnswerType /\ Ours(r, ftp, Blocks, Nat)
      BY <2>1, TakenAnswer
    <2> QED
      BY <1>2, <2>2 DEF Within, Sizes
  <1> QED
    BY <1>1, <1>2

LEMMA FilesLeft ==
    ASSUME NEW d \in DOMAIN Downloads, FileOf(d), UNCHANGED <<ftp, results>>
    PROVE  FileOf(d)'
  BY DEF FileOf, Results, Downloading, Account, Solid, Seen, In, Reading, Ending, Busy

LEMMA DownloadFiles ==
    ASSUME FtpInv, NEW d \in DOMAIN Downloads, FileOf(d), Download
    PROVE  FileOf(d)'
  <1> DEFINE p == started'
             g == Reset([ftp EXCEPT !.machine = DownloadMachine], p)
             open == [Manager EXCEPT !.ftp = [g EXCEPT !.index = 0]]
             t == SendRequestExpectAck(open, "Open", 0)
  <1>1. /\ p \in DOMAIN Downloads /\ ftp \in FtpType
        /\ results \in [DOMAIN Downloads -> Seq(ResultType)]
        /\ ftp.index # -1 => Downloading(Blocks, Nat)
    <2>1. started \in 0 .. Len(Downloads) /\ Downloads \in Seq(DownloadType)
      BY FtpAssumption DEF FtpInv, LinkInv
    <2>2. started < Len(Downloads) /\ started' = started + 1
      BY DEF Download
    <2> QED
      BY <2>1, <2>2 DEF FtpInv, ManagerInv
  <1>2. \/ Becomes(Manager)
        \/ ftp.machine = <<>> /\ Becomes([Manager EXCEPT !.ftp = g])
        \/ Becomes(t)
    BY DEF Download
  <1>3. g = Reset([ftp EXCEPT !.machine = DownloadMachine], p)
    OBVIOUS
  <1>4. open = [Manager EXCEPT !.ftp = [g EXCEPT !.index = 0]]
    OBVIOUS
  <1>5. t = SendRequestExpectAck(open, "Open", 0)
    OBVIOUS
  <1>6. \A e \in DOMAIN Downloads : results[e] \o <<>> = results[e]
    BY <1>1
  <1> HIDE DEF g, open, t, p
  <1>7. CASE Becomes(Manager)
    <2>1. results' = [e \in DOMAIN Downloads |->
                         IF e = ftp.path THEN results[e] \o <<>> ELSE results[e]]
      BY <1>1, <1>7 DEF Becomes, Manager
    <2>2. results' = results
      BY <1>1, <1>6, <2>1
    <2>3. ftp' = ftp
      BY <1>7 DEF Becomes, Manager
    <2> QED
      BY <2>2, <2>3, FilesLeft
  <1>8. CASE ftp.machine = <<>> /\ Becomes([Manager EXCEPT !.ftp = g])
    <2>1. ftp.index = -1
      BY <1>1, <1>8, Machines DEF Downloading, Busy, In, Reading, Ending
    <2>2. g.index = ftp.index
      BY <1>1, <1>3, ResetFacts
    <2>3. results' = [e \in DOMAIN Downloads |->
                         IF e = g.path THEN results[e] \o <<>> ELSE results[e]]
      BY <1>1, <1>8 DEF Becomes, Manager
    <2>4. results' = results
      BY <1>1, <1>6, <2>3
    <2>5. ftp'.index = -1
      BY <1>8, <2>1, <2>2 DEF Becomes, Manager
    <2> QED
      BY <2>4, <2>5 DEF FileOf, Results
  <1>9. CASE Becomes(t)
    <2> DEFINE B == Within(p, d)
               Z == Sizes(p, d)
    <2>1. Waiting(t, p, B, Z)
      <3> HIDE DEF B, Z
      <3> QED
        BY <1>1, <1>3, <1>4, <1>5, DownloadWaits
    <2>2. Going(t, p, Within(p, d), Sizes(p, d))
      BY <2>1 DEF Waiting, Going
    <2>3. Unreported(t, p, Within(p, d), Sizes(p, d))
      BY <2>2 DEF Unreported
    <2> QED
      BY <1>1, <1>9, <2>3, FilesAfter DEF FtpInv
  <1> QED
    BY <1>2, <1>7, <1>8, <1>9

LEMMA CancelFiles ==
    ASSUME FtpInv, NEW d \in DOMAIN Downloads, FileOf(d), Cancel
    PROVE  FileOf(d)'
  <1> DEFINE s == [Manager EXCEPT !.ftp.machine = TerminateMachine,
                                  !.ftp.index = 0, !.ftp.retryCount = 0]
             t == TerminateBegin(s)
             p == ftp.path
  <1>1. state # "none" /\ Becomes(t)
    BY DEF Cancel
  <1>2. Downloading(Within(p, d), Sizes(p, d)) /\ p \in DOMAIN Downloads
    BY <1>1 DEF FileOf, state, Downloading
  <1>3. s = [Manager EXCEPT !.ftp.machine = TerminateMachine,
                            !.ftp.index = 0, !.ftp.retryCount = 0]
        /\ t = TerminateBegin(s)
    OBVIOUS
  <1> HIDE DEF s, t
  <1>4. Waiting(t, p, Within(p, d), Sizes(p, d))
    BY <1>2, <1>3, CancelWaits
  <1>5. Unreported(t, p, Within(p, d), Sizes(p, d))
    BY <1>4 DEF Waiting, Going, Unreported
  <1> HIDE DEF p
  <1> QED
    BY <1>1, <1>2, <1>5, FilesAfter DEF FtpInv

LEMMA TimeoutFiles ==
    ASSUME FtpInv, NEW d \in DOMAIN Downloads, FileOf(d), Timeout
    PROVE  FileOf(d)'
  <1> DEFINE s == TimerStopped(Manager)
             t == TimedOut(s)
             p == ftp.path
  <1>1. ftp.timer /\ Becomes(t)
    BY DEF Timeout
  <1>2. Downloading(Within(p, d), Sizes(p, d)) /\ p \in DOMAIN Downloads
    BY <1>1 DEF FtpInv, ManagerInv, FileOf, Downloading
  <1>3. s = TimerStopped(Manager) /\ t = TimedOut(s)
    OBVIOUS
  <1> HIDE DEF s, t
  <1>4. Leaves(t, p, Within(p, d), Sizes(p, d))
    BY <1>2, <1>3, TimeoutLeaves
  <1>5. Unreported(t, p, Within(p, d), Sizes(p, d))
    BY <1>4, LeavesOutcome
  <1> HIDE DEF p
  <1> QED
    BY <1>1, <1>2, <1>5, FilesAfter DEF FtpInv

LEMMA ReceiveFiles ==
    ASSUME FtpInv, NEW d \in DOMAIN Downloads, FileOf(d), ftp.path = d => AnswersAreOurs,
           Receive
    PROVE  FileOf(d)'
  <1> DEFINE r == Head(toGcs)
             s == TimerStopped(Manager)
             p == ftp.path
  <1>1. /\ toGcs # <<>>
        /\ \/ Taken(r) /\ \E t \in Answered(s, r) : Becomes(t)
           \/ UNCHANGED <<ftp, results>>
    BY DEF Receive
  <1>2. CASE Taken(r) /\ \E t \in Answered(s, r) : Becomes(t)
    <2>1. PICK t \in Answered(s, r) : Becomes(t)
      BY <1>2
    <2>0. Downloading(Blocks, Nat)
      BY <1>2 DEF Taken, state, FtpInv, ManagerInv
    <2>2. Downloading(Within(p, d), Sizes(p, d)) /\ p \in DOMAIN Downloads
      BY <1>2 DEF Taken, state, FileOf, Downloading
    <2>3. s = TimerStopped(Manager) /\ r = Head(toGcs) /\ p = ftp.path
      OBVIOUS
    <2> HIDE DEF r, s
    <2>4. r \in AnswerType /\ Ours(r, ftp, Within(p, d), Sizes(p, d))
      <3> HIDE DEF p
      <3> QED
        BY <1>1, <1>2, <2>2, <2>3, <2>0, AnswerWithin
    <2> DEFINE B == Within(p, d)
               Z == Sizes(p, d)
    <2>5. Downloading(B, Z) /\ Ours(r, ftp, B, Z)
      BY <2>2, <2>4
    <2> HIDE DEF B, Z
    <2>6. Leaves(t, p, B, Z) \/ t = s
      BY <2>1, <2>3, <2>4, <2>5, AnswerLeaves
    <2>7. Going(s, p, B, Z)
      BY <2>3, <2>5, ManagerStops
    <2>8. Unreported(t, p, B, Z)
      BY <2>6, <2>7, LeavesOutcome DEF Unreported
    <2>9. Unreported(t, p, Within(p, d), Sizes(p, d))
      BY <2>8 DEF B, Z
    <2> HIDE DEF p
    <2> QED
      BY <2>1, <2>2, <2>9, FilesAfter DEF FtpInv
  <1>3. CASE UNCHANGED <<ftp, results>>
    BY <1>3, FilesLeft
  <1> QED
    BY <1>1, <1>2, <1>3

LEMMA StepFiles ==
    ASSUME FtpInv, NEW d \in DOMAIN Downloads, FileOf(d), ftp.path = d => AnswersAreOurs,
           [Next]_vars
    PROVE  FileOf(d)'
  <1>1. Serve \/ Lose \/ Reorder \/ LinkGoes \/ LinkComesBack \/ UNCHANGED vars =>
           UNCHANGED <<ftp, results>>
    BY DEF Serve, Lose, Reorder, LinkGoes, LinkComesBack, vars
  <1> QED
    BY <1>1, FilesLeft, DownloadFiles, CancelFiles, TimeoutFiles, ReceiveFiles DEF Next

(* A file of the size reported, all of it in the file's own blocks.           *)
LEMMA AllBlocks ==
    ASSUME NEW d, NEW n \in Nat, NEW file, file \subseteq {d} \X (0 .. (n - 1)),
           IsFiniteSet(OffsetsIn(file)), Cardinality(OffsetsIn(file)) = n
    PROVE  file = {d} \X (0 .. (n - 1))
  <1>1. OffsetsIn(file) \subseteq 0 .. (n - 1)
    BY DEF OffsetsIn
  <1>2. IsFiniteSet(0 .. (n - 1)) /\ Cardinality(0 .. (n - 1)) = n
    <2> DEFINE m == n - 1
    <2>1. m \in Int /\ (IF 0 > m THEN 0 ELSE m - 0 + 1) = n
      OBVIOUS
    <2>2. IsFiniteSet(0 .. m) /\ Cardinality(0 .. m) = n
      <3>1. 0 \in Int
        OBVIOUS
      <3> HIDE DEF m
      <3> QED
        BY <2>1, <3>1, FS_Interval
    <2> QED
      BY <2>2
  <1>3. OffsetsIn(file) = 0 .. (n - 1)
    BY <1>1, <1>2, FS_Subset
  <1>4. ASSUME NEW o \in 0 .. (n - 1)
        PROVE  <<d, o>> \in file
    <2>1. PICK b \in file : o = b[2]
      BY <1>3, <1>4 DEF OffsetsIn
    <2>2. b = <<d, o>>
      BY <2>1
    <2> QED
      BY <2>1, <2>2
  <1> QED
    BY <1>4

(* As long as the answers let through are about the file wanted, a download   *)
(* brings that file's blocks only; and one that succeeds, of a size that is   *)
(* compared and was given rightly, brings all of them.                        *)
FilesBrought ==
    \A d \in DOMAIN Downloads :
        /\ \A i \in DOMAIN results[d] :
              results[d][i].file \subseteq {d} \X (0 .. (Downloads[d].size - 1))
        /\ Downloads[d].checksize /\ Downloads[d].reported = Downloads[d].size =>
              \A done \in Successes(d) : Whole(d, done.file)

THEOREM OwnBlocksOnly == Spec /\ []AnswersAreOurs => []FilesBrought
  <1>1. Init => FileInv
    BY DEF Init, FileInv, FileOf, Results
  <1>2. FtpInv /\ FileInv /\ AnswersAreOurs /\ [Next]_vars => FileInv'
    BY StepFiles DEF FileInv
  <1>3. FileInv => FilesBrought
    <2> SUFFICES ASSUME FileInv, NEW d \in DOMAIN Downloads
                 PROVE  /\ \A i \in DOMAIN results[d] : results[d][i].file \subseteq Of(d)
                        /\ Downloads[d].checksize /\ Downloads[d].reported = Downloads[d].size =>
                              \A done \in Successes(d) : Whole(d, done.file)
      BY DEF FilesBrought, Of
    <2>1. \A i \in DOMAIN results[d] : GoodResult(results[d][i], d, Of(d), SizeOf(d))
      BY DEF FileInv, FileOf, Results
    <2>2. ASSUME Downloads[d].checksize, Downloads[d].reported = Downloads[d].size,
                 NEW done \in Successes(d)
          PROVE  Whole(d, done.file)
      <3>1. PICK i \in DOMAIN results[d] : results[d][i].error = "none" /\ done = results[d][i]
        BY DEF Successes
      <3>2. /\ done.file \subseteq Of(d) /\ IsFiniteSet(OffsetsIn(done.file))
            /\ Cardinality(OffsetsIn(done.file)) \in SizeOf(d)
        BY <2>1, <2>2, <3>1 DEF GoodResult
      <3> DEFINE n == Downloads[d].size
                 file == done.file
      <3>3. n \in Nat
        BY DownloadFacts
      <3>4. /\ file \subseteq {d} \X (0 .. (n - 1)) /\ IsFiniteSet(OffsetsIn(file))
            /\ Cardinality(OffsetsIn(file)) = n
        BY <2>2, <3>2 DEF Of, SizeOf
      <3> HIDE DEF n, file
      <3>5. file = {d} \X (0 .. (n - 1))
        BY <3>3, <3>4, AllBlocks
      <3> QED
        BY <3>5 DEF n, file, Whole
    <2> QED
      BY <2>1, <2>2 DEF GoodResult
  <1> QED
    BY <1>1, <1>2, <1>3, FtpInvariant, PTL DEF Spec

(* So with sizes that are compared and right every download reported without  *)
(* an error is whole, whatever was lost, repeated, reordered or left over.    *)
THEOREM CheckedFilesAreWhole ==
    ASSUME \A d \in DOMAIN Downloads :
              Downloads[d].checksize /\ Downloads[d].reported = Downloads[d].size
    PROVE  Spec /\ []AnswersAreOurs => []DownloadedFileIsWhole
  <1>1. FilesBrought => DownloadedFileIsWhole
    BY DEF FilesBrought, DownloadedFileIsWhole
  <1> QED
    BY <1>1, OwnBlocksOnly, PTL
=============================================================================
