--------------------------- MODULE PipeRefinement ---------------------------
(***************************************************************************)
(* Pipe implements ByteStream for every size of the ring and every width   *)
(* of the counters: each byte is read once and in order.                   *)
(***************************************************************************)
EXTENDS PipeProofs, Integers, SequenceTheorems

-----------------------------------------------------------------------------
(* Places in the ring *)

\* Division by the size of the ring.
LEMMA Division ==
  ASSUME NEW a \in Nat
  PROVE  /\ a \div PIPESIZE \in Nat /\ a % PIPESIZE \in 0..(PIPESIZE - 1)
         /\ a = PIPESIZE * (a \div PIPESIZE) + (a % PIPESIZE)
  BY Sizes

\* A product with the size of the ring is 0 or no smaller than it.
LEMMA Multiple ==
  ASSUME NEW d \in Int, PIPESIZE * d < PIPESIZE, 0 - PIPESIZE < PIPESIZE * d
  PROVE  d = 0
<1>1. CASE d >= 1
  BY <1>1, Sizes
<1>2. CASE d <= 0 - 1
  BY <1>2, Sizes
<1> QED BY <1>1, <1>2

\* The quotient and the remainder are determined by the equation.
LEMMA Remainder ==
  ASSUME NEW c \in Nat, NEW r \in 0..(PIPESIZE - 1), NEW s \in 0..(PIPESIZE - 1),
         NEW x \in Int, NEW y \in Int,
         c = PIPESIZE * x + r, c = PIPESIZE * y + s
  PROVE  r = s
<1>1. PIPESIZE * (x - y) = s - r
  BY Sizes
<1>2. x - y = 0
  BY <1>1, Multiple, Sizes
<1> QED BY <1>1, <1>2, Sizes

\* Less than one turn apart, two bytes have different places.
LEMMA Apart ==
  ASSUME NEW a \in Nat, NEW b \in Nat, a < b, b < a + PIPESIZE
  PROVE  a % PIPESIZE # b % PIPESIZE
<1> SUFFICES ASSUME a % PIPESIZE = b % PIPESIZE PROVE FALSE
  OBVIOUS
<1> DEFINE x == a \div PIPESIZE  y == b \div PIPESIZE  r == a % PIPESIZE
<1>1. x \in Nat /\ y \in Nat /\ r \in Nat /\ a = PIPESIZE * x + r /\ b = PIPESIZE * y + r
  BY Division
<1> HIDE DEF x, y, r
<1>2. PIPESIZE * (y - x) = b - a
  BY <1>1, Sizes
<1>3. y - x = 0
  BY <1>1, <1>2, Multiple, Sizes
<1> QED BY <1>1, <1>2, <1>3, Sizes

\* The wrap of the counters leaves the places alone.
LEMMA Wrap ==
  ASSUME NEW a \in Nat
  PROVE  (a + Width) % PIPESIZE = a % PIPESIZE
<1> DEFINE x == a \div PIPESIZE  r == a % PIPESIZE
           w == Width \div PIPESIZE
           c == a + Width
           z == c \div PIPESIZE  s == c % PIPESIZE
<1>1. x \in Nat /\ r \in 0..(PIPESIZE - 1) /\ a = PIPESIZE * x + r
  BY Division
<1>2. w \in Nat /\ Width = PIPESIZE * w
  BY Division, PipeAssumption
<1>3. c \in Nat
  BY Sizes
<1>4. z \in Nat /\ s \in 0..(PIPESIZE - 1) /\ c = PIPESIZE * z + s
  BY <1>3, Division
<1>5. c = a + Width
  OBVIOUS
<1> HIDE DEF x, r, w, c, z, s
<1>6. c = PIPESIZE * (x + w) + r
  BY <1>1, <1>2, <1>5, Sizes
<1>7. s = r
  <2>1. x + w \in Int /\ z \in Int
    BY <1>1, <1>2, <1>4
  <2> QED BY <1>1, <1>3, <1>4, <1>6, <2>1, Remainder
<1> QED BY <1>7 DEF s, c, r

\* The writer's place comes after the bytes of the ring.
LEMMA WritePlace ==
  ASSUME NEW a \in 0..(Width - 1), NEW b \in 0..(Width - 1)
  PROVE  (a + Count(a, b)) % PIPESIZE = b % PIPESIZE
<1>1. Count(a, b) = IF a <= b THEN b - a ELSE b + Width - a
  BY CountIs DEF Count
<1>2. a + Count(a, b) = b \/ a + Count(a, b) = b + Width
  BY <1>1, Sizes
<1>3. (b + Width) % PIPESIZE = b % PIPESIZE
  BY Wrap, Sizes
<1> QED BY <1>2, <1>3

\* The place of a byte counted from the reader's next position.
LEMMA ReadPlace ==
  ASSUME NEW a \in 0..(Width - 1), NEW k \in Nat
  PROVE  (((a + 1) % Width) + k) % PIPESIZE = (a + 1 + k) % PIPESIZE
<1> DEFINE c == (a + 1) % Width
<1>1. c = IF a + 1 < Width THEN a + 1 ELSE 0
  BY NextIs
<1> HIDE DEF c
<1>2. c + k = a + 1 + k \/ (c + k = k /\ a + 1 + k = k + Width)
  BY <1>1, Sizes
<1>3. (k + Width) % PIPESIZE = k % PIPESIZE
  BY Wrap
<1>4. (c + k) % PIPESIZE = (a + 1 + k) % PIPESIZE
  BY <1>2, <1>3
<1> QED BY <1>4 DEF c

\* A write into a ring with room adds one to the count.
LEMMA WriteCount ==
  ASSUME NEW a \in 0..(Width - 1), NEW b \in 0..(Width - 1),
         Count(a, b) \in 0..PIPESIZE, b # (a + PIPESIZE) % Width
  PROVE  Count(a, b) < PIPESIZE /\ Count(a, (b + 1) % Width) = Count(a, b) + 1
<1> DEFINE c == (b + 1) % Width
<1>1. c = IF b + 1 < Width THEN b + 1 ELSE 0
  BY NextIs
<1>2. Count(a, b) = IF a <= b THEN b - a ELSE b + Width - a
  BY CountIs DEF Count
<1>3. b # IF a + PIPESIZE < Width THEN a + PIPESIZE ELSE a + PIPESIZE - Width
  BY FullIs
<1> HIDE DEF c
<1>4. c \in 0..(Width - 1)
  BY <1>1, Sizes
<1>5. Count(a, c) = IF a <= c THEN c - a ELSE c + Width - a
  BY <1>4, CountIs DEF Count
<1>6. Count(a, b) < PIPESIZE /\ Count(a, c) = Count(a, b) + 1
  BY <1>1, <1>2, <1>3, <1>4, <1>5, Sizes
<1> QED BY <1>6 DEF c

\* A read takes one from the count.
LEMMA ReadCount ==
  ASSUME NEW a \in 0..(Width - 1), NEW b \in 0..(Width - 1), a # b
  PROVE  Count(a, b) > 0 /\ Count((a + 1) % Width, b) = Count(a, b) - 1
<1> DEFINE c == (a + 1) % Width
<1>1. c = IF a + 1 < Width THEN a + 1 ELSE 0
  BY NextIs
<1>2. Count(a, b) = IF a <= b THEN b - a ELSE b + Width - a
  BY CountIs DEF Count
<1> HIDE DEF c
<1>4. c \in 0..(Width - 1)
  BY <1>1, Sizes
<1>5. Count(c, b) = IF c <= b THEN b - c ELSE b + Width - c
  BY <1>4, CountIs DEF Count
<1>6. Count(a, b) > 0 /\ Count(c, b) = Count(a, b) - 1
  BY <1>1, <1>2, <1>4, <1>5, Sizes
<1> QED BY <1>6 DEF c

-----------------------------------------------------------------------------
(* The bytes as a sequence *)

\* Contents as the sequence of the bytes counted.
ContentsFact ==
  /\ Contents \in Seq(Vals) /\ Len(Contents) = Count(nread, nwrite)
  /\ \A k \in 1..Count(nread, nwrite) : Contents[k] = data[(nread + k - 1) % PIPESIZE]

\* Contents is a sequence of bytes.
LEMMA ContentsSeq == TypeOK => ContentsFact
<1> SUFFICES ASSUME TypeOK PROVE ContentsFact
  OBVIOUS
<1> DEFINE c == Count(nread, nwrite)
<1>1. c \in Nat /\ nread \in Nat
  BY Sizes DEF TypeOK, Count
<1>2. Contents = [k \in 1..c |-> data[(nread + k - 1) % PIPESIZE]]
  BY DEF Contents, Count
<1>3. ASSUME NEW k \in 1..c PROVE data[(nread + k - 1) % PIPESIZE] \in Vals
  <2>1. nread + k - 1 \in Nat
    BY <1>1
  <2>2. (nread + k - 1) % PIPESIZE \in 0..(PIPESIZE - 1)
    BY <2>1, Division
  <2> QED BY <2>2 DEF TypeOK
<1> HIDE DEF c
<1>4. Contents \in [1..c -> Vals]
  BY <1>2, <1>3
<1>5. Contents \in Seq(Vals) /\ Len(Contents) = c
  BY <1>1, <1>4
<1> QED BY <1>2, <1>5 DEF c, ContentsFact

\* pipewrite puts a byte at the end.
LEMMA WriteAppends ==
  ASSUME TypeOK, TypeOK', NEW p \in Procs, WriteByte(p)
  PROVE  Len(Contents) < PIPESIZE /\ \E v \in Vals : Contents' = Append(Contents, v)
<1> DEFINE c == Count(nread, nwrite)
<1>1. ContentsFact /\ ContentsFact'
  BY ContentsSeq, PTL
<1>2. PICK v \in Vals : data' = [data EXCEPT ![nwrite % PIPESIZE] = v]
  BY DEF WriteByte
<1>3. nread' = nread /\ nwrite' = (nwrite + 1) % Width
  BY DEF WriteByte
<1>4. c \in Nat /\ c < PIPESIZE /\ Count(nread', nwrite') = c + 1
  <2>1. nread \in 0..(Width - 1) /\ nwrite \in 0..(Width - 1) /\ c \in 0..PIPESIZE
    BY DEF TypeOK, Count
  <2>2. nwrite # (nread + PIPESIZE) % Width
    BY DEF WriteByte, Full
  <2> QED BY <1>3, <2>1, <2>2, WriteCount
<1>5. (nread + c) % PIPESIZE = nwrite % PIPESIZE /\ nwrite % PIPESIZE \in 0..(PIPESIZE - 1)
  <2>1. nread \in 0..(Width - 1) /\ nwrite \in 0..(Width - 1) /\ nwrite \in Nat
    BY Sizes DEF TypeOK
  <2>2. nwrite % PIPESIZE \in 0..(PIPESIZE - 1)
    BY <2>1, Division
  <2>3. (nread + c) % PIPESIZE = nwrite % PIPESIZE
    BY <2>1, WritePlace
  <2> QED BY <2>2, <2>3
<1>6. nread \in Nat /\ data \in [0..(PIPESIZE - 1) -> Vals]
  BY Sizes DEF TypeOK
<1>7. ASSUME NEW k \in 1..c PROVE data'[(nread + k - 1) % PIPESIZE] = data[(nread + k - 1) % PIPESIZE]
  <2>1. nread + k - 1 \in Nat /\ nread + c \in Nat
        /\ nread + k - 1 < nread + c /\ nread + c < nread + k - 1 + PIPESIZE
    BY <1>4, <1>6, Sizes
  <2>2. (nread + k - 1) % PIPESIZE # (nread + c) % PIPESIZE
    BY <2>1, Apart
  <2>3. (nread + k - 1) % PIPESIZE \in 0..(PIPESIZE - 1)
    BY <2>1, Division
  <2> QED BY <1>2, <1>5, <1>6, <2>2, <2>3
<1>8. data'[(nread + (c + 1) - 1) % PIPESIZE] = v
  <2>1. nread + (c + 1) - 1 = nread + c
    BY <1>4, <1>6
  <2> QED BY <1>2, <1>5, <1>6, <2>1
<1>9. /\ Contents \in Seq(Vals) /\ Len(Contents) = c
      /\ \A k \in 1..c : Contents[k] = data[(nread + k - 1) % PIPESIZE]
      /\ Contents' \in Seq(Vals) /\ Len(Contents') = c + 1
      /\ \A k \in 1..(c + 1) : Contents'[k] = data'[(nread + k - 1) % PIPESIZE]
  BY <1>1, <1>3, <1>4 DEF ContentsFact
<1> HIDE DEF c
<1>10. Contents' = Append(Contents, v)
  <2> DEFINE s == Append(Contents, v)
  <2>1. s \in Seq(Vals) /\ Len(s) = c + 1 /\ (\A k \in 1..c : s[k] = Contents[k]) /\ s[c + 1] = v
    BY <1>2, <1>9, AppendProperties
  <2> HIDE DEF s
  <2>2. ASSUME NEW k \in 1..(c + 1) PROVE Contents'[k] = s[k]
    <3>1. CASE k \in 1..c
      BY <1>7, <1>9, <2>1, <3>1
    <3>2. CASE k = c + 1
      BY <1>8, <1>9, <2>1, <3>2
    <3> QED BY <1>4, <3>1, <3>2
  <2>3. Contents' = s
    BY <1>9, <2>1, <2>2, SeqEqual
  <2> QED BY <2>3 DEF s
<1> QED BY <1>2, <1>4, <1>9, <1>10

\* piperead takes the byte at the front.
LEMMA ReadTakes ==
  ASSUME TypeOK, TypeOK', NEW p \in Procs, ReadByte(p)
  PROVE  Contents # <<>> /\ data[nread % PIPESIZE] = Head(Contents) /\ Contents' = Tail(Contents)
<1> DEFINE c == Count(nread, nwrite)
<1>1. ContentsFact /\ ContentsFact'
  BY ContentsSeq, PTL
<1>2. data' = data /\ nwrite' = nwrite /\ nread' = (nread + 1) % Width
  BY DEF ReadByte
<1>3. nread \in 0..(Width - 1) /\ nwrite \in 0..(Width - 1) /\ nread # nwrite /\ c \in Nat /\ nread \in Nat
  BY Sizes DEF TypeOK, ReadByte, Empty, Count
<1>4. c > 0 /\ Count(nread', nwrite') = c - 1
  BY <1>2, <1>3, ReadCount
<1>5. /\ Contents \in Seq(Vals) /\ Len(Contents) = c
      /\ \A k \in 1..c : Contents[k] = data[(nread + k - 1) % PIPESIZE]
      /\ Contents' \in Seq(Vals) /\ Len(Contents') = c - 1
      /\ \A k \in 1..(c - 1) : Contents'[k] = data[(nread' + k - 1) % PIPESIZE]
  BY <1>1, <1>2, <1>4 DEF ContentsFact
<1> HIDE DEF c
<1>6. ASSUME NEW k \in 1..(c - 1)
      PROVE  (nread' + k - 1) % PIPESIZE = (nread + (k + 1) - 1) % PIPESIZE
  <2> DEFINE m == k - 1
  <2>1. m \in Nat /\ k = m + 1
    BY <1>3
  <2> HIDE DEF m
  <2>2. (nread' + m) % PIPESIZE = (nread + 1 + m) % PIPESIZE
    BY <1>2, <1>3, <2>1, ReadPlace
  <2>3. nread' + k - 1 = nread' + m /\ nread + (k + 1) - 1 = nread + 1 + m
    BY <1>3, <2>1, Sizes DEF TypeOK
  <2> QED BY <2>2, <2>3
<1>7. Contents # <<>>
  BY <1>4, <1>5, EmptySeq
<1>8. data[nread % PIPESIZE] = Head(Contents)
  <2>1. Head(Contents) = Contents[1] /\ 1 \in 1..c
    BY <1>3, <1>4, <1>5, <1>7
  <2>2. nread + 1 - 1 = nread
    BY <1>3
  <2> QED BY <1>5, <2>1, <2>2
<1>9. Contents' = Tail(Contents)
  <2> DEFINE s == Tail(Contents)
  <2>1. s \in Seq(Vals) /\ Len(s) = c - 1 /\ \A k \in 1..(c - 1) : s[k] = Contents[k + 1]
    BY <1>5, <1>7, HeadTailProperties
  <2> HIDE DEF s
  <2>2. ASSUME NEW k \in 1..(c - 1) PROVE Contents'[k] = s[k]
    <3>1. k + 1 \in 1..c
      BY <1>3
    <3> QED BY <1>5, <1>6, <2>1, <3>1
  <2>3. Contents' = s
    BY <1>5, <2>1, <2>2, SeqEqual
  <2> QED BY <2>3 DEF s
<1> QED BY <1>7, <1>8, <1>9

-----------------------------------------------------------------------------
(* The refinement *)

\* A step that moves no byte and closes no end.
Still == UNCHANGED <<data, nread, nwrite, readopen, writeopen, got>>

\* The steps of a process, by what the stream sees of them.
LEMMA StepKinds ==
  ASSUME NEW p \in Procs, StepOf(p)
  PROVE  Still \/ WriteByte(p) \/ ReadByte(p) \/ PipeClose(p)
  BY DEF StepOf, CallStep, Still, state, Call, Close, Kill, Lock, WriteRefused, WriteAllowed,
     WriteSleep, WriteReturn, ReadKilled, ReadWait, ReadSleep, ReadReady, ReadReturn, PipeFree

\* A still step is a stutter of the stream.
LEMMA StillStutters == Still => UNCHANGED BS!vars
  BY DEF Still, Contents, BS!vars

\* Every step of a process is a step of the stream or a stutter.
LEMMA StepStream ==
  ASSUME Inv, Inv', NEW p \in Procs, StepOf(p)
  PROVE  [BS!Next]_(BS!vars)
<1>0. TypeOK /\ TypeOK' /\ (p \in Writers <=> p \notin Readers)
  BY PipeAssumption DEF Inv, Procs
<1>1. CASE Still
  BY <1>1, StillStutters
<1>2. CASE WriteByte(p)
  <2>1. readopen /\ writeopen
    <3>1. pc[p] = "write_byte" /\ p \in Writers /\ readopen
      BY <1>2 DEF WriteByte, Inv, TestInv, Test
    <3>2. p \in holders
      BY <3>1 DEF Inv, EndInv, InCall, Inside
    <3> QED BY <3>1, <3>2 DEF Inv, EndInv, Keeps
  <2>2. Len(Contents) < PIPESIZE
    BY <1>0, <1>2, WriteAppends
  <2>3. PICK v \in Vals : Contents' = Append(Contents, v)
    BY <1>0, <1>2, WriteAppends
  <2>4. BS!Put(v)
    BY <1>2, <2>1, <2>2, <2>3 DEF WriteByte, BS!Put
  <2> QED BY <2>4 DEF BS!Next
<1>3. CASE ReadByte(p)
  <2>1. readopen
    <3>1. pc[p] = "read_byte" /\ p \in Readers
      BY <1>3 DEF ReadByte, Inv, TestInv, Test
    <3>2. p \in holders
      BY <3>1 DEF Inv, EndInv, InCall, Inside
    <3> QED BY <3>1, <3>2 DEF Inv, EndInv, Keeps
  <2>2. Contents # <<>> /\ data[nread % PIPESIZE] = Head(Contents) /\ Contents' = Tail(Contents)
    BY <1>0, <1>3, ReadTakes
  <2>3. BS!Get(p)
    BY <1>3, <2>1, <2>2 DEF ReadByte, BS!Get
  <2> QED BY <2>3 DEF BS!Next
<1>4. CASE PipeClose(p)
  <2>1. pc[p] = "close" /\ UNCHANGED <<data, nread, nwrite, got>>
    BY <1>4 DEF PipeClose
  <2>2. UNCHANGED Contents
    BY <2>1 DEF Contents
  <2>3. CASE p \in Writers
    <3>1. writeopen /\ writeopen' = FALSE /\ readopen' = readopen
      BY <1>0, <1>4, <2>1, <2>3 DEF PipeClose, Inv, EndInv, Keeps, TypeOK
    <3> QED BY <2>1, <2>2, <3>1 DEF BS!CloseWrite, BS!Next
  <2>4. CASE p \in Readers
    <3>1. readopen /\ readopen' = FALSE /\ writeopen' = writeopen
      BY <1>0, <1>4, <2>1, <2>4 DEF PipeClose, Inv, EndInv, Keeps, TypeOK
    <3> QED BY <2>1, <2>2, <3>1 DEF BS!CloseRead, BS!Next
  <2> QED BY <2>3, <2>4 DEF Procs
<1> QED BY <1>1, <1>2, <1>3, <1>4, StepKinds

\* A pipe is a bounded first-in first-out queue of bytes: what pipewrite puts in is
\* what piperead takes out, once and in order, over the wrap of nread and nwrite.
THEOREM PipeIsStream == Spec => Stream
<1>1. Init => BS!Init
  <2> SUFFICES ASSUME Init PROVE BS!Init
    OBVIOUS
  <2>1. TypeOK
    BY InitType
  <2>2. Count(nread, nwrite) = 0
    <3>1. 0 \in 0..(Width - 1)
      BY Sizes
    <3>2. Count(0, 0) = 0
      BY <3>1, CountIs DEF Count
    <3> QED BY <3>2 DEF Init
  <2>3. Contents \in Seq(Vals) /\ Len(Contents) = 0
    BY <2>1, <2>2, ContentsSeq DEF ContentsFact
  <2>4. Contents = <<>>
    BY <2>3, EmptySeq
  <2> QED BY <2>1, <2>4 DEF Init, TypeOK, BS!Init
<1>2. Inv /\ Inv' /\ [Next]_vars => [BS!Next]_(BS!vars)
  <2> SUFFICES ASSUME Inv, Inv', [Next]_vars PROVE [BS!Next]_(BS!vars)
    OBVIOUS
  <2>1. CASE UNCHANGED vars
    BY <2>1, StillStutters DEF Still, vars, state
  <2>2. ASSUME NEW p \in Procs, StepOf(p) PROVE [BS!Next]_(BS!vars)
    BY <2>2, StepStream
  <2> QED BY <2>1, <2>2 DEF Next, StepOf
<1> QED BY <1>1, <1>2, PipeInv, PTL DEF Spec, Stream, BS!Spec
=============================================================================
