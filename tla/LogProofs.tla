----------------------------- MODULE LogProofs ------------------------------
(***************************************************************************)
(* Proofs about Log.  The control: the phases of commit and recovery, the  *)
(* room that begin_op reserves in the log, the wakeups.  The contents: how *)
(* cache, log and home blocks agree, and that Log implements AtomicDisk.   *)
(***************************************************************************)
EXTENDS Log, TLAPS

\* The blocks logged and the blocks reserved fit in the log.
RoomInv ==
  /\ IsFiniteSet(Ops) /\ outstanding = Cardinality(Ops)
  /\ Reserved
  /\ Len(hd) <= LOGBLOCKS

\* What the counts say: which operation is the last, and that the headers fit.
CountInv ==
  /\ \A t \in Ops : outstanding = 1 => Ops = {t}
  /\ outstanding = 0 <=> Ops = {}
  /\ Len(lh) <= LOGBLOCKS /\ Len(hd) <= LOGBLOCKS

\* An operation has written a few blocks, all of them logged.
WsetInv ==
  \A t \in Threads :
    /\ IsFiniteSet(wset[t]) /\ Cardinality(wset[t]) <= OpBlocks
    /\ wset[t] \subseteq Range(lh)
    /\ pc[t] # "op" => wset[t] = {}

Committing == {"write_log", "install", "committed"}

\* Where the threads are while commit and recovery go on.
PhaseInv ==
  /\ committing <=> cpc \in Committing
  /\ cpc \in Committing => Ops = {} /\ \E t \in Threads : pc[t] = "commit"
  /\ cpc \notin Committing => \A t \in Threads : pc[t] # "commit"
  /\ \A t, u \in Threads : pc[t] = "commit" /\ pc[u] = "commit" => u = t
  /\ ~Booted => \A t \in Threads : pc[t] = "idle"

NoDup(s) == \A j, k \in DOMAIN s : s[j] = s[k] => j = k

\* The header on disk and the one in memory in each phase.
HeadInv ==
  /\ NoDup(lh) /\ NoDup(hd)
  /\ cpc # "committed" => tail <= Len(lh) + 1
  /\ cpc \in {"none", "write_log", "committed"} => hd = <<>>
  /\ cpc \in {"install", "recover"} => hd = lh
  /\ cpc \in {"committed", "read_head"} => lh = <<>>
  /\ cpc \in {"none", "read_head"} => tail = 1
  /\ cpc = "none" /\ outstanding = 0 => lh = <<>>

Control == TypeOK /\ RoomInv /\ CountInv /\ WsetInv /\ PhaseInv /\ HeadInv /\ SomebodyWakes

\* The buffers the log keeps: those logged, less those installed.
PinInv ==
  /\ cpc \in {"none", "write_log"} => pinned = Range(lh)
  /\ cpc = "install" => pinned = {lh[k] : k \in tail..Len(lh)}
  /\ cpc \in {"committed", "read_head", "recover"} => pinned = {}

\* Pinned buffers are cached, and the others are as on disk.
CacheInv ==
  \A b \in Blocks : IF b \in pinned THEN cache[b] # Absent ELSE cache[b] \in {Absent, disk[b]}

\* What has been copied to the log, and from it to the home blocks.
CopyInv ==
  /\ cpc = "write_log" => \A k \in 1..(tail - 1) : logd[k] = cache[lh[k]]
  /\ cpc = "install" => \A k \in tail..Len(lh) : logd[k] = cache[lh[k]]
  /\ cpc \in {"install", "recover"} => \A k \in 1..(tail - 1) : disk[lh[k]] = logd[k]

Inv == Control /\ PinInv /\ CacheInv /\ CopyInv

-----------------------------------------------------------------------------
(* Sequences *)

LEMMA SeqElement == ASSUME NEW S, NEW s \in Seq(S), NEW n \in 1..Len(s) PROVE s[n] \in S
  OBVIOUS

LEMMA SeqEmpty == ASSUME NEW S PROVE <<>> \in Seq(S)
  OBVIOUS

LEMMA SeqLen == ASSUME NEW S, NEW s \in Seq(S) PROVE Len(s) \in Nat /\ DOMAIN s = 1..Len(s)
  OBVIOUS

LEMMA SeqAppend ==
  ASSUME NEW S, NEW s \in Seq(S), NEW e \in S
  PROVE  /\ Append(s, e) \in Seq(S) /\ Len(Append(s, e)) = Len(s) + 1
         /\ \A k \in 1..Len(s) : Append(s, e)[k] = s[k]
         /\ Append(s, e)[Len(s) + 1] = e
  OBVIOUS

-----------------------------------------------------------------------------
(* Sizes *)

\* The sizes, as the proofs use them.
LEMMA Sizes ==
  /\ LOGBLOCKS \in Nat /\ MAXOPBLOCKS \in Nat /\ OpBlocks \in Nat
  /\ OpBlocks < MAXOPBLOCKS /\ MAXOPBLOCKS <= LOGBLOCKS
  BY LogAssumption, Zenon

\* As many reservations as fit are at most the quotient.
LEMMA Quotient ==
  ASSUME NEW a \in Nat, a * MAXOPBLOCKS <= LOGBLOCKS
  PROVE  a <= LOGBLOCKS \div MAXOPBLOCKS
<1> DEFINE q == LOGBLOCKS \div MAXOPBLOCKS
           r == LOGBLOCKS % MAXOPBLOCKS
<1>1. q \in Nat /\ r \in 0..(MAXOPBLOCKS - 1) /\ LOGBLOCKS = MAXOPBLOCKS * q + r
  BY Sizes
<1> HIDE DEF q, r
<1> SUFFICES ASSUME a >= q + 1 PROVE FALSE
  BY <1>1 DEF q
<1>2. MAXOPBLOCKS * (q + 1) <= MAXOPBLOCKS * a
  BY <1>1, Sizes
<1> QED BY <1>1, <1>2, Sizes

\* The header fits in the log.
LEMMA HeaderFits ==
  ASSUME TypeOK, CountInv
  PROVE  Len(lh) \in 0..LOGBLOCKS /\ Len(hd) \in 0..LOGBLOCKS
  BY SeqLen, Sizes DEF TypeOK, CountInv

\* What the loops of write_log and install_trans index is there.
LEMMA Entry ==
  ASSUME TypeOK, CountInv, tail <= Len(lh)
  PROVE  lh[tail] \in Blocks /\ tail \in Slots /\ tail + 1 \in 1..(LOGBLOCKS + 1)
<1>1. tail \in 1..Len(lh)
  BY HeaderFits, Sizes DEF TypeOK
<1>2. lh[tail] \in Blocks
  BY <1>1, SeqElement, Zenon DEF TypeOK
<1> QED BY <1>1, <1>2, HeaderFits, Sizes DEF Slots

\* bread returns contents.
LEMMA ContentType == ASSUME TypeOK, NEW b \in Blocks PROVE Content(b) \in Vals
  BY Zenon DEF TypeOK, Content

-----------------------------------------------------------------------------
(* The types *)

\* The initial state has the types.
LEMMA InitType == Init => TypeOK
<1> SUFFICES ASSUME Init PROVE TypeOK
  BY Zenon
<1>1. (CHOOSE v \in Vals : TRUE) \in Vals
  BY LogAssumption, Zenon
<1>2. 0 \in 0..(LOGBLOCKS \div MAXOPBLOCKS)
  BY Quotient, Sizes
<1>3. 1 \in 1..(LOGBLOCKS + 1)
  BY Sizes
<1>4. <<>> \in Seq(Blocks)
  BY SeqEmpty, Zenon
<1> QED BY <1>1, <1>2, <1>3, <1>4, Zenon DEF Init, TypeOK, PCs, CommitPCs

\* The steps of operations keep the types.
LEMMA OperationType ==
  ASSUME TypeOK, NEW t \in Threads,
         \/ BeginSleep(t) \/ BeginOp(t) \/ EndOp(t) \/ EndOpCommit(t)
         \/ \E b \in Blocks, v \in Vals : LogWrite(t, b, v)
  PROVE  TypeOK'
<1> USE DEF TypeOK, disk_vars, PCs, CommitPCs
<1>1. CASE BeginSleep(t)
  BY <1>1, Zenon DEF BeginSleep
<1>2. CASE BeginOp(t)
  <2>1. Len(lh) \in Nat /\ outstanding \in Nat
    BY SeqLen, Sizes
  <2>2. (outstanding + 1) * MAXOPBLOCKS <= LOGBLOCKS
    <3> DEFINE m == (outstanding + 1) * MAXOPBLOCKS
    <3>1. ~(Len(lh) + m > LOGBLOCKS) /\ m \in Nat
      BY <1>2, <2>1, Sizes DEF BeginOp, NoRoom
    <3> HIDE DEF m
    <3>2. m <= LOGBLOCKS
      BY <2>1, <3>1, Sizes
    <3> QED BY <3>2, Zenon DEF m
  <2>3. outstanding + 1 <= LOGBLOCKS \div MAXOPBLOCKS
    BY <2>1, <2>2, Quotient
  <2> QED BY <1>2, <2>1, <2>3 DEF BeginOp
<1>3. CASE EndOp(t)
  <2>1. outstanding' \in 0..(LOGBLOCKS \div MAXOPBLOCKS)
    <3> DEFINE q == LOGBLOCKS \div MAXOPBLOCKS
    <3>1. outstanding \in 0..q /\ outstanding > 1 /\ outstanding' = outstanding - 1
      BY <1>3, Zenon DEF EndOp
    <3>2. q \in Nat
      BY Sizes
    <3> HIDE DEF q
    <3>3. outstanding' \in 0..q
      BY <3>1, <3>2
    <3> QED BY <3>3, Zenon DEF q
  <2>2. pc' \in [Threads -> PCs]
    BY <1>3, Zenon DEF EndOp, Wakeup
  <2> QED BY <1>3, <2>1, <2>2, Zenon DEF EndOp
<1>4. CASE EndOpCommit(t)
  BY <1>4, Sizes DEF EndOpCommit
<1>5. ASSUME NEW b \in Blocks, NEW v \in Vals, LogWrite(t, b, v) PROVE TypeOK'
  <2>1. lh' \in Seq(Blocks)
    BY <1>5, SeqAppend, Zenon DEF LogWrite
  <2>2. cache' \in [Blocks -> Vals \cup {Absent}] /\ wset' \in [Threads -> SUBSET Blocks]
    BY <1>5 DEF LogWrite
  <2> QED BY <1>5, <2>1, <2>2, Zenon DEF LogWrite
<1> QED BY <1>1, <1>2, <1>3, <1>4, <1>5

\* So do those of commit, recovery and the cache, and a crash.
LEMMA SystemType ==
  ASSUME TypeOK, CountInv,
         CommitStep \/ RecoveryStep \/ Crash \/ \E b \in Blocks : Evict(b) \/ Fill(b)
  PROVE  TypeOK'
<1>0. <<>> \in Seq(Blocks) /\ 1 \in 1..(LOGBLOCKS + 1) /\ 0 \in 0..(LOGBLOCKS \div MAXOPBLOCKS)
  BY SeqEmpty, Quotient, Sizes
<1> USE DEF TypeOK, disk_vars, PCs, CommitPCs
<1>1. CASE WriteLog
  BY <1>1, Entry, ContentType, Zenon DEF WriteLog
<1>2. CASE WriteHead \/ ClearHead \/ RecoverEnd \/ ReadHead
  BY <1>0, <1>2, Zenon DEF WriteHead, ClearHead, RecoverEnd, ReadHead
<1>3. CASE Install \/ Recover
  <2>1. lh[tail] \in Blocks /\ logd[tail] \in Vals /\ tail + 1 \in 1..(LOGBLOCKS + 1)
    BY <1>3, Entry, Zenon DEF Install, Recover
  <2> QED BY <1>3, <2>1, ZenonT(30) DEF Install, Recover
<1>4. ASSUME NEW t \in Threads, Committed(t) PROVE TypeOK'
  BY <1>0, <1>4, Zenon DEF Committed, Wakeup
<1>5. ASSUME NEW b \in Blocks, Evict(b) \/ Fill(b) PROVE TypeOK'
  BY <1>5, Zenon DEF Evict, Fill
<1>6. CASE Crash
  BY <1>0, <1>6, Zenon DEF Crash
<1> QED BY <1>1, <1>2, <1>3, <1>4, <1>5, <1>6, Zenon DEF CommitStep, RecoveryStep

-----------------------------------------------------------------------------
(* Phases *)

\* A step of one thread in begin_op, log_write or end_op.
Operation(t) ==
  \/ BeginSleep(t) \/ BeginOp(t) \/ EndOp(t) \/ EndOpCommit(t)
  \/ \E b \in Blocks, v \in Vals : LogWrite(t, b, v)

\* A step of the cache.
CacheStep == \E b \in Blocks : Evict(b) \/ Fill(b)

\* Operations keep the phases: the last one begins the commit.
LEMMA OperationPhase ==
  ASSUME TypeOK, CountInv, PhaseInv, NEW t \in Threads, Operation(t)
  PROVE  PhaseInv'
<1> USE DEF TypeOK, PhaseInv, Committing, Booted, Ops
<1>1. CASE BeginSleep(t)
  BY <1>1, Zenon DEF BeginSleep
<1>2. CASE BeginOp(t)
  BY <1>2, Zenon DEF BeginOp
<1>3. CASE EndOp(t)
  BY <1>3, Zenon DEF EndOp, Wakeup
<1>4. CASE EndOpCommit(t)
  <2>1. Ops = {t}
    BY <1>4, Zenon DEF EndOpCommit, CountInv
  <2>2. \A u \in Threads : u # t => pc'[u] = pc[u] /\ pc[u] # "op" /\ pc[u] # "commit"
    BY <1>4, <2>1, Zenon DEF EndOpCommit
  <2>3. pc'[t] = "commit" /\ committing' = TRUE /\ cpc' \in {"committed", "write_log"}
    BY <1>4, Zenon DEF EndOpCommit
  <2> QED BY <2>2, <2>3, Zenon
<1>5. ASSUME NEW b \in Blocks, NEW v \in Vals, LogWrite(t, b, v) PROVE PhaseInv'
  BY <1>5, Zenon DEF LogWrite
<1> QED BY <1>1, <1>2, <1>3, <1>4, <1>5 DEF Operation

\* So do the other steps.
LEMMA SystemPhase ==
  ASSUME TypeOK, PhaseInv, CommitStep \/ RecoveryStep \/ Crash \/ CacheStep
  PROVE  PhaseInv'
<1> USE DEF TypeOK, PhaseInv, Committing, Booted, Ops
<1>1. CASE WriteLog \/ WriteHead \/ Install \/ ClearHead
  BY <1>1, Zenon DEF WriteLog, WriteHead, Install, ClearHead
<1>2. ASSUME NEW t \in Threads, Committed(t) PROVE PhaseInv'
  BY <1>2, Zenon DEF Committed, Wakeup
<1>3. CASE ReadHead \/ Recover \/ RecoverEnd
  BY <1>3 DEF ReadHead, Recover, RecoverEnd
<1>4. CASE Crash
  BY <1>4, Zenon DEF Crash
<1>5. CASE CacheStep
  BY <1>5 DEF CacheStep, Evict, Fill
<1> QED BY <1>1, <1>2, <1>3, <1>4, <1>5 DEF CommitStep, RecoveryStep

-----------------------------------------------------------------------------
(* Headers *)

\* The empty header.
LEMMA EmptyHead == NoDup(<<>>) /\ Len(<<>>) = 0 /\ Range(<<>>) = {}
  BY DEF NoDup, Range

\* A block that is not logged yet is appended.
LEMMA AppendHead ==
  ASSUME NEW s \in Seq(Blocks), NoDup(s), NEW b \in Blocks, b \notin Range(s)
  PROVE  /\ Append(s, b) \in Seq(Blocks) /\ NoDup(Append(s, b))
         /\ Len(Append(s, b)) = Len(s) + 1
         /\ Range(Append(s, b)) = Range(s) \cup {b}
<1> DEFINE a == Append(s, b)
<1>1. /\ a \in Seq(Blocks) /\ Len(a) = Len(s) + 1 /\ Len(s) \in Nat
      /\ \A k \in 1..Len(s) : a[k] = s[k]
      /\ a[Len(s) + 1] = b /\ DOMAIN s = 1..Len(s) /\ DOMAIN a = 1..(Len(s) + 1)
  BY SeqAppend, SeqLen
<1> HIDE DEF a
<1>2. \A k \in 1..Len(s) : s[k] # b
  BY <1>1, Zenon DEF Range
<1>3. NoDup(a)
  <2> SUFFICES ASSUME NEW j \in DOMAIN a, NEW k \in DOMAIN a, a[j] = a[k] PROVE j = k
    BY Zenon DEF NoDup
  <2>1. CASE j \in 1..Len(s) /\ k \in 1..Len(s)
    BY <1>1, <2>1, Zenon DEF NoDup
  <2>2. CASE j = Len(s) + 1 \/ k = Len(s) + 1
    BY <1>1, <1>2, <2>2
  <2> QED BY <1>1, <2>1, <2>2
<1>4. Range(a) = Range(s) \cup {b}
  <2>1. ASSUME NEW x \in Range(a) PROVE x \in Range(s) \cup {b}
    <3>1. PICK k \in 1..(Len(s) + 1) : x = a[k]
      BY <1>1, Zenon DEF Range
    <3>2. k \in 1..Len(s) \/ k = Len(s) + 1
      BY <1>1
    <3> QED BY <1>1, <3>1, <3>2, Zenon DEF Range
  <2>2. ASSUME NEW x \in Range(s) PROVE x \in Range(a)
    <3>1. PICK k \in 1..Len(s) : x = s[k]
      BY <1>1, Zenon DEF Range
    <3>2. k \in DOMAIN a /\ x = a[k]
      BY <1>1, <3>1
    <3> QED BY <3>2, Zenon DEF Range
  <2>3. b \in Range(a)
    BY <1>1 DEF Range
  <2> QED BY <2>1, <2>2, <2>3, Zenon
<1> QED BY <1>1, <1>3, <1>4, Zenon DEF a

\* Operations run between commits.
LEMMA OpPhase ==
  ASSUME TypeOK, PhaseInv, NEW t \in Threads, pc[t] = "op"
  PROVE  cpc = "none" /\ t \in Ops
  BY Zenon DEF TypeOK, PhaseInv, Committing, Booted, Ops, CommitPCs

\* Operations keep the headers in order: log_write logs a block once.
LEMMA OperationHead ==
  ASSUME TypeOK, CountInv, PhaseInv, HeadInv, NEW t \in Threads, Operation(t)
  PROVE  HeadInv'
<1>0. Len(lh) \in Nat /\ outstanding \in Nat
  BY SeqLen, Sizes DEF TypeOK
<1>1. CASE BeginSleep(t)
  BY <1>1, Zenon DEF HeadInv, NoDup, BeginSleep, disk_vars
<1>2. CASE BeginOp(t)
  BY <1>0, <1>2 DEF HeadInv, NoDup, BeginOp, disk_vars
<1>3. CASE EndOp(t)
  BY <1>0, <1>3 DEF HeadInv, NoDup, EndOp, disk_vars
<1>4. CASE EndOpCommit(t)
  <2>1. cpc = "none"
    BY <1>4, OpPhase, Zenon DEF EndOpCommit
  <2> QED BY <1>0, <1>4, <2>1, Zenon DEF HeadInv, NoDup, EndOpCommit, disk_vars
<1>5. ASSUME NEW b \in Blocks, NEW v \in Vals, LogWrite(t, b, v) PROVE HeadInv'
  <2>1. cpc = "none" /\ outstanding # 0
    BY <1>5, OpPhase, Zenon DEF LogWrite, CountInv
  <2>2. NoDup(lh') /\ Len(lh') \in Nat
    BY <1>0, <1>5, AppendHead DEF HeadInv, LogWrite, TypeOK
  <2>3. UNCHANGED <<cpc, tail, hd, outstanding>>
    BY <1>5, Zenon DEF LogWrite, disk_vars
  <2> QED BY <2>1, <2>2, <2>3 DEF HeadInv, NoDup
<1> QED BY <1>1, <1>2, <1>3, <1>4, <1>5, Zenon DEF Operation

\* So do commit and recovery, whose loops end at the length of the header.
LEMMA SystemHead ==
  ASSUME TypeOK, CountInv, PhaseInv, HeadInv, CommitStep \/ RecoveryStep \/ Crash \/ CacheStep
  PROVE  HeadInv'
<1>0. Len(lh) \in Nat /\ Len(hd) \in Nat /\ tail \in Nat
  BY SeqLen, Sizes DEF TypeOK
<1> USE <1>0, EmptyHead DEF HeadInv, NoDup, disk_vars
<1>1. CASE WriteLog
  BY <1>1 DEF WriteLog
<1>2. CASE WriteHead
  BY <1>2 DEF WriteHead
<1>3. CASE Install
  BY <1>3 DEF Install
<1>4. CASE ClearHead
  BY <1>4, Zenon DEF ClearHead
<1>5. ASSUME NEW t \in Threads, Committed(t) PROVE HeadInv'
  BY <1>5 DEF Committed
<1>6. CASE ReadHead
  BY <1>6 DEF ReadHead
<1>7. CASE Recover
  BY <1>7 DEF Recover
<1>8. CASE RecoverEnd
  BY <1>8 DEF RecoverEnd
<1>9. CASE Crash
  BY <1>9 DEF Crash
<1>10. CASE CacheStep
  BY <1>10, Zenon DEF CacheStep, Evict, Fill
<1> QED BY <1>1, <1>2, <1>3, <1>4, <1>5, <1>6, <1>7, <1>8, <1>9, <1>10, Zenon
           DEF CommitStep, RecoveryStep

-----------------------------------------------------------------------------
(* Wakeups *)

\* begin_op puts a thread to sleep only while somebody will wake it: with no
\* operation and no commit the log is empty and has room.
LEMMA NextWakes ==
  ASSUME TypeOK, CountInv, PhaseInv, HeadInv, SomebodyWakes, [Next]_vars
  PROVE  SomebodyWakes'
<1>0. outstanding \in Nat
  BY Sizes DEF TypeOK
<1>1. ASSUME NEW t \in Threads, BeginSleep(t) PROVE SomebodyWakes'
  <2> SUFFICES ASSUME outstanding = 0, ~committing PROVE FALSE
    BY <1>0, <1>1 DEF BeginSleep, SomebodyWakes
  <2>1. cpc = "none"
    BY <1>1, Zenon DEF BeginSleep, PhaseInv, Committing, Booted, TypeOK, CommitPCs
  <2>2. Len(lh) = 0 /\ NoRoom
    BY <1>1, <2>1, EmptyHead, Zenon DEF HeadInv, BeginSleep
  <2> QED BY <2>2, Sizes DEF NoRoom
<1>2. ASSUME NEW t \in Threads, BeginOp(t) PROVE SomebodyWakes'
  BY <1>0, <1>2 DEF BeginOp, SomebodyWakes
<1>3. ASSUME NEW t \in Threads, EndOp(t) \/ EndOpCommit(t) \/ Committed(t) PROVE SomebodyWakes'
  BY <1>3, Zenon DEF EndOp, EndOpCommit, Committed, Wakeup, SomebodyWakes, TypeOK
<1>4. CASE Crash
  BY <1>4, Zenon DEF Crash, SomebodyWakes
<1>5. CASE UNCHANGED <<pc, outstanding, committing>>
  BY <1>5, Zenon DEF SomebodyWakes
<1> QED
  BY <1>1, <1>2, <1>3, <1>4, <1>5, Zenon
     DEF Next, vars, CommitStep, RecoveryStep, LogWrite, WriteLog,
     WriteHead, Install, ClearHead, Evict, Fill, ReadHead, Recover, RecoverEnd

-----------------------------------------------------------------------------
(* The cache, the log and the home blocks *)

\* The places of the header.
LEMMA Places ==
  ASSUME TypeOK
  PROVE  /\ DOMAIN lh = 1..Len(lh) /\ Len(lh) \in Nat /\ tail \in Nat /\ tail >= 1
         /\ \A k \in 1..Len(lh) : lh[k] \in Blocks
         /\ Range(lh) = {lh[k] : k \in 1..Len(lh)}
  BY SeqLen, SeqElement, Sizes DEF TypeOK, Range

\* Operations keep the pins: log_write pins what it logs.
LEMMA OperationPin ==
  ASSUME Control, PinInv, NEW t \in Threads, Operation(t)
  PROVE  PinInv'
<1>0. TypeOK /\ PhaseInv /\ HeadInv
  BY Zenon DEF Control
<1>1. CASE BeginSleep(t) \/ BeginOp(t) \/ EndOp(t)
  BY <1>1 DEF PinInv, BeginSleep, BeginOp, EndOp
<1>2. CASE EndOpCommit(t)
  <2>1. cpc = "none"
    BY <1>0, <1>2, OpPhase, Zenon DEF EndOpCommit
  <2> QED BY <1>2, <2>1, EmptyHead, Zenon DEF PinInv, EndOpCommit
<1>3. ASSUME NEW b \in Blocks, NEW v \in Vals, LogWrite(t, b, v) PROVE PinInv'
  <2>1. cpc = "none" /\ cpc' = "none" /\ pinned' = pinned \cup {b}
    BY <1>0, <1>3, OpPhase DEF LogWrite
  <2>2. Range(lh') = Range(lh) \cup {b}
    BY <1>0, <1>3, AppendHead DEF LogWrite, HeadInv, TypeOK
  <2> QED BY <2>1, <2>2, Zenon DEF PinInv
<1> QED BY <1>1, <1>2, <1>3, Zenon DEF Operation

\* install_trans unpins one buffer after the other.
LEMMA InstallPin ==
  ASSUME Control, PinInv, Install
  PROVE  PinInv'
<1>0. TypeOK /\ HeadInv
  BY Zenon DEF Control
<1>1. cpc = "install" /\ cpc' = "install" /\ lh' = lh /\ tail' = tail + 1 /\ tail <= Len(lh)
  BY Zenon DEF Install
<1>2. pinned = {lh[k] : k \in tail..Len(lh)} /\ pinned' = pinned \ {lh[tail]}
  BY <1>1, Zenon DEF PinInv, Install
<1>3. \A k \in (tail + 1)..Len(lh) : lh[k] # lh[tail]
  BY <1>0, <1>1, Places DEF HeadInv, NoDup
<1>4. ASSUME NEW k \in tail..Len(lh), k \notin (tail + 1)..Len(lh) PROVE k = tail
  BY <1>0, <1>4, Places
<1>5. tail \in tail..Len(lh) /\ (tail + 1)..Len(lh) \subseteq tail..Len(lh)
  BY <1>0, <1>1, Places
<1>6. pinned' = {lh[k] : k \in (tail + 1)..Len(lh)}
  BY <1>2, <1>3, <1>4, <1>5, Zenon
<1> QED BY <1>1, <1>6, Zenon DEF PinInv

\* So do the other steps.
LEMMA SystemPin ==
  ASSUME Control, PinInv, CommitStep \/ RecoveryStep \/ Crash \/ CacheStep
  PROVE  PinInv'
<1>0. TypeOK /\ HeadInv
  BY Zenon DEF Control
<1>1. CASE WriteLog \/ CacheStep
  BY <1>1 DEF PinInv, WriteLog, CacheStep, Evict, Fill
<1>2. CASE WriteHead
  BY <1>0, <1>2, Places, Zenon DEF PinInv, WriteHead
<1>3. CASE ClearHead
  <2>1. pinned = {}
    <3>1. pinned = {lh[k] : k \in tail..Len(lh)} /\ tail = Len(lh) + 1
      BY <1>3, Zenon DEF PinInv, ClearHead
    <3>2. tail..Len(lh) = {}
      BY <1>0, <3>1, Places
    <3> QED BY <3>1, <3>2, Zenon
  <2> QED BY <1>3, <2>1, Zenon DEF PinInv, ClearHead
<1>4. ASSUME NEW t \in Threads, Committed(t) PROVE PinInv'
  BY <1>0, <1>4, EmptyHead, Zenon DEF PinInv, Committed, HeadInv
<1>5. CASE ReadHead \/ Recover \/ RecoverEnd
  BY <1>5, EmptyHead, Zenon DEF PinInv, ReadHead, Recover, RecoverEnd
<1>6. CASE Crash
  BY <1>6, Zenon DEF PinInv, Crash
<1> QED BY <1>1, <1>2, <1>3, <1>4, <1>5, <1>6, InstallPin, Zenon DEF CommitStep, RecoveryStep

\* The buffers that are not pinned stay as on disk.
LEMMA NextCache ==
  ASSUME Control, PinInv, CacheInv, [Next]_vars
  PROVE  CacheInv'
<1>0. TypeOK /\ CountInv /\ HeadInv
  BY Zenon DEF Control
<1>1. ASSUME NEW t \in Threads, NEW b \in Blocks, NEW v \in Vals, LogWrite(t, b, v) PROVE CacheInv'
  <2>1. cache' = [cache EXCEPT ![b] = v] /\ pinned' = pinned \cup {b} /\ disk' = disk /\ v # Absent
    BY <1>1, LogAssumption, Zenon DEF LogWrite, disk_vars
  <2> QED BY <1>0, <2>1, Zenon DEF CacheInv, TypeOK
<1>2. CASE Install \/ Recover
  <2> DEFINE b == lh[tail]
  <2>1. b \in Blocks
    BY <1>0, <1>2, Entry, Zenon DEF Install, Recover
  <2>2. /\ cache' = [cache EXCEPT ![b] = logd[tail]] /\ disk' = [disk EXCEPT ![b] = logd[tail]]
        /\ pinned' = pinned \ {b}
    BY <1>2, Zenon DEF Install, Recover, PinInv
  <2> HIDE DEF b
  <2> QED BY <1>0, <2>1, <2>2, Zenon DEF CacheInv, TypeOK
<1>3. ASSUME NEW b \in Blocks, Evict(b) \/ Fill(b) PROVE CacheInv'
  <2>1. b \notin pinned /\ UNCHANGED <<disk, pinned>>
    BY <1>3, Zenon DEF CacheInv, Evict, Fill, disk_vars
  <2>2. \E x \in {Absent, disk[b]} : cache' = [cache EXCEPT ![b] = x]
    BY <1>3, Zenon DEF Evict, Fill
  <2> QED BY <1>0, <2>1, <2>2 DEF CacheInv, TypeOK
<1>4. CASE Crash
  BY <1>4, Zenon DEF CacheInv, Crash
<1>5. CASE UNCHANGED <<cache, pinned, disk>>
  BY <1>5, Zenon DEF CacheInv
<1> QED
  BY <1>1, <1>2, <1>3, <1>4, <1>5, Zenon
     DEF Next, vars, disk_vars, CommitStep, RecoveryStep, BeginSleep,
     BeginOp, EndOp, EndOpCommit, WriteLog, WriteHead, ClearHead, Committed, ReadHead, RecoverEnd

\* write_log copies a pinned buffer, whose content is the current one.
LEMMA WriteLogCopy ==
  ASSUME Control, PinInv, CacheInv, CopyInv, WriteLog
  PROVE  CopyInv'
<1>0. TypeOK /\ CountInv
  BY Zenon DEF Control
<1>1. /\ cpc = "write_log" /\ cpc' = cpc /\ lh' = lh /\ cache' = cache /\ tail' = tail + 1
      /\ tail <= Len(lh) /\ logd' = [logd EXCEPT ![tail] = Content(lh[tail])]
  BY Zenon DEF WriteLog
<1>2. tail \in Slots /\ lh[tail] \in Blocks /\ lh[tail] \in pinned /\ tail \in 1..Len(lh)
  BY <1>0, <1>1, Entry, Places DEF PinInv
<1>3. Content(lh[tail]) = cache[lh[tail]]
  BY <1>2, Zenon DEF CacheInv, Content
<1>4. ASSUME NEW k \in 1..tail PROVE logd'[k] = cache[lh[k]]
  <2>1. k \in Slots /\ (k = tail \/ k \in 1..(tail - 1))
    BY <1>0, <1>2, Places, Sizes DEF Slots
  <2> QED BY <1>0, <1>1, <1>2, <1>3, <2>1, Zenon DEF CopyInv, TypeOK
<1>5. tail' - 1 = tail
  BY <1>0, <1>1, Places
<1> QED BY <1>1, <1>4, <1>5 DEF CopyInv

\* install_trans writes each home block once.
LEMMA InstallCopy ==
  ASSUME Control, CopyInv, Install \/ Recover
  PROVE  CopyInv'
<1>0. TypeOK /\ CountInv /\ HeadInv
  BY Zenon DEF Control
<1> DEFINE b == lh[tail]
<1>1. /\ cpc \in {"install", "recover"} /\ UNCHANGED <<cpc, lh, logd>> /\ tail' = tail + 1
      /\ tail \in 1..Len(lh) /\ b \in Blocks
  BY <1>0, Entry, Places DEF Install, Recover
<1>2. cache' = [cache EXCEPT ![b] = logd[tail]] /\ disk' = [disk EXCEPT ![b] = logd[tail]]
  BY Zenon DEF Install, Recover
<1>3. \A k \in 1..Len(lh) : lh[k] \in Blocks /\ (k # tail => lh[k] # b)
  BY <1>0, <1>1, Places, Zenon DEF HeadInv, NoDup
<1> HIDE DEF b
<1>4. ASSUME NEW k \in 1..tail PROVE disk'[lh[k]] = logd[k]
  <2>1. k \in 1..Len(lh) /\ (k = tail \/ k \in 1..(tail - 1))
    BY <1>0, <1>1, Places
  <2>2. CASE k = tail
    BY <1>0, <1>1, <1>2, <2>2, Zenon DEF TypeOK, b
  <2>3. CASE k # tail
    BY <1>0, <1>1, <1>2, <1>3, <2>1, <2>3, Zenon DEF CopyInv, TypeOK
  <2> QED BY <2>2, <2>3, Zenon
<1>5. ASSUME cpc = "install", NEW k \in (tail + 1)..Len(lh) PROVE logd[k] = cache'[lh[k]]
  <2>1. k \in 1..Len(lh) /\ k # tail /\ k \in tail..Len(lh)
    BY <1>0, <1>1, Places
  <2> QED BY <1>0, <1>2, <1>3, <1>5, <2>1 DEF CopyInv, TypeOK
<1>6. tail' - 1 = tail
  BY <1>0, <1>1, Places
<1> QED BY <1>1, <1>4, <1>5, <1>6, Zenon DEF CopyInv

\* An eviction leaves the pinned buffers alone.
LEMMA CacheCopy ==
  ASSUME Control, PinInv, CacheInv, CopyInv, NEW b \in Blocks, Evict(b) \/ Fill(b)
  PROVE  CopyInv'
<1>0. TypeOK
  BY Zenon DEF Control
<1>1. b \notin pinned /\ UNCHANGED <<disk, logd, lh, cpc, tail>>
  BY Zenon DEF CacheInv, Evict, Fill, disk_vars
<1>2. \A x \in Blocks : x # b => cache'[x] = cache[x]
  BY <1>0, Zenon DEF Evict, Fill, TypeOK
<1>3. ASSUME NEW k \in 1..Len(lh), lh[k] \in pinned PROVE cache'[lh[k]] = cache[lh[k]]
  BY <1>0, <1>1, <1>2, <1>3, Places, Zenon
<1>4. CASE cpc = "write_log"
  <2>1. \A k \in 1..(tail - 1) : k \in 1..Len(lh) /\ lh[k] \in pinned
    BY <1>0, <1>4, Places DEF PinInv, Control, HeadInv
  <2> QED BY <1>1, <1>3, <1>4, <2>1, Zenon DEF CopyInv
<1>5. CASE cpc = "install"
  <2>1. \A k \in tail..Len(lh) : k \in 1..Len(lh) /\ lh[k] \in pinned
    BY <1>0, <1>5, Places DEF PinInv
  <2> QED BY <1>1, <1>3, <1>5, <2>1, Zenon DEF CopyInv
<1> QED BY <1>1, <1>4, <1>5, Zenon DEF CopyInv

\* Every step keeps what is known of the copies.
LEMMA NextCopy ==
  ASSUME Control, PinInv, CacheInv, CopyInv, [Next]_vars
  PROVE  CopyInv'
<1>0. TypeOK /\ PhaseInv /\ HeadInv
  BY Zenon DEF Control
<1>1. CASE WriteHead
  <2>1. /\ cpc = "write_log" /\ cpc' = "install" /\ UNCHANGED <<lh, logd, cache>>
        /\ tail = Len(lh) + 1 /\ tail' = 1
    BY <1>1, Zenon DEF WriteHead
  <2>2. 1..(tail - 1) = 1..Len(lh) /\ 1..(tail' - 1) = {}
    BY <1>0, <2>1, Places
  <2> QED BY <2>1, <2>2, Zenon DEF CopyInv
<1>2. ASSUME NEW t \in Threads, NEW b \in Blocks, NEW v \in Vals, LogWrite(t, b, v) PROVE CopyInv'
  BY <1>0, <1>2, OpPhase, Zenon DEF LogWrite, CopyInv
<1>3. ASSUME NEW t \in Threads, EndOpCommit(t) PROVE CopyInv'
  BY <1>3 DEF EndOpCommit, CopyInv
<1>4. CASE ReadHead
  BY <1>0, <1>4 DEF ReadHead, CopyInv, HeadInv
<1>5. ASSUME NEW t \in Threads, Committed(t) PROVE CopyInv'
  BY <1>5, Zenon DEF Committed, CopyInv
<1>6. CASE ClearHead \/ RecoverEnd \/ Crash
  BY <1>6, Zenon DEF ClearHead, RecoverEnd, Crash, CopyInv
<1>7. CASE UNCHANGED <<cpc, tail, lh, logd, cache, disk>>
  BY <1>7, Zenon DEF CopyInv
<1> QED
  BY <1>1, <1>2, <1>3, <1>4, <1>5, <1>6, <1>7, WriteLogCopy, InstallCopy, CacheCopy, Zenon
     DEF Next, vars,
     disk_vars, CommitStep, RecoveryStep, BeginSleep, BeginOp, EndOp

-----------------------------------------------------------------------------
(* The refinement *)

\* What a restart finds, block by block.
DurableFact ==
  /\ \A k \in 1..Len(hd) : hd[k] \in Blocks /\ Durable[hd[k]] = logd[k]
  /\ \A b \in Blocks : b \notin Range(hd) => Durable[b] = disk[b]

\* A block is in the header once.
LEMMA DurableIs == Control => DurableFact
<1> SUFFICES ASSUME Control PROVE DurableFact
  BY Zenon
<1>1. /\ hd \in Seq(Blocks) /\ DOMAIN hd = 1..Len(hd) /\ Len(hd) \in 0..LOGBLOCKS /\ NoDup(hd)
      /\ \A k \in 1..Len(hd) : hd[k] \in Blocks
  BY HeaderFits, SeqLen, SeqElement, Zenon DEF Control, TypeOK, HeadInv
<1>2. ASSUME NEW k \in 1..Len(hd) PROVE Durable[hd[k]] = logd[k]
  <2>1. k \in Slots /\ k <= Len(hd) /\ hd[k] \in Range(hd)
    BY <1>1, Sizes DEF Slots, Range
  <2>2. \A j \in Slots : j <= Len(hd) /\ hd[j] = hd[k] => j = k
    BY <1>1, Sizes DEF Slots, NoDup
  <2>3. (CHOOSE j \in Slots : j <= Len(hd) /\ hd[j] = hd[k]) = k
    BY <2>1, <2>2, Zenon
  <2> QED BY <1>1, <2>1, <2>3, Zenon DEF Durable
<1>3. ASSUME NEW b \in Blocks, b \notin Range(hd) PROVE Durable[b] = disk[b]
  BY <1>3, Zenon DEF Durable
<1> QED BY <1>1, <1>2, <1>3, Zenon DEF DurableFact

\* With an empty header a restart finds the home blocks.
LEMMA DurableEmpty == TypeOK /\ hd = <<>> => Durable = disk
  BY EmptyHead, Zenon DEF TypeOK, Durable

\* When all is installed it does so too: the header may be cleared.
LEMMA DurableInstalled ==
  ASSUME Inv, cpc \in {"install", "recover"}, tail = Len(lh) + 1
  PROVE  Durable = disk
<1>0. TypeOK /\ DurableFact /\ hd = lh
  BY DurableIs, Zenon DEF Inv, Control, HeadInv
<1>1. ASSUME NEW b \in Blocks PROVE Durable[b] = disk[b]
  <2>1. CASE b \in Range(hd)
    <3>1. PICK k \in 1..Len(lh) : b = lh[k]
      BY <1>0, <2>1, Places, Zenon
    <3>2. k \in 1..(tail - 1)
      BY <1>0, Places
    <3> QED BY <1>0, <3>1, <3>2 DEF Inv, CopyInv, DurableFact
  <2>2. CASE b \notin Range(hd)
    BY <1>0, <2>2, Zenon DEF DurableFact
  <2> QED BY <2>1, <2>2, Zenon
<1>2. Durable = [b \in Blocks |-> Durable[b]] /\ disk = [b \in Blocks |-> disk[b]]
  BY <1>0 DEF Durable, TypeOK
<1> QED BY <1>1, <1>2, Zenon

\* After recovery the file system reads what is on disk.
LEMMA RecoveredContent ==
  ASSUME Inv, pinned = {}
  PROVE  [b \in Blocks |-> Content(b)] = disk
  BY Zenon DEF Inv, Control, TypeOK, CacheInv, Content

\* An installation changes neither what a restart finds nor what is read.
LEMMA InstallHidden ==
  ASSUME Inv, Inv', Install \/ Recover
  PROVE  Durable' = Durable /\ (Install => \A b \in Blocks : Content(b)' = Content(b))
<1> DEFINE c == lh[tail]
<1>0. TypeOK /\ CountInv /\ HeadInv
  BY Zenon DEF Inv, Control
<1>1. /\ cpc \in {"install", "recover"} /\ UNCHANGED <<hd, logd, lh>> /\ hd = lh
      /\ tail \in 1..Len(lh) /\ c \in Blocks /\ c \in Range(hd)
  BY <1>0, Entry, Places DEF Install, Recover, HeadInv
<1>2. cache' = [cache EXCEPT ![c] = logd[tail]] /\ disk' = [disk EXCEPT ![c] = logd[tail]]
  BY Zenon DEF Install, Recover
<1>3. Durable' = Durable
  <2>1. \A b \in Blocks : b \notin Range(hd) => disk'[b] = disk[b]
    BY <1>0, <1>1, <1>2, Zenon DEF TypeOK
  <2> QED BY <1>1, <2>1 DEF Durable
<1>4. ASSUME Install, NEW b \in Blocks PROVE Content(b)' = Content(b)
  <2>1. logd[tail] = cache[c] /\ c \in pinned
    BY <1>0, <1>1, <1>4, Places DEF Install, Inv, CopyInv, PinInv
  <2>2. cache[c] # Absent
    BY <1>1, <2>1, Zenon DEF Inv, CacheInv
  <2>3. cache' = cache
    BY <1>0, <1>2, <2>1, Zenon DEF TypeOK
  <2>4. b # c => disk'[b] = disk[b]
    BY <1>0, <1>2, Zenon DEF TypeOK
  <2> QED BY <2>2, <2>3, <2>4 DEF Content
<1> QED BY <1>3, <1>4, Zenon

\* What an operation does to the atomic disk.
LEMMA OperationAtomic ==
  ASSUME Inv, Inv', NEW t \in Threads, Operation(t)
  PROVE  [AD!Next]_(AD!vars)
<1>0. TypeOK /\ PhaseInv /\ CountInv
  BY Zenon DEF Inv, Control
<1>1. Durable' = Durable
  <2>1. UNCHANGED <<disk, logd, hd>>
    BY Zenon DEF Operation, BeginSleep, BeginOp, EndOp, EndOpCommit, LogWrite, disk_vars
  <2> QED BY <2>1 DEF Durable
<1>2. CASE BeginSleep(t) \/ BeginOp(t) \/ EndOp(t) \/ EndOpCommit(t)
  <2>1. UNCHANGED <<cache, disk>> /\ Booted /\ Booted'
    <3>1. pc[t] = "op" => cpc = "none"
      BY <1>0, OpPhase, Zenon
    <3> QED BY <1>2, <3>1, Zenon DEF BeginSleep, BeginOp, EndOp, EndOpCommit, disk_vars, Booted
  <2>2. Current' = Current
    BY <2>1, Zenon DEF Current, Content
  <2>3. CASE BeginSleep(t)
    <3>1. Ops' = Ops
      BY <1>0, <2>3, Zenon DEF BeginSleep, Ops, TypeOK
    <3> QED BY <1>1, <2>2, <3>1, Zenon DEF AD!vars, Ops
  <2>4. CASE BeginOp(t)
    <3>1. t \notin Ops /\ Ops' = Ops \cup {t}
      BY <1>0, <2>4, Zenon DEF BeginOp, Ops, TypeOK
    <3>2. AD!Begin(t)
      BY <1>1, <2>2, <3>1, Zenon DEF AD!Begin, Ops
    <3> QED BY <3>2, Zenon DEF AD!Next
  <2>5. CASE EndOp(t) \/ EndOpCommit(t)
    <3>1. t \in Ops /\ Ops' = Ops \ {t}
      BY <1>0, <2>5, Zenon DEF EndOp, EndOpCommit, Wakeup, Ops, TypeOK
    <3>2. AD!End(t)
      BY <1>1, <2>2, <3>1, Zenon DEF AD!End, Ops
    <3> QED BY <3>2, Zenon DEF AD!Next
  <2> QED BY <1>2, <2>3, <2>4, <2>5, Zenon
<1>3. ASSUME NEW b \in Blocks, NEW v \in Vals, LogWrite(t, b, v) PROVE [AD!Next]_(AD!vars)
  <2>1. t \in Ops /\ Ops' = Ops /\ cpc = "none" /\ cpc' = "none"
    BY <1>0, <1>3, OpPhase, Zenon DEF LogWrite, Ops
  <2>2. cache' = [cache EXCEPT ![b] = v] /\ disk' = disk
    BY <1>3, Zenon DEF LogWrite, disk_vars
  <2>3. Content(b)' = v
    BY <1>0, <2>2, LogAssumption, Zenon DEF Content, TypeOK
  <2>4. \A c \in Blocks : c # b => Content(c)' = Content(c)
    BY <1>0, <2>2, Zenon DEF Content, TypeOK
  <2>5. Current = [c \in Blocks |-> Content(c)] /\ Current' = [c \in Blocks |-> Content(c)']
    BY <2>1, Zenon DEF Current, Booted
  <2>6. Current' = [Current EXCEPT ![b] = v]
    BY <2>3, <2>4, <2>5, Zenon
  <2>7. AD!Write(t, b, v)
    BY <1>1, <2>1, <2>6, Zenon DEF AD!Write, Ops
  <2> QED BY <2>7, Zenon DEF AD!Next
<1> QED BY <1>2, <1>3, Zenon DEF Operation

\* Writing the header makes durable what the file system reads, at once.
LEMMA WriteHeadAtomic ==
  ASSUME Inv, Inv', WriteHead
  PROVE  AD!Commit
<1>0. TypeOK /\ PhaseInv
  BY Zenon DEF Inv, Control
<1>1. /\ cpc = "write_log" /\ cpc' = "install" /\ hd' = lh /\ tail = Len(lh) + 1
      /\ UNCHANGED <<disk, logd, cache, pc>>
  BY Zenon DEF WriteHead
<1>2. Ops = {} /\ Ops' = {}
  BY <1>0, <1>1, Zenon DEF PhaseInv, Committing, Ops
<1>3. Current' = Current /\ Current = [b \in Blocks |-> Content(b)]
  BY <1>1, Zenon DEF Current, Content, Booted
<1>4. DurableFact'
  BY DurableIs, PTL DEF Inv
<1>5. pinned = Range(lh)
  BY <1>1, Zenon DEF Inv, PinInv
<1>6. ASSUME NEW b \in Blocks PROVE Durable'[b] = Content(b)
  <2>1. CASE b \in Range(lh)
    <3>1. PICK k \in 1..Len(lh) : b = lh[k]
      BY <1>0, <2>1, Places, Zenon
    <3>2. Durable'[b] = logd[k]
      BY <1>1, <1>4, <3>1, Zenon DEF DurableFact
    <3>3. logd[k] = cache[b]
      BY <1>0, <1>1, <3>1, Places DEF Inv, CopyInv
    <3>4. cache[b] # Absent
      BY <1>5, <2>1, Zenon DEF Inv, CacheInv
    <3> QED BY <3>2, <3>3, <3>4, Zenon DEF Content
  <2>2. CASE b \notin Range(lh)
    <3>1. Durable'[b] = disk[b]
      BY <1>1, <1>4, <2>2, Zenon DEF DurableFact
    <3>2. cache[b] \in {Absent, disk[b]}
      BY <1>5, <2>2, Zenon DEF Inv, CacheInv
    <3> QED BY <3>1, <3>2, Zenon DEF Content
  <2> QED BY <2>1, <2>2, Zenon
<1>7. Durable' = Current
  <2>1. Durable' = [b \in Blocks |-> Durable'[b]]
    BY DEF Durable
  <2> QED BY <1>3, <1>6, <2>1, Zenon
<1> QED BY <1>2, <1>3, <1>7, Zenon DEF AD!Commit, Ops

\* The other steps of a commit do nothing to the atomic disk.
LEMMA CommitAtomic ==
  ASSUME Inv, Inv', CommitStep, ~WriteHead
  PROVE  UNCHANGED AD!vars
<1>0. TypeOK /\ HeadInv /\ TypeOK' /\ HeadInv'
  BY Zenon DEF Inv, Control
<1>1. CASE WriteLog
  <2>1. hd = <<>> /\ hd' = <<>> /\ UNCHANGED <<disk, cache, pc, cpc>> /\ Booted
    BY <1>0, <1>1, Zenon DEF WriteLog, HeadInv, Booted
  <2>2. Durable = disk /\ Durable' = disk'
    <3>1. Durable = disk
      BY <1>0, <2>1, DurableEmpty, Zenon
    <3>2. (TypeOK /\ hd = <<>> => Durable = disk)'
      BY DurableEmpty, PTL
    <3> QED BY <1>0, <2>1, <3>1, <3>2, Zenon
  <2>3. Current' = Current
    BY <2>1, Zenon DEF Current, Content, Booted
  <2> QED BY <2>1, <2>2, <2>3, Zenon DEF AD!vars
<1>2. CASE Install
  <2>1. cpc = "install" /\ cpc' = "install" /\ pc' = pc
    BY <1>2, Zenon DEF Install
  <2>2. Durable' = Durable /\ \A b \in Blocks : Content(b)' = Content(b)
    BY <1>2, InstallHidden, Zenon
  <2>3. Current' = Current
    BY <2>1, <2>2, Zenon DEF Current, Booted
  <2> QED BY <2>1, <2>2, <2>3, Zenon DEF AD!vars
<1>3. CASE ClearHead
  <2>1. /\ cpc = "install" /\ cpc' = "committed" /\ tail = Len(lh) + 1 /\ hd' = <<>>
        /\ UNCHANGED <<disk, cache, pc>>
    BY <1>3, Zenon DEF ClearHead
  <2>2. Durable = disk
    BY <2>1, DurableInstalled, Zenon
  <2>3. Durable' = disk'
    <3>1. (TypeOK /\ hd = <<>> => Durable = disk)'
      BY DurableEmpty, PTL
    <3> QED BY <1>0, <2>1, <3>1, Zenon
  <2>4. Current' = Current
    BY <2>1, Zenon DEF Current, Content, Booted
  <2> QED BY <2>1, <2>2, <2>3, <2>4, Zenon DEF AD!vars
<1>4. ASSUME NEW t \in Threads, Committed(t) PROVE UNCHANGED AD!vars
  <2>1. UNCHANGED <<disk, logd, hd, cache>> /\ cpc = "committed" /\ cpc' = "none"
    BY <1>4, Zenon DEF Committed, disk_vars
  <2>2. Ops' = Ops
    BY <1>0, <1>4, Zenon DEF Committed, Wakeup, Ops, TypeOK
  <2>3. Durable' = Durable /\ Current' = Current
    BY <2>1 DEF Durable, Current, Content, Booted
  <2> QED BY <2>2, <2>3, Zenon DEF AD!vars, Ops
<1> QED BY <1>1, <1>2, <1>3, <1>4, Zenon DEF CommitStep

\* Recovery does nothing to it: what is read afterwards is what a restart finds.
LEMMA RecoveryAtomic ==
  ASSUME Inv, Inv', RecoveryStep
  PROVE  UNCHANGED AD!vars
<1>0. TypeOK /\ HeadInv /\ TypeOK' /\ HeadInv'
  BY Zenon DEF Inv, Control
<1>1. CASE ReadHead
  <2>1. UNCHANGED <<disk, logd, hd, pc>> /\ ~Booted /\ ~Booted'
    BY <1>1, Zenon DEF ReadHead, disk_vars, Booted
  <2>2. Durable' = Durable
    BY <2>1 DEF Durable
  <2> QED BY <2>1, <2>2, Zenon DEF AD!vars, Current
<1>2. CASE Recover
  <2>1. pc' = pc /\ ~Booted /\ ~Booted'
    BY <1>2, Zenon DEF Recover, Booted
  <2>2. Durable' = Durable
    BY <1>2, InstallHidden, Zenon
  <2> QED BY <2>1, <2>2, Zenon DEF AD!vars, Current
<1>3. CASE RecoverEnd
  <2>1. /\ cpc = "recover" /\ cpc' = "none" /\ tail = Len(lh) + 1 /\ hd' = <<>>
        /\ UNCHANGED <<disk, cache, pinned, pc>>
    BY <1>3, Zenon DEF RecoverEnd
  <2>2. Durable = disk
    BY <2>1, DurableInstalled, Zenon
  <2>3. Durable' = disk'
    <3>1. (TypeOK /\ hd = <<>> => Durable = disk)'
      BY DurableEmpty, PTL
    <3> QED BY <1>0, <2>1, <3>1, Zenon
  <2>4. pinned = {}
    BY <2>1, Zenon DEF Inv, PinInv
  <2>5. [b \in Blocks |-> Content(b)] = disk
    BY <2>4, RecoveredContent, Zenon
  <2>6. Current' = [b \in Blocks |-> Content(b)] /\ Current = Durable
    BY <2>1, Zenon DEF Current, Content, Booted
  <2> QED BY <2>1, <2>2, <2>3, <2>5, <2>6, Zenon DEF AD!vars
<1> QED BY <1>1, <1>2, <1>3, Zenon DEF RecoveryStep

\* The cache is transparent.
LEMMA CacheAtomic ==
  ASSUME Inv, CacheStep
  PROVE  UNCHANGED AD!vars
<1>0. TypeOK
  BY Zenon DEF Inv, Control
<1>1. PICK b \in Blocks : Evict(b) \/ Fill(b)
  BY Zenon DEF CacheStep
<1>2. UNCHANGED <<disk, logd, hd, pc, cpc>>
  BY <1>1, Zenon DEF Evict, Fill, disk_vars
<1>3. Durable' = Durable /\ Booted' = Booted
  BY <1>2 DEF Durable, Booted
<1>4. Content(b)' = Content(b)
  <2>1. CASE Evict(b)
    <3>1. cache[b] = disk[b] /\ cache'[b] = Absent
      BY <1>0, <2>1, Zenon DEF Evict, Inv, CacheInv, TypeOK
    <3> QED BY <1>2, <3>1, Zenon DEF Content
  <2>2. CASE Fill(b)
    <3>1. cache[b] = Absent /\ cache'[b] = disk[b]
      BY <1>0, <2>2, Zenon DEF Fill, TypeOK
    <3> QED BY <1>2, <3>1, Zenon DEF Content
  <2> QED BY <1>1, <2>1, <2>2, Zenon
<1>5. \A c \in Blocks : c # b => Content(c)' = Content(c)
  <2>1. \A c \in Blocks : c # b => cache'[c] = cache[c]
    BY <1>0, <1>1 DEF Evict, Fill, TypeOK
  <2> QED BY <1>2, <2>1, Zenon DEF Content
<1>6. Current' = Current
  BY <1>3, <1>4, <1>5, Zenon DEF Current
<1> QED BY <1>2, <1>3, <1>6, Zenon DEF AD!vars

\* A crash takes what is read back to what is durable.
LEMMA CrashAtomic ==
  ASSUME Crash
  PROVE  AD!Crash
<1>1. UNCHANGED <<disk, logd, hd>> /\ ~Booted'
  BY Zenon DEF Crash, disk_vars, Booted
<1>2. Durable' = Durable
  BY <1>1 DEF Durable
<1>3. Current' = Durable
  BY <1>1, <1>2, Zenon DEF Current
<1>4. Ops' = {}
  BY Zenon DEF Crash, Ops
<1> QED BY <1>2, <1>3, <1>4, Zenon DEF AD!Crash, Ops

-----------------------------------------------------------------------------
(* Room *)

INSTANCE FiniteSetTheorems

\* The room left is a number.
LEMMA RoomFinite ==
  ASSUME IsFiniteSet(Ops)
  PROVE  IsFiniteSet(Room) /\ Cardinality(Room) \in Nat
<1>1. IsFiniteSet(1..MAXOPBLOCKS)
  BY FS_Interval, Sizes
<1>2. IsFiniteSet(Ops \X (1..MAXOPBLOCKS))
  BY <1>1, FS_Product, Zenon
<1>3. IsFiniteSet(Room)
  BY <1>2, FS_Subset, Zenon DEF Room
<1> QED BY <1>3, FS_CardinalityType, Zenon

\* The invariant about room has the counts.
LEMMA Counted == TypeOK /\ RoomInv => CountInv
<1> SUFFICES ASSUME TypeOK, RoomInv PROVE CountInv
  BY Zenon
<1>1. IsFiniteSet(Ops) /\ outstanding = Cardinality(Ops)
  BY Zenon DEF RoomInv, Reserved
<1>2. ASSUME NEW t \in Ops, outstanding = 1 PROVE Ops = {t}
  <2>1. Cardinality(Ops) = 1 => \E x : Ops = {x}
    BY <1>1, FS_Singleton, Zenon
  <2> QED BY <1>1, <1>2, <2>1, Zenon
<1>3. outstanding = 0 <=> Ops = {}
  BY <1>1, FS_EmptySet, Zenon
<1>4. Len(lh) <= LOGBLOCKS /\ Len(hd) <= LOGBLOCKS
  BY RoomFinite, SeqLen, Sizes DEF TypeOK, RoomInv, Reserved
<1> QED BY <1>2, <1>3, <1>4, Zenon DEF CountInv

LEMMA CountedNext == TypeOK' /\ RoomInv' => CountInv'
  BY Counted, PTL

\* Reservations that are given up or used leave no less room.
LEMMA RoomShrinks ==
  ASSUME IsFiniteSet(Ops), Room' \subseteq Room
  PROVE  Cardinality(Room') \in Nat /\ Cardinality(Room') <= Cardinality(Room)
<1>1. IsFiniteSet(Room)
  BY RoomFinite, Zenon
<1>2. IsFiniteSet(Room') /\ Cardinality(Room') <= Cardinality(Room)
  BY <1>1, FS_Subset, Zenon
<1> QED BY <1>2, FS_CardinalityType, Zenon

\* begin_op reserves MAXOPBLOCKS blocks, which it has found free.
LEMMA BeginRoom ==
  ASSUME TypeOK, RoomInv, NEW t \in Threads, BeginOp(t)
  PROVE  RoomInv'
<1> DEFINE R == Ops' \X (1..MAXOPBLOCKS)
<1>1. Ops' = Ops \cup {t} /\ t \notin Ops
  BY Zenon DEF BeginOp, Ops, TypeOK
<1>2. IsFiniteSet(Ops') /\ Cardinality(Ops') = outstanding + 1 /\ outstanding' = outstanding + 1
  BY <1>1, FS_AddElement, Zenon DEF RoomInv, Reserved, BeginOp
<1>3. IsFiniteSet(1..MAXOPBLOCKS) /\ Cardinality(1..MAXOPBLOCKS) = MAXOPBLOCKS
  BY FS_Interval, Sizes
<1>4. IsFiniteSet(R) /\ Cardinality(R) = (outstanding + 1) * MAXOPBLOCKS
  <2>1. IsFiniteSet(R) /\ Cardinality(R) = Cardinality(Ops') * Cardinality(1..MAXOPBLOCKS)
    BY <1>2, <1>3, FS_Product, Zenon
  <2> QED BY <1>2, <1>3, <2>1, Zenon
<1>5. IsFiniteSet(Room') /\ Cardinality(Room') <= Cardinality(R)
  BY <1>4, FS_Subset, Zenon DEF Room
<1>6. Cardinality(Room') \in Nat
  BY <1>5, FS_CardinalityType, Zenon
<1>7. UNCHANGED <<lh, hd>> /\ ~NoRoom
  BY Zenon DEF BeginOp, disk_vars
<1> HIDE DEF R
<1>8. Len(lh) + Cardinality(R) <= LOGBLOCKS /\ Len(lh) \in Nat /\ Cardinality(R) \in Nat
  <2>1. ~(Len(lh) + Cardinality(R) > LOGBLOCKS)
    BY <1>4, <1>7, Zenon DEF NoRoom
  <2>2. Len(lh) \in Nat /\ Cardinality(R) \in Nat
    BY <1>4, FS_CardinalityType, SeqLen, Zenon DEF TypeOK
  <2> QED BY <2>1, <2>2, Sizes
<1>9. Len(lh) + Cardinality(Room') <= LOGBLOCKS
  BY <1>5, <1>6, <1>8, Sizes
<1> QED BY <1>2, <1>7, <1>9, Zenon DEF RoomInv, Reserved

\* end_op gives up what is left of its reservation.
LEMMA EndRoom ==
  ASSUME TypeOK, RoomInv, NEW t \in Threads, EndOp(t) \/ EndOpCommit(t)
  PROVE  RoomInv'
<1>1. t \in Ops /\ Ops' = Ops \ {t} /\ outstanding' = outstanding - 1
  BY DEF EndOp, EndOpCommit, Ops, TypeOK, Wakeup
<1>2. IsFiniteSet(Ops') /\ outstanding' = Cardinality(Ops')
  BY <1>1, FS_RemoveElement, Zenon DEF RoomInv, Reserved
<1>3. \A u \in Ops' : wset'[u] = wset[u]
  BY <1>1, Zenon DEF EndOp, EndOpCommit, Ops, TypeOK
<1>4. Room' \subseteq Room
  BY <1>1, <1>3, Zenon DEF Room
<1>5. Cardinality(Room') \in Nat /\ Cardinality(Room') <= Cardinality(Room) /\ Cardinality(Room) \in Nat
  BY <1>4, RoomShrinks, RoomFinite, Zenon DEF RoomInv, Reserved
<1>6. UNCHANGED <<lh, hd>> /\ Len(lh) \in Nat
  BY SeqLen, Zenon DEF EndOp, EndOpCommit, disk_vars, TypeOK
<1> QED BY <1>2, <1>5, <1>6, Sizes, SMTT(30) DEF RoomInv, Reserved

\* log_write takes a block it adds from the reservation.
LEMMA WriteRoom ==
  ASSUME TypeOK, RoomInv, WsetInv, HeadInv,
         NEW t \in Threads, NEW b \in Blocks, NEW v \in Vals, LogWrite(t, b, v)
  PROVE  RoomInv'
<1> DEFINE c == Cardinality(wset[t])
<1>1. Ops' = Ops /\ t \in Ops /\ UNCHANGED <<hd, outstanding>>
  BY Zenon DEF LogWrite, Ops, disk_vars
<1>2. /\ wset'[t] = wset[t] \cup {b}
      /\ \A u \in Threads : u # t => wset'[u] = wset[u]
      /\ Cardinality(wset[t] \cup {b}) <= OpBlocks
      /\ lh' = IF b \in Range(lh) THEN lh ELSE Append(lh, b)
  BY Zenon DEF LogWrite, TypeOK
<1>3. /\ c \in Nat
      /\ Cardinality(wset[t] \cup {b}) = IF b \in wset[t] THEN c ELSE c + 1
  BY FS_AddElement, FS_CardinalityType, Zenon DEF WsetInv
<1>4. \A u \in Ops : Cardinality(wset[u]) \in Nat
  BY FS_CardinalityType, Zenon DEF WsetInv, Ops
<1>5. Room' \subseteq Room
  <2> SUFFICES ASSUME NEW x \in Ops \X (1..MAXOPBLOCKS), x[2] > Cardinality(wset'[x[1]])
               PROVE  x[2] > Cardinality(wset[x[1]])
    BY <1>1, Zenon DEF Room
  <2>1. x[1] \in Ops /\ x[2] \in 1..MAXOPBLOCKS
    BY Zenon
  <2>2. CASE x[1] = t
    <3>1. Cardinality(wset'[t]) \in {c, c + 1}
      BY <1>2, <1>3, Zenon
    <3>2. x[2] > c
      BY <1>3, <2>1, <2>2, <3>1, Sizes
    <3> QED BY <2>2, <3>2, Zenon
  <2>3. CASE x[1] # t
    BY <1>2, <2>1, <2>3, Zenon DEF Ops
  <2> QED BY <2>2, <2>3, Zenon
<1>6. /\ Len(lh) \in Nat
      /\ Cardinality(Room') \in Nat /\ Cardinality(Room') <= Cardinality(Room)
      /\ Cardinality(Room) \in Nat /\ IsFiniteSet(Room)
  BY <1>5, RoomShrinks, RoomFinite, SeqLen, SMTT(30) DEF RoomInv, Reserved, TypeOK
<1>7. CASE b \in Range(lh)
  BY <1>1, <1>2, <1>6, <1>7, Sizes DEF RoomInv, Reserved
<1>8. CASE b \notin Range(lh)
  <2> DEFINE x == <<t, c + 1>>
  <2>1. b \notin wset[t]
    BY <1>8, Zenon DEF WsetInv
  <2>2. x \in Room
    <3>1. c + 1 \in 1..MAXOPBLOCKS /\ c + 1 > c
      BY <1>2, <1>3, <2>1, Sizes
    <3> QED BY <1>1, <3>1, Zenon DEF Room
  <2>3. x \notin Room'
    <3>1. Cardinality(wset'[t]) = c + 1 /\ ~(c + 1 > c + 1)
      BY <1>2, <1>3, <2>1
    <3> QED BY <3>1, Zenon DEF Room
  <2>4. Room' \subseteq Room \ {x}
    BY <1>5, <2>3, Zenon
  <2> HIDE DEF x
  <2>5. IsFiniteSet(Room \ {x}) /\ Cardinality(Room \ {x}) = Cardinality(Room) - 1
    BY <1>6, <2>2, FS_RemoveElement, Zenon
  <2>6. Cardinality(Room') <= Cardinality(Room) - 1
    BY <2>4, <2>5, FS_Subset
  <2>7. Len(lh') = Len(lh) + 1
    BY <1>2, <1>8, AppendHead, Zenon DEF HeadInv, TypeOK
  <2> QED BY <1>1, <1>6, <2>6, <2>7, Sizes DEF RoomInv, Reserved
<1> QED BY <1>7, <1>8, Zenon

\* No step makes the log overflow.
LEMMA NextRoom ==
  ASSUME TypeOK, RoomInv, CountInv, WsetInv, PhaseInv, HeadInv, [Next]_vars
  PROVE  RoomInv'
<1>0. Cardinality(Room) \in Nat /\ Len(lh) \in 0..LOGBLOCKS /\ Len(hd) \in 0..LOGBLOCKS
  BY RoomFinite, HeaderFits, Zenon DEF RoomInv, Reserved
<1>1. ASSUME NEW t \in Threads, BeginSleep(t) PROVE RoomInv'
  <2>1. Ops' = Ops /\ UNCHANGED <<lh, hd, outstanding, wset>>
    BY <1>1, Zenon DEF BeginSleep, Ops, TypeOK, disk_vars
  <2> QED BY <2>1, Zenon DEF RoomInv, Reserved, Room
<1>2. CASE UNCHANGED <<pc, wset, outstanding, lh, hd>>
  BY <1>2, Zenon DEF RoomInv, Reserved, Room, Ops
<1>3. CASE WriteHead \/ ClearHead \/ RecoverEnd
  <2>1. Ops' = Ops /\ Room' = Room /\ outstanding' = outstanding
    BY <1>3, Zenon DEF WriteHead, ClearHead, RecoverEnd, Ops, Room
  <2>2. Len(lh') \in 0..Len(lh) /\ Len(hd') \in 0..LOGBLOCKS
    BY <1>0, <1>3, EmptyHead, Sizes DEF WriteHead, ClearHead, RecoverEnd
  <2> QED BY <1>0, <2>1, <2>2, Sizes DEF RoomInv, Reserved
<1>4. CASE ReadHead \/ Crash
  <2>1. Ops' = {} /\ outstanding' = 0
    BY <1>4, Zenon DEF ReadHead, Crash, Ops, PhaseInv, Booted, CountInv
  <2>2. Room' = {}
    BY <2>1, Zenon DEF Room
  <2>3. Len(lh') \in 0..LOGBLOCKS /\ hd' = hd
    <3>1. lh' \in {hd, <<>>} /\ hd' = hd
      BY <1>4, Zenon DEF ReadHead, Crash, disk_vars
    <3> QED BY <1>0, <3>1, EmptyHead, Sizes
  <2> QED BY <1>0, <2>1, <2>2, <2>3, FS_EmptySet, Sizes DEF RoomInv, Reserved
<1>5. ASSUME NEW t \in Threads, Committed(t) PROVE RoomInv'
  <2>1. Ops' = Ops /\ UNCHANGED <<lh, hd, outstanding, wset>>
    BY <1>5, Zenon DEF Committed, Wakeup, Ops, TypeOK, disk_vars
  <2> QED BY <2>1 DEF RoomInv, Reserved, Room
<1> QED
  BY <1>1, <1>2, <1>3, <1>4, <1>5, BeginRoom, EndRoom, WriteRoom, Zenon DEF Next, vars, CommitStep,
     RecoveryStep, WriteLog, Install, Evict, Fill, Recover, disk_vars

\* An operation writes as many blocks as it may, and all are logged.
LEMMA NextWset ==
  ASSUME TypeOK, RoomInv, CountInv, WsetInv, PhaseInv, HeadInv, [Next]_vars
  PROVE  WsetInv'
<1>0. IsFiniteSet({}) /\ Cardinality({}) = 0
  BY FS_EmptySet, Zenon
<1>1. ASSUME NEW t \in Threads, BeginSleep(t) \/ BeginOp(t) \/ EndOp(t) \/ EndOpCommit(t) \/ Committed(t)
      PROVE  WsetInv'
  <2>1. /\ lh' = lh
        /\ \A u \in Threads : \/ wset'[u] = wset[u] /\ (pc[u] = "op" => pc'[u] = "op")
                              \/ wset'[u] = {}
        /\ \A u \in Threads : pc'[u] # "op" => wset'[u] = {}
    BY <1>1, SMTT(30) DEF WsetInv, BeginSleep, BeginOp, EndOp, EndOpCommit, Committed, Wakeup, TypeOK
  <2> QED BY <1>0, <2>1, Sizes, SMTT(30) DEF WsetInv
<1>2. ASSUME NEW t \in Threads, NEW b \in Blocks, NEW v \in Vals, LogWrite(t, b, v) PROVE WsetInv'
  <2>1. Range(lh') = Range(lh) \cup {b}
    BY <1>2, AppendHead DEF LogWrite, HeadInv, TypeOK
  <2>2. /\ wset'[t] = wset[t] \cup {b} /\ Cardinality(wset'[t]) <= OpBlocks
        /\ pc' = pc /\ pc[t] = "op"
        /\ \A u \in Threads : u # t => wset'[u] = wset[u]
    BY <1>2, Zenon DEF LogWrite, TypeOK
  <2>3. IsFiniteSet(wset'[t])
    BY <2>2, FS_AddElement, SMTT(30) DEF WsetInv
  <2> QED BY <2>1, <2>2, <2>3, Zenon DEF WsetInv
<1>3. CASE UNCHANGED <<pc, wset, lh>>
  BY <1>3, Zenon DEF WsetInv
<1>4. CASE ClearHead \/ ReadHead \/ RecoverEnd
  <2>1. UNCHANGED <<pc, wset>> /\ Ops = {}
    BY <1>4, Zenon DEF ClearHead, ReadHead, RecoverEnd, PhaseInv, Committing, Booted, Ops
  <2> QED BY <1>0, <2>1, Sizes, Zenon DEF WsetInv, Ops
<1>5. CASE Crash
  BY <1>0, <1>5, Sizes DEF Crash, WsetInv
<1> QED
  BY <1>1, <1>2, <1>3, <1>4, <1>5, Zenon
     DEF Next, vars, CommitStep, RecoveryStep, WriteLog, WriteHead,
     Install, Evict, Fill, Recover

-----------------------------------------------------------------------------
(* The control of the log *)

\* An open operation may log one more block at least: it has a reservation that
\* it cannot have used up.
LEMMA OpHasRoom ==
  ASSUME Control, NEW t \in Threads, pc[t] = "op"
  PROVE  outstanding >= 1 /\ ~committing /\ Len(lh) < LOGBLOCKS
<1>1. TypeOK /\ RoomInv /\ CountInv /\ WsetInv /\ PhaseInv
  BY Zenon DEF Control
<1>2. cpc = "none" /\ t \in Ops
  BY <1>1, OpPhase, Zenon
<1>3. ~committing
  BY <1>1, <1>2, Zenon DEF PhaseInv, Committing
<1>4. outstanding \in Nat /\ outstanding # 0
  BY <1>1, <1>2, Sizes DEF TypeOK, CountInv
<1>5. <<t, MAXOPBLOCKS>> \in Room
  <2>1. Cardinality(wset[t]) \in Nat /\ Cardinality(wset[t]) <= OpBlocks
    BY <1>1, FS_CardinalityType, Zenon DEF WsetInv
  <2>2. MAXOPBLOCKS \in 1..MAXOPBLOCKS /\ MAXOPBLOCKS > Cardinality(wset[t])
    BY <2>1, Sizes
  <2> QED BY <1>2, <2>2, Zenon DEF Room
<1>6. Cardinality(Room) \in Nat /\ Cardinality(Room) # 0
  BY <1>1, <1>5, RoomFinite, FS_EmptySet, Zenon DEF RoomInv, Reserved
<1>7. Len(lh) < LOGBLOCKS
  BY <1>1, <1>6, HeaderFits, Sizes DEF RoomInv, Reserved
<1> QED BY <1>3, <1>4, <1>7

\* The control part of the invariant holds throughout.
THEOREM LogControl == Spec => []Control
<1>1. Init => Control
  <2> SUFFICES ASSUME Init PROVE Control
    OBVIOUS
  <2>1. TypeOK
    BY InitType, Zenon
  <2>2. Ops = {} /\ Room = {}
    BY Zenon DEF Init, Ops, Room
  <2>3. RoomInv
    BY <2>2, EmptyHead, FS_EmptySet, Sizes DEF Init, RoomInv, Reserved
  <2>4. WsetInv
    BY FS_EmptySet, Sizes DEF Init, WsetInv
  <2>5. PhaseInv /\ SomebodyWakes
    BY Zenon DEF Init, PhaseInv, Committing, Booted, SomebodyWakes
  <2>6. HeadInv
    BY EmptyHead DEF Init, HeadInv
  <2> QED BY <2>1, <2>3, <2>4, <2>5, <2>6, Counted, Zenon DEF Control
<1>2. Control /\ [Next]_vars => Control'
  <2> SUFFICES ASSUME Control, [Next]_vars PROVE Control'
    BY Zenon
  <2>0. TypeOK /\ RoomInv /\ CountInv /\ WsetInv /\ PhaseInv /\ HeadInv /\ SomebodyWakes
    BY Zenon DEF Control
  <2>1. RoomInv' /\ WsetInv' /\ SomebodyWakes'
    BY <2>0, NextRoom, NextWset, NextWakes, Zenon
  <2>2. ASSUME UNCHANGED vars PROVE TypeOK' /\ PhaseInv' /\ HeadInv'
    BY <2>0, <2>2, SMTT(30) DEF vars, TypeOK, PhaseInv, HeadInv, Ops, Booted, NoDup
  <2>3. ASSUME NEW t \in Threads, Operation(t) PROVE TypeOK' /\ PhaseInv' /\ HeadInv'
    BY <2>0, <2>3, OperationType, OperationPhase, OperationHead, Zenon DEF Operation
  <2>4. ASSUME CommitStep \/ RecoveryStep \/ Crash \/ CacheStep PROVE TypeOK' /\ PhaseInv' /\ HeadInv'
    BY <2>0, <2>4, SystemType, SystemPhase, SystemHead, Zenon DEF CacheStep
  <2>5. TypeOK' /\ PhaseInv' /\ HeadInv'
    BY <2>2, <2>3, <2>4, Zenon DEF Next, Operation, CacheStep
  <2> QED BY <2>1, <2>5, CountedNext, Zenon DEF Control
<1> QED BY <1>1, <1>2, PTL DEF Spec

\* log_write and end_op never panic and nobody sleeps unobserved in begin_op, for
\* every size of the log and any number of threads.
THEOREM LogIsConsistent == Spec => []LogConsistent
<1>1. Control => LogConsistent
  BY OpHasRoom, Zenon DEF Control, LogConsistent, NoPanic, RoomInv
<1> QED BY <1>1, LogControl, PTL

\* Log keeps the invariant: at every step of a commit and of a recovery, what is
\* not yet in one place is still in another.
THEOREM LogInv == Spec => []Inv
<1>1. Init => PinInv /\ CacheInv /\ CopyInv
  BY Zenon DEF Init, PinInv, CacheInv, CopyInv
<1>2. Control /\ PinInv /\ CacheInv /\ CopyInv /\ [Next]_vars => PinInv' /\ CacheInv' /\ CopyInv'
  <2> SUFFICES ASSUME Control, PinInv, CacheInv, CopyInv, [Next]_vars PROVE PinInv'
    BY NextCache, NextCopy, Zenon
  <2>1. CASE UNCHANGED vars
    BY <2>1, Zenon DEF vars, PinInv
  <2> QED BY <2>1, OperationPin, SystemPin, Zenon DEF Next, Operation, CacheStep
<1> QED BY <1>1, <1>2, LogControl, PTL DEF Spec, Inv

\* Operations are atomic across crashes.  The blocks written between begin_op and
\* end_op reach the disk all together, when write_head writes the header, and only
\* between operations; a crash anywhere, in commit or in recovery, leaves the state
\* before that point or the state after it.
THEOREM LogIsAtomic == Spec => Atomic
<1>1. Init => AD!Init
  <2> SUFFICES ASSUME Init PROVE AD!Init
    OBVIOUS
  <2>1. TypeOK
    BY InitType, Zenon
  <2>2. Durable = disk
    BY <2>1, DurableEmpty, Zenon DEF Init
  <2>3. Current = Durable /\ Ops = {}
    BY Zenon DEF Init, Current, Booted, Ops
  <2> QED BY <2>1, <2>2, <2>3, SMTT(30) DEF AD!Init, TypeOK, Ops
<1>2. Inv /\ Inv' /\ [Next]_vars => [AD!Next]_(AD!vars)
  <2> SUFFICES ASSUME Inv, Inv', [Next]_vars PROVE [AD!Next]_(AD!vars)
    BY Zenon
  <2>1. CASE UNCHANGED vars
    <3>1. UNCHANGED <<disk, logd, hd, cache, pc, cpc>>
      BY <2>1, Zenon DEF vars
    <3>2. UNCHANGED <<Durable, Current>>
      BY <3>1 DEF Durable, Current, Content, Booted
    <3> QED BY <3>1, <3>2, Zenon DEF AD!vars
  <2>2. ASSUME NEW t \in Threads, Operation(t) PROVE [AD!Next]_(AD!vars)
    BY <2>2, OperationAtomic, Zenon
  <2>3. CASE WriteHead
    BY <2>3, WriteHeadAtomic, Zenon DEF AD!Next
  <2>4. CASE CommitStep /\ ~WriteHead
    BY <2>4, CommitAtomic, Zenon
  <2>5. CASE RecoveryStep
    BY <2>5, RecoveryAtomic, Zenon
  <2>6. CASE CacheStep
    BY <2>6, CacheAtomic, Zenon
  <2>7. CASE Crash
    BY <2>7, CrashAtomic, Zenon DEF AD!Next
  <2> QED BY <2>1, <2>2, <2>3, <2>4, <2>5, <2>6, <2>7, SMTT(30) DEF Next, Operation, CacheStep
<1> QED BY <1>1, <1>2, LogInv, PTL DEF Spec, Atomic, AD!Spec
=============================================================================
