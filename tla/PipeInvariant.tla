--------------------------- MODULE PipeInvariant ----------------------------
(***************************************************************************)
(* The inductive invariant of Pipe, and the part of it that says where the *)
(* processes are: types, the bound of the ring, the lock and the tests     *)
(* made under it.                                                          *)
(***************************************************************************)
EXTENDS Pipe, TLAPS

\* The places inside a call where the lock is held.
Inside == {"write", "write_byte", "read", "read_sleep", "read_byte"}

\* The places where a call is in progress.
InCall == Inside \cup {"lock", "asleep", "woken"}

\* The lock is held by the process that is inside, if any.
LockInv == \A p \in Procs : pc[p] \in Inside <=> lock = p

\* What a process inside knows from its last test.
Test(p) ==
  /\ pc[p] \in {"write", "write_byte"} => p \in Writers
  /\ pc[p] \in {"read", "read_sleep", "read_byte"} => p \in Readers
  /\ pc[p] = "write_byte" => readopen /\ i[p] < n[p]
  /\ pc[p] = "read_sleep" => Empty /\ writeopen

TestInv == \A p \in Procs : Test(p)

\* p has a descriptor, or is about to close its end.
Keeps(p) == p \in holders \/ pc[p] = "close"

\* An end is open while one of its processes has it, and one process closes it.
EndInv ==
  /\ \A p \in Procs : pc[p] \in InCall => p \in holders
  /\ \A p \in Procs : pc[p] = "close" => p \notin holders
  /\ \A p \in Readers : Keeps(p) => readopen
  /\ \A p \in Writers : Keeps(p) => writeopen
  /\ \A p, q \in Readers : pc[p] = "close" /\ Keeps(q) => q = p
  /\ \A p, q \in Writers : pc[p] = "close" /\ Keeps(q) => q = p

\* The page is freed by one process, after both ends are closed.
FreeInv ==
  /\ freed \in {0, 1}
  /\ freed = 1 => ~readopen /\ ~writeopen
  /\ \A p \in Procs : pc[p] = "free" => ~readopen /\ ~writeopen /\ freed = 0
  /\ \A p, q \in Procs : pc[p] = "free" /\ pc[q] = "free" => q = p

\* A writer asleep: a reader has begun to take bytes and will wake it, or the
\* condition it waits for has not come.
WriterInv ==
  \A p \in Writers :
    pc[p] = "asleep" => (\E q \in Readers : pc[q] = "read_byte") \/ (Full /\ readopen)

Inv == TypeOK /\ LockInv /\ TestInv /\ EndInv /\ FreeInv /\ ReaderWoken /\ WriterInv

-----------------------------------------------------------------------------
(* Counters *)

\* The sizes, without the remainder.
LEMMA Sizes == PIPESIZE \in Nat /\ Width \in Nat /\ 0 < PIPESIZE /\ PIPESIZE < Width
  BY PipeAssumption

\* A number below twice Width is reduced by one subtraction at most.
LEMMA ModTwice ==
  ASSUME NEW a \in Nat, a < Width + Width
  PROVE  a % Width = IF a < Width THEN a ELSE a - Width
  BY Sizes

\* The bytes in the ring, without a remainder.
LEMMA CountIs ==
  ASSUME NEW a \in 0..(Width - 1), NEW b \in 0..(Width - 1)
  PROVE  (b + Width - a) % Width = IF a <= b THEN b - a ELSE b + Width - a
<1> DEFINE x == b + Width - a
<1>1. x \in Nat /\ x < Width + Width /\ (x < Width <=> b < a) /\ x - Width = b - a
  BY Sizes
<1> HIDE DEF x
<1>2. x % Width = IF x < Width THEN x ELSE x - Width
  BY <1>1, ModTwice
<1>3. x % Width = IF a <= b THEN b - a ELSE x
  BY <1>1, <1>2, Sizes
<1> QED BY <1>3 DEF x

\* The counter of the writer when the ring is full.
LEMMA FullIs ==
  ASSUME NEW a \in 0..(Width - 1)
  PROVE  (a + PIPESIZE) % Width = IF a + PIPESIZE < Width THEN a + PIPESIZE ELSE a + PIPESIZE - Width
<1> DEFINE x == a + PIPESIZE
<1>1. x \in Nat /\ x < Width + Width
  BY Sizes
<1> HIDE DEF x
<1>2. x % Width = IF x < Width THEN x ELSE x - Width
  BY <1>1, ModTwice
<1>3. CASE x < Width
  BY <1>1, <1>2, <1>3, Sizes DEF x
<1>4. CASE ~(x < Width)
  BY <1>1, <1>2, <1>4, Sizes DEF x
<1> QED BY <1>3, <1>4

\* The next value of a counter.
LEMMA NextIs ==
  ASSUME NEW a \in 0..(Width - 1)
  PROVE  (a + 1) % Width = IF a + 1 < Width THEN a + 1 ELSE 0
<1> DEFINE x == a + 1
<1>1. x \in Nat /\ x < Width + Width /\ x <= Width
  BY Sizes
<1> HIDE DEF x
<1>2. x % Width = IF x < Width THEN x ELSE x - Width
  BY <1>1, ModTwice
<1>3. x % Width = IF x < Width THEN x ELSE 0
  BY <1>1, <1>2, Sizes
<1> QED BY <1>3 DEF x

\* The number of bytes between two values of the counters.
Count(a, b) == (b + Width - a) % Width

\* A writer that finds room keeps the bound.
LEMMA WriteBound ==
  ASSUME NEW a \in 0..(Width - 1), NEW b \in 0..(Width - 1),
         Count(a, b) \in 0..PIPESIZE, b # (a + PIPESIZE) % Width
  PROVE  (b + 1) % Width \in 0..(Width - 1) /\ Count(a, (b + 1) % Width) \in 0..PIPESIZE
<1> DEFINE c == (b + 1) % Width
<1>1. c = IF b + 1 < Width THEN b + 1 ELSE 0
  BY NextIs
<1>2. Count(a, b) = IF a <= b THEN b - a ELSE b + Width - a
  BY CountIs DEF Count
<1>3. b # IF a + PIPESIZE < Width THEN a + PIPESIZE ELSE a + PIPESIZE - Width
  BY FullIs
<1> HIDE DEF c
<1>4. c \in 0..(Width - 1)
  BY <1>1, Sizes
<1>5. Count(a, c) = IF a <= c THEN c - a ELSE c + Width - a
  BY <1>4, CountIs DEF Count
<1>6. Count(a, c) \in 0..PIPESIZE
  BY <1>1, <1>2, <1>3, <1>4, <1>5, Sizes
<1> QED BY <1>4, <1>6 DEF c

\* So does a reader that finds a byte.
LEMMA ReadBound ==
  ASSUME NEW a \in 0..(Width - 1), NEW b \in 0..(Width - 1),
         Count(a, b) \in 0..PIPESIZE, a # b
  PROVE  (a + 1) % Width \in 0..(Width - 1) /\ Count((a + 1) % Width, b) \in 0..PIPESIZE
<1> DEFINE c == (a + 1) % Width
<1>1. c = IF a + 1 < Width THEN a + 1 ELSE 0
  BY NextIs
<1>2. Count(a, b) = IF a <= b THEN b - a ELSE b + Width - a
  BY CountIs DEF Count
<1> HIDE DEF c
<1>4. c \in 0..(Width - 1)
  BY <1>1, Sizes
<1>5. Count(c, b) = IF c <= b THEN b - c ELSE b + Width - c
  BY <1>4, CountIs DEF Count
<1>6. Count(c, b) \in 0..PIPESIZE
  BY <1>1, <1>2, <1>4, <1>5, Sizes
<1> QED BY <1>4, <1>6 DEF c

-----------------------------------------------------------------------------
(* The types *)

\* The initial state has the types.
LEMMA InitType == Init => TypeOK
<1> SUFFICES ASSUME Init PROVE TypeOK
  OBVIOUS
<1>1. (CHOOSE v \in Vals : TRUE) \in Vals
  BY PipeAssumption
<1>2. 0 \in 0..(Width - 1) /\ (0 + Width - 0) % Width \in 0..PIPESIZE
  BY CountIs, Sizes
<1>3. 0 \in 0..MaxN
  BY PipeAssumption
<1> QED BY <1>1, <1>2, <1>3 DEF Init, TypeOK

\* wake leaves a process where it is or makes it go on.
LEMMA WakeType ==
  ASSUME TypeOK, NEW S
  PROVE  Wake(S, pc) \in [Procs -> {"user", "lock", "write", "write_byte", "read", "read_sleep",
                                    "read_byte", "asleep", "woken", "close", "free"}]
  BY DEF Wake, TypeOK

\* A return resets the locals.
LEMMA ReturnType ==
  ASSUME TypeOK, NEW p \in Procs, Return(p)
  PROVE  /\ lock' \in Procs \cup {Nobody}
         /\ n' \in [Procs -> 0..MaxN] /\ i' \in [Procs -> 0..MaxN]
  BY PipeAssumption DEF Return, TypeOK

\* Every step keeps the types.
LEMMA NextType == TypeOK /\ TestInv /\ [Next]_vars => TypeOK'
<1> SUFFICES ASSUME TypeOK, TestInv, [Next]_vars PROVE TypeOK'
  OBVIOUS
<1> USE DEF TypeOK
<1>1. CASE UNCHANGED vars
  BY <1>1 DEF vars, state
<1>2. ASSUME NEW p \in Procs, Call(p) PROVE TypeOK'
  BY <1>2, PipeAssumption DEF Call, Goto, state
<1>3. ASSUME NEW p \in Procs, Lock(p) PROVE TypeOK'
  BY <1>3 DEF Lock, Goto, state
<1>4. ASSUME NEW p \in Procs, WriteRefused(p) \/ ReadKilled(p) PROVE TypeOK'
  BY <1>4, ReturnType DEF WriteRefused, ReadKilled, Goto, state
<1>5. ASSUME NEW p \in Procs, WriteAllowed(p) \/ ReadWait(p) \/ ReadReady(p) PROVE TypeOK'
  BY <1>5 DEF WriteAllowed, ReadWait, ReadReady, Goto, state
<1>6. ASSUME NEW p \in Procs, WriteSleep(p) PROVE TypeOK'
  BY <1>6, WakeType DEF WriteSleep, state
<1>7. ASSUME NEW p \in Procs, WriteByte(p) PROVE TypeOK'
  <2>1. nwrite' \in 0..(Width - 1) /\ (nwrite' + Width - nread') % Width \in 0..PIPESIZE
    BY <1>7, WriteBound DEF WriteByte, Full, Count
  <2>2. i' \in [Procs -> 0..MaxN]
    BY <1>7, PipeAssumption DEF WriteByte, TestInv, Test
  <2> QED BY <1>7, <2>1, <2>2 DEF WriteByte, Goto
<1>8. ASSUME NEW p \in Procs, WriteReturn(p) \/ ReadReturn(p) PROVE TypeOK'
  <2>1. CASE WriteReturn(p)
    BY <2>1, WakeType, ReturnType DEF WriteReturn, state
  <2>2. CASE ReadReturn(p)
    BY <2>2, WakeType, ReturnType DEF ReadReturn, state
  <2> QED BY <1>8, <2>1, <2>2
<1>9. ASSUME NEW p \in Procs, ReadSleep(p) PROVE TypeOK'
  BY <1>9 DEF ReadSleep, Goto, state
<1>10. ASSUME NEW p \in Procs, ReadByte(p) PROVE TypeOK'
  <2>1. nread' \in 0..(Width - 1) /\ (nwrite' + Width - nread') % Width \in 0..PIPESIZE
    BY <1>10, ReadBound DEF ReadByte, Empty, Count
  <2>2. i' \in [Procs -> 0..MaxN]
    BY <1>10, PipeAssumption DEF ReadByte
  <2>3. data[nread % PIPESIZE] \in Vals
    BY PipeAssumption
  <2> QED BY <1>10, <2>1, <2>2, <2>3 DEF ReadByte
<1>11. ASSUME NEW p \in Procs, Close(p) PROVE TypeOK'
  BY <1>11 DEF Close, Goto, state
<1>12. ASSUME NEW p \in Procs, PipeClose(p) PROVE TypeOK'
  BY <1>12, WakeType DEF PipeClose
<1>13. ASSUME NEW p \in Procs, PipeFree(p) PROVE TypeOK'
  BY <1>13 DEF PipeFree, Goto, state
<1>14. ASSUME NEW p \in Procs, Kill(p) PROVE TypeOK'
  BY <1>14 DEF Kill, Goto, state
<1> QED
  BY <1>1, <1>2, <1>3, <1>4, <1>5, <1>6, <1>7, <1>8, <1>9, <1>10, <1>11, <1>12, <1>13, <1>14
  DEF Next, CallStep

-----------------------------------------------------------------------------
(* What all steps have in common *)

\* One step of p.
StepOf(p) == Call(p) \/ CallStep(p) \/ Close(p) \/ Kill(p)

\* The others stay where they are or are woken.
Others(p) ==
  \A q \in Procs \ {p} : pc'[q] = pc[q] \/ (pc[q] = "asleep" /\ pc'[q] = "woken")

\* The lock goes from nobody to p and back.
LockStep(p) ==
  /\ lock' = p <=> pc'[p] \in Inside
  /\ lock' = lock \/ {lock, lock'} \subseteq {p, Nobody}

\* Every step is of this form.
LEMMA StepForm ==
  ASSUME TypeOK, LockInv, NEW p \in Procs, StepOf(p)
  PROVE  Others(p) /\ LockStep(p)
<1>0. p # Nobody /\ (pc[p] \in Inside <=> lock = p)
  BY PipeAssumption DEF LockInv
<1> USE <1>0 DEF Others, LockStep, Inside, Goto, TypeOK
<1>1. CASE Call(p) \/ Close(p) \/ PipeFree(p)
  BY <1>1 DEF Call, Close, PipeFree
<1>2. CASE Kill(p)
  BY <1>2 DEF Kill
<1>3. CASE Lock(p)
  BY <1>3 DEF Lock
<1>4. CASE WriteRefused(p) \/ ReadKilled(p)
  BY <1>4 DEF WriteRefused, ReadKilled, Return
<1>5. CASE WriteAllowed(p) \/ ReadWait(p) \/ ReadReady(p) \/ WriteByte(p) \/ ReadByte(p)
  BY <1>5 DEF WriteAllowed, ReadWait, ReadReady, WriteByte, ReadByte
<1>6. CASE WriteSleep(p)
  BY <1>6 DEF WriteSleep, Wake
<1>7. CASE WriteReturn(p)
  BY <1>7 DEF WriteReturn, Return, Wake
<1>8. CASE ReadReturn(p)
  BY <1>8 DEF ReadReturn, Return, Wake
<1>9. CASE ReadSleep(p)
  BY <1>9 DEF ReadSleep
<1>10. CASE PipeClose(p)
  BY <1>10 DEF PipeClose, Wake
<1> QED BY <1>1, <1>2, <1>3, <1>4, <1>5, <1>6, <1>7, <1>8, <1>9, <1>10 DEF StepOf, CallStep

\* The lock invariant is kept.
LEMMA NextLock ==
  ASSUME TypeOK, LockInv, NEW p \in Procs, StepOf(p)
  PROVE  LockInv'
<1>1. Others(p) /\ LockStep(p)
  BY StepForm
<1> SUFFICES ASSUME NEW q \in Procs, q # p PROVE pc'[q] \in Inside <=> lock' = q
  BY <1>1 DEF LockInv, LockStep
<1>2. pc'[q] \in Inside <=> pc[q] \in Inside
  BY <1>1 DEF Others, Inside
<1>3. lock' = q <=> lock = q
  BY <1>1, PipeAssumption DEF LockStep
<1> QED BY <1>2, <1>3 DEF LockInv

\* The locals of the others are theirs, and the pipe changes under its lock.
Locked(p) ==
  /\ \A q \in Procs \ {p} : n'[q] = n[q] /\ i'[q] = i[q]
  /\ lock \in {p, Nobody} \/ UNCHANGED <<nread, nwrite, readopen, writeopen>>

\* Every step keeps to the lock.
LEMMA StepLocked ==
  ASSUME TypeOK, LockInv, NEW p \in Procs, StepOf(p)
  PROVE  Locked(p)
<1>0. pc[p] \in Inside <=> lock = p
  BY DEF LockInv
<1> USE <1>0 DEF Locked, Inside, TypeOK, state
<1>1. CASE Call(p) \/ Close(p) \/ PipeFree(p) \/ Kill(p)
  BY <1>1 DEF Call, Close, PipeFree, Kill
<1>2. CASE Lock(p) \/ WriteAllowed(p) \/ ReadWait(p) \/ ReadReady(p) \/ WriteSleep(p) \/ ReadSleep(p)
  BY <1>2 DEF Lock, WriteAllowed, ReadWait, ReadReady, WriteSleep, ReadSleep
<1>3. CASE WriteRefused(p) \/ ReadKilled(p) \/ WriteReturn(p) \/ ReadReturn(p)
  BY <1>3 DEF WriteRefused, ReadKilled, WriteReturn, ReadReturn, Return
<1>4. CASE WriteByte(p) \/ ReadByte(p)
  BY <1>4 DEF WriteByte, ReadByte
<1>5. CASE PipeClose(p)
  BY <1>5 DEF PipeClose
<1> QED BY <1>1, <1>2, <1>3, <1>4, <1>5 DEF StepOf, CallStep

\* What a process knows from its test stays true.
LEMMA NextTest ==
  ASSUME TypeOK, LockInv, TestInv, NEW p \in Procs, StepOf(p)
  PROVE  TestInv'
<1>1. ASSUME NEW q \in Procs, q # p PROVE Test(q)'
  <2>1. Others(p) /\ Locked(p)
    BY StepForm, StepLocked
  <2> SUFFICES ASSUME pc'[q] \in Inside PROVE Test(q)'
    BY DEF Test, Inside
  <2>2. pc'[q] = pc[q] /\ lock = q /\ n'[q] = n[q] /\ i'[q] = i[q]
    BY <1>1, <2>1 DEF Others, Inside, LockInv, Locked
  <2>3. UNCHANGED <<nread, nwrite, readopen, writeopen>>
    BY <1>1, <2>1, <2>2, PipeAssumption DEF Locked
  <2> QED BY <2>2, <2>3 DEF TestInv, Test, Empty
<1>2. Test(p)'
  <2>0. Test(p) /\ (p \in Writers <=> p \notin Readers)
    BY PipeAssumption DEF TestInv, Procs
  <2> USE <2>0 DEF Test, TypeOK, Goto, state
  <2>1. CASE Call(p) \/ Close(p) \/ PipeFree(p)
    BY <2>1 DEF Call, Close, PipeFree
  <2>2. CASE Kill(p)
    BY <2>2 DEF Kill, Empty
  <2>3. CASE Lock(p)
    BY <2>3 DEF Lock
  <2>4. CASE WriteRefused(p) \/ ReadKilled(p) \/ WriteReturn(p) \/ ReadReturn(p)
    BY <2>4 DEF WriteRefused, ReadKilled, WriteReturn, ReadReturn, Return, Wake
  <2>5. CASE WriteAllowed(p) \/ WriteByte(p) \/ WriteSleep(p)
    BY <2>5 DEF WriteAllowed, WriteByte, WriteSleep, Wake
  <2>6. CASE ReadWait(p) \/ ReadReady(p) \/ ReadByte(p) \/ ReadSleep(p)
    BY <2>6 DEF ReadWait, ReadReady, ReadByte, ReadSleep, Empty
  <2>7. CASE PipeClose(p)
    BY <2>7 DEF PipeClose, Wake
  <2> QED BY <2>1, <2>2, <2>3, <2>4, <2>5, <2>6, <2>7 DEF StepOf, CallStep
<1> QED BY <1>1, <1>2 DEF TestInv
=============================================================================
