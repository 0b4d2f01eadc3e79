----------------------------- MODULE PipeProofs -----------------------------
(***************************************************************************)
(* Proofs about Pipe for every number of readers and writers, every size   *)
(* of the ring and every width of the counters: the ring stays in bounds,  *)
(* the page is freed once, and nobody sleeps on a pipe that is ready.      *)
(***************************************************************************)
EXTENDS PipeInvariant

-----------------------------------------------------------------------------
(* The ends and the page *)

\* A step that opens, closes and frees nothing.
Plain(p) ==
  /\ UNCHANGED <<holders, readopen, writeopen, freed>>
  /\ pc'[p] = "close" <=> pc[p] = "close"
  /\ pc'[p] = "free" <=> pc[p] = "free"
  /\ pc'[p] \in InCall => p \in holders

\* All steps but those of fileclose and pipeclose are plain.
LEMMA StepPlain ==
  ASSUME TypeOK, EndInv, NEW p \in Procs, StepOf(p)
  PROVE  Plain(p) \/ Close(p) \/ PipeClose(p) \/ PipeFree(p)
<1>0. pc[p] \in InCall => p \in holders
  BY DEF EndInv
<1> USE <1>0 DEF Plain, InCall, Inside, TypeOK, Goto, state
<1>1. CASE Call(p) \/ Lock(p)
  BY <1>1 DEF Call, Lock
<1>2. CASE Kill(p)
  BY <1>2 DEF Kill
<1>3. CASE WriteRefused(p) \/ ReadKilled(p) \/ WriteReturn(p) \/ ReadReturn(p)
  BY <1>3 DEF WriteRefused, ReadKilled, WriteReturn, ReadReturn, Return, Wake
<1>4. CASE WriteAllowed(p) \/ WriteByte(p) \/ WriteSleep(p)
  BY <1>4 DEF WriteAllowed, WriteByte, WriteSleep, Wake
<1>5. CASE ReadWait(p) \/ ReadReady(p) \/ ReadByte(p) \/ ReadSleep(p)
  BY <1>5 DEF ReadWait, ReadReady, ReadByte, ReadSleep
<1> QED BY <1>1, <1>2, <1>3, <1>4, <1>5 DEF StepOf, CallStep

\* An end stays open as long as somebody has it.
LEMMA NextEnd ==
  ASSUME TypeOK, LockInv, EndInv, NEW p \in Procs, StepOf(p)
  PROVE  EndInv'
<1>0. Others(p) /\ Readers \subseteq Procs /\ Writers \subseteq Procs
  BY StepForm DEF Procs
<1>1. CASE Plain(p) \/ PipeFree(p)
  <2>1. /\ UNCHANGED <<holders, readopen, writeopen>>
        /\ \A q \in Procs : /\ pc'[q] = "close" <=> pc[q] = "close"
                            /\ pc'[q] \in InCall => q \in holders
    BY <1>0, <1>1 DEF Plain, PipeFree, Goto, TypeOK, Others, EndInv, InCall, Inside, state
  <2> QED BY <2>1, <1>0 DEF EndInv, Keeps
<1>2. CASE Close(p)
  <2>1. /\ \A q \in Procs : q # p => pc'[q] = pc[q]
        /\ p \in holders /\ holders' = holders \ {p} /\ UNCHANGED <<readopen, writeopen>>
        /\ pc[p] = "user" /\ pc'[p] \in {"close", "user"}
        /\ pc'[p] = "close" <=> (IF p \in Writers THEN Writers ELSE Readers) \cap holders = {p}
    BY <1>2 DEF Close, Goto, TypeOK, state
  <2>2. \A q \in Procs : Keeps(q)' => Keeps(q)
    BY <2>1 DEF Keeps
  <2>3. \A q \in Procs : pc'[q] \in InCall => q \in holders'
    BY <2>1 DEF EndInv, InCall, Inside
  <2>4. \A q \in Procs : pc'[q] = "close" => q \notin holders'
    BY <2>1 DEF EndInv
  <2>5. ASSUME NEW q \in Readers, NEW r \in Readers, pc'[q] = "close", Keeps(r)' PROVE r = q
    BY <2>1, <2>2, <2>5, <1>0, PipeAssumption DEF EndInv, Keeps
  <2>6. ASSUME NEW q \in Writers, NEW r \in Writers, pc'[q] = "close", Keeps(r)' PROVE r = q
    BY <2>1, <2>2, <2>6, <1>0, PipeAssumption DEF EndInv, Keeps
  <2> QED BY <2>1, <2>2, <2>3, <2>4, <2>5, <2>6, <1>0 DEF EndInv
<1>3. CASE PipeClose(p)
  <2>1. /\ pc[p] = "close" /\ holders' = holders /\ pc'[p] \in {"user", "free"}
        /\ writeopen' = (writeopen /\ p \notin Writers)
        /\ readopen' = (readopen /\ p \notin Readers)
    BY <1>3 DEF PipeClose, Wake, TypeOK
  <2>2. \A q \in Procs : Keeps(q)' => Keeps(q) /\ q # p
    BY <2>1, <1>0 DEF Keeps, Others, EndInv
  <2>3. \A q \in Procs : /\ pc'[q] \in InCall => q \in holders'
                         /\ pc'[q] = "close" => pc[q] = "close"
    BY <2>1, <1>0 DEF Others, EndInv, InCall, Inside
  <2>4. \A q \in Readers : Keeps(q)' => readopen'
    BY <2>1, <2>2, <1>0 DEF EndInv
  <2>5. \A q \in Writers : Keeps(q)' => writeopen'
    BY <2>1, <2>2, <1>0 DEF EndInv
  <2> QED BY <2>1, <2>2, <2>3, <2>4, <2>5, <1>0 DEF EndInv
<1> QED BY <1>1, <1>2, <1>3, StepPlain

\* The page is freed once.
LEMMA NextFree ==
  ASSUME TypeOK, LockInv, EndInv, FreeInv, NEW p \in Procs, StepOf(p)
  PROVE  FreeInv'
<1>0. Others(p)
  BY StepForm
<1>1. CASE Plain(p) \/ Close(p)
  <2>1. /\ UNCHANGED <<freed, readopen, writeopen>>
        /\ \A q \in Procs : pc'[q] = "free" <=> pc[q] = "free"
    BY <1>0, <1>1 DEF Plain, Close, Goto, TypeOK, Others, state
  <2> QED BY <2>1 DEF FreeInv
<1>2. CASE PipeClose(p)
  <2>1. /\ pc[p] = "close" /\ freed' = freed
        /\ writeopen' = (writeopen /\ p \notin Writers)
        /\ readopen' = (readopen /\ p \notin Readers)
        /\ pc'[p] = IF writeopen' \/ readopen' THEN "user" ELSE "free"
    BY <1>2 DEF PipeClose, Wake, TypeOK
  <2>2. readopen \/ writeopen
    BY <2>1 DEF EndInv, Keeps, Procs
  <2>3. freed = 0 /\ \A q \in Procs : pc[q] # "free"
    BY <2>2 DEF FreeInv
  <2>4. \A q \in Procs : pc'[q] = "free" => q = p
    BY <2>3, <1>0 DEF Others
  <2> QED BY <2>1, <2>3, <2>4 DEF FreeInv
<1>3. CASE PipeFree(p)
  <2>1. /\ pc[p] = "free" /\ pc'[p] = "user" /\ freed' = freed + 1
        /\ UNCHANGED <<readopen, writeopen>>
    BY <1>3 DEF PipeFree, Goto, TypeOK, state
  <2>2. freed = 0 /\ ~readopen /\ ~writeopen
    BY <2>1 DEF FreeInv
  <2>3. \A q \in Procs : pc'[q] # "free"
    BY <2>1, <1>0 DEF Others, FreeInv
  <2> QED BY <2>1, <2>2, <2>3 DEF FreeInv
<1> QED BY <1>1, <1>2, <1>3, StepPlain

-----------------------------------------------------------------------------
(* The sleepers *)

\* A reader that stays asleep has nothing to read, or a writer will wake it.
LEMMA NextReader ==
  ASSUME TypeOK, LockInv, TestInv, EndInv, ReaderWoken, NEW p \in Procs, StepOf(p)
  PROVE  ReaderWoken'
<1> SUFFICES ASSUME \A q \in Writers : ~killed'[q], NEW r \in Readers, pc'[r] = "asleep"
             PROVE  lock' \in Writers \/ (Empty /\ writeopen)'
  BY DEF ReaderWoken
<1>0. /\ r \in Procs /\ r \notin Writers /\ (p \in Writers <=> p \notin Readers)
      /\ Nobody \notin Writers /\ (pc[p] \in Inside <=> lock = p) /\ Test(p) /\ Others(p)
  BY StepForm, PipeAssumption DEF Procs, LockInv, TestInv
<1>1. \A q \in Writers : ~killed[q]
  <2>1. CASE Kill(p)
    BY <2>1 DEF Kill, TypeOK, Procs
  <2>2. CASE ~Kill(p)
    BY <2>2 DEF StepOf, CallStep, Call, Close, Lock, WriteRefused, WriteAllowed, WriteSleep, WriteByte,
                WriteReturn, ReadKilled, ReadWait, ReadSleep, ReadReady, ReadByte, ReadReturn,
                PipeClose, PipeFree
  <2> QED BY <2>1, <2>2
<1>2. CASE ReadSleep(p)
  BY <1>0, <1>2 DEF ReadSleep, Test, Empty, state
<1>3. CASE ~ReadSleep(p)
  <2>1. r # p
    BY <1>0, <1>3 DEF StepOf, CallStep, Call, Close, Kill, Lock, WriteRefused, WriteAllowed, WriteSleep,
                WriteByte, WriteReturn, ReadKilled, ReadWait, ReadReady, ReadByte, ReadReturn,
                PipeClose, PipeFree, Goto, TypeOK, Wake, Test
  <2>2. pc[r] = "asleep" /\ (lock \in Writers \/ (Empty /\ writeopen)) /\ readopen
    BY <2>1, <1>0, <1>1 DEF Others, ReaderWoken, EndInv, InCall, Keeps
  <2>3. CASE Call(p) \/ Close(p) \/ PipeFree(p) \/ Kill(p) \/ Lock(p)
    BY <2>2, <2>3, <1>0 DEF Call, Close, PipeFree, Kill, Lock, Empty, state
  <2>4. CASE WriteRefused(p)
    BY <2>2, <2>4, <1>0, <1>1 DEF WriteRefused, Test
  <2>5. CASE WriteAllowed(p) \/ WriteByte(p)
    BY <2>5, <1>0 DEF WriteAllowed, WriteByte, Test, Inside
  <2>6. CASE WriteSleep(p) \/ WriteReturn(p)
    BY <2>1, <2>2, <2>6, <1>0 DEF WriteSleep, WriteReturn, Wake, TypeOK
  <2>7. CASE ReadKilled(p) \/ ReadWait(p) \/ ReadReady(p) \/ ReadReturn(p)
    BY <2>2, <2>7, <1>0 DEF ReadKilled, ReadWait, ReadReady, ReadReturn, Test, Inside, Empty, state
  <2>8. CASE ReadByte(p)
    BY <2>2, <2>8, <1>0 DEF ReadByte, Test, Inside
  <2>9. CASE PipeClose(p)
    BY <2>1, <2>2, <2>9, <1>0 DEF PipeClose, Wake, TypeOK, Empty
  <2> QED BY <2>3, <2>4, <2>5, <2>6, <2>7, <2>8, <2>9, <1>3 DEF StepOf, CallStep
<1> QED BY <1>2, <1>3

\* A writer that stays asleep has no room, or a reader will wake it.
LEMMA NextWriter ==
  ASSUME TypeOK, LockInv, TestInv, WriterInv, NEW p \in Procs, StepOf(p)
  PROVE  WriterInv'
<1> SUFFICES ASSUME NEW w \in Writers, pc'[w] = "asleep"
             PROVE  (\E q \in Readers : pc'[q] = "read_byte") \/ (Full /\ readopen)'
  BY DEF WriterInv
<1>0. /\ w \in Procs /\ w \notin Readers /\ (p \in Writers <=> p \notin Readers)
      /\ (pc[p] \in Inside <=> lock = p) /\ Test(p) /\ Others(p) /\ Readers \subseteq Procs
  BY StepForm, PipeAssumption DEF Procs, LockInv, TestInv
<1>1. CASE WriteSleep(p)
  BY <1>0, <1>1 DEF WriteSleep, Test, Full, state
<1>2. CASE ~WriteSleep(p)
  <2>1. w # p
    BY <1>0, <1>2 DEF StepOf, CallStep, Call, Close, Kill, Lock, WriteRefused, WriteAllowed, ReadSleep,
                WriteByte, WriteReturn, ReadKilled, ReadWait, ReadReady, ReadByte, ReadReturn,
                PipeClose, PipeFree, Goto, TypeOK, Wake, Test
  <2>2. pc[w] = "asleep"
    BY <2>1, <1>0 DEF Others
  <2>3. CASE ReadReturn(p)
    BY <2>1, <2>2, <2>3, <1>0 DEF ReadReturn, Wake, TypeOK
  <2>4. CASE ReadByte(p)
    BY <2>4, <1>0 DEF ReadByte, Test
  <2>5. CASE PipeClose(p) /\ p \in Readers
    BY <2>1, <2>2, <2>5, <1>0 DEF PipeClose, Wake, TypeOK
  <2>6. CASE ~ReadReturn(p) /\ ~ReadByte(p) /\ ~(PipeClose(p) /\ p \in Readers)
    <3>1. ASSUME NEW q \in Readers, pc[q] = "read_byte" PROVE pc'[q] = "read_byte"
      <4>1. CASE q = p
        BY <4>1, <3>1, <2>6, <1>2 DEF StepOf, CallStep, Call, Close, Kill, Lock, WriteRefused, WriteAllowed,
             ReadSleep, WriteByte, WriteReturn, ReadKilled, ReadWait, ReadReady, PipeClose, PipeFree,
             Goto, TypeOK
      <4>2. CASE q # p
        BY <4>2, <3>1, <1>0 DEF Others
      <4> QED BY <4>1, <4>2
    <3>2. ASSUME Full, readopen PROVE Full' /\ readopen'
      BY <3>2, <2>6, <1>0, <1>2 DEF StepOf, CallStep, Call, Close, Kill, Lock, WriteRefused, WriteAllowed,
           ReadSleep, WriteByte, WriteReturn, ReadKilled, ReadWait, ReadReady, PipeClose, PipeFree,
           Full, state
    <3> QED BY <3>1, <3>2, <2>2 DEF WriterInv
  <2> QED BY <2>3, <2>4, <2>5, <2>6
<1> QED BY <1>1, <1>2

-----------------------------------------------------------------------------
(* The theorems *)

\* Pipe keeps the invariant, for every number of readers and writers and every
\* size of ring and counters.
THEOREM PipeInv == Spec => []Inv
<1>1. Init => Inv
  <2> SUFFICES ASSUME Init PROVE Inv
    OBVIOUS
  <2>1. TypeOK
    BY InitType
  <2>2. LockInv /\ TestInv /\ EndInv /\ FreeInv /\ ReaderWoken /\ WriterInv
    BY PipeAssumption DEF Init, LockInv, TestInv, Test, EndInv, FreeInv, ReaderWoken, WriterInv,
       Inside, InCall, Keeps, Procs
  <2> QED BY <2>1, <2>2 DEF Inv
<1>2. Inv /\ [Next]_vars => Inv'
  <2> SUFFICES ASSUME Inv, [Next]_vars PROVE Inv'
    OBVIOUS
  <2>1. TypeOK'
    BY NextType DEF Inv
  <2>2. CASE UNCHANGED vars
    BY <2>1, <2>2 DEF Inv, vars, state, LockInv, TestInv, Test, EndInv, FreeInv, ReaderWoken, WriterInv,
       Keeps, Empty, Full
  <2>3. ASSUME NEW p \in Procs, StepOf(p) PROVE Inv'
    BY <2>1, <2>3, NextLock, NextTest, NextEnd, NextFree, NextReader, NextWriter DEF Inv
  <2> QED BY <2>2, <2>3 DEF Next, StepOf
<1> QED BY <1>1, <1>2, PTL DEF Spec

\* No lost wakeup: nobody sleeps in piperead or pipewrite on a pipe that is ready
\* for it.
THEOREM PipeSleepersWoken == Spec => []SleepersWoken
<1>1. Inv => SleepersWoken
  BY PipeAssumption DEF Inv, SleepersWoken, WriterWoken, WriterInv, LockInv, Inside, Procs
<1> QED BY <1>1, PipeInv, PTL

\* The ring stays within PIPESIZE bytes across the wrap of the counters, and
\* pipeclose frees the page once, when nobody can reach it.
THEOREM PipeIsSound == Spec => []PipeSound
<1>1. Inv => PipeSound
  <2> SUFFICES ASSUME Inv, freed = 1
               PROVE  holders = {} /\ lock = Nobody /\ \A p \in Procs : pc[p] = "user"
    BY DEF Inv, PipeSound, FreedOnce, FreeInv
  <2>1. ~readopen /\ ~writeopen /\ \A p \in Procs : pc[p] # "free"
    BY DEF Inv, FreeInv
  <2>2. \A p \in Procs : ~Keeps(p)
    BY <2>1 DEF Inv, EndInv, Procs
  <2>3. \A p \in Procs : pc[p] \notin InCall
    BY <2>2 DEF Inv, EndInv, Keeps
  <2>4. holders = {} /\ lock = Nobody
    BY <2>2, <2>3 DEF Inv, TypeOK, Keeps, LockInv, InCall
  <2> QED BY <2>1, <2>2, <2>3, <2>4 DEF Inv, TypeOK, Keeps, InCall, Inside
<1> QED BY <1>1, PipeInv, PTL
=============================================================================
