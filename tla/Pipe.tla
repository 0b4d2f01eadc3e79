-------------------------------- MODULE Pipe --------------------------------
(***************************************************************************)
(* A pipe of kernel/rust_pipe.rs with several processes at each end.       *)
(*                                                                         *)
(* The pipe's lock is held over a whole call, up to the places where it    *)
(* sleeps; a byte is one step, so that a kill may come between two bytes.  *)
(* nread and nwrite are counters modulo 2^w.                               *)
(***************************************************************************)
EXTENDS Naturals, Sequences, FiniteSets

CONSTANTS
  Readers,      \* processes with the read end
  Writers,      \* processes with the write end
  Killable,     \* those of them that are killed by kkill
  PIPESIZE,     \* bytes of the buffer; divides Width
  Width,        \* 2^32 in the code: the counters wrap there
  MaxN,         \* bound: the longest read or write
  Vals,         \* bytes
  Nobody        \* a free lock

Procs == Readers \cup Writers

ASSUME PipeAssumption ==
  /\ PIPESIZE \in Nat \ {0} /\ Width \in Nat /\ MaxN \in Nat /\ Vals # {}
  /\ PIPESIZE < Width /\ Width % PIPESIZE = 0
  /\ Readers \cap Writers = {} /\ Killable \subseteq Procs /\ Nobody \notin Procs

VARIABLES
  data, nread, nwrite, readopen, writeopen,     \* PipeState
  lock,       \* holder of the pipe's lock
  holders,    \* the processes with an open descriptor of the pipe
  killed,     \* Proc.killed
  pc,         \* where each process is
  n, i,       \* arguments and indices of piperead and pipewrite
  got,        \* the byte each reader copied out last
  freed       \* how often the page was given to kfree

state == <<data, nread, nwrite, readopen, writeopen>>
vars == <<state, lock, holders, killed, pc, n, i, got, freed>>

Init ==
  /\ data = [k \in 0..(PIPESIZE - 1) |-> CHOOSE v \in Vals : TRUE]
  /\ nread = 0 /\ nwrite = 0
  /\ readopen = TRUE /\ writeopen = TRUE
  /\ lock = Nobody
  /\ holders = Procs
  /\ killed = [p \in Procs |-> FALSE]
  /\ pc = [p \in Procs |-> "user"]
  /\ n = [p \in Procs |-> 0] /\ i = [p \in Procs |-> 0]
  /\ got = [p \in Procs |-> CHOOSE v \in Vals : TRUE]
  /\ freed = 0

Goto(p, label) == pc' = [pc EXCEPT ![p] = label]

\* wake(chan): the processes of S asleep in the pipe.
Wake(S, f) == [p \in Procs |-> IF p \in S /\ f[p] = "asleep" THEN "woken" ELSE f[p]]

\* A call returns: the guard is dropped.
Return(p) ==
  /\ lock' = Nobody
  /\ n' = [n EXCEPT ![p] = 0] /\ i' = [i EXCEPT ![p] = 0]

Empty == nread = nwrite
Full == nwrite = (nread + PIPESIZE) % Width

-----------------------------------------------------------------------------
\* A process with a descriptor calls read or write.
Call(p) ==
  /\ pc[p] = "user" /\ p \in holders /\ ~killed[p]
  /\ \E m \in 1..MaxN : n' = [n EXCEPT ![p] = m]
  /\ Goto(p, "lock")
  /\ UNCHANGED <<state, lock, holders, killed, i, got, freed>>

\* pipe.lock(), and the end of sleep.
Lock(p) ==
  /\ pc[p] \in {"lock", "woken"} /\ lock = Nobody
  /\ lock' = p
  /\ Goto(p, IF p \in Writers THEN "write" ELSE "read")
  /\ UNCHANGED <<state, holders, killed, n, i, got, freed>>

\* pipewrite: one turn of the loop.
WriteRefused(p) ==
  /\ pc[p] = "write" /\ i[p] < n[p]
  /\ ~readopen \/ killed[p]
  /\ Return(p) /\ Goto(p, "user")
  /\ UNCHANGED <<state, holders, killed, got, freed>>

WriteAllowed(p) ==
  /\ pc[p] = "write" /\ i[p] < n[p]
  /\ readopen /\ ~killed[p]
  /\ Goto(p, "write_byte")
  /\ UNCHANGED <<state, lock, holders, killed, n, i, got, freed>>

WriteSleep(p) ==
  /\ pc[p] = "write_byte" /\ Full
  /\ pc' = [Wake(Readers, pc) EXCEPT ![p] = "asleep"]
  /\ lock' = Nobody
  /\ UNCHANGED <<state, holders, killed, n, i, got, freed>>

WriteByte(p) ==
  /\ pc[p] = "write_byte" /\ ~Full
  /\ \E v \in Vals : data' = [data EXCEPT ![nwrite % PIPESIZE] = v]
  /\ nwrite' = (nwrite + 1) % Width
  /\ i' = [i EXCEPT ![p] = @ + 1]
  /\ Goto(p, "write")
  /\ UNCHANGED <<nread, readopen, writeopen, lock, holders, killed, n, got, freed>>

\* All is written, or copyin fails.
WriteReturn(p) ==
  /\ \/ pc[p] = "write" /\ i[p] = n[p]
     \/ pc[p] = "write_byte" /\ ~Full
  /\ Return(p)
  /\ pc' = [Wake(Readers, pc) EXCEPT ![p] = "user"]
  /\ UNCHANGED <<state, holders, killed, got, freed>>

-----------------------------------------------------------------------------
\* piperead: the wait for a byte.
ReadKilled(p) ==
  /\ pc[p] = "read" /\ Empty /\ writeopen
  /\ killed[p]
  /\ Return(p) /\ Goto(p, "user")
  /\ UNCHANGED <<state, holders, killed, got, freed>>

ReadWait(p) ==
  /\ pc[p] = "read" /\ Empty /\ writeopen
  /\ ~killed[p]
  /\ Goto(p, "read_sleep")
  /\ UNCHANGED <<state, lock, holders, killed, n, i, got, freed>>

ReadSleep(p) ==
  /\ pc[p] = "read_sleep"
  /\ Goto(p, "asleep")
  /\ lock' = Nobody
  /\ UNCHANGED <<state, holders, killed, n, i, got, freed>>

ReadReady(p) ==
  /\ pc[p] = "read" /\ (~Empty \/ ~writeopen)
  /\ Goto(p, "read_byte")
  /\ UNCHANGED <<state, lock, holders, killed, n, i, got, freed>>

\* Mutant: the byte is read where the writer writes.
ReadByte_WrongIndex(p) ==
  /\ pc[p] = "read_byte" /\ i[p] < n[p] /\ ~Empty
  /\ got' = [got EXCEPT ![p] = data[nwrite % PIPESIZE]]
  /\ nread' = (nread + 1) % Width
  /\ i' = [i EXCEPT ![p] = @ + 1]
  /\ UNCHANGED <<data, nwrite, readopen, writeopen, lock, holders, killed, pc, n, freed>>

ReadByte(p) ==
  /\ pc[p] = "read_byte" /\ i[p] < n[p] /\ ~Empty
  /\ got' = [got EXCEPT ![p] = data[nread % PIPESIZE]]
  /\ nread' = (nread + 1) % Width
  /\ i' = [i EXCEPT ![p] = @ + 1]
  /\ UNCHANGED <<data, nwrite, readopen, writeopen, lock, holders, killed, pc, n, freed>>

\* Mutant: a reader that made room wakes no writer.
ReadReturn_NoWake(p) ==
  /\ pc[p] = "read_byte"
  /\ Return(p) /\ Goto(p, "user")
  /\ UNCHANGED <<state, holders, killed, got, freed>>

\* As many bytes as asked for, no more bytes, or copyout fails.
ReadReturn(p) ==
  /\ pc[p] = "read_byte"
  /\ Return(p)
  /\ pc' = [Wake(Writers, pc) EXCEPT ![p] = "user"]
  /\ UNCHANGED <<state, holders, killed, got, freed>>

-----------------------------------------------------------------------------
\* fileclose: the last descriptor of an end closes it.
Close(p) ==
  /\ pc[p] = "user" /\ p \in holders
  /\ holders' = holders \ {p}
  /\ Goto(p, IF (IF p \in Writers THEN Writers ELSE Readers) \cap holders = {p}
             THEN "close" ELSE "user")
  /\ UNCHANGED <<state, lock, killed, n, i, got, freed>>

\* Mutant: the closing of either end frees the page.
PipeClose_FreesEarly(p) ==
  /\ pc[p] = "close" /\ lock = Nobody
  /\ writeopen' = (writeopen /\ p \notin Writers)
  /\ readopen' = (readopen /\ p \notin Readers)
  /\ pc' = [Wake(IF p \in Writers THEN Readers ELSE Writers, pc)
              EXCEPT ![p] = IF writeopen' /\ readopen' THEN "user" ELSE "free"]
  /\ UNCHANGED <<data, nread, nwrite, lock, holders, killed, n, i, got, freed>>

PipeClose(p) ==
  /\ pc[p] = "close" /\ lock = Nobody
  /\ writeopen' = (writeopen /\ p \notin Writers)
  /\ readopen' = (readopen /\ p \notin Readers)
  /\ pc' = [Wake(IF p \in Writers THEN Readers ELSE Writers, pc)
              EXCEPT ![p] = IF writeopen' \/ readopen' THEN "user" ELSE "free"]
  /\ UNCHANGED <<data, nread, nwrite, lock, holders, killed, n, i, got, freed>>

PipeFree(p) ==
  /\ pc[p] = "free"
  /\ freed' = freed + 1
  /\ Goto(p, "user")
  /\ UNCHANGED <<state, lock, holders, killed, n, i, got>>

\* kkill.
Kill(p) ==
  /\ p \in Killable /\ ~killed[p]
  /\ killed' = [killed EXCEPT ![p] = TRUE]
  /\ Goto(p, IF pc[p] = "asleep" THEN "woken" ELSE pc[p])
  /\ UNCHANGED <<state, lock, holders, n, i, got, freed>>

-----------------------------------------------------------------------------
CallStep(p) ==
  \/ Lock(p)
  \/ WriteRefused(p) \/ WriteAllowed(p) \/ WriteSleep(p) \/ WriteByte(p) \/ WriteReturn(p)
  \/ ReadKilled(p) \/ ReadWait(p) \/ ReadSleep(p) \/ ReadReady(p) \/ ReadByte(p) \/ ReadReturn(p)
  \/ PipeClose(p) \/ PipeFree(p)

Next == \E p \in Procs : Call(p) \/ CallStep(p) \/ Close(p) \/ Kill(p)

Spec == Init /\ [][Next]_vars

-----------------------------------------------------------------------------
\* The types of the pipe; over the wrap of the counters it never holds more
\* than PIPESIZE bytes.
TypeOK ==
  /\ data \in [0..(PIPESIZE - 1) -> Vals]
  /\ nread \in 0..(Width - 1) /\ nwrite \in 0..(Width - 1)
  /\ (nwrite + Width - nread) % Width \in 0..PIPESIZE
  /\ readopen \in BOOLEAN /\ writeopen \in BOOLEAN
  /\ lock \in Procs \cup {Nobody}
  /\ holders \subseteq Procs
  /\ killed \in [Procs -> BOOLEAN]
  /\ pc \in [Procs -> {"user", "lock", "write", "write_byte", "read", "read_sleep",
                       "read_byte", "asleep", "woken", "close", "free"}]
  /\ n \in [Procs -> 0..MaxN] /\ i \in [Procs -> 0..MaxN]
  /\ got \in [Procs -> Vals]

\* No lost wakeup: a reader asleep waits for a byte or for the write end to be
\* closed, neither of which has happened, unless the lock is held by a writer that
\* will wake it when it returns.  A writer killed in the middle of its call does
\* not (pipewrite returns -1 before its wake), and nothing is said of it.
ReaderWoken ==
  (\A p \in Writers : ~killed[p]) =>
    \A p \in Readers : pc[p] = "asleep" => lock \in Writers \/ (Empty /\ writeopen)

\* Likewise a writer asleep waits for room or for the read end to be closed.
WriterWoken ==
  \A p \in Writers : pc[p] = "asleep" => lock \in Readers \/ (Full /\ readopen)

\* Nobody sleeps on a pipe that is ready for it: piperead's and pipewrite's wakes
\* and pipeclose's reach every sleeper whose condition they change.
SleepersWoken == ReaderWoken /\ WriterWoken

\* The page is freed once, when nobody can reach the pipe any more.
FreedOnce ==
  /\ freed <= 1
  /\ freed = 1 => holders = {} /\ lock = Nobody /\ \A p \in Procs : pc[p] = "user"

\* The buffer stays in bounds across the wrap as long as there is a pipe, and
\* pipeclose frees it once.
PipeSound == TypeOK /\ FreedOnce

\* The bytes between nread and nwrite.
Contents ==
  [k \in 1..((nwrite + Width - nread) % Width) |-> data[(nread + k - 1) % PIPESIZE]]

BS == INSTANCE ByteStream WITH Capacity <- PIPESIZE, q <- Contents,
                               ropen <- readopen, wopen <- writeopen

\* Every byte written is read once and in order, over the wrap of the counters.
Stream == BS!Spec
=============================================================================
