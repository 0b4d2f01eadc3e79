-------------------------------- MODULE Log --------------------------------
(***************************************************************************)
(* The write-ahead log of kernel/rust_log.rs: admission, group commit,     *)
(* crash and recovery.                                                     *)
(*                                                                         *)
(* A critical section of LOG.lock is one step.  The commit runs without    *)
(* the lock, one block transfer per step, and the machine may crash        *)
(* between any two steps, during recovery too.  The buffer cache of        *)
(* kernel/rust_bio.rs is a partial copy of the disk from which a buffer    *)
(* may disappear whenever it is not pinned.  A block write is atomic.      *)
(***************************************************************************)
EXTENDS Integers, FiniteSets, Sequences, Functions

CONSTANTS
  Blocks,         \* home blocks of the file system
  Vals,           \* block contents
  Threads,        \* processes in file system calls
  LOGBLOCKS,      \* blocks of the log
  MAXOPBLOCKS,    \* blocks begin_op reserves for an operation
  OpBlocks,       \* most distinct blocks an operation writes
  Absent          \* not in the buffer cache

ASSUME LogAssumption ==
  /\ MAXOPBLOCKS \in Nat /\ OpBlocks \in Nat /\ LOGBLOCKS \in Nat
  /\ OpBlocks < MAXOPBLOCKS /\ MAXOPBLOCKS <= LOGBLOCKS
  /\ Absent \notin Vals /\ Vals # {}

VARIABLES
  disk,         \* home blocks on disk
  logd,         \* log blocks on disk
  hd,           \* the block numbers in the log header on disk
  cache,        \* contents of cached home blocks
  pinned,       \* blocks the log keeps in the cache
  lh,           \* LOG.lh.block[0..LOG.lh.n]
  outstanding,  \* LOG.outstanding
  committing,   \* LOG.committing
  pc,           \* where each thread is
  wset,         \* the blocks each operation has written
  cpc,          \* where commit or recovery is
  tail          \* the loop index of write_log and install_trans

disk_vars == <<disk, logd, hd>>
vars == <<disk, logd, hd, cache, pinned, lh, outstanding, committing, pc, wset, cpc, tail>>

Slots == 1..LOGBLOCKS

\* The first boot: any file system, and the empty log mkfs leaves.
Init ==
  /\ disk \in [Blocks -> Vals]
  /\ logd = [k \in Slots |-> CHOOSE v \in Vals : TRUE]
  /\ hd = <<>>
  /\ cache = [b \in Blocks |-> Absent]
  /\ pinned = {}
  /\ lh = <<>>
  /\ outstanding = 0
  /\ committing = FALSE
  /\ pc = [t \in Threads |-> "idle"]
  /\ wset = [t \in Threads |-> {}]
  /\ cpc = "read_head"
  /\ tail = 1

\* The content of block b as bread(b) returns it.
Content(b) == IF cache[b] = Absent THEN disk[b] ELSE cache[b]

\* initlog is over: file system calls only start then.
Booted == cpc \notin {"read_head", "recover"}

\* wakeup(&LOG) on the program counters f.
Wakeup(f) == [t \in Threads |-> IF f[t] = "asleep" THEN "woken" ELSE f[t]]

-----------------------------------------------------------------------------
\* Mutant: admission forgets the blocks that are logged already.
NoRoom_IgnoresLogged == (outstanding + 1) * MAXOPBLOCKS > LOGBLOCKS

NoRoom == Len(lh) + (outstanding + 1) * MAXOPBLOCKS > LOGBLOCKS

BeginSleep(t) ==
  /\ Booted /\ pc[t] \in {"idle", "woken"}
  /\ committing \/ NoRoom
  /\ pc' = [pc EXCEPT ![t] = "asleep"]
  /\ UNCHANGED <<disk_vars, cache, pinned, lh, outstanding, committing, wset, cpc, tail>>

BeginOp(t) ==
  /\ Booted /\ pc[t] \in {"idle", "woken"}
  /\ ~committing /\ ~NoRoom
  /\ outstanding' = outstanding + 1
  /\ pc' = [pc EXCEPT ![t] = "op"]
  /\ UNCHANGED <<disk_vars, cache, pinned, lh, committing, wset, cpc, tail>>

\* Mutant: log_write does not pin the buffer.
LogWrite_NoPin(t, b, v) ==
  /\ pc[t] = "op"
  /\ Cardinality(wset[t] \cup {b}) <= OpBlocks
  /\ cache' = [cache EXCEPT ![b] = v]
  /\ wset' = [wset EXCEPT ![t] = @ \cup {b}]
  /\ lh' = IF b \in Range(lh) THEN lh ELSE Append(lh, b)
  /\ UNCHANGED <<disk_vars, pinned, outstanding, committing, pc, cpc, tail>>

\* An operation changes a locked buffer and calls log_write, whose two panics
\* are the invariant NoPanic.
LogWrite(t, b, v) ==
  /\ pc[t] = "op"
  /\ Cardinality(wset[t] \cup {b}) <= OpBlocks
  /\ cache' = [cache EXCEPT ![b] = v]
  /\ wset' = [wset EXCEPT ![t] = @ \cup {b}]
  /\ lh' = IF b \in Range(lh) THEN lh ELSE Append(lh, b)
  /\ pinned' = pinned \cup {b}
  /\ UNCHANGED <<disk_vars, outstanding, committing, pc, cpc, tail>>

\* Mutant: end_op of an operation that is not the last wakes nobody.
EndOp_NoWakeup(t) ==
  /\ pc[t] = "op"
  /\ outstanding > 1
  /\ outstanding' = outstanding - 1
  /\ wset' = [wset EXCEPT ![t] = {}]
  /\ pc' = [pc EXCEPT ![t] = "idle"]
  /\ UNCHANGED <<disk_vars, cache, pinned, lh, committing, cpc, tail>>

\* end_op of an operation that is not the last.
EndOp(t) ==
  /\ pc[t] = "op"
  /\ outstanding > 1
  /\ outstanding' = outstanding - 1
  /\ wset' = [wset EXCEPT ![t] = {}]
  /\ pc' = Wakeup([pc EXCEPT ![t] = "idle"])
  /\ UNCHANGED <<disk_vars, cache, pinned, lh, committing, cpc, tail>>

\* end_op of the last operation: it commits.
EndOpCommit(t) ==
  /\ pc[t] = "op"
  /\ outstanding = 1
  /\ outstanding' = 0
  /\ committing' = TRUE
  /\ wset' = [wset EXCEPT ![t] = {}]
  /\ pc' = [pc EXCEPT ![t] = "commit"]
  /\ cpc' = IF lh = <<>> THEN "committed" ELSE "write_log"
  /\ tail' = 1
  /\ UNCHANGED <<disk_vars, cache, pinned, lh>>

-----------------------------------------------------------------------------
\* commit(): write_log copies the pinned buffers to the log.
WriteLog ==
  /\ cpc = "write_log" /\ tail <= Len(lh)
  /\ logd' = [logd EXCEPT ![tail] = Content(lh[tail])]
  /\ tail' = tail + 1
  /\ UNCHANGED <<disk, hd, cache, pinned, lh, outstanding, committing, pc, wset, cpc>>

\* write_head: the transaction is committed.
WriteHead ==
  /\ cpc = "write_log" /\ tail = Len(lh) + 1
  /\ hd' = lh
  /\ cpc' = "install"
  /\ tail' = 1
  /\ UNCHANGED <<disk, logd, cache, pinned, lh, outstanding, committing, pc, wset>>

\* install_trans(0): home blocks are written and their buffers unpinned.
Install ==
  /\ cpc = "install" /\ tail <= Len(lh)
  /\ disk' = [disk EXCEPT ![lh[tail]] = logd[tail]]
  /\ cache' = [cache EXCEPT ![lh[tail]] = logd[tail]]
  /\ pinned' = pinned \ {lh[tail]}
  /\ tail' = tail + 1
  /\ UNCHANGED <<logd, hd, lh, outstanding, committing, pc, wset, cpc>>

\* The header is written again with n = 0.
ClearHead ==
  /\ cpc = "install" /\ tail = Len(lh) + 1
  /\ lh' = <<>>
  /\ hd' = <<>>
  /\ cpc' = "committed"
  /\ UNCHANGED <<disk, logd, cache, pinned, outstanding, committing, pc, wset, tail>>

\* The end of end_op.
Committed(t) ==
  /\ pc[t] = "commit" /\ cpc = "committed"
  /\ committing' = FALSE
  /\ cpc' = "none"
  /\ tail' = 1
  /\ pc' = Wakeup([pc EXCEPT ![t] = "idle"])
  /\ UNCHANGED <<disk_vars, cache, pinned, lh, outstanding, wset>>

-----------------------------------------------------------------------------
\* The buffer cache drops or reads an unpinned block.
Evict(b) ==
  /\ cache[b] # Absent /\ b \notin pinned
  /\ cache' = [cache EXCEPT ![b] = Absent]
  /\ UNCHANGED <<disk_vars, pinned, lh, outstanding, committing, pc, wset, cpc, tail>>

Fill(b) ==
  /\ Booted /\ cache[b] = Absent
  /\ cache' = [cache EXCEPT ![b] = disk[b]]
  /\ UNCHANGED <<disk_vars, pinned, lh, outstanding, committing, pc, wset, cpc, tail>>

\* Memory is lost; the next boot runs initlog.
Crash ==
  /\ cache' = [b \in Blocks |-> Absent]
  /\ pinned' = {}
  /\ lh' = <<>>
  /\ outstanding' = 0
  /\ committing' = FALSE
  /\ pc' = [t \in Threads |-> "idle"]
  /\ wset' = [t \in Threads |-> {}]
  /\ cpc' = "read_head"
  /\ tail' = 1
  /\ UNCHANGED disk_vars

\* initlog: read_head, install_trans(1) and write_head with n = 0.
ReadHead ==
  /\ cpc = "read_head"
  /\ lh' = hd
  /\ cpc' = "recover"
  /\ UNCHANGED <<disk_vars, cache, pinned, outstanding, committing, pc, wset, tail>>

Recover ==
  /\ cpc = "recover" /\ tail <= Len(lh)
  /\ disk' = [disk EXCEPT ![lh[tail]] = logd[tail]]
  /\ cache' = [cache EXCEPT ![lh[tail]] = logd[tail]]
  /\ tail' = tail + 1
  /\ UNCHANGED <<logd, hd, pinned, lh, outstanding, committing, pc, wset, cpc>>

RecoverEnd ==
  /\ cpc = "recover" /\ tail = Len(lh) + 1
  /\ lh' = <<>>
  /\ hd' = <<>>
  /\ cpc' = "none"
  /\ tail' = 1
  /\ UNCHANGED <<disk, logd, cache, pinned, outstanding, committing, pc, wset>>

-----------------------------------------------------------------------------
CommitStep == WriteLog \/ WriteHead \/ Install \/ ClearHead \/ \E t \in Threads : Committed(t)
RecoveryStep == ReadHead \/ Recover \/ RecoverEnd

Next ==
  \/ \E t \in Threads :
       BeginSleep(t) \/ BeginOp(t) \/ EndOp(t) \/ EndOpCommit(t)
       \/ \E b \in Blocks, v \in Vals : LogWrite(t, b, v)
  \/ CommitStep
  \/ RecoveryStep
  \/ \E b \in Blocks : Evict(b) \/ Fill(b)
  \/ Crash

Spec == Init /\ [][Next]_vars

\* Fairness: operations end, the committing thread and recovery go on, and a
\* thread that was woken runs.
FairSpec ==
  /\ Spec
  /\ WF_vars(CommitStep) /\ WF_vars(RecoveryStep)
  /\ \A t \in Threads : /\ WF_vars(EndOp(t) \/ EndOpCommit(t))
                        /\ WF_vars(pc[t] = "woken" /\ (BeginSleep(t) \/ BeginOp(t)))

-----------------------------------------------------------------------------
PCs == {"idle", "asleep", "woken", "op", "commit"}
CommitPCs == {"none", "write_log", "install", "committed", "read_head", "recover"}

\* The types of the log; the operations admitted never reserve more than the
\* log holds.
TypeOK ==
  /\ disk \in [Blocks -> Vals]
  /\ logd \in [Slots -> Vals]
  /\ hd \in Seq(Blocks) /\ lh \in Seq(Blocks)
  /\ cache \in [Blocks -> Vals \cup {Absent}]
  /\ pinned \subseteq Blocks
  /\ outstanding \in 0..(LOGBLOCKS \div MAXOPBLOCKS)
  /\ committing \in BOOLEAN
  /\ pc \in [Threads -> PCs]
  /\ wset \in [Threads -> SUBSET Blocks]
  /\ cpc \in CommitPCs
  /\ tail \in 1..(LOGBLOCKS + 1)

\* log_write and end_op never panic: an open operation is counted, runs while
\* no commit is in progress, and its next log_write finds room in the log
\* ("too big a transaction", "log_write outside of trans", "log.committing").
NoPanic ==
  \A t \in Threads : pc[t] = "op" =>
    outstanding >= 1 /\ ~committing /\ Len(lh) < LOGBLOCKS

\* The operations in progress, and what is left of their reservations: one element
\* for each block that an operation may still add.
Ops == {t \in Threads : pc[t] = "op"}
Room == {x \in Ops \X (1..MAXOPBLOCKS) : x[2] > Cardinality(wset[x[1]])}

\* The log has room for every block begin_op has promised: what is logged, also by
\* operations that have ended since, and what the open ones may still add fit.
Reserved == Len(lh) + Cardinality(Room) <= LOGBLOCKS

\* A thread asleep in begin_op has somebody to wake it: an operation that is
\* open, or a commit that is in progress.
SomebodyWakes ==
  (\E t \in Threads : pc[t] = "asleep") => outstanding > 0 \/ committing

\* The log is in bounds and in order at every step of every operation, commit and
\* recovery: log_write finds the room that begin_op reserved for it, on top of what
\* operations that ended without a commit have logged, and nobody sleeps in begin_op
\* with nobody left to wake it.
LogConsistent == TypeOK /\ NoPanic /\ Reserved /\ SomebodyWakes

\* A thread that begin_op put to sleep is woken.
SleeperWoken == \A t \in Threads : (pc[t] = "asleep") ~> (pc[t] # "asleep")

\* Every commit that starts is over some time, or cut short by a crash.
CommitEnds == committing ~> ~committing

\* The log goes on: no thread stays asleep in begin_op and no commit in end_op,
\* one that finds the log empty included.
LogProgress == SleeperWoken /\ CommitEnds

-----------------------------------------------------------------------------
\* What a restart will find: the home blocks, overlaid with the log when its
\* header is not empty.
Durable ==
  [b \in Blocks |-> IF b \in Range(hd) THEN logd[CHOOSE k \in Slots : k <= Len(hd) /\ hd[k] = b]
                    ELSE disk[b]]

\* What the file system reads; before the end of recovery, what it will read.
Current == IF Booted THEN [b \in Blocks |-> Content(b)] ELSE Durable

AD == INSTANCE AtomicDisk WITH durable <- Durable, current <- Current,
                               open <- {t \in Threads : pc[t] = "op"}

\* Operations are atomic across crashes: the log implements AtomicDisk.
Atomic == AD!Spec
=============================================================================
