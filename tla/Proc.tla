-------------------------------- MODULE Proc --------------------------------
(***************************************************************************)
(* The process table and the scheduler of kernel/rust_proc.rs, with the    *)
(* trap path of kernel/rust_trap.rs that calls into them.                  *)
(*                                                                         *)
(* Every CPU runs either its scheduler loop or the kernel thread of one    *)
(* process.  A critical section that takes a single p->lock and gives it   *)
(* back before it can block is one step, guarded on the lock being free;   *)
(* a lock that is held from one step to the next (p->lock across swtch and *)
(* across kfork's set-up of the child, wait_lock across the scans of       *)
(* kexit and kwait) is explicit in plock and wlock, whose value is the CPU *)
(* stored in Spinlock.cpu.                                                 *)
(***************************************************************************)
EXTENDS Naturals, FiniteSets

CONSTANTS
  NPROC,      \* slots of the process table
  CPUs,       \* harts
  MaxPid,     \* bound: allocpid hands out 1..MaxPid
  KillPids,   \* the arguments user programs give to kill(2)
  Killers,    \* bound: the slots whose programs call kill(2)
  Nobody      \* a null pointer, or a free lock

ASSUME ProcAssumption ==
  /\ NPROC \in Nat \ {0}
  /\ MaxPid \in Nat \ {0}
  /\ KillPids \subseteq Nat
  /\ Nobody \notin CPUs
  /\ Nobody \notin 1..NPROC

Procs == 1..NPROC
initproc == 1
Index == 1..(NPROC + 1)     \* of a loop over the table; NPROC + 1 at its end

VARIABLES
  state,      \* Proc.state
  pid,        \* Proc.pid, 0 in an unused slot
  parent,     \* Proc.parent
  chan,       \* Proc.chan; in this module a channel is the address of a slot
  killed,     \* Proc.killed
  plock,      \* holder of Proc.lock
  wlock,      \* holder of wait_lock
  cproc,      \* Cpu.proc
  spc,        \* what the CPU executes: its scan, a process, the end of swtch
  si,         \* the scheduler's loop index on each CPU
  pc,         \* where the kernel thread of each process stands
  resume,     \* where yield() returns to
  i,          \* the loop index of allocproc, kkill, reparent, kwait
  w,          \* the loop index of wakeup
  tmp,        \* kfork's np, kkill's pid
  havekids,   \* kwait's local
  nextpid     \* PID_COUNTER

table == <<state, pid, parent, chan, killed>>
locks == <<plock, wlock>>
sched_vars == <<cproc, spc, si>>
locals == <<pc, resume, i, w, tmp, havekids>>
vars == <<table, locks, sched_vars, locals, nextpid>>

States == {"UNUSED", "USED", "SLEEPING", "RUNNABLE", "RUNNING", "ZOMBIE"}
PCs == {"none", "forkret", "user", "trapret",
        "fork_scan", "fork_copy", "fork_parent", "fork_run",
        "kill", "exit", "reparent", "reparent_wake", "exit_wake", "exit_zombie",
        "wait", "wait_scan", "sleep", "sleep_set", "sleep_ret", "sleep_relock",
        "yield_ret", "zombie", "yield_sched", "sleep_sched", "exit_sched"}

\* CPU c executes the kernel thread of process p.
Runs(c, p) == spc[c] = "run" /\ cproc[c] = p

At(c, p, label) == Runs(c, p) /\ pc[p] = label
Goto(p, label) == pc' = [pc EXCEPT ![p] = label]

\* The locals of a system call are dead when it returns.
Leave(p) ==
  /\ i' = [i EXCEPT ![p] = 1]
  /\ tmp' = [tmp EXCEPT ![p] = 0]

\* The spinlocks CPU c holds from one step to the next; Cpu.noff counts them.
Held(c) == {<<"proc", p>> : p \in {q \in Procs : plock[q] = c}}
           \cup (IF wlock = c THEN {<<"wait_lock">>} ELSE {})
noff(c) == Cardinality(Held(c))

-----------------------------------------------------------------------------
\* procinit and userinit: the table is empty but for initproc, which is
\* ready to run forkret.  Both run on hart 0 before the other harts start.
Init ==
  /\ state = [p \in Procs |-> IF p = initproc THEN "RUNNABLE" ELSE "UNUSED"]
  /\ pid = [p \in Procs |-> IF p = initproc THEN 1 ELSE 0]
  /\ parent = [p \in Procs |-> Nobody]
  /\ chan = [p \in Procs |-> Nobody]
  /\ killed = [p \in Procs |-> FALSE]
  /\ plock = [p \in Procs |-> Nobody]
  /\ wlock = Nobody
  /\ cproc = [c \in CPUs |-> Nobody]
  /\ spc = [c \in CPUs |-> "scan"]
  /\ si = [c \in CPUs |-> 1]
  /\ pc = [p \in Procs |-> IF p = initproc THEN "forkret" ELSE "none"]
  /\ resume = [p \in Procs |-> "none"]
  /\ i = [p \in Procs |-> 1]
  /\ w = [p \in Procs |-> 1]
  /\ tmp = [p \in Procs |-> 0]
  /\ havekids = [p \in Procs |-> FALSE]
  /\ nextpid = 2

-----------------------------------------------------------------------------
\* scheduler(), one iteration of the inner loop: a RUNNABLE process is marked
\* RUNNING and entered with its lock held.
SchedulerPick(c) ==
  /\ spc[c] = "scan"
  /\ plock[si[c]] = Nobody
  /\ state[si[c]] = "RUNNABLE"
  /\ plock' = [plock EXCEPT ![si[c]] = c]
  /\ state' = [state EXCEPT ![si[c]] = "RUNNING"]
  /\ cproc' = [cproc EXCEPT ![c] = si[c]]
  /\ spc' = [spc EXCEPT ![c] = "run"]
  /\ UNCHANGED <<pid, parent, chan, killed, wlock, si, locals, nextpid>>

\* Mutant: the scan runs off the end of the table.
NextSlot_NoWrap(n) == n + 1

NextSlot(n) == IF n = NPROC THEN 1 ELSE n + 1

SchedulerSkip(c) ==
  /\ spc[c] = "scan"
  /\ plock[si[c]] = Nobody
  /\ state[si[c]] # "RUNNABLE"
  /\ si' = [si EXCEPT ![c] = NextSlot(@)]
  /\ UNCHANGED <<table, locks, cproc, spc, locals, nextpid>>

\* Mutant: the scan starts over at the first slot after every process it ran.
SchedulerBack_Restart(c) ==
  /\ spc[c] = "back"
  /\ cproc' = [cproc EXCEPT ![c] = Nobody]
  /\ plock' = [plock EXCEPT ![si[c]] = Nobody]
  /\ spc' = [spc EXCEPT ![c] = "scan"]
  /\ si' = [si EXCEPT ![c] = 1]
  /\ UNCHANGED <<table, wlock, locals, nextpid>>

\* The scheduler after swtch returns to it: Cpu.proc is cleared and the lock
\* of the process that switched away is released.
SchedulerBack(c) ==
  /\ spc[c] = "back"
  /\ cproc' = [cproc EXCEPT ![c] = Nobody]
  /\ plock' = [plock EXCEPT ![si[c]] = Nobody]
  /\ spc' = [spc EXCEPT ![c] = "scan"]
  /\ si' = [si EXCEPT ![c] = NextSlot(@)]
  /\ UNCHANGED <<table, wlock, locals, nextpid>>

AfterSched(label) ==
  CASE label = "yield_sched" -> "yield_ret"
    [] label = "sleep_sched" -> "sleep_ret"
    [] label = "exit_sched" -> "zombie"

\* Mutant: p->lock is given up before swtch is over.
Sched_EarlyRelease(c, p) ==
  /\ Runs(c, p)
  /\ pc[p] \in {"yield_sched", "sleep_sched", "exit_sched"}
  /\ plock' = [plock EXCEPT ![p] = Nobody]
  /\ spc' = [spc EXCEPT ![c] = "back"]
  /\ Goto(p, AfterSched(pc[p]))
  /\ UNCHANGED <<table, wlock, cproc, si, resume, i, w, tmp, havekids, nextpid>>

\* sched(): swtch to the scheduler of this CPU.  Its three panics are the
\* invariant NoPanic.
Sched(c, p) ==
  /\ Runs(c, p)
  /\ pc[p] \in {"yield_sched", "sleep_sched", "exit_sched"}
  /\ spc' = [spc EXCEPT ![c] = "back"]
  /\ Goto(p, AfterSched(pc[p]))
  /\ UNCHANGED <<table, locks, cproc, si, resume, i, w, tmp, havekids, nextpid>>

\* forkret(): a new process releases the lock the scheduler took.
Forkret(c, p) ==
  /\ At(c, p, "forkret")
  /\ plock' = [plock EXCEPT ![p] = Nobody]
  /\ Goto(p, "user")
  /\ UNCHANGED <<table, wlock, sched_vars, resume, i, w, tmp, havekids, nextpid>>

-----------------------------------------------------------------------------
\* Places in kernel code where the thread holds no lock, so that interrupts
\* are on and a timer interrupt may preempt it.
Preemptible == {"fork_scan", "fork_parent", "fork_run", "kill", "exit", "wait",
                "sleep_relock", "trapret"}

\* yield() up to its call of sched().
EnterYield(c, p) ==
  /\ plock[p] = Nobody
  /\ plock' = [plock EXCEPT ![p] = c]
  /\ state' = [state EXCEPT ![p] = "RUNNABLE"]
  /\ resume' = [resume EXCEPT ![p] = pc[p]]
  /\ Goto(p, "yield_sched")
  /\ UNCHANGED <<pid, parent, chan, killed, wlock, sched_vars,
                 i, w, tmp, havekids, nextpid>>

\* A timer interrupt: kerneltrap in kernel mode, usertrap in user mode, where
\* a killed process exits instead of yielding.
KernelTimer(c, p) ==
  /\ Runs(c, p) /\ pc[p] \in Preemptible
  /\ EnterYield(c, p)

UserTimer(c, p) ==
  /\ At(c, p, "user")
  /\ plock[p] = Nobody
  /\ ~killed[p]
  /\ EnterYield(c, p)

YieldReturn(c, p) ==
  /\ At(c, p, "yield_ret")
  /\ plock' = [plock EXCEPT ![p] = Nobody]
  /\ Goto(p, resume[p])
  /\ resume' = [resume EXCEPT ![p] = "none"]
  /\ UNCHANGED <<table, wlock, sched_vars, i, w, tmp, havekids, nextpid>>

\* Mutant: usertrap() looks at killed only after a system call.
TrapKilled_SyscallOnly(c, p) ==
  /\ At(c, p, "trapret")
  /\ plock[p] = Nobody
  /\ killed[p]
  /\ Goto(p, "exit")
  /\ UNCHANGED <<table, locks, sched_vars, resume, i, w, tmp, havekids, nextpid>>

\* usertrap() finds the process killed, on the way in or on the way out.
TrapKilled(c, p) ==
  /\ Runs(c, p) /\ pc[p] \in {"user", "trapret"}
  /\ plock[p] = Nobody
  /\ killed[p]
  /\ Goto(p, "exit")
  /\ UNCHANGED <<table, locks, sched_vars, resume, i, w, tmp, havekids, nextpid>>

\* A system call of a process that is not killed; kill takes its argument.
\* user/init.rs does not exit; that it returns, which panics the kernel, when
\* fork or wait fails is left out.
Syscall(c, p) ==
  /\ At(c, p, "user")
  /\ plock[p] = Nobody
  /\ ~killed[p]
  /\ i' = [i EXCEPT ![p] = 1]
  /\ \/ /\ \E label \in {"fork_scan", "wait"} \cup (IF p = initproc THEN {} ELSE {"exit"}) :
             Goto(p, label)
        /\ UNCHANGED tmp
     \/ /\ p \in Killers
        /\ \E n \in KillPids : tmp' = [tmp EXCEPT ![p] = n]
        /\ Goto(p, "kill")
  /\ UNCHANGED <<table, locks, sched_vars, resume, w, havekids, nextpid>>

TrapReturn(c, p) ==
  /\ At(c, p, "trapret")
  /\ plock[p] = Nobody
  /\ ~killed[p]
  /\ Goto(p, "user")
  /\ UNCHANGED <<table, locks, sched_vars, resume, i, w, tmp, havekids, nextpid>>

-----------------------------------------------------------------------------
\* Mutant: freeproc forgets killed.
Freeproc_KeepsKilled(q) ==
  /\ state' = [state EXCEPT ![q] = "UNUSED"]
  /\ pid' = [pid EXCEPT ![q] = 0]
  /\ parent' = [parent EXCEPT ![q] = Nobody]
  /\ chan' = [chan EXCEPT ![q] = Nobody]
  /\ UNCHANGED killed

\* freeproc_locked(q), with q's lock handled by the caller.
Freeproc(q) ==
  /\ state' = [state EXCEPT ![q] = "UNUSED"]
  /\ pid' = [pid EXCEPT ![q] = 0]
  /\ parent' = [parent EXCEPT ![q] = Nobody]
  /\ chan' = [chan EXCEPT ![q] = Nobody]
  /\ killed' = [killed EXCEPT ![q] = FALSE]

\* allocproc(): the scan of the table.  On success the slot's lock stays held.
AllocprocTake(c, p) ==
  /\ At(c, p, "fork_scan") /\ i[p] \in Procs
  /\ plock[i[p]] = Nobody
  /\ state[i[p]] = "UNUSED"
  /\ nextpid <= MaxPid
  /\ plock' = [plock EXCEPT ![i[p]] = c]
  /\ state' = [state EXCEPT ![i[p]] = "USED"]
  /\ pid' = [pid EXCEPT ![i[p]] = nextpid]
  /\ nextpid' = nextpid + 1
  /\ tmp' = [tmp EXCEPT ![p] = i[p]]
  /\ pc' = [pc EXCEPT ![p] = "fork_copy", ![i[p]] = "forkret"]
  /\ UNCHANGED <<parent, chan, killed, wlock, sched_vars, resume, i, w, havekids>>

AllocprocSkip(c, p) ==
  /\ At(c, p, "fork_scan") /\ i[p] \in Procs
  /\ plock[i[p]] = Nobody
  /\ state[i[p]] # "UNUSED" \/ nextpid > MaxPid
  /\ i' = [i EXCEPT ![p] = @ + 1]
  /\ UNCHANGED <<table, locks, sched_vars, pc, resume, w, tmp, havekids, nextpid>>

AllocprocNone(c, p) ==
  /\ At(c, p, "fork_scan") /\ i[p] = NPROC + 1
  /\ Goto(p, "trapret")
  /\ Leave(p)
  /\ UNCHANGED <<table, locks, sched_vars, resume, w, havekids, nextpid>>

\* No memory for the trap frame, the page table or the copy of the parent's
\* pages: the slot is freed and kfork returns -1.
ForkFail(c, p) ==
  /\ At(c, p, "fork_copy")
  /\ Freeproc(tmp[p])
  /\ plock' = [plock EXCEPT ![tmp[p]] = Nobody]
  /\ pc' = [pc EXCEPT ![p] = "trapret", ![tmp[p]] = "none"]
  /\ Leave(p)
  /\ UNCHANGED <<wlock, sched_vars, resume, w, havekids, nextpid>>

ForkCopied(c, p) ==
  /\ At(c, p, "fork_copy")
  /\ plock' = [plock EXCEPT ![tmp[p]] = Nobody]
  /\ Goto(p, "fork_parent")
  /\ UNCHANGED <<table, wlock, sched_vars, resume, i, w, tmp, havekids, nextpid>>

ForkParent(c, p) ==
  /\ At(c, p, "fork_parent")
  /\ wlock = Nobody
  /\ parent' = [parent EXCEPT ![tmp[p]] = p]
  /\ Goto(p, "fork_run")
  /\ UNCHANGED <<state, pid, chan, killed, locks, sched_vars,
                 resume, i, w, tmp, havekids, nextpid>>

ForkRun(c, p) ==
  /\ At(c, p, "fork_run")
  /\ plock[tmp[p]] = Nobody
  /\ state' = [state EXCEPT ![tmp[p]] = "RUNNABLE"]
  /\ Goto(p, "trapret")
  /\ Leave(p)
  /\ UNCHANGED <<pid, parent, chan, killed, locks, sched_vars,
                 resume, w, havekids, nextpid>>

-----------------------------------------------------------------------------
\* kkill(): one slot of the scan.
KillHit(c, p) ==
  /\ At(c, p, "kill") /\ i[p] \in Procs
  /\ plock[i[p]] = Nobody
  /\ pid[i[p]] = tmp[p]
  /\ killed' = [killed EXCEPT ![i[p]] = TRUE]
  /\ state' = [state EXCEPT ![i[p]] = IF @ = "SLEEPING" THEN "RUNNABLE" ELSE @]
  /\ Goto(p, "trapret")
  /\ Leave(p)
  /\ UNCHANGED <<pid, parent, chan, locks, sched_vars,
                 resume, w, havekids, nextpid>>

KillMiss(c, p) ==
  /\ At(c, p, "kill") /\ i[p] \in Procs
  /\ plock[i[p]] = Nobody
  /\ pid[i[p]] # tmp[p]
  /\ i' = [i EXCEPT ![p] = @ + 1]
  /\ UNCHANGED <<table, locks, sched_vars, pc, resume, w, tmp, havekids, nextpid>>

KillNone(c, p) ==
  /\ At(c, p, "kill") /\ i[p] = NPROC + 1
  /\ Goto(p, "trapret")
  /\ Leave(p)
  /\ UNCHANGED <<table, locks, sched_vars, resume, w, havekids, nextpid>>

-----------------------------------------------------------------------------
\* wakeup(ch), one slot: the caller itself is skipped without its lock.
WakeSlot(p, ch) ==
  /\ w[p] \in Procs
  /\ w[p] = p \/ plock[w[p]] = Nobody
  /\ state' = IF w[p] # p /\ state[w[p]] = "SLEEPING" /\ chan[w[p]] = ch
              THEN [state EXCEPT ![w[p]] = "RUNNABLE"]
              ELSE state
  /\ w' = [w EXCEPT ![p] = @ + 1]
  /\ UNCHANGED <<pid, parent, chan, killed, locks, sched_vars,
                 pc, resume, i, tmp, havekids, nextpid>>

\* kexit(): files and the current directory are closed elsewhere; then, under
\* wait_lock, the children go to init, and the parent is woken.
ExitLock(c, p) ==
  /\ At(c, p, "exit")
  /\ wlock = Nobody
  /\ wlock' = c
  /\ i' = [i EXCEPT ![p] = 1]
  /\ Goto(p, "reparent")
  /\ UNCHANGED <<table, plock, sched_vars, resume, w, tmp, havekids, nextpid>>

\* reparent_locked(), one slot: a child of p goes to init, and init is woken.
ReparentChild(c, p) ==
  /\ At(c, p, "reparent") /\ i[p] \in Procs
  /\ parent[i[p]] = p
  /\ parent' = [parent EXCEPT ![i[p]] = initproc]
  /\ i' = [i EXCEPT ![p] = @ + 1]
  /\ w' = [w EXCEPT ![p] = 1]
  /\ Goto(p, "reparent_wake")
  /\ UNCHANGED <<state, pid, chan, killed, locks, sched_vars,
                 resume, tmp, havekids, nextpid>>

\* Mutant: only children that are still alive go to init.
ReparentOther_SkipsZombies(c, p) ==
  /\ At(c, p, "reparent") /\ i[p] \in Procs
  /\ parent[i[p]] # p \/ state[i[p]] = "ZOMBIE"
  /\ i' = [i EXCEPT ![p] = @ + 1]
  /\ UNCHANGED <<table, locks, sched_vars, pc, resume, w, tmp, havekids, nextpid>>

ReparentOther(c, p) ==
  /\ At(c, p, "reparent") /\ i[p] \in Procs
  /\ parent[i[p]] # p
  /\ i' = [i EXCEPT ![p] = @ + 1]
  /\ UNCHANGED <<table, locks, sched_vars, pc, resume, w, tmp, havekids, nextpid>>

ReparentWake(c, p) ==
  /\ At(c, p, "reparent_wake")
  /\ WakeSlot(p, initproc)

ReparentWoken(c, p) ==
  /\ At(c, p, "reparent_wake") /\ w[p] = NPROC + 1
  /\ w' = [w EXCEPT ![p] = 1]
  /\ Goto(p, "reparent")
  /\ UNCHANGED <<table, locks, sched_vars, resume, i, tmp, havekids, nextpid>>

\* Mutant: the parent is not woken.
ReparentDone_NoWake(c, p) ==
  /\ At(c, p, "reparent") /\ i[p] = NPROC + 1
  /\ w' = [w EXCEPT ![p] = 1]
  /\ Goto(p, "exit_zombie")
  /\ UNCHANGED <<table, locks, sched_vars, resume, i, tmp, havekids, nextpid>>

ReparentDone(c, p) ==
  /\ At(c, p, "reparent") /\ i[p] = NPROC + 1
  /\ w' = [w EXCEPT ![p] = 1]
  /\ Goto(p, "exit_wake")
  /\ UNCHANGED <<table, locks, sched_vars, resume, i, tmp, havekids, nextpid>>

\* Mutant: kexit wakes those who wait for itself, not for its parent.
ExitWake_OwnChannel(c, p) ==
  /\ At(c, p, "exit_wake")
  /\ WakeSlot(p, p)

ExitWake(c, p) ==
  /\ At(c, p, "exit_wake")
  /\ WakeSlot(p, parent[p])

ExitWoken(c, p) ==
  /\ At(c, p, "exit_wake") /\ w[p] = NPROC + 1
  /\ Goto(p, "exit_zombie")
  /\ UNCHANGED <<table, locks, sched_vars, resume, i, w, tmp, havekids, nextpid>>

\* Mutant: kexit enters sched with wait_lock.
ExitZombie_KeepsWaitLock(c, p) ==
  /\ At(c, p, "exit_zombie")
  /\ plock[p] = Nobody
  /\ plock' = [plock EXCEPT ![p] = c]
  /\ state' = [state EXCEPT ![p] = "ZOMBIE"]
  /\ Goto(p, "exit_sched")
  /\ UNCHANGED <<pid, parent, chan, killed, wlock, sched_vars,
                 resume, i, w, tmp, havekids, nextpid>>

\* The process becomes a ZOMBIE under both locks and keeps its own for sched.
ExitZombie(c, p) ==
  /\ At(c, p, "exit_zombie")
  /\ plock[p] = Nobody
  /\ plock' = [plock EXCEPT ![p] = c]
  /\ state' = [state EXCEPT ![p] = "ZOMBIE"]
  /\ wlock' = Nobody
  /\ Goto(p, "exit_sched")
  /\ i' = [i EXCEPT ![p] = 1]
  /\ w' = [w EXCEPT ![p] = 1]
  /\ tmp' = [tmp EXCEPT ![p] = 0]
  /\ UNCHANGED <<pid, parent, chan, killed, sched_vars, resume, havekids, nextpid>>

-----------------------------------------------------------------------------
\* kwait(): the scan for a ZOMBIE child, under wait_lock.
StartScan(p) ==
  /\ i' = [i EXCEPT ![p] = 1]
  /\ havekids' = [havekids EXCEPT ![p] = FALSE]
  /\ Goto(p, "wait_scan")

WaitLock(c, p) ==
  /\ At(c, p, "wait")
  /\ wlock = Nobody
  /\ wlock' = c
  /\ StartScan(p)
  /\ UNCHANGED <<table, plock, sched_vars, resume, w, tmp, nextpid>>

WaitOther(c, p) ==
  /\ At(c, p, "wait_scan") /\ i[p] \in Procs
  /\ parent[i[p]] # p
  /\ i' = [i EXCEPT ![p] = @ + 1]
  /\ UNCHANGED <<table, locks, sched_vars, pc, resume, w, tmp, havekids, nextpid>>

WaitAlive(c, p) ==
  /\ At(c, p, "wait_scan") /\ i[p] \in Procs
  /\ parent[i[p]] = p
  /\ plock[i[p]] = Nobody
  /\ state[i[p]] # "ZOMBIE"
  /\ havekids' = [havekids EXCEPT ![p] = TRUE]
  /\ i' = [i EXCEPT ![p] = @ + 1]
  /\ UNCHANGED <<table, locks, sched_vars, pc, resume, w, tmp, nextpid>>

\* The exit status is copied out and the child's slot freed.
WaitReap(c, p) ==
  /\ At(c, p, "wait_scan") /\ i[p] \in Procs
  /\ parent[i[p]] = p
  /\ plock[i[p]] = Nobody
  /\ state[i[p]] = "ZOMBIE"
  /\ Freeproc(i[p])
  /\ wlock' = Nobody
  /\ pc' = [pc EXCEPT ![p] = "trapret", ![i[p]] = "none"]
  /\ havekids' = [havekids EXCEPT ![p] = FALSE]
  /\ Leave(p)
  /\ UNCHANGED <<plock, sched_vars, resume, w, nextpid>>

\* copyout of the status fails: kwait returns -1 and the child stays.
WaitCopyoutFails(c, p) ==
  /\ At(c, p, "wait_scan") /\ i[p] \in Procs
  /\ parent[i[p]] = p
  /\ plock[i[p]] = Nobody
  /\ state[i[p]] = "ZOMBIE"
  /\ wlock' = Nobody
  /\ Goto(p, "trapret")
  /\ havekids' = [havekids EXCEPT ![p] = FALSE]
  /\ Leave(p)
  /\ UNCHANGED <<table, plock, sched_vars, resume, w, nextpid>>

\* No children, or killed: kwait gives up.
WaitGiveUp(c, p) ==
  /\ At(c, p, "wait_scan") /\ i[p] = NPROC + 1
  /\ ~havekids[p] \/ (plock[p] = Nobody /\ killed[p])
  /\ wlock' = Nobody
  /\ Goto(p, "trapret")
  /\ havekids' = [havekids EXCEPT ![p] = FALSE]
  /\ Leave(p)
  /\ UNCHANGED <<table, plock, sched_vars, resume, w, nextpid>>

WaitSleep(c, p) ==
  /\ At(c, p, "wait_scan") /\ i[p] = NPROC + 1
  /\ havekids[p] /\ plock[p] = Nobody /\ ~killed[p]
  /\ Goto(p, "sleep")
  /\ UNCHANGED <<table, locks, sched_vars, resume, i, w, tmp, havekids, nextpid>>

\* sleep(p, &wait_lock): p->lock is taken before wait_lock is given up.
SleepLock(c, p) ==
  /\ At(c, p, "sleep")
  /\ plock[p] = Nobody
  /\ plock' = [plock EXCEPT ![p] = c]
  /\ Goto(p, "sleep_set")
  /\ UNCHANGED <<table, wlock, sched_vars, resume, i, w, tmp, havekids, nextpid>>

SleepSet(c, p) ==
  /\ At(c, p, "sleep_set")
  /\ wlock' = Nobody
  /\ chan' = [chan EXCEPT ![p] = p]
  /\ state' = [state EXCEPT ![p] = "SLEEPING"]
  /\ Goto(p, "sleep_sched")
  /\ UNCHANGED <<pid, parent, killed, plock, sched_vars,
                 resume, i, w, tmp, havekids, nextpid>>

SleepReturn(c, p) ==
  /\ At(c, p, "sleep_ret")
  /\ chan' = [chan EXCEPT ![p] = Nobody]
  /\ plock' = [plock EXCEPT ![p] = Nobody]
  /\ Goto(p, "sleep_relock")
  /\ UNCHANGED <<state, pid, parent, killed, wlock, sched_vars,
                 resume, i, w, tmp, havekids, nextpid>>

SleepRelock(c, p) ==
  /\ At(c, p, "sleep_relock")
  /\ wlock = Nobody
  /\ wlock' = c
  /\ StartScan(p)
  /\ UNCHANGED <<table, plock, sched_vars, resume, w, tmp, nextpid>>

-----------------------------------------------------------------------------
Scheduler(c) == SchedulerPick(c) \/ SchedulerSkip(c) \/ SchedulerBack(c)

Trap(c, p) == Forkret(c, p) \/ KernelTimer(c, p) \/ UserTimer(c, p) \/ YieldReturn(c, p)
              \/ TrapKilled(c, p) \/ Syscall(c, p) \/ TrapReturn(c, p) \/ Sched(c, p)

Kfork(c, p) == AllocprocTake(c, p) \/ AllocprocSkip(c, p) \/ AllocprocNone(c, p)
               \/ ForkFail(c, p) \/ ForkCopied(c, p) \/ ForkParent(c, p) \/ ForkRun(c, p)

Kkill(c, p) == KillHit(c, p) \/ KillMiss(c, p) \/ KillNone(c, p)

Kexit(c, p) == ExitLock(c, p) \/ ReparentChild(c, p) \/ ReparentOther(c, p)
               \/ ReparentWake(c, p) \/ ReparentWoken(c, p) \/ ReparentDone(c, p)
               \/ ExitWake(c, p) \/ ExitWoken(c, p) \/ ExitZombie(c, p)

Kwait(c, p) == WaitLock(c, p) \/ WaitOther(c, p) \/ WaitAlive(c, p) \/ WaitReap(c, p)
               \/ WaitCopyoutFails(c, p) \/ WaitGiveUp(c, p) \/ WaitSleep(c, p)
               \/ SleepLock(c, p) \/ SleepSet(c, p) \/ SleepReturn(c, p) \/ SleepRelock(c, p)

Next ==
  \E c \in CPUs :
    \/ Scheduler(c)
    \/ \E p \in Procs :
         Trap(c, p) \/ Kfork(c, p) \/ Kkill(c, p) \/ Kexit(c, p) \/ Kwait(c, p)

Spec == Init /\ [][Next]_vars

\* The steps a thread takes without a user program or a failure choosing them:
\* switching, and everything else but Syscall, KernelTimer, ForkFail and
\* WaitCopyoutFails.
SwitchStep(c, p) ==
  Forkret(c, p) \/ UserTimer(c, p) \/ YieldReturn(c, p) \/ Sched(c, p)

ThreadStep(c, p) ==
  \/ TrapKilled(c, p) \/ TrapReturn(c, p)
  \/ AllocprocTake(c, p) \/ AllocprocSkip(c, p) \/ AllocprocNone(c, p)
  \/ ForkCopied(c, p) \/ ForkParent(c, p) \/ ForkRun(c, p)
  \/ Kkill(c, p) \/ Kexit(c, p)
  \/ WaitLock(c, p) \/ WaitOther(c, p) \/ WaitAlive(c, p) \/ WaitReap(c, p)
  \/ WaitGiveUp(c, p) \/ WaitSleep(c, p)
  \/ SleepLock(c, p) \/ SleepSet(c, p) \/ SleepReturn(c, p) \/ SleepRelock(c, p)

\* The lock the next step of a preemptible thread takes.
LockFree(p) ==
  CASE pc[p] \in {"fork_scan", "kill"} -> i[p] \in Procs => plock[i[p]] = Nobody
    [] pc[p] = "fork_run" -> plock[tmp[p]] = Nobody
    [] pc[p] = "trapret" -> plock[p] = Nobody
    [] OTHER -> wlock = Nobody

\* acquire() turns interrupts off before it spins, so that a timer interrupt
\* does not throw a thread off a lock it waits for.
NoPreemptedSpin ==
  \A c \in CPUs, p \in Procs : Runs(c, p) /\ pc[p] \in Preemptible /\ ~LockFree(p) =>
                                 pc'[p] # "yield_sched"

\* Fairness: a CPU that spins on a lock gets it if it is free again and again, a
\* thread gets on between timer interrupts, and a process in user mode is
\* interrupted by the timer sooner or later.
FairSpec ==
  /\ Init /\ [][Next /\ NoPreemptedSpin]_vars
  /\ \A c \in CPUs : SF_vars(Scheduler(c))
  /\ \A p \in Procs : SF_vars(\E c \in CPUs : SwitchStep(c, p))
  /\ \A p \in Procs : SF_vars(\E c \in CPUs : ThreadStep(c, p))

-----------------------------------------------------------------------------
\* The types of the process table and of the threads' locals; every loop over
\* the table, the scheduler's included, stays inside it.
TypeOK ==
  /\ state \in [Procs -> States]
  /\ pid \in [Procs -> 0..MaxPid]
  /\ parent \in [Procs -> Procs \cup {Nobody}]
  /\ chan \in [Procs -> Procs \cup {Nobody}]
  /\ killed \in [Procs -> BOOLEAN]
  /\ plock \in [Procs -> CPUs \cup {Nobody}]
  /\ wlock \in CPUs \cup {Nobody}
  /\ cproc \in [CPUs -> Procs \cup {Nobody}]
  /\ spc \in [CPUs -> {"scan", "run", "back"}]
  /\ si \in [CPUs -> Procs]
  /\ pc \in [Procs -> PCs]
  /\ resume \in [Procs -> PCs]
  /\ i \in [Procs -> Index]
  /\ w \in [Procs -> Index]
  /\ tmp \in [Procs -> Nat]
  /\ havekids \in [Procs -> BOOLEAN]
  /\ nextpid \in 1..(MaxPid + 1)

\* A process is on at most one CPU, so that no kernel stack is ever used by
\* two CPUs, and a process that is off the CPUs is not marked RUNNING:
\* p->lock stays held from the change of state to the end of swtch.
OneCpu ==
  /\ \A c, d \in CPUs : cproc[c] = cproc[d] /\ cproc[c] # Nobody => c = d
  /\ \A p \in Procs : state[p] = "RUNNING" => \E c \in CPUs : Runs(c, p)

SchedPCs == {"yield_sched", "sleep_sched", "exit_sched"}
OwnLockPCs == SchedPCs \cup {"forkret", "yield_ret", "sleep_ret", "sleep_set"}
WaitLockPCs == {"reparent", "reparent_wake", "exit_wake", "exit_zombie",
                "wait_scan", "sleep", "sleep_set"}

\* The panics of sched ("sched p->lock", "sched locks", "sched RUNNING"), of
\* kexit ("zombie exit") and of release (a lock the CPU does not hold) are
\* never reached.
NoPanic ==
  \A c \in CPUs, p \in Procs : Runs(c, p) =>
    /\ pc[p] \in SchedPCs => plock[p] = c /\ noff(c) = 1 /\ state[p] # "RUNNING"
    /\ pc[p] \in OwnLockPCs => plock[p] = c
    /\ pc[p] \in WaitLockPCs => wlock = c
    /\ pc[p] = "fork_copy" => plock[tmp[p]] = c
    /\ pc[p] \notin {"none", "zombie"}

\* No lost wakeup between kexit and kwait: a process asleep in kwait has a
\* child to wait for, and none of its children is a ZOMBIE, unless an exiting
\* process that just gave that child to init is still on its way to wake init.
NoLostWakeup ==
  \A p \in Procs : (state[p] = "SLEEPING" /\ chan[p] = p) =>
    /\ \E q \in Procs : parent[q] = p
    /\ \A q \in Procs : parent[q] = p /\ state[q] = "ZOMBIE" =>
         \E r \in Procs : pc[r] = "reparent_wake" /\ p = initproc /\ w[r] <= p

\* Every process but init that can run or has exited has a parent that has
\* not exited, so that some kwait can still free it: kfork sets the parent
\* before RUNNABLE, kexit gives its children away before ZOMBIE.
NoOrphan ==
  \A p \in Procs \ {initproc} : state[p] \notin {"UNUSED", "USED"} =>
    /\ parent[p] # Nobody
    /\ state[parent[p]] \notin {"UNUSED", "USED", "ZOMBIE"}

\* A slot that holds no process is not marked killed, so that no process is
\* born killed.
NotBornKilled ==
  \A p \in Procs : state[p] = "UNUSED" => ~killed[p]

-----------------------------------------------------------------------------
\* The scheduler starves nobody: a RUNNABLE process is run.
EventuallyScheduled ==
  \A p \in Procs : (state[p] = "RUNNABLE") ~> (state[p] # "RUNNABLE")

WaitPCs == {"wait", "wait_scan", "sleep", "sleep_set", "sleep_sched", "sleep_ret", "sleep_relock"}
InWait(p) == pc[p] \in WaitPCs \/ resume[p] \in WaitPCs

\* kwait returns once a child has exited, whatever the order of the exit's
\* wakeup and the wait's sleep.
WaitReturns ==
  \A p \in Procs :
    (InWait(p) /\ \E q \in Procs : parent[q] = p /\ state[q] = "ZOMBIE") ~> ~InWait(p)

\* A killed process exits, unless it is asleep in kwait: it may have read
\* killed before kkill set it, and kkill may have found it not yet SLEEPING.
KilledExits ==
  \A p \in Procs :
    killed[p] ~> (state[p] \in {"ZOMBIE", "UNUSED"} \/ (state[p] = "SLEEPING" /\ InWait(p)))
=============================================================================
