--------------------------- MODULE ProcInvariant ----------------------------
(***************************************************************************)
(* Type correctness of Proc, its inductive invariant Core, and the lemma   *)
(* that a scheduler that picks a process keeps Core.                       *)
(***************************************************************************)
EXTENDS Proc, TLAPS

-----------------------------------------------------------------------------
(* Type correctness.                                                       *)

\* Indices of the loops over the table: the next one is a slot or the end.
LEMMA IndexFacts ==
  /\ 1 \in Procs /\ 1 \in Index /\ Procs \subseteq Nat
  /\ \A n \in Procs : n + 1 \in Index /\ NextSlot(n) \in Procs
  /\ Nobody \notin Procs
BY ProcAssumption DEF Procs, Index, NextSlot

\* The scheduler loop keeps the types.
LEMMA SchedulerType ==
  ASSUME TypeOK, NEW c \in CPUs, Scheduler(c)
  PROVE  TypeOK'
<1>1. CASE SchedulerPick(c)
  BY <1>1 DEF TypeOK, SchedulerPick, States, locals
<1>2. CASE SchedulerSkip(c)
  BY <1>2, IndexFacts, Zenon DEF TypeOK, SchedulerSkip, table, locks, locals
<1>3. CASE SchedulerBack(c)
  BY <1>3, IndexFacts, Zenon DEF TypeOK, SchedulerBack, table, locals
<1> QED BY <1>1, <1>2, <1>3 DEF Scheduler

\* Traps, the timer and the way back to user mode keep the types.
LEMMA TrapType ==
  ASSUME TypeOK, NEW c \in CPUs, NEW p \in Procs, Trap(c, p)
  PROVE  TypeOK'
<1> USE DEF TypeOK, PCs, States, Goto, At, Runs, table, locks, sched_vars
<1>1. CASE Forkret(c, p)
  BY <1>1 DEF Forkret
<1>2. ASSUME EnterYield(c, p) PROVE TypeOK'
  BY <1>2 DEF EnterYield
<1>3. CASE YieldReturn(c, p)
  BY <1>3 DEF YieldReturn
<1>4. CASE TrapKilled(c, p)
  BY <1>4 DEF TrapKilled
<1>5. CASE Syscall(c, p)
  <2>1. i' \in [Procs -> Index]
    BY <1>5, IndexFacts DEF Syscall
  <2>2. tmp' \in [Procs -> Nat]
    BY <1>5, ProcAssumption DEF Syscall
  <2>3. pc' \in [Procs -> PCs]
    BY <1>5 DEF Syscall
  <2> QED BY <1>5, <2>1, <2>2, <2>3 DEF Syscall
<1>6. CASE TrapReturn(c, p)
  BY <1>6, IndexFacts DEF TrapReturn
<1>7. CASE Sched(c, p)
  BY <1>7 DEF Sched, AfterSched
<1> QED
  BY <1>1, <1>2, <1>3, <1>4, <1>5, <1>6, <1>7 DEF Trap, KernelTimer, UserTimer

\* The return of a system call resets its own locals and no one else's.
LEMMA LeaveType ==
  ASSUME TypeOK, NEW p \in Procs, Leave(p)
  PROVE  /\ i' \in [Procs -> Index] /\ tmp' \in [Procs -> Nat]
         /\ \A r \in Procs \ {p} : tmp'[r] = tmp[r]
<1>1. i \in [Procs -> Index] /\ tmp \in [Procs -> Nat] /\ 1 \in Index
  BY IndexFacts DEF TypeOK
<1>2. i' \in [Procs -> Index]
  BY <1>1, Zenon DEF Leave
<1>3. tmp' \in [Procs -> Nat]
  BY <1>1 DEF Leave
<1> QED BY <1>1, <1>2, <1>3 DEF Leave

\* kfork and allocproc keep the types.
LEMMA KforkType ==
  ASSUME TypeOK, NEW c \in CPUs, NEW p \in Procs, Kfork(c, p)
  PROVE  TypeOK'
<1> USE DEF TypeOK, PCs, States, Goto, At, Runs, table, locks, sched_vars
<1>1. CASE AllocprocTake(c, p)
  <2>1. pid' \in [Procs -> 0..MaxPid] /\ nextpid' \in 1..(MaxPid + 1)
    BY <1>1, ProcAssumption DEF AllocprocTake
  <2>2. tmp' \in [Procs -> Nat]
    BY <1>1, IndexFacts, Zenon DEF AllocprocTake
  <2>3. pc' \in [Procs -> PCs]
    BY <1>1 DEF AllocprocTake
  <2> QED BY <1>1, <2>1, <2>2, <2>3 DEF AllocprocTake
<1>2. CASE AllocprocSkip(c, p)
  BY <1>2, IndexFacts, Zenon DEF AllocprocSkip
<1>3. CASE AllocprocNone(c, p)
  BY <1>3, LeaveType DEF AllocprocNone
<1>4. CASE ForkFail(c, p)
  <2>0. 0 \in 0..MaxPid
    BY ProcAssumption
  <2>1. pid' \in [Procs -> 0..MaxPid]
    <3>1. pid' = [pid EXCEPT ![tmp[p]] = 0]
      BY <1>4 DEF ForkFail, Freeproc
    <3> HIDE DEF TypeOK
    <3>2. pid \in [Procs -> 0..MaxPid]
      BY DEF TypeOK
    <3>3. SUFFICES ASSUME NEW S, 0 \in S, pid \in [Procs -> S] PROVE pid' \in [Procs -> S]
      BY <2>0, <3>2, Zenon
    <3> QED BY <3>1, <3>3, Zenon
  <2>2. pc' \in [Procs -> PCs]
    BY <1>4, Zenon DEF ForkFail
  <2>3. state' \in [Procs -> States] /\ killed' \in [Procs -> BOOLEAN]
    BY <1>4, Zenon DEF ForkFail, Freeproc
  <2> QED BY <1>4, <2>1, <2>2, <2>3, LeaveType DEF ForkFail, Freeproc
<1>5. CASE ForkCopied(c, p)
  BY <1>5, Zenon DEF ForkCopied
<1>6. CASE ForkParent(c, p)
  BY <1>6, Zenon DEF ForkParent
<1>7. CASE ForkRun(c, p)
  BY <1>7, LeaveType, Zenon DEF ForkRun
<1> QED BY <1>1, <1>2, <1>3, <1>4, <1>5, <1>6, <1>7 DEF Kfork

\* kkill keeps the types.
LEMMA KkillType ==
  ASSUME TypeOK, NEW c \in CPUs, NEW p \in Procs, Kkill(c, p)
  PROVE  TypeOK'
<1> USE DEF TypeOK, PCs, States, Goto, At, Runs, table, locks, sched_vars
<1>1. CASE KillHit(c, p)
  BY <1>1, LeaveType DEF KillHit
<1>2. CASE KillMiss(c, p)
  BY <1>2, IndexFacts, Zenon DEF KillMiss
<1>3. CASE KillNone(c, p)
  BY <1>3, LeaveType, Zenon DEF KillNone
<1> QED BY <1>1, <1>2, <1>3 DEF Kkill

\* kexit and reparent keep the types.
LEMMA KexitType ==
  ASSUME TypeOK, NEW c \in CPUs, NEW p \in Procs, Kexit(c, p)
  PROVE  TypeOK'
<1> USE DEF TypeOK, PCs, States, Goto, At, Runs, table, locks, sched_vars
<1>1. CASE ExitLock(c, p)
  BY <1>1, IndexFacts DEF ExitLock
<1>2. CASE ReparentChild(c, p)
  BY <1>2, IndexFacts, Zenon DEF ReparentChild, initproc
<1>3. CASE ReparentOther(c, p)
  BY <1>3, IndexFacts, Zenon DEF ReparentOther
<1>4. ASSUME NEW ch, WakeSlot(p, ch) PROVE TypeOK'
  BY <1>4, IndexFacts, Zenon DEF WakeSlot
<1>5. CASE ReparentWoken(c, p)
  BY <1>5, IndexFacts DEF ReparentWoken
<1>6. CASE ReparentDone(c, p)
  BY <1>6, IndexFacts DEF ReparentDone
<1>7. CASE ExitWoken(c, p)
  BY <1>7 DEF ExitWoken
<1>8. CASE ExitZombie(c, p)
  BY <1>8, IndexFacts DEF ExitZombie
<1> QED
  BY <1>1, <1>2, <1>3, <1>4, <1>5, <1>6, <1>7, <1>8 DEF Kexit, ReparentWake, ExitWake

\* kwait and the sleep it calls keep the types.
LEMMA KwaitType ==
  ASSUME TypeOK, NEW c \in CPUs, NEW p \in Procs, Kwait(c, p)
  PROVE  TypeOK'
<1> USE DEF TypeOK, PCs, States, Goto, At, Runs, table, locks, sched_vars
<1>1. CASE WaitLock(c, p)
  BY <1>1, IndexFacts DEF WaitLock, StartScan
<1>2. CASE WaitOther(c, p)
  BY <1>2, IndexFacts, Zenon DEF WaitOther
<1>3. CASE WaitAlive(c, p)
  BY <1>3, IndexFacts, Zenon DEF WaitAlive
<1>4. CASE WaitReap(c, p)
  <2>1. pid' \in [Procs -> 0..MaxPid]
    BY <1>4, ProcAssumption DEF WaitReap, Freeproc
  <2>2. pc' \in [Procs -> PCs]
    BY <1>4 DEF WaitReap
  <2> QED BY <1>4, <2>1, <2>2, LeaveType, Zenon DEF WaitReap, Freeproc
<1>5. CASE WaitCopyoutFails(c, p)
  BY <1>5, LeaveType DEF WaitCopyoutFails
<1>6. CASE WaitGiveUp(c, p)
  BY <1>6, LeaveType DEF WaitGiveUp
<1>7. CASE WaitSleep(c, p)
  BY <1>7 DEF WaitSleep
<1>8. CASE SleepLock(c, p)
  BY <1>8 DEF SleepLock
<1>9. CASE SleepSet(c, p)
  BY <1>9 DEF SleepSet
<1>10. CASE SleepReturn(c, p)
  BY <1>10 DEF SleepReturn
<1>11. CASE SleepRelock(c, p)
  BY <1>11, IndexFacts DEF SleepRelock, StartScan
<1> QED
  BY <1>1, <1>2, <1>3, <1>4, <1>5, <1>6, <1>7, <1>8, <1>9, <1>10, <1>11, Zenon DEF Kwait

\* The variables keep their types in every reachable state of the process
\* table and the scheduler.
THEOREM ProcTypeOK == Spec => []TypeOK
<1>1. Init => TypeOK
  BY ProcAssumption, IndexFacts DEF Init, TypeOK, States, PCs, initproc
<1>2. TypeOK /\ [Next]_vars => TypeOK'
  <2> SUFFICES ASSUME TypeOK, [Next]_vars PROVE TypeOK'
    OBVIOUS
  <2>1. CASE UNCHANGED vars
    BY <2>1 DEF vars, table, locks, sched_vars, locals, TypeOK
  <2>2. CASE Next
    BY <2>2, SchedulerType, TrapType, KforkType, KkillType, KexitType, KwaitType DEF Next
  <2> QED BY <2>1, <2>2
<1> QED BY <1>1, <1>2, PTL DEF Spec

-----------------------------------------------------------------------------
(* The inductive invariant.                                                *)

ForkPCs == {"fork_copy", "fork_parent", "fork_run"}
YieldPCs == {"yield_sched", "yield_ret"}

\* p has a CPU: it is RUNNING, or has changed its state but not yet switched.
Busy(p) == state[p] = "RUNNING" \/ pc[p] \in SchedPCs

\* p is in kfork with a child slot tmp[p] in its hands.
Forking(p) == pc[p] \in ForkPCs \/ resume[p] \in ForkPCs

\* Cpu.proc follows the scheduler's loop variable, and p->lock is held until
\* the switch is over.
CpuInv ==
  \A c \in CPUs :
    /\ spc[c] = "scan" => cproc[c] = Nobody
    /\ spc[c] # "scan" => cproc[c] = si[c]
    /\ spc[c] = "back" => plock[si[c]] = c /\ ~Busy(si[c])

UniqueInv ==
  \A c, d \in CPUs : cproc[c] = cproc[d] /\ cproc[c] # Nobody => c = d

\* Where a thread can be in each state of its process.
PlaceOK(s, l) ==
  /\ s = "RUNNING" => l \notin SchedPCs \cup {"none", "zombie"}
  /\ s = "RUNNABLE" => l \in {"forkret", "yield_ret", "sleep_ret", "yield_sched"}
  /\ s = "SLEEPING" => l \in {"sleep_ret", "sleep_sched"}
  /\ s = "ZOMBIE" => l \in {"zombie", "exit_sched"}
  /\ s = "USED" => l = "forkret"
  /\ s = "UNUSED" => l = "none"

PlaceInv == \A p \in Procs : PlaceOK(state[p], pc[p])

BusyInv == \A p \in Procs : Busy(p) => \E c \in CPUs : Runs(c, p)

\* A process on a CPU, and the locks its CPU holds by the place of its thread.
RunInv ==
  \A c \in CPUs, p \in Procs : Runs(c, p) =>
    /\ Busy(p)
    /\ pc[p] \in OwnLockPCs => plock[p] = c
    /\ pc[p] \in WaitLockPCs => wlock = c
    /\ pc[p] = "fork_copy" => plock[tmp[p]] = c

\* Who may hold p->lock, and who wait_lock.
LockInv ==
  \A q \in Procs, d \in CPUs : plock[q] = d =>
    \/ cproc[d] = q /\ (spc[d] = "back" \/ pc[q] \in OwnLockPCs)
    \/ /\ spc[d] = "run" /\ cproc[d] \in Procs
       /\ pc[cproc[d]] = "fork_copy" /\ tmp[cproc[d]] = q

WaitLockInv ==
  \A c \in CPUs : wlock = c =>
    spc[c] = "run" /\ cproc[c] \in Procs /\ pc[cproc[c]] \in WaitLockPCs

\* The slot a fork is filling belongs to it alone.
ForkInv ==
  /\ \A p \in Procs : Forking(p) => tmp[p] \in Procs /\ state[tmp[p]] = "USED"
  /\ \A p, q \in Procs : Forking(p) /\ Forking(q) /\ tmp[p] = tmp[q] => p = q
  /\ \A p \in Procs : pc[p] = "fork_copy" => state[p] = "RUNNING"

\* Where a preempted thread will go on.
ResumeOK(l, r) ==
  /\ l \in YieldPCs => r \in Preemptible \cup {"user"}
  /\ l \notin YieldPCs => r = "none"

ResumeInv == \A p \in Procs : ResumeOK(pc[p], resume[p])

Core == /\ CpuInv /\ UniqueInv /\ PlaceInv /\ BusyInv /\ RunInv
        /\ LockInv /\ WaitLockInv /\ ForkInv /\ ResumeInv

-----------------------------------------------------------------------------
(* Switching: the steps that change what a CPU executes.                    *)

\* scheduler() takes the lock of a RUNNABLE process and switches to it: no
\* CPU had the process, because its lock was free.
LEMMA PickCore ==
  ASSUME TypeOK, TypeOK', Core, NEW c \in CPUs, SchedulerPick(c)
  PROVE  Core'
<1> SUFFICES ASSUME NEW p \in Procs, p = si[c] PROVE Core'
  BY DEF TypeOK
<1>0. /\ spc[c] = "scan" /\ plock[p] = Nobody /\ state[p] = "RUNNABLE"
      /\ UNCHANGED <<pc, resume, tmp, wlock, si>>
  BY DEF SchedulerPick, locals
<1>1. /\ plock' = [plock EXCEPT ![p] = c] /\ state' = [state EXCEPT ![p] = "RUNNING"]
      /\ cproc' = [cproc EXCEPT ![c] = p] /\ spc' = [spc EXCEPT ![c] = "run"]
  BY DEF SchedulerPick
<1>2. /\ plock'[p] = c /\ state'[p] = "RUNNING" /\ cproc'[c] = p /\ spc'[c] = "run"
      /\ \A r \in Procs \ {p} : plock'[r] = plock[r] /\ state'[r] = state[r]
      /\ \A d \in CPUs \ {c} : cproc'[d] = cproc[d] /\ spc'[d] = spc[d]
  BY <1>1 DEF TypeOK
<1>3. \A d \in CPUs : Runs(d, p) => FALSE
  <2> SUFFICES ASSUME NEW d \in CPUs, Runs(d, p) PROVE FALSE
    OBVIOUS
  <2>1. pc[p] \in OwnLockPCs
    BY <1>0 DEF Core, RunInv, Busy, OwnLockPCs
  <2> QED BY <2>1, <1>0, ProcAssumption DEF Core, RunInv
<1>4. ~Busy(p)
  BY <1>3 DEF Core, BusyInv
<1>5. \A d \in CPUs : cproc[d] # p
  <2> SUFFICES ASSUME NEW d \in CPUs, cproc[d] = p PROVE FALSE
    OBVIOUS
  <2>1. spc[d] # "back"
    BY <1>0, ProcAssumption DEF Core, CpuInv
  <2>2. spc[d] # "scan"
    BY IndexFacts DEF Core, CpuInv
  <2> QED BY <2>1, <2>2, <1>3 DEF TypeOK, Runs
<1>6. pc[p] \in {"forkret", "yield_ret", "sleep_ret"}
  BY <1>0, <1>4 DEF Core, PlaceInv, PlaceOK, Busy, SchedPCs
<1>7. CpuInv'
  <2> SUFFICES ASSUME NEW d \in CPUs
               PROVE  /\ spc'[d] = "scan" => cproc'[d] = Nobody
                      /\ spc'[d] # "scan" => cproc'[d] = si[d]
                      /\ spc'[d] = "back" => plock'[si[d]] = d /\ ~Busy(si[d])'
    BY <1>0 DEF CpuInv
  <2>1. CASE d = c
    BY <2>1, <1>2
  <2>2. CASE d # c
    <3>1. spc[d] = "back" => si[d] # p /\ si[d] \in Procs
      BY <1>5 DEF Core, CpuInv, TypeOK
    <3> QED BY <2>2, <3>1, <1>0, <1>2 DEF Core, CpuInv, Busy
  <2> QED BY <2>1, <2>2
<1>8. UniqueInv'
  <2> SUFFICES ASSUME NEW d \in CPUs, NEW e \in CPUs, cproc'[d] = cproc'[e],
                      cproc'[d] # Nobody
               PROVE  d = e
    BY DEF UniqueInv
  <2>1. CASE d # c /\ e # c
    BY <2>1, <1>2 DEF Core, UniqueInv
  <2> QED BY <2>1, <1>2, <1>5
<1>9. PlaceInv'
  BY <1>0, <1>2, <1>6 DEF Core, PlaceInv, PlaceOK, SchedPCs
<1>10. BusyInv'
  <2> SUFFICES ASSUME NEW r \in Procs, Busy(r)' PROVE \E d \in CPUs : Runs(d, r)'
    BY DEF BusyInv
  <2>1. CASE r = p
    BY <2>1, <1>2 DEF Runs
  <2>2. CASE r # p
    <3>1. PICK d \in CPUs : Runs(d, r)
      BY <2>2, <1>0, <1>2 DEF Core, BusyInv, Busy
    <3> QED BY <3>1, <1>0, <1>2 DEF Runs
  <2> QED BY <2>1, <2>2
<1>11. \A d \in CPUs, r \in Procs : Runs(d, r)' => (d = c /\ r = p) \/ (Runs(d, r) /\ d # c /\ r # p)
  BY <1>2, <1>5 DEF Runs
<1>12. RunInv'
  <2> SUFFICES ASSUME NEW d \in CPUs, NEW r \in Procs, Runs(d, r)'
               PROVE  /\ Busy(r)'
                      /\ pc'[r] \in OwnLockPCs => plock'[r] = d
                      /\ pc'[r] \in WaitLockPCs => wlock' = d
                      /\ pc'[r] = "fork_copy" => plock'[tmp'[r]] = d
    BY DEF RunInv
  <2>1. CASE d = c /\ r = p
    <3>1. pc'[p] \in {"forkret", "yield_ret", "sleep_ret"}
      BY <1>0, <1>6
    <3>2. pc'[p] \notin WaitLockPCs /\ pc'[p] # "fork_copy"
      BY <3>1 DEF WaitLockPCs
    <3> QED BY <2>1, <3>2, <1>2 DEF Busy
  <2>2. CASE Runs(d, r) /\ d # c /\ r # p
    <3>1. ASSUME pc[r] = "fork_copy" PROVE plock'[tmp[r]] = d
      <4>1. tmp[r] \in Procs /\ plock[tmp[r]] = d
        BY <2>2, <3>1 DEF Core, RunInv, ForkInv, Forking, ForkPCs
      <4> QED BY <4>1, <1>0, <1>2, ProcAssumption
    <3>2. /\ Busy(r)
          /\ pc[r] \in OwnLockPCs => plock[r] = d
          /\ pc[r] \in WaitLockPCs => wlock = d
      BY <2>2 DEF Core, RunInv
    <3>3. /\ pc' = pc /\ wlock' = wlock /\ tmp' = tmp
          /\ plock'[r] = plock[r] /\ state'[r] = state[r]
      BY <2>2, <1>0, <1>2
    <3> QED BY <3>1, <3>2, <3>3 DEF Busy
  <2> QED BY <2>1, <2>2, <1>11
<1>13. LockInv'
  <2> SUFFICES ASSUME NEW r \in Procs, NEW d \in CPUs, plock'[r] = d
               PROVE  \/ cproc'[d] = r /\ (spc'[d] = "back" \/ pc[r] \in OwnLockPCs)
                      \/ /\ spc'[d] = "run" /\ cproc'[d] \in Procs
                         /\ pc[cproc'[d]] = "fork_copy" /\ tmp[cproc'[d]] = r
    BY <1>0 DEF LockInv
  <2>1. CASE r = p
    BY <2>1, <1>2, <1>6 DEF OwnLockPCs
  <2>2. CASE r # p
    <3>1. plock[r] = d /\ d # c
      <4>1. plock[r] = d
        BY <2>2, <1>2
      <4>2. cproc[c] = Nobody
        BY <1>0 DEF Core, CpuInv
      <4>3. cproc[d] = r \/ spc[d] = "run"
        BY <4>1 DEF Core, LockInv
      <4> QED BY <4>1, <4>2, <4>3, <1>0, IndexFacts
    <3> QED BY <3>1, <1>2 DEF Core, LockInv
  <2> QED BY <2>1, <2>2
<1>14. WaitLockInv'
  <2> SUFFICES ASSUME NEW d \in CPUs, wlock = d
               PROVE  /\ spc'[d] = "run" /\ cproc'[d] \in Procs
                      /\ pc[cproc'[d]] \in WaitLockPCs
    BY <1>0 DEF WaitLockInv
  <2>1. spc[d] = "run" /\ cproc[d] \in Procs /\ pc[cproc[d]] \in WaitLockPCs
    BY DEF Core, WaitLockInv
  <2>2. d # c
    BY <2>1, <1>0, Zenon
  <2> QED BY <2>1, <2>2, <1>2
<1>15. ForkInv'
  <2>1. \A r \in Procs : Forking(r)' <=> Forking(r)
    BY <1>0, Zenon DEF Forking
  <2>2. \A r \in Procs : Forking(r) => tmp[r] # p
    BY <1>0 DEF Core, ForkInv
  <2>3. \A r \in Procs : pc[r] = "fork_copy" => r # p
    BY <1>6, Zenon
  <2> QED BY <2>1, <2>2, <2>3, <1>0, <1>2 DEF Core, ForkInv
<1>16. ResumeInv'
  BY <1>0 DEF Core, ResumeInv
<1> QED
  BY <1>7, <1>8, <1>9, <1>10, <1>12, <1>13, <1>14, <1>15, <1>16 DEF Core
=============================================================================
