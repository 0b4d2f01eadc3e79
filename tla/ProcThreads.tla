---------------------------- MODULE ProcThreads -----------------------------
(***************************************************************************)
(* The steps of the threads of Proc that stay on their own process are     *)
(* steps that keep Core.                                                   *)
(***************************************************************************)
EXTENDS ProcInvariant

-----------------------------------------------------------------------------
(* Most steps of a thread touch only its own process and wait_lock, or make *)
(* a sleeping process RUNNABLE.                                             *)

OwnStep(c, p) ==
  /\ Runs(c, p) /\ UNCHANGED sched_vars
  /\ \A q \in Procs \ {p} : /\ pc'[q] = pc[q] /\ plock'[q] = plock[q]
                            /\ resume'[q] = resume[q] /\ tmp'[q] = tmp[q]
                            /\ \/ state'[q] = state[q]
                               \/ /\ state[q] = "SLEEPING" /\ plock[q] = Nobody
                                  /\ state'[q] = "RUNNABLE"
  /\ Busy(p)' /\ PlaceOK(state'[p], pc'[p]) /\ ResumeOK(pc'[p], resume'[p])
  /\ pc'[p] \in OwnLockPCs => plock'[p] = c
  /\ plock'[p] = plock[p] \/ plock'[p] \in {c, Nobody}
  /\ plock'[p] = c => pc'[p] \in OwnLockPCs
  /\ pc'[p] \in WaitLockPCs <=> wlock' = c
  /\ \A d \in CPUs \ {c} : wlock' = d => wlock = d
  /\ \A d \in CPUs \ {c} : wlock = d => wlock' = d
  /\ pc[p] # "fork_copy" /\ pc'[p] # "fork_copy"
  /\ Forking(p)' => Forking(p) /\ tmp'[p] = tmp[p]
  /\ state[p] # "USED"

\* A step on the thread's own process keeps the invariant.
LEMMA OwnStepCore ==
  ASSUME TypeOK, TypeOK', Core, NEW c \in CPUs, NEW p \in Procs, OwnStep(c, p)
  PROVE  Core'
<1>0. /\ Runs(c, p) /\ cproc' = cproc /\ spc' = spc /\ si' = si
      /\ cproc[c] = p /\ spc[c] = "run"
  BY DEF OwnStep, sched_vars, Runs
<1>1. \A d \in CPUs : d # c => cproc[d] # p
  BY <1>0, IndexFacts DEF Core, UniqueInv
<1>2. CpuInv'
  <2> SUFFICES ASSUME NEW d \in CPUs, spc[d] = "back"
               PROVE  plock'[si[d]] = d /\ ~Busy(si[d])'
    BY <1>0 DEF CpuInv, Core
  <2>1. si[d] # p /\ si[d] \in Procs
    BY <1>0, <1>1 DEF Core, CpuInv, TypeOK
  <2> QED BY <2>1, <1>0, ProcAssumption DEF OwnStep, Core, CpuInv, Busy
<1>3. UniqueInv'
  BY <1>0 DEF Core, UniqueInv
<1>4. PlaceInv'
  <2> SUFFICES ASSUME NEW q \in Procs, q # p PROVE PlaceOK(state'[q], pc'[q])
    BY DEF PlaceInv, OwnStep
  <2>1. CASE state'[q] = state[q]
    BY <2>1 DEF Core, PlaceInv, OwnStep
  <2>2. CASE state[q] = "SLEEPING" /\ plock[q] = Nobody /\ state'[q] = "RUNNABLE"
    <3>1. pc[q] # "sleep_sched"
      BY <2>2, ProcAssumption DEF Core, BusyInv, RunInv, Busy, SchedPCs, OwnLockPCs
    <3>2. pc[q] = "sleep_ret"
      BY <2>2, <3>1 DEF Core, PlaceInv, PlaceOK
    <3> QED BY <2>2, <3>2 DEF PlaceOK, OwnStep
  <2> QED BY <2>1, <2>2 DEF OwnStep
<1>5. BusyInv'
  <2> SUFFICES ASSUME NEW q \in Procs, Busy(q)' PROVE \E d \in CPUs : Runs(d, q)'
    BY DEF BusyInv
  <2>1. CASE q = p
    BY <2>1, <1>0 DEF Runs
  <2>2. CASE q # p
    <3>1. Busy(q)
      BY <2>2 DEF Busy, OwnStep
    <3> QED BY <3>1, <1>0 DEF Core, BusyInv, Runs
  <2> QED BY <2>1, <2>2
<1>6. RunInv'
  <2> SUFFICES ASSUME NEW d \in CPUs, NEW q \in Procs, Runs(d, q)'
               PROVE  /\ Busy(q)'
                      /\ pc'[q] \in OwnLockPCs => plock'[q] = d
                      /\ pc'[q] \in WaitLockPCs => wlock' = d
                      /\ pc'[q] = "fork_copy" => plock'[tmp'[q]] = d
    BY DEF RunInv
  <2>1. CASE q = p
    <3>1. d = c
      BY <2>1, <1>0, <1>1 DEF Runs
    <3> QED BY <2>1, <3>1 DEF OwnStep
  <2>2. CASE q # p
    <3>1. Runs(d, q) /\ d # c
      BY <2>2, <1>0 DEF Runs
    <3>2. Busy(q)' /\ (pc'[q] \in OwnLockPCs => plock'[q] = d)
      BY <3>1, <2>2 DEF Core, RunInv, OwnStep, Busy
    <3>3. pc'[q] \in WaitLockPCs => wlock' = d
      BY <3>1, <2>2 DEF Core, RunInv, OwnStep
    <3>4. ASSUME pc'[q] = "fork_copy" PROVE plock'[tmp'[q]] = d
      <4>1. pc[q] = "fork_copy" /\ tmp'[q] = tmp[q]
        BY <3>4, <2>2 DEF OwnStep
      <4>2. tmp[q] \in Procs /\ state[tmp[q]] = "USED"
        BY <4>1 DEF Core, ForkInv, Forking, ForkPCs
      <4> QED BY <4>1, <4>2, <3>1 DEF Core, RunInv, OwnStep
    <3> QED BY <3>2, <3>3, <3>4
  <2> QED BY <2>1, <2>2
<1>7. LockInv'
  <2> SUFFICES ASSUME NEW q \in Procs, NEW d \in CPUs, plock'[q] = d
               PROVE  \/ cproc[d] = q /\ (spc[d] = "back" \/ pc'[q] \in OwnLockPCs)
                      \/ /\ spc[d] = "run" /\ cproc[d] \in Procs
                         /\ pc'[cproc[d]] = "fork_copy" /\ tmp'[cproc[d]] = q
    BY <1>0 DEF LockInv
  <2>1. CASE q = p /\ d = c
    BY <2>1, <1>0 DEF OwnStep
  <2>2. CASE q = p /\ d # c
    <3>1. plock[p] = d
      BY <2>2, ProcAssumption DEF OwnStep
    <3>2. cproc[d] # p
      BY <1>1, <2>2
    <3>3. spc[d] = "run" /\ cproc[d] \in Procs /\ pc[cproc[d]] = "fork_copy" /\ tmp[cproc[d]] = q
      BY <2>2, <3>1, <3>2 DEF Core, LockInv
    <3> QED BY <3>2, <3>3 DEF OwnStep
  <2>3. CASE q # p
    <3>1. plock[q] = d
      BY <2>3 DEF OwnStep
    <3>2. CASE cproc[d] = q /\ (spc[d] = "back" \/ pc[q] \in OwnLockPCs)
      BY <3>2, <2>3 DEF OwnStep
    <3>3. CASE spc[d] = "run" /\ cproc[d] \in Procs /\ pc[cproc[d]] = "fork_copy" /\ tmp[cproc[d]] = q
      BY <3>3, <1>0 DEF OwnStep
    <3> QED BY <3>1, <3>2, <3>3 DEF Core, LockInv
  <2> QED BY <2>1, <2>2, <2>3
<1>8. WaitLockInv'
  <2> SUFFICES ASSUME NEW d \in CPUs, wlock' = d
               PROVE  spc[d] = "run" /\ cproc[d] \in Procs /\ pc'[cproc[d]] \in WaitLockPCs
    BY <1>0 DEF WaitLockInv
  <2>1. CASE d = c
    BY <2>1, <1>0 DEF OwnStep
  <2>2. CASE d # c
    BY <2>2, <1>0, <1>1 DEF OwnStep, Core, WaitLockInv
  <2> QED BY <2>1, <2>2
<1>9. ForkInv'
  <2>1. \A q \in Procs : Forking(q)' => Forking(q) /\ tmp'[q] = tmp[q]
    BY DEF OwnStep, Forking
  <2>2. \A q \in Procs : state[q] = "USED" => state'[q] = "USED"
    BY DEF OwnStep
  <2>3. \A q \in Procs : Forking(q)' => tmp'[q] \in Procs /\ state'[tmp'[q]] = "USED"
    BY <2>1, <2>2 DEF Core, ForkInv
  <2>4. \A q, r \in Procs : Forking(q)' /\ Forking(r)' /\ tmp'[q] = tmp'[r] => q = r
    BY <2>1 DEF Core, ForkInv
  <2>5. ASSUME NEW q \in Procs, pc'[q] = "fork_copy" PROVE state'[q] = "RUNNING"
    <3>1. q # p /\ pc[q] = "fork_copy" /\ (state'[q] = state[q] \/ state[q] = "SLEEPING")
      BY <2>5 DEF OwnStep
    <3>2. state[q] = "RUNNING"
      BY <3>1 DEF Core, ForkInv
    <3> QED BY <3>1, <3>2
  <2> QED BY <2>3, <2>4, <2>5 DEF ForkInv
<1>10. ResumeInv'
  BY DEF Core, ResumeInv, OwnStep
<1> QED
  BY <1>2, <1>3, <1>4, <1>5, <1>6, <1>7, <1>8, <1>9, <1>10 DEF Core

\* The types an OwnStep speaks of.
OwnTypes ==
  /\ state \in [Procs -> States] /\ pc \in [Procs -> PCs] /\ resume \in [Procs -> PCs]
  /\ plock \in [Procs -> CPUs \cup {Nobody}] /\ wlock \in CPUs \cup {Nobody}
  /\ tmp \in [Procs -> Nat]

\* What the invariant says of a process on a CPU: by the place of its thread,
\* its state and the locks its CPU holds.
LEMMA RunFacts ==
  ASSUME TypeOK, Core, NEW c \in CPUs, NEW p \in Procs, Runs(c, p)
  PROVE  /\ pc[p] \notin SchedPCs => state[p] = "RUNNING"
         /\ pc[p] \in OwnLockPCs <=> plock[p] = c
         /\ pc[p] \in WaitLockPCs <=> wlock = c
         /\ PlaceOK(state[p], pc[p]) /\ ResumeOK(pc[p], resume[p])
         /\ state[p] # "USED"
<1>1. Busy(p) /\ PlaceOK(state[p], pc[p]) /\ ResumeOK(pc[p], resume[p])
  BY DEF Core, RunInv, PlaceInv, ResumeInv
<1>2. state[p] # "USED"
  BY <1>1 DEF Busy, PlaceOK, SchedPCs
<1>3. pc[p] \in OwnLockPCs <=> plock[p] = c
  <2>1. ASSUME plock[p] = c PROVE pc[p] \in OwnLockPCs
    <3>1. ~(pc[p] = "fork_copy" /\ tmp[p] = p)
      BY <1>2 DEF Core, ForkInv, Forking, ForkPCs
    <3> QED BY <2>1, <3>1 DEF Core, LockInv, Runs
  <2> QED BY <2>1 DEF Core, RunInv
<1>4. pc[p] \in WaitLockPCs <=> wlock = c
  BY DEF Core, RunInv, WaitLockInv, Runs
<1> QED BY <1>1, <1>2, <1>3, <1>4 DEF Busy

\* Traps and the timer work on the thread's own process.
LEMMA TrapOwn ==
  ASSUME TypeOK, Core, NEW c \in CPUs, NEW p \in Procs,
         \/ Forkret(c, p) \/ KernelTimer(c, p) \/ UserTimer(c, p) \/ YieldReturn(c, p)
         \/ TrapKilled(c, p) \/ Syscall(c, p) \/ TrapReturn(c, p)
  PROVE  OwnStep(c, p)
<1>0. Runs(c, p)
  BY Zenon DEF At, Forkret, KernelTimer, UserTimer, YieldReturn, TrapKilled, Syscall, TrapReturn
<1>a. /\ pc[p] \notin SchedPCs => state[p] = "RUNNING"
      /\ pc[p] \in OwnLockPCs <=> plock[p] = c
      /\ pc[p] \in WaitLockPCs <=> wlock = c
      /\ PlaceOK(state[p], pc[p]) /\ ResumeOK(pc[p], resume[p])
      /\ state[p] # "USED"
  BY <1>0, RunFacts, Zenon
<1>b. OwnTypes
  BY DEF TypeOK, OwnTypes
<1> USE DEF At, Goto, OwnStep, Busy, Forking, ForkPCs, PlaceOK, ResumeOK, YieldPCs,
            Preemptible, SchedPCs, OwnLockPCs, WaitLockPCs, table, locks,
            OwnTypes
<1>1. CASE Forkret(c, p)
  BY <1>1, <1>a, <1>b, ProcAssumption DEF Forkret
<1>2. CASE KernelTimer(c, p)
  BY <1>2, <1>a, <1>b, ProcAssumption DEF KernelTimer, EnterYield
<1>3. CASE UserTimer(c, p)
  BY <1>3, <1>a, <1>b, ProcAssumption DEF UserTimer, EnterYield
<1>4. CASE YieldReturn(c, p)
  BY <1>4, <1>a, <1>b, ProcAssumption DEF YieldReturn
<1>5. CASE TrapKilled(c, p)
  BY <1>5, <1>a, <1>b, ProcAssumption DEF TrapKilled
<1>6. CASE Syscall(c, p)
  BY <1>6, <1>a, <1>b, ProcAssumption DEF Syscall
<1>7. CASE TrapReturn(c, p)
  BY <1>7, <1>a, <1>b, ProcAssumption DEF TrapReturn
<1> HIDE DEF At, Goto, OwnStep, Busy, Forking, ForkPCs, PlaceOK, ResumeOK, YieldPCs,
             Preemptible, SchedPCs, OwnLockPCs, WaitLockPCs, table, locks,
             OwnTypes
<1> QED BY <1>1, <1>2, <1>3, <1>4, <1>5, <1>6, <1>7

\* The steps of kfork that leave the child's slot alone work on the thread's
\* own process.
LEMMA KforkOwn ==
  ASSUME TypeOK, Core, NEW c \in CPUs, NEW p \in Procs,
         \/ AllocprocSkip(c, p) \/ AllocprocNone(c, p) \/ ForkParent(c, p)
  PROVE  OwnStep(c, p)
<1>0. Runs(c, p)
  BY Zenon DEF At, AllocprocSkip, AllocprocNone, ForkParent
<1>a. /\ pc[p] \notin SchedPCs => state[p] = "RUNNING"
      /\ pc[p] \in OwnLockPCs <=> plock[p] = c
      /\ pc[p] \in WaitLockPCs <=> wlock = c
      /\ PlaceOK(state[p], pc[p]) /\ ResumeOK(pc[p], resume[p])
      /\ state[p] # "USED"
  BY <1>0, RunFacts, Zenon
<1>b. OwnTypes
  BY DEF TypeOK, OwnTypes
<1> USE DEF At, Goto, OwnStep, Busy, Forking, ForkPCs, PlaceOK, ResumeOK, YieldPCs,
            Preemptible, SchedPCs, OwnLockPCs, WaitLockPCs, table, locks,
            OwnTypes
<1>1. CASE AllocprocSkip(c, p)
  BY <1>1, <1>a, <1>b, ProcAssumption DEF AllocprocSkip
<1>2. CASE AllocprocNone(c, p)
  BY <1>2, <1>a, <1>b, ProcAssumption DEF AllocprocNone, Leave
<1>3. CASE ForkParent(c, p)
  BY <1>3, <1>a, <1>b, ProcAssumption DEF ForkParent
<1> HIDE DEF At, Goto, OwnStep, Busy, Forking, ForkPCs, PlaceOK, ResumeOK, YieldPCs,
             Preemptible, SchedPCs, OwnLockPCs, WaitLockPCs, table, locks,
             OwnTypes
<1> QED BY <1>1, <1>2, <1>3

\* kkill changes another process only from SLEEPING to RUNNABLE.
LEMMA KkillOwn ==
  ASSUME TypeOK, Core, NEW c \in CPUs, NEW p \in Procs,
         \/ KillHit(c, p) \/ KillMiss(c, p) \/ KillNone(c, p)
  PROVE  OwnStep(c, p)
<1>0. Runs(c, p)
  BY Zenon DEF At, KillHit, KillMiss, KillNone
<1>a. /\ pc[p] \notin SchedPCs => state[p] = "RUNNING"
      /\ pc[p] \in OwnLockPCs <=> plock[p] = c
      /\ pc[p] \in WaitLockPCs <=> wlock = c
      /\ PlaceOK(state[p], pc[p]) /\ ResumeOK(pc[p], resume[p])
      /\ state[p] # "USED"
  BY <1>0, RunFacts, Zenon
<1>b. OwnTypes
  BY DEF TypeOK, OwnTypes
<1> USE DEF At, Goto, OwnStep, Busy, Forking, ForkPCs, PlaceOK, ResumeOK, YieldPCs,
            Preemptible, SchedPCs, OwnLockPCs, WaitLockPCs, table, locks,
            OwnTypes
<1>1. CASE KillHit(c, p)
  BY <1>1, <1>a, <1>b, ProcAssumption DEF KillHit, Leave
<1>2. CASE KillMiss(c, p)
  BY <1>2, <1>a, <1>b, ProcAssumption DEF KillMiss
<1>3. CASE KillNone(c, p)
  BY <1>3, <1>a, <1>b, ProcAssumption DEF KillNone, Leave
<1> HIDE DEF At, Goto, OwnStep, Busy, Forking, ForkPCs, PlaceOK, ResumeOK, YieldPCs,
             Preemptible, SchedPCs, OwnLockPCs, WaitLockPCs, table, locks,
             OwnTypes
<1> QED BY <1>1, <1>2, <1>3

\* kexit changes another process only from SLEEPING to RUNNABLE.
LEMMA KexitOwn ==
  ASSUME TypeOK, Core, NEW c \in CPUs, NEW p \in Procs,
         \/ ExitLock(c, p) \/ ReparentChild(c, p) \/ ReparentOther(c, p)
         \/ ReparentWake(c, p) \/ ReparentWoken(c, p) \/ ReparentDone(c, p)
         \/ ExitWake(c, p) \/ ExitWoken(c, p) \/ ExitZombie(c, p)
  PROVE  OwnStep(c, p)
<1>0. Runs(c, p)
  BY Zenon DEF At, ExitLock, ReparentChild, ReparentOther, ReparentWake, ReparentWoken,
         ReparentDone, ExitWake, ExitWoken, ExitZombie
<1>a. /\ pc[p] \notin SchedPCs => state[p] = "RUNNING"
      /\ pc[p] \in OwnLockPCs <=> plock[p] = c
      /\ pc[p] \in WaitLockPCs <=> wlock = c
      /\ PlaceOK(state[p], pc[p]) /\ ResumeOK(pc[p], resume[p])
      /\ state[p] # "USED"
  BY <1>0, RunFacts, Zenon
<1>b. OwnTypes
  BY DEF TypeOK, OwnTypes
<1> USE DEF At, Goto, OwnStep, Busy, Forking, ForkPCs, PlaceOK, ResumeOK, YieldPCs,
            Preemptible, SchedPCs, OwnLockPCs, WaitLockPCs, table, locks,
            OwnTypes
<1>1. CASE ExitLock(c, p)
  BY <1>1, <1>a, <1>b, ProcAssumption DEF ExitLock
<1>2. CASE ReparentChild(c, p)
  BY <1>2, <1>a, <1>b, ProcAssumption DEF ReparentChild
<1>3. CASE ReparentOther(c, p)
  BY <1>3, <1>a, <1>b, ProcAssumption DEF ReparentOther
<1>4. CASE ReparentWake(c, p)
  BY <1>4, <1>a, <1>b, ProcAssumption DEF ReparentWake, WakeSlot
<1>5. CASE ReparentWoken(c, p)
  BY <1>5, <1>a, <1>b, ProcAssumption DEF ReparentWoken
<1>6. CASE ReparentDone(c, p)
  BY <1>6, <1>a, <1>b, ProcAssumption DEF ReparentDone
<1>7. CASE ExitWake(c, p)
  BY <1>7, <1>a, <1>b, ProcAssumption, Zenon DEF ExitWake, WakeSlot
<1>8. CASE ExitWoken(c, p)
  BY <1>8, <1>a, <1>b, ProcAssumption DEF ExitWoken
<1>9. CASE ExitZombie(c, p)
  BY <1>9, <1>a, <1>b, ProcAssumption DEF ExitZombie
<1> HIDE DEF At, Goto, OwnStep, Busy, Forking, ForkPCs, PlaceOK, ResumeOK, YieldPCs,
             Preemptible, SchedPCs, OwnLockPCs, WaitLockPCs, table, locks,
             OwnTypes
<1> QED BY <1>1, <1>2, <1>3, <1>4, <1>5, <1>6, <1>7, <1>8, <1>9

\* kwait and sleep work on the thread's own process.
LEMMA KwaitOwn ==
  ASSUME TypeOK, Core, NEW c \in CPUs, NEW p \in Procs,
         \/ WaitLock(c, p) \/ WaitOther(c, p) \/ WaitAlive(c, p)
         \/ WaitCopyoutFails(c, p) \/ WaitGiveUp(c, p) \/ WaitSleep(c, p)
         \/ SleepLock(c, p) \/ SleepSet(c, p) \/ SleepReturn(c, p)
         \/ SleepRelock(c, p)
  PROVE  OwnStep(c, p)
<1>0. Runs(c, p)
  BY Zenon DEF At, WaitLock, WaitOther, WaitAlive, WaitCopyoutFails, WaitGiveUp,
         WaitSleep, SleepLock, SleepSet, SleepReturn, SleepRelock
<1>a. /\ pc[p] \notin SchedPCs => state[p] = "RUNNING"
      /\ pc[p] \in OwnLockPCs <=> plock[p] = c
      /\ pc[p] \in WaitLockPCs <=> wlock = c
      /\ PlaceOK(state[p], pc[p]) /\ ResumeOK(pc[p], resume[p])
      /\ state[p] # "USED"
  BY <1>0, RunFacts, Zenon
<1>b. OwnTypes
  BY DEF TypeOK, OwnTypes
<1> USE DEF At, Goto, OwnStep, Busy, Forking, ForkPCs, PlaceOK, ResumeOK, YieldPCs,
            Preemptible, SchedPCs, OwnLockPCs, WaitLockPCs, table, locks,
            OwnTypes
<1>1. CASE WaitLock(c, p)
  BY <1>1, <1>a, <1>b, ProcAssumption DEF WaitLock, StartScan
<1>2. CASE WaitOther(c, p)
  BY <1>2, <1>a, <1>b, ProcAssumption, Zenon DEF WaitOther
<1>3. CASE WaitAlive(c, p)
  BY <1>3, <1>a, <1>b, ProcAssumption DEF WaitAlive
<1>4. CASE WaitCopyoutFails(c, p)
  BY <1>4, <1>a, <1>b, ProcAssumption, Zenon DEF WaitCopyoutFails, Leave
<1>5. CASE WaitGiveUp(c, p)
  BY <1>5, <1>a, <1>b, ProcAssumption, Zenon DEF WaitGiveUp, Leave
<1>6. CASE WaitSleep(c, p)
  BY <1>6, <1>a, <1>b, ProcAssumption, Zenon DEF WaitSleep
<1>7. CASE SleepLock(c, p)
  BY <1>7, <1>a, <1>b, ProcAssumption, Zenon DEF SleepLock
<1>8. CASE SleepSet(c, p)
  BY <1>8, <1>a, <1>b, ProcAssumption, Zenon DEF SleepSet
<1>9. CASE SleepReturn(c, p)
  BY <1>9, <1>a, <1>b, ProcAssumption DEF SleepReturn
<1>10. CASE SleepRelock(c, p)
  BY <1>10, <1>a, <1>b, ProcAssumption DEF SleepRelock, StartScan
<1> HIDE DEF At, Goto, OwnStep, Busy, Forking, ForkPCs, PlaceOK, ResumeOK, YieldPCs,
             Preemptible, SchedPCs, OwnLockPCs, WaitLockPCs, table, locks,
             OwnTypes
<1> QED BY <1>1, <1>2, <1>3, <1>4, <1>5, <1>6, <1>7, <1>8, <1>9, <1>10
=============================================================================
