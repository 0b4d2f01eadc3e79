----------------------------- MODULE ProcProofs -----------------------------
(***************************************************************************)
(* For any number of slots and CPUs, no process is on two CPUs and the     *)
(* panics of sched and of release are unreachable.                         *)
(***************************************************************************)
EXTENDS ProcSlots, FiniteSetTheorems

-----------------------------------------------------------------------------
(* The other steps that change what a CPU executes.                         *)

\* A slot the scheduler passes over changes nothing the invariant speaks of.
LEMMA SkipCore ==
  ASSUME TypeOK, Core, NEW c \in CPUs, SchedulerSkip(c)
  PROVE  Core'
<1>0. /\ UNCHANGED <<state, plock, wlock, cproc, spc, pc, resume, tmp>>
      /\ spc[c] = "scan" /\ \A d \in CPUs \ {c} : si'[d] = si[d]
  BY DEF SchedulerSkip, table, locks, locals, TypeOK
<1>1. CpuInv'
  BY <1>0 DEF Core, CpuInv, Busy
<1>2. UniqueInv' /\ PlaceInv' /\ ResumeInv' /\ WaitLockInv' /\ LockInv'
  BY <1>0 DEF Core, UniqueInv, PlaceInv, ResumeInv, WaitLockInv, LockInv
<1>3. BusyInv' /\ RunInv' /\ ForkInv'
  BY <1>0 DEF Core, BusyInv, RunInv, ForkInv, Busy, Runs, Forking
<1> QED BY <1>1, <1>2, <1>3 DEF Core

\* Back from swtch the scheduler releases the process it ran.
LEMMA BackCore ==
  ASSUME TypeOK, TypeOK', Core, NEW c \in CPUs, SchedulerBack(c)
  PROVE  Core'
<1> SUFFICES ASSUME NEW p \in Procs, p = si[c] PROVE Core'
  BY DEF TypeOK
<1>0. /\ spc[c] = "back" /\ UNCHANGED <<state, pc, resume, tmp, wlock>>
      /\ cproc'[c] = Nobody /\ spc'[c] = "scan" /\ plock'[p] = Nobody
      /\ \A r \in Procs \ {p} : plock'[r] = plock[r]
      /\ \A d \in CPUs \ {c} : cproc'[d] = cproc[d] /\ spc'[d] = spc[d] /\ si'[d] = si[d]
  BY DEF SchedulerBack, table, locals, TypeOK
<1>1. cproc[c] = p /\ plock[p] = c /\ ~Busy(p)
  BY <1>0 DEF Core, CpuInv
<1>2. \A d \in CPUs : d # c => cproc[d] # p
  BY <1>1, IndexFacts DEF Core, UniqueInv
<1>3. \A d \in CPUs, r \in Procs : Runs(d, r)' <=> Runs(d, r)
  BY <1>0 DEF Runs
<1>4. \A d \in CPUs, r \in Procs : Runs(d, r) => r # p /\ d # c
  BY <1>0, <1>1, <1>2 DEF Runs
<1>5. CpuInv'
  <2> SUFFICES ASSUME NEW d \in CPUs
               PROVE  /\ spc'[d] = "scan" => cproc'[d] = Nobody
                      /\ spc'[d] # "scan" => cproc'[d] = si'[d]
                      /\ spc'[d] = "back" => plock'[si'[d]] = d /\ ~Busy(si[d])'
    BY <1>0 DEF CpuInv
  <2>1. CASE d = c
    BY <2>1, <1>0
  <2>2. CASE d # c
    <3>1. spc[d] = "back" => si[d] # p /\ si[d] \in Procs
      BY <1>2, <2>2 DEF Core, CpuInv, TypeOK
    <3> QED BY <2>2, <3>1, <1>0 DEF Core, CpuInv, Busy
  <2> QED BY <2>1, <2>2
<1>6. UniqueInv'
  BY <1>0 DEF Core, UniqueInv
<1>7. PlaceInv' /\ ResumeInv' /\ ForkInv'
  BY <1>0 DEF Core, PlaceInv, ResumeInv, ForkInv, Forking
<1>8. BusyInv'
  BY <1>0, <1>3 DEF Core, BusyInv, Busy
<1>9. RunInv'
  <2> SUFFICES ASSUME NEW d \in CPUs, NEW r \in Procs, Runs(d, r)
               PROVE  /\ Busy(r)'
                      /\ pc[r] \in OwnLockPCs => plock'[r] = d
                      /\ pc[r] \in WaitLockPCs => wlock = d
                      /\ pc[r] = "fork_copy" => plock'[tmp[r]] = d
    BY <1>0, <1>3 DEF RunInv
  <2>1. ASSUME pc[r] = "fork_copy" PROVE plock'[tmp[r]] = d
    <3>1. tmp[r] \in Procs /\ plock[tmp[r]] = d /\ d # c
      BY <2>1, <1>4 DEF Core, RunInv, ForkInv, Forking, ForkPCs
    <3> QED BY <3>1, <1>0, <1>1
  <2> QED BY <2>1, <1>0, <1>4 DEF Core, RunInv, Busy
<1>10. LockInv'
  <2> SUFFICES ASSUME NEW r \in Procs, NEW d \in CPUs, plock'[r] = d
               PROVE  \/ cproc'[d] = r /\ (spc'[d] = "back" \/ pc[r] \in OwnLockPCs)
                      \/ /\ spc'[d] = "run" /\ cproc'[d] \in Procs
                         /\ pc[cproc'[d]] = "fork_copy" /\ tmp[cproc'[d]] = r
    BY <1>0 DEF LockInv
  <2>1. r # p /\ plock[r] = d
    BY <1>0, ProcAssumption
  <2>2. d # c
    BY <2>1, <1>0, <1>1 DEF Core, LockInv
  <2> QED BY <2>1, <2>2, <1>0 DEF Core, LockInv
<1>11. WaitLockInv'
  BY <1>0 DEF Core, WaitLockInv
<1> QED
  BY <1>5, <1>6, <1>7, <1>8, <1>9, <1>10, <1>11 DEF Core

\* sched() leaves the process to the scheduler with its lock held.
LEMMA SchedCore ==
  ASSUME TypeOK, TypeOK', Core, NEW c \in CPUs, NEW p \in Procs, Sched(c, p)
  PROVE  Core'
<1>0. /\ Runs(c, p) /\ pc[p] \in SchedPCs /\ UNCHANGED <<state, plock, wlock, cproc, si, resume, tmp>>
      /\ spc'[c] = "back" /\ \A d \in CPUs \ {c} : spc'[d] = spc[d]
      /\ pc'[p] = AfterSched(pc[p]) /\ \A r \in Procs \ {p} : pc'[r] = pc[r]
  BY DEF Sched, Goto, TypeOK, table, locks, SchedPCs
<1>1. /\ PlaceOK(state[p], pc[p]) /\ ResumeOK(pc[p], resume[p]) /\ plock[p] = c
  BY <1>0 DEF Core, PlaceInv, ResumeInv, RunInv, OwnLockPCs
<1>2. /\ PlaceOK(state[p], pc'[p]) /\ ResumeOK(pc'[p], resume[p]) /\ state[p] # "RUNNING"
      /\ pc'[p] \in {"yield_ret", "sleep_ret", "zombie"}
  BY <1>0, <1>1 DEF AfterSched, PlaceOK, ResumeOK, SchedPCs, YieldPCs
<1>3. ~Busy(p)' /\ cproc[c] = p /\ spc[c] = "run"
  BY <1>0, <1>2 DEF Busy, SchedPCs, Runs
<1>4. \A d \in CPUs : d # c => cproc[d] # p
  BY <1>3, IndexFacts DEF Core, UniqueInv
<1>5. \A d \in CPUs, r \in Procs : Runs(d, r)' <=> Runs(d, r) /\ d # c
  BY <1>0 DEF Runs
<1>6. \A d \in CPUs, r \in Procs : Runs(d, r) /\ d # c => r # p
  BY <1>4 DEF Runs
<1>7. CpuInv'
  <2> SUFFICES ASSUME NEW d \in CPUs, NEW r \in Procs, r = si[d]
               PROVE  /\ spc'[d] = "scan" => cproc[d] = Nobody
                      /\ spc'[d] # "scan" => cproc[d] = r
                      /\ spc'[d] = "back" => plock[r] = d /\ ~Busy(r)'
    BY <1>0 DEF CpuInv, TypeOK, Busy
  <2>1. CASE d = c
    BY <2>1, <1>0, <1>1, <1>3 DEF Core, CpuInv
  <2>2. CASE d # c
    BY <2>2, <1>0, <1>4 DEF Core, CpuInv, Busy
  <2> QED BY <2>1, <2>2
<1>8. UniqueInv'
  BY <1>0 DEF Core, UniqueInv
<1>9. PlaceInv' /\ ResumeInv'
  BY <1>0, <1>2 DEF Core, PlaceInv, ResumeInv
<1>10. BusyInv'
  <2> SUFFICES ASSUME NEW r \in Procs, Busy(r)' PROVE \E d \in CPUs : Runs(d, r)'
    BY DEF BusyInv
  <2>1. r # p /\ Busy(r)
    BY <1>0, <1>3 DEF Busy
  <2>2. PICK d \in CPUs : Runs(d, r)
    BY <2>1 DEF Core, BusyInv
  <2> QED BY <2>1, <2>2, <1>3, <1>5 DEF Runs
<1>11. RunInv'
  BY <1>0, <1>5, <1>6 DEF Core, RunInv, Busy
<1>12. LockInv'
  <2> SUFFICES ASSUME NEW r \in Procs, NEW d \in CPUs, plock[r] = d
               PROVE  \/ cproc[d] = r /\ (spc'[d] = "back" \/ pc'[r] \in OwnLockPCs)
                      \/ /\ spc'[d] = "run" /\ cproc[d] \in Procs
                         /\ pc'[cproc[d]] = "fork_copy" /\ tmp[cproc[d]] = r
    BY <1>0 DEF LockInv
  <2>1. CASE d = c
    BY <2>1, <1>0, <1>3 DEF Core, LockInv, SchedPCs
  <2>2. CASE d # c
    BY <2>2, <1>0, <1>4 DEF Core, LockInv
  <2> QED BY <2>1, <2>2
<1>13. WaitLockInv'
  <2> SUFFICES ASSUME NEW d \in CPUs, wlock = d
               PROVE  spc'[d] = "run" /\ cproc[d] \in Procs /\ pc'[cproc[d]] \in WaitLockPCs
    BY <1>0 DEF WaitLockInv
  <2>1. d # c
    BY <1>0, <1>3 DEF Core, WaitLockInv, SchedPCs, WaitLockPCs
  <2> QED BY <2>1, <1>0, <1>4 DEF Core, WaitLockInv
<1>14. ForkInv'
  <2>1. \A r \in Procs : Forking(r)' => Forking(r)
    BY <1>0, <1>2 DEF Forking, ForkPCs
  <2>2. \A r \in Procs : pc'[r] = "fork_copy" => pc[r] = "fork_copy"
    BY <1>0, <1>2
  <2> QED BY <2>1, <2>2, <1>0 DEF Core, ForkInv
<1> QED
  BY <1>7, <1>8, <1>9, <1>10, <1>11, <1>12, <1>13, <1>14 DEF Core

-----------------------------------------------------------------------------
\* Before the first process runs no CPU holds a lock.
LEMMA CoreInit == Init => Core
<1> SUFFICES ASSUME Init PROVE Core
  OBVIOUS
<1>1. \A p \in Procs : /\ PlaceOK(state[p], pc[p]) /\ ResumeOK(pc[p], resume[p])
                       /\ ~Busy(p) /\ ~Forking(p) /\ plock[p] = Nobody
                       /\ pc[p] # "fork_copy"
  BY DEF Init, PlaceOK, ResumeOK, Busy, Forking, SchedPCs, ForkPCs, YieldPCs
<1>2. \A c \in CPUs : spc[c] = "scan" /\ cproc[c] = Nobody
  BY DEF Init
<1>3. CpuInv /\ UniqueInv /\ PlaceInv /\ BusyInv /\ RunInv
  BY <1>1, <1>2 DEF CpuInv, UniqueInv, PlaceInv, BusyInv, RunInv, Runs
<1>4. LockInv /\ WaitLockInv /\ ForkInv /\ ResumeInv
  BY <1>1, <1>2, ProcAssumption DEF LockInv, WaitLockInv, ForkInv, ResumeInv, Init
<1> QED BY <1>3, <1>4 DEF Core

\* Every step keeps the invariant.
LEMMA CoreStep == TypeOK /\ TypeOK' /\ Core /\ [Next]_vars => Core'
<1> SUFFICES ASSUME TypeOK, TypeOK', Core, [Next]_vars PROVE Core'
  OBVIOUS
<1>1. CASE UNCHANGED vars
  <2>1. /\ UNCHANGED <<state, plock, wlock, cproc, spc, si, pc, resume, tmp>>
    BY <1>1 DEF vars, table, locks, sched_vars, locals
  <2>2. CpuInv' /\ UniqueInv' /\ PlaceInv' /\ BusyInv'
    BY <2>1 DEF Core, CpuInv, UniqueInv, PlaceInv, BusyInv, Busy, Runs
  <2>3. RunInv' /\ ForkInv'
    BY <2>1 DEF Core, RunInv, ForkInv, Busy, Forking, Runs
  <2>4. LockInv' /\ WaitLockInv' /\ ResumeInv'
    BY <2>1 DEF Core, LockInv, WaitLockInv, ResumeInv
  <2> QED BY <2>2, <2>3, <2>4 DEF Core
<1>2. ASSUME NEW c \in CPUs, Scheduler(c) PROVE Core'
  BY <1>2, PickCore, SkipCore, BackCore DEF Scheduler
<1>3. ASSUME NEW c \in CPUs, NEW p \in Procs, Trap(c, p) PROVE Core'
  BY <1>3, TrapOwn, OwnStepCore, SchedCore DEF Trap
<1>4. ASSUME NEW c \in CPUs, NEW p \in Procs, Kfork(c, p) PROVE Core'
  BY <1>4, KforkOwn, OwnStepCore, AllocSlot, ForkSlot, SlotStepCore DEF Kfork
<1>5. ASSUME NEW c \in CPUs, NEW p \in Procs, Kkill(c, p) PROVE Core'
  BY <1>5, KkillOwn, OwnStepCore DEF Kkill
<1>6. ASSUME NEW c \in CPUs, NEW p \in Procs, Kexit(c, p) PROVE Core'
  BY <1>6, KexitOwn, OwnStepCore DEF Kexit
<1>7. ASSUME NEW c \in CPUs, NEW p \in Procs, Kwait(c, p) PROVE Core'
  BY <1>7, KwaitOwn, OwnStepCore, ReapSlot, SlotStepCore DEF Kwait
<1> QED BY <1>1, <1>2, <1>3, <1>4, <1>5, <1>6, <1>7 DEF Next

\* The switching discipline of rust_proc.rs is an invariant: which locks a CPU
\* holds follows from what it executes, for any number of slots and CPUs.
THEOREM ProcCore == Spec => []Core
<1>1. Init => Core
  BY CoreInit
<1>2. TypeOK /\ TypeOK' /\ Core /\ [Next]_vars => Core'
  BY CoreStep
<1> QED BY <1>1, <1>2, ProcTypeOK, PTL DEF Spec

\* No process is ever on two CPUs, and every RUNNING process is on one.
THEOREM ProcOneCpu == Spec => []OneCpu
<1>1. Core => OneCpu
  BY DEF Core, UniqueInv, BusyInv, Busy, OneCpu
<1> QED BY <1>1, ProcCore, PTL

\* noff is 1 in sched(): the CPU holds the lock of its process and no other.
LEMMA SchedHoldsOneLock ==
  ASSUME TypeOK, Core, NEW c \in CPUs, NEW p \in Procs, Runs(c, p), pc[p] \in SchedPCs
  PROVE  noff(c) = 1
<1>1. wlock # c
  BY RunFacts DEF SchedPCs, WaitLockPCs
<1>2. {q \in Procs : plock[q] = c} = {p}
  <2>1. plock[p] = c
    BY DEF Core, RunInv, OwnLockPCs
  <2>2. \A q \in Procs : plock[q] = c => q = p
    BY DEF Core, LockInv, Runs, SchedPCs
  <2> QED BY <2>1, <2>2
<1>3. Held(c) = {<<"proc", p>>}
  BY <1>1, <1>2 DEF Held
<1>4. \A x : Cardinality({x}) = 1
  BY FS_Singleton, Zenon
<1>5. Cardinality({<<"proc", p>>}) = 1
  BY <1>4, Zenon
<1> QED BY <1>3, <1>5 DEF noff

\* sched() and release() never panic: a thread that calls sched holds its own
\* lock and no other, and every lock released is held by the releasing CPU.
THEOREM ProcNoPanic == Spec => []NoPanic
<1>1. TypeOK /\ Core => NoPanic
  <2> SUFFICES ASSUME TypeOK, Core, NEW c \in CPUs, NEW p \in Procs, Runs(c, p)
               PROVE  /\ pc[p] \in SchedPCs => plock[p] = c /\ noff(c) = 1 /\ state[p] # "RUNNING"
                      /\ pc[p] \in OwnLockPCs => plock[p] = c
                      /\ pc[p] \in WaitLockPCs => wlock = c
                      /\ pc[p] = "fork_copy" => plock[tmp[p]] = c
                      /\ pc[p] \notin {"none", "zombie"}
    BY DEF NoPanic
  <2>1. Busy(p) /\ PlaceOK(state[p], pc[p])
    BY DEF Core, RunInv, PlaceInv
  <2>2. pc[p] \in SchedPCs => state[p] # "RUNNING"
    BY <2>1 DEF PlaceOK
  <2>3. pc[p] \notin {"none", "zombie"}
    BY <2>1 DEF Busy, PlaceOK, SchedPCs
  <2>4. pc[p] \in SchedPCs => noff(c) = 1
    BY SchedHoldsOneLock
  <2> QED BY <2>2, <2>3, <2>4 DEF Core, RunInv, OwnLockPCs
<1> QED BY <1>1, ProcCore, ProcTypeOK, PTL
=============================================================================
