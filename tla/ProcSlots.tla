----------------------------- MODULE ProcSlots ------------------------------
(***************************************************************************)
(* The steps of Proc by which kfork and kwait fill and free a slot keep    *)
(* Core.                                                                   *)
(***************************************************************************)
EXTENDS ProcThreads

-----------------------------------------------------------------------------
(* The steps of kfork and kwait that work on a second slot q, which no CPU  *)
(* runs.                                                                    *)

SlotStep(c, p, q) ==
  /\ Runs(c, p) /\ UNCHANGED sched_vars /\ p # q
  /\ \A r \in Procs \ {p, q} : /\ pc'[r] = pc[r] /\ state'[r] = state[r]
                               /\ plock'[r] = plock[r]
  /\ UNCHANGED resume
  /\ \A r \in Procs \ {p} : tmp'[r] = tmp[r]
  /\ pc[p] \notin OwnLockPCs /\ pc'[p] \notin OwnLockPCs \cup {"none", "zombie"}
  /\ pc[p] \notin YieldPCs /\ pc'[p] \notin YieldPCs
  /\ state'[p] = "RUNNING" /\ plock'[p] = plock[p]
  /\ pc'[p] \in WaitLockPCs <=> wlock' = c
  /\ \A d \in CPUs \ {c} : wlock' = d => wlock = d
  /\ \A d \in CPUs \ {c} : wlock = d => wlock' = d
  /\ ~Busy(q) /\ ~Busy(q)' /\ PlaceOK(state'[q], pc'[q])
  /\ pc'[q] \notin ForkPCs \cup YieldPCs /\ resume[q] = "none"
  /\ plock[q] \in {c, Nobody} /\ plock'[q] \in {c, Nobody}
  /\ pc'[p] = "fork_copy" <=> plock'[q] = c
  /\ pc[p] = "fork_copy" => tmp[p] = q
  /\ Forking(p)' => tmp'[p] = q /\ state'[q] = "USED"
  /\ \A r \in Procs \ {p} : Forking(r) => tmp[r] # q

\* A step on the thread's own process and on an idle slot keeps the invariant.
LEMMA SlotStepCore ==
  ASSUME TypeOK, TypeOK', Core, NEW c \in CPUs, NEW p \in Procs, NEW q \in Procs,
         SlotStep(c, p, q)
  PROVE  Core'
<1>0. /\ cproc' = cproc /\ spc' = spc /\ si' = si
      /\ cproc[c] = p /\ spc[c] = "run" /\ p # q
  BY DEF SlotStep, sched_vars, Runs
<1>1. \A d \in CPUs : d # c => cproc[d] # p
  BY <1>0, IndexFacts DEF Core, UniqueInv
<1>2. \A d \in CPUs : cproc[d] # q
  <2> SUFFICES ASSUME NEW d \in CPUs, cproc[d] = q PROVE FALSE
    OBVIOUS
  <2>1. d # c
    BY <1>0
  <2>2. CASE spc[d] = "back"
    BY <2>1, <2>2, ProcAssumption DEF Core, CpuInv, SlotStep
  <2>3. CASE spc[d] = "run"
    BY <2>3 DEF Core, RunInv, SlotStep, Runs
  <2>4. CASE spc[d] = "scan"
    BY <2>4, IndexFacts DEF Core, CpuInv
  <2> QED BY <2>2, <2>3, <2>4 DEF TypeOK
<1>3. Busy(p)'
  BY DEF SlotStep, Busy
<1>4. CpuInv'
  <2> SUFFICES ASSUME NEW d \in CPUs, NEW r \in Procs, r = si[d], spc[d] = "back"
               PROVE  plock'[r] = d /\ ~Busy(r)'
    BY <1>0 DEF CpuInv, Core, TypeOK, Busy
  <2>1. r \notin {p, q} /\ plock[r] = d /\ ~Busy(r)
    BY <1>0, <1>1, <1>2 DEF Core, CpuInv
  <2> QED BY <2>1 DEF SlotStep, Busy
<1>5. UniqueInv'
  BY <1>0 DEF Core, UniqueInv
<1>6. PlaceInv'
  <2>1. PlaceOK(state'[p], pc'[p])
    BY DEF SlotStep, PlaceOK, OwnLockPCs
  <2> QED BY <2>1 DEF Core, PlaceInv, SlotStep
<1>7. BusyInv'
  <2> SUFFICES ASSUME NEW r \in Procs, Busy(r)' PROVE \E d \in CPUs : Runs(d, r)'
    BY DEF BusyInv
  <2>1. CASE r = p
    BY <2>1, <1>0 DEF Runs
  <2>2. CASE r # p
    <3>1. r # q /\ Busy(r)
      BY <2>2 DEF Busy, SlotStep
    <3> QED BY <3>1, <1>0 DEF Core, BusyInv, Runs
  <2> QED BY <2>1, <2>2
<1>8. RunInv'
  <2> SUFFICES ASSUME NEW d \in CPUs, NEW r \in Procs, Runs(d, r)'
               PROVE  /\ Busy(r)'
                      /\ pc'[r] \in OwnLockPCs => plock'[r] = d
                      /\ pc'[r] \in WaitLockPCs => wlock' = d
                      /\ pc'[r] = "fork_copy" => plock'[tmp'[r]] = d
    BY DEF RunInv
  <2>1. CASE r = p
    <3>1. d = c
      BY <2>1, <1>0, <1>1 DEF Runs
    <3>2. pc'[p] = "fork_copy" => plock'[tmp'[p]] = c
      BY DEF SlotStep, Forking, ForkPCs
    <3> QED BY <2>1, <3>1, <3>2, <1>3 DEF SlotStep
  <2>2. CASE r # p
    <3>1. Runs(d, r) /\ d # c /\ r # q
      BY <2>2, <1>0, <1>2 DEF Runs
    <3>2. Busy(r)' /\ (pc'[r] \in OwnLockPCs => plock'[r] = d)
      BY <3>1, <2>2 DEF Core, RunInv, SlotStep, Busy
    <3>3. pc'[r] \in WaitLockPCs => wlock' = d
      BY <3>1, <2>2 DEF Core, RunInv, SlotStep
    <3>4. ASSUME pc'[r] = "fork_copy" PROVE plock'[tmp'[r]] = d
      <4>1. pc[r] = "fork_copy" /\ tmp'[r] = tmp[r] /\ Forking(r)
        BY <3>1, <3>4, <2>2 DEF SlotStep, Forking, ForkPCs
      <4>2. tmp[r] \in Procs /\ tmp[r] # q
        BY <4>1, <2>2 DEF Core, ForkInv, SlotStep
      <4> QED BY <4>1, <4>2, <3>1 DEF Core, RunInv, SlotStep
    <3> QED BY <3>2, <3>3, <3>4
  <2> QED BY <2>1, <2>2
<1>9. LockInv'
  <2> SUFFICES ASSUME NEW r \in Procs, NEW d \in CPUs, plock'[r] = d
               PROVE  \/ cproc[d] = r /\ (spc[d] = "back" \/ pc'[r] \in OwnLockPCs)
                      \/ /\ spc[d] = "run" /\ cproc[d] \in Procs
                         /\ pc'[cproc[d]] = "fork_copy" /\ tmp'[cproc[d]] = r
    BY <1>0 DEF LockInv
  <2>1. CASE r = q
    <3>1. d = c
      BY <2>1, ProcAssumption DEF SlotStep
    <3> QED BY <2>1, <3>1, <1>0 DEF SlotStep, Forking, ForkPCs
  <2>2. CASE r # q
    <3>1. plock[r] = d
      BY <2>2 DEF SlotStep
    <3>2. CASE cproc[d] = r /\ (spc[d] = "back" \/ pc[r] \in OwnLockPCs)
      BY <3>2, <2>2 DEF SlotStep
    <3>3. CASE spc[d] = "run" /\ cproc[d] \in Procs /\ pc[cproc[d]] = "fork_copy" /\ tmp[cproc[d]] = r
      <4>1. cproc[d] # p
        BY <3>3, <2>2 DEF SlotStep
      <4> QED BY <3>3, <4>1, <1>2 DEF SlotStep
    <3> QED BY <3>1, <3>2, <3>3 DEF Core, LockInv
  <2> QED BY <2>1, <2>2
<1>10. WaitLockInv'
  <2> SUFFICES ASSUME NEW d \in CPUs, wlock' = d
               PROVE  spc[d] = "run" /\ cproc[d] \in Procs /\ pc'[cproc[d]] \in WaitLockPCs
    BY <1>0 DEF WaitLockInv
  <2>1. CASE d = c
    BY <2>1, <1>0 DEF SlotStep
  <2>2. CASE d # c
    BY <2>2, <1>0, <1>1, <1>2 DEF SlotStep, Core, WaitLockInv
  <2> QED BY <2>1, <2>2
<1>11. ForkInv'
  <2>1. \A r \in Procs \ {p} : Forking(r)' => Forking(r) /\ tmp'[r] = tmp[r] /\ r # q
    BY DEF SlotStep, Forking, ForkPCs
  <2>2. \A r \in Procs \ {p} : Forking(r)' => tmp'[r] \in Procs /\ tmp'[r] # q /\ state'[tmp'[r]] = "USED"
    <3> SUFFICES ASSUME NEW r \in Procs \ {p}, Forking(r)'
                 PROVE  tmp'[r] \in Procs /\ tmp'[r] # q /\ state'[tmp'[r]] = "USED"
      BY Zenon
    <3>1. Forking(r) /\ tmp'[r] = tmp[r] /\ tmp[r] \in Procs /\ state[tmp[r]] = "USED" /\ tmp[r] # q
      BY <2>1 DEF Core, ForkInv, SlotStep
    <3>2. tmp[r] # p
      BY <3>1 DEF SlotStep, Core, RunInv, PlaceInv, PlaceOK, Busy, OwnLockPCs
    <3> QED BY <3>1, <3>2 DEF SlotStep
  <2>3. \A r \in Procs : Forking(r)' => tmp'[r] \in Procs /\ state'[tmp'[r]] = "USED"
    BY <2>2 DEF SlotStep
  <2>4. \A r, s \in Procs : Forking(r)' /\ Forking(s)' /\ tmp'[r] = tmp'[s] => r = s
    <3> SUFFICES ASSUME NEW r \in Procs, NEW s \in Procs, Forking(r)', Forking(s)',
                        tmp'[r] = tmp'[s], r # s
                 PROVE  FALSE
      OBVIOUS
    <3>1. CASE r # p /\ s # p
      BY <3>1, <2>1 DEF Core, ForkInv
    <3>2. CASE r = p
      BY <3>2, <2>2 DEF SlotStep
    <3>3. CASE s = p
      BY <3>3, <2>2 DEF SlotStep
    <3> QED BY <3>1, <3>2, <3>3
  <2>5. \A r \in Procs : pc'[r] = "fork_copy" => state'[r] = "RUNNING"
    BY DEF Core, ForkInv, SlotStep, ForkPCs
  <2> QED BY <2>3, <2>4, <2>5 DEF ForkInv
<1>12. ResumeInv'
  <2>1. ResumeOK(pc'[p], resume'[p])
    BY DEF Core, ResumeInv, SlotStep, ResumeOK
  <2>2. ResumeOK(pc'[q], resume'[q])
    BY DEF SlotStep, ResumeOK
  <2> QED BY <2>1, <2>2 DEF Core, ResumeInv, SlotStep
<1> QED
  BY <1>4, <1>5, <1>6, <1>7, <1>8, <1>9, <1>10, <1>11, <1>12 DEF Core

\* A slot that belongs to no process on a CPU.
LEMMA IdleSlot ==
  ASSUME TypeOK, Core, NEW q \in Procs,
         \/ state[q] \in {"UNUSED", "USED"}
         \/ state[q] = "ZOMBIE" /\ plock[q] = Nobody
  PROVE  /\ ~Busy(q) /\ resume[q] = "none"
         /\ pc[q] \in {"none", "forkret", "zombie"}
         /\ pc[q] = "none" <=> state[q] = "UNUSED"
         /\ pc[q] = "forkret" <=> state[q] = "USED"
<1>1. PlaceOK(state[q], pc[q]) /\ ResumeOK(pc[q], resume[q])
  BY DEF Core, PlaceInv, ResumeInv
<1>2. CASE state[q] \in {"UNUSED", "USED"}
  BY <1>1, <1>2 DEF PlaceOK, ResumeOK, Busy, SchedPCs, YieldPCs
<1>3. CASE state[q] = "ZOMBIE" /\ plock[q] = Nobody
  <2>1. pc[q] # "exit_sched"
    <3> SUFFICES ASSUME pc[q] = "exit_sched" PROVE FALSE
      OBVIOUS
    <3>1. PICK d \in CPUs : Runs(d, q)
      BY DEF Core, BusyInv, Busy, SchedPCs
    <3> QED BY <3>1, <1>3, ProcAssumption DEF Core, RunInv, OwnLockPCs, SchedPCs
  <2> QED BY <1>1, <1>3, <2>1 DEF PlaceOK, ResumeOK, Busy, SchedPCs, YieldPCs
<1> QED BY <1>2, <1>3

\* allocproc takes an UNUSED slot and keeps its lock.
LEMMA AllocSlot ==
  ASSUME TypeOK, Core, NEW c \in CPUs, NEW p \in Procs, AllocprocTake(c, p)
  PROVE  \E q \in Procs : SlotStep(c, p, q)
<1> SUFFICES ASSUME NEW q \in Procs, q = i[p] PROVE SlotStep(c, p, q)
  BY DEF AllocprocTake, WaitReap
<1>0. /\ Runs(c, p) /\ q \in Procs /\ plock[q] = Nobody /\ state[q] = "UNUSED"
      /\ pc[p] = "fork_scan" /\ q = i[p]
  BY DEF AllocprocTake, At
<1>1. /\ plock' = [plock EXCEPT ![q] = c] /\ state' = [state EXCEPT ![q] = "USED"]
      /\ tmp' = [tmp EXCEPT ![p] = q]
      /\ pc' = [pc EXCEPT ![p] = "fork_copy", ![q] = "forkret"]
      /\ UNCHANGED <<wlock, sched_vars, resume>>
  BY DEF AllocprocTake
<1>2. state[p] = "RUNNING" /\ plock[p] # c /\ wlock # c /\ resume[p] = "none"
  BY <1>0, RunFacts DEF SchedPCs, OwnLockPCs, WaitLockPCs, ResumeOK, YieldPCs
<1>3. ~Busy(q) /\ resume[q] = "none"
  BY <1>0, IdleSlot
<1>4. p # q
  BY <1>0, <1>2
<1>5. \A r \in Procs : Forking(r) => tmp[r] # q
  BY <1>0 DEF Core, ForkInv
<1> USE DEF TypeOK
<1>6. /\ pc'[p] = "fork_copy" /\ state'[p] = "RUNNING" /\ plock'[p] = plock[p]
      /\ pc'[q] = "forkret" /\ state'[q] = "USED" /\ plock'[q] = c /\ tmp'[p] = q
  BY <1>0, <1>1, <1>2, <1>4
<1>7. ~Busy(q)' /\ PlaceOK(state'[q], pc'[q])
  BY <1>6 DEF Busy, PlaceOK, SchedPCs
<1>8. SlotStep(c, p, q)
  BY <1>0, <1>1, <1>2, <1>3, <1>4, <1>5, <1>6, <1>7, ProcAssumption
     DEF SlotStep, OwnLockPCs, SchedPCs, YieldPCs, WaitLockPCs, ForkPCs
<1> QED BY <1>8

\* kfork copies into the child's slot, gives up its lock, and makes it
\* RUNNABLE, or frees it on failure.
LEMMA ForkSlot ==
  ASSUME TypeOK, Core, NEW c \in CPUs, NEW p \in Procs,
         ForkFail(c, p) \/ ForkCopied(c, p) \/ ForkRun(c, p)
  PROVE  \E q \in Procs : SlotStep(c, p, q)
<1> SUFFICES ASSUME NEW q \in Procs, q = tmp[p] PROVE SlotStep(c, p, q)
  BY DEF ForkFail, ForkCopied, ForkRun, At, Core, ForkInv, Forking, ForkPCs
<1>0. Runs(c, p) /\ pc[p] \in {"fork_copy", "fork_run"} /\ Forking(p)
  BY DEF ForkFail, ForkCopied, ForkRun, At, Forking, ForkPCs
<1>1. q \in Procs /\ state[q] = "USED" /\ q = tmp[p]
  BY <1>0 DEF Core, ForkInv
<1>2. state[p] = "RUNNING" /\ plock[p] # c /\ wlock # c /\ resume[p] = "none"
  BY <1>0, RunFacts DEF SchedPCs, OwnLockPCs, WaitLockPCs, ResumeOK, YieldPCs
<1>3. ~Busy(q) /\ resume[q] = "none" /\ pc[q] = "forkret"
  BY <1>1, IdleSlot
<1>4. p # q
  BY <1>1, <1>2
<1>5. \A r \in Procs \ {p} : Forking(r) => tmp[r] # q
  BY <1>0, <1>1 DEF Core, ForkInv
<1>6. pc[p] = "fork_copy" => plock[q] = c
  BY <1>0, <1>1 DEF Core, RunInv
<1>a. \A l \in {"fork_copy", "fork_run", "fork_parent", "trapret"} :
        l \notin OwnLockPCs \cup {"none", "zombie"} /\ l \notin YieldPCs /\ l \notin WaitLockPCs
  <2> TAKE l \in {"fork_copy", "fork_run", "fork_parent", "trapret"}
  <2>1. l \notin OwnLockPCs \cup {"none", "zombie"}
    BY DEF OwnLockPCs, SchedPCs
  <2>2. l \notin YieldPCs
    BY DEF YieldPCs
  <2>3. l \notin WaitLockPCs
    BY DEF WaitLockPCs
  <2> QED BY <2>1, <2>2, <2>3
<1>b. \A l \in {"none", "forkret"} : l \notin ForkPCs \cup YieldPCs
  BY Zenon DEF ForkPCs, YieldPCs
<1> USE DEF TypeOK
<1>7. CASE ForkFail(c, p)
  <2>1. /\ plock' = [plock EXCEPT ![q] = Nobody] /\ state' = [state EXCEPT ![q] = "UNUSED"]
        /\ pc' = [pc EXCEPT ![p] = "trapret", ![q] = "none"]
        /\ UNCHANGED <<wlock, sched_vars, resume>> /\ pc[p] = "fork_copy"
        /\ \A r \in Procs \ {p} : tmp'[r] = tmp[r]
    BY <1>7, <1>1, LeaveType DEF ForkFail, Freeproc, At
  <2>2. /\ pc'[p] = "trapret" /\ state'[p] = "RUNNING" /\ plock'[p] = plock[p]
        /\ pc'[q] = "none" /\ state'[q] = "UNUSED" /\ plock'[q] = Nobody
    BY <2>1, <1>1, <1>2, <1>4
  <2>3. ~Busy(q)' /\ PlaceOK(state'[q], pc'[q]) /\ ~Forking(p)'
    BY <2>1, <2>2, <1>2 DEF Busy, PlaceOK, SchedPCs, Forking, ForkPCs
  <2>4. /\ UNCHANGED <<wlock, sched_vars, resume>>
        /\ \A r \in Procs \ {p, q} : /\ pc'[r] = pc[r] /\ state'[r] = state[r]
                                     /\ plock'[r] = plock[r]
        /\ \A r \in Procs \ {p} : tmp'[r] = tmp[r]
        /\ pc[p] = "fork_copy"
    BY <2>1, <1>1, Zenon
  <2> HIDE DEF TypeOK
  <2> QED
    BY <2>2, <2>3, <2>4, <1>0, <1>1, <1>2, <1>3, <1>4, <1>5, <1>6, <1>a, <1>b, ProcAssumption
       DEF SlotStep
<1>8. CASE ForkCopied(c, p)
  <2>1. /\ plock' = [plock EXCEPT ![q] = Nobody] /\ pc' = [pc EXCEPT ![p] = "fork_parent"]
        /\ UNCHANGED <<state, wlock, sched_vars, resume, tmp>> /\ pc[p] = "fork_copy"
    BY <1>8, <1>1 DEF ForkCopied, Goto, At, table
  <2>2. /\ pc'[p] = "fork_parent" /\ state'[p] = "RUNNING" /\ plock'[p] = plock[p]
        /\ pc'[q] = "forkret" /\ state'[q] = "USED" /\ plock'[q] = Nobody
    BY <2>1, <1>1, <1>2, <1>3, <1>4
  <2>3. ~Busy(q)' /\ PlaceOK(state'[q], pc'[q])
    BY <2>2 DEF Busy, PlaceOK, SchedPCs
  <2>4. /\ UNCHANGED <<wlock, sched_vars, resume>>
        /\ \A r \in Procs \ {p, q} : /\ pc'[r] = pc[r] /\ state'[r] = state[r]
                                     /\ plock'[r] = plock[r]
        /\ tmp' = tmp /\ pc[p] = "fork_copy"
    BY <2>1, <1>1, Zenon
  <2> HIDE DEF TypeOK
  <2> QED
    BY <2>2, <2>3, <2>4, <1>0, <1>1, <1>2, <1>3, <1>4, <1>5, <1>6, <1>a, <1>b, ProcAssumption
       DEF SlotStep
<1>9. CASE ForkRun(c, p)
  <2>1. /\ state' = [state EXCEPT ![q] = "RUNNABLE"] /\ pc' = [pc EXCEPT ![p] = "trapret"]
        /\ UNCHANGED <<plock, wlock, sched_vars, resume>> /\ pc[p] = "fork_run"
        /\ plock[q] = Nobody /\ \A r \in Procs \ {p} : tmp'[r] = tmp[r]
    BY <1>9, <1>1, LeaveType DEF ForkRun, Goto, At, locks
  <2>2. /\ pc'[p] = "trapret" /\ state'[p] = "RUNNING" /\ plock'[p] = plock[p]
        /\ pc'[q] = "forkret" /\ state'[q] = "RUNNABLE" /\ plock'[q] = Nobody
    BY <2>1, <1>1, <1>2, <1>3, <1>4
  <2>3. ~Busy(q)' /\ PlaceOK(state'[q], pc'[q]) /\ ~Forking(p)'
    BY <2>1, <2>2, <1>2 DEF Busy, PlaceOK, SchedPCs, Forking, ForkPCs
  <2>4. /\ UNCHANGED <<wlock, sched_vars, resume>>
        /\ \A r \in Procs \ {p, q} : /\ pc'[r] = pc[r] /\ state'[r] = state[r]
                                     /\ plock'[r] = plock[r]
        /\ \A r \in Procs \ {p} : tmp'[r] = tmp[r]
        /\ pc[p] = "fork_run" /\ plock[q] = Nobody
    BY <2>1, <1>1, Zenon
  <2> HIDE DEF TypeOK
  <2> QED
    BY <2>2, <2>3, <2>4, <1>0, <1>1, <1>2, <1>3, <1>4, <1>5, <1>a, <1>b, ProcAssumption
       DEF SlotStep
<1> QED BY <1>7, <1>8, <1>9

\* kwait frees the slot of a ZOMBIE.
LEMMA ReapSlot ==
  ASSUME TypeOK, Core, NEW c \in CPUs, NEW p \in Procs, WaitReap(c, p)
  PROVE  \E q \in Procs : SlotStep(c, p, q)
<1> SUFFICES ASSUME NEW q \in Procs, q = i[p] PROVE SlotStep(c, p, q)
  BY DEF AllocprocTake, WaitReap
<1>0. /\ Runs(c, p) /\ q \in Procs /\ plock[q] = Nobody /\ state[q] = "ZOMBIE"
      /\ pc[p] = "wait_scan" /\ q = i[p]
  BY DEF WaitReap, At
<1>1. /\ state' = [state EXCEPT ![q] = "UNUSED"] /\ wlock' = Nobody
      /\ pc' = [pc EXCEPT ![p] = "trapret", ![q] = "none"]
      /\ UNCHANGED <<plock, sched_vars, resume>>
      /\ \A r \in Procs \ {p} : tmp'[r] = tmp[r]
  BY LeaveType DEF WaitReap, Freeproc
<1>2. state[p] = "RUNNING" /\ plock[p] # c /\ wlock = c /\ resume[p] = "none"
  BY <1>0, RunFacts DEF SchedPCs, OwnLockPCs, WaitLockPCs, ResumeOK, YieldPCs
<1>3. ~Busy(q) /\ resume[q] = "none"
  BY <1>0, IdleSlot
<1>4. p # q
  BY <1>0, <1>2
<1>5. \A r \in Procs : Forking(r) => tmp[r] # q
  BY <1>0 DEF Core, ForkInv
<1> USE DEF TypeOK
<1>6. /\ pc'[p] = "trapret" /\ state'[p] = "RUNNING" /\ plock'[p] = plock[p]
      /\ pc'[q] = "none" /\ state'[q] = "UNUSED" /\ plock'[q] = Nobody
  BY <1>0, <1>1, <1>2, <1>4
<1>7. ~Busy(q)' /\ PlaceOK(state'[q], pc'[q]) /\ ~Forking(p)'
  BY <1>1, <1>2, <1>6 DEF Busy, PlaceOK, SchedPCs, Forking, ForkPCs
<1>8. SlotStep(c, p, q)
  BY <1>0, <1>1, <1>2, <1>3, <1>4, <1>5, <1>6, <1>7, ProcAssumption
     DEF SlotStep, OwnLockPCs, SchedPCs, YieldPCs, WaitLockPCs, ForkPCs
<1> QED BY <1>8
=============================================================================
