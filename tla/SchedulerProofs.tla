-------------------------- MODULE SchedulerProofs ---------------------------
(***************************************************************************)
(* Proofs that the scheduler panics nowhere and that sleep() loses no      *)
(* wakeup, for any number of CPUs and processes.                           *)
(***************************************************************************)
EXTENDS SchedulerSwitch

-----------------------------------------------------------------------------
(* kkill() and one slot of wakeup(): a sleeper becomes runnable, under its *)
(* p->lock.                                                                *)
LEMMA Roused ==
  ASSUME Core, NEW c \in Cpu, NEW q \in Process, StepOf(c), SchedTypeOK', CpuOK(c)',
         \/ UNCHANGED state
         \/ state' = [state EXCEPT ![q] = IF state[q] = "SLEEPING" THEN "RUNNABLE" ELSE state[q]],
         UNCHANGED <<running, frame, saved, left>>,
         \/ UNCHANGED pc
         \/ pc'[running[c]] = "user" /\ pc[running[c]] = "user"
         \/ pc'[running[c]] = "exit" /\ pc[running[c]] = "user",
         NoLostWakeup'
  PROVE  Core'
  <1>1. \A p \in Process : \/ state'[p] = state[p]
                           \/ state[p] = "SLEEPING" /\ state'[p] = "RUNNABLE"
    BY DEF Core, SchedTypeOK
  <1>2. Distinct'
    BY DEF Core, Distinct
  <1>3. \A p \in Process : \/ pc'[p] = pc[p]
                           \/ /\ running[c] = p /\ pc[p] = "user" /\ pc'[p] = "exit"
                              /\ state[p] = "RUNNING"
    BY ThreadAt DEF StepOf, PcStep, Thread
  <1>4. ASSUME NEW p \in Process PROVE PlaceOfProcess(p)'
    <2>1. PlaceOfProcess(p)
      BY DEF Core
    <2>2. CASE pc'[p] = pc[p]
      BY <1>1, <2>1, <2>2 DEF PlaceOfProcess
    <2>3. CASE pc[p] = "user" /\ pc'[p] = "exit" /\ state[p] = "RUNNING"
      BY <1>1, <2>1, <2>3 DEF PlaceOfProcess, ProcLabels, TrapLabels
    <2> QED BY <1>3, <2>2, <2>3
  <1> QED BY <1>2, <1>4, OtherCpus DEF Core

(* kkill() marks a process and rouses it from sleep.                       *)
LEMMA KillStep == ASSUME Core, NEW c \in Cpu, NEW q \in Process, Kill(c, q) PROVE Core'
  <1>1. pc[running[c]] = "user" /\ ~spinning[c] /\ Visit(c, q)
    BY Zenon DEF Kill, At
  <1>2. running[c] \in Process /\ proc[c] = running[c] /\ running[c] # c
    BY <1>1, ProcessAt, ThreadAt DEF ProcLabels
  <1>3. sie[c] /\ Depth(pc[running[c]]) = 0 /\ q \in Lock
    BY <1>1 DEF Core, CpuOK, InterruptsBackOn, Depth, HasTickslock, HasOwnLock, Lock
  <1>4. /\ killed' = [killed EXCEPT ![q] = TRUE]
        /\ state' = [state EXCEPT ![q] = IF state[q] = "SLEEPING" THEN "RUNNABLE" ELSE state[q]]
    BY Zenon DEF Kill
  <1>5. UNCHANGED <<running, proc, scan, frame, saved, left, waking>>
    BY DEF Kill, cpuvars
  <1>6. PICK l \in {"exit", "user"} : Go(c, l)
    BY DEF Kill
  <1>7. PcStep(c) /\ pc'[running[c]] = l
    BY <1>6, GoStep DEF Labels, ProcLabels
  <1>8. UNCHANGED locked /\ IntrStep(c) /\ noff'[c] = 0 /\ ~spinning'[c] /\ sie'[c]
    <2>1. /\ UNCHANGED locked /\ IntrStep(c)
          /\ ~spinning'[c] /\ noff'[c] = Depth(pc[running[c]])
          /\ (sie'[c] <=> sie[c] \/ spinning[c])
      BY <1>1, <1>3, VisitStep, Zenon
    <2> QED BY <1>3, <2>1
  <1>9. StepOf(c)
    BY <1>5, <1>7, <1>8, SameSteps DEF StepOf, cpuvars
  <1>10. SchedTypeOK'
    <2>1. /\ state' \in [Process -> {"RUNNABLE", "RUNNING", "SLEEPING", "ZOMBIE"}]
          /\ killed' \in [Process -> BOOLEAN]
      BY <1>4 DEF Core, SchedTypeOK
    <2> QED BY <1>5, <1>7, <1>8, <2>1 DEF Core, SchedTypeOK, IntrStep, PcStep
  <1>11. CpuOK(c)'
    <2>1. LocksOf(c)'
      BY <1>1, <1>5, <1>7, <1>8, SameLocks DEF HasTickslock, HasOwnLock
    <2>2. InterruptsOf(c)' /\ InterruptsBackOn(c)'
      BY <1>5, <1>7, <1>8
         DEF InterruptsOf, InterruptsBackOn, Depth, HasTickslock, HasOwnLock, Open
    <2>3. PlaceOf(c)'
      BY <1>2, <1>5, <1>7 DEF Core, CpuOK, PlaceOf, PcStep, Thread
    <2> QED BY <2>1, <2>2, <2>3 DEF CpuOK
  <1>12. NoLostWakeup'
    <2>1. \A d \in Cpu : At(d, "wakeup") => At(d, "wakeup")'
      BY <1>1, <1>9, WakeupGoesOn DEF At
    <2>2. \A p \in Process : state'[p] = "SLEEPING" \/ pc'[p] = "sleep_sched" =>
                               state[p] = "SLEEPING" \/ pc[p] = "sleep_sched"
      BY <1>4, <1>7 DEF PcStep, Thread, Core, SchedTypeOK
    <2> QED BY <1>5, <2>1, <2>2 DEF Core, NoLostWakeup
  <1> QED BY <1>1, <1>4, <1>5, <1>7, <1>9, <1>10, <1>11, <1>12, Roused, Zenon

(* wakeup() visits one slot: a sleeper it passes has been roused, or is    *)
(* the caller.                                                             *)
LEMMA WakeupStep == ASSUME Core, NEW c \in Cpu, Wakeup(c) PROVE Core'
  <1>1. pc[running[c]] = "wakeup" /\ waking \in Process /\ waking' = waking + 1
    BY Zenon DEF Wakeup, At
  <1>2. /\ noff[c] = 1 /\ ~sie[c] /\ ~spinning[c]
        /\ ~intena[c] /\ Depth(pc[running[c]]) = 1 /\ waking \in Lock
    BY <1>1
       DEF Core, CpuOK, InterruptsOf, Depth, HasTickslock, HasOwnLock, Open, LoopOpen, Lock
  <1>3. UNCHANGED <<running, proc, scan, pc, frame, saved, killed, left>>
    BY DEF Wakeup, cpuvars
  <1>4. \/ waking = proc[c] /\ UNCHANGED <<locked, intrvars, state>>
        \/ /\ Visit(c, waking)
           /\ state' = [state EXCEPT ![waking] = IF state[waking] = "SLEEPING" THEN "RUNNABLE" ELSE state[waking]]
    BY Zenon DEF Wakeup
  <1>5. /\ UNCHANGED locked /\ IntrStep(c) /\ noff'[c] = 1
        /\ ~sie'[c] /\ ~spinning'[c] /\ ~intena'[c]
        /\ waking = proc[c] \/ locked[waking] = NoOne
    <2>1. CASE waking = proc[c] /\ UNCHANGED <<locked, intrvars>>
      BY <1>2, <2>1, SameSteps DEF intrvars
    <2>2. CASE Visit(c, waking)
      <3>1. /\ UNCHANGED locked /\ IntrStep(c)
            /\ ~spinning'[c] /\ noff'[c] = Depth(pc[running[c]])
            /\ sie'[c] <=> sie[c] \/ spinning[c]
            /\ Depth(pc[running[c]]) # 0 => (intena'[c] <=> intena[c])
            /\ locked[waking] = NoOne
        BY <1>2, <2>2, VisitStep, Zenon
      <3>2. noff'[c] = 1 /\ Depth(pc[running[c]]) # 0
        BY <1>2, <3>1
      <3> QED BY <1>2, <3>1, <3>2, Zenon
    <2> QED BY <1>4, <2>1, <2>2
  <1>6. StepOf(c)
    <2>1. PcStep(c)
      BY <1>3 DEF Core, SchedTypeOK, PcStep
    <2> QED BY <1>3, <1>5, <2>1, SameSteps DEF StepOf, cpuvars
  <1>7. SchedTypeOK'
    <2>1. state' \in [Process -> {"RUNNABLE", "RUNNING", "SLEEPING", "ZOMBIE"}]
      BY <1>1, <1>4 DEF Core, SchedTypeOK
    <2>2. waking' \in 1 .. NProc + 1
      BY <1>1, SchedulerAssumption DEF Process
    <2> QED BY <1>3, <1>5, <2>1, <2>2 DEF Core, SchedTypeOK, IntrStep
  <1>8. CpuOK(c)'
    <2>1. LocksOf(c)'
      BY <1>1, <1>3, <1>5, SameLocks
    <2>2. InterruptsOf(c)' /\ InterruptsBackOn(c)'
      BY <1>1, <1>3, <1>5
         DEF InterruptsOf, InterruptsBackOn, Depth, HasTickslock, HasOwnLock
    <2>3. PlaceOf(c)'
      BY <1>3 DEF Core, CpuOK, PlaceOf
    <2> QED BY <2>1, <2>2, <2>3 DEF CpuOK
  <1>9. NoLostWakeup'
    <2> SUFFICES ASSUME NEW p \in Process, state'[p] = "SLEEPING" \/ pc[p] = "sleep_sched", ~(left[p] > 0)
                 PROVE  waking + 1 <= p
      BY <1>1, <1>3 DEF NoLostWakeup, At
    <2>1. state[p] = "SLEEPING" \/ pc[p] = "sleep_sched"
      BY <1>4 DEF Core, SchedTypeOK
    <2>2. waking <= p
      <3>1. PICK d \in Cpu : At(d, "wakeup") /\ waking <= p
        BY <2>1 DEF Core, NoLostWakeup
      <3> QED BY <3>1
    <2>3. p # waking
      <3>1. CASE pc[p] = "sleep_sched"
        <4>1. PICK d \in Cpu : running[d] = p
          BY <3>1 DEF Core, PlaceOfProcess, SchedTypeOK
        <4>2. locked[p] = d
          BY <3>1, <4>1 DEF Core, CpuOK, LocksOf, HasOwnLock
        <4>3. locked[p] # NoOne
          BY <4>2, SchedulerAssumption DEF Thread
        <4>4. p # proc[c]
          <5>1. CASE running[c] \in Process
            BY <1>1, <3>1, <5>1, ThreadAt
          <5>2. CASE running[c] \notin Process
            BY <1>1, <5>2, HandlerAt, SchedulerAssumption DEF Thread
          <5> QED BY <5>1, <5>2
        <4> QED BY <1>5, <4>3, <4>4
      <3>2. CASE state[p] = "SLEEPING" /\ pc[p] # "sleep_sched"
        <4>1. p # proc[c]
          <5>1. CASE running[c] \in Process
            BY <3>2, <5>1, ThreadAt
          <5>2. CASE running[c] \notin Process
            BY <1>1, <5>2, HandlerAt, SchedulerAssumption DEF Thread
          <5> QED BY <5>1, <5>2
        <4> QED BY <1>4, <3>2, <4>1 DEF Core, SchedTypeOK
      <3> QED BY <2>1, <3>1, <3>2
    <2> QED BY <1>1, <2>2, <2>3 DEF Process
  <1>10. UNCHANGED state \/ state' = [state EXCEPT ![waking] = IF state[waking] = "SLEEPING" THEN "RUNNABLE" ELSE state[waking]]
    BY <1>4
  <1> QED BY <1>1, <1>3, <1>6, <1>7, <1>8, <1>9, <1>10, Roused

(* clockintr() counts a tick: nobody is between the test of sys_pause()    *)
(* and sleep()'s release of tickslock, and all of proc[] is to be visited. *)
LEMMA ClockCountStep == ASSUME Core, NEW c \in Cpu, ClockCount(c) PROVE Core'
  <1>1. pc[running[c]] = "tick" /\ Go(c, "wakeup") /\ Acquire(c, tickslock)
    BY Zenon DEF ClockCount, At
  <1>2. left' = [p \in Process |-> IF left[p] = 0 THEN 0 ELSE left[p] - 1] /\ waking' = 1
    BY Zenon DEF ClockCount
  <1>3. UNCHANGED <<running, proc, scan, frame, saved, state, killed>>
    BY DEF ClockCount, cpuvars
  <1>4. /\ ~sie[c] /\ ~spinning[c] /\ Depth(pc[running[c]]) = 0
        /\ tickslock \in Lock /\ locked[tickslock] = NoOne
    BY <1>1
       DEF Core, CpuOK, InterruptsOf, Depth, HasTickslock, HasOwnLock, Open, LoopOpen,
           Lock, Acquire
  <1>5. PcStep(c) /\ pc'[running[c]] = "wakeup"
    BY <1>1, GoStep DEF Labels, TrapLabels
  <1>6. /\ LockStep(c, tickslock) /\ locked'[tickslock] = c
        /\ IntrStep(c) /\ noff'[c] = 1 /\ ~sie'[c] /\ ~spinning'[c] /\ ~intena'[c]
    <2>1. /\ LockStep(c, tickslock) /\ locked'[tickslock] = c
          /\ IntrStep(c) /\ noff'[c] = 1 /\ ~sie'[c] /\ ~spinning'[c]
          /\ intena'[c] <=> sie[c] \/ spinning[c]
      BY <1>1, <1>4, AcquireFirst, Zenon
    <2> QED BY <1>4, <2>1, Zenon
  <1>7. StepOf(c)
    BY <1>3, <1>4, <1>5, <1>6, SameSteps DEF StepOf, cpuvars
  <1>8. SchedTypeOK'
    <2>1. left' \in [Process -> Nat]
      BY <1>2 DEF Core, SchedTypeOK
    <2>2. waking' \in 1 .. NProc + 1
      BY <1>2, SchedulerAssumption
    <2> QED BY <1>3, <1>5, <1>6, <2>1, <2>2
               DEF Core, SchedTypeOK, IntrStep, PcStep, LockStep
  <1>9. CpuOK(c)'
    <2>1. LocksOf(c)'
      BY <1>1, <1>3, <1>5, <1>6, TickslockMoves DEF HasTickslock, HasOwnLock
    <2>2. InterruptsOf(c)' /\ InterruptsBackOn(c)'
      BY <1>3, <1>5, <1>6
         DEF InterruptsOf, InterruptsBackOn, Depth, HasTickslock, HasOwnLock
    <2>3. PlaceOf(c)'
      <3>1. CASE running[c] \in Process
        BY <1>3, <1>5, <3>1, ThreadAt DEF Core, CpuOK, PlaceOf, PcStep, Thread
      <3>2. CASE running[c] = c /\ c \notin Process
        BY <1>1, <1>3, <1>5, <3>2, HandlerAt DEF PlaceOf
      <3> QED BY <3>1, <3>2, ThreadAt
    <2> QED BY <2>1, <2>2, <2>3 DEF CpuOK
  <1>10. ASSUME NEW p \in Process PROVE PlaceOfProcess(p)'
    <2>1. PlaceOfProcess(p)
      BY DEF Core
    <2>2. CASE p = running[c]
      <3>1. frame[p] \in Open /\ state[p] = "RUNNING"
        BY <1>1, <2>2, ThreadAt, HandlerAt
      <3> QED BY <1>3, <1>5, <2>1, <2>2, <3>1 DEF PlaceOfProcess, ProcLabels, TrapLabels
    <2>3. CASE p # running[c]
      <3>1. pc'[p] = pc[p]
        BY <1>5, <2>3 DEF PcStep, Thread
      <3>2. pc[p] \notin {"sleep", "sleep_rel"}
        <4> SUFFICES ASSUME pc[p] \in {"sleep", "sleep_rel"} PROVE FALSE
          OBVIOUS
        <4>1. PICK d \in Cpu : running[d] = p
          BY <2>1 DEF PlaceOfProcess, Core, SchedTypeOK
        <4>2. locked[tickslock] = d
          BY <4>1 DEF Core, CpuOK, LocksOf, HasTickslock
        <4> QED BY <1>4, <4>2, SchedulerAssumption DEF Thread
      <3> QED BY <1>3, <2>1, <3>1, <3>2 DEF PlaceOfProcess
    <2> QED BY <2>2, <2>3
  <1>11. NoLostWakeup'
    <2>1. At(c, "wakeup")' /\ \A p \in Process : waking' <= p
      BY <1>2, <1>3, <1>5 DEF At, Process
    <2> QED BY <2>1 DEF NoLostWakeup
  <1>12. Distinct'
    BY <1>3 DEF Core, Distinct
  <1> QED BY <1>7, <1>8, <1>9, <1>10, <1>11, <1>12, OtherCpus DEF Core

(* The end of wakeup(): every slot has been visited, so every sleeper has  *)
(* ticks to wait for.                                                      *)
LEMMA ClockReleaseStep == ASSUME Core, NEW c \in Cpu, ClockRelease(c) PROVE Core'
  <1>1. ReleaseWith(c, tickslock, intena[c])
    BY Zenon DEF ClockRelease, Release
  <1>2. pc[running[c]] = "wakeup" /\ Go(c, "ticked") /\ waking = NProc + 1 /\ waking' = 1
    BY Zenon DEF ClockRelease, At
  <1>3. UNCHANGED <<running, proc, scan, frame, saved, state, killed, left>>
    BY DEF ClockRelease, cpuvars, procvars
  <1>4. /\ noff[c] = 1 /\ ~spinning[c] /\ ~intena[c]
        /\ intena[c] \in BOOLEAN /\ tickslock \in Lock
    BY <1>2
       DEF Core, CpuOK, InterruptsOf, SchedTypeOK, Lock, Depth, HasTickslock, HasOwnLock
  <1>5. PcStep(c) /\ pc'[running[c]] = "ticked"
    BY <1>2, GoStep DEF Labels, TrapLabels
  <1>6. /\ LockStep(c, tickslock) /\ locked'[tickslock] # c
        /\ IntrStep(c) /\ noff'[c] = 0 /\ ~sie'[c] /\ ~spinning'[c]
    <2>1. /\ LockStep(c, tickslock) /\ locked'[tickslock] # c
          /\ IntrStep(c) /\ noff'[c] = 0 /\ ~spinning'[c] /\ (sie'[c] <=> intena[c])
      BY <1>1, <1>4, ReleaseLast, Zenon
    <2> QED BY <1>4, <2>1, Zenon
  <1>7. StepOf(c)
    BY <1>3, <1>4, <1>5, <1>6, SameSteps DEF StepOf, cpuvars
  <1>8. SchedTypeOK'
    <2>1. waking' \in 1 .. NProc + 1
      BY <1>2, SchedulerAssumption
    <2> QED BY <1>3, <1>5, <1>6, <2>1 DEF Core, SchedTypeOK, IntrStep, PcStep, LockStep
  <1>9. CpuOK(c)'
    <2>1. LocksOf(c)'
      BY <1>2, <1>3, <1>5, <1>6, TickslockMoves DEF HasTickslock, HasOwnLock
    <2>2. InterruptsOf(c)' /\ InterruptsBackOn(c)'
      BY <1>3, <1>5, <1>6
         DEF InterruptsOf, InterruptsBackOn, Depth, HasTickslock, HasOwnLock
    <2>3. PlaceOf(c)'
      <3>1. CASE running[c] \in Process
        BY <1>3, <1>5, <3>1, ThreadAt DEF Core, CpuOK, PlaceOf, PcStep, Thread
      <3>2. CASE running[c] = c /\ c \notin Process
        BY <1>2, <1>3, <1>5, <3>2, HandlerAt DEF PlaceOf
      <3> QED BY <3>1, <3>2, ThreadAt
    <2> QED BY <2>1, <2>2, <2>3 DEF CpuOK
  <1>10. ASSUME NEW p \in Process PROVE PlaceOfProcess(p)'
    <2>1. PlaceOfProcess(p)
      BY DEF Core
    <2>2. CASE p = running[c]
      <3>1. frame[p] \in Open /\ state[p] = "RUNNING"
        BY <1>2, <2>2, ThreadAt, HandlerAt
      <3> QED BY <1>3, <1>5, <2>1, <2>2, <3>1 DEF PlaceOfProcess, ProcLabels, TrapLabels
    <2>3. CASE p # running[c]
      <3>1. pc'[p] = pc[p]
        BY <1>5, <2>3 DEF PcStep, Thread
      <3> QED BY <1>3, <2>1, <3>1 DEF PlaceOfProcess
    <2> QED BY <2>2, <2>3
  <1>11. NoLostWakeup'
    <2>1. \A p \in Process : ~(waking <= p)
      BY <1>2, SchedulerAssumption DEF Process
    <2>2. \A p \in Process : pc'[p] = "sleep_sched" => pc[p] = "sleep_sched"
      BY <1>5 DEF PcStep, Thread
    <2> QED BY <1>3, <2>1, <2>2 DEF Core, NoLostWakeup
  <1>12. Distinct'
    BY <1>3 DEF Core, Distinct
  <1> QED BY <1>7, <1>8, <1>9, <1>10, <1>11, <1>12, OtherCpus DEF Core

-----------------------------------------------------------------------------
(* What main() and userinit() leave satisfies Core.                        *)
LEMMA CoreInit == SchedInit => Core
  <1> SUFFICES ASSUME SchedInit PROVE Core
    OBVIOUS
  <1>1. SchedTypeOK
    BY SchedulerAssumption
       DEF SchedInit, SchedTypeOK, Labels, ProcLabels, LoopLabels, Lock, Thread, Process
  <1>2. /\ \A c \in Cpu : running[c] = c /\ pc[c] = "on" /\ c \notin Process /\ c # NoOne
        /\ \A p \in Process : pc[p] = "forkret" /\ state[p] = "RUNNABLE"
    BY SchedulerAssumption DEF SchedInit, Thread
  <1>3. Distinct /\ NoLostWakeup
    BY <1>2 DEF Distinct, NoLostWakeup
  <1>4. ASSUME NEW c \in Cpu PROVE CpuOK(c)
    <2>1. \A l \in Lock : locked[l] # c
      <3>1. locked = [l \in Lock |-> NoOne]
        BY Zenon DEF SchedInit
      <3> QED BY <1>2, <3>1
    <2>2. LocksOf(c)
      BY <1>2, <2>1, SchedulerAssumption DEF LocksOf, HasTickslock, Lock
    <2>3. noff[c] = 0 /\ sie[c] /\ ~spinning[c] /\ proc[c] = NoOne
      BY DEF SchedInit
    <2>4. InterruptsOf(c) /\ InterruptsBackOn(c)
      BY <1>2, <2>3
         DEF InterruptsOf, InterruptsBackOn, Depth, HasTickslock, HasOwnLock, LoopOpen
    <2>5. PlaceOf(c)
      BY <1>2, <2>3 DEF PlaceOf, LoopLabels, TrapLabels
    <2> QED BY <2>2, <2>4, <2>5 DEF CpuOK
  <1>5. ASSUME NEW p \in Process PROVE PlaceOfProcess(p)
    BY <1>2 DEF PlaceOfProcess, TrapLabels
  <1> QED BY <1>1, <1>3, <1>4, <1>5 DEF Core

(* Every step of every CPU keeps it.                                       *)
LEMMA CoreStep == Core /\ [SchedNext]_schedvars => Core'
  <1> SUFFICES ASSUME Core, [SchedNext]_schedvars PROVE Core'
    OBVIOUS
  <1>1. CASE UNCHANGED schedvars
    BY <1>1
       DEF schedvars, intrvars, cpuvars, procvars, Core, SchedTypeOK, Distinct, CpuOK,
           LocksOf,
                InterruptsOf, InterruptsBackOn, PlaceOf, PlaceOfProcess, NoLostWakeup, At
  <1>2. ASSUME NEW c \in Cpu, LoopStep(c) PROVE Core'
    BY <1>2, SchedulerOnStep, SchedulerOffStep, SchedulerSkipStep, SchedulerRunStep,
       SchedulerBackStep
       DEF LoopStep
  <1>3. ASSUME NEW c \in Cpu, TrapStep(c) PROVE Core'
    BY <1>3, ClockCountStep, WakeupStep, ClockReleaseStep, TrapEndStep, YieldLockStep,
       YieldSchedStep,
       YieldBackStep, TrapReturnStep DEF TrapStep
  <1>4. ASSUME NEW c \in Cpu, ProcessStep(c) PROVE Core'
    BY <1>4, ForkretStep, PauseTestStep, SleepLockStep, SleepReleaseStep, SleepSchedStep,
       SleepBackStep,
       SleepRelockStep, PauseReturnStep, KilledTrapStep, ExitLockStep, ExitSchedStep DEF ProcessStep
  <1>5. ASSUME NEW c \in Cpu, CpuNext(c) PROVE Core'
    BY <1>2, <1>3, <1>4, <1>5, PauseStartStep, KillStep, TimerStep, SpinStep DEF CpuNext
  <1> QED BY <1>1, <1>5 DEF SchedNext

(* Where locks, noff and places agree, no test that panics can fail.       *)
LEMMA CoreSafe == Core => SchedInv
  <1> SUFFICES ASSUME Core PROVE NoPanic /\ OneCpuEach
    BY DEF Core, SchedInv, CpuOK, InterruptsBack
  <1>1. OneCpuEach
    BY ThreadAt DEF Core, OneCpuEach, Distinct, PlaceOfProcess
  <1>2. ASSUME NEW c \in Cpu PROVE ~Panics(c)
    <2> DEFINE at == pc[running[c]]
    <2>1. LocksOf(c) /\ InterruptsOf(c) /\ scan[c] \in Process
      BY DEF Core, CpuOK, SchedTypeOK
    <2>2. at # "zombie"
      <3>1. at = "zombie" => running[c] \in Process
        BY ProcessAt DEF ProcLabels
      <3> QED BY <3>1, ThreadAt DEF Core, PlaceOfProcess
    <2>3. ASSUME NEW l \in Wanted(c) PROVE ~Holding(c, l)
      <3>1. CASE at \in {"user", "relock", "tick"} /\ l = tickslock
        BY <2>1, <3>1 DEF LocksOf, HasTickslock, Holding
      <3>2. CASE at \in {"sleep", "exit", "yield"} /\ l = proc[c]
        <4>1. running[c] \in Process /\ proc[c] = running[c]
          BY <3>2, ProcessAt DEF ProcLabels
        <4> QED BY <2>1, <3>2, <4>1, ThreadAt DEF LocksOf, HasOwnLock, Holding
      <3>3. CASE at = "scan" /\ l = scan[c]
        <4>1. running[c] = c /\ c \notin Process
          BY <3>3, LoopAt DEF LoopLabels
        <4> QED BY <2>1, <3>3, <4>1 DEF LocksOf, Holding
      <3>4. CASE at = "wakeup" /\ l \in Process
        BY <2>1, <3>4 DEF LocksOf, HasOwnLock, Holding
      <3> QED BY <2>3, <3>1, <3>2, <3>3, <3>4 DEF Wanted, At
    <2>4. ASSUME NEW l \in Releasing(c) PROVE Holding(c, l) /\ ~sie[c] /\ ~(noff[c] < 1)
      <3>1. Holding(c, l)
        <4>1. CASE at \in {"sleep_rel", "pause_rel", "wakeup"} /\ l = tickslock
          BY <2>1, <4>1 DEF LocksOf, HasTickslock, Holding
        <4>2. CASE at \in {"forkret", "sleep_back", "yield_back"} /\ l = proc[c]
          <5>1. running[c] \in Process /\ proc[c] = running[c]
            BY <4>2, ProcessAt DEF ProcLabels
          <5> QED BY <2>1, <4>2, <5>1 DEF LocksOf, HasOwnLock, Holding
        <4>3. CASE at = "back" /\ l = scan[c]
          <5>1. running[c] = c
            BY <4>3, LoopAt DEF LoopLabels
          <5> QED BY <2>1, <4>3, <5>1 DEF LocksOf, Holding
        <4> QED BY <2>4, <4>1, <4>2, <4>3 DEF Releasing, At
      <3>2. at \in {"sleep_rel", "pause_rel", "wakeup", "forkret", "sleep_back", "yield_back", "back"}
        BY <2>4 DEF Releasing, At
      <3> QED BY <2>1, <3>1, <3>2
                 DEF InterruptsOf, Open, LoopOpen, Depth, HasTickslock, HasOwnLock
    <2>5. ASSUME at \in {"sleep_sched", "yield_sched", "exit_sched"}
          PROVE  Holding(c, proc[c]) /\ noff[c] = 1 /\ ~sie[c]
      <3>1. running[c] \in Process /\ proc[c] = running[c]
        BY <2>5, ProcessAt DEF ProcLabels
      <3>2. Holding(c, proc[c])
        BY <2>1, <2>5, <3>1 DEF LocksOf, HasOwnLock, Holding
      <3> QED BY <2>1, <2>5, <3>2
                 DEF InterruptsOf, Open, LoopOpen, Depth, HasTickslock, HasOwnLock
    <2> QED BY <2>2, <2>3, <2>4, <2>5 DEF Panics, At
  <1> QED BY <1>1, <1>2 DEF NoPanic

(* No interleaving of processes, CPUs, timer interrupts and kills reaches  *)
(* a panic of spinlock.c or proc.c; a process is on one CPU at most and    *)
(* its p->state says so; interrupts come back with the thread sched()      *)
(* brings back.  For any number of CPUs, processes and ticks.              *)
THEOREM SchedInvariant == SchedSpec => []SchedInv
  BY CoreInit, CoreStep, CoreSafe, PTL DEF SchedSpec

(* sleep() and wakeup() lose no wakeup: a process asleep in sys_pause()    *)
(* has ticks to wait for, or is still ahead of the wakeup() under way.     *)
THEOREM WakeupsKept == SchedSpec => []NoLostWakeup
  <1>1. Core => NoLostWakeup
    BY DEF Core
  <1> QED BY <1>1, CoreInit, CoreStep, PTL DEF SchedSpec
=============================================================================
