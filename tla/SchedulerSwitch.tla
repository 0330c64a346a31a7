-------------------------- MODULE SchedulerSwitch ---------------------------
(***************************************************************************)
(* The steps of scheduler(), the trap handlers and sched(): swtch() passes *)
(* p->lock from one thread to the other.                                   *)
(***************************************************************************)
EXTENDS SchedulerSteps

-----------------------------------------------------------------------------
(* A step of scheduler() without swtch(): Core survives if the thread has  *)
(* no lock after it and no process, and interrupts are on where they       *)
(* should be.                                                              *)
LEMMA LoopMoves ==
  ASSUME Core, NEW c \in Cpu, pc[running[c]] \in LoopLabels,
         PcStep(c), pc'[running[c]] \in LoopOpen, IntrStep(c), noff'[c] = 0, ~spinning'[c],
         pc'[running[c]] = "on" => sie'[c],
         UNCHANGED <<running, frame, saved, state, killed, left, waking>>,
         proc' \in [Cpu -> Process \cup {NoOne}], proc'[c] = NoOne, scan' \in [Cpu -> Process],
         \A d \in Cpu \ {c} : proc'[d] = proc[d] /\ scan'[d] = scan[d],
         \/ UNCHANGED locked /\ pc[running[c]] # "back"
         \/ LocksOf(c)' /\ \E l \in Lock : LockStep(c, l)
  PROVE  Core'
  <1>1. running[c] = c /\ c \notin Process
    BY LoopAt
  <1>2. LocksOf(c)'
    BY SameLocks DEF LoopLabels, LoopOpen, HasTickslock, HasOwnLock
  <1>3. InterruptsOf(c)' /\ InterruptsBackOn(c)'
    BY DEF InterruptsOf, InterruptsBackOn, Depth, HasTickslock, HasOwnLock, LoopOpen
  <1>4. Plain(c) /\ CpuStep(c)
    BY <1>2, <1>3, SameSteps DEF Plain, CpuStep, LoopLabels, LoopOpen
  <1> QED BY <1>1, <1>4, LoopPlain DEF LoopOpen, TrapLabels

(* intr_on() at the top of the loop.                                       *)
LEMMA SchedulerOnStep == ASSUME Core, NEW c \in Cpu, SchedulerOn(c) PROVE Core'
  <1>1. /\ pc[running[c]] = "loop" /\ Go(c, "on") /\ sie' = [sie EXCEPT ![c] = TRUE]
        /\ UNCHANGED <<locked, noff, intena, spinning, cpuvars,
                       frame, saved, procvars, waking>>
    BY Zenon DEF SchedulerOn, At
  <1>2. noff[c] = 0 /\ ~spinning[c] /\ proc[c] = NoOne
    BY <1>1, LoopAt
       DEF Core, CpuOK, InterruptsOf, PlaceOf, Depth, HasTickslock, HasOwnLock, LoopLabels
  <1>3. PcStep(c) /\ pc'[running[c]] = "on"
    BY <1>1, GoStep DEF Labels, LoopLabels
  <1>4. IntrStep(c) /\ noff'[c] = 0 /\ ~spinning'[c] /\ (sie'[c] <=> TRUE)
    BY <1>1, <1>2 DEF Core, SchedTypeOK, IntrStep
  <1> QED BY <1>1, <1>2, <1>3, <1>4, LoopMoves
             DEF Core, SchedTypeOK, LoopLabels, LoopOpen, cpuvars, procvars

(* intr_off() before the scan.                                             *)
LEMMA SchedulerOffStep == ASSUME Core, NEW c \in Cpu, SchedulerOff(c) PROVE Core'
  <1>1. /\ pc[running[c]] = "on" /\ Go(c, "scan") /\ sie' = [sie EXCEPT ![c] = FALSE]
        /\ UNCHANGED <<locked, noff, intena, spinning, cpuvars,
                       frame, saved, procvars, waking>>
    BY Zenon DEF SchedulerOff, At
  <1>2. noff[c] = 0 /\ ~spinning[c] /\ proc[c] = NoOne
    BY <1>1, LoopAt
       DEF Core, CpuOK, InterruptsOf, PlaceOf, Depth, HasTickslock, HasOwnLock, LoopLabels
  <1>3. PcStep(c) /\ pc'[running[c]] = "scan"
    BY <1>1, GoStep DEF Labels, LoopLabels
  <1>4. IntrStep(c) /\ noff'[c] = 0 /\ ~spinning'[c] /\ (sie'[c] <=> FALSE)
    BY <1>1, <1>2 DEF Core, SchedTypeOK, IntrStep
  <1> QED BY <1>1, <1>2, <1>3, <1>4, LoopMoves
             DEF Core, SchedTypeOK, LoopLabels, LoopOpen, cpuvars, procvars

(* The loop variable stays inside proc[].                                  *)
LEMMA NextSlotStep ==
  ASSUME Core, NEW c \in Cpu, NextSlot(c)
  PROVE  /\ PcStep(c) /\ pc'[running[c]] \in {"loop", "scan"}
         /\ scan' \in [Cpu -> Process] /\ \A d \in Cpu \ {c} : scan'[d] = scan[d]
  <1>1. scan \in [Cpu -> Process] /\ scan[c] \in Process
    BY DEF Core, SchedTypeOK
  <1>2. (IF scan[c] = NProc THEN 1 ELSE scan[c] + 1) \in Process
    BY <1>1, SchedulerAssumption DEF Process
  <1>3. scan' = [scan EXCEPT ![c] = IF scan[c] = NProc THEN 1 ELSE scan[c] + 1]
    BY DEF NextSlot
  <1>4. PICK l \in {"loop", "scan"} : Go(c, l)
    BY DEF NextSlot
  <1>5. PcStep(c) /\ pc'[running[c]] = l
    BY <1>4, GoStep DEF Labels, LoopLabels
  <1> QED BY <1>1, <1>2, <1>3, <1>5

(* A slot that is not RUNNABLE is passed over.                             *)
LEMMA SchedulerSkipStep == ASSUME Core, NEW c \in Cpu, SchedulerSkip(c) PROVE Core'
  <1>1. /\ pc[running[c]] = "scan" /\ Visit(c, scan[c]) /\ NextSlot(c)
        /\ UNCHANGED <<proc, running, frame, saved, procvars, waking>>
    BY Zenon DEF SchedulerSkip, At
  <1>2. proc[c] = NoOne /\ scan[c] \in Lock
    BY <1>1, LoopAt DEF Core, CpuOK, PlaceOf, SchedTypeOK, Lock, LoopLabels
  <1>3. UNCHANGED locked /\ IntrStep(c) /\ ~spinning'[c] /\ noff'[c] = Depth(pc[running[c]])
    BY <1>1, <1>2, VisitStep, Zenon
  <1>4. noff'[c] = 0
    BY <1>1, <1>3 DEF Depth, HasTickslock, HasOwnLock
  <1>5. /\ PcStep(c) /\ pc'[running[c]] \in {"loop", "scan"}
        /\ scan' \in [Cpu -> Process] /\ \A d \in Cpu \ {c} : scan'[d] = scan[d]
    BY <1>1, NextSlotStep, Zenon
  <1> QED BY <1>1, <1>2, <1>3, <1>4, <1>5, LoopMoves
             DEF Core, SchedTypeOK, LoopLabels, LoopOpen, procvars

(* swtch() came back: p->lock is the scheduler thread's to release.        *)
LEMMA SchedulerBackStep == ASSUME Core, NEW c \in Cpu, SchedulerBack(c) PROVE Core'
  <1>1. /\ pc[running[c]] = "back" /\ NextSlot(c) /\ ReleaseWith(c, scan[c], intena[c])
        /\ proc' = [proc EXCEPT ![c] = NoOne]
        /\ UNCHANGED <<running, frame, saved, procvars, waking>>
    BY Zenon DEF SchedulerBack, At, Release
  <1>2. running[c] = c /\ c \notin Process
    BY <1>1, LoopAt DEF LoopLabels
  <1>3. /\ ~spinning[c] /\ noff[c] = 1 /\ scan[c] \in Process
        /\ scan[c] \in Lock /\ intena[c] \in BOOLEAN
    BY <1>1
       DEF Core, CpuOK, InterruptsOf, SchedTypeOK, Lock, Depth, HasTickslock, HasOwnLock
  <1>4. /\ LockStep(c, scan[c]) /\ locked'[scan[c]] # c
        /\ IntrStep(c) /\ noff'[c] = 0 /\ ~spinning'[c]
    BY <1>1, <1>3, ReleaseLast, Zenon
  <1>5. /\ PcStep(c) /\ pc'[running[c]] \in {"loop", "scan"}
        /\ scan' \in [Cpu -> Process] /\ \A d \in Cpu \ {c} : scan'[d] = scan[d]
    BY <1>1, NextSlotStep, Zenon
  <1>6. LocksOf(c)'
    <2>1. locked'[tickslock] # c
      BY <1>1, <1>3, <1>4, SchedulerAssumption
         DEF LockStep, Lock, Core, CpuOK, LocksOf, HasTickslock
    <2>2. \A p \in Process : locked'[p] # c
      BY <1>1, <1>2, <1>4 DEF LockStep, Lock, Core, CpuOK, LocksOf
    <2> QED BY <1>1, <1>2, <1>5, <2>1, <2>2 DEF LocksOf, HasTickslock
  <1>7. proc' \in [Cpu -> Process \cup {NoOne}] /\ proc'[c] = NoOne /\ \A d \in Cpu \ {c} : proc'[d] = proc[d]
    BY <1>1 DEF Core, SchedTypeOK
  <1>8. UNCHANGED <<running, frame, saved, state, killed, left, waking>>
    BY <1>1 DEF procvars
  <1> QED BY <1>1, <1>3, <1>4, <1>5, <1>6, <1>7, <1>8, LoopMoves DEF LoopLabels, LoopOpen

(* swtch() to a process: nobody runs it, and its p->lock passes to it.     *)
LEMMA SchedulerRunStep == ASSUME Core, NEW c \in Cpu, SchedulerRun(c) PROVE Core'
  <1> DEFINE p == scan[c]
  <1>1. pc[running[c]] = "scan" /\ Acquire(c, p) /\ state[p] = "RUNNABLE"
    BY Zenon DEF SchedulerRun, At
  <1>2. /\ Go(c, "back")
        /\ state' = [state EXCEPT ![p] = "RUNNING"] /\ proc' = [proc EXCEPT ![c] = p]
        /\ running' = [running EXCEPT ![c] = p]
        /\ UNCHANGED <<scan, frame, saved, killed, left, waking>>
    BY Zenon DEF SchedulerRun
  <1>3. running[c] = c /\ c \notin Process
    BY <1>1, LoopAt DEF LoopLabels
  <1>4. /\ p \in Process /\ p \in Lock /\ p # c
        /\ p \in Thread /\ c \in Thread /\ Depth(pc[running[c]]) = 0
    BY <1>1, <1>3 DEF Core, SchedTypeOK, Lock, Thread, Depth, HasTickslock, HasOwnLock
  <1>5. pc[p] \in {"forkret", "sleep_back", "yield_back"} /\ \A d \in Cpu : running[d] # p
    BY <1>1, <1>4 DEF Core, PlaceOfProcess
  <1>6. /\ LockStep(c, p) /\ locked'[p] = c
        /\ IntrStep(c) /\ noff'[c] = 1 /\ ~sie'[c] /\ ~spinning'[c]
    BY <1>1, <1>4, AcquireFirst, Zenon
  <1>7. PcStep(c) /\ pc'[c] = "back" /\ pc'[p] = pc[p]
    <2>1. PcStep(c) /\ pc'[running[c]] = "back"
      BY <1>2, GoStep DEF Labels, LoopLabels
    <2> QED BY <1>3, <1>4, <2>1 DEF PcStep
  <1>8. /\ running' \in [Cpu -> Thread] /\ running'[c] = p
        /\ proc' \in [Cpu -> Process \cup {NoOne}] /\ proc'[c] = p
        /\ CpuStep(c)
    BY <1>2, <1>4 DEF Core, SchedTypeOK, CpuStep
  <1>9. state' \in [Process -> {"RUNNABLE", "RUNNING", "SLEEPING", "ZOMBIE"}]
        /\ state'[p] = "RUNNING" /\ \A q \in Process \ {p} : state'[q] = state[q]
    BY <1>2, <1>4 DEF Core, SchedTypeOK
  <1>10. UNCHANGED <<scan, frame, saved, killed, left, waking>>
    BY <1>2
  <1>11. StepOf(c)
    BY <1>2, <1>4, <1>6, <1>7, <1>8, SameSteps DEF StepOf
  <1>12. SchedTypeOK'
    BY <1>2, <1>6, <1>7, <1>8, <1>9 DEF Core, SchedTypeOK, IntrStep, PcStep, LockStep
  <1>13. Distinct'
    <2>1. \A d \in Cpu \ {c} : running'[d] = running[d]
      BY <1>8 DEF CpuStep
    <2> QED BY <1>5, <1>8, <2>1 DEF Core, Distinct
  <1>14. CpuOK(c)'
    <2>1. LocksOf(c)'
      <3>0. \A l \in Lock \ {p} : locked'[l] = locked[l]
        BY <1>6 DEF LockStep
      <3>1. locked'[tickslock] # c
        BY <1>1, <1>4, <3>0, SchedulerAssumption
           DEF Lock, Core, CpuOK, LocksOf, HasTickslock
      <3>2. \A q \in Process \ {p} : locked'[q] # c
        BY <1>1, <1>3, <3>0 DEF Lock, Core, CpuOK, LocksOf
      <3> QED BY <1>4, <1>5, <1>6, <1>7, <1>8, <3>1, <3>2
                 DEF LocksOf, HasTickslock, HasOwnLock
    <2>2. InterruptsOf(c)' /\ InterruptsBackOn(c)'
      BY <1>5, <1>6, <1>7, <1>8
         DEF InterruptsOf, InterruptsBackOn, Depth, HasTickslock, HasOwnLock
    <2>3. PlaceOf(c)'
      BY <1>4, <1>7, <1>8, <1>10 DEF PlaceOf, TrapLabels
    <2> QED BY <2>1, <2>2, <2>3 DEF CpuOK
  <1>15. ASSUME NEW q \in Process PROVE PlaceOfProcess(q)'
    <2>1. CASE q = p
      BY <1>5, <1>7, <1>8, <1>9, <1>10, <2>1
         DEF Core, PlaceOfProcess, ProcLabels, TrapLabels
    <2>2. CASE q # p
      <3>1. pc'[q] = pc[q] /\ state'[q] = state[q]
        BY <1>3, <1>7, <1>9, <2>2 DEF PcStep, Thread
      <3>2. (\E d \in Cpu : running'[d] = q) <=> (\E d \in Cpu : running[d] = q)
        BY <1>3, <1>8, <2>2 DEF CpuStep
      <3> QED BY <1>10, <3>1, <3>2 DEF Core, PlaceOfProcess
    <2> QED BY <2>1, <2>2
  <1>16. NoLostWakeup'
    <2>1. \A d \in Cpu : At(d, "wakeup") => At(d, "wakeup")'
      BY <1>1, <1>11, WakeupGoesOn DEF At
    <2>2. \A q \in Process : state'[q] = "SLEEPING" \/ pc'[q] = "sleep_sched" =>
                               state[q] = "SLEEPING" \/ pc[q] = "sleep_sched"
      BY <1>3, <1>7, <1>9 DEF PcStep, Thread
    <2> QED BY <1>10, <2>1, <2>2 DEF Core, NoLostWakeup
  <1> QED BY <1>11, <1>12, <1>13, <1>14, <1>15, <1>16, OtherCpus DEF Core

-----------------------------------------------------------------------------
(* The timer interrupt on top of a process or of a scheduler thread.       *)
LEMMA HandlerPlain ==
  ASSUME Core, NEW c \in Cpu, Plain(c), UNCHANGED <<proc, scan, killed>>,
         \/ /\ running[c] \in Process
            /\ \/ pc'[running[c]] \in {"user", "relock", "exit"}
               \/ pc'[running[c]] \in {"tick", "ticked", "yield", "iret"} /\ frame'[running[c]] \in Open
         \/ /\ running[c] = c /\ c \notin Process /\ proc[c] = NoOne
            /\ \/ pc'[c] \in {"on", "scan", "loop"}
               \/ pc'[c] \in {"tick", "ticked", "iret"} /\ frame'[c] \in LoopOpen
  PROVE  Core'
  <1>1. CASE running[c] \in Process
    <2>1. running[c] # c
      BY <1>1, ThreadAt
    <2> QED BY <1>1, <2>1, ProcessPlain DEF ProcLabels, TrapLabels
  <1>2. CASE running[c] = c /\ c \notin Process
    <2>1. /\ CpuStep(c) /\ proc' \in [Cpu -> Process \cup {NoOne}]
          /\ scan' \in [Cpu -> Process]
      BY DEF CpuStep, Plain, Core, SchedTypeOK
    <2> QED BY <1>2, <2>1, LoopPlain DEF TrapLabels
  <1> QED BY <1>1, <1>2, ThreadAt

(* What an interrupt handler runs on top of.                               *)
LEMMA HandlerAt ==
  ASSUME Core, NEW c \in Cpu, pc[running[c]] \in {"tick", "wakeup", "ticked", "iret"}
  PROVE  \/ running[c] \in Process /\ frame[running[c]] \in Open
         \/ running[c] = c /\ c \notin Process /\ proc[c] = NoOne /\ frame[c] \in LoopOpen
  <1>1. CASE running[c] \in Process
    BY <1>1 DEF Core, PlaceOfProcess, TrapLabels
  <1>2. CASE running[c] = c /\ c \notin Process
    BY <1>2 DEF Core, CpuOK, PlaceOf, TrapLabels
  <1> QED BY <1>1, <1>2, ThreadAt

(* The timer interrupts a thread that holds no lock.                       *)
LEMMA TimerStep == ASSUME Core, NEW c \in Cpu, Timer(c) PROVE Core'
  <1>1. sie[c] /\ ~spinning[c] /\ noff[c] = 0 /\ pc[running[c]] \in Open \cup LoopOpen
    <2>1. sie[c]
      BY Zenon DEF Timer
    <2> QED BY <2>1
               DEF Core, CpuOK, InterruptsOf, Depth, HasTickslock, HasOwnLock, Open,
                   LoopOpen
  <1>2. PICK l \in {"tick", "ticked"} : Go(c, l)
    BY DEF Timer
  <1>3. /\ sie' = [sie EXCEPT ![c] = FALSE]
        /\ frame' = [frame EXCEPT ![running[c]] = pc[running[c]]]
    BY Zenon DEF Timer
  <1>4. UNCHANGED <<locked, noff, intena, spinning, running, proc,
                    scan, saved, state, killed, left, waking>>
    BY DEF Timer, cpuvars, procvars
  <1>5. PcStep(c) /\ pc'[running[c]] = l
    BY <1>2, GoStep DEF Labels, TrapLabels
  <1>6. IntrStep(c) /\ noff'[c] = 0 /\ ~spinning'[c] /\ ~sie'[c]
    BY <1>1, <1>3, <1>4 DEF Core, SchedTypeOK, IntrStep
  <1>7. FrameStep(c) /\ frame'[running[c]] = pc[running[c]]
    BY <1>3, ThreadAt DEF Core, SchedTypeOK, FrameStep
  <1>8. LocksOf(c)'
    BY <1>1, <1>4, <1>5, SameLocks DEF HasTickslock, HasOwnLock, Open, LoopOpen
  <1>9. InterruptsOf(c)' /\ InterruptsBackOn(c)'
    BY <1>4, <1>5, <1>6 DEF InterruptsOf, InterruptsBackOn, Depth, HasTickslock, HasOwnLock
  <1>10. Plain(c)
    BY <1>1, <1>4, <1>5, <1>6, <1>7, <1>8, <1>9, SameSteps DEF Plain, Open, LoopOpen
  <1>11. \/ running[c] \in Process /\ pc[running[c]] \in Open
         \/ running[c] = c /\ c \notin Process /\ proc[c] = NoOne /\ pc[c] \in LoopOpen
    <2>1. CASE running[c] \in Process
      <3>1. pc[running[c]] \in ProcLabels \cup TrapLabels
        BY <2>1, ThreadAt DEF Core, PlaceOfProcess
      <3> QED BY <1>1, <2>1, <3>1 DEF Open, LoopOpen, ProcLabels, TrapLabels
    <2>2. CASE running[c] = c /\ c \notin Process
      BY <1>1, <2>2 DEF Core, CpuOK, PlaceOf, LoopLabels, Open, LoopOpen
    <2> QED BY <2>1, <2>2, ThreadAt
  <1> QED BY <1>4, <1>5, <1>7, <1>10, <1>11, HandlerPlain

(* After clockintr(): yield, return, or exit if killed in user mode.       *)
LEMMA TrapEndStep == ASSUME Core, NEW c \in Cpu, TrapEnd(c) PROVE Core'
  <1>1. pc[running[c]] = "ticked"
    BY Zenon DEF TrapEnd, At
  <1>2. noff[c] = 0 /\ ~spinning[c] /\ ~sie[c]
    BY <1>1 DEF Core, CpuOK, InterruptsOf, Depth, HasTickslock, HasOwnLock, Open, LoopOpen
  <1>3. UNCHANGED <<locked, noff, intena, sie, spinning, running, proc,
                    scan, saved, state, killed, left, waking>>
    BY DEF TrapEnd, intrvars, cpuvars, procvars
  <1>4. PICK l \in {"exit", "iret", "yield"} :
           /\ Go(c, l)
           /\ l = "exit" => frame[running[c]] = "user"
           /\ l = "iret" <=> l # "exit" /\ proc[c] = NoOne
           /\ frame' = [frame EXCEPT ![running[c]] = IF l = "exit" THEN "none" ELSE @]
    BY Zenon DEF TrapEnd
  <1>5. PcStep(c) /\ pc'[running[c]] = l
    BY <1>4, GoStep DEF Labels, ProcLabels, TrapLabels
  <1>6. l # "exit" => frame'[running[c]] = frame[running[c]]
    BY <1>4, ThreadAt DEF Core, SchedTypeOK
  <1>7. FrameStep(c)
    BY <1>4, ThreadAt DEF Core, SchedTypeOK, FrameStep
  <1>8. LocksOf(c)'
    BY <1>1, <1>3, <1>5, SameLocks DEF HasTickslock, HasOwnLock
  <1>9. InterruptsOf(c)' /\ InterruptsBackOn(c)'
    BY <1>2, <1>3, <1>5 DEF InterruptsOf, InterruptsBackOn, Depth, HasTickslock, HasOwnLock
  <1>10. Plain(c)
    BY <1>1, <1>3, <1>5, <1>7, <1>8, <1>9, SameSteps DEF Plain, intrvars
  <1>11. \/ running[c] \in Process /\ proc[c] # NoOne /\ frame[running[c]] \in Open
         \/ running[c] = c /\ c \notin Process /\ proc[c] = NoOne /\ frame[c] \in LoopOpen
    BY <1>1, HandlerAt, ThreadAt, SchedulerAssumption DEF Thread
  <1> QED BY <1>3, <1>4, <1>5, <1>6, <1>7, <1>10, <1>11, HandlerPlain DEF LoopOpen

(* The return to where the interrupt came.                                 *)
LEMMA TrapReturnStep == ASSUME Core, NEW c \in Cpu, TrapReturn(c) PROVE Core'
  <1>1. pc[running[c]] = "iret"
    BY Zenon DEF TrapReturn, At
  <1>2. noff[c] = 0 /\ ~spinning[c]
    BY <1>1 DEF Core, CpuOK, InterruptsOf, Depth, HasTickslock, HasOwnLock
  <1>3. UNCHANGED <<locked, noff, intena, spinning, running, proc,
                    scan, saved, state, killed, left, waking>>
    BY DEF TrapReturn, cpuvars, procvars
  <1>4. /\ Go(c, frame[running[c]]) /\ sie' = [sie EXCEPT ![c] = TRUE]
        /\ frame' = [frame EXCEPT ![running[c]] = "none"]
    BY Zenon DEF TrapReturn
  <1>5. \/ running[c] \in Process /\ frame[running[c]] \in {"user", "relock", "exit"}
        \/ running[c] = c /\ c \notin Process /\ proc[c] = NoOne /\ frame[running[c]] \in {"on", "scan", "loop"}
    BY <1>1, HandlerAt DEF Open, LoopOpen
  <1>6. PcStep(c) /\ pc'[running[c]] = frame[running[c]]
    BY <1>4, <1>5, GoStep DEF Labels, ProcLabels, LoopLabels
  <1>7. FrameStep(c)
    BY <1>4, ThreadAt DEF Core, SchedTypeOK, FrameStep
  <1>8. IntrStep(c) /\ noff'[c] = 0 /\ ~spinning'[c] /\ sie'[c]
    BY <1>2, <1>3, <1>4 DEF Core, SchedTypeOK, IntrStep
  <1>9. LocksOf(c)'
    BY <1>1, <1>3, <1>5, <1>6, SameLocks DEF HasTickslock, HasOwnLock
  <1>10. InterruptsOf(c)' /\ InterruptsBackOn(c)'
    BY <1>3, <1>5, <1>6, <1>8
       DEF InterruptsOf, InterruptsBackOn, Depth, HasTickslock, HasOwnLock, Open, LoopOpen
  <1>11. Plain(c)
    BY <1>1, <1>3, <1>5, <1>6, <1>7, <1>8, <1>9, <1>10, SameSteps DEF Plain
  <1> QED BY <1>3, <1>5, <1>6, <1>11, HandlerPlain

(* acquire() starts to spin.                                               *)
LEMMA SpinStep == ASSUME Core, NEW c \in Cpu, Spin(c) PROVE Core'
  <1>1. sie[c] /\ Wanted(c) # {} /\ PushOff(c) /\ spinning' = [spinning EXCEPT ![c] = TRUE]
        /\ UNCHANGED <<locked, cpuvars, pc, frame, saved, procvars, waking>>
    BY DEF Spin
  <1>2. pc[running[c]] \in {"user", "relock", "exit", "scan"}
    <2>1. pc[running[c]] \in Open \cup LoopOpen
      BY <1>1 DEF Core, CpuOK, InterruptsOf
    <2>2. pc[running[c]] \in {"user", "relock", "tick", "sleep", "exit", "yield", "scan", "wakeup"}
      BY <1>1 DEF Wanted, At
    <2> QED BY <2>1, <2>2 DEF Open, LoopOpen
  <1>3. noff[c] = 0
    BY <1>1, <1>2 DEF Core, CpuOK, InterruptsOf, Depth, HasTickslock, HasOwnLock
  <1>4. IntrStep(c) /\ noff'[c] = 1 /\ spinning'[c] /\ ~sie'[c] /\ intena'[c]
    BY <1>1, <1>3 DEF Core, SchedTypeOK, IntrStep, PushOff
  <1>5. UNCHANGED <<locked, pc, frame, running, proc, scan,
                    saved, state, killed, left, waking>>
    BY <1>1 DEF cpuvars, procvars
  <1>6. LocksOf(c)'
    BY <1>2, <1>5, SameLocks
  <1>7. InterruptsOf(c)' /\ InterruptsBackOn(c)'
    BY <1>2, <1>4, <1>5 DEF InterruptsOf, InterruptsBackOn
  <1>8. PcStep(c)
    BY <1>5 DEF Core, SchedTypeOK, PcStep
  <1>9. Plain(c)
    BY <1>2, <1>4, <1>5, <1>6, <1>7, <1>8, SameSteps DEF Plain
  <1>10. \/ running[c] \in Process /\ pc[running[c]] \in {"user", "relock", "exit"}
         \/ running[c] = c /\ c \notin Process /\ proc[c] = NoOne /\ pc[c] = "scan"
    <2>1. CASE pc[running[c]] = "scan"
      BY <2>1, LoopAt DEF LoopLabels, Core, CpuOK, PlaceOf
    <2>2. CASE pc[running[c]] # "scan"
      BY <1>2, <2>2, ProcessAt DEF ProcLabels
    <2> QED BY <2>1, <2>2
  <1> QED BY <1>5, <1>9, <1>10, HandlerPlain

-----------------------------------------------------------------------------
(* sleep() lets go of tickslock: it has p->lock by now, and there are      *)
(* ticks to wait for.                                                      *)
LEMMA SleepReleaseStep == ASSUME Core, NEW c \in Cpu, SleepRelease(c) PROVE Core'
  <1>1. ReleaseWith(c, tickslock, intena[c])
    BY Zenon DEF SleepRelease, Release
  <1>2. pc[running[c]] = "sleep_rel" /\ Go(c, "sleep_sched")
    BY Zenon DEF SleepRelease, At
  <1>3. /\ running[c] \in Process /\ proc[c] = running[c]
        /\ running[c] # c /\ state[running[c]] = "RUNNING"
    BY <1>2, ProcessAt, ThreadAt DEF ProcLabels
  <1>4. /\ noff[c] = 2 /\ ~spinning[c] /\ intena[c]
        /\ intena[c] \in BOOLEAN /\ tickslock \in Lock
        /\ left[running[c]] > 0
    BY <1>2, <1>3
       DEF Core, CpuOK, InterruptsOf, PlaceOfProcess, SchedTypeOK, Lock, Depth,
           HasTickslock, HasOwnLock
  <1>5. UNCHANGED <<running, proc, scan, frame, saved, state, killed, left, waking>>
    BY DEF SleepRelease, cpuvars, procvars
  <1>6. PcStep(c) /\ pc'[running[c]] = "sleep_sched"
    BY <1>2, GoStep DEF Labels, ProcLabels
  <1>7. /\ LockStep(c, tickslock) /\ locked'[tickslock] # c
        /\ IntrStep(c) /\ noff'[c] = 1 /\ ~sie'[c] /\ ~spinning'[c] /\ intena'[c]
    <2>1. /\ LockStep(c, tickslock) /\ locked'[tickslock] # c
          /\ IntrStep(c) /\ noff'[c] = noff[c] - 1 /\ (intena'[c] <=> intena[c])
          /\ spinning' = spinning /\ (sie'[c] <=> noff[c] = 1 /\ intena[c])
      BY <1>1, <1>4, ReleaseStep, Zenon
    <2> QED BY <1>4, <2>1
  <1>8. StepOf(c)
    BY <1>4, <1>5, <1>6, <1>7, SameSteps DEF StepOf, cpuvars
  <1>9. CpuOK(c)'
    <2>1. LocksOf(c)'
      BY <1>2, <1>5, <1>6, <1>7, TickslockMoves DEF HasTickslock, HasOwnLock
    <2>2. InterruptsOf(c)' /\ InterruptsBackOn(c)'
      BY <1>5, <1>6, <1>7
         DEF InterruptsOf, InterruptsBackOn, Depth, HasTickslock, HasOwnLock
    <2>3. PlaceOf(c)'
      BY <1>3, <1>5, <1>6 DEF Core, CpuOK, PlaceOf, PcStep, Thread
    <2> QED BY <2>1, <2>2, <2>3 DEF CpuOK
  <1>10. \A q \in Process \ {running[c]} : pc'[q] = pc[q]
    BY <1>6 DEF PcStep, Thread
  <1>11. \A q \in Process : PlaceOfProcess(q)'
    BY <1>3, <1>5, <1>6, <1>10 DEF Core, PlaceOfProcess, ProcLabels, TrapLabels
  <1>12. NoLostWakeup'
    <2>1. \A d \in Cpu : At(d, "wakeup") => At(d, "wakeup")'
      BY <1>2, <1>8, WakeupGoesOn DEF At
    <2> QED BY <1>4, <1>5, <1>10, <2>1 DEF Core, NoLostWakeup
  <1>13. SchedTypeOK'
    BY <1>5, <1>6, <1>7 DEF Core, SchedTypeOK, IntrStep, PcStep, LockStep
  <1>14. Distinct'
    BY <1>5 DEF Core, Distinct
  <1> QED BY <1>8, <1>9, <1>11, <1>12, <1>13, <1>14, OtherCpus DEF Core

(* sched(), the switch to the scheduler thread: p->lock passes to it, and  *)
(* the process is left with a state and an intena that fit its place.      *)
LEMMA SchedStep ==
  ASSUME Core, NEW c \in Cpu, NEW st, NEW l, Sched(c, st, l),
         \/ pc[running[c]] = "sleep_sched" /\ st = "SLEEPING" /\ l = "sleep_back"
         \/ pc[running[c]] = "exit_sched" /\ st = "ZOMBIE" /\ l = "zombie"
         \/ pc[running[c]] = "yield_sched" /\ st = "RUNNABLE" /\ l = "yield_back"
  PROVE  Core'
  <1> DEFINE p == running[c]
  <1>1. p \in Process /\ proc[c] = p
    BY ProcessAt DEF ProcLabels
  <1>2. /\ p # c /\ c \notin Process /\ c \in Thread /\ p \in Thread
        /\ pc[c] = "back" /\ scan[c] = p /\ state[p] = "RUNNING"
    BY <1>1, ThreadAt, SchedulerAssumption DEF Core, CpuOK, PlaceOf, Thread
  <1>3. /\ noff[c] = 1 /\ ~spinning[c] /\ ~sie[c]
        /\ l = "sleep_back" => intena[c]
        /\ l = "yield_back" => ~intena[c]
    BY DEF Core, CpuOK, InterruptsOf, Depth, HasTickslock, HasOwnLock, Open, LoopOpen
  <1>4. /\ Go(c, l) /\ state' = [state EXCEPT ![p] = st]
        /\ saved' = [saved EXCEPT ![p] = intena[c]]
        /\ running' = [running EXCEPT ![c] = c]
    BY <1>1 DEF Sched
  <1>5. UNCHANGED <<locked, noff, intena, sie, spinning, proc,
                    scan, frame, killed, left, waking>>
    BY DEF Sched, intrvars
  <1>6. PcStep(c) /\ pc'[p] = l /\ pc'[c] = "back"
    <2>1. PcStep(c) /\ pc'[p] = l
      BY <1>4, GoStep DEF Labels, ProcLabels, TrapLabels
    <2> QED BY <1>2, <2>1 DEF PcStep
  <1>7. running' \in [Cpu -> Thread] /\ running'[c] = c /\ CpuStep(c)
    BY <1>2, <1>4, <1>5 DEF Core, SchedTypeOK, CpuStep
  <1>8. /\ state' \in [Process -> {"RUNNABLE", "RUNNING", "SLEEPING", "ZOMBIE"}]
        /\ state'[p] = st /\ \A q \in Process \ {p} : state'[q] = state[q]
    BY <1>1, <1>4 DEF Core, SchedTypeOK
  <1>9. /\ saved' \in [Process -> BOOLEAN] /\ (saved'[p] <=> intena[c])
        /\ \A q \in Process \ {p} : saved'[q] = saved[q]
    BY <1>1, <1>4 DEF Core, SchedTypeOK
  <1>10. StepOf(c)
    BY <1>5, <1>6, <1>7, SameSteps DEF StepOf, intrvars
  <1>11. SchedTypeOK'
    BY <1>5, <1>6, <1>7, <1>8, <1>9 DEF Core, SchedTypeOK, PcStep
  <1>12. \A d \in Cpu : running[d] = c => d = c
    BY ThreadAt, <1>2, SchedulerAssumption
  <1>13. Distinct'
    <2>1. \A d \in Cpu \ {c} : running'[d] = running[d]
      BY <1>7 DEF CpuStep
    <2> QED BY <1>7, <1>12, <2>1 DEF Core, Distinct
  <1>14. CpuOK(c)'
    <2>1. LocksOf(c)'
      <3>1. locked[tickslock] # c
        BY DEF Core, CpuOK, LocksOf, HasTickslock
      <3>2. \A q \in Process : locked[q] = c <=> q = p
        BY <1>2 DEF Core, CpuOK, LocksOf, HasOwnLock
      <3> QED BY <1>2, <1>5, <1>6, <1>7, <3>1, <3>2 DEF LocksOf, HasTickslock
    <2>2. InterruptsOf(c)' /\ InterruptsBackOn(c)'
      BY <1>3, <1>5, <1>6, <1>7
         DEF InterruptsOf, InterruptsBackOn, Depth, HasTickslock, HasOwnLock
    <2>3. PlaceOf(c)'
      BY <1>2, <1>6, <1>7 DEF PlaceOf, LoopLabels, TrapLabels
    <2> QED BY <2>1, <2>2, <2>3 DEF CpuOK
  <1>15. ASSUME NEW q \in Process PROVE PlaceOfProcess(q)'
    <2>1. CASE q = p
      <3>1. \A d \in Cpu : running'[d] # p
        BY <1>2, <1>7 DEF Core, Distinct, CpuStep
      <3>2. frame'[p] \in Open \/ l # "yield_back"
        BY <1>1, <1>5 DEF Core, PlaceOfProcess, TrapLabels
      <3> QED BY <1>3, <1>6, <1>8, <1>9, <2>1, <3>1, <3>2 DEF PlaceOfProcess, TrapLabels
    <2>2. CASE q # p
      <3>1. pc'[q] = pc[q] /\ state'[q] = state[q] /\ saved'[q] = saved[q]
        BY <1>6, <1>8, <1>9, <2>2 DEF PcStep, Thread
      <3>2. (\E d \in Cpu : running'[d] = q) <=> (\E d \in Cpu : running[d] = q)
        BY <1>2, <1>7, <2>2 DEF CpuStep
      <3> QED BY <1>5, <3>1, <3>2 DEF Core, PlaceOfProcess
    <2> QED BY <2>1, <2>2
  <1>16. NoLostWakeup'
    <2>1. \A d \in Cpu : At(d, "wakeup") => At(d, "wakeup")'
      BY <1>10, WakeupGoesOn DEF At
    <2>2. \A q \in Process : state'[q] = "SLEEPING" \/ pc'[q] = "sleep_sched" =>
                               state[q] = "SLEEPING" \/ pc[q] = "sleep_sched"
      BY <1>6, <1>8 DEF PcStep, Thread
    <2> QED BY <1>5, <2>1, <2>2 DEF Core, NoLostWakeup
  <1> QED BY <1>10, <1>11, <1>13, <1>14, <1>15, <1>16, OtherCpus DEF Core

(* sleep() switches away with state SLEEPING.                              *)
LEMMA SleepSchedStep == ASSUME Core, NEW c \in Cpu, SleepSched(c) PROVE Core'
  BY SchedStep DEF SleepSched, At

(* kexit() switches away with state ZOMBIE, for good.                      *)
LEMMA ExitSchedStep == ASSUME Core, NEW c \in Cpu, ExitSched(c) PROVE Core'
  BY SchedStep DEF ExitSched, At

(* yield() switches away with state RUNNABLE.                              *)
LEMMA YieldSchedStep == ASSUME Core, NEW c \in Cpu, YieldSched(c) PROVE Core'
  BY SchedStep DEF YieldSched, At
=============================================================================
