-------------------------- MODULE SchedulerSteps ----------------------------
(***************************************************************************)
(* The invariant of the scheduler and the steps of a process that keep to  *)
(* its thread: what acquire() and release() do to locks, noff, intena and  *)
(* interrupts, for any number of CPUs and processes.                       *)
(***************************************************************************)
EXTENDS Scheduler, TLAPS

Distinct == \A c, d \in Cpu : running[c] = running[d] => c = d

CpuOK(c) == LocksOf(c) /\ InterruptsOf(c) /\ InterruptsBackOn(c) /\ PlaceOf(c)

(* The part of the invariant from which the rest follows in every state.   *)
Core == /\ SchedTypeOK /\ Distinct /\ NoLostWakeup
        /\ \A c \in Cpu : CpuOK(c)
        /\ \A p \in Process : PlaceOfProcess(p)

-----------------------------------------------------------------------------
(* Which thread a label belongs to.                                        *)
LEMMA ThreadAt ==
  ASSUME NEW c \in Cpu, Core
  PROVE  /\ running[c] \in Thread
         /\ running[c] \in Process \/ (running[c] = c /\ c \notin Process)
         /\ running[c] \in Process =>
              state[running[c]] = "RUNNING" /\ c # running[c] /\ proc[c] = running[c]
  BY SchedulerAssumption DEF Core, CpuOK, PlaceOf, PlaceOfProcess, SchedTypeOK, Thread

(* The labels of system calls and of yield() are those of a process, the   *)
(* current one of its CPU.                                                 *)
LEMMA ProcessAt ==
  ASSUME NEW c \in Cpu, Core, pc[running[c]] \in ProcLabels \cup {"yield", "yield_sched", "yield_back"}
  PROVE  running[c] \in Process /\ proc[c] = running[c]
  BY DEF Core, CpuOK, PlaceOf, ProcLabels, LoopLabels

(* The labels of scheduler() are those of the CPU's own thread.            *)
LEMMA LoopAt ==
  ASSUME NEW c \in Cpu, Core, pc[running[c]] \in LoopLabels
  PROVE  running[c] = c /\ c \notin Process
  BY ThreadAt DEF Core, PlaceOfProcess, ProcLabels, TrapLabels, LoopLabels

-----------------------------------------------------------------------------
(* What a step of CPU c may do to the registers of a CPU, the place of a   *)
(* thread and a lock: those of c, the thread on c, a lock c takes or gives *)
(* up.                                                                     *)
IntrStep(c) ==
    /\ noff' \in [Cpu -> Nat] /\ intena' \in [Cpu -> BOOLEAN]
    /\ sie' \in [Cpu -> BOOLEAN] /\ spinning' \in [Cpu -> BOOLEAN]
    /\ \A d \in Cpu \ {c} : /\ noff'[d] = noff[d] /\ intena'[d] = intena[d]
                            /\ sie'[d] = sie[d] /\ spinning'[d] = spinning[d]
PcStep(c) ==
    /\ pc' \in [Thread -> Labels]
    /\ \A t \in Thread \ {running[c]} : pc'[t] = pc[t]
FrameStep(c) ==
    /\ frame' \in [Thread -> Labels \cup {"none"}]
    /\ \A t \in Thread \ {running[c]} : frame'[t] = frame[t]
LeftStep(c) ==
    /\ left' \in [Process -> Nat]
    /\ \A p \in Process \ {running[c]} : left'[p] = left[p]
LockStep(c, l) ==
    /\ locked' \in [Lock -> Cpu \cup {NoOne}]
    /\ \A k \in Lock \ {l} : locked'[k] = locked[k]
    /\ {locked[l], locked'[l]} \subseteq {c, NoOne}
CpuStep(c) ==
    \A d \in Cpu \ {c} : running'[d] = running[d] /\ proc'[d] = proc[d] /\ scan'[d] = scan[d]
StepOf(c) ==
    /\ IntrStep(c) /\ PcStep(c) /\ FrameStep(c) /\ CpuStep(c)
    /\ UNCHANGED locked \/ \E l \in Lock : LockStep(c, l)

(* Such a step leaves what is known of the other CPUs as it was.           *)
LEMMA OtherCpus ==
  ASSUME Core, NEW c \in Cpu, NEW d \in Cpu \ {c}, StepOf(c)
  PROVE  CpuOK(d)'
  <1>1. /\ d # NoOne /\ d \in Thread /\ d # running[c]
        /\ running[d] \in Thread /\ running[d] # running[c]
    BY ThreadAt, SchedulerAssumption DEF Core, Distinct, Thread
  <1>2. pc'[running[d]] = pc[running[d]] /\ pc'[d] = pc[d] /\ frame'[d] = frame[d]
    BY <1>1 DEF StepOf, PcStep, FrameStep
  <1>3. running'[d] = running[d] /\ proc'[d] = proc[d] /\ scan'[d] = scan[d]
    BY DEF StepOf, CpuStep
  <1>4. LocksOf(d)'
    <2>1. \A l \in Lock : locked'[l] = d <=> locked[l] = d
      BY <1>1 DEF StepOf, LockStep
    <2> QED BY <1>2, <1>3, <2>1 DEF Core, CpuOK, LocksOf, Lock
  <1>5. InterruptsOf(d)' /\ InterruptsBackOn(d)'
    <2>1. /\ noff'[d] = noff[d] /\ intena'[d] = intena[d]
          /\ sie'[d] = sie[d] /\ spinning'[d] = spinning[d]
      BY DEF StepOf, IntrStep
    <2> QED BY <1>2, <1>3, <2>1 DEF Core, CpuOK, InterruptsOf, InterruptsBackOn
  <1>6. PlaceOf(d)'
    BY <1>2, <1>3 DEF Core, CpuOK, PlaceOf
  <1> QED BY <1>4, <1>5, <1>6 DEF CpuOK

(* A wakeup() under way on another CPU is still under way.                 *)
LEMMA WakeupGoesOn ==
  ASSUME Core, NEW c \in Cpu, StepOf(c), NEW d \in Cpu, d # c, At(d, "wakeup")
  PROVE  At(d, "wakeup")'
  <1>1. running[d] \in Thread /\ running[d] # running[c]
    BY ThreadAt DEF Core, Distinct
  <1> QED BY <1>1 DEF At, StepOf, PcStep, CpuStep

-----------------------------------------------------------------------------
(* What is left to show of a step that keeps to its thread: no swtch(), no *)
(* change of p->state, no part in a wakeup().                              *)
Plain(c) ==
    /\ IntrStep(c) /\ PcStep(c) /\ FrameStep(c) /\ LeftStep(c)
    /\ UNCHANGED locked \/ \E l \in Lock : LockStep(c, l)
    /\ UNCHANGED <<running, saved, state, waking>>
    /\ LocksOf(c)' /\ InterruptsOf(c)' /\ InterruptsBackOn(c)'
    /\ pc[running[c]] # "wakeup" /\ pc'[running[c]] # "sleep_sched"

(* Core survives a plain step if the places of the thread it takes stay    *)
(* right.                                                                  *)
LEMMA PlainStep ==
  ASSUME Core, NEW c \in Cpu, Plain(c), CpuStep(c), PlaceOf(c)',
         proc' \in [Cpu -> Process \cup {NoOne}], scan' \in [Cpu -> Process],
         killed' \in [Process -> BOOLEAN],
         \A p \in Process : p = running[c] => PlaceOfProcess(p)'
  PROVE  Core'
  <1>1. StepOf(c)
    BY DEF Plain, StepOf
  <1>2. SchedTypeOK'
    <2>1. locked' \in [Lock -> Cpu \cup {NoOne}]
      BY DEF Plain, LockStep, Core, SchedTypeOK
    <2> QED BY <2>1 DEF Plain, IntrStep, PcStep, FrameStep, LeftStep, Core, SchedTypeOK
  <1>3. \A d \in Cpu : CpuOK(d)'
    BY <1>1, OtherCpus DEF CpuOK, Plain
  <1>4. \A p \in Process \ {running[c]} :
           pc'[p] = pc[p] /\ frame'[p] = frame[p] /\ left'[p] = left[p]
    BY DEF Plain, PcStep, FrameStep, LeftStep, Thread
  <1>5. UNCHANGED <<running, saved, state, waking>>
    BY DEF Plain
  <1>6. \A p \in Process : PlaceOfProcess(p)'
    <2> SUFFICES ASSUME NEW p \in Process, p # running[c] PROVE PlaceOfProcess(p)'
      OBVIOUS
    <2> QED BY <1>4, <1>5 DEF Core, PlaceOfProcess
  <1>7. NoLostWakeup'
    <2>1. \A d \in Cpu : At(d, "wakeup") => At(d, "wakeup")'
      BY <1>1, WakeupGoesOn DEF Plain, At
    <2>2. ASSUME NEW p \in Process, state'[p] = "SLEEPING" \/ pc'[p] = "sleep_sched"
          PROVE  /\ state[p] = "SLEEPING" \/ pc[p] = "sleep_sched"
                 /\ left'[p] = left[p]
      <3>1. p # running[c]
        BY <1>5, <2>2, ThreadAt DEF Plain
      <3> QED BY <1>4, <1>5, <2>2, <3>1
    <2> QED BY <1>5, <2>1, <2>2 DEF Core, NoLostWakeup
  <1>8. Distinct'
    BY <1>5 DEF Core, Distinct
  <1> QED BY <1>2, <1>3, <1>6, <1>7, <1>8 DEF Core

(* A plain step of a process, in its own code or in a handler.             *)
LEMMA ProcessPlain ==
  ASSUME Core, NEW c \in Cpu, running[c] \in Process, Plain(c), UNCHANGED <<proc, scan, killed>>,
         pc'[running[c]] \in (ProcLabels \cup TrapLabels) \ {"zombie", "sleep_back", "yield_back"},
         pc'[running[c]] \in TrapLabels => frame'[running[c]] \in Open,
         pc'[running[c]] \in {"sleep", "sleep_rel"} => left'[running[c]] > 0
  PROVE  Core'
  <1>1. c \in Thread \ {running[c]} /\ pc'[c] = pc[c] /\ frame'[c] = frame[c]
    BY ThreadAt DEF Plain, PcStep, FrameStep, Thread
  <1>2. PlaceOf(c)'
    BY <1>1 DEF Core, CpuOK, PlaceOf, Plain
  <1>3. \A p \in Process : p = running[c] => PlaceOfProcess(p)'
    BY ThreadAt DEF Core, PlaceOfProcess, Plain
  <1>4. CpuStep(c) /\ proc' \in [Cpu -> Process \cup {NoOne}] /\ scan' \in [Cpu -> Process]
        /\ killed' \in [Process -> BOOLEAN]
    BY DEF CpuStep, Plain, Core, SchedTypeOK
  <1> QED BY <1>2, <1>3, <1>4, PlainStep

(* A plain step of a scheduler thread, or of a handler on top of it.       *)
LEMMA LoopPlain ==
  ASSUME Core, NEW c \in Cpu, running[c] = c, c \notin Process, Plain(c), CpuStep(c),
         UNCHANGED killed, proc' \in [Cpu -> Process \cup {NoOne}], scan' \in [Cpu -> Process],
         pc'[c] \in {"on", "scan", "loop", "tick", "ticked", "iret"}, proc'[c] = NoOne,
         pc'[c] \in TrapLabels => frame'[c] \in LoopOpen
  PROVE  Core'
  <1>1. PlaceOf(c)'
    BY DEF PlaceOf, Plain, LoopLabels
  <1>2. killed' \in [Process -> BOOLEAN]
    BY DEF Core, SchedTypeOK
  <1> QED BY <1>1, <1>2, PlainStep

-----------------------------------------------------------------------------
(* The primitives: a step to another label, acquire() of a first lock, at  *)
(* once or after spinning, release(), and a critical section as a whole.   *)
LEMMA GoStep ==
  ASSUME Core, NEW c \in Cpu, NEW l \in Labels, Go(c, l)
  PROVE  PcStep(c) /\ pc'[running[c]] = l
  BY ThreadAt DEF Core, SchedTypeOK, Go, PcStep

(* acquire() of a first lock leaves noff at one, and intena says whether   *)
(* interrupts were on.                                                     *)
LEMMA AcquireFirst ==
  ASSUME Core, NEW c \in Cpu, NEW l \in Lock, Acquire(c, l), Depth(pc[running[c]]) = 0
  PROVE  /\ LockStep(c, l) /\ locked'[l] = c
         /\ IntrStep(c) /\ noff'[c] = 1 /\ ~sie'[c] /\ ~spinning'[c]
         /\ intena'[c] <=> sie[c] \/ spinning[c]
  <1>1. LockStep(c, l) /\ locked'[l] = c
    BY DEF Acquire, LockStep, Core, SchedTypeOK
  <1>2. CASE spinning[c]
    <2>1. noff[c] = 1 /\ ~sie[c] /\ intena[c]
      BY <1>2 DEF Core, CpuOK, InterruptsOf
    <2>2. UNCHANGED <<noff, intena, sie>> /\ spinning' = [spinning EXCEPT ![c] = FALSE]
      BY <1>2 DEF Acquire
    <2> QED BY <1>1, <1>2, <2>1, <2>2 DEF Core, SchedTypeOK, IntrStep
  <1>3. CASE ~spinning[c]
    <2>1. noff[c] = 0
      BY <1>3 DEF Core, CpuOK, InterruptsOf
    <2>2. /\ noff' = [noff EXCEPT ![c] = noff[c] + 1]
          /\ intena' = [intena EXCEPT ![c] = sie[c]]
          /\ sie' = [sie EXCEPT ![c] = FALSE] /\ spinning' = [spinning EXCEPT ![c] = FALSE]
      BY <1>3, <2>1 DEF Acquire, PushOff
    <2> QED BY <1>1, <1>3, <2>1, <2>2 DEF Core, SchedTypeOK, IntrStep
  <1> QED BY <1>2, <1>3

(* release() gives the lock up and counts noff down; interrupts return     *)
(* with the last.                                                          *)
LEMMA ReleaseStep ==
  ASSUME Core, NEW c \in Cpu, NEW l \in Lock, NEW old \in BOOLEAN, ReleaseWith(c, l, old)
  PROVE  /\ LockStep(c, l) /\ locked'[l] # c
         /\ IntrStep(c) /\ noff'[c] = noff[c] - 1 /\ (intena'[c] <=> old)
         /\ spinning' = spinning /\ (sie'[c] <=> noff[c] = 1 /\ old)
  <1>1. LockStep(c, l) /\ locked'[l] # c
    BY SchedulerAssumption DEF ReleaseWith, Holding, LockStep, Core, SchedTypeOK, Thread
  <1>2. /\ noff' = [noff EXCEPT ![c] = noff[c] - 1] /\ noff[c] > 0 /\ ~sie[c]
        /\ intena' = [intena EXCEPT ![c] = old] /\ spinning' = spinning
        /\ sie' = [sie EXCEPT ![c] = sie[c] \/ (noff[c] = 1 /\ old)]
    BY DEF ReleaseWith, PopOff
  <1>3. noff' \in [Cpu -> Nat] /\ noff'[c] = noff[c] - 1 /\ \A d \in Cpu \ {c} : noff'[d] = noff[d]
    BY <1>2 DEF Core, SchedTypeOK
  <1> QED BY <1>1, <1>2, <1>3, Zenon DEF Core, SchedTypeOK, IntrStep

(* release() of the only lock of the CPU.                                  *)
LEMMA ReleaseLast ==
  ASSUME Core, NEW c \in Cpu, NEW l \in Lock, NEW old \in BOOLEAN, ReleaseWith(c, l, old),
         noff[c] = 1, ~spinning[c]
  PROVE  /\ LockStep(c, l) /\ locked'[l] # c
         /\ IntrStep(c) /\ noff'[c] = 0 /\ ~spinning'[c] /\ (sie'[c] <=> old)
  <1>1. /\ LockStep(c, l) /\ locked'[l] # c
        /\ IntrStep(c) /\ noff'[c] = noff[c] - 1
        /\ spinning' = spinning /\ (sie'[c] <=> noff[c] = 1 /\ old)
    BY ReleaseStep, Zenon
  <1>2. noff'[c] = 0
    BY <1>1
  <1> QED BY <1>1, <1>2, Zenon

(* A critical section as a whole leaves noff, and interrupts, as before    *)
(* acquire().                                                              *)
LEMMA VisitStep ==
  ASSUME Core, NEW c \in Cpu, NEW l \in Lock, Visit(c, l)
  PROVE  /\ locked[l] = NoOne /\ UNCHANGED locked
         /\ IntrStep(c) /\ ~spinning'[c] /\ noff'[c] = Depth(pc[running[c]])
         /\ sie'[c] <=> sie[c] \/ spinning[c]
         /\ Depth(pc[running[c]]) # 0 => (intena'[c] <=> intena[c])
  <1>1. CASE spinning[c]
    <2>1. intena[c] /\ noff[c] = 1 /\ Depth(pc[running[c]]) = 0
      BY <1>1 DEF Core, CpuOK, InterruptsOf, Depth, HasTickslock, HasOwnLock
    <2>2. /\ locked[l] = NoOne /\ UNCHANGED locked
          /\ noff' = [noff EXCEPT ![c] = noff[c] - 1] /\ intena' = [intena EXCEPT ![c] = intena[c]]
          /\ sie' = [sie EXCEPT ![c] = sie[c] \/ (noff[c] = 1 /\ intena[c])]
          /\ spinning' = [spinning EXCEPT ![c] = FALSE]
      BY <1>1, Zenon DEF Visit, PopOff
    <2>3. sie' = [sie EXCEPT ![c] = TRUE]
      BY <2>1, <2>2, Zenon
    <2> QED BY <1>1, <2>1, <2>2, <2>3 DEF Core, SchedTypeOK, IntrStep
  <1>2. CASE ~spinning[c]
    <2>1. noff[c] = Depth(pc[running[c]])
      BY <1>2 DEF Core, CpuOK, InterruptsOf
    <2>2. /\ locked[l] = NoOne /\ UNCHANGED <<locked, noff, sie>>
          /\ intena' = [intena EXCEPT ![c] = IF noff[c] = 0 THEN sie[c] ELSE intena[c]]
          /\ spinning' = [spinning EXCEPT ![c] = FALSE]
      BY <1>2 DEF Visit
    <2> QED BY <1>2, <2>1, <2>2 DEF Core, SchedTypeOK, IntrStep
  <1> QED BY <1>1, <1>2

(* What a thread holds after a step that takes or gives up no lock, or     *)
(* tickslock only, or only the lock of its own process.                    *)
LEMMA SameLocks ==
  ASSUME Core, NEW c \in Cpu, UNCHANGED <<locked, running>>,
         pc[running[c]] \in HasTickslock <=> pc'[running[c]] \in HasTickslock,
         pc[running[c]] \in HasOwnLock <=> pc'[running[c]] \in HasOwnLock,
         pc[running[c]] # "back", pc'[running[c]] # "back"
  PROVE  LocksOf(c)'
  BY DEF Core, CpuOK, LocksOf

(* A step that takes or gives up tickslock only.                           *)
LEMMA TickslockMoves ==
  ASSUME Core, NEW c \in Cpu, LockStep(c, tickslock), UNCHANGED running,
         locked'[tickslock] = c <=> pc'[running[c]] \in HasTickslock,
         pc[running[c]] \in HasOwnLock <=> pc'[running[c]] \in HasOwnLock,
         pc[running[c]] # "back", pc'[running[c]] # "back"
  PROVE  LocksOf(c)'
  <1>1. \A p \in Process : locked'[p] = locked[p]
    BY SchedulerAssumption DEF LockStep, Lock
  <1> QED BY <1>1 DEF Core, CpuOK, LocksOf

(* A step that takes or gives up the lock of its own process only.         *)
LEMMA OwnLockMoves ==
  ASSUME Core, NEW c \in Cpu, running[c] \in Process, LockStep(c, running[c]), UNCHANGED running,
         locked'[running[c]] = c <=> pc'[running[c]] \in HasOwnLock,
         pc[running[c]] \in HasTickslock <=> pc'[running[c]] \in HasTickslock
  PROVE  LocksOf(c)'
  <1>1. locked'[tickslock] = locked[tickslock]
        /\ \A p \in Process \ {running[c]} : locked'[p] = locked[p]
    BY SchedulerAssumption DEF LockStep, Lock
  <1>2. c # running[c]
    BY ThreadAt
  <1> QED BY <1>1, <1>2 DEF Core, CpuOK, LocksOf

(* What a step leaves alone it leaves alone.                               *)
LEMMA SameSteps ==
  ASSUME Core, NEW c \in Cpu
  PROVE  /\ UNCHANGED intrvars => IntrStep(c)
         /\ UNCHANGED frame => FrameStep(c)
         /\ UNCHANGED left => LeftStep(c)
         /\ UNCHANGED cpuvars => CpuStep(c)
  BY DEF Core, SchedTypeOK, IntrStep, FrameStep, LeftStep, CpuStep, intrvars, cpuvars

(* A step of a process to the label l of its own code or of yield(), which *)
(* takes or gives up one lock at most: Core survives if the lock, noff,    *)
(* intena and the interrupts are what l asks for.                          *)
LEMMA ProcessMoves ==
  ASSUME Core, NEW c \in Cpu, running[c] \in Process,
         UNCHANGED <<running, proc, scan, frame, saved, state, killed, waking>>, LeftStep(c),
         NEW l \in (ProcLabels \cup TrapLabels) \ {"zombie", "sleep_sched", "sleep_back", "yield_back", "wakeup"},
         Go(c, l), pc[running[c]] \in ProcLabels \cup {"yield", "yield_back"},
         l \in TrapLabels => frame[running[c]] \in Open,
         l \in {"sleep", "sleep_rel"} => left'[running[c]] > 0,
         IntrStep(c), ~spinning'[c], noff'[c] = Depth(l), sie'[c] <=> l \in Open,
         l \in {"test", "sleep", "sleep_rel", "pause_rel"} => intena'[c],
         l = "yield_sched" => ~intena'[c],
         \/ /\ UNCHANGED locked
            /\ pc[running[c]] \in HasTickslock <=> l \in HasTickslock
            /\ pc[running[c]] \in HasOwnLock <=> l \in HasOwnLock
         \/ /\ LockStep(c, tickslock) /\ (locked'[tickslock] = c <=> l \in HasTickslock)
            /\ pc[running[c]] \in HasOwnLock <=> l \in HasOwnLock
         \/ /\ LockStep(c, running[c]) /\ (locked'[running[c]] = c <=> l \in HasOwnLock)
            /\ pc[running[c]] \in HasTickslock <=> l \in HasTickslock
  PROVE  Core'
  <1>1. PcStep(c) /\ pc'[running[c]] = l
    BY GoStep DEF Labels
  <1>2. pc[running[c]] \notin {"back", "wakeup"} /\ l # "back"
    BY DEF ProcLabels, TrapLabels
  <1>3. LocksOf(c)'
    BY <1>1, <1>2, SameLocks, TickslockMoves, OwnLockMoves
  <1>4. InterruptsOf(c)' /\ InterruptsBackOn(c)'
    <2>1. pc'[running'[c]] = l /\ l \notin {"wakeup", "sleep_sched"}
      BY <1>1
    <2>2. l \in {"user", "relock"} => l \in Open
      BY DEF Open
    <2> QED BY <2>1, <2>2 DEF InterruptsOf, InterruptsBackOn, ProcLabels, TrapLabels
  <1>5. Plain(c)
    BY <1>1, <1>2, <1>3, <1>4, SameSteps DEF Plain, Lock
  <1> QED BY <1>1, <1>5, ProcessPlain

(* The first run of a process keeps Core: forkret() releases the lock      *)
(* scheduler() took.                                                       *)
LEMMA ForkretStep == ASSUME Core, NEW c \in Cpu, Forkret(c) PROVE Core'
  <1>1. pc[running[c]] = "forkret" /\ running[c] \in Process /\ proc[c] = running[c]
    <2>1. pc[running[c]] = "forkret"
      BY Zenon DEF Forkret, At
    <2> QED BY <2>1, ProcessAt DEF ProcLabels
  <1>2. ~spinning[c] /\ noff[c] = 1 /\ running[c] \in Lock
    BY <1>1 DEF Core, CpuOK, InterruptsOf, Depth, HasTickslock, HasOwnLock, Lock
  <1>3. /\ locked[running[c]] = c /\ locked' = [locked EXCEPT ![running[c]] = NoOne]
        /\ noff' = [noff EXCEPT ![c] = noff[c] - 1]
        /\ sie' = [sie EXCEPT ![c] = TRUE]
        /\ UNCHANGED <<intena, spinning, running, proc, scan, frame,
                       saved, state, killed, waking, left>>
    BY <1>1, <1>2, Zenon DEF Forkret, cpuvars, procvars, Holding
  <1>4. Go(c, "user")
    BY Zenon DEF Forkret
  <1>5. /\ LockStep(c, running[c]) /\ locked'[running[c]] # c
        /\ IntrStep(c) /\ noff'[c] = 0 /\ sie'[c] /\ ~spinning'[c]
    BY <1>1, <1>2, <1>3, SchedulerAssumption
       DEF Core, SchedTypeOK, IntrStep, LockStep, Thread
  <1> QED BY <1>1, <1>3, <1>4, <1>5, SameSteps, ProcessMoves
         DEF Depth, HasTickslock, HasOwnLock, Open, ProcLabels, TrapLabels

(* sys_pause() takes tickslock, at once or after spinning.                 *)
LEMMA PauseStartStep == ASSUME Core, NEW c \in Cpu, PauseStart(c) PROVE Core'
  <1>1. pc[running[c]] = "user" /\ running[c] \in Process /\ proc[c] = running[c]
    <2>1. pc[running[c]] = "user"
      BY Zenon DEF PauseStart, At
    <2> QED BY <2>1, ProcessAt DEF ProcLabels
  <1>2. Depth(pc[running[c]]) = 0 /\ (sie[c] \/ spinning[c]) /\ tickslock \in Lock
    BY <1>1
       DEF Core, CpuOK, InterruptsOf, Depth, HasTickslock, HasOwnLock, InterruptsBackOn,
           Lock
  <1>3. /\ Acquire(c, tickslock)
        /\ UNCHANGED <<running, proc, scan, frame, saved, state, killed, waking>>
    BY <1>1, <1>2, Zenon DEF PauseStart, cpuvars, procvars
  <1>4. Go(c, "test")
    BY Zenon DEF PauseStart
  <1>5. /\ LockStep(c, tickslock) /\ locked'[tickslock] = c
        /\ IntrStep(c) /\ noff'[c] = 1 /\ ~sie'[c] /\ ~spinning'[c] /\ intena'[c]
    <2>1. /\ LockStep(c, tickslock) /\ locked'[tickslock] = c
          /\ IntrStep(c) /\ noff'[c] = 1 /\ ~sie'[c] /\ ~spinning'[c]
          /\ intena'[c] <=> sie[c] \/ spinning[c]
      BY <1>2, <1>3, AcquireFirst, Zenon
    <2> QED BY <1>2, <2>1, Zenon
  <1>6. LeftStep(c)
    BY <1>1, SchedulerAssumption DEF PauseStart, LeftStep, Core, SchedTypeOK
  <1> QED BY <1>1, <1>3, <1>4, <1>5, <1>6, SameSteps, ProcessMoves
         DEF Depth, HasTickslock, HasOwnLock, Open, ProcLabels, TrapLabels

(* sleep() takes p->lock while it has tickslock.                           *)
LEMMA SleepLockStep == ASSUME Core, NEW c \in Cpu, SleepLock(c) PROVE Core'
  <1>1. pc[running[c]] = "sleep" /\ running[c] \in Process /\ proc[c] = running[c]
    <2>1. pc[running[c]] = "sleep"
      BY Zenon DEF SleepLock, At
    <2> QED BY <2>1, ProcessAt DEF ProcLabels
  <1>2. /\ ~sie[c] /\ ~spinning[c] /\ noff[c] = 1
        /\ intena[c] /\ running[c] \in Lock /\ left[running[c]] > 0
    BY <1>1
       DEF Core, CpuOK, InterruptsOf, Depth, HasTickslock, HasOwnLock, Open, LoopOpen,
           Lock, PlaceOfProcess
  <1>3. /\ Acquire(c, running[c])
        /\ UNCHANGED <<running, proc, scan, frame, saved, state, killed, waking, left>>
    BY <1>1, <1>2, Zenon DEF SleepLock, cpuvars, procvars
  <1>4. Go(c, "sleep_rel")
    BY Zenon DEF SleepLock
  <1>5. /\ LockStep(c, running[c]) /\ locked'[running[c]] = c
        /\ IntrStep(c) /\ noff'[c] = 2 /\ ~sie'[c] /\ ~spinning'[c] /\ intena'[c]
    <2>1. LockStep(c, running[c]) /\ locked'[running[c]] = c
      BY <1>2, <1>3 DEF Acquire, LockStep, Core, SchedTypeOK
    <2>2. /\ noff' = [noff EXCEPT ![c] = noff[c] + 1]
          /\ intena' = [intena EXCEPT ![c] = intena[c]]
          /\ sie' = [sie EXCEPT ![c] = FALSE] /\ spinning' = [spinning EXCEPT ![c] = FALSE]
      BY <1>2, <1>3 DEF Acquire, PushOff
    <2> QED BY <1>2, <2>1, <2>2 DEF Core, SchedTypeOK, IntrStep
  <1>6. left'[running[c]] > 0
    BY <1>2, <1>3
  <1> QED BY <1>1, <1>3, <1>4, <1>5, <1>6, SameSteps, ProcessMoves
         DEF Depth, HasTickslock, HasOwnLock, Open, ProcLabels, TrapLabels

(* sleep() after sched(): p->lock is released with the intena sched()      *)
(* restores.                                                               *)
LEMMA SleepBackStep == ASSUME Core, NEW c \in Cpu, SleepBack(c) PROVE Core'
  <1>1. pc[running[c]] = "sleep_back" /\ running[c] \in Process /\ proc[c] = running[c]
    <2>1. pc[running[c]] = "sleep_back"
      BY Zenon DEF SleepBack, At
    <2> QED BY <2>1, ProcessAt DEF ProcLabels
  <1>2. /\ ~spinning[c] /\ noff[c] = 1 /\ running[c] \in Lock
        /\ saved[running[c]] \in BOOLEAN /\ saved[running[c]]
    BY <1>1
       DEF Core, CpuOK, InterruptsOf, Depth, HasTickslock, HasOwnLock, PlaceOfProcess,
           SchedTypeOK, Lock
  <1>3. /\ ReleaseWith(c, running[c], saved[running[c]])
        /\ UNCHANGED <<running, proc, scan, frame, saved, state, killed, waking, left>>
    BY <1>1, <1>2, Zenon DEF SleepBack, cpuvars, procvars, SchedReturn
  <1>4. Go(c, "relock")
    BY Zenon DEF SleepBack
  <1>5. /\ LockStep(c, running[c]) /\ locked'[running[c]] # c
        /\ IntrStep(c) /\ noff'[c] = 0 /\ sie'[c] /\ ~spinning'[c]
    <2>1. /\ LockStep(c, running[c]) /\ locked'[running[c]] # c
          /\ IntrStep(c) /\ noff'[c] = 0 /\ ~spinning'[c] /\ (sie'[c] <=> saved[running[c]])
      BY <1>2, <1>3, ReleaseLast, Zenon
    <2> QED BY <1>2, <2>1, Zenon
  <1> QED BY <1>1, <1>3, <1>4, <1>5, SameSteps, ProcessMoves
         DEF Depth, HasTickslock, HasOwnLock, Open, ProcLabels, TrapLabels

(* sleep() takes tickslock again.                                          *)
LEMMA SleepRelockStep == ASSUME Core, NEW c \in Cpu, SleepRelock(c) PROVE Core'
  <1>1. pc[running[c]] = "relock" /\ running[c] \in Process /\ proc[c] = running[c]
    <2>1. pc[running[c]] = "relock"
      BY Zenon DEF SleepRelock, At
    <2> QED BY <2>1, ProcessAt DEF ProcLabels
  <1>2. Depth(pc[running[c]]) = 0 /\ (sie[c] \/ spinning[c]) /\ tickslock \in Lock
    BY <1>1
       DEF Core, CpuOK, InterruptsOf, Depth, HasTickslock, HasOwnLock, InterruptsBackOn,
           Lock
  <1>3. /\ Acquire(c, tickslock)
        /\ UNCHANGED <<running, proc, scan, frame, saved, state, killed, waking, left>>
    BY <1>1, <1>2, Zenon DEF SleepRelock, cpuvars, procvars
  <1>4. Go(c, "test")
    BY Zenon DEF SleepRelock
  <1>5. /\ LockStep(c, tickslock) /\ locked'[tickslock] = c
        /\ IntrStep(c) /\ noff'[c] = 1 /\ ~sie'[c] /\ ~spinning'[c] /\ intena'[c]
    <2>1. /\ LockStep(c, tickslock) /\ locked'[tickslock] = c
          /\ IntrStep(c) /\ noff'[c] = 1 /\ ~sie'[c] /\ ~spinning'[c]
          /\ intena'[c] <=> sie[c] \/ spinning[c]
      BY <1>2, <1>3, AcquireFirst, Zenon
    <2> QED BY <1>2, <2>1, Zenon
  <1> QED BY <1>1, <1>3, <1>4, <1>5, SameSteps, ProcessMoves
         DEF Depth, HasTickslock, HasOwnLock, Open, ProcLabels, TrapLabels

(* sys_pause() releases tickslock and returns.                             *)
LEMMA PauseReturnStep == ASSUME Core, NEW c \in Cpu, PauseReturn(c) PROVE Core'
  <1>1. pc[running[c]] = "pause_rel" /\ running[c] \in Process /\ proc[c] = running[c]
    <2>1. pc[running[c]] = "pause_rel"
      BY Zenon DEF PauseReturn, At
    <2> QED BY <2>1, ProcessAt DEF ProcLabels
  <1>2. /\ ~spinning[c] /\ noff[c] = 1 /\ tickslock \in Lock
        /\ intena[c] \in BOOLEAN /\ intena[c]
    BY <1>1
       DEF Core, CpuOK, InterruptsOf, Depth, HasTickslock, HasOwnLock, SchedTypeOK, Lock
  <1>3. /\ ReleaseWith(c, tickslock, intena[c])
        /\ UNCHANGED <<running, proc, scan, frame, saved, state, killed, waking, left>>
    BY <1>1, <1>2, Zenon DEF PauseReturn, cpuvars, procvars, Release
  <1>4. PICK l \in {"exit", "user"} : Go(c, l)
    BY DEF PauseReturn
  <1>5. /\ LockStep(c, tickslock) /\ locked'[tickslock] # c
        /\ IntrStep(c) /\ noff'[c] = 0 /\ sie'[c] /\ ~spinning'[c]
    <2>1. /\ LockStep(c, tickslock) /\ locked'[tickslock] # c
          /\ IntrStep(c) /\ noff'[c] = 0 /\ ~spinning'[c] /\ (sie'[c] <=> intena[c])
      BY <1>2, <1>3, ReleaseLast, Zenon
    <2> QED BY <1>2, <2>1, Zenon
  <1> QED BY <1>1, <1>3, <1>4, <1>5, SameSteps, ProcessMoves
         DEF Depth, HasTickslock, HasOwnLock, Open, ProcLabels, TrapLabels

(* A killed process enters kexit().                                        *)
LEMMA KilledTrapStep == ASSUME Core, NEW c \in Cpu, KilledTrap(c) PROVE Core'
  <1>1. pc[running[c]] = "user" /\ ~spinning[c] /\ Go(c, "exit") /\ running[c] \in Process
    <2>1. pc[running[c]] = "user" /\ ~spinning[c] /\ Go(c, "exit")
      BY Zenon DEF KilledTrap, At
    <2> QED BY <2>1, ProcessAt DEF ProcLabels
  <1>2. noff[c] = 0 /\ sie[c]
    BY <1>1 DEF Core, CpuOK, InterruptsOf, Depth, HasTickslock, HasOwnLock, InterruptsBackOn
  <1>3. UNCHANGED <<locked, intrvars, noff, sie, spinning, running, proc,
                    scan, frame, saved, state, killed, waking, left>>
    BY DEF KilledTrap, intrvars, cpuvars, procvars
  <1> QED BY <1>1, <1>2, <1>3, SameSteps, ProcessMoves
         DEF Depth, HasTickslock, HasOwnLock, Open, ProcLabels, TrapLabels

(* kexit() takes p->lock.                                                  *)
LEMMA ExitLockStep == ASSUME Core, NEW c \in Cpu, ExitLock(c) PROVE Core'
  <1>1. pc[running[c]] = "exit" /\ running[c] \in Process /\ proc[c] = running[c]
    <2>1. pc[running[c]] = "exit"
      BY Zenon DEF ExitLock, At
    <2> QED BY <2>1, ProcessAt DEF ProcLabels
  <1>2. Depth(pc[running[c]]) = 0 /\ running[c] \in Lock
    BY <1>1 DEF Core, CpuOK, InterruptsOf, Depth, HasTickslock, HasOwnLock, Lock
  <1>3. /\ Acquire(c, running[c])
        /\ UNCHANGED <<running, proc, scan, frame, saved, state, killed, waking, left>>
    BY <1>1, <1>2, Zenon DEF ExitLock, cpuvars, procvars
  <1>4. Go(c, "exit_sched")
    BY Zenon DEF ExitLock
  <1>5. /\ LockStep(c, running[c]) /\ locked'[running[c]] = c
        /\ IntrStep(c) /\ noff'[c] = 1 /\ ~sie'[c] /\ ~spinning'[c]
    <2>1. /\ LockStep(c, running[c]) /\ locked'[running[c]] = c
          /\ IntrStep(c) /\ noff'[c] = 1 /\ ~sie'[c] /\ ~spinning'[c]
          /\ intena'[c] <=> sie[c] \/ spinning[c]
      BY <1>2, <1>3, AcquireFirst, Zenon
    <2> QED BY <1>2, <2>1, Zenon
  <1> QED BY <1>1, <1>3, <1>4, <1>5, SameSteps, ProcessMoves
         DEF Depth, HasTickslock, HasOwnLock, Open, ProcLabels, TrapLabels

(* yield() takes p->lock, in a handler: interrupts were off.               *)
LEMMA YieldLockStep == ASSUME Core, NEW c \in Cpu, YieldLock(c) PROVE Core'
  <1>1. pc[running[c]] = "yield" /\ running[c] \in Process /\ proc[c] = running[c]
    <2>1. pc[running[c]] = "yield"
      BY Zenon DEF YieldLock, At
    <2> QED BY <2>1, ProcessAt DEF ProcLabels
  <1>2. Depth(pc[running[c]]) = 0 /\ ~sie[c] /\ ~spinning[c] /\ running[c] \in Lock
    BY <1>1
       DEF Core, CpuOK, InterruptsOf, Depth, HasTickslock, HasOwnLock, Open, LoopOpen, Lock
  <1>3. /\ Acquire(c, running[c])
        /\ UNCHANGED <<running, proc, scan, frame, saved, state, killed, waking, left>>
    BY <1>1, <1>2, Zenon DEF YieldLock, cpuvars, procvars
  <1>4. Go(c, "yield_sched")
    BY Zenon DEF YieldLock
  <1>5. /\ LockStep(c, running[c]) /\ locked'[running[c]] = c
        /\ IntrStep(c) /\ noff'[c] = 1 /\ ~sie'[c] /\ ~spinning'[c] /\ ~intena'[c]
    <2>1. /\ LockStep(c, running[c]) /\ locked'[running[c]] = c
          /\ IntrStep(c) /\ noff'[c] = 1 /\ ~sie'[c] /\ ~spinning'[c]
          /\ intena'[c] <=> sie[c] \/ spinning[c]
      BY <1>2, <1>3, AcquireFirst, Zenon
    <2> QED BY <1>2, <2>1, Zenon
  <1>6. frame[running[c]] \in Open
    BY <1>1 DEF Core, PlaceOfProcess, TrapLabels
  <1> QED BY <1>1, <1>3, <1>4, <1>5, <1>6, SameSteps, ProcessMoves
         DEF Depth, HasTickslock, HasOwnLock, Open, ProcLabels, TrapLabels

(* yield() after sched(), perhaps on another CPU.                          *)
LEMMA YieldBackStep == ASSUME Core, NEW c \in Cpu, YieldBack(c) PROVE Core'
  <1>1. pc[running[c]] = "yield_back" /\ running[c] \in Process /\ proc[c] = running[c]
    <2>1. pc[running[c]] = "yield_back"
      BY Zenon DEF YieldBack, At
    <2> QED BY <2>1, ProcessAt DEF ProcLabels
  <1>2. /\ ~spinning[c] /\ noff[c] = 1 /\ running[c] \in Lock
        /\ saved[running[c]] \in BOOLEAN /\ ~saved[running[c]]
    BY <1>1
       DEF Core, CpuOK, InterruptsOf, Depth, HasTickslock, HasOwnLock, PlaceOfProcess,
           SchedTypeOK, Lock
  <1>3. /\ ReleaseWith(c, running[c], saved[running[c]])
        /\ UNCHANGED <<running, proc, scan, frame, saved, state, killed, waking, left>>
    BY <1>1, <1>2, Zenon DEF YieldBack, cpuvars, procvars, SchedReturn
  <1>4. Go(c, "iret")
    BY Zenon DEF YieldBack
  <1>5. /\ LockStep(c, running[c]) /\ locked'[running[c]] # c
        /\ IntrStep(c) /\ noff'[c] = 0 /\ ~sie'[c] /\ ~spinning'[c]
    <2>1. /\ LockStep(c, running[c]) /\ locked'[running[c]] # c
          /\ IntrStep(c) /\ noff'[c] = 0 /\ ~spinning'[c] /\ (sie'[c] <=> saved[running[c]])
      BY <1>2, <1>3, ReleaseLast, Zenon
    <2> QED BY <1>2, <2>1, Zenon
  <1>6. frame[running[c]] \in Open
    BY <1>1 DEF Core, PlaceOfProcess, TrapLabels
  <1> QED BY <1>1, <1>3, <1>4, <1>5, <1>6, SameSteps, ProcessMoves
         DEF Depth, HasTickslock, HasOwnLock, Open, ProcLabels, TrapLabels

(* The loop of sys_pause(), and killed().                                  *)
LEMMA PauseTestStep == ASSUME Core, NEW c \in Cpu, PauseTest(c) PROVE Core'
  <1>1. pc[running[c]] = "test"
    BY Zenon DEF PauseTest, At
  <1>2. running[c] \in Process /\ proc[c] = running[c]
    BY <1>1, ProcessAt DEF ProcLabels
  <1>3. noff[c] = 1 /\ ~sie[c] /\ ~spinning[c] /\ intena[c] /\ Depth(pc[running[c]]) = 1
    BY <1>1 DEF Core, CpuOK, InterruptsOf, Depth, HasTickslock, HasOwnLock, Open, LoopOpen
  <1>4. UNCHANGED <<running, proc, scan, frame, saved, state, killed, waking>>
    BY DEF PauseTest, cpuvars
  <1>5. PICK l \in {"pause_rel", "sleep"} :
           /\ Go(c, l)
           /\ left' = IF l = "pause_rel" THEN [left EXCEPT ![running[c]] = 0] ELSE left
           /\ l = "sleep" => left[running[c]] # 0
    BY <1>2 DEF PauseTest
  <1>6. LeftStep(c) /\ (l = "sleep" => left'[running[c]] > 0)
    BY <1>2, <1>5 DEF Core, SchedTypeOK, LeftStep
  <1>7. /\ UNCHANGED locked /\ IntrStep(c) /\ noff'[c] = 1
        /\ ~sie'[c] /\ ~spinning'[c] /\ intena'[c]
    <2>1. CASE UNCHANGED <<locked, intrvars>>
      BY <1>3, <2>1, SameSteps DEF intrvars
    <2>2. CASE Visit(c, running[c])
      <3>1. running[c] \in Lock
        BY <1>2 DEF Lock
      <3>2. /\ UNCHANGED locked /\ IntrStep(c)
            /\ ~spinning'[c] /\ noff'[c] = Depth(pc[running[c]])
            /\ sie'[c] <=> sie[c] \/ spinning[c]
            /\ Depth(pc[running[c]]) # 0 => (intena'[c] <=> intena[c])
        BY <2>2, <3>1, VisitStep, Zenon
      <3>3. noff'[c] = 1 /\ Depth(pc[running[c]]) # 0
        BY <1>3, <3>2
      <3> QED BY <1>3, <3>2, <3>3, Zenon
    <2> QED BY <1>2, <2>1, <2>2 DEF PauseTest
  <1> QED BY <1>1, <1>2, <1>4, <1>5, <1>6, <1>7, ProcessMoves
         DEF Depth, HasTickslock, HasOwnLock, Open, ProcLabels, TrapLabels
=============================================================================
