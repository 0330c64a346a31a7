----------------------------- MODULE Scheduler ------------------------------
(***************************************************************************)
(* Spin locks with their interrupt discipline (kernel/spinlock.c), the     *)
(* scheduler, sched, yield, sleep and wakeup (kernel/proc.c) and the timer *)
(* interrupt (kernel/trap.c), on several CPUs.  The sleepers are callers   *)
(* of sys_pause() (kernel/sysproc.c), the waker is clockintr(); a process  *)
(* may also be killed.  This is what the other modules take as one step    *)
(* when they say that a process sleeps.                                    *)
(*                                                                         *)
(* A CPU runs one thread: its own scheduler thread or a process.  A step   *)
(* is the code between two points where another CPU or an interrupt can    *)
(* see a difference.  A critical section of p->lock that only reads or     *)
(* writes p's fields is one step.                                          *)
(***************************************************************************)
EXTENDS Naturals, FiniteSets

CONSTANTS
    Cpu,        \* the harts
    cpu0,       \* the hart that counts ticks
    NProc,      \* the slots of proc[] are 1 .. NProc
    tickslock,
    NoOne,      \* a null pointer: no CPU, no process
    Pauses,     \* the numbers of ticks programs pass to pause()
    Killers     \* the processes whose program calls kill()

Process == 1 .. NProc
Lock == Process \cup {tickslock}     \* p->lock is named p
Thread == Process \cup Cpu           \* the scheduler thread of c is named c

ASSUME SchedulerAssumption ==
    /\ NProc \in Nat \ {0} /\ Pauses \subseteq Nat /\ Killers \subseteq Process
    /\ cpu0 \in Cpu /\ NoOne \notin Thread /\ tickslock \notin Process
    /\ Cpu \cap Process = {}

VARIABLES
    locked,    \* lk->cpu of a lock that is held, NoOne otherwise
    noff, intena,  \* the fields of struct cpu
    sie,       \* interrupts are enabled on the CPU
    spinning,  \* the CPU is in the while loop of acquire()
    proc,      \* c->proc
    running,   \* the thread whose registers the CPU holds
    scan,      \* the loop variable p of scheduler()
    pc,        \* where each thread is
    frame,     \* where an interrupt handler returns to, "none" outside one
    saved,     \* sched()'s local intena, on the process's kernel stack
    state,     \* p->state
    killed,    \* p->killed
    left,      \* ticks sys_pause() has still to wait, n - (ticks - ticks0)
    waking     \* the loop variable p of the wakeup() in clockintr()

intrvars == <<noff, intena, sie, spinning>>
cpuvars == <<proc, running, scan>>
procvars == <<state, killed, left>>
schedvars == <<locked, intrvars, cpuvars, pc, frame, saved, procvars, waking>>

(* Labels of a process in the kernel, of the timer interrupt that runs on  *)
(* top of whatever thread it finds, and of a scheduler thread.             *)
ProcLabels == {"forkret", "user", "test", "sleep", "sleep_rel",
               "sleep_sched", "sleep_back", "relock", "pause_rel",
               "exit", "exit_sched", "zombie"}
TrapLabels == {"tick", "wakeup", "ticked", "yield", "yield_sched",
               "yield_back", "iret"}
LoopLabels == {"on", "scan", "back", "loop"}
Labels == ProcLabels \cup TrapLabels \cup LoopLabels

SchedTypeOK ==
    /\ locked \in [Lock -> Cpu \cup {NoOne}]
    /\ noff \in [Cpu -> Nat]
    /\ intena \in [Cpu -> BOOLEAN] /\ sie \in [Cpu -> BOOLEAN]
    /\ spinning \in [Cpu -> BOOLEAN]
    /\ proc \in [Cpu -> Process \cup {NoOne}]
    /\ running \in [Cpu -> Thread]
    /\ scan \in [Cpu -> Process]
    /\ pc \in [Thread -> Labels]
    /\ frame \in [Thread -> Labels \cup {"none"}]
    /\ saved \in [Process -> BOOLEAN]
    /\ state \in [Process -> {"RUNNABLE", "RUNNING", "SLEEPING", "ZOMBIE"}]
    /\ killed \in [Process -> BOOLEAN]
    /\ left \in [Process -> Nat]
    /\ waking \in 1 .. NProc + 1

(* main() has reached scheduler() on every CPU; every process is new, with *)
(* a context that starts in forkret().                                     *)
SchedInit ==
    /\ locked = [l \in Lock |-> NoOne]
    /\ noff = [c \in Cpu |-> 0]
    /\ intena = [c \in Cpu |-> FALSE] /\ sie = [c \in Cpu |-> TRUE]
    /\ spinning = [c \in Cpu |-> FALSE]
    /\ proc = [c \in Cpu |-> NoOne]
    /\ running = [c \in Cpu |-> c]
    /\ scan = [c \in Cpu |-> 1]
    /\ pc = [t \in Thread |-> IF t \in Process THEN "forkret" ELSE "on"]
    /\ frame = [t \in Thread |-> "none"]
    /\ saved = [p \in Process |-> FALSE]
    /\ state = [p \in Process |-> "RUNNABLE"]
    /\ killed = [p \in Process |-> FALSE]
    /\ left = [p \in Process |-> 0]
    /\ waking = 1

-----------------------------------------------------------------------------
At(c, l) == pc[running[c]] = l

Go(c, l) == pc' = [pc EXCEPT ![running[c]] = l]

(* holding(): valid only with interrupts off.                              *)
Holding(c, l) == locked[l] = c

PushOff(c) ==
    /\ sie' = [sie EXCEPT ![c] = FALSE]
    /\ intena' = [intena EXCEPT ![c] = IF noff[c] = 0 THEN sie[c] ELSE @]
    /\ noff' = [noff EXCEPT ![c] = @ + 1]

(* acquire() that finds the lock free, at once or after spinning.  One     *)
(* that finds it held by its own CPU panics (see Panics).                  *)
Acquire(c, l) ==
    /\ locked[l] = NoOne
    /\ locked' = [locked EXCEPT ![l] = c]
    /\ IF spinning[c] THEN UNCHANGED <<noff, intena, sie>> ELSE PushOff(c)
    /\ spinning' = [spinning EXCEPT ![c] = FALSE]

(* pop_off() as release() calls it, with intena as it then is.             *)
PopOff(c, old) ==
    /\ noff' = [noff EXCEPT ![c] = @ - 1]
    /\ intena' = [intena EXCEPT ![c] = old]
    /\ sie' = [sie EXCEPT ![c] = @ \/ (noff[c] = 1 /\ old)]

ReleaseWith(c, l, old) ==
    /\ Holding(c, l) /\ ~sie[c] /\ noff[c] > 0
    /\ locked' = [locked EXCEPT ![l] = NoOne]
    /\ PopOff(c, old)
    /\ UNCHANGED spinning

Release(c, l) == ReleaseWith(c, l, intena[c])

(* A whole critical section of a lock nobody holds.                        *)
Visit(c, l) ==
    /\ locked[l] = NoOne
    /\ IF spinning[c] THEN PopOff(c, intena[c])
       ELSE /\ intena' = [intena EXCEPT ![c] = IF noff[c] = 0 THEN sie[c] ELSE @]
            /\ UNCHANGED <<noff, sie>>
    /\ spinning' = [spinning EXCEPT ![c] = FALSE]
    /\ UNCHANGED locked

(* The locks the thread on c is about to acquire, or to release.           *)
Wanted(c) ==
    {l \in Lock :
        \/ pc[running[c]] \in {"user", "relock", "tick"} /\ l = tickslock
        \/ pc[running[c]] \in {"sleep", "exit", "yield"} /\ l = proc[c]
        \/ At(c, "scan") /\ l = scan[c]
        \/ At(c, "wakeup") /\ l \in Process \ {proc[c]} /\ l = waking}

Releasing(c) ==
    {l \in Lock :
        \/ pc[running[c]] \in {"sleep_rel", "pause_rel"} /\ l = tickslock
        \/ pc[running[c]] \in {"forkret", "sleep_back", "yield_back"} /\ l = proc[c]
        \/ At(c, "back") /\ l = scan[c]
        \/ At(c, "wakeup") /\ waking = NProc + 1 /\ l = tickslock}

(* acquire() with interrupts on finds the lock held by another CPU: from   *)
(* here it spins with interrupts off.                                      *)
Spin(c) ==
    /\ sie[c]
    /\ \E l \in Wanted(c) : locked[l] \notin {NoOne, c}
    /\ PushOff(c)
    /\ spinning' = [spinning EXCEPT ![c] = TRUE]
    /\ UNCHANGED <<locked, cpuvars, pc, frame, saved, procvars, waking>>

(* The thread on c is about to fail a test of acquire(), release(),        *)
(* pop_off() or sched(), or is a zombie that has been scheduled again.     *)
Panics(c) ==
    \/ ~spinning[c] /\ \E l \in Wanted(c) : Holding(c, l)
    \/ \E l \in Releasing(c) : ~Holding(c, l) \/ sie[c] \/ noff[c] < 1
    \/ /\ pc[running[c]] \in {"sleep_sched", "yield_sched", "exit_sched"}
       /\ ~Holding(c, proc[c]) \/ noff[c] # 1 \/ sie[c]
    \/ At(c, "zombie")

-----------------------------------------------------------------------------
(* scheduler().  wfi is not a step: it ends with the next timer interrupt. *)
SchedulerOff(c) ==
    /\ At(c, "on")
    /\ sie' = [sie EXCEPT ![c] = FALSE]
    /\ Go(c, "scan")
    /\ UNCHANGED <<locked, noff, intena, spinning, cpuvars, frame, saved, procvars, waking>>

(* The loop goes on to the next slot, or round again.                      *)
NextSlot(c) ==
    /\ scan' = [scan EXCEPT ![c] = IF @ = NProc THEN 1 ELSE @ + 1]
    /\ Go(c, IF scan[c] = NProc THEN "loop" ELSE "scan")

SchedulerSkip(c) ==
    /\ At(c, "scan")
    /\ Visit(c, scan[c])
    /\ state[scan[c]] # "RUNNABLE"
    /\ NextSlot(c)
    /\ UNCHANGED <<proc, running, frame, saved, procvars, waking>>

(* Up to swtch(): the process goes on where it called sched(), or in       *)
(* forkret(), with p->lock held by this CPU.                               *)
SchedulerRun(c) ==
    /\ At(c, "scan")
    /\ Acquire(c, scan[c])
    /\ state[scan[c]] = "RUNNABLE"
    /\ state' = [state EXCEPT ![scan[c]] = "RUNNING"]
    /\ proc' = [proc EXCEPT ![c] = scan[c]]
    /\ running' = [running EXCEPT ![c] = scan[c]]
    /\ Go(c, "back")
    /\ UNCHANGED <<scan, frame, saved, killed, left, waking>>

SchedulerBack(c) ==
    /\ At(c, "back")
    /\ Release(c, scan[c])
    /\ proc' = [proc EXCEPT ![c] = NoOne]
    /\ NextSlot(c)
    /\ UNCHANGED <<running, frame, saved, procvars, waking>>

(* Mutant: the loop never turns interrupts on again.                       *)
SchedulerStaysOff(c) ==
    /\ At(c, "loop")
    /\ Go(c, "on")
    /\ UNCHANGED <<locked, intrvars, cpuvars, frame, saved, procvars, waking>>
SchedulerOn(c) ==
    /\ At(c, "loop")
    /\ sie' = [sie EXCEPT ![c] = TRUE]
    /\ Go(c, "on")
    /\ UNCHANGED <<locked, noff, intena, spinning, cpuvars, frame, saved, procvars, waking>>

(* sched(), up to swtch() to the scheduler thread of the CPU.              *)
Sched(c, st, l) ==
    /\ Holding(c, proc[c]) /\ noff[c] = 1 /\ ~sie[c]
    /\ state' = [state EXCEPT ![proc[c]] = st]
    /\ saved' = [saved EXCEPT ![proc[c]] = intena[c]]
    /\ running' = [running EXCEPT ![c] = c]
    /\ Go(c, l)
    /\ UNCHANGED <<locked, intrvars, proc, scan, frame, killed, left, waking>>

(* Mutant: intena is taken for a property of the CPU.                      *)
SchedReturnAsIs(c) == Release(c, proc[c])

(* sched() after swtch(), and the release of p->lock that follows it.      *)
SchedReturn(c) == ReleaseWith(c, proc[c], saved[proc[c]])

(* forkret(): sret enables interrupts in user mode.                        *)
Forkret(c) ==
    /\ At(c, "forkret")
    /\ Holding(c, proc[c]) /\ ~sie[c]
    /\ locked' = [locked EXCEPT ![proc[c]] = NoOne]
    /\ noff' = [noff EXCEPT ![c] = @ - 1]
    /\ sie' = [sie EXCEPT ![c] = TRUE]
    /\ Go(c, "user")
    /\ UNCHANGED <<intena, spinning, cpuvars, frame, saved, procvars, waking>>

-----------------------------------------------------------------------------
(* sleep() in sys_pause().  killed() is a visit to p->lock.                *)
PauseStart(c) ==
    /\ At(c, "user") /\ (~killed[proc[c]] \/ spinning[c])
    /\ Acquire(c, tickslock)
    /\ \E n \in Pauses : left' = [left EXCEPT ![proc[c]] = n]
    /\ Go(c, "test")
    /\ UNCHANGED <<cpuvars, frame, saved, state, killed, waking>>

PauseTest(c) ==
    /\ At(c, "test")
    /\ IF left[proc[c]] = 0 THEN UNCHANGED <<locked, intrvars>> ELSE Visit(c, proc[c])
    /\ IF left[proc[c]] = 0 \/ killed[proc[c]]
       THEN Go(c, "pause_rel") /\ left' = [left EXCEPT ![proc[c]] = 0]
       ELSE Go(c, "sleep") /\ UNCHANGED left
    /\ UNCHANGED <<cpuvars, frame, saved, state, killed, waking>>

SleepLock(c) ==
    /\ At(c, "sleep")
    /\ Acquire(c, proc[c])
    /\ Go(c, "sleep_rel")
    /\ UNCHANGED <<cpuvars, frame, saved, procvars, waking>>

SleepRelease(c) ==
    /\ At(c, "sleep_rel")
    /\ Release(c, tickslock)
    /\ Go(c, "sleep_sched")
    /\ UNCHANGED <<cpuvars, frame, saved, procvars, waking>>

SleepSched(c) == At(c, "sleep_sched") /\ Sched(c, "SLEEPING", "sleep_back")

SleepBack(c) ==
    /\ At(c, "sleep_back")
    /\ SchedReturn(c)
    /\ Go(c, "relock")
    /\ UNCHANGED <<cpuvars, frame, saved, procvars, waking>>

SleepRelock(c) ==
    /\ At(c, "relock")
    /\ Acquire(c, tickslock)
    /\ Go(c, "test")
    /\ UNCHANGED <<cpuvars, frame, saved, procvars, waking>>

(* The end of sys_pause() and of usertrap().                               *)
PauseReturn(c) ==
    /\ At(c, "pause_rel")
    /\ Release(c, tickslock)
    /\ Go(c, IF killed[proc[c]] THEN "exit" ELSE "user")
    /\ UNCHANGED <<cpuvars, frame, saved, procvars, waking>>

-----------------------------------------------------------------------------
(* kkill() of the process in slot q, by a process in a system call.        *)
Kill(c, q) ==
    /\ At(c, "user") /\ proc[c] \in Killers /\ ~killed[proc[c]] /\ ~spinning[c]
    /\ Visit(c, q)
    /\ killed' = [killed EXCEPT ![q] = TRUE]
    /\ state' = [state EXCEPT ![q] = IF @ = "SLEEPING" THEN "RUNNABLE" ELSE @]
    /\ Go(c, IF q = proc[c] THEN "exit" ELSE "user")
    /\ UNCHANGED <<cpuvars, frame, saved, left, waking>>

(* A killed process traps, or is trapped by the timer, and enters kexit(). *)
(* Here only the end of kexit() matters (Proc has the rest).               *)
KilledTrap(c) ==
    /\ At(c, "user") /\ killed[proc[c]] /\ ~spinning[c]
    /\ Go(c, "exit")
    /\ UNCHANGED <<locked, intrvars, cpuvars, frame, saved, procvars, waking>>

ExitLock(c) ==
    /\ At(c, "exit")
    /\ Acquire(c, proc[c])
    /\ Go(c, "exit_sched")
    /\ UNCHANGED <<cpuvars, frame, saved, procvars, waking>>

ExitSched(c) == At(c, "exit_sched") /\ Sched(c, "ZOMBIE", "zombie")

-----------------------------------------------------------------------------
(* The timer interrupt, in user mode (usertrap), in the kernel or in the   *)
(* scheduler (kerneltrap): devintr() calls clockintr().                    *)
Timer(c) ==
    /\ sie[c]
    /\ sie' = [sie EXCEPT ![c] = FALSE]
    /\ frame' = [frame EXCEPT ![running[c]] = pc[running[c]]]
    /\ Go(c, IF c = cpu0 THEN "tick" ELSE "ticked")
    /\ UNCHANGED <<locked, noff, intena, spinning, cpuvars, saved, procvars, waking>>

ClockCount(c) ==
    /\ At(c, "tick")
    /\ Acquire(c, tickslock)
    /\ left' = [p \in Process |-> IF left[p] = 0 THEN 0 ELSE left[p] - 1]
    /\ waking' = 1
    /\ Go(c, "wakeup")
    /\ UNCHANGED <<cpuvars, frame, saved, state, killed>>

(* Mutant: wakeup() looks at p->state before it takes p->lock.             *)
WakeupPeek(c) ==
    /\ At(c, "wakeup")
    /\ waking \in Process
    /\ IF state[waking] # "SLEEPING" THEN UNCHANGED <<locked, intrvars, state>>
       ELSE Visit(c, waking) /\ state' = [state EXCEPT ![waking] = "RUNNABLE"]
    /\ waking' = waking + 1
    /\ UNCHANGED <<cpuvars, pc, frame, saved, killed, left>>
(* wakeup(&ticks): one slot, unless it is myproc().                        *)
Wakeup(c) ==
    /\ At(c, "wakeup")
    /\ waking \in Process
    /\ IF waking = proc[c] THEN UNCHANGED <<locked, intrvars, state>>
       ELSE /\ Visit(c, waking)
            /\ state' = [state EXCEPT ![waking] = IF @ = "SLEEPING" THEN "RUNNABLE" ELSE @]
    /\ waking' = waking + 1
    /\ UNCHANGED <<cpuvars, pc, frame, saved, killed, left>>

ClockRelease(c) ==
    /\ At(c, "wakeup")
    /\ waking = NProc + 1
    /\ Release(c, tickslock)
    /\ waking' = 1
    /\ Go(c, "ticked")
    /\ UNCHANGED <<cpuvars, frame, saved, procvars>>

(* usertrap() and kerneltrap() after devintr().                            *)
TrapEnd(c) ==
    /\ At(c, "ticked")
    /\ LET t == running[c]
           dies == frame[t] = "user" /\ killed[t]
       IN /\ Go(c, IF dies THEN "exit" ELSE IF proc[c] = NoOne THEN "iret" ELSE "yield")
          /\ frame' = [frame EXCEPT ![t] = IF dies THEN "none" ELSE @]
    /\ UNCHANGED <<locked, intrvars, cpuvars, saved, procvars, waking>>

YieldLock(c) ==
    /\ At(c, "yield")
    /\ Acquire(c, proc[c])
    /\ Go(c, "yield_sched")
    /\ UNCHANGED <<cpuvars, frame, saved, procvars, waking>>

YieldSched(c) == At(c, "yield_sched") /\ Sched(c, "RUNNABLE", "yield_back")

YieldBack(c) ==
    /\ At(c, "yield_back")
    /\ SchedReturn(c)
    /\ Go(c, "iret")
    /\ UNCHANGED <<cpuvars, frame, saved, procvars, waking>>

(* The return from the trap, on whatever CPU the thread runs by now.       *)
TrapReturn(c) ==
    /\ At(c, "iret")
    /\ Go(c, frame[running[c]])
    /\ frame' = [frame EXCEPT ![running[c]] = "none"]
    /\ sie' = [sie EXCEPT ![c] = TRUE]
    /\ UNCHANGED <<locked, noff, intena, spinning, cpuvars, saved, procvars, waking>>

-----------------------------------------------------------------------------
LoopStep(c) ==
    SchedulerOn(c) \/ SchedulerOff(c) \/ SchedulerSkip(c) \/ SchedulerRun(c) \/ SchedulerBack(c)

TrapStep(c) ==
    \/ ClockCount(c) \/ Wakeup(c) \/ ClockRelease(c) \/ TrapEnd(c)
    \/ YieldLock(c) \/ YieldSched(c) \/ YieldBack(c) \/ TrapReturn(c)

(* What the kernel does for the process on c without being asked again.    *)
ProcessStep(c) ==
    \/ Forkret(c) \/ PauseTest(c) \/ SleepLock(c) \/ SleepRelease(c)
    \/ SleepSched(c) \/ SleepBack(c) \/ SleepRelock(c) \/ PauseReturn(c)
    \/ KilledTrap(c) \/ ExitLock(c) \/ ExitSched(c)

CpuNext(c) ==
    \/ LoopStep(c) \/ TrapStep(c) \/ ProcessStep(c)
    \/ PauseStart(c) \/ (\E q \in Process : Kill(c, q))
    \/ Timer(c) \/ Spin(c)

SchedNext == \E c \in Cpu : CpuNext(c)

SchedSpec == SchedInit /\ [][SchedNext]_schedvars

-----------------------------------------------------------------------------
(* No interleaving of processes, CPUs and timer interrupts reaches one of  *)
(* the panics of spinlock.c and proc.c: no CPU acquires a lock it holds    *)
(* ("acquire"), releases one it does not hold ("release"), or enters       *)
(* sched() with another lock held, without p->lock or with interrupts on   *)
(* ("sched locks", "sched p->lock", "sched interruptible"), and no zombie  *)
(* is run again ("zombie exit").                                           *)
NoPanic == \A c \in Cpu : ~Panics(c)

(* A process runs on one CPU at most, mycpu()->proc names it there, and    *)
(* whoever takes p->lock sees a p->state that agrees with this: RUNNING if *)
(* and only if some CPU has the process's registers.  scheduler(), sched() *)
(* and yield() pass p->lock across swtch() for this reason.                *)
OneCpuEach ==
    /\ \A c, d \in Cpu : running[c] = running[d] => c = d
    /\ \A c \in Cpu : running[c] \in Process => proc[c] = running[c]
    /\ \A p \in Process : locked[p] = NoOne =>
          (state[p] = "RUNNING" <=> \E c \in Cpu : running[c] = p)

(* A process that sleeps in sys_pause(), or has let go of tickslock to do  *)
(* so, still has ticks to wait for, or the wakeup() of the tick that ended *)
(* its wait has not passed its slot: sleep() takes p->lock before it       *)
(* releases tickslock.                                                     *)
NoLostWakeup ==
    \A p \in Process : state[p] = "SLEEPING" \/ pc[p] = "sleep_sched" =>
        left[p] > 0 \/ \E c \in Cpu : At(c, "wakeup") /\ waking <= p

(* A thread that holds no lock and is not in a trap handler has interrupts *)
(* on, whichever CPU sched() brought it back on: sched() saves and         *)
(* restores intena, which belongs to the thread and not to the CPU.        *)
InterruptsBackOn(c) == pc[running[c]] \in {"user", "relock", "on"} => sie[c] \/ spinning[c]
InterruptsBack == \A c \in Cpu : InterruptsBackOn(c)

(* The labels at which a thread has tickslock, or the lock of its own      *)
(* process; the number of locks that makes; and the labels at which an     *)
(* interrupt may find a process, or a scheduler thread.                    *)
HasTickslock == {"test", "sleep", "sleep_rel", "pause_rel", "wakeup"}
HasOwnLock == {"forkret", "sleep_rel", "sleep_sched", "sleep_back",
               "exit_sched", "yield_sched", "yield_back"}
Depth(l) == IF l = "sleep_rel" THEN 2
            ELSE IF l \in HasTickslock \cup HasOwnLock \cup {"back"} THEN 1 ELSE 0
Open == {"user", "relock", "exit"}
LoopOpen == {"on", "scan", "loop"}

(* A lock is held by the CPU whose thread is between its acquire() and its *)
(* release(), a thread that swtch() brought back included.                 *)
LocksOf(c) ==
    /\ locked[tickslock] = c <=> pc[running[c]] \in HasTickslock
    /\ \A p \in Process : locked[p] = c <=>
          \/ running[c] = p /\ pc[p] \in HasOwnLock
          \/ running[c] = c /\ pc[c] = "back" /\ scan[c] = p

(* noff counts the locks of the CPU, the one it spins for included;        *)
(* interrupts are off while there is one, and in a handler; intena says    *)
(* what they were before the first of them.                                *)
InterruptsOf(c) == LET l == pc[running[c]] IN
    /\ noff[c] = IF spinning[c] THEN 1 ELSE Depth(l)
    /\ sie[c] => ~spinning[c] /\ l \in Open \cup LoopOpen
    /\ spinning[c] => l \in {"user", "relock", "exit", "scan"} /\ intena[c]
    /\ l \in {"test", "sleep", "sleep_rel", "sleep_sched", "pause_rel"} => intena[c]
    /\ l \in {"wakeup", "yield_sched"} => ~intena[c]

(* A CPU runs a process, found by its scheduler thread, or that thread.    *)
PlaceOf(c) ==
    /\ IF running[c] \in Process
       THEN proc[c] = running[c] /\ scan[c] = running[c] /\ pc[c] = "back"
       ELSE /\ running[c] = c
            /\ pc[c] \in LoopLabels \cup {"tick", "wakeup", "ticked", "iret"}
            /\ pc[c] # "back" => proc[c] = NoOne
    /\ pc[c] \in TrapLabels => frame[c] \in LoopOpen

(* A process on a CPU is in its own code or in a handler that will return  *)
(* to it; off the CPU it is where swtch() resumes it, with the intena it   *)
(* needs there.  It has ticks to wait for when it decides to sleep.        *)
PlaceOfProcess(p) ==
    /\ state[p] = "RUNNING" <=> \E c \in Cpu : running[c] = p
    /\ state[p] = "RUNNING" => pc[p] \in (ProcLabels \cup TrapLabels) \ {"zombie"}
    /\ state[p] = "RUNNABLE" => pc[p] \in {"forkret", "sleep_back", "yield_back"}
    /\ state[p] = "SLEEPING" => pc[p] = "sleep_back"
    /\ state[p] = "ZOMBIE" => pc[p] = "zombie"
    /\ pc[p] \in TrapLabels => frame[p] \in Open
    /\ pc[p] = "sleep_back" => saved[p]
    /\ pc[p] = "yield_back" => ~saved[p]
    /\ pc[p] \in {"sleep", "sleep_rel"} => left[p] > 0

(* What the scheduler keeps across every swtch(): no panic, one CPU for a  *)
(* process, and interrupts that come back with the thread they belong to;  *)
(* and what these rest on, locks, noff and p->state that agree with the    *)
(* place of every thread.                                                  *)
SchedInv ==
    /\ SchedTypeOK /\ NoPanic /\ OneCpuEach /\ InterruptsBack
    /\ \A c \in Cpu : LocksOf(c) /\ InterruptsOf(c) /\ PlaceOf(c)
    /\ \A p \in Process : PlaceOfProcess(p)

(* The fairness of the hardware: a CPU goes on with the thread it runs,    *)
(* however often it is interrupted, and the timer of the CPU that counts   *)
(* the ticks goes on interrupting.  A program need not call pause(), but   *)
(* the kernel finishes a call that is under way.                           *)
Underway(c) == ProcessStep(c) \/ Spin(c) \/ (spinning[c] /\ PauseStart(c))

Fairness ==
    /\ \A c \in Cpu :
          /\ SF_schedvars(LoopStep(c) \/ (running[c] = c /\ Spin(c)))
          /\ WF_schedvars(TrapStep(c))
    /\ SF_schedvars(Timer(cpu0))
    /\ \A p \in Process :
          SF_schedvars(\E c \in Cpu : running[c] = p /\ Underway(c))

FairSchedSpec == SchedSpec /\ Fairness

(* Every pause() ends, although every process may be asleep at once: the   *)
(* process returns to user mode or, killed, is a zombie.  scheduler()      *)
(* turns interrupts on in every round so that the clock can wake somebody. *)
PauseReturns == \A p \in Process : pc[p] = "test" ~> pc[p] \in {"user", "zombie"}
=============================================================================
