-------------------------------- MODULE Proc --------------------------------
(***************************************************************************)
(* Process lifecycle of kernel/proc.c: the process table, fork, exit, wait *)
(* and kill, seen from the system-call path of kernel/trap.c.              *)
(*                                                                         *)
(* A process is a slot of proc[].  Each handler is cut where it gives up   *)
(* the lock that makes the steps before it atomic (p->lock, wait_lock), so *)
(* handlers of different processes interleave exactly at those points.     *)
(* Scheduling is abstracted: "RUNNABLE" stands for RUNNABLE and RUNNING,   *)
(* and the only channel a process sleeps on here is its own slot (kwait).  *)
(***************************************************************************)
EXTENDS Naturals

CONSTANTS
    Slot,      \* the slots of proc[NPROC]
    initproc,  \* the slot of the first user process
    NoProc,    \* the null struct proc pointer, and "nobody holds wait_lock"
    MaxPid,    \* bound: the pids handed out in a run are 1 .. MaxPid
    Targets    \* the pids programs pass to kill()

ASSUME SlotAssumption == initproc \in Slot /\ NoProc \notin Slot
ASSUME PidAssumption == MaxPid \in Nat \ {0} /\ Targets \subseteq Nat

VARIABLES
    state,      \* p->state
    pid,        \* p->pid, 0 in a free slot
    parent,     \* p->parent
    killed,     \* p->killed
    nextpid,    \* the counter of allocpid()
    wait_lock,  \* the holder of wait_lock
    pc,         \* where p's kernel thread is
    np,         \* the local variable np of p's kfork()
    panicked    \* the kernel has called panic()

procvars == <<state, pid, parent, killed, nextpid, wait_lock, pc, np, panicked>>

States == {"UNUSED", "USED", "SLEEPING", "RUNNABLE", "ZOMBIE"}

(* "user": in user space; "ret": in usertrap() after the handler returned;  *)
(* "fork_*", "exit*", "wait*": inside kfork, kexit, kwait; "none": no       *)
(* thread (free slot, embryo or zombie).                                    *)
Labels == {"none", "user", "ret", "fork_parent", "fork_runnable",
           "exit", "exit_zombie", "wait", "wait_sleep"}

ProcTypeOK ==
    /\ state \in [Slot -> States]
    /\ pid \in [Slot -> Nat]
    /\ parent \in [Slot -> Slot \cup {NoProc}]
    /\ killed \in [Slot -> BOOLEAN]
    /\ nextpid \in Nat \ {0}
    /\ wait_lock \in Slot \cup {NoProc}
    /\ pc \in [Slot -> Labels]
    /\ np \in [Slot -> Slot \cup {NoProc}]
    /\ panicked \in BOOLEAN

ProcInit ==
    /\ state = [p \in Slot |-> IF p = initproc THEN "RUNNABLE" ELSE "UNUSED"]
    /\ pid = [p \in Slot |-> IF p = initproc THEN 1 ELSE 0]
    /\ parent = [p \in Slot |-> NoProc]
    /\ killed = [p \in Slot |-> FALSE]
    /\ nextpid = 2
    /\ wait_lock = NoProc
    /\ pc = [p \in Slot |-> IF p = initproc THEN "user" ELSE "none"]
    /\ np = [p \in Slot |-> NoProc]
    /\ panicked = FALSE

-----------------------------------------------------------------------------
At(p, l) == state[p] = "RUNNABLE" /\ pc[p] = l

Goto(p, l) == pc' = [pc EXCEPT ![p] = l]

(* usertrap() up to syscall(): a killed process never reaches the handler. *)
Enter(p) == At(p, "user") /\ ~killed[p]

EnterKilled(p) ==
    /\ At(p, "user")
    /\ killed[p]
    /\ Goto(p, "exit")
    /\ UNCHANGED <<state, pid, parent, killed, nextpid, wait_lock, np, panicked>>

(* The tail of usertrap(): killed processes exit, others go back to user.  *)
Return(p) ==
    /\ At(p, "ret")
    /\ Goto(p, IF killed[p] THEN "exit" ELSE "user")
    /\ UNCHANGED <<state, pid, parent, killed, nextpid, wait_lock, np, panicked>>

(* A system call that touches nothing of the process table.                *)
OtherCall(p) ==
    /\ Enter(p)
    /\ Goto(p, "ret")
    /\ UNCHANGED <<state, pid, parent, killed, nextpid, wait_lock, np, panicked>>

(* setkilled(p) by p itself, on its way out of usertrap().                 *)
KillSelf(p) ==
    /\ Enter(p)
    /\ killed' = [killed EXCEPT ![p] = TRUE]
    /\ Goto(p, "ret")
    /\ UNCHANGED <<state, pid, parent, nextpid, wait_lock, np, panicked>>

-----------------------------------------------------------------------------
FreeProc(q) ==
    /\ state' = [state EXCEPT ![q] = "UNUSED"]
    /\ pid' = [pid EXCEPT ![q] = 0]
    /\ parent' = [parent EXCEPT ![q] = NoProc]
    /\ killed' = [killed EXCEPT ![q] = FALSE]

(* kfork().  allocproc() and the copying run under np->lock, in one step.  *)
(* allocproc() does not write killed, so the slot's old value stays.       *)
ForkAlloc(p, q) ==
    /\ Enter(p)
    /\ nextpid <= MaxPid
    /\ state[q] = "UNUSED"
    /\ state' = [state EXCEPT ![q] = "USED"]
    /\ pid' = [pid EXCEPT ![q] = nextpid]
    /\ np' = [np EXCEPT ![p] = q]
    /\ nextpid' = nextpid + 1
    /\ Goto(p, "fork_parent")
    /\ UNCHANGED <<parent, killed, wait_lock, panicked>>

ForkNoSlot(p) ==
    /\ Enter(p)
    /\ \A q \in Slot : state[q] # "UNUSED"
    /\ Goto(p, "ret")
    /\ UNCHANGED <<state, pid, parent, killed, nextpid, wait_lock, np, panicked>>

(* An allocation fails after the slot got its pid: freeproc() undoes the   *)
(* slot under the same np->lock; the pid is spent.                         *)
ForkFreed(p, q) ==
    /\ Enter(p)
    /\ nextpid <= MaxPid
    /\ state[q] = "UNUSED"
    /\ FreeProc(q)
    /\ nextpid' = nextpid + 1
    /\ Goto(p, "ret")
    /\ UNCHANGED <<wait_lock, np, panicked>>

ForkParent(p) ==
    /\ At(p, "fork_parent")
    /\ wait_lock = NoProc
    /\ parent' = [parent EXCEPT ![np[p]] = p]
    /\ Goto(p, "fork_runnable")
    /\ UNCHANGED <<state, pid, killed, nextpid, wait_lock, np, panicked>>

(* The child becomes schedulable; forkret() takes it straight to user mode. *)
ForkRunnable(p) ==
    /\ At(p, "fork_runnable")
    /\ state' = [state EXCEPT ![np[p]] = "RUNNABLE"]
    /\ pc' = [pc EXCEPT ![p] = "ret", ![np[p]] = "user"]
    /\ np' = [np EXCEPT ![p] = NoProc]
    /\ UNCHANGED <<pid, parent, killed, nextpid, wait_lock, panicked>>

-----------------------------------------------------------------------------
(* Mutant: a wakeup that wakes nobody.                                     *)
WokenNever(q, asleep) == asleep

(* wakeup(q) for a q that sleeps in kwait() on its own slot.               *)
Woken(q, asleep) ==
    [asleep EXCEPT ![q] = IF @ = "SLEEPING" THEN "RUNNABLE" ELSE @]

Kids(p) == {q \in Slot : parent[q] = p}

SysExit(p) ==
    /\ Enter(p)
    /\ Goto(p, "exit")
    /\ UNCHANGED <<state, pid, parent, killed, nextpid, wait_lock, np, panicked>>

(* Mutant: kexit() without wakeup(p->parent).                              *)
ExitReparentSilent(p) ==
    /\ At(p, "exit")
    /\ p # initproc
    /\ wait_lock = NoProc
    /\ wait_lock' = p
    /\ parent' = [q \in Slot |-> IF q \in Kids(p) THEN initproc ELSE parent[q]]
    /\ state' = IF Kids(p) # {} THEN Woken(initproc, state) ELSE state
    /\ Goto(p, "exit_zombie")
    /\ UNCHANGED <<pid, killed, nextpid, np, panicked>>

(* kexit() up to wakeup(p->parent), with wait_lock acquired and kept.      *)
ExitReparent(p) ==
    /\ At(p, "exit")
    /\ p # initproc
    /\ wait_lock = NoProc
    /\ wait_lock' = p
    /\ parent' = [q \in Slot |-> IF q \in Kids(p) THEN initproc ELSE parent[q]]
    /\ state' = [q \in Slot |->
                    IF \/ q = parent[p]
                       \/ q = initproc /\ Kids(p) # {}
                    THEN Woken(q, state)[q] ELSE state[q]]
    /\ Goto(p, "exit_zombie")
    /\ UNCHANGED <<pid, killed, nextpid, np, panicked>>

(* Mutant: kexit() never releases wait_lock.                               *)
ExitZombieKeepsLock(p) ==
    /\ At(p, "exit_zombie")
    /\ state' = [state EXCEPT ![p] = "ZOMBIE"]
    /\ Goto(p, "none")
    /\ UNCHANGED <<pid, parent, killed, nextpid, wait_lock, np, panicked>>

ExitZombie(p) ==
    /\ At(p, "exit_zombie")
    /\ state' = [state EXCEPT ![p] = "ZOMBIE"]
    /\ wait_lock' = NoProc
    /\ Goto(p, "none")
    /\ UNCHANGED <<pid, parent, killed, nextpid, np, panicked>>

InitExitPanic ==
    /\ At(initproc, "exit")
    /\ panicked' = TRUE
    /\ UNCHANGED <<state, pid, parent, killed, nextpid, wait_lock, pc, np>>

-----------------------------------------------------------------------------
(* kwait().  The scan runs under wait_lock, which ZOMBIE transitions and   *)
(* changes of parent need, so the scan is one step.                        *)
SysWait(p) ==
    /\ Enter(p)
    /\ Goto(p, "wait")
    /\ UNCHANGED <<state, pid, parent, killed, nextpid, wait_lock, np, panicked>>

Zombies(p) == {q \in Kids(p) : state[q] = "ZOMBIE"}

WaitReap(p, q) ==
    /\ At(p, "wait")
    /\ wait_lock = NoProc
    /\ q \in Zombies(p)
    /\ FreeProc(q)
    /\ Goto(p, "ret")
    /\ UNCHANGED <<nextpid, wait_lock, np, panicked>>

(* -1: the exit status cannot be copied out (the child stays a zombie), or *)
(* there is nothing to wait for, or the caller was killed.                 *)
WaitFails(p) ==
    /\ At(p, "wait")
    /\ wait_lock = NoProc
    /\ Zombies(p) # {} \/ Kids(p) = {} \/ killed[p]
    /\ Goto(p, "ret")
    /\ UNCHANGED <<state, pid, parent, killed, nextpid, wait_lock, np, panicked>>

(* killed(p) has released p->lock: a kill may come before sleep() takes it. *)
WaitDecide(p) ==
    /\ At(p, "wait")
    /\ wait_lock = NoProc
    /\ Zombies(p) = {} /\ Kids(p) # {} /\ ~killed[p]
    /\ wait_lock' = p
    /\ Goto(p, "wait_sleep")
    /\ UNCHANGED <<state, pid, parent, killed, nextpid, np, panicked>>

(* sleep(p, &wait_lock); when woken, kwait() scans again.                  *)
WaitSleep(p) ==
    /\ At(p, "wait_sleep")
    /\ state' = [state EXCEPT ![p] = "SLEEPING"]
    /\ wait_lock' = NoProc
    /\ Goto(p, "wait")
    /\ UNCHANGED <<pid, parent, killed, nextpid, np, panicked>>

-----------------------------------------------------------------------------
(* kkill(target): the first slot whose pid matches, free slots included.   *)
SysKill(p, target) ==
    /\ Enter(p)
    /\ \/ \E q \in Slot :
            /\ pid[q] = target
            /\ killed' = [killed EXCEPT ![q] = TRUE]
            /\ state' = Woken(q, state)
       \/ /\ \A q \in Slot : pid[q] # target
          /\ UNCHANGED <<killed, state>>
    /\ Goto(p, "ret")
    /\ UNCHANGED <<pid, parent, nextpid, wait_lock, np, panicked>>

-----------------------------------------------------------------------------
(* Steps a process takes once it is in the kernel, and calls it makes.     *)
KernelStep(p) ==
    \/ EnterKilled(p) \/ Return(p)
    \/ ForkParent(p) \/ ForkRunnable(p)
    \/ ExitReparent(p) \/ ExitZombie(p)
    \/ \E q \in Slot : WaitReap(p, q)
    \/ WaitFails(p) \/ WaitDecide(p) \/ WaitSleep(p)

UserCall(p) ==
    \/ OtherCall(p) \/ KillSelf(p)
    \/ \E q \in Slot : ForkAlloc(p, q) \/ ForkFreed(p, q)
    \/ ForkNoSlot(p)
    \/ SysExit(p) \/ SysWait(p)
    \/ \E target \in Targets : SysKill(p, target)

Halted == panicked /\ UNCHANGED procvars

ProcNext ==
    \/ /\ ~panicked
       /\ \/ \E p \in Slot : KernelStep(p) \/ UserCall(p)
          \/ InitExitPanic
    \/ Halted

ProcSpec == ProcInit /\ [][ProcNext]_procvars

-----------------------------------------------------------------------------
(* No two processes share a pid: kkill() and kwait() name at most one.     *)
(* proc.c: allocpid() under pid_lock, pid cleared only by freeproc().      *)
PidsDistinct ==
    \A p, q \in Slot :
        /\ state[p] # "UNUSED" => pid[p] > 0 /\ pid[p] < nextpid
        /\ state[p] # "UNUSED" /\ p # q => pid[p] # pid[q]

(* Every process but init has a living parent, so that every zombie has    *)
(* someone who can reap it: kexit() hands the children to init before it   *)
(* becomes a zombie, under the wait_lock that kfork() needs to set parent. *)
ParentAlive ==
    /\ state[initproc] \in {"RUNNABLE", "SLEEPING"}
    /\ \A p \in Slot \ {initproc} :
        state[p] \in {"RUNNABLE", "SLEEPING", "ZOMBIE"} =>
            /\ parent[p] \in Slot \ {p}
            /\ state[parent[p]] \in {"RUNNABLE", "SLEEPING"}

(* A process asleep in kwait() has children and none of them has exited:   *)
(* the wakeup() of kexit() and of reparent() is never lost, and a sleeper, *)
(* killed or not, always has a child whose exit will wake it.              *)
SleeperHasLiveKids ==
    \A p \in Slot : state[p] = "SLEEPING" => Kids(p) # {} /\ Zombies(p) = {}

(* A slot in state USED belongs to exactly one kfork() in progress: no     *)
(* failure path of kfork() leaks a slot and no two forks share one.        *)
EmbryoOwned ==
    \A q \in Slot :
        /\ state[q] = "USED" =>
              \E p \in Slot : np[p] = q /\ pc[p] \in {"fork_parent", "fork_runnable"}
        /\ \A p, r \in Slot : np[p] = q /\ np[r] = q => p = r /\ state[q] = "USED"

(* proc.c: "Kill the process with the given pid": a process nobody has     *)
(* named yet does not start its life killed.                               *)
BornAlive ==
    [][\A q \in Slot : state[q] = "UNUSED" /\ state'[q] = "USED" => ~killed'[q]]_procvars

-----------------------------------------------------------------------------
(* The inductive invariant behind the four, part by part.                  *)

(* wait_lock is held across two places only, each by its holder.           *)
LockInv == \A p \in Slot : pc[p] \in {"exit_zombie", "wait_sleep"} => wait_lock = p

(* Which threads exist, and that a sleeper is inside kwait().              *)
ThreadInv ==
    \A p \in Slot :
        /\ pc[p] = "none" <=> state[p] \in {"UNUSED", "USED", "ZOMBIE"}
        /\ state[p] = "SLEEPING" => pc[p] = "wait"

(* np is set exactly while kfork() is under way, and names its embryo.     *)
ForkInv ==
    \A p \in Slot :
        /\ np[p] \in Slot <=> pc[p] \in {"fork_parent", "fork_runnable"}
        /\ np[p] \in Slot => state[np[p]] = "USED"
        /\ pc[p] = "fork_parent" => parent[np[p]] = NoProc
        /\ pc[p] = "fork_runnable" => parent[np[p]] = p

(* parent is null in a free slot, and otherwise a living process that has  *)
(* not given its children away yet.                                        *)
TreeInv ==
    /\ pc[initproc] # "exit_zombie" /\ parent[initproc] = NoProc
    /\ \A q \in Slot :
        /\ state[q] = "UNUSED" => parent[q] = NoProc /\ pid[q] = 0
        /\ parent[q] \in Slot => /\ parent[q] # q
                                /\ state[parent[q]] \in {"RUNNABLE", "SLEEPING"}
                                /\ pc[parent[q]] # "exit_zombie"

(* Nothing can come between the decision to sleep and the sleep, and a     *)
(* child about to become a zombie has already woken its parent.            *)
WaitInv ==
    \A p \in Slot :
        /\ pc[p] = "wait_sleep" => Kids(p) # {} /\ Zombies(p) = {}
        /\ pc[p] = "exit_zombie" => state[parent[p]] # "SLEEPING"

ProcInv ==
    /\ ProcTypeOK /\ LockInv /\ ThreadInv /\ ForkInv /\ TreeInv /\ WaitInv
    /\ PidsDistinct /\ ParentAlive /\ SleeperHasLiveKids /\ EmbryoOwned

-----------------------------------------------------------------------------
(* Fairness.  A thread in the kernel keeps running (timer interrupts and   *)
(* the scheduler's round over proc[]), a killed process in user space is   *)
(* brought into usertrap() by the timer, and every contender for wait_lock *)
(* gets it in the end.  init calls wait(0) for ever (user/init.c): with a  *)
(* null status pointer nothing is copied out, so it does reap.             *)
Fairness ==
    /\ \A p \in Slot : SF_procvars(~panicked /\ KernelStep(p))
    /\ WF_procvars(~panicked /\ InitExitPanic)
    /\ SF_procvars(~panicked /\ SysWait(initproc))
    /\ SF_procvars(~panicked /\ (\E q \in Slot : WaitReap(initproc, q)))

FairProcSpec == ProcSpec /\ Fairness

(* A process that is killed while in user space exits: usertrap() sees the *)
(* flag at the next trap, and nothing on the way through kexit() waits for *)
(* something that never comes.                                             *)
KilledDies ==
    \A p \in Slot \ {initproc} :
        At(p, "user") /\ killed[p] ~> state[p] \in {"ZOMBIE", "UNUSED"} \/ panicked

(* A zombie whose parent is init, born to it or handed over by reparent(), *)
(* is reaped: init is woken for it whatever it was doing.                  *)
OrphanReaped ==
    \A q \in Slot :
        state[q] = "ZOMBIE" /\ parent[q] = initproc ~> state[q] = "UNUSED" \/ panicked

=============================================================================
