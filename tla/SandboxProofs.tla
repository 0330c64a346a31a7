--------------------------- MODULE SandboxProofs ----------------------------
(***************************************************************************)
(* Proofs about the process table of kernel/proc.c and the system-call     *)
(* filter on it.  The table keeps its invariant: one lemma per action of   *)
(* Proc that changes more than a program counter, and their combination.   *)
(* syscall() and the filter calls only add to what the table does, and     *)
(* filters are inherited, kept and wiped as intended.                      *)
(***************************************************************************)
EXTENDS Sandbox, TLAPS

(* The places where a thread holds no lock across steps and has no embryo. *)
QuietLabels == {"user", "ret", "exit", "wait"}

(* userinit() leaves a table that satisfies the invariant: one process,    *)
(* init, with no parent and pid 1.                                         *)
LEMMA InitInv == ProcInit => ProcInv
  <1> SUFFICES ASSUME ProcInit PROVE ProcInv
    OBVIOUS
  <1> USE SlotAssumption DEF ProcInit
  <1>1. ProcTypeOK
    <2>1. killed \in [Slot -> BOOLEAN] /\ panicked \in BOOLEAN
      BY Zenon
    <2> QED BY <2>1 DEF ProcTypeOK, States, Labels
  <1>2. LockInv /\ ThreadInv /\ ForkInv /\ TreeInv /\ WaitInv
    BY DEF LockInv, ThreadInv, ForkInv, TreeInv, WaitInv
  <1>3. PidsDistinct /\ ParentAlive /\ SleeperHasLiveKids /\ EmbryoOwned
    BY DEF PidsDistinct, ParentAlive, SleeperHasLiveKids, EmbryoOwned
  <1> QED BY <1>1, <1>2, <1>3 DEF ProcInv

(* A thread that moves between points of usertrap(), kexit() and kwait()   *)
(* where it holds no lock and owns no embryo, possibly setting killed,     *)
(* disturbs nothing.                                                       *)
LEMMA QuietStep ==
  ASSUME ProcInv, NEW p \in Slot, NEW l \in QuietLabels,
         state[p] = "RUNNABLE", pc[p] \in QuietLabels, Goto(p, l),
         UNCHANGED <<state, pid, parent, nextpid, wait_lock, np>>,
         killed' \in [Slot -> BOOLEAN], panicked' \in BOOLEAN
  PROVE  ProcInv'
  <1> USE SlotAssumption DEF ProcInv, ProcTypeOK, QuietLabels, Goto
  <1>1. ProcTypeOK'
    BY Zenon DEF Labels
  <1>2. LockInv'
    BY DEF LockInv, Labels
  <1>3. ThreadInv'
    BY DEF ThreadInv, Labels
  <1>4. ForkInv'
    BY DEF ForkInv, Labels
  <1>5. TreeInv'
    BY DEF TreeInv, Labels
  <1>6. WaitInv'
    BY DEF WaitInv, Labels, Kids, Zombies
  <1>7. PidsDistinct' /\ ParentAlive'
    BY DEF PidsDistinct, ParentAlive
  <1>8. SleeperHasLiveKids'
    BY DEF SleeperHasLiveKids, Kids, Zombies
  <1>9. EmbryoOwned'
    BY DEF EmbryoOwned, ForkInv
  <1> QED BY <1>1, <1>2, <1>3, <1>4, <1>5, <1>6, <1>7, <1>8, <1>9 DEF ProcInv

(* kfork() after allocproc(): the new slot has a fresh pid, no parent yet, *)
(* and this fork as its only owner.                                        *)
LEMMA ForkAllocStep ==
  ASSUME ProcInv, NEW p \in Slot, NEW q \in Slot, ForkAlloc(p, q)
  PROVE  ProcInv'
  <1> USE SlotAssumption DEF ProcInv, ProcTypeOK, ForkAlloc, Enter, At, Goto
  <1>1. ProcTypeOK'
    BY DEF States, Labels
  <1>2. LockInv'
    BY DEF LockInv, ThreadInv, Labels
  <1>3. ThreadInv'
    BY DEF ThreadInv, ForkInv, Labels, States
  <1>4. ForkInv'
    BY DEF ForkInv, EmbryoOwned, ThreadInv, TreeInv, Labels
  <1>5. TreeInv'
    BY DEF TreeInv, ThreadInv, ForkInv, ParentAlive, Labels
  <1>6. WaitInv'
    BY DEF WaitInv, LockInv, ThreadInv, TreeInv, ForkInv, Kids, Zombies, Labels
  <1>7. PidsDistinct'
    BY DEF PidsDistinct, TreeInv, ForkInv
  <1>8. ParentAlive'
    BY DEF ParentAlive, ThreadInv, ForkInv, TreeInv
  <1>9. SleeperHasLiveKids'
    BY DEF SleeperHasLiveKids, WaitInv, ThreadInv, ForkInv, TreeInv, LockInv, Kids, Zombies
  <1>10. EmbryoOwned'
    BY DEF EmbryoOwned, ForkInv, ThreadInv
  <1> QED BY <1>1, <1>2, <1>3, <1>4, <1>5, <1>6, <1>7, <1>8, <1>9, <1>10 DEF ProcInv

(* kfork() and allocproc() when memory runs out: freeproc() gives the slot *)
(* back as it was, with the pid spent.                                     *)
LEMMA ForkFreedStep ==
  ASSUME ProcInv, NEW p \in Slot, NEW q \in Slot, ForkFreed(p, q)
  PROVE  ProcInv'
  <1> USE SlotAssumption DEF ProcInv, ProcTypeOK, ForkFreed, FreeProc, Enter, At, Goto
  <1>1. ProcTypeOK'
    BY DEF States, Labels
  <1>2. LockInv'
    BY DEF LockInv, ThreadInv, Labels
  <1>3. ThreadInv'
    BY DEF ThreadInv, ForkInv, Labels, States
  <1>4. ForkInv'
    BY DEF ForkInv, EmbryoOwned, ThreadInv, TreeInv, Labels
  <1>5. TreeInv'
    BY DEF TreeInv, ThreadInv, ForkInv, ParentAlive, Labels
  <1>6. WaitInv'
    BY DEF WaitInv, LockInv, ThreadInv, TreeInv, ForkInv, Kids, Zombies, Labels
  <1>7. PidsDistinct'
    BY DEF PidsDistinct, TreeInv, ForkInv
  <1>8. ParentAlive'
    BY DEF ParentAlive, ThreadInv, ForkInv, TreeInv
  <1>9. SleeperHasLiveKids'
    BY DEF SleeperHasLiveKids, WaitInv, ThreadInv, ForkInv, TreeInv, LockInv, Kids, Zombies
  <1>10. EmbryoOwned'
    BY DEF EmbryoOwned, ForkInv, ThreadInv
  <1> QED BY <1>1, <1>2, <1>3, <1>4, <1>5, <1>6, <1>7, <1>8, <1>9, <1>10 DEF ProcInv

(* kfork() sets np->parent under wait_lock: the parent is alive and is not *)
(* on its way out, since it is inside kfork().                             *)
LEMMA ForkParentStep ==
  ASSUME ProcInv, NEW p \in Slot, ForkParent(p)
  PROVE  ProcInv'
  <1> USE SlotAssumption DEF ProcInv, ProcTypeOK, ForkParent, At, Goto
  <1>1. ProcTypeOK'
    BY Zenon DEF States, Labels
  <1>2. LockInv'
    BY DEF LockInv, ThreadInv, Labels
  <1>3. ThreadInv'
    BY DEF ThreadInv, ForkInv, Labels, States
  <1>4. ForkInv'
    BY DEF ForkInv, EmbryoOwned, ThreadInv, TreeInv, Labels
  <1>5. TreeInv'
    BY DEF TreeInv, ThreadInv, ForkInv, ParentAlive, Labels
  <1>6. WaitInv'
    BY DEF WaitInv, LockInv, ThreadInv, TreeInv, ForkInv, Kids, Zombies, Labels
  <1>7. PidsDistinct'
    BY DEF PidsDistinct, TreeInv, ForkInv
  <1>8. ParentAlive'
    BY DEF ParentAlive, ThreadInv, ForkInv, TreeInv
  <1>9. SleeperHasLiveKids'
    BY DEF SleeperHasLiveKids, WaitInv, ThreadInv, ForkInv, TreeInv, LockInv, Kids, Zombies
  <1>10. EmbryoOwned'
    BY DEF EmbryoOwned, ForkInv, ThreadInv
  <1> QED BY <1>1, <1>2, <1>3, <1>4, <1>5, <1>6, <1>7, <1>8, <1>9, <1>10 DEF ProcInv

(* kfork() makes the child RUNNABLE: it already has a living parent.       *)
LEMMA ForkRunnableStep ==
  ASSUME ProcInv, NEW p \in Slot, ForkRunnable(p)
  PROVE  ProcInv'
  <1> USE SlotAssumption DEF ProcInv, ProcTypeOK, ForkRunnable, At
  <1>1. ProcTypeOK'
    BY Zenon DEF States, Labels
  <1>2. LockInv'
    BY DEF LockInv, ThreadInv, Labels
  <1>3. ThreadInv'
    BY DEF ThreadInv, ForkInv, Labels, States
  <1>4. ForkInv'
    BY DEF ForkInv, EmbryoOwned, ThreadInv, TreeInv, Labels
  <1>5. TreeInv'
    BY DEF TreeInv, ThreadInv, ForkInv, ParentAlive, Labels
  <1>6. WaitInv'
    BY DEF WaitInv, LockInv, ThreadInv, TreeInv, ForkInv, Kids, Zombies, Labels
  <1>7. PidsDistinct'
    BY DEF PidsDistinct, TreeInv, ForkInv
  <1>8. ParentAlive'
    BY DEF ParentAlive, ThreadInv, ForkInv, TreeInv
  <1>9. SleeperHasLiveKids'
    BY DEF SleeperHasLiveKids, WaitInv, ThreadInv, ForkInv, TreeInv, LockInv, Kids, Zombies
  <1>10. EmbryoOwned'
    <2> SUFFICES ASSUME NEW r \in Slot
                 PROVE  /\ state'[r] = "USED" => \E s \in Slot :
                              np'[s] = r /\ pc'[s] \in {"fork_parent", "fork_runnable"}
                        /\ \A s, t \in Slot : np'[s] = r /\ np'[t] = r
                              => s = t /\ state'[r] = "USED"
      BY DEF EmbryoOwned
    <2>1. CASE r = np[p]
      BY <2>1 DEF EmbryoOwned, ForkInv
    <2>2. CASE r # np[p]
      <3>1. state'[r] = state[r]
        BY <2>2
      <3>2. ASSUME NEW s \in Slot, np[s] = r
            PROVE  np'[s] = r /\ pc'[s] = pc[s]
        BY <2>2, <3>2 DEF ForkInv, ThreadInv
      <3> QED BY <3>1, <3>2 DEF EmbryoOwned
    <2> QED BY <2>1, <2>2
  <1> QED BY <1>1, <1>2, <1>3, <1>4, <1>5, <1>6, <1>7, <1>8, <1>9, <1>10 DEF ProcInv

(* kexit() under wait_lock: the children go to init, and whoever could be  *)
(* asleep waiting for this exit is awake from here on.                     *)
LEMMA ExitReparentStep ==
  ASSUME ProcInv, NEW p \in Slot, ExitReparent(p)
  PROVE  ProcInv'
  <1> USE SlotAssumption DEF ProcInv, ProcTypeOK, ExitReparent, At, Goto, Woken, Kids
  <1>1. ProcTypeOK'
    BY DEF States, Labels
  <1>2. LockInv'
    BY DEF LockInv, ThreadInv, Labels
  <1>3. ThreadInv'
    BY DEF ThreadInv, ForkInv, Labels, States
  <1>4. ForkInv'
    BY DEF ForkInv, EmbryoOwned, ThreadInv, TreeInv, Labels
  <1>5. TreeInv'
    BY DEF TreeInv, ThreadInv, ForkInv, ParentAlive, Labels
  <1>6. WaitInv'
    BY DEF WaitInv, ParentAlive, LockInv, ThreadInv, TreeInv, ForkInv, Kids, Zombies, Labels
  <1>7. PidsDistinct'
    BY DEF PidsDistinct, TreeInv, ForkInv
  <1>8. ParentAlive'
    BY DEF ParentAlive, ThreadInv, ForkInv, TreeInv
  <1>9. SleeperHasLiveKids'
    BY DEF SleeperHasLiveKids, WaitInv, ThreadInv, ForkInv, TreeInv, LockInv, Kids, Zombies
  <1>10. EmbryoOwned'
    BY DEF EmbryoOwned, ForkInv, ThreadInv
  <1> QED BY <1>1, <1>2, <1>3, <1>4, <1>5, <1>6, <1>7, <1>8, <1>9, <1>10 DEF ProcInv

(* kexit() becomes a ZOMBIE: nobody has it for a parent any more, and its  *)
(* own parent does not sleep.                                              *)
LEMMA ExitZombieStep ==
  ASSUME ProcInv, NEW p \in Slot, ExitZombie(p)
  PROVE  ProcInv'
  <1> USE SlotAssumption DEF ProcInv, ProcTypeOK, ExitZombie, At, Goto
  <1>1. ProcTypeOK'
    BY DEF States, Labels
  <1>2. LockInv'
    BY DEF LockInv, ThreadInv, Labels
  <1>3. ThreadInv'
    BY DEF ThreadInv, ForkInv, Labels, States
  <1>4. ForkInv'
    BY DEF ForkInv, EmbryoOwned, ThreadInv, TreeInv, Labels
  <1>5. TreeInv'
    BY DEF TreeInv, ThreadInv, ForkInv, ParentAlive, Labels
  <1>6. WaitInv'
    BY DEF WaitInv, LockInv, ThreadInv, TreeInv, ForkInv, Kids, Zombies, Labels
  <1>7. PidsDistinct'
    BY DEF PidsDistinct, TreeInv, ForkInv
  <1>8. ParentAlive'
    BY DEF ParentAlive, ThreadInv, ForkInv, TreeInv
  <1>9. SleeperHasLiveKids'
    BY DEF SleeperHasLiveKids, WaitInv, ThreadInv, ForkInv, TreeInv, LockInv, Kids, Zombies
  <1>10. EmbryoOwned'
    BY DEF EmbryoOwned, ForkInv, ThreadInv
  <1> QED BY <1>1, <1>2, <1>3, <1>4, <1>5, <1>6, <1>7, <1>8, <1>9, <1>10 DEF ProcInv

(* kwait() frees a zombie child: no process refers to the slot, so it can  *)
(* be handed out again.                                                    *)
LEMMA WaitReapStep ==
  ASSUME ProcInv, NEW p \in Slot, NEW q \in Slot, WaitReap(p, q)
  PROVE  ProcInv'
  <1> USE SlotAssumption DEF ProcInv, ProcTypeOK, WaitReap, FreeProc, At, Goto, Zombies, Kids
  <1>1. ProcTypeOK'
    BY DEF States, Labels
  <1>2. LockInv'
    BY DEF LockInv, ThreadInv, Labels
  <1>3. ThreadInv'
    BY DEF ThreadInv, ForkInv, Labels, States
  <1>4. ForkInv'
    BY DEF ForkInv, EmbryoOwned, ThreadInv, TreeInv, Labels
  <1>5. TreeInv'
    BY DEF TreeInv, ThreadInv, ForkInv, ParentAlive, Labels
  <1>6. WaitInv'
    BY DEF WaitInv, LockInv, ThreadInv, TreeInv, ForkInv, Kids, Zombies, Labels
  <1>7. PidsDistinct'
    BY DEF PidsDistinct, TreeInv, ForkInv
  <1>8. ParentAlive'
    BY DEF ParentAlive, ThreadInv, ForkInv, TreeInv
  <1>9. SleeperHasLiveKids'
    BY DEF SleeperHasLiveKids, WaitInv, ThreadInv, ForkInv, TreeInv, LockInv, Kids, Zombies
  <1>10. EmbryoOwned'
    BY DEF EmbryoOwned, ForkInv, ThreadInv
  <1> QED BY <1>1, <1>2, <1>3, <1>4, <1>5, <1>6, <1>7, <1>8, <1>9, <1>10 DEF ProcInv

(* kwait() found no zombie and keeps wait_lock: the emptiness it saw stays *)
(* true until it sleeps.                                                   *)
LEMMA WaitDecideStep ==
  ASSUME ProcInv, NEW p \in Slot, WaitDecide(p)
  PROVE  ProcInv'
  <1> USE SlotAssumption DEF ProcInv, ProcTypeOK, WaitDecide, At, Goto
  <1>1. ProcTypeOK'
    BY DEF States, Labels
  <1>2. LockInv'
    BY DEF LockInv, ThreadInv, Labels
  <1>3. ThreadInv'
    BY DEF ThreadInv, ForkInv, Labels, States
  <1>4. ForkInv'
    BY DEF ForkInv, EmbryoOwned, ThreadInv, TreeInv, Labels
  <1>5. TreeInv'
    BY DEF TreeInv, ThreadInv, ForkInv, ParentAlive, Labels
  <1>6. WaitInv'
    BY DEF WaitInv, LockInv, ThreadInv, TreeInv, ForkInv, Kids, Zombies, Labels
  <1>7. PidsDistinct'
    BY DEF PidsDistinct, TreeInv, ForkInv
  <1>8. ParentAlive'
    BY DEF ParentAlive, ThreadInv, ForkInv, TreeInv
  <1>9. SleeperHasLiveKids'
    BY DEF SleeperHasLiveKids, WaitInv, ThreadInv, ForkInv, TreeInv, LockInv, Kids, Zombies
  <1>10. EmbryoOwned'
    BY DEF EmbryoOwned, ForkInv, ThreadInv
  <1> QED BY <1>1, <1>2, <1>3, <1>4, <1>5, <1>6, <1>7, <1>8, <1>9, <1>10 DEF ProcInv

(* sleep() of kwait(): the process that falls asleep has live children.    *)
LEMMA WaitSleepStep ==
  ASSUME ProcInv, NEW p \in Slot, WaitSleep(p)
  PROVE  ProcInv'
  <1> USE SlotAssumption DEF ProcInv, ProcTypeOK, WaitSleep, At, Goto
  <1>1. ProcTypeOK'
    BY DEF States, Labels
  <1>2. LockInv'
    BY DEF LockInv, ThreadInv, Labels
  <1>3. ThreadInv'
    BY DEF ThreadInv, ForkInv, Labels, States
  <1>4. ForkInv'
    BY DEF ForkInv, EmbryoOwned, ThreadInv, TreeInv, Labels
  <1>5. TreeInv'
    BY DEF TreeInv, ThreadInv, ForkInv, ParentAlive, Labels
  <1>6. WaitInv'
    BY DEF WaitInv, LockInv, ThreadInv, TreeInv, ForkInv, Kids, Zombies, Labels
  <1>7. PidsDistinct'
    BY DEF PidsDistinct, TreeInv, ForkInv
  <1>8. ParentAlive'
    BY DEF ParentAlive, ThreadInv, ForkInv, TreeInv
  <1>9. SleeperHasLiveKids'
    BY DEF SleeperHasLiveKids, WaitInv, ThreadInv, ForkInv, TreeInv, LockInv, Kids, Zombies
  <1>10. EmbryoOwned'
    BY DEF EmbryoOwned, ForkInv, ThreadInv
  <1> QED BY <1>1, <1>2, <1>3, <1>4, <1>5, <1>6, <1>7, <1>8, <1>9, <1>10 DEF ProcInv

(* kkill() on any pid, the 0 of the free slots included: it wakes a        *)
(* sleeper and changes no ownership.                                       *)
LEMMA SysKillStep ==
  ASSUME ProcInv, NEW p \in Slot, NEW target \in Nat, SysKill(p, target)
  PROVE  ProcInv'
  <1> USE SlotAssumption DEF ProcInv, ProcTypeOK, SysKill, Woken, Enter, At, Goto
  <1>1. ProcTypeOK'
    BY Zenon DEF States, Labels
  <1>2. LockInv'
    BY DEF LockInv, ThreadInv, Labels
  <1>3. ThreadInv'
    BY DEF ThreadInv, ForkInv, Labels, States
  <1>4. ForkInv'
    BY DEF ForkInv, EmbryoOwned, ThreadInv, TreeInv, Labels
  <1>5. TreeInv'
    BY DEF TreeInv, ThreadInv, ForkInv, ParentAlive, Labels
  <1>6. WaitInv'
    <2>1. \A r \in Slot : /\ state'[r] = "ZOMBIE" <=> state[r] = "ZOMBIE"
                          /\ state'[r] = "SLEEPING" => state[r] = "SLEEPING"
      OBVIOUS
    <2>2. \A r \in Slot : pc'[r] \in {"exit_zombie", "wait_sleep"} => pc[r] = pc'[r]
      OBVIOUS
    <2>3. \A r \in Slot : pc[r] = "exit_zombie" => parent[r] \in Slot
      BY DEF ParentAlive, ThreadInv, TreeInv, States
    <2> QED BY <2>1, <2>2, <2>3 DEF WaitInv, Kids, Zombies
  <1>7. PidsDistinct'
    BY DEF PidsDistinct, TreeInv, ForkInv
  <1>8. ParentAlive'
    BY DEF ParentAlive, ThreadInv, ForkInv, TreeInv
  <1>9. SleeperHasLiveKids'
    BY DEF SleeperHasLiveKids, WaitInv, ThreadInv, ForkInv, TreeInv, LockInv, Kids, Zombies
  <1>10. EmbryoOwned'
    BY DEF EmbryoOwned, ForkInv, ThreadInv
  <1> QED BY <1>1, <1>2, <1>3, <1>4, <1>5, <1>6, <1>7, <1>8, <1>9, <1>10 DEF ProcInv

(* Every step of the process table keeps the invariant.                    *)
LEMMA NextInv == ProcInv /\ [ProcNext]_procvars => ProcInv'
  <1> SUFFICES ASSUME ProcInv, [ProcNext]_procvars PROVE ProcInv'
    OBVIOUS
  <1> USE DEF QuietLabels
  <1>1. ASSUME NEW p \in Slot, KernelStep(p) PROVE ProcInv'
    <2>1. CASE EnterKilled(p) \/ Return(p) \/ WaitFails(p)
      BY <2>1, QuietStep DEF EnterKilled, Return, WaitFails, At, Goto, ProcInv, ProcTypeOK
    <2> QED BY <1>1, <2>1, ForkParentStep, ForkRunnableStep, ExitReparentStep,
               ExitZombieStep, WaitReapStep, WaitDecideStep, WaitSleepStep DEF KernelStep
  <1>2. ASSUME NEW p \in Slot, UserCall(p) PROVE ProcInv'
    <2>1. CASE OtherCall(p) \/ KillSelf(p) \/ ForkNoSlot(p) \/ SysExit(p) \/ SysWait(p)
      BY <2>1, QuietStep, Zenon DEF OtherCall, KillSelf, ForkNoSlot, SysExit, SysWait,
                             Enter, At, ProcInv, ProcTypeOK
    <2> QED BY <1>2, <2>1, ForkAllocStep, ForkFreedStep, SysKillStep, PidAssumption
            DEF UserCall
  <1>3. CASE InitExitPanic
    <2>1. panicked' \in BOOLEAN
      BY <1>3 DEF InitExitPanic
    <2> QED BY <2>1, <1>3 DEF InitExitPanic, ProcInv, ProcTypeOK, LockInv, ThreadInv,
               ForkInv, TreeInv, WaitInv, PidsDistinct, ParentAlive,
               SleeperHasLiveKids, EmbryoOwned, Kids, Zombies
  <1>4. CASE UNCHANGED procvars
    BY <1>4 DEF procvars, ProcInv, ProcTypeOK, LockInv, ThreadInv,
               ForkInv, TreeInv, WaitInv, PidsDistinct, ParentAlive,
               SleeperHasLiveKids, EmbryoOwned, Kids, Zombies
  <1> QED BY <1>1, <1>2, <1>3, <1>4 DEF ProcNext, Halted

(* The invariant holds in every reachable state, for any number of slots   *)
(* and pids.                                                               *)
THEOREM ProcInvariant == ProcSpec => []ProcInv
  BY InitInv, NextInv, PTL DEF ProcSpec

(* Type correctness of the process table.                                  *)
THEOREM ProcTypes == ProcSpec => []ProcTypeOK
  <1>1. ProcInv => ProcTypeOK
    BY DEF ProcInv
  <1> QED BY <1>1, ProcInvariant, PTL

(* No two processes ever share a pid, so kkill() and kwait() name one.     *)
THEOREM UniquePids == ProcSpec => []PidsDistinct
  <1>1. ProcInv => PidsDistinct
    BY DEF ProcInv
  <1> QED BY <1>1, ProcInvariant, PTL

(* reparent() in kexit() leaves no process without a living parent.        *)
THEOREM LivingParents == ProcSpec => []ParentAlive
  <1>1. ProcInv => ParentAlive
    BY DEF ProcInv
  <1> QED BY <1>1, ProcInvariant, PTL

(* kwait() never sleeps past the exit of a child: the wakeups of kexit()   *)
(* and reparent() are not lost.                                            *)
THEOREM NoLostWakeup == ProcSpec => []SleeperHasLiveKids
  <1>1. ProcInv => SleeperHasLiveKids
    BY DEF ProcInv
  <1> QED BY <1>1, ProcInvariant, PTL

(* Every USED slot is owned by exactly one kfork() in progress.            *)
THEOREM NoLeakedSlot == ProcSpec => []EmbryoOwned
  <1>1. ProcInv => EmbryoOwned
    BY DEF ProcInv
  <1> QED BY <1>1, ProcInvariant, PTL

-----------------------------------------------------------------------------
(* Every step of syscall() and of the filter calls is a step of the        *)
(* process table, or leaves it alone.                                      *)
LEMMA SandboxStepIsProcStep == [SandboxNext]_sandboxvars => [ProcNext]_procvars
  <1> SUFFICES ASSUME [SandboxNext]_sandboxvars PROVE [ProcNext]_procvars
    OBVIOUS
  <1>1. ASSUME NEW p \in Slot, FilterCall(p), ~panicked PROVE ProcNext
    <2>1. OtherCall(p) \/ KillSelf(p)
      BY <1>1 DEF FilterCall, SetFilter, SetFilterChild, SetAudit, SetStrict,
                  PlainCall, Violation
    <2> QED BY <1>1, <2>1 DEF ProcNext, UserCall
  <1>2. ASSUME NEW p \in Slot, ProcessCall(p), ~panicked PROVE ProcNext
    <2>1. UserCall(p)
      BY <1>2 DEF ProcessCall, Fork, ForkAllocFails, ForkCopyFails, Exit, Wait,
                  UserFault, Kill, UserCall
    <2> QED BY <1>2, <2>1 DEF ProcNext
  <1>3. ASSUME NEW p \in Slot, KernelRest(p), ~panicked PROVE ProcNext \/ UNCHANGED procvars
    <2>1. KernelStep(p) \/ UNCHANGED procvars
      BY <1>3 DEF KernelRest, Reap, AuditWritten, KernelStep
    <2> QED BY <1>3, <2>1 DEF ProcNext
  <1> QED BY <1>1, <1>2, <1>3 DEF SandboxNext, sandboxvars, ProcNext

(* userinit() starts init with an empty mask and both modes off.           *)
LEMMA SandboxInitInv == SandboxInit => SandboxInv
  <1> SUFFICES ASSUME SandboxInit PROVE SandboxInv
    OBVIOUS
  <1>1. SandboxTypeOK
    BY Zenon DEF SandboxInit, SandboxTypeOK
  <1> QED BY <1>1 DEF SandboxInit, SandboxInv, LineageContained, PendingMaskInv,
             StrictViolatorStopped, FreeSlotWiped, AuditInv

(* The rest of usertrap(), kfork(), kexit() and kwait() leaves every       *)
(* filter field alone.                                                     *)
LEMMA KeepFilters ==
  ASSUME SandboxInv, ProcInv, UNCHANGED filtervars,
         NEW p \in Slot, ~auditing[p],
         \/ EnterKilled(p) \/ Return(p) \/ ForkParent(p) \/ ForkRunnable(p)
         \/ ExitReparent(p) \/ ExitZombie(p) \/ WaitFails(p) \/ WaitDecide(p) \/ WaitSleep(p)
  PROVE  SandboxInv'
  <1> USE DEF SandboxInv, filtervars, ProcInv, ProcTypeOK, EnterKilled, Return, ForkParent, ForkRunnable,
      ExitReparent, ExitZombie, WaitFails, WaitDecide, WaitSleep, At, Goto, Woken
  <1>1. SandboxTypeOK' /\ PendingMaskInv'
    BY DEF SandboxTypeOK, PendingMaskInv
  <1>2. \A q \in Slot : state'[q] = "UNUSED" <=> state[q] = "UNUSED"
    BY DEF ForkInv
  <1>3. LineageContained' /\ FreeSlotWiped'
    BY <1>2 DEF LineageContained, FreeSlotWiped
  <1>4. StrictViolatorStopped'
    BY DEF StrictViolatorStopped, AuditInv, ForkInv, ThreadInv
  <1>5. AuditInv'
    BY DEF AuditInv, ForkInv, ThreadInv
  <1> QED BY <1>1, <1>3, <1>4, <1>5

(* So do the handlers of exit, wait and kill.                              *)
LEMMA KeepFiltersUser ==
  ASSUME SandboxInv, ProcInv, UNCHANGED filtervars, NEW p \in Slot,
         \/ OtherCall(p) \/ SysExit(p) \/ SysWait(p) \/ ForkNoSlot(p) \/ KillSelf(p)
         \/ \E target \in Targets : SysKill(p, target)
  PROVE  SandboxInv'
  <1> USE DEF SandboxInv, filtervars, ProcInv, ProcTypeOK, OtherCall, SysExit, SysWait,
      ForkNoSlot, KillSelf, SysKill, Enter, At, Goto, Woken
  <1>1. SandboxTypeOK' /\ PendingMaskInv'
    BY DEF SandboxTypeOK, PendingMaskInv
  <1>2. \A q \in Slot : state'[q] = "UNUSED" <=> state[q] = "UNUSED"
    OBVIOUS
  <1>3. LineageContained' /\ FreeSlotWiped'
    BY <1>2 DEF LineageContained, FreeSlotWiped
  <1>4. StrictViolatorStopped'
    BY DEF StrictViolatorStopped, AuditInv, ThreadInv
  <1>5. AuditInv'
    BY DEF AuditInv, ThreadInv
  <1> QED BY <1>1, <1>3, <1>4, <1>5

(* kfork(): the mask the child gets, from its parent or from               *)
(* child_syscall_mask, covers what every ancestor was created with.        *)
LEMMA ForkKeeps ==
  ASSUME SandboxInv, ProcInv, NEW p \in Slot, NEW q \in Slot, Fork(p, q)
  PROVE  SandboxInv'
  <1> USE DEF SandboxInv, SandboxTypeOK, ProcInv, ProcTypeOK, Fork, ForkAlloc, ChildMask, Enter, At, Goto
  <1>1. SandboxTypeOK'
    OBVIOUS
  <1>2. PendingMaskInv'
    BY DEF PendingMaskInv
  <1>3. LineageContained'
    BY DEF LineageContained, PendingMaskInv
  <1>4. FreeSlotWiped'
    BY DEF FreeSlotWiped
  <1>5. StrictViolatorStopped'
    BY DEF StrictViolatorStopped, AuditInv, ThreadInv
  <1>6. AuditInv'
    BY DEF AuditInv, ThreadInv
  <1> QED BY <1>1, <1>2, <1>3, <1>4, <1>5, <1>6

(* freeproc(), on the failure paths of kfork() and in kwait(), clears the  *)
(* filter of the slot and of nobody else.                                  *)
LEMMA WipeKeeps ==
  ASSUME SandboxInv, ProcInv, NEW p \in Slot, NEW q \in Slot, Wipe(q),
         ForkFreed(p, q) \/ WaitReap(p, q),
         \/ child_syscall_mask' = [child_syscall_mask EXCEPT ![q] = {}]
         \/ child_syscall_mask' = [child_syscall_mask EXCEPT ![q] = {}, ![p] = {}]
  PROVE  SandboxInv'
  <1> USE DEF SandboxInv, SandboxTypeOK, ProcInv, ProcTypeOK, Wipe, ForkFreed, WaitReap, FreeProc,
              Enter, At, Goto, Zombies, Kids
  <1>1. SandboxTypeOK'
    OBVIOUS
  <1>2. PendingMaskInv'
    BY DEF PendingMaskInv
  <1>3. LineageContained'
    BY DEF LineageContained, PendingMaskInv
  <1>4. FreeSlotWiped'
    BY DEF FreeSlotWiped, AuditInv
  <1>5. StrictViolatorStopped'
    BY DEF StrictViolatorStopped, AuditInv, ThreadInv
  <1>6. AuditInv'
    BY DEF AuditInv, ThreadInv
  <1> QED BY <1>1, <1>2, <1>3, <1>4, <1>5, <1>6

(* setfilter(), setfilter_child(), setaudit(), setstrict(), admitted calls *)
(* and refused ones keep the invariant.                                    *)
LEMMA FilterCallKeeps ==
  ASSUME SandboxInv, ProcInv, NEW p \in Slot, FilterCall(p)
  PROVE  SandboxInv'
  <1> USE MasksAssumption, ModesAssumption
      DEF SandboxInv, SandboxTypeOK, ProcInv, ProcTypeOK, OtherCall, Enter, At, Goto
  <1>1. ASSUME NEW mask \in Masks, SetFilter(p, mask) PROVE SandboxInv'
    BY <1>1 DEF SetFilter, LineageContained, PendingMaskInv, StrictViolatorStopped,
                FreeSlotWiped, AuditInv
  <1>2. ASSUME NEW mask \in Masks, SetFilterChild(p, mask) PROVE SandboxInv'
    BY <1>2 DEF SetFilterChild, LineageContained, PendingMaskInv, StrictViolatorStopped,
                FreeSlotWiped, AuditInv
  <1>3. ASSUME NEW on \in Modes, SetAudit(p, on) \/ SetStrict(p, on) PROVE SandboxInv'
    BY <1>3 DEF SetAudit, SetStrict, LineageContained, PendingMaskInv, StrictViolatorStopped,
                FreeSlotWiped, AuditInv
  <1>4. ASSUME NEW call \in Calls, NEW class, PlainCall(p, call, class) PROVE SandboxInv'
    BY <1>4, KeepFiltersUser, Zenon DEF PlainCall
  <1>5. ASSUME NEW call \in Calls, NEW class, Violation(p, call, class) PROVE SandboxInv'
    BY <1>5 DEF Violation, KillSelf, LineageContained, PendingMaskInv, StrictViolatorStopped,
                FreeSlotWiped, AuditInv
  <1> QED BY <1>1, <1>2, <1>3, <1>4, <1>5 DEF FilterCall, Calls

(* Every step keeps the invariant of the filter.                           *)
LEMMA SandboxNextInv ==
  SandboxInv /\ ProcInv /\ [SandboxNext]_sandboxvars => SandboxInv'
  <1> SUFFICES ASSUME SandboxInv, ProcInv, [SandboxNext]_sandboxvars PROVE SandboxInv'
    OBVIOUS
  <1>1. ASSUME NEW p \in Slot, ProcessCall(p) PROVE SandboxInv'
    <2>1. CASE Exit(p) \/ Wait(p) \/ UserFault(p) \/ \E target \in Targets : Kill(p, target)
      BY <2>1, KeepFiltersUser DEF Exit, Wait, UserFault, Kill
    <2>2. CASE ForkAllocFails(p)
      BY <2>2, KeepFiltersUser, WipeKeeps DEF ForkAllocFails
    <2>3. CASE ForkCopyFails(p)
      BY <2>3, WipeKeeps, Zenon DEF ForkCopyFails
    <2> QED BY <1>1, <2>1, <2>2, <2>3, ForkKeeps DEF ProcessCall
  <1>2. ASSUME NEW p \in Slot, KernelRest(p) PROVE SandboxInv'
    <2>1. CASE AuditWritten(p)
      BY <2>1 DEF AuditWritten, procvars, At, SandboxInv, SandboxTypeOK, LineageContained,
                  PendingMaskInv, StrictViolatorStopped, FreeSlotWiped, AuditInv
    <2>2. ASSUME NEW q \in Slot, Reap(p, q) PROVE SandboxInv'
      BY <2>2, WipeKeeps, Zenon DEF Reap
    <2> QED BY <1>2, <2>1, <2>2, KeepFilters DEF KernelRest
  <1>3. CASE UNCHANGED filtervars /\ UNCHANGED <<state, pc, killed>>
    BY <1>3 DEF filtervars, At, SandboxInv, SandboxTypeOK, LineageContained,
                PendingMaskInv, StrictViolatorStopped, FreeSlotWiped, AuditInv
  <1> QED BY <1>1, <1>2, <1>3, FilterCallKeeps
          DEF SandboxNext, sandboxvars, InitExitPanic, Halted, procvars

(* The filter's module is built from the steps of the process table, so    *)
(* what is proved of the table holds in it.                                *)
LEMMA SandboxRefinesProc == SandboxSpec => ProcSpec
  <1>1. SandboxInit => ProcInit
    BY DEF SandboxInit
  <1> QED BY <1>1, SandboxStepIsProcStep, PTL DEF SandboxSpec, ProcSpec

(* The invariant of the filter holds in every reachable state, for any     *)
(* slots, masks and modes.                                                 *)
THEOREM SandboxInvariant == SandboxSpec => []SandboxInv
  BY SandboxInitInv, SandboxNextInv, SandboxRefinesProc, ProcInvariant, PTL DEF SandboxSpec

(* What was blocked for a process or an ancestor when it was created stays *)
(* blocked, across any number of fork(), setfilter_child() and setfilter() *)
(* calls.                                                                  *)
THEOREM Lineage == SandboxSpec => []LineageContained
  <1>1. SandboxInv => LineageContained
    BY DEF SandboxInv
  <1> QED BY <1>1, SandboxInvariant, PTL

(* A process refused in strict mode by syscall() never runs user code or a *)
(* handler again.                                                          *)
THEOREM Strict == SandboxSpec => []StrictViolatorStopped
  <1>1. SandboxInv => StrictViolatorStopped
    BY DEF SandboxInv
  <1> QED BY <1>1, SandboxInvariant, PTL

(* sys_setfilter() and everything else in the kernel only ever add to the  *)
(* mask of a living process.                                               *)
THEOREM Ratchet == SandboxSpec => MaskRatchet
  <1> DEFINE Keeps == \A p \in Slot : state[p] # "UNUSED" /\ pid'[p] = pid[p]
                                      => syscall_mask[p] \subseteq syscall_mask'[p]
  <1>1. ProcInv /\ SandboxInv /\ [SandboxNext]_sandboxvars => [Keeps]_sandboxvars
    <2> SUFFICES ASSUME ProcInv, SandboxInv, SandboxNext, NEW r \in Slot,
                        state[r] # "UNUSED", pid'[r] = pid[r]
                 PROVE  syscall_mask[r] \subseteq syscall_mask'[r]
      OBVIOUS
    <2> USE DEF ProcInv, ProcTypeOK, SandboxInv, SandboxTypeOK
    <2>1. ASSUME NEW p \in Slot, FilterCall(p) PROVE syscall_mask[r] \subseteq syscall_mask'[r]
      <3>1. ASSUME NEW mask \in Masks, SetFilter(p, mask)
            PROVE  syscall_mask[r] \subseteq syscall_mask'[r]
        BY <3>1 DEF SetFilter
      <3>2. (\E mask \in Masks : SetFilter(p, mask)) \/ UNCHANGED syscall_mask
        BY <2>1, Zenon DEF FilterCall, SetFilterChild, SetAudit, SetStrict, PlainCall,
                           Violation, filtervars
      <3> QED BY <3>1, <3>2
    <2>2. ASSUME NEW p \in Slot, ProcessCall(p) PROVE syscall_mask[r] \subseteq syscall_mask'[r]
      BY <2>2 DEF ProcessCall, Fork, ForkAlloc, ForkAllocFails, ForkCopyFails, ForkFreed,
                  Wipe, Exit, Wait, UserFault, Kill, filtervars
    <2>3. ASSUME NEW p \in Slot, KernelRest(p) PROVE syscall_mask[r] \subseteq syscall_mask'[r]
      BY <2>3 DEF KernelRest, Reap, WaitReap, FreeProc, Wipe, AuditWritten, filtervars,
                  PidsDistinct
    <2> QED BY <2>1, <2>2, <2>3 DEF SandboxNext, filtervars
  <1> QED BY <1>1, SandboxInvariant, SandboxRefinesProc, ProcInvariant, PTL
          DEF SandboxSpec, MaskRatchet

(* freeproc() leaves nothing of a filter in a free slot, on any path that  *)
(* frees one.                                                              *)
THEOREM Wiped == SandboxSpec => []FreeSlotWiped
  <1>1. SandboxInv => FreeSlotWiped
    BY DEF SandboxInv
  <1> QED BY <1>1, SandboxInvariant, PTL

=============================================================================
