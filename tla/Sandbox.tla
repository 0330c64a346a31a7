------------------------------ MODULE Sandbox -------------------------------
(***************************************************************************)
(* The system-call filter: syscall() of kernel/syscall.c, the calls that   *)
(* set the filter (kernel/sysproc.c) and the part of fork, wait and        *)
(* freeproc that moves filters between processes (kernel/proc.c).          *)
(*                                                                         *)
(* It composes with Proc: every step is a step of the process table with   *)
(* what the code does to the filter fields added.  A 64-bit mask is the    *)
(* set of the calls whose bit is set, so that "mask & bit" is membership   *)
(* and "(mask & old) == old" is inclusion.                                 *)
(***************************************************************************)
EXTENDS Proc

CONSTANTS
    Masks,   \* the masks programs pass to setfilter() and setfilter_child()
    Modes    \* the values programs pass to setaudit() and setstrict()

VARIABLES
    syscall_mask,        \* p->syscall_mask
    child_syscall_mask,  \* p->child_syscall_mask
    audit_enabled,       \* p->audit_enabled
    strict_mode,         \* p->strict_mode
    auditing,            \* p is inside audit_log_write()
    born,                \* history: the mask p was created with
    inherited,           \* history: the masks p's ancestors were created with
    violated             \* history: p broke its filter in strict mode

filtervars == <<syscall_mask, child_syscall_mask, audit_enabled, strict_mode,
                auditing, born, inherited, violated>>

sandboxvars == <<procvars, filtervars>>

(* The calls that differ in what the filter or the process table does with *)
(* them; "other" stands for every remaining entry of syscalls[].           *)
Calls == {"fork", "exit", "wait", "kill", "open", "exec", "unlink", "sbrk",
          "setfilter", "setfilter_child", "setaudit", "setstrict", "other"}

ASSUME MasksAssumption == Masks \subseteq SUBSET Calls
ASSUME ModesAssumption == Modes \subseteq BOOLEAN

SandboxTypeOK ==
    /\ syscall_mask \in [Slot -> SUBSET Calls]
    /\ child_syscall_mask \in [Slot -> SUBSET Calls]
    /\ audit_enabled \in [Slot -> BOOLEAN]
    /\ strict_mode \in [Slot -> BOOLEAN]
    /\ auditing \in [Slot -> BOOLEAN]
    /\ born \in [Slot -> SUBSET Calls]
    /\ inherited \in [Slot -> SUBSET Calls]
    /\ violated \in [Slot -> BOOLEAN]

SandboxInit ==
    /\ ProcInit
    /\ syscall_mask = [p \in Slot |-> {}]
    /\ child_syscall_mask = [p \in Slot |-> {}]
    /\ audit_enabled = [p \in Slot |-> FALSE]
    /\ strict_mode = [p \in Slot |-> FALSE]
    /\ auditing = [p \in Slot |-> FALSE]
    /\ born = [p \in Slot |-> {}]
    /\ inherited = [p \in Slot |-> {}]
    /\ violated = [p \in Slot |-> FALSE]

-----------------------------------------------------------------------------
(* The argument filter, per call.  An argument is abstracted to the class  *)
(* the tests of syscall() put it in: "fault" is a path fetchstr() cannot   *)
(* read, "denied" one the tests refuse.                                    *)
ArgumentClasses(call) ==
    CASE call \in {"open", "exec", "unlink"} -> {"fault", "denied", "granted"}
      [] call = "sbrk" -> {"denied", "granted"}
      [] OTHER -> {"denied"}

(* SYS_kill: pids 1 and 2 are protected.                                   *)
KillClass(target) == IF target > 2 THEN "granted" ELSE "denied"

(* syscall() runs the handler.                                             *)
Admitted(p, call, class) == call \notin syscall_mask[p] \/ class = "granted"

(* syscall() gives up on the path before it decides anything.              *)
Faulted(p, call, class) == call \in syscall_mask[p] /\ class = "fault"

Refused(p, call, class) == call \in syscall_mask[p] /\ class = "denied"

-----------------------------------------------------------------------------
(* The filter fields freeproc(q) clears.                                   *)
Wipe(q) ==
    /\ syscall_mask' = [syscall_mask EXCEPT ![q] = {}]
    /\ audit_enabled' = [audit_enabled EXCEPT ![q] = FALSE]
    /\ strict_mode' = [strict_mode EXCEPT ![q] = FALSE]
    /\ born' = [born EXCEPT ![q] = {}]
    /\ inherited' = [inherited EXCEPT ![q] = {}]
    /\ violated' = [violated EXCEPT ![q] = FALSE]
    /\ UNCHANGED auditing

(* kfork(): the mask of the child.                                         *)
ChildMask(p) ==
    IF child_syscall_mask[p] # {} THEN child_syscall_mask[p] ELSE syscall_mask[p]

Fork(p, q) ==
    /\ Admitted(p, "fork", "denied")
    /\ ForkAlloc(p, q)
    /\ syscall_mask' = [syscall_mask EXCEPT ![q] = ChildMask(p)]
    /\ child_syscall_mask' = [child_syscall_mask EXCEPT ![q] = {}, ![p] = {}]
    /\ audit_enabled' = [audit_enabled EXCEPT ![q] = audit_enabled[p]]
    /\ strict_mode' = [strict_mode EXCEPT ![q] = strict_mode[p]]
    /\ born' = [born EXCEPT ![q] = ChildMask(p)]
    /\ inherited' = [inherited EXCEPT ![q] = inherited[p] \cup born[p]]
    /\ UNCHANGED <<auditing, violated>>

(* allocproc() runs out of slots or of memory: -1, the parent untouched.   *)
ForkAllocFails(p) ==
    /\ Admitted(p, "fork", "denied")
    /\ \/ ForkNoSlot(p) /\ UNCHANGED filtervars
       \/ \E q \in Slot :
            /\ ForkFreed(p, q)
            /\ Wipe(q)
            /\ child_syscall_mask' = [child_syscall_mask EXCEPT ![q] = {}]

(* uvmcopy() runs out of memory, after child_syscall_mask has been reset.  *)
ForkCopyFails(p) ==
    /\ Admitted(p, "fork", "denied")
    /\ \E q \in Slot :
        /\ ForkFreed(p, q)
        /\ Wipe(q)
        /\ child_syscall_mask' = [child_syscall_mask EXCEPT ![q] = {}, ![p] = {}]

(* Mutant: freeproc() leaves child_syscall_mask behind.                    *)
ReapKeepsChildMask(p, q) ==
    /\ WaitReap(p, q)
    /\ Wipe(q)
    /\ UNCHANGED child_syscall_mask

Reap(p, q) ==
    /\ WaitReap(p, q)
    /\ Wipe(q)
    /\ child_syscall_mask' = [child_syscall_mask EXCEPT ![q] = {}]

-----------------------------------------------------------------------------
(* Mutant: sys_setfilter() without the superset test.                      *)
SetFilterUnchecked(p, mask) ==
    /\ Admitted(p, "setfilter", "denied")
    /\ OtherCall(p)
    /\ syscall_mask' = [syscall_mask EXCEPT ![p] = mask]
    /\ UNCHANGED <<child_syscall_mask, audit_enabled, strict_mode, auditing,
                   born, inherited, violated>>

(* sys_setfilter(): -1 and no change unless the new mask is a superset.    *)
SetFilter(p, mask) ==
    /\ Admitted(p, "setfilter", "denied")
    /\ OtherCall(p)
    /\ syscall_mask' = IF syscall_mask[p] \subseteq mask
                       THEN [syscall_mask EXCEPT ![p] = mask] ELSE syscall_mask
    /\ UNCHANGED <<child_syscall_mask, audit_enabled, strict_mode, auditing,
                   born, inherited, violated>>

(* Mutant: sys_setfilter_child() without the superset test.                *)
SetFilterChildUnchecked(p, mask) ==
    /\ Admitted(p, "setfilter_child", "denied")
    /\ OtherCall(p)
    /\ child_syscall_mask' = [child_syscall_mask EXCEPT ![p] = mask]
    /\ UNCHANGED <<syscall_mask, audit_enabled, strict_mode, auditing,
                   born, inherited, violated>>

SetFilterChild(p, mask) ==
    /\ Admitted(p, "setfilter_child", "denied")
    /\ OtherCall(p)
    /\ child_syscall_mask' = IF syscall_mask[p] \subseteq mask
                             THEN [child_syscall_mask EXCEPT ![p] = mask]
                             ELSE child_syscall_mask
    /\ UNCHANGED <<syscall_mask, audit_enabled, strict_mode, auditing,
                   born, inherited, violated>>

SetAudit(p, enable) ==
    /\ Admitted(p, "setaudit", "denied")
    /\ OtherCall(p)
    /\ audit_enabled' = [audit_enabled EXCEPT ![p] = enable]
    /\ UNCHANGED <<syscall_mask, child_syscall_mask, strict_mode, auditing,
                   born, inherited, violated>>

SetStrict(p, value) ==
    /\ Admitted(p, "setstrict", "denied")
    /\ OtherCall(p)
    /\ strict_mode' = [strict_mode EXCEPT ![p] = value]
    /\ UNCHANGED <<syscall_mask, child_syscall_mask, audit_enabled, auditing,
                   born, inherited, violated>>

(* Calls whose handlers touch neither filter nor process table.            *)
PlainCall(p, call, class) ==
    /\ Admitted(p, call, class) \/ Faulted(p, call, class)
    /\ OtherCall(p)
    /\ UNCHANGED filtervars

Exit(p) == Admitted(p, "exit", "denied") /\ SysExit(p) /\ UNCHANGED filtervars

Wait(p) == Admitted(p, "wait", "denied") /\ SysWait(p) /\ UNCHANGED filtervars

Kill(p, target) ==
    /\ Admitted(p, "kill", KillClass(target))
    /\ SysKill(p, target)
    /\ UNCHANGED filtervars

-----------------------------------------------------------------------------
(* Mutant: auditing takes the place of the kill instead of adding to it.   *)
ViolationAuditOnly(p, call, class) ==
    /\ Refused(p, call, class)
    /\ IF strict_mode[p] /\ ~audit_enabled[p] THEN KillSelf(p) ELSE OtherCall(p)
    /\ violated' = [violated EXCEPT ![p] = strict_mode[p]]
    /\ auditing' = [auditing EXCEPT ![p] = audit_enabled[p]]
    /\ UNCHANGED <<syscall_mask, child_syscall_mask, audit_enabled, strict_mode,
                   born, inherited>>

(* A refused call: killed in strict mode, -1 otherwise; audited if enabled. *)
Violation(p, call, class) ==
    /\ Refused(p, call, class)
    /\ IF strict_mode[p] THEN KillSelf(p) ELSE OtherCall(p)
    /\ violated' = [violated EXCEPT ![p] = strict_mode[p]]
    /\ auditing' = [auditing EXCEPT ![p] = audit_enabled[p]]
    /\ UNCHANGED <<syscall_mask, child_syscall_mask, audit_enabled, strict_mode,
                   born, inherited>>

(* audit_log_write() comes back from the disk; syscall() returns.          *)
AuditWritten(p) ==
    /\ At(p, "ret")
    /\ auditing[p]
    /\ auditing' = [auditing EXCEPT ![p] = FALSE]
    /\ UNCHANGED <<procvars, syscall_mask, child_syscall_mask, audit_enabled,
                   strict_mode, born, inherited, violated>>

(* An exception the kernel does not handle: usertrap() kills the process.  *)
UserFault(p) == KillSelf(p) /\ UNCHANGED filtervars

FilterCall(p) ==
    \/ \E mask \in Masks : SetFilter(p, mask) \/ SetFilterChild(p, mask)
    \/ \E on \in Modes : SetAudit(p, on) \/ SetStrict(p, on)
    \/ \E call \in {"open", "exec", "unlink", "sbrk", "other"} :
         \E class \in ArgumentClasses(call) : PlainCall(p, call, class)
    \/ \E call \in Calls \ {"kill"} :
         \E class \in ArgumentClasses(call) : Violation(p, call, class)
    \/ \E target \in Targets : Violation(p, "kill", KillClass(target))

ProcessCall(p) ==
    \/ \E q \in Slot : Fork(p, q)
    \/ ForkAllocFails(p) \/ ForkCopyFails(p)
    \/ Exit(p) \/ Wait(p) \/ UserFault(p)
    \/ \E target \in Targets : Kill(p, target)

KernelRest(p) ==
    \/ \E q \in Slot : Reap(p, q)
    \/ AuditWritten(p)
    \/ /\ ~auditing[p]
       /\ \/ EnterKilled(p) \/ Return(p)
          \/ ForkParent(p) \/ ForkRunnable(p)
          \/ ExitReparent(p) \/ ExitZombie(p)
          \/ WaitFails(p) \/ WaitDecide(p) \/ WaitSleep(p)
       /\ UNCHANGED filtervars

SandboxNext ==
    \/ /\ ~panicked
       /\ \/ \E p \in Slot : FilterCall(p) \/ ProcessCall(p) \/ KernelRest(p)
          \/ InitExitPanic /\ UNCHANGED filtervars
    \/ Halted /\ UNCHANGED filtervars

SandboxSpec == SandboxInit /\ [][SandboxNext]_sandboxvars

-----------------------------------------------------------------------------
(* The ratchet (sysproc.c: "It can never CLEAR a bit that is already set"): *)
(* as long as a slot holds the same process, its mask only grows.          *)
MaskRatchet ==
    [][\A p \in Slot : state[p] # "UNUSED" /\ pid'[p] = pid[p]
                          => syscall_mask[p] \subseteq syscall_mask'[p]]_sandboxvars

(* What inheritance guarantees along a whole family tree: every call that  *)
(* was blocked in a process, or in any of its ancestors, when that one was *)
(* created stays blocked in it, whatever masks setfilter_child() and       *)
(* setfilter() have passed around in between.                              *)
LineageContained ==
    \A p \in Slot : state[p] # "UNUSED" => inherited[p] \cup born[p] \subseteq syscall_mask[p]

(* A process that broke its filter in strict mode never gets back to user  *)
(* space nor to another handler: it is killed, and audited first.          *)
StrictViolatorStopped ==
    \A p \in Slot : violated[p] =>
        /\ killed[p]
        /\ pc[p] \in {"ret", "exit", "exit_zombie", "none"}
        /\ auditing[p] => pc[p] = "ret"

(* freeproc() and allocproc(): nothing of a dead process's filter is left  *)
(* in its slot for the next process to start with.                         *)
FreeSlotWiped ==
    \A p \in Slot : state[p] = "UNUSED" =>
        /\ syscall_mask[p] = {} /\ child_syscall_mask[p] = {}
        /\ ~audit_enabled[p] /\ ~strict_mode[p] /\ ~auditing[p]

(* The inductive invariant behind these.  The first part is what makes     *)
(* LineageContained inductive: a mask waiting for the next child was       *)
(* checked against a mask that already held everything p was born with.    *)
PendingMaskInv ==
    \A p \in Slot : \/ child_syscall_mask[p] = {}
                    \/ inherited[p] \cup born[p] \subseteq child_syscall_mask[p]

(* History and audit in progress belong to processes that have run.        *)
AuditInv ==
    \A p \in Slot :
        /\ auditing[p] => At(p, "ret")
        /\ state[p] \in {"UNUSED", "USED"} => ~violated[p]
        /\ state[p] = "UNUSED" => inherited[p] = {} /\ born[p] = {}

SandboxInv ==
    /\ SandboxTypeOK /\ LineageContained /\ PendingMaskInv
    /\ StrictViolatorStopped /\ FreeSlotWiped /\ AuditInv

(* sysproc.c: "Parent cannot spawn a child that is less restricted than    *)
(* itself": a fork creates no process with a mask smaller than its         *)
(* parent's at that moment.                                                *)
ChildAtLeastAsRestricted ==
    [][\A p, q \in Slot : state[q] = "UNUSED" /\ np'[p] = q
                             => syscall_mask[p] \subseteq syscall_mask'[q]]_sandboxvars

=============================================================================
