# TLA+ verification of xv6-riscv with a system-call filter

The repository is the xv6-riscv teaching kernel extended by a per-process
system-call filter: a 64-bit mask of blocked calls that can only grow, a mask for
the next child, argument tests for some calls, a strict mode that kills on a
violation, and an audit log kept in a file.  This directory holds TLA+ modules
translated from the source, the TLC configurations that check them on small
instances, and proofs of the main results for every instance, checked by TLAPS.

    tlc -workers 2 -config Proc.cfg MCProc     # one run
    tlapm SandboxProofs.tla                    # the proofs of one module

`PROJECT.json` lists the components, the runs, the mutations of the code each
property notices, the source lines behind every definition, the hazards and the
theorems.

## 1. The system

| Part | Source | Module |
|---|---|---|
| Process table: fork, exit, wait, kill | `kernel/proc.c` | `Proc` |
| System-call filter | `kernel/syscall.c`, `sysproc.c`, `proc.c` | `Sandbox` |
| Spin locks, scheduler, sleep and wakeup, timer | `kernel/spinlock.c`, `proc.c`, `swtch.S`, `trap.c` | `Scheduler` |
| Physical and virtual memory, exec, sbrk | `kernel/kalloc.c`, `vm.c`, `exec.c`, `trap.c` | `Memory` |
| Disk driver | `kernel/virtio_disk.c` | `VirtioDisk` |
| Buffer cache, sleep locks | `kernel/bio.c`, `sleeplock.c` | `BufferCache`, `BlockStore` |
| Write-ahead log | `kernel/log.c` | `Log`, `AtomicDisk` |
| Inodes, directories, file calls, audit record | `kernel/fs.c`, `file.c`, `sysfile.c` | `FileSystem` |
| Pipes | `kernel/pipe.c` | `Pipe`, `ByteQueue` |
| Console, UART, PLIC, kernel messages | `kernel/console.c`, `uart.c`, `plic.c`, `printf.c` | `Console`, `LineQueue` |
| Shell | `user/sh.c` | `Shell`, `ShellParser` |
| User allocator | `user/umalloc.c` | `Malloc` |
| Image builder | `mkfs/mkfs.c` | `Mkfs` |

**How the parts fit together.**  `Sandbox` is built from the steps of `Proc`, so that
what holds of the process table holds with the filter.
`Scheduler` shows what the others take for granted when they say that a process
sleeps: sleep() lets go of its lock and loses no wakeup.  The storage modules form a
stack in which each promises what the next assumes: `VirtioDisk` that a call returns
with its own transfer made, `BufferCache` one memory with a lock per block
(`BlockStore`), `Log` atomic transactions (`AtomicDisk`), `FileSystem` references,
link counts and blocks on top of those.  `Pipe` promises a bounded queue of bytes
(`ByteQueue`), `Console` a queue of edited lines (`LineQueue`).  `Shell` uses fork,
pipe, dup, wait and exec as the kernel provides them.

**What is hard here.**  Handlers of different processes interleave wherever a lock is
let go: kfork() publishes a half-made child, kwait() decides and then sleeps, kexit()
rearranges the family tree, iput() frees an inode without itable.lock.  Filters move
between processes at fork, are stored for later (`child_syscall_mask`) and must not
survive in a slot.  The log groups operations of several threads into one
transaction, sleeps for space, and can lose power between any two disk writes,
recovery included.  Rings (pipe, console, virtio) have counters that wrap and
sleepers on both sides.  swtch() hands p->lock from one thread to another.  Memory
can run out at any call of kalloc().  `PROJECT.json` lists each hazard at its line
with the properties that watch it; the two without a property say why.

## 2. Modules

**Proc.**  A process is a slot of `proc[]`: the fields of `struct proc` that matter to
fork, exit, wait and kill, the counter of allocpid(), the holder of `wait_lock`, and
for each slot the place of its kernel thread (`pc`) and the local `np` of its kfork().
A handler is one action per critical section:

| Action | Code |
|---|---|
| `EnterKilled`, `Enter`, `Return` | usertrap(): the two tests of `killed` around syscall() |
| `ForkAlloc`, `ForkNoSlot`, `ForkFreed` | allocproc() and kfork() up to `release(&np->lock)`; its failures |
| `ForkParent`, `ForkRunnable` | kfork()'s two later critical sections |
| `ExitReparent`, `ExitZombie`, `InitExitPanic` | kexit() from `acquire(&wait_lock)` on; `panic("init exiting")` |
| `WaitReap`, `WaitFails`, `WaitDecide`, `WaitSleep` | kwait()'s scan, its two ways out, and sleep() under `wait_lock` |
| `SysKill`, `KillSelf` | kkill(), setkilled() |

RUNNABLE and RUNNING are one state here, and slots have no order (allocproc() and
kkill() take the first match, the model any match).

**Sandbox** EXTENDS `Proc` and conjoins to each of its actions what the code does to
the filter fields.  A mask is the set of calls whose bit is set.  An argument is one
of three classes, by what the tests of syscall() make of it: the path cannot be read,
the test refuses it, or lets it through.  `auditing` marks a process inside
audit_log_write(), which sleeps on the disk.  Three history variables (`born`,
`inherited`, `violated`) exist for the properties only.

**Scheduler** has several CPUs, each running its scheduler thread or a process, with
`noff`, `intena` and the interrupt-enable bit, the spin locks p->lock and `tickslock`,
and a timer that interrupts wherever interrupts are on.  A step is the code between
two points where another CPU or an interrupt can see a difference.  The sleepers are
callers of sys_pause(), the waker is clockintr(), and processes may be killed.

**Memory** has the free list, one page table per process (with its page-table pages:
a leaf directory serves `LEAF` user pages, so that growing can need a page for the
table as well), p->sz and the contents of pages, as far as fork has to copy them.
Addresses in program headers wrap at `WORD`, which kexec() tests for.  The functions
of vm.c take and return a record of what they work on; the parameter `k` says how
many of their calls of kalloc() find a page.

**VirtioDisk** is the driver and the device.  A step of the driver is what
virtio_disk_rw() does between two sleeps, a step of the interrupt handler one turn of
its loop.  The device (external to the repository) takes chains in order, completes
them in any order and raises its interrupt late.  kkill() may wake a sleeper early.

**BufferCache** has the critical sections of `bcache.lock` and of the buffers' sleep
locks, with the LRU list as a sequence, and the disk below.  A thread holds at most
`MaxHeld` buffers at a time; the log may pin any number.  bget() panics when a miss
finds no buffer with a reference count of 0 (`BGetPanic`), and nothing moves after.
**BlockStore** is one memory with a lock per block: bread() returns what was last
written.

**Log** has the disk (home blocks, log blocks, header), the cache as far as the log
depends on it (a pinned block keeps its buffer, any other may be recycled), and
log.c's own state.  A step is one critical section of `log.lock` or one disk write.
`Crash` can come between any two steps, in recovery too, and loses everything but the
disk.  **AtomicDisk** is the promise: writes between begin_op() and end_op() become
durable together, when no operation is under way, and a crash returns to the last
such point.  `Recovered` (what recovery would make of the disk now) and `Visible`
(what bread() returns) are the refinement mapping.  `OpBlocks < MAXOPBLOCKS` is an
assumption about the callers: log_write() tests for a full header before it looks for
an absorbed block, so an operation that used all its MAXOPBLOCKS slots and then wrote
one of those blocks again could reach the panic.  filewrite() keeps one slot in
reserve for that reason.

**FileSystem.**  The disk is `dinode`, `entries` and `bitmap`; the inode table `ref`,
`valid`, `mem`, `holder`; the processes have a current directory and one open file.
`th[t]` holds the locals of a call (`dp`, `ip`, the rest of the path) and `todo`, the
iunlock() and iput() calls the code makes one after the other before it goes on.

| Action | Code |
|---|---|
| `Begin`, `Walk`, `NoParent` | namex(), one turn of its loop per step |
| `CreateExists`, `Fill` | create(): the name exists; links and entries, or the way out on a full disk |
| `IAlloc`, `IAllocGet` | ialloc(): the mark on disk, with brelse(); then iget() |
| `OpenLock`, `OpenFile` | sys_open(), O_TRUNC included |
| `UnlinkFind`, `UnlinkEntry`, `UnlinkInode` | sys_unlink() between its ilock() calls |
| `LinkCount`, `LinkEntry`, `LinkBad` | sys_link(): nlink++ first, the entry later, or nlink-- |
| `Chdir`, `Audit`, `FileWrite`, `Close`, `End` | sys_chdir(), audit_log_write(), filewrite(), fileclose(), end_op() |
| `IPut`, `IPutLock`, `IPutFree`, `IPutForget`, `IUnlock` | iput() and its window without itable.lock; iunlock() |
| `Crash`, `IReclaim` | power loss; ireclaim() at boot, one inode per transaction |
| `Panic` | "ilock: no type" and "unlink: nlink < 1": the thread stops where it is |

`Follow` is the iget() of dirlookup().  It also keeps a history, `strayed`: whether a
".." has ever led a thread to an inode without links.  That happens when a directory
and then its parent are removed under a process that is in them, and nearly all that
holds of the file system holds until then (section 4).  `Ready` bounds the runs
there: after a stray the calls under way are followed to their ends, and no new ones
are made.

`AtomicDisk` justifies the crash: the disk comes back as of the last moment without
an operation under way, and all else is lost, so a crash during operations leads to
the states a crash before them leads to.  A file or directory has one block; a
directory may need another, so dirlink() may fail whenever the disk is full.

**Pipe.**  A step is one byte copied under `pi->lock`, or what happens between two
such steps: entering the call, taking the lock, the test of killed() and the sleep,
the return, a close, a kill.  `nread` and `nwrite` wrap at `UintSize`.  **ByteQueue**
is a bounded FIFO; the mapping reads the bytes between the counters out of the ring.

**Console.**  consoleread() and consoleintr() hold `cons.lock` and are a step each;
the transmit side of the UART is a step per access, because device, echo and printf()
do not take `tx_lock`.  A printf() on another hart (syscall() reports refused calls
with it) is two steps, its look at LSR and its write to THR; which character it
writes is left out.  r, w and e wrap at `UINT`.  **LineQueue** is the promise:
finished input in order, a line being edited behind it, and reads that stop at the
end of a line.

**ShellParser** is the recursive-descent parser of sh.c over tokens, checked against
a grammar; **Shell** runs the trees: one step per system call.  **Malloc** is the
circular free list of umalloc.c.  **Mkfs** is the layout of the image and the
appending of files to it.  iappend() does not compare a block number with FSSIZE; it
ends at the rsect() of a block past the end of the image, which dies (`Die`), as do
a file of more than MAXFILE blocks and a bitmap of more than one block.

## 3. Runs

| Run | Instance | Checks |
|---|---|---|
| `proc` | 3 slots, 4 pids, kill of pids 0..4, fair | `ProcInv` (pids, family tree, sleepers, embryos), `KilledDies`, `OrphanReaped` |
| `sandbox` | 3 slots, 3 pids, 3 masks, both modes, kill | what a filter promises (`LineageContained`, `StrictViolatorStopped`, `MaskRatchet`) and its bookkeeping (`SandboxInv`) |
| `sched` | 2 CPUs, 2 processes that pause and are killed, fair | no panic of spinlock.c or sched() (`SchedInv`), `NoLostWakeup`, `PauseReturns` |
| `memory` | 18 frames, 2 processes, 4 user pages in 2 leaf directories, 6 programs | every frame has one owner, page tables agree with sizes, fork copies, the sbrk quota of the filter |
| `disk` | cache: 2 threads, 2 buffers, 4 blocks; driver: 3 requests, 8 descriptors, indexes modulo 16 | references, who may sleep, when bget() may panic (`PanicMeansFull`), `StoreSpec`; descriptors, rings, `ReturnsTransferred` |
| `log` | 3 threads, 2 blocks, 7 log blocks, 3 per operation, fair | panics, sleepers, pins (`LogInv`), copies of blocks (`CopiesKept`), `AtomicSpec`, `SleeperWakes` |
| `files` | 2 threads, 3 inodes, 3 blocks, 2 names, paths of 1 and 2 elements and ".." | references, links and blocks (`FsInv`), when a panic may come (`NoInodePanic`), lock order, what is freed (`FreedUnused`) |
| `pipe` | 2 readers, 1 writer, ring of 2, counters modulo 4, calls of 0 and 3 bytes, fair | who may sleep (`PipeInv`), `Fifo`, `ReaderSeesEnd` |
| `terminal` | console: a reader, a writer, a printf(), ring of 3, counters modulo 6; shell: 11 scripts, 6 processes; malloc: a heap of 10 units; mkfs: up to 3 files, image of 24 blocks; fair | console ring (`ConsoleInv`), `LineQueueSpec`, `EofEndsOneRead`, `WriterReturns`; `ShellInv`, `ParserAgrees`, `PromptReturns`; `MallocInv`; `MkfsInv` |
| `born_killed` | 2 slots | finds a process born killed after kill(0) |
| `child_mask_stale` | 2 slots | finds a child less restricted than its parent |
| `orphan_leak` | as `files` | finds an inode iput() forgets to free |

Modules that share no state are explored in one run (`disk`, `terminal`): a variable
chosen in the initial state says which of them moves.  `VIEW` leaves out variables
that do not move, and names of blocks and pages that the properties do not tell
apart.

**Bounds.**  Three slots give init, a parent and a child, and slots are reused before
`MaxPid`, which bounds the number of processes ever created, is reached.  In
`sandbox`, `Explored` cuts the product of three processes and the modes: three
processes live together with the modes off, which is what a lineage of three needs,
and the modes, kills and reuse of slots are explored with two.  In `log`, seven
blocks hold two reservations of three and not three of them, so one thread sleeps
while two write; two writes per operation to two blocks give absorbed and new writes
in one transaction.  In `pipe`, a call of three bytes has to wrap the ring of two and
the counters modulo four in the middle; in the console a ring of three wraps counters
modulo six.  In `disk`, four blocks in two buffers are recycled, two threads and the
pins together use them all up, so that the panic is reached, and three requests of
three descriptors each do not fit in eight, so one waits.  In `files`, three inodes
are the root, a directory and a file or directory in it, all allocated, freed and
allocated again; three blocks can run out.  One thread builds and moves about, the
other takes apart, makes a directory and audits; `Calls` lists the calls of each,
with a current directory two levels deep, so that a thread does stray.  In `memory`,
18 frames are enough for two processes with their page-table pages and too few for
all they may ask for, so every kalloc() both succeeds and fails; the fourth user page
needs a directory of its own, so vmfault() also fails after it has its page.  The
programs are well-formed ones and ones whose headers, file or arguments are wrong,
one of them with an end that wraps.  In `terminal`, the scripts have every kind of
node of the parse tree, and forks may fail; `ParserAgrees` compares the parser with
the grammar on all of them, malformed lines included.  The image of 24 blocks is
filled exactly by some lists of files and too small for others.  printf() comes with
the output half of the console only: the input half does not read what it changes.

**Fairness.**  In `proc` every kernel thread keeps taking steps (the timer and the
scheduler's round over `proc[]`), contenders for `wait_lock` get it in the end (the
hardware's arbitration of the atomic swap in acquire(): strong fairness), and init
calls wait(0) for ever (`user/init.c`).  User programs owe nothing.  `sched` assumes
less: a CPU keeps executing its instructions, contenders for a spin lock get it in
the end, the clock of CPU 0 ticks; that a runnable process runs is then a
consequence.  In `log` operations end, commits and recovery proceed, and an awake
thread in begin_op() tests again.  In `pipe` a process inside a call goes on, and
gets `pi->lock` in the end (strong fairness).  In `terminal` processes inside a call,
the interrupt handler, a printf() that has begun and the transmitter go on;
`WriterReturns` is stated for a keyboard and a kernel that fall silent, because
echoes and messages (uartputc_sync()) take the transmitter away from a writer as long
as they come.  The shell and its children go on.  `sandbox`, `memory`, `disk` and
`files` check no liveness: there the invariants say that whoever sleeps has a reason
to, and that threads do not wait for each other in a circle.

**Deadlock.**  A state in which nobody can move is an error in every run but `pipe`,
where every process may be done with the pipe.  (`disk` and `terminal` stand still
after a panic and after mkfs has ended.)  In `files` a crash is always possible once
the calls are done, which is why `NoLockCycle` is stated.

## 4. Findings

* `child_mask_stale`: sysproc.c:157 promises that a parent cannot spawn a child
  less restricted than itself.  The test is made when the mask is stored; a later
  setfilter() is not taken into account by kfork().  What does hold, and is
  proved, is `LineageContained`.
* `born_killed`: kkill() compares pids only; pid 0 matches a free slot, and
  allocproc() does not clear `killed`.
* `orphan_leak`: fs.c:333 says iput() frees an inode without links when the last
  reference goes.  iput() frees the inode, lets others in, and drops its reference
  at the end without a second look.  If ialloc() hands the inode out in between and
  create() fails on a full disk, create()'s iput() sees two references and the other
  iput() drops the last one: the inode stays allocated until ireclaim() at the next
  boot.

Smaller observations, which are in the models and in the statements of the
properties:

* kfork() resets the child mask before uvmcopy() can fail, so a failed fork loses it
  (proc.c:288, whose comment says "after use").
* The ".." of a removed directory is not counted as a link.  When the parent has been
  removed as well, a process whose current directory it was can follow it to a freed
  inode, where ilock() panics, or to one that has been handed out again.  The second
  case reaches into ialloc(): it marks the inode on disk, lets go of the block and
  only then calls iget() (fs.c:212-214).  A thread that strays to the inode in that
  window and lets go of it again frees it, since its nlink is still 0, and the
  create() that is about to fill it panics, or shares it with the next create().
  fs.c:197 speaks of "an unlocked but allocated and referenced inode".  `NoInodePanic`
  says that no panic comes without such a stray, and `FsInv` and `FreedUnused` hold up
  to one.
* bget() can run out of buffers: NBUF and LOGBLOCKS are both 30 (param.h), so the pins
  of a large transaction leave few buffers for the readers, of which there may be as
  many as processes, and for write_log() itself.  What holds is `PanicMeansFull`: the
  panic comes only when every buffer is pinned or in the hands of a thread, never
  because a reference was lost.
* pipewrite() of a killed process returns -1 without the wakeup() at its end
  (pipe.c:84-87): readers may sleep over the bytes it has put, until another writer
  comes or the last one closes.  `PipeInv` says that this needs a killed writer.
* uartwrite() does not look at LSR: with an echo and a printf() the transmitter can be
  handed three characters before one is out.  `ConsoleInv` has that as the most.
* create() does not refuse a directory that has been removed while it was somebody's
  current directory, and what is created there keeps its link count when the
  directory is freed.  `LinksCounted` is therefore an inequality.
* mkfs rounds the size of the root directory up to a block (mkfs.c:168), and
  dirlookup() reads the zeroes behind the last entry as free entries.
* allocpid() does not guard against the wrap of `nextpid`; the models bound it.

## 5. Proofs

Every theorem holds for all values of the constants that satisfy the named
assumptions of the modules (sizes are positive, counters wrap at a multiple of the
ring, nobody is called "nobody", and the like; TLC evaluates them in each run).

**SandboxProofs.**  `ProcInv` is inductive by itself.  Its parts are needed together:
who holds `wait_lock` (`LockInv`) bounds where a kexit() or kwait() can be, the tree
(`TreeInv`) says that a parent is alive while its child exists, `ForkInv` that each
half-made slot belongs to one kfork(), and from these follows `WaitInv`: whoever
sleeps in kwait() has children and none of them is a zombie.  One lemma per action
shows each part kept.  For the filter, `SandboxInv` adds `PendingMaskInv` to what is
wanted: the stored child mask never lacks what its owner was created with, which is
what setfilter_child()'s test is for, and without it `LineageContained` does not
survive fork().  `Lineage`, `Strict`, `Wiped` follow; `Ratchet` is an action property
from the same invariant.  Since the filter's steps are steps of `Proc`, `ProcInv` is
available in them.

**LogProofs.**  `LogInv` counts: every operation under way has a reservation, the
blocks it has added to the header are at most its share, and the rest of its share
still fits (`Credits`, a sum over the threads).  From it neither log_write() nor
end_op() panics and nobody sleeps in begin_op() while the log is idle.  `CopiesKept`
says where the newest copy of a block is in each phase of a commit, of recovery and
of normal work; with it every step, crashes included, is a step or a stutter of
`AtomicDisk` (`LogIsAtomic`).

**RingProofs.**  For the pipe, `PipeInv` ties sleepers to the state of the ring;
`PipeIsFifo` maps the ring to the queue, and its work is the arithmetic of counters
that wrap at a multiple of the ring's size.  For the console, `ConsoleCore` says that
r, w and e are in order within one ring, that the line being edited has no end in it
and that a reader sleeps only over nothing; `Filled` counts the characters in the
transmitter together with the one a printf() is about to write.
`ConsoleIsLineQueue` maps the ring to the queue of lines.

**BufferProofs.**  `BufInv` says that a reference count is the number of threads that
use the buffer plus its pin, that no two buffers have one block, and that a valid
buffer that nobody holds is what is on disk or pinned.  `BufRefinesStore` is the
refinement of `BlockStore`.  `PanicOnlyWhenFull` counts: each thread uses at most
`MaxHeld` buffers, so when none has a reference count of 0, the buffers, each pinned
or used, are fewer than the threads may use plus the pins.

**VirtioProofs.**  `DescsAccountedFor` and `RequestTracked` together are inductive: each
request is in exactly one of the places between the driver, the available ring, the
device and the used ring; a pigeonhole argument bounds the requests by the
descriptors, which keeps the 16-bit indices apart although they wrap.
`TransferInvariant` follows for every return of virtio_disk_rw().

**SchedulerSteps, SchedulerSwitch, SchedulerProofs.**  The inductive invariant says for
each CPU which thread runs on it, which spin locks it holds and that `noff` counts
them, for each process where it is (`PlaceOfProcess`), and that no sleeper has missed
its wakeup (`NoLostWakeup`).  The delicate part is the switch, where p->lock is taken
by one thread and released by another, and `intena` is restored on the CPU the thread
returns on.

Only model-checked: all liveness (`KilledDies`, `OrphanReaped`, `SleeperWakes`,
`ReaderSeesEnd`, `PauseReturns`, `WriterReturns`, `PromptReturns`), which the prover
does not do; `EofEndsOneRead`; `Memory` and `Malloc`, whose operations are folds and
searches over lists; `Shell`, `ShellParser` and `Mkfs`, with recursive definitions or
finite inputs; and `FileSystem`.

## 6. Not modelled

* Boot, the trampoline and register saving, `string.c`, the text of messages and of
  audit records, and the programs under `user/` other than the shell, init's loop and
  the allocator (the filter's command-line tools are straight-line callers).
* File system: indirect blocks and offsets of bmap(), readi() and writei(); the
  limits NINODE, NFILE and NOFILE, except that filealloc() or fdalloc() may fail in
  any open(); mknod, dup, fstat and the sharing of an open file after fork().
* Memory: the kernel's own page table; the permissions of a page beyond user, write
  and execute; the conversion of sbrk()'s argument to int (umalloc.c hands it an
  unsigned number of bytes: `Malloc` has requests below 2^31 bytes).
* Shell: nulterminate() and the characters of a token; the effect of the programs it
  starts beyond their end and their use of the pipe.
* Console: the bytes of an echo are one, so that the three of a backspace count once;
  panic(), after which printf() takes no lock.
* Weak memory: an interleaving is sequentially consistent; acquire() and release()
  have their fences, and the few flags read without a lock (`panicked`, `started`)
  are not modelled.

## 7. Where more could be done

A bounded inode table (iget() panics at NINODE entries), mkfs and the kernel's view of
the same image in one module, and the invariants of `FileSystem` as theorems.
