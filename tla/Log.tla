-------------------------------- MODULE Log ---------------------------------
(***************************************************************************)
(* The write-ahead log of kernel/log.c with the parts of the buffer cache  *)
(* it relies on (pinned buffers stay, others may be recycled) and with     *)
(* crashes at every disk write.  One step per disk write, and per critical *)
(* section of log.lock.                                                    *)
(***************************************************************************)
EXTENDS Naturals, Sequences, FiniteSets

CONSTANTS
    Thread,       \* the processes that make file-system calls
    Block,        \* home block numbers
    Val,          \* block contents
    Blank,        \* the content mkfs leaves
    NotCached,    \* "no buffer holds this block"
    MAXOPBLOCKS,
    LOGBLOCKS,
    OpBlocks      \* how many blocks an operation really adds to the log

ASSUME ValAssumption == Blank \in Val /\ NotCached \notin Val
ASSUME SizeAssumption ==
    /\ MAXOPBLOCKS \in Nat /\ LOGBLOCKS \in Nat /\ OpBlocks \in Nat
    /\ MAXOPBLOCKS <= LOGBLOCKS
    /\ OpBlocks < MAXOPBLOCKS
ASSUME ThreadAssumption == IsFiniteSet(Thread)

VARIABLES
    disk,         \* home blocks on disk
    dlog,         \* log data blocks on disk
    dhead,        \* log header on disk: the block numbers, n of them
    cache,        \* buffer contents
    pinned,       \* blocks whose buffer bpin() holds
    lh,           \* log.lh: block[0..n-1]
    outstanding,  \* log.outstanding
    committing,   \* log.committing
    op,           \* where each thread is
    written,      \* blocks the thread's operation has added to the log
    phase,        \* where commit(), or recovery, is
    tail          \* the loop variable of write_log() and install_trans()

diskvars == <<disk, dlog, dhead>>
memvars == <<lh, outstanding, committing, op, written>>
logvars == <<diskvars, cache, pinned, memvars, phase, tail>>

OpStates == {"idle", "begin", "asleep", "running", "commit"}

Phases == {"boot", "recover", "run", "write_log", "write_head", "install", "finish"}

LogTypeOK ==
    /\ disk \in [Block -> Val]
    /\ dlog \in [1 .. LOGBLOCKS -> Val]
    /\ dhead \in Seq(Block)
    /\ cache \in [Block -> Val \cup {NotCached}]
    /\ pinned \in SUBSET Block
    /\ lh \in Seq(Block) /\ Len(lh) <= LOGBLOCKS
    /\ outstanding \in Nat
    /\ committing \in BOOLEAN
    /\ op \in [Thread -> OpStates]
    /\ written \in [Thread -> Nat]
    /\ phase \in Phases
    /\ tail \in Nat

LogInit ==
    /\ disk = [b \in Block |-> Blank]
    /\ dlog = [i \in 1 .. LOGBLOCKS |-> Blank]
    /\ dhead = <<>>
    /\ cache = [b \in Block |-> NotCached]
    /\ pinned = {}
    /\ lh = <<>>
    /\ outstanding = 0
    /\ committing = FALSE
    /\ op = [p \in Thread |-> "idle"]
    /\ written = [p \in Thread |-> 0]
    /\ phase = "boot"
    /\ tail = 0

-----------------------------------------------------------------------------
InLog(b) == \E i \in 1 .. Len(lh) : lh[i] = b

(* wakeup(&log): every sleeper of begin_op() tests its conditions again.   *)
WakeAll(ops) == [p \in Thread |-> IF ops[p] = "asleep" THEN "begin" ELSE ops[p]]

Up == phase \notin {"boot", "recover"}

MustWait == committing \/ Len(lh) + (outstanding + 1) * MAXOPBLOCKS > LOGBLOCKS

BeginSleep(p) ==
    /\ Up
    /\ op[p] \in {"idle", "begin"}
    /\ MustWait
    /\ op' = [op EXCEPT ![p] = "asleep"]
    /\ UNCHANGED <<diskvars, cache, pinned, lh, outstanding, committing, written, phase, tail>>

BeginOp(p) ==
    /\ Up
    /\ op[p] \in {"idle", "begin"}
    /\ ~MustWait
    /\ op' = [op EXCEPT ![p] = "running"]
    /\ outstanding' = outstanding + 1
    /\ written' = [written EXCEPT ![p] = 0]
    /\ UNCHANGED <<diskvars, cache, pinned, lh, committing, phase, tail>>

(* What bread(b) returns.                                                  *)
Contents(b) == IF cache[b] = NotCached THEN disk[b] ELSE cache[b]

(* bread() of a block that has no buffer, and bget() recycling the buffer  *)
(* of a block nobody uses.                                                 *)
Load(b) ==
    /\ Up
    /\ cache[b] = NotCached
    /\ cache' = [cache EXCEPT ![b] = Contents(b)]
    /\ UNCHANGED <<diskvars, pinned, memvars, phase, tail>>

Recycle(b) ==
    /\ Up
    /\ b \notin pinned
    /\ cache[b] # NotCached
    /\ cache' = [cache EXCEPT ![b] = NotCached]
    /\ UNCHANGED <<diskvars, pinned, memvars, phase, tail>>

(* An operation changes a buffer it holds and calls log_write().           *)
LogWrite(p, b, v) ==
    /\ op[p] = "running"
    /\ Len(lh) < LOGBLOCKS /\ outstanding >= 1
    /\ cache' = [cache EXCEPT ![b] = v]
    /\ \/ InLog(b) /\ UNCHANGED <<lh, pinned, written>>
       \/ /\ ~InLog(b)
          /\ written[p] < OpBlocks
          /\ lh' = Append(lh, b)
          /\ pinned' = pinned \cup {b}
          /\ written' = [written EXCEPT ![p] = @ + 1]
    /\ UNCHANGED <<diskvars, outstanding, committing, op, phase, tail>>

(* end_op() of an operation that is not the last one.                      *)
EndOp(p) ==
    /\ op[p] = "running"
    /\ outstanding # 1
    /\ outstanding' = outstanding - 1
    /\ op' = WakeAll([op EXCEPT ![p] = "idle"])
    /\ UNCHANGED <<diskvars, cache, pinned, lh, committing, written, phase, tail>>

(* end_op() of the last one: this thread commits, if there is anything to. *)
EndLastOp(p) ==
    /\ op[p] = "running"
    /\ outstanding = 1
    /\ outstanding' = 0
    /\ committing' = TRUE
    /\ op' = [op EXCEPT ![p] = "commit"]
    /\ phase' = IF Len(lh) > 0 THEN "write_log" ELSE "finish"
    /\ tail' = 0
    /\ UNCHANGED <<diskvars, cache, pinned, lh, written>>

-----------------------------------------------------------------------------
(* Mutant: the header is written after the first block.                    *)
WriteLogFirstOnly ==
    /\ phase = "write_log"
    /\ dlog' = [dlog EXCEPT ![tail + 1] = Contents(lh[tail + 1])]
    /\ cache' = [cache EXCEPT ![lh[tail + 1]] = Contents(lh[tail + 1])]
    /\ tail' = tail + 1
    /\ phase' = "write_head"
    /\ UNCHANGED <<disk, dhead, pinned, memvars>>

(* commit(), one disk write at a time, without log.lock.                   *)
WriteLog ==
    /\ phase = "write_log"
    /\ dlog' = [dlog EXCEPT ![tail + 1] = Contents(lh[tail + 1])]
    /\ cache' = [cache EXCEPT ![lh[tail + 1]] = Contents(lh[tail + 1])]
    /\ tail' = tail + 1
    /\ phase' = IF tail' = Len(lh) THEN "write_head" ELSE phase
    /\ UNCHANGED <<disk, dhead, pinned, memvars>>

WriteHead ==
    /\ phase = "write_head"
    /\ dhead' = lh
    /\ phase' = "install"
    /\ tail' = 0
    /\ UNCHANGED <<disk, dlog, cache, pinned, memvars>>

(* The body of the loop of install_trans(): disk and buffer get the value. *)
InstallBlock ==
    /\ tail < Len(lh)
    /\ disk' = [disk EXCEPT ![lh[tail + 1]] = dlog[tail + 1]]
    /\ cache' = [cache EXCEPT ![lh[tail + 1]] = dlog[tail + 1]]
    /\ tail' = tail + 1

(* Mutant: install_trans() without bunpin().                               *)
InstallKeepsPin ==
    /\ phase = "install"
    /\ InstallBlock
    /\ UNCHANGED <<dlog, dhead, pinned, memvars, phase>>

Install ==
    /\ phase = "install"
    /\ InstallBlock
    /\ pinned' = pinned \ {lh[tail + 1]}
    /\ UNCHANGED <<dlog, dhead, memvars, phase>>

(* Mutant: commit() forgets log.lh.n = 0.                                  *)
ClearHeadKeepsLog ==
    /\ phase = "install"
    /\ tail = Len(lh)
    /\ dhead' = <<>>
    /\ phase' = "finish"
    /\ UNCHANGED <<disk, dlog, cache, pinned, memvars, tail>>

(* log.lh.n = 0 and the second write_head().                               *)
ClearHead ==
    /\ phase = "install"
    /\ tail = Len(lh)
    /\ lh' = <<>>
    /\ dhead' = <<>>
    /\ phase' = "finish"
    /\ UNCHANGED <<disk, dlog, cache, pinned, outstanding, committing, op, written, tail>>

(* Mutant: end_op() does not wake the sleepers after the commit.           *)
CommitDoneSilent(p) ==
    /\ phase = "finish"
    /\ op[p] = "commit"
    /\ committing' = FALSE
    /\ op' = [op EXCEPT ![p] = "idle"]
    /\ phase' = "run"
    /\ tail' = 0
    /\ UNCHANGED <<diskvars, cache, pinned, lh, outstanding, written>>

(* The end of end_op(), after commit().                                    *)
CommitDone(p) ==
    /\ phase = "finish"
    /\ op[p] = "commit"
    /\ committing' = FALSE
    /\ op' = WakeAll([op EXCEPT ![p] = "idle"])
    /\ phase' = "run"
    /\ tail' = 0
    /\ UNCHANGED <<diskvars, cache, pinned, lh, outstanding, written>>

-----------------------------------------------------------------------------
(* The machine stops: only the disk survives.                              *)
Crash ==
    /\ cache' = [b \in Block |-> NotCached]
    /\ pinned' = {}
    /\ lh' = <<>>
    /\ outstanding' = 0
    /\ committing' = FALSE
    /\ op' = [p \in Thread |-> "idle"]
    /\ written' = [p \in Thread |-> 0]
    /\ phase' = "boot"
    /\ tail' = 0
    /\ UNCHANGED diskvars

ReadHead ==
    /\ phase = "boot"
    /\ lh' = dhead
    /\ phase' = "recover"
    /\ tail' = 0
    /\ UNCHANGED <<diskvars, cache, pinned, outstanding, committing, op, written>>

RecoverInstall ==
    /\ phase = "recover"
    /\ InstallBlock
    /\ UNCHANGED <<dlog, dhead, pinned, memvars, phase>>

RecoverClear ==
    /\ phase = "recover"
    /\ tail = Len(lh)
    /\ lh' = <<>>
    /\ dhead' = <<>>
    /\ phase' = "run"
    /\ tail' = 0
    /\ UNCHANGED <<disk, dlog, cache, pinned, outstanding, committing, op, written>>

-----------------------------------------------------------------------------
CommitStep == WriteLog \/ WriteHead \/ Install \/ ClearHead \/ (\E p \in Thread : CommitDone(p))

RecoveryStep == ReadHead \/ RecoverInstall \/ RecoverClear

LogNext ==
    \/ \E p \in Thread : BeginSleep(p) \/ BeginOp(p) \/ EndOp(p) \/ EndLastOp(p)
    \/ \E p \in Thread, b \in Block, v \in Val : LogWrite(p, b, v)
    \/ \E b \in Block : Load(b) \/ Recycle(b)
    \/ CommitStep
    \/ RecoveryStep
    \/ Crash

LogSpec == LogInit /\ [][LogNext]_logvars

-----------------------------------------------------------------------------
(* None of the panics of log_write() and end_op() can happen: while an     *)
(* operation runs there is room for its next block, it is counted, and no  *)
(* commit is in progress.  The reservation of begin_op() is what makes the *)
(* room, across group commits and absorbed writes.                         *)
NoLogPanic ==
    \A p \in Thread : op[p] = "running" =>
        Len(lh) < LOGBLOCKS /\ outstanding >= 1 /\ ~committing

(* Whoever sleeps in begin_op() sleeps while an operation or a commit is   *)
(* under way, whose end will wake it: nobody is left asleep in an idle log. *)
SleeperWillBeWoken ==
    (\E p \in Thread : op[p] = "asleep") => outstanding > 0 \/ committing

(* A block in the log keeps its buffer until it has been installed, and    *)
(* every bunpin() of install_trans() undoes one bpin() of log_write(): no  *)
(* block occurs twice in a header.                                         *)
PinsMatchLog ==
    /\ Up => pinned = {lh[i] : i \in (IF phase \in {"install", "finish"} THEN tail + 1 ELSE 1) .. Len(lh)}
    /\ \A i, j \in 1 .. Len(lh) : lh[i] = lh[j] => i = j

Recovered == [b \in Block |->
    IF \E i \in 1 .. Len(dhead) : dhead[i] = b
    THEN dlog[CHOOSE i \in 1 .. Len(dhead) : dhead[i] = b] ELSE disk[b]]

Visible == [b \in Block |-> Contents(b)]

(* Where the newest copy of a block is: the buffer or the disk before the  *)
(* commit, the log while the header names it, the disk after that.         *)
(* write_log() and install_trans() have done the blocks up to tail.        *)
NewestCopies ==
    /\ \A i, j \in 1 .. Len(dhead) : dhead[i] = dhead[j] => i = j
    /\ phase \in {"install", "recover"} => dhead = lh
    /\ phase \in {"run", "write_log", "write_head", "finish"} => dhead = <<>>
    /\ ~Up => pinned = {}
    /\ \A b \in pinned : cache[b] # NotCached
    /\ \A b \in Block \ pinned : cache[b] \in {NotCached, disk[b]}
    /\ phase \notin {"boot", "run", "finish"} => tail <= Len(lh)
    /\ phase = "write_head" => tail = Len(lh)
    /\ phase \in {"write_log", "write_head"} => \A i \in 1 .. tail : dlog[i] = Contents(lh[i])
    /\ phase = "install" => \A i \in 1 .. Len(lh) : dlog[i] = Contents(lh[i])
    /\ phase \in {"install", "recover"} => \A i \in 1 .. tail : disk[lh[i]] = dlog[i]

(* When no operation and no commit is under way, everything that was       *)
(* written is on disk: what the last end_op() returned from is durable.    *)
IdleIsDurable == phase = "run" /\ outstanding = 0 => Recovered = Visible

(* Between log_write() and the end of the commit the newest copy of a block *)
(* is where the next step of commit(), or of recovery, looks for it.       *)
CopiesKept == PinsMatchLog /\ NewestCopies /\ IdleIsDurable

(* The log implements atomic, crash-safe transactions.                     *)
Atomic == INSTANCE AtomicDisk WITH
    durable <- Recovered,
    current <- IF Up THEN Visible ELSE Recovered,
    active <- {p \in Thread : op[p] = "running"}

AtomicSpec == Atomic!Spec

-----------------------------------------------------------------------------
(* The inductive invariant behind NoLogPanic and SleeperWillBeWoken.       *)
Running == {p \in Thread : op[p] = "running"}

(* The log slots that are reserved and not used yet: those above what the  *)
(* operation has added, out of MAXOPBLOCKS for each.                       *)
Credits == {c \in Running \X (1 .. MAXOPBLOCKS) : written[c[1]] < c[2]}

(* Used and reserved slots fit in the log.                                 *)
SpaceInv ==
    /\ outstanding = Cardinality(Running)
    /\ \A p \in Running : written[p] <= OpBlocks
    /\ Len(lh) + Cardinality(Credits) <= LOGBLOCKS
    /\ Len(dhead) <= LOGBLOCKS

(* How log.committing and log.outstanding follow the phases of a commit,   *)
(* and that an idle log is empty.                                          *)
PhaseInv ==
    /\ committing <=> phase \in {"write_log", "write_head", "install", "finish"}
    /\ phase # "run" => Running = {}
    /\ phase = "run" /\ outstanding = 0 => Len(lh) = 0
    /\ phase = "finish" => Len(lh) = 0
    /\ phase = "write_log" => tail < Len(lh)
    /\ ~Up => \A p \in Thread : op[p] = "idle"

LogInv == LogTypeOK /\ SpaceInv /\ PhaseInv /\ NoLogPanic /\ SleeperWillBeWoken

-----------------------------------------------------------------------------
(* Every operation ends and a commit, once begun, goes on: the disk        *)
(* answers.  Nobody has to start an operation.                             *)
LogFairness ==
    /\ \A p \in Thread : WF_logvars(EndOp(p) \/ EndLastOp(p))
    /\ \A p \in Thread : WF_logvars(op[p] = "begin" /\ (BeginSleep(p) \/ BeginOp(p)))
    /\ WF_logvars(CommitStep)
    /\ WF_logvars(RecoveryStep)

FairLogSpec == LogSpec /\ LogFairness

(* A thread asleep in begin_op() is woken, or the machine stops.           *)
SleeperWakes == \A p \in Thread : op[p] = "asleep" ~> op[p] # "asleep"

=============================================================================
