---------------------------- MODULE BufferCache -----------------------------
(***************************************************************************)
(* The buffer cache of kernel/bio.c and the sleep lock of each buffer      *)
(* (kernel/sleeplock.c).  A step is one critical section of bcache.lock,   *)
(* one of a sleep lock's own spin lock, or one disk transfer.              *)
(***************************************************************************)
EXTENDS Naturals, FiniteSets

CONSTANTS
    Task,       \* the threads that call the cache
    Buf,        \* the NBUF buffers
    BlockNo,    \* the numbers of the blocks on disk
    Val, Blank,
    NeverUsed,  \* dev and blockno of a buffer never used
    NoTask,     \* b->lock is free
    MaxHeld     \* bound: the buffers a thread holds at once

ASSUME BufAssumption ==
    /\ NeverUsed \notin BlockNo /\ NoTask \notin Task /\ Blank \in Val
    /\ Buf # {} /\ IsFiniteSet(Buf) /\ IsFiniteSet(Task)
    /\ MaxHeld \in Nat

VARIABLES
    blockno, bvalid, refcnt, contents,  \* the fields of struct buf
    lockedby,   \* b->lock: locked and pid
    lru,        \* the list of bcache.head, most recently used first
    pinned,     \* the buffers with a bpin() outstanding
    disk,
    bpc,        \* where each thread is
    cur,        \* the local variable b of its call
    panicked    \* bget() has found no buffer, and stopped with bcache.lock

cachevars == <<blockno, bvalid, refcnt, contents, lockedby, lru, pinned, disk, bpc, cur>>
bufvars == <<cachevars, panicked>>

(* "run": outside bio.c; "lock": in acquiresleep(); "asleep": in its       *)
(* sleep(); "locked": in bread() with the lock; "relse": in brelse() past  *)
(* releasesleep().                                                         *)
BioPlaces == {"run", "lock", "asleep", "locked", "relse"}

BufTypeOK ==
    /\ blockno \in [Buf -> BlockNo \cup {NeverUsed}]
    /\ bvalid \in [Buf -> BOOLEAN]
    /\ refcnt \in [Buf -> Nat]
    /\ contents \in [Buf -> Val]
    /\ lockedby \in [Buf -> Task \cup {NoTask}]
    /\ pinned \in SUBSET Buf
    /\ disk \in [BlockNo -> Val]
    /\ bpc \in [Task -> BioPlaces]
    /\ cur \in [Task -> Buf]

(* A list with every buffer on it, once.                                   *)
NBUF == Cardinality(Buf)
Complete(s) == s \in [1 .. NBUF -> Buf] /\ \A b \in Buf : \E i \in 1 .. NBUF : s[i] = b

BufInit ==
    /\ blockno = [b \in Buf |-> NeverUsed]
    /\ bvalid = [b \in Buf |-> FALSE]
    /\ refcnt = [b \in Buf |-> 0]
    /\ contents = [b \in Buf |-> Blank]
    /\ lockedby = [b \in Buf |-> NoTask]
    /\ lru = CHOOSE s \in [1 .. NBUF -> Buf] : Complete(s)
    /\ pinned = {}
    /\ disk = [k \in BlockNo |-> Blank]
    /\ bpc = [t \in Task |-> "run"]
    /\ cur = [t \in Task |-> CHOOSE b \in Buf : TRUE]
    /\ panicked = FALSE

-----------------------------------------------------------------------------
Held(t) == {b \in Buf : lockedby[b] = t}

Cached(k) == {b \in Buf : blockno[b] = k}

(* The second scan of bget(), from the end of the list.                    *)
Victims == {b \in Buf :
    \E i \in 1 .. NBUF :
        /\ lru[i] = b /\ refcnt[b] = 0
        /\ \A j \in i + 1 .. NBUF : refcnt[lru[j]] # 0}

(* Callers: a thread asks for a block it does not hold.                    *)
MayAsk(t, k) ==
    /\ bpc[t] = "run"
    /\ Cardinality(Held(t)) < MaxHeld
    /\ \A b \in Held(t) : blockno[b] # k

(* Mutant: the reference is taken only once the lock is held.              *)
BGetHitUncounted(t, k) ==
    /\ MayAsk(t, k)
    /\ \E b \in Cached(k) : cur' = [cur EXCEPT ![t] = b]
    /\ bpc' = [bpc EXCEPT ![t] = "lock"]
    /\ UNCHANGED <<blockno, bvalid, refcnt, contents, lockedby, lru, pinned, disk>>

BGetHit(t, k) ==
    /\ MayAsk(t, k)
    /\ \E b \in Cached(k) :
        /\ refcnt' = [refcnt EXCEPT ![b] = @ + 1]
        /\ cur' = [cur EXCEPT ![t] = b]
    /\ bpc' = [bpc EXCEPT ![t] = "lock"]
    /\ UNCHANGED <<blockno, bvalid, contents, lockedby, lru, pinned, disk>>

(* Mutant: a recycled buffer keeps its valid flag.                         *)
BGetMissStillValid(t, k) ==
    /\ MayAsk(t, k)
    /\ Cached(k) = {}
    /\ \E b \in Victims :
        /\ blockno' = [blockno EXCEPT ![b] = k]
        /\ refcnt' = [refcnt EXCEPT ![b] = 1]
        /\ cur' = [cur EXCEPT ![t] = b]
    /\ bpc' = [bpc EXCEPT ![t] = "lock"]
    /\ UNCHANGED <<bvalid, contents, lockedby, lru, pinned, disk>>

BGetMiss(t, k) ==
    /\ MayAsk(t, k)
    /\ Cached(k) = {}
    /\ \E b \in Victims :
        /\ blockno' = [blockno EXCEPT ![b] = k]
        /\ bvalid' = [bvalid EXCEPT ![b] = FALSE]
        /\ refcnt' = [refcnt EXCEPT ![b] = 1]
        /\ cur' = [cur EXCEPT ![t] = b]
    /\ bpc' = [bpc EXCEPT ![t] = "lock"]
    /\ UNCHANGED <<contents, lockedby, lru, pinned, disk>>

(* panic("bget: no buffers").                                              *)
BGetPanic(t, k) ==
    /\ MayAsk(t, k)
    /\ Cached(k) = {} /\ Victims = {}
    /\ panicked' = TRUE
    /\ UNCHANGED cachevars

-----------------------------------------------------------------------------
(* acquiresleep().                                                         *)
LockSleep(t) ==
    /\ bpc[t] = "lock"
    /\ lockedby[cur[t]] # NoTask
    /\ bpc' = [bpc EXCEPT ![t] = "asleep"]
    /\ UNCHANGED <<blockno, bvalid, refcnt, contents, lockedby, lru, pinned, disk, cur>>

LockTake(t) ==
    /\ bpc[t] = "lock"
    /\ lockedby[cur[t]] = NoTask
    /\ lockedby' = [lockedby EXCEPT ![cur[t]] = t]
    /\ bpc' = [bpc EXCEPT ![t] = "locked"]
    /\ UNCHANGED <<blockno, bvalid, refcnt, contents, lru, pinned, disk, cur>>

(* The rest of bread(): virtio_disk_rw() unless the buffer is valid.       *)
BRead(t) ==
    /\ bpc[t] = "locked"
    /\ LET b == cur[t] IN
        /\ contents' = IF bvalid[b] THEN contents ELSE [contents EXCEPT ![b] = disk[blockno[b]]]
        /\ bvalid' = [bvalid EXCEPT ![b] = TRUE]
    /\ bpc' = [bpc EXCEPT ![t] = "run"]
    /\ UNCHANGED <<blockno, refcnt, lockedby, lru, pinned, disk, cur>>

(* The holder changes the data and calls log_write(), which pins the       *)
(* buffer unless its block is in the log already.                          *)
Modify(t, b, v) ==
    /\ bpc[t] = "run" /\ b \in Held(t)
    /\ contents' = [contents EXCEPT ![b] = v]
    /\ pinned' = pinned \cup {b}
    /\ refcnt' = [refcnt EXCEPT ![b] = IF b \in pinned THEN @ ELSE @ + 1]
    /\ UNCHANGED <<blockno, bvalid, lockedby, lru, disk, bpc, cur>>

(* write_log(), write_head() and install_trans(): the holder fills the     *)
(* buffer and calls bwrite() on it.                                        *)
BWrite(t, b, v) ==
    /\ bpc[t] = "run" /\ b \in Held(t)
    /\ contents' = [contents EXCEPT ![b] = v]
    /\ disk' = [disk EXCEPT ![blockno[b]] = v]
    /\ UNCHANGED <<blockno, bvalid, refcnt, lockedby, lru, pinned, bpc, cur>>

(* install_trans() after its bwrite(): bunpin().                           *)
BUnpin(t, b) ==
    /\ bpc[t] = "run" /\ b \in Held(t)
    /\ b \in pinned /\ disk[blockno[b]] = contents[b]
    /\ pinned' = pinned \ {b}
    /\ refcnt' = [refcnt EXCEPT ![b] = @ - 1]
    /\ UNCHANGED <<blockno, bvalid, contents, lockedby, lru, disk, bpc, cur>>

(* brelse(): releasesleep() first, the reference and the list second.      *)
ReleaseSleep(t, b) ==
    /\ bpc[t] = "run" /\ b \in Held(t)
    /\ lockedby' = [lockedby EXCEPT ![b] = NoTask]
    /\ bpc' = [u \in Task |-> IF u = t THEN "relse"
                               ELSE IF bpc[u] = "asleep" /\ cur[u] = b THEN "lock" ELSE bpc[u]]
    /\ cur' = [cur EXCEPT ![t] = b]
    /\ UNCHANGED <<blockno, bvalid, refcnt, contents, lru, pinned, disk>>

(* Mutant: brelse() keeps its reference.                                   *)
BRelseLeaks(t) ==
    /\ bpc[t] = "relse"
    /\ bpc' = [bpc EXCEPT ![t] = "run"]
    /\ UNCHANGED <<blockno, bvalid, refcnt, contents, lockedby, lru, pinned, disk, cur>>

(* Buffer b, unlinked and put in front of the list.                        *)
ToFront(s, b) ==
    LET p == CHOOSE i \in 1 .. NBUF : s[i] = b IN
    [i \in 1 .. NBUF |-> IF i = 1 THEN b ELSE IF i <= p THEN s[i - 1] ELSE s[i]]

BRelse(t) ==
    /\ bpc[t] = "relse"
    /\ LET b == cur[t] IN
        /\ refcnt' = [refcnt EXCEPT ![b] = @ - 1]
        /\ lru' = IF refcnt'[b] = 0 THEN ToFront(lru, b) ELSE lru
    /\ bpc' = [bpc EXCEPT ![t] = "run"]
    /\ UNCHANGED <<blockno, bvalid, contents, lockedby, pinned, disk, cur>>

-----------------------------------------------------------------------------
InCache(t) == LockTake(t) \/ LockSleep(t) \/ BRead(t) \/ BRelse(t)

BufStep ==
    \E t \in Task :
        \/ InCache(t)
        \/ \E k \in BlockNo : BGetHit(t, k) \/ BGetMiss(t, k)
        \/ \E b \in Buf :
            \/ BUnpin(t, b) \/ ReleaseSleep(t, b)
            \/ \E v \in Val : Modify(t, b, v) \/ BWrite(t, b, v)

BufNext ==
    /\ ~panicked
    /\ \/ BufStep /\ UNCHANGED panicked
       \/ \E t \in Task, k \in BlockNo : BGetPanic(t, k)

BufSpec == BufInit /\ [][BufNext]_bufvars

-----------------------------------------------------------------------------
(* Who counts on buffer b: callers between bget() and the end of brelse(). *)
Users(b) == {t \in Task : lockedby[b] = t \/ (bpc[t] # "run" /\ cur[t] = b)}

(* Reference counts are exact, though bget() and brelse() take them and    *)
(* the sleep lock in separate critical sections: a buffer is recycled only *)
(* when nobody waits for it, holds it or has it in the log.                *)
RefcntExact ==
    \A b \in Buf : refcnt[b] = Cardinality(Users(b)) + (IF b \in pinned THEN 1 ELSE 0)

(* A block has one buffer; whoever holds or awaits a buffer got it for a   *)
(* block and it still is that block's; outside bread() a held buffer is    *)
(* valid; what is neither held nor in the log is the same on disk.         *)
BufferUse ==
    /\ \A k \in BlockNo, b, c \in Buf : {b, c} \subseteq Cached(k) => b = c
    /\ \A t \in Task : bpc[t] = "locked" => lockedby[cur[t]] = t
    /\ \A t \in Task : bpc[t] \in {"lock", "asleep", "relse"} => lockedby[cur[t]] # t
    /\ \A b \in Buf : refcnt[b] > 0 => blockno[b] # NeverUsed
    /\ \A b \in Buf : lockedby[b] # NoTask =>
        bvalid[b] \/ (bpc[lockedby[b]] = "locked" /\ cur[lockedby[b]] = b)
    /\ \A b \in pinned : bvalid[b]
    /\ \A b \in Buf : bvalid[b] => blockno[b] # NeverUsed
    /\ \A b \in Buf \ pinned : bvalid[b] => contents[b] = disk[blockno[b]]

(* Nobody sleeps for a buffer that is free: the wakeup() of releasesleep() *)
(* is not lost.                                                            *)
SleepsForHolder == \A t \in Task : bpc[t] = "asleep" => lockedby[cur[t]] # NoTask

(* What bget(), acquiresleep(), brelse() and bpin() keep between them, all *)
(* of which leave bcache.lock between the steps above: the counts, the use *)
(* of the buffers and the sleepers' reasons.                               *)
BufInv == BufTypeOK /\ RefcntExact /\ BufferUse /\ SleepsForHolder

(* The buffers thread t keeps from being recycled.                         *)
Uses(t) == Held(t) \cup (IF bpc[t] = "run" THEN {} ELSE {cur[t]})

(* bget() panics only over a cache that is really full: brelse() keeps     *)
(* every buffer on the list and leaks no reference, so that each buffer is *)
(* in the hands of a thread or pinned by the log, and the two together are *)
(* promised more than the NBUF buffers there are.                          *)
PanicMeansFull ==
    /\ panicked \in BOOLEAN /\ Complete(lru)
    /\ \A t \in Task : Cardinality(Uses(t)) <= MaxHeld
    /\ panicked =>
        /\ \A b \in Buf : b \in pinned \/ \E t \in Task : b \in Uses(t)
        /\ NBUF < Cardinality(Task) * MaxHeld + Cardinality(pinned)

(* The cache behaves as one memory with a lock per block: no two buffers   *)
(* for a block, a reader gets what was last stored in the block, whether   *)
(* its buffer stayed, was recycled, or is being read by someone else.      *)
Memory == [k \in BlockNo |->
    IF \E b \in Cached(k) : bvalid[b]
    THEN contents[CHOOSE b \in Cached(k) : bvalid[b]] ELSE disk[k]]

Owners == {<<lockedby[b], blockno[b]>> : b \in {c \in Buf : lockedby[c] # NoTask}}

Store == INSTANCE BlockStore WITH
    Block <- BlockNo, Thread <- Task,
    mem <- Memory,
    owners <- Owners

StoreSpec == Store!Spec

=============================================================================
