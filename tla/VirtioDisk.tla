----------------------------- MODULE VirtioDisk -----------------------------
(***************************************************************************)
(* The disk driver of kernel/virtio_disk.c with the device behind it.      *)
(* vdisk_lock is let go only in sleep(): a step of the driver is what it   *)
(* does between two sleeps, a step of the interrupt handler one turn of    *)
(* its loop, because the device writes the used ring at any time.          *)
(*                                                                         *)
(* The caller of virtio_disk_rw(b) holds b's sleep lock, so b stands for   *)
(* the call, its thread and its block.                                     *)
(***************************************************************************)
EXTENDS Naturals

CONSTANTS
    IoBuf,       \* the buffers in transfer
    NoBuf,
    NUM,         \* the descriptors and ring entries
    UintSize     \* 2^16: idx and used_idx wrap there

ASSUME DiskAssumption == NoBuf \notin IoBuf
(* "must be a power of two" (virtio.h): the ring goes on where idx wraps.  *)
ASSUME RingAssumption ==
    /\ NUM \in Nat \ {0} /\ UintSize \in Nat
    /\ UintSize > NUM /\ UintSize % NUM = 0

Desc == 0 .. NUM - 1
NoNext == NUM  \* a descriptor without VRING_DESC_F_NEXT
Uint == 0 .. UintSize - 1

VARIABLES
    free,       \* the i with disk.free[i]
    next,       \* disk.desc[i].next, NoNext without the flag
    addr,       \* the buffer whose data desc[i] points to
    write,      \* desc[i] is data the device reads: the request is a write
    info,       \* disk.info[i].b
    status,     \* disk.info[i].status is 0
    avail, availidx,   \* the ring the driver writes
    used, usedidx,     \* the ring the device writes
    used_idx,   \* how far the handler has looked at it
    busy,       \* b->disk
    rwpc, rw,   \* where the call for b is, its parameter write,
    idx0,       \* and its idx[0]
    handler,    \* "loop": virtio_disk_intr() has acknowledged and holds the lock
    bdata,      \* b->data and the block on disk, as of the call:
    platter,    \* the disk's are "old", the buffer's "new"
    fetched,    \* the device: chains taken from avail, how far it has looked,
    devidx,
    raising,    \* an interrupt about to be raised,
    intr        \* and one raised and not acknowledged

drivervars == <<free, next, addr, write, info, availidx, rw, idx0>>
devicevars == <<status, usedidx, platter, fetched, devidx, raising>>
rings == <<avail, used>>
diskvars == <<drivervars, devicevars, rings, used_idx, busy, rwpc, handler, bdata, intr>>

(* "alloc": about to call alloc3_desc(); "nodesc": asleep on &free[0];     *)
(* "wait": asleep on b; "woken": about to test b->disk again.              *)
RwPlaces == {"out", "alloc", "nodesc", "wait", "woken"}

DiskTypeOK ==
    /\ free \in SUBSET Desc
    /\ next \in [Desc -> Desc \cup {NoNext}]
    /\ addr \in [Desc -> IoBuf \cup {NoBuf}]
    /\ write \in [Desc -> BOOLEAN]
    /\ info \in [Desc -> IoBuf \cup {NoBuf}]
    /\ status \in [Desc -> BOOLEAN]
    /\ avail \in [Desc -> Desc] /\ availidx \in Uint
    /\ used \in [Desc -> Desc] /\ usedidx \in Uint
    /\ used_idx \in Uint
    /\ busy \in [IoBuf -> BOOLEAN]
    /\ rwpc \in [IoBuf -> RwPlaces] /\ rw \in [IoBuf -> BOOLEAN] /\ idx0 \in [IoBuf -> Desc]
    /\ handler \in {"off", "loop"}
    /\ {bdata, platter} \subseteq [IoBuf -> {"old", "new"}]
    /\ fetched \in SUBSET Desc /\ devidx \in Uint
    /\ raising \in BOOLEAN /\ intr \in BOOLEAN

DiskInit ==
    /\ free = Desc
    /\ next = [i \in Desc |-> NoNext]
    /\ addr = [i \in Desc |-> NoBuf]
    /\ write = [i \in Desc |-> FALSE]
    /\ info = [i \in Desc |-> NoBuf]
    /\ status = [i \in Desc |-> TRUE]
    /\ avail = [i \in Desc |-> 0] /\ availidx = 0
    /\ used = [i \in Desc |-> 0] /\ usedidx = 0
    /\ used_idx = 0
    /\ busy = [b \in IoBuf |-> FALSE]
    /\ rwpc = [b \in IoBuf |-> "out"] /\ rw = [b \in IoBuf |-> FALSE] /\ idx0 = [b \in IoBuf |-> 0]
    /\ handler = "off"
    /\ bdata = [b \in IoBuf |-> "old"] /\ platter = bdata
    /\ fetched = {} /\ devidx = 0
    /\ raising = FALSE /\ intr = FALSE

Plus1(i) == (i + 1) % UintSize

-----------------------------------------------------------------------------
(* A thread that holds b calls virtio_disk_rw(b, write).                   *)
Call(b, w) ==
    /\ rwpc[b] = "out"
    /\ bdata' = [bdata EXCEPT ![b] = "new"]
    /\ platter' = [platter EXCEPT ![b] = "old"]
    /\ rw' = [rw EXCEPT ![b] = w]
    /\ rwpc' = [rwpc EXCEPT ![b] = "alloc"]
    /\ UNCHANGED <<free, next, addr, write, info, availidx, idx0, rings>>
    /\ UNCHANGED <<status, usedidx, fetched, devidx, raising, used_idx, busy, handler, intr>>

(* alloc_desc() runs out before the third descriptor.                      *)
Short(set) == \A i, j, k \in set : i = j \/ i = k \/ j = k

(* alloc3_desc(): alloc_desc() takes the first free descriptor, three      *)
(* times.                                                                  *)
Alloc3(i, j, k) ==
    /\ {i, j, k} \subseteq free
    /\ i < j /\ j < k
    /\ \A d \in free : d \in {i, j, k} \/ d > k

(* The descriptors are filled in and the chain is put in the avail ring;   *)
(* the caller sleeps on b.                                                 *)
Submit(b, i, j, k) ==
    /\ free' = free \ {i, j, k}
    /\ next' = [next EXCEPT ![i] = j, ![j] = k, ![k] = NoNext]
    /\ addr' = [addr EXCEPT ![j] = b]
    /\ write' = [write EXCEPT ![j] = rw[b]]
    /\ status' = [status EXCEPT ![i] = FALSE]
    /\ avail' = [avail EXCEPT ![availidx % NUM] = i]
    /\ availidx' = Plus1(availidx)
    /\ idx0' = [idx0 EXCEPT ![b] = i]
    /\ busy' = [busy EXCEPT ![b] = TRUE]
    /\ rwpc' = [rwpc EXCEPT ![b] = "wait"]
    /\ UNCHANGED <<rw, used, usedidx, platter, fetched, devidx, raising, used_idx, handler, bdata, intr>>

Issue(b) ==
    /\ rwpc[b] = "alloc" /\ handler = "off"
    /\ \E i, j, k \in Desc :
        /\ Alloc3(i, j, k)
        /\ Submit(b, i, j, k)
        /\ info' = [info EXCEPT ![i] = b]

(* wakeup(&disk.free[0]) in free_desc().                                   *)
WakeNoDesc(places) ==
    [b \in IoBuf |-> IF places[b] = "nodesc" THEN "alloc" ELSE places[b]]

(* Mutant: alloc3_desc() keeps the descriptors it got.                     *)
NoDescLeaks(b) ==
    /\ rwpc[b] = "alloc" /\ handler = "off"
    /\ Short(free)
    /\ free' = {}
    /\ rwpc' = [rwpc EXCEPT ![b] = "nodesc"]
    /\ UNCHANGED <<next, addr, write, info, availidx, rw, idx0>>
    /\ UNCHANGED <<devicevars, rings, used_idx, busy, handler, bdata, intr>>

(* alloc3_desc() finds fewer than three, gives back what it took (which    *)
(* wakes the others that sleep for descriptors), and the caller sleeps.    *)
NoDesc(b) ==
    /\ rwpc[b] = "alloc" /\ handler = "off"
    /\ Short(free)
    /\ rwpc' = [IF free = {} THEN rwpc ELSE WakeNoDesc(rwpc) EXCEPT ![b] = "nodesc"]
    /\ UNCHANGED <<drivervars, devicevars, rings, used_idx, busy, handler, bdata, intr>>

(* The while loop around sleep(b).                                         *)
SleepAgain(b) ==
    /\ rwpc[b] = "woken" /\ handler = "off"
    /\ busy[b]
    /\ rwpc' = [rwpc EXCEPT ![b] = "wait"]
    /\ UNCHANGED <<drivervars, devicevars, rings, used_idx, busy, handler, bdata, intr>>

(* The descriptors free_chain(i) goes through.                             *)
Chain(i) == {i, next[i], next[next[i]]}

(* virtio_disk_rw() after its loop: free_chain(), which zeroes what it     *)
(* frees; the call's locals are gone.                                      *)
FreeChain(b) ==
    LET chain == Chain(idx0[b]) IN
    /\ info' = [info EXCEPT ![idx0[b]] = NoBuf]
    /\ free' = free \cup chain
    /\ next' = [d \in Desc |-> IF d \in chain THEN NoNext ELSE next[d]]
    /\ addr' = [d \in Desc |-> IF d \in chain THEN NoBuf ELSE addr[d]]
    /\ write' = [d \in Desc |-> d \notin chain /\ write[d]]
    /\ idx0' = [idx0 EXCEPT ![b] = 0]
    /\ rw' = [rw EXCEPT ![b] = FALSE]
    /\ UNCHANGED <<availidx, rings, devicevars, used_idx, busy, handler, bdata, intr>>

(* Mutant: one sleep(b) instead of a loop.                                 *)
RwDoneUntested(b) ==
    /\ rwpc[b] = "woken" /\ handler = "off"
    /\ FreeChain(b)
    /\ rwpc' = [WakeNoDesc(rwpc) EXCEPT ![b] = "out"]

RwDone(b) ==
    /\ rwpc[b] = "woken" /\ handler = "off"
    /\ ~busy[b]
    /\ FreeChain(b)
    /\ rwpc' = [WakeNoDesc(rwpc) EXCEPT ![b] = "out"]

(* kkill() makes any sleeper runnable.                                     *)
Kill(b) ==
    /\ rwpc[b] \in {"wait", "nodesc"}
    /\ rwpc' = [rwpc EXCEPT ![b] = IF @ = "wait" THEN "woken" ELSE "alloc"]
    /\ UNCHANGED <<drivervars, devicevars, rings, used_idx, busy, handler, bdata, intr>>

-----------------------------------------------------------------------------
(* virtio_disk_intr(): the acknowledgement, a turn of the loop, its end.   *)
(* Ring entries that have been looked at are never read again; the model   *)
(* zeroes them, so that they do not tell states apart.                     *)
IntrAck ==
    /\ intr /\ handler = "off"
    /\ intr' = FALSE
    /\ handler' = "loop"
    /\ UNCHANGED <<drivervars, devicevars, rings, used_idx, busy, rwpc, bdata>>

(* Mutant: at most one completion per interrupt.                           *)
IntrOnce ==
    /\ handler = "loop"
    /\ used_idx # usedidx
    /\ LET b == info[used[used_idx % NUM]] IN
        /\ busy' = [busy EXCEPT ![b] = FALSE]
        /\ rwpc' = [rwpc EXCEPT ![b] = IF @ = "wait" THEN "woken" ELSE @]
    /\ used' = [used EXCEPT ![used_idx % NUM] = 0]
    /\ used_idx' = Plus1(used_idx)
    /\ handler' = "off"
    /\ UNCHANGED <<drivervars, devicevars, avail, bdata, intr>>

IntrTurn ==
    /\ handler = "loop"
    /\ used_idx # usedidx
    /\ LET b == info[used[used_idx % NUM]] IN
        /\ busy' = [busy EXCEPT ![b] = FALSE]
        /\ rwpc' = [rwpc EXCEPT ![b] = IF @ = "wait" THEN "woken" ELSE @]
    /\ used' = [used EXCEPT ![used_idx % NUM] = 0]
    /\ used_idx' = Plus1(used_idx)
    /\ UNCHANGED <<drivervars, devicevars, avail, handler, bdata, intr>>

IntrEnd ==
    /\ handler = "loop"
    /\ used_idx = usedidx
    /\ handler' = "off"
    /\ UNCHANGED <<drivervars, devicevars, rings, used_idx, busy, rwpc, bdata, intr>>

-----------------------------------------------------------------------------
(* The device: it takes chains in ring order, serves them in any order,    *)
(* and interrupts some time after it has published a completion.           *)
DeviceFetch ==
    /\ devidx # availidx
    /\ fetched' = fetched \cup {avail[devidx % NUM]}
    /\ avail' = [avail EXCEPT ![devidx % NUM] = 0]
    /\ devidx' = Plus1(devidx)
    /\ UNCHANGED <<drivervars, status, used, usedidx, platter, raising, used_idx, busy, rwpc, handler, bdata, intr>>

DeviceServe(i) ==
    /\ i \in fetched
    /\ LET b == addr[next[i]] IN
        IF write[next[i]]
        THEN platter' = [platter EXCEPT ![b] = bdata[b]] /\ UNCHANGED bdata
        ELSE bdata' = [bdata EXCEPT ![b] = platter[b]] /\ UNCHANGED platter
    /\ status' = [status EXCEPT ![i] = TRUE]
    /\ used' = [used EXCEPT ![usedidx % NUM] = i]
    /\ usedidx' = Plus1(usedidx)
    /\ fetched' = fetched \ {i}
    /\ raising' = TRUE
    /\ UNCHANGED <<drivervars, devidx, avail, used_idx, busy, rwpc, handler, intr>>

DeviceRaise ==
    /\ raising
    /\ raising' = FALSE /\ intr' = TRUE
    /\ UNCHANGED <<drivervars, status, rings, usedidx, platter, fetched, devidx, used_idx, busy, rwpc, handler, bdata>>

-----------------------------------------------------------------------------
Handler == IntrAck \/ IntrTurn \/ IntrEnd

DiskNext ==
    \/ \E b \in IoBuf :
        \/ \E w \in BOOLEAN : Call(b, w)
        \/ Issue(b) \/ NoDesc(b) \/ SleepAgain(b) \/ RwDone(b) \/ Kill(b)
    \/ Handler
    \/ DeviceFetch \/ DeviceRaise
    \/ \E i \in Desc : DeviceServe(i)

DiskSpec == DiskInit /\ [][DiskNext]_diskvars

-----------------------------------------------------------------------------
Issued == {b \in IoBuf : rwpc[b] \in {"wait", "woken"}}

(* alloc_desc() and free_chain() neither leak a descriptor nor free one    *)
(* twice (the panics of free_desc()): the free ones and the chains of the  *)
(* calls in progress make up disk.desc, and a chain is three long.         *)
DescsAccountedFor ==
    /\ DiskTypeOK
    /\ \A d \in Desc \ free : \E b \in Issued : d \in Chain(idx0[b])
    /\ \A b \in Issued :
        /\ Chain(idx0[b]) \subseteq Desc \ free
        /\ LET i == idx0[b] IN i # next[i] /\ i # next[next[i]] /\ next[i] # next[next[i]]
    /\ \A b, c \in Issued : b # c => Chain(idx0[b]) \cap Chain(idx0[c]) = {}

(* How far index z of a ring is ahead of index a, and the entries between. *)
Ahead(a, z) == (z + UintSize - a) % UintSize
Entry(ring, a, n) == ring[(a + n) % NUM]
Between(ring, a, z) == {Entry(ring, a, n) : n \in 0 .. Ahead(a, z) - 1}
NoRepeats(ring, a, z) ==
    \A m, n \in 0 .. Ahead(a, z) - 1 : Entry(ring, a, m) = Entry(ring, a, n) => m = n

Sent == Between(avail, devidx, availidx)
Back == Between(used, used_idx, usedidx)
Heads == {idx0[b] : b \in {c \in IoBuf : busy[c]}}

(* While b->disk is set, its chain is on its way to the device, with it, or *)
(* on its way back, in one of these places only, and once.                 *)
InOnePlace ==
    /\ Sent \cup fetched \cup Back = Heads
    /\ Sent \cap fetched = {} /\ Sent \cap Back = {} /\ fetched \cap Back = {}
    /\ NoRepeats(avail, devidx, availidx) /\ NoRepeats(used, used_idx, usedidx)

(* The device finds the buffer and the direction of the call in its chain. *)
ChainDescribesCall ==
    \A b \in Issued :
        LET i == idx0[b] IN info[i] = b /\ addr[next[i]] = b /\ write[next[i]] = rw[b]

(* virtio_disk_intr() finds, for every entry of the used ring, a finished  *)
(* request (no panic) and the buffer it was for, still waiting.            *)
CompletionIsOurs ==
    \A i \in Back :
        status[i] /\ info[i] \in Issued /\ idx0[info[i]] = i /\ busy[info[i]]

(* The transfer is made while the device has the chain, in the direction   *)
(* of the call and before the request comes back.                          *)
Transferred(b) == bdata[b] = platter[b] /\ (platter[b] = "new" <=> rw[b])

DataMoves ==
    \A b \in IoBuf :
        /\ rwpc[b] \in {"alloc", "nodesc"} \/ (busy[b] /\ idx0[b] \notin Back)
             => bdata[b] = "new" /\ platter[b] = "old"
        /\ b \in Issued /\ (~busy[b] \/ idx0[b] \in Back) => Transferred(b)

(* A completion the handler has not seen will interrupt, or the handler is *)
(* still looking: the race its comment calls harmless loses none.          *)
CompletionNoticed == used_idx # usedidx => handler = "loop" \/ intr \/ raising

(* Nobody sleeps for descriptors while three are free, or for a request    *)
(* that has come back; b->disk is set only during a call.                  *)
SleepersHaveReason ==
    \A b \in IoBuf :
        /\ rwpc[b] = "nodesc" => Short(free)
        /\ rwpc[b] = "wait" => busy[b]
        /\ busy[b] => b \in Issued

(* A request is never lost, overwritten or taken for another, from the     *)
(* avail ring through the device and the used ring to wakeup(b), with the  *)
(* device adding completions while virtio_disk_intr() looks at them and    *)
(* both rings' indices wrapping.                                           *)
RequestTracked ==
    /\ InOnePlace /\ ChainDescribesCall /\ CompletionIsOurs /\ CompletionNoticed
    /\ SleepersHaveReason /\ DataMoves

(* virtio_disk_rw() returns only when the transfer it was called for has   *)
(* been made, in its direction, also to a thread that kill() woke early.   *)
ReturnsTransferred ==
    [][\A b \in IoBuf : rwpc[b] # "out" /\ rwpc'[b] = "out" =>
        Transferred(b)]_diskvars

=============================================================================
