----------------------------- MODULE LogProofs ------------------------------
(***************************************************************************)
(* Proofs that the reservation of begin_op() keeps log_write() and         *)
(* end_op() away from their panics, that nobody sleeps in an idle log, and *)
(* that the log of kernel/log.c makes transactions atomic across crashes.  *)
(***************************************************************************)
EXTENDS Log, Integers, FiniteSetTheorems, TLAPS

(* Where the copies of a block are; with LogInv this is inductive.         *)
CopyInv == PinsMatchLog /\ NewestCopies

(* A thread enters or leaves begin_op() or end_op(), and no copy moves.    *)
LEMMA CopySame ==
  ASSUME CopyInv, UNCHANGED <<diskvars, cache, pinned, lh, phase, tail>>
  PROVE  CopyInv'
  BY DEF CopyInv, PinsMatchLog, NewestCopies, Up, Contents, diskvars

(* initlog() finds the image mkfs wrote.                                   *)
LEMMA CopyInit == LogInit => CopyInv
  BY DEF LogInit, CopyInv, PinsMatchLog, NewestCopies, Up

(* The last end_op() starts at the first block of the log.                 *)
LEMMA CopyEndLast ==
  ASSUME LogInv, CopyInv, NEW p \in Thread, EndLastOp(p)
  PROVE  CopyInv'
  <1>1. phase = "run"
    BY DEF LogInv, PhaseInv, LogTypeOK, Phases, EndLastOp, Running
  <1>2. phase' \in {"write_log", "finish"} /\ tail' = 0
        /\ (phase' = "finish" => Len(lh) = 0)
        /\ UNCHANGED <<disk, dlog, dhead, cache, pinned, lh>>
    BY DEF EndLastOp, LogInv, LogTypeOK, diskvars
  <1>3. PinsMatchLog'
    BY <1>1, <1>2 DEF CopyInv, PinsMatchLog, Up
  <1>4. NewestCopies'
    BY <1>1, <1>2 DEF CopyInv, NewestCopies, Up, Contents, LogInv, LogTypeOK
  <1> QED BY <1>3, <1>4 DEF CopyInv

(* commit() is over: the log is empty again.                               *)
LEMMA CopyDone ==
  ASSUME LogInv, CopyInv, NEW p \in Thread, CommitDone(p)
  PROVE  CopyInv'
  <1>1. phase = "finish" /\ Len(lh) = 0 /\ phase' = "run" /\ tail' = 0
        /\ UNCHANGED <<disk, dlog, dhead, cache, pinned, lh>>
    BY DEF CommitDone, LogInv, PhaseInv, diskvars
  <1>2. PinsMatchLog'
    BY <1>1 DEF CopyInv, PinsMatchLog, Up, LogInv, LogTypeOK
  <1>3. NewestCopies'
    BY <1>1 DEF CopyInv, NewestCopies, Up, Contents
  <1> QED BY <1>2, <1>3 DEF CopyInv

(* A buffer that is read in, or recycled when nothing pins it, holds what  *)
(* is on the disk.                                                         *)
LEMMA CopyCache ==
  ASSUME LogInv, CopyInv, NEW b \in Block, Load(b) \/ Recycle(b)
  PROVE  CopyInv' /\ \A c \in Block : Contents(c)' = Contents(c)
  <1>1. UNCHANGED <<disk, dlog, dhead, pinned, lh, phase, tail>>
    BY DEF Load, Recycle, diskvars, memvars
  <1>2. \A c \in Block \ {b} : cache'[c] = cache[c]
    BY DEF Load, Recycle, LogInv, LogTypeOK
  <1>3. \/ cache[b] = NotCached /\ cache'[b] = disk[b] /\ disk[b] # NotCached
        \/ b \notin pinned /\ cache'[b] = NotCached /\ cache[b] # NotCached
    BY ValAssumption DEF Load, Recycle, LogInv, LogTypeOK, Contents
  <1>4. \A c \in Block : Contents(c)' = Contents(c)
    BY <1>1, <1>2, <1>3 DEF CopyInv, NewestCopies, Contents
  <1>5. \A i \in 1 .. Len(lh) : lh[i] \in Block
    BY DEF LogInv, LogTypeOK
  <1>6. PinsMatchLog'
    BY <1>1 DEF CopyInv, PinsMatchLog, Up
  <1>7. /\ (\A c \in pinned : cache[c] # NotCached)'
        /\ (\A c \in Block \ pinned : cache[c] \in {NotCached, disk[c]})'
    BY <1>1, <1>2, <1>3, ZenonT(30) DEF CopyInv, NewestCopies, LogInv, LogTypeOK
  <1>8. \A i \in 1 .. Len(lh) : Contents(lh[i])' = Contents(lh[i])
    BY <1>1, <1>4, <1>5
  <1>9. (phase \in {"write_log", "write_head"} => \A i \in 1 .. tail : dlog[i] = Contents(lh[i]))'
    BY <1>1, <1>8 DEF CopyInv, NewestCopies, LogInv, LogTypeOK
  <1>10. (phase = "install" => \A i \in 1 .. Len(lh) : dlog[i] = Contents(lh[i]))'
    BY <1>1, <1>8 DEF CopyInv, NewestCopies
  <1>11. NewestCopies'
    BY <1>1, <1>7, <1>9, <1>10 DEF CopyInv, NewestCopies, Up
  <1> QED BY <1>4, <1>6, <1>11 DEF CopyInv

(* log_write() changes the buffer of a block that is, or becomes, pinned;  *)
(* no other block changes its contents.                                    *)
LEMMA CopyWrite ==
  ASSUME LogInv, CopyInv, NEW p \in Thread, NEW b \in Block, NEW v \in Val, LogWrite(p, b, v)
  PROVE  /\ CopyInv'
         /\ \A c \in Block : Contents(c)' = IF c = b THEN v ELSE Contents(c)
         /\ phase = "run" /\ phase' = "run"
  <1>1. phase = "run" /\ phase' = "run" /\ UNCHANGED <<disk, dlog, dhead, tail>>
    BY DEF LogWrite, LogInv, PhaseInv, LogTypeOK, Phases, Running, diskvars
  <1>2. cache'[b] = v /\ v # NotCached /\ \A c \in Block \ {b} : cache'[c] = cache[c]
    BY ValAssumption DEF LogWrite, LogInv, LogTypeOK
  <1>3. \A c \in Block : Contents(c)' = IF c = b THEN v ELSE Contents(c)
    BY <1>1, <1>2 DEF Contents
  <1>4. pinned = {lh[i] : i \in 1 .. Len(lh)}
    BY <1>1 DEF CopyInv, PinsMatchLog, Up
  <1>5. CASE InLog(b) /\ UNCHANGED <<lh, pinned>>
    <2>1. b \in pinned
      BY <1>4, <1>5 DEF InLog
    <2>2. PinsMatchLog'
      BY <1>1, <1>5 DEF CopyInv, PinsMatchLog, Up
    <2>3. NewestCopies'
      BY <1>1, <1>2, <1>5, <2>1 DEF CopyInv, NewestCopies, Up, LogInv, LogTypeOK
    <2> QED BY <1>1, <1>3, <2>2, <2>3 DEF CopyInv
  <1>6. CASE ~InLog(b) /\ lh' = Append(lh, b) /\ pinned' = pinned \cup {b}
    <2>1. /\ Len(lh') = Len(lh) + 1 /\ Len(lh) \in Nat
          /\ lh'[Len(lh) + 1] = b
          /\ \A i \in 1 .. Len(lh) : lh'[i] = lh[i] /\ lh[i] # b
      BY <1>6 DEF InLog, LogInv, LogTypeOK
    <2>2. pinned' = {lh'[i] : i \in 1 .. Len(lh')}
      BY <1>4, <1>6, <2>1
    <2>3. (\A i, j \in 1 .. Len(lh) : lh[i] = lh[j] => i = j)'
      BY <2>1 DEF CopyInv, PinsMatchLog
    <2>4. PinsMatchLog'
      BY <1>1, <2>2, <2>3 DEF PinsMatchLog, Up
    <2>5. NewestCopies'
      BY <1>1, <1>2, <1>6 DEF CopyInv, NewestCopies, Up, LogInv, LogTypeOK
    <2> QED BY <1>1, <1>3, <2>4, <2>5 DEF CopyInv
  <1> QED BY <1>5, <1>6 DEF LogWrite

(* write_log() copies one more buffer to the log; no block changes.        *)
LEMMA CopyWriteLog ==
  ASSUME LogInv, CopyInv, WriteLog
  PROVE  CopyInv' /\ \A c \in Block : Contents(c)' = Contents(c)
  <1> DEFINE b == lh[tail + 1]
  <1>1. /\ phase = "write_log" /\ tail \in Nat /\ tail < Len(lh) /\ b \in Block
        /\ Len(lh) <= LOGBLOCKS
    BY SizeAssumption DEF WriteLog, LogInv, PhaseInv, LogTypeOK
  <1>2. /\ UNCHANGED <<disk, dhead, pinned, lh>>
        /\ tail' = tail + 1
        /\ phase' = IF tail' = Len(lh) THEN "write_head" ELSE "write_log"
    BY DEF WriteLog, memvars
  <1>3. /\ cache'[b] = Contents(b) /\ Contents(b) # NotCached
        /\ \A c \in Block \ {b} : cache'[c] = cache[c]
    BY <1>1, ValAssumption DEF WriteLog, LogInv, LogTypeOK, Contents
  <1>4. dlog'[tail + 1] = Contents(b) /\ \A i \in 1 .. tail : dlog'[i] = dlog[i]
    BY <1>1, SizeAssumption DEF WriteLog, LogInv, LogTypeOK
  <1>5. \A c \in Block : Contents(c)' = Contents(c)
    BY <1>2, <1>3 DEF Contents
  <1>6. b \in pinned
    BY <1>1 DEF CopyInv, PinsMatchLog, Up
  <1>7. PinsMatchLog'
    BY <1>1, <1>2 DEF CopyInv, PinsMatchLog, Up
  <1>8. \A i \in 1 .. tail' : dlog'[i] = Contents(lh[i])'
    <2> SUFFICES ASSUME NEW i \in 1 .. tail' PROVE dlog'[i] = Contents(lh[i])'
      OBVIOUS
    <2>1. lh[i] \in Block /\ lh'[i] = lh[i]
      BY <1>1, <1>2 DEF LogInv, LogTypeOK
    <2>2. Contents(lh[i])' = Contents(lh[i])
      BY <1>2, <1>5, <2>1
    <2>3. i = tail + 1 \/ i \in 1 .. tail
      BY <1>1, <1>2
    <2> QED BY <1>1, <1>4, <2>2, <2>3 DEF CopyInv, NewestCopies
  <1>9. /\ (\A c \in pinned : cache[c] # NotCached)'
        /\ (\A c \in Block \ pinned : cache[c] \in {NotCached, disk[c]})'
    BY <1>2, <1>3, <1>6, Zenon DEF CopyInv, NewestCopies, LogInv, LogTypeOK
  <1> HIDE DEF b
  <1>10. NewestCopies'
    BY <1>1, <1>2, <1>8, <1>9 DEF CopyInv, NewestCopies, Up
  <1> QED BY <1>5, <1>7, <1>10 DEF CopyInv

(* The first write_head(): the log holds every block the header names.     *)
LEMMA CopyWriteHead ==
  ASSUME LogInv, CopyInv, WriteHead
  PROVE  CopyInv'
  <1>1. /\ phase = "write_head" /\ phase' = "install" /\ tail' = 0 /\ dhead' = lh
        /\ UNCHANGED <<disk, dlog, cache, pinned, lh>>
    BY DEF WriteHead, memvars
  <1>2. PinsMatchLog'
    BY <1>1 DEF CopyInv, PinsMatchLog, Up
  <1>3. NewestCopies'
    BY <1>1 DEF CopyInv, PinsMatchLog, NewestCopies, Up, Contents, LogInv, LogTypeOK
  <1> QED BY <1>2, <1>3 DEF CopyInv

(* install_trans() brings one more block home, after a commit or after a   *)
(* crash.                                                                  *)
LEMMA CopyInstall ==
  ASSUME LogInv, CopyInv, Install \/ RecoverInstall
  PROVE  /\ CopyInv'
         /\ phase = "install" => \A c \in Block : Contents(c)' = Contents(c)
         /\ \A c \in Block \ {lh[tail + 1]} : disk'[c] = disk[c]
  <1> DEFINE b == lh[tail + 1]
  <1>1. /\ phase \in {"install", "recover"} /\ phase' = phase
        /\ tail \in Nat /\ tail < Len(lh) /\ tail' = tail + 1 /\ b \in Block
        /\ Len(lh) \in Nat /\ Len(lh) <= LOGBLOCKS
        /\ UNCHANGED <<dlog, dhead, lh>>
    BY SizeAssumption DEF Install, RecoverInstall, InstallBlock, memvars, LogInv, LogTypeOK
  <1>2. /\ disk'[b] = dlog[tail + 1] /\ \A c \in Block \ {b} : disk'[c] = disk[c]
        /\ cache'[b] = dlog[tail + 1] /\ \A c \in Block \ {b} : cache'[c] = cache[c]
    BY <1>1 DEF Install, RecoverInstall, InstallBlock, LogInv, LogTypeOK
  <1>3. dlog[tail + 1] # NotCached
    BY <1>1, ValAssumption, SizeAssumption DEF LogInv, LogTypeOK
  <1>4. phase = "install" => pinned' = pinned \ {b}
    BY DEF Install, RecoverInstall
  <1>5. phase = "recover" => pinned' = {} /\ pinned = {}
    BY DEF Install, RecoverInstall, CopyInv, NewestCopies, Up
  <1>6. phase = "install" => \A c \in Block : Contents(c)' = Contents(c)
    BY <1>1, <1>2, <1>3 DEF CopyInv, NewestCopies, Contents
  <1>7. \A i, j \in 1 .. Len(lh) : lh[i] = lh[j] => i = j
    BY DEF CopyInv, PinsMatchLog
  <1>8. \A i \in 1 .. Len(lh) : lh[i] \in Block
    BY DEF LogInv, LogTypeOK
  <1>9. phase = "install" => pinned' = {lh[i] : i \in (tail + 2) .. Len(lh)}
    <2> SUFFICES ASSUME phase = "install" PROVE pinned' = {lh[i] : i \in (tail + 2) .. Len(lh)}
      OBVIOUS
    <2>1. pinned = {lh[i] : i \in (tail + 1) .. Len(lh)}
      BY DEF CopyInv, PinsMatchLog, Up
    <2>2. \A i \in (tail + 1) .. Len(lh) : lh[i] # b <=> i \in (tail + 2) .. Len(lh)
      BY <1>1, <1>7
    <2>3. \A i \in (tail + 2) .. Len(lh) : i \in (tail + 1) .. Len(lh)
      BY <1>1
    <2> HIDE DEF b
    <2> QED BY <1>4, <2>1, <2>2, <2>3
  <1>10. PinsMatchLog'
    <2>1. phase = "install" => pinned' = {lh'[i] : i \in (tail' + 1) .. Len(lh')}
      BY <1>1, <1>9
    <2> QED BY <1>1, <1>7, <2>1 DEF PinsMatchLog, Up
  <1>11. \A i \in 1 .. tail' : disk'[lh[i]] = dlog[i]
    <2> SUFFICES ASSUME NEW i \in 1 .. tail' PROVE disk'[lh[i]] = dlog[i]
      OBVIOUS
    <2>1. CASE i = tail + 1
      BY <1>2, <2>1
    <2>2. CASE i # tail + 1
      <3>1. i \in 1 .. tail /\ i \in 1 .. Len(lh) /\ tail + 1 \in 1 .. Len(lh)
        BY <1>1, <2>2
      <3>2. lh[i] # b /\ lh[i] \in Block
        BY <1>7, <1>8, <2>2, <3>1
      <3>3. disk[lh[i]] = dlog[i]
        BY <1>1, <3>1 DEF CopyInv, NewestCopies
      <3> QED BY <1>2, <3>2, <3>3
    <2> QED BY <2>1, <2>2
  <1>12. phase = "install" => \A i \in 1 .. Len(lh) : dlog[i] = Contents(lh[i])'
    <2> SUFFICES ASSUME phase = "install", NEW i \in 1 .. Len(lh) PROVE dlog[i] = Contents(lh[i])'
      OBVIOUS
    <2>1. Contents(lh[i])' = Contents(lh[i])
      BY <1>1, <1>6, <1>8
    <2> QED BY <2>1 DEF CopyInv, NewestCopies
  <1>13. (\A c \in pinned : cache[c] # NotCached)'
    BY <1>1, <1>2, <1>4, <1>5 DEF CopyInv, NewestCopies, LogInv, LogTypeOK
  <1>14. (\A c \in Block \ pinned : cache[c] \in {NotCached, disk[c]})'
    BY <1>1, <1>2, <1>4, <1>5 DEF CopyInv, NewestCopies, LogInv, LogTypeOK
  <1> HIDE DEF b
  <1>15. NewestCopies'
    BY <1>1, <1>5, <1>11, <1>12, <1>13, <1>14 DEF CopyInv, NewestCopies, Up
  <1> QED BY <1>2, <1>6, <1>10, <1>15 DEF CopyInv, b

(* The second write_head(): every block is home, and the log is empty.     *)
LEMMA CopyClear ==
  ASSUME LogInv, CopyInv, ClearHead \/ RecoverClear
  PROVE  CopyInv'
  <1>1. /\ \/ phase = "install" /\ phase' = "finish"
           \/ phase = "recover" /\ phase' = "run"
        /\ tail = Len(lh) /\ lh' = <<>> /\ dhead' = <<>>
        /\ UNCHANGED <<disk, dlog, cache, pinned>>
    BY DEF ClearHead, RecoverClear
  <1>2. pinned = {}
    BY <1>1 DEF CopyInv, PinsMatchLog, NewestCopies, Up, LogInv, LogTypeOK
  <1>3. 1 .. Len(lh') = {} /\ (tail' + 1) .. Len(lh') = {}
    BY <1>1 DEF ClearHead, RecoverClear, LogInv, LogTypeOK
  <1>4. PinsMatchLog'
    <2>1. pinned' = {lh'[i] : i \in {}}
      BY <1>1, <1>2
    <2> QED BY <1>3, <2>1 DEF PinsMatchLog
  <1>5. NewestCopies'
    BY <1>1, <1>2 DEF CopyInv, NewestCopies, Up
  <1> QED BY <1>4, <1>5 DEF CopyInv

(* A crash leaves the disk; read_head() finds the header that was written. *)
LEMMA CopyCrash ==
  ASSUME LogInv, CopyInv, Crash \/ ReadHead
  PROVE  CopyInv'
  <1>1. CASE Crash
    <2>1. /\ phase' = "boot" /\ tail' = 0 /\ lh' = <<>> /\ pinned' = {}
          /\ \A b \in Block : cache'[b] = NotCached
          /\ UNCHANGED <<disk, dlog, dhead>>
      BY <1>1 DEF Crash, diskvars
    <2>2. PinsMatchLog'
      <3>1. 1 .. Len(lh') = {} /\ ~Up'
        BY <2>1 DEF Up
      <3> QED BY <3>1, Zenon DEF PinsMatchLog
    <2>3. NewestCopies'
      BY <2>1 DEF CopyInv, NewestCopies, Up
    <2> QED BY <2>2, <2>3 DEF CopyInv
  <1>2. CASE ReadHead
    <2>1. /\ phase = "boot" /\ phase' = "recover" /\ tail' = 0 /\ lh' = dhead
          /\ UNCHANGED <<disk, dlog, dhead, cache, pinned>>
      BY <1>2 DEF ReadHead, diskvars
    <2> QED BY <2>1 DEF CopyInv, PinsMatchLog, NewestCopies, Up, LogInv, LogTypeOK
  <1> QED BY <1>1, <1>2

(* Every step keeps the copies in place.                                   *)
LEMMA CopyNext ==
  ASSUME LogInv, CopyInv, [LogNext]_logvars
  PROVE  CopyInv'
  <1>1. CASE \/ \E p \in Thread : BeginSleep(p) \/ BeginOp(p) \/ EndOp(p)
             \/ UNCHANGED logvars
    <2>1. UNCHANGED <<diskvars, cache, pinned, lh, phase, tail>>
      BY <1>1, Zenon DEF BeginSleep, BeginOp, EndOp, logvars, memvars
    <2> QED BY <2>1, CopySame
  <1> QED BY <1>1, CopyEndLast, CopyDone, CopyCache, CopyWrite, CopyWriteLog, CopyWriteHead, CopyInstall,
             CopyClear, CopyCrash, Zenon DEF LogNext, CommitStep, RecoveryStep

-----------------------------------------------------------------------------
(* What recover_from_log() would make of a block, now and after a step.    *)
LEMMA RecoveredIs ==
  NewestCopies =>
    /\ \A i \in 1 .. Len(dhead) : dhead[i] \in Block => Recovered[dhead[i]] = dlog[i]
    /\ \A b \in Block : (\A i \in 1 .. Len(dhead) : dhead[i] # b) => Recovered[b] = disk[b]
  <1> SUFFICES ASSUME NewestCopies
               PROVE  /\ \A i \in 1 .. Len(dhead) : dhead[i] \in Block => Recovered[dhead[i]] = dlog[i]
                      /\ \A b \in Block :
                            (\A i \in 1 .. Len(dhead) : dhead[i] # b) => Recovered[b] = disk[b]
    OBVIOUS
  <1>1. ASSUME NEW i \in 1 .. Len(dhead), dhead[i] \in Block PROVE Recovered[dhead[i]] = dlog[i]
    <2> DEFINE k == CHOOSE j \in 1 .. Len(dhead) : dhead[j] = dhead[i]
    <2>1. k \in 1 .. Len(dhead) /\ dhead[k] = dhead[i]
      BY Zenon
    <2>2. k = i
      BY <2>1, Zenon DEF NewestCopies
    <2>3. Recovered[dhead[i]] = dlog[k]
      BY <1>1, Zenon DEF Recovered
    <2> QED BY <2>2, <2>3, Zenon
  <1>2. ASSUME NEW b \in Block, \A i \in 1 .. Len(dhead) : dhead[i] # b PROVE Recovered[b] = disk[b]
    BY <1>2, Zenon DEF Recovered
  <1> QED BY <1>1, <1>2, Zenon

(* The same of the disk after a step, for the proofs of commit() and of a  *)
(* crash.                                                                  *)
LEMMA RecoveredBecomes ==
  NewestCopies' =>
    /\ \A i \in 1 .. Len(dhead') : dhead'[i] \in Block => Recovered'[dhead'[i]] = dlog'[i]
    /\ \A b \in Block : (\A i \in 1 .. Len(dhead') : dhead'[i] # b) => Recovered'[b] = disk'[b]
  <1>1. (NewestCopies =>
          /\ \A i \in 1 .. Len(dhead) : dhead[i] \in Block => Recovered[dhead[i]] = dlog[i]
          /\ \A b \in Block : (\A i \in 1 .. Len(dhead) : dhead[i] # b) => Recovered[b] = disk[b])'
    BY RecoveredIs, PTL
  <1> QED BY <1>1

(* Both views are functions on the blocks, so two of them are compared     *)
(* block by block.                                                         *)
LEMMA Views ==
  /\ Recovered = [b \in Block |-> Recovered[b]] /\ Recovered' = [b \in Block |-> Recovered'[b]]
  /\ Visible = [b \in Block |-> Contents(b)] /\ Visible' = [b \in Block |-> Contents(b)']
  BY DEF Recovered, Visible

(* With an empty header recovery changes nothing.                          *)
LEMMA NoHead ==
  /\ LogTypeOK /\ dhead = <<>> => Recovered = disk
  /\ LogTypeOK' /\ dhead' = <<>> => Recovered' = disk'
  BY DEF Recovered, LogTypeOK

(* The commit point: the moment the header is on disk, recovery would give *)
(* the file system everything it has written.                              *)
LEMMA CommitPoint ==
  ASSUME LogInv, CopyInv, CopyInv', WriteHead
  PROVE  Recovered' = Visible
  <1>1. /\ phase = "write_head" /\ tail = Len(lh) /\ dhead' = lh
        /\ UNCHANGED <<disk, dlog>>
    BY DEF WriteHead, CopyInv, NewestCopies
  <1>2. pinned = {lh[i] : i \in 1 .. Len(lh)}
    BY <1>1 DEF CopyInv, PinsMatchLog, Up
  <1>3. \A b \in Block : Recovered'[b] = Contents(b)
    <2> SUFFICES ASSUME NEW b \in Block PROVE Recovered'[b] = Contents(b)
      OBVIOUS
    <2>1. ASSUME NEW i \in 1 .. Len(lh), lh[i] = b PROVE Recovered'[b] = Contents(b)
      <3>1. dlog[i] = Contents(lh[i])
        BY <1>1 DEF CopyInv, NewestCopies
      <3>2. Recovered'[dhead'[i]] = dlog'[i]
        BY <1>1, <2>1, RecoveredBecomes, Zenon DEF CopyInv
      <3> QED BY <1>1, <2>1, <3>1, <3>2
    <2>2. CASE \A i \in 1 .. Len(lh) : lh[i] # b
      <3>1. b \notin pinned
        BY <1>2, <2>2
      <3>2. Contents(b) = disk[b]
        BY <3>1 DEF CopyInv, NewestCopies, Contents
      <3>3. Recovered'[b] = disk'[b]
        BY <1>1, <2>2, RecoveredBecomes, Zenon DEF CopyInv
      <3> QED BY <1>1, <3>2, <3>3
    <2> QED BY <2>1, <2>2
  <1> QED BY <1>3, Views, Zenon

(* Installing a block that is in the log does not change what recovery     *)
(* would do: a second crash repeats it.                                    *)
LEMMA InstallRecovered ==
  ASSUME LogInv, CopyInv, CopyInv', Install \/ RecoverInstall
  PROVE  Recovered' = Recovered
  <1>1. /\ phase \in {"install", "recover"} /\ tail < Len(lh)
        /\ UNCHANGED <<dlog, dhead>>
        /\ dhead = lh /\ tail + 1 \in 1 .. Len(lh)
    BY DEF Install, RecoverInstall, InstallBlock, CopyInv, NewestCopies, LogInv, LogTypeOK
  <1>2. \A c \in Block \ {lh[tail + 1]} : disk'[c] = disk[c]
    BY CopyInstall
  <1>3. \A b \in Block : Recovered'[b] = Recovered[b]
    <2> SUFFICES ASSUME NEW b \in Block PROVE Recovered'[b] = Recovered[b]
      OBVIOUS
    <2>1. ASSUME NEW i \in 1 .. Len(lh), lh[i] = b PROVE Recovered'[b] = Recovered[b]
      <3>1. Recovered[dhead[i]] = dlog[i]
        BY <1>1, <2>1, RecoveredIs, Zenon DEF CopyInv
      <3>2. Recovered'[dhead'[i]] = dlog'[i]
        BY <1>1, <2>1, RecoveredBecomes, Zenon DEF CopyInv
      <3> QED BY <1>1, <2>1, <3>1, <3>2
    <2>2. CASE \A i \in 1 .. Len(lh) : lh[i] # b
      <3>1. Recovered[b] = disk[b] /\ Recovered'[b] = disk'[b]
        BY <1>1, <2>2, RecoveredIs, RecoveredBecomes, Zenon DEF CopyInv
      <3>2. b # lh[tail + 1]
        BY <1>1, <2>2
      <3> QED BY <1>2, <3>1, <3>2
    <2> QED BY <2>1, <2>2
  <1> QED BY <1>3, Views, Zenon

(* Clearing the header once every block is home changes nothing either;    *)
(* after recovery the file system reads what was recovered.                *)
LEMMA ClearRecovered ==
  ASSUME LogInv, LogInv', CopyInv, CopyInv', ClearHead \/ RecoverClear
  PROVE  Recovered' = Recovered /\ (RecoverClear => Visible' = Recovered)
  <1>1. /\ phase \in {"install", "recover"} /\ tail = Len(lh) /\ dhead = lh
        /\ dhead' = <<>> /\ UNCHANGED <<disk, cache, pinned>>
        /\ RecoverClear => phase = "recover"
    BY DEF ClearHead, RecoverClear, CopyInv, NewestCopies
  <1>2. Recovered' = disk
    BY <1>1, NoHead DEF LogInv
  <1>3. \A b \in Block : Recovered[b] = disk[b]
    <2> SUFFICES ASSUME NEW b \in Block PROVE Recovered[b] = disk[b]
      OBVIOUS
    <2>1. ASSUME NEW i \in 1 .. Len(lh), lh[i] = b PROVE Recovered[b] = disk[b]
      <3>1. disk[lh[i]] = dlog[i]
        BY <1>1 DEF CopyInv, NewestCopies
      <3>2. Recovered[dhead[i]] = dlog[i]
        BY <1>1, <2>1, RecoveredIs, Zenon DEF CopyInv
      <3> QED BY <1>1, <2>1, <3>1, <3>2
    <2>2. CASE \A i \in 1 .. Len(lh) : lh[i] # b
      BY <1>1, <2>2, RecoveredIs, Zenon DEF CopyInv
    <2> QED BY <2>1, <2>2
  <1>4. disk = [b \in Block |-> disk[b]]
    BY DEF LogInv, LogTypeOK
  <1>5. Recovered' = Recovered
    BY <1>2, <1>3, <1>4, Views, Zenon
  <1>6. RecoverClear => Visible' = Recovered
    <2> SUFFICES ASSUME RecoverClear PROVE Visible' = Recovered
      OBVIOUS
    <2>1. pinned = {}
      BY <1>1 DEF CopyInv, NewestCopies, Up
    <2>2. \A b \in Block : Contents(b)' = disk[b]
      BY <1>1, <2>1 DEF CopyInv, NewestCopies, Contents
    <2> QED BY <1>3, <2>2, Views, Zenon
  <1> QED BY <1>5, <1>6

(* The log starts as an atomic disk full of what mkfs wrote.               *)
LEMMA AtomicInit == LogInit => Atomic!Init
  <1> SUFFICES ASSUME LogInit PROVE Atomic!Init
    OBVIOUS
  <1>1. Recovered = [b \in Block |-> Blank]
    BY DEF LogInit, Recovered
  <1> QED BY <1>1 DEF LogInit, Atomic!Init, Up

(* What the file system reads: nothing before recovery is over.            *)
Current == IF Up THEN Visible ELSE Recovered

(* A step of log.c is a step of the atomic disk, or none.                  *)
LEMMA AtomicStep ==
  ASSUME LogInv, LogInv', CopyInv, CopyInv', [LogNext]_logvars
  PROVE  [Atomic!Next]_<<Recovered, Current, Running>>
  <1> DEFINE Stutters == UNCHANGED <<Recovered, Current, Running>>
  <1>a. UNCHANGED diskvars => Recovered' = Recovered
    BY DEF diskvars, Recovered
  <1>b. (\A b \in Block : Contents(b)' = Contents(b)) => Visible' = Visible
    BY Views, Zenon
  <1>c. UNCHANGED <<disk, cache>> => Visible' = Visible
    BY DEF Visible, Contents
  <1>1. ASSUME NEW p \in Thread, BeginSleep(p) PROVE Stutters
    <2>1. Running' = Running
      BY <1>1 DEF BeginSleep, Running, LogInv, LogTypeOK
    <2>2. UNCHANGED <<diskvars, disk, cache, phase>>
      BY <1>1 DEF BeginSleep, diskvars
    <2> QED BY <1>a, <1>c, <2>1, <2>2 DEF Current, Up
  <1>2. ASSUME NEW p \in Thread, BeginOp(p) PROVE Atomic!Begin(p)
    <2>1. p \notin Running /\ Running' = Running \cup {p}
      BY <1>2 DEF BeginOp, Running, LogInv, LogTypeOK
    <2>2. UNCHANGED <<diskvars, disk, cache, phase>>
      BY <1>2 DEF BeginOp, diskvars
    <2> QED BY <1>a, <1>c, <2>1, <2>2 DEF Current, Up, Atomic!Begin, Running
  <1>3. ASSUME NEW p \in Thread, EndOp(p) \/ EndLastOp(p) PROVE Atomic!End(p)
    <2>1. p \in Running /\ Running' = Running \ {p}
      BY <1>3 DEF EndOp, EndLastOp, WakeAll, Running, LogInv, LogTypeOK
    <2>2. UNCHANGED <<diskvars, disk, cache>> /\ Up /\ Up'
      BY <1>3, <2>1 DEF EndOp, EndLastOp, diskvars, Up, LogInv, PhaseInv
    <2> QED BY <1>a, <1>c, <2>1, <2>2 DEF Current, Atomic!End, Running
  <1>4. ASSUME NEW p \in Thread, NEW b \in Block, NEW v \in Val, LogWrite(p, b, v)
        PROVE  Atomic!Write(p, b, v)
    <2>1. p \in Running /\ Running' = Running
      BY <1>4 DEF LogWrite, Running
    <2>2. UNCHANGED diskvars
      BY <1>4 DEF LogWrite
    <2>3. Up /\ Up' /\ \A c \in Block : Contents(c)' = IF c = b THEN v ELSE Contents(c)
      BY <1>4, CopyWrite DEF Up
    <2>4. Visible' = [Visible EXCEPT ![b] = v]
      BY <2>3, Views
    <2> QED BY <1>a, <2>1, <2>2, <2>3, <2>4 DEF Current, Atomic!Write, Running
  <1>5. ASSUME NEW b \in Block, Load(b) \/ Recycle(b) PROVE Stutters
    <2>1. UNCHANGED <<diskvars, op, phase>>
      BY <1>5 DEF Load, Recycle, memvars
    <2>2. \A c \in Block : Contents(c)' = Contents(c)
      BY <1>5, CopyCache
    <2> QED BY <1>a, <1>b, <2>1, <2>2 DEF Current, Up, Running
  <1>6. CASE WriteLog
    <2>1. dhead = <<>> /\ dhead' = <<>> /\ UNCHANGED <<disk, op>> /\ Up /\ Up'
      BY <1>6 DEF WriteLog, memvars, Up, CopyInv, NewestCopies
    <2>2. Recovered' = Recovered
      BY <2>1, NoHead DEF LogInv
    <2>3. \A c \in Block : Contents(c)' = Contents(c)
      BY <1>6, CopyWriteLog
    <2> QED BY <1>b, <2>1, <2>2, <2>3 DEF Current, Running
  <1>7. CASE WriteHead
    <2>1. UNCHANGED <<disk, cache, op>> /\ Up /\ Up' /\ Running = {}
      BY <1>7 DEF WriteHead, memvars, Up, LogInv, PhaseInv
    <2>2. Recovered' = Visible
      BY <1>7, CommitPoint
    <2> QED BY <1>c, <2>1, <2>2 DEF Current, Atomic!Commit, Atomic!Next, Running
  <1>8. CASE Install \/ RecoverInstall
    <2>1. UNCHANGED <<op, phase>> /\ phase \in {"install", "recover"}
      BY <1>8 DEF Install, RecoverInstall, memvars
    <2>2. phase = "install" => \A c \in Block : Contents(c)' = Contents(c)
      BY <1>8, CopyInstall
    <2>3. Recovered' = Recovered
      BY <1>8, InstallRecovered
    <2> QED BY <1>b, <2>1, <2>2, <2>3 DEF Current, Up, Running
  <1>9. CASE ClearHead \/ RecoverClear
    <2>1. Recovered' = Recovered /\ (RecoverClear => Visible' = Recovered)
      BY <1>9, ClearRecovered
    <2>2. UNCHANGED <<disk, cache, op>> /\ Up' /\ (Up \/ RecoverClear) /\ (RecoverClear => ~Up)
      BY <1>9 DEF ClearHead, RecoverClear, Up
    <2> QED BY <1>c, <2>1, <2>2 DEF Current, Running
  <1>10. ASSUME NEW p \in Thread, CommitDone(p) PROVE Stutters
    <2>1. UNCHANGED <<diskvars, disk, cache>> /\ Up /\ Up'
      BY <1>10 DEF CommitDone, diskvars, Up
    <2>2. Running' = Running
      BY <1>10 DEF CommitDone, WakeAll, Running, LogInv, LogTypeOK
    <2> QED BY <1>a, <1>c, <2>1, <2>2 DEF Current
  <1>11. CASE Crash
    <2>1. UNCHANGED diskvars /\ ~Up' /\ Running' = {}
      BY <1>11 DEF Crash, Up, Running
    <2> QED BY <1>a, <2>1 DEF Current, Atomic!Crash, Atomic!Next, Running
  <1>12. CASE ReadHead
    <2>1. UNCHANGED <<diskvars, op>> /\ ~Up /\ ~Up'
      BY <1>12 DEF ReadHead, Up
    <2> QED BY <1>a, <2>1 DEF Current, Running
  <1>13. CASE UNCHANGED logvars
    BY <1>a, <1>c, <1>13 DEF logvars, diskvars, memvars, Current, Up, Running
  <1>14. (\E p \in Thread : Atomic!Begin(p) \/ Atomic!End(p)) => Atomic!Next
    BY DEF Atomic!Next
  <1>15. (\E p \in Thread, b \in Block, v \in Val : Atomic!Write(p, b, v)) => Atomic!Next
    BY DEF Atomic!Next
  <1> QED BY <1>1, <1>2, <1>3, <1>4, <1>5, <1>6, <1>7, <1>8, <1>9, <1>10, <1>11, <1>12, <1>13,
             <1>14, <1>15, Zenon DEF LogNext, CommitStep, RecoveryStep, Stutters

-----------------------------------------------------------------------------
(* The operations between begin_op() and end_op() are finitely many.       *)
LEMMA RunningFinite == IsFiniteSet(Running)
  BY ThreadAssumption, FS_Subset DEF Running

(* The slots begin_op() has reserved and log_write() has not used are at   *)
(* most MAXOPBLOCKS for each operation.                                    *)
LEMMA CreditsFinite ==
  /\ IsFiniteSet(Credits)
  /\ Cardinality(Credits) \in Nat
  /\ Cardinality(Credits) <= Cardinality(Running) * MAXOPBLOCKS
  <1>1. IsFiniteSet(1 .. MAXOPBLOCKS) /\ Cardinality(1 .. MAXOPBLOCKS) = MAXOPBLOCKS
    BY FS_Interval, SizeAssumption
  <1>2. /\ IsFiniteSet(Running \X (1 .. MAXOPBLOCKS))
        /\ Cardinality(Running \X (1 .. MAXOPBLOCKS)) = Cardinality(Running) * MAXOPBLOCKS
    BY <1>1, RunningFinite, FS_Product, Zenon
  <1>3. Credits \subseteq Running \X (1 .. MAXOPBLOCKS)
    BY DEF Credits
  <1> QED BY <1>2, <1>3, FS_Subset, FS_CardinalityType

(* initlog() starts with an empty log and nobody in it.                    *)
LEMMA LogInitInv == LogInit => LogInv
  <1> SUFFICES ASSUME LogInit PROVE LogInv
    OBVIOUS
  <1> USE DEF LogInit
  <1>1. LogTypeOK
    <2>1. committing \in BOOLEAN
      BY Zenon
    <2> QED BY <2>1, ValAssumption, SizeAssumption DEF LogTypeOK, OpStates, Phases
  <1>2. Running = {}
    BY DEF Running
  <1>3. Credits = {} /\ Cardinality(Credits) = 0 /\ Cardinality(Running) = 0
    BY <1>2, FS_EmptySet, Zenon DEF Credits
  <1>4. SpaceInv
    BY <1>2, <1>3, SizeAssumption DEF SpaceInv
  <1>5. PhaseInv
    BY <1>2 DEF PhaseInv, Up
  <1> QED BY <1>1, <1>4, <1>5 DEF LogInv, NoLogPanic, SleeperWillBeWoken

(* A running operation has a credit left, so the header is not full when   *)
(* it calls log_write().                                                   *)
LEMMA PanicFree ==
  ASSUME LogTypeOK, SpaceInv, PhaseInv
  PROVE  NoLogPanic
  <1> SUFFICES ASSUME NEW p \in Thread, op[p] = "running"
               PROVE  Len(lh) < LOGBLOCKS /\ outstanding >= 1 /\ ~committing
    BY DEF NoLogPanic
  <1>1. p \in Running
    BY DEF Running
  <1>2. <<p, MAXOPBLOCKS>> \in Credits
    BY <1>1, SizeAssumption DEF Credits, SpaceInv, LogTypeOK
  <1>3. Cardinality(Credits) # 0 /\ Cardinality(Running) # 0
    BY <1>1, <1>2, CreditsFinite, RunningFinite, FS_EmptySet, SMTT(20)
  <1> QED BY <1>1, <1>3, CreditsFinite, RunningFinite, FS_CardinalityType, SizeAssumption
          DEF SpaceInv, PhaseInv, LogTypeOK

(* Type correctness is kept by every step of log.c.                        *)
LEMMA TypeStep == LogInv /\ [LogNext]_logvars => LogTypeOK'
  <1> SUFFICES ASSUME LogInv, [LogNext]_logvars PROVE LogTypeOK'
    OBVIOUS
  <1>0. Len(lh) <= LOGBLOCKS
    BY CreditsFinite, SizeAssumption DEF LogInv, SpaceInv, LogTypeOK
  <1> USE ValAssumption, SizeAssumption
      DEF LogInv, LogTypeOK, diskvars, memvars, OpStates, Phases, WakeAll
  <1>a. \A b \in Block : Contents(b) \in Val
    BY DEF Contents
  <1>1. ASSUME NEW p \in Thread, BeginSleep(p) PROVE LogTypeOK'
    BY <1>1 DEF BeginSleep
  <1>2. ASSUME NEW p \in Thread, BeginOp(p) PROVE LogTypeOK'
    BY <1>2 DEF BeginOp
  <1>3. ASSUME NEW p \in Thread, EndOp(p) PROVE LogTypeOK'
    BY <1>3 DEF EndOp, NoLogPanic
  <1>4. ASSUME NEW p \in Thread, EndLastOp(p) PROVE LogTypeOK'
    BY <1>4, SMTT(20) DEF EndLastOp
  <1>5. ASSUME NEW p \in Thread, NEW b \in Block, NEW v \in Val, LogWrite(p, b, v)
        PROVE  LogTypeOK'
    <2>1. CASE InLog(b) /\ UNCHANGED <<lh, pinned, written>>
      BY <1>5, <2>1 DEF LogWrite
    <2>2. CASE /\ lh' = Append(lh, b)
               /\ pinned' = pinned \cup {b}
               /\ written' = [written EXCEPT ![p] = @ + 1]
      BY <1>5, <2>2 DEF LogWrite
    <2> QED BY <1>5, <2>1, <2>2 DEF LogWrite
  <1>6. ASSUME NEW b \in Block, Load(b) PROVE LogTypeOK'
    BY <1>6, <1>a DEF Load
  <1>7. ASSUME NEW b \in Block, Recycle(b) PROVE LogTypeOK'
    BY <1>7 DEF Recycle
  <1>8. CASE WriteLog
    <2>1. lh[tail + 1] \in Block
      BY <1>8 DEF WriteLog, PhaseInv
    <2>2. Contents(lh[tail + 1]) \in Val
      BY <2>1, <1>a
    <2>3. dlog' \in [1 .. LOGBLOCKS -> Val] /\ cache' \in [Block -> Val \cup {NotCached}]
      BY <2>2, <1>8, Zenon DEF WriteLog
    <2> QED BY <1>8, <2>3 DEF WriteLog
  <1>9. CASE WriteHead
    BY <1>9 DEF WriteHead
  <1>10. CASE ClearHead
    BY <1>10 DEF ClearHead
  <1>11. CASE Install \/ RecoverInstall
    <2>1. InstallBlock
      BY <1>11 DEF Install, RecoverInstall
    <2>2. lh[tail + 1] \in Block /\ dlog[tail + 1] \in Val
      BY <2>1, <1>0 DEF InstallBlock
    <2>3. disk' \in [Block -> Val] /\ cache' \in [Block -> Val \cup {NotCached}] /\ tail' \in Nat
      BY <2>1, <2>2 DEF InstallBlock
    <2> QED BY <1>11, <2>3 DEF Install, RecoverInstall
  <1>12. ASSUME NEW p \in Thread, CommitDone(p) PROVE LogTypeOK'
    BY <1>12, Zenon DEF CommitDone
  <1>13. CASE Crash
    <2>1. committing' \in BOOLEAN /\ op' \in [Thread -> OpStates] /\ written' \in [Thread -> Nat]
      BY <1>13, Zenon DEF Crash
    <2> QED BY <1>13, <2>1 DEF Crash
  <1>14. CASE ReadHead
    BY <1>14 DEF ReadHead, SpaceInv
  <1>15. CASE RecoverClear
    BY <1>15 DEF RecoverClear
  <1>16. CASE UNCHANGED logvars
    BY <1>16 DEF logvars
  <1> QED BY <1>1, <1>2, <1>3, <1>4, <1>5, <1>6, <1>7, <1>8, <1>9, <1>10, <1>11,
             <1>12, <1>13, <1>14, <1>15, <1>16 DEF LogNext, CommitStep, RecoveryStep

(* What remains of LogInv beside types and NoLogPanic.                     *)
Rest == SpaceInv /\ PhaseInv /\ SleeperWillBeWoken

(* A step that neither starts nor ends an operation, nor uses a slot,      *)
(* leaves the reservations as they are.                                    *)
LEMMA SameReservation ==
  ASSUME op' \in [Thread -> OpStates],
         \A p \in Thread : op'[p] = "running" <=> op[p] = "running",
         \A p \in Running : written'[p] = written[p]
  PROVE  Running' = Running /\ Credits' = Credits
  <1>1. Running' = Running
    BY DEF Running
  <1> QED BY <1>1 DEF Credits

(* begin_op() admits an operation only when MAXOPBLOCKS more slots fit     *)
(* beside what the others still have coming.                               *)
LEMMA BeginOpStep ==
  ASSUME LogInv, LogTypeOK', NEW p \in Thread, BeginOp(p)
  PROVE  Rest'
  <1> USE DEF LogInv, BeginOp, MustWait, Rest
  <1>1. Running' = Running \cup {p} /\ p \notin Running
    BY DEF Running, LogTypeOK
  <1>2. Cardinality(Running') = outstanding + 1
    BY <1>1, RunningFinite, FS_AddElement, SMTT(20) DEF SpaceInv
  <1>3. (/\ IsFiniteSet(Credits)
         /\ Cardinality(Credits) \in Nat
         /\ Cardinality(Credits) <= Cardinality(Running) * MAXOPBLOCKS)'
    BY CreditsFinite, PTL
  <1>4. Len(lh) + (outstanding + 1) * MAXOPBLOCKS <= LOGBLOCKS
    BY SizeAssumption DEF LogTypeOK
  <1>5. Len(lh') + Cardinality(Credits') <= LOGBLOCKS
    BY <1>2, <1>3, <1>4, SizeAssumption, SMTT(20) DEF LogTypeOK
  <1>6. SpaceInv'
    BY <1>1, <1>2, <1>5, SizeAssumption, SMTT(20) DEF SpaceInv, LogTypeOK, diskvars, Running
  <1>7. phase = "run"
    BY DEF PhaseInv, Up, LogTypeOK, Phases
  <1>8. PhaseInv'
    BY <1>7 DEF PhaseInv, Up, LogTypeOK
  <1>9. SleeperWillBeWoken'
    BY DEF SleeperWillBeWoken, LogTypeOK
  <1> QED BY <1>6, <1>8, <1>9

(* begin_op() puts a thread to sleep only while a commit or another        *)
(* operation is under way.                                                 *)
LEMMA BeginSleepStep ==
  ASSUME LogInv, LogTypeOK', NEW p \in Thread, BeginSleep(p)
  PROVE  Rest'
  <1> USE DEF LogInv, BeginSleep, MustWait, Rest
  <1>1. Running' = Running /\ Credits' = Credits
    BY SameReservation DEF LogTypeOK, Running
  <1>2. SpaceInv' /\ PhaseInv'
    BY <1>1 DEF SpaceInv, PhaseInv, Up, diskvars
  <1>3. outstanding > 0 \/ committing
    <2> SUFFICES ASSUME outstanding = 0, ~committing PROVE FALSE
      BY DEF LogTypeOK
    <2>1. Len(lh) = 0
      BY DEF PhaseInv, Up, LogTypeOK, Phases
    <2> QED BY <2>1, SizeAssumption
  <1> QED BY <1>2, <1>3 DEF SleeperWillBeWoken

(* log_write() pays for a new header entry with one of the credits of its  *)
(* operation; an absorbed write costs nothing.                             *)
LEMMA LogWriteStep ==
  ASSUME LogInv, LogTypeOK', NEW p \in Thread, NEW b \in Block, NEW v \in Val, LogWrite(p, b, v)
  PROVE  Rest'
  <1> USE DEF LogInv, Rest
  <1>1. Running' = Running /\ p \in Running
    BY DEF Running, LogWrite
  <1>2. phase = "run"
    BY <1>1, SMTT(20) DEF PhaseInv, LogTypeOK, Phases
  <1>3. PhaseInv' /\ SleeperWillBeWoken'
    BY <1>1, <1>2, SMTT(20) DEF PhaseInv, SleeperWillBeWoken, Up, LogWrite, LogTypeOK
  <1>4. CASE InLog(b) /\ UNCHANGED <<lh, pinned, written>>
    <2>1. Credits' = Credits
      BY <1>1, <1>4, SMTT(20) DEF Credits
    <2> QED BY <1>1, <1>3, <1>4, <2>1, Zenon DEF SpaceInv, LogWrite, diskvars
  <1>5. CASE /\ written[p] < OpBlocks
             /\ lh' = Append(lh, b)
             /\ written' = [written EXCEPT ![p] = @ + 1]
    <2> DEFINE c == <<p, written[p] + 1>>
    <2>1. c \in Credits
      BY <1>1, <1>5, SizeAssumption DEF Credits, LogTypeOK
    <2>2. Credits' = Credits \ {c}
      <3>1. \A q \in Running, i \in 1 .. MAXOPBLOCKS :
               written'[q] < i <=> written[q] < i /\ <<q, i>> # c
        BY <1>5, SizeAssumption DEF LogTypeOK, Running
      <3> QED BY <1>1, <3>1 DEF Credits
    <2>3. Cardinality(Credits') = Cardinality(Credits) - 1
      BY <2>1, <2>2, CreditsFinite, FS_RemoveElement, Zenon
    <2>4. Len(lh') = Len(lh) + 1
      BY <1>5 DEF LogTypeOK
    <2>5. Len(lh') + Cardinality(Credits') <= LOGBLOCKS
      BY <2>3, <2>4, CreditsFinite DEF SpaceInv, LogTypeOK
    <2>6. \A q \in Running : written'[q] <= OpBlocks
      BY <1>5, SizeAssumption DEF SpaceInv, LogTypeOK, Running
    <2> QED BY <1>1, <1>3, <2>5, <2>6, Zenon DEF SpaceInv, LogWrite, diskvars
  <1> QED BY <1>4, <1>5 DEF LogWrite

(* end_op() gives back the credits that were not used, and the last one    *)
(* starts the commit.                                                      *)
LEMMA EndOpStep ==
  ASSUME LogInv, LogTypeOK', NEW p \in Thread, EndOp(p) \/ EndLastOp(p)
  PROVE  Rest'
  <1> USE DEF LogInv, Rest
  <1>1. p \in Running /\ Running' = Running \ {p}
    BY DEF Running, EndOp, EndLastOp, WakeAll, LogTypeOK
  <1>2. outstanding' = Cardinality(Running')
    <2>1. Cardinality(Running') = outstanding - 1
      BY <1>1, RunningFinite, FS_RemoveElement, Zenon DEF SpaceInv
    <2>2. outstanding' = outstanding - 1
      BY DEF EndOp, EndLastOp
    <2> QED BY <2>1, <2>2
  <1>3. Credits' \subseteq Credits
    BY <1>1 DEF Credits, EndOp, EndLastOp
  <1>4. Cardinality(Credits') \in Nat /\ Cardinality(Credits') <= Cardinality(Credits)
    BY <1>3, CreditsFinite, FS_Subset, FS_CardinalityType
  <1>5. SpaceInv'
    BY <1>1, <1>2, <1>4, CreditsFinite, SizeAssumption, SMTT(20)
       DEF SpaceInv, EndOp, EndLastOp, diskvars, LogTypeOK
  <1>6. phase = "run"
    BY <1>1 DEF PhaseInv, LogTypeOK, Phases
  <1>7. CASE EndOp(p)
    BY <1>1, <1>5, <1>6, <1>7, SMTT(20) DEF EndOp, PhaseInv, SleeperWillBeWoken, WakeAll, Up, NoLogPanic,
                           LogTypeOK
  <1>8. CASE EndLastOp(p)
    <2>1. Running' = {}
      <3>1. IsFiniteSet(Running') /\ Cardinality(Running') = 0
        BY <1>1, <1>2, <1>8, RunningFinite, FS_Subset DEF EndLastOp
      <3> QED BY <3>1, FS_EmptySet
    <2> QED BY <1>5, <1>6, <1>8, <2>1 DEF EndLastOp, PhaseInv, SleeperWillBeWoken, Up, LogTypeOK
  <1> QED BY <1>7, <1>8

(* The buffer cache, the commit, recovery and a crash keep the bookkeeping *)
(* of log.c.                                                               *)
LEMMA QuietLogStep ==
  ASSUME LogInv, LogTypeOK',
         \/ \E b \in Block : Load(b) \/ Recycle(b)
         \/ CommitStep \/ RecoveryStep \/ Crash \/ UNCHANGED logvars
  PROVE  Rest'
  <1> USE DEF LogInv, Rest
  <1>1. CASE (\E b \in Block : Load(b) \/ Recycle(b)) \/ UNCHANGED logvars
    <2>1. UNCHANGED <<memvars, phase, tail, dhead>>
      BY <1>1 DEF Load, Recycle, logvars, diskvars
    <2> QED BY <2>1 DEF memvars, SpaceInv, PhaseInv, SleeperWillBeWoken, Up, Running, Credits
  <1>2. CASE CommitStep \/ RecoveryStep \/ Crash
    <2>1. Running' = {} /\ (Crash \/ Running = {})
      <3>1. CASE Crash
        BY <3>1 DEF Crash, Running
      <3>2. CASE ~Crash
        <4>1. phase # "run" /\ (UNCHANGED op \/ \E p \in Thread : CommitDone(p))
          BY <1>2, <3>2, Zenon DEF CommitStep, RecoveryStep, WriteLog, WriteHead, Install, ClearHead,
                                   CommitDone, ReadHead, RecoverInstall, RecoverClear, memvars
        <4>2. Running = {}
          BY <4>1 DEF PhaseInv
        <4> QED BY <4>1, <4>2, Zenon DEF CommitDone, WakeAll, Running, LogTypeOK
      <3> QED BY <3>1, <3>2
    <2>2. Credits' = {} /\ Cardinality(Credits') = 0 /\ Cardinality(Running') = 0
      BY <2>1, FS_EmptySet DEF Credits
    <2>3. outstanding' = 0
      BY <1>2, <2>1, FS_EmptySet, Zenon
         DEF CommitStep, RecoveryStep, Crash, WriteLog, WriteHead, Install, ClearHead, CommitDone,
             ReadHead, RecoverInstall, RecoverClear, memvars, SpaceInv
    <2>4. Len(lh) <= LOGBLOCKS
      BY CreditsFinite, SizeAssumption DEF SpaceInv, LogTypeOK
    <2>5. lh' \in {lh, dhead, <<>>} /\ dhead' \in {lh, dhead, <<>>}
      BY <1>2, Zenon DEF CommitStep, RecoveryStep, Crash, WriteLog, WriteHead, Install, ClearHead,
                  CommitDone, ReadHead, RecoverInstall, RecoverClear, memvars, diskvars
    <2>6. SpaceInv'
      <3>1. Len(lh') <= LOGBLOCKS /\ Len(dhead') <= LOGBLOCKS
        BY <2>4, <2>5, SizeAssumption, SMTT(20) DEF SpaceInv
      <3> QED BY <2>1, <2>2, <2>3, <3>1, SizeAssumption DEF SpaceInv, LogTypeOK
    <2>7. PhaseInv' /\ SleeperWillBeWoken'
      <3> USE <2>1, <2>3 DEF PhaseInv, SleeperWillBeWoken, Up, LogTypeOK, Phases
      <3>1. CASE WriteLog \/ WriteHead \/ Install \/ ClearHead
        BY <3>1, SMTT(20) DEF WriteLog, WriteHead, Install, ClearHead, InstallBlock, memvars
      <3>2. ASSUME NEW p \in Thread, CommitDone(p) PROVE PhaseInv' /\ SleeperWillBeWoken'
        BY <3>2, SMTT(20) DEF CommitDone, WakeAll
      <3>3. CASE RecoveryStep \/ Crash
        BY <3>3 DEF RecoveryStep, ReadHead, RecoverInstall, RecoverClear, InstallBlock, Crash, memvars
      <3> QED BY <1>2, <3>1, <3>2, <3>3, SMTT(20) DEF CommitStep
    <2> QED BY <2>6, <2>7
  <1> QED BY <1>1, <1>2

(* Every step keeps the invariant of the log.                              *)
LEMMA LogNextInv == LogInv /\ [LogNext]_logvars => LogInv'
  <1> SUFFICES ASSUME LogInv, [LogNext]_logvars PROVE LogInv'
    OBVIOUS
  <1>1. LogTypeOK'
    BY TypeStep
  <1>2. Rest'
    BY <1>1, BeginOpStep, BeginSleepStep, LogWriteStep, EndOpStep, QuietLogStep DEF LogNext
  <1>3. LogTypeOK /\ SpaceInv /\ PhaseInv => NoLogPanic
    BY PanicFree
  <1>4. (LogTypeOK /\ SpaceInv /\ PhaseInv => NoLogPanic)'
    BY PanicFree, PTL
  <1> QED BY <1>1, <1>2, <1>4 DEF LogInv, Rest

(* The invariant of the log holds in every reachable state, for any number *)
(* of threads, blocks and sizes that satisfy the assumptions.              *)
THEOREM LogInvariant == LogSpec => []LogInv
  BY LogInitInv, LogNextInv, PTL DEF LogSpec

(* Type correctness of the log.                                            *)
THEOREM LogTypes == LogSpec => []LogTypeOK
  <1>1. LogInv => LogTypeOK
    BY DEF LogInv
  <1> QED BY <1>1, LogInvariant, PTL

(* log_write() never finds the log full and never runs outside a           *)
(* transaction; end_op() never finds a commit in progress.                 *)
THEOREM NoPanic == LogSpec => []NoLogPanic
  <1>1. LogInv => NoLogPanic
    BY DEF LogInv
  <1> QED BY <1>1, LogInvariant, PTL

(* A thread asleep in begin_op() always has an operation or a commit ahead *)
(* whose end wakes it.                                                     *)
THEOREM NobodyForgotten == LogSpec => []SleeperWillBeWoken
  <1>1. LogInv => SleeperWillBeWoken
    BY DEF LogInv
  <1> QED BY <1>1, LogInvariant, PTL

(* Pins, the copies of every block and the durability of an idle log hold  *)
(* in every reachable state, crashes at any disk write included.           *)
THEOREM CopiesInvariant == LogSpec => []CopiesKept
  <1>1. LogInv /\ CopyInv => CopiesKept
    <2> SUFFICES ASSUME LogInv, CopyInv, phase = "run", outstanding = 0 PROVE Recovered = Visible
      BY DEF CopiesKept, CopyInv, IdleIsDurable
    <2>1. dhead = <<>> /\ pinned = {}
      BY DEF LogInv, PhaseInv, LogTypeOK, CopyInv, PinsMatchLog, NewestCopies, Up
    <2>2. \A b \in Block : Contents(b) = disk[b]
      BY <2>1 DEF CopyInv, NewestCopies, Contents
    <2> QED BY <2>1, <2>2, NoHead, Views DEF LogInv, LogTypeOK
  <1>2. LogInit => CopyInv
    BY CopyInit
  <1>3. LogInv /\ CopyInv /\ [LogNext]_logvars => CopyInv'
    BY CopyNext
  <1> QED BY <1>1, <1>2, <1>3, LogInvariant, PTL DEF LogSpec

(* The write-ahead log implements atomic transactions: for any number of   *)
(* threads and blocks, any sizes the assumptions allow and a crash at any  *)
(* disk write, also during recovery, the disk holds a whole number of      *)
(* group commits.                                                          *)
THEOREM LogIsAtomic == LogSpec => AtomicSpec
  <1>1. LogInit => CopyInv /\ Atomic!Init
    BY CopyInit, AtomicInit
  <1>2. LogInv /\ CopyInv /\ [LogNext]_logvars => CopyInv'
    BY CopyNext
  <1>3. LogInv /\ LogInv' /\ CopyInv /\ CopyInv' /\ [LogNext]_logvars
        => [Atomic!Next]_<<Recovered, Current, Running>>
    BY AtomicStep
  <1> QED BY <1>1, <1>2, <1>3, LogInvariant, PTL DEF LogSpec, AtomicSpec, Atomic!Spec, Current, Running
=============================================================================
