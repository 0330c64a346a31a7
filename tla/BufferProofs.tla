---------------------------- MODULE BufferProofs ----------------------------
(***************************************************************************)
(* Proofs that the reference counts, locks and contents of the buffer      *)
(* cache agree whatever the number of threads, buffers and blocks, that    *)
(* the cache implements BlockStore, and that bget() panics only over a     *)
(* full cache.                                                             *)
(***************************************************************************)
EXTENDS BufferCache, FiniteSetTheorems, TLAPS

(* A step of the cache is one of its operations, or leaves all but the     *)
(* panic as it is.                                                         *)
LEMMA StepOrStutter ==
  ASSUME [BufNext]_bufvars PROVE BufStep \/ UNCHANGED cachevars
  BY DEF BufNext, BGetPanic, bufvars

(* The users of a buffer are finitely many threads.                        *)
LEMMA UsersFinite ==
  ASSUME NEW b \in Buf
  PROVE  /\ IsFiniteSet(Users(b)) /\ Cardinality(Users(b)) \in Nat
         /\ Cardinality(Users(b)) = 0 <=> Users(b) = {}
  <1>1. IsFiniteSet(Users(b))
    BY BufAssumption, FS_Subset DEF Users
  <1> QED BY <1>1, FS_CardinalityType, FS_EmptySet

(* A buffer somebody uses has references; one without is neither locked,   *)
(* awaited nor pinned.                                                     *)
LEMMA UsedIsCounted ==
  ASSUME BufInv, NEW b \in Buf
  PROVE  /\ \A t \in Users(b) : refcnt[b] > 0
         /\ b \in pinned => refcnt[b] > 0
         /\ refcnt[b] = 0 => lockedby[b] = NoTask
  <1>1. refcnt[b] = Cardinality(Users(b)) + (IF b \in pinned THEN 1 ELSE 0)
    BY DEF BufInv, RefcntExact
  <1>2. refcnt[b] = 0 => Users(b) = {} /\ b \notin pinned
    BY <1>1, UsersFinite
  <1>3. refcnt[b] \in Nat
    BY DEF BufInv, BufTypeOK
  <1>4. lockedby[b] # NoTask => lockedby[b] \in Users(b)
    BY DEF BufInv, BufTypeOK, Users
  <1> QED BY <1>2, <1>3, <1>4

(* binit() leaves every buffer unused, unlocked and without a block.       *)
LEMMA BufInitInv == ASSUME BufInit PROVE BufInv
  <1> USE DEF BufInit
  <1>1. BufTypeOK
    BY BufAssumption DEF BufTypeOK, BioPlaces
  <1>2. RefcntExact
    <2> SUFFICES ASSUME NEW b \in Buf
                 PROVE  refcnt[b] = Cardinality(Users(b)) + (IF b \in pinned THEN 1 ELSE 0)
      BY DEF RefcntExact
    <2>1. Users(b) = {}
      BY BufAssumption DEF Users
    <2> QED BY <2>1, FS_EmptySet
  <1>3. BufferUse
    BY BufAssumption DEF BufferUse, Cached
  <1>4. SleepsForHolder
    BY DEF SleepsForHolder
  <1> QED BY <1>1, <1>2, <1>3, <1>4 DEF BufInv

-----------------------------------------------------------------------------
(* bget() gives a buffer one more user, the end of brelse() one less.      *)
LEMMA UserJoins ==
  ASSUME NEW b \in Buf, NEW t \in Task, t \notin Users(b), Users(b)' = Users(b) \cup {t}
  PROVE  Cardinality(Users(b)') = Cardinality(Users(b)) + 1
  BY UsersFinite, FS_AddElement, Zenon

(* brelse() takes its caller off the users of the buffer again.            *)
LEMMA UserLeaves ==
  ASSUME NEW b \in Buf, NEW t \in Task, t \in Users(b), Users(b)' = Users(b) \ {t}
  PROVE  Cardinality(Users(b)') = Cardinality(Users(b)) - 1
  BY UsersFinite, FS_RemoveElement, Zenon

(* bget() that finds the block: the reference is taken for a caller who    *)
(* does not use the buffer yet.                                            *)
LEMMA BGetHitInv ==
  ASSUME BufInv, NEW t \in Task, NEW k \in BlockNo, BGetHit(t, k)
  PROVE  BufInv'
  <1> USE DEF BGetHit, MayAsk
  <1>1. PICK b \in Cached(k) : /\ refcnt' = [refcnt EXCEPT ![b] = @ + 1]
                               /\ cur' = [cur EXCEPT ![t] = b]
    BY Zenon
  <1>2. b \in Buf /\ blockno[b] = k /\ lockedby[b] # t
    BY DEF Cached, Held
  <1>3. BufTypeOK'
    BY <1>1, <1>2 DEF BufInv, BufTypeOK, BioPlaces
  <1>4. RefcntExact'
    <2> SUFFICES ASSUME NEW c \in Buf
                 PROVE  refcnt'[c] = Cardinality(Users(c)') + (IF c \in pinned THEN 1 ELSE 0)
      BY DEF RefcntExact
    <2>1. CASE c = b
      <3>1. t \notin Users(c) /\ Users(c)' = Users(c) \cup {t}
        BY <1>1, <1>2, <2>1 DEF Users, BufInv, BufTypeOK
      <3>2. Cardinality(Users(c)') = Cardinality(Users(c)) + 1
        BY <3>1, UserJoins
      <3>3. refcnt'[c] = refcnt[c] + 1
        BY <1>1, <1>2, <2>1 DEF BufInv, BufTypeOK
      <3> QED BY <3>2, <3>3, UsersFinite DEF BufInv, RefcntExact
    <2>2. CASE c # b
      <3>1. Users(c)' = Users(c)
        BY <1>1, <1>2, <2>2 DEF Users, BufInv, BufTypeOK
      <3> QED BY <1>1, <1>2, <2>2, <3>1 DEF BufInv, RefcntExact, BufTypeOK
    <2> QED BY <2>1, <2>2
  <1>5. BufferUse'
    BY <1>1, <1>2, BufAssumption DEF BufInv, BufferUse, BufTypeOK, Cached
  <1>6. SleepsForHolder'
    BY <1>1, <1>2 DEF BufInv, SleepsForHolder, BufTypeOK
  <1> QED BY <1>3, <1>4, <1>5, <1>6 DEF BufInv

(* bget() that recycles a buffer without references: nobody used it.       *)
LEMMA BGetMissInv ==
  ASSUME BufInv, NEW t \in Task, NEW k \in BlockNo, BGetMiss(t, k)
  PROVE  BufInv'
  <1> USE DEF BGetMiss, MayAsk
  <1>1. PICK b \in Victims : /\ blockno' = [blockno EXCEPT ![b] = k]
                             /\ bvalid' = [bvalid EXCEPT ![b] = FALSE]
                             /\ refcnt' = [refcnt EXCEPT ![b] = 1]
                             /\ cur' = [cur EXCEPT ![t] = b]
    BY Zenon
  <1>2. b \in Buf /\ refcnt[b] = 0
    BY DEF Victims
  <1>3. Users(b) = {} /\ b \notin pinned /\ lockedby[b] = NoTask
    BY <1>2, UsedIsCounted DEF Users, BufInv, BufTypeOK
  <1>4. BufTypeOK'
    BY <1>1, <1>2 DEF BufInv, BufTypeOK, BioPlaces
  <1>5. RefcntExact'
    <2> SUFFICES ASSUME NEW c \in Buf
                 PROVE  refcnt'[c] = Cardinality(Users(c)') + (IF c \in pinned THEN 1 ELSE 0)
      BY DEF RefcntExact
    <2>1. CASE c = b
      <3>1. Users(c)' = Users(c) \cup {t}
        BY <1>1, <1>2, <1>3, <2>1 DEF Users, BufInv, BufTypeOK
      <3>2. Cardinality(Users(c)') = Cardinality(Users(c)) + 1
        BY <1>3, <2>1, <3>1, UserJoins, Zenon
      <3>3. Cardinality(Users(c)) = 0
        BY <1>3, <2>1, FS_EmptySet, Zenon
      <3>4. refcnt'[c] = 1 /\ c \notin pinned
        BY <1>1, <1>2, <1>3, <2>1 DEF BufInv, BufTypeOK
      <3> HIDE DEF BGetMiss
      <3> QED BY <3>2, <3>3, <3>4
    <2>2. CASE c # b
      <3>1. Users(c)' = Users(c)
        BY <1>1, <1>2, <2>2 DEF Users, BufInv, BufTypeOK
      <3> QED BY <1>1, <1>2, <2>2, <3>1 DEF BufInv, RefcntExact, BufTypeOK
    <2> QED BY <2>1, <2>2
  <1>6. BufferUse'
    BY <1>1, <1>2, <1>3, BufAssumption DEF BufInv, BufferUse, BufTypeOK, Cached, Users
  <1>7. SleepsForHolder'
    BY <1>1, <1>2 DEF BufInv, SleepsForHolder, BufTypeOK
  <1> QED BY <1>4, <1>5, <1>6, <1>7 DEF BufInv

-----------------------------------------------------------------------------
(* acquiresleep(): waiting for the lock or taking it makes nobody a user   *)
(* who was not one.                                                        *)
LEMMA LockSleepInv ==
  ASSUME BufInv, NEW t \in Task, LockSleep(t)
  PROVE  BufInv'
  <1> USE DEF LockSleep
  <1>1. BufTypeOK'
    BY DEF BufInv, BufTypeOK, BioPlaces
  <1>2. \A b \in Buf : Users(b)' = Users(b)
    BY DEF Users, BufInv, BufTypeOK
  <1>3. RefcntExact'
    BY <1>2 DEF BufInv, RefcntExact
  <1>4. BufferUse'
    BY DEF BufInv, BufferUse, BufTypeOK, Cached
  <1>5. SleepsForHolder'
    BY DEF BufInv, SleepsForHolder, BufTypeOK
  <1> QED BY <1>1, <1>3, <1>4, <1>5 DEF BufInv

(* acquiresleep() finds the buffer free and takes it.                      *)
LEMMA LockTakeInv ==
  ASSUME BufInv, NEW t \in Task, LockTake(t)
  PROVE  BufInv'
  <1> USE DEF LockTake
  <1>1. BufTypeOK'
    BY DEF BufInv, BufTypeOK, BioPlaces
  <1>2. cur[t] \in Buf /\ t # NoTask
    BY BufAssumption DEF BufInv, BufTypeOK
  <1>3. \A b \in Buf : Users(b)' = Users(b)
    BY <1>2, BufAssumption DEF Users, BufInv, BufTypeOK
  <1>4. RefcntExact'
    BY <1>3 DEF BufInv, RefcntExact
  <1>5. BufferUse'
    <2>1. /\ \A u \in Task : bpc'[u] = "locked" => lockedby'[cur'[u]] = u
          /\ \A u \in Task : bpc'[u] \in {"lock", "asleep", "relse"} => lockedby'[cur'[u]] # u
      BY <1>2, BufAssumption DEF BufInv, BufferUse, BufTypeOK
    <2>2. \A b \in Buf : lockedby'[b] # NoTask =>
            bvalid'[b] \/ (bpc'[lockedby'[b]] = "locked" /\ cur'[lockedby'[b]] = b)
      BY <1>2 DEF BufInv, BufferUse, BufTypeOK
    <2> QED BY <2>1, <2>2 DEF BufInv, BufferUse, Cached
  <1>6. SleepsForHolder'
    BY <1>2 DEF BufInv, SleepsForHolder, BufTypeOK
  <1> QED BY <1>1, <1>4, <1>5, <1>6 DEF BufInv

(* The rest of bread().                                                    *)
LEMMA BReadInv ==
  ASSUME BufInv, NEW t \in Task, BRead(t)
  PROVE  BufInv'
  <1> USE DEF BRead
  <1>1. cur[t] \in Buf /\ lockedby[cur[t]] = t /\ t \in Users(cur[t])
    BY DEF BufInv, BufTypeOK, BufferUse, Users
  <1>2. blockno[cur[t]] \in BlockNo
    BY <1>1, UsedIsCounted DEF BufInv, BufTypeOK, BufferUse
  <1>3. BufTypeOK'
    BY <1>1, <1>2 DEF BufInv, BufTypeOK, BioPlaces
  <1>4. \A b \in Buf : Users(b)' = Users(b)
    BY <1>1 DEF Users, BufInv, BufTypeOK
  <1>5. RefcntExact'
    BY <1>4 DEF BufInv, RefcntExact
  <1>6. BufferUse'
    BY <1>1, <1>2, BufAssumption DEF BufInv, BufferUse, BufTypeOK, Cached
  <1>7. SleepsForHolder'
    BY <1>1 DEF BufInv, SleepsForHolder, BufTypeOK
  <1> QED BY <1>3, <1>5, <1>6, <1>7 DEF BufInv

(* A buffer its holder works on, outside bread(): valid, for a block, and  *)
(* counted.                                                                *)
LEMMA HeldIsValid ==
  ASSUME BufInv, NEW t \in Task, NEW b \in Buf, bpc[t] = "run", b \in Held(t)
  PROVE  /\ lockedby[b] = t /\ bvalid[b] /\ blockno[b] \in BlockNo
         /\ t \in Users(b) /\ refcnt[b] > 0
  <1>1. lockedby[b] = t /\ t \in Users(b) /\ t # NoTask
    BY BufAssumption DEF Held, Users
  <1>2. bvalid[b]
    BY <1>1 DEF BufInv, BufferUse
  <1>3. blockno[b] \in BlockNo
    BY <1>2 DEF BufInv, BufferUse, BufTypeOK
  <1> QED BY <1>1, <1>2, <1>3, UsedIsCounted

(* log_write(): the first one pins the buffer.                             *)
LEMMA ModifyInv ==
  ASSUME BufInv, NEW t \in Task, NEW b \in Buf, NEW v \in Val, Modify(t, b, v)
  PROVE  BufInv'
  <1> USE DEF Modify
  <1>1. lockedby[b] = t /\ bvalid[b] /\ blockno[b] \in BlockNo
    BY HeldIsValid
  <1>2. BufTypeOK'
    BY DEF BufInv, BufTypeOK
  <1>3. RefcntExact'
    <2> SUFFICES ASSUME NEW c \in Buf
                 PROVE  refcnt'[c] = Cardinality(Users(c)') + (IF c \in pinned' THEN 1 ELSE 0)
      BY DEF RefcntExact
    <2>1. Users(c)' = Users(c)
      BY DEF Users
    <2>2. refcnt[c] = Cardinality(Users(c)) + (IF c \in pinned THEN 1 ELSE 0)
      BY DEF BufInv, RefcntExact
    <2>3. refcnt'[c] = IF c = b /\ c \notin pinned THEN refcnt[c] + 1 ELSE refcnt[c]
      BY DEF BufInv, BufTypeOK
    <2>4. c \in pinned' <=> c \in pinned \/ c = b
      OBVIOUS
    <2> HIDE DEF Modify
    <2> QED BY <2>1, <2>2, <2>3, <2>4, UsersFinite
  <1>4. BufferUse'
    BY <1>1, BufAssumption DEF BufInv, BufferUse, BufTypeOK, Cached
  <1>5. SleepsForHolder'
    BY DEF BufInv, SleepsForHolder
  <1> QED BY <1>2, <1>3, <1>4, <1>5 DEF BufInv

(* bwrite(): the block has no other buffer.                                *)
LEMMA BWriteInv ==
  ASSUME BufInv, NEW t \in Task, NEW b \in Buf, NEW v \in Val, BWrite(t, b, v)
  PROVE  BufInv'
  <1> USE DEF BWrite
  <1>1. lockedby[b] = t /\ bvalid[b] /\ blockno[b] \in BlockNo
    BY HeldIsValid
  <1>2. BufTypeOK'
    BY <1>1 DEF BufInv, BufTypeOK
  <1>3. RefcntExact'
    BY DEF BufInv, RefcntExact, Users
  <1>4. BufferUse'
    <2>1. \A c \in Buf \ pinned : bvalid[c] => contents'[c] = disk'[blockno[c]]
      BY <1>1, BufAssumption DEF BufInv, BufferUse, BufTypeOK, Cached
    <2> QED BY <2>1 DEF BufInv, BufferUse, Cached
  <1>5. SleepsForHolder'
    BY DEF BufInv, SleepsForHolder
  <1> QED BY <1>2, <1>3, <1>4, <1>5 DEF BufInv

(* bunpin(): only once the block on disk is the buffer's content.          *)
LEMMA BUnpinInv ==
  ASSUME BufInv, NEW t \in Task, NEW b \in Buf, BUnpin(t, b)
  PROVE  BufInv'
  <1> USE DEF BUnpin
  <1>1. refcnt[b] > 0 /\ refcnt[b] \in Nat
    BY HeldIsValid DEF BufInv, BufTypeOK
  <1>2. BufTypeOK'
    BY <1>1 DEF BufInv, BufTypeOK
  <1>3. RefcntExact'
    <2> SUFFICES ASSUME NEW c \in Buf
                 PROVE  refcnt'[c] = Cardinality(Users(c)') + (IF c \in pinned' THEN 1 ELSE 0)
      BY DEF RefcntExact
    <2>1. Users(c)' = Users(c)
      BY DEF Users
    <2>2. refcnt[c] = Cardinality(Users(c)) + (IF c \in pinned THEN 1 ELSE 0)
      BY DEF BufInv, RefcntExact
    <2>3. refcnt'[c] = IF c = b THEN refcnt[c] - 1 ELSE refcnt[c]
      BY DEF BufInv, BufTypeOK
    <2>4. /\ c \in pinned' <=> c \in pinned /\ c # b
          /\ b \in pinned
      OBVIOUS
    <2> HIDE DEF BUnpin
    <2> QED BY <2>1, <2>2, <2>3, <2>4, UsersFinite
  <1>4. BufferUse'
    <2>1. \A c \in Buf : refcnt'[c] > 0 => blockno[c] # NeverUsed
      BY <1>1 DEF BufInv, BufferUse, BufTypeOK
    <2> QED BY <2>1 DEF BufInv, BufferUse, Cached
  <1>5. SleepsForHolder'
    BY DEF BufInv, SleepsForHolder
  <1> QED BY <1>2, <1>3, <1>4, <1>5 DEF BufInv

(* releasesleep() in brelse(): the caller stays a user until it drops its  *)
(* reference, and whoever slept for the lock is awake.                     *)
LEMMA ReleaseSleepInv ==
  ASSUME BufInv, NEW t \in Task, NEW b \in Buf, ReleaseSleep(t, b)
  PROVE  BufInv'
  <1> USE DEF ReleaseSleep
  <1>1. lockedby[b] = t /\ bvalid[b] /\ t # NoTask /\ bpc[t] = "run"
    BY HeldIsValid, BufAssumption
  <1>2. BufTypeOK'
    BY DEF BufInv, BufTypeOK, BioPlaces
  <1>3. \A c \in Buf : Users(c)' = Users(c)
    BY <1>1, BufAssumption DEF Users, BufInv, BufTypeOK
  <1>4. RefcntExact'
    BY <1>3 DEF BufInv, RefcntExact
  <1>5. BufferUse'
    <2>1. /\ \A u \in Task : bpc'[u] = "locked" => lockedby'[cur'[u]] = u
          /\ \A u \in Task : bpc'[u] \in {"lock", "asleep", "relse"} => lockedby'[cur'[u]] # u
      BY <1>1, BufAssumption DEF BufInv, BufferUse, BufTypeOK
    <2>2. \A c \in Buf : lockedby'[c] # NoTask =>
            bvalid'[c] \/ (bpc'[lockedby'[c]] = "locked" /\ cur'[lockedby'[c]] = c)
      BY <1>1, BufAssumption DEF BufInv, BufferUse, BufTypeOK
    <2> QED BY <2>1, <2>2 DEF BufInv, BufferUse, Cached
  <1>6. SleepsForHolder'
    BY <1>1 DEF BufInv, SleepsForHolder, BufTypeOK
  <1> QED BY <1>2, <1>4, <1>5, <1>6 DEF BufInv

(* The end of brelse(): the caller had a reference to drop.                *)
LEMMA BRelseInv ==
  ASSUME BufInv, NEW t \in Task, BRelse(t)
  PROVE  BufInv'
  <1> DEFINE b == cur[t]
  <1>1. b \in Buf /\ bpc[t] = "relse" /\ lockedby[b] # t /\ t \in Users(b)
    BY DEF BRelse, BufInv, BufTypeOK, BufferUse, Users
  <1>2. refcnt[b] > 0 /\ refcnt[b] \in Nat
    BY <1>1, UsedIsCounted DEF BufInv, BufTypeOK
  <1>3. /\ refcnt' = [refcnt EXCEPT ![b] = @ - 1]
        /\ bpc' = [bpc EXCEPT ![t] = "run"]
        /\ UNCHANGED <<blockno, bvalid, contents, lockedby, pinned, disk, cur>>
    BY DEF BRelse
  <1> HIDE DEF b
  <1>4. BufTypeOK'
    BY <1>1, <1>2, <1>3 DEF BufInv, BufTypeOK, BioPlaces
  <1>5. RefcntExact'
    <2> SUFFICES ASSUME NEW c \in Buf
                 PROVE  refcnt'[c] = Cardinality(Users(c)') + (IF c \in pinned' THEN 1 ELSE 0)
      BY DEF RefcntExact
    <2>1. refcnt[c] = Cardinality(Users(c)) + (IF c \in pinned THEN 1 ELSE 0)
      BY DEF BufInv, RefcntExact
    <2>2. CASE c = b
      <3>1. Users(c)' = Users(c) \ {t}
        BY <1>1, <1>3, <2>2 DEF Users, BufInv, BufTypeOK
      <3>2. Cardinality(Users(c)') = Cardinality(Users(c)) - 1
        BY <1>1, <2>2, <3>1, UserLeaves
      <3>3. refcnt'[c] = refcnt[c] - 1
        BY <1>3, <2>2 DEF BufInv, BufTypeOK
      <3> QED BY <1>3, <2>1, <3>2, <3>3, UsersFinite
    <2>3. CASE c # b
      <3>1. Users(c)' = Users(c)
        BY <1>1, <1>3, <2>3, SMTT(20) DEF Users, BufInv, BufTypeOK, b
      <3> QED BY <1>3, <2>1, <2>3, <3>1 DEF BufInv, BufTypeOK
    <2> QED BY <2>2, <2>3
  <1>6. BufferUse'
    <2>1. \A c \in Buf : refcnt'[c] > 0 => blockno[c] # NeverUsed
      BY <1>1, <1>2, <1>3 DEF BufInv, BufferUse, BufTypeOK
    <2>2. /\ \A u \in Task : bpc'[u] = "locked" => lockedby'[cur'[u]] = u
          /\ \A u \in Task : bpc'[u] \in {"lock", "asleep", "relse"} => lockedby'[cur'[u]] # u
      BY <1>3 DEF BufInv, BufferUse, BufTypeOK
    <2>3. \A c \in Buf : lockedby'[c] # NoTask =>
            bvalid'[c] \/ (bpc'[lockedby'[c]] = "locked" /\ cur'[lockedby'[c]] = c)
      BY <1>1, <1>3 DEF BufInv, BufferUse, BufTypeOK
    <2> QED BY <1>3, <2>1, <2>2, <2>3 DEF BufInv, BufferUse, Cached
  <1>7. SleepsForHolder'
    BY <1>3 DEF BufInv, SleepsForHolder, BufTypeOK
  <1> QED BY <1>4, <1>5, <1>6, <1>7 DEF BufInv

(* Every step of the cache keeps the invariant.                            *)
LEMMA BufStepInv == ASSUME BufInv, [BufNext]_bufvars PROVE BufInv'
  <1>1. CASE UNCHANGED cachevars
    BY <1>1 DEF cachevars, BufInv, BufTypeOK, RefcntExact, BufferUse, SleepsForHolder, Users, Cached
  <1>2. CASE BufStep
    BY <1>2, BGetHitInv, BGetMissInv, LockSleepInv, LockTakeInv, BReadInv, ModifyInv,
       BWriteInv, BUnpinInv, ReleaseSleepInv, BRelseInv DEF BufStep, InCache
  <1> QED BY <1>1, <1>2, StepOrStutter, Zenon

(* bget(), brelse(), bpin() and the sleep locks keep the counts, the locks *)
(* and the contents consistent for any number of threads and buffers:      *)
(* BufInv is inductive.                                                    *)
THEOREM BufInvariant == BufSpec => []BufInv
  BY BufInitInv, BufStepInv, PTL DEF BufSpec

-----------------------------------------------------------------------------
(* What a block looks like through the cache: its buffer if that is valid, *)
(* the disk otherwise; now and after a step.                               *)
LEMMA MemoryIs ==
  ASSUME BufInv, NEW k \in BlockNo
  PROVE  /\ \A b \in Cached(k) : bvalid[b] => Memory[k] = contents[b]
         /\ (\A b \in Cached(k) : ~bvalid[b]) => Memory[k] = disk[k]
  <1>1. \A b, c \in Cached(k) : b = c
    BY DEF BufInv, BufferUse, Cached
  <1> QED BY <1>1 DEF Memory

(* The same of the state after a step.                                     *)
LEMMA MemoryBecomes ==
  ASSUME BufInv', NEW k \in BlockNo
  PROVE  /\ \A b \in Cached(k)' : bvalid'[b] => Memory'[k] = contents'[b]
         /\ (\A b \in Cached(k)' : ~bvalid'[b]) => Memory'[k] = disk'[k]
  <1>1. \A b, c \in Cached(k)' : b = c
    BY DEF BufInv, BufferUse, Cached
  <1> QED BY <1>1 DEF Memory

(* It is a function on the blocks.                                         *)
LEMMA MemoryDomain == /\ Memory = [k \in BlockNo |-> Memory[k]]
                      /\ Memory' = [k \in BlockNo |-> Memory'[k]]
  BY DEF Memory

(* Every buffer is empty after binit(), so the store is the disk.          *)
LEMMA StoreInit == ASSUME BufInit PROVE Store!Init
  <1>1. Memory = [k \in BlockNo |-> Blank]
    BY DEF BufInit, Memory, Cached
  <1>2. Owners = {}
    BY DEF BufInit, Owners
  <1> QED BY <1>1, <1>2 DEF Store!Init

(* A block has one buffer at most.                                         *)
LEMMA CachedOnce ==
  ASSUME BufInv, NEW b \in Buf, blockno[b] \in BlockNo
  PROVE  Cached(blockno[b]) = {b}
  BY DEF BufInv, BufferUse, Cached

(* Nobody but the holder of a block's buffer owns the block.               *)
LEMMA OwnerIs ==
  ASSUME BufInv, NEW b \in Buf, blockno[b] \in BlockNo, NEW u \in Task
  PROVE  <<u, blockno[b]>> \in Owners <=> lockedby[b] = u
  <1>1. \A c \in Buf : blockno[c] = blockno[b] => c = b
    BY DEF BufInv, BufferUse, Cached
  <1> QED BY <1>1, BufAssumption DEF Owners

(* acquiresleep() in bread() is the abstract lock.                         *)
LEMMA LockTakeStore ==
  ASSUME BufInv, NEW t \in Task, LockTake(t)
  PROVE  Store!Lock(t, blockno[cur[t]]) /\ blockno[cur[t]] \in BlockNo
  <1> DEFINE b == cur[t]
  <1>1. b \in Buf /\ t \in Users(b) /\ lockedby[b] = NoTask
    BY DEF LockTake, BufInv, BufTypeOK, Users
  <1>2. blockno[b] \in BlockNo
    BY <1>1, UsedIsCounted, SMTT(20) DEF BufInv, BufTypeOK, BufferUse
  <1>3. \A u \in Task : <<u, blockno[b]>> \notin Owners
    BY <1>1, <1>2, OwnerIs, BufAssumption
  <1>4. Owners' = Owners \cup {<<t, blockno[b]>>}
    BY <1>1, BufAssumption DEF LockTake, Owners, BufInv, BufTypeOK
  <1>5. Memory' = Memory
    BY DEF LockTake, Memory, Cached
  <1> QED BY <1>2, <1>3, <1>4, <1>5 DEF Store!Lock

(* releasesleep() in brelse() is the abstract unlock.                      *)
LEMMA ReleaseSleepStore ==
  ASSUME BufInv, NEW t \in Task, NEW b \in Buf, ReleaseSleep(t, b)
  PROVE  Store!Unlock(t, blockno[b]) /\ blockno[b] \in BlockNo
  <1>1. lockedby[b] = t /\ blockno[b] \in BlockNo
    BY HeldIsValid DEF ReleaseSleep
  <1>2. <<t, blockno[b]>> \in Owners
    BY <1>1, OwnerIs
  <1>3. Owners' = Owners \ {<<t, blockno[b]>>}
    <2>1. \A c \in Buf : blockno[c] = blockno[b] => c = b
      BY <1>1 DEF BufInv, BufferUse, Cached
    <2> QED BY <1>1, <2>1, BufAssumption DEF ReleaseSleep, Owners, BufInv, BufTypeOK
  <1>4. Memory' = Memory
    BY DEF ReleaseSleep, Memory, Cached
  <1> QED BY <1>1, <1>2, <1>3, <1>4 DEF Store!Unlock

(* A change to a locked buffer, logged or written, is an abstract store.   *)
LEMMA WriteStore ==
  ASSUME BufInv, BufInv', NEW t \in Task, NEW b \in Buf, NEW v \in Val,
         bpc[t] = "run", b \in Held(t),
         contents' = [contents EXCEPT ![b] = v],
         UNCHANGED <<blockno, bvalid, lockedby>>,
         \A k \in BlockNo \ {blockno[b]} : disk'[k] = disk[k]
  PROVE  Store!Store(t, blockno[b], v) /\ blockno[b] \in BlockNo
  <1>1. lockedby[b] = t /\ bvalid[b] /\ blockno[b] \in BlockNo
    BY HeldIsValid
  <1>2. <<t, blockno[b]>> \in Owners /\ Owners' = Owners
    BY <1>1, OwnerIs DEF Owners
  <1>3. \A k \in BlockNo : Memory'[k] = IF k = blockno[b] THEN v ELSE Memory[k]
    <2> SUFFICES ASSUME NEW k \in BlockNo
                 PROVE  Memory'[k] = IF k = blockno[b] THEN v ELSE Memory[k]
      OBVIOUS
    <2>1. Cached(k)' = Cached(k)
      BY DEF Cached
    <2>2. CASE k = blockno[b]
      BY <1>1, <2>1, <2>2, MemoryBecomes DEF Cached, BufInv, BufTypeOK
    <2>3. CASE k # blockno[b]
      <3>1. \A c \in Cached(k) : contents'[c] = contents[c] /\ bvalid'[c] = bvalid[c]
        BY <2>3 DEF Cached, BufInv, BufTypeOK
      <3>2. CASE \E c \in Cached(k) : bvalid[c]
        BY <2>1, <2>3, <3>1, <3>2, MemoryIs, MemoryBecomes
      <3>3. CASE \A c \in Cached(k) : ~bvalid[c]
        BY <2>1, <2>3, <3>1, <3>3, MemoryIs, MemoryBecomes
      <3> QED BY <3>2, <3>3
    <2> QED BY <2>2, <2>3
  <1>4. Memory' = [Memory EXCEPT ![blockno[b]] = v]
    BY <1>3, MemoryDomain
  <1> QED BY <1>1, <1>2, <1>4 DEF Store!Store

(* bget() that recycles a buffer: its old block is on disk as it was in    *)
(* the buffer, its new one is not valid yet.                               *)
LEMMA BGetMissStore ==
  ASSUME BufInv, BufInv', NEW t \in Task, NEW k \in BlockNo, BGetMiss(t, k)
  PROVE  Memory' = Memory /\ Owners' = Owners
  <1>1. PICK b \in Victims : /\ blockno' = [blockno EXCEPT ![b] = k]
                             /\ bvalid' = [bvalid EXCEPT ![b] = FALSE]
    BY Zenon DEF BGetMiss
  <1>2. /\ Cached(k) = {}
        /\ UNCHANGED <<contents, lockedby, disk>>
    BY DEF BGetMiss
  <1>3. b \in Buf /\ lockedby[b] = NoTask /\ b \notin pinned
    BY UsedIsCounted DEF Victims
  <1>4. bvalid[b] => contents[b] = disk[blockno[b]]
    BY <1>3 DEF BufInv, BufferUse
  <1>5. \A l \in BlockNo : Memory'[l] = Memory[l]
    <2> SUFFICES ASSUME NEW l \in BlockNo PROVE Memory'[l] = Memory[l]
      OBVIOUS
    <2>1. CASE l = k
      <3>1. \A c \in Cached(l)' : ~bvalid'[c]
        BY <1>1, <1>2, <1>3, <2>1 DEF Cached, BufInv, BufTypeOK
      <3>2. Memory[l] = disk[l]
        BY <1>2, <2>1, MemoryIs, SMTT(20)
      <3> QED BY <1>2, <3>1, <3>2, MemoryBecomes
    <2>2. CASE l # k /\ l # blockno[b]
      <3>1. Cached(l)' = Cached(l) /\ b \notin Cached(l)
        BY <1>1, <1>3, <2>2 DEF Cached, BufInv, BufTypeOK
      <3>2. \A c \in Buf \ {b} : bvalid'[c] = bvalid[c]
        BY <1>1 DEF BufInv, BufTypeOK
      <3>3. \A c \in Cached(l) : bvalid'[c] = bvalid[c]
        BY <3>1, <3>2 DEF Cached
      <3> QED BY <1>2, <3>1, <3>3, MemoryIs, MemoryBecomes
    <2>3. CASE l # k /\ l = blockno[b]
      <3>1. Cached(l) = {b}
        BY <1>3, <2>3, CachedOnce
      <3>2. Cached(l)' = {}
        BY <1>1, <1>3, <2>3, <3>1, SMTT(20) DEF Cached, BufInv, BufTypeOK
      <3>3. Memory[l] = disk[l]
        BY <1>4, <2>3, <3>1, MemoryIs
      <3> QED BY <1>2, <3>2, <3>3, MemoryBecomes
    <2> QED BY <2>1, <2>2, <2>3
  <1>6. Memory' = Memory
    BY <1>5, MemoryDomain
  <1>7. Owners' = Owners
    <2>1. \A c \in Buf : lockedby[c] # NoTask => blockno'[c] = blockno[c]
      BY <1>1, <1>3 DEF BufInv, BufTypeOK
    <2> QED BY <1>2, <2>1 DEF Owners
  <1> QED BY <1>6, <1>7

(* bread() fills the buffer from the disk, or finds it valid.              *)
LEMMA BReadStore ==
  ASSUME BufInv, BufInv', NEW t \in Task, BRead(t)
  PROVE  Memory' = Memory /\ Owners' = Owners
  <1> DEFINE b == cur[t]
  <1>1. b \in Buf
    BY DEF BufInv, BufTypeOK
  <1>2. /\ contents' = IF bvalid[b] THEN contents ELSE [contents EXCEPT ![b] = disk[blockno[b]]]
        /\ bvalid' = [bvalid EXCEPT ![b] = TRUE]
        /\ UNCHANGED <<blockno, lockedby, disk>>
    BY DEF BRead
  <1> HIDE DEF b
  <1>3. \A l \in BlockNo : Memory'[l] = Memory[l]
    <2> SUFFICES ASSUME NEW l \in BlockNo PROVE Memory'[l] = Memory[l]
      OBVIOUS
    <2>1. Cached(l)' = Cached(l)
      BY <1>2 DEF Cached
    <2>2. CASE l = blockno[b]
      <3>1. Cached(l) = {b}
        BY <1>1, <2>2, CachedOnce
      <3>2. Memory'[l] = contents'[b]
        BY <1>1, <1>2, <2>1, <3>1, MemoryBecomes, SMTT(20) DEF BufInv, BufTypeOK
      <3>3. CASE bvalid[b]
        BY <1>2, <3>1, <3>2, <3>3, MemoryIs
      <3>4. CASE ~bvalid[b]
        <4>1. Memory[l] = disk[l]
          BY <3>1, <3>4, MemoryIs
        <4> QED BY <1>1, <1>2, <2>2, <3>2, <3>4, <4>1, SMTT(20) DEF BufInv, BufTypeOK
      <3> QED BY <3>3, <3>4
    <2>3. CASE l # blockno[b]
      <3>1. \A c \in Buf \ {b} : bvalid'[c] = bvalid[c] /\ contents'[c] = contents[c]
        BY <1>2 DEF BufInv, BufTypeOK
      <3>2. \A c \in Cached(l) : bvalid'[c] = bvalid[c] /\ contents'[c] = contents[c]
        BY <2>3, <3>1, SMTT(20) DEF Cached
      <3>3. CASE \E c \in Cached(l) : bvalid[c]
        BY <2>1, <3>2, <3>3, MemoryIs, MemoryBecomes
      <3>4. CASE \A c \in Cached(l) : ~bvalid[c]
        BY <1>2, <2>1, <3>2, <3>4, MemoryIs, MemoryBecomes, Zenon
      <3> QED BY <3>3, <3>4
    <2> QED BY <2>2, <2>3
  <1>4. Memory' = Memory
    BY <1>3, MemoryDomain
  <1>5. Owners' = Owners
    BY <1>2 DEF Owners
  <1> QED BY <1>4, <1>5

(* Every step of the cache is a step of BlockStore, or none.               *)
LEMMA BufStepStore ==
  ASSUME BufInv, BufInv', [BufNext]_bufvars
  PROVE  [Store!Next]_<<Memory, Owners>>
  <1>1. CASE UNCHANGED cachevars
    BY <1>1 DEF cachevars, Memory, Owners, Cached
  <1>2. ASSUME NEW t \in Task, LockTake(t)
        PROVE  Store!Next
    BY <1>2, LockTakeStore DEF Store!Next
  <1>3. ASSUME NEW t \in Task, NEW b \in Buf, ReleaseSleep(t, b)
        PROVE  Store!Next
    BY <1>3, ReleaseSleepStore DEF Store!Next
  <1>4. ASSUME NEW t \in Task, NEW b \in Buf, NEW v \in Val, Modify(t, b, v) \/ BWrite(t, b, v)
        PROVE  Store!Next
    <2>1. \A k \in BlockNo \ {blockno[b]} : disk'[k] = disk[k]
      BY <1>4 DEF Modify, BWrite, BufInv, BufTypeOK
    <2>2. /\ bpc[t] = "run" /\ b \in Held(t)
          /\ contents' = [contents EXCEPT ![b] = v]
          /\ UNCHANGED <<blockno, bvalid, lockedby>>
      BY <1>4 DEF Modify, BWrite
    <2>3. Store!Store(t, blockno[b], v) /\ blockno[b] \in BlockNo
      BY <2>1, <2>2, WriteStore, Zenon
    <2> QED BY <2>3 DEF Store!Next
  <1>5. ASSUME NEW t \in Task,
               \/ LockSleep(t) \/ BRelse(t)
               \/ \E b \in Buf : BUnpin(t, b)
               \/ \E k \in BlockNo : BGetHit(t, k)
        PROVE  Memory' = Memory /\ Owners' = Owners
    <2>1. UNCHANGED <<blockno, bvalid, contents, lockedby, disk>>
      BY <1>5, Zenon DEF LockSleep, BRelse, BUnpin, BGetHit
    <2> QED BY <2>1 DEF Memory, Owners, Cached
  <1>6. ASSUME NEW t \in Task, BRead(t) \/ \E k \in BlockNo : BGetMiss(t, k)
        PROVE  Memory' = Memory /\ Owners' = Owners
    BY <1>6, BReadStore, BGetMissStore
  <1>7. CASE BufStep
    BY <1>2, <1>3, <1>4, <1>5, <1>6, <1>7 DEF BufStep, InCache
  <1> QED BY <1>1, <1>7, StepOrStutter, Zenon

(* The cache is one memory with a lock per block, however many threads     *)
(* share however few buffers: bread() and the writers of bio.c implement   *)
(* BlockStore.                                                             *)
THEOREM BufRefinesStore == BufSpec => StoreSpec
  <1>1. BufInit => Store!Init
    BY StoreInit
  <1>2. BufInv /\ BufInv' /\ [BufNext]_bufvars => [Store!Next]_<<Memory, Owners>>
    BY BufStepStore
  <1> QED BY <1>1, <1>2, BufInvariant, PTL DEF BufSpec, StoreSpec, Store!Spec

-----------------------------------------------------------------------------
(* The list is complete, and no thread keeps more buffers than it may.     *)
Quota ==
  /\ Complete(lru)
  /\ \A t \in Task : Cardinality(Uses(t)) <= MaxHeld

(* A set of buffers is finite, and its subsets are no larger.              *)
LEMMA BufsFinite ==
  \A S \in SUBSET Buf : /\ IsFiniteSet(S) /\ Cardinality(S) \in Nat
                        /\ \A T \in SUBSET S : Cardinality(T) <= Cardinality(S)
  <1> SUFFICES ASSUME NEW S \in SUBSET Buf
               PROVE  /\ IsFiniteSet(S) /\ Cardinality(S) \in Nat
                      /\ \A T \in SUBSET S : Cardinality(T) <= Cardinality(S)
    BY Zenon
  <1>1. IsFiniteSet(Buf)
    BY BufAssumption
  <1>2. IsFiniteSet(S)
    BY <1>1, FS_Subset
  <1> QED BY <1>2, FS_Subset, FS_CardinalityType

(* binit() links every buffer.                                             *)
LEMMA QuotaInit == ASSUME BufInit PROVE Quota
  <1>1. Complete(lru)
    <2>1. IsFiniteSet(Buf)
      BY BufAssumption
    <2>2. ExistsBijection(1 .. NBUF, Buf)
      BY <2>1, FS_CardinalityType DEF NBUF
    <2>3. PICK f : f \in Bijection(1 .. NBUF, Buf)
      BY <2>2, Zenon DEF ExistsBijection
    <2>4. f \in [1 .. NBUF -> Buf] /\ Complete(f)
      BY <2>3, Zenon DEF Bijection, Surjection, Complete
    <2> QED BY <2>4, Zenon DEF BufInit
  <1>2. \A t \in Task : Uses(t) = {}
    BY BufAssumption DEF BufInit, Uses, Held
  <1>3. Cardinality({}) = 0
    BY FS_EmptySet
  <1>4. 0 <= MaxHeld
    BY BufAssumption
  <1> QED BY <1>1, <1>2, <1>3, <1>4, Zenon DEF Quota

(* Moving a buffer to the front loses none from the list.                  *)
LEMMA ToFrontComplete ==
  ASSUME NEW s, Complete(s), NEW b \in Buf
  PROVE  Complete(ToFront(s, b))
  <1> DEFINE p == CHOOSE i \in 1 .. NBUF : s[i] = b
             r == ToFront(s, b)
  <1>1. p \in 1 .. NBUF /\ s[p] = b
    BY Zenon DEF Complete
  <1>2. NBUF \in Nat
    BY BufsFinite, Zenon DEF NBUF
  <1>3. r = [i \in 1 .. NBUF |-> IF i = 1 THEN b ELSE IF i <= p THEN s[i - 1] ELSE s[i]]
    BY Zenon DEF ToFront
  <1> HIDE DEF p, r
  <1>4. r \in [1 .. NBUF -> Buf]
    BY <1>1, <1>2, <1>3 DEF Complete
  <1>5. ASSUME NEW c \in Buf PROVE \E i \in 1 .. NBUF : r[i] = c
    <2>1. PICK i \in 1 .. NBUF : s[i] = c
      BY Zenon DEF Complete
    <2>2. CASE i = p
      <3>1. r[1] = c /\ 1 \in 1 .. NBUF
        BY <1>1, <1>2, <1>3, <2>1, <2>2
      <3> QED BY <3>1, Zenon
    <2>3. CASE i > p
      <3>1. r[i] = c
        BY <1>1, <1>2, <1>3, <2>1, <2>3
      <3> QED BY <3>1, Zenon
    <2>4. CASE i < p
      <3>1. i + 1 \in 1 .. NBUF /\ i + 1 <= p /\ i + 1 # 1 /\ (i + 1) - 1 = i
        BY <1>1, <1>2, <2>4
      <3>2. r[i + 1] = c
        BY <1>3, <2>1, <3>1
      <3> QED BY <3>1, <3>2, Zenon
    <2> QED BY <1>1, <1>2, <2>2, <2>3, <2>4
  <1> QED BY <1>4, <1>5, Zenon DEF r, Complete

(* A thread gets one buffer more in bget(), when it has fewer than         *)
(* MaxHeld; all else keeps or returns buffers.                             *)
LEMMA UsesStep ==
  ASSUME BufInv, BufStep, NEW t \in Task
  PROVE  \/ Uses(t)' \subseteq Uses(t)
         \/ /\ Cardinality(Uses(t)) < MaxHeld
            /\ \E b \in Buf : Uses(t)' = Uses(t) \cup {b}
  <1>1. /\ bpc \in [Task -> BioPlaces] /\ cur \in [Task -> Buf]
        /\ lockedby \in [Buf -> Task \cup {NoTask}]
        /\ \A u \in Task : bpc[u] = "locked" => lockedby[cur[u]] = u
    BY DEF BufInv, BufferUse, BufTypeOK
  <1>2. ASSUME NEW u \in Task, NEW k \in BlockNo, BGetHit(u, k) \/ BGetMiss(u, k)
        PROVE  \/ Uses(t)' \subseteq Uses(t)
               \/ /\ Cardinality(Uses(t)) < MaxHeld
                  /\ \E b \in Buf : Uses(t)' = Uses(t) \cup {b}
    <2>1. PICK b \in Buf : cur' = [cur EXCEPT ![u] = b]
      BY <1>2, Zenon DEF BGetHit, BGetMiss, Cached, Victims
    <2>2. bpc' = [bpc EXCEPT ![u] = "lock"] /\ lockedby' = lockedby /\ MayAsk(u, k)
      BY <1>2, Zenon DEF BGetHit, BGetMiss
    <2>3. CASE u = t
      <3>1. Uses(t) = Held(t) /\ Uses(t)' = Held(t) \cup {b}
        BY <1>1, <2>1, <2>2, <2>3 DEF Uses, Held, MayAsk
      <3>2. Cardinality(Held(t)) < MaxHeld
        BY <2>2, <2>3, Zenon DEF MayAsk
      <3> QED BY <3>1, <3>2, Zenon
    <2>4. CASE u # t
      BY <1>1, <2>1, <2>2, <2>4 DEF Uses, Held
    <2> QED BY <2>3, <2>4
  <1>3. ASSUME NEW u \in Task, LockSleep(u) \/ LockTake(u) PROVE Uses(t)' \subseteq Uses(t)
    BY <1>1, <1>3, BufAssumption, SMTT(20) DEF LockSleep, LockTake, Uses, Held
  <1>4. ASSUME NEW u \in Task, BRead(u) \/ BRelse(u) PROVE Uses(t)' \subseteq Uses(t)
    BY <1>1, <1>4 DEF BRead, BRelse, Uses, Held
  <1>5. ASSUME NEW u \in Task, NEW b \in Buf, NEW v \in Val, Modify(u, b, v) \/ BWrite(u, b, v)
        PROVE  Uses(t)' \subseteq Uses(t)
    BY <1>5, SMTT(20) DEF Modify, BWrite, Uses, Held
  <1>6. ASSUME NEW u \in Task, NEW b \in Buf, BUnpin(u, b)
        PROVE  Uses(t)' \subseteq Uses(t)
    BY <1>6 DEF BUnpin, Uses, Held
  <1>7. ASSUME NEW u \in Task, NEW b \in Buf, ReleaseSleep(u, b)
        PROVE  Uses(t)' \subseteq Uses(t)
    BY <1>1, <1>7, BufAssumption, SMTT(20) DEF ReleaseSleep, Uses, Held
  <1> QED BY <1>2, <1>3, <1>4, <1>5, <1>6, <1>7, Zenon DEF BufStep, InCache

(* bget() and brelse() keep to the quota.                                  *)
LEMMA QuotaStep == ASSUME BufInv, BufInv', Quota, [BufNext]_bufvars PROVE Quota'
  <1>1. CASE UNCHANGED cachevars
    BY <1>1 DEF Quota, cachevars, Uses, Held
  <1>2. CASE BufStep
    <2>1. BufTypeOK /\ BufTypeOK'
      BY DEF BufInv
    <2>2. \A t \in Task : Uses(t) \in SUBSET Buf /\ Uses(t)' \in SUBSET Buf
      BY <2>1 DEF BufTypeOK, Uses, Held
    <2>3. ASSUME NEW t \in Task PROVE Cardinality(Uses(t)') <= MaxHeld
      <3>1. Cardinality(Uses(t)) <= MaxHeld /\ Cardinality(Uses(t)) \in Nat /\ IsFiniteSet(Uses(t))
            /\ Cardinality(Uses(t)') \in Nat
        BY <2>2, BufsFinite, Zenon DEF Quota
      <3>2. CASE Uses(t)' \subseteq Uses(t)
        <4>1. Cardinality(Uses(t)') <= Cardinality(Uses(t))
          BY <2>2, <3>2, BufsFinite, Zenon
        <4> QED BY <3>1, <4>1, BufAssumption
      <3>3. ASSUME NEW b \in Buf, Cardinality(Uses(t)) < MaxHeld, Uses(t)' = Uses(t) \cup {b}
            PROVE  Cardinality(Uses(t)') <= MaxHeld
        <4>1. Cardinality(Uses(t)') \in {Cardinality(Uses(t)), Cardinality(Uses(t)) + 1}
          BY <3>1, <3>3, FS_AddElement, SMTT(20)
        <4> QED BY <3>1, <3>3, <4>1, BufAssumption, SMTT(20)
      <3> QED BY <1>2, <3>2, <3>3, UsesStep, Zenon
    <2>4. Complete(lru')
      <3>1. lru' = lru \/ \E b \in Buf : lru' = ToFront(lru, b)
        BY <1>2, <2>1, ZenonT(60) DEF BufStep, InCache, BGetHit, BGetMiss, LockSleep, LockTake, BRead, BRelse,
                          Modify, BWrite, BUnpin, ReleaseSleep, BufTypeOK
      <3> QED BY <3>1, ToFrontComplete, Zenon DEF Quota
    <2> QED BY <2>3, <2>4 DEF Quota
  <1> QED BY <1>1, <1>2, StepOrStutter, Zenon

(* Any numbers that some buffers of the list have include a last one.      *)
LEMMA LastOne ==
  ASSUME NEW n \in Nat, NEW T \in SUBSET (1 .. n), T # {}
  PROVE  \E i \in T : \A j \in T : j <= i
  <1> DEFINE M == {n - i : i \in T}
  <1>1. M \subseteq Nat /\ M # {}
    <2>1. \A i \in T : n - i \in Nat
      OBVIOUS
    <2> QED BY <2>1, Zenon
  <1> HIDE DEF M
  <1>2. \E x \in M : \A y \in M : ~ (<<y, x>> \in OpToRel(<, Nat))
    BY <1>1, NatLessThanWellFounded, WFMin, Zenon
  <1>3. PICK x \in M : \A y \in M : ~ (<<y, x>> \in OpToRel(<, Nat))
    BY <1>2, Zenon
  <1>4. \A y \in M : ~ (y < x)
    BY <1>1, <1>3, Zenon DEF OpToRel
  <1>5. PICK i \in T : x = n - i
    BY DEF M
  <1>6. ASSUME NEW j \in T PROVE j <= i
    <2>1. n - j \in M
      BY Zenon DEF M
    <2>2. ~ (n - j < n - i)
      BY <1>4, <1>5, <2>1
    <2> QED BY <2>2
  <1> QED BY <1>6, Zenon

(* The buffers that threads use are fewer than the places they have, when  *)
(* one of them has not used all of its own.                                *)
LEMMA UsedAreFew ==
  ASSUME BufTypeOK, Quota, NEW t \in Task, Cardinality(Uses(t)) < MaxHeld
  PROVE  LET taken == {b \in Buf : \E u \in Task : b \in Uses(u)} IN
           Cardinality(taken) < Cardinality(Task) * MaxHeld
  <1> DEFINE taken == {b \in Buf : \E u \in Task : b \in Uses(u)}
             place == (Task \X (1 .. MaxHeld)) \ {<<t, MaxHeld>>}
  <1>1. \A u \in Task : /\ Uses(u) \in SUBSET Buf /\ IsFiniteSet(Uses(u)) /\ Cardinality(Uses(u)) \in Nat
                        /\ Cardinality(Uses(u)) <= MaxHeld
    <2>1. \A u \in Task : Uses(u) \in SUBSET Buf
      BY DEF BufTypeOK, Uses, Held
    <2> QED BY <2>1, BufsFinite, Zenon DEF Quota
  <1>2. MaxHeld \in Nat /\ MaxHeld >= 1
    BY <1>1, BufAssumption
  <1>3. /\ IsFiniteSet(place) /\ Cardinality(place) \in Nat
        /\ Cardinality(place) + 1 = Cardinality(Task) * MaxHeld
    <2>1. IsFiniteSet(Task) /\ IsFiniteSet(1 .. MaxHeld) /\ Cardinality(1 .. MaxHeld) = MaxHeld
      BY <1>2, FS_Interval, BufAssumption
    <2>2. /\ IsFiniteSet(Task \X (1 .. MaxHeld))
          /\ Cardinality(Task \X (1 .. MaxHeld)) = Cardinality(Task) * MaxHeld
      BY <2>1, FS_Product, Zenon
    <2>3. <<t, MaxHeld>> \in Task \X (1 .. MaxHeld)
      BY <1>2
    <2>4. IsFiniteSet(place) /\ Cardinality(place) = Cardinality(Task \X (1 .. MaxHeld)) - 1
      BY <2>2, <2>3, FS_RemoveElement, Zenon
    <2>5. Cardinality(Task \X (1 .. MaxHeld)) \in Nat /\ Cardinality(place) \in Nat
      BY <2>2, <2>4, FS_CardinalityType, Zenon
    <2> HIDE DEF place
    <2> QED BY <2>2, <2>4, <2>5
  <1>4. taken \in SUBSET Buf /\ IsFiniteSet(taken) /\ Cardinality(taken) \in Nat
    <2>1. taken \in SUBSET Buf
      BY Zenon
    <2> QED BY <2>1, BufsFinite, Zenon
  <1>5. Cardinality(taken) <= Cardinality(place)
    <2>1. CASE taken = {}
      <3>1. Cardinality(taken) = 0
        BY <2>1, FS_EmptySet, Zenon
      <3> HIDE DEF taken, place
      <3> QED BY <1>3, <3>1
    <2>2. ASSUME NEW z \in taken PROVE Cardinality(taken) <= Cardinality(place)
      <3> DEFINE Is(u) == Bijection(1 .. Cardinality(Uses(u)), Uses(u))
                 nth(u) == CHOOSE f : f \in Is(u)
                 g == [x \in place |-> IF x[2] <= Cardinality(Uses(x[1])) THEN nth(x[1])[x[2]] ELSE z]
      <3>1. \A u \in Task : nth(u) \in Is(u)
        <4> SUFFICES ASSUME NEW u \in Task PROVE \E f : f \in Is(u)
          BY Zenon
        <4>1. ExistsBijection(1 .. Cardinality(Uses(u)), Uses(u))
          BY <1>1, FS_CardinalityType, Zenon
        <4> QED BY <4>1, Zenon DEF ExistsBijection
      <3>2. \A u \in Task : /\ nth(u) \in [1 .. Cardinality(Uses(u)) -> Uses(u)]
                            /\ \A b \in Uses(u) : \E i \in 1 .. Cardinality(Uses(u)) : nth(u)[i] = b
        BY <3>1, Zenon DEF Bijection, Surjection
      <3> HIDE DEF nth
      <3>3. ASSUME NEW x \in place
            PROVE  (IF x[2] <= Cardinality(Uses(x[1])) THEN nth(x[1])[x[2]] ELSE z) \in taken
        <4>1. x[1] \in Task /\ x[2] \in 1 .. MaxHeld
          BY Zenon
        <4>2. CASE x[2] <= Cardinality(Uses(x[1]))
          <5>1. x[2] \in 1 .. Cardinality(Uses(x[1]))
            BY <1>1, <1>2, <4>1, <4>2
          <5>2. nth(x[1])[x[2]] \in Uses(x[1])
            BY <3>2, <4>1, <5>1, Zenon
          <5> QED BY <1>1, <4>1, <4>2, <5>2, Zenon
        <4> QED BY <2>2, <4>2, Zenon
      <3>4. g \in [place -> taken]
        BY <3>3, Zenon
      <3>5. ASSUME NEW b \in taken PROVE \E x \in place : g[x] = b
        <4>1. PICK u \in Task : b \in Uses(u)
          BY Zenon
        <4>2. PICK i \in 1 .. Cardinality(Uses(u)) : nth(u)[i] = b
          BY <3>2, <4>1, Zenon
        <4>3. i \in 1 .. MaxHeld /\ i <= Cardinality(Uses(u)) /\ (u = t => i # MaxHeld)
          BY <1>1, <1>2, <4>1
        <4>4. <<u, i>> \in place
          BY <4>3
        <4>5. g[<<u, i>>] = b
          <5>1. <<u, i>>[1] = u /\ <<u, i>>[2] = i
            OBVIOUS
          <5> HIDE DEF place
          <5> QED BY <4>2, <4>3, <4>4, <5>1, Zenon
        <4> QED BY <4>4, <4>5, Zenon
      <3> HIDE DEF g, taken, place
      <3>6. g \in Surjection(place, taken)
        BY <3>4, <3>5, Zenon DEF Surjection
      <3> QED BY <1>3, <3>6, FS_Surjection, Zenon
    <2> QED BY <2>1, <2>2, Zenon
  <1> HIDE DEF taken, place
  <1>6. Cardinality(taken) < Cardinality(Task) * MaxHeld
    BY <1>3, <1>4, <1>5
  <1> QED BY <1>6, Zenon DEF taken

(* When the second scan of bget() finds nothing, every buffer is in use.   *)
LEMMA AllInUse ==
  ASSUME BufInv, Quota, Victims = {}
  PROVE  \A b \in Buf : b \in pinned \/ \E u \in Task : b \in Uses(u)
  <1> SUFFICES ASSUME NEW b \in Buf, b \notin pinned, \A u \in Task : b \notin Uses(u)
               PROVE  FALSE
    BY Zenon
  <1>1. refcnt[b] = 0
    <2>1. Users(b) = {}
      BY Zenon DEF Users, Uses, Held
    <2>2. Cardinality(Users(b)) = 0
      BY <2>1, FS_EmptySet, Zenon
    <2> QED BY <2>2 DEF BufInv, RefcntExact
  <1> DEFINE T == {i \in 1 .. NBUF : refcnt[lru[i]] = 0}
  <1>2. NBUF \in Nat
    BY BufsFinite, Zenon DEF NBUF
  <1>3. T # {} /\ T \in SUBSET (1 .. NBUF)
    BY <1>1, Zenon DEF Quota, Complete
  <1>4. PICK i \in T : \A j \in T : j <= i
    BY <1>2, <1>3, LastOne, Zenon
  <1>5. lru[i] \in Buf /\ refcnt[lru[i]] = 0 /\ i \in 1 .. NBUF
    BY <1>4, Zenon DEF Quota, Complete
  <1>6. \A j \in i + 1 .. NBUF : refcnt[lru[j]] # 0
    <2> SUFFICES ASSUME NEW j \in i + 1 .. NBUF, refcnt[lru[j]] = 0 PROVE FALSE
      BY Zenon
    <2>1. j \in 1 .. NBUF /\ ~ (j <= i)
      BY <1>2, <1>5
    <2> QED BY <1>4, <2>1, Zenon
  <1>7. lru[i] \in Victims
    BY <1>5, <1>6, Zenon DEF Victims
  <1> QED BY <1>7, Zenon

(* Threads and log are then promised more than there is.                   *)
LEMMA Overcommitted ==
  ASSUME BufInv, Quota, Victims = {}, NEW t \in Task, NEW k \in BlockNo, MayAsk(t, k)
  PROVE  NBUF < Cardinality(Task) * MaxHeld + Cardinality(pinned)
  <1> DEFINE taken == {b \in Buf : \E u \in Task : b \in Uses(u)}
             all == Cardinality(Task) * MaxHeld
  <1>1. Cardinality(taken) < all
    <2>1. Uses(t) = Held(t) /\ Cardinality(Held(t)) < MaxHeld
      BY DEF MayAsk, Uses
    <2>2. BufTypeOK
      BY DEF BufInv
    <2> QED BY <2>1, <2>2, UsedAreFew, Zenon
  <1>2. /\ taken \in SUBSET Buf /\ pinned \in SUBSET Buf
        /\ IsFiniteSet(taken) /\ Cardinality(taken) \in Nat
        /\ IsFiniteSet(pinned) /\ Cardinality(pinned) \in Nat
    <2>1. taken \in SUBSET Buf /\ pinned \in SUBSET Buf
      BY Zenon DEF BufInv, BufTypeOK
    <2> QED BY <2>1, BufsFinite, Zenon
  <1>3. all \in Nat
    BY BufAssumption, FS_CardinalityType
  <1>4. taken \cup pinned = Buf
    BY <1>2, AllInUse, Zenon
  <1>5. Cardinality(taken \cup pinned) = Cardinality(taken) + Cardinality(pinned) - Cardinality(taken \cap pinned)
    BY <1>2, FS_Union, Zenon
  <1>6. Cardinality(taken \cap pinned) \in Nat
    <2>1. taken \cap pinned \in SUBSET Buf
      BY <1>2, Zenon
    <2> QED BY <2>1, BufsFinite, Zenon
  <1> HIDE DEF taken, all
  <1>7. NBUF = Cardinality(taken) + Cardinality(pinned) - Cardinality(taken \cap pinned)
    BY <1>4, <1>5, Zenon DEF NBUF
  <1>8. NBUF < all + Cardinality(pinned)
    BY <1>1, <1>2, <1>3, <1>6, <1>7
  <1> QED BY <1>8 DEF all

(* After a panic nothing moves, so what made it happen stays.              *)
LEMMA PanicStep ==
  ASSUME BufInv, Quota, Quota', PanicMeansFull, [BufNext]_bufvars
  PROVE  PanicMeansFull'
  <1>1. CASE UNCHANGED bufvars
    BY <1>1 DEF PanicMeansFull, bufvars, cachevars, Uses, Held
  <1>2. CASE ~panicked /\ panicked' = panicked
    BY <1>2, Zenon DEF PanicMeansFull, Quota
  <1>3. ASSUME NEW t \in Task, NEW k \in BlockNo, BGetPanic(t, k)
        PROVE  PanicMeansFull'
    <2>1. Victims = {} /\ MayAsk(t, k)
      BY <1>3, Zenon DEF BGetPanic
    <2>2. \A b \in Buf : b \in pinned \/ \E u \in Task : b \in Uses(u)
      BY <2>1, AllInUse, Zenon
    <2>3. NBUF < Cardinality(Task) * MaxHeld + Cardinality(pinned)
      BY <2>1, Overcommitted, Zenon
    <2>4. pinned' = pinned /\ \A u \in Task : Uses(u)' = Uses(u)
      BY <1>3 DEF BGetPanic, cachevars, Uses, Held
    <2>5. panicked' \in BOOLEAN
      BY <1>3 DEF BGetPanic
    <2> QED BY <2>2, <2>3, <2>4, <2>5, Zenon DEF PanicMeansFull, Quota
  <1> QED BY <1>1, <1>2, <1>3, Zenon DEF BufNext

(* bget() panics with "bget: no buffers" only if the buffers its callers   *)
(* may hold and those the log has pinned are more than NBUF, for any       *)
(* numbers of threads, buffers and blocks: no buffer is ever lost.         *)
THEOREM PanicOnlyWhenFull == BufSpec => []PanicMeansFull
  <1>1. BufInit => Quota /\ PanicMeansFull
    BY QuotaInit DEF Quota, PanicMeansFull, BufInit
  <1>2. BufInv /\ BufInv' /\ Quota /\ [BufNext]_bufvars => Quota'
    BY QuotaStep
  <1>3. BufInv /\ Quota /\ Quota' /\ PanicMeansFull /\ [BufNext]_bufvars => PanicMeansFull'
    BY PanicStep
  <1> QED BY <1>1, <1>2, <1>3, BufInvariant, PTL DEF BufSpec
=============================================================================
