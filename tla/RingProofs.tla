---------------------------- MODULE RingProofs ------------------------------
(***************************************************************************)
(* Proofs about the kernel's two rings with wrapping counters.             *)
(*                                                                         *)
(* A pipe (pipe.c): no reader or writer sleeps through the change it waits *)
(* for, and the ring is a first-in, first-out queue, for any number of     *)
(* processes and any PIPESIZE.                                             *)
(*                                                                         *)
(* The console (console.c, uart.c): the three counters never cross, no     *)
(* reader sleeps on input that is there, the transmitter is never overrun, *)
(* and the ring is a queue of lines, for any processes, letters and        *)
(* INPUT_BUF_SIZE.                                                         *)
(***************************************************************************)
EXTENDS Pipe, Console, TLAPS

-----------------------------------------------------------------------------
(* Sequences and remainders, for both.                                     *)

(* Two sequences are equal when they agree at every index.                 *)
LEMMA SameSeq ==
  \A S : \A s, t \in Seq(S) : Len(s) = Len(t) /\ (\A i \in 1 .. Len(s) : s[i] = t[i]) => s = t
  OBVIOUS

(* Storing one character at the end of a queue.                            *)
LEMMA AppendIs ==
  \A S : \A s \in Seq(S), x \in S :
     /\ Append(s, x) \in Seq(S) /\ Len(Append(s, x)) = Len(s) + 1
     /\ \A i \in 1 .. Len(s) : Append(s, x)[i] = s[i]
     /\ Append(s, x)[Len(s) + 1] = x
  OBVIOUS

(* The characters of the line follow the committed ones.                   *)
LEMMA ConcatIs ==
  \A S : \A s, t \in Seq(S) :
     /\ s \o t \in Seq(S) /\ Len(s \o t) = Len(s) + Len(t)
     /\ \A i \in 1 .. Len(s) : (s \o t)[i] = s[i]
     /\ \A i \in 1 .. Len(t) : (s \o t)[Len(s) + i] = t[i]
  OBVIOUS

(* What is left of a queue when a read has taken its first characters.     *)
LEMMA SubSeqIs ==
  \A S : \A s \in Seq(S), m \in Nat, n \in Nat : 1 <= m /\ m <= n + 1 /\ n <= Len(s) =>
     /\ SubSeq(s, m, n) \in Seq(S) /\ Len(SubSeq(s, m, n)) = n - m + 1
     /\ \A i \in 1 .. n - m + 1 : SubSeq(s, m, n)[i] = s[m + i - 1]
  OBVIOUS

(* A counter is the laps of its ring and an index in it.                   *)
LEMMA DivMod == \A m \in Nat \ {0}, n \in Nat : /\ n % m \in 0 .. m - 1
                               /\ n \div m \in Nat
                               /\ n = m * (n \div m) + (n % m)
  BY Z3

(* An unsigned difference: below zero it wraps once.                       *)
LEMMA ModSmall ==
  \A u \in Nat \ {0}, n \in Int :
     /\ 0 <= n /\ n < u => n % u = n
     /\ 0 - u <= n /\ n < 0 => n % u = n + u
  BY Z3

(* A counter one lap ahead is back at its place.                           *)
LEMMA ModOver == \A u \in Nat \ {0}, n \in Nat : n < u => (n + u) % u = n
  BY Z3T(30)

(* A whole number of laps is at least one lap.                             *)
LEMMA Multiple == \A m \in Nat \ {0}, d \in Int : d > 0 => m * d >= m
  BY Z3

(* Numbers less than m apart differ modulo m: two slots of a ring.         *)
LEMMA ModDiffers ==
  \A m \in Nat \ {0} : \A n \in Nat, k \in 1 .. m - 1 : (n + k) % m # n % m
  <1> SUFFICES ASSUME NEW m \in Nat \ {0}, NEW n \in Nat, NEW k \in 1 .. m - 1, (n + k) % m = n % m
               PROVE  FALSE
    BY Zenon
  <1> DEFINE d == (n + k) \div m
             e == n \div m
  <1>0. n + k \in Nat /\ \A i \in 0 .. m - 1 : i \in Nat
    OBVIOUS
  <1>1. d \in Nat /\ e \in Nat
    BY <1>0, DivMod, Zenon
  <1>2. n + k = m * d + ((n + k) % m) /\ n = m * e + (n % m)
    BY <1>0, DivMod, Zenon
  <1>3. n % m \in Nat
    BY <1>0, DivMod, Zenon
  <1> HIDE DEF d, e
  <1>4. k = m * d - m * e
    BY <1>1, <1>2, <1>3
  <1>5. k = m * (d - e)
    BY <1>1, <1>4
  <1>6. d - e > 0
    BY <1>1, <1>5
  <1>7. m * (d - e) >= m
    BY <1>1, <1>6, Multiple
  <1> QED BY <1>5, <1>7

(* A multiple of m more does not change the place modulo m.                *)
LEMMA ModPeriod ==
  \A m \in Nat \ {0}, u \in Nat : u % m = 0 => \A n \in Nat : (n + u) % m = n % m
  <1> SUFFICES ASSUME NEW m \in Nat \ {0}, NEW u \in Nat, u % m = 0, NEW n \in Nat
               PROVE  (n + u) % m = n % m
    BY Zenon
  <1> DEFINE d == (n + u) \div m
             e == n \div m
             c == u \div m
             r == n % m
             s == (n + u) % m
  <1>0. n + u \in Nat
    OBVIOUS
  <1>1. /\ d \in Nat /\ e \in Nat /\ c \in Nat
        /\ r \in 0 .. m - 1 /\ s \in 0 .. m - 1
    BY <1>0, DivMod, Zenon
  <1>2. n + u = m * d + s /\ n = m * e + r /\ u = m * c + (u % m)
    BY <1>0, DivMod, Zenon
  <1> SUFFICES r = s
    OBVIOUS
  <1> HIDE DEF d, e, c, r, s
  <1>3. m * d + s = m * e + m * c + r
    BY <1>1, <1>2, u % m = 0
  <1>4. s - r = m * (e + c - d) /\ r - s = m * (d - e - c)
    BY <1>1, <1>3
  <1>5. ~(e + c - d > 0)
    BY <1>1, <1>4, Multiple
  <1>6. ~(d - e - c > 0)
    BY <1>1, <1>4, Multiple
  <1>7. e + c - d = 0
    BY <1>1, <1>5, <1>6
  <1> QED BY <1>1, <1>4, <1>7

-----------------------------------------------------------------------------
(* The pipe.                                                               *)

(* The sizes, without the division: it slows the provers down.             *)
LEMMA Sizes ==
  PIPESIZE \in Nat \ {0} /\ UintSize \in Nat /\ PIPESIZE < UintSize /\ CallSizes \subseteq Nat
  BY PipeSizeAssumption

(* Taking from the abstract queue moves every byte one place forward.      *)
LEMMA TailIs ==
  \A S : \A s \in Seq(S) : s # <<>> =>
     /\ Tail(s) \in Seq(S) /\ Len(Tail(s)) = Len(s) - 1
     /\ \A i \in 1 .. Len(Tail(s)) : Tail(s)[i] = s[i + 1]
  OBVIOUS

(* A pipe is never full and empty at once: PIPESIZE is between 0 and the   *)
(* wrap of the counters.                                                   *)
LEMMA FullNotEmpty == PipeTypeOK => ~(Full /\ Empty)
  BY Sizes DEF PipeTypeOK, Full, Empty, Plus

(* A counter modulo PIPESIZE is an index of data.                          *)
LEMMA IndexIs == \A n \in Nat : n % PIPESIZE \in 0 .. PIPESIZE - 1
  BY DivMod, Sizes, Zenon

(* Counters less than PIPESIZE apart use different bytes of data.          *)
LEMMA IndexDiffers == \A n \in Nat, k \in 1 .. PIPESIZE - 1 : (n + k) % PIPESIZE # n % PIPESIZE
  BY ModDiffers, Sizes, Zenon

(* When an unsigned counter wraps, the index does not jump: PIPESIZE       *)
(* divides 2^32.                                                           *)
LEMMA IndexPeriod == \A n \in Nat : (n + UintSize) % PIPESIZE = n % PIPESIZE
  BY ModPeriod, PipeSizeAssumption, Zenon

(* How many bytes are under way, from the two counters: a full pipe has    *)
(* PIPESIZE, a byte put in or taken out is one more or one less, also when *)
(* a counter wraps.                                                        *)
LEMMA CountIs ==
  ASSUME PipeTypeOK
  PROVE  /\ Count \in Nat
         /\ Full <=> Count = PIPESIZE
         /\ Empty <=> Count = 0
         /\ nread + Count = nwrite \/ nread + Count = nwrite + UintSize
  BY Sizes DEF PipeTypeOK, Full, Empty, Plus, Count

(* A byte written adds one to the count and a byte read takes one, across  *)
(* the wrap of the counters.                                               *)
LEMMA CountMoves ==
  ASSUME PipeTypeOK, Count <= PIPESIZE
  PROVE  /\ ~Full /\ nwrite' = Plus(nwrite, 1) /\ nread' = nread => Count' = Count + 1
         /\ ~Empty /\ nread' = Plus(nread, 1) /\ nwrite' = nwrite => Count' = Count - 1
  <1>1. /\ nread \in Nat /\ nwrite \in Nat /\ nread < UintSize /\ nwrite < UintSize
        /\ PIPESIZE \in Nat /\ UintSize \in Nat /\ PIPESIZE < UintSize
    BY Sizes DEF PipeTypeOK
  <1>2. ASSUME ~Full, nwrite' = Plus(nwrite, 1), nread' = nread PROVE Count' = Count + 1
    <2>1. Count < PIPESIZE /\ Count \in Nat
      BY <1>1, <1>2, CountIs
    <2>2. CASE nwrite + 1 < UintSize
      BY ONLY <1>1, <1>2, <2>1, <2>2 DEF Plus, Count
    <2>3. CASE nwrite + 1 = UintSize
      BY ONLY <1>1, <1>2, <2>1, <2>3 DEF Plus, Count
    <2> QED BY <1>1, <2>2, <2>3
  <1>3. ASSUME ~Empty, nread' = Plus(nread, 1), nwrite' = nwrite PROVE Count' = Count - 1
    <2>1. nread # nwrite
      BY <1>3 DEF Empty
    <2>2. CASE nread + 1 < UintSize
      BY ONLY <1>1, <1>3, <2>1, <2>2 DEF Plus, Count
    <2>3. CASE nread + 1 = UintSize
      BY ONLY <1>1, <1>3, <2>1, <2>3 DEF Plus, Count
    <2> QED BY <1>1, <2>2, <2>3
  <1> QED BY <1>2, <1>3

(* pipealloc() sets up a pipe nobody is in.                                *)
LEMMA PipeInitInv == PipeInit => PipeInv
  <1> SUFFICES ASSUME PipeInit PROVE PipeInv
    OBVIOUS
  <1> USE DEF PipeInit
  <1>1. readopen \in BOOLEAN /\ writeopen \in BOOLEAN /\ killed \in [Proc -> BOOLEAN]
    BY Zenon
  <1>2. PipeTypeOK
    BY <1>1, Sizes DEF PipeTypeOK, Places
  <1>3. Count <= PIPESIZE
    BY Sizes DEF Count
  <1> QED BY <1>2, <1>3, PipeProcAssumption
          DEF PipeInv, PipeLockInv, OpenInv, WriterInv, ReaderInv, NoStandoff, Proc

(* Every step of pipe.c keeps the types: the counters stay below the wrap. *)
LEMMA PipeTypeStep == PipeInv /\ [PipeNext]_pipevars => PipeTypeOK'
  <1> SUFFICES ASSUME PipeInv, [PipeNext]_pipevars PROVE PipeTypeOK'
    OBVIOUS
  <1> USE Sizes DEF PipeInv, PipeTypeOK, ring, Places, Wake
  <1>1. \A n \in 0 .. UintSize - 1 : Plus(n, 1) \in 0 .. UintSize - 1
    BY DEF Plus
  <1>2. ASSUME NEW p \in Proc, NEW n \in CallSizes, Call(p, n) PROVE PipeTypeOK'
    BY <1>2 DEF Call
  <1>3. ASSUME NEW p \in Proc, Acquire(p) \/ Sleep(p) PROVE PipeTypeOK'
    BY <1>3 DEF Acquire, Sleep
  <1>4. ASSUME NEW p \in Proc, NEW who, Leave(p, who) PROVE PipeTypeOK'
    BY <1>4 DEF Leave
  <1>5. ASSUME NEW p \in Proc, NEW who, Doze(p, who) PROVE PipeTypeOK'
    BY <1>5 DEF Doze
  <1>6. ASSUME NEW p \in Proc, NEW ch \in Byte, PutByte(p, ch) PROVE PipeTypeOK'
    <2> DEFINE i == nwrite % PIPESIZE
    <2>1. data' = [data EXCEPT ![i] = ch]
      BY <1>6 DEF PutByte
    <2> HIDE DEF i
    <2>2. data' \in [0 .. PIPESIZE - 1 -> Byte]
      BY <2>1, Zenon
    <2>3. left[p] > 0 /\ left' = [left EXCEPT ![p] = @ - 1] /\ nwrite' = Plus(nwrite, 1)
      BY <1>6 DEF PutByte
    <2>4. left' \in [Proc -> Nat]
      BY <2>3
    <2>5. UNCHANGED <<nread, taken, readopen, writeopen, lock, pc, killed>>
      BY <1>6 DEF PutByte
    <2> QED BY <1>1, <2>2, <2>3, <2>4, <2>5, Zenon
  <1>7. ASSUME NEW p \in Proc, GetByte(p) PROVE PipeTypeOK'
    <2> DEFINE i == nread % PIPESIZE
    <2>1. i \in 0 .. PIPESIZE - 1
      <3>1. nread \in Nat
        OBVIOUS
      <3> QED BY ONLY <3>1, IndexIs
    <2>2. taken' = data[i]
      BY <1>7 DEF GetByte
    <2> HIDE DEF i
    <2>3. taken' \in Byte
      BY <2>1, <2>2
    <2>4. left[p] > 0 /\ left' = [left EXCEPT ![p] = @ - 1] /\ nread' = Plus(nread, 1)
      BY <1>7 DEF GetByte
    <2>5. left' \in [Proc -> Nat]
      BY <2>4
    <2>6. UNCHANGED <<data, nwrite, readopen, writeopen, lock, pc, killed>>
      BY <1>7 DEF GetByte
    <2> QED BY <1>1, <2>3, <2>4, <2>5, <2>6, Zenon
  <1>8. ASSUME NEW p \in Proc, ReadReady(p) PROVE PipeTypeOK'
    BY <1>8 DEF ReadReady
  <1>9. CASE CloseRead \/ CloseWrite
    <2>1. readopen' \in BOOLEAN /\ writeopen' \in BOOLEAN
      BY <1>9, Zenon DEF CloseRead, CloseWrite
    <2> QED BY <1>9, <2>1 DEF CloseRead, CloseWrite
  <1>10. ASSUME NEW p \in Proc, Kill(p) PROVE PipeTypeOK'
    <2>1. killed' \in [Proc -> BOOLEAN]
      BY <1>10 DEF Kill
    <2> QED BY <1>10, <2>1 DEF Kill
  <1>11. CASE UNCHANGED pipevars
    BY <1>11 DEF pipevars
  <1> QED BY <1>2, <1>3, <1>4, <1>5, <1>6, <1>7, <1>8, <1>9, <1>10, <1>11
          DEF PipeNext, InCall, WriteFails, WriteFull, WriteDone, ReadFails, ReadEmpty, ReadDone

(* What remains of PipeInv beside types.                                   *)
SleepInv == PipeLockInv /\ OpenInv /\ WriterInv /\ ReaderInv /\ NoStandoff

(* Entering a call, taking pi->lock, being killed: nobody who sleeps is    *)
(* concerned, and who is woken tests again.                                *)
LEMMA EnterStep ==
  ASSUME PipeInv, NEW p \in Proc,
         Acquire(p) \/ Kill(p) \/ ReadReady(p) \/ \E n \in CallSizes : Call(p, n)
  PROVE  SleepInv'
  <1> USE PipeProcAssumption DEF PipeInv, PipeTypeOK, SleepInv, Proc, ring, Wake,
          PipeLockInv, OpenInv, WriterInv, ReaderInv, NoStandoff, Full, Empty
  <1>1. CASE Acquire(p)
    BY <1>1 DEF Acquire
  <1>2. CASE Kill(p)
    BY <1>2 DEF Kill
  <1>3. CASE ReadReady(p)
    BY <1>3 DEF ReadReady, Reading
  <1>4. CASE \E n \in CallSizes : Call(p, n)
    BY <1>4 DEF Call
  <1> QED BY <1>1, <1>2, <1>3, <1>4

(* Falling asleep: a reader on an empty pipe, a writer on a full one that  *)
(* has just woken every reader.                                            *)
LEMMA SleepStep ==
  ASSUME PipeInv, NEW p \in Proc, Sleep(p) \/ WriteFull(p) \/ ReadEmpty(p)
  PROVE  SleepInv'
  <1> USE PipeProcAssumption, FullNotEmpty DEF PipeInv, PipeTypeOK, SleepInv, Proc, ring, Wake,
          PipeLockInv, OpenInv, WriterInv, ReaderInv, NoStandoff, Full, Empty, Doze
  <1>1. CASE Sleep(p)
    BY <1>1 DEF Sleep
  <1>2. CASE WriteFull(p)
    BY <1>2 DEF WriteFull, Writing
  <1>3. CASE ReadEmpty(p)
    BY <1>3 DEF ReadEmpty, Reading
  <1> QED BY <1>1, <1>2, <1>3

(* Copying a byte under pi->lock: the pipe stops being what sleepers of    *)
(* the other end wait for, but the copier has yet to leave and wake them.  *)
LEMMA CopyStep ==
  ASSUME PipeInv, PipeTypeOK', NEW p \in Proc, GetByte(p) \/ \E ch \in Byte : PutByte(p, ch)
  PROVE  SleepInv'
  <1> USE PipeProcAssumption, Sizes
      DEF PipeInv, PipeTypeOK, SleepInv, Proc, PipeLockInv, OpenInv, NoStandoff
  <1>1. CASE GetByte(p)
    BY <1>1 DEF GetByte, Reading, WriterInv, ReaderInv, Empty, Full
  <1>2. CASE \E ch \in Byte : PutByte(p, ch)
    BY <1>2 DEF PutByte, Writing, WriterInv, ReaderInv, Empty, Full
  <1> QED BY <1>1, <1>2

(* Returning from a call and closing an end.                               *)
LEMMA LeaveStep ==
  ASSUME PipeInv,
         \/ CloseRead \/ CloseWrite
         \/ \E p \in Proc : WriteFails(p) \/ WriteDone(p) \/ ReadFails(p) \/ ReadDone(p)
  PROVE  SleepInv'
  <1> USE PipeProcAssumption DEF PipeInv, PipeTypeOK, SleepInv, Proc, ring, Wake,
          PipeLockInv, OpenInv, WriterInv, ReaderInv, NoStandoff, Full, Empty, Leave
  <1>1. CASE CloseRead \/ CloseWrite
    BY <1>1 DEF CloseRead, CloseWrite
  <1>2. ASSUME NEW p \in Proc, WriteFails(p) PROVE SleepInv'
    BY <1>2 DEF WriteFails, Writing
  <1>3. ASSUME NEW p \in Proc, WriteDone(p) PROVE SleepInv'
    BY <1>3 DEF WriteDone, Writing
  <1>4. ASSUME NEW p \in Proc, ReadFails(p) PROVE SleepInv'
    BY <1>4 DEF ReadFails, Reading
  <1>5. ASSUME NEW p \in Proc, ReadDone(p) PROVE SleepInv'
    BY <1>5 DEF ReadDone, Reading
  <1> QED BY <1>1, <1>2, <1>3, <1>4, <1>5

(* Only the copy of a byte, in or out, touches the ring.                   *)
LEMMA RingStep ==
  ASSUME [PipeNext]_pipevars
  PROVE  \/ UNCHANGED ring
         \/ \E p \in Proc, ch \in Byte : PutByte(p, ch)
         \/ \E p \in Proc : GetByte(p)
  BY Zenon DEF PipeNext, InCall, pipevars, ring, Call, Acquire, Sleep, WriteFails, WriteFull, WriteDone,
               ReadFails, ReadEmpty, ReadReady, ReadDone, CloseRead, CloseWrite, Kill, Leave, Doze

(* The counters stay within a ring of each other.                          *)
LEMMA CountStep ==
  ASSUME PipeInv, [PipeNext]_pipevars
  PROVE  Count' <= PIPESIZE
  <1>1. CASE UNCHANGED ring
    BY <1>1 DEF ring, Count, PipeInv
  <1>2. ASSUME NEW p \in Proc, NEW ch \in Byte, PutByte(p, ch) PROVE Count' <= PIPESIZE
    <2>1. ~Full /\ nwrite' = Plus(nwrite, 1) /\ nread' = nread
      BY <1>2 DEF PutByte
    <2>2. Count' = Count + 1
      BY <2>1, CountMoves DEF PipeInv
    <2> QED BY <2>1, <2>2, CountIs, Sizes DEF PipeInv
  <1>3. ASSUME NEW p \in Proc, GetByte(p) PROVE Count' <= PIPESIZE
    <2>1. ~Empty /\ nread' = Plus(nread, 1) /\ nwrite' = nwrite
      BY <1>3 DEF GetByte
    <2>2. Count' = Count - 1
      BY <2>1, CountMoves DEF PipeInv
    <2> QED BY <2>2, CountIs, Sizes DEF PipeInv
  <1> QED BY <1>1, <1>2, <1>3, RingStep

(* Every step keeps the invariant of the pipe.                             *)
LEMMA PipeNextInv == PipeInv /\ [PipeNext]_pipevars => PipeInv'
  <1> SUFFICES ASSUME PipeInv, [PipeNext]_pipevars PROVE PipeInv'
    OBVIOUS
  <1>1. PipeTypeOK'
    BY PipeTypeStep
  <1>2. Count' <= PIPESIZE
    BY CountStep
  <1>3. CASE UNCHANGED pipevars
    BY <1>1, <1>2, <1>3 DEF pipevars, PipeInv, PipeLockInv, OpenInv, WriterInv, ReaderInv, NoStandoff,
                            Full, Empty
  <1>4. CASE PipeNext
    BY <1>1, <1>2, <1>4, EnterStep, SleepStep, CopyStep, LeaveStep
       DEF PipeNext, InCall, SleepInv, PipeInv
  <1> QED BY <1>3, <1>4

(* The invariant of a pipe's sleepers holds in every reachable state.      *)
THEOREM PipeInvariant == PipeSpec => []PipeInv
  BY PipeInitInv, PipeNextInv, PTL DEF PipeSpec

(* pipewrite() never sleeps through a read or the close of the read end.   *)
THEOREM WriterNotForgotten == PipeSpec => []WriterSleepsOnFull
  <1>1. PipeInv => WriterSleepsOnFull
    BY PipeProcAssumption DEF PipeInv, WriterInv, WriterSleepsOnFull, Proc
  <1> QED BY <1>1, PipeInvariant, PTL

(* piperead() sleeps through a write only if the writer was killed, and    *)
(* never through the close of the write end.                               *)
THEOREM ReaderNotForgotten == PipeSpec => []ReaderSleepsOnEmpty
  <1>1. PipeInv => ReaderSleepsOnEmpty
    BY PipeProcAssumption DEF PipeInv, ReaderInv, ReaderSleepsOnEmpty, Proc
  <1> QED BY <1>1, PipeInvariant, PTL

(* piperead() and pipewrite() never sleep for each other.                  *)
THEOREM PipeNoStandoff == PipeSpec => []NoStandoff
  <1>1. PipeInv => NoStandoff
    BY DEF PipeInv
  <1> QED BY <1>1, PipeInvariant, PTL

-----------------------------------------------------------------------------
(* The bytes under way are a sequence.                                     *)
LEMMA BufferedIs ==
  PipeTypeOK => /\ Buffered \in Seq(Byte)
                /\ Len(Buffered) = Count
                /\ \A i \in 1 .. Count : Buffered[i] = data[(nread + i - 1) % PIPESIZE]
  <1> SUFFICES ASSUME PipeTypeOK
               PROVE  /\ Buffered \in Seq(Byte)
                      /\ Len(Buffered) = Count
                      /\ \A i \in 1 .. Count : Buffered[i] = data[(nread + i - 1) % PIPESIZE]
    OBVIOUS
  <1>1. Count \in Nat
    BY CountIs
  <1>2. \A i \in 1 .. Count : data[(nread + i - 1) % PIPESIZE] \in Byte
    <2> SUFFICES ASSUME NEW i \in 1 .. Count PROVE data[(nread + i - 1) % PIPESIZE] \in Byte
      OBVIOUS
    <2>1. nread + i - 1 \in Nat
      BY <1>1, Sizes DEF PipeTypeOK
    <2>2. (nread + i - 1) % PIPESIZE \in 0 .. PIPESIZE - 1
      BY ONLY <2>1, IndexIs
    <2> QED BY <2>2, Zenon DEF PipeTypeOK
  <1>3. /\ Buffered \in [1 .. Count -> Byte]
        /\ \A i \in 1 .. Count : Buffered[i] = data[(nread + i - 1) % PIPESIZE]
    BY <1>2, Zenon DEF Buffered
  <1>4. Buffered \in Seq(Byte) /\ Len(Buffered) = Count
    BY <1>1, <1>3
  <1> QED BY <1>3, <1>4

(* The same of the ring after a step.                                      *)
LEMMA BufferedNext ==
  PipeTypeOK' => /\ Buffered' \in Seq(Byte)
                 /\ Len(Buffered') = Count'
                 /\ \A i \in 1 .. Count' : Buffered'[i] = data'[(nread' + i - 1) % PIPESIZE]
  <1>1. (PipeTypeOK => /\ Buffered \in Seq(Byte)
                       /\ Len(Buffered) = Count
                       /\ \A i \in 1 .. Count : Buffered[i] = data[(nread + i - 1) % PIPESIZE])'
    BY BufferedIs, PTL
  <1> QED BY <1>1

(* pipewrite() puts a byte behind those under way and overwrites none.     *)
LEMMA PutIsAppend ==
  ASSUME PipeInv, PipeInv', NEW p \in Proc, NEW ch \in Byte, PutByte(p, ch)
  PROVE  Stream!Put(ch)
  <1>1. /\ ~Full /\ nwrite' = Plus(nwrite, 1) /\ nread' = nread /\ taken' = taken
        /\ data' = [data EXCEPT ![nwrite % PIPESIZE] = ch]
    BY DEF PutByte
  <1>2. Count' = Count + 1 /\ Count < PIPESIZE /\ Count \in Nat
    BY <1>1, CountMoves, CountIs, Sizes DEF PipeInv
  <1>3. nread \in Nat /\ nwrite \in Nat
    BY Sizes DEF PipeInv, PipeTypeOK
  <1>4. (nread + Count) % PIPESIZE = nwrite % PIPESIZE
    <2>1. nread + Count = nwrite \/ nread + Count = nwrite + UintSize
      BY CountIs DEF PipeInv
    <2> QED BY <1>3, <2>1, IndexPeriod
  <1>5. nwrite % PIPESIZE \in 0 .. PIPESIZE - 1
    BY ONLY <1>3, IndexIs
  <1>6. \A i \in 1 .. Count : data'[(nread + i - 1) % PIPESIZE] = data[(nread + i - 1) % PIPESIZE]
    <2> SUFFICES ASSUME NEW i \in 1 .. Count
                 PROVE  data'[(nread + i - 1) % PIPESIZE] = data[(nread + i - 1) % PIPESIZE]
      OBVIOUS
    <2> DEFINE n == nread + i - 1
    <2>1. n \in Nat /\ Count - i + 1 \in 1 .. PIPESIZE - 1 /\ n + (Count - i + 1) = nread + Count
      BY <1>2, <1>3, Sizes
    <2>2. n % PIPESIZE # (n + (Count - i + 1)) % PIPESIZE
      BY ONLY <2>1, IndexDiffers
    <2>3. n % PIPESIZE # nwrite % PIPESIZE /\ n % PIPESIZE \in 0 .. PIPESIZE - 1
      BY ONLY <1>4, <2>1, <2>2, IndexIs
    <2> HIDE DEF n
    <2> DEFINE k == n % PIPESIZE
               l == nwrite % PIPESIZE
    <2>4. data' = [data EXCEPT ![l] = ch] /\ k # l /\ k \in 0 .. PIPESIZE - 1
      BY <1>1, <2>3
    <2> HIDE DEF k, l
    <2>5. data'[k] = data[k]
      BY <2>4 DEF PipeInv, PipeTypeOK
    <2> QED BY <2>5 DEF k, n
  <1>7. data'[(nread + Count) % PIPESIZE] = ch
    <2> DEFINE l == nwrite % PIPESIZE
    <2>1. data' = [data EXCEPT ![l] = ch] /\ l \in 0 .. PIPESIZE - 1 /\ (nread + Count) % PIPESIZE = l
      BY <1>1, <1>4, <1>5
    <2> HIDE DEF l
    <2> QED BY <2>1 DEF PipeInv, PipeTypeOK
  <1>8. /\ Buffered \in Seq(Byte) /\ Len(Buffered) = Count
        /\ \A i \in 1 .. Count : Buffered[i] = data[(nread + i - 1) % PIPESIZE]
    BY BufferedIs DEF PipeInv
  <1>9. /\ Buffered' \in Seq(Byte) /\ Len(Buffered') = Count'
        /\ \A i \in 1 .. Count' : Buffered'[i] = data'[(nread' + i - 1) % PIPESIZE]
    BY BufferedNext DEF PipeInv
  <1>10. /\ Append(Buffered, ch) \in Seq(Byte) /\ Len(Append(Buffered, ch)) = Count + 1
         /\ \A i \in 1 .. Count : Append(Buffered, ch)[i] = Buffered[i]
         /\ Append(Buffered, ch)[Count + 1] = ch
    BY <1>8, AppendIs
  <1>11. \A i \in 1 .. Count' : Buffered'[i] = Append(Buffered, ch)[i]
    <2> SUFFICES ASSUME NEW i \in 1 .. Count' PROVE Buffered'[i] = Append(Buffered, ch)[i]
      BY Zenon
    <2>1. CASE i = Count + 1
      <3>1. nread' + i - 1 = nread + Count
        BY <1>1, <1>2, <1>3, <2>1
      <3> QED BY <1>7, <1>9, <1>10, <2>1, <3>1
    <2>2. CASE i # Count + 1
      <3>1. i \in 1 .. Count
        BY <1>2, <2>2
      <3>2. Buffered'[i] = data'[(nread + i - 1) % PIPESIZE]
        BY <1>1, <1>9
      <3> QED BY <1>6, <1>8, <1>10, <3>1, <3>2
    <2> QED BY <2>1, <2>2, Zenon
  <1>12. Buffered' = Append(Buffered, ch)
    BY <1>2, <1>9, <1>10, <1>11, SameSeq
  <1> QED BY <1>1, <1>2, <1>8, <1>12 DEF Stream!Put

(* One step of nread moves every index by one.                             *)
LEMMA Shift ==
  \A m, n, i \in Nat : i >= 1 /\ (m = n + 1 \/ m + UintSize = n + 1)
     => m + i - 1 \in Nat /\ (m + i - 1 = n + i \/ (m + i - 1) + UintSize = n + i)
  BY Sizes

(* piperead() takes the oldest byte, and the others move up.               *)
LEMMA GetIsTail ==
  ASSUME PipeInv, PipeInv', NEW p \in Proc, GetByte(p)
  PROVE  Stream!Get
  <1>1. /\ ~Empty /\ nread' = Plus(nread, 1) /\ nwrite' = nwrite /\ data' = data
        /\ taken' = data[nread % PIPESIZE]
    BY DEF GetByte
  <1>2. Count' = Count - 1 /\ Count \in Nat /\ Count # 0
    BY <1>1, CountMoves, CountIs DEF PipeInv
  <1>3. nread \in Nat /\ nread' \in Nat /\ (nread' = nread + 1 \/ nread' + UintSize = nread + 1)
    BY <1>1, Sizes DEF PipeInv, PipeTypeOK, Plus
  <1>4. /\ Buffered \in Seq(Byte) /\ Len(Buffered) = Count
        /\ \A i \in 1 .. Count : Buffered[i] = data[(nread + i - 1) % PIPESIZE]
    BY BufferedIs DEF PipeInv
  <1>5. /\ Buffered' \in Seq(Byte) /\ Len(Buffered') = Count'
        /\ \A i \in 1 .. Count' : Buffered'[i] = data'[(nread' + i - 1) % PIPESIZE]
    BY BufferedNext DEF PipeInv
  <1>6. Buffered # <<>>
    BY <1>2, <1>4
  <1>7. /\ Tail(Buffered) \in Seq(Byte) /\ Len(Tail(Buffered)) = Count - 1
        /\ \A i \in 1 .. Len(Tail(Buffered)) : Tail(Buffered)[i] = Buffered[i + 1]
    BY <1>4, <1>6, TailIs
  <1>8. \A i \in 1 .. Count' : Buffered'[i] = Tail(Buffered)[i]
    <2> SUFFICES ASSUME NEW i \in 1 .. Count' PROVE Buffered'[i] = Tail(Buffered)[i]
      BY Zenon
    <2>1. i + 1 \in 1 .. Count /\ i \in 1 .. Len(Tail(Buffered)) /\ nread + (i + 1) - 1 = nread + i
      BY <1>2, <1>3, <1>7
    <2>a. i \in Nat /\ i >= 1
      BY <1>2
    <2>2. nread' + i - 1 \in Nat
          /\ (nread' + i - 1 = nread + i \/ (nread' + i - 1) + UintSize = nread + i)
      BY ONLY <2>a, <1>3, Shift, Zenon
    <2>3. (nread' + i - 1) % PIPESIZE = (nread + i) % PIPESIZE
      BY ONLY <2>2, IndexPeriod
    <2>4. Tail(Buffered)[i] = data[(nread + i) % PIPESIZE]
      BY <1>4, <1>7, <2>1
    <2> QED BY <1>1, <1>5, <2>3, <2>4, Zenon
  <1>9. Buffered' = Tail(Buffered)
    BY <1>2, <1>5, <1>7, <1>8, SameSeq
  <1>10. taken' = Head(Buffered)
    <2>1. Head(Buffered) = Buffered[1]
      BY <1>4, <1>6
    <2>2. 1 \in 1 .. Count /\ nread + 1 - 1 = nread
      BY <1>2, <1>3
    <2> QED BY <1>1, <1>4, <2>1, <2>2
  <1> QED BY <1>6, <1>9, <1>10 DEF Stream!Get

(* A pipe is a bounded first-in, first-out queue of bytes, for any         *)
(* PIPESIZE that divides the wrap of the counters, any number of readers   *)
(* and writers and any interleaving of their calls.                        *)
THEOREM PipeIsFifo == PipeSpec => Fifo
  <1>1. PipeInit => Stream!Init
    <2> SUFFICES ASSUME PipeInit PROVE Stream!Init
      OBVIOUS
    <2>1. Count = 0
      BY DEF PipeInit, Count
    <2>2. Buffered = <<>>
      BY <2>1 DEF Buffered
    <2> QED BY <2>2 DEF PipeInit, Stream!Init
  <1>2. PipeInv /\ PipeInv' /\ [PipeNext]_pipevars => [Stream!Next]_<<Buffered, taken>>
    <2> SUFFICES ASSUME PipeInv, PipeInv', [PipeNext]_pipevars
                 PROVE  [Stream!Next]_<<Buffered, taken>>
      OBVIOUS
    <2>1. CASE UNCHANGED ring
      BY <2>1 DEF ring, Buffered, Count
    <2>2. ASSUME NEW p \in Proc, NEW ch \in Byte, PutByte(p, ch) PROVE Stream!Next
      BY <2>2, PutIsAppend DEF Stream!Next
    <2>3. ASSUME NEW p \in Proc, GetByte(p) PROVE Stream!Next
      BY <2>3, GetIsTail DEF Stream!Next
    <2> QED BY <2>1, <2>2, <2>3, RingStep
  <1> QED BY <1>1, <1>2, PipeInvariant, PTL DEF PipeSpec, Fifo, Stream!Spec

-----------------------------------------------------------------------------
(* The console's sizes, without the division.                              *)
LEMMA ConsoleSizes ==
  /\ INPUT_BUF_SIZE \in Nat \ {0} /\ UINT \in Nat /\ INPUT_BUF_SIZE < UINT
  /\ BATCH \in Nat \ {0} /\ Requests \subseteq Nat \ {0}
  BY ConsoleAssumption

(* How far a counter is ahead of another, also when it has wrapped.        *)
LEMMA ApartIs ==
  \A x, y \in Counter : /\ Apart(x, y) \in Nat /\ Apart(x, y) < UINT
                        /\ y + Apart(x, y) = x \/ y + Apart(x, y) = x + UINT
  <1> SUFFICES ASSUME NEW x \in Counter, NEW y \in Counter
               PROVE  /\ Apart(x, y) \in Nat /\ Apart(x, y) < UINT
                      /\ y + Apart(x, y) = x \/ y + Apart(x, y) = x + UINT
    BY Zenon
  <1>1. /\ x \in Int /\ y \in Int /\ 0 <= x /\ x < UINT /\ 0 <= y /\ y < UINT
        /\ UINT \in Nat \ {0}
    BY ConsoleSizes DEF Counter
  <1>2. CASE x >= y
    <2>1. x - y \in Int /\ 0 <= x - y /\ x - y < UINT
      BY <1>1, <1>2
    <2>2. (x - y) % UINT = x - y
      BY <1>1, <2>1, ModSmall, Zenon
    <2> QED BY <1>1, <1>2, <2>2 DEF Apart
  <1>3. CASE x < y
    <2>1. x - y \in Int /\ 0 - UINT <= x - y /\ x - y < 0
      BY <1>1, <1>3
    <2>2. (x - y) % UINT = x - y + UINT
      BY <1>1, <2>1, ModSmall, Zenon
    <2> QED BY <1>1, <1>3, <2>2 DEF Apart
  <1> QED BY <1>1, <1>2, <1>3

(* A counter moved on by no more than the ring holds.                      *)
LEMMA ForwardIs ==
  \A x \in Counter, n \in 0 .. INPUT_BUF_SIZE :
     Forward(x, n) \in Counter /\ (Forward(x, n) = x + n \/ Forward(x, n) + UINT = x + n)
  <1> SUFFICES ASSUME NEW x \in Counter, NEW n \in 0 .. INPUT_BUF_SIZE
               PROVE  Forward(x, n) \in Counter /\ (Forward(x, n) = x + n \/ Forward(x, n) + UINT = x + n)
    BY Zenon
  <1>1. /\ x \in Int /\ n \in Int /\ 0 <= x /\ x < UINT /\ 0 <= n /\ n < UINT
        /\ UINT \in Nat \ {0}
    BY ConsoleSizes DEF Counter
  <1>2. CASE x + n < UINT
    <2>1. x + n \in Int /\ 0 <= x + n /\ x + n < UINT
      BY <1>1, <1>2
    <2>2. (x + n) % UINT = x + n
      BY <1>1, <2>1, ModSmall, Zenon
    <2> QED BY <1>1, <1>2, <2>2 DEF Forward, Counter
  <1>3. CASE x + n >= UINT
    <2> DEFINE z == x + n - UINT
    <2>1. z \in Nat /\ z < UINT /\ z + UINT = x + n
      BY <1>1, <1>3
    <2> HIDE DEF z
    <2>2. (x + n) % UINT = z
      BY <1>1, <2>1, ModOver, ZenonT(30)
    <2> QED BY <1>1, <1>3, <2>1, <2>2 DEF Forward, Counter
  <1> QED BY <1>1, <1>2, <1>3

(* A counter moved back by one.                                            *)
LEMMA BackIs ==
  \A x \in Counter : Apart(x, 1) \in Counter /\ (Apart(x, 1) + 1 = x \/ Apart(x, 1) + 1 = x + UINT)
  <1>1. 1 \in Counter
    BY ConsoleSizes DEF Counter
  <1>2. ASSUME NEW x \in Counter
        PROVE  Apart(x, 1) \in Counter /\ (Apart(x, 1) + 1 = x \/ Apart(x, 1) + 1 = x + UINT)
    <2>1. /\ Apart(x, 1) \in Nat /\ Apart(x, 1) < UINT
          /\ 1 + Apart(x, 1) = x \/ 1 + Apart(x, 1) = x + UINT
      BY <1>1, ApartIs, Zenon
    <2> QED BY <2>1, ConsoleSizes DEF Counter
  <1> QED BY <1>2, Zenon

(* The counters in their order: the committed characters and those being   *)
(* edited are the characters of the ring.                                  *)
LEMMA Spans ==
  \A r, w, e \in Counter : Apart(w, r) <= Apart(e, r) => Apart(e, r) = Apart(w, r) + Apart(e, w)
  <1> SUFFICES ASSUME NEW r \in Counter, NEW w \in Counter, NEW e \in Counter, Apart(w, r) <= Apart(e, r)
               PROVE  Apart(e, r) = Apart(w, r) + Apart(e, w)
    BY Zenon
  <1> DEFINE a == Apart(w, r)
             b == Apart(e, r)
             c == Apart(e, w)
  <1>1. /\ a \in Nat /\ a < UINT /\ (r + a = w \/ r + a = w + UINT)
        /\ b \in Nat /\ b < UINT /\ (r + b = e \/ r + b = e + UINT)
        /\ c \in Nat /\ c < UINT /\ (w + c = e \/ w + c = e + UINT)
        /\ a <= b
    BY ApartIs
  <1>2. r \in Nat /\ w \in Nat /\ e \in Nat /\ r < UINT /\ w < UINT /\ e < UINT /\ UINT \in Nat
    BY ConsoleSizes DEF Counter
  <1> HIDE DEF a, b, c
  <1>3. b = a + c
    BY ONLY <1>1, <1>2
  <1> QED BY <1>3 DEF a, b, c

(* Two counters are equal when they are not apart.                         *)
LEMMA ApartZero == \A x, y \in Counter : Apart(x, y) = 0 <=> x = y
  <1> SUFFICES ASSUME NEW x \in Counter, NEW y \in Counter PROVE Apart(x, y) = 0 <=> x = y
    BY Zenon
  <1>1. /\ Apart(x, y) \in Nat /\ Apart(x, y) < UINT
        /\ y + Apart(x, y) = x \/ y + Apart(x, y) = x + UINT
    BY ApartIs
  <1> QED BY <1>1, ConsoleSizes DEF Counter

(* consoleread() takes n characters.                                       *)
LEMMA TakeApart ==
  ASSUME NEW x \in Counter, NEW r \in Counter, NEW n \in 0 .. INPUT_BUF_SIZE, n <= Apart(x, r)
  PROVE  Apart(x, Forward(r, n)) = Apart(x, r) - n
  <1> DEFINE a == Apart(x, r)
             s == Forward(r, n)
             b == Apart(x, s)
  <1>1. s \in Counter /\ (s = r + n \/ s + UINT = r + n)
    BY ForwardIs
  <1>2. /\ a \in Nat /\ a < UINT /\ (r + a = x \/ r + a = x + UINT) /\ n <= a
        /\ b \in Nat /\ b < UINT /\ (s + b = x \/ s + b = x + UINT)
    BY <1>1, ApartIs
  <1>3. /\ r \in Nat /\ x \in Nat /\ s \in Nat /\ r < UINT /\ x < UINT /\ s < UINT /\ UINT \in Nat
        /\ n \in Nat
    BY <1>1, ConsoleSizes DEF Counter
  <1> HIDE DEF a, s, b
  <1>4. b = a - n
    BY ONLY <1>1, <1>2, <1>3
  <1> QED BY <1>4 DEF a, s, b

(* consoleintr() stores a character.                                       *)
LEMMA StoreApart ==
  ASSUME NEW e \in Counter, NEW x \in Counter, Apart(e, x) < INPUT_BUF_SIZE
  PROVE  Apart(Forward(e, 1), x) = Apart(e, x) + 1
  <1> DEFINE a == Apart(e, x)
             s == Forward(e, 1)
             b == Apart(s, x)
  <1>1. s \in Counter /\ (s = e + 1 \/ s + UINT = e + 1)
    BY ForwardIs, ConsoleSizes
  <1>2. /\ a \in Nat /\ a < INPUT_BUF_SIZE /\ (x + a = e \/ x + a = e + UINT)
        /\ b \in Nat /\ b < UINT /\ (x + b = s \/ x + b = s + UINT)
    BY <1>1, ApartIs
  <1>3. /\ e \in Nat /\ x \in Nat /\ s \in Nat /\ e < UINT /\ x < UINT /\ s < UINT /\ UINT \in Nat
        /\ INPUT_BUF_SIZE \in Nat /\ INPUT_BUF_SIZE < UINT
    BY <1>1, ConsoleSizes DEF Counter
  <1> HIDE DEF a, s, b
  <1>4. b = a + 1
    BY ONLY <1>1, <1>2, <1>3
  <1> QED BY <1>4 DEF a, s, b

(* consoleintr() erases a character.                                       *)
LEMMA EraseApart ==
  ASSUME NEW e \in Counter, NEW x \in Counter, Apart(e, x) > 0
  PROVE  Apart(Apart(e, 1), x) = Apart(e, x) - 1
  <1> DEFINE a == Apart(e, x)
             s == Apart(e, 1)
             b == Apart(s, x)
  <1>1. s \in Counter /\ (s + 1 = e \/ s + 1 = e + UINT)
    BY BackIs
  <1>2. /\ a \in Nat /\ a > 0 /\ a < UINT /\ (x + a = e \/ x + a = e + UINT)
        /\ b \in Nat /\ b < UINT /\ (x + b = s \/ x + b = s + UINT)
    BY <1>1, ApartIs
  <1>3. /\ e \in Nat /\ x \in Nat /\ s \in Nat /\ e < UINT /\ x < UINT /\ s < UINT /\ UINT \in Nat
    BY <1>1, ConsoleSizes DEF Counter
  <1> HIDE DEF a, s, b
  <1>4. b = a - 1
    BY ONLY <1>1, <1>2, <1>3
  <1> QED BY <1>4 DEF a, s, b

-----------------------------------------------------------------------------
(* The characters of a ring b from counter x to counter y.                 *)
Buffer == [0 .. INPUT_BUF_SIZE - 1 -> Char]
Span(b, x, y) == [i \in 1 .. Apart(y, x) |-> b[Slot(x + i - 1)]]

(* A slot is an index of the ring.                                         *)
LEMMA SlotIs == \A n \in Nat : Slot(n) \in 0 .. INPUT_BUF_SIZE - 1
  BY DivMod, ConsoleSizes, Zenon DEF Slot

(* Moving a counter on moves its slots on, also where it wraps.            *)
LEMMA SlotForward ==
  ASSUME NEW x \in Counter, NEW n \in 0 .. INPUT_BUF_SIZE, NEW j \in Nat
  PROVE  Forward(x, n) + j \in Nat /\ Slot(Forward(x, n) + j) = Slot(x + n + j)
  <1>1. Forward(x, n) \in Counter /\ (Forward(x, n) = x + n \/ Forward(x, n) + UINT = x + n)
    BY ForwardIs
  <1>2. Forward(x, n) \in Nat /\ UINT \in Nat
    BY <1>1, ConsoleSizes DEF Counter
  <1>3. Forward(x, n) + j \in Nat /\ (Forward(x, n) + j = x + n + j \/ (Forward(x, n) + j) + UINT = x + n + j)
    BY <1>1, <1>2, ConsoleSizes DEF Counter
  <1>4. \A k \in Nat : (k + UINT) % INPUT_BUF_SIZE = k % INPUT_BUF_SIZE
    BY ModPeriod, ConsoleAssumption, Zenon
  <1> QED BY <1>3, <1>4, Zenon DEF Slot

(* The slots from y on are those from x on, as far behind as y is.         *)
LEMMA SlotApart ==
  ASSUME NEW x \in Counter, NEW y \in Counter, NEW j \in Nat
  PROVE  y + j \in Nat /\ Slot(y + j) = Slot(x + Apart(y, x) + j)
  <1>1. Apart(y, x) \in Nat /\ (x + Apart(y, x) = y \/ x + Apart(y, x) = y + UINT)
    BY ApartIs, Zenon
  <1>2. x \in Nat /\ y \in Nat /\ UINT \in Nat
    BY ConsoleSizes DEF Counter
  <1>3. y + j \in Nat /\ (x + Apart(y, x) + j = y + j \/ x + Apart(y, x) + j = (y + j) + UINT)
    BY <1>1, <1>2
  <1>4. \A k \in Nat : (k + UINT) % INPUT_BUF_SIZE = k % INPUT_BUF_SIZE
    BY ModPeriod, ConsoleAssumption, Zenon
  <1> QED BY <1>3, <1>4, Zenon DEF Slot

(* What a span is, as a sequence.                                          *)
LEMMA SpanIs ==
  ASSUME NEW b \in Buffer, NEW x \in Counter, NEW y \in Counter
  PROVE  /\ Span(b, x, y) \in Seq(Char) /\ Len(Span(b, x, y)) = Apart(y, x)
         /\ Apart(y, x) \in Nat
         /\ \A i \in 1 .. Apart(y, x) : Span(b, x, y)[i] = b[Slot(x + i - 1)]
  <1>1. Apart(y, x) \in Nat
    BY ApartIs, Zenon
  <1>2. ASSUME NEW i \in 1 .. Apart(y, x) PROVE b[Slot(x + i - 1)] \in Char
    <2>1. x + i - 1 \in Nat
      BY <1>1, ConsoleSizes DEF Counter
    <2> QED BY <2>1, SlotIs, Zenon DEF Buffer
  <1>3. /\ Span(b, x, y) \in [1 .. Apart(y, x) -> Char]
        /\ \A i \in 1 .. Apart(y, x) : Span(b, x, y)[i] = b[Slot(x + i - 1)]
    BY <1>2, Zenon DEF Span
  <1>4. Span(b, x, y) \in Seq(Char) /\ Len(Span(b, x, y)) = Apart(y, x)
    BY <1>1, <1>3
  <1> QED BY <1>1, <1>3, <1>4

(* Taking n characters off the front.                                      *)
LEMMA SpanTake ==
  ASSUME NEW b \in Buffer, NEW x \in Counter, NEW y \in Counter,
         NEW n \in 0 .. INPUT_BUF_SIZE, n <= Apart(y, x)
  PROVE  Span(b, Forward(x, n), y) = SubSeq(Span(b, x, y), n + 1, Len(Span(b, x, y)))
  <1> DEFINE s == Span(b, x, y)
             t == Span(b, Forward(x, n), y)
             u == SubSeq(s, n + 1, Len(s))
             len == Apart(y, x)
  <1>1. Forward(x, n) \in Counter /\ Apart(y, Forward(x, n)) = len - n
    BY ForwardIs, TakeApart
  <1>2. s \in Seq(Char) /\ Len(s) = len /\ len \in Nat
        /\ \A i \in 1 .. len : s[i] = b[Slot(x + i - 1)]
    BY SpanIs, Zenon
  <1>3. t \in Seq(Char) /\ Len(t) = len - n
        /\ \A i \in 1 .. len - n : t[i] = b[Slot(Forward(x, n) + i - 1)]
    BY <1>1, SpanIs, ZenonT(30)
  <1>4. n \in Nat /\ n <= len /\ x \in Nat /\ Forward(x, n) \in Nat
    BY <1>1, ConsoleSizes DEF Counter
  <1> HIDE DEF s, t, len
  <1>5. u \in Seq(Char) /\ Len(u) = len - n /\ \A i \in 1 .. len - n : u[i] = s[n + i]
    <2>1. n + 1 \in Nat /\ 1 <= n + 1 /\ n + 1 <= len + 1 /\ len - (n + 1) + 1 = len - n
      BY <1>2, <1>4
    <2>2. u \in Seq(Char) /\ Len(u) = len - n /\ \A i \in 1 .. len - n : u[i] = s[(n + 1) + i - 1]
      BY <1>2, <2>1, SubSeqIs
    <2> QED BY <1>2, <1>4, <2>2
  <1>6. ASSUME NEW i \in 1 .. len - n PROVE t[i] = u[i]
    <2>1. /\ i - 1 \in Nat /\ n + i \in 1 .. len
          /\ x + n + (i - 1) = x + (n + i) - 1 /\ Forward(x, n) + (i - 1) = Forward(x, n) + i - 1
      BY <1>2, <1>4
    <2>2. Slot(Forward(x, n) + (i - 1)) = Slot(x + n + (i - 1))
      BY <2>1, SlotForward
    <2>3. t[i] = b[Slot(Forward(x, n) + i - 1)] /\ u[i] = s[n + i] /\ s[n + i] = b[Slot(x + (n + i) - 1)]
      BY <1>2, <1>3, <1>5, <2>1, Zenon
    <2> QED BY <2>1, <2>2, <2>3, Zenon
  <1>7. t = u
    BY <1>3, <1>5, <1>6, SameSeq, Zenon
  <1> QED BY <1>7 DEF s, t

(* Erasing the last character.                                             *)
LEMMA SpanErase ==
  ASSUME NEW b \in Buffer, NEW x \in Counter, NEW y \in Counter, Apart(y, x) > 0
  PROVE  Span(b, x, Apart(y, 1)) = SubSeq(Span(b, x, y), 1, Len(Span(b, x, y)) - 1)
  <1> DEFINE s == Span(b, x, y)
             t == Span(b, x, Apart(y, 1))
             u == SubSeq(s, 1, Len(s) - 1)
             len == Apart(y, x)
  <1>1. Apart(y, 1) \in Counter /\ Apart(Apart(y, 1), x) = len - 1
    BY BackIs, EraseApart
  <1>2. s \in Seq(Char) /\ Len(s) = len /\ len \in Nat /\ len > 0
        /\ \A i \in 1 .. len : s[i] = b[Slot(x + i - 1)]
    BY SpanIs, Zenon
  <1>3. t \in Seq(Char) /\ Len(t) = len - 1
        /\ \A i \in 1 .. len - 1 : t[i] = b[Slot(x + i - 1)]
    BY <1>1, SpanIs, ZenonT(30)
  <1> HIDE DEF s, t, len
  <1>4. u \in Seq(Char) /\ Len(u) = len - 1 /\ \A i \in 1 .. len - 1 : u[i] = s[i]
    <2>1. len - 1 \in Nat /\ 1 <= len /\ 1 <= (len - 1) + 1 /\ len - 1 <= len /\ (len - 1) - 1 + 1 = len - 1
      BY <1>2
    <2>2. u \in Seq(Char) /\ Len(u) = len - 1 /\ \A i \in 1 .. len - 1 : u[i] = s[1 + i - 1]
      BY <1>2, <2>1, SubSeqIs
    <2> QED BY <1>2, <2>2
  <1>5. t = u
    <2>1. ASSUME NEW i \in 1 .. len - 1 PROVE t[i] = u[i]
      <3>1. i \in 1 .. len
        BY <1>2
      <3> QED BY <1>2, <1>3, <1>4, <3>1
    <2> QED BY <1>3, <1>4, <2>1, SameSeq
  <1> QED BY <1>5 DEF s, t

(* Two spans that meet are one.                                            *)
LEMMA SpanJoin ==
  ASSUME NEW b \in Buffer, NEW r \in Counter, NEW w \in Counter, NEW e \in Counter,
         Apart(w, r) <= Apart(e, r)
  PROVE  Span(b, r, e) = Span(b, r, w) \o Span(b, w, e)
  <1> DEFINE s == Span(b, r, w)
             t == Span(b, w, e)
             v == Span(b, r, e)
             m == Apart(w, r)
             n == Apart(e, w)
  <1>1. Apart(e, r) = m + n
    BY Spans, Zenon
  <1>2. /\ s \in Seq(Char) /\ Len(s) = m /\ m \in Nat
        /\ \A i \in 1 .. m : s[i] = b[Slot(r + i - 1)]
    BY SpanIs, Zenon
  <1>3. /\ t \in Seq(Char) /\ Len(t) = n /\ n \in Nat
        /\ \A i \in 1 .. n : t[i] = b[Slot(w + i - 1)]
    BY SpanIs, Zenon
  <1>4. /\ v \in Seq(Char) /\ Len(v) = m + n
        /\ \A i \in 1 .. m + n : v[i] = b[Slot(r + i - 1)]
    BY <1>1, SpanIs, ZenonT(30)
  <1>5. r \in Nat /\ w \in Nat
    BY ConsoleSizes DEF Counter
  <1>6. \A j \in Nat : Slot(w + j) = Slot(r + m + j)
    BY SlotApart, Zenon
  <1> HIDE DEF s, t, v, m, n
  <1>7. /\ s \o t \in Seq(Char) /\ Len(s \o t) = m + n
        /\ \A i \in 1 .. m : (s \o t)[i] = s[i]
        /\ \A i \in 1 .. n : (s \o t)[m + i] = t[i]
    <2>1. /\ s \o t \in Seq(Char) /\ Len(s \o t) = Len(s) + Len(t)
          /\ \A i \in 1 .. Len(s) : (s \o t)[i] = s[i]
          /\ \A i \in 1 .. Len(t) : (s \o t)[Len(s) + i] = t[i]
      <3>1. s \in Seq(Char) /\ t \in Seq(Char)
        BY <1>2, <1>3, Zenon
      <3> QED BY ONLY <3>1
    <2> QED BY <1>2, <1>3, <2>1, Zenon
  <1>8. ASSUME NEW i \in 1 .. m + n PROVE v[i] = (s \o t)[i]
    <2>1. CASE i <= m
      <3>1. i \in 1 .. m
        BY <1>2, <1>3, <2>1
      <3> QED BY <1>2, <1>4, <1>7, <3>1, Zenon
    <2>2. CASE i > m
      <3> DEFINE k == i - m
      <3>1. /\ k \in 1 .. n /\ m + k = i /\ k - 1 \in Nat
            /\ w + (k - 1) = w + k - 1 /\ r + m + (k - 1) = r + i - 1
        BY <1>2, <1>3, <1>5, <2>2
      <3> HIDE DEF k
      <3>2. v[i] = b[Slot(r + i - 1)] /\ (s \o t)[m + k] = t[k] /\ t[k] = b[Slot(w + k - 1)]
        BY <1>3, <1>4, <1>7, <3>1, Zenon
      <3>3. Slot(w + (k - 1)) = Slot(r + m + (k - 1))
        BY <1>6, <3>1, Zenon
      <3> QED BY <3>1, <3>2, <3>3, Zenon
    <2> QED BY <1>2, <1>3, <2>1, <2>2
  <1>9. v = s \o t
    BY <1>4, <1>7, <1>8, SameSeq, Zenon
  <1> QED BY <1>9 DEF s, t, v

(* A character stored at y, while there is room behind x, is not stored    *)
(* over those between x and y.                                             *)
LEMMA SpanKept ==
  ASSUME NEW b \in Buffer, NEW x \in Counter, NEW y \in Counter, NEW z \in Counter, NEW ch \in Char,
         Apart(y, x) < INPUT_BUF_SIZE, Apart(z, x) <= Apart(y, x)
  PROVE  /\ [b EXCEPT ![Slot(y)] = ch] \in Buffer
         /\ Span([b EXCEPT ![Slot(y)] = ch], x, z) = Span(b, x, z)
  <1> DEFINE c == [b EXCEPT ![Slot(y)] = ch]
             m == Apart(z, x)
             n == Apart(y, x)
  <1>1. c \in Buffer /\ \A k \in 0 .. INPUT_BUF_SIZE - 1 : k # Slot(y) => c[k] = b[k]
    BY Zenon DEF Buffer
  <1>2. m \in Nat /\ n \in Nat /\ m <= n /\ n < INPUT_BUF_SIZE
    BY ApartIs, Zenon
  <1>3. x \in Nat /\ y \in Nat
    BY ConsoleSizes DEF Counter
  <1>4. y + 0 \in Nat /\ Slot(y + 0) = Slot(x + n + 0)
    <2>1. 0 \in Nat
      OBVIOUS
    <2> QED BY <2>1, SlotApart, Zenon
  <1> HIDE DEF c, m, n
  <1>5. Slot(y) = Slot(x + n)
    <2>1. y + 0 = y /\ x + n + 0 = x + n
      BY <1>2, <1>3
    <2> QED BY <1>4, <2>1, Zenon
  <1>6. ASSUME NEW i \in 1 .. m PROVE c[Slot(x + i - 1)] = b[Slot(x + i - 1)]
    <2> DEFINE k == x + i - 1
               d == n - i + 1
    <2>1. k \in Nat /\ d \in 1 .. INPUT_BUF_SIZE - 1 /\ k + d = x + n
      BY <1>2, <1>3, ConsoleSizes
    <2> HIDE DEF k, d
    <2>2. Slot(k + d) # Slot(k) /\ Slot(k) \in 0 .. INPUT_BUF_SIZE - 1
      BY <2>1, ModDiffers, SlotIs, ConsoleSizes, Zenon DEF Slot
    <2>3. c[Slot(k)] = b[Slot(k)]
      BY <1>1, <1>5, <2>1, <2>2, Zenon
    <2> QED BY <2>3 DEF k
  <1>7. Span(c, x, z) = Span(b, x, z)
    BY <1>6, Zenon DEF Span, m
  <1> QED BY <1>1, <1>7, Zenon DEF c

(* A character stored behind a span.                                       *)
LEMMA SpanStore ==
  ASSUME NEW b \in Buffer, NEW x \in Counter, NEW y \in Counter, NEW ch \in Char,
         Apart(y, x) < INPUT_BUF_SIZE
  PROVE  Span([b EXCEPT ![Slot(y)] = ch], x, Forward(y, 1)) = Append(Span(b, x, y), ch)
  <1> DEFINE c == [b EXCEPT ![Slot(y)] = ch]
             n == Apart(y, x)
             s == Span(b, x, y)
             t == Span(c, x, Forward(y, 1))
  <1>1. n \in Nat /\ n < INPUT_BUF_SIZE /\ n <= n
    <2>1. n \in Nat
      BY ApartIs, Zenon
    <2> QED BY <2>1
  <1>2. c \in Buffer /\ Span(c, x, y) = s
    BY <1>1, SpanKept, Zenon
  <1>3. Forward(y, 1) \in Counter /\ Apart(Forward(y, 1), x) = n + 1
    BY ForwardIs, StoreApart, ConsoleSizes
  <1>4. /\ s \in Seq(Char) /\ Len(s) = n
        /\ \A i \in 1 .. n : s[i] = c[Slot(x + i - 1)]
    <2>1. /\ Span(c, x, y) \in Seq(Char) /\ Len(Span(c, x, y)) = n
          /\ \A i \in 1 .. n : Span(c, x, y)[i] = c[Slot(x + i - 1)]
      BY <1>2, SpanIs, ZenonT(30)
    <2> QED BY <1>2, <2>1, Zenon
  <1>5. /\ t \in Seq(Char) /\ Len(t) = n + 1
        /\ \A i \in 1 .. n + 1 : t[i] = c[Slot(x + i - 1)]
    BY <1>2, <1>3, SpanIs, ZenonT(30)
  <1>6. c[Slot(x + n)] = ch
    <2>1. x \in Nat /\ y \in Nat /\ 0 \in Nat /\ y + 0 = y /\ x + n + 0 = x + n
      BY <1>1, ConsoleSizes DEF Counter
    <2>2. Slot(y + 0) = Slot(x + n + 0)
      BY <2>1, SlotApart, Zenon
    <2>3. c[Slot(y)] = ch
      BY <2>1, SlotIs, Zenon DEF Buffer
    <2> QED BY <2>1, <2>2, <2>3, Zenon
  <1> HIDE DEF c, n, s, t
  <1>7. /\ Append(s, ch) \in Seq(Char) /\ Len(Append(s, ch)) = n + 1
        /\ \A i \in 1 .. n : Append(s, ch)[i] = s[i]
        /\ Append(s, ch)[n + 1] = ch
    BY <1>4, AppendIs
  <1>8. ASSUME NEW i \in 1 .. n + 1 PROVE t[i] = Append(s, ch)[i]
    <2>1. CASE i = n + 1
      <3>1. x + i - 1 = x + n
        BY <1>1, <2>1, ConsoleSizes DEF Counter
      <3> QED BY <1>5, <1>6, <1>7, <2>1, <3>1, Zenon
    <2>2. CASE i # n + 1
      <3>1. i \in 1 .. n
        BY <1>1, <2>2
      <3> QED BY <1>4, <1>5, <1>7, <3>1, Zenon
    <2> QED BY <2>1, <2>2, Zenon
  <1>9. t = Append(s, ch)
    BY <1>5, <1>7, <1>8, SameSeq, Zenon
  <1> QED BY <1>9, Zenon DEF s, t, c

-----------------------------------------------------------------------------
(* What holds of the ring and its counters, whatever the processes do.     *)
RingOK(c) ==
  /\ c \in [buf : Buffer, r : Counter, w : Counter, e : Counter]
  /\ Apart(c.e, c.r) <= INPUT_BUF_SIZE
  /\ Apart(c.w, c.r) <= Apart(c.e, c.r)
  /\ Apart(c.e, c.r) = INPUT_BUF_SIZE => c.r # c.w
  /\ \A i \in 1 .. Apart(c.e, c.w) : Span(c.buf, c.w, c.e)[i] \notin {NL, CtrlD}
DoneOf(c) == Span(c.buf, c.r, c.w)
EditOf(c) == Span(c.buf, c.w, c.e)

(* An empty span.                                                          *)
LEMMA SpanEmpty ==
  ASSUME NEW b \in Buffer, NEW x \in Counter
  PROVE  Apart(x, x) = 0 /\ Span(b, x, x) = << >>
  <1>1. Apart(x, x) = 0
    BY ApartZero, Zenon
  <1>2. Span(b, x, x) \in Seq(Char) /\ Len(Span(b, x, x)) = 0
    BY <1>1, SpanIs, Zenon
  <1> QED BY <1>1, <1>2

(* consoleread() takes n committed characters off the ring.                *)
LEMMA RingTake ==
  ASSUME NEW c, RingOK(c), NEW n \in 0 .. Apart(c.w, c.r), c.r # c.w
  PROVE  LET d == [c EXCEPT !.r = Forward(@, n)] IN
         /\ RingOK(d) /\ EditOf(d) = EditOf(c)
         /\ DoneOf(d) = SubSeq(DoneOf(c), n + 1, Len(DoneOf(c)))
         /\ n = 0 => d = c
         /\ n = Apart(c.w, c.r) => d.r = d.w
  <1> DEFINE s == Forward(c.r, n)
             d == [c EXCEPT !.r = Forward(@, n)]
             a == Apart(c.w, c.r)
             b == Apart(c.e, c.r)
  <1>1. /\ c \in [buf : Buffer, r : Counter, w : Counter, e : Counter]
        /\ c.buf \in Buffer /\ c.r \in Counter /\ c.w \in Counter /\ c.e \in Counter
        /\ b <= INPUT_BUF_SIZE /\ a <= b
        /\ \A i \in 1 .. Apart(c.e, c.w) : Span(c.buf, c.w, c.e)[i] \notin {NL, CtrlD}
    BY DEF RingOK
  <1>2. a \in Nat /\ b \in Nat
    BY <1>1, ApartIs, Zenon
  <1>3. n \in 0 .. INPUT_BUF_SIZE /\ n <= a /\ n <= b /\ n \in Nat
    BY <1>1, <1>2, ConsoleSizes
  <1>4. s \in Counter /\ (s = c.r + n \/ s + UINT = c.r + n)
    BY <1>1, <1>3, ForwardIs, Zenon
  <1>5. Apart(c.w, s) = a - n /\ Apart(c.e, s) = b - n
    BY <1>1, <1>3, TakeApart, Zenon
  <1>6. Span(c.buf, s, c.w) = SubSeq(DoneOf(c), n + 1, Len(DoneOf(c)))
    BY <1>1, <1>3, SpanTake, Zenon DEF DoneOf
  <1>7. /\ d \in [buf : Buffer, r : Counter, w : Counter, e : Counter]
        /\ d.buf = c.buf /\ d.r = s /\ d.w = c.w /\ d.e = c.e
    BY <1>1, <1>4
  <1>8. n = 0 => s = c.r
    BY <1>1, <1>4, ConsoleSizes DEF Counter
  <1>9. n = a => s = c.w
    BY <1>1, <1>2, <1>4, <1>5, ApartZero
  <1>10. n = 0 => d = c
    BY <1>1, <1>8
  <1> HIDE DEF d, s, a, b
  <1>11. Apart(d.e, d.r) <= INPUT_BUF_SIZE /\ Apart(d.w, d.r) <= Apart(d.e, d.r)
    BY <1>1, <1>2, <1>3, <1>5, <1>7, ConsoleSizes
  <1>12. Apart(d.e, d.r) = INPUT_BUF_SIZE => d.r # d.w
    BY <1>1, <1>2, <1>3, <1>5, <1>7, <1>8, ConsoleSizes
  <1>13. \A i \in 1 .. Apart(d.e, d.w) : Span(d.buf, d.w, d.e)[i] \notin {NL, CtrlD}
    BY <1>1, <1>7, Zenon
  <1>14. RingOK(d)
    BY <1>7, <1>11, <1>12, <1>13, Zenon DEF RingOK
  <1>15. EditOf(d) = EditOf(c) /\ DoneOf(d) = SubSeq(DoneOf(c), n + 1, Len(DoneOf(c)))
    BY <1>6, <1>7, Zenon DEF EditOf, DoneOf
  <1> QED BY <1>7, <1>9, <1>10, <1>14, <1>15, Zenon DEF d, a

(* Backspace erases a character of the line being edited.                  *)
LEMMA RingErase ==
  ASSUME NEW c, RingOK(c), c.e # c.w
  PROVE  LET d == [c EXCEPT !.e = Apart(@, 1)] IN
         /\ RingOK(d) /\ DoneOf(d) = DoneOf(c) /\ d.r = c.r /\ d.w = c.w
         /\ EditOf(c) # << >>
         /\ EditOf(d) = SubSeq(EditOf(c), 1, Len(EditOf(c)) - 1)
  <1> DEFINE s == Apart(c.e, 1)
             d == [c EXCEPT !.e = Apart(@, 1)]
             a == Apart(c.w, c.r)
             b == Apart(c.e, c.r)
             m == Apart(c.e, c.w)
  <1>1. /\ c \in [buf : Buffer, r : Counter, w : Counter, e : Counter]
        /\ c.buf \in Buffer /\ c.r \in Counter /\ c.w \in Counter /\ c.e \in Counter
        /\ b <= INPUT_BUF_SIZE /\ a <= b
        /\ \A i \in 1 .. m : EditOf(c)[i] \notin {NL, CtrlD}
    BY DEF RingOK, EditOf
  <1>2. a \in Nat /\ b \in Nat /\ m \in Nat /\ m # 0
    BY <1>1, ApartIs, ApartZero, Zenon
  <1>3. b = a + m
    BY <1>1, Spans, Zenon
  <1>4. m > 0 /\ b > 0
    BY <1>2, <1>3
  <1>5. s \in Counter /\ Apart(s, c.w) = m - 1 /\ Apart(s, c.r) = b - 1
    BY <1>1, <1>4, BackIs, EraseApart, Zenon
  <1>6. Span(c.buf, c.w, s) = SubSeq(EditOf(c), 1, Len(EditOf(c)) - 1)
    BY <1>1, <1>4, SpanErase, Zenon DEF EditOf
  <1>7. EditOf(c) \in Seq(Char) /\ Len(EditOf(c)) = m
    BY <1>1, SpanIs, Zenon DEF EditOf
  <1>8. /\ d \in [buf : Buffer, r : Counter, w : Counter, e : Counter]
        /\ d.buf = c.buf /\ d.r = c.r /\ d.w = c.w /\ d.e = s
    BY <1>1, <1>5
  <1> HIDE DEF d, s, a, b, m
  <1>9. /\ Apart(d.e, d.r) <= INPUT_BUF_SIZE /\ Apart(d.w, d.r) <= Apart(d.e, d.r)
        /\ Apart(d.e, d.r) # INPUT_BUF_SIZE
    <2>1. b - 1 <= INPUT_BUF_SIZE /\ a <= b - 1 /\ b - 1 # INPUT_BUF_SIZE
      BY <1>1, <1>2, <1>3, <1>4, ConsoleSizes
    <2> QED BY <1>5, <1>8, <2>1, Zenon DEF a
  <1>10. EditOf(d) = SubSeq(EditOf(c), 1, Len(EditOf(c)) - 1) /\ DoneOf(d) = DoneOf(c)
    BY <1>6, <1>8, Zenon DEF EditOf, DoneOf
  <1>11. ASSUME NEW i \in 1 .. m - 1 PROVE EditOf(d)[i] \notin {NL, CtrlD}
    <2>1. i \in 1 .. m /\ m - 1 \in Nat /\ 1 \in Nat
      BY <1>2, <1>4
    <2>2. EditOf(d)[i] = EditOf(c)[i]
      BY <1>2, <1>4, <1>7, <1>10
    <2> QED BY <1>1, <2>1, <2>2, Zenon
  <1>12. RingOK(d)
    <2>1. Apart(d.e, d.w) = m - 1
      BY <1>5, <1>8
    <2> QED BY <1>8, <1>9, <1>11, <2>1, Zenon DEF RingOK, EditOf
  <1>13. EditOf(c) # << >>
    BY <1>4, <1>7
  <1> QED BY <1>8, <1>10, <1>12, <1>13, Zenon DEF d

(* Control-U erases the line being edited.                                 *)
LEMMA RingEraseLine ==
  ASSUME NEW c, RingOK(c)
  PROVE  LET d == [c EXCEPT !.e = c.w] IN
         RingOK(d) /\ DoneOf(d) = DoneOf(c) /\ d.r = c.r /\ d.w = c.w /\ EditOf(d) = << >>
  <1> DEFINE d == [c EXCEPT !.e = c.w]
  <1>1. /\ c \in [buf : Buffer, r : Counter, w : Counter, e : Counter]
        /\ c.buf \in Buffer /\ c.r \in Counter /\ c.w \in Counter /\ c.e \in Counter
        /\ Apart(c.e, c.r) <= INPUT_BUF_SIZE /\ Apart(c.w, c.r) <= Apart(c.e, c.r)
    BY DEF RingOK
  <1>2. Apart(c.w, c.r) \in Nat /\ Apart(c.e, c.r) \in Nat
    BY <1>1, ApartIs, Zenon
  <1>3. Apart(c.w, c.w) = 0 /\ Span(c.buf, c.w, c.w) = << >>
    BY <1>1, SpanEmpty, Zenon
  <1>4. /\ d \in [buf : Buffer, r : Counter, w : Counter, e : Counter]
        /\ d.buf = c.buf /\ d.r = c.r /\ d.w = c.w /\ d.e = c.w
    BY <1>1
  <1>5. Apart(c.w, c.r) = INPUT_BUF_SIZE => c.r # c.w
    BY <1>1, ApartZero, ConsoleSizes
  <1>6. Apart(c.w, c.r) <= INPUT_BUF_SIZE /\ Apart(c.w, c.r) <= Apart(c.w, c.r)
    BY <1>1, <1>2, ConsoleSizes
  <1> HIDE DEF d
  <1>7. \A i \in 1 .. Apart(d.e, d.w) : Span(d.buf, d.w, d.e)[i] \notin {NL, CtrlD}
    BY <1>3, <1>4
  <1>8. RingOK(d)
    BY <1>4, <1>5, <1>6, <1>7, Zenon DEF RingOK
  <1> QED BY <1>3, <1>4, <1>8, Zenon DEF d, DoneOf, EditOf

(* consoleintr() stores a character, and commits the line at its end and   *)
(* when the ring is full.                                                  *)
LEMMA RingStore ==
  ASSUME NEW c, RingOK(c), NEW ch \in Char, Apart(c.e, c.r) < INPUT_BUF_SIZE
  PROVE  LET f == Forward(c.e, 1)
             commit == ch \in {NL, CtrlD} \/ Apart(f, c.r) = INPUT_BUF_SIZE
             d == [c EXCEPT !.buf[Slot(c.e)] = ch, !.e = f, !.w = IF commit THEN f ELSE @]
         IN  /\ RingOK(d) /\ d.r = c.r
             /\ Len(DoneOf(c)) + Len(EditOf(c)) < INPUT_BUF_SIZE
             /\ commit <=> (ch \in {NL, CtrlD} \/ Len(DoneOf(c)) + Len(EditOf(c)) + 1 = INPUT_BUF_SIZE)
             /\ commit => EditOf(d) = << >> /\ DoneOf(d) = DoneOf(c) \o Append(EditOf(c), ch)
             /\ ~ commit => d.w = c.w /\ EditOf(d) = Append(EditOf(c), ch) /\ DoneOf(d) = DoneOf(c)
  <1> DEFINE f == Forward(c.e, 1)
             commit == ch \in {NL, CtrlD} \/ Apart(f, c.r) = INPUT_BUF_SIZE
             v == IF commit THEN f ELSE c.w
             g == [c.buf EXCEPT ![Slot(c.e)] = ch]
             d == [c EXCEPT !.buf[Slot(c.e)] = ch, !.e = f, !.w = IF commit THEN f ELSE @]
             a == Apart(c.w, c.r)
             b == Apart(c.e, c.r)
             m == Apart(c.e, c.w)
             s == DoneOf(c)
             t == EditOf(c)
  <1>1. /\ c \in [buf : Buffer, r : Counter, w : Counter, e : Counter]
        /\ c.buf \in Buffer /\ c.r \in Counter /\ c.w \in Counter /\ c.e \in Counter
        /\ b < INPUT_BUF_SIZE /\ a <= b
        /\ \A i \in 1 .. m : t[i] \notin {NL, CtrlD}
    BY DEF RingOK, EditOf
  <1>2. a \in Nat /\ b \in Nat /\ m \in Nat
    BY <1>1, ApartIs, Zenon
  <1>3. b = a + m
    BY <1>1, Spans, Zenon
  <1>4. m < INPUT_BUF_SIZE /\ a <= b /\ b <= b /\ m <= m /\ 0 <= m
    BY <1>1, <1>2, <1>3, ConsoleSizes
  <1>5. f \in Counter /\ Apart(f, c.r) = b + 1 /\ Apart(f, c.w) = m + 1
    <2>1. 1 \in 0 .. INPUT_BUF_SIZE
      BY ConsoleSizes
    <2> QED BY <1>1, <1>4, <2>1, ForwardIs, StoreApart, Zenon
  <1>6. /\ g \in Buffer /\ Span(g, c.r, c.w) = s /\ Span(g, c.r, c.e) = Span(c.buf, c.r, c.e)
        /\ Span(g, c.w, c.e) = t
    <2>1. g \in Buffer /\ Span(g, c.r, c.w) = Span(c.buf, c.r, c.w)
      BY <1>1, <1>4, SpanKept
    <2>2. Span(g, c.r, c.e) = Span(c.buf, c.r, c.e)
      BY <1>1, <1>4, SpanKept
    <2>3. Span(g, c.w, c.e) = Span(c.buf, c.w, c.e)
      BY <1>1, <1>4, SpanKept
    <2> QED BY <2>1, <2>2, <2>3, Zenon DEF DoneOf, EditOf
  <1>7. Span(g, c.w, f) = Append(t, ch) /\ Span(g, c.r, f) = Append(Span(c.buf, c.r, c.e), ch)
    BY <1>1, <1>4, SpanStore, Zenon DEF EditOf
  <1>8. Span(c.buf, c.r, c.e) = s \o t
    BY <1>1, SpanJoin, Zenon DEF DoneOf, EditOf
  <1>9. s \in Seq(Char) /\ t \in Seq(Char) /\ Len(s) = a /\ Len(t) = m
    <2>1. s \in Seq(Char) /\ Len(s) = a
      BY <1>1, SpanIs, Zenon DEF DoneOf
    <2>2. t \in Seq(Char) /\ Len(t) = m
      BY <1>1, SpanIs, Zenon DEF EditOf
    <2> QED BY <2>1, <2>2, Zenon
  <1>10. Apart(f, f) = 0 /\ Span(g, f, f) = << >>
    BY <1>5, <1>6, SpanEmpty, Zenon
  <1>11. /\ d \in [buf : Buffer, r : Counter, w : Counter, e : Counter]
         /\ d.buf = g /\ d.r = c.r /\ d.w = v /\ d.e = f
    <2>1. v \in Counter
      BY <1>1, <1>5, Zenon
    <2>2. d = [c EXCEPT !.buf = g, !.e = f, !.w = v]
      BY <1>1
    <2> HIDE DEF d, v, g, f, commit, a, b, m, s, t
    <2> QED BY <1>1, <1>5, <1>6, <2>1, <2>2, Zenon
  <1>12. commit => v = f
    BY Zenon
  <1>13. ~ commit => v = c.w /\ ch \notin {NL, CtrlD} /\ b + 1 # INPUT_BUF_SIZE
    BY <1>5, Zenon
  <1>14. commit <=> (ch \in {NL, CtrlD} \/ Len(s) + Len(t) + 1 = INPUT_BUF_SIZE)
    BY <1>3, <1>5, <1>9, Zenon
  <1> HIDE DEF d, v, g, f, commit, a, b, m, s, t
  <1>15. Len(s) + Len(t) < INPUT_BUF_SIZE
    BY <1>1, <1>3, <1>9
  <1>16. Append(s \o t, ch) = s \o Append(t, ch)
    BY <1>9
  <1>17. CASE commit
    <2>1. Apart(d.e, d.r) = b + 1 /\ Apart(d.w, d.r) = b + 1 /\ Apart(d.e, d.w) = 0
      BY <1>5, <1>10, <1>11, <1>12, <1>17, Zenon
    <2>2. b + 1 <= INPUT_BUF_SIZE /\ b + 1 <= b + 1 /\ b + 1 # 0
      BY <1>1, <1>2, ConsoleSizes
    <2>3. d.r # d.w
      BY <1>1, <1>5, <1>11, <1>12, <1>17, <2>2, ApartZero, Zenon
    <2>4. \A i \in 1 .. Apart(d.e, d.w) : Span(d.buf, d.w, d.e)[i] \notin {NL, CtrlD}
      BY <2>1
    <2>5. RingOK(d)
      BY <1>11, <2>1, <2>2, <2>3, <2>4, Zenon DEF RingOK
    <2>6. EditOf(d) = << >> /\ DoneOf(d) = s \o Append(t, ch)
      BY <1>7, <1>8, <1>10, <1>11, <1>12, <1>16, <1>17, Zenon DEF EditOf, DoneOf
    <2> QED BY <1>11, <1>14, <1>15, <1>17, <2>5, <2>6, Zenon DEF d, f, commit, s, t
  <1>18. CASE ~ commit
    <2>1. Apart(d.e, d.r) = b + 1 /\ Apart(d.w, d.r) = a /\ Apart(d.e, d.w) = m + 1
      BY <1>5, <1>11, <1>13, <1>18, Zenon DEF a
    <2>2. b + 1 <= INPUT_BUF_SIZE /\ a <= b + 1 /\ b + 1 # INPUT_BUF_SIZE
      BY <1>1, <1>2, <1>13, <1>18, ConsoleSizes
    <2>3. EditOf(d) = Append(t, ch) /\ DoneOf(d) = s
      BY <1>6, <1>7, <1>11, <1>13, <1>18, Zenon DEF EditOf, DoneOf
    <2>4. ASSUME NEW i \in 1 .. m + 1 PROVE EditOf(d)[i] \notin {NL, CtrlD}
      <3>1. Append(t, ch)[m + 1] = ch /\ \A j \in 1 .. m : Append(t, ch)[j] = t[j]
        BY <1>9
      <3>2. i \in 1 .. m \/ i = m + 1
        BY <1>2
      <3> QED BY <1>1, <1>13, <1>18, <2>3, <3>1, <3>2, Zenon
    <2>5. RingOK(d)
      BY <1>11, <2>1, <2>2, <2>4, Zenon DEF RingOK, EditOf
    <2> QED BY <1>11, <1>13, <1>14, <1>15, <1>18, <2>3, <2>5, Zenon DEF d, f, commit, s, t
  <1> QED BY <1>17, <1>18, Zenon

-----------------------------------------------------------------------------
(* What one run through consoleread()'s loop takes: it stays within a      *)
(* line, takes a control-D only by itself, and goes back to sleep only     *)
(* when it has emptied the ring and wants more.                            *)
Delivers(s, k) ==
  /\ \A i \in 1 .. k - 1 : s[i] \notin {NL, CtrlD}
  /\ s[k] = CtrlD => k = 1

(* What consoleread()'s loop takes: never more than there is, each         *)
(* character but the last a plain one, and all of it when the loop goes on *)
(* to sleep.                                                               *)
LEMMA ReadLoopIs ==
  ASSUME NEW s \in Seq(Char), Len(s) > 0, NEW k \in Plain(s),
         NEW wanted \in Nat \ {0}, NEW target \in Nat
  PROVE  LET x == ReadLoop(s, k, wanted, target) IN
         /\ x.took \in 0 .. Len(s) /\ x.kept \in 0 .. x.took /\ x.stop \in BOOLEAN
         /\ \A j \in 1 .. x.took : Delivers(s, j)
         /\ ~ x.stop => x.took = Len(s) /\ x.kept = x.took /\ wanted - x.kept \in Nat \ {0}
  <1> DEFINE x == ReadLoop(s, k, wanted, target)
  <1>1. /\ k \in 0 .. Len(s)
        /\ \A i \in 1 .. k : s[i] \notin {NL, CtrlD}
        /\ k < Len(s) => s[k + 1] \in {NL, CtrlD}
    BY Zenon DEF Plain
  <1>2. Len(s) \in Nat /\ k \in Nat
    BY <1>1
  <1> DEFINE plain == IF wanted <= k THEN wanted ELSE k
             atEnd == wanted > k /\ k < Len(s)
             newline == atEnd /\ s[k + 1] = NL
             eof == atEnd /\ s[k + 1] = CtrlD /\ k = 0 /\ wanted = target
  <1>3. /\ x.took = IF newline \/ eof THEN k + 1 ELSE plain
        /\ x.kept = IF newline THEN k + 1 ELSE plain
        /\ x.stop = (wanted <= k \/ atEnd)
    BY Zenon DEF ReadLoop
  <1> HIDE DEF x
  <1>4. ASSUME NEW j \in 1 .. k PROVE Delivers(s, j)
    <2>1. \A i \in 1 .. j - 1 : i \in 1 .. k
      BY <1>2
    <2> QED BY <1>1, <2>1, Zenon DEF Delivers
  <1>5. ASSUME newline PROVE Delivers(s, k + 1)
    <2>1. (k + 1) - 1 = k /\ NL # CtrlD
      BY <1>2 DEF NL, CtrlD
    <2>2. s[k + 1] # CtrlD
      BY <1>5, <2>1, Zenon
    <2>3. \A i \in 1 .. (k + 1) - 1 : s[i] \notin {NL, CtrlD}
      BY <1>1, <2>1, Zenon
    <2> QED BY <2>2, <2>3, Zenon DEF Delivers
  <1>6. Delivers(s, 1)
    <2>1. 1 .. 1 - 1 = {}
      OBVIOUS
    <2> QED BY <2>1, Zenon DEF Delivers
  <1>7. plain \in 0 .. Len(s) /\ plain \in 0 .. k /\ (atEnd => k + 1 <= Len(s) /\ plain = k)
    BY <1>1, <1>2
  <1>8. x.took \in 0 .. Len(s) /\ x.kept \in 0 .. x.took /\ x.stop \in BOOLEAN
    <2>1. CASE newline
      <3>1. x.took = k + 1 /\ x.kept = k + 1 /\ x.stop = TRUE
        BY <1>3, <2>1, Zenon
      <3>2. k + 1 <= Len(s)
        BY <1>7, <2>1, Zenon
      <3>3. k + 1 \in 0 .. Len(s) /\ k + 1 \in 0 .. k + 1
        BY <1>2, <3>2
      <3> QED BY <3>1, <3>3, Zenon
    <2>2. CASE ~ newline /\ eof
      <3>1. x.took = k + 1 /\ x.kept = plain /\ x.stop = TRUE
        BY <1>3, <2>2, Zenon
      <3>2. k + 1 <= Len(s) /\ plain = k
        BY <1>7, <2>2, Zenon
      <3>3. k + 1 \in 0 .. Len(s) /\ k \in 0 .. k + 1
        BY <1>2, <3>2
      <3> QED BY <3>1, <3>2, <3>3, Zenon
    <2>3. CASE ~ newline /\ ~ eof
      <3>1. x.took = plain /\ x.kept = plain /\ x.stop \in BOOLEAN
        BY <1>3, <2>3, Zenon
      <3>2. plain \in 0 .. plain
        BY <1>2, <1>7
      <3> QED BY <1>7, <3>1, <3>2, Zenon
    <2> QED BY <2>1, <2>2, <2>3, Zenon
  <1>9. ASSUME NEW j \in 1 .. x.took PROVE Delivers(s, j)
    <2>1. CASE newline
      <3>1. x.took = k + 1
        BY <1>3, <2>1, Zenon
      <3>2. j \in 1 .. k \/ j = k + 1
        BY <1>2, <3>1
      <3> QED BY <1>4, <1>5, <2>1, <3>2, Zenon
    <2>2. CASE eof
      <3>1. x.took = k + 1 /\ k = 0
        BY <1>3, <2>2, Zenon
      <3>2. j = 1
        BY <1>2, <3>1
      <3> QED BY <1>6, <3>2, Zenon
    <2>3. CASE ~ newline /\ ~ eof
      <3>1. x.took = plain
        BY <1>3, <2>3, Zenon
      <3>2. j \in 1 .. k
        BY <1>2, <1>7, <3>1
      <3> QED BY <1>4, <3>2, Zenon
    <2> QED BY <2>1, <2>2, <2>3, Zenon
  <1>10. ASSUME ~ x.stop PROVE x.took = Len(s) /\ x.kept = x.took /\ wanted - x.kept \in Nat \ {0}
    <2>1. ~ (wanted <= k) /\ ~ atEnd
      BY <1>3, <1>10, Zenon
    <2>2. x.took = plain /\ x.kept = plain
      BY <1>3, <2>1, Zenon
    <2>3. k = Len(s) /\ plain = k /\ wanted - k \in Nat \ {0}
      BY <1>1, <1>2, <2>1
    <2>4. x.took = Len(s) /\ x.kept = k
      BY <2>2, <2>3
    <2> QED BY <2>3, <2>4
  <1> QED BY <1>8, <1>9, <1>10, Zenon DEF x

-----------------------------------------------------------------------------
(* A process as ConsoleTypeOK and CallsUnderWay have it.                   *)
Place == {"user", "read", "rsleep", "copyin", "write", "wsleep", "wbusy"}
CallRecord == [pc : Place, left : Nat, target : Nat, killed : BOOLEAN]
TtyCall == {x \in CallRecord : x.left <= x.target /\ (x.pc # "user" => x.left > 0)}

(* The inductive invariant in the form the steps use: the ring, the calls, *)
(* the readers asleep, the lines to the UART.                              *)
Sleepers == \A p \in Tty : tty[p].pc = "rsleep" => cons.r = cons.w
Lines == /\ fifo \in Nat /\ tx_busy \in BOOLEAN /\ txi \in BOOLEAN /\ rx_ready \in BOOLEAN
         /\ intr \in {"off", "tx", "rx"}
ConsoleCore == RingOK(cons) /\ tty \in [Tty -> TtyCall] /\ Sleepers /\ Lines

(* What the transmitter holds is an invariant by itself.                   *)
Filled == printing \in BOOLEAN /\ NoOverrun

(* The proof's form of the invariant is the one TLC checks.                *)
LEMMA CoreIsInv == ConsoleCore /\ Filled <=> ConsoleInv
  <1>1. RingOK(cons) <=> /\ cons \in [buf : Buffer, r : Counter, w : Counter, e : Counter]
                         /\ Apart(cons.e, cons.r) <= INPUT_BUF_SIZE
                         /\ Apart(cons.w, cons.r) <= Apart(cons.e, cons.r)
                         /\ Apart(cons.e, cons.r) = INPUT_BUF_SIZE => cons.r # cons.w
                         /\ LineOpen
    BY Zenon DEF RingOK, LineOpen, Editing, Ring, Span
  <1>2. tty \in [Tty -> TtyCall] <=>
          /\ tty \in [Tty -> [pc : {"user", "read", "rsleep", "copyin", "write", "wsleep", "wbusy"},
                              left : Nat, target : Nat, killed : BOOLEAN]]
          /\ CallsUnderWay
    BY DEF TtyCall, CallRecord, Place, CallsUnderWay
  <1> QED BY <1>1, <1>2, Zenon DEF ConsoleCore, ConsoleInv, ConsoleTypeOK, ReadersNotStuck,
                                   Sleepers, Lines, Buffer, Filled

(* The steps of a call change where it is and how much is left to copy.    *)
LEMMA RecordMoves ==
  ASSUME NEW x \in CallRecord, NEW c \in Place
  PROVE  LET y == [x EXCEPT !.pc = c] IN
         y \in CallRecord /\ y.pc = c /\ y.left = x.left /\ y.target = x.target
  BY Zenon DEF CallRecord

(* Such a record is a call when there is something left to copy.           *)
LEMMA CallIs ==
  /\ \A x \in CallRecord : x \in TtyCall <=> x.left <= x.target /\ (x.pc # "user" => x.left > 0)
  /\ \A x \in TtyCall : x \in CallRecord /\ x.left \in Nat /\ x.target \in Nat
  BY DEF TtyCall, CallRecord

(* Where a call may be.                                                    *)
LEMMA PlaceNames ==
  /\ "user" \in Place /\ "read" \in Place /\ "rsleep" \in Place /\ "copyin" \in Place
  /\ "write" \in Place /\ "wsleep" \in Place /\ "wbusy" \in Place
  BY DEF Place

(* A process that returns is a process.                                    *)
LEMMA IdleIs ==
  ASSUME NEW p \in Tty, tty \in [Tty -> TtyCall]
  PROVE  Idle(p) \in TtyCall /\ Idle(p).pc = "user"
  <1>1. tty[p] \in CallRecord /\ 0 \in Nat /\ 0 <= 0
    BY CallIs
  <1>2. Idle(p) \in CallRecord /\ Idle(p).pc = "user" /\ Idle(p).left = 0 /\ Idle(p).target = 0
    BY <1>1, PlaceNames, Zenon DEF Idle, CallRecord
  <1> QED BY <1>1, <1>2, CallIs, Zenon

(* A call goes on elsewhere, with as much left to copy.                    *)
LEMMA CallGoesOn ==
  ASSUME NEW x \in TtyCall, x.pc # "user", NEW c \in Place
  PROVE  [x EXCEPT !.pc = c] \in TtyCall /\ [x EXCEPT !.pc = c].pc = c
  <1>1. x \in CallRecord /\ x.left <= x.target /\ x.left > 0 /\ 0 \in Nat
    BY CallIs
  <1>2. /\ [x EXCEPT !.pc = c] \in CallRecord /\ [x EXCEPT !.pc = c].pc = c
        /\ [x EXCEPT !.pc = c].left = x.left /\ [x EXCEPT !.pc = c].target = x.target
    BY <1>1, RecordMoves, Zenon
  <1> QED BY <1>1, <1>2, CallIs, Zenon

(* A call goes on elsewhere, with less left to copy.                       *)
LEMMA CallShrinks ==
  ASSUME NEW x \in TtyCall, NEW c \in Place, NEW n \in Nat \ {0}, n <= x.left
  PROVE  [x EXCEPT !.pc = c, !.left = n] \in TtyCall /\ [x EXCEPT !.pc = c, !.left = n].pc = c
  <1>1. x \in CallRecord /\ n \in Nat /\ 0 \in Nat /\ n <= x.target /\ n > 0
    BY CallIs
  <1>2. /\ [x EXCEPT !.pc = c, !.left = n] \in CallRecord /\ [x EXCEPT !.pc = c, !.left = n].pc = c
        /\ [x EXCEPT !.pc = c, !.left = n].left = n /\ [x EXCEPT !.pc = c, !.left = n].target = x.target
    BY <1>1, Zenon DEF CallRecord
  <1> QED BY <1>1, <1>2, CallIs, Zenon

(* One process takes a step: the others keep what they have.               *)
LEMMA OneCall ==
  ASSUME NEW p \in Tty, tty \in [Tty -> TtyCall], NEW x \in TtyCall, tty' = [tty EXCEPT ![p] = x]
  PROVE  tty' \in [Tty -> TtyCall] /\ tty'[p] = x /\ \A q \in Tty \ {p} : tty'[q] = tty[q]
  OBVIOUS

(* The steps that touch no more than one process and the transmitter.      *)
LEMMA CallKeeps ==
  ASSUME ConsoleCore, NEW p \in Tty, NEW n \in Requests, ConsoleCall(p, n)
  PROVE  ConsoleCore'
  <1>1. n \in Nat \ {0} /\ tty[p] \in TtyCall /\ tty \in [Tty -> TtyCall]
    BY ConsoleSizes DEF ConsoleCore
  <1>2. PICK c \in {"read", "copyin"} : tty' = [tty EXCEPT ![p].pc = c, ![p].left = n, ![p].target = n]
    BY Zenon DEF ConsoleCall
  <1> DEFINE x == [tty[p] EXCEPT !.pc = c, !.left = n, !.target = n]
  <1>3. x \in TtyCall /\ x.pc = c
    <2>1. tty[p] \in CallRecord /\ n \in Nat /\ n <= n /\ n > 0 /\ c \in Place
      BY <1>1, CallIs DEF Place
    <2>2. x \in CallRecord /\ x.pc = c /\ x.left = n /\ x.target = n
      BY <2>1, Zenon DEF CallRecord
    <2> QED BY <2>1, <2>2, CallIs, Zenon
  <1>4. tty' = [tty EXCEPT ![p] = x]
    BY <1>1, <1>2, Zenon
  <1> HIDE DEF x
  <1>5. tty' \in [Tty -> TtyCall] /\ tty'[p].pc # "rsleep" /\ \A q \in Tty \ {p} : tty'[q] = tty[q]
    <2>1. tty'[p] = x /\ c # "rsleep"
      BY <1>1, <1>3, <1>4, OneCall
    <2> QED BY <1>1, <1>3, <1>4, <2>1, OneCall, Zenon
  <1>6. UNCHANGED <<cons, fifo, tx_busy, tx_lock, txi, rx_ready, intr>>
    BY DEF ConsoleCall
  <1>7. Sleepers'
    BY <1>5, <1>6, Zenon DEF ConsoleCore, Sleepers
  <1> QED BY <1>5, <1>6, <1>7, Zenon DEF ConsoleCore, Lines

(* consoleread() finds no input: it sleeps, or returns when killed.        *)
LEMMA EmptyKeeps ==
  ASSUME ConsoleCore, NEW p \in Tty, ConsoleEmpty(p)
  PROVE  ConsoleCore'
  <1> DEFINE x == IF tty[p].killed THEN Idle(p) ELSE [tty[p] EXCEPT !.pc = "rsleep"]
  <1>1. tty[p] \in TtyCall /\ tty \in [Tty -> TtyCall] /\ tty[p].pc = "read" /\ cons.r = cons.w
    BY DEF ConsoleCore, ConsoleEmpty
  <1>2. x \in TtyCall
    <2>1. [tty[p] EXCEPT !.pc = "rsleep"] \in TtyCall
      BY <1>1, CallGoesOn, PlaceNames
    <2> QED BY <1>1, <2>1, IdleIs
  <1>3. tty' = [tty EXCEPT ![p] = x]
    BY <1>1 DEF ConsoleEmpty
  <1>4. tty' \in [Tty -> TtyCall]
    BY <1>1, <1>2, <1>3, OneCall, Zenon
  <1>5. UNCHANGED <<cons, fifo, tx_busy, tx_lock, txi, rx_ready, intr>>
    BY DEF ConsoleEmpty
  <1>6. Sleepers'
    BY <1>1, <1>5, Zenon DEF Sleepers
  <1> QED BY <1>4, <1>5, <1>6, Zenon DEF ConsoleCore, Lines

(* What a step of consoleread() that finds input does to the ring.         *)
LEMMA ReadTakes ==
  ASSUME ConsoleCore, NEW p \in Tty, tty[p].pc = "read", cons.r # cons.w, NEW n \in Plain(Committed)
  PROVE  LET x == ReadLoop(Committed, n, tty[p].left, tty[p].target) IN
         /\ x.took \in 0 .. Apart(cons.w, cons.r) /\ x.kept \in 0 .. x.took /\ x.stop \in BOOLEAN
         /\ \A k \in 1 .. x.took : Delivers(Committed, k)
         /\ ~ x.stop => x.took = Apart(cons.w, cons.r) /\ tty[p].left - x.kept \in Nat \ {0}
         /\ Committed = DoneOf(cons) /\ Len(Committed) = Apart(cons.w, cons.r)
         /\ Apart(cons.w, cons.r) \in Nat
  <1> DEFINE x == ReadLoop(Committed, n, tty[p].left, tty[p].target)
  <1>1. /\ cons.buf \in Buffer /\ cons.r \in Counter /\ cons.w \in Counter
        /\ tty[p].left \in Nat \ {0} /\ tty[p].target \in Nat
    <2>1. tty[p] \in TtyCall /\ RingOK(cons)
      BY DEF ConsoleCore
    <2>2. cons.buf \in Buffer /\ cons.r \in Counter /\ cons.w \in Counter
      BY <2>1 DEF RingOK
    <2>3. tty[p].left \in Nat /\ tty[p].target \in Nat /\ tty[p].left > 0
      BY <2>1, CallIs
    <2>4. tty[p].left \in Nat \ {0}
      BY <2>3
    <2> QED BY <2>2, <2>3, <2>4, Zenon
  <1>2. Committed = DoneOf(cons)
    BY DEF Committed, Ring, DoneOf, Span
  <1>3. Committed \in Seq(Char) /\ Len(Committed) = Apart(cons.w, cons.r) /\ Apart(cons.w, cons.r) \in Nat
    BY <1>1, <1>2, SpanIs, Zenon DEF DoneOf
  <1>4. Apart(cons.w, cons.r) # 0
    BY <1>1, ApartZero, Zenon
  <1>5. Len(Committed) > 0
    BY <1>3, <1>4
  <1>6. /\ x.took \in 0 .. Len(Committed) /\ x.kept \in 0 .. x.took /\ x.stop \in BOOLEAN
        /\ \A k \in 1 .. x.took : Delivers(Committed, k)
        /\ ~ x.stop => x.took = Len(Committed) /\ x.kept = x.took /\ tty[p].left - x.kept \in Nat \ {0}
    BY <1>1, <1>3, <1>5, ReadLoopIs, Zenon
  <1> HIDE DEF x
  <1>7. /\ x.took \in 0 .. Apart(cons.w, cons.r) /\ x.kept \in 0 .. x.took /\ x.stop \in BOOLEAN
        /\ \A k \in 1 .. x.took : Delivers(Committed, k)
        /\ ~ x.stop => x.took = Apart(cons.w, cons.r) /\ tty[p].left - x.kept \in Nat \ {0}
    BY <1>3, <1>6, Zenon
  <1> QED BY <1>2, <1>3, <1>7, Zenon DEF x

(* No reader is asleep beside one that finds input.                        *)
LEMMA NobodySleeps ==
  ASSUME ConsoleCore, cons.r # cons.w, NEW q \in Tty
  PROVE  tty[q].pc # "rsleep"
  BY DEF ConsoleCore, Sleepers

(* consoleread() copies out what the loop takes.                           *)
LEMMA ReadKeeps ==
  ASSUME ConsoleCore, NEW p \in Tty, Read(p)
  PROVE  ConsoleCore'
  <1>a. tty[p] \in TtyCall /\ tty \in [Tty -> TtyCall] /\ RingOK(cons) /\ Sleepers
    BY DEF ConsoleCore
  <1>b. PICK n \in Plain(Committed) :
          LET x == ReadLoop(Committed, n, tty[p].left, tty[p].target) IN
          /\ cons' = [cons EXCEPT !.r = Forward(@, x.took)]
          /\ tty' = [tty EXCEPT ![p] = AfterRead(p, x)]
    BY Zenon DEF Read
  <1> DEFINE x == ReadLoop(Committed, n, tty[p].left, tty[p].target)
             y == AfterRead(p, x)
  <1>1. /\ tty[p].pc = "read" /\ cons.r # cons.w
        /\ cons' = [cons EXCEPT !.r = Forward(@, x.took)]
        /\ UNCHANGED <<fifo, tx_busy, tx_lock, txi, rx_ready, intr>>
    BY <1>b, Zenon DEF Read
  <1>2. tty[p] \in TtyCall /\ tty \in [Tty -> TtyCall] /\ RingOK(cons) /\ Sleepers
    BY DEF ConsoleCore
  <1>3. tty' = [tty EXCEPT ![p] = y]
    BY <1>a, <1>b, Zenon
  <1>4. /\ x.took \in 0 .. Apart(cons.w, cons.r) /\ x.kept \in 0 .. x.took /\ x.stop \in BOOLEAN
        /\ ~ x.stop => x.took = Apart(cons.w, cons.r) /\ tty[p].left - x.kept \in Nat \ {0}
        /\ Apart(cons.w, cons.r) \in Nat
    BY <1>1, ReadTakes, Zenon
  <1>5. RingOK(cons') /\ (x.took = Apart(cons.w, cons.r) => cons'.r = cons'.w)
    BY <1>1, <1>2, <1>4, RingTake, Zenon
  <1> HIDE DEF x
  <1>6. y \in TtyCall
    <2>1. ASSUME ~ x.stop
          PROVE  [tty[p] EXCEPT !.pc = "rsleep", !.left = tty[p].left - x.kept] \in TtyCall
      <3>1. tty[p].left - x.kept \in Nat \ {0} /\ x.kept \in Nat
        BY <1>4, <2>1
      <3>2. tty[p].left - x.kept <= tty[p].left
        BY <1>2, <3>1, CallIs
      <3> QED BY <1>2, <3>1, <3>2, PlaceNames, CallShrinks, Zenon
    <2> QED BY <1>2, <2>1, IdleIs, Zenon DEF AfterRead
  <1>7. tty' \in [Tty -> TtyCall] /\ tty'[p] = y /\ \A q \in Tty \ {p} : tty'[q] = tty[q]
    BY <1>2, <1>3, <1>6, OneCall
  <1>8. x.stop => y.pc = "user"
    BY <1>2, IdleIs, Zenon DEF AfterRead
  <1>9. Sleepers'
    <2> SUFFICES ASSUME NEW q \in Tty, tty'[q].pc = "rsleep" PROVE cons'.r = cons'.w
      BY DEF Sleepers
    <2>1. q = p
      BY <1>1, <1>7, NobodySleeps
    <2>2. ~ x.stop
      BY <1>7, <1>8, <2>1
    <2> QED BY <1>4, <1>5, <2>2, Zenon
  <1> QED BY <1>1, <1>5, <1>7, <1>9, Zenon DEF ConsoleCore, Lines

(* consoleread() stops at a character either_copyout() cannot deliver.     *)
LEMMA FaultKeeps ==
  ASSUME ConsoleCore, NEW p \in Tty, ReadFault(p)
  PROVE  ConsoleCore'
  <1>1. /\ tty[p].pc = "read" /\ cons.r # cons.w
        /\ UNCHANGED <<fifo, tx_busy, tx_lock, txi, rx_ready, intr>>
    BY Zenon DEF ReadFault
  <1>a. PICK n \in Plain(Committed) : \E k \in 1 .. ReadLoop(Committed, n, tty[p].left, tty[p].target).kept :
                                 /\ cons' = [cons EXCEPT !.r = Forward(@, k)]
                                 /\ tty' = [tty EXCEPT ![p] = Idle(p)]
    BY Zenon DEF ReadFault
  <1> DEFINE x == ReadLoop(Committed, n, tty[p].left, tty[p].target)
  <1>2. PICK k \in 1 .. x.kept : /\ cons' = [cons EXCEPT !.r = Forward(@, k)]
                                 /\ tty' = [tty EXCEPT ![p] = Idle(p)]
    BY <1>a, Zenon
  <1>3. tty[p] \in TtyCall /\ tty \in [Tty -> TtyCall] /\ RingOK(cons) /\ Sleepers
    BY DEF ConsoleCore
  <1>4. /\ x.took \in 0 .. Apart(cons.w, cons.r) /\ x.kept \in 0 .. x.took
        /\ Apart(cons.w, cons.r) \in Nat
    BY <1>1, ReadTakes, Zenon
  <1> HIDE DEF x
  <1>5. k \in 0 .. Apart(cons.w, cons.r)
    BY <1>4
  <1>6. RingOK(cons')
    BY <1>1, <1>2, <1>3, <1>5, RingTake, Zenon
  <1>7. tty' \in [Tty -> TtyCall] /\ tty'[p] = Idle(p) /\ \A q \in Tty \ {p} : tty'[q] = tty[q]
    BY <1>2, <1>3, IdleIs, OneCall
  <1>8. \A q \in Tty : tty'[q].pc # "rsleep"
    BY <1>1, <1>3, <1>7, IdleIs, NobodySleeps
  <1> QED BY <1>1, <1>6, <1>7, <1>8, Zenon DEF ConsoleCore, Lines, Sleepers

(* Nobody falls asleep in consoleread(), and the ring is left alone.       *)
LEMMA StillAsleep ==
  ASSUME Sleepers, UNCHANGED cons,
         \A q \in Tty : tty'[q].pc = "rsleep" => tty[q].pc = "rsleep"
  PROVE  Sleepers'
  BY Zenon DEF Sleepers

(* One process goes on to a place other than consoleread()'s sleep.        *)
LEMMA OneGoesOn ==
  ASSUME NEW p \in Tty, tty \in [Tty -> TtyCall], Sleepers, UNCHANGED cons,
         NEW x \in TtyCall, x.pc # "rsleep", tty' = [tty EXCEPT ![p] = x]
  PROVE  tty' \in [Tty -> TtyCall] /\ Sleepers'
  <1>1. tty' \in [Tty -> TtyCall] /\ tty'[p] = x /\ \A q \in Tty \ {p} : tty'[q] = tty[q]
    BY OneCall
  <1>2. \A q \in Tty : tty'[q].pc = "rsleep" => tty[q].pc = "rsleep"
    BY <1>1, Zenon
  <1> QED BY <1>1, <1>2, StillAsleep, Zenon

(* kkill() wakes a sleeper to find itself killed.                          *)
LEMMA KillKeeps ==
  ASSUME ConsoleCore, NEW p \in Tty, ConsoleKill(p)
  PROVE  ConsoleCore'
  <1> DEFINE x == [tty[p] EXCEPT !.killed = TRUE, !.pc = Awake(p)]
  <1>1. tty[p] \in TtyCall /\ tty \in [Tty -> TtyCall] /\ RingOK(cons) /\ Sleepers
    BY DEF ConsoleCore
  <1>2. UNCHANGED <<cons, fifo, tx_busy, tx_lock, txi, rx_ready, intr>>
    BY Zenon DEF ConsoleKill
  <1>3. tty' = [tty EXCEPT ![p] = x]
    BY <1>1, Zenon DEF ConsoleKill
  <1>4. /\ Awake(p) \in Place /\ Awake(p) # "rsleep"
        /\ Awake(p) # "user" => tty[p].pc # "user"
    <2>1. tty[p].pc \in Place
      BY <1>1, CallIs DEF CallRecord
    <2> QED BY <2>1 DEF Awake, Place
  <1>5. x \in TtyCall /\ x.pc # "rsleep"
    <2>1. tty[p] \in CallRecord /\ tty[p].left <= tty[p].target /\ (tty[p].pc # "user" => tty[p].left > 0)
      BY <1>1, CallIs
    <2>2. x \in CallRecord /\ x.left = tty[p].left /\ x.target = tty[p].target /\ x.pc = Awake(p)
      BY <1>4, <2>1, Zenon DEF CallRecord
    <2> QED BY <1>4, <2>1, <2>2, CallIs, Zenon
  <1> HIDE DEF x
  <1>6. tty' \in [Tty -> TtyCall] /\ Sleepers'
    BY <1>1, <1>2, <1>3, <1>5, OneGoesOn, Zenon
  <1> QED BY <1>1, <1>2, <1>6, Zenon DEF ConsoleCore, Lines

(* consolewrite() fetches its bytes, or finds a bad address.               *)
LEMMA CopyInKeeps ==
  ASSUME ConsoleCore, NEW p \in Tty, CopyIn(p)
  PROVE  ConsoleCore'
  <1>1. tty[p] \in TtyCall /\ tty \in [Tty -> TtyCall] /\ RingOK(cons) /\ Sleepers
    BY DEF ConsoleCore
  <1>2. tty[p].pc = "copyin" /\ UNCHANGED <<cons, fifo, tx_busy, tx_lock, txi, rx_ready, intr>>
    BY Zenon DEF CopyIn
  <1>3. PICK ok \in BOOLEAN : tty' = [tty EXCEPT ![p] = IF ok THEN [tty[p] EXCEPT !.pc = "write"]
                                                              ELSE Idle(p)]
    BY <1>1, Zenon DEF CopyIn
  <1> DEFINE x == IF ok THEN [tty[p] EXCEPT !.pc = "write"] ELSE Idle(p)
  <1>4. x \in TtyCall /\ x.pc # "rsleep"
    <2>1. "copyin" # "user" /\ "write" # "rsleep" /\ "user" # "rsleep"
      OBVIOUS
    <2>2. [tty[p] EXCEPT !.pc = "write"] \in TtyCall /\ [tty[p] EXCEPT !.pc = "write"].pc = "write"
      BY <1>1, <1>2, <2>1, CallGoesOn, PlaceNames, Zenon
    <2> QED BY <1>1, <2>1, <2>2, IdleIs, Zenon
  <1>5. tty' = [tty EXCEPT ![p] = x]
    BY <1>3
  <1> HIDE DEF x
  <1>6. tty' \in [Tty -> TtyCall] /\ Sleepers'
    BY <1>1, <1>2, <1>4, <1>5, OneGoesOn, Zenon
  <1> QED BY <1>1, <1>2, <1>6, Zenon DEF ConsoleCore, Lines

(* uartwrite() hands the transmitter a character only when tx_busy says    *)
(* that the one before is out: then at most an echo is in it.              *)
LEMMA UartWriteKeeps ==
  ASSUME ConsoleCore, NEW p \in Tty, UartWrite(p)
  PROVE  ConsoleCore'
  <1>1. tty[p] \in TtyCall /\ tty \in [Tty -> TtyCall] /\ RingOK(cons) /\ Sleepers /\ Lines
    BY DEF ConsoleCore
  <1>2. tty[p].pc = "write" /\ tx_lock = Nobody /\ UNCHANGED <<cons, tx_busy, txi, rx_ready, intr>>
    BY Zenon DEF UartWrite
  <1>3. ASSUME NEW c \in {"wsleep", "wbusy"}, tty' = [tty EXCEPT ![p].pc = c]
        PROVE  tty' \in [Tty -> TtyCall] /\ Sleepers'
    <2> DEFINE x == [tty[p] EXCEPT !.pc = c]
    <2>1. tty[p].pc # "user" /\ c \in Place /\ c # "rsleep"
      BY <1>2 DEF Place
    <2>2. x \in TtyCall /\ x.pc # "rsleep"
      BY <1>1, <2>1, CallGoesOn, Zenon
    <2>3. tty' = [tty EXCEPT ![p] = x]
      BY <1>1, <1>3, Zenon
    <2> HIDE DEF x
    <2> QED BY <1>1, <1>2, <2>2, <2>3, OneGoesOn, Zenon
  <1>4. CASE tx_busy
    <2>1. tty' = [tty EXCEPT ![p].pc = "wsleep"] /\ UNCHANGED <<fifo, tx_lock>>
      BY <1>4, Zenon DEF UartWrite
    <2> QED BY <1>1, <1>2, <1>3, <2>1, Zenon DEF ConsoleCore, Lines
  <1>5. CASE ~ tx_busy
    <2>1. tty' = [tty EXCEPT ![p].pc = "wbusy"] /\ fifo' = fifo + 1 /\ tx_lock' = p
      BY <1>5, Zenon DEF UartWrite
    <2>2. p # Nobody
      BY ConsoleAssumption DEF Nobody
    <2>4. fifo' \in Nat
      BY <1>1, <2>1 DEF Lines
    <2>5. Lines'
      BY <1>1, <1>2, <2>1, <2>2, <2>4, Zenon DEF Lines
    <2>6. tty' \in [Tty -> TtyCall] /\ Sleepers'
      BY <1>3, <2>1, Zenon
    <2> QED BY <1>1, <1>2, <2>5, <2>6, Zenon DEF ConsoleCore
  <1> QED BY <1>4, <1>5, Zenon

(* uartwrite() goes on after a byte, or sleeps for the transmitter.        *)
LEMMA UartBusyKeeps ==
  ASSUME ConsoleCore, NEW p \in Tty, UartBusy(p)
  PROVE  ConsoleCore'
  <1> DEFINE n == tty[p].left - 1
             c == IF (tty[p].target - n) % BATCH = 0 THEN "copyin" ELSE "wsleep"
  <1>1. tty[p] \in TtyCall /\ tty \in [Tty -> TtyCall] /\ RingOK(cons) /\ Sleepers /\ Lines
    BY DEF ConsoleCore
  <1>2. /\ tty[p].pc = "wbusy" /\ tx_busy' = TRUE /\ tx_lock' = Nobody
        /\ UNCHANGED <<cons, fifo, txi, rx_ready, intr>>
        /\ tty' = [tty EXCEPT ![p] = AfterByte(p)]
    BY Zenon DEF UartBusy
  <1>3. tty[p].left \in Nat \ {0} /\ n \in Nat /\ n <= tty[p].left
    BY <1>1, <1>2, CallIs
  <1>4. c \in Place /\ c # "rsleep" /\ "user" # "rsleep"
    BY DEF Place
  <1>5. AfterByte(p) = IF n = 0 THEN Idle(p) ELSE [tty[p] EXCEPT !.pc = c, !.left = n]
    <2>1. AfterByte(p) = IF n = 0 THEN Idle(p) ELSE [tty[p] EXCEPT !.left = n, !.pc = c]
      BY Zenon DEF AfterByte
    <2>2. [tty[p] EXCEPT !.left = n, !.pc = c] = [tty[p] EXCEPT !.pc = c, !.left = n]
      <3> HIDE DEF n, c
      <3>1. tty[p] \in CallRecord
        BY <1>1, CallIs
      <3> QED BY <3>1, Zenon DEF CallRecord
    <2> HIDE DEF n, c
    <2> QED BY <2>1, <2>2, Zenon
  <1> HIDE DEF n, c
  <1>6. AfterByte(p) \in TtyCall /\ AfterByte(p).pc # "rsleep"
    <2>1. CASE n = 0
      BY <1>1, <1>4, <1>5, <2>1, IdleIs, Zenon
    <2>2. CASE n # 0
      <3>1. n \in Nat \ {0}
        BY <1>3, <2>2
      <3>2. [tty[p] EXCEPT !.pc = c, !.left = n] \in TtyCall /\ [tty[p] EXCEPT !.pc = c, !.left = n].pc = c
        BY <1>1, <1>3, <1>4, <3>1, CallShrinks, Zenon
      <3> QED BY <1>4, <1>5, <2>2, <3>2, Zenon
    <2> QED BY <2>1, <2>2, Zenon
  <1>7. tty' \in [Tty -> TtyCall] /\ Sleepers'
    BY <1>1, <1>2, <1>6, OneGoesOn, Zenon
  <1> QED BY <1>1, <1>2, <1>7, Zenon DEF ConsoleCore, Lines

-----------------------------------------------------------------------------
(* The device and the first half of uartintr().                            *)
LEMMA TransmitKeeps == ASSUME ConsoleCore, Transmit PROVE ConsoleCore'
  <1>1. fifo > 0 /\ fifo' = fifo - 1 /\ txi' = (txi \/ fifo = 1) /\ UNCHANGED <<cons, tty, tx_busy, tx_lock, rx_ready, intr>>
    BY Zenon DEF Transmit
  <1>2. fifo \in Nat
    BY DEF ConsoleCore, Lines
  <1>3. fifo' \in Nat
    BY <1>1, <1>2
  <1>4. txi' \in BOOLEAN
    BY <1>1, Zenon
  <1> QED BY <1>1, <1>3, <1>4, Zenon DEF ConsoleCore, Lines, Sleepers

(* A key reaches the UART: the console has not seen it yet.                *)
LEMMA KeyKeeps == ASSUME ConsoleCore, Key PROVE ConsoleCore'
  BY Zenon DEF Key, ConsoleCore, Lines, Sleepers

(* The interrupt is claimed: nothing of the console's has changed.         *)
LEMMA ClaimKeeps == ASSUME ConsoleCore, Claim PROVE ConsoleCore'
  BY Zenon DEF Claim, ConsoleCore, Lines, Sleepers

(* uartintr() returns.                                                     *)
LEMMA IntrDoneKeeps == ASSUME ConsoleCore, IntrDone PROVE ConsoleCore'
  BY Zenon DEF IntrDone, ConsoleCore, Lines, Sleepers

(* wakeup() in either half of uartintr().                                  *)
LEMMA WakeIs ==
  ASSUME tty \in [Tty -> TtyCall]
  PROVE  /\ WakeWriters \in [Tty -> TtyCall] /\ \A q \in Tty : WakeWriters[q].pc = "rsleep" => tty[q].pc = "rsleep"
         /\ WakeReaders \in [Tty -> TtyCall] /\ \A q \in Tty : WakeReaders[q].pc # "rsleep"
  <1> SUFFICES ASSUME NEW q \in Tty
               PROVE  /\ WakeWriters[q] \in TtyCall /\ (WakeWriters[q].pc = "rsleep" => tty[q].pc = "rsleep")
                      /\ WakeReaders[q] \in TtyCall /\ WakeReaders[q].pc # "rsleep"
    BY Zenon DEF WakeWriters, WakeReaders
  <1>1. tty[q] \in TtyCall
    OBVIOUS
  <1>2. /\ WakeWriters[q] = IF tty[q].pc = "wsleep" THEN [tty[q] EXCEPT !.pc = "write"] ELSE tty[q]
        /\ WakeReaders[q] = IF tty[q].pc = "rsleep" THEN [tty[q] EXCEPT !.pc = "read"] ELSE tty[q]
    BY Zenon DEF WakeWriters, WakeReaders
  <1>3. "wsleep" # "user" /\ "rsleep" # "user" /\ "write" # "rsleep" /\ "read" # "rsleep"
    OBVIOUS
  <1>4. tty[q].pc = "wsleep" => [tty[q] EXCEPT !.pc = "write"] \in TtyCall /\ [tty[q] EXCEPT !.pc = "write"].pc = "write"
    BY <1>1, <1>3, CallGoesOn, PlaceNames, Zenon
  <1>5. tty[q].pc = "rsleep" => [tty[q] EXCEPT !.pc = "read"] \in TtyCall /\ [tty[q] EXCEPT !.pc = "read"].pc = "read"
    BY <1>1, <1>3, CallGoesOn, PlaceNames, Zenon
  <1> QED BY <1>1, <1>2, <1>3, <1>4, <1>5, Zenon

(* With tx_lock held, the handler sees tx_busy and the transmitter as      *)
(* uartwrite() left them.                                                  *)
LEMMA IntrTxKeeps == ASSUME ConsoleCore, IntrTx PROVE ConsoleCore'
  <1>1. tty \in [Tty -> TtyCall] /\ RingOK(cons) /\ Sleepers /\ Lines
    BY DEF ConsoleCore
  <1>2. intr' = "rx" /\ UNCHANGED <<cons, fifo, tx_lock, txi, rx_ready>>
    BY Zenon DEF IntrTx
  <1>3. CASE fifo = 0
    <2>1. tx_busy' = FALSE /\ tty' = WakeWriters
      BY <1>3, Zenon DEF IntrTx
    <2>2. tty' \in [Tty -> TtyCall] /\ Sleepers'
      BY <1>1, <1>2, <2>1, WakeIs, StillAsleep, Zenon
    <2> QED BY <1>1, <1>2, <2>1, <2>2, Zenon DEF ConsoleCore, Lines
  <1>4. CASE fifo # 0
    <2>1. UNCHANGED <<tx_busy, tty>>
      BY <1>4, Zenon DEF IntrTx
    <2> QED BY <1>1, <1>2, <2>1, Zenon DEF ConsoleCore, Lines, Sleepers
  <1> QED BY <1>3, <1>4, Zenon

-----------------------------------------------------------------------------
(* The ring as the abstract specification sees it.                         *)
LEMMA Views ==
  /\ Committed = DoneOf(cons) /\ Editing = EditOf(cons)
  /\ Committed' = DoneOf(cons') /\ Editing' = EditOf(cons')
  BY Zenon DEF Committed, Editing, Ring, DoneOf, EditOf, Span

(* An echo fills an empty transmitter.                                     *)
LEMMA EchoKeeps ==
  ASSUME Lines, Echo \/ NoEcho, rx_ready' = FALSE, UNCHANGED <<tx_busy, tx_lock, txi, intr>>
  PROVE  Lines'
  <1>1. fifo' \in Nat
    BY DEF Lines, Echo, NoEcho
  <1> QED BY <1>1, Zenon DEF Lines

(* A character stored is a character accepted.                             *)
LEMMA StoreIs ==
  ASSUME ConsoleCore, NEW ch \in Keys \ {CtrlU, CtrlH, CtrlP}, Store(ch)
  PROVE  /\ RingOK(cons') /\ tty' \in [Tty -> TtyCall] /\ Sleepers' /\ (Echo \/ NoEcho)
         /\ (\E c \in Letters \cup {NL, CtrlD} : Queue!Accept(c)) \/ UNCHANGED <<Committed, Editing>>
  <1>1. RingOK(cons) /\ tty \in [Tty -> TtyCall] /\ Sleepers
    BY DEF ConsoleCore
  <1>2. CASE ch # Nul /\ Apart(cons.e, cons.r) < INPUT_BUF_SIZE
    <2> DEFINE f == Forward(cons.e, 1)
               commit == ch \in {NL, CtrlD} \/ Apart(f, cons.r) = INPUT_BUF_SIZE
               s == DoneOf(cons)
               t == EditOf(cons)
    <2>1. /\ Echo
          /\ cons' = [cons EXCEPT !.buf[Slot(cons.e)] = ch, !.e = f, !.w = IF commit THEN f ELSE @]
          /\ tty' = IF commit THEN WakeReaders ELSE tty
      BY <1>2, Zenon DEF Store
    <2>2. ch \in Letters \cup {NL, CtrlD} /\ ch \in Char
      <3>1. ch \in Letters \cup {NL, CtrlD}
        BY <1>2, Zenon DEF Keys
      <3> QED BY <3>1, Zenon DEF Char
    <2>3. /\ RingOK(cons') /\ cons'.r = cons.r
          /\ Len(s) + Len(t) < INPUT_BUF_SIZE
          /\ commit <=> (ch \in {NL, CtrlD} \/ Len(s) + Len(t) + 1 = INPUT_BUF_SIZE)
          /\ commit => EditOf(cons') = << >> /\ DoneOf(cons') = s \o Append(t, ch)
          /\ ~ commit => cons'.w = cons.w /\ EditOf(cons') = Append(t, ch) /\ DoneOf(cons') = s
      BY <1>1, <1>2, <2>1, <2>2, RingStore, Zenon
    <2> HIDE DEF f, commit
    <2>4. tty' \in [Tty -> TtyCall] /\ Sleepers'
      <3>1. CASE commit
        BY <1>1, <2>1, <3>1, WakeIs, Zenon DEF Sleepers
      <3>2. CASE ~ commit
        BY <1>1, <2>1, <2>3, <3>2, Zenon DEF Sleepers
      <3> QED BY <3>1, <3>2, Zenon
    <2>5. Queue!Accept(ch)
      BY <2>3, Views, Zenon DEF Queue!Accept, Queue!Ends
    <2> QED BY <2>1, <2>2, <2>3, <2>4, <2>5, Zenon
  <1>3. CASE ~ (ch # Nul /\ Apart(cons.e, cons.r) < INPUT_BUF_SIZE)
    <2>1. NoEcho /\ UNCHANGED <<cons, tty>>
      BY <1>3, Zenon DEF Store
    <2> QED BY <1>1, <2>1, Views, Zenon DEF Sleepers
  <1> QED BY <1>2, <1>3, Zenon

(* Backspace takes back the last character of the line, or nothing.        *)
LEMMA BackspaceIs ==
  ASSUME ConsoleCore, Backspace
  PROVE  /\ RingOK(cons') /\ tty' \in [Tty -> TtyCall] /\ Sleepers' /\ (Echo \/ NoEcho)
         /\ Queue!Erase \/ UNCHANGED <<Committed, Editing>>
  <1>1. RingOK(cons) /\ tty \in [Tty -> TtyCall] /\ Sleepers /\ tty' = tty
    BY DEF ConsoleCore, Backspace
  <1>2. CASE cons.e # cons.w
    <2>1. Echo /\ cons' = [cons EXCEPT !.e = Apart(@, 1)]
      BY <1>2, Zenon DEF Backspace
    <2>2. /\ RingOK(cons') /\ DoneOf(cons') = DoneOf(cons) /\ cons'.r = cons.r /\ cons'.w = cons.w
          /\ EditOf(cons) # << >>
          /\ EditOf(cons') = SubSeq(EditOf(cons), 1, Len(EditOf(cons)) - 1)
      BY <1>1, <1>2, <2>1, RingErase, Zenon
    <2>3. Queue!Erase
      BY <2>2, Views, Zenon DEF Queue!Erase
    <2> QED BY <1>1, <2>1, <2>2, <2>3, Zenon DEF Sleepers
  <1>3. CASE cons.e = cons.w
    <2>1. NoEcho /\ UNCHANGED cons
      BY <1>3, Zenon DEF Backspace
    <2> QED BY <1>1, <2>1, Views, Zenon DEF Sleepers
  <1> QED BY <1>2, <1>3, Zenon

(* Control-U goes back to w: there is no newline in between.               *)
LEMMA LineStartIs == ASSUME RingOK(cons) PROVE LineStart = cons.w
  <1> DEFINE n == Apart(cons.e, cons.w)
             P(j) == /\ \A i \in j + 1 .. n : Editing[i] # NL
                     /\ j > 0 => Editing[j] = NL
             k == CHOOSE j \in 0 .. n : P(j)
  <1>1. /\ cons.e \in Counter /\ cons.w \in Counter
        /\ \A i \in 1 .. n : EditOf(cons)[i] \notin {NL, CtrlD}
    BY DEF RingOK, EditOf
  <1>2. n \in Nat
    BY <1>1, ApartIs, Zenon
  <1>3. \A i \in 1 .. n : Editing[i] # NL
    BY <1>1, Views, Zenon
  <1>4. LineStart = Forward(cons.w, k)
    BY Zenon DEF LineStart
  <1> HIDE DEF n
  <1>5. 0 \in 0 .. n /\ 0 + 1 = 1 /\ ~ (0 > 0) /\ \A j \in 0 .. n : j > 0 => j \in 1 .. n
    BY <1>2
  <1>6. P(0)
    BY <1>3, <1>5, Zenon
  <1>7. k \in 0 .. n /\ P(k)
    <2> HIDE DEF P
    <2> QED BY <1>5, <1>6, Zenon
  <1>8. ~ (k > 0)
    BY <1>3, <1>5, <1>7, Zenon
  <1> HIDE DEF k, P
  <1>9. k = 0
    BY <1>2, <1>7, <1>8
  <1>10. Forward(cons.w, 0) = cons.w
    <2>1. 0 \in 0 .. INPUT_BUF_SIZE
      BY ConsoleSizes
    <2>2. /\ Forward(cons.w, 0) \in Counter
          /\ Forward(cons.w, 0) = cons.w + 0 \/ Forward(cons.w, 0) + UINT = cons.w + 0
      BY <1>1, <2>1, ForwardIs, Zenon
    <2> QED BY <1>1, <2>2, ConsoleSizes DEF Counter
  <1> QED BY <1>4, <1>9, <1>10, Zenon

(* Control-U takes back the line and stops where it starts.                *)
LEMMA KillLineIs ==
  ASSUME ConsoleCore, KillLine
  PROVE  /\ RingOK(cons') /\ tty' \in [Tty -> TtyCall] /\ Sleepers' /\ (Echo \/ NoEcho)
         /\ Queue!EraseLine \/ UNCHANGED <<Committed, Editing>>
  <1>1. RingOK(cons) /\ tty \in [Tty -> TtyCall] /\ Sleepers /\ tty' = tty
    BY DEF ConsoleCore, KillLine
  <1>2. LineStart = cons.w
    BY <1>1, LineStartIs, Zenon
  <1>3. CASE LineStart # cons.e
    <2>1. Echo /\ cons' = [cons EXCEPT !.e = cons.w]
      BY <1>2, <1>3, Zenon DEF KillLine
    <2>2. RingOK(cons') /\ DoneOf(cons') = DoneOf(cons) /\ cons'.r = cons.r /\ cons'.w = cons.w /\ EditOf(cons') = << >>
      BY <1>1, <2>1, RingEraseLine, Zenon
    <2>3. Queue!EraseLine
      BY <2>2, Views, Zenon DEF Queue!EraseLine
    <2> QED BY <1>1, <2>1, <2>2, <2>3, Zenon DEF Sleepers
  <1>4. CASE LineStart = cons.e
    <2>1. NoEcho /\ UNCHANGED cons
      BY <1>4, Zenon DEF KillLine
    <2> QED BY <1>1, <2>1, Views, Zenon DEF Sleepers
  <1> QED BY <1>3, <1>4, Zenon

(* consoleintr(), whatever the key.                                        *)
LEMMA IntrRxIs ==
  ASSUME ConsoleCore, IntrRx
  PROVE  ConsoleCore' /\ (Queue!QueueNext \/ UNCHANGED <<Committed, Editing>>)
  <1>1. PICK ch \in Keys : consoleintr(ch)
    BY Zenon DEF IntrRx
  <1>2. rx_ready' = FALSE /\ UNCHANGED <<tx_busy, tx_lock, txi, intr>>
    BY Zenon DEF IntrRx
  <1>3. RingOK(cons) /\ tty \in [Tty -> TtyCall] /\ Sleepers /\ Lines
    BY DEF ConsoleCore
  <1>4. CtrlU # CtrlH /\ CtrlU # CtrlP /\ CtrlH # CtrlP
    BY DEF CtrlU, CtrlH, CtrlP
  <1>5. /\ RingOK(cons') /\ tty' \in [Tty -> TtyCall] /\ Sleepers' /\ (Echo \/ NoEcho)
        /\ Queue!QueueNext \/ UNCHANGED <<Committed, Editing>>
    <2>1. CASE ch = CtrlU
      <3>1. KillLine
        BY <1>1, <1>4, <2>1 DEF consoleintr
      <3> QED BY <3>1, KillLineIs, Zenon DEF Queue!QueueNext
    <2>2. CASE ch = CtrlH
      <3>1. Backspace
        BY <1>1, <1>4, <2>2 DEF consoleintr
      <3> QED BY <3>1, BackspaceIs, Zenon DEF Queue!QueueNext
    <2>3. CASE ch = CtrlP
      <3>1. Echo /\ UNCHANGED <<cons, tty>>
        BY <1>1, <1>4, <2>3 DEF consoleintr
      <3> QED BY <1>3, <3>1, Views, Zenon DEF Sleepers
    <2>4. CASE ch \notin {CtrlU, CtrlH, CtrlP}
      <3>1. Store(ch)
        BY <1>1, <2>4 DEF consoleintr
      <3>2. ch \in Keys \ {CtrlU, CtrlH, CtrlP}
        BY <2>4
      <3> QED BY <3>1, <3>2, StoreIs, Zenon DEF Queue!QueueNext, Queue!Ends
    <2> QED BY <2>1, <2>2, <2>3, <2>4, Zenon
  <1>6. Lines'
    BY <1>2, <1>3, <1>5, EchoKeeps, Zenon
  <1> QED BY <1>5, <1>6, Zenon DEF ConsoleCore

-----------------------------------------------------------------------------
(* What a read takes is one delivery.                                      *)
LEMMA TakeDelivers ==
  ASSUME ConsoleCore, NEW p \in Tty, tty[p].pc = "read", cons.r # cons.w, NEW n \in Plain(Committed),
         NEW k \in 0 .. ReadLoop(Committed, n, tty[p].left, tty[p].target).took,
         cons' = [cons EXCEPT !.r = Forward(@, k)]
  PROVE  Queue!QueueNext \/ UNCHANGED <<Committed, Editing>>
  <1> DEFINE x == ReadLoop(Committed, n, tty[p].left, tty[p].target)
  <1>1. /\ x.took \in 0 .. Apart(cons.w, cons.r)
        /\ \A j \in 1 .. x.took : Delivers(Committed, j)
        /\ Len(Committed) = Apart(cons.w, cons.r) /\ Apart(cons.w, cons.r) \in Nat
    BY ReadTakes, Zenon
  <1>2. RingOK(cons)
    BY DEF ConsoleCore
  <1> HIDE DEF x
  <1>3. k \in 0 .. x.took
    BY DEF x
  <1>4. k \in 0 .. Apart(cons.w, cons.r) /\ (k # 0 => k \in 1 .. x.took /\ k \in 1 .. Len(Committed))
    BY <1>1, <1>3
  <1>5. /\ EditOf(cons') = EditOf(cons) /\ (k = 0 => cons' = cons)
        /\ DoneOf(cons') = SubSeq(DoneOf(cons), k + 1, Len(DoneOf(cons)))
    BY <1>2, <1>4, RingTake, Zenon
  <1>6. CASE k = 0
    BY <1>5, <1>6, Views, Zenon
  <1>7. CASE k # 0
    <2>1. Delivers(Committed, k)
      BY <1>1, <1>4, <1>7, Zenon
    <2>2. Queue!Deliver(k)
      BY <1>5, <2>1, Views, Zenon DEF Queue!Deliver, Queue!Ends, Delivers
    <2> QED BY <1>4, <1>7, <2>2, Zenon DEF Queue!QueueNext
  <1> QED BY <1>6, <1>7, Zenon

(* Every step keeps the invariant and is a step of the line queue.         *)
LEMMA ConsoleStep ==
  ASSUME ConsoleCore, [ConsoleNext]_consoleVars
  PROVE  ConsoleCore' /\ (Queue!QueueNext \/ UNCHANGED <<Committed, Editing>>)
  <1>1. ASSUME UNCHANGED cons PROVE UNCHANGED <<Committed, Editing>>
    BY <1>1, Views, Zenon
  <1>2. ASSUME NEW p \in Tty, NEW n \in Requests, ConsoleCall(p, n)
        PROVE  ConsoleCore' /\ UNCHANGED cons
    BY <1>2, CallKeeps, Zenon DEF ConsoleCall
  <1>3. ASSUME NEW p \in Tty, ConsoleEmpty(p) PROVE ConsoleCore' /\ UNCHANGED cons
    BY <1>3, EmptyKeeps, Zenon DEF ConsoleEmpty
  <1>4. ASSUME NEW p \in Tty, Read(p)
        PROVE  ConsoleCore' /\ (Queue!QueueNext \/ UNCHANGED <<Committed, Editing>>)
    <2>a. PICK n \in Plain(Committed) :
            cons' = [cons EXCEPT !.r = Forward(@, ReadLoop(Committed, n, tty[p].left, tty[p].target).took)]
      BY <1>4, Zenon DEF Read
    <2> DEFINE x == ReadLoop(Committed, n, tty[p].left, tty[p].target)
    <2>1. tty[p].pc = "read" /\ cons.r # cons.w /\ cons' = [cons EXCEPT !.r = Forward(@, x.took)]
      BY <1>4, <2>a, Zenon DEF Read
    <2>2. x.took \in 0 .. Apart(cons.w, cons.r) /\ Apart(cons.w, cons.r) \in Nat
      BY <2>1, ReadTakes, Zenon
    <2>3. x.took \in 0 .. x.took
      <3> HIDE DEF x
      <3> QED BY <2>2
    <2> QED BY <1>4, <2>1, <2>3, ReadKeeps, TakeDelivers, Zenon
  <1>5. ASSUME NEW p \in Tty, ReadFault(p)
        PROVE  ConsoleCore' /\ (Queue!QueueNext \/ UNCHANGED <<Committed, Editing>>)
    <2>a. PICK n \in Plain(Committed) :
            \E k \in 1 .. ReadLoop(Committed, n, tty[p].left, tty[p].target).kept :
              cons' = [cons EXCEPT !.r = Forward(@, k)]
      BY <1>5, Zenon DEF ReadFault
    <2> DEFINE x == ReadLoop(Committed, n, tty[p].left, tty[p].target)
    <2>1. tty[p].pc = "read" /\ cons.r # cons.w
      BY <1>5, Zenon DEF ReadFault
    <2>2. PICK k \in 1 .. x.kept : cons' = [cons EXCEPT !.r = Forward(@, k)]
      BY <2>a, Zenon
    <2>3. x.took \in 0 .. Apart(cons.w, cons.r) /\ x.kept \in 0 .. x.took /\ Apart(cons.w, cons.r) \in Nat
      BY <2>1, ReadTakes, Zenon
    <2>4. k \in 0 .. x.took
      <3> HIDE DEF x
      <3> QED BY <2>3
    <2> QED BY <1>5, <2>1, <2>2, <2>4, FaultKeeps, TakeDelivers, Zenon
  <1>6. ASSUME NEW p \in Tty, CopyIn(p) PROVE ConsoleCore' /\ UNCHANGED cons
    BY <1>6, CopyInKeeps, Zenon DEF CopyIn
  <1>7. ASSUME NEW p \in Tty, UartWrite(p) PROVE ConsoleCore' /\ UNCHANGED cons
    BY <1>7, UartWriteKeeps, Zenon DEF UartWrite
  <1>8. ASSUME NEW p \in Tty, UartBusy(p) PROVE ConsoleCore' /\ UNCHANGED cons
    BY <1>8, UartBusyKeeps, Zenon DEF UartBusy
  <1>9. ASSUME NEW p \in Tty, ConsoleKill(p) PROVE ConsoleCore' /\ UNCHANGED cons
    BY <1>9, KillKeeps, Zenon DEF ConsoleKill
  <1>10. CASE Transmit
    BY <1>1, <1>10, TransmitKeeps, Zenon DEF Transmit
  <1>11. CASE Key
    BY <1>1, <1>11, KeyKeeps, Zenon DEF Key
  <1>12. CASE Claim
    BY <1>1, <1>12, ClaimKeeps, Zenon DEF Claim
  <1>13. CASE IntrTx
    BY <1>1, <1>13, IntrTxKeeps, Zenon DEF IntrTx
  <1>14. CASE IntrRx
    BY <1>14, IntrRxIs, Zenon
  <1>15. CASE IntrDone
    BY <1>1, <1>15, IntrDoneKeeps, Zenon DEF IntrDone
  <1>16. CASE UNCHANGED consoleVars
    BY <1>1, <1>16, Zenon DEF consoleVars, ConsoleCore, Lines, Sleepers
  <1>17. CASE PrintLook \/ PrintPut
    <2>1. fifo' \in Nat /\ UNCHANGED <<cons, tty, tx_busy, tx_lock, txi, rx_ready, intr>>
      BY <1>17 DEF PrintLook, PrintPut, ConsoleCore, Lines
    <2> QED BY <1>1, <2>1, Zenon DEF ConsoleCore, Lines, Sleepers
  <1>18. CASE DriverStep
    <2>1. ASSUME NEW p \in Tty, TtyStep(p)
          PROVE  ConsoleCore' /\ (Queue!QueueNext \/ UNCHANGED <<Committed, Editing>>)
      BY <1>1, <1>3, <1>4, <1>5, <1>6, <1>7, <1>8, <2>1, Zenon DEF TtyStep
    <2> QED BY <1>1, <1>2, <1>9, <1>10, <1>11, <1>12, <1>13, <1>14, <1>15, <1>18, <2>1, Zenon DEF DriverStep
  <1> QED BY <1>16, <1>17, <1>18, Zenon DEF ConsoleNext

(* Each writer fills the transmitter once: uartwrite() when it is not      *)
(* waiting for it, an echo and a printf() when they saw it empty.          *)
LEMMA FilledStep ==
  ASSUME ConsoleCore, Filled, [ConsoleNext]_consoleVars
  PROVE  Filled'
  <1> DEFINE a == AboutToPrint
             writing == tx_busy \/ tx_lock # Nobody
             Bound(f, b, w) == f + b <= 3 /\ (~ w => f + b <= 2)
  <1>1. fifo \in Nat /\ a \in 0 .. 1 /\ Bound(fifo, a, writing)
    BY DEF ConsoleCore, Lines, Filled, NoOverrun, AboutToPrint
  <1>2. SUFFICES printing' \in BOOLEAN /\ Bound(fifo', a', writing')
    BY Zenon DEF Filled, NoOverrun
  <1>3. CASE DriverStep /\ UNCHANGED printing
    <2>1. printing' \in BOOLEAN /\ a' = a
      BY <1>3 DEF Filled, AboutToPrint
    <2>2. \/ fifo' = fifo /\ (writing' \/ ~ writing)
          \/ fifo' \in 0 .. 1
          \/ fifo' = fifo - 1 /\ (writing' \/ ~ writing)
          \/ fifo' = fifo + 1 /\ ~ writing /\ writing'
      <3>1. ASSUME NEW p \in Tty, NEW n \in Requests, ConsoleCall(p, n) PROVE UNCHANGED <<fifo, tx_busy, tx_lock>>
        BY <3>1, Zenon DEF ConsoleCall
      <3>2. ASSUME NEW p \in Tty, ConsoleEmpty(p) \/ Read(p) \/ ReadFault(p) \/ CopyIn(p) \/ ConsoleKill(p)
            PROVE  UNCHANGED <<fifo, tx_busy, tx_lock>>
        BY <3>2, Zenon DEF ConsoleEmpty, Read, ReadFault, CopyIn, ConsoleKill
      <3>3. ASSUME NEW p \in Tty, UartWrite(p)
            PROVE  \/ UNCHANGED <<fifo, tx_busy, tx_lock>>
                   \/ fifo' = fifo + 1 /\ ~ writing /\ writing'
        <4>1. p # Nobody
          BY ConsoleAssumption DEF Nobody
        <4> QED BY <3>3, <4>1, Zenon DEF UartWrite
      <3>4. ASSUME NEW p \in Tty, UartBusy(p) PROVE fifo' = fifo /\ writing'
        BY <3>4, Zenon DEF UartBusy
      <3>5. CASE Transmit
        BY <3>5, Zenon DEF Transmit
      <3>6. CASE Key \/ Claim \/ IntrDone
        BY <3>6, Zenon DEF Key, Claim, IntrDone
      <3>7. CASE IntrTx
        <4>1. CASE fifo = 0
          BY <3>7, <4>1 DEF IntrTx
        <4>2. CASE fifo # 0
          BY <3>7, <4>2, Zenon DEF IntrTx
        <4> QED BY <4>1, <4>2, Zenon
      <3>8. CASE IntrRx
        <4>1. (Echo \/ NoEcho) /\ UNCHANGED <<tx_busy, tx_lock>>
          BY <3>8, Zenon DEF IntrRx, consoleintr, KillLine, Backspace, Store
        <4>2. Echo => fifo' \in 0 .. 1
          BY DEF Echo
        <4> QED BY <4>1, <4>2, Zenon DEF NoEcho
      <3> QED BY <1>3, <3>1, <3>2, <3>3, <3>4, <3>5, <3>6, <3>7, <3>8, Zenon DEF DriverStep, TtyStep
    <2> HIDE DEF a, writing
    <2> QED BY <1>1, <2>1, <2>2
  <1>4. CASE PrintLook
    <2>1. fifo' = 0 /\ a' = 1 /\ printing' \in BOOLEAN
      BY <1>4 DEF PrintLook, AboutToPrint
    <2> HIDE DEF a, writing
    <2> QED BY <2>1
  <1>5. CASE PrintPut
    <2>1. fifo' = fifo + 1 /\ a = 1 /\ a' = 0 /\ printing' \in BOOLEAN /\ writing' = writing
      BY <1>5 DEF PrintPut, AboutToPrint
    <2> HIDE DEF a, writing
    <2> QED BY <1>1, <2>1
  <1>6. CASE UNCHANGED consoleVars
    <2>1. fifo' = fifo /\ a' = a /\ printing' \in BOOLEAN /\ writing' = writing
      BY <1>6 DEF consoleVars, AboutToPrint, Filled
    <2> HIDE DEF a, writing
    <2> QED BY <1>1, <2>1
  <1> QED BY <1>3, <1>4, <1>5, <1>6, Zenon DEF ConsoleNext

(* The empty console.                                                      *)
LEMMA ConsoleStart == ConsoleInit => ConsoleCore /\ Queue!QueueInit
  <1> SUFFICES ASSUME ConsoleInit PROVE ConsoleCore /\ Queue!QueueInit
    OBVIOUS
  <1>1. /\ cons \in [buf : Buffer, r : Counter, w : Counter, e : Counter]
        /\ cons.buf \in Buffer /\ cons.r = 0 /\ cons.w = 0 /\ cons.e = 0 /\ 0 \in Counter
    BY ConsoleSizes DEF ConsoleInit, Buffer, Char, Counter
  <1>2. Apart(0, 0) = 0 /\ Span(cons.buf, 0, 0) = << >>
    BY <1>1, SpanEmpty, Zenon
  <1>3. RingOK(cons)
    BY <1>1, <1>2, ConsoleSizes DEF RingOK
  <1>4. tty \in [Tty -> TtyCall] /\ Sleepers
    BY <1>1 DEF ConsoleInit, TtyCall, CallRecord, Place, Sleepers
  <1>5. Lines
    <2>1. fifo \in Nat
      BY DEF ConsoleInit
    <2> QED BY <2>1, Zenon DEF ConsoleInit, Lines
  <1>6. Queue!QueueInit
    BY <1>1, <1>2, Views, Zenon DEF Queue!QueueInit, DoneOf, EditOf
  <1> QED BY <1>3, <1>4, <1>5, <1>6, Zenon DEF ConsoleCore

(* The console's counters never cross, no reader sleeps on input that is   *)
(* there, a full ring can be read, the transmitter never holds more than   *)
(* one character each of uartwrite(), an echo and a printf(), and the line *)
(* being edited has no end in it, whatever the processes, the keys, the    *)
(* interrupts and kernel messages do, for any INPUT_BUF_SIZE and any UINT  *)
(* that it divides.                                                        *)
THEOREM ConsoleInvariant == ConsoleSpec => []ConsoleInv
  <1>1. ConsoleInit => ConsoleCore /\ Filled
    <2>1. ASSUME ConsoleInit PROVE Filled
      <3>1. printing \in BOOLEAN /\ AboutToPrint = 0
        BY <2>1, Zenon DEF ConsoleInit, AboutToPrint
      <3>2. fifo + AboutToPrint <= 3 /\ fifo + AboutToPrint <= 2
        BY <2>1, <3>1 DEF ConsoleInit
      <3> QED BY <3>1, <3>2, Zenon DEF Filled, NoOverrun
    <2> QED BY <2>1, ConsoleStart, Zenon
  <1>2. ConsoleCore /\ Filled /\ [ConsoleNext]_consoleVars => ConsoleCore' /\ Filled'
    BY ConsoleStep, FilledStep
  <1>3. ConsoleCore /\ Filled => ConsoleInv
    BY CoreIsInv
  <1> QED BY <1>1, <1>2, <1>3, PTL DEF ConsoleSpec

(* The ring and its wrapping counters implement the queue of lines.        *)
THEOREM ConsoleIsLineQueue == ConsoleSpec => LineQueueSpec
  <1>1. ConsoleInit => ConsoleCore /\ Queue!QueueInit
    BY ConsoleStart
  <1>2. ConsoleCore /\ [ConsoleNext]_consoleVars =>
          ConsoleCore' /\ [Queue!QueueNext]_<<Committed, Editing>>
    BY ConsoleStep
  <1> QED BY <1>1, <1>2, PTL DEF ConsoleSpec, LineQueueSpec, Queue!LineQueueSpec
=============================================================================
