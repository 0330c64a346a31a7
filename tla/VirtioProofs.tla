---------------------------- MODULE VirtioProofs -----------------------------
(***************************************************************************)
(* Proofs that virtio_disk_rw(), the device and virtio_disk_intr() neither *)
(* leak descriptors nor lose, repeat or mix up requests, for any number of *)
(* calls and any ring size that divides the wrap of the indices.           *)
(***************************************************************************)
EXTENDS VirtioDisk, Integers, FunctionTheorems, TLAPS

(* The sizes, without the division: it slows the provers down.             *)
LEMMA Sizes == NUM \in Nat \ {0} /\ UintSize \in Nat \ {0} /\ NUM < UintSize
  BY RingAssumption

(* Division with remainder.                                                *)
LEMMA DivMod ==
  \A m \in Nat \ {0}, n \in Nat :
     n % m \in 0 .. m - 1 /\ n \div m \in Nat /\ n = m * (n \div m) + (n % m)
  BY Z3

(* Numbers with the same remainder are no less than the divisor apart.     *)
LEMMA Multiple == \A m \in Nat \ {0}, d \in Int : d > 0 => m * d >= m
  BY Z3

(* The remainder of a number given as quotient and remainder.              *)
LEMMA ModIs ==
  \A m \in Nat \ {0}, q \in Nat, r \in Nat : r < m => (m * q + r) % m = r
  <1> SUFFICES ASSUME NEW m \in Nat \ {0}, NEW q \in Nat, NEW r \in Nat, r < m
               PROVE  (m * q + r) % m = r
    OBVIOUS
  <1> DEFINE n == m * q + r
             e == n \div m
             s == n % m
  <1>1. n \in Nat
    BY Z3
  <1>2. s \in 0 .. m - 1 /\ e \in Nat /\ n = m * e + s
    BY <1>1, DivMod, Zenon
  <1> SUFFICES s = r
    OBVIOUS
  <1>3. m * q + r = m * e + s
    BY <1>2
  <1> HIDE DEF n, e, s
  <1>4. s - r = m * (q - e) /\ r - s = m * (e - q)
    BY <1>2, <1>3
  <1>5. ~(q - e > 0) /\ ~(e - q > 0)
    BY <1>2, <1>4, Multiple
  <1>6. q - e = 0
    BY <1>2, <1>5
  <1> QED BY <1>2, <1>4, <1>6

(* idx and used_idx as unsigned 16-bit numbers, without the remainder.     *)
LEMMA Wraps ==
  /\ \A a, z \in Uint : Ahead(a, z) = IF a <= z THEN z - a ELSE z + UintSize - a
  /\ \A z \in Uint : Plus1(z) = IF z + 1 = UintSize THEN 0 ELSE z + 1
  <1>1. \A r \in Nat : r < UintSize => r % UintSize = r /\ (UintSize + r) % UintSize = r
    <2> SUFFICES ASSUME NEW r \in Nat, r < UintSize
                 PROVE  r % UintSize = r /\ (UintSize + r) % UintSize = r
      OBVIOUS
    <2>1. (UintSize * 0 + r) % UintSize = r /\ (UintSize * 1 + r) % UintSize = r
      BY Sizes, ModIs
    <2>2. UintSize * 0 + r = r /\ UintSize * 1 + r = UintSize + r
      BY Sizes
    <2> QED BY <2>1, <2>2
  <1>2. ASSUME NEW a \in Uint, NEW z \in Uint
        PROVE  Ahead(a, z) = IF a <= z THEN z - a ELSE z + UintSize - a
    <2>1. CASE a <= z
      <3>1. z - a \in Nat /\ z - a < UintSize /\ z + UintSize - a = UintSize + (z - a)
        BY <2>1, Sizes DEF Uint
      <3> QED BY <1>1, <2>1, <3>1 DEF Ahead
    <2>2. CASE ~(a <= z)
      <3>1. z + UintSize - a \in Nat /\ z + UintSize - a < UintSize
        BY <2>2, Sizes DEF Uint
      <3> QED BY <1>1, <2>2, <3>1 DEF Ahead
    <2> QED BY <2>1, <2>2
  <1>3. ASSUME NEW z \in Uint PROVE Plus1(z) = IF z + 1 = UintSize THEN 0 ELSE z + 1
    <2>1. CASE z + 1 = UintSize
      <3>1. UintSize + 0 = z + 1 /\ 0 \in Nat /\ 0 < UintSize
        BY <2>1, Sizes
      <3> QED BY <1>1, <2>1, <3>1 DEF Plus1
    <2>2. CASE z + 1 # UintSize
      <3>1. z + 1 \in Nat /\ z + 1 < UintSize
        BY <2>2, Sizes DEF Uint
      <3> QED BY <1>1, <2>2, <3>1 DEF Plus1
    <2> QED BY <2>1, <2>2
  <1> QED BY <1>2, <1>3

(* A ring entry's place does not change when its index wraps.              *)
LEMMA Period == \A n \in Nat : (n + UintSize) % NUM = n % NUM
  <1> SUFFICES ASSUME NEW n \in Nat PROVE (n + UintSize) % NUM = n % NUM
    OBVIOUS
  <1> DEFINE e == n \div NUM
             c == UintSize \div NUM
             r == n % NUM
  <1>1. NUM \in Nat \ {0} /\ UintSize \in Nat /\ UintSize % NUM = 0
    BY RingAssumption
  <1>2. r \in 0 .. NUM - 1 /\ e \in Nat /\ n = NUM * e + r /\ c \in Nat /\ UintSize = NUM * c + 0
    BY <1>1, DivMod
  <1> SUFFICES (n + UintSize) % NUM = r
    OBVIOUS
  <1> HIDE DEF e, c, r
  <1>3. n + UintSize = NUM * (e + c) + r /\ e + c \in Nat /\ r \in Nat /\ r < NUM
    BY <1>1, <1>2
  <1> QED BY <1>1, <1>3, ModIs, Zenon

(* Entries less than NUM apart do not share a place.                       *)
LEMMA PlacesDiffer ==
  \A n \in Nat, k \in Nat : 0 < k /\ k < NUM => (n + k) % NUM # n % NUM
  <1> SUFFICES ASSUME NEW n \in Nat, NEW k \in Nat, 0 < k, k < NUM, (n + k) % NUM = n % NUM
               PROVE  FALSE
    OBVIOUS
  <1> DEFINE d == (n + k) \div NUM
             e == n \div NUM
             r == n % NUM
  <1>1. d \in Nat /\ e \in Nat /\ r \in Nat /\ n + k = NUM * d + r /\ n = NUM * e + r
    <2>1. n + k \in Nat /\ NUM \in Nat \ {0}
      BY Sizes
    <2>2. d \in Nat /\ n + k = NUM * d + ((n + k) % NUM)
      BY <2>1, DivMod, Zenon
    <2>3. e \in Nat /\ r \in 0 .. NUM - 1 /\ n = NUM * e + r
      BY <2>1, DivMod, Zenon
    <2>4. (n + k) % NUM = r
      BY Zenon
    <2> HIDE DEF d, e, r
    <2> QED BY <2>1, <2>2, <2>3, <2>4
  <1> HIDE DEF d, e, r
  <1>2. k = NUM * (d - e)
    BY <1>1, Sizes
  <1>3. d - e > 0
    BY <1>1, <1>2, Sizes
  <1> QED BY <1>1, <1>2, <1>3, Multiple, Sizes

(* What the indices of a ring do: the places of the entries from a on.     *)
Place(a, n) == (a + n) % NUM

(* Places of the ring are descriptors, successive, and distinct within one *)
(* turn of it.                                                             *)
LEMMA Places ==
  /\ \A a \in Uint, n \in Nat : Place(a, n) \in Desc
  /\ \A a \in Uint, n \in Nat : Place(Plus1(a), n) = Place(a, n + 1)
  /\ \A a, z \in Uint : Place(a, Ahead(a, z)) = z % NUM
  /\ \A a \in Uint : Place(a, 0) = a % NUM
  /\ \A a \in Uint, m, n \in Nat : m < n /\ n - m < NUM => Place(a, m) # Place(a, n)
  <1>1. ASSUME NEW a \in Uint, NEW n \in Nat PROVE Place(a, n) \in Desc
    <2>1. a + n \in Nat
      BY Sizes DEF Uint
    <2> QED BY <2>1, DivMod, Sizes DEF Place, Desc
  <1>2. ASSUME NEW a \in Uint, NEW n \in Nat PROVE Place(Plus1(a), n) = Place(a, n + 1)
    <2>1. CASE a + 1 = UintSize
      <3>1. a + (n + 1) = n + UintSize /\ Plus1(a) + n = n
        BY <2>1, Wraps, Sizes DEF Uint
      <3> QED BY <3>1, Period DEF Place
    <2>2. CASE a + 1 # UintSize
      <3>1. a + (n + 1) = Plus1(a) + n
        BY <2>2, Wraps, Sizes DEF Uint
      <3> QED BY <3>1 DEF Place
    <2> QED BY <2>1, <2>2
  <1>3. ASSUME NEW a \in Uint, NEW z \in Uint PROVE Place(a, Ahead(a, z)) = z % NUM
    <2>1. z \in Nat /\ (a + Ahead(a, z) = z \/ a + Ahead(a, z) = z + UintSize)
      BY Wraps, Sizes DEF Uint
    <2> QED BY <2>1, Period DEF Place
  <1>4. ASSUME NEW a \in Uint PROVE Place(a, 0) = a % NUM
    <2>1. a + 0 = a
      BY Sizes DEF Uint
    <2> QED BY <2>1 DEF Place
  <1>5. ASSUME NEW a \in Uint, NEW m \in Nat, NEW n \in Nat, m < n, n - m < NUM
        PROVE  Place(a, m) # Place(a, n)
    <2>1. a + m \in Nat /\ n - m \in Nat /\ 0 < n - m /\ (a + m) + (n - m) = a + n
      BY <1>5, Sizes DEF Uint
    <2> QED BY <1>5, <2>1, PlacesDiffer, Zenon DEF Place
  <1> QED BY <1>1, <1>2, <1>3, <1>4, <1>5

(* Moving either end by one.                                               *)
LEMMA Steps ==
  /\ \A z \in Uint : Plus1(z) \in Uint
  /\ \A a, z \in Uint : Ahead(a, z) \in Nat /\ (a # z => Ahead(a, z) # 0) /\ Ahead(a, a) = 0
  /\ \A a, z \in Uint : Ahead(a, z) < NUM => Ahead(a, Plus1(z)) = Ahead(a, z) + 1
  /\ \A a, z \in Uint : a # z => Ahead(Plus1(a), z) = Ahead(a, z) - 1
  <1>1. ASSUME NEW z \in Uint PROVE Plus1(z) \in Uint
    BY Wraps, Sizes DEF Uint
  <1>2. ASSUME NEW a \in Uint, NEW z \in Uint
        PROVE  Ahead(a, z) \in Nat /\ (a # z => Ahead(a, z) # 0) /\ Ahead(a, a) = 0
    BY Wraps, Sizes DEF Uint
  <1>3. ASSUME NEW a \in Uint, NEW z \in Uint, Ahead(a, z) < NUM
        PROVE  Ahead(a, Plus1(z)) = Ahead(a, z) + 1
    <2> DEFINE y == Plus1(z)
    <2>1. y \in Uint /\ y = IF z + 1 = UintSize THEN 0 ELSE z + 1
      BY <1>1, Wraps, Zenon
    <2>2. Ahead(a, z) = IF a <= z THEN z - a ELSE z + UintSize - a
      BY Wraps, Zenon
    <2>3. Ahead(a, y) = IF a <= y THEN y - a ELSE y + UintSize - a
      BY <2>1, Wraps, Zenon
    <2> HIDE DEF y
    <2>4. Ahead(a, y) = Ahead(a, z) + 1
      BY <1>3, <2>1, <2>2, <2>3, Sizes DEF Uint
    <2> QED BY <2>4 DEF y
  <1>4. ASSUME NEW a \in Uint, NEW z \in Uint, a # z
        PROVE  Ahead(Plus1(a), z) = Ahead(a, z) - 1
    <2> DEFINE y == Plus1(a)
    <2>1. y \in Uint /\ y = IF a + 1 = UintSize THEN 0 ELSE a + 1
      BY <1>1, Wraps, Zenon
    <2>2. Ahead(a, z) = IF a <= z THEN z - a ELSE z + UintSize - a
      BY Wraps, Zenon
    <2>3. Ahead(y, z) = IF y <= z THEN z - y ELSE z + UintSize - y
      BY <2>1, Wraps, Zenon
    <2> HIDE DEF y
    <2>4. Ahead(y, z) = Ahead(a, z) - 1
      BY <1>4, <2>1, <2>2, <2>3, Sizes DEF Uint
    <2> QED BY <2>4 DEF y
  <1> QED BY <1>1, <1>2, <1>3, <1>4, Zenon

(* Adding an entry to a ring that has room.                                *)
LEMMA RingPush ==
  ASSUME NEW ring \in [Desc -> Desc], NEW a \in Uint, NEW z \in Uint, NEW x \in Desc,
         Ahead(a, z) < NUM, NoRepeats(ring, a, z), x \notin Between(ring, a, z)
  PROVE  LET new == [ring EXCEPT ![z % NUM] = x] IN
         /\ Between(new, a, Plus1(z)) = Between(ring, a, z) \cup {x}
         /\ NoRepeats(new, a, Plus1(z))
         /\ Plus1(z) \in Uint /\ new \in [Desc -> Desc]
  <1> DEFINE d == Ahead(a, z)
             p == z % NUM
             new == [ring EXCEPT ![p] = x]
  <1>1. d \in Nat /\ Ahead(a, Plus1(z)) = d + 1 /\ Plus1(z) \in Uint
    BY Steps, Zenon
  <1>2. p = Place(a, d) /\ p \in Desc
    BY <1>1, Places
  <1>3. \A n \in 0 .. d - 1 : Place(a, n) # p /\ Place(a, n) \in Desc
    BY <1>1, <1>2, Places, Sizes
  <1> HIDE DEF d, p
  <1>4. new \in [Desc -> Desc] /\ new[p] = x /\ \A i \in Desc \ {p} : new[i] = ring[i]
    BY <1>2
  <1> HIDE DEF new
  <1>5. Entry(new, a, d) = x /\ \A n \in 0 .. d - 1 : Entry(new, a, n) = Entry(ring, a, n)
    BY <1>2, <1>3, <1>4, Zenon DEF Entry, Place
  <1>6. \A n : n \in 0 .. (d + 1) - 1 <=> n \in 0 .. d - 1 \/ n = d
    BY <1>1
  <1>7. \A n \in 0 .. d - 1 : Entry(ring, a, n) # x
    BY Zenon DEF Between, d
  <1>8. Between(new, a, Plus1(z)) = Between(ring, a, z) \cup {x}
    BY <1>1, <1>5, <1>6, Zenon DEF Between, d
  <1>9. NoRepeats(new, a, Plus1(z))
    BY <1>1, <1>5, <1>6, <1>7, Zenon DEF NoRepeats, d
  <1> QED BY <1>1, <1>4, <1>8, <1>9, Zenon DEF new, p

(* Taking the first entry out of one.                                      *)
LEMMA RingPop ==
  ASSUME NEW ring \in [Desc -> Desc], NEW a \in Uint, NEW z \in Uint,
         a # z, Ahead(a, z) <= NUM, NoRepeats(ring, a, z)
  PROVE  LET new == [ring EXCEPT ![a % NUM] = 0]
             x == ring[a % NUM] IN
         /\ x \in Between(ring, a, z)
         /\ Between(new, Plus1(a), z) = Between(ring, a, z) \ {x}
         /\ NoRepeats(new, Plus1(a), z)
         /\ Plus1(a) \in Uint /\ new \in [Desc -> Desc]
  <1> DEFINE d == Ahead(a, z)
             p == a % NUM
             new == [ring EXCEPT ![p] = 0]
             x == ring[p]
  <1>1. d \in Nat \ {0} /\ Ahead(Plus1(a), z) = d - 1 /\ Plus1(a) \in Uint
    BY Steps, Zenon
  <1>2. p = Place(a, 0) /\ p \in Desc /\ 0 \in Desc
    BY Places, Sizes DEF Desc
  <1>3. \A n \in 0 .. d - 1 - 1 : /\ n + 1 \in 0 .. d - 1 /\ n + 1 \in Nat /\ n \in Nat
                                  /\ Place(a, n + 1) # p /\ Place(a, n + 1) \in Desc
                                  /\ Place(Plus1(a), n) = Place(a, n + 1)
    <2> SUFFICES ASSUME NEW n \in 0 .. d - 1 - 1
                 PROVE  /\ n + 1 \in 0 .. d - 1 /\ n + 1 \in Nat /\ n \in Nat
                        /\ Place(a, n + 1) # p /\ Place(a, n + 1) \in Desc
                        /\ Place(Plus1(a), n) = Place(a, n + 1)
      OBVIOUS
    <2>1. n + 1 \in 0 .. d - 1 /\ n + 1 \in Nat /\ n \in Nat /\ 0 < n + 1 /\ (n + 1) - 0 < NUM
      BY <1>1, Sizes
    <2> HIDE DEF d, p
    <2> QED BY <1>2, <2>1, Places
  <1>4. d <= NUM
    OBVIOUS
  <1> HIDE DEF d, p
  <1>5. new \in [Desc -> Desc] /\ \A i \in Desc \ {p} : new[i] = ring[i]
    BY <1>2
  <1> HIDE DEF new
  <1>6. Entry(ring, a, 0) = x /\ 0 \in 0 .. d - 1
    BY <1>1, <1>2 DEF Entry, Place
  <1>7. \A n \in 0 .. d - 1 - 1 : Entry(new, Plus1(a), n) = Entry(ring, a, n + 1)
    BY <1>3, <1>5, Zenon DEF Entry, Place
  <1>8. \A n \in 0 .. d - 1 : n = 0 \/ \E m \in 0 .. d - 1 - 1 : n = m + 1
    <2> SUFFICES ASSUME NEW n \in 0 .. d - 1, n # 0 PROVE \E m \in 0 .. d - 1 - 1 : n = m + 1
      OBVIOUS
    <2>1. n - 1 \in 0 .. d - 1 - 1 /\ n = (n - 1) + 1
      BY <1>1
    <2> QED BY <2>1
  <1>9. \A n \in 0 .. d - 1 - 1 : n + 1 # 0 /\ \A m \in 0 .. d - 1 - 1 : m + 1 = n + 1 => m = n
    BY <1>1
  <1>10. x \in Between(ring, a, z)
    BY <1>6, Zenon DEF Between, d
  <1> HIDE DEF x
  <1>11. \A n \in 0 .. d - 1 - 1 : Entry(ring, a, n + 1) # x
    BY <1>3, <1>6, <1>9, Zenon DEF NoRepeats, d
  <1>12. Between(new, Plus1(a), z) \subseteq Between(ring, a, z) \ {x}
    BY <1>1, <1>3, <1>7, <1>11, Zenon DEF Between, d
  <1>13. Between(ring, a, z) \ {x} \subseteq Between(new, Plus1(a), z)
    <2> SUFFICES ASSUME NEW y \in Between(ring, a, z), y # x
                 PROVE  y \in Between(new, Plus1(a), z)
      OBVIOUS
    <2>1. PICK n \in 0 .. d - 1 : y = Entry(ring, a, n)
      BY Zenon DEF Between, d
    <2>2. n # 0
      BY <1>6, <2>1
    <2>3. PICK m \in 0 .. d - 1 - 1 : n = m + 1
      BY <1>8, <2>2, Zenon
    <2>4. y = Entry(new, Plus1(a), m)
      BY <1>7, <2>1, <2>3, Zenon
    <2> QED BY <1>1, <2>4, Zenon DEF Between
  <1>14. NoRepeats(new, Plus1(a), z)
    <2> SUFFICES ASSUME NEW m \in 0 .. d - 1 - 1, NEW n \in 0 .. d - 1 - 1,
                        Entry(new, Plus1(a), m) = Entry(new, Plus1(a), n)
                 PROVE  m = n
      BY <1>1, Zenon DEF NoRepeats
    <2>1. Entry(ring, a, m + 1) = Entry(ring, a, n + 1)
      BY <1>7, Zenon
    <2>2. m + 1 = n + 1
      BY <1>3, <2>1, Zenon DEF NoRepeats, d
    <2> QED BY <1>9, <2>2, Zenon
  <1>15. Between(new, Plus1(a), z) = Between(ring, a, z) \ {x}
    BY <1>12, <1>13, Zenon
  <1> QED BY <1>1, <1>5, <1>10, <1>14, <1>15, Zenon DEF new, p, x


-----------------------------------------------------------------------------
(* The inductive invariant: what the disk run checks, together.            *)
DiskInv == DescsAccountedFor /\ RequestTracked

(* A descriptor that is not free belongs to a call in progress.            *)
Covered == \A d \in Desc \ free : \E b \in Issued : d \in Chain(idx0[b])

(* The requests that have come back are done.                              *)
BackDone == \A i \in Back : status[i]

(* Calls in progress have distinct heads, in use.                          *)
LEMMA HeadsApart ==
  DescsAccountedFor =>
    /\ \A b \in Issued : /\ b \in IoBuf /\ idx0[b] \in Desc /\ idx0[b] \notin free
                         /\ next[idx0[b]] \in Desc \ free /\ next[next[idx0[b]]] \in Desc \ free
    /\ \A b, c \in Issued : b # c => idx0[b] # idx0[c]
  <1> SUFFICES ASSUME DescsAccountedFor
               PROVE  /\ \A b \in Issued : /\ b \in IoBuf /\ idx0[b] \in Desc /\ idx0[b] \notin free
                                           /\ next[idx0[b]] \in Desc \ free
                                           /\ next[next[idx0[b]]] \in Desc \ free
                      /\ \A b, c \in Issued : b # c => idx0[b] # idx0[c]
    OBVIOUS
  <1>1. \A b \in Issued : Chain(idx0[b]) \subseteq Desc \ free
    BY DEF DescsAccountedFor
  <1>2. \A b, c \in Issued : b # c => Chain(idx0[b]) \cap Chain(idx0[c]) = {}
    BY DEF DescsAccountedFor
  <1>3. \A b \in Issued : b \in IoBuf
    BY Zenon DEF Issued
  <1>4. \A i : i \in Chain(i) /\ next[i] \in Chain(i) /\ next[next[i]] \in Chain(i)
    BY Zenon DEF Chain
  <1>5. \A b, c \in Issued : b # c => idx0[b] # idx0[c]
    BY <1>2, <1>4
  <1> QED BY <1>1, <1>3, <1>4, <1>5

(* virtio_disk_intr() and the device find, from the head of a chain, the   *)
(* call it is for.                                                         *)
LEMMA HeadIs ==
  DescsAccountedFor /\ ChainDescribesCall /\ SleepersHaveReason =>
    \A i \in Heads :
      /\ i \in Desc /\ info[i] \in Issued /\ busy[info[i]] /\ idx0[info[i]] = i
      /\ addr[next[i]] = info[i] /\ write[next[i]] = rw[info[i]]
  <1> SUFFICES ASSUME DescsAccountedFor, ChainDescribesCall, SleepersHaveReason, NEW i \in Heads
               PROVE  /\ i \in Desc /\ info[i] \in Issued /\ busy[info[i]] /\ idx0[info[i]] = i
                      /\ addr[next[i]] = info[i] /\ write[next[i]] = rw[info[i]]
    OBVIOUS
  <1>1. PICK b \in IoBuf : busy[b] /\ i = idx0[b]
    BY Zenon DEF Heads
  <1>2. b \in Issued
    BY <1>1, Zenon DEF SleepersHaveReason
  <1>3. info[i] = b /\ addr[next[i]] = b /\ write[next[i]] = rw[b]
    BY <1>1, <1>2, Zenon DEF ChainDescribesCall
  <1>4. i \in Desc
    BY <1>1, <1>2, HeadsApart, Zenon
  <1> QED BY <1>1, <1>2, <1>3, <1>4, Zenon

(* So only the status byte is left to say of what comes back.              *)
LEMMA OursIfDone ==
  /\ DescsAccountedFor /\ ChainDescribesCall /\ SleepersHaveReason /\ InOnePlace => Back \subseteq Heads
  /\ DescsAccountedFor /\ ChainDescribesCall /\ SleepersHaveReason /\ InOnePlace /\ BackDone
       => CompletionIsOurs
  /\ CompletionIsOurs => BackDone
  <1>1. InOnePlace => Back \subseteq Heads
    BY Zenon DEF InOnePlace
  <1>2. DescsAccountedFor /\ ChainDescribesCall /\ SleepersHaveReason /\ InOnePlace /\ BackDone
          => CompletionIsOurs
    <2> SUFFICES ASSUME DescsAccountedFor, ChainDescribesCall, SleepersHaveReason, InOnePlace, BackDone,
                        NEW i \in Back
                 PROVE  status[i] /\ info[i] \in Issued /\ idx0[info[i]] = i /\ busy[info[i]]
      BY DEF CompletionIsOurs
    <2>1. i \in Heads
      BY <1>1
    <2>2. status[i]
      BY Zenon DEF BackDone
    <2> QED BY <2>1, <2>2, HeadIs, Zenon
  <1>3. CompletionIsOurs => BackDone
    BY Zenon DEF CompletionIsOurs, BackDone
  <1> QED BY <1>1, <1>2, <1>3

(* The parts of the invariant, for the steps below.                        *)
LEMMA DiskParts ==
  /\ DiskInv =>
       /\ DiskTypeOK /\ DescsAccountedFor /\ ChainDescribesCall /\ SleepersHaveReason
       /\ InOnePlace /\ BackDone /\ CompletionNoticed /\ DataMoves
  /\ /\ DescsAccountedFor /\ ChainDescribesCall /\ SleepersHaveReason
     /\ InOnePlace /\ BackDone /\ CompletionNoticed /\ DataMoves
     => DiskInv
  BY OursIfDone, Zenon DEF DiskInv, DescsAccountedFor, RequestTracked

(* A step that touches no descriptor and no call.                          *)
LEMMA ChainsSame ==
  ASSUME DescsAccountedFor, DiskTypeOK', UNCHANGED <<free, next, idx0>>, Issued' = Issued
  PROVE  DescsAccountedFor'
  <1>1. Chain(0)' = Chain(0) /\ \A i : Chain(i)' = Chain(i)
    BY DEF Chain
  <1> QED BY <1>1, Zenon DEF DescsAccountedFor, Chain

(* A step that touches no chain leaves every chain describing its call.    *)
LEMMA CallsSame ==
  ASSUME ChainDescribesCall, UNCHANGED <<next, idx0, addr, write, info>>, Issued' = Issued,
         \A b \in Issued : rw'[b] = rw[b]
  PROVE  ChainDescribesCall'
  BY Zenon DEF ChainDescribesCall

(* A step that touches no ring leaves the entries in flight as they are.   *)
LEMMA RingsSame ==
  ASSUME UNCHANGED <<avail, availidx, devidx, used, usedidx, used_idx>>
  PROVE  Sent' = Sent /\ Back' = Back
  BY DEF Sent, Back, Between, Entry

(* A step that touches neither ring nor heads leaves every chain in one    *)
(* place.                                                                  *)
LEMMA InPlaceSame ==
  ASSUME InOnePlace, UNCHANGED <<avail, availidx, devidx, used, usedidx, used_idx, fetched>>,
         Heads' = Heads
  PROVE  InOnePlace'
  <1>1. Sent' = Sent /\ Back' = Back
    BY RingsSame
  <1>2. NoRepeats(avail, devidx, availidx)' /\ NoRepeats(used, used_idx, usedidx)'
    BY DEF InOnePlace, NoRepeats, Entry
  <1> QED BY <1>1, <1>2 DEF InOnePlace

-----------------------------------------------------------------------------

(* A place where virtio_disk_rw() waits stays one when it is woken.        *)
LEMMA SameCalls ==
  ASSUME DiskTypeOK, \A b \in IoBuf : rwpc'[b] \in {"wait", "woken"} <=> rwpc[b] \in {"wait", "woken"}
  PROVE  Issued' = Issued
  BY Zenon DEF Issued

(* A step that touches no descriptor, ring or data: it moves calls between *)
(* places or handles the interrupt line.                                   *)
LEMMA QuietStep ==
  ASSUME DiskInv, UNCHANGED <<drivervars, rings, used_idx, busy, bdata>>,
         UNCHANGED <<status, usedidx, platter, fetched, devidx>>,
         handler' \in {"off", "loop"}, raising' \in BOOLEAN, intr' \in BOOLEAN,
         rwpc' \in [IoBuf -> RwPlaces], CompletionNoticed',
         \A b \in IoBuf : /\ rwpc'[b] \in {"wait", "woken"} <=> rwpc[b] \in {"wait", "woken"}
                          /\ rwpc'[b] \in {"alloc", "nodesc"} <=> rwpc[b] \in {"alloc", "nodesc"}
                          /\ rwpc'[b] = "nodesc" => Short(free)
                          /\ rwpc'[b] = "wait" => busy[b]
  PROVE  DiskInv'
  <1>1. /\ DiskTypeOK /\ DescsAccountedFor /\ ChainDescribesCall /\ SleepersHaveReason
        /\ InOnePlace /\ BackDone /\ DataMoves
    BY DiskParts, Zenon
  <1>2. /\ UNCHANGED <<free, next, addr, write, info, availidx, rw, idx0>>
        /\ UNCHANGED <<avail, used, used_idx, busy, bdata>>
    BY DEF drivervars, rings
  <1>3. Issued' = Issued
    BY <1>1, SameCalls
  <1>4. Heads' = Heads
    BY <1>2 DEF Heads
  <1>5. DiskTypeOK'
    BY <1>1, <1>2 DEF DiskTypeOK
  <1>6. DescsAccountedFor'
    BY <1>1, <1>2, <1>3, <1>5, ChainsSame
  <1>7. ChainDescribesCall'
    BY <1>1, <1>2, <1>3, CallsSame
  <1>8. InOnePlace'
    BY <1>1, <1>2, <1>4, InPlaceSame
  <1>9. Back' = Back
    BY <1>2, RingsSame
  <1>10. BackDone'
    BY <1>1, <1>9 DEF BackDone
  <1>11. SleepersHaveReason'
    BY <1>1, <1>2, <1>3, Zenon DEF SleepersHaveReason
  <1>12. DataMoves'
    BY <1>1, <1>2, <1>3, <1>9, Zenon DEF DataMoves, Transferred
  <1> QED BY <1>6, <1>7, <1>8, <1>10, <1>11, <1>12, DiskParts, PTL

(* virtio_disk_rw() is called.                                             *)
LEMMA CallStep ==
  ASSUME DiskInv, NEW b \in IoBuf, NEW w \in BOOLEAN, Call(b, w)
  PROVE  DiskInv'
  <1>1. /\ DiskTypeOK /\ DescsAccountedFor /\ ChainDescribesCall /\ SleepersHaveReason
        /\ InOnePlace /\ BackDone /\ CompletionNoticed /\ DataMoves
    BY DiskParts, Zenon
  <1>2. /\ UNCHANGED <<free, next, addr, write, info, availidx, idx0>>
        /\ UNCHANGED <<status, usedidx, fetched, devidx, raising>>
        /\ UNCHANGED <<avail, used, used_idx, busy, handler, intr>>
    BY DEF Call, rings
  <1>3. /\ rwpc[b] = "out" /\ rwpc'[b] = "alloc" /\ bdata'[b] = "new" /\ platter'[b] = "old"
        /\ \A c \in IoBuf \ {b} : /\ rwpc'[c] = rwpc[c] /\ rw'[c] = rw[c]
                                  /\ bdata'[c] = bdata[c] /\ platter'[c] = platter[c]
    BY <1>1 DEF Call, DiskTypeOK
  <1>4. DiskTypeOK'
    BY <1>1, <1>2 DEF DiskTypeOK, Call, RwPlaces
  <1>5. Issued' = Issued /\ b \notin Issued /\ Issued \subseteq IoBuf
    BY <1>1, <1>3, SameCalls DEF Issued
  <1>6. Heads' = Heads
    BY <1>2 DEF Heads
  <1>7. DescsAccountedFor'
    BY <1>1, <1>2, <1>4, <1>5, ChainsSame
  <1>8. \A c \in Issued : rw'[c] = rw[c]
    BY <1>3, <1>5
  <1>9. ChainDescribesCall'
    BY <1>1, <1>2, <1>5, <1>8, CallsSame
  <1>10. InOnePlace'
    BY <1>1, <1>2, <1>6, InPlaceSame
  <1>11. Back' = Back
    BY <1>2, RingsSame
  <1>12. BackDone'
    BY <1>1, <1>2, <1>11 DEF BackDone
  <1>13. CompletionNoticed'
    BY <1>1, <1>2 DEF CompletionNoticed
  <1>14. SleepersHaveReason'
    <2>1. ~busy[b]
      BY <1>1, <1>5, SMTT(20) DEF SleepersHaveReason
    <2> QED BY <1>1, <1>2, <1>3, <1>5, <2>1 DEF SleepersHaveReason
  <1>15. DataMoves'
    <2>1. ~busy[b]
      BY <1>1, <1>5 DEF SleepersHaveReason
    <2> QED BY <1>1, <1>2, <1>3, <1>5, <1>11, <2>1 DEF DataMoves, Transferred
  <1> QED BY <1>7, <1>9, <1>10, <1>12, <1>13, <1>14, <1>15, DiskParts, PTL

(* Sleeping for descriptors, sleeping again, being woken by kill(), the    *)
(* acknowledgement, the handler's end, the interrupt itself, and nothing.  *)
LEMMA QuietSteps ==
  ASSUME DiskInv,
         \/ \E b \in IoBuf : NoDesc(b) \/ SleepAgain(b) \/ Kill(b)
         \/ IntrAck \/ IntrEnd \/ DeviceRaise \/ UNCHANGED diskvars
  PROVE  DiskInv'
  <1>1. DiskTypeOK /\ SleepersHaveReason /\ CompletionNoticed
    BY DiskParts, Zenon
  <1>2. /\ rwpc \in [IoBuf -> RwPlaces]
        /\ handler \in {"off", "loop"} /\ raising \in BOOLEAN /\ intr \in BOOLEAN
    BY <1>1 DEF DiskTypeOK
  <1>3. \A c \in IoBuf : /\ rwpc[c] = "nodesc" => Short(free)
                         /\ rwpc[c] = "wait" => busy[c]
    BY <1>1 DEF SleepersHaveReason
  <1> DEFINE Same == /\ UNCHANGED <<drivervars, rings, used_idx, busy, bdata>>
                     /\ UNCHANGED <<status, usedidx, platter, fetched, devidx>>
             Line == /\ handler' \in {"off", "loop"} /\ raising' \in BOOLEAN /\ intr' \in BOOLEAN
                     /\ CompletionNoticed'
             Moves ==
               /\ rwpc' \in [IoBuf -> RwPlaces]
               /\ \A c \in IoBuf :
                    /\ rwpc'[c] \in {"wait", "woken"} <=> rwpc[c] \in {"wait", "woken"}
                    /\ rwpc'[c] \in {"alloc", "nodesc"} <=> rwpc[c] \in {"alloc", "nodesc"}
                    /\ rwpc'[c] = "nodesc" => Short(free)
                    /\ rwpc'[c] = "wait" => busy[c]
  <1>4. Same
    BY DEF NoDesc, SleepAgain, Kill, IntrAck, IntrEnd, DeviceRaise, diskvars, devicevars
  <1>5. Line
    BY <1>1, <1>2, Zenon DEF NoDesc, SleepAgain, Kill, IntrAck, IntrEnd, DeviceRaise, diskvars,
                             devicevars, CompletionNoticed
  <1>6. Moves
    <2>1. ASSUME NEW b \in IoBuf, NoDesc(b) PROVE Moves
      <3>1. CASE free = {}
        <4>1. rwpc' = [rwpc EXCEPT ![b] = "nodesc"] /\ rwpc[b] = "alloc" /\ Short(free)
          BY <2>1, <3>1 DEF NoDesc
        <4> QED BY <1>2, <1>3, <4>1 DEF RwPlaces
      <3>2. CASE free # {}
        <4>1. rwpc' = [WakeNoDesc(rwpc) EXCEPT ![b] = "nodesc"] /\ rwpc[b] = "alloc" /\ Short(free)
          BY <2>1, <3>2 DEF NoDesc
        <4> QED BY <1>2, <1>3, <4>1 DEF RwPlaces, WakeNoDesc
      <3> QED BY <3>1, <3>2
    <2>2. ASSUME NEW b \in IoBuf, SleepAgain(b) \/ Kill(b) PROVE Moves
      BY <1>2, <1>3, <2>2 DEF SleepAgain, Kill, RwPlaces
    <2>3. CASE rwpc' = rwpc
      BY <1>2, <1>3, <2>3
    <2> HIDE DEF Moves
    <2> QED BY <2>1, <2>2, <2>3 DEF IntrAck, IntrEnd, DeviceRaise, diskvars
  <1> QED BY <1>4, <1>5, <1>6, QuietStep, Zenon

-----------------------------------------------------------------------------
(* alloc3_desc() succeeds and the request is put in the avail ring.        *)
LEMMA IssueStep ==
  ASSUME DiskInv, NEW b \in IoBuf, Issue(b),
         Ahead(devidx, availidx) < NUM
  PROVE  DiskInv'
  <1>1. /\ DiskTypeOK /\ DescsAccountedFor /\ ChainDescribesCall /\ SleepersHaveReason
        /\ InOnePlace /\ BackDone /\ CompletionNoticed /\ DataMoves
    BY DiskParts, Zenon
  <1>2. PICK i \in Desc, j \in Desc, k \in Desc :
           Alloc3(i, j, k) /\ Submit(b, i, j, k) /\ info' = [info EXCEPT ![i] = b]
    BY Zenon DEF Issue
  <1>3. i \in free /\ j \in free /\ k \in free /\ i # j /\ i # k /\ j # k
    BY <1>2, Sizes DEF Alloc3, Desc
  <1>4. /\ UNCHANGED <<rw, used, usedidx, platter, fetched, devidx, raising, used_idx, handler, bdata, intr>>
        /\ free' = free \ {i, j, k} /\ availidx' = Plus1(availidx)
        /\ avail' = [avail EXCEPT ![availidx % NUM] = i]
    BY <1>2 DEF Submit
  <1>5. /\ next' = [next EXCEPT ![i] = j, ![j] = k, ![k] = NoNext]
        /\ addr' = [addr EXCEPT ![j] = b]
        /\ write' = [write EXCEPT ![j] = rw[b]]
        /\ info' = [info EXCEPT ![i] = b]
        /\ status' = [status EXCEPT ![i] = FALSE]
    BY <1>2 DEF Submit
  <1>6. /\ idx0' = [idx0 EXCEPT ![b] = i] /\ busy' = [busy EXCEPT ![b] = TRUE]
        /\ rwpc' = [rwpc EXCEPT ![b] = "wait"] /\ rwpc[b] = "alloc"
    BY <1>2, Zenon DEF Submit, Issue
  <1>7. /\ next \in [Desc -> Desc \cup {NoNext}] /\ addr \in [Desc -> IoBuf \cup {NoBuf}]
        /\ write \in [Desc -> BOOLEAN] /\ info \in [Desc -> IoBuf \cup {NoBuf}]
        /\ status \in [Desc -> BOOLEAN] /\ avail \in [Desc -> Desc] /\ availidx \in Uint
        /\ devidx \in Uint /\ free \in SUBSET Desc
        /\ rw \in [IoBuf -> BOOLEAN] /\ busy \in [IoBuf -> BOOLEAN] /\ idx0 \in [IoBuf -> Desc]
        /\ rwpc \in [IoBuf -> RwPlaces]
    BY <1>1 DEF DiskTypeOK
  <1>8. /\ next'[i] = j /\ next'[j] = k /\ addr'[j] = b /\ write'[j] = rw[b] /\ info'[i] = b
        /\ \A d \in Desc \ free : /\ next'[d] = next[d] /\ addr'[d] = addr[d] /\ write'[d] = write[d]
                                  /\ info'[d] = info[d] /\ status'[d] = status[d]
    BY <1>3, <1>5, <1>7, Zenon
  <1>9. /\ idx0'[b] = i /\ busy'[b] /\ rwpc'[b] = "wait"
        /\ \A c \in IoBuf \ {b} : idx0'[c] = idx0[c] /\ busy'[c] = busy[c] /\ rwpc'[c] = rwpc[c]
    BY <1>6, <1>7
  <1>10. Issued' = Issued \cup {b} /\ b \notin Issued /\ Issued \subseteq IoBuf
    BY <1>6, <1>9, SMTT(20) DEF Issued
  <1>11. \A c \in Issued : /\ c # b /\ c \in IoBuf /\ idx0'[c] = idx0[c] /\ idx0[c] \in Desc \ free
                           /\ next[idx0[c]] \in Desc \ free /\ next[next[idx0[c]]] \in Desc \ free
                           /\ next'[idx0[c]] = next[idx0[c]]
                           /\ next'[next[idx0[c]]] = next[next[idx0[c]]]
    BY <1>1, <1>8, <1>9, <1>10, HeadsApart
  <1>12. ~busy[b] /\ \A c \in IoBuf : busy[c] => c \in Issued
    BY <1>1, <1>10, Zenon DEF SleepersHaveReason
  <1>13. Heads' = Heads \cup {i}
    BY <1>9, <1>12 DEF Heads
  <1>14. i \notin Heads
    BY <1>3, <1>11, <1>12, Zenon DEF Heads
  <1>15. Heads = Sent \cup fetched \cup Back /\ Sent \subseteq Heads /\ fetched \subseteq Heads /\ Back \subseteq Heads
    BY <1>1, Zenon DEF InOnePlace
  <1>16. Sent' = Sent \cup {i} /\ NoRepeats(avail', devidx, availidx') /\ availidx' \in Uint /\ avail' \in [Desc -> Desc]
    <2>1. NoRepeats(avail, devidx, availidx) /\ i \notin Between(avail, devidx, availidx)
      BY <1>1, <1>14, <1>15, Zenon DEF InOnePlace, Sent
    <2>3. LET new == [avail EXCEPT ![availidx % NUM] = i] IN
            /\ Between(new, devidx, Plus1(availidx)) = Between(avail, devidx, availidx) \cup {i}
            /\ NoRepeats(new, devidx, Plus1(availidx))
            /\ Plus1(availidx) \in Uint /\ new \in [Desc -> Desc]
      BY <1>7, <2>1, RingPush, Zenon
    <2> QED BY <1>4, <2>3, Zenon DEF Sent
  <1>17. Back' = Back
    BY <1>4 DEF Back, Between, Entry
  <1>18. DiskTypeOK'
    <2>1. /\ next' \in [Desc -> Desc \cup {NoNext}] /\ addr' \in [Desc -> IoBuf \cup {NoBuf}]
          /\ write' \in [Desc -> BOOLEAN] /\ info' \in [Desc -> IoBuf \cup {NoBuf}]
          /\ status' \in [Desc -> BOOLEAN] /\ free' \in SUBSET Desc
      BY <1>4, <1>5, <1>7
    <2>2. /\ busy' \in [IoBuf -> BOOLEAN] /\ idx0' \in [IoBuf -> Desc]
          /\ rwpc' \in [IoBuf -> RwPlaces]
      BY <1>6, <1>7 DEF RwPlaces
    <2> QED BY <1>1, <1>4, <1>16, <2>1, <2>2 DEF DiskTypeOK
  <1>19. DescsAccountedFor'
    <2>2. \A c \in Issued : Chain(idx0[c])' = Chain(idx0[c])
      BY <1>11 DEF Chain
    <2>3. Chain(idx0[b])' = {i, j, k}
      BY <1>8, <1>9 DEF Chain
    <2>4. {i, j, k} \subseteq Desc \ free'
      BY <1>3, <1>4
    <2>5. \A c \in Issued :
            /\ Chain(idx0[c]) \subseteq Desc \ free
            /\ LET h == idx0[c] IN h # next[h] /\ h # next[next[h]] /\ next[h] # next[next[h]]
            /\ \A d \in Issued : c # d => Chain(idx0[c]) \cap Chain(idx0[d]) = {}
      BY <1>1, Zenon DEF DescsAccountedFor
    <2>6. \A c \in Issued : Chain(idx0[c])' \subseteq Desc \ free' /\ Chain(idx0[c])' \cap {i, j, k} = {}
      BY <1>3, <1>4, <2>2, <2>5
    <2>7. \A c \in Issued' :
            /\ Chain(idx0[c])' \subseteq Desc \ free'
            /\ LET h == idx0'[c] IN h # next'[h] /\ h # next'[next'[h]] /\ next'[h] # next'[next'[h]]
      <3> SUFFICES ASSUME NEW c \in Issued'
                   PROVE /\ Chain(idx0[c])' \subseteq Desc \ free'
                         /\ LET h == idx0'[c] IN h # next'[h] /\ h # next'[next'[h]] /\ next'[h] # next'[next'[h]]
        OBVIOUS
      <3>1. CASE c = b
        BY <1>3, <1>8, <1>9, <2>3, <2>4, <3>1
      <3>2. CASE c \in Issued
        BY <1>11, <2>5, <2>6, <3>2
      <3> QED BY <1>10, <3>1, <3>2
    <2>8. \A c, d \in Issued' : c # d => Chain(idx0[c])' \cap Chain(idx0[d])' = {}
      BY <1>10, <2>2, <2>3, <2>5, <2>6
    <2>9. Covered'
      <3> SUFFICES ASSUME NEW d \in Desc \ free' PROVE \E c \in Issued' : d \in Chain(idx0[c])'
        BY Zenon DEF Covered
      <3>1. CASE d \in {i, j, k}
        BY <1>10, <2>3, <3>1
      <3>2. CASE d \in Desc \ free
        <4>1. PICK c \in Issued : d \in Chain(idx0[c])
          BY <1>1, <3>2, Zenon DEF DescsAccountedFor
        <4> QED BY <1>10, <2>2, <4>1
      <3> QED BY <1>4, <3>1, <3>2
    <2> QED BY <1>18, <2>7, <2>8, <2>9 DEF DescsAccountedFor, Covered
  <1>20. ChainDescribesCall'
    <2>1. \A c \in Issued : info[idx0[c]] = c /\ addr[next[idx0[c]]] = c /\ write[next[idx0[c]]] = rw[c]
      BY <1>1, Zenon DEF ChainDescribesCall
    <2>2. \A c \in Issued : info'[idx0'[c]] = c /\ addr'[next'[idx0'[c]]] = c /\ write'[next'[idx0'[c]]] = rw'[c]
      BY <1>4, <1>8, <1>11, <2>1
    <2>3. info'[idx0'[b]] = b /\ addr'[next'[idx0'[b]]] = b /\ write'[next'[idx0'[b]]] = rw'[b]
      BY <1>4, <1>8, <1>9
    <2> QED BY <1>10, <2>2, <2>3, Zenon DEF ChainDescribesCall
  <1>21. InOnePlace'
    <2>1. /\ Sent \cap fetched = {} /\ Sent \cap Back = {} /\ fetched \cap Back = {}
          /\ NoRepeats(used, used_idx, usedidx)
      BY <1>1 DEF InOnePlace
    <2>2. NoRepeats(used, used_idx, usedidx)'
      BY <1>4, <2>1 DEF NoRepeats, Entry
    <2>3. NoRepeats(avail, devidx, availidx)'
      BY <1>4, <1>16 DEF NoRepeats, Entry
    <2>4. fetched' = fetched
      BY <1>4
    <2>5. Sent' \cup fetched' \cup Back' = Heads'
      BY <1>13, <1>15, <1>16, <1>17, <2>4, Zenon
    <2>6. Sent' \cap fetched' = {} /\ Sent' \cap Back' = {} /\ fetched' \cap Back' = {}
      BY <1>14, <1>15, <1>16, <1>17, <2>1, <2>4
    <2> QED BY <2>2, <2>3, <2>5, <2>6 DEF InOnePlace
  <1>22. BackDone'
    <2>1. \A h \in Heads : h \in Desc \ free
      BY <1>11, <1>12, Zenon DEF Heads
    <2> QED BY <1>1, <1>8, <1>15, <1>17, <2>1 DEF BackDone
  <1>23. CompletionNoticed'
    BY <1>1, <1>4 DEF CompletionNoticed
  <1>24. SleepersHaveReason'
    <2>2. \A c \in IoBuf : /\ rwpc[c] = "nodesc" => Short(free)
                           /\ rwpc[c] = "wait" => busy[c]
      BY <1>1, Zenon DEF SleepersHaveReason
    <2>3. \A c \in IoBuf : /\ rwpc'[c] = "nodesc" => Short(free')
                           /\ rwpc'[c] = "wait" => busy'[c]
                           /\ busy'[c] => c \in Issued'
      <3>1. Short(free) => Short(free')
        <4>1. free' \subseteq free
          BY <1>4, Zenon
        <4> QED BY <4>1 DEF Short
      <3> QED BY <1>9, <1>10, <1>12, <2>2, <3>1
    <2> QED BY <2>3, Zenon DEF SleepersHaveReason
  <1>25. DataMoves'
    <2>1. i \notin Back
      BY <1>14, <1>15
    <2>2. \A c \in IoBuf \ {b} : idx0'[c] = idx0[c] /\ busy'[c] = busy[c] /\ rwpc'[c] = rwpc[c]
                                 /\ (c \in Issued' <=> c \in Issued)
      BY <1>9, <1>10
    <2>3. UNCHANGED <<bdata, platter, rw>>
      BY <1>4
    <2>4. bdata[b] = "new" /\ platter[b] = "old"
      BY <1>1, <1>6 DEF DataMoves
    <2> QED BY <1>1, <1>9, <1>17, <2>1, <2>2, <2>3, <2>4 DEF DataMoves, Transferred
  <1> QED BY <1>19, <1>20, <1>21, <1>22, <1>23, <1>24, <1>25, DiskParts, PTL

(* The call returns: free_chain().                                         *)
LEMMA RwDoneStep ==
  ASSUME DiskInv, NEW b \in IoBuf, RwDone(b)
  PROVE  DiskInv'
  <1> DEFINE i == idx0[b]
             chain == Chain(idx0[b])
  <1>1. /\ DiskTypeOK /\ DescsAccountedFor /\ ChainDescribesCall /\ SleepersHaveReason
        /\ InOnePlace /\ BackDone /\ CompletionNoticed /\ DataMoves
    BY DiskParts, Zenon
  <1>2. /\ UNCHANGED <<availidx, avail, used, status, usedidx, platter, fetched, devidx, raising>>
        /\ UNCHANGED <<used_idx, busy, handler, bdata, intr>>
    BY DEF RwDone, FreeChain, rings, devicevars
  <1>3. /\ rwpc[b] = "woken" /\ ~busy[b]
        /\ rwpc' = [WakeNoDesc(rwpc) EXCEPT ![b] = "out"]
        /\ idx0' = [idx0 EXCEPT ![b] = 0] /\ rw' = [rw EXCEPT ![b] = FALSE]
    BY DEF RwDone, FreeChain
  <1>4. /\ info' = [info EXCEPT ![i] = NoBuf]
        /\ free' = free \cup chain
        /\ next' = [d \in Desc |-> IF d \in chain THEN NoNext ELSE next[d]]
        /\ addr' = [d \in Desc |-> IF d \in chain THEN NoBuf ELSE addr[d]]
        /\ write' = [d \in Desc |-> d \notin chain /\ write[d]]
    BY Zenon DEF RwDone, FreeChain
  <1>5. /\ next \in [Desc -> Desc \cup {NoNext}] /\ addr \in [Desc -> IoBuf \cup {NoBuf}]
        /\ write \in [Desc -> BOOLEAN] /\ info \in [Desc -> IoBuf \cup {NoBuf}]
        /\ free \in SUBSET Desc
        /\ rw \in [IoBuf -> BOOLEAN] /\ idx0 \in [IoBuf -> Desc] /\ rwpc \in [IoBuf -> RwPlaces]
    BY <1>1 DEF DiskTypeOK
  <1>6. \A c \in IoBuf \ {b} : /\ idx0'[c] = idx0[c] /\ rw'[c] = rw[c]
                               /\ rwpc'[c] = rwpc[c] \/ (rwpc[c] = "nodesc" /\ rwpc'[c] = "alloc")
                               /\ rwpc'[c] # "nodesc"
    BY <1>3, <1>5 DEF WakeNoDesc
  <1>7. rwpc'[b] = "out" /\ rwpc' \in [IoBuf -> RwPlaces]
    BY <1>3, <1>5 DEF WakeNoDesc, RwPlaces
  <1>8. Issued' = Issued \ {b} /\ b \in Issued /\ Issued \subseteq IoBuf
    BY <1>3, <1>6, <1>7 DEF Issued
  <1>9. i \in Desc /\ i \in chain /\ chain \subseteq Desc \ free
    BY <1>1, <1>8, HeadsApart DEF Chain
  <1>10. \A c \in Issued' : /\ c # b /\ c \in Issued /\ c \in IoBuf
                            /\ idx0[c] \in Desc \ free /\ idx0[c] \notin chain
                            /\ next[idx0[c]] \in Desc \ free /\ next[idx0[c]] \notin chain
                            /\ next[next[idx0[c]]] \in Desc \ free /\ next[next[idx0[c]]] \notin chain
    <2> SUFFICES ASSUME NEW c \in Issued'
                 PROVE  /\ c # b /\ c \in Issued /\ c \in IoBuf
                        /\ idx0[c] \in Desc \ free /\ idx0[c] \notin chain
                        /\ next[idx0[c]] \in Desc \ free /\ next[idx0[c]] \notin chain
                        /\ next[next[idx0[c]]] \in Desc \ free /\ next[next[idx0[c]]] \notin chain
      OBVIOUS
    <2>1. c # b /\ c \in Issued /\ c \in IoBuf
      BY <1>8
    <2>2. Chain(idx0[c]) \cap chain = {}
      BY <1>1, <1>8, <2>1, Zenon DEF DescsAccountedFor
    <2>3. idx0[c] \in Chain(idx0[c]) /\ next[idx0[c]] \in Chain(idx0[c]) /\ next[next[idx0[c]]] \in Chain(idx0[c])
      BY Zenon DEF Chain
    <2>4. idx0[c] \in Desc \ free /\ next[idx0[c]] \in Desc \ free /\ next[next[idx0[c]]] \in Desc \ free
      BY <1>1, <2>1, HeadsApart
    <2> HIDE DEF chain
    <2> QED BY <2>1, <2>2, <2>3, <2>4
  <1> HIDE DEF chain
  <1>11. \A d \in Desc \ chain : next'[d] = next[d] /\ addr'[d] = addr[d] /\ write'[d] = write[d]
    BY <1>4, <1>5
  <1>12. \A d \in Desc \ {i} : info'[d] = info[d]
    BY <1>4, <1>5
  <1>13. \A c \in Issued' : /\ idx0'[c] = idx0[c] /\ rw'[c] = rw[c]
                            /\ next'[idx0[c]] = next[idx0[c]]
                            /\ next'[next[idx0[c]]] = next[next[idx0[c]]]
                            /\ info'[idx0[c]] = info[idx0[c]]
                            /\ addr'[next[idx0[c]]] = addr[next[idx0[c]]]
                            /\ write'[next[idx0[c]]] = write[next[idx0[c]]]
    BY <1>6, <1>9, <1>10, <1>11, <1>12
  <1>14. DiskTypeOK'
    <2>1. /\ next' \in [Desc -> Desc \cup {NoNext}] /\ addr' \in [Desc -> IoBuf \cup {NoBuf}]
          /\ write' \in [Desc -> BOOLEAN] /\ info' \in [Desc -> IoBuf \cup {NoBuf}]
          /\ free' \in SUBSET Desc
      BY <1>4, <1>5, <1>9
    <2>2. rw' \in [IoBuf -> BOOLEAN] /\ idx0' \in [IoBuf -> Desc]
      BY <1>3, <1>5, Sizes DEF Desc
    <2> QED BY <1>1, <1>2, <1>7, <2>1, <2>2 DEF DiskTypeOK
  <1>15. DescsAccountedFor'
    <2>2. \A c \in Issued' : Chain(idx0[c])' = Chain(idx0[c])
      BY <1>13 DEF Chain
    <2>3. \A c \in Issued :
            /\ LET h == idx0[c] IN h # next[h] /\ h # next[next[h]] /\ next[h] # next[next[h]]
            /\ \A d \in Issued : c # d => Chain(idx0[c]) \cap Chain(idx0[d]) = {}
      BY <1>1, Zenon DEF DescsAccountedFor
    <2>4. \A c \in Issued' : Chain(idx0[c]) \subseteq Desc \ free'
      <3>1. \A d : d \in Desc \ free /\ d \notin chain => d \in Desc \ free'
        BY <1>4
      <3> QED BY <1>10, <3>1, Zenon DEF Chain
    <2>5. \A c \in Issued' :
            LET h == idx0'[c] IN h # next'[h] /\ h # next'[next'[h]] /\ next'[h] # next'[next'[h]]
      <3> SUFFICES ASSUME NEW c \in Issued'
                   PROVE  LET h == idx0'[c] IN h # next'[h] /\ h # next'[next'[h]] /\ next'[h] # next'[next'[h]]
        OBVIOUS
      <3>1. LET h == idx0[c] IN h # next[h] /\ h # next[next[h]] /\ next[h] # next[next[h]]
        BY <1>10, <2>3, Zenon
      <3>2. idx0'[c] = idx0[c] /\ next'[idx0[c]] = next[idx0[c]] /\ next'[next[idx0[c]]] = next[next[idx0[c]]]
        BY <1>13, Zenon
      <3> QED BY <3>1, <3>2, Zenon
    <2>6. \A c, d \in Issued' : c # d => Chain(idx0[c])' \cap Chain(idx0[d])' = {}
      BY <1>10, <2>2, <2>3
    <2>7. Covered'
      <3> SUFFICES ASSUME NEW d \in Desc \ free' PROVE \E c \in Issued' : d \in Chain(idx0[c])'
        BY Zenon DEF Covered
      <3>1. d \in Desc \ free /\ d \notin chain
        BY <1>4
      <3>2. PICK c \in Issued : d \in Chain(idx0[c])
        BY <1>1, <3>1, Zenon DEF DescsAccountedFor
      <3>3. c # b
        BY <3>1, <3>2, Zenon DEF chain
      <3> QED BY <1>8, <2>2, <3>2, <3>3
    <2> QED BY <1>14, <2>2, <2>4, <2>5, <2>6, <2>7 DEF DescsAccountedFor, Covered
  <1>16. ChainDescribesCall'
    <2>1. \A c \in Issued : info[idx0[c]] = c /\ addr[next[idx0[c]]] = c /\ write[next[idx0[c]]] = rw[c]
      BY <1>1, Zenon DEF ChainDescribesCall
    <2>2. \A c \in Issued' : info'[idx0'[c]] = c /\ addr'[next'[idx0'[c]]] = c /\ write'[next'[idx0'[c]]] = rw'[c]
      BY <1>10, <1>13, <2>1
    <2> QED BY <2>2, Zenon DEF ChainDescribesCall
  <1>17. Heads' = Heads
    BY <1>2, <1>3, <1>6 DEF Heads
  <1>18. InOnePlace'
    BY <1>1, <1>2, <1>17, InPlaceSame
  <1>19. Back' = Back
    BY <1>2, RingsSame
  <1>20. BackDone'
    BY <1>1, <1>2, <1>19 DEF BackDone
  <1>21. CompletionNoticed'
    BY <1>1, <1>2 DEF CompletionNoticed
  <1>22. SleepersHaveReason'
    <2>1. \A c \in IoBuf : (rwpc[c] = "wait" => busy[c]) /\ (busy[c] => c \in Issued)
      BY <1>1, Zenon DEF SleepersHaveReason
    <2>2. \A c \in IoBuf : rwpc'[c] # "nodesc" /\ (rwpc'[c] = "wait" => busy'[c]) /\ (busy'[c] => c \in Issued')
      BY <1>2, <1>3, <1>6, <1>7, <1>8, <2>1
    <2> QED BY <2>2, Zenon DEF SleepersHaveReason
  <1>23. DataMoves'
    <2>1. \A c \in IoBuf \ {b} :
            /\ idx0'[c] = idx0[c] /\ busy'[c] = busy[c] /\ rw'[c] = rw[c]
            /\ rwpc'[c] \in {"alloc", "nodesc"} => rwpc[c] \in {"alloc", "nodesc"}
            /\ bdata'[c] = bdata[c] /\ platter'[c] = platter[c]
            /\ (c \in Issued' => c \in Issued)
      BY <1>2, <1>6, <1>8
    <2>2. b \notin Issued' /\ ~busy'[b] /\ rwpc'[b] = "out"
      BY <1>2, <1>3, <1>7, <1>8
    <2> QED BY <1>1, <1>19, <2>1, <2>2 DEF DataMoves, Transferred
  <1> QED BY <1>15, <1>16, <1>18, <1>20, <1>21, <1>22, <1>23, DiskParts, PTL

-----------------------------------------------------------------------------
(* The device takes a chain from the avail ring.                           *)
LEMMA FetchStep ==
  ASSUME DiskInv, DeviceFetch, Ahead(devidx, availidx) <= NUM
  PROVE  DiskInv'
  <1> DEFINE x == avail[devidx % NUM]
  <1>1. /\ DiskTypeOK /\ DescsAccountedFor /\ ChainDescribesCall /\ SleepersHaveReason
        /\ InOnePlace /\ BackDone /\ CompletionNoticed /\ DataMoves
    BY DiskParts, Zenon
  <1>2. /\ UNCHANGED <<free, next, addr, write, info, availidx, rw, idx0>>
        /\ UNCHANGED <<status, used, usedidx, platter, raising, used_idx, busy, rwpc, handler, bdata, intr>>
    BY DEF DeviceFetch, drivervars
  <1>3. /\ devidx # availidx /\ devidx' = Plus1(devidx)
        /\ fetched' = fetched \cup {x} /\ avail' = [avail EXCEPT ![devidx % NUM] = 0]
    BY DEF DeviceFetch
  <1>4. avail \in [Desc -> Desc] /\ availidx \in Uint /\ devidx \in Uint /\ fetched \in SUBSET Desc
    BY <1>1 DEF DiskTypeOK
  <1>5. NoRepeats(avail, devidx, availidx) /\ NoRepeats(used, used_idx, usedidx)
    BY <1>1 DEF InOnePlace
  <1>6. /\ x \in Between(avail, devidx, availidx)
        /\ Between(avail', devidx', availidx) = Between(avail, devidx, availidx) \ {x}
        /\ NoRepeats(avail', devidx', availidx)
        /\ devidx' \in Uint /\ avail' \in [Desc -> Desc]
    <2>2. LET new == [avail EXCEPT ![devidx % NUM] = 0]
              h == avail[devidx % NUM] IN
            /\ h \in Between(avail, devidx, availidx)
            /\ Between(new, Plus1(devidx), availidx) = Between(avail, devidx, availidx) \ {h}
            /\ NoRepeats(new, Plus1(devidx), availidx)
            /\ Plus1(devidx) \in Uint /\ new \in [Desc -> Desc]
      BY <1>3, <1>4, <1>5, RingPop, Zenon
    <2> QED BY <1>3, <2>2, Zenon
  <1> HIDE DEF x
  <1>7. Sent' = Sent \ {x} /\ x \in Sent
    BY <1>2, <1>6 DEF Sent
  <1>8. Back' = Back
    BY <1>2 DEF Back, Between, Entry
  <1>9. Heads' = Heads /\ Issued' = Issued
    BY <1>2 DEF Heads, Issued
  <1>10. InOnePlace'
    <2>1. /\ Sent \cup fetched \cup Back = Heads
          /\ Sent \cap fetched = {} /\ Sent \cap Back = {} /\ fetched \cap Back = {}
      BY <1>1 DEF InOnePlace
    <2>2. Sent' \cup fetched' \cup Back' = Heads'
      BY <1>3, <1>7, <1>8, <1>9, <2>1, Zenon
    <2>3. Sent' \cap fetched' = {} /\ Sent' \cap Back' = {} /\ fetched' \cap Back' = {}
      BY <1>3, <1>7, <1>8, <2>1
    <2>4. NoRepeats(avail, devidx, availidx)' /\ NoRepeats(used, used_idx, usedidx)'
      BY <1>2, <1>5, <1>6 DEF NoRepeats, Entry
    <2> QED BY <2>2, <2>3, <2>4 DEF InOnePlace
  <1>11. x \in Desc
    BY <1>1, <1>7, HeadIs, Zenon DEF InOnePlace
  <1>12. DiskTypeOK'
    <2>1. fetched' \in SUBSET Desc
      BY <1>3, <1>4, <1>11
    <2> QED BY <1>1, <1>2, <1>6, <2>1 DEF DiskTypeOK
  <1>13. DescsAccountedFor'
    BY <1>1, <1>2, <1>9, <1>12, ChainsSame
  <1>14. ChainDescribesCall'
    BY <1>1, <1>2, <1>9, CallsSame
  <1>15. BackDone'
    BY <1>1, <1>2, <1>8 DEF BackDone
  <1>16. CompletionNoticed'
    BY <1>1, <1>2 DEF CompletionNoticed
  <1>17. SleepersHaveReason'
    BY <1>1, <1>2, <1>9, Zenon DEF SleepersHaveReason
  <1>18. DataMoves'
    BY <1>1, <1>2, <1>8, <1>9, Zenon DEF DataMoves, Transferred
  <1> QED BY <1>10, <1>13, <1>14, <1>15, <1>16, <1>17, <1>18, DiskParts, PTL

(* The device makes a transfer and publishes it in the used ring.          *)
LEMMA ServeStep ==
  ASSUME DiskInv, NEW i \in Desc, DeviceServe(i), Ahead(used_idx, usedidx) < NUM
  PROVE  DiskInv'
  <1> DEFINE b == info[i]
  <1>1. /\ DiskTypeOK /\ DescsAccountedFor /\ ChainDescribesCall /\ SleepersHaveReason
        /\ InOnePlace /\ BackDone /\ CompletionNoticed /\ DataMoves
    BY DiskParts, Zenon
  <1>2. /\ UNCHANGED <<free, next, addr, write, info, availidx, rw, idx0>>
        /\ UNCHANGED <<devidx, avail, used_idx, busy, rwpc, handler, intr>>
    BY DEF DeviceServe, drivervars
  <1>3. /\ i \in fetched /\ usedidx' = Plus1(usedidx) /\ raising' = TRUE
        /\ fetched' = fetched \ {i} /\ used' = [used EXCEPT ![usedidx % NUM] = i]
        /\ status' = [status EXCEPT ![i] = TRUE]
    BY DEF DeviceServe
  <1>4. /\ used \in [Desc -> Desc] /\ usedidx \in Uint /\ used_idx \in Uint /\ fetched \in SUBSET Desc
        /\ status \in [Desc -> BOOLEAN] /\ bdata \in [IoBuf -> {"old", "new"}]
        /\ platter \in [IoBuf -> {"old", "new"}] /\ rw \in [IoBuf -> BOOLEAN]
    BY <1>1 DEF DiskTypeOK
  <1>5. /\ Sent \cup fetched \cup Back = Heads
        /\ Sent \cap fetched = {} /\ Sent \cap Back = {} /\ fetched \cap Back = {}
        /\ NoRepeats(avail, devidx, availidx) /\ NoRepeats(used, used_idx, usedidx)
    BY <1>1 DEF InOnePlace
  <1>6. i \in Heads /\ i \notin Sent /\ i \notin Back
    BY <1>3, <1>5, Zenon
  <1>7. /\ b \in Issued /\ busy[b] /\ idx0[b] = i /\ addr[next[i]] = b /\ write[next[i]] = rw[b]
    BY <1>1, <1>6, HeadIs, Zenon
  <1>8. /\ Between(used', used_idx, usedidx') = Between(used, used_idx, usedidx) \cup {i}
        /\ NoRepeats(used', used_idx, usedidx')
        /\ usedidx' \in Uint /\ used' \in [Desc -> Desc]
    <2>1. i \notin Between(used, used_idx, usedidx)
      BY <1>6 DEF Back
    <2>3. LET new == [used EXCEPT ![usedidx % NUM] = i] IN
            /\ Between(new, used_idx, Plus1(usedidx)) = Between(used, used_idx, usedidx) \cup {i}
            /\ NoRepeats(new, used_idx, Plus1(usedidx))
            /\ Plus1(usedidx) \in Uint /\ new \in [Desc -> Desc]
      BY <1>4, <1>5, <2>1, RingPush, Zenon
    <2> QED BY <1>3, <2>3, Zenon
  <1>9. b \in IoBuf /\ Issued' = Issued /\ Heads' = Heads
    BY <1>2, <1>7 DEF Issued, Heads
  <1> HIDE DEF b
  <1>10. Back' = Back \cup {i}
    BY <1>2, <1>8 DEF Back
  <1>11. Sent' = Sent
    BY <1>2 DEF Sent, Between, Entry
  <1>12. /\ rw[b] => platter' = [platter EXCEPT ![b] = bdata[b]] /\ bdata' = bdata
         /\ ~rw[b] => bdata' = [bdata EXCEPT ![b] = platter[b]] /\ platter' = platter
    BY <1>7, Zenon DEF DeviceServe
  <1>13. bdata[b] = "new" /\ platter[b] = "old"
    BY <1>1, <1>6, <1>7, <1>9, Zenon DEF DataMoves
  <1>14. /\ bdata'[b] = platter'[b] /\ (platter'[b] = "new" <=> rw[b])
         /\ \A c \in IoBuf \ {b} : bdata'[c] = bdata[c] /\ platter'[c] = platter[c]
         /\ bdata' \in [IoBuf -> {"old", "new"}] /\ platter' \in [IoBuf -> {"old", "new"}]
    <2>1. CASE rw[b]
      BY <1>4, <1>9, <1>12, <1>13, <2>1
    <2>2. CASE ~rw[b]
      BY <1>4, <1>9, <1>12, <1>13, <2>2
    <2> QED BY <2>1, <2>2
  <1>15. DiskTypeOK'
    <2>1. fetched' \in SUBSET Desc /\ status' \in [Desc -> BOOLEAN] /\ raising' \in BOOLEAN
      BY <1>3, <1>4
    <2> QED BY <1>1, <1>2, <1>8, <1>14, <2>1 DEF DiskTypeOK
  <1>16. InOnePlace'
    <2>1. Sent' \cup fetched' \cup Back' = Heads'
      BY <1>3, <1>5, <1>9, <1>10, <1>11, Zenon
    <2>2. Sent' \cap fetched' = {} /\ Sent' \cap Back' = {} /\ fetched' \cap Back' = {}
      BY <1>3, <1>5, <1>6, <1>10, <1>11
    <2>3. NoRepeats(avail, devidx, availidx)' /\ NoRepeats(used, used_idx, usedidx)'
      BY <1>2, <1>5, <1>8 DEF NoRepeats, Entry
    <2> QED BY <2>1, <2>2, <2>3 DEF InOnePlace
  <1>17. DescsAccountedFor'
    BY <1>1, <1>2, <1>9, <1>15, ChainsSame
  <1>18. ChainDescribesCall'
    BY <1>1, <1>2, <1>9, CallsSame
  <1>19. BackDone'
    <2>1. status'[i] /\ \A h \in Desc : status[h] => status'[h]
      BY <1>3, <1>4
    <2>2. Back \subseteq Desc
      BY <1>1, <1>5, HeadIs, Zenon
    <2> QED BY <1>1, <1>10, <2>1, <2>2, Zenon DEF BackDone
  <1>20. CompletionNoticed'
    BY <1>3 DEF CompletionNoticed
  <1>21. SleepersHaveReason'
    BY <1>1, <1>2, <1>9, Zenon DEF SleepersHaveReason
  <1>22. DataMoves'
    <2>1. \A c \in IoBuf \ {b} : /\ idx0'[c] = idx0[c] /\ busy'[c] = busy[c] /\ rwpc'[c] = rwpc[c]
                                 /\ (c \in Issued => (idx0[c] \in Back' <=> idx0[c] \in Back))
                                 /\ (busy[c] => c \in Issued)
      BY <1>1, <1>2, <1>7, <1>10, HeadsApart DEF SleepersHaveReason
    <2>2. idx0'[b] \in Back' /\ rwpc'[b] \notin {"alloc", "nodesc"}
      BY <1>2, <1>7, <1>10 DEF Issued
    <2> QED BY <1>1, <1>2, <1>9, <1>14, <2>1, <2>2 DEF DataMoves, Transferred
  <1> QED BY <1>16, <1>17, <1>18, <1>19, <1>20, <1>21, <1>22, DiskParts, PTL

(* A turn of the loop of virtio_disk_intr().                               *)
LEMMA TurnStep ==
  ASSUME DiskInv, IntrTurn, Ahead(used_idx, usedidx) <= NUM
  PROVE  DiskInv'
  <1> DEFINE x == used[used_idx % NUM]
             b == info[x]
  <1>1. /\ DiskTypeOK /\ DescsAccountedFor /\ ChainDescribesCall /\ SleepersHaveReason
        /\ InOnePlace /\ BackDone /\ CompletionNoticed /\ DataMoves
    BY DiskParts, Zenon
  <1>2. /\ UNCHANGED <<free, next, addr, write, info, availidx, rw, idx0>>
        /\ UNCHANGED <<status, usedidx, platter, fetched, devidx, raising>>
        /\ UNCHANGED <<avail, handler, bdata, intr>>
    BY DEF IntrTurn, drivervars, devicevars
  <1>3. /\ used_idx # usedidx /\ handler = "loop"
        /\ used_idx' = Plus1(used_idx) /\ used' = [used EXCEPT ![used_idx % NUM] = 0]
        /\ busy' = [busy EXCEPT ![b] = FALSE]
        /\ rwpc' = [rwpc EXCEPT ![b] = IF @ = "wait" THEN "woken" ELSE @]
    BY DEF IntrTurn
  <1>4. /\ used \in [Desc -> Desc] /\ usedidx \in Uint /\ used_idx \in Uint
        /\ busy \in [IoBuf -> BOOLEAN] /\ rwpc \in [IoBuf -> RwPlaces]
    BY <1>1 DEF DiskTypeOK
  <1>5. /\ Sent \cup fetched \cup Back = Heads
        /\ Sent \cap fetched = {} /\ Sent \cap Back = {} /\ fetched \cap Back = {}
        /\ NoRepeats(avail, devidx, availidx) /\ NoRepeats(used, used_idx, usedidx)
    BY <1>1 DEF InOnePlace
  <1>6. /\ x \in Between(used, used_idx, usedidx)
        /\ Between(used', used_idx', usedidx) = Between(used, used_idx, usedidx) \ {x}
        /\ NoRepeats(used', used_idx', usedidx)
        /\ used_idx' \in Uint /\ used' \in [Desc -> Desc]
    <2>2. LET new == [used EXCEPT ![used_idx % NUM] = 0]
              h == used[used_idx % NUM] IN
            /\ h \in Between(used, used_idx, usedidx)
            /\ Between(new, Plus1(used_idx), usedidx) = Between(used, used_idx, usedidx) \ {h}
            /\ NoRepeats(new, Plus1(used_idx), usedidx)
            /\ Plus1(used_idx) \in Uint /\ new \in [Desc -> Desc]
      BY <1>3, <1>4, <1>5, RingPop, Zenon
    <2> QED BY <1>3, <2>2, Zenon
  <1> HIDE DEF x
  <1>7. Back' = Back \ {x} /\ x \in Back /\ x \in Heads
    BY <1>2, <1>5, <1>6 DEF Back
  <1>8. b \in Issued /\ busy[b] /\ idx0[b] = x
    BY <1>1, <1>7, HeadIs, Zenon
  <1> HIDE DEF b
  <1>9. b \in IoBuf
    BY <1>8 DEF Issued
  <1>10. /\ ~busy'[b] /\ rwpc'[b] = "woken" /\ busy' \in [IoBuf -> BOOLEAN] /\ rwpc' \in [IoBuf -> RwPlaces]
         /\ \A c \in IoBuf \ {b} : busy'[c] = busy[c] /\ rwpc'[c] = rwpc[c]
    BY <1>3, <1>4, <1>8, <1>9 DEF Issued, RwPlaces
  <1>11. Issued' = Issued
    BY <1>8, <1>10 DEF Issued
  <1>12. \A c \in IoBuf : c # b /\ busy[c] => c \in Issued /\ idx0[c] # x
    BY <1>1, <1>8, HeadsApart, Zenon DEF SleepersHaveReason
  <1>13. Heads' = Heads \ {x}
    BY <1>2, <1>8, <1>9, <1>10, <1>12 DEF Heads
  <1>14. Sent' = Sent
    BY <1>2 DEF Sent, Between, Entry
  <1>15. DiskTypeOK'
    BY <1>1, <1>2, <1>6, <1>10 DEF DiskTypeOK
  <1>16. InOnePlace'
    <2>1. fetched' = fetched
      BY <1>2
    <2>2. Sent' \cup fetched' \cup Back' = Heads'
      BY <1>5, <1>7, <1>13, <1>14, <2>1
    <2>3. Sent' \cap fetched' = {} /\ Sent' \cap Back' = {} /\ fetched' \cap Back' = {}
      BY <1>5, <1>7, <1>14, <2>1
    <2>4. NoRepeats(avail, devidx, availidx)' /\ NoRepeats(used, used_idx, usedidx)'
      BY <1>2, <1>5, <1>6 DEF NoRepeats, Entry
    <2> QED BY <2>2, <2>3, <2>4 DEF InOnePlace
  <1>17. DescsAccountedFor'
    BY <1>1, <1>2, <1>11, <1>15, ChainsSame
  <1>18. ChainDescribesCall'
    BY <1>1, <1>2, <1>11, CallsSame
  <1>19. BackDone'
    BY <1>1, <1>2, <1>7 DEF BackDone
  <1>20. CompletionNoticed'
    BY <1>2, <1>3 DEF CompletionNoticed
  <1>21. SleepersHaveReason'
    <2>1. \A c \in IoBuf : /\ rwpc[c] = "nodesc" => Short(free)
                           /\ rwpc[c] = "wait" => busy[c]
                           /\ busy[c] => c \in Issued
      BY <1>1, Zenon DEF SleepersHaveReason
    <2>2. \A c \in IoBuf : /\ rwpc'[c] = "nodesc" => Short(free)
                           /\ rwpc'[c] = "wait" => busy'[c]
                           /\ busy'[c] => c \in Issued'
      BY <1>10, <1>11, <2>1
    <2>3. free' = free
      BY <1>2
    <2> QED BY <2>2, <2>3, Zenon DEF SleepersHaveReason
  <1>22. DataMoves'
    <2>1. \A c \in IoBuf \ {b} : /\ idx0'[c] = idx0[c] /\ busy'[c] = busy[c] /\ rwpc'[c] = rwpc[c]
                                 /\ (c \in Issued => (idx0[c] \in Back' <=> idx0[c] \in Back))
                                 /\ (busy[c] => c \in Issued)
      <3>1. \A c \in Issued : c # b => idx0[c] # x
        BY <1>1, <1>8, HeadsApart, Zenon
      <3>2. \A c \in IoBuf : busy[c] => c \in Issued
        BY <1>1, Zenon DEF SleepersHaveReason
      <3>3. idx0' = idx0
        BY <1>2
      <3> QED BY <1>7, <1>10, <3>1, <3>2, <3>3
    <2>2. bdata[b] = platter[b] /\ (platter[b] = "new" <=> rw[b])
      BY <1>1, <1>7, <1>8, <1>9, Zenon DEF DataMoves, Transferred
    <2> QED BY <1>1, <1>2, <1>10, <1>11, <2>1, <2>2 DEF DataMoves, Transferred
  <1> QED BY <1>16, <1>17, <1>18, <1>19, <1>20, <1>21, <1>22, DiskParts, PTL


-----------------------------------------------------------------------------
(* Numbers 0 .. m - 1 do not go into 0 .. n - 1 one by one if n < m.       *)
LEMMA PigeonHole ==
  \A m, n \in Nat : \A f \in [0 .. m - 1 -> 0 .. n - 1] :
    (\A a, b \in 0 .. m - 1 : f[a] = f[b] => a = b) => m <= n
  <1> SUFFICES ASSUME NEW m \in Nat, NEW n \in Nat, NEW f \in [0 .. m - 1 -> 0 .. n - 1],
                      \A a, b \in 0 .. m - 1 : f[a] = f[b] => a = b
               PROVE  m <= n
    BY SMTT(20)
  <1> DEFINE g == [i \in 1 .. m |-> f[i - 1] + 1]
  <1>1. \A i \in 1 .. m : i - 1 \in 0 .. m - 1
    OBVIOUS
  <1>2. \A i \in 1 .. m : f[i - 1] \in 0 .. n - 1
    BY <1>1
  <1>3. \A i \in 1 .. m : f[i - 1] + 1 \in 1 .. n
    BY <1>2
  <1>4. g \in [1 .. m -> 1 .. n]
    BY <1>3
  <1>5. \A a, b \in 1 .. m : f[a - 1] + 1 = f[b - 1] + 1 => a = b
    <2> SUFFICES ASSUME NEW a \in 1 .. m, NEW b \in 1 .. m, f[a - 1] + 1 = f[b - 1] + 1 PROVE a = b
      OBVIOUS
    <2>1. f[a - 1] = f[b - 1]
      BY <1>2
    <2>2. a - 1 = b - 1
      BY <1>1, <2>1
    <2> QED BY <2>2
  <1>6. \A a, b \in 1 .. m : g[a] = g[b] => a = b
    BY <1>5
  <1> HIDE DEF g
  <1>7. g \in Injection(1 .. m, 1 .. n)
    BY <1>4, <1>6, Fun_IsInj, SMTT(20)
  <1>8. ExistsInjection(1 .. m, 1 .. n)
    BY <1>7, Zenon DEF ExistsInjection
  <1> QED BY <1>8, Fun_NatInjLeq

(* A ring without repeats holds no more than there are descriptors, and    *)
(* less if there is a descriptor it does not hold.                         *)
LEMMA RingRoom ==
  ASSUME NEW ring \in [Desc -> Desc], NEW a \in Uint, NEW z \in Uint, NoRepeats(ring, a, z)
  PROVE  /\ Ahead(a, z) <= NUM
         /\ \A x \in Desc : x \notin Between(ring, a, z) => Ahead(a, z) < NUM
  <1> DEFINE d == Ahead(a, z)
             D == 0 .. d - 1
             f == [n \in D |-> Entry(ring, a, n)]
  <1>1. d \in Nat /\ NUM \in Nat
    BY Wraps, Sizes DEF Uint
  <1>2. \A n \in D : Entry(ring, a, n) \in 0 .. NUM - 1
    <2>1. \A n \in D : n \in Nat
      BY <1>1
    <2>2. \A n \in D : Entry(ring, a, n) \in Desc
      BY <2>1, Places DEF Entry, Place
    <2> QED BY <2>2, Zenon DEF Desc
  <1>3. \A m, n \in D : Entry(ring, a, m) = Entry(ring, a, n) => m = n
    BY Zenon DEF NoRepeats
  <1>4. d <= NUM
    <2>1. f \in [D -> 0 .. NUM - 1] /\ \A m, n \in D : f[m] = f[n] => m = n
      BY <1>2, <1>3, Zenon
    <2> HIDE DEF f, d
    <2> QED BY <1>1, <2>1, PigeonHole, Zenon
  <1>5. ASSUME NEW x \in Desc, x \notin Between(ring, a, z) PROVE d < NUM
    <2> DEFINE E == 0 .. (d + 1) - 1
               g == [n \in E |-> IF n \in D THEN Entry(ring, a, n) ELSE x]
    <2>1. \A n \in E : n \in D \/ n = d
      BY <1>1
    <2>2. x \in 0 .. NUM - 1 /\ \A n \in D : Entry(ring, a, n) # x
      BY <1>5, Zenon DEF Between, Desc
    <2>3. g \in [E -> 0 .. NUM - 1]
      BY <1>2, <2>2, Zenon
    <2>4. \A m, n \in E : g[m] = g[n] => m = n
      <3> SUFFICES ASSUME NEW m \in E, NEW n \in E, g[m] = g[n] PROVE m = n
        BY Zenon
      <3>1. /\ (m \in D /\ g[m] = Entry(ring, a, m)) \/ (m \notin D /\ m = d /\ g[m] = x)
            /\ (n \in D /\ g[n] = Entry(ring, a, n)) \/ (n \notin D /\ n = d /\ g[n] = x)
        <4>1. /\ g[m] = IF m \in D THEN Entry(ring, a, m) ELSE x
              /\ g[n] = IF n \in D THEN Entry(ring, a, n) ELSE x
          BY Zenon
        <4> HIDE DEF g, E, D, d
        <4> QED BY <2>1, <4>1, Zenon
      <3> HIDE DEF g, E, D, d
      <3> QED BY <1>3, <2>2, <3>1, Zenon
    <2>5. d + 1 \in Nat
      BY <1>1
    <2> HIDE DEF g, d
    <2>6. d + 1 <= NUM
      BY <1>1, <2>3, <2>4, <2>5, PigeonHole, Zenon
    <2> QED BY <1>1, <2>6
  <1> QED BY <1>4, <1>5

(* The rings never hold more than NUM entries, and the used ring less      *)
(* while the device still has a request.                                   *)
LEMMA RingsHaveRoom ==
  ASSUME DiskInv
  PROVE  /\ Ahead(devidx, availidx) <= NUM /\ Ahead(used_idx, usedidx) <= NUM
         /\ \A i \in Desc : i \notin Heads => Ahead(devidx, availidx) < NUM
         /\ \A i \in Desc : i \in fetched => Ahead(used_idx, usedidx) < NUM
  <1>1. DiskTypeOK /\ InOnePlace
    BY DiskParts, Zenon
  <1>2. /\ avail \in [Desc -> Desc] /\ devidx \in Uint /\ availidx \in Uint
        /\ used \in [Desc -> Desc] /\ used_idx \in Uint /\ usedidx \in Uint
    BY <1>1 DEF DiskTypeOK
  <1>3. NoRepeats(avail, devidx, availidx) /\ NoRepeats(used, used_idx, usedidx)
    BY <1>1, Zenon DEF InOnePlace
  <1>4. Ahead(devidx, availidx) <= NUM /\ Ahead(used_idx, usedidx) <= NUM
    BY <1>2, <1>3, RingRoom, Zenon
  <1>5. \A i \in Desc : i \notin Heads => i \notin Between(avail, devidx, availidx)
    BY <1>1, Zenon DEF InOnePlace, Sent
  <1>6. \A i \in Desc : i \in fetched => i \notin Between(used, used_idx, usedidx)
    BY <1>1, Zenon DEF InOnePlace, Back
  <1> QED BY <1>2, <1>3, <1>4, <1>5, <1>6, RingRoom, Zenon

(* virtio_disk_init() starts with all descriptors free and empty rings.    *)
LEMMA DiskStart == DiskInit => DiskInv
  <1> SUFFICES ASSUME DiskInit PROVE DiskInv
    OBVIOUS
  <1>1. 0 \in Uint /\ 0 \in Desc
    BY Sizes DEF Uint, Desc
  <1>2. DiskTypeOK
    BY <1>1, Zenon DEF DiskInit, DiskTypeOK, RwPlaces
  <1>3. Issued = {} /\ Heads = {}
    BY DEF DiskInit, Issued, Heads
  <1>4. \A a \in Uint : 0 .. Ahead(a, a) - 1 = {}
    BY Steps
  <1>5. Sent = {} /\ Back = {} /\ NoRepeats(avail, devidx, availidx) /\ NoRepeats(used, used_idx, usedidx)
    BY <1>1, <1>4, Zenon DEF DiskInit, Sent, Back, Between, NoRepeats
  <1>6. DescsAccountedFor
    BY <1>2, <1>3 DEF DescsAccountedFor, DiskInit
  <1>7. ChainDescribesCall /\ BackDone /\ InOnePlace
    BY <1>3, <1>5 DEF DiskInit, ChainDescribesCall, BackDone, InOnePlace
  <1>8. CompletionNoticed /\ SleepersHaveReason
    BY DEF DiskInit, CompletionNoticed, SleepersHaveReason
  <1>9. DataMoves
    BY <1>3, <1>5 DEF DiskInit, DataMoves
  <1> QED BY <1>6, <1>7, <1>8, <1>9, DiskParts

(* Every step of the driver, its handler and the device keeps the          *)
(* invariant.                                                              *)
LEMMA DiskStep == DiskInv /\ [DiskNext]_diskvars => DiskInv'
  <1> SUFFICES ASSUME DiskInv, [DiskNext]_diskvars PROVE DiskInv'
    OBVIOUS
  <1>1. ASSUME NEW b \in IoBuf, NEW w \in BOOLEAN, Call(b, w) PROVE DiskInv'
    BY <1>1, CallStep
  <1>2. ASSUME NEW b \in IoBuf, Issue(b) PROVE DiskInv'
    <2>1. PICK i \in Desc, j \in Desc, k \in Desc : Alloc3(i, j, k)
      BY <1>2, Zenon DEF Issue
    <2>2. i \notin Heads
      <3>1. DescsAccountedFor /\ SleepersHaveReason
        BY DiskParts, Zenon
      <3>2. \A c \in IoBuf : busy[c] => idx0[c] \notin free
        BY <3>1, HeadsApart, Zenon DEF SleepersHaveReason
      <3>3. i \in free
        BY <2>1, Zenon DEF Alloc3
      <3> QED BY <3>2, <3>3, Zenon DEF Heads
    <2> QED BY <1>2, <2>2, RingsHaveRoom, IssueStep, Zenon
  <1>3. ASSUME NEW b \in IoBuf, NoDesc(b) \/ SleepAgain(b) \/ Kill(b) PROVE DiskInv'
    BY <1>3, QuietSteps, Zenon
  <1>4. ASSUME NEW b \in IoBuf, RwDone(b) PROVE DiskInv'
    BY <1>4, RwDoneStep, Zenon
  <1>5. CASE IntrAck \/ IntrEnd \/ DeviceRaise
    BY <1>5, QuietSteps, Zenon
  <1>6. CASE IntrTurn
    BY <1>6, RingsHaveRoom, TurnStep, Zenon
  <1>7. CASE DeviceFetch
    BY <1>7, RingsHaveRoom, FetchStep, Zenon
  <1>8. ASSUME NEW i \in Desc, DeviceServe(i) PROVE DiskInv'
    <2>1. i \in fetched
      BY <1>8, Zenon DEF DeviceServe
    <2> QED BY <1>8, <2>1, RingsHaveRoom, ServeStep, Zenon
  <1>9. CASE UNCHANGED diskvars
    BY <1>9, QuietSteps, Zenon
  <1> QED BY <1>1, <1>2, <1>3, <1>4, <1>5, <1>6, <1>7, <1>8, <1>9, Zenon DEF DiskNext, Handler

(* A call returns in RwDone(b) only, whose test of b->disk finds the       *)
(* transfer made.                                                          *)
LEMMA ReturnStep ==
  ASSUME DiskInv, DiskNext, NEW b \in IoBuf, rwpc[b] # "out", rwpc'[b] = "out"
  PROVE  Transferred(b)
  <1>1. DiskTypeOK /\ DataMoves
    BY DiskParts, Zenon
  <1>2. rwpc \in [IoBuf -> RwPlaces]
    BY <1>1 DEF DiskTypeOK
  <1>3. RwDone(b)
    <2>1. ASSUME NEW c \in IoBuf, NEW w \in BOOLEAN, Call(c, w) PROVE FALSE
      BY <1>2, <2>1 DEF Call
    <2>2. ASSUME NEW c \in IoBuf, Issue(c) PROVE FALSE
      BY <1>2, <2>2 DEF Issue, Submit
    <2>3. ASSUME NEW c \in IoBuf, NoDesc(c) PROVE FALSE
      BY <1>2, <2>3 DEF NoDesc, WakeNoDesc
    <2>4. ASSUME NEW c \in IoBuf, SleepAgain(c) \/ Kill(c) PROVE FALSE
      BY <1>2, <2>4 DEF SleepAgain, Kill
    <2>5. ASSUME NEW c \in IoBuf, RwDone(c), c # b PROVE FALSE
      BY <1>2, <2>5 DEF RwDone, WakeNoDesc
    <2>6. CASE IntrTurn
      BY <1>2, <2>6 DEF IntrTurn
    <2>7. CASE IntrAck \/ IntrEnd \/ DeviceFetch \/ DeviceRaise \/ \E i \in Desc : DeviceServe(i)
      BY <2>7 DEF IntrAck, IntrEnd, DeviceFetch, DeviceRaise, DeviceServe
    <2> QED BY <2>1, <2>2, <2>3, <2>4, <2>5, <2>6, <2>7, Zenon DEF DiskNext, Handler
  <1>4. b \in Issued /\ ~busy[b]
    BY <1>3 DEF RwDone, Issued
  <1> QED BY <1>1, <1>4, Zenon DEF DataMoves

(* The driver's invariant holds for any number of buffers, any NUM and any *)
(* index width that the assumptions allow.                                 *)
LEMMA DiskAlways == DiskSpec => []DiskInv
  BY DiskStart, DiskStep, PTL DEF DiskSpec

(* alloc_desc(), free_desc() and free_chain() never lose a descriptor nor  *)
(* free one twice, whatever the calls, the device and kill() do.           *)
THEOREM DescsInvariant == DiskSpec => []DescsAccountedFor
  <1>1. DiskInv => DescsAccountedFor
    BY Zenon DEF DiskInv
  <1> QED BY <1>1, DiskAlways, PTL

(* Every request goes through the avail ring, the device and the used ring *)
(* once, describes its call while it does, and its completion is noticed   *)
(* and taken for the right buffer, also when the 16-bit indices wrap.      *)
THEOREM RequestsInvariant == DiskSpec => []RequestTracked
  <1>1. DiskInv => RequestTracked
    BY Zenon DEF DiskInv
  <1> QED BY <1>1, DiskAlways, PTL

(* virtio_disk_rw() never returns before its transfer is made.             *)
THEOREM TransferInvariant == DiskSpec => ReturnsTransferred
  <1> DEFINE Returns == \A b \in IoBuf : rwpc[b] # "out" /\ rwpc'[b] = "out" => Transferred(b)
  <1>1. DiskInv /\ [DiskNext]_diskvars => [Returns]_diskvars
    BY ReturnStep, Zenon
  <1>2. [][Returns]_diskvars <=> ReturnsTransferred
    BY DEF ReturnsTransferred
  <1> HIDE DEF Returns
  <1> QED BY <1>1, <1>2, DiskAlways, PTL DEF DiskSpec
=============================================================================
