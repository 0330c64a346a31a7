------------------------------- MODULE Malloc -------------------------------
(***************************************************************************)
(* The user-level allocator (user/umalloc.c): a circular list of free      *)
(* blocks in address order, entered at freep, first fit from there, with   *)
(* neighbours merged on free.  Addresses and sizes are in units of Header. *)
(* sbrk is the kernel's: it extends the heap or fails, and the program may *)
(* call it itself between two mallocs.                                     *)
(***************************************************************************)
EXTENDS Naturals, FiniteSets

CONSTANTS
  MaxBrk,    \* bound on the heap: it is 1 .. MaxBrk
  MinCore,   \* morecore asks for at least this much
  Sizes      \* units asked for, header included

ASSUME MallocAssumption ==
  /\ MaxBrk \in Nat
  /\ MinCore \in Nat \ {0}
  /\ Sizes \subseteq Nat \ {0, 1}

Base == 0                \* &base, below the heap
Null == MaxBrk + 1       \* freep == 0
Addr == Base .. MaxBrk

VARIABLES
  ptr,     \* header -> next free block
  size,    \* header -> units in its block
  freep,   \* where the next search starts, or Null
  top,     \* the first unit beyond the heap
  used,    \* blocks handed out
  holes,   \* units the program took with sbrk itself
  want     \* the malloc in progress asks for this, or 0

mallocVars == <<ptr, size, freep, top, used, holes, want>>

MallocInit ==
  /\ ptr = [a \in Addr |-> Base]
  /\ size = [a \in Addr |-> 0]
  /\ freep = Null
  /\ top = 1
  /\ used = {}
  /\ holes = {}
  /\ want = 0

\* The k-th block after a on the list.
NextFree[a \in Addr, k \in Nat] == IF k = 0 THEN a ELSE ptr[NextFree[a, k - 1]]

\* The blocks met from a on, and the first of them that is in hits.
Visited(a) == [k \in 0 .. MaxBrk |-> NextFree[a, k]]
Met(a) == {Visited(a)[k] : k \in 0 .. MaxBrk}
FirstFrom(a, hits) ==
  LET v == Visited(a)
      k == CHOOSE i \in 0 .. MaxBrk :
             v[i] \in hits /\ \A j \in 0 .. i - 1 : v[j] \notin hits
  IN  v[k]

\* free: where the search of the list stops for block b.
Preceding(b) ==
  {p \in Met(freep) : \/ b > p /\ b < ptr[p]
                      \/ p >= ptr[p] /\ (b > p \/ b < ptr[p])}

\* Mutant: a merge that forgets the size of the block above.
FreedShort(b, n) ==
  LET p == FirstFrom(freep, Preceding(b))
      bptr == IF b + n = ptr[p] THEN ptr[ptr[p]] ELSE ptr[p]
  IN  IF p + size[p] = b
      THEN [ptr |-> [ptr EXCEPT ![p] = bptr],
            size |-> [size EXCEPT ![p] = size[p] + n], freep |-> p]
      ELSE [ptr |-> [ptr EXCEPT ![b] = bptr, ![p] = b],
            size |-> [size EXCEPT ![b] = n], freep |-> p]

\* Joins b to the block above it, then to the one below.
Freed(b, n) ==
  LET p     == FirstFrom(freep, Preceding(b))
      up    == b + n = ptr[p]
      bsize == IF up THEN n + size[ptr[p]] ELSE n
      bptr  == IF up THEN ptr[ptr[p]] ELSE ptr[p]
  IN  IF p + size[p] = b
      THEN [ptr |-> [ptr EXCEPT ![p] = bptr],
            size |-> [size EXCEPT ![p] = size[p] + bsize], freep |-> p]
      ELSE [ptr |-> [ptr EXCEPT ![b] = bptr, ![p] = b],
            size |-> [size EXCEPT ![b] = bsize], freep |-> p]

free(b) ==
  /\ want = 0
  /\ b \in used
  /\ used' = used \ {b}
  /\ LET f == Freed(b, size[b]) IN
       ptr' = f.ptr /\ size' = f.size /\ freep' = f.freep
  /\ UNCHANGED <<top, holes, want>>

\* malloc is entered; the first call makes the list of base alone.
MallocCall(n) ==
  /\ want = 0
  /\ want' = n
  /\ IF freep = Null
     THEN /\ freep' = Base
          /\ ptr' = [ptr EXCEPT ![Base] = Base]
          /\ size' = [size EXCEPT ![Base] = 0]
     ELSE UNCHANGED <<ptr, size, freep>>
  /\ UNCHANGED <<top, used, holes>>

\* The values of prevp at which malloc's search may stop: the block after it fits.
Fits == {q \in Met(freep) : size[ptr[q]] >= want}

\* First fit: the whole block, or the tail of a larger one.
MallocFit ==
  /\ want # 0
  /\ Fits # {}
  /\ LET prevp == FirstFrom(freep, Fits)
         p     == ptr[prevp]
         rest  == size[p] - want
     IN  /\ freep' = prevp
         /\ used' = used \cup {p + rest}
         /\ IF rest = 0
            THEN /\ ptr' = [ptr EXCEPT ![prevp] = ptr[p]]
                 /\ UNCHANGED size
            ELSE /\ size' = [size EXCEPT ![p] = rest, ![p + rest] = want]
                 /\ UNCHANGED ptr
  /\ want' = 0
  /\ UNCHANGED <<top, holes>>

\* Nothing fits: morecore takes units from sbrk and frees them into the list,
\* and the search goes on from freep.
MoreCore ==
  /\ want # 0
  /\ Fits = {}
  /\ LET nu == IF want < MinCore THEN MinCore ELSE want
         f  == Freed(top, nu)
     IN  /\ top + nu <= MaxBrk + 1
         /\ ptr' = f.ptr /\ size' = f.size /\ freep' = f.freep
         /\ top' = top + nu
  /\ UNCHANGED <<used, holes, want>>

\* sbrk refuses: malloc returns 0.
MoreCoreFails ==
  /\ want # 0
  /\ Fits = {}
  /\ want' = 0
  /\ UNCHANGED <<ptr, size, freep, top, used, holes>>

\* The program moves the break itself.
OwnSbrk ==
  /\ want = 0
  /\ top <= MaxBrk
  /\ holes' = holes \cup {top}
  /\ top' = top + 1
  /\ UNCHANGED <<ptr, size, freep, used, want>>

MallocNext ==
  \/ \E n \in Sizes : MallocCall(n)
  \/ MallocFit
  \/ MoreCore
  \/ MoreCoreFails
  \/ \E b \in used : free(b)
  \/ OwnSbrk

MallocSpec == MallocInit /\ [][MallocNext]_mallocVars

-----------------------------------------------------------------------------
\* The blocks on the list, base aside, and what a block covers.
FreeList == IF freep = Null THEN {} ELSE Met(freep) \ {Base}
Covers(a) == a .. a + size[a] - 1

MallocTypeOK ==
  /\ ptr \in [Addr -> Addr]
  /\ size \in [Addr -> 0 .. MaxBrk]
  /\ freep \in Addr \cup {Null}
  /\ used \subseteq Addr
  /\ want \in Sizes \cup {0}

\* Free blocks, blocks handed out and units the program took itself tile the
\* heap: malloc never gives a unit out twice, and free never loses one or joins
\* blocks across memory that is not its own.
HeapTiled ==
  /\ UNION {Covers(a) : a \in FreeList \cup used} = (1 .. top - 1) \ holes
  /\ \A a, b \in FreeList \cup used : a # b => Covers(a) \cap Covers(b) = {}

\* The list is circular through base with one step down, from the highest block
\* to base, and no two neighbours on it touch: free merged all it could.
ListSorted ==
  freep # Null =>
    /\ Base \in Met(freep)
    /\ \A a \in FreeList \cup {Base} :
         /\ ptr[a] = Base \/ (ptr[a] > a /\ ptr[a] # a + size[a])
         /\ ~ \E c \in FreeList : a < c /\ c < ptr[a]

MallocInv == MallocTypeOK /\ HeapTiled /\ ListSorted
=============================================================================
