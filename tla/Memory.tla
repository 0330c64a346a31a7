------------------------------- MODULE Memory -------------------------------
(***************************************************************************)
(* Physical pages (kernel/kalloc.c), page tables (kernel/vm.c) and what    *)
(* fork, exec, sbrk, page faults, exit and wait do to them (kernel/proc.c, *)
(* exec.c, sysproc.c, trap.c), with memory running out at any call of      *)
(* kalloc().                                                               *)
(*                                                                         *)
(* A page table belongs to one process and only that process changes it,   *)
(* so a call of a function of vm.c is one step; other processes show in    *)
(* how many of its calls of kalloc() find a page (the parameter k).  These *)
(* functions take and return a record of what they work on.                *)
(***************************************************************************)
EXTENDS Naturals, FiniteSets, SequencesExt

CONSTANTS
    NFrame,     \* the pages of physical memory are 1 .. NFrame
    NProc,      \* the slots of proc[] are 1 .. NProc
    PGSIZE,
    UserPages,  \* TRAPFRAME is the page after this many
    LEAF,       \* the pages one leaf directory maps
    WORD,       \* addresses are uint64: modulo WORD
    Programs,   \* the executable files, sequences of program headers
    Grows, Shrinks,  \* what programs pass to sbrk(), without the sign
    MaxCall, MaxTotal  \* the limits on sbrk() of a filtered process

Frame == 1 .. NFrame
Process == 1 .. NProc
Trampoline == 0                 \* the kernel's page, mapped in every table
TRAPFRAME == UserPages          \* page numbers
TRAMPOLINE == UserPages + 1

ASSUME MemoryAssumption ==
    /\ NFrame \in Nat /\ NProc \in Nat \ {0} /\ PGSIZE \in Nat \ {0}
    /\ LEAF \in Nat \ {0} /\ UserPages \in Nat /\ WORD > (UserPages + 2) * PGSIZE
    /\ Grows \subseteq Nat /\ Shrinks \subseteq Nat

VARIABLES
    freelist, \* kmem.freelist, as a set
    content,  \* what is in a page: "junk" or what its user put there
    state,    \* "UNUSED", "USED", "LIVE" or "ZOMBIE"
    tf,       \* p->trapframe, 0 when null
    table,    \* p->pagetable
    sz,       \* p->sz
    pc,       \* where a process is in fork() or exec(), else "user"
    child,    \* kfork()'s np
    exec,     \* kexec()'s locals: the table, sz, the headers to read, fit
    capped,   \* the bit of SYS_sbrk is set in p->syscall_mask
    oops      \* the panics and double frees there have been

callvars == <<pc, child, exec>>
memvars == <<freelist, content, state, tf, table, sz, callvars, capped, oops>>

(* A page table: the frames of its directories and its leaves.  User pages *)
(* share the directory above their leaf directories; the trapframe and the *)
(* trampoline share both.                                                  *)
Root == <<"root", 0>>
Path(v) == IF v < UserPages THEN << <<"lo1", 0>>, <<"lo0", v \div LEAF>> >>
                            ELSE << <<"hi1", 0>>, <<"hi0", 0>> >>
Directories == {Root} \cup UNION {Range(Path(v)) : v \in 0 .. TRAMPOLINE}
NoTable == [dir |-> <<>>, pte |-> <<>>]

NoExec == [pt |-> NoTable, sz |-> 0, phdrs |-> <<>>, fit |-> TRUE]

(* PGROUNDUP, as a number of pages.                                        *)
PgUp(n) == (n + PGSIZE - 1) \div PGSIZE

Pages(lo, hi) == [i \in 1 .. (IF hi > lo THEN hi - lo ELSE 0) |-> lo + i - 1]

-----------------------------------------------------------------------------
(* A computation: the free pages, their contents, how many more calls of   *)
(* kalloc() succeed, the page table at hand, and whether all went well.    *)
Work(k, t) ==
    [free |-> freelist, content |-> content, k |-> k, pt |-> t,
     ok |-> TRUE, oops |-> oops]

Failed(s) == [s EXCEPT !.ok = FALSE]

Oops(s, bad, what) == IF bad THEN [s EXCEPT !.oops = @ \cup {what}] ELSE s

Top(s) == CHOOSE f \in s.free : \A g \in s.free : f <= g

(* kalloc() succeeds; the page then gets the content c.                    *)
KAlloc(s, c) ==
    [s EXCEPT !.free = @ \ {Top(s)}, !.k = @ - 1, !.content[Top(s)] = c]

KFree(s, fs) ==
    Oops([s EXCEPT !.free = @ \cup fs,
                   !.content = [f \in Frame |-> IF f \in fs THEN "junk" ELSE @[f]]],
         fs \cap s.free # {} \/ ~(fs \subseteq Frame), "kfree")

(* walk(pagetable, va, 1)                                                  *)
Walk(s, v) ==
    LET level(t, d) ==
            IF ~t.ok \/ d \in DOMAIN t.pt.dir THEN t
            ELSE IF t.k = 0 THEN Failed(t)
            ELSE [KAlloc(t, "good") EXCEPT !.pt.dir = @ @@ (d :> Top(t))]
    IN FoldLeft(level, s, Path(v))

MapPages(s, v, f, perm) ==
    LET w == Walk(s, v) IN
    IF ~w.ok THEN w
    ELSE Oops([w EXCEPT !.pt.pte = (v :> [pa |-> f, perm |-> perm]) @@ @],
              v \in DOMAIN w.pt.pte, "remap")

(* Mutant: the page is not given back when mappages() fails.               *)
NewPageLeaks(s, v, perm, c) ==
    IF s.k = 0 THEN Failed(s) ELSE MapPages(KAlloc(s, c), v, Top(s), perm)
(* kalloc() and mappages(), as uvmalloc(), uvmcopy() and vmfault() do.     *)
NewPage(s, v, perm, c) ==
    IF s.k = 0 THEN Failed(s)
    ELSE LET m == MapPages(KAlloc(s, c), v, Top(s), perm)
         IN IF m.ok THEN m ELSE KFree(m, {Top(s)})

Leaves(pt, vs) == {pt.pte[v].pa : v \in vs \cap DOMAIN pt.pte}

Unmapped(s, vs) ==
    [s EXCEPT !.pt.pte = [v \in DOMAIN s.pt.pte \ vs |-> s.pt.pte[v]]]

(* uvmunmap() with do_free                                                 *)
UvmUnmap(s, vs) == KFree(Unmapped(s, vs), Leaves(s.pt, vs))

UvmDealloc(s, old, new) ==
    IF new >= old THEN s ELSE UvmUnmap(s, PgUp(new) .. PgUp(old) - 1)

(* uvmalloc(): s.ok is the success, new or the old size the result.        *)
UvmAlloc(s, old, new, perm) ==
    LET page(t, v) ==
            IF t.ok THEN NewPage(t, v, perm \cup {"U"}, "good") ELSE t
        grown == FoldLeft(page, s, Pages(PgUp(old), PgUp(new)))
    IN IF grown.ok THEN grown ELSE UvmUnmap(grown, PgUp(old) .. PgUp(new) - 1)

(* freewalk()                                                              *)
FreeWalk(s) ==
    LET t == KFree(s, {s.pt.dir[d] : d \in DOMAIN s.pt.dir})
    IN [Oops(t, DOMAIN s.pt.pte # {}, "freewalk") EXCEPT !.pt = NoTable]

UvmFree(s, n) == FreeWalk(UvmUnmap(s, 0 .. PgUp(n) - 1))

ProcFreePagetable(s, n) == UvmFree(Unmapped(s, {TRAMPOLINE, TRAPFRAME}), n)

(* proc_pagetable() and uvmcreate().  Both pages are in one directory, so  *)
(* the second mappages() needs no page and does not fail.                  *)
ProcPagetable(s, trapframe) ==
    IF s.k = 0 THEN Failed(s)
    ELSE LET created == [KAlloc(s, "good") EXCEPT !.pt.dir = Root :> Top(s)]
             mapped == MapPages(created, TRAMPOLINE, Trampoline, {"X"})
         IN IF mapped.ok THEN MapPages(mapped, TRAPFRAME, trapframe, {"W"})
            ELSE UvmFree(mapped, 0)

(* Mutant: the last page is left out when the size is not a                *)
(* multiple of PGSIZE.                                                     *)
UvmCopyWhole(s, old, n) ==
    LET page(t, v) ==
            IF ~t.ok \/ v \notin DOMAIN old.pte THEN t
            ELSE NewPage(t, v, old.pte[v].perm, content[old.pte[v].pa])
        copied == FoldLeft(page, s, Pages(0, n \div PGSIZE))
    IN IF copied.ok THEN copied ELSE UvmUnmap(copied, 0 .. PgUp(n) - 1)
(* uvmcopy() from the table old; the errors of both kinds end alike.       *)
UvmCopy(s, old, n) ==
    LET page(t, v) ==
            IF ~t.ok \/ v \notin DOMAIN old.pte THEN t
            ELSE NewPage(t, v, old.pte[v].perm, content[old.pte[v].pa])
        copied == FoldLeft(page, s, Pages(0, PgUp(n)))
    IN IF copied.ok THEN copied ELSE UvmUnmap(copied, 0 .. PgUp(n) - 1)

-----------------------------------------------------------------------------
(* userinit(): init has a trapframe and an empty page table, and its first *)
(* step is the exec of /init in forkret().                                 *)
MemInit ==
    /\ freelist = Frame \ 1 .. 4
    /\ content = [f \in Frame |-> IF f \in freelist THEN "junk" ELSE "good"]
    /\ state = [p \in Process |-> IF p = 1 THEN "LIVE" ELSE "UNUSED"]
    /\ tf = [p \in Process |-> IF p = 1 THEN 1 ELSE 0]
    /\ table = [p \in Process |-> IF p # 1 THEN NoTable ELSE
                  [dir |-> (Root :> 2) @@ (Path(TRAPFRAME)[1] :> 3) @@ (Path(TRAPFRAME)[2] :> 4),
                   pte |-> (TRAMPOLINE :> [pa |-> Trampoline, perm |-> {"X"}])
                           @@ (TRAPFRAME :> [pa |-> 1, perm |-> {"W"}])]]
    /\ sz = [p \in Process |-> 0]
    /\ pc = [p \in Process |-> "user"]
    /\ child = [p \in Process |-> 0]
    /\ exec = [p \in Process |-> NoExec]
    /\ capped = [p \in Process |-> FALSE]
    /\ oops = {}

(* A process that makes system calls has its text, which starts at 0.      *)
Running(p) == state[p] = "LIVE" /\ pc[p] = "user" /\ 0 \in DOMAIN table[p].pte

Go(p, l) == pc' = [pc EXCEPT ![p] = l]

(* The number of calls of kalloc() that succeed, when at most n are made.  *)
Budget(n) == 0 .. (IF n < Cardinality(freelist) THEN n ELSE Cardinality(freelist))

Commit(s) == freelist' = s.free /\ content' = s.content /\ oops' = s.oops

(* allocproc() in kfork(), with the slot q.                                *)
ForkAlloc(p, q, k) ==
    LET trapframe == Top(Work(k, NoTable))
        made == ProcPagetable(KAlloc(Work(k, NoTable), "good"), trapframe)
    IN /\ Running(p) /\ state[q] = "UNUSED" /\ k > 0
       /\ IF made.ok
          THEN /\ Commit(made)
               /\ state' = [state EXCEPT ![q] = "USED"]
               /\ tf' = [tf EXCEPT ![q] = trapframe]
               /\ table' = [table EXCEPT ![q] = made.pt]
               /\ child' = [child EXCEPT ![p] = q]
               /\ Go(p, "fork")
          ELSE Commit(KFree(made, {trapframe})) /\ UNCHANGED <<state, tf, table, child, pc>>
       /\ UNCHANGED <<sz, exec, capped>>

(* uvmcopy() in kfork(), which then sets np->sz.                           *)
ForkCopy(p, k) ==
    LET q == child[p]
        copied == UvmCopy(Work(k, table[q]), table[p], sz[p])
    IN /\ pc[p] = "fork"
       /\ Commit(copied)
       /\ table' = [table EXCEPT ![q] = copied.pt]
       /\ IF copied.ok
          THEN /\ state' = [state EXCEPT ![q] = "LIVE"]
               /\ sz' = [sz EXCEPT ![q] = sz[p]]
               /\ capped' = [capped EXCEPT ![q] = capped[p]]
               /\ child' = [child EXCEPT ![p] = 0]
               /\ Go(p, "user")
          ELSE Go(p, "forkbad") /\ UNCHANGED <<state, sz, capped, child>>
       /\ UNCHANGED <<tf, exec>>

(* freeproc()                                                              *)
FreeProc(q) ==
    /\ Commit(ProcFreePagetable(KFree(Work(0, table[q]), {tf[q]}), sz[q]))
    /\ state' = [state EXCEPT ![q] = "UNUSED"]
    /\ tf' = [tf EXCEPT ![q] = 0]
    /\ table' = [table EXCEPT ![q] = NoTable]
    /\ sz' = [sz EXCEPT ![q] = 0]
    /\ capped' = [capped EXCEPT ![q] = FALSE]

ForkBad(p) ==
    /\ pc[p] = "forkbad"
    /\ FreeProc(child[p])
    /\ child' = [child EXCEPT ![p] = 0]
    /\ Go(p, "user")
    /\ UNCHANGED exec

-----------------------------------------------------------------------------
(* kexec() up to proc_pagetable()                                          *)
ExecStart(p, prog, k) ==
    LET made == ProcPagetable(Work(k, NoTable), tf[p])
    IN /\ Running(p) \/ (p = 1 /\ pc[p] = "user" /\ sz[p] = 0)
       /\ Commit(made)
       /\ IF made.ok
          THEN /\ exec' = [exec EXCEPT ![p] = [pt |-> made.pt, sz |-> 0,
                              phdrs |-> prog.phdrs, fit |-> prog.fit]]
               /\ Go(p, "exec")
          ELSE UNCHANGED <<exec, pc>>
       /\ UNCHANGED <<state, tf, table, sz, child, capped>>

Flags2Perm(flags) == (IF 1 \in flags THEN {"X"} ELSE {}) \cup (IF 2 \in flags THEN {"W"} ELSE {})

(* loadseg() panics over a page that is not there.                         *)
Loadable(pt, ph) ==
    \A v \in ph.vaddr \div PGSIZE .. PgUp(ph.vaddr + ph.filesz) - 1 :
        v \in DOMAIN pt.pte /\ "U" \in pt.pte[v].perm

(* kexec()'s tests of a program header.                                    *)
WellFormed(ph) ==
    /\ ph.memsz >= ph.filesz
    /\ (ph.vaddr + ph.memsz) % WORD >= ph.vaddr
    /\ ph.vaddr % PGSIZE = 0

(* One turn of kexec()'s loop over the program headers; ph.whole says that *)
(* the file holds all of the segment.                                      *)
ExecSegment(p, k) ==
    LET x == exec[p]
        ph == Head(x.phdrs)
        end == (ph.vaddr + ph.memsz) % WORD
        grown == UvmAlloc(Work(k, x.pt), x.sz, end, Flags2Perm(ph.flags))
        sz1 == IF end < x.sz THEN x.sz ELSE end
    IN /\ pc[p] = "exec" /\ x.phdrs # <<>>
       /\ IF ~WellFormed(ph)
          THEN Go(p, "execbad") /\ UNCHANGED <<freelist, content, oops, exec>>
          ELSE /\ Commit(Oops(grown, grown.ok /\ sz1 # 0 /\ ~Loadable(grown.pt, ph), "loadseg"))
               /\ exec' = [exec EXCEPT ![p] = [x EXCEPT !.pt = grown.pt,
                              !.sz = IF grown.ok THEN sz1 ELSE @, !.phdrs = Tail(@)]]
               /\ Go(p, IF grown.ok /\ sz1 # 0 /\ ph.whole THEN "exec" ELSE "execbad")
       /\ UNCHANGED <<state, tf, table, sz, child, capped>>

(* The guard page and the stack, uvmclear(), and the arguments, which may  *)
(* not fit.                                                                *)
ExecStack(p, k) ==
    LET x == exec[p]
        guard == PgUp(x.sz)
        top == (guard + 2) * PGSIZE
        grown == UvmAlloc(Work(k, x.pt), guard * PGSIZE, top, {"W"})
    IN /\ pc[p] = "exec" /\ x.phdrs = <<>>
       /\ Commit(grown)
       /\ exec' = [exec EXCEPT ![p] =
             IF grown.ok
             THEN [x EXCEPT !.sz = top, !.pt = [grown.pt EXCEPT !.pte[guard].perm = @ \ {"U"}]]
             ELSE [x EXCEPT !.sz = guard * PGSIZE, !.pt = grown.pt]]
       /\ Go(p, IF grown.ok /\ x.fit THEN "execdone" ELSE "execbad")
       /\ UNCHANGED <<state, tf, table, sz, child, capped>>

ExecCommit(p) ==
    /\ pc[p] = "execdone"
    /\ Commit(ProcFreePagetable(Work(0, table[p]), sz[p]))
    /\ table' = [table EXCEPT ![p] = exec[p].pt]
    /\ sz' = [sz EXCEPT ![p] = exec[p].sz]
    /\ exec' = [exec EXCEPT ![p] = NoExec]
    /\ Go(p, "user")
    /\ UNCHANGED <<state, tf, child, capped>>

ExecBad(p) ==
    /\ pc[p] = "execbad"
    /\ Commit(ProcFreePagetable(Work(0, exec[p].pt), exec[p].sz))
    /\ exec' = [exec EXCEPT ![p] = NoExec]
    /\ Go(p, "user")
    /\ UNCHANGED <<state, tf, table, sz, child, capped>>

-----------------------------------------------------------------------------

(* Mutant: the size before the call is tested.                             *)
SbrkAdmittedOld(p, grow, new) == ~capped[p] \/ (grow <= MaxCall /\ sz[p] <= MaxTotal)
(* The test of SYS_sbrk in syscall(), for a process with its bit set.      *)
SbrkAdmitted(p, grow, new) == ~capped[p] \/ (grow <= MaxCall /\ new <= MaxTotal)

(* sys_sbrk(n, SBRK_EAGER) and growproc()                                  *)
SbrkEager(p, n, k) ==
    LET grown == UvmAlloc(Work(k, table[p]), sz[p], sz[p] + n, {"W"})
    IN /\ Running(p) /\ SbrkAdmitted(p, n, sz[p] + n)
       /\ sz[p] + n <= TRAPFRAME * PGSIZE
       /\ Commit(grown)
       /\ table' = [table EXCEPT ![p] = grown.pt]
       /\ sz' = [sz EXCEPT ![p] = IF grown.ok THEN @ + n ELSE @]
       /\ UNCHANGED <<state, tf, callvars, capped>>

(* sys_sbrk(n, SBRK_LAZY)                                                  *)
SbrkLazy(p, n) ==
    /\ Running(p) /\ SbrkAdmitted(p, n, sz[p] + n)
    /\ sz[p] + n <= TRAPFRAME * PGSIZE
    /\ sz' = [sz EXCEPT ![p] = @ + n]
    /\ UNCHANGED <<freelist, content, state, tf, table, callvars, capped, oops>>

(* sys_sbrk(-n): with n > p->sz the new size wraps and nothing happens.    *)
Shrink(p, n) ==
    /\ Running(p) /\ n <= sz[p] /\ SbrkAdmitted(p, 0, sz[p] - n)
    /\ LET cut == UvmDealloc(Work(0, table[p]), sz[p], sz[p] - n)
       IN Commit(cut) /\ table' = [table EXCEPT ![p] = cut.pt]
    /\ sz' = [sz EXCEPT ![p] = @ - n]
    /\ UNCHANGED <<state, tf, callvars, capped>>

(* setfilter() with the bit of SYS_sbrk                                    *)
SetFilter(p) ==
    /\ Running(p)
    /\ capped' = [capped EXCEPT ![p] = TRUE]
    /\ UNCHANGED <<freelist, content, state, tf, table, sz, callvars, oops>>

-----------------------------------------------------------------------------
Accessible(pt, v) == v \in DOMAIN pt.pte /\ "U" \in pt.pte[v].perm
Writable(pt, v) == v \in DOMAIN pt.pte /\ "W" \in pt.pte[v].perm

(* Mutant: the byte at p->sz is taken for part of the process.             *)
VmFaultAtSize(s, p, a) ==
    IF a > sz[p] \/ a \div PGSIZE \in DOMAIN s.pt.pte THEN Failed(s)
    ELSE NewPage(s, a \div PGSIZE, {"W", "U"}, "good")
(* vmfault() for the address a, with ismapped()                            *)
VmFault(s, p, a) ==
    IF a >= sz[p] \/ a \div PGSIZE \in DOMAIN s.pt.pte THEN Failed(s)
    ELSE NewPage(s, a \div PGSIZE, {"W", "U"}, "good")

(* A load or a store of the program that faults, a store also when the     *)
(* page is read-only: usertrap() maps the page or kills the process.       *)
(* init's program does not fault for good.                                 *)
PageFault(p, a, k) ==
    LET v == a \div PGSIZE
        s == VmFault(Work(k, table[p]), p, a)
    IN /\ Running(p) /\ (s.ok \/ p # 1)
       /\ ~(Accessible(table[p], v) /\ Writable(table[p], v))
       /\ Commit(s)
       /\ table' = [table EXCEPT ![p] = s.pt]
       /\ state' = [state EXCEPT ![p] = IF s.ok THEN @ ELSE "ZOMBIE"]
       /\ UNCHANGED <<tf, sz, callvars, capped>>

(* copyout() (out) and copyin() over the pages vs, one at a time, where    *)
(* one of them is lazily allocated; elsewhere they only copy or fail.      *)
Copy(p, vs, out, k) ==
    LET page(s, v) ==
            LET t == IF Accessible(s.pt, v) THEN s ELSE VmFault(s, p, v * PGSIZE)
            IN IF ~s.ok THEN s
               ELSE IF t.ok /\ (out => Writable(t.pt, v)) THEN t ELSE Failed(t)
        done == FoldLeft(page, Work(k, table[p]), vs)
    IN /\ Running(p)
       /\ \E v \in Range(vs) : v \notin DOMAIN table[p].pte /\ v * PGSIZE < sz[p]
       /\ Commit(done)
       /\ table' = [table EXCEPT ![p] = done.pt]
       /\ UNCHANGED <<state, tf, sz, callvars, capped>>

(* kexit() leaves the memory to kwait() and freeproc().                    *)
Exit(p) ==
    /\ state[p] = "LIVE" /\ pc[p] = "user" /\ p # 1
    /\ state' = [state EXCEPT ![p] = "ZOMBIE"]
    /\ UNCHANGED <<freelist, content, tf, table, sz, callvars, capped, oops>>

Reap(p) == state[p] = "ZOMBIE" /\ FreeProc(p) /\ UNCHANGED callvars

(* The bounds of Budget() are the most pages the call can ask for.         *)
MemNext ==
    \E p \in Process :
        \/ SetFilter(p) \/ Exit(p) \/ Reap(p) \/ ForkBad(p) \/ ExecCommit(p) \/ ExecBad(p)
        \/ \E n \in Shrinks : Shrink(p, n)
        \/ \E n \in Grows : SbrkLazy(p, n) \/ (\E k \in Budget(n + 1) : SbrkEager(p, n, k))
        \/ \E q \in Process, k \in Budget(4) : ForkAlloc(p, q, k)
        \/ \E k \in Budget(UserPages + Cardinality(Directories)) : ForkCopy(p, k) \/ ExecSegment(p, k)
        \/ \E k \in Budget(5) : ExecStack(p, k)
        \/ \E prog \in Programs, k \in Budget(3) : ExecStart(p, prog, k)
        \/ \E a \in 0 .. TRAPFRAME * PGSIZE, k \in Budget(2) : PageFault(p, a, k)
        \/ \E v \in 0 .. TRAPFRAME, out \in BOOLEAN, k \in Budget(4) :
              Copy(p, <<v, v + 1>>, out, k)

MemSpec == MemInit /\ [][MemNext]_memvars

-----------------------------------------------------------------------------
UserLeaves(pt) == {v \in DOMAIN pt.pte : v < UserPages}

(* The frames of a table, and the number of its entries that name one.     *)
Owned(pt) == {pt.dir[d] : d \in DOMAIN pt.dir} \cup Leaves(pt, 0 .. UserPages - 1)
Entries(pt) == Cardinality(DOMAIN pt.dir) + Cardinality(UserLeaves(pt))

(* No page of physical memory is lost and none is used twice: a page that  *)
(* is not free is named by exactly one page-table entry, directory entry   *)
(* or trapframe pointer, however far fork, exec, sbrk or a fault got when  *)
(* memory ran out, and a free one by none.                                 *)
FramesAccountedFor ==
    LET taken == UNION {Owned(table[p]) \cup Owned(exec[p].pt) \cup ({tf[p]} \ {0}) : p \in Process}
        names(p) == Entries(table[p]) + Entries(exec[p].pt) + (IF tf[p] = 0 THEN 0 ELSE 1)
    IN /\ taken \subseteq Frame /\ freelist = Frame \ taken
       /\ Cardinality(taken) = MapThenSumSet(names, Process)

(* The panics of vm.c and kalloc.c are not reached, and no page is freed   *)
(* twice: no mapping over an existing one (mappages "remap"), no table     *)
(* torn down with pages left in it (freewalk "leaf"), no segment loaded    *)
(* where nothing is mapped (loadseg).                                      *)
NoVmPanic == oops = {}

MemTypeOK ==
    /\ freelist \subseteq Frame /\ content \in [Frame -> {"junk", "good"}]
    /\ state \in [Process -> {"UNUSED", "USED", "LIVE", "ZOMBIE"}]
    /\ tf \in [Process -> Frame \cup {0}]
    /\ \A p \in Process : DOMAIN table[p].dir \subseteq Directories
    /\ sz \in [Process -> 0 .. TRAPFRAME * PGSIZE] /\ capped \in [Process -> BOOLEAN]

(* vm.c panics nowhere, and p->sz and the page table agree: user pages lie *)
(* below the size, the trapframe is the process's own, out of reach of     *)
(* user code like the trampoline, and no page a program can reach holds    *)
(* what kalloc() or an earlier owner left in it.                           *)
PagesSound ==
    /\ MemTypeOK /\ NoVmPanic
    /\ \A p \in Process : state[p] # "UNUSED" =>
          LET pte == table[p].pte IN
          /\ \A v \in UserLeaves(table[p]) : v < PgUp(sz[p]) /\ content[pte[v].pa] # "junk"
          /\ pte[TRAPFRAME].pa = tf[p] /\ pte[TRAMPOLINE].pa = Trampoline
          /\ "U" \notin pte[TRAPFRAME].perm \cup pte[TRAMPOLINE].perm

Image(p) == [v \in UserLeaves(table[p]) |-> table[p].pte[v].perm]

(* A child starts with its parent's pages, those that lazy allocation has  *)
(* not filled in yet left out, and the parent is as it was (kfork() and    *)
(* uvmcopy()).                                                             *)
ForkCopies ==
    [][\A q \in Process : state[q] = "USED" /\ state'[q] = "LIVE" =>
          \E p \in Process :
             /\ state[p] = "LIVE" /\ table'[p] = table[p]
             /\ sz'[q] = sz[p] /\ Image(q)' = Image(p)]_memvars

(* A process whose mask has the bit of SYS_sbrk grows beyond the total     *)
(* limit of syscall() in no other way than by exec, which gives it a new   *)
(* page table.                                                             *)
QuotaHolds ==
    [][\A p \in Process :
          capped[p] /\ sz'[p] > sz[p] /\ table'[p].dir[Root] = table[p].dir[Root]
             => sz'[p] <= MaxTotal]_memvars
=============================================================================
