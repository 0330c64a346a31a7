----------------------------- MODULE FileSystem -----------------------------
(***************************************************************************)
(* Inodes, directories and the system calls on them (kernel/fs.c, file.c,  *)
(* sysfile.c), on top of what the log promises (AtomicDisk): the disk      *)
(* after a crash is the disk when last no operation was under way.  As all *)
(* else is lost in a crash, a crash during operations leads to the same    *)
(* states as one before them, and only the latter is modelled.             *)
(*                                                                         *)
(* A step runs up to the next place where another thread can come in       *)
(* between: an ilock() that may have to wait, or a critical section of     *)
(* itable.lock.  The table's entry for an inode is indexed by the inode's  *)
(* number: iget() never makes two.  A file or directory has one block; a   *)
(* directory may turn out to need another when the disk is full.           *)
(***************************************************************************)
EXTENDS Naturals, FiniteSets, Sequences

CONSTANTS
    Thread, NoThread,
    NInodes,    \* sb.ninodes - 1
    Name, DotDot,
    Block, NoBlock,
    Calls,      \* bound: the system calls each thread makes, with their paths
    NewPaths    \* bound: the second arguments of link()

Inum == 1 .. NInodes
Root == 1       \* ROOTINO
None == 0       \* de.inum == 0, or no inode

ASSUME FsAssumption == NInodes \in Nat \ {0} /\ NoThread \notin Thread /\ NoBlock \notin Block
ASSUME CallsAssumption == DotDot \notin Name /\ \A t \in Thread : \A c \in Calls[t] :
    /\ c[1] \in {"open", "create", "mkdir", "unlink", "link", "chdir", "audit"}
    /\ \A p \in {c[2]} \cup NewPaths : \A k \in 1 .. Len(p.names) :
        p.names[k] \in Name \/ (p.names[k] = DotDot /\ k = Len(p.names))

VARIABLES
    dinode,     \* disk: struct dinode of each inode
    entries,    \* disk: the directory entries but "."
    bitmap,     \* disk: the blocks in use
    ref, valid, mem, holder,  \* itable: ref, valid, the copy, the lock
    cwd, file,  \* p->cwd and the inode of p's one open file
    th,         \* where each thread is in its call, with its locals
    reclaim,    \* boot: the inode ireclaim() is at; None once it is done
    strayed     \* history: a ".." has led a thread to an inode without links

fsvars == <<dinode, entries, bitmap, ref, valid, mem, holder, cwd, file, th, reclaim, strayed>>

(* balloc().                                                               *)
FirstFree(used) == CHOOSE b \in Block : b \notin used

Free == [type |-> "none", nlink |-> 0, addr |-> NoBlock]
Idle == [pc |-> "idle", call |-> "none", dp |-> None, ip |-> None, path |-> <<>>, todo |-> <<>>]

(* The entries of a new directory, and of a file.                          *)
Dots(parent) == [n \in Name \cup {DotDot} |-> IF n = DotDot THEN parent ELSE None]
NoEntries == Dots(None)

(* A path starts at the root or at the caller's current directory.         *)
Start(t, path) == IF path.from = "/" THEN Root ELSE cwd[t]

FsInit ==
    /\ bitmap = {FirstFree({})}
    /\ dinode = [i \in Inum |-> IF i # Root THEN Free
                   ELSE [type |-> "DIR", nlink |-> 1, addr |-> FirstFree({})]]
    /\ entries = [i \in Inum |-> IF i = Root THEN Dots(Root) ELSE NoEntries]
    /\ ref = [i \in Inum |-> IF i = Root THEN Cardinality(Thread) ELSE 0]
    /\ valid = [i \in Inum |-> FALSE]
    /\ mem = [i \in Inum |-> Free]
    /\ holder = [i \in Inum |-> NoThread]
    /\ cwd = [t \in Thread |-> Root]
    /\ file = [t \in Thread |-> None]
    /\ th = [t \in Thread |-> Idle]
    /\ reclaim = Root
    /\ strayed = FALSE

-----------------------------------------------------------------------------
At(t, pc) == reclaim = None /\ th[t].pc = pc /\ th[t].todo = <<>>

(* Bound: once a thread has strayed, the calls under way are followed to   *)
(* their ends, and no other call is made.                                  *)
Ready(t) == At(t, "idle") /\ ~strayed

(* A thread goes on with other locals: first it lets go of the locks and   *)
(* references in todo, in order, then it is at pc.                         *)
Unlock(i) == [do |-> "unlock", i |-> i]
Put(i) == [do |-> "put", i |-> i]
Go(t, todo, pc, dp, ip) ==
    th' = [th EXCEPT ![t] = [@ EXCEPT !.todo = todo, !.pc = pc, !.dp = dp, !.ip = ip]]
GoWith(t, todo, pc, ip) == th' = [th EXCEPT ![t] = [Idle EXCEPT !.todo = todo, !.pc = pc, !.ip = ip]]
Finish(t, todo) == GoWith(t, todo, "end", None)

(* iget() and idup().                                                      *)
IGet(i) == ref' = [ref EXCEPT ![i] = @ + 1]

(* ilock(): waits for the lock; the inode is then as cached, or read from  *)
(* disk; panics if it has been freed.                                      *)
Unlocked(i) == holder[i] = NoThread
Inode(i) == IF valid[i] THEN mem[i] ELSE dinode[i]
ILock(i) == Unlocked(i) /\ Inode(i).type # "none"
Loaded(i) == valid' = [valid EXCEPT ![i] = TRUE] /\ mem' = [mem EXCEPT ![i] = Inode(i)]

(* ilock() of the inodes in DOMAIN new, changes to them, iupdate().        *)
IUpdate(new) ==
    /\ dinode' = [i \in Inum |-> IF i \in DOMAIN new THEN new[i] ELSE dinode[i]]
    /\ mem' = [i \in Inum |-> IF i \in DOMAIN new THEN new[i] ELSE mem[i]]
    /\ valid' = [i \in Inum |-> i \in DOMAIN new \/ valid[i]]

Only(i, inode) == [j \in {i} |-> inode]
Links(inode, n) == [inode EXCEPT !.nlink = n]

(* writei() of the one block: bmap() allocates it if the inode has none    *)
(* and balloc() finds one.                                                 *)
CanWrite(inode, used) == inode.addr # NoBlock \/ used # Block
Write(inode, used) ==
    IF inode.addr = NoBlock
    THEN [inode EXCEPT !.addr = FirstFree(used)] ELSE inode

(* dirlookup(): the entry, and the reference to its inode.                 *)
Lookup(d, name) == IF Inode(d).type = "DIR" THEN entries[d][name] ELSE None
Follow(name, ip) ==
    /\ IGet(ip)
    /\ strayed' = (strayed \/ (name = DotDot /\ dinode[ip].nlink = 0))

-----------------------------------------------------------------------------
(* begin_op(), and namex() up to its loop.                                 *)
Begin(t, call, path) ==
    /\ Ready(t)
    /\ call = "audit" => path.from = "/" /\ Len(path.names) = 1
    /\ IGet(Start(t, path))
    /\ th' = [th EXCEPT ![t] = [Idle EXCEPT !.pc = "walk", !.call = call,
                                            !.dp = Start(t, path), !.path = path.names]]
    /\ UNCHANGED <<dinode, entries, bitmap, valid, mem, holder, cwd, file, reclaim, strayed>>

(* The calls that want the parent of the last element (nameiparent()).     *)
WantsParent(t) == th[t].call \in {"create", "mkdir", "unlink", "linkto"}
AtParent(t) == At(t, "walk") /\ WantsParent(t) /\ Len(th[t].path) = 1 /\ ILock(th[t].dp)
Fail(t) ==
    IF th[t].call = "linkto" THEN GoWith(t, <<Put(th[t].dp)>>, "bad", th[t].ip)
                             ELSE Finish(t, <<Put(th[t].dp)>>)

(* One turn of namex()'s loop.                                             *)
Walk(t) ==
    /\ At(t, "walk") /\ ILock(th[t].dp)
    /\ WantsParent(t) => Len(th[t].path) > 1
    /\ LET dp == th[t].dp
           next == Lookup(dp, Head(th[t].path))
           rest == Tail(th[t].path) IN
        /\ Loaded(dp)
        /\ \/ /\ next = None
              /\ Fail(t)
              /\ UNCHANGED <<ref, strayed>>
           \/ /\ next # None /\ rest # <<>>
              /\ Follow(Head(th[t].path), next)
              /\ th' = [th EXCEPT ![t] = [@ EXCEPT !.dp = next, !.path = rest, !.todo = <<Put(dp)>>]]
           \/ /\ next # None /\ rest = <<>>
              /\ Follow(Head(th[t].path), next)
              /\ Go(t, <<Put(dp)>>, "ip", None, next)
    /\ UNCHANGED <<dinode, entries, bitmap, holder, cwd, file, reclaim>>

(* The directory of the last element is no directory, or has no entry to   *)
(* unlink.                                                                 *)
NoParent(t) ==
    /\ AtParent(t)
    /\ LET dp == th[t].dp IN
        /\ \/ Inode(dp).type # "DIR"
           \/ th[t].call = "unlink" /\ Lookup(dp, th[t].path[1]) = None
        /\ Loaded(dp)
        /\ Fail(t)
    /\ UNCHANGED <<dinode, entries, bitmap, ref, holder, cwd, file, reclaim, strayed>>

-----------------------------------------------------------------------------
(* create(): the name exists, or there is no inode left, or ialloc() marks *)
(* one as allocated on disk: nothing refers to it yet.                     *)
CreateExists(t) ==
    /\ AtParent(t) /\ th[t].call \in {"create", "mkdir"}
    /\ LET dp == th[t].dp
           ip == Lookup(dp, th[t].path[1]) IN
        /\ ip # None
        /\ Loaded(dp)
        /\ Follow(th[t].path[1], ip)
        /\ Go(t, <<Put(dp)>>, "exists", None, ip)
    /\ UNCHANGED <<dinode, entries, bitmap, holder, cwd, file, reclaim>>

(* The first free inode, as ialloc() finds it.                             *)
FreeInode(i) == dinode[i].type = "none" /\ \A j \in 1 .. i - 1 : dinode[j].type # "none"

IAlloc(t) ==
    /\ AtParent(t) /\ th[t].call \in {"create", "mkdir"}
    /\ LET dp == th[t].dp IN
        /\ Inode(dp).type = "DIR" /\ Lookup(dp, th[t].path[1]) = None
        /\ Loaded(dp)
        /\ \/ /\ ~\E i \in Inum : FreeInode(i)
              /\ Finish(t, <<Put(dp)>>)
              /\ UNCHANGED <<dinode, holder>>
           \/ \E i \in Inum :
              /\ FreeInode(i)
              /\ dinode' = [dinode EXCEPT ![i] =
                    [Free EXCEPT !.type = IF th[t].call = "mkdir" THEN "DIR" ELSE "FILE"]]
              /\ holder' = [holder EXCEPT ![dp] = t]
              /\ Go(t, <<>>, "ialloc", dp, i)
    /\ UNCHANGED <<entries, bitmap, ref, cwd, file, reclaim, strayed>>

(* ialloc()'s iget(), once the inode's block is released.                  *)
IAllocGet(t) ==
    /\ At(t, "ialloc")
    /\ IGet(th[t].ip)
    /\ th' = [th EXCEPT ![t].pc = "fill"]
    /\ UNCHANGED <<dinode, entries, bitmap, valid, mem, holder, cwd, file, reclaim, strayed>>

(* create() from ilock(ip) on: the new inode's links and entries, and the  *)
(* way out when the disk is full.                                          *)
Fill(t) ==
    /\ At(t, "fill") /\ ILock(th[t].ip)
    /\ LET dp == th[t].dp
           ip == th[t].ip
           dir == th[t].call = "mkdir"
           fits == dir => CanWrite(Inode(ip), bitmap)
           new == IF dir /\ fits THEN Write(Inode(ip), bitmap) ELSE Inode(ip)
           used == bitmap \cup ({new.addr} \ {NoBlock}) IN
        /\ bitmap' = used
        /\ \/ /\ fits
              /\ IUpdate([i \in {dp, ip} |-> IF i = ip THEN Links(new, 1)
                          ELSE Links(mem[dp], mem[dp].nlink + IF dir THEN 1 ELSE 0)])
              /\ entries' = [entries EXCEPT ![dp][th[t].path[1]] = ip,
                                            ![ip] = IF dir THEN Dots(dp) ELSE NoEntries]
              /\ holder' = [holder EXCEPT ![dp] = NoThread, ![ip] = t]
              /\ IF dir THEN Finish(t, <<Put(dp), Unlock(ip), Put(ip)>>)
                        ELSE GoWith(t, <<Put(dp)>>, "openfile", ip)
           \/ /\ used = Block
              /\ IUpdate(Only(ip, Links(new, 0)))
              /\ entries' = [entries EXCEPT ![ip] = IF dir /\ fits THEN Dots(dp) ELSE NoEntries]
              /\ Finish(t, <<Put(ip), Unlock(dp), Put(dp)>>)
              /\ UNCHANGED holder
    /\ UNCHANGED <<ref, cwd, file, reclaim, strayed>>

-----------------------------------------------------------------------------
(* sys_open(): ilock() of what namei() or create() found.                  *)
OpenLock(t) ==
    /\ (At(t, "ip") /\ th[t].call = "open") \/ At(t, "exists")
    /\ LET ip == th[t].ip IN
        /\ ILock(ip)
        /\ Loaded(ip)
        /\ \/ /\ th[t].call = "open" \/ (th[t].call = "create" /\ Inode(ip).type = "FILE")
              /\ holder' = [holder EXCEPT ![ip] = t]
              /\ GoWith(t, <<>>, "openfile", ip)
           \/ /\ th[t].call = "mkdir" \/ Inode(ip).type # "FILE"
              /\ Finish(t, <<Put(ip)>>)
              /\ UNCHANGED holder
    /\ UNCHANGED <<dinode, entries, bitmap, ref, cwd, file, reclaim, strayed>>

(* Mutant: iunlockput() also when the file is open.                        *)
OpenFileIUnlockPut(t, trunc) ==
    /\ At(t, "openfile")
    /\ LET ip == th[t].ip
           inode == mem[ip] IN
        \/ /\ file[t] = None
           /\ trunc => inode.type = "FILE"
           /\ file' = [file EXCEPT ![t] = ip]
           /\ IUpdate(Only(ip, IF trunc THEN [inode EXCEPT !.addr = NoBlock] ELSE inode))
           /\ bitmap' = IF trunc THEN bitmap \ {inode.addr} ELSE bitmap
           /\ holder' = [holder EXCEPT ![ip] = NoThread]
           /\ Finish(t, <<Put(ip)>>)
        \/ /\ ~trunc
           /\ Finish(t, <<Unlock(ip), Put(ip)>>)
           /\ UNCHANGED <<dinode, mem, valid, bitmap, holder, file>>
    /\ UNCHANGED <<entries, ref, cwd, reclaim, strayed>>

(* filealloc() and fdalloc(), which fail when a table is full, whatever    *)
(* this thread has open; itrunc() for O_TRUNC.                             *)
OpenFile(t, trunc) ==
    /\ At(t, "openfile")
    /\ LET ip == th[t].ip
           inode == mem[ip] IN
        \/ /\ file[t] = None
           /\ trunc => inode.type = "FILE"
           /\ file' = [file EXCEPT ![t] = ip]
           /\ IUpdate(Only(ip, IF trunc THEN [inode EXCEPT !.addr = NoBlock] ELSE inode))
           /\ bitmap' = IF trunc THEN bitmap \ {inode.addr} ELSE bitmap
           /\ holder' = [holder EXCEPT ![ip] = NoThread]
           /\ Finish(t, <<>>)
        \/ /\ ~trunc
           /\ Finish(t, <<Unlock(ip), Put(ip)>>)
           /\ UNCHANGED <<dinode, mem, valid, bitmap, holder, file>>
    /\ UNCHANGED <<entries, ref, cwd, reclaim, strayed>>

-----------------------------------------------------------------------------
(* Mutant: no check for "..".                                             *)
UnlinkFindDots(t) ==
    /\ AtParent(t) /\ th[t].call = "unlink"
    /\ LET dp == th[t].dp
           ip == Lookup(dp, th[t].path[1]) IN
        /\ ip # None
        /\ Loaded(dp)
        /\ IGet(ip)
        /\ holder' = [holder EXCEPT ![dp] = t]
        /\ Go(t, <<>>, "victim", dp, ip)
    /\ UNCHANGED <<dinode, entries, bitmap, cwd, file, reclaim, strayed>>

(* sys_unlink(): the entry is found, its inode to be locked under the      *)
(* directory's lock.  ".." is refused.                                     *)
UnlinkFind(t) ==
    /\ AtParent(t) /\ th[t].call = "unlink"
    /\ LET dp == th[t].dp
           ip == Lookup(dp, th[t].path[1]) IN
        /\ ip # None
        /\ Loaded(dp)
        /\ IF th[t].path[1] = DotDot
           THEN Finish(t, <<Put(dp)>>) /\ UNCHANGED <<ref, holder>>
           ELSE /\ IGet(ip)
                /\ holder' = [holder EXCEPT ![dp] = t]
                /\ Go(t, <<>>, "victim", dp, ip)
    /\ UNCHANGED <<dinode, entries, bitmap, cwd, file, reclaim, strayed>>

IsDirEmpty(d) == \A n \in Name : entries[d][n] = None

UnlinkEntry(t) ==
    /\ At(t, "victim") /\ ILock(th[t].ip)
    /\ LET dp == th[t].dp
           ip == th[t].ip
           dir == Inode(ip).type = "DIR" IN
        \/ /\ dir /\ ~IsDirEmpty(ip)
           /\ Loaded(ip)
           /\ Finish(t, <<Put(ip), Unlock(dp), Put(dp)>>)
           /\ UNCHANGED <<dinode, entries, holder>>
        \/ /\ dir => IsDirEmpty(ip)
           /\ entries' = [entries EXCEPT ![dp][th[t].path[1]] = None]
           /\ IUpdate([i \in {dp, ip} |-> IF i = ip THEN Inode(ip)
                       ELSE Links(mem[dp], mem[dp].nlink - IF dir THEN 1 ELSE 0)])
           /\ holder' = [holder EXCEPT ![dp] = NoThread, ![ip] = t]
           /\ GoWith(t, <<Put(dp)>>, "unlinked", ip)
    /\ UNCHANGED <<bitmap, ref, cwd, file, reclaim, strayed>>

(* ip->nlink--, iunlockput().                                              *)
UnlinkInode(t) ==
    /\ At(t, "unlinked")
    /\ LET ip == th[t].ip IN
        /\ IUpdate(Only(ip, Links(mem[ip], mem[ip].nlink - 1)))
        /\ holder' = [holder EXCEPT ![ip] = NoThread]
        /\ Finish(t, <<Put(ip)>>)
    /\ UNCHANGED <<entries, bitmap, ref, cwd, file, reclaim, strayed>>

-----------------------------------------------------------------------------
(* Mutant: the link is not counted before it is made.                      *)
LinkCountLate(t, path) ==
    /\ At(t, "ip") /\ th[t].call = "link" /\ ILock(th[t].ip)
    /\ LET ip == th[t].ip IN
        \/ /\ Inode(ip).type = "DIR"
           /\ Loaded(ip)
           /\ Finish(t, <<Put(ip)>>)
           /\ UNCHANGED <<dinode, ref>>
        \/ /\ Inode(ip).type # "DIR"
           /\ IUpdate(Only(ip, Inode(ip)))
           /\ IGet(Start(t, path))
           /\ th' = [th EXCEPT ![t] = [@ EXCEPT !.pc = "walk", !.call = "linkto",
                                        !.dp = Start(t, path), !.path = path.names]]
    /\ UNCHANGED <<entries, bitmap, holder, cwd, file, reclaim, strayed>>

(* sys_link(): the new link is counted before it is made,                  *)
LinkCount(t, path) ==
    /\ At(t, "ip") /\ th[t].call = "link" /\ ILock(th[t].ip)
    /\ LET ip == th[t].ip IN
        \/ /\ Inode(ip).type = "DIR"
           /\ Loaded(ip)
           /\ Finish(t, <<Put(ip)>>)
           /\ UNCHANGED <<dinode, ref>>
        \/ /\ Inode(ip).type # "DIR"
           /\ IUpdate(Only(ip, Links(Inode(ip), Inode(ip).nlink + 1)))
           /\ IGet(Start(t, path))
           /\ th' = [th EXCEPT ![t] = [@ EXCEPT !.pc = "walk", !.call = "linkto",
                                        !.dp = Start(t, path), !.path = path.names]]
    /\ UNCHANGED <<entries, bitmap, holder, cwd, file, reclaim, strayed>>

(* then made, if the name is free and the directory has room,              *)
LinkEntry(t) ==
    /\ AtParent(t) /\ th[t].call = "linkto"
    /\ LET dp == th[t].dp
           found == Lookup(dp, th[t].path[1]) IN
        /\ Inode(dp).type = "DIR"
        /\ Loaded(dp)
        /\ \/ /\ found = None
              /\ entries' = [entries EXCEPT ![dp][th[t].path[1]] = th[t].ip]
              /\ Finish(t, <<Put(dp), Put(th[t].ip)>>)
              /\ UNCHANGED <<ref, holder, strayed>>
           \/ /\ found = None /\ bitmap = Block
              /\ Fail(t)
              /\ UNCHANGED <<entries, ref, holder, strayed>>
           \/ /\ found # None
              /\ Follow(th[t].path[1], found)
              /\ holder' = [holder EXCEPT ![dp] = t]
              /\ GoWith(t, <<Put(found), Unlock(dp), Put(dp)>>, "bad", th[t].ip)
              /\ UNCHANGED entries
    /\ UNCHANGED <<dinode, bitmap, cwd, file, reclaim>>

(* and otherwise uncounted.                                                *)
LinkBad(t) ==
    /\ At(t, "bad") /\ ILock(th[t].ip)
    /\ LET ip == th[t].ip IN
        /\ IUpdate(Only(ip, Links(Inode(ip), Inode(ip).nlink - 1)))
        /\ Finish(t, <<Put(ip)>>)
    /\ UNCHANGED <<entries, bitmap, ref, holder, cwd, file, reclaim, strayed>>

-----------------------------------------------------------------------------
(* sys_chdir().                                                            *)
Chdir(t) ==
    /\ At(t, "ip") /\ th[t].call = "chdir" /\ ILock(th[t].ip)
    /\ LET ip == th[t].ip IN
        /\ Loaded(ip)
        /\ \/ /\ Inode(ip).type # "DIR"
              /\ Finish(t, <<Put(ip)>>)
              /\ UNCHANGED cwd
           \/ /\ Inode(ip).type = "DIR"
              /\ cwd' = [cwd EXCEPT ![t] = ip]
              /\ Finish(t, <<Put(cwd[t])>>)
    /\ UNCHANGED <<dinode, entries, bitmap, ref, holder, file, reclaim, strayed>>

(* audit_log_write(): a record is appended to a regular file, if there is  *)
(* room.                                                                   *)
Audit(t) ==
    /\ At(t, "ip") /\ th[t].call = "audit" /\ ILock(th[t].ip)
    /\ LET ip == th[t].ip
           writes == Inode(ip).type = "FILE" /\ CanWrite(Inode(ip), bitmap)
           new == IF writes THEN Write(Inode(ip), bitmap) ELSE Inode(ip) IN
        /\ IUpdate(Only(ip, new))
        /\ bitmap' = bitmap \cup ({new.addr} \ {NoBlock})
        /\ Finish(t, <<Put(ip)>>)
    /\ UNCHANGED <<entries, ref, holder, cwd, file, reclaim, strayed>>

(* filewrite() to the open file, up to end_op().                           *)
FileWrite(t) ==
    /\ Ready(t) /\ file[t] # None
    /\ LET ip == file[t] IN
        /\ ILock(ip) /\ Inode(ip).type = "FILE" /\ CanWrite(Inode(ip), bitmap)
        /\ IUpdate(Only(ip, Write(Inode(ip), bitmap)))
        /\ bitmap' = bitmap \cup {dinode'[ip].addr}
    /\ th' = [th EXCEPT ![t].pc = "end"]
    /\ UNCHANGED <<entries, ref, holder, cwd, file, reclaim, strayed>>

(* fileclose() of the open file.                                           *)
Close(t) ==
    /\ Ready(t) /\ file[t] # None
    /\ file' = [file EXCEPT ![t] = None]
    /\ Finish(t, <<Put(file[t])>>)
    /\ UNCHANGED <<dinode, entries, bitmap, ref, valid, mem, holder, cwd, reclaim, strayed>>

(* end_op().                                                               *)
End(t) ==
    /\ At(t, "end")
    /\ th' = [th EXCEPT ![t] = Idle]
    /\ UNCHANGED <<dinode, entries, bitmap, ref, valid, mem, holder, cwd, file, reclaim, strayed>>

-----------------------------------------------------------------------------
Doing(t, do) == th[t].todo # <<>> /\ Head(th[t].todo).do = do
On(t) == Head(th[t].todo).i
Onward(t, do) == th' = [th EXCEPT ![t].todo[1].do = do]
Done(t) == th' = [th EXCEPT ![t].todo = Tail(@)]

(* iunlock().                                                              *)
IUnlock(t) ==
    /\ Doing(t, "unlock")
    /\ holder' = [holder EXCEPT ![On(t)] = NoThread]
    /\ Done(t)
    /\ UNCHANGED <<dinode, entries, bitmap, ref, valid, mem, cwd, file, reclaim, strayed>>

(* ip->ref--.  The copy in an entry with no reference is never used.       *)
Unref(i) ==
    /\ ref' = [ref EXCEPT ![i] = @ - 1]
    /\ valid' = [valid EXCEPT ![i] = @ /\ ref[i] > 1]
    /\ mem' = IF ref[i] > 1 THEN mem ELSE [mem EXCEPT ![i] = Free]

(* Mutant: the link count alone decides.                                   *)
IsUnlinked(i) == valid[i] /\ mem[i].nlink = 0

(* iput(): is this the last reference to an inode without links?           *)
IsLast(i) == ref[i] = 1 /\ valid[i] /\ mem[i].nlink = 0

IPut(t) ==
    /\ \/ Doing(t, "put") /\ ~IsLast(On(t))
       \/ Doing(t, "drop")
    /\ Unref(On(t))
    /\ Done(t)
    /\ UNCHANGED <<dinode, entries, bitmap, holder, cwd, file, reclaim, strayed>>

(* Then acquiresleep(),                                                    *)
IPutLock(t) ==
    /\ Doing(t, "put") /\ IsLast(On(t)) /\ Unlocked(On(t))
    /\ holder' = [holder EXCEPT ![On(t)] = t]
    /\ Onward(t, "trunc")
    /\ UNCHANGED <<dinode, entries, bitmap, ref, valid, mem, cwd, file, reclaim, strayed>>

(* itrunc(), type = 0 and iupdate(),                                       *)
IPutFree(t) ==
    /\ Doing(t, "trunc")
    /\ bitmap' = bitmap \ {mem[On(t)].addr}
    /\ entries' = [entries EXCEPT ![On(t)] = NoEntries]
    /\ IUpdate(Only(On(t), Free))
    /\ Onward(t, "forget")
    /\ UNCHANGED <<ref, holder, cwd, file, reclaim, strayed>>

(* valid = 0 and releasesleep(); the reference goes last.                  *)
IPutForget(t) ==
    /\ Doing(t, "forget")
    /\ valid' = [valid EXCEPT ![On(t)] = FALSE]
    /\ holder' = [holder EXCEPT ![On(t)] = NoThread]
    /\ Onward(t, "drop")
    /\ UNCHANGED <<dinode, entries, bitmap, ref, mem, cwd, file, reclaim, strayed>>

-----------------------------------------------------------------------------
(* The machine stops; everything is committed.                             *)
Crash ==
    /\ \A t \in Thread : th[t] = Idle
    /\ ref' = [i \in Inum |-> IF i = Root THEN Cardinality(Thread) ELSE 0]
    /\ valid' = [i \in Inum |-> FALSE]
    /\ mem' = [i \in Inum |-> Free]
    /\ holder' = [i \in Inum |-> NoThread]
    /\ cwd' = [t \in Thread |-> Root]
    /\ file' = [t \in Thread |-> None]
    /\ reclaim' = Root
    /\ UNCHANGED <<dinode, entries, bitmap, th, strayed>>

(* ireclaim(): one inode, in a transaction of its own, before the first    *)
(* process runs.                                                           *)
IReclaim ==
    /\ reclaim # None
    /\ IF dinode[reclaim].type # "none" /\ dinode[reclaim].nlink = 0
       THEN /\ dinode' = [dinode EXCEPT ![reclaim] = Free]
            /\ entries' = [entries EXCEPT ![reclaim] = NoEntries]
            /\ bitmap' = bitmap \ {dinode[reclaim].addr}
       ELSE UNCHANGED <<dinode, entries, bitmap>>
    /\ reclaim' = IF reclaim = NInodes THEN None ELSE reclaim + 1
    /\ UNCHANGED <<ref, valid, mem, holder, cwd, file, th, strayed>>

ThreadStep(t) ==
    \/ \E c \in Calls[t] : Begin(t, c[1], c[2])
    \/ Walk(t) \/ NoParent(t)
    \/ CreateExists(t) \/ IAlloc(t) \/ IAllocGet(t) \/ Fill(t)
    \/ OpenLock(t) \/ \E trunc \in BOOLEAN : OpenFile(t, trunc)
    \/ UnlinkFind(t) \/ UnlinkEntry(t) \/ UnlinkInode(t)
    \/ \E path \in NewPaths : LinkCount(t, path)
    \/ LinkEntry(t) \/ LinkBad(t)
    \/ Chdir(t) \/ Audit(t) \/ FileWrite(t) \/ Close(t) \/ End(t)
    \/ IUnlock(t) \/ IPut(t) \/ IPutLock(t) \/ IPutFree(t) \/ IPutForget(t)

(* The inode a thread is about to lock, or None.                           *)
Wants(t) ==
    CASE Doing(t, "put") /\ IsLast(On(t)) -> On(t)
      [] th[t].todo = <<>> /\ th[t].pc = "walk" -> th[t].dp
      [] th[t].todo = <<>> /\ th[t].pc \in {"ip", "exists", "fill", "victim", "bad"} -> th[t].ip
      [] OTHER -> None

(* panic(): the thread's hart spins for ever.                              *)
Panics(t) ==
    \/ Wants(t) # None /\ Unlocked(Wants(t)) /\ Inode(Wants(t)).type = "none"
    \/ At(t, "victim") /\ Unlocked(th[t].ip) /\ Inode(th[t].ip).nlink < 1
Panic(t) == Panics(t) /\ UNCHANGED fsvars

FsNext == (\E t \in Thread : ThreadStep(t) \/ Panic(t)) \/ IReclaim \/ Crash

FsSpec == FsInit /\ [][FsNext]_fsvars

-----------------------------------------------------------------------------
Blocked(t) == Wants(t) # None /\ ~Unlocked(Wants(t))

(* Who refers to an inode: locals of calls, calls about to let go of it,   *)
(* current directories and open files.                                     *)
Letting(t, i) ==
    {k \in DOMAIN th[t].todo : th[t].todo[k].do # "unlock" /\ th[t].todo[k].i = i}
References(i) ==
    {<<t, k>> \in Thread \X (1 .. 7) :
        \/ k \in Letting(t, i)
        \/ k = 4 /\ th[t].dp = i
        \/ k = 5 /\ th[t].ip = i /\ th[t].pc # "ialloc"
        \/ k = 6 /\ cwd[t] = i
        \/ k = 7 /\ file[t] = i}

(* Where an inode is named, and who is about to name it or has just        *)
(* stopped naming it, with the link counted.                               *)
Entries(i) == {<<d, n>> \in Inum \X Name : entries[d][n] = i}
Pending(i) == {t \in Thread : th[t].ip = i /\
    (th[t].pc \in {"unlinked", "bad"} \/ th[t].call = "linkto")}

(* create() has allocated an inode, and has not yet filled it in.          *)
Filling(t) == th[t].pc \in {"ialloc", "fill"}

(* Every name of an inode, and every name a call has counted but not yet   *)
(* written or already erased, is in its link count, so that no entry of a  *)
(* directory can outlive the inode it names.                               *)
LinksCounted ==
    \A i \in Inum : dinode[i].nlink >= Cardinality(Entries(i)) + Cardinality(Pending(i))

(* ip->ref counts the pointers to ip, and what a thread holds locked it    *)
(* has a reference to, always.  Until a thread has strayed: types; a valid *)
(* copy is what is on disk, unless ialloc() has taken the inode that       *)
(* iput() holds locked and is freeing; the bitmap marks exactly the blocks *)
(* of the inodes, each the block of one; no name outlives its link; and    *)
(* two calls of create() never fill one inode.                             *)
FsInv ==
    /\ \A i \in Inum :
        /\ ref[i] = Cardinality(References(i))
        /\ valid[i] => ref[i] > 0
        /\ holder[i] # NoThread => \E r \in References(i) : r[1] = holder[i]
    /\ ~strayed =>
        /\ \A i \in Inum :
            /\ dinode[i] \in [type : {"none", "FILE", "DIR"}, nlink : Nat, addr : Block \cup {NoBlock}]
            /\ dinode[i].type = "none" => dinode[i] = Free /\ entries[i] = NoEntries
            /\ dinode[i].type = "DIR" => dinode[i].nlink = 0 \/ dinode[i].addr # NoBlock
            /\ valid[i] /\ Unlocked(i) => mem[i] = dinode[i]
            /\ dinode[i].addr # NoBlock => \A j \in Inum \ {i} : dinode[j].addr # dinode[i].addr
        /\ bitmap = {dinode[i].addr : i \in Inum} \ {NoBlock}
        /\ LinksCounted
        /\ \A t, u \in Thread : Filling(t) /\ Filling(u) /\ th[t].ip = th[u].ip => t = u

(* ilock() panics ("ilock: no type") and sys_unlink() panics ("unlink:     *)
(* nlink < 1") only if a thread has followed the ".." of a removed         *)
(* directory to a parent that is gone too.  No name, current directory,    *)
(* open file or inode that create() has just allocated leads to a freed    *)
(* inode by itself, whatever the other threads do in between.              *)
NoInodePanic == (\E t \in Thread : Panics(t)) => strayed

(* No threads wait for each other's inode locks in a circle, though        *)
(* create() and sys_unlink() hold a directory's lock while they lock its   *)
(* entry; and iput() never waits: "ip->ref == 1 means no other process can *)
(* have ip locked" (it would sleep with itable.lock held).                 *)
NoLockCycle ==
    /\ \A S \in SUBSET Thread : S # {} =>
        \E t \in S : ~(Blocked(t) /\ holder[Wants(t)] \in S)
    /\ \A t \in Thread : Doing(t, "put") /\ IsLast(On(t)) => Unlocked(On(t))

(* Once the system is up, and unless a thread has strayed, an inode        *)
(* without links is in use or about to be by the create() that allocated   *)
(* it: what close() or a crash leaves behind is freed by iput() or by      *)
(* ireclaim().                                                             *)
OrphansHeld ==
    reclaim = None /\ ~strayed =>
        \A i \in Inum : dinode[i].type # "none" /\ dinode[i].nlink = 0 =>
            ref[i] > 0 \/ \E t \in Thread : Filling(t) /\ th[t].ip = i

(* Unless a thread has strayed, an inode is freed only when no directory   *)
(* names it, no process is in it or has it open and create() is not about  *)
(* to fill it in, by a call that holds its lock, or by ireclaim().         *)
FreedUnused ==
    [][\A i \in Inum : dinode[i].type # "none" /\ dinode'[i].type = "none" /\ ~strayed =>
          /\ Entries(i) = {}
          /\ \A t \in Thread : i \notin {cwd[t], file[t]} /\ ~(Filling(t) /\ th[t].ip = i)
          /\ reclaim = i \/ \E t \in Thread : holder[i] = t /\ Doing(t, "trunc")]_fsvars

=============================================================================
