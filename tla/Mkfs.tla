-------------------------------- MODULE Mkfs --------------------------------
(***************************************************************************)
(* The image builder (mkfs/mkfs.c): the layout of the disk, inodes and     *)
(* blocks given out by counting up, files appended block by block, and the *)
(* bitmap written at the end.  Sizes are in units in which a directory     *)
(* entry is DE and a block BSIZE; the bytes themselves are left out.       *)
(***************************************************************************)
EXTENDS Naturals, FiniteSets, Sequences

CONSTANTS
  FSSIZE, BSIZE, BPB, IPB, NINODES, LOGBLOCKS, NDIRECT, NINDIRECT,
  DE,        \* sizeof(struct dirent)
  FileSizes  \* the sizes of the files on the command line, in their order

\* mkfs does not test that it has an inode left: the Makefile names fewer files
\* than there are inodes besides the root's.
ASSUME MkfsAssumption == \A s \in FileSizes : Len(s) < NINODES - 1

VARIABLES
  ops,         \* what main has still to do
  freeinode,
  freeblock,
  din,         \* inode -> [size, addrs]: addrs 0 .. NDIRECT, 0 for none
  indirect,    \* inode -> the block its indirect block gives each index
  bitmap       \* blocks marked in use

mkfsVars == <<ops, freeinode, freeblock, din, indirect, bitmap>>

-----------------------------------------------------------------------------
\* The layout: boot, superblock, log, inodes, bitmap, data.
nlog == LOGBLOCKS + 1
ninodeblocks == NINODES \div IPB + 1
nbitmap == FSSIZE \div BPB + 1
nmeta == 2 + nlog + ninodeblocks + nbitmap
sb == [size |-> FSSIZE, nblocks |-> FSSIZE - nmeta, ninodes |-> NINODES,
       logstart |-> 2, inodestart |-> 2 + nlog,
       bmapstart |-> 2 + nlog + ninodeblocks]

ROOTINO == 1
Inum == 1 .. NINODES - 1
Empty == [size |-> 0, addrs |-> [i \in 0 .. NDIRECT |-> 0]]

\* One file: its inode, its entry in the root, its contents by the block.
Chunks(n) == [k \in 1 .. (n + BSIZE - 1) \div BSIZE |->
                <<"append", "file", IF k * BSIZE <= n THEN BSIZE ELSE n % BSIZE>>]
FileOps(n) == << <<"ialloc">>, <<"append", "root", DE>> >> \o Chunks(n)

\* The whole of main: "." and ".." first, balloc last.
RECURSIVE AllFiles(_)
AllFiles(s) == IF s = << >> THEN << >> ELSE FileOps(Head(s)) \o AllFiles(Tail(s))
MkfsMain(s) == << <<"ialloc">>, <<"append", "root", DE>>, <<"append", "root", DE>> >>
            \o AllFiles(s) \o << <<"fix">>, <<"balloc">> >>

MkfsInit ==
  /\ \E s \in FileSizes : ops = MkfsMain(s)
  /\ freeinode = ROOTINO
  /\ freeblock = nmeta
  /\ din = [i \in Inum |-> Empty]
  /\ indirect = [i \in Inum |-> [k \in 0 .. NINDIRECT - 1 |-> 0]]
  /\ bitmap = {}

Does(what) == ops # << >> /\ Head(ops)[1] = what

ialloc ==
  /\ Does("ialloc")
  /\ din' = [din EXCEPT ![freeinode] = Empty]
  /\ freeinode' = freeinode + 1
  /\ ops' = Tail(ops)
  /\ UNCHANGED <<freeblock, indirect, bitmap>>

\* iappend's loop, one block: where the block for the present end of the file
\* comes from, and how much of the rest goes into it.
Appendee == IF Head(ops)[2] = "root" THEN ROOTINO ELSE freeinode - 1

Written(i, fbn) ==
  LET off == din[i].size
      n   == Head(ops)[3]
      n1  == IF n < (fbn + 1) * BSIZE - off THEN n ELSE (fbn + 1) * BSIZE - off
  IN  [n1 |-> n1, rest |-> IF n1 = n THEN Tail(ops)
                           ELSE <<[Head(ops) EXCEPT ![3] = n - n1]>> \o Tail(ops)]

FileBlock(i, fbn) ==
  IF fbn < NDIRECT THEN din[i].addrs[fbn] ELSE indirect[i][fbn - NDIRECT]

\* The block that iappend reads before it writes it: the file's own, or the next
\* free one.  The image has FSSIZE blocks: rsect of a block beyond reads nothing.
Target(i, fbn) ==
  IF FileBlock(i, fbn) # 0 THEN FileBlock(i, fbn)
  ELSE IF fbn >= NDIRECT /\ din[i].addrs[NDIRECT] = 0 THEN freeblock + 1
  ELSE freeblock
Appendable(i, fbn) == fbn < NDIRECT + NINDIRECT /\ Target(i, fbn) < FSSIZE

AppendDirect ==
  /\ Does("append")
  /\ LET i   == Appendee
         fbn == din[i].size \div BSIZE
         new == din[i].addrs[fbn] = 0
         w   == Written(i, fbn)
     IN  /\ fbn < NDIRECT
         /\ Appendable(i, fbn)
         /\ din' = [din EXCEPT ![i].size = @ + w.n1,
                               ![i].addrs[fbn] = IF new THEN freeblock ELSE @]
         /\ freeblock' = IF new THEN freeblock + 1 ELSE freeblock
         /\ ops' = w.rest
  /\ UNCHANGED <<freeinode, indirect, bitmap>>

\* Mutant: the indirect block is not counted as used.
AppendIndirectUncounted ==
  /\ Does("append")
  /\ LET i    == Appendee
         fbn  == din[i].size \div BSIZE
         w    == Written(i, fbn)
     IN  /\ fbn >= NDIRECT
         /\ Appendable(i, fbn)
         /\ din' = [din EXCEPT ![i].size = @ + w.n1,
                       ![i].addrs[NDIRECT] = IF @ = 0 THEN freeblock ELSE @]
         /\ indirect' = [indirect EXCEPT ![i][fbn - NDIRECT] = freeblock]
         /\ freeblock' = freeblock + 1
         /\ ops' = w.rest
  /\ UNCHANGED <<freeinode, bitmap>>

AppendIndirect ==
  /\ Does("append")
  /\ LET i    == Appendee
         fbn  == din[i].size \div BSIZE
         newI == din[i].addrs[NDIRECT] = 0
         next == IF newI THEN freeblock + 1 ELSE freeblock
         new  == indirect[i][fbn - NDIRECT] = 0
         w    == Written(i, fbn)
     IN  /\ fbn >= NDIRECT
         /\ Appendable(i, fbn)
         /\ din' = [din EXCEPT ![i].size = @ + w.n1,
                               ![i].addrs[NDIRECT] = IF newI THEN freeblock ELSE @]
         /\ indirect' = [indirect EXCEPT ![i][fbn - NDIRECT] = IF new THEN next ELSE @]
         /\ freeblock' = IF new THEN next + 1 ELSE next
         /\ ops' = w.rest
  /\ UNCHANGED <<freeinode, bitmap>>

\* The root's size is rounded up to whole blocks.
FixRoot ==
  /\ Does("fix")
  /\ din' = [din EXCEPT ![ROOTINO].size = (@ \div BSIZE + 1) * BSIZE]
  /\ ops' = Tail(ops)
  /\ UNCHANGED <<freeinode, freeblock, indirect, bitmap>>

balloc ==
  /\ Does("balloc")
  /\ freeblock < BPB
  /\ bitmap' = 0 .. freeblock - 1
  /\ ops' = Tail(ops)
  /\ UNCHANGED <<freeinode, freeblock, din, indirect>>

\* die() and failed assertions: the file is too long or does not fit into the
\* image, or one block of bitmap is not enough.
Died == << <<"die">> >>
Die ==
  /\ \/ /\ Does("append")
        /\ ~Appendable(Appendee, din[Appendee].size \div BSIZE)
     \/ Does("balloc") /\ freeblock >= BPB
  /\ ops' = Died
  /\ UNCHANGED <<freeinode, freeblock, din, indirect, bitmap>>

MkfsNext ==
  \/ ialloc
  \/ AppendDirect
  \/ AppendIndirect
  \/ FixRoot
  \/ balloc
  \/ Die

MkfsSpec == MkfsInit /\ [][MkfsNext]_mkfsVars

-----------------------------------------------------------------------------
\* The places in which an inode holds a block.
Places == {<<i, "addr", k>> : i \in Inum, k \in 0 .. NDIRECT} \cup
          {<<i, "ind", k>> : i \in Inum, k \in 0 .. NINDIRECT - 1}
BlockAt(q) == IF q[2] = "addr" THEN din[q[1]].addrs[q[3]] ELSE indirect[q[1]][q[3]]
Holding == {q \in Places : BlockAt(q) # 0}

\* At every moment of the build the data blocks given out are held in exactly one
\* place each, with none skipped, all beyond the metadata.
BlocksOnce ==
  /\ {BlockAt(q) : q \in Holding} = nmeta .. freeblock - 1
  /\ \A q, r \in Holding : q # r => BlockAt(q) # BlockAt(r)

\* A finished image is what fs.c expects of a disk: the bitmap marks the metadata
\* and the blocks some inode holds and nothing else, all of them within the size
\* in the superblock although nothing compares freeblock with it, and up to its
\* size a file has its blocks.  The root's last block is the exception: main rounds
\* its size up by a whole block when the entries fill the last one exactly.
ImageSound ==
  /\ BlocksOnce
  /\ ops = << >> =>
       /\ bitmap = (0 .. nmeta - 1) \cup {BlockAt(q) : q \in Holding}
       /\ bitmap \subseteq 0 .. sb.size - 1
       /\ \A i \in Inum : \A b \in 0 .. NDIRECT + NINDIRECT - 1 :
            (b + (IF i = ROOTINO THEN 1 ELSE 0)) * BSIZE < din[i].size
              => FileBlock(i, b) # 0

\* The regions of the layout do not overlap, and each holds what it must: IBLOCK
\* of every inode falls before the bitmap, BBLOCK of every block before the data.
LayoutSound ==
  /\ sb.inodestart + (sb.ninodes - 1) \div IPB < sb.bmapstart
  /\ sb.bmapstart + (sb.size - 1) \div BPB < nmeta

MkfsInv == ImageSound /\ LayoutSound
=============================================================================
