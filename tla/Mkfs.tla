-------------------------------- MODULE Mkfs --------------------------------
(***************************************************************************)
(* The image mkfs.rs writes.  mkfs hands out inodes and blocks by counting *)
(* up and writes the bitmap last.  Its state m has, besides the disk, the  *)
(* two counters.                                                           *)
(***************************************************************************)
EXTENDS FsDisk, Folds, SequencesExt

CONSTANT Files      \* the files put in the image: a sequence of [name, blocks]

Blank ==
    [dino |-> [i \in Inums |-> FreeInode],
     ind  |-> [b \in Blocks |-> [k \in 1..NINDIRECT |-> 0]],
     dir  |-> [b \in Blocks |-> [k \in 1..DPB |-> NoEntry]],
     freeinode |-> 1, freeblock |-> 1]

\* Mkfs::ialloc: the next inode, with one link; its number is m.freeinode.
MkIalloc(m, type) ==
    [m EXCEPT !.dino[m.freeinode] = Fresh(type, 1), !.freeinode = @ + 1]

\* The address slot of inode i, or of its indirect block, that iappend fills next.
MkSlot(m, i, k) ==
    IF m.dino[i].addrs[k] # 0 THEN m
    ELSE [m EXCEPT !.dino[i].addrs[k] = m.freeblock, !.freeblock = @ + 1]
MkBlock(m, i, fbn) ==
    IF fbn < NDIRECT THEN MkSlot(m, i, fbn + 1)
    ELSE LET x == MkSlot(m, i, NDIRECT + 1)
             b == x.dino[i].addrs[NDIRECT + 1]
             k == fbn - NDIRECT + 1 IN
         IF x.ind[b][k] # 0 THEN x
         ELSE [x EXCEPT !.ind[b][k] = x.freeblock, !.freeblock = @ + 1]

\* Mkfs::iappend of one directory entry, or of one block of a file.
Iappend(m, i, entry) ==
    LET off == m.dino[i].size
        fbn == IF entry = None THEN off ELSE off \div DPB
        x == MkBlock(m, i, fbn)
        b == Addr(x, x.dino[i], fbn)
        y == [x EXCEPT !.dino[i].size = off + 1]
    IN  IF entry = None THEN y ELSE [y EXCEPT !.dir[b][(off % DPB) + 1] = entry]

\* One file of the command line: inode, entry in the root, contents.
AddFile(m, f) ==
    LET i == m.freeinode
        named == Iappend(MkIalloc(m, "file"), ROOTINO, [name |-> f.name, inum |-> i])
    IN  FoldLeft(LAMBDA x, k : Iappend(x, i, None), named, [k \in 1..f.blocks |-> k])

\* run(): root directory with its dots, the files, the root's size rounded up
\* to whole blocks, and the bitmap of the blocks handed out.
Root == FoldLeft(LAMBDA m, n : Iappend(m, ROOTINO, [name |-> n, inum |-> ROOTINO]),
                 MkIalloc(Blank, "dir"), <<".", "..">>)
Image ==
    LET m == FoldLeft(AddFile, Root, Files) IN
    [dino |-> [m.dino EXCEPT ![ROOTINO].size = ((@ \div DPB) + 1) * DPB],
     used |-> 1..m.freeblock - 1, ind |-> m.ind, dir |-> m.dir]
=============================================================================
