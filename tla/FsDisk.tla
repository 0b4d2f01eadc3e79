------------------------------- MODULE FsDisk -------------------------------
(***************************************************************************)
(* Blocks, inodes and directories of the file system (rust_fs.rs) as pure  *)
(* operations on a state s:                                                *)
(*   s.dino  the inodes on the disk (as cached: the log is AtomicDisk)     *)
(*   s.mem   the inodes in memory, where s.valid says so                   *)
(*   s.used  the bitmap                                                    *)
(*   s.ind   a block read as an indirect block                             *)
(*   s.dir   a block read as a block of directory entries                  *)
(* An operation runs under the lock of the inode it works on.  Sizes count *)
(* entries for a directory and blocks for a file.                          *)
(***************************************************************************)
EXTENDS Integers, Sequences, FiniteSets, FiniteSetsExt

CONSTANTS
    NINODES,    \* inodes 1..NINODES
    NBLOCKS,    \* data blocks 1..NBLOCKS; block 0 stands for no block
    NDIRECT, NINDIRECT,
    DPB,        \* directory entries per block
    None

Inums == 1..NINODES
Blocks == 1..NBLOCKS
ROOTINO == 1
MAXFILE == NDIRECT + NINDIRECT

NoEntry == [name |-> "", inum |-> 0]
NoAddrs == [k \in 1..NDIRECT + 1 |-> 0]
Fresh(type, n) == [type |-> type, nlink |-> n, size |-> 0, addrs |-> NoAddrs]
FreeInode == Fresh("free", 0)

Bzero(s, b) == [s EXCEPT !.ind[b] = [k \in 1..NINDIRECT |-> 0], !.dir[b] = [k \in 1..DPB |-> NoEntry]]

\* balloc: the first block the bitmap has free, zeroed; 0 if there is none.
Balloc(s) ==
    LET b == Min(Blocks \ s.used) IN
    IF s.used = Blocks THEN [addr |-> 0, s |-> s]
    ELSE [addr |-> b, s |-> Bzero([s EXCEPT !.used = @ \cup {b}], b)]

Iupdate(s, i) == [s EXCEPT !.dino[i] = s.mem[i]]

\* ilock of an inode that is not valid reads it from the disk.
Load(s, i) == IF s.valid[i] THEN s ELSE [s EXCEPT !.mem[i] = s.dino[i], !.valid[i] = TRUE]

\* The block at position bn of a file, as bmap finds it.
Addr(s, d, bn) ==
    IF bn < NDIRECT THEN d.addrs[bn + 1]
    ELSE IF d.addrs[NDIRECT + 1] = 0 THEN 0
    ELSE s.ind[d.addrs[NDIRECT + 1]][bn - NDIRECT + 1]

\* The in-memory inode gets a block at slot k of addrs if it has none there.
Slot(s, i, k) ==
    IF s.mem[i].addrs[k] # 0 THEN [addr |-> s.mem[i].addrs[k], s |-> s]
    ELSE LET r == Balloc(s) IN [addr |-> r.addr, s |-> [r.s EXCEPT !.mem[i].addrs[k] = r.addr]]

\* bmap: the block, allocated if there is none, and the indirect block with it.
Bmap(s, i, bn) ==
    IF bn < NDIRECT THEN Slot(s, i, bn + 1)
    ELSE LET x == Slot(s, i, NDIRECT + 1)
             k == bn - NDIRECT + 1 IN
         IF x.addr = 0 THEN x
         ELSE IF x.s.ind[x.addr][k] # 0 THEN [addr |-> x.s.ind[x.addr][k], s |-> x.s]
         ELSE LET r == Balloc(x.s) IN [addr |-> r.addr, s |-> [r.s EXCEPT !.ind[x.addr][k] = r.addr]]

\* Blocks an inode has, the indirect block included.
Direct(d) == {d.addrs[k] : k \in 1..NDIRECT + 1} \ {0}
Indirect(s, d) == IF d.addrs[NDIRECT + 1] = 0 THEN {}
                  ELSE {s.ind[d.addrs[NDIRECT + 1]][k] : k \in 1..NINDIRECT} \ {0}

Itrunc(s, i) ==
    LET d == s.mem[i] IN
    Iupdate([s EXCEPT !.used = @ \ (Direct(d) \cup Indirect(s, d)),
                      !.mem[i].addrs = NoAddrs, !.mem[i].size = 0], i)

\* writei of a whole file block or, with an entry, of one directory entry at off.
\* When either_copyin fails the block is there, behind the end of the file.
Writei(s, i, off, entry, copied) ==
    LET dir == entry # None
        bn == IF dir THEN off \div DPB ELSE off
        r == Bmap(s, i, bn)
        w == IF dir THEN [r.s EXCEPT !.dir[r.addr][(off % DPB) + 1] = entry] ELSE r.s
    IN  IF off > s.mem[i].size \/ bn >= MAXFILE THEN [ok |-> FALSE, s |-> s]
        ELSE IF r.addr = 0 \/ ~copied THEN [ok |-> FALSE, s |-> Iupdate(r.s, i)]
        ELSE [ok |-> TRUE, s |-> Iupdate([w EXCEPT !.mem[i].size = Max({@, off + 1})], i)]

----------------------------------------------------------------------------
(* Directories *)

\* The entry at position k of directory d (readi of one Dirent).
Entry(s, d, k) == s.dir[Addr(s, d, k \div DPB)][(k % DPB) + 1]

Entries(s, d) == {k \in 0..d.size - 1 : Entry(s, d, k).inum # 0}

\* dirlookup: the inode number of the first entry with this name; 0 if none.
Offsets(s, d, name) == {k \in Entries(s, d) : Entry(s, d, k).name = name}
Dirlookup(s, d, name) ==
    IF Offsets(s, d, name) = {} THEN 0 ELSE Entry(s, d, Min(Offsets(s, d, name))).inum

\* Mutant: dirlink does not look for the name.
Dirlink_NoLookup(s, dp, name, inum) ==
    LET d == s.mem[dp]
        empty == {k \in 0..d.size - 1 : Entry(s, d, k).inum = 0} \cup {d.size}
    IN  Writei(s, dp, Min(empty), [name |-> name, inum |-> inum], TRUE)

\* dirlink: refuses a name that is there, else writes the first empty entry or
\* one past the end.
Dirlink(s, dp, name, inum) ==
    LET d == s.mem[dp]
        empty == {k \in 0..d.size - 1 : Entry(s, d, k).inum = 0} \cup {d.size}
    IN  IF Dirlookup(s, d, name) # 0 THEN [ok |-> FALSE, s |-> s]
        ELSE Writei(s, dp, Min(empty), [name |-> name, inum |-> inum], TRUE)

Isdirempty(s, d) == \A k \in Entries(s, d) : k < 2

\* ialloc: the first free inode of the disk; the one in memory is not touched.
FreeInums(s) == {i \in Inums : s.dino[i].type = "free"}
Ialloc(s, i, type) == [s EXCEPT !.dino[i] = Fresh(type, 0)]
=============================================================================
