--------------------------------- MODULE Fs ---------------------------------
(***************************************************************************)
(* The file-system calls (rust_sysfile.rs) on the inode layer (rust_fs.rs):*)
(* threads walk paths, create, open, link, unlink, change directory, read, *)
(* write and close, at the same time, and the machine may lose power.      *)
(*                                                                         *)
(* One step is one stretch of code under an inode lock, or one iput.  A    *)
(* call is a transaction of the log: what it wrote is in s at once, and in *)
(* dur when the last outstanding call ends (Log shows that this is what    *)
(* the log does, AtomicDisk).  th[t].puts are the inodes t has still to    *)
(* iput before it goes on at th[t].pc.                                     *)
(***************************************************************************)
EXTENDS Mkfs

CONSTANTS
    Threads,
    Calls,          \* system calls: [op, mode, path, to], a path is [abs, el]
    MaxCalls, MaxCrashes

VARIABLES
    s, dur,         \* the file system in memory; what the disk holds
    ref, lock,      \* in-memory inodes: reference count, holder of the sleep lock
    th, cwd, file,  \* per thread: the call in progress, directory, open file
    out,            \* threads inside a transaction
    raced,          \* history: inodes allocated again before the iput that freed them was over
    stray,          \* history: inodes named in a directory that was freed
    boot,           \* the inode ireclaim looks at; NINODES + 1 when it is done
    calls, crashes

vars == <<s, dur, ref, lock, th, cwd, file, out, raced, stray, boot, calls, crashes>>

Each(S, v) == [e \in S |-> v]

Disk(x) == [dino |-> x.dino, used |-> x.used, ind |-> x.ind, dir |-> x.dir]
Mounted(d) == [dino |-> d.dino, used |-> d.used, ind |-> d.ind, dir |-> d.dir,
               mem |-> Each(Inums, FreeInode), valid |-> Each(Inums, FALSE)]

Idle == [pc |-> "idle", call |-> None, ip |-> None, dp |-> None, old |-> None, path |-> <<>>,
         name |-> "", puts |-> <<>>, put |-> "", up |-> FALSE]

\* userinit gives the first process the root directory, fork every other one.
BootRefs == [i \in Inums |-> IF i = ROOTINO THEN Cardinality(Threads) ELSE 0]

Init ==
    /\ dur = Image /\ s = Mounted(Image)
    /\ ref = BootRefs /\ lock = Each(Inums, None)
    /\ th = Each(Threads, Idle) /\ cwd = Each(Threads, ROOTINO) /\ file = Each(Threads, None)
    /\ out = {} /\ raced = {} /\ stray = {} /\ boot = NINODES + 1 /\ calls = 0 /\ crashes = 0

----------------------------------------------------------------------------
(* References and locks *)

\* iget takes a table entry that is not in use as one that is not valid.
Igot(x, i) == IF ref[i] = 0 THEN [x EXCEPT !.valid[i] = FALSE] ELSE x
Iget(i) == ref' = [ref EXCEPT ![i] = @ + 1]

\* The inode whose lock t takes next.
Want(t) ==
    CASE th[t].pc \in {"namex", "open", "create", "fill", "unlink", "erase", "link", "linkdir", "chdir"} -> th[t].ip
      [] th[t].pc = "linkundo" -> th[t].old
      [] th[t].pc \in {"read", "write"} -> file[t].ip
      [] OTHER -> None

At(t, pc) == th[t].pc = pc /\ th[t].puts = <<>>

NoType(i) == ~s.valid[i] /\ s.dino[i].type = "free"

\* ilock: t is at pc and gets the lock of the inode it wants.  It panics, which is
\* no step, on an inode that the disk has free.
Ilock(t, pc) ==
    /\ At(t, pc)
    /\ lock[Want(t)] = None
    /\ ~NoType(Want(t))

Do(t, r) == th' = [th EXCEPT ![t] = r]
\* The call has nothing left to do but to drop the inodes in puts and to end.
End(t, puts) == Do(t, [th[t] EXCEPT !.pc = "end", !.puts = puts, !.ip = None, !.dp = None, !.old = None])

Rest == UNCHANGED <<dur, out, stray, boot, calls, crashes>>
Still == UNCHANGED <<cwd, file, raced>>
Quiet == Rest /\ Still

----------------------------------------------------------------------------
(* namex *)

Par(r) == r.old # None \/ r.call.op \in {"mkdir", "mknod", "unlink"} \/ "create" \in r.call.mode
Failed(r) == IF r.old # None THEN "linkundo" ELSE "end"
Arrived(r) ==
    IF r.old # None THEN "linkdir"
    ELSE IF r.call.op \in {"mkdir", "mknod"} \/ "create" \in r.call.mode THEN "create"
    ELSE r.call.op

\* At the head of namex's loop with inode i and the rest of the path.
Walk(r, i, path) ==
    IF path # <<>> THEN [r EXCEPT !.pc = "namex", !.ip = i, !.path = path]
    ELSE IF Par(r) THEN [r EXCEPT !.pc = Failed(r), !.ip = None, !.puts = <<i>>]
    ELSE [r EXCEPT !.pc = Arrived(r), !.ip = i, !.path = path]
Start(t, path) == IF path.abs THEN ROOTINO ELSE cwd[t]

\* begin_op and the start of namex.
Begin(t, c) ==
    /\ At(t, "idle") /\ boot > NINODES /\ calls < MaxCalls
    /\ c.op \notin {"read", "write", "close"}
    /\ calls' = calls + 1
    /\ out' = out \cup {t}
    /\ LET i == Start(t, c.path) IN
       /\ Iget(i) /\ s' = Igot(s, i)
       /\ Do(t, Walk([Idle EXCEPT !.call = c], i, c.path.el))
    /\ UNCHANGED <<dur, lock, cwd, file, raced, stray, boot, crashes>>

\* One turn of the loop, under the lock of the directory.
Lookup(t) ==
    /\ Ilock(t, "namex")
    /\ LET r == th[t]
           i == r.ip
           x == Load(s, i)
           next == Dirlookup(x, x.mem[i], Head(r.path))
           fail == [r EXCEPT !.pc = Failed(r), !.ip = None, !.puts = <<i>>]
       IN  \/ /\ x.mem[i].type # "dir"
              /\ Do(t, fail) /\ s' = x /\ UNCHANGED ref
           \/ /\ x.mem[i].type = "dir" /\ Par(r) /\ Len(r.path) = 1
              /\ Do(t, [r EXCEPT !.pc = Arrived(r), !.name = Head(r.path), !.path = <<>>])
              /\ s' = x /\ UNCHANGED ref
           \/ /\ x.mem[i].type = "dir" /\ ~(Par(r) /\ Len(r.path) = 1)
              /\ IF next = 0 THEN Do(t, fail) /\ s' = x /\ UNCHANGED ref
                 ELSE /\ Iget(next) /\ s' = Igot(x, next)
                      /\ Do(t, [Walk(r, next, Tail(r.path)) EXCEPT !.puts = <<i>>,
                                !.up = @ \/ (Head(r.path) = ".." /\ x.mem[i].nlink = 0)])
    /\ UNCHANGED lock /\ Quiet

----------------------------------------------------------------------------
(* iput *)

\* Mutant: iput does not ask whether there are other references.
LastRef_AnyRef(i) == s.valid[i] /\ s.mem[i].nlink = 0

LastRef(i) == ref[i] = 1 /\ s.valid[i] /\ s.mem[i].nlink = 0

Putting(t, stage) == th[t].puts # <<>> /\ th[t].put = stage

\* The last reference to an inode without links: its lock, taken with the
\* table's spinlock held, must be free (to sleep there is a panic in sched).
IputLast(t) ==
    /\ Putting(t, "") /\ LastRef(Head(th[t].puts))
    /\ lock[Head(th[t].puts)] = None
    /\ lock' = [lock EXCEPT ![Head(th[t].puts)] = t]
    /\ th' = [th EXCEPT ![t].put = "free"]
    /\ UNCHANGED <<s, ref>> /\ Quiet

\* Truncate it, mark it free on the disk and not valid in memory, unlock.
Freed(x, i) == [Iupdate([Itrunc(x, i) EXCEPT !.mem[i].type = "free"], i) EXCEPT !.valid[i] = FALSE]

\* The names, without the dots, in the directories of the disk: directory, position,
\* name, inode.
NamesOf(x) ==
    {n \in UNION {{<<d, k, Entry(x, x.dino[d], k).name, Entry(x, x.dino[d], k).inum>> : k \in Entries(x, x.dino[d])}
                    : d \in {i \in Inums : x.dino[i].type = "dir"}} : n[3] \notin {".", ".."}}

\* The inodes named in directory d when it is freed: a call that was on its way there
\* when d was removed may have put a name.
NamedIn(x, d) == {n[4] : n \in {m \in NamesOf(x) : m[1] = d}}

IputFree(t) ==
    /\ Putting(t, "free")
    /\ LET i == Head(th[t].puts) IN
       /\ s' = Freed(s, i) /\ lock' = [lock EXCEPT ![i] = None]
       /\ stray' = stray \cup NamedIn(s, i)
    /\ th' = [th EXCEPT ![t].put = "dec"]
    /\ Still /\ UNCHANGED <<ref, dur, out, boot, calls, crashes>>

IputDec(t) ==
    /\ \/ Putting(t, "") /\ ~LastRef(Head(th[t].puts))
       \/ Putting(t, "dec")
    /\ ref' = [ref EXCEPT ![Head(th[t].puts)] = @ - 1]
    /\ th' = [th EXCEPT ![t].puts = Tail(@), ![t].put = ""]
    /\ UNCHANGED <<s, lock>> /\ Quiet
----------------------------------------------------------------------------
(* create, sys_open, sys_mkdir, sys_mknod *)

\* A device whose major number is out of range is a type of its own, "nodevice".
Type(c) ==
    CASE c.op = "open" -> "file"
      [] c.op = "mkdir" -> "dir"
      [] c.op = "mknod" -> IF "badmajor" \in c.mode THEN "nodevice" ELSE "device"

\* The directory is locked: the name is there, or an inode is allocated for it.
Create(t) ==
    /\ Ilock(t, "create")
    /\ LET r == th[t]
           dp == r.ip
           x == Load(s, dp)
           found == Dirlookup(x, x.mem[dp], r.name)
           new == Min(FreeInums(x))
       IN  \/ /\ found # 0
              /\ Iget(found) /\ s' = Igot(x, found)
              /\ Do(t, [r EXCEPT !.pc = "open", !.ip = found, !.puts = <<dp>>])
              /\ UNCHANGED <<lock, raced>>
           \/ /\ found = 0 /\ FreeInums(x) = {}
              /\ End(t, <<dp>>) /\ s' = x /\ UNCHANGED <<ref, lock, raced>>
           \/ /\ found = 0 /\ FreeInums(x) # {}
              /\ Iget(new) /\ s' = Ialloc(Igot(x, new), new, Type(r.call))
              /\ Do(t, [r EXCEPT !.pc = "fill", !.dp = dp, !.ip = new])
              /\ lock' = [lock EXCEPT ![dp] = t]
              /\ raced' = IF ref[new] > 0 THEN raced \cup {new} ELSE raced
    /\ UNCHANGED <<cwd, file>> /\ Rest

\* The new inode gets its link, its dots and its name, until one dirlink fails.
Links(r) ==
    (IF r.call.op = "mkdir" THEN <<<<r.ip, ".", r.ip>>, <<r.ip, "..", r.dp>>>> ELSE <<>>)
    \o <<<<r.dp, r.name, r.ip>>>>
LinkAll(x, links) ==
    FoldLeft(LAMBDA a, l : IF a.ok THEN Dirlink(a.s, l[1], l[2], l[3]) ELSE a, [ok |-> TRUE, s |-> x], links)

CreateFill(t) ==
    /\ Ilock(t, "fill")
    /\ LET r == th[t]
           x == Iupdate([Load(s, r.ip) EXCEPT !.mem[r.ip].nlink = 1], r.ip)
           l == LinkAll(x, Links(r))
       IN  IF l.ok
           THEN /\ s' = IF r.call.op = "mkdir" THEN Iupdate([l.s EXCEPT !.mem[r.dp].nlink = @ + 1], r.dp) ELSE l.s
                /\ lock' = [lock EXCEPT ![r.dp] = None, ![r.ip] = t]
                /\ Do(t, [r EXCEPT !.pc = "created", !.dp = None, !.puts = <<r.dp>>])
           ELSE /\ s' = Iupdate([l.s EXCEPT !.mem[r.ip].nlink = 0], r.ip)
                /\ UNCHANGED lock
                /\ Do(t, [r EXCEPT !.pc = "unlockdp", !.ip = None, !.puts = <<r.ip>>])
    /\ UNCHANGED ref /\ Quiet

\* Mutant: the error path keeps the lock of the directory.
UnlockDp_NoUnlock(t) ==
    /\ At(t, "unlockdp")
    /\ Do(t, [th[t] EXCEPT !.pc = Failed(th[t]), !.dp = None, !.puts = <<th[t].dp>>])
    /\ UNCHANGED <<s, ref, lock>> /\ Quiet

\* A failed create, link or unlink gives up the directory after the inode.
UnlockDp(t) ==
    /\ At(t, "unlockdp")
    /\ lock' = [lock EXCEPT ![th[t].dp] = None]
    /\ Do(t, [th[t] EXCEPT !.pc = Failed(th[t]), !.dp = None, !.puts = <<th[t].dp>>])
    /\ UNCHANGED <<s, ref>> /\ Quiet

\* From the test of the major number to the end of sys_open, with the inode i locked;
\* a thread has one descriptor.  The other calls only drop what they created.
Finish(t, i, x) ==
    LET c == th[t].call IN
    IF c.op # "open" \/ x.mem[i].type = "nodevice" \/ file[t] # None
    THEN End(t, <<i>>) /\ s' = x /\ UNCHANGED file
    ELSE /\ End(t, <<>>)
         /\ s' = IF "trunc" \in c.mode /\ x.mem[i].type = "file" THEN Itrunc(x, i) ELSE x
         /\ file' = [file EXCEPT ![t] = [ip |-> i, off |-> 0, writable |-> "write" \in c.mode,
                                         device |-> x.mem[i].type = "device"]]

\* An inode that was there is opened, or refused.
Open(t) ==
    /\ Ilock(t, "open")
    /\ LET i == th[t].ip
           c == th[t].call
           x == Load(s, i)
           ok == /\ c.op = "open"
                 /\ x.mem[i].type = "dir" => c.mode = {}
       IN  IF ok THEN Finish(t, i, x) ELSE End(t, <<i>>) /\ s' = x /\ UNCHANGED file
    /\ UNCHANGED <<ref, lock, cwd, raced>> /\ Rest

Created(t) ==
    /\ At(t, "created")
    /\ Finish(t, th[t].ip, s)
    /\ lock' = [lock EXCEPT ![th[t].ip] = None]
    /\ UNCHANGED <<ref, cwd, raced>> /\ Rest

----------------------------------------------------------------------------
(* sys_unlink *)

Unlink(t) ==
    /\ Ilock(t, "unlink")
    /\ LET r == th[t]
           dp == r.ip
           x == Load(s, dp)
           ip == Dirlookup(x, x.mem[dp], r.name)
       IN  IF r.name \in {".", ".."} \/ ip = 0
           THEN End(t, <<dp>>) /\ s' = x /\ UNCHANGED <<ref, lock>>
           ELSE /\ Iget(ip) /\ s' = Igot(x, ip)
                /\ lock' = [lock EXCEPT ![dp] = t]
                /\ Do(t, [r EXCEPT !.pc = "erase", !.dp = dp, !.ip = ip])
    /\ Quiet

\* Both locks held: refuse a directory that is not empty, else erase the entry.
UnlinkErase(t) ==
    /\ Ilock(t, "erase")
    /\ LET r == th[t]
           x == Load(s, r.ip)
           dir == x.mem[r.ip].type = "dir"
           w == Writei(x, r.dp, Min(Offsets(x, x.mem[r.dp], r.name)), NoEntry, TRUE)
       IN  /\ x.mem[r.ip].nlink >= 1
           /\ \/ /\ dir /\ ~Isdirempty(x, x.mem[r.ip])
                 /\ s' = x
                 /\ Do(t, [r EXCEPT !.pc = "unlockdp", !.ip = None, !.puts = <<r.ip>>])
                 /\ UNCHANGED lock
              \/ /\ dir => Isdirempty(x, x.mem[r.ip])
                 /\ s' = IF dir THEN Iupdate([w.s EXCEPT !.mem[r.dp].nlink = @ - 1], r.dp) ELSE w.s
                 /\ lock' = [lock EXCEPT ![r.dp] = None, ![r.ip] = t]
                 /\ Do(t, [r EXCEPT !.pc = "unlinked", !.dp = None, !.puts = <<r.dp>>])
    /\ UNCHANGED ref /\ Quiet

Unlinked(t) ==
    /\ At(t, "unlinked")
    /\ LET i == th[t].ip IN
       /\ s' = Iupdate([s EXCEPT !.mem[i].nlink = @ - 1], i)
       /\ lock' = [lock EXCEPT ![i] = None]
       /\ End(t, <<i>>)
    /\ UNCHANGED ref /\ Quiet

----------------------------------------------------------------------------
(* sys_link *)

\* The old name's inode gets the link first; then the new name's directory is found.
LinkOld(t) ==
    /\ Ilock(t, "link")
    /\ LET r == th[t]
           x == Load(s, r.ip)
           i == Start(t, r.call.to)
       IN  IF x.mem[r.ip].type = "dir" THEN End(t, <<r.ip>>) /\ s' = x /\ UNCHANGED ref
           ELSE /\ Iget(i)
                /\ s' = Igot(Iupdate([x EXCEPT !.mem[r.ip].nlink = @ + 1], r.ip), i)
                /\ Do(t, Walk([r EXCEPT !.old = r.ip], i, r.call.to.el))
    /\ UNCHANGED lock /\ Quiet

LinkNew(t) ==
    /\ Ilock(t, "linkdir")
    /\ LET r == th[t]
           dp == r.ip
           x == Load(s, dp)
           found == Dirlookup(x, x.mem[dp], r.name)
           l == Dirlink(x, dp, r.name, r.old)
       IN  IF l.ok THEN End(t, <<dp, r.old>>) /\ s' = l.s /\ UNCHANGED <<ref, lock>>
           ELSE /\ lock' = [lock EXCEPT ![dp] = t]
                /\ IF found # 0 THEN Iget(found) /\ s' = Igot(l.s, found) ELSE s' = l.s /\ UNCHANGED ref
                /\ Do(t, [r EXCEPT !.pc = "unlockdp", !.ip = None, !.dp = dp,
                                   !.puts = IF found # 0 THEN <<found>> ELSE <<>>])
    /\ Quiet

\* Mutant: the way back does not take back the count.
LinkUndo_KeepsCount(t) ==
    /\ Ilock(t, "linkundo")
    /\ LET i == th[t].old IN s' = Iupdate(Load(s, i), i) /\ End(t, <<i>>)
    /\ UNCHANGED <<ref, lock>> /\ Quiet

LinkUndo(t) ==
    /\ Ilock(t, "linkundo")
    /\ LET i == th[t].old IN s' = Iupdate([Load(s, i) EXCEPT !.mem[i].nlink = @ - 1], i) /\ End(t, <<i>>)
    /\ UNCHANGED <<ref, lock>> /\ Quiet

----------------------------------------------------------------------------
(* sys_chdir, fileread, filewrite, fileclose *)

Chdir(t) ==
    /\ Ilock(t, "chdir")
    /\ LET r == th[t] IN
       /\ s' = Load(s, r.ip)
       /\ IF s'.mem[r.ip].type # "dir" THEN End(t, <<r.ip>>)
          ELSE Do(t, [r EXCEPT !.pc = "endcd", !.puts = <<cwd[t]>>])
    /\ UNCHANGED <<ref, lock>> /\ Quiet

\* A call on the open file; fileread needs no transaction.  One write is one
\* turn of filewrite's loop.
OnFile(t, c) ==
    /\ At(t, "idle") /\ file[t] # None /\ calls < MaxCalls
    /\ calls' = calls + 1
    /\ \/ /\ c.op = "close"
          /\ out' = out \cup {t}
          /\ file' = [file EXCEPT ![t] = None]
          /\ Do(t, [Idle EXCEPT !.pc = "end", !.call = c, !.puts = <<file[t].ip>>])
       \/ /\ c.op = "write" /\ file[t].writable /\ ~file[t].device
          /\ out' = out \cup {t}
          /\ Do(t, [Idle EXCEPT !.pc = "write", !.call = c]) /\ UNCHANGED file
       \/ /\ c.op = "read" /\ ~file[t].device
          /\ Do(t, [Idle EXCEPT !.pc = "read", !.call = c]) /\ UNCHANGED <<out, file>>
    /\ UNCHANGED <<s, dur, ref, lock, cwd, raced, stray, boot, crashes>>

Write(t) ==
    /\ Ilock(t, "write")
    /\ \E copied \in BOOLEAN :
       LET w == Writei(Load(s, file[t].ip), file[t].ip, file[t].off, None, copied) IN
       /\ s' = w.s
       /\ file' = IF w.ok THEN [file EXCEPT ![t].off = @ + 1] ELSE file
    /\ End(t, <<>>)
    /\ UNCHANGED <<ref, lock, cwd, raced>> /\ Rest

Read(t) ==
    /\ Ilock(t, "read")
    /\ s' = Load(s, file[t].ip)
    /\ file' = IF file[t].off < s'.mem[file[t].ip].size THEN [file EXCEPT ![t].off = @ + 1] ELSE file
    /\ Do(t, Idle)
    /\ UNCHANGED <<ref, lock, cwd, raced>> /\ Rest

----------------------------------------------------------------------------
(* end_op, power failure, recovery *)

\* The last call out commits what all of them wrote.
EndOp(t) ==
    /\ At(t, th[t].pc) /\ th[t].pc \in {"end", "endcd"}
    /\ out' = out \ {t}
    /\ dur' = IF out' = {} THEN Disk(s) ELSE dur
    /\ cwd' = IF th[t].pc = "endcd" THEN [cwd EXCEPT ![t] = th[t].ip] ELSE cwd
    /\ Do(t, Idle)
    /\ UNCHANGED <<s, ref, lock, file, raced, stray, boot, calls, crashes>>

Crash ==
    /\ crashes < MaxCrashes
    /\ crashes' = crashes + 1
    /\ s' = Mounted(dur)
    /\ ref' = BootRefs /\ lock' = Each(Inums, None)
    /\ th' = Each(Threads, Idle) /\ cwd' = Each(Threads, ROOTINO) /\ file' = Each(Threads, None)
    /\ out' = {} /\ raced' = {} /\ boot' = 1
    /\ UNCHANGED <<dur, stray, calls>>

\* Mutant: ireclaim finds the orphans and does not put them.
Ireclaim_NoIput ==
    /\ boot <= NINODES
    /\ LET orphan == s.dino[boot].type # "free" /\ s.dino[boot].nlink = 0 IN
       s' = IF orphan THEN Load(s, boot) ELSE s
    /\ dur' = Disk(s')
    /\ boot' = boot + 1
    /\ UNCHANGED <<ref, lock, th, cwd, file, out, raced, stray, calls, crashes>>

\* One turn of ireclaim, a transaction of its own.
Ireclaim ==
    /\ boot <= NINODES
    /\ LET orphan == s.dino[boot].type # "free" /\ s.dino[boot].nlink = 0 IN
       IF orphan THEN s' = Freed(Load(s, boot), boot) /\ stray' = stray \cup NamedIn(s, boot)
       ELSE UNCHANGED <<s, stray>>
    /\ dur' = Disk(s')
    /\ boot' = boot + 1
    /\ UNCHANGED <<ref, lock, th, cwd, file, out, raced, calls, crashes>>

\* Nothing left to do: all calls made and returned.
Done == calls = MaxCalls /\ boot > NINODES /\ (\A t \in Threads : th[t].pc = "idle") /\ UNCHANGED vars

Step(t) ==
    \/ Lookup(t) \/ IputLast(t) \/ IputFree(t) \/ IputDec(t)
    \/ Create(t) \/ CreateFill(t) \/ UnlockDp(t) \/ Open(t) \/ Created(t)
    \/ Unlink(t) \/ UnlinkErase(t) \/ Unlinked(t) \/ LinkOld(t) \/ LinkNew(t) \/ LinkUndo(t)
    \/ Chdir(t) \/ Write(t) \/ Read(t) \/ EndOp(t)

Next ==
    \/ \E t \in Threads : Step(t) \/ \E c \in Calls : Begin(t, c) \/ OnFile(t, c)
    \/ Crash \/ Ireclaim \/ Done

Spec == Init /\ [][Next]_vars
----------------------------------------------------------------------------
(* Properties *)

Dinodes == [type : {"free", "file", "dir", "device", "nodevice"}, nlink : Nat, size : Nat,
            addrs : [1..NDIRECT + 1 -> 0..NBLOCKS]]

\* Types of the state: sizes within MAXFILE, links and references never below zero.
TypeOK ==
    /\ s.dino \in [Inums -> Dinodes] /\ s.mem \in [Inums -> Dinodes] /\ s.valid \in [Inums -> BOOLEAN]
    /\ s.used \subseteq Blocks /\ dur.used \subseteq Blocks /\ dur.dino \in [Inums -> Dinodes]
    /\ ref \in [Inums -> Nat] /\ lock \in [Inums -> Threads \cup {None}]
    /\ cwd \in [Threads -> Inums] /\ out \subseteq Threads /\ boot \in 1..NINODES + 1
    /\ calls \in 0..MaxCalls /\ crashes \in 0..MaxCrashes

\* The block pointers of inode d: slots of addrs, and of the indirect block.
Pointers(x, d) ==
    {<<k, d.addrs[k]>> : k \in {n \in 1..NDIRECT + 1 : d.addrs[n] # 0}}
    \cup (IF d.addrs[NDIRECT + 1] = 0 THEN {}
          ELSE {<<NDIRECT + 1 + k, Addr(x, d, NDIRECT - 1 + k)>> :
                   k \in {n \in 1..NINDIRECT : Addr(x, d, NDIRECT - 1 + n) # 0}})
Exact(x) ==
    LET all == UNION {{<<i, p[1], p[2]>> : p \in Pointers(x, x.dino[i])} : i \in Inums} IN
    /\ {p[3] : p \in all} = x.used
    /\ Cardinality(all) = Cardinality(x.used)
Whole(x) == \A i \in Inums : \A k \in 0..x.dino[i].size - 1 :
                Addr(x, x.dino[i], IF x.dino[i].type = "dir" THEN k \div DPB ELSE k) # 0

\* In memory at every step and on the disk after every commit: a block is marked in
\* the bitmap exactly when one pointer of one inode leads to it, and no file has a
\* hole (bmap would then allocate in a read, which is in no transaction).
BlocksExact == Exact(s) /\ Whole(s) /\ Exact(dur) /\ Whole(dur)

\* References a thread accounts for: the inodes it works on, those it has still to
\* put, its directory and its open file.
Holds(t, i) ==
    LET r == th[t] IN
    Cardinality({k \in 1..3 : <<r.ip, r.dp, r.old>>[k] = i})
    + Cardinality({k \in DOMAIN r.puts : r.puts[k] = i})
    + (IF cwd[t] = i /\ r.pc # "endcd" THEN 1 ELSE 0)
    + (IF file[t] # None /\ file[t].ip = i THEN 1 ELSE 0)

\* iget, idup and iput: on every path through the calls, early returns included, the
\* reference count of an inode is the number of references threads have to it.
RefsExact == \A i \in Inums : ref[i] = MapThenSumSet(LAMBDA t : Holds(t, i), Threads)

\* The links of inode i: its names, in whatever directory, and for a directory its
\* subdirectories, which name it "..", and mkfs's link of the root.
LinksOf(x, names, i) ==
    Cardinality({n \in names : n[4] = i})
    + Cardinality({n \in names : n[1] = i /\ x.dino[n[4]].type = "dir"})
    + (IF i = ROOTINO THEN 1 ELSE 0)

\* The links that a call in progress has counted and not yet named, or erased and not
\* yet discounted.
Pending(i) ==
    Cardinality({t \in Threads : th[t].old = i})
    + Cardinality({t \in Threads : th[t].pc = "unlinked" /\ th[t].ip = i})

\* nlink is the number of links, in memory up to what calls in progress still have to
\* do and on the disk after every commit: a link or a create that fails has undone its
\* count.  The exception is an inode whose name went with the directory it was put in
\* after the directory had been removed.
LinksExact ==
    LET mem == NamesOf(s)
        disk == NamesOf(dur)
    IN  \A i \in Inums \ stray : /\ s.dino[i].nlink = LinksOf(s, mem, i) + Pending(i)
                                /\ dur.dino[i].nlink = LinksOf(dur, disk, i)

\* Every count of the file system is exact on every path through its calls, the ones
\* that fail half way included: bitmap, block pointers, links and references.
CountsExact == TypeOK /\ BlocksExact /\ LinksExact /\ RefsExact

\* What the disk holds after a commit, and so after any power failure, is a tree:
\* a name leads to an allocated inode, once per directory, a subdirectory's ".." is
\* the directory it is named in, and no inode has more names than links.
DurableTree ==
    LET names == {n \in NamesOf(dur) : dur.dino[n[1]].nlink > 0} IN
    /\ \A n \in names :
        LET c == dur.dino[n[4]] IN
        /\ c.type # "free"
        /\ c.type = "dir" => Dirlookup(dur, c, "..") = n[1]
        /\ \A m \in names : m[1] = n[1] /\ m[3] = n[3] => m = n
        /\ Cardinality({m \in names : m[4] = n[4]}) <= c.nlink

\* An inode that lost its last link is freed by the last iput, or by ireclaim if the
\* machine failed first: between calls, none is allocated without link or reference.
\* The exception is an inode that ialloc gave out again before the iput that freed it
\* dropped its reference: that late decrement can be the last one and frees nothing.
Reclaimed ==
    (boot > NINODES /\ out = {}) =>
        \A i \in Inums \ raced : s.dino[i].type # "free" /\ s.dino[i].nlink = 0 => ref[i] > 0

\* The panics of ilock ("no type"), of sys_unlink ("nlink < 1") and of sched (iput
\* asleep on an inode with the table's spinlock held).
Panics(t) ==
    LET i == Want(t) IN
    \/ /\ i # None /\ th[t].puts = <<>> /\ lock[i] = None
       /\ \/ NoType(i)
          \/ th[t].pc = "erase" /\ Load(s, i).mem[i].nlink < 1
    \/ Putting(t, "") /\ LastRef(Head(th[t].puts)) /\ lock[Head(th[t].puts)] # None

\* No call panics, whatever the others do, unless it went up from a directory that
\* had been removed (th[t].up).
SafeWalk == \A t \in Threads : Panics(t) => th[t].up

\* Locks are taken in an order without cycles: while calls are in progress, one of the
\* threads is not waiting for an inode's lock.
SomeoneRuns ==
    (\E t \in Threads : th[t].pc # "idle") =>
        \E t \in Threads : /\ th[t].pc # "idle"
                           /\ (th[t].puts = <<>> /\ Want(t) # None) => lock[Want(t)] = None
=============================================================================
