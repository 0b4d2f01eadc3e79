# A TLA+ model of xv6-riscv-rust

This directory models the kernel under `src/kernel/`, the file-system builder and
the shell and library under `src/mkfs/` and `src/user/` in TLA+, checks the models
with TLC on small instances, and proves theorems about them with TLAPS. The
source is the reference: every definition names in `PROJECT.json` ("map") the
lines it stands for.

Run from this directory:

    tlc -workers 2 -config Proc.cfg MCProc      # any run: see the table below
    tlapm ProcProofs.tla                        # a module with theorems, about two minutes

## The system and its parts

xv6 is a Unix kernel for a RISC-V machine with several harts (CPUs). All CPUs
run the same kernel over the same memory. A CPU runs either its scheduler loop
or the kernel thread of one process; threads change over with `swtch`, always
through the scheduler. Interrupts arrive on any CPU whose interrupts are on.
Mutual exclusion is by spin locks, waiting by `sleep(chan, lock)` and
`wakeup(chan)`.

| Part | Source | State | Operations | Hard part | Module |
|---|---|---|---|---|---|
| processes, scheduler | rust_proc.rs | table of 64 slots (state, pid, parent, chan, killed), Cpu.proc, wait_lock | scheduler, sched, yield, sleep, wakeup, kfork, kexit, kwait, kkill | two CPUs on one stack, lost wakeups, orphans | Proc |
| traps | rust_trap.rs, kernelvec, trampoline | ticks | usertrap, kerneltrap, clockintr, devintr | preemption at any place with interrupts on | Proc, Cow (in part) |
| spin locks | rust_spinlock.rs, rust_lock.rs | locked, cpu, noff, intena | acquire, release, push_off, pop_off, SpinMutex | an interrupt handler against its own CPU | Proc (in part) |
| sleep locks | rust_sleeplock.rs | locked, pid | acquiresleep, releasesleep | held over sleeps | Bio |
| log | rust_log.rs | lh, outstanding, committing | begin_op, log_write, end_op, commit, recovery | crashes at any step | Log |
| buffer cache | rust_bio.rs | NBUF buffers, LRU list | bread, bwrite, brelse, bpin | recycling, all buffers in use | Bio |
| virtio disk | rust_virtio_disk.rs | 8 descriptors, two rings | virtio_disk_rw, virtio_disk_intr | descriptors run out, completions out of order | Virtio |
| pipes | rust_pipe.rs | ring of 512, nread, nwrite, two flags | pipewrite, piperead, pipeclose | two channels, kills, closing ends | Pipe |
| UART | rust_uart.rs | ring of 256, w, r | uartwrite, uartintr, uartputc_sync | interrupt against writers | Uart |
| console | rust_console.rs | ring, r, w, e | consoleintr, consoleread, consolewrite | full ring while editing, echo | Console |
| page allocator | rust_kalloc.rs | free list, counts | kalloc, kfree, kref_inc | count and list are two steps | Cow |
| virtual memory | rust_vm.rs | page tables | uvmcopy, cow_resolve, vmfault, copyout, uvmunmap | copy-on-write sharing | Cow |
| exec | rust_exec.rs | a second address space | kexec | error path, the sizes of two tables | Cow |
| inodes, blocks | rust_fs.rs | inode table, bitmap | iget, ilock, iput, itrunc, balloc, bmap | last reference, reclaim after crash | FsDisk, Fs |
| directories, names | rust_fs.rs | directory blocks | dirlookup, dirlink, namex, skipelem | lock order, names of full length | FsDisk, Fs, CString |
| file system calls | rust_sysfile.rs | descriptors | open, link, unlink, create, chdir, pipe, dup | several steps, each may fail | Fs, File |
| file table | rust_file.rs | 100 files, counts | filealloc, filedup, fileclose, fileread, filewrite | last close | File |
| printf, strings | rust_printf.rs, rust_string.rs | none | printf, strncpy, safestrcpy, memmove | boundaries | Printf, CString |
| shell, init | user/sh.rs, user/init.rs | descriptors, children | parsecmd, runcmd, main | ends of pipes left open, failing calls | ShParse, Shell |
| user library, programs | user/umalloc.rs, printf.rs, ulib.rs, grep.rs, cat.rs, wc.rs, echo.rs | free list, buffers | malloc, free, printf, grep | coalescing, lines across reads | Umalloc, Printf, CString, Grep, Shell |
| mkfs | mkfs/mkfs.rs | the image | ialloc, iappend, main | bitmap against inodes | Mkfs |

`PROJECT.json` lists every part with its status, and the hazards at their lines,
with the property that would catch each or the reason none does.

How the models meet: `Bio` is the disk below `Log`, through the promise
`BlockStore`; `Log` is the disk below `Fs`, through `AtomicDisk` (Fs makes what a
group of calls wrote durable at once); `File` has the two ends of a pipe that `Pipe`
has in detail; `Shell` takes the calls of `Proc` as atomic; `Mkfs` is the initial
state of `Fs`; `Console` extends `Uart`, `Bio` extends `Virtio`, `Shell` extends `File`
and `ShParse`, `Lib` puts the algorithms together.

## Modules

### Proc: processes and the scheduler

State: the process table (`state`, `pid`, `parent`, `chan`, `killed`), the
holders of every `p->lock` and of `wait_lock`, `Cpu.proc`, what each CPU executes
(`spc`: its scan, a process, or the instant after `swtch` back), and the place and
locals of every kernel thread. One action is one critical section or one
iteration of a loop over the table, so that any two CPUs interleave wherever the
code lets them. A lock that is held across actions is explicit. Channels are the
addresses of slots, which is what `kwait` and `kexit` use.

`KernelTimer` preempts a thread at every place where it holds no lock; inside a
critical section `push_off` keeps interrupts off. A program may call `fork`,
`wait`, `exit` and `kill` in any order; `init` does not exit and is not killed
(`user/init.rs` loops; that it returns, which panics the kernel, when fork or wait
fails is left out). `ForkFail` stands for every allocation failure.

Bounds: `NPROC`, `CPUs`, `MaxPid` (pids handed out; the scan fails beyond it),
`KillPids` (the arguments of kill) and `Killers` (the slots whose programs call
it). Three slots and two CPUs give a parent, its child and init, with exit, wait,
kill and reparenting racing on both CPUs.

`ProcInvariant`, `ProcThreads`, `ProcSlots` and `ProcProofs` hold the theorems (below).

### Log and AtomicDisk: the write-ahead log

`Log` follows `rust_log.rs`: admission in `begin_op`, absorption in `log_write`,
the commit by the last `end_op`, one block transfer per action, and recovery by
`initlog`. `Crash` may happen in any state, recovery included. Home blocks are
cached in a partial copy of the disk from which any unpinned block may vanish
(`Evict`), the part of the buffer cache that matters here.

`AtomicDisk` is the promise: a disk where a group of operations becomes durable
at once. The refinement reads the durable contents as the home blocks overlaid
with the log if its header is not empty.

An operation writes at most `OpBlocks` distinct blocks, and
`OpBlocks < MAXOPBLOCKS`: `log_write` panics on a full log even when it would
absorb, so a full reservation cannot be used. `Reserved` is what admission is for: the
blocks logged, also by operations that ended without a commit, and those the open
operations may still add fit in the log. A write of a block (two sectors) is atomic,
which the code assumes as well. `LogProofs` holds the theorems (below).

### Pipe and ByteStream

The pipe with several processes at each end. A byte is an action, so that a kill
comes between any two bytes; the lock is held as in the code. The counters wrap at
`Width` (2^32 in the code), a multiple of `PIPESIZE`. `Close` is the last `fileclose`
of an end. `ReaderWoken` and `WriterWoken` say that nobody sleeps once there is
something to do, a closed end included; a kill between the test of `killed` and the
sleep finds nobody to wake, here as in kwait. `ByteStream` is a bounded queue with two
flags; the refinement maps the bytes between `nread` and `nwrite` to it.
`PipeInvariant`, `PipeProofs` and `PipeRefinement` hold the theorems (below).

### Uart and Console

Writers (`consolewrite`) fill the transmit ring under the lock, `start_tx_locked` feeds
the device, the interrupt feeds it again, `uartputc_sync` bypasses ring and lock: the
echo of `consoleintr` goes that way, byte by byte, between the bytes of writers. The
device and the terminal are external: the device holds the bytes it accepted, sends
them later and raises an interrupt, the terminal draws the echo at a cursor. Input
has the three indices of the code, which wrap at `Width` (2^32 in the code, a multiple
of the ring); keys are a character, return, line feed, ^D, ^U and backspace. The
history variable `owed` is what was committed and not read, `out` what each writer's calls
have put on the line. `consolewrite` copies in chunks of `CHUNK` bytes, so that two
writers mix chunk by chunk, and inside a chunk whenever one sleeps; `InOrder` says that
each one's bytes leave in its order, none lost or repeated.

Bound (`KeysOrBytes` in MCConsole): two writers at work meet at most one key, and the
editing of a line meets at most one byte on its way out. The echo shares only the
device with the writers, and one key is enough for its byte to come between
`start_tx_locked`'s test and its write.

### Cow and PrivateMemory

Pages with their contents, counts and free list; for every process the leaf
entries of its page table with the W, COW and U bits. One action is one access to
the free list or to a count, with the private work around it. `fork` shares pages
one by one and may fail at each; faults, `copyout`, `sbrk` both ways and exit are
there. An eager `sbrk` maps several pages one by one before `proc.sz` covers them; when
memory runs out in the middle, `uvmdealloc` takes back those it has mapped. A round of
`uvmunmap` goes up to the `refcnt_dec` of its kfree, the page table being private to
the process; entries that are not valid cost no step (`Leaves`). `mappages` may fail at any time, which stands for `walk` running out of
page-table pages. Exit unmaps in the name of the exiting process; in the code the
parent does it in `kwait`, on the same state.

`Exec` builds a second table (`spare`) page by page, may fail at each, swaps the
tables and frees the old one with the old size. An image is its number of pages, the
read-only ones, the one taken from the user below the stack, and the content of the
first; headers and arguments are data.

`PrivateMemory` is what a process believes: pages of its own, zero when new,
copied at fork, changed by its own writes, its text never.

Bounds (MCCow): a third process is there when each has one page that it may write, and
they store, fault, fork and exit (`ThirdIsSmall`), enough for a fork to share a page that
two others resolve and drop; during an exec the other process keeps its size
(`ExecBesideBoot`).

### Virtio, Bio and BlockStore: the disk driver and the buffer cache

A request takes three descriptors of `NUM`, goes to a device that completes in any
order, and comes back through the used ring and an interrupt; `intr` is the handler
between the acknowledgement and the end of its loop. The loop takes one entry of the
ring per step (`IntrUsed`), so that completions arrive while it runs and one interrupt
may stand for two requests. `NUM` is one of `NUMs`, chosen at the start. The device
reports no error; the handler would panic on one. `Bio` has the list from most to least recently used, the valid flag,
the counts and the sleep lock of each buffer; bget's scan and recycling are one step
under `bcache.lock`, as in the code. Threads read blocks, change what they hold and
write it, or pin it as `log_write` does; only `MaxPins` buffers are pinned, as the log's
size bounds them, and blocks in `Written` are written (without a bound, bget's panic is reachable, as it is in the code when
callers hold all buffers). `BlockStore` is the promise: each block has one content,
whichever buffer it is in.

### Mkfs, FsDisk and Fs: the file system

`FsDisk` has the operations on blocks, inodes and directories as functions of a state:
`bmap` with one indirect block, `writei`, also with a copyin that fails after the block
was allocated, `itrunc`, `dirlink`. File contents are left out;
sizes count blocks of a file and entries of a directory. `Fs` runs the system calls:
one step is one stretch of code under an inode's lock, or one part of an `iput`, which
has up to three. The `iput`s a call has still to make are a list (`puts`), so that every
early return drops what the code drops, in its order. `out` are the calls inside a
transaction; when the last one ends, what they wrote becomes `dur`. `Crash` goes back to
`dur`; then `ireclaim` runs before any call. A thread has one descriptor. The panics of
`ilock`, `sys_unlink` and of a sleep under a spin lock are no steps but states
(`Panics`), which `SafeWalk` excludes.

`raced` (history) marks inodes given out again while the `iput` that freed them is not
over, `stray` (history) inodes whose name went with a removed directory, `up` (history) a
walk that went through `..` of a removed directory: see the observations below.

### File, ShParse and Shell

`File` has the table of open files and the descriptors of each process; `fileclose`
drops the count under the lock and closes the pipe end after it. `sys_pipe` takes two
slots, a page and two descriptors in steps of their own (`making`), between which other
processes take slots and pages; it may fail at each and then closes what it has. Pipes
count their bytes. `ShParse` is the recursive-descent parser on tokens, with an error value where
the code prints a message and exits. `Shell` is init, the shell and the programs: a
process is the sequence of calls it has still to make, which `Runcmd` translates from
a parsed command. fork and pipe fail when there is no slot, page or descriptor, open
also when the file is not there, and the command exits as in the code. init forks its first shell into a table with room.

### CString, Printf, Grep, Umalloc and Lib: algorithms

The string and memory functions of the kernel and of the user library, both printf
functions, grep's matcher and its handling of lines across reads, read errors
included, and malloc with its circular list. The two printfs are separate programs and
separate definitions: digits in lower and in upper case, a scan with look-ahead and an
automaton with a buffer, a bound on the arguments in the kernel only (`Args`: the user's
reads on behind its last argument). malloc is asked for sizes whose bytes fit in an
`int` (`SizesFit`); beyond, morecore's request would saturate and turn negative. `Lib` runs them on
all small inputs (`MCLib`): a call with its arguments is an initial state, its result
the next one; grep reads its file in chunks of any size; malloc and free follow each
other in any order. Each is compared with a definition that says what it should
compute: the parser with the set of trees of the grammar, the matcher with the
language of the pattern, `skipelem` with the elements of the path, the heap with a
tiling of memory. `RECURSIVE` operators are in these modules only.

## Runs

| Run | Instance | Distinct states | Shows |
|---|---|---|---|
| Proc | 3 slots, 2 CPUs, 3 pids, kill(2) called by all but init | 515,000 | `TypeOK`, `OneCpu`, `NoPanic`, `NoLostWakeup`, `NoOrphan`, `NotBornKilled` |
| ProcLive | 2 slots, 2 CPUs, 2 pids, kill(2) | 15,200 | `EventuallyScheduled`, `WaitReturns`, `KilledExits` |
| ProcKillZero | as above with kill(0) | violation | finding 1 |
| Log | 2 blocks, 2 contents, 3 threads, log of 6, reservations of 3 | 56,000 | `LogConsistent`, `Atomic`, `LogProgress` |
| Pipe | 1 reader, 2 writers (the reader and one writer killable), 2 bytes, counters mod 4, calls of up to 3 bytes | 1,840,000 | `SleepersWoken`, `PipeSound`, `Stream` |
| Console | 2 writers of 3 bytes in chunks of 2, 1 reader of 2, 5 keys, 4 key presses, rings of 2 and 3, indices mod 6 | 930,000 | `InOrder`, `RingDrains`, `CommittedKept`, `EchoShowsLine`, `InputFlows` |
| UartStall | 2 writers of 3 bytes, ring of 2 | violation | finding 2 |
| Cow | 2 processes of up to 2 pages and a third with 1, 3 physical pages, one exec image | 313,000 | `PagesExact`, `NoPanic`, `Private` |
| Bio | 2 threads, 2 buffers, 3 blocks, 4 or 6 descriptors, 1 pin | 150,000 | `CacheExact`, `NobodyStranded`, `IsStore`, `RequestReturns` |
| Fs | 2 threads, 3 calls of 16, 4 inodes, 5 blocks, files of up to 3, 1 crash | 258,000 | `CountsExact`, `DurableTree`, `Reclaimed`, `SafeWalk`, `SomeoneRuns` |
| Shell | 6 processes, 5 files, 2 pipes, 1 of 6 command lines | 20,900 | `TablesExact`, `Wired`, `ShellGoesOn` |
| Lib | paths of 6, names of 3, longs of 8 bits, formats of up to 10, lines of 6 tokens, heap of 12 units | 137,000 | `StringsExact`, `PrintfsExact`, `ParserExact`, `GrepPrintsMatches`, `HeapExact` |

Some of these are conjunctions of smaller invariants that belong together, each
stated and explained at its definition:

- `LogConsistent`: the types of the log, `NoPanic`, `Reserved`, `SomebodyWakes`;
  `LogProgress`: `SleeperWoken`, `CommitEnds`;
- `SleepersWoken`: `ReaderWoken`, `WriterWoken`; `PipeSound`: the ring in bounds,
  `FreedOnce`;
- `InputFlows`: the rings in bounds, `FullIsReadable`, `SleepsForInput`;
- `PagesExact`: `RefcntExact`, `Owned`, `WritableIsPrivate`;
- `CacheExact`: the list whole, `RefcntExact`, `OneCopy`;
- `CountsExact`: `BlocksExact`, `LinksExact`, `RefsExact`;
- `TablesExact`: `RefsExact`, `EndsExact`, `PromptClean`; `ShellGoesOn`:
  `PromptReturns`, `Reaped`;
- `StringsExact`: `PathNames`, `EntryFound`, `CopyTerminated`, `MoveExact`;
  `PrintfsExact`: `NumbersRoundTrip`, `ConversionsExact`, `PrintfsAgree`; `HeapExact`:
  `HeapTiled`, `FreeListOrdered`, `NoNeedlessGrowth`.

Why the bounds suffice: the ring buffers are smaller than a call, so that they
fill, empty and wrap; the log admits two operations and refuses the third; two
commits follow each other; physical pages are fewer than the processes want, so
that allocation fails in every place; buffers are fewer than blocks, so that they are
recycled, and descriptors enough for one request, so that the second waits, or for two,
so that they complete in any order; inodes
and blocks run out within three calls; the file table is too small for the largest
pipeline. Every property that a run names has a mutant of the code's definitions
that violates it in that run.

`CHECK_DEADLOCK FALSE` is used for Pipe, Console, Cow, Shell and Lib, whose
processes may all be done, and for UartStall. Fs ends in `Done`, so that every other
state without a step is an error.

## Fairness

- Proc: every CPU's scheduler and every thread goes on when it can infinitely
  often (strong fairness: a spin lock that is free again and again is taken at
  last, which hardware arbitration gives), a process in user mode is interrupted by
  the timer, and a thread is not preempted while it spins, because `acquire` turns
  interrupts off first. Programs are not fair: they need not call anything.
- Log: open operations end, the committing thread and recovery go on, and a woken
  thread runs (weak fairness: a woken thread is not asked to win a race for room);
  crashes may come at any time.
- Bio: the device completes requests and its interrupt is handled (weak fairness); a
  thread in the driver gets the driver's lock at last (strong fairness). Programs and
  buffers' holders are not fair: `RequestReturns` is about the driver.
- Shell: some process that can go on does (weak fairness of all steps but typing). A
  line is finite work, so nobody is left out for ever; nobody has to type.

## Findings

1. `kkill(0)` (rust_proc.rs:606) marks the first UNUSED slot as killed; the process
   forked into it later is born killed and exits at its first trap. `NotBornKilled` in ProcKillZero.
2. `uartwrite` (rust_uart.rs:110) may drain the ring itself and then sleep with
   nothing left that would wake it. `ProducerWoken` in UartStall.

## Observations

Behaviours of the code that the models show, and that the properties leave out
explicitly, each at the place named:

- `pipewrite` (rust_pipe.rs:139) returns without a wake when its process is killed;
  bytes may wait in the pipe with a reader asleep while another writer is open.
  `ReaderWoken` speaks of runs without a killed writer.
- `vmfault` (rust_vm.rs:643) takes the inaccessible page below the stack for a COW
  page once a fork has marked it, so that copyout may write it. `Memory` in Cow.
- A walk through `..` of a directory removed meanwhile may meet an inode that the disk
  has free, and ilock panics. `SafeWalk` excepts it (`up`).
- `iput` (rust_fs.rs:433) drops its reference after it has freed the inode; if ialloc
  gives the inode out in between and it loses its links again, the late decrement
  frees nothing, and the inode stays until the next boot. `Reclaimed` excepts it
  (`raced`).
- A name put into a directory that was removed and is still in use, by create or by
  sys_link (rust_sysfile.rs:267), is lost with it: the inode keeps its link for good.
  `DurableTree` looks at directories with links only, `LinksExact` excepts such inodes
  (`stray`).
- A kill between the test of killed in kwait (rust_proc.rs:816) and its sleep wakes
  nobody: the process stays asleep until a child exits. `KilledExits` excepts it;
  `piperead`, `pipewrite` and `consoleread` have the same window.
- mkfs rounds the root's size up to whole blocks (mkfs.rs:379), and adds one when the
  size is a multiple; that last block then has no address, and the first lookup that
  reads so far allocates it in bmap. The image of the Fs run has no full block.
- `printint` of user/printf.rs negates the smallest long, right only with wrapping
  arithmetic (the kernel says `wrapping_neg`).
- init returns, which panics the kernel, when its fork fails (user/init.rs:22).

## Proofs

### Proc

Four modules, each extending the one before, prove for every number of slots, CPUs
and pids (`ProcAssumption` in Proc):

- `ProcTypeOK`: `Spec => []TypeOK`;
- `ProcCore`: `Spec => []Core`, the inductive invariant;
- `ProcOneCpu`: `Spec => []OneCpu`;
- `ProcNoPanic`: `Spec => []NoPanic`.

`OneCpu` is not inductive: that a second CPU cannot pick a process depends on the
lock that is held while it switches, and on the RUNNABLE processes being exactly
the ones whose thread has left its CPU or is about to with its lock held. `Core`
says this: `Cpu.proc` is the scheduler's loop variable and the lock is held until
the switch is over (`CpuInv`), no two CPUs have the same process (`UniqueInv`), where
a thread can be in each state (`PlaceInv`), a process that is RUNNING or about to
switch has a CPU (`BusyInv`), which locks a CPU holds by the place of its thread
(`RunInv`) and, the other way round, who may hold a lock (`LockInv`, `WaitLockInv`),
that a slot being forked belongs to one fork (`ForkInv`) and where a preempted
thread goes on (`ResumeInv`).

`ProcInvariant` has the types, `Core` and the step that picks a process, `ProcThreads`
the steps of a thread on its own process, `ProcSlots` those of kfork and kwait on a
second slot, `ProcProofs` the other switches and the theorems. They are separate
modules because the prover slows down with the number of obligations of a module.

Most actions touch only their own process and wait_lock, or make a sleeping
process RUNNABLE: `OwnStepCore` shows once that such a step keeps `Core`, and
`TrapOwn`, `KforkOwn`, `KkillOwn`, `KexitOwn` and `KwaitOwn` that the actions are
such steps. `SlotStepCore` does the same for the three actions that fill or free
another slot. The scheduler's actions and `sched` have a lemma each. "sched locks"
(`noff = 1`) follows from `LockInv` and `WaitLockInv`.

### Pipe

Three modules, each extending the one before, prove for any readers and writers, any
ring and counters that wrap at any larger multiple of its size (`PipeAssumption` in
Pipe), so for 512 bytes and 2^32 as well:

- `PipeInv`: `Spec => []Inv`, the inductive invariant;
- `PipeSleepersWoken`: `Spec => []SleepersWoken`, no lost wakeup at either end;
- `PipeIsSound`: `Spec => []PipeSound`, the ring in bounds and the page freed once;
- `PipeIsStream`: `Spec => Stream`, Pipe implements ByteStream.

What has to be added to the properties to make them inductive: the lock is held by
the process inside its call (`LockInv`), which still knows what its last test found
(`TestInv`), so that a writer about to store a byte has a reader's end and an index in
range; an end is open while a process keeps it, and only the last one closes it
(`EndInv`); the page is freed by one process after both ends are closed (`FreeInv`).
A writer asleep on a ring with room is safe not because some reader has the lock but
because that reader is past its test and cannot return without its wake
(`WriterInv`); that a reader has the lock follows. Every step is by one process that
leaves the others where they are or wakes them (`StepForm`) and changes the pipe only
under its lock (`StepLocked`).

The arithmetic is in lemmas of its own: `CountIs`, `WriteBound` and `ReadBound` turn the
remainder modulo `Width` into one comparison. For the refinement, two bytes less than
`PIPESIZE` apart have different places (`Apart`) and the wrap keeps the places because
`PIPESIZE` divides `Width` (`Wrap`); so `pipewrite` overwrites no byte that is still to be
read (`WriteAppends`) and `piperead` takes the oldest (`ReadTakes`).

### Log

`LogProofs` proves for any threads, blocks and contents, any log and
any reservation larger than what one operation writes (`LogAssumption` in Log):

- `LogControl`: `Spec => []Control`, the inductive invariant about the log's control;
- `LogIsConsistent`: `Spec => []LogConsistent`, the room that is reserved, no panic and
  no lost wakeup;
- `LogInv`: `Spec => []Inv`, the same with the contents of cache, log and disk;
- `LogIsAtomic`: `Spec => Atomic`, Log implements AtomicDisk.

begin_op counts reservations, log_write fills them, and end_op gives back what is
left: that the log never overflows is not a fact about numbers only, since operations
absorb each other's blocks. The proof counts a set (`Room`): every open operation has
`MAXOPBLOCKS` places, and the ones it has not used, added to the blocks in the header, are
at most `LOGBLOCKS` (`Reserved`, in `RoomInv` beside the number of open operations). log_write adds a block to the header at most when it uses
up a place; end_op only gives places back. `CountInv` is what the rest needs of this: at
one, the caller of end_op is the last. The other conjuncts of `Control` say which
operations may be open in each phase of commit and recovery, that the header in memory
has no duplicates, and when it is the one on disk.

For the refinement, `Inv` adds which buffers are pinned (those logged and not yet
installed), that every other cached block is as on disk, which log blocks have been
copied, and which home blocks installed. The durable contents are the home blocks
overlaid with the log whose header is on disk (`DurableIs`). The write of the header is
the step of AtomicDisk that makes a group durable (`WriteHeadAtomic`); copying to the log
before it, installing and clearing after it change nothing durable (`InstallHidden`,
`DurableInstalled`), and a crash at any point forgets just what is not durable
(`CrashAtomic`).

### Only model-checked

`NoLostWakeup`, `NoOrphan` and `NotBornKilled` of Proc, `LogProgress`, everything about the modules
other than Proc, Pipe and Log, and every liveness property (fairness is out of the
prover's reach). The properties of Lib are about recursive definitions, which the
prover cannot unfold by induction.

## Plan

Next proofs: `RefcntExact` and `OneCopy` of Bio; the counts of Cow; `NoOrphan` and
`NoLostWakeup` of Proc.

Next models: interrupts enabled or not as a state of each CPU (push_off, pop_off,
`intena` across sched); ticks and sys_pause; the inode that kexec reads in the same
model as its address space; two descriptors per thread in Fs.

## Not modelled

Memory is sequentially consistent: the fences and atomics of the spin locks are
taken to work. TLB flushes are not modelled; the trampoline flushes on every return
to user mode. Left out because they have no control to speak of or no state the
properties depend on:

- registers, trap frames, the assembly of kernelvec, trampoline, swtch and entry, the
  set-up in rust_start.rs and rust_main.rs, the PLIC;
- the three-level walk of page tables and the kernel's own mappings: what the walk
  returns is the leaf entry of Cow, and its running out of pages is a failing mappages;
- the first-use initialisation of SpinMutex (rust_lock.rs): the boot order makes every
  first use single-threaded;
- the dispatch of system calls and the fetching of their arguments, stat, ELF headers,
  the bytes of files and of arguments;
- the user programs beyond init, sh, echo, cat, wc and grep: usertests, grind and the
  stress tests are straight-line clients, more than half of the lines under
  `src/user/`, which no property of theirs would make worth a model.
