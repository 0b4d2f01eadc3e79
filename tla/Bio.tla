--------------------------------- MODULE Bio --------------------------------
(***************************************************************************)
(* The buffer cache (rust_bio.rs) over the disk driver, with the sleep     *)
(* locks (rust_sleeplock.rs) of its buffers.                               *)
(*                                                                         *)
(* A section under bcache.lock or under a sleep lock's spin lock is one    *)
(* action; brelse and bget have two of them.  What a thread does with a    *)
(* buffer it holds is the log's use of the cache: it changes the data,     *)
(* writes it (bwrite), and pins a changed buffer it does not write         *)
(* (log_write) until it is written (install_trans).                        *)
(***************************************************************************)
EXTENDS Virtio

CONSTANTS
    Written,   \* blocks that are changed and written
    MaxPins    \* buffers the log has pinned at a time

VARIABLES
    lru,       \* the list from head.next to head.prev
    valid, refcnt,
    holder,    \* the thread whose pid is in the sleep lock, or None
    want,      \* argument of bread
    pinned,    \* buffers with a log_write's pin
    dirty      \* buffers changed and not yet written

cache == <<lru, valid, refcnt, block, holder>>
client == <<pinned, dirty>>
vars == <<chan, pc, at, block, data, busy, free, req, avail, used, intr, irq, disk,
          lru, valid, refcnt, holder, want, pinned, dirty>>

NoView == [block |-> None, value |-> None]
LockChan(b) == <<"lock", b>>

\* binit: nothing cached, every buffer on the list.
Init ==
    /\ VirtioInit
    /\ chan = [t \in Threads |-> None] /\ pc = [t \in Threads |-> "idle"]
    /\ at = [t \in Threads |-> None] /\ want = [t \in Threads |-> None]
    /\ block = [b \in Bufs |-> None] /\ valid = [b \in Bufs |-> FALSE]
    /\ refcnt = [b \in Bufs |-> 0] /\ holder = [b \in Bufs |-> None]
    /\ lru = SetToSeq(Bufs)
    /\ data = [b \in Bufs |-> CHOOSE v \in Values : TRUE]
    /\ pinned = {} /\ dirty = {}

Go(t, p) == pc' = [pc EXCEPT ![t] = p]
Awake(t, p) == pc[t] = p /\ chan[t] = None

----------------------------------------------------------------------------
\* bget: the first buffer from the head that has the block...
BgetHit(t, bno) ==
    /\ Awake(t, "idle")
    /\ \E i \in DOMAIN lru :
         /\ block[lru[i]] = bno
         /\ \A j \in 1..i-1 : block[lru[j]] # bno
         /\ refcnt' = [refcnt EXCEPT ![lru[i]] = @ + 1]
         /\ at' = [at EXCEPT ![t] = lru[i]]
    /\ want' = [want EXCEPT ![t] = bno]
    /\ Go(t, "lock")
    /\ UNCHANGED <<driver, client, lru, valid, block, holder, data, disk, chan>>

\* Mutant: a recycled buffer stays valid.
BgetRecycle_KeepsValid(t, bno) ==
    /\ Awake(t, "idle")
    /\ \A b \in Bufs : block[b] # bno
    /\ \E i \in DOMAIN lru :
         /\ refcnt[lru[i]] = 0
         /\ \A j \in i+1..Len(lru) : refcnt[lru[j]] # 0
         /\ block' = [block EXCEPT ![lru[i]] = bno]
         /\ refcnt' = [refcnt EXCEPT ![lru[i]] = 1]
         /\ at' = [at EXCEPT ![t] = lru[i]]
    /\ want' = [want EXCEPT ![t] = bno]
    /\ Go(t, "lock")
    /\ UNCHANGED <<driver, client, lru, valid, holder, data, disk, chan>>

\* Mutant: bget recycles without knowing that the block is not cached.
BgetRecycle_NoRescan(t, bno) ==
    /\ Awake(t, "idle")
    /\ \E i \in DOMAIN lru :
         /\ refcnt[lru[i]] = 0
         /\ \A j \in i+1..Len(lru) : refcnt[lru[j]] # 0
         /\ block' = [block EXCEPT ![lru[i]] = bno]
         /\ valid' = [valid EXCEPT ![lru[i]] = FALSE]
         /\ refcnt' = [refcnt EXCEPT ![lru[i]] = 1]
         /\ at' = [at EXCEPT ![t] = lru[i]]
    /\ want' = [want EXCEPT ![t] = bno]
    /\ Go(t, "lock")
    /\ UNCHANGED <<driver, client, lru, holder, data, disk, chan>>

\* ... or the first unused one from the tail, recycled.  With every buffer held
\* or pinned bget panics and the machine stops: no step.
BgetRecycle(t, bno) ==
    /\ Awake(t, "idle")
    /\ \A b \in Bufs : block[b] # bno
    /\ \E i \in DOMAIN lru :
         /\ refcnt[lru[i]] = 0
         /\ \A j \in i+1..Len(lru) : refcnt[lru[j]] # 0
         /\ block' = [block EXCEPT ![lru[i]] = bno]
         /\ valid' = [valid EXCEPT ![lru[i]] = FALSE]
         /\ refcnt' = [refcnt EXCEPT ![lru[i]] = 1]
         /\ at' = [at EXCEPT ![t] = lru[i]]
    /\ want' = [want EXCEPT ![t] = bno]
    /\ Go(t, "lock")
    /\ UNCHANGED <<driver, client, lru, holder, data, disk, chan>>

\* acquiresleep, then bread's test of valid.
AcquireSleep(t) ==
    /\ Awake(t, "lock")
    /\ IF holder[at[t]] = None
       THEN /\ holder' = [holder EXCEPT ![at[t]] = t]
            /\ Go(t, IF valid[at[t]] THEN "held" ELSE "read")
            /\ UNCHANGED chan
       ELSE /\ chan' = [chan EXCEPT ![t] = LockChan(at[t])]
            /\ UNCHANGED <<holder, pc>>
    /\ UNCHANGED <<driver, client, lru, valid, refcnt, block, data, disk, at, want>>

\* virtio_disk_rw for bread and bwrite.
DiskRw(t) ==
    /\ pc[t] \in {"read", "write"} /\ chan[t] = None /\ ~intr
    /\ \/ Submit(t, pc[t] = "write") /\ Go(t, IF pc[t] = "read" THEN "reading" ELSE "writing")
       \/ NoDesc(t) /\ UNCHANGED pc
    /\ UNCHANGED <<client, cache, data, disk, at, want>>

\* virtio_disk_rw goes on when the buffer is no longer busy: free_chain.
DiskWait(t) ==
    /\ pc[t] \in {"reading", "writing"} /\ chan[t] = None /\ ~intr
    /\ FreeChain(t)
    /\ Go(t, "held")
    /\ valid' = [valid EXCEPT ![at[t]] = TRUE]
    /\ dirty' = IF pc[t] = "writing" THEN dirty \ {at[t]} ELSE dirty
    /\ UNCHANGED <<pinned, lru, refcnt, block, holder, data, disk, at, want>>

----------------------------------------------------------------------------
\* What the holder of a buffer does.
Change(t, v) ==
    /\ Awake(t, "held") /\ block[at[t]] \in Written
    /\ data' = [data EXCEPT ![at[t]] = v]
    /\ dirty' = dirty \cup {at[t]}
    /\ UNCHANGED <<driver, cache, pinned, disk, chan, pc, at, want>>

Bwrite(t) ==
    /\ Awake(t, "held") /\ block[at[t]] \in Written /\ ~intr
    /\ \/ Submit(t, TRUE) /\ Go(t, "writing")
       \/ NoDesc(t) /\ Go(t, "write")
    /\ UNCHANGED <<cache, client, data, disk, at, want>>

Bpin(t) ==
    /\ Awake(t, "held")
    /\ at[t] \notin pinned /\ Cardinality(pinned) < MaxPins
    /\ refcnt' = [refcnt EXCEPT ![at[t]] = @ + 1]
    /\ pinned' = pinned \cup {at[t]}
    /\ UNCHANGED <<driver, lru, valid, block, holder, dirty, data, disk, chan, pc, at, want>>

Bunpin(t) ==
    /\ Awake(t, "held")
    /\ at[t] \in pinned \ dirty
    /\ refcnt' = [refcnt EXCEPT ![at[t]] = @ - 1]
    /\ pinned' = pinned \ {at[t]}
    /\ UNCHANGED <<driver, lru, valid, block, holder, dirty, data, disk, chan, pc, at, want>>

\* brelse: releasesleep, and then the reference.
ReleaseSleep(t) ==
    /\ Awake(t, "held")
    /\ at[t] \in dirty => at[t] \in pinned
    /\ holder' = [holder EXCEPT ![at[t]] = None]
    /\ chan' = Wakeup(chan, LockChan(at[t]))
    /\ Go(t, "release")
    /\ UNCHANGED <<driver, client, lru, valid, refcnt, block, data, disk, at, want>>

Brelse(t) ==
    LET b == at[t] IN
    /\ Awake(t, "release")
    /\ refcnt' = [refcnt EXCEPT ![b] = @ - 1]
    /\ lru' = IF refcnt[b] = 1 THEN <<b>> \o SelectSeq(lru, LAMBDA x : x # b) ELSE lru
    /\ at' = [at EXCEPT ![t] = None] /\ want' = [want EXCEPT ![t] = None]
    /\ Go(t, "idle")
    /\ UNCHANGED <<driver, client, valid, block, holder, data, disk, chan>>

----------------------------------------------------------------------------
Thread(t) ==
    \/ \E bno \in Blocks : BgetHit(t, bno) \/ BgetRecycle(t, bno)
    \/ AcquireSleep(t) \/ DiskRw(t) \/ DiskWait(t)
    \/ \E v \in Values : Change(t, v)
    \/ Bwrite(t) \/ Bpin(t) \/ Bunpin(t)
    \/ ReleaseSleep(t) \/ Brelse(t)

Outside == <<pc, at, lru, valid, refcnt, block, holder, want, pinned, dirty>>
Intr == (IntrAck \/ IntrUsed \/ IntrEnd) /\ UNCHANGED Outside
Device(d) == Complete(d) /\ UNCHANGED Outside

Next == (\E t \in Threads : Thread(t)) \/ Intr \/ (\E d \in Desc : Device(d))

Spec == Init /\ [][Next]_vars

\* The device completes every request, its interrupts are handled, and
\* a thread in the driver gets vdisk_lock in the end.
FairSpec ==
    /\ Spec
    /\ WF_vars(Intr)
    /\ \A d \in Desc : WF_vars(Device(d))
    /\ \A t \in Threads : SF_vars(DiskWait(t))

----------------------------------------------------------------------------
\* Types; the list holds every buffer once, and a descriptor is free or in a ring.
TypeOK ==
    /\ chan \in [Threads -> {None, FreeChan} \cup {BufChan(b) : b \in Bufs} \cup {LockChan(b) : b \in Bufs}]
    /\ pc \in [Threads -> {"idle", "lock", "read", "reading", "held", "write", "writing", "release"}]
    /\ at \in [Threads -> Bufs \cup {None}] /\ want \in [Threads -> Blocks \cup {None}]
    /\ block \in [Bufs -> Blocks \cup {None}] /\ data \in [Bufs -> Values]
    /\ {busy, valid} \subseteq [Bufs -> BOOLEAN]
    /\ free \subseteq Desc /\ avail \cup ToSet(used) \subseteq Desc \ free
    /\ Cardinality(avail) + Len(used) <= Cardinality(Desc) \div 3
    /\ {intr, irq} \subseteq BOOLEAN
    /\ disk \in [Blocks -> Values]
    /\ ToSet(lru) = Bufs /\ Len(lru) = Cardinality(Bufs)
    /\ refcnt \in [Bufs -> 0..Cardinality(Threads) + 1]
    /\ holder \in [Bufs -> Threads \cup {None}]
    /\ pinned \subseteq Bufs /\ dirty \subseteq Bufs

\* A reference count is the number of threads between bget and brelse plus the
\* log's pin: a count too low recycles a buffer in use, one too high loses it.
RefcntExact ==
    \A b \in Bufs :
      refcnt[b] = Cardinality({t \in Threads : at[t] = b}) + (IF b \in pinned THEN 1 ELSE 0)

\* A block is in one buffer at most, and the buffer a thread got from bget keeps
\* its block while the thread waits for the sleep lock and while it works on it.
OneCopy ==
    /\ \A a, b \in Bufs : a # b /\ block[a] = block[b] => block[a] = None
    /\ \A t \in Threads : at[t] # None => block[at[t]] = want[t]

\* bget, brelse, bpin and bunpin keep the cache exact: every buffer once in the
\* list, its count the number of its users, and a block in one buffer at most.
CacheExact == TypeOK /\ RefcntExact /\ OneCopy

\* A sleeper will be woken: the lock it waits for is held, fewer than three
\* descriptors are free, or its request is with the device or in the
\* used ring with an interrupt raised or being handled.
NobodyStranded ==
    \A t \in Threads :
      /\ chan[t] = FreeChan => Cardinality(free) < 3
      /\ \A b \in Bufs :
           /\ chan[t] = LockChan(b) => holder[b] \notin {None, t}
           /\ chan[t] = BufChan(b) =>
                \E d \in avail \cup ToSet(used) :
                  /\ req[d].by = t /\ req[d].buf = b
                  /\ d \in ToSet(used) => irq \/ intr

\* A request handed to the device comes back to its thread.
RequestReturns == \A t \in Threads : pc[t] \in {"reading", "writing"} ~> pc[t] = "held"

\* The cache over the disk is a store of blocks: what a thread sees and changes
\* is the block's one content, whichever buffer it is in or however often it was
\* evicted, and what is on the disk is a content the block had.
Store == INSTANCE BlockStore WITH
    content <- [bno \in Blocks |->
                  IF \E b \in Bufs : block[b] = bno /\ valid[b]
                  THEN data[CHOOSE b \in Bufs : block[b] = bno /\ valid[b]] ELSE disk[bno]],
    durable <- disk,
    view <- [t \in Threads |->
               IF pc[t] \in {"held", "write", "writing"}
               THEN [block |-> want[t], value |-> data[at[t]]] ELSE NoView],
    NoView <- NoView
IsStore == Store!Spec
=============================================================================
