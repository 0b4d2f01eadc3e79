------------------------------- MODULE Virtio -------------------------------
(***************************************************************************)
(* The virtio disk driver (rust_virtio_disk.rs) and the device behind it.  *)
(*                                                                         *)
(* A request is a chain of three of the NUM descriptors, named by its      *)
(* first one.  The driver puts the name into the avail ring, the device    *)
(* completes requests in any order and appends their names to the used     *)
(* ring, which virtio_disk_intr empties.  The avail ring is the set of     *)
(* requests the device may take, the used ring a queue: NUM divides 2^16,  *)
(* so an index names its slot across the wrap, and never more than NUM     *)
(* requests are on their way (TypeOK of Bio).                              *)
(*                                                                         *)
(* A section under vdisk_lock is one action, but for the interrupt         *)
(* handler, which the device can overtake after the acknowledgement and    *)
(* between two entries of the used ring.  The device reports no error: the *)
(* handler would panic.                                                    *)
(***************************************************************************)
EXTENDS Integers, Sequences, FiniteSets, FiniteSetsExt, SequencesExt

CONSTANTS
    Threads,   \* kernel threads that use the disk
    Bufs,      \* struct Buf
    Blocks,    \* block numbers
    Values,    \* contents of a block
    NUMs,      \* numbers of descriptors: an execution has one of them
    None       \* no thread, buffer, block, request or channel

Desc == 0..Max(NUMs)-1
ASSUME VirtioAssumption == NUMs # {} /\ IsFiniteSet(NUMs) /\ \A n \in NUMs : n \in Nat /\ n >= 3

VARIABLES
    chan,      \* channel a thread sleeps on, or None
    pc,        \* where a thread is
    at,        \* buffer a thread works on
    block,     \* (*b).blockno
    data,      \* (*b).data
    busy,      \* (*b).disk
    free,      \* descriptors with DISK.free[i] = 1
    req,       \* what the chain that starts at a descriptor asks for
    avail,     \* requests the device has and has not completed
    used,      \* completed ones the driver has not seen
    irq, intr, \* interrupt raised; virtio_disk_intr holds vdisk_lock
    disk       \* the platter

driver == <<busy, free, req, avail, used, intr, irq>>

FreeChan == <<"free">>
BufChan(b) == <<"buf", b>>

\* chan after wakeup(c)
Wakeup(ch, c) == [t \in Threads |-> IF ch[t] = c THEN None ELSE ch[t]]

VirtioInit ==
    /\ busy = [b \in Bufs |-> FALSE]
    /\ \E NUM \in NUMs : free = 0..NUM-1
    /\ req = [d \in Desc |-> None]
    /\ avail = {} /\ used = <<>>
    /\ intr = FALSE /\ irq = FALSE
    /\ disk = [bno \in Blocks |-> CHOOSE v \in Values : TRUE]

\* alloc_desc, three times: the first free ones.
Alloc3 == LET a == Min(free) b == Min(free \ {a}) IN <<a, b, Min(free \ {a, b})>>

\* virtio_disk_rw with three descriptors to be had: fill them in, make the
\* request available and sleep until b.disk is 0.
Submit(t, write) ==
    LET b == at[t] idx == Alloc3 IN
    /\ Cardinality(free) >= 3
    /\ free' = free \ ToSet(idx)
    /\ req' = [req EXCEPT ![idx[1]] = [write |-> write, block |-> block[b], buf |-> b, chain |-> idx, by |-> t]]
    /\ busy' = [busy EXCEPT ![b] = TRUE]
    /\ avail' = avail \cup {idx[1]}
    /\ chan' = [chan EXCEPT ![t] = BufChan(b)]
    /\ UNCHANGED <<used, intr, irq>>

\* alloc3_desc fails: the descriptors it got go back through free_desc, which
\* wakes the others that wait for some; the caller sleeps.
NoDesc(t) ==
    /\ Cardinality(free) < 3
    /\ chan' = [(IF free = {} THEN chan ELSE Wakeup(chan, FreeChan)) EXCEPT ![t] = FreeChan]
    /\ UNCHANGED driver

\* free_chain, when the request is done.
FreeChain(t) ==
    /\ ~busy[at[t]]
    /\ \E d \in Desc :
         /\ req[d] # None /\ req[d].by = t
         /\ free' = free \cup ToSet(req[d].chain)
         /\ req' = [req EXCEPT ![d] = None]
    /\ chan' = Wakeup(chan, FreeChan)
    /\ UNCHANGED <<busy, avail, used, intr, irq>>

----------------------------------------------------------------------------
\* virtio_disk_intr: acknowledge, then handle what is in the used ring.
IntrAck ==
    /\ irq /\ ~intr
    /\ intr' = TRUE /\ irq' = FALSE
    /\ UNCHANGED <<chan, busy, free, req, avail, used, data, disk>>

\* Mutant: one entry is handled, "if" for "while".
IntrUsed_Once ==
    /\ intr /\ used # <<>>
    /\ LET b == req[Head(used)].buf IN
       busy' = [busy EXCEPT ![b] = FALSE] /\ chan' = Wakeup(chan, BufChan(b))
    /\ used' = Tail(used)
    /\ intr' = FALSE
    /\ UNCHANGED <<free, req, avail, irq, data, disk>>

\* One round of the loop: the buffer is done with and its thread woken.
IntrUsed ==
    /\ intr /\ used # <<>>
    /\ LET b == req[Head(used)].buf IN
       busy' = [busy EXCEPT ![b] = FALSE] /\ chan' = Wakeup(chan, BufChan(b))
    /\ used' = Tail(used)
    /\ UNCHANGED <<free, req, avail, intr, irq, data, disk>>

\* Mutant: the handler does not release vdisk_lock.
IntrEnd_KeepsLock ==
    /\ intr /\ used = <<>>
    /\ UNCHANGED <<chan, busy, free, req, avail, used, intr, irq, data, disk>>

\* used_idx has caught up: the handler returns.
IntrEnd ==
    /\ intr /\ used = <<>>
    /\ intr' = FALSE
    /\ UNCHANGED <<chan, busy, free, req, avail, used, irq, data, disk>>

\* The device, external: it completes any request it has been given.
Complete(d) ==
    LET r == req[d] IN
    /\ d \in avail
    /\ avail' = avail \ {d}
    /\ used' = Append(used, d)
    /\ irq' = TRUE
    /\ IF r.write
       THEN disk' = [disk EXCEPT ![r.block] = data[r.buf]] /\ UNCHANGED data
       ELSE data' = [data EXCEPT ![r.buf] = disk[r.block]] /\ UNCHANGED disk
    /\ UNCHANGED <<chan, busy, free, req, intr>>
=============================================================================
