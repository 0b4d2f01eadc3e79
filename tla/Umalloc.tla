------------------------------ MODULE Umalloc -------------------------------
(***************************************************************************)
(* The allocator of user/umalloc.rs.  An address counts units of the size  *)
(* of a Header; BASE, a static, is at address 0 and the break starts at    *)
(* First.  A header holds ptr and size; hdr gives the headers in memory.   *)
(***************************************************************************)
EXTENDS Naturals, FiniteSets, FiniteSetsExt

CONSTANTS
  UNIT,        \* bytes of a Header
  INT_MAX,     \* the largest i32
  PAGE_UNITS,  \* units morecore asks for at least
  MaxBrk,      \* sbrk fails beyond
  Sizes        \* bytes that malloc is asked for

\* The units of nbytes bytes, rounded up, and of their header.
Nunits(nbytes) == (nbytes + UNIT - 1) \div UNIT + 1

\* The bytes that morecore asks sbrk for fit in an i32, so that saturating_mul
\* does not saturate and the cast keeps the sign.
ASSUME SizesFit == \A nbytes \in Sizes : Max({Nunits(nbytes), PAGE_UNITS}) * UNIT <= INT_MAX

VARIABLES
  hdr,         \* the headers
  freep,       \* FREEP; Null before the first call
  brk,         \* the end of the heap
  live,        \* addresses of the headers of the blocks in use
  grew         \* history: the last malloc called sbrk though a free block would do

mallocVars == <<hdr, freep, brk, live, grew>>

BASE == 0
Null == MaxBrk + 1
First == 2

UmallocInit ==
  /\ hdr = [a \in {BASE} |-> [ptr |-> Null, size |-> 0]]
  /\ freep = Null /\ brk = First /\ live = {} /\ grew = FALSE

Put(h, a, ptr, size) ==
  [x \in DOMAIN h \cup {a} |-> IF x = a THEN [ptr |-> ptr, size |-> size] ELSE h[x]]
Del(h, a) == [x \in DOMAIN h \ {a} |-> h[x]]

\* The loop of free: from p on, the block after which bp belongs.
RECURSIVE Place(_, _, _)
Place(h, bp, p) ==
  LET next == h[p].ptr
  IN IF (bp > p /\ bp < next) \/ (p >= next /\ (bp > p \/ bp < next)) THEN p
     ELSE Place(h, bp, next)

\* Mutant: free does not join a block with the one below it.
Release_NoJoinBelow(h, fp, bp) ==
  LET p == Place(h, bp, fp)
      next == h[p].ptr
      h1 == IF bp + h[bp].size = next
            THEN Put(Del(h, next), bp, h[next].ptr, h[bp].size + h[next].size)
            ELSE Put(h, bp, next, h[bp].size)
  IN [h |-> Put(h1, p, bp, h1[p].size), freep |-> p]

\* free: the block joins the ones above and below it.
Release(h, fp, bp) ==
  LET p == Place(h, bp, fp)
      next == h[p].ptr
      h1 == IF bp + h[bp].size = next
            THEN Put(Del(h, next), bp, h[next].ptr, h[bp].size + h[next].size)
            ELSE Put(h, bp, next, h[bp].size)
      h2 == IF p + h1[p].size = bp
            THEN Put(Del(h1, bp), p, h1[bp].ptr, h1[p].size + h1[bp].size)
            ELSE Put(h1, p, bp, h1[p].size)
  IN [h |-> h2, freep |-> p]

\* The loop of malloc, up to the block found or the end of the round, p = Null.
RECURSIVE Search(_, _, _, _, _)
Search(h, fp, prevp, p, n) ==
  IF h[p].size >= n THEN [prevp |-> prevp, p |-> p]
  ELSE IF p = fp THEN [prevp |-> prevp, p |-> Null]
  ELSE Search(h, fp, p, h[p].ptr, n)

\* A block that fits is taken out of the list, the tail of a larger one cut off.
Take(h, f, n) ==
  IF h[f.p].size = n THEN [h |-> Put(h, f.prevp, h[f.p].ptr, h[f.prevp].size), at |-> f.p]
  ELSE LET at == f.p + h[f.p].size - n
       IN [h |-> Put(Put(h, f.p, h[f.p].ptr, h[f.p].size - n), at, Null, n), at |-> at]

\* The first call makes BASE a list of its own.
Ready == IF freep = Null THEN [hdr EXCEPT ![BASE] = [ptr |-> BASE, size |-> 0]] ELSE hdr
Head1 == IF freep = Null THEN BASE ELSE freep

Free(h) == DOMAIN h \ (live \cup {BASE})

Malloc(nbytes) ==
  LET n == Nunits(nbytes)
      f == Search(Ready, Head1, Head1, Ready[Head1].ptr, n)
      t == Take(Ready, f, n)
  IN /\ f.p # Null
     /\ hdr' = t.h /\ live' = live \cup {t.at}
     /\ freep' = f.prevp /\ grew' = FALSE
     /\ UNCHANGED brk

\* No block fits: morecore, whose block goes through free, and the search goes
\* on from the new FREEP.
MallocMore(nbytes) ==
  LET n == Nunits(nbytes)
      nu == Max({n, PAGE_UNITS})
      r == Release(Put(Ready, brk, Null, nu), Head1, brk)
      f == Search(r.h, r.freep, r.freep, r.h[r.freep].ptr, n)
      t == Take(r.h, f, n)
  IN /\ Search(Ready, Head1, Head1, Ready[Head1].ptr, n).p = Null
     /\ brk + nu <= MaxBrk
     /\ brk' = brk + nu
     /\ hdr' = t.h /\ live' = live \cup {t.at}
     /\ freep' = f.prevp
     /\ grew' = \E a \in Free(hdr) : hdr[a].size >= n

\* sbrk fails: malloc returns null.
MallocFails(nbytes) ==
  LET n == Nunits(nbytes)
  IN /\ Search(Ready, Head1, Head1, Ready[Head1].ptr, n).p = Null
     /\ brk + Max({n, PAGE_UNITS}) > MaxBrk
     /\ hdr' = Ready /\ freep' = Head1
     /\ grew' = \E a \in Free(hdr) : hdr[a].size >= n
     /\ UNCHANGED <<brk, live>>

FreeBlock(bp) ==
  /\ bp \in live
  /\ LET r == Release(hdr, freep, bp) IN hdr' = r.h /\ freep' = r.freep
  /\ live' = live \ {bp}
  /\ grew' = FALSE
  /\ UNCHANGED brk

UmallocNext ==
  \/ \E nbytes \in Sizes : Malloc(nbytes) \/ MallocMore(nbytes) \/ MallocFails(nbytes)
  \/ \E bp \in live : FreeBlock(bp)

-----------------------------------------------------------------------------
Units(a) == a..(a + hdr[a].size - 1)

\* The blocks in use and the free blocks tile the heap: no unit belongs to two
\* blocks and none is lost, whatever malloc cut and free joined.
HeapTiled ==
  /\ UNION {Units(a) : a \in DOMAIN hdr \ {BASE}} = First..(brk - 1)
  /\ MapThenSumSet(LAMBDA a : hdr[a].size, DOMAIN hdr \ {BASE}) = brk - First

\* The list that malloc searches goes through the free blocks and BASE in the
\* order of their addresses, and free leaves no two neighbours unjoined.
FreeListOrdered ==
  freep # Null =>
    \A a \in Free(hdr) \cup {BASE} :
      LET above == {b \in Free(hdr) : b > a}
      IN /\ hdr[a].ptr = IF above = {} THEN BASE ELSE Min(above)
         /\ a # BASE => a + hdr[a].size # hdr[a].ptr

\* malloc asks for more memory only when no free block is large enough: its
\* search comes round to every block wherever FREEP points.
NoNeedlessGrowth == ~grew

\* malloc and free keep the heap exact over every sequence of calls.
HeapExact == HeapTiled /\ FreeListOrdered /\ NoNeedlessGrowth
=============================================================================
