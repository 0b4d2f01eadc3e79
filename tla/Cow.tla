---------------------------------- MODULE Cow ----------------------------------
(***************************************************************************)
(* User memory: the page allocator with its reference counts               *)
(* (kernel/rust_kalloc.rs), the copy-on-write address spaces built on it   *)
(* (kernel/rust_vm.rs: uvmcopy, cow_resolve, vmfault, copyout, uvmunmap),  *)
(* and kexec (kernel/rust_exec.rs), which replaces one by another.         *)
(*                                                                         *)
(* Only a process itself, its parent while it is being created, or the     *)
(* process reaping it touches its page table; pages and their counts are   *)
(* shared by all CPUs.  One step is therefore one access to the free list  *)
(* or to a count, with the private work that goes with it.  The contents   *)
(* of a page are one value.  The free list is a set: its order carries no  *)
(* meaning.  Pages of page tables are not counted: mappages may fail at    *)
(* any time, as it does when walk cannot allocate one.                     *)
(***************************************************************************)
EXTENDS Naturals, FiniteSets, FiniteSetsExt

CONSTANTS Procs,     \* the process slots
          First,     \* the process that runs at boot
          Pages,     \* physical pages
          Zero, Vals, Junk, \* page contents: zeroed, what a process writes, recycled
          None,      \* no page, no process
          MaxSz,     \* bound: pages of the largest address space
          Images,    \* programs: pages, the read-only ones, the one uvmclear takes from
                     \* the user, and what is loaded into the first page
          Execs,     \* bound: the processes that call exec
          Boot       \* the program of the first process

ASSUME CowAssumption ==
  /\ First \in Procs /\ None \notin Procs \union Pages
  /\ MaxSz \in Nat
  /\ Images \union {Boot} \subseteq
       [sz : 1 .. MaxSz, text : SUBSET (0 .. MaxSz - 1),
        guard : SUBSET (0 .. MaxSz - 1), first : Vals]
  /\ Zero \in Vals /\ Junk \notin Vals
  /\ IsFiniteSet(Pages) /\ Cardinality(Pages) >= Boot.sz

VARIABLES freelist,  \* KMEM.freelist
          refcnt,    \* REFCNT
          mem,       \* the contents of the pages
          pte,       \* the leaf entries of every page table
          spare,     \* the page table kexec holds besides the process's own
          sz,        \* proc.sz, in pages
          pc, r      \* where each process is in the kernel, and its locals

vars == <<freelist, refcnt, mem, pte, spare, sz, pc, r>>

VPages == 0 .. MaxSz - 1

NoPte == [pa |-> None, w |-> FALSE, cow |-> FALSE, u |-> FALSE]

PTEs == [pa : Pages \union {None}, w : BOOLEAN, cow : BOOLEAN, u : BOOLEAN]

PCs == {"unused", "embryo", "user", "copyout", "vmfault", "fill", "kfree",
        "push", "uvmcopy", "kref", "uvmunmap", "exec", "exec_free"}

\* Locals: va, the page being resolved or the first one to unmap; page, the one in hand;
\* ret, what the system call does next; next, where kfree returns; tgt, the address
\* space being copied to or unmapped; i, the page uvmcopy or kexec has come to; end,
\* where sbrk or uvmunmap ends; image, the program being loaded.
Idle == [va |-> 0, page |-> None, ret |-> "user", next |-> "user",
         tgt |-> None, i |-> 0, end |-> 0, image |-> Boot]

\* The entry uvmalloc and uvmclear make for page v of a program, and what
\* loadseg puts there.
ImagePte(im, v, a) == [pa |-> a, w |-> v \notin im.text, cow |-> FALSE, u |-> v \notin im.guard]
ImageMem(im, v) == IF v = 0 THEN im.first ELSE Zero

Init ==
  \E boot \in [0 .. Boot.sz - 1 -> Pages] :
    /\ \A a, b \in DOMAIN boot : a # b => boot[a] # boot[b]
    /\ freelist = Pages \ {boot[v] : v \in DOMAIN boot}
    /\ refcnt = [a \in Pages |-> IF a \in freelist THEN 0 ELSE 1]
    /\ mem = [a \in Pages |-> IF a \in freelist THEN Junk
                             ELSE ImageMem(Boot, CHOOSE v \in DOMAIN boot : boot[v] = a)]
    /\ pte = [p \in Procs |-> [v \in VPages |->
                IF p = First /\ v < Boot.sz THEN ImagePte(Boot, v, boot[v]) ELSE NoPte]]
    /\ spare = [p \in Procs |-> [v \in VPages |-> NoPte]]
    /\ sz = [p \in Procs |-> IF p = First THEN Boot.sz ELSE 0]
    /\ pc = [p \in Procs |-> IF p = First THEN "user" ELSE "unused"]
    /\ r = [p \in Procs |-> Idle]

Mapped(p, v) == pte[p][v].pa # None

\* The mapped pages from .. end - 1 of a table: the loops of uvmcopy and uvmunmap
\* pass over the others.
Leaves(table, from, end) == {v \in from .. end - 1 : table[v].pa # None}

Goto(p, l) == pc' = [pc EXCEPT ![p] = l]

\* The call is over: back in user mode.
Return(p) == Goto(p, "user") /\ r' = [r EXCEPT ![p] = Idle]

\* A page is dealt with, and the call goes on at l, or is over.
Resume(p, l) ==
  IF l = "user" THEN Return(p) ELSE Goto(p, l) /\ r' = [r EXCEPT ![p].page = None, ![p].next = "user"]

\* uvmunmap of pages from .. end - 1 of tgt, on behalf of p.
Uvmunmap(p, tgt, from, end, ret) ==
  /\ Goto(p, "uvmunmap")
  /\ r' = [r EXCEPT ![p] = [Idle EXCEPT !.tgt = tgt, !.va = from, !.end = end, !.ret = ret]]

\* The process exits (by itself or killed by a fault): freeproc unmaps all.
Kexit(p) == Uvmunmap(p, p, 0, sz[p], "exit")

-----------------------------------------------------------------------------
(* User code and the entries into the kernel *)

\* A store the hardware allows.
Store(p, v, x) ==
  /\ pc[p] = "user"
  /\ pte[p][v].w /\ pte[p][v].u
  /\ mem' = [mem EXCEPT ![pte[p][v].pa] = x]
  /\ UNCHANGED <<freelist, refcnt, pte, spare, sz, pc, r>>

\* vmfault for a write goes to work: not mapped (lazy allocation), or COW.
Resolvable(p, v) == v < sz[p] /\ (~Mapped(p, v) \/ pte[p][v].cow)

\* A store page fault, in usertrap_dispatch.
StoreFault(p, v) ==
  /\ pc[p] = "user"
  /\ ~(pte[p][v].w /\ pte[p][v].u)
  /\ IF Resolvable(p, v)
     THEN /\ Goto(p, "vmfault")
          /\ r' = [r EXCEPT ![p] = [Idle EXCEPT !.va = v]]
     ELSE Kexit(p)
  /\ UNCHANGED <<freelist, refcnt, mem, pte, spare, sz>>

\* A load page fault, or copyin: vmfault only allocates.
LoadFault(p, v) ==
  /\ pc[p] = "user" /\ ~pte[p][v].u
  /\ IF v < sz[p] /\ ~Mapped(p, v)
     THEN /\ Goto(p, "vmfault")
          /\ r' = [r EXCEPT ![p] = [Idle EXCEPT !.va = v]]
     ELSE Kexit(p)
  /\ UNCHANGED <<freelist, refcnt, mem, pte, spare, sz>>

\* copyout to page v: walkaddr finds a user page, or vmfault makes one.
Copyout(p, v) ==
  /\ pc[p] = "user"
  /\ \/ pte[p][v].u /\ Goto(p, "copyout")
     \/ ~pte[p][v].u /\ Resolvable(p, v) /\ Goto(p, "vmfault")
  /\ r' = [r EXCEPT ![p] = [Idle EXCEPT !.va = v, !.ret = "copyout"]]
  /\ UNCHANGED <<freelist, refcnt, mem, pte, spare, sz>>

\* Mutant: copyout takes a COW page for a writable one.
CopyoutWrite_NoCow(p, x) ==
  LET e == pte[p][r[p].va]
  IN  /\ pc[p] = "copyout"
      /\ Return(p)
      /\ mem' = IF e.w \/ e.cow THEN [mem EXCEPT ![e.pa] = x] ELSE mem
      /\ UNCHANGED <<freelist, refcnt, pte, spare, sz>>

\* copyout's own test of the entry, and the memmove through the physical
\* address, which no W bit stops.
CopyoutWrite(p, x) ==
  LET e == pte[p][r[p].va]
  IN  /\ pc[p] = "copyout"
      /\ \/ e.cow /\ Goto(p, "vmfault") /\ UNCHANGED <<mem, r>>
         \/ ~e.cow /\ ~e.w /\ Return(p) /\ UNCHANGED mem
         \/ ~e.cow /\ e.w /\ Return(p) /\ mem' = [mem EXCEPT ![e.pa] = x]
      /\ UNCHANGED <<freelist, refcnt, pte, spare, sz>>

-----------------------------------------------------------------------------
(* kalloc, kfree and the resolution of a fault *)

\* proc_freepagetable of the table kexec has at its side, of the given size.
ExecFree(p, size) ==
  /\ Goto(p, "exec_free")
  /\ r' = [r EXCEPT ![p] = [Idle EXCEPT !.end = size]]

\* What a failed vmfault or uvmalloc leads to: the fault kills, a system call
\* returns -1, kexec takes down what it has built, and sbrk what it has mapped.
Failed(p) ==
  CASE r[p].ret = "user" -> Kexit(p)
    [] r[p].ret = "grow" -> Uvmunmap(p, p, sz[p], r[p].va, "shrink")
    [] r[p].ret = "exec" -> ExecFree(p, r[p].i)
    [] OTHER -> Return(p)

\* kalloc: the pop, under kmem.lock.  In kexec it is uvmalloc of the next page, of
\* a segment or of the stack.
Kalloc(p) ==
  /\ pc[p] = "vmfault" \/ (pc[p] = "exec" /\ r[p].i < r[p].image.sz)
  /\ \/ freelist = {} /\ Failed(p) /\ UNCHANGED freelist
     \/ \E a \in freelist :
          /\ freelist' = freelist \ {a}
          /\ Goto(p, "fill")
          /\ r' = [r EXCEPT ![p].page = a]
  /\ UNCHANGED <<refcnt, mem, pte, spare, sz>>

\* Mutant: cow_resolve forgets its reference to the old page.
FillCow_NoKfree(p) ==
  LET v == r[p].va  new == r[p].page
  IN  /\ pc[p] = "fill" /\ r[p].ret # "exec" /\ Mapped(p, v)
      /\ refcnt' = [refcnt EXCEPT ![new] = 1]
      /\ mem' = [mem EXCEPT ![new] = mem[pte[p][v].pa]]
      /\ pte' = [pte EXCEPT ![p][v].pa = new, ![p][v].w = TRUE, ![p][v].cow = FALSE]
      /\ Resume(p, r[p].ret)
      /\ UNCHANGED <<freelist, spare, sz>>

\* refcnt_set_one after the lock is gone, then cow_resolve's copy and remap.
FillCow(p) ==
  LET v == r[p].va  old == pte[p][v].pa  new == r[p].page
  IN  /\ pc[p] = "fill" /\ r[p].ret # "exec" /\ Mapped(p, v)
      /\ refcnt' = [refcnt EXCEPT ![new] = 1]
      /\ mem' = [mem EXCEPT ![new] = mem[old]]
      /\ pte' = [pte EXCEPT ![p][v].pa = new, ![p][v].w = TRUE, ![p][v].cow = FALSE]
      /\ Goto(p, "kfree")
      /\ r' = [r EXCEPT ![p].page = old, ![p].next = r[p].ret]
      /\ UNCHANGED <<freelist, spare, sz>>

\* The same for a page of zeros, in vmfault.
FillZero(p) ==
  LET v == r[p].va  new == r[p].page
  IN  /\ pc[p] = "fill" /\ r[p].ret \notin {"exec", "grow"} /\ ~Mapped(p, v)
      /\ refcnt' = [refcnt EXCEPT ![new] = 1]
      /\ mem' = [mem EXCEPT ![new] = Zero]
      /\ pte' = [pte EXCEPT ![p][v] = [pa |-> new, w |-> TRUE, cow |-> FALSE, u |-> TRUE]]
      /\ Resume(p, r[p].ret)
      /\ UNCHANGED <<freelist, spare, sz>>

\* mappages fails: the page goes back (KallocPage's Drop, uvmalloc's kfree).
FillFails(p) ==
  /\ pc[p] = "fill" /\ (r[p].ret = "exec" \/ ~Mapped(p, r[p].va))
  /\ refcnt' = [refcnt EXCEPT ![r[p].page] = 1]
  /\ Goto(p, "kfree")
  /\ r' = [r EXCEPT ![p].next = "failed"]
  /\ UNCHANGED <<freelist, mem, pte, spare, sz>>

\* kfree returns.
AfterKfree(p) == Resume(p, r[p].next)

\* refcnt_dec, which panics on a count of zero.
RefcntDec(a) == refcnt[a] > 0 /\ refcnt' = [refcnt EXCEPT ![a] = @ - 1]

\* kfree: refcnt_dec; only the last reference goes on (a page that could not be
\* mapped has but one).
Kfree(p) ==
  LET a == r[p].page
  IN  /\ pc[p] = "kfree"
      /\ RefcntDec(a)
      /\ IF refcnt[a] = 1 THEN Goto(p, "push") /\ UNCHANGED r ELSE AfterKfree(p)
      /\ UNCHANGED <<freelist, mem, pte, spare, sz>>

\* One round of uvmunmap on an entry for page a: kfree up to its refcnt_dec.
UnmapKfree(p, a) ==
  /\ RefcntDec(a)
  /\ IF refcnt[a] = 1
     THEN /\ Goto(p, "push")
          /\ r' = [r EXCEPT ![p].page = a, ![p].next = pc[p]]
     ELSE UNCHANGED <<pc, r>>

\* kfree: the memset and the push, under kmem.lock.
KfreePush(p) ==
  /\ pc[p] = "push"
  /\ mem' = [mem EXCEPT ![r[p].page] = Junk]
  /\ freelist' = freelist \union {r[p].page}
  /\ IF r[p].next = "failed" THEN Failed(p) ELSE AfterKfree(p)
  /\ UNCHANGED <<refcnt, pte, spare, sz>>

-----------------------------------------------------------------------------
(* fork *)

\* kfork: a slot from allocproc, then uvmcopy.
Fork(p, q) ==
  /\ pc[p] = "user" /\ pc[q] = "unused"
  /\ pc' = [pc EXCEPT ![p] = "uvmcopy", ![q] = "embryo"]
  /\ r' = [r EXCEPT ![p] = [Idle EXCEPT !.tgt = q]]
  /\ UNCHANGED <<freelist, refcnt, mem, pte, spare, sz>>

\* The entry of a page after uvmcopy: a writable page is demoted.
Demoted(e) == IF e.w THEN [e EXCEPT !.w = FALSE, !.cow = TRUE] ELSE e

\* uvmcopy, one page: it is shared with the child.
UvmcopyPage(p) ==
  LET left == Leaves(pte[p], r[p].i, sz[p])  v == Min(left)
  IN  /\ pc[p] = "uvmcopy" /\ left # {}
      /\ pte' = [pte EXCEPT ![p][v] = Demoted(@), ![r[p].tgt][v] = Demoted(pte[p][v])]
      /\ Goto(p, "kref")
      /\ r' = [r EXCEPT ![p].i = v]
      /\ UNCHANGED <<freelist, refcnt, mem, spare, sz>>

\* kref_inc, after the child's entry is in place.
KrefInc(p) ==
  LET a == pte[p][r[p].i].pa
  IN  /\ pc[p] = "kref"
      /\ refcnt[a] > 0
      /\ refcnt' = [refcnt EXCEPT ![a] = @ + 1]
      /\ Goto(p, "uvmcopy")
      /\ r' = [r EXCEPT ![p].i = @ + 1]
      /\ UNCHANGED <<freelist, mem, pte, spare, sz>>

\* mappages into the child fails: the parent's page stays demoted, what the
\* child already has is unmapped.
UvmcopyFails(p) ==
  LET left == Leaves(pte[p], r[p].i, sz[p])  v == Min(left)
  IN  /\ pc[p] = "uvmcopy" /\ left # {}
      /\ pte' = [pte EXCEPT ![p][v] = Demoted(@)]
      /\ Uvmunmap(p, r[p].tgt, 0, v, "fork")
      /\ UNCHANGED <<freelist, refcnt, mem, spare, sz>>

\* The rest of kfork: the child may run.
ForkDone(p) ==
  LET q == r[p].tgt
  IN  /\ pc[p] = "uvmcopy" /\ Leaves(pte[p], r[p].i, sz[p]) = {}
      /\ sz' = [sz EXCEPT ![q] = sz[p]]
      /\ pc' = [pc EXCEPT ![p] = "user", ![q] = "user"]
      /\ r' = [r EXCEPT ![p] = Idle]
      /\ UNCHANGED <<freelist, refcnt, mem, pte, spare>>

-----------------------------------------------------------------------------
(* exit, sbrk, and the unmapping they end in *)

Exit(p) == pc[p] = "user" /\ Kexit(p) /\ UNCHANGED <<freelist, refcnt, mem, pte, spare, sz>>

\* sbrk(-n): growproc, uvmdealloc; proc.sz changes when the pages are gone.
SbrkShrink(p, n) ==
  /\ pc[p] = "user" /\ n < sz[p]
  /\ Uvmunmap(p, p, n, sz[p], "shrink")
  /\ UNCHANGED <<freelist, refcnt, mem, pte, spare, sz>>

\* sbrk(n), lazily: the size only.
SbrkLazy(p, n) ==
  /\ pc[p] = "user" /\ sz[p] < n
  /\ sz' = [sz EXCEPT ![p] = n]
  /\ UNCHANGED <<freelist, refcnt, mem, pte, spare, pc, r>>

\* sbrk(n), eagerly: uvmalloc maps the pages one by one before proc.sz covers them.
SbrkEager(p, n) ==
  /\ pc[p] = "user" /\ sz[p] < n
  /\ Goto(p, "vmfault")
  /\ r' = [r EXCEPT ![p] = [Idle EXCEPT !.va = sz[p], !.end = n, !.ret = "grow"]]
  /\ UNCHANGED <<freelist, refcnt, mem, pte, spare, sz>>

\* The page is zeroed and mapped; it is the last one, or uvmalloc goes on.
FillGrow(p) ==
  LET v == r[p].va  new == r[p].page
  IN  /\ pc[p] = "fill" /\ r[p].ret = "grow"
      /\ refcnt' = [refcnt EXCEPT ![new] = 1]
      /\ mem' = [mem EXCEPT ![new] = Zero]
      /\ pte' = [pte EXCEPT ![p][v] = [pa |-> new, w |-> TRUE, cow |-> FALSE, u |-> TRUE]]
      /\ IF v + 1 = r[p].end
         THEN Return(p) /\ sz' = [sz EXCEPT ![p] = r[p].end]
         ELSE Goto(p, "vmfault") /\ r' = [r EXCEPT ![p].va = v + 1, ![p].page = None] /\ UNCHANGED sz
      /\ UNCHANGED <<freelist, spare>>

\* uvmunmap, one page.
UvmunmapPage(p) ==
  LET t == r[p].tgt  left == Leaves(pte[t], r[p].va, r[p].end)  v == Min(left)
  IN  /\ pc[p] = "uvmunmap" /\ left # {}
      /\ UnmapKfree(p, pte[t][v].pa)
      /\ pte' = [pte EXCEPT ![t][v] = NoPte]
      /\ UNCHANGED <<freelist, mem, spare, sz>>

\* ... and what follows it: freeproc of p or of the failed child, or the new
\* size.
UvmunmapDone(p) ==
  LET t == r[p].tgt
  IN  /\ pc[p] = "uvmunmap" /\ Leaves(pte[t], r[p].va, r[p].end) = {}
      /\ r' = [r EXCEPT ![p] = Idle]
      /\ CASE r[p].ret = "exit" ->
                /\ sz' = [sz EXCEPT ![p] = 0]
                /\ Goto(p, "unused")
           [] r[p].ret = "fork" ->
                /\ pc' = [pc EXCEPT ![p] = "user", ![t] = "unused"]
                /\ UNCHANGED sz
           [] r[p].ret = "shrink" ->
                /\ sz' = [sz EXCEPT ![p] = r[p].va]
                /\ Goto(p, "user")
      /\ UNCHANGED <<freelist, refcnt, mem, pte, spare>>

-----------------------------------------------------------------------------
(* exec *)

\* kexec of a program that is found and has a good header.
Exec(p, im) ==
  /\ pc[p] = "user" /\ p \in Execs
  /\ Goto(p, "exec")
  /\ r' = [r EXCEPT ![p] = [Idle EXCEPT !.image = im, !.ret = "exec"]]
  /\ UNCHANGED <<freelist, refcnt, mem, pte, spare, sz>>

\* The page is zeroed and mapped; then uvmclear, loadseg and copyout fill it.
FillExec(p) ==
  LET v == r[p].i  a == r[p].page  im == r[p].image
  IN  /\ pc[p] = "fill" /\ r[p].ret = "exec"
      /\ refcnt' = [refcnt EXCEPT ![a] = 1]
      /\ mem' = [mem EXCEPT ![a] = ImageMem(im, v)]
      /\ spare' = [spare EXCEPT ![p][v] = ImagePte(im, v, a)]
      /\ Goto(p, "exec")
      /\ r' = [r EXCEPT ![p].i = @ + 1, ![p].page = None]
      /\ UNCHANGED <<freelist, pte, sz>>

\* readi or loadseg is short, a segment is malformed, or the arguments do not fit.
ExecFails(p) ==
  /\ pc[p] = "exec"
  /\ ExecFree(p, r[p].i)
  /\ UNCHANGED <<freelist, refcnt, mem, pte, spare, sz>>

\* Mutant: the old table is freed with the size of the new one.
ExecCommit_NewSize(p) ==
  /\ pc[p] = "exec" /\ r[p].i = r[p].image.sz
  /\ pte' = [pte EXCEPT ![p] = spare[p]] /\ spare' = [spare EXCEPT ![p] = pte[p]]
  /\ sz' = [sz EXCEPT ![p] = r[p].image.sz]
  /\ ExecFree(p, r[p].image.sz)
  /\ UNCHANGED <<freelist, refcnt, mem>>

\* The new table takes the place of the old one, which is freed with oldsz.
ExecCommit(p) ==
  /\ pc[p] = "exec" /\ r[p].i = r[p].image.sz
  /\ pte' = [pte EXCEPT ![p] = spare[p]] /\ spare' = [spare EXCEPT ![p] = pte[p]]
  /\ sz' = [sz EXCEPT ![p] = r[p].image.sz]
  /\ ExecFree(p, sz[p])
  /\ UNCHANGED <<freelist, refcnt, mem>>

ExecFreePage(p) ==
  LET left == Leaves(spare[p], 0, r[p].end)  v == Min(left)
  IN  /\ pc[p] = "exec_free" /\ left # {}
      /\ UnmapKfree(p, spare[p][v].pa)
      /\ spare' = [spare EXCEPT ![p][v] = NoPte]
      /\ UNCHANGED <<freelist, mem, pte, sz>>

ExecReturn(p) ==
  /\ pc[p] = "exec_free" /\ Leaves(spare[p], 0, r[p].end) = {}
  /\ Return(p)
  /\ UNCHANGED <<freelist, refcnt, mem, pte, spare, sz>>

-----------------------------------------------------------------------------
(* The specification *)

Step(p) ==
  \/ \E v \in VPages, x \in Vals : Store(p, v, x)
  \/ \E v \in VPages : StoreFault(p, v) \/ LoadFault(p, v) \/ Copyout(p, v)
  \/ \E x \in Vals : CopyoutWrite(p, x)
  \/ Kalloc(p) \/ FillCow(p) \/ FillZero(p) \/ FillFails(p)
  \/ Kfree(p) \/ KfreePush(p)
  \/ \E q \in Procs : Fork(p, q)
  \/ UvmcopyPage(p) \/ KrefInc(p) \/ UvmcopyFails(p) \/ ForkDone(p)
  \/ Exit(p) \/ FillGrow(p)
  \/ \E n \in 0 .. MaxSz : SbrkLazy(p, n) \/ SbrkEager(p, n) \/ SbrkShrink(p, n)
  \/ UvmunmapPage(p) \/ UvmunmapDone(p)
  \/ \E im \in Images : Exec(p, im)
  \/ FillExec(p) \/ ExecFails(p) \/ ExecCommit(p) \/ ExecFreePage(p) \/ ExecReturn(p)

Next == \E p \in Procs : Step(p)

Spec == Init /\ [][Next]_vars

-----------------------------------------------------------------------------
(* Properties *)

\* Types; no address space passes its limit, counts never exceed the entries that can exist.
TypeOK ==
  /\ freelist \subseteq Pages
  /\ refcnt \in [Pages -> 0 .. Cardinality(Procs) * MaxSz + 1]
  /\ mem \in [Pages -> Vals \union {Junk}]
  /\ pte \in [Procs -> [VPages -> PTEs]] /\ spare \in [Procs -> [VPages -> PTEs]]
  /\ sz \in [Procs -> 0 .. MaxSz]
  /\ pc \in [Procs -> PCs]
  /\ \A p \in Procs :
       /\ r[p].page \in Pages \union {None} /\ r[p].tgt \in Procs \union {None}
       /\ r[p].va \in 0 .. MaxSz /\ r[p].i \in 0 .. MaxSz /\ r[p].end \in 0 .. MaxSz

\* The entries that name page a; the child's entry of a page whose kref_inc is
\* still to come is not yet counted.
Entries(a) ==
  {<<p, v>> \in Procs \X VPages : pte[p][v].pa = a}
    \ {<<r[p].tgt, r[p].i>> : p \in {q \in Procs : pc[q] = "kref"}}

\* The ones in the tables kexec builds or takes down.
SpareEntries(a) == {<<p, v>> \in Procs \X VPages : spare[p][v].pa = a}

\* The processes about to give page a up.
Releasing(a) == {p \in Procs : pc[p] = "kfree" /\ r[p].page = a}

\* Every count is exact: one for each entry of any page table and each
\* reference kfree is about to drop.  No leak, no early free.
RefcntExact ==
  \A a \in Pages : refcnt[a] = Cardinality(Entries(a)) + Cardinality(SpareEntries(a)) + Cardinality(Releasing(a))

\* No page is lost or in two places: it is free, or counted, or in the hands of
\* exactly one process between the free list and the count.
Owned ==
  \A a \in Pages :
    LET hands == {p \in Procs : pc[p] \in {"fill", "push"} /\ r[p].page = a}
    IN  IF a \in freelist THEN refcnt[a] = 0 /\ hands = {}
        ELSE (refcnt[a] = 0) <=> (Cardinality(hands) = 1)

\* None of the allocator's panics: kref_inc on a free page, refcnt underflow.
\* freewalk's "leaf": a table that is freed has no entry left.
NoPanic ==
  \A p \in Procs :
    /\ pc[p] = "kfree" => refcnt[r[p].page] > 0
    /\ pc[p] = "kref" => refcnt[pte[p][r[p].i].pa] > 0
    /\ pc[p] = "uvmunmap" => \A v \in Leaves(pte[r[p].tgt], r[p].va, r[p].end) : refcnt[pte[r[p].tgt][v].pa] > 0
    /\ pc[p] = "unused" => \A v \in VPages : ~Mapped(p, v)
    /\ pc[p] = "user" => \A v \in VPages : spare[p][v] = NoPte

\* A page some process can write has no other entry: what the refinement below
\* rests on.
WritableIsPrivate ==
  \A p \in Procs : \A v \in VPages :
    pte[p][v].w => \A q \in Procs : \A u \in VPages : pte[q][u].pa = pte[p][v].pa => <<p, v>> = <<q, u>>

\* kalloc, kref_inc and kfree account for every page in every interleaving: it is
\* free, counted or in one pair of hands, and writable for its only owner.
PagesExact == TypeOK /\ RefcntExact /\ Owned /\ WritableIsPrivate

\* The process exists: it has been forked, and is not being taken down.
Live(p) == pc[p] \notin {"unused", "embryo"} /\ r[p].ret # "exit"

\* Its size, the new one as soon as sbrk begins to unmap.
Size(p) == IF r[p].ret = "shrink" THEN r[p].va ELSE sz[p]

\* What it reads: the page that is mapped, zero where none is yet.  What it may
\* never write: its text.  The page exec takes from the user is not among it:
\* once it is a COW page, copyout does write it.
Memory(p) ==
  LET n == Size(p)
  IN  [size |-> n,
       fixed |-> {v \in 0 .. n - 1 : Mapped(p, v) /\ ~(pte[p][v].w \/ pte[p][v].cow)},
       view |-> [v \in VPages |-> IF v < n /\ Mapped(p, v) THEN mem[pte[p][v].pa] ELSE Zero]]

PM == INSTANCE PrivateMemory WITH
        memory <- [p \in Procs |-> IF Live(p) THEN Memory(p) ELSE None]

\* Copy-on-write is invisible: in every interleaving of faults, forks, exits
\* and failed allocations each process has a memory of its own, its text never
\* changes, and exec gives it the whole of a program or leaves it as it was.
Private == PM!Spec
=============================================================================
