------------------------------ MODULE PrivateMemory ------------------------------
(***************************************************************************)
(* What a process may believe about its memory: it is an array of pages of *)
(* its own.  fork gives the child a copy, a store changes one page of one  *)
(* process, new pages read as zero, and nothing else ever changes a page.  *)
(* The copy-on-write pages, the reference counts and the lazy allocation   *)
(* of the kernel must not be visible here.                                 *)
(***************************************************************************)
EXTENDS Naturals

CONSTANTS Procs, First, MaxSz, Images, Boot, Vals, Zero,
          None    \* the memory of a process that does not exist

\* Of each process: the number of its pages, the ones it cannot write, and the
\* contents it sees.
VARIABLE memory

VPages == 0 .. MaxSz - 1

Loaded(im) ==
  [size |-> im.sz, fixed |-> im.text,
   view |-> [v \in VPages |-> IF v = 0 THEN im.first ELSE Zero]]

Init == memory = [p \in Procs |-> IF p = First THEN Loaded(Boot) ELSE None]

\* What one step may make of the memory m of one process.

\* A store or a kernel copyout: one page, never a fixed one.
Write(m, new) ==
  \E v \in (0 .. m.size - 1) \ m.fixed, x \in Vals : new = [m EXCEPT !.view[v] = x]

Grow(m, new) == \E n \in m.size + 1 .. MaxSz : new = [m EXCEPT !.size = n]

Shrink(m, new) ==
  \E n \in 0 .. m.size - 1 :
    new = [size |-> n, fixed |-> {v \in m.fixed : v < n},
           view |-> [v \in VPages |-> IF v < n THEN m.view[v] ELSE Zero]]

\* All of the new program, and nothing of the old one.
Exec(new) == \E im \in Images : new = Loaded(im)

\* The child of a fork starts with the memory of a process that exists.
Forked(new) == new # None /\ \E q \in Procs : new = memory[q]

\* A load, or work of the kernel that no process sees.
Quiet == UNCHANGED memory

Next ==
  \/ Quiet
  \/ \E p \in Procs :
       LET m == memory[p]  new == memory'[p]
       IN  /\ \A q \in Procs \ {p} : memory'[q] = memory[q]
           /\ \/ m = None /\ Forked(new)
              \/ m # None /\ new = None
              \/ m # None /\ new # None
                 /\ (Write(m, new) \/ Grow(m, new) \/ Shrink(m, new) \/ Exec(new))

Spec == Init /\ [][Next]_memory
=============================================================================
