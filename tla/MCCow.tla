---------------------------------- MODULE MCCow ----------------------------------
(* The instance of Cow that TLC checks. *)
EXTENDS Cow, TLC

CONSTANT Third    \* the slot that is used under ThirdIsSmall only

\* A program that has nothing but its stack and the page below it that is taken
\* from the user, and one of a read-only page, its stack left out.
MCBoot == [sz |-> 2, text |-> {}, guard |-> {0}, first |-> 0]
MCImages == {[sz |-> 1, text |-> {0}, guard |-> {}, first |-> 1]}

Symmetry == Permutations(Pages)

InExec(p) == r[p].ret = "exec" \/ \E v \in VPages : spare[p][v] # NoPte

\* Bound: with three processes, each has one page that it may write, and they store,
\* fault, fork and exit.
ThirdIsSmall ==
  pc[Third] # "unused" =>
    \A p \in Procs :
      /\ ~InExec(p)
      /\ \A v \in VPages : Mapped(p, v) => v = 0 /\ pte[p][v].u /\ (pte[p][v].w \/ pte[p][v].cow)
      /\ pc[p] \in {"unused", "embryo"} \/ (sz[p] = 1 /\ r[p].ret \in {"user", "fork", "exit"})

\* Bound: during an exec the first process has the memory it booted with, which it
\* reads and writes, or is on its way out.
ExecBesideBoot ==
  \A p \in Procs : InExec(p) => sz[First] \in {0, Boot.sz} /\ r[First].ret \in {"user", "exit"}
=============================================================================
