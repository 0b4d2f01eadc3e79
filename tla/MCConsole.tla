----------------------------- MODULE MCConsole ------------------------------
(* Console for TLC.                                                        *)
EXTENDS Console, TLC

\* The writers differ in name only.
Symmetry == Permutations(Writers)

\* Bound: more than BusyKeys keys are typed only while one writer is still to come and
\* at most FewBytes bytes are in the transmit ring or out of it.
BusyKeys == 1
FewBytes == 1
KeysOrBytes == typed > BusyKeys => w <= FewBytes /\ \E t \in Writers : pc[t] = "idle" /\ done[t] = 0
=============================================================================
