----------------------------- MODULE AtomicDisk -----------------------------
(***************************************************************************)
(* What the log of kernel/rust_log.rs promises to the file system: the     *)
(* blocks written between begin_op and end_op reach the disk all together  *)
(* or, after a crash, not at all.  Operations that overlap share a fate.   *)
(***************************************************************************)
CONSTANTS Blocks, Vals, Threads

VARIABLES
  durable,    \* what a restart finds
  current,    \* what the file system reads
  open        \* the threads inside an operation

vars == <<durable, current, open>>

Init ==
  /\ durable \in [Blocks -> Vals]
  /\ current = durable
  /\ open = {}

Begin(t) ==
  /\ t \notin open
  /\ open' = open \cup {t}
  /\ UNCHANGED <<durable, current>>

Write(t, b, v) ==
  /\ t \in open
  /\ current' = [current EXCEPT ![b] = v]
  /\ UNCHANGED <<durable, open>>

End(t) ==
  /\ t \in open
  /\ open' = open \ {t}
  /\ UNCHANGED <<durable, current>>

\* Only a state between operations becomes durable.
Commit ==
  /\ open = {}
  /\ durable' = current
  /\ UNCHANGED <<current, open>>

Crash ==
  /\ current' = durable
  /\ open' = {}
  /\ UNCHANGED durable

Next ==
  \/ \E t \in Threads : Begin(t) \/ End(t) \/ \E b \in Blocks, v \in Vals : Write(t, b, v)
  \/ Commit
  \/ Crash

Spec == Init /\ [][Next]_vars
=============================================================================
