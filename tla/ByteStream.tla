----------------------------- MODULE ByteStream -----------------------------
(***************************************************************************)
(* What a pipe promises: a bounded first-in first-out queue of bytes with  *)
(* two ends, each of which is closed once.                                 *)
(***************************************************************************)
EXTENDS Naturals, Sequences

CONSTANTS Vals, Procs, Capacity

VARIABLES q, ropen, wopen, got

vars == <<q, ropen, wopen, got>>

Init ==
  /\ q = <<>> /\ ropen = TRUE /\ wopen = TRUE
  /\ got \in [Procs -> Vals]

Put(v) ==
  /\ ropen /\ wopen /\ Len(q) < Capacity
  /\ q' = Append(q, v)
  /\ UNCHANGED <<ropen, wopen, got>>

Get(p) ==
  /\ ropen /\ q # <<>>
  /\ got' = [got EXCEPT ![p] = Head(q)]
  /\ q' = Tail(q)
  /\ UNCHANGED <<ropen, wopen>>

CloseRead ==
  /\ ropen /\ ropen' = FALSE
  /\ UNCHANGED <<q, wopen, got>>

CloseWrite ==
  /\ wopen /\ wopen' = FALSE
  /\ UNCHANGED <<q, ropen, got>>

Next == (\E v \in Vals : Put(v)) \/ (\E p \in Procs : Get(p)) \/ CloseRead \/ CloseWrite

Spec == Init /\ [][Next]_vars
=============================================================================
