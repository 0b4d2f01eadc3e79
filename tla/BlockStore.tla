----------------------------- MODULE BlockStore -----------------------------
(***************************************************************************)
(* What the buffer cache promises: every block has one content, which a    *)
(* thread sees and changes only while it has the block for itself, and a   *)
(* durable copy that follows the content.                                  *)
(***************************************************************************)
CONSTANTS Threads, Blocks, Values, NoView

VARIABLES
    content,   \* what the next reader of a block sees
    durable,   \* what a crash would leave
    view       \* the block a thread has and what it sees there

storeVars == <<content, durable, view>>

Init == content \in [Blocks -> Values] /\ durable = content /\ view = [t \in Threads |-> NoView]

Acquire(t, b) ==
    /\ view[t] = NoView
    /\ \A u \in Threads : view[u].block # b
    /\ view' = [view EXCEPT ![t] = [block |-> b, value |-> content[b]]]
    /\ UNCHANGED <<content, durable>>

Update(t, v) ==
    /\ view[t] # NoView
    /\ content' = [content EXCEPT ![view[t].block] = v]
    /\ view' = [view EXCEPT ![t].value = v]
    /\ UNCHANGED durable

Persist(t) ==
    /\ view[t] # NoView
    /\ durable' = [durable EXCEPT ![view[t].block] = content[view[t].block]]
    /\ UNCHANGED <<content, view>>

Release(t) ==
    /\ view[t] # NoView
    /\ view' = [view EXCEPT ![t] = NoView]
    /\ UNCHANGED <<content, durable>>

Next == \E t \in Threads :
    \/ \E b \in Blocks : Acquire(t, b)
    \/ \E v \in Values : Update(t, v)
    \/ Persist(t) \/ Release(t)

Spec == Init /\ [][Next]_storeVars
=============================================================================
