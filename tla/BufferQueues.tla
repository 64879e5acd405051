---------------------------- MODULE BufferQueues ----------------------------
(***************************************************************************)
(* What append_blist and pop_blist promise: a buffer list is a queue.  A   *)
(* buffer is in one place of one queue, it is put behind all others, and   *)
(* the one that has waited longest is taken.                               *)
(***************************************************************************)
EXTENDS Sequences, SequencesExt

CONSTANTS Lists, Buffers

VARIABLE queue  \* per list: its buffers, oldest first

Queued == UNION {ToSet(queue[l]) : l \in Lists}

Put(l, b) == b \notin Queued /\ queue' = [queue EXCEPT ![l] = Append(@, b)]

Take(l) == queue[l] # <<>> /\ queue' = [queue EXCEPT ![l] = Tail(@)]

Init == queue = [l \in Lists |-> <<>>]

Next == \E l \in Lists : Take(l) \/ \E b \in Buffers : Put(l, b)

Spec == Init /\ [][Next]_queue
=============================================================================
