--------------------------- MODULE BufferLifecycle ---------------------------
(***************************************************************************)
(* What the driver promises about its pool of buffers, without saying how: *)
(* a buffer is free, or held by one CPU that records into it, or ready, or *)
(* being read by one reader, and it goes round in that order.  Only a CPU  *)
(* that holds a buffer changes its contents; only a complete buffer        *)
(* becomes ready; ready buffers are handed out first in, first out.        *)
(*                                                                         *)
(* Restarting the sampler may take an incomplete buffer from a CPU.        *)
(***************************************************************************)
EXTENDS Naturals, Sequences

CONSTANTS Cpus, Readers, Buffers, BufferEntries, NULL

VARIABLES
  free,     \* set of buffers nobody uses
  ready,    \* sequence of complete buffers, oldest first
  holding,  \* per CPU: the buffer it records into, or NULL
  reading,  \* per reader: the buffer it copies, or NULL
  fill      \* per buffer: number of samples recorded in it

vars == <<free, ready, holding, reading, fill>>

Init ==
  /\ free = Buffers
  /\ ready = <<>>
  /\ holding = [c \in Cpus |-> NULL]
  /\ reading = [r \in Readers |-> NULL]
  /\ fill = [b \in Buffers |-> 0]

\* A CPU without a buffer takes a free one and starts it from nothing.
Take(c, b) ==
  /\ holding[c] = NULL /\ b \in free
  /\ free' = free \ {b}
  /\ holding' = [holding EXCEPT ![c] = b]
  /\ fill' = [fill EXCEPT ![b] = 0]
  /\ UNCHANGED <<ready, reading>>

\* A CPU records one sample in the buffer it holds.
Record(c) ==
  /\ holding[c] # NULL /\ fill[holding[c]] < BufferEntries
  /\ fill' = [fill EXCEPT ![holding[c]] = @ + 1]
  /\ UNCHANGED <<free, ready, holding, reading>>

\* A CPU hands over its complete buffer.
Publish(c) ==
  /\ holding[c] # NULL /\ fill[holding[c]] = BufferEntries
  /\ ready' = Append(ready, holding[c])
  /\ holding' = [holding EXCEPT ![c] = NULL]
  /\ UNCHANGED <<free, reading, fill>>

\* The buffer a CPU holds is given back incomplete.
Discard(c) ==
  /\ holding[c] # NULL /\ fill[holding[c]] < BufferEntries
  /\ free' = free \cup {holding[c]}
  /\ holding' = [holding EXCEPT ![c] = NULL]
  /\ UNCHANGED <<ready, reading, fill>>

\* A reader takes the oldest complete buffer.
Fetch(r) ==
  /\ reading[r] = NULL /\ ready # <<>>
  /\ reading' = [reading EXCEPT ![r] = Head(ready)]
  /\ ready' = Tail(ready)
  /\ UNCHANGED <<free, holding, fill>>

\* A reader is done with its buffer.
Recycle(r) ==
  /\ reading[r] # NULL
  /\ free' = free \cup {reading[r]}
  /\ reading' = [reading EXCEPT ![r] = NULL]
  /\ UNCHANGED <<ready, holding, fill>>

Next ==
  \/ \E c \in Cpus : \/ \E b \in Buffers : Take(c, b)
                     \/ Record(c) \/ Publish(c) \/ Discard(c)
  \/ \E r \in Readers : Fetch(r) \/ Recycle(r)

Spec == Init /\ [][Next]_vars
=============================================================================
