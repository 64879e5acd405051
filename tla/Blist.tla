-------------------------------- MODULE Blist --------------------------------
(***************************************************************************)
(* struct blist, append_blist and pop_blist of                             *)
(* module/pmu_sync_sample_main.c, one access to shared memory at a time:   *)
(* a list is head, tail and the nextBuffer pointers of its buffers, behind *)
(* a spin lock.  PmuSampler takes these lists as sequences and a critical  *)
(* section as one step.                                                    *)
(*                                                                         *)
(* A context is whatever can be in one of the two functions: a process or  *)
(* an interrupt on a CPU.                                                  *)
(***************************************************************************)
EXTENDS Integers, FiniteSets, Sequences, SequencesExt

CONSTANTS Ctxs, Lists, Buffers, NULL

ASSUME BlistAssumption == NULL \notin Buffers \cup Ctxs /\ IsFiniteSet(Buffers)

VARIABLES
  head, tail,  \* per list
  nextBuffer,  \* per buffer
  lock,        \* per list: the context that holds it, or NULL
  op           \* per context: the call it is in, its list and its buffer

listVars == <<head, tail, nextBuffer, lock, op>>

NoCall == [pc |-> "none", list |-> NULL, b |-> NULL]

BlistInit ==
  /\ head = [l \in Lists |-> NULL] /\ tail = [l \in Lists |-> NULL]
  /\ nextBuffer = [b \in Buffers |-> NULL]
  /\ lock = [l \in Lists |-> NULL]
  /\ op = [x \in Ctxs |-> NoCall]

\* A context calls one of the functions.
Append_blist(x, l, b) == op' = [op EXCEPT ![x] = [pc |-> "append_lock", list |-> l, b |-> b]]
Pop_blist(x, l) == op' = [op EXCEPT ![x] = [pc |-> "pop_lock", list |-> l, b |-> NULL]]

\* The function has returned; a pop left its buffer in b.
Returned(x) == op[x].pc = "done"
Return(x) == op' = [op EXCEPT ![x] = NoCall]

Goto(x, pc) == op' = [op EXCEPT ![x].pc = pc]

\* Mutant: the lock is not waited for.
LockAnyway(x) ==
  /\ op[x].pc \in {"append_lock", "pop_lock"}
  /\ lock' = [lock EXCEPT ![op[x].list] = x]
  /\ Goto(x, IF op[x].pc = "append_lock" THEN "append_next" ELSE "pop_head")
  /\ UNCHANGED <<head, tail, nextBuffer>>

\* spin_lock_irqsave
Lock(x) ==
  /\ op[x].pc \in {"append_lock", "pop_lock"} /\ lock[op[x].list] = NULL
  /\ lock' = [lock EXCEPT ![op[x].list] = x]
  /\ Goto(x, IF op[x].pc = "append_lock" THEN "append_next" ELSE "pop_head")
  /\ UNCHANGED <<head, tail, nextBuffer>>

AppendNext(x) ==
  /\ op[x].pc = "append_next"
  /\ nextBuffer' = [nextBuffer EXCEPT ![op[x].b] = NULL]
  /\ Goto(x, "append_link")
  /\ UNCHANGED <<head, tail, lock>>

AppendEmpty(x) ==
  /\ op[x].pc = "append_link"
  /\ head[op[x].list] = NULL \/ tail[op[x].list] = NULL
  /\ head' = [head EXCEPT ![op[x].list] = op[x].b]
  /\ Goto(x, "append_tail")
  /\ UNCHANGED <<tail, nextBuffer, lock>>

AppendBehind(x) ==
  /\ op[x].pc = "append_link"
  /\ head[op[x].list] # NULL /\ tail[op[x].list] # NULL
  /\ nextBuffer' = [nextBuffer EXCEPT ![tail[op[x].list]] = op[x].b]
  /\ Goto(x, "append_tail")
  /\ UNCHANGED <<head, tail, lock>>

AppendTail(x) ==
  /\ op[x].pc = "append_tail"
  /\ tail' = [tail EXCEPT ![op[x].list] = op[x].b]
  /\ Goto(x, "unlock")
  /\ UNCHANGED <<head, nextBuffer, lock>>

PopNothing(x) ==
  /\ op[x].pc = "pop_head" /\ head[op[x].list] = NULL
  /\ Goto(x, "unlock")
  /\ UNCHANGED <<head, tail, nextBuffer, lock>>

PopHead(x) ==
  /\ op[x].pc = "pop_head" /\ head[op[x].list] # NULL
  /\ LET ret == head[op[x].list] IN
       /\ head' = [head EXCEPT ![op[x].list] = nextBuffer[ret]]
       /\ op' = [op EXCEPT ![x].pc = "pop_tail", ![x].b = ret]
  /\ UNCHANGED <<tail, nextBuffer, lock>>

\* Mutant: tail keeps pointing to the last buffer.
PopTailKept(x) ==
  /\ op[x].pc = "pop_tail"
  /\ Goto(x, "pop_next")
  /\ UNCHANGED <<head, tail, nextBuffer, lock>>

PopTail(x) ==
  /\ op[x].pc = "pop_tail"
  /\ tail' = IF head[op[x].list] = NULL THEN [tail EXCEPT ![op[x].list] = NULL] ELSE tail
  /\ Goto(x, "pop_next")
  /\ UNCHANGED <<head, nextBuffer, lock>>

PopNext(x) ==
  /\ op[x].pc = "pop_next"
  /\ nextBuffer' = [nextBuffer EXCEPT ![op[x].b] = NULL]
  /\ Goto(x, "unlock")
  /\ UNCHANGED <<head, tail, lock>>

\* Mutant: the path past an empty list does not unlock.
UnlockFound(x) ==
  /\ op[x].pc = "unlock"
  /\ lock' = IF op[x].b = NULL THEN lock ELSE [lock EXCEPT ![op[x].list] = NULL]
  /\ Goto(x, "done")
  /\ UNCHANGED <<head, tail, nextBuffer>>

\* spin_unlock_irqrestore
Unlock(x) ==
  /\ op[x].pc = "unlock"
  /\ lock' = [lock EXCEPT ![op[x].list] = NULL]
  /\ Goto(x, "done")
  /\ UNCHANGED <<head, tail, nextBuffer>>

ListStep(x) ==
  \/ Lock(x) \/ Unlock(x)
  \/ AppendNext(x) \/ AppendEmpty(x) \/ AppendBehind(x) \/ AppendTail(x)
  \/ PopNothing(x) \/ PopHead(x) \/ PopTail(x) \/ PopNext(x)

\* Interrupts are masked from before the lock is taken until it is given back.
Masking(x) == op[x].pc \notin {"none", "done"}

\* The context is between spin_lock_irqsave and spin_unlock_irqrestore with the lock.
Critical(x) == \E l \in Lists : lock[l] = x

-----------------------------------------------------------------------------
(* Properties                                                              *)

\* The buffers reached from the first one, in order; longer than any list could be if they
\* form a ring.
Follow(first, next) ==
  LET n == Cardinality(Buffers) + 1
      upto[k \in 0 .. n] ==
        IF k = 0 THEN <<>>
        ELSE LET s == upto[k - 1]
                 b == IF s = <<>> THEN first ELSE next[Last(s)]
             IN  IF b = NULL THEN s ELSE Append(s, b)
  IN  upto[n]

Chain(l) == Follow(head[l], nextBuffer)

\* A list nobody holds is well formed: head and tail are NULL together, tail is the last
\* buffer of the chain, and no buffer is in two places.
WellLinked ==
  \A l \in Lists :
    lock[l] = NULL =>
      /\ (head[l] = NULL) = (tail[l] = NULL)
      /\ Chain(l) # <<>> => tail[l] = Last(Chain(l))
      /\ IsInjective(Chain(l))
      /\ \A k \in Lists \ {l} : ToSet(Chain(l)) \cap ToSet(Chain(k)) = {}

\* Seen through head and nextBuffer alone, at every moment, the lists are queues.
Queues == INSTANCE BufferQueues WITH queue <- [l \in Lists |-> Chain(l)]
ImplementsQueues == Queues!Spec
=============================================================================
