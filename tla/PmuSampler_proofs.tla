-------------------------- MODULE PmuSampler_proofs --------------------------
(***************************************************************************)
(* Theorems about PmuSampler, for any number of CPUs, readers, writers,    *)
(* buffers and samples per buffer, and for any number of interrupts.       *)
(*                                                                         *)
(* Where the buffers are is proved on ARM without any restriction, on      *)
(* Intel for one process that writes to status and starts only a stopped   *)
(* sampler (Undisturbed).  Without that restriction an NMI in the middle   *)
(* of startCtrs breaks those theorems: the run IntelMixedCores shows one   *)
(* way.                                                                    *)
(***************************************************************************)
EXTENDS PmuSampler, SequenceTheorems, FiniteSetTheorems, TLAPS

(***************************************************************************)
(* Lists as sequences.                                                     *)
(***************************************************************************)

\* append_blist adds one element; a list without repetition that did not hold
\* it still has none.
LEMMA AppendToSet ==
  ASSUME NEW S, NEW s \in Seq(S), NEW e \in S
  PROVE  /\ Append(s, e) \in Seq(S)
         /\ ToSet(Append(s, e)) = ToSet(s) \cup {e}
         /\ IsInjective(s) /\ e \notin ToSet(s) => IsInjective(Append(s, e))
<1>1. /\ Append(s, e) \in Seq(S) /\ Len(Append(s, e)) = Len(s) + 1
      /\ \A i \in 1 .. Len(s) : Append(s, e)[i] = s[i]
      /\ Append(s, e)[Len(s) + 1] = e
  BY AppendProperties
<1>2. /\ Len(s) \in Nat /\ DOMAIN s = 1 .. Len(s)
      /\ DOMAIN Append(s, e) = 1 .. Len(s) + 1
  BY <1>1, LenProperties
<1>3. ToSet(Append(s, e)) = ToSet(s) \cup {e}
  BY <1>1, <1>2 DEF ToSet
<1>4. ASSUME IsInjective(s), e \notin ToSet(s)
      PROVE  IsInjective(Append(s, e))
  BY <1>1, <1>2, <1>4 DEF IsInjective, ToSet
<1> QED
  BY <1>1, <1>3, <1>4

\* pop_blist removes the first element, and no other one if there is no
\* repetition.
LEMMA TailToSet ==
  ASSUME NEW S, NEW s \in Seq(S), s # <<>>
  PROVE  /\ Head(s) \in S /\ Head(s) \in ToSet(s) /\ Tail(s) \in Seq(S)
         /\ ToSet(s) = ToSet(Tail(s)) \cup {Head(s)}
         /\ IsInjective(s) => IsInjective(Tail(s)) /\ Head(s) \notin ToSet(Tail(s))
<1>1. /\ Head(s) \in S /\ Tail(s) \in Seq(S) /\ Head(s) = s[1]
      /\ Len(Tail(s)) = Len(s) - 1
      /\ \A i \in 1 .. Len(Tail(s)) : Tail(s)[i] = s[i + 1]
  BY HeadTailProperties
<1>2. /\ Len(s) \in Nat \ {0} /\ DOMAIN s = 1 .. Len(s)
      /\ DOMAIN Tail(s) = 1 .. Len(s) - 1
  BY <1>1, LenProperties, EmptySeq
<1>3. Head(s) \in ToSet(s)
  BY <1>1, <1>2 DEF ToSet
<1>4. ToSet(s) = ToSet(Tail(s)) \cup {Head(s)}
  <2>1. \A i \in 1 .. Len(s) : i = 1 \/ (i - 1 \in 1 .. Len(s) - 1 /\ s[i] = Tail(s)[i - 1])
    BY <1>1, <1>2
  <2>2. \A i \in 1 .. Len(s) - 1 : i + 1 \in 1 .. Len(s) /\ Tail(s)[i] = s[i + 1]
    BY <1>1, <1>2
  <2>3. \A x \in ToSet(s) : x \in ToSet(Tail(s)) \cup {Head(s)}
    <3>1. \A j \in 1 .. Len(s) - 1 : Tail(s)[j] \in ToSet(Tail(s))
      BY <1>2 DEF ToSet
    <3>2. \A i \in 1 .. Len(s) : s[i] = Head(s) \/ s[i] \in ToSet(Tail(s))
      BY <1>1, <2>1, <3>1
    <3> QED
      BY <1>2, <3>2 DEF ToSet
  <2>4. \A x \in ToSet(Tail(s)) : x \in ToSet(s)
    BY <1>2, <2>2 DEF ToSet
  <2> QED
    BY <1>3, <2>3, <2>4
<1>5. ASSUME IsInjective(s)
      PROVE  IsInjective(Tail(s)) /\ Head(s) \notin ToSet(Tail(s))
  <2>1. \A i \in 1 .. Len(s) - 1 : i + 1 \in 1 .. Len(s) /\ Tail(s)[i] = s[i + 1]
    BY <1>1, <1>2
  <2>2. \A i, j \in 1 .. Len(s) : s[i] = s[j] => i = j
    BY <1>2, <1>5 DEF IsInjective
  <2>3. 1 \in 1 .. Len(s) /\ \A i \in 1 .. Len(s) - 1 : i + 1 # 1
    BY <1>2
  <2> QED
    BY <1>1, <1>2, <2>1, <2>2, <2>3 DEF IsInjective, ToSet
<1> QED
  BY <1>1, <1>3, <1>4, <1>5
-----------------------------------------------------------------------------
(***************************************************************************)
(* Types.                                                                  *)
(***************************************************************************)

\* The handler has a buffer where it uses one, a reader where it copies one.
HasBuffer ==
  /\ \A c \in Cpus : irq[c] \in {"write", "check", "detach"} => lbuffer[c] # NULL
  /\ \A r \in Readers : rbuf[r] # NULL <=> rpc[r] = "copy"

TypeInv == Typed /\ HasBuffer

\* init_module leaves every variable with its type.
LEMMA TypeInit == Init => TypeInv
<1> SUFFICES ASSUME Init PROVE TypeInv
  OBVIOUS
<1>1. empty \in Seq(Buffers)
  <2>1. Cardinality(Buffers) \in Nat
    BY FS_CardinalityType, PmuSamplerAssumption
  <2>2. empty \in [1 .. Cardinality(Buffers) -> Buffers]
    BY DEF Init
  <2> QED
    BY <2>1, <2>2, SeqDef
<1>2. samples \in [Buffers -> Seq(Sample)]
  BY EmptySeq DEF Init
<1>3. Typed
  BY <1>1, <1>2, PmuSamplerAssumption DEF Init, Typed
<1>4. HasBuffer
  BY DEF Init, HasBuffer
<1> QED
  BY <1>3, <1>4 DEF TypeInv

\* Every step keeps the types.
LEMMA TypeStep == TypeInv /\ [Next]_vars => TypeInv'
<1> SUFFICES ASSUME TypeInv, [Next]_vars PROVE TypeInv'
  OBVIOUS
<1> USE PmuSamplerAssumption DEF TypeInv, Typed, HasBuffer, vars, poolVars, pmuVars,
        ctlVars, missVars, readVars, ipiVars, handlerKeeps, crossKeeps, writerKeeps,
        readerKeeps
<1>1. ASSUME NEW c \in Cpus, Overflow(c) PROVE TypeInv'
  BY <1>1 DEF Overflow
<1>2. ASSUME NEW c \in Cpus, ArmIrqEntry(c) PROVE TypeInv'
  BY <1>2 DEF ArmIrqEntry
<1>3. ASSUME NEW c \in Cpus, ArmIrqSpurious(c) PROVE TypeInv'
  BY <1>3 DEF ArmIrqSpurious
<1>4. ASSUME NEW c \in Cpus, NmiEntry(c) PROVE TypeInv'
  <2>1. Typed'
    BY <1>4 DEF NmiEntry
  <2>2. HasBuffer'
    BY <1>4 DEF NmiEntry
  <2> QED
    BY <2>1, <2>2
<1>5. ASSUME NEW c \in Cpus, GatherKeep(c) PROVE TypeInv'
  <2>1. ticks' \in [Cpus -> Nat]
    BY <1>5 DEF GatherKeep
  <2>2. Typed'
    BY <1>5, <2>1 DEF GatherKeep
  <2>3. HasBuffer'
    BY <1>5 DEF GatherKeep
  <2> QED
    BY <2>2, <2>3
<1>6. ASSUME NEW c \in Cpus, GatherTake(c) PROVE TypeInv'
  <2>1. Head(empty) \in Buffers /\ Tail(empty) \in Seq(Buffers)
    BY <1>6, HeadTailProperties DEF GatherTake
  <2>2. <<>> \in Seq(Sample)
    BY EmptySeq
  <2>3. samples' \in [Buffers -> Seq(Sample)] /\ core' \in [Buffers -> Cpus]
    BY <1>6, <2>1, <2>2 DEF GatherTake, InitializeBuffer
  <2>4. empty' \in Seq(Buffers) /\ lbuffer' \in [Cpus -> Buffers \cup {NULL}]
    BY <1>6, <2>1 DEF GatherTake
  <2>5. UNCHANGED <<full, pmuVars, ctlVars, missVars, readVars, ipiVars, wpc>>
    BY <1>6 DEF GatherTake
  <2>6. /\ ticks' = [ticks EXCEPT ![c] = @ + 1]
        /\ irq' = [irq EXCEPT ![c] = "write"]
    BY <1>6, Zenon DEF GatherTake
  <2>7. ticks' \in [Cpus -> Nat]
    BY <2>6
  <2>8. irq' \in [Cpus -> {"idle", "gather", "write", "check", "detach", "miss",
                          "rearm", "return"}]
    BY <2>6
  <2>9. Typed'
    BY <2>3, <2>4, <2>5, <2>7, <2>8
  <2>10. HasBuffer'
    BY <1>6, <2>1 DEF GatherTake
  <2> QED
    BY <2>9, <2>10
<1>7. ASSUME NEW c \in Cpus, GatherMissLoad(c) PROVE TypeInv'
  <2>1. Typed'
    BY <1>7 DEF GatherMissLoad
  <2>2. HasBuffer'
    BY <1>7 DEF GatherMissLoad
  <2> QED
    BY <2>1, <2>2
<1>8. ASSUME NEW c \in Cpus, GatherMissStore(c) PROVE TypeInv'
  <2>1. Typed'
    BY <1>8 DEF GatherMissStore
  <2>2. HasBuffer'
    BY <1>8 DEF GatherMissStore
  <2> QED
    BY <2>1, <2>2
<1>9. ASSUME NEW c \in Cpus, GatherWrite(c) PROVE TypeInv'
  <2>1. lbuffer[c] \in Buffers /\ <<c, ticks[c]>> \in Sample
    BY <1>9 DEF GatherWrite, Sample
  <2>2. Append(samples[lbuffer[c]], <<c, ticks[c]>>) \in Seq(Sample)
    BY <2>1, AppendProperties
  <2>3. Typed'
    BY <1>9, <2>1, <2>2 DEF GatherWrite
  <2>4. HasBuffer'
    BY <1>9 DEF GatherWrite
  <2> QED
    BY <2>3, <2>4
<1>10. ASSUME NEW c \in Cpus, GatherMore(c) PROVE TypeInv'
  BY <1>10 DEF GatherMore
<1>11. ASSUME NEW c \in Cpus, GatherPublish(c) PROVE TypeInv'
  <2>1. lbuffer[c] \in Buffers
    BY <1>11 DEF GatherPublish
  <2>2. Append(full, lbuffer[c]) \in Seq(Buffers)
    BY <2>1, AppendProperties
  <2> QED
    BY <1>11, <2>2 DEF GatherPublish
<1>12. ASSUME NEW c \in Cpus, GatherDetach(c) PROVE TypeInv'
  BY <1>12 DEF GatherDetach, Woken
<1>13. ASSUME NEW c \in Cpus, ArmRearm(c) PROVE TypeInv'
  BY <1>13 DEF ArmRearm
<1>14. ASSUME NEW c \in Cpus, ArmReturn(c) PROVE TypeInv'
  BY <1>14 DEF ArmReturn
<1>15. ASSUME NEW c \in Cpus, NmiReturn(c) PROVE TypeInv'
  BY <1>15 DEF NmiReturn
<1>16. ASSUME NEW c \in Cpus, StartClear(c) PROVE TypeInv'
  BY <1>16 DEF StartClear, Runs
<1>17. ASSUME NEW c \in Cpus, StartConfig(c) PROVE TypeInv'
  <2>1. Typed'
    BY <1>17 DEF StartConfig
  <2>2. HasBuffer'
    BY <1>17 DEF StartConfig
  <2> QED
    BY <2>1, <2>2
<1>18. ASSUME NEW c \in Cpus, NEW w \in Writers, StartRecycle(c, w) PROVE TypeInv'
  <2>1. lbuffer[c] # NULL => Append(empty, lbuffer[c]) \in Seq(Buffers)
    BY AppendProperties
  <2>2. Typed'
    BY <1>18, <2>1 DEF StartRecycle
  <2>3. HasBuffer'
    BY <1>18 DEF StartRecycle
  <2> QED
    BY <2>2, <2>3
<1>19. ASSUME NEW c \in Cpus, NEW w \in Writers, StopLocal(c, w) PROVE TypeInv'
  BY <1>19 DEF StopLocal
<1>20. ASSUME NEW w \in Writers, SwitchStart(w) PROVE TypeInv'
  BY <1>20 DEF SwitchStart
<1>21. ASSUME NEW w \in Writers, StartRegister(w) PROVE TypeInv'
  BY <1>21 DEF StartRegister
<1>22. ASSUME NEW w \in Writers, StartDone(w) PROVE TypeInv'
  BY <1>22 DEF StartDone
<1>23. ASSUME NEW w \in Writers, SwitchStop(w) PROVE TypeInv'
  BY <1>23 DEF SwitchStop
<1>24. ASSUME NEW w \in Writers, StopDeregister(w) PROVE TypeInv'
  BY <1>24 DEF StopDeregister
<1>25. ASSUME NEW w \in Writers, StopMark(w) PROVE TypeInv'
  BY <1>25 DEF StopMark
<1>26. ASSUME NEW w \in Writers, StopWake(w) PROVE TypeInv'
  BY <1>26 DEF StopWake, Woken
<1>27. ASSUME NEW w \in Writers, SwitchDump(w) PROVE TypeInv'
  BY <1>27 DEF SwitchDump
<1>28. ASSUME NEW w \in Writers, SwitchUnknown(w) PROVE TypeInv'
  BY <1>28 DEF SwitchUnknown
<1>29. ASSUME NEW w \in Writers, NEW code \in Codes, StoreStatus(w, code) PROVE TypeInv'
  BY <1>29 DEF StoreStatus
<1>30. ASSUME NEW r \in Readers, ReadPop(r) PROVE TypeInv'
  <2>1. Head(full) \in Buffers /\ Tail(full) \in Seq(Buffers)
    BY <1>30, HeadTailProperties DEF ReadPop
  <2>2. Latest(Head(full)) \in Nat
    <3>1. samples[Head(full)] \in Seq(Sample)
      BY <2>1
    <3>2. ASSUME samples[Head(full)] # <<>>
          PROVE  samples[Head(full)][Len(samples[Head(full)])] \in Sample
      BY <3>1, <3>2, EmptySeq, ElementOfSeq
    <3> QED
      BY <3>2 DEF Latest, Sample
  <2>3. Typed'
    BY <1>30, <2>1, <2>2 DEF ReadPop
  <2>4. HasBuffer'
    BY <1>30, <2>1 DEF ReadPop
  <2> QED
    BY <2>3, <2>4
<1>31. ASSUME NEW r \in Readers, ReadEof(r) PROVE TypeInv'
  BY <1>31 DEF ReadEof
<1>32. ASSUME NEW r \in Readers, ReadSleep(r) PROVE TypeInv'
  BY <1>32 DEF ReadSleep
<1>33. ASSUME NEW r \in Readers, ReadReturn(r) PROVE TypeInv'
  <2>1. rpc[r] = "copy" => Append(empty, rbuf[r]) \in Seq(Buffers)
    BY AppendProperties
  <2>2. Typed'
    BY <1>33, <2>1 DEF ReadReturn
  <2>3. HasBuffer'
    BY <1>33 DEF ReadReturn
  <2> QED
    BY <2>2, <2>3
<1>34. ASSUME NEW r \in Readers, ReadCall(r) PROVE TypeInv'
  BY <1>34 DEF ReadCall
<1>35. ASSUME NEW r \in Readers, ReadInterrupted(r) PROVE TypeInv'
  BY <1>35 DEF ReadInterrupted
<1>36. CASE UNCHANGED vars
  BY <1>36
<1> QED
  BY <1>1, <1>2, <1>3, <1>4, <1>5, <1>6, <1>7, <1>8, <1>9, <1>10, <1>11, <1>12, <1>13,
    <1>14, <1>15, <1>16, <1>17, <1>18, <1>19, <1>20, <1>21, <1>22, <1>23, <1>24, <1>25, <1>26,
    <1>27, <1>28, <1>29, <1>30, <1>31, <1>32, <1>33, <1>34, <1>35, <1>36
     DEF Next, Handler, Gather, CrossCall, StatusUpdate, Read

\* Every variable keeps its type and nobody dereferences NULL: the handler has a
\* buffer where it writes to one, my_read where it copies one.
THEOREM Typing == Spec => []TypeInv
<1> QED
  BY TypeInit, TypeStep, PTL DEF Spec
-----------------------------------------------------------------------------
(***************************************************************************)
(* Readers are woken.                                                      *)
(***************************************************************************)

\* Every step keeps the promise to sleeping readers.
LEMMA WakeupStep == TypeInv /\ NoLostWakeup /\ [Next]_vars => NoLostWakeup'
<1> SUFFICES ASSUME TypeInv, NoLostWakeup, [Next]_vars PROVE NoLostWakeup'
  OBVIOUS
<1> USE DEF TypeInv, Typed, NoLostWakeup, vars, poolVars, ctlVars, readVars,
        handlerKeeps, crossKeeps, writerKeeps, readerKeeps
\* Handler steps other than the wake-up do not enter or leave "detach" except by
\* publishing.
<1>1. ASSUME NEW c \in Cpus,
             \/ ArmIrqEntry(c) \/ NmiEntry(c) \/ GatherKeep(c) \/ GatherTake(c)
             \/ GatherMissLoad(c) \/ GatherMissStore(c) \/ GatherWrite(c)
             \/ GatherMore(c) \/ ArmRearm(c) \/ ArmReturn(c) \/ NmiReturn(c)
      PROVE  NoLostWakeup'
  <2>1. UNCHANGED <<full, rpc, shutdown, wpc>>
    BY <1>1 DEF ArmIrqEntry, NmiEntry, GatherKeep, GatherTake, GatherMissLoad,
       GatherMissStore, GatherWrite, GatherMore, ArmRearm, ArmReturn, NmiReturn
  <2>2. irq[c] # "detach"
    BY <1>1 DEF ArmIrqEntry, NmiEntry, GatherKeep, GatherTake, GatherMissLoad,
       GatherMissStore, GatherWrite, GatherMore, ArmRearm, ArmReturn, NmiReturn,
       Deliverable
  <2>3. \A d \in Cpus : d # c => irq'[d] = irq[d]
    BY <1>1 DEF ArmIrqEntry, NmiEntry, GatherKeep, GatherTake, GatherMissLoad,
       GatherMissStore, GatherWrite, GatherMore, ArmRearm, ArmReturn, NmiReturn
  <2> QED
    BY <2>1, <2>2, <2>3
<1>2. ASSUME NEW c \in Cpus, GatherPublish(c) PROVE NoLostWakeup'
  BY <1>2 DEF GatherPublish
<1>3. ASSUME NEW c \in Cpus, GatherDetach(c) PROVE NoLostWakeup'
  BY <1>3 DEF GatherDetach, Woken
<1>4. ASSUME NEW c \in Cpus,
             \/ Overflow(c) \/ ArmIrqSpurious(c) \/ StartClear(c) \/ StartConfig(c)
             \/ \E w \in Writers : StartRecycle(c, w) \/ StopLocal(c, w)
      PROVE  NoLostWakeup'
  <2>1. UNCHANGED <<full, rpc, irq, shutdown, wpc>>
    BY <1>4 DEF Overflow, ArmIrqSpurious, StartClear, StartConfig, StartRecycle,
       StopLocal
  <2> QED
    BY <2>1
\* A writer leaves "wake" only by waking the readers.
<1>5. ASSUME NEW w \in Writers,
             \/ SwitchStart(w) \/ StartRegister(w) \/ StartDone(w) \/ SwitchStop(w)
             \/ StopDeregister(w) \/ SwitchDump(w) \/ SwitchUnknown(w)
             \/ \E code \in Codes : StoreStatus(w, code)
      PROVE  NoLostWakeup'
  <2>1. /\ UNCHANGED <<full, rpc, irq>>
        /\ shutdown' = 2 => shutdown = 2
        /\ wpc[w] # "wake"
        /\ \E l : wpc' = [wpc EXCEPT ![w] = l]
    BY <1>5 DEF SwitchStart, StartRegister, StartDone, SwitchStop, StopDeregister,
       SwitchDump, SwitchUnknown, StoreStatus
  <2> QED
    BY <2>1
<1>6. ASSUME NEW w \in Writers, StopMark(w) PROVE NoLostWakeup'
  BY <1>6 DEF StopMark
<1>7. ASSUME NEW w \in Writers, StopWake(w) PROVE NoLostWakeup'
  BY <1>7 DEF StopWake, Woken
<1>8. ASSUME NEW r \in Readers, ReadPop(r) PROVE NoLostWakeup'
  BY <1>8 DEF ReadPop
<1>9. ASSUME NEW r \in Readers,
             \/ ReadEof(r) \/ ReadSleep(r) \/ ReadReturn(r) \/ ReadCall(r)
             \/ ReadInterrupted(r)
      PROVE  NoLostWakeup'
  BY <1>9 DEF ReadEof, ReadSleep, ReadReturn, ReadCall, ReadInterrupted
<1>10. CASE UNCHANGED vars
  BY <1>10
<1> QED
  BY <1>1, <1>2, <1>3, <1>4, <1>5, <1>6, <1>7, <1>8, <1>9, <1>10
     DEF Next, Handler, Gather, CrossCall, StatusUpdate, Read

\* wake_up_all after a publication and after shutdown = 2 reaches every reader
\* that went to sleep too early, with any number of CPUs, readers and writers.
THEOREM Wakeups == Spec => []NoLostWakeup
<1>1. Init => NoLostWakeup
  BY DEF Init, NoLostWakeup
<1> QED
  BY <1>1, Typing, WakeupStep, PTL DEF Spec
-----------------------------------------------------------------------------
(***************************************************************************)
(* Counting what was missed.                                               *)
(***************************************************************************)

\* The handler between load and store will store at most the number of
\* interrupts that found no buffer, its own included.
MissInv ==
  /\ MissedBounds
  /\ \A c \in Cpus : irq[c] = "miss" => mtmp[c] + 1 <= dropped

\* Loads and stores of any number of CPUs in any order keep the bounds.
LEMMA MissStep == TypeInv /\ MissInv /\ [Next]_vars => MissInv'
<1> SUFFICES ASSUME TypeInv, MissInv, [Next]_vars PROVE MissInv'
  OBVIOUS
<1>0. /\ missed \in Nat /\ dropped \in Nat /\ mtmp \in [Cpus -> Nat]
      /\ DOMAIN irq = Cpus
  BY DEF TypeInv, Typed
<1> USE DEF MissInv, MissedBounds, vars, missVars, handlerKeeps, crossKeeps,
        writerKeeps, readerKeeps
<1>1. ASSUME NEW c \in Cpus, GatherMissLoad(c) PROVE MissInv'
  <2>1. missed' = missed /\ dropped' = dropped + 1
    BY <1>0, <1>1 DEF GatherMissLoad
  <2>2. irq'[c] = "miss" /\ mtmp'[c] = missed
    BY <1>0, <1>1 DEF GatherMissLoad
  <2>3. \A d \in Cpus \ {c} : irq'[d] = irq[d] /\ mtmp'[d] = mtmp[d]
    BY <1>0, <1>1 DEF GatherMissLoad
  <2> QED
    BY <1>0, <2>1, <2>2, <2>3
<1>2. ASSUME NEW c \in Cpus, GatherMissStore(c) PROVE MissInv'
  <2>1. missed' = mtmp[c] + 1 /\ dropped' = dropped /\ mtmp[c] + 1 <= dropped
    BY <1>0, <1>2 DEF GatherMissStore
  <2>2. irq'[c] # "miss"
    BY <1>0, <1>2 DEF GatherMissStore
  <2>3. \A d \in Cpus \ {c} : irq'[d] = irq[d] /\ mtmp'[d] = mtmp[d]
    BY <1>0, <1>2 DEF GatherMissStore
  <2> QED
    BY <1>0, <2>1, <2>2, <2>3
<1>3. ASSUME NEW c \in Cpus,
             \/ ArmIrqEntry(c) \/ NmiEntry(c) \/ GatherKeep(c) \/ GatherTake(c)
             \/ GatherWrite(c) \/ GatherMore(c) \/ GatherPublish(c)
             \/ GatherDetach(c) \/ ArmRearm(c) \/ ArmReturn(c) \/ NmiReturn(c)
      PROVE  MissInv'
  <2>1. /\ UNCHANGED missVars
        /\ irq[c] # "miss"
        /\ irq'[c] # "miss"
        /\ \A d \in Cpus : d # c => irq'[d] = irq[d]
    BY <1>0, <1>3 DEF ArmIrqEntry, NmiEntry, GatherKeep, GatherTake, GatherWrite,
       GatherMore, GatherPublish, GatherDetach, ArmRearm, ArmReturn, NmiReturn,
       Deliverable
  <2> QED
    BY <2>1
<1>4. ASSUME UNCHANGED <<missVars, irq>> PROVE MissInv'
  BY <1>4
<1>5. ASSUME NEW c \in Cpus, Overflow(c) \/ ArmIrqSpurious(c) \/ CrossCall(c)
      PROVE  UNCHANGED <<missVars, irq>>
  BY <1>5 DEF Overflow, ArmIrqSpurious, CrossCall, StartRecycle, StartClear,
     StartConfig, StopLocal
<1>6. ASSUME NEW w \in Writers,
             StatusUpdate(w) \/ \E code \in Codes : StoreStatus(w, code)
      PROVE  UNCHANGED <<missVars, irq>>
  BY <1>6 DEF StatusUpdate, SwitchStart, StartRegister, StartDone, SwitchStop,
     StopDeregister, StopMark, StopWake, SwitchDump, SwitchUnknown, StoreStatus
<1>7. ASSUME NEW r \in Readers, Read(r) \/ ReadCall(r) \/ ReadInterrupted(r)
      PROVE  UNCHANGED <<missVars, irq>>
  BY <1>7 DEF Read, ReadPop, ReadEof, ReadSleep, ReadReturn, ReadCall,
     ReadInterrupted
<1>8. CASE UNCHANGED vars
  BY <1>4, <1>8
<1> QED
  BY <1>1, <1>2, <1>3, <1>4, <1>5, <1>6, <1>7, <1>8 DEF Next, Handler, Gather

\* However many CPUs race on missed_attr.value, it counts no interrupt that got a
\* buffer, and once one was dropped and the store is done it is not zero.
THEOREM MissCounting == Spec => []MissedBounds
<1>1. Init => MissInv
  BY DEF Init, MissInv, MissedBounds
<1>2. MissInv => MissedBounds
  BY DEF MissInv
<1> QED
  BY <1>1, <1>2, Typing, MissStep, PTL DEF Spec
-----------------------------------------------------------------------------
(***************************************************************************)
(* One process writes to status.                                           *)
(***************************************************************************)

\* Where the writer is tells the value of shutdown, and startCtrs runs on a CPU only
\* while the writer waits for that CPU.
Phase ==
  /\ \A w \in Writers :
       /\ wpc[w] \in {"idle", "switch"} => shutdown \in {0, 2}
       /\ wpc[w] \in {"register", "starting"} => shutdown = 0
       /\ wpc[w] \in {"stopping", "mark"} => shutdown = 1
       /\ wpc[w] = "wake" => shutdown = 2
  /\ \A c \in Cpus : ipc[c] # "none" =>
       ipi[c] \in Writers /\ wpc[ipi[c]] = "starting" /\ c \in todo[ipi[c]]

\* stopCtrsLocal has run on c since shutdown was set to 1.
Stopped(c) ==
  \/ shutdown = 2
  \/ \E w \in Writers : wpc[w] = "mark" \/ (wpc[w] = "stopping" /\ c \notin todo[w])

\* A stopped CPU stays stopped, whatever handler was under way.
Quiet == \A c \in Cpus : Stopped(c) => ~enabled[c]

\* On Intel a counter that was never written cannot have caused anything, and the
\* handler has no second look at shutdown.
Untouched ==
  \A c \in Cpus :
    /\ ccnt[c] = "off" => ~enabled[c] /\ ~pend[c] /\ irq[c] = "idle"
    /\ irq[c] # "return"

\* startCtrs has run on c since the last stop.
Started(c) ==
  \E w \in Writers :
    \/ wpc[w] \in {"idle", "switch"} /\ shutdown = 0 /\ ccnt[c] # "off"
    \/ wpc[w] = "starting" /\ c \notin todo[w]

\* On Intel a started CPU counts.
Counting == \A c \in Cpus : Started(c) => enabled[c]

\* The writer is about to run startCtrs on c.
ToStart(c) ==
  \E w \in Writers :
    \/ wpc[w] = "switch" /\ status = 1
    \/ wpc[w] = "register"
    \/ wpc[w] = "starting" /\ c \in todo[w]

\* A sampler that is only started when it is stopped starts CPUs that do not count.
StartsQuiet == \A c \in Cpus : ToStart(c) => ~enabled[c]

\* No interrupt comes while startCtrs runs on a CPU.
NoNmi == \A c \in Cpus : ipc[c] # "none" => irq[c] = "idle" /\ ~enabled[c] /\ ~pend[c]

\* At most one process writes to status.
OneWriter == \A v, w \in Writers : v = w

\* Every step agrees with where the writer is.
LEMMA PhaseStep ==
  ASSUME OneWriter, TypeInv, Phase, [Next]_vars
  PROVE  Phase'
<1> USE DEF Phase, TypeInv, Typed, vars, ctlVars, ipiVars, handlerKeeps, crossKeeps,
        writerKeeps, readerKeeps
<1>1. ASSUME UNCHANGED <<wpc, shutdown, ipi, ipc, todo>> PROVE Phase'
  BY <1>1
<1>2. ASSUME NEW c \in Cpus, Overflow(c) \/ Handler(c)
      PROVE  UNCHANGED <<wpc, shutdown, ipi, ipc, todo>>
  BY <1>2 DEF Overflow, Handler, Gather, ArmIrqEntry, ArmIrqSpurious, NmiEntry, GatherKeep,
     GatherTake, GatherMissLoad, GatherMissStore, GatherWrite, GatherMore, GatherPublish,
     GatherDetach, ArmRearm, ArmReturn, NmiReturn
<1>3. ASSUME NEW r \in Readers, Read(r) \/ ReadCall(r) \/ ReadInterrupted(r)
      PROVE  UNCHANGED <<wpc, shutdown, ipi, ipc, todo>>
  BY <1>3 DEF Read, ReadPop, ReadEof, ReadSleep, ReadReturn, ReadCall, ReadInterrupted
<1>4. ASSUME NEW c \in Cpus, NEW w \in Writers, StartRecycle(c, w) PROVE Phase'
  BY <1>4 DEF StartRecycle
<1>5. ASSUME NEW c \in Cpus, StartClear(c) PROVE Phase'
  BY <1>5 DEF StartClear
<1>6. ASSUME NEW c \in Cpus, StartConfig(c) PROVE Phase'
  <2>1. /\ ipi[c] \in Writers /\ UNCHANGED <<wpc, shutdown>> /\ ipc'[c] = "none"
        /\ \A d \in Cpus \ {c} : ipc'[d] = ipc[d] /\ ipi'[d] = ipi[d]
        /\ \A w \in Writers, d \in Cpus \ {c} : d \in todo[w] => d \in todo'[w]
    BY <1>6 DEF StartConfig
  <2> QED
    BY <2>1
<1>7. ASSUME NEW c \in Cpus, NEW w \in Writers, StopLocal(c, w) PROVE Phase'
  <2>1. /\ UNCHANGED <<wpc, shutdown, ipi, ipc>> /\ wpc[w] = "stopping"
        /\ \A v \in Writers \ {w} : todo'[v] = todo[v]
    BY <1>7 DEF StopLocal
  <2> QED
    BY <2>1
<1>8. ASSUME NEW w \in Writers, StatusUpdate(w) \/ \E code \in Codes : StoreStatus(w, code)
      PROVE  Phase'
  <2>1. \A v \in Writers : v = w
    BY DEF OneWriter
  <2>2. UNCHANGED <<ipi, ipc>>
    BY <1>8 DEF StatusUpdate, SwitchStart, StartRegister, StartDone, SwitchStop,
       StopDeregister, StopMark, StopWake, SwitchDump, SwitchUnknown, StoreStatus
  <2>3. /\ wpc'[w] \in {"idle", "switch"} => shutdown' \in {0, 2}
        /\ wpc'[w] \in {"register", "starting"} => shutdown' = 0
        /\ wpc'[w] \in {"stopping", "mark"} => shutdown' = 1
        /\ wpc'[w] = "wake" => shutdown' = 2
    BY <1>8 DEF StatusUpdate, SwitchStart, StartRegister, StartDone, SwitchStop,
       StopDeregister, StopMark, StopWake, SwitchDump, SwitchUnknown, StoreStatus
  <2>4. ASSUME NEW c \in Cpus, ipc[c] # "none"
        PROVE  wpc'[w] = "starting" /\ c \in todo'[w]
    <3>1. wpc[w] = "starting" /\ c \in todo[w]
      BY <2>1, <2>4
    <3> QED
      BY <1>8, <3>1 DEF StatusUpdate, SwitchStart, StartRegister, StartDone, SwitchStop,
         StopDeregister, StopMark, StopWake, SwitchDump, SwitchUnknown, StoreStatus
  <2> QED
    BY <2>1, <2>2, <2>3, <2>4
<1>9. CASE UNCHANGED vars
  BY <1>1, <1>9
<1> QED
  BY <1>1, <1>2, <1>3, <1>4, <1>5, <1>6, <1>7, <1>8, <1>9 DEF Next, CrossCall

\* After shutdown = 1 only stopCtrsLocal and the end of the handler write the enable bit,
\* and both clear it.
LEMMA QuietStep ==
  ASSUME OneWriter, TypeInv, Phase, Quiet, [Next]_vars
  PROVE  Quiet'
<1> USE DEF TypeInv, Typed, vars, pmuVars, ctlVars, ipiVars, handlerKeeps, crossKeeps,
        writerKeeps, readerKeeps
<1>1. ASSUME UNCHANGED <<wpc, shutdown, todo>>,
             \A c \in Cpus : Stopped(c) /\ enabled'[c] => enabled[c]
      PROVE  Quiet'
  BY <1>1 DEF Quiet, Stopped
<1>2. \A c \in Cpus : Stopped(c) => shutdown # 0
  BY DEF Stopped, Phase
<1>3. ASSUME NEW c \in Cpus, Overflow(c) \/ Handler(c) PROVE Quiet'
  <2>1. /\ UNCHANGED <<wpc, shutdown, todo>>
        /\ enabled'[c] => enabled[c] \/ shutdown = 0
        /\ \A d \in Cpus \ {c} : enabled'[d] = enabled[d]
    BY <1>3 DEF Overflow, Handler, Gather, ArmIrqEntry, ArmIrqSpurious, NmiEntry, GatherKeep,
       GatherTake, GatherMissLoad, GatherMissStore, GatherWrite, GatherMore, GatherPublish,
       GatherDetach, ArmRearm, ArmReturn, NmiReturn
  <2> QED
    BY <1>1, <1>2, <2>1
<1>4. ASSUME NEW c \in Cpus, StartConfig(c) PROVE Quiet'
  <2>1. shutdown = 0 /\ shutdown' = 0 /\ wpc' = wpc
        /\ \A w \in Writers : wpc[w] = "starting"
    BY <1>4 DEF StartConfig, Phase, OneWriter
  <2> QED
    BY <2>1 DEF Quiet, Stopped
<1>5. ASSUME NEW c \in Cpus, NEW w \in Writers, StopLocal(c, w) PROVE Quiet'
  <2>1. /\ UNCHANGED <<wpc, shutdown>> /\ ~enabled'[c]
        /\ \A d \in Cpus \ {c} : enabled'[d] = enabled[d]
        /\ \A v \in Writers, d \in Cpus \ {c} : d \in todo[v] => d \in todo'[v]
    BY <1>5 DEF StopLocal
  <2>2. \A d \in Cpus \ {c} : Stopped(d)' => Stopped(d)
    BY <2>1 DEF Stopped
  <2> QED
    BY <2>1, <2>2 DEF Quiet
<1>6. ASSUME NEW c \in Cpus, StartClear(c) \/ \E w \in Writers : StartRecycle(c, w)
      PROVE  UNCHANGED <<wpc, shutdown, todo, enabled>>
  BY <1>6 DEF StartClear, StartRecycle
<1>7. ASSUME NEW w \in Writers, StatusUpdate(w) \/ \E code \in Codes : StoreStatus(w, code)
      PROVE  Quiet'
  <2>1. \A v \in Writers : v = w
    BY DEF OneWriter
  <2>2. enabled' = enabled
    BY <1>7 DEF StatusUpdate, SwitchStart, StartRegister, StartDone, SwitchStop,
       StopDeregister, StopMark, StopWake, SwitchDump, SwitchUnknown, StoreStatus
  <2>3. ASSUME NEW c \in Cpus,
               shutdown' = 2 \/ wpc'[w] = "mark" \/ (wpc'[w] = "stopping" /\ c \notin todo'[w])
        PROVE  shutdown = 2 \/ wpc[w] = "mark" \/ (wpc[w] = "stopping" /\ c \notin todo[w])
    BY <1>7, <2>3 DEF Phase, StatusUpdate, SwitchStart, StartRegister, StartDone, SwitchStop,
       StopDeregister, StopMark, StopWake, SwitchDump, SwitchUnknown, StoreStatus
  <2> QED
    BY <2>1, <2>2, <2>3 DEF Quiet, Stopped
<1>8. ASSUME NEW r \in Readers, Read(r) \/ ReadCall(r) \/ ReadInterrupted(r)
      PROVE  UNCHANGED <<wpc, shutdown, todo, enabled>>
  BY <1>8 DEF Read, ReadPop, ReadEof, ReadSleep, ReadReturn, ReadCall, ReadInterrupted
<1>9. CASE UNCHANGED vars
  BY <1>1, <1>9
<1> QED
  BY <1>1, <1>3, <1>4, <1>5, <1>6, <1>7, <1>8, <1>9 DEF Next, CrossCall

\* With one writer, no PMU counts when stopAll has returned, on either architecture:
\* a handler that was under way does not start it again.
THEOREM QuietWhenStopped == ASSUME OneWriter PROVE Spec => []StoppedIsQuiet
<1>1. Init => Phase /\ Quiet
  BY DEF Init, Phase, Quiet, Stopped
<1>2. Quiet => StoppedIsQuiet
  BY DEF Quiet, Stopped, StoppedIsQuiet
<1> QED
  BY <1>1, <1>2, PhaseStep, QuietStep, Typing, PTL DEF Spec
-----------------------------------------------------------------------------
(***************************************************************************)
(* Intel with one writer.                                                  *)
(***************************************************************************)

\* gatherSample moves its CPU's handler on and leaves the PMUs alone.
LEMMA GatherFrame ==
  ASSUME TypeInv, NEW c \in Cpus, Gather(c)
  PROVE  /\ irq[c] \notin {"idle", "return"} /\ irq'[c] \notin {"idle", "return"}
         /\ UNCHANGED <<ccnt, enabled, pend, ctlVars, ipiVars, wpc>>
         /\ \A d \in Cpus \ {c} : irq'[d] = irq[d]
<1>1. irq \in [Cpus -> {"idle", "gather", "write", "check", "detach", "miss", "rearm", "return"}]
  BY DEF TypeInv, Typed
<1> QED
  BY <1>1 DEF Gather, GatherKeep, GatherTake, GatherMissLoad, GatherMissStore, GatherWrite,
     GatherMore, GatherPublish, GatherDetach, pmuVars, handlerKeeps

\* Only startCtrsLocal sets the enable bit on Intel, and only the handler of a counter
\* that was written rewrites it.
LEMMA UntouchedStep ==
  ASSUME Nmi, TypeInv, Untouched, [Next]_vars
  PROVE  Untouched'
<1> USE DEF Untouched, TypeInv, Typed, vars, pmuVars, ctlVars, ipiVars, handlerKeeps,
        crossKeeps, writerKeeps, readerKeeps
<1>1. ASSUME UNCHANGED <<ccnt, enabled, pend, irq>> PROVE Untouched'
  BY <1>1
<1>2. ASSUME NEW c \in Cpus, Overflow(c) PROVE Untouched'
  BY <1>2 DEF Overflow
<1>3. ASSUME NEW c \in Cpus, Handler(c) PROVE Untouched'
  <2>1. /\ ccnt[c] # "off" /\ ccnt'[c] # "off" /\ irq'[c] # "return"
        /\ \A d \in Cpus \ {c} :
             /\ ccnt'[d] = ccnt[d] /\ enabled'[d] = enabled[d]
             /\ pend'[d] = pend[d] /\ irq'[d] = irq[d]
    <3>1. CASE NmiEntry(c)
      BY <3>1 DEF NmiEntry, Deliverable
    <3>2. CASE Gather(c)
      BY <3>2, GatherFrame
    <3>3. CASE ArmRearm(c) \/ NmiReturn(c)
      BY <3>3 DEF ArmRearm, NmiReturn
    <3> QED
      BY <1>3, <3>1, <3>2, <3>3 DEF Handler, ArmIrqEntry, ArmIrqSpurious, ArmReturn
  <2> QED
    BY <2>1
<1>4. ASSUME NEW c \in Cpus, StartConfig(c) PROVE Untouched'
  BY <1>4 DEF StartConfig
<1>5. ASSUME NEW c \in Cpus, NEW w \in Writers, StopLocal(c, w) PROVE Untouched'
  BY <1>5 DEF StopLocal
<1>6. ASSUME NEW c \in Cpus, StartClear(c) \/ \E w \in Writers : StartRecycle(c, w)
      PROVE  UNCHANGED <<ccnt, enabled, pend, irq>>
  BY <1>6 DEF StartClear, StartRecycle
<1>7. ASSUME NEW w \in Writers, StatusUpdate(w) \/ \E code \in Codes : StoreStatus(w, code)
      PROVE  UNCHANGED <<ccnt, enabled, pend, irq>>
  BY <1>7 DEF StatusUpdate, SwitchStart, StartRegister, StartDone, SwitchStop,
     StopDeregister, StopMark, StopWake, SwitchDump, SwitchUnknown, StoreStatus
<1>8. ASSUME NEW r \in Readers, Read(r) \/ ReadCall(r) \/ ReadInterrupted(r)
      PROVE  UNCHANGED <<ccnt, enabled, pend, irq>>
  BY <1>8 DEF Read, ReadPop, ReadEof, ReadSleep, ReadReturn, ReadCall, ReadInterrupted
<1>9. CASE UNCHANGED vars
  BY <1>1, <1>9
<1> QED
  BY <1>1, <1>2, <1>3, <1>4, <1>5, <1>6, <1>7, <1>8, <1>9 DEF Next, CrossCall

\* What the handler and the counter do on Intel while shutdown is 0 or the CPU is stopped.
LEMMA NmiKeeps ==
  ASSUME Nmi, TypeInv, Untouched, NEW c \in Cpus, Overflow(c) \/ Handler(c)
  PROVE  /\ UNCHANGED <<wpc, shutdown, status, todo, ipc>>
         /\ ccnt'[c] # "off" <=> ccnt[c] # "off"
         /\ enabled'[c] => enabled[c]
         /\ shutdown = 0 => enabled'[c] = enabled[c]
         /\ irq[c] = "idle" /\ ~enabled[c] /\ ~pend[c]
            => irq'[c] = "idle" /\ ~enabled'[c] /\ ~pend'[c]
         /\ \A d \in Cpus \ {c} :
              /\ ccnt'[d] = ccnt[d] /\ enabled'[d] = enabled[d]
              /\ pend'[d] = pend[d] /\ irq'[d] = irq[d]
<1> USE DEF Untouched, TypeInv, Typed, pmuVars, ctlVars, ipiVars, handlerKeeps
<1>1. CASE Overflow(c)
  BY <1>1 DEF Overflow
<1>2. CASE NmiEntry(c)
  BY <1>2 DEF NmiEntry, Deliverable
<1>3. CASE Gather(c)
  BY <1>3, GatherFrame
<1>4. CASE ArmRearm(c) \/ NmiReturn(c)
  BY <1>4 DEF ArmRearm, NmiReturn
<1> QED
  BY <1>1, <1>2, <1>3, <1>4 DEF Handler, ArmIrqEntry, ArmIrqSpurious, ArmReturn

\* Nothing but a stop clears the enable bit of a started CPU.
LEMMA CountingStep ==
  ASSUME Nmi, OneWriter, TypeInv, Phase, Untouched, Counting, [Next]_vars
  PROVE  Counting'
<1> USE DEF TypeInv, Typed, vars, pmuVars, ctlVars, ipiVars, handlerKeeps, crossKeeps,
        writerKeeps, readerKeeps
<1>1. ASSUME UNCHANGED <<wpc, shutdown, todo, ccnt, enabled>> PROVE Counting'
  BY <1>1 DEF Counting, Started
<1>2. ASSUME NEW c \in Cpus, Overflow(c) \/ Handler(c) PROVE Counting'
  <2>1. /\ UNCHANGED <<wpc, shutdown, todo>>
        /\ \A d \in Cpus : ccnt'[d] # "off" <=> ccnt[d] # "off"
        /\ shutdown = 0 => \A d \in Cpus : enabled'[d] = enabled[d]
    BY <1>2, NmiKeeps
  <2>2. \A d \in Cpus : Started(d)' <=> Started(d)
    BY <2>1 DEF Started
  <2>3. \A d \in Cpus : Started(d) => shutdown = 0
    BY DEF Started, Phase
  <2> QED
    BY <2>1, <2>2, <2>3 DEF Counting
<1>3. ASSUME NEW c \in Cpus, StartConfig(c) PROVE Counting'
  <2>1. /\ wpc' = wpc /\ enabled'[c]
        /\ \A w \in Writers : wpc[w] = "starting"
        /\ \A d \in Cpus \ {c} : enabled'[d] = enabled[d]
        /\ \A w \in Writers, d \in Cpus \ {c} : d \in todo[w] => d \in todo'[w]
    BY <1>3 DEF StartConfig, Phase, OneWriter
  <2> QED
    BY <2>1 DEF Counting, Started
<1>4. ASSUME NEW c \in Cpus, NEW w \in Writers, StopLocal(c, w) PROVE Counting'
  <2>1. wpc' = wpc /\ \A v \in Writers : wpc[v] = "stopping"
    BY <1>4 DEF StopLocal, OneWriter
  <2> QED
    BY <2>1 DEF Counting, Started
<1>5. ASSUME NEW c \in Cpus, StartClear(c) \/ \E w \in Writers : StartRecycle(c, w)
      PROVE  UNCHANGED <<wpc, shutdown, todo, ccnt, enabled>>
  BY <1>5 DEF StartClear, StartRecycle
<1>6. ASSUME NEW w \in Writers, StatusUpdate(w) \/ \E code \in Codes : StoreStatus(w, code)
      PROVE  Counting'
  <2>1. \A v \in Writers : v = w
    BY DEF OneWriter
  <2>2. UNCHANGED <<enabled, ccnt>>
    BY <1>6 DEF StatusUpdate, SwitchStart, StartRegister, StartDone, SwitchStop,
       StopDeregister, StopMark, StopWake, SwitchDump, SwitchUnknown, StoreStatus
  <2>3. ASSUME NEW c \in Cpus,
               \/ wpc'[w] \in {"idle", "switch"} /\ shutdown' = 0 /\ ccnt[c] # "off"
               \/ wpc'[w] = "starting" /\ c \notin todo'[w]
        PROVE  \/ wpc[w] \in {"idle", "switch"} /\ shutdown = 0 /\ ccnt[c] # "off"
               \/ wpc[w] = "starting" /\ c \notin todo[w]
    BY <1>6, <2>3 DEF Phase, StatusUpdate, SwitchStart, StartRegister, StartDone, SwitchStop,
       StopDeregister, StopMark, StopWake, SwitchDump, SwitchUnknown, StoreStatus
  <2> QED
    BY <2>1, <2>2, <2>3 DEF Counting, Started
<1>7. ASSUME NEW r \in Readers, Read(r) \/ ReadCall(r) \/ ReadInterrupted(r)
      PROVE  UNCHANGED <<wpc, shutdown, todo, ccnt, enabled>>
  BY <1>7 DEF Read, ReadPop, ReadEof, ReadSleep, ReadReturn, ReadCall, ReadInterrupted
<1>8. CASE UNCHANGED vars
  BY <1>1, <1>8
<1> QED
  BY <1>1, <1>2, <1>3, <1>4, <1>5, <1>6, <1>7, <1>8 DEF Next, CrossCall

\* On Intel with one writer a CPU that was started keeps counting until sampling is
\* stopped, also when it is started twice; on ARM a stale interrupt can stop it.
THEOREM KeepsCounting ==
  ASSUME Nmi, OneWriter, Writers # {} PROVE Spec => []KeepsSampling
<1>1. Init => Phase /\ Untouched /\ Counting
  BY DEF Init, Phase, Untouched, Counting, Started
<1>2. Counting => KeepsSampling
  BY DEF Counting, Started, KeepsSampling, NoWriter
<1> QED
  BY <1>1, <1>2, PhaseStep, UntouchedStep, CountingStep, Typing, PTL DEF Spec

\* Nothing enables a PMU between the decision to start a stopped sampler and startCtrs.
LEMMA StartsQuietStep ==
  ASSUME Nmi, ~Restart, OneWriter, TypeInv, Phase, Quiet, Untouched, StartsQuiet, [Next]_vars
  PROVE  StartsQuiet'
<1> USE DEF TypeInv, Typed, vars, pmuVars, ctlVars, ipiVars, handlerKeeps, crossKeeps,
        writerKeeps, readerKeeps
<1>1. ASSUME UNCHANGED <<wpc, status, todo>>,
             \A c \in Cpus : ToStart(c) /\ enabled'[c] => enabled[c]
      PROVE  StartsQuiet'
  BY <1>1 DEF StartsQuiet, ToStart
<1>2. ASSUME NEW c \in Cpus, Overflow(c) \/ Handler(c) PROVE StartsQuiet'
  <2>1. UNCHANGED <<wpc, status, todo>> /\ \A d \in Cpus : enabled'[d] => enabled[d]
    BY <1>2, NmiKeeps
  <2> QED
    BY <1>1, <2>1
<1>3. ASSUME NEW c \in Cpus, StartConfig(c) PROVE StartsQuiet'
  <2>1. PICK w \in Writers : w = ipi[c] /\ wpc[w] = "starting" /\ \A v \in Writers : v = w
    BY <1>3 DEF StartConfig, Phase, OneWriter
  <2>2. /\ UNCHANGED <<wpc, status>> /\ todo' = [todo EXCEPT ![w] = @ \ {c}]
        /\ \A d \in Cpus \ {c} : enabled'[d] = enabled[d]
    BY <1>3, <2>1 DEF StartConfig
  <2>3. \A d \in Cpus : ToStart(d)' => d # c /\ ToStart(d)
    BY <2>1, <2>2 DEF ToStart
  <2> QED
    BY <2>2, <2>3 DEF StartsQuiet
<1>4. ASSUME NEW c \in Cpus, NEW w \in Writers, StopLocal(c, w) PROVE StartsQuiet'
  <2>1. wpc' = wpc /\ \A v \in Writers : wpc[v] = "stopping"
    BY <1>4 DEF StopLocal, OneWriter
  <2> QED
    BY <2>1 DEF StartsQuiet, ToStart
<1>5. ASSUME NEW c \in Cpus, StartClear(c) \/ \E w \in Writers : StartRecycle(c, w)
      PROVE  UNCHANGED <<wpc, status, todo, enabled>>
  BY <1>5 DEF StartClear, StartRecycle
<1>6. ASSUME NEW w \in Writers, StatusUpdate(w) PROVE StartsQuiet'
  <2>1. \A v \in Writers : v = w
    BY DEF OneWriter
  <2>2. enabled' = enabled
    BY <1>6 DEF StatusUpdate, SwitchStart, StartRegister, StartDone, SwitchStop,
       StopDeregister, StopMark, StopWake, SwitchDump, SwitchUnknown
  <2>3. ASSUME NEW c \in Cpus,
               \/ wpc'[w] = "switch" /\ status' = 1
               \/ wpc'[w] = "register"
               \/ wpc'[w] = "starting" /\ c \in todo'[w]
        PROVE  \/ wpc[w] = "switch" /\ status = 1
               \/ wpc[w] = "register"
               \/ wpc[w] = "starting" /\ c \in todo[w]
    BY <1>6, <2>3 DEF StatusUpdate, SwitchStart, StartRegister, StartDone, SwitchStop,
       StopDeregister, StopMark, StopWake, SwitchDump, SwitchUnknown
  <2> QED
    BY <2>1, <2>2, <2>3 DEF StartsQuiet, ToStart
\* Status may be set to 1 only when every PMU is quiet.
<1>7. ASSUME NEW w \in Writers, NEW code \in Codes, StoreStatus(w, code) PROVE StartsQuiet'
  <2>1. /\ UNCHANGED <<enabled, shutdown, ccnt>> /\ status' = code
        /\ wpc'[w] = "switch" /\ \A v \in Writers : v = w
        /\ code = 1 => shutdown = 2 \/ ccnt = [c \in Cpus |-> "off"]
    BY <1>7 DEF StoreStatus, OneWriter
  <2>2. code = 1 => \A c \in Cpus : ~enabled[c]
    BY <2>1 DEF Quiet, Stopped, Untouched
  <2> QED
    BY <2>1, <2>2 DEF StartsQuiet, ToStart
<1>8. ASSUME NEW r \in Readers, Read(r) \/ ReadCall(r) \/ ReadInterrupted(r)
      PROVE  UNCHANGED <<wpc, status, todo, enabled>>
  BY <1>8 DEF Read, ReadPop, ReadEof, ReadSleep, ReadReturn, ReadCall, ReadInterrupted
<1>9. CASE UNCHANGED vars
  BY <1>1, <1>9
<1> QED
  BY <1>1, <1>2, <1>3, <1>4, <1>5, <1>6, <1>7, <1>8, <1>9 DEF Next, CrossCall

\* So no NMI can come while startCtrs runs.
LEMMA NoNmiStep ==
  ASSUME Nmi, OneWriter, TypeInv, Phase, Untouched, StartsQuiet, NoNmi, [Next]_vars
  PROVE  NoNmi'
<1> USE DEF TypeInv, Typed, vars, pmuVars, ctlVars, ipiVars, handlerKeeps, crossKeeps,
        writerKeeps, readerKeeps
<1>1. ASSUME UNCHANGED <<ipc, irq, enabled, pend>> PROVE NoNmi'
  BY <1>1 DEF NoNmi
<1>2. ASSUME NEW c \in Cpus, Overflow(c) \/ Handler(c) PROVE NoNmi'
  BY <1>2, NmiKeeps DEF NoNmi
<1>3. ASSUME NEW c \in Cpus, NEW w \in Writers, StartRecycle(c, w) PROVE NoNmi'
  <2>1. ~enabled[c]
    BY <1>3 DEF StartRecycle, StartsQuiet, ToStart
  <2> QED
    BY <1>3, <2>1 DEF StartRecycle, Runs, NoNmi
<1>4. ASSUME NEW c \in Cpus, StartClear(c) PROVE NoNmi'
  BY <1>4 DEF StartClear, NoNmi
<1>5. ASSUME NEW c \in Cpus, StartConfig(c) PROVE NoNmi'
  BY <1>5 DEF StartConfig, NoNmi
<1>6. ASSUME NEW c \in Cpus, NEW w \in Writers, StopLocal(c, w) PROVE NoNmi'
  BY <1>6 DEF StopLocal, NoNmi
<1>7. ASSUME NEW w \in Writers, StatusUpdate(w) \/ \E code \in Codes : StoreStatus(w, code)
      PROVE  UNCHANGED <<ipc, irq, enabled, pend>>
  BY <1>7 DEF StatusUpdate, SwitchStart, StartRegister, StartDone, SwitchStop,
     StopDeregister, StopMark, StopWake, SwitchDump, SwitchUnknown, StoreStatus
<1>8. ASSUME NEW r \in Readers, Read(r) \/ ReadCall(r) \/ ReadInterrupted(r)
      PROVE  UNCHANGED <<ipc, irq, enabled, pend>>
  BY <1>8 DEF Read, ReadPop, ReadEof, ReadSleep, ReadReturn, ReadCall, ReadInterrupted
<1>9. CASE UNCHANGED vars
  BY <1>1, <1>9
<1> QED
  BY <1>1, <1>2, <1>3, <1>4, <1>5, <1>6, <1>7, <1>8, <1>9 DEF Next, CrossCall

(***************************************************************************)
(* Ownership.                                                              *)
(***************************************************************************)

\* A CPU is not in its interrupt handler while it runs a function of on_each_cpu:
\* the IRQ is masked there.  This is what Intel's NMI does not give.
Masked == \A c \in Cpus : irq[c] # "idle" => ipc[c] = "none"

\* The buffer CPU c records into.
Holds(c) == IF Uses(c) THEN lbuffer[c] ELSE NULL

\* OneOwner and NoneLost, buffer by buffer.
Pool ==
  /\ IsInjective(empty) /\ IsInjective(full)
  /\ ToSet(empty) \cap ToSet(full) = {}
  /\ \A c \in Cpus : Holds(c) \notin ToSet(empty) \cup ToSet(full)
  /\ \A r \in Readers : rbuf[r] \notin ToSet(empty) \cup ToSet(full)
  /\ \A c \in Cpus, r \in Readers : Holds(c) = rbuf[r] => Holds(c) = NULL
  /\ \A c, d \in Cpus : Holds(c) = Holds(d) /\ Holds(c) # NULL => c = d
  /\ \A q, r \in Readers : rbuf[q] = rbuf[r] /\ rbuf[q] # NULL => q = r
  /\ \A b \in Buffers : \/ b \in ToSet(empty) \cup ToSet(full)
                        \/ \E c \in Cpus : Holds(c) = b
                        \/ \E r \in Readers : rbuf[r] = b

\* The lists hold buffers only.
LEMMA ListElements ==
  ASSUME TypeInv
  PROVE  ToSet(empty) \subseteq Buffers /\ ToSet(full) \subseteq Buffers
  BY LenProperties, ElementOfSeq DEF TypeInv, Typed, ToSet

\* The last conjunct of Pool by itself.
LEMMA NoBufferLost ==
  ASSUME Pool
  PROVE  \A b \in Buffers : \/ b \in ToSet(empty) \cup ToSet(full)
                            \/ \E c \in Cpus : Holds(c) = b
                            \/ \E r \in Readers : rbuf[r] = b
  BY DEF Pool

\* Pool says buffer by buffer what OneOwner and NoneLost say of sets.
LEMMA PoolIsOwnership ==
  ASSUME TypeInv, Pool
  PROVE  OneOwner /\ NoneLost
<1> USE DEF TypeInv, Typed, HasBuffer
<1>1. \A x : x \in Held <=> \E c \in Cpus : Holds(c) = x /\ x # NULL
  BY DEF Held, Holds, Uses
<1>2. \A x : x \in BeingRead <=> \E r \in Readers : rbuf[r] = x /\ x # NULL
  BY DEF BeingRead
<1>3. ToSet(empty) \subseteq Buffers /\ ToSet(full) \subseteq Buffers /\ NULL \notin Buffers
  BY ListElements, PmuSamplerAssumption
<1>4. Held \subseteq Buffers /\ BeingRead \subseteq Buffers
  BY <1>1, <1>2 DEF Holds, Uses
<1>5. OneOwner
  <2>1. (Held \cup BeingRead) \cap (ToSet(empty) \cup ToSet(full)) = {}
    BY <1>1, <1>2 DEF Pool
  <2>2. Held \cap BeingRead = {}
    BY <1>1, <1>2 DEF Pool
  <2>3. \A c, d \in Cpus : Uses(c) /\ Uses(d) /\ lbuffer[c] = lbuffer[d] => c = d
    BY DEF Pool, Holds, Uses
  <2>4. \A q, r \in Readers :
          rpc[q] = "copy" /\ rpc[r] = "copy" /\ rbuf[q] = rbuf[r] => q = r
    BY DEF Pool
  <2> QED
    BY <2>1, <2>2, <2>3, <2>4 DEF OneOwner, Pool
<1>6. NoneLost
  <2>1. ToSet(empty) \cup ToSet(full) \cup Held \cup BeingRead \subseteq Buffers
    BY <1>3, <1>4
  <2>2. ASSUME NEW b \in Buffers
        PROVE  b \in ToSet(empty) \cup ToSet(full) \cup Held \cup BeingRead
    BY NoBufferLost, <1>1, <1>2, <1>3, <2>2
  <2> QED
    BY <2>1, <2>2 DEF NoneLost
<1> QED
  BY <1>5, <1>6

\* init_module leaves every buffer in empty_buffers and no CPU in startCtrs.
LEMMA PoolInit == Init => Masked /\ Pool
<1> SUFFICES ASSUME Init PROVE Masked /\ Pool
  OBVIOUS
<1>1. ToSet(full) = {} /\ IsInjective(full)
  <2>1. full = <<>> /\ DOMAIN <<>> = {}
    BY DEF Init
  <2> QED
    BY <2>1 DEF ToSet, IsInjective
<1>2. \A c \in Cpus : Holds(c) = NULL
  BY DEF Init, Holds, Uses
<1> QED
  BY <1>1, <1>2, PmuSamplerAssumption DEF Init, Masked, Pool

\* on_each_cpu runs its function with the IRQ off, and waits for the end of a handler.
LEMMA ArmMaskedStep ==
  ASSUME ~Nmi, TypeInv, Masked, [Next]_vars
  PROVE  Masked'
<1> USE DEF TypeInv, Typed, Masked, vars, ipiVars, handlerKeeps, crossKeeps,
        writerKeeps, readerKeeps
<1>1. ASSUME NEW c \in Cpus, Handler(c) PROVE Masked'
  <2>1. /\ UNCHANGED ipc
        /\ \A d \in Cpus : d # c => irq'[d] = irq[d]
    BY <1>1 DEF Handler, Gather, ArmIrqEntry, ArmIrqSpurious, NmiEntry, GatherKeep,
       GatherTake, GatherMissLoad, GatherMissStore, GatherWrite, GatherMore,
       GatherPublish, GatherDetach, ArmRearm, ArmReturn, NmiReturn
  <2>2. ipc[c] = "none" \/ irq'[c] = "idle"
    BY <1>1 DEF Handler, Gather, ArmIrqEntry, ArmIrqSpurious, NmiEntry, GatherKeep,
       GatherTake, GatherMissLoad, GatherMissStore, GatherWrite, GatherMore,
       GatherPublish, GatherDetach, ArmRearm, ArmReturn, NmiReturn, Deliverable
  <2> QED
    BY <2>1, <2>2
<1>2. ASSUME NEW c \in Cpus, CrossCall(c) PROVE Masked'
  <2>1. irq[c] = "idle" /\ UNCHANGED irq /\ \A d \in Cpus : d # c => ipc'[d] = ipc[d]
    BY <1>2 DEF CrossCall, StartRecycle, StartClear, StartConfig, StopLocal, Runs
  <2> QED
    BY <2>1
<1>3. ASSUME UNCHANGED <<irq, ipc>> PROVE Masked'
  BY <1>3
<1>4. ASSUME NEW c \in Cpus, Overflow(c) PROVE UNCHANGED <<irq, ipc>>
  BY <1>4 DEF Overflow
<1>5. ASSUME NEW w \in Writers,
             StatusUpdate(w) \/ \E code \in Codes : StoreStatus(w, code)
      PROVE  UNCHANGED <<irq, ipc>>
  BY <1>5 DEF StatusUpdate, SwitchStart, StartRegister, StartDone, SwitchStop,
     StopDeregister, StopMark, StopWake, SwitchDump, SwitchUnknown, StoreStatus
<1>6. ASSUME NEW r \in Readers, Read(r) \/ ReadCall(r) \/ ReadInterrupted(r)
      PROVE  UNCHANGED <<irq, ipc>>
  BY <1>6 DEF Read, ReadPop, ReadEof, ReadSleep, ReadReturn, ReadCall,
     ReadInterrupted
<1>7. CASE UNCHANGED vars
  BY <1>3, <1>7
<1> QED
  BY <1>1, <1>2, <1>3, <1>4, <1>5, <1>6, <1>7 DEF Next

\* No interrupt comes in the middle of startCtrs: on ARM because the IRQ is masked, on
\* Intel when one process writes to status and starts only a stopped sampler.
Undisturbed == ~Nmi \/ (~Restart /\ OneWriter)

\* Under Undisturbed a CPU in its handler is never in startCtrs.
LEMMA MaskedAlways == ASSUME Undisturbed PROVE Spec => []Masked
<1>1. CASE ~Nmi
  <2>1. Init => Masked
    BY PoolInit
  <2>2. TypeInv /\ Masked /\ [Next]_vars => Masked'
    BY <1>1, ArmMaskedStep
  <2> QED
    BY <2>1, <2>2, Typing, PTL DEF Spec
<1>2. CASE Nmi /\ ~Restart /\ OneWriter
  <2>1. Init => Phase /\ Quiet /\ Untouched /\ StartsQuiet /\ NoNmi
    BY DEF Init, Phase, Quiet, Stopped, Untouched, StartsQuiet, ToStart, NoNmi
  <2>2. TypeInv /\ Phase /\ Quiet /\ Untouched /\ StartsQuiet /\ NoNmi /\ [Next]_vars
        => Phase' /\ Quiet' /\ Untouched' /\ StartsQuiet' /\ NoNmi'
    BY <1>2, PhaseStep, QuietStep, UntouchedStep, StartsQuietStep, NoNmiStep
  <2>3. TypeInv /\ NoNmi => Masked
    BY DEF NoNmi, Masked, TypeInv, Typed
  <2> QED
    BY <2>1, <2>2, <2>3, Typing, PTL DEF Spec
<1> QED
  BY <1>1, <1>2, PmuSamplerAssumption DEF Undisturbed

\* What keeps the lists, the buffers in use and those being read keeps Pool.
LEMMA PoolFrame ==
  ASSUME Pool, UNCHANGED <<empty, full, rbuf>>,
         \A c \in Cpus : Holds(c)' = Holds(c)
  PROVE  Pool'
  BY DEF Pool

\* Only this step and the next four move a buffer.  gatherSample pops one.
LEMMA PoolTake ==
  ASSUME TypeInv, Masked, Pool, NEW c \in Cpus, GatherTake(c)
  PROVE  Pool'
<1> DEFINE b == Head(empty)
<1>0. /\ irq[c] = "gather" /\ lbuffer[c] = NULL /\ ipc[c] = "none" /\ ipc' = ipc
      /\ lbuffer'[c] = b /\ irq'[c] = "write"
      /\ \A d \in Cpus \ {c} : lbuffer'[d] = lbuffer[d] /\ irq'[d] = irq[d]
  BY DEF GatherTake, handlerKeeps, ipiVars, Masked, TypeInv, Typed
<1>1. /\ empty' = Tail(empty) /\ empty # <<>> /\ UNCHANGED <<full, rbuf>>
      /\ Holds(c) = NULL /\ Holds(c)' = b
      /\ \A d \in Cpus \ {c} : Holds(d)' = Holds(d)
  <2>1. empty' = Tail(empty) /\ empty # <<>> /\ UNCHANGED <<full, rbuf>>
    BY DEF GatherTake, handlerKeeps, readVars
  <2>2. Holds(c) = NULL /\ Holds(c)' = b
    BY <1>0 DEF Holds, Uses
  <2>3. \A d \in Cpus \ {c} : Holds(d)' = Holds(d)
    BY <1>0 DEF Holds, Uses
  <2> QED
    BY <2>1, <2>2, <2>3
<1>2. /\ b \in Buffers /\ b \in ToSet(empty) /\ ToSet(empty) = ToSet(empty)' \cup {b}
      /\ IsInjective(empty)' /\ b \notin ToSet(empty)'
  BY <1>1, TailToSet DEF Pool, TypeInv, Typed
<1>3. \A x \in Buffers : x # NULL
  BY PmuSamplerAssumption
<1> HIDE DEF b
<1>4. \A d \in Cpus \ {c} : Holds(d) # b
  BY <1>2 DEF Pool
<1>5. \A r \in Readers : rbuf[r] # b
  BY <1>2 DEF Pool
<1>6. ToSet(full)' = ToSet(full) /\ IsInjective(full)' /\ b \notin ToSet(full)
  BY <1>1, <1>2 DEF Pool
<1>7. \A x \in Buffers : \/ x \in ToSet(empty)' \cup ToSet(full)'
                        \/ \E d \in Cpus : Holds(d)' = x
                        \/ \E r \in Readers : rbuf'[r] = x
  BY <1>1, <1>2, <1>3, <1>6 DEF Pool
<1> QED
  BY <1>1, <1>2, <1>3, <1>4, <1>5, <1>6, <1>7 DEF Pool

\* append_blist(&full_buffers, b): the buffer leaves the CPU before lbuffer is cleared.
LEMMA PoolPublish ==
  ASSUME TypeInv, Masked, Pool, NEW c \in Cpus, GatherPublish(c)
  PROVE  Pool'
<1> DEFINE b == lbuffer[c]
<1>0. /\ full' = Append(full, b) /\ UNCHANGED <<empty, lbuffer, rbuf, ipc>>
      /\ irq[c] = "check" /\ irq' = [irq EXCEPT ![c] = "detach"]
  BY DEF GatherPublish, handlerKeeps, ipiVars, readVars
<1>1. /\ b \in Buffers /\ b # NULL /\ ipc[c] = "none"
      /\ irq'[c] = "detach" /\ \A d \in Cpus \ {c} : irq'[d] = irq[d]
  BY <1>0, PmuSamplerAssumption DEF Masked, TypeInv, Typed, HasBuffer
<1>2. Holds(c) = b /\ Holds(c)' = NULL
  BY <1>0, <1>1 DEF Holds, Uses
<1>3. \A d \in Cpus \ {c} : Holds(d)' = Holds(d)
  BY <1>0, <1>1 DEF Holds, Uses
<1> HIDE DEF b
<1>4. b \notin ToSet(empty) \cup ToSet(full)
  BY <1>2 DEF Pool
<1>5. ToSet(full)' = ToSet(full) \cup {b} /\ IsInjective(full)'
  BY <1>0, <1>1, <1>4, AppendToSet DEF Pool, TypeInv, Typed
<1>6. NULL \notin ToSet(empty) \cup ToSet(full) \cup Buffers
  BY ListElements, PmuSamplerAssumption
<1> QED
  BY <1>0, <1>1, <1>2, <1>3, <1>4, <1>5, <1>6 DEF Pool

\* startCtrs gives back a half-filled buffer.
LEMMA PoolRecycle ==
  ASSUME TypeInv, Pool, NEW c \in Cpus, NEW w \in Writers, StartRecycle(c, w),
         lbuffer[c] # NULL
  PROVE  Pool'
<1> DEFINE b == lbuffer[c]
<1>1. /\ empty' = Append(empty, b) /\ UNCHANGED <<full, rbuf>> /\ b \in Buffers
      /\ Holds(c) = b /\ Holds(c)' = NULL
      /\ \A d \in Cpus \ {c} : Holds(d)' = Holds(d)
  BY DEF StartRecycle, Runs, crossKeeps, readVars, TypeInv, Typed, Holds, Uses
<1>2. ToSet(empty)' = ToSet(empty) \cup {b} /\ IsInjective(empty)'
  BY <1>1, AppendToSet DEF Pool, TypeInv, Typed
<1>3. NULL \notin ToSet(empty) \cup ToSet(full) \cup Buffers
  BY ListElements, PmuSamplerAssumption
<1> QED
  BY <1>1, <1>2, <1>3 DEF Pool

\* my_read takes a buffer out of full_buffers.
LEMMA PoolPop ==
  ASSUME TypeInv, Pool, NEW r \in Readers, ReadPop(r)
  PROVE  Pool'
<1> DEFINE b == Head(full)
<1>1. /\ full' = Tail(full) /\ full # <<>> /\ empty' = empty
      /\ rbuf[r] = NULL /\ rbuf'[r] = b
      /\ \A q \in Readers \ {r} : rbuf'[q] = rbuf[q]
      /\ \A c \in Cpus : Holds(c)' = Holds(c)
  BY DEF ReadPop, readerKeeps, ipiVars, TypeInv, Typed, HasBuffer, Holds, Uses
<1>2. /\ b \in Buffers /\ b \in ToSet(full) /\ ToSet(full) = ToSet(full)' \cup {b}
      /\ IsInjective(full)' /\ b \notin ToSet(full)'
  BY <1>1, TailToSet DEF Pool, TypeInv, Typed
<1> QED
  BY <1>1, <1>2, PmuSamplerAssumption DEF Pool

\* my_read gives its buffer back.
LEMMA PoolReturn ==
  ASSUME TypeInv, Pool, NEW r \in Readers, ReadReturn(r)
  PROVE  Pool'
<1> DEFINE b == rbuf[r]
<1>1. /\ empty' = Append(empty, b) /\ full' = full /\ b \in Buffers
      /\ rbuf'[r] = NULL
      /\ \A q \in Readers \ {r} : rbuf'[q] = rbuf[q]
      /\ \A c \in Cpus : Holds(c)' = Holds(c)
  BY DEF ReadReturn, readerKeeps, ipiVars, TypeInv, Typed, HasBuffer, Holds, Uses
<1>2. ToSet(empty)' = ToSet(empty) \cup {b} /\ IsInjective(empty)'
  BY <1>1, AppendToSet DEF Pool, TypeInv, Typed
<1>3. NULL \notin ToSet(empty) \cup ToSet(full) \cup Buffers
  BY ListElements, PmuSamplerAssumption
<1> QED
  BY <1>1, <1>2, <1>3 DEF Pool

\* Every other step keeps the four places a buffer can be in.
LEMMA PoolStep ==
  ASSUME TypeInv, Masked, Pool, [Next]_vars
  PROVE  Pool'
<1> USE DEF ipiVars, readVars, poolVars, handlerKeeps, crossKeeps, writerKeeps,
        readerKeeps
<1>0. TypeInv /\ Typed /\ HasBuffer
  BY DEF TypeInv
<1>1. ASSUME NEW c \in Cpus, GatherTake(c) PROVE Pool'
  BY <1>1, PoolTake
<1>2. ASSUME NEW c \in Cpus, GatherPublish(c) PROVE Pool'
  BY <1>2, PoolPublish
<1>3. ASSUME NEW c \in Cpus, NEW w \in Writers, StartRecycle(c, w) PROVE Pool'
  <2>1. CASE lbuffer[c] # NULL
    BY <1>3, <2>1, PoolRecycle
  <2>2. CASE lbuffer[c] = NULL
    <3>1. UNCHANGED <<empty, full, rbuf, lbuffer, irq>>
          /\ \A d \in Cpus \ {c} : ipc'[d] = ipc[d]
      BY <1>0, <1>3, <2>2 DEF StartRecycle, Typed
    <3>2. \A d \in Cpus : Holds(d)' = Holds(d)
      BY <2>2, <3>1 DEF Holds, Uses
    <3> QED
      BY <3>1, <3>2, PoolFrame
  <2> QED
    BY <2>1, <2>2
<1>4. ASSUME NEW r \in Readers, ReadPop(r) PROVE Pool'
  BY <1>4, PoolPop
<1>5. ASSUME NEW r \in Readers, ReadReturn(r) PROVE Pool'
  BY <1>5, PoolReturn
\* The pointer of a buffer that is already in a list is cleared.
<1>6. ASSUME NEW c \in Cpus, GatherDetach(c) \/ StartClear(c) PROVE Pool'
  <2>1. /\ UNCHANGED <<empty, full, rbuf>>
        /\ irq[c] = "detach" \/ ipc[c] = "clear"
        /\ lbuffer'[c] = NULL
        /\ \A d \in Cpus \ {c} :
             irq'[d] = irq[d] /\ ipc'[d] = ipc[d] /\ lbuffer'[d] = lbuffer[d]
    BY <1>0, <1>6 DEF GatherDetach, StartClear, Typed
  <2>2. \A d \in Cpus : Holds(d)' = Holds(d)
    BY <2>1 DEF Holds, Uses
  <2> QED
    BY <2>1, <2>2, PoolFrame
\* The remaining steps of the handler and StartConfig neither enter nor leave
\* the two places where lbuffer is stale.
<1>7. ASSUME NEW c \in Cpus,
             \/ ArmIrqEntry(c) \/ NmiEntry(c) \/ GatherKeep(c) \/ GatherMissLoad(c)
             \/ GatherMissStore(c) \/ GatherWrite(c) \/ GatherMore(c) \/ ArmRearm(c)
             \/ ArmReturn(c) \/ NmiReturn(c) \/ StartConfig(c)
      PROVE  Pool'
  <2>1. UNCHANGED <<empty, full, rbuf, lbuffer>>
    BY <1>7 DEF ArmIrqEntry, NmiEntry, GatherKeep, GatherMissLoad,
       GatherMissStore, GatherWrite, GatherMore, ArmRearm, ArmReturn, NmiReturn,
       StartConfig
  <2>2. /\ irq[c] # "detach" /\ irq'[c] # "detach"
        /\ ipc'[c] = "clear" <=> ipc[c] = "clear"
    BY <1>0, <1>7 DEF ArmIrqEntry, NmiEntry, GatherKeep, GatherMissLoad,
       GatherMissStore, GatherWrite, GatherMore, ArmRearm, ArmReturn, NmiReturn,
       StartConfig, Deliverable, Runs, Typed
  <2>3. \A d \in Cpus \ {c} : irq'[d] = irq[d] /\ ipc'[d] = ipc[d]
    BY <1>0, <1>7 DEF ArmIrqEntry, NmiEntry, GatherKeep, GatherMissLoad,
       GatherMissStore, GatherWrite, GatherMore, ArmRearm, ArmReturn, NmiReturn,
       StartConfig, Typed
  <2>4. \A d \in Cpus : Holds(d)' = Holds(d)
    BY <2>1, <2>2, <2>3 DEF Holds, Uses
  <2> QED
    BY <2>1, <2>4, PoolFrame
<1>8. ASSUME UNCHANGED <<empty, full, rbuf, lbuffer, irq, ipc>> PROVE Pool'
  <2>1. \A d \in Cpus : Holds(d)' = Holds(d)
    BY <1>8 DEF Holds, Uses
  <2> QED
    BY <1>8, <2>1, PoolFrame
<1>9. ASSUME NEW c \in Cpus,
             \/ Overflow(c) \/ ArmIrqSpurious(c)
             \/ \E w \in Writers : StopLocal(c, w)
      PROVE  UNCHANGED <<empty, full, rbuf, lbuffer, irq, ipc>>
  BY <1>9 DEF Overflow, ArmIrqSpurious, StopLocal
<1>10. ASSUME NEW w \in Writers,
              StatusUpdate(w) \/ \E code \in Codes : StoreStatus(w, code)
       PROVE  UNCHANGED <<empty, full, rbuf, lbuffer, irq, ipc>>
  BY <1>10 DEF StatusUpdate, SwitchStart, StartRegister, StartDone, SwitchStop,
     StopDeregister, StopMark, StopWake, SwitchDump, SwitchUnknown, StoreStatus
<1>11. ASSUME NEW r \in Readers,
              ReadEof(r) \/ ReadSleep(r) \/ ReadCall(r) \/ ReadInterrupted(r)
       PROVE  UNCHANGED <<empty, full, rbuf, lbuffer, irq, ipc>>
  BY <1>11 DEF ReadEof, ReadSleep, ReadCall, ReadInterrupted
<1>12. CASE UNCHANGED vars
  BY <1>8, <1>12 DEF vars
<1> QED
  BY <1>1, <1>2, <1>3, <1>4, <1>5, <1>6, <1>7, <1>8, <1>9, <1>10, <1>11, <1>12
     DEF Next, Handler, Gather, CrossCall, Read

\* No interleaving of interrupts, starts, stops and readers ever has a buffer in two
\* places, as long as no interrupt comes in the middle of startCtrs.
THEOREM Ownership == ASSUME Undisturbed PROVE Spec => []OneOwner
<1>1. Init => Pool
  BY PoolInit
<1>2. TypeInv /\ Masked /\ Pool /\ [Next]_vars => Pool'
  BY PoolStep
<1>3. TypeInv /\ Pool => OneOwner
  BY PoolIsOwnership
<1> QED
  BY <1>1, <1>2, <1>3, Typing, MaskedAlways, PTL DEF Spec

\* No buffer is ever lost either, so the pool never shrinks.
THEOREM Conservation == ASSUME Undisturbed PROVE Spec => []NoneLost
<1>1. Init => Pool
  BY PoolInit
<1>2. TypeInv /\ Masked /\ Pool /\ [Next]_vars => Pool'
  BY PoolStep
<1>3. TypeInv /\ Pool => NoneLost
  BY PoolIsOwnership
<1> QED
  BY <1>1, <1>2, <1>3, Typing, MaskedAlways, PTL DEF Spec
\* Both together, as the runs state it: every buffer is in exactly one place, for any
\* number of CPUs, readers, writers and buffers.
THEOREM Placement == ASSUME Undisturbed PROVE Spec => []OnePlace
<1>1. Init => Pool
  BY PoolInit
<1>2. TypeInv /\ Masked /\ Pool /\ [Next]_vars => Pool'
  BY PoolStep
<1>3. TypeInv /\ Pool => OnePlace
  BY PoolIsOwnership DEF OnePlace
<1> QED
  BY <1>1, <1>2, <1>3, Typing, MaskedAlways, PTL DEF Spec
-----------------------------------------------------------------------------
(***************************************************************************)
(* Who writes to the buffers.                                              *)
(***************************************************************************)

\* Only gatherSample changes what a buffer holds.
LEMMA OnlyGatherWrites ==
  ASSUME [Next]_vars
  PROVE  UNCHANGED <<samples, core>> \/ \E c \in Cpus : GatherTake(c) \/ GatherWrite(c)
<1> USE DEF poolVars, handlerKeeps, crossKeeps, writerKeeps, readerKeeps
<1>1. ASSUME NEW c \in Cpus,
             \/ Overflow(c) \/ ArmIrqEntry(c) \/ ArmIrqSpurious(c) \/ NmiEntry(c)
             \/ GatherKeep(c) \/ GatherMissLoad(c) \/ GatherMissStore(c)
             \/ GatherMore(c) \/ GatherPublish(c) \/ GatherDetach(c) \/ ArmRearm(c)
             \/ ArmReturn(c) \/ NmiReturn(c) \/ CrossCall(c)
      PROVE  UNCHANGED <<samples, core>>
  BY <1>1 DEF Overflow, ArmIrqEntry, ArmIrqSpurious, NmiEntry, GatherKeep,
     GatherMissLoad, GatherMissStore, GatherMore, GatherPublish, GatherDetach,
     ArmRearm, ArmReturn, NmiReturn, CrossCall, StartRecycle, StartClear,
     StartConfig, StopLocal
<1>2. ASSUME NEW w \in Writers,
             StatusUpdate(w) \/ \E code \in Codes : StoreStatus(w, code)
      PROVE  UNCHANGED <<samples, core>>
  BY <1>2 DEF StatusUpdate, SwitchStart, StartRegister, StartDone, SwitchStop,
     StopDeregister, StopMark, StopWake, SwitchDump, SwitchUnknown, StoreStatus
<1>3. ASSUME NEW r \in Readers, Read(r) \/ ReadCall(r) \/ ReadInterrupted(r)
      PROVE  UNCHANGED <<samples, core>>
  BY <1>3 DEF Read, ReadPop, ReadEof, ReadSleep, ReadReturn, ReadCall,
     ReadInterrupted
<1>4. CASE UNCHANGED vars
  BY <1>4 DEF vars
<1> QED
  BY <1>1, <1>2, <1>3, <1>4 DEF Next, Handler, Gather

\* GatherTake changes a buffer it takes from empty_buffers, GatherWrite the one
\* its CPU holds.
LEMMA TakeContents ==
  ASSUME TypeInv, NEW c \in Cpus, GatherTake(c)
  PROVE  /\ Head(empty) \in Buffers /\ Head(empty) \in ToSet(empty)
         /\ samples'[Head(empty)] = <<>>
         /\ \A b \in Buffers \ {Head(empty)} :
              samples'[b] = samples[b] /\ core'[b] = core[b]
<1>1. empty \in Seq(Buffers) /\ empty # <<>>
  BY DEF GatherTake, TypeInv, Typed
<1>2. Head(empty) \in Buffers /\ Head(empty) \in ToSet(empty)
  BY <1>1, TailToSet
<1> QED
  BY <1>2 DEF GatherTake, InitializeBuffer, TypeInv, Typed

\* GatherWrite changes the buffer its CPU holds and no other.
LEMMA WriteContents ==
  ASSUME TypeInv, Masked, NEW c \in Cpus, GatherWrite(c)
  PROVE  /\ Holds(c) \in Buffers /\ Holds(c) = lbuffer[c]
         /\ Len(samples'[Holds(c)]) = Len(samples[Holds(c)]) + 1
         /\ \A b \in Buffers \ {Holds(c)} : samples'[b] = samples[b]
         /\ core' = core
<1>1. lbuffer[c] \in Buffers /\ lbuffer[c] # NULL /\ irq[c] = "write" /\ ipc[c] = "none"
  BY PmuSamplerAssumption DEF GatherWrite, TypeInv, Typed, HasBuffer, Masked
<1>2. Holds(c) = lbuffer[c]
  BY <1>1 DEF Holds, Uses
<1>3. samples' = [samples EXCEPT ![lbuffer[c]] = Append(@, <<c, ticks[c]>>)] /\ core' = core
  BY DEF GatherWrite
<1>4. samples \in [Buffers -> Seq(Sample)] /\ <<c, ticks[c]>> \in Sample
  BY DEF TypeInv, Typed, Sample
<1>5. Len(Append(samples[lbuffer[c]], <<c, ticks[c]>>)) = Len(samples[lbuffer[c]]) + 1
  BY <1>1, <1>4, AppendProperties
<1> QED
  BY <1>1, <1>2, <1>3, <1>4, <1>5

\* A CPU that holds a buffer and is not about to test num_samples has room for
\* one more sample.
Room ==
  /\ \A b \in Buffers : Len(samples[b]) <= BufferEntries
  /\ \A c \in Cpus : Holds(c) # NULL /\ irq[c] # "check"
                     => Len(samples[Holds(c)]) < BufferEntries

\* No step takes the room away without num_samples being tested first.
LEMMA RoomStep ==
  ASSUME TypeInv, Masked, Pool, Room, [Next]_vars
  PROVE  Room'
<1>0. /\ \A c \in Cpus : Holds(c) \in Buffers \cup {NULL}
      /\ \A b \in Buffers : Len(samples[b]) \in Nat
      /\ BufferEntries \in Nat \ {0}
      /\ DOMAIN irq = Cpus /\ DOMAIN ipc = Cpus /\ DOMAIN lbuffer = Cpus
  BY PmuSamplerAssumption, LenProperties DEF TypeInv, Typed, Holds, Uses
<1>a. NULL \notin Buffers
  BY PmuSamplerAssumption
<1>1. ASSUME NEW c \in Cpus, GatherTake(c) PROVE Room'
  <2>1. /\ irq'[c] = "write" /\ Holds(c)' = Head(empty)
        /\ \A d \in Cpus \ {c} : irq'[d] = irq[d] /\ Holds(d)' = Holds(d)
    BY <1>0, <1>1 DEF GatherTake, handlerKeeps, ipiVars, Masked, Holds, Uses, TypeInv, Typed
  <2>2. \A d \in Cpus : Holds(d) # Head(empty)
    BY <1>1, TakeContents DEF Pool
  <2>3. Len(samples'[Head(empty)]) = 0
    BY <1>1, TakeContents, EmptySeq
  <2>4. \A b \in Buffers : Len(samples'[b]) <= BufferEntries
    BY <1>0, <1>1, <2>3, TakeContents DEF Room
  <2>5. ASSUME NEW d \in Cpus \ {c}, Holds(d)' # NULL, irq'[d] # "check"
        PROVE  Len(samples'[Holds(d)']) < BufferEntries
    BY <1>0, <1>1, <2>1, <2>2, <2>5, TakeContents DEF Room
  <2>6. Len(samples'[Holds(c)']) < BufferEntries
    BY <1>0, <2>1, <2>3
  <2> QED
    BY <2>4, <2>5, <2>6 DEF Room
<1>2. ASSUME NEW c \in Cpus, GatherWrite(c) PROVE Room'
  <2>1. /\ irq[c] = "write" /\ irq'[c] = "check" /\ UNCHANGED <<lbuffer, ipc>>
        /\ \A d \in Cpus \ {c} : irq'[d] = irq[d]
    BY <1>0, <1>2 DEF GatherWrite, handlerKeeps, ipiVars
  <2>2. \A d \in Cpus \ {c} : Holds(d)' = Holds(d)
    BY <2>1 DEF Holds, Uses
  <2>3. Len(samples[Holds(c)]) < BufferEntries /\ Holds(c) # NULL
    BY <1>2, <1>a, <2>1, WriteContents DEF Room
  <2>4. \A b \in Buffers : Len(samples'[b]) <= BufferEntries
    BY <1>0, <1>2, <2>3, WriteContents DEF Room
  <2>5. \A d \in Cpus \ {c} : Holds(d) # Holds(c)
    BY <2>3 DEF Pool
  <2>6. ASSUME NEW d \in Cpus, Holds(d)' # NULL, irq'[d] # "check"
        PROVE  Len(samples'[Holds(d)']) < BufferEntries
    BY <1>0, <1>2, <2>1, <2>2, <2>5, <2>6, WriteContents DEF Room
  <2> QED
    BY <2>4, <2>6 DEF Room
\* Whoever stops testing num_samples has room, or gives the buffer away.
<1>3. ASSUME UNCHANGED samples,
             \A c \in Cpus : Holds(c)' # NULL /\ irq'[c] # "check"
                => /\ Holds(c)' = Holds(c)
                   /\ irq[c] # "check" \/ Len(samples[Holds(c)]) < BufferEntries
      PROVE  Room'
  BY <1>3 DEF Room
<1>4. ASSUME NEW c \in Cpus, GatherMore(c) PROVE Room'
  <2>1. /\ UNCHANGED <<samples, lbuffer, ipc>> /\ irq[c] = "check" /\ irq'[c] = "rearm"
        /\ ~(Len(samples[lbuffer[c]]) >= BufferEntries) /\ lbuffer[c] \in Buffers
        /\ \A d \in Cpus \ {c} : irq'[d] = irq[d]
    BY <1>0, <1>4 DEF GatherMore, BufferFull, poolVars, handlerKeeps, ipiVars,
       TypeInv, Typed, HasBuffer
  <2>2. \A d \in Cpus : Holds(d)' = Holds(d)
    BY <2>1 DEF Holds, Uses
  <2>3. Holds(c) # NULL => Len(samples[Holds(c)]) < BufferEntries
    BY <1>0, <2>1 DEF Holds
  <2> QED
    BY <1>3, <2>1, <2>2, <2>3
<1>5. ASSUME NEW c \in Cpus, GatherPublish(c) PROVE Room'
  <2>1. /\ UNCHANGED <<samples, lbuffer, ipc>> /\ irq'[c] = "detach"
        /\ \A d \in Cpus \ {c} : irq'[d] = irq[d]
    BY <1>0, <1>5 DEF GatherPublish, handlerKeeps, ipiVars
  <2>2. /\ Holds(c)' = NULL
        /\ \A d \in Cpus \ {c} : Holds(d)' = Holds(d)
    BY <2>1 DEF Holds, Uses
  <2> QED
    BY <1>3, <2>1, <2>2
<1>6. ASSUME NEW c \in Cpus,
             \/ ArmIrqEntry(c) \/ NmiEntry(c) \/ GatherKeep(c) \/ GatherMissLoad(c)
             \/ GatherMissStore(c) \/ GatherDetach(c) \/ ArmRearm(c) \/ ArmReturn(c)
             \/ NmiReturn(c)
      PROVE  Room'
  <2>1. /\ UNCHANGED <<samples, ipc>> /\ irq[c] # "check"
        /\ lbuffer'[c] = lbuffer[c] \/ lbuffer'[c] = NULL
        /\ irq[c] = "detach" => lbuffer'[c] = NULL
        /\ irq'[c] # "detach"
        /\ \A d \in Cpus \ {c} : irq'[d] = irq[d] /\ lbuffer'[d] = lbuffer[d]
    BY <1>0, <1>6 DEF ArmIrqEntry, NmiEntry, GatherKeep, GatherMissLoad,
       GatherMissStore, GatherDetach, ArmRearm, ArmReturn, NmiReturn, Deliverable,
       poolVars, handlerKeeps, ipiVars
  <2>2. \A d \in Cpus : Holds(d)' # NULL => Holds(d)' = Holds(d)
    BY <2>1 DEF Holds, Uses
  <2> QED
    BY <1>3, <2>1, <2>2
<1>7. ASSUME NEW c \in Cpus, CrossCall(c) PROVE Room'
  <2>1. /\ UNCHANGED <<samples, irq>>
        /\ lbuffer'[c] = lbuffer[c] \/ lbuffer'[c] = NULL
        /\ ipc[c] = "clear" => lbuffer'[c] = NULL \/ ipc'[c] = "clear"
        /\ \A d \in Cpus \ {c} : ipc'[d] = ipc[d] /\ lbuffer'[d] = lbuffer[d]
    BY <1>0, <1>7 DEF CrossCall, StartRecycle, StartClear, StartConfig, StopLocal,
       crossKeeps, ipiVars
  <2>2. \A d \in Cpus : Holds(d)' # NULL => Holds(d)' = Holds(d)
    BY <2>1 DEF Holds, Uses
  <2> QED
    BY <1>3, <2>1, <2>2
<1>8. ASSUME UNCHANGED <<samples, irq, ipc, lbuffer>> PROVE Room'
  BY <1>3, <1>8 DEF Holds, Uses
<1>9. ASSUME NEW c \in Cpus, Overflow(c) \/ ArmIrqSpurious(c)
      PROVE  UNCHANGED <<samples, irq, ipc, lbuffer>>
  BY <1>9 DEF Overflow, ArmIrqSpurious, poolVars, handlerKeeps, ipiVars
<1>10. ASSUME NEW w \in Writers,
              StatusUpdate(w) \/ \E code \in Codes : StoreStatus(w, code)
       PROVE  UNCHANGED <<samples, irq, ipc, lbuffer>>
  BY <1>10 DEF StatusUpdate, SwitchStart, StartRegister, StartDone, SwitchStop,
     StopDeregister, StopMark, StopWake, SwitchDump, SwitchUnknown, StoreStatus,
     poolVars, writerKeeps, ipiVars
<1>11. ASSUME NEW r \in Readers, Read(r) \/ ReadCall(r) \/ ReadInterrupted(r)
       PROVE  UNCHANGED <<samples, irq, ipc, lbuffer>>
  BY <1>11 DEF Read, ReadPop, ReadEof, ReadSleep, ReadReturn, ReadCall,
     ReadInterrupted, readerKeeps, ipiVars
<1>12. CASE UNCHANGED vars
  BY <1>8, <1>12 DEF vars, poolVars, ipiVars
<1> QED
  BY <1>1, <1>2, <1>4, <1>5, <1>6, <1>7, <1>8, <1>9, <1>10, <1>11, <1>12
     DEF Next, Handler, Gather

\* gatherSample never writes past samples[BUFFER_ENTRIES - 1]: with one owner per
\* buffer the test after each sample is enough.
THEOREM NoOverrun == ASSUME Undisturbed PROVE Spec => []TypeOK
<1>1. Init => Pool /\ Room
  <2>1. Init => \A b \in Buffers : Len(samples[b]) = 0
    BY EmptySeq DEF Init
  <2>2. Init => \A c \in Cpus : Holds(c) = NULL
    BY DEF Init, Holds, Uses
  <2> QED
    BY <2>1, <2>2, PoolInit, PmuSamplerAssumption DEF Room
<1>2. TypeInv /\ Masked /\ Pool /\ Room /\ [Next]_vars => Pool' /\ Room'
  BY PoolStep, RoomStep
<1>3. TypeInv /\ Room => TypeOK
  BY DEF TypeInv, Room, TypeOK
<1> QED
  BY <1>1, <1>2, <1>3, Typing, MaskedAlways, PTL DEF Spec

\* A buffer in full_buffers or in the hands of a reader is not changed by a late
\* interrupt, a restart or another reader.
THEOREM Stable == ASSUME Undisturbed PROVE Spec => HandedOver
<1>1. Init => Pool
  BY PoolInit
<1>2. TypeInv /\ Masked /\ Pool /\ [Next]_vars => Pool'
  BY PoolStep
<1>3. ASSUME TypeInv, Masked, Pool, [Next]_vars
      PROVE  [\A b \in ToSet(full) \cup BeingRead :
                samples'[b] = samples[b] /\ core'[b] = core[b]]_vars
  <2> SUFFICES ASSUME NEW b \in ToSet(full) \cup BeingRead
               PROVE  samples'[b] = samples[b] /\ core'[b] = core[b]
    OBVIOUS
  <2>1. b \in Buffers
    BY <1>3, ListElements DEF BeingRead, TypeInv, Typed, HasBuffer
  <2>2. b \notin ToSet(empty) /\ \A c \in Cpus : Holds(c) # b
    BY <1>3, <2>1, PmuSamplerAssumption DEF Pool, BeingRead
  <2>3. ASSUME NEW c \in Cpus, GatherTake(c)
        PROVE  samples'[b] = samples[b] /\ core'[b] = core[b]
    BY <1>3, <2>1, <2>2, <2>3, TakeContents
  <2>4. ASSUME NEW c \in Cpus, GatherWrite(c)
        PROVE  samples'[b] = samples[b] /\ core'[b] = core[b]
    BY <1>3, <2>1, <2>2, <2>4, WriteContents
  <2> QED
    BY <1>3, <2>3, <2>4, OnlyGatherWrites
<1> QED
  BY <1>1, <1>2, <1>3, Typing, MaskedAlways, PTL DEF Spec, HandedOver
=============================================================================
