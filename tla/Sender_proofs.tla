--------------------------- MODULE Sender_proofs ---------------------------
(***************************************************************************)
(* Theorems about the sender: its packets under construction and the       *)
(* process cache.  They hold for any buffers, pids and sizes.              *)
(***************************************************************************)
EXTENDS Sender, ProcessInfo_proofs, DataInduction

-----------------------------------------------------------------------------
(* The sender uses the cache as the cache expects                          *)

\* Every step of the sender is a step of the cache, or leaves it alone.
LEMMA CacheStep ==
  ASSUME ProcTypeOK, [SenderNext]_senderVars,
         pc = "sample" /\ index < Len(b.samples) => Current.pid \in Pids
  PROVE  [ProcNext]_procVars
  <1>1. CASE Lookup
    <2>1. Current.pid \in Pids /\ packet_empty \in BOOLEAN
      BY <1>1 DEF Lookup, packet_empty
    <2> QED
      BY <1>1, <2>1 DEF Lookup, ProcNext
  <1>2. CASE LookupReads
    BY <1>2 DEF LookupReads, ProcNext
  <1>3. CASE OtherProcess
    BY <1>3 DEF OtherProcess, ProcNext
  <1>4. CASE \/ LoopEnd \/ TestRound \/ SendStart \/ SendFull \/ SendNot
             \/ AppendSample \/ SendRest \/ TransmitFails \/ BatchDone
             \/ FreadBuffer \/ FreadEof \/ FreadFails \/ Miss \/ Ended
             \/ UNCHANGED senderVars
    BY <1>4 DEF LoopEnd, TestRound, SendStart, SendFull, SendNot, AppendSample,
         SendRest, TransmitFails, BatchDone, FreadBuffer, FreadEof, FreadFails, Fread, Miss, Ended,
         senderVars
  <1> QED
    BY <1>1, <1>2, <1>3, <1>4 DEF SenderNext, Run

-----------------------------------------------------------------------------
(* The invariant                                                           *)

SampleType == [pid : Pids, nr : Nat]

\* The buffer and the place in it.
PlaceInv ==
  /\ got \in Nat
  /\ b # NULL => b.samples \in Seq(SampleType)
  /\ pc \in {"sample", "found", "append"} =>
       /\ b.samples \in Seq(SampleType)
       /\ index \in 0 .. Len(b.samples)
  /\ pc \in {"found", "append"} =>
       /\ index < Len(b.samples)
       /\ call.pid = Current.pid

\* A lookup in progress belongs to the current sample; if it loads while a packet is
\* under construction, its entry is new, and so not the one the packet points into.
LookupInv ==
  /\ call.at # "done" =>
       /\ pc = "found"
       /\ ~packet_empty => call.why = "first"
  /\ pc \in {"found", "append"} /\ call.at = "done" =>
       procMap[call.pid].mode # "Unknown"

\* A packet under construction points into a loaded entry.
PacketInv ==
  /\ header.quantity \in Nat
  /\ ~packet_empty => info \in Pids /\ procMap[info].mode # "Unknown"

SenderInv ==
  /\ ProcTypeOK
  /\ CallInv
  /\ PlaceInv
  /\ LookupInv
  /\ PacketInv
  /\ NeverRefused

\* What the device delivers, and what may be in memory.
BufferType == [core : Cores, samples : Seq(SampleType)]

\* The samples of a full buffer, the k-th one.
NumberedFrom(x, k) ==
  /\ Len(x.samples) = BufferEntries
  /\ \A j \in 1 .. BufferEntries : x.samples[j].nr = (k - 1) * BufferEntries + j

\* A buffer the device delivers has a core and its own samples.
LEMMA BufferTypes ==
  /\ NULL \notin BufferType
  /\ \A k \in Nat : \A x \in FullBuffers(k) : x \in BufferType /\ NumberedFrom(x, k + 1)
  /\ \A x \in Leftovers :
       /\ x \in BufferType /\ Len(x.samples) \in 0 .. BufferEntries
       /\ \A j \in 1 .. Len(x.samples) : x.samples[j].nr = 0
  <1>1. ASSUME NEW k \in Nat, NEW x \in FullBuffers(k)
        PROVE  x \in BufferType /\ NumberedFrom(x, k + 1)
    <2>1. PICK c \in Cores, ps \in [1 .. BufferEntries -> Pids] :
            x = [core |-> c,
                 samples |-> [i \in 1 .. BufferEntries |->
                                [pid |-> ps[i], nr |-> k * BufferEntries + i]]]
      BY SMT DEF FullBuffers
    <2>2. BufferEntries \in Nat
      BY SenderAssumption
    <2>3. k * BufferEntries \in Nat
      BY <2>2
    <2>4. \A i \in 1 .. BufferEntries :
            [pid |-> ps[i], nr |-> k * BufferEntries + i] \in SampleType
      BY <2>2, <2>3 DEF SampleType
    <2>5. x.samples \in [1 .. BufferEntries -> SampleType]
      BY <2>1, <2>4
    <2>6. x.samples \in Seq(SampleType) /\ Len(x.samples) = BufferEntries
      BY <2>2, <2>5
    <2>7. (k + 1) - 1 = k
      OBVIOUS
    <2>8. \A j \in 1 .. BufferEntries : x.samples[j].nr = k * BufferEntries + j
      BY <2>1
    <2> QED
      BY <2>1, <2>6, <2>7, <2>8 DEF BufferType, NumberedFrom
  <1>2. ASSUME NEW x \in Leftovers
        PROVE  /\ x \in BufferType /\ Len(x.samples) \in 0 .. BufferEntries
               /\ \A j \in 1 .. Len(x.samples) : x.samples[j].nr = 0
    <2>0. PICK c \in Cores, ps \in UNION {[1 .. n -> Pids] : n \in 0 .. BufferEntries} :
            x = [core |-> c,
                 samples |-> [i \in DOMAIN ps |-> [pid |-> ps[i], nr |-> 0]]]
      BY SMT DEF Leftovers
    <2>1. PICK n \in 0 .. BufferEntries : ps \in [1 .. n -> Pids]
      OBVIOUS
    <2>2. n \in Nat
      BY SenderAssumption
    <2>3. x.samples \in [1 .. n -> SampleType]
      BY <2>0, <2>1 DEF SampleType
    <2>4. x.samples \in Seq(SampleType) /\ Len(x.samples) = n
      BY <2>2, <2>3
    <2>5. \A j \in 1 .. n : x.samples[j].nr = 0
      BY <2>0, <2>1
    <2> QED
      BY <2>0, <2>4, <2>5 DEF BufferType
  <1>3. NULL \notin BufferType
    BY SenderAssumption DEF BufferType, SampleType
  <1> QED
    BY <1>1, <1>2, <1>3

\* The sample in hand has a pid of Pids.
LEMMA CurrentPid ==
  ASSUME PlaceInv, pc \in {"sample", "found", "append"}, index < Len(b.samples)
  PROVE  Current \in SampleType /\ Current.pid \in Pids
  <1>1. b.samples \in Seq(SampleType) /\ index + 1 \in 1 .. Len(b.samples)
    BY DEF PlaceInv
  <1>2. Current \in SampleType
    BY <1>1 DEF Current
  <1> QED
    BY <1>2 DEF SampleType

\* The invariant holds at first.
LEMMA SenderInvInit == SenderInit => SenderInv
  <1> SUFFICES ASSUME SenderInit PROVE SenderInv
    OBVIOUS
  <1>1. ProcTypeOK /\ CallInv
    BY TypeInit, CallInit DEF SenderInit
  <1>2. call.at = "done"
    BY DEF SenderInit, ProcInit
  <1> QED
    BY <1>1, <1>2 DEF SenderInit, SenderInv, PlaceInv, LookupInv, PacketInv,
         NeverRefused, PacketInit, Cleared, packet_empty

\* A step of the cache that does not load the entry of p keeps it loaded.
LEMMA StaysLoaded ==
  ASSUME ProcTypeOK, [ProcNext]_procVars, NEW p \in Pids,
         procMap[p].mode # "Unknown"
  PROVE  procMap'[p].mode # "Unknown"
  <1>0. procMap \in [Pids -> Entries] /\ call.pid \in Pids
    BY DEF ProcTypeOK
  <1>1. ASSUME NEW q \in Pids, Turn(q) PROVE procMap'[p] = procMap[p]
    BY <1>1 DEF Turn, cacheVars
  <1>2. ASSUME NEW q \in Pids, NEW check \in BOOLEAN, GetProcessInfo(q, check)
        PROVE  procMap'[p].mode = procMap[p].mode
    <2>1. CASE Nothing(q) \/ BeginsFirst(q)
      BY <2>1 DEF Nothing, BeginsFirst
    <2>2. CASE BeginsRetry(q)
      BY <1>0, <2>2 DEF BeginsRetry, Entries
    <2>3. CASE BeginsZygote(q)
      BY <1>0, <2>3 DEF BeginsZygote, Entries
    <2> QED
      BY <1>2, <2>1, <2>2, <2>3, CallCases
  <1>3. CASE ReadCmdline
    BY <1>0, <1>3 DEF ReadCmdline, Entries
  <1>4. CASE ReadExecutable
    BY <1>0, <1>4, LoadFacts, ReflagType
  <1>5. CASE UNCHANGED procVars
    BY <1>5 DEF procVars, cacheVars
  <1> QED
    BY <1>1, <1>2, <1>3, <1>4, <1>5 DEF ProcNext

\* A step that changes neither packet nor place and is none of the cache's.
LEMMA SenderInvFrame ==
  ASSUME SenderInv, pc' = pc, UNCHANGED <<procVars, packetVars, index, b, got>>
  PROVE  SenderInv'
  <1>1. ProcTypeOK' /\ CallInv'
    BY DEF SenderInv, procVars, cacheVars, ProcTypeOK, CallInv
  <1>2. PlaceInv'
    BY DEF SenderInv, PlaceInv, procVars, cacheVars, Current
  <1>3. LookupInv'
    BY DEF SenderInv, LookupInv, procVars, cacheVars, packetVars, packet_empty
  <1>4. PacketInv' /\ NeverRefused'
    BY DEF SenderInv, PacketInv, NeverRefused, procVars, cacheVars, packetVars,
         packet_empty, ShouldCreate, Current, Entry
  <1> QED
    BY <1>1, <1>2, <1>3, <1>4 DEF SenderInv

\* Every step keeps the invariant.
LEMMA SenderInvStep == SenderInv /\ [SenderNext]_senderVars => SenderInv'
  <1> SUFFICES ASSUME SenderInv, [SenderNext]_senderVars PROVE SenderInv'
    OBVIOUS
  <1> USE DEF SenderInv
  <1>0. [ProcNext]_procVars
    BY CacheStep, CurrentPid
  <1>1. ProcTypeOK' /\ CallInv'
    BY <1>0, TypeStep, CallStep
  <1>2. ~packet_empty => procMap'[info].mode # "Unknown"
    BY <1>0, StaysLoaded DEF PacketInv
  \* Outside network_send, or leaving it: the new place has no obligations.
  <1>3. CASE LoopEnd \/ TestRound
    <2>1. /\ pc' \in {"loop", "done"} /\ b' = NULL
          /\ UNCHANGED <<got, procVars, packetVars>> /\ call.at = "done"
      BY <1>3 DEF LoopEnd, TestRound, EndRound, LookupInv, deviceVars
    <2> QED
      BY <1>1, <1>2, <2>1 DEF PlaceInv, LookupInv, PacketInv, NeverRefused, procVars,
           cacheVars, packetVars, packet_empty
  <1>4. CASE FreadBuffer \/ FreadEof \/ FreadFails
    <2>1. /\ pc' = "missed" /\ UNCHANGED <<procVars, packetVars>> /\ call.at = "done"
          /\ got' \in Nat
      BY <1>4 DEF FreadBuffer, FreadEof, FreadFails, Fread, LookupInv, PlaceInv
    <2>2. b' # NULL => b'.samples \in Seq(SampleType)
      BY <1>4, BufferTypes DEF FreadBuffer, FreadEof, FreadFails, Fread, roundVars, PlaceInv, BufferType
    <2> QED
      BY <1>1, <1>2, <2>1, <2>2 DEF PlaceInv, LookupInv, PacketInv, NeverRefused,
           procVars, cacheVars, packetVars, packet_empty
  <1>5. CASE BatchDone
    <2>1. /\ pc' \in {"loop", "done"} /\ UNCHANGED <<got, b, procVars, packetVars>>
          /\ call.at = "done"
      BY <1>5 DEF BatchDone, LookupInv, deviceVars, roundVars
    <2> QED
      BY <1>1, <1>2, <2>1 DEF PlaceInv, LookupInv, PacketInv, NeverRefused, procVars,
           cacheVars, packetVars, packet_empty
  <1>6. CASE SendStart
    <2>1. /\ call.at = "done" /\ UNCHANGED <<got, procVars>>
          /\ pc' \in {"sample", "aborted"}
      BY <1>6 DEF SendStart, LookupInv
    <2>2. CASE pc' = "sample"
      <3>1. /\ b' \in IF b = NULL THEN Leftovers ELSE {b}
            /\ StartBatch /\ index' = 0
        BY <1>6, <2>2 DEF SendStart
      <3>2. b'.samples \in Seq(SampleType)
        BY <3>1, BufferTypes DEF PlaceInv, BufferType
      <3>3. header'.quantity = 0
        BY <3>1 DEF StartBatch, Cleared
      <3> QED
        BY <1>1, <2>1, <2>2, <3>1, <3>2, <3>3 DEF PlaceInv, LookupInv, PacketInv,
             NeverRefused, procVars, cacheVars, packet_empty
    <2>3. CASE pc' = "aborted"
      <3>1. UNCHANGED <<b, packetVars>>
        BY <1>6, <2>3 DEF SendStart
      <3> QED
        BY <1>1, <1>2, <2>1, <2>3, <3>1 DEF PlaceInv, LookupInv, PacketInv,
             NeverRefused, procVars, cacheVars, packetVars, packet_empty
    <2> QED
      BY <2>1, <2>2, <2>3
  \* The loop of network_send.
  <1>7. CASE Lookup
    <2>1. /\ pc = "sample" /\ index < Len(b.samples) /\ pc' = "found"
          /\ GetProcessInfo(Current.pid, packet_empty) /\ call.at = "done"
          /\ UNCHANGED <<got, b, index, packetVars>>
      BY <1>7 DEF Lookup, GetProcessInfo, deviceVars, roundVars, sendVars
    <2>2. Current.pid \in Pids /\ packet_empty \in BOOLEAN
      BY <2>1, CurrentPid DEF packet_empty
    <2>3. call'.pid = Current.pid /\ Current' = Current
      BY <2>1 DEF GetProcessInfo, Current
    <2>4. PlaceInv'
      BY <2>1, <2>3 DEF PlaceInv
    <2>5. /\ call'.at # "done" /\ ~packet_empty => call'.why = "first"
          /\ call'.at = "done" => procMap'[call'.pid].mode # "Unknown"
      BY <2>1, <2>2 DEF GetProcessInfo, Why, First, RetryFailed, RetryZygote
    <2>6. LookupInv'
      BY <2>1, <2>5 DEF LookupInv, packetVars, packet_empty
    <2>7. PacketInv' /\ NeverRefused'
      BY <1>2, <2>1 DEF PacketInv, NeverRefused, packetVars, packet_empty
    <2> QED
      BY <1>1, <2>4, <2>6, <2>7
  <1>8. CASE LookupReads
    <2>1. /\ pc = "found" /\ pc' = "found" /\ call'.pid = call.pid /\ call'.why = call.why
          /\ call.at # "done"
          /\ UNCHANGED <<got, b, index, packetVars>>
      BY <1>8 DEF LookupReads, ReadCmdline, ReadExecutable, ProcTypeOK, deviceVars,
           roundVars, sendVars
    <2>2. call'.at = "done" => procMap'[call.pid].mode # "Unknown"
      <3>1. CASE ReadCmdline
        BY <3>1 DEF ReadCmdline, ProcTypeOK
      <3>2. CASE ReadExecutable
        BY <3>2, LoadFacts, ReflagType DEF ProcTypeOK
      <3> QED
        BY <1>8, <3>1, <3>2 DEF LookupReads
    <2>3. PlaceInv'
      BY <2>1 DEF PlaceInv, Current
    <2>4. LookupInv'
      BY <2>1, <2>2 DEF LookupInv, packetVars, packet_empty
    <2>5. PacketInv' /\ NeverRefused'
      BY <1>2, <2>1 DEF PacketInv, NeverRefused, packetVars, packet_empty
    <2> QED
      BY <1>1, <2>3, <2>4, <2>5
  <1>9. CASE SendFull \/ SendNot
    <2>1. /\ pc = "found" /\ pc' = "append" /\ call.at = "done"
          /\ UNCHANGED <<got, b, index, procVars>>
      BY <1>9 DEF SendFull, SendNot, deviceVars, roundVars, sendVars
    <2>2. PlaceInv'
      BY <2>1 DEF PlaceInv, Current, procVars, cacheVars
    <2>3. LookupInv'
      BY <2>1 DEF LookupInv, procVars, cacheVars
    <2>4. PacketInv' /\ NeverRefused'
      <3>1. CASE SendFull
        <4>1. header'.quantity = 0
          BY <3>1 DEF SendFull, Transmitted, ClearData, Cleared
        <4> QED
          BY <4>1 DEF PacketInv, NeverRefused, ShouldCreate, packet_empty
      <3>2. CASE SendNot
        <4>1. UNCHANGED packetVars /\ ~ShouldCreate(b, Current, Entry)
          BY <3>2 DEF SendNot
        <4>2. ShouldCreate(b, Current, Entry)' <=> ShouldCreate(b, Current, Entry)
          BY <2>1, <4>1 DEF ShouldCreate, packetVars, packet_empty, Current, Entry,
               procVars, cacheVars
        <4> QED
          BY <1>2, <4>1, <4>2 DEF PacketInv, NeverRefused, packetVars, packet_empty
      <3> QED
        BY <1>9, <3>1, <3>2
    <2> QED
      BY <1>1, <2>2, <2>3, <2>4
  <1>10. CASE AppendSample
    <2>1. /\ pc = "append" /\ call.at = "done" /\ ~ShouldCreate(b, Current, Entry)
          /\ UNCHANGED <<got, b, procVars>>
      BY <1>10 DEF AppendSample, LookupInv, NeverRefused, deviceVars, roundVars
    <2>2. /\ AppendToPacket(b, Current, Entry, missed_count)
          /\ index' = index + 1 /\ pc' = "sample"
      BY <1>10, <2>1 DEF AppendSample
    <2>3. /\ Current.pid \in Pids /\ Entry.mode # "Unknown"
          /\ index \in Nat /\ index < Len(b.samples) /\ b.samples \in Seq(SampleType)
      BY <2>1, CurrentPid DEF PlaceInv, LookupInv, Entry
    <2>4. PlaceInv'
      BY <2>1, <2>2, <2>3 DEF PlaceInv
    <2>5. LookupInv' /\ NeverRefused'
      BY <2>1, <2>2 DEF LookupInv, NeverRefused, procVars, cacheVars
    <2>6. PacketInv'
      <3>1. header'.quantity \in Nat
        <4>1. CASE packet_empty
          BY <2>2, <4>1 DEF AppendToPacket, FirstHeader
        <4>2. CASE ~packet_empty
          BY <2>2, <4>2 DEF AppendToPacket, PacketInv
        <4> QED
          BY <4>1, <4>2
      <3>2. info' \in Pids /\ procMap'[info'].mode # "Unknown"
        BY <1>2, <2>1, <2>2, <2>3 DEF AppendToPacket, PacketInv, Entry, procVars,
             cacheVars
      <3> QED
        BY <3>1, <3>2 DEF PacketInv
    <2> QED
      BY <1>1, <2>4, <2>5, <2>6
  <1>11. CASE SendRest
    <2>1. /\ pc' = "sent" /\ call.at = "done" /\ UNCHANGED <<got, b, procVars>>
          /\ ClearData
      BY <1>11 DEF SendRest, Transmitted, LookupInv, deviceVars, roundVars
    <2>2. header'.quantity = 0
      BY <2>1 DEF ClearData, Cleared
    <2> QED
      BY <1>1, <2>1, <2>2 DEF PlaceInv, LookupInv, PacketInv, NeverRefused, procVars,
           cacheVars, packet_empty
  <1>12. CASE TransmitFails
    <2>1. /\ pc' = "done" /\ call.at = "done" /\ UNCHANGED <<got, b, procVars>>
          /\ header'.quantity = 0 \/ UNCHANGED <<header, info>>
      BY <1>12 DEF TransmitFails, ClearData, Cleared, LookupInv, deviceVars, roundVars
    <2> QED
      BY <1>1, <1>2, <2>1 DEF PlaceInv, LookupInv, PacketInv, NeverRefused, procVars,
           cacheVars, packet_empty
  \* The environment.
  <1>13. CASE Miss \/ Ended \/ UNCHANGED senderVars
    <2>1. pc' = pc /\ UNCHANGED <<procVars, packetVars, index, b, got>>
      BY <1>13 DEF Miss, Ended, senderVars, deviceVars, roundVars, sendVars
    <2> QED
      BY <2>1, SenderInvFrame
  <1>14. CASE OtherProcess
    <2>1. pc' = pc /\ UNCHANGED <<cacheVars, packetVars, index, b, got>>
      BY <1>14 DEF OtherProcess, Turn, roundVars, sendVars
    <2>2. PlaceInv' /\ LookupInv'
      BY <2>1 DEF PlaceInv, LookupInv, cacheVars, packetVars, packet_empty, Current
    <2>3. PacketInv' /\ NeverRefused'
      BY <2>1 DEF PacketInv, NeverRefused, cacheVars, packetVars, packet_empty,
           ShouldCreate, Current, Entry
    <2> QED
      BY <1>1, <2>2, <2>3
  <1> QED
    BY <1>3, <1>4, <1>5, <1>6, <1>7, <1>8, <1>9, <1>10, <1>11, <1>12, <1>13, <1>14
       DEF SenderNext, Run

\* The inductive invariant holds.
LEMMA SenderInvariant == SenderSpec => []SenderInv
  BY SenderInvInit, SenderInvStep, PTL DEF SenderSpec

-----------------------------------------------------------------------------
(* The theorems                                                            *)

\* The branch of network_send that its comment (network.cpp:46) calls impossible is.
THEOREM AppendNeverRefuses == SenderSpec => []NeverRefused
  BY SenderInvariant, PTL DEF SenderInv

\* No step changes the entry a packet under construction points into.
LEMMA EntryStays ==
  ASSUME SenderInv, [SenderNext]_senderVars, ~packet_empty
  PROVE  procMap'[info] = procMap[info]
  <1> USE DEF SenderInv
  <1>0. /\ procMap \in [Pids -> Entries] /\ call.pid \in Pids
        /\ info \in Pids /\ procMap[info].mode # "Unknown"
    BY DEF ProcTypeOK, PacketInv
  <1>1. CASE Lookup
    <2>1. Current.pid \in Pids /\ packet_empty \in BOOLEAN
          /\ GetProcessInfo(Current.pid, packet_empty)
      BY <1>1, CurrentPid DEF Lookup, packet_empty
    <2>2. procMap' = procMap
      BY <2>1 DEF GetProcessInfo, Why, RetryFailed, RetryZygote
    <2> QED
      BY <2>2
  <1>2. CASE LookupReads
    <2>1. call.at # "done" /\ call.why = "first"
      BY <1>2 DEF LookupReads, ReadCmdline, ReadExecutable, LookupInv
    <2>2. call.pid # info
      BY <1>0, <2>1 DEF CallInv
    <2>3. CASE ReadCmdline
      BY <1>0, <2>2, <2>3 DEF ReadCmdline
    <2>4. CASE ReadExecutable
      BY <1>0, <2>2, <2>4, LoadFacts
    <2> QED
      BY <1>2, <2>3, <2>4 DEF LookupReads
  <1>3. CASE OtherProcess
    BY <1>3 DEF OtherProcess, Turn, cacheVars
  <1>4. CASE \/ LoopEnd \/ TestRound \/ SendStart \/ SendFull \/ SendNot
             \/ AppendSample \/ SendRest \/ TransmitFails \/ BatchDone
             \/ FreadBuffer \/ FreadEof \/ FreadFails \/ Miss \/ Ended
             \/ UNCHANGED senderVars
    BY <1>4 DEF LoopEnd, TestRound, SendStart, SendFull, SendNot, AppendSample,
         SendRest, TransmitFails, BatchDone, FreadBuffer, FreadEof, FreadFails, Fread, Miss, Ended,
         senderVars, procVars, cacheVars
  <1> QED
    BY <1>1, <1>2, <1>3, <1>4 DEF SenderNext, Run

\* The strings a packet under construction points to do not change before it is sent
\* (packet.cpp:157, network.cpp:36).
THEOREM PointersStayGood == SenderSpec => InfoStable
  <1>1. SenderInv /\ [SenderNext]_senderVars
          => [~packet_empty =>
                /\ procMap'[info].cmdline = procMap[info].cmdline
                /\ procMap'[info].executable = procMap[info].executable]_senderVars
    BY EntryStays
  <1> QED
    BY <1>1, SenderInvariant, PTL DEF SenderSpec, InfoStable

-----------------------------------------------------------------------------
(* What is sent: the invariant                                             *)

\* Names and mode of every loaded entry agree, but for the one being loaded.
NamesInv ==
  \A p \in Pids :
    procMap[p].mode # "Unknown" /\ (call.at = "done" \/ call.pid # p) =>
      (procMap[p].mode = "Kernel" <=> procMap[p].cmdline = "" /\ procMap[p].executable = "")

Sending == pc \in {"sample", "found", "append"}

\* The j-th of the reads r is the last of the first k that delivered a buffer.
Stands(r, j, k) == r[j] # NULL /\ \A i \in j + 1 .. k : r[i] = NULL

\* The buffer in memory.
BufferInv ==
  /\ b # NULL =>
       /\ b.core \in Cores /\ b.samples \in Seq(SampleType)
       /\ Len(b.samples) \in 0 .. BufferEntries
  /\ (Sending \/ pc = "sent") => b # NULL
  /\ wire # <<>> /\ pc # "done" => b # NULL /\ Len(b.samples) > 0

\* It is the one that the last of the successful reads delivered, or what was there before.
ReadsInv ==
  /\ reads \in Seq(BufferType \cup {NULL})
  /\ \A j \in 1 .. Len(reads) : reads[j] # NULL => Len(reads[j].samples) = BufferEntries
  /\ round = 3 /\ pc # "done" =>
       /\ \A j \in 1 .. Len(reads) : Stands(reads, j, Len(reads)) => b = reads[j]
       /\ b # NULL /\ (\A j \in 1 .. Len(reads) : reads[j] = NULL) =>
            \A n \in 1 .. Len(b.samples) : b.samples[n].nr = 0

\* Headers, also cleared ones.
Headers ==
  [kernel : {0, 1}, core : Cores \cup {0}, quantity : Nat, pid : Pids \cup {0},
   batch : Nat, missed : Int, first_index : Nat]

\* Types of the header, of the counts that go into it and of the place.
HeaderInv ==
  /\ pc \in {"loop", "missed", "sample", "found", "append", "sent", "done", "aborted"}
  /\ header \in Headers /\ current_index \in Nat
  /\ missed \in Nat /\ count \in Nat /\ missed_count \in Int /\ initial_missed \in Int

\* There is a batch for each read of the third round.
RoundInv ==
  /\ round \in 1 .. 3
  /\ round < 3 =>
       pc \in {"loop", "missed"} /\ wire = <<>> /\ reads = <<>> /\ header.batch = 0
  /\ round = 3 =>
       Len(reads) = IF pc \in {"missed", "aborted"} THEN header.batch + 1 ELSE header.batch
  /\ index \in 0 .. BufferEntries
  /\ Sending => current_index = index /\ round = 3 /\ header.batch # 0

\* A header and its samples.
Uniform(h, ss) ==
  /\ ss \in Seq(SampleType)
  /\ h.quantity = Len(ss) /\ h.quantity \in 1 .. MaxQuantity
  /\ h.core \in Cores
  /\ \A j \in 1 .. Len(ss) : ss[j].pid = h.pid
  /\ h.batch \in Nat /\ h.first_index \in Nat

\* Core and samples are the ones the batch and the item number in the header stand for, after
\* the reads r.
Identified(r, h, ss) ==
  /\ h.batch \in 1 .. Len(r)
  /\ \A j \in 1 .. h.batch : Stands(r, j, h.batch) =>
       /\ h.core = r[j].core
       /\ \A n \in 1 .. Len(ss) : ss[n] = r[j].samples[h.first_index + n]
  /\ (\A j \in 1 .. h.batch : r[j] = NULL) => \A n \in 1 .. Len(ss) : ss[n].nr = 0

\* A packet with header h may come after one with header g.
Follows(g, h) ==
  \/ /\ h.batch = g.batch /\ h.missed = g.missed /\ h.core = g.core
     /\ h.first_index = g.first_index + g.quantity
     /\ h.pid = g.pid => g.quantity = MaxQuantity
  \/ h.batch = g.batch + 1 /\ h.first_index = 0

LastHeader == wire[Len(wire)].header

\* The packet under construction goes on where the last one ended.
Continues(h) == IF wire = <<>> THEN h.first_index = 0 ELSE Follows(LastHeader, h)

\* The packet under construction.
BuildInv ==
  /\ header.quantity = Len(samples) /\ samples \in Seq(SampleType)
  /\ info = NULL <=> packet_empty
  /\ ~packet_empty =>
       /\ pc \in {"sample", "found", "append", "done"} /\ round = 3
       /\ Uniform(header, samples) /\ Identified(reads, header, samples) /\ Continues(header)
       /\ info = header.pid /\ info \in Pids
       /\ header.kernel = 1 <=> procMap[info].mode = "Kernel"
  /\ ~packet_empty /\ Sending =>
       /\ header.core = b.core /\ header.missed = missed_count
       /\ header.first_index + header.quantity = index

\* The next packet, when none is under construction.
GapInv ==
  /\ Sending /\ packet_empty =>
       IF wire # <<>> /\ LastHeader.batch = header.batch
       THEN /\ pc = "append"
            /\ LastHeader.first_index + LastHeader.quantity = index
            /\ LastHeader.missed = missed_count /\ LastHeader.core = b.core
            /\ Current.pid = LastHeader.pid => LastHeader.quantity = MaxQuantity
       ELSE index = 0 /\ (wire # <<>> => LastHeader.batch + 1 = header.batch)
  /\ round = 3 /\ wire # <<>> /\ pc \in {"missed", "loop", "sent"} =>
       LastHeader.batch = header.batch

\* Packets as they are sent.
PacketType ==
  [header : Headers, samples : Seq(SampleType), cmdline : CmdlineNames, executable : ExeNames]

\* The packets sent.
WireInv ==
  /\ wire \in Seq(PacketType)
  /\ \A i \in 1 .. Len(wire) :
       /\ Uniform(wire[i].header, wire[i].samples)
       /\ Identified(reads, wire[i].header, wire[i].samples)
       /\ wire[i].header.kernel = 1 <=> wire[i].cmdline = "" /\ wire[i].executable = ""
  /\ \A i \in 1 .. Len(wire) - 1 : Follows(wire[i].header, wire[i + 1].header)
  /\ wire # <<>> => wire[1].header.first_index = 0

\* The last packet of batch k is on the wire, if its buffer was a full one.
Covered(w, k) ==
  \E i \in 1 .. Len(w) :
    /\ w[i].header.batch = k
    /\ w[i].header.first_index + w[i].header.quantity = BufferEntries

\* All of batch k has been sent.
Over(k) ==
  \/ k < header.batch
  \/ k = header.batch /\ pc \in {"sent", "loop", "missed", "aborted"}

\* A buffer delivered is sent to its end.
CoverInv ==
  \A k \in 1 .. Len(reads) : Over(k) =>
    \A j \in 1 .. k : Stands(reads, j, k) => Covered(wire, k)

StreamInv ==
  /\ NamesInv /\ BufferInv /\ ReadsInv /\ HeaderInv /\ RoundInv
  /\ BuildInv /\ GapInv /\ WireInv /\ CoverInv

-----------------------------------------------------------------------------
(* What is sent: the steps                                                 *)

\* What a packet stands for does not depend on later reads.
LEMMA IdentifiedStays ==
  ASSUME NEW r, NEW q, Len(r) \in Nat, Len(q) \in Nat, Len(r) <= Len(q),
         \A i \in 1 .. Len(r) : q[i] = r[i],
         NEW h, NEW ss, Identified(r, h, ss)
  PROVE  Identified(q, h, ss)
  <1>1. PICK k : k = h.batch
    OBVIOUS
  <1>2. k \in 1 .. Len(r) /\ k \in 1 .. Len(q) /\ \A i \in 1 .. k : q[i] = r[i]
    BY <1>1 DEF Identified
  <1>3. \A j \in 1 .. k : Stands(q, j, k) => Stands(r, j, k) /\ q[j] = r[j]
    <2> SUFFICES ASSUME NEW j \in 1 .. k, Stands(q, j, k) PROVE Stands(r, j, k) /\ q[j] = r[j]
      OBVIOUS
    <2>1. \A i \in j + 1 .. k : i \in 1 .. k
      BY <1>2
    <2> QED
      BY <1>2, <2>1 DEF Stands
  <1>4. (\A j \in 1 .. k : q[j] = NULL) => \A j \in 1 .. k : r[j] = NULL
    BY <1>2
  <1> QED
    BY <1>1, <1>2, <1>3, <1>4 DEF Identified

\* The reads of the third round are recorded one after the other.
LEMMA ReadsGrow ==
  ASSUME ReadsInv, BufferInv, SenderInv, [SenderNext]_senderVars
  PROVE  /\ Len(reads) \in Nat /\ Len(reads') \in Nat /\ Len(reads) <= Len(reads')
         /\ \A i \in 1 .. Len(reads) : reads'[i] = reads[i]
         /\ reads' # reads =>
              /\ pc = "loop" /\ round = 3 /\ round' = 3 /\ pc' = "missed" /\ header' = header
              /\ wire' = wire /\ Len(reads') = Len(reads) + 1
              /\ reads' \in Seq(BufferType \cup {NULL})
              /\ reads'[Len(reads) + 1] # NULL =>
                   /\ b' = reads'[Len(reads) + 1]
                   /\ Len(reads'[Len(reads) + 1].samples) = BufferEntries
              /\ reads'[Len(reads) + 1] = NULL => b' = b
  <1>0. reads \in Seq(BufferType \cup {NULL}) /\ got \in Nat
    BY DEF ReadsInv, SenderInv, PlaceInv
  <1>1. ASSUME NEW x \in BufferType \cup {NULL}, Fread(x),
               IF x = NULL THEN b' = b ELSE b' = x /\ Len(x.samples) = BufferEntries
        PROVE  /\ reads' # reads =>
                    /\ pc = "loop" /\ round = 3 /\ round' = 3 /\ pc' = "missed"
                    /\ header' = header /\ wire' = wire
               /\ reads' = reads \/ (reads' = Append(reads, x))
    BY <1>1 DEF Fread, sendVars, packetVars
  <1>2. CASE FreadBuffer
    <2>1. PICK x \in FullBuffers(got) : b' = x /\ Fread(x)
      BY <1>2 DEF FreadBuffer
    <2>2. x \in BufferType /\ x # NULL /\ Len(x.samples) = BufferEntries
      BY <1>0, <2>1, BufferTypes DEF NumberedFrom
    <2>3. reads' = reads \/ reads' = Append(reads, x)
      BY <1>1, <2>1, <2>2
    <2>4. reads' # reads => /\ pc = "loop" /\ round = 3 /\ round' = 3 /\ pc' = "missed"
                            /\ header' = header /\ wire' = wire
      BY <1>1, <2>1, <2>2
    <2>5. CASE reads' = reads
      BY <1>0, <2>5
    <2>6. CASE reads' # reads
      <3>1. PICK r : r = Append(reads, x)
        OBVIOUS
      <3>2. /\ r \in Seq(BufferType \cup {NULL}) /\ Len(r) = Len(reads) + 1
            /\ Len(reads) \in Nat /\ r[Len(reads) + 1] = x
            /\ \A i \in 1 .. Len(reads) : r[i] = reads[i]
        BY <1>0, <2>2, <3>1
      <3>3. reads' = r
        BY <2>3, <2>6, <3>1
      <3> QED
        BY <2>1, <2>2, <2>4, <2>6, <3>2, <3>3
    <2> QED
      BY <2>5, <2>6
  <1>3. CASE FreadEof \/ FreadFails
    <2>1. Fread(NULL) /\ b' = b
      BY <1>3 DEF FreadEof, FreadFails
    <2>2. /\ reads' = reads \/ reads' = Append(reads, NULL)
          /\ reads' # reads => /\ pc = "loop" /\ round = 3 /\ round' = 3 /\ pc' = "missed"
                               /\ header' = header /\ wire' = wire
      BY <1>1, <2>1
    <2>3. CASE reads' = reads
      BY <1>0, <2>3
    <2>4. CASE reads' # reads
      <3>1. PICK r : r = Append(reads, NULL)
        OBVIOUS
      <3>2. /\ r \in Seq(BufferType \cup {NULL}) /\ Len(r) = Len(reads) + 1
            /\ Len(reads) \in Nat /\ r[Len(reads) + 1] = NULL
            /\ \A i \in 1 .. Len(reads) : r[i] = reads[i]
        BY <1>0, <3>1
      <3>3. reads' = r
        BY <2>2, <2>4, <3>1
      <3> QED
        BY <2>1, <2>2, <2>4, <3>2, <3>3
    <2> QED
      BY <2>3, <2>4
  <1>4. CASE \/ LoopEnd \/ TestRound \/ SendStart \/ Lookup \/ LookupReads \/ SendFull
             \/ SendNot \/ AppendSample \/ SendRest \/ TransmitFails \/ BatchDone \/ Miss
             \/ OtherProcess \/ Ended \/ UNCHANGED senderVars
    <2>1. reads' = reads
      BY <1>4 DEF LoopEnd, TestRound, SendStart, Lookup, LookupReads, SendFull, SendNot,
         AppendSample, SendRest, TransmitFails, BatchDone, Miss, OtherProcess, Ended,
         senderVars, deviceVars
    <2> QED
      BY <1>0, <2>1
  <1> QED
    BY <1>2, <1>3, <1>4 DEF SenderNext, Run

\* The flags set after a load are no names.
LEMMA ReflagNames ==
  ASSUME NEW e \in Entries, NEW why, NEW failed \in BOOLEAN
  PROVE  /\ Reflag(e, why, failed).cmdline = e.cmdline
         /\ Reflag(e, why, failed).executable = e.executable
  <1> DEFINE zygote == e.cmdline = "zygote"
             left == IF zygote THEN e.zchecks ELSE 0
  <1>1. CASE why = "zygote" /\ failed
    BY <1>1 DEF Reflag, Entries
  <1>2. CASE why = "zygote" /\ ~failed
    <2>1. Reflag(e, why, failed) = [e EXCEPT !.zflag = zygote, !.zchecks = left]
      BY <1>2 DEF Reflag
    <2> HIDE DEF zygote, left
    <2> QED
      BY <2>1 DEF Entries
  <1>3. CASE why # "zygote" /\ failed
    BY <1>3 DEF Reflag, Entries
  <1>4. CASE why # "zygote" /\ ~failed
    <2>1. Reflag(e, why, failed) =
            [e EXCEPT !.cflag = FALSE, !.cchecks = 0, !.zflag = zygote, !.zchecks = left]
      BY <1>4 DEF Reflag
    <2> HIDE DEF zygote, left
    <2> QED
      BY <2>1 DEF Entries
  <1> QED
    BY <1>1, <1>2, <1>3, <1>4

\* The mode a load finds out says whether it found names.
LEMMA LoadedMode ==
  ASSUME ProcTypeOK, call.pid \in Pids
  PROVE  Loaded(call.pid).mode = "Kernel" <=>
           Loaded(call.pid).cmdline = "" /\ Loaded(call.pid).executable = ""
  <1>1. procMap[call.pid] \in Entries
    BY DEF ProcTypeOK
  <1> QED
    BY <1>1 DEF Loaded, Entries

\* Names and mode go together.
LEMMA NamesStep ==
  ASSUME ProcTypeOK, NamesInv, [ProcNext]_procVars
  PROVE  NamesInv'
  <1>0. procMap \in [Pids -> Entries] /\ call.pid \in Pids
    BY DEF ProcTypeOK
  <1> SUFFICES ASSUME NEW p \in Pids, procMap'[p].mode # "Unknown",
                      call'.at = "done" \/ call'.pid # p
               PROVE  procMap'[p].mode = "Kernel" <=>
                        procMap'[p].cmdline = "" /\ procMap'[p].executable = ""
    BY DEF NamesInv
  <1>1. ASSUME NEW q \in Pids, NEW check \in BOOLEAN, GetProcessInfo(q, check)
        PROVE  /\ procMap'[p].mode = procMap[p].mode /\ procMap'[p].cmdline = procMap[p].cmdline
               /\ procMap'[p].executable = procMap[p].executable
               /\ call.at = "done"
    <2>1. call.at = "done"
      BY <1>1 DEF GetProcessInfo
    <2>2. CASE Nothing(q) \/ BeginsFirst(q)
      BY <2>1, <2>2 DEF Nothing, BeginsFirst
    <2>3. CASE BeginsRetry(q)
      BY <1>0, <2>1, <2>3 DEF BeginsRetry, Entries
    <2>4. CASE BeginsZygote(q)
      BY <1>0, <2>1, <2>4 DEF BeginsZygote, Entries
    <2> QED
      BY <1>1, <2>2, <2>3, <2>4, CallCases
  <1>2. ASSUME NEW q \in Pids, Turn(q) PROVE UNCHANGED cacheVars
    BY <1>2 DEF Turn
  <1>3. CASE ReadCmdline
    <2>1. p # call.pid /\ call'.pid = call.pid /\ procMap'[p] = procMap[p]
      BY <1>0, <1>3 DEF ReadCmdline, ProcTypeOK
    <2> QED
      BY <2>1 DEF NamesInv
  <1>4. CASE ReadExecutable
    <2>1. CASE p # call.pid
      <3>1. procMap'[p] = procMap[p]
        BY <1>0, <1>4, <2>1, LoadFacts
      <3> QED
        BY <2>1, <3>1 DEF NamesInv
    <2>2. CASE p = call.pid
      <3> DEFINE L == Loaded(call.pid)
                 R == Reflag(L, call.why, LoadFailed)
      <3>1. L \in Entries /\ LoadFailed \in BOOLEAN /\ procMap' = [procMap EXCEPT ![call.pid] = R]
        BY <1>4, LoadFacts
      <3>2. procMap'[p] = R
        BY <1>0, <2>2, <3>1
      <3>3. L.mode = "Kernel" <=> L.cmdline = "" /\ L.executable = ""
        BY <1>0, LoadedMode
      <3> HIDE DEF L
      <3>4. R.mode = L.mode /\ R.cmdline = L.cmdline /\ R.executable = L.executable
        BY <3>1, ReflagNames, ReflagType
      <3> QED
        BY <3>2, <3>3, <3>4
    <2> QED
      BY <2>1, <2>2
  <1>5. CASE UNCHANGED cacheVars
    BY <1>5 DEF NamesInv, cacheVars
  <1> QED
    BY <1>1, <1>2, <1>3, <1>4, <1>5 DEF ProcNext, NamesInv, procVars

\* There is a buffer in hand, and one with samples once some have been sent.
LEMMA BufferStep ==
  ASSUME SenderInv, RoundInv, BuildInv, BufferInv, [SenderNext]_senderVars
  PROVE  BufferInv'
  <1>0. BufferEntries \in Nat \ {0} /\ got \in Nat /\ round \in 1 .. 3
    BY SenderAssumption DEF SenderInv, PlaceInv, RoundInv
  <1> DEFINE InMemory(x) == /\ x.core \in Cores /\ x.samples \in Seq(SampleType)
                            /\ Len(x.samples) \in 0 .. BufferEntries
  <1>1. CASE LoopEnd \/ TestRound
    <2>1. /\ b' = NULL /\ pc' = IF round = 3 THEN "done" ELSE "loop"
          /\ wire' = wire
      BY <1>1 DEF LoopEnd, TestRound, EndRound, sendVars
    <2>2. pc' = "done" \/ wire' = <<>>
      BY <1>0, <2>1 DEF RoundInv
    <2> QED
      BY <2>1, <2>2 DEF BufferInv, Sending
  <1>2. CASE FreadBuffer
    <2>1. pc' = "missed" /\ b' \in FullBuffers(got)
      BY <1>2 DEF FreadBuffer, Fread
    <2>2. b' \in BufferType /\ b' # NULL /\ Len(b'.samples) = BufferEntries
      BY <1>0, <2>1, BufferTypes DEF NumberedFrom
    <2> QED
      BY <1>0, <2>1, <2>2 DEF BufferInv, BufferType, Sending
  <1>3. CASE SendStart
    <2>1. pc = "missed" /\ wire' = wire
      BY <1>3 DEF SendStart
    <2>2. CASE b' = b /\ (pc' = "sample" => b # NULL) /\ pc' \in {"sample", "aborted"}
      BY <2>1, <2>2 DEF BufferInv, Sending
    <2>3. CASE b = NULL /\ b' \in Leftovers
      <3>1. b' \in BufferType /\ Len(b'.samples) \in 0 .. BufferEntries /\ b' # NULL
        BY <2>3, BufferTypes
      <3> QED
        BY <2>1, <2>3, <3>1 DEF BufferInv, BufferType
    <2> QED
      BY <1>3, <2>2, <2>3 DEF SendStart
  <1>4. CASE SendFull \/ SendRest
    <2>1. b' = b /\ Sending /\ pc' \in {"append", "sent"}
      BY <1>4 DEF SendFull, SendRest, roundVars, Sending
    <2>2. ASSUME wire' # <<>> PROVE Len(b.samples) > 0
      <3>1. CASE SendFull
        BY <2>1, <3>1 DEF SendFull, SenderInv, PlaceInv
      <3>2. CASE SendRest /\ packet_empty
        BY <2>1, <2>2, <3>2 DEF SendRest, BufferInv, Sending
      <3>3. CASE SendRest /\ ~packet_empty
        <4>1. index = Len(b.samples) /\ header.first_index + header.quantity = index
              /\ header.first_index \in Nat /\ header.quantity \in 1 .. MaxQuantity
          BY <2>1, <3>3 DEF SendRest, BuildInv, Uniform
        <4> QED
          BY <4>1, PacketAssumption
      <3> QED
        BY <1>4, <3>1, <3>2, <3>3
    <2> QED
      BY <2>1, <2>2 DEF BufferInv, Sending
  <1>5. CASE FreadEof \/ FreadFails
    <2>1. UNCHANGED <<b, wire>> /\ pc = "loop" /\ pc' = "missed"
      BY <1>5 DEF FreadEof, FreadFails, Fread, sendVars
    <2> QED
      BY <2>1 DEF BufferInv, Sending
  <1>6. CASE Lookup \/ LookupReads \/ SendNot \/ AppendSample \/ TransmitFails \/ BatchDone
    <2>1. /\ UNCHANGED <<b, wire>> /\ pc \in {"sample", "found", "append", "sent"}
      BY <1>6 DEF Lookup, LookupReads, SendNot, AppendSample, TransmitFails, BatchDone,
         roundVars, sendVars
    <2> QED
      BY <2>1 DEF BufferInv, Sending
  <1>7. CASE Miss \/ OtherProcess \/ Ended \/ UNCHANGED senderVars
    <2>1. UNCHANGED <<b, wire, pc>>
      BY <1>7 DEF Miss, OtherProcess, Ended, senderVars, roundVars, sendVars
    <2> QED
      BY <2>1 DEF BufferInv, Sending
  <1> QED
    BY <1>1, <1>2, <1>3, <1>4, <1>5, <1>6, <1>7 DEF SenderNext, Run

\* The buffer in hand is the one read last.
LEMMA ReadsStep ==
  ASSUME SenderInv, RoundInv, BufferInv, ReadsInv, [SenderNext]_senderVars
  PROVE  ReadsInv'
  <1>0. /\ Len(reads) \in Nat /\ round \in 1 .. 3 /\ reads \in Seq(BufferType \cup {NULL})
        /\ \A j \in 1 .. Len(reads) : reads[j] # NULL => Len(reads[j].samples) = BufferEntries
    BY ReadsGrow DEF RoundInv, ReadsInv
  <1>1. CASE reads' # reads
    <2>1. PICK r, n, x : r = reads' /\ n = Len(reads) /\ x = r[n + 1]
      OBVIOUS
    <2>2. /\ n \in Nat /\ Len(r) = n + 1 /\ \A i \in 1 .. n : r[i] = reads[i]
          /\ r \in Seq(BufferType \cup {NULL})
          /\ x # NULL => b' = x /\ Len(x.samples) = BufferEntries
          /\ x = NULL => b' = b
          /\ round = 3 /\ pc = "loop"
      BY <1>1, <2>1, ReadsGrow
    <2>3. \A j \in 1 .. n + 1 : r[j] # NULL => Len(r[j].samples) = BufferEntries
      <3> SUFFICES ASSUME NEW j \in 1 .. n + 1, r[j] # NULL
                   PROVE  Len(r[j].samples) = BufferEntries
        OBVIOUS
      <3>1. CASE j = n + 1
        BY <2>1, <2>2, <3>1
      <3>2. CASE j # n + 1
        <4>1. j \in 1 .. n
          BY <2>2, <3>2
        <4> QED
          BY <1>0, <2>1, <2>2, <4>1
      <3> QED
        BY <3>1, <3>2
    <2>4. ASSUME NEW j \in 1 .. n + 1, Stands(r, j, n + 1) PROVE b' = r[j]
      <3>1. CASE j = n + 1
        BY <2>1, <2>2, <2>4, <3>1 DEF Stands
      <3>2. CASE j # n + 1
        <4>1. j \in 1 .. n /\ n + 1 \in j + 1 .. n + 1
              /\ \A i \in j + 1 .. n : i \in j + 1 .. n + 1 /\ i \in 1 .. n
          BY <2>2, <3>2
        <4>2. x = NULL
          BY <2>1, <2>4, <4>1 DEF Stands
        <4>3. Stands(reads, j, n) /\ r[j] = reads[j]
          BY <2>2, <2>4, <4>1 DEF Stands
        <4> QED
          BY <2>1, <2>2, <4>1, <4>2, <4>3 DEF ReadsInv
      <3> QED
        BY <3>1, <3>2
    <2>5. ASSUME b' # NULL, \A j \in 1 .. n + 1 : r[j] = NULL
          PROVE  \A k \in 1 .. Len(b'.samples) : b'.samples[k].nr = 0
      <3>1. n + 1 \in 1 .. n + 1 /\ \A j \in 1 .. n : j \in 1 .. n + 1
        BY <2>2
      <3>2. x = NULL /\ \A j \in 1 .. n : reads[j] = NULL
        BY <2>1, <2>2, <2>5, <3>1
      <3> QED
        BY <2>1, <2>2, <2>5, <3>2 DEF ReadsInv
    <2> QED
      BY <2>1, <2>2, <2>3, <2>4, <2>5 DEF ReadsInv
  <1>2. CASE SendStart
    <2>1. /\ pc = "missed" /\ round = 3 /\ reads' = reads /\ round' = round
          /\ b' = b \/ (b = NULL /\ b' \in Leftovers)
      BY <1>2 DEF SendStart
    <2>2. CASE b' = b
      BY <2>1, <2>2 DEF ReadsInv
    <2>3. CASE b = NULL /\ b' \in Leftovers
      <3>1. \A k \in 1 .. Len(b'.samples) : b'.samples[k].nr = 0
        BY <2>3, BufferTypes
      <3>2. \A j \in 1 .. Len(reads) : ~Stands(reads, j, Len(reads))
        BY <2>1, <2>3 DEF ReadsInv, Stands
      <3> QED
        BY <1>0, <2>1, <3>1, <3>2 DEF ReadsInv, Stands
    <2> QED
      BY <2>1, <2>2, <2>3
  <1>3. CASE LoopEnd \/ TestRound
    <2>1. b' = NULL /\ reads' = reads /\ pc' = IF round = 3 THEN "done" ELSE "loop"
      BY <1>3 DEF LoopEnd, TestRound, EndRound, deviceVars
    <2>2. pc' = "done" \/ Len(reads) = 0
      BY <1>0, <2>1 DEF RoundInv
    <2> QED
      BY <1>0, <2>1, <2>2 DEF ReadsInv, Stands
  <1>4. CASE reads' = reads /\ (FreadBuffer \/ FreadEof \/ FreadFails)
    <2>1. round # 3 /\ round' = round
      <3>1. PICK r, x : r = reads /\ Fread(x)
        BY <1>4 DEF FreadBuffer, FreadEof, FreadFails
      <3>2. reads' # reads \/ round # 3
        <4>1. Len(Append(reads, x)) = Len(reads) + 1
          BY <1>0
        <4>2. Append(reads, x) # reads
          BY <1>0, <4>1
        <4> QED
          BY <3>1, <4>2 DEF Fread
      <3> QED
        BY <1>4, <3>1, <3>2 DEF Fread
    <2> QED
      BY <1>0, <1>4, <2>1 DEF ReadsInv
  <1>5. CASE \/ Lookup \/ LookupReads \/ SendFull \/ SendNot \/ AppendSample \/ SendRest
             \/ TransmitFails \/ BatchDone \/ Miss \/ OtherProcess \/ Ended
             \/ UNCHANGED senderVars
    <2>1. UNCHANGED <<b, round, reads>> /\ (pc' # "done" => pc # "done")
      BY <1>5 DEF Lookup, LookupReads, SendFull, SendNot, AppendSample, SendRest,
         TransmitFails, BatchDone, Miss, OtherProcess, Ended, senderVars, deviceVars,
         roundVars
    <2>2. /\ reads' \in Seq(BufferType \cup {NULL})
          /\ \A j \in 1 .. Len(reads') :
               reads'[j] # NULL => Len(reads'[j].samples) = BufferEntries
      BY <1>0, <2>1
    <2>3. ASSUME round' = 3 /\ pc' # "done"
          PROVE  /\ \A j \in 1 .. Len(reads') : Stands(reads', j, Len(reads')) => b' = reads'[j]
                 /\ b' # NULL /\ (\A j \in 1 .. Len(reads') : reads'[j] = NULL) =>
                      \A n \in 1 .. Len(b'.samples) : b'.samples[n].nr = 0
      BY <2>1, <2>3, Zenon DEF ReadsInv
    <2> QED
      BY <2>2, <2>3 DEF ReadsInv
  <1> QED
    BY <1>1, <1>2, <1>3, <1>4, <1>5 DEF SenderNext, Run

\* What packet_append makes of the header.
LEMMA Appended ==
  ASSUME HeaderInv, NEW x, NEW s, NEW pi, NEW m, AppendToPacket(x, s, pi, m),
         x.core \in Cores, s.pid \in Pids, m \in Int
  PROVE  /\ header' \in Headers
         /\ header'.quantity = header.quantity + 1 /\ header'.batch = header.batch
         /\ packet_empty =>
              /\ header'.kernel = IF pi.mode = "Kernel" THEN 1 ELSE 0
              /\ header'.core = x.core /\ header'.pid = s.pid /\ header'.missed = m
              /\ header'.first_index = current_index /\ info' = s.pid
         /\ ~packet_empty =>
              /\ header'.kernel = header.kernel /\ header'.core = header.core
              /\ header'.pid = header.pid /\ header'.missed = header.missed
              /\ header'.first_index = header.first_index /\ info' = info
         /\ samples' = Append(samples, s) /\ current_index' = current_index + 1
  <1>1. CASE packet_empty
    <2>1. header.quantity = 0 /\ header' = [FirstHeader(x, s, pi, m) EXCEPT !.quantity = @ + 1]
      BY <1>1 DEF AppendToPacket, packet_empty
    <2> QED
      BY <1>1, <2>1 DEF AppendToPacket, FirstHeader, HeaderInv, Headers
  <1>2. CASE ~packet_empty
    <2>1. header' = [header EXCEPT !.quantity = @ + 1] /\ header \in Headers
      BY <1>2 DEF AppendToPacket, HeaderInv
    <2>2. /\ info' = info /\ samples' = Append(samples, s)
          /\ current_index' = current_index + 1
      BY <1>2 DEF AppendToPacket
    <2>3. header' \in Headers
      BY <2>1 DEF Headers
    <2>4. /\ header'.quantity = header.quantity + 1 /\ header'.batch = header.batch
          /\ header'.kernel = header.kernel /\ header'.core = header.core
          /\ header'.pid = header.pid /\ header'.missed = header.missed
          /\ header'.first_index = header.first_index
      BY <2>1 DEF Headers
    <2> QED
      BY <1>2, <2>2, <2>3, <2>4
  <1> QED
    BY <1>1, <1>2

\* A header that is cleared.
LEMMA ClearedHeader ==
  ASSUME NEW k \in Nat, header' = Cleared(k)
  PROVE  /\ header' \in Headers
         /\ header'.quantity = 0 /\ header'.batch = k /\ header'.first_index = 0
  BY DEF Cleared, Headers

\* The counts and the place keep their types.
LEMMA CountsStep ==
  ASSUME HeaderInv, [SenderNext]_senderVars
  PROVE  /\ pc' \in {"loop", "missed", "sample", "found", "append", "sent", "done", "aborted"}
         /\ missed' \in Nat /\ count' \in Nat
         /\ missed_count' \in Int /\ initial_missed' \in Int
  <1> USE DEF HeaderInv
  <1>1. CASE LoopEnd \/ TestRound \/ SendStart
    BY <1>1 DEF LoopEnd, TestRound, EndRound, SendStart, FgetsMissed, deviceVars
  <1>2. CASE Miss
    BY <1>2 DEF Miss, roundVars
  <1>3. pc' \in {"loop", "missed", "sample", "found", "append", "sent", "done", "aborted"}
    BY DEF SenderNext, Run, LoopEnd, TestRound, EndRound, SendStart, Lookup, LookupReads,
       SendFull, SendNot, AppendSample, SendRest, TransmitFails, BatchDone, FreadBuffer, FreadEof, FreadFails,
       Fread, Miss, OtherProcess, Ended, senderVars
  <1>4. CASE \/ Lookup \/ LookupReads \/ SendFull \/ SendNot \/ AppendSample \/ SendRest
             \/ TransmitFails \/ BatchDone \/ FreadBuffer \/ FreadEof \/ FreadFails \/ OtherProcess
             \/ Ended \/ UNCHANGED senderVars
    <2>1. UNCHANGED <<missed, count, missed_count, initial_missed>>
      BY <1>4 DEF Lookup, LookupReads, SendFull, SendNot, AppendSample, SendRest,
         TransmitFails, BatchDone, FreadBuffer, FreadEof, FreadFails, Fread, OtherProcess, Ended, senderVars,
         deviceVars, roundVars
    <2> QED
      BY <1>3, <2>1
  <1> QED
    BY <1>1, <1>2, <1>3, <1>4 DEF SenderNext, Run

\* The next sample, when it is appended.
LEMMA Appending ==
  ASSUME SenderInv, BufferInv, HeaderInv, AppendSample
  PROVE  /\ pc = "append" /\ pc' = "sample" /\ index' = index + 1
         /\ AppendToPacket(b, Current, Entry, missed_count)
         /\ ~ShouldCreate(b, Current, Entry)
         /\ b # NULL /\ b.core \in Cores /\ b.samples \in Seq(SampleType)
         /\ Current \in SampleType /\ Current.pid \in Pids
         /\ Entry.mode # "Unknown" /\ call.at = "done"
         /\ index \in Nat /\ index < Len(b.samples)
         /\ missed_count \in Int
         /\ UNCHANGED <<sent, sent_total, outbytes, wire, deviceVars, roundVars, procVars>>
  <1>1. /\ pc = "append" /\ pc' = "sample" /\ index' = index + 1
        /\ AppendToPacket(b, Current, Entry, missed_count)
        /\ ~ShouldCreate(b, Current, Entry)
        /\ UNCHANGED <<sent, sent_total, outbytes, wire, deviceVars, roundVars, procVars>>
    BY DEF AppendSample, SenderInv, NeverRefused
  <1>2. /\ b # NULL /\ b.core \in Cores /\ b.samples \in Seq(SampleType)
        /\ missed_count \in Int
    BY <1>1 DEF BufferInv, HeaderInv, Sending
  <1>3. index \in Nat /\ index < Len(b.samples) /\ call.at = "done" /\ Entry.mode # "Unknown"
    BY <1>1 DEF SenderInv, PlaceInv, LookupInv, Entry
  <1>4. Current \in SampleType /\ Current.pid \in Pids
    BY <1>1, <1>3, CurrentPid DEF SenderInv
  <1> QED
    BY <1>1, <1>2, <1>3, <1>4

\* The header keeps its type, and a new batch is begun by network_send only.
LEMMA HeaderStep ==
  ASSUME SenderInv, BufferInv, HeaderInv, [SenderNext]_senderVars
  PROVE  /\ HeaderInv'
         /\ IF pc = "missed" /\ pc' = "sample" THEN header'.batch = header.batch + 1
            ELSE header'.batch = header.batch
  <1>0. header.batch \in Nat
    BY DEF HeaderInv, Headers
  <1> SUFFICES /\ header' \in Headers /\ current_index' \in Nat
               /\ IF pc = "missed" /\ pc' = "sample" THEN header'.batch = header.batch + 1
                  ELSE header'.batch = header.batch
    BY CountsStep DEF HeaderInv
  <1>1. CASE SendStart /\ pc' = "sample"
    <2>1. pc = "missed" /\ header' = Cleared(header.batch + 1) /\ current_index' = 0
      BY <1>1 DEF SendStart, StartBatch
    <2> QED
      BY <1>0, <1>1, <2>1, ClearedHeader
  <1>2. CASE AppendSample
    <2>1. pc = "append" /\ current_index \in Nat
      BY <1>2, Appending DEF HeaderInv
    <2> QED
      BY <1>2, <2>1, Appending, Appended
  <1>3. CASE SendFull \/ SendRest \/ TransmitFails
    <2>1. /\ pc # "missed" /\ current_index' = current_index
          /\ header' = Cleared(header.batch) \/ header' = header
      BY <1>3 DEF SendFull, SendRest, TransmitFails, Transmitted, ClearData
    <2>2. CASE header' = Cleared(header.batch)
      BY <1>0, <2>1, <2>2, ClearedHeader DEF HeaderInv
    <2>3. CASE header' = header
      BY <2>1, <2>3 DEF HeaderInv
    <2> QED
      BY <2>1, <2>2, <2>3
  <1>4. CASE \/ LoopEnd \/ TestRound \/ (SendStart /\ pc' # "sample") \/ Lookup \/ LookupReads
             \/ SendNot \/ BatchDone \/ FreadBuffer \/ FreadEof \/ FreadFails \/ Miss \/ OtherProcess
             \/ Ended \/ UNCHANGED senderVars
    <2>1. UNCHANGED packetVars /\ ~(pc = "missed" /\ pc' = "sample")
      BY <1>4 DEF LoopEnd, TestRound, EndRound, SendStart, Lookup, LookupReads, SendNot,
         BatchDone, FreadBuffer, FreadEof, FreadFails, Fread, Miss, OtherProcess, Ended, senderVars
    <2> QED
      BY <2>1 DEF HeaderInv, packetVars
  <1> QED
    BY <1>1, <1>2, <1>3, <1>4 DEF SenderNext, Run

\* Rounds, reads and batches go together.
LEMMA RoundStep ==
  ASSUME SenderInv, BufferInv, ReadsInv, HeaderInv, RoundInv, [SenderNext]_senderVars
  PROVE  RoundInv'
  <1> USE DEF Sending
  <1>0. /\ round \in 1 .. 3 /\ header.batch \in Nat /\ Len(reads) \in Nat
        /\ BufferEntries \in Nat \ {0}
    BY SenderAssumption, ReadsGrow DEF RoundInv, HeaderInv, Headers
  <1>1. CASE LoopEnd \/ TestRound
    <2>1. /\ UNCHANGED <<reads, wire, header, index, current_index>>
          /\ pc' = IF round = 3 THEN "done" ELSE "loop"
          /\ round' = IF round = 3 THEN 3 ELSE round + 1
          /\ pc = "loop" \/ (pc = "missed" /\ round < 3)
      BY <1>1 DEF LoopEnd, TestRound, EndRound, deviceVars, sendVars, packetVars
    <2>2. round # 3 => Len(reads) = 0
      BY <1>0 DEF RoundInv
    <2> QED
      BY <1>0, <2>1, <2>2 DEF RoundInv
  <1>2. CASE FreadBuffer \/ FreadEof \/ FreadFails
    <2>1. PICK x : Fread(x)
      BY <1>2 DEF FreadBuffer, FreadEof, FreadFails
    <2>2. /\ UNCHANGED <<round, wire, header, index, current_index>>
          /\ pc = "loop" /\ pc' = "missed"
          /\ reads' = IF round = 3 THEN Append(reads, x) ELSE reads
      BY <2>1 DEF Fread, sendVars, packetVars
    <2>3. round = 3 => Len(reads') = Len(reads) + 1
      BY <2>2 DEF ReadsInv
    <2> QED
      BY <1>0, <2>2, <2>3 DEF RoundInv
  <1>3. CASE SendStart
    <2>1. /\ UNCHANGED <<reads, round, wire>> /\ pc = "missed" /\ round = 3
          /\ IF pc' = "sample" THEN header'.batch = header.batch + 1
             ELSE header'.batch = header.batch
      BY <1>3, HeaderStep DEF SendStart
    <2>2. \/ pc' = "sample" /\ index' = 0 /\ current_index' = 0
          \/ pc' = "aborted" /\ index' = index /\ current_index' = current_index
      BY <1>3 DEF SendStart, StartBatch, packetVars
    <2> QED
      BY <1>0, <2>1, <2>2 DEF RoundInv
  <1>4. CASE AppendSample
    <2>1. /\ pc = "append" /\ UNCHANGED <<reads, round, wire>>
          /\ pc' = "sample" /\ index' = index + 1
      BY <1>4, Appending DEF deviceVars, roundVars
    <2>2. current_index' = current_index + 1 /\ header'.batch = header.batch
      BY <1>4, Appending, Appended
    <2>3. index + 1 \in 0 .. BufferEntries
      BY <1>0, <2>1 DEF SenderInv, PlaceInv, BufferInv
    <2> QED
      BY <1>0, <2>1, <2>2, <2>3 DEF RoundInv
  <1>5. CASE \/ Lookup \/ LookupReads \/ SendFull \/ SendNot \/ SendRest \/ TransmitFails
             \/ BatchDone
    <2>1. /\ UNCHANGED <<reads, round, index, current_index>>
          /\ pc \in {"sample", "found", "sent"}
          /\ pc' \in {"sample", "found", "append"} => pc \in {"sample", "found", "append"}
          /\ pc' \notin {"missed", "aborted"}
      BY <1>5 DEF Lookup, LookupReads, SendFull, SendNot, SendRest, TransmitFails,
         BatchDone, deviceVars, roundVars, sendVars, packetVars
    <2>2. header'.batch = header.batch
      BY <2>1, HeaderStep
    <2>3. round = 3
      BY <1>0, <2>1 DEF RoundInv
    <2> QED
      BY <1>0, <2>1, <2>2, <2>3 DEF RoundInv
  <1>6. CASE Miss \/ OtherProcess \/ Ended \/ UNCHANGED senderVars
    <2>1. UNCHANGED <<pc, reads, round, index, current_index, header, wire>>
      BY <1>6 DEF Miss, OtherProcess, Ended, senderVars, deviceVars, roundVars, sendVars,
         packetVars
    <2> QED
      BY <1>0, <2>1 DEF RoundInv
  <1> QED
    BY <1>1, <1>2, <1>3, <1>4, <1>5, <1>6 DEF SenderNext, Run

-----------------------------------------------------------------------------
(* What is sent: the wire                                                  *)

\* What is known of one packet on the wire.
Sound(r, q) ==
  /\ Uniform(q.header, q.samples)
  /\ Identified(r, q.header, q.samples)
  /\ q.header.kernel = 1 <=> q.cmdline = "" /\ q.executable = ""

\* A packet goes on the wire.
LEMMA Sent ==
  ASSUME SenderInv, NamesInv, HeaderInv, BuildInv, WireInv, ~packet_empty,
         call.at = "done", Transmitted, reads' = reads
  PROVE  /\ WireInv' /\ wire' # <<>> /\ LastHeader' = header
         /\ header' = Cleared(header.batch) /\ samples' = <<>> /\ info' = NULL
  <1>1. PICK q : q = PacketOf(procMap[info])
    OBVIOUS
  <1>2. PICK n : n = Len(wire)
    OBVIOUS
  <1>3. /\ wire' = Append(wire, q)
        /\ header' = Cleared(header.batch) /\ samples' = <<>> /\ info' = NULL
    BY <1>1 DEF Transmitted, ClearData
  <1>4. /\ procMap[info] \in Entries /\ procMap[info].mode # "Unknown" /\ info \in Pids
    BY DEF SenderInv, ProcTypeOK, PacketInv
  <1>5. /\ q \in PacketType /\ q.header = header /\ q.samples = samples
        /\ q.cmdline = procMap[info].cmdline /\ q.executable = procMap[info].executable
    BY <1>1, <1>4 DEF PacketOf, PacketType, HeaderInv, BuildInv, Entries
  <1>6. q.header.kernel = 1 <=> q.cmdline = "" /\ q.executable = ""
    BY <1>4, <1>5 DEF NamesInv, BuildInv
  <1>7. Sound(reads, q) /\ Continues(q.header) /\ q.header.batch \in Nat
    BY <1>5, <1>6 DEF BuildInv, Sound, HeaderInv, Headers
  <1>8. /\ wire' \in Seq(PacketType) /\ n \in Nat /\ Len(wire') = n + 1 /\ wire'[n + 1] = q
        /\ wire' # <<>> /\ \A i \in 1 .. n : wire'[i] = wire[i]
    <2>1. wire \in Seq(PacketType)
      BY DEF WireInv
    <2> QED
      BY <1>2, <1>3, <1>5, <2>1
  <1>9. ASSUME NEW i \in 1 .. n + 1
        PROVE  Sound(reads, wire'[i])
    <2>1. CASE i = n + 1
      BY <1>7, <1>8, <2>1
    <2>2. CASE i # n + 1
      <3>1. i \in 1 .. n /\ wire'[i] = wire[i]
        BY <1>8, <2>2
      <3> QED
        BY <1>2, <3>1 DEF WireInv, Sound
    <2> QED
      BY <2>1, <2>2
  <1>10. ASSUME NEW i \in 1 .. (n + 1) - 1
         PROVE  Follows(wire'[i].header, wire'[i + 1].header)
    <2>1. i \in 1 .. n /\ wire'[i] = wire[i]
      BY <1>8
    <2>2. CASE i = n
      <3>1. wire'[i + 1] = q /\ wire # <<>> /\ LastHeader = wire[i].header
        BY <1>2, <1>8, <2>1, <2>2 DEF LastHeader
      <3> QED
        BY <1>7, <2>1, <3>1 DEF Continues
    <2>3. CASE i # n
      <3>1. i \in 1 .. n - 1 /\ wire'[i + 1] = wire[i + 1]
        BY <1>8, <2>1, <2>3
      <3> QED
        BY <1>2, <2>1, <3>1 DEF WireInv
    <2> QED
      BY <2>2, <2>3
  <1>11. wire' # <<>> /\ wire'[1].header.first_index = 0
    <2>1. CASE wire = <<>>
      <3>1. n = 0
        BY <1>2, <2>1
      <3>2. wire'[1] = q
        BY <1>8, <3>1
      <3>3. q.header.first_index = 0
        BY <1>7, <2>1 DEF Continues
      <3> QED
        BY <1>8, <3>2, <3>3
    <2>2. CASE wire # <<>>
      <3>1. wire \in Seq(PacketType) /\ wire[1].header.first_index = 0
        BY <2>2 DEF WireInv
      <3>2. 1 \in 1 .. n
        BY <1>2, <2>2, <3>1
      <3>3. wire'[1] = wire[1]
        BY <1>8, <3>2
      <3> QED
        BY <1>8, <3>1, <3>3
    <2> QED
      BY <2>1, <2>2
  <1>12. LastHeader' = header
    BY <1>5, <1>8 DEF LastHeader
  <1>13. WireInv'
    BY <1>8, <1>9, <1>10, <1>11 DEF WireInv, Sound, Follows
  <1> QED
    BY <1>3, <1>11, <1>12, <1>13

\* The wire stays as it is.
LEMMA WireKept ==
  ASSUME SenderInv, BufferInv, ReadsInv, WireInv, [SenderNext]_senderVars, wire' = wire
  PROVE  WireInv'
  <1>1. PICK r : r = reads'
    OBVIOUS
  <1>2. /\ Len(reads) \in Nat /\ Len(r) \in Nat /\ Len(reads) <= Len(r)
        /\ \A i \in 1 .. Len(reads) : r[i] = reads[i]
    BY <1>1, ReadsGrow
  <1>3. ASSUME NEW i \in 1 .. Len(wire)
        PROVE  Sound(r, wire[i])
    <2>1. Sound(reads, wire[i])
      BY DEF WireInv, Sound
    <2>2. Identified(r, wire[i].header, wire[i].samples)
      BY <1>2, <2>1, IdentifiedStays DEF Sound
    <2> QED
      BY <2>1, <2>2 DEF Sound
  <1> QED
    BY <1>1, <1>3 DEF WireInv, Sound, Follows

\* The end of a batch: no packet under construction means there was no sample.
LEMMA BatchEnd ==
  ASSUME SenderInv, BufferInv, GapInv, SendRest, packet_empty
  PROVE  Len(b.samples) = 0 /\ wire = <<>>
  <1>1. pc = "sample" /\ index = Len(b.samples) /\ Sending
    BY DEF SendRest, Sending
  <1>2. index = 0
    BY <1>1 DEF GapInv
  <1> QED
    BY <1>1, <1>2 DEF BufferInv

\* The wire after any step.
LEMMA WireStep ==
  ASSUME SenderInv, NamesInv, BufferInv, ReadsInv, HeaderInv, BuildInv, WireInv,
         [SenderNext]_senderVars
  PROVE  WireInv'
  <1>1. CASE SendFull
    BY <1>1, Sent DEF SendFull, ShouldCreate, deviceVars
  <1>2. CASE SendRest /\ ~packet_empty
    <2>1. call.at = "done" /\ Transmitted /\ reads' = reads
      BY <1>2 DEF SendRest, SenderInv, LookupInv, deviceVars
    <2> QED
      BY <1>2, <2>1, Sent
  <1>3. CASE \/ LoopEnd \/ TestRound \/ SendStart \/ Lookup \/ LookupReads \/ SendNot
             \/ AppendSample \/ (SendRest /\ packet_empty) \/ TransmitFails \/ BatchDone
             \/ FreadBuffer \/ FreadEof \/ FreadFails \/ Miss \/ OtherProcess \/ Ended
             \/ UNCHANGED senderVars
    <2>1. wire' = wire
      BY <1>3 DEF LoopEnd, TestRound, SendStart, Lookup, LookupReads, SendNot,
         AppendSample, SendRest, TransmitFails, BatchDone, FreadBuffer, FreadEof, FreadFails, Fread, Miss,
         OtherProcess, Ended, senderVars, sendVars
    <2> QED
      BY <2>1, WireKept
  <1> QED
    BY <1>1, <1>2, <1>3 DEF SenderNext, Run

-----------------------------------------------------------------------------
(* What is sent: the packet under construction                             *)

\* No packet is under construction.
LEMMA BuildCleared ==
  ASSUME header'.quantity = 0, samples' = <<>>, info' = NULL
  PROVE  BuildInv'
  BY DEF BuildInv, packet_empty

\* The packet under construction stays as it is.
LEMMA BuildKept ==
  ASSUME SenderInv, BufferInv, ReadsInv, BuildInv, HeaderInv, [SenderNext]_senderVars,
         UNCHANGED <<packetVars, wire>>,
         ~packet_empty =>
           /\ pc' \in {"sample", "found", "append", "done"} /\ round' = 3
           /\ Sending' => Sending /\ UNCHANGED <<b, missed_count, index>>
  PROVE  BuildInv'
  <1>1. PICK h : h = header
    OBVIOUS
  <1>2. PICK ss : ss = samples
    OBVIOUS
  <1>3. CASE packet_empty
    BY <1>3 DEF BuildInv, packetVars, packet_empty
  <1>4. CASE ~packet_empty
    <2>1. Identified(reads, h, ss)
      BY <1>1, <1>2, <1>4 DEF BuildInv
    <2>2. PICK r : r = reads'
      OBVIOUS
    <2>7. Identified(r, h, ss)
      BY <2>1, <2>2, ReadsGrow, IdentifiedStays
    <2>3. header' = h /\ samples' = ss /\ info' = info /\ wire' = wire
      BY <1>1, <1>2 DEF packetVars
    <2>4. Identified(reads, header, samples)'
      BY <2>2, <2>3, <2>7
    <2>5. Uniform(header, samples)' /\ Continues(header)'
      BY <1>1, <1>2, <1>4, <2>3 DEF BuildInv, Uniform, Continues, Follows, LastHeader
    <2>6. procMap'[info] = procMap[info]
      BY <1>4, EntryStays
    <2> QED
      BY <1>1, <1>2, <1>4, <2>3, <2>4, <2>5, <2>6 DEF BuildInv, packet_empty
  <1> QED
    BY <1>3, <1>4

\* A sample is appended.
LEMMA BuildAppended ==
  ASSUME SenderInv, BufferInv, ReadsInv, HeaderInv, RoundInv, BuildInv, GapInv,
         [SenderNext]_senderVars, AppendSample
  PROVE  BuildInv'
  <1>1. PICK s : s = Current
    OBVIOUS
  <1>2. /\ pc = "append" /\ pc' = "sample" /\ index' = index + 1
        /\ AppendToPacket(b, s, Entry, missed_count)
        /\ s \in SampleType /\ s.pid \in Pids /\ b.core \in Cores /\ missed_count \in Int
        /\ Entry.mode # "Unknown" /\ index \in Nat /\ index < Len(b.samples)
        /\ ~ShouldCreate(b, Current, Entry) /\ b # NULL /\ b.samples \in Seq(SampleType)
        /\ UNCHANGED <<wire, procMap, reads, b, round, missed_count>>
    BY <1>1, Appending DEF procVars, cacheVars, deviceVars, roundVars
  <1>3. /\ header' \in Headers /\ header'.quantity = header.quantity + 1
        /\ header'.batch = header.batch /\ samples' = Append(samples, s)
        /\ current_index' = current_index + 1
        /\ packet_empty =>
             /\ header'.kernel = IF Entry.mode = "Kernel" THEN 1 ELSE 0
             /\ header'.core = b.core /\ header'.pid = s.pid
             /\ header'.missed = missed_count
             /\ header'.first_index = current_index /\ info' = s.pid
        /\ ~packet_empty =>
             /\ header'.kernel = header.kernel /\ header'.core = header.core
             /\ header'.pid = header.pid /\ header'.missed = header.missed
             /\ header'.first_index = header.first_index /\ info' = info
    BY <1>2, Appended
  <1>4. /\ header.quantity = Len(samples) /\ samples \in Seq(SampleType)
        /\ info = NULL <=> packet_empty
    BY DEF BuildInv
  <1>5. /\ samples' \in Seq(SampleType) /\ Len(samples') = Len(samples) + 1
        /\ \A j \in 1 .. Len(samples) : samples'[j] = samples[j]
        /\ samples'[Len(samples) + 1] = s
    BY <1>2, <1>3, <1>4
  <1>6. Sending /\ round = 3 /\ current_index = index /\ header.batch \in Nat
    BY <1>2 DEF Sending, RoundInv, HeaderInv, Headers
  \* The item number of the sample, and what the header says of it.
  <1>7. header'.first_index + Len(samples) = index /\ header'.first_index \in Nat
    <2>1. CASE packet_empty
      BY <1>2, <1>3, <1>4, <1>6, <2>1 DEF packet_empty
    <2>2. CASE ~packet_empty
      BY <1>3, <1>4, <1>6, <2>2 DEF BuildInv, HeaderInv, Headers
    <2> QED
      BY <2>1, <2>2
  <1>8. header'.core = b.core /\ header'.pid = s.pid /\ header'.missed = missed_count
    <2>1. CASE packet_empty
      BY <1>3, <2>1
    <2>2. CASE ~packet_empty
      BY <1>1, <1>2, <1>3, <1>6, <2>2 DEF BuildInv, ShouldCreate
    <2> QED
      BY <2>1, <2>2
  <1>9. header'.quantity \in 1 .. MaxQuantity
    <2>1. header.quantity \in Nat /\ MaxQuantity \in Nat \ {0}
      BY PacketAssumption DEF HeaderInv, Headers
    <2>2. CASE packet_empty
      BY <1>3, <2>1, <2>2 DEF packet_empty
    <2>3. CASE ~packet_empty
      <3>1. header.quantity # MaxQuantity /\ header.quantity \in 1 .. MaxQuantity
        BY <1>2, <2>3 DEF ShouldCreate, BuildInv, Uniform
      <3> QED
        BY <1>3, <2>1, <3>1
    <2> QED
      BY <2>2, <2>3
  <1>10. \A j \in 1 .. Len(samples) + 1 : samples'[j].pid = header'.pid
    <2>1. CASE packet_empty
      <3>1. Len(samples) = 0
        BY <1>4, <2>1 DEF packet_empty
      <3> QED
        BY <1>5, <1>8, <3>1
    <2>2. CASE ~packet_empty
      <3>1. \A j \in 1 .. Len(samples) : samples[j].pid = header.pid
        BY <2>2 DEF BuildInv, Uniform
      <3>2. ASSUME NEW j \in 1 .. Len(samples) + 1
            PROVE  samples'[j].pid = header'.pid
        <4>1. CASE j = Len(samples) + 1
          BY <1>5, <1>8, <4>1
        <4>2. CASE j # Len(samples) + 1
          <5>1. j \in 1 .. Len(samples)
            BY <1>4, <4>2
          <5> QED
            BY <1>3, <1>5, <2>2, <3>1, <5>1
        <4> QED
          BY <4>1, <4>2
      <3> QED
        BY <3>2
    <2> QED
      BY <2>1, <2>2
  <1>11. Uniform(header, samples)'
    BY <1>2, <1>3, <1>4, <1>5, <1>6, <1>7, <1>8, <1>9, <1>10 DEF Uniform
  <1>12. Continues(header)'
    <2>1. CASE packet_empty
      <3>1. CASE wire # <<>> /\ LastHeader.batch = header.batch
        <4>1. /\ LastHeader.first_index + LastHeader.quantity = index
              /\ LastHeader.missed = missed_count /\ LastHeader.core = b.core
              /\ s.pid = LastHeader.pid => LastHeader.quantity = MaxQuantity
          BY <1>1, <1>6, <2>1, <3>1 DEF GapInv
        <4>2. Follows(LastHeader, header')
          BY <1>3, <1>6, <1>8, <2>1, <3>1, <4>1 DEF Follows
        <4> QED
          BY <1>2, <3>1, <4>2 DEF Continues, LastHeader, Follows
      <3>2. CASE ~(wire # <<>> /\ LastHeader.batch = header.batch)
        <4>1. index = 0 /\ (wire # <<>> => LastHeader.batch + 1 = header.batch)
          BY <1>6, <2>1, <3>2 DEF GapInv
        <4>2. header'.first_index = 0
          BY <1>3, <1>6, <2>1, <4>1
        <4>3. wire # <<>> => Follows(LastHeader, header')
          BY <1>3, <4>1, <4>2 DEF Follows
        <4> QED
          BY <1>2, <4>2, <4>3 DEF Continues, LastHeader, Follows
      <3> QED
        BY <3>1, <3>2
    <2>2. CASE ~packet_empty
      <3>1. Continues(header)
        BY <2>2 DEF BuildInv
      <3> QED
        BY <1>2, <1>3, <2>2, <3>1 DEF Continues, LastHeader, Follows
    <2> QED
      BY <2>1, <2>2
  <1>13. Identified(reads, header, samples)'
    <2>1. PICK k, h, ss, m : k = header.batch /\ h = header' /\ ss = samples' /\ m = Len(samples)
      OBVIOUS
    <2>2. /\ h.batch = k /\ k = Len(reads) /\ k \in Nat \ {0} /\ m \in Nat
          /\ h.core = b.core /\ h.first_index \in Nat /\ h.first_index + m = index
          /\ Len(ss) = m + 1 /\ ss[m + 1] = s /\ \A n \in 1 .. m : ss[n] = samples[n]
      BY <1>2, <1>3, <1>4, <1>5, <1>6, <1>7, <1>8, <2>1 DEF RoundInv
    <2>3. s = b.samples[index + 1] /\ index + 1 \in 1 .. Len(b.samples)
      BY <1>1, <1>2 DEF Current
    <2>4. ASSUME NEW n \in 1 .. m
          PROVE  /\ Identified(reads, header, samples) /\ h.first_index = header.first_index
                 /\ n \in 1 .. Len(samples)
      <3>1. ~packet_empty
        BY <1>4, <2>1 DEF packet_empty
      <3> QED
        BY <1>3, <2>1, <3>1 DEF BuildInv
    <2>5. ASSUME NEW j \in 1 .. k, Stands(reads, j, k)
          PROVE  h.core = reads[j].core /\ \A n \in 1 .. m + 1 : ss[n] = reads[j].samples[h.first_index + n]
      <3>1. b = reads[j]
        BY <1>2, <1>6, <2>2, <2>5 DEF ReadsInv
      <3>2. ASSUME NEW n \in 1 .. m + 1
            PROVE  ss[n] = reads[j].samples[h.first_index + n]
        <4>1. CASE n = m + 1
          <5>1. h.first_index + n = index + 1
            BY <2>2, <4>1
          <5> QED
            BY <2>2, <2>3, <3>1, <4>1, <5>1
        <4>2. CASE n # m + 1
          <5>1. n \in 1 .. m
            BY <2>2, <4>2
          <5> QED
            BY <2>1, <2>2, <2>4, <2>5, <5>1 DEF Identified
        <4> QED
          BY <4>1, <4>2
      <3> QED
        BY <2>2, <3>1, <3>2
    <2>6. ASSUME \A j \in 1 .. k : reads[j] = NULL
          PROVE  \A n \in 1 .. m + 1 : ss[n].nr = 0
      <3>1. s.nr = 0
        BY <1>2, <1>6, <2>2, <2>3, <2>6 DEF ReadsInv
      <3> SUFFICES ASSUME NEW n \in 1 .. m + 1 PROVE ss[n].nr = 0
        OBVIOUS
      <3>2. CASE n = m + 1
        BY <2>2, <3>1, <3>2
      <3>3. CASE n # m + 1
        <4>1. n \in 1 .. m
          BY <2>2, <3>3
        <4> QED
          BY <2>1, <2>2, <2>4, <2>6, <4>1 DEF Identified
      <3> QED
        BY <3>2, <3>3
    <2>7. Identified(reads, h, ss)
      BY <2>2, <2>5, <2>6 DEF Identified
    <2> QED
      BY <1>2, <2>1, <2>7
  <1>14. info' = header'.pid /\ info' \in Pids /\ info' # NULL
    BY <1>2, <1>3, <1>8, SenderAssumption DEF BuildInv
  <1>15. header'.kernel = 1 <=> procMap'[info'].mode = "Kernel"
    <2>1. CASE packet_empty
      BY <1>1, <1>2, <1>3, <2>1 DEF Entry
    <2>2. CASE ~packet_empty
      BY <1>2, <1>3, <2>2 DEF BuildInv
    <2> QED
      BY <2>1, <2>2
  <1>16. header'.quantity # 0 /\ header'.quantity = Len(samples')
    BY <1>3, <1>4, <1>5
  <1>17. header'.first_index + header'.quantity = index'
    BY <1>2, <1>3, <1>4, <1>7
  <1> QED
    BY <1>2, <1>5, <1>6, <1>8, <1>11, <1>12, <1>13, <1>14, <1>15, <1>16, <1>17
       DEF BuildInv, packet_empty

\* The packet under construction after any step.
LEMMA BuildStep ==
  ASSUME SenderInv, BufferInv, ReadsInv, HeaderInv, RoundInv, BuildInv, GapInv,
         [SenderNext]_senderVars
  PROVE  BuildInv'
  <1>0. header.batch \in Nat
    BY DEF HeaderInv, Headers
  <1>1. CASE \/ SendFull \/ (SendStart /\ pc' = "sample") \/ SendRest
             \/ (TransmitFails /\ ClearData)
    <2>1. /\ header' \in {Cleared(header.batch), Cleared(header.batch + 1)}
          /\ samples' = <<>> /\ info' = NULL
      BY <1>1 DEF SendFull, SendStart, SendRest, TransmitFails, Transmitted, ClearData,
         StartBatch
    <2> QED
      BY <1>0, <2>1, ClearedHeader, BuildCleared
  <1>2. CASE AppendSample
    BY <1>2, BuildAppended
  <1>3. CASE \/ LoopEnd \/ TestRound \/ FreadBuffer \/ FreadEof \/ FreadFails \/ BatchDone
             \/ (SendStart /\ pc' # "sample")
    <2>1. UNCHANGED <<packetVars, wire>> /\ pc \in {"loop", "missed", "sent"}
      BY <1>3 DEF LoopEnd, TestRound, FreadBuffer, FreadEof, FreadFails, Fread, BatchDone, SendStart, EndRound,
         sendVars
    <2>2. packet_empty
      BY <2>1 DEF BuildInv
    <2> QED
      BY <2>1, <2>2, BuildKept
  <1>4. CASE Lookup \/ LookupReads \/ SendNot \/ (TransmitFails /\ ~ClearData)
    <2>1. /\ UNCHANGED <<packetVars, wire, round, b, missed_count, index>>
          /\ pc \in {"sample", "found"} /\ pc' \in {"found", "append", "done"}
      BY <1>4 DEF Lookup, LookupReads, SendNot, TransmitFails, ClearData, roundVars,
         sendVars, packetVars
    <2>2. round = 3
      BY <2>1 DEF RoundInv, Sending
    <2> QED
      BY <2>1, <2>2, BuildKept DEF Sending
  <1>5. CASE Miss \/ OtherProcess \/ Ended \/ UNCHANGED senderVars
    <2>1. UNCHANGED <<packetVars, wire, round, b, missed_count, index, pc>>
      BY <1>5 DEF Miss, OtherProcess, Ended, senderVars, roundVars, sendVars
    <2> QED
      BY <2>1, BuildKept DEF BuildInv, Sending
  <1> QED
    BY <1>1, <1>2, <1>3, <1>4, <1>5 DEF SenderNext, Run

\* What follows a packet that was sent, after any step.
LEMMA GapStep ==
  ASSUME SenderInv, NamesInv, BufferInv, HeaderInv, RoundInv, BuildInv, GapInv, WireInv,
         [SenderNext]_senderVars
  PROVE  GapInv'
  <1> USE DEF Sending
  <1>0. header.batch \in Nat /\ round \in 1 .. 3
    BY DEF HeaderInv, Headers, RoundInv
  <1>1. CASE SendFull
    <2>1. pc' = "append" /\ pc = "found" /\ UNCHANGED <<index, b, missed_count>>
          /\ ~packet_empty /\ ShouldCreate(b, Current, Entry) /\ call.at = "done"
          /\ Transmitted /\ reads' = reads
      BY <1>1 DEF SendFull, ShouldCreate, deviceVars, roundVars
    <2>2. wire' # <<>> /\ LastHeader' = header /\ header' = Cleared(header.batch)
      BY <2>1, Sent
    <2>3. header'.batch = header.batch
      BY <1>0, <2>2, ClearedHeader
    <2>4. /\ header.first_index + header.quantity = index /\ header.missed = missed_count
          /\ header.core = b.core /\ info = header.pid
          /\ header.kernel = 1 <=> procMap[info].mode = "Kernel"
      BY <2>1 DEF BuildInv
    <2>5. Current.pid = header.pid => header.quantity = MaxQuantity
      BY <2>1, <2>4 DEF ShouldCreate, Entry
    <2>6. Current' = Current
      BY <2>1 DEF Current
    <2> QED
      BY <2>1, <2>2, <2>3, <2>4, <2>5, <2>6 DEF GapInv
  <1>2. CASE SendRest
    <2>1. pc = "sample" /\ pc' = "sent" /\ reads' = reads
      BY <1>2 DEF SendRest, deviceVars
    <2>2. CASE packet_empty
      <3>1. wire' = <<>>
        BY <1>2, <2>2, BatchEnd DEF SendRest
      <3> QED
        BY <2>1, <3>1 DEF GapInv
    <2>3. CASE ~packet_empty
      <3>1. Transmitted /\ call.at = "done"
        BY <1>2, <2>3 DEF SendRest, SenderInv, LookupInv
      <3>2. LastHeader' = header /\ header' = Cleared(header.batch)
        BY <2>1, <2>3, <3>1, Sent
      <3>3. header'.batch = header.batch
        BY <1>0, <3>2, ClearedHeader
      <3> QED
        BY <2>1, <3>2, <3>3 DEF GapInv
    <2> QED
      BY <2>2, <2>3
  <1>3. CASE AppendSample
    <2>1. pc' = "sample" /\ header'.quantity = header.quantity + 1
      BY <1>3, Appending, Appended
    <2>2. header'.quantity # 0
      BY <2>1 DEF HeaderInv, Headers
    <2> QED
      BY <2>1, <2>2 DEF GapInv, packet_empty
  <1>4. CASE SendStart
    <2>1. pc = "missed" /\ round = 3 /\ wire' = wire
      BY <1>4 DEF SendStart
    <2>2. CASE pc' = "sample"
      <3>1. index' = 0 /\ header'.batch = header.batch + 1
        BY <1>4, <2>1, <2>2, HeaderStep DEF SendStart
      <3>2. wire # <<>> => LastHeader.batch = header.batch
        BY <2>1 DEF GapInv
      <3>3. LastHeader' = LastHeader
        BY <2>1 DEF LastHeader
      <3> QED
        BY <1>0, <2>1, <2>2, <3>1, <3>2, <3>3 DEF GapInv
    <2>3. CASE pc' # "sample"
      BY <1>4, <2>3 DEF SendStart, GapInv
    <2> QED
      BY <2>2, <2>3
  <1>5. CASE Lookup \/ LookupReads \/ SendNot
    <2>1. /\ pc \in {"sample", "found"} /\ pc' \in {"found", "append"}
          /\ UNCHANGED <<header, wire, index>>
      BY <1>5 DEF Lookup, LookupReads, SendNot, sendVars, packetVars
    <2>2. LastHeader' = LastHeader
      BY <2>1 DEF LastHeader
    <2> QED
      BY <2>1, <2>2 DEF GapInv, packet_empty
  <1>6. CASE TransmitFails
    BY <1>6 DEF TransmitFails, GapInv
  <1>7. CASE LoopEnd \/ TestRound
    <2>1. pc' = "done" \/ round < 3
      BY <1>0, <1>7 DEF LoopEnd, TestRound, EndRound
    <2>2. wire' = wire /\ pc' \in {"loop", "done"}
      BY <1>7 DEF LoopEnd, TestRound, EndRound, sendVars
    <2> QED
      BY <2>1, <2>2 DEF GapInv, RoundInv
  <1>8. CASE FreadBuffer \/ FreadEof \/ FreadFails \/ BatchDone
    <2>1. /\ UNCHANGED <<wire, header, round>>
          /\ \/ pc = "loop" /\ pc' = "missed"
             \/ pc = "sent" /\ pc' \in {"loop", "done"}
      BY <1>8 DEF FreadBuffer, FreadEof, FreadFails, Fread, BatchDone, deviceVars, roundVars, sendVars,
         packetVars
    <2>2. LastHeader' = LastHeader
      BY <2>1 DEF LastHeader
    <2> QED
      BY <2>1, <2>2 DEF GapInv
  <1>9. CASE Miss \/ OtherProcess \/ Ended \/ UNCHANGED senderVars
    <2>1. UNCHANGED <<pc, round, wire, header, index, b, missed_count>>
      BY <1>9 DEF Miss, OtherProcess, Ended, senderVars, deviceVars, roundVars, sendVars,
         packetVars
    <2>2. LastHeader' = LastHeader /\ Current' = Current
      BY <2>1 DEF LastHeader, Current
    <2> QED
      BY <2>1, <2>2 DEF GapInv, packet_empty
  <1> QED
    BY <1>1, <1>2, <1>3, <1>4, <1>5, <1>6, <1>7, <1>8, <1>9 DEF SenderNext, Run

\* What is sent stays sent.
LEMMA CoveredStays ==
  ASSUME NEW w \in Seq(PacketType), NEW q \in PacketType, NEW k, Covered(w, k)
  PROVE  Covered(Append(w, q), k)
  <1>1. PICK x : x = Append(w, q)
    OBVIOUS
  <1>2. Len(w) \in Nat /\ Len(x) = Len(w) + 1 /\ \A i \in 1 .. Len(w) : x[i] = w[i]
    BY <1>1
  <1>3. PICK i \in 1 .. Len(w) : /\ w[i].header.batch = k
                                 /\ w[i].header.first_index + w[i].header.quantity = BufferEntries
    BY DEF Covered
  <1>4. i \in 1 .. Len(x) /\ x[i] = w[i]
    BY <1>2
  <1> QED
    BY <1>1, <1>3, <1>4 DEF Covered

\* A packet sent is one more on the wire.
LEMMA WireGrows ==
  ASSUME SenderInv, HeaderInv, BuildInv, WireInv, Transmitted, ~packet_empty
  PROVE  \E q \in PacketType : wire' = Append(wire, q) /\ q.header = header
  <1>1. PICK q : q = PacketOf(procMap[info])
    OBVIOUS
  <1>2. procMap[info] \in Entries
    BY DEF SenderInv, ProcTypeOK, PacketInv
  <1>3. q \in PacketType /\ q.header = header
    BY <1>1, <1>2 DEF PacketOf, PacketType, HeaderInv, BuildInv, Entries
  <1> QED
    BY <1>1, <1>3 DEF Transmitted

\* The batches that are over stay covered, and the one that ends becomes so.
LEMMA CoverStep ==
  ASSUME SenderInv, StreamInv, [SenderNext]_senderVars
  PROVE  CoverInv'
  <1> USE DEF StreamInv
  <1>0. /\ header.batch \in Nat /\ Len(reads) \in Nat /\ wire \in Seq(PacketType)
        /\ BufferEntries \in Nat \ {0} /\ round \in 1 .. 3
    BY ReadsGrow, SenderAssumption DEF HeaderInv, Headers, WireInv, RoundInv
  <1>1. ASSUME NEW k, Covered(wire, k) PROVE Covered(wire', k)
    <2>1. CASE wire' = wire
      BY <1>1, <2>1
    <2>2. CASE Transmitted /\ ~packet_empty
      <3>1. PICK q \in PacketType : wire' = Append(wire, q)
        BY <2>2, WireGrows
      <3> QED
        BY <1>0, <1>1, <3>1, CoveredStays
    <2>3. wire' = wire \/ (Transmitted /\ ~packet_empty)
      BY DEF SenderNext, Run, LoopEnd, TestRound, SendStart, Lookup, LookupReads, SendFull,
         SendNot, AppendSample, SendRest, TransmitFails, BatchDone, FreadBuffer, FreadEof,
         FreadFails, Fread, Miss, OtherProcess, Ended, senderVars, sendVars, ShouldCreate
    <2> QED
      BY <2>1, <2>2, <2>3
  <1>2. ASSUME NEW k \in 1 .. Len(reads), NEW j \in 1 .. k, Stands(reads, j, k),
               Over(k)' => Over(k) \/ (SendRest /\ k = header.batch),
               Over(k)'
        PROVE  Covered(wire', k)
    <2>1. CASE Over(k)
      BY <1>1, <1>2, <2>1 DEF CoverInv
    <2>2. CASE SendRest /\ k = header.batch
      <3>1. Sending /\ round = 3 /\ pc = "sample" /\ index = Len(b.samples)
        BY <2>2 DEF SendRest, Sending, RoundInv
      <3>2. Len(reads) = k /\ b = reads[j] /\ Len(b.samples) = BufferEntries
        <4>1. Len(reads) = k
          BY <2>2, <3>1 DEF RoundInv
        <4>2. j \in 1 .. Len(reads) /\ b = reads[j] /\ reads[j] # NULL
          BY <1>2, <3>1, <4>1 DEF ReadsInv, Stands
        <4> QED
          BY <4>1, <4>2 DEF ReadsInv
      <3>3. ~packet_empty
        BY <1>0, <2>2, <3>2, BatchEnd
      <3>4. Transmitted /\ header.first_index + header.quantity = BufferEntries
        BY <2>2, <3>1, <3>2, <3>3 DEF SendRest, BuildInv
      <3>5. PICK q \in PacketType : wire' = Append(wire, q) /\ q.header = header
        BY <3>3, <3>4, WireGrows
      <3>6. PICK x, n : x = Append(wire, q) /\ n = Len(wire) + 1
        OBVIOUS
      <3>7. n \in 1 .. Len(x) /\ x[n] = q
        BY <1>0, <3>6
      <3>8. x[n].header.batch = k /\ x[n].header.first_index + x[n].header.quantity = BufferEntries
        BY <2>2, <3>4, <3>5, <3>7
      <3> QED
        BY <3>5, <3>6, <3>7, <3>8 DEF Covered
    <2> QED
      BY <1>2, <2>1, <2>2
  <1>3. CASE reads' # reads
    <2>1. PICK r : r = reads'
      OBVIOUS
    <2>2. /\ pc = "loop" /\ pc' = "missed" /\ header' = header /\ round = 3
          /\ Len(r) = Len(reads) + 1 /\ \A i \in 1 .. Len(reads) : r[i] = reads[i]
      BY <1>3, <2>1, ReadsGrow
    <2>3. header.batch = Len(reads)
      BY <2>2 DEF RoundInv
    <2>4. ASSUME NEW k \in 1 .. Len(r), NEW j \in 1 .. k, Stands(r, j, k), Over(k)'
          PROVE  Covered(wire', k)
      <3>1. k \in 1 .. Len(reads) /\ Over(k)
        BY <1>0, <2>2, <2>3, <2>4 DEF Over
      <3>2. j \in 1 .. Len(reads) /\ \A i \in j + 1 .. k : i \in 1 .. Len(reads)
        BY <1>0, <3>1
      <3>3. Stands(reads, j, k)
        BY <2>2, <2>4, <3>2 DEF Stands
      <3> QED
        BY <1>2, <2>4, <3>1, <3>3
    <2> QED
      BY <2>1, <2>4 DEF CoverInv
  <1>4. CASE reads' = reads
    <2>1. ASSUME NEW k \in 1 .. Len(reads), Over(k)'
          PROVE  Over(k) \/ (SendRest /\ k = header.batch)
      <3>1. CASE SendRest
        <4>1. header'.batch = header.batch /\ pc = "sample"
          BY <3>1, HeaderStep DEF SendRest
        <4> QED
          BY <2>1, <3>1, <4>1 DEF Over
      <3>2. CASE ~SendRest
        <4>1. IF pc = "missed" /\ pc' = "sample" THEN header'.batch = header.batch + 1
              ELSE header'.batch = header.batch
          BY HeaderStep
        <4>2. pc' \in {"sent", "loop", "missed", "aborted"} =>
                pc \in {"sent", "loop", "missed", "aborted"}
          BY <3>2 DEF SenderNext, Run, LoopEnd, TestRound, EndRound, SendStart, Lookup,
             LookupReads, SendFull, SendNot, AppendSample, TransmitFails, BatchDone,
             FreadBuffer, FreadEof, FreadFails, Fread, Miss, OtherProcess, Ended, senderVars
        <4> QED
          BY <1>0, <2>1, <4>1, <4>2 DEF Over
      <3> QED
        BY <3>1, <3>2
    <2>2. ASSUME NEW k \in 1 .. Len(reads), Over(k)', NEW j \in 1 .. k, Stands(reads, j, k)
          PROVE  Covered(wire', k)
      BY <1>2, <2>1, <2>2
    <2> QED
      BY <1>4, <2>2 DEF CoverInv
  <1> QED
    BY <1>3, <1>4

\* The invariant of what is sent holds at first.
LEMMA StreamInit == SenderInit => StreamInv
  <1> SUFFICES ASSUME SenderInit PROVE StreamInv
    OBVIOUS
  <1>1. /\ header = Cleared(0) /\ samples = <<>> /\ info = NULL /\ current_index = 0
        /\ pc = "loop" /\ round = 1 /\ b = NULL /\ reads = <<>> /\ index = 0
        /\ wire = <<>> /\ count = 0 /\ missed = 0 /\ missed_count = 0 /\ initial_missed = 0
    BY DEF SenderInit, PacketInit
  <1>2. NamesInv
    BY DEF SenderInit, ProcInit, NamesInv, NewEntry
  <1>3. HeaderInv
    BY <1>1 DEF HeaderInv, Headers, Cleared
  <1>4. RoundInv /\ BufferInv /\ ReadsInv /\ CoverInv
    BY <1>1, SenderAssumption DEF RoundInv, BufferInv, ReadsInv, CoverInv, Sending, Cleared
  <1>5. BuildInv
    BY <1>1 DEF BuildInv, packet_empty, Cleared
  <1>6. GapInv
    BY <1>1 DEF GapInv, Sending
  <1>7. WireInv
    BY <1>1 DEF WireInv
  <1> QED
    BY <1>2, <1>3, <1>4, <1>5, <1>6, <1>7 DEF StreamInv

\* The inductive invariant of what is sent holds.
LEMMA StreamInvariant == SenderSpec => [](SenderInv /\ StreamInv)
  <1>1. ASSUME SenderInv, StreamInv, [SenderNext]_senderVars
        PROVE  StreamInv'
    <2>1. [ProcNext]_procVars
      BY <1>1, CacheStep, CurrentPid DEF SenderInv
    <2> QED
      BY <1>1, <2>1, NamesStep, BufferStep, ReadsStep, HeaderStep, RoundStep, BuildStep,
         GapStep, WireStep, CoverStep DEF StreamInv, SenderInv
  <1> QED
    BY <1>1, SenderInvInit, SenderInvStep, StreamInit, PTL DEF SenderSpec

\* What is known of the packets on the wire.
LEMMA OnWire ==
  ASSUME StreamInv
  PROVE  /\ Len(wire) \in Nat /\ DOMAIN wire = 1 .. Len(wire)
         /\ \A i \in DOMAIN wire :
              /\ Uniform(wire[i].header, wire[i].samples)
              /\ Identified(reads, wire[i].header, wire[i].samples)
              /\ wire[i].header.kernel = 1 <=> wire[i].cmdline = "" /\ wire[i].executable = ""
              /\ wire[i].header.batch \in Nat
         /\ \A i \in 1 .. Len(wire) - 1 : Follows(wire[i].header, wire[i + 1].header)
         /\ wire # <<>> => wire[1].header.first_index = 0
  <1>1. wire \in Seq(PacketType)
    BY DEF StreamInv, WireInv
  <1>2. Len(wire) \in Nat /\ DOMAIN wire = 1 .. Len(wire)
    BY <1>1
  <1> QED
    BY <1>2 DEF StreamInv, WireInv, Uniform

-----------------------------------------------------------------------------
(* The theorems on what is sent                                            *)

\* The program's variables keep their types; the packet under construction has as many
\* samples as its header says, and at most MaxQuantity (packet.cpp:149-178).
THEOREM SenderTyping == SenderSpec => []SenderTypeOK
  <1>1. ASSUME SenderInv, StreamInv PROVE SenderTypeOK
    <2>1. ProcTypeOK /\ round \in 1 .. 3 /\ index \in 0 .. BufferEntries
      BY <1>1 DEF SenderInv, StreamInv, RoundInv
    <2>2. pc \in {"loop", "missed", "sample", "found", "append", "sent", "done", "aborted"}
      BY <1>1 DEF StreamInv, HeaderInv
    <2>3. header.quantity = Len(samples) /\ (info = NULL <=> packet_empty)
      BY <1>1 DEF StreamInv, BuildInv
    <2>4. header.quantity \in 0 .. MaxQuantity
      BY <1>1, PacketAssumption DEF StreamInv, BuildInv, Uniform, packet_empty
    <2>5. info \in Pids \cup {NULL}
      BY <1>1 DEF StreamInv, BuildInv
    <2> QED
      BY <2>1, <2>2, <2>3, <2>4, <2>5 DEF SenderTypeOK
  <1> QED
    BY <1>1, StreamInvariant, PTL

\* A packet has 1 to MaxQuantity samples of one process and the core id of a buffer; where the
\* process stays the same, packets are cut only when full (packet.cpp:75-102).
THEOREM UniformPackets == SenderSpec => []PacketsUniform
  <1>1. ASSUME StreamInv PROVE PacketsUniform
    <2>1. ASSUME NEW i \in DOMAIN wire
          PROVE  /\ wire[i].header.quantity = Len(wire[i].samples)
                 /\ wire[i].header.quantity \in 1 .. MaxQuantity
                 /\ wire[i].header.core \in Cores
                 /\ \A s \in Range(wire[i].samples) : s.pid = wire[i].header.pid
      <3>1. Uniform(wire[i].header, wire[i].samples)
        BY <1>1, <2>1, OnWire
      <3> QED
        BY <3>1 DEF Uniform, Range
    <2>2. ASSUME NEW i \in 1 .. Len(wire) - 1,
                 wire[i].header.batch = wire[i + 1].header.batch,
                 wire[i].header.pid = wire[i + 1].header.pid
          PROVE  wire[i].header.quantity = MaxQuantity
      <3>1. /\ Follows(wire[i].header, wire[i + 1].header) /\ Len(wire) \in Nat
            /\ DOMAIN wire = 1 .. Len(wire)
        BY <1>1, OnWire
      <3>2. i \in DOMAIN wire
        BY <3>1
      <3>3. wire[i].header.batch \in Nat
        BY <1>1, <3>2, OnWire
      <3> QED
        BY <2>2, <3>1, <3>3 DEF Follows
    <2> QED
      BY <2>1, <2>2 DEF PacketsUniform
  <1> QED
    BY <1>1, StreamInvariant, PTL

\* The kernel flag, set when a packet begins, agrees with the names fetched when it ends
\* (packet.cpp:150-158, process_info.cpp:106).
THEOREM KernelFlagTrue == SenderSpec => []KernelIffNameless
  <1>1. StreamInv => KernelIffNameless
    BY OnWire DEF KernelIffNameless
  <1> QED
    BY <1>1, StreamInvariant, PTL

\* The packets of a batch follow each other, their item numbers go on from 0 without a gap and
\* they agree on core and missed, and no batch in between is left out (packet.cpp:149-178).
THEOREM BatchesTiled == SenderSpec => []BatchLayout
  <1>1. ASSUME StreamInv PROVE BatchLayout
    <2>0. /\ Len(wire) \in Nat /\ DOMAIN wire = 1 .. Len(wire)
          /\ \A i \in 1 .. Len(wire) - 1 : Follows(wire[i].header, wire[i + 1].header)
          /\ wire # <<>> => wire[1].header.first_index = 0
      BY <1>1, OnWire
    <2>1. \A i \in 1 .. Len(wire) - 1 :
            wire[i + 1].header.batch \in {wire[i].header.batch, wire[i].header.batch + 1}
      BY <2>0 DEF Follows
    <2>2. ASSUME NEW i \in DOMAIN wire, i > 1, wire[i - 1].header.batch = wire[i].header.batch
          PROVE  /\ wire[i].header.first_index =
                      wire[i - 1].header.first_index + wire[i - 1].header.quantity
                 /\ wire[i].header.core = wire[i - 1].header.core
                 /\ wire[i].header.missed = wire[i - 1].header.missed
      <3>1. i - 1 \in 1 .. Len(wire) - 1 /\ (i - 1) + 1 = i /\ i - 1 \in DOMAIN wire
        BY <2>0, <2>2
      <3>2. Follows(wire[i - 1].header, wire[i].header)
        BY <2>0, <3>1
      <3>3. wire[i - 1].header.batch \in Nat
        BY <1>1, <3>1, OnWire
      <3> QED
        BY <2>2, <3>2, <3>3 DEF Follows
    <2>3. ASSUME NEW i \in DOMAIN wire,
                 ~(i > 1 /\ wire[i - 1].header.batch = wire[i].header.batch)
          PROVE  wire[i].header.first_index = 0
      <3>1. CASE i = 1
        BY <2>0, <3>1
      <3>2. CASE i # 1
        <4>1. i > 1 /\ i - 1 \in 1 .. Len(wire) - 1 /\ (i - 1) + 1 = i
          BY <2>0, <3>2
        <4>2. Follows(wire[i - 1].header, wire[i].header)
          BY <2>0, <4>1
        <4> QED
          BY <2>3, <4>1, <4>2 DEF Follows
      <3> QED
        BY <3>1, <3>2
    <2> QED
      BY <2>1, <2>2, <2>3 DEF BatchLayout
  <1> QED
    BY <1>1, StreamInvariant, PTL

\* Each read makes one batch: its packets carry, in place, the samples of the buffer that the
\* last successful read delivered, and all of them (sender.cpp:222-226; network.cpp:34-51).
THEOREM BuffersOnce == SenderSpec => []EachBufferOnce
  <1>1. ASSUME SenderInv, StreamInv
        PROVE  EachBufferOnce
    <2>1. /\ reads \in Seq(BufferType \cup {NULL}) /\ DOMAIN reads = 1 .. Len(reads)
          /\ Len(reads) \in Nat /\ header.batch \in Nat
      BY <1>1 DEF StreamInv, ReadsInv, HeaderInv, Headers
    <2>2. ASSUME NEW i \in DOMAIN wire
          PROVE  /\ wire[i].header.batch \in DOMAIN reads
                 /\ \A j \in 1 .. wire[i].header.batch : Latest(j, wire[i].header.batch) =>
                      /\ wire[i].header.core = reads[j].core
                      /\ \A n \in DOMAIN wire[i].samples :
                           wire[i].samples[n] = reads[j].samples[wire[i].header.first_index + n]
                 /\ (\A j \in 1 .. wire[i].header.batch : reads[j] = NULL) =>
                      \A s \in Range(wire[i].samples) : s.nr = 0
      <3>1. PICK h, ss : h = wire[i].header /\ ss = wire[i].samples
        OBVIOUS
      <3>4. Uniform(h, ss) /\ Identified(reads, h, ss)
        BY <1>1, <2>2, <3>1, OnWire
      <3>2. Identified(reads, h, ss) /\ DOMAIN ss = 1 .. Len(ss)
        BY <3>4 DEF Uniform
      <3>3. \A j \in 1 .. h.batch : Latest(j, h.batch) => Stands(reads, j, h.batch)
        BY DEF Latest, Stands
      <3> QED
        BY <2>1, <3>1, <3>2, <3>3 DEF Identified, Range
    <2>3. ASSUME NEW k \in DOMAIN reads, NEW j \in DOMAIN reads, j <= k, Latest(j, k), Through(k)
          PROVE  \E i \in DOMAIN wire :
                   /\ wire[i].header.batch = k
                   /\ wire[i].header.first_index + wire[i].header.quantity = BufferEntries
      <3>1. k \in 1 .. Len(reads) /\ j \in 1 .. k /\ Stands(reads, j, k)
        BY <2>1, <2>3 DEF Latest, Stands
      <3>2. round = 3
        BY <1>1, <3>1 DEF StreamInv, RoundInv
      <3>3. Over(k)
        BY <1>1, <2>1, <2>3, <3>1, <3>2 DEF StreamInv, RoundInv, Through, Over
      <3>4. Covered(wire, k)
        BY <1>1, <3>1, <3>3 DEF StreamInv, CoverInv
      <3>5. DOMAIN wire = 1 .. Len(wire)
        BY <1>1, OnWire
      <3> QED
        BY <3>4, <3>5 DEF Covered
    <2> QED
      BY <2>2, <2>3 DEF EachBufferOnce
  <1> QED
    BY <1>1, StreamInvariant, PTL

-----------------------------------------------------------------------------
(* The bytes sent                                                          *)

\* The size of the packets of w.
TotalSize(w) == FoldLeft(LAMBDA n, packet : n + Size(packet), 0, w)
Sizes(w) == [i \in 1 .. Len(w) |-> Size(w[i])]

\* That is a sum of numbers.
LEMMA TotalIsSum ==
  ASSUME NEW w \in Seq(PacketType)
  PROVE  TotalSize(w) = Sum(Sizes(w), Len(w))
  <1>1. PICK n : n = Len(w)
    OBVIOUS
  <1>2. DOMAIN w = 1 .. n /\ n \in Nat
    BY <1>1
  <1> DEFINE v == Sizes(w)
             F(g) == g = [T \in SUBSET (1 .. n) |->
                           IF T = {} THEN 0 ELSE g[T \ {Max(T)}] + Size(w[Max(T)])]
  <1>3. TotalSize(w) = (CHOOSE g : F(g))[1 .. n]
    BY <1>2, Zenon DEF TotalSize, FoldLeft, MapThenFoldSet
  <1>4. \A i \in 1 .. n : v[i] = Size(w[i])
    BY <1>1 DEF Sizes
  <1> HIDE DEF v
  <1>5. ASSUME NEW g PROVE F(g) <=> Summing(g, v, n)
    <2>1. ASSUME NEW T \in SUBSET (1 .. n)
          PROVE  (IF T = {} THEN 0 ELSE g[T \ {Max(T)}] + Size(w[Max(T)]))
                   = IF T = {} THEN 0 ELSE g[T \ {Max(T)}] + v[Max(T)]
      <3>1. T # {} => Max(T) \in 1 .. n
        BY <1>2, MaxIn
      <3> QED
        BY <1>4, <3>1
    <2> QED
      BY <2>1, Zenon DEF Summing
  <1>6. (CHOOSE g : F(g)) = CHOOSE g : Summing(g, v, n)
    BY <1>5, Zenon
  <1>7. Sum(v, n) = (CHOOSE g : Summing(g, v, n))[1 .. n]
    BY Zenon DEF Sum
  <1> HIDE DEF F
  <1> QED
    BY <1>1, <1>3, <1>6, <1>7 DEF v

\* One more packet adds its size.
LEMMA TotalNext ==
  ASSUME NEW w \in Seq(PacketType), NEW q \in PacketType
  PROVE  /\ TotalSize(w) \in Nat /\ TotalSize(Append(w, q)) = TotalSize(w) + Size(q)
         /\ w = <<>> => TotalSize(w) = 0
  <1>1. PICK n, x : n = Len(w) /\ x = Append(w, q)
    OBVIOUS
  <1>2. n \in Nat /\ x \in Seq(PacketType) /\ Len(x) = n + 1 /\ x[n + 1] = q
        /\ \A k \in 1 .. n : x[k] = w[k]
    BY <1>1
  <1>3. ASSUME NEW p \in PacketType PROVE Size(p) \in Nat
    BY <1>3 DEF Size, PacketType, Headers
  <1>4. Sizes(w) \in [1 .. n -> Nat]
    <2>1. \A k \in 1 .. n : w[k] \in PacketType
      BY <1>1
    <2> QED
      BY <1>1, <1>3, <2>1 DEF Sizes
  <1>5. Sizes(x) \in [1 .. n + 1 -> Nat]
    <2>1. \A k \in 1 .. n + 1 : x[k] \in PacketType
      BY <1>2
    <2> QED
      BY <1>2, <1>3, <2>1 DEF Sizes
  <1>6. Sizes(x)[n + 1] = Size(q) /\ \A k \in 1 .. n : Sizes(x)[k] = Sizes(w)[k]
    BY <1>1, <1>2 DEF Sizes
  <1>7. PICK v, u : v = Sizes(w) /\ u = Sizes(x)
    OBVIOUS
  <1>8. /\ Sum(v, n) \in Nat /\ Sum(u, n + 1) = Sum(v, n) + u[n + 1]
        /\ n = 0 => Sum(v, n) = 0
    BY <1>2, <1>4, <1>5, <1>6, <1>7, SumNext
  <1>9. TotalSize(w) = Sum(v, n)
    BY <1>1, <1>7, TotalIsSum
  <1>10. TotalSize(x) = Sum(u, n + 1)
    BY <1>2, <1>7, TotalIsSum
  <1>11. w = <<>> => n = 0
    BY <1>1
  <1> QED
    BY <1>1, <1>6, <1>7, <1>8, <1>9, <1>10, <1>11

\* What has been sent is in outbytes, but for the batch in hand.
AccountInv ==
  /\ sent \in Nat /\ sent_total \in Nat /\ outbytes \in Nat
  /\ pc \in {"loop", "missed"} => outbytes = TotalSize(wire)
  /\ (Sending \/ pc = "sent") => outbytes + sent_total = TotalSize(wire)
  /\ Sending /\ index = 0 => sent = 0

\* A packet is sent and counted.
LEMMA CountSent ==
  ASSUME SenderInv, StreamInv, AccountInv, Sending, ~packet_empty, Transmitted,
         outbytes' = outbytes
  PROVE  sent' \in Nat /\ sent_total' \in Nat /\ outbytes' + sent_total' = TotalSize(wire')
  <1>1. PICK q, w : q = PacketOf(procMap[info]) /\ w = wire
    OBVIOUS
  <1>2. /\ procMap[info] \in Entries /\ header \in Headers /\ w \in Seq(PacketType)
        /\ samples \in Seq(SampleType)
    BY <1>1 DEF SenderInv, ProcTypeOK, PacketInv, StreamInv, HeaderInv, WireInv, BuildInv
  <1>3. q \in PacketType
    BY <1>1, <1>2 DEF PacketOf, PacketType, Entries
  <1>4. Size(q) \in Nat
    BY <1>3 DEF Size, PacketType, Headers
  <1>5. wire' = Append(w, q) /\ sent' = Size(q) /\ sent_total' = sent_total + sent'
    BY <1>1 DEF Transmitted
  <1>6. TotalSize(w) \in Nat /\ TotalSize(Append(w, q)) = TotalSize(w) + Size(q)
    BY <1>2, <1>3, TotalNext
  <1>7. sent_total \in Nat /\ outbytes \in Nat /\ outbytes + sent_total = TotalSize(w)
    BY <1>1 DEF AccountInv
  <1>8. TotalSize(wire') = TotalSize(w) + Size(q)
    BY <1>5, <1>6
  <1> QED
    BY <1>4, <1>5, <1>6, <1>7, <1>8

\* The account is kept.
LEMMA AccountStep ==
  ASSUME SenderInv, StreamInv, AccountInv, [SenderNext]_senderVars
  PROVE  AccountInv'
  <1>0. PICK total : total = TotalSize(wire)
    OBVIOUS
  <1>1. ASSUME wire' = wire PROVE TotalSize(wire)' = total
    BY <1>0, <1>1
  <1>2. CASE SendFull
    <2>1. /\ Sending /\ pc' = "append" /\ ~packet_empty /\ Transmitted
          /\ outbytes' = outbytes /\ index' = index
      BY <1>2 DEF SendFull, Sending, ShouldCreate
    <2>2. sent' \in Nat /\ sent_total' \in Nat /\ outbytes' + sent_total' = TotalSize(wire)'
      BY <2>1, CountSent
    <2>3. index # 0
      <3>1. header.first_index + header.quantity = index /\ Uniform(header, samples)
        BY <2>1 DEF StreamInv, BuildInv
      <3> QED
        BY <3>1, PacketAssumption DEF Uniform
    <2> QED
      BY <2>1, <2>2, <2>3 DEF AccountInv, Sending
  <1>3. CASE SendRest /\ ~packet_empty
    <2>1. Sending /\ pc' = "sent" /\ Transmitted /\ outbytes' = outbytes
      BY <1>3 DEF SendRest, Sending
    <2>2. sent' \in Nat /\ sent_total' \in Nat /\ outbytes' + sent_total' = TotalSize(wire)'
      BY <1>3, <2>1, CountSent
    <2> QED
      BY <2>1, <2>2 DEF AccountInv, Sending
  <1>4. CASE SendRest /\ packet_empty
    <2>1. /\ Sending /\ pc' = "sent" /\ UNCHANGED <<wire, sent, outbytes>>
          /\ sent_total' = sent_total + sent /\ index = Len(b.samples)
      BY <1>4 DEF SendRest, Sending
    <2>2. sent = 0
      <3>1. index = 0
        BY <1>4, <2>1 DEF StreamInv, GapInv, SendRest
      <3> QED
        BY <2>1, <3>1 DEF AccountInv
    <2>3. sent_total' = sent_total
      BY <2>1, <2>2 DEF AccountInv
    <2> QED
      BY <1>0, <1>1, <2>1, <2>3 DEF AccountInv, Sending
  <1>5. CASE SendStart
    <2>1. /\ pc = "missed" /\ UNCHANGED <<wire, outbytes>>
      BY <1>5 DEF SendStart
    <2>2. CASE pc' = "sample"
      <3>1. sent' = 0 /\ sent_total' = 0
        BY <1>5, <2>2 DEF SendStart
      <3> QED
        BY <1>0, <1>1, <2>1, <2>2, <3>1 DEF AccountInv, Sending
    <2>3. CASE pc' # "sample"
      <3>1. pc' = "aborted" /\ UNCHANGED <<sent, sent_total>>
        BY <1>5, <2>3 DEF SendStart
      <3> QED
        BY <2>1, <3>1 DEF AccountInv, Sending
    <2> QED
      BY <2>2, <2>3
  <1>6. CASE Lookup \/ LookupReads \/ SendNot
    <2>1. UNCHANGED <<wire, sent, sent_total, outbytes, index>> /\ Sending /\ pc' # "sent"
          /\ pc' \notin {"loop", "missed"}
      BY <1>6 DEF Lookup, LookupReads, SendNot, Sending, sendVars
    <2> QED
      BY <1>0, <1>1, <2>1 DEF AccountInv, Sending
  <1>7. CASE AppendSample
    <2>1. /\ UNCHANGED <<wire, sent, sent_total, outbytes>> /\ Sending /\ pc' = "sample"
          /\ index' = index + 1 /\ index \in Nat
      BY <1>7, Appending DEF Sending, StreamInv
    <2> QED
      BY <1>0, <1>1, <2>1 DEF AccountInv, Sending
  <1>8. CASE TransmitFails
    <2>1. UNCHANGED <<sent, sent_total, outbytes>> /\ pc' = "done"
      BY <1>8 DEF TransmitFails, sendVars
    <2> QED
      BY <2>1 DEF AccountInv, Sending
  <1>9. CASE BatchDone
    <2>1. /\ pc = "sent" /\ UNCHANGED <<wire, sent, sent_total, index>>
          /\ outbytes' = outbytes + sent_total /\ pc' \in {"loop", "done"}
      BY <1>9 DEF BatchDone
    <2> QED
      BY <1>0, <1>1, <2>1 DEF AccountInv, Sending
  <1>10. CASE LoopEnd \/ TestRound \/ FreadBuffer \/ FreadEof \/ FreadFails
    <2>1. UNCHANGED <<wire, sent, sent_total, outbytes, index>> /\ pc \in {"loop", "missed"}
          /\ pc' \in {"loop", "missed", "done"}
      BY <1>10 DEF LoopEnd, TestRound, EndRound, FreadBuffer, FreadEof, FreadFails, Fread, sendVars
    <2> QED
      BY <1>0, <1>1, <2>1 DEF AccountInv, Sending
  <1>11. CASE Miss \/ OtherProcess \/ Ended \/ UNCHANGED senderVars
    <2>1. UNCHANGED <<wire, sent, sent_total, outbytes, index, pc>>
      BY <1>11 DEF Miss, OtherProcess, Ended, senderVars, sendVars
    <2> QED
      BY <1>0, <1>1, <2>1 DEF AccountInv, Sending
  <1> QED
    BY <1>2, <1>3, <1>4, <1>5, <1>6, <1>7, <1>8, <1>9, <1>10, <1>11 DEF SenderNext, Run

\* The limit of -k is compared with what was really sent: when the next buffer is about to be
\* read, outbytes is the size of all packets so far (sender.cpp:234-235; network.cpp:43-55).
THEOREM BytesAccounted == SenderSpec => []Accounted
  <1>1. ASSUME SenderInit PROVE AccountInv
    <2>1. /\ pc = "loop" /\ wire = <<>> /\ sent = 0 /\ sent_total = 0 /\ outbytes = 0
      BY <1>1 DEF SenderInit
    <2>2. wire \in Seq(PacketType)
      BY <2>1
    <2>3. Sizes(wire) \in [1 .. 0 -> Nat]
      BY <2>1 DEF Sizes
    <2>4. TotalSize(wire) = Sum(Sizes(wire), 0)
      BY <2>1, <2>2, TotalIsSum
    <2>5. PICK v : v = Sizes(wire)
      OBVIOUS
    <2>6. PICK n, u : n = 0 /\ u = [k \in 1 .. n + 1 |-> 0]
      OBVIOUS
    <2>7. /\ n \in Nat /\ v \in [1 .. n -> Nat] /\ u \in [1 .. n + 1 -> Nat]
          /\ \A k \in 1 .. n : u[k] = v[k]
      BY <2>3, <2>5, <2>6
    <2>8. Sum(v, n) = 0
      <3>1. n = 0 => Sum(v, n) = 0
        BY <2>7, SumNext
      <3> QED
        BY <2>6, <3>1
    <2> QED
      BY <2>1, <2>4, <2>5, <2>6, <2>8 DEF AccountInv, Sending
  <1>2. AccountInv => Accounted
    BY DEF AccountInv, Accounted, TotalSize
  <1> QED
    BY <1>1, <1>2, StreamInvariant, AccountStep, PTL DEF SenderSpec
=============================================================================
