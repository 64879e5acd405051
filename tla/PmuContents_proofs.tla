-------------------------- MODULE PmuContents_proofs --------------------------
(***************************************************************************)
(* What the buffers hold and in which order they arrive, for any number of *)
(* CPUs, readers, writers, buffers and samples per buffer; and that the    *)
(* pool goes round as BufferLifecycle says.  Undisturbed is assumed as for *)
(* the placement of the buffers.                                           *)
(***************************************************************************)
EXTENDS PmuSampler_proofs

(***************************************************************************)
(* The inductive invariant.                                                *)
(***************************************************************************)

\* The last call of gatherSample on c whose sample, if it got a buffer, is written.
Done(c) == IF irq[c] = "write" THEN ticks[c] - 1 ELSE ticks[c]

\* Ticks are numbered without a gap inside a buffer, and a buffer has one CPU.
Unbroken ==
  \A b \in Buffers : \A i \in 1 .. Len(samples[b]) :
    samples[b][i] = <<core[b], First(b) + i - 1>>

\* What was published is complete.
Complete ==
  /\ \A b \in ToSet(full) : Len(samples[b]) = BufferEntries
  /\ \A r \in Readers : rbuf[r] # NULL => Len(samples[rbuf[r]]) = BufferEntries

\* The buffer in lbuffer[c] is c's and ends at c's last sample.
UpToDate ==
  \A c \in Cpus : Holds(c) # NULL =>
    /\ core[Holds(c)] = c
    /\ samples[Holds(c)] # <<>> => Latest(Holds(c)) = Done(c)

\* Per CPU, what was handed to readers comes before what is in full_buffers, that
\* in the order of the list, and all of it before what the CPU records now.
Ordered ==
  /\ DeliveryOrder
  /\ \A c \in Cpus : seen[c] <= Done(c)
  /\ \A i \in DOMAIN full : Latest(full[i]) <= Done(core[full[i]])
  /\ \A c \in Cpus : Holds(c) # NULL /\ samples[Holds(c)] # <<>> =>
       /\ seen[c] < First(Holds(c))
       /\ \A i \in DOMAIN full : core[full[i]] = c => Latest(full[i]) < First(Holds(c))

Contents == Unbroken /\ Complete /\ UpToDate /\ Ordered
-----------------------------------------------------------------------------
(***************************************************************************)
(* Facts the steps below share.                                            *)
(***************************************************************************)

\* The ticks and list elements the invariant compares are numbers and buffers.
LEMMA Measures ==
  ASSUME TypeInv
  PROVE  /\ \A c \in Cpus : Done(c) \in Int /\ seen[c] \in Nat
         /\ \A c \in Cpus : Holds(c) \in Buffers \cup {NULL}
         /\ DOMAIN full = 1 .. Len(full) /\ Len(full) \in Nat
         /\ \A i \in DOMAIN full : full[i] \in Buffers /\ full[i] \in ToSet(full)
         /\ \A b \in Buffers : core[b] \in Cpus /\ Len(samples[b]) \in Nat
         /\ \A b \in Buffers : Latest(b) \in Nat
         /\ \A b \in Buffers : samples[b] # <<>> => First(b) \in Nat /\ Len(samples[b]) > 0
<1> USE DEF TypeInv, Typed
<1>1. \A c \in Cpus : Done(c) \in Int /\ seen[c] \in Nat
  BY DEF Done
<1>2. \A c \in Cpus : Holds(c) \in Buffers \cup {NULL}
  BY DEF Holds
<1>3. /\ DOMAIN full = 1 .. Len(full) /\ Len(full) \in Nat
      /\ \A i \in DOMAIN full : full[i] \in Buffers /\ full[i] \in ToSet(full)
  BY LenProperties, ElementOfSeq DEF ToSet
<1>4. ASSUME NEW b \in Buffers
      PROVE  /\ core[b] \in Cpus /\ Len(samples[b]) \in Nat /\ Latest(b) \in Nat
             /\ samples[b] # <<>> => First(b) \in Nat /\ Len(samples[b]) > 0
  <2>1. samples[b] \in Seq(Sample) /\ core[b] \in Cpus /\ Len(samples[b]) \in Nat
    BY LenProperties
  <2>2. ASSUME samples[b] # <<>>
        PROVE  /\ Len(samples[b]) > 0
               /\ samples[b][1] \in Sample /\ samples[b][Len(samples[b])] \in Sample
    BY <2>1, <2>2, EmptySeq, ElementOfSeq
  <2> QED
    BY <2>1, <2>2 DEF Latest, First, Sample
<1> QED
  BY <1>1, <1>2, <1>3, <1>4

\* A run of n samples ends n - 1 ticks after its first one.
LEMMA RunLength ==
  ASSUME TypeInv, Unbroken, NEW b \in Buffers, samples[b] # <<>>
  PROVE  Latest(b) = First(b) + Len(samples[b]) - 1 /\ First(b) <= Latest(b)
<1>1. Len(samples[b]) \in Nat /\ Len(samples[b]) > 0 /\ First(b) \in Nat
  BY Measures
<1>2. samples[b][Len(samples[b])] = <<core[b], First(b) + Len(samples[b]) - 1>>
  BY <1>1 DEF Unbroken
<1> QED
  BY <1>1, <1>2 DEF Latest

\* Steps that write no sample, publish nothing and hand nothing to a reader: a CPU
\* may only lose its buffer, a reader only give its one back.
LEMMA ContentsFrame ==
  ASSUME TypeInv, TypeInv', Contents, UNCHANGED <<samples, core, full, seen>>,
         \A r \in Readers : rbuf'[r] = NULL \/ rbuf'[r] = rbuf[r],
         \A c \in Cpus : Done(c)' >= Done(c),
         \A c \in Cpus : Holds(c)' = NULL \/ (Holds(c)' = Holds(c) /\ Done(c)' = Done(c))
  PROVE  Contents'
<1> USE DEF Contents
<1>0. \A c \in Cpus : Done(c)' \in Int
  BY DEF Done, TypeInv, Typed
<1>1. \A b : Latest(b)' = Latest(b) /\ First(b)' = First(b)
  BY DEF Latest, First
<1>2. Unbroken'
  BY <1>1 DEF Unbroken
<1>3. Complete'
  BY DEF Complete
<1>4. UpToDate'
  BY <1>1 DEF UpToDate
<1>5. Ordered'
  <2>1. DeliveryOrder'
    BY <1>1 DEF Ordered, DeliveryOrder
  <2>2. \A c \in Cpus : seen'[c] <= Done(c)'
    BY <1>0, Measures DEF Ordered
  <2>3. \A i \in DOMAIN full' : Latest(full[i])' <= Done(core[full[i]])'
    BY <1>0, <1>1, Measures DEF Ordered
  <2>4. ASSUME NEW c \in Cpus, Holds(c)' # NULL, samples'[Holds(c)'] # <<>>
        PROVE  /\ seen'[c] < First(Holds(c))'
               /\ \A i \in DOMAIN full' :
                    core'[full'[i]] = c => Latest(full[i])' < First(Holds(c))'
    BY <1>1, <2>4 DEF Ordered
  <2> QED
    BY <2>1, <2>2, <2>3, <2>4 DEF Ordered
<1> QED
  BY <1>2, <1>3, <1>4, <1>5
-----------------------------------------------------------------------------
(***************************************************************************)
(* The steps that change contents or order.                                *)
(***************************************************************************)

\* pop_blist(&empty_buffers) and initialize_buffer: a fresh run, of this CPU.
LEMMA ContentsTake ==
  ASSUME TypeInv, Masked, Pool, Contents, NEW c \in Cpus, GatherTake(c)
  PROVE  Contents'
<1> DEFINE b == Head(empty)
<1>1. /\ b \in Buffers /\ b \in ToSet(empty) /\ samples'[b] = <<>>
      /\ \A a \in Buffers \ {b} : samples'[a] = samples[a] /\ core'[a] = core[a]
  BY TakeContents
<1>2. /\ UNCHANGED <<full, rbuf, seen>> /\ core'[b] = c /\ ipc[c] = "none" /\ ipc' = ipc
      /\ irq[c] = "gather" /\ irq'[c] = "write" /\ ticks'[c] = ticks[c] + 1
      /\ lbuffer'[c] = b
      /\ \A d \in Cpus \ {c} :
           irq'[d] = irq[d] /\ ticks'[d] = ticks[d] /\ lbuffer'[d] = lbuffer[d]
  BY <1>1 DEF GatherTake, InitializeBuffer, handlerKeeps, ipiVars, readVars, Masked,
     TypeInv, Typed
<1>3. /\ Holds(c)' = b
      /\ \A d \in Cpus \ {c} : Holds(d)' = Holds(d) /\ Holds(d) # b
  BY <1>1, <1>2 DEF Holds, Uses, Pool
<1>4. \A d \in Cpus : Done(d)' = Done(d) /\ Done(d) \in Int
  <2>1. \A d \in Cpus : ticks[d] \in Nat
    BY DEF TypeInv, Typed
  <2>2. Done(c)' = Done(c) /\ Done(c) \in Int
    BY <1>2, <2>1 DEF Done
  <2>3. \A d \in Cpus \ {c} : Done(d)' = Done(d) /\ Done(d) \in Int
    BY <1>2, <2>1 DEF Done
  <2> QED
    BY <2>2, <2>3
<1>5. /\ \A i \in DOMAIN full : full[i] \in Buffers \ {b} /\ full[i] \in ToSet(full)
      /\ \A a \in ToSet(full) : a \in Buffers \ {b}
      /\ \A r \in Readers : rbuf[r] \in (Buffers \cup {NULL}) \ {b}
  <2>1. b \notin ToSet(full) /\ \A r \in Readers : rbuf[r] # b
    BY <1>1 DEF Pool
  <2>2. \A r \in Readers : rbuf[r] \in Buffers \cup {NULL}
    BY DEF TypeInv, Typed
  <2> HIDE DEF b
  <2> QED
    BY <2>1, <2>2, ListElements, Measures
<1>6. /\ \A a \in Buffers \ {b} : Latest(a)' = Latest(a) /\ First(a)' = First(a)
      /\ Len(samples'[b]) = 0
  BY <1>1, EmptySeq DEF Latest, First
<1>7. \A d \in Cpus : Holds(d) \in Buffers \cup {NULL}
  BY Measures
<1> HIDE DEF b
<1>8. Unbroken'
  BY <1>1, <1>6 DEF Contents, Unbroken
<1>9. Complete'
  BY <1>1, <1>2, <1>5 DEF Contents, Complete
<1>10. UpToDate'
  BY <1>1, <1>2, <1>3, <1>4, <1>6, <1>7 DEF Contents, UpToDate
<1>11. Ordered'
  <2>1. \A i \in DOMAIN full : core'[full[i]] = core[full[i]] /\ core[full[i]] \in Cpus
    BY <1>1, <1>5, Measures
  <2>2. DeliveryOrder'
    BY <1>2, <1>5, <1>6, <2>1 DEF Contents, Ordered, DeliveryOrder
  <2>3. \A d \in Cpus : seen'[d] <= Done(d)'
    BY <1>2, <1>4 DEF Contents, Ordered
  <2>4. \A i \in DOMAIN full' : Latest(full[i])' <= Done(core[full[i]])'
    BY <1>2, <1>4, <1>5, <1>6, <2>1 DEF Contents, Ordered
  <2>5. ASSUME NEW d \in Cpus, Holds(d)' # NULL, samples'[Holds(d)'] # <<>>
        PROVE  /\ seen'[d] < First(Holds(d))'
               /\ \A i \in DOMAIN full' :
                    core'[full'[i]] = d => Latest(full[i])' < First(Holds(d))'
    <3>1. d # c /\ Holds(d)' = Holds(d) /\ Holds(d) \in Buffers \ {b}
      BY <1>1, <1>3, <1>7, <2>5
    <3>2. samples'[Holds(d)] = samples[Holds(d)] /\ First(Holds(d))' = First(Holds(d))
      BY <1>1, <1>6, <3>1
    <3> QED
      BY <1>2, <1>5, <1>6, <2>1, <2>5, <3>1, <3>2 DEF Contents, Ordered
  <2> QED
    BY <2>2, <2>3, <2>4, <2>5 DEF Ordered
<1> QED
  BY <1>8, <1>9, <1>10, <1>11 DEF Contents

\* One more sample: it continues the run, or begins it above everything that was
\* published before.
LEMMA ContentsWrite ==
  ASSUME TypeInv, Masked, Pool, Contents, NEW c \in Cpus, GatherWrite(c)
  PROVE  Contents'
<1>0. PICK b \in Buffers : b = Holds(c) /\ b = lbuffer[c] /\ b # NULL
  BY WriteContents, PmuSamplerAssumption
<1>1. /\ core' = core
      /\ Len(samples'[b]) = Len(samples[b]) + 1
      /\ \A a \in Buffers \ {b} : samples'[a] = samples[a]
  BY <1>0, WriteContents
<1>2. /\ UNCHANGED <<full, rbuf, seen, ipc, lbuffer, ticks>>
      /\ irq[c] = "write" /\ irq'[c] = "check"
      /\ \A d \in Cpus \ {c} : irq'[d] = irq[d]
      /\ samples'[b] = Append(samples[b], <<c, ticks[c]>>)
  BY <1>0, <1>1 DEF GatherWrite, handlerKeeps, ipiVars, readVars, TypeInv, Typed
<1>3. \A d \in Cpus : Holds(d)' = Holds(d)
  BY <1>2 DEF Holds, Uses
<1>4. \A d \in Cpus \ {c} : Holds(d) # b
  BY <1>0 DEF Pool
<1>5. /\ Done(c) = ticks[c] - 1 /\ Done(c)' = ticks[c] /\ ticks[c] \in Nat
      /\ \A d \in Cpus \ {c} : Done(d)' = Done(d)
      /\ \A d \in Cpus : Done(d) \in Int
  BY <1>2 DEF Done, TypeInv, Typed
<1>6. core[b] = c /\ (samples[b] # <<>> => Latest(b) = Done(c))
  BY <1>0, <1>1 DEF Contents, UpToDate
<1>7. b \notin ToSet(full) /\ \A r \in Readers : rbuf[r] # b
  BY <1>0, <1>1 DEF Pool
<1>8. /\ \A i \in DOMAIN full : full[i] \in Buffers \ {b} /\ full[i] \in ToSet(full)
      /\ \A r \in Readers : rbuf[r] \in (Buffers \cup {NULL}) \ {b}
      /\ \A d \in Cpus : Holds(d) \in Buffers \cup {NULL}
      /\ ToSet(full) \subseteq Buffers
  <2>1. \A r \in Readers : rbuf[r] \in Buffers \cup {NULL}
    BY DEF TypeInv, Typed
  <2> QED
    BY <1>7, <2>1, Measures, ListElements
<1>9. /\ samples[b] \in Seq(Sample) /\ Len(samples[b]) \in Nat
      /\ <<c, ticks[c]>> \in Sample
      /\ samples[b] # <<>> => First(b) \in Nat /\ Len(samples[b]) > 0
      /\ samples[b] = <<>> => Len(samples[b]) = 0
  BY <1>0, <1>1, Measures, EmptySeq DEF TypeInv, Typed, Sample
<1>10. /\ \A i \in 1 .. Len(samples[b]) : samples'[b][i] = samples[b][i]
       /\ samples'[b][Len(samples[b]) + 1] = <<c, ticks[c]>>
       /\ samples'[b] # <<>>
  BY <1>2, <1>9, AppendProperties
<1>11. Latest(b)' = ticks[c]
  BY <1>0, <1>1, <1>10 DEF Latest
<1>12. /\ samples[b] # <<>> => First(b)' = First(b)
       /\ samples[b] = <<>> => First(b)' = ticks[c]
  BY <1>9, <1>10 DEF First
<1>13. \A a \in Buffers \ {b} : Latest(a)' = Latest(a) /\ First(a)' = First(a)
  BY <1>0, <1>1 DEF Latest, First
<1>14. samples[b] # <<>> => First(b) + Len(samples[b]) = ticks[c]
  <2>1. samples[b] # <<>> => Latest(b) = First(b) + Len(samples[b]) - 1
    BY <1>0, RunLength DEF Contents
  <2> QED
    BY <1>5, <1>6, <1>9, <2>1
<1>15. Unbroken'
  <2> SUFFICES ASSUME NEW a \in Buffers, NEW i \in 1 .. Len(samples'[a])
               PROVE  samples'[a][i] = <<core'[a], First(a)' + i - 1>>
    BY DEF Unbroken
  <2>1. CASE a # b
    BY <1>0, <1>1, <1>13, <2>1 DEF Contents, Unbroken
  <2>2. CASE a = b /\ i <= Len(samples[b])
    <3>1. i \in 1 .. Len(samples[b]) /\ samples[b] # <<>>
      BY <1>0, <1>1, <1>9, <2>2
    <3> QED
      BY <1>0, <1>1, <1>10, <1>12, <2>2, <3>1 DEF Contents, Unbroken
  <2>3. CASE a = b /\ i = Len(samples[b]) + 1
    BY <1>0, <1>1, <1>5, <1>6, <1>9, <1>10, <1>12, <1>14, <2>3
  <2> QED
    BY <1>0, <1>1, <1>9, <2>1, <2>2, <2>3
<1>16. Complete'
  BY <1>0, <1>1, <1>2, <1>7, <1>8 DEF Contents, Complete
<1>17. UpToDate'
  <2>1. core'[b] = c /\ Latest(b)' = Done(c)' /\ Holds(c)' = b
    BY <1>0, <1>1, <1>3, <1>5, <1>6, <1>11
  <2>2. ASSUME NEW d \in Cpus \ {c}, Holds(d)' # NULL
        PROVE  /\ core'[Holds(d)'] = d
               /\ samples'[Holds(d)'] # <<>> => Latest(Holds(d))' = Done(d)'
    <3>1. PICK a \in Buffers \ {b} : a = Holds(d) /\ a = Holds(d)' /\ a # NULL
      BY <1>3, <1>4, <1>8, <2>2
    <3>2. core[a] = d /\ (samples[a] # <<>> => Latest(a) = Done(d))
      BY <3>1 DEF Contents, UpToDate
    <3> QED
      BY <1>1, <1>5, <1>13, <3>1, <3>2
  <2>3. \A d \in Cpus : Holds(d)' # NULL =>
          /\ core'[Holds(d)'] = d
          /\ samples'[Holds(d)'] # <<>> => Latest(Holds(d))' = Done(d)'
    BY <2>1, <2>2
  <2> QED
    BY <2>3 DEF UpToDate
<1>18. Ordered'
  <2>1. DeliveryOrder'
    BY <1>0, <1>1, <1>2, <1>8, <1>13 DEF Contents, Ordered, DeliveryOrder
  <2>2. \A d \in Cpus : seen'[d] <= Done(d)'
    BY <1>2, <1>5, Measures DEF Contents, Ordered
  <2>3. ASSUME NEW i \in DOMAIN full
        PROVE  Latest(full[i])' <= Done(core[full[i]])'
    <3>1. Latest(full[i]) <= Done(core[full[i]]) /\ Latest(full[i]) \in Nat
          /\ core[full[i]] \in Cpus
      BY <1>8, Measures DEF Contents, Ordered
    <3> QED
      BY <1>0, <1>1, <1>2, <1>5, <1>8, <1>13, <3>1
  <2>4. ASSUME NEW d \in Cpus, Holds(d)' # NULL, samples'[Holds(d)'] # <<>>
        PROVE  /\ seen'[d] < First(Holds(d))'
               /\ \A i \in DOMAIN full' :
                    core'[full'[i]] = d => Latest(full[i])' < First(Holds(d))'
    <3>1. CASE d # c
      BY <1>0, <1>1, <1>2, <1>3, <1>4, <1>8, <1>13, <2>4, <3>1 DEF Contents, Ordered
    <3>2. CASE d = c /\ samples[b] # <<>>
      <4>1. First(Holds(d))' = First(b)
        BY <1>0, <1>3, <1>12, <3>2
      <4>2. /\ seen[c] < First(b)
            /\ \A i \in DOMAIN full : core[full[i]] = c => Latest(full[i]) < First(b)
        BY <1>0, <3>2 DEF Contents, Ordered
      <4> QED
        BY <1>1, <1>2, <1>8, <1>13, <3>2, <4>1, <4>2
    <3>3. CASE d = c /\ samples[b] = <<>>
      <4>1. First(Holds(d))' = ticks[c]
        BY <1>0, <1>3, <1>12, <3>3
      <4>2. seen[c] <= ticks[c] - 1 /\ seen[c] \in Nat
        BY <1>5, Measures DEF Contents, Ordered
      <4>3. ASSUME NEW i \in DOMAIN full, core[full[i]] = c
            PROVE  Latest(full[i]) <= ticks[c] - 1 /\ Latest(full[i]) \in Nat
        BY <1>5, <1>8, <4>3, Measures DEF Contents, Ordered
      <4> QED
        BY <1>0, <1>1, <1>2, <1>5, <1>8, <1>13, <3>3, <4>1, <4>2, <4>3
    <3> QED
      BY <3>1, <3>2, <3>3
  <2> QED
    BY <1>2, <2>1, <2>2, <2>3, <2>4 DEF Ordered
<1> QED
  BY <1>0, <1>15, <1>16, <1>17, <1>18 DEF Contents

\* append_blist(&full_buffers): the complete buffer is newer than all of its CPU that
\* were published before.
LEMMA ContentsPublish ==
  ASSUME TypeInv, Masked, Pool, Room, Contents, NEW c \in Cpus, GatherPublish(c)
  PROVE  Contents'
<1>1. PICK b \in Buffers : b = Holds(c) /\ b = lbuffer[c] /\ b # NULL
  <2>1. irq[c] = "check" /\ ipc[c] = "none" /\ lbuffer[c] \in Buffers /\ lbuffer[c] # NULL
    BY PmuSamplerAssumption DEF GatherPublish, Masked, TypeInv, Typed, HasBuffer
  <2> QED
    BY <2>1 DEF Holds, Uses
<1>2. /\ full' = Append(full, b) /\ UNCHANGED <<samples, core, rbuf, seen, ticks>>
      /\ UNCHANGED <<lbuffer, ipc>> /\ irq[c] = "check" /\ irq'[c] = "detach"
      /\ \A d \in Cpus \ {c} : irq'[d] = irq[d]
      /\ Len(samples[b]) >= BufferEntries
  BY <1>1 DEF GatherPublish, BufferFull, handlerKeeps, ipiVars, readVars, TypeInv, Typed
<1>3. /\ Holds(c)' = NULL
      /\ \A d \in Cpus \ {c} : Holds(d)' = Holds(d)
  BY <1>2 DEF Holds, Uses
<1>4. \A d \in Cpus : Done(d)' = Done(d)
  BY <1>2 DEF Done
<1>5. \A a : Latest(a)' = Latest(a) /\ First(a)' = First(a)
  BY <1>2 DEF Latest, First
<1>6. Len(samples[b]) = BufferEntries /\ samples[b] # <<>>
  <2>1. Len(samples[b]) <= BufferEntries /\ Len(samples[b]) \in Nat
    BY <1>1, Measures DEF Room
  <2> QED
    BY <1>1, <1>2, <2>1, EmptySeq, PmuSamplerAssumption
<1>7. /\ core[b] = c /\ Latest(b) = Done(c) /\ seen[c] < First(b)
      /\ \A i \in DOMAIN full : core[full[i]] = c => Latest(full[i]) < First(b)
  BY <1>1, <1>6 DEF Contents, UpToDate, Ordered
<1>8. /\ full \in Seq(Buffers) /\ Len(full) \in Nat
      /\ DOMAIN full = 1 .. Len(full) /\ DOMAIN full' = 1 .. Len(full) + 1
      /\ \A i \in 1 .. Len(full) : full'[i] = full[i]
      /\ full'[Len(full) + 1] = b /\ ToSet(full') = ToSet(full) \cup {b}
  <2>1. full \in Seq(Buffers)
    BY DEF TypeInv, Typed
  <2>2. Len(full) \in Nat /\ DOMAIN full = 1 .. Len(full)
    BY <2>1, LenProperties
  <2>3. ToSet(full') = ToSet(full) \cup {b}
    BY <1>1, <1>2, <2>1, AppendToSet
  <2>4. /\ full' \in Seq(Buffers) /\ Len(full') = Len(full) + 1
        /\ \A i \in 1 .. Len(full) : full'[i] = full[i]
        /\ full'[Len(full) + 1] = b
    BY <1>1, <1>2, <2>1, AppendProperties
  <2>5. DOMAIN full' = 1 .. Len(full) + 1
    BY <2>4, LenProperties
  <2> QED
    BY <2>1, <2>2, <2>3, <2>4, <2>5
<1>9. Unbroken'
  BY <1>2, <1>5 DEF Contents, Unbroken
<1>10. Complete'
  BY <1>2, <1>6, <1>8 DEF Contents, Complete
<1>11. UpToDate'
  BY <1>2, <1>3, <1>4, <1>5 DEF Contents, UpToDate
<1>12. Ordered'
  <2>1. DeliveryOrder'
    <3>1. ASSUME NEW i \in DOMAIN full'
          PROVE  seen'[core'[full'[i]]] < First(full[i])'
      BY <1>2, <1>5, <1>7, <1>8, <3>1 DEF Contents, Ordered, DeliveryOrder
    <3>2. ASSUME NEW i \in DOMAIN full', NEW j \in DOMAIN full', i < j,
                 core'[full'[i]] = core'[full'[j]]
          PROVE  Latest(full[i])' < First(full[j])'
      <4>1. i \in DOMAIN full
        BY <1>8, <3>2
      <4>2. CASE j \in DOMAIN full
        BY <1>2, <1>5, <1>8, <3>2, <4>1, <4>2 DEF Contents, Ordered, DeliveryOrder
      <4>3. CASE j = Len(full) + 1
        BY <1>2, <1>5, <1>7, <1>8, <3>2, <4>1, <4>3
      <4> QED
        BY <1>8, <4>2, <4>3
    <3> QED
      BY <3>1, <3>2 DEF DeliveryOrder
  <2>2. \A d \in Cpus : seen'[d] <= Done(d)'
    BY <1>2, <1>4 DEF Contents, Ordered
  <2>3. ASSUME NEW i \in DOMAIN full'
        PROVE  Latest(full[i])' <= Done(core[full[i]])'
    <3>1. CASE i \in DOMAIN full
      <4>1. core[full[i]] \in Cpus
        BY <3>1, Measures
      <4> QED
        BY <1>2, <1>4, <1>5, <1>8, <3>1, <4>1 DEF Contents, Ordered
    <3>2. CASE i = Len(full) + 1
      BY <1>2, <1>4, <1>5, <1>7, <1>8, <3>2, Measures
    <3> QED
      BY <1>8, <3>1, <3>2
  <2>4. ASSUME NEW d \in Cpus, Holds(d)' # NULL, samples'[Holds(d)'] # <<>>
        PROVE  /\ seen'[d] < First(Holds(d))'
               /\ \A i \in DOMAIN full' :
                    core'[full'[i]] = d => Latest(full[i])' < First(Holds(d))'
    <3>1. d # c /\ Holds(d)' = Holds(d)
      BY <1>3, <2>4
    <3> QED
      BY <1>2, <1>5, <1>7, <1>8, <2>4, <3>1 DEF Contents, Ordered
  <2> QED
    BY <2>1, <2>2, <2>3, <2>4 DEF Ordered
<1> QED
  BY <1>9, <1>10, <1>11, <1>12 DEF Contents

\* pop_blist(&full_buffers): a reader gets the oldest of the list.
LEMMA ContentsPop ==
  ASSUME TypeInv, Contents, NEW r \in Readers, ReadPop(r)
  PROVE  Contents'
<1>1. PICK b \in Buffers : b = Head(full) /\ b \in ToSet(full)
  BY TailToSet DEF ReadPop, TypeInv, Typed
<1>2. /\ full # <<>> /\ full' = Tail(full) /\ UNCHANGED <<samples, core, ticks, irq>>
      /\ UNCHANGED <<lbuffer, ipc>> /\ core[b] \in Cpus
      /\ rbuf'[r] = b /\ \A q \in Readers \ {r} : rbuf'[q] = rbuf[q]
      /\ seen'[core[b]] = Latest(b)
      /\ \A c \in Cpus \ {core[b]} : seen'[c] = seen[c]
  BY <1>1 DEF ReadPop, readerKeeps, ipiVars, TypeInv, Typed
<1>3. /\ Len(full) \in Nat \ {0} /\ full[1] = b
      /\ DOMAIN full = 1 .. Len(full) /\ DOMAIN full' = 1 .. Len(full) - 1
      /\ \A i \in 1 .. Len(full) - 1 : full'[i] = full[i + 1]
      /\ ToSet(full') \subseteq ToSet(full)
  <2>1. full \in Seq(Buffers) /\ full # <<>>
    BY <1>2 DEF TypeInv, Typed
  <2>2. full' \in Seq(Buffers) /\ Len(full') = Len(full) - 1 /\ full[1] = b
        /\ \A i \in 1 .. Len(full') : full'[i] = full[i + 1]
    BY <1>1, <1>2, <2>1, HeadTailProperties
  <2>3. ToSet(full') \subseteq ToSet(full)
    BY <1>2, <2>1, TailToSet
  <2> QED
    BY <2>1, <2>2, <2>3, LenProperties, EmptySeq
<1>4. \A c \in Cpus : Done(c)' = Done(c) /\ Holds(c)' = Holds(c)
  BY <1>2 DEF Done, Holds, Uses
<1>5. \A a : Latest(a)' = Latest(a) /\ First(a)' = First(a)
  BY <1>2 DEF Latest, First
<1>6. /\ Latest(b) <= Done(core[b])
      /\ \A j \in 2 .. Len(full) : core[full[j]] = core[b] => Latest(b) < First(full[j])
  BY <1>3 DEF Contents, Ordered, DeliveryOrder
<1>7. \A i \in DOMAIN full' : i + 1 \in DOMAIN full /\ i + 1 \in 2 .. Len(full)
  BY <1>3
<1>8. Unbroken'
  BY <1>2, <1>5 DEF Contents, Unbroken
<1>9. Complete'
  BY <1>1, <1>2, <1>3 DEF Contents, Complete
<1>10. UpToDate'
  BY <1>2, <1>4, <1>5 DEF Contents, UpToDate
<1>11. Ordered'
  <2>1. DeliveryOrder'
    <3>1. ASSUME NEW i \in DOMAIN full'
          PROVE  seen'[core'[full'[i]]] < First(full[i])'
      <4>1. /\ full'[i] = full[i + 1] /\ core[full[i + 1]] \in Cpus
            /\ seen[core[full[i + 1]]] < First(full[i + 1])
        BY <1>3, <1>7, Measures DEF Contents, Ordered, DeliveryOrder
      <4> QED
        BY <1>2, <1>5, <1>6, <1>7, <4>1
    <3>2. ASSUME NEW i \in DOMAIN full', NEW j \in DOMAIN full', i < j,
                 core'[full'[i]] = core'[full'[j]]
          PROVE  Latest(full[i])' < First(full[j])'
      <4>1. i + 1 < j + 1 /\ full'[i] = full[i + 1] /\ full'[j] = full[j + 1]
        BY <1>3, <3>2
      <4> QED
        BY <1>2, <1>5, <1>7, <3>2, <4>1 DEF Contents, Ordered, DeliveryOrder
    <3> QED
      BY <3>1, <3>2 DEF DeliveryOrder
  <2>2. \A c \in Cpus : seen'[c] <= Done(c)'
    BY <1>2, <1>4, <1>6 DEF Contents, Ordered
  <2>3. ASSUME NEW i \in DOMAIN full'
        PROVE  Latest(full[i])' <= Done(core[full[i]])'
    <3>1. full'[i] = full[i + 1] /\ core[full[i + 1]] \in Cpus
      BY <1>3, <1>7, Measures
    <3> QED
      BY <1>2, <1>4, <1>5, <1>7, <3>1 DEF Contents, Ordered
  <2>4. ASSUME NEW d \in Cpus, Holds(d)' # NULL, samples'[Holds(d)'] # <<>>
        PROVE  /\ seen'[d] < First(Holds(d))'
               /\ \A i \in DOMAIN full' :
                    core'[full'[i]] = d => Latest(full[i])' < First(Holds(d))'
    <3>1. /\ seen[d] < First(Holds(d))
          /\ \A i \in DOMAIN full : core[full[i]] = d => Latest(full[i]) < First(Holds(d))
      BY <1>2, <1>4, <2>4 DEF Contents, Ordered
    <3>2. core[b] = d => Latest(b) < First(Holds(d))
      BY <1>3, <3>1
    <3>3. seen'[d] < First(Holds(d))
      BY <1>2, <3>1, <3>2
    <3> QED
      BY <1>2, <1>3, <1>4, <1>5, <1>7, <3>1, <3>3
  <2> QED
    BY <2>1, <2>2, <2>3, <2>4 DEF Ordered
<1> QED
  BY <1>8, <1>9, <1>10, <1>11 DEF Contents

\* All other steps.
LEMMA ContentsStep ==
  ASSUME TypeInv, TypeInv', Masked, Pool, Room, Contents, [Next]_vars
  PROVE  Contents'
<1>0. /\ \A c \in Cpus : Done(c) \in Int
      /\ DOMAIN irq = Cpus /\ DOMAIN ipc = Cpus /\ DOMAIN lbuffer = Cpus
      /\ ticks \in [Cpus -> Nat]
  BY Measures DEF TypeInv, Typed
<1> USE DEF poolVars, readVars, ipiVars, handlerKeeps, crossKeeps, writerKeeps, readerKeeps
<1>1. ASSUME NEW c \in Cpus, GatherTake(c) PROVE Contents'
  BY <1>1, ContentsTake
<1>2. ASSUME NEW c \in Cpus, GatherWrite(c) PROVE Contents'
  BY <1>2, ContentsWrite
<1>3. ASSUME NEW c \in Cpus, GatherPublish(c) PROVE Contents'
  BY <1>3, ContentsPublish
<1>4. ASSUME NEW r \in Readers, ReadPop(r) PROVE Contents'
  BY <1>4, ContentsPop
\* A call that finds the CPU's buffer is counted before its sample is written.
<1>5. ASSUME NEW c \in Cpus, GatherKeep(c) PROVE Contents'
  <2>1. /\ UNCHANGED <<samples, core, full, seen, rbuf, lbuffer, ipc>>
        /\ irq[c] = "gather" /\ irq'[c] = "write" /\ ticks'[c] = ticks[c] + 1
        /\ \A d \in Cpus \ {c} : irq'[d] = irq[d] /\ ticks'[d] = ticks[d]
    BY <1>0, <1>5 DEF GatherKeep
  <2>2. \A d \in Cpus : Holds(d)' = Holds(d)
    BY <2>1 DEF Holds, Uses
  <2>3. \A d \in Cpus : Done(d)' = Done(d)
    BY <1>0, <2>1 DEF Done
  <2> QED
    BY <1>0, <2>1, <2>2, <2>3, ContentsFrame
\* A call that finds no buffer leaves a gap before the CPU's next one.
<1>6. ASSUME NEW c \in Cpus, GatherMissLoad(c) PROVE Contents'
  <2>1. /\ UNCHANGED <<samples, core, full, seen, rbuf, lbuffer, ipc>>
        /\ irq[c] = "gather" /\ irq'[c] = "miss" /\ ticks'[c] = ticks[c] + 1
        /\ lbuffer[c] = NULL
        /\ \A d \in Cpus \ {c} : irq'[d] = irq[d] /\ ticks'[d] = ticks[d]
    BY <1>0, <1>6 DEF GatherMissLoad
  <2>2. /\ \A d \in Cpus \ {c} : Holds(d)' = Holds(d) /\ Done(d)' = Done(d)
        /\ Holds(c)' = NULL
    BY <2>1 DEF Holds, Uses, Done
  <2>3. Done(c)' = Done(c) + 1
    BY <1>0, <2>1 DEF Done
  <2> QED
    BY <1>0, <2>1, <2>2, <2>3, ContentsFrame
<1>7. ASSUME NEW c \in Cpus,
             \/ ArmIrqEntry(c) \/ NmiEntry(c) \/ GatherMissStore(c) \/ GatherMore(c)
             \/ GatherDetach(c) \/ ArmRearm(c) \/ ArmReturn(c) \/ NmiReturn(c)
      PROVE  Contents'
  <2>1. /\ UNCHANGED <<samples, core, full, seen, rbuf, ticks, ipc>>
        /\ irq[c] # "write" /\ irq'[c] # "write"
        /\ irq[c] = "detach" => lbuffer'[c] = NULL
        /\ irq'[c] # "detach"
        /\ lbuffer'[c] = lbuffer[c] \/ lbuffer'[c] = NULL
        /\ \A d \in Cpus \ {c} : irq'[d] = irq[d] /\ lbuffer'[d] = lbuffer[d]
    BY <1>0, <1>7 DEF ArmIrqEntry, NmiEntry, GatherMissStore, GatherMore, GatherDetach,
       ArmRearm, ArmReturn, NmiReturn, Deliverable
  <2>2. \A d \in Cpus : Holds(d)' = NULL \/ Holds(d)' = Holds(d)
    BY <2>1 DEF Holds, Uses
  <2>3. \A d \in Cpus : Done(d)' = Done(d)
    BY <2>1 DEF Done
  <2> QED
    BY <1>0, <2>1, <2>2, <2>3, ContentsFrame
<1>8. ASSUME NEW c \in Cpus, CrossCall(c) PROVE Contents'
  <2>1. /\ UNCHANGED <<samples, core, full, seen, rbuf, ticks, irq>>
        /\ lbuffer'[c] = lbuffer[c] \/ lbuffer'[c] = NULL
        /\ ipc[c] = "clear" => lbuffer'[c] = NULL \/ ipc'[c] = "clear"
        /\ \A d \in Cpus \ {c} : ipc'[d] = ipc[d] /\ lbuffer'[d] = lbuffer[d]
    BY <1>0, <1>8 DEF CrossCall, StartRecycle, StartClear, StartConfig, StopLocal
  <2>2. \A d \in Cpus : Holds(d)' = NULL \/ Holds(d)' = Holds(d)
    BY <2>1 DEF Holds, Uses
  <2>3. \A d \in Cpus : Done(d)' = Done(d)
    BY <2>1 DEF Done
  <2> QED
    BY <1>0, <2>1, <2>2, <2>3, ContentsFrame
<1>9. ASSUME UNCHANGED <<samples, core, full, seen, ticks, irq, ipc, lbuffer>>,
             \A r \in Readers : rbuf'[r] = NULL \/ rbuf'[r] = rbuf[r]
      PROVE  Contents'
  <2>1. \A d \in Cpus : Holds(d)' = Holds(d) /\ Done(d)' = Done(d)
    BY <1>9 DEF Holds, Uses, Done
  <2> QED
    BY <1>0, <1>9, <2>1, ContentsFrame
<1>10. ASSUME NEW c \in Cpus, Overflow(c) \/ ArmIrqSpurious(c)
       PROVE  UNCHANGED <<samples, core, full, seen, ticks, irq, ipc, lbuffer, rbuf>>
  BY <1>10 DEF Overflow, ArmIrqSpurious
<1>11. ASSUME NEW w \in Writers,
              StatusUpdate(w) \/ \E code \in Codes : StoreStatus(w, code)
       PROVE  UNCHANGED <<samples, core, full, seen, ticks, irq, ipc, lbuffer, rbuf>>
  BY <1>11 DEF StatusUpdate, SwitchStart, StartRegister, StartDone, SwitchStop,
     StopDeregister, StopMark, StopWake, SwitchDump, SwitchUnknown, StoreStatus
<1>12. ASSUME NEW r \in Readers,
              ReadEof(r) \/ ReadSleep(r) \/ ReadReturn(r) \/ ReadCall(r) \/ ReadInterrupted(r)
       PROVE  /\ UNCHANGED <<samples, core, full, seen, ticks, irq, ipc, lbuffer>>
              /\ \A q \in Readers : rbuf'[q] = NULL \/ rbuf'[q] = rbuf[q]
  <2>1. /\ UNCHANGED <<samples, core, full, seen, ticks, irq, ipc, lbuffer>>
        /\ rbuf' = [rbuf EXCEPT ![r] = NULL] \/ rbuf' = rbuf
    BY <1>12 DEF ReadEof, ReadSleep, ReadReturn, ReadCall, ReadInterrupted
  <2>2. rbuf \in [Readers -> Buffers \cup {NULL}]
    BY <1>0 DEF TypeInv, Typed
  <2> QED
    BY <2>1, <2>2
<1>13. CASE UNCHANGED vars
  BY <1>9, <1>13 DEF vars
<1> QED
  BY <1>1, <1>2, <1>3, <1>4, <1>5, <1>6, <1>7, <1>8, <1>9, <1>10, <1>11, <1>12, <1>13
     DEF Next, Handler, Gather, Read

\* init_module leaves every buffer empty and both lists without samples.
LEMMA ContentsInit == Init => Masked /\ Pool /\ Room /\ Contents
<1> SUFFICES ASSUME Init PROVE Masked /\ Pool /\ Room /\ Contents
  OBVIOUS
<1>1. Masked /\ Pool
  BY PoolInit
<1>2. /\ \A b \in Buffers : samples[b] = <<>> /\ Len(samples[b]) = 0
      /\ \A c \in Cpus : Holds(c) = NULL /\ Done(c) = 0 /\ seen[c] = 0
      /\ full = <<>> /\ DOMAIN full = {} /\ ToSet(full) = {}
      /\ \A r \in Readers : rbuf[r] = NULL
  BY EmptySeq DEF Init, Holds, Uses, Done, ToSet
<1>3. Room
  BY <1>2, PmuSamplerAssumption DEF Room
<1>4. Unbroken
  BY <1>2 DEF Unbroken
<1>5. Complete /\ UpToDate /\ Ordered
  BY <1>2 DEF Complete, UpToDate, Ordered, DeliveryOrder
<1> QED
  BY <1>1, <1>3, <1>4, <1>5 DEF Contents

\* Together with the ownership of the buffers, the contents are inductive.
LEMMA ContentsInvariant ==
  ASSUME Undisturbed
  PROVE  Spec => [](TypeInv /\ Masked /\ Pool /\ Room /\ Contents)
<1>1. TypeInv /\ Masked /\ Pool /\ Room /\ Contents /\ [Next]_vars
      => TypeInv' /\ Pool' /\ Room' /\ Contents'
  BY TypeStep, PoolStep, RoomStep, ContentsStep
<1> QED
  BY <1>1, TypeInit, ContentsInit, MaskedAlways, PTL DEF Spec
-----------------------------------------------------------------------------
(***************************************************************************)
(* Theorems.                                                               *)
(***************************************************************************)

\* A buffer holds an unbroken run of samples of the CPU in b->core, whatever was
\* missed, recycled half filled or restarted in between, and what readers get is
\* complete.
THEOREM RunsAreWhole == ASSUME Undisturbed PROVE Spec => []WholeRuns
<1>1. ASSUME TypeInv, Masked, Pool, Room, Contents PROVE WholeRuns
  <2>1. \A b \in ToSet(full) \cup BeingRead : Len(samples[b]) = BufferEntries
    BY <1>1 DEF Contents, Complete, BeingRead, TypeInv, Typed, HasBuffer
  <2>2. ASSUME NEW c \in Cpus, Uses(c)
        PROVE  /\ core[lbuffer[c]] = c
               /\ samples[lbuffer[c]] # <<>> /\ irq[c] # "write" =>
                    Latest(lbuffer[c]) = ticks[c]
    BY <1>1, <2>2 DEF Contents, UpToDate, Holds, Done, Uses
  <2> QED
    BY <1>1, <2>1, <2>2 DEF WholeRuns, Contents, Unbroken
<1> QED
  BY <1>1, ContentsInvariant, PTL

\* No reader gets a sample of a CPU after a later one of the same CPU, however
\* many CPUs publish and however many readers fetch.
THEOREM OrderOfDelivery == ASSUME Undisturbed PROVE Spec => []DeliveryOrder
<1>1. Contents => DeliveryOrder
  BY DEF Contents, Ordered
<1> QED
  BY <1>1, ContentsInvariant, PTL

\* The core id of a packet is the CPU its samples were taken on: what protocol.txt
\* promises holds wherever no NMI comes in the middle of startCtrs.
THEOREM CoreIds == ASSUME Undisturbed PROVE Spec => []CoreIdIsTrue
<1>1. ASSUME TypeInv, Contents PROVE CoreIdIsTrue
  <2> SUFFICES ASSUME NEW b \in BeingRead, NEW i \in DOMAIN samples[b]
               PROVE  samples[b][i][1] = core[b]
    BY DEF CoreIdIsTrue
  <2>1. b \in Buffers
    BY <1>1, PmuSamplerAssumption DEF BeingRead, TypeInv, Typed, HasBuffer
  <2>2. i \in 1 .. Len(samples[b])
    BY <1>1, <2>1, LenProperties DEF TypeInv, Typed
  <2> QED
    BY <1>1, <2>1, <2>2 DEF Contents, Unbroken
<1> QED
  BY <1>1, ContentsInvariant, PTL
-----------------------------------------------------------------------------
(***************************************************************************)
(* The driver implements BufferLifecycle.                                  *)
(***************************************************************************)

\* The values of BufferLifecycle's variables.
free == ToSet(empty)
holding == [c \in Cpus |-> Holds(c)]
fill == [b \in Buffers |-> Len(samples[b])]

\* Steps of the driver that BufferLifecycle does not see.
LEMMA LifecycleStutter ==
  ASSUME UNCHANGED <<empty, full, rbuf, samples>>, \A c \in Cpus : Holds(c)' = Holds(c)
  PROVE  UNCHANGED Lifecycle!vars
<1>1. free' = free /\ holding' = holding /\ fill' = fill
  BY DEF free, holding, fill
<1> QED
  BY <1>1 DEF Lifecycle!vars, free, holding, fill, Holds

\* gatherSample takes a buffer.
LEMMA LifecycleTake ==
  ASSUME TypeInv, Masked, Pool, NEW c \in Cpus, GatherTake(c)
  PROVE  \E b \in Buffers : Lifecycle!Take(c, b)
<1>1. PICK b \in Buffers : b = Head(empty) /\ b \in ToSet(empty)
  BY TakeContents
<1>2. /\ samples' = [samples EXCEPT ![b] = <<>>] /\ empty' = Tail(empty) /\ empty # <<>>
      /\ UNCHANGED <<full, rbuf>> /\ ipc[c] = "none" /\ ipc' = ipc
      /\ lbuffer[c] = NULL /\ lbuffer'[c] = b /\ irq'[c] = "write"
      /\ \A d \in Cpus \ {c} : lbuffer'[d] = lbuffer[d] /\ irq'[d] = irq[d]
  BY <1>1 DEF GatherTake, InitializeBuffer, handlerKeeps, ipiVars, readVars, Masked,
     TypeInv, Typed
<1>3. Holds(c) = NULL /\ Holds(c)' = b /\ \A d \in Cpus \ {c} : Holds(d)' = Holds(d)
  BY <1>1, <1>2, PmuSamplerAssumption DEF Holds, Uses
<1>4. holding[c] = NULL /\ holding' = [holding EXCEPT ![c] = b]
  BY <1>3 DEF holding
<1>5. b \in free /\ free' = free \ {b}
  <2>1. ToSet(empty) = ToSet(empty') \cup {b} /\ b \notin ToSet(empty')
    BY <1>1, <1>2, TailToSet DEF Pool, TypeInv, Typed
  <2> QED
    BY <1>1, <2>1 DEF free
<1>6. fill' = [fill EXCEPT ![b] = 0]
  BY <1>2, EmptySeq DEF fill, TypeInv, Typed
<1> QED
  BY <1>1, <1>2, <1>4, <1>5, <1>6 DEF Lifecycle!Take, free, holding, fill, Holds

\* gatherSample writes one sample, with room in the buffer.
LEMMA LifecycleRecord ==
  ASSUME TypeInv, Masked, Room, NEW c \in Cpus, GatherWrite(c)
  PROVE  Lifecycle!Record(c)
<1>1. PICK b \in Buffers : b = Holds(c) /\ b # NULL
  BY WriteContents, PmuSamplerAssumption
<1>2. /\ Len(samples'[b]) = Len(samples[b]) + 1 /\ Len(samples[b]) < BufferEntries
      /\ \A a \in Buffers \ {b} : samples'[a] = samples[a]
      /\ irq[c] = "write" /\ irq' = [irq EXCEPT ![c] = "check"]
      /\ UNCHANGED <<empty, full, rbuf, lbuffer, ipc>>
  <2>1. irq[c] = "write" /\ irq' = [irq EXCEPT ![c] = "check"]
        /\ UNCHANGED <<empty, full, rbuf, lbuffer, ipc>>
    BY DEF GatherWrite, handlerKeeps, ipiVars, readVars
  <2>2. Len(samples[b]) < BufferEntries
    BY <1>1, <2>1 DEF Room
  <2> QED
    BY <1>1, <2>1, <2>2, WriteContents
<1>3. \A d \in Cpus : Holds(d)' = Holds(d)
  BY <1>2 DEF Holds, Uses, TypeInv, Typed
<1>4. free' = free /\ holding' = holding /\ holding[c] = b
  BY <1>1, <1>2, <1>3 DEF free, holding
<1>5. fill[b] < BufferEntries /\ fill' = [fill EXCEPT ![b] = @ + 1]
  BY <1>1, <1>2 DEF fill
<1> QED
  BY <1>1, <1>2, <1>4, <1>5 DEF Lifecycle!Record, free, holding, fill, Holds

\* gatherSample hands over a buffer that is exactly full.
LEMMA LifecyclePublish ==
  ASSUME TypeInv, Masked, Room, NEW c \in Cpus, GatherPublish(c)
  PROVE  Lifecycle!Publish(c)
<1>1. PICK b \in Buffers : b = lbuffer[c] /\ b # NULL
  BY PmuSamplerAssumption DEF GatherPublish, TypeInv, Typed, HasBuffer
<1>2. /\ full' = Append(full, b) /\ UNCHANGED <<empty, lbuffer, samples, rbuf, ipc>>
      /\ irq[c] = "check" /\ irq' = [irq EXCEPT ![c] = "detach"] /\ ipc[c] = "none"
      /\ Len(samples[b]) >= BufferEntries
  BY <1>1 DEF GatherPublish, BufferFull, handlerKeeps, ipiVars, readVars, Masked
<1>3. Holds(c) = b /\ Holds(c)' = NULL /\ \A d \in Cpus \ {c} : Holds(d)' = Holds(d)
  BY <1>1, <1>2 DEF Holds, Uses, TypeInv, Typed
<1>4. Len(samples[b]) = BufferEntries
  <2>1. Len(samples[b]) \in Nat /\ Len(samples[b]) <= BufferEntries
    BY <1>1, Measures DEF Room
  <2> QED
    BY <1>2, <2>1, PmuSamplerAssumption
<1>5. free' = free /\ fill' = fill /\ fill[b] = BufferEntries
  BY <1>1, <1>2, <1>4 DEF free, fill
<1>6. holding[c] = b /\ holding' = [holding EXCEPT ![c] = NULL]
  BY <1>3 DEF holding
<1> QED
  BY <1>1, <1>2, <1>5, <1>6 DEF Lifecycle!Publish, free, holding, fill, Holds

\* startCtrs gives back a buffer that was not complete.
LEMMA LifecycleDiscard ==
  ASSUME TypeInv, Room, NEW c \in Cpus, NEW w \in Writers, StartRecycle(c, w),
         lbuffer[c] # NULL
  PROVE  Lifecycle!Discard(c)
<1>1. PICK b \in Buffers : b = lbuffer[c] /\ b # NULL
  BY PmuSamplerAssumption DEF TypeInv, Typed
<1>2. /\ empty' = Append(empty, b) /\ UNCHANGED <<full, lbuffer, samples, rbuf, irq>>
      /\ irq[c] = "idle" /\ ipc[c] = "none" /\ ipc' = [ipc EXCEPT ![c] = "clear"]
  BY <1>1 DEF StartRecycle, Runs, crossKeeps, readVars
<1>3. Holds(c) = b /\ Holds(c)' = NULL /\ \A d \in Cpus \ {c} : Holds(d)' = Holds(d)
  BY <1>1, <1>2 DEF Holds, Uses, TypeInv, Typed
<1>4. fill' = fill /\ fill[b] < BufferEntries
  BY <1>1, <1>2, <1>3 DEF fill, Room
<1>5. free' = free \cup {b}
  BY <1>2, AppendToSet DEF free, TypeInv, Typed
<1>6. holding[c] = b /\ holding' = [holding EXCEPT ![c] = NULL]
  BY <1>3 DEF holding
<1> QED
  BY <1>1, <1>2, <1>4, <1>5, <1>6 DEF Lifecycle!Discard, free, holding, fill, Holds

\* my_read takes the oldest buffer.
LEMMA LifecycleFetch ==
  ASSUME TypeInv, NEW r \in Readers, ReadPop(r)
  PROVE  Lifecycle!Fetch(r)
<1>1. /\ full # <<>> /\ full' = Tail(full) /\ rbuf[r] = NULL
      /\ rbuf' = [rbuf EXCEPT ![r] = Head(full)]
      /\ UNCHANGED <<empty, samples, lbuffer, irq, ipc>>
  BY DEF ReadPop, readerKeeps, ipiVars, TypeInv, Typed, HasBuffer
<1>2. free' = free /\ fill' = fill /\ holding' = holding
  BY <1>1 DEF free, fill, holding, Holds, Uses
<1> QED
  BY <1>1, <1>2 DEF Lifecycle!Fetch, free, holding, fill, Holds

\* my_read gives its buffer back.
LEMMA LifecycleRecycle ==
  ASSUME TypeInv, NEW r \in Readers, ReadReturn(r)
  PROVE  Lifecycle!Recycle(r)
<1>1. /\ rbuf[r] # NULL /\ rbuf[r] \in Buffers /\ empty' = Append(empty, rbuf[r])
      /\ rbuf' = [rbuf EXCEPT ![r] = NULL]
      /\ UNCHANGED <<full, samples, lbuffer, irq, ipc>>
  BY DEF ReadReturn, readerKeeps, ipiVars, TypeInv, Typed, HasBuffer
<1>2. free' = free \cup {rbuf[r]}
  BY <1>1, AppendToSet DEF free, TypeInv, Typed
<1>3. fill' = fill /\ holding' = holding
  BY <1>1 DEF fill, holding, Holds, Uses
<1> QED
  BY <1>1, <1>2, <1>3 DEF Lifecycle!Recycle, free, holding, fill, Holds

\* Every step of the driver is one step of the life cycle or none.
LEMMA LifecycleStep ==
  ASSUME TypeInv, Masked, Pool, Room, [Next]_vars
  PROVE  [Lifecycle!Next]_Lifecycle!vars
<1>0. DOMAIN irq = Cpus /\ DOMAIN ipc = Cpus /\ DOMAIN lbuffer = Cpus
  BY DEF TypeInv, Typed
<1> USE DEF poolVars, readVars, ipiVars, handlerKeeps, crossKeeps, writerKeeps, readerKeeps
<1>1. ASSUME NEW c \in Cpus, GatherTake(c) PROVE Lifecycle!Next
  BY <1>1, LifecycleTake DEF Lifecycle!Next
<1>2. ASSUME NEW c \in Cpus, GatherWrite(c) PROVE Lifecycle!Next
  BY <1>2, LifecycleRecord DEF Lifecycle!Next
<1>3. ASSUME NEW c \in Cpus, GatherPublish(c) PROVE Lifecycle!Next
  BY <1>3, LifecyclePublish DEF Lifecycle!Next
<1>4. ASSUME NEW r \in Readers, ReadPop(r) PROVE Lifecycle!Next
  BY <1>4, LifecycleFetch DEF Lifecycle!Next
<1>5. ASSUME NEW r \in Readers, ReadReturn(r) PROVE Lifecycle!Next
  BY <1>5, LifecycleRecycle DEF Lifecycle!Next
<1>6. ASSUME NEW c \in Cpus, NEW w \in Writers, StartRecycle(c, w), lbuffer[c] # NULL
      PROVE  Lifecycle!Next
  BY <1>6, LifecycleDiscard DEF Lifecycle!Next
\* With no buffer to give back, startCtrs moves none.
<1>7. ASSUME NEW c \in Cpus, NEW w \in Writers, StartRecycle(c, w), lbuffer[c] = NULL
      PROVE  UNCHANGED Lifecycle!vars
  <2>1. /\ UNCHANGED <<empty, full, rbuf, samples, lbuffer, irq>>
        /\ \A d \in Cpus \ {c} : ipc'[d] = ipc[d]
    BY <1>0, <1>7 DEF StartRecycle
  <2>2. \A d \in Cpus : Holds(d)' = Holds(d)
    BY <1>7, <2>1 DEF Holds, Uses
  <2> QED
    BY <2>1, <2>2, LifecycleStutter
\* The pointers to a published or recycled buffer are cleared.
<1>8. ASSUME NEW c \in Cpus, GatherDetach(c) \/ StartClear(c)
      PROVE  UNCHANGED Lifecycle!vars
  <2>1. /\ UNCHANGED <<empty, full, rbuf, samples>>
        /\ irq[c] = "detach" \/ ipc[c] = "clear"
        /\ lbuffer'[c] = NULL
        /\ \A d \in Cpus \ {c} :
             irq'[d] = irq[d] /\ ipc'[d] = ipc[d] /\ lbuffer'[d] = lbuffer[d]
    BY <1>0, <1>8 DEF GatherDetach, StartClear
  <2>2. \A d \in Cpus : Holds(d)' = Holds(d)
    BY <2>1 DEF Holds, Uses
  <2> QED
    BY <2>1, <2>2, LifecycleStutter
<1>9. ASSUME NEW c \in Cpus,
             \/ ArmIrqEntry(c) \/ NmiEntry(c) \/ GatherKeep(c) \/ GatherMissLoad(c)
             \/ GatherMissStore(c) \/ GatherMore(c) \/ ArmRearm(c) \/ ArmReturn(c)
             \/ NmiReturn(c) \/ StartConfig(c)
      PROVE  UNCHANGED Lifecycle!vars
  <2>1. /\ UNCHANGED <<empty, full, rbuf, samples, lbuffer>>
        /\ irq[c] # "detach" /\ irq'[c] # "detach"
        /\ ipc'[c] = "clear" <=> ipc[c] = "clear"
        /\ \A d \in Cpus \ {c} : irq'[d] = irq[d] /\ ipc'[d] = ipc[d]
    BY <1>0, <1>9 DEF ArmIrqEntry, NmiEntry, GatherKeep, GatherMissLoad,
       GatherMissStore, GatherMore, ArmRearm, ArmReturn, NmiReturn, StartConfig,
       Deliverable, Runs
  <2>2. \A d \in Cpus : Holds(d)' = Holds(d)
    BY <2>1 DEF Holds, Uses
  <2> QED
    BY <2>1, <2>2, LifecycleStutter
<1>10. ASSUME UNCHANGED <<empty, full, rbuf, samples, lbuffer, irq, ipc>>
       PROVE  UNCHANGED Lifecycle!vars
  BY <1>10, LifecycleStutter DEF Holds, Uses
<1>11. ASSUME NEW c \in Cpus,
              Overflow(c) \/ ArmIrqSpurious(c) \/ \E w \in Writers : StopLocal(c, w)
       PROVE  UNCHANGED <<empty, full, rbuf, samples, lbuffer, irq, ipc>>
  BY <1>11 DEF Overflow, ArmIrqSpurious, StopLocal
<1>12. ASSUME NEW w \in Writers,
              StatusUpdate(w) \/ \E code \in Codes : StoreStatus(w, code)
       PROVE  UNCHANGED <<empty, full, rbuf, samples, lbuffer, irq, ipc>>
  BY <1>12 DEF StatusUpdate, SwitchStart, StartRegister, StartDone, SwitchStop,
     StopDeregister, StopMark, StopWake, SwitchDump, SwitchUnknown, StoreStatus
<1>13. ASSUME NEW r \in Readers,
              ReadEof(r) \/ ReadSleep(r) \/ ReadCall(r) \/ ReadInterrupted(r)
       PROVE  UNCHANGED <<empty, full, rbuf, samples, lbuffer, irq, ipc>>
  BY <1>13 DEF ReadEof, ReadSleep, ReadCall, ReadInterrupted
<1>14. CASE UNCHANGED vars
  BY <1>10, <1>14 DEF vars
<1> QED
  BY <1>1, <1>2, <1>3, <1>4, <1>5, <1>6, <1>7, <1>8, <1>9, <1>10, <1>11, <1>12, <1>13,
     <1>14
     DEF Next, Handler, Gather, CrossCall, Read

\* The interrupts, cross calls, readers and writers together implement the life cycle: buffers
\* are taken free, filled by one CPU, handed out complete and in order, and given back
\* (pmu_sync_sample_main.c:118-217).
THEOREM Refinement == ASSUME Undisturbed PROVE Spec => ImplementsLifecycle
<1>1. Init => Lifecycle!Init
  <2> SUFFICES ASSUME Init PROVE Lifecycle!Init
    OBVIOUS
  <2>1. free = Buffers /\ full = <<>> /\ rbuf = [r \in Readers |-> NULL]
    BY DEF Init, free
  <2>2. holding = [c \in Cpus |-> NULL]
    BY DEF Init, holding, Holds, Uses
  <2>3. fill = [b \in Buffers |-> 0]
    BY EmptySeq DEF Init, fill
  <2> QED
    BY <2>1, <2>2, <2>3 DEF Lifecycle!Init, free, holding, fill, Holds
<1>2. TypeInv /\ Masked /\ Pool /\ Room /\ Contents /\ [Next]_vars
      => [Lifecycle!Next]_Lifecycle!vars
  BY LifecycleStep
<1> QED
  BY <1>1, <1>2, ContentsInvariant, PTL DEF Spec, ImplementsLifecycle, Lifecycle!Spec
=============================================================================
