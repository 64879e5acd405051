------------------------------- MODULE Sender -------------------------------
(***************************************************************************)
(* The sender program: main and sample_device of sender/sender.cpp and     *)
(* network_send and transmit of sender/network.cpp, composed with the      *)
(* process cache and the packet under construction.                        *)
(*                                                                         *)
(* The program has one thread.  It reads a buffer from the device and the  *)
(* number of missed samples from /sys/sync_pmu/missed, cuts the buffer     *)
(* into packets and sends them.  Two rounds read one buffer each and send  *)
(* nothing; the third goes on to the end of file.  Other processes change  *)
(* between any two steps.                                                  *)
(***************************************************************************)
EXTENDS ProcessInfo, Packet, SequencesExt

CONSTANTS
  Cores,         \* core ids in buffers
  BufferEntries, \* BUFFER_ENTRIES
  Kbytes,        \* the argument of -k in units of Size; 0: no limit
  MaxBuffers,    \* bound: buffers the device delivers
  MaxFails,      \* bound: reads of the device that fail
  MaxTurns       \* bound: changes of other processes and samples the driver misses

ASSUME SenderAssumption ==
  /\ BufferEntries \in Nat \ {0}
  /\ Kbytes \in Nat
  /\ NULL \notin Pids
  /\ NULL \notin [core : Cores, samples : Seq([pid : Pids, nr : Nat])]

VARIABLES
  pc,              \* where the program is
  round,           \* 1, 2: the test rounds of main; 3: the real one
  b,               \* the buffer in sample_device; NULL: uninitialized
  eof,             \* feof(f)
  missed,          \* the driver's missed_attr.value
  missedRead,      \* the stream of missed is at its end
  count,           \* the number in sample_device's text buffer, 0 if empty
  missed_count,    \* missed_count
  initial_missed,  \* initial_missed
  index,           \* samples of b appended so far in network_send
  sent,            \* sent in network_send
  sent_total,      \* sent_total
  outbytes,        \* outbytes
  wire,            \* packets sent
  got,             \* history: buffers the device delivered
  reads,           \* history: per read of the third round the buffer delivered, or NULL
  baseline,        \* history: value of missed when the test rounds ended
  fails, turns     \* what MaxFails and MaxTurns bound

deviceVars == <<eof, missed, missedRead, got, reads, fails, turns>>
roundVars == <<round, b, count, missed_count, initial_missed, baseline>>
sendVars == <<index, sent, sent_total, outbytes, wire>>
senderVars == <<pc, deviceVars, roundVars, sendVars, packetVars, procVars>>

\* A full buffer, as the driver delivers it.  A sample is its pid and a number, in the
\* order of delivery.
FullBuffers(k) ==
  {[core |-> c, samples |-> [i \in 1 .. BufferEntries |-> [pid |-> ps[i], nr |-> k * BufferEntries + i]]] :
     c \in Cores, ps \in [1 .. BufferEntries -> Pids]}

\* What an uninitialized buffer may look like without failing the assertion of
\* network_send; its samples have number 0.
Leftovers ==
  {[core |-> c, samples |-> [i \in DOMAIN ps |-> [pid |-> ps[i], nr |-> 0]]] :
     c \in Cores, ps \in UNION {[1 .. n -> Pids] : n \in 0 .. BufferEntries}}

\* The size of a packet: a unit for header and names and one for each sample.
Size(packet) == 1 + packet.header.quantity

SenderInit ==
  /\ ProcInit
  /\ PacketInit
  /\ pc = "loop" /\ round = 1 /\ b = NULL /\ count = 0
  /\ eof = FALSE /\ missed = 0 /\ missedRead = FALSE
  /\ got = 0 /\ reads = <<>> /\ fails = 0 /\ turns = 0
  /\ missed_count = 0 /\ initial_missed = 0 /\ baseline = 0
  /\ index = 0 /\ sent = 0 /\ sent_total = 0 /\ outbytes = 0 /\ wire = <<>>

-----------------------------------------------------------------------------
(* sample_device                                                           *)

\* The end of a call of sample_device, with its local variables, and what main does
\* then.  m is the value of missed_count.
EndRound(m) ==
  /\ pc' = IF round = 3 THEN "done" ELSE "loop"
  /\ round' = IF round = 3 THEN 3 ELSE round + 1
  /\ initial_missed' = IF round = 2 THEN m ELSE initial_missed
  /\ baseline' = IF round = 2 THEN missed ELSE baseline
  /\ b' = NULL
  /\ count' = 0

\* The loop ends at end of file.
LoopEnd ==
  /\ pc = "loop" /\ eof
  /\ EndRound(missed_count)
  /\ UNCHANGED <<missed_count, deviceVars, sendVars, packetVars, procVars>>

\* Every fread leads to fgets, whatever it read.
Fread(buffer) ==
  /\ pc = "loop" /\ ~eof
  /\ reads' = IF round = 3 THEN Append(reads, buffer) ELSE reads
  /\ pc' = "missed"
  /\ UNCHANGED <<missed, missedRead, turns, round, count, missed_count, initial_missed,
                 baseline, sendVars, packetVars, procVars>>

\* fread returns a buffer.
FreadBuffer ==
  /\ got < MaxBuffers /\ got' = got + 1
  /\ b' \in FullBuffers(got)
  /\ Fread(b')
  /\ UNCHANGED <<eof, fails>>

\* fread meets the end of file (my_read returned 0) and leaves b as it is, but the loop
\* goes on with it.
FreadEof ==
  /\ Fread(NULL)
  /\ eof' = TRUE
  /\ UNCHANGED <<b, got, fails>>

\* my_read fails with -EINVAL.  This is not the end of file: the loop goes on with what b
\* was before, now and after the next fread.
FreadFails ==
  /\ fails < MaxFails /\ fails' = fails + 1
  /\ Fread(NULL)
  /\ UNCHANGED <<b, eof, got>>

\* fgets: the stream of missed delivers the value once and is at its end from then on.
FgetsMissed == IF missedRead THEN count ELSE missed

\* The rest of a turn of the loop in a test round.
TestRound ==
  /\ pc = "missed" /\ round < 3
  /\ missed_count' = FgetsMissed - initial_missed
  /\ missedRead' = TRUE
  /\ EndRound(missed_count')
  /\ UNCHANGED <<eof, missed, got, reads, fails, turns, sendVars, packetVars, procVars>>

\* The call of network_send up to its loop.  With b uninitialized its assertion may fail.
SendStart ==
  /\ pc = "missed" /\ round = 3
  /\ count' = FgetsMissed
  /\ missed_count' = FgetsMissed - initial_missed
  /\ missedRead' = TRUE
  /\ \/ /\ b' \in IF b = NULL THEN Leftovers ELSE {b}
        /\ StartBatch
        /\ index' = 0 /\ sent' = 0 /\ sent_total' = 0
        /\ pc' = "sample"
     \/ /\ b = NULL
        /\ pc' = "aborted"
        /\ UNCHANGED <<b, packetVars, index, sent, sent_total>>
  /\ UNCHANGED <<eof, missed, got, reads, fails, turns, round, initial_missed, baseline,
                 outbytes, wire, procVars>>

-----------------------------------------------------------------------------
(* network_send                                                            *)

Current == b.samples[index + 1]
Entry == procMap[Current.pid]

\* Mutant: the names are looked up afresh for every sample.
LookupAlwaysFresh ==
  /\ pc = "sample" /\ index < Len(b.samples)
  /\ GetProcessInfo(Current.pid, TRUE)
  /\ pc' = "found"
  /\ UNCHANGED <<deviceVars, roundVars, sendVars, packetVars>>

\* The lookup of the sample's process.  The check flag is packet_empty().
Lookup ==
  /\ pc = "sample" /\ index < Len(b.samples)
  /\ GetProcessInfo(Current.pid, packet_empty)
  /\ pc' = "found"
  /\ UNCHANGED <<deviceVars, roundVars, sendVars, packetVars>>

LookupReads ==
  /\ pc = "found"
  /\ ReadCmdline \/ ReadExecutable
  /\ UNCHANGED <<pc, deviceVars, roundVars, sendVars, packetVars>>

\* Mutant: the packet is not cleared after it was sent, except for its header.
TransmittedUncleared ==
  LET packet == PacketOf(procMap[info]) IN
  /\ wire' = Append(wire, packet)
  /\ sent' = Size(packet)
  /\ sent_total' = sent_total + sent'
  /\ header' = Cleared(header.batch)
  /\ UNCHANGED <<samples, info>>

\* transmit with a packet that is not empty succeeds.
Transmitted ==
  LET packet == PacketOf(procMap[info]) IN
  /\ wire' = Append(wire, packet)
  /\ sent' = Size(packet)
  /\ sent_total' = sent_total + sent'
  /\ ClearData

\* The packet must be sent before the sample fits.
SendFull ==
  /\ pc = "found" /\ call.at = "done"
  /\ ShouldCreate(b, Current, Entry)
  /\ Transmitted
  /\ pc' = "append"
  /\ UNCHANGED <<index, outbytes, current_index, deviceVars, roundVars, procVars>>

\* The sample fits.
SendNot ==
  /\ pc = "found" /\ call.at = "done"
  /\ ~ShouldCreate(b, Current, Entry)
  /\ pc' = "append"
  /\ UNCHANGED <<deviceVars, roundVars, sendVars, packetVars, procVars>>

\* packet_append, which looks again whether the sample fits; if it does not,
\* network_send and sample_device give up.
AppendSample ==
  /\ pc = "append"
  /\ IF ShouldCreate(b, Current, Entry)
     THEN pc' = "done" /\ UNCHANGED <<packetVars, index>>
     ELSE /\ AppendToPacket(b, Current, Entry, missed_count)
          /\ index' = index + 1
          /\ pc' = "sample"
  /\ UNCHANGED <<sent, sent_total, outbytes, wire, deviceVars, roundVars, procVars>>

\* transmit at the end of the buffer.  An empty packet, of a buffer without
\* samples, is not sent; sent is 0 then.
SendRest ==
  /\ pc = "sample" /\ index = Len(b.samples)
  /\ IF packet_empty
     THEN /\ ClearData
          /\ sent_total' = sent_total + sent
          /\ UNCHANGED <<wire, sent>>
     ELSE Transmitted
  /\ pc' = "sent"
  /\ UNCHANGED <<index, outbytes, current_index, deviceVars, roundVars, procVars>>

\* packet_create has no memory, or sendto fails or sends a part only; the program
\* gives up.  Part of a packet at the end of the stream is not modelled.
TransmitFails ==
  /\ \/ /\ pc = "found" /\ call.at = "done"
        /\ ShouldCreate(b, Current, Entry)
     \/ pc = "sample" /\ index = Len(b.samples) /\ ~packet_empty
  /\ ClearData \/ UNCHANGED <<header, samples, info>>
  /\ pc' = "done"
  /\ UNCHANGED <<current_index, deviceVars, roundVars, sendVars, procVars>>

\* Mutant: the size of the last packet is taken for that of the batch.
BatchDoneLast ==
  /\ pc = "sent"
  /\ outbytes' = outbytes + sent
  /\ pc' = IF Kbytes > 0 /\ outbytes' > Kbytes THEN "done" ELSE "loop"
  /\ UNCHANGED <<index, sent, sent_total, wire, deviceVars, roundVars, packetVars,
                 procVars>>

\* Back in sample_device after the batch: accounting and the limit.
BatchDone ==
  /\ pc = "sent"
  /\ outbytes' = outbytes + sent_total
  /\ pc' = IF Kbytes > 0 /\ outbytes' > Kbytes THEN "done" ELSE "loop"
  /\ UNCHANGED <<index, sent, sent_total, wire, deviceVars, roundVars, packetVars,
                 procVars>>

-----------------------------------------------------------------------------
(* The environment                                                         *)

\* The driver misses a sample.
Miss ==
  /\ turns < MaxTurns
  /\ turns' = turns + 1
  /\ missed' = missed + 1
  /\ UNCHANGED <<pc, eof, missedRead, got, reads, fails, roundVars, sendVars, packetVars, procVars>>

\* Another process starts, changes or ends.
OtherProcess ==
  /\ turns < MaxTurns
  /\ turns' = turns + 1
  /\ \E p \in Pids : Turn(p)
  /\ UNCHANGED <<pc, eof, missed, missedRead, got, reads, fails, roundVars, sendVars, packetVars>>

\* Everything the program does by itself; waiting in fread is not among it.
Run ==
  \/ LoopEnd \/ TestRound \/ SendStart \/ Lookup \/ LookupReads \/ SendFull
  \/ SendNot \/ AppendSample \/ SendRest \/ TransmitFails \/ BatchDone

\* The program has ended.
Ended == pc \in {"done", "aborted"} /\ UNCHANGED senderVars

SenderNext == Run \/ FreadBuffer \/ FreadEof \/ FreadFails \/ Miss \/ OtherProcess \/ Ended

SenderSpec == SenderInit /\ [][SenderNext]_senderVars

\* A runnable program goes on.
SenderLiveSpec == SenderSpec /\ WF_senderVars(Run)

-----------------------------------------------------------------------------
(* Properties                                                              *)

\* Types of the program's own variables.
SenderTypeOK ==
  /\ ProcTypeOK
  /\ pc \in {"loop", "missed", "sample", "found", "append", "sent", "done", "aborted"}
  /\ round \in 1 .. 3
  /\ index \in 0 .. BufferEntries
  /\ header.quantity = Len(samples) /\ header.quantity \in 0 .. MaxQuantity
  /\ info \in Pids \cup {NULL} /\ (info = NULL <=> packet_empty)

\* The j-th of the third round's reads is the last of the first k that delivered a buffer.
Latest(j, k) == reads[j] # NULL /\ \A i \in j + 1 .. k : reads[i] = NULL

\* Batch k is over.
Through(k) == k < Len(reads) \/ pc = "loop"

\* Each read of the third round makes one batch, in order, of the buffer it delivered: every
\* sample of it, in its place.  A read that fails, and the end of file, make a batch of the
\* buffer before once more, or of what was on the stack if there is none
\* (sender.cpp:222-226; network.cpp:34-51).
EachBufferOnce ==
  /\ \A i \in DOMAIN wire :
       LET h == wire[i].header
           sent_samples == wire[i].samples IN
       /\ h.batch \in DOMAIN reads
       /\ \A j \in 1 .. h.batch : Latest(j, h.batch) =>
            /\ h.core = reads[j].core
            /\ \A n \in DOMAIN sent_samples :
                 sent_samples[n] = reads[j].samples[h.first_index + n]
       /\ (\A j \in 1 .. h.batch : reads[j] = NULL) => \A s \in Range(sent_samples) : s.nr = 0
  /\ \A k \in DOMAIN reads, j \in DOMAIN reads : j <= k /\ Latest(j, k) /\ Through(k) =>
       \E i \in DOMAIN wire :
         /\ wire[i].header.batch = k
         /\ wire[i].header.first_index + wire[i].header.quantity = BufferEntries

\* A receiver can put a batch together again: its packets follow each other, agree on
\* core and missed, and their item numbers tile the batch
\* (packet.cpp:149-178; packet.h:17: "Constant across batch!").
BatchLayout ==
  /\ \A i \in 1 .. Len(wire) - 1 :
       wire[i + 1].header.batch \in {wire[i].header.batch, wire[i].header.batch + 1}
  /\ \A i \in DOMAIN wire :
       LET h == wire[i].header IN
       IF i > 1 /\ wire[i - 1].header.batch = h.batch
       THEN LET g == wire[i - 1].header IN
            /\ h.first_index = g.first_index + g.quantity
            /\ h.core = g.core /\ h.missed = g.missed
       ELSE h.first_index = 0

\* A packet has a core id of a buffer and 1 to MaxQuantity samples, all of its
\* process, and a batch is cut only where the process changes or the packet is full
\* (packet.cpp:75-102).
PacketsUniform ==
  /\ \A i \in DOMAIN wire :
       /\ wire[i].header.quantity = Len(wire[i].samples)
       /\ wire[i].header.quantity \in 1 .. MaxQuantity
       /\ wire[i].header.core \in Cores
       /\ \A s \in Range(wire[i].samples) : s.pid = wire[i].header.pid
  /\ \A i \in 1 .. Len(wire) - 1 :
       LET g == wire[i].header
           h == wire[i + 1].header
       IN g.batch = h.batch /\ g.pid = h.pid => g.quantity = MaxQuantity

\* The kernel flag of a packet agrees with the names it carries (packet.cpp:150-158,
\* process_info.cpp:106), although the flag is set when the packet begins and the names
\* are fetched when it ends.
KernelIffNameless ==
  \A i \in DOMAIN wire :
    wire[i].header.kernel = 1 <=> wire[i].cmdline = "" /\ wire[i].executable = ""

\* While a packet is under construction, the strings it points to do not change: the
\* lookups of the samples that follow do not load them again (network.cpp:36 passes
\* packet_empty(); packet.cpp:157).
InfoStable ==
  [][~packet_empty =>
       /\ procMap'[info].cmdline = procMap[info].cmdline
       /\ procMap'[info].executable = procMap[info].executable]_senderVars

\* After the packet was sent the sample fits; network.cpp:46 says of the refusal:
\* "This should never happen".
NeverRefused == pc = "append" => ~ShouldCreate(b, Current, Entry)

\* When the next buffer is about to be read, outbytes is the size of what was sent.
Accounted ==
  pc = "loop" => outbytes = FoldLeft(LAMBDA n, packet : n + Size(packet), 0, wire)

\* Once the device reports its end the program ends.
Finishes == eof ~> pc \in {"done", "aborted"}

\* protocol.txt:25: "samples missed FOR THIS ENTIRE BATCH".  When the driver has missed
\* samples since the test rounds, the packets of a batch begun then say so.
MissedReported ==
  [][round = 3 /\ pc = "missed" /\ missed > baseline => missed_count' > 0]_senderVars
=============================================================================
