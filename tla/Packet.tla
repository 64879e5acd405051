------------------------------- MODULE Packet -------------------------------
(***************************************************************************)
(* The packet under construction: sender/packet.cpp, the part that builds  *)
(* packets.  Consecutive samples of a buffer that belong to one process    *)
(* are collected and sent as one packet, at most MaxQuantity of them.      *)
(*                                                                         *)
(* The packet does not hold the names of its process but pointers into the *)
(* entry of the process in procMap; they are followed when the packet is   *)
(* created.                                                                *)
(***************************************************************************)
EXTENDS Naturals, Sequences

CONSTANTS
  MaxQuantity,  \* 255: samples per packet
  NULL          \* the null pointer

ASSUME PacketAssumption == MaxQuantity \in Nat \ {0}

VARIABLES
  header,        \* header
  samples,       \* samples[0 .. header.quantity-1]
  info,          \* the pid into whose entry info.cmdline and info.exe point
  current_index  \* current_index: samples of this batch appended so far

packetVars == <<header, samples, info, current_index>>

\* clear_data keeps the number of the batch only.
Cleared(batch) ==
  [kernel |-> 0, core |-> 0, quantity |-> 0, pid |-> 0,
   batch |-> batch, missed |-> 0, first_index |-> 0]

PacketInit ==
  /\ header = Cleared(0)
  /\ samples = <<>>
  /\ info = NULL
  /\ current_index = 0

packet_empty == header.quantity = 0

\* Mutant: a packet is full only after one sample more.
ShouldCreateLate(b, s, pi) ==
  /\ ~packet_empty
  /\ \/ header.quantity = MaxQuantity + 1
     \/ header.kernel = 1 /\ pi.mode # "Kernel"
     \/ header.core # b.core
     \/ header.pid # s.pid

\* Mutant: a change of the process is noticed only by the change of its mode.
ShouldCreateByMode(b, s, pi) ==
  /\ ~packet_empty
  /\ \/ header.quantity = MaxQuantity
     \/ header.kernel = 1 /\ pi.mode # "Kernel"
     \/ header.core # b.core

\* packet_should_create for sample s of buffer b, whose process has the entry pi.
ShouldCreate(b, s, pi) ==
  /\ ~packet_empty
  /\ \/ header.quantity = MaxQuantity
     \/ header.kernel = 1 /\ pi.mode # "Kernel"
     \/ header.core # b.core
     \/ header.pid # s.pid

\* Mutant: the header is kept.
ClearDataKept ==
  /\ samples' = <<>>
  /\ info' = NULL
  /\ UNCHANGED header

\* clear_data
ClearData ==
  /\ header' = Cleared(header.batch)
  /\ samples' = <<>>
  /\ info' = NULL

\* Mutant: item numbers go on from batch to batch.
StartBatchRunning ==
  /\ header' = Cleared(header.batch + 1)
  /\ samples' = <<>>
  /\ info' = NULL
  /\ UNCHANGED current_index

\* packet_start_batch
StartBatch ==
  /\ header' = Cleared(header.batch + 1)
  /\ samples' = <<>>
  /\ info' = NULL
  /\ current_index' = 0

\* Mutant: a process without an executable counts as a part of the kernel.
FirstHeaderByLink(b, s, pi, missed) ==
  [kernel |-> IF pi.executable = "" THEN 1 ELSE 0,
   core |-> b.core, quantity |-> 0, pid |-> s.pid,
   batch |-> header.batch, missed |-> missed, first_index |-> current_index]

\* The header the first sample of a packet determines.
FirstHeader(b, s, pi, missed) ==
  [kernel |-> IF pi.mode = "Kernel" THEN 1 ELSE 0,
   core |-> b.core, quantity |-> 0, pid |-> s.pid,
   batch |-> header.batch, missed |-> missed, first_index |-> current_index]

\* packet_append when it does not refuse.
AppendToPacket(b, s, pi, missed) ==
  LET h == IF packet_empty THEN FirstHeader(b, s, pi, missed) ELSE header IN
  /\ header' = [h EXCEPT !.quantity = @ + 1]
  /\ samples' = Append(samples, s)
  /\ info' = IF packet_empty THEN s.pid ELSE info
  /\ current_index' = current_index + 1

\* What packet_create writes for the current packet; names is the entry info points to.
PacketOf(names) ==
  [header |-> header, samples |-> samples,
   cmdline |-> names.cmdline, executable |-> names.executable]
=============================================================================
