----------------------------- MODULE PacketReader -----------------------------
(***************************************************************************)
(* The decoding side of sender/packet.cpp: packet_read and read_info,      *)
(* applied to a recorded file that may end anywhere.                       *)
(*                                                                         *)
(* A file is a sequence of bytes, numbered from 0 as in the code.  A field *)
(* of the header that no reader's output depends on (kernel, counters,     *)
(* batch, missed, first_index) is left out, and a field or sample of       *)
(* several bytes is one.  The file is mapped into memory: what follows it  *)
(* in its last page reads as 0.                                            *)
(***************************************************************************)
EXTENDS Integers, Sequences

NUL == 0
HeaderBytes == 3

Byte(file, at) == IF at < Len(file) THEN file[at + 1] ELSE NUL

\* The number of characters before the first NUL at or after a place.
strlen(file, at) == 
  CHOOSE k \in 0 .. Len(file) :
    Byte(file, at + k) = NUL /\ \A j \in 0 .. k - 1 : Byte(file, at + j) # NUL

\* The number of characters read there when n may be.
strnlen(file, at, n) ==
  CHOOSE k \in 0 .. n :
    /\ k = n \/ Byte(file, at + k) = NUL
    /\ \A j \in 0 .. k - 1 : Byte(file, at + j) # NUL

\* The C string at a place.
StringAt(file, at) == [k \in 1 .. strlen(file, at) |-> Byte(file, at + k - 1)]

\* What write_header, write_samples and write_info put into a packet.
Encode(p) ==
  <<p.core, Len(p.samples), p.pid>> \o p.samples \o p.cmdline \o <<NUL>> \o p.exe \o <<NUL>>

\* read_info with n bytes left at ptr: where the strings begin and how many bytes they take,
\* or nothing when the NUL of the command line is the last byte.  When the bytes end before
\* that NUL, --n wraps and only a NUL of the padding ends the loop for the executable.
ReadInfo(file, ptr, n) ==
  {[cmdline |-> ptr, exe |-> ptr + len + 1,
    read |-> len + 1 + strnlen(file, ptr + len + 1, IF n = len THEN Len(file) ELSE n - len - 1) + 1] :
   len \in {strnlen(file, ptr, n)} \ {n - 1}}

\* packet_read with n bytes left: the packet and its size, or nothing when bytes are missing.
PacketRead(file, at, n) ==
  LET quantity == Byte(file, at + 1)
      base == at + HeaderBytes
      Packet(info) ==
        [core |-> Byte(file, at), pid |-> Byte(file, at + 2),
         samples |-> [i \in 1 .. quantity |-> Byte(file, base + i - 1)],
         cmdline |-> info.cmdline, exe |-> info.exe,
         read |-> HeaderBytes + quantity + info.read]
  IN  IF n < HeaderBytes \/ n - HeaderBytes < quantity THEN {}
      ELSE {Packet(info) : info \in ReadInfo(file, base + quantity, n - HeaderBytes - quantity)}
=============================================================================
