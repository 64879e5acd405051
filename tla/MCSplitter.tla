----------------------------- MODULE MCSplitter -----------------------------
(***************************************************************************)
(* Instance of Splitter for TLC: packets of one and of two samples; names  *)
(* differ from packet to packet, and those of the third are empty.         *)
(***************************************************************************)
EXTENDS Splitter

\* Two processes on both cores, a third on one, and the two core ids that no core has.
MCHeaders ==
  [core : {0, 1}, pid : {1, 2}]
    \cup {[core |-> 0, pid |-> 3], [core |-> 2, pid |-> 1], [core |-> 3, pid |-> 1]}

MCQuantity(k) == 1 + (k % 2)
MCCmdline(k) == IF k = 3 THEN <<>> ELSE <<k>>
MCExe(k) == IF k = 3 THEN <<>> ELSE <<k, k>>
=============================================================================
