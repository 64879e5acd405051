---------------------------- MODULE MCPmuSampler ----------------------------
(***************************************************************************)
(* PmuSampler for TLC.  The driver treats all CPUs alike, all processes    *)
(* alike and all buffers alike, and no property names one, so runs that    *)
(* check safety only may identify states that differ by a renaming.        *)
(***************************************************************************)
EXTENDS PmuSampler, TLC

ActorSymmetry == Permutations(Buffers) \cup Permutations(Cpus)
                   \cup Permutations(Readers) \cup Permutations(Writers)
=============================================================================
