----------------------------- MODULE MCLifetime -----------------------------
(***************************************************************************)
(* Instance of DriverLifetime for TLC: two CPUs; the process that starts   *)
(* and stops is on the first, the reader on the second.                    *)
(***************************************************************************)
EXTENDS DriverLifetime

MCCtxs == {<<c, k>> : c \in Cpus, k \in {"irq", "ipi"}} \cup {<<1, "admin">>, <<2, "reader">>}
=============================================================================
