----------------------------- MODULE ArmPmu_proofs -----------------------------
(***************************************************************************)
(* The PMU of one ARM core, for any number of counters and any width: what *)
(* a sample says is true of the cycles and events it stands for, the next  *)
(* overflow is never lost, and a stopped PMU is silent.                    *)
(*                                                                         *)
(* The routines that talk to the PMU are sequences of calls of which the   *)
(* CPU makes one at a time.  The invariant says what holds between the     *)
(* calls, by the number of calls made: At(s) of the routine s that runs.   *)
(***************************************************************************)
EXTENDS ArmPmu, TLAPS

-----------------------------------------------------------------------------
(* The calls of each routine                                               *)

\* Every call the CPU may have to make.
Ops ==
  {"enable_pmu", "disable_pmu", "enable_ccnt", "disable_ccnt", "enable_pmn", "disable_pmn",
   "enable_ccnt_irq", "disable_ccnt_irq", "reset_ccnt", "reset_pmn", "write_flags",
   "pmn_config", "write_ccnt", "rearm", "resume", "dump_regs", "gatherSample",
   "cti_irq_ack", "read_flags"}

CallType == [op : Ops, n : Ctrs]

\* The elements of a concatenation.
LEMMA Joined ==
  ASSUME NEW S, NEW s \in Seq(S), NEW t \in Seq(S)
  PROVE  /\ s \o t \in Seq(S) /\ Len(s \o t) = Len(s) + Len(t)
         /\ \A i \in 1 .. Len(s) + Len(t) :
              (s \o t)[i] = IF i <= Len(s) THEN s[i] ELSE t[i - Len(s)]
  OBVIOUS

\* A single call.
LEMMA FirstCall ==
  ASSUME NEW op \in Ops
  PROVE  Call(op) \in Seq(CallType) /\ Len(Call(op)) = 1 /\ Call(op)[1].op = op
  BY ArmPmuAssumption DEF Call, CallType, Ctrs

\* One more call after those of s.
LEMMA AndCall ==
  ASSUME NEW s \in Seq(CallType), NEW op \in Ops
  PROVE  /\ s \o Call(op) \in Seq(CallType) /\ Len(s \o Call(op)) = Len(s) + 1
         /\ (s \o Call(op))[Len(s) + 1].op = op
         /\ \A i \in 1 .. Len(s) : (s \o Call(op))[i] = s[i]
  BY FirstCall, Joined

\* One more call for each counter after those of s.
LEMMA AndForEach ==
  ASSUME NEW s \in Seq(CallType), NEW op \in Ops
  PROVE  /\ s \o ForEach(op) \in Seq(CallType) /\ Len(s \o ForEach(op)) = Len(s) + num_ctrs
         /\ \A n \in Ctrs : (s \o ForEach(op))[Len(s) + 1 + n] = [op |-> op, n |-> n]
         /\ \A i \in 1 .. Len(s) : (s \o ForEach(op))[i] = s[i]
  <1>1. num_ctrs \in Nat
    BY ArmPmuAssumption
  <1>2. \A i \in 1 .. num_ctrs : i - 1 \in Ctrs
    BY <1>1 DEF Ctrs
  <1>3. ForEach(op) \in [1 .. num_ctrs -> CallType]
    BY <1>2 DEF ForEach, CallType
  <1>4. ForEach(op) \in Seq(CallType) /\ Len(ForEach(op)) = num_ctrs
    BY <1>1, <1>3 DEF ForEach
  <1>5. \A n \in Ctrs : ForEach(op)[1 + n] = [op |-> op, n |-> n]
    BY <1>1 DEF ForEach, Ctrs
  <1>6. ASSUME NEW n \in Ctrs
        PROVE  (s \o ForEach(op))[Len(s) + 1 + n] = [op |-> op, n |-> n]
    <2>1. n \in Nat /\ n < num_ctrs /\ Len(s) + 1 + n \in 1 .. Len(s) + num_ctrs
      BY <1>1 DEF Ctrs
    <2>2. Len(s) \in Nat /\ (Len(s) + 1 + n) - Len(s) = 1 + n /\ ~(Len(s) + 1 + n <= Len(s))
      BY <2>1
    <2>3. (s \o ForEach(op))[Len(s) + 1 + n] = ForEach(op)[(Len(s) + 1 + n) - Len(s)]
      BY <1>4, <2>1, <2>2, Joined
    <2> QED
      BY <1>5, <2>2, <2>3
  <1>7. /\ s \o ForEach(op) \in Seq(CallType) /\ Len(s \o ForEach(op)) = Len(s) + num_ctrs
        /\ \A i \in 1 .. Len(s) : (s \o ForEach(op))[i] = s[i]
    BY <1>1, <1>4, Joined
  <1> QED
    BY <1>6, <1>7

\* The calls of sample_handle_irq.
LEMMA IrqCalls ==
  /\ sample_handle_irq \in Seq(CallType) /\ Len(sample_handle_irq) = 8
  /\ sample_handle_irq[1].op = "cti_irq_ack"
  /\ sample_handle_irq[2].op = "disable_pmu"
  /\ sample_handle_irq[3].op = "read_flags"
  /\ sample_handle_irq[4].op = "gatherSample"
  /\ sample_handle_irq[5].op = "reset_pmn"
  /\ sample_handle_irq[6].op = "rearm"
  /\ sample_handle_irq[7].op = "write_flags"
  /\ sample_handle_irq[8].op = "resume"
  <1>0. /\ num_ctrs \in Nat \ {0} /\ \A n \in Ctrs : n \in Nat /\ n < num_ctrs
        /\ {"cti_irq_ack", "disable_pmu", "read_flags", "gatherSample", "reset_pmn", "rearm",
            "write_flags", "resume"} \subseteq Ops
    BY ArmPmuAssumption DEF Ctrs, Ops
  <1> DEFINE s1 == Call("cti_irq_ack")
             s2 == s1 \o Call("disable_pmu")
             s3 == s2 \o Call("read_flags")
             s4 == s3 \o Call("gatherSample")
             s5 == s4 \o Call("reset_pmn")
             s6 == s5 \o Call("rearm")
             s7 == s6 \o Call("write_flags")
             s8 == s7 \o Call("resume")
  <1> HIDE DEF s1, s2, s3, s4, s5, s6, s7, s8
  <1>1. s1 \in Seq(CallType) /\ Len(s1) = 1 /\ s1[1].op = "cti_irq_ack"
    BY <1>0, FirstCall DEF s1
  <1>2. /\ s2 \in Seq(CallType) /\ Len(s2) = Len(s1) + 1
        /\ s2[Len(s1) + 1].op = "disable_pmu"
        /\ \A i \in 1 .. Len(s1) : s2[i] = s1[i]
    BY <1>0, <1>1, AndCall DEF s2
  <1>3. /\ s3 \in Seq(CallType) /\ Len(s3) = Len(s2) + 1
        /\ s3[Len(s2) + 1].op = "read_flags"
        /\ \A i \in 1 .. Len(s2) : s3[i] = s2[i]
    BY <1>0, <1>2, AndCall DEF s3
  <1>4. /\ s4 \in Seq(CallType) /\ Len(s4) = Len(s3) + 1
        /\ s4[Len(s3) + 1].op = "gatherSample"
        /\ \A i \in 1 .. Len(s3) : s4[i] = s3[i]
    BY <1>0, <1>3, AndCall DEF s4
  <1>5. /\ s5 \in Seq(CallType) /\ Len(s5) = Len(s4) + 1
        /\ s5[Len(s4) + 1].op = "reset_pmn"
        /\ \A i \in 1 .. Len(s4) : s5[i] = s4[i]
    BY <1>0, <1>4, AndCall DEF s5
  <1>6. /\ s6 \in Seq(CallType) /\ Len(s6) = Len(s5) + 1
        /\ s6[Len(s5) + 1].op = "rearm"
        /\ \A i \in 1 .. Len(s5) : s6[i] = s5[i]
    BY <1>0, <1>5, AndCall DEF s6
  <1>7. /\ s7 \in Seq(CallType) /\ Len(s7) = Len(s6) + 1
        /\ s7[Len(s6) + 1].op = "write_flags"
        /\ \A i \in 1 .. Len(s6) : s7[i] = s6[i]
    BY <1>0, <1>6, AndCall DEF s7
  <1>8. /\ s8 \in Seq(CallType) /\ Len(s8) = Len(s7) + 1
        /\ s8[Len(s7) + 1].op = "resume"
        /\ \A i \in 1 .. Len(s7) : s8[i] = s7[i]
    BY <1>0, <1>7, AndCall DEF s8
  <1>9. /\ Len(s1) = 1 /\ Len(s2) = 2 /\ Len(s3) = 3 /\ Len(s4) = 4
        /\ Len(s5) = 5 /\ Len(s6) = 6 /\ Len(s7) = 7 /\ Len(s8) = 8
    BY <1>0, <1>1, <1>2, <1>3, <1>4, <1>5, <1>6, <1>7, <1>8
  <1> QED
    BY <1>0, <1>1, <1>2, <1>3, <1>4, <1>5, <1>6, <1>7, <1>8, <1>9 
       DEF sample_handle_irq, s1, s2, s3, s4, s5, s6, s7, s8

\* The calls of stopCtrsLocal.
LEMMA StopCalls ==
  /\ stopCtrsLocal \in Seq(CallType) /\ Len(stopCtrsLocal) = 3 + num_ctrs
  /\ stopCtrsLocal[1].op = "disable_ccnt_irq"
  /\ stopCtrsLocal[2].op = "disable_ccnt"
  /\ \A n \in Ctrs : stopCtrsLocal[3 + n] = [op |-> "disable_pmn", n |-> n]
  /\ stopCtrsLocal[3 + num_ctrs].op = "disable_pmu"
  <1>0. /\ num_ctrs \in Nat \ {0} /\ \A n \in Ctrs : n \in Nat /\ n < num_ctrs
        /\ {"disable_ccnt_irq", "disable_ccnt", "disable_pmn", "disable_pmu"} \subseteq Ops
    BY ArmPmuAssumption DEF Ctrs, Ops
  <1> DEFINE s1 == Call("disable_ccnt_irq")
             s2 == s1 \o Call("disable_ccnt")
             s3 == s2 \o ForEach("disable_pmn")
             s4 == s3 \o Call("disable_pmu")
  <1> HIDE DEF s1, s2, s3, s4
  <1>1. s1 \in Seq(CallType) /\ Len(s1) = 1 /\ s1[1].op = "disable_ccnt_irq"
    BY <1>0, FirstCall DEF s1
  <1>2. /\ s2 \in Seq(CallType) /\ Len(s2) = Len(s1) + 1
        /\ s2[Len(s1) + 1].op = "disable_ccnt"
        /\ \A i \in 1 .. Len(s1) : s2[i] = s1[i]
    BY <1>0, <1>1, AndCall DEF s2
  <1>3. /\ s3 \in Seq(CallType) /\ Len(s3) = Len(s2) + num_ctrs
        /\ \A n \in Ctrs : s3[Len(s2) + 1 + n] = [op |-> "disable_pmn", n |-> n]
        /\ \A i \in 1 .. Len(s2) : s3[i] = s2[i]
    BY <1>0, <1>2, AndForEach DEF s3
  <1>4. /\ s4 \in Seq(CallType) /\ Len(s4) = Len(s3) + 1
        /\ s4[Len(s3) + 1].op = "disable_pmu"
        /\ \A i \in 1 .. Len(s3) : s4[i] = s3[i]
    BY <1>0, <1>3, AndCall DEF s4
  <1>5. Len(s1) = 1 /\ Len(s2) = 2 /\ Len(s3) = 2 + num_ctrs /\ Len(s4) = 3 + num_ctrs
    BY <1>0, <1>1, <1>2, <1>3, <1>4
  <1> QED
    BY <1>0, <1>1, <1>2, <1>3, <1>4, <1>5 DEF stopCtrsLocal, s1, s2, s3, s4

\* The calls of startCtrsLocal.
LEMMA StartCalls ==
  /\ startCtrsLocal \in Seq(CallType) /\ Len(startCtrsLocal) = 10 + 2 * num_ctrs
  /\ startCtrsLocal[1].op = "disable_pmu"
  /\ startCtrsLocal[2].op = "disable_ccnt"
  /\ startCtrsLocal[3].op = "reset_ccnt"
  /\ startCtrsLocal[4].op = "reset_pmn"
  /\ startCtrsLocal[5].op = "write_flags"
  /\ startCtrsLocal[6].op = "write_ccnt"
  /\ \A n \in Ctrs : startCtrsLocal[7 + n] = [op |-> "pmn_config", n |-> n]
  /\ startCtrsLocal[7 + num_ctrs].op = "dump_regs"
  /\ startCtrsLocal[8 + num_ctrs].op = "enable_ccnt_irq"
  /\ \A n \in Ctrs : startCtrsLocal[9 + num_ctrs + n] = [op |-> "enable_pmn", n |-> n]
  /\ startCtrsLocal[9 + 2 * num_ctrs].op = "enable_ccnt"
  /\ startCtrsLocal[10 + 2 * num_ctrs].op = "enable_pmu"
  <1>0. /\ num_ctrs \in Nat \ {0} /\ \A n \in Ctrs : n \in Nat /\ n < num_ctrs
        /\ {"disable_pmu", "disable_ccnt", "reset_ccnt", "reset_pmn", "write_flags", "write_ccnt",
            "pmn_config", "dump_regs", "enable_ccnt_irq", "enable_pmn", "enable_ccnt",
            "enable_pmu"} \subseteq Ops
    BY ArmPmuAssumption DEF Ctrs, Ops
  <1> DEFINE s1 == Call("disable_pmu")
             s2 == s1 \o Call("disable_ccnt")
             s3 == s2 \o Call("reset_ccnt")
             s4 == s3 \o Call("reset_pmn")
             s5 == s4 \o Call("write_flags")
             s6 == s5 \o Call("write_ccnt")
             s7 == s6 \o ForEach("pmn_config")
             s8 == s7 \o Call("dump_regs")
             s9 == s8 \o Call("enable_ccnt_irq")
             s10 == s9 \o ForEach("enable_pmn")
             s11 == s10 \o Call("enable_ccnt")
             s12 == s11 \o Call("enable_pmu")
  <1> HIDE DEF s1, s2, s3, s4, s5, s6, s7, s8, s9, s10, s11, s12
  <1>1. s1 \in Seq(CallType) /\ Len(s1) = 1 /\ s1[1].op = "disable_pmu"
    BY <1>0, FirstCall DEF s1
  <1>2. /\ s2 \in Seq(CallType) /\ Len(s2) = Len(s1) + 1
        /\ s2[Len(s1) + 1].op = "disable_ccnt"
        /\ \A i \in 1 .. Len(s1) : s2[i] = s1[i]
    BY <1>0, <1>1, AndCall DEF s2
  <1>3. /\ s3 \in Seq(CallType) /\ Len(s3) = Len(s2) + 1
        /\ s3[Len(s2) + 1].op = "reset_ccnt"
        /\ \A i \in 1 .. Len(s2) : s3[i] = s2[i]
    BY <1>0, <1>2, AndCall DEF s3
  <1>4. /\ s4 \in Seq(CallType) /\ Len(s4) = Len(s3) + 1
        /\ s4[Len(s3) + 1].op = "reset_pmn"
        /\ \A i \in 1 .. Len(s3) : s4[i] = s3[i]
    BY <1>0, <1>3, AndCall DEF s4
  <1>5. /\ s5 \in Seq(CallType) /\ Len(s5) = Len(s4) + 1
        /\ s5[Len(s4) + 1].op = "write_flags"
        /\ \A i \in 1 .. Len(s4) : s5[i] = s4[i]
    BY <1>0, <1>4, AndCall DEF s5
  <1>6. /\ s6 \in Seq(CallType) /\ Len(s6) = Len(s5) + 1
        /\ s6[Len(s5) + 1].op = "write_ccnt"
        /\ \A i \in 1 .. Len(s5) : s6[i] = s5[i]
    BY <1>0, <1>5, AndCall DEF s6
  <1>7. /\ s7 \in Seq(CallType) /\ Len(s7) = Len(s6) + num_ctrs
        /\ \A n \in Ctrs : s7[Len(s6) + 1 + n] = [op |-> "pmn_config", n |-> n]
        /\ \A i \in 1 .. Len(s6) : s7[i] = s6[i]
    BY <1>0, <1>6, AndForEach DEF s7
  <1>8. /\ s8 \in Seq(CallType) /\ Len(s8) = Len(s7) + 1
        /\ s8[Len(s7) + 1].op = "dump_regs"
        /\ \A i \in 1 .. Len(s7) : s8[i] = s7[i]
    BY <1>0, <1>7, AndCall DEF s8
  <1>9. /\ s9 \in Seq(CallType) /\ Len(s9) = Len(s8) + 1
        /\ s9[Len(s8) + 1].op = "enable_ccnt_irq"
        /\ \A i \in 1 .. Len(s8) : s9[i] = s8[i]
    BY <1>0, <1>8, AndCall DEF s9
  <1>10. /\ s10 \in Seq(CallType) /\ Len(s10) = Len(s9) + num_ctrs
         /\ \A i \in 1 .. Len(s9) : s10[i] = s9[i]
    BY <1>0, <1>9, AndForEach DEF s10
  <1>24. \A n \in Ctrs : s10[Len(s9) + 1 + n] = [op |-> "enable_pmn", n |-> n]
    BY <1>0, <1>9, AndForEach DEF s10
  <1>11. /\ s11 \in Seq(CallType) /\ Len(s11) = Len(s10) + 1
        /\ s11[Len(s10) + 1].op = "enable_ccnt"
        /\ \A i \in 1 .. Len(s10) : s11[i] = s10[i]
    BY <1>0, <1>10, AndCall DEF s11
  <1>12. /\ s12 \in Seq(CallType) /\ Len(s12) = Len(s11) + 1
        /\ s12[Len(s11) + 1].op = "enable_pmu"
        /\ \A i \in 1 .. Len(s11) : s12[i] = s11[i]
    BY <1>0, <1>11, AndCall DEF s12
  <1>13. /\ Len(s1) = 1 /\ Len(s2) = 2 /\ Len(s3) = 3 /\ Len(s4) = 4 /\ Len(s5) = 5
         /\ Len(s6) = 6 /\ Len(s7) = 6 + num_ctrs /\ Len(s8) = 7 + num_ctrs
         /\ Len(s9) = 8 + num_ctrs /\ Len(s10) = 8 + 2 * num_ctrs
         /\ Len(s11) = 9 + 2 * num_ctrs /\ Len(s12) = 10 + 2 * num_ctrs
    BY <1>0, <1>1, <1>2, <1>3, <1>4, <1>5, <1>6, <1>7, <1>8, <1>9, <1>10, <1>11, <1>12
  <1>14. ASSUME NEW i \in 1 .. 6 + num_ctrs
         PROVE  s12[i] = s7[i]
    <2>1. /\ i \in 1 .. Len(s7) /\ i \in 1 .. Len(s8) /\ i \in 1 .. Len(s9)
          /\ i \in 1 .. Len(s10) /\ i \in 1 .. Len(s11)
      BY <1>0, <1>13
    <2>2. s8[i] = s7[i]
      BY <2>1, <1>8
    <2>3. s9[i] = s8[i]
      BY <2>1, <1>9
    <2>4. s10[i] = s9[i]
      BY <2>1, <1>10
    <2>5. s11[i] = s10[i] /\ s12[i] = s11[i]
      BY <2>1, <1>11, <1>12
    <2> QED
      BY <2>2, <2>3, <2>4, <2>5
  <1>15. ASSUME NEW i \in 1 .. 6
         PROVE  s12[i] = s6[i]
    <2>1. i \in 1 .. 6 + num_ctrs /\ i \in 1 .. Len(s6)
      BY <1>0, <1>13
    <2> QED
      BY <2>1, <1>7, <1>14
  <1>16. s6[1].op = "disable_pmu" /\ s6[2].op = "disable_ccnt" /\ s6[3].op = "reset_ccnt"
    <2>1. s3[1].op = "disable_pmu" /\ s3[2].op = "disable_ccnt" /\ s3[3].op = "reset_ccnt"
      BY <1>1, <1>2, <1>3, <1>13
    <2> QED
      BY <2>1, <1>4, <1>5, <1>6, <1>13
  <1>17. s6[4].op = "reset_pmn" /\ s6[5].op = "write_flags" /\ s6[6].op = "write_ccnt"
    BY <1>4, <1>5, <1>6, <1>13
  <1>18. ASSUME NEW n \in Ctrs
         PROVE  s12[7 + n] = [op |-> "pmn_config", n |-> n]
    <2>1. 7 + n \in 1 .. 6 + num_ctrs /\ Len(s6) + 1 + n = 7 + n
      BY <1>0, <1>13
    <2>2. s7[7 + n] = [op |-> "pmn_config", n |-> n]
      BY <1>7, <2>1
    <2>3. s12[7 + n] = s7[7 + n]
      BY <2>1, <1>14
    <2> QED
      BY <2>1, <2>2, <2>3
  <1>19. s12[7 + num_ctrs].op = "dump_regs" /\ s12[8 + num_ctrs].op = "enable_ccnt_irq"
    <2>1. s8[7 + num_ctrs].op = "dump_regs"
      BY <1>8, <1>13
    <2>2. s9[7 + num_ctrs] = s8[7 + num_ctrs]
      BY <1>0, <1>9, <1>13
    <2>3. s9[8 + num_ctrs].op = "enable_ccnt_irq"
      BY <1>9, <1>13
    <2>4. /\ 7 + num_ctrs \in 1 .. Len(s9) /\ 7 + num_ctrs \in 1 .. Len(s10)
          /\ 7 + num_ctrs \in 1 .. Len(s11)
          /\ 8 + num_ctrs \in 1 .. Len(s9) /\ 8 + num_ctrs \in 1 .. Len(s10)
          /\ 8 + num_ctrs \in 1 .. Len(s11)
      BY <1>0, <1>13
    <2>5. s10[7 + num_ctrs] = s9[7 + num_ctrs] /\ s10[8 + num_ctrs] = s9[8 + num_ctrs]
      BY <2>4, <1>10
    <2>6. s12[7 + num_ctrs] = s10[7 + num_ctrs] /\ s12[8 + num_ctrs] = s10[8 + num_ctrs]
      BY <2>4, <1>11, <1>12
    <2> QED
      BY <2>1, <2>2, <2>3, <2>5, <2>6
  <1>20. ASSUME NEW n \in Ctrs
         PROVE  s12[9 + num_ctrs + n] = [op |-> "enable_pmn", n |-> n]
    <2>1. /\ 9 + num_ctrs + n \in 1 .. Len(s10) /\ 9 + num_ctrs + n \in 1 .. Len(s11)
          /\ Len(s9) + 1 + n = 9 + num_ctrs + n
      BY <1>0, <1>13
    <2>2. s10[9 + num_ctrs + n] = [op |-> "enable_pmn", n |-> n]
      BY <1>24, <2>1
    <2>3. s12[9 + num_ctrs + n] = s10[9 + num_ctrs + n]
      BY <2>1, <1>11, <1>12
    <2> QED
      BY <2>1, <2>2, <2>3
  <1>21. s12[9 + 2 * num_ctrs].op = "enable_ccnt" /\ s12[10 + 2 * num_ctrs].op = "enable_pmu"
    BY <1>0, <1>11, <1>12, <1>13
  <1>22. s12 = startCtrsLocal
    BY DEF startCtrsLocal, s1, s2, s3, s4, s5, s6, s7, s8, s9, s10, s11, s12
  <1>23. \A i \in 1 .. 6 : startCtrsLocal[i] = s6[i]
    BY <1>15, <1>22
  <1>25. s12 \in Seq(CallType) /\ Len(s12) = 10 + 2 * num_ctrs
    BY <1>12, <1>13
  <1>26. /\ startCtrsLocal[1].op = "disable_pmu" /\ startCtrsLocal[2].op = "disable_ccnt"
         /\ startCtrsLocal[3].op = "reset_ccnt" /\ startCtrsLocal[4].op = "reset_pmn"
         /\ startCtrsLocal[5].op = "write_flags" /\ startCtrsLocal[6].op = "write_ccnt"
    BY <1>16, <1>17, <1>23
  <1> QED
    BY <1>18, <1>19, <1>20, <1>21, <1>22, <1>25, <1>26

-----------------------------------------------------------------------------
(* The invariant                                                           *)

\* How many calls of s the CPU has made when the rest is left.
At(s) == Len(s) - Len(code)

\* The calls left are the last ones of s.
Rest(s) ==
  /\ Len(code) <= Len(s)
  /\ \A i \in 1 .. Len(code) : code[i] = s[At(s) + i]

Registers ==
  [E : BOOLEAN, CNTENS : SUBSET Bits, INTENS : SUBSET Bits, FLAGS : SUBSET Bits,
   SEL : Ctrs, CCNT : Count, PMN : [Ctrs -> Count], EVTSEL : [Ctrs -> Events \cup {0}]]

PmuTypes ==
  /\ r \in Registers
  /\ pending \in BOOLEAN
  /\ running \in {NULL, "start", "stop", "dump", "irq"} /\ ipi \in {NULL, "start", "stop", "dump"}
  /\ code \in Seq(CallType)
  /\ cfgs \in [Ctrs -> Events \cup {0}] /\ ctr_attr \in [0 .. Attrs - 1 -> Events \cup {0}]
  /\ period_attr \in Count /\ period \in Count /\ armed \in Count
  /\ shutdown \in 0 .. 2
  /\ writer \in {"idle", "period", "start", "waiting", "stopping"}
  /\ elapsed \in 0 .. MaxElapsed
  /\ occurred \in [Events \cup {0} -> Count]

\* What the CPU runs, the calls it has left and what the writer waits for go together.
Control ==
  /\ running = NULL => code = <<>>
  /\ running = "start" => Rest(startCtrsLocal)
  /\ running = "stop" => Rest(stopCtrsLocal)
  /\ running = "irq" => Rest(sample_handle_irq)
  /\ running = "dump" => Rest(Call("dump_regs"))
  /\ running \in {"start", "stop", "dump"} => ipi = running
  /\ ipi = "start" => shutdown = 0 /\ writer = "waiting"
  /\ ipi = "stop" => writer = "stopping"
  /\ ipi = "dump" => writer = "waiting"
  /\ writer = "stopping" <=> shutdown = 1

Starting(from, to) == running = "start" /\ At(startCtrsLocal) \in from .. to
Stopping(from, to) == running = "stop" /\ At(stopCtrsLocal) \in from .. to
Handling(from, to) == running = "irq" /\ At(sample_handle_irq) \in from .. to

\* Where the PMU is known to be disabled.  Once a stop is through only a start enables it.
Disabled ==
  /\ Starting(1, 9 + 2 * num_ctrs) => ~r.E
  /\ Handling(2, 7) => ~r.E
  /\ Stopping(2, 3 + num_ctrs) => CCNT \notin r.CNTENS
  /\ Stopping(3 + num_ctrs, 3 + num_ctrs) => ~r.E
  /\ shutdown # 0 /\ ipi # "stop" => ~r.E /\ CCNT \notin r.CNTENS

\* The PMU has not been used yet.
Fresh == ~pending /\ ~r.E /\ running # "irq"

\* The cycle counter shows how long ago it was written.
Clock ==
  \/ Fresh /\ running # "start"
  \/ Starting(0, 5)
  \/ r.CCNT = (Modulus - 1 - armed + elapsed) % Modulus

\* An overflow of the cycle counter has not been lost, unless it is being stopped or started.
Noticed ==
  /\ CCNT \in r.CNTENS => CCNT \in r.INTENS \/ running = "stop"
  /\ Starting(8 + num_ctrs, 10 + 2 * num_ctrs) => CCNT \in r.INTENS
  /\ Starting(6, 9 + 2 * num_ctrs) => elapsed = 0
  /\ Handling(6, 7) => elapsed <= armed \/ CCNT \notin r.CNTENS \/ ipi = "stop"
  /\ \/ elapsed <= armed \/ pending \/ ~r.E
     \/ CCNT \notin r.CNTENS \/ running = "stop"
     \/ Handling(1, 1) \/ Starting(0, 5)

\* Every counter counts its event.
Configured ==
  /\ r.EVTSEL = cfgs /\ Ctrs \subseteq r.CNTENS
  /\ \A n \in Ctrs : r.PMN[n] = occurred[cfgs[n]]

Counted ==
  /\ Starting(4, 9 + 2 * num_ctrs) => r.PMN = [n \in Ctrs |-> 0] /\ occurred = None
  /\ \A n \in Ctrs : Starting(7 + n, 10 + 2 * num_ctrs) => r.EVTSEL[n] = cfgs[n]
  /\ \A n \in Ctrs : Starting(9 + num_ctrs + n, 10 + 2 * num_ctrs) => n \in r.CNTENS
  /\ Fresh \/ Starting(0, 9 + 2 * num_ctrs) \/ Configured

PmuInv == PmuTypes /\ Control /\ Disabled /\ Clock /\ Noticed /\ Counted

-----------------------------------------------------------------------------
(* Types                                                                   *)

\* The constants, and arithmetic on counters.
LEMMA Constants ==
  /\ num_ctrs \in Nat \ {0} /\ Attrs \in 0 .. num_ctrs
  /\ Modulus \in Nat \ {0} /\ 0 \in Count /\ Count \subseteq Nat
  /\ Periods \subseteq Count /\ MIN_PERIOD \in Count /\ DefaultPeriod \in Count
  /\ MaxElapsed \in 1 .. Modulus - 1
  /\ CCNT \in Bits /\ Ctrs \subseteq Bits /\ CCNT \notin Ctrs
  /\ num_ctrs - 1 \in Ctrs /\ 0 \in Ctrs
  /\ 0 \notin Events /\ DefaultEvent \in Events
  /\ NULL \notin {"start", "stop", "dump", "irq"}
  BY ArmPmuAssumption DEF Count, CCNT, Bits, Ctrs

\* Arithmetic modulo Modulus.
LEMMA Wraps ==
  /\ \A x \in Nat : x % Modulus \in Count
  /\ \A x \in Count : (x + 1) % Modulus \in Count
  /\ \A x \in Count : (Modulus - 1 - x) % Modulus = Modulus - 1 - x /\ Modulus - 1 - x \in Count
  <1>1. Modulus \in Nat /\ Modulus > 0
    BY Constants
  <1>2. ASSUME NEW x \in Count
        PROVE  Modulus - 1 - x \in Count /\ (Modulus - 1 - x) % Modulus = Modulus - 1 - x
    BY <1>1 DEF Count
  <1>3. \A x \in Nat : x % Modulus \in Count
    BY <1>1 DEF Count
  <1>4. \A x \in Count : x + 1 \in Nat
    BY Constants
  <1> QED
    BY <1>2, <1>3, <1>4

\* Every call leaves registers.
LEMMA AfterType ==
  ASSUME PmuTypes, NEW c \in CallType
  PROVE  After(c) \in Registers
  <1>1. c.n \in Ctrs /\ c.op \in Ops
    BY DEF CallType
  <1>2. r \in Registers /\ cfgs[c.n] \in Events \cup {0} /\ FirstCount \in Count /\ 0 \in Count
    BY <1>1, Constants, Wraps DEF PmuTypes, FirstCount
  <1>3. num_ctrs - 1 \in Ctrs /\ Ctrs \subseteq Bits /\ CCNT \in Bits
    BY Constants
  <1>4. CASE c.op \in {"enable_pmu", "disable_pmu"}
    BY <1>2, <1>4 DEF After, Registers, enable_pmu, disable_pmu
  <1>5. CASE c.op \in {"enable_ccnt", "disable_ccnt", "enable_ccnt_irq", "disable_ccnt_irq"}
    BY <1>2, <1>3, <1>5 DEF After, Registers, enable_ccnt, disable_ccnt, enable_ccnt_irq,
         disable_ccnt_irq
  <1>6. CASE c.op \in {"enable_pmn", "disable_pmn"}
    BY <1>1, <1>2, <1>3, <1>6 DEF After, Registers, enable_pmn, disable_pmn
  <1>7. CASE c.op \in {"reset_ccnt", "reset_pmn", "write_flags", "write_ccnt"}
    BY <1>2, <1>7 DEF After, Registers, reset_ccnt, reset_pmn, write_flags, write_ccnt
  <1>8. CASE c.op \in {"rearm", "resume"}
    BY <1>2, <1>8 DEF After, Registers, write_ccnt, enable_pmu
  <1>9. CASE c.op = "pmn_config"
    BY <1>1, <1>2, <1>9 DEF After, Registers, pmn_config, Selected
  <1>10. CASE c.op \in {"dump_regs", "gatherSample"}
    BY <1>2, <1>3, <1>10 DEF After, Registers, Selected
  <1>11. CASE c.op \in {"cti_irq_ack", "read_flags"}
    BY <1>2, <1>11 DEF After
  <1> QED
    BY <1>1, <1>4, <1>5, <1>6, <1>7, <1>8, <1>9, <1>10, <1>11 DEF Ops

\* One call less to make.
LEMMA CallMade ==
  ASSUME PmuTypes, code # <<>>, NEW s \in Seq(CallType), Rest(s)
  PROVE  /\ Head(code) = s[At(s) + 1] /\ At(s) \in 0 .. Len(s) - 1
         /\ code' = Tail(code) => Rest(s)' /\ At(s)' = At(s) + 1
         /\ code' = <<>> => Rest(s)' /\ At(s)' = Len(s)
  <1>1. /\ code \in Seq(CallType) /\ Len(code) \in Nat \ {0} /\ Len(s) \in Nat
        /\ Len(code) <= Len(s) /\ \A i \in 1 .. Len(code) : code[i] = s[At(s) + i]
    BY DEF PmuTypes, Rest
  <1>2. At(s) \in 0 .. Len(s) - 1 /\ Head(code) = s[At(s) + 1]
    BY <1>1 DEF At
  <1>3. ASSUME code' = Tail(code)
        PROVE  Rest(s)' /\ At(s)' = At(s) + 1
    <2>1. Len(code') = Len(code) - 1 /\ \A i \in 1 .. Len(code) - 1 : code'[i] = code[i + 1]
      BY <1>1, <1>3
    <2>2. At(s)' = At(s) + 1
      BY <1>1, <2>1 DEF At
    <2>3. ASSUME NEW i \in 1 .. Len(code')
          PROVE  code'[i] = s[At(s)' + i]
      <3>1. i + 1 \in 1 .. Len(code) /\ code'[i] = code[i + 1]
        BY <1>1, <2>1
      <3>2. code[i + 1] = s[At(s) + (i + 1)] /\ At(s) + (i + 1) = At(s)' + i
        BY <1>1, <1>2, <2>2, <3>1
      <3> QED
        BY <3>1, <3>2
    <2> QED
      BY <1>1, <2>1, <2>2, <2>3 DEF Rest
  <1>4. ASSUME code' = <<>>
        PROVE  Rest(s)' /\ At(s)' = Len(s)
    BY <1>1, <1>4 DEF Rest, At
  <1> QED
    BY <1>2, <1>3, <1>4

\* All calls are still to be made.
LEMMA AllCalls ==
  ASSUME NEW s \in Seq(CallType), code' = s
  PROVE  Rest(s)' /\ At(s)' = 0
  BY DEF Rest, At

\* The call of dumpCtrs.
LEMMA DumpCalls == Call("dump_regs") \in Seq(CallType) /\ Len(Call("dump_regs")) = 1
                   /\ Call("dump_regs")[1].op = "dump_regs"
  BY FirstCall DEF Ops

\* The registers and variables keep their types.
LEMMA TypesInit == PmuInit => PmuTypes
  BY Constants DEF PmuInit, PmuTypes, Registers, None

\* The registers after a cycle.
LEMMA CycleEffect ==
  ASSUME PmuTypes, NEW E \in SUBSET Events, Cycle(E)
  PROVE  /\ r' \in Registers
         /\ r.E /\ r'.E = r.E /\ r'.CNTENS = r.CNTENS
         /\ r'.INTENS = r.INTENS /\ r'.EVTSEL = r.EVTSEL
         /\ r'.CCNT = IF CCNT \in r.CNTENS THEN (r.CCNT + 1) % Modulus ELSE r.CCNT
         /\ \A n \in Ctrs : r'.PMN[n] = IF n \in r.CNTENS /\ r.EVTSEL[n] \in E
                                       THEN (r.PMN[n] + 1) % Modulus ELSE r.PMN[n]
         /\ pending => pending'
         /\ CCNT \in r.CNTENS /\ CCNT \in r.INTENS /\ r.CCNT = Modulus - 1 => pending'
  <1> DEFINE over == {n \in Counting(E) : (IF n = CCNT THEN r.CCNT ELSE r.PMN[n]) = Modulus - 1}
             pmn == [n \in Ctrs |->
                       IF n \in Counting(E) THEN (r.PMN[n] + 1) % Modulus ELSE r.PMN[n]]
             ccnt == IF CCNT \in Counting(E) THEN (r.CCNT + 1) % Modulus ELSE r.CCNT
  <1>1. r \in Registers /\ CCNT \notin Ctrs
    BY Constants DEF PmuTypes
  <1>2. over \subseteq Bits
    BY <1>1 DEF Counting, Registers
  <1>3. \A x \in Count : (x + 1) % Modulus \in Count
    BY Wraps
  <1>4. pmn \in [Ctrs -> Count] /\ ccnt \in Count
    BY <1>1, <1>3 DEF Registers
  <1>5. \A n \in Ctrs : pmn[n] = IF n \in r.CNTENS /\ r.EVTSEL[n] \in E
                                THEN (r.PMN[n] + 1) % Modulus ELSE r.PMN[n]
    BY <1>1 DEF Counting
  <1>6. ccnt = IF CCNT \in r.CNTENS THEN (r.CCNT + 1) % Modulus ELSE r.CCNT
    BY DEF Counting
  <1>7. CCNT \in r.CNTENS /\ r.CCNT = Modulus - 1 => CCNT \in over
    BY DEF Counting
  <1>8. /\ r' = [r EXCEPT !.CCNT = ccnt, !.PMN = pmn, !.FLAGS = @ \cup over]
        /\ pending' = (pending \/ over \cap r.INTENS # {}) /\ r.E
    BY DEF Cycle
  <1> HIDE DEF over, pmn, ccnt
  <1>9. /\ r' \in Registers /\ r'.CCNT = ccnt /\ r'.PMN = pmn
        /\ r'.E = r.E /\ r'.CNTENS = r.CNTENS /\ r'.INTENS = r.INTENS /\ r'.EVTSEL = r.EVTSEL
    BY <1>1, <1>2, <1>4, <1>8 DEF Registers
  <1>10. pending => pending'
    BY <1>8
  <1>11. CCNT \in over /\ CCNT \in r.INTENS => pending'
    <2>1. CCNT \in over /\ CCNT \in r.INTENS => over \cap r.INTENS # {}
      OBVIOUS
    <2> QED
      BY <1>8, <2>1
  <1> QED
    BY <1>5, <1>6, <1>7, <1>8, <1>9, <1>10, <1>11

LEMMA TypesStep == PmuTypes /\ [PmuNext]_pmuVars => PmuTypes'
  <1> SUFFICES ASSUME PmuTypes, [PmuNext]_pmuVars PROVE PmuTypes'
    OBVIOUS
  <1> USE DEF PmuTypes, cpuVars, attrVars, ctlVars, histVars
  <1>1. CASE Step
    <2>1. Head(code) \in CallType /\ Tail(code) \in Seq(CallType) /\ <<>> \in Seq(CallType)
      BY <1>1 DEF Step
    <2>2. r' = After(Head(code))
      BY <1>1 DEF Step
    <2>3. r' \in Registers
      BY <2>1, <2>2, AfterType
    <2>4. code' \in Seq(CallType) /\ pending' \in BOOLEAN
      BY <1>1, <2>1 DEF Step
    <2>5. /\ armed' \in Count /\ elapsed' \in 0 .. MaxElapsed
          /\ occurred' \in [Events \cup {0} -> Count]
      BY <1>1, Constants DEF Step, None
    <2> QED
      BY <1>1, <2>3, <2>4, <2>5 DEF Step
  <1>2. CASE Interrupt
    BY <1>2, IrqCalls DEF Interrupt
  <1>3. CASE TakeCall
    <2>1. code' \in Seq(CallType)
      BY <1>3, StartCalls, StopCalls, DumpCalls DEF TakeCall
    <2>2. cfgs' \in [Ctrs -> Events \cup {0}]
      BY <1>3, Constants DEF TakeCall, Ctrs
    <2> QED
      BY <1>3, <2>1, <2>2 DEF TakeCall
  <1>4. CASE Return
    BY <1>4 DEF Return
  <1>5. ASSUME NEW E \in SUBSET Events, Cycle(E) PROVE PmuTypes'
    <2>1. \A x \in Count : (x + 1) % Modulus \in Count
      BY Wraps
    <2>2. r' \in Registers
      BY <1>5, CycleEffect
    <2>3. occurred' \in [Events \cup {0} -> Count]
      BY <1>5, <2>1 DEF Cycle
    <2>4. elapsed' \in 0 .. MaxElapsed /\ pending' \in BOOLEAN
      BY <1>5, Constants DEF Cycle
    <2> QED
      BY <1>5, <2>2, <2>3, <2>4 DEF Cycle
  <1>6. ASSUME NEW v \in Periods, StorePeriod(v) PROVE PmuTypes'
    BY <1>6, Constants DEF StorePeriod
  <1>7. ASSUME NEW n \in DOMAIN ctr_attr, NEW e \in Events \cup {0}, StoreCounter(n, e)
        PROVE  PmuTypes'
    BY <1>7 DEF StoreCounter
  <1>8. CASE Start \/ StartPeriod \/ StartCall
    BY <1>8, Constants DEF Start, StartPeriod, StartCall
  <1>9. CASE Stop \/ Dump \/ Called
    BY <1>9 DEF Stop, Dump, Called
  <1>10. CASE UNCHANGED pmuVars
    BY <1>10 DEF pmuVars
  <1> QED
    BY <1>1, <1>2, <1>3, <1>4, <1>5, <1>6, <1>7, <1>8, <1>9, <1>10 DEF PmuNext

\* The routine that runs, the calls left and the writer go together.
LEMMA ControlInit == PmuInit => Control
  BY Constants DEF PmuInit, Control

LEMMA ControlStep == PmuTypes /\ Control /\ [PmuNext]_pmuVars => Control'
  <1> SUFFICES ASSUME PmuTypes, Control, [PmuNext]_pmuVars PROVE Control'
    OBVIOUS
  <1>0. /\ startCtrsLocal \in Seq(CallType) /\ stopCtrsLocal \in Seq(CallType)
        /\ sample_handle_irq \in Seq(CallType) /\ Call("dump_regs") \in Seq(CallType)
    BY StartCalls, StopCalls, IrqCalls, DumpCalls
  <1>1. CASE Step
    <2>1. code # <<>> /\ (code' = Tail(code) \/ code' = <<>>) /\ UNCHANGED <<running, ctlVars>>
      BY <1>1 DEF Step
    <2>2. /\ running = "start" => Rest(startCtrsLocal)'
          /\ running = "stop" => Rest(stopCtrsLocal)'
          /\ running = "irq" => Rest(sample_handle_irq)'
          /\ running = "dump" => Rest(Call("dump_regs"))'
      BY <1>0, <2>1, CallMade DEF Control
    <2> QED
      BY <2>1, <2>2 DEF Control, ctlVars
  <1>2. CASE Interrupt
    BY <1>0, <1>2, AllCalls, Constants DEF Interrupt, Control, ctlVars
  <1>3. CASE TakeCall
    <2>1. /\ ipi # NULL /\ running' = ipi /\ UNCHANGED <<ctlVars>>
          /\ ipi = "start" => code' = startCtrsLocal
          /\ ipi = "stop" => code' = stopCtrsLocal
          /\ ipi = "dump" => code' = Call("dump_regs")
      BY <1>3 DEF TakeCall
    <2> QED
      BY <1>0, <2>1, AllCalls DEF Control, ctlVars, PmuTypes
  <1>4. CASE Return
    BY <1>4, Constants DEF Return, Control, PmuTypes
  <1>5. ASSUME UNCHANGED <<running, code, ctlVars>> PROVE Control'
    BY <1>5 DEF Control, Rest, At, ctlVars
  <1>6. ASSUME \/ \E E \in SUBSET Events : Cycle(E)
               \/ \E v \in Periods : StorePeriod(v)
               \/ \E n \in DOMAIN ctr_attr, e \in Events \cup {0} : StoreCounter(n, e)
               \/ UNCHANGED pmuVars
        PROVE  Control'
    BY <1>5, <1>6 DEF Cycle, StorePeriod, StoreCounter, pmuVars, cpuVars
  <1>7. CASE Start \/ StartPeriod \/ StartCall \/ Stop \/ Dump \/ Called
    <2>1. UNCHANGED <<running, code>> /\ ipi = NULL
      BY <1>7, Constants DEF Start, StartPeriod, StartCall, Stop, Dump, Called,
         cpuVars, Control, PmuTypes
    <2>2. running \notin {"start", "stop", "dump"}
      BY <2>1, Constants DEF Control
    <2>3. /\ running' = NULL => code' = <<>>
          /\ running' = "irq" => Rest(sample_handle_irq)'
      BY <2>1 DEF Control, Rest, At
    <2>4. CASE Start \/ StartPeriod
      BY <2>1, <2>2, <2>3, <2>4, Constants DEF Start, StartPeriod, Control
    <2>5. CASE StartCall \/ Stop \/ Dump
      BY <2>1, <2>2, <2>3, <2>5, Constants DEF StartCall, Stop, Dump, Control, PmuTypes
    <2>6. CASE Called
      BY <2>1, <2>2, <2>3, <2>6, Constants DEF Called, Control
    <2> QED
      BY <1>7, <2>4, <2>5, <2>6
  <1> QED
    BY <1>1, <1>2, <1>3, <1>4, <1>6, <1>7 DEF PmuNext

-----------------------------------------------------------------------------
(* The effect of the next call of each routine                             *)

\* A call other than the one that may end the handler.
LEMMA PlainCall ==
  ASSUME PmuTypes, Step, NEW s \in Seq(CallType), Rest(s), s[At(s) + 1].op # "read_flags"
  PROVE  /\ At(s) \in 0 .. Len(s) - 1 /\ At(s)' = At(s) + 1 /\ running' = running
         /\ r' = After(s[At(s) + 1])
  <1>1. code # <<>> /\ Head(code) = s[At(s) + 1]
    BY CallMade DEF Step
  <1>2. code' = Tail(code)
    BY <1>1 DEF Step, Spurious
  <1> QED
    BY <1>1, <1>2, CallMade DEF Step

\* The call after the first k of startCtrsLocal.
LEMMA StartTable ==
  ASSUME NEW k \in 0 .. 9 + 2 * num_ctrs, NEW c, c = startCtrsLocal[k + 1]
  PROVE  \/ k = 0 /\ c.op = "disable_pmu"
         \/ k = 1 /\ c.op = "disable_ccnt"
         \/ k = 2 /\ c.op = "reset_ccnt"
         \/ k = 3 /\ c.op = "reset_pmn"
         \/ k = 4 /\ c.op = "write_flags"
         \/ k = 5 /\ c.op = "write_ccnt"
         \/ \E n \in Ctrs : k = 6 + n /\ c.op = "pmn_config" /\ c.n = n
         \/ k = 6 + num_ctrs /\ c.op = "dump_regs"
         \/ k = 7 + num_ctrs /\ c.op = "enable_ccnt_irq"
         \/ \E n \in Ctrs : k = 8 + num_ctrs + n /\ c.op = "enable_pmn" /\ c.n = n
         \/ k = 8 + 2 * num_ctrs /\ c.op = "enable_ccnt"
         \/ k = 9 + 2 * num_ctrs /\ c.op = "enable_pmu"
  <1>0. num_ctrs \in Nat \ {0} /\ Ctrs = 0 .. num_ctrs - 1
    BY Constants DEF Ctrs
  <1>1. CASE k \in 0 .. 5
    BY <1>1, StartCalls
  <1>2. CASE k \in 6 .. 5 + num_ctrs
    <2>1. k - 6 \in Ctrs /\ k + 1 = 7 + (k - 6)
      BY <1>0, <1>2
    <2>2. c = [op |-> "pmn_config", n |-> k - 6]
      BY <2>1, StartCalls
    <2> QED
      BY <1>2, <2>1, <2>2
  <1>3. CASE k \in {6 + num_ctrs, 7 + num_ctrs}
    <2>1. 6 + num_ctrs + 1 = 7 + num_ctrs /\ 7 + num_ctrs + 1 = 8 + num_ctrs
      BY <1>0
    <2> QED
      BY <1>3, <2>1, StartCalls
  <1>4. CASE k \in 8 + num_ctrs .. 7 + 2 * num_ctrs
    <2>1. k - (8 + num_ctrs) \in Ctrs /\ k + 1 = 9 + num_ctrs + (k - (8 + num_ctrs))
      BY <1>0, <1>4
    <2>2. c = [op |-> "enable_pmn", n |-> k - (8 + num_ctrs)]
      BY <2>1, StartCalls
    <2>3. k = 8 + num_ctrs + (k - (8 + num_ctrs))
      BY <1>0, <1>4
    <2> QED
      BY <2>1, <2>2, <2>3
  <1>5. CASE k \in {8 + 2 * num_ctrs, 9 + 2 * num_ctrs}
    <2>1. 8 + 2 * num_ctrs + 1 = 9 + 2 * num_ctrs /\ 9 + 2 * num_ctrs + 1 = 10 + 2 * num_ctrs
      BY <1>0
    <2> QED
      BY <1>5, <2>1, StartCalls
  <1> QED
    BY <1>0, <1>1, <1>2, <1>3, <1>4, <1>5

\* The call after the first k of stopCtrsLocal.
LEMMA StopTable ==
  ASSUME NEW k \in 0 .. 2 + num_ctrs, NEW c, c = stopCtrsLocal[k + 1]
  PROVE  \/ k = 0 /\ c.op = "disable_ccnt_irq"
         \/ k = 1 /\ c.op = "disable_ccnt"
         \/ \E n \in Ctrs : k = 2 + n /\ c.op = "disable_pmn" /\ c.n = n
         \/ k = 2 + num_ctrs /\ c.op = "disable_pmu"
  <1>0. num_ctrs \in Nat \ {0} /\ Ctrs = 0 .. num_ctrs - 1
    BY Constants DEF Ctrs
  <1>1. CASE k \in 0 .. 1
    BY <1>1, StopCalls
  <1>2. CASE k \in 2 .. 1 + num_ctrs
    <2>1. k - 2 \in Ctrs /\ k + 1 = 3 + (k - 2) /\ k = 2 + (k - 2)
      BY <1>0, <1>2
    <2>2. c = [op |-> "disable_pmn", n |-> k - 2]
      BY <2>1, StopCalls
    <2> QED
      BY <2>1, <2>2
  <1>3. CASE k = 2 + num_ctrs
    <2>1. 2 + num_ctrs + 1 = 3 + num_ctrs
      BY <1>0
    <2> QED
      BY <1>3, <2>1, StopCalls
  <1> QED
    BY <1>0, <1>1, <1>2, <1>3

\* What the call after the first k of startCtrsLocal changes.
LEMMA StartEffect ==
  ASSUME PmuTypes, Control, Step, running = "start", NEW k, k = At(startCtrsLocal)
  PROVE  /\ k \in 0 .. 9 + 2 * num_ctrs /\ At(startCtrsLocal)' = k + 1 /\ running' = "start"
         /\ k = 0 => ~r'.E
         /\ k \in 1 .. 8 + 2 * num_ctrs => r'.E = r.E
         /\ CCNT \in r'.CNTENS => CCNT \in r.CNTENS \/ k = 8 + 2 * num_ctrs
         /\ \A n \in Ctrs : n \in r.CNTENS \/ k = 8 + num_ctrs + n => n \in r'.CNTENS
         /\ CCNT \in r.INTENS \/ k = 7 + num_ctrs => CCNT \in r'.INTENS
         /\ k = 5 => r'.CCNT = FirstCount /\ armed' = period /\ elapsed' = 0
         /\ k > 5 => r'.CCNT = r.CCNT /\ armed' = armed /\ elapsed' = elapsed
         /\ k = 3 => r'.PMN = [n \in Ctrs |-> 0] /\ occurred' = None
         /\ k > 3 => r'.PMN = r.PMN /\ occurred' = occurred
         /\ \A n \in Ctrs : r'.EVTSEL[n] = IF k = 6 + n THEN cfgs[n] ELSE r.EVTSEL[n]
         /\ pending' = pending
  <1> DEFINE c == startCtrsLocal[k + 1]
  <1>0. num_ctrs \in Nat \ {0} /\ Ctrs = 0 .. num_ctrs - 1 /\ CCNT = num_ctrs
    BY Constants DEF Ctrs, CCNT
  <1>1. /\ startCtrsLocal \in Seq(CallType) /\ Rest(startCtrsLocal)
        /\ Len(startCtrsLocal) = 10 + 2 * num_ctrs
    BY StartCalls DEF Control
  <1>2. k \in 0 .. 9 + 2 * num_ctrs /\ c = Head(code)
    BY <1>0, <1>1, CallMade DEF Step
  <1>3. \/ k = 0 /\ c.op = "disable_pmu"
        \/ k = 1 /\ c.op = "disable_ccnt"
        \/ k = 2 /\ c.op = "reset_ccnt"
        \/ k = 3 /\ c.op = "reset_pmn"
        \/ k = 4 /\ c.op = "write_flags"
        \/ k = 5 /\ c.op = "write_ccnt"
        \/ \E n \in Ctrs : k = 6 + n /\ c.op = "pmn_config" /\ c.n = n
        \/ k = 6 + num_ctrs /\ c.op = "dump_regs"
        \/ k = 7 + num_ctrs /\ c.op = "enable_ccnt_irq"
        \/ \E n \in Ctrs : k = 8 + num_ctrs + n /\ c.op = "enable_pmn" /\ c.n = n
        \/ k = 8 + 2 * num_ctrs /\ c.op = "enable_ccnt"
        \/ k = 9 + 2 * num_ctrs /\ c.op = "enable_pmu"
    BY <1>2, StartTable
  <1>4. /\ At(startCtrsLocal)' = k + 1 /\ running' = "start" /\ r' = After(c)
    <2>1. c.op # "read_flags"
      BY <1>3
    <2> QED
      BY <1>1, <2>1, PlainCall
  <1>5. /\ pending' = pending
        /\ IF k = 5 THEN armed' = period /\ elapsed' = 0 ELSE UNCHANGED <<armed, elapsed>>
        /\ occurred' = IF k = 3 THEN None ELSE occurred
    <2>1. /\ c.op = "write_ccnt" <=> k = 5
          /\ c.op = "reset_pmn" <=> k = 3
          /\ c.op # "rearm" /\ c.op # "cti_irq_ack"
      BY <1>0, <1>3
    <2>2. /\ pending' = (pending /\ c.op # "cti_irq_ack")
          /\ IF c.op = "write_ccnt" \/ (c.op = "rearm" /\ shutdown = 0)
             THEN armed' = period /\ elapsed' = 0 ELSE UNCHANGED <<armed, elapsed>>
          /\ occurred' = IF c.op = "reset_pmn" THEN None ELSE occurred
      BY <1>2 DEF Step
    <2>3. pending \in BOOLEAN
      BY DEF PmuTypes
    <2> QED
      BY <2>1, <2>2, <2>3
  <1>6. r \in Registers
    BY DEF PmuTypes
  <1> HIDE DEF c
  <1> DEFINE Fields ==
        /\ k = 0 => ~r'.E
        /\ k \in 1 .. 8 + 2 * num_ctrs => r'.E = r.E
        /\ CCNT \in r'.CNTENS => CCNT \in r.CNTENS \/ k = 8 + 2 * num_ctrs
        /\ \A n \in Ctrs : n \in r.CNTENS \/ k = 8 + num_ctrs + n => n \in r'.CNTENS
        /\ CCNT \in r.INTENS \/ k = 7 + num_ctrs => CCNT \in r'.INTENS
        /\ k = 5 => r'.CCNT = FirstCount
        /\ k > 5 => r'.CCNT = r.CCNT
        /\ k = 3 => r'.PMN = [n \in Ctrs |-> 0]
        /\ k > 3 => r'.PMN = r.PMN
        /\ \A n \in Ctrs : r'.EVTSEL[n] = IF k = 6 + n THEN cfgs[n] ELSE r.EVTSEL[n]
  <1>7. Fields
    <2>1. CASE k = 0 /\ c.op = "disable_pmu"
      <3>1. r' = disable_pmu(r)
        BY <1>4, <2>1 DEF After
      <3> QED
        BY <1>0, <1>6, <2>1, <3>1 DEF disable_pmu, Registers
    <2>2. CASE k = 1 /\ c.op = "disable_ccnt"
      <3>1. r' = disable_ccnt(r)
        BY <1>4, <2>2 DEF After
      <3> QED
        BY <1>0, <1>6, <2>2, <3>1 DEF disable_ccnt, Registers
    <2>3. CASE k = 2 /\ c.op = "reset_ccnt"
      <3>1. r' = reset_ccnt(r)
        BY <1>4, <2>3 DEF After
      <3> QED
        BY <1>0, <1>6, <2>3, <3>1 DEF reset_ccnt, Registers
    <2>4. CASE k = 3 /\ c.op = "reset_pmn"
      <3>1. r' = reset_pmn(r)
        BY <1>4, <2>4 DEF After
      <3> QED
        BY <1>0, <1>6, <2>4, <3>1 DEF reset_pmn, Registers
    <2>5. CASE k = 4 /\ c.op = "write_flags"
      <3>1. r' = write_flags(r)
        BY <1>4, <2>5 DEF After
      <3> QED
        BY <1>0, <1>6, <2>5, <3>1 DEF write_flags, Registers
    <2>6. CASE k = 5 /\ c.op = "write_ccnt"
      <3>1. r' = write_ccnt(r, FirstCount)
        BY <1>4, <2>6 DEF After
      <3> QED
        BY <1>0, <1>6, <2>6, <3>1 DEF write_ccnt, Registers
    <2>7. CASE \E n \in Ctrs : k = 6 + n /\ c.op = "pmn_config" /\ c.n = n
      <3>1. PICK n \in Ctrs : k = 6 + n /\ c.op = "pmn_config" /\ c.n = n
        BY <2>7
      <3>2. r' = pmn_config(r, n, cfgs[n])
        BY <1>4, <3>1 DEF After
      <3> QED
        BY <1>0, <1>6, <3>1, <3>2 DEF pmn_config, Selected, Registers
    <2>8. CASE k = 6 + num_ctrs /\ c.op = "dump_regs"
      <3>1. r' = Selected(r, num_ctrs - 1)
        BY <1>4, <2>8 DEF After
      <3> QED
        BY <1>0, <1>6, <2>8, <3>1 DEF Selected, Registers
    <2>9. CASE k = 7 + num_ctrs /\ c.op = "enable_ccnt_irq"
      <3>1. r' = enable_ccnt_irq(r)
        BY <1>4, <2>9 DEF After
      <3> QED
        BY <1>0, <1>6, <2>9, <3>1 DEF enable_ccnt_irq, Registers
    <2>10. CASE \E n \in Ctrs : k = 8 + num_ctrs + n /\ c.op = "enable_pmn" /\ c.n = n
      <3>1. PICK n \in Ctrs : k = 8 + num_ctrs + n /\ c.op = "enable_pmn" /\ c.n = n
        BY <2>10
      <3>2. r' = enable_pmn(r, n)
        BY <1>4, <3>1 DEF After
      <3> QED
        BY <1>0, <1>6, <3>1, <3>2 DEF enable_pmn, Registers
    <2>11. CASE k = 8 + 2 * num_ctrs /\ c.op = "enable_ccnt"
      <3>1. r' = enable_ccnt(r)
        BY <1>4, <2>11 DEF After
      <3> QED
        BY <1>0, <1>6, <2>11, <3>1 DEF enable_ccnt, Registers
    <2>12. CASE k = 9 + 2 * num_ctrs /\ c.op = "enable_pmu"
      <3>1. r' = enable_pmu(r)
        BY <1>4, <2>12 DEF After
      <3>2. /\ k > 5 /\ k # 7 + num_ctrs /\ k \notin 1 .. 8 + 2 * num_ctrs
            /\ \A n \in Ctrs : k # 6 + n /\ k # 8 + num_ctrs + n
        BY <1>0, <2>12
      <3>3. /\ r'.CNTENS = r.CNTENS /\ r'.INTENS = r.INTENS /\ r'.CCNT = r.CCNT
            /\ r'.PMN = r.PMN /\ r'.EVTSEL = r.EVTSEL
        BY <1>6, <3>1 DEF enable_pmu, Registers
      <3> QED
        BY <3>2, <3>3
    <2> HIDE DEF Fields
    <2> QED
      BY <1>3, <2>1, <2>2, <2>3, <2>4, <2>5, <2>6, <2>7, <2>8, <2>9, <2>10, <2>11, <2>12
  <1> QED
    BY <1>2, <1>4, <1>5, <1>7

\* What the call after the first k of stopCtrsLocal changes.
LEMMA StopEffect ==
  ASSUME PmuTypes, Control, Step, running = "stop", NEW k, k = At(stopCtrsLocal)
  PROVE  /\ k \in 0 .. 2 + num_ctrs /\ At(stopCtrsLocal)' = k + 1 /\ running' = "stop"
         /\ r'.E => r.E /\ k # 2 + num_ctrs
         /\ CCNT \in r'.CNTENS => CCNT \in r.CNTENS /\ k # 1
         /\ r.CNTENS \cap Ctrs \subseteq r'.CNTENS
         /\ r'.CCNT = r.CCNT /\ r'.PMN = r.PMN /\ r'.EVTSEL = r.EVTSEL
         /\ UNCHANGED <<pending, armed, elapsed, occurred>>
  <1> DEFINE c == stopCtrsLocal[k + 1]
  <1>0. num_ctrs \in Nat \ {0} /\ Ctrs = 0 .. num_ctrs - 1 /\ CCNT = num_ctrs
    BY Constants DEF Ctrs, CCNT
  <1>1. stopCtrsLocal \in Seq(CallType) /\ Rest(stopCtrsLocal) /\ Len(stopCtrsLocal) = 3 + num_ctrs
    BY StopCalls DEF Control
  <1>2. k \in 0 .. 2 + num_ctrs /\ c = Head(code)
    BY <1>0, <1>1, CallMade DEF Step
  <1>3. \/ k = 0 /\ c.op = "disable_ccnt_irq"
        \/ k = 1 /\ c.op = "disable_ccnt"
        \/ \E n \in Ctrs : k = 2 + n /\ c.op = "disable_pmn" /\ c.n = n
        \/ k = 2 + num_ctrs /\ c.op = "disable_pmu"
    BY <1>2, StopTable
  <1>4. /\ At(stopCtrsLocal)' = k + 1 /\ running' = "stop" /\ r' = After(c)
    <2>1. c.op # "read_flags"
      BY <1>3
    <2> QED
      BY <1>1, <2>1, PlainCall
  <1>5. UNCHANGED <<pending, armed, elapsed, occurred>>
    <2>1. /\ c.op # "write_ccnt" /\ c.op # "reset_pmn" /\ c.op # "rearm" /\ c.op # "cti_irq_ack"
      BY <1>3
    <2> QED
      BY <1>2, <2>1 DEF Step, PmuTypes
  <1>6. r \in Registers
    BY DEF PmuTypes
  <1> HIDE DEF c
  <1> DEFINE Fields ==
        /\ r'.E => r.E /\ k # 2 + num_ctrs
        /\ CCNT \in r'.CNTENS => CCNT \in r.CNTENS /\ k # 1
        /\ r.CNTENS \cap Ctrs \subseteq r'.CNTENS
        /\ r'.CCNT = r.CCNT /\ r'.PMN = r.PMN /\ r'.EVTSEL = r.EVTSEL
  <1>7. Fields
    <2>1. CASE k = 0 /\ c.op = "disable_ccnt_irq"
      <3>1. r' = disable_ccnt_irq(r)
        BY <1>4, <2>1 DEF After
      <3> QED
        BY <1>0, <1>6, <2>1, <3>1 DEF disable_ccnt_irq, Registers
    <2>2. CASE k = 1 /\ c.op = "disable_ccnt"
      <3>1. r' = disable_ccnt(r)
        BY <1>4, <2>2 DEF After
      <3> QED
        BY <1>0, <1>6, <2>2, <3>1 DEF disable_ccnt, Registers
    <2>3. CASE \E n \in Ctrs : k = 2 + n /\ c.op = "disable_pmn" /\ c.n = n
      <3>1. PICK n \in Ctrs : k = 2 + n /\ c.op = "disable_pmn" /\ c.n = n
        BY <2>3
      <3>2. r' = disable_pmn(r, n)
        BY <1>4, <3>1 DEF After
      <3> QED
        BY <1>0, <1>6, <3>1, <3>2 DEF disable_pmn, Registers
    <2>4. CASE k = 2 + num_ctrs /\ c.op = "disable_pmu"
      <3>1. r' = disable_pmu(r)
        BY <1>4, <2>4 DEF After
      <3> QED
        BY <1>0, <1>6, <2>4, <3>1 DEF disable_pmu, Registers
    <2> HIDE DEF Fields
    <2> QED
      BY <1>3, <2>1, <2>2, <2>3, <2>4
  <1> QED
    BY <1>2, <1>4, <1>5, <1>7

\* What the call after the first k of sample_handle_irq changes.
LEMMA IrqEffect ==
  ASSUME PmuTypes, Control, Step, running = "irq", NEW k, k = At(sample_handle_irq)
  PROVE  /\ k \in 0 .. 7 /\ running' = "irq"
         /\ At(sample_handle_irq)' = k + 1 \/ (k = 2 /\ At(sample_handle_irq)' = 8)
         /\ k = 1 => ~r'.E
         /\ k \notin {1, 7} \/ shutdown # 0 => (r'.E => r.E)
         /\ r'.CNTENS = r.CNTENS /\ r'.INTENS = r.INTENS /\ r'.EVTSEL = r.EVTSEL
         /\ IF k = 5 /\ shutdown = 0 THEN r'.CCNT = FirstCount /\ armed' = period /\ elapsed' = 0
            ELSE r'.CCNT = r.CCNT /\ armed' = armed /\ elapsed' = elapsed
         /\ IF k = 4 THEN r'.PMN = [n \in Ctrs |-> 0] /\ occurred' = None
            ELSE r'.PMN = r.PMN /\ occurred' = occurred
         /\ k # 0 => pending' = pending
  <1> DEFINE s == sample_handle_irq
             c == s[k + 1]
  <1>1. s \in Seq(CallType) /\ Rest(s) /\ Len(s) = 8
    BY IrqCalls DEF Control
  <1>2. k \in 0 .. 7 /\ c = Head(code) /\ code # <<>>
    BY <1>1, CallMade DEF Step
  <1>3. \/ k = 0 /\ c.op = "cti_irq_ack"
        \/ k = 1 /\ c.op = "disable_pmu"
        \/ k = 2 /\ c.op = "read_flags"
        \/ k = 3 /\ c.op = "gatherSample"
        \/ k = 4 /\ c.op = "reset_pmn"
        \/ k = 5 /\ c.op = "rearm"
        \/ k = 6 /\ c.op = "write_flags"
        \/ k = 7 /\ c.op = "resume"
    BY <1>2, IrqCalls
  <1>4. At(s)' = k + 1 \/ (k = 2 /\ At(s)' = 8)
    <2>1. CASE c.op = "read_flags"
      <3>1. code' = <<>> \/ code' = Tail(code)
        BY DEF Step
      <3> QED
        BY <1>1, <1>2, <1>3, <2>1, <3>1, CallMade
    <2>2. CASE c.op # "read_flags"
      BY <1>1, <2>2, PlainCall
    <2> QED
      BY <2>1, <2>2
  <1>5. running' = "irq" /\ r' = After(c)
    BY <1>2 DEF Step
  <1>6. /\ IF k = 5 /\ shutdown = 0 THEN armed' = period /\ elapsed' = 0
           ELSE UNCHANGED <<armed, elapsed>>
        /\ occurred' = IF k = 4 THEN None ELSE occurred
        /\ k # 0 => pending' = pending
    <2>1. /\ c.op = "rearm" <=> k = 5
          /\ c.op = "reset_pmn" <=> k = 4
          /\ c.op # "write_ccnt"
          /\ c.op = "cti_irq_ack" <=> k = 0
      BY <1>3
    <2>2. /\ pending' = (pending /\ c.op # "cti_irq_ack")
          /\ IF c.op = "write_ccnt" \/ (c.op = "rearm" /\ shutdown = 0)
             THEN armed' = period /\ elapsed' = 0 ELSE UNCHANGED <<armed, elapsed>>
          /\ occurred' = IF c.op = "reset_pmn" THEN None ELSE occurred
      BY <1>2 DEF Step
    <2>3. pending \in BOOLEAN
      BY DEF PmuTypes
    <2> QED
      BY <2>1, <2>2, <2>3
  <1>7. r \in Registers
    BY DEF PmuTypes
  <1> HIDE DEF c, s
  <1> DEFINE Fields ==
        /\ k = 1 => ~r'.E
        /\ k \notin {1, 7} \/ shutdown # 0 => (r'.E => r.E)
        /\ r'.CNTENS = r.CNTENS /\ r'.INTENS = r.INTENS /\ r'.EVTSEL = r.EVTSEL
        /\ r'.CCNT = IF k = 5 /\ shutdown = 0 THEN FirstCount ELSE r.CCNT
        /\ r'.PMN = IF k = 4 THEN [n \in Ctrs |-> 0] ELSE r.PMN
  <1>8. Fields
    <2>1. CASE k \in {0, 2} /\ c.op \in {"cti_irq_ack", "read_flags"}
      <3>1. r' = r
        BY <1>5, <2>1 DEF After
      <3> QED
        BY <2>1, <3>1
    <2>2. CASE k = 1 /\ c.op = "disable_pmu"
      <3>1. r' = disable_pmu(r)
        BY <1>5, <2>2 DEF After
      <3> QED
        BY <1>7, <2>2, <3>1 DEF disable_pmu, Registers
    <2>3. CASE k = 3 /\ c.op = "gatherSample"
      <3>1. r' = Selected(r, num_ctrs - 1)
        BY <1>5, <2>3 DEF After
      <3> QED
        BY <1>7, <2>3, <3>1 DEF Selected, Registers
    <2>4. CASE k = 4 /\ c.op = "reset_pmn"
      <3>1. r' = reset_pmn(r)
        BY <1>5, <2>4 DEF After
      <3> QED
        BY <1>7, <2>4, <3>1 DEF reset_pmn, Registers
    <2>5. CASE k = 5 /\ c.op = "rearm"
      <3>1. r' = IF shutdown = 0 THEN write_ccnt(r, FirstCount) ELSE r
        BY <1>5, <2>5 DEF After
      <3> QED
        BY <1>7, <2>5, <3>1 DEF write_ccnt, Registers
    <2>6. CASE k = 6 /\ c.op = "write_flags"
      <3>1. r' = write_flags(r)
        BY <1>5, <2>6 DEF After
      <3> QED
        BY <1>7, <2>6, <3>1 DEF write_flags, Registers
    <2>7. CASE k = 7 /\ c.op = "resume"
      <3>1. r' = IF shutdown = 0 THEN enable_pmu(r) ELSE r
        BY <1>5, <2>7 DEF After
      <3> QED
        BY <1>7, <2>7, <3>1 DEF enable_pmu, Registers
    <2> HIDE DEF Fields
    <2> QED
      BY <1>3, <2>1, <2>2, <2>3, <2>4, <2>5, <2>6, <2>7
  <1> QED
    BY <1>2, <1>4, <1>5, <1>6, <1>8 DEF s

\* Dumping the registers selects a counter and changes nothing else.
LEMMA DumpEffect ==
  ASSUME PmuTypes, Control, Step, running = "dump"
  PROVE  /\ running' = "dump"
         /\ r'.E = r.E /\ r'.CNTENS = r.CNTENS /\ r'.INTENS = r.INTENS
         /\ r'.CCNT = r.CCNT /\ r'.PMN = r.PMN /\ r'.EVTSEL = r.EVTSEL
         /\ UNCHANGED <<pending, armed, elapsed, occurred>>
  <1>1. Head(code).op = "dump_regs" /\ running' = "dump"
    <2>1. Rest(Call("dump_regs")) /\ code # <<>>
      BY DEF Control, Step
    <2>2. At(Call("dump_regs")) = 0 /\ Head(code) = Call("dump_regs")[At(Call("dump_regs")) + 1]
      BY <2>1, DumpCalls, CallMade
    <2> QED
      BY <2>2, DumpCalls DEF Step
  <1>2. r' = Selected(r, num_ctrs - 1)
    BY <1>1 DEF Step, After
  <1>3. UNCHANGED <<pending, armed, elapsed, occurred>>
    BY <1>1 DEF Step, PmuTypes
  <1> QED
    BY <1>1, <1>2, <1>3 DEF Selected, Registers, PmuTypes

-----------------------------------------------------------------------------
(* The invariant is preserved                                              *)

\* The actions that are neither the CPU's nor the hardware's.
Outside ==
  \/ \E v \in Periods : StorePeriod(v)
  \/ \E n \in DOMAIN ctr_attr, e \in Events \cup {0} : StoreCounter(n, e)
  \/ Start \/ StartPeriod \/ StartCall \/ Stop \/ Dump \/ Called
  \/ UNCHANGED pmuVars

\* They leave the CPU alone, and what they do to the control.
LEMMA OutsideEffect ==
  ASSUME PmuTypes, Control, Outside
  PROVE  /\ UNCHANGED <<cpuVars, histVars>>
         /\ \/ UNCHANGED <<shutdown, ipi>>
            \/ shutdown' = 0 /\ ipi' = "start" /\ ipi = NULL
            \/ shutdown' = 1 /\ ipi' = "stop" /\ ipi = NULL
            \/ shutdown' = shutdown /\ ipi' = "dump" /\ ipi = NULL
            \/ shutdown = 1 /\ shutdown' = 2 /\ ipi = NULL /\ ipi' = NULL
  <1>1. CASE StartCall \/ Stop \/ Dump
    BY <1>1, Constants DEF StartCall, Stop, Dump, Control, PmuTypes
  <1>2. CASE Called
    BY <1>2 DEF Called, Control
  <1>3. CASE \/ \E v \in Periods : StorePeriod(v)
             \/ \E n \in DOMAIN ctr_attr, e \in Events \cup {0} : StoreCounter(n, e)
             \/ Start \/ StartPeriod \/ UNCHANGED pmuVars
    BY <1>3 DEF StorePeriod, StoreCounter, Start, StartPeriod, pmuVars, ctlVars
  <1> QED
    BY <1>1, <1>2, <1>3 DEF Outside

\* The routine running has calls left, or has made all.
LEMMA Where ==
  ASSUME PmuTypes, Control
  PROVE  /\ code # <<>> => running \in {"start", "stop", "irq", "dump"}
         /\ code = <<>> => /\ At(startCtrsLocal) = 10 + 2 * num_ctrs
                          /\ At(stopCtrsLocal) = 3 + num_ctrs
                          /\ At(sample_handle_irq) = 8
  <1>1. code # <<>> => running \in {"start", "stop", "irq", "dump"}
    BY DEF PmuTypes, Control
  <1>2. /\ Len(startCtrsLocal) = 10 + 2 * num_ctrs /\ Len(stopCtrsLocal) = 3 + num_ctrs
        /\ Len(sample_handle_irq) = 8 /\ num_ctrs \in Nat
    BY Constants, StartCalls, StopCalls, IrqCalls
  <1>3. code = <<>> => Len(code) = 0
    OBVIOUS
  <1> QED
    BY <1>1, <1>2, <1>3 DEF At

\* The PMU is disabled while it is set up, read out, and after a stop.
LEMMA DisabledInit == PmuInit => Disabled
  BY Constants DEF PmuInit, Disabled, Starting, Stopping, Handling

LEMMA DisabledStep == PmuTypes /\ Control /\ Disabled /\ [PmuNext]_pmuVars => Disabled'
  <1> SUFFICES ASSUME PmuTypes, Control, Disabled, [PmuNext]_pmuVars PROVE Disabled'
    OBVIOUS
  <1> USE DEF Starting, Stopping, Handling
  <1>0. num_ctrs \in Nat \ {0}
    BY Constants
  <1>1. CASE Step
    <2>1. running \in {"start", "stop", "irq", "dump"} /\ UNCHANGED <<shutdown, ipi>>
      BY <1>1, Where DEF Step, ctlVars
    <2>2. CASE running = "start"
      BY <1>0, <1>1, <2>1, <2>2, StartEffect DEF Disabled, Control
    <2>3. CASE running = "stop"
      BY <1>0, <1>1, <2>1, <2>3, StopEffect DEF Disabled, Control
    <2>4. CASE running = "irq"
      BY <1>0, <1>1, <2>1, <2>4, IrqEffect DEF Disabled
    <2>5. CASE running = "dump"
      BY <1>0, <1>1, <2>1, <2>5, DumpEffect DEF Disabled
    <2> QED
      BY <2>1, <2>2, <2>3, <2>4, <2>5
  <1>2. CASE Interrupt
    <2>1. UNCHANGED <<r, shutdown, ipi>> /\ running' = "irq" /\ At(sample_handle_irq)' = 0
      BY <1>2, IrqCalls, AllCalls DEF Interrupt, ctlVars
    <2> QED
      BY <2>1 DEF Disabled
  <1>3. CASE TakeCall
    <2>1. UNCHANGED <<r, shutdown, ipi>> /\ running' = ipi /\ ipi # NULL
      BY <1>3 DEF TakeCall, ctlVars
    <2>2. /\ ipi = "start" => At(startCtrsLocal)' = 0
          /\ ipi = "stop" => At(stopCtrsLocal)' = 0
      BY <1>3, StartCalls, StopCalls, AllCalls DEF TakeCall
    <2> QED
      BY <1>0, <2>1, <2>2 DEF Disabled, PmuTypes
  <1>4. CASE Return
    <2>1. /\ UNCHANGED <<r, shutdown>> /\ running' = NULL
          /\ ipi' = IF running = ipi THEN NULL ELSE ipi
          /\ At(stopCtrsLocal) = 3 + num_ctrs
      BY <1>4, Where DEF Return
    <2>2. ipi = "stop" /\ running = ipi => ~r.E /\ CCNT \notin r.CNTENS
      BY <1>0, <2>1 DEF Disabled
    <2> QED
      BY <2>1, <2>2, Constants DEF Disabled
  <1>5. ASSUME NEW E \in SUBSET Events, Cycle(E) PROVE Disabled'
    <2>1. r'.E = r.E /\ r'.CNTENS = r.CNTENS /\ UNCHANGED <<running, code, shutdown, ipi>>
      BY <1>5, CycleEffect DEF Cycle, ctlVars
    <2> QED
      BY <2>1 DEF Disabled, At
  <1>6. CASE Outside
    <2>1. UNCHANGED <<r, running, code>>
      BY <1>6, OutsideEffect DEF cpuVars
    <2> QED
      BY <1>6, <2>1, OutsideEffect, Constants DEF Disabled, At
  <1> QED
    BY <1>1, <1>2, <1>3, <1>4, <1>5, <1>6 DEF PmuNext, Outside

\* The cycle counter keeps showing how long ago it was written.
LEMMA ClockInit == PmuInit => Clock
  BY Constants DEF PmuInit, Clock, Fresh

\* One cycle more on a counter that wraps.
LEMMA OneMore ==
  ASSUME NEW a \in Count, NEW e \in 0 .. MaxElapsed
  PROVE  /\ (((Modulus - 1 - a + e) % Modulus) + 1) % Modulus =
              (Modulus - 1 - a + (e + 1)) % Modulus
         /\ (Modulus - 1 - a + e) % Modulus =
              IF e <= a THEN Modulus - 1 - a + e ELSE e - a - 1
  <1>1. Modulus \in Nat \ {0} /\ a \in Nat /\ a < Modulus /\ e \in Nat /\ e < Modulus
    BY Constants DEF Count
  <1>2. CASE e <= a
    BY <1>1, <1>2
  <1>3. CASE e > a
    <2>1. e - a - 1 \in 0 .. Modulus - 1 /\ Modulus - 1 - a + e = 1 * Modulus + (e - a - 1)
      BY <1>1, <1>3
    <2>2. (Modulus - 1 - a + e) % Modulus = e - a - 1
      BY <1>1, <2>1
    <2> QED
      BY <1>1, <1>3, <2>1, <2>2
  <1> QED
    BY <1>1, <1>2, <1>3

LEMMA ClockStep ==
  PmuTypes /\ Control /\ Disabled /\ Clock /\ [PmuNext]_pmuVars => Clock'
  <1> SUFFICES ASSUME PmuTypes, Control, Disabled, Clock, [PmuNext]_pmuVars PROVE Clock'
    OBVIOUS
  <1> USE DEF Starting, Handling
  <1> DEFINE Shown == r.CCNT = (Modulus - 1 - armed + elapsed) % Modulus
  <1>0. num_ctrs \in Nat \ {0} /\ Modulus \in Nat \ {0}
    BY Constants
  <1>1. CASE Step
    <2>1. running \in {"start", "stop", "irq", "dump"} /\ UNCHANGED <<shutdown, period>>
      BY <1>1, Where DEF Step, ctlVars
    <2>2. FirstCount = (Modulus - 1 - period + 0) % Modulus
      BY <1>0 DEF FirstCount, PmuTypes, Count
    <2>3. CASE running = "start"
      <3>1. Starting(0, 4) => Starting(0, 5)'
        BY <1>1, <2>3, StartEffect
      <3>2. Starting(5, 5) => Shown'
        BY <1>1, <2>2, <2>3, StartEffect
      <3>3. Starting(6, 9 + 2 * num_ctrs) /\ Shown => Shown'
        BY <1>0, <1>1, <2>3, StartEffect
      <3>4. At(startCtrsLocal) \in 0 .. 9 + 2 * num_ctrs
        BY <1>1, <2>3, StartEffect
      <3> QED
        BY <1>0, <2>3, <3>1, <3>2, <3>3, <3>4 DEF Clock
    <2>4. CASE running = "stop"
      BY <1>1, <2>4, StopEffect DEF Clock, Fresh
    <2>5. CASE running = "irq"
      BY <1>1, <2>2, <2>5, IrqEffect DEF Clock, Fresh
    <2>6. CASE running = "dump"
      BY <1>1, <2>6, DumpEffect DEF Clock, Fresh
    <2> QED
      BY <2>1, <2>3, <2>4, <2>5, <2>6
  <1>2. CASE Interrupt
    BY <1>2, Constants DEF Interrupt, Clock, Fresh, histVars
  <1>3. CASE TakeCall
    <2>1. ipi = "start" => At(startCtrsLocal)' = 0
      BY <1>3, StartCalls, AllCalls DEF TakeCall
    <2>2. /\ running = NULL /\ running' = ipi /\ ipi \in {"start", "stop", "dump"}
          /\ UNCHANGED <<r, pending, armed, elapsed>>
      BY <1>3 DEF TakeCall, histVars, PmuTypes
    <2> QED
      BY <2>1, <2>2, Constants DEF Clock, Fresh
  <1>4. CASE Return
    BY <1>0, <1>4, Where, Constants DEF Return, Clock, Fresh, histVars
  <1>5. ASSUME NEW E \in SUBSET Events, Cycle(E) PROVE Clock'
    <2>1. /\ r.E /\ r'.CCNT = IF CCNT \in r.CNTENS THEN (r.CCNT + 1) % Modulus ELSE r.CCNT
          /\ elapsed' = IF CCNT \in r.CNTENS THEN elapsed + 1 ELSE elapsed
          /\ UNCHANGED <<armed, running, code>>
      BY <1>5, CycleEffect DEF Cycle
    <2>2. Shown => Shown'
      BY <2>1, OneMore DEF PmuTypes
    <2> QED
      BY <2>1, <2>2 DEF Clock, Fresh, At
  <1>6. CASE Outside
    BY <1>6, OutsideEffect DEF Clock, Fresh, At, cpuVars, histVars
  <1> QED
    BY <1>1, <1>2, <1>3, <1>4, <1>5, <1>6 DEF PmuNext, Outside

\* No overflow of the cycle counter gets lost.
LEMMA NoticedInit == PmuInit => Noticed
  BY Constants DEF PmuInit, Noticed, Starting, Handling

LEMMA NoticedStep ==
  PmuTypes /\ Control /\ Disabled /\ Clock /\ Noticed /\ [PmuNext]_pmuVars => Noticed'
  <1> SUFFICES ASSUME PmuTypes, Control, Disabled, Clock, Noticed, [PmuNext]_pmuVars PROVE Noticed'
    OBVIOUS
  <1> USE DEF Starting, Handling
  <1>0. num_ctrs \in Nat \ {0} /\ armed \in Nat /\ period \in Nat /\ elapsed \in Nat
    BY Constants DEF PmuTypes
  <1>1. CASE Step
    <2>1. running \in {"start", "stop", "irq", "dump"} /\ UNCHANGED <<shutdown, ipi, period>>
      BY <1>1, Where DEF Step, ctlVars
    <2>2. CASE running = "start"
      <3> DEFINE k == At(startCtrsLocal)
      <3>1. /\ k \in 0 .. 9 + 2 * num_ctrs /\ At(startCtrsLocal)' = k + 1 /\ running' = "start"
            /\ CCNT \in r'.CNTENS => CCNT \in r.CNTENS \/ k = 8 + 2 * num_ctrs
            /\ CCNT \in r.INTENS \/ k = 7 + num_ctrs => CCNT \in r'.INTENS
            /\ k = 5 => elapsed' = 0
            /\ k > 5 => armed' = armed /\ elapsed' = elapsed
        BY <1>1, <2>2, StartEffect
      <3>2. k \in 6 .. 9 + 2 * num_ctrs => elapsed = 0
        BY <2>2 DEF Noticed
      <3>3. armed' \in Nat
        BY <1>0, <1>1 DEF Step
      <3> HIDE DEF k
      <3>4. k >= 7 + num_ctrs => CCNT \in r'.INTENS
        BY <1>0, <2>2, <3>1 DEF Noticed, k
      <3>5. CCNT \in r'.CNTENS => CCNT \in r'.INTENS
        BY <1>0, <2>2, <3>1, <3>4 DEF Noticed
      <3>6. k + 1 \in 6 .. 10 + 2 * num_ctrs => elapsed' = 0
        BY <1>0, <3>1, <3>2
      <3> QED
        BY <1>0, <3>1, <3>3, <3>4, <3>5, <3>6 DEF Noticed
    <2>3. CASE running = "stop"
      BY <1>1, <2>1, <2>3, StopEffect DEF Noticed, Control
    <2>4. CASE running = "irq"
      <3> DEFINE k == At(sample_handle_irq)
      <3>1. /\ k \in 0 .. 7 /\ running' = "irq"
            /\ At(sample_handle_irq)' = k + 1 \/ (k = 2 /\ At(sample_handle_irq)' = 8)
            /\ k = 1 => ~r'.E
            /\ k \notin {1, 7} \/ shutdown # 0 => (r'.E => r.E)
            /\ r'.CNTENS = r.CNTENS /\ r'.INTENS = r.INTENS
            /\ IF k = 5 /\ shutdown = 0 THEN armed' = period /\ elapsed' = 0
               ELSE armed' = armed /\ elapsed' = elapsed
            /\ k # 0 => pending' = pending
        BY <1>1, <2>4, IrqEffect
      <3>2. k \in 2 .. 7 => ~r.E
        BY <2>4 DEF Disabled
      <3>3. k \in 6 .. 7 => elapsed <= armed \/ CCNT \notin r.CNTENS \/ ipi = "stop"
        BY <2>4 DEF Noticed
      <3>4. shutdown # 0 => CCNT \notin r.CNTENS \/ ipi = "stop"
        BY DEF Disabled
      <3>5. /\ CCNT \in r.CNTENS => CCNT \in r.INTENS
            /\ \/ elapsed <= armed \/ pending \/ ~r.E \/ CCNT \notin r.CNTENS
               \/ k = 1
            /\ ipi = "stop" => shutdown # 0
        BY <2>4 DEF Noticed, Control
      <3> HIDE DEF k
      <3>6. k + 1 \in 6 .. 7 => elapsed' <= armed' \/ CCNT \notin r.CNTENS \/ ipi = "stop"
        BY <1>0, <3>1, <3>3, <3>4
      <3>7. \/ elapsed' <= armed' \/ pending' \/ ~r'.E \/ CCNT \notin r.CNTENS
            \/ k = 0
        BY <1>0, <3>1, <3>2, <3>3, <3>5
      <3> QED
        BY <2>1, <3>1, <3>5, <3>6, <3>7 DEF Noticed
    <2>5. CASE running = "dump"
      BY <1>1, <2>1, <2>5, DumpEffect DEF Noticed
    <2> QED
      BY <2>1, <2>2, <2>3, <2>4, <2>5
  <1>2. CASE Interrupt
    <2>1. At(sample_handle_irq)' = 0 /\ running' = "irq" /\ running = NULL
          /\ UNCHANGED <<r, pending, armed, elapsed, ipi>>
      BY <1>2, IrqCalls, AllCalls DEF Interrupt, ctlVars, histVars
    <2> QED
      BY <2>1, Constants DEF Noticed
  <1>3. CASE TakeCall
    <2>1. ipi = "start" => At(startCtrsLocal)' = 0
      BY <1>3, StartCalls, AllCalls DEF TakeCall
    <2>2. /\ running = NULL /\ running' = ipi /\ ipi \in {"start", "stop", "dump"}
          /\ UNCHANGED <<r, pending, armed, elapsed, ipi>>
      BY <1>3 DEF TakeCall, histVars, ctlVars, PmuTypes
    <2> QED
      BY <1>0, <2>1, <2>2, Constants DEF Noticed
  <1>4. CASE Return
    <2>1. /\ UNCHANGED <<r, pending, armed, elapsed>> /\ running' = NULL
          /\ ipi' = IF running = ipi THEN NULL ELSE ipi
          /\ At(startCtrsLocal) = 10 + 2 * num_ctrs /\ At(sample_handle_irq) = 8
          /\ At(stopCtrsLocal) = 3 + num_ctrs
      BY <1>4, Where DEF Return, histVars
    <2>2. running = "stop" => CCNT \notin r.CNTENS
      BY <1>0, <2>1 DEF Disabled, Stopping
    <2>3. ipi = "stop" /\ ipi' # "stop" => running = "stop"
      BY <2>1
    <2> QED
      BY <1>0, <2>1, <2>2, <2>3, Constants DEF Noticed
  <1>5. ASSUME NEW E \in SUBSET Events, Cycle(E) PROVE Noticed'
    <2>1. /\ r.E /\ r'.E = r.E /\ r'.CNTENS = r.CNTENS /\ r'.INTENS = r.INTENS
          /\ pending => pending'
          /\ CCNT \in r.CNTENS /\ CCNT \in r.INTENS /\ r.CCNT = Modulus - 1 => pending'
          /\ elapsed' = IF CCNT \in r.CNTENS THEN elapsed + 1 ELSE elapsed
          /\ UNCHANGED <<armed, running, code, ipi>>
      BY <1>5, CycleEffect DEF Cycle, ctlVars
    <2>2. ~Starting(6, 9 + 2 * num_ctrs) /\ ~Handling(6, 7)
      BY <1>0, <2>1 DEF Disabled
    <2>3. CASE elapsed = armed /\ CCNT \in r.CNTENS /\ ~Starting(0, 5) /\ running # "stop"
      <3>1. r.CCNT = (Modulus - 1 - armed + elapsed) % Modulus
        BY <2>1, <2>3 DEF Clock, Fresh
      <3>2. r.CCNT = Modulus - 1
        <4>1. (Modulus - 1 - armed + elapsed) % Modulus = Modulus - 1 - armed + elapsed
          BY <1>0, <2>3, OneMore DEF PmuTypes
        <4>2. Modulus - 1 - armed + elapsed = Modulus - 1
          BY <1>0, <2>3, Constants
        <4> QED
          BY <3>1, <4>1, <4>2
      <3>3. pending'
        BY <2>1, <2>3, <3>2 DEF Noticed
      <3> QED
        BY <2>1, <2>2, <3>3 DEF Noticed, At
    <2>4. CASE ~(elapsed = armed /\ CCNT \in r.CNTENS /\ ~Starting(0, 5) /\ running # "stop")
      <3>1. \/ elapsed' <= armed \/ pending' \/ CCNT \notin r.CNTENS \/ running = "stop"
            \/ Handling(1, 1) \/ Starting(0, 5)
        BY <1>0, <2>1, <2>4 DEF Noticed
      <3> QED
        BY <2>1, <2>2, <3>1 DEF Noticed, At
    <2> QED
      BY <2>3, <2>4
  <1>6. CASE Outside
    <2>1. UNCHANGED <<r, running, code, pending, armed, elapsed>> /\ (ipi = "stop" => ipi' = "stop")
      BY <1>6, OutsideEffect, Constants DEF cpuVars, histVars
    <2> QED
      BY <2>1 DEF Noticed, At
  <1> QED
    BY <1>1, <1>2, <1>3, <1>4, <1>5, <1>6 DEF PmuNext, Outside

\* The counters keep counting their events.
LEMMA CountedInit == PmuInit => Counted
  BY Constants DEF PmuInit, Counted, Starting, Fresh

LEMMA CountedStep ==
  PmuTypes /\ Control /\ Disabled /\ Counted /\ [PmuNext]_pmuVars => Counted'
  <1> SUFFICES ASSUME PmuTypes, Control, Disabled, Counted, [PmuNext]_pmuVars PROVE Counted'
    OBVIOUS
  <1> USE DEF Starting
  <1>0. /\ num_ctrs \in Nat \ {0} /\ Ctrs = 0 .. num_ctrs - 1
        /\ cfgs \in [Ctrs -> Events \cup {0}] /\ DOMAIN occurred = Events \cup {0}
        /\ None = [e \in Events \cup {0} |-> 0]
        /\ r.EVTSEL \in [Ctrs -> Events \cup {0}] /\ r'.EVTSEL \in [Ctrs -> Events \cup {0}]
    BY Constants, TypesStep DEF PmuTypes, Ctrs, None, Registers
  <1>1. CASE Step
    <2>1. running \in {"start", "stop", "irq", "dump"} /\ cfgs' = cfgs
      BY <1>1, Where DEF Step
    <2>2. CASE running = "start"
      <3> DEFINE k == At(startCtrsLocal)
      <3>1. /\ k \in 0 .. 9 + 2 * num_ctrs /\ At(startCtrsLocal)' = k + 1 /\ running' = "start"
            /\ \A n \in Ctrs : n \in r.CNTENS \/ k = 8 + num_ctrs + n => n \in r'.CNTENS
            /\ k = 3 => r'.PMN = [n \in Ctrs |-> 0] /\ occurred' = None
            /\ k > 3 => r'.PMN = r.PMN /\ occurred' = occurred
            /\ \A n \in Ctrs : r'.EVTSEL[n] = IF k = 6 + n THEN cfgs[n] ELSE r.EVTSEL[n]
        BY <1>1, <2>2, StartEffect
      <3>2. /\ k \in 4 .. 9 + 2 * num_ctrs => r.PMN = [n \in Ctrs |-> 0] /\ occurred = None
            /\ \A n \in Ctrs : k \in 7 + n .. 10 + 2 * num_ctrs => r.EVTSEL[n] = cfgs[n]
            /\ \A n \in Ctrs : k \in 9 + num_ctrs + n .. 10 + 2 * num_ctrs => n \in r.CNTENS
        BY <2>2 DEF Counted
      <3> HIDE DEF k
      <3>3. k + 1 \in 4 .. 10 + 2 * num_ctrs => r'.PMN = [n \in Ctrs |-> 0] /\ occurred' = None
        BY <1>0, <3>1, <3>2
      <3>4. ASSUME NEW n \in Ctrs
            PROVE  /\ k + 1 \in 7 + n .. 10 + 2 * num_ctrs => r'.EVTSEL[n] = cfgs[n]
                   /\ k + 1 \in 9 + num_ctrs + n .. 10 + 2 * num_ctrs => n \in r'.CNTENS
        BY <1>0, <3>1, <3>2
      <3>5. k = 9 + 2 * num_ctrs => Configured'
        <4> SUFFICES ASSUME k = 9 + 2 * num_ctrs PROVE Configured'
          OBVIOUS
        <4>0. \A n \in Ctrs : /\ k + 1 \in 7 + n .. 10 + 2 * num_ctrs
                              /\ k + 1 \in 9 + num_ctrs + n .. 10 + 2 * num_ctrs
          BY <1>0
        <4>1. \A n \in Ctrs : r'.EVTSEL[n] = cfgs[n] /\ n \in r'.CNTENS
          BY <3>4, <4>0
        <4>2. r'.EVTSEL = cfgs'
          BY <1>0, <2>1, <4>1
        <4>3. \A n \in Ctrs : r'.PMN[n] = occurred'[cfgs'[n]]
          BY <1>0, <2>1, <3>3
        <4> QED
          BY <4>1, <4>2, <4>3 DEF Configured
      <3> QED
        BY <1>0, <2>1, <3>1, <3>3, <3>4, <3>5 DEF Counted
    <2>3. CASE running = "stop"
      <3>1. /\ running' = "stop" /\ (r'.E => r.E)
            /\ r.CNTENS \cap Ctrs \subseteq r'.CNTENS
            /\ r'.PMN = r.PMN /\ r'.EVTSEL = r.EVTSEL
            /\ UNCHANGED <<pending, occurred>>
        BY <1>1, <2>3, StopEffect
      <3>2. Fresh => Fresh'
        BY <3>1 DEF Fresh
      <3>3. Configured => Configured'
        BY <2>1, <3>1 DEF Configured
      <3>4. Fresh' \/ Configured'
        BY <2>3, <3>2, <3>3 DEF Counted
      <3> QED
        BY <3>1, <3>4 DEF Counted
    <2>4. CASE running = "irq"
      <3> DEFINE k == At(sample_handle_irq)
      <3>1. /\ running' = "irq" /\ r'.CNTENS = r.CNTENS /\ r'.EVTSEL = r.EVTSEL
            /\ IF k = 4 THEN r'.PMN = [n \in Ctrs |-> 0] /\ occurred' = None
               ELSE r'.PMN = r.PMN /\ occurred' = occurred
        BY <1>1, <2>4, IrqEffect
      <3>2. Configured
        BY <2>4 DEF Counted, Fresh
      <3> HIDE DEF k
      <3>3. Configured'
        BY <1>0, <2>1, <3>1, <3>2 DEF Configured
      <3> QED
        BY <3>1, <3>3 DEF Counted
    <2>5. CASE running = "dump"
      <3>1. /\ running' = "dump" /\ r'.E = r.E /\ r'.CNTENS = r.CNTENS
            /\ r'.PMN = r.PMN /\ r'.EVTSEL = r.EVTSEL /\ UNCHANGED <<pending, occurred>>
        BY <1>1, <2>5, DumpEffect
      <3>2. (Fresh => Fresh') /\ (Configured => Configured')
        BY <2>1, <3>1 DEF Fresh, Configured
      <3> QED
        BY <2>5, <3>1, <3>2 DEF Counted
    <2> QED
      BY <2>1, <2>2, <2>3, <2>4, <2>5
  <1>2. CASE Interrupt
    <2>1. running' = "irq" /\ running = NULL /\ pending /\ UNCHANGED <<r, pending, cfgs, occurred>>
      BY <1>2 DEF Interrupt, histVars
    <2> QED
      BY <2>1, Constants DEF Counted, Configured, Fresh
  <1>3. CASE TakeCall
    <2>1. ipi = "start" => At(startCtrsLocal)' = 0
      BY <1>3, StartCalls, AllCalls DEF TakeCall
    <2>2. /\ running = NULL /\ running' = ipi /\ ipi \in {"start", "stop", "dump"}
          /\ UNCHANGED <<r, pending, occurred>> /\ (ipi # "start" => cfgs' = cfgs)
      BY <1>3 DEF TakeCall, histVars, PmuTypes
    <2>3. CASE ipi = "start"
      BY <1>0, <2>1, <2>2, <2>3 DEF Counted
    <2>4. CASE ipi # "start"
      BY <2>2, <2>4, Constants DEF Counted, Configured, Fresh
    <2> QED
      BY <2>3, <2>4
  <1>4. CASE Return
    <2>1. /\ UNCHANGED <<r, pending, cfgs, occurred>> /\ running' = NULL
          /\ At(startCtrsLocal) = 10 + 2 * num_ctrs
      BY <1>4, Where DEF Return, histVars
    <2> QED
      BY <1>0, <2>1, Constants DEF Counted, Configured, Fresh
  <1>5. ASSUME NEW E \in SUBSET Events, Cycle(E) PROVE Counted'
    <2>1. /\ r.E /\ r'.CNTENS = r.CNTENS /\ r'.EVTSEL = r.EVTSEL
          /\ \A n \in Ctrs : r'.PMN[n] = IF n \in r.CNTENS /\ r.EVTSEL[n] \in E
                                        THEN (r.PMN[n] + 1) % Modulus ELSE r.PMN[n]
          /\ occurred' = [e \in DOMAIN occurred |->
                            IF e \in E THEN (occurred[e] + 1) % Modulus ELSE occurred[e]]
          /\ UNCHANGED <<running, code, cfgs>>
      BY <1>5, CycleEffect DEF Cycle
    <2>2. ~Starting(4, 9 + 2 * num_ctrs)
      BY <1>0, <2>1 DEF Disabled
    <2>3. ASSUME Configured PROVE Configured'
      <3>1. \A n \in Ctrs : cfgs[n] \in DOMAIN occurred
        BY <1>0
      <3>2. ASSUME NEW n \in Ctrs
            PROVE  r'.PMN[n] = occurred'[cfgs[n]]
        BY <2>1, <2>3, <3>1 DEF Configured
      <3> QED
        BY <2>1, <2>3, <3>2 DEF Configured
    <2> QED
      BY <2>1, <2>2, <2>3 DEF Counted, Fresh, At
  <1>6. CASE Outside
    BY <1>6, OutsideEffect DEF Counted, Configured, Fresh, At, cpuVars, histVars
  <1> QED
    BY <1>1, <1>2, <1>3, <1>4, <1>5, <1>6 DEF PmuNext, Outside

\* The inductive invariant holds.
LEMMA PmuInvariant == PmuSpec => []PmuInv
  <1>1. PmuInit => PmuInv
    BY TypesInit, ControlInit, DisabledInit, ClockInit, NoticedInit, CountedInit DEF PmuInv
  <1>2. PmuInv /\ [PmuNext]_pmuVars => PmuInv'
    BY TypesStep, ControlStep, DisabledStep, ClockStep, NoticedStep, CountedStep DEF PmuInv
  <1> QED
    BY <1>1, <1>2, PTL DEF PmuSpec

-----------------------------------------------------------------------------
(* The theorems                                                            *)

\* Types; and on_each_cpu has the CPU run something only while the writer waits for it
\* (pmu_sync_sample_main.c:265, 292, 296).
THEOREM PmuTyping == PmuSpec => []PmuTypeOK
  <1>1. PmuInv => PmuTypeOK
    BY DEF PmuInv, PmuTypes, Registers, Control, PmuTypeOK
  <1> QED
    BY <1>1, PmuInvariant, PTL

\* Only the handler takes samples, and the PMU is configured and its clock right when it does.
LEMMA WhenGathering ==
  ASSUME PmuInv, Gathering
  PROVE  /\ Configured
         /\ r.CCNT = (Modulus - 1 - armed + elapsed) % Modulus
  <1> USE DEF PmuInv
  <1>1. code # <<>> /\ running \in {"start", "stop", "irq", "dump"}
    BY Where DEF Gathering
  <1>2. running # "start"
    <2> SUFFICES ASSUME running = "start" PROVE FALSE
      OBVIOUS
    <2>1. /\ Head(code) = startCtrsLocal[At(startCtrsLocal) + 1]
          /\ At(startCtrsLocal) \in 0 .. (10 + 2 * num_ctrs) - 1
      BY <1>1, StartCalls, CallMade DEF Control
    <2>2. At(startCtrsLocal) \in 0 .. 9 + 2 * num_ctrs
      BY <2>1, Constants
    <2> QED
      BY <2>1, <2>2, StartTable DEF Gathering
  <1>3. running # "stop"
    <2> SUFFICES ASSUME running = "stop" PROVE FALSE
      OBVIOUS
    <2>1. /\ Head(code) = stopCtrsLocal[At(stopCtrsLocal) + 1]
          /\ At(stopCtrsLocal) \in 0 .. (3 + num_ctrs) - 1
      BY <1>1, StopCalls, CallMade DEF Control
    <2>2. At(stopCtrsLocal) \in 0 .. 2 + num_ctrs
      BY <2>1, Constants
    <2> QED
      BY <2>1, <2>2, StopTable DEF Gathering
  <1>4. running # "dump"
    <2> SUFFICES ASSUME running = "dump" PROVE FALSE
      OBVIOUS
    <2>1. /\ Head(code) = Call("dump_regs")[At(Call("dump_regs")) + 1]
          /\ At(Call("dump_regs")) \in 0 .. 0
      BY <1>1, DumpCalls, CallMade DEF Control
    <2> QED
      BY <2>1, DumpCalls DEF Gathering
  <1> QED
    BY <1>1, <1>2, <1>3, <1>4 DEF Clock, Counted, Fresh, Starting

\* The cycles of a sample (gatherSample, pmu_sync_sample_main.c:225-226) are those since the cycle
\* counter was written, less one, corrected by the change of the period, however wide it is.
THEOREM CyclesTrue == PmuSpec => []CyclesOfWindow
  <1>1. ASSUME PmuInv PROVE CyclesOfWindow
    <2> SUFFICES ASSUME Gathering
                 PROVE  Gathered.cycles = (elapsed - 1 + period - armed) % Modulus
      BY DEF CyclesOfWindow
    <2>1. /\ Modulus \in Nat \ {0} /\ period \in 0 .. Modulus - 1 /\ armed \in 0 .. Modulus - 1
          /\ elapsed \in 0 .. Modulus - 1
      BY <1>1, Constants DEF PmuInv, PmuTypes, Count
    <2>2. r.CCNT = IF elapsed <= armed THEN Modulus - 1 - armed + elapsed ELSE elapsed - armed - 1
      BY <1>1, WhenGathering, OneMore DEF PmuInv, PmuTypes
    <2>3. Gathered.cycles = (r.CCNT + period) % Modulus
      BY DEF Gathered
    <2>4. CASE elapsed <= armed
      <3> DEFINE y == elapsed - 1 + period - armed
      <3>1. r.CCNT + period = y + Modulus /\ y \in Int /\ y < Modulus /\ y + Modulus >= 0
        BY <2>1, <2>2, <2>4
      <3> HIDE DEF y
      <3>2. CASE y >= 0
        <4>1. (y + Modulus) % Modulus = y /\ y % Modulus = y
          BY <2>1, <3>1, <3>2
        <4> QED
          BY <2>3, <3>1, <4>1 DEF y
      <3>3. CASE y < 0
        <4>1. (y + Modulus) % Modulus = y + Modulus /\ y % Modulus = y + Modulus
          BY <2>1, <3>1, <3>3
        <4> QED
          BY <2>3, <3>1, <4>1 DEF y
      <3> QED
        BY <3>1, <3>2, <3>3
    <2>5. CASE elapsed > armed
      <3>1. r.CCNT + period = elapsed - 1 + period - armed
        BY <2>1, <2>2, <2>5
      <3> QED
        BY <2>3, <3>1
    <2> QED
      BY <2>1, <2>4, <2>5
  <1> QED
    BY <1>1, PmuInvariant, PTL

\* A counter of a sample has counted the event of the start in force, and nothing else, since
\* the counters were reset (startCtrsLocal and sample_handle_irq of arm.c).
THEOREM EventsTrue == PmuSpec => []OwnEvents
  <1>1. ASSUME PmuInv PROVE OwnEvents
    BY <1>1, WhenGathering DEF OwnEvents, Gathered, Configured
  <1> QED
    BY <1>1, PmuInvariant, PTL

\* The next overflow of a PMU that counts is at most the period it was started with away, and
\* raises the interrupt: no overflow has been lost between handler, stop and start.
THEOREM NextOverflow == PmuSpec => []OverflowNear
  <1>1. ASSUME PmuInv PROVE OverflowNear
    <2> SUFFICES ASSUME r.E, CCNT \in r.CNTENS, running = NULL, ~pending
                 PROVE  CCNT \in r.INTENS /\ Modulus - r.CCNT <= armed + 1
      BY DEF OverflowNear
    <2>1. NULL \notin {"start", "stop", "irq"}
      BY Constants
    <2>2. CCNT \in r.INTENS /\ elapsed <= armed
      BY <1>1, <2>1 DEF PmuInv, Noticed, Starting, Handling
    <2>3. r.CCNT = (Modulus - 1 - armed + elapsed) % Modulus
      BY <1>1, <2>1 DEF PmuInv, Clock, Fresh, Starting
    <2>4. armed \in Count /\ elapsed \in 0 .. MaxElapsed
      BY <1>1 DEF PmuInv, PmuTypes
    <2>5. r.CCNT = Modulus - 1 - armed + elapsed
      BY <2>2, <2>3, <2>4, OneMore
    <2> QED
      BY <2>2, <2>4, <2>5, Constants
  <1> QED
    BY <1>1, PmuInvariant, PTL

\* From the return of a stop to the next start the PMU is disabled, although the interrupt may
\* be served in between and disable_pmn sets the bits it should clear (stopCtrsLocal of arm.c).
THEOREM SilentAfterStop == PmuSpec => []SilentWhenStopped
  <1>1. ASSUME PmuInv PROVE SilentWhenStopped
    BY <1>1 DEF PmuInv, Control, Disabled, SilentWhenStopped
  <1> QED
    BY <1>1, PmuInvariant, PTL

=============================================================================
