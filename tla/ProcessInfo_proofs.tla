------------------------- MODULE ProcessInfo_proofs -------------------------
(***************************************************************************)
(* Theorems about the process cache on its own, for any set of pids and    *)
(* any number of checks.                                                   *)
(***************************************************************************)
EXTENDS ProcessInfo, TLAPS

-----------------------------------------------------------------------------
(* Types                                                                   *)

\* An entry keeps its type when its flags are set after a load.
LEMMA ReflagType ==
  ASSUME NEW e \in Entries, NEW why, NEW failed \in BOOLEAN
  PROVE  /\ Reflag(e, why, failed) \in Entries
         /\ Reflag(e, why, failed).mode = e.mode
         /\ Reflag(e, why, failed).cchecks <= e.cchecks
         /\ Reflag(e, why, failed).zchecks <= e.zchecks
  <1> DEFINE zygote == e.cmdline = "zygote"
             left == IF zygote THEN e.zchecks ELSE 0
             R == Reflag(e, why, failed)
  <1>1. Checks \in Nat /\ e.zchecks \in 0 .. Checks /\ e.cchecks \in 0 .. Checks
    BY ProcessInfoAssumption DEF Entries
  <1>2. 0 \in 0 .. Checks /\ left \in 0 .. Checks /\ left <= e.zchecks
        /\ 0 <= e.zchecks /\ 0 <= e.cchecks
    BY <1>1
  <1>3. zygote \in BOOLEAN
    OBVIOUS
  <1>4. CASE why = "zygote" /\ failed
    <2>1. Reflag(e, why, failed) =
            [e EXCEPT !.zchecks = 0]
      BY <1>4 DEF Reflag
    <2>2. [e EXCEPT !.zchecks = 0] \in Entries
      BY <1>2 DEF Entries
    <2>3. [e EXCEPT !.zchecks = 0].mode = e.mode
      BY DEF Entries
    <2>4. [e EXCEPT !.zchecks = 0].cchecks <= e.cchecks
      BY <1>1, <1>2 DEF Entries
    <2>5. [e EXCEPT !.zchecks = 0].zchecks <= e.zchecks
      BY <1>1, <1>2 DEF Entries
    <2> QED
      BY <2>1, <2>2, <2>3, <2>4, <2>5
  <1>5. CASE why = "zygote" /\ ~failed
    <2>1. Reflag(e, why, failed) =
            [e EXCEPT !.zflag = zygote, !.zchecks = left]
      BY <1>5 DEF Reflag
    <2>2. [e EXCEPT !.zflag = zygote, !.zchecks = left] \in Entries
      BY <1>2, <1>3 DEF Entries
    <2>3. [e EXCEPT !.zflag = zygote, !.zchecks = left].mode = e.mode
      BY DEF Entries
    <2>4. [e EXCEPT !.zflag = zygote, !.zchecks = left].cchecks <= e.cchecks
      BY <1>1, <1>2 DEF Entries
    <2>5. [e EXCEPT !.zflag = zygote, !.zchecks = left].zchecks <= e.zchecks
      BY <1>1, <1>2 DEF Entries
    <2> QED
      BY <2>1, <2>2, <2>3, <2>4, <2>5
  <1>6. CASE why # "zygote" /\ failed
    <2>1. Reflag(e, why, failed) =
            [e EXCEPT !.cflag = TRUE]
      BY <1>6 DEF Reflag
    <2>2. [e EXCEPT !.cflag = TRUE] \in Entries
      BY <1>2 DEF Entries
    <2>3. [e EXCEPT !.cflag = TRUE].mode = e.mode
      BY DEF Entries
    <2>4. [e EXCEPT !.cflag = TRUE].cchecks <= e.cchecks
      BY <1>1, <1>2 DEF Entries
    <2>5. [e EXCEPT !.cflag = TRUE].zchecks <= e.zchecks
      BY <1>1, <1>2 DEF Entries
    <2> QED
      BY <2>1, <2>2, <2>3, <2>4, <2>5
  <1>7. CASE why # "zygote" /\ ~failed
    <2>1. Reflag(e, why, failed) =
            [e EXCEPT !.cflag = FALSE, !.cchecks = 0, !.zflag = zygote, !.zchecks = left]
      BY <1>7 DEF Reflag
    <2>2. [e EXCEPT !.cflag = FALSE, !.cchecks = 0, !.zflag = zygote, !.zchecks = left] \in Entries
      BY <1>2, <1>3 DEF Entries
    <2>3. [e EXCEPT !.cflag = FALSE, !.cchecks = 0,
                  !.zflag = zygote, !.zchecks = left].mode = e.mode
      BY DEF Entries
    <2>4. [e EXCEPT !.cflag = FALSE, !.cchecks = 0,
                  !.zflag = zygote, !.zchecks = left].cchecks <= e.cchecks
      BY <1>1, <1>2 DEF Entries
    <2>5. [e EXCEPT !.cflag = FALSE, !.cchecks = 0,
                  !.zflag = zygote, !.zchecks = left].zchecks <= e.zchecks
      BY <1>1, <1>2 DEF Entries
    <2> QED
      BY <2>1, <2>2, <2>3, <2>4, <2>5
  <1> QED
    BY <1>4, <1>5, <1>6, <1>7

\* The four outcomes of the first part of getProcessInfo.
Nothing(p) ==
  /\ call' = [pid |-> p, why |-> "nothing", at |-> "done", failed |-> FALSE]
  /\ procMap' = procMap

BeginsFirst(p) ==
  /\ procMap[p].mode = "Unknown"
  /\ call' = [pid |-> p, why |-> "first", at |-> "cmdline", failed |-> FALSE]
  /\ procMap' = procMap

BeginsRetry(p) ==
  /\ procMap[p].mode # "Unknown" /\ procMap[p].cflag /\ procMap[p].cchecks > 0
  /\ call' = [pid |-> p, why |-> "cmdexe", at |-> "cmdline", failed |-> FALSE]
  /\ procMap' = [procMap EXCEPT ![p].cchecks = Less(@)]

BeginsZygote(p) ==
  /\ procMap[p].mode # "Unknown" /\ procMap[p].zflag
  /\ p > earliest_zygote \/ procMap[p].zchecks > 0
  /\ call' = [pid |-> p, why |-> "zygote", at |-> "cmdline", failed |-> FALSE]
  /\ procMap' = [procMap EXCEPT ![p].zchecks = Less(@)]

\* A call takes one of the four ways.
LEMMA CallCases ==
  ASSUME NEW p \in Pids, NEW check \in BOOLEAN, GetProcessInfo(p, check)
  PROVE  Nothing(p) \/ BeginsFirst(p) \/ BeginsRetry(p) \/ BeginsZygote(p)
  <1> DEFINE why == Why(p, check)
  <1>1. CASE why = "nothing"
    BY <1>1 DEF GetProcessInfo, Nothing
  <1>2. CASE why = "first"
    <2>1. First(p)
      BY <1>2 DEF Why
    <2> QED
      BY <1>2, <2>1 DEF GetProcessInfo, BeginsFirst, First
  <1>3. CASE why = "cmdexe"
    <2>1. ~First(p) /\ RetryFailed(p, check)
      BY <1>3 DEF Why
    <2> QED
      BY <1>3, <2>1 DEF GetProcessInfo, BeginsRetry, First, RetryFailed
  <1>4. CASE why = "zygote"
    <2>1. ~First(p) /\ RetryZygote(p, check)
      BY <1>4 DEF Why
    <2> QED
      BY <1>4, <2>1 DEF GetProcessInfo, BeginsZygote, First, RetryZygote
  <1> QED
    BY <1>1, <1>2, <1>3, <1>4 DEF Why

\* The cache starts typed.
LEMMA TypeInit == ProcInit => ProcTypeOK
  <1>1. NewEntry \in Entries
    BY ProcessInfoAssumption DEF NewEntry, Entries, Modes, CmdlineNames, ExeNames
  <1> QED
    BY <1>1 DEF ProcInit, ProcTypeOK, Images

\* A step of the cache or of another process keeps the types.
LEMMA TypeStep == ProcTypeOK /\ [ProcNext]_procVars => ProcTypeOK'
  <1> SUFFICES ASSUME ProcTypeOK, [ProcNext]_procVars PROVE ProcTypeOK'
    OBVIOUS
  <1>0. Checks \in Nat /\ Pids \subseteq Nat
    BY ProcessInfoAssumption
  <1>1. ASSUME NEW p \in Pids, Turn(p) PROVE ProcTypeOK'
    BY <1>1 DEF Turn, ProcTypeOK, cacheVars
  <1>2. ASSUME NEW p \in Pids, NEW check \in BOOLEAN, GetProcessInfo(p, check)
        PROVE  ProcTypeOK'
    <2>1. /\ proc' = proc /\ earliest_zygote' = earliest_zygote
          /\ procMap[p] \in Entries
      BY <1>2 DEF GetProcessInfo, ProcTypeOK
    <2>2. \A n \in 0 .. Checks : Less(n) \in 0 .. Checks
      BY <1>0 DEF Less
    <2>3. CASE Nothing(p)
      BY <2>1, <2>3 DEF Nothing, ProcTypeOK
    <2>4. CASE BeginsFirst(p)
      BY <2>1, <2>4 DEF BeginsFirst, ProcTypeOK
    <2>5. CASE BeginsRetry(p)
      <3>1. [procMap[p] EXCEPT !.cchecks = Less(@)] \in Entries
        BY <2>1, <2>2 DEF Entries
      <3> QED
        BY <2>1, <2>5, <3>1 DEF BeginsRetry, ProcTypeOK
    <2>6. CASE BeginsZygote(p)
      <3>1. [procMap[p] EXCEPT !.zchecks = Less(@)] \in Entries
        BY <2>1, <2>2 DEF Entries
      <3> QED
        BY <2>1, <2>6, <3>1 DEF BeginsZygote, ProcTypeOK
    <2> QED
      BY <1>2, <2>3, <2>4, <2>5, <2>6, CallCases
  <1>3. CASE ReadCmdline
    <2>1. ASSUME NEW image PROVE Cmdline(image) \in CmdlineNames
      <3>1. CASE image \in {"zygote", "app"}
        BY <3>1 DEF Cmdline, CmdlineNames
      <3>2. CASE image \in {"kernel", "zombie"}
        BY <3>2 DEF Cmdline, CmdlineNames
      <3> QED
        BY <3>1, <3>2 DEF Cmdline, CmdlineNames
    <2>3. \A image : CmdlineFails(image) \in BOOLEAN
      BY DEF CmdlineFails
    <2>2. [procMap[call.pid] EXCEPT !.cmdline = Cmdline(proc[call.pid])] \in Entries
      BY <2>1 DEF ProcTypeOK, Entries
    <2> QED
      BY <1>3, <2>1, <2>2, <2>3 DEF ReadCmdline, ProcTypeOK
  <1>4. CASE ReadExecutable
    <2> DEFINE p == call.pid
               exe == Executable(proc[p])
               failed == call.failed \/ ExecutableFails(proc[p])
               loaded == [procMap[p] EXCEPT
                            !.executable = exe,
                            !.mode = IF procMap[p].cmdline = "" /\ exe = ""
                                     THEN "Kernel" ELSE "User"]
    <2>1. p \in Pids /\ failed \in BOOLEAN /\ procMap[p] \in Entries
      BY DEF ProcTypeOK, ExecutableFails
    <2>2. exe \in ExeNames
      BY DEF Executable, ExeNames
    <2>3. loaded \in Entries
      BY <2>1, <2>2 DEF Entries, Modes
    <2>4. Reflag(loaded, call.why, failed) \in Entries
      BY <2>1, <2>3, ReflagType
    <2>5. earliest_zygote' \in Pids \cup {0}
      BY <1>4, <2>1 DEF ReadExecutable, Earliest, ProcTypeOK
    <2>6. procMap' = [procMap EXCEPT ![p] = Reflag(loaded, call.why, failed)]
      BY <1>4 DEF ReadExecutable
    <2>7. call' = [call EXCEPT !.at = "done"] /\ proc' = proc
      BY <1>4 DEF ReadExecutable
    <2> HIDE DEF loaded, failed, exe, p
    <2> QED
      BY <2>1, <2>4, <2>5, <2>6, <2>7 DEF ProcTypeOK
  <1>5. CASE UNCHANGED procVars
    BY <1>5 DEF procVars, cacheVars, ProcTypeOK
  <1> QED
    BY <1>1, <1>2, <1>3, <1>4, <1>5 DEF ProcNext

\* The variables of the cache keep their types.
THEOREM ProcTyping == ProcSpec => []ProcTypeOK
  BY TypeInit, TypeStep, PTL DEF ProcSpec

-----------------------------------------------------------------------------
(* Calls and entries                                                       *)

\* A call in progress still finds its entry as it found it when it began, as far as
\* its reason goes; and the idle task is the only process whose pid is 0.
CallInv ==
  /\ \A p \in Pids : p = 0 => proc[p] = "idle"
  /\ call.at # "done" =>
       /\ call.why = "first" => procMap[call.pid].mode = "Unknown"
       /\ call.why = "cmdexe" => /\ procMap[call.pid].mode # "Unknown"
                                 /\ procMap[call.pid].cflag
       /\ call.why = "zygote" => /\ procMap[call.pid].mode # "Unknown"
                                 /\ procMap[call.pid].zflag
       /\ call.why # "nothing"

\* The entry ReadExecutable puts into the cache.
Loaded(p) ==
  [procMap[p] EXCEPT
     !.executable = Executable(proc[p]),
     !.mode = IF procMap[p].cmdline = "" /\ Executable(proc[p]) = ""
              THEN "Kernel" ELSE "User"]

LoadFailed == call.failed \/ ExecutableFails(proc[call.pid])

\* What ReadExecutable does, with the facts about types that its uses need.
LEMMA LoadFacts ==
  ASSUME ProcTypeOK, ReadExecutable
  PROVE  /\ call.at = "exe" /\ call.pid \in Pids /\ LoadFailed \in BOOLEAN
         /\ procMap[call.pid] \in Entries
         /\ Loaded(call.pid) \in Entries
         /\ Loaded(call.pid).mode # "Unknown"
         /\ Loaded(call.pid).cmdline = procMap[call.pid].cmdline
         /\ Loaded(call.pid).cchecks = procMap[call.pid].cchecks
         /\ Loaded(call.pid).zchecks = procMap[call.pid].zchecks
         /\ Loaded(call.pid).zflag = procMap[call.pid].zflag
         /\ Loaded(call.pid).cflag = procMap[call.pid].cflag
         /\ procMap' = [procMap EXCEPT ![call.pid] =
                          Reflag(Loaded(call.pid), call.why, LoadFailed)]
         /\ earliest_zygote' =
              IF call.why # "zygote" /\ ~LoadFailed
                 /\ Loaded(call.pid).cmdline = "zygote"
              THEN Earliest(call.pid) ELSE earliest_zygote
         /\ call' = [call EXCEPT !.at = "done"]
         /\ proc' = proc
  <1>1. /\ call.at = "exe" /\ call.pid \in Pids /\ LoadFailed \in BOOLEAN
        /\ procMap[call.pid] \in Entries
    BY DEF ProcTypeOK, ReadExecutable, LoadFailed, ExecutableFails
  <1>2. Executable(proc[call.pid]) \in ExeNames
    BY DEF Executable, ExeNames
  <1>3. /\ Loaded(call.pid) \in Entries
        /\ Loaded(call.pid).mode # "Unknown"
    BY <1>1, <1>2 DEF Loaded, Entries, Modes
  <1>4. /\ Loaded(call.pid).cmdline = procMap[call.pid].cmdline
        /\ Loaded(call.pid).cchecks = procMap[call.pid].cchecks
        /\ Loaded(call.pid).zchecks = procMap[call.pid].zchecks
        /\ Loaded(call.pid).zflag = procMap[call.pid].zflag
        /\ Loaded(call.pid).cflag = procMap[call.pid].cflag
    BY <1>1 DEF Loaded, Entries
  <1>5. /\ procMap' = [procMap EXCEPT ![call.pid] =
                         Reflag(Loaded(call.pid), call.why, LoadFailed)]
        /\ earliest_zygote' =
             IF call.why # "zygote" /\ ~LoadFailed
                /\ Loaded(call.pid).cmdline = "zygote"
             THEN Earliest(call.pid) ELSE earliest_zygote
        /\ call' = [call EXCEPT !.at = "done"]
        /\ proc' = proc
    BY DEF ReadExecutable, Loaded, LoadFailed
  <1> QED
    BY <1>1, <1>3, <1>4, <1>5

\* No call is under way at the start.
LEMMA CallInit == ProcInit => CallInv
  BY DEF ProcInit, CallInv

\* The reason for which a load is made holds of its entry until the load ends.
LEMMA CallStep ==
  ProcTypeOK /\ CallInv /\ [ProcNext]_procVars => CallInv'
  <1> SUFFICES ASSUME ProcTypeOK, CallInv, [ProcNext]_procVars PROVE CallInv'
    OBVIOUS
  <1>1. ASSUME NEW p \in Pids, Turn(p) PROVE CallInv'
    <2>1. proc[p] # "idle"
      BY <1>1 DEF Turn, Turns
    <2> QED
      BY <1>1, <2>1 DEF Turn, CallInv, cacheVars, ProcTypeOK
  <1>2. ASSUME NEW p \in Pids, NEW check \in BOOLEAN, GetProcessInfo(p, check)
        PROVE  CallInv'
    <2>1. proc' = proc /\ procMap[p] \in Entries /\ procMap \in [Pids -> Entries]
      BY <1>2 DEF GetProcessInfo, ProcTypeOK
    <2>2. CASE Nothing(p)
      BY <2>1, <2>2 DEF Nothing, CallInv
    <2>3. CASE BeginsFirst(p)
      BY <2>1, <2>3 DEF BeginsFirst, CallInv
    <2>4. CASE BeginsRetry(p)
      BY <2>1, <2>4 DEF BeginsRetry, CallInv, Entries
    <2>5. CASE BeginsZygote(p)
      BY <2>1, <2>5 DEF BeginsZygote, CallInv, Entries
    <2> QED
      BY <1>2, <2>2, <2>3, <2>4, <2>5, CallCases
  <1>3. CASE ReadCmdline
    BY <1>3 DEF ReadCmdline, CallInv, ProcTypeOK, Entries
  <1>4. CASE ReadExecutable
    <2>1. call'.at = "done" /\ proc' = proc
      BY <1>4 DEF ReadExecutable, ProcTypeOK
    <2> QED
      BY <2>1 DEF CallInv
  <1>5. CASE UNCHANGED procVars
    BY <1>5 DEF procVars, cacheVars, CallInv
  <1> QED
    BY <1>1, <1>2, <1>3, <1>4, <1>5 DEF ProcNext

\* So the reason holds in every reachable state.
LEMMA Calls == ProcSpec => []CallInv
  BY ProcTyping, CallInit, CallStep, PTL DEF ProcSpec

-----------------------------------------------------------------------------
(* The order of the zygotes                                                *)

\* A step keeps the zygotes ordered.
LEMMA OrderStep ==
  ProcTypeOK /\ CallInv /\ ZygoteOrder /\ [ProcNext]_procVars => ZygoteOrder'
  <1> SUFFICES ASSUME ProcTypeOK, CallInv, ZygoteOrder, [ProcNext]_procVars
               PROVE  ZygoteOrder'
    OBVIOUS
  <1>0. Pids \subseteq Nat /\ procMap \in [Pids -> Entries]
        /\ earliest_zygote \in Pids \cup {0}
    BY ProcessInfoAssumption DEF ProcTypeOK
  <1>1. ASSUME NEW p \in Pids, Turn(p) PROVE ZygoteOrder'
    BY <1>1 DEF Turn, ZygoteOrder, cacheVars
  <1>2. ASSUME NEW p \in Pids, NEW check \in BOOLEAN, GetProcessInfo(p, check)
        PROVE  ZygoteOrder'
    <2>1. earliest_zygote' = earliest_zygote
      BY <1>2 DEF GetProcessInfo
    <2>2. \A q \in Pids : /\ procMap'[q].zflag = procMap[q].zflag
                          /\ procMap'[q].mode = procMap[q].mode
      <3>1. CASE Nothing(p) \/ BeginsFirst(p)
        BY <3>1 DEF Nothing, BeginsFirst
      <3>2. CASE BeginsRetry(p)
        BY <1>0, <3>2 DEF BeginsRetry, Entries
      <3>3. CASE BeginsZygote(p)
        BY <1>0, <3>3 DEF BeginsZygote, Entries
      <3> QED
        BY <1>2, <3>1, <3>2, <3>3, CallCases
    <2> QED
      BY <1>0, <2>1, <2>2 DEF ZygoteOrder
  <1>3. CASE ReadCmdline
    BY <1>0, <1>3 DEF ReadCmdline, ZygoteOrder, ProcTypeOK, Entries
  <1>4. CASE ReadExecutable
    <2> DEFINE p == call.pid
               e == Reflag(Loaded(p), call.why, LoadFailed)
               earliest == earliest_zygote
    <2>1. /\ p \in Pids /\ procMap'[p] = e
          /\ \A q \in Pids \ {p} : procMap'[q] = procMap[q]
      BY <1>0, <1>4, LoadFacts
    <2>2. e.mode # "Unknown"
      BY <1>4, LoadFacts, ReflagType
    <2>3. CASE call.why # "zygote" /\ ~LoadFailed /\ Loaded(p).cmdline = "zygote"
      <3>1. earliest' = Earliest(p)
        BY <1>4, <2>3, LoadFacts
      <3>2. p # 0
        BY <2>1, <2>3 DEF LoadFailed, ExecutableFails, CallInv
      <3>3. p \in Nat /\ earliest_zygote \in Nat
        <4>1. p \in Pids
          BY <2>1
        <4> HIDE DEF e, p
        <4> QED
          BY <1>0, <4>1
      <3> HIDE DEF e, p
      <3>4. 0 < earliest' /\ earliest' <= p /\ (earliest # 0 => earliest' <= earliest)
            /\ earliest' \in {p, earliest}
        BY <3>1, <3>2, <3>3 DEF Earliest
      <3> QED
        BY <1>0, <2>1, <2>2, <3>4 DEF ZygoteOrder
    <2>4. CASE ~ (call.why # "zygote" /\ ~LoadFailed /\ Loaded(p).cmdline = "zygote")
      <3>1. earliest' = earliest
        BY <1>4, <2>4, LoadFacts
      <3>2. e.zflag => procMap[p].zflag
        <4>1. Loaded(p) \in Entries /\ Loaded(p).zflag = procMap[p].zflag
          BY <1>4, LoadFacts
        <4>2. CASE call.why = "zygote"
          BY <1>4, <4>2, LoadFacts DEF CallInv
        <4>3. CASE call.why # "zygote" /\ LoadFailed
          <5>1. e = [Loaded(p) EXCEPT !.cflag = TRUE]
            BY <4>3 DEF Reflag
          <5> QED
            BY <4>1, <5>1 DEF Entries
        <4>4. CASE call.why # "zygote" /\ ~LoadFailed
          <5>1. Loaded(p).cmdline # "zygote"
            BY <2>4, <4>4
          <5>2. e = [Loaded(p) EXCEPT !.cflag = FALSE, !.cchecks = 0,
                                      !.zflag = FALSE, !.zchecks = 0]
            BY <4>4, <5>1 DEF Reflag
          <5> QED
            BY <4>1, <5>2 DEF Entries
        <4> QED
          BY <4>2, <4>3, <4>4
      <3> HIDE DEF e, p
      <3> QED
        BY <1>0, <2>1, <2>2, <3>1, <3>2 DEF ZygoteOrder
    <2> QED
      BY <2>3, <2>4
  <1>5. CASE UNCHANGED procVars
    BY <1>5 DEF procVars, cacheVars, ZygoteOrder
  <1> QED
    BY <1>1, <1>2, <1>3, <1>4, <1>5 DEF ProcNext

\* Whoever is flagged as zygote is not earlier than earliest_zygote
\* (process_info.cpp:49, 68, 81).
THEOREM ZygotesOrdered == ProcSpec => []ZygoteOrder
  <1>1. ProcInit => ZygoteOrder
    <2>1. NewEntry.zflag = FALSE
      BY DEF NewEntry
    <2> QED
      BY <2>1 DEF ProcInit, ZygoteOrder
  <1> QED
    BY <1>1, ProcTyping, Calls, OrderStep, PTL DEF ProcSpec

-----------------------------------------------------------------------------
(* Lookups come to an end                                                  *)

\* What BudgetSpent says of a step and an entry.
Spends(p) ==
  /\ Budget(p)' <= Budget(p)
  /\ StartsLoad(p) =>
       \/ Budget(p)' < Budget(p)
       \/ procMap[p].zflag /\ p > earliest_zygote

\* A load that ends uses up a check, unless its entry is a late zygote's.
LEMMA BudgetStep ==
  ASSUME ProcTypeOK, ProcTypeOK', [ProcNext]_procVars, NEW p \in Pids
  PROVE  Spends(p)
  <1>0. /\ Pids \subseteq Nat /\ Checks \in Nat
        /\ procMap \in [Pids -> Entries] /\ procMap[p] \in Entries
        /\ procMap'[p] \in Entries
    BY ProcessInfoAssumption DEF ProcTypeOK
  <1>b. /\ procMap[p].cchecks \in Nat /\ procMap[p].zchecks \in Nat
        /\ procMap'[p].cchecks \in Nat /\ procMap'[p].zchecks \in Nat
    BY <1>0 DEF Entries
  <1>1. ASSUME NEW q \in Pids, Turn(q) PROVE Spends(p)
    <2>1. UNCHANGED cacheVars
      BY <1>1 DEF Turn
    <2> QED
      BY <1>b, <2>1 DEF Spends, Budget, First, StartsLoad, cacheVars
  <1>2. ASSUME NEW q \in Pids, NEW check \in BOOLEAN, GetProcessInfo(q, check)
        PROVE  Spends(p)
    <2>1. call.at = "done" /\ earliest_zygote' = earliest_zygote
      BY <1>2 DEF GetProcessInfo
    <2>2. CASE Nothing(q)
      BY <1>b, <2>1, <2>2 DEF Nothing, Spends, Budget, First, StartsLoad
    <2>3. CASE BeginsFirst(q)
      BY <1>b, <2>1, <2>3 DEF BeginsFirst, Spends, Budget, First, StartsLoad
    <2>4. CASE BeginsRetry(q)
      <3>1. CASE q = p
        <4>1. /\ procMap'[p].cchecks = procMap[p].cchecks - 1
              /\ procMap'[p].zchecks = procMap[p].zchecks
              /\ procMap[p].mode # "Unknown" /\ procMap'[p].mode # "Unknown"
          BY <1>0, <1>b, <2>4, <3>1 DEF BeginsRetry, Less, Entries
        <4> QED
          BY <1>b, <4>1 DEF Spends, Budget, First
      <3>2. CASE q # p
        <4>1. procMap'[p] = procMap[p] /\ call'.pid # p
          BY <1>0, <2>4, <3>2 DEF BeginsRetry
        <4> QED
          BY <1>b, <2>1, <4>1 DEF Spends, Budget, First, StartsLoad
      <3> QED
        BY <3>1, <3>2
    <2>5. CASE BeginsZygote(q)
      <3>1. CASE q = p
        <4>1. /\ procMap'[p].cchecks = procMap[p].cchecks
              /\ procMap'[p].zchecks = Less(procMap[p].zchecks)
              /\ procMap[p].mode # "Unknown" /\ procMap'[p].mode # "Unknown"
              /\ procMap[p].zflag
              /\ p > earliest_zygote \/ procMap[p].zchecks > 0
          BY <1>0, <2>5, <3>1 DEF BeginsZygote, Entries
        <4> QED
          BY <1>b, <4>1 DEF Spends, Budget, First, Less
      <3>2. CASE q # p
        <4>1. procMap'[p] = procMap[p] /\ call'.pid # p
          BY <1>0, <2>5, <3>2 DEF BeginsZygote
        <4> QED
          BY <1>b, <2>1, <4>1 DEF Spends, Budget, First, StartsLoad
      <3> QED
        BY <3>1, <3>2
    <2> QED
      BY <1>2, <2>2, <2>3, <2>4, <2>5, CallCases
  <1>3. CASE ReadCmdline
    <2>1. /\ call.at = "cmdline" /\ call'.at = "exe" /\ call'.pid = call.pid
      BY <1>3 DEF ReadCmdline, ProcTypeOK
    <2>2. /\ procMap'[p].cchecks = procMap[p].cchecks
          /\ procMap'[p].zchecks = procMap[p].zchecks
          /\ procMap'[p].mode = procMap[p].mode
      BY <1>0, <1>3 DEF ReadCmdline, Entries
    <2> QED
      BY <1>b, <2>1, <2>2 DEF Spends, Budget, First, StartsLoad
  <1>4. CASE ReadExecutable
    <2>1. call.at = "exe" /\ ~StartsLoad(p)
      BY <1>4, LoadFacts DEF StartsLoad
    <2>2. CASE call.pid = p
      <3>1. /\ procMap'[p].mode # "Unknown"
            /\ procMap'[p].cchecks <= procMap[p].cchecks
            /\ procMap'[p].zchecks <= procMap[p].zchecks
        BY <1>0, <1>4, <2>2, LoadFacts, ReflagType
      <3> QED
        BY <1>b, <2>1, <2>2, <3>1 DEF Spends, Budget, First
    <2>3. CASE call.pid # p
      <3>1. procMap'[p] = procMap[p]
        BY <1>0, <1>4, <2>3, LoadFacts
      <3> QED
        BY <1>b, <2>1, <2>3, <3>1 DEF Spends, Budget, First
    <2> QED
      BY <2>2, <2>3
  <1>5. CASE UNCHANGED procVars
    BY <1>b, <1>5 DEF procVars, cacheVars, Spends, Budget, First, StartsLoad
  <1> QED
    BY <1>1, <1>2, <1>3, <1>4, <1>5 DEF ProcNext

\* An entry that is not a late zygote's is loaded a bounded number of times
\* (process_info.cpp:56-60, 78).
THEOREM LookupsEnd == ProcSpec => BudgetSpent
  <1>1. ProcTypeOK /\ ProcTypeOK' /\ [ProcNext]_procVars
          => [\A p \in Pids : Spends(p)]_procVars
    BY BudgetStep
  <1>2. [\A p \in Pids : Spends(p)]_procVars
          <=> [\A p \in Pids :
                 /\ Budget(p)' <= Budget(p)
                 /\ StartsLoad(p) =>
                      \/ Budget(p)' < Budget(p)
                      \/ procMap[p].zflag /\ p > earliest_zygote]_procVars
    BY DEF Spends
  <1> QED
    BY <1>1, <1>2, ProcTyping, PTL DEF ProcSpec, BudgetSpent

-----------------------------------------------------------------------------
(* Settled entries                                                         *)

\* A step does not replace a name that is there for good.
LEMMA SettledStep ==
  ASSUME ProcTypeOK, CallInv, [ProcNext]_procVars, NEW p \in Pids, Settled(p)
  PROVE  procMap'[p] = procMap[p]
  <1>0. procMap \in [Pids -> Entries] /\ call.pid \in Pids
    BY DEF ProcTypeOK
  <1>1. ASSUME NEW q \in Pids, Turn(q) PROVE procMap'[p] = procMap[p]
    BY <1>1 DEF Turn, cacheVars
  <1>2. ASSUME NEW q \in Pids, NEW check \in BOOLEAN, GetProcessInfo(q, check)
        PROVE  procMap'[p] = procMap[p]
    <2>1. CASE Nothing(q) \/ BeginsFirst(q)
      BY <2>1 DEF Nothing, BeginsFirst
    <2>2. CASE BeginsRetry(q)
      BY <1>0, <2>2 DEF BeginsRetry, Settled
    <2>3. CASE BeginsZygote(q)
      BY <1>0, <2>3 DEF BeginsZygote, Settled
    <2> QED
      BY <1>2, <2>1, <2>2, <2>3, CallCases
  <1>3. ASSUME call.at # "done" PROVE call.pid # p
    BY <1>3 DEF CallInv, ProcTypeOK, Settled
  <1>4. CASE ReadCmdline
    BY <1>0, <1>3, <1>4 DEF ReadCmdline
  <1>5. CASE ReadExecutable
    BY <1>0, <1>3, <1>5, LoadFacts
  <1>6. CASE UNCHANGED procVars
    BY <1>6 DEF procVars, cacheVars
  <1> QED
    BY <1>1, <1>2, <1>4, <1>5, <1>6 DEF ProcNext

\* A name loaded without failure, other than zygote's, is kept for ever
\* (process_info.cpp:56-60).
THEOREM Settling == ProcSpec => SettledForGood
  <1>1. ProcTypeOK /\ CallInv /\ [ProcNext]_procVars
          => [\A p \in Pids : Settled(p) => procMap'[p] = procMap[p]]_procVars
    BY SettledStep
  <1> QED
    BY <1>1, ProcTyping, Calls, PTL DEF ProcSpec, SettledForGood
=============================================================================
