-------------------------------- MODULE ArmPmu --------------------------------
(***************************************************************************)
(* The PMU of one ARM CPU, register by register: the routines of           *)
(* module/v7_pmu.S, and startCtrsLocal, stopCtrsLocal, dump_regs and       *)
(* sample_handle_irq of module/arm.c, which call them one after another    *)
(* while the hardware goes on counting.  Another CPU writes the attributes *)
(* and waits in on_each_cpu.  PmuSampler has these functions as single     *)
(* steps of several CPUs; here every call is one.                          *)
(*                                                                         *)
(* The counters are Modulus values wide (2^32 in the code).  Bit 31 of     *)
(* CNTENS, INTENS and FLAGS stands for the cycle counter, here bit CCNT.   *)
(***************************************************************************)
EXTENDS Integers, Sequences, SequencesExt

CONSTANTS
  num_ctrs,    \* programmable counters
  Attrs,       \* those with an attribute for their event (4 in the code)
  Events,      \* event numbers; 0, software increments, never occurs
  Modulus,     \* 2^32
  DefaultEvent, DefaultPeriod, \* initial values of the attributes 0 and period
  Periods,     \* values written to the attribute period
  MIN_PERIOD,
  MaxElapsed,  \* bound: cycles until the interrupt is served
  NULL         \* no call

ASSUME ArmPmuAssumption ==
  /\ num_ctrs \in Nat \ {0} /\ Attrs \in 0 .. num_ctrs
  /\ Modulus \in Nat /\ MIN_PERIOD \in 0 .. Modulus - 1 /\ Periods \subseteq 0 .. Modulus - 1
  /\ DefaultPeriod \in 0 .. Modulus - 1
  /\ Events \subseteq Nat \ {0} /\ DefaultEvent \in Events
  /\ MaxElapsed \in 1 .. Modulus - 1
  /\ NULL \notin {"start", "stop", "dump", "irq"}

VARIABLES
  r,           \* the registers
  pending,     \* the interrupt is raised and not acknowledged
  running,     \* what the CPU runs: NULL, "start", "stop", "dump" or "irq"
  code,        \* the calls left to make
  cfgs,        \* cfgs of startCtrs
  ctr_attr,    \* values of the attributes 0 .. 3
  period_attr, \* value of the attribute period
  period, shutdown,
  writer,      \* where the process writing to status is
  ipi,         \* the call of on_each_cpu that this CPU has to make
  armed,       \* history: period when the cycle counter was last written
  elapsed,     \* history: cycles counted since then
  occurred     \* history: how often each event occurred since the counters were reset

cpuVars == <<r, pending, running, code, cfgs>>
attrVars == <<ctr_attr, period_attr>>
ctlVars == <<period, shutdown, writer, ipi>>
histVars == <<armed, elapsed, occurred>>
pmuVars == <<cpuVars, attrVars, ctlVars, histVars>>

Ctrs == 0 .. num_ctrs - 1
CCNT == num_ctrs
Bits == 0 .. num_ctrs
None == [e \in Events \cup {0} |-> 0]

-----------------------------------------------------------------------------
(* v7_pmu.S                                                                *)

enable_pmu(p) == [p EXCEPT !.E = TRUE]
disable_pmu(p) == [p EXCEPT !.E = FALSE]
enable_ccnt(p) == [p EXCEPT !.CNTENS = @ \cup {CCNT}]
disable_ccnt(p) == [p EXCEPT !.CNTENS = @ \ {CCNT}]
enable_pmn(p, n) == [p EXCEPT !.CNTENS = @ \cup {n}]

\* The routine writes the enable-set register, too.
disable_pmn(p, n) == [p EXCEPT !.CNTENS = @ \cup {n}]
enable_ccnt_irq(p) == [p EXCEPT !.INTENS = @ \cup {CCNT}]
disable_ccnt_irq(p) == [p EXCEPT !.INTENS = @ \ {CCNT}]
reset_ccnt(p) == [p EXCEPT !.CCNT = 0]
reset_pmn(p) == [p EXCEPT !.PMN = [n \in Ctrs |-> 0]]
write_ccnt(p, v) == [p EXCEPT !.CCNT = v]

\* Writing ones clears the flags.
write_flags(p) == [p EXCEPT !.FLAGS = {}]

\* PMNXSEL chooses the counter that EVTSELx and PMNx mean.
Selected(p, n) == [p EXCEPT !.SEL = n]

\* Mutant: the counter is not selected.
pmn_config_unselected(p, n, event) == [p EXCEPT !.EVTSEL[p.SEL] = event]

pmn_config(p, n, event) ==
  LET s == Selected(p, n) IN [s EXCEPT !.EVTSEL[s.SEL] = event]

-----------------------------------------------------------------------------
(* arm.c as sequences of calls                                             *)

Call(op) == <<[op |-> op, n |-> 0]>>
ForEach(op) == [i \in 1 .. num_ctrs |-> [op |-> op, n |-> i - 1]]

startCtrsLocal ==
  Call("disable_pmu") \o Call("disable_ccnt") \o Call("reset_ccnt") \o Call("reset_pmn")
    \o Call("write_flags") \o Call("write_ccnt") \o ForEach("pmn_config") \o Call("dump_regs")
    \o Call("enable_ccnt_irq") \o ForEach("enable_pmn") \o Call("enable_ccnt") \o Call("enable_pmu")

\* Mutant: stopping each counter is taken to be enough.
StopCounters == Call("disable_ccnt_irq") \o Call("disable_ccnt") \o ForEach("disable_pmn")

stopCtrsLocal ==
  Call("disable_ccnt_irq") \o Call("disable_ccnt") \o ForEach("disable_pmn") \o Call("disable_pmu")

\* Mutant: the cycle counter is left as it is.
IrqUnarmed ==
  Call("cti_irq_ack") \o Call("disable_pmu") \o Call("read_flags") \o Call("gatherSample")
    \o Call("reset_pmn") \o Call("write_flags") \o Call("resume")

sample_handle_irq ==
  Call("cti_irq_ack") \o Call("disable_pmu") \o Call("read_flags") \o Call("gatherSample")
    \o Call("reset_pmn") \o Call("rearm") \o Call("write_flags") \o Call("resume")

\* Mutant: 2^32 - period
FirstCountLate == (Modulus - period) % Modulus

\* 0xFFFFFFFF - period
FirstCount == (Modulus - 1 - period) % Modulus

\* The registers after a call.
After(c) ==
  CASE c.op = "enable_pmu" -> enable_pmu(r)
    [] c.op = "disable_pmu" -> disable_pmu(r)
    [] c.op = "enable_ccnt" -> enable_ccnt(r)
    [] c.op = "disable_ccnt" -> disable_ccnt(r)
    [] c.op = "enable_pmn" -> enable_pmn(r, c.n)
    [] c.op = "disable_pmn" -> disable_pmn(r, c.n)
    [] c.op = "enable_ccnt_irq" -> enable_ccnt_irq(r)
    [] c.op = "disable_ccnt_irq" -> disable_ccnt_irq(r)
    [] c.op = "reset_ccnt" -> reset_ccnt(r)
    [] c.op = "reset_pmn" -> reset_pmn(r)
    [] c.op = "write_flags" -> write_flags(r)
    [] c.op = "pmn_config" -> pmn_config(r, c.n, cfgs[c.n])
    [] c.op = "write_ccnt" -> write_ccnt(r, FirstCount)
    [] c.op = "rearm" -> IF shutdown = 0 THEN write_ccnt(r, FirstCount) ELSE r
    [] c.op = "resume" -> IF shutdown = 0 THEN enable_pmu(r) ELSE r
    [] c.op \in {"dump_regs", "gatherSample"} -> Selected(r, num_ctrs - 1)
    [] c.op \in {"cti_irq_ack", "read_flags"} -> r

\* The sample that gatherSample takes: read_ccnt() + period, as wide as unsigned long,
\* and the counters.
Gathered == [cycles |-> (r.CCNT + period) % Modulus, counters |-> r.PMN]

\* A handler that finds no flag returns at once.
Spurious(c) == c.op = "read_flags" /\ r.FLAGS = {}

\* The CPU makes its next call.
Step ==
  /\ code # <<>>
  /\ LET c == Head(code) IN
       /\ r' = After(c)
       /\ code' = IF Spurious(c) THEN <<>> ELSE Tail(code)
       /\ pending' = (pending /\ c.op # "cti_irq_ack")
       /\ IF c.op = "write_ccnt" \/ (c.op = "rearm" /\ shutdown = 0)
          THEN armed' = period /\ elapsed' = 0 ELSE UNCHANGED <<armed, elapsed>>
       /\ occurred' = IF c.op = "reset_pmn" THEN None ELSE occurred
  /\ UNCHANGED <<running, cfgs, attrVars, ctlVars>>

\* The CPU takes the interrupt.
Interrupt ==
  /\ code = <<>> /\ running = NULL /\ pending
  /\ running' = "irq" /\ code' = sample_handle_irq
  /\ UNCHANGED <<r, pending, cfgs, attrVars, ctlVars, histVars>>

\* The CPU takes the inter-processor interrupt: startCtrs reads the selectors first.
TakeCall ==
  /\ code = <<>> /\ running = NULL /\ ipi # NULL
  /\ running' = ipi
  /\ code' = CASE ipi = "start" -> startCtrsLocal
               [] ipi = "stop" -> stopCtrsLocal
               [] ipi = "dump" -> Call("dump_regs")
  /\ cfgs' = IF ipi = "start" THEN [n \in Ctrs |-> IF n < Attrs THEN ctr_attr[n] ELSE 0] ELSE cfgs
  /\ UNCHANGED <<r, pending, attrVars, ctlVars, histVars>>

\* The function returns; on_each_cpu need not wait any more.
Return ==
  /\ code = <<>> /\ running # NULL
  /\ running' = NULL
  /\ ipi' = IF running = ipi THEN NULL ELSE ipi
  /\ UNCHANGED <<r, pending, code, cfgs, attrVars, period, shutdown, writer, histVars>>

-----------------------------------------------------------------------------
(* The hardware                                                            *)

\* Counters that a cycle with these events increments.
Counting(E) ==
  {n \in r.CNTENS : n = CCNT \/ r.EVTSEL[n] \in E}

\* A cycle in which some events occur.
Cycle(E) ==
  /\ r.E /\ elapsed < MaxElapsed
  /\ LET over == {n \in Counting(E) : (IF n = CCNT THEN r.CCNT ELSE r.PMN[n]) = Modulus - 1} IN
       /\ r' = [r EXCEPT !.CCNT = IF CCNT \in Counting(E) THEN (@ + 1) % Modulus ELSE @,
                         !.PMN = [n \in Ctrs |-> IF n \in Counting(E) THEN (@[n] + 1) % Modulus ELSE @[n]],
                         !.FLAGS = @ \cup over]
       /\ pending' = (pending \/ over \cap r.INTENS # {})
  /\ elapsed' = IF CCNT \in r.CNTENS THEN elapsed + 1 ELSE elapsed
  /\ occurred' = [e \in DOMAIN occurred |-> IF e \in E THEN (occurred[e] + 1) % Modulus ELSE occurred[e]]
  /\ UNCHANGED <<running, code, cfgs, attrVars, ctlVars, armed>>

-----------------------------------------------------------------------------
(* The processes that write to the attributes                              *)

\* Another process writes to period or to a selector, at any time.
StorePeriod(v) ==
  /\ period_attr' = v
  /\ UNCHANGED <<ctr_attr, cpuVars, ctlVars, histVars>>

StoreCounter(n, e) ==
  /\ ctr_attr' = [ctr_attr EXCEPT ![n] = e]
  /\ UNCHANGED <<period_attr, cpuVars, ctlVars, histVars>>

\* 1 is written to status: a low period is increased.
Start ==
  /\ writer = "idle"
  /\ period_attr' = IF period_attr < MIN_PERIOD THEN MIN_PERIOD ELSE period_attr
  /\ writer' = "period"
  /\ UNCHANGED <<ctr_attr, cpuVars, period, shutdown, ipi, histVars>>

StartPeriod ==
  /\ writer = "period"
  /\ period' = period_attr /\ writer' = "start"
  /\ UNCHANGED <<attrVars, cpuVars, shutdown, ipi, histVars>>

StartCall ==
  /\ writer = "start"
  /\ shutdown' = 0 /\ ipi' = "start" /\ writer' = "waiting"
  /\ UNCHANGED <<attrVars, cpuVars, period, histVars>>

\* 0 is written to status: stopAll.
Stop ==
  /\ writer = "idle"
  /\ shutdown' = 1 /\ ipi' = "stop" /\ writer' = "stopping"
  /\ UNCHANGED <<attrVars, cpuVars, period, histVars>>

\* 2 is written to status.
Dump ==
  /\ writer = "idle"
  /\ ipi' = "dump" /\ writer' = "waiting"
  /\ UNCHANGED <<attrVars, cpuVars, period, shutdown, histVars>>

\* Mutant: on_each_cpu does not wait.
CalledEarly ==
  /\ writer \in {"waiting", "stopping"}
  /\ shutdown' = IF writer = "stopping" THEN 2 ELSE shutdown
  /\ writer' = "idle"
  /\ UNCHANGED <<attrVars, cpuVars, period, ipi, histVars>>

\* on_each_cpu returns.
Called ==
  /\ writer \in {"waiting", "stopping"} /\ ipi = NULL
  /\ shutdown' = IF writer = "stopping" THEN 2 ELSE shutdown
  /\ writer' = "idle"
  /\ UNCHANGED <<attrVars, cpuVars, period, ipi, histVars>>

PmuInit ==
  /\ r = [E |-> FALSE, CNTENS |-> {}, INTENS |-> {}, FLAGS |-> {}, SEL |-> 0, CCNT |-> 0,
          PMN |-> [n \in Ctrs |-> 0], EVTSEL |-> [n \in Ctrs |-> 0]]
  /\ pending = FALSE /\ running = NULL /\ code = <<>>
  /\ cfgs = [n \in Ctrs |-> 0]
  /\ ctr_attr = [n \in 0 .. Attrs - 1 |-> IF n = 0 THEN DefaultEvent ELSE 0]
  /\ period_attr = DefaultPeriod /\ period = DefaultPeriod /\ shutdown = 0 /\ writer = "idle" /\ ipi = NULL
  /\ armed = period /\ elapsed = 0 /\ occurred = None

PmuNext ==
  \/ Step \/ Interrupt \/ TakeCall \/ Return
  \/ \E E \in SUBSET Events : Cycle(E)
  \/ \E v \in Periods : StorePeriod(v)
  \/ \E n \in DOMAIN ctr_attr, e \in Events \cup {0} : StoreCounter(n, e)
  \/ Start \/ StartPeriod \/ StartCall \/ Stop \/ Dump \/ Called

PmuSpec == PmuInit /\ [][PmuNext]_pmuVars
-----------------------------------------------------------------------------
(* Properties                                                              *)

Count == 0 .. Modulus - 1

\* Types; the CPU has a call to make only while the writer waits for it.
PmuTypeOK ==
  /\ r \in [E : BOOLEAN, CNTENS : SUBSET Bits, INTENS : SUBSET Bits, FLAGS : SUBSET Bits,
            SEL : Ctrs, CCNT : Count, PMN : [Ctrs -> Count], EVTSEL : [Ctrs -> Events \cup {0}]]
  /\ pending \in BOOLEAN
  /\ running \in {NULL, "start", "stop", "dump", "irq"} /\ ipi \in {NULL, "start", "stop", "dump"}
  /\ period \in Count /\ shutdown \in 0 .. 2
  /\ running = NULL => code = <<>>
  /\ ipi # NULL => writer \in {"waiting", "stopping"}

Gathering == code # <<>> /\ Head(code).op = "gatherSample"

\* The cycles of a sample are those since the counter was started, less one: it is started at
\* 0xFFFFFFFF - period and overflows one cycle after period.  A period changed in between
\* shifts the number by the difference, as gatherSample adds the new one.
CyclesOfWindow ==
  Gathering => Gathered.cycles = (elapsed - 1 + period - armed) % Modulus

\* A counter of a sample is the number of its own event, as configured by the start in force,
\* since the counters were reset.
OwnEvents ==
  Gathering =>
    \A n \in Ctrs : Gathered.counters[n] = occurred[cfgs[n]]

\* A PMU that counts and whose interrupt is not pending raises it within period + 1 cycles of
\* its start, never only after the counter went round.
OverflowNear ==
  (r.E /\ CCNT \in r.CNTENS /\ code = <<>> /\ running = NULL /\ ~pending) =>
    /\ CCNT \in r.INTENS
    /\ Modulus - r.CCNT <= armed + 1

\* From the return of a stop to the next start nothing counts, whatever interrupt is still
\* served: disable_pmn sets the bits it should clear, and only the enable bit of the whole PMU
\* stops the counters.
SilentWhenStopped == shutdown = 2 => ~r.E

\* v7_pmu.S: "Use arg (r0) to set which counter to disable".
CountersOff == (writer = "idle" /\ shutdown = 2) => r.CNTENS = {}
=============================================================================
