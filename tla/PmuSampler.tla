----------------------------- MODULE PmuSampler -----------------------------
(***************************************************************************)
(* The kernel driver: module/pmu_sync_sample_main.c together with the      *)
(* interrupt handler and the counter control of module/arm.c or            *)
(* module/intel.c.                                                         *)
(*                                                                         *)
(* A pool of sample buffers circulates between four kinds of actors:       *)
(*   - the PMU interrupt of every CPU (gatherSample), which fills the      *)
(*     buffer in lbuffer[c] and appends it to full_buffers;                *)
(*   - user processes in read(2) on /dev/pmu_samples (my_read), which pop  *)
(*     full_buffers, copy, and append to empty_buffers;                    *)
(*   - user processes writing /sys/sync_pmu/status, which start and stop   *)
(*     sampling;                                                           *)
(*   - the inter-processor calls (on_each_cpu) a status write sends, which *)
(*     run startCtrs and stopCtrsLocal on every CPU.                       *)
(*                                                                         *)
(* A step is one access to memory that another actor can observe.  The two *)
(* lists are modelled as sequences: a critical section of append_blist or  *)
(* pop_blist is one step.                                                  *)
(***************************************************************************)
EXTENDS Naturals, FiniteSets, Sequences, SequencesExt

CONSTANTS
  Cpus,           \* CPUs that run the sampler
  Readers,        \* processes that read /dev/pmu_samples
  Writers,        \* processes that write /sys/sync_pmu/status
  Buffers,        \* the buffers init_module allocated
  BufferEntries,  \* BUFFER_ENTRIES: samples per buffer
  Nmi,            \* TRUE: intel.c, the PMU raises an NMI; FALSE: arm.c, an IRQ
  Codes,          \* values written to status; 3 stands for every unknown one
  Restart,        \* may status be set to 1 while sampling is on?
  MaxTicks,       \* bound: PMU interrupts taken per CPU
  MaxInterrupts,  \* bound: PMU interrupts taken by all CPUs together
  NULL            \* the null pointer

\* sample_buffer.h makes BUFFER_ENTRIES a positive constant and init_module
\* allocates a fixed, finite number of buffers.
ASSUME PmuSamplerAssumption ==
  /\ Cpus # {}
  /\ IsFiniteSet(Buffers)
  /\ BufferEntries \in Nat \ {0}
  /\ MaxTicks \in Nat /\ MaxInterrupts \in Nat
  /\ Nmi \in BOOLEAN
  /\ Restart \in BOOLEAN
  /\ Codes \subseteq 0 .. 3
  /\ NULL \notin Buffers \cup Writers

VARIABLES
  empty,     \* empty_buffers
  full,      \* full_buffers
  lbuffer,   \* per-CPU lbuffer
  core,      \* b->core
  samples,   \* b->samples[0 .. b->num_samples-1], each <<cpu, tick>>
  missed,    \* missed_attr.value
  shutdown,  \* 0 running, 1 stopping, 2 stopped
  status,    \* status_attr.value
  notifier,  \* my_nmi_notifier in the kernel's die chain (intel.c)
  enabled,   \* per CPU: the PMU counts
  ccnt,      \* per CPU: the cycle counter
  flags,     \* per CPU: overflow status of the cycle counter
  pend,      \* per CPU: an overflow interrupt waits to be delivered
  irq,       \* per CPU: where the interrupt handler is
  mtmp,      \* per CPU: value of missed the handler has loaded
  ipi,       \* per CPU: the writer whose startCtrs the CPU is running
  ipc,       \* per CPU: where that startCtrs is
  rpc,       \* per reader: where my_read is
  rbuf,      \* per reader: b in my_read
  wpc,       \* per writer: where process_status_update is
  todo,      \* per writer: CPUs that have not finished its on_each_cpu
  ticks,     \* history, per CPU: calls of gatherSample
  dropped,   \* history: calls of gatherSample that found no buffer
  seen       \* history, per CPU: last tick handed to a reader

\* A struct blist is the sequence of its buffers: append_blist and pop_blist hold the lock
\* of the list from their first access to it to their last, so each is one step.
poolVars == <<empty, full, lbuffer, core, samples>>
pmuVars  == <<enabled, ccnt, flags, pend>>
ctlVars  == <<shutdown, status, notifier>>
missVars == <<missed, mtmp, dropped>>
readVars == <<rpc, rbuf, seen>>
ipiVars  == <<ipi, ipc, todo>>
vars == <<poolVars, pmuVars, ctlVars, missVars, readVars, ipiVars,
          irq, wpc, ticks>>

\* What an interrupt handler, a function of on_each_cpu, a write to status, and
\* a read leave alone.
handlerKeeps == <<ctlVars, readVars, ipiVars, wpc>>
crossKeeps == <<full, core, samples, ctlVars, missVars, readVars, irq, wpc, ticks>>
writerKeeps == <<poolVars, pmuVars, missVars, readVars, irq, ticks>>
readerKeeps == <<lbuffer, core, samples, pmuVars, ctlVars, missVars, ipiVars,
                 irq, wpc, ticks>>

Sample == Cpus \X Nat
-----------------------------------------------------------------------------
(***************************************************************************)
(* Helpers.                                                                *)
(***************************************************************************)

\* Mutant of Woken: the wake-up is forgotten.
WokenNot == rpc

\* wake_up_all(&read_queue): every sleeping reader evaluates its condition again.
Woken == [r \in Readers |-> IF rpc[r] = "asleep" THEN "wait" ELSE rpc[r]]

\* CPU c executes ordinary code or may take an inter-processor call: it is in no
\* handler, and an NMI that is due is taken before its next instruction.
Runs(c) == irq[c] = "idle" /\ (Nmi => ~pend[c])

\* Mutant of Deliverable: on_each_cpu does not mask the IRQ.
DeliverableUnmasked(c) == pend[c] /\ irq[c] = "idle"

\* An IRQ waits while on_each_cpu runs its function with interrupts off; an NMI
\* does not.
Deliverable(c) == pend[c] /\ irq[c] = "idle" /\ (Nmi \/ ipc[c] = "none")

\* Mutant of BufferFull: > for >=.
BufferFullLate(b) == Len(samples[b]) > BufferEntries

\* b->num_samples >= BUFFER_ENTRIES
BufferFull(b) == Len(samples[b]) >= BufferEntries

\* The tick of the last sample in b.
Latest(b) == IF samples[b] = <<>> THEN 0 ELSE samples[b][Len(samples[b])][2]

\* PMU interrupts taken so far.
Interrupts == FoldFunction(LAMBDA m, n : m + n, 0, ticks)

\* No process is inside a write to status.
NoWriter == \A w \in Writers : wpc[w] = "idle"
-----------------------------------------------------------------------------
(***************************************************************************)
(* The state init_module leaves: every buffer in empty_buffers, in the     *)
(* order of allocation, all counters off, shutdown and status zero.        *)
(***************************************************************************)
Init ==
  /\ empty \in [1 .. Cardinality(Buffers) -> Buffers]
  /\ IsInjective(empty) /\ ToSet(empty) = Buffers
  /\ full = <<>>
  /\ lbuffer = [c \in Cpus |-> NULL]
  /\ core \in [Buffers -> Cpus] /\ \A a, b \in Buffers : core[a] = core[b]
  /\ samples = [b \in Buffers |-> <<>>]
  /\ missed = 0 /\ dropped = 0 /\ mtmp = [c \in Cpus |-> 0]
  /\ shutdown = 0 /\ status = 0 /\ notifier = "out"
  /\ enabled = [c \in Cpus |-> FALSE]
  /\ ccnt = [c \in Cpus |-> "off"]
  /\ flags = [c \in Cpus |-> FALSE]
  /\ pend = [c \in Cpus |-> FALSE]
  /\ irq = [c \in Cpus |-> "idle"]
  /\ ipi = [c \in Cpus |-> NULL] /\ ipc = [c \in Cpus |-> "none"]
  /\ rpc = [r \in Readers |-> "idle"] /\ rbuf = [r \in Readers |-> NULL]
  /\ wpc = [w \in Writers |-> "idle"] /\ todo = [w \in Writers |-> {}]
  /\ ticks = [c \in Cpus |-> 0] /\ seen = [c \in Cpus |-> 0]
-----------------------------------------------------------------------------
(***************************************************************************)
(* The hardware.                                                           *)
(***************************************************************************)

\* The cycle counter of c wraps: its overflow flag is set and the interrupt is
\* raised.  It keeps counting, now from zero.  A handler is shorter than a period
\* (at least MIN_PERIOD cycles); one period can end as soon as it has returned.
Overflow(c) ==
  /\ enabled[c] /\ ccnt[c] # "off" /\ ~pend[c] /\ irq[c] = "idle"
  /\ ticks[c] < MaxTicks /\ Interrupts < MaxInterrupts
  /\ ccnt' = [ccnt EXCEPT ![c] = "wrapped"]
  /\ flags' = [flags EXCEPT ![c] = TRUE]
  /\ pend' = [pend EXCEPT ![c] = TRUE]
  /\ UNCHANGED <<enabled, irq, poolVars, missVars, ticks, handlerKeeps>>
-----------------------------------------------------------------------------
(***************************************************************************)
(* The interrupt handler: sample_handle_irq on ARM, my_nmi_handler on      *)
(* Intel.  Both call gatherSample.                                         *)
(***************************************************************************)

\* sample_handle_irq up to gatherSample: acknowledge the cross-trigger
\* interface, stop the PMU, find the overflow flag set.
ArmIrqEntry(c) ==
  /\ ~Nmi /\ Deliverable(c) /\ flags[c]
  /\ pend' = [pend EXCEPT ![c] = FALSE]
  /\ enabled' = [enabled EXCEPT ![c] = FALSE]
  /\ irq' = [irq EXCEPT ![c] = "gather"]
  /\ UNCHANGED <<ccnt, flags, poolVars, missVars, ticks, handlerKeeps>>

\* The same with the overflow flag clear: "Possible interrupt error", return
\* IRQ_NONE.  The PMU has been stopped and stays stopped.
ArmIrqSpurious(c) ==
  /\ ~Nmi /\ Deliverable(c) /\ ~flags[c]
  /\ pend' = [pend EXCEPT ![c] = FALSE]
  /\ enabled' = [enabled EXCEPT ![c] = FALSE]
  /\ UNCHANGED <<ccnt, flags, irq, poolVars, missVars, ticks, handlerKeeps>>

\* my_nmi_handler up to gatherSample.  The overflow status it clears does not
\* include the bit of the cycle counter.  Without the notifier in the die chain
\* the kernel drops the NMI.
NmiEntry(c) ==
  /\ Nmi /\ Deliverable(c)
  /\ pend' = [pend EXCEPT ![c] = FALSE]
  /\ irq' = [irq EXCEPT ![c] = IF notifier = "out" THEN "idle" ELSE "gather"]
  /\ UNCHANGED <<enabled, ccnt, flags, poolVars, missVars, ticks, handlerKeeps>>

\* gatherSample: the CPU has a buffer in lbuffer.
GatherKeep(c) ==
  /\ irq[c] = "gather" /\ lbuffer[c] # NULL
  /\ irq' = [irq EXCEPT ![c] = "write"]
  /\ ticks' = [ticks EXCEPT ![c] = @ + 1]
  /\ UNCHANGED <<poolVars, pmuVars, missVars, handlerKeeps>>

\* Mutant of InitializeBuffer: num_samples is not reset.
InitializeBufferCoreOnly(b, c) ==
  /\ core' = [core EXCEPT ![b] = c]
  /\ UNCHANGED samples

\* initialize_buffer(b) on CPU c.
InitializeBuffer(b, c) ==
  /\ core' = [core EXCEPT ![b] = c]
  /\ samples' = [samples EXCEPT ![b] = <<>>]

\* gatherSample: pop an empty buffer, initialize it, make it the CPU's buffer.
GatherTake(c) ==
  /\ irq[c] = "gather" /\ lbuffer[c] = NULL /\ empty # <<>>
  /\ empty' = Tail(empty)
  /\ InitializeBuffer(Head(empty), c)
  /\ lbuffer' = [lbuffer EXCEPT ![c] = Head(empty)]
  /\ irq' = [irq EXCEPT ![c] = "write"]
  /\ ticks' = [ticks EXCEPT ![c] = @ + 1]
  /\ UNCHANGED <<full, pmuVars, missVars, handlerKeeps>>

\* gatherSample: no buffer.  missed_attr.value += 1 is a load and a store, with
\* no lock between CPUs; this is the load.
GatherMissLoad(c) ==
  /\ irq[c] = "gather" /\ lbuffer[c] = NULL /\ empty = <<>>
  /\ mtmp' = [mtmp EXCEPT ![c] = missed]
  /\ dropped' = dropped + 1
  /\ irq' = [irq EXCEPT ![c] = "miss"]
  /\ ticks' = [ticks EXCEPT ![c] = @ + 1]
  /\ UNCHANGED <<missed, poolVars, pmuVars, handlerKeeps>>

\* Mutant of GatherMissStore: the loaded value is stored back.
GatherMissStoreStale(c) ==
  /\ irq[c] = "miss"
  /\ missed' = mtmp[c]
  /\ mtmp' = [mtmp EXCEPT ![c] = 0]
  /\ irq' = [irq EXCEPT ![c] = "rearm"]
  /\ UNCHANGED <<dropped, poolVars, pmuVars, ticks, handlerKeeps>>

\* The store, and the return from gatherSample.
GatherMissStore(c) ==
  /\ irq[c] = "miss"
  /\ missed' = mtmp[c] + 1
  /\ mtmp' = [mtmp EXCEPT ![c] = 0]
  /\ irq' = [irq EXCEPT ![c] = "rearm"]
  /\ UNCHANGED <<dropped, poolVars, pmuVars, ticks, handlerKeeps>>

\* gatherSample: fill in the next sample of the CPU's buffer.
GatherWrite(c) ==
  /\ irq[c] = "write"
  /\ samples' = [samples EXCEPT ![lbuffer[c]] = Append(@, <<c, ticks[c]>>)]
  /\ irq' = [irq EXCEPT ![c] = "check"]
  /\ UNCHANGED <<empty, full, lbuffer, core, pmuVars, missVars, ticks, handlerKeeps>>

\* gatherSample: room is left in the buffer; return.
GatherMore(c) ==
  /\ irq[c] = "check" /\ ~BufferFull(lbuffer[c])
  /\ irq' = [irq EXCEPT ![c] = "rearm"]
  /\ UNCHANGED <<poolVars, pmuVars, missVars, ticks, handlerKeeps>>

\* Mutant of GatherPublish: the buffer goes to the head of the list.
GatherPublishFirst(c) ==
  /\ irq[c] = "check" /\ BufferFull(lbuffer[c])
  /\ full' = <<lbuffer[c]>> \o full
  /\ irq' = [irq EXCEPT ![c] = "detach"]
  /\ UNCHANGED <<empty, lbuffer, core, samples, pmuVars, missVars, ticks, handlerKeeps>>

\* gatherSample: the buffer is full; append it to full_buffers.
GatherPublish(c) ==
  /\ irq[c] = "check" /\ BufferFull(lbuffer[c])
  /\ full' = Append(full, lbuffer[c])
  /\ irq' = [irq EXCEPT ![c] = "detach"]
  /\ UNCHANGED <<empty, lbuffer, core, samples, pmuVars, missVars, ticks, handlerKeeps>>

\* gatherSample: forget the published buffer and wake the readers.
GatherDetach(c) ==
  /\ irq[c] = "detach"
  /\ lbuffer' = [lbuffer EXCEPT ![c] = NULL]
  /\ rpc' = Woken
  /\ irq' = [irq EXCEPT ![c] = "rearm"]
  /\ UNCHANGED <<empty, full, core, samples, pmuVars, ctlVars, missVars, rbuf,
                 seen, ipiVars, wpc, ticks>>

\* sample_handle_irq after gatherSample: rewrite the cycle counter unless
\* sampling is being stopped, and clear the overflow flags.
ArmRearm(c) ==
  /\ ~Nmi /\ irq[c] = "rearm"
  /\ ccnt' = [ccnt EXCEPT ![c] = IF shutdown = 0 /\ @ = "wrapped"
                                 THEN "armed" ELSE @]
  /\ flags' = [flags EXCEPT ![c] = FALSE]
  /\ irq' = [irq EXCEPT ![c] = "return"]
  /\ UNCHANGED <<enabled, pend, poolVars, missVars, ticks, handlerKeeps>>

\* Mutant of ArmReturn: the PMU is restarted without a test of shutdown.
ArmReturnAlways(c) ==
  /\ irq[c] = "return"
  /\ enabled' = [enabled EXCEPT ![c] = TRUE]
  /\ irq' = [irq EXCEPT ![c] = "idle"]
  /\ UNCHANGED <<ccnt, flags, pend, poolVars, missVars, ticks, handlerKeeps>>

\* The end of sample_handle_irq reads shutdown a second time: restart the PMU
\* unless sampling is being stopped.
ArmReturn(c) ==
  /\ irq[c] = "return"
  /\ enabled' = [enabled EXCEPT ![c] = shutdown = 0]
  /\ irq' = [irq EXCEPT ![c] = "idle"]
  /\ UNCHANGED <<ccnt, flags, pend, poolVars, missVars, ticks, handlerKeeps>>

\* Mutant of NmiReturn: the PMU is stopped without a test of shutdown.
NmiReturnStop(c) ==
  /\ Nmi /\ irq[c] = "rearm"
  /\ ccnt' = [ccnt EXCEPT ![c] = "armed"]
  /\ enabled' = [enabled EXCEPT ![c] = FALSE]
  /\ irq' = [irq EXCEPT ![c] = "idle"]
  /\ UNCHANGED <<flags, pend, poolVars, missVars, ticks, handlerKeeps>>

\* my_nmi_handler after gatherSample: rewrite the cycle counter; stop the PMU if
\* sampling is being stopped.
NmiReturn(c) ==
  /\ Nmi /\ irq[c] = "rearm"
  /\ ccnt' = [ccnt EXCEPT ![c] = "armed"]
  /\ enabled' = [enabled EXCEPT ![c] = @ /\ shutdown = 0]
  /\ irq' = [irq EXCEPT ![c] = "idle"]
  /\ UNCHANGED <<flags, pend, poolVars, missVars, ticks, handlerKeeps>>
-----------------------------------------------------------------------------
(***************************************************************************)
(* The functions on_each_cpu runs, with interrupts off on their CPU.       *)
(***************************************************************************)

\* Mutant of StartRecycle: the half-filled buffer is only forgotten.
StartRecycleLeak(c, w) ==
  /\ wpc[w] = "starting" /\ c \in todo[w] /\ ipc[c] = "none" /\ Runs(c)
  /\ ipi' = [ipi EXCEPT ![c] = w]
  /\ ipc' = [ipc EXCEPT ![c] = "clear"]
  /\ UNCHANGED <<empty, lbuffer, pmuVars, todo, crossKeeps>>

\* startCtrs, first half: give a half-filled buffer back.
StartRecycle(c, w) ==
  /\ wpc[w] = "starting" /\ c \in todo[w] /\ ipc[c] = "none" /\ Runs(c)
  /\ empty' = IF lbuffer[c] = NULL THEN empty ELSE Append(empty, lbuffer[c])
  /\ ipi' = [ipi EXCEPT ![c] = w]
  /\ ipc' = [ipc EXCEPT ![c] = "clear"]
  /\ UNCHANGED <<lbuffer, pmuVars, todo, crossKeeps>>

\* Mutant of StartClear: per_cpu(lbuffer, proc) keeps the buffer.
StartClearKept(c) ==
  /\ ipc[c] = "clear" /\ Runs(c)
  /\ ipc' = [ipc EXCEPT ![c] = "config"]
  /\ UNCHANGED <<empty, lbuffer, pmuVars, ipi, todo, crossKeeps>>

\* startCtrs: per_cpu(lbuffer, proc) = NULL
StartClear(c) ==
  /\ ipc[c] = "clear" /\ Runs(c)
  /\ lbuffer' = [lbuffer EXCEPT ![c] = NULL]
  /\ ipc' = [ipc EXCEPT ![c] = "config"]
  /\ UNCHANGED <<empty, pmuVars, ipi, todo, crossKeeps>>

\* startCtrsLocal: clear the overflow flags, write the cycle counter, enable.
StartConfig(c) ==
  /\ ipc[c] = "config" /\ Runs(c)
  /\ enabled' = [enabled EXCEPT ![c] = TRUE]
  /\ ccnt' = [ccnt EXCEPT ![c] = "armed"]
  /\ flags' = [flags EXCEPT ![c] = FALSE]
  /\ ipc' = [ipc EXCEPT ![c] = "none"]
  /\ ipi' = [ipi EXCEPT ![c] = NULL]
  /\ todo' = [todo EXCEPT ![ipi[c]] = @ \ {c}]
  /\ UNCHANGED <<pend, empty, lbuffer, crossKeeps>>

\* Mutant of StopLocal: the writer is not told that the call is done.
StopLocalSilent(c, w) ==
  /\ wpc[w] = "stopping" /\ c \in todo[w] /\ ipc[c] = "none" /\ Runs(c)
  /\ enabled' = [enabled EXCEPT ![c] = FALSE]
  /\ ccnt' = [ccnt EXCEPT ![c] = IF Nmi THEN @ ELSE "off"]
  /\ UNCHANGED <<flags, pend, empty, lbuffer, ipiVars, crossKeeps>>

\* stopCtrsLocal.  arm.c disables the cycle counter and its interrupt, then the
\* PMU.  intel.c clears the global control register; the event selection it clears
\* and the vector it masks do not matter while that is zero.
StopLocal(c, w) ==
  /\ wpc[w] = "stopping" /\ c \in todo[w] /\ ipc[c] = "none" /\ Runs(c)
  /\ enabled' = [enabled EXCEPT ![c] = FALSE]
  /\ ccnt' = [ccnt EXCEPT ![c] = IF Nmi THEN @ ELSE "off"]
  /\ todo' = [todo EXCEPT ![w] = @ \ {c}]
  /\ UNCHANGED <<flags, pend, empty, lbuffer, ipi, ipc, crossKeeps>>
-----------------------------------------------------------------------------
(***************************************************************************)
(* default_store on /sys/sync_pmu/status: process_status_update.  Nothing  *)
(* keeps two writers apart.                                                *)
(***************************************************************************)

\* a->value = value
StoreStatus(w, code) ==
  /\ wpc[w] = "idle"
  /\ code = 1 /\ ~Restart => shutdown = 2 \/ ccnt = [c \in Cpus |-> "off"]
  /\ status' = code
  /\ wpc' = [wpc EXCEPT ![w] = "switch"]
  /\ UNCHANGED <<shutdown, notifier, ipiVars, writerKeeps>>

\* case 1: the period is set, shutdown = 0.
SwitchStart(w) ==
  /\ wpc[w] = "switch" /\ status = 1
  /\ shutdown' = 0
  /\ wpc' = [wpc EXCEPT ![w] = "register"]
  /\ UNCHANGED <<status, notifier, ipiVars, writerKeeps>>

\* case 1: register_interrupt, then on_each_cpu(startCtrs).  On ARM the former
\* does nothing.  On Intel it puts my_nmi_notifier at the end of its priority
\* class of the die chain.
StartRegister(w) ==
  /\ wpc[w] = "register"
  /\ notifier' = IF Nmi THEN "in" ELSE notifier
  /\ todo' = [todo EXCEPT ![w] = Cpus]
  /\ wpc' = [wpc EXCEPT ![w] = "starting"]
  /\ UNCHANGED <<shutdown, status, ipi, ipc, writerKeeps>>

StartDone(w) ==
  /\ wpc[w] = "starting" /\ todo[w] = {}
  /\ wpc' = [wpc EXCEPT ![w] = "idle"]
  /\ UNCHANGED <<ctlVars, ipiVars, writerKeeps>>

\* case 0, stopAll: shutdown = 1, then on_each_cpu(stopCtrsLocal).
SwitchStop(w) ==
  /\ wpc[w] = "switch" /\ status = 0
  /\ shutdown' = 1
  /\ todo' = [todo EXCEPT ![w] = Cpus]
  /\ wpc' = [wpc EXCEPT ![w] = "stopping"]
  /\ UNCHANGED <<status, notifier, ipi, ipc, writerKeeps>>

\* stopAll: deregister_interrupt.
StopDeregister(w) ==
  /\ wpc[w] = "stopping" /\ todo[w] = {}
  /\ notifier' = "out"
  /\ wpc' = [wpc EXCEPT ![w] = "mark"]
  /\ UNCHANGED <<shutdown, status, ipiVars, writerKeeps>>

\* stopAll: shutdown = 2
StopMark(w) ==
  /\ wpc[w] = "mark"
  /\ shutdown' = 2
  /\ wpc' = [wpc EXCEPT ![w] = "wake"]
  /\ UNCHANGED <<status, notifier, ipiVars, writerKeeps>>

\* Mutant of StopWake: wake_up_all is not called.
StopWakeNot(w) ==
  /\ wpc[w] = "wake"
  /\ wpc' = [wpc EXCEPT ![w] = "idle"]
  /\ UNCHANGED <<ctlVars, ipiVars, writerKeeps>>

\* stopAll: wake_up_all(&read_queue)
StopWake(w) ==
  /\ wpc[w] = "wake"
  /\ rpc' = Woken
  /\ wpc' = [wpc EXCEPT ![w] = "idle"]
  /\ UNCHANGED <<poolVars, pmuVars, ctlVars, missVars, rbuf, seen, ipiVars, irq,
                 ticks>>

\* case 2 prints registers.
SwitchDump(w) ==
  /\ wpc[w] = "switch" /\ status = 2
  /\ wpc' = [wpc EXCEPT ![w] = "idle"]
  /\ UNCHANGED <<ctlVars, ipiVars, writerKeeps>>

\* default: status_attr.value = !shutdown
SwitchUnknown(w) ==
  /\ wpc[w] = "switch" /\ status \notin {0, 1, 2}
  /\ status' = IF shutdown = 0 THEN 1 ELSE 0
  /\ wpc' = [wpc EXCEPT ![w] = "idle"]
  /\ UNCHANGED <<shutdown, notifier, ipiVars, writerKeeps>>
-----------------------------------------------------------------------------
(***************************************************************************)
(* my_read with a large enough count.  A smaller count, and a call while   *)
(* shutdown is not 0, return at once and change nothing.                   *)
(***************************************************************************)

ReadCall(r) ==
  /\ rpc[r] = "idle" /\ shutdown = 0
  /\ rpc' = [rpc EXCEPT ![r] = "wait"]
  /\ UNCHANGED <<empty, full, rbuf, seen, readerKeeps>>

\* wait_event_interruptible: pop_blist(&full_buffers) returned a buffer.
ReadPop(r) ==
  /\ rpc[r] = "wait" /\ full # <<>>
  /\ full' = Tail(full)
  /\ rbuf' = [rbuf EXCEPT ![r] = Head(full)]
  /\ seen' = [seen EXCEPT ![core[Head(full)]] = Latest(Head(full))]
  /\ rpc' = [rpc EXCEPT ![r] = "copy"]
  /\ UNCHANGED <<empty, readerKeeps>>

\* wait_event_interruptible: no buffer, but shutdown == 2; return 0.
ReadEof(r) ==
  /\ rpc[r] = "wait" /\ full = <<>> /\ shutdown = 2
  /\ rpc' = [rpc EXCEPT ![r] = "idle"]
  /\ UNCHANGED <<empty, full, rbuf, seen, readerKeeps>>

\* wait_event_interruptible: the condition is false; sleep.  The reader is on
\* the queue before it evaluates the condition, so no wake-up falls between.
ReadSleep(r) ==
  /\ rpc[r] = "wait" /\ full = <<>> /\ shutdown # 2
  /\ rpc' = [rpc EXCEPT ![r] = "asleep"]
  /\ UNCHANGED <<empty, full, rbuf, seen, readerKeeps>>

\* wait_event_interruptible: a signal; return 0.
ReadInterrupted(r) ==
  /\ rpc[r] = "asleep"
  /\ rpc' = [rpc EXCEPT ![r] = "idle"]
  /\ UNCHANGED <<empty, full, rbuf, seen, readerKeeps>>

\* copy_to_user, whose failure changes only the return value, then
\* append_blist(&empty_buffers, b).
ReadReturn(r) ==
  /\ rpc[r] = "copy"
  /\ empty' = Append(empty, rbuf[r])
  /\ rbuf' = [rbuf EXCEPT ![r] = NULL]
  /\ rpc' = [rpc EXCEPT ![r] = "idle"]
  /\ UNCHANGED <<full, seen, readerKeeps>>
-----------------------------------------------------------------------------
Gather(c) ==
  \/ GatherKeep(c) \/ GatherTake(c) \/ GatherMissLoad(c) \/ GatherMissStore(c)
  \/ GatherWrite(c) \/ GatherMore(c) \/ GatherPublish(c) \/ GatherDetach(c)

Handler(c) ==
  \/ ArmIrqEntry(c) \/ ArmIrqSpurious(c) \/ NmiEntry(c)
  \/ Gather(c)
  \/ ArmRearm(c) \/ ArmReturn(c) \/ NmiReturn(c)

CrossCall(c) ==
  \/ \E w \in Writers : StartRecycle(c, w) \/ StopLocal(c, w)
  \/ StartClear(c) \/ StartConfig(c)

StatusUpdate(w) ==
  \/ SwitchStart(w) \/ StartRegister(w) \/ StartDone(w)
  \/ SwitchStop(w) \/ StopDeregister(w) \/ StopMark(w) \/ StopWake(w)
  \/ SwitchDump(w) \/ SwitchUnknown(w)

Read(r) == ReadPop(r) \/ ReadEof(r) \/ ReadSleep(r) \/ ReadReturn(r)

Next ==
  \/ \E c \in Cpus : Overflow(c) \/ Handler(c) \/ CrossCall(c)
  \/ \E w \in Writers : StatusUpdate(w) \/ \E code \in Codes : StoreStatus(w, code)
  \/ \E r \in Readers : Read(r) \/ ReadCall(r) \/ ReadInterrupted(r)

Spec == Init /\ [][Next]_vars

(***************************************************************************)
(* Fairness.  A CPU that has an instruction, an interrupt or an            *)
(* inter-processor call to execute executes one; a process in my_read or   *)
(* process_status_update goes on.  Nothing makes the counter overflow, a   *)
(* process call read or write to status, or a signal arrive.               *)
(***************************************************************************)
Fairness ==
  /\ \A c \in Cpus : WF_vars(Handler(c) \/ CrossCall(c))
  /\ \A w \in Writers : WF_vars(StatusUpdate(w))
  /\ \A r \in Readers : WF_vars(Read(r))

LiveSpec == Spec /\ Fairness
-----------------------------------------------------------------------------
(***************************************************************************)
(* Safety.                                                                 *)
(***************************************************************************)

Typed ==
  /\ empty \in Seq(Buffers) /\ full \in Seq(Buffers)
  /\ lbuffer \in [Cpus -> Buffers \cup {NULL}]
  /\ core \in [Buffers -> Cpus]
  /\ samples \in [Buffers -> Seq(Sample)]
  /\ missed \in Nat /\ dropped \in Nat /\ mtmp \in [Cpus -> Nat]
  /\ shutdown \in 0 .. 2 /\ status \in 0 .. 3 /\ notifier \in {"out", "in"}
  /\ enabled \in [Cpus -> BOOLEAN] /\ flags \in [Cpus -> BOOLEAN]
  /\ pend \in [Cpus -> BOOLEAN]
  /\ ccnt \in [Cpus -> {"off", "armed", "wrapped"}]
  /\ irq \in [Cpus -> {"idle", "gather", "write", "check", "detach", "miss",
                      "rearm", "return"}]
  /\ ipi \in [Cpus -> Writers \cup {NULL}]
  /\ ipc \in [Cpus -> {"none", "clear", "config"}]
  /\ rpc \in [Readers -> {"idle", "wait", "asleep", "copy"}]
  /\ rbuf \in [Readers -> Buffers \cup {NULL}]
  /\ wpc \in [Writers -> {"idle", "switch", "register", "starting", "stopping",
                         "mark", "wake"}]
  /\ todo \in [Writers -> SUBSET Cpus]
  /\ ticks \in [Cpus -> Nat] /\ seen \in [Cpus -> Nat]

\* Every variable has its type, and no buffer ever holds more than
\* BUFFER_ENTRIES samples: gatherSample never writes past samples[].
TypeOK == Typed /\ \A b \in Buffers : Len(samples[b]) <= BufferEntries

\* CPU c may write to the buffer in lbuffer[c].  Between append_blist and the
\* assignment of NULL the pointer is still there but the buffer is not c's.
Uses(c) == lbuffer[c] # NULL /\ irq[c] # "detach" /\ ipc[c] # "clear"

Held == {lbuffer[c] : c \in {d \in Cpus : Uses(d)}}
BeingRead == {rbuf[r] : r \in {q \in Readers : rpc[q] = "copy"}}

\* No buffer is in two places: neither twice in a list or in both lists, nor in
\* a list while a CPU records into it or a reader copies it, nor with two CPUs
\* or two readers, or with a CPU and a reader.  The lists are threaded through
\* nextBuffer, so a buffer in two of them corrupts both.
OneOwner ==
  /\ IsInjective(empty) /\ IsInjective(full)
  /\ ToSet(empty) \cap ToSet(full) = {}
  /\ (Held \cup BeingRead) \cap (ToSet(empty) \cup ToSet(full)) = {}
  /\ Held \cap BeingRead = {}
  /\ \A c, d \in Cpus : Uses(c) /\ Uses(d) /\ lbuffer[c] = lbuffer[d] => c = d
  /\ \A q, r \in Readers :
       rpc[q] = "copy" /\ rpc[r] = "copy" /\ rbuf[q] = rbuf[r] => q = r

\* No buffer is lost, whatever path it takes: through an interrupted or failed
\* read, a restart, a stop.
NoneLost == Buffers = ToSet(empty) \cup ToSet(full) \cup Held \cup BeingRead

\* Every buffer is in exactly one place at any time, under any interleaving of
\* interrupts, restarts, stops, failing reads and concurrent writers to status.
OnePlace == OneOwner /\ NoneLost

First(b) == samples[b][1][2]

\* A buffer holds an unbroken run of samples of one CPU, the one in b->core: an
\* interrupt that finds no buffer falls between two buffers and never inside
\* one, also when the buffer was recycled half filled.  What readers get has
\* exactly BUFFER_ENTRIES samples.
WholeRuns ==
  /\ \A b \in Buffers : \A i \in 1 .. Len(samples[b]) :
       samples[b][i] = <<core[b], First(b) + i - 1>>
  /\ \A b \in ToSet(full) \cup BeingRead : Len(samples[b]) = BufferEntries
  /\ \A c \in Cpus :
       Uses(c) => /\ core[lbuffer[c]] = c
                  /\ samples[lbuffer[c]] # <<>> /\ irq[c] # "write" =>
                       Latest(lbuffer[c]) = ticks[c]

\* The samples of one CPU reach the readers in the order they were taken, over
\* buffers published by several CPUs, fetched by several readers, recycled and
\* published again.
DeliveryOrder ==
  \A i \in DOMAIN full :
    /\ seen[core[full[i]]] < First(full[i])
    /\ \A j \in DOMAIN full :
         i < j /\ core[full[i]] = core[full[j]] => Latest(full[i]) < First(full[j])

\* Once a buffer is in full_buffers nobody changes it until a reader has copied
\* it to user space: no late interrupt, no restart, no other reader.
HandedOver ==
  [][\A b \in ToSet(full) \cup BeingRead :
       samples'[b] = samples[b] /\ core'[b] = core[b]]_vars

\* A sleeping reader never misses its wake-up: when it sleeps although there is
\* something to return, a CPU is about to call wake_up_all after a publication,
\* or stopAll is about to call it after setting shutdown.
NoLostWakeup ==
  \A r \in Readers : rpc[r] = "asleep" =>
    /\ full # <<>> => \E c \in Cpus : irq[c] = "detach"
    /\ shutdown = 2 => \E w \in Writers : wpc[w] = "wake"

\* missed_attr.value += 1 may lose updates of two CPUs, but never counts an
\* interrupt that did get a buffer, and is not zero once one was dropped.
MissedBounds ==
  /\ missed <= dropped
  /\ dropped > 0 /\ (\A c \in Cpus : irq[c] # "miss") => missed > 0

\* When stopAll has returned and nobody writes to status, no PMU counts, not
\* even one whose interrupt was pending or in its handler at the time.
StoppedIsQuiet == shutdown = 2 /\ NoWriter => \A c \in Cpus : ~enabled[c]

\* While the sampler runs, every CPU that was started keeps counting between
\* interrupts.  arm.c:231 and intel.c:116: "Overflow once every 'period' cycles".
KeepsSampling ==
  shutdown = 0 /\ NoWriter =>
    \A c \in Cpus : ccnt[c] # "off" /\ irq[c] = "idle" /\ ~pend[c] => enabled[c]

\* A reader is told on which CPU the samples of a buffer were taken.
\* sender/protocol.txt:22 has one core id for all samples of a packet:
\* "Byte 2:  core id".
CoreIdIsTrue ==
  \A b \in BeingRead : \A i \in DOMAIN samples[b] : samples[b][i][1] = core[b]
-----------------------------------------------------------------------------
(***************************************************************************)
(* The pool goes round as BufferLifecycle says.                            *)
(***************************************************************************)
Lifecycle == INSTANCE BufferLifecycle WITH
  free    <- ToSet(empty),
  ready   <- full,
  holding <- [c \in Cpus |-> IF Uses(c) THEN lbuffer[c] ELSE NULL],
  reading <- rbuf,
  fill    <- [b \in Buffers |-> Len(samples[b])]

\* The interrupts, cross calls, readers and writers together implement the life
\* cycle of BufferLifecycle.
ImplementsLifecycle == Lifecycle!Spec
-----------------------------------------------------------------------------
(***************************************************************************)
(* Liveness.                                                               *)
(***************************************************************************)

\* A write to status returns: every CPU answers the inter-processor call, also
\* one that is in its interrupt handler.
StatusReturns == \A w \in Writers : wpc[w] # "idle" ~> wpc[w] = "idle"

\* Stopping releases the readers: a process in read(2) gets a buffer or end of
\* file, unless sampling is started again.
StopReleasesReaders ==
  \A r \in Readers : shutdown = 2 /\ rpc[r] # "idle" ~> rpc[r] = "idle" \/ shutdown # 2
=============================================================================
