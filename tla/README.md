# Verification of pmu_sync_sampler

`pmu_sync_sampler` samples the performance counters of every CPU at a fixed
number of cycles. A kernel module (`src/module/`) takes the samples in the PMU's
overflow interrupt and hands them out, a buffer at a time, through
`/dev/pmu_samples`. A user program (`src/sender/`) reads the buffers, cuts them
into packets and writes them to a file or a socket; other programs
(`src/reader/`) decode and split the packets.

This directory holds TLA+ models of that code, TLC configurations that check
them on small instances, and proofs for all instances that the TLA+ proof system
checks. `PROJECT.json` maps each definition to the lines it models and lists
runs, mutants, hazards, findings and theorems.

## 1. Inventory

| component | source | state | operations | hard part |
|---|---|---|---|---|
| buffer pool and sampling | `module/pmu_sync_sample_main.c` | `empty_buffers`, `full_buffers`, per-CPU `lbuffer`, contents of the buffers, `missed` | `gatherSample`, `startCtrs`, `my_read` | interrupts on all CPUs and readers share the lists; a pointer and a list change in separate steps |
| start and stop | same | `shutdown`, `status_attr.value` | `process_status_update`, `stopAll`, `on_each_cpu` | several writers, cross calls against interrupts, wake-ups |
| ARM PMU and interrupt | `module/arm.c` | enable bit, cycle counter, overflow flags, pending IRQ | `sample_handle_irq`, `startCtrsLocal`, `stopCtrsLocal` | `shutdown` is tested twice; flags are cleared while an IRQ is pending |
| Intel PMU and NMI | `module/intel.c` | global control MSR, die-chain notifier | `my_nmi_handler`, `register_interrupt`, `startCtrsLocal`, `stopCtrsLocal` | NMIs cannot be masked |
| linked lists | `module/pmu_sync_sample_main.c:21-82` | `head`, `tail`, `nextBuffer`, spin lock | `append_blist`, `pop_blist` | empty and one-element lists; NMI inside the critical section |
| load and unload | `init_module`, `cleanup_module`, `initialize_arch`, `cleanup_arch` | all of the above | | unload while others are inside; failed initialization |
| ARMv7 PMU registers | `module/v7_pmu.S` | PMU registers | enable, disable, reset, configure | 32-bit arithmetic of cycles |
| packetizer | `sender/packet.cpp` | packet under construction, item count | `packet_start_batch`, `packet_should_create`, `packet_append`, `packet_create`, `packet_read` | packets of a batch must tile the buffer |
| process information | `sender/process_info.cpp` | cache from pid to names, `earliest_zygote` | `getProcessInfo`, `load_process_info` | names that change, end or are read in two parts |
| sender | `sender/sender.cpp`, `sender/network.cpp` | streams, buffer, byte limit | `main`, `sample_device`, `network_send`, `transmit` | end of file, failed reads, streams read once |
| attributes | `module/pmu_sync_sample_main.c` | `period`, counter selectors, `missed` | `default_store`, `default_show` | written while the CPUs use the values |
| reader, splitter | `reader/*.cpp` | position in the recording, one output file per process, an index | `read_file`, `process_packet`, `CoreOutput` | a recording may end at any byte; the outputs of all cores append to one file |

How they interact. The PMU of a CPU overflows and interrupts the CPU.
`gatherSample` appends a sample to the CPU's buffer; when the buffer is full it
goes to `full_buffers` and sleeping readers are woken. `my_read` pops a buffer,
copies it to user space and appends it to `empty_buffers`, from where a CPU that
has no buffer takes it. A write to `/sys/sync_pmu/status` starts or stops the PMUs
with a function every CPU runs in an inter-processor call. The sender is one
such reader; a script (`example_run.sh`) writes to `status`, twice with 1.

What makes each part correct:

- pool: every buffer is in one place; none is lost; readers get complete
  buffers of consecutive samples of one CPU, in order, and nobody changes them
  meanwhile; what could not be recorded is counted;
- start and stop: a stop silences every PMU and releases every reader; a start
  makes every CPU sample; a write to `status` returns;
- interrupt handlers: they leave the PMU armed, unless sampling is being stopped;
- lists: a list is a FIFO queue whatever contexts use it, and whoever enters its functions leaves them;
- load and unload: no buffer is used after it was freed, none is left behind;
- registers: each sample counts its own window, and a stopped PMU is silent;
- packetizer: the packets of a batch contain each sample once, in order, with the
  right core and process; decoding returns what was encoded;
- process information: a name belongs to the process that has the pid;
- sender: every buffer read is sent once; the program ends;
- splitter: every sample decoded is filed once under its process, sections of
  different cores and times stay apart, the index is complete; the program ends.

## 2. Plan

1. `PmuSampler` (done): the kernel driver, on ARM and Intel, with its proofs.
2. `ProcessInfo`, `Packet`, `Sender` (done): the user program that reads the
   driver, composed of its cache, its packet and its loops, with their proofs.
3. `PacketReader`, `Splitter` (done): decoding of a recorded file that may end
   anywhere, and the files per process.
4. `ArmPmu` (done): the ARMv7 registers, call by call, and their arithmetic.
5. `Blist`, `BufferQueues`, `DriverLifetime` (done): the lists on `head`, `tail` and
   `nextBuffer` under the spin lock, refining queues, used by the whole driver from
   load to unload on both architectures.
6. Proofs (done, section 6): every safety property of the driver, of the cache, of the
   sender, of the registers, of the lists and of the splitter, and both refinements.
7. Next: abstract specifications of the sender (a stream of the samples read) and of the
   splitter (a file per process), refined by `Sender` and `Splitter`, so that what the
   driver records can be followed to the files in one statement.

## 3. Modules

- `BufferLifecycle`: the promise of the pool. A buffer is free, held by a CPU,
  ready or being read; only its holder records in it; only a complete buffer
  becomes ready; ready buffers leave in the order they came.
- `PmuSampler`: the driver.
- `MCPmuSampler`: `PmuSampler` with the symmetry used by TLC.
- `ProcessInfo`: the process cache and the files in `/proc` it reads.
- `Packet`: the packet under construction.
- `Sender`: the program, composed of the two modules before it and a device.
- `PacketReader`: `packet_read` on the bytes of a file, without state.
- `Splitter`: the splitter over it; `MCSplitter` has the packets TLC records.
- `ArmPmu`: the PMU of one ARM CPU and the functions that program it.
- `BufferQueues`: the promise of the lists, a queue each.
- `Blist`: the lists as linked structures behind a spin lock.
- `DriverLifetime`: `Blist` used by interrupts, `startCtrs`, `my_read`, `init_module`
  and `cleanup_module`; `MCLifetime` is its instance.
- `PmuSampler_proofs` (types, wakeups, counting, stops, ownership) and `PmuContents_proofs`
  (contents, order, refinement), which extends it: theorems about `PmuSampler`.
- `ArmPmu_proofs`, `ProcessInfo_proofs`, `Sender_proofs`, `Splitter_proofs`,
  `Lifetime_proofs`: theorems about `ArmPmu`, `ProcessInfo`, `Sender`, `Splitter` and
  `DriverLifetime` with `Blist`.
- `DataInduction`: induction, recursive functions and folds over sequences, as lemmas for
  `Sender_proofs`, `Splitter_proofs` and `Lifetime_proofs`.

The driver is seen at three distances. `PmuSampler` has all actors and takes a
critical section of a list, and a function that programs the PMU, as one step. `Blist`
with `DriverLifetime` opens the critical sections, `ArmPmu` the programming of the
PMU; each leaves out what the others have.

### PmuSampler

A step is one access to memory that another actor can see. The correspondence:

| code | model |
|---|---|
| `empty_buffers`, `full_buffers` | sequences `empty`, `full`; a critical section of `append_blist` or `pop_blist` is one step |
| `per_cpu(lbuffer, c)` | `lbuffer[c]` |
| `b->core`, `b->samples[0 .. num_samples-1]` | `core[b]`, `samples[b]`; a sample is the CPU that wrote it and the number of its interrupt |
| `missed_attr.value`, a handler's register | `missed`, `mtmp[c]`: the increment is a load and a store |
| `shutdown`, `status_attr.value` | `shutdown`, `status` |
| PMU enable bit, cycle counter, its overflow flag, raised interrupt | `enabled`, `ccnt`, `flags`, `pend` |
| position in the interrupt handler | `irq[c]`: `gather` `write` `check` `detach` `miss` `rearm` `return` |
| position in `startCtrs` | `ipc[c]`: `clear` `config` |
| CPUs `on_each_cpu` still waits for | `todo[w]` |
| position in `my_read`, its `b` | `rpc[r]`, `rbuf[r]` |
| position in `process_status_update` | `wpc[w]` |

`gatherSample` is `GatherKeep`, `GatherTake`, `GatherMissLoad`,
`GatherMissStore`, `GatherWrite`, `GatherMore`, `GatherPublish` and
`GatherDetach`. In `GatherPublish` the buffer is in `full` while `lbuffer`
still points to it; `StartRecycle` does the same with `empty`. The operator
`Uses` says when the pointer counts.

`Nmi` selects the architecture. On ARM the interrupt waits while the CPU runs
the function of an inter-processor call (`Deliverable`); on Intel it does not, and
a CPU with a due NMI executes nothing else first (`Runs`). On ARM the handler
stops the PMU on entry and starts it on return; on Intel the PMU runs through.

Where the model allows more than the machine: an ARM interrupt that is pending
may be taken after an inter-processor call that came later; readers and writers
are not bound to CPUs. Where it assumes something: a handler
is shorter than a period, so a counter does not overflow again inside it
(`MIN_PERIOD` is there for that); the PMU is the only source of NMIs; nobody
writes to the attribute `missed`; the module stays loaded.

History variables `ticks`, `dropped` and `seen` number the interrupts, count
those without a buffer and record what was delivered. No guard but the bound on
`ticks` reads them.

### ProcessInfo

| code | model |
|---|---|
| `procMap` | `procMap`; a pid never looked up has the entry the constructor makes |
| `flags.cmdexe`, `flags.zygote` | `cflag`, `cchecks`, `zflag`, `zchecks` |
| `earliest_zygote` | `earliest_zygote` |
| the call in progress, its branch (lines 42, 61, 81) and what it has read | `call` |
| `/proc/<pid>/cmdline`, `/proc/<pid>/exe` | functions `Cmdline`, `Executable` of `proc[pid]` |

A name is one of a few constants: empty, `zygote`, that of another program, and
the text the code stores when it cannot open the file. A load is two steps,
`ReadCmdline` and `ReadExecutable`; processes start, rename themselves, exit and
are waited for at any moment (`Turn`). Pid 0 is the idle task, which samples name
and `/proc` does not. The two ways a read can fail, a file that cannot be opened and
one that fails while read, are one; the second needs an I/O error of `/proc`.

### Packet and Sender

| code | model |
|---|---|
| `header`, `samples[]`, `current_index` | the same; `counters` is a constant and left out |
| `info.cmdline`, `info.exe` | `info`, the pid into whose entry they point; the strings are fetched by `PacketOf` |
| position in `main`, `sample_device`, `network_send` | `round`, `pc`, `index` |
| `b`, `count`, `missed_count`, `initial_missed`, `outbytes`, `sent`, `sent_total` | the same |
| the socket | `wire`, the packets sent |
| `/dev/pmu_samples` | a full buffer, a failure or the end of file at each `fread` |
| `/sys/sync_pmu/missed` | `missed`, which the driver counts up, and `missedRead`: the stream delivers its value once |

A buffer's samples are pids with a running number. `NULL` in `b` is a buffer that
was never written: if the third round reads none, the code sends what is on the
stack, so `SendStart` picks any contents, or the assertion of `network_send`
fails. `TransmitFails` stands for every error of `transmit`. The size of a packet
is 1 for header and names and 1 for each sample, and `Kbytes` is in that unit.

`Fread` has what every `fread` leads to. `FreadFails` is the one that `my_read` answers with
`-EINVAL`: `b` keeps what it had and `feof(f)` stays false, so the loop sends it and reads
again (`sender.cpp:222-226`). After `FreadEof` it sends what it had once more and then ends.

`got`, `reads` and `baseline` are history: `reads` has, for each read of the third round, the
buffer it delivered or `NULL`. `fails` and `turns` count towards bounds.

### PacketReader and Splitter

| code | model |
|---|---|
| the mapped file and what `packet_write` put into it | `file`, a sequence of bytes numbered from 0; `written`, the packets; `Encode` |
| the rest of the file's last page, which reads as 0 | `padded`: there is room for two zeros behind the file, or none |
| `position` of `read_file_loop`, the packet it decoded | `position`, `pkt` |
| `pid_files`, the streams in it | `pid_files`, from pid to the names for the index; `content`, what was written |
| `currFile`, `last_head`, `has_last_head` of a `CoreOutput` | `currFile`, `last_pid` per core |
| `index.csv` | `index` |

A field or sample of several bytes is one byte here, and fields of the header no output
depends on are left out; the bytes that are left are counted as the code counts them.
The samples of the k-th packet are numbered from `MaxQuantity * k` + 1, so that a sample tells
which packet it came with (`PacketOf`); no action looks at the numbers.
`ReadInfo` has the unsigned `--n` that wraps when the command line ends with the file.
`Skip`, `AssertFails`, `Continue`, `SwitchTo`, `OpenFor` and `OpenFails` are the
branches of `process_packet` and `checkIncrFile`. The recording may lose any number of
bytes of its last packet (`StartSplitter`). `NamesFault` and `StringFault` are reads past
the mapped pages, which kill the program.

### ArmPmu

| code | model |
|---|---|
| PMCR.E, CNTENS, INTENS, FLAGS, PMNXSEL, CCNT, PMNx, EVTSELx | fields of `r`; bit 31 is the bit `CCNT` |
| a routine of `v7_pmu.S` | an operator from registers to registers |
| `startCtrsLocal`, `stopCtrsLocal`, `sample_handle_irq` | the sequences of calls they make, taken one by one by `Step` |
| position in them | `running`, `code` |
| `s->cycles`, `s->counters` | `Gathered` |
| `period`, `shutdown`, the attributes' values | the same |
| position in `process_status_update`, the call `on_each_cpu` waits for | `writer`, `ipi` |

Between any two calls a cycle may pass (`Cycle`), in which any events occur, and another
process may store a period or a selector. `armed`, `elapsed` and `occurred` are history:
the period the counter was started with, the cycles and the events since.

### Blist and DriverLifetime

| code | model |
|---|---|
| `list->head`, `list->tail`, `b->nextBuffer`, `list->lock` | `head`, `tail`, `nextBuffer`, `lock` |
| a call of `append_blist` or `pop_blist`: position, `list`, `b` or `ret` | `op[x]` of the context x |
| contexts | a CPU with `irq`, `ipi`, `admin` (loads, starts, stops, unloads) or `reader` |
| position in the caller | `at[x]` |
| allocated buffers, their `num_samples` | `alive`, `num` |
| PMU enable bit, raised interrupt, overflow flag | `counting`, `pending`, `flags` |
| interrupt requested (ARM), notifier registered (Intel) | `installed` |
| device and attributes exist | `opened` |

An interrupt holds up what it interrupted (`Running`), and a CPU that masks interrupts
(`Masked`) takes none, except NMIs. `Load`, `LoadRefused` and `AllocateFails` are the
failures of `init_module`. Taking an interrupt handler out waits for the handlers that
run (`HandlersOut`), as `free_irq` and `unregister_die_notifier` do. `Interrupt` is an interrupt whose handler
calls `gatherSample`; in `Unexplained` the ARM handler finds no overflow flag, as a start has cleared it,
and returns `IRQ_NONE` with the PMU stopped (`arm.c:82-90`). `ReadInterrupted` is a signal that ends the sleep in
`my_read`.

1 can be written to `status` at any time, and `process_status_update` has no guard against it
(`pmu_sync_sample_main.c:280-293`); `example_run.sh` does so twice, with no stop in between. The constant
`Restarts` says on which builds a running sampler is started again; on the others `Start` waits for a
stop. On Intel a restart breaks the lists (section 5), so the theorems are under
`IntelStopsFirst == "intel" \notin Restarts`. The sequence of starts and
stops is that of one process; several are the matter of `PmuSampler`. A `status`
written while the module is being loaded is left out, too.

## 4. Runs

The runs of the driver have 2 CPUs, 2 buffers and 2 samples per buffer.

| run | instance | states | shows |
|---|---|---|---|
| `ArmPool` | ARM, 1 reader, 1 writer, restarts, at most 4 interrupts per CPU and 5 in all | 0.9 million | `TypeOK`, `WholeRuns`, `DeliveryOrder`, `MissedBounds`; the driver implements `BufferLifecycle` |
| `ArmWriters` | ARM, 1 reader, 2 writers, restarts, 2 interrupts per CPU | 2.9 million | `OnePlace`, `NoLostWakeup` with concurrent starts and stops |
| `ArmLive` | ARM, 1 reader, 1 writer, all four codes, with fairness | 0.34 million | `StoppedIsQuiet`; `StatusReturns`, `StopReleasesReaders` |
| `IntelPool` | Intel, 2 readers, 1 writer, started only when stopped, at most 4 interrupts per CPU and 6 in all | 0.7 million | `OnePlace`, `WholeRuns` and `KeepsSampling` under NMIs |
| `ArmRegisters` | 1 CPU, 2 counters, periods 1 and 3, counters of 3 bits | 2.6 million | `CyclesOfWindow`, `OwnEvents`, `OverflowNear`, `SilentWhenStopped` |
| `Lifetime` | ARM with restarts, Intel started only when stopped; 2 CPUs, 2 buffers, 1 reader, 3 interrupts, 2 starts, with fairness | 0.22 million | `WellLinked`, `MemorySafe`; the lists implement `BufferQueues`; `OperationsEnd` |
| `ArmDeadCore` | ARM, restarts | stops at the violation | finding 1 |
| `IntelMixedCores` | Intel, restarts | stops at the violation | finding 2 |
| `ProcCache` | pids 0, 1, 2; 1 check; processes change at any time | 0.33 million | `ProcTypeOK`, `ZygoteOrder`, `BudgetSpent`, `SettledForGood` |
| `SenderBatches` | pids 1, 2; 4 buffers of 3 samples; 2 samples per packet; 1 read that fails, 1 change of a process or missed sample; with fairness | 1.5 million | `EachBufferOnce`, `BatchLayout`, `PacketsUniform`, `KernelIffNameless`, `InfoStable`, `NeverRefused`, `Accounted`; `Finishes` |
| `SenderMissed` | 1 pid, 3 buffers | stops at the violation | finding 3 |
| `SplitterFiles` | recordings of up to 4 packets, cut anywhere; 3 pids, 2 cores, 2 open files; with fairness | 0.36 million | `SamplesFiled`, `SectionsUnbroken`, `IndexComplete`; `SplitterEnds` |

The properties:

- `TypeOK`: types, and no buffer ever holds more than `BUFFER_ENTRIES` samples.
- `OnePlace`: each buffer is in exactly one list or with exactly one CPU or reader
  (`OneOwner`), and none is lost (`NoneLost`).
- `WholeRuns`: a buffer holds consecutive samples of the CPU in `b->core`; what a
  reader gets is full.
- `DeliveryOrder`: the samples of a CPU are delivered in the order they were
  taken.
- `NoLostWakeup`: a reader that sleeps in vain is about to be woken.
- `MissedBounds`: the unlocked counter never counts too much, and is not zero when
  something was dropped. It may count too little; that is as close as the code
  gets.
- `StoppedIsQuiet`: after `stopAll` returned no PMU counts.
- `KeepsSampling`: a CPU that was started counts between interrupts.
- `StatusReturns`, `StopReleasesReaders`: liveness of writers and of readers.

- `ZygoteOrder`: an entry flagged as zygote is at or after `earliest_zygote`.
- `BudgetSpent`: every load uses up a check, except those of a late zygote.
- `SettledForGood`: a name loaded without failure, other than zygote's, stays.
- `EachBufferOnce`: each read makes one batch. A packet of batch k has, from its `first_index` on,
  samples and core of the buffer that the last successful one of the first k reads delivered, and a batch
  that is over has all of them. So a buffer is sent once for the read that delivers it and once more for
  each failed read or end of file that follows, which is what the code does (section 5).
- `BatchLayout`, `PacketsUniform`: item and batch numbers tile, core and missed samples are those of the batch; a
  packet is of one process and is cut only where it must be.
- `KernelIffNameless`, `InfoStable`: flag and names of a packet, taken at different
  times, agree.
- `NeverRefused`: the sample fits once the packet before it was sent.
- `Accounted`: `outbytes` is the size of what was sent.
- `Finishes`: after end of file the program ends.

- `CyclesOfWindow`: the cycles of a sample are those since the counter was started, less
  one, shifted by a change of `period` in between.
- `OwnEvents`: each counter has the number of its own event since the last sample.
- `OverflowNear`: a counting PMU interrupts within `period` + 1 cycles, and not only after
  its counter went round.
- `SilentWhenStopped`: from the return of a stop to the next start the PMU's enable bit is
  off, whatever interrupt is still served: it alone keeps the counters still, as
  `disable_pmn` enables them.
- `WellLinked`, `ImplementsQueues`: `head`, `tail` and `nextBuffer` agree outside
  critical sections, and are a queue at every moment inside them.
- `OperationsEnd`: whoever enters a list function comes out, except on Intel an NMI that
  waits for a lock which its own CPU holds, or for one held by another CPU in the same
  situation.
- `MemorySafe`: no list, CPU or caller has a buffer that was freed; after `cleanup_module`
  nothing is allocated, installed or running.

- `SamplesFiled`: the file of a process has the samples of its packets, once and in order,
  however the process moves between cores.
- `SectionsUnbroken`: samples of a core are separated by a row of zeros when the core ran
  another process in between.
- `IndexComplete`: every packet whole in the recording has been filed, none that lacks samples,
  and the index names each file.
- `SplitterEnds`: the splitter ends with every recording.

`StoppedIsQuiet` is claimed for one writer. With two the
code can leave PMUs counting although `shutdown` is 2: nothing keeps a start
and a stop apart. No text of the repository promises otherwise.

Each property has a mutant in `PROJECT.json`, a plausible slip in one definition,
which TLC finds to violate it.

### Bounds

`MaxTicks` bounds the interrupts a CPU takes and `MaxInterrupts` those of all CPUs
together; both are in the guard of `Overflow`, and no other guard has a bound.
With 2 samples per buffer, 4 interrupts let one CPU fill both buffers, so that two
buffers of one CPU are in flight (needed for `DeliveryOrder`), and a buffer goes
round twice. With 2 buffers, 2 CPUs and a reader the pool runs out, so
the path without a buffer is taken, by both CPUs at once. `ArmWriters` has 2
interrupts per CPU: two writers multiply the states, and one publication per CPU
is enough to have every kind of buffer when they interleave. `Codes` contains
0 and 1 where dumping registers and unknown values add nothing, and every case in
`ArmLive`; 3 stands for all unknown values, which the code treats alike.

In `PmuSampler`, `Restart = TRUE` lets 1 be written while sampling is on, as `example_run.sh`
does at lines 27 and 42. `Restart = FALSE` is the discipline under which the
Intel driver is correct; under `TRUE` it is not (finding 2).

The symmetry used by the safety runs permutes CPUs, readers, writers and buffers. No
definition tells two of a kind apart; `Init` starts with every order of
`empty`. `ArmLive` uses no symmetry.

In `ProcCache` one check and three pids give an idle task, an earliest and a late zygote,
and counters that reach 0; nothing else is bounded. In `SenderBatches` the first two of the
4 buffers go to the test rounds; the other two are two batches, end of file adds a third. 3
samples and 2 per packet allow a packet cut because it is full, one cut because of
the process, and both. `MaxFails` = 1 makes a read fail in a test round, or before or after a
buffer of the third round. `MaxTurns` = 1 lets one process change, or the driver miss a
sample, between any two steps, beside any choice of processes at the start. `Kbytes` = 5 is
exceeded by a batch in three packets and not by one in two, so that the limit ends the program
or not. One core suffices, as a batch has one; it is not 0, the value in a cleared header.
Without fairness and with `Kbytes` = 10, which leaves room for a buffer, a failed read and the next
buffer, TLC finds the safety properties true in 7.9 million states.

In `ArmRegisters` a period of 3 is the usual one and a period of 1 is below `MIN_PERIOD`; 5
cycles until the interrupt is served let the counter pass its wrap by 3, and a
counter of 8 values shows wrapping sums. One of the two counters has an event from the
start; both have attributes, and the value 0 is the event that never occurs.

In `Lifetime` 3 interrupts let one CPU fill a buffer while the other has one half-filled, so that
lists have 0, 1 and 2 buffers; `kzalloc` may leave one buffer or none, so that they also find the
list empty, on both CPUs. A second start gives half-filled buffers back, on ARM with the CPUs
counting. The safety properties hold with 4 interrupts, too (0.51 million states), and `OperationsEnd`
holds with `Restarts` = {"arm", "intel"} (0.37 million). `ReadersClosed = TRUE` is the assumption that no process is inside `my_read` when the
module is removed.

In `SplitterFiles` 4 packets let a process leave a core and come back, meet another core in
between, and find its file used; the third process finds no stream left. Core ids 2 and 3 stand
for 16 and above. Names have one and two bytes, or none in the third packet, so that a cut falls
on every place of a packet.

### Fairness

`LiveSpec` has weak fairness for

- each CPU, of `Handler \/ CrossCall`: a CPU that has an interrupt or an
  inter-processor call to run, runs it, and goes on in the one it is in;
- each writer, of `StatusUpdate`: a process inside a write to `status` goes on;
- each reader, of `Read`: a process inside `my_read` that does not sleep goes on.

`SenderLiveSpec` has weak fairness for `Run`, all the steps the program makes by itself:
it is a process the scheduler runs. Waiting for the device in `fread` is not among them.

`SplitterSpec` has weak fairness for `Step`, the program's next step; the recording need not
end. `LifeSpec` has it for each context, inside the list functions and outside: the interrupts and
inter-processor calls of each CPU, each reader inside `my_read` and the process
inside a load, start, stop or unload. CPUs go on with what they have begun. For the steps that all contexts
but the readers make inside the list functions fairness is strong: a reader that is interrupted and reads
again for ever must not keep them from a lock, as the kernel's spin locks let those that wait
in, in turn. A load, start, stop, unload or read need not be called, and signals and overflows need not come.

In the driver there is none for overflows, for calls of `read` or `write`, or for signals:
nothing obliges them to happen. Interrupts cannot starve a cross call because
`MaxTicks` bounds them in the model, as the length of a period does in the machine.

## 5. Findings

1. `ArmDeadCore`. Sampling is on and status is set to 1 again. The counter of a
   CPU wraps while `startCtrs` runs on it with interrupts masked; `startCtrsLocal`
   clears the overflow flags (`arm.c:229`), the pending interrupt arrives,
   `sample_handle_irq` stops the PMU, finds no flag, and returns `IRQ_NONE`
   (`arm.c:87`) without starting it. This CPU samples no more, against
   `arm.c:231`: "Overflow once every 'period' cycles".
2. `IntelMixedCores`. Sampling is on and status is set to 1 again. `startCtrs`
   appends the CPU's buffer to `empty_buffers` and clears `lbuffer` only then. Between
   the two another CPU takes the buffer and an NMI makes `gatherSample` write to
   it. The reader gets samples of one CPU labelled with another, against
   `sender/protocol.txt:22`: "Byte 2:  core id".

3. `SenderMissed`. `main` opens `/sys/sync_pmu/missed` once and every turn reads it with
   `fgets`. The stream delivers the number to the first test round and is at its end
   from then on; the text buffer is zeroed in every call of `sample_device`. The third
   round sends 0 in every packet, against `sender/protocol.txt:25`: "samples missed FOR
   THIS ENTIRE BATCH", and `initial_missed` is 0 as well, against `sender.cpp:97`.

Without a run, in the sources beside the models:

- `network_send` evaluates `packet_empty()` for the lookup of a sample before it
  sends the packet that is complete (`network.cpp:36`). Only the first sample of a batch is
  looked up with checks, so a child of zygote that never comes first keeps the name
  `zygote`, against `process_info.cpp:78`: "UNLESS there is an earlier zygote. In which case
  we always check". `SendFull` and `Lookup` have this order.
- Samples of the idle task have pid 0, which is not in `/proc`; the cache
  stores the text `ifstream::fail()` as its name, so it counts as a user process, against
  `sender/protocol.txt:20`: "Byte 0:  1 if Kernel, 0 if User".
- `protocol.txt:43` and `45` say that the names are empty if the previous packet was
  of the same pid; the code always sends them (`write_info`).
- `disable_pmn` writes the register that enables counters (`v7_pmu.S:114`), although
  it says "Use arg (r0) to set which counter to disable". `ArmPmu.CountersOff` states
  that and is false. `SilentWhenStopped` says why nothing counts all the same.
- A sample's cycles are one less than the cycles that passed: the counter starts at
  `0xFFFFFFFF - period` (`arm.c:96`, `232`) and overflows after `period` + 1.
- `process_status_update` compares `period_attr.value` with `MIN_PERIOD` and reads it again
  (`pmu_sync_sample_main.c:282` and `287`); a value stored in between is used unchecked.
- On Intel `startCtrsLocal` does not zero the counters; the first sample after a start has
  what they counted before. The models have no counters on Intel.
- On Intel an NMI inside the critical section of a list may call `append_blist` or
  `pop_blist` on the same list and wait for ever: `spin_lock_irqsave` does not mask it.
  Without the exception in `OperationsEnd`, `Lifetime` ends with that trace.
- On Intel a start of a running sampler can break the lists. Between lines 251 and 252 of `startCtrs` the
  buffer is in `empty_buffers` and still in `lbuffer`; an NMI that fills it appends it to `full_buffers` as
  well (line 233), and `nextBuffer` has only one value. With `Restarts` = {"arm", "intel"} under the bounds of `Lifetime`,
  `WellLinked`, `MemorySafe` and `ImplementsQueues` are violated. It is the gap of finding 2, and
  `example_run.sh:42` makes such a start.
- After a read of the device that fails, the sender sends the buffer of before as a new batch, and after end of file
  once more: `sender.cpp:222-226` tests `feof` before the `fread` and never its result. In the
  first turn of the third round that is whatever was on the stack.
- `my_fops` has no owner, so the module can be removed while a process is in `my_read`. With
  `ReadersClosed = FALSE`, `MemorySafe` is violated: the reader uses freed buffers.
- `packet.h:33` says that `packet_read` "Returns 0 if everything went okay or 1 if more bytes
  are needed". A packet that ends inside its second name is accepted with
  0, as the padding of the page ends the name (`Splitter.MissingBytesReported`).
- A recorded packet with core id 16 is not skipped and reaches an assertion
  (`splitter_reader.cpp:198` and `202`).
- Every start on Intel without a stop registers `my_nmi_notifier` again
  (`intel.c:86`), which links it behind itself.

## 6. Proofs

Every safety property a passing run checks is a theorem, and so are the two refinements. The theorems hold for every value of the constants the
assumptions allow, and the bounds `MaxTicks`, `MaxInterrupts`, `MaxBuffers`, `MaxFails`,
`MaxTurns`, `MaxPackets` are any numbers; `MaxElapsed` is any number of cycles below a whole round of the counter. Each argument was first a set of invariants that
TLC checked on the run of its module.

They rest on the assumptions on constants of the modules (`PmuSamplerAssumption`,
`ArmPmuAssumption` and so on): buffers are finitely many, `NULL` is none of the things it is
compared with, buffers and packets have room for a sample, periods and start values fit the
cycle counter, and names have no NUL in them. TLC evaluates them for each instance.

### The driver

`PmuSampler_proofs`, on ARM and on Intel:

| theorem | statement |
|---|---|
| `Typing` | `Spec => []TypeInv`: types, and nobody dereferences `NULL` |
| `Wakeups` | `Spec => []NoLostWakeup` |
| `MissCounting` | `Spec => []MissedBounds` |
| `QuietWhenStopped` | `OneWriter`: `Spec => []StoppedIsQuiet` |
| `KeepsCounting` | `Nmi`, `OneWriter`, a writer exists: `Spec => []KeepsSampling` |

`PmuSampler_proofs` and, from `RunsAreWhole` on, `PmuContents_proofs`, under
`Undisturbed == ~Nmi \/ (~Restart /\ OneWriter)`:

| theorem | statement |
|---|---|
| `Placement` | `Spec => []OnePlace`; `Ownership` and `Conservation` are its halves |
| `NoOverrun` | `Spec => []TypeOK` |
| `Stable` | `Spec => HandedOver`: no step changes a buffer in `full_buffers` or in a reader's hands |
| `RunsAreWhole` | `Spec => []WholeRuns` |
| `OrderOfDelivery` | `Spec => []DeliveryOrder` |
| `CoreIds` | `Spec => []CoreIdIsTrue`, which `IntelMixedCores` violates |
| `Refinement` | `Spec => ImplementsLifecycle` |

- `TypeInv` adds to the types that the handler has a buffer from `write` to
  `detach`, and that a reader has one exactly while it copies. Without it
  `samples[lbuffer[c]]` has no type.
- `MissInv` adds to `MissedBounds` that a handler between load and store will
  store no more than the number of drops, its own included.
- `Masked`: a CPU in its handler is not in a function of `on_each_cpu`. All of
  ownership rests on it: it keeps `gatherSample` out of the gap between `append_blist` and
  `per_cpu(lbuffer, c) = NULL` in `startCtrs`. On ARM interrupts are masked there. On Intel
  it follows, for one writer that starts only a stopped sampler, from what the PMUs do
  while the writer is where it is; that is why `Undisturbed` is the hypothesis and why
  finding 2 needs a restart.
- `Pool` states ownership buffer by buffer with `Holds(c)`, the buffer CPU c
  may write to, so that each of the five steps that move a buffer
  (`PoolTake`, `PoolPublish`, `PoolPop`, `PoolReturn`, `PoolRecycle`) is one lemma;
  every other step leaves the four places alone (`PoolFrame`).
- `Room`: a holder that is not about to test `num_samples` has room for a sample.
  It needs `Pool`: a sample one CPU adds must not fill the buffer of another.
- `Contents == Unbroken /\ Complete /\ UpToDate /\ Ordered` relates the numbers in a buffer to
  `ticks` and to what is in `full` before it; a step of one CPU leaves the runs of the others
  alone because of `Pool`.
- `Phase` ties `shutdown` and the calls on other CPUs to the place of the only writer. With it `Quiet`
  carries a CPU that was stopped over a handler that was under way, and `Counting` says
  which CPUs were started.

### The registers

`ArmPmu_proofs`, for any width of the cycle counter, number of counters, periods and events:

| theorem | statement |
|---|---|
| `PmuTyping` | `PmuSpec => []PmuTypeOK` |
| `CyclesTrue` | `PmuSpec => []CyclesOfWindow` |
| `EventsTrue` | `PmuSpec => []OwnEvents` |
| `NextOverflow` | `PmuSpec => []OverflowNear` |
| `SilentAfterStop` | `PmuSpec => []SilentWhenStopped` |

`PmuInv == PmuTypes /\ Control /\ Disabled /\ Clock /\ Noticed /\ Counted`. Between two calls
of a routine none of the properties means anything, so the invariant speaks of how many
calls have been made (`At`): `Disabled` says between which calls the PMU is off, `Clock` that the
cycle counter shows how long ago it was written and with which period, `Noticed` that an overflow is not
lost but during the calls that clear it on purpose, `Counted` which
counters are set up already.

### The lists

`DriverLifetime` with `Blist`, in `Lifetime_proofs`, for any CPUs, readers and buffers, ARM
and Intel, one memory access at a time, under `IntelStopsFirst`: on ARM 1 may be written to `status` at any
time, on Intel sampling is started only when it was stopped. Without that they are false (section 5).

| theorem | statement |
|---|---|
| `ListsLinked` | `LifeSpec => []WellLinked` |
| `ListsAreQueues` | `LifeSpec => ImplementsQueues` |
| `NoBufferDangles` | `LifeSpec => []BuffersAlive`: no list, CPU, caller or reader refers to a buffer that is not allocated |
| `NothingLeft` | `ReadersClosed` too: `LifeSpec => []MemorySafe` |

`LifeInv` has twelve parts. `LockInv`, `CallInv`, `PhaseInv` and `ReaderInv` say who may be where;
`ChainInv` that the pointers of a list link the buffers of `Chain(l)` and end; `TailInv` that `tail`
is the last of them, or which step of the one context inside the critical section is
due to set it; `HandInv`, `OwnInv` and `AliveInv` that a buffer is in one list, with one context or with one CPU, and is
allocated exactly then; `MadeInv` and `EmptyInv` carry `init_module` and
`cleanup_module` through their loops. They split into `CtlInv`, which does not look into the
lists and is proved first, and `ListsInv`. `FollowIs` says what following the
pointers gives, and the lemmas after it what one assignment to `nextBuffer`, `head` or
`tail` does to it.

`NothingLeft` needs `ReadersClosed`, as `MemorySafe` is false without it: `my_fops` has
no owner and the kernel lets the module go while a process is in `my_read`.
`NoBufferDangles` is the part that does not.

### The process cache and the sender

`ProcessInfo_proofs`, for any set of pids and any number of checks:

| theorem | statement |
|---|---|
| `ProcTyping` | `ProcSpec => []ProcTypeOK` |
| `ZygotesOrdered` | `ProcSpec => []ZygoteOrder` |
| `LookupsEnd` | `ProcSpec => BudgetSpent` |
| `Settling` | `ProcSpec => SettledForGood` |

`CallInv` carries them: while a call loads an entry for a reason, the reason still holds of
the entry. `CallCases` splits a call into the four branches of `getProcessInfo`;
`ReflagType` says that no branch adds checks.

`Sender_proofs`, for any buffers, cores, pids and sizes:

| theorem | statement |
|---|---|
| `SenderTyping` | `SenderSpec => []SenderTypeOK` |
| `AppendNeverRefuses` | `SenderSpec => []NeverRefused` |
| `PointersStayGood` | `SenderSpec => InfoStable` |
| `BatchesTiled` | `SenderSpec => []BatchLayout` |
| `UniformPackets` | `SenderSpec => []PacketsUniform` |
| `KernelFlagTrue` | `SenderSpec => []KernelIffNameless` |
| `BuffersOnce` | `SenderSpec => []EachBufferOnce` |
| `BytesAccounted` | `SenderSpec => []Accounted` |

Every step of the sender is one of the cache or leaves it alone (`CacheStep`), so the
cache's invariants are reused. `SenderInv` adds where the program is in the buffer, and the
reason why the pointers stay good (`LookupInv`): a load made while a packet is under construction is the
first of its entry, and the packet's entry has been loaded before.

`StreamInv` follows the samples from the device to the wire. Names and mode of a loaded entry agree
(`NamesInv`). There is a batch for each read of the third round (`RoundInv`), and the buffer in memory is the
one that the last successful read delivered, or what was on the stack (`ReadsInv`). The packet under construction goes on where the
last one ended (`BuildInv`), or the next one will (`GapInv`); what is on the wire tiles
(`WireInv`). Both say of a packet that its core and samples are those its batch and item
number stand for (`Identified`), which later reads do not change (`IdentifiedStays`). `CoverInv` says that a batch that is
over is on the wire to its last sample; with the rest it gives `EachBufferOnce`.
`AccountInv` says where the bytes already sent are: in `outbytes`, or in `sent_total` until
the batch is through.

### The splitter

`Splitter_proofs`, for any recording, cut anywhere, and any number of cores, of files that may be
open, and of samples per packet:

| theorem | statement |
|---|---|
| `SplitterTypes` | `SplitterSpec => []SplitterTypeOK` |
| `SamplesInOrder` | `SplitterSpec => []SamplesFiled` |
| `SectionsOfOneStay` | `SplitterSpec => []SectionsUnbroken` |
| `IndexOfAll` | `SplitterSpec => []IndexComplete` |

They follow from `SplitterInvariant`, `SplitterSpec => []SplitInv`. `SplitInv` has the two
properties of the files themselves and

- `WrittenInv`, `FileInv`: each recorded packet lies in the file where the lengths of those before
  it say (`Laid`), as far as the file goes, and the cut is inside the last one;
- `PositionInv`: the program stands at the end of the last packet done with, or beyond the file;
  while it processes a packet, `pkt` is what the file has of it (`Reads`);
- `OutInv`: exactly the processes with a packet done with have a file, each core writes to
  the file of the process it saw last;
- `TailInv`: a sample after the last row of zeros of a file came from a core that has stayed with
  the process since. Without it `SectionsUnbroken` is not inductive: it says nothing of what
  the next samples of that core may follow;
- `NamesInv`: the names of a process are those of its last packet, or a beginning of them where
  the file ends.

TLC checked `SplitInv` on the instance of `SplitterFiles` before the proof.

The lemmas about data come first: what `strlen` and `strnlen` find, where the bytes of a packet
are in a file (`BytesHere`), that `packet_read` at its first byte gives back what `packet_write`
put there (`Decode`), and what it makes of a packet that is cut: it takes nothing if
samples are missing, and goes beyond the end of the file if only names are. Then the steps:
`CurrentIs` says that the packet in hand is the next one recorded, `Filing` what the three
branches that file it (`Continue`, `SwitchTo`, `OpenFor`) have in common, so that each part of `SplitInv` is proved once for
all of them (`SectionsNext`, `TailNext`, `NamesNext`).

### Induction over data

The library's induction theorems take a predicate as a parameter, which these provers cannot
instantiate. `DataInduction` states induction with a set in its place: a set of numbers that has 0 and
with each number its successor has all (`UpTo`), from `FS_Injection`. On it rest what
a recursive function over numbers computes (`Recursion`), what following pointers gives, what
`FlattenSeq` of one sequence more is (`FlattenAppend`), and that a fold by + is a sum
(`SumNext`). So `WellLinked`, `Accounted` and `SamplesFiled`, which are about `Follow`,
`FoldLeft` and `FlattenSeq`, are proved and not only checked.

### Only model-checked

Liveness: `StatusReturns`, `StopReleasesReaders`, `Finishes`, `SplitterEnds`, `OperationsEnd`.
They rest on fairness and `ENABLED`, which the proof system does not treat.

## 7. Not modelled

- `hello.cpp`, `exercise1.cpp`: workloads to sample.
- `textreader.cpp`, `reader/text_reader.cpp`: print what they read.
- Makefiles.
- `printk` output; the registers of clocks and of the cross-trigger interface on ARM
  (`initialize_arch`, `pmu_cti_on`), which are written once.
- The routines of `v7_pmu.S` nobody calls: divider, user mode, software increments.
- The values of the counter MSRs on Intel.
- Conversion of the text written to an attribute (`default_store`), creation of the sysfs
  entries and its failure.
- A `read` with too small a count, and one made while `shutdown` is not 0: they
  return at once and change nothing.
- What a failing `copy_to_user` has copied before it fails: after a read that fails `b` is
  what it was.
- In the sender: arguments, opening of the connection, the experiment header
  (`send_header`), debug output. With `-d`, `debug_out` looks every sample up again.
- What a failed transmission leaves at the end of the stream (part of a packet).
- The text of the splitter's messages, and errors of writing its files.
