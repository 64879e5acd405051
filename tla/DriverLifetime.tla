--------------------------- MODULE DriverLifetime ---------------------------
(***************************************************************************)
(* The driver from init_module to cleanup_module, over the linked lists:   *)
(* who is in append_blist and pop_blist when, and when the buffers are     *)
(* allocated and freed.                                                    *)
(*                                                                         *)
(* Every CPU has the PMU interrupt and the inter-processor interrupt; one  *)
(* process writes to status and removes the module, another reads the      *)
(* device.  An interrupt stops what it interrupts until it returns.  The   *)
(* ARM interrupt is masked in a critical section; the Intel one is an NMI. *)
(***************************************************************************)
EXTENDS Blist

CONSTANTS
  Cpus,
  Home,          \* the CPU of the process that loads, starts and stops
  Builds,        \* "arm", "intel"
  BufferEntries,
  Restarts,      \* the builds on which 1 is written to status while sampling is on, too
  ReadersClosed, \* TRUE: the module is removed only when no process reads the device
  MaxTicks,      \* bound: overflows of all PMUs together
  MaxStarts      \* bound: times that 1 is written to status

Irq(c) == <<c, "irq">>
Ipi(c) == <<c, "ipi">>
Admin == <<Home, "admin">>
Readers == {<<c, "reader">> : c \in Cpus \ {Home}}
AllCtxs == {Irq(c) : c \in Cpus} \cup {Ipi(c) : c \in Cpus} \cup {Admin} \cup Readers

ASSUME LifetimeAssumption ==
  /\ Home \in Cpus /\ Ctxs = AllCtxs /\ Lists = {"empty", "full"}
  /\ Builds \subseteq {"arm", "intel"} /\ Restarts \subseteq {"arm", "intel"}
  /\ BufferEntries \in Nat \ {0} /\ ReadersClosed \in BOOLEAN

VARIABLES
  build,
  at,         \* per context: where it is in the functions that use the lists
  alive,      \* buffers that are allocated
  lbuffer,    \* per CPU
  num,        \* per buffer: num_samples
  counting,   \* per CPU: the PMU counts
  pending,    \* per CPU: its interrupt waits
  flags,      \* per CPU: an overflow flag of the PMU is set
  installed,  \* the interrupt handler is requested (arm.c), or in the die chain (intel.c)
  shutdown,
  opened,     \* the device and the attributes exist
  todo,       \* CPUs that on_each_cpu waits for
  made,       \* buffers init_module has asked for
  ticks, starts

workVars == <<at, alive, lbuffer, num>>
hwVars == <<counting, pending, flags, ticks>>
ctlVars == <<build, installed, shutdown, opened, todo, made, starts>>
lifeVars == <<listVars, workVars, hwVars, ctlVars>>

Move(x, place) == at' = [at EXCEPT ![x] = place]

-----------------------------------------------------------------------------
(* Who may run                                                             *)

InDriver(x) == at[x] # "out"
Above(x) == CASE x[2] = "irq" -> {} [] x[2] = "ipi" -> {Irq(x[1])} [] OTHER -> {Irq(x[1]), Ipi(x[1])}

\* What an interrupt has interrupted waits.
Running(x) == \A y \in Above(x) : ~InDriver(y)

\* Interrupts of the CPU are masked: by a critical section, or in an interrupt.
Masked(c) == InDriver(Irq(c)) \/ InDriver(Ipi(c)) \/ \E x \in Ctxs : x[1] = c /\ Masking(x)

-----------------------------------------------------------------------------
(* gatherSample in the PMU interrupt                                       *)

Overflow(c) ==
  /\ counting[c] /\ ~pending[c] /\ ~InDriver(Irq(c)) /\ ticks < MaxTicks
  /\ pending' = [pending EXCEPT ![c] = TRUE] /\ flags' = [flags EXCEPT ![c] = TRUE]
  /\ ticks' = ticks + 1
  /\ UNCHANGED <<listVars, workVars, counting, ctlVars>>

\* An NMI is not masked.
Taken(c) ==
  /\ pending[c] /\ ~InDriver(Irq(c))
  /\ build = "arm" => ~Masked(c)
  /\ pending' = [pending EXCEPT ![c] = FALSE]

\* sample_handle_irq looks at the flags first, my_nmi_handler does not.
Interrupt(c) ==
  /\ Taken(c) /\ installed /\ (build = "arm" => flags[c])
  /\ Move(Irq(c), "gather")
  /\ UNCHANGED <<listVars, alive, lbuffer, num, counting, flags, ticks, ctlVars>>

\* Without a flag the handler returns with the PMU stopped; without a handler nothing happens.
Unexplained(c) ==
  /\ Taken(c) /\ (installed => build = "arm" /\ ~flags[c])
  /\ counting' = [counting EXCEPT ![c] = @ /\ ~installed]
  /\ UNCHANGED <<listVars, workVars, flags, ticks, ctlVars>>

NeedsBuffer(c) ==
  /\ at[Irq(c)] = "gather" /\ lbuffer[c] = NULL
  /\ Pop_blist(Irq(c), "empty") /\ Move(Irq(c), "popped")
  /\ UNCHANGED <<head, tail, nextBuffer, lock, alive, lbuffer, num, hwVars, ctlVars>>

NewBuffer(c) ==
  /\ at[Irq(c)] = "popped" /\ Returned(Irq(c)) /\ op[Irq(c)].b # NULL
  /\ lbuffer' = [lbuffer EXCEPT ![c] = op[Irq(c)].b]
  /\ num' = [num EXCEPT ![op[Irq(c)].b] = 0]
  /\ Return(Irq(c)) /\ Move(Irq(c), "gather")
  /\ UNCHANGED <<head, tail, nextBuffer, lock, alive, hwVars, ctlVars>>

\* The handler returns with the flags cleared: sample_handle_irq starts the PMU again,
\* my_nmi_handler stops it.
Leave(c) ==
  /\ Move(Irq(c), "out")
  /\ counting' = [counting EXCEPT ![c] = IF build = "arm" THEN shutdown = 0 ELSE @ /\ shutdown = 0]
  /\ flags' = [flags EXCEPT ![c] = FALSE]
  /\ UNCHANGED <<pending, ticks>>

Missed(c) ==
  /\ at[Irq(c)] = "popped" /\ Returned(Irq(c)) /\ op[Irq(c)].b = NULL
  /\ Return(Irq(c)) /\ Leave(c)
  /\ UNCHANGED <<head, tail, nextBuffer, lock, alive, lbuffer, num, ctlVars>>

Sample(c) ==
  /\ at[Irq(c)] = "gather" /\ lbuffer[c] # NULL
  /\ num' = [num EXCEPT ![lbuffer[c]] = @ + 1]
  /\ IF num'[lbuffer[c]] >= BufferEntries
     THEN Append_blist(Irq(c), "full", lbuffer[c]) /\ Move(Irq(c), "appended") /\ UNCHANGED hwVars
     ELSE UNCHANGED op /\ Leave(c)
  /\ UNCHANGED <<head, tail, nextBuffer, lock, alive, lbuffer, ctlVars>>

Published(c) ==
  /\ at[Irq(c)] = "appended" /\ Returned(Irq(c))
  /\ lbuffer' = [lbuffer EXCEPT ![c] = NULL]
  /\ Return(Irq(c)) /\ Leave(c)
  /\ UNCHANGED <<head, tail, nextBuffer, lock, alive, num, ctlVars>>

-----------------------------------------------------------------------------
(* startCtrs and stopCtrsLocal in the inter-processor interrupt            *)

StartCtrs(c) ==
  /\ at[Admin] = "starting" /\ c \in todo /\ ~Masked(c)
  /\ IF lbuffer[c] = NULL
     THEN UNCHANGED op /\ Move(Ipi(c), "given")
     ELSE Append_blist(Ipi(c), "empty", lbuffer[c]) /\ Move(Ipi(c), "giving")
  /\ UNCHANGED <<head, tail, nextBuffer, lock, alive, lbuffer, num, hwVars, ctlVars>>

Given(c) ==
  /\ at[Ipi(c)] = "giving" /\ Returned(Ipi(c)) /\ Running(Ipi(c))
  /\ lbuffer' = [lbuffer EXCEPT ![c] = NULL]
  /\ Return(Ipi(c)) /\ Move(Ipi(c), "given")
  /\ UNCHANGED <<head, tail, nextBuffer, lock, alive, num, hwVars, ctlVars>>

Started(c) ==
  /\ at[Ipi(c)] = "given" /\ Running(Ipi(c))
  /\ counting' = [counting EXCEPT ![c] = TRUE] /\ flags' = [flags EXCEPT ![c] = FALSE]
  /\ todo' = todo \ {c} /\ Move(Ipi(c), "out")
  /\ UNCHANGED <<listVars, alive, lbuffer, num, pending, ticks, build, installed, shutdown, opened, made, starts>>

\* stopCtrsLocal; intel.c masks the vector, the interrupt of arm.c may still come.
StopLocal(c) ==
  /\ at[Admin] \in {"stopping", "removing"} /\ c \in todo /\ ~Masked(c)
  /\ counting' = [counting EXCEPT ![c] = FALSE]
  /\ pending' = [pending EXCEPT ![c] = @ /\ build = "arm"]
  /\ todo' = todo \ {c}
  /\ UNCHANGED <<listVars, workVars, flags, ticks, build, installed, shutdown, opened, made, starts>>

-----------------------------------------------------------------------------
(* my_read                                                                 *)

Read(x) ==
  /\ at[x] = "out" /\ opened /\ shutdown = 0 /\ Running(x)
  /\ Pop_blist(x, "full") /\ Move(x, "waiting")
  /\ UNCHANGED <<head, tail, nextBuffer, lock, alive, lbuffer, num, hwVars, ctlVars>>

\* wait_event_interruptible tries again when the list has a buffer; it may be woken too early.
ReadAgain(x) ==
  /\ at[x] = "waiting" /\ Returned(x) /\ Running(x)
  /\ op[x].b = NULL /\ shutdown # 2 /\ head["full"] # NULL
  /\ Pop_blist(x, "full")
  /\ UNCHANGED <<head, tail, nextBuffer, lock, workVars, hwVars, ctlVars>>

ReadStopped(x) ==
  /\ at[x] = "waiting" /\ Returned(x) /\ Running(x)
  /\ op[x].b = NULL /\ shutdown = 2
  /\ Return(x) /\ Move(x, "out")
  /\ UNCHANGED <<head, tail, nextBuffer, lock, alive, lbuffer, num, hwVars, ctlVars>>

\* A signal ends the sleep.  The condition was evaluated before: a buffer popped is not lost.
ReadInterrupted(x) ==
  /\ at[x] = "waiting" /\ Returned(x) /\ Running(x)
  /\ op[x].b = NULL /\ shutdown # 2
  /\ Return(x) /\ Move(x, "out")
  /\ UNCHANGED <<head, tail, nextBuffer, lock, alive, lbuffer, num, hwVars, ctlVars>>

\* copy_to_user, and the buffer goes back.
ReadBuffer(x) ==
  /\ at[x] = "waiting" /\ Returned(x) /\ Running(x)
  /\ op[x].b # NULL
  /\ Append_blist(x, "empty", op[x].b) /\ Move(x, "returning")
  /\ UNCHANGED <<head, tail, nextBuffer, lock, alive, lbuffer, num, hwVars, ctlVars>>

ReadReturns(x) ==
  /\ at[x] = "returning" /\ Returned(x) /\ Running(x)
  /\ Return(x) /\ Move(x, "out")
  /\ UNCHANGED <<head, tail, nextBuffer, lock, alive, lbuffer, num, hwVars, ctlVars>>

-----------------------------------------------------------------------------
(* init_module                                                             *)

\* config_irq requests the interrupts of both CPUs; when a step fails it has given the first back.
ConfigIrq == installed' \in BOOLEAN

\* initialize_arch: arm.c goes on without its interrupt when config_irq fails.
Load ==
  /\ at[Admin] = "out" /\ made = 0
  /\ IF build = "arm" THEN ConfigIrq ELSE UNCHANGED installed
  /\ Move(Admin, "allocating")
  /\ UNCHANGED <<listVars, alive, lbuffer, num, hwVars, build, shutdown, opened, todo, made, starts>>

\* initialize_arch of intel.c may fail: the module is not loaded.
LoadRefused ==
  /\ at[Admin] = "out" /\ made = 0 /\ build = "intel"
  /\ Move(Admin, "gone")
  /\ UNCHANGED <<listVars, alive, lbuffer, num, hwVars, ctlVars>>

\* kzalloc may fail: append_blist then complains and returns.  Which of the equal buffers
\* comes first makes no difference.
Allocate ==
  /\ at[Admin] = "allocating" /\ made < Cardinality(Buffers) /\ op[Admin] = NoCall
  /\ LET b == CHOOSE x \in Buffers : x \notin alive IN
       /\ alive' = alive \cup {b}
       /\ Append_blist(Admin, "empty", b)
  /\ made' = made + 1
  /\ UNCHANGED <<head, tail, nextBuffer, lock, at, lbuffer, num, hwVars, build, installed, shutdown, opened, todo, starts>>

AllocateFails ==
  /\ at[Admin] = "allocating" /\ made < Cardinality(Buffers) /\ op[Admin] = NoCall
  /\ made' = made + 1
  /\ UNCHANGED <<listVars, workVars, hwVars, build, installed, shutdown, opened, todo, starts>>

Allocated ==
  /\ at[Admin] = "allocating" /\ Returned(Admin)
  /\ Return(Admin)
  /\ UNCHANGED <<head, tail, nextBuffer, lock, workVars, hwVars, ctlVars>>

Loaded ==
  /\ at[Admin] = "allocating" /\ made = Cardinality(Buffers) /\ op[Admin] = NoCall
  /\ opened' = TRUE /\ Move(Admin, "loaded")
  /\ UNCHANGED <<listVars, alive, lbuffer, num, hwVars, build, installed, shutdown, todo, made, starts>>

-----------------------------------------------------------------------------
(* process_status_update: example_run.sh writes 0, 1, and 1 again, stop.sh *)
(* writes 0                                                                *)

\* The code has no guard.  A running sampler is started again where Restarts allows it.
Start ==
  /\ at[Admin] = "loaded" /\ Running(Admin)
  /\ starts < MaxStarts /\ (build \in Restarts \/ starts = 0 \/ shutdown = 2)
  /\ shutdown' = 0 /\ starts' = starts + 1
  /\ installed' = (installed \/ build = "intel")
  /\ todo' = Cpus /\ Move(Admin, "starting")
  /\ UNCHANGED <<listVars, alive, lbuffer, num, hwVars, build, opened, made>>

StartEnds ==
  /\ at[Admin] = "starting" /\ todo = {} /\ Running(Admin)
  /\ Move(Admin, "loaded")
  /\ UNCHANGED <<listVars, alive, lbuffer, num, hwVars, ctlVars>>

Stop ==
  /\ at[Admin] = "loaded" /\ Running(Admin)
  /\ shutdown' = 1 /\ todo' = Cpus /\ Move(Admin, "stopping")
  /\ UNCHANGED <<listVars, alive, lbuffer, num, hwVars, build, installed, opened, made, starts>>

\* Taking a handler out waits for those that run it.
HandlersOut == \A c \in Cpus : ~InDriver(Irq(c))

\* deregister_interrupt, which only intel.c needs, and the end of stopAll.
StopEnds ==
  /\ at[Admin] \in {"stopping", "removing"} /\ todo = {} /\ Running(Admin)
  /\ build = "intel" => HandlersOut
  /\ installed' = (installed /\ build = "arm")
  /\ shutdown' = 2
  /\ Move(Admin, IF at[Admin] = "stopping" THEN "loaded" ELSE "cleanup_arch")
  /\ UNCHANGED <<listVars, alive, lbuffer, num, hwVars, build, opened, todo, made, starts>>

-----------------------------------------------------------------------------
(* cleanup_module                                                          *)

CleanupModule ==
  /\ at[Admin] = "loaded" /\ Running(Admin)
  /\ ReadersClosed => \A x \in Readers : ~InDriver(x)
  /\ shutdown' = 1 /\ opened' = FALSE
  /\ todo' = Cpus /\ Move(Admin, "removing")
  /\ UNCHANGED <<listVars, alive, lbuffer, num, hwVars, build, installed, made, starts>>

\* Mutant: the interrupt is not freed.
CleanupKeepsIrq ==
  /\ at[Admin] = "cleanup_arch" /\ Running(Admin)
  /\ Move(Admin, "flushing")
  /\ UNCHANGED <<listVars, alive, lbuffer, num, hwVars, ctlVars>>

\* free_irq of arm.c waits for the handler, and complains if none was requested.
CleanupArch ==
  /\ at[Admin] = "cleanup_arch" /\ Running(Admin) /\ HandlersOut
  /\ installed' = FALSE
  /\ Move(Admin, "flushing")
  /\ UNCHANGED <<listVars, alive, lbuffer, num, hwVars, build, shutdown, opened, todo, made, starts>>

\* A buffer that a CPU still has goes to full_buffers.
Flush(c) ==
  /\ at[Admin] = "flushing" /\ op[Admin] = NoCall /\ lbuffer[c] # NULL
  /\ Append_blist(Admin, "full", lbuffer[c])
  /\ UNCHANGED <<head, tail, nextBuffer, lock, workVars, hwVars, ctlVars>>

Flushed(c) ==
  /\ at[Admin] = "flushing" /\ Returned(Admin) /\ lbuffer[c] = op[Admin].b
  /\ lbuffer' = [lbuffer EXCEPT ![c] = NULL]
  /\ Return(Admin)
  /\ UNCHANGED <<head, tail, nextBuffer, lock, at, alive, num, hwVars, ctlVars>>

FlushEnds ==
  /\ at[Admin] = "flushing" /\ op[Admin] = NoCall /\ \A c \in Cpus : lbuffer[c] = NULL
  /\ Pop_blist(Admin, "empty") /\ Move(Admin, "freeing_empty")
  /\ UNCHANGED <<head, tail, nextBuffer, lock, alive, lbuffer, num, hwVars, ctlVars>>

\* The two loops that free what they pop.
Free ==
  /\ at[Admin] \in {"freeing_empty", "freeing_full"} /\ Returned(Admin) /\ op[Admin].b # NULL
  /\ alive' = alive \ {op[Admin].b}
  /\ Pop_blist(Admin, IF at[Admin] = "freeing_empty" THEN "empty" ELSE "full")
  /\ UNCHANGED <<head, tail, nextBuffer, lock, at, lbuffer, num, hwVars, ctlVars>>

FreeNext ==
  /\ at[Admin] = "freeing_empty" /\ Returned(Admin) /\ op[Admin].b = NULL
  /\ Pop_blist(Admin, "full") /\ Move(Admin, "freeing_full")
  /\ UNCHANGED <<head, tail, nextBuffer, lock, alive, lbuffer, num, hwVars, ctlVars>>

Removed ==
  /\ at[Admin] = "freeing_full" /\ Returned(Admin) /\ op[Admin].b = NULL
  /\ Return(Admin) /\ Move(Admin, "gone")
  /\ UNCHANGED <<head, tail, nextBuffer, lock, alive, lbuffer, num, hwVars, ctlVars>>

-----------------------------------------------------------------------------

LifeInit ==
  /\ BlistInit
  /\ build \in Builds
  /\ at = [x \in Ctxs |-> "out"]
  /\ alive = {} /\ lbuffer = [c \in Cpus |-> NULL] /\ num = [b \in Buffers |-> 0]
  /\ counting = [c \in Cpus |-> FALSE] /\ pending = [c \in Cpus |-> FALSE]
  /\ flags = [c \in Cpus |-> FALSE]
  /\ installed = FALSE /\ shutdown = 0 /\ opened = FALSE
  /\ todo = {} /\ made = 0 /\ ticks = 0 /\ starts = 0

InList(x) == Running(x) /\ ListStep(x) /\ UNCHANGED <<workVars, hwVars, ctlVars>>
IrqStep(c) ==
  \/ Interrupt(c) \/ Unexplained(c)
  \/ NeedsBuffer(c) \/ NewBuffer(c) \/ Missed(c) \/ Sample(c) \/ Published(c)
IpiStep(c) == StartCtrs(c) \/ Given(c) \/ Started(c) \/ StopLocal(c)
ReaderStep(x) == ReadAgain(x) \/ ReadStopped(x) \/ ReadBuffer(x) \/ ReadReturns(x)
AdminStep ==
  \/ Allocate \/ AllocateFails \/ Allocated \/ Loaded \/ StartEnds \/ StopEnds \/ CleanupArch
  \/ \E c \in Cpus : Flush(c) \/ Flushed(c)
  \/ FlushEnds \/ Free \/ FreeNext \/ Removed

LifeNext ==
  \/ \E x \in Ctxs : InList(x)
  \/ \E c \in Cpus : Overflow(c) \/ IrqStep(c) \/ IpiStep(c)
  \/ \E x \in Readers : Read(x) \/ ReadInterrupted(x) \/ ReaderStep(x)
  \/ Load \/ LoadRefused \/ Start \/ Stop \/ CleanupModule
  \/ AdminStep

\* CPUs go on with what they have begun; nothing else has to happen.  A reader that reads again
\* and again may not keep the others from a lock: the kernel's spin locks let in those that wait.
LifeSpec ==
  /\ LifeInit /\ [][LifeNext]_lifeVars
  /\ \A c \in Cpus : /\ WF_lifeVars(InList(Irq(c)) \/ IrqStep(c))
                     /\ WF_lifeVars(InList(Ipi(c)) \/ IpiStep(c))
  /\ \A x \in Readers : WF_lifeVars(InList(x) \/ ReaderStep(x))
  /\ WF_lifeVars(InList(Admin) \/ AdminStep)
  /\ SF_lifeVars(\E x \in Ctxs \ Readers : InList(x))
-----------------------------------------------------------------------------
(* Properties                                                              *)

\* No context, list or CPU has a buffer that has been freed.
BuffersAlive ==
  /\ \A x \in Ctxs : Masking(x) /\ op[x].b # NULL => op[x].b \in alive
  /\ \A l \in Lists : ToSet(Chain(l)) \subseteq alive
  /\ \A c \in Cpus : lbuffer[c] # NULL => lbuffer[c] \in alive

\* No context is about to use a buffer that has been freed, none is in the driver after it
\* was removed, and nothing allocated is left behind then.
MemorySafe ==
  /\ BuffersAlive
  /\ at[Admin] = "gone" =>
       alive = {} /\ (\A x \in Ctxs \ {Admin} : ~InDriver(x)) /\ ~installed

\* An NMI that has interrupted a critical section waits for a lock.
NmiSpins ==
  \E c \in Cpus :
    /\ op[Irq(c)].pc \in {"append_lock", "pop_lock"}
    /\ \E x \in Ctxs \ {Irq(c)} : x[1] = c /\ Critical(x)

\* Whoever enters append_blist or pop_blist comes out again: no interleaving of processes and
\* interrupts leaves a lock taken.  Only on Intel an NMI may interrupt a critical section and
\* wait for the lock it holds, or for one whose holder waits for it.
OperationsEnd ==
  (\E x \in Ctxs : Masking(x)) ~>
    ((\A x \in Ctxs : ~Masking(x)) \/ (build = "intel" /\ NmiSpins))
=============================================================================
