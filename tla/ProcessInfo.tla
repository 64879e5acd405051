---------------------------- MODULE ProcessInfo ----------------------------
(***************************************************************************)
(* The sender's cache of process names: sender/process_info.cpp, together  *)
(* with the part of the operating system it looks at, the files            *)
(* /proc/<pid>/cmdline and /proc/<pid>/exe.                                *)
(*                                                                         *)
(* On Android an application is forked from the process "zygote" and       *)
(* renames itself later, so a cached name may have to be read again.  The  *)
(* cache reads an entry again when the first attempt failed, and when the  *)
(* process was called zygote; the zygote with the smallest pid is taken    *)
(* for the parent of the others.                                           *)
(*                                                                         *)
(* The sender has one thread, so at most one lookup is in progress; the    *)
(* processes go on meanwhile, also between the reading of the two files.   *)
(***************************************************************************)
EXTENDS Integers

CONSTANTS
  Pids,    \* process ids that samples carry; 0 is the idle task
  Checks   \* PROCESS_INFO_FLAG_CHECKS

ASSUME ProcessInfoAssumption ==
  /\ Pids \subseteq Nat
  /\ Checks \in Nat

VARIABLES
  proc,             \* what runs under each pid (operating system)
  procMap,          \* procMap: the entry of each pid
  earliest_zygote,  \* earliest_zygote; 0: no zygote seen
  call              \* the last call of getProcessInfo

cacheVars == <<procMap, earliest_zygote, call>>
procVars == <<proc, cacheVars>>

-----------------------------------------------------------------------------
(* Processes and the two files                                             *)

\* "none": nothing has this pid; "idle": the idle task, which samples name by
\* pid 0 and which has no directory in /proc; "kernel": a kernel thread;
\* "zygote": zygote or a child that has not renamed itself; "app": any other
\* program; "zombie": a process that has exited and was not waited for.
Images == {"none", "idle", "kernel", "zygote", "app", "zombie"}

\* What fork, renaming or exec, exit and wait make of a process.
Turns == {<<"none", "kernel">>, <<"none", "zygote">>, <<"none", "app">>,
          <<"kernel", "none">>, <<"zygote", "app">>, <<"zygote", "zombie">>,
          <<"app", "zombie">>, <<"zombie", "none">>}

\* read_cmdline: the text it stores and whether it reports failure.  The file of a
\* kernel thread or of a zombie exists and is empty.
CmdlineNames == {"", "zygote", "app", "ifstream::fail()"}

Cmdline(image) ==
  CASE image \in {"zygote", "app"}   -> image
    [] image \in {"kernel", "zombie"} -> ""
    [] OTHER                          -> "ifstream::fail()"

CmdlineFails(image) == image \in {"none", "idle"}

\* read_executable: only a live program has a link to its executable.
ExeNames == {"", "program"}

Executable(image) == IF image \in {"zygote", "app"} THEN "program" ELSE ""

ExecutableFails(image) == image \notin {"zygote", "app"}

-----------------------------------------------------------------------------
(* The cache                                                               *)

Modes == {"Unknown", "Kernel", "User"}

\* struct ProcessInfo; zflag, zchecks, cflag, cchecks are flags.zygote.flag,
\* flags.zygote.checks, flags.cmdexe.flag and flags.cmdexe.checks.
Entries == [mode : Modes, cmdline : CmdlineNames, executable : ExeNames,
            zflag : BOOLEAN, zchecks : 0 .. Checks,
            cflag : BOOLEAN, cchecks : 0 .. Checks]

\* The constructor, which operator[] of procMap runs for a new pid.
NewEntry == [mode |-> "Unknown", cmdline |-> "", executable |-> "",
             zflag |-> FALSE, zchecks |-> Checks,
             cflag |-> FALSE, cchecks |-> Checks]

ProcInit ==
  /\ proc \in {f \in [Pids -> Images] : \A p \in Pids : f[p] = "idle" <=> p = 0}
  /\ procMap = [p \in Pids |-> NewEntry]
  /\ earliest_zygote = 0
  /\ call \in [pid : Pids, why : {"nothing"}, at : {"done"}, failed : {FALSE}]

\* Which branch of getProcessInfo the call takes.
First(p) == procMap[p].mode = "Unknown"

\* Mutant: the number of attempts is not looked at.
RetryFailedEver(p, check) == check /\ procMap[p].cflag

RetryFailed(p, check) ==
  check /\ procMap[p].cflag /\ procMap[p].cchecks > 0

\* Mutant: any process later than the zygote is taken for a zygote.
RetryZygoteAny(p, check) ==
  check /\ (p > earliest_zygote \/ procMap[p].zchecks > 0)

RetryZygote(p, check) ==
  /\ check /\ procMap[p].zflag
  /\ p > earliest_zygote \/ procMap[p].zchecks > 0

Why(p, check) ==
  IF First(p) THEN "first"
  ELSE IF RetryFailed(p, check) THEN "cmdexe"
  ELSE IF RetryZygote(p, check) THEN "zygote"
  ELSE "nothing"

\* Mutant: the counter is decremented at 0, too.
LessWrapping(n) == n - 1

\* A counter of checks, counted down to 0.
Less(n) == IF n = 0 THEN 0 ELSE n - 1

\* getProcessInfo up to load_process_info, or to the return when nothing is loaded.
GetProcessInfo(p, check) ==
  LET why == Why(p, check) IN
  /\ call.at = "done"
  /\ call' = [pid |-> p, why |-> why, failed |-> FALSE,
              at |-> IF why = "nothing" THEN "done" ELSE "cmdline"]
  /\ procMap' = CASE why = "cmdexe" -> [procMap EXCEPT ![p].cchecks = Less(@)]
                  [] why = "zygote" -> [procMap EXCEPT ![p].zchecks = Less(@)]
                  [] OTHER          -> procMap
  /\ UNCHANGED <<proc, earliest_zygote>>

\* read_cmdline in load_process_info.
ReadCmdline ==
  LET image == proc[call.pid] IN
  /\ call.at = "cmdline"
  /\ procMap' = [procMap EXCEPT ![call.pid].cmdline = Cmdline(image)]
  /\ call' = [call EXCEPT !.at = "exe", !.failed = CmdlineFails(image)]
  /\ UNCHANGED <<proc, earliest_zygote>>

\* Mutant: the latest zygote is kept instead.
EarliestLast(p) == IF earliest_zygote < p THEN p ELSE earliest_zygote

\* min(pid, earliest_zygote), where 0 stands for none.
Earliest(p) ==
  IF earliest_zygote = 0 \/ p < earliest_zygote THEN p ELSE earliest_zygote

\* The flags after a load for the reason call.why that failed or not; e has its new
\* names already.
Reflag(e, why, failed) ==
  LET zygote == e.cmdline = "zygote" IN
  CASE why = "zygote" /\ failed -> [e EXCEPT !.zchecks = 0]
    [] why = "zygote" /\ ~failed ->
         [e EXCEPT !.zflag = zygote, !.zchecks = IF zygote THEN @ ELSE 0]
    [] why # "zygote" /\ failed -> [e EXCEPT !.cflag = TRUE]
    [] OTHER -> [e EXCEPT !.cflag = FALSE, !.cchecks = 0, !.zflag = zygote,
                          !.zchecks = IF zygote THEN @ ELSE 0]

\* Mutant: a load that fails begins again.
ReadExecutableRetrying ==
  LET p == call.pid
      exe == Executable(proc[p])
      failed == call.failed \/ ExecutableFails(proc[p])
      loaded == [procMap[p] EXCEPT
                   !.executable = exe,
                   !.mode = IF procMap[p].cmdline = "" /\ exe = ""
                            THEN "Kernel" ELSE "User"]
  IN
  /\ call.at = "exe"
  /\ procMap' = [procMap EXCEPT ![p] = Reflag(loaded, call.why, failed)]
  /\ earliest_zygote' =
       IF call.why # "zygote" /\ ~failed /\ loaded.cmdline = "zygote"
       THEN Earliest(p) ELSE earliest_zygote
  /\ call' = [call EXCEPT !.at = IF failed THEN "cmdline" ELSE "done"]
  /\ UNCHANGED proc

\* read_executable, the mode, and the rest of getProcessInfo.
ReadExecutable ==
  LET p == call.pid
      exe == Executable(proc[p])
      failed == call.failed \/ ExecutableFails(proc[p])
      loaded == [procMap[p] EXCEPT
                   !.executable = exe,
                   !.mode = IF procMap[p].cmdline = "" /\ exe = ""
                            THEN "Kernel" ELSE "User"]
  IN
  /\ call.at = "exe"
  /\ procMap' = [procMap EXCEPT ![p] = Reflag(loaded, call.why, failed)]
  /\ earliest_zygote' =
       IF call.why # "zygote" /\ ~failed /\ loaded.cmdline = "zygote"
       THEN Earliest(p) ELSE earliest_zygote
  /\ call' = [call EXCEPT !.at = "done"]
  /\ UNCHANGED proc

\* The operating system: process p starts, changes or ends.
Turn(p) ==
  /\ \E image \in Images :
       /\ <<proc[p], image>> \in Turns
       /\ proc' = [proc EXCEPT ![p] = image]
  /\ UNCHANGED cacheVars

ProcNext ==
  \/ \E p \in Pids : Turn(p) \/ \E check \in BOOLEAN : GetProcessInfo(p, check)
  \/ ReadCmdline
  \/ ReadExecutable

\* The cache on its own, with lookups of any pid in any order.
ProcSpec == ProcInit /\ [][ProcNext]_procVars

-----------------------------------------------------------------------------
(* Properties                                                              *)

\* Types of the cache's state.
ProcTypeOK ==
  /\ proc \in [Pids -> Images]
  /\ procMap \in [Pids -> Entries]
  /\ earliest_zygote \in Pids \cup {0}
  /\ call \in [pid : Pids, why : {"nothing", "first", "cmdexe", "zygote"},
               at : {"cmdline", "exe", "done"}, failed : BOOLEAN]

\* The comparison pid > earliest_zygote, which decides who is looked up again
\* without a limit, is meaningful: every entry flagged as zygote is at or after
\* earliest_zygote, and earliest_zygote itself has been loaded
\* (process_info.cpp:49, 68 and 81).
ZygoteOrder ==
  /\ \A p \in Pids : procMap[p].zflag => 0 < earliest_zygote /\ earliest_zygote <= p
  /\ earliest_zygote # 0 => procMap[earliest_zygote].mode # "Unknown"

\* Lookups of p that may still load although p is no late zygote: the first one, and
\* one for each check that is left.
Budget(p) ==
  procMap[p].cchecks + procMap[p].zchecks
    + (IF First(p) /\ ~ (call.at # "done" /\ call.pid = p) THEN 1 ELSE 0)

\* A step that begins to load the names of p.
StartsLoad(p) ==
  call.at = "done" /\ call'.at = "cmdline" /\ call'.pid = p

\* Lookups come to an end: no step gives an entry more checks, and each load of
\* anything but a zygote later than the earliest uses one up, so that such an entry is
\* read from /proc at most 1 + 2 * PROCESS_INFO_FLAG_CHECKS times
\* (process_info.cpp:56-60: "we never backtrack ... We only move forward").
BudgetSpent ==
  [][\A p \in Pids :
       /\ Budget(p)' <= Budget(p)
       /\ StartsLoad(p) =>
            \/ Budget(p)' < Budget(p)
            \/ procMap[p].zflag /\ p > earliest_zygote]_procVars

\* Once an entry was loaded without failure under a name other than zygote, it is never
\* changed again, whatever becomes of the process and of earliest_zygote
\* (process_info.cpp:56-60).
Settled(p) ==
  procMap[p].mode # "Unknown" /\ ~procMap[p].cflag /\ ~procMap[p].zflag

SettledForGood ==
  [][\A p \in Pids : Settled(p) => procMap'[p] = procMap[p]]_procVars
=============================================================================
