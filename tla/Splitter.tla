------------------------------- MODULE Splitter -------------------------------
(***************************************************************************)
(* The splitter: reader/reader.cpp, which walks over the packets of a      *)
(* recorded file, and reader/splitter_reader.cpp, which writes the samples *)
(* of each process to a file of its own and an index of these files.       *)
(*                                                                         *)
(* Every core has a CoreOutput with its current file.  The files belong to *)
(* all of them: a process that moves between cores has its samples written *)
(* to one file by several CoreOutputs.  One that turns to another process  *)
(* ends its section of the file with a row of zeros.                       *)
(***************************************************************************)
EXTENDS PacketReader, SequencesExt, FiniteSetsExt

CONSTANTS
  Headers,        \* core ids and pids in the recorded file
  NumCores,       \* 16: elements of cores[]
  MaxFiles,       \* files the process may have open for writing
  MaxQuantity,    \* 255: samples per packet
  Quantity(_),    \* samples of the k-th packet
  Cmdline(_),     \* names in the k-th packet
  Exe(_),
  MaxPackets,     \* bound: packets in the recorded file
  NULL            \* no file

ASSUME SplitterAssumption ==
  /\ NumCores \in Nat /\ MaxFiles \in Nat /\ MaxQuantity \in Nat \ {0} /\ MaxPackets \in Nat
  /\ Headers \subseteq [core : Nat, pid : Nat]
  /\ \A h \in Headers : NULL # h.pid
  /\ \A k \in 1 .. MaxPackets :
       /\ Quantity(k) \in 0 .. MaxQuantity
       /\ Cmdline(k) \in Seq(Nat \ {NUL}) /\ Exe(k) \in Seq(Nat \ {NUL})

VARIABLES
  written,   \* history: the packets the sender wrote
  file,      \* the recorded file, which may end inside the last packet
  padded,    \* two zeros or more follow the file in its last page
  position,  \* position
  pc,        \* where the program is, and how it ended
  pkt,       \* the packet read_file_loop hands to process_packet
  currFile,  \* per core: currFile, by the pid of the file; NULL
  last_pid,  \* per core: last_head.pid; NULL if has_last_head is false
  pid_files, \* the open files: pid to the names for the index
  content,   \* pid to what was written: samples, and 0 for a row of zeros
  index,     \* lines of index.csv
  taken      \* history: packets done with

fileVars == <<written, file, padded>>
outVars == <<currFile, last_pid, pid_files, content, index>>
splitterVars == <<fileVars, position, pc, pkt, outVars, taken>>

Opened == DOMAIN pid_files
OnCore(c) == pkt.core = c /\ c < NumCores

\* The k-th packet; its samples have numbers of their own.
Written(k, h) ==
  [core |-> h.core, pid |-> h.pid,
   samples |-> [i \in 1 .. Quantity(k) |-> MaxQuantity * k + i],
   cmdline |-> Cmdline(k), exe |-> Exe(k)]

Description == <<1, NUL>>

SplitterInit ==
  /\ written = <<>> /\ file = Description /\ padded = TRUE
  /\ position = 0 /\ pc = "recording" /\ pkt = NULL /\ taken = 0
  /\ currFile = [c \in 0 .. NumCores - 1 |-> NULL]
  /\ last_pid = [c \in 0 .. NumCores - 1 |-> NULL]
  /\ pid_files = <<>> /\ content = <<>> /\ index = {}

\* The sender's side: a packet is written to the file.
Record(h) ==
  LET p == Written(Len(written) + 1, h) IN
  /\ pc = "recording" /\ Len(written) < MaxPackets
  /\ written' = Append(written, p) /\ file' = file \o Encode(p)
  /\ UNCHANGED <<padded, position, pc, pkt, outVars, taken>>

\* The recording ends, perhaps inside its last packet, and the splitter is started.
StartSplitter(lost, pad) ==
  /\ pc = "recording" /\ written # <<>> /\ lost < Len(Encode(Last(written)))
  /\ file' = SubSeq(file, 1, Len(file) - lost) /\ padded' = pad
  /\ position' = strlen(file, 0) + 1
  /\ pc' = "loop"
  /\ UNCHANGED <<written, pkt, outVars, taken>>

-----------------------------------------------------------------------------
(* read_file_loop                                                          *)

PacketHere == PacketRead(file, position, Len(file) - position)

\* packet_read succeeds.
NextPacket ==
  /\ pc = "loop" /\ position < Len(file)
  /\ \E p \in PacketHere :
       /\ padded \/ p.exe < Len(file)
       /\ pkt' = p
  /\ pc' = "process"
  /\ UNCHANGED <<fileVars, position, outVars, taken>>

\* The names' bytes end before the executable begins and no padding follows: reading it faults.
NamesFault ==
  /\ pc = "loop" /\ position < Len(file)
  /\ \E p \in PacketHere : p.exe >= Len(file)
  /\ ~padded
  /\ pc' = "killed"
  /\ UNCHANGED <<fileVars, position, pkt, outVars, taken>>

\* The end of the file, or a packet of which bytes are missing.
EndLoop ==
  /\ pc = "loop"
  /\ position < Len(file) => PacketHere = {}
  /\ pc' = "closing"
  /\ UNCHANGED <<fileVars, position, pkt, outVars, taken>>

-----------------------------------------------------------------------------
(* process_packet                                                          *)

\* The rest of the round of read_file_loop.
NextPosition == pc' = "loop" /\ position' = position + pkt.read /\ taken' = taken + 1

\* Mutant: a packet that is skipped is read again.
SkipForEver ==
  /\ pc = "process" /\ pkt.core > NumCores
  /\ pc' = "loop"
  /\ UNCHANGED <<fileVars, position, pkt, outVars, taken>>

\* A core id above the number of cores: the packet is skipped with a message.
Skip ==
  /\ pc = "process" /\ pkt.core > NumCores
  /\ NextPosition
  /\ UNCHANGED <<fileVars, pkt, outVars>>

\* The core id that is neither skipped nor valid.
AssertFails ==
  /\ pc = "process" /\ pkt.core = NumCores
  /\ pc' = "aborted"
  /\ UNCHANGED <<fileVars, position, pkt, outVars, taken>>

StringsEnd == padded \/ pkt.exe + strlen(file, pkt.exe) < Len(file)

\* The last string has no end in the file and no padding follows.
StringFault ==
  /\ pc = "process" /\ pkt.core < NumCores /\ ~StringsEnd
  /\ pc' = "killed"
  /\ UNCHANGED <<fileVars, position, pkt, outVars, taken>>

Names == [cmdline |-> StringAt(file, pkt.cmdline), exe |-> StringAt(file, pkt.exe)]

\* Mutant: no separator when a core comes back to a file.
SeparatedFirst(c) ==
  IF currFile[c] # NULL /\ pkt.pid \notin Opened
  THEN [content EXCEPT ![currFile[c]] = Append(@, 0)] ELSE content

\* The files when core c turned away from its current one.
Separated(c) ==
  IF currFile[c] # NULL
  THEN [content EXCEPT ![currFile[c]] = Append(@, 0)] ELSE content

\* The rest of CoreOutput::process_packet.
Filed(c, pid, files) ==
  /\ content' = [files EXCEPT ![pid] = @ \o pkt.samples]
  /\ NextPosition
  /\ UNCHANGED <<fileVars, pkt, index>>

\* Mutant: the names of the first packet are kept.
ContinueStale(c) ==
  /\ pc = "process" /\ OnCore(c) /\ StringsEnd
  /\ last_pid[c] = pkt.pid
  /\ Filed(c, currFile[c], content)
  /\ UNCHANGED <<currFile, last_pid, pid_files>>

\* The core stays with its process.
Continue(c) ==
  /\ pc = "process" /\ OnCore(c) /\ StringsEnd
  /\ last_pid[c] = pkt.pid
  /\ pid_files' = [pid_files EXCEPT ![pkt.pid] = Names]
  /\ Filed(c, currFile[c], content)
  /\ UNCHANGED <<currFile, last_pid>>

\* Mutant: currFile is only set when a file is opened.
SwitchKeepsFile(c) ==
  /\ pc = "process" /\ OnCore(c) /\ StringsEnd
  /\ last_pid[c] # pkt.pid /\ pkt.pid \in Opened
  /\ pid_files' = [pid_files EXCEPT ![pkt.pid] = Names]
  /\ last_pid' = [last_pid EXCEPT ![c] = pkt.pid]
  /\ Filed(c, IF currFile[c] = NULL THEN pkt.pid ELSE currFile[c], Separated(c))
  /\ UNCHANGED currFile

\* The core turns to a process that has a file.
SwitchTo(c) ==
  /\ pc = "process" /\ OnCore(c) /\ StringsEnd
  /\ last_pid[c] # pkt.pid /\ pkt.pid \in Opened
  /\ pid_files' = [pid_files EXCEPT ![pkt.pid] = Names]
  /\ last_pid' = [last_pid EXCEPT ![c] = pkt.pid]
  /\ currFile' = [currFile EXCEPT ![c] = pkt.pid]
  /\ Filed(c, pkt.pid, Separated(c))

\* A map with one more key.
Added(f, key, value) == [k \in DOMAIN f \cup {key} |-> IF k = key THEN value ELSE f[k]]

\* The core turns to a process that has no file yet.
OpenFor(c) ==
  /\ pc = "process" /\ OnCore(c) /\ StringsEnd
  /\ last_pid[c] # pkt.pid /\ pkt.pid \notin Opened
  /\ Cardinality(Opened) < MaxFiles
  /\ pid_files' = Added(pid_files, pkt.pid, Names)
  /\ last_pid' = [last_pid EXCEPT ![c] = pkt.pid]
  /\ currFile' = [currFile EXCEPT ![c] = pkt.pid]
  /\ Filed(c, pkt.pid, Added(Separated(c), pkt.pid, <<>>))

\* fopen fails: every file stays open until the end.
OpenFails(c) ==
  /\ pc = "process" /\ OnCore(c) /\ StringsEnd
  /\ last_pid[c] # pkt.pid /\ pkt.pid \notin Opened
  /\ Cardinality(Opened) = MaxFiles
  /\ content' = Separated(c)
  /\ pc' = "exited"
  /\ UNCHANGED <<fileVars, position, pkt, currFile, last_pid, pid_files, index, taken>>

\* CoreOutput::closeAll, and main returns.
CloseAll ==
  /\ pc = "closing"
  /\ index' = {<<p, pid_files[p]>> : p \in Opened}
  /\ pid_files' = <<>>
  /\ pc' = "done"
  /\ UNCHANGED <<fileVars, position, pkt, currFile, last_pid, content, taken>>

Step ==
  \/ NextPacket \/ NamesFault \/ EndLoop
  \/ Skip \/ AssertFails \/ StringFault
  \/ \E c \in 0 .. NumCores - 1 : Continue(c) \/ SwitchTo(c) \/ OpenFor(c) \/ OpenFails(c)
  \/ CloseAll

Ended == pc \in {"done", "aborted", "exited", "killed"}

Next ==
  \/ \E h \in Headers : Record(h)
  \/ \E lost \in 0 .. Len(file), pad \in BOOLEAN : StartSplitter(lost, pad)
  \/ Step

\* The program takes its next step; the recording need not end.
SplitterSpec == SplitterInit /\ [][Next]_splitterVars /\ WF_splitterVars(Step)
-----------------------------------------------------------------------------
(* Properties                                                              *)

\* The packets of the recorded file all of whose bytes, or all of whose samples, are there.
EndOf(k) == Len(Description) + Len(FlattenSeq([i \in 1 .. k |-> Encode(written[i])]))
Whole == {k \in DOMAIN written : EndOf(k) <= Len(file)}
Usable == {k \in DOMAIN written :
             EndOf(k) - Len(written[k].cmdline) - Len(written[k].exe) - 2 <= Len(file)}

\* The packets filed so far for a process.
FiledFor(p) == {k \in 1 .. taken : written[k].pid = p /\ written[k].core < NumCores}

\* The number of the packet a sample came with.
PacketOf(sample) == (sample - 1) \div MaxQuantity

\* Types, and each core writes to the file of the process it saw last.
SplitterTypeOK ==
  /\ position \in 0 .. Len(file) + 2 /\ taken \in 0 .. Len(written)
  /\ pc \in {"recording", "loop", "process", "closing", "done", "aborted", "exited", "killed"}
  /\ Opened \subseteq DOMAIN content /\ Cardinality(Opened) <= MaxFiles
  /\ \A c \in DOMAIN currFile : currFile[c] = last_pid[c] /\ currFile[c] \in DOMAIN content \cup {NULL}

\* The samples in a file, without the rows of zeros.
Rows(f) == FlattenSeq([i \in DOMAIN f |-> IF f[i] = 0 THEN <<>> ELSE <<f[i]>>])

\* The file of a process contains the samples of its packets, each once and in the order
\* of the recorded file, however its packets change between the cores.
SamplesFiled ==
  \A p \in DOMAIN content :
    Rows(content[p])
      = FlattenSeq([k \in 1 .. Len(written) |->
                      IF k \in FiledFor(p) THEN written[k].samples ELSE <<>>])

\* Rows of zeros end sections: between two samples of one core that no such row separates,
\* this core saw no other process.
SectionsUnbroken ==
  \A p \in DOMAIN content : \A i, j \in DOMAIN content[p] :
    LET k == PacketOf(content[p][i])
        l == PacketOf(content[p][j])
    IN  (/\ i < j /\ \A m \in i .. j : content[p][m] # 0
         /\ written[k].core = written[l].core)
        => \A m \in k .. l : written[m].core = written[k].core => written[m].pid = p

\* When the splitter returns, no packet that is complete in the file has been left out, none
\* without all its samples taken, and the index has a line for each file, with the names
\* the last packet of the process had, or as much of them as the file has.
IndexComplete ==
  pc = "done" =>
    /\ Whole \subseteq 1 .. taken /\ 1 .. taken \subseteq Usable
    /\ {line[1] : line \in index} = DOMAIN content
    /\ \A line \in index :
         LET k == Max(FiledFor(line[1])) IN
         /\ IsPrefix(line[2].cmdline, written[k].cmdline)
         /\ IsPrefix(line[2].exe, written[k].exe)
         /\ k \in Whole => line[2] = [cmdline |-> written[k].cmdline, exe |-> written[k].exe]
    /\ Cardinality(index) = Cardinality(DOMAIN content)

\* packet.h: packet_read "Returns 0 if everything went okay or 1 if more bytes are needed".
MissingBytesReported == pc = "process" => taken + 1 \in Whole

\* The splitter comes to its end with every file.
SplitterEnds == pc = "loop" ~> Ended
=============================================================================
