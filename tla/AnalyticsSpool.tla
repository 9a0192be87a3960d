--------------------------- MODULE AnalyticsSpool ---------------------------
(***************************************************************************)
(* Request analytics: OpenResty appends one line per request to a spool    *)
(* file, internal/analytics/tailer.go reads the lines, stores them in      *)
(* SQLite in batches together with its position in the file, and rotates   *)
(* the file when it is large.                                              *)
(*                                                                         *)
(*   - OpenResty (external): one worker, which buffers lines, writes them  *)
(*     to the file it has open, and opens the file of that name again when *)
(*     it is told to (a signal, handled some time later) or reloaded;      *)
(*   - Tailer.Start, Tailer.run: one goroutine;                            *)
(*   - db.Store: every statement and every transaction is atomic.          *)
(*                                                                         *)
(* Abstractions.  A line is the number of its request, or Junk when it     *)
(* cannot be parsed; offsets and sizes count lines.  A file is an inode:   *)
(* it keeps its lines and its readers when its name is changed or removed. *)
(* The container may be killed at any time and restarted with its          *)
(* temporary directory (kept) or recreated without it.  Calls of the kinds *)
(* in Faulty fail at most MaxFaults times; other file system calls, and    *)
(* reads of the database, do not fail.  The daily removal of old requests  *)
(* and a truncation of the spool by somebody else are not modelled.        *)
(***************************************************************************)
EXTENDS Naturals, Sequences

CONSTANTS
  MaxEvents,    \* bound: requests logged
  MaxInodes,    \* bound: files created
  BatchSize,    \* analyticsBatchSize
  MaxLines,     \* Tailer.maxLogBytes
  Faulty,       \* the calls that may fail: a subset of Calls
  MaxFaults,    \* bound: failures
  MaxCrashes,   \* bound: the container dies
  MaxReloads,   \* bound: OpenResty is reloaded
  None          \* no file

Calls == {"insert", "setOffset", "reopenLogs"}
Inodes == 1..MaxInodes
Junk == 0

ASSUME SpoolAssumption ==
  /\ {MaxEvents, MaxInodes, MaxFaults, MaxCrashes, MaxReloads} \subseteq Nat
  /\ {BatchSize, MaxLines} \subseteq Nat \ {0}
  /\ Faulty \subseteq Calls
  /\ None \notin Inodes

VARIABLES
  \* the temporary directory
  path,        \* events.spool: an inode
  processing,  \* events.spool.processing: an inode
  lines,       \* the lines of every inode
  torn,        \* the inode whose last line has no newline yet
  inodes,      \* inodes used so far
  \* OpenResty
  logged,      \* requests served
  buffer,      \* lines the worker has not written yet
  sink,        \* the inode the worker writes to
  writing,     \* the worker is inside a write
  running,     \* openresty.pid names the running master
  signalled,   \* a reopen signal is waiting
  \* the database
  stored,      \* raw_requests, in the order of the inserts
  checkpoint,  \* the row of analytics_state
  \* Tailer.run
  pc, file, offset, readOffset, pending,
  \* history, read by the properties only
  origin,      \* the inode the checkpoint is a position in
  slipped,     \* since it was written, that inode went away unnoticed
  stale,       \* a position in one file was used in another
  cut,         \* the container died between the two halves of a rotation
  lost,        \* lines that died with the container, or were written to a
               \* file after the tailer had found its end
  crashes, faults, reloads

directory == <<path, processing, lines, torn, inodes>>
worker    == <<logged, buffer, sink, writing, running, signalled>>
database  == <<stored, checkpoint, origin, slipped>>
tailer    == <<pc, file, offset, readOffset, pending>>
history   == <<stale, cut, lost>>
bounds    == <<crashes, faults, reloads>>
vars == <<directory, worker, database, tailer, history, bounds>>

EventsIn(s) == {s[i] : i \in DOMAIN s} \ {Junk}

(* The lines of a file that ReadString returns whole. *)
Complete(i) == IF torn = i THEN Len(lines[i]) - 1 ELSE Len(lines[i])

(* What the tailer has yet to store of a file. *)
Unread(i) ==
  IF i = None THEN {}
  ELSE LET from == IF i = file THEN offset ELSE IF i = origin THEN checkpoint ELSE 0
       IN EventsIn(SubSeq(lines[i], from + 1, Len(lines[i])))

Fails(call) == call \in Faulty /\ faults < MaxFaults /\ faults' = faults + 1

-----------------------------------------------------------------------------
(* OpenResty, as internal/proxy/manager.go configures it: access_log with  *)
(* buffer=256k and flush=1s.                                               *)

LogRequest ==
  /\ running
  /\ ~writing
  /\ logged < MaxEvents
  /\ logged' = logged + 1
  /\ buffer' = Append(buffer, logged + 1)
  /\ UNCHANGED <<directory, sink, writing, running, signalled, database, tailer, history,
                 bounds>>

(* What a write appends: a line cut short by a crash swallows the next.    *)
Appended(i, s) == IF torn = i /\ s # <<>> THEN lines[i] \o Tail(s) ELSE lines[i] \o s

(* The tailer has found the end of this file for the last time, or nobody  *)
(* will ever read it.                                                      *)
Abandoned(i) == i \notin {path, processing} \/ (i = processing /\ file = i /\ pc = "end")

WriteBuffer ==
  /\ lines' = [lines EXCEPT ![sink] = Appended(sink, buffer)]
  /\ buffer' = <<>>
  /\ lost' = lost \cup IF Abandoned(sink) THEN EventsIn(buffer)
                     ELSE EventsIn(buffer) \ EventsIn(Appended(sink, buffer))

(* The buffer is written; its last byte may be seen later than the others. *)
FlushBuffer ==
  /\ sink # None
  /\ ~writing
  /\ buffer # <<>>
  /\ WriteBuffer
  /\ \/ writing' = TRUE /\ torn' = sink
     \/ writing' = FALSE /\ torn' = IF torn = sink THEN None ELSE torn
  /\ UNCHANGED <<path, processing, inodes, logged, sink, running, signalled, database,
                 tailer, stale, cut, bounds>>

FlushEnds ==
  /\ writing
  /\ writing' = FALSE
  /\ torn' = None
  /\ UNCHANGED <<path, processing, lines, inodes, logged, buffer, sink, running,
                 signalled, database, tailer, history, bounds>>

(* A file is created under the name of the spool. *)
CreateSpool ==
  /\ inodes < MaxInodes
  /\ inodes' = inodes + 1
  /\ path' = inodes + 1

(* open(path, O_CREAT | O_APPEND) *)
OpenSpool ==
  IF path = None THEN CreateSpool /\ sink' = inodes + 1
  ELSE sink' = path /\ UNCHANGED <<inodes, path>>

(* The worker flushes its buffer into the file it has open and opens the   *)
(* file of that name.                                                      *)
ReopenSpool ==
  /\ running
  /\ ~writing
  /\ \/ signalled /\ UNCHANGED reloads
     \/ reloads < MaxReloads /\ reloads' = reloads + 1
  /\ signalled' = FALSE
  /\ WriteBuffer
  /\ torn' = IF torn = sink /\ buffer # <<>> THEN None ELSE torn
  /\ OpenSpool
  /\ UNCHANGED <<processing, logged, writing, running, database, tailer, stale, cut,
                 crashes, faults>>

(* The master opens the log files before it writes openresty.pid and       *)
(* starts its workers.  In a recreated container it may create the spool   *)
(* before Tailer.Start looks whether there is one.                         *)
StartOpenResty ==
  /\ sink = None
  /\ OpenSpool
  /\ slipped' = (slipped \/ (/\ pc = "start" /\ checkpoint > 0
                             /\ path = None /\ processing = None))
  /\ UNCHANGED <<processing, lines, torn, logged, buffer, writing, running, signalled,
                 stored, checkpoint, origin, tailer, history, bounds>>

WritePid ==
  /\ sink # None
  /\ ~running
  /\ running' = TRUE
  /\ UNCHANGED <<directory, logged, buffer, sink, writing, signalled, database, tailer,
                 history, bounds>>

-----------------------------------------------------------------------------
(* SetAnalyticsOffset(0); the callers ignore its error. *)
ResetCheckpoint ==
  \/ checkpoint' = 0 /\ origin' = None /\ slipped' = FALSE /\ UNCHANGED faults
  \/ Fails("setOffset") /\ slipped' = TRUE /\ UNCHANGED <<checkpoint, origin>>

(* Tailer.Start: without a spool there is nothing to continue.             *)
Start ==
  /\ pc = "start"
  /\ IF path = None THEN ResetCheckpoint
     ELSE UNCHANGED <<checkpoint, origin, slipped, faults>>
  /\ pc' = "open"
  /\ UNCHANGED <<directory, worker, stored, file, offset, readOffset, pending,
                 history, crashes, reloads>>

(* Mutant: a spool that exists is preferred.                               *)
SpoolFirst == IF path # None THEN path ELSE processing

(* The file to read: what a rotation left to be processed comes first. *)
ActiveFile == IF processing # None THEN processing ELSE path

(* open(): continue at the checkpoint, or at the beginning if the file is  *)
(* shorter than that.                                                      *)
Open ==
  /\ pc = "open"
  /\ ActiveFile # None
  /\ file' = ActiveFile
  /\ IF checkpoint > Len(lines[ActiveFile])
     THEN offset' = 0 /\ ResetCheckpoint /\ UNCHANGED stale
     ELSE /\ offset' = checkpoint
          /\ stale' = (stale \/ (checkpoint > 0 /\ origin # ActiveFile))
          /\ UNCHANGED <<checkpoint, origin, slipped, faults>>
  /\ readOffset' = offset'
  /\ pending' = <<>>
  /\ pc' = "read"
  /\ UNCHANGED <<directory, worker, stored, cut, lost, crashes, reloads>>

(* Mutants: the position is one too far, or not part of the transaction.   *)
CommitPast(batch, position) ==
  /\ stored' = stored \o batch
  /\ checkpoint' = position + 1
  /\ origin' = file /\ slipped' = FALSE
  /\ offset' = position + 1
  /\ readOffset' = position + 1
  /\ pending' = <<>>

CommitLinesOnly(batch, position) ==
  /\ stored' = stored \o batch
  /\ offset' = position
  /\ readOffset' = position
  /\ pending' = <<>>
  /\ UNCHANGED <<checkpoint, origin, slipped>>

(* InsertRawRequestsWithOffset: the lines and the position after them, in  *)
(* one transaction.                                                        *)
Commit(batch, position) ==
  /\ stored' = stored \o batch
  /\ checkpoint' = position
  /\ origin' = file /\ slipped' = FALSE
  /\ offset' = position
  /\ readOffset' = position
  /\ pending' = <<>>

(* Mutant: the lines are dropped, but read on from here.                   *)
SkipBatch ==
  /\ pending' = <<>>
  /\ UNCHANGED <<database, offset, readOffset>>

(* The transaction fails: seek back to the last committed position. *)
Rewind ==
  /\ readOffset' = offset
  /\ pending' = <<>>
  /\ UNCHANGED <<database, offset>>

(* One more line; a line that cannot be parsed is counted but not stored.  *)
Parsed(line) == IF line = Junk THEN pending ELSE Append(pending, line)

ReadLine ==
  /\ pc = "read"
  /\ readOffset < Complete(file)
  /\ LET batch == Parsed(lines[file][readOffset + 1]) IN
     IF readOffset + 1 - offset < BatchSize
     THEN /\ pending' = batch
          /\ readOffset' = readOffset + 1
          /\ UNCHANGED <<database, offset, faults>>
     ELSE \/ Commit(batch, readOffset + 1) /\ UNCHANGED faults
          \/ Fails("insert") /\ Rewind
  /\ UNCHANGED <<directory, worker, pc, file, history, crashes, reloads>>

(* EOF: commit what has been read, then decide about the file; a last line *)
(* without its newline is read again later.                                *)
ReachEnd ==
  /\ pc = "read"
  /\ readOffset = Complete(file)
  /\ \/ readOffset = offset /\ UNCHANGED <<database, offset, readOffset, pending, faults>>
     \/ readOffset > offset /\ Commit(pending, readOffset) /\ UNCHANGED faults
     \/ readOffset > offset /\ Fails("insert") /\ Rewind
  /\ pc' = IF readOffset' < readOffset \/ torn = file THEN "read" ELSE "end"
  /\ UNCHANGED <<directory, worker, file, history, crashes, reloads>>

(* Nothing to do: sleep and look again. *)
Wait ==
  /\ pc = "end"
  /\ file # processing
  /\ Len(lines[file]) < MaxLines \/ offset < Len(lines[file])
  /\ pc' = "read"
  /\ UNCHANGED <<directory, worker, database, file, offset, readOffset, pending,
                 history, bounds>>

(* The rotated file has been drained: close and remove it, then, in a step *)
(* of its own, reset the checkpoint.                                       *)
RemoveProcessing ==
  /\ pc = "end"
  /\ file = processing
  /\ processing' = None
  /\ file' = None
  /\ pc' = "reset"
  /\ UNCHANGED <<path, lines, torn, inodes, worker, database, offset, readOffset,
                 pending, history, bounds>>

(* Mutant: the checkpoint of the removed file is kept.                     *)
KeepCheckpoint ==
  /\ pc = "reset"
  /\ pc' = "open"
  /\ UNCHANGED <<directory, worker, database, file, offset, readOffset, pending,
                 history, bounds>>

Reset ==
  /\ pc = "reset"
  /\ ResetCheckpoint
  /\ pc' = "open"
  /\ UNCHANGED <<directory, worker, stored, file, offset, readOffset, pending,
                 history, crashes, reloads>>

(* The spool is large and read to its end: rename it, ... *)
Rotate ==
  /\ pc = "end"
  /\ file # processing
  /\ Len(lines[file]) >= MaxLines
  /\ offset >= Len(lines[file])
  /\ processing' = path
  /\ path' = None
  /\ file' = None
  /\ pc' = "reopen"
  /\ UNCHANGED <<lines, torn, inodes, worker, database, offset, readOffset,
                 pending, history, bounds>>

(* Mutant: OpenResty is not told.                                          *)
ReopenNothing ==
  /\ pc = "reopen"
  /\ pc' = "create"
  /\ UNCHANGED <<directory, worker, database, file, offset, readOffset, pending,
                 history, bounds>>

(* ... tell OpenResty, if it runs, to open the name again, or undo the     *)
(* renaming, ...                                                           *)
ReopenLogs ==
  /\ pc = "reopen"
  /\ \/ /\ signalled' = (signalled \/ running)
        /\ pc' = "create"
        /\ UNCHANGED <<path, processing, faults>>
     \/ /\ Fails("reopenLogs")
        /\ path' = processing
        /\ processing' = None
        /\ pc' = "open"
        /\ UNCHANGED signalled
  /\ UNCHANGED <<lines, torn, inodes, logged, buffer, sink, writing, running, database,
                 file, offset, readOffset, pending, history, crashes, reloads>>

(* ... and make sure that a file of that name exists. *)
Create ==
  /\ pc = "create"
  /\ IF path = None THEN CreateSpool ELSE UNCHANGED <<path, inodes>>
  /\ pc' = "open"
  /\ UNCHANGED <<processing, lines, torn, worker, database, file, offset, readOffset,
                 pending, history, bounds>>

-----------------------------------------------------------------------------
(* The container dies and is started again; if it is recreated, the        *)
(* temporary directory is empty.                                           *)
Crash(recreated) ==
  /\ crashes < MaxCrashes
  /\ crashes' = crashes + 1
  /\ sink' = None /\ buffer' = <<>> /\ signalled' = FALSE /\ writing' = FALSE
  /\ running' = FALSE
  /\ lines' = IF writing THEN [lines EXCEPT ![sink][Len(lines[sink])] = Junk] ELSE lines
  /\ IF recreated THEN path' = None /\ processing' = None /\ torn' = None
     ELSE UNCHANGED <<path, processing, torn>>
  /\ pc' = "start" /\ file' = None /\ offset' = 0 /\ readOffset' = 0 /\ pending' = <<>>
  /\ cut' = (cut \/ (~recreated /\ processing # None /\ path = None))
  /\ slipped' = (slipped \/ (~recreated /\ pc = "reset"))
  /\ lost' = lost \cup EventsIn(buffer)
               \cup (IF writing THEN {lines[sink][Len(lines[sink])]} \ {Junk} ELSE {})
               \cup (IF recreated THEN Unread(path) \cup Unread(processing) ELSE {})
  /\ UNCHANGED <<inodes, logged, stored, checkpoint, origin, stale, faults, reloads>>

Init ==
  /\ path = None /\ processing = None /\ torn = None /\ inodes = 0
  /\ lines = [i \in Inodes |-> <<>>]
  /\ logged = 0 /\ buffer = <<>> /\ sink = None /\ signalled = FALSE /\ writing = FALSE
  /\ running = FALSE
  /\ stored = <<>> /\ checkpoint = 0 /\ origin = None /\ slipped = FALSE
  /\ pc = "start" /\ file = None /\ offset = 0 /\ readOffset = 0 /\ pending = <<>>
  /\ stale = FALSE /\ cut = FALSE /\ lost = {}
  /\ crashes = 0 /\ faults = 0 /\ reloads = 0

OpenResty == LogRequest \/ FlushBuffer \/ FlushEnds \/ ReopenSpool \/ StartOpenResty \/ WritePid

Tailer ==
  \/ Start \/ Open \/ ReadLine \/ ReachEnd \/ Wait
  \/ RemoveProcessing \/ Reset \/ Rotate \/ ReopenLogs \/ Create

Next ==
  \/ OpenResty
  \/ Tailer
  \/ \E recreated \in BOOLEAN : Crash(recreated)

Spec == Init /\ [][Next]_vars

(* The goroutine runs, OpenResty is started, flushes its buffer every      *)
(* second and handles its signals.                                         *)
Fairness ==
  /\ WF_vars(Tailer /\ UNCHANGED faults)
  /\ WF_vars(StartOpenResty)
  /\ WF_vars(WritePid)
  /\ WF_vars(FlushBuffer)
  /\ WF_vars(FlushEnds)
  /\ WF_vars(ReopenSpool)

FairSpec == Spec /\ Fairness

-----------------------------------------------------------------------------
(* Properties. *)

(* Types; the tailer's positions stay inside the file it reads.            *)
TypeOK ==
  /\ {path, processing, torn, sink, file, origin} \subseteq Inodes \cup {None}
  /\ inodes \in 0..MaxInodes
  /\ logged \in 0..MaxEvents
  /\ \A i \in Inodes : EventsIn(lines[i]) \subseteq 1..logged
  /\ EventsIn(buffer) \cup EventsIn(stored) \cup EventsIn(pending) \cup lost \subseteq 1..logged
  /\ {writing, running, signalled, stale, cut, slipped} \subseteq BOOLEAN
  /\ checkpoint \in Nat /\ offset \in Nat /\ readOffset \in Nat
  /\ pc \in {"start", "open", "read", "end", "reset", "reopen", "create"}
  /\ pc \in {"read", "end"} =>
       offset <= readOffset /\ readOffset <= Len(lines[file])

(* Requests are stored in the order they were served and none is stored    *)
(* twice, whatever fails, unless the container died between the rename and *)
(* the re-creation of the spool.                                           *)
StoredOnceInOrder ==
  ~cut => \A i, j \in DOMAIN stored : i < j => stored[i] < stored[j]

(* Every request served is stored, still in the worker's buffer, or in a   *)
(* file the tailer will read beyond its position.  Excepted is what died   *)
(* with the container, what was written to a rotated file after the tailer *)
(* had found its end, and what was passed over with a position of another  *)
(* file.                                                                   *)
NothingElseLost ==
  ~stale => 1..logged \subseteq EventsIn(stored) \cup EventsIn(buffer) \cup lost
                               \cup Unread(path) \cup Unread(processing)

(* The position in memory is the one in the database, and everything the   *)
(* tailer has passed in the file is stored.                                *)
CheckpointIsCommitted ==
  pc \in {"read", "end"} /\ ~stale /\ ~cut =>
    /\ offset > 0 => offset = checkpoint /\ origin = file
    /\ EventsIn(SubSeq(lines[file], 1, offset)) \subseteq EventsIn(stored)

(* The position that open() finds in the database belongs to the file it   *)
(* is about to read: through rotations, undone or not, reloads, crashes    *)
(* and recreated containers the checkpoint of one generation is gone       *)
(* before the next is read.  The code fails this in exactly three cases    *)
(* (slipped): SetAnalyticsOffset failed, its error being ignored; the      *)
(* process died between the removal of a rotated file and the reset, and   *)
(* was restarted with its temporary directory; or OpenResty of a recreated *)
(* container created the spool before Start looked.  So what the comment   *)
(* in Start says of every older generation (tailer.go:44-46) holds outside *)
(* these cases and is false in them.                                       *)
OffsetFitsFile ==
  pc = "open" /\ ActiveFile # None /\ checkpoint > 0 => origin = ActiveFile \/ slipped

(* The tailer keeps up: what is written to the spool is stored at last.    *)
SpoolIsStored ==
  \A e \in 1..MaxEvents :
    (path # None /\ e \in EventsIn(lines[path])) ~> e \in EventsIn(stored)

(* After every rotation OpenResty finds back to the file the tailer reads. *)
WorkerReturnsToSpool == []<>(sink = path)

(* A rotated file is drained and removed, so that the spool is read again. *)
RotatedFileIsDrained == (processing # None) ~> (processing = None)
=============================================================================
