------------------------ MODULE AnalyticsSpoolProof ------------------------
(***************************************************************************)
(* Proofs about AnalyticsSpool for any number of requests, files, crashes, *)
(* failures and reloads, and any sizes of batch and file: types, that      *)
(* lines and position are committed together, that every request is        *)
(* stored, still to be read, or in one of the named losses, that a         *)
(* position is only used in the file it belongs to except in three named   *)
(* cases, and that requests are stored once and in the order they were     *)
(* served.                                                                 *)
(***************************************************************************)
EXTENDS AnalyticsSpool, TLAPS

(* The requests on the lines after the first a, up to line b.              *)
Between(s, a, b) == {s[i] : i \in (a + 1)..b} \ {Junk}

LEMMA SeqEvents ==
  ASSUME NEW s \in Seq(Nat)
  PROVE  EventsIn(s) = Between(s, 0, Len(s))
BY DEF EventsIn, Between

LEMMA SubEvents ==
  ASSUME NEW s \in Seq(Nat), NEW a \in Nat, NEW b \in Nat, b <= Len(s)
  PROVE  EventsIn(SubSeq(s, a + 1, b)) = Between(s, a, b)
<1> DEFINE r == SubSeq(s, a + 1, b)
<1>1. CASE a >= b
  <2>1. r = <<>> /\ (a + 1)..b = {}
    BY <1>1
  <2> QED BY <2>1 DEF EventsIn, Between
<1>2. CASE a < b
  <2>1. DOMAIN r = 1..(b - a) /\ \A i \in 1..(b - a) : r[i] = s[a + i]
    BY <1>2
  <2> HIDE DEF r
  <2>2. {r[i] : i \in 1..(b - a)} = {s[i] : i \in (a + 1)..b}
    <3>1. ASSUME NEW i \in (a + 1)..b PROVE s[i] \in {r[j] : j \in 1..(b - a)}
      <4>1. i - a \in 1..(b - a) /\ r[i - a] = s[a + (i - a)] /\ a + (i - a) = i
        BY <2>1
      <4> QED BY <4>1
    <3>2. ASSUME NEW i \in 1..(b - a) PROVE r[i] \in {s[j] : j \in (a + 1)..b}
      <4>1. a + i \in (a + 1)..b /\ r[i] = s[a + i]
        BY <2>1
      <4> QED BY <4>1
    <3> QED BY <3>1, <3>2
  <2> QED BY <2>1, <2>2 DEF EventsIn, Between, r
<1> QED BY <1>1, <1>2

LEMMA ConcatEvents ==
  ASSUME NEW s \in Seq(Nat), NEW t \in Seq(Nat)
  PROVE  /\ s \o t \in Seq(Nat) /\ Len(s \o t) = Len(s) + Len(t)
         /\ \A i \in 1..Len(s) : (s \o t)[i] = s[i]
         /\ \A i \in 1..Len(t) : (s \o t)[Len(s) + i] = t[i]
OBVIOUS

(* What is appended adds its requests, and changes no line before.         *)
LEMMA BetweenGrows ==
  ASSUME NEW s \in Seq(Nat), NEW t \in Seq(Nat), NEW a \in Nat
  PROVE  /\ \A b \in Nat : b <= Len(s) => Between(s \o t, a, b) = Between(s, a, b)
         /\ a <= Len(s) =>
              Between(s \o t, a, Len(s \o t)) = Between(s, a, Len(s)) \cup EventsIn(t)
         /\ EventsIn(s \o t) = EventsIn(s) \cup EventsIn(t)
<1> DEFINE r == s \o t
<1>1. /\ r \in Seq(Nat) /\ Len(r) = Len(s) + Len(t) /\ DOMAIN t = 1..Len(t)
      /\ \A i \in 1..Len(s) : r[i] = s[i]
      /\ \A i \in 1..Len(t) : r[Len(s) + i] = t[i]
  BY ConcatEvents
<1> HIDE DEF r
<1>2. ASSUME NEW b \in Nat, b <= Len(s) PROVE Between(r, a, b) = Between(s, a, b)
  <2>1. \A i \in (a + 1)..b : i \in 1..Len(s)
    BY <1>2
  <2>2. \A i \in (a + 1)..b : r[i] = s[i]
    BY <1>1, <2>1
  <2> QED BY <2>2 DEF Between
<1>3. ASSUME NEW k \in Nat, k <= Len(s)
      PROVE  Between(r, k, Len(r)) = Between(s, k, Len(s)) \cup EventsIn(t)
  <2>0. Len(s) \in Nat /\ Len(t) \in Nat /\ Len(r) = Len(s) + Len(t)
    BY <1>1
  <2>1. ASSUME NEW i \in (k + 1)..Len(r)
        PROVE  r[i] \in {s[j] : j \in (k + 1)..Len(s)} \cup {t[j] : j \in 1..Len(t)}
    <3>1. CASE i <= Len(s)
      <4>1. i \in 1..Len(s) /\ i \in (k + 1)..Len(s)
        BY <1>3, <2>0, <3>1
      <4>2. r[i] = s[i]
        BY <1>1, <4>1
      <4> QED BY <4>1, <4>2
    <3>2. CASE i > Len(s)
      <4>0. i - Len(s) \in 1..Len(t) /\ Len(s) + (i - Len(s)) = i
        BY <1>3, <2>0, <3>2
      <4>1. r[Len(s) + (i - Len(s))] = t[i - Len(s)]
        BY <1>1, <4>0
      <4> QED BY <4>0, <4>1
    <3> QED BY <3>1, <3>2
  <2>2. ASSUME NEW j \in (k + 1)..Len(s) PROVE s[j] \in {r[i] : i \in (k + 1)..Len(r)}
    BY <1>1, <1>3
  <2>3. ASSUME NEW j \in 1..Len(t) PROVE t[j] \in {r[i] : i \in (k + 1)..Len(r)}
    <3>1. Len(s) + j \in (k + 1)..Len(r) /\ r[Len(s) + j] = t[j]
      BY <1>1, <1>3
    <3> QED BY <3>1
  <2>4. {r[i] : i \in (k + 1)..Len(r)} =
          {s[j] : j \in (k + 1)..Len(s)} \cup {t[j] : j \in 1..Len(t)}
    BY <2>1, <2>2, <2>3
  <2> QED BY <1>1, <2>4 DEF Between, EventsIn
<1>4. EventsIn(r) = EventsIn(s) \cup EventsIn(t)
  <2>1. 0 \in Nat /\ 0 <= Len(s) /\ r \in Seq(Nat)
    BY <1>1
  <2>2. Between(r, 0, Len(r)) = Between(s, 0, Len(s)) \cup EventsIn(t)
    BY <1>3, <2>1
  <2> QED BY <2>1, <2>2, SeqEvents
<1> QED BY <1>2, <1>3, <1>4 DEF r

LEMMA BetweenSplits ==
  ASSUME NEW s \in Seq(Nat), NEW a \in Nat, NEW b \in Nat, NEW c \in Nat, a <= b, b <= c
  PROVE  Between(s, a, c) = Between(s, a, b) \cup Between(s, b, c)
<1>1. (a + 1)..c = ((a + 1)..b) \cup ((b + 1)..c)
  OBVIOUS
<1> QED BY <1>1 DEF Between

LEMMA BetweenEmpty ==
  ASSUME NEW s, NEW a \in Nat, NEW b \in Nat, b <= a
  PROVE  Between(s, a, b) = {}
<1>1. (a + 1)..b = {}
  OBVIOUS
<1> QED BY <1>1 DEF Between

LEMMA BetweenShrinks ==
  ASSUME NEW s \in Seq(Nat), NEW a \in Nat, NEW b \in Nat, NEW c \in Nat, a <= b
  PROVE  Between(s, b, c) \subseteq Between(s, a, c)
BY DEF Between

LEMMA BetweenInside ==
  ASSUME NEW s \in Seq(Nat), NEW a \in Nat, NEW b \in Nat, b <= Len(s)
  PROVE  Between(s, a, b) \subseteq EventsIn(s)
BY DEF Between, EventsIn

LEMMA TailEvents ==
  ASSUME NEW s \in Seq(Nat), s # <<>>
  PROVE  /\ Tail(s) \in Seq(Nat) /\ Len(Tail(s)) = Len(s) - 1 /\ Len(s) > 0
         /\ EventsIn(Tail(s)) \subseteq EventsIn(s)
<1>1. /\ Tail(s) \in Seq(Nat) /\ Len(Tail(s)) = Len(s) - 1 /\ Len(s) > 0
      /\ \A i \in 1..(Len(s) - 1) : Tail(s)[i] = s[i + 1]
      /\ DOMAIN Tail(s) = 1..(Len(s) - 1)
  OBVIOUS
<1> QED BY <1>1 DEF EventsIn

LEMMA AppendEvents ==
  ASSUME NEW s \in Seq(Nat), NEW e \in Nat
  PROVE  /\ Append(s, e) \in Seq(Nat)
         /\ EventsIn(Append(s, e)) = EventsIn(s) \cup ({e} \ {Junk})
<1>1. /\ Append(s, e) \in Seq(Nat) /\ Len(Append(s, e)) = Len(s) + 1
      /\ DOMAIN Append(s, e) = 1..(Len(s) + 1) /\ DOMAIN s = 1..Len(s)
      /\ \A i \in 1..Len(s) : Append(s, e)[i] = s[i]
      /\ Append(s, e)[Len(s) + 1] = e
  OBVIOUS
<1>2. 1..(Len(s) + 1) = (1..Len(s)) \cup {Len(s) + 1}
  OBVIOUS
<1> QED BY <1>1, <1>2 DEF EventsIn

-----------------------------------------------------------------------------
(* The invariants. *)

Reading == pc \in {"read", "end"}

(* Files are numbered as they are made, and a new one is empty.            *)
FilesInv ==
  /\ {path, processing, torn, sink, file, origin} \subseteq (1..inodes) \cup {None}
  /\ inodes \in 0..MaxInodes
  /\ lines \in [Inodes -> Seq(Nat)]
  /\ \A i \in Inodes : i > inodes => lines[i] = <<>>
  /\ path # None => path # processing

(* The requests in the files have been served, those in the buffer are in  *)
(* none of them.                                                           *)
LinesInv ==
  /\ buffer \in Seq(Nat) /\ stored \in Seq(Nat) /\ pending \in Seq(Nat)
  /\ logged \in 0..MaxEvents
  /\ \A i \in Inodes : EventsIn(lines[i]) \subseteq 1..logged
  /\ EventsIn(buffer) \cup EventsIn(stored) \cup EventsIn(pending) \cup lost \subseteq 1..logged
  /\ \A i \in Inodes : EventsIn(buffer) \cap EventsIn(lines[i]) = {}

(* The worker writes to a file it has open, and only what it writes can    *)
(* lack its end.                                                           *)
WorkerInv ==
  /\ {writing, running, signalled, stale, cut} \subseteq BOOLEAN
  /\ running => sink # None
  /\ writing => sink # None /\ torn = sink
  /\ torn # None => Len(lines[torn]) > 0

(* What the tailer has read of its file, and where that file is.           *)
TailerInv ==
  /\ pc \in {"start", "open", "read", "end", "reset", "reopen", "create"}
  /\ offset \in Nat /\ readOffset \in Nat
  /\ Reading =>
       /\ file # None /\ file = ActiveFile
       /\ offset <= readOffset /\ readOffset <= Len(lines[file])
       /\ Between(lines[file], offset, readOffset) \subseteq EventsIn(pending)
  /\ ~Reading => file = None
  /\ pc = "reopen" => processing # None

(* The checkpoint is a position in its file, everything before it is       *)
(* stored, and the tailer is where it says.                                *)
PositionInv ==
  /\ checkpoint \in Nat
  /\ origin = None => checkpoint = 0
  /\ origin # None => checkpoint <= Len(lines[origin])
  /\ ~stale /\ origin # None =>
       Between(lines[origin], 0, checkpoint) \subseteq EventsIn(stored)
  /\ ~stale /\ Reading => offset = IF origin = file THEN checkpoint ELSE 0

(* A rotated file is removed only when nothing of it is left to be stored. *)
DrainedInv ==
  pc = "end" /\ file = processing =>
    Between(lines[file], offset, Len(lines[file])) \subseteq lost

SpoolInv ==
  /\ FilesInv /\ LinesInv /\ WorkerInv /\ TailerInv /\ PositionInv /\ DrainedInv

(* Every file is an inode. *)
LEMMA FilesAreInodes ==
  ASSUME FilesInv
  PROVE  /\ {path, processing, torn, sink, file, origin} \subseteq Inodes \cup {None}
         /\ None \notin Inodes /\ MaxInodes \in Nat /\ inodes \in Nat
         /\ \A i \in Inodes : lines[i] \in Seq(Nat) /\ Len(lines[i]) \in Nat
<1>1. MaxInodes \in Nat /\ None \notin Inodes
  BY SpoolAssumption
<1>2. inodes \in 0..MaxInodes
  BY DEF FilesInv
<1>3. (1..inodes) \subseteq Inodes
  BY <1>1, <1>2 DEF Inodes
<1>4. \A i \in Inodes : lines[i] \in Seq(Nat)
  BY DEF FilesInv
<1> QED BY <1>1, <1>2, <1>3, <1>4 DEF FilesInv

(* A step disturbs only the conjuncts whose variables it changes.          *)
LEMMA PartsKeep ==
  ASSUME SpoolInv
  PROVE  /\ UNCHANGED <<path, processing, torn, sink, file, origin, inodes, lines>> => FilesInv'
         /\ UNCHANGED <<buffer, stored, pending, logged, lines, lost>> => LinesInv'
         /\ UNCHANGED <<writing, running, signalled, stale, cut, sink, torn, lines>> => WorkerInv'
         /\ UNCHANGED <<pc, file, offset, readOffset, pending, lines, processing, path>>
              => TailerInv'
         /\ UNCHANGED <<checkpoint, origin, lines, stale, stored, pc, file, offset>>
              => PositionInv'
         /\ UNCHANGED <<pc, file, processing, lines, offset, lost>> => DrainedInv'
<1>1. UNCHANGED <<path, processing, torn, sink, file, origin, inodes, lines>> => FilesInv'
  BY DEF SpoolInv, FilesInv
<1>2. UNCHANGED <<buffer, stored, pending, logged, lines, lost>> => LinesInv'
  BY DEF SpoolInv, LinesInv
<1>3. UNCHANGED <<writing, running, signalled, stale, cut, sink, torn, lines>> => WorkerInv'
  BY DEF SpoolInv, WorkerInv
<1>4. UNCHANGED <<pc, file, offset, readOffset, pending, lines, processing, path>> => TailerInv'
  BY DEF SpoolInv, TailerInv, Reading, ActiveFile
<1>5. UNCHANGED <<checkpoint, origin, lines, stale, stored, pc, file, offset>> => PositionInv'
  BY DEF SpoolInv, PositionInv, Reading
<1>6. UNCHANGED <<pc, file, processing, lines, offset, lost>> => DrainedInv'
  BY DEF SpoolInv, DrainedInv
<1> QED BY <1>1, <1>2, <1>3, <1>4, <1>5, <1>6

-----------------------------------------------------------------------------
(* OpenResty's steps. *)

(* What a write does: it appends some of the buffer, and counts as lost    *)
(* what it cannot append, or appends where nobody will read.               *)
LEMMA WriteBufferWrites ==
  ASSUME FilesInv, LinesInv, WorkerInv, WriteBuffer, sink # None
  PROVE  \E t \in Seq(Nat) :
           /\ lines' = [lines EXCEPT ![sink] = lines[sink] \o t]
           /\ EventsIn(t) \subseteq EventsIn(buffer)
           /\ EventsIn(buffer) \subseteq EventsIn(t) \cup lost'
           /\ lost \subseteq lost' /\ lost' \subseteq lost \cup EventsIn(buffer)
           /\ Abandoned(sink) => EventsIn(buffer) \subseteq lost'
           /\ torn = sink \/ t = buffer
<1> DEFINE t == IF torn = sink /\ buffer # <<>> THEN Tail(buffer) ELSE buffer
<1>1. sink \in Inodes /\ lines[sink] \in Seq(Nat) /\ buffer \in Seq(Nat)
  BY FilesAreInodes DEF LinesInv
<1>2. t \in Seq(Nat) /\ EventsIn(t) \subseteq EventsIn(buffer)
  BY <1>1, TailEvents
<1>3. Appended(sink, buffer) = lines[sink] \o t
  BY DEF Appended
<1>4. EventsIn(Appended(sink, buffer)) = EventsIn(lines[sink]) \cup EventsIn(t)
  <2> HIDE DEF t
  <2>1. 0 \in Nat
    OBVIOUS
  <2> QED BY <1>1, <1>2, <1>3, <2>1, BetweenGrows
<1>5. EventsIn(buffer) \cap EventsIn(lines[sink]) = {}
  BY <1>1 DEF LinesInv
<1>6. /\ lines' = [lines EXCEPT ![sink] = lines[sink] \o t]
      /\ lost' = lost \cup IF Abandoned(sink) THEN EventsIn(buffer)
                           ELSE EventsIn(buffer) \ EventsIn(Appended(sink, buffer))
  BY <1>3 DEF WriteBuffer
<1>7. torn = sink \/ t = buffer
  OBVIOUS
<1> HIDE DEF t
<1>8. /\ EventsIn(buffer) \subseteq EventsIn(t) \cup lost'
      /\ lost \subseteq lost' /\ lost' \subseteq lost \cup EventsIn(buffer)
      /\ Abandoned(sink) => EventsIn(buffer) \subseteq lost'
  BY <1>4, <1>5, <1>6
<1> QED BY <1>2, <1>6, <1>7, <1>8

(* A write by itself keeps what is known of the lines, the tailer and the  *)
(* checkpoint; a file that is drained gets only lines that are lost.       *)
LEMMA WriteBufferKeeps ==
  ASSUME SpoolInv, WriteBuffer, sink # None,
         UNCHANGED <<processing, database, tailer, stale, logged>>,
         path' = path \/ path = None
  PROVE  /\ LinesInv' /\ TailerInv' /\ PositionInv' /\ DrainedInv'
         /\ lines' \in [Inodes -> Seq(Nat)]
         /\ \A i \in Inodes : i # sink => lines'[i] = lines[i]
         /\ \A i \in Inodes : Len(lines'[i]) >= Len(lines[i])
         /\ buffer # <<>> => Len(lines'[sink]) > 0
<1> USE DEF SpoolInv
<1>1. PICK t \in Seq(Nat) :
           /\ lines' = [lines EXCEPT ![sink] = lines[sink] \o t]
           /\ EventsIn(t) \subseteq EventsIn(buffer)
           /\ EventsIn(buffer) \subseteq EventsIn(t) \cup lost'
           /\ lost \subseteq lost' /\ lost' \subseteq lost \cup EventsIn(buffer)
           /\ Abandoned(sink) => EventsIn(buffer) \subseteq lost'
           /\ torn = sink \/ t = buffer
  BY WriteBufferWrites
<1>2. /\ sink \in Inodes /\ lines \in [Inodes -> Seq(Nat)] /\ buffer \in Seq(Nat)
      /\ buffer' = <<>>
  BY FilesAreInodes DEF FilesInv, LinesInv, WriteBuffer
<1>3. /\ lines[sink] \in Seq(Nat) /\ lines'[sink] = lines[sink] \o t
      /\ lines'[sink] \in Seq(Nat) /\ Len(lines'[sink]) = Len(lines[sink]) + Len(t)
      /\ \A i \in Inodes : i # sink => lines'[i] = lines[i]
      /\ lines' \in [Inodes -> Seq(Nat)]
  <2>1. lines[sink] \in Seq(Nat)
    BY <1>2
  <2>2. lines[sink] \o t \in Seq(Nat) /\ Len(lines[sink] \o t) = Len(lines[sink]) + Len(t)
    BY <2>1, ConcatEvents
  <2> QED BY <1>1, <1>2, <2>1, <2>2
<1>4. \A i \in Inodes : Len(lines'[i]) >= Len(lines[i])
  <2>1. ASSUME NEW i \in Inodes PROVE Len(lines'[i]) >= Len(lines[i])
    <3>1. lines[i] \in Seq(Nat) /\ Len(lines[i]) \in Nat /\ Len(t) \in Nat
      BY <1>2
    <3>2. CASE i = sink
      BY <1>3, <3>1, <3>2
    <3>3. CASE i # sink
      BY <1>3, <3>1, <3>3
    <3> QED BY <3>2, <3>3
  <2> QED BY <2>1
<1>5. buffer # <<>> => Len(lines'[sink]) > 0
  <2>1. CASE torn = sink
    <3>1. torn # None /\ Len(lines[sink]) > 0
      BY <2>1 DEF WorkerInv
    <3> QED BY <1>2, <1>3, <3>1
  <2>2. CASE t = buffer /\ buffer # <<>>
    <3>1. Len(t) > 0
      BY <1>2, <2>2
    <3> QED BY <1>2, <1>3, <3>1
  <2> QED BY <1>1, <2>1, <2>2
<1>6. ASSUME NEW i \in Inodes, NEW a \in Nat, NEW b \in Nat, b <= Len(lines[i])
      PROVE  Between(lines'[i], a, b) = Between(lines[i], a, b)
  <2>1. CASE i = sink
    <3>1. Between(lines[sink] \o t, a, b) = Between(lines[sink], a, b)
      BY <1>3, <1>6, <2>1, BetweenGrows
    <3> QED BY <1>3, <2>1, <3>1
  <2>2. CASE i # sink
    BY <1>3, <2>2
  <2> QED BY <2>1, <2>2
<1>7. EventsIn(lines'[sink]) = EventsIn(lines[sink]) \cup EventsIn(t)
  <2>1. 0 \in Nat
    OBVIOUS
  <2> QED BY <1>3, <2>1, BetweenGrows
<1>8. LinesInv'
  <2>1. EventsIn(<<>>) = {}
    BY DEF EventsIn
  <2>2. stored' = stored /\ pending' = pending /\ logged' = logged
    BY DEF database, tailer
  <2>3. ASSUME NEW i \in Inodes PROVE EventsIn(lines'[i]) \subseteq 1..logged
    <3>1. EventsIn(lines[i]) \subseteq 1..logged /\ EventsIn(buffer) \subseteq 1..logged
      BY DEF LinesInv
    <3>2. CASE i = sink
      BY <1>1, <1>7, <3>1, <3>2
    <3>3. CASE i # sink
      BY <1>3, <3>1, <3>3
    <3> QED BY <3>2, <3>3
  <2>4. lost' \subseteq 1..logged
    BY <1>1 DEF LinesInv
  <2>5. buffer' \in Seq(Nat)
    BY <1>2
  <2> QED BY <1>2, <2>1, <2>2, <2>3, <2>4, <2>5 DEF LinesInv
<1>9. /\ pc' = pc /\ file' = file /\ offset' = offset /\ readOffset' = readOffset
      /\ pending' = pending /\ checkpoint' = checkpoint /\ origin' = origin
      /\ stored' = stored /\ stale' = stale /\ processing' = processing
  BY DEF database, tailer
<1>10. file # None => file \in Inodes /\ Len(lines[file]) \in Nat /\ Len(lines'[file]) \in Nat
  <2>1. file # None => file \in Inodes
    BY FilesAreInodes
  <2>2. ASSUME NEW i \in Inodes PROVE Len(lines[i]) \in Nat /\ Len(lines'[i]) \in Nat
    <3>1. lines[i] \in Seq(Nat) /\ lines'[i] \in Seq(Nat)
      BY <1>2, <1>3
    <3> QED BY <3>1
  <2> QED BY <2>1, <2>2
<1>11. TailerInv'
  <2>1. ASSUME Reading
        PROVE  /\ file # None /\ file = ActiveFile'
               /\ offset <= readOffset /\ readOffset <= Len(lines'[file])
               /\ Between(lines'[file], offset, readOffset) \subseteq EventsIn(pending)
    <3>1. /\ file # None /\ file = ActiveFile /\ offset \in Nat /\ readOffset \in Nat
          /\ offset <= readOffset /\ readOffset <= Len(lines[file])
          /\ Between(lines[file], offset, readOffset) \subseteq EventsIn(pending)
      BY <2>1 DEF TailerInv
    <3>2. file = ActiveFile'
      BY <1>9, <3>1 DEF ActiveFile
    <3>3. readOffset <= Len(lines'[file])
      BY <1>4, <1>10, <3>1
    <3>4. Between(lines'[file], offset, readOffset) = Between(lines[file], offset, readOffset)
      BY <1>6, <1>10, <3>1
    <3> QED BY <3>1, <3>2, <3>3, <3>4
  <2>2. Reading' = Reading
    BY <1>9 DEF Reading
  <2> QED BY <1>9, <2>1, <2>2 DEF TailerInv
<1>12. PositionInv'
  <2>1. ASSUME origin # None
        PROVE  /\ checkpoint <= Len(lines'[origin])
               /\ Between(lines'[origin], 0, checkpoint) = Between(lines[origin], 0, checkpoint)
    <3>1. origin \in Inodes /\ checkpoint \in Nat /\ checkpoint <= Len(lines[origin])
      BY <2>1, FilesAreInodes DEF PositionInv
    <3>2. Len(lines[origin]) \in Nat /\ Len(lines'[origin]) \in Nat /\ 0 \in Nat
      BY <1>2, <1>3, <3>1
    <3>3. checkpoint <= Len(lines'[origin])
      BY <1>4, <3>1, <3>2
    <3> QED BY <1>6, <3>1, <3>2, <3>3
  <2>2. Reading' = Reading
    BY <1>9 DEF Reading
  <2> QED BY <1>9, <2>1, <2>2 DEF PositionInv
<1>13. DrainedInv'
  <2>1. ASSUME pc = "end", file = processing
        PROVE  Between(lines'[file], offset, Len(lines'[file])) \subseteq lost'
    <3>1. /\ file # None /\ offset \in Nat
          /\ offset <= readOffset /\ readOffset <= Len(lines[file]) /\ readOffset \in Nat
          /\ Between(lines[file], offset, Len(lines[file])) \subseteq lost
      BY <2>1 DEF TailerInv, DrainedInv, Reading
    <3>2. CASE file = sink
      <4>1. Abandoned(sink)
        BY <2>1, <3>2 DEF Abandoned
      <4>2. offset <= Len(lines[sink])
        BY <1>10, <3>1, <3>2
      <4>3. Between(lines'[sink], offset, Len(lines'[sink])) =
              Between(lines[sink], offset, Len(lines[sink])) \cup EventsIn(t)
        <5>1. Between(lines[sink] \o t, offset, Len(lines[sink] \o t)) =
                Between(lines[sink], offset, Len(lines[sink])) \cup EventsIn(t)
          <6>1. lines[sink] \in Seq(Nat) /\ offset \in Nat
            BY <1>3, <3>1
          <6> HIDE DEF SpoolInv
          <6> QED BY <6>1, <4>2, BetweenGrows
        <5> QED BY <1>3, <5>1
      <4> QED BY <1>1, <3>1, <3>2, <4>1, <4>3
    <3>3. CASE file # sink
      BY <1>1, <1>3, <1>10, <3>1, <3>3
    <3> QED BY <3>2, <3>3
  <2> QED BY <1>9, <2>1 DEF DrainedInv
<1> QED BY <1>3, <1>4, <1>5, <1>8, <1>11, <1>12, <1>13

LEMMA LogRequestKeeps ==
  ASSUME SpoolInv, LogRequest
  PROVE  SpoolInv'
<1> USE DEF LogRequest, directory, database, tailer, history, bounds
<1>1. /\ buffer \in Seq(Nat) /\ logged \in Nat /\ logged + 1 \in 0..MaxEvents
      /\ 1..logged \subseteq 1..(logged + 1) /\ logged + 1 \notin 1..logged
  BY SpoolAssumption DEF SpoolInv, LinesInv
<1>2. /\ buffer' \in Seq(Nat)
      /\ EventsIn(buffer') = EventsIn(buffer) \cup {logged + 1}
  BY <1>1, AppendEvents DEF Junk
<1>3. LinesInv'
  <2>1. \A i \in Inodes : /\ EventsIn(lines[i]) \subseteq 1..logged
                          /\ EventsIn(buffer) \cap EventsIn(lines[i]) = {}
    BY DEF SpoolInv, LinesInv
  <2>2. /\ stored \in Seq(Nat) /\ pending \in Seq(Nat)
        /\ EventsIn(buffer) \cup EventsIn(stored) \cup EventsIn(pending) \cup lost
             \subseteq 1..logged
    BY DEF SpoolInv, LinesInv
  <2>3. logged + 1 \in 1..(logged + 1)
    BY <1>1
  <2>4. /\ lines' = lines /\ stored' = stored /\ pending' = pending /\ lost' = lost
        /\ logged' = logged + 1
    OBVIOUS
  <2> DEFINE bound == 1..(logged + 1)
  <2>5. EventsIn(buffer') \cup EventsIn(stored) \cup EventsIn(pending) \cup lost \subseteq bound
    BY <1>1, <1>2, <2>2, <2>3
  <2>6. \A i \in Inodes : /\ EventsIn(lines[i]) \subseteq bound
                          /\ EventsIn(buffer') \cap EventsIn(lines[i]) = {}
    BY <1>1, <1>2, <2>1
  <2> QED BY <1>1, <1>2, <2>2, <2>4, <2>5, <2>6 DEF LinesInv
<1> QED BY <1>3, PartsKeep DEF SpoolInv

LEMMA FlushBufferKeeps ==
  ASSUME SpoolInv, FlushBuffer
  PROVE  SpoolInv'
<1>1. UNCHANGED <<processing, database, tailer, stale, logged, path, inodes, sink, cut, running,
                  signalled>> /\ WriteBuffer /\ sink # None /\ buffer # <<>> /\ ~writing
  BY DEF FlushBuffer
<1>2. /\ LinesInv' /\ TailerInv' /\ PositionInv' /\ DrainedInv'
      /\ lines' \in [Inodes -> Seq(Nat)]
      /\ \A i \in Inodes : i # sink => lines'[i] = lines[i]
      /\ \A i \in Inodes : Len(lines'[i]) >= Len(lines[i])
      /\ Len(lines'[sink]) > 0
  BY <1>1, WriteBufferKeeps
<1>3. \/ writing' = TRUE /\ torn' = sink
      \/ writing' = FALSE /\ torn' = IF torn = sink THEN None ELSE torn
  BY DEF FlushBuffer
<1>4. FilesInv'
  <2>1. \A i \in Inodes : i > inodes => i # sink
    BY FilesAreInodes, <1>1 DEF SpoolInv, FilesInv
  <2>2. file' = file /\ origin' = origin
    BY <1>1 DEF tailer, database
  <2> QED BY <1>1, <1>2, <1>3, <2>1, <2>2 DEF SpoolInv, FilesInv
<1>5. WorkerInv'
  <2>1. ASSUME torn' # None PROVE Len(lines'[torn']) > 0
    <3>1. CASE torn' = sink
      BY <1>2, <3>1
    <3>2. CASE torn' = torn /\ torn # sink
      BY <1>2, <2>1, <3>2, FilesAreInodes DEF SpoolInv, WorkerInv
    <3> QED BY <1>3, <2>1, <3>1, <3>2
  <2> QED BY <1>1, <1>3, <2>1 DEF SpoolInv, WorkerInv
<1> QED BY <1>2, <1>4, <1>5 DEF SpoolInv

LEMMA FlushEndsKeeps ==
  ASSUME SpoolInv, FlushEnds
  PROVE  SpoolInv'
<1> USE DEF FlushEnds, directory, database, tailer, history, bounds
<1>1. FilesInv'
  BY DEF SpoolInv, FilesInv
<1>2. WorkerInv'
  BY DEF SpoolInv, WorkerInv
<1> QED BY <1>1, <1>2, PartsKeep DEF SpoolInv

(* The worker opens the spool, or a new and empty file of that name.       *)
LEMMA OpenSpoolOpens ==
  ASSUME FilesInv, OpenSpool
  PROVE  /\ inodes' \in 0..MaxInodes /\ inodes <= inodes' /\ inodes' \in Nat
         /\ path' # None /\ path' \in 1..inodes' /\ sink' = path'
         /\ path' = path \/ (path = None /\ path' > inodes)
<1>1. path \in (1..inodes) \cup {None} /\ inodes \in 0..MaxInodes
  BY DEF FilesInv
<1>2. MaxInodes \in Nat /\ None \notin Inodes
  BY SpoolAssumption
<1>3. CASE path = None
  BY <1>1, <1>2, <1>3 DEF OpenSpool, CreateSpool, Inodes
<1>4. CASE path # None
  BY <1>1, <1>2, <1>4 DEF OpenSpool
<1> QED BY <1>3, <1>4

LEMMA ReopenSpoolKeeps ==
  ASSUME SpoolInv, ReopenSpool
  PROVE  SpoolInv'
<1>1. /\ UNCHANGED <<processing, database, tailer, stale, cut, logged, running, writing>>
      /\ signalled' = FALSE
      /\ WriteBuffer /\ OpenSpool /\ running /\ ~writing
      /\ torn' = IF torn = sink /\ buffer # <<>> THEN None ELSE torn
  BY DEF ReopenSpool
<1>2. sink # None
  BY <1>1 DEF SpoolInv, WorkerInv
<1>3. /\ inodes' \in 0..MaxInodes /\ inodes <= inodes' /\ inodes' \in Nat
      /\ path' # None /\ path' \in 1..inodes' /\ sink' = path'
      /\ path' = path \/ (path = None /\ path' > inodes)
  BY <1>1, OpenSpoolOpens DEF SpoolInv
<1>4. /\ LinesInv' /\ TailerInv' /\ PositionInv' /\ DrainedInv'
      /\ lines' \in [Inodes -> Seq(Nat)]
      /\ \A i \in Inodes : i # sink => lines'[i] = lines[i]
      /\ \A i \in Inodes : Len(lines'[i]) >= Len(lines[i])
  BY <1>1, <1>2, <1>3, WriteBufferKeeps
<1>5. FilesInv'
  <2>1. inodes \in Nat /\ (1..inodes) \subseteq 1..inodes'
    BY <1>3, FilesAreInodes DEF SpoolInv
  <2>2. \A i \in Inodes : i > inodes' => i > inodes /\ i # sink
    BY <1>2, <1>3, <2>1 DEF SpoolInv, FilesInv, Inodes
  <2>3. file' = file /\ origin' = origin
    BY <1>1 DEF tailer, database
  <2>4. {path, processing, torn, sink, file, origin} \subseteq (1..inodes) \cup {None}
    BY DEF SpoolInv, FilesInv
  <2>5. {path, processing, torn, sink, file, origin}' \subseteq (1..inodes') \cup {None}
    BY <1>1, <1>3, <2>1, <2>3, <2>4
  <2>6. path' # processing'
    BY <1>1, <1>3, <2>1, <2>4 DEF SpoolInv, FilesInv
  <2>7. \A i \in Inodes : i > inodes' => lines'[i] = <<>>
    BY <1>4, <2>2 DEF SpoolInv, FilesInv
  <2> QED BY <1>3, <1>4, <2>5, <2>6, <2>7 DEF FilesInv
<1>6. WorkerInv'
  <2>1. ASSUME torn' # None PROVE Len(lines'[torn']) > 0
    <3>1. torn' = torn /\ torn \in Inodes /\ Len(lines[torn]) > 0
      BY <1>1, <2>1, FilesAreInodes DEF SpoolInv, WorkerInv
    <3>2. Len(lines[torn]) \in Nat /\ lines'[torn] \in Seq(Nat)
      BY <1>4, <3>1, FilesAreInodes DEF SpoolInv
    <3> QED BY <1>4, <3>1, <3>2
  <2> QED BY <1>1, <1>2, <1>3, <2>1 DEF SpoolInv, WorkerInv
<1> QED BY <1>4, <1>5, <1>6 DEF SpoolInv

LEMMA StartOpenRestyKeeps ==
  ASSUME SpoolInv, StartOpenResty
  PROVE  SpoolInv'
<1>1. /\ UNCHANGED <<processing, lines, torn, logged, buffer, writing, running, signalled>>
      /\ UNCHANGED <<stored, checkpoint, origin, pc, file, offset, readOffset, pending>>
      /\ UNCHANGED <<stale, cut, lost>> /\ sink = None /\ OpenSpool
  BY DEF StartOpenResty, database, tailer, history
<1>2. /\ inodes' \in 0..MaxInodes /\ inodes <= inodes' /\ inodes' \in Nat
      /\ path' # None /\ path' \in 1..inodes' /\ sink' = path'
      /\ path' = path \/ (path = None /\ path' > inodes)
  BY <1>1, OpenSpoolOpens DEF SpoolInv
<1>3. FilesInv'
  <2>1. inodes \in Nat /\ (1..inodes) \subseteq 1..inodes'
    BY <1>2, FilesAreInodes DEF SpoolInv
  <2>2. \A i \in Inodes : i > inodes' => i > inodes
    BY <1>2, <2>1 DEF Inodes
  <2>3. {path, processing, torn, sink, file, origin} \subseteq (1..inodes) \cup {None}
    BY DEF SpoolInv, FilesInv
  <2>4. {path, processing, torn, sink, file, origin}' \subseteq (1..inodes') \cup {None}
    BY <1>1, <1>2, <2>1, <2>3
  <2>5. path' # processing'
    BY <1>1, <1>2, <2>1, <2>3 DEF SpoolInv, FilesInv
  <2> QED BY <1>1, <1>2, <2>2, <2>4, <2>5 DEF SpoolInv, FilesInv
<1>4. WorkerInv'
  BY <1>1, <1>2 DEF SpoolInv, WorkerInv
<1>5. TailerInv'
  BY <1>1, <1>2 DEF SpoolInv, TailerInv, Reading, ActiveFile
<1> QED BY <1>1, <1>3, <1>4, <1>5, PartsKeep DEF SpoolInv

LEMMA WritePidKeeps ==
  ASSUME SpoolInv, WritePid
  PROVE  SpoolInv'
<1> USE DEF WritePid, directory, database, tailer, history, bounds
<1>1. WorkerInv'
  BY DEF SpoolInv, WorkerInv
<1> QED BY <1>1, PartsKeep DEF SpoolInv

-----------------------------------------------------------------------------
(* The tailer's steps. *)

LEMMA Untouched ==
  ASSUME UNCHANGED <<directory, worker>>
  PROVE  UNCHANGED <<path, processing, lines, torn, inodes, logged, buffer, sink, writing,
                     running, signalled>>
BY DEF directory, worker

LEMMA StartKeeps ==
  ASSUME SpoolInv, Start
  PROVE  SpoolInv'
<1>1. /\ UNCHANGED <<path, processing, lines, torn, inodes, logged, buffer, sink, writing,
                     running, signalled>>
      /\ UNCHANGED <<stored, file, offset, readOffset, pending, stale, cut, lost>>
      /\ pc = "start" /\ pc' = "open"
  BY Untouched DEF Start, history
<1>2. \/ checkpoint' = 0 /\ origin' = None
      \/ checkpoint' = checkpoint /\ origin' = origin
  BY DEF Start, ResetCheckpoint
<1>3. FilesInv'
  BY <1>1, <1>2 DEF SpoolInv, FilesInv
<1>4. TailerInv'
  BY <1>1 DEF SpoolInv, TailerInv, Reading, ActiveFile
<1>5. PositionInv'
  BY <1>1, <1>2 DEF SpoolInv, PositionInv, Reading
<1>6. DrainedInv'
  BY <1>1 DEF DrainedInv
<1> QED BY <1>1, <1>3, <1>4, <1>5, <1>6, PartsKeep DEF SpoolInv

LEMMA OpenKeeps ==
  ASSUME SpoolInv, Open
  PROVE  SpoolInv'
<1>1. /\ UNCHANGED <<path, processing, lines, torn, inodes, logged, buffer, sink, writing,
                     running, signalled>>
      /\ UNCHANGED <<stored, cut, lost>>
      /\ pc' = "read" /\ ActiveFile # None /\ file' = ActiveFile /\ readOffset' = offset'
      /\ pending' = <<>> /\ ActiveFile' = ActiveFile
  BY Untouched DEF Open, ActiveFile
<1>2. ActiveFile \in Inodes /\ Len(lines[ActiveFile]) \in Nat /\ checkpoint \in Nat
  BY <1>1, FilesAreInodes DEF SpoolInv, PositionInv, ActiveFile
<1>3. \/ /\ checkpoint > Len(lines[ActiveFile]) /\ offset' = 0 /\ stale' = stale
         /\ \/ checkpoint' = 0 /\ origin' = None
            \/ checkpoint' = checkpoint /\ origin' = origin
      \/ /\ checkpoint <= Len(lines[ActiveFile]) /\ offset' = checkpoint
         /\ checkpoint' = checkpoint /\ origin' = origin
         /\ stale' = (stale \/ (checkpoint > 0 /\ origin # ActiveFile))
  BY <1>2 DEF Open, ResetCheckpoint
<1>4. offset' \in Nat /\ offset' <= Len(lines[ActiveFile])
  BY <1>2, <1>3
<1>5. FilesInv'
  <2>1. ActiveFile \in {path, processing}
    BY DEF ActiveFile
  <2> QED BY <1>1, <1>3, <2>1 DEF SpoolInv, FilesInv
<1>6. LinesInv'
  <2>1. pending' \in Seq(Nat) /\ EventsIn(pending') = {}
    BY <1>1 DEF EventsIn
  <2> QED BY <1>1, <2>1 DEF SpoolInv, LinesInv
<1>7. WorkerInv'
  <2>1. stale' \in BOOLEAN
    BY <1>3 DEF SpoolInv, WorkerInv
  <2> QED BY <1>1, <2>1 DEF SpoolInv, WorkerInv
<1>8. TailerInv'
  <2>1. Between(lines[ActiveFile], offset', offset') = {}
    BY <1>4, BetweenEmpty
  <2> QED BY <1>1, <1>4, <2>1 DEF TailerInv, Reading
<1>9. PositionInv'
  <2>1. /\ checkpoint \in Nat /\ 0 \in Nat
        /\ origin = None => checkpoint = 0
        /\ origin # None => checkpoint <= Len(lines[origin])
        /\ ~stale /\ origin # None =>
             Between(lines[origin], 0, checkpoint) \subseteq EventsIn(stored)
    BY DEF SpoolInv, PositionInv
  <2>2. ~stale' => ~stale
    BY <1>3
  <2>3. ~stale' => offset' = IF origin' = ActiveFile THEN checkpoint' ELSE 0
    <3>1. CASE checkpoint > Len(lines[ActiveFile])
      <4>1. origin # ActiveFile
        BY <1>1, <1>2, <2>1, <3>1
      <4> QED BY <1>2, <1>3, <3>1, <4>1
    <3>2. CASE checkpoint <= Len(lines[ActiveFile])
      <4>1. /\ offset' = checkpoint /\ checkpoint' = checkpoint /\ origin' = origin
            /\ stale' = (stale \/ (checkpoint > 0 /\ origin # ActiveFile))
        BY <1>2, <1>3, <3>2
      <4>2. ~stale' => ~(checkpoint > 0) \/ origin = ActiveFile
        BY <4>1
      <4>3. ~(checkpoint > 0) => checkpoint = 0
        BY <2>1
      <4> QED BY <4>1, <4>2, <4>3
    <3> QED BY <1>2, <3>1, <3>2
  <2> QED BY <1>1, <1>3, <2>1, <2>2, <2>3 DEF PositionInv
<1>10. DrainedInv'
  BY <1>1 DEF DrainedInv
<1> QED BY <1>5, <1>6, <1>7, <1>8, <1>9, <1>10 DEF SpoolInv

(* What is known of the file while the tailer reads it.                    *)
LEMMA FileIsRead ==
  ASSUME SpoolInv, Reading
  PROVE  /\ file \in Inodes /\ file # None /\ lines[file] \in Seq(Nat)
         /\ Len(lines[file]) \in Nat /\ Complete(file) \in Nat
         /\ Complete(file) <= Len(lines[file])
         /\ torn # file => Complete(file) = Len(lines[file])
         /\ offset \in Nat /\ readOffset \in Nat /\ offset <= readOffset
         /\ readOffset <= Len(lines[file])
<1>1. /\ file # None /\ offset \in Nat /\ readOffset \in Nat
      /\ offset <= readOffset /\ readOffset <= Len(lines[file])
  BY DEF SpoolInv, TailerInv
<1>2. file \in Inodes /\ lines[file] \in Seq(Nat) /\ Len(lines[file]) \in Nat
  BY <1>1, FilesAreInodes DEF SpoolInv
<1>3. torn = file => Len(lines[file]) > 0
  BY <1>1 DEF SpoolInv, WorkerInv
<1> QED BY <1>1, <1>2, <1>3 DEF Complete

(* Lines and position are committed together.                              *)
LEMMA CommitKeeps ==
  ASSUME SpoolInv, Reading, UNCHANGED <<directory, worker, file, history>>,
         NEW batch \in Seq(Nat), NEW position \in Nat, Commit(batch, position),
         offset <= position, position <= Len(lines[file]),
         Between(lines[file], offset, position) \subseteq EventsIn(batch),
         EventsIn(batch) \subseteq 1..logged,
         pc' \in {"read", "end"}, pc' = "end" => position = Len(lines[file])
  PROVE  SpoolInv'
<1>1. /\ UNCHANGED <<path, processing, lines, torn, inodes, logged, buffer, sink, writing,
                     running, signalled, file, stale, cut, lost>>
      /\ stored' = stored \o batch /\ checkpoint' = position /\ origin' = file
      /\ offset' = position /\ readOffset' = position /\ pending' = <<>>
      /\ Reading' /\ ActiveFile' = ActiveFile
  BY Untouched DEF history, Commit, Reading, ActiveFile
<1>2. /\ file \in Inodes /\ file # None /\ lines[file] \in Seq(Nat)
      /\ Len(lines[file]) \in Nat /\ offset \in Nat
  BY FileIsRead
<1>3. stored' \in Seq(Nat) /\ EventsIn(stored') = EventsIn(stored) \cup EventsIn(batch)
  <2>1. stored \in Seq(Nat) /\ 0 \in Nat
    BY DEF SpoolInv, LinesInv
  <2> QED BY <1>1, <2>1, ConcatEvents, BetweenGrows
<1>4. FilesInv'
  BY <1>1 DEF SpoolInv, FilesInv
<1>5. LinesInv'
  <2>1. pending' \in Seq(Nat) /\ EventsIn(pending') = {}
    BY <1>1 DEF EventsIn
  <2> QED BY <1>1, <1>3, <2>1 DEF SpoolInv, LinesInv
<1>6. WorkerInv'
  BY <1>1, PartsKeep
<1>7. TailerInv'
  <2>1. Between(lines[file], position, position) = {}
    BY BetweenEmpty
  <2>2. file = ActiveFile
    BY DEF SpoolInv, TailerInv
  <2> QED BY <1>1, <1>2, <2>1, <2>2 DEF TailerInv, Reading
<1>8. PositionInv'
  <2>1. ASSUME ~stale PROVE Between(lines[file], 0, position) \subseteq EventsIn(stored')
    <3>1. Between(lines[file], 0, offset) \subseteq EventsIn(stored)
      <4>1. CASE origin = file
        BY <1>2, <2>1, <4>1 DEF SpoolInv, PositionInv
      <4>2. CASE origin # file
        <5>1. offset = 0 /\ offset \in Nat /\ offset <= offset
          BY <1>2, <2>1, <4>2 DEF SpoolInv, PositionInv
        <5> QED BY <5>1, BetweenEmpty
      <4> QED BY <4>1, <4>2
    <3>2. 0 \in Nat /\ 0 <= offset
      BY <1>2
    <3>3. Between(lines[file], 0, position) =
            Between(lines[file], 0, offset) \cup Between(lines[file], offset, position)
      BY <1>2, <3>2, BetweenSplits
    <3> QED BY <1>3, <3>1, <3>3
  <2> QED BY <1>1, <1>2, <2>1 DEF PositionInv
<1>9. DrainedInv'
  <2>1. pc' = "end" => Between(lines[file], position, Len(lines[file])) = {}
    BY <1>2, BetweenEmpty
  <2> QED BY <1>1, <2>1 DEF DrainedInv
<1> QED BY <1>4, <1>5, <1>6, <1>7, <1>8, <1>9 DEF SpoolInv

(* A transaction that fails takes the tailer back to the position before.  *)
LEMMA RewindKeeps ==
  ASSUME SpoolInv, Reading, UNCHANGED <<directory, worker, file, history>>, Rewind,
         pc' = "read"
  PROVE  SpoolInv'
<1>1. /\ UNCHANGED <<path, processing, lines, torn, inodes, logged, buffer, sink, writing,
                     running, signalled, file, stale, cut, lost, stored, checkpoint, origin,
                     offset>>
      /\ readOffset' = offset /\ pending' = <<>> /\ Reading' /\ ActiveFile' = ActiveFile
  BY Untouched DEF history, database, Rewind, Reading, ActiveFile
<1>2. /\ file # None /\ Len(lines[file]) \in Nat /\ offset \in Nat
      /\ offset <= Len(lines[file])
  BY FileIsRead
<1>3. LinesInv'
  <2>1. pending' \in Seq(Nat) /\ EventsIn(pending') = {}
    BY <1>1 DEF EventsIn
  <2> QED BY <1>1, <2>1 DEF SpoolInv, LinesInv
<1>4. TailerInv'
  <2>1. Between(lines[file], offset, offset) = {}
    BY <1>2, BetweenEmpty
  <2>2. file = ActiveFile
    BY DEF SpoolInv, TailerInv
  <2> QED BY <1>1, <1>2, <2>1, <2>2 DEF TailerInv, Reading
<1>5. PositionInv'
  BY <1>1 DEF SpoolInv, PositionInv
<1>6. DrainedInv'
  BY DEF DrainedInv
<1> QED BY <1>1, <1>3, <1>4, <1>5, <1>6, PartsKeep DEF SpoolInv

(* One more line of the file goes to the batch, unless it is Junk.         *)
LEMMA LineIsParsed ==
  ASSUME SpoolInv, Reading, readOffset < Complete(file)
  PROVE  LET batch == Parsed(lines[file][readOffset + 1]) IN
         /\ readOffset + 1 \in Nat /\ readOffset + 1 <= Len(lines[file])
         /\ batch \in Seq(Nat) /\ EventsIn(batch) \subseteq 1..logged
         /\ Between(lines[file], offset, readOffset + 1) \subseteq EventsIn(batch)
<1> DEFINE line == lines[file][readOffset + 1]
           batch == Parsed(line)
<1>1. /\ file \in Inodes /\ lines[file] \in Seq(Nat) /\ Len(lines[file]) \in Nat
      /\ readOffset \in Nat /\ offset \in Nat /\ offset <= readOffset
      /\ Complete(file) \in Nat /\ Complete(file) <= Len(lines[file])
  BY FileIsRead
<1>2. readOffset + 1 \in 1..Len(lines[file])
  BY <1>1
<1>3. line \in Nat
  BY <1>1, <1>2
<1>4. /\ pending \in Seq(Nat) /\ EventsIn(pending) \subseteq 1..logged
      /\ EventsIn(lines[file]) \subseteq 1..logged
      /\ Between(lines[file], offset, readOffset) \subseteq EventsIn(pending)
  BY <1>1 DEF SpoolInv, LinesInv, TailerInv
<1>5. line # Junk => line \in EventsIn(lines[file])
  BY <1>1, <1>2 DEF EventsIn
<1>6. batch \in Seq(Nat) /\ EventsIn(batch) = EventsIn(pending) \cup ({line} \ {Junk})
  <2>1. Append(pending, line) \in Seq(Nat)
        /\ EventsIn(Append(pending, line)) = EventsIn(pending) \cup ({line} \ {Junk})
    BY <1>3, <1>4, AppendEvents
  <2> QED BY <1>4, <2>1 DEF Parsed
<1>7. Between(lines[file], readOffset, readOffset + 1) = {line} \ {Junk}
  <2>1. (readOffset + 1)..(readOffset + 1) = {readOffset + 1}
    BY <1>1
  <2> QED BY <2>1 DEF Between
<1>8. Between(lines[file], offset, readOffset + 1) =
        Between(lines[file], offset, readOffset)
          \cup Between(lines[file], readOffset, readOffset + 1)
  <2>1. readOffset + 1 \in Nat /\ readOffset <= readOffset + 1
    BY <1>1
  <2> QED BY <1>1, <2>1, BetweenSplits
<1> QED BY <1>1, <1>2, <1>4, <1>5, <1>6, <1>7, <1>8

LEMMA ReadLineKeeps ==
  ASSUME SpoolInv, ReadLine
  PROVE  SpoolInv'
<1> DEFINE batch == Parsed(lines[file][readOffset + 1])
<1>1. /\ UNCHANGED <<directory, worker, pc, file, history>>
      /\ pc = "read" /\ readOffset < Complete(file) /\ Reading
  BY DEF ReadLine, Reading
<1>2. /\ readOffset + 1 \in Nat /\ readOffset + 1 <= Len(lines[file])
      /\ batch \in Seq(Nat) /\ EventsIn(batch) \subseteq 1..logged
      /\ Between(lines[file], offset, readOffset + 1) \subseteq EventsIn(batch)
  BY <1>1, LineIsParsed
<1>3. /\ offset \in Nat /\ readOffset \in Nat /\ offset <= readOffset
  BY <1>1, FileIsRead
<1>4. \/ pending' = batch /\ readOffset' = readOffset + 1 /\ UNCHANGED <<database, offset>>
      \/ Commit(batch, readOffset + 1)
      \/ Rewind
  BY DEF ReadLine
<1> HIDE DEF batch
<1>5. CASE pending' = batch /\ readOffset' = readOffset + 1 /\ UNCHANGED <<database, offset>>
  <2>1. /\ UNCHANGED <<path, processing, lines, torn, inodes, logged, buffer, sink, writing,
                       running, signalled, stale, cut, lost, file, stored, checkpoint, origin,
                       offset, pc>>
        /\ Reading' /\ ActiveFile' = ActiveFile
    BY <1>1, <1>5, Untouched DEF history, database, Reading, ActiveFile
  <2>2. LinesInv'
    BY <1>2, <1>5, <2>1 DEF SpoolInv, LinesInv
  <2>3. TailerInv'
    BY <1>1, <1>2, <1>3, <1>5, <2>1 DEF SpoolInv, TailerInv
  <2> QED BY <2>1, <2>2, <2>3, PartsKeep DEF SpoolInv
<1>6. CASE Commit(batch, readOffset + 1)
  <2>1. offset <= readOffset + 1 /\ pc' = "read"
    BY <1>1, <1>3
  <2> QED BY <1>1, <1>2, <1>6, <2>1, CommitKeeps
<1>7. CASE Rewind
  BY <1>1, <1>7, RewindKeeps
<1> QED BY <1>4, <1>5, <1>6, <1>7

LEMMA ReachEndKeeps ==
  ASSUME SpoolInv, ReachEnd
  PROVE  SpoolInv'
<1>1. /\ UNCHANGED <<directory, worker, file, history>>
      /\ pc = "read" /\ readOffset = Complete(file) /\ Reading
      /\ pc' = IF readOffset' < readOffset \/ torn = file THEN "read" ELSE "end"
  BY DEF ReachEnd, Reading
<1>2. /\ file \in Inodes /\ lines[file] \in Seq(Nat) /\ Len(lines[file]) \in Nat
      /\ offset \in Nat /\ readOffset \in Nat /\ offset <= readOffset
      /\ readOffset <= Len(lines[file])
      /\ torn # file => readOffset = Len(lines[file])
  BY <1>1, FileIsRead
<1>3. \/ readOffset = offset /\ UNCHANGED <<database, offset, readOffset, pending>>
      \/ readOffset > offset /\ Commit(pending, readOffset)
      \/ readOffset > offset /\ Rewind
  BY DEF ReachEnd
<1>4. CASE readOffset = offset /\ UNCHANGED <<database, offset, readOffset, pending>>
  <2>1. /\ UNCHANGED <<path, processing, lines, torn, inodes, logged, buffer, sink, writing,
                       running, signalled, stale, cut, lost, file, stored, checkpoint, origin,
                       offset, readOffset, pending>>
        /\ Reading' /\ ActiveFile' = ActiveFile
    BY <1>1, <1>4, Untouched DEF history, database, Reading, ActiveFile
  <2>2. TailerInv'
    BY <1>1, <2>1 DEF SpoolInv, TailerInv, Reading
  <2>3. PositionInv'
    BY <1>1, <2>1 DEF SpoolInv, PositionInv
  <2>4. DrainedInv'
    <3>1. pc' = "end" => Len(lines[file]) = offset
      BY <1>1, <1>2, <1>4
    <3>2. pc' = "end" => Between(lines[file], offset, Len(lines[file])) = {}
      BY <1>2, <3>1, BetweenEmpty
    <3> QED BY <2>1, <3>2 DEF DrainedInv
  <2> QED BY <2>1, <2>2, <2>3, <2>4, PartsKeep DEF SpoolInv
<1>5. CASE readOffset > offset /\ Commit(pending, readOffset)
  <2>1. /\ pending \in Seq(Nat) /\ EventsIn(pending) \subseteq 1..logged
        /\ Between(lines[file], offset, readOffset) \subseteq EventsIn(pending)
    BY <1>1 DEF SpoolInv, LinesInv, TailerInv
  <2>2. pc' \in {"read", "end"} /\ (pc' = "end" => readOffset = Len(lines[file]))
    BY <1>1, <1>2
  <2> QED BY <1>1, <1>2, <1>5, <2>1, <2>2, CommitKeeps
<1>6. CASE readOffset > offset /\ Rewind
  <2>1. readOffset' < readOffset
    BY <1>2, <1>6 DEF Rewind
  <2> QED BY <1>1, <1>6, <2>1, RewindKeeps
<1> QED BY <1>3, <1>4, <1>5, <1>6

LEMMA WaitKeeps ==
  ASSUME SpoolInv, Wait
  PROVE  SpoolInv'
<1>1. /\ UNCHANGED <<path, processing, lines, torn, inodes, logged, buffer, sink, writing,
                     running, signalled, stale, cut, lost, stored, checkpoint, origin, file,
                     offset, readOffset, pending>>
      /\ pc = "end" /\ pc' = "read" /\ Reading /\ Reading' /\ ActiveFile' = ActiveFile
  BY Untouched DEF Wait, database, history, Reading, ActiveFile
<1>2. TailerInv'
  BY <1>1 DEF SpoolInv, TailerInv
<1>3. PositionInv'
  BY <1>1 DEF SpoolInv, PositionInv
<1>4. DrainedInv'
  BY <1>1 DEF DrainedInv
<1> QED BY <1>1, <1>2, <1>3, <1>4, PartsKeep DEF SpoolInv

LEMMA RemoveProcessingKeeps ==
  ASSUME SpoolInv, RemoveProcessing
  PROVE  SpoolInv'
<1>1. /\ UNCHANGED <<path, lines, torn, inodes, logged, buffer, sink, writing, running,
                     signalled, stale, cut, lost, stored, checkpoint, origin, offset,
                     readOffset, pending>>
      /\ processing' = None /\ file' = None /\ pc' = "reset"
  BY DEF RemoveProcessing, worker, database, history
<1>2. FilesInv'
  BY <1>1 DEF SpoolInv, FilesInv
<1>3. TailerInv'
  BY <1>1 DEF SpoolInv, TailerInv, Reading
<1>4. PositionInv'
  BY <1>1 DEF SpoolInv, PositionInv, Reading
<1>5. DrainedInv'
  BY <1>1 DEF DrainedInv
<1> QED BY <1>1, <1>2, <1>3, <1>4, <1>5, PartsKeep DEF SpoolInv

LEMMA ResetKeeps ==
  ASSUME SpoolInv, Reset
  PROVE  SpoolInv'
<1>1. /\ UNCHANGED <<path, processing, lines, torn, inodes, logged, buffer, sink, writing,
                     running, signalled>>
      /\ UNCHANGED <<stored, file, offset, readOffset, pending, stale, cut, lost>>
      /\ pc = "reset" /\ pc' = "open"
  BY Untouched DEF Reset, history
<1>2. \/ checkpoint' = 0 /\ origin' = None
      \/ checkpoint' = checkpoint /\ origin' = origin
  BY DEF Reset, ResetCheckpoint
<1>3. FilesInv'
  BY <1>1, <1>2 DEF SpoolInv, FilesInv
<1>4. TailerInv'
  BY <1>1 DEF SpoolInv, TailerInv, Reading, ActiveFile
<1>5. PositionInv'
  BY <1>1, <1>2 DEF SpoolInv, PositionInv, Reading
<1>6. DrainedInv'
  BY <1>1 DEF DrainedInv
<1> QED BY <1>1, <1>3, <1>4, <1>5, <1>6, PartsKeep DEF SpoolInv

LEMMA RotateKeeps ==
  ASSUME SpoolInv, Rotate
  PROVE  SpoolInv' /\ processing = None
<1>1. /\ UNCHANGED <<lines, torn, inodes, logged, buffer, sink, writing, running,
                     signalled, stale, cut, lost, stored, checkpoint, origin, offset,
                     readOffset, pending>>
      /\ pc = "end" /\ file # processing
      /\ processing' = path /\ path' = None /\ file' = None /\ pc' = "reopen"
  BY DEF Rotate, worker, database, history
<1>2. processing = None /\ path # None
  BY <1>1 DEF SpoolInv, TailerInv, Reading, ActiveFile
<1>3. FilesInv'
  BY <1>1, <1>2 DEF SpoolInv, FilesInv
<1>4. TailerInv'
  BY <1>1, <1>2 DEF SpoolInv, TailerInv, Reading
<1>5. PositionInv'
  BY <1>1 DEF SpoolInv, PositionInv, Reading
<1>6. DrainedInv'
  BY <1>1 DEF DrainedInv
<1> QED BY <1>1, <1>2, <1>3, <1>4, <1>5, <1>6, PartsKeep DEF SpoolInv

LEMMA ReopenLogsKeeps ==
  ASSUME SpoolInv, ReopenLogs
  PROVE  SpoolInv'
<1>1. /\ UNCHANGED <<lines, torn, inodes, logged, buffer, sink, writing, running, stale, cut,
                     lost, stored, checkpoint, origin, file, offset, readOffset, pending>>
      /\ pc = "reopen"
      /\ \/ signalled' = (signalled \/ running) /\ pc' = "create"
            /\ path' = path /\ processing' = processing
         \/ path' = processing /\ processing' = None /\ pc' = "open"
            /\ signalled' = signalled
  BY DEF ReopenLogs, database, history
<1>2. FilesInv'
  BY <1>1 DEF SpoolInv, FilesInv
<1>3. WorkerInv'
  BY <1>1 DEF SpoolInv, WorkerInv
<1>4. TailerInv'
  BY <1>1 DEF SpoolInv, TailerInv, Reading
<1>5. PositionInv'
  BY <1>1 DEF SpoolInv, PositionInv, Reading
<1>6. DrainedInv'
  BY <1>1 DEF DrainedInv
<1> QED BY <1>1, <1>2, <1>3, <1>4, <1>5, <1>6, PartsKeep DEF SpoolInv

LEMMA CreateKeeps ==
  ASSUME SpoolInv, Create
  PROVE  SpoolInv' /\ (path # None => path' = path)
<1>1. /\ UNCHANGED <<processing, lines, torn, logged, buffer, sink, writing, running,
                     signalled, stale, cut, lost, stored, checkpoint, origin, file, offset,
                     readOffset, pending>>
      /\ pc = "create" /\ pc' = "open"
  BY DEF Create, worker, database, history
<1>2. \/ path' = path /\ inodes' = inodes
      \/ path = None /\ inodes < MaxInodes /\ inodes' = inodes + 1 /\ path' = inodes + 1
  BY DEF Create, CreateSpool
<1>3. FilesInv'
  <2>0. inodes \in Nat /\ inodes \in 0..MaxInodes /\ MaxInodes \in Nat /\ None \notin Inodes
    BY FilesAreInodes DEF SpoolInv, FilesInv
  <2>1. inodes' \in 0..MaxInodes /\ inodes <= inodes' /\ (1..inodes) \subseteq 1..inodes'
    BY <1>2, <2>0
  <2>2. path' \in (1..inodes') \cup {None}
    BY <1>2, <2>0, <2>1 DEF SpoolInv, FilesInv
  <2>3. {path, processing, torn, sink, file, origin} \subseteq (1..inodes) \cup {None}
    BY DEF SpoolInv, FilesInv
  <2>4. path' # None => path' # processing
    BY <1>2, <2>0, <2>3 DEF SpoolInv, FilesInv, Inodes
  <2>5. \A i \in Inodes : i > inodes' => i > inodes
    BY <2>0, <2>1 DEF Inodes
  <2>6. {path, processing, torn, sink, file, origin}' \subseteq (1..inodes') \cup {None}
    BY <1>1, <2>1, <2>2, <2>3
  <2> QED BY <1>1, <2>1, <2>4, <2>5, <2>6 DEF SpoolInv, FilesInv
<1>4. TailerInv'
  BY <1>1 DEF SpoolInv, TailerInv, Reading
<1>5. PositionInv'
  BY <1>1 DEF SpoolInv, PositionInv, Reading
<1>6. DrainedInv'
  BY <1>1 DEF DrainedInv
<1> QED BY <1>1, <1>2, <1>3, <1>4, <1>5, <1>6, PartsKeep DEF SpoolInv

-----------------------------------------------------------------------------
(* The container dies. *)

(* Without a stale position, what is unread of a file is what lies beyond  *)
(* the checkpoint, if the checkpoint is in that file, or all of it.        *)
From(i) == IF i = origin THEN checkpoint ELSE 0

LEMMA UnreadFrom ==
  ASSUME SpoolInv, NEW i \in Inodes
  PROVE  /\ Unread(i) \subseteq EventsIn(lines[i])
         /\ From(i) \in Nat /\ From(i) <= Len(lines[i])
         /\ ~stale => Unread(i) = Between(lines[i], From(i), Len(lines[i]))
<1>1. lines[i] \in Seq(Nat) /\ Len(lines[i]) \in Nat /\ i # None
  BY FilesAreInodes DEF SpoolInv
<1>2. checkpoint \in Nat /\ offset \in Nat /\ 0 \in Nat
  BY DEF SpoolInv, PositionInv, TailerInv
<1> DEFINE a == IF i = file THEN offset ELSE IF i = origin THEN checkpoint ELSE 0
<1>3. Unread(i) = EventsIn(SubSeq(lines[i], a + 1, Len(lines[i]))) /\ a \in Nat
  BY <1>1, <1>2 DEF Unread
<1>4. Unread(i) = Between(lines[i], a, Len(lines[i]))
  <2> HIDE DEF a
  <2>1. Len(lines[i]) <= Len(lines[i])
    BY <1>1
  <2> QED BY <1>1, <1>3, <2>1, SubEvents
<1>5. Unread(i) \subseteq EventsIn(lines[i])
  <2> HIDE DEF a
  <2>1. Len(lines[i]) <= Len(lines[i])
    BY <1>1
  <2> QED BY <1>1, <1>3, <1>4, <2>1, BetweenInside
<1>6. From(i) \in Nat /\ From(i) <= Len(lines[i])
  BY <1>1, <1>2 DEF From, SpoolInv, PositionInv
<1>7. ~stale => a = From(i)
  <2>1. i = file => Reading
    BY <1>1 DEF SpoolInv, TailerInv
  <2> QED BY <2>1 DEF From, SpoolInv, PositionInv
<1> QED BY <1>4, <1>5, <1>6, <1>7

(* A crash inside a write leaves a line that cannot be parsed.             *)
LEMMA CrashCutsLine ==
  ASSUME SpoolInv, NEW recreated \in BOOLEAN, Crash(recreated)
  PROVE  /\ lines' \in [Inodes -> Seq(Nat)]
         /\ \A i \in Inodes :
              /\ Len(lines'[i]) = Len(lines[i])
              /\ lines[i] = <<>> => lines'[i] = <<>>
              /\ EventsIn(lines'[i]) \subseteq EventsIn(lines[i])
              /\ \A a, b \in Nat : b <= Len(lines[i]) =>
                   /\ Between(lines'[i], a, b) \subseteq Between(lines[i], a, b)
                   /\ Between(lines[i], a, b) \subseteq Between(lines'[i], a, b) \cup lost'
<1>1. lines \in [Inodes -> Seq(Nat)]
  BY DEF SpoolInv, FilesInv
<1>2. CASE ~writing
  <2>1. lines' = lines
    BY <1>2 DEF Crash
  <2> QED BY <1>1, <2>1
<1>3. CASE writing
  <2> DEFINE old == lines[sink]
             n == Len(lines[sink])
             new == [old EXCEPT ![n] = Junk]
  <2>1. sink \in Inodes /\ old \in Seq(Nat) /\ n \in Nat /\ n > 0
    BY <1>3, FilesAreInodes DEF SpoolInv, WorkerInv
  <2>2. lines' = [lines EXCEPT ![sink] = new]
    BY <1>3 DEF Crash
  <2>3. {old[n]} \ {Junk} \subseteq lost'
    BY <1>3 DEF Crash
  <2>4. new \in Seq(Nat) /\ Len(new) = n
    BY <2>1 DEF Junk
  <2>5. \A k \in 1..n : new[k] = IF k = n THEN Junk ELSE old[k]
    BY <2>1
  <2>6. \A i \in Inodes : lines'[i] = IF i = sink THEN new ELSE lines[i]
    BY <1>1, <2>1, <2>2
  <2>7. lines' \in [Inodes -> Seq(Nat)]
    BY <1>1, <2>1, <2>2, <2>4
  <2> HIDE DEF new
  <2>8. ASSUME NEW a \in Nat, NEW b \in Nat, b <= n
        PROVE  /\ Between(new, a, b) \subseteq Between(old, a, b)
               /\ Between(old, a, b) \subseteq Between(new, a, b) \cup lost'
    <3>1. \A k \in (a + 1)..b : k \in 1..n
      BY <2>1, <2>8
    <3>2. \A k \in (a + 1)..b : new[k] = IF k = n THEN Junk ELSE old[k]
      BY <2>5, <3>1
    <3> QED BY <2>3, <3>2 DEF Between
  <2>9. EventsIn(new) \subseteq EventsIn(old)
    <3>1. 0 \in Nat /\ n <= n
      BY <2>1
    <3>2. Between(new, 0, n) \subseteq Between(old, 0, n)
      BY <2>1, <2>8, <3>1
    <3> QED BY <2>1, <2>4, <3>2, SeqEvents
  <2>10. old # <<>>
    BY <2>1
  <2>11. ASSUME NEW i \in Inodes
        PROVE  /\ Len(lines'[i]) = Len(lines[i])
               /\ lines[i] = <<>> => lines'[i] = <<>>
               /\ EventsIn(lines'[i]) \subseteq EventsIn(lines[i])
               /\ \A a, b \in Nat : b <= Len(lines[i]) =>
                    /\ Between(lines'[i], a, b) \subseteq Between(lines[i], a, b)
                    /\ Between(lines[i], a, b) \subseteq Between(lines'[i], a, b) \cup lost'
    <3>1. CASE i = sink
      <4>1. lines'[i] = new /\ lines[i] = old
        BY <2>6, <3>1
      <4> QED BY <2>4, <2>8, <2>9, <2>10, <4>1
    <3>2. CASE i # sink
      <4>1. lines'[i] = lines[i]
        BY <2>6, <3>2
      <4> QED BY <4>1
    <3> QED BY <3>1, <3>2
  <2> QED BY <2>7, <2>11
<1> QED BY <1>2, <1>3

LEMMA CrashKeeps ==
  ASSUME SpoolInv, NEW recreated \in BOOLEAN, Crash(recreated)
  PROVE  SpoolInv'
<1>1. /\ sink' = None /\ buffer' = <<>> /\ signalled' = FALSE /\ writing' = FALSE
      /\ running' = FALSE /\ pc' = "start" /\ file' = None /\ offset' = 0
      /\ readOffset' = 0 /\ pending' = <<>>
      /\ inodes' = inodes /\ logged' = logged /\ stored' = stored /\ stale' = stale
      /\ checkpoint' = checkpoint /\ origin' = origin
      /\ cut' = (cut \/ (~recreated /\ processing # None /\ path = None))
  BY DEF Crash, database
<1>2. \/ path' = None /\ processing' = None /\ torn' = None
      \/ path' = path /\ processing' = processing /\ torn' = torn
  BY DEF Crash
<1>3. /\ lines' \in [Inodes -> Seq(Nat)]
      /\ \A i \in Inodes :
           /\ Len(lines'[i]) = Len(lines[i])
           /\ lines[i] = <<>> => lines'[i] = <<>>
           /\ EventsIn(lines'[i]) \subseteq EventsIn(lines[i])
           /\ \A a, b \in Nat : b <= Len(lines[i]) =>
                Between(lines'[i], a, b) \subseteq Between(lines[i], a, b)
  BY CrashCutsLine
<1>4. FilesInv'
  BY <1>1, <1>2, <1>3 DEF SpoolInv, FilesInv
<1>5. LinesInv'
  <2>1. EventsIn(<<>>) = {} /\ <<>> \in Seq(Nat)
    BY DEF EventsIn
  <2>2. \A i \in Inodes : EventsIn(lines[i]) \subseteq 1..logged
    BY DEF SpoolInv, LinesInv
  <2>3. /\ Unread(path) \subseteq 1..logged /\ Unread(processing) \subseteq 1..logged
    <3>1. Unread(None) = {}
      BY DEF Unread
    <3>2. {path, processing} \subseteq Inodes \cup {None}
      BY FilesAreInodes DEF SpoolInv
    <3> QED BY <2>2, <3>1, <3>2, UnreadFrom
  <2>4. writing => {lines[sink][Len(lines[sink])]} \ {Junk} \subseteq 1..logged
    <3>1. SUFFICES ASSUME writing PROVE {lines[sink][Len(lines[sink])]} \ {Junk} \subseteq 1..logged
      OBVIOUS
    <3>2. sink \in Inodes /\ lines[sink] \in Seq(Nat) /\ Len(lines[sink]) \in Nat /\ Len(lines[sink]) > 0
      BY <3>1, FilesAreInodes DEF SpoolInv, WorkerInv
    <3>3. Len(lines[sink]) \in DOMAIN lines[sink]
      BY <3>2
    <3>4. {lines[sink][Len(lines[sink])]} \ {Junk} \subseteq EventsIn(lines[sink])
      BY <3>3 DEF EventsIn
    <3> QED BY <2>2, <3>2, <3>4
  <2>5. lost' \subseteq 1..logged
    <3>1. lost \cup EventsIn(buffer) \subseteq 1..logged
      BY DEF SpoolInv, LinesInv
    <3> QED BY <2>3, <2>4, <3>1 DEF Crash
  <2>6. \A i \in Inodes : EventsIn(lines'[i]) \subseteq 1..logged
    BY <1>3, <2>2
  <2> QED BY <1>1, <2>1, <2>5, <2>6 DEF SpoolInv, LinesInv
<1>6. WorkerInv'
  <2>1. ASSUME torn' # None PROVE Len(lines'[torn']) > 0
    <3>1. torn' = torn /\ torn \in Inodes /\ Len(lines[torn]) > 0
      BY <1>2, <2>1, FilesAreInodes DEF SpoolInv, WorkerInv
    <3> QED BY <1>3, <3>1
  <2>2. cut' \in BOOLEAN /\ stale' \in BOOLEAN
    BY <1>1 DEF SpoolInv, WorkerInv
  <2> QED BY <1>1, <2>1, <2>2 DEF WorkerInv
<1>7. TailerInv'
  BY <1>1 DEF TailerInv, Reading
<1>8. PositionInv'
  <2>1. ASSUME origin # None
        PROVE  /\ Len(lines'[origin]) = Len(lines[origin])
               /\ Between(lines'[origin], 0, checkpoint) \subseteq Between(lines[origin], 0, checkpoint)
    <3>1. /\ origin \in Inodes /\ checkpoint \in Nat /\ 0 \in Nat
          /\ checkpoint <= Len(lines[origin])
      BY <2>1, FilesAreInodes DEF SpoolInv, PositionInv
    <3> QED BY <1>3, <3>1
  <2> QED BY <1>1, <2>1 DEF SpoolInv, PositionInv, Reading
<1>9. DrainedInv'
  BY <1>1 DEF DrainedInv
<1> QED BY <1>4, <1>5, <1>6, <1>7, <1>8, <1>9 DEF SpoolInv

-----------------------------------------------------------------------------
(* The theorems. *)

LEMMA InitSpoolInv == Init => SpoolInv
<1>1. SUFFICES ASSUME Init PROVE SpoolInv
  OBVIOUS
<1>2. /\ MaxInodes \in Nat /\ MaxEvents \in Nat
      /\ EventsIn(<<>>) = {} /\ <<>> \in Seq(Nat)
  BY SpoolAssumption DEF EventsIn
<1>3. \A i \in Inodes : lines[i] = <<>>
  BY <1>1 DEF Init
<1>4. FilesInv
  <2>1. lines \in [Inodes -> Seq(Nat)]
    BY <1>1, <1>2 DEF Init
  <2> QED BY <1>1, <1>2, <1>3, <2>1 DEF Init, FilesInv
<1>5. LinesInv
  BY <1>1, <1>2, <1>3 DEF Init, LinesInv
<1>6. WorkerInv /\ TailerInv /\ PositionInv /\ DrainedInv
  BY <1>1 DEF Init, WorkerInv, TailerInv, PositionInv, DrainedInv, Reading
<1> QED BY <1>4, <1>5, <1>6 DEF SpoolInv

LEMMA NextSpoolInv == SpoolInv /\ [Next]_vars => SpoolInv'
<1>1. SUFFICES ASSUME SpoolInv, [Next]_vars PROVE SpoolInv'
  OBVIOUS
<1>2. CASE UNCHANGED vars
  <2>1. UNCHANGED <<directory, worker, database, tailer, history>>
    BY <1>2 DEF vars
  <2>2. UNCHANGED <<path, processing, lines, torn, inodes, logged, buffer, sink, writing, running,
                    signalled, stored, checkpoint, origin, pc, file, offset, readOffset, pending,
                    stale, cut, lost>>
    BY <2>1 DEF directory, worker, database, tailer, history
  <2> QED BY <1>1, <2>2, PartsKeep DEF SpoolInv
<1>3. CASE OpenResty
  BY <1>1, <1>3, LogRequestKeeps, FlushBufferKeeps, FlushEndsKeeps, ReopenSpoolKeeps,
     StartOpenRestyKeeps, WritePidKeeps DEF OpenResty
<1>4. CASE Tailer
  BY <1>1, <1>4, StartKeeps, OpenKeeps, ReadLineKeeps, ReachEndKeeps, WaitKeeps,
     RemoveProcessingKeeps, ResetKeeps, RotateKeeps, ReopenLogsKeeps, CreateKeeps DEF Tailer
<1>5. CASE \E recreated \in BOOLEAN : Crash(recreated)
  BY <1>1, <1>5, CrashKeeps
<1> QED BY <1>1, <1>2, <1>3, <1>4, <1>5 DEF Next

(* The invariant holds in every state.                                     *)
THEOREM SpoolInvHold == Spec => []SpoolInv
<1> QED BY InitSpoolInv, NextSpoolInv, PTL DEF Spec

(* The history variable of OffsetFitsFile keeps its type. *)
SlippedType == slipped \in BOOLEAN

(* Every step sets it, adds to it or leaves it alone. *)
LEMMA NextSlipped == SlippedType /\ [Next]_vars => SlippedType'
<1> SUFFICES ASSUME SlippedType, [Next]_vars PROVE SlippedType'
  OBVIOUS
<1>1. CASE UNCHANGED vars
  BY <1>1 DEF vars, database, SlippedType
<1>2. CASE LogRequest \/ FlushBuffer \/ FlushEnds \/ ReopenSpool \/ WritePid
  BY <1>2 DEF LogRequest, FlushBuffer, FlushEnds, ReopenSpool, WritePid, database, SlippedType
<1>3. CASE StartOpenResty
  BY <1>3 DEF StartOpenResty, SlippedType
<1>4. CASE Start \/ Open \/ Reset
  BY <1>4 DEF Start, Open, Reset, ResetCheckpoint, SlippedType
<1>5. CASE ReadLine \/ ReachEnd
  BY <1>5 DEF ReadLine, ReachEnd, Commit, Rewind, database, SlippedType
<1>6. CASE Wait \/ RemoveProcessing \/ Rotate \/ ReopenLogs \/ Create
  BY <1>6 DEF Wait, RemoveProcessing, Rotate, ReopenLogs, Create, database, SlippedType
<1>7. CASE \E recreated \in BOOLEAN : Crash(recreated)
  BY <1>7 DEF Crash, SlippedType
<1> QED
  BY <1>1, <1>2, <1>3, <1>4, <1>5, <1>6, <1>7 DEF Next, OpenResty, Tailer

(* Types; the tailer's positions stay inside the file it reads.            *)
THEOREM TypeCorrect == Spec => []TypeOK
<1>1. SpoolInv /\ SlippedType => TypeOK
  <2>1. SUFFICES ASSUME SpoolInv, SlippedType PROVE TypeOK
    OBVIOUS
  <2>2. {path, processing, torn, sink, file, origin} \subseteq Inodes \cup {None}
    BY <2>1, FilesAreInodes DEF SpoolInv
  <2> QED BY <2>1, <2>2 DEF TypeOK, SpoolInv, FilesInv, LinesInv, WorkerInv, TailerInv,
                           PositionInv, Reading, SlippedType
<1>2. Init => SlippedType
  BY DEF Init, SlippedType
<1> QED BY <1>1, <1>2, NextSlipped, SpoolInvHold, PTL DEF Spec

(* The position in memory is the one in the database, and everything the   *)
(* tailer has passed in its file is stored, after any sequence of crashes, *)
(* failed transactions and rotations.                                      *)
THEOREM CommittedHold == Spec => []CheckpointIsCommitted
<1>1. SpoolInv => CheckpointIsCommitted
  <2>1. SUFFICES ASSUME SpoolInv, Reading, ~stale
                 PROVE  /\ offset > 0 => offset = checkpoint /\ origin = file
                        /\ EventsIn(SubSeq(lines[file], 1, offset)) \subseteq EventsIn(stored)
    BY DEF CheckpointIsCommitted, Reading
  <2>2. /\ lines[file] \in Seq(Nat) /\ Len(lines[file]) \in Nat /\ file # None
        /\ offset \in Nat /\ offset <= Len(lines[file])
    BY <2>1, FileIsRead
  <2>3. offset = IF origin = file THEN checkpoint ELSE 0
    BY <2>1 DEF SpoolInv, PositionInv
  <2>4. offset > 0 => offset = checkpoint /\ origin = file
    BY <2>2, <2>3
  <2>5. Between(lines[file], 0, offset) \subseteq EventsIn(stored)
    <3>1. CASE origin = file
      BY <2>1, <2>2, <2>3, <3>1 DEF SpoolInv, PositionInv
    <3>2. CASE origin # file
      <4>1. offset = 0 /\ offset <= offset
        BY <2>2, <2>3, <3>2
      <4> QED BY <2>2, <4>1, BetweenEmpty
    <3> QED BY <3>1, <3>2
  <2>6. EventsIn(SubSeq(lines[file], 0 + 1, offset)) = Between(lines[file], 0, offset)
    <3>1. 0 \in Nat
      OBVIOUS
    <3> QED BY <2>2, <3>1, SubEvents
  <2> QED BY <2>4, <2>5, <2>6
<1> QED BY <1>1, SpoolInvHold, PTL

-----------------------------------------------------------------------------
(* No request is lost but for the named reasons. *)

Ahead(i) == IF i = None THEN {} ELSE Between(lines[i], From(i), Len(lines[i]))

Accounted ==
  EventsIn(stored) \cup EventsIn(buffer) \cup lost \cup Ahead(path) \cup Ahead(processing)

AccountedInv == ~stale => 1..logged \subseteq Accounted

LEMMA AheadInodes ==
  ASSUME SpoolInv
  PROVE  /\ path \in Inodes \cup {None} /\ processing \in Inodes \cup {None}
         /\ None \notin Inodes /\ Ahead(None) = {}
BY FilesAreInodes DEF SpoolInv, Ahead

(* Steps that write and store nothing: a file may only change its name,    *)
(* and the checkpoint may only be reset.                                   *)
LEMMA QuietAccounted ==
  ASSUME SpoolInv, AccountedInv, UNCHANGED <<lines, stored, buffer, lost, logged>>,
         stale => stale',
         \/ checkpoint' = checkpoint /\ origin' = origin
         \/ checkpoint' = 0 /\ origin' = None,
         {path, processing} \subseteq {path', processing', None}
  PROVE  AccountedInv'
<1>1. ASSUME NEW i \in Inodes \cup {None} PROVE Ahead(i) \subseteq Ahead(i)'
  <2>1. CASE i = None
    BY <2>1 DEF Ahead
  <2>2. CASE i # None
    <3>1. i \in Inodes /\ lines[i] \in Seq(Nat) /\ Len(lines[i]) \in Nat
      BY <2>2, FilesAreInodes DEF SpoolInv
    <3>2. From(i) \in Nat /\ 0 \in Nat /\ 0 <= From(i)
      BY <3>1, UnreadFrom
    <3>3. From(i)' = From(i) \/ From(i)' = 0
      BY DEF From
    <3>4. Between(lines[i], From(i), Len(lines[i])) \subseteq Between(lines[i], 0, Len(lines[i]))
      BY <3>1, <3>2, BetweenShrinks
    <3>5. Ahead(i)' = Between(lines[i], From(i)', Len(lines[i]))
      BY <2>2 DEF Ahead
    <3> QED BY <2>2, <3>3, <3>4, <3>5 DEF Ahead
  <2> QED BY <2>1, <2>2
<1>2. Ahead(path) \cup Ahead(processing) \subseteq Ahead(path)' \cup Ahead(processing)'
  <2>1. Ahead(None) = {} /\ Ahead(None)' = {}
    BY DEF Ahead
  <2>2. {path, processing} \subseteq Inodes \cup {None}
    BY FilesAreInodes DEF SpoolInv
  <2>3. ASSUME NEW i \in {path, processing}
        PROVE  Ahead(i) \subseteq Ahead(path)' \cup Ahead(processing)'
    <3>1. CASE i = None
      BY <2>1, <3>1
    <3>2. CASE i = path'
      <4>1. Ahead(i)' = Ahead(path)'
        BY <3>2 DEF Ahead, From
      <4> QED BY <1>1, <2>2, <4>1
    <3>3. CASE i = processing'
      <4>1. Ahead(i)' = Ahead(processing)'
        BY <3>3 DEF Ahead, From
      <4> QED BY <1>1, <2>2, <4>1
    <3> QED BY <3>1, <3>2, <3>3
  <2> QED BY <2>3
<1> QED BY <1>2 DEF AccountedInv, Accounted

LEMMA LogRequestAccounted ==
  ASSUME SpoolInv, AccountedInv, LogRequest
  PROVE  AccountedInv'
<1>1. /\ UNCHANGED <<path, processing, lines, checkpoint, origin, stored, lost, stale>>
      /\ logged' = logged + 1 /\ buffer' = Append(buffer, logged + 1)
  BY DEF LogRequest, directory, database, history
<1>2. buffer \in Seq(Nat) /\ logged \in Nat /\ logged + 1 \in Nat
  BY SpoolAssumption DEF SpoolInv, LinesInv
<1>3. EventsIn(buffer') = EventsIn(buffer) \cup {logged + 1}
  BY <1>1, <1>2, AppendEvents DEF Junk
<1>4. 1..(logged + 1) = (1..logged) \cup {logged + 1}
  BY <1>2
<1>5. Ahead(path)' = Ahead(path) /\ Ahead(processing)' = Ahead(processing)
  BY <1>1 DEF Ahead, From
<1> QED BY <1>1, <1>3, <1>4, <1>5 DEF AccountedInv, Accounted

LEMMA WriteAccounted ==
  ASSUME SpoolInv, AccountedInv, WriteBuffer, sink # None,
         UNCHANGED <<processing, database, stale, logged>>,
         path' = path \/ path = None
  PROVE  AccountedInv'
<1>1. PICK t \in Seq(Nat) :
           /\ lines' = [lines EXCEPT ![sink] = lines[sink] \o t]
           /\ EventsIn(t) \subseteq EventsIn(buffer)
           /\ EventsIn(buffer) \subseteq EventsIn(t) \cup lost'
           /\ lost \subseteq lost' /\ lost' \subseteq lost \cup EventsIn(buffer)
           /\ Abandoned(sink) => EventsIn(buffer) \subseteq lost'
           /\ torn = sink \/ t = buffer
  BY WriteBufferWrites DEF SpoolInv
<1>2. checkpoint' = checkpoint /\ origin' = origin /\ stored' = stored
  BY DEF database
<1>3. /\ sink \in Inodes /\ lines \in [Inodes -> Seq(Nat)] /\ lines[sink] \in Seq(Nat)
      /\ From(sink) \in Nat /\ From(sink) <= Len(lines[sink])
  BY FilesAreInodes, UnreadFrom DEF SpoolInv, FilesInv
<1>4. /\ lines'[sink] = lines[sink] \o t
      /\ \A i \in Inodes : i # sink => lines'[i] = lines[i]
  BY <1>1, <1>3
<1>5. \A i \in Inodes : From(i)' = From(i)
  BY <1>2 DEF From
<1> PICK k \in Inodes : k = sink
  BY <1>3
<1>6. Ahead(k)' = Ahead(k) \cup EventsIn(t)
  <2>1. Between(lines[sink] \o t, From(sink), Len(lines[sink] \o t)) =
          Between(lines[sink], From(sink), Len(lines[sink])) \cup EventsIn(t)
    BY <1>3, BetweenGrows
  <2> QED BY <1>3, <1>4, <1>5, <2>1 DEF Ahead
<1>7. \A i \in Inodes \cup {None} : i # k => Ahead(i)' = Ahead(i)
  BY <1>4, <1>5 DEF Ahead
<1>8. \A i \in Inodes \cup {None} : Ahead(i) \subseteq Ahead(i)'
  BY <1>6, <1>7
<1>9. Ahead(processing) \subseteq Ahead(processing)'
  BY <1>8, AheadInodes DEF Ahead, From
<1>10. Ahead(path) \subseteq Ahead(path)'
  <2>1. CASE path = None
    BY <2>1 DEF Ahead
  <2>2. CASE path' = path
    BY <1>8, <2>2, AheadInodes DEF Ahead, From
  <2> QED BY <2>1, <2>2
<1>11. EventsIn(buffer) \subseteq lost' \cup Ahead(path)' \cup Ahead(processing)'
  <2>1. CASE Abandoned(sink)
    BY <1>1, <2>1
  <2>2. CASE ~Abandoned(sink)
    <3>1. sink \in {path, processing}
      BY <2>2 DEF Abandoned
    <3>2. CASE sink = processing
      <4>1. Ahead(processing)' = Ahead(k)'
        BY <3>2 DEF Ahead, From
      <4> QED BY <1>1, <1>6, <4>1
    <3>3. CASE sink = path
      <4>1. path' = sink
        BY <3>3
      <4>2. Ahead(path)' = Ahead(k)'
        BY <3>3, <4>1 DEF Ahead, From
      <4> QED BY <1>1, <1>6, <4>2
    <3> QED BY <3>1, <3>2, <3>3
  <2> QED BY <2>1, <2>2
<1> QED BY <1>1, <1>2, <1>9, <1>10, <1>11 DEF AccountedInv, Accounted

LEMMA CommitAccounted ==
  ASSUME SpoolInv, AccountedInv, Reading, UNCHANGED <<directory, worker, file, history>>,
         NEW batch \in Seq(Nat), NEW position \in Nat, Commit(batch, position),
         offset <= position, position <= Len(lines[file]),
         Between(lines[file], offset, position) \subseteq EventsIn(batch)
  PROVE  AccountedInv'
<1>1. /\ UNCHANGED <<path, processing, lines, logged, buffer, stale, lost>>
      /\ stored' = stored \o batch /\ checkpoint' = position /\ origin' = file
  BY Untouched DEF history, Commit
<1>2. SUFFICES ASSUME ~stale PROVE 1..logged \subseteq Accounted'
  BY <1>1 DEF AccountedInv
<1>3. /\ file \in Inodes /\ lines[file] \in Seq(Nat)
      /\ Len(lines[file]) \in Nat /\ offset \in Nat
  BY FileIsRead
<1>4. EventsIn(stored') = EventsIn(stored) \cup EventsIn(batch)
  <2>1. stored \in Seq(Nat) /\ 0 \in Nat
    BY DEF SpoolInv, LinesInv
  <2> QED BY <1>1, <2>1, BetweenGrows
<1>5. From(file) = offset
  BY <1>2, <1>3 DEF SpoolInv, PositionInv, From
<1>6. ASSUME NEW i \in Inodes \cup {None} PROVE Ahead(i) \subseteq Ahead(i)' \cup EventsIn(batch)
  <2>1. CASE i = None
    BY <2>1 DEF Ahead
  <2>2. CASE i = file
    <3>1. Ahead(i)' = IF i = None THEN {} ELSE Between(lines[file], position, Len(lines[file]))
      BY <1>1, <2>2 DEF Ahead, From
    <3>2. Between(lines[file], offset, Len(lines[file])) =
            Between(lines[file], offset, position) \cup Between(lines[file], position, Len(lines[file]))
      BY <1>3, BetweenSplits
    <3> QED BY <1>5, <2>2, <3>1, <3>2 DEF Ahead
  <2>3. CASE i # file /\ i # None
    <3>1. i \in Inodes /\ lines[i] \in Seq(Nat) /\ Len(lines[i]) \in Nat
      BY <2>3, FilesAreInodes DEF SpoolInv
    <3>2. From(i) \in Nat /\ 0 \in Nat /\ 0 <= From(i)
      BY <3>1, UnreadFrom
    <3>3. Between(lines[i], From(i), Len(lines[i])) \subseteq Between(lines[i], 0, Len(lines[i]))
      BY <3>1, <3>2, BetweenShrinks
    <3>4. Ahead(i)' = Between(lines[i], 0, Len(lines[i]))
      BY <1>1, <2>3 DEF Ahead, From
    <3> QED BY <2>3, <3>3, <3>4 DEF Ahead
  <2> QED BY <2>1, <2>2, <2>3
<1>7. /\ Ahead(path) \subseteq Ahead(path)' \cup EventsIn(batch)
      /\ Ahead(processing) \subseteq Ahead(processing)' \cup EventsIn(batch)
  BY <1>1, <1>6, AheadInodes DEF Ahead, From
<1> QED BY <1>1, <1>2, <1>4, <1>7 DEF AccountedInv, Accounted

LEMMA RemoveAccounted ==
  ASSUME SpoolInv, AccountedInv, RemoveProcessing
  PROVE  AccountedInv'
<1>1. /\ UNCHANGED <<path, lines, logged, buffer, stale, lost, stored, checkpoint, origin>>
      /\ processing' = None /\ pc = "end" /\ file = processing /\ Reading
  BY DEF RemoveProcessing, worker, database, history, Reading
<1>2. SUFFICES ASSUME ~stale PROVE 1..logged \subseteq Accounted'
  BY <1>1 DEF AccountedInv
<1>3. Ahead(processing) \subseteq lost
  <2>1. file # None /\ From(file) = offset
    BY <1>1, <1>2, FileIsRead DEF SpoolInv, PositionInv, From
  <2> QED BY <1>1, <2>1 DEF SpoolInv, DrainedInv, Ahead
<1>4. Ahead(path)' = Ahead(path)
  BY <1>1 DEF Ahead, From
<1> QED BY <1>1, <1>2, <1>3, <1>4 DEF AccountedInv, Accounted

LEMMA CrashAccounted ==
  ASSUME SpoolInv, AccountedInv, NEW recreated \in BOOLEAN, Crash(recreated)
  PROVE  AccountedInv'
<1>1. /\ UNCHANGED <<logged, stale, stored, checkpoint, origin>>
      /\ lost \cup EventsIn(buffer) \subseteq lost'
      /\ recreated => Unread(path) \cup Unread(processing) \subseteq lost'
      /\ ~recreated => path' = path /\ processing' = processing
  BY DEF Crash, database
<1>2. SUFFICES ASSUME ~stale PROVE 1..logged \subseteq Accounted'
  BY <1>1 DEF AccountedInv
<1>3. Unread(path) = Ahead(path) /\ Unread(processing) = Ahead(processing)
  <2>1. ASSUME NEW i \in Inodes \cup {None} PROVE Unread(i) = Ahead(i)
    <3>1. CASE i = None
      BY <3>1 DEF Unread, Ahead
    <3>2. CASE i # None
      <4>1. i \in Inodes
        BY <3>2
      <4>2. Unread(i) = Between(lines[i], From(i), Len(lines[i]))
        BY <1>2, <4>1, UnreadFrom
      <4> QED BY <3>2, <4>2 DEF Ahead
    <3> QED BY <3>1, <3>2
  <2> QED BY <2>1, AheadInodes
<1>4. CASE recreated
  BY <1>1, <1>2, <1>3, <1>4 DEF AccountedInv, Accounted
<1>5. CASE ~recreated
  <2>1. ASSUME NEW i \in Inodes \cup {None} PROVE Ahead(i) \subseteq Ahead(i)' \cup lost'
    <3>1. CASE i = None
      BY <3>1 DEF Ahead
    <3>2. CASE i # None
      <4>1. i \in Inodes /\ Len(lines[i]) \in Nat /\ From(i) \in Nat /\ From(i)' = From(i)
        BY <1>1, <3>2, FilesAreInodes, UnreadFrom DEF SpoolInv, From
      <4>2. /\ Len(lines'[i]) = Len(lines[i])
            /\ \A a, b \in Nat : b <= Len(lines[i]) =>
                 Between(lines[i], a, b) \subseteq Between(lines'[i], a, b) \cup lost'
        BY <4>1, CrashCutsLine
      <4>3. Between(lines[i], From(i), Len(lines[i])) \subseteq
              Between(lines'[i], From(i), Len(lines[i])) \cup lost'
        BY <4>1, <4>2
      <4> QED BY <3>2, <4>1, <4>2, <4>3 DEF Ahead
    <3> QED BY <3>1, <3>2
  <2>2. /\ Ahead(path) \subseteq Ahead(path)' \cup lost'
        /\ Ahead(processing) \subseteq Ahead(processing)' \cup lost'
    BY <1>1, <1>5, <2>1, AheadInodes DEF Ahead, From
  <2> QED BY <1>1, <1>2, <2>2 DEF AccountedInv, Accounted
<1> QED BY <1>4, <1>5

LEMMA TailerAccounted ==
  ASSUME SpoolInv, AccountedInv, Tailer, "reopenLogs" \notin Faulty
  PROVE  AccountedInv'
<1>1. CASE Start
  <2>1. /\ UNCHANGED <<path, processing, lines, stored, buffer, lost, logged, stale>>
        /\ \/ checkpoint' = checkpoint /\ origin' = origin
           \/ checkpoint' = 0 /\ origin' = None
    BY <1>1, Untouched DEF Start, ResetCheckpoint, history
  <2> QED BY <2>1, QuietAccounted
<1>2. CASE Open
  <2>1. /\ UNCHANGED <<path, processing, lines, stored, buffer, lost, logged>>
        /\ \/ checkpoint' = checkpoint /\ origin' = origin
           \/ checkpoint' = 0 /\ origin' = None
        /\ stale => stale'
    BY <1>2, Untouched DEF Open, ResetCheckpoint
  <2> QED BY <2>1, QuietAccounted
<1>3. CASE ReadLine
  <2> DEFINE batch == Parsed(lines[file][readOffset + 1])
  <2>1. /\ UNCHANGED <<directory, worker, file, history>>
        /\ readOffset < Complete(file) /\ Reading
    BY <1>3 DEF ReadLine, Reading
  <2>2. /\ readOffset + 1 \in Nat /\ readOffset + 1 <= Len(lines[file])
        /\ batch \in Seq(Nat)
        /\ Between(lines[file], offset, readOffset + 1) \subseteq EventsIn(batch)
    BY <2>1, LineIsParsed
  <2>3. offset <= readOffset + 1
    BY <2>1, FileIsRead
  <2>4. UNCHANGED database \/ Commit(batch, readOffset + 1)
    BY <1>3 DEF ReadLine, Rewind
  <2> HIDE DEF batch
  <2>5. CASE Commit(batch, readOffset + 1)
    BY <2>1, <2>2, <2>3, <2>5, CommitAccounted
  <2>6. CASE UNCHANGED database
    <3>1. UNCHANGED <<path, processing, lines, stored, buffer, lost, logged, stale, checkpoint,
                      origin>>
      BY <2>1, <2>6, Untouched DEF database, history
    <3> QED BY <3>1, QuietAccounted
  <2> QED BY <2>4, <2>5, <2>6
<1>4. CASE ReachEnd
  <2>1. UNCHANGED <<directory, worker, file, history>> /\ Reading
    BY <1>4 DEF ReachEnd, Reading
  <2>2. /\ pending \in Seq(Nat) /\ readOffset \in Nat
        /\ offset <= readOffset /\ readOffset <= Len(lines[file])
        /\ Between(lines[file], offset, readOffset) \subseteq EventsIn(pending)
    BY <2>1 DEF SpoolInv, LinesInv, TailerInv
  <2>3. UNCHANGED database \/ Commit(pending, readOffset)
    BY <1>4 DEF ReachEnd, Rewind
  <2>4. CASE Commit(pending, readOffset)
    BY <2>1, <2>2, <2>4, CommitAccounted
  <2>5. CASE UNCHANGED database
    <3>1. UNCHANGED <<path, processing, lines, stored, buffer, lost, logged, stale, checkpoint,
                      origin>>
      BY <2>1, <2>5, Untouched DEF database, history
    <3> QED BY <3>1, QuietAccounted
  <2> QED BY <2>3, <2>4, <2>5
<1>5. CASE Wait
  <2>1. UNCHANGED <<path, processing, lines, stored, buffer, lost, logged, stale, checkpoint,
                    origin>>
    BY <1>5, Untouched DEF Wait, database, history
  <2> QED BY <2>1, QuietAccounted
<1>6. CASE RemoveProcessing
  BY <1>6, RemoveAccounted
<1>7. CASE Reset
  <2>1. /\ UNCHANGED <<path, processing, lines, stored, buffer, lost, logged, stale>>
        /\ \/ checkpoint' = checkpoint /\ origin' = origin
           \/ checkpoint' = 0 /\ origin' = None
    BY <1>7, Untouched DEF Reset, ResetCheckpoint, history
  <2> QED BY <2>1, QuietAccounted
<1>8. CASE Rotate
  <2>1. UNCHANGED <<lines, stored, buffer, lost, logged, stale, checkpoint, origin>>
        /\ processing' = path
    BY <1>8 DEF Rotate, worker, database, history
  <2>2. processing = None
    BY <1>8, RotateKeeps
  <2> QED BY <2>1, <2>2, QuietAccounted
<1>9. CASE ReopenLogs
  <2>1. UNCHANGED <<path, processing, lines, stored, buffer, lost, logged, stale, checkpoint,
                    origin>>
    BY <1>9 DEF ReopenLogs, Fails, database, history
  <2> QED BY <2>1, QuietAccounted
<1>10. CASE Create
  <2>1. UNCHANGED <<processing, lines, stored, buffer, lost, logged, stale, checkpoint, origin>>
    BY <1>10 DEF Create, worker, database, history
  <2>2. path' = path \/ path = None
    BY <1>10, CreateKeeps
  <2> QED BY <2>1, <2>2, QuietAccounted
<1> QED BY <1>1, <1>2, <1>3, <1>4, <1>5, <1>6, <1>7, <1>8, <1>9, <1>10 DEF Tailer

LEMMA OpenRestyAccounted ==
  ASSUME SpoolInv, AccountedInv, OpenResty
  PROVE  AccountedInv'
<1>1. CASE LogRequest
  BY <1>1, LogRequestAccounted
<1>2. CASE FlushBuffer
  BY <1>2, WriteAccounted DEF FlushBuffer
<1>3. CASE FlushEnds
  <2>1. UNCHANGED <<path, processing, lines, stored, buffer, lost, logged, stale, checkpoint,
                    origin>>
    BY <1>3 DEF FlushEnds, database, history
  <2> QED BY <2>1, QuietAccounted
<1>4. CASE ReopenSpool
  <2>1. /\ UNCHANGED <<processing, database, stale, logged>> /\ WriteBuffer /\ OpenSpool
        /\ sink # None
    BY <1>4 DEF ReopenSpool, SpoolInv, WorkerInv
  <2>2. path' = path \/ path = None
    BY <2>1, OpenSpoolOpens DEF SpoolInv
  <2> QED BY <2>1, <2>2, WriteAccounted
<1>5. CASE StartOpenResty
  <2>1. UNCHANGED <<processing, lines, stored, buffer, lost, logged, stale, checkpoint, origin>>
        /\ OpenSpool
    BY <1>5 DEF StartOpenResty, database, history
  <2>2. path' = path \/ path = None
    BY <2>1, OpenSpoolOpens DEF SpoolInv
  <2> QED BY <2>1, <2>2, QuietAccounted
<1>6. CASE WritePid
  <2>1. UNCHANGED <<path, processing, lines, stored, buffer, lost, logged, stale, checkpoint,
                    origin>>
    BY <1>6 DEF WritePid, directory, database, history
  <2> QED BY <2>1, QuietAccounted
<1> QED BY <1>1, <1>2, <1>3, <1>4, <1>5, <1>6 DEF OpenResty

LEMMA NextAccounted ==
  ASSUME SpoolInv, AccountedInv, [Next]_vars, "reopenLogs" \notin Faulty
  PROVE  AccountedInv'
<1>1. CASE UNCHANGED vars
  <2>1. UNCHANGED <<directory, worker, database, history>>
    BY <1>1 DEF vars
  <2>2. UNCHANGED <<path, processing, lines, stored, buffer, lost, logged, stale, checkpoint,
                    origin>>
    BY <2>1 DEF directory, worker, database, history
  <2> QED BY <2>2, QuietAccounted
<1>2. CASE OpenResty
  BY <1>2, OpenRestyAccounted
<1>3. CASE Tailer
  BY <1>3, TailerAccounted
<1>4. CASE \E recreated \in BOOLEAN : Crash(recreated)
  BY <1>4, CrashAccounted
<1> QED BY <1>1, <1>2, <1>3, <1>4 DEF Next

LEMMA InitAccounted == Init => AccountedInv
<1>1. Init => logged = 0
  BY DEF Init
<1>2. 1..0 = {}
  OBVIOUS
<1> QED BY <1>1, <1>2 DEF AccountedInv

(* Every request served is stored, in the worker's buffer, in a file the   *)
(* tailer will read beyond its position, or in one of the named losses,    *)
(* whatever crashes, reloads and failed database calls happen, unless a    *)
(* rotation is undone: renaming the file back may overwrite a spool that   *)
(* OpenResty has created in between.                                       *)
THEOREM NothingLostHold ==
  ASSUME "reopenLogs" \notin Faulty
  PROVE  Spec => []NothingElseLost
<1>1. SpoolInv /\ AccountedInv => NothingElseLost
  <2>1. SUFFICES ASSUME SpoolInv, AccountedInv, ~stale
                 PROVE  Ahead(path) = Unread(path) /\ Ahead(processing) = Unread(processing)
    BY DEF AccountedInv, Accounted, NothingElseLost
  <2>2. ASSUME NEW i \in Inodes \cup {None} PROVE Ahead(i) = Unread(i)
    <3>1. CASE i = None
      BY <3>1 DEF Unread, Ahead
    <3>2. CASE i # None
      BY <2>1, <3>2, UnreadFrom DEF Ahead
    <3> QED BY <3>1, <3>2
  <2> QED BY <2>1, <2>2, AheadInodes
<1>2. SpoolInv /\ AccountedInv /\ [Next]_vars => AccountedInv'
  BY NextAccounted
<1> QED BY <1>1, <1>2, InitAccounted, SpoolInvHold, PTL DEF Spec

-----------------------------------------------------------------------------
(* Positions stay with their file. *)

(* A checkpoint that has not slipped belongs to the file that is read next, *)
(* or will be reset before: by Reset, or by Start, which finds no spool.    *)
OriginInv ==
  /\ checkpoint > 0 /\ ~slipped =>
       \/ pc = "reset"
       \/ pc = "start" /\ path = None /\ processing = None
       \/ origin = ActiveFile
  /\ pc = "start" /\ sink # None => path # None

(* Unless the file to read is changed, only the checkpoint matters.        *)
LEMMA OriginQuiet ==
  ASSUME SpoolInv, OriginInv, UNCHANGED <<pc, checkpoint, origin, slipped, processing>>,
         pc = "start" => path' = path /\ sink' = sink,
         path' = path \/ path = None
  PROVE  OriginInv'
<1>1. ActiveFile' = ActiveFile \/ ActiveFile = None
  BY DEF ActiveFile
<1>2. ActiveFile = None => checkpoint = 0 \/ origin # ActiveFile
  BY DEF SpoolInv, PositionInv
<1> QED BY <1>1, <1>2 DEF OriginInv

(* When the tailer is past its start and will not reset, the checkpoint is *)
(* a position in the file it reads.                                        *)
LEMMA OriginMoves ==
  ASSUME OriginInv, UNCHANGED <<checkpoint, origin, slipped>>,
         pc \notin {"start", "reset"}, pc' # "start",
         pc' = "reset" \/ ActiveFile' = ActiveFile
  PROVE  OriginInv'
BY DEF OriginInv

LEMMA NextOrigin ==
  ASSUME SpoolInv, OriginInv, [Next]_vars
  PROVE  OriginInv'
<1>1. CASE UNCHANGED vars
  <2>1. UNCHANGED <<directory, worker, database, tailer>>
    BY <1>1 DEF vars
  <2>2. UNCHANGED <<path, processing, sink, pc, checkpoint, origin, slipped>>
    BY <2>1 DEF directory, worker, database, tailer
  <2> QED BY <2>2, OriginQuiet
<1>2. CASE LogRequest \/ FlushEnds \/ WritePid \/ FlushBuffer
  <2>1. UNCHANGED <<path, processing, sink, database, tailer>>
    BY <1>2 DEF LogRequest, FlushEnds, WritePid, FlushBuffer, directory
  <2>2. UNCHANGED <<pc, checkpoint, origin, slipped>>
    BY <2>1 DEF database, tailer
  <2> QED BY <2>1, <2>2, OriginQuiet
<1>3. CASE ReopenSpool
  <2>1. UNCHANGED <<processing, database, tailer>> /\ OpenSpool /\ running
    BY <1>3 DEF ReopenSpool
  <2>2. UNCHANGED <<pc, checkpoint, origin, slipped>>
    BY <2>1 DEF database, tailer
  <2>3. path' = path \/ path = None
    BY <2>1, OpenSpoolOpens DEF SpoolInv
  <2>4. sink # None
    BY <2>1 DEF SpoolInv, WorkerInv
  <2>5. CASE pc # "start"
    BY <2>1, <2>2, <2>3, <2>5, OriginQuiet
  <2>6. CASE pc = "start"
    <3>1. path # None
      BY <2>4, <2>6 DEF OriginInv
    <3>2. path' = path
      BY <2>3, <3>1
    <3> QED BY <2>1, <2>2, <3>1, <3>2 DEF OriginInv, ActiveFile
  <2> QED BY <2>5, <2>6
<1>4. CASE StartOpenResty
  <2>1. /\ UNCHANGED <<processing, pc, checkpoint, origin>> /\ OpenSpool
        /\ slipped' = (slipped \/ (/\ pc = "start" /\ checkpoint > 0
                                   /\ path = None /\ processing = None))
    BY <1>4 DEF StartOpenResty, tailer
  <2>2. path' # None /\ (path' = path \/ path = None)
    BY <2>1, OpenSpoolOpens, FilesAreInodes DEF SpoolInv
  <2>3. ASSUME checkpoint > 0, ~slipped'
        PROVE  pc = "reset" \/ origin = ActiveFile'
    <3>1. pc = "reset" \/ origin = ActiveFile
      BY <2>1, <2>3, Zenon DEF OriginInv
    <3>2. origin # None
      BY <2>3 DEF SpoolInv, PositionInv
    <3> QED BY <2>1, <2>2, <3>1, <3>2 DEF ActiveFile
  <2> QED BY <2>1, <2>2, <2>3 DEF OriginInv
<1>5. CASE Start \/ Reset
  <2>1. UNCHANGED <<path, processing>> /\ pc' = "open" /\ (pc = "start" \/ pc = "reset")
    BY <1>5, Untouched DEF Start, Reset
  <2>2. \/ checkpoint' = 0
        \/ slipped'
        \/ /\ pc = "start" /\ path # None
           /\ UNCHANGED <<checkpoint, origin, slipped>>
    BY <1>5 DEF Start, Reset, ResetCheckpoint
  <2> QED BY <2>1, <2>2 DEF OriginInv, ActiveFile
<1>6. CASE Open
  <2>1. UNCHANGED <<path, processing>> /\ pc = "open" /\ pc' = "read"
    BY <1>6, Untouched DEF Open
  <2>2. \/ checkpoint' = 0
        \/ slipped'
        \/ UNCHANGED <<checkpoint, origin, slipped>>
    BY <1>6 DEF Open, ResetCheckpoint
  <2> QED BY <2>1, <2>2 DEF OriginInv, ActiveFile
<1>7. CASE ReadLine \/ ReachEnd
  <2>1. UNCHANGED <<path, processing>> /\ Reading /\ (pc' = "read" \/ pc' = "end")
    BY <1>7, Untouched DEF ReadLine, ReachEnd, Reading
  <2>2. UNCHANGED <<checkpoint, origin, slipped>> \/ origin' = file
    BY <1>7 DEF ReadLine, ReachEnd, Commit, Rewind, database
  <2>3. file = ActiveFile /\ pc # "reset" /\ pc # "start"
    BY <2>1 DEF SpoolInv, TailerInv, Reading
  <2> QED BY <2>1, <2>2, <2>3 DEF OriginInv, ActiveFile
<1>8. CASE Wait \/ RemoveProcessing
  <2>1. UNCHANGED <<path, checkpoint, origin, slipped>> /\ pc = "end" /\ pc' # "start"
        /\ (pc' = "reset" \/ processing' = processing)
    BY <1>8, Untouched DEF Wait, RemoveProcessing, worker, database
  <2> QED BY <2>1, OriginMoves DEF ActiveFile
<1>9. CASE Rotate
  <2>1. UNCHANGED <<checkpoint, origin, slipped>> /\ pc = "end" /\ pc' = "reopen"
        /\ processing' = path /\ path' = None
    BY <1>9 DEF Rotate, worker, database
  <2>2. processing = None
    BY <1>9, RotateKeeps
  <2> QED BY <2>1, <2>2, OriginMoves DEF ActiveFile
<1>10. CASE ReopenLogs
  <2>1. UNCHANGED <<checkpoint, origin, slipped>> /\ pc = "reopen"
        /\ (pc' = "create" \/ pc' = "open")
        /\ \/ path' = path /\ processing' = processing
           \/ path' = processing /\ processing' = None
    BY <1>10 DEF ReopenLogs, database
  <2>2. processing # None
    BY <2>1 DEF SpoolInv, TailerInv
  <2> QED BY <2>1, <2>2, OriginMoves DEF ActiveFile
<1>11. CASE Create
  <2>1. UNCHANGED <<processing, sink, checkpoint, origin, slipped>> /\ pc = "create" /\ pc' = "open"
    BY <1>11 DEF Create, worker, database
  <2>2. path' = path \/ path = None
    BY <1>11, CreateKeeps
  <2>3. ActiveFile' = ActiveFile \/ ActiveFile = None
    BY <2>1, <2>2 DEF ActiveFile
  <2>4. ActiveFile = None => checkpoint = 0 \/ origin # ActiveFile
    BY DEF SpoolInv, PositionInv
  <2> QED BY <2>1, <2>3, <2>4 DEF OriginInv
<1>12. ASSUME NEW recreated \in BOOLEAN, Crash(recreated)
       PROVE  OriginInv'
  <2>1. /\ UNCHANGED <<checkpoint, origin>> /\ pc' = "start" /\ sink' = None
        /\ slipped' = (slipped \/ (~recreated /\ pc = "reset"))
        /\ IF recreated THEN path' = None /\ processing' = None
           ELSE path' = path /\ processing' = processing
    BY <1>12 DEF Crash
  <2> QED BY <2>1 DEF OriginInv, ActiveFile
<1> QED BY <1>1, <1>2, <1>3, <1>4, <1>5, <1>6, <1>7, <1>8, <1>9, <1>10, <1>11, <1>12
        DEF Next, OpenResty, Tailer

(* A position is used in the file it belongs to, for any rotations, undone *)
(* or not, reloads, crashes, recreated containers and failing calls, except *)
(* in the three cases named.                                               *)
THEOREM OffsetHold == Spec => []OffsetFitsFile
<1>1. Init => OriginInv
  BY DEF Init, OriginInv
<1>2. SpoolInv /\ OriginInv /\ [Next]_vars => OriginInv'
  BY NextOrigin
<1>3. OriginInv => OffsetFitsFile
  BY DEF OriginInv, OffsetFitsFile
<1> QED BY <1>1, <1>2, <1>3, SpoolInvHold, PTL DEF Spec

-----------------------------------------------------------------------------
(* Requests are stored in the order they were served. *)

(* The lines that can be parsed are in order; all of them can be.          *)
Sorted(s) ==
  \A i, j \in DOMAIN s : i < j /\ s[i] # Junk /\ s[j] # Junk => s[i] < s[j]
Ascending(s) == Sorted(s) /\ \A i \in DOMAIN s : s[i] # Junk

Precede(A, B) == \A a \in A, b \in B : a < b

(* Files, the buffer and the batch are in order, and the buffer is later   *)
(* than what has been written and stored.                                  *)
SortedInv ==
  /\ \A i \in Inodes : Sorted(lines[i]) /\ Precede(EventsIn(lines[i]), EventsIn(buffer))
  /\ Ascending(buffer) /\ Ascending(pending)
  /\ Precede(EventsIn(stored), EventsIn(buffer))

(* A rotated file is older than the spool, which stays empty while the     *)
(* worker still writes to the rotated one.                                 *)
RotationInv ==
  path # None /\ processing # None =>
    /\ Precede(EventsIn(lines[processing]), EventsIn(lines[path]))
    /\ sink = processing => EventsIn(lines[path]) = {}

(* The batch is what has been read after the last committed position.      *)
BatchInv ==
  Reading =>
    /\ EventsIn(pending) \subseteq Between(lines[file], offset, readOffset)
    /\ origin = file => offset = checkpoint

(* The checkpoint is not a position in the spool while there is a rotated  *)
(* file to read, or to forget the position in.                             *)
TurnInv ==
  /\ pc = "reset" => processing = None
  /\ ~cut /\ path # None /\ (processing # None \/ pc = "reset") => origin # path
  /\ ~cut /\ pc = "start" /\ processing # None => path # None

(* What is stored is older than what is ahead in the files.                *)
OrderInv ==
  ~cut => /\ Ascending(stored)
          /\ Precede(EventsIn(stored), Ahead(path))
          /\ Precede(EventsIn(stored), Ahead(processing))

OrderedInv == SortedInv /\ RotationInv /\ BatchInv /\ TurnInv /\ OrderInv

-----------------------------------------------------------------------------
(* Order in sequences. *)

LEMMA PrecedeInside ==
  ASSUME NEW A, NEW B, Precede(A, B), NEW C, NEW D, C \subseteq A, D \subseteq B
  PROVE  Precede(C, D)
BY DEF Precede

LEMMA PrecedeUnion ==
  ASSUME NEW A, NEW B, NEW C
  PROVE  /\ Precede(A, C) /\ Precede(B, C) => Precede(A \cup B, C)
         /\ Precede(A, B) /\ Precede(A, C) => Precede(A, B \cup C)
         /\ Precede(A, {}) /\ Precede({}, A)
BY DEF Precede

LEMMA EmptyOrder == Ascending(<<>>) /\ EventsIn(<<>>) = {} /\ <<>> \in Seq(Nat)
BY DEF Ascending, Sorted, EventsIn

(* What is later keeps the order when it is appended.                      *)
LEMMA SortedConcat ==
  ASSUME NEW s \in Seq(Nat), NEW t \in Seq(Nat), Sorted(s), Sorted(t),
         Precede(EventsIn(s), EventsIn(t))
  PROVE  /\ Sorted(s \o t)
         /\ Ascending(s) /\ Ascending(t) => Ascending(s \o t)
<1> DEFINE r == s \o t
           n == Len(s)
           m == Len(t)
<1>1. /\ r \in Seq(Nat) /\ Len(r) = n + m /\ n \in Nat /\ m \in Nat
      /\ \A i \in 1..n : r[i] = s[i]
      /\ \A i \in 1..m : r[n + i] = t[i]
  BY ConcatEvents
<1>2. DOMAIN s = 1..n /\ DOMAIN t = 1..m /\ DOMAIN r = 1..(n + m)
  BY <1>1
<1> HIDE DEF r, n, m
<1>3. ASSUME NEW k \in DOMAIN r
      PROVE  \/ k \in DOMAIN s /\ k <= n /\ r[k] = s[k]
             \/ k > n /\ k - n \in DOMAIN t /\ r[k] = t[k - n]
  <2>1. CASE k <= n
    BY <1>1, <1>2, <2>1
  <2>2. CASE k > n
    <3>1. k - n \in 1..m /\ n + (k - n) = k
      BY <1>1, <1>2, <2>2
    <3>2. r[n + (k - n)] = t[k - n]
      BY <1>1, <3>1
    <3> QED BY <1>2, <2>2, <3>1, <3>2
  <2>3. k \in Nat
    BY <1>1, <1>2
  <2> QED BY <1>1, <2>1, <2>2, <2>3
<1>4. ASSUME NEW i \in DOMAIN r, NEW j \in DOMAIN r, i < j, r[i] # Junk, r[j] # Junk
      PROVE  r[i] < r[j]
  <2>0. i \in Nat /\ j \in Nat
    BY <1>1, <1>2
  <2>1. CASE i <= n /\ j <= n
    <3>1. /\ i \in DOMAIN s /\ r[i] = s[i]
          /\ j \in DOMAIN s /\ r[j] = s[j]
      BY <1>1, <1>3, <2>0, <2>1
    <3> QED BY <1>4, <3>1 DEF Sorted
  <2>2. CASE i <= n /\ j > n
    <3>0. ~(i > n) /\ ~(j <= n)
      BY <1>1, <2>0, <2>2
    <3>1. /\ i \in DOMAIN s /\ r[i] = s[i]
          /\ j - n \in DOMAIN t /\ r[j] = t[j - n]
      BY <1>3, <3>0
    <3>2. s[i] \in EventsIn(s) /\ t[j - n] \in EventsIn(t)
      BY <1>4, <3>1 DEF EventsIn
    <3> QED BY <3>1, <3>2 DEF Precede
  <2>3. CASE i > n
    <3>1. /\ i - n \in DOMAIN t /\ r[i] = t[i - n]
          /\ j - n \in DOMAIN t /\ r[j] = t[j - n]
      BY <1>1, <1>3, <1>4, <2>0, <2>3
    <3>2. i - n < j - n
      BY <1>1, <1>4, <2>0
    <3> QED BY <1>4, <3>1, <3>2 DEF Sorted
  <2> QED BY <1>1, <2>0, <2>1, <2>2, <2>3
<1>5. Sorted(r)
  BY <1>4 DEF Sorted
<1>6. Ascending(s) /\ Ascending(t) => Ascending(r)
  <2>1. SUFFICES ASSUME Ascending(s), Ascending(t), NEW k \in DOMAIN r PROVE r[k] # Junk
    BY <1>5 DEF Ascending
  <2> QED BY <1>3, <2>1 DEF Ascending
<1> QED BY <1>5, <1>6 DEF r

LEMMA AscendingTail ==
  ASSUME NEW s \in Seq(Nat), s # <<>>, Ascending(s)
  PROVE  Ascending(Tail(s))
<1> DEFINE r == Tail(s)
<1>1. /\ Len(s) \in Nat /\ DOMAIN s = 1..Len(s) /\ DOMAIN r = 1..(Len(s) - 1)
      /\ \A i \in 1..(Len(s) - 1) : r[i] = s[i + 1]
  OBVIOUS
<1> HIDE DEF r
<1>2. \A i \in DOMAIN r : i \in Nat /\ i + 1 \in DOMAIN s /\ r[i] = s[i + 1]
  BY <1>1
<1>3. \A i, j \in DOMAIN r : i < j => i + 1 < j + 1
  BY <1>2
<1> QED BY <1>2, <1>3 DEF Ascending, Sorted, r

LEMMA AscendingAppend ==
  ASSUME NEW s \in Seq(Nat), NEW e \in Nat \ {Junk}, Ascending(s),
         Precede(EventsIn(s), {e})
  PROVE  Ascending(Append(s, e))
<1>1. <<e>> \in Seq(Nat) /\ Append(s, e) = s \o <<e>>
  OBVIOUS
<1>2. Ascending(<<e>>) /\ EventsIn(<<e>>) = {e}
  BY DEF Ascending, Sorted, EventsIn, Junk
<1> QED BY <1>1, <1>2, SortedConcat DEF Ascending

(* In an ordered file, what is before a position is before what is after.  *)
LEMMA SortedApart ==
  ASSUME NEW s \in Seq(Nat), Sorted(s), NEW a \in Nat, NEW b \in Nat, NEW c \in Nat,
         b <= c, c <= Len(s)
  PROVE  Precede(Between(s, a, b), Between(s, b, c))
<1>1. ASSUME NEW i \in (a + 1)..b, NEW j \in (b + 1)..c, s[i] # Junk, s[j] # Junk
      PROVE  s[i] < s[j]
  <2>1. i \in DOMAIN s /\ j \in DOMAIN s /\ i < j
    OBVIOUS
  <2> QED BY <1>1, <2>1 DEF Sorted
<1> QED BY <1>1 DEF Precede, Between

-----------------------------------------------------------------------------
(* A step disturbs only the parts whose variables it changes.              *)
LEMMA OrderPartsKeep ==
  ASSUME OrderedInv
  PROVE  /\ UNCHANGED <<lines, buffer, pending, stored>> => SortedInv'
         /\ UNCHANGED <<lines, path, processing, sink>> => RotationInv'
         /\ UNCHANGED <<pc, lines, file, offset, readOffset, pending, origin, checkpoint>>
              => BatchInv'
         /\ UNCHANGED <<cut, path, processing, pc, origin>> => TurnInv'
         /\ UNCHANGED <<cut, stored, lines, path, processing, origin, checkpoint>> => OrderInv'
<1>1. UNCHANGED <<lines, buffer, pending, stored>> => SortedInv'
  BY DEF OrderedInv, SortedInv
<1>2. UNCHANGED <<lines, path, processing, sink>> => RotationInv'
  BY DEF OrderedInv, RotationInv
<1>3. UNCHANGED <<pc, lines, file, offset, readOffset, pending, origin, checkpoint>> => BatchInv'
  BY DEF OrderedInv, BatchInv, Reading
<1>4. UNCHANGED <<cut, path, processing, pc, origin>> => TurnInv'
  BY DEF OrderedInv, TurnInv
<1>5. UNCHANGED <<cut, stored, lines, path, processing, origin, checkpoint>> => OrderInv'
  BY DEF OrderedInv, OrderInv, Ahead, From
<1> QED BY <1>1, <1>2, <1>3, <1>4, <1>5

(* Steps that only name files, or forget the position: what was ahead in a *)
(* file is still ahead, and nothing more than that.                        *)
LEMMA AheadKeeps ==
  ASSUME SpoolInv, UNCHANGED lines, NEW i \in Inodes \cup {None},
         \/ checkpoint' = checkpoint /\ origin' = origin
         \/ checkpoint' = 0 /\ origin' = None /\ (i # None => origin # i)
  PROVE  Ahead(i)' = Ahead(i)
<1>1. CASE i = None
  BY <1>1 DEF Ahead
<1>2. CASE i # None
  <2>1. From(i)' = From(i)
    BY <1>2 DEF From
  <2> QED BY <2>1 DEF Ahead
<1> QED BY <1>1, <1>2

LEMMA LogRequestOrdered ==
  ASSUME SpoolInv, OrderedInv, LogRequest
  PROVE  OrderedInv'
<1>1. /\ UNCHANGED <<path, processing, lines, pc, file, offset, readOffset, pending,
                     checkpoint, origin, stored, cut, sink>>
      /\ buffer' = Append(buffer, logged + 1)
  BY DEF LogRequest, directory, database, tailer, history
<1>2. /\ buffer \in Seq(Nat) /\ logged \in Nat /\ logged + 1 \in Nat \ {Junk}
      /\ EventsIn(buffer) \subseteq 1..logged /\ EventsIn(stored) \subseteq 1..logged
      /\ \A i \in Inodes : EventsIn(lines[i]) \subseteq 1..logged
  BY SpoolAssumption DEF SpoolInv, LinesInv, Junk
<1>3. Precede(1..logged, {logged + 1})
  BY <1>2 DEF Precede
<1>4. EventsIn(buffer') = EventsIn(buffer) \cup {logged + 1}
  BY <1>1, <1>2, AppendEvents DEF Junk
<1>5. Ascending(buffer')
  <2>1. Precede(EventsIn(buffer), {logged + 1})
    BY <1>2, <1>3, PrecedeInside
  <2> QED BY <1>1, <1>2, <2>1, AscendingAppend DEF OrderedInv, SortedInv
<1>6. ASSUME NEW A, A \subseteq 1..logged, Precede(A, EventsIn(buffer))
      PROVE  Precede(A, EventsIn(buffer'))
  <2>1. Precede(A, {logged + 1})
    BY <1>3, <1>6, PrecedeInside
  <2> QED BY <1>4, <1>6, <2>1 DEF Precede
<1>7. Precede(EventsIn(stored), EventsIn(buffer'))
  BY <1>2, <1>6 DEF OrderedInv, SortedInv
<1>8. \A i \in Inodes : Precede(EventsIn(lines[i]), EventsIn(buffer'))
  BY <1>2, <1>6 DEF OrderedInv, SortedInv
<1>9. SortedInv'
  BY <1>1, <1>5, <1>7, <1>8 DEF OrderedInv, SortedInv
<1> QED BY <1>1, <1>9, OrderPartsKeep DEF OrderedInv

(* A write appends requests of the buffer, in their order.                 *)
LEMMA WriteBufferOrdered ==
  ASSUME SpoolInv, SortedInv, WriteBuffer, sink # None
  PROVE  \E t \in Seq(Nat) :
           /\ lines' = [lines EXCEPT ![sink] = lines[sink] \o t]
           /\ EventsIn(t) \subseteq EventsIn(buffer)
           /\ Ascending(t)
<1> DEFINE t == IF torn = sink /\ buffer # <<>> THEN Tail(buffer) ELSE buffer
<1>1. buffer \in Seq(Nat) /\ Ascending(buffer)
  BY DEF SpoolInv, LinesInv, SortedInv
<1>2. t \in Seq(Nat) /\ EventsIn(t) \subseteq EventsIn(buffer) /\ Ascending(t)
  BY <1>1, TailEvents, AscendingTail
<1>3. lines' = [lines EXCEPT ![sink] = lines[sink] \o t]
  BY DEF WriteBuffer, Appended
<1> HIDE DEF t
<1> QED BY <1>2, <1>3

LEMMA WriteOrdered ==
  ASSUME SpoolInv, OrderedInv, WriteBuffer, sink # None,
         UNCHANGED <<processing, database, tailer, cut>>,
         \/ path' = path
         \/ path = None /\ path' \in Inodes /\ path' # origin
              /\ lines[path'] = <<>> /\ path' # sink,
         sink' = sink \/ sink' = path', path' # None => path' # processing
  PROVE  OrderedInv'
<1> USE DEF OrderedInv
<1>1. PICK t \in Seq(Nat) :
           /\ lines' = [lines EXCEPT ![sink] = lines[sink] \o t]
           /\ EventsIn(t) \subseteq EventsIn(buffer)
           /\ Ascending(t)
  BY WriteBufferOrdered
<1>2. /\ checkpoint' = checkpoint /\ origin' = origin /\ stored' = stored /\ pc' = pc
      /\ file' = file /\ offset' = offset /\ readOffset' = readOffset /\ pending' = pending
      /\ buffer' = <<>>
  BY DEF database, tailer, WriteBuffer
<1>3. /\ sink \in Inodes /\ lines \in [Inodes -> Seq(Nat)] /\ lines[sink] \in Seq(Nat)
      /\ lines'[sink] = lines[sink] \o t
      /\ \A i \in Inodes : i # sink => lines'[i] = lines[i]
  BY <1>1, FilesAreInodes DEF SpoolInv, FilesInv
<1>4. EventsIn(lines'[sink]) = EventsIn(lines[sink]) \cup EventsIn(t)
  <2>1. 0 \in Nat
    OBVIOUS
  <2> QED BY <1>3, <2>1, BetweenGrows
<1>5. SortedInv'
  <2>1. ASSUME NEW i \in Inodes PROVE Sorted(lines'[i])
    <3>1. CASE i # sink
      BY <1>3, <3>1 DEF SortedInv
    <3>2. CASE i = sink
      <4>1. Sorted(lines[sink]) /\ Precede(EventsIn(lines[sink]), EventsIn(t)) /\ Sorted(t)
        BY <1>1, <1>3, PrecedeInside DEF SortedInv, Ascending
      <4> QED BY <1>3, <3>2, <4>1, SortedConcat
    <3> QED BY <3>1, <3>2
  <2>2. \A A : Precede(A, EventsIn(buffer'))
    BY <1>2, EmptyOrder DEF Precede
  <2> QED BY <1>2, <2>1, <2>2, EmptyOrder DEF SortedInv
<1>6. RotationInv'
  <2>1. SUFFICES ASSUME path' # None, processing # None
                 PROVE  /\ Precede(EventsIn(lines'[processing]), EventsIn(lines'[path']))
                        /\ sink' = processing => EventsIn(lines'[path']) = {}
    BY DEF RotationInv
  <2>2. processing \in Inodes /\ path' \in Inodes
    BY <2>1, FilesAreInodes DEF SpoolInv
  <2>3. CASE path' # path
    <3>1. EventsIn(lines'[path']) = {}
      BY <1>3, <2>2, <2>3, EmptyOrder
    <3> QED BY <3>1 DEF Precede
  <2>4. CASE path' = path /\ sink = processing
    <3>1. lines'[path'] = lines[path] /\ EventsIn(lines[path]) = {}
      BY <1>3, <2>1, <2>2, <2>4 DEF RotationInv
    <3> QED BY <3>1 DEF Precede
  <2>5. CASE path' = path /\ sink # processing
    <3>1. lines'[processing] = lines[processing] /\ sink' # processing
      BY <1>3, <2>1, <2>2, <2>5
    <3>2. Precede(EventsIn(lines[processing]), EventsIn(lines[path]))
      BY <2>1, <2>5 DEF RotationInv
    <3>3. CASE sink # path
      BY <1>3, <2>2, <2>5, <3>1, <3>2, <3>3
    <3>4. CASE sink = path
      <4>1. Precede(EventsIn(lines[processing]), EventsIn(t))
        BY <1>1, <2>2, PrecedeInside DEF SortedInv
      <4>2. Precede(EventsIn(lines[processing]), EventsIn(lines[sink]) \cup EventsIn(t))
        BY <3>2, <3>4, <4>1, PrecedeUnion
      <4> QED BY <1>4, <2>5, <3>1, <3>4, <4>2
    <3> QED BY <3>3, <3>4
  <2> QED BY <2>3, <2>4, <2>5
<1>7. BatchInv'
  <2>1. Reading' = Reading
    BY <1>2 DEF Reading
  <2>2. SUFFICES ASSUME Reading
                 PROVE  Between(lines'[file], offset, readOffset) =
                          Between(lines[file], offset, readOffset)
    BY <1>2, <2>1 DEF BatchInv
  <2>3. /\ file \in Inodes /\ offset \in Nat /\ readOffset \in Nat
        /\ readOffset <= Len(lines[file])
    BY <2>2, FileIsRead
  <2>4. CASE file = sink
    <3>1. Between(lines[sink] \o t, offset, readOffset) = Between(lines[sink], offset, readOffset)
      BY <1>3, <2>3, <2>4, BetweenGrows
    <3> QED BY <1>3, <2>4, <3>1
  <2>5. CASE file # sink
    BY <1>3, <2>3, <2>5
  <2> QED BY <2>4, <2>5
<1>8. TurnInv'
  BY <1>2 DEF TurnInv
<1>9. ASSUME NEW i \in Inodes \cup {None}, Precede(EventsIn(stored), Ahead(i))
      PROVE  Precede(EventsIn(stored), Ahead(i)')
  <2>1. From(i)' = From(i)
    BY <1>2 DEF From
  <2>2. CASE i = sink
    <3>1. From(sink) \in Nat /\ From(sink) <= Len(lines[sink])
      BY <1>3, UnreadFrom
    <3>2. Between(lines[sink] \o t, From(sink), Len(lines[sink] \o t)) =
            Between(lines[sink], From(sink), Len(lines[sink])) \cup EventsIn(t)
      BY <1>3, <3>1, BetweenGrows
    <3>3. Ahead(i)' = Ahead(i) \cup EventsIn(t)
      BY <1>3, <2>1, <2>2, <3>2 DEF Ahead
    <3>4. Precede(EventsIn(stored), EventsIn(t))
      BY <1>1, PrecedeInside DEF SortedInv
    <3> QED BY <1>9, <3>3, <3>4 DEF Precede
  <2>3. CASE i # sink
    <3>1. Ahead(i)' = Ahead(i)
      BY <1>3, <2>1, <2>3 DEF Ahead
    <3> QED BY <1>9, <3>1
  <2> QED BY <2>2, <2>3
<1>10. OrderInv'
  <2>1. SUFFICES ASSUME ~cut
                 PROVE  /\ Precede(EventsIn(stored), Ahead(path)')
                        /\ Precede(EventsIn(stored), Ahead(processing)')
    BY <1>2 DEF OrderInv
  <2>2. Precede(EventsIn(stored), Ahead(processing)')
    <3> PICK i \in Inodes \cup {None} : i = processing
      BY AheadInodes
    <3>2. Ahead(i)' = Ahead(processing)'
      BY DEF Ahead, From
    <3>3. Precede(EventsIn(stored), Ahead(i))
      BY <2>1 DEF OrderInv
    <3> QED BY <1>9, <3>2, <3>3
  <2>3. CASE path' = path
    <3> PICK i \in Inodes \cup {None} : i = path
      BY AheadInodes
    <3>2. Ahead(i)' = Ahead(path)'
      BY <2>3 DEF Ahead, From
    <3>3. Precede(EventsIn(stored), Ahead(i))
      BY <2>1 DEF OrderInv
    <3> QED BY <1>9, <2>2, <3>2, <3>3
  <2>4. CASE path' # path
    <3>1. path' \in Inodes /\ lines'[path'] = <<>> /\ path' # origin
      BY <1>3, <2>4
    <3>2. Ahead(path)' = Between(<<>>, 0, 0)
      BY <1>2, <3>1, FilesAreInodes DEF Ahead, From, SpoolInv
    <3>3. Between(<<>>, 0, 0) = {}
      BY BetweenEmpty
    <3> QED BY <2>2, <3>2, <3>3, PrecedeUnion
  <2> QED BY <2>2, <2>3, <2>4
<1> QED BY <1>5, <1>6, <1>7, <1>8, <1>10

LEMMA FlushBufferOrdered ==
  ASSUME SpoolInv, OrderedInv, FlushBuffer
  PROVE  OrderedInv'
<1>1. /\ UNCHANGED <<processing, database, tailer, cut, path, sink>>
      /\ WriteBuffer /\ sink # None
  BY DEF FlushBuffer
<1>2. path # None => path # processing
  BY DEF SpoolInv, FilesInv
<1> QED BY <1>1, <1>2, WriteOrdered

(* A file that is created is empty, and nobody knows it yet.               *)
LEMMA CreatedIsNew ==
  ASSUME SpoolInv, NEW p \in 1..inodes', inodes' \in 0..MaxInodes, p > inodes
  PROVE  /\ p \in Inodes /\ lines[p] = <<>> /\ p # None
         /\ p \notin {path, processing, torn, sink, file, origin}
<1>1. inodes' \in Nat /\ MaxInodes \in Nat /\ inodes \in Nat /\ None \notin Inodes
  BY SpoolAssumption DEF SpoolInv, FilesInv
<1>2. p \in Inodes /\ p # None
  BY <1>1 DEF Inodes
<1>3. lines[p] = <<>>
  BY <1>2 DEF SpoolInv, FilesInv
<1>4. p \notin 1..inodes
  BY <1>1
<1> QED BY <1>2, <1>3, <1>4 DEF SpoolInv, FilesInv

LEMMA ReopenSpoolOrdered ==
  ASSUME SpoolInv, OrderedInv, ReopenSpool
  PROVE  OrderedInv'
<1>1. /\ UNCHANGED <<processing, database, tailer, cut>>
      /\ WriteBuffer /\ OpenSpool /\ sink # None
  BY DEF ReopenSpool, SpoolInv, WorkerInv
<1>2. /\ inodes' \in 0..MaxInodes /\ path' # None /\ path' \in 1..inodes' /\ sink' = path'
      /\ path' = path \/ (path = None /\ path' > inodes)
  BY <1>1, OpenSpoolOpens DEF SpoolInv
<1>3. CASE path' = path
  <2>1. path' # processing
    BY <1>2, <1>3 DEF SpoolInv, FilesInv
  <2> QED BY <1>1, <1>2, <1>3, <2>1, WriteOrdered
<1>4. CASE path = None /\ path' > inodes
  <2>1. /\ path' \in Inodes /\ lines[path'] = <<>>
        /\ path' # origin /\ path' # sink /\ path' # processing
    <3> PICK p \in 1..inodes' : p = path'
      BY <1>2
    <3>1. p > inodes
      BY <1>4
    <3>2. /\ p \in Inodes /\ lines[p] = <<>> /\ p # None
          /\ p \notin {path, processing, torn, sink, file, origin}
      BY <1>2, <3>1, CreatedIsNew
    <3> QED BY <3>2
  <2> QED BY <1>1, <1>2, <1>4, <2>1, WriteOrdered
<1> QED BY <1>2, <1>3, <1>4

(* Steps that may create the spool and write nothing.                      *)
LEMMA NewSpoolOrdered ==
  ASSUME SpoolInv, OrderedInv,
         UNCHANGED <<lines, processing, buffer, stored, pending, checkpoint, origin, cut, file,
                     offset, readOffset>>,
         \/ path' = path
         \/ path = None /\ path' \in Inodes /\ lines[path'] = <<>>
              /\ path' # origin /\ path' # sink,
         sink' = sink \/ (sink' = path' /\ path' # processing),
         pc' = pc \/ (pc = "create" /\ pc' = "open")
  PROVE  OrderedInv'
<1> USE DEF OrderedInv
<1>1. SortedInv'
  BY OrderPartsKeep
<1>2. RotationInv'
  <2>1. CASE path' = path
    BY <2>1 DEF RotationInv
  <2>2. CASE path' # path
    <3>1. EventsIn(lines'[path']) = {}
      BY <2>2, EmptyOrder
    <3>2. \A A : Precede(A, EventsIn(lines'[path']))
      BY <3>1 DEF Precede
    <3> QED BY <3>1, <3>2 DEF RotationInv
  <2> QED BY <2>1, <2>2
<1>3. BatchInv'
  <2>1. Reading' = Reading
    BY DEF Reading
  <2> QED BY <2>1 DEF BatchInv
<1>4. TurnInv'
  BY DEF TurnInv
<1>5. OrderInv'
  <2>1. CASE path' = path
    BY <2>1, OrderPartsKeep
  <2>2. CASE path' # path
    <3>1. path' \in Inodes /\ lines'[path'] = <<>> /\ path' # origin
      BY <2>2
    <3>2. Ahead(path)' = Between(<<>>, 0, 0)
      BY <3>1, FilesAreInodes DEF Ahead, From, SpoolInv
    <3>3. Between(<<>>, 0, 0) = {}
      BY BetweenEmpty
    <3>4. Ahead(processing)' = Ahead(processing)
      BY DEF Ahead, From
    <3>5. \A A : Precede(A, Ahead(path)')
      BY <3>2, <3>3 DEF Precede
    <3> QED BY <3>4, <3>5 DEF OrderInv
  <2> QED BY <2>1, <2>2
<1> QED BY <1>1, <1>2, <1>3, <1>4, <1>5

LEMMA StartOpenRestyOrdered ==
  ASSUME SpoolInv, OrderedInv, StartOpenResty
  PROVE  OrderedInv'
<1>1. /\ UNCHANGED <<lines, processing, buffer, stored, pending, checkpoint, origin, cut, file,
                     offset, readOffset, pc>>
      /\ OpenSpool
  BY DEF StartOpenResty, database, tailer, history
<1>2. /\ inodes' \in 0..MaxInodes /\ path' # None /\ path' \in 1..inodes' /\ sink' = path'
      /\ path' = path \/ (path = None /\ path' > inodes)
  BY <1>1, OpenSpoolOpens DEF SpoolInv
<1>3. CASE path' = path
  <2>1. path' # processing
    BY <1>2, <1>3 DEF SpoolInv, FilesInv
  <2> QED BY <1>1, <1>2, <1>3, <2>1, NewSpoolOrdered
<1>4. CASE path = None /\ path' > inodes
  <2>1. /\ path' \in Inodes /\ lines[path'] = <<>>
        /\ path' # origin /\ path' # sink /\ path' # processing
    <3> PICK p \in 1..inodes' : p = path'
      BY <1>2
    <3>1. p > inodes
      BY <1>4
    <3>2. /\ p \in Inodes /\ lines[p] = <<>> /\ p # None
          /\ p \notin {path, processing, torn, sink, file, origin}
      BY <1>2, <3>1, CreatedIsNew
    <3> QED BY <3>2
  <2> QED BY <1>1, <1>2, <1>4, <2>1, NewSpoolOrdered
<1> QED BY <1>2, <1>3, <1>4

LEMMA CreateOrdered ==
  ASSUME SpoolInv, OrderedInv, Create
  PROVE  OrderedInv'
<1>1. /\ UNCHANGED <<lines, processing, buffer, stored, pending, checkpoint, origin, cut, file,
                     offset, readOffset, sink>>
      /\ pc = "create" /\ pc' = "open"
  BY DEF Create, worker, database, history
<1>2. CASE path' = path
  BY <1>1, <1>2, NewSpoolOrdered
<1>3. CASE path' # path
  <2>1. path = None /\ inodes < MaxInodes /\ inodes' = inodes + 1 /\ path' = inodes + 1
    BY <1>3 DEF Create, CreateSpool
  <2>2. inodes \in Nat /\ MaxInodes \in Nat
    BY FilesAreInodes DEF SpoolInv
  <2> PICK p \in 1..inodes' : p = path'
    BY <2>1, <2>2
  <2>3. inodes' \in 0..MaxInodes /\ p > inodes
    BY <2>1, <2>2
  <2>4. /\ p \in Inodes /\ lines[p] = <<>>
        /\ p \notin {path, processing, torn, sink, file, origin}
    BY <2>3, CreatedIsNew
  <2> QED BY <1>1, <2>1, <2>4, NewSpoolOrdered
<1> QED BY <1>2, <1>3

(* The position may be forgotten, where no file to read is concerned.      *)
LEMMA StartOrdered ==
  ASSUME SpoolInv, OrderedInv, Start \/ Reset
  PROVE  OrderedInv'
<1> USE DEF OrderedInv
<1>1. /\ UNCHANGED <<path, processing, lines, buffer, sink, stored, pending, cut>>
      /\ pc \in {"start", "reset"} /\ pc' = "open"
  BY Untouched DEF Start, Reset, history
<1>2. \/ checkpoint' = checkpoint /\ origin' = origin
      \/ checkpoint' = 0 /\ origin' = None /\ (pc = "start" => path = None)
  BY DEF Start, Reset, ResetCheckpoint
<1>3. SortedInv' /\ RotationInv'
  BY <1>1, OrderPartsKeep
<1>4. BatchInv'
  BY <1>1 DEF BatchInv, Reading
<1>5. TurnInv'
  BY <1>1, <1>2 DEF TurnInv
<1>6. OrderInv'
  <2>1. SUFFICES ASSUME ~cut
                 PROVE  Ahead(path)' = Ahead(path) /\ Ahead(processing)' = Ahead(processing)
    BY <1>1 DEF OrderInv
  <2>2. ASSUME NEW i \in Inodes \cup {None}, i \in {path, processing} PROVE Ahead(i)' = Ahead(i)
    <3>1. \/ checkpoint' = checkpoint /\ origin' = origin
          \/ checkpoint' = 0 /\ origin' = None /\ (i # None => origin # i)
      BY <1>1, <1>2, <2>1, <2>2 DEF TurnInv
    <3> QED BY <1>1, <3>1, AheadKeeps
  <2> PICK i \in Inodes \cup {None}, j \in Inodes \cup {None} : i = path /\ j = processing
    BY AheadInodes
  <2>3. Ahead(i)' = Ahead(path)' /\ Ahead(j)' = Ahead(processing)'
    BY <1>1 DEF Ahead, From
  <2> QED BY <2>2, <2>3
<1> QED BY <1>3, <1>4, <1>5, <1>6

LEMMA OpenOrdered ==
  ASSUME SpoolInv, OrderedInv, Open
  PROVE  OrderedInv'
<1> USE DEF OrderedInv
<1>1. /\ UNCHANGED <<path, processing, lines, buffer, sink, stored, cut>>
      /\ pc = "open" /\ pc' = "read" /\ ActiveFile # None /\ file' = ActiveFile
      /\ readOffset' = offset' /\ pending' = <<>>
  BY Untouched DEF Open
<1>2. ActiveFile \in Inodes /\ Len(lines[ActiveFile]) \in Nat /\ checkpoint \in Nat
  BY <1>1, FilesAreInodes DEF SpoolInv, PositionInv, ActiveFile
<1>3. \/ /\ checkpoint > Len(lines[ActiveFile]) /\ offset' = 0
         /\ \/ checkpoint' = 0 /\ origin' = None
            \/ checkpoint' = checkpoint /\ origin' = origin
      \/ offset' = checkpoint /\ checkpoint' = checkpoint /\ origin' = origin
  BY <1>2 DEF Open, ResetCheckpoint
<1>4. checkpoint > Len(lines[ActiveFile]) => origin # ActiveFile
  BY <1>1, <1>2 DEF SpoolInv, PositionInv
<1>5. SortedInv' /\ RotationInv'
  <2>1. SortedInv'
    BY <1>1, EmptyOrder DEF SortedInv
  <2> QED BY <1>1, <2>1, OrderPartsKeep
<1>6. BatchInv'
  BY <1>1, <1>3, <1>4, EmptyOrder DEF BatchInv
<1>7. TurnInv'
  BY <1>1, <1>3 DEF TurnInv
<1>8. OrderInv'
  <2>1. SUFFICES ASSUME ~cut
                 PROVE  Ahead(path)' = Ahead(path) /\ Ahead(processing)' = Ahead(processing)
    BY <1>1 DEF OrderInv
  <2>2. ASSUME NEW i \in Inodes \cup {None}, i \in {path, processing} PROVE Ahead(i)' = Ahead(i)
    <3>1. \/ checkpoint' = checkpoint /\ origin' = origin
          \/ checkpoint' = 0 /\ origin' = None /\ (i # None => origin # i)
      BY <1>1, <1>3, <1>4, <2>1, <2>2 DEF TurnInv, ActiveFile
    <3> QED BY <1>1, <3>1, AheadKeeps
  <2> PICK i \in Inodes \cup {None}, j \in Inodes \cup {None} : i = path /\ j = processing
    BY AheadInodes
  <2>3. Ahead(i)' = Ahead(path)' /\ Ahead(j)' = Ahead(processing)'
    BY <1>1 DEF Ahead, From
  <2> QED BY <2>2, <2>3
<1> QED BY <1>5, <1>6, <1>7, <1>8

(* Committed lines are the next of their file, and older than every other  *)
(* line there is still to read.                                            *)
LEMMA CommitOrdered ==
  ASSUME SpoolInv, OrderedInv, Reading, UNCHANGED <<directory, worker, file, history>>,
         NEW batch \in Seq(Nat), NEW position \in Nat, Commit(batch, position),
         offset <= position, position <= Len(lines[file]),
         EventsIn(batch) \subseteq Between(lines[file], offset, position), Ascending(batch),
         pc' \in {"read", "end"}
  PROVE  OrderedInv'
<1> USE DEF OrderedInv
<1>1. /\ UNCHANGED <<path, processing, lines, buffer, sink, file, cut>>
      /\ stored' = stored \o batch /\ checkpoint' = position /\ origin' = file
      /\ offset' = position /\ readOffset' = position /\ pending' = <<>>
  BY Untouched DEF history, Commit
<1>2. /\ file \in Inodes /\ file # None /\ lines[file] \in Seq(Nat) /\ Sorted(lines[file])
      /\ Len(lines[file]) \in Nat /\ offset \in Nat /\ file = ActiveFile
  BY FileIsRead DEF SortedInv, SpoolInv, TailerInv
<1>3. stored \in Seq(Nat) /\ EventsIn(stored') = EventsIn(stored) \cup EventsIn(batch)
  <2>1. stored \in Seq(Nat) /\ 0 \in Nat
    BY DEF SpoolInv, LinesInv
  <2> QED BY <1>1, <2>1, BetweenGrows
<1>4. EventsIn(batch) \subseteq EventsIn(lines[file])
  <2>1. Between(lines[file], offset, position) \subseteq EventsIn(lines[file])
    BY <1>2, BetweenInside
  <2> QED BY <2>1
<1>5. SortedInv'
  <2>1. Precede(EventsIn(batch), EventsIn(buffer))
    BY <1>2, <1>4, PrecedeInside DEF SortedInv
  <2>2. Precede(EventsIn(stored'), EventsIn(buffer))
    BY <1>3, <2>1 DEF SortedInv, Precede
  <2> QED BY <1>1, <2>2, EmptyOrder DEF SortedInv
<1>6. RotationInv'
  BY <1>1, OrderPartsKeep
<1>7. BatchInv'
  BY <1>1, EmptyOrder DEF BatchInv
<1>8. TurnInv'
  <2>1. path # None /\ processing # None => file # path
    BY <1>2 DEF ActiveFile, SpoolInv, FilesInv
  <2> QED BY <1>1, <2>1 DEF TurnInv
<1>9. OrderInv'
  <2>1. SUFFICES ASSUME ~cut
                 PROVE  /\ Ascending(stored')
                        /\ Precede(EventsIn(stored'), Ahead(path)')
                        /\ Precede(EventsIn(stored'), Ahead(processing)')
    BY <1>1 DEF OrderInv
  <2>2. From(file) \in Nat /\ From(file) <= offset
    <3>1. origin = file => offset = checkpoint
      BY DEF BatchInv
    <3>2. checkpoint \in Nat
      BY DEF SpoolInv, PositionInv
    <3> QED BY <1>2, <3>1, <3>2 DEF From
  <2>3. /\ Ahead(file) = Between(lines[file], From(file), Len(lines[file]))
        /\ Between(lines[file], offset, Len(lines[file])) \subseteq Ahead(file)
        /\ Between(lines[file], offset, Len(lines[file])) =
             Between(lines[file], offset, position)
               \cup Between(lines[file], position, Len(lines[file]))
    <3>1. Ahead(file) = Between(lines[file], From(file), Len(lines[file]))
      BY <1>2 DEF Ahead
    <3> QED BY <1>2, <2>2, <3>1, BetweenSplits, BetweenShrinks
  <2>4. Precede(EventsIn(stored), Ahead(file))
    <3>1. file = path \/ file = processing
      BY <1>2 DEF ActiveFile
    <3> QED BY <2>1, <3>1 DEF OrderInv
  <2>5. Ascending(stored')
    <3>1. Precede(EventsIn(stored), EventsIn(batch))
      BY <2>3, <2>4 DEF Precede
    <3>2. Ascending(stored)
      BY <2>1 DEF OrderInv
    <3> QED BY <1>1, <1>3, <3>1, <3>2, SortedConcat DEF Ascending
  <2>6. Precede(EventsIn(stored'), Between(lines[file], position, Len(lines[file])))
    <3>1. Precede(Between(lines[file], offset, position),
                  Between(lines[file], position, Len(lines[file])))
      BY <1>2, SortedApart
    <3> QED BY <1>3, <2>3, <2>4, <3>1 DEF Precede
  <2>7. CASE file = path
    <3>1. processing = None
      BY <1>2, <2>7 DEF ActiveFile, SpoolInv, FilesInv
    <3>2. Ahead(processing)' = {}
      BY <1>1, <3>1 DEF Ahead
    <3>3. Ahead(path)' = Between(lines[file], position, Len(lines[file]))
      BY <1>1, <1>2, <2>7 DEF Ahead, From
    <3>4. Precede(EventsIn(stored'), {})
      BY DEF Precede
    <3> QED BY <2>5, <2>6, <3>2, <3>3, <3>4
  <2>8. CASE file = processing
    <3>1. Ahead(processing)' = Between(lines[file], position, Len(lines[file]))
      BY <1>1, <1>2, <2>8 DEF Ahead, From
    <3>2. CASE path = None
      <4>1. Ahead(path)' = {}
        BY <1>1, <3>2 DEF Ahead
      <4>2. Precede(EventsIn(stored'), {})
        BY DEF Precede
      <4> QED BY <2>5, <2>6, <3>1, <4>1, <4>2
    <3>3. CASE path # None
      <4>1. path \in Inodes /\ lines[path] \in Seq(Nat) /\ path # file /\ origin # path
        BY <1>2, <2>1, <2>8, <3>3, FilesAreInodes DEF SpoolInv, FilesInv, TurnInv
      <4>2. Ahead(path) = EventsIn(lines[path]) /\ Ahead(path)' = EventsIn(lines[path])
        BY <1>1, <3>3, <4>1, SeqEvents DEF Ahead, From
      <4>3. Precede(EventsIn(lines[file]), EventsIn(lines[path]))
        BY <1>2, <2>8, <3>3 DEF RotationInv
      <4>4. Precede(EventsIn(stored), EventsIn(lines[path]))
        BY <2>1, <4>2 DEF OrderInv
      <4>5. Precede(EventsIn(stored'), EventsIn(lines[path]))
        BY <1>3, <1>4, <4>3, <4>4 DEF Precede
      <4> QED BY <2>5, <2>6, <3>1, <4>2, <4>5
    <3> QED BY <3>2, <3>3
  <2>9. file = path \/ file = processing
    BY <1>2 DEF ActiveFile
  <2> QED BY <2>7, <2>8, <2>9
<1> QED BY <1>5, <1>6, <1>7, <1>8, <1>9

LEMMA RewindOrdered ==
  ASSUME SpoolInv, OrderedInv, Reading, UNCHANGED <<directory, worker, file, history>>, Rewind,
         pc' \in {"read", "end"}
  PROVE  OrderedInv'
<1> USE DEF OrderedInv
<1>1. /\ UNCHANGED <<path, processing, lines, buffer, sink, file, cut, stored, checkpoint,
                     origin, offset>>
      /\ readOffset' = offset /\ pending' = <<>>
  BY Untouched DEF history, database, Rewind
<1>2. SortedInv'
  BY <1>1, EmptyOrder DEF SortedInv
<1>3. BatchInv'
  BY <1>1, EmptyOrder DEF BatchInv
<1>4. TurnInv'
  BY <1>1 DEF TurnInv, Reading
<1> QED BY <1>1, <1>2, <1>3, <1>4, OrderPartsKeep

LEMMA LineIsNext ==
  ASSUME SpoolInv, OrderedInv, Reading, readOffset < Complete(file)
  PROVE  LET batch == Parsed(lines[file][readOffset + 1]) IN
         /\ Ascending(batch)
         /\ EventsIn(batch) \subseteq Between(lines[file], offset, readOffset + 1)
<1> DEFINE line == lines[file][readOffset + 1]
           batch == Parsed(line)
<1>1. /\ file \in Inodes /\ lines[file] \in Seq(Nat) /\ Len(lines[file]) \in Nat
      /\ readOffset \in Nat /\ offset \in Nat /\ offset <= readOffset
      /\ Complete(file) \in Nat /\ Complete(file) <= Len(lines[file])
  BY FileIsRead
<1>2. readOffset + 1 \in 1..Len(lines[file]) /\ readOffset + 1 \in Nat
  BY <1>1
<1>3. line \in Nat /\ Sorted(lines[file])
  BY <1>1, <1>2 DEF OrderedInv, SortedInv
<1>4. /\ pending \in Seq(Nat) /\ Ascending(pending)
      /\ EventsIn(pending) \subseteq Between(lines[file], offset, readOffset)
  BY DEF SpoolInv, LinesInv, OrderedInv, SortedInv, BatchInv
<1>5. Between(lines[file], readOffset, readOffset + 1) = {line} \ {Junk}
  <2>1. (readOffset + 1)..(readOffset + 1) = {readOffset + 1}
    BY <1>1
  <2> QED BY <2>1 DEF Between
<1>6. Between(lines[file], offset, readOffset + 1) =
        Between(lines[file], offset, readOffset)
          \cup Between(lines[file], readOffset, readOffset + 1)
  <2>1. readOffset <= readOffset + 1
    BY <1>1
  <2> QED BY <1>1, <1>2, <2>1, BetweenSplits
<1> SUFFICES /\ Ascending(batch)
             /\ EventsIn(batch) \subseteq Between(lines[file], offset, readOffset + 1)
  OBVIOUS
<1> HIDE DEF line
<1>7. CASE line = Junk
  BY <1>4, <1>6, <1>7 DEF Parsed
<1>8. CASE line # Junk
  <2>1. Precede(Between(lines[file], offset, readOffset),
                Between(lines[file], readOffset, readOffset + 1))
    <3>1. readOffset <= readOffset + 1 /\ readOffset + 1 <= Len(lines[file])
      BY <1>1, <1>2
    <3> QED BY <1>1, <1>2, <1>3, <3>1, SortedApart
  <2>2. Precede(EventsIn(pending), {line})
    BY <1>4, <1>5, <1>8, <2>1 DEF Precede
  <2>3. batch = Append(pending, line)
    BY <1>8 DEF Parsed
  <2>4. Ascending(Append(pending, line))
    BY <1>3, <1>4, <1>8, <2>2, AscendingAppend
  <2>5. EventsIn(Append(pending, line)) = EventsIn(pending) \cup ({line} \ {Junk})
    BY <1>3, <1>4, AppendEvents
  <2> QED BY <1>4, <1>5, <1>6, <2>3, <2>4, <2>5
<1> QED BY <1>7, <1>8

LEMMA ReadLineOrdered ==
  ASSUME SpoolInv, OrderedInv, ReadLine
  PROVE  OrderedInv'
<1> DEFINE batch == Parsed(lines[file][readOffset + 1])
<1>1. /\ UNCHANGED <<directory, worker, pc, file, history>>
      /\ pc = "read" /\ readOffset < Complete(file) /\ Reading
  BY DEF ReadLine, Reading
<1>2. /\ readOffset + 1 \in Nat /\ readOffset + 1 <= Len(lines[file])
      /\ batch \in Seq(Nat) /\ Ascending(batch)
      /\ EventsIn(batch) \subseteq Between(lines[file], offset, readOffset + 1)
      /\ offset <= readOffset + 1
  BY <1>1, LineIsParsed, LineIsNext, FileIsRead
<1>3. \/ pending' = batch /\ readOffset' = readOffset + 1 /\ UNCHANGED <<database, offset>>
      \/ Commit(batch, readOffset + 1)
      \/ Rewind
  BY DEF ReadLine
<1> HIDE DEF batch
<1>4. CASE pending' = batch /\ readOffset' = readOffset + 1 /\ UNCHANGED <<database, offset>>
  <2>1. UNCHANGED <<path, processing, lines, buffer, sink, cut, file, stored, checkpoint, origin,
                    offset, pc>>
    BY <1>1, <1>4, Untouched DEF history, database
  <2>2. SortedInv'
    BY <1>2, <1>4, <2>1 DEF OrderedInv, SortedInv
  <2>3. BatchInv'
    BY <1>1, <1>2, <1>4, <2>1 DEF OrderedInv, BatchInv
  <2> QED BY <2>1, <2>2, <2>3, OrderPartsKeep DEF OrderedInv
<1>5. CASE Commit(batch, readOffset + 1)
  <2>1. pc' \in {"read", "end"}
    BY <1>1
  <2> QED BY <1>1, <1>2, <1>5, <2>1, CommitOrdered
<1>6. CASE Rewind
  <2>1. pc' \in {"read", "end"}
    BY <1>1
  <2> QED BY <1>1, <1>6, <2>1, RewindOrdered
<1> QED BY <1>3, <1>4, <1>5, <1>6

LEMMA ReachEndOrdered ==
  ASSUME SpoolInv, OrderedInv, ReachEnd
  PROVE  OrderedInv'
<1>1. /\ UNCHANGED <<directory, worker, file, history>>
      /\ pc = "read" /\ Reading /\ pc' \in {"read", "end"}
  BY DEF ReachEnd, Reading
<1>2. /\ pending \in Seq(Nat) /\ readOffset \in Nat
      /\ offset <= readOffset /\ readOffset <= Len(lines[file])
      /\ Ascending(pending)
      /\ EventsIn(pending) \subseteq Between(lines[file], offset, readOffset)
  BY <1>1 DEF SpoolInv, LinesInv, TailerInv, OrderedInv, SortedInv, BatchInv
<1>3. \/ UNCHANGED <<database, offset, readOffset, pending>>
      \/ Commit(pending, readOffset)
      \/ Rewind
  BY DEF ReachEnd
<1>4. CASE UNCHANGED <<database, offset, readOffset, pending>>
  <2>1. UNCHANGED <<path, processing, lines, buffer, sink, cut, file, stored, checkpoint, origin,
                    offset, readOffset, pending>>
    BY <1>1, <1>4, Untouched DEF history, database
  <2>2. BatchInv'
    BY <1>1, <2>1 DEF OrderedInv, BatchInv
  <2>3. TurnInv'
    BY <1>1, <2>1 DEF OrderedInv, TurnInv
  <2> QED BY <2>1, <2>2, <2>3, OrderPartsKeep DEF OrderedInv
<1>5. CASE Commit(pending, readOffset)
  BY <1>1, <1>2, <1>5, CommitOrdered
<1>6. CASE Rewind
  BY <1>1, <1>6, RewindOrdered
<1> QED BY <1>3, <1>4, <1>5, <1>6

(* The other steps of the tailer store nothing and forget no position.     *)
LEMMA TurnOrdered ==
  ASSUME SpoolInv, OrderedInv, Wait \/ RemoveProcessing \/ Rotate \/ ReopenLogs
  PROVE  OrderedInv'
<1> USE DEF OrderedInv
<1>1. /\ UNCHANGED <<lines, buffer, sink, stored, pending, checkpoint, origin, cut, offset,
                     readOffset>>
      /\ \/ pc = "end" /\ pc' = "read" /\ UNCHANGED <<path, processing, file>>
         \/ pc = "end" /\ pc' = "reset" /\ path' = path /\ processing' = None
              /\ file = processing
         \/ pc' = "reopen" /\ processing' = path /\ path' = None
         \/ pc = "reopen" /\ pc' = "create" /\ UNCHANGED <<path, processing>>
         \/ pc = "reopen" /\ pc' = "open" /\ path' = processing /\ processing' = None
  BY Untouched DEF Wait, RemoveProcessing, Rotate, ReopenLogs, worker, database, history
<1>2. SortedInv'
  BY <1>1, OrderPartsKeep
<1>3. RotationInv'
  BY <1>1 DEF RotationInv
<1>4. BatchInv'
  BY <1>1 DEF BatchInv, Reading
<1>5. TurnInv'
  <2>1. pc = "end" => file # None
    BY DEF SpoolInv, TailerInv, Reading
  <2> QED BY <1>1, <2>1 DEF TurnInv
<1>6. OrderInv'
  <2>1. SUFFICES ASSUME ~cut
                 PROVE  /\ Precede(EventsIn(stored), Ahead(path)')
                        /\ Precede(EventsIn(stored), Ahead(processing)')
    BY <1>1 DEF OrderInv
  <2>2. /\ Precede(EventsIn(stored), Ahead(path)) /\ Precede(EventsIn(stored), Ahead(processing))
        /\ Precede(EventsIn(stored), {})
    BY <2>1 DEF OrderInv, Precede
  <2>3. /\ path' \in {None, path, processing} /\ processing' \in {None, path, processing}
    BY <1>1
  <2>4. \/ Ahead(path)' = {} \/ Ahead(path)' = Ahead(path) \/ Ahead(path)' = Ahead(processing)
    BY <1>1, <2>3 DEF Ahead, From
  <2>5. \/ Ahead(processing)' = {} \/ Ahead(processing)' = Ahead(path)
        \/ Ahead(processing)' = Ahead(processing)
    BY <1>1, <2>3 DEF Ahead, From
  <2> QED BY <2>2, <2>4, <2>5
<1> QED BY <1>2, <1>3, <1>4, <1>5, <1>6

(* A line cut short by a crash does not count: the others are in order.    *)
LEMMA CrashSorted ==
  ASSUME SpoolInv, SortedInv, NEW recreated \in BOOLEAN, Crash(recreated)
  PROVE  \A i \in Inodes : Sorted(lines'[i])
<1>1. lines \in [Inodes -> Seq(Nat)] /\ \A i \in Inodes : Sorted(lines[i])
  BY DEF SpoolInv, FilesInv, SortedInv
<1>2. CASE ~writing
  <2>1. lines' = lines
    BY <1>2 DEF Crash
  <2> QED BY <1>1, <2>1
<1>3. CASE writing
  <2> DEFINE old == lines[sink]
             n == Len(lines[sink])
             new == [old EXCEPT ![n] = Junk]
  <2>1. sink \in Inodes /\ old \in Seq(Nat)
    BY <1>3, FilesAreInodes DEF SpoolInv, WorkerInv
  <2>2. lines' = [lines EXCEPT ![sink] = new]
    BY <1>3 DEF Crash
  <2>3. DOMAIN new = DOMAIN old /\ \A k \in DOMAIN old : new[k] = Junk \/ new[k] = old[k]
    OBVIOUS
  <2>4. \A i \in Inodes : lines'[i] = IF i = sink THEN new ELSE lines[i]
    BY <1>1, <2>1, <2>2
  <2> HIDE DEF new
  <2>5. Sorted(new)
    BY <1>1, <2>1, <2>3 DEF Sorted
  <2> QED BY <1>1, <2>4, <2>5
<1> QED BY <1>2, <1>3

LEMMA CrashOrdered ==
  ASSUME SpoolInv, OrderedInv, NEW recreated \in BOOLEAN, Crash(recreated)
  PROVE  OrderedInv'
<1> USE DEF OrderedInv
<1>1. /\ sink' = None /\ buffer' = <<>> /\ pc' = "start" /\ pending' = <<>>
      /\ stored' = stored /\ checkpoint' = checkpoint /\ origin' = origin
      /\ cut' = (cut \/ (~recreated /\ processing # None /\ path = None))
  BY DEF Crash, database
<1>2. \/ recreated /\ path' = None /\ processing' = None
      \/ ~recreated /\ path' = path /\ processing' = processing
  BY DEF Crash
<1>3. \A i \in Inodes :
        /\ Len(lines'[i]) = Len(lines[i])
        /\ EventsIn(lines'[i]) \subseteq EventsIn(lines[i])
        /\ \A a, b \in Nat : b <= Len(lines[i]) =>
             Between(lines'[i], a, b) \subseteq Between(lines[i], a, b)
  BY CrashCutsLine
<1>4. {path, processing} \subseteq Inodes \cup {None} /\ None \notin Inodes
  BY FilesAreInodes DEF SpoolInv
<1>5. SortedInv'
  <2>1. \A A : Precede(A, EventsIn(buffer'))
    BY <1>1, EmptyOrder DEF Precede
  <2> QED BY <1>1, <2>1, CrashSorted, EmptyOrder DEF SortedInv
<1>6. RotationInv'
  <2>1. SUFFICES ASSUME path' # None, processing' # None
                 PROVE  Precede(EventsIn(lines'[processing']), EventsIn(lines'[path']))
    BY <1>1 DEF RotationInv
  <2>2. path' = path /\ processing' = processing /\ path \in Inodes /\ processing \in Inodes
    BY <1>2, <1>4, <2>1
  <2>3. Precede(EventsIn(lines[processing]), EventsIn(lines[path]))
    BY <2>1, <2>2 DEF RotationInv
  <2> QED BY <1>3, <2>2, <2>3 DEF Precede
<1>7. BatchInv'
  BY <1>1 DEF BatchInv, Reading
<1>8. TurnInv'
  BY <1>1, <1>2 DEF TurnInv
<1>9. ASSUME NEW i \in Inodes \cup {None} PROVE Ahead(i)' \subseteq Ahead(i)
  <2>1. CASE i = None
    BY <2>1 DEF Ahead
  <2>2. CASE i # None
    <3>1. i \in Inodes /\ Len(lines[i]) \in Nat /\ From(i) \in Nat /\ From(i)' = From(i)
      BY <1>1, <2>2, FilesAreInodes, UnreadFrom DEF SpoolInv, From
    <3>2. Len(lines[i]) <= Len(lines[i])
      BY <3>1
    <3>3. \A a, b \in Nat : b <= Len(lines[i]) =>
             Between(lines'[i], a, b) \subseteq Between(lines[i], a, b)
      BY <1>3, <3>1
    <3>4. Between(lines'[i], From(i), Len(lines[i])) \subseteq
            Between(lines[i], From(i), Len(lines[i]))
      BY <3>1, <3>2, <3>3
    <3>5. Len(lines'[i]) = Len(lines[i])
      BY <1>3, <3>1
    <3> QED BY <2>2, <3>1, <3>4, <3>5 DEF Ahead
  <2> QED BY <2>1, <2>2
<1>10. OrderInv'
  <2>1. SUFFICES ASSUME ~cut
                 PROVE  /\ Precede(EventsIn(stored), Ahead(path)')
                        /\ Precede(EventsIn(stored), Ahead(processing)')
    BY <1>1 DEF OrderInv
  <2>2. /\ Precede(EventsIn(stored), Ahead(path)) /\ Precede(EventsIn(stored), Ahead(processing))
    BY <2>1 DEF OrderInv
  <2>3. CASE path' = None /\ processing' = None
    <3>1. Ahead(path)' = {} /\ Ahead(processing)' = {}
      BY <2>3 DEF Ahead
    <3> QED BY <3>1 DEF Precede
  <2>4. CASE path' = path /\ processing' = processing
    <3>1. Ahead(path)' \subseteq Ahead(path) /\ Ahead(processing)' \subseteq Ahead(processing)
      BY <1>9, <2>4, AheadInodes DEF Ahead, From
    <3> QED BY <2>2, <3>1 DEF Precede
  <2> QED BY <1>2, <2>3, <2>4
<1> QED BY <1>5, <1>6, <1>7, <1>8, <1>10

LEMMA InitOrdered == Init => OrderedInv
<1>1. SUFFICES ASSUME Init PROVE OrderedInv
  OBVIOUS
<1>2. /\ \A i \in Inodes : lines[i] = <<>>
      /\ buffer = <<>> /\ pending = <<>> /\ stored = <<>>
      /\ path = None /\ processing = None /\ pc = "start"
  BY <1>1 DEF Init
<1>3. Ahead(path) = {} /\ Ahead(processing) = {} /\ \A A : Precede(A, {})
  BY <1>2 DEF Ahead, Precede
<1>4. SortedInv
  <2>1. Sorted(<<>>)
    BY EmptyOrder DEF Ascending
  <2> QED BY <1>2, <1>3, <2>1, EmptyOrder DEF SortedInv
<1> QED BY <1>2, <1>3, <1>4, EmptyOrder
        DEF OrderedInv, RotationInv, BatchInv, Reading, TurnInv, OrderInv

LEMMA NextOrdered ==
  ASSUME SpoolInv, OrderedInv, [Next]_vars
  PROVE  OrderedInv'
<1>1. CASE UNCHANGED vars \/ FlushEnds \/ WritePid
  <2>1. UNCHANGED <<path, processing, lines, buffer, sink, database, tailer, history>>
    BY <1>1 DEF vars, FlushEnds, WritePid, directory, worker
  <2>2. UNCHANGED <<stored, checkpoint, origin, pc, file, offset, readOffset, pending, cut>>
    BY <2>1 DEF database, tailer, history
  <2> QED BY <2>1, <2>2, OrderPartsKeep DEF OrderedInv
<1>2. CASE OpenResty
  BY <1>1, <1>2, LogRequestOrdered, FlushBufferOrdered, ReopenSpoolOrdered, StartOpenRestyOrdered
     DEF OpenResty
<1>3. CASE Tailer
  BY <1>3, StartOrdered, OpenOrdered, ReadLineOrdered, ReachEndOrdered, TurnOrdered, CreateOrdered
     DEF Tailer
<1>4. CASE \E recreated \in BOOLEAN : Crash(recreated)
  BY <1>4, CrashOrdered
<1> QED BY <1>1, <1>2, <1>3, <1>4 DEF Next

(* Files, buffer and batch are in order, and what is stored is older than  *)
(* what the tailer has still to read, in every state.                      *)
THEOREM OrderedHold == Spec => []OrderedInv
<1>1. SpoolInv /\ OrderedInv /\ [Next]_vars => OrderedInv'
  BY NextOrdered
<1> QED BY <1>1, InitOrdered, SpoolInvHold, PTL DEF Spec

(* Requests are stored in the order they were served and none is stored    *)
(* twice, whatever calls fail and whenever the container dies, except      *)
(* between the rename and the re-creation of the spool.                    *)
THEOREM StoredOrderHold == Spec => []StoredOnceInOrder
<1>1. OrderedInv => StoredOnceInOrder
  <2>1. SUFFICES ASSUME OrderedInv, ~cut, NEW i \in DOMAIN stored, NEW j \in DOMAIN stored, i < j
                 PROVE  stored[i] < stored[j]
    BY DEF StoredOnceInOrder
  <2>2. Ascending(stored)
    BY <2>1 DEF OrderedInv, OrderInv
  <2> QED BY <2>1, <2>2 DEF Ascending, Sorted
<1> QED BY <1>1, OrderedHold, PTL
=============================================================================
