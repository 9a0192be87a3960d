-------------------------- MODULE AccessListsProof --------------------------
(***************************************************************************)
(* Proofs about AccessLists for any number of requests, users, settings,   *)
(* failures and crashes: a host that asks for a login always has the file  *)
(* to look it up, and a request that no other disturbs does in its four or *)
(* five steps exactly what it would do in one.                             *)
(***************************************************************************)
EXTENDS AccessLists, TLAPS

Steps == {"stat", "read", "write", "count", "row", "apply", "undo", "reapply"}

(* What a request carries at each of its steps.                            *)
Fits(r) ==
  \/ r = Idle
  \/ /\ r.op = "upsert" /\ r.step \in {"stat", "read", "write", "row", "apply"}
     /\ r.user \in Users /\ r.copy \in Row /\ r.input = None
     /\ r.step = "write" => r.read \in SUBSET Users
  \/ /\ r.op = "remove" /\ r.step \in {"read", "write", "count", "row", "apply"}
     /\ r.user \in Users /\ r.copy \in Row /\ r.copy.file /\ r.input = None
     /\ r.step = "write" => r.read \in SUBSET Users
  \/ /\ r.op = "edit" /\ r.step \in {"row", "apply", "undo", "reapply"}
     /\ r.copy \in Row /\ r.input \in Row
  \/ /\ r.op = "delete" /\ r.step \in {"row", "apply"}
     /\ r.copy = None /\ r.input = None
  \/ /\ r.op = "assign" /\ r.step \in {"row", "apply", "undo", "reapply"}
     /\ r.copy = None /\ r.input = None

(* Whoever may still write the name of the file into the row knows that    *)
(* there is one.                                                           *)
Needs(r) ==
  \/ r.copy # None /\ r.copy.file
  \/ r.input # None /\ r.input.file
  \/ r.op = "upsert" /\ r.step = "row"

FileInv ==
  /\ GuardHasItsFile
  /\ \A a \in Admins : Fits(req[a]) /\ (Needs(req[a]) => file # None)

(* How far a request has come that found was and that no other disturbed.  *)
UpsertAt(r, was, now) ==
  /\ was[1] # None
  /\ r.step \in {"stat", "read", "write", "row"} => r.copy = was[1]
  /\ r.step \in {"stat", "read", "write"} => now = was
  /\ r.step = "write" => r.read = IF was[2] = None THEN {} ELSE was[2]
  /\ r.step = "row" => now = <<was[1], Outcome(r, was)[2], was[3]>>

RemoveAt(r, was, now) ==
  /\ was[1] # None /\ was[2] # None
  /\ r.step \in {"read", "write", "count"} => r.copy = was[1]
  /\ r.step \in {"read", "write"} => now = was
  /\ r.step = "write" => r.read = was[2]
  /\ r.step \in {"count", "row"} => now = <<was[1], was[2] \ {r.user}, was[3]>>
  /\ r.step = "row" => r.copy = Outcome(r, was)[1]

EditAt(r, was, now) ==
  /\ was[1] # None /\ r.copy = was[1]
  /\ r.step \in {"row", "reapply"} => now = was

DeleteAt(r, was, now) == r.step = "row" => now = was

AssignAt(r, was, now) ==
  /\ r.had = was[3]
  /\ was[3] => was[1] # None
  /\ r.step \in {"row", "reapply"} => now = was

Progress(r, was, now) ==
  /\ r.op = "upsert" => UpsertAt(r, was, now)
  /\ r.op = "remove" => RemoveAt(r, was, now)
  /\ r.op = "edit" => EditAt(r, was, now)
  /\ r.op = "delete" => DeleteAt(r, was, now)
  /\ r.op = "assign" => AssignAt(r, was, now)
  /\ r.step \in {"apply", "undo"} => now = Outcome(r, was)

ProgressInv ==
  \A a \in Admins :
    ~disturbed[a] /\ req[a] # Idle => Progress(req[a], before[a], stored)

AccessInv == TypeOK /\ FileInv /\ ProgressInv

(* One request acts.                                                       *)
Acts(a) ==
  \/ Credentials(a) \/ Lists(a)
  \/ \E op \in {"upsert", "remove", "delete"} : Apply(a, op)
  \/ \E op \in {"edit", "assign"} : ApplyOrUndo(a, op) \/ Reapply(a, op)

LEMMA WhoActs == Next <=> (\E a \in Admins : Acts(a)) \/ Crash
BY DEF Next, Acts

LEMMA Values ==
  /\ None \notin Row /\ None \notin SUBSET Users
  /\ Idle \in Request /\ Idle.op = "idle" /\ Idle.step = None
  /\ Idle.copy = None /\ Idle.input = None
  /\ \A s \in Steps : s # None
<1>1. None \notin Row /\ None \notin SUBSET Users
  BY NoneAssumption, Zenon
<1>2. \A s \in Steps : s # None
  BY AccessAssumption DEF Steps
<1>3. Idle \in Request
  BY DEF Idle, Request, Contents
<1> QED
  BY <1>1, <1>2, <1>3 DEF Idle

(* A request that goes on to another step.                                 *)
LEMMA NextStep ==
  ASSUME NEW r \in Request, NEW s \in Steps
  PROVE  LET q == [r EXCEPT !.step = s]
         IN /\ q \in Request /\ q.step = s /\ q.op = r.op /\ q.user = r.user
            /\ q.copy = r.copy /\ q.read = r.read /\ q.input = r.input
            /\ q.used = r.used /\ q.had = r.had
BY DEF Request, Steps

LEMMA NextStepReads ==
  ASSUME NEW r \in Request, NEW f \in SUBSET Users
  PROVE  LET q == [r EXCEPT !.step = "write", !.read = f]
         IN /\ q \in Request /\ q.step = "write" /\ q.op = r.op /\ q.user = r.user
            /\ q.copy = r.copy /\ q.read = f /\ q.input = r.input
            /\ q.used = r.used /\ q.had = r.had
BY DEF Request, Contents

LEMMA NextStepCounts ==
  ASSUME NEW r \in Request, r.copy \in Row, NEW none \in BOOLEAN
  PROVE  LET q == [r EXCEPT !.step = "row", !.copy.enabled = @ /\ ~none]
         IN /\ q \in Request /\ q.step = "row" /\ q.op = r.op /\ q.user = r.user
            /\ q.copy \in Row /\ q.copy.file = r.copy.file
            /\ q.copy = [r.copy EXCEPT !.enabled = @ /\ ~none]
            /\ q.read = r.read /\ q.input = r.input
            /\ q.used = r.used /\ q.had = r.had
<1> DEFINE c == [r.copy EXCEPT !.enabled = @ /\ ~none]
           q == [r EXCEPT !.step = "row", !.copy.enabled = @ /\ ~none]
<1>1. c \in Row /\ c.file = r.copy.file
  BY DEF Row
<1>2. q = [r EXCEPT !.step = "row", !.copy = c]
  BY DEF Request
<1> HIDE DEF c, q
<1>3. q \in Request /\ q.copy = c
  BY <1>1, <1>2 DEF Request
<1> QED
  BY <1>1, <1>2, <1>3 DEF c, q, Request

(* What a request answers or does to its record leaves the others alone.   *)
Frame(a) ==
  \A b \in Admins \ {a} :
    /\ req'[b] = req[b]
    /\ before'[b] = before[b]
    /\ disturbed'[b] \/ (disturbed'[b] = disturbed[b] /\ stored' = stored)

LEMMA GoFrame ==
  ASSUME TypeOK, NEW a \in Admins, NEW r, Go(a, r)
  PROVE  req'[a] = r /\ \A b \in Admins \ {a} : req'[b] = req[b]
BY DEF TypeOK, Go

LEMMA ChangesFrame ==
  ASSUME TypeOK, NEW a \in Admins, NEW r, Go(a, r), Changes(a), UNCHANGED before
  PROVE  Frame(a)
<1>1. ASSUME NEW b \in Admins \ {a}
      PROVE  disturbed'[b] \/ (disturbed'[b] = disturbed[b] /\ stored' = stored)
  <2>1. disturbed'[b] = (disturbed[b] \/ stored' # stored)
    BY DEF Changes, stored
  <2>2. disturbed[b] \in BOOLEAN
    BY DEF TypeOK
  <2> QED BY <2>1, <2>2
<1> QED BY <1>1, GoFrame DEF Frame

LEMMA QuietFrame ==
  ASSUME TypeOK, NEW a \in Admins, NEW r, Go(a, r), UNCHANGED <<stored, before>>,
         \A b \in Admins \ {a} : disturbed'[b] = disturbed[b]
  PROVE  Frame(a)
BY GoFrame DEF Frame

LEMMA FrameHolds ==
  ASSUME TypeOK, NEW a \in Admins, Acts(a)
  PROVE  Frame(a)
<1>1. ASSUME NEW op, NEW r, Begin(a, op, r)
      PROVE  Frame(a)
  BY <1>1, GoFrame DEF Begin, Frame, TypeOK
<1>2. ASSUME NEW op, Apply(a, op) \/ ApplyOrUndo(a, op) \/ Reapply(a, op)
      PROVE  Frame(a)
  BY <1>2, QuietFrame DEF Apply, ApplyOrUndo, Reapply, Answer, Step
<1>3. CASE \E u \in Users : UpsertStart(a, u) \/ RemoveStart(a, u)
  BY <1>1, <1>3 DEF UpsertStart, RemoveStart
<1>4. CASE \/ UpsertStat(a) \/ HtpasswdFails(a) \/ RemoveUnknown(a)
           \/ \E op \in {"upsert", "remove"} : HtpasswdReads(a, op)
  BY <1>4, QuietFrame DEF UpsertStat, HtpasswdFails, RemoveUnknown, HtpasswdReads, Answer,
     Step, history
<1>5. CASE UpsertWrites(a) \/ RemoveWrites(a)
  BY <1>5, ChangesFrame DEF UpsertWrites, RemoveWrites, Step
<1>6. CASE UpsertRow(a) \/ EditRow(a)
  BY <1>6, ChangesFrame DEF UpsertRow, EditRow, Step, Answer
<1>7. CASE RemoveCounts(a)
  BY <1>7, QuietFrame DEF RemoveCounts, TypeOK
<1>8. CASE RemoveRow(a)
  <2>1. CASE Changes(a)
    BY <1>8, <2>1, ChangesFrame DEF RemoveRow, Step
  <2>2. CASE UNCHANGED row /\ disturbed' = [disturbed EXCEPT ![a] = TRUE]
    BY <1>8, <2>2, QuietFrame DEF RemoveRow, Step, TypeOK, stored
  <2> QED BY <1>8, <2>1, <2>2 DEF RemoveRow
<1>9. CASE \/ \E s \in Settings, e \in BOOLEAN : EditStart(a, s, e)
           \/ DeleteStart(a)
           \/ \E used \in BOOLEAN : AssignStart(a, used)
  BY <1>1, <1>9 DEF EditStart, DeleteStart, AssignStart
<1>10. CASE EditUndo(a) \/ DeleteRow(a) \/ AssignUndo(a)
  BY <1>10, ChangesFrame DEF EditUndo, DeleteRow, AssignUndo, Step
<1>11. CASE AssignRow(a)
  BY <1>11, ChangesFrame DEF AssignRow, Step, Answer
<1> QED
  BY <1>2, <1>3, <1>4, <1>5, <1>6, <1>7, <1>8, <1>9, <1>10, <1>11 DEF Acts, Credentials, Lists

-----------------------------------------------------------------------------
(* Types. *)

LEMMA AnswerTypes ==
  ASSUME TypeOK, NEW a \in Admins, NEW how \in {"none", "ok", "error"}, Answer(a, how)
  PROVE  /\ req' \in [Admins -> Request] /\ req'[a] = Idle
         /\ answer' \in [Admins -> {"none", "ok", "error"}]
         /\ answer'[a] = how
BY Values DEF TypeOK, Answer, Go

LEMMA ChangesTypes ==
  ASSUME TypeOK, NEW a \in Admins, Changes(a)
  PROVE  disturbed' \in [Admins -> BOOLEAN] /\ disturbed'[a] = disturbed[a]
BY DEF TypeOK, Changes

LEMMA StepTypes ==
  ASSUME TypeOK, NEW a \in Admins, NEW s \in Steps, Step(a, s)
  PROVE  /\ req' \in [Admins -> Request]
         /\ req'[a] = [req[a] EXCEPT !.step = s]
BY NextStep DEF TypeOK, Step, Go

LEMMA FaultTypes ==
  ASSUME TypeOK, Fault
  PROVE  faults' \in 0..MaxFaults
BY AccessAssumption DEF TypeOK, Fault

LEMMA RenderedTypes ==
  ASSUME TypeOK
  PROVE  Rendered(row, assigned) \in Conf
BY DEF TypeOK, Rendered, Public, Conf, Row

(* What a request begins with.                                             *)
LEMMA BeginTypes ==
  ASSUME TypeOK, NEW a \in Admins, NEW op, NEW r, Begin(a, op, r),
         [r EXCEPT !.op = op] \in Request
  PROVE  TypeOK'
<1>1. requests' \in 0..MaxRequests
  BY AccessAssumption DEF Begin, TypeOK
<1>2. <<row, file, assigned>> \in (Row \cup {None}) \X Contents \X BOOLEAN
  BY DEF TypeOK
<1>3. before' \in [Admins -> (Row \cup {None}) \X Contents \X BOOLEAN]
  BY <1>2 DEF Begin, TypeOK
<1>4. req' \in [Admins -> Request] /\ disturbed' \in [Admins -> BOOLEAN]
  BY DEF Begin, Go, TypeOK
<1> QED
  BY <1>1, <1>3, <1>4 DEF Begin, TypeOK, stored

(* The requests that begin, field by field.                                *)
Begun(r, op, step) ==
  /\ r \in Request /\ r.op = op /\ r.step = step

LEMMA BeginsWell ==
  ASSUME TypeOK, NEW a \in Admins
  PROVE  /\ \A u \in Users : UpsertStart(a, u) =>
              /\ Begun(req'[a], "upsert", "stat") /\ row # None /\ TypeOK'
              /\ req'[a].user = u /\ req'[a].copy = row /\ req'[a].input = None
         /\ \A u \in Users : RemoveStart(a, u) =>
              /\ Begun(req'[a], "remove", "read") /\ row # None /\ row.file /\ TypeOK'
              /\ req'[a].user = u /\ req'[a].copy = row /\ req'[a].input = None
         /\ \A s \in Settings, e \in BOOLEAN : EditStart(a, s, e) =>
              /\ Begun(req'[a], "edit", "row") /\ row # None /\ TypeOK'
              /\ req'[a].copy = row /\ req'[a].input \in Row
              /\ req'[a].input.file = row.file
         /\ DeleteStart(a) =>
              /\ Begun(req'[a], "delete", "row") /\ TypeOK'
              /\ req'[a].copy = None /\ req'[a].input = None
         /\ \A used \in BOOLEAN : AssignStart(a, used) =>
              /\ Begun(req'[a], "assign", "row") /\ TypeOK'
              /\ req'[a].copy = None /\ req'[a].input = None
              /\ req'[a].used = used /\ req'[a].had = assigned
<1>1. ASSUME NEW op, NEW r, Begin(a, op, r), [r EXCEPT !.op = op] \in Request
      PROVE  req'[a] = [r EXCEPT !.op = op] /\ TypeOK'
  BY <1>1, BeginTypes, GoFrame DEF Begin
<1>2. ASSUME NEW u \in Users, UpsertStart(a, u)
      PROVE  /\ Begun(req'[a], "upsert", "stat") /\ row # None /\ TypeOK'
             /\ req'[a].user = u /\ req'[a].copy = row /\ req'[a].input = None
  <2> DEFINE r == [Idle EXCEPT !.step = "stat", !.user = u, !.copy = row]
             q == [r EXCEPT !.op = "upsert"]
  <2>1. /\ q \in Request /\ q.op = "upsert" /\ q.step = "stat" /\ q.user = u
        /\ q.copy = row /\ q.input = None
    BY DEF TypeOK, Idle, Request, Contents
  <2>2. Begin(a, "upsert", r) /\ row # None
    BY <1>2 DEF UpsertStart
  <2> HIDE DEF r
  <2> QED BY <1>1, <2>1, <2>2 DEF Begun
<1>3. ASSUME NEW u \in Users, RemoveStart(a, u)
      PROVE  /\ Begun(req'[a], "remove", "read") /\ row # None /\ row.file /\ TypeOK'
             /\ req'[a].user = u /\ req'[a].copy = row /\ req'[a].input = None
  <2> DEFINE r == [Idle EXCEPT !.step = "read", !.user = u, !.copy = row]
             q == [r EXCEPT !.op = "remove"]
  <2>1. /\ q \in Request /\ q.op = "remove" /\ q.step = "read" /\ q.user = u
        /\ q.copy = row /\ q.input = None
    BY DEF TypeOK, Idle, Request, Contents
  <2>2. Begin(a, "remove", r) /\ row # None /\ row.file
    BY <1>3 DEF RemoveStart
  <2> HIDE DEF r
  <2> QED BY <1>1, <2>1, <2>2 DEF Begun
<1>4. ASSUME NEW s \in Settings, NEW e \in BOOLEAN, EditStart(a, s, e)
      PROVE  /\ Begun(req'[a], "edit", "row") /\ row # None /\ TypeOK'
             /\ req'[a].copy = row /\ req'[a].input \in Row
             /\ req'[a].input.file = row.file
  <2> DEFINE i == [row EXCEPT !.settings = s, !.enabled = e]
             r == [Idle EXCEPT !.step = "row", !.copy = row, !.input = i]
             q == [r EXCEPT !.op = "edit"]
  <2>1. row \in Row /\ i \in Row /\ i.file = row.file
    BY <1>4 DEF EditStart, TypeOK, Row
  <2>2. Begin(a, "edit", r) /\ row # None
    BY <1>4 DEF EditStart
  <2> HIDE DEF i
  <2>3. /\ q \in Request /\ q.op = "edit" /\ q.step = "row"
        /\ q.copy = row /\ q.input = i
    BY <2>1 DEF Idle, Request, Contents
  <2> HIDE DEF r
  <2> QED BY <1>1, <2>1, <2>2, <2>3 DEF Begun
<1>5. ASSUME DeleteStart(a)
      PROVE  /\ Begun(req'[a], "delete", "row") /\ TypeOK'
             /\ req'[a].copy = None /\ req'[a].input = None
  <2> DEFINE r == [Idle EXCEPT !.step = "row"]
             q == [r EXCEPT !.op = "delete"]
  <2>1. /\ q \in Request /\ q.op = "delete" /\ q.step = "row"
        /\ q.copy = None /\ q.input = None
    BY DEF Idle, Request, Contents
  <2>2. Begin(a, "delete", r)
    BY <1>5 DEF DeleteStart
  <2> HIDE DEF r
  <2> QED BY <1>1, <2>1, <2>2 DEF Begun
<1>6. ASSUME NEW used \in BOOLEAN, AssignStart(a, used)
      PROVE  /\ Begun(req'[a], "assign", "row") /\ TypeOK'
             /\ req'[a].copy = None /\ req'[a].input = None
             /\ req'[a].used = used /\ req'[a].had = assigned
  <2> DEFINE r == [Idle EXCEPT !.step = "row", !.used = used, !.had = assigned]
             q == [r EXCEPT !.op = "assign"]
  <2>1. /\ q \in Request /\ q.op = "assign" /\ q.step = "row"
        /\ q.copy = None /\ q.input = None /\ q.used = used /\ q.had = assigned
    <3>1. assigned \in BOOLEAN
      BY DEF TypeOK
    <3> QED BY <3>1 DEF Idle, Request, Contents
  <2>2. Begin(a, "assign", r)
    BY <1>6 DEF AssignStart
  <2> HIDE DEF r
  <2> QED BY <1>1, <2>1, <2>2 DEF Begun
<1> QED
  BY <1>2, <1>3, <1>4, <1>5, <1>6

-----------------------------------------------------------------------------
(* The file. *)

LEMMA IdleIsFine == Fits(Idle) /\ ~Needs(Idle)
BY Values DEF Fits, Needs

(* What the steps of each kind of request know.                            *)
LEMMA Fitting ==
  ASSUME NEW r, Fits(r)
  PROVE  /\ r.op = "upsert" =>
              /\ r.step \in {"stat", "read", "write", "row", "apply"}
              /\ r.user \in Users /\ r.copy \in Row /\ r.input = None
              /\ r.step = "write" => r.read \in SUBSET Users
         /\ r.op = "remove" =>
              /\ r.step \in {"read", "write", "count", "row", "apply"}
              /\ r.user \in Users /\ r.copy \in Row /\ r.copy.file /\ r.input = None
              /\ r.step = "write" => r.read \in SUBSET Users
         /\ r.op = "edit" =>
              /\ r.step \in {"row", "apply", "undo", "reapply"}
              /\ r.copy \in Row /\ r.input \in Row
         /\ r.op \in {"delete", "assign"} => r.copy = None /\ r.input = None
         /\ r.op = "delete" => r.step \in {"row", "apply"}
         /\ r.op = "assign" => r.step \in {"row", "apply", "undo", "reapply"}
BY Values DEF Fits

LEMMA GoesOn ==
  ASSUME TypeOK, NEW a \in Admins, NEW s \in Steps, Step(a, s)
  PROVE  /\ req'[a].step = s /\ req'[a].op = req[a].op /\ req'[a].user = req[a].user
         /\ req'[a].copy = req[a].copy /\ req'[a].read = req[a].read
         /\ req'[a].input = req[a].input
         /\ req'[a].used = req[a].used /\ req'[a].had = req[a].had
<1>1. req'[a] = [req[a] EXCEPT !.step = s] /\ req[a] \in Request
  BY StepTypes DEF TypeOK
<1> QED
  BY <1>1, NextStep

LEMMA ReadsOn ==
  ASSUME TypeOK, NEW a \in Admins, NEW f \in SUBSET Users,
         Go(a, [req[a] EXCEPT !.step = "write", !.read = f])
  PROVE  /\ req'[a].step = "write" /\ req'[a].op = req[a].op /\ req'[a].user = req[a].user
         /\ req'[a].copy = req[a].copy /\ req'[a].read = f
<1> DEFINE q == [req[a] EXCEPT !.step = "write", !.read = f]
<1>1. /\ q.step = "write" /\ q.op = req[a].op /\ q.user = req[a].user
      /\ q.copy = req[a].copy /\ q.read = f
  <2>1. req[a] \in Request
    BY DEF TypeOK
  <2> QED BY <2>1, NextStepReads
<1>2. req'[a] = q
  BY GoFrame
<1> QED
  BY <1>1, <1>2

LEMMA CountsOn ==
  ASSUME TypeOK, NEW a \in Admins, req[a].copy \in Row, NEW none \in BOOLEAN,
         Go(a, [req[a] EXCEPT !.step = "row", !.copy.enabled = @ /\ ~none])
  PROVE  /\ req'[a].step = "row" /\ req'[a].op = req[a].op /\ req'[a].user = req[a].user
         /\ req'[a].input = req[a].input /\ req'[a].used = req[a].used
         /\ req'[a].copy = [req[a].copy EXCEPT !.enabled = @ /\ ~none]
<1> DEFINE q == [req[a] EXCEPT !.step = "row", !.copy.enabled = @ /\ ~none]
<1>1. /\ q.step = "row" /\ q.op = req[a].op /\ q.user = req[a].user
      /\ q.input = req[a].input /\ q.used = req[a].used
      /\ q.copy = [req[a].copy EXCEPT !.enabled = @ /\ ~none]
  <2>1. req[a] \in Request
    BY DEF TypeOK
  <2> QED BY <2>1, NextStepCounts
<1>2. req'[a] = q
  BY GoFrame
<1> HIDE DEF q
<1> QED
  BY <1>1, <1>2

(* What one action of request a owes.                                      *)
Keeps(a) ==
  /\ TypeOK' /\ GuardHasItsFile'
  /\ Fits(req'[a]) /\ (Needs(req'[a]) => file' # None)
  /\ file # None => file' # None

LEMMA BeginKeeps ==
  ASSUME TypeOK, FileInv, NEW a \in Admins,
         \/ \E u \in Users : UpsertStart(a, u) \/ RemoveStart(a, u)
         \/ \E s \in Settings, e \in BOOLEAN : EditStart(a, s, e)
         \/ DeleteStart(a)
         \/ \E used \in BOOLEAN : AssignStart(a, used)
  PROVE  Keeps(a)
<1>1. UNCHANGED <<row, file, assigned, conf>>
  BY DEF UpsertStart, RemoveStart, EditStart, DeleteStart, AssignStart, Begin, stored
<1>2. GuardHasItsFile' /\ (file # None => file' # None)
  BY <1>1 DEF FileInv, GuardHasItsFile
<1>3. row # None => row \in Row
  BY DEF TypeOK
<1>4. row # None /\ row.file => file # None
  BY DEF FileInv, GuardHasItsFile
<1>5. TypeOK' /\ Fits(req'[a]) /\ (Needs(req'[a]) => file' # None)
  <2>1. ASSUME NEW u \in Users, UpsertStart(a, u)
        PROVE  TypeOK' /\ Fits(req'[a]) /\ (Needs(req'[a]) => file' # None)
    BY <1>1, <1>3, <1>4, <2>1, BeginsWell DEF Begun, Fits, Needs
  <2>2. ASSUME NEW u \in Users, RemoveStart(a, u)
        PROVE  TypeOK' /\ Fits(req'[a]) /\ (Needs(req'[a]) => file' # None)
    BY <1>1, <1>3, <1>4, <2>2, BeginsWell DEF Begun, Fits, Needs
  <2>3. ASSUME NEW s \in Settings, NEW e \in BOOLEAN, EditStart(a, s, e)
        PROVE  TypeOK' /\ Fits(req'[a]) /\ (Needs(req'[a]) => file' # None)
    BY <1>1, <1>3, <1>4, <2>3, BeginsWell DEF Begun, Fits, Needs
  <2>4. CASE DeleteStart(a)
    BY <1>1, <2>4, BeginsWell DEF Begun, Fits, Needs
  <2>5. ASSUME NEW used \in BOOLEAN, AssignStart(a, used)
        PROVE  TypeOK' /\ Fits(req'[a]) /\ (Needs(req'[a]) => file' # None)
    BY <1>1, <2>5, BeginsWell DEF Begun, Fits, Needs
  <2> QED
    BY <2>1, <2>2, <2>3, <2>4, <2>5
<1> QED
  BY <1>2, <1>5 DEF Keeps

(* An activation leaves a host that asks for a login with its file.        *)
LEMMA RenderedKeeps ==
  ASSUME TypeOK, FileInv, UNCHANGED stored,
         conf' = conf \/ conf' = Rendered(row, assigned)
  PROVE  conf' \in Conf /\ GuardHasItsFile'
<1>1. conf' \in Conf
  BY RenderedTypes DEF TypeOK
<1>2. Rendered(row, assigned).guarded => row # None /\ row.file
  <2>1. row # None => row.enabled \in BOOLEAN /\ row.file \in BOOLEAN
    BY DEF TypeOK, Row
  <2> QED BY <2>1 DEF Rendered, Public
<1>3. (row # None /\ row.file => file # None) /\ (conf.guarded => file # None)
  BY DEF FileInv, GuardHasItsFile
<1>4. row' = row /\ file' = file
  BY DEF stored
<1> QED BY <1>1, <1>2, <1>3, <1>4 DEF GuardHasItsFile

(* A request is answered without a change.                                 *)
LEMMA AnswerKeeps ==
  ASSUME TypeOK, FileInv, NEW a \in Admins, NEW how \in {"none", "ok", "error"},
         Answer(a, how), UNCHANGED <<stored, requests, before>>,
         conf' = conf \/ conf' = Rendered(row, assigned),
         UNCHANGED faults \/ Fault, disturbed' \in [Admins -> BOOLEAN]
  PROVE  Keeps(a)
<1>1. faults' \in 0..MaxFaults
  BY FaultTypes DEF TypeOK
<1>2. conf' \in Conf /\ GuardHasItsFile'
  BY RenderedKeeps
<1>3. TypeOK'
  BY <1>1, <1>2, AnswerTypes DEF TypeOK, stored
<1>4. req'[a] = Idle /\ file' = file
  BY AnswerTypes DEF stored
<1> QED
  BY <1>2, <1>3, <1>4, IdleIsFine DEF Keeps

(* A request goes on without a change.                                     *)
LEMMA StepKeeps ==
  ASSUME TypeOK, FileInv, NEW a \in Admins, NEW q \in Request, Go(a, q),
         UNCHANGED <<stored, requests, before, answer>>,
         conf' = conf \/ conf' = Rendered(row, assigned),
         UNCHANGED faults \/ Fault, disturbed' \in [Admins -> BOOLEAN],
         Fits(q), Needs(q) => file # None
  PROVE  Keeps(a)
<1>1. faults' \in 0..MaxFaults
  BY FaultTypes DEF TypeOK
<1>2. req' \in [Admins -> Request] /\ req'[a] = q
  BY DEF TypeOK, Go
<1>3. conf' \in Conf /\ GuardHasItsFile' /\ file' = file
  BY RenderedKeeps DEF stored
<1>4. TypeOK'
  BY <1>1, <1>2, <1>3 DEF TypeOK, stored
<1> QED
  BY <1>2, <1>3, <1>4 DEF Keeps

(* A request writes the row, the file or the reference.                    *)
LEMMA WriteKeeps ==
  ASSUME TypeOK, FileInv, NEW a \in Admins, Changes(a) \/ disturbed' \in [Admins -> BOOLEAN],
         \/ \E s \in Steps : Step(a, s) /\ UNCHANGED answer
         \/ \E how \in {"ok", "error"} : Answer(a, how),
         UNCHANGED <<conf, requests, before>>, UNCHANGED faults \/ Fault,
         row' \in Row \cup {None}, file' \in Contents, assigned' \in {FALSE, row' # None},
         row' # None /\ row'.file => file' # None,
         file # None => file' # None,
         Fits(req'[a]), Needs(req'[a]) => file' # None
  PROVE  Keeps(a)
<1>1. faults' \in 0..MaxFaults
  BY FaultTypes DEF TypeOK
<1>2. disturbed' \in [Admins -> BOOLEAN]
  BY ChangesTypes
<1>3. /\ req' \in [Admins -> Request]
      /\ answer' \in [Admins -> {"none", "ok", "error"}]
  BY StepTypes, AnswerTypes DEF TypeOK
<1>4. TypeOK'
  BY <1>1, <1>2, <1>3 DEF TypeOK
<1>5. GuardHasItsFile'
  BY DEF FileInv, GuardHasItsFile
<1> QED
  BY <1>4, <1>5 DEF Keeps

LEMMA ActsKeeps ==
  ASSUME TypeOK, FileInv, NEW a \in Admins, Acts(a)
  PROVE  Keeps(a)
<1>0. /\ req[a] \in Request /\ Fits(req[a]) /\ (Needs(req[a]) => file # None)
      /\ row \in Row \cup {None} /\ file \in Contents /\ assigned \in {FALSE, row # None}
      /\ disturbed \in [Admins -> BOOLEAN]
      /\ row # None /\ row.file => file # None
  BY DEF TypeOK, FileInv, GuardHasItsFile
<1>1. ASSUME NEW op, Apply(a, op)
      PROVE  Keeps(a)
  BY <1>0, <1>1, AnswerKeeps DEF Apply, Activates, ActivationFails
<1>2. ASSUME NEW op \in {"edit", "assign"}, ApplyOrUndo(a, op)
      PROVE  Keeps(a)
  <2>1. CASE Activates /\ Answer(a, "ok")
    BY <1>0, <1>2, <2>1, AnswerKeeps DEF ApplyOrUndo, Activates
  <2>2. CASE ActivationFails /\ Step(a, "undo") /\ UNCHANGED answer
    <3> DEFINE q == [req[a] EXCEPT !.step = "undo"]
    <3>1. /\ q \in Request /\ q.step = "undo" /\ q.op = req[a].op
          /\ q.copy = req[a].copy /\ q.input = req[a].input
      BY <1>0, NextStep DEF Steps
    <3>2. req[a].op = op /\ req[a].step = "apply"
      BY <1>2 DEF ApplyOrUndo, At
    <3> HIDE DEF q
    <3>3. Fits(q) /\ (Needs(q) => file # None)
      BY <1>0, <3>1, <3>2, Values DEF Fits, Needs
    <3>4. Go(a, q)
      BY <2>2 DEF Step, q
    <3> QED
      BY <1>0, <1>2, <2>2, <3>1, <3>3, <3>4, StepKeeps DEF ApplyOrUndo, ActivationFails
  <2> QED BY <1>2, <2>1, <2>2 DEF ApplyOrUndo
<1>3. ASSUME NEW op, Reapply(a, op)
      PROVE  Keeps(a)
  BY <1>0, <1>3, AnswerKeeps DEF Reapply, Activates, ActivationFails
<1>4. CASE UpsertStat(a)
  <2>1. req[a].op = "upsert" /\ req[a].step = "stat"
    BY <1>4 DEF UpsertStat, At
  <2>2. ASSUME NEW q \in Request, Go(a, q), q.op = "upsert", q.step \in {"read", "write"},
               q.user = req[a].user, q.copy = req[a].copy, q.input = req[a].input,
               q.step = "write" => q.read = {}
        PROVE  Keeps(a)
    <3>1. Fits(q) /\ (Needs(q) => file # None)
      BY <1>0, <2>1, <2>2, Fitting, Values DEF Fits, Needs
    <3> QED
      BY <1>0, <1>4, <2>2, <3>1, StepKeeps DEF UpsertStat, history
  <2>3. CASE file = None
    <3> DEFINE q == [req[a] EXCEPT !.step = "write", !.read = {}]
    <3>1. /\ q \in Request /\ q.op = req[a].op /\ q.step = "write" /\ q.user = req[a].user
          /\ q.copy = req[a].copy /\ q.read = {} /\ q.input = req[a].input
      BY <1>0, NextStepReads
    <3>2. Go(a, q)
      BY <1>4, <2>3 DEF UpsertStat
    <3> HIDE DEF q
    <3> QED BY <2>1, <2>2, <3>1, <3>2
  <2>4. CASE file # None
    <3> DEFINE q == [req[a] EXCEPT !.step = "read"]
    <3>1. /\ q \in Request /\ q.op = req[a].op /\ q.step = "read" /\ q.user = req[a].user
          /\ q.copy = req[a].copy /\ q.input = req[a].input
      BY <1>0, NextStep DEF Steps
    <3>2. Go(a, q)
      BY <1>4, <2>4 DEF UpsertStat, Step
    <3> HIDE DEF q
    <3> QED BY <2>1, <2>2, <3>1, <3>2
  <2> QED BY <2>3, <2>4
<1>5. ASSUME NEW op \in {"upsert", "remove"}, HtpasswdReads(a, op)
      PROVE  Keeps(a)
  <2> DEFINE q == [req[a] EXCEPT !.step = "write", !.read = file]
  <2>0. file \in SUBSET Users
    BY <1>0, <1>5 DEF HtpasswdReads, Contents
  <2>1. /\ q \in Request /\ q.op = req[a].op /\ q.step = "write"
        /\ q.user = req[a].user /\ q.copy = req[a].copy /\ q.input = req[a].input
        /\ q.read = file
    BY <1>0, <2>0, NextStepReads
  <2>2. Go(a, q)
    BY <1>5 DEF HtpasswdReads
  <2> HIDE DEF q
  <2>3. req[a].op = op /\ req[a].step = "read"
    BY <1>5 DEF HtpasswdReads, At
  <2>4. Fits(q) /\ (Needs(q) => file # None)
    BY <1>0, <2>0, <2>1, <2>3, Values DEF Fits, Needs
  <2> QED
    BY <1>0, <1>5, <2>1, <2>2, <2>4, StepKeeps DEF HtpasswdReads, history
<1>6. CASE HtpasswdFails(a) \/ RemoveUnknown(a)
  BY <1>0, <1>6, AnswerKeeps DEF HtpasswdFails, RemoveUnknown
<1>7. CASE UpsertWrites(a)
  <2>1. req[a].op = "upsert" /\ req[a].step = "write"
    BY <1>7 DEF UpsertWrites, At
  <2>2. file' \in Contents /\ file' # None
    <3>1. file' \in SUBSET Users
      BY <1>0, <1>7, <2>1, Fitting DEF UpsertWrites
    <3> QED BY <3>1, Values DEF Contents
  <2>4. Fits(req'[a])
    BY <1>0, <1>7, <2>1, Fitting, GoesOn, Values DEF UpsertWrites, Fits, Steps
  <2> QED
    BY <1>0, <1>7, <2>2, <2>4, WriteKeeps DEF UpsertWrites, Steps
<1>8. CASE RemoveWrites(a)
  <2>1. req[a].op = "remove" /\ req[a].step = "write"
    BY <1>8 DEF RemoveWrites, At
  <2>2. file' \in Contents /\ file' # None
    <3>1. file' \in SUBSET Users
      BY <1>0, <1>8, <2>1, Fitting DEF RemoveWrites
    <3> QED BY <3>1, Values DEF Contents
  <2>4. Fits(req'[a])
    BY <1>0, <1>8, <2>1, Fitting, GoesOn, Values DEF RemoveWrites, Fits, Steps
  <2> QED
    BY <1>0, <1>8, <2>2, <2>4, WriteKeeps DEF RemoveWrites, Steps
<1>9. CASE UpsertRow(a)
  <2>1. req[a].op = "upsert" /\ req[a].step = "row" /\ file # None /\ file' = file
    BY <1>0, <1>9 DEF UpsertRow, At, Needs
  <2>2. row' \in Row \cup {None} /\ (row' # None <=> row # None)
    <3>1. CASE UNCHANGED row
      BY <1>0, <3>1
    <3>2. CASE WriteRow([req[a].copy EXCEPT !.enabled = TRUE, !.file = TRUE])
      <4>1. [req[a].copy EXCEPT !.enabled = TRUE, !.file = TRUE] \in Row
        <5>1. req[a].copy \in Row
          BY <1>0, <2>1, Fitting
        <5> QED BY <5>1 DEF Row
      <4> QED BY <3>2, <4>1, Values DEF WriteRow
    <3> QED BY <1>9, <3>1, <3>2 DEF UpsertRow
  <2>3. \/ Step(a, "apply") /\ UNCHANGED answer
        \/ Answer(a, "error")
    BY <1>9 DEF UpsertRow
  <2>4. Fits(req'[a])
    <3>1. CASE Answer(a, "error")
      BY <3>1, AnswerTypes, IdleIsFine
    <3>2. CASE Step(a, "apply")
      BY <1>0, <2>1, <3>2, Fitting, GoesOn, Values DEF Fits, Steps
    <3> QED BY <2>3, <3>1, <3>2
  <2> QED
    BY <1>0, <1>9, <2>1, <2>2, <2>3, <2>4, WriteKeeps DEF UpsertRow, Steps
<1>10. CASE RemoveCounts(a)
  <2>1. req[a].op = "remove" /\ req[a].step = "count" /\ req[a].copy \in Row
    BY <1>0, <1>10, Fitting DEF RemoveCounts, At
  <2>2. PICK none \in BOOLEAN :
          /\ UNCHANGED <<faults, disturbed>>
               \/ (Fault /\ disturbed' = [disturbed EXCEPT ![a] = TRUE])
          /\ Go(a, [req[a] EXCEPT !.step = "row", !.copy.enabled = @ /\ ~none])
    BY <1>10 DEF RemoveCounts
  <2> DEFINE q == [req[a] EXCEPT !.step = "row", !.copy.enabled = @ /\ ~none]
  <2>3. /\ q \in Request /\ q.step = "row" /\ q.op = req[a].op /\ q.user = req[a].user
        /\ q.copy \in Row /\ q.copy.file = req[a].copy.file /\ q.input = req[a].input
    BY <1>0, <2>1, NextStepCounts
  <2> HIDE DEF q
  <2>4. Fits(q) /\ (Needs(q) => file # None)
    BY <1>0, <2>1, <2>3, Values DEF Fits, Needs
  <2>5. Go(a, q)
    BY <2>2 DEF q
  <2>6. disturbed' \in [Admins -> BOOLEAN]
    BY <1>0, <2>2
  <2> QED
    BY <1>0, <1>10, <2>2, <2>3, <2>4, <2>5, <2>6, StepKeeps DEF RemoveCounts
<1>11. CASE RemoveRow(a)
  <2>1. /\ req[a].op = "remove" /\ req[a].step = "row" /\ req[a].copy \in Row
        /\ req[a].copy.file /\ req[a].input = None /\ file # None /\ file' = file
    BY <1>0, <1>11, Values DEF RemoveRow, At, Fits, Needs
  <2>2. row' \in Row \cup {None} /\ (row' # None <=> row # None)
    BY <1>0, <1>11, <2>1, Values DEF RemoveRow, WriteRow
  <2>3. Fits(req'[a])
    BY <1>0, <1>11, <2>1, Fitting, GoesOn, Values DEF RemoveRow, Fits, Steps
  <2>4. Changes(a) \/ disturbed' \in [Admins -> BOOLEAN]
    BY <1>0, <1>11 DEF RemoveRow
  <2> QED
    BY <1>0, <1>11, <2>1, <2>2, <2>3, <2>4, WriteKeeps DEF RemoveRow, Steps
<1>12. CASE EditRow(a)
  <2>1. /\ req[a].op = "edit" /\ req[a].step = "row" /\ req[a].input \in Row
        /\ (req[a].input.file => file # None) /\ file' = file
    BY <1>0, <1>12, Values DEF EditRow, At, Fits, Needs
  <2>2. /\ row' \in Row \cup {None} /\ (row' # None <=> row # None)
        /\ row' = row \/ row' = req[a].input
    BY <1>0, <1>12, <2>1, Values DEF EditRow, WriteRow
  <2>3. \/ Step(a, "apply") /\ UNCHANGED answer
        \/ Answer(a, "error")
    BY <1>12 DEF EditRow
  <2>4. Fits(req'[a]) /\ (Needs(req'[a]) => file' # None)
    <3>1. CASE Answer(a, "error")
      BY <3>1, AnswerTypes, IdleIsFine
    <3>2. CASE Step(a, "apply")
      BY <1>0, <2>1, <3>2, Fitting, GoesOn, Values DEF Fits, Needs, Steps
    <3> QED BY <2>3, <3>1, <3>2
  <2> QED
    BY <1>0, <1>12, <2>1, <2>2, <2>3, <2>4, WriteKeeps DEF EditRow, Steps
<1>13. CASE EditUndo(a)
  <2>1. /\ req[a].op = "edit" /\ req[a].step = "undo" /\ req[a].copy \in Row
        /\ (req[a].copy.file => file # None) /\ file' = file
    BY <1>0, <1>13, Values DEF EditUndo, At, Fits, Needs
  <2>2. /\ row' \in Row \cup {None} /\ (row' # None <=> row # None)
        /\ row' # None => row' = req[a].copy
    BY <1>0, <1>13, <2>1, Values DEF EditUndo, WriteRow
  <2>3. Fits(req'[a]) /\ (Needs(req'[a]) => file' # None)
    BY <1>0, <1>13, <2>1, Fitting, GoesOn, Values DEF EditUndo, Fits, Needs, Steps
  <2> QED
    BY <1>0, <1>13, <2>1, <2>2, <2>3, WriteKeeps DEF EditUndo, Steps
<1>14. CASE DeleteRow(a)
  <2>1. req[a].op = "delete" /\ req[a].step = "row"
    BY <1>14 DEF DeleteRow, At
  <2>2. Fits(req'[a]) /\ (Needs(req'[a]) => file' # None)
    BY <1>0, <1>14, <2>1, Fitting, GoesOn, Values DEF DeleteRow, Fits, Needs, Steps
  <2> QED
    BY <1>0, <1>14, <2>1, <2>2, WriteKeeps DEF DeleteRow, Steps
<1>15. CASE AssignRow(a)
  <2>1. req[a].op = "assign" /\ req[a].step = "row" /\ req[a].used \in BOOLEAN
    BY <1>0, <1>15 DEF AssignRow, At, Request
  <2>2. assigned' \in {FALSE, row' # None} /\ UNCHANGED <<row, file>>
    BY <1>0, <1>15, <2>1 DEF AssignRow
  <2>3. \/ Step(a, "apply") /\ UNCHANGED answer
        \/ Answer(a, "error")
    BY <1>15 DEF AssignRow
  <2>4. Fits(req'[a]) /\ (Needs(req'[a]) => file' # None)
    <3>1. CASE Answer(a, "error")
      BY <3>1, AnswerTypes, IdleIsFine
    <3>2. CASE Step(a, "apply")
      BY <1>0, <2>1, <3>2, Fitting, GoesOn, Values DEF Fits, Needs, Steps
    <3> QED BY <2>3, <3>1, <3>2
  <2> QED
    BY <1>0, <1>15, <2>2, <2>3, <2>4, WriteKeeps DEF AssignRow, Steps
<1>16. CASE AssignUndo(a)
  <2>1. req[a].op = "assign" /\ req[a].step = "undo" /\ req[a].had \in BOOLEAN
    BY <1>0, <1>16 DEF AssignUndo, At, Request
  <2>2. assigned' \in {FALSE, row' # None} /\ UNCHANGED <<row, file>>
    BY <1>0, <1>16, <2>1 DEF AssignUndo
  <2>3. Fits(req'[a]) /\ (Needs(req'[a]) => file' # None)
    BY <1>0, <1>16, <2>1, Fitting, GoesOn, Values DEF AssignUndo, Fits, Needs, Steps
  <2> QED
    BY <1>0, <1>16, <2>2, <2>3, WriteKeeps DEF AssignUndo, Steps
<1> QED
  BY <1>1, <1>2, <1>3, <1>4, <1>5, <1>6, <1>7, <1>8, <1>9, <1>10, <1>11, <1>12, <1>13, <1>14,
     <1>15, <1>16, BeginKeeps DEF Acts, Credentials, Lists
-----------------------------------------------------------------------------
(* The progress of a request. *)

WithLogin(w) == [w EXCEPT !.enabled = TRUE, !.file = TRUE]
WithoutUser(w, left) == [w EXCEPT !.enabled = @ /\ left # {}]

WithUser(f, u) == IF f = None THEN {u} ELSE f \cup {u}

LEMMA OutcomeIs ==
  ASSUME NEW r, NEW was
  PROVE  /\ r.op = "upsert" =>
              Outcome(r, was) =
                <<WithLogin(was[1]), WithUser(was[2], r.user), was[3]>>
         /\ r.op = "remove" =>
              Outcome(r, was) =
                <<WithoutUser(was[1], was[2] \ {r.user}), was[2] \ {r.user}, was[3]>>
         /\ r.op = "edit" => Outcome(r, was) = <<r.input, was[2], was[3]>>
         /\ r.op = "delete" => Outcome(r, was) = <<None, was[2], FALSE>>
         /\ r.op = "assign" => Outcome(r, was) = <<was[1], was[2], r.used>>
BY DEF Outcome, WithLogin, WithoutUser, WithUser

(* Outcome looks at nothing of a request that its steps change.            *)
LEMMA OutcomeStays ==
  ASSUME NEW r, NEW q, NEW was, q.op = r.op, q.user = r.user, q.input = r.input,
         q.used = r.used, r.op \in {"upsert", "remove", "edit", "delete", "assign"}
  PROVE  Outcome(q, was) = Outcome(r, was)
<1>1. CASE r.op = "upsert"
  BY <1>1, OutcomeIs
<1>2. CASE r.op = "remove"
  BY <1>2, OutcomeIs
<1>3. CASE r.op \in {"edit", "delete", "assign"}
  BY <1>3, OutcomeIs
<1> QED
  BY <1>1, <1>2, <1>3

(* What is known of the record of a request that was not disturbed.        *)
LEMMA Known ==
  ASSUME TypeOK, ProgressInv, NEW a \in Admins, req[a] # Idle, ~disturbed[a]
  PROVE  /\ Progress(req[a], before[a], stored)
         /\ before[a] = <<before[a][1], before[a][2], before[a][3]>>
         /\ before[a][1] \in Row \cup {None} /\ before[a][2] \in Contents
         /\ before[a][3] \in BOOLEAN
BY DEF TypeOK, ProgressInv

LEMMA BeginProgress ==
  ASSUME TypeOK, FileInv, NEW a \in Admins,
         \/ \E u \in Users : UpsertStart(a, u) \/ RemoveStart(a, u)
         \/ \E s \in Settings, e \in BOOLEAN : EditStart(a, s, e)
         \/ DeleteStart(a)
         \/ \E used \in BOOLEAN : AssignStart(a, used)
  PROVE  Progress(req'[a], before'[a], stored')
<1>1. /\ before'[a] = <<row, file, assigned>>
      /\ stored' = <<row, file, assigned>>
  BY DEF UpsertStart, RemoveStart, EditStart, DeleteStart, AssignStart, Begin, stored, TypeOK
<1>2. CASE \E u \in Users : UpsertStart(a, u)
  BY <1>1, <1>2, BeginsWell DEF Begun, Progress, UpsertAt
<1>3. CASE \E u \in Users : RemoveStart(a, u)
  <2>1. row # None /\ row.file => file # None
    BY DEF FileInv, GuardHasItsFile
  <2> QED
    BY <1>1, <1>3, <2>1, BeginsWell DEF Begun, Progress, RemoveAt
<1>4. CASE \E s \in Settings, e \in BOOLEAN : EditStart(a, s, e)
  BY <1>1, <1>4, BeginsWell DEF Begun, Progress, EditAt
<1>5. CASE DeleteStart(a)
  BY <1>1, <1>5, BeginsWell DEF Begun, Progress, DeleteAt
<1>6. CASE \E used \in BOOLEAN : AssignStart(a, used)
  <2>1. assigned => row # None
    BY DEF TypeOK
  <2> QED
    BY <1>1, <1>6, <2>1, BeginsWell DEF Begun, Progress, AssignAt
<1> QED
  BY <1>2, <1>3, <1>4, <1>5, <1>6

LEMMA UpsertProgress ==
  ASSUME TypeOK, FileInv, ProgressInv, NEW a \in Admins, ~disturbed[a], req'[a] # Idle,
         \/ UpsertStat(a) \/ UpsertWrites(a) \/ UpsertRow(a) \/ HtpasswdReads(a, "upsert")
  PROVE  Progress(req'[a], before'[a], stored')
<1> DEFINE was == before[a]
<1>1. req[a].op = "upsert" /\ req[a] # Idle
  BY Values DEF UpsertStat, UpsertWrites, UpsertRow, HtpasswdReads, At
<1>2. /\ UpsertAt(req[a], was, stored) /\ was[1] # None
      /\ was = <<was[1], was[2], was[3]>> /\ before' = before
  BY <1>1, Known DEF Progress, UpsertAt, UpsertStat, UpsertWrites, UpsertRow, HtpasswdReads,
     history
<1> HIDE DEF was
<1>3. req[a].step \in {"read", "write", "row"} =>
        Outcome(req[a], was) = <<WithLogin(was[1]), WithUser(was[2], req[a].user), was[3]>>
  BY <1>1, OutcomeIs
<1> SUFFICES req'[a].op = "upsert" /\ UpsertAt(req'[a], was, stored') /\
             (req'[a].step = "apply" => stored' = Outcome(req'[a], was)) /\
             req'[a].step # "undo"
  BY <1>2 DEF Progress, was
<1>4. CASE UpsertStat(a) \/ HtpasswdReads(a, "upsert")
  <2>1. req[a].step \in {"stat", "read"} /\ stored' = stored
    BY <1>4 DEF UpsertStat, HtpasswdReads, At
  <2>2. row = was[1] /\ file = was[2] /\ stored = was /\ req[a].copy = was[1]
    BY <1>2, <2>1 DEF UpsertAt, stored
  <2>3. /\ req'[a].op = "upsert" /\ req'[a].copy = req[a].copy
        /\ \/ req'[a].step = "read"
           \/ req'[a].step = "write" /\ req'[a].read = IF file = None THEN {} ELSE file
    <3>1. CASE UpsertStat(a) /\ file = None
      <4>1. {} \in SUBSET Users
        OBVIOUS
      <4>2. Go(a, [req[a] EXCEPT !.step = "write", !.read = {}])
        BY <3>1 DEF UpsertStat
      <4> QED BY <1>1, <3>1, <4>1, <4>2, ReadsOn
    <3>2. CASE UpsertStat(a) /\ file # None
      BY <1>1, <3>2, GoesOn DEF UpsertStat, Steps
    <3>3. CASE HtpasswdReads(a, "upsert")
      <4>1. file \in SUBSET Users /\ file # None
        BY <3>3 DEF HtpasswdReads, TypeOK, Contents
      <4>2. Go(a, [req[a] EXCEPT !.step = "write", !.read = file])
        BY <3>3 DEF HtpasswdReads
      <4> QED BY <1>1, <4>1, <4>2, ReadsOn
    <3> QED BY <1>4, <3>1, <3>2, <3>3
  <2> QED
    BY <1>2, <2>1, <2>2, <2>3 DEF UpsertAt
<1>5. CASE UpsertWrites(a)
  <2>1. /\ req[a].step = "write" /\ row' = row /\ assigned' = assigned
        /\ file' = req[a].read \cup {req[a].user}
    BY <1>5 DEF UpsertWrites, At
  <2>2. /\ req'[a].op = "upsert" /\ req'[a].step = "row" /\ req'[a].copy = req[a].copy
        /\ req'[a].user = req[a].user
    BY <1>1, <1>5, GoesOn DEF UpsertWrites, Steps
  <2>3. /\ row = was[1] /\ assigned = was[3] /\ req[a].copy = was[1]
        /\ req[a].read = IF was[2] = None THEN {} ELSE was[2]
    BY <1>2, <2>1 DEF UpsertAt, stored
  <2>4. file' = WithUser(was[2], req[a].user)
    BY <2>1, <2>3 DEF WithUser
  <2>5. Outcome(req'[a], was)[2] = WithUser(was[2], req[a].user)
    <3>1. Outcome(req'[a], was) = Outcome(req[a], was)
      BY <1>1, <1>5, GoesOn, OutcomeStays DEF UpsertWrites, Steps
    <3> QED BY <1>3, <2>1, <3>1
  <2> QED
    BY <1>2, <2>1, <2>2, <2>3, <2>4, <2>5 DEF UpsertAt, stored
<1>6. CASE UpsertRow(a)
  <2>1. req[a].step = "row" /\ file' = file /\ assigned' = assigned
    BY <1>6 DEF UpsertRow, At
  <2>2. /\ row = was[1] /\ assigned = was[3] /\ req[a].copy = was[1]
        /\ file = WithUser(was[2], req[a].user)
    BY <1>2, <1>3, <2>1 DEF UpsertAt, stored
  <2>3. Step(a, "apply") /\ WriteRow(WithLogin(req[a].copy))
    <3>1. ~Answer(a, "error")
      BY AnswerTypes
    <3> QED BY <1>6, <3>1 DEF UpsertRow, WithLogin
  <2>4. row' = WithLogin(was[1])
    BY <1>2, <2>2, <2>3 DEF WriteRow
  <2>5. /\ req'[a].op = "upsert" /\ req'[a].step = "apply" /\ req'[a].user = req[a].user
    BY <1>1, <2>3, GoesOn DEF Steps
  <2>6. Outcome(req'[a], was) =
          <<WithLogin(was[1]), WithUser(was[2], req[a].user), was[3]>>
    <3>1. Outcome(req'[a], was) = Outcome(req[a], was)
      BY <1>1, <2>3, GoesOn, OutcomeStays DEF Steps
    <3> QED BY <1>3, <2>1, <3>1
  <2> QED
    BY <1>2, <2>1, <2>2, <2>4, <2>5, <2>6 DEF UpsertAt, stored
<1> QED
  BY <1>4, <1>5, <1>6

LEMMA RemoveProgress ==
  ASSUME TypeOK, FileInv, ProgressInv, NEW a \in Admins, ~disturbed[a], ~disturbed'[a],
         req'[a] # Idle,
         \/ RemoveWrites(a) \/ RemoveCounts(a) \/ RemoveRow(a) \/ HtpasswdReads(a, "remove")
  PROVE  Progress(req'[a], before'[a], stored')
<1> DEFINE was == before[a]
           left == was[2] \ {req[a].user}
<1>1. req[a].op = "remove" /\ req[a] # Idle
  BY Values DEF RemoveWrites, RemoveCounts, RemoveRow, HtpasswdReads, At
<1>2. /\ RemoveAt(req[a], was, stored) /\ was[1] # None /\ was[2] # None
      /\ was = <<was[1], was[2], was[3]>> /\ before' = before
      /\ was[1] \in Row \cup {None} /\ was[2] \in Contents
  BY <1>1, Known DEF Progress, RemoveAt, RemoveWrites, RemoveCounts, RemoveRow, HtpasswdReads,
     history
<1>3. Outcome(req[a], was) = <<WithoutUser(was[1], left), left, was[3]>>
  BY <1>1, OutcomeIs
<1> HIDE DEF was
<1>4. req[a] \in Request
  BY DEF TypeOK
<1> SUFFICES req'[a].op = "remove" /\ RemoveAt(req'[a], was, stored') /\
             (req'[a].step = "apply" => stored' = Outcome(req'[a], was)) /\
             req'[a].step # "undo"
  BY <1>2 DEF Progress, was
<1>5. CASE HtpasswdReads(a, "remove")
  <2>1. req[a].step = "read" /\ stored' = stored
    BY <1>5 DEF HtpasswdReads, At
  <2>2. file = was[2] /\ stored = was /\ req[a].copy = was[1]
    BY <1>2, <2>1 DEF RemoveAt, stored
  <2>3. Go(a, [req[a] EXCEPT !.step = "write", !.read = file])
    BY <1>5 DEF HtpasswdReads
  <2>4. file \in SUBSET Users
    BY <1>5 DEF HtpasswdReads, TypeOK, Contents
  <2>5. /\ req'[a].op = req[a].op /\ req'[a].copy = req[a].copy
        /\ req'[a].step = "write" /\ req'[a].read = file
    BY <2>3, <2>4, ReadsOn
  <2> QED
    BY <1>1, <1>2, <2>1, <2>2, <2>5 DEF RemoveAt
<1>6. CASE RemoveWrites(a)
  <2>1. /\ req[a].step = "write" /\ row' = row /\ assigned' = assigned
        /\ file' = req[a].read \ {req[a].user}
    BY <1>6 DEF RemoveWrites, At
  <2>2. /\ req'[a].op = "remove" /\ req'[a].step = "count" /\ req'[a].copy = req[a].copy
        /\ req'[a].user = req[a].user
    BY <1>1, <1>6, GoesOn DEF RemoveWrites, Steps
  <2>3. /\ row = was[1] /\ assigned = was[3] /\ req[a].copy = was[1]
        /\ req[a].read = was[2]
    BY <1>2, <2>1 DEF RemoveAt, stored
  <2> QED
    BY <1>2, <2>1, <2>2, <2>3 DEF RemoveAt, stored
<1>7. CASE RemoveCounts(a)
  <2>1. req[a].step = "count" /\ stored' = stored
    BY <1>7 DEF RemoveCounts, At
  <2>2. /\ req[a].copy = was[1] /\ stored = <<was[1], left, was[3]>> /\ file = left
    BY <1>2, <2>1 DEF RemoveAt, stored
  <2>3. Go(a, [req[a] EXCEPT !.step = "row", !.copy.enabled = @ /\ ~(file = {})])
    <3>1. ~(disturbed' = [disturbed EXCEPT ![a] = TRUE])
      BY DEF TypeOK
    <3> QED BY <1>7, <3>1 DEF RemoveCounts
  <2>5. req[a].copy \in Row
    BY <1>2, <2>2
  <2>6. /\ req'[a].step = "row" /\ req'[a].op = req[a].op /\ req'[a].user = req[a].user
        /\ req'[a].input = req[a].input /\ req'[a].used = req[a].used
        /\ req'[a].copy = [req[a].copy EXCEPT !.enabled = @ /\ ~(file = {})]
    <3> DEFINE none == file = {}
    <3>1. none \in BOOLEAN
      OBVIOUS
    <3>2. Go(a, [req[a] EXCEPT !.step = "row", !.copy.enabled = @ /\ ~none])
      BY <2>3
    <3> HIDE DEF none
    <3>3. /\ req'[a].step = "row" /\ req'[a].op = req[a].op /\ req'[a].user = req[a].user
          /\ req'[a].input = req[a].input /\ req'[a].used = req[a].used
          /\ req'[a].copy = [req[a].copy EXCEPT !.enabled = @ /\ ~none]
      BY <2>5, <3>1, <3>2, CountsOn
    <3> QED BY <3>3 DEF none
  <2>7. req'[a].copy = WithoutUser(was[1], left)
    BY <2>2, <2>6 DEF WithoutUser
  <2>8. Outcome(req'[a], was) = Outcome(req[a], was)
    BY <1>1, <2>6, OutcomeStays
  <2> QED
    BY <1>1, <1>2, <1>3, <2>1, <2>2, <2>6, <2>7, <2>8 DEF RemoveAt
<1>8. CASE RemoveRow(a)
  <2>1. req[a].step = "row" /\ file' = file /\ assigned' = assigned /\ Step(a, "apply")
    BY <1>8 DEF RemoveRow, At
  <2>2. WriteRow(req[a].copy)
    <3>1. ~(disturbed' = [disturbed EXCEPT ![a] = TRUE])
      BY DEF TypeOK
    <3> QED BY <1>8, <3>1 DEF RemoveRow
  <2>3. /\ stored = <<was[1], left, was[3]>> /\ req[a].copy = WithoutUser(was[1], left)
    BY <1>2, <1>3, <2>1 DEF RemoveAt
  <2>4. row' = WithoutUser(was[1], left) /\ file' = left /\ assigned' = was[3]
    BY <1>2, <2>1, <2>2, <2>3 DEF WriteRow, stored
  <2>5. /\ req'[a].op = "remove" /\ req'[a].step = "apply"
        /\ Outcome(req'[a], was) = Outcome(req[a], was)
    BY <1>1, <2>1, GoesOn, OutcomeStays DEF Steps
  <2> QED
    BY <1>2, <1>3, <2>4, <2>5 DEF RemoveAt, stored
<1> QED
  BY <1>5, <1>6, <1>7, <1>8

LEMMA ListProgress ==
  ASSUME TypeOK, FileInv, ProgressInv, NEW a \in Admins, ~disturbed[a], req'[a] # Idle,
         EditRow(a) \/ EditUndo(a) \/ DeleteRow(a) \/ AssignRow(a) \/ AssignUndo(a)
  PROVE  Progress(req'[a], before'[a], stored')
<1> DEFINE was == before[a]
<1>1. req[a] # Idle /\ before' = before /\ req[a] \in Request
  BY Values DEF EditRow, EditUndo, DeleteRow, AssignRow, AssignUndo, At, TypeOK
<1>2. /\ Progress(req[a], was, stored)
      /\ was = <<was[1], was[2], was[3]>> /\ was[1] \in Row \cup {None}
      /\ was[3] \in BOOLEAN
  BY <1>1, Known
<1>3. before'[a] = was
  BY <1>1
<1> HIDE DEF was
<1>4. ~Answer(a, "error")
  BY AnswerTypes
<1>5. CASE EditRow(a)
  <2>1. req[a].op = "edit" /\ req[a].step = "row" /\ file' = file /\ assigned' = assigned
    BY <1>5 DEF EditRow, At
  <2>2. was[1] # None /\ req[a].copy = was[1] /\ stored = was
    BY <1>2, <2>1 DEF Progress, EditAt
  <2>3. Step(a, "apply") /\ row' = req[a].input
    BY <1>4, <1>5 DEF EditRow, WriteRow
  <2>4. /\ req'[a].op = "edit" /\ req'[a].step = "apply" /\ req'[a].copy = req[a].copy
        /\ req'[a].input = req[a].input
    BY <2>1, <2>3, GoesOn DEF Steps
  <2>5. Outcome(req'[a], was) = <<req[a].input, was[2], was[3]>>
    <3>1. Outcome(req'[a], was) = Outcome(req[a], was)
      BY <2>1, <2>3, GoesOn, OutcomeStays DEF Steps
    <3> QED BY <2>1, <3>1, OutcomeIs
  <2> QED
    BY <1>2, <1>3, <2>1, <2>2, <2>3, <2>4, <2>5 DEF Progress, EditAt, stored
<1>6. CASE EditUndo(a)
  <2>1. /\ req[a].op = "edit" /\ req[a].step = "undo" /\ file' = file /\ assigned' = assigned
        /\ Step(a, "reapply") /\ WriteRow(req[a].copy)
    BY <1>6 DEF EditUndo, At
  <2>2. was[1] # None /\ req[a].copy = was[1] /\ stored = Outcome(req[a], was)
    BY <1>2, <2>1 DEF Progress, EditAt
  <2>3. stored = <<req[a].input, was[2], was[3]>> /\ req[a].input \in Row
    BY <2>1, <2>2, OutcomeIs, Fitting DEF FileInv
  <2>4. row' = was[1] /\ file' = was[2] /\ assigned' = was[3]
    BY <2>1, <2>2, <2>3, Values DEF stored, WriteRow
  <2>5. req'[a].op = "edit" /\ req'[a].step = "reapply" /\ req'[a].copy = req[a].copy
    BY <2>1, GoesOn DEF Steps
  <2> QED
    BY <1>2, <1>3, <2>2, <2>4, <2>5 DEF Progress, EditAt, stored
<1>7. CASE DeleteRow(a)
  <2>1. /\ req[a].op = "delete" /\ req[a].step = "row" /\ file' = file /\ assigned' = FALSE
        /\ Step(a, "apply") /\ row' = None
    BY <1>7 DEF DeleteRow, At
  <2>2. stored = was /\ file = was[2]
    BY <1>2, <2>1 DEF Progress, DeleteAt, stored
  <2>3. /\ req'[a].op = "delete" /\ req'[a].step = "apply"
        /\ Outcome(req'[a], was) = Outcome(req[a], was)
    BY <2>1, GoesOn, OutcomeStays DEF Steps
  <2>4. Outcome(req[a], was) = <<None, was[2], FALSE>>
    BY <2>1, OutcomeIs
  <2> QED
    BY <1>2, <1>3, <2>1, <2>2, <2>3, <2>4 DEF Progress, DeleteAt, stored
<1>8. CASE AssignRow(a)
  <2>1. req[a].op = "assign" /\ req[a].step = "row" /\ row' = row /\ file' = file
    BY <1>8 DEF AssignRow, At
  <2>2. req[a].had = was[3] /\ (was[3] => was[1] # None) /\ stored = was
    BY <1>2, <2>1 DEF Progress, AssignAt
  <2>3. Step(a, "apply") /\ assigned' = req[a].used
    BY <1>4, <1>8 DEF AssignRow
  <2>4. /\ req'[a].op = "assign" /\ req'[a].step = "apply" /\ req'[a].had = req[a].had
        /\ Outcome(req'[a], was) = Outcome(req[a], was)
    BY <2>1, <2>3, GoesOn, OutcomeStays DEF Steps
  <2>5. Outcome(req[a], was) = <<was[1], was[2], req[a].used>>
    BY <2>1, OutcomeIs
  <2> QED
    BY <1>2, <1>3, <2>1, <2>2, <2>3, <2>4, <2>5 DEF Progress, AssignAt, stored
<1>9. CASE AssignUndo(a)
  <2>1. /\ req[a].op = "assign" /\ req[a].step = "undo" /\ row' = row /\ file' = file
        /\ Step(a, "reapply")
        /\ assigned' = IF req[a].had /\ row = None THEN assigned ELSE req[a].had
    BY <1>9 DEF AssignUndo, At
  <2>2. /\ req[a].had = was[3] /\ (was[3] => was[1] # None)
        /\ stored = Outcome(req[a], was)
    BY <1>2, <2>1 DEF Progress, AssignAt
  <2>3. row = was[1] /\ file = was[2]
    <3>1. stored = <<was[1], was[2], req[a].used>>
      BY <2>1, <2>2, OutcomeIs
    <3> QED BY <3>1 DEF stored
  <2>4. assigned' = was[3]
    BY <2>1, <2>2, <2>3
  <2>5. req'[a].op = "assign" /\ req'[a].step = "reapply" /\ req'[a].had = req[a].had
    BY <2>1, GoesOn DEF Steps
  <2> QED
    BY <1>2, <1>3, <2>1, <2>2, <2>3, <2>4, <2>5 DEF Progress, AssignAt, stored
<1> QED
  BY <1>5, <1>6, <1>7, <1>8, <1>9

LEMMA ActsProgress ==
  ASSUME AccessInv, NEW a \in Admins, Acts(a), req'[a] # Idle, ~disturbed'[a]
  PROVE  Progress(req'[a], before'[a], stored')
<1> USE DEF AccessInv
<1>1. CASE \/ \E u \in Users : UpsertStart(a, u) \/ RemoveStart(a, u)
           \/ \E s \in Settings, e \in BOOLEAN : EditStart(a, s, e)
           \/ DeleteStart(a)
           \/ \E used \in BOOLEAN : AssignStart(a, used)
  BY <1>1, BeginProgress
<1>2. CASE \/ UpsertStat(a) \/ UpsertWrites(a) \/ UpsertRow(a) \/ HtpasswdReads(a, "upsert")
  <2>1. disturbed'[a] = disturbed[a]
    BY <1>2, ChangesTypes DEF UpsertStat, UpsertWrites, UpsertRow, HtpasswdReads, history
  <2> QED BY <1>2, <2>1, UpsertProgress
<1>3. CASE RemoveWrites(a) \/ RemoveCounts(a) \/ RemoveRow(a) \/ HtpasswdReads(a, "remove")
  <2>1. disturbed'[a] = disturbed[a]
    <3>1. ~(disturbed' = [disturbed EXCEPT ![a] = TRUE])
      BY DEF TypeOK
    <3> QED
      BY <1>3, <3>1, ChangesTypes DEF RemoveWrites, RemoveCounts, RemoveRow, HtpasswdReads,
         history
  <2> QED BY <1>3, <2>1, RemoveProgress
<1>4. CASE EditRow(a) \/ EditUndo(a) \/ DeleteRow(a) \/ AssignRow(a) \/ AssignUndo(a)
  <2>1. disturbed'[a] = disturbed[a]
    BY <1>4, ChangesTypes DEF EditRow, EditUndo, DeleteRow, AssignRow, AssignUndo
  <2> QED BY <1>4, <2>1, ListProgress
<1>5. ASSUME NEW op \in {"edit", "assign"}, ApplyOrUndo(a, op)
      PROVE  Progress(req'[a], before'[a], stored')
  <2>1. /\ req[a].op = op /\ req[a].step = "apply" /\ Step(a, "undo")
        /\ UNCHANGED <<stored, before, disturbed>>
    BY <1>5, AnswerTypes DEF ApplyOrUndo, At
  <2>2. Progress(req[a], before[a], stored)
    BY <2>1, Known, Values
  <2>3. /\ req'[a].op = op /\ req'[a].step = "undo" /\ req'[a].copy = req[a].copy
        /\ req'[a].had = req[a].had
        /\ Outcome(req'[a], before[a]) = Outcome(req[a], before[a])
    BY <2>1, GoesOn, OutcomeStays DEF Steps
  <2> QED
    BY <2>1, <2>2, <2>3 DEF Progress, EditAt, AssignAt
<1>6. ASSUME Answer(a, "ok") \/ Answer(a, "error")
      PROVE  FALSE
  BY <1>6, AnswerTypes
<1> HIDE DEF AccessInv
<1> QED
  BY <1>1, <1>2, <1>3, <1>4, <1>5, <1>6 DEF Acts, Credentials, Lists, Apply, Reapply,
     HtpasswdFails, RemoveUnknown

LEMMA InitInv == Init => AccessInv
<1> SUFFICES ASSUME Init PROVE AccessInv
  OBVIOUS
<1>1. row \in Row /\ ~row.file /\ file = None /\ assigned = TRUE /\ row # None
  BY Values DEF Init
<1>2. conf \in Conf /\ ~conf.guarded
  <2>1. row.enabled \in BOOLEAN /\ row.settings \in Settings
    BY <1>1 DEF Row
  <2> QED BY <1>1, <2>1 DEF Init, Rendered, Conf
<1>3. TypeOK
  <2>1. \A a \in Admins : <<row, None, TRUE>> \in (Row \cup {None}) \X Contents \X BOOLEAN
    BY <1>1 DEF Contents
  <2> QED
    <3>1. req \in [Admins -> Request] /\ answer \in [Admins -> {"none", "ok", "error"}]
      BY Values DEF Init
    <3>2. disturbed \in [Admins -> BOOLEAN] /\ requests \in 0..MaxRequests /\ faults \in 0..MaxFaults
      BY AccessAssumption DEF Init
    <3>3. before \in [Admins -> (Row \cup {None}) \X Contents \X BOOLEAN]
      BY <2>1 DEF Init
    <3> QED
      BY <1>1, <1>2, <3>1, <3>2, <3>3 DEF TypeOK, Contents
<1>4. FileInv
  BY <1>1, <1>2, IdleIsFine DEF FileInv, GuardHasItsFile, Init
<1>5. ProgressInv
  BY DEF ProgressInv, Init
<1> QED
  BY <1>3, <1>4, <1>5 DEF AccessInv

LEMMA NextInv == AccessInv /\ [Next]_vars => AccessInv'
<1> SUFFICES ASSUME AccessInv, [Next]_vars PROVE AccessInv'
  OBVIOUS
<1>1. CASE UNCHANGED vars
  BY <1>1 DEF vars, AccessInv, TypeOK, FileInv, GuardHasItsFile, ProgressInv, stored
<1>2. ASSUME NEW a \in Admins, Acts(a)
      PROVE  AccessInv'
  <2>1. Keeps(a) /\ Frame(a)
    BY <1>2, ActsKeeps, FrameHolds DEF AccessInv
  <2>2. FileInv'
    <3>1. ASSUME NEW b \in Admins
          PROVE  Fits(req'[b]) /\ (Needs(req'[b]) => file' # None)
      BY <2>1, <3>1 DEF Keeps, Frame, AccessInv, FileInv
    <3> QED
      BY <2>1, <3>1 DEF Keeps, FileInv
  <2>3. ProgressInv'
    <3>1. ASSUME NEW b \in Admins, ~disturbed'[b], req'[b] # Idle
          PROVE  Progress(req'[b], before'[b], stored')
      <4>1. CASE b = a
        BY <1>2, <3>1, <4>1, ActsProgress
      <4>2. CASE b # a
        BY <2>1, <3>1, <4>2 DEF Frame, AccessInv, ProgressInv
      <4> QED BY <4>1, <4>2
    <3> QED
      BY <3>1 DEF ProgressInv
  <2> QED
    BY <2>1, <2>2, <2>3 DEF Keeps, AccessInv
<1>3. CASE Crash
  <2>1. TypeOK'
    <3>1. faults' \in 0..MaxFaults /\ conf' \in Conf
      BY <1>3, FaultTypes, RenderedTypes DEF Crash, AccessInv
    <3> QED
      BY <1>3, <3>1, Values DEF Crash, AccessInv, TypeOK, stored
  <2>2. FileInv'
    <3>1. Rendered(row, assigned).guarded => row # None /\ row.file
      <4>1. row # None => row.enabled \in BOOLEAN /\ row.file \in BOOLEAN
        BY DEF AccessInv, TypeOK, Row
      <4> QED BY <4>1 DEF Rendered, Public
    <3> QED
      BY <1>3, <3>1, IdleIsFine DEF Crash, AccessInv, FileInv, GuardHasItsFile, stored
  <2>3. ProgressInv'
    BY <1>3 DEF Crash, ProgressInv
  <2> QED
    BY <2>1, <2>2, <2>3 DEF AccessInv
<1> QED
  BY <1>1, <1>2, <1>3, WhoActs

(* The strengthening of the two properties is inductive.                   *)
THEOREM Invariance == Spec => []AccessInv
BY InitInv, NextInv, PTL DEF Spec

(* Every variable keeps its type; a host never refers to a missing list.   *)
THEOREM TypeCorrect == Spec => []TypeOK
BY Invariance, PTL DEF AccessInv

(* Whatever overlaps, fails or crashes, a host that asks for a login has   *)
(* the file to look it up.                                                 *)
THEOREM GuardHold == Spec => []GuardHasItsFile
BY Invariance, PTL DEF AccessInv, FileInv

(* The action of UndisturbedIsAtomic.                                      *)
Atomic(a) ==
  req[a] # Idle /\ req'[a] = Idle /\ ~disturbed[a] =>
    /\ answer'[a] = "ok" =>
         /\ <<row, file, assigned>>' = Outcome(req[a], before[a])
         /\ conf' = Rendered(row', assigned')
    /\ answer'[a] = "error" /\ req[a].op \in {"edit", "assign"} =>
         <<row, file, assigned>>' = before[a]

LEMMA ActsAtomic ==
  ASSUME AccessInv, NEW a \in Admins, Acts(a)
  PROVE  Atomic(a)
<1> SUFFICES ASSUME req[a] # Idle, req'[a] = Idle, ~disturbed[a]
             PROVE  /\ answer'[a] = "ok" =>
                         /\ <<row, file, assigned>>' = Outcome(req[a], before[a])
                         /\ conf' = Rendered(row', assigned')
                    /\ answer'[a] = "error" /\ req[a].op \in {"edit", "assign"} =>
                         <<row, file, assigned>>' = before[a]
  BY DEF Atomic
<1>1. /\ Progress(req[a], before[a], stored) /\ TypeOK /\ FileInv
      /\ before[a] = <<before[a][1], before[a][2], before[a][3]>>
  BY Known DEF AccessInv
<1>2. ASSUME NEW s \in Steps, Step(a, s)
      PROVE  FALSE
  BY <1>1, <1>2, GoesOn, Values
<1>3. /\ stored = <<row, file, assigned>> /\ stored' = <<row, file, assigned>>'
      /\ UNCHANGED stored => row' = row /\ assigned' = assigned
      /\ Idle.op = "idle" /\ Idle.step = None
  BY Values DEF stored
<1>4. ASSUME NEW op \in {"upsert", "remove", "delete"}, Apply(a, op)
      PROVE  Atomic(a)
  <2>1. req[a].op = op /\ req[a].step = "apply" /\ UNCHANGED stored
    BY <1>4 DEF Apply, At
  <2>2. stored = Outcome(req[a], before[a])
    BY <1>1, <2>1 DEF Progress
  <2>3. \/ conf' = Rendered(row, assigned) /\ answer'[a] = "ok"
        \/ answer'[a] = "error"
    BY <1>1, <1>4, AnswerTypes DEF Apply, Activates
  <2> QED
    BY <1>3, <2>1, <2>2, <2>3 DEF Atomic
<1>5. ASSUME NEW op \in {"edit", "assign"}, ApplyOrUndo(a, op)
      PROVE  Atomic(a)
  <2>1. /\ req[a].op = op /\ req[a].step = "apply" /\ UNCHANGED stored
        /\ conf' = Rendered(row, assigned) /\ answer'[a] = "ok"
    BY <1>1, <1>2, <1>5, AnswerTypes DEF ApplyOrUndo, Activates, At, Steps
  <2>2. stored = Outcome(req[a], before[a])
    BY <1>1, <2>1 DEF Progress
  <2> QED
    BY <1>3, <2>1, <2>2 DEF Atomic
<1>6. ASSUME NEW op \in {"edit", "assign"}, Reapply(a, op)
      PROVE  Atomic(a)
  <2>1. req[a].op = op /\ req[a].step = "reapply" /\ UNCHANGED stored /\ answer'[a] = "error"
    BY <1>1, <1>6, AnswerTypes DEF Reapply, At
  <2>2. stored = before[a]
    BY <1>1, <2>1 DEF Progress, EditAt, AssignAt
  <2> QED
    BY <1>3, <2>1, <2>2 DEF Atomic
<1>7. ASSUME HtpasswdFails(a) \/ RemoveUnknown(a) \/ UpsertRow(a)
      PROVE  Atomic(a)
  <2>1. answer'[a] = "error"
    BY <1>1, <1>2, <1>7, AnswerTypes DEF HtpasswdFails, RemoveUnknown, UpsertRow, Steps
  <2>2. req[a].op \notin {"edit", "assign"}
    BY <1>1, <1>7, Fitting DEF FileInv, HtpasswdFails, RemoveUnknown, UpsertRow, At
  <2> QED
    BY <2>1, <2>2 DEF Atomic
<1>8. ASSUME EditRow(a) \/ AssignRow(a)
      PROVE  Atomic(a)
  <2>1. answer'[a] = "error"
    BY <1>1, <1>2, <1>8, AnswerTypes DEF EditRow, AssignRow, Steps
  <2>2. UNCHANGED stored
    BY <1>1, <1>2, <1>8 DEF EditRow, AssignRow, WriteRow, Steps, stored
  <2>3. stored = before[a]
    BY <1>1, <1>8 DEF EditRow, AssignRow, At, Progress, EditAt, AssignAt
  <2> QED
    BY <1>3, <2>1, <2>2, <2>3 DEF Atomic
<1>9. ASSUME \/ UpsertStat(a) \/ RemoveCounts(a)
             \/ \E op \in {"upsert", "remove"} : HtpasswdReads(a, op)
      PROVE  FALSE
  <2>1. CASE UpsertStat(a) /\ file = None
    <3>1. {} \in SUBSET Users /\ Go(a, [req[a] EXCEPT !.step = "write", !.read = {}])
      BY <2>1 DEF UpsertStat
    <3> QED BY <1>1, <1>3, <3>1, ReadsOn, Values DEF Steps
  <2>2. CASE UpsertStat(a) /\ file # None
    BY <1>2, <2>2 DEF UpsertStat, Steps
  <2>3. CASE \E op \in {"upsert", "remove"} : HtpasswdReads(a, op)
    <3>1. /\ file \in SUBSET Users
          /\ Go(a, [req[a] EXCEPT !.step = "write", !.read = file])
      BY <1>1, <2>3 DEF HtpasswdReads, TypeOK, Contents
    <3> QED BY <1>1, <1>3, <3>1, ReadsOn, Values DEF Steps
  <2>4. CASE RemoveCounts(a)
    <3>1. req[a].copy \in Row
      BY <1>1, <2>4, Fitting DEF FileInv, RemoveCounts, At
    <3>2. PICK none \in BOOLEAN :
            Go(a, [req[a] EXCEPT !.step = "row", !.copy.enabled = @ /\ ~none])
      BY <2>4 DEF RemoveCounts
    <3> QED BY <1>1, <1>3, <3>1, <3>2, CountsOn, Values DEF Steps
  <2> QED BY <1>9, <2>1, <2>2, <2>3, <2>4
<1>10. ASSUME \/ UpsertWrites(a) \/ RemoveWrites(a) \/ RemoveRow(a) \/ EditUndo(a)
              \/ DeleteRow(a) \/ AssignUndo(a)
       PROVE  FALSE
  BY <1>2, <1>10 DEF UpsertWrites, RemoveWrites, RemoveRow, EditUndo, DeleteRow, AssignUndo,
     Steps
<1>11. ASSUME \/ \E u \in Users : UpsertStart(a, u) \/ RemoveStart(a, u)
              \/ \E s \in Settings, e \in BOOLEAN : EditStart(a, s, e)
              \/ DeleteStart(a)
              \/ \E used \in BOOLEAN : AssignStart(a, used)
       PROVE  FALSE
  BY <1>11 DEF UpsertStart, RemoveStart, EditStart, DeleteStart, AssignStart, Begin
<1>12. Atomic(a)
  <2>1. CASE Credentials(a)
    BY <1>7, <1>9, <1>10, <1>11, <2>1 DEF Credentials
  <2>2. CASE Lists(a)
    BY <1>8, <1>10, <1>11, <2>2 DEF Lists
  <2>3. CASE \E op \in {"upsert", "remove", "delete"} : Apply(a, op)
    BY <1>4, <2>3
  <2>4. CASE \E op \in {"edit", "assign"} : ApplyOrUndo(a, op) \/ Reapply(a, op)
    BY <1>5, <1>6, <2>4
  <2> QED
    BY <2>1, <2>2, <2>3, <2>4 DEF Acts
<1> QED
  BY <1>12 DEF Atomic

(* What TLC checks of UndisturbedIsAtomic, for any number of requests.     *)
THEOREM AtomicHold == Spec => UndisturbedIsAtomic
<1>1. AccessInv /\ [Next]_vars => [\A a \in Admins : Atomic(a)]_vars
  <2> SUFFICES ASSUME AccessInv, Next, NEW a \in Admins
               PROVE  Atomic(a)
    OBVIOUS
  <2>1. CASE Crash
    BY <2>1 DEF Crash, Atomic
  <2>2. ASSUME NEW b \in Admins, Acts(b)
        PROVE  Atomic(a)
    <3>1. CASE a = b
      BY <2>2, <3>1, ActsAtomic
    <3>2. CASE a # b
      BY <2>2, <3>2, FrameHolds DEF Frame, Atomic, AccessInv
    <3> QED BY <3>1, <3>2
  <2> QED
    BY <2>1, <2>2, WhoActs
<1> QED
  BY <1>1, Invariance, PTL DEF Spec, UndisturbedIsAtomic, Atomic
=============================================================================
