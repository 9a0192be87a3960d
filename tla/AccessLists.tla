---------------------------- MODULE AccessLists ----------------------------
(***************************************************************************)
(* The credentials of an access list: the handlers of access lists and     *)
(* their users in internal/api/server.go.                                  *)
(*                                                                         *)
(* A login is in two places: a line of the list's htpasswd file, which the *)
(* tool htpasswd reads, changes and writes back, and two columns of the    *)
(* row, which say whether the rendered host asks for a login and name the  *)
(* file.  A handler reads the row, changes the file, writes the whole row  *)
(* back and applies, without a lock: other handlers work in between, and   *)
(* the process may stop at any point.                                      *)
(*                                                                         *)
(* Abstractions.  One list and one host that may use it; a list has one    *)
(* life, as ids are not used again.  The name, the rules and the other     *)
(* columns are one value, `settings`.  Passwords and validation of names   *)
(* are left out.  Apply is one step (ControlPlane has its parts); a host   *)
(* asks for a login only as its last Apply rendered it, while nginx reads  *)
(* the file anew at every request.  After a crash both processes start     *)
(* again and render what is stored.                                        *)
(***************************************************************************)
EXTENDS Naturals, FiniteSets

CONSTANTS
  Admins,     \* requests that may be at work at once
  Users,      \* names of logins
  Settings,   \* values of the other columns
  None,
  MaxRequests,\* bound: requests
  MaxFaults   \* bound: failed statements, commands and activations, crashes

ASSUME AccessAssumption ==
  /\ MaxRequests \in Nat /\ MaxFaults \in Nat
  /\ None \notin {"stat", "read", "write", "count", "row", "apply", "undo", "reapply"}

VARIABLES
  row,        \* the row of access_lists, or None
  file,       \* the htpasswd file, or None
  assigned,   \* the host refers to the list
  conf,       \* what nginx.conf has for the host
  req,        \* req[a]: the request at work
  requests,   \* requests made
  faults,     \* failures left
  before,     \* history: row, file and assignment when a began
  disturbed,  \* history: since then others changed one, or a dropped an error
  answer      \* history: how the last request of a was answered

vars == <<row, file, assigned, conf, req, requests, faults, before, disturbed, answer>>

Row == [enabled : BOOLEAN, file : BOOLEAN, settings : Settings]
Contents == (SUBSET Users) \cup {None}

ASSUME NoneAssumption == \A value \in Row \cup (SUBSET Users) : value # None

Conf == [guarded : BOOLEAN, settings : Settings \cup {None}]

Idle == [op |-> "idle", step |-> None, user |-> None, copy |-> None, read |-> None,
         input |-> None, used |-> FALSE, had |-> FALSE]

Public == [guarded |-> FALSE, settings |-> None]

----------------------------------------------------------------------------
\* What the handlers share

Rendered(r, used) ==
  IF used /\ r # None
  THEN [guarded |-> r.enabled /\ r.file, settings |-> r.settings]
  ELSE Public

At(a, op, step) == req[a].op = op /\ req[a].step = step

Fault == faults > 0 /\ faults' = faults - 1

Go(a, r) == req' = [req EXCEPT ![a] = r]

Step(a, step) == Go(a, [req[a] EXCEPT !.step = step])

Answer(a, how) ==
  /\ Go(a, Idle)
  /\ answer' = [answer EXCEPT ![a] = how]

\* A change of row, file or assignment disturbs the other requests.
Changes(a) ==
  disturbed' = [b \in Admins |->
    disturbed[b] \/ (b # a /\ <<row, file, assigned>>' # <<row, file, assigned>>)]

stored == <<row, file, assigned>>
history == <<before, disturbed, answer>>

Begin(a, op, r) ==
  /\ req[a] = Idle
  /\ requests < MaxRequests
  /\ requests' = requests + 1
  /\ Go(a, [r EXCEPT !.op = op])
  /\ before' = [before EXCEPT ![a] = <<row, file, assigned>>]
  /\ disturbed' = [disturbed EXCEPT ![a] = FALSE]
  /\ UNCHANGED <<stored, conf, faults, answer>>

\* UpdateAccessList writes every column, or finds no row.
WriteRow(value) == row' = IF row = None THEN None ELSE value

Activates == conf' = Rendered(row, assigned) /\ UNCHANGED faults

\* Apply fails before nginx.conf is replaced, or after.
ActivationFails == Fault /\ conf' \in {conf, Rendered(row, assigned)}

\* The last step of the handlers that undo nothing.
Apply(a, op) ==
  /\ At(a, op, "apply")
  /\ \/ Activates /\ Answer(a, "ok")
     \/ ActivationFails /\ Answer(a, "error")
  /\ UNCHANGED <<stored, requests, before, disturbed>>

----------------------------------------------------------------------------
\* PUT /access-lists/{id}/users/{username}

UpsertStart(a, u) ==
  /\ row # None
  /\ Begin(a, "upsert", [Idle EXCEPT !.step = "stat", !.user = u, !.copy = row])

\* With -c htpasswd starts from an empty file.
UpsertStat(a) ==
  /\ At(a, "upsert", "stat")
  /\ IF file = None
     THEN Go(a, [req[a] EXCEPT !.step = "write", !.read = {}])
     ELSE Step(a, "read")
  /\ UNCHANGED <<stored, conf, requests, faults, history>>

HtpasswdReads(a, op) ==
  /\ At(a, op, "read")
  /\ file # None
  /\ Go(a, [req[a] EXCEPT !.step = "write", !.read = file])
  /\ UNCHANGED <<stored, conf, requests, faults, history>>

HtpasswdFails(a) ==
  /\ req[a].step = "write"
  /\ Fault
  /\ Answer(a, "error")
  /\ UNCHANGED <<stored, conf, requests, before, disturbed>>

\* Mutant: htpasswd is always called with -c.
UpsertTruncates(a) ==
  /\ At(a, "upsert", "write")
  /\ file' = {req[a].user}
  /\ Step(a, "row")
  /\ UNCHANGED <<row, assigned, conf, requests, faults, before, answer>>
  /\ Changes(a)

UpsertWrites(a) ==
  /\ At(a, "upsert", "write")
  /\ file' = req[a].read \cup {req[a].user}
  /\ Step(a, "row")
  /\ UNCHANGED <<row, assigned, conf, requests, faults, before, answer>>
  /\ Changes(a)

UpsertRow(a) ==
  /\ At(a, "upsert", "row")
  /\ \/ /\ WriteRow([req[a].copy EXCEPT !.enabled = TRUE, !.file = TRUE])
        /\ IF row # None
           THEN Step(a, "apply") /\ UNCHANGED answer
           ELSE Answer(a, "error")
        /\ UNCHANGED faults
     \/ Fault /\ Answer(a, "error") /\ UNCHANGED row
  /\ UNCHANGED <<file, assigned, conf, requests, before>>
  /\ Changes(a)

----------------------------------------------------------------------------
\* DELETE /access-lists/{id}/users/{username}

RemoveStart(a, u) ==
  /\ row # None
  /\ row.file
  /\ Begin(a, "remove", [Idle EXCEPT !.step = "read", !.user = u, !.copy = row])

RemoveUnknown(a) ==
  /\ At(a, "remove", "write")
  /\ req[a].user \notin req[a].read
  /\ Answer(a, "error")
  /\ UNCHANGED <<stored, conf, requests, faults, before, disturbed>>

\* Mutant: a file without users is removed.
RemoveEmptiedFile(a) ==
  /\ At(a, "remove", "write")
  /\ req[a].user \in req[a].read
  /\ file' = IF req[a].read = {req[a].user} THEN None ELSE req[a].read \ {req[a].user}
  /\ Step(a, "count")
  /\ UNCHANGED <<row, assigned, conf, requests, faults, before, answer>>
  /\ Changes(a)

RemoveWrites(a) ==
  /\ At(a, "remove", "write")
  /\ req[a].user \in req[a].read
  /\ file' = req[a].read \ {req[a].user}
  /\ Step(a, "count")
  /\ UNCHANGED <<row, assigned, conf, requests, faults, before, answer>>
  /\ Changes(a)

\* A file that cannot be read back counts as empty.
RemoveCounts(a) ==
  /\ At(a, "remove", "count")
  /\ \E none \in {file = {}, TRUE} :
       /\ IF none = (file = {})
          THEN UNCHANGED <<faults, disturbed>>
          ELSE Fault /\ disturbed' = [disturbed EXCEPT ![a] = TRUE]
       /\ Go(a, [req[a] EXCEPT !.step = "row", !.copy.enabled = @ /\ ~none])
  /\ UNCHANGED <<stored, conf, requests, before, answer>>

\* The error of UpdateAccessList is dropped.
RemoveRow(a) ==
  /\ At(a, "remove", "row")
  /\ Step(a, "apply")
  /\ UNCHANGED <<file, assigned, conf, requests, before, answer>>
  /\ \/ WriteRow(req[a].copy) /\ UNCHANGED faults /\ Changes(a)
     \/ Fault /\ UNCHANGED row /\ disturbed' = [disturbed EXCEPT ![a] = TRUE]

----------------------------------------------------------------------------
\* PUT and DELETE /access-lists/{id}

\* The client's columns with the stored name of the file.
EditStart(a, settings, enabled) ==
  /\ row # None
  /\ Begin(a, "edit",
       [Idle EXCEPT !.step = "row", !.copy = row,
        !.input = [row EXCEPT !.settings = settings, !.enabled = enabled]])

EditRow(a) ==
  /\ At(a, "edit", "row")
  /\ \/ /\ WriteRow(req[a].input)
        /\ IF row # None
           THEN Step(a, "apply") /\ UNCHANGED answer
           ELSE Answer(a, "error")
        /\ UNCHANGED faults
     \/ Fault /\ Answer(a, "error") /\ UNCHANGED row
  /\ UNCHANGED <<file, assigned, conf, requests, before>>
  /\ Changes(a)

DeleteStart(a) ==
  /\ ~assigned
  /\ Begin(a, "delete", [Idle EXCEPT !.step = "row"])

\* The reference of a host is set to NULL; the file stays.
DeleteRow(a) ==
  /\ At(a, "delete", "row")
  /\ row' = None
  /\ assigned' = FALSE
  /\ Step(a, "apply")
  /\ UNCHANGED <<file, conf, requests, faults, before, answer>>
  /\ Changes(a)

----------------------------------------------------------------------------
\* The host is given the list, or is made public.

AssignStart(a, used) ==
  Begin(a, "assign", [Idle EXCEPT !.step = "row", !.used = used, !.had = assigned])

AssignRow(a) ==
  /\ At(a, "assign", "row")
  /\ IF req[a].used /\ row = None
     THEN Answer(a, "error") /\ UNCHANGED assigned
     ELSE assigned' = req[a].used /\ Step(a, "apply") /\ UNCHANGED answer
  /\ UNCHANGED <<row, file, conf, requests, faults, before>>
  /\ Changes(a)

----------------------------------------------------------------------------
\* An edited list or host that cannot be activated is put back and applied
\* again; the errors of this are dropped.

ApplyOrUndo(a, op) ==
  /\ At(a, op, "apply")
  /\ \/ Activates /\ Answer(a, "ok")
     \/ ActivationFails /\ Step(a, "undo") /\ UNCHANGED answer
  /\ UNCHANGED <<stored, requests, before, disturbed>>

EditUndo(a) ==
  /\ At(a, "edit", "undo")
  /\ WriteRow(req[a].copy)
  /\ Step(a, "reapply")
  /\ UNCHANGED <<file, assigned, conf, requests, faults, before, answer>>
  /\ Changes(a)

AssignUndo(a) ==
  /\ At(a, "assign", "undo")
  /\ assigned' = IF req[a].had /\ row = None THEN assigned ELSE req[a].had
  /\ Step(a, "reapply")
  /\ UNCHANGED <<row, file, conf, requests, faults, before, answer>>
  /\ Changes(a)

Reapply(a, op) ==
  /\ At(a, op, "reapply")
  /\ Activates \/ ActivationFails
  /\ Answer(a, "error")
  /\ UNCHANGED <<stored, requests, before, disturbed>>

Crash ==
  /\ \E a \in Admins : req[a] # Idle
  /\ Fault
  /\ req' = [a \in Admins |-> Idle]
  /\ answer' = [a \in Admins |-> IF req[a] = Idle THEN answer[a] ELSE "none"]
  /\ conf' = Rendered(row, assigned)
  /\ UNCHANGED <<stored, requests, before, disturbed>>

----------------------------------------------------------------------------
\* A list that was just created: no file, whatever the client says of logins.

Init ==
  /\ row \in {r \in Row : ~r.file}
  /\ file = None
  /\ assigned = TRUE
  /\ conf = Rendered(row, TRUE)
  /\ req = [a \in Admins |-> Idle]
  /\ requests = 0
  /\ faults = MaxFaults
  /\ before = [a \in Admins |-> <<row, None, TRUE>>]
  /\ disturbed = [a \in Admins |-> FALSE]
  /\ answer = [a \in Admins |-> "none"]

Credentials(a) ==
  \/ \E u \in Users : UpsertStart(a, u) \/ RemoveStart(a, u)
  \/ UpsertStat(a) \/ UpsertWrites(a) \/ UpsertRow(a)
  \/ \E op \in {"upsert", "remove"} : HtpasswdReads(a, op)
  \/ HtpasswdFails(a)
  \/ RemoveUnknown(a) \/ RemoveWrites(a) \/ RemoveCounts(a) \/ RemoveRow(a)

Lists(a) ==
  \/ \E s \in Settings, e \in BOOLEAN : EditStart(a, s, e)
  \/ EditRow(a) \/ EditUndo(a)
  \/ DeleteStart(a) \/ DeleteRow(a)
  \/ \E used \in BOOLEAN : AssignStart(a, used)
  \/ AssignRow(a) \/ AssignUndo(a)

Next ==
  \/ \E a \in Admins : Credentials(a) \/ Lists(a)
  \/ \E a \in Admins, op \in {"upsert", "remove", "delete"} : Apply(a, op)
  \/ \E a \in Admins, op \in {"edit", "assign"} : ApplyOrUndo(a, op) \/ Reapply(a, op)
  \/ Crash

Spec == Init /\ [][Next]_vars

----------------------------------------------------------------------------
\* Properties

Request ==
  [op : {"idle", "upsert", "remove", "edit", "delete", "assign"},
   step : {None, "stat", "read", "write", "count", "row", "apply", "undo", "reapply"},
   user : Users \cup {None}, copy : Row \cup {None}, read : Contents,
   input : Row \cup {None}, used : BOOLEAN, had : BOOLEAN]

TypeOK ==
  /\ row \in Row \cup {None} /\ file \in Contents
  /\ assigned \in {FALSE, row # None}
  /\ conf \in Conf
  /\ req \in [Admins -> Request]
  /\ requests \in 0..MaxRequests /\ faults \in 0..MaxFaults
  /\ before \in [Admins -> (Row \cup {None}) \X Contents \X BOOLEAN]
  /\ disturbed \in [Admins -> BOOLEAN]
  /\ answer \in [Admins -> {"none", "ok", "error"}]

\* A host that asks for a login, and a row that names a file, have that
\* file, at every moment of every handler, whatever overlaps with it, and
\* after a crash: nginx answers a missing file with an error for everyone.
GuardHasItsFile == conf.guarded \/ (row # None /\ row.file) => file # None

\* What a request does when nothing else happens meanwhile.
Outcome(r, was) ==
  LET wasRow == was[1]
      wasFile == was[2]
      left == wasFile \ {r.user}
  IN CASE r.op = "upsert" ->
            <<[wasRow EXCEPT !.enabled = TRUE, !.file = TRUE],
              IF wasFile = None THEN {r.user} ELSE wasFile \cup {r.user}, was[3]>>
       [] r.op = "remove" ->
            <<[wasRow EXCEPT !.enabled = @ /\ left # {}], left, was[3]>>
       [] r.op = "edit" -> <<r.input, wasFile, was[3]>>
       [] r.op = "delete" -> <<None, wasFile, FALSE>>
       [] r.op = "assign" -> <<wasRow, wasFile, r.used>>

\* A request that no other disturbs is one step: acknowledged, it has done to
\* row and file exactly what it says and nginx.conf shows it - nobody else
\* loses or gains a login, the list is opened only with its last user -
\* and an edit that is refused has changed neither row nor assignment.
UndisturbedIsAtomic ==
  [][\A a \in Admins :
       req[a] # Idle /\ req'[a] = Idle /\ ~disturbed[a] =>
         /\ answer'[a] = "ok" =>
              /\ <<row, file, assigned>>' = Outcome(req[a], before[a])
              /\ conf' = Rendered(row', assigned')
         /\ answer'[a] = "error" /\ req[a].op \in {"edit", "assign"} =>
              <<row, file, assigned>>' = before[a]]_vars
=============================================================================
