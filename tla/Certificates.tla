---------------------------- MODULE Certificates -----------------------------
(* The certificate manager (internal/certificates/manager.go) and the        *)
(* handlers that call it: issue, import, renewal on demand and by schedule,  *)
(* listing with repair, deletion, the edit of name and description, which    *)
(* takes no lock, and the routes (hosts, redirects, 404 hosts, streams) that *)
(* take a certificate into use and give it up again, beside all that.        *)
(*                                                                           *)
(* A certificate/key pair is a number, in the order the pairs were obtained; *)
(* NoPair is the empty path.  A version directory that is complete and       *)
(* synced is a member of disk[id]; an unfinished one is never named by       *)
(* anything.  Apply is one step here (ControlPlane has its phases), and      *)
(* nginx.conf is the pair it names for each certificate that a route uses;   *)
(* the routes that use a certificate are one.                                *)
EXTENDS Integers, FiniteSets

CONSTANTS
  Handlers,      \* goroutines that serve certificate requests
  Renewer,       \* the goroutine of Manager.Start
  MaxIds,        \* bound: certificates ever created
  InUse,         \* ids that the route uses at first
  MaxPairs,      \* bound: pairs ever obtained
  MaxAged,       \* bound: pairs that reach two thirds of their life
  MaxRequests,   \* bound: requests that arrive
  Faulty,        \* steps that may fail: "lego", "stage", "write", "apply"
  MaxFaults,     \* bound: how often they do
  MaxCrashes,    \* bound: restarts
  None

Ids == 1..MaxIds
NoPair == 0
Pairs == 1..MaxPairs
Procs == Handlers \cup {Renewer}

ASSUME CertificateConstants ==
  /\ MaxIds \in Nat /\ MaxPairs \in Nat \ {0}
  /\ {MaxAged, MaxRequests, MaxFaults, MaxCrashes} \subseteq Nat
  /\ 1 \in Ids /\ InUse \subseteq {1}
  /\ Renewer \notin Handlers
  /\ None \notin Handlers \cup {Renewer}

(* meta is the pair whose names and expiry the row shows; managed is a       *)
(* provider "letsencrypt" or "imported-letsencrypt"; failed is last_error.   *)
Row == [path : Pairs \cup {NoPair}, meta : Pairs \cup {NoPair},
        auto : BOOLEAN, managed : BOOLEAN, failed : BOOLEAN]

ASSUME RowsAreNotNone == None \notin Row

VARIABLES
  rows,       \* the table certificates
  created,    \* ids given out so far (AUTOINCREMENT: never again)
  disk,       \* complete version directories of each id
  obtained,   \* pairs obtained so far
  aged,       \* pairs past two thirds of their life
  assigned,   \* ids that the route refers to
  conf,       \* the pair nginx.conf names for each id
  holder,     \* who holds Manager.mu, or None
  pc, job,    \* where each goroutine is and what it does
  seen,       \* the rows it has read, or is about to write
  got,        \* the pair it has obtained and not stored
  todo,       \* ids a loop over several certificates has still to visit
  restored,   \* history: an edit has put a replaced pair back
  unapplied,  \* history: the last Apply has failed
  raced,      \* history: an id in use has lost its row since the last Apply
  requests, faults, crashes

history == <<restored, unapplied, raced, requests, faults, crashes>>
local == <<pc, job, seen, got, todo>>
vars == <<rows, created, disk, obtained, aged, assigned, conf, holder, local, history>>

Own(p) == seen[p][job[p].id]
NoRows == [id \in Ids |-> None]
Idle == [kind |-> "none", id |-> 1]

At(p, label) == pc[p] = label
Goto(p, label) == pc' = [pc EXCEPT ![p] = label]
Kind(p) == job[p].kind

-----------------------------------------------------------------------------
(* shouldRenew: an unreadable certificate, or one past two thirds. *)
Due(id, k) == k \notin disk[id] \/ k \in aged

Fails(step) == step \in Faulty /\ faults < MaxFaults /\ faults' = faults + 1

\* Mutant: no mutex.
Unlocked == TRUE

(* The mutex is free. *)
Free == holder = None

(* Return: the deferred Unlock, and for the renewal loop the next id. *)
Release(p) ==
  /\ holder' = None
  /\ pc' = [pc EXCEPT ![p] = "idle"]
  /\ job' = [job EXCEPT ![p] = Idle]
  /\ seen' = [seen EXCEPT ![p] = NoRows]
  /\ got' = [got EXCEPT ![p] = NoPair]

(* Requests that need the lock wait for it; a metadata edit does not.  A     *)
(* deletion is refused while a route uses the certificate, which is looked   *)
(* up before the lock is taken.                                              *)
Begin(p, kind, id, label) ==
  /\ At(p, "idle") /\ requests < MaxRequests
  /\ requests' = requests + 1
  /\ job' = [job EXCEPT ![p] = [kind |-> kind, id |-> id]]
  /\ Goto(p, label)

Request(p) ==
  /\ \/ \E kind \in {"issue", "import", "list"} : Begin(p, kind, 1, "lock")
     \/ \E id \in Ids : Begin(p, "renew", id, "lock")
     \/ \E id \in Ids \ assigned : Begin(p, "delete", id, "lock")
  /\ UNCHANGED <<rows, created, disk, obtained, aged, assigned, conf, holder, seen, got, todo,
                 restored, unapplied, raced, faults, crashes>>

FirstStep == [issue |-> "create", import |-> "create", list |-> "list",
              renew |-> "read", renewDue |-> "read", delete |-> "read"]

Lock(p) ==
  /\ At(p, "lock") /\ Free
  /\ holder' = p
  /\ Goto(p, FirstStep[Kind(p)])
  /\ UNCHANGED <<rows, created, disk, obtained, aged, assigned, conf, job, seen, got,
                 todo, history>>

-----------------------------------------------------------------------------
(* Issue and Import insert a row without paths first.  An import brings its  *)
(* pair along; its provider decides whether it will be renewed.              *)
NewRow(auto, managed) ==
  [path |-> NoPair, meta |-> NoPair,
   auto |-> auto, managed |-> managed, failed |-> FALSE]

Create(p) ==
  /\ At(p, "create") /\ created < MaxIds
  /\ created' = created + 1
  /\ \E auto \in BOOLEAN, managed \in BOOLEAN :
       LET r == NewRow(auto, managed) IN
       /\ Kind(p) = "issue" => managed
       /\ rows' = [rows EXCEPT ![created + 1] = r]
       /\ seen' = [seen EXCEPT ![p] = [NoRows EXCEPT ![created + 1] = r]]
  /\ job' = [job EXCEPT ![p].id = created + 1]
  /\ \/ /\ Kind(p) = "issue"
        /\ Goto(p, "order")
        /\ UNCHANGED <<obtained, got>>
     \/ /\ Kind(p) = "import" /\ obtained < MaxPairs
        /\ obtained' = obtained + 1
        /\ got' = [got EXCEPT ![p] = obtained + 1]
        /\ Goto(p, "stage")
  /\ UNCHANGED <<disk, aged, assigned, conf, holder,
                 todo, history>>

(* The bound on ids stands for an error before the INSERT. *)
CannotCreate(p) ==
  /\ At(p, "create")
  /\ created = MaxIds \/ (Kind(p) = "import" /\ obtained = MaxPairs)
  /\ Release(p)
  /\ UNCHANGED <<rows, created, disk, obtained, aged, assigned, conf,
                 todo, history>>

(* Renew and Delete read the row under the lock.  Renew returns if the row   *)
(* is gone or not managed, or, unless forced, if it is not due any more;     *)
(* Delete if it is gone.                                                     *)
Proceeds(p, r) ==
  /\ r # None
  /\ Kind(p) \in {"renew", "renewDue"} => r.managed
  /\ Kind(p) = "renewDue" => Due(job[p].id, r.path)

Read(p) ==
  /\ At(p, "read")
  /\ LET r == rows[job[p].id] IN
       IF Proceeds(p, r)
       THEN /\ seen' = [seen EXCEPT ![p][job[p].id] = r]
            /\ Goto(p, IF Kind(p) = "delete" THEN "drop" ELSE "order")
            /\ UNCHANGED <<holder, job, got>>
       ELSE Release(p)
  /\ UNCHANGED <<rows, created, disk, obtained, aged, assigned, conf,
                 todo, history>>

(* runLego: the order takes minutes, and the lock is held. *)
Order(p) ==
  /\ At(p, "order") /\ obtained < MaxPairs
  /\ obtained' = obtained + 1
  /\ got' = [got EXCEPT ![p] = obtained + 1]
  /\ Goto(p, "stage")
  /\ UNCHANGED <<rows, created, disk, aged, assigned, conf, holder, job, seen,
                 todo, history>>

(* stageCertificatePair puts the pair into a directory of its own and syncs  *)
(* it before any row names it; refreshMetadata reads names and expiry.       *)
Stage(p) ==
  /\ At(p, "stage")
  /\ disk' = [disk EXCEPT ![job[p].id] = @ \cup {got[p]}]
  /\ seen' = [seen EXCEPT ![p][job[p].id] =
                [@ EXCEPT !.path = got[p], !.meta = got[p], !.failed = FALSE]]
  /\ Goto(p, "write")
  /\ UNCHANGED <<rows, created, obtained, aged, assigned, conf, holder, job, got,
                 todo, history>>

\* Mutant: a missing row is inserted.
Upserted(id, r) == [rows EXCEPT ![id] = r]

(* UpdateCertificate writes every column of the copy; no row, no effect. *)
Stored(id, r) == IF rows[id] = None THEN rows ELSE [rows EXCEPT ![id] = r]

Write(p) ==
  /\ At(p, "write")
  /\ rows' = Stored(job[p].id, Own(p))
  /\ IF rows[job[p].id] = None
     THEN Release(p)
     ELSE Goto(p, "apply") /\ UNCHANGED <<holder, job, seen, got>>
  /\ UNCHANGED <<created, disk, obtained, aged, assigned, conf,
                 todo, history>>

(* Errors of lego and of staging are stored in the row of an issued or       *)
(* renewed certificate.  A row is deleted again, but not its files, when an  *)
(* import fails or preparePaths before an order.                             *)
OrderFails(p) ==
  /\ At(p, "order") /\ Fails("lego")
  /\ \/ Goto(p, "fail")
     \/ Kind(p) = "issue" /\ Goto(p, "undo")
  /\ UNCHANGED <<rows, created, disk, obtained, aged, assigned, conf, holder, job, seen, got, todo,
                 restored, unapplied, raced, requests, crashes>>

StageFails(p) ==
  /\ At(p, "stage") /\ Fails("stage")
  /\ Goto(p, IF Kind(p) = "import" THEN "undo" ELSE "fail")
  /\ UNCHANGED <<rows, created, disk, obtained, aged, assigned, conf, holder, job, seen, got, todo,
                 restored, unapplied, raced, requests, crashes>>

StoreError(p) ==
  /\ At(p, "fail")
  /\ rows' = Stored(job[p].id, [Own(p) EXCEPT !.failed = TRUE])
  /\ Release(p)
  /\ UNCHANGED <<created, disk, obtained, aged, assigned, conf,
                 todo, history>>

(* Between staging and the row: writeDNSEnv or refreshMetadata of an import  *)
(* fails and the row is deleted, or nothing is written.                      *)
WriteFails(p) ==
  /\ At(p, "write") /\ Fails("write")
  /\ \/ /\ Kind(p) = "import" /\ Goto(p, "undo")
        /\ UNCHANGED <<holder, job, seen, got>>
     \/ Release(p)
  /\ UNCHANGED <<rows, created, disk, obtained, aged, assigned, conf, todo,
                 restored, unapplied, raced, requests, crashes>>

(* DeleteCertificate: a route that refers to the row is left without one     *)
(* (ON DELETE SET NULL).                                                     *)
DeleteRow(id) ==
  /\ rows' = [rows EXCEPT ![id] = None]
  /\ assigned' = assigned \ {id}
  /\ raced' = (raced \/ id \in assigned)

UndoCreate(p) ==
  /\ At(p, "undo")
  /\ DeleteRow(job[p].id)
  /\ Release(p)
  /\ UNCHANGED <<created, disk, obtained, aged, conf, todo,
                 restored, unapplied, requests, faults, crashes>>

(* Apply renders every certificate in use from its row.  It may fail before  *)
(* or after nginx.conf is replaced; nothing is undone here.                  *)
Rendered == [id \in Ids |-> IF id \in assigned THEN rows[id].path ELSE NoPair]

ApplySucceeds == conf' = Rendered /\ unapplied' = FALSE /\ raced' = FALSE /\ UNCHANGED faults
ApplyFails == Fails("apply") /\ conf' \in {conf, Rendered} /\ unapplied' = TRUE /\ UNCHANGED raced

Apply(p) ==
  /\ At(p, "apply")
  /\ ApplySucceeds \/ ApplyFails
  /\ Release(p)
  /\ UNCHANGED <<rows, created, disk, obtained, aged, assigned, todo, restored,
                 requests, crashes>>

-----------------------------------------------------------------------------
\* Mutant: the files go before the row.
EraseFirst(p) ==
  /\ At(p, "drop")
  /\ disk' = [disk EXCEPT ![job[p].id] = {}]
  /\ Goto(p, "erase")
  /\ UNCHANGED <<rows, created, obtained, aged, assigned, conf, holder, job, seen, got,
                 todo, history>>

(* Delete: first the row, then the files. *)
DropRow(p) ==
  /\ At(p, "drop")
  /\ DeleteRow(job[p].id)
  /\ Goto(p, "erase")
  /\ UNCHANGED <<created, disk, obtained, aged, conf, holder, job, seen, got, todo,
                 restored, unapplied, requests, faults, crashes>>

Erase(p) ==
  /\ At(p, "erase")
  /\ disk' = [disk EXCEPT ![job[p].id] = {}]
  /\ Release(p)
  /\ UNCHANGED <<rows, created, obtained, aged, assigned, conf,
                 todo, history>>

(* List reads all rows and repairs, one after the other, those whose names   *)
(* and expiry are not those of the file.                                     *)
Stale(r) == r # None /\ r.path # NoPair /\ r.meta # r.path

ListRows(p) ==
  /\ At(p, "list")
  /\ seen' = [seen EXCEPT ![p] = rows]
  /\ todo' = [todo EXCEPT ![p] = {id \in Ids : Stale(rows[id])}]
  /\ Goto(p, "repair")
  /\ UNCHANGED <<rows, created, disk, obtained, aged, assigned, conf, holder, job, got, history>>

Repair(p) ==
  /\ At(p, "repair")
  /\ \E id \in todo[p] :
       /\ rows' = IF seen[p][id].path \in disk[id]
                  THEN Stored(id, [seen[p][id] EXCEPT !.meta = seen[p][id].path])
                  ELSE rows
       /\ todo' = [todo EXCEPT ![p] = @ \ {id}]
  /\ UNCHANGED <<created, disk, obtained, aged, assigned, conf, holder, pc, job, seen, got,
                 history>>

Listed(p) ==
  /\ At(p, "repair") /\ todo[p] = {}
  /\ Release(p)
  /\ UNCHANGED <<rows, created, disk, obtained, aged, assigned, conf,
                 todo, history>>

-----------------------------------------------------------------------------
(* certificateUpdateMetadata reads a row and writes all of it back, with     *)
(* another name and description, without the manager's lock.                 *)
ReadMetadata(p) ==
  /\ \E id \in Ids :
       /\ rows[id] # None
       /\ Begin(p, "metadata", id, "edit")
       /\ seen' = [seen EXCEPT ![p][id] = rows[id]]
  /\ UNCHANGED <<rows, created, disk, obtained, aged, assigned, conf, holder, got, todo,
                 restored, unapplied, raced, faults, crashes>>

Ends(p) ==
  /\ pc' = [pc EXCEPT ![p] = "idle"]
  /\ job' = [job EXCEPT ![p] = Idle]
  /\ seen' = [seen EXCEPT ![p] = NoRows]

Replaces(id, r) == rows[id] # None /\ rows[id].path # r.path

EditMetadata(p) ==
  /\ At(p, "edit")
  /\ rows' = Stored(job[p].id, Own(p))
  /\ restored' = (restored \/ Replaces(job[p].id, Own(p)))
  /\ Ends(p)
  /\ UNCHANGED <<created, disk, obtained, aged, assigned, conf, holder, got, todo,
                 unapplied, raced, requests, faults, crashes>>

-----------------------------------------------------------------------------
(* A route takes a certificate whose files can be read (assign: a creation   *)
(* or an update), or gives it up (unassign: an update; remove: a deletion).  *)
RequestRoute(p) ==
  /\ \/ \E id \in Ids \ assigned :
          /\ rows[id] # None /\ rows[id].path \in disk[id]
          /\ Begin(p, "assign", id, "attach")
     \/ \E id \in assigned, kind \in {"unassign", "remove"} : Begin(p, kind, id, "detach")
  /\ UNCHANGED <<rows, created, disk, obtained, aged, assigned, conf, holder, seen, got, todo,
                 restored, unapplied, raced, faults, crashes>>

(* The foreign key refuses a certificate that is gone: the request ends, or, *)
(* if it is being undone, goes on.                                           *)
Attach(p) ==
  /\ At(p, "attach")
  /\ IF rows[job[p].id] # None
     THEN assigned' = assigned \cup {job[p].id} /\ Goto(p, "activate") /\ UNCHANGED <<job, seen>>
     ELSE /\ IF Kind(p) = "remove" THEN Goto(p, "activate") /\ UNCHANGED <<job, seen>> ELSE Ends(p)
          /\ UNCHANGED assigned
  /\ UNCHANGED <<rows, created, disk, obtained, aged, conf, holder, got,
                 todo, history>>

Detach(p) ==
  /\ At(p, "detach")
  /\ assigned' = assigned \ {job[p].id}
  /\ Goto(p, "activate")
  /\ UNCHANGED <<rows, created, disk, obtained, aged, conf, holder, job, seen, got,
                 todo, history>>

(* If Apply fails, a creation or an update is undone and applied once more;  *)
(* a deletion is not, and neither is what undoes.                            *)
Activate(p) ==
  /\ At(p, "activate")
  /\ \/ ApplySucceeds /\ Ends(p)
     \/ /\ ApplyFails
        /\ IF Kind(p) = "remove" THEN Ends(p)
           ELSE /\ job' = [job EXCEPT ![p].kind = "remove"]
                /\ Goto(p, IF Kind(p) = "assign" THEN "detach" ELSE "attach")
                /\ UNCHANGED seen
  /\ UNCHANGED <<rows, created, disk, obtained, aged, assigned, holder, got, todo, restored,
                 requests, crashes>>

-----------------------------------------------------------------------------
\* Mutant: a certificate whose last order failed is not tried again.
AutomaticOnce(id) ==
  /\ rows[id] # None
  /\ rows[id].auto /\ rows[id].managed /\ ~rows[id].failed
  /\ Due(id, rows[id].path)

(* RenewDue lists what is due without the lock and renews one after the      *)
(* other; Renew looks again.                                                 *)
Automatic(id) ==
  /\ rows[id] # None
  /\ rows[id].auto /\ rows[id].managed
  /\ Due(id, rows[id].path)

RenewDue ==
  /\ At(Renewer, "idle") /\ todo[Renewer] = {}
  /\ todo' = [todo EXCEPT ![Renewer] = {id \in Ids : Automatic(id)}]
  /\ UNCHANGED <<rows, created, disk, obtained, aged, assigned, conf, holder, pc, job, seen, got,
                 history>>

RenewNext ==
  /\ At(Renewer, "idle")
  /\ \E id \in todo[Renewer] :
       /\ todo' = [todo EXCEPT ![Renewer] = @ \ {id}]
       /\ job' = [job EXCEPT ![Renewer] = [kind |-> "renewDue", id |-> id]]
  /\ Goto(Renewer, "lock")
  /\ UNCHANGED <<rows, created, disk, obtained, aged, assigned, conf, holder, seen, got, history>>

(* Time passes; pairs live equally long, so that the oldest is due first. *)
Age ==
  /\ Cardinality(aged) < MaxAged
  /\ \E k \in 1..obtained :
       aged = 1..(k - 1) /\ aged' = 1..k
  /\ UNCHANGED <<rows, created, disk, obtained, assigned, conf, holder, local, history>>

(* The container is restarted and ApplyStartup renders the rows (Startup     *)
(* models the starts that cannot).                                           *)
Restart ==
  /\ crashes < MaxCrashes
  /\ crashes' = crashes + 1
  /\ holder' = None
  /\ pc' = [p \in Procs |-> "idle"]
  /\ job' = [p \in Procs |-> Idle]
  /\ seen' = [p \in Procs |-> NoRows]
  /\ got' = [p \in Procs |-> NoPair]
  /\ todo' = [p \in Procs |-> {}]
  /\ conf' = Rendered
  /\ unapplied' = FALSE /\ raced' = FALSE
  /\ UNCHANGED <<rows, created, disk, obtained, aged, assigned, restored, requests, faults>>

-----------------------------------------------------------------------------
(* One certificate is stored and managed, and may be in use; its names and   *)
(* expiry have not been read from the file yet, as in rows of earlier        *)
(* versions.  There may be a second one, not renewed by itself, whose order  *)
(* failed.                                                                   *)
Init ==
  /\ created \in Ids /\ created <= 2
  /\ rows = [id \in Ids |->
       CASE id = 1 -> [NewRow(TRUE, TRUE) EXCEPT !.path = 1]
         [] id = 2 /\ created = 2 -> [NewRow(FALSE, TRUE) EXCEPT !.failed = TRUE]
         [] OTHER -> None]
  /\ disk = [id \in Ids |-> IF id = 1 THEN {1} ELSE {}]
  /\ obtained = 1 /\ aged = {}
  /\ assigned = InUse
  /\ conf = Rendered
  /\ holder = None
  /\ pc = [p \in Procs |-> "idle"]
  /\ job = [p \in Procs |-> Idle]
  /\ seen = [p \in Procs |-> NoRows]
  /\ got = [p \in Procs |-> NoPair]
  /\ todo = [p \in Procs |-> {}]
  /\ restored = FALSE /\ unapplied = FALSE /\ raced = FALSE
  /\ requests = 0 /\ faults = 0 /\ crashes = 0

(* What a goroutine does once it runs. *)
Step(p) ==
  \/ Lock(p) \/ Create(p) \/ CannotCreate(p) \/ Read(p) \/ Order(p) \/ Stage(p)
  \/ Write(p) \/ OrderFails(p) \/ StageFails(p) \/ StoreError(p) \/ WriteFails(p)
  \/ UndoCreate(p) \/ Apply(p) \/ DropRow(p) \/ Erase(p)
  \/ ListRows(p) \/ Repair(p) \/ Listed(p) \/ EditMetadata(p)
  \/ Attach(p) \/ Detach(p) \/ Activate(p)

Next ==
  \/ \E p \in Procs : Step(p)
  \/ \E p \in Handlers : Request(p) \/ ReadMetadata(p) \/ RequestRoute(p)
  \/ RenewDue \/ RenewNext
  \/ Age \/ Restart

Spec == Init /\ [][Next]_vars

(* Goroutines run, failing or not, and the renewal loop goes on. *)
Fairness ==
  /\ \A p \in Procs : WF_vars(Step(p) /\ UNCHANGED faults)
  /\ WF_vars(RenewDue) /\ WF_vars(RenewNext)

FairSpec == Spec /\ Fairness

-----------------------------------------------------------------------------
(* Properties. *)

Labels == {"idle", "lock", "create", "read", "order", "stage", "write", "fail", "undo",
           "apply", "drop", "erase", "list", "repair", "edit", "attach", "detach", "activate"}
Unguarded == {"idle", "lock", "edit", "attach", "detach", "activate"}
Locked == Labels \ Unguarded
Jobs == [kind : {"none", "issue", "import", "list", "renew", "renewDue", "delete", "metadata",
                 "assign", "unassign", "remove"},
         id : Ids]

(* Types; whoever is between Lock and Unlock holds the mutex.                *)
TypeOK ==
  /\ rows \in [Ids -> Row \cup {None}]
  /\ created \in Ids
  /\ disk \in [Ids -> SUBSET Pairs]
  /\ obtained \in Pairs
  /\ aged \subseteq Pairs
  /\ assigned \subseteq Ids
  /\ conf \in [Ids -> Pairs \cup {NoPair}]
  /\ holder \in Procs \cup {None}
  /\ pc \in [Procs -> Labels]
  /\ job \in [Procs -> Jobs]
  /\ seen \in [Procs -> [Ids -> Row \cup {None}]]
  /\ got \in [Procs -> Pairs \cup {NoPair}]
  /\ todo \in [Procs -> SUBSET Ids]
  /\ \A p \in Procs : pc[p] \in Locked => holder = p
  /\ restored \in BOOLEAN /\ unapplied \in BOOLEAN /\ raced \in BOOLEAN
  /\ requests \in Nat /\ faults \in Nat /\ crashes \in Nat

(* nginx.conf may name a certificate that no route uses any more: the last   *)
(* Apply failed, one is still to come, or the certificate was assigned after *)
(* its deletion had looked.                                                  *)
Owed == unapplied \/ raced \/ \E p \in Procs : pc[p] = "activate"

(* "Persist both directory entries before the database can point at this    *)
(* version": every stored path, and every path in nginx.conf, is a complete *)
(* pair on disk, so that OpenResty can be started at any moment, whatever   *)
(* renewals, edits, assignments, deletions and crashes are under way.  A    *)
(* path in nginx.conf may be gone only with its row, and only while an      *)
(* Apply is owed; a route's deletion whose Apply fails leaves it so, because *)
(* it is not undone and the certificate can then be deleted.                *)
MaterialOnDisk ==
  \A id \in Ids :
    /\ rows[id] # None => {rows[id].path, conf[id]} \subseteq disk[id] \cup {NoPair}
    /\ conf[id] \in disk[id] \cup {NoPair} \/ Owed

(* Why: a row exists as long as somebody works on it under the lock, a copy  *)
(* about to be written names material that is on disk, files are erased only *)
(* after their row, a certificate in use has a row, and nginx.conf names no  *)
(* other unless an Apply is owed.                                            *)
WellFounded(id, r) ==
  /\ r # None
  /\ r.path = NoPair \/ r.path \in disk[id]

KindFits(p) ==
  /\ pc[p] = "lock" => Kind(p) \in DOMAIN FirstStep
  /\ pc[p] = "create" => Kind(p) \in {"issue", "import"}
  /\ pc[p] = "read" => Kind(p) \in {"renew", "renewDue", "delete"}

WorkFits(p) ==
  /\ pc[p] \in {"order", "stage", "write", "fail", "undo", "apply", "drop"} =>
       rows[job[p].id] # None
  /\ pc[p] \in {"order", "stage", "write", "fail"} => WellFounded(job[p].id, Own(p))
  /\ pc[p] = "edit" =>
       /\ Own(p) # None /\ job[p].id <= created
       /\ rows[job[p].id] # None => WellFounded(job[p].id, Own(p))
  /\ pc[p] = "stage" => got[p] # NoPair
  /\ pc[p] = "erase" => rows[job[p].id] = None /\ job[p].id <= created
  /\ pc[p] = "repair" => \A id \in todo[p] : seen[p][id] # None

CertificateInv ==
  /\ TypeOK
  /\ MaterialOnDisk
  /\ \A id \in assigned : rows[id] # None
  /\ \A id \in Ids : conf[id] # NoPair => id <= created /\ (id \in assigned \/ Owed)
  /\ \A id \in Ids : rows[id] # None => id <= created
  /\ \A p \in Procs : KindFits(p) /\ WorkFits(p)

(* Once Delete (or a failed import) has removed a row, neither the row nor  *)
(* private material of that id comes back, although renewals of it may have *)
(* been listed before and edits of it may be half done.                     *)
DeletedStaysErased ==
  [][\A id \in 1..created : rows[id] = None =>
       rows'[id] = None /\ disk'[id] \subseteq disk[id]]_vars

(* Overlapping renewals, imports and listings never put a stored            *)
(* certificate back to an older pair, unless an edit of the metadata has.    *)
RenewalsMoveForward ==
  [][~restored' => \A id \in Ids :
       rows[id] # None /\ rows'[id] # None => rows'[id].path >= rows[id].path]_vars

(* "Managed Let's Encrypt certificates are renewed automatically before      *)
(* expiry": the pair of the certificate stored at first is replaced when it  *)
(* is due, although orders fail, the container restarts and edits put an     *)
(* older pair back, unless the certificate is deleted.  What nginx.conf      *)
(* names becomes fresh as well, unless an edit has put an older pair back or *)
(* the last activation has failed, which nothing repeats.                    *)
Managed(id) == rows[id] # None /\ rows[id].auto /\ rows[id].managed

ServedBecomesFresh ==
  LET path == rows[1].path IN
  Managed(1) /\ {path, conf[1]} \cap aged # {} ~>
    \/ ~Managed(1)
    \/ path \notin aged /\ (conf[1] \notin aged \/ restored \/ unapplied)

(* "The display name and description are ZentProxy metadata and can be      *)
(* edited without replacing the certificate."                               *)
MetadataKeepsCertificate == ~restored

=============================================================================
