---------------------------- MODULE ControlPlane ----------------------------
(***************************************************************************)
(* The control plane of ZentProxy in steady state: HTTP handlers that run  *)
(* concurrently, edit the SQLite tables one statement at a time, and push  *)
(* the result into OpenResty through proxy.Manager.Apply.                  *)
(*                                                                         *)
(*   - internal/api/server.go    the handlers (one goroutine per request,  *)
(*                               no lock of their own);                    *)
(*   - internal/db/store.go      the tables: every statement is atomic     *)
(*                               (one connection), foreign keys are on,    *)
(*                               deleting a referenced row sets the        *)
(*                               reference to NULL, ids are never reused;  *)
(*   - internal/proxy/manager.go Apply, the only critical section: it      *)
(*                               reads the tables one after the other,     *)
(*                               tests the rendered file, renames it into  *)
(*                               place and signals OpenResty.              *)
(*                                                                         *)
(* Abstractions.  A row keeps what the properties tell apart: the domains, *)
(* a target (backend and custom configuration), the certificate, access    *)
(* list and trusted proxy provider it references, and whether it is        *)
(* enabled.  The tables of redirects, 404 hosts and streams, each listed   *)
(* by a statement of its own, are read in one step.                        *)
(* An early return before the first write of a                             *)
(* handler changes nothing, so a request refused by its first check is no  *)
(* step at all.  OpenResty is running (start-up is another module) and     *)
(* reads nginx.conf some time after it is signalled.  Failures that do not *)
(* depend on the data (a full disk, a signal that cannot be sent) happen   *)
(* at most MaxFaults times.  Errors of single SQL statements other than a  *)
(* missing row or a foreign key are not modelled.                          *)
(***************************************************************************)
EXTENDS Naturals, FiniteSets

CONSTANTS
  Clients,       \* handler goroutines that may run at the same time
  HostIds,       \* ids the hosts table can hand out
  RedirectIds, DeadIds, StreamIds,  \* and the other tables of routing rows
  Domains,       \* server names
  Targets,       \* backends and custom configuration of a row
  Rejected,      \* the targets `openresty -t` rejects
  Certs,         \* ids of the certificates table
  Lists,         \* ids of the access_lists table
  Providers,     \* ids of the manual trusted_proxy_providers
  Covers,        \* Covers[k]: the domains certificate k is valid for
  InputRows,     \* the rows a request may carry
  InitRows,      \* the tables at the start
  None,          \* SQL NULL, no row, no client
  MaxRequests,   \* bound: requests started
  MaxFaults      \* bound: environment failures

RouteIds == RedirectIds \cup DeadIds \cup StreamIds
Ids == HostIds \cup RouteIds
Refs == Certs \cup Lists \cup Providers

Row == [domains : SUBSET Domains, target : Targets,
        refs : SUBSET Refs, enabled : BOOLEAN]
MaybeRow == Row \cup {None}

ASSUME IdsAssumption ==
  /\ HostIds \cap RouteIds = {}
  /\ RedirectIds \cap DeadIds = {}
  /\ StreamIds \cap (RedirectIds \cup DeadIds) = {}
  /\ Certs \cap (Lists \cup Providers) = {}
  /\ Lists \cap Providers = {}
  /\ Ids \cap Refs = {}
  /\ None \notin Clients \cup Ids \cup Refs \cup Row

ASSUME DataAssumption ==
  /\ Covers \in [Certs -> SUBSET Domains]
  /\ InputRows \subseteq Row
  /\ InitRows \in [Ids -> MaybeRow]
  /\ MaxRequests \in Nat
  /\ MaxFaults \in Nat

VARIABLES
  \* the SQLite store and the certificate files
  rows,        \* the hosts, redirect_hosts, dead_hosts and streams tables
  used,        \* ids handed out so far (AUTOINCREMENT)
  refs,        \* rows of certificates, access_lists, trusted_proxy_providers
  material,    \* certificates whose files exist below /data/certs
  \* the handlers
  pc, kind, tgt, want, old, second,
  \* proxy.Manager
  holder,      \* who holds Manager.mu
  snap,        \* snap[c]: the rows Apply has read for c
  seen,        \* seen[c]: access lists and providers Apply has read for c
  conf,        \* nginx.conf on disk: what it routes
  \* OpenResty
  pending,     \* a reload signal is waiting for the master process
  live,        \* what the running workers route
  \* history, read by the properties only
  ver,         \* ver[id]: how often the row was written
  snapVer,     \* snapVer[c][id]: the version c's Apply has read
  confVer,     \* confVer[id]: the version nginx.conf was rendered from
  mine,        \* mine[c]: the version c's own write produced
  owner,       \* owner[id]: the handler that wrote the last version
  lastOk,      \* the last finished Apply succeeded
  reloadLost,  \* the last reload was refused by the master process
  started, faults

storeVars   == <<rows, used, refs, material>>
requestVars == <<kind, tgt, want, old, second>>
applyVars   == <<holder, snap, seen, snapVer>>
confVars    == <<conf, confVer>>
liveVars    == <<pending, live, reloadLost>>
writeVars   == <<ver, mine, owner>>
vars == <<storeVars, pc, requestVars, applyVars, confVars, liveVars,
          writeVars, lastOk, started, faults>>

(* The kinds of request; a creation names its table. *)
CreatedIn == [createHost |-> HostIds, createRedirect |-> RedirectIds,
              createDead |-> DeadIds, createStream |-> StreamIds]
Creations == DOMAIN CreatedIn
Kinds == Creations \cup {"none", "update", "delete", "drop", "touch", "setting"}
Labels == {"idle", "domains", "readOld", "checkRefs", "write", "reread",
           "checkRoutes", "drop", "erase", "apply", "routes", "lists",
           "activate", "signal", "rollback", "ok", "failed"}

(* What one handler can know of the tables: nothing yet. *)
NothingRead == [id \in Ids |-> None]
NoVersion == [id \in Ids |-> 0]

-----------------------------------------------------------------------------
(* The tables. *)

CertsOf(row) == row.refs \cap Certs

(* What a handler accepts for its table: only proxy hosts have an access   *)
(* list; a stream has neither domains nor a provider, all others need a    *)
(* domain.                                                                 *)
Acceptable(k, row) ==
  /\ k # "createHost" => row.refs \cap Lists = {}
  /\ k = "createStream" => row.refs \subseteq Certs
  /\ k = "createStream" <=> row.domains = {}

(* validateCertificateAssignment, GetAccessList, GetProvider: the rows     *)
(* referred to exist and the certificate is valid for every domain.        *)
AssignmentOk(row) ==
  /\ row.refs \subseteq refs
  /\ \A k \in CertsOf(row) : k \in material /\ row.domains \subseteq Covers[k]

(* Mutant: the conflict check runs on creation only. *)
DomainTakenOnCreate(ds, except) ==
  except = None /\ \E id \in HostIds : rows[id] # None /\ rows[id].domains \cap ds # {}

(* CheckDomainConflicts: another proxy host, enabled or not, already has   *)
(* one of the domains.                                                     *)
DomainTaken(ds, except) ==
  \E id \in HostIds \ {except} : rows[id] # None /\ rows[id].domains \cap ds # {}

(* Some row of these tables refers to the object. *)
AssignedTo(ids, r) == \E id \in ids : rows[id] # None /\ r \in rows[id].refs

\* Mutant: foreign keys are not enforced.
Dangling(row, r) == row

(* ON DELETE SET NULL. *)
Unreferenced(row, r) ==
  IF row = None THEN None ELSE [row EXCEPT !.refs = @ \ {r}]

(* The part of a row that reaches nginx.conf: nothing for a disabled row,  *)
(* an access list or a provider only if Apply found it in its table.  A    *)
(* certificate is taken from the row; a stream whose certificate is not in *)
(* the table is rendered without TLS.                                      *)
Rendered(id, row, known) ==
  IF row = None \/ ~row.enabled THEN None
  ELSE [row EXCEPT !.refs = @ \cap (IF id \in StreamIds THEN known ELSE Certs \cup known)]

(* The rows of `written` change hands: their version grows and c is the    *)
(* last to have written them.                                              *)
Bump(written) == [id \in Ids |-> IF id \in written THEN ver[id] + 1 ELSE ver[id]]
Credit(written, who) == [id \in Ids |-> IF id \in written THEN who ELSE owner[id]]

Goto(c, l) == pc' = [pc EXCEPT ![c] = l]

Request(c, k, t, w, o) ==
  /\ kind' = [kind EXCEPT ![c] = k]
  /\ tgt' = [tgt EXCEPT ![c] = t]
  /\ want' = [want EXCEPT ![c] = w]
  /\ old' = [old EXCEPT ![c] = o]
  /\ UNCHANGED second

Accept(c) ==
  /\ pc[c] = "idle"
  /\ started < MaxRequests
  /\ started' = started + 1
  /\ UNCHANGED <<storeVars, applyVars, confVars, liveVars, writeVars, lastOk, faults>>

-----------------------------------------------------------------------------
(* Requests arrive; the first check of the handler is part of the step.    *)
(* The finite id sets bound the creations.                                 *)

CreateHost(c, row) ==
  /\ Accept(c)
  /\ HostIds \ used # {}
  /\ Acceptable("createHost", row)
  /\ AssignmentOk(row)
  /\ Request(c, "createHost", None, row, None)
  /\ Goto(c, "domains")

UpdateHost(c, id, row) ==
  /\ Accept(c)
  /\ Acceptable("createHost", row)
  /\ AssignmentOk(row)
  /\ Request(c, "update", id, row, None)
  /\ Goto(c, "domains")

(* redirectHostCreate, deadHostCreate, streamCreate: no look at the other  *)
(* rows' domains.                                                          *)
CreateRoute(c, k, row) ==
  /\ Accept(c)
  /\ CreatedIn[k] \ used # {}
  /\ Acceptable(k, row)
  /\ AssignmentOk(row)
  /\ Request(c, k, None, row, None)
  /\ Goto(c, "write")

(* redirectHostUpdate, deadHostUpdate, streamUpdate read the old row       *)
(* before anything else.                                                   *)
UpdateRoute(c, id, row) ==
  /\ Accept(c)
  /\ \E k \in Creations : id \in CreatedIn[k] /\ Acceptable(k, row)
  /\ rows[id] # None
  /\ Request(c, "update", id, row, rows[id])
  /\ Goto(c, "checkRefs")

DeleteRow(c, id) ==
  /\ Accept(c)
  /\ Request(c, "delete", id, None, None)
  /\ Goto(c, "write")

(* certificateDelete, accessListDelete: refuse while a proxy host refers   *)
(* to the object.  providerDelete: resets the rows that refer to it.       *)
DeleteRef(c, r) ==
  /\ Accept(c)
  /\ IF r \in Providers THEN r \in refs ELSE ~AssignedTo(HostIds, r)
  /\ Request(c, "drop", r, None, None)
  /\ Goto(c, IF r \in Certs THEN "checkRoutes" ELSE "drop")

(* Everything that activates without writing a modelled table: a changed   *)
(* or refreshed provider, access list credentials, a renewed certificate   *)
(* ("touch"); zentLoopSet and accessListUpdate ("setting"), which put the  *)
(* old values back and activate again when the first Apply fails.          *)
Touch(c, k) ==
  /\ Accept(c)
  /\ Request(c, k, None, None, None)
  /\ Goto(c, "apply")

-----------------------------------------------------------------------------
(* The handlers' own steps, one SQL statement each. *)

(* CheckDomainConflicts over a fresh ListHosts. *)
CheckDomains(c) ==
  /\ pc[c] = "domains"
  /\ Goto(c, IF DomainTaken(want[c].domains, tgt[c]) THEN "failed"
             ELSE IF kind[c] = "createHost" THEN "write" ELSE "readOld")
  /\ UNCHANGED <<storeVars, requestVars, applyVars, confVars, liveVars,
                 writeVars, lastOk, started, faults>>

(* GetHost: what a failed activation will put back. *)
ReadOld(c) ==
  /\ pc[c] = "readOld"
  /\ old' = [old EXCEPT ![c] = rows[tgt[c]]]
  /\ Goto(c, IF rows[tgt[c]] = None THEN "failed" ELSE "write")
  /\ UNCHANGED <<storeVars, kind, tgt, want, second, applyVars, confVars,
                 liveVars, writeVars, lastOk, started, faults>>

CheckRefs(c) ==
  /\ pc[c] = "checkRefs"
  /\ Goto(c, IF AssignmentOk(want[c]) THEN "write" ELSE "failed")
  /\ UNCHANGED <<storeVars, requestVars, applyVars, confVars, liveVars,
                 writeVars, lastOk, started, faults>>

(* One table write by c: the rows in `written` get their values in `table`. *)
Store(c, table, written) ==
  /\ rows' = table
  /\ ver' = Bump(written)
  /\ owner' = Credit(written, c)

(* INSERT with a fresh id; a dangling reference is refused by the database. *)
Insert(c) ==
  /\ pc[c] = "write"
  /\ kind[c] \in Creations
  /\ IF want[c].refs \subseteq refs
     THEN \E id \in CreatedIn[kind[c]] \ used :
            /\ Store(c, [rows EXCEPT ![id] = want[c]], {id})
            /\ used' = used \cup {id}
            /\ tgt' = [tgt EXCEPT ![c] = id]
            /\ mine' = [mine EXCEPT ![c] = ver[id] + 1]
            /\ Goto(c, "reread")
     ELSE /\ Goto(c, "failed")
          /\ UNCHANGED <<rows, used, tgt, writeVars>>
  /\ UNCHANGED <<refs, material, kind, want, old, second, applyVars, confVars,
                 liveVars, lastOk, started, faults>>

(* UPDATE of every column: no row, or a dangling reference, changes nothing. *)
Update(c) ==
  /\ pc[c] = "write" /\ kind[c] = "update"
  /\ IF rows[tgt[c]] # None /\ want[c].refs \subseteq refs
     THEN /\ Store(c, [rows EXCEPT ![tgt[c]] = want[c]], {tgt[c]})
          /\ mine' = [mine EXCEPT ![c] = ver[tgt[c]] + 1]
          /\ Goto(c, "reread")
     ELSE /\ Goto(c, "failed")
          /\ UNCHANGED <<rows, writeVars>>
  /\ UNCHANGED <<used, refs, material, requestVars, applyVars, confVars,
                 liveVars, lastOk, started, faults>>

(* CreateX and UpdateX end in GetX: a row that is gone by then is reported *)
(* as an error and nothing is activated.                                   *)
Reread(c) ==
  /\ pc[c] = "reread"
  /\ Goto(c, IF rows[tgt[c]] = None THEN "failed" ELSE "apply")
  /\ UNCHANGED <<storeVars, requestVars, applyVars, confVars, liveVars,
                 writeVars, lastOk, started, faults>>

(* DELETE of a row.  DeleteHost reports a missing row, the other tables    *)
(* do not notice and activate anyway.                                      *)
Delete(c) ==
  /\ pc[c] = "write" /\ kind[c] = "delete"
  /\ IF rows[tgt[c]] # None
     THEN /\ Store(c, [rows EXCEPT ![tgt[c]] = None], {tgt[c]})
          /\ mine' = [mine EXCEPT ![c] = ver[tgt[c]] + 1]
          /\ Goto(c, "apply")
     ELSE /\ Goto(c, IF tgt[c] \in HostIds THEN "failed" ELSE "apply")
          /\ UNCHANGED <<rows, writeVars>>
  /\ UNCHANGED <<used, refs, material, requestVars, applyVars, confVars,
                 liveVars, lastOk, started, faults>>

(* certificateDelete goes on to look at the other tables. *)
CheckRoutes(c) ==
  /\ pc[c] = "checkRoutes"
  /\ Goto(c, IF AssignedTo(RouteIds, tgt[c]) THEN "failed" ELSE "drop")
  /\ UNCHANGED <<storeVars, requestVars, applyVars, confVars, liveVars,
                 writeVars, lastOk, started, faults>>

(* DELETE of a referenced object, with ON DELETE SET NULL on the rows that *)
(* refer to it after all.  This handler goes on to activate the tables     *)
(* without the access list or provider; a dropped certificate is not       *)
(* activated, so nobody owes the version it leaves.  Only the deletion of  *)
(* an access list does not notice that the object is gone already.         *)
DropRef(c) ==
  /\ pc[c] = "drop"
  /\ refs' = refs \ {tgt[c]}
  /\ LET hit == {id \in Ids : rows[id] # None /\ tgt[c] \in rows[id].refs} IN
       /\ rows' = [id \in Ids |-> Unreferenced(rows[id], tgt[c])]
       /\ ver' = Bump(hit)
       /\ owner' = Credit(hit, IF tgt[c] \in Certs THEN None ELSE c)
  /\ Goto(c, IF tgt[c] \notin refs \cup Lists THEN "failed"
             ELSE IF tgt[c] \in Certs THEN "erase" ELSE "apply")
  /\ UNCHANGED <<used, material, requestVars, mine, applyVars, confVars,
                 liveVars, lastOk, started, faults>>

(* The second half of certificates.Manager.Delete: the files go. *)
EraseMaterial(c) ==
  /\ pc[c] = "erase"
  /\ material' = material \ {tgt[c]}
  /\ Goto(c, "ok")
  /\ UNCHANGED <<rows, used, refs, requestVars, applyVars, confVars, liveVars,
                 writeVars, lastOk, started, faults>>

(* A failed activation is undone in the table: the created row is deleted, *)
(* the updated one gets the values read before the update.  The error of   *)
(* either statement is ignored.                                            *)
Undoable(c) ==
  /\ tgt[c] \in Ids
  /\ rows[tgt[c]] # None
  /\ old[c] = None \/ old[c].refs \subseteq refs

\* Mutant: the old values are put back whether or not the row still exists.
UndoUpsert(c) ==
  IF tgt[c] \in Ids THEN Store(c, [rows EXCEPT ![tgt[c]] = old[c]], {tgt[c]})
  ELSE UNCHANGED <<rows, ver, owner>>

\* Mutant: only the target of an updated row is restored.
UndoTarget(c) ==
  IF Undoable(c)
  THEN Store(c, [rows EXCEPT ![tgt[c]] = IF old[c] = None THEN None
                                         ELSE [@ EXCEPT !.target = old[c].target]], {tgt[c]})
  ELSE UNCHANGED <<rows, ver, owner>>

Undo(c) ==
  IF Undoable(c) THEN Store(c, [rows EXCEPT ![tgt[c]] = old[c]], {tgt[c]})
  ELSE UNCHANGED <<rows, ver, owner>>

\* Mutant: the restored table is not activated.
RollbackOnly(c) ==
  /\ pc[c] = "rollback"
  /\ Undo(c)
  /\ second' = [second EXCEPT ![c] = TRUE]
  /\ Goto(c, "failed")
  /\ UNCHANGED <<used, refs, material, kind, tgt, want, old, mine, applyVars,
                 confVars, liveVars, lastOk, started, faults>>

Rollback(c) ==
  /\ pc[c] = "rollback"
  /\ Undo(c)
  /\ second' = [second EXCEPT ![c] = TRUE]
  /\ Goto(c, "apply")
  /\ UNCHANGED <<used, refs, material, kind, tgt, want, old, mine, applyVars,
                 confVars, liveVars, lastOk, started, faults>>

(* The response is written and the goroutine ends. *)
Respond(c) ==
  /\ pc[c] \in {"ok", "failed"}
  /\ Goto(c, "idle")
  /\ kind' = [kind EXCEPT ![c] = "none"]
  /\ tgt' = [tgt EXCEPT ![c] = None]
  /\ want' = [want EXCEPT ![c] = None]
  /\ old' = [old EXCEPT ![c] = None]
  /\ second' = [second EXCEPT ![c] = FALSE]
  /\ mine' = [mine EXCEPT ![c] = 0]
  /\ UNCHANGED <<storeVars, applyVars, confVars, liveVars, ver, owner, lastOk,
                 started, faults>>

-----------------------------------------------------------------------------
(* Manager.Apply, with Manager.mu held from the first read to the return.  *)

\* Mutant: Apply does not take the mutex.
Unlocked == TRUE

MutexFree == holder = None

(* Lock the mutex; ListHosts. *)
Acquire(c) ==
  /\ pc[c] = "apply"
  /\ MutexFree
  /\ holder' = c
  /\ snap' = [snap EXCEPT ![c] = [id \in Ids |-> IF id \in HostIds THEN rows[id] ELSE None]]
  /\ snapVer' = [snapVer EXCEPT ![c] = [id \in Ids |-> IF id \in HostIds THEN ver[id] ELSE 0]]
  /\ Goto(c, "routes")
  /\ UNCHANGED <<storeVars, requestVars, seen, confVars, liveVars,
                 writeVars, lastOk, started, faults>>

(* ListRedirectHosts, ListDeadHosts, ListStreams. *)
ReadRoutes(c) ==
  /\ pc[c] = "routes"
  /\ snap' = [snap EXCEPT ![c] = [id \in Ids |-> IF id \in RouteIds THEN rows[id] ELSE @[id]]]
  /\ snapVer' = [snapVer EXCEPT ![c] = [id \in Ids |-> IF id \in RouteIds THEN ver[id] ELSE @[id]]]
  /\ Goto(c, "lists")
  /\ UNCHANGED <<storeVars, requestVars, holder, seen, confVars, liveVars,
                 writeVars, lastOk, started, faults>>

\* Mutant: the access lists are not read.
ProviderTable == refs \cap Providers

OptionalObjects == refs \ Certs

(* ListAccessLists, ListProviders. *)
ReadLists(c) ==
  /\ pc[c] = "lists"
  /\ seen' = [seen EXCEPT ![c] = OptionalObjects]
  /\ Goto(c, "activate")
  /\ UNCHANGED <<storeVars, requestVars, holder, snap, snapVer, confVars,
                 liveVars, writeVars, lastOk, started, faults>>

(* Where a handler goes when its Apply returns: undo a failed create or    *)
(* update once, report everything else.                                    *)
\* Mutant: a failed Apply after a deletion is not reported.
ReturnedIgnoring(c, ok) ==
  IF second[c] THEN "failed"
  ELSE IF ok \/ kind[c] = "delete" THEN "ok"
  ELSE IF kind[c] \in Creations \cup {"update", "setting"} THEN "rollback"
  ELSE "failed"

Returned(c, ok) ==
  IF second[c] THEN "failed"
  ELSE IF ok THEN "ok"
  ELSE IF kind[c] \in Creations \cup {"update", "setting"} THEN "rollback"
  ELSE "failed"

\* Mutant: the error paths before the rename keep the mutex.
UnlockAfterRename(c) == holder' = IF pc[c] = "signal" THEN None ELSE holder

Unlock(c) == holder' = None

(* Apply returns; the mutex is unlocked on every path. *)
Finish(c, ok) ==
  /\ Goto(c, Returned(c, ok))
  /\ lastOk' = ok
  /\ Unlock(c)
  /\ snap' = [snap EXCEPT ![c] = NothingRead]
  /\ snapVer' = [snapVer EXCEPT ![c] = NoVersion]
  /\ seen' = [seen EXCEPT ![c] = {}]

(* The routing part of the rendered file; ListCertificates comes last. *)
Routing(c) == [id \in Ids |-> Rendered(id, snap[c][id], seen[c] \cup (refs \cap Certs))]

(* ValidateDomains and `openresty -t` accept the file: every enabled row   *)
(* has a target OpenResty can load and a known certificate with its files  *)
(* in place.                                                               *)
Activatable(c) ==
  \A id \in Ids :
    LET row == Routing(c)[id] IN
      row # None => /\ row.target \notin Rejected
                    /\ \A k \in CertsOf(row) : /\ k \in refs \cap material
                                               /\ row.domains \subseteq Covers[k]

(* The tested file is renamed onto nginx.conf. *)
Activate(c) ==
  /\ pc[c] = "activate"
  /\ Activatable(c)
  /\ conf' = Routing(c)
  /\ confVer' = snapVer[c]
  /\ Goto(c, "signal")
  /\ UNCHANGED <<storeVars, requestVars, applyVars, liveVars, writeVars, lastOk,
                 started, faults>>

(* Validation or the test refuses the rows: the temporary file goes and    *)
(* Apply returns the error.                                                *)
Refuse(c) ==
  /\ pc[c] = "activate"
  /\ \/ ~Activatable(c) /\ UNCHANGED faults
     \/ faults < MaxFaults /\ faults' = faults + 1
  /\ Finish(c, FALSE)
  /\ UNCHANGED <<storeVars, requestVars, confVars, liveVars, writeVars, started>>

(* `openresty -s reload`, then the readiness marker. *)
SignalReload(c) ==
  /\ pc[c] = "signal"
  /\ pending' = TRUE
  /\ Finish(c, TRUE)
  /\ UNCHANGED <<storeVars, requestVars, confVars, live, reloadLost, writeVars,
                 started, faults>>

(* The signal cannot be sent, or it was sent and the marker cannot be      *)
(* written; nginx.conf has been replaced either way.                       *)
SignalFails(c) ==
  /\ pc[c] = "signal"
  /\ faults < MaxFaults
  /\ faults' = faults + 1
  /\ pending' \in {pending, TRUE}
  /\ Finish(c, FALSE)
  /\ UNCHANGED <<storeVars, requestVars, confVars, live, reloadLost, writeVars,
                 started>>

-----------------------------------------------------------------------------
(* OpenResty's master process handles the signal: it loads nginx.conf as   *)
(* it is now, or keeps the old workers when a file it names is missing or  *)
(* something else fails.  Nobody is told.                                  *)
Loadable(c) == \A id \in Ids : c[id] # None => CertsOf(c[id]) \subseteq material

MasterReload ==
  /\ pending
  /\ pending' = FALSE
  /\ \/ Loadable(conf) /\ live' = conf /\ reloadLost' = FALSE /\ UNCHANGED faults
     \/ /\ \/ ~Loadable(conf) /\ UNCHANGED faults
           \/ faults < MaxFaults /\ faults' = faults + 1
        /\ reloadLost' = TRUE
        /\ UNCHANGED live
  /\ UNCHANGED <<storeVars, pc, requestVars, applyVars, confVars, writeVars,
                 lastOk, started>>

-----------------------------------------------------------------------------
Init ==
  /\ rows = InitRows
  /\ used = {id \in Ids : InitRows[id] # None}
  /\ refs = Refs
  /\ material = Certs
  /\ pc = [c \in Clients |-> "idle"]
  /\ kind = [c \in Clients |-> "none"]
  /\ tgt = [c \in Clients |-> None]
  /\ want = [c \in Clients |-> None]
  /\ old = [c \in Clients |-> None]
  /\ second = [c \in Clients |-> FALSE]
  /\ holder = None
  /\ snap = [c \in Clients |-> NothingRead]
  /\ seen = [c \in Clients |-> {}]
  /\ conf = [id \in Ids |-> Rendered(id, InitRows[id], Refs)]
  /\ pending = FALSE
  /\ live = conf
  /\ ver = NoVersion
  /\ snapVer = [c \in Clients |-> NoVersion]
  /\ confVer = NoVersion
  /\ mine = [c \in Clients |-> 0]
  /\ owner = [id \in Ids |-> None]
  /\ lastOk = TRUE
  /\ reloadLost = FALSE
  /\ started = 0
  /\ faults = 0

Arrive(c) ==
  \/ \E row \in InputRows : CreateHost(c, row)
  \/ \E row \in InputRows, k \in Creations \ {"createHost"} : CreateRoute(c, k, row)
  \/ \E row \in InputRows, id \in HostIds : UpdateHost(c, id, row)
  \/ \E row \in InputRows, id \in RouteIds : UpdateRoute(c, id, row)
  \/ \E id \in Ids : DeleteRow(c, id)
  \/ \E r \in Refs : DeleteRef(c, r)
  \/ \E k \in {"touch", "setting"} : Touch(c, k)

(* What a handler does on its own once it runs. *)
Proceed(c) ==
  \/ CheckDomains(c) \/ ReadOld(c) \/ CheckRefs(c)
  \/ Insert(c) \/ Update(c) \/ Reread(c) \/ Delete(c)
  \/ CheckRoutes(c) \/ DropRef(c) \/ EraseMaterial(c)
  \/ ReadRoutes(c) \/ ReadLists(c) \/ Activate(c) \/ Refuse(c)
  \/ SignalReload(c) \/ SignalFails(c)
  \/ Rollback(c) \/ Respond(c)

Next ==
  \/ \E c \in Clients : Arrive(c) \/ Proceed(c) \/ Acquire(c)
  \/ MasterReload

Spec == Init /\ [][Next]_vars

(* Goroutines are scheduled (a failure is never owed), a Go mutex starves   *)
(* nobody, and OpenResty handles its signals.                              *)
Fairness ==
  /\ \A c \in Clients : WF_vars(Proceed(c) /\ UNCHANGED faults) /\ SF_vars(Acquire(c))
  /\ WF_vars(MasterReload /\ UNCHANGED faults)

FairSpec == Spec /\ Fairness

-----------------------------------------------------------------------------
(* Properties. *)

(* Types.  Among them: ids are taken from their tables, requests carry     *)
(* whole rows, and an Apply learns of access lists and providers before it *)
(* lists the certificates.                                                 *)
TypeOK ==
  /\ rows \in [Ids -> MaybeRow]
  /\ used \subseteq Ids
  /\ refs \subseteq Refs
  /\ material \subseteq Certs
  /\ pc \in [Clients -> Labels]
  /\ kind \in [Clients -> Kinds]
  /\ tgt \in [Clients -> Ids \cup Refs \cup {None}]
  /\ want \in [Clients -> MaybeRow]
  /\ old \in [Clients -> MaybeRow]
  /\ second \in [Clients -> BOOLEAN]
  /\ holder \in Clients \cup {None}
  /\ snap \in [Clients -> [Ids -> MaybeRow]]
  /\ seen \in [Clients -> SUBSET (Lists \cup Providers)]
  /\ conf \in [Ids -> MaybeRow]
  /\ pending \in BOOLEAN
  /\ live \in [Ids -> MaybeRow]
  /\ ver \in [Ids -> Nat]
  /\ snapVer \in [Clients -> [Ids -> Nat]]
  /\ confVer \in [Ids -> Nat]
  /\ mine \in [Clients -> Nat]
  /\ owner \in [Ids -> Clients \cup {None}]
  /\ lastOk \in BOOLEAN
  /\ reloadLost \in BOOLEAN
  /\ started \in 0..MaxRequests
  /\ faults \in 0..MaxFaults

(* Foreign keys: whatever the interleaving of handlers, rollbacks and      *)
(* deletes, no stored row refers to an object that is gone.                *)
ForeignKeys == \A id \in Ids : rows[id] # None => rows[id].refs \subseteq refs

(* Activations never go backwards: however handlers overlap, nginx.conf is *)
(* never replaced by one rendered from an older version of some row, so a  *)
(* change that was activated is not silently undone by a slower Apply.     *)
ActivationMovesForward ==
  [][\A id \in Ids : confVer'[id] >= confVer[id]]_vars

(* What Manager.Apply promises: the rows of nginx.conf follow the rows of  *)
(* the tables one version after the other, each shown as it is once the    *)
(* file has caught up with it, and the workers take over whole files.      *)
Promise == INSTANCE Activation
  WITH stored <- [id \in Ids |-> Rendered(id, rows[id], refs)],
       version <- ver, active <- conf, activeVersion <- confVer

(* Handlers, mutex, snapshots, rollbacks and failures together implement   *)
(* that promise: every step is one of its steps or changes nothing of it.  *)
ActivationSpec == Promise!Spec

(* A handler that is about to answer with success has its own write, or a  *)
(* later one to the same row, in nginx.conf.                               *)
AcknowledgedIsActive ==
  \A c \in Clients :
    pc[c] = "ok" /\ tgt[c] \in Ids => confVer[tgt[c]] >= mine[c]

(* nginx.conf says of a row what the table says of it, as long as the row  *)
(* was not written after Apply read it: the tables are read one by one,    *)
(* but no mixture of versions inside one row is ever activated.            *)
ActivatedRowsAreCoherent ==
  \A id \in Ids : confVer[id] = ver[id] => conf[id] = Rendered(id, rows[id], refs)

(* Handlers that are done, a last Apply that succeeded, a reload that was  *)
(* taken: then OpenResty routes exactly what the tables hold.  Excepted    *)
(* are rows whose certificate was deleted under them (owner None), which   *)
(* nobody activates.                                                       *)
Settled ==
  /\ \A c \in Clients : pc[c] \in {"idle", "ok", "failed"}
  /\ lastOk
  /\ ~pending
  /\ ~reloadLost

SettledAgreement ==
  Settled => \A id \in Ids :
    \/ live[id] = Rendered(id, rows[id], refs)
    \/ owner[id] = None /\ ver[id] > confVer[id]

(* A deleted row stays deleted: no rollback of an overlapping update brings *)
(* it back, and its id is never handed out again.                          *)
DeletedStaysDeleted ==
  [][\A id \in used : rows[id] = None => rows'[id] = None]_vars

(* A handler running alone that reports a failed create or update leaves   *)
(* the row as it found it, and nginx.conf with it if its second Apply      *)
(* went through.                                                           *)
FailureLeavesNoTrace ==
  \A c \in Clients :
    pc[c] = "failed" /\ second[c] /\ tgt[c] \in Ids =>
      /\ rows[tgt[c]] = old[c]
      /\ lastOk => conf[tgt[c]] = Rendered(tgt[c], old[c], refs)

(* "A domain or IP can only belong to one proxy host." *)
DomainsUnique ==
  \A i, j \in HostIds :
    i # j /\ rows[i] # None /\ rows[j] # None
      => rows[i].domains \cap rows[j].domains = {}

(* Every request is answered: nothing blocks for ever on Manager.mu.       *)
EveryRequestAnswered == \A c \in Clients : pc[c] # "idle" ~> pc[c] = "idle"
=============================================================================
