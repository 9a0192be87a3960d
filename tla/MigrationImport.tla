-------------------------- MODULE MigrationImport --------------------------
(***************************************************************************)
(* The import of another proxy's configuration: migrationImport in         *)
(* internal/api/server.go and the preparation of its batch in              *)
(* internal/migration/npm.go.                                              *)
(*                                                                         *)
(* An import writes certificates, access lists, routes and hosts row by    *)
(* row, activates them with one Apply and, when a step fails, takes back   *)
(* what it has recorded, ignoring further errors.  Nothing of it survives  *)
(* the process: a crash leaves the rows written so far.  Meanwhile other   *)
(* handlers use the tables: an administrator gives an imported list or     *)
(* certificate to a host of his own, deletes an imported list, and every   *)
(* handler and timer calls Apply.                                          *)
(*                                                                         *)
(* Abstractions.  Redirects, 404 hosts and streams are one kind of route.  *)
(* Apply is one step here (ControlPlane has its parts), as are the issue,  *)
(* the import and the deletion of a certificate (Certificates has theirs). *)
(* Parsing the other proxy's answers is reduced to which of its objects    *)
(* can be imported.  An id is the number of the import and the object it   *)
(* was made for: ids are never used twice.                                 *)
(***************************************************************************)
EXTENDS Naturals, FiniteSets

CONSTANTS
  SourceCerts,   \* certificates of the other proxy
  Reissued,      \* those it does not give away: issued anew
  SourceLists,   \* its access lists
  WithLogin,     \* those with Basic Auth
  SourceRoutes,  \* its redirects, 404 hosts and streams
  SourceHosts,   \* its proxy hosts
  CertOf,        \* CertOf[r]: the certificate of a route or host, or None
  ListOf,        \* ListOf[h]: the access list of a host, or None
  Doubtful,      \* objects that may turn out not to be importable
  Rejectable,    \* hosts and routes `openresty -t` may reject
  Mine,          \* a proxy host that was there before
  None,
  MaxImports,    \* bound: imports started
  MaxFaults      \* bound: failures that no input causes

Source == UNION {SourceCerts, SourceLists, SourceRoutes, SourceHosts}
Ids == (1..MaxImports) \X Source
RouteIds == {i \in Ids : i[2] \in SourceRoutes \cup SourceHosts} \cup {Mine}
Refs == Ids \cup {None}

Route == [cert : Refs, list : Refs, forced : BOOLEAN]
Served == [cert : Refs, guarded : BOOLEAN]

ASSUME SourceAssumption ==
  /\ Reissued \subseteq SourceCerts
  /\ WithLogin \subseteq SourceLists
  /\ CertOf \in [SourceRoutes \cup SourceHosts -> SourceCerts \cup {None}]
  /\ ListOf \in [SourceHosts -> SourceLists \cup {None}]
  /\ Doubtful \subseteq Source
  /\ Rejectable \subseteq SourceRoutes \cup SourceHosts
  /\ MaxImports \in Nat /\ MaxFaults \in Nat
  /\ SourceRoutes \cap SourceHosts = {}
  /\ None \notin UNION {Source, Ids, Route, Served} /\ Mine \notin Ids

VARIABLES
  \* tables and files
  certs,      \* rows of certificates
  material,   \* certificates whose pair is on disk
  lists,      \* rows of access_lists
  logins,     \* those whose row names a credentials file
  files,      \* credentials files
  routes,     \* routes[id]: hosts and the other routes
  conf,       \* conf[id]: what nginx.conf serves
  \* the import
  stage,      \* where the handler is
  attempt,    \* number of the import
  batch,      \* hosts selected
  todo,       \* objects of this stage still to be written or taken back
  current,    \* the list whose credentials are copied
  failed,     \* source certificates that could not be issued
  made,       \* what the handler has recorded for its rollback
  outcome,    \* "imported" or "failed", of the last import
  \* the world
  unusable,   \* no PEM and no ACME data, no credentials mounted, invalid, domain taken
  rejected,   \* hosts and routes `openresty -t` rejects
  faults,     \* failures left
  damaged     \* imports that crashed or whose rollback met an error, and where

tables == <<certs, material, lists, logins, files, routes>>
local == <<batch, todo, current, failed, made>>
world == <<unusable, rejected, faults, damaged>>
vars == <<tables, conf, stage, attempt, local, outcome, world>>

NoRecord == [certs |-> {}, lists |-> {}, files |-> {}, routes |-> {}, hosts |-> {}]

Id(x) == <<attempt, x>>

----------------------------------------------------------------------------
\* Apply

Guards(list) == list \in lists /\ (list[2] \in WithLogin => list \in logins)

Rendered ==
  [id \in RouteIds |->
     IF routes[id] = None THEN None
     ELSE [cert |-> routes[id].cert,
           guarded |-> routes[id].list # None /\ Guards(routes[id].list)]]

Accepted == \A id \in RouteIds \ {Mine} : routes[id] # None => id[2] \notin rejected

Fault == faults > 0 /\ faults' = faults - 1

ApplyOk ==
  /\ Accepted
  /\ conf' = Rendered
  /\ UNCHANGED faults

\* A configuration that is rejected is never put in place; any other failure
\* comes before or after nginx.conf is replaced.
ApplyFails ==
  \/ ~Accepted /\ UNCHANGED <<faults, conf>>
  \/ Accepted /\ Fault /\ conf' \in {conf, Rendered}

\* Deleting a row sets the references to it to NULL.
Unreferenced(gone) ==
  [id \in RouteIds |->
     IF routes[id] = None THEN None
     ELSE [routes[id] EXCEPT
             !.cert = IF routes[id].cert \in gone THEN None ELSE routes[id].cert,
             !.list = IF routes[id].list \in gone THEN None ELSE routes[id].list]]

----------------------------------------------------------------------------
\* Preparation.  A batch exists only when every object of the source can be
\* imported; otherwise nothing is written.

Begin(selected) ==
  /\ stage = "idle"
  /\ attempt < MaxImports
  /\ attempt' = attempt + 1
  /\ stage' = "prepare"
  /\ batch' = selected
  /\ todo' = {}
  /\ current' = None
  /\ failed' = {}
  /\ made' = NoRecord
  /\ UNCHANGED <<tables, conf, outcome, world>>

\* A certificate needs its pair or the data to issue it anew, a list its
\* mounted credentials, the rest valid values and what it refers to.
CertImportable(c) == c \notin unusable

ListImportable(l) == l \notin unusable

RouteImportable(r) ==
  /\ r \notin unusable
  /\ CertOf[r] = None \/ CertImportable(CertOf[r])

HostImportable(h) ==
  /\ RouteImportable(h)
  /\ ListOf[h] = None \/ ListImportable(ListOf[h])

SourceImportable ==
  /\ \A c \in SourceCerts : CertImportable(c)
  /\ \A l \in SourceLists : ListImportable(l)
  /\ \A r \in SourceRoutes : RouteImportable(r)
  /\ \A h \in SourceHosts : HostImportable(h)

Prepare ==
  /\ stage = "prepare"
  /\ SourceImportable
  /\ stage' = "certs"
  /\ todo' = SourceCerts
  /\ UNCHANGED <<tables, conf, attempt, batch, current, failed, made, outcome, world>>

PrepareRefuses ==
  /\ stage = "prepare"
  /\ ~SourceImportable
  /\ stage' = "idle"
  /\ outcome' = "failed"
  /\ UNCHANGED <<tables, conf, attempt, local, world>>

\* Certificates first: a certificate that cannot be issued costs the routes
\* that use it their TLS, one that cannot be imported ends the import.
RecordCert(c) == made' = [made EXCEPT !.certs = @ \cup {Id(c)}]

IssueSucceeds(c) ==
  /\ stage = "certs" /\ c \in todo
  /\ certs' = certs \cup {Id(c)}
  /\ material' = material \cup {Id(c)}
  /\ ApplyOk
  /\ todo' = todo \ {c}
  /\ RecordCert(c)
  /\ UNCHANGED <<lists, logins, files, routes, stage, attempt, batch, current, failed,
                 outcome, unusable, rejected, damaged>>

\* The ACME order fails and the row stays, or the row is there with its pair
\* and only the activation fails.
IssueFails(c) ==
  /\ stage = "certs" /\ c \in todo \cap Reissued
  /\ certs' = certs \cup {Id(c)}
  /\ \/ Fault /\ UNCHANGED <<material, conf>>
     \/ material' = material \cup {Id(c)} /\ ApplyFails
  /\ todo' = todo \ {c}
  /\ failed' = failed \cup {c}
  /\ RecordCert(c)
  /\ UNCHANGED <<lists, logins, files, routes, stage, attempt, batch, current, outcome,
                 unusable, rejected, damaged>>

\* A pair that cannot be stored leaves no row, one that cannot be activated
\* leaves row and pair.
ImportCertFails(c) ==
  /\ stage = "certs" /\ c \in todo \ Reissued
  /\ \/ Fault /\ UNCHANGED <<certs, material, conf, made>>
     \/ /\ certs' = certs \cup {Id(c)}
        /\ material' = material \cup {Id(c)}
        /\ ApplyFails
        /\ RecordCert(c)
  /\ stage' = "undoHosts"
  /\ UNCHANGED <<lists, logins, files, routes, attempt, batch, todo, current, failed,
                 outcome, unusable, rejected, damaged>>

CertsDone ==
  /\ stage = "certs" /\ todo = {}
  /\ stage' = "lists"
  /\ todo' = SourceLists
  /\ UNCHANGED <<tables, conf, attempt, batch, current, failed, made, outcome, world>>

----------------------------------------------------------------------------
\* Access lists: a row without credentials, their file, the row again.

CreateList(l) ==
  /\ stage = "lists" /\ l \in todo
  /\ lists' = lists \cup {Id(l)}
  /\ made' = [made EXCEPT !.lists = @ \cup {Id(l)}]
  /\ todo' = todo \ {l}
  /\ IF l \in WithLogin
     THEN stage' = "copy" /\ current' = l
     ELSE UNCHANGED <<stage, current>>
  /\ UNCHANGED <<certs, material, logins, files, routes, conf, attempt, batch, failed,
                 outcome, world>>

CopyFile ==
  /\ stage = "copy"
  /\ files' = files \cup {Id(current)}
  /\ made' = [made EXCEPT !.files = @ \cup {Id(current)}]
  /\ stage' = "finish"
  /\ UNCHANGED <<certs, material, lists, logins, routes, conf, attempt, batch, todo,
                 current, failed, outcome, world>>

\* Mutant: the list is kept without its credentials.
CopyIsOptional ==
  /\ stage = "copy"
  /\ Fault
  /\ stage' = "lists"
  /\ UNCHANGED <<tables, conf, attempt, local, outcome, unusable, rejected, damaged>>

CopyFails ==
  /\ stage = "copy"
  /\ Fault
  /\ stage' = "undoHosts"
  /\ UNCHANGED <<tables, conf, attempt, local, outcome, unusable, rejected, damaged>>

\* UpdateAccessList fails when an administrator has deleted the list.
FinishList ==
  /\ stage = "finish"
  /\ IF Id(current) \in lists
     THEN logins' = logins \cup {Id(current)} /\ stage' = "lists"
     ELSE UNCHANGED logins /\ stage' = "undoHosts"
  /\ UNCHANGED <<certs, material, lists, files, routes, conf, attempt, local, outcome,
                 world>>

ListsDone ==
  /\ stage = "lists" /\ todo = {}
  /\ stage' = "routes"
  /\ todo' = SourceRoutes
  /\ UNCHANGED <<tables, conf, attempt, batch, current, failed, made, outcome, world>>

----------------------------------------------------------------------------
\* Routes and hosts.  mapCert and disableTLS: no certificate, no TLS.

MapCert(x) ==
  IF CertOf[x] = None \/ CertOf[x] \in failed THEN None ELSE Id(CertOf[x])

\* Mutant: what depends on a failed certificate is imported with TLS forced.
InputStillForced(x) ==
  [cert |-> MapCert(x),
   list |-> IF x \in SourceHosts /\ ListOf[x] # None THEN Id(ListOf[x]) ELSE None,
   forced |-> CertOf[x] # None]

Input(x) ==
  [cert |-> MapCert(x),
   list |-> IF x \in SourceHosts /\ ListOf[x] # None THEN Id(ListOf[x]) ELSE None,
   forced |-> CertOf[x] # None /\ CertOf[x] \notin failed]

\* Foreign keys are on.
Insertable(x) ==
  /\ MapCert(x) # None => MapCert(x) \in certs
  /\ x \in SourceHosts /\ ListOf[x] # None => Id(ListOf[x]) \in lists

CreateRoute(r) ==
  /\ stage = "routes" /\ r \in todo
  /\ IF Insertable(r)
     THEN /\ routes' = [routes EXCEPT ![Id(r)] = Input(r)]
          /\ made' = [made EXCEPT !.routes = @ \cup {Id(r)}]
          /\ todo' = todo \ {r}
          /\ UNCHANGED stage
     ELSE /\ stage' = "undoHosts"
          /\ UNCHANGED <<routes, made, todo>>
  /\ UNCHANGED <<certs, material, lists, logins, files, conf, attempt, batch, current,
                 failed, outcome, world>>

\* CreateHosts is one transaction.
CreateHosts ==
  /\ stage = "routes" /\ todo = {}
  /\ IF \A h \in batch : Insertable(h)
     THEN /\ routes' = [id \in RouteIds |->
                          IF id # Mine /\ id[1] = attempt /\ id[2] \in batch
                          THEN Input(id[2]) ELSE routes[id]]
          /\ made' = [made EXCEPT !.hosts = {Id(h) : h \in batch}]
          /\ stage' = "apply"
     ELSE stage' = "undoHosts" /\ UNCHANGED <<routes, made>>
  /\ UNCHANGED <<certs, material, lists, logins, files, conf, attempt, batch, todo,
                 current, failed, outcome, world>>

Activate ==
  /\ stage = "apply"
  /\ ApplyOk
  /\ stage' = "idle"
  /\ outcome' = "imported"
  /\ UNCHANGED <<tables, attempt, local, unusable, rejected, damaged>>

ActivateFails ==
  /\ stage = "apply"
  /\ ApplyFails
  /\ stage' = "undoHosts"
  /\ UNCHANGED <<tables, attempt, local, outcome, unusable, rejected, damaged>>

----------------------------------------------------------------------------
\* Rollback, hosts first.  Its errors are ignored.

Damage(what) == Fault /\ damaged' = damaged \cup {<<attempt, what>>}

UndoHosts ==
  /\ stage = "undoHosts"
  /\ \/ /\ routes' = [id \in RouteIds |-> IF id \in made.hosts THEN None ELSE routes[id]]
        /\ UNCHANGED <<faults, damaged>>
     \/ made.hosts # {} /\ Damage("hosts") /\ UNCHANGED routes
  /\ stage' = "undoRoutes"
  /\ todo' = made.routes
  /\ UNCHANGED <<certs, material, lists, logins, files, conf, attempt, batch, current,
                 failed, made, outcome, unusable, rejected>>

UndoRoute(id) ==
  /\ stage = "undoRoutes" /\ id \in todo
  /\ \/ routes' = [routes EXCEPT ![id] = None] /\ UNCHANGED <<faults, damaged>>
     \/ Damage("rows") /\ UNCHANGED routes
  /\ todo' = todo \ {id}
  /\ UNCHANGED <<certs, material, lists, logins, files, conf, stage, attempt, batch,
                 current, failed, made, outcome, unusable, rejected>>

UndoRoutesDone ==
  /\ stage = "undoRoutes" /\ todo = {}
  /\ stage' = "undoLists"
  /\ todo' = made.lists
  /\ UNCHANGED <<tables, conf, attempt, batch, current, failed, made, outcome, world>>

UndoList(id) ==
  /\ stage = "undoLists" /\ id \in todo
  /\ \/ /\ lists' = lists \ {id}
        /\ logins' = logins \ {id}
        /\ routes' = Unreferenced({id})
        /\ UNCHANGED <<faults, damaged>>
     \/ Damage("rows") /\ UNCHANGED <<lists, logins, routes>>
  /\ todo' = todo \ {id}
  /\ UNCHANGED <<certs, material, files, conf, stage, attempt, batch, current, failed,
                 made, outcome, unusable, rejected>>

\* Mutant: the credentials stay.
UndoListsKeepsFiles ==
  /\ stage = "undoLists" /\ todo = {}
  /\ stage' = "undoCerts"
  /\ todo' = made.certs
  /\ UNCHANGED <<tables, conf, attempt, batch, current, failed, made, outcome, world>>

UndoListsDone ==
  /\ stage = "undoLists" /\ todo = {}
  /\ files' = files \ made.files
  /\ stage' = "undoCerts"
  /\ todo' = made.certs
  /\ UNCHANGED <<certs, material, lists, logins, routes, conf, attempt, batch, current,
                 failed, made, outcome, world>>

UndoCert(id) ==
  /\ stage = "undoCerts" /\ id \in todo
  /\ \/ /\ certs' = certs \ {id}
        /\ material' = material \ {id}
        /\ routes' = Unreferenced({id})
        /\ UNCHANGED <<faults, damaged>>
     \/ Damage("rows") /\ UNCHANGED <<certs, material, routes>>
  /\ todo' = todo \ {id}
  /\ UNCHANGED <<lists, logins, files, conf, stage, attempt, batch, current, failed, made,
                 outcome, unusable, rejected>>

\* Mutant: the rollback insists on its activation.
UndoApplyInsists ==
  /\ stage = "undoCerts" /\ todo = {}
  /\ ApplyOk
  /\ stage' = "idle"
  /\ outcome' = "failed"
  /\ UNCHANGED <<tables, attempt, local, unusable, rejected, damaged>>

UndoApply ==
  /\ stage = "undoCerts" /\ todo = {}
  /\ \/ ApplyOk /\ UNCHANGED damaged
     \/ ApplyFails /\ damaged' = damaged \cup {<<attempt, "apply">>}
  /\ stage' = "idle"
  /\ outcome' = "failed"
  /\ UNCHANGED <<tables, attempt, local, unusable, rejected>>

----------------------------------------------------------------------------
\* Everybody else

OtherApply ==
  /\ ApplyOk
  /\ UNCHANGED <<tables, stage, attempt, local, outcome, unusable, rejected, damaged>>

\* An administrator gives his own host an imported list or certificate.
AssignMine(id) ==
  /\ id \in lists \cup certs
  /\ routes' = [routes EXCEPT ![Mine] =
                  IF id \in lists THEN [@ EXCEPT !.list = id] ELSE [@ EXCEPT !.cert = id]]
  /\ UNCHANGED <<certs, material, lists, logins, files, conf, stage, attempt, local,
                 outcome, world>>

\* accessListDelete refuses while a host uses the list; the file stays.
DeleteList(id) ==
  /\ id \in lists
  /\ \A r \in RouteIds : routes[r] # None => routes[r].list # id
  /\ lists' = lists \ {id}
  /\ logins' = logins \ {id}
  /\ UNCHANGED <<certs, material, files, routes, conf, stage, attempt, local, outcome,
                 world>>

Crash ==
  /\ stage # "idle"
  /\ Damage("crash")
  /\ stage' = "idle"
  /\ UNCHANGED <<tables, conf, attempt, local, outcome, unusable, rejected>>

----------------------------------------------------------------------------
Init ==
  /\ certs = {} /\ material = {} /\ lists = {} /\ logins = {} /\ files = {}
  /\ routes = [id \in RouteIds |->
                 IF id = Mine THEN [cert |-> None, list |-> None, forced |-> FALSE]
                 ELSE None]
  /\ conf = Rendered
  /\ stage = "idle" /\ attempt = 0 /\ outcome = None
  /\ batch = {} /\ todo = {} /\ current = None /\ failed = {} /\ made = NoRecord
  /\ unusable \in SUBSET Doubtful
  /\ rejected \in SUBSET Rejectable
  /\ faults = MaxFaults
  /\ damaged = {}

Import ==
  \/ Prepare \/ PrepareRefuses
  \/ \E c \in SourceCerts : IssueSucceeds(c) \/ IssueFails(c) \/ ImportCertFails(c)
  \/ CertsDone
  \/ \E l \in SourceLists : CreateList(l)
  \/ CopyFile \/ CopyFails \/ FinishList \/ ListsDone
  \/ \E r \in SourceRoutes : CreateRoute(r)
  \/ CreateHosts \/ Activate \/ ActivateFails

Rollback ==
  \/ UndoHosts
  \/ \E id \in Ids : UndoRoute(id) \/ UndoList(id) \/ UndoCert(id)
  \/ UndoRoutesDone \/ UndoListsDone \/ UndoApply

Others ==
  \/ OtherApply
  \/ \E id \in Ids : AssignMine(id) \/ DeleteList(id)

Next ==
  \/ \E selected \in SUBSET SourceHosts : Begin(selected)
  \/ Import \/ Rollback \/ Others \/ Crash

Fairness == WF_vars(Import /\ UNCHANGED faults) /\ WF_vars(Rollback /\ UNCHANGED faults)

Spec == Init /\ [][Next]_vars /\ Fairness

----------------------------------------------------------------------------
\* Properties

Of(n) == {id \in Ids : id[1] = n}

\* An import that answered with an error has left nothing: no row, no file
\* and nothing in nginx.conf, whatever others did meanwhile, unless an error
\* met the rollback itself.
FailedImportLeavesNothing ==
  stage = "idle" /\ outcome = "failed" /\ (\A d \in damaged : d[1] # attempt) =>
    /\ Of(attempt) \cap UNION {certs, material, lists, logins, files} = {}
    /\ \A id \in RouteIds \cap Of(attempt) : routes[id] = None /\ conf[id] = None
    /\ \A id \in RouteIds :
         routes[id] # None => {routes[id].cert, routes[id].list} \cap Of(attempt) = {}

\* A successful import is whole: every object of the source has its row,
\* every reference leads to the imported object, a host whose certificate
\* could not be issued is served without TLS instead of redirecting to it,
\* and nginx.conf serves all of it.
SuccessfulImportIsWhole ==
  [][Activate =>
       \A x \in SourceRoutes \cup batch :
         LET row == routes'[Id(x)]
             unissued == CertOf[x] # None /\ CertOf[x] \in failed
         IN /\ row # None /\ conf'[Id(x)] # None
            /\ CertOf[x] # None /\ ~unissued =>
                 row.cert = Id(CertOf[x]) /\ row.cert \in certs \cap material
            /\ unissued => row.cert = None /\ ~row.forced
            /\ x \in SourceHosts /\ ListOf[x] # None => row.list = Id(ListOf[x])]_vars

\* "Do not silently create an access list that would lose Basic Auth
\* protection": a host that the other proxy protected is never served
\* without its list, not in the middle of an import, after a crash, nor
\* while it is taken back, whoever calls Apply.  The exception: deleting the
\* hosts fails and the rollback goes on to delete their lists.
ImportedHostsAreGuarded ==
  \A id \in RouteIds \ {Mine} :
    /\ conf[id] # None /\ id[2] \in SourceHosts
    /\ ListOf[id[2]] # None
    /\ <<id[1], "hosts">> \notin damaged
    => conf[id].guarded

\* The lock is given back: every import ends, whatever fails.
ImportEnds == stage # "idle" ~> stage = "idle"
=============================================================================
