# ZentProxy in TLA+

ZentProxy is a Go control plane around OpenResty: an HTTP API and web interface edit SQLite
tables, `proxy.Manager` renders them into `nginx.conf`, tests the file and reloads OpenResty;
a tailer reads OpenResty's request log into the database. This directory models the parts whose
correctness depends on the order of steps: overlapping requests, failures in the middle of a
handler, crashes, asynchronous reloads. Every module names the files it was written from, and
`PROJECT.json` gives the lines of every definition.

## Inventory

| Part | State | Operations | Interacts with |
|---|---|---|---|
| HTTP handlers, `internal/api/server.go` | per request: what it wants, what it read | create, update, delete of hosts, redirects, 404 hosts, streams; deletion of certificates, access lists, providers; settings; migration | Store, `Manager.Apply`, certificates, providers |
| Store, `internal/db/store.go` | SQLite tables, foreign keys with `ON DELETE SET NULL` | one statement per call, transactions for batches | everybody |
| Proxy manager, `internal/proxy/manager.go` | `Manager.mu`, `nginx.conf`, readiness file | `Apply`, `ApplyStartup`, `ReopenLogs` | Store, OpenResty through files, `-t`, signals |
| OpenResty (external) | loaded configuration, log buffers, open log files | start, reload, reopen, flush | `nginx.conf`, pid file, analytics spool |
| Analytics tailer, `internal/analytics/tailer.go` | position, batch; checkpoint in the database | read, commit, rotate, remove | spool files, Store, `ReopenLogs` |
| Certificates, `internal/certificates/manager.go` | rows, files below `/data/certs`, `mu` | issue, import, renew, delete | Store, `Apply` |
| Providers, `internal/providers/manager.go` | address ranges, schedule, `mu` | refresh | Store, `Apply` |
| ZentLoop, `internal/zentloop` | last health result | check, proxying of flagged requests | Store |
| Start-up, `cmd/zentproxy/main.go`, `docker/entrypoint.sh` | readiness and pid files, two processes | boot, launch, supervision | `ApplyStartup`, OpenResty |
| Authentication, sessions, API keys | rows with expiry | log-in, revocation | Store |
| Migration, `internal/migration`, handlers | a batch and its undo list | analyse, import, roll back | Store, certificates, `Apply` |
| Access-list credentials | htpasswd files | add and remove users | Store, `Apply` |
| Release checker, configuration, web assets, SQLite driver | caches, constants | | |

Hard behaviours, and what makes each part correct:

* **Handlers.** They have no lock. A handler checks, writes, activates and, when the activation
  fails, writes the old row back and activates again. Correct means: acknowledged changes are
  active, failures leave no trace, what is routed agrees with the tables once things settle, checks
  made before a write still hold after it.
* **Apply.** It is the one critical section, but reads seven tables in separate statements while
  others write. Correct means: it never activates a mixture, never goes backwards, always unlocks.
* **Reload.** It is a signal; nobody learns whether OpenResty took it.
* **Tailer.** File, position and rows change in separate steps, and OpenResty writes to whatever
  inode it has open. Correct means: every request is stored once, in order, or its loss is one of
  the known ones; without crashes the tailer never gets stuck.
* **Certificates.** Orders take minutes under the manager's lock, edits of the name take no lock,
  and rows, files and `nginx.conf` change in separate steps. Correct means: what a row or
  `nginx.conf` names is complete on disk at every moment (of `nginx.conf` unless an activation is
  owed and the row is gone), renewals only move forward, what was deleted stays deleted, what is due
  is renewed.
* **Providers.** Two lists are fetched one after the other, by schedule and on demand. Correct
  means: never half of the ranges, never older ones over newer ones, what is published is activated.
* **Access lists.** A login is a line of a file and two columns of a row, changed one after the
  other without a lock. Correct means: a host that asks for a login has the file to look it up, and
  a request that nobody disturbs does what it says.
* **ZentLoop.** Checks of up to four seconds overlap and the last to end wins; saves read, write,
  activate and put back without a lock. Correct means: once things stay as they are, the bridge
  forwards exactly when the service works; an undisturbed save is one step.
* **Migration.** Dozens of rows, files and certificates are written one by one while others use the
  tables, and taken back when a step fails. Correct means: a success is whole, a failure leaves
  nothing, and a host the other proxy protected is at no moment served without protection.
* **Rendering.** Access lists, ZentLoop rules, custom locations, filters and default servers end in
  one configuration in which nginx decides what wins. Correct means: a list guards everything behind
  its host, a flagged request never reaches the backend, only strangers are caught, pooled
  connections are shared only where that is safe, and capacities fit the file limit.
* **Start-up.** A stream, or advanced configuration, whose literal name does not resolve makes OpenResty
  refuse everything (the backends of hosts are looked up while it runs). Correct means: only tested
  configurations are started, isolation touches only the hosts concerned, the container comes up.

The full list of hazards, with lines and with the properties that cover each, is in `PROJECT.json`.

## Modules

| Module | Content |
|---|---|
| `Activation` | abstract specification: what `Apply` promises to everyone who edits the tables |
| `ControlPlane` | handlers, tables, `Apply`, reload; properties; implements `Activation` |
| `ControlPlaneInvariant` | the inductive invariants `Inv`, `SettlingInv` and `SerialInv` |
| `ControlPlaneProof` | proofs: foreign keys, acknowledgement, coherence, order; agreement of tables and OpenResty, the refinement of `Activation`; handlers that run alone |
| `Routing` | what `render` writes and what OpenResty answers with it |
| `RoutingProof` | proofs: access lists, ZentLoop rules, default servers, connection pools and capacities for any tables and requests |
| `AnalyticsSpool` | OpenResty's log writing, the spool files, the tailer, crashes |
| `AnalyticsSpoolProof` | proofs: nothing is lost but for the named reasons, requests are stored once and in order, positions fit their file |
| `Certificates` | the certificate manager, its handlers and its renewal loop |
| `CertificatesProof` | proofs: material on disk, deletion, renewals move forward |
| `ProviderRefresh` | the refresh of trusted proxy providers, edits of manual ones |
| `ProviderRefreshProof` | proofs: ranges are whole and only move forward |
| `AccessLists` | logins in htpasswd files and rows, edits and uses of a list |
| `AccessListsProof` | proofs: a guarded host has its file, undisturbed requests are atomic |
| `ZentLoopMonitor` | saves and checks of the ZentLoop integration, the bridge |
| `MigrationImport` | the import of another proxy's configuration and its rollback |
| `MigrationImportProof` | proofs: a failed import leaves nothing, a successful one is whole, protected hosts stay protected |
| `Startup` | entrypoint, `ApplyStartup`, requests during and after the start, DNS |
| `StartupAndZentLoopProof` | proofs: only tested files are served, isolation is exact; ZentLoop saves are atomic |
| `MCControlPlane`, `MCRouting`, `MCAccessLists`, `MCZentLoopMonitor`, `MCMigrationImport` | tables, inputs and symmetry for TLC; the other runs use their modules directly |

How they fit together. `ControlPlane` has the phases of `Apply` and treats what changed before as
given; `Certificates`, `ProviderRefresh`, `AccessLists`, `ZentLoopMonitor` and `MigrationImport` have
the steps before and after one `Apply`, which is a single step there and may fail before or after
`nginx.conf` has been replaced. `Activation` is what justifies that step: per row, `nginx.conf`
trails the tables, never goes back and is taken over as a whole.
`Startup` has the `Apply` of the boot and what may go wrong with it, `Routing` the content of the
configuration that the others only name.

Small definitions marked *Mutant* are deliberate mistakes: each property of a passing run has one
that breaks it (`PROJECT.json`, `mutants`), so that a property which cannot fail is noticed. They
are used by no specification.

### ControlPlane

State: `rows` are the four tables of routing rows, `refs` the rows they refer to, `material` the
certificate files; `pc[c]` is where the goroutine of request `c` stands; `snap`, `seen` what its
`Apply` has read; `conf` is `nginx.conf`, `live` what OpenResty routes. Versions (`ver`, `snapVer`,
`confVer`, `mine`) and `owner` are history: they name which write of a row is meant.

Actions: `CreateHost` ... `Touch` are arrivals with the checks made before the first statement
that others can see; then one action per SQL statement (`CheckDomains`, `ReadOld`, `Insert`,
`Update`, `Reread`, `Delete`, `DropRef`, ...), per phase of `Apply` (`Acquire`, `ReadRoutes`,
`ReadLists`, `Activate` or `Refuse`, `SignalReload` or `SignalFails`), `Rollback`, `Respond`, and
OpenResty's `MasterReload`.

Abstractions: a row keeps its domains, a target (accepted or rejected by `openresty -t`), its
references and whether it is enabled. Redirects, 404 hosts and streams are read in one step.
Handlers that only activate (refreshed providers, credentials, renewed certificates) are one kind of
request, `touch` (`Certificates`, `ProviderRefresh` and `AccessLists` have what they do
before); those that restore a setting after a failed activation (`zentLoopSet`, `accessListUpdate`)
are the kind `setting`. SQL errors other than a missing row and a foreign key
are not modelled, nor are restarts (see `Startup`).

`Promise` is `Activation` with `stored` and `active` as what tables and `nginx.conf` say of each row,
and the versions above; `ActivationSpec` says that `ControlPlane` implements it.

### Routing

`tables` is a set of tables, `conf` what `RenderedConf` makes of it, `exchange` a request with the
server block, location and answer it gets. `Apply`, `Refuse` and `Serve` are the steps; the operators
between them follow `render`: the blocks of the file in their order (`Places`, `Servers`), effective
certificates and redirects to HTTPS (`HasTls`, `RedirectsToTls`), access lists without their malformed
entries and closed when they are whitelists (`Guard`), the ZentLoop rules that apply to a host, custom locations and the default one, the exploit filter, the default servers with their maps
of known names and roots, upstream pools, worker and keepalive capacities, and what `openresty -t`
refuses. How nginx picks a server by name, a location by path, runs server-level rewrites before and
access checks after, is external.

Abstractions: names, paths and addresses are members of small sets with the relations nginx
computes from their text; headers other than the client address, caching, HSTS, HTTP/2, log formats,
streams and the text of advanced configuration (except whether it brings its own `location /`) are
left out.

### AnalyticsSpool

A file is an inode that keeps its lines and readers when its name changes; `path` and `processing`
are the two names. OpenResty (external) is one worker with a buffer, a `sink` inode, a flush whose
last byte may come late (`torn`), and signals handled some time later. The tailer follows
`Tailer.run` loop pass by loop pass; `RemoveProcessing` and `Reset`, and `Rotate`, `ReopenLogs` and
`Create`, are separate because a crash may fall between them. `Crash` restarts the container, with
or without its temporary directory. Offsets count lines; a line cut short by a crash is `Junk`.

History variables name what a property excepts: `stale` (a position of one file was used in
another), `slipped` (the checkpoint outlived its file through a failed reset, a death before the reset,
or a spool created too early), `cut` (a crash between the halves of a rotation), `lost` (lines that died with the
container or were written to a rotated file after its end was found). The exceptions are not
assumed away: the actions that set them are the code's, and the comments there say when.

### Startup

`conf`, `candidate` and `live` are configurations: the backend names of each host that has a server
block, the isolated hosts, the literal names and OpenResty's verdict on the rest. `Loads` is
`openresty -t` under the present DNS: only the names that streams and advanced configuration have
literally must resolve, because a host's backend is rendered `server name:port resolve;`.
`TryIsolates` is one round of the isolation loop, `Publish` the readiness file, `Launch`
entrypoint.sh's start of OpenResty, `WritePid` the moment from which `Apply` can see it. Requests
run one at a time here.

### Certificates

`rows` is the table, `disk[id]` the complete version directories of a certificate, `conf` the pair
`nginx.conf` names for each certificate in use; a pair is its number in the order of acquisition.
`Lock` ... `Release` is the critical section of `Manager.mu`: `Create`, `Read`, `Order` (lego),
`Stage` (a directory of its own, synced before it is named), `Write`, `Apply`, `DropRow`, `Erase`,
`ListRows` and `Repair`, with an action for every error path (`OrderFails`, `StageFails`,
`WriteFails`, `StoreError`, `UndoCreate`). `ReadMetadata` and `EditMetadata` are the handler that
does without the lock. `RequestRoute`, `Attach`, `Detach` and `Activate` are a route that takes a
certificate into use or gives it up, by creation, update or deletion: `assigned` are the
certificates that the route refers to. If the activation fails, `Activate` undoes a creation or an
update and applies again, but not a deletion. `RenewDue` and `RenewNext` are the loop of the goroutine, `Age` time,
`Restart` the container.

Abstractions: names, host names and expiry dates are "those of a pair" (`meta`), `Apply` is one step
that may fail before or after the rename of `nginx.conf` (`ControlPlane` has its phases), all routes
that use one certificate are one, and `certificateDelete` looks through its four tables in one step
(but deletes later). Pairs live equally long: the oldest is due first.
Unfinished version directories, which nothing names, and the DNS credentials are left out, and so is
the migration, whose rollback also deletes certificates.

### ProviderRefresh

A published list is a version for each address family, `rows` the ranges stored, `active` those
`nginx.conf` has for the routes that use the provider. A refresh is `Lock`, `Read`, two `Fetch`,
`Store`, `Apply`; `FetchFails` stores only the error. `RefreshAll` and `RefreshNext` are the schedule,
`RequestRefresh` the handler, `ChangeManual` the handlers of manual providers, which use no lock but
refuse maintained ones.

### AccessLists

`row`, `file` and `assigned` are a list, its htpasswd file and its use by a host; `conf` is what the
last `Apply` rendered for that host. `req[a]` is a request at work: its kind, the step it is at, and
the row (`copy`) and users (`read`) it has read. `Upsert...` and `Remove...` are the two handlers of a
login with `htpasswd` itself split into reading and writing; `Edit...`, `Delete...` and `Assign...`
the handlers of the list and of the host that uses it; `ApplyOrUndo` and `Reapply` their
activation with rollback. `Fault` is a failed statement, command or activation, or a crash.
`before` and `disturbed` are history: what the request found, and whether anybody changed it since.
There is one list and one host; passwords and the validation of names are left out.

### ZentLoopMonitor

`settings` is the row, `conf` what `nginx.conf` was rendered from, `health` the monitor's result,
`service` the environment. `Tick`, `CheckAsks`, `CheckFails`, `CheckSets` are a check by the ticker, by an
administrator or at the end of a save; `SaveStarts` ... `SaveReapplies` is `zentLoopSet` with the
secret that is kept when it comes back masked, its activation and its rollback; `ApplyFails` is an
activation that fails before or after `nginx.conf` has been replaced. `Bridge` is `handler.go`: not
found, forwarded or fallback.

### MigrationImport

`Begin` to `ActivateFails` follow `migrationImport`: certificates imported or issued anew, lists with
their copied password files, routes, hosts in one transaction, one activation; `Undo...` is its
rollback. `OtherApply`, `AssignMine` and `DeleteList` are the other handlers, `Crash` the end of the
process. An id is the number of the import and the object it was made for. `unusable` and
`rejected` choose which objects turn out not to be importable or acceptable to nginx; `damaged`
names the errors that met the rollback, which properties may except.

## Runs

| Run | Checks | Shows |
|---|---|---|
| `control_plane` | `ForeignKeys AcknowledgedIsActive ActivatedRowsAreCoherent SettledAgreement ActivationMovesForward DeletedStaysDeleted ActivationSpec EveryRequestAnswered` | two overlapping handlers over hosts and redirects, two requests, a failure: what is acknowledged, activated and routed agrees, every step is one of `Activation`, no path keeps the mutex |
| `control_plane_serial` | `FailureLeavesNoTrace DomainsUnique` | one handler at a time, all four tables, three requests, two failures: the checks are sufficient, rollback is complete |
| `routing` | `GuardedEverywhere OnlyStrangersAreCaught FlaggedStaysOut PoolsAreSafe CapacityFits` | some 2800 sets of tables, each rendered and asked 480 requests |
| `analytics_spool` | `SpoolIsStored WorkerReturnsToSpool RotatedFileIsDrained` | rotations under load, failing inserts and reopens, no crashes: the tailer keeps up |
| `analytics_crash` | `StoredOnceInOrder CheckpointIsCommitted NothingElseLost OffsetFitsFile` | two crashes, a reload, two failing database calls: every loss is a named one, and so is every position that meets another file |
| `certificates` | `MaterialOnDisk DeletedStaysErased RenewalsMoveForward ServedBecomesFresh` | two requests of any kind, of certificates and of routes that use them, the renewal loop, a failing step, a restart |
| `metadata_race` | `MetadataKeepsCertificate` | violated, see below |
| `providers` | `RangesAreWhole RangesMoveForward PublishedBecomesActive` | overlapping refreshes, edits of manual providers, two failures |
| `access_lists` | `GuardHasItsFile UndisturbedIsAtomic` | two requests at once, four in all, one failure or crash anywhere |
| `zentloop` | `RoutingSettles UndisturbedSaveIsAtomic` | saves and checks beside the ticker, a changing service, two failures or clients that leave, activations that fail before or after nginx.conf is replaced |
| `migration` | `FailedImportLeavesNothing ImportedHostsAreGuarded SuccessfulImportIsWhole ImportEnds` | two imports, one failure anywhere, a crash, an administrator in between |
| `startup` | `OnlyTestedIsServed IsolationIsExact ComesUp` | every table of two hosts, DNS changes, a death, a file that cannot be written: the container comes up with what it tested |

### What the violation says

`metadata_race`: an edit of a certificate's name, read before a renewal and written after it, stores
the replaced pair again. `Manager.mu` guards renewals, the handler takes no lock.

The models contain more of the kind, for which no run is kept:

* A host takes a certificate between `certificateDelete`'s checks and its `DELETE`, and is left
  without it; `SettledAgreement` excepts such rows.
* The deletion of a route whose `Apply` fails is not undone (`server.go:513-528`). The certificate
  it used counts as free then (`server.go:1263-1296`) and can be deleted while `nginx.conf`, and
  OpenResty, still name its files. Until an `Apply` succeeds a reload or start from that file fails.
  `MaterialOnDisk` excepts the time in which an `Apply` is owed (`Owed`: the last one failed, one is
  still to come, or a route has lost its certificate), and only for certificates without a row.
* "Never apply an offset from an older spool generation to a newly created file" (`tailer.go:44-46`)
  is false in three cases: `SetAnalyticsOffset` fails, its error being ignored; the process dies
  between `os.Remove` and `SetAnalyticsOffset(0)` and keeps its temporary directory; OpenResty of a
  recreated container creates the spool before `Start` looks for it. The old position is then
  applied to the new file and requests are skipped (`stale`). `OffsetFitsFile` says that there is no
  fourth case; `analytics_crash` reaches all three.
* The comment at `ApplyStartup` (`manager.go:514-520`) says that isolating the affected hosts lets a
  start get past an upstream that does not resolve. Their backends are rendered with `resolve`, which
  cannot make the configuration invalid (`manager.go:1073-1075`). The name that is reported stands in
  a stream (`manager.go:1900`) or in advanced configuration, which isolation leaves alone. So the next
  attempt succeeds only if the name resolves by then; otherwise the second round finds no host to
  isolate and the start goes on to the last good file. If it succeeds, hosts are isolated, and stay so
  until the next `Apply`, that need not be.
* `CheckDomainConflicts` and the write are separate: `DomainsUnique`, checked for handlers that run
  alone, fails for two that overlap.
* `ReopenLogs` only signals. A worker that flushes later writes to a file that has been drained and
  is removed; `NothingElseLost` counts those lines in `lost`.
* The rollback of a failed update writes back all columns it read before, over a later update of
  that row that another handler has stored and acknowledged.
* A container killed inside a write to the rotated file leaves a last line without newline, and the
  tailer waits for it for ever (`ReachEnd` with `torn`).
* A provider's ranges, or a renewed certificate, are stored and their activation fails: the next
  refresh finds nothing changed, the renewal loop nothing due, and neither repeats it. The
  liveness properties except this case (`unapplied`).
* A failed import, or a crash inside `Delete`, leaves private keys that no row names.
* A change activated after OpenResty has read `nginx.conf` and before it has written its pid is
  acknowledged and does not run until the next `Apply` (between `Launch` and `WritePid`).
* A reload between the rename of the spool and a failing reopen creates a new spool that the undone
  rename replaces, with its lines. `analytics_spool` therefore has no reloads and `analytics_crash`
  no failing reopens.
* A rotation in the pid window leaves OpenResty on the removed file. `analytics_spool`, which holds
  the liveness properties, therefore has no crashes: a spool is only long before OpenResty runs if
  it survived one.
* An access list whose allow entries are all malformed renders no `deny all`: the host is open.
  `GuardedEverywhere` excepts them (`Readable`).
* Of a file limit below 128 the code gives connections all of it (`manager.go:73`), although its
  comment says they must stay below it (`manager.go:56-58`): `CapacityFits` claims a reserve only
  from 128 on.
* A TLS request for a host without certificate is answered by the TLS server of another row's
  wildcard. A host that redirects to HTTPS with a certificate whose files are missing redirects to
  no server. The ACME location is subject to the access list and the ZentLoop rules of the host.
  A login is forwarded to ZentLoop even when it is not passed to the backend. A ZentLoop rule for
  the path `/` or for that of a custom location makes `-t` refuse the whole configuration.
* Two overlapping changes of logins lose one of them or bring back a removed one; an edit that read
  the row before the first login writes the empty file name over it, and the list asks for no
  login. An error when the file is read back turns the login off for the whole list, and the error
  of the row's update is dropped. A deletion that races an assignment makes the host public.
* Between a save of the ZentLoop settings and the end of its check traffic is forwarded with
  unchecked settings. The rollback of a save writes older settings over those saved meanwhile. When
  the activation of a save fails after the rename of `nginx.conf` and the one of its rollback before
  it, the file keeps showing the refused settings, which the row no longer has. A
  client that leaves during a check makes the service count as offline until the next tick.
* A host given an imported list or certificate in the middle of an import loses it when the import is
  taken back. A crash leaves a partial import, a failed copy a partial password file. If deleting
  the hosts fails, the rollback still deletes their lists and leaves them unguarded.

Not in the models, and worth a look: a published list longer than 1 MiB is cut without an error,
possibly inside a line.

### Bounds

* Two handlers suffice for the races described, which are between two actors; two requests let each
  finish beside the other. `control_plane` has hosts, which alone have lists and providers, and redirects,
  which compete with them for domains and certificates; 404 hosts and streams share their actions.
  `control_plane_serial` has all four tables and three requests, so that one meets what the two
  before left. Ids, certificates, lists and providers are one to three each: every interaction is
  between one row and one object, and two hosts are needed only for domains.
* `routing` varies one subject per family of tables and everything it interacts with: lists of up to
  two entries, malformed ones included, beside a custom location, a provider, forced HTTPS and a
  rule; overlapping names with and without TLS; every pair of rules beside custom locations, filter
  and an own default location; two hosts on shared or separate backends at thirteen file limits on both
  sides of every clamp. Each is asked every request of four hostnames, six paths, five clients, TLS
  or not, with or without a login. A property of two rows needs two, one of an order two entries.
* `BatchSize` 2 and `MaxLines` 2 or 3 make batches end at the end of the file, before it, and
  together with a rotation; five to seven requests give two or three complete rotations. `MaxInodes`
  is as many files as those rotations and crashes can create.
* `certificates` has two ids, one in use at first (`InUse`) and one not, so that creation and
  assignment meet deletion; two requests and the loop are three actors. One pair ages: a renewal, its retry and an edit that undoes it fit.
  Six pairs are as many as the requests, the loop and the restart can obtain.
* `providers` has one maintained and one manual provider, two versions of each list, two requests
  beside the schedule, two failures: one refresh may fail twice, or two of them once.
* `access_lists` has two requests at work, of five kinds, and four in all, so that two sequences of
  two overlap: a first login, its removal and an edit. Two users tell "the last" from "another".
* `zentloop` has two clients and the ticker: two overlapping saves, or a save and two checks. Three
  bodies (on; on with rules nginx rejects and a masked secret; off with all left out) reach every
  branch of the handler. Two failures let both activations of a save fail.
* `migration` has a certificate that is imported and one that is issued anew, a list with a login and a
  host that needs list and certificate; two imports, so that the second meets what the first left.
* Two hosts and two names give hosts with none, one or two reported names, shared or not, and files
  with none, one or two literal names; a DNS change makes a name fail, or resolve between two attempts.
* `MaxFaults`, `MaxCrashes`, `MaxDeaths`, `MaxChanges`, `MaxEdits`, `MaxRequests`, `MaxReloads`,
  `MaxImports` and `MaxFlips` bound what the environment does. Runs may stop when the bounds are used up, hence
  `CHECK_DEADLOCK FALSE`; the liveness runs look for states where something should still happen.

### Fairness

* `ControlPlane`: weak fairness of each handler (goroutines are scheduled and every call in a
  handler has a timeout or is local), strong fairness of taking the mutex (Go's `sync.Mutex` hands
  over to a starving waiter), weak fairness of OpenResty's signal handling.
* `AnalyticsSpool`: the tailer's goroutine runs; OpenResty is started, flushes every second
  (`flush=1s`) and handles its signals.
* `Certificates`, `ProviderRefresh`: goroutines run (every call they make has a timeout or is
  local) and the schedules go on.
* `ZentLoopMonitor`: the ticker fires every fifteen seconds, a check ends within its timeout of four,
  handlers go on. `MigrationImport`: the handler goes on; a client that leaves or the timeout of ten minutes
  fails a step, only the end of the process stops it.
* No failure is owed: the fair part of an action that may fail is the part that does not
  (`UNCHANGED faults`), so a liveness property cannot hold because something fails.
* `Startup`: Docker restarts the container, entrypoint.sh polls, both processes run. Nothing is
  assumed of requests, DNS or crashes.

## Proofs

TLAPS proves, for every value of the constants that satisfies the named assumptions (disjoint id
sets, well-typed initial tables and inputs; names and `None` distinct):

* `ControlPlaneProof`: `Invariance`, that `Inv` is inductive, and from it the types, `ForeignKeys`,
  `AcknowledgedIsActive`, `ActivatedRowsAreCoherent`, `ActivationMovesForward` and
  `DeletedStaysDeleted`. The properties alone are not inductive. `Inv` adds that the handler inside
  `Apply` is the holder of the mutex (so only one activates at a time), that versions only grow on
  their way from table to snapshot to file, that a handler's own write travels with them, and that
  a row read at its present version is the present row *with its references*: lists and providers
  are read after the rows, and a deletion of a referenced object is itself a new version.
  `SettlingInv` (relative to `Inv`) gives `SettledAgreement`. The argument: every version that is not in `nginx.conf` is owed by a handler that has not yet read it for its
  `Apply`, or the last `Apply` failed. When all handlers are done nobody owes anything.
  `Refinement` is `Spec => ActivationSpec`: a statement is a `Write`, the end of a successful `Apply`
  an `Activate`, OpenResty's reload a `Reload`, and all else a stutter.
  `DomainsUniqueAlone` and `FailureUndone` are about one handler at a time (`Clients` a singleton) and
  tables whose hosts share no domain: `SerialInv` says that what the handler found free is still
  free when it writes, and that a rollback finds the row and every object the old row refers to. With
  a second handler neither holds: the check and the write are two statements, and so are the read of
  the old row and its restoration.
* `CertificatesProof`: `Invariance` of `CertificateInv`, and from it the types, `MaterialOnDisk` and
  `DeletedStaysErased`; `Fresh`, relative to it, gives `RenewalsMoveForward`. `CertificateInv` says
  what the holder of the lock has staged and written at each of its steps, that rows have only ids
  that were given out, that what a route refers to has a row, and that `nginx.conf` names nothing
  else unless an `Apply` is owed, so that files are erased only when no path, or one that is
  excepted, leads to them. `Fresh` says that whoever is about to
  write holds a pair no older than the stored one, except the metadata edit, which is the history
  variable `restored`.
* `ProviderRefreshProof`: `RefreshInv` is inductive, and gives `RangesAreWhole` and
  `RangesMoveForward`. It adds that whoever fetches holds the lock, and that what it has fetched lies
  between what is stored and what is published.
* `AccessListsProof`: `AccessInv` is inductive, and gives `GuardHasItsFile` and
  `UndisturbedIsAtomic`. `FileInv` adds to the first that whoever may still write the file's name
  into the row knows that there is a file, which nothing removes. `ProgressInv` says of a request
  that no other disturbed how far row, file and assignment have come, at each step, from what it
  found to the outcome it promises.
* `AnalyticsSpoolProof`: `SpoolInv` is inductive, and gives the types and `CheckpointIsCommitted`. Its
  core is `PositionInv`, which relates the checkpoint, the inode it is a position in, and the tailer's
  offset, and `DrainedInv`: when the tailer is about to remove a rotated file, all beyond its
  position is counted in `lost`. `AccountedInv`, relative to it, gives `NothingElseLost`; it needs that
  `ReopenLogs` does not fail, since the undone rename may overwrite a spool that OpenResty has
  created in between. `OriginInv` gives `OffsetFitsFile`, whatever fails or dies: a checkpoint that has not
  `slipped` belongs to the file that is read next, or a reset is still to come. `OrderedInv`, relative to
  `SpoolInv`, gives `StoredOnceInOrder` with no assumption on what fails: each file and the batch at
  hand are in order, a rotated file is older than the spool, what is stored is older than all that is
  still ahead of the checkpoint, and while a rotated file is to be read the checkpoint is in no
  younger file. So a crash makes the tailer read again only what it has not stored, unless it came
  between the rename and the new spool, which the property excepts. The lemmas on `Between` say what
  appending to a file, reading on and a line cut short do to the requests in a part of it.
* `StartupAndZentLoopProof`: two components with nothing in common; `ZentLoopMonitor` is the instance
  `Z` with variables of its own, and its named assumption is a hypothesis of what is said of it. For
  `Startup`, `StartInv` is inductive, and gives `OnlyTestedIsServed` and `IsolationIsExact`. It adds
  that what is about to be announced has been tested, that OpenResty runs only while the announcement
  stands, and that every attempt of the isolation loop is exact. For `ZentLoopMonitor`, `SaveInv` is
  inductive, and gives `UndisturbedSaveIsAtomic`: `Progress` says of a save that no other disturbed
  which settings are stored and which `nginx.conf` may show at each of its steps, `OwnCheck` that a client checks only
  when its save has nothing left to write.
* `RoutingProof`: all properties of `Routing`, for any finite tables and any requests. `CapacityHold`
  and `PoolsHold` are arithmetic and the key of a pool. The others need that what nginx chooses exists:
  the most specific server name, the longest prefix, the first matching rule are minimal elements of
  finite sets (`MinimalExists`, from the well-foundedness of strict inclusion). `LocationFound` says
  which location a path reaches, `GuardAdmits` that the rules written for nginx admit what the list as
  entered admits, `HostAnswers` that what answers in a host's name is that host's block. The named
  assumptions are what nginx relies on (a prefix relation is a partial order in which the prefixes of
  one path are comparable) and what the handlers let pass (`SettingsAssumption`).

* `MigrationImportProof`: `ImportInv` is inductive, and gives `FailedImportLeavesNothing`,
  `ImportedHostsAreGuarded` and, as an action property, `SuccessfulImportIsWhole`, for any source and
  any number of imports, failures and crashes. `Recorded` says that the rollback knows of all that was
  written, `Undone` stage by stage what is gone already, `Written` what a stage that is done has left
  complete. `RowsGuarded` is the part that `ImportedHostsAreGuarded` needs: any row may be rendered at any
  moment, so it must be guarded from its insertion to its deletion. It needs that the list of a host is
  of the same import, and that routes and hosts of the source are different objects.

Each proof of an invariant has one step per action. Every invariant and every action property of a
passing run is a theorem. Only model-checked is liveness, which is out of the prover's reach, as is
`ENABLED`: `EveryRequestAnswered`, `SpoolIsStored`, `WorkerReturnsToSpool`, `RotatedFileIsDrained`,
`ComesUp`, `ServedBecomesFresh`, `PublishedBecomesActive`, `ImportEnds` and `RoutingSettles`.

## Not modelled, and the plan

Next, in this order:

1. Streams in `Routing`, and the headers and cookies it leaves out.
2. Sessions, as far as expiry and revocation meet a request under way.

Not modelled, and why:

* Authentication, sessions and API keys: every decision is one statement on one table (expiry and
  revocation are conditions of the query), and nothing of it meets the routing state. Password
  hashing is a library.
* Release checker: one cached result behind a mutex; nothing else reads it.
* SQLite driver: a binding to a C library. Its statements are atomic steps here; a `COMMIT` that
  fails and leaves the connection inside the transaction is a hazard without a property.
* Parsing of the other proxy's answers, of provider lists, CIDRs and the environment: data
  conversion. The models take what it can yield.
* Users, statistics queries, retention, schema migration: no other part depends on their order.
* Web assets, API description, documentation pages and packaging hold no state.
