------------------------------ MODULE Startup ------------------------------
(***************************************************************************)
(* How the container starts, and what the control plane's activations do   *)
(* while it starts:                                                        *)
(*                                                                         *)
(*   - docker/entrypoint.sh      removes the traces of the last run,       *)
(*     starts the control plane, waits for its readiness file, starts      *)
(*     OpenResty and lives as long as both of them;                        *)
(*   - cmd/zentproxy/main.go     calls ApplyStartup, then serves;          *)
(*   - internal/proxy/manager.go ApplyStartup tries the tables, then the   *)
(*     tables with the hosts isolated that refer to a name OpenResty did   *)
(*     not find, then the last nginx.conf, then a neutral one; Apply as    *)
(*     in ControlPlane.                                                    *)
(*                                                                         *)
(* The backends of a host are rendered as `server name:port resolve;`:     *)
(* OpenResty looks them up while it runs and loads them whether they have  *)
(* an address or not.  A stream (`proxy_pass name:port;`) and advanced     *)
(* configuration name theirs literally, and those must resolve when the    *)
(* file is read.  The error reports a literal name, and the hosts that are *)
(* isolated are those with a backend of that name; the literal name stays  *)
(* in the file, so the next attempt succeeds only if it resolves by then.  *)
(*                                                                         *)
(* Abstractions.  What decides whether OpenResty loads a configuration:    *)
(* the literal names, which DNS resolves or not, and whether anything else *)
(* is wrong with it.  Requests edit one host or stream each and run one    *)
(* after the other (their interleavings are ControlPlane's subject).       *)
(* nginx.conf and the tables survive the container, and the readiness file *)
(* until it is removed.  An Apply that fails after its test, and overlaps  *)
(* of several, are in ControlPlane.                                        *)
(***************************************************************************)
EXTENDS Naturals, FiniteSets

CONSTANTS
  Hosts,       \* ids of proxy hosts
  Names,       \* names that need DNS
  None,        \* no enabled row, no file, no name
  MaxChanges,  \* bound: DNS changes
  MaxEdits,    \* bound: requests
  MaxDeaths,   \* bound: the container is killed
  MaxFaults    \* bound: files that cannot be written

ASSUME StartupAssumption ==
  /\ \A ns \in SUBSET Names : None # ns
  /\ {MaxChanges, MaxEdits, MaxDeaths, MaxFaults} \subseteq Nat

(* The names the backends of an enabled host have, if it is one. *)
Backends == (SUBSET Names) \cup {None}

(* What OpenResty reads: the backends of every host that has a server      *)
(* block, which of them are isolated, the literal names, and what it says  *)
(* of the rest.                                                            *)
Verdicts == {"accepted", "rejected"}

Config == [up : [Hosts -> Backends], isolated : SUBSET Hosts,
           literal : SUBSET Names, rest : Verdicts]

(* writeSafeFallbackLocked: answers 404 to everybody. *)
Neutral == [up |-> [h \in Hosts |-> None], isolated |-> {}, literal |-> {},
            rest |-> "accepted"]

ASSUME NoneIsNoConfig == None \notin Config

VARIABLES
  dns,        \* the names that resolve at present
  table,      \* the enabled hosts and the names of their backends
  literal,    \* the names streams and advanced configuration have literally
  rest,       \* what OpenResty says of the rest of the tables
  conf,       \* nginx.conf
  ready,      \* proxy-config.ready exists
  \* the control plane
  app,
  candidate,  \* what ApplyStartup tries next
  saved,      \* what a failed activation goes back to, or None
  \* OpenResty
  proxy,      \* "none", "loading" (no openresty.pid yet) or "running"
  live,       \* the configuration it has read
  pending,    \* a reload signal is waiting
  \* history and bounds
  tested,     \* configurations found loadable, or neutral, since the start
  reported,   \* names ApplyStartup was told of since the start
  changes, edits, deaths, faults

control == <<app, candidate, saved>>
worker  == <<proxy, live, pending>>
bounds  == <<changes, edits, deaths, faults>>
tables == <<table, literal>>
vars == <<dns, tables, rest, conf, ready, control, worker, tested, reported, bounds>>

(* The names that keep OpenResty from reading a configuration. *)
Unresolved(c) == c.literal \ dns

(* `openresty -t`, and what OpenResty does when it starts or reloads.      *)
Loads(c) == c.rest = "accepted" /\ Unresolved(c) = {}

(* existingConfigValidLocked: nginx.conf is there and loads.               *)
ExistingConfigValid == conf # None /\ Loads(conf)

Rendered == [up |-> table, isolated |-> {}, literal |-> literal, rest |-> rest]

(* The hosts with a backend of a name. *)
Referring(c, n) == {h \in Hosts : c.up[h] # None /\ n \in c.up[h]}

\* Mutant: the hosts lose their server block.
Dropped(c, n) ==
  [c EXCEPT !.up = [h \in Hosts |-> IF h \in Referring(c, n) THEN None ELSE @[h]],
            !.isolated = @ \cup Referring(c, n)]

(* isolateHostsReferencingUpstream: all their backends become an address   *)
(* nobody listens on; the server block stays, and so does advanced         *)
(* configuration.                                                          *)
Isolated(c, n) ==
  [c EXCEPT !.up = [h \in Hosts |-> IF h \in Referring(c, n) THEN {} ELSE @[h]],
            !.isolated = @ \cup Referring(c, n)]

Fault == faults < MaxFaults /\ faults' = faults + 1

-----------------------------------------------------------------------------
(* The container. *)

\* Mutant: the files of the last run are not removed.
BootDirty ==
  /\ app = "down"
  /\ app' = "try"
  /\ candidate' = Rendered
  /\ tested' = {}
  /\ reported' = {}
  /\ UNCHANGED <<dns, tables, rest, conf, ready, saved, worker, bounds>>

(* entrypoint.sh removes the pid and readiness files and starts the        *)
(* control plane, which reads the tables for its first attempt.            *)
Boot ==
  /\ app = "down"
  /\ ready' = FALSE
  /\ app' = "try"
  /\ candidate' = Rendered
  /\ tested' = {}
  /\ reported' = {}
  /\ UNCHANGED <<dns, tables, rest, conf, saved, worker, bounds>>

(* Either process ends and takes the other one along. *)
Down ==
  /\ app' = "down"
  /\ candidate' = None
  /\ saved' = None
  /\ proxy' = "none"
  /\ live' = None
  /\ pending' = FALSE

Die ==
  /\ app # "down"
  /\ deaths < MaxDeaths
  /\ deaths' = deaths + 1
  /\ Down
  /\ UNCHANGED <<dns, tables, rest, conf, ready, tested, reported, changes, edits, faults>>

(* The readiness file is there: OpenResty reads nginx.conf, or exits.      *)
Launch ==
  /\ app # "down"
  /\ proxy = "none"
  /\ ready
  /\ IF ExistingConfigValid
     THEN proxy' = "loading" /\ live' = conf /\ UNCHANGED <<pending, control>>
     ELSE Down
  /\ UNCHANGED <<dns, tables, rest, conf, ready, tested, reported, bounds>>

WritePid ==
  /\ proxy = "loading"
  /\ proxy' = "running"
  /\ UNCHANGED <<dns, tables, rest, conf, ready, control, live, pending, tested,
                 reported, bounds>>

(* The master handles `-s reload`: if the file does not load it keeps what *)
(* it has.                                                                 *)
MasterReload ==
  /\ pending
  /\ pending' = FALSE
  /\ live' = IF Loads(conf) THEN conf ELSE live
  /\ UNCHANGED <<dns, tables, rest, conf, ready, control, proxy, tested, reported, bounds>>

(* Names come and go. *)
ChangeDns ==
  /\ changes < MaxChanges
  /\ changes' = changes + 1
  /\ \E n \in Names : dns' = IF n \in dns THEN dns \ {n} ELSE dns \cup {n}
  /\ UNCHANGED <<tables, rest, conf, ready, control, worker, tested, reported,
                 edits, deaths, faults>>

-----------------------------------------------------------------------------
(* ApplyStartup. *)

Activate(c) ==
  /\ conf' = c
  /\ tested' = tested \cup {c}

(* applyLocked with the candidate. *)
TrySucceeds ==
  /\ app = "try"
  /\ Loads(candidate)
  /\ Activate(candidate)
  /\ app' = "publish"
  /\ UNCHANGED <<dns, tables, rest, ready, candidate, saved, worker, reported, bounds>>

(* "host not found in upstream": one of the names, if no other mistake is  *)
(* found first.  The hosts with a backend of that name are isolated.       *)
TryIsolates ==
  /\ app = "try"
  /\ \E n \in Unresolved(candidate) :
       /\ Referring(candidate, n) # {}
       /\ candidate' = Isolated(candidate, n)
       /\ reported' = reported \cup {n}
  /\ UNCHANGED <<dns, tables, rest, conf, ready, app, saved, worker, tested, bounds>>

\* Mutant: a name no host refers to is not noticed.
TryAgain ==
  /\ app = "try"
  /\ \/ candidate.rest = "rejected" /\ UNCHANGED faults
     \/ Fault
  /\ app' = "lastGood"
  /\ UNCHANGED <<dns, tables, rest, conf, ready, candidate, saved, worker, tested,
                 reported, changes, edits, deaths>>

(* Another error, or a name no host refers to any more, or a file that     *)
(* cannot be written.                                                      *)
TryGivesUp ==
  /\ app = "try"
  /\ \/ candidate.rest = "rejected" /\ UNCHANGED faults
     \/ (\E n \in Unresolved(candidate) : Referring(candidate, n) = {}) /\ UNCHANGED faults
     \/ Fault
  /\ app' = "lastGood"
  /\ UNCHANGED <<dns, tables, rest, conf, ready, candidate, saved, worker, tested,
                 reported, changes, edits, deaths>>

(* The nginx.conf of the last run, if OpenResty accepts it now. *)
KeepLastGood ==
  /\ app = "lastGood"
  /\ ExistingConfigValid
  /\ Activate(conf)
  /\ app' = "publishLast"
  /\ UNCHANGED <<dns, tables, rest, ready, candidate, saved, worker, reported, bounds>>

WriteFallback ==
  /\ app = "lastGood"
  /\ ~ExistingConfigValid
  /\ \/ Activate(Neutral) /\ app' = "publishLast" /\ UNCHANGED faults
     \/ Fault /\ app' = "serving" /\ UNCHANGED <<conf, tested>>
  /\ UNCHANGED <<dns, tables, rest, ready, candidate, saved, worker, reported,
                 changes, edits, deaths>>

(* markStartupReadyLocked.  Without the file a successful attempt goes on  *)
(* as a failed one; otherwise the control plane serves without OpenResty.  *)
Publish ==
  /\ app \in {"publish", "publishLast"}
  /\ \/ ready' = TRUE /\ app' = "serving" /\ UNCHANGED faults
     \/ /\ Fault
        /\ app' = IF app = "publish" THEN "lastGood" ELSE "serving"
        /\ UNCHANGED ready
  /\ UNCHANGED <<dns, tables, rest, conf, candidate, saved, worker, tested, reported,
                 changes, edits, deaths>>

-----------------------------------------------------------------------------
(* Requests, once the control plane serves. *)

(* The tables change; undo is what they go back to if they cannot be       *)
(* activated, or None.                                                     *)
Edit(t, names, undo) ==
  /\ app = "serving"
  /\ edits < MaxEdits
  /\ edits' = edits + 1
  /\ table' = t /\ literal' = names
  /\ saved' = undo
  /\ app' = "apply"
  /\ UNCHANGED <<dns, rest, conf, ready, candidate, worker, tested, reported,
                 changes, deaths, faults>>

(* An update or creation of a host (its backends, or its literal names) or *)
(* of a stream, put back if it cannot be activated; a deletion of a host   *)
(* with its literal names, or of a stream, which is not put back.          *)
Request ==
  \/ \E h \in Hosts, ns \in SUBSET Names :
       Edit([table EXCEPT ![h] = ns], literal, [table |-> table, literal |-> literal])
  \/ \E names \in SUBSET Names : Edit(table, names, [table |-> table, literal |-> literal])
  \/ \E h \in Hosts, names \in SUBSET literal : Edit([table EXCEPT ![h] = None], names, None)
  \/ \E names \in SUBSET literal : Edit(table, names, None)

(* The test passes and the file is renamed into place. *)
ApplyActivates ==
  /\ app = "apply"
  /\ Loads(Rendered)
  /\ Activate(Rendered)
  /\ app' = "signal"
  /\ UNCHANGED <<dns, tables, rest, ready, candidate, saved, worker, reported, bounds>>

(* The test fails: the handler restores the row and activates once more.   *)
ApplyRefuses ==
  /\ app = "apply"
  /\ ~Loads(Rendered)
  /\ IF saved = None THEN app' = "serving" /\ UNCHANGED <<tables, saved>>
     ELSE /\ table' = saved.table /\ literal' = saved.literal
          /\ saved' = None /\ UNCHANGED app
  /\ UNCHANGED <<dns, rest, conf, ready, candidate, worker, tested, reported, bounds>>

(* Manager looks for a process in openresty.pid. *)
PidRunning == proxy = "running"

(* Signal OpenResty if it runs and mark the start as ready. *)
ApplySignals ==
  /\ app = "signal"
  /\ pending' = (pending \/ PidRunning)
  /\ ready' = TRUE
  /\ app' = "serving"
  /\ saved' = None
  /\ UNCHANGED <<dns, tables, rest, conf, candidate, proxy, live, tested, reported, bounds>>

-----------------------------------------------------------------------------
(* A container that has never run, or one that starts again with the       *)
(* nginx.conf of an earlier run.                                           *)
Init ==
  /\ dns \in SUBSET Names
  /\ table \in [Hosts -> SUBSET Names]
  /\ literal \in SUBSET Names
  /\ rest \in Verdicts
  /\ conf \in {None, Rendered, [Rendered EXCEPT !.rest = "accepted"]}
  /\ ready \in BOOLEAN
  /\ app = "down" /\ candidate = None /\ saved = None
  /\ proxy = "none" /\ live = None /\ pending = FALSE
  /\ tested = {} /\ reported = {}
  /\ changes = 0 /\ edits = 0 /\ deaths = 0 /\ faults = 0

Control ==
  \/ TrySucceeds \/ TryIsolates \/ TryGivesUp \/ KeepLastGood \/ WriteFallback \/ Publish
  \/ ApplyActivates \/ ApplyRefuses \/ ApplySignals

Next ==
  \/ Boot \/ Die \/ Launch \/ WritePid \/ MasterReload \/ ChangeDns
  \/ Control \/ Request

Spec == Init /\ [][Next]_vars

(* Docker restarts the container, entrypoint.sh polls, the processes run,  *)
(* and no failure is owed.                                                 *)
Fairness ==
  /\ WF_vars(Boot) /\ WF_vars(Launch) /\ WF_vars(WritePid) /\ WF_vars(MasterReload)
  /\ WF_vars(Control /\ UNCHANGED faults)

FairSpec == Spec /\ Fairness

-----------------------------------------------------------------------------
(* Properties. *)

Labels == {"down", "try", "lastGood", "publish", "publishLast", "serving", "apply", "signal"}

(* Types. *)
TypeOK ==
  /\ dns \subseteq Names
  /\ table \in [Hosts -> Backends]
  /\ literal \subseteq Names
  /\ rest \in Verdicts
  /\ conf \in Config \cup {None}
  /\ ready \in BOOLEAN
  /\ app \in Labels
  /\ candidate \in Config \cup {None}
  /\ saved \in [table : [Hosts -> Backends], literal : SUBSET Names] \cup {None}
  /\ proxy \in {"none", "loading", "running"}
  /\ live \in Config \cup {None}
  /\ pending \in BOOLEAN
  /\ tested \subseteq Config
  /\ reported \subseteq Names
  /\ changes \in 0..MaxChanges /\ edits \in 0..MaxEdits
  /\ deaths \in 0..MaxDeaths /\ faults \in 0..MaxFaults

(* "Never use mere file existence as the startup signal": while somebody   *)
(* may see the readiness file, nginx.conf is a file this start has tested  *)
(* or written as the neutral one, and OpenResty never runs another.        *)
OnlyTestedIsServed ==
  /\ ready /\ app # "down" => conf \in tested
  /\ proxy # "none" => live \in tested

(* "Retries with only the affected Proxy Host(s) isolated onto a local     *)
(* fail-closed upstream; their server_name/TLS/access boundaries stay      *)
(* present": what a start activates has a server block for every host of   *)
(* the table; the isolated ones have a backend of a name that OpenResty    *)
(* reported, and none of their backends is left; all others, and the       *)
(* literal names, are untouched.                                           *)
Exact(c) ==
  \A h \in Hosts :
    /\ c.up[h] = None <=> table[h] = None
    /\ h \in c.isolated => /\ table[h] # None /\ table[h] \cap reported # {}
                           /\ c.up[h] = {}
    /\ h \notin c.isolated => c.up[h] = table[h]

IsolationIsExact == app = "publish" => Exact(conf) /\ conf.literal = literal

(* Why: what is about to be announced has been tested, OpenResty only runs *)
(* while it is announced, and every attempt on the way is exact.           *)
StartInv ==
  /\ TypeOK
  /\ OnlyTestedIsServed
  /\ IsolationIsExact
  /\ app \in {"publish", "publishLast", "signal"} => conf \in tested
  /\ proxy # "none" => ready /\ app # "down"
  /\ pending => proxy # "none"
  /\ app = "try" => candidate \in Config /\ Exact(candidate) /\ candidate.literal = literal

(* The container comes up whatever the tables hold and however names and   *)
(* processes fail, as long as they stop to do so.  A file that cannot be   *)
(* written may leave it waiting for the readiness file.                    *)
ComesUp == <>[](proxy = "running" \/ faults > 0)
=============================================================================
