-------------------------- MODULE ZentLoopMonitor --------------------------
(***************************************************************************)
(* The ZentLoop integration: its settings (zentLoopSet in                  *)
(* internal/api/server.go), the monitor that checks the service            *)
(* (internal/zentloop/monitor.go) and the bridge that forwards requests to *)
(* it or refuses them (internal/zentloop/handler.go).                      *)
(*                                                                         *)
(* A check reads the settings, asks the service for up to four seconds and *)
(* stores what it found; the last to store wins.  The ticker, every        *)
(* administrator who asks and every save make checks of their own, and the *)
(* bridge decides by what was stored last and by the settings as they are  *)
(* now.  Saves read, write, activate and put back without a lock.          *)
(*                                                                         *)
(* Abstractions.  IP lists and rules are one value, `rules`; the texts and *)
(* times of a result are left out, a signature is the secret it was made   *)
(* with.  Apply is one step: it fails before it has put its nginx.conf in  *)
(* place or after.                                                         *)
(***************************************************************************)
EXTENDS Naturals

CONSTANTS
  Clients,    \* requests at work: saves and immediate checks
  Ticker,     \* the monitor's goroutine
  Upstreams,  \* URLs that pass validation
  Default,    \* the one taken when none is given
  Secrets,
  Mask,       \* "********"
  Rules,      \* rules and lists
  Rejected,   \* those that `openresty -t` rejects
  Inputs,     \* bodies of the saves
  None,       \* no URL, no secret, no rules
  MaxRequests,\* bound: requests
  MaxFlips,   \* bound: changes of the service
  MaxFaults   \* bound: statements and activations that fail, clients that leave

Input == [enabled : BOOLEAN, upstream : Upstreams \cup {None},
          secret : Secrets \cup {None, Mask}, rules : Rules \cup {None}]

ASSUME ZentLoopAssumption ==
  /\ Inputs \subseteq Input
  /\ Default \in Upstreams
  /\ Mask \notin Secrets /\ None \notin Secrets \cup Upstreams
  /\ Rejected \subseteq Rules
  /\ MaxRequests \in Nat /\ MaxFlips \in Nat /\ MaxFaults \in Nat

VARIABLES
  settings,   \* the row of integration_settings
  conf,       \* the settings nginx.conf was rendered from
  health,     \* Monitor.health: its status
  service,    \* service[u]: the secret it verifies, None, or "down"
  check,      \* check[c]: the check at work
  save,       \* save[s]: the save at work
  before,     \* history: settings and conf when the save began
  disturbed,  \* history: since then others changed one, or s dropped an error
  requests, flips, faults

Checkers == Clients \cup {Ticker}

Config == [enabled : BOOLEAN, upstream : Upstreams, secret : Secrets \cup {None},
           rules : Rules \cup {None}]
Statuses == {"disabled", "offline", "degraded", "online"}

stored == <<settings, conf>>
history == <<before, disturbed>>
bounds == <<requests, flips, faults>>
vars == <<settings, conf, health, service, check, save, before, disturbed, bounds>>

NoCheck == [step |-> "idle", config |-> None, status |-> None]
NoSave == [step |-> "idle", old |-> None, new |-> None]

Ends(s) ==
  /\ save' = [save EXCEPT ![s] = NoSave]
  /\ before' = [before EXCEPT ![s] = None]

Fault == faults > 0 /\ faults' = faults - 1

----------------------------------------------------------------------------
\* CheckNow

\* The answer to the signed integration check.
Status(config) ==
  LET verifies == service[config.upstream] IN
  CASE ~config.enabled -> "disabled"
    [] config.enabled /\ verifies = "down" -> "offline"
    [] config.enabled /\ verifies # "down" /\ config.secret = None -> "online"
    [] config.enabled /\ verifies = None /\ config.secret # None -> "degraded"
    [] OTHER -> IF verifies = config.secret THEN "online" ELSE "offline"

Found(status) == [NoCheck EXCEPT !.step = "set", !.status = status]

CheckStarts(c) ==
  /\ check' = [check EXCEPT ![c] = [NoCheck EXCEPT !.step = "ask", !.config = settings]]
  /\ UNCHANGED <<stored, health, service, save, history, flips, faults>>

Tick ==
  /\ check[Ticker].step = "idle"
  /\ CheckStarts(Ticker)
  /\ UNCHANGED requests

\* zentLoopCheck
Asks(c) ==
  /\ save[c] = NoSave /\ check[c] = NoCheck
  /\ requests < MaxRequests
  /\ requests' = requests + 1
  /\ CheckStarts(c)

CheckAsks(c) ==
  /\ check[c].step = "ask"
  /\ check' = [check EXCEPT ![c] = Found(Status(check[c].config))]
  /\ UNCHANGED <<stored, health, service, save, history, bounds>>

\* The settings cannot be read, the request times out, or the client that
\* asked for the check has gone.
CheckFails(c) ==
  /\ check[c].step = "ask"
  /\ Fault
  /\ check' = [check EXCEPT ![c] = Found("offline")]
  /\ UNCHANGED <<stored, health, service, save, history, requests, flips>>

CheckSets(c) ==
  /\ check[c].step = "set"
  /\ health' = check[c].status
  /\ check' = [check EXCEPT ![c] = NoCheck]
  /\ IF c # Ticker /\ save[c] # NoSave THEN Ends(c) ELSE UNCHANGED <<save, before>>
  /\ UNCHANGED <<stored, service, disturbed, bounds>>

----------------------------------------------------------------------------
\* The bridge

\* Mutant: a service that did not confirm the signature is used.
HealthyUnlessOffline == health # "offline"

Healthy == health = "online"

Bridge ==
  IF ~settings.enabled THEN "not found"
  ELSE IF Healthy THEN "forwarded" ELSE "fallback"

----------------------------------------------------------------------------
\* zentLoopSet

\* A save that turns the integration off keeps what it leaves out.
Merged(in, old) ==
  [enabled |-> in.enabled,
   secret |-> IF in.secret = Mask THEN old.secret ELSE in.secret,
   upstream |-> IF in.upstream # None THEN in.upstream
                ELSE IF in.enabled THEN Default ELSE old.upstream,
   rules |-> IF ~in.enabled /\ in.rules = None THEN old.rules ELSE in.rules]

\* A change of settings or nginx.conf disturbs the other saves.
Changes(s) ==
  disturbed' = [b \in Clients |-> disturbed[b] \/ (save[b] # NoSave /\ b # s /\ stored' # stored)]

\* A disabled integration renders no rules.
Accepted(config) == config.enabled => config.rules \notin Rejected

SaveStarts(s, in) ==
  /\ save[s] = NoSave /\ check[s] = NoCheck
  /\ requests < MaxRequests
  /\ requests' = requests + 1
  /\ save' = [save EXCEPT ![s] = [step |-> "write", old |-> settings,
                                  new |-> Merged(in, settings)]]
  /\ before' = [before EXCEPT ![s] = stored]
  /\ disturbed' = [disturbed EXCEPT ![s] = FALSE]
  /\ UNCHANGED <<stored, health, service, check, flips, faults>>

SaveWrites(s) ==
  /\ save[s].step = "write"
  /\ \/ /\ settings' = save[s].new
        /\ save' = [save EXCEPT ![s].step = "apply"]
        /\ UNCHANGED <<before, faults>>
     \/ Fault /\ Ends(s) /\ UNCHANGED settings
  /\ UNCHANGED <<conf, health, service, check, requests, flips>>
  /\ Changes(s)

\* Activated, the settings are checked on behalf of the client.
SaveApplies(s) ==
  /\ save[s].step = "apply"
  /\ Accepted(settings)
  /\ conf' = settings
  /\ save' = [save EXCEPT ![s].step = "check"]
  /\ check' = [check EXCEPT ![s] = [NoCheck EXCEPT !.step = "read"]]
  /\ UNCHANGED <<settings, health, service, before, bounds>>
  /\ Changes(s)

\* OpenResty rejects the settings, or something fails before nginx.conf is
\* replaced or after.
ApplyFails ==
  \/ ~Accepted(settings) /\ UNCHANGED <<conf, faults>>
  \/ Accepted(settings) /\ Fault /\ conf' \in {conf, settings}

SaveIsRefused(s) ==
  /\ save[s].step = "apply"
  /\ ApplyFails
  /\ save' = [save EXCEPT ![s].step = "undo"]
  /\ UNCHANGED <<settings, health, service, check, before, requests, flips>>
  /\ Changes(s)

SaveChecks(s) ==
  /\ check[s].step = "read"
  /\ CheckStarts(s)
  /\ UNCHANGED requests

\* Mutant: what was there is activated again but not stored.
UndoAppliesOnly(s) ==
  /\ save[s].step = "undo"
  /\ save' = [save EXCEPT ![s].step = "reapply"]
  /\ UNCHANGED <<stored, health, service, check, history, bounds>>

\* Its errors are dropped.
SaveUndoes(s) ==
  /\ save[s].step = "undo"
  /\ save' = [save EXCEPT ![s].step = "reapply"]
  /\ UNCHANGED <<conf, health, service, check, before, requests, flips>>
  /\ \/ settings' = save[s].old /\ UNCHANGED faults /\ Changes(s)
     \/ Fault /\ UNCHANGED settings /\ disturbed' = [disturbed EXCEPT ![s] = TRUE]

SaveReapplies(s) ==
  /\ save[s].step = "reapply"
  /\ \/ Accepted(settings) /\ conf' = settings /\ UNCHANGED faults
     \/ ApplyFails
  /\ Ends(s)
  /\ UNCHANGED <<settings, health, service, check, requests, flips>>
  /\ Changes(s)

----------------------------------------------------------------------------
\* The service is stopped, started, or given another secret.

ServiceChanges(u, verifies) ==
  /\ flips < MaxFlips
  /\ verifies # service[u]
  /\ service' = [service EXCEPT ![u] = verifies]
  /\ flips' = flips + 1
  /\ UNCHANGED <<stored, health, check, save, history, requests, faults>>

Verifies == Secrets \cup {None, "down"}

Init ==
  /\ settings = [enabled |-> FALSE, upstream |-> Default, secret |-> None, rules |-> None]
  /\ conf = settings
  /\ health = "disabled"
  /\ service \in [Upstreams -> Verifies]
  /\ check = [c \in Checkers |-> NoCheck]
  /\ save = [s \in Clients |-> NoSave]
  /\ before = [s \in Clients |-> None]
  /\ disturbed = [s \in Clients |-> FALSE]
  /\ requests = 0 /\ flips = 0 /\ faults = MaxFaults

Check(c) == CheckAsks(c) \/ CheckFails(c) \/ CheckSets(c)

Save(s) ==
  SaveWrites(s) \/ SaveApplies(s) \/ SaveIsRefused(s) \/ SaveChecks(s)
    \/ SaveUndoes(s) \/ SaveReapplies(s)

Next ==
  \/ Tick
  \/ \E c \in Clients : Asks(c)
  \/ \E c \in Checkers : Check(c)
  \/ \E s \in Clients, in \in Inputs : SaveStarts(s, in)
  \/ \E s \in Clients : Save(s)
  \/ \E u \in Upstreams, v \in Verifies : ServiceChanges(u, v)

\* The ticker fires every fifteen seconds, a check ends within four, and a
\* handler goes on.
Fairness ==
  /\ WF_vars(Tick)
  /\ \A c \in Checkers : WF_vars(Check(c) /\ UNCHANGED faults)
  /\ \A s \in Clients : WF_vars(Save(s) /\ UNCHANGED faults)

Spec == Init /\ [][Next]_vars /\ Fairness

----------------------------------------------------------------------------
\* Properties

\* What the documentation says of the bridge: an integration that is
\* unavailable, or whose signature cannot be verified, is answered with the
\* fallback; one that works is used.
Promised ==
  IF ~settings.enabled THEN "not found"
  ELSE IF Status(settings) = "online" THEN "forwarded" ELSE "fallback"

\* Whatever checks overlap, are abandoned, or store an older result over a
\* newer one: once settings and service stay as they are the bridge comes to
\* do what is promised and keeps doing it.
RoutingSettles == <>[](Bridge = Promised)

\* A save that no other disturbs is one step for the row.  Acknowledged, the
\* settings are its own, completed from those it found, and active; refused,
\* they are what they were.  nginx.conf shows them again as soon as the second
\* activation has succeeded; when that one fails as well it may also be what it
\* was, or still show the refused settings, the first activation having failed
\* after it had replaced the file.  Settings OpenResty rejects it never shows.
UndisturbedSaveIsAtomic ==
  [][\A s \in Clients :
       LET over == save[s].step # "idle" /\ save'[s].step = "idle" IN
       over /\ ~disturbed[s] =>
         IF save[s].step = "check"
         THEN settings' = save[s].new /\ conf' = settings'
         ELSE /\ settings' = before[s][1]
              /\ \/ conf' = settings'
                 \/ /\ ~Accepted(settings) \/ Fault
                    /\ \/ conf' = before[s][2]
                       \/ conf' = save[s].new /\ Accepted(save[s].new)]_vars
=============================================================================
