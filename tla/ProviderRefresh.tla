---------------------------- MODULE ProviderRefresh ---------------------------
(* Trusted proxy providers: the refresh of maintained ones from two published *)
(* lists (internal/providers/manager.go), by schedule and on demand, and the  *)
(* handlers that edit and delete manual ones.                                 *)
(*                                                                            *)
(* A published list is a version number for each address family; 0 is the     *)
(* empty list of a provider that was never fetched.  Apply is one step here   *)
(* (ControlPlane has its phases).                                             *)
EXTENDS Integers, FiniteSets

CONSTANTS
  Handlers,      \* goroutines that serve provider requests
  Refresher,     \* the goroutine of Manager.Start
  Maintained,    \* providers with auto_update
  Manual,        \* providers of kind "manual"
  MaxVersion,    \* bound: versions published or edited
  MaxRequests,   \* bound: requests that arrive
  MaxFaults,     \* bound: fetches, statements and activations that fail
  None

Procs == Handlers \cup {Refresher}
Providers == Maintained \cup Manual
Families == {"v4", "v6"}
Versions == 0..MaxVersion

ASSUME ProviderConstants ==
  /\ Refresher \notin Handlers
  /\ Maintained \cap Manual = {}
  /\ None \notin Procs \cup Providers
  /\ MaxVersion \in Nat \ {0} /\ MaxRequests \in Nat /\ MaxFaults \in Nat
  /\ None \notin [Families -> Versions]

VARIABLES
  source,     \* what is published for a maintained provider
  rows,       \* the ranges stored for each provider, or None
  active,     \* the ranges in nginx.conf
  holder,     \* who holds Manager.mu, or None
  pc, job,    \* where each goroutine is and which provider it works on
  seen, got,  \* the ranges read from the row and those fetched so far
  todo,       \* providers RefreshAll has still to visit
  unapplied,  \* history: the last Apply has failed
  requests, faults

local == <<pc, job, seen, got, todo>>
vars == <<source, rows, active, holder, local, unapplied, requests, faults>>

Nothing == [f \in Families |-> 0]
Ranges == [Families -> Versions]

At(p, label) == pc[p] = label
Goto(p, label) == pc' = [pc EXCEPT ![p] = label]

-----------------------------------------------------------------------------
(* The lists of one provider are published one by one. *)
Publish ==
  /\ \E q \in Maintained, f \in Families :
       /\ source[q][f] < MaxVersion
       /\ source' = [source EXCEPT ![q][f] = @ + 1]
  /\ UNCHANGED <<rows, active, holder, local, unapplied, requests, faults>>

Fault == faults < MaxFaults /\ faults' = faults + 1

\* Mutant: no mutex.
Unlocked == TRUE

(* The mutex is free. *)
Free == holder = None

(* Return, with the deferred Unlock of those that hold the mutex. *)
Release(p) ==
  /\ holder' = IF holder = p THEN None ELSE holder
  /\ pc' = [pc EXCEPT ![p] = "idle"]
  /\ job' = [job EXCEPT ![p] = None]
  /\ seen' = [seen EXCEPT ![p] = Nothing]
  /\ got' = [got EXCEPT ![p] = Nothing]

Begin(p, q, label) ==
  /\ At(p, "idle") /\ requests < MaxRequests
  /\ requests' = requests + 1
  /\ job' = [job EXCEPT ![p] = q]
  /\ Goto(p, label)

(* providerRefresh: any provider may be asked for. *)
RequestRefresh(p) ==
  /\ \E q \in Providers : Begin(p, q, "lock")
  /\ UNCHANGED <<source, rows, active, holder, seen, got, todo, unapplied, faults>>

(* RefreshAll lists the maintained providers and refreshes one after the     *)
(* other.                                                                    *)
RefreshAll ==
  /\ At(Refresher, "idle") /\ todo = {}
  /\ todo' = {q \in Maintained : rows[q] # None}
  /\ UNCHANGED <<source, rows, active, holder, pc, job, seen, got, unapplied, requests, faults>>

RefreshNext ==
  /\ At(Refresher, "idle")
  /\ \E q \in todo :
       /\ todo' = todo \ {q}
       /\ job' = [job EXCEPT ![Refresher] = q]
  /\ Goto(Refresher, "lock")
  /\ UNCHANGED <<source, rows, active, holder, seen, got, unapplied, requests, faults>>

Lock(p) ==
  /\ At(p, "lock") /\ Free
  /\ holder' = p
  /\ Goto(p, "read")
  /\ UNCHANGED <<source, rows, active, job, seen, got, todo, unapplied, requests, faults>>

(* Refresh returns for a provider that is gone or manual. *)
Read(p) ==
  /\ At(p, "read")
  /\ IF job[p] \in Maintained /\ rows[job[p]] # None
     THEN /\ seen' = [seen EXCEPT ![p] = rows[job[p]]]
          /\ Goto(p, "v4")
          /\ UNCHANGED <<holder, job, got>>
     ELSE Release(p)
  /\ UNCHANGED <<source, rows, active, todo, unapplied, requests, faults>>

(* The IPv4 list is fetched, then the IPv6 list. *)
Fetch(p) ==
  /\ \E f \in Families :
       /\ At(p, f)
       /\ got' = [got EXCEPT ![p][f] = source[job[p]][f]]
       /\ Goto(p, IF f = "v4" THEN "v6" ELSE "store")
  /\ UNCHANGED <<source, rows, active, holder, job, seen, todo, unapplied, requests, faults>>

\* Mutant: what was fetched before the error is stored.
FetchStoresPart(p) ==
  /\ pc[p] \in Families /\ Fault
  /\ rows' = [rows EXCEPT ![job[p]] = got[p]]
  /\ Release(p)
  /\ UNCHANGED <<source, active, todo, unapplied, requests>>

(* A list that cannot be fetched, is malformed or empty: only the error is   *)
(* stored, the ranges stay.                                                  *)
FetchFails(p) ==
  /\ pc[p] \in Families /\ Fault
  /\ Release(p)
  /\ UNCHANGED <<source, rows, active, todo, unapplied, requests>>

\* Mutant: only the first list is compared.
FirstChanged(p) == got[p]["v4"] # seen[p]["v4"]

(* sameStrings: compared with the row as read under the lock. *)
Changed(p) == got[p] # seen[p]

(* UpdateProviderResult writes the ranges, and activates them, only if they  *)
(* have changed.                                                             *)
Store(p) ==
  /\ At(p, "store")
  /\ \/ /\ Changed(p)
        /\ rows' = IF rows[job[p]] = None THEN rows ELSE [rows EXCEPT ![job[p]] = got[p]]
        /\ Goto(p, "apply")
        /\ UNCHANGED <<holder, job, seen, got, faults>>
     \/ ~Changed(p) /\ Release(p) /\ UNCHANGED <<rows, faults>>
     \/ Fault /\ Release(p) /\ UNCHANGED rows
  /\ UNCHANGED <<source, active, todo, unapplied, requests>>

(* Apply renders all providers; an error, before or after nginx.conf is      *)
(* replaced, is returned, and nothing is undone.                             *)
Apply(p) ==
  /\ At(p, "apply")
  /\ \/ active' = rows /\ unapplied' = FALSE /\ UNCHANGED faults
     \/ Fault /\ unapplied' = TRUE /\ active' \in {active, rows}
  /\ Release(p)
  /\ UNCHANGED <<source, rows, todo, requests>>

-----------------------------------------------------------------------------
(* providerUpdate and providerDelete write and activate without the lock;    *)
(* they refuse providers that are not manual.                                *)
EditRow(q) ==
  \E v \in 1..MaxVersion : rows' = [rows EXCEPT ![q] = [f \in Families |-> v]]

DeleteManual(q) == rows' = [rows EXCEPT ![q] = None]

ChangeManual(p) ==
  /\ \E q \in Manual :
       /\ rows[q] # None
       /\ Begin(p, q, "apply")
       /\ EditRow(q) \/ DeleteManual(q)
  /\ UNCHANGED <<source, active, holder, seen, got, todo, unapplied, faults>>

-----------------------------------------------------------------------------
(* The seeded provider has no ranges before its first refresh. *)
Init ==
  /\ source = [q \in Maintained |-> [f \in Families |-> 1]]
  /\ rows = [q \in Providers |-> IF q \in Manual THEN [f \in Families |-> 1] ELSE Nothing]
  /\ active = rows
  /\ holder = None
  /\ pc = [p \in Procs |-> "idle"]
  /\ job = [p \in Procs |-> None]
  /\ seen = [p \in Procs |-> Nothing]
  /\ got = [p \in Procs |-> Nothing]
  /\ todo = {}
  /\ unapplied = FALSE
  /\ requests = 0 /\ faults = 0

Step(p) ==
  \/ Lock(p) \/ Read(p) \/ Fetch(p) \/ FetchFails(p) \/ Store(p) \/ Apply(p)

Next ==
  \/ Publish
  \/ \E p \in Procs : Step(p)
  \/ \E p \in Handlers : RequestRefresh(p) \/ ChangeManual(p)
  \/ RefreshAll \/ RefreshNext

Spec == Init /\ [][Next]_vars

(* Goroutines run, failing or not, and the schedule goes on. *)
Fairness ==
  /\ \A p \in Procs : WF_vars(Step(p) /\ UNCHANGED faults)
  /\ WF_vars(RefreshAll) /\ WF_vars(RefreshNext)

FairSpec == Spec /\ Fairness

-----------------------------------------------------------------------------
(* Properties. *)

Labels == {"idle", "lock", "read", "v4", "v6", "store", "apply"}

(* Types; whoever fetches or stores holds the mutex. *)
TypeOK ==
  /\ source \in [Maintained -> Ranges]
  /\ {rows, active} \subseteq [Providers -> Ranges \cup {None}]
  /\ holder \in Procs \cup {None}
  /\ pc \in [Procs -> Labels]
  /\ job \in [Procs -> Providers \cup {None}]
  /\ {seen, got} \subseteq [Procs -> Ranges]
  /\ todo \subseteq Maintained
  /\ unapplied \in BOOLEAN /\ requests \in Nat /\ faults \in Nat
  /\ \A p \in Procs : pc[p] \in {"read", "v4", "v6", "store"} => holder = p

Whole(ranges) == ranges = Nothing \/ \A f \in Families : ranges[f] > 0

(* A maintained provider has both lists or none, stored and in nginx.conf,   *)
(* whichever fetch fails: half a list would take half of the visitors'       *)
(* addresses from a proxy that is not trusted any more.                      *)
RangesAreWhole == \A q \in Maintained : Whole(rows[q]) /\ Whole(active[q])

(* Why: what is fetched is published and not older than what is stored, and  *)
(* nobody else stores it meanwhile.                                          *)
Ordered(p, f) == got[p][f] \in rows[job[p]][f]..source[job[p]][f] /\ got[p][f] > 0

RefreshInv ==
  /\ TypeOK
  /\ RangesAreWhole
  /\ \A q \in Maintained :
       /\ rows[q] # None /\ active[q] # None
       /\ \A f \in Families :
            /\ source[q][f] > 0
            /\ active[q][f] <= rows[q][f] /\ rows[q][f] <= source[q][f]
  /\ \A p \in Procs :
       /\ pc[p] \in {"lock", "read"} => job[p] \in Providers
       /\ pc[p] \in {"v4", "v6", "store"} => job[p] \in Maintained
       /\ pc[p] \in {"v6", "store"} => Ordered(p, "v4")
       /\ pc[p] = "store" => Ordered(p, "v6")

(* Refreshes on demand and by schedule, and the activations of other         *)
(* providers between them, never put older lists back.                       *)
RangesMoveForward ==
  [][\A q \in Maintained, f \in Families :
       rows'[q][f] >= rows[q][f] /\ active'[q][f] >= active[q][f]]_vars

(* What is published is activated at last, although fetches fail, unless     *)
(* the activation has failed: the next refresh finds nothing changed and     *)
(* does not repeat it.                                                       *)
PublishedBecomesActive ==
  \A q \in Maintained, f \in Families, v \in 1..MaxVersion :
    source[q][f] = v ~> active[q][f] >= v \/ unapplied
=============================================================================
