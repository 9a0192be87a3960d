----------------------- MODULE StartupAndZentLoopProof -----------------------
(***************************************************************************)
(* Proofs about two things main starts before it serves requests.          *)
(*                                                                         *)
(* Startup, for any hosts, names and bounds: StartInv is inductive, so     *)
(* whatever OpenResty is started with was tested by this start, and        *)
(* isolation touches nobody it need not touch.                             *)
(*                                                                         *)
(* ZentLoopMonitor, the instance Z, for any clients, settings and bounds:  *)
(* SaveInv is inductive, so a save that no other disturbs is one step.     *)
(***************************************************************************)
EXTENDS Startup, TLAPS

(* Configurations made from a table are configurations. *)
LEMMA RenderedIsConfig ==
  ASSUME TypeOK
  PROVE  Rendered \in Config
BY StartupAssumption DEF TypeOK, Rendered, Config, Backends

LEMMA NeutralIsConfig == Neutral \in Config
BY DEF Neutral, Config, Backends, Verdicts

(* Isolating the hosts that refer to a reported name keeps the attempt     *)
(* exact: they had a backend of that name in the table too, because a host *)
(* that is not isolated yet is as in the table.  The literal names stay.   *)
LEMMA IsolatedIsExact ==
  ASSUME TypeOK, NEW c \in Config, Exact(c), NEW n \in Names, \A ns \in SUBSET Names : None # ns,
         table' = table, reported' = reported \cup {n}
  PROVE  /\ Isolated(c, n) \in Config
         /\ Exact(Isolated(c, n))'
         /\ Isolated(c, n).literal = c.literal
<1> DEFINE R == Referring(c, n)
           d == Isolated(c, n)
<1>1. R \subseteq Hosts
  BY DEF Referring
<1>2. d = [up |-> [h \in Hosts |-> IF h \in R THEN {} ELSE c.up[h]],
            isolated |-> c.isolated \cup R, literal |-> c.literal, rest |-> c.rest]
  <2>1. c = [up |-> c.up, isolated |-> c.isolated, literal |-> c.literal, rest |-> c.rest]
    BY DEF Config
  <2> HIDE DEF R
  <2>2. d = [c EXCEPT !.up = [h \in Hosts |-> IF h \in R THEN {} ELSE c.up[h]],
                      !.isolated = c.isolated \cup R]
    BY DEF Isolated, R
  <2> HIDE DEF d
  <2> QED
    BY <2>1, <2>2
<1>3. d \in Config
  BY <1>1, <1>2 DEF Config, Backends
<1>4. ASSUME NEW h \in Hosts
      PROVE  /\ d.up[h] = None <=> table[h] = None
             /\ h \in d.isolated => /\ table[h] # None /\ table[h] \cap (reported \cup {n}) # {}
                                    /\ d.up[h] = {}
             /\ h \notin d.isolated => d.up[h] = table[h]
  <2>1. CASE h \in R
    <3>1. c.up[h] # None /\ n \in c.up[h] /\ d.up[h] = {} /\ h \in d.isolated
      BY <2>1, <1>2 DEF Referring
    <3>2. table[h] # None
      BY <3>1 DEF Exact
    <3>3. table[h] \cap (reported \cup {n}) # {}
      BY <3>1 DEF Exact
    <3> QED
      BY <3>1, <3>2, <3>3
  <2>2. CASE h \notin R
    <3>1. d.up[h] = c.up[h] /\ (h \in d.isolated <=> h \in c.isolated)
      BY <2>2, <1>2
    <3> QED
      BY <3>1 DEF Exact
  <2> QED
    BY <2>1, <2>2
<1> QED
  BY <1>2, <1>3, <1>4 DEF Exact

-----------------------------------------------------------------------------
LEMMA StartInit == Init => StartInv
<1> SUFFICES ASSUME Init PROVE StartInv
  OBVIOUS
<1>1. table \in [Hosts -> Backends]
  BY DEF Init, Backends
<1>2. conf \in Config \cup {None}
  BY <1>1, StartupAssumption DEF Init, Rendered, Config, Backends, Verdicts
<1>3. changes \in 0..MaxChanges /\ edits \in 0..MaxEdits /\ deaths \in 0..MaxDeaths
        /\ faults \in 0..MaxFaults
  BY StartupAssumption DEF Init
<1>4. TypeOK
  <2>1. literal \subseteq Names /\ rest \in Verdicts /\ ready \in BOOLEAN /\ pending \in BOOLEAN
    BY DEF Init
  <2> QED
    BY <1>1, <1>2, <1>3, <2>1 DEF Init, TypeOK, Labels
<1> QED
  BY <1>4 DEF Init, StartInv, OnlyTestedIsServed, IsolationIsExact

(* One step per action. *)
LEMMA StartNext == StartInv /\ [Next]_vars => StartInv'
<1> SUFFICES ASSUME StartInv, [Next]_vars PROVE StartInv'
  OBVIOUS
<1> USE StartupAssumption
<1>0. TypeOK
  BY DEF StartInv
<1> USE DEF StartInv, TypeOK, OnlyTestedIsServed, IsolationIsExact, Labels,
            tables, control, worker, bounds
<1>1. CASE Boot
  <2>1. Rendered \in Config
    BY <1>0, RenderedIsConfig
  <2>2. proxy = "none"
    BY <1>1 DEF Boot
  <2>3. Exact(candidate)' /\ candidate'.literal = literal'
    BY <1>1 DEF Boot, Exact, Rendered
  <2> QED
    BY <1>1, <2>1, <2>2, <2>3 DEF Boot
<1>2. CASE Die
  <2>1. deaths' \in 0..MaxDeaths
    BY <1>2 DEF Die
  <2> QED
    BY <1>2, <2>1 DEF Die, Down
<1>3. CASE Launch
  <2>1. CASE ExistingConfigValid
    BY <1>3, <2>1 DEF Launch, Exact, ExistingConfigValid
  <2>2. CASE ~ExistingConfigValid
    BY <1>3, <2>2 DEF Launch, Down
  <2> QED
    BY <2>1, <2>2
<1>4. CASE WritePid
  BY <1>4 DEF WritePid, Exact
<1>5. CASE MasterReload
  BY <1>5 DEF MasterReload, Exact
<1>6. CASE ChangeDns
  BY <1>6 DEF ChangeDns, Exact
<1>7. CASE TrySucceeds
  BY <1>7 DEF TrySucceeds, Activate, Exact
<1>8. CASE TryIsolates
  <2>1. PICK n \in Unresolved(candidate) :
          /\ candidate' = Isolated(candidate, n)
          /\ reported' = reported \cup {n}
    BY <1>8 DEF TryIsolates
  <2>2. candidate \in Config /\ Exact(candidate) /\ n \in Names /\ candidate.literal = literal
    BY <1>8, <2>1 DEF TryIsolates, Unresolved, Config, Backends
  <2>3. candidate' \in Config /\ Exact(candidate)' /\ candidate'.literal = literal
    BY <1>0, <1>8, <2>1, <2>2, IsolatedIsExact DEF TryIsolates, Exact
  <2> QED
    BY <1>8, <2>1, <2>2, <2>3 DEF TryIsolates
<1>9. CASE TryGivesUp
  BY <1>9 DEF TryGivesUp, Fault
<1>10. CASE KeepLastGood
  BY <1>10 DEF KeepLastGood, ExistingConfigValid, Activate
<1>11. CASE WriteFallback
  BY <1>11, NeutralIsConfig DEF WriteFallback, Activate, Fault
<1>12. CASE Publish
  <2>1. CASE ready' = TRUE /\ app' = "serving" /\ UNCHANGED faults
    BY <1>12, <2>1 DEF Publish
  <2>2. CASE Fault /\ app' = "lastGood" /\ UNCHANGED ready
    BY <1>12, <2>2 DEF Publish, Fault
  <2>3. CASE Fault /\ app' = "serving" /\ UNCHANGED ready
    BY <1>12, <2>3 DEF Publish, Fault
  <2> QED
    BY <1>12, <2>1, <2>2, <2>3 DEF Publish
<1>13. CASE Request
  <2>1. PICK t, names, undo :
          /\ Edit(t, names, undo) /\ t \in [Hosts -> Backends] /\ names \subseteq Names
          /\ undo \in [table : [Hosts -> Backends], literal : SUBSET Names] \cup {None}
    <3>1. [table |-> table, literal |-> literal]
            \in [table : [Hosts -> Backends], literal : SUBSET Names]
      OBVIOUS
    <3>2. \A h \in Hosts, b \in Backends : [table EXCEPT ![h] = b] \in [Hosts -> Backends]
      OBVIOUS
    <3>3. SUBSET Names \subseteq Backends /\ None \in Backends
      BY DEF Backends
    <3> QED
      BY <1>13, <3>1, <3>2, <3>3 DEF Request
  <2> QED
    BY <2>1 DEF Edit
<1>14. CASE ApplyActivates
  <2>1. Rendered \in Config
    BY <1>0, RenderedIsConfig
  <2> QED
    BY <1>14, <2>1 DEF ApplyActivates, Activate
<1>15. CASE ApplyRefuses
  BY <1>15 DEF ApplyRefuses
<1>16. CASE ApplySignals
  BY <1>16 DEF ApplySignals, PidRunning
<1>17. CASE UNCHANGED vars
  BY <1>17 DEF vars, Exact
<1> QED
  BY <1>1, <1>2, <1>3, <1>4, <1>5, <1>6, <1>7, <1>8, <1>9, <1>10, <1>11, <1>12,
     <1>13, <1>14, <1>15, <1>16, <1>17 DEF Next, Control

(* The inductive invariant of the start holds in every reachable state.    *)
THEOREM StartInvariance == Spec => []StartInv
<1>1. Init => StartInv
  BY StartInit
<1>2. StartInv /\ [Next]_vars => StartInv'
  BY StartNext
<1> QED
  BY <1>1, <1>2, PTL DEF Spec

(* Candidates, nginx.conf and what OpenResty runs are configurations, and  *)
(* a saved table is there only for a change that can be undone.            *)
THEOREM TypeCorrect == Spec => []TypeOK
<1>1. StartInv => TypeOK
  BY DEF StartInv
<1> QED
  BY <1>1, StartInvariance, PTL

(* "Never use mere file existence as the startup signal": while the        *)
(* readiness file may be seen, nginx.conf was tested by this start, and    *)
(* OpenResty runs no other.                                                *)
THEOREM OnlyTestedHolds == Spec => []OnlyTestedIsServed
<1>1. StartInv => OnlyTestedIsServed
  BY DEF StartInv
<1> QED
  BY <1>1, StartInvariance, PTL

(* Isolation keeps every server block and touches only hosts that referred *)
(* to a name OpenResty reported.                                           *)
THEOREM IsolationHolds == Spec => []IsolationIsExact
<1>1. StartInv => IsolationIsExact
  BY DEF StartInv
<1> QED
  BY <1>1, StartInvariance, PTL
-----------------------------------------------------------------------------
(* The ZentLoop integration, whose monitor main starts.  The instance has  *)
(* its own nginx.conf, activated, and its own count of failures, remaining: *)
(* nothing is said here of both components together.                       *)

CONSTANTS
  Clients, Ticker, Upstreams, Default, Secrets, Mask, Rules, Rejected, Inputs, MaxRequests,
  MaxFlips

VARIABLES
  settings, activated, health, service, check, save, before, disturbed, requests, flips,
  remaining

Z == INSTANCE ZentLoopMonitor WITH conf <- activated, faults <- remaining

ConfigOrNone == Z!Config \cup {None}

Working == [step : {"write", "apply", "check", "undo", "reapply"}, old : Z!Config, new : Z!Config]

Saves == {Z!NoSave} \cup Working

Checks == [step : {"idle", "read", "ask", "set"}, config : ConfigOrNone,
           status : Z!Statuses \cup {None}]

(* Types of what the saves and their checks work on.                      *)
Types ==
  /\ settings \in Z!Config /\ activated \in Z!Config
  /\ save \in [Clients -> Saves]
  /\ check \in [Z!Checkers -> Checks]
  /\ before \in [Clients -> (Z!Config \X Z!Config) \cup {None}]
  /\ disturbed \in [Clients -> BOOLEAN]

(* A save checks when it has activated, and does nothing else meanwhile.   *)
OwnCheck ==
  \A s \in Clients \ {Ticker} :
    check[s].step # "idle" /\ save[s].step # "idle" => save[s].step = "check"

(* How far an undisturbed save has come, from what it found.  When its     *)
(* activation has failed, nginx.conf is what it was, or shows the new      *)
(* settings, which OpenResty then accepts.                                 *)
Progress(s) ==
  /\ save[s].old = before[s][1]
  /\ save[s].step \in {"write", "reapply"} => settings = before[s][1]
  /\ save[s].step \in {"apply", "undo", "check"} => settings = save[s].new
  /\ save[s].step = "check" => activated = settings
  /\ save[s].step \in {"write", "apply"} => activated = before[s][2]
  /\ save[s].step \in {"undo", "reapply"} =>
       \/ activated = before[s][2]
       \/ activated = save[s].new /\ Z!Accepted(save[s].new)

SaveInv ==
  /\ Types
  /\ OwnCheck
  /\ \A s \in Clients : save[s].step # "idle" /\ ~disturbed[s] => Progress(s)

Undisturbed(s) == save[s].step # "idle" /\ ~disturbed[s] => Progress(s)

(* The action of UndisturbedSaveIsAtomic.                                  *)
Atomic(s) ==
  save[s].step # "idle" /\ save'[s].step = "idle" /\ ~disturbed[s] =>
    IF save[s].step = "check"
    THEN settings' = save[s].new /\ activated' = settings'
    ELSE /\ settings' = before[s][1]
         /\ \/ activated' = settings'
            \/ /\ ~Z!Accepted(settings) \/ Z!Fault
               /\ \/ activated' = before[s][2]
                  \/ activated' = save[s].new /\ Z!Accepted(save[s].new)

-----------------------------------------------------------------------------
(* Types. *)

LEMMA NoneAtWork == Z!NoSave \in Saves /\ Z!NoCheck \in Checks
BY DEF Saves, Z!NoCheck, Checks, ConfigOrNone

LEMMA MergedIsConfig ==
  ASSUME Z!ZentLoopAssumption, NEW in \in Inputs, NEW old \in Z!Config
  PROVE  Z!Merged(in, old) \in Z!Config
<1>1. /\ in.enabled \in BOOLEAN /\ in.upstream \in Upstreams \cup {None}
      /\ in.secret \in Secrets \cup {None, Mask} /\ in.rules \in Rules \cup {None}
  BY DEF Z!ZentLoopAssumption, Z!Input
<1>2. /\ old.enabled \in BOOLEAN /\ old.upstream \in Upstreams
      /\ old.secret \in Secrets \cup {None} /\ old.rules \in Rules \cup {None}
  BY DEF Z!Config
<1> QED BY <1>1, <1>2 DEF Z!ZentLoopAssumption, Z!Merged, Z!Config

LEMMA StatusIsStatus ==
  ASSUME NEW config
  PROVE  Z!Status(config) \in Z!Statuses
BY DEF Z!Status, Z!Statuses

(* A check that begins, or has an answer.                                  *)
LEMMA CheckValues ==
  ASSUME Types, NEW status \in Z!Statuses
  PROVE  /\ Z!Found(status) \in Checks
         /\ [Z!NoCheck EXCEPT !.step = "ask", !.config = settings] \in Checks
         /\ [Z!NoCheck EXCEPT !.step = "read"] \in Checks
         /\ Z!Found(status).step = "set"
         /\ [Z!NoCheck EXCEPT !.step = "ask", !.config = settings].step = "ask"
         /\ [Z!NoCheck EXCEPT !.step = "read"].step = "read"
BY DEF Z!Found, Checks, Z!NoCheck, ConfigOrNone, Types

(* What a step of one request leaves alone, and what it tells the others.  *)
Frame(s) ==
  /\ \A b \in Clients \ {s} :
       /\ save'[b] = save[b] /\ before'[b] = before[b]
       /\ disturbed[b] => disturbed'[b]
       /\ save[b].step # "idle" => disturbed'[b] \/ Z!stored' = Z!stored
  /\ \A c \in Z!Checkers \ {s} : check'[c] = check[c]

LEMMA OthersKeep ==
  ASSUME SaveInv, NEW s, Frame(s), NEW b \in Clients \ {s}
  PROVE  Undisturbed(b)' /\ Atomic(b)
<1>1. Undisturbed(b)
  BY DEF SaveInv, Undisturbed
<1> QED BY <1>1 DEF Frame, Undisturbed, Progress, Z!stored, Atomic

LEMMA OthersOwnCheck ==
  ASSUME SaveInv, NEW s, Frame(s), s \in Z!Checkers,
         s \in Clients \ {Ticker} /\ check'[s].step # "idle" /\ save'[s].step # "idle"
           => save'[s].step = "check"
  PROVE  OwnCheck'
BY DEF SaveInv, Frame, OwnCheck, Z!Checkers

(* A request is put to another step.                                       *)
LEMMA SaveMoves ==
  ASSUME Types, NEW s \in Clients, save[s].step # "idle",
         NEW step \in {"apply", "check", "undo", "reapply"},
         save' = [save EXCEPT ![s].step = step]
  PROVE  /\ save' \in [Clients -> Saves]
         /\ \A b \in Clients \ {s} : save'[b] = save[b]
         /\ save'[s].step = step /\ save'[s].old = save[s].old /\ save'[s].new = save[s].new
<1>1. save \in [Clients -> Saves]
  BY DEF Types
<1>2. save[s] \in Working
  BY <1>1 DEF Saves, Z!NoSave
<1>3. [save[s] EXCEPT !.step = step] \in Working
  BY <1>2 DEF Working
<1>4. save' = [save EXCEPT ![s] = [save[s] EXCEPT !.step = step]]
  OBVIOUS
<1>5. save'[s] = [save[s] EXCEPT !.step = step]
  BY <1>1, <1>4
<1> QED BY <1>1, <1>2, <1>3, <1>4, <1>5 DEF Saves, Working

(* A save that ends is forgotten.                                          *)
LEMMA EndsForgets ==
  ASSUME Types, NEW s \in Clients, Z!Ends(s)
  PROVE  /\ save' \in [Clients -> Saves]
         /\ before' \in [Clients -> (Z!Config \X Z!Config) \cup {None}]
         /\ \A b \in Clients \ {s} : save'[b] = save[b] /\ before'[b] = before[b]
         /\ save'[s].step = "idle"
<1>1. save \in [Clients -> Saves] /\ before \in [Clients -> (Z!Config \X Z!Config) \cup {None}]
  BY DEF Types
<1>2. save' = [save EXCEPT ![s] = Z!NoSave] /\ before' = [before EXCEPT ![s] = None]
  BY DEF Z!Ends
<1>3. save'[s] = Z!NoSave /\ Z!NoSave.step = "idle"
  BY <1>1, <1>2 DEF Z!NoSave
<1> QED BY <1>1, <1>2, <1>3, NoneAtWork

(* A save that changes something disturbs every other one at work.         *)
LEMMA ChangesDisturbs ==
  ASSUME Types, NEW s \in Clients, Z!Changes(s)
  PROVE  /\ disturbed' \in [Clients -> BOOLEAN]
         /\ disturbed'[s] = disturbed[s]
         /\ \A b \in Clients \ {s} :
              /\ disturbed[b] => disturbed'[b]
              /\ save[b].step # "idle" => disturbed'[b] \/ Z!stored' = Z!stored
<1>1. /\ disturbed \in [Clients -> BOOLEAN]
      /\ \A b \in Clients :
           disturbed'[b] = (disturbed[b] \/ (save[b] # Z!NoSave /\ b # s /\ Z!stored' # Z!stored))
      /\ disturbed' \in [Clients -> BOOLEAN]
  BY DEF Types, Z!Changes
<1>2. \A b \in Clients : save[b].step # "idle" => save[b] # Z!NoSave
  BY DEF Z!NoSave
<1> QED BY <1>1, <1>2

-----------------------------------------------------------------------------
(* What one request does: the types stay, the others are told, and it goes *)
(* on as Progress says or ends as promised.                                *)
Moves(s) ==
  /\ Types' /\ Frame(s)
  /\ s \in Clients => Undisturbed(s)' /\ Atomic(s)
  /\ s \in Clients \ {Ticker} /\ check'[s].step # "idle" /\ save'[s].step # "idle"
       => save'[s].step = "check"

LEMMA MovesKeeps ==
  ASSUME SaveInv, NEW s \in Z!Checkers, Moves(s)
  PROVE  SaveInv' /\ \A b \in Clients : Atomic(b)
<1>1. \A b \in Clients : Undisturbed(b)' /\ Atomic(b)
  BY OthersKeep DEF Moves
<1>2. OwnCheck'
  BY OthersOwnCheck DEF Moves
<1> QED BY <1>1, <1>2 DEF SaveInv, Moves, Undisturbed

(* A check that goes on, and leaves the saves alone.                       *)
LEMMA CheckMoves ==
  ASSUME SaveInv, NEW c \in Z!Checkers, NEW value \in Checks,
         check' = [check EXCEPT ![c] = value],
         UNCHANGED <<settings, activated, save, before, disturbed>>,
         \/ value.step = "idle" \/ check[c].step # "idle" \/ c = Ticker
         \/ (c \in Clients /\ save[c] = Z!NoSave)
  PROVE  Moves(c)
<1>1. /\ check \in [Z!Checkers -> Checks] /\ check' \in [Z!Checkers -> Checks]
      /\ check'[c] = value /\ \A d \in Z!Checkers \ {c} : check'[d] = check[d]
  BY DEF SaveInv, Types
<1>2. Types'
  BY <1>1 DEF SaveInv, Types
<1>3. Frame(c)
  BY <1>1 DEF Frame, Z!stored
<1>4. \A b \in Clients : Undisturbed(b)' /\ Atomic(b)
  BY DEF SaveInv, Undisturbed, Progress, Atomic
<1>5. Z!NoSave.step = "idle"
  BY DEF Z!NoSave
<1> QED BY <1>1, <1>2, <1>3, <1>4, <1>5 DEF Moves, SaveInv, OwnCheck

LEMMA TickMoves ==
  ASSUME SaveInv, NEW c \in Z!Checkers, Z!CheckStarts(c),
         \/ check[c].step # "idle" \/ c = Ticker \/ (c \in Clients /\ save[c] = Z!NoSave)
  PROVE  Moves(c)
<1>1. /\ check' = [check EXCEPT ![c] = [Z!NoCheck EXCEPT !.step = "ask", !.config = settings]]
      /\ UNCHANGED <<settings, activated, save, before, disturbed>>
  BY DEF Z!CheckStarts, Z!stored, Z!history
<1>2. [Z!NoCheck EXCEPT !.step = "ask", !.config = settings] \in Checks
  BY CheckValues DEF SaveInv, Z!Statuses
<1> QED BY <1>1, <1>2, CheckMoves

LEMMA CheckAnswers ==
  ASSUME SaveInv, NEW c \in Z!Checkers, Z!CheckAsks(c) \/ Z!CheckFails(c)
  PROVE  Moves(c)
<1>1. PICK status \in Z!Statuses :
        /\ check[c].step = "ask"
        /\ check' = [check EXCEPT ![c] = Z!Found(status)]
        /\ UNCHANGED <<settings, activated, save, before, disturbed>>
  <2>1. CASE Z!CheckAsks(c)
    BY <2>1, StatusIsStatus DEF Z!CheckAsks, Z!stored, Z!history
  <2>2. CASE Z!CheckFails(c)
    BY <2>2 DEF Z!CheckFails, Z!stored, Z!history, Z!Statuses
  <2> QED BY <2>1, <2>2
<1>2. Z!Found(status) \in Checks
  BY CheckValues DEF SaveInv
<1> QED BY <1>1, <1>2, CheckMoves

LEMMA CheckSetsMoves ==
  ASSUME SaveInv, NEW c \in Z!Checkers, Z!CheckSets(c)
  PROVE  Moves(c)
<1>1. /\ check[c].step = "set" /\ check' = [check EXCEPT ![c] = Z!NoCheck]
      /\ UNCHANGED <<settings, activated, disturbed>>
      /\ IF c # Ticker /\ save[c] # Z!NoSave THEN Z!Ends(c) ELSE UNCHANGED <<save, before>>
  BY DEF Z!CheckSets, Z!stored
<1>2. Z!NoCheck \in Checks /\ Z!NoCheck.step = "idle" /\ Z!NoSave.step = "idle"
  BY NoneAtWork DEF Z!NoCheck, Z!NoSave
<1>3. CASE UNCHANGED <<save, before>>
  BY <1>1, <1>2, <1>3, CheckMoves
<1>4. CASE c # Ticker /\ save[c] # Z!NoSave /\ Z!Ends(c)
  <2>1. c \in Clients
    BY <1>4 DEF Z!Checkers
  <2>2. /\ save' \in [Clients -> Saves]
        /\ before' \in [Clients -> (Z!Config \X Z!Config) \cup {None}]
        /\ \A b \in Clients \ {c} : save'[b] = save[b] /\ before'[b] = before[b]
        /\ save'[c].step = "idle"
    BY <1>4, <2>1, EndsForgets DEF SaveInv
  <2>3. /\ check' \in [Z!Checkers -> Checks]
        /\ \A d \in Z!Checkers \ {c} : check'[d] = check[d]
    BY <1>1, <1>2 DEF SaveInv, Types
  <2>4. Types' /\ Frame(c)
    BY <1>1, <2>2, <2>3 DEF SaveInv, Types, Frame, Z!stored
  <2>5. Atomic(c)
    <3>1. save[c].step # "idle" => save[c].step = "check"
      BY <1>1, <1>4, <2>1 DEF SaveInv, OwnCheck
    <3> QED BY <1>1, <2>1, <3>1 DEF SaveInv, Progress, Atomic
  <2> QED BY <2>2, <2>4, <2>5 DEF Moves, Undisturbed
<1> QED BY <1>1, <1>3, <1>4

LEMMA SaveStartsMoves ==
  ASSUME Z!ZentLoopAssumption, SaveInv, NEW s \in Clients, NEW in \in Inputs,
         Z!SaveStarts(s, in)
  PROVE  Moves(s)
<1> DEFINE value == [step |-> "write", old |-> settings, new |-> Z!Merged(in, settings)]
<1>1. /\ save[s] = Z!NoSave /\ check[s] = Z!NoCheck
      /\ save' = [save EXCEPT ![s] = value]
      /\ before' = [before EXCEPT ![s] = <<settings, activated>>]
      /\ disturbed' = [disturbed EXCEPT ![s] = FALSE]
      /\ UNCHANGED <<settings, activated, check>>
  BY DEF Z!SaveStarts, Z!stored
<1>2. value \in Saves /\ value.step = "write" /\ value.old = settings
  <2>1. Z!Merged(in, settings) \in Z!Config /\ settings \in Z!Config
    BY MergedIsConfig DEF SaveInv, Types
  <2> QED BY <2>1 DEF Saves, Working
<1> HIDE DEF value
<1>3. /\ save' \in [Clients -> Saves] /\ save'[s] = value
      /\ before' \in [Clients -> (Z!Config \X Z!Config) \cup {None}]
      /\ before'[s] = <<settings, activated>>
      /\ disturbed' \in [Clients -> BOOLEAN]
      /\ \A b \in Clients \ {s} : /\ save'[b] = save[b] /\ before'[b] = before[b]
                                  /\ disturbed'[b] = disturbed[b]
  BY <1>1, <1>2 DEF SaveInv, Types
<1>4. Types' /\ Frame(s)
  BY <1>1, <1>3 DEF SaveInv, Types, Frame, Z!stored
<1>5. Undisturbed(s)' /\ Atomic(s)
  BY <1>1, <1>2, <1>3 DEF Undisturbed, Progress, Atomic
<1> QED BY <1>1, <1>4, <1>5 DEF Moves, Z!NoCheck

(* No save but one that checks has a check at work.                        *)
LEMMA SavesAlone ==
  ASSUME SaveInv, NEW s \in Clients, save[s].step \in {"write", "apply", "undo", "reapply"}
  PROVE  /\ s # Ticker => check[s].step = "idle"
         /\ ~disturbed[s] => Progress(s)
         /\ save[s].old \in Z!Config /\ save[s].new \in Z!Config
<1>1. save[s] \in Working
  BY DEF SaveInv, Types, Saves, Z!NoSave
<1> QED BY <1>1 DEF SaveInv, OwnCheck, Working

LEMMA SaveWritesMoves ==
  ASSUME SaveInv, NEW s \in Clients, Z!SaveWrites(s)
  PROVE  Moves(s)
<1>1. /\ save[s].step = "write" /\ UNCHANGED <<activated, check>> /\ Z!Changes(s)
      /\ \/ /\ settings' = save[s].new /\ before' = before
            /\ save' = [save EXCEPT ![s].step = "apply"]
         \/ Z!Fault /\ Z!Ends(s) /\ settings' = settings
  BY DEF Z!SaveWrites
<1>2. /\ disturbed' \in [Clients -> BOOLEAN] /\ disturbed'[s] = disturbed[s]
      /\ \A b \in Clients \ {s} :
           /\ disturbed[b] => disturbed'[b]
           /\ save[b].step # "idle" => disturbed'[b] \/ Z!stored' = Z!stored
  BY <1>1, ChangesDisturbs DEF SaveInv
<1>3. /\ s # Ticker => check[s].step = "idle"
      /\ ~disturbed[s] => Progress(s)
      /\ save[s].old \in Z!Config /\ save[s].new \in Z!Config
  BY <1>1, SavesAlone
<1>4. CASE /\ settings' = save[s].new /\ before' = before
           /\ save' = [save EXCEPT ![s].step = "apply"]
  <2>1. /\ save' \in [Clients -> Saves]
        /\ \A b \in Clients \ {s} : save'[b] = save[b]
        /\ save'[s].step = "apply" /\ save'[s].old = save[s].old /\ save'[s].new = save[s].new
    BY <1>1, <1>4, SaveMoves DEF SaveInv
  <2>2. settings' \in Z!Config
    BY <1>3, <1>4
  <2> QED BY <1>1, <1>2, <1>3, <1>4, <2>1, <2>2
          DEF Moves, SaveInv, Types, Frame, Undisturbed, Progress, Atomic
<1>5. CASE Z!Fault /\ Z!Ends(s) /\ settings' = settings
  <2>1. /\ save' \in [Clients -> Saves]
        /\ before' \in [Clients -> (Z!Config \X Z!Config) \cup {None}]
        /\ \A b \in Clients \ {s} : save'[b] = save[b] /\ before'[b] = before[b]
        /\ save'[s].step = "idle"
    BY <1>5, EndsForgets DEF SaveInv
  <2>2. Types' /\ Frame(s)
    BY <1>1, <1>2, <1>5, <2>1 DEF SaveInv, Types, Frame
  <2>3. Atomic(s)
    BY <1>1, <1>3, <1>5 DEF Progress, Atomic
  <2> QED BY <2>1, <2>2, <2>3 DEF Moves, Undisturbed
<1> QED BY <1>1, <1>4, <1>5

LEMMA SaveAppliesMoves ==
  ASSUME SaveInv, NEW s \in Clients, Z!SaveApplies(s)
  PROVE  Moves(s)
<1>1. /\ save[s].step = "apply" /\ UNCHANGED <<settings, before>> /\ Z!Changes(s)
      /\ activated' = settings /\ save' = [save EXCEPT ![s].step = "check"]
      /\ check' = [check EXCEPT ![s] = [Z!NoCheck EXCEPT !.step = "read"]]
  BY DEF Z!SaveApplies
<1>2. /\ disturbed' \in [Clients -> BOOLEAN] /\ disturbed'[s] = disturbed[s]
      /\ \A b \in Clients \ {s} :
           /\ disturbed[b] => disturbed'[b]
           /\ save[b].step # "idle" => disturbed'[b] \/ Z!stored' = Z!stored
  BY <1>1, ChangesDisturbs DEF SaveInv
<1>3. ~disturbed[s] => Progress(s)
  BY <1>1, SavesAlone
<1>4. /\ save' \in [Clients -> Saves]
      /\ \A b \in Clients \ {s} : save'[b] = save[b]
      /\ save'[s].step = "check" /\ save'[s].old = save[s].old /\ save'[s].new = save[s].new
  BY <1>1, SaveMoves DEF SaveInv
<1>5. /\ check' \in [Z!Checkers -> Checks]
      /\ \A c \in Z!Checkers \ {s} : check'[c] = check[c]
  <2>1. [Z!NoCheck EXCEPT !.step = "read"] \in Checks
    BY CheckValues DEF SaveInv, Z!Statuses
  <2> QED BY <1>1, <2>1 DEF SaveInv, Types
<1>6. Types' /\ Frame(s)
  BY <1>1, <1>2, <1>4, <1>5 DEF SaveInv, Types, Frame
<1>7. Undisturbed(s)' /\ Atomic(s)
  BY <1>1, <1>2, <1>3, <1>4 DEF Undisturbed, Progress, Atomic
<1> QED BY <1>4, <1>6, <1>7 DEF Moves

LEMMA SaveIsRefusedMoves ==
  ASSUME SaveInv, NEW s \in Clients, Z!SaveIsRefused(s)
  PROVE  Moves(s)
<1>1. /\ save[s].step = "apply" /\ save' = [save EXCEPT ![s].step = "undo"]
      /\ UNCHANGED <<settings, check, before>> /\ Z!Changes(s)
      /\ activated' # activated => activated' = settings /\ Z!Accepted(settings)
  BY DEF Z!SaveIsRefused, Z!ApplyFails
<1>2. /\ s # Ticker => check[s].step = "idle"
      /\ ~disturbed[s] => Progress(s)
  BY <1>1, SavesAlone
<1>3. /\ save' \in [Clients -> Saves]
      /\ \A b \in Clients \ {s} : save'[b] = save[b]
      /\ save'[s].step = "undo" /\ save'[s].old = save[s].old /\ save'[s].new = save[s].new
  BY <1>1, SaveMoves DEF SaveInv
<1>6. /\ disturbed' \in [Clients -> BOOLEAN] /\ disturbed'[s] = disturbed[s]
      /\ \A b \in Clients \ {s} :
           /\ disturbed[b] => disturbed'[b]
           /\ save[b].step # "idle" => disturbed'[b] \/ Z!stored' = Z!stored
  BY <1>1, ChangesDisturbs DEF SaveInv
<1>4. Types' /\ Frame(s)
  BY <1>1, <1>3, <1>6 DEF SaveInv, Types, Frame
<1>5. Undisturbed(s)' /\ Atomic(s)
  BY <1>1, <1>2, <1>3, <1>6 DEF Undisturbed, Progress, Atomic, Z!Accepted
<1> QED BY <1>1, <1>2, <1>4, <1>5 DEF Moves

LEMMA SaveUndoesMoves ==
  ASSUME SaveInv, NEW s \in Clients, Z!SaveUndoes(s)
  PROVE  Moves(s)
<1>1. /\ save[s].step = "undo" /\ save' = [save EXCEPT ![s].step = "reapply"]
      /\ UNCHANGED <<activated, check, before>>
      /\ \/ settings' = save[s].old /\ Z!Changes(s)
         \/ settings' = settings /\ disturbed' = [disturbed EXCEPT ![s] = TRUE]
  BY DEF Z!SaveUndoes
<1>2. /\ s # Ticker => check[s].step = "idle"
      /\ ~disturbed[s] => Progress(s)
      /\ save[s].old \in Z!Config /\ save[s].new \in Z!Config
  BY <1>1, SavesAlone
<1>3. /\ save' \in [Clients -> Saves]
      /\ \A b \in Clients \ {s} : save'[b] = save[b]
      /\ save'[s].step = "reapply" /\ save'[s].old = save[s].old /\ save'[s].new = save[s].new
  BY <1>1, SaveMoves DEF SaveInv
<1>4. CASE settings' = save[s].old /\ Z!Changes(s)
  <2>1. /\ disturbed' \in [Clients -> BOOLEAN] /\ disturbed'[s] = disturbed[s]
        /\ \A b \in Clients \ {s} :
             /\ disturbed[b] => disturbed'[b]
             /\ save[b].step # "idle" => disturbed'[b] \/ Z!stored' = Z!stored
    BY <1>4, ChangesDisturbs DEF SaveInv
  <2>2. Types' /\ Frame(s)
    BY <1>1, <1>2, <1>3, <1>4, <2>1 DEF SaveInv, Types, Frame
  <2>3. Undisturbed(s)' /\ Atomic(s)
    BY <1>1, <1>2, <1>3, <1>4, <2>1 DEF Undisturbed, Progress, Atomic
  <2> QED BY <1>1, <1>2, <2>2, <2>3 DEF Moves
<1>5. CASE settings' = settings /\ disturbed' = [disturbed EXCEPT ![s] = TRUE]
  <2>1. /\ disturbed' \in [Clients -> BOOLEAN] /\ disturbed'[s]
        /\ \A b \in Clients \ {s} : disturbed'[b] = disturbed[b]
    BY <1>5 DEF SaveInv, Types
  <2>2. Types' /\ Frame(s)
    BY <1>1, <1>3, <1>5, <2>1 DEF SaveInv, Types, Frame, Z!stored
  <2>3. Undisturbed(s)' /\ Atomic(s)
    BY <1>3, <2>1 DEF Undisturbed, Atomic
  <2> QED BY <1>1, <1>2, <2>2, <2>3 DEF Moves
<1> QED BY <1>1, <1>4, <1>5

LEMMA SaveReappliesMoves ==
  ASSUME SaveInv, NEW s \in Clients, Z!SaveReapplies(s)
  PROVE  Moves(s)
<1>1. /\ save[s].step = "reapply" /\ Z!Ends(s) /\ Z!Changes(s)
      /\ UNCHANGED <<settings, check>>
      /\ \/ activated' = settings
         \/ activated' = activated /\ (~Z!Accepted(settings) \/ Z!Fault)
  BY DEF Z!SaveReapplies, Z!ApplyFails
<1>2. ~disturbed[s] => Progress(s)
  BY <1>1, SavesAlone
<1>3. /\ disturbed' \in [Clients -> BOOLEAN]
      /\ \A b \in Clients \ {s} :
           /\ disturbed[b] => disturbed'[b]
           /\ save[b].step # "idle" => disturbed'[b] \/ Z!stored' = Z!stored
  BY <1>1, ChangesDisturbs DEF SaveInv
<1>4. /\ save' \in [Clients -> Saves]
      /\ before' \in [Clients -> (Z!Config \X Z!Config) \cup {None}]
      /\ \A b \in Clients \ {s} : save'[b] = save[b] /\ before'[b] = before[b]
      /\ save'[s].step = "idle"
  BY <1>1, EndsForgets DEF SaveInv
<1>5. Types' /\ Frame(s)
  BY <1>1, <1>3, <1>4 DEF SaveInv, Types, Frame
<1>6. Atomic(s)
  BY <1>1, <1>2 DEF Progress, Atomic
<1> QED BY <1>4, <1>5, <1>6 DEF Moves, Undisturbed

LEMMA ServiceKeeps ==
  ASSUME SaveInv, UNCHANGED <<settings, activated, check, save, before, disturbed>>
  PROVE  SaveInv' /\ \A b \in Clients : Atomic(b)
BY DEF SaveInv, Types, OwnCheck, Progress, Atomic

LEMMA NextKeeps ==
  ASSUME Z!ZentLoopAssumption, SaveInv, [Z!Next]_(Z!vars)
  PROVE  SaveInv' /\ [\A s \in Clients : Atomic(s)]_(Z!vars)
<1>0. Ticker \in Z!Checkers /\ Clients \subseteq Z!Checkers
  BY DEF Z!Checkers
<1>1. CASE UNCHANGED Z!vars
  BY <1>1, ServiceKeeps DEF Z!vars, Z!stored
<1>2. CASE Z!Tick
  <2> PICK c \in Z!Checkers : c = Ticker
    BY <1>0
  <2>1. Z!CheckStarts(c)
    BY <1>2 DEF Z!Tick
  <2>2. Moves(c)
    BY <2>1, TickMoves
  <2> QED BY <2>2, MovesKeeps
<1>3. ASSUME NEW c \in Clients, Z!Asks(c)
      PROVE  SaveInv' /\ \A s \in Clients : Atomic(s)
  BY <1>0, <1>3, TickMoves, MovesKeeps DEF Z!Asks
<1>4. ASSUME NEW c \in Z!Checkers, Z!Check(c)
      PROVE  SaveInv' /\ \A s \in Clients : Atomic(s)
  BY <1>4, CheckAnswers, CheckSetsMoves, MovesKeeps DEF Z!Check
<1>5. ASSUME NEW s \in Clients, NEW in \in Inputs, Z!SaveStarts(s, in)
      PROVE  SaveInv' /\ \A b \in Clients : Atomic(b)
  <2>1. Moves(s)
    BY <1>5, SaveStartsMoves
  <2> QED BY <1>0, <2>1, MovesKeeps
<1>6. ASSUME NEW s \in Clients, Z!Save(s)
      PROVE  SaveInv' /\ \A b \in Clients : Atomic(b)
  <2> PICK c \in Z!Checkers : c = s
    BY <1>0
  <2>1. ASSUME Z!SaveChecks(s) PROVE Moves(c)
    <3>1. Z!CheckStarts(c) /\ check[c].step # "idle"
      BY <2>1 DEF Z!SaveChecks
    <3> QED BY <3>1, TickMoves
  <2>2. Moves(s)
    BY <1>6, <2>1, SaveWritesMoves, SaveAppliesMoves, SaveIsRefusedMoves, SaveUndoesMoves,
       SaveReappliesMoves DEF Z!Save
  <2> QED BY <1>0, <2>2, MovesKeeps
<1>7. ASSUME NEW u \in Upstreams, NEW v \in Z!Verifies, Z!ServiceChanges(u, v)
      PROVE  SaveInv' /\ \A b \in Clients : Atomic(b)
  BY <1>7, ServiceKeeps DEF Z!ServiceChanges, Z!stored, Z!history
<1> QED BY <1>1, <1>2, <1>3, <1>4, <1>5, <1>6, <1>7 DEF Z!Next

LEMMA InitKeeps ==
  ASSUME Z!ZentLoopAssumption, Z!Init
  PROVE  SaveInv
<1>2. settings \in Z!Config /\ activated \in Z!Config
  BY DEF Z!ZentLoopAssumption, Z!Init, Z!Config
<1>3. Types
  BY <1>2, NoneAtWork DEF Z!Init, Types
<1>4. Z!NoSave.step = "idle" /\ \A s \in Clients : save[s] = Z!NoSave
  BY DEF Z!Init, Z!NoSave
<1> QED BY <1>3, <1>4 DEF SaveInv, OwnCheck

(* How far every save has come, in every state.                            *)
THEOREM SaveInvariance ==
  ASSUME Z!ZentLoopAssumption
  PROVE  Z!Spec => []SaveInv
<1>1. Z!Init => SaveInv
  BY InitKeeps
<1>2. SaveInv /\ [Z!Next]_(Z!vars) => SaveInv'
  BY NextKeeps
<1> QED BY <1>1, <1>2, PTL DEF Z!Spec

(* A save that no other disturbs is one step, whatever checks are under    *)
(* way and whatever statements and activations fail.                       *)
THEOREM SaveIsAtomic ==
  ASSUME Z!ZentLoopAssumption
  PROVE  Z!Spec => Z!UndisturbedSaveIsAtomic
<1>1. SaveInv /\ [Z!Next]_(Z!vars) => [\A s \in Clients : Atomic(s)]_(Z!vars)
  BY NextKeeps
<1>2. Z!Spec => []SaveInv
  BY SaveInvariance
<1> QED BY <1>1, <1>2, PTL DEF Z!Spec, Z!UndisturbedSaveIsAtomic, Atomic
=============================================================================
