--------------------------- MODULE CertificatesProof ---------------------------
(***************************************************************************)
(* Proofs about Certificates for any number of handlers, certificates,     *)
(* pairs, failures and restarts.                                           *)
(***************************************************************************)
EXTENDS Certificates, TLAPS

(* Where a goroutine has a copy of the row that it is going to write.      *)
Copying == {"order", "stage", "write", "fail"}

(* What belongs to one goroutine. *)
Mine(p) == <<pc[p], job[p], seen[p], got[p], todo[p]>>

(* The types without the mutex, which is proved by itself. *)
Types ==
  /\ rows \in [Ids -> Row \cup {None}]
  /\ created \in Ids
  /\ disk \in [Ids -> SUBSET Pairs]
  /\ obtained \in Pairs
  /\ aged \subseteq Pairs
  /\ assigned \subseteq Ids
  /\ conf \in [Ids -> Pairs \cup {NoPair}]
  /\ holder \in Procs \cup {None}
  /\ pc \in [Procs -> Labels]
  /\ job \in [Procs -> Jobs]
  /\ seen \in [Procs -> [Ids -> Row \cup {None}]]
  /\ got \in [Procs -> Pairs \cup {NoPair}]
  /\ todo \in [Procs -> SUBSET Ids]
  /\ restored \in BOOLEAN /\ unapplied \in BOOLEAN /\ raced \in BOOLEAN
  /\ requests \in Nat /\ faults \in Nat /\ crashes \in Nat

Exclusion == \A p \in Procs : pc[p] \in Locked => holder = p

LEMMA TypeParts == TypeOK <=> Types /\ Exclusion
BY DEF TypeOK, Types, Exclusion

LEMMA Constants ==
  /\ InUse \subseteq Ids /\ 1 \in Ids /\ 1 \in Pairs
  /\ Renewer \in Procs /\ None \notin Procs
  /\ \A id \in InUse : id = 1
  /\ \A id \in Ids : id \in Nat /\ id >= 1
  /\ \A k \in Pairs : k \in Nat /\ k # NoPair
  /\ MaxIds \in Nat /\ MaxPairs \in Nat
BY CertificateConstants DEF Ids, Pairs, Procs, NoPair

LEMMA RowTypes ==
  /\ \A auto, managed \in BOOLEAN : NewRow(auto, managed) \in Row
  /\ \A r \in Row, k \in Pairs \cup {NoPair} :
       /\ [r EXCEPT !.path = k] \in Row
       /\ [r EXCEPT !.meta = k] \in Row
       /\ [r EXCEPT !.path = k, !.meta = k, !.failed = FALSE] \in Row
  /\ \A r \in Row, b \in BOOLEAN : [r EXCEPT !.failed = b] \in Row
  /\ None \notin Row
BY RowsAreNotNone DEF NewRow, Row

LEMMA StoredTypes ==
  ASSUME Types, NEW id \in Ids, NEW r \in Row
  PROVE  Stored(id, r) \in [Ids -> Row \cup {None}]
BY DEF Types, Stored

LEMMA LocalTypes ==
  /\ NoRows \in [Ids -> Row \cup {None}]
  /\ Idle \in Jobs
  /\ {"idle", "lock", "create", "read", "order", "stage", "write", "fail", "undo",
      "apply", "drop", "erase", "list", "repair", "edit", "attach", "detach", "activate"}
       = Labels
BY Constants DEF NoRows, Idle, Jobs, Labels

LEMMA RenderedTypes ==
  ASSUME Types, \A id \in assigned : rows[id] # None
  PROVE  Rendered \in [Ids -> Pairs \cup {NoPair}]
BY Constants DEF Types, Rendered, Row

(* A goroutine lets go of the mutex and of its request. *)
LEMMA ReleaseTypes ==
  ASSUME Types, NEW p \in Procs, Release(p)
  PROVE  /\ holder' \in Procs \cup {None} /\ pc' \in [Procs -> Labels]
         /\ job' \in [Procs -> Jobs] /\ seen' \in [Procs -> [Ids -> Row \cup {None}]]
         /\ got' \in [Procs -> Pairs \cup {NoPair}]
BY LocalTypes DEF Types, Release, Labels

-----------------------------------------------------------------------------
(* Types, action by action. *)

LEMMA TypesInit == Init => Types
<1> SUFFICES ASSUME Init PROVE Types
  OBVIOUS
<1>1. rows \in [Ids -> Row \cup {None}]
  BY RowTypes, Constants DEF Init
<1>2. disk \in [Ids -> SUBSET Pairs] /\ assigned \subseteq Ids
  BY Constants DEF Init
<1>4. conf \in [Ids -> Pairs \cup {NoPair}]
  <2>1. \A id \in assigned : rows[id].path \in Pairs \cup {NoPair}
    <3>1. rows[1] # None
      <4>1. rows[1] = CASE 1 = 1 -> [NewRow(TRUE, TRUE) EXCEPT !.path = 1]
                        [] 1 = 2 /\ created = 2 -> [NewRow(FALSE, TRUE) EXCEPT !.failed = TRUE]
                        [] OTHER -> None
        BY Constants, Zenon DEF Init
      <4>2. rows[1] = [NewRow(TRUE, TRUE) EXCEPT !.path = 1]
        BY <4>1
      <4>3. [NewRow(TRUE, TRUE) EXCEPT !.path = 1] \in Row
        BY Constants, RowTypes
      <4> QED BY <4>2, <4>3, RowTypes
    <3>2. \A r \in Row : r.path \in Pairs \cup {NoPair}
      BY DEF Row
    <3> QED BY <1>1, <3>1, <3>2, Constants DEF Init
  <2> QED BY <1>2, <2>1 DEF Init, Rendered
<1>3. /\ pc \in [Procs -> Labels] /\ job \in [Procs -> Jobs]
      /\ seen \in [Procs -> [Ids -> Row \cup {None}]]
      /\ got \in [Procs -> Pairs \cup {NoPair}] /\ todo \in [Procs -> SUBSET Ids]
  BY LocalTypes DEF Init, Labels
<1> QED BY <1>1, <1>2, <1>3, <1>4, Constants DEF Init, Types

LEMMA TypesRequest ==
  ASSUME Types, NEW p \in Procs, Request(p) \/ ReadMetadata(p) \/ RequestRoute(p)
  PROVE  Types'
<1>1. ASSUME NEW kind \in {"issue", "import", "list", "renew", "delete", "metadata",
                           "assign", "unassign", "remove"},
             NEW id \in Ids, NEW label \in {"lock", "edit", "attach", "detach"},
             Begin(p, kind, id, label)
      PROVE  /\ pc' \in [Procs -> Labels] /\ job' \in [Procs -> Jobs] /\ requests' \in Nat
  BY <1>1 DEF Types, Begin, Goto, Jobs, Labels
<1>2. CASE Request(p)
  <2>1. /\ pc' \in [Procs -> Labels] /\ job' \in [Procs -> Jobs] /\ requests' \in Nat
    BY <1>1, <1>2, Constants DEF Request
  <2> QED BY <1>2, <2>1 DEF Types, Request
<1>3. CASE ReadMetadata(p)
  <2>1. PICK id \in Ids : /\ rows[id] # None /\ Begin(p, "metadata", id, "edit")
                          /\ seen' = [seen EXCEPT ![p][id] = rows[id]]
    BY <1>3 DEF ReadMetadata
  <2>2. seen' \in [Procs -> [Ids -> Row \cup {None}]]
    BY <2>1 DEF Types
  <2> QED BY <1>1, <1>3, <2>1, <2>2 DEF Types, ReadMetadata
<1>4. CASE RequestRoute(p)
  <2>1. /\ pc' \in [Procs -> Labels] /\ job' \in [Procs -> Jobs] /\ requests' \in Nat
    <3>1. assigned \subseteq Ids
      BY DEF Types
    <3> QED BY <1>1, <1>4, <3>1 DEF RequestRoute
  <2> QED BY <1>4, <2>1 DEF Types, RequestRoute
<1> QED BY <1>2, <1>3, <1>4

LEMMA TypesCreate ==
  ASSUME Types, NEW p \in Procs, Create(p)
  PROVE  Types'
<1>1. created + 1 \in Ids
  BY Constants DEF Create, Types, Ids
<1>2. PICK r \in Row :
        /\ rows' = [rows EXCEPT ![created + 1] = r]
        /\ seen' = [seen EXCEPT ![p] = [NoRows EXCEPT ![created + 1] = r]]
  BY RowTypes DEF Create
<1>3. /\ rows' \in [Ids -> Row \cup {None}]
      /\ seen' \in [Procs -> [Ids -> Row \cup {None}]]
  BY <1>1, <1>2, LocalTypes DEF Types
<1>4. /\ obtained' \in Pairs /\ got' \in [Procs -> Pairs \cup {NoPair}]
      /\ pc' \in [Procs -> Labels]
  <2>1. CASE Kind(p) = "issue" /\ Goto(p, "order") /\ UNCHANGED <<obtained, got>>
    BY <2>1 DEF Types, Goto, Labels
  <2>2. CASE /\ obtained < MaxPairs /\ obtained' = obtained + 1
             /\ got' = [got EXCEPT ![p] = obtained + 1] /\ Goto(p, "stage")
    <3>1. obtained + 1 \in Pairs
      BY <2>2, Constants DEF Types, Pairs
    <3> QED BY <2>2, <3>1 DEF Types, Goto, Labels
  <2> QED BY <2>1, <2>2 DEF Create
<1>5. job' \in [Procs -> Jobs]
  <2>1. [job[p] EXCEPT !.id = created + 1] \in Jobs
    <3>1. job[p] \in Jobs
      BY DEF Types
    <3> QED BY <1>1, <3>1 DEF Jobs
  <2> QED BY <2>1 DEF Create, Types
<1> QED BY <1>1, <1>3, <1>4, <1>5 DEF Create, Types, history

LEMMA ApplyTypes ==
  ASSUME Types, \A id \in assigned : rows[id] # None, ApplySucceeds \/ ApplyFails
  PROVE  /\ conf' \in [Ids -> Pairs \cup {NoPair}] /\ faults' \in Nat
         /\ unapplied' \in BOOLEAN /\ raced' \in BOOLEAN
<1>1. CASE ApplySucceeds
  BY <1>1, RenderedTypes DEF ApplySucceeds, Types
<1>2. CASE ApplyFails
  <2>1. conf' \in {conf, Rendered} /\ faults' = faults + 1 /\ unapplied' = TRUE /\ raced' = raced
    BY <1>2 DEF ApplyFails, Fails
  <2> QED BY <2>1, RenderedTypes DEF Types
<1> QED BY <1>1, <1>2

LEMMA TypesStep ==
  ASSUME Types, NEW p \in Procs, Step(p),
         pc[p] \in Copying => Own(p) \in Row,
         pc[p] = "repair" => \A id \in todo[p] : seen[p][id] # None,
         pc[p] = "edit" => Own(p) # None,
         pc[p] = "lock" => Kind(p) \in DOMAIN FirstStep,
         pc[p] = "stage" => got[p] # NoPair,
         \A id \in assigned : rows[id] # None
  PROVE  Types'
<1>0. job[p].id \in Ids /\ Own(p) \in Row \cup {None}
  BY DEF Types, Jobs, Own
<1>1. CASE Lock(p)
  <2>1. FirstStep[Kind(p)] \in Labels
    BY <1>1 DEF Lock, At, FirstStep, Labels
  <2> QED BY <1>1, <2>1 DEF Types, Lock, Goto, history
<1>2. CASE Create(p)
  BY <1>2, TypesCreate
<1>3. CASE CannotCreate(p) \/ UndoCreate(p) \/ Listed(p)
  BY <1>0, <1>3, ReleaseTypes DEF CannotCreate, UndoCreate, Listed, DeleteRow, Types, history
<1>4. CASE Read(p)
  <2>1. CASE Proceeds(p, rows[job[p].id])
    <3>1. /\ seen' = [seen EXCEPT ![p][job[p].id] = rows[job[p].id]]
          /\ pc' = [pc EXCEPT ![p] = IF Kind(p) = "delete" THEN "drop" ELSE "order"]
          /\ UNCHANGED <<rows, created, disk, obtained, aged, assigned, conf, todo, history,
                         holder, job, got>>
      BY <1>4, <2>1 DEF Read, Goto
    <3>2. seen' \in [Procs -> [Ids -> Row \cup {None}]]
      BY <1>0, <3>1 DEF Types
    <3>3. pc' \in [Procs -> Labels]
      BY <3>1 DEF Types, Labels
    <3> QED BY <3>1, <3>2, <3>3 DEF Types, history
  <2>2. CASE ~Proceeds(p, rows[job[p].id])
    BY <1>4, <2>2, ReleaseTypes DEF Read, Types, history
  <2> QED BY <2>1, <2>2
<1>5. CASE Order(p)
  BY <1>5, Constants DEF Order, Types, Pairs, Goto, Labels, history
<1>6. CASE Stage(p)
  <2>1. got[p] \in Pairs \cup {NoPair} /\ Own(p) \in Row
    BY <1>6 DEF Stage, At, Types, Copying
  <2>2. seen' \in [Procs -> [Ids -> Row \cup {None}]]
    BY <1>0, <1>6, <2>1, RowTypes DEF Stage, Types, Own
  <2>3. disk' \in [Ids -> SUBSET Pairs]
    <3>1. got[p] \in Pairs
      BY <1>6, <2>1 DEF Stage, At
    <3> QED BY <1>0, <1>6, <3>1 DEF Stage, Types
  <2> QED BY <1>6, <2>2, <2>3 DEF Stage, Types, Goto, Labels, history
<1>7. CASE Write(p)
  <2>1. Own(p) \in Row
    BY <1>7 DEF Write, At, Copying
  <2>2. rows' \in [Ids -> Row \cup {None}]
    BY <1>0, <1>7, <2>1, StoredTypes DEF Write
  <2>3. CASE Release(p)
    BY <1>7, <2>2, <2>3, ReleaseTypes DEF Write, Types, history
  <2>4. CASE Goto(p, "apply") /\ UNCHANGED <<holder, job, seen, got>>
    BY <1>7, <2>2, <2>4 DEF Write, Types, Goto, Labels, history
  <2> QED BY <1>7, <2>3, <2>4 DEF Write
<1>8. CASE OrderFails(p) \/ StageFails(p)
  <2>1. pc' \in [Procs -> Labels] /\ faults' \in Nat
    BY <1>8 DEF OrderFails, StageFails, Fails, Types, Goto, Labels
  <2> QED BY <1>8, <2>1 DEF OrderFails, StageFails, Types
<1>9. CASE StoreError(p)
  <2>1. [Own(p) EXCEPT !.failed = TRUE] \in Row
    BY <1>9, RowTypes DEF StoreError, At, Copying
  <2>2. rows' \in [Ids -> Row \cup {None}]
    BY <1>0, <1>9, <2>1, StoredTypes DEF StoreError
  <2> QED BY <1>9, <2>2, ReleaseTypes DEF StoreError, Types, history
<1>10. CASE WriteFails(p)
  <2>1. CASE Release(p)
    BY <1>10, <2>1, ReleaseTypes DEF WriteFails, Fails, Types
  <2>2. CASE ~Release(p)
    BY <1>10, <2>2 DEF WriteFails, Fails, Types, Goto, Labels
  <2> QED BY <2>1, <2>2
<1>11. CASE Apply(p)
  <2> QED BY <1>11, ApplyTypes, ReleaseTypes DEF Apply, Types
<1>12. CASE DropRow(p) \/ Erase(p)
  <2>1. CASE DropRow(p)
    BY <1>0, <2>1 DEF DropRow, DeleteRow, Types, Goto, Labels, history
  <2>2. CASE Erase(p)
    BY <1>0, <2>2, ReleaseTypes DEF Erase, Types, history
  <2> QED BY <1>12, <2>1, <2>2
<1>13. CASE ListRows(p)
  BY <1>13 DEF ListRows, Types, Goto, Labels, history
<1>14. CASE Repair(p)
  <2>1. PICK id \in todo[p] :
          /\ rows' = IF seen[p][id].path \in disk[id]
                     THEN Stored(id, [seen[p][id] EXCEPT !.meta = seen[p][id].path])
                     ELSE rows
          /\ todo' = [todo EXCEPT ![p] = @ \ {id}]
    BY <1>14 DEF Repair
  <2>2. id \in Ids /\ seen[p][id] \in Row /\ seen[p][id].path \in Pairs \cup {NoPair}
    BY <1>14 DEF Repair, At, Types, Row
  <2>3. rows' \in [Ids -> Row \cup {None}]
    BY <2>1, <2>2, RowTypes, StoredTypes DEF Types
  <2> QED BY <1>14, <2>1, <2>3 DEF Repair, Types, history
<1>15. CASE EditMetadata(p)
  <2>1. Own(p) \in Row
    BY <1>0, <1>15 DEF EditMetadata, At
  <2>2. rows' \in [Ids -> Row \cup {None}] /\ restored' \in BOOLEAN
    BY <1>0, <1>15, <2>1, StoredTypes DEF EditMetadata, Types, Replaces
  <2> QED BY <1>15, <2>2, LocalTypes DEF EditMetadata, Ends, Types, Labels
<1>16. CASE Attach(p) \/ Detach(p)
  <2>1. /\ assigned' \subseteq Ids
        /\ UNCHANGED <<rows, created, disk, obtained, aged, conf, holder, got, todo, history>>
    BY <1>0, <1>16 DEF Attach, Detach, Types
  <2>2. Ends(p) \/ (Goto(p, "activate") /\ UNCHANGED <<job, seen>>)
    BY <1>16 DEF Attach, Detach
  <2>3. /\ pc' \in [Procs -> Labels] /\ job' \in [Procs -> Jobs]
        /\ seen' \in [Procs -> [Ids -> Row \cup {None}]]
    <3>1. CASE Ends(p)
      BY <3>1, LocalTypes DEF Ends, Types, Labels
    <3>2. CASE Goto(p, "activate") /\ UNCHANGED <<job, seen>>
      BY <3>2, LocalTypes DEF Goto, Types, Labels
    <3> QED BY <2>2, <3>1, <3>2
  <2> QED BY <2>1, <2>3 DEF Types, history
<1>17. CASE Activate(p)
  <2>1. \/ Ends(p)
        \/ /\ job' = [job EXCEPT ![p].kind = "remove"] /\ UNCHANGED seen
           /\ pc' = [pc EXCEPT ![p] = IF Kind(p) = "assign" THEN "detach" ELSE "attach"]
    BY <1>17 DEF Activate, Goto
  <2>2. pc' \in [Procs -> Labels] /\ seen' \in [Procs -> [Ids -> Row \cup {None}]]
    BY <2>1, LocalTypes DEF Ends, Types, Labels
  <2>3. job' \in [Procs -> Jobs]
    <3>1. [job[p] EXCEPT !.kind = "remove"] \in Jobs
      BY DEF Types, Jobs
    <3> QED BY <2>1, <3>1, LocalTypes DEF Ends, Types
  <2> QED BY <1>17, <2>2, <2>3, ApplyTypes DEF Activate, Types
<1> QED BY <1>1, <1>2, <1>3, <1>4, <1>5, <1>6, <1>7, <1>8, <1>9, <1>10, <1>11, <1>12,
           <1>13, <1>14, <1>15, <1>16, <1>17 DEF Step

(* The renewal loop, the clock and the container.                          *)
Elsewhere == RenewDue \/ RenewNext \/ Age \/ Restart

LEMMA TypesElsewhere ==
  ASSUME Types, Elsewhere, \A id \in assigned : rows[id] # None
  PROVE  Types'
<1>1. CASE RenewDue
  BY <1>1 DEF RenewDue, Types, history
<1>2. CASE RenewNext
  BY <1>2, Constants DEF RenewNext, Types, Goto, Labels, Jobs, history
<1>3. CASE Age
  <2>1. PICK k \in 1..obtained : aged' = 1..k
    BY <1>3 DEF Age
  <2>2. aged' \subseteq Pairs
    BY <2>1, Constants DEF Types, Pairs
  <2> QED BY <1>3, <2>2 DEF Age, Types, local, history
<1>4. CASE Restart
  <2>1. /\ pc' \in [Procs -> Labels] /\ job' \in [Procs -> Jobs]
        /\ seen' \in [Procs -> [Ids -> Row \cup {None}]]
        /\ got' \in [Procs -> Pairs \cup {NoPair}] /\ todo' \in [Procs -> SUBSET Ids]
    BY <1>4, LocalTypes DEF Restart, Labels
  <2>2. conf' \in [Ids -> Pairs \cup {NoPair}] /\ crashes' \in Nat
    BY <1>4, RenderedTypes DEF Restart, Types
  <2> QED BY <1>4, <2>1, <2>2 DEF Restart, Types
<1> QED BY <1>1, <1>2, <1>3, <1>4 DEF Elsewhere

-----------------------------------------------------------------------------
(* The mutex. *)

LEMMA OthersKeep ==
  ASSUME Types, NEW p \in Procs, Step(p) \/ Request(p) \/ ReadMetadata(p) \/ RequestRoute(p),
         NEW q \in Procs, q # p
  PROVE  /\ pc'[q] = pc[q] /\ job'[q] = job[q] /\ seen'[q] = seen[q]
         /\ got'[q] = got[q] /\ todo'[q] = todo[q]
<1> USE DEF Types, Goto, Release, history
<1>1. CASE Request(p) \/ ReadMetadata(p) \/ RequestRoute(p)
  BY <1>1 DEF Request, ReadMetadata, RequestRoute, Begin
<1>2. CASE Lock(p) \/ Create(p) \/ CannotCreate(p)
  BY <1>2 DEF Lock, Create, CannotCreate
<1>3. CASE Read(p) \/ Order(p) \/ Stage(p) \/ Write(p)
  BY <1>3 DEF Read, Order, Stage, Write
<1>4. CASE OrderFails(p) \/ StageFails(p) \/ StoreError(p) \/ WriteFails(p)
  BY <1>4 DEF OrderFails, StageFails, StoreError, WriteFails
<1>5. CASE UndoCreate(p) \/ Apply(p) \/ DropRow(p) \/ Erase(p)
  BY <1>5 DEF UndoCreate, Apply, DropRow, Erase
<1>6. CASE ListRows(p) \/ Repair(p) \/ Listed(p) \/ EditMetadata(p)
  BY <1>6 DEF ListRows, Repair, Listed, EditMetadata, Ends
<1>7. CASE Attach(p) \/ Detach(p) \/ Activate(p)
  BY <1>7 DEF Attach, Detach, Activate, Ends
<1> QED BY <1>1, <1>2, <1>3, <1>4, <1>5, <1>6, <1>7 DEF Step

(* A step takes the mutex, works under it, releases it, or does without.   *)
LEMMA LockDiscipline ==
  ASSUME Types, NEW p \in Procs, Step(p)
  PROVE  \/ pc[p] = "lock" /\ holder = None /\ holder' = p
         \/ pc[p] \in Locked /\ holder' = holder
         \/ pc[p] \in Locked /\ holder' = None /\ pc'[p] = "idle"
         \/ pc[p] \in Unguarded \ {"lock"} /\ holder' = holder /\ pc'[p] \notin Locked
<1> USE DEF Types, At, Release, Locked, Unguarded, Labels, history
<1>2. CASE Lock(p) \/ Create(p) \/ CannotCreate(p)
  BY <1>2 DEF Lock, Free, Create, CannotCreate
<1>3. CASE Read(p) \/ Order(p) \/ Stage(p) \/ Write(p)
  BY <1>3 DEF Read, Order, Stage, Write
<1>4. CASE OrderFails(p) \/ StageFails(p) \/ StoreError(p) \/ WriteFails(p)
  BY <1>4 DEF OrderFails, StageFails, StoreError, WriteFails
<1>5. CASE UndoCreate(p) \/ Apply(p) \/ DropRow(p) \/ Erase(p)
  BY <1>5 DEF UndoCreate, Apply, DropRow, Erase
<1>6. CASE ListRows(p) \/ Repair(p) \/ Listed(p) \/ EditMetadata(p)
  BY <1>6 DEF ListRows, Repair, Listed, EditMetadata, Ends
<1>7. CASE Attach(p) \/ Detach(p) \/ Activate(p)
  BY <1>7 DEF Attach, Detach, Activate, Ends, Goto
<1> QED BY <1>2, <1>3, <1>4, <1>5, <1>6, <1>7 DEF Step

LEMMA ExclusionStep ==
  ASSUME Types, Types', Exclusion, [Next]_vars
  PROVE  Exclusion'
<1>1. CASE UNCHANGED vars
  BY <1>1 DEF vars, local, Exclusion
<1>2. ASSUME NEW p \in Procs, Step(p) PROVE Exclusion'
  BY <1>2, OthersKeep, LockDiscipline, Constants DEF Exclusion, Locked, Unguarded
<1>3. ASSUME NEW p \in Handlers, Request(p) \/ ReadMetadata(p) \/ RequestRoute(p)
      PROVE  Exclusion'
  <2>1. p \in Procs /\ pc'[p] \notin Locked /\ holder' = holder
    BY <1>3 DEF Request, ReadMetadata, RequestRoute, Begin, Goto, Types, Locked, Unguarded, Procs
  <2> QED BY <1>3, <2>1, OthersKeep DEF Exclusion
<1>4. CASE Elsewhere
  BY <1>4, Constants DEF Elsewhere, RenewDue, RenewNext, Age, Restart, Goto, local,
     Exclusion, Types, Locked, Unguarded
<1> QED BY <1>1, <1>2, <1>3, <1>4 DEF Next, Elsewhere

-----------------------------------------------------------------------------
(* What a step may do to rows and files: no deleted certificate and none   *)
(* of its files comes back, files are erased only after their row, a row   *)
(* is written with a pair that is on disk, and rows come and go under the  *)
(* mutex.                                                                  *)
TableStep(held) ==
  /\ created <= created'
  /\ \A id \in Ids :
       /\ rows[id] = None /\ id <= created => rows'[id] = None /\ disk'[id] \subseteq disk[id]
       /\ rows[id] # None => disk[id] \subseteq disk'[id]
       /\ rows[id] # None /\ rows'[id] = None => held /\ id \notin assigned'
       /\ rows[id] = None /\ rows'[id] # None => held /\ id <= created'
       /\ rows'[id] \in {None, rows[id]} \/ WellFounded(id, rows[id])'

(* What it may do to nginx.conf and to the use of certificates: either it  *)
(* renders what there is, or it takes nothing out of use without owing an  *)
(* Apply and takes into use only what there is.                            *)
RouteStep ==
  \/ UNCHANGED <<rows, assigned>> /\ conf' = Rendered
  \/ /\ conf' = conf /\ (Owed => Owed')
     /\ assigned' \subseteq assigned \cup {id \in Ids : rows[id] # None}
     /\ assigned \subseteq assigned' \/ Owed'

(* CertificateInv without what belongs to single goroutines.               *)
Shared ==
  \A id \in Ids : rows[id] # None =>
    /\ rows[id].path # NoPair => rows[id].path \in disk[id]
    /\ id <= created

Routes ==
  /\ \A id \in assigned : rows[id] # None
  /\ \A id \in Ids : conf[id] # NoPair =>
       /\ rows[id] # None => conf[id] \in disk[id]
       /\ id <= created
       /\ id \in assigned \/ Owed

LEMMA InvParts ==
  CertificateInv <=> /\ Types /\ Exclusion /\ Shared /\ Routes
                     /\ \A p \in Procs : KindFits(p) /\ WorkFits(p)
BY TypeParts DEF CertificateInv, Shared, Routes, MaterialOnDisk

LEMMA NextParts ==
  ASSUME Types', Exclusion', Shared', Routes', \A p \in Procs : KindFits(p)' /\ WorkFits(p)'
  PROVE  CertificateInv'
<1>1. TypeOK'
  BY DEF TypeOK, Types, Exclusion
<1>2. MaterialOnDisk'
  BY DEF Shared, Routes, MaterialOnDisk
<1> QED BY <1>1, <1>2 DEF CertificateInv, Shared, Routes

LEMMA SharedStep ==
  ASSUME Types, Types', Shared, NEW held, TableStep(held)
  PROVE  Shared'
<1>1. ASSUME NEW id \in Ids, rows'[id] # None
      PROVE  /\ rows'[id].path # NoPair => rows'[id].path \in disk'[id]
             /\ id <= created'
  <2>1. CASE rows'[id] = rows[id]
    <3>1. rows[id] # None /\ id <= created /\ created <= created' /\ disk[id] \subseteq disk'[id]
      BY <1>1, <2>1 DEF TableStep, Shared
    <3> QED BY <1>1, <2>1, <3>1, Constants DEF Shared, Types
  <2>2. CASE rows'[id] # rows[id]
    <3>1. WellFounded(id, rows[id])'
      BY <1>1, <2>2 DEF TableStep
    <3>2. id <= created'
      BY <1>1, Constants DEF TableStep, Shared, Types
    <3> QED BY <3>1, <3>2 DEF WellFounded
  <2> QED BY <2>1, <2>2
<1> QED BY <1>1 DEF Shared

(* A certificate in use keeps its row, and nginx.conf its material.        *)
LEMMA RoutesStep ==
  ASSUME Types, Types', Shared, Routes, NEW held, TableStep(held), RouteStep
  PROVE  Routes'
<1>1. ASSUME NEW id \in assigned' PROVE rows'[id] # None
  <2>1. id \in Ids /\ rows[id] # None
    BY DEF RouteStep, Routes, Types
  <2> QED BY <2>1 DEF TableStep
<1>2. ASSUME NEW id \in Ids, conf'[id] # NoPair
      PROVE  /\ rows'[id] # None => conf'[id] \in disk'[id]
             /\ id <= created'
             /\ id \in assigned' \/ Owed'
  <2>0. created \in Nat /\ created' \in Nat /\ id \in Nat /\ created <= created'
    BY Constants DEF Types, TableStep
  <2>1. CASE UNCHANGED <<rows, assigned>> /\ conf' = Rendered
    <3>1. id \in assigned /\ conf'[id] = rows[id].path
      BY <1>2, <2>1 DEF Rendered
    <3>2. rows[id] # None /\ rows[id].path \in disk[id] /\ id <= created
      BY <1>2, <3>1 DEF Routes, Shared
    <3>3. disk[id] \subseteq disk'[id]
      BY <3>2 DEF TableStep
    <3> QED BY <2>0, <2>1, <3>1, <3>2, <3>3
  <2>2. CASE ~(UNCHANGED <<rows, assigned>> /\ conf' = Rendered)
    <3>1. /\ conf' = conf /\ (Owed => Owed')
          /\ assigned \subseteq assigned' \/ Owed'
      BY <2>2 DEF RouteStep
    <3>2. /\ rows[id] # None => conf[id] \in disk[id]
          /\ id <= created
          /\ id \in assigned \/ Owed
      BY <1>2, <3>1 DEF Routes
    <3>3. rows'[id] # None => rows[id] # None /\ disk[id] \subseteq disk'[id]
      BY <3>2 DEF TableStep
    <3>4. id <= created'
      BY <2>0, <3>2
    <3> QED BY <3>1, <3>2, <3>3, <3>4
  <2> QED BY <2>1, <2>2
<1> QED BY <1>1, <1>2 DEF Routes

(* The others: under the mutex they are alone with the tables, and before  *)
(* or beside it the tables change little enough.                           *)
LEMMA OthersWork ==
  ASSUME Types, Types', Exclusion, Shared, NEW q \in Procs, WorkFits(q), NEW held,
         TableStep(held), held => pc[q] \notin Locked,
         pc'[q] = pc[q], job'[q] = job[q], seen'[q] = seen[q], got'[q] = got[q],
         todo'[q] = todo[q]
  PROVE  WorkFits(q)'
<1>0. job[q].id \in Ids /\ job'[q].id = job[q].id /\ Own(q)' = Own(q)
  BY DEF Types, Jobs, Own
<1>1. CASE pc[q] \in Locked
  <2>1. \A id \in Ids : rows[id] # None => rows'[id] # None /\ disk[id] \subseteq disk'[id]
    BY <1>1 DEF TableStep
  <2>2. pc[q] \in {"order", "stage", "write", "fail"} => WellFounded(job[q].id, Own(q))'
    BY <1>0, <2>1 DEF WorkFits, WellFounded
  <2>3. pc[q] = "erase" => rows'[job[q].id] = None /\ job[q].id <= created'
    BY <1>0, Constants DEF WorkFits, TableStep, Types
  <2>4. pc[q] # "edit"
    BY <1>1 DEF Locked, Unguarded
  <2>5. pc[q] \in {"order", "stage", "write", "fail", "undo", "apply", "drop"} =>
          rows'[job[q].id] # None
    BY <1>0, <2>1 DEF WorkFits
  <2> QED BY <1>0, <2>2, <2>3, <2>4, <2>5 DEF WorkFits
<1>2. CASE pc[q] = "edit"
  <2>1. Own(q) # None /\ job[q].id <= created /\ created <= created'
    BY <1>2 DEF WorkFits, TableStep
  <2>2. job[q].id <= created'
    BY <1>0, <2>1, Constants DEF Types
  <2>3. ASSUME rows'[job[q].id] # None PROVE WellFounded(job[q].id, Own(q))'
    <3>1. rows[job[q].id] # None
      BY <1>0, <2>1, <2>3 DEF TableStep
    <3>2. WellFounded(job[q].id, Own(q)) /\ disk[job[q].id] \subseteq disk'[job[q].id]
      BY <1>0, <1>2, <3>1 DEF WorkFits, TableStep
    <3> QED BY <1>0, <3>2 DEF WellFounded
  <2> QED BY <1>0, <1>2, <2>1, <2>2, <2>3 DEF WorkFits
<1>3. CASE pc[q] \in Unguarded \ {"edit"}
  BY <1>3 DEF WorkFits, Unguarded
<1> QED BY <1>1, <1>2, <1>3 DEF Locked, Types

-----------------------------------------------------------------------------
(* The step's own goroutine, action by action. *)

LEMMA TablesKept ==
  ASSUME Types, UNCHANGED <<rows, created, disk>>, NEW held
  PROVE  TableStep(held)
BY Constants DEF TableStep, Types

(* A row is replaced by a copy that is well founded.                       *)
LEMMA CopyStored ==
  ASSUME Types, NEW id \in Ids, NEW r \in Row, rows[id] # None => WellFounded(id, r),
         rows' = Stored(id, r), UNCHANGED <<created, disk>>, NEW held
  PROVE  TableStep(held)
<1>1. \A i \in Ids : rows'[i] = rows[i] \/ (i = id /\ rows[id] # None /\ rows'[i] = r)
  BY DEF Types, Stored
<1>2. r # None /\ created <= created
  <2>1. r # None
    BY RowTypes
  <2>2. created \in Nat
    BY Constants DEF Types
  <2> QED BY <2>1, <2>2
<1>3. ASSUME NEW i \in Ids, rows'[i] # rows[i] PROVE WellFounded(i, rows[i])' /\ rows'[i] # None
  BY <1>1, <1>2, <1>3 DEF WellFounded
<1> QED BY <1>1, <1>2, <1>3 DEF TableStep

LEMMA IdleFits ==
  ASSUME NEW p \in Procs, pc'[p] \in Unguarded \ {"lock", "edit"}
  PROVE  KindFits(p)' /\ WorkFits(p)'
BY DEF KindFits, WorkFits, Unguarded

LEMMA ReleaseFits ==
  ASSUME Types, Types', NEW p \in Procs, Release(p)
  PROVE  KindFits(p)' /\ WorkFits(p)'
<1>1. pc'[p] \in Unguarded \ {"lock", "edit"}
  BY DEF Release, Types, Unguarded
<1> QED BY <1>1, IdleFits

LEMMA StepEffect ==
  ASSUME CertificateInv, Types', NEW p \in Procs, Step(p)
  PROVE  TableStep(pc[p] \in Locked) /\ KindFits(p)' /\ WorkFits(p)'
<1> DEFINE held == pc[p] \in Locked
<1>0. /\ Types /\ Shared /\ KindFits(p) /\ WorkFits(p)
      /\ job[p].id \in Ids /\ Own(p) \in Row \cup {None} /\ Kind(p) = job[p].kind
      /\ pc[p] \in Labels
  BY InvParts DEF Types, Jobs, Own, Kind
<1>1. CASE Lock(p)
  <2>1. TableStep(held)
    BY <1>0, <1>1, TablesKept DEF Lock
  <2>2. /\ pc[p] = "lock" /\ pc'[p] = FirstStep[Kind(p)] /\ Kind(p)' = Kind(p)
        /\ job' = job /\ rows' = rows
    BY <1>0, <1>1 DEF Lock, At, Goto, Types, Kind
  <2>3. pc'[p] \in {"create", "list", "read"}
    BY <1>0, <2>2 DEF KindFits, FirstStep
  <2>4. KindFits(p)'
    BY <1>0, <2>2, <2>3 DEF KindFits, FirstStep
  <2>5. WorkFits(p)'
    BY <2>3 DEF WorkFits
  <2> QED BY <2>1, <2>4, <2>5
<1>2. CASE Create(p)
  <2>0. PICK new \in Ids : new = created + 1
    BY <1>0, <1>2, Constants DEF Create, Types, Ids
  <2>1. PICK r \in Row : /\ r.path = NoPair
                         /\ rows' = [rows EXCEPT ![new] = r]
                         /\ seen' = [seen EXCEPT ![p] = [NoRows EXCEPT ![new] = r]]
    BY <1>2, <2>0, RowTypes DEF Create, NewRow
  <2>2. /\ new \in Ids /\ created' = new /\ created < new /\ rows[new] = None
        /\ pc[p] = "create" /\ job'[p] = [job[p] EXCEPT !.id = new]
        /\ UNCHANGED disk /\ pc'[p] \in {"order", "stage"}
    BY <1>0, <1>2, <2>0, Constants DEF Create, At, Goto, Types, Ids, Shared
  <2>3. pc'[p] = "stage" => got'[p] # NoPair
    BY <1>0, <1>2, Constants DEF Create, Goto, Types, NoPair
  <2>4. TableStep(held)
    <3>1. \A i \in Ids : i # new => rows'[i] = rows[i]
      BY <1>0, <2>1 DEF Types
    <3>2. WellFounded(new, rows[new])' /\ rows'[new] = r /\ r # None
      BY <1>0, <2>1, <2>2, RowTypes DEF WellFounded, Types
    <3>3. held
      BY <2>2 DEF Locked, Unguarded, Labels
    <3> QED BY <1>0, <2>2, <3>1, <3>2, <3>3, Constants DEF TableStep, Types
  <2>5. job'[p].id = new /\ Kind(p)' = Kind(p) /\ Own(p)' = r /\ rows'[new] = r /\ r # None
    <3>1. job'[p].id = new /\ job'[p].kind = job[p].kind
      BY <2>2 DEF Types, Jobs
    <3>2. seen'[p][new] = r /\ rows'[new] = r
      BY <1>0, <2>1, LocalTypes DEF Types
    <3>3. r # None
      BY RowTypes
    <3> QED BY <3>1, <3>2, <3>3 DEF Own, Kind
  <2>6. KindFits(p)'
    BY <1>0, <2>2, <2>5 DEF KindFits
  <2>7. WorkFits(p)'
    BY <2>1, <2>2, <2>3, <2>5 DEF WorkFits, WellFounded
  <2> QED BY <2>4, <2>6, <2>7
<1>3. CASE CannotCreate(p) \/ Listed(p)
  <2>1. TableStep(held)
    BY <1>0, <1>3, TablesKept DEF CannotCreate, Listed
  <2> QED BY <1>0, <1>3, <2>1, ReleaseFits DEF CannotCreate, Listed
<1>4. CASE Read(p)
  <2>1. TableStep(held)
    BY <1>0, <1>4, TablesKept DEF Read
  <2>2. CASE Proceeds(p, rows[job[p].id])
    <3>1. /\ seen' = [seen EXCEPT ![p][job[p].id] = rows[job[p].id]]
          /\ pc'[p] = IF Kind(p) = "delete" THEN "drop" ELSE "order"
          /\ UNCHANGED <<rows, created, disk, job>> /\ pc[p] = "read"
      BY <1>0, <1>4, <2>2 DEF Read, Goto, At, Types
    <3>2. Kind(p)' = Kind(p) /\ Own(p)' = rows[job[p].id]
      BY <1>0, <3>1 DEF Own, Kind, Types
    <3>3. WellFounded(job[p].id, rows[job[p].id]) /\ rows[job[p].id] # None
      BY <1>0, <2>2 DEF WellFounded, Proceeds, Shared
    <3>4. KindFits(p)'
      BY <1>0, <3>1, <3>2 DEF KindFits
    <3>5. WorkFits(p)'
      BY <3>1, <3>2, <3>3 DEF WorkFits, WellFounded
    <3> QED BY <2>1, <3>4, <3>5
  <2>3. CASE ~Proceeds(p, rows[job[p].id])
    BY <1>0, <1>4, <2>1, <2>3, ReleaseFits DEF Read
  <2> QED BY <2>2, <2>3
<1>5. CASE Order(p)
  <2>1. TableStep(held)
    BY <1>0, <1>5, TablesKept DEF Order
  <2>2. /\ pc[p] = "order" /\ pc'[p] = "stage" /\ got'[p] # NoPair
        /\ UNCHANGED <<rows, created, disk, job, seen>>
    BY <1>0, <1>5, Constants DEF Order, At, Goto, Types, NoPair
  <2>3. KindFits(p)'
    BY <1>0, <2>2 DEF KindFits, Kind
  <2>4. WorkFits(p)'
    BY <1>0, <2>2 DEF WorkFits, WellFounded, Own
  <2> QED BY <2>1, <2>3, <2>4
<1>6. CASE Stage(p)
  <2>1. /\ pc[p] = "stage" /\ pc'[p] = "write"
        /\ UNCHANGED <<rows, created, job, got>>
        /\ disk' = [disk EXCEPT ![job[p].id] = @ \cup {got[p]}]
        /\ seen'[p][job[p].id] = [Own(p) EXCEPT !.path = got[p], !.meta = got[p],
                                                !.failed = FALSE]
    BY <1>0, <1>6 DEF Stage, At, Goto, Types, Own
  <2>2. got[p] # NoPair /\ Own(p) \in Row /\ rows[job[p].id] # None /\ got[p] \in Pairs
    BY <1>0, <2>1 DEF WorkFits, WellFounded, Types
  <2>3. /\ Own(p)' # None /\ Own(p)'.path = got[p]
    <3>1. seen'[p][job[p].id] \in Row /\ seen'[p][job[p].id].path = got[p]
      BY <2>1, <2>2 DEF Row
    <3> QED BY <2>1, <3>1, RowTypes DEF Own
  <2>4. got[p] \in disk'[job[p].id]
    BY <1>0, <2>1 DEF Types
  <2>5. TableStep(held)
    <3>1. \A id \in Ids : disk[id] \subseteq disk'[id] /\ (id # job[p].id => disk'[id] = disk[id])
      BY <1>0, <2>1 DEF Types
    <3> QED BY <1>0, <2>1, <2>2, <3>1, Constants DEF TableStep, Types
  <2>6. KindFits(p)'
    BY <1>0, <2>1 DEF KindFits, Kind
  <2>7. WorkFits(p)'
    BY <2>1, <2>2, <2>3, <2>4 DEF WorkFits, WellFounded
  <2> QED BY <2>5, <2>6, <2>7
<1>7. CASE Write(p)
  <2>1. /\ pc[p] = "write" /\ rows[job[p].id] # None /\ WellFounded(job[p].id, Own(p))
        /\ Own(p) \in Row
    BY <1>0, <1>7 DEF Write, At, WorkFits, WellFounded
  <2>2. TableStep(held)
    BY <1>0, <1>7, <2>1, CopyStored DEF Write
  <2>3. /\ pc'[p] = "apply" /\ job' = job /\ rows'[job[p].id] # None
    BY <1>0, <1>7, <2>1, RowTypes DEF Write, Goto, Types, Stored
  <2>4. KindFits(p)' /\ WorkFits(p)'
    BY <1>0, <2>1, <2>3 DEF KindFits, WorkFits, Kind
  <2> QED BY <2>2, <2>4
<1>8. CASE OrderFails(p) \/ StageFails(p)
  <2>1. TableStep(held)
    BY <1>0, <1>8, TablesKept DEF OrderFails, StageFails
  <2>2. /\ pc[p] \in {"order", "stage"} /\ UNCHANGED <<rows, created, disk, job, seen>>
        /\ pc'[p] = "fail" \/ (pc'[p] = "undo" /\ Kind(p) \in {"issue", "import"})
    BY <1>0, <1>8 DEF OrderFails, StageFails, At, Goto, Types
  <2>3. KindFits(p)'
    BY <1>0, <2>2 DEF KindFits, Kind
  <2>4. WorkFits(p)'
    BY <1>0, <2>2 DEF WorkFits, WellFounded, Own
  <2> QED BY <2>1, <2>3, <2>4
<1>9. CASE StoreError(p)
  <2>1. /\ pc[p] = "fail" /\ rows[job[p].id] # None /\ WellFounded(job[p].id, Own(p))
        /\ Own(p) \in Row
    BY <1>0, <1>9 DEF StoreError, At, WorkFits, WellFounded
  <2>2. /\ [Own(p) EXCEPT !.failed = TRUE] \in Row
        /\ [Own(p) EXCEPT !.failed = TRUE].path = Own(p).path
    BY <2>1 DEF Row
  <2>3. WellFounded(job[p].id, [Own(p) EXCEPT !.failed = TRUE])
    BY <2>1, <2>2, RowTypes DEF WellFounded
  <2>4. TableStep(held)
    BY <1>0, <1>9, <2>2, <2>3, CopyStored DEF StoreError
  <2> QED BY <1>0, <1>9, <2>4, ReleaseFits DEF StoreError
<1>10. CASE WriteFails(p)
  <2>1. TableStep(held)
    BY <1>0, <1>10, TablesKept DEF WriteFails
  <2>2. CASE Release(p)
    BY <1>0, <2>1, <2>2, ReleaseFits
  <2>3. CASE Kind(p) = "import" /\ Goto(p, "undo") /\ UNCHANGED <<holder, job, seen, got>>
    <3>1. /\ pc[p] = "write" /\ pc'[p] = "undo" /\ UNCHANGED <<rows, created, job>>
      BY <1>0, <1>10, <2>3 DEF WriteFails, At, Goto, Types
    <3>2. KindFits(p)' /\ WorkFits(p)'
      BY <1>0, <2>3, <3>1 DEF KindFits, WorkFits, Kind
    <3> QED BY <2>1, <3>2
  <2> QED BY <1>10, <2>2, <2>3 DEF WriteFails
<1>11. CASE UndoCreate(p) \/ DropRow(p)
  <2>1. /\ pc[p] \in {"undo", "drop"} /\ assigned' = assigned \ {job[p].id}
        /\ rows[job[p].id] # None /\ job[p].id <= created
        /\ rows' = [rows EXCEPT ![job[p].id] = None] /\ UNCHANGED <<created, disk>>
    BY <1>0, <1>11 DEF UndoCreate, DropRow, DeleteRow, At, WorkFits, Shared
  <2>2. TableStep(held)
    <3>1. held
      BY <2>1 DEF Locked, Unguarded, Labels
    <3>2. \A id \in Ids : rows'[id] = IF id = job[p].id THEN None ELSE rows[id]
      BY <1>0, <2>1 DEF Types
    <3>3. created <= created
      BY <1>0, Constants DEF Types
    <3> QED BY <2>1, <3>1, <3>2, <3>3 DEF TableStep
  <2>3. CASE UndoCreate(p)
    BY <1>0, <2>2, <2>3, ReleaseFits DEF UndoCreate
  <2>4. CASE DropRow(p)
    <3>1. pc'[p] = "erase" /\ job' = job /\ rows'[job[p].id] = None
      BY <1>0, <2>1, <2>4 DEF DropRow, Goto, Types
    <3>2. KindFits(p)' /\ WorkFits(p)'
      BY <1>0, <2>1, <3>1 DEF KindFits, WorkFits, Kind
    <3> QED BY <2>2, <3>2
  <2> QED BY <1>11, <2>3, <2>4
<1>12. CASE Apply(p)
  <2>1. TableStep(held)
    BY <1>0, <1>12, TablesKept DEF Apply
  <2> QED BY <1>0, <1>12, <2>1, ReleaseFits DEF Apply
<1>13. CASE Erase(p)
  <2>1. /\ rows[job[p].id] = None /\ job[p].id <= created
        /\ disk' = [disk EXCEPT ![job[p].id] = {}] /\ UNCHANGED <<rows, created>>
        /\ Release(p)
    BY <1>0, <1>13 DEF Erase, At, WorkFits
  <2>2. TableStep(held)
    <3>1. \A id \in Ids : disk'[id] = IF id = job[p].id THEN {} ELSE disk[id]
      BY <1>0, <2>1 DEF Types
    <3>2. created <= created
      BY <1>0, Constants DEF Types
    <3> QED BY <2>1, <3>1, <3>2 DEF TableStep
  <2> QED BY <1>0, <2>1, <2>2, ReleaseFits
<1>14. CASE ListRows(p)
  <2>1. TableStep(held)
    BY <1>0, <1>14, TablesKept DEF ListRows
  <2>2. /\ pc[p] = "list" /\ pc'[p] = "repair" /\ job' = job
        /\ seen'[p] = rows /\ todo'[p] = {id \in Ids : Stale(rows[id])}
    BY <1>0, <1>14 DEF ListRows, At, Goto, Types
  <2>3. KindFits(p)' /\ WorkFits(p)'
    BY <1>0, <2>2 DEF KindFits, WorkFits, Kind, Stale
  <2> QED BY <2>1, <2>3
<1>15. CASE Repair(p)
  <2>1. PICK id \in todo[p] :
          /\ rows' = IF seen[p][id].path \in disk[id]
                     THEN Stored(id, [seen[p][id] EXCEPT !.meta = seen[p][id].path])
                     ELSE rows
          /\ todo' = [todo EXCEPT ![p] = @ \ {id}]
    BY <1>15 DEF Repair
  <2> DEFINE r == [seen[p][id] EXCEPT !.meta = seen[p][id].path]
  <2>2. /\ pc[p] = "repair" /\ UNCHANGED <<created, disk, pc, job, seen>>
        /\ id \in Ids /\ seen[p][id] \in Row
    BY <1>0, <1>15 DEF Repair, At, WorkFits, Types
  <2>3. r \in Row /\ r.path = seen[p][id].path
    BY <2>2 DEF Row
  <2>4. TableStep(held)
    <3>1. CASE seen[p][id].path \in disk[id]
      <4>1. WellFounded(id, r)
        BY <1>0, <2>2, <2>3, <3>1, RowTypes, Constants DEF WellFounded, Types
      <4> QED BY <1>0, <2>1, <2>2, <2>3, <3>1, <4>1, CopyStored
    <3>2. CASE seen[p][id].path \notin disk[id]
      BY <1>0, <2>1, <2>2, <3>2, TablesKept
    <3> QED BY <3>1, <3>2
  <2>5. todo'[p] \subseteq todo[p]
    BY <2>1 DEF Types
  <2>6. KindFits(p)' /\ WorkFits(p)'
    BY <1>0, <2>2, <2>5 DEF KindFits, WorkFits, Kind
  <2> QED BY <2>4, <2>6
<1>16. CASE EditMetadata(p)
  <2>1. /\ Own(p) \in Row /\ rows' = Stored(job[p].id, Own(p)) /\ UNCHANGED <<created, disk>>
        /\ rows[job[p].id] # None => WellFounded(job[p].id, Own(p))
    BY <1>0, <1>16 DEF EditMetadata, At, WorkFits
  <2>2. TableStep(held)
    BY <1>0, <2>1, CopyStored
  <2>3. pc'[p] \in Unguarded \ {"lock", "edit"}
    BY <1>0, <1>16 DEF EditMetadata, Ends, Types, Unguarded
  <2> QED BY <2>2, <2>3, IdleFits
<1>17. CASE Attach(p) \/ Detach(p) \/ Activate(p)
  <2>1. TableStep(held)
    BY <1>0, <1>17, TablesKept DEF Attach, Detach, Activate
  <2>2. pc'[p] \in Unguarded \ {"lock", "edit"}
    BY <1>0, <1>17 DEF Attach, Detach, Activate, Ends, Goto, Types, Unguarded
  <2> QED BY <2>1, <2>2, IdleFits
<1> QED BY <1>1, <1>2, <1>3, <1>4, <1>5, <1>6, <1>7, <1>8, <1>9, <1>10, <1>11, <1>12,
           <1>13, <1>14, <1>15, <1>16, <1>17 DEF Step

(* What is owed stays owed unless somebody activates.                      *)
LEMMA OwedKept ==
  ASSUME Types, NEW p \in Procs, Step(p) \/ Request(p) \/ ReadMetadata(p) \/ RequestRoute(p),
         pc[p] # "activate", unapplied => unapplied', raced => raced'
  PROVE  Owed => Owed'
<1>1. ASSUME NEW q \in Procs, pc[q] = "activate" PROVE pc'[q] = "activate"
  BY <1>1, OthersKeep
<1> QED BY <1>1 DEF Owed

LEMMA RouteEffect ==
  ASSUME CertificateInv, NEW p \in Procs, Step(p)
  PROVE  RouteStep
<1>0. Types
  BY InvParts
<1>1. CASE UNCHANGED <<assigned, conf, unapplied, raced>> /\ pc[p] # "activate"
  BY <1>0, <1>1, OwedKept DEF RouteStep
<1>2. CASE Lock(p) \/ Create(p) \/ CannotCreate(p) \/ Read(p) \/ Order(p) \/ Stage(p)
           \/ Write(p) \/ OrderFails(p) \/ StageFails(p) \/ StoreError(p) \/ WriteFails(p)
  <2>1. UNCHANGED <<assigned, conf, unapplied, raced>> /\ pc[p] # "activate"
    BY <1>2 DEF Lock, Create, CannotCreate, Read, Order, Stage, Write, OrderFails, StageFails,
       StoreError, WriteFails, At, history
  <2> QED BY <1>1, <2>1
<1>3. CASE Erase(p) \/ ListRows(p) \/ Repair(p) \/ Listed(p) \/ EditMetadata(p)
  <2>1. UNCHANGED <<assigned, conf, unapplied, raced>> /\ pc[p] # "activate"
    BY <1>3 DEF Erase, ListRows, Repair, Listed, EditMetadata, At, history
  <2> QED BY <1>1, <2>1
<1>4. CASE UndoCreate(p) \/ DropRow(p)
  <2>1. /\ pc[p] # "activate" /\ conf' = conf /\ unapplied' = unapplied
        /\ assigned' = assigned \ {job[p].id} /\ raced' = (raced \/ job[p].id \in assigned)
    BY <1>4 DEF UndoCreate, DropRow, DeleteRow, At
  <2>2. Owed => Owed'
    BY <1>0, <2>1, OwedKept
  <2>3. assigned \subseteq assigned' \/ Owed'
    BY <2>1 DEF Owed
  <2> QED BY <2>1, <2>2, <2>3 DEF RouteStep
<1>5. CASE Apply(p) \/ Activate(p)
  <2>1. UNCHANGED <<rows, assigned>> /\ (ApplySucceeds \/ ApplyFails)
    BY <1>5 DEF Apply, Activate
  <2>2. conf' = Rendered \/ (conf' = conf /\ Owed')
    BY <2>1 DEF ApplySucceeds, ApplyFails, Owed
  <2> QED BY <2>1, <2>2 DEF RouteStep
<1>6. CASE Attach(p)
  <2>1. /\ pc[p] # "activate" /\ UNCHANGED <<conf, unapplied, raced>>
        /\ assigned' = assigned \/ (rows[job[p].id] # None /\ assigned' = assigned \cup {job[p].id})
    BY <1>6 DEF Attach, At, history
  <2>2. Owed => Owed'
    BY <1>0, <2>1, OwedKept
  <2> QED BY <1>0, <2>1, <2>2 DEF RouteStep, Types, Jobs
<1>7. CASE Detach(p)
  <2>1. conf' = conf /\ assigned' \subseteq assigned /\ pc'[p] = "activate"
    BY <1>0, <1>7 DEF Detach, Goto, Types
  <2>2. Owed'
    BY <2>1 DEF Owed
  <2> QED BY <2>1, <2>2 DEF RouteStep
<1> QED BY <1>2, <1>3, <1>4, <1>5, <1>6, <1>7 DEF Step

-----------------------------------------------------------------------------
(* The invariant. *)

LEMMA InvInit == Init => CertificateInv
<1> SUFFICES ASSUME Init PROVE CertificateInv
  OBVIOUS
<1>1. Types
  BY TypesInit
<1>2. \A p \in Procs : pc[p] = "idle" /\ Kind(p) = "none"
  BY DEF Init, Kind, Idle
<1>3. Exclusion /\ \A p \in Procs : KindFits(p) /\ WorkFits(p)
  BY <1>2 DEF Exclusion, Locked, Unguarded, Labels, KindFits, WorkFits
<1>4. /\ rows[1] # None /\ rows[1].path = 1 /\ disk[1] = {1}
      /\ \A id \in Ids : rows[id] # None => /\ id <= created
                                            /\ rows[id].path = IF id = 1 THEN 1 ELSE NoPair
  <2>1. /\ [NewRow(TRUE, TRUE) EXCEPT !.path = 1] \in Row
        /\ [NewRow(TRUE, TRUE) EXCEPT !.path = 1].path = 1
        /\ [NewRow(FALSE, TRUE) EXCEPT !.failed = TRUE].path = NoPair
    BY Constants, RowTypes DEF NewRow
  <2>2. rows[1] = [NewRow(TRUE, TRUE) EXCEPT !.path = 1] /\ disk[1] = {1}
    <3>1. 1 \in Ids /\ disk[1] = {1}
      BY Constants DEF Init
    <3>2. rows[1] = CASE 1 = 1 -> [NewRow(TRUE, TRUE) EXCEPT !.path = 1]
                      [] 1 = 2 /\ created = 2 -> [NewRow(FALSE, TRUE) EXCEPT !.failed = TRUE]
                      [] OTHER -> None
      BY <3>1, Zenon DEF Init
    <3>3. ~(1 = 2)
      OBVIOUS
    <3> QED BY <3>1, <3>2, <3>3
  <2>3. ASSUME NEW id \in Ids, id # 1, rows[id] # None
        PROVE  id <= created /\ rows[id].path = NoPair
    <3>1. id = 2 /\ created = 2 /\ rows[id] = [NewRow(FALSE, TRUE) EXCEPT !.failed = TRUE]
      BY <2>3 DEF Init
    <3>2. id <= created
      BY <3>1
    <3>3. rows[id].path = NoPair
      BY <3>1, <2>1
    <3> QED BY <3>2, <3>3
  <2>4. 1 <= created
    BY Constants DEF Init
  <2>5. rows[1] # None /\ rows[1].path = 1
    BY <2>1, <2>2, RowTypes
  <2>6. ASSUME NEW id \in Ids, rows[id] # None
        PROVE  id <= created /\ rows[id].path = IF id = 1 THEN 1 ELSE NoPair
    <3>1. CASE id = 1
      BY <2>4, <2>5, <3>1
    <3>2. CASE id # 1
      BY <2>3, <2>6, <3>2
    <3> QED BY <3>1, <3>2
  <2> QED BY <2>2, <2>5, <2>6
<1>5. Shared
  BY <1>4, Constants DEF Init, Shared
<1>6. Routes
  <2>1. assigned \subseteq {1} /\ conf = Rendered
    BY CertificateConstants DEF Init
  <2>2. \A id \in Ids : conf[id] # NoPair => id = 1 /\ id \in assigned /\ conf[id] = rows[id].path
    BY <2>1 DEF Rendered
  <2> QED BY <1>4, <2>1, <2>2, Constants DEF Routes
<1> QED BY <1>1, <1>3, <1>5, <1>6, InvParts

(* Every step, of a goroutine or not, changes the tables as TableStep and  *)
(* RouteStep say and keeps the invariant.                                  *)
LEMMA InvStep ==
  ASSUME CertificateInv, [Next]_vars
  PROVE  CertificateInv' /\ \E held \in BOOLEAN : TableStep(held)
<1>0. Types /\ Exclusion /\ Shared /\ Routes /\ \A p \in Procs : KindFits(p) /\ WorkFits(p)
  BY InvParts
<1>1. CASE UNCHANGED vars
  <2>1. Types' /\ Exclusion'
    BY <1>0, <1>1 DEF vars, local, history, Types, Exclusion
  <2>2. \A p \in Procs : KindFits(p)' /\ WorkFits(p)'
    BY <1>0, <1>1 DEF vars, local, KindFits, WorkFits, WellFounded, Own, Kind
  <2>3. TableStep(FALSE)
    BY <1>0, <1>1, TablesKept DEF vars
  <2>4. RouteStep
    BY <1>1 DEF vars, local, history, RouteStep, Owed
  <2> QED BY <1>0, <2>1, <2>2, <2>3, <2>4, SharedStep, RoutesStep, NextParts
<1>2. ASSUME NEW p \in Procs, Step(p)
      PROVE  CertificateInv' /\ \E held \in BOOLEAN : TableStep(held)
  <2>1. Types'
    <3>1. pc[p] \in Copying => Own(p) \in Row
      BY <1>0 DEF Copying, WorkFits, WellFounded, Types, Jobs, Own
    <3> QED BY <1>0, <1>2, <3>1, TypesStep DEF KindFits, WorkFits, Routes
  <2>2. Exclusion'
    BY <1>0, <1>2, <2>1, ExclusionStep DEF Next
  <2>3. TableStep(pc[p] \in Locked) /\ KindFits(p)' /\ WorkFits(p)'
    BY <1>2, <2>1, StepEffect
  <2>4. ASSUME NEW q \in Procs, q # p PROVE KindFits(q)' /\ WorkFits(q)'
    <3>1. /\ pc'[q] = pc[q] /\ job'[q] = job[q] /\ seen'[q] = seen[q]
          /\ got'[q] = got[q] /\ todo'[q] = todo[q]
      BY <1>0, <1>2, <2>4, OthersKeep
    <3>2. pc[p] \in Locked => pc[q] \notin Locked
      BY <1>0, <2>4 DEF Exclusion
    <3>3. WorkFits(q)'
      BY <1>0, <2>1, <2>3, <3>1, <3>2, OthersWork
    <3> QED BY <1>0, <3>1, <3>3 DEF KindFits, Kind
  <2>5. \A q \in Procs : KindFits(q)' /\ WorkFits(q)'
    BY <2>3, <2>4
  <2>6. \E held \in BOOLEAN : TableStep(held)
    <3> WITNESS (pc[p] \in Locked) \in BOOLEAN
    <3> QED BY <2>3
  <2>7. Shared' /\ Routes'
    BY <1>0, <1>2, <2>1, <2>3, SharedStep, RouteEffect, RoutesStep
  <2> QED BY <2>1, <2>2, <2>5, <2>6, <2>7, NextParts
<1>3. ASSUME NEW p \in Handlers, Request(p) \/ ReadMetadata(p) \/ RequestRoute(p)
      PROVE  CertificateInv' /\ \E held \in BOOLEAN : TableStep(held)
  <2>0. p \in Procs
    BY DEF Procs
  <2>1. Types'
    BY <1>0, <1>3, <2>0, TypesRequest
  <2>2. Exclusion'
    BY <1>0, <1>3, <2>1, ExclusionStep DEF Next
  <2>3. TableStep(FALSE)
    BY <1>0, <1>3, TablesKept DEF Request, ReadMetadata, RequestRoute
  <2>4. KindFits(p)' /\ WorkFits(p)'
    <3>1. CASE Request(p)
      <4>1. pc'[p] = "lock" /\ Kind(p)' \in {"issue", "import", "list", "renew", "delete"}
        BY <1>0, <2>0, <3>1 DEF Request, Begin, Goto, Types, Kind
      <4> QED BY <4>1 DEF KindFits, WorkFits, FirstStep
    <3>2. CASE ReadMetadata(p)
      <4>1. PICK id \in Ids : /\ rows[id] # None /\ Begin(p, "metadata", id, "edit")
                              /\ seen' = [seen EXCEPT ![p][id] = rows[id]]
        BY <3>2 DEF ReadMetadata
      <4>2. /\ pc'[p] = "edit" /\ job'[p].id = id /\ Kind(p)' = "metadata"
            /\ Own(p)' = rows[id] /\ UNCHANGED <<rows, created, disk>>
        BY <1>0, <2>0, <3>2, <4>1 DEF ReadMetadata, Begin, Goto, Types, Kind, Own
      <4>3. id <= created /\ WellFounded(id, rows[id])
        BY <1>0, <4>1 DEF Shared, WellFounded
      <4> QED BY <4>1, <4>2, <4>3 DEF KindFits, WorkFits, WellFounded
    <3>3. CASE RequestRoute(p)
      <4>1. pc'[p] \in Unguarded \ {"lock", "edit"}
        BY <1>0, <2>0, <3>3 DEF RequestRoute, Begin, Goto, Types, Unguarded
      <4> QED BY <2>0, <4>1, IdleFits
    <3> QED BY <1>3, <3>1, <3>2, <3>3
  <2>5. ASSUME NEW q \in Procs, q # p PROVE KindFits(q)' /\ WorkFits(q)'
    <3>1. /\ pc'[q] = pc[q] /\ job'[q] = job[q] /\ seen'[q] = seen[q]
          /\ got'[q] = got[q] /\ todo'[q] = todo[q]
      BY <1>0, <1>3, <2>0, <2>5, OthersKeep
    <3>2. WorkFits(q)'
      BY <1>0, <2>1, <2>3, <3>1, OthersWork
    <3> QED BY <1>0, <3>1, <3>2 DEF KindFits, Kind
  <2>6. RouteStep
    <3>1. UNCHANGED <<assigned, conf, unapplied, raced>> /\ pc[p] # "activate"
      BY <1>3 DEF Request, ReadMetadata, RequestRoute, Begin, At
    <3> QED BY <1>0, <1>3, <2>0, <3>1, OwedKept DEF RouteStep
  <2> QED BY <1>0, <2>1, <2>2, <2>3, <2>4, <2>5, <2>6, SharedStep, RoutesStep, NextParts
<1>4. CASE Elsewhere
  <2>1. Types'
    BY <1>0, <1>4, TypesElsewhere DEF Routes
  <2>2. Exclusion'
    BY <1>0, <1>4, <2>1, ExclusionStep DEF Next, Elsewhere
  <2>3. TableStep(FALSE)
    <3>1. UNCHANGED <<rows, created, disk>>
      BY <1>4 DEF Elsewhere, RenewDue, RenewNext, Age, Restart
    <3> QED BY <1>0, <3>1, TablesKept
  <2>4. ASSUME NEW q \in Procs PROVE KindFits(q)' /\ WorkFits(q)'
    <3>1. CASE RenewDue
      <4>1. /\ UNCHANGED <<rows, created, disk, pc, job, seen, got>>
            /\ todo'[q] = todo[q] \/ pc[q] = "idle"
        BY <1>0, <3>1, Constants DEF RenewDue, At, Types
      <4> QED BY <1>0, <4>1 DEF KindFits, WorkFits, WellFounded, Own, Kind
    <3>2. CASE RenewNext
      <4>1. CASE q = Renewer
        <5>1. pc'[q] = "lock" /\ Kind(q)' = "renewDue"
          BY <1>0, <3>2, <4>1, Constants DEF RenewNext, Goto, Types, Kind
        <5> QED BY <5>1 DEF KindFits, WorkFits, FirstStep
      <4>2. CASE q # Renewer
        <5>1. /\ UNCHANGED <<rows, created, disk, seen, got>>
              /\ pc'[q] = pc[q] /\ job'[q] = job[q] /\ todo'[q] = todo[q]
          BY <1>0, <3>2, <4>2, Constants DEF RenewNext, Goto, Types
        <5> QED BY <1>0, <5>1 DEF KindFits, WorkFits, WellFounded, Own, Kind
      <4> QED BY <4>1, <4>2
    <3>3. CASE Age
      BY <1>0, <3>3 DEF Age, local, KindFits, WorkFits, WellFounded, Own, Kind
    <3>4. CASE Restart
      BY <3>4, IdleFits DEF Restart, Unguarded
    <3> QED BY <1>4, <3>1, <3>2, <3>3, <3>4 DEF Elsewhere
  <2>5. RouteStep
    <3>1. CASE Restart
      BY <3>1 DEF Restart, RouteStep
    <3>2. CASE RenewDue \/ RenewNext \/ Age
      <4>1. /\ UNCHANGED <<assigned, conf, unapplied, raced>>
            /\ \A q \in Procs : pc[q] = "activate" => pc'[q] = "activate"
        BY <1>0, <3>2, Constants DEF RenewDue, RenewNext, Age, At, Goto, local, history, Types
      <4> QED BY <4>1 DEF RouteStep, Owed
    <3> QED BY <1>4, <3>1, <3>2 DEF Elsewhere
  <2> QED BY <1>0, <2>1, <2>2, <2>3, <2>4, <2>5, SharedStep, RoutesStep, NextParts
<1> QED BY <1>1, <1>2, <1>3, <1>4 DEF Next, Elsewhere

(* Whoever writes a row or erases files does so alone, with a copy whose   *)
(* pair is on disk and for a row that exists; a certificate in use has a   *)
(* row, and nginx.conf names no other unless an Apply is owed.             *)
THEOREM Invariance == Spec => []CertificateInv
<1>1. CertificateInv /\ [Next]_vars => CertificateInv'
  BY InvStep
<1> QED BY <1>1, InvInit, PTL DEF Spec

(* The types, and that whoever is between Lock and Unlock holds the mutex. *)
THEOREM TypeCorrect == Spec => []TypeOK
<1>1. CertificateInv => TypeOK
  BY DEF CertificateInv
<1> QED BY <1>1, Invariance, PTL

(* Every stored path and every path in nginx.conf is a complete pair on    *)
(* disk at any moment, whatever overlaps, fails or crashes; a path in      *)
(* nginx.conf may be gone with its row while an Apply is owed.             *)
THEOREM MaterialHold == Spec => []MaterialOnDisk
<1>1. CertificateInv => MaterialOnDisk
  BY DEF CertificateInv
<1> QED BY <1>1, Invariance, PTL

(* A deleted certificate and its files never come back.                    *)
THEOREM DeletedHold == Spec => DeletedStaysErased
<1>1. CertificateInv /\ [Next]_vars =>
        [\A id \in 1..created : rows[id] = None =>
           rows'[id] = None /\ disk'[id] \subseteq disk[id]]_vars
  <2> SUFFICES ASSUME CertificateInv, [Next]_vars, NEW id \in 1..created, rows[id] = None
               PROVE  rows'[id] = None /\ disk'[id] \subseteq disk[id]
    OBVIOUS
  <2>1. PICK held \in BOOLEAN : TableStep(held)
    BY InvStep
  <2>2. id \in Ids /\ id <= created
    BY Constants DEF CertificateInv, TypeOK, Ids
  <2> QED BY <2>1, <2>2 DEF TableStep
<1> QED BY <1>1, Invariance, PTL DEF Spec, DeletedStaysErased

-----------------------------------------------------------------------------
(* Renewals move forward. *)

(* No path is newer than the last pair obtained, the pair at hand is that  *)
(* one, and without an edit that put a replaced pair back the copies that  *)
(* are written without a new pair still agree with their row.              *)
CopyFresh(p) ==
  /\ pc[p] \in Copying \cup {"edit"} /\ rows[job[p].id] # None =>
       Own(p) # None /\ Own(p).path <= obtained
  /\ pc[p] = "stage" => got[p] = obtained
  /\ pc[p] = "write" => Own(p).path = obtained
  /\ ~restored /\ pc[p] \in {"order", "stage", "fail"} =>
       Own(p).path = rows[job[p].id].path
  /\ pc[p] = "repair" => \A id \in todo[p] :
       rows[id] # None => /\ seen[p][id].path <= obtained
                          /\ ~restored => seen[p][id].path = rows[id].path

Fresh ==
  /\ \A id \in Ids : rows[id] # None => rows[id].path <= obtained
  /\ \A p \in Procs : CopyFresh(p)

(* What a step may do to the paths: under the mutex a new pair may be       *)
(* obtained and stored, an edit may only put an old one back.              *)
PathStep(held) ==
  /\ obtained <= obtained' /\ (~held => obtained' = obtained)
  /\ restored => restored'
  /\ \A id \in Ids : rows'[id] # None =>
       /\ rows'[id].path <= obtained'
       /\ rows[id] # None /\ ~restored' => rows'[id].path >= rows[id].path
       /\ rows[id] # None /\ ~restored' /\ ~held => rows'[id].path = rows[id].path

LEMMA PathTypes ==
  ASSUME Types
  PROVE  /\ obtained \in Nat /\ restored \in BOOLEAN
         /\ \A r \in Row : r.path \in Nat
         /\ \A id \in Ids : rows[id] # None => rows[id] \in Row
         /\ \A p \in Procs : \A id \in Ids : seen[p][id] # None => seen[p][id] \in Row
BY Constants DEF Types, Row, NoPair

LEMMA PathsKept ==
  ASSUME Types, Fresh, UNCHANGED <<rows, obtained, restored>>, NEW held
  PROVE  PathStep(held)
BY PathTypes DEF PathStep, Fresh

LEMMA OthersFresh ==
  ASSUME CertificateInv, Fresh, NEW q \in Procs, NEW held, TableStep(held), PathStep(held),
         Types', held => pc[q] \notin Locked,
         pc'[q] = pc[q], job'[q] = job[q], seen'[q] = seen[q], got'[q] = got[q],
         todo'[q] = todo[q]
  PROVE  CopyFresh(q)'
<1>0. /\ Types /\ WorkFits(q) /\ CopyFresh(q) /\ job[q].id \in Ids /\ Own(q)' = Own(q)
      /\ job'[q].id = job[q].id /\ obtained \in Nat /\ obtained' \in Nat
      /\ restored \in BOOLEAN /\ restored' \in BOOLEAN
      /\ todo[q] \subseteq Ids
  <2>1. Types /\ WorkFits(q) /\ CopyFresh(q)
    BY InvParts DEF Fresh
  <2>2. obtained \in Nat /\ obtained' \in Nat
    BY <2>1, Constants DEF Types
  <2> QED BY <2>1, <2>2 DEF Types, Jobs, Own
<1>1. CASE pc[q] \in Locked
  <2>1. ~held /\ obtained' = obtained /\ (restored => restored')
    BY <1>1 DEF PathStep
  <2>2. \A id \in Ids : /\ rows[id] = None <=> rows'[id] = None
                        /\ rows[id] # None /\ ~restored' => rows'[id].path = rows[id].path
    <3>1. \A id \in Ids : rows[id] = None <=> rows'[id] = None
      BY <2>1 DEF TableStep
    <3> QED BY <2>1, <3>1 DEF PathStep
  <2>3. pc[q] \in Copying => rows[job[q].id] # None
    BY <1>0 DEF WorkFits, Copying
  <2> QED BY <1>0, <1>1, <2>1, <2>2, <2>3 DEF CopyFresh, Copying, Locked
<1>2. CASE pc[q] = "edit"
  <2>1. Own(q) # None /\ job[q].id <= created
    BY <1>0, <1>2 DEF WorkFits
  <2>2. ASSUME rows'[job[q].id] # None PROVE Own(q).path <= obtained'
    <3>1. rows[job[q].id] # None
      BY <1>0, <2>1, <2>2 DEF TableStep
    <3>2. Own(q).path <= obtained /\ obtained <= obtained' /\ Own(q).path \in Nat
      BY <1>0, <1>2, <2>1, <3>1, PathTypes DEF CopyFresh, PathStep, Own
    <3> QED BY <1>0, <3>2
  <2> QED BY <1>0, <1>2, <2>1, <2>2 DEF CopyFresh, Copying
<1>3. CASE pc[q] \in Unguarded \ {"edit"}
  BY <1>3 DEF CopyFresh, Copying, Unguarded
<1> QED BY <1>0, <1>1, <1>2, <1>3 DEF Types, Locked

LEMMA IdleFresh ==
  ASSUME NEW p \in Procs, pc'[p] \notin Copying \cup {"edit", "repair"}
  PROVE  CopyFresh(p)'
BY DEF CopyFresh, Copying

LEMMA ReleaseIdle ==
  ASSUME Types, NEW p \in Procs, Release(p)
  PROVE  pc'[p] \notin Copying \cup {"edit", "repair"}
BY DEF Types, Release, Copying

(* A row is written with a path that fits.                                 *)
LEMMA PathStored ==
  ASSUME Types, Fresh, NEW id \in Ids, NEW r \in Row, rows' = Stored(id, r),
         obtained' = obtained, restored => restored', NEW held,
         rows[id] # None =>
           /\ r.path <= obtained
           /\ ~restored' => r.path >= rows[id].path
           /\ ~restored' /\ ~held => r.path = rows[id].path
  PROVE  PathStep(held)
<1>1. \A i \in Ids : rows'[i] = rows[i] \/ (i = id /\ rows[id] # None /\ rows'[i] = r)
  BY DEF Types, Stored
<1>2. \A i \in Ids : rows[i] # None => rows[i].path <= obtained /\ rows[i].path \in Nat
  BY PathTypes DEF Fresh
<1> QED BY <1>1, <1>2, PathTypes DEF PathStep

LEMMA PathEffect ==
  ASSUME CertificateInv, Fresh, Types', NEW p \in Procs, Step(p)
  PROVE  PathStep(pc[p] \in Locked) /\ CopyFresh(p)'
<1> DEFINE held == pc[p] \in Locked
<1>0. /\ Types /\ Shared /\ WorkFits(p) /\ KindFits(p) /\ CopyFresh(p)
      /\ job[p].id \in Ids /\ Own(p) \in Row \cup {None} /\ Own(p) = seen[p][job[p].id]
      /\ obtained \in Nat /\ restored \in BOOLEAN
  BY InvParts, PathTypes DEF Types, Jobs, Own, Fresh
<1>1. CASE Lock(p)
  <2>1. PathStep(held)
    BY <1>0, <1>1, PathsKept DEF Lock, history
  <2>2. pc'[p] = FirstStep[Kind(p)] /\ Kind(p) \in DOMAIN FirstStep
    BY <1>0, <1>1 DEF Lock, At, Goto, Types, KindFits
  <2>3. pc'[p] \in {"create", "list", "read"}
    BY <2>2 DEF FirstStep
  <2> QED BY <2>1, <2>3, IdleFresh DEF Copying
<1>2. CASE CannotCreate(p) \/ Listed(p) \/ Erase(p) \/ Apply(p)
  <2>1. UNCHANGED <<rows, obtained, restored>> /\ Release(p)
    BY <1>2 DEF CannotCreate, Listed, Erase, Apply, history
  <2> QED BY <1>0, <2>1, PathsKept, IdleFresh, ReleaseIdle
<1>3. CASE Create(p)
  <2>0. PICK new \in Ids : new = created + 1
    BY <1>0, <1>3, Constants DEF Create, Types, Ids
  <2>1. PICK r \in Row : /\ r.path = NoPair
                         /\ rows' = [rows EXCEPT ![new] = r]
                         /\ seen' = [seen EXCEPT ![p] = [NoRows EXCEPT ![new] = r]]
    BY <1>3, <2>0, RowTypes DEF Create, NewRow
  <2>2. /\ rows[new] = None /\ pc[p] = "create" /\ job'[p].id = new
        /\ restored' = restored /\ obtained <= obtained' /\ obtained' \in Nat
    BY <1>0, <1>3, <2>0, Constants DEF Create, At, Types, Jobs, Shared, history
  <2>3. PathStep(held)
    <3>1. held
      BY <2>2 DEF Locked, Unguarded, Labels
    <3>2. \A i \in Ids : rows'[i] = IF i = new THEN r ELSE rows[i]
      BY <1>0, <2>1 DEF Types
    <3>3. \A i \in Ids : rows[i] # None => rows[i].path \in Nat /\ rows[i].path <= obtained'
      BY <1>0, <2>2, PathTypes DEF Fresh
    <3> QED BY <1>0, <2>1, <2>2, <3>1, <3>2, <3>3 DEF PathStep, NoPair
  <2>4. Own(p)' = r /\ rows'[new] = r /\ r # None
    BY <1>0, <2>1, <2>2, RowTypes, LocalTypes DEF Own, Types
  <2>5. \/ pc'[p] = "order"
        \/ pc'[p] = "stage" /\ got'[p] = obtained'
    BY <1>0, <1>3 DEF Create, Goto, Types
  <2>6. CopyFresh(p)'
    BY <2>1, <2>2, <2>4, <2>5 DEF CopyFresh, Copying, NoPair
  <2> QED BY <2>3, <2>6
<1>4. CASE Read(p)
  <2>1. PathStep(held)
    BY <1>0, <1>4, PathsKept DEF Read, history
  <2>2. CASE Proceeds(p, rows[job[p].id])
    <3>1. /\ seen' = [seen EXCEPT ![p][job[p].id] = rows[job[p].id]]
          /\ pc'[p] \in {"drop", "order"}
          /\ UNCHANGED <<rows, job, obtained>>
      BY <1>0, <1>4, <2>2 DEF Read, Goto, Types
    <3>2. Own(p)' = rows[job[p].id]
      BY <1>0, <3>1 DEF Own, Types
    <3>3. CopyFresh(p)'
      BY <1>0, <3>1, <3>2 DEF CopyFresh, Copying, Fresh
    <3> QED BY <2>1, <3>3
  <2>3. CASE ~Proceeds(p, rows[job[p].id])
    BY <1>0, <1>4, <2>1, <2>3, IdleFresh, ReleaseIdle DEF Read
  <2> QED BY <2>2, <2>3
<1>5. CASE Order(p)
  <2>1. /\ pc[p] = "order" /\ pc'[p] = "stage" /\ got'[p] = obtained'
        /\ obtained' = obtained + 1
        /\ UNCHANGED <<rows, job, seen, restored>>
    BY <1>0, <1>5 DEF Order, At, Goto, Types, history
  <2>2. PathStep(held)
    <3>1. held
      BY <2>1 DEF Locked, Unguarded, Labels
    <3>2. \A i \in Ids : rows[i] # None => rows[i].path \in Nat /\ rows[i].path <= obtained
      BY <1>0, PathTypes DEF Fresh
    <3> QED BY <1>0, <2>1, <3>1, <3>2 DEF PathStep
  <2>3. Own(p)' = Own(p) /\ job'[p].id = job[p].id
    BY <2>1 DEF Own
  <2>4. rows[job[p].id] # None => Own(p) # None /\ Own(p).path <= obtained + 1
    BY <1>0, <2>1, PathTypes DEF CopyFresh, Copying
  <2>5. CopyFresh(p)'
    BY <1>0, <2>1, <2>3, <2>4 DEF CopyFresh, Copying
  <2> QED BY <2>2, <2>5
<1>6. CASE Stage(p)
  <2>1. PathStep(held)
    BY <1>0, <1>6, PathsKept DEF Stage, history
  <2>2. /\ pc[p] = "stage" /\ pc'[p] = "write"
        /\ UNCHANGED <<rows, job, obtained>>
        /\ seen'[p][job[p].id] = [Own(p) EXCEPT !.path = got[p], !.meta = got[p],
                                                !.failed = FALSE]
    BY <1>0, <1>6 DEF Stage, At, Goto, Types, history
  <2>3. got[p] = obtained /\ Own(p) \in Row /\ got[p] \in Pairs \cup {NoPair}
    BY <1>0, <2>2 DEF CopyFresh, WorkFits, WellFounded, Types
  <2>4. Own(p)' # None /\ Own(p)'.path = obtained
    <3>1. seen'[p][job[p].id] \in Row /\ seen'[p][job[p].id].path = got[p]
      BY <2>2, <2>3 DEF Row
    <3> QED BY <2>2, <2>3, <3>1, RowTypes DEF Own
  <2>5. CopyFresh(p)'
    BY <1>0, <2>2, <2>4 DEF CopyFresh, Copying
  <2> QED BY <2>1, <2>5
<1>7. CASE Write(p)
  <2>1. /\ pc[p] = "write" /\ rows[job[p].id] # None /\ Own(p) \in Row
        /\ rows' = Stored(job[p].id, Own(p)) /\ UNCHANGED <<obtained, restored>>
    BY <1>0, <1>7 DEF Write, At, WorkFits, WellFounded, history
  <2>2. /\ Own(p).path = obtained /\ rows[job[p].id].path <= obtained /\ held
        /\ rows[job[p].id].path \in Nat
    BY <1>0, <2>1, PathTypes DEF CopyFresh, Fresh, Locked, Unguarded, Labels
  <2>3. PathStep(held)
    <3>1. /\ Own(p).path <= obtained /\ Own(p).path >= rows[job[p].id].path
          /\ restored => restored'
      BY <1>0, <2>1, <2>2
    <3> QED BY <1>0, <2>1, <2>2, <3>1, PathStored
  <2>4. pc'[p] = "apply"
    BY <1>0, <1>7, <2>1 DEF Write, Goto, Types
  <2> QED BY <2>3, <2>4, IdleFresh DEF Copying
<1>8. CASE OrderFails(p) \/ StageFails(p)
  <2>1. PathStep(held)
    BY <1>0, <1>8, PathsKept DEF OrderFails, StageFails
  <2>2. /\ pc[p] \in {"order", "stage"} /\ pc'[p] \in {"fail", "undo"}
        /\ UNCHANGED <<rows, job, seen, obtained, restored>>
    BY <1>0, <1>8 DEF OrderFails, StageFails, At, Goto, Types
  <2>3. CopyFresh(p)'
    BY <1>0, <2>2 DEF CopyFresh, Copying, Own
  <2> QED BY <2>1, <2>3
<1>9. CASE StoreError(p)
  <2> DEFINE r == [Own(p) EXCEPT !.failed = TRUE]
  <2>1. /\ pc[p] = "fail" /\ rows[job[p].id] # None /\ Own(p) \in Row /\ rows[job[p].id] \in Row
        /\ rows' = Stored(job[p].id, r) /\ UNCHANGED <<obtained, restored>>
    BY <1>0, <1>9, PathTypes DEF StoreError, At, WorkFits, WellFounded, history
  <2>2. r \in Row /\ r.path = Own(p).path
    BY <2>1 DEF Row
  <2>3. /\ Own(p).path <= obtained
        /\ ~restored => Own(p).path = rows[job[p].id].path
    BY <1>0, <2>1 DEF CopyFresh, Copying
  <2>4. rows[job[p].id].path \in Nat
    BY <2>1, PathTypes, <1>0
  <2>5. PathStep(held)
    <3> HIDE DEF r
    <3> QED BY <1>0, <2>1, <2>2, <2>3, <2>4, PathStored
  <2> QED BY <1>0, <1>9, <2>5, IdleFresh, ReleaseIdle DEF StoreError
<1>10. CASE WriteFails(p)
  <2>1. PathStep(held)
    BY <1>0, <1>10, PathsKept DEF WriteFails
  <2>2. CASE Release(p)
    BY <1>0, <2>1, <2>2, IdleFresh, ReleaseIdle
  <2>3. CASE Goto(p, "undo")
    <3>1. pc'[p] = "undo"
      BY <1>0, <2>3 DEF Goto, Types
    <3> QED BY <2>1, <3>1, IdleFresh DEF Copying
  <2> QED BY <1>10, <2>2, <2>3 DEF WriteFails
<1>11. CASE UndoCreate(p) \/ DropRow(p)
  <2>1. /\ rows' = [rows EXCEPT ![job[p].id] = None] /\ UNCHANGED <<obtained, restored>>
    BY <1>11 DEF UndoCreate, DropRow, DeleteRow, history
  <2>2. PathStep(held)
    <3>1. \A i \in Ids : rows'[i] # None => rows'[i] = rows[i]
      BY <1>0, <2>1 DEF Types
    <3>2. \A i \in Ids : rows[i] # None => rows[i].path \in Nat /\ rows[i].path <= obtained
      BY <1>0, PathTypes DEF Fresh
    <3> QED BY <1>0, <2>1, <3>1, <3>2 DEF PathStep
  <2>3. pc'[p] \in {"idle", "erase"}
    BY <1>0, <1>11 DEF UndoCreate, DropRow, DeleteRow, Release, Goto, Types
  <2> QED BY <2>2, <2>3, IdleFresh DEF Copying
<1>14. CASE ListRows(p)
  <2>1. PathStep(held)
    BY <1>0, <1>14, PathsKept DEF ListRows, history
  <2>2. /\ pc'[p] = "repair" /\ seen'[p] = rows /\ UNCHANGED <<rows, obtained, restored>>
        /\ todo'[p] \subseteq Ids
    BY <1>0, <1>14 DEF ListRows, Goto, Types, history
  <2>3. CopyFresh(p)'
    BY <1>0, <2>2 DEF CopyFresh, Copying, Fresh
  <2> QED BY <2>1, <2>3
<1>15. CASE Repair(p)
  <2>1. PICK id \in todo[p] :
          /\ rows' = IF seen[p][id].path \in disk[id]
                     THEN Stored(id, [seen[p][id] EXCEPT !.meta = seen[p][id].path])
                     ELSE rows
          /\ todo' = [todo EXCEPT ![p] = @ \ {id}]
    BY <1>15 DEF Repair
  <2> DEFINE r == [seen[p][id] EXCEPT !.meta = seen[p][id].path]
  <2>2. /\ pc[p] = "repair" /\ UNCHANGED <<obtained, restored, pc, job, seen, got>>
        /\ id \in Ids /\ seen[p][id] \in Row
    BY <1>0, <1>15 DEF Repair, At, WorkFits, Types, history
  <2>3. r \in Row /\ r.path = seen[p][id].path
    BY <2>2 DEF Row
  <2>4. rows[id] # None => /\ seen[p][id].path <= obtained
                           /\ ~restored => seen[p][id].path = rows[id].path
                           /\ rows[id].path \in Nat
    BY <1>0, <2>2, PathTypes DEF CopyFresh
  <2>5. PathStep(held)
    <3>1. CASE seen[p][id].path \in disk[id]
      <4>1. rows' = Stored(id, r)
        BY <2>1, <3>1
      <4>2. /\ rows[id] # None => r.path <= obtained
            /\ rows[id] # None /\ ~restored' => r.path >= rows[id].path
            /\ restored => restored'
        BY <2>2, <2>3, <2>4
      <4>3. held
        BY <2>2 DEF Locked, Unguarded, Labels
      <4> HIDE DEF r
      <4> QED BY <1>0, <2>2, <2>3, <4>1, <4>2, <4>3, PathStored
    <3>2. CASE seen[p][id].path \notin disk[id]
      BY <1>0, <2>1, <2>2, <3>2, PathsKept
    <3> QED BY <3>1, <3>2
  <2>6. todo'[p] \subseteq todo[p] /\ todo[p] \subseteq Ids
    BY <1>0, <2>1 DEF Types
  <2>7. \A i \in todo'[p] : rows'[i] # None =>
          rows[i] # None /\ rows'[i].path = rows[i].path
    <3>1. \A i \in Ids : i # id => rows'[i] = rows[i]
      BY <1>0, <2>1, <2>2 DEF Types, Stored
    <3>2. id \notin todo'[p]
      BY <1>0, <2>1 DEF Types
    <3> QED BY <2>6, <3>1, <3>2
  <2>8. CopyFresh(p)'
    BY <1>0, <2>2, <2>6, <2>7 DEF CopyFresh, Copying
  <2> QED BY <2>5, <2>8
<1>16. CASE EditMetadata(p)
  <2>1. /\ pc[p] = "edit" /\ Own(p) \in Row /\ rows' = Stored(job[p].id, Own(p))
        /\ obtained' = obtained
        /\ restored' = (restored \/ Replaces(job[p].id, Own(p)))
    BY <1>0, <1>16 DEF EditMetadata, At, WorkFits
  <2>2. rows[job[p].id] # None =>
          /\ Own(p).path <= obtained /\ rows[job[p].id].path \in Nat
          /\ ~restored' => Own(p).path = rows[job[p].id].path
    BY <1>0, <2>1, PathTypes DEF CopyFresh, Replaces
  <2>3. PathStep(held)
    BY <1>0, <2>1, <2>2, PathStored
  <2>4. pc'[p] = "idle"
    BY <1>0, <1>16 DEF EditMetadata, Ends, Types
  <2> QED BY <2>3, <2>4, IdleFresh DEF Copying
<1>17. CASE Attach(p) \/ Detach(p) \/ Activate(p)
  <2>1. PathStep(held)
    BY <1>0, <1>17, PathsKept DEF Attach, Detach, Activate, history
  <2>2. pc'[p] \in {"idle", "attach", "detach", "activate"}
    BY <1>0, <1>17 DEF Attach, Detach, Activate, Ends, Goto, Types
  <2> QED BY <2>1, <2>2, IdleFresh DEF Copying
<1> QED BY <1>1, <1>2, <1>3, <1>4, <1>5, <1>6, <1>7, <1>8, <1>9, <1>10, <1>11,
           <1>14, <1>15, <1>16, <1>17 DEF Step

LEMMA FreshInit == Init => Fresh
<1> SUFFICES ASSUME Init PROVE Fresh
  OBVIOUS
<1>1. \A id \in Ids : rows[id] # None => rows[id].path = IF id = 1 THEN 1 ELSE NoPair
  <2>1. /\ [NewRow(TRUE, TRUE) EXCEPT !.path = 1] \in Row
        /\ [NewRow(TRUE, TRUE) EXCEPT !.path = 1].path = 1
        /\ [NewRow(FALSE, TRUE) EXCEPT !.failed = TRUE].path = NoPair
    BY Constants, RowTypes DEF NewRow
  <2>2. rows[1] = [NewRow(TRUE, TRUE) EXCEPT !.path = 1]
    <3>1. rows[1] = CASE 1 = 1 -> [NewRow(TRUE, TRUE) EXCEPT !.path = 1]
                      [] 1 = 2 /\ created = 2 -> [NewRow(FALSE, TRUE) EXCEPT !.failed = TRUE]
                      [] OTHER -> None
      BY Constants, Zenon DEF Init
    <3> QED BY <3>1
  <2>3. ASSUME NEW id \in Ids, id # 1, rows[id] # None
        PROVE  rows[id] = [NewRow(FALSE, TRUE) EXCEPT !.failed = TRUE]
    BY <2>3 DEF Init
  <2> QED BY <2>1, <2>2, <2>3
<1>2. obtained = 1 /\ \A p \in Procs : pc[p] = "idle"
  BY DEF Init
<1> QED BY <1>1, <1>2 DEF Fresh, CopyFresh, Copying, NoPair

LEMMA FreshStep ==
  ASSUME CertificateInv, Fresh, [Next]_vars
  PROVE  Fresh' /\ \E held \in BOOLEAN : PathStep(held)
<1>0. /\ Types /\ Types' /\ Exclusion /\ obtained \in Nat /\ obtained' \in Nat
  <2>1. Types /\ Exclusion
    BY InvParts
  <2>2. Types'
    BY InvStep DEF CertificateInv, TypeOK, Types
  <2> QED BY <2>1, <2>2, Constants DEF Types
<1>1. ASSUME NEW held, PathStep(held), \A q \in Procs : CopyFresh(q)'
      PROVE  Fresh'
  BY <1>1 DEF PathStep, Fresh
<1>2. CASE UNCHANGED vars
  <2>1. PathStep(FALSE)
    BY <1>0, <1>2, PathsKept DEF vars, history
  <2>2. \A q \in Procs : CopyFresh(q)'
    BY <1>2 DEF vars, local, history, Fresh, CopyFresh, Own
  <2> QED BY <1>1, <2>1, <2>2
<1>3. ASSUME NEW p \in Procs, Step(p)
      PROVE  Fresh' /\ \E held \in BOOLEAN : PathStep(held)
  <2>1. PathStep(pc[p] \in Locked) /\ CopyFresh(p)'
    BY <1>0, <1>3, PathEffect
  <2>2. ASSUME NEW q \in Procs, q # p PROVE CopyFresh(q)'
    <3>1. /\ pc'[q] = pc[q] /\ job'[q] = job[q] /\ seen'[q] = seen[q]
          /\ got'[q] = got[q] /\ todo'[q] = todo[q]
      BY <1>0, <1>3, <2>2, OthersKeep
    <3>2. pc[p] \in Locked => pc[q] \notin Locked
      BY <1>0, <2>2 DEF Exclusion
    <3>3. TableStep(pc[p] \in Locked)
      BY <1>0, <1>3, StepEffect
    <3> QED BY <1>0, <2>1, <3>1, <3>2, <3>3, OthersFresh
  <2>3. Fresh'
    BY <1>1, <2>1, <2>2
  <2>4. \E held \in BOOLEAN : PathStep(held)
    <3> WITNESS (pc[p] \in Locked) \in BOOLEAN
    <3> QED BY <2>1
  <2> QED BY <2>3, <2>4
<1>4. ASSUME NEW p \in Handlers, Request(p) \/ ReadMetadata(p) \/ RequestRoute(p)
      PROVE  Fresh' /\ \E held \in BOOLEAN : PathStep(held)
  <2>0. p \in Procs /\ UNCHANGED <<rows, created, disk, obtained, restored>>
    BY <1>4 DEF Procs, Request, ReadMetadata, RequestRoute
  <2>1. PathStep(FALSE) /\ TableStep(FALSE)
    BY <1>0, <2>0, PathsKept, TablesKept
  <2>2. CopyFresh(p)'
    <3>1. CASE Request(p)
      <4>1. pc'[p] = "lock"
        BY <1>0, <2>0, <3>1 DEF Request, Begin, Goto, Types
      <4> QED BY <2>0, <4>1, IdleFresh DEF Copying
    <3>2. CASE ReadMetadata(p)
      <4>1. PICK id \in Ids : /\ rows[id] # None /\ Begin(p, "metadata", id, "edit")
                              /\ seen' = [seen EXCEPT ![p][id] = rows[id]]
        BY <3>2 DEF ReadMetadata
      <4>2. /\ pc'[p] = "edit" /\ job'[p].id = id /\ Own(p)' = rows[id]
        BY <1>0, <2>0, <4>1 DEF Begin, Goto, Types, Own
      <4> QED BY <2>0, <4>1, <4>2 DEF CopyFresh, Copying, Fresh
    <3>3. CASE RequestRoute(p)
      <4>1. pc'[p] \in {"attach", "detach"}
        BY <1>0, <2>0, <3>3 DEF RequestRoute, Begin, Goto, Types
      <4> QED BY <2>0, <4>1, IdleFresh DEF Copying
    <3> QED BY <1>4, <3>1, <3>2, <3>3
  <2>3. ASSUME NEW q \in Procs, q # p PROVE CopyFresh(q)'
    <3>1. /\ pc'[q] = pc[q] /\ job'[q] = job[q] /\ seen'[q] = seen[q]
          /\ got'[q] = got[q] /\ todo'[q] = todo[q]
      BY <1>0, <1>4, <2>0, <2>3, OthersKeep
    <3> QED BY <1>0, <2>1, <3>1, OthersFresh
  <2> QED BY <1>1, <2>1, <2>2, <2>3
<1>5. CASE Elsewhere
  <2>1. UNCHANGED <<rows, obtained, restored>>
    BY <1>5 DEF Elsewhere, RenewDue, RenewNext, Age, Restart, history
  <2>2. PathStep(FALSE)
    BY <1>0, <2>1, PathsKept
  <2>3. ASSUME NEW q \in Procs PROVE CopyFresh(q)'
    <3>1. CASE RenewDue
      <4>1. /\ UNCHANGED <<pc, job, seen, got>>
            /\ todo'[q] = todo[q] \/ pc[q] = "idle"
        BY <1>0, <3>1, Constants DEF RenewDue, At, Types
      <4> QED BY <2>1, <4>1 DEF Fresh, CopyFresh, Copying, Own
    <3>2. CASE RenewNext
      <4>1. CASE q = Renewer
        <5>1. pc'[q] = "lock"
          BY <1>0, <3>2, <4>1, Constants DEF RenewNext, Goto, Types
        <5> QED BY <5>1, IdleFresh DEF Copying
      <4>2. CASE q # Renewer
        <5>1. /\ UNCHANGED <<seen, got>>
              /\ pc'[q] = pc[q] /\ job'[q] = job[q] /\ todo'[q] = todo[q]
          BY <1>0, <3>2, <4>2, Constants DEF RenewNext, Goto, Types
        <5> QED BY <2>1, <5>1 DEF Fresh, CopyFresh, Copying, Own
      <4> QED BY <4>1, <4>2
    <3>3. CASE Age
      BY <2>1, <3>3 DEF Age, local, Fresh, CopyFresh, Copying, Own
    <3>4. CASE Restart
      <4>1. pc'[q] = "idle"
        BY <3>4 DEF Restart
      <4> QED BY <4>1, IdleFresh DEF Copying
    <3> QED BY <1>5, <3>1, <3>2, <3>3, <3>4 DEF Elsewhere
  <2> QED BY <1>1, <2>2, <2>3
<1> QED BY <1>2, <1>3, <1>4, <1>5 DEF Next, Elsewhere

(* Overlapping renewals, imports, listings and failures never put a stored *)
(* certificate back to an older pair, unless an edit of the metadata has.   *)
THEOREM ForwardHold == Spec => RenewalsMoveForward
<1>1. CertificateInv /\ Fresh /\ [Next]_vars => Fresh'
  BY FreshStep
<1>2. Spec => []Fresh
  BY <1>1, FreshInit, Invariance, PTL DEF Spec
<1>3. CertificateInv /\ Fresh /\ [Next]_vars =>
        [~restored' => \A id \in Ids :
           rows[id] # None /\ rows'[id] # None => rows'[id].path >= rows[id].path]_vars
  <2> SUFFICES ASSUME CertificateInv, Fresh, [Next]_vars, ~restored', NEW id \in Ids,
                      rows[id] # None, rows'[id] # None
               PROVE  rows'[id].path >= rows[id].path
    OBVIOUS
  <2>1. PICK held \in BOOLEAN : PathStep(held)
    BY FreshStep
  <2> QED BY <2>1 DEF PathStep
<1> QED BY <1>2, <1>3, Invariance, PTL DEF Spec, RenewalsMoveForward
=============================================================================
