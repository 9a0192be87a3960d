--------------------------- MODULE ControlPlaneProof ---------------------------
(***************************************************************************)
(* Proofs about ControlPlane for any number of handlers, rows, domains and *)
(* objects, and any bounds.                                                *)
(***************************************************************************)
EXTENDS ControlPlaneInvariant, TLAPS

(* The steps of one handler. *)
Step(c) == Arrive(c) \/ Proceed(c) \/ Acquire(c)

(* What belongs to one handler. *)
Own(c) == <<pc[c], kind[c], tgt[c], want[c], old[c], second[c], snap[c],
            seen[c], snapVer[c], mine[c]>>

-----------------------------------------------------------------------------
(* Types. *)

LEMMA TableTypes ==
  /\ HostIds \subseteq Ids
  /\ RouteIds \subseteq Ids
  /\ \A k \in Creations : CreatedIn[k] \subseteq Ids
  /\ Certs \subseteq Refs /\ Lists \subseteq Refs /\ Providers \subseteq Refs
  /\ Creations \subseteq Kinds
  /\ None \notin Ids /\ None \notin Refs /\ None \notin Row /\ None \notin Clients
  /\ Ids \cap Refs = {}
BY IdsAssumption DEF Ids, RouteIds, Refs, Creations, CreatedIn, Kinds

LEMMA RenderedType ==
  ASSUME NEW id \in Ids, NEW row \in MaybeRow, NEW known
  PROVE  Rendered(id, row, known) \in MaybeRow
BY DEF Rendered, MaybeRow, Row

LEMMA TypeInit == Init => TypeOK
<1> SUFFICES ASSUME Init PROVE TypeOK
  OBVIOUS
<1>1. conf \in [Ids -> MaybeRow] /\ live = conf
  BY DataAssumption, RenderedType DEF Init
<1>2. snap \in [Clients -> [Ids -> MaybeRow]]
  BY DEF Init, NothingRead, MaybeRow
<1>3. /\ snapVer \in [Clients -> [Ids -> Nat]]
      /\ ver \in [Ids -> Nat]
      /\ confVer \in [Ids -> Nat]
  BY DEF Init, NoVersion
<1>4. /\ pc \in [Clients -> Labels]
      /\ kind \in [Clients -> Kinds]
  BY DEF Init, Labels, Kinds
<1>5. /\ want \in [Clients -> MaybeRow]
      /\ old \in [Clients -> MaybeRow]
      /\ tgt \in [Clients -> Ids \cup Refs \cup {None}]
      /\ owner \in [Ids -> Clients \cup {None}]
  BY DEF Init, MaybeRow
<1>6. /\ rows \in [Ids -> MaybeRow]
      /\ used \subseteq Ids /\ refs \subseteq Refs /\ material \subseteq Certs
      /\ started \in 0..MaxRequests /\ faults \in 0..MaxFaults
  BY DataAssumption DEF Init
<1>7. /\ second \in [Clients -> BOOLEAN]
      /\ seen \in [Clients -> SUBSET (Lists \cup Providers)]
      /\ mine \in [Clients -> Nat]
      /\ holder \in Clients \cup {None}
      /\ pending \in BOOLEAN /\ lastOk \in BOOLEAN /\ reloadLost \in BOOLEAN
  BY DEF Init
<1> QED BY <1>1, <1>2, <1>3, <1>4, <1>5, <1>6, <1>7 DEF TypeOK

LEMMA ArriveTypes ==
  ASSUME TypeOK, Shapes, NEW c \in Clients, Arrive(c)
  PROVE  TypeOK'
<1> USE TableTypes, DataAssumption DEF TypeOK, Accept, Request, Goto, storeVars,
        applyVars, confVars, liveVars, writeVars, Labels
<1>1. ASSUME NEW row \in InputRows, CreateHost(c, row) PROVE TypeOK'
  BY <1>1 DEF CreateHost, MaybeRow, Kinds, Creations, CreatedIn
<1>2. ASSUME NEW row \in InputRows, NEW k \in Creations, CreateRoute(c, k, row)
      PROVE  TypeOK'
  BY <1>2 DEF CreateRoute, MaybeRow
<1>3. ASSUME NEW row \in InputRows, NEW id \in Ids, UpdateHost(c, id, row)
      PROVE  TypeOK'
  BY <1>3 DEF UpdateHost, MaybeRow, Kinds
<1>4. ASSUME NEW row \in InputRows, NEW id \in Ids, UpdateRoute(c, id, row)
      PROVE  TypeOK'
  BY <1>4 DEF UpdateRoute, MaybeRow, Kinds
<1>5. ASSUME NEW id \in Ids, DeleteRow(c, id) PROVE TypeOK'
  BY <1>5 DEF DeleteRow, MaybeRow, Kinds
<1>6. ASSUME NEW r \in Refs, DeleteRef(c, r) PROVE TypeOK'
  BY <1>6 DEF DeleteRef, MaybeRow, Kinds
<1>7. ASSUME NEW k \in {"touch", "setting"}, Touch(c, k) PROVE TypeOK'
  BY <1>7 DEF Touch, MaybeRow, Kinds
<1> QED BY <1>1, <1>2, <1>3, <1>4, <1>5, <1>6, <1>7 DEF Arrive

LEMMA FewerRefs ==
  ASSUME NEW row \in Row, NEW gone
  PROVE  /\ [row EXCEPT !.refs = @ \ gone] \in Row
         /\ [row EXCEPT !.refs = @ \ gone].refs = row.refs \ gone
BY DEF Row

LEMMA CountTypes ==
  ASSUME TypeOK, NEW written, NEW who \in Clients \cup {None}
  PROVE  /\ Bump(written) \in [Ids -> Nat]
         /\ Credit(written, who) \in [Ids -> Clients \cup {None}]
<1>1. \A id \in Ids : ver[id] \in Nat /\ ver[id] + 1 \in Nat
  BY DEF TypeOK
<1>2. \A id \in Ids : owner[id] \in Clients \cup {None}
  BY DEF TypeOK
<1> QED BY <1>1, <1>2 DEF Bump, Credit

LEMMA StoreTypes ==
  ASSUME TypeOK, NEW c \in Clients, NEW written, NEW id \in Ids,
         NEW row \in MaybeRow, Store(c, [rows EXCEPT ![id] = row], written)
  PROVE  /\ rows' \in [Ids -> MaybeRow]
         /\ ver' \in [Ids -> Nat]
         /\ owner' \in [Ids -> Clients \cup {None}]
<1>1. rows' \in [Ids -> MaybeRow]
  BY DEF TypeOK, Store
<1> QED BY <1>1, CountTypes DEF Store

LEMMA UndoTypes ==
  ASSUME TypeOK, NEW c \in Clients, Undo(c)
  PROVE  /\ rows' \in [Ids -> MaybeRow]
         /\ ver' \in [Ids -> Nat]
         /\ owner' \in [Ids -> Clients \cup {None}]
<1>1. CASE Undoable(c)
  <2>1. Store(c, [rows EXCEPT ![tgt[c]] = old[c]], {tgt[c]})
    BY <1>1 DEF Undo
  <2>2. old[c] \in MaybeRow
    BY DEF TypeOK
  <2> QED BY <1>1, <2>1, <2>2, StoreTypes DEF Undoable
<1>2. CASE ~Undoable(c)
  BY <1>2 DEF Undo, TypeOK
<1> QED BY <1>1, <1>2

LEMMA FaultCounted ==
  ASSUME TypeOK, faults < MaxFaults
  PROVE  faults + 1 \in 0..MaxFaults
BY DataAssumption DEF TypeOK

LEMMA FinishTypes ==
  ASSUME TypeOK, NEW c \in Clients, NEW ok \in BOOLEAN, Finish(c, ok)
  PROVE  /\ pc' \in [Clients -> Labels]
         /\ lastOk' \in BOOLEAN
         /\ holder' \in Clients \cup {None}
         /\ snap' \in [Clients -> [Ids -> MaybeRow]]
         /\ snapVer' \in [Clients -> [Ids -> Nat]]
         /\ seen' \in [Clients -> SUBSET (Lists \cup Providers)]
BY DEF TypeOK, Finish, Goto, Returned, Unlock, Labels, NothingRead, NoVersion, MaybeRow

LEMMA RoutingType ==
  ASSUME TypeOK, NEW c \in Clients
  PROVE  Routing(c) \in [Ids -> MaybeRow]
BY RenderedType DEF TypeOK, Routing

LEMMA ProceedTypes ==
  ASSUME TypeOK, Shapes, NEW c \in Clients, Proceed(c)
  PROVE  TypeOK'
<1> USE TableTypes DEF TypeOK, Goto, storeVars, requestVars, applyVars, confVars,
        liveVars, writeVars
<1>0. RequestShape(c)
  BY DEF Shapes
<1>1. CASE CheckDomains(c)
  BY <1>1 DEF CheckDomains, Labels
<1>2. CASE ReadOld(c)
  BY <1>0, <1>2 DEF ReadOld, Labels, RequestShape
<1>3. CASE CheckRefs(c)
  BY <1>3 DEF CheckRefs, Labels
<1>4. CASE Insert(c)
  <2>1. CASE want[c].refs \subseteq refs
    <3>1. PICK id \in CreatedIn[kind[c]] \ used :
             /\ Store(c, [rows EXCEPT ![id] = want[c]], {id})
             /\ used' = used \cup {id}
             /\ tgt' = [tgt EXCEPT ![c] = id]
             /\ mine' = [mine EXCEPT ![c] = ver[id] + 1]
             /\ Goto(c, "reread")
      BY <1>4, <2>1 DEF Insert
    <3>2. id \in Ids /\ want[c] \in MaybeRow
      BY <1>4 DEF Insert
    <3>3. /\ rows' \in [Ids -> MaybeRow]
          /\ ver' \in [Ids -> Nat]
          /\ owner' \in [Ids -> Clients \cup {None}]
      BY <3>1, <3>2, StoreTypes
    <3> QED BY <1>4, <3>1, <3>2, <3>3 DEF Insert, Labels
  <2>2. CASE ~(want[c].refs \subseteq refs)
    <3>1. Goto(c, "failed") /\ UNCHANGED <<rows, used, tgt, ver, mine, owner>>
      BY <1>4, <2>2 DEF Insert
    <3> QED BY <1>4, <3>1 DEF Insert, Labels
  <2> QED BY <2>1, <2>2
<1>5. CASE Update(c)
  <2>1. want[c] \in MaybeRow /\ tgt[c] \in Ids
    BY <1>0, <1>5 DEF Update, RequestShape
  <2>2. CASE rows[tgt[c]] # None /\ want[c].refs \subseteq refs
    <3>1. /\ rows' \in [Ids -> MaybeRow]
          /\ ver' \in [Ids -> Nat]
          /\ owner' \in [Ids -> Clients \cup {None}]
      BY <1>5, <2>1, <2>2, StoreTypes DEF Update
    <3>2. mine' = [mine EXCEPT ![c] = ver[tgt[c]] + 1] /\ Goto(c, "reread")
      BY <1>5, <2>2 DEF Update
    <3>3. ver[tgt[c]] + 1 \in Nat
      BY <2>1
    <3> QED BY <1>5, <3>1, <3>2, <3>3 DEF Update, Labels
  <2>3. CASE ~(rows[tgt[c]] # None /\ want[c].refs \subseteq refs)
    <3>1. Goto(c, "failed") /\ UNCHANGED <<rows, ver, mine, owner>>
      BY <1>5, <2>3 DEF Update
    <3> QED BY <1>5, <3>1 DEF Update, Labels
  <2> QED BY <2>2, <2>3
<1>6. CASE Reread(c)
  BY <1>6 DEF Reread, Labels
<1>7. CASE Delete(c)
  <2>1. None \in MaybeRow /\ tgt[c] \in Ids
    BY <1>0, <1>7 DEF Delete, RequestShape, MaybeRow
  <2>2. CASE rows[tgt[c]] # None
    <3>1. /\ rows' \in [Ids -> MaybeRow]
          /\ ver' \in [Ids -> Nat]
          /\ owner' \in [Ids -> Clients \cup {None}]
      BY <1>7, <2>1, <2>2, StoreTypes DEF Delete
    <3>2. mine' = [mine EXCEPT ![c] = ver[tgt[c]] + 1] /\ Goto(c, "apply")
      BY <1>7, <2>2 DEF Delete
    <3>3. ver[tgt[c]] + 1 \in Nat
      BY <2>1
    <3> QED BY <1>7, <3>1, <3>2, <3>3 DEF Delete, Labels
  <2>3. CASE rows[tgt[c]] = None
    <3>1. /\ UNCHANGED <<rows, ver, mine, owner>>
          /\ Goto(c, IF tgt[c] \in HostIds THEN "failed" ELSE "apply")
      BY <1>7, <2>3 DEF Delete, writeVars
    <3> QED BY <1>7, <3>1 DEF Delete, Labels
  <2> QED BY <2>2, <2>3
<1>8. CASE CheckRoutes(c)
  BY <1>8 DEF CheckRoutes, Labels
<1>9. CASE DropRef(c)
  <2>1. \A id \in Ids : Unreferenced(rows[id], tgt[c]) \in MaybeRow
    <3>1. ASSUME NEW id \in Ids PROVE Unreferenced(rows[id], tgt[c]) \in MaybeRow
      <4>1. rows[id] \in MaybeRow
        OBVIOUS
      <4>2. rows[id] \in Row => [rows[id] EXCEPT !.refs = @ \ {tgt[c]}] \in Row
        BY FewerRefs
      <4> QED BY <4>1, <4>2 DEF Unreferenced, MaybeRow
    <3> QED BY <3>1
  <2>2. rows' \in [Ids -> MaybeRow]
    BY <1>9, <2>1 DEF DropRef
  <2>3. ver' \in [Ids -> Nat] /\ owner' \in [Ids -> Clients \cup {None}]
    BY <1>9, CountTypes DEF DropRef
  <2> QED BY <1>9, <2>2, <2>3 DEF DropRef, Labels
<1>10. CASE EraseMaterial(c)
  BY <1>10 DEF EraseMaterial, Labels
<1>11. CASE ReadRoutes(c)
  BY <1>11 DEF ReadRoutes, Labels
<1>12. CASE ReadLists(c)
  <2>1. OptionalObjects \subseteq Lists \cup Providers
    BY DEF OptionalObjects, Refs
  <2> QED BY <1>12, <2>1 DEF ReadLists, Labels
<1>13. CASE Activate(c)
  BY <1>13, RoutingType DEF Activate, Labels
<1>14. CASE Refuse(c)
  BY <1>14, FinishTypes, FaultCounted DEF Refuse
<1>15. CASE SignalReload(c)
  BY <1>15, FinishTypes DEF SignalReload
<1>16. CASE SignalFails(c)
  BY <1>16, FinishTypes, FaultCounted DEF SignalFails
<1>17. CASE Rollback(c)
  <2> QED BY <1>17, UndoTypes DEF Rollback, Labels
<1>18. CASE Respond(c)
  BY <1>18 DEF Respond, Labels, Kinds, MaybeRow
<1> QED BY <1>1, <1>2, <1>3, <1>4, <1>5, <1>6, <1>7, <1>8, <1>9, <1>10, <1>11,
          <1>12, <1>13, <1>14, <1>15, <1>16, <1>17, <1>18 DEF Proceed

LEMMA AcquireTypes ==
  ASSUME TypeOK, NEW c \in Clients, Acquire(c)
  PROVE  TypeOK'
BY DEF TypeOK, Acquire, Goto, storeVars, requestVars, confVars, liveVars, writeVars,
   Labels, MaybeRow

LEMMA ReloadTypes ==
  ASSUME TypeOK, MasterReload
  PROVE  TypeOK'
BY FaultCounted
   DEF TypeOK, MasterReload, storeVars, requestVars, applyVars, confVars, writeVars

LEMMA TypeStep ==
  ASSUME TypeOK, Shapes, [Next]_vars
  PROVE  TypeOK'
<1>1. CASE UNCHANGED vars
  BY <1>1 DEF TypeOK, vars, storeVars, requestVars, applyVars, confVars, liveVars, writeVars
<1> QED BY <1>1, ArriveTypes, ProceedTypes, AcquireTypes, ReloadTypes DEF Next

-----------------------------------------------------------------------------
(* A step of one handler leaves the others alone. *)

LEMMA OthersKeep ==
  ASSUME TypeOK, NEW c \in Clients, NEW d \in Clients, d # c, Step(c)
  PROVE  Own(d)' = Own(d)
<1> USE DEF TypeOK, Own, Goto, Finish, Accept, Request, storeVars, requestVars,
        applyVars, confVars, liveVars, writeVars
<1>1. CASE CheckDomains(c)
  BY <1>1 DEF CheckDomains
<1>2. CASE ReadOld(c)
  BY <1>2 DEF ReadOld
<1>3. CASE CheckRefs(c)
  BY <1>3 DEF CheckRefs
<1>4. CASE Insert(c)
  BY <1>4 DEF Insert
<1>5. CASE Update(c)
  BY <1>5 DEF Update
<1>6. CASE Reread(c)
  BY <1>6 DEF Reread
<1>7. CASE Delete(c)
  BY <1>7 DEF Delete
<1>8. CASE CheckRoutes(c)
  BY <1>8 DEF CheckRoutes
<1>9. CASE DropRef(c)
  BY <1>9 DEF DropRef
<1>10. CASE EraseMaterial(c)
  BY <1>10 DEF EraseMaterial
<1>11. CASE ReadRoutes(c)
  BY <1>11 DEF ReadRoutes
<1>12. CASE ReadLists(c)
  BY <1>12 DEF ReadLists
<1>13. CASE Activate(c)
  BY <1>13 DEF Activate
<1>14. CASE Refuse(c)
  BY <1>14 DEF Refuse
<1>15. CASE SignalReload(c)
  BY <1>15 DEF SignalReload
<1>16. CASE SignalFails(c)
  BY <1>16 DEF SignalFails
<1>17. CASE Rollback(c)
  BY <1>17 DEF Rollback
<1>18. CASE Respond(c)
  BY <1>18 DEF Respond
<1>19. CASE Acquire(c)
  BY <1>19 DEF Acquire
<1>20. CASE Arrive(c)
  BY <1>20 DEF Arrive, CreateHost, CreateRoute, UpdateHost, UpdateRoute, DeleteRow,
     DeleteRef, Touch
<1> QED BY <1>1, <1>2, <1>3, <1>4, <1>5, <1>6, <1>7, <1>8, <1>9, <1>10, <1>11, <1>12, <1>13, <1>14, <1>15, <1>16, <1>17, <1>18, <1>19, <1>20 DEF Step, Proceed

-----------------------------------------------------------------------------
(* What a handler works on fits its kind. *)

LEMMA ShapesInit == Init => Shapes
BY DEF Init, Shapes, RequestShape, Creations, CreatedIn

LEMMA ShapeSelf ==
  ASSUME TypeOK, Shapes, NEW c \in Clients, Step(c)
  PROVE  RequestShape(c)'
<1> USE TableTypes DEF TypeOK, RequestShape, Creations, CreatedIn, Goto, storeVars,
        requestVars, applyVars, confVars, liveVars, writeVars
<1>0. RequestShape(c)
  BY DEF Shapes
<1>1. CASE CheckDomains(c)
  BY <1>0, <1>1 DEF CheckDomains
<1>2. CASE ReadOld(c)
  BY <1>0, <1>2 DEF ReadOld
<1>3. CASE CheckRefs(c)
  BY <1>0, <1>3 DEF CheckRefs
<1>4. CASE Insert(c)
  <2>1. kind[c] \in Creations /\ kind' = kind /\ want' = want
    BY <1>4 DEF Insert
  <2>2. CASE want[c].refs \subseteq refs
    <3>1. PICK id \in CreatedIn[kind[c]] \ used :
            tgt' = [tgt EXCEPT ![c] = id] /\ pc' = [pc EXCEPT ![c] = "reread"]
      BY <1>4, <2>2 DEF Insert
    <3>2. tgt'[c] \in Ids /\ pc'[c] = "reread"
      BY <2>1, <3>1
    <3> QED BY <1>0, <2>1, <3>2
  <2>3. CASE ~(want[c].refs \subseteq refs)
    <3>1. pc'[c] = "failed" /\ tgt' = tgt
      BY <1>4, <2>3 DEF Insert
    <3>2. pc[c] = "write"
      BY <1>4 DEF Insert
    <3> QED BY <1>0, <2>1, <3>1, <3>2
  <2> QED BY <2>2, <2>3
<1>5. CASE Update(c)
  BY <1>0, <1>5 DEF Update
<1>6. CASE Reread(c)
  BY <1>0, <1>6 DEF Reread
<1>7. CASE Delete(c)
  BY <1>0, <1>7 DEF Delete
<1>8. CASE CheckRoutes(c)
  BY <1>0, <1>8 DEF CheckRoutes
<1>9. CASE DropRef(c)
  BY <1>0, <1>9 DEF DropRef
<1>10. CASE EraseMaterial(c)
  BY <1>0, <1>10 DEF EraseMaterial
<1>11. CASE ReadRoutes(c)
  BY <1>0, <1>11 DEF ReadRoutes
<1>12. CASE ReadLists(c)
  BY <1>0, <1>12 DEF ReadLists
<1>13. CASE Activate(c)
  BY <1>0, <1>13 DEF Activate
<1>14. CASE Refuse(c)
  BY <1>0, <1>14 DEF Refuse, Finish, Returned
<1>15. CASE SignalReload(c)
  BY <1>0, <1>15 DEF SignalReload, Finish, Returned
<1>16. CASE SignalFails(c)
  BY <1>0, <1>16 DEF SignalFails, Finish, Returned
<1>17. CASE Rollback(c)
  BY <1>0, <1>17 DEF Rollback
<1>18. CASE Respond(c)
  BY <1>0, <1>18 DEF Respond
<1>19. CASE Acquire(c)
  BY <1>0, <1>19 DEF Acquire
<1>20. CASE Arrive(c)
  BY <1>0, <1>20, DataAssumption
     DEF Arrive, CreateHost, CreateRoute, UpdateHost, UpdateRoute, DeleteRow,
         DeleteRef, Touch, Accept, Request
<1> QED BY <1>1, <1>2, <1>3, <1>4, <1>5, <1>6, <1>7, <1>8, <1>9, <1>10, <1>11, <1>12, <1>13, <1>14, <1>15, <1>16, <1>17, <1>18, <1>19, <1>20 DEF Step, Proceed

LEMMA ShapesStep ==
  ASSUME TypeOK, Shapes, [Next]_vars
  PROVE  Shapes'
<1>1. CASE UNCHANGED vars \/ MasterReload
  BY <1>1 DEF Shapes, RequestShape, MasterReload, vars, requestVars, writeVars
<1>2. ASSUME NEW c \in Clients, Step(c) PROVE Shapes'
  <2>1. ASSUME NEW d \in Clients, d # c PROVE RequestShape(d)'
    <3>1. Own(d)' = Own(d)
      BY <1>2, <2>1, OthersKeep
    <3> QED BY <3>1 DEF Own, Shapes, RequestShape
  <2> QED BY <1>2, <2>1, ShapeSelf DEF Shapes
<1> QED BY <1>1, <1>2 DEF Next, Step

(* Every state is well typed and every handler's data fit its request.     *)
THEOREM TypeCorrect == Spec => [](TypeOK /\ Shapes)
<1>1. TypeOK /\ Shapes /\ [Next]_vars => (TypeOK /\ Shapes)'
  BY TypeStep, ShapesStep
<1> QED BY <1>1, TypeInit, ShapesInit, PTL DEF Spec

-----------------------------------------------------------------------------
(* The two halves of a handler: outside Apply it works on the tables and   *)
(* keeps its hands off nginx.conf, inside it is the other way round.       *)

HandlerStep(c) ==
  \/ Arrive(c)
  \/ CheckDomains(c) \/ ReadOld(c) \/ CheckRefs(c)
  \/ Insert(c) \/ Update(c) \/ Reread(c) \/ Delete(c)
  \/ CheckRoutes(c) \/ DropRef(c) \/ EraseMaterial(c)
  \/ Rollback(c) \/ Respond(c)

ApplyStep(c) ==
  \/ Acquire(c) \/ ReadRoutes(c) \/ ReadLists(c) \/ Activate(c)
  \/ Refuse(c) \/ SignalReload(c) \/ SignalFails(c)

(* What a step may do to the tables: a changed row gets the next version,  *)
(* a deleted one stays deleted, and references lead somewhere.             *)
TableStep ==
  /\ used \subseteq used' /\ refs' \subseteq refs
  /\ \A id \in Ids :
       /\ \/ rows'[id] = rows[id] /\ ver'[id] = ver[id]
          \/ ver'[id] = ver[id] + 1
       /\ id \in used /\ rows[id] = None => rows'[id] = None
       /\ rows'[id] # None => rows'[id].refs \subseteq refs'

LEMMA StepsSplit ==
  ASSUME NEW c, Step(c) PROVE HandlerStep(c) \/ ApplyStep(c)
BY DEF Step, Proceed, HandlerStep, ApplyStep

LEMMA ApplyKeepsTables ==
  ASSUME NEW c, ApplyStep(c)
  PROVE  UNCHANGED <<storeVars, requestVars, writeVars>>
BY DEF ApplyStep, Acquire, ReadRoutes, ReadLists, Activate, Refuse, SignalReload,
   SignalFails

LEMMA QuietTables ==
  ASSUME ForeignKeys, UNCHANGED <<storeVars, ver>>
  PROVE  TableStep
BY DEF TableStep, ForeignKeys, storeVars

(* One row is written and its references are there.                        *)
LEMMA RowWritten ==
  ASSUME TypeOK, ForeignKeys, NEW c \in Clients, NEW id \in Ids, NEW row \in MaybeRow,
         Store(c, [rows EXCEPT ![id] = row], {id}),
         row # None => row.refs \subseteq refs,
         id \in used /\ rows[id] = None => row = None,
         used \subseteq used', refs' = refs
  PROVE  TableStep
<1>1. /\ rows' = [rows EXCEPT ![id] = row]
      /\ ver' = [i \in Ids |-> IF i \in {id} THEN ver[i] + 1 ELSE ver[i]]
  BY DEF Store, Bump
<1> QED BY <1>1 DEF TypeOK, ForeignKeys, TableStep

LEMMA HandlerTables ==
  ASSUME TypeOK, Shapes, ForeignKeys, NEW c \in Clients, HandlerStep(c)
  PROVE  TableStep
<1>0. RequestShape(c)
  BY DEF Shapes
<1>1. CASE Arrive(c)
  <2>1. UNCHANGED <<storeVars, ver>>
    BY <1>1 DEF Arrive, CreateHost, CreateRoute, UpdateHost, UpdateRoute, DeleteRow,
       DeleteRef, Touch, Accept, writeVars
  <2> QED BY <2>1, QuietTables
<1>2. CASE CheckDomains(c) \/ ReadOld(c) \/ CheckRefs(c) \/ Reread(c) \/ CheckRoutes(c)
  <2>1. UNCHANGED <<storeVars, ver>>
    BY <1>2 DEF CheckDomains, ReadOld, CheckRefs, Reread, CheckRoutes, writeVars
  <2> QED BY <2>1, QuietTables
<1>3. CASE EraseMaterial(c) \/ Respond(c)
  <2>1. UNCHANGED <<rows, used, refs, ver>>
    BY <1>3 DEF EraseMaterial, Respond, storeVars, writeVars
  <2> QED BY <2>1 DEF TableStep, ForeignKeys
<1>4. CASE Insert(c)
  <2>1. CASE want[c].refs \subseteq refs
    <3>1. PICK id \in CreatedIn[kind[c]] \ used :
             /\ Store(c, [rows EXCEPT ![id] = want[c]], {id})
             /\ used' = used \cup {id}
      BY <1>4, <2>1 DEF Insert
    <3>2. id \in Ids /\ want[c] \in MaybeRow /\ refs' = refs
      BY <1>4, TableTypes DEF Insert, TypeOK
    <3> QED BY <2>1, <3>1, <3>2, RowWritten
  <2>2. CASE ~(want[c].refs \subseteq refs)
    <3>1. UNCHANGED <<rows, used, refs, ver>>
      BY <1>4, <2>2 DEF Insert, writeVars
    <3> QED BY <3>1 DEF TableStep, ForeignKeys
  <2> QED BY <2>1, <2>2
<1>5. CASE Update(c)
  <2>0. tgt[c] \in Ids /\ want[c] \in MaybeRow /\ used' = used /\ refs' = refs
    BY <1>0, <1>5 DEF Update, RequestShape, TypeOK
  <2>1. CASE rows[tgt[c]] # None /\ want[c].refs \subseteq refs
    <3>1. Store(c, [rows EXCEPT ![tgt[c]] = want[c]], {tgt[c]})
      BY <1>5, <2>1 DEF Update
    <3> QED BY <2>0, <2>1, <3>1, RowWritten
  <2>2. CASE ~(rows[tgt[c]] # None /\ want[c].refs \subseteq refs)
    <3>1. UNCHANGED <<rows, ver>>
      BY <1>5, <2>2 DEF Update, writeVars
    <3> QED BY <2>0, <3>1 DEF TableStep, ForeignKeys
  <2> QED BY <2>1, <2>2
<1>6. CASE Delete(c)
  <2>0. tgt[c] \in Ids /\ None \in MaybeRow /\ used' = used /\ refs' = refs
    BY <1>0, <1>6 DEF Delete, RequestShape, MaybeRow
  <2>1. CASE rows[tgt[c]] # None
    <3>1. Store(c, [rows EXCEPT ![tgt[c]] = None], {tgt[c]})
      BY <1>6, <2>1 DEF Delete
    <3> QED BY <2>0, <2>1, <3>1, RowWritten
  <2>2. CASE rows[tgt[c]] = None
    <3>1. UNCHANGED <<rows, ver>>
      BY <1>6, <2>2 DEF Delete, writeVars
    <3> QED BY <2>0, <3>1 DEF TableStep, ForeignKeys
  <2> QED BY <2>1, <2>2
<1>7. CASE DropRef(c)
  <2> DEFINE hit == {id \in Ids : rows[id] # None /\ tgt[c] \in rows[id].refs}
  <2>1. /\ refs' = refs \ {tgt[c]} /\ used' = used
        /\ rows' = [id \in Ids |-> Unreferenced(rows[id], tgt[c])]
        /\ ver' = [id \in Ids |-> IF id \in hit THEN ver[id] + 1 ELSE ver[id]]
    BY <1>7 DEF DropRef, Bump
  <2>2. ASSUME NEW id \in Ids
        PROVE  /\ \/ rows'[id] = rows[id] /\ ver'[id] = ver[id]
                  \/ ver'[id] = ver[id] + 1
               /\ rows[id] = None => rows'[id] = None
               /\ rows'[id] # None => rows'[id].refs \subseteq refs'
    <3>1. CASE rows[id] = None
      BY <2>1, <3>1 DEF Unreferenced
    <3>2. CASE rows[id] # None
      <4>1. rows[id] \in Row /\ rows[id].refs \subseteq refs
        BY <3>2 DEF TypeOK, MaybeRow, ForeignKeys
      <4>2. rows'[id] = [rows[id] EXCEPT !.refs = @ \ {tgt[c]}]
        BY <2>1, <3>2 DEF Unreferenced
      <4>3. rows'[id].refs = rows[id].refs \ {tgt[c]}
        BY <4>1, <4>2, FewerRefs
      <4>4. CASE tgt[c] \in rows[id].refs
        BY <2>1, <3>2, <4>1, <4>3, <4>4
      <4>5. CASE tgt[c] \notin rows[id].refs
        <5>1. rows'[id] = rows[id]
          BY <4>1, <4>2, <4>5 DEF Row
        <5> QED BY <2>1, <4>1, <4>5, <5>1
      <4> QED BY <4>4, <4>5
    <3> QED BY <3>1, <3>2
  <2> QED BY <2>1, <2>2 DEF TableStep
<1>8. CASE Rollback(c)
  <2>0. old[c] \in MaybeRow /\ used' = used /\ refs' = refs
    BY <1>8 DEF Rollback, TypeOK
  <2>1. CASE Undoable(c)
    <3>1. Store(c, [rows EXCEPT ![tgt[c]] = old[c]], {tgt[c]})
      BY <1>8, <2>1 DEF Rollback, Undo
    <3> QED BY <2>0, <2>1, <3>1, RowWritten DEF Undoable
  <2>2. CASE ~Undoable(c)
    <3>1. UNCHANGED <<rows, ver>>
      BY <1>8, <2>2 DEF Rollback, Undo
    <3> QED BY <2>0, <3>1 DEF TableStep, ForeignKeys
  <2> QED BY <2>1, <2>2
<1> QED BY <1>1, <1>2, <1>3, <1>4, <1>5, <1>6, <1>7, <1>8 DEF HandlerStep

LEMMA TablesStep ==
  ASSUME TypeOK, Shapes, ForeignKeys, [Next]_vars
  PROVE  TableStep
<1>1. CASE UNCHANGED vars \/ MasterReload
  BY <1>1, QuietTables DEF MasterReload, vars, storeVars, writeVars
<1>2. ASSUME NEW c \in Clients, Step(c) PROVE TableStep
  BY <1>2, StepsSplit, HandlerTables, ApplyKeepsTables, QuietTables DEF writeVars
<1> QED BY <1>1, <1>2 DEF Next, Step

LEMMA ForeignKeysInit == Init => ForeignKeys
BY DataAssumption DEF Init, ForeignKeys, MaybeRow, Row

LEMMA ForeignKeysStep ==
  ASSUME TypeOK, Shapes, ForeignKeys, [Next]_vars
  PROVE  ForeignKeys'
BY TablesStep DEF TableStep, ForeignKeys

-----------------------------------------------------------------------------
(* What a step outside Apply leaves alone, and what it may acknowledge.    *)

LEMMA HandlerEffect ==
  ASSUME TypeOK, Shapes, NEW c \in Clients, HandlerStep(c)
  PROVE  /\ UNCHANGED <<applyVars, confVars>>
         /\ ~Inside(c) /\ ~Inside(c)'
         /\ pc'[c] = "ok" => tgt'[c] \notin Ids
         /\ tgt'[c] \in Ids =>
              \/ mine'[c] = 0
              \/ mine'[c] = mine[c] /\ tgt'[c] = tgt[c]
              \/ mine'[c] = ver'[tgt'[c]]
<1> USE DEF TypeOK, Inside, Goto
<1>0. RequestShape(c)
  BY DEF Shapes
<1>1. CASE Arrive(c)
  BY <1>0, <1>1 DEF Arrive, CreateHost, CreateRoute, UpdateHost, UpdateRoute, DeleteRow,
       DeleteRef, Touch, Accept, Request, writeVars, RequestShape
<1>2. CASE CheckDomains(c) \/ ReadOld(c) \/ CheckRefs(c) \/ Reread(c) \/ CheckRoutes(c)
  BY <1>2 DEF CheckDomains, ReadOld, CheckRefs, Reread, CheckRoutes, requestVars, writeVars
<1>3. CASE EraseMaterial(c)
  BY <1>0, <1>3, TableTypes DEF EraseMaterial, requestVars, writeVars, RequestShape
<1>4. CASE Respond(c)
  BY <1>4 DEF Respond
<1>5. CASE Insert(c)
  <2>1. CASE want[c].refs \subseteq refs
    <3>1. PICK id \in CreatedIn[kind[c]] \ used :
             /\ Store(c, [rows EXCEPT ![id] = want[c]], {id})
             /\ tgt' = [tgt EXCEPT ![c] = id]
             /\ mine' = [mine EXCEPT ![c] = ver[id] + 1]
             /\ Goto(c, "reread")
      BY <1>5, <2>1 DEF Insert
    <3>2. id \in Ids
      BY <1>5, TableTypes DEF Insert
    <3>3. mine'[c] = ver'[tgt'[c]] /\ pc'[c] = "reread"
      BY <3>1, <3>2 DEF Store, Bump
    <3> QED BY <1>5, <3>3 DEF Insert
  <2>2. CASE ~(want[c].refs \subseteq refs)
    BY <1>5, <2>2 DEF Insert, writeVars
  <2> QED BY <2>1, <2>2
<1>6. CASE Update(c)
  <2>1. CASE rows[tgt[c]] # None /\ want[c].refs \subseteq refs
    <3>1. /\ ver' = Bump({tgt[c]}) /\ tgt' = tgt
          /\ mine' = [mine EXCEPT ![c] = ver[tgt[c]] + 1]
          /\ pc' = [pc EXCEPT ![c] = "reread"]
      BY <1>6, <2>1 DEF Update, Store, requestVars
    <3> QED BY <1>6, <3>1 DEF Update, Bump
  <2>2. CASE ~(rows[tgt[c]] # None /\ want[c].refs \subseteq refs)
    BY <1>6, <2>2 DEF Update, requestVars, writeVars
  <2> QED BY <2>1, <2>2
<1>7. CASE Delete(c)
  <2>1. CASE rows[tgt[c]] # None
    <3>1. /\ ver' = Bump({tgt[c]}) /\ tgt' = tgt
          /\ mine' = [mine EXCEPT ![c] = ver[tgt[c]] + 1]
          /\ pc' = [pc EXCEPT ![c] = "apply"]
      BY <1>7, <2>1 DEF Delete, Store, requestVars
    <3> QED BY <1>7, <3>1 DEF Delete, Bump
  <2>2. CASE rows[tgt[c]] = None
    BY <1>7, <2>2 DEF Delete, requestVars, writeVars
  <2> QED BY <2>1, <2>2
<1>8. CASE DropRef(c)
  BY <1>8 DEF DropRef, requestVars
<1>9. CASE Rollback(c)
  BY <1>9 DEF Rollback
<1> QED BY <1>1, <1>2, <1>3, <1>4, <1>5, <1>6, <1>7, <1>8, <1>9 DEF HandlerStep

-----------------------------------------------------------------------------
(* Manager.mu. *)

LEMMA ExclusionInit == Init => Exclusion
BY TableTypes DEF Init, Exclusion, Inside

LEMMA ExclusionStep ==
  ASSUME TypeOK, Shapes, Exclusion, [Next]_vars
  PROVE  Exclusion'
<1>1. CASE UNCHANGED vars \/ MasterReload
  BY <1>1 DEF Exclusion, Inside, MasterReload, vars, applyVars
<1>2. ASSUME NEW c \in Clients, Step(c) PROVE Exclusion'
  <2>1. \A d \in Clients \ {c} : pc'[d] = pc[d]
    BY <1>2, OthersKeep DEF Own
  <2>2. CASE HandlerStep(c)
    BY <2>1, <2>2, HandlerEffect DEF Exclusion, Inside, applyVars
  <2>3. CASE ApplyStep(c)
    <3>1. /\ holder = c \/ holder = None
          /\ Inside(c)' <=> holder' = c
          /\ holder' \in {c, None}
      <4>1. CASE Acquire(c)
        BY <4>1 DEF Acquire, MutexFree, Goto, Inside, TypeOK
      <4>2. CASE ReadRoutes(c) \/ ReadLists(c) \/ Activate(c)
        BY <4>2 DEF ReadRoutes, ReadLists, Activate, Goto, Exclusion, Inside, TypeOK,
           applyVars
      <4>3. ASSUME NEW ok \in BOOLEAN, Inside(c), Finish(c, ok)
            PROVE  holder = c /\ ~Inside(c)' /\ holder' = None
        BY <4>3 DEF Finish, Returned, Unlock, Goto, Exclusion, Inside, TypeOK
      <4>4. CASE Refuse(c) \/ SignalReload(c) \/ SignalFails(c)
        <5>1. Inside(c) /\ \E ok \in BOOLEAN : Finish(c, ok)
          BY <4>4 DEF Refuse, SignalReload, SignalFails, Inside
        <5>2. PICK ok \in BOOLEAN : Finish(c, ok)
          BY <5>1
        <5> QED BY <4>3, <5>1, <5>2, TableTypes
      <4> QED BY <2>3, <4>1, <4>2, <4>4, TableTypes DEF ApplyStep
    <3> QED BY <2>1, <3>1, TableTypes DEF Exclusion, Inside
  <2> QED BY <1>2, <2>2, <2>3, StepsSplit
<1> QED BY <1>1, <1>2 DEF Next, Step

LEMMA Alone ==
  ASSUME Exclusion, NEW c \in Clients, Inside(c), NEW d \in Clients, d # c
  PROVE  Read(d) = {}
BY DEF Exclusion, Inside, Read

-----------------------------------------------------------------------------
(* What Apply does, seen from the versions. *)

Returns(c) == Refuse(c) \/ SignalReload(c) \/ SignalFails(c)

LEMMA AcquireEffect ==
  ASSUME TypeOK, NEW c \in Clients, Acquire(c)
  PROVE  /\ pc[c] = "apply" /\ pc'[c] = "routes"
         /\ UNCHANGED confVars
         /\ \A id \in HostIds : snap'[c][id] = rows[id] /\ snapVer'[c][id] = ver[id]
BY TableTypes DEF TypeOK, Acquire, Goto

LEMMA ReadRoutesEffect ==
  ASSUME TypeOK, NEW c \in Clients, ReadRoutes(c)
  PROVE  /\ pc[c] = "routes" /\ pc'[c] = "lists"
         /\ UNCHANGED confVars
         /\ \A id \in Ids :
              IF id \in RouteIds
              THEN snap'[c][id] = rows[id] /\ snapVer'[c][id] = ver[id]
              ELSE id \in HostIds /\ snap'[c][id] = snap[c][id]
                                  /\ snapVer'[c][id] = snapVer[c][id]
BY DEF TypeOK, ReadRoutes, Goto, Ids

LEMMA ReadListsEffect ==
  ASSUME TypeOK, NEW c \in Clients, ReadLists(c)
  PROVE  /\ pc[c] = "lists" /\ pc'[c] = "activate"
         /\ UNCHANGED <<confVars, snap, snapVer>>
         /\ seen'[c] = refs \ Certs
BY DEF TypeOK, ReadLists, OptionalObjects, Goto

LEMMA ActivateEffect ==
  ASSUME TypeOK, NEW c \in Clients, Activate(c)
  PROVE  /\ pc[c] = "activate" /\ pc'[c] = "signal"
         /\ conf' = Routing(c) /\ confVer' = snapVer[c]
BY DEF TypeOK, Activate, Goto

LEMMA ReturnsEffect ==
  ASSUME TypeOK, NEW c \in Clients, Returns(c)
  PROVE  /\ UNCHANGED confVars
         /\ pc'[c] \in {"ok", "rollback", "failed"}
         /\ pc[c] \in {"activate", "signal"}
         /\ pc'[c] = "ok" => pc[c] = "signal"
<1>1. ASSUME NEW ok \in BOOLEAN, Finish(c, ok)
      PROVE  /\ pc'[c] \in {"ok", "rollback", "failed"}
             /\ ~ok => pc'[c] # "ok"
  BY <1>1 DEF TypeOK, Finish, Returned, Goto
<1>2. CASE Refuse(c) \/ SignalFails(c)
  <2>1. Finish(c, FALSE) /\ pc[c] \in {"activate", "signal"} /\ UNCHANGED confVars
    BY <1>2 DEF Refuse, SignalFails
  <2> QED BY <1>1, <2>1
<1>3. CASE SignalReload(c)
  <2>1. Finish(c, TRUE) /\ pc[c] = "signal" /\ UNCHANGED confVars
    BY <1>3 DEF SignalReload
  <2> QED BY <1>1, <2>1
<1> QED BY <1>2, <1>3 DEF Returns

LEMMA ApplyCases ==
  ASSUME NEW c, ApplyStep(c)
  PROVE  Acquire(c) \/ ReadRoutes(c) \/ ReadLists(c) \/ Activate(c) \/ Returns(c)
BY DEF ApplyStep, Returns

-----------------------------------------------------------------------------
(* Versions grow. *)

LEMMA VersionsGrow ==
  ASSUME TypeOK, TableStep
  PROVE  \A id \in Ids : ver[id] <= ver'[id] /\ ver[id] \in Nat /\ ver'[id] \in Nat
<1>1. \A id \in Ids : ver[id] \in Nat
  BY DEF TypeOK
<1> QED BY <1>1 DEF TableStep

LEMMA VersionOrderInit == Init => VersionOrder
BY DEF Init, VersionOrder, Read, NoVersion

LEMMA VersionOrderStep ==
  ASSUME TypeOK, Shapes, ForeignKeys, Exclusion, VersionOrder, [Next]_vars
  PROVE  VersionOrder'
<1>0. \A id \in Ids : /\ confVer[id] \in Nat /\ ver[id] \in Nat
                      /\ \A d \in Clients : snapVer[d][id] \in Nat
  BY DEF TypeOK
<1>1. CASE UNCHANGED vars \/ MasterReload
  BY <1>1 DEF VersionOrder, Read, MasterReload, vars, applyVars, confVars, writeVars
<1>2. ASSUME NEW c \in Clients, Step(c) PROVE VersionOrder'
  <2>1. ASSUME NEW d \in Clients, d # c
        PROVE  Read(d)' = Read(d) /\ snapVer'[d] = snapVer[d]
    BY <1>2, <2>1, OthersKeep DEF Own, Read
  <2>2. HostIds \subseteq Ids /\ Read(c) \subseteq Ids
    BY TableTypes DEF Read
  <2>3. CASE HandlerStep(c)
    <3>1. /\ UNCHANGED <<confVer, snapVer>> /\ Read(c)' = {}
          /\ \A id \in Ids : ver[id] <= ver'[id] /\ ver'[id] \in Nat
      BY <2>3, HandlerEffect, HandlerTables, VersionsGrow
         DEF applyVars, confVars, Inside, Read
    <3>2. \A d \in Clients : Read(d) \subseteq Ids
      BY TableTypes DEF Read
    <3>3. \A d \in Clients : Read(d)' \subseteq Read(d)
      BY <2>1, <3>1
    <3> QED BY <1>0, <3>1, <3>2, <3>3 DEF VersionOrder
  <2>4. CASE ApplyStep(c)
    <3>0. ver' = ver
      BY <2>4, ApplyKeepsTables DEF writeVars
    <3>1. CASE Acquire(c)
      <4>1. Read(c)' = HostIds /\ UNCHANGED confVer
        BY <3>1, AcquireEffect DEF Read, confVars
      <4> QED BY <1>0, <2>1, <2>2, <3>0, <3>1, <4>1, AcquireEffect DEF VersionOrder
    <3>2. CASE ReadRoutes(c)
      <4>1. Read(c)' = Ids /\ Read(c) = HostIds /\ UNCHANGED confVer
        BY <3>2, ReadRoutesEffect DEF Read, confVars
      <4>2. \A id \in Ids : confVer[id] <= snapVer'[c][id] /\ snapVer'[c][id] <= ver[id]
        BY <1>0, <3>2, <4>1, ReadRoutesEffect DEF VersionOrder
      <4> QED BY <2>1, <3>0, <4>1, <4>2 DEF VersionOrder
    <3>3. CASE ReadLists(c)
      <4>1. Read(c)' = Read(c) /\ UNCHANGED <<confVer, snapVer>>
        BY <3>3, ReadListsEffect DEF Read, confVars
      <4> QED BY <2>1, <3>0, <4>1 DEF VersionOrder
    <3>4. CASE Activate(c)
      <4>1. Read(c)' = {} /\ Read(c) = Ids /\ Inside(c) /\ confVer' = snapVer[c]
        BY <3>4, ActivateEffect DEF Read, Inside
      <4>2. \A d \in Clients : Read(d)' = {}
        BY <2>1, <4>1, Alone
      <4> QED BY <3>0, <4>1, <4>2 DEF VersionOrder
    <3>5. CASE Returns(c)
      <4>1. Read(c)' = {} /\ UNCHANGED confVer
        BY <3>5, ReturnsEffect DEF Read, confVars
      <4> QED BY <2>1, <3>0, <4>1 DEF VersionOrder
    <3> QED BY <2>4, <3>1, <3>2, <3>3, <3>4, <3>5, ApplyCases
  <2> QED BY <1>2, <2>3, <2>4, StepsSplit
<1> QED BY <1>1, <1>2 DEF Next, Step

-----------------------------------------------------------------------------
(* A handler's own write reaches nginx.conf before it is acknowledged.     *)

(* The part of OwnWriteTravels that belongs to one handler.                *)
Travels(c) ==
  tgt[c] \in Ids =>
    /\ mine[c] <= ver[tgt[c]]
    /\ tgt[c] \in Read(c) => mine[c] <= snapVer[c][tgt[c]]
    /\ pc[c] \in {"signal", "ok"} => mine[c] <= confVer[tgt[c]]

LEMMA TravelsInit == Init => OwnWriteTravels
BY TableTypes DEF Init, OwnWriteTravels

(* nginx.conf and the tables only gain versions.                           *)
LEMMA ActivationStep ==
  ASSUME TypeOK, Shapes, VersionOrder, [Next]_vars
  PROVE  \A id \in Ids : confVer[id] <= confVer'[id]
<1>0. \A id \in Ids : confVer[id] \in Nat
  BY DEF TypeOK
<1>1. CASE UNCHANGED vars \/ MasterReload
  BY <1>0, <1>1 DEF MasterReload, vars, confVars
<1>2. ASSUME NEW c \in Clients, Step(c)
      PROVE  \A id \in Ids : confVer[id] <= confVer'[id]
  <2>1. CASE HandlerStep(c)
    BY <1>0, <2>1, HandlerEffect DEF confVars
  <2>2. CASE Activate(c)
    <3>1. Read(c) = Ids /\ confVer' = snapVer[c]
      BY <2>2, ActivateEffect DEF Read
    <3> QED BY <3>1 DEF VersionOrder
  <2>3. CASE ApplyStep(c) /\ ~Activate(c)
    BY <1>0, <2>3, ApplyCases, AcquireEffect, ReadRoutesEffect, ReadListsEffect,
       ReturnsEffect DEF confVars
  <2> QED BY <1>2, <2>1, <2>2, <2>3, StepsSplit
<1> QED BY <1>1, <1>2 DEF Next, Step

LEMMA TravelsStep ==
  ASSUME TypeOK, Shapes, ForeignKeys, VersionOrder, OwnWriteTravels, [Next]_vars
  PROVE  OwnWriteTravels'
<1>0. \A id \in Ids : /\ ver[id] <= ver'[id] /\ confVer[id] <= confVer'[id]
                      /\ ver[id] \in Nat /\ ver'[id] \in Nat
  BY TablesStep, VersionsGrow, ActivationStep
<1>1. \A id \in Ids : confVer[id] \in Nat /\ confVer'[id] \in Nat
  BY TypeStep DEF TypeOK
<1>2. \A d \in Clients : mine[d] \in Nat /\ snapVer[d] \in [Ids -> Nat]
  BY DEF TypeOK
<1>3. CASE UNCHANGED vars \/ MasterReload
  BY <1>3 DEF OwnWriteTravels, Read, MasterReload, vars, applyVars, confVars, writeVars,
              requestVars
<1>4. ASSUME NEW c \in Clients, Step(c) PROVE OwnWriteTravels'
  <2>1. ASSUME NEW d \in Clients, d # c PROVE Travels(d)'
    <3>1. /\ tgt'[d] = tgt[d] /\ mine'[d] = mine[d] /\ pc'[d] = pc[d]
          /\ snapVer'[d] = snapVer[d] /\ Read(d)' = Read(d)
      BY <1>4, <2>1, OthersKeep DEF Own, Read
    <3>2. Travels(d)
      BY DEF Travels, OwnWriteTravels
    <3> QED BY <1>0, <1>1, <1>2, <3>1, <3>2 DEF Travels
  <2>2. Travels(c)
    BY DEF Travels, OwnWriteTravels
  <2>3. ASSUME HandlerStep(c) PROVE Travels(c)'
    <3>1. Read(c)' = {} /\ pc'[c] # "signal"
      BY <2>3, HandlerEffect DEF Read, Inside
    <3>2. tgt'[c] \in Ids => mine'[c] <= ver'[tgt'[c]] /\ pc'[c] # "ok"
      BY <1>0, <1>2, <2>2, <2>3, HandlerEffect DEF Travels
    <3> QED BY <3>1, <3>2 DEF Travels
  <2>4. ASSUME ApplyStep(c) PROVE Travels(c)'
    <3>0. tgt' = tgt /\ mine' = mine /\ ver' = ver
      BY <2>4, ApplyKeepsTables DEF writeVars, requestVars
    <3>1. CASE Acquire(c)
      <4>1. Read(c)' = HostIds /\ pc'[c] = "routes"
        BY <3>1, AcquireEffect DEF Read
      <4> QED BY <2>2, <3>0, <3>1, <4>1, AcquireEffect DEF Travels
    <3>2. CASE ReadRoutes(c)
      <4>1. Read(c)' = Ids /\ Read(c) = HostIds /\ pc'[c] = "lists"
        BY <3>2, ReadRoutesEffect DEF Read
      <4> QED BY <2>2, <3>0, <3>2, <4>1, ReadRoutesEffect DEF Travels
    <3>3. CASE ReadLists(c)
      <4>1. Read(c)' = Read(c) /\ pc'[c] = "activate" /\ snapVer' = snapVer
        BY <3>3, ReadListsEffect DEF Read
      <4> QED BY <2>2, <3>0, <4>1 DEF Travels
    <3>4. CASE Activate(c)
      <4>1. Read(c)' = {} /\ Read(c) = Ids /\ confVer' = snapVer[c]
        BY <3>4, ActivateEffect DEF Read
      <4> QED BY <2>2, <3>0, <4>1 DEF Travels
    <3>5. CASE Returns(c)
      <4>1. /\ Read(c)' = {} /\ confVer' = confVer /\ pc'[c] # "signal"
            /\ pc'[c] = "ok" => pc[c] = "signal"
        BY <3>5, ReturnsEffect DEF Read, confVars
      <4> QED BY <2>2, <3>0, <4>1 DEF Travels
    <3> QED BY <2>4, <3>1, <3>2, <3>3, <3>4, <3>5, ApplyCases
  <2>5. Travels(c)'
    BY <1>4, <2>3, <2>4, StepsSplit
  <2> QED BY <2>1, <2>5 DEF Travels, OwnWriteTravels
<1> QED BY <1>3, <1>4 DEF Next, Step

-----------------------------------------------------------------------------
(* What Apply read of a row is the row, as long as the row is not written. *)

(* A rendered row whose references are known is the row itself.            *)
LEMMA RenderedWhole ==
  ASSUME NEW id, NEW row \in MaybeRow, NEW known,
         row # None => row.refs \subseteq known
  PROVE  Rendered(id, row, known) = IF row = None \/ ~row.enabled THEN None ELSE row
<1>1. CASE row = None
  BY <1>1 DEF Rendered
<1>2. CASE row # None
  <2>1. row \in Row
    BY <1>2 DEF MaybeRow
  <2>2. [row EXCEPT !.refs = row.refs] = row
    BY <2>1 DEF Row
  <2>3. row.refs \cap (IF id \in StreamIds THEN known ELSE Certs \cup known) = row.refs
    BY <1>2
  <2> QED BY <1>2, <2>2, <2>3 DEF Rendered
<1> QED BY <1>1, <1>2

(* The part of SnapshotCoherent that belongs to one handler.               *)
Coherent(c) ==
  \A id \in Read(c) : snapVer[c][id] = ver[id] =>
    /\ snap[c][id] = rows[id]
    /\ pc[c] = "activate" /\ rows[id] # None => rows[id].refs \ Certs \subseteq seen[c]

LEMMA SnapshotInit == Init => SnapshotCoherent
BY DEF Init, SnapshotCoherent, Read

LEMMA SnapshotStep ==
  ASSUME TypeOK, Shapes, ForeignKeys, VersionOrder, SnapshotCoherent, [Next]_vars
  PROVE  SnapshotCoherent'
<1>0. TableStep /\ \A id \in Ids : ver[id] <= ver'[id] /\ ver[id] \in Nat /\ ver'[id] \in Nat
  BY TablesStep, VersionsGrow
<1>1. \A d \in Clients : /\ snapVer[d] \in [Ids -> Nat]
                         /\ Read(d) \subseteq Ids
  BY TableTypes DEF TypeOK, Read
<1>2. CASE UNCHANGED vars \/ MasterReload
  BY <1>2 DEF SnapshotCoherent, Read, MasterReload, vars, applyVars, storeVars, writeVars
<1>3. ASSUME NEW c \in Clients, Step(c) PROVE SnapshotCoherent'
  <2>1. ASSUME NEW d \in Clients, d # c PROVE Coherent(d)'
    <3>1. /\ pc'[d] = pc[d] /\ snap'[d] = snap[d] /\ seen'[d] = seen[d]
          /\ snapVer'[d] = snapVer[d] /\ Read(d)' = Read(d)
      BY <1>3, <2>1, OthersKeep DEF Own, Read
    <3>2. ASSUME NEW id \in Read(d), snapVer[d][id] = ver'[id]
          PROVE  ver'[id] = ver[id] /\ rows'[id] = rows[id]
      <4>1. id \in Ids /\ snapVer[d][id] <= ver[id]
        BY <1>1 DEF VersionOrder
      <4>2. ver'[id] = ver[id]
        BY <1>0, <3>2, <4>1
      <4> QED BY <1>0, <4>1, <4>2 DEF TableStep
    <3>3. Coherent(d)
      BY DEF Coherent, SnapshotCoherent
    <3> QED BY <3>1, <3>2, <3>3 DEF Coherent
  <2>2. Coherent(c)
    BY DEF Coherent, SnapshotCoherent
  <2>3. ASSUME HandlerStep(c) PROVE Coherent(c)'
    <3>1. Read(c)' = {}
      BY <2>3, HandlerEffect DEF Read, Inside
    <3> QED BY <3>1 DEF Coherent
  <2>4. ASSUME ApplyStep(c) PROVE Coherent(c)'
    <3>0. rows' = rows /\ ver' = ver
      BY <2>4, ApplyKeepsTables DEF writeVars, storeVars
    <3>1. CASE Acquire(c)
      <4>1. Read(c)' = HostIds /\ pc'[c] = "routes"
        BY <3>1, AcquireEffect DEF Read
      <4> QED BY <3>0, <3>1, <4>1, AcquireEffect DEF Coherent
    <3>2. CASE ReadRoutes(c)
      <4>1. Read(c)' = Ids /\ Read(c) = HostIds /\ pc'[c] = "lists"
        BY <3>2, ReadRoutesEffect DEF Read
      <4> QED BY <2>2, <3>0, <3>2, <4>1, ReadRoutesEffect DEF Coherent
    <3>3. CASE ReadLists(c)
      <4>1. Read(c)' = Read(c) /\ UNCHANGED <<snap, snapVer>> /\ seen'[c] = refs \ Certs
        BY <3>3, ReadListsEffect DEF Read
      <4>2. \A id \in Read(c) : rows[id] # None => rows[id].refs \ Certs \subseteq refs \ Certs
        BY <1>1 DEF ForeignKeys
      <4> QED BY <2>2, <3>0, <4>1, <4>2 DEF Coherent
    <3>4. CASE Activate(c) \/ Returns(c)
      <4>1. Read(c)' = {}
        BY <3>4, ActivateEffect, ReturnsEffect DEF Read
      <4> QED BY <4>1 DEF Coherent
    <3> QED BY <2>4, <3>1, <3>2, <3>3, <3>4, ApplyCases
  <2>5. Coherent(c)'
    BY <1>3, <2>3, <2>4, StepsSplit
  <2> QED BY <2>1, <2>5 DEF Coherent, SnapshotCoherent
<1> QED BY <1>2, <1>3 DEF Next, Step

-----------------------------------------------------------------------------
(* What nginx.conf says of a row at its present version is the row.        *)

LEMMA CoherentInit == Init => ActivatedRowsAreCoherent
BY DEF Init, ActivatedRowsAreCoherent

LEMMA CoherentStep ==
  ASSUME Inv, [Next]_vars
  PROVE  ActivatedRowsAreCoherent'
<1>0. TableStep /\ \A id \in Ids : ver[id] <= ver'[id] /\ ver[id] \in Nat /\ ver'[id] \in Nat
  BY TablesStep, VersionsGrow DEF Inv
<1>1. \A id \in Ids : confVer[id] <= ver[id] /\ confVer[id] \in Nat
  BY DEF Inv, VersionOrder, TypeOK
<1>2. \A id \in Ids : rows[id] \in MaybeRow /\ rows'[id] \in MaybeRow
  BY TypeStep DEF Inv, TypeOK
<1>3. ASSUME UNCHANGED confVars
      PROVE  ActivatedRowsAreCoherent'
  <2>1. ASSUME NEW id \in Ids, confVer[id] = ver'[id]
        PROVE  conf[id] = Rendered(id, rows'[id], refs')
    <3>1. ver'[id] = ver[id] /\ rows'[id] = rows[id]
      BY <1>0, <1>1, <2>1 DEF TableStep
    <3>2. rows[id] # None => rows[id].refs \subseteq refs /\ rows[id].refs \subseteq refs'
      BY <1>0, <3>1 DEF TableStep, Inv, ForeignKeys
    <3>3. Rendered(id, rows[id], refs) = Rendered(id, rows[id], refs')
      BY <1>2, <3>2, RenderedWhole
    <3>4. conf[id] = Rendered(id, rows[id], refs)
      BY <2>1, <3>1 DEF Inv, ActivatedRowsAreCoherent
    <3> QED BY <3>1, <3>3, <3>4
  <2> QED BY <1>3, <2>1 DEF ActivatedRowsAreCoherent, confVars
<1>4. ASSUME NEW c \in Clients, Activate(c)
      PROVE  ActivatedRowsAreCoherent'
  <2>1. /\ conf' = Routing(c) /\ confVer' = snapVer[c] /\ Read(c) = Ids
        /\ pc[c] = "activate"
    BY <1>4, ActivateEffect DEF Inv, Read
  <2>2. rows' = rows /\ ver' = ver /\ refs' = refs
    BY <1>4, ApplyKeepsTables DEF ApplyStep, writeVars, storeVars
  <2>3. ASSUME NEW id \in Ids, snapVer[c][id] = ver[id]
        PROVE  Routing(c)[id] = Rendered(id, rows[id], refs)
    <3> DEFINE known == seen[c] \cup (refs \cap Certs)
    <3>1. /\ snap[c][id] = rows[id]
          /\ rows[id] # None => rows[id].refs \ Certs \subseteq seen[c]
      BY <2>1, <2>3 DEF Inv, SnapshotCoherent
    <3>2. rows[id] # None => rows[id].refs \subseteq refs
      BY DEF Inv, ForeignKeys
    <3>3. rows[id] # None => rows[id].refs \subseteq known
      BY <3>1, <3>2
    <3>4. Rendered(id, rows[id], known) = Rendered(id, rows[id], refs)
      BY <1>2, <3>2, <3>3, RenderedWhole
    <3> QED BY <3>1, <3>4 DEF Routing
  <2> QED BY <2>1, <2>2, <2>3 DEF ActivatedRowsAreCoherent
<1>5. CASE UNCHANGED vars \/ MasterReload
  BY <1>3, <1>5 DEF MasterReload, vars
<1>6. ASSUME NEW c \in Clients, Step(c), ~Activate(c)
      PROVE  UNCHANGED confVars
  BY <1>6, StepsSplit, HandlerEffect, ApplyCases, AcquireEffect, ReadRoutesEffect,
     ReadListsEffect, ReturnsEffect DEF Inv
<1> QED BY <1>3, <1>4, <1>5, <1>6 DEF Next, Step

-----------------------------------------------------------------------------
(* The invariant, and what it means. *)

(* The conjunction of the parts above is an invariant: mutual exclusion,   *)
(* versions that only grow from the tables to nginx.conf, and coherence of *)
(* what Apply has read with the rows it read.                              *)
THEOREM Invariance == Spec => []Inv
<1>1. Init => Inv
  BY TypeInit, ShapesInit, ForeignKeysInit, ExclusionInit, VersionOrderInit, TravelsInit,
     SnapshotInit, CoherentInit DEF Inv
<1>2. Inv /\ [Next]_vars => Inv'
  <2> SUFFICES ASSUME Inv, [Next]_vars PROVE Inv'
    OBVIOUS
  <2>1. TypeOK' /\ Shapes' /\ ForeignKeys' /\ Exclusion' /\ VersionOrder'
    BY TypeStep, ShapesStep, ForeignKeysStep, ExclusionStep, VersionOrderStep DEF Inv
  <2>2. OwnWriteTravels' /\ SnapshotCoherent'
    BY TravelsStep, SnapshotStep DEF Inv
  <2> QED BY <2>1, <2>2, CoherentStep DEF Inv
<1> QED BY <1>1, <1>2, PTL DEF Spec

(* No stored row ever refers to an access list, provider or certificate    *)
(* that is gone, however handlers, rollbacks and deletions overlap.        *)
THEOREM ForeignKeysHold == Spec => []ForeignKeys
<1>1. Inv => ForeignKeys
  BY DEF Inv
<1> QED BY <1>1, Invariance, PTL

(* A handler that reports success has its write, or a later one to the     *)
(* same row, in nginx.conf.                                                *)
THEOREM AcknowledgedHold == Spec => []AcknowledgedIsActive
<1>1. Inv => AcknowledgedIsActive
  <2> SUFFICES ASSUME Inv, NEW c \in Clients, pc[c] = "ok", tgt[c] \in Ids
               PROVE  confVer[tgt[c]] >= mine[c]
    BY DEF AcknowledgedIsActive
  <2>1. mine[c] <= confVer[tgt[c]]
    BY DEF Inv, OwnWriteTravels
  <2>2. mine[c] \in Nat /\ confVer[tgt[c]] \in Nat
    BY DEF Inv, TypeOK
  <2> QED BY <2>1, <2>2
<1> QED BY <1>1, Invariance, PTL

(* nginx.conf holds of every row a version the row had, whole; of a row    *)
(* not written since, the row itself.                                      *)
THEOREM CoherentHold == Spec => []ActivatedRowsAreCoherent
<1>1. Inv => ActivatedRowsAreCoherent
  BY DEF Inv
<1> QED BY <1>1, Invariance, PTL

(* No activation replaces nginx.conf by an older version of any row.       *)
THEOREM ForwardHold == Spec => ActivationMovesForward
<1>1. Inv /\ [Next]_vars => [\A id \in Ids : confVer'[id] >= confVer[id]]_vars
  <2> SUFFICES ASSUME Inv, [Next]_vars, NEW id \in Ids PROVE confVer'[id] >= confVer[id]
    OBVIOUS
  <2>1. confVer[id] <= confVer'[id]
    BY ActivationStep DEF Inv
  <2>2. confVer[id] \in Nat /\ confVer'[id] \in Nat
    BY TypeStep DEF Inv, TypeOK
  <2> QED BY <2>1, <2>2
<1> QED BY <1>1, Invariance, PTL DEF Spec, ActivationMovesForward

(* No rollback, update or insertion brings a deleted row back.             *)
THEOREM DeletedHold == Spec => DeletedStaysDeleted
<1>1. Inv /\ [Next]_vars => [\A id \in used : rows[id] = None => rows'[id] = None]_vars
  <2> SUFFICES ASSUME Inv, [Next]_vars, NEW id \in used, rows[id] = None
               PROVE  rows'[id] = None
    OBVIOUS
  <2>1. TableStep /\ id \in Ids
    BY TablesStep DEF Inv, TypeOK
  <2> QED BY <2>1 DEF TableStep
<1> QED BY <1>1, Invariance, PTL DEF Spec, DeletedStaysDeleted

-----------------------------------------------------------------------------
(* ControlPlane settles: when the handlers are done, the last Apply        *)
(* succeeded and its reload was taken, OpenResty runs the tables.          *)

(* Who writes a row owes its version, and keeps owing until it is read.    *)

(* What a step outside Apply does to the debts.                            *)
DebtStep(c) ==
  /\ \A id \in Ids :
       \/ rows'[id] = rows[id] /\ ver'[id] = ver[id] /\ owner'[id] = owner[id]
       \/ owner'[id] = None
       \/ owner'[id] = c /\ Owes(c, id)'
  /\ \A id \in Ids : Owes(c, id) => Owes(c, id)' \/ (rows[id] = None /\ pc[c] = "reread")
  /\ pc'[c] = "reread" => tgt'[c] \in Ids /\ rows'[tgt'[c]] # None

LEMMA DebtQuiet ==
  ASSUME UNCHANGED <<rows, ver, owner>>, NEW c,
         pc[c] \notin {"reread", "apply", "routes"}, pc'[c] # "reread"
  PROVE  DebtStep(c)
BY DEF DebtStep, Owes

LEMMA DebtWritten ==
  ASSUME TypeOK, NEW c \in Clients, NEW id \in Ids, NEW row,
         Store(c, [rows EXCEPT ![id] = row], {id}),
         pc[c] \notin {"reread", "apply", "routes"},
         \/ pc'[c] = "apply"
         \/ pc'[c] = "reread" /\ tgt'[c] = id /\ row # None
  PROVE  DebtStep(c)
<1>1. /\ rows' = [rows EXCEPT ![id] = row]
      /\ ver' = [i \in Ids |-> IF i \in {id} THEN ver[i] + 1 ELSE ver[i]]
      /\ owner' = [i \in Ids |-> IF i \in {id} THEN c ELSE owner[i]]
  BY DEF Store, Bump, Credit
<1> QED BY <1>1 DEF TypeOK, DebtStep, Owes

LEMMA HandlerDebts ==
  ASSUME TypeOK, Shapes, ForeignKeys, NEW c \in Clients, HandlerStep(c)
  PROVE  DebtStep(c)
<1> USE DEF Goto
<1>0. RequestShape(c) /\ pc \in [Clients -> Labels] /\ tgt[c] \in Ids \cup Refs \cup {None}
  BY DEF Shapes, TypeOK
<1>1. CASE Arrive(c)
  <2>1. UNCHANGED <<rows, ver, owner>> /\ pc[c] = "idle"
    BY <1>1 DEF Arrive, CreateHost, CreateRoute, UpdateHost, UpdateRoute, DeleteRow,
       DeleteRef, Touch, Accept, storeVars, writeVars
  <2>2. pc'[c] # "reread"
    BY <1>0, <1>1 DEF Arrive, CreateHost, CreateRoute, UpdateHost, UpdateRoute, DeleteRow,
       DeleteRef, Touch
  <2> QED BY <2>1, <2>2, DebtQuiet
<1>2. CASE CheckDomains(c) \/ ReadOld(c) \/ CheckRefs(c) \/ CheckRoutes(c) \/ EraseMaterial(c)
           \/ Respond(c)
  <2>1. UNCHANGED <<rows, ver, owner>> /\ pc[c] \notin {"reread", "apply", "routes"}
    BY <1>2 DEF CheckDomains, ReadOld, CheckRefs, CheckRoutes, EraseMaterial, Respond,
       storeVars, writeVars
  <2>2. pc'[c] # "reread"
    BY <1>0, <1>2 DEF CheckDomains, ReadOld, CheckRefs, CheckRoutes, EraseMaterial, Respond
  <2> QED BY <2>1, <2>2, DebtQuiet
<1>3. CASE Reread(c)
  <2>1. /\ UNCHANGED <<rows, ver, owner, tgt>> /\ pc[c] = "reread"
        /\ pc'[c] = IF rows[tgt[c]] = None THEN "failed" ELSE "apply"
    BY <1>0, <1>3 DEF Reread, storeVars, writeVars, requestVars
  <2> QED BY <2>1 DEF DebtStep, Owes
<1>4. CASE Insert(c)
  <2>1. CASE want[c].refs \subseteq refs
    <3>1. PICK id \in CreatedIn[kind[c]] \ used :
             /\ Store(c, [rows EXCEPT ![id] = want[c]], {id})
             /\ tgt' = [tgt EXCEPT ![c] = id]
             /\ pc' = [pc EXCEPT ![c] = "reread"]
      BY <1>4, <2>1 DEF Insert
    <3>2. id \in Ids /\ pc[c] = "write" /\ want[c] # None
      BY <1>0, <1>4, TableTypes DEF Insert, RequestShape
    <3>3. tgt'[c] = id /\ pc'[c] = "reread"
      BY <1>0, <3>1 DEF TypeOK
    <3> QED BY <3>1, <3>2, <3>3, DebtWritten
  <2>2. CASE ~(want[c].refs \subseteq refs)
    BY <1>0, <1>4, <2>2, DebtQuiet DEF Insert, writeVars
  <2> QED BY <2>1, <2>2
<1>5. CASE Update(c)
  <2>0. tgt[c] \in Ids /\ want[c] # None /\ pc[c] = "write" /\ tgt' = tgt
    BY <1>0, <1>5, TableTypes DEF Update, RequestShape, requestVars
  <2>1. CASE rows[tgt[c]] # None /\ want[c].refs \subseteq refs
    <3>1. Store(c, [rows EXCEPT ![tgt[c]] = want[c]], {tgt[c]}) /\ pc'[c] = "reread"
      BY <1>0, <1>5, <2>1 DEF Update
    <3> QED BY <2>0, <3>1, DebtWritten
  <2>2. CASE ~(rows[tgt[c]] # None /\ want[c].refs \subseteq refs)
    BY <1>0, <1>5, <2>2, DebtQuiet DEF Update, writeVars
  <2> QED BY <2>1, <2>2
<1>6. CASE Delete(c)
  <2>0. tgt[c] \in Ids /\ pc[c] = "write"
    BY <1>0, <1>6 DEF Delete, RequestShape
  <2>1. CASE rows[tgt[c]] # None
    <3>1. Store(c, [rows EXCEPT ![tgt[c]] = None], {tgt[c]}) /\ pc'[c] = "apply"
      BY <1>0, <1>6, <2>1 DEF Delete
    <3> QED BY <2>0, <3>1, DebtWritten
  <2>2. CASE rows[tgt[c]] = None
    BY <1>0, <1>6, <2>2, DebtQuiet DEF Delete, writeVars
  <2> QED BY <2>1, <2>2
<1>7. CASE DropRef(c)
  <2> DEFINE hit == {id \in Ids : rows[id] # None /\ tgt[c] \in rows[id].refs}
  <2>1. /\ rows' = [id \in Ids |-> Unreferenced(rows[id], tgt[c])]
        /\ ver' = [id \in Ids |-> IF id \in hit THEN ver[id] + 1 ELSE ver[id]]
        /\ owner' = [id \in Ids |-> IF id \in hit
                                    THEN IF tgt[c] \in Certs THEN None ELSE c
                                    ELSE owner[id]]
        /\ pc[c] = "drop"
        /\ pc'[c] = IF tgt[c] \notin refs \cup Lists THEN "failed"
                    ELSE IF tgt[c] \in Certs THEN "erase" ELSE "apply"
    BY <1>0, <1>7 DEF DropRef, Bump, Credit
  <2>2. ASSUME NEW id \in Ids, id \notin hit
        PROVE  rows'[id] = rows[id] /\ ver'[id] = ver[id] /\ owner'[id] = owner[id]
    <3>1. CASE rows[id] = None
      BY <2>1, <2>2, <3>1 DEF Unreferenced
    <3>2. CASE rows[id] # None
      <4>1. rows[id] \in Row /\ tgt[c] \notin rows[id].refs
        BY <2>2, <3>2 DEF TypeOK, MaybeRow
      <4>2. [rows[id] EXCEPT !.refs = @ \ {tgt[c]}] = rows[id]
        BY <4>1 DEF Row
      <4> QED BY <2>1, <2>2, <3>2, <4>2 DEF Unreferenced
    <3> QED BY <3>1, <3>2
  <2>3. ASSUME NEW id \in hit
        PROVE  owner'[id] = None \/ (owner'[id] = c /\ pc'[c] = "apply")
    <3>1. tgt[c] \in refs
      BY <2>3 DEF ForeignKeys
    <3> QED BY <2>1, <2>3, <3>1
  <2>4. pc'[c] # "reread" /\ pc[c] \notin {"reread", "apply", "routes"}
    BY <2>1
  <2> HIDE DEF hit
  <2>5. \A id \in Ids : \/ rows'[id] = rows[id] /\ ver'[id] = ver[id] /\ owner'[id] = owner[id]
                        \/ owner'[id] = None
                        \/ owner'[id] = c /\ pc'[c] = "apply"
    BY <2>2, <2>3
  <2> QED BY <2>4, <2>5 DEF DebtStep, Owes
<1>8. CASE Rollback(c)
  <2>0. pc[c] = "rollback" /\ pc'[c] = "apply"
    BY <1>8 DEF Rollback, Goto, TypeOK
  <2>1. CASE Undoable(c)
    <3>1. Store(c, [rows EXCEPT ![tgt[c]] = old[c]], {tgt[c]})
      BY <1>8, <2>1 DEF Rollback, Undo
    <3> QED BY <2>0, <2>1, <3>1, DebtWritten DEF Undoable
  <2>2. CASE ~Undoable(c)
    BY <1>8, <2>0, <2>2, DebtQuiet DEF Rollback, Undo
  <2> QED BY <2>1, <2>2
<1> QED BY <1>1, <1>2, <1>3, <1>4, <1>5, <1>6, <1>7, <1>8 DEF HandlerStep

LEMMA HandlerKeeps ==
  ASSUME NEW c \in Clients, HandlerStep(c)
  PROVE  UNCHANGED <<applyVars, confVars, liveVars, lastOk>>
BY DEF HandlerStep, Arrive, CreateHost, CreateRoute, UpdateHost, UpdateRoute, DeleteRow,
   DeleteRef, Touch, Accept, CheckDomains, ReadOld, CheckRefs, Insert, Update, Reread,
   Delete, CheckRoutes, DropRef, EraseMaterial, Rollback, Respond

-----------------------------------------------------------------------------
(* A writer finds its row again. *)

LEMMA WriterStep ==
  ASSUME Inv, WriterFindsRow, [Next]_vars
  PROVE  WriterFindsRow'
<1>1. CASE UNCHANGED vars \/ MasterReload
  BY <1>1 DEF WriterFindsRow, MasterReload, vars, storeVars, requestVars, writeVars
<1>2. ASSUME NEW c \in Clients, Step(c) PROVE WriterFindsRow'
  <2>0. TableStep
    BY TablesStep DEF Inv
  <2>1. ASSUME NEW d \in Clients, d # c
        PROVE  pc'[d] = pc[d] /\ tgt'[d] = tgt[d]
    BY <1>2, <2>1, OthersKeep DEF Own, Inv
  <2>2. ASSUME NEW d \in Clients, pc[d] = "reread" PROVE tgt[d] \in Ids
    <3>1. RequestShape(d) /\ kind[d] \in Kinds
      BY DEF Inv, Shapes, TypeOK
    <3> QED BY <2>2, <3>1 DEF RequestShape
  <2>3. CASE HandlerStep(c)
    <3>1. DebtStep(c)
      BY <2>3, HandlerDebts DEF Inv
    <3>2. ASSUME NEW d \in Clients, d # c, pc[d] = "reread", owner'[tgt[d]] = d
          PROVE  rows'[tgt[d]] # None
      <4>1. tgt[d] \in Ids /\ d # None
        BY <2>2, <3>2, TableTypes
      <4>2. rows'[tgt[d]] = rows[tgt[d]] /\ owner[tgt[d]] = d
        BY <3>1, <3>2, <4>1 DEF DebtStep
      <4> QED BY <3>2, <4>2 DEF WriterFindsRow
    <3> QED BY <2>1, <3>1, <3>2 DEF WriterFindsRow, DebtStep
  <2>4. CASE ApplyStep(c)
    <3>1. /\ rows' = rows /\ owner' = owner /\ tgt' = tgt
      BY <2>4, ApplyKeepsTables DEF storeVars, requestVars, writeVars
    <3>2. pc'[c] # "reread"
      BY <2>4, ApplyCases, AcquireEffect, ReadRoutesEffect, ReadListsEffect,
         ActivateEffect, ReturnsEffect DEF Inv
    <3> QED BY <2>1, <3>1, <3>2 DEF WriterFindsRow
  <2> QED BY <1>2, <2>3, <2>4, StepsSplit
<1> QED BY <1>1, <1>2 DEF Next, Step

-----------------------------------------------------------------------------
(* No version is forgotten. *)

(* One row's part of NothingForgotten.                                     *)
Remembered(id) ==
  /\ \A c \in Clients : id \in Read(c) => snapVer[c][id] = ver[id] \/ Owed(id)
  /\ \A c \in Clients : pc[c] = "signal" => confVer[id] = ver[id] \/ Owed(id)
  /\ \/ confVer[id] = ver[id] \/ Owed(id)
     \/ ~lastOk
     \/ \E c \in Clients : id \in Read(c)

LEMMA HandlerRemembers ==
  ASSUME Inv, WriterFindsRow, NEW c \in Clients, HandlerStep(c), NEW id \in Ids,
         Remembered(id)
  PROVE  Remembered(id)'
<1>1. DebtStep(c) /\ UNCHANGED <<applyVars, confVars, liveVars, lastOk>>
  BY HandlerDebts, HandlerKeeps DEF Inv
<1>2. ASSUME NEW d \in Clients
      PROVE  Read(d)' = Read(d) /\ (pc'[d] = "signal" <=> pc[d] = "signal")
  <2>1. CASE d = c
    BY <2>1, HandlerEffect DEF Inv, Inside, Read
  <2>2. CASE d # c
    BY <2>2, OthersKeep DEF Inv, Step, HandlerStep, Proceed, Own, Read
  <2> QED BY <2>1, <2>2
<1>3. ASSUME NEW d \in Clients, d # c, Owes(d, id) PROVE Owes(d, id)'
  <2>1. pc'[d] = pc[d] /\ tgt'[d] = tgt[d]
    BY <1>3, OthersKeep DEF Inv, Step, HandlerStep, Proceed, Own
  <2> QED BY <1>3, <2>1 DEF Owes
<1>4. ASSUME owner[id] = c, Owes(c, id) PROVE Owes(c, id)'
  <2>1. ~(rows[id] = None /\ pc[c] = "reread")
    BY <1>4 DEF WriterFindsRow, Owes
  <2> QED BY <1>1, <1>4, <2>1 DEF DebtStep
<1>5. \/ ver'[id] = ver[id] /\ owner'[id] = owner[id]
     \/ Owed(id)'
  BY <1>1 DEF DebtStep, Owed
<1>6. Owed(id) => Owed(id)'
  <2>1. CASE owner'[id] = owner[id] /\ owner[id] = None
    BY <2>1 DEF Owed
  <2>2. ASSUME NEW d \in Clients, owner'[id] = d, owner[id] = d, Owes(d, id)
        PROVE  Owed(id)'
    BY <1>3, <1>4, <2>2 DEF Owed
  <2> QED BY <1>5, <2>1, <2>2 DEF Owed
<1>7. Owed(id)' \/ (ver'[id] = ver[id] /\ ~Owed(id))
  BY <1>5, <1>6
<1> QED BY <1>1, <1>2, <1>7 DEF Remembered, applyVars, confVars

LEMMA ReturnOutcome ==
  ASSUME NEW c \in Clients, Returns(c), lastOk'
  PROVE  pc[c] = "signal" /\ pending'
BY DEF Returns, Refuse, SignalReload, SignalFails, Finish

LEMMA ApplyRemembers ==
  ASSUME Inv, NEW c \in Clients, ApplyStep(c), NEW id \in Ids, Remembered(id)
  PROVE  Remembered(id)'
<1>1. UNCHANGED <<tgt, ver, owner>>
  BY ApplyKeepsTables DEF requestVars, writeVars
<1>2. ASSUME NEW d \in Clients, d # c
      PROVE  /\ Read(d)' = Read(d) /\ pc'[d] = pc[d] /\ snapVer'[d] = snapVer[d]
             /\ Owes(d, id)' <=> Owes(d, id)
  BY <1>1, <1>2, OthersKeep DEF Inv, Step, ApplyStep, Proceed, Own, Read, Owes
<1>3. ASSUME Owes(c, id) => Owes(c, id)' PROVE Owed(id) => Owed(id)'
  <2>1. ASSUME NEW d \in Clients, Owes(d, id) PROVE Owes(d, id)'
    BY <1>2, <1>3, <2>1
  <2> QED BY <1>1, <2>1 DEF Owed
<1>4. CASE Acquire(c)
  <2>1. /\ pc[c] = "apply" /\ pc'[c] = "routes" /\ UNCHANGED <<confVer, lastOk>>
        /\ Read(c) = {} /\ Read(c)' = HostIds
    BY <1>4, AcquireEffect DEF Inv, Read, confVars, Acquire
  <2>2. CASE id \in HostIds
    <3>1. snapVer'[c][id] = ver[id] /\ id \in Read(c)'
      BY <1>4, <2>1, <2>2, AcquireEffect DEF Inv
    <3>2. \A d \in Clients \ {c} : ~Inside(d)
      BY <1>4, TableTypes DEF Acquire, MutexFree, Inv, Exclusion
    <3>3. \A d \in Clients \ {c} : id \notin Read(d)' /\ pc'[d] # "signal"
      BY <1>2, <3>2 DEF Inside, Read
    <3> QED BY <1>1, <2>1, <3>1, <3>3 DEF Remembered
  <2>3. CASE id \notin HostIds
    <3>1. id \in RouteIds
      BY <2>3 DEF Ids
    <3>2. Owed(id) => Owed(id)'
      BY <1>3, <2>1, <3>1 DEF Owes
    <3>3. id \notin Read(c) /\ id \notin Read(c)' /\ pc'[c] # "signal"
      BY <2>1, <2>3
    <3> QED BY <1>1, <1>2, <2>1, <3>2, <3>3 DEF Remembered
  <2> QED BY <2>2, <2>3
<1>5. CASE ReadRoutes(c)
  <2>1. /\ pc[c] = "routes" /\ pc'[c] = "lists" /\ UNCHANGED <<confVer, lastOk>>
        /\ Read(c) = HostIds /\ Read(c)' = Ids /\ Inside(c)
    BY <1>5, ReadRoutesEffect DEF Inv, Read, confVars, ReadRoutes, Inside
  <2>2. \A d \in Clients \ {c} : id \notin Read(d)' /\ pc'[d] # "signal"
    BY <1>2, <2>1, Alone DEF Inv, Exclusion, Inside
  <2>3. CASE id \in RouteIds
    <3>1. snapVer'[c][id] = ver[id]
      BY <1>5, <2>3, ReadRoutesEffect DEF Inv
    <3> QED BY <1>1, <2>1, <2>2, <3>1 DEF Remembered
  <2>4. CASE id \notin RouteIds
    <3>1. snapVer'[c][id] = snapVer[c][id] /\ id \in Read(c)
      BY <1>5, <2>1, <2>4, ReadRoutesEffect DEF Inv
    <3>2. Owed(id) => Owed(id)'
      BY <1>3, <2>1, <2>4 DEF Owes
    <3> QED BY <1>1, <2>1, <2>2, <3>1, <3>2 DEF Remembered
  <2> QED BY <2>3, <2>4
<1>6. CASE ReadLists(c)
  <2>1. /\ pc[c] = "lists" /\ pc'[c] = "activate" /\ UNCHANGED <<confVer, lastOk, snapVer>>
        /\ Read(c)' = Read(c)
    BY <1>6, ReadListsEffect DEF Inv, Read, confVars, ReadLists
  <2>2. Owed(id) => Owed(id)'
    BY <1>3, <2>1 DEF Owes
  <2> QED BY <1>1, <1>2, <2>1, <2>2 DEF Remembered
<1>7. CASE Activate(c)
  <2>1. /\ pc[c] = "activate" /\ pc'[c] = "signal" /\ confVer' = snapVer[c]
        /\ Read(c) = Ids /\ Read(c)' = {} /\ Inside(c)
    BY <1>7, ActivateEffect DEF Inv, Read, Inside
  <2>2. \A d \in Clients \ {c} : id \notin Read(d)'
    BY <1>2, <2>1, Alone DEF Inv
  <2>3. Owed(id) => Owed(id)'
    BY <1>3, <2>1 DEF Owes
  <2>4. snapVer[c][id] = ver[id] \/ Owed(id)
    BY <2>1 DEF Remembered
  <2> QED BY <1>1, <2>1, <2>2, <2>3, <2>4 DEF Remembered
<1>8. CASE Returns(c)
  <2>1. /\ Read(c)' = {} /\ confVer' = confVer
        /\ pc[c] \in {"activate", "signal"} /\ pc'[c] # "signal" /\ Inside(c)
    BY <1>8, ReturnsEffect DEF Inv, Read, confVars, Inside
  <2>2. \A d \in Clients \ {c} : id \notin Read(d)' /\ pc'[d] # "signal"
    BY <1>2, <2>1, Alone DEF Inv, Exclusion, Inside
  <2>3. Owed(id) => Owed(id)'
    BY <1>3, <2>1 DEF Owes
  <2>4. lastOk' => confVer[id] = ver[id] \/ Owed(id)
    BY <1>8, ReturnOutcome DEF Remembered
  <2> QED BY <1>1, <2>1, <2>2, <2>3, <2>4 DEF Remembered
<1> QED BY <1>4, <1>5, <1>6, <1>7, <1>8, ApplyCases

LEMMA NothingForgottenStep ==
  ASSUME Inv, WriterFindsRow, NothingForgotten, [Next]_vars
  PROVE  NothingForgotten'
<1>1. CASE UNCHANGED vars \/ MasterReload
  BY <1>1 DEF NothingForgotten, Owed, Owes, Read, MasterReload, vars, requestVars,
              applyVars, confVars, writeVars
<1>2. ASSUME NEW c \in Clients, Step(c), NEW id \in Ids
      PROVE  Remembered(id)'
  <2>1. Remembered(id)
    BY DEF Remembered, NothingForgotten
  <2> QED BY <1>2, <2>1, HandlerRemembers, ApplyRemembers, StepsSplit
<1>3. ASSUME NEW c \in Clients, Step(c) PROVE NothingForgotten'
  BY <1>2, <1>3 DEF Remembered, NothingForgotten
<1> QED BY <1>1, <1>3 DEF Next, Step

-----------------------------------------------------------------------------
(* What runs is what was activated, or a reload is missing. *)

LEMMA LiveStep ==
  ASSUME Inv, LiveOrDue, [Next]_vars
  PROVE  LiveOrDue'
<1>1. CASE UNCHANGED vars
  BY <1>1 DEF LiveOrDue, vars, confVars, liveVars
<1>2. CASE MasterReload
  BY <1>2 DEF LiveOrDue, MasterReload, confVars
<1>3. ASSUME NEW c \in Clients, Step(c) PROVE LiveOrDue'
  <2>1. ASSUME NEW d \in Clients, d # c PROVE pc'[d] = pc[d]
    BY <1>3, <2>1, OthersKeep DEF Own, Inv
  <2>2. CASE HandlerStep(c)
    BY <2>1, <2>2, HandlerKeeps, HandlerEffect DEF LiveOrDue, confVars, liveVars, Inv, Inside
  <2>3. CASE Activate(c)
    BY <2>3, ActivateEffect DEF LiveOrDue, Inv
  <2>4. CASE Acquire(c) \/ ReadRoutes(c) \/ ReadLists(c)
    <3>1. UNCHANGED <<confVars, liveVars, lastOk>> /\ pc[c] # "signal"
      BY <2>4 DEF Acquire, ReadRoutes, ReadLists
    <3> QED BY <2>1, <3>1 DEF LiveOrDue, confVars, liveVars
  <2>5. CASE Returns(c)
    <3>1. CASE lastOk'
      BY <2>5, <3>1, ReturnOutcome DEF LiveOrDue
    <3>2. CASE ~lastOk'
      BY <3>2 DEF LiveOrDue
    <3> QED BY <3>1, <3>2
  <2> QED BY <1>3, <2>2, <2>3, <2>4, <2>5, StepsSplit, ApplyCases
<1> QED BY <1>1, <1>2, <1>3 DEF Next, Step

-----------------------------------------------------------------------------
(* Every version of a row that nginx.conf does not have is owed by a       *)
(* handler that has yet to read it for its Apply, or the last Apply failed. *)
THEOREM SettlingInvariance == Spec => [](Inv /\ SettlingInv)
<1>1. Init => SettlingInv
  BY TableTypes
     DEF Init, SettlingInv, NothingForgotten, WriterFindsRow, LiveOrDue
<1>2. Inv /\ SettlingInv /\ [Next]_vars => SettlingInv'
  BY WriterStep, NothingForgottenStep, LiveStep DEF SettlingInv
<1> QED BY <1>1, <1>2, Invariance, PTL DEF Spec

(* Once the handlers are done, the last Apply succeeded and its reload was *)
(* taken, every row is routed as the tables say, except rows that lost a   *)
(* deleted certificate and were not activated since.                       *)
THEOREM AgreementHold == Spec => []SettledAgreement
<1>1. Inv /\ SettlingInv => SettledAgreement
  <2> SUFFICES ASSUME Inv, SettlingInv, Settled, NEW id \in Ids
               PROVE  \/ live[id] = Rendered(id, rows[id], refs)
                      \/ owner[id] = None /\ ver[id] > confVer[id]
    BY DEF SettledAgreement
  <2>1. \A c \in Clients : Read(c) = {} /\ ~Owes(c, id) /\ pc[c] # "signal"
    BY DEF Settled, Read, Owes
  <2>2. live = conf
    BY <2>1 DEF Settled, SettlingInv, LiveOrDue
  <2>3. confVer[id] = ver[id] \/ owner[id] = None
    BY <2>1 DEF Settled, SettlingInv, NothingForgotten, Owed
  <2>4. CASE confVer[id] = ver[id]
    BY <2>2, <2>4 DEF Inv, ActivatedRowsAreCoherent
  <2>5. CASE confVer[id] # ver[id]
    <3>1. confVer[id] <= ver[id] /\ confVer[id] \in Nat /\ ver[id] \in Nat
      BY DEF Inv, VersionOrder, TypeOK
    <3> QED BY <2>3, <2>5, <3>1
  <2> QED BY <2>4, <2>5
<1> QED BY <1>1, SettlingInvariance, PTL

-----------------------------------------------------------------------------
(* ControlPlane implements Activation: whatever handlers, their rollbacks, *)
(* deletions and failures do, each step is a Write, an Activate or a       *)
(* Reload of the abstract specification, or invisible to it.               *)

(* What the tables ask nginx.conf to say: Promise's `stored`.              *)
Stored == [id \in Ids |-> Rendered(id, rows[id], refs)]

LEMMA StoredWhole ==
  ASSUME TypeOK, ForeignKeys, NEW id \in Ids
  PROVE  Stored[id] = IF rows[id] = None \/ ~rows[id].enabled THEN None ELSE rows[id]
<1>1. rows[id] \in MaybeRow /\ (rows[id] # None => rows[id].refs \subseteq refs)
  BY DEF TypeOK, ForeignKeys
<1> QED BY <1>1, RenderedWhole DEF Stored

(* A step on the tables is a Write of the abstract specification: a row    *)
(* whose version stays is still rendered the same.                         *)
LEMMA TablesWrite ==
  ASSUME Inv, Inv', [Next]_vars, UNCHANGED <<confVars, live>>
  PROVE  Promise!Write
<1>1. TableStep
  BY TablesStep DEF Inv
<1>2. ASSUME NEW id \in Ids, rows'[id] = rows[id]
      PROVE  Stored'[id] = Stored[id]
  <2>1. Stored[id] = IF rows[id] = None \/ ~rows[id].enabled THEN None ELSE rows[id]
    BY StoredWhole DEF Inv
  <2>2. Stored'[id] = IF rows'[id] = None \/ ~rows'[id].enabled THEN None ELSE rows'[id]
    <3>1. rows'[id] \in MaybeRow /\ (rows'[id] # None => rows'[id].refs \subseteq refs')
      BY DEF Inv, TypeOK, ForeignKeys
    <3> QED BY <3>1, RenderedWhole DEF Stored
  <2> QED BY <1>2, <2>1, <2>2
<1>3. \A id \in Ids : \/ ver'[id] = ver[id] /\ Stored'[id] = Stored[id]
                      \/ ver'[id] = ver[id] + 1
  BY <1>1, <1>2 DEF TableStep
<1> QED BY <1>3 DEF Promise!Write, Stored, confVars

(* The rename of the tested file is an Activate.                           *)
LEMMA RenameActivates ==
  ASSUME Inv, Inv', [Next]_vars, NEW c \in Clients, Activate(c)
  PROVE  Promise!Activate
<1>1. UNCHANGED <<storeVars, writeVars, live>>
  BY DEF Activate, liveVars
<1>2. \A id \in Ids : confVer[id] <= confVer'[id]
  BY ActivationStep DEF Inv
<1>3. \A id \in Ids : confVer'[id] <= ver[id]
  BY <1>1 DEF Inv, VersionOrder, writeVars
<1>4. \A id \in Ids : confVer'[id] = ver[id] => conf'[id] = Stored[id]
  BY <1>1 DEF Inv, ActivatedRowsAreCoherent, writeVars, storeVars, Stored
<1>5. Stored' = Stored
  BY <1>1 DEF storeVars, Stored
<1> QED BY <1>1, <1>2, <1>3, <1>4, <1>5 DEF Promise!Activate, Stored, writeVars

(* OpenResty's reload is a Reload, or keeps the old workers.               *)
LEMMA MasterReloads ==
  ASSUME MasterReload
  PROVE  Promise!Reload \/ UNCHANGED Promise!vars
<1>1. UNCHANGED <<storeVars, confVars, writeVars>> /\ (live' = conf \/ live' = live)
  BY DEF MasterReload
<1>2. Stored' = Stored
  BY <1>1 DEF storeVars, Stored
<1> QED BY <1>1, <1>2 DEF Promise!Reload, Promise!vars, Stored, confVars, writeVars

(* Manager.Apply and the handlers around it keep the promise.              *)
THEOREM Refinement == Spec => ActivationSpec
<1>1. Init => Promise!Init
  BY DEF Init, Promise!Init, NoVersion
<1>2. Inv /\ Inv' /\ [Next]_vars => [Promise!Next]_(Promise!vars)
  <2> SUFFICES ASSUME Inv, Inv', [Next]_vars PROVE [Promise!Next]_(Promise!vars)
    OBVIOUS
  <2>1. CASE UNCHANGED vars
    <3>1. UNCHANGED <<storeVars, confVars, liveVars, writeVars>>
      BY <2>1 DEF vars
    <3>2. Stored' = Stored
      BY <3>1 DEF storeVars, Stored
    <3> QED BY <3>1, <3>2 DEF Promise!vars, Stored, confVars, liveVars, writeVars
  <2>2. CASE MasterReload
    BY <2>2, MasterReloads DEF Promise!Next
  <2>3. ASSUME NEW c \in Clients, Activate(c) PROVE [Promise!Next]_(Promise!vars)
    BY <2>3, RenameActivates DEF Promise!Next
  <2>4. ASSUME NEW c \in Clients, Step(c), ~Activate(c)
        PROVE  [Promise!Next]_(Promise!vars)
    <3>1. UNCHANGED confVars
      BY <2>4, StepsSplit, HandlerEffect, ApplyCases, AcquireEffect, ReadRoutesEffect,
         ReadListsEffect, ReturnsEffect DEF Inv
    <3>2. UNCHANGED live
      <4>1. CASE HandlerStep(c)
        BY <4>1, HandlerKeeps DEF Inv, liveVars
      <4>2. CASE ApplyStep(c)
        BY <2>4, <4>2 DEF ApplyStep, Acquire, ReadRoutes, ReadLists, Refuse, SignalReload,
           SignalFails, liveVars
      <4> QED BY <2>4, <4>1, <4>2, StepsSplit
    <3> QED BY <3>1, <3>2, TablesWrite DEF Promise!Next
  <2> QED BY <2>1, <2>2, <2>3, <2>4 DEF Next, Step
<1> QED BY <1>1, <1>2, Invariance, PTL DEF Spec, ActivationSpec, Promise!Spec

-----------------------------------------------------------------------------
(* A handler that runs alone. *)

(* Domains found free stay free as long as the other hosts keep theirs.    *)
LEMMA StillFree ==
  ASSUME NEW ds, NEW except, ~DomainTaken(ds, except),
         \A id \in HostIds \ {except} :
           rows'[id] # None => rows[id] # None /\ rows'[id].domains = rows[id].domains
  PROVE  ~\E id \in HostIds \ {except} : rows'[id] # None /\ rows'[id].domains \cap ds # {}
BY DEF DomainTaken

(* A host may take domains that no other host has.                         *)
LEMMA StillUnique ==
  ASSUME TypeOK, DomainsUnique, NEW id \in Ids, NEW row \in MaybeRow,
         rows' = [rows EXCEPT ![id] = row],
         row # None /\ id \in HostIds => ~DomainTaken(row.domains, id)
  PROVE  DomainsUnique'
<1> SUFFICES ASSUME NEW i \in HostIds, NEW j \in HostIds, i # j,
                    rows'[i] # None, rows'[j] # None
             PROVE  rows'[i].domains \cap rows'[j].domains = {}
  BY DEF DomainsUnique
<1>0. i \in Ids /\ j \in Ids
  BY TableTypes
<1>1. CASE i # id /\ j # id
  BY <1>0, <1>1 DEF DomainsUnique, TypeOK
<1>2. CASE i = id
  <2>1. rows'[i] = row /\ rows'[j] = rows[j] /\ j \in HostIds \ {id}
    BY <1>0, <1>2 DEF TypeOK
  <2> QED BY <1>2, <2>1 DEF DomainTaken
<1>3. CASE j = id
  <2>1. rows'[j] = row /\ rows'[i] = rows[i] /\ i \in HostIds \ {id}
    BY <1>0, <1>3 DEF TypeOK
  <2> QED BY <1>3, <2>1 DEF DomainTaken
<1> QED BY <1>1, <1>2, <1>3

LEMMA QuietUnique ==
  ASSUME DomainsUnique, rows' = rows
  PROVE  DomainsUnique'
BY DEF DomainsUnique

(* The steps that read, of a handler that runs alone.                      *)
LEMMA SerialReads ==
  ASSUME TypeOK, Shapes, ForeignKeys, DomainsUnique, NEW c \in Clients, Undisturbed(c),
         CheckDomains(c) \/ ReadOld(c) \/ CheckRefs(c) \/ Reread(c) \/ CheckRoutes(c)
  PROVE  rows' = rows /\ Undisturbed(c)'
<1> USE DEF Goto, storeVars, requestVars, writeVars, Undisturbed, Standing, WritesHost,
        DomainTaken
<1>0. /\ RequestShape(c) /\ pc \in [Clients -> Labels]
      /\ old \in [Clients -> MaybeRow] /\ want \in [Clients -> MaybeRow]
      /\ tgt \in [Clients -> Ids \cup Refs \cup {None}]
  BY DEF Shapes, TypeOK
<1>1. CASE CheckDomains(c)
  BY <1>0, <1>1 DEF CheckDomains, RequestShape, Creations, CreatedIn
<1>2. CASE ReadOld(c)
  <2>1. /\ pc[c] = "readOld" /\ kind[c] = "update" /\ tgt[c] \in Ids
        /\ UNCHANGED <<rows, refs, kind, tgt, want, second, owner>>
        /\ old' = [old EXCEPT ![c] = rows[tgt[c]]]
        /\ pc'[c] \in {"failed", "write"}
    BY <1>0, <1>2 DEF ReadOld, RequestShape
  <2>2. old'[c] = rows[tgt[c]]
    BY <1>0, <2>1
  <2>3. old'[c] # None =>
          /\ old'[c].refs \subseteq refs'
          /\ tgt[c] \in HostIds => ~DomainTaken(old[c].domains, tgt[c])'
    BY <2>1, <2>2 DEF ForeignKeys, DomainsUnique
  <2>4. WritesHost(c) => ~DomainTaken(want[c].domains, tgt[c])'
    BY <2>1
  <2>5. ~second[c] /\ kind[c] \notin Creations
    BY <2>1 DEF Creations, CreatedIn
  <2> HIDE DEF DomainTaken
  <2> QED BY <2>1, <2>3, <2>4, <2>5
<1>3. CASE CheckRefs(c)
  BY <1>0, <1>3 DEF CheckRefs, RequestShape, Creations, CreatedIn
<1>4. CASE Reread(c)
  BY <1>0, <1>4 DEF Reread
<1>5. CASE CheckRoutes(c)
  BY <1>0, <1>5 DEF CheckRoutes, RequestShape, Creations, CreatedIn
<1> QED BY <1>1, <1>2, <1>3, <1>4, <1>5

LEMMA SerialArrives ==
  ASSUME TypeOK, Shapes, ForeignKeys, NEW c \in Clients, Undisturbed(c), Arrive(c)
  PROVE  rows' = rows /\ Undisturbed(c)'
<1> USE DEF Goto, Accept, Request, storeVars, writeVars, Undisturbed, Standing, WritesHost,
        Creations, CreatedIn
<1>0. /\ pc \in [Clients -> Labels] /\ kind \in [Clients -> Kinds]
      /\ old \in [Clients -> MaybeRow] /\ want \in [Clients -> MaybeRow]
      /\ tgt \in [Clients -> Ids \cup Refs \cup {None}]
  BY DEF TypeOK
<1>1. pc[c] = "idle" /\ UNCHANGED <<rows, refs, owner, second>>
  BY DEF Arrive, CreateHost, CreateRoute, UpdateHost, UpdateRoute, DeleteRow, DeleteRef,
     Touch
<1>2. ~second'[c]
  BY <1>1
<1>3. ASSUME NEW row \in InputRows, NEW id \in RouteIds, UpdateRoute(c, id, row)
      PROVE  Undisturbed(c)'
  <2>1. /\ pc'[c] = "checkRefs" /\ kind'[c] = "update" /\ tgt'[c] = id
        /\ old'[c] = rows[id] /\ id \notin HostIds /\ id \in Ids
    BY <1>0, <1>3, IdsAssumption, TableTypes DEF UpdateRoute
  <2>2. old'[c] # None => old'[c].refs \subseteq refs
    BY <2>1 DEF ForeignKeys
  <2> QED BY <1>1, <1>2, <2>1, <2>2
<1>4. ASSUME ~\E row \in InputRows, id \in RouteIds : UpdateRoute(c, id, row)
      PROVE  Undisturbed(c)'
  <2>1. old'[c] = None
    BY <1>0, <1>4 DEF Arrive, CreateHost, CreateRoute, UpdateHost, DeleteRow, DeleteRef,
       Touch
  <2>2. pc'[c] \in {"domains", "write", "checkRoutes", "drop", "apply"}
    BY <1>0, <1>4 DEF Arrive, CreateHost, CreateRoute, UpdateHost, DeleteRow, DeleteRef,
       Touch
  <2>3. kind'[c] \in Creations => tgt'[c] = None
    BY <1>0, <1>4 DEF Arrive, CreateHost, CreateRoute, UpdateHost, DeleteRow, DeleteRef,
       Touch
  <2>4. pc'[c] = "write" => kind'[c] \notin {"createHost", "update"}
    BY <1>0, <1>4 DEF Arrive, CreateHost, CreateRoute, UpdateHost, DeleteRow, DeleteRef,
       Touch
  <2>5. pc'[c] = "apply" => kind'[c] \notin Creations \cup {"update"}
    BY <1>0, <1>4 DEF Arrive, CreateHost, CreateRoute, UpdateHost, DeleteRow, DeleteRef,
       Touch
  <2> QED BY <1>2, <2>1, <2>2, <2>3, <2>4, <2>5
<1> QED BY <1>1, <1>3, <1>4

(* The steps that write the tables.                                        *)
LEMMA SerialWrites ==
  ASSUME TypeOK, Shapes, ForeignKeys, DomainsUnique, NEW c \in Clients, Undisturbed(c),
         Insert(c) \/ Update(c) \/ Delete(c)
  PROVE  DomainsUnique' /\ Undisturbed(c)'
<1> USE DEF Undisturbed, Standing, WritesHost
<1>0. /\ RequestShape(c) /\ pc \in [Clients -> Labels]
      /\ old \in [Clients -> MaybeRow] /\ want \in [Clients -> MaybeRow]
      /\ tgt \in [Clients -> Ids \cup Refs \cup {None}]
  BY DEF Shapes, TypeOK
<1>1. /\ pc[c] = "write" /\ ~second[c]
      /\ UNCHANGED <<kind, want, old, second, refs>>
  BY DEF Insert, Update, Delete, requestVars
<1>2. ASSUME NEW id \in Ids, NEW row \in MaybeRow, Store(c, [rows EXCEPT ![id] = row], {id}),
             row # None /\ id \in HostIds => ~DomainTaken(row.domains, id),
             tgt'[c] = id, pc'[c] \in {"reread", "apply"},
             kind[c] \in Creations \cup {"update"} => row # None,
             kind[c] \in Creations \/ tgt[c] = id
      PROVE  DomainsUnique' /\ Undisturbed(c)'
  <2>1. rows' = [rows EXCEPT ![id] = row] /\ rows'[id] = row
    BY <1>2 DEF Store, TypeOK
  <2>2. DomainsUnique'
    BY <1>2, <2>1, StillUnique
  <2>3. old[c] # None =>
          /\ old[c].refs \subseteq refs
          /\ tgt'[c] \in HostIds => ~DomainTaken(old[c].domains, tgt[c])'
    <3> SUFFICES ASSUME old[c] # None, tgt'[c] \in HostIds
                 PROVE  /\ old[c].refs \subseteq refs
                        /\ ~DomainTaken(old[c].domains, tgt[c])'
      OBVIOUS
    <3>1. kind[c] = "update" /\ tgt[c] = id
      BY <1>2 DEF Creations, CreatedIn
    <3>2. \A j \in HostIds \ {id} : rows'[j] = rows[j]
      BY <2>1, TableTypes DEF TypeOK
    <3> QED BY <1>1, <1>2, <3>1, <3>2 DEF DomainTaken
  <2> QED BY <1>1, <1>2, <2>1, <2>2, <2>3
<1>3. ASSUME UNCHANGED <<rows, tgt>>, pc'[c] \in {"failed", "apply"},
             kind[c] \in Creations \cup {"update"} => pc'[c] = "failed"
      PROVE  DomainsUnique' /\ Undisturbed(c)'
  BY <1>1, <1>3, QuietUnique DEF DomainTaken
<1>4. CASE Insert(c)
  <2>1. CASE want[c].refs \subseteq refs
    <3>1. PICK id \in CreatedIn[kind[c]] \ used :
             /\ Store(c, [rows EXCEPT ![id] = want[c]], {id})
             /\ tgt' = [tgt EXCEPT ![c] = id]
             /\ Goto(c, "reread")
      BY <1>4, <2>1 DEF Insert
    <3>2. id \in Ids /\ tgt'[c] = id /\ pc'[c] = "reread" /\ kind[c] \in Creations
      BY <1>0, <1>4, <3>1, TableTypes DEF Insert, Goto
    <3>3. tgt[c] = None /\ want[c] \in Row /\ want[c] # None
      BY <1>0, <1>1, <3>2, TableTypes DEF RequestShape
    <3>4. id \in HostIds => kind[c] = "createHost"
      BY <3>1, <3>2, IdsAssumption DEF Creations, CreatedIn, RouteIds
    <3>5. id \in HostIds => ~DomainTaken(want[c].domains, id)
      BY <1>1, <3>3, <3>4, TableTypes DEF DomainTaken
    <3> QED BY <1>2, <3>1, <3>2, <3>3, <3>5 DEF MaybeRow
  <2>2. CASE ~(want[c].refs \subseteq refs)
    BY <1>0, <1>3, <1>4, <2>2 DEF Insert, Goto
  <2> QED BY <2>1, <2>2
<1>5. CASE Update(c)
  <2>0. kind[c] = "update" /\ tgt' = tgt /\ tgt[c] \in Ids /\ want[c] \in Row /\ want[c] # None
    BY <1>0, <1>5, TableTypes DEF Update, requestVars, RequestShape
  <2>1. CASE rows[tgt[c]] # None /\ want[c].refs \subseteq refs
    <3>1. Store(c, [rows EXCEPT ![tgt[c]] = want[c]], {tgt[c]}) /\ pc'[c] = "reread"
      BY <1>0, <1>5, <2>1 DEF Update, Goto
    <3>2. tgt[c] \in HostIds => ~DomainTaken(want[c].domains, tgt[c])
      BY <1>1, <2>0
    <3> QED BY <1>2, <2>0, <3>1, <3>2 DEF MaybeRow
  <2>2. CASE ~(rows[tgt[c]] # None /\ want[c].refs \subseteq refs)
    BY <1>0, <1>3, <1>5, <2>0, <2>2 DEF Update, Goto
  <2> QED BY <2>1, <2>2
<1>6. CASE Delete(c)
  <2>0. kind[c] = "delete" /\ tgt' = tgt /\ tgt[c] \in Ids /\ None \in MaybeRow
    BY <1>0, <1>6 DEF Delete, requestVars, RequestShape, MaybeRow
  <2>1. CASE rows[tgt[c]] # None
    <3>1. Store(c, [rows EXCEPT ![tgt[c]] = None], {tgt[c]}) /\ pc'[c] = "apply"
      BY <1>0, <1>6, <2>1 DEF Delete, Goto
    <3> QED BY <1>2, <2>0, <3>1 DEF Creations, CreatedIn
  <2>2. CASE rows[tgt[c]] = None
    BY <1>0, <1>3, <1>6, <2>0, <2>2 DEF Delete, Goto, Creations, CreatedIn
  <2> QED BY <2>1, <2>2
<1> QED BY <1>4, <1>5, <1>6

(* A reference is taken from the rows; their domains stay.                 *)
LEMMA SerialDrops ==
  ASSUME TypeOK, Shapes, DomainsUnique, NEW c \in Clients, Undisturbed(c), DropRef(c)
  PROVE  DomainsUnique' /\ Undisturbed(c)'
<1>1. ASSUME NEW id \in Ids, rows'[id] # None
      PROVE  rows[id] # None /\ rows'[id].domains = rows[id].domains
  <2>1. rows'[id] = Unreferenced(rows[id], tgt[c])
    BY <1>1 DEF DropRef
  <2>2. rows[id] \in Row
    BY <1>1, <2>1 DEF TypeOK, MaybeRow, Unreferenced
  <2>3. [rows[id] EXCEPT !.refs = @ \ {tgt[c]}].domains = rows[id].domains
    BY <2>2 DEF Row
  <2> QED BY <1>1, <2>1, <2>3 DEF Unreferenced
<1>2. DomainsUnique'
  BY <1>1, TableTypes DEF DomainsUnique
<1>3. /\ pc[c] = "drop" /\ kind[c] = "drop" /\ tgt[c] \in Refs
      /\ UNCHANGED <<kind, tgt, want, old, second>>
      /\ pc'[c] \in {"failed", "erase", "apply"}
  BY DEF DropRef, Goto, TypeOK, Shapes, RequestShape, requestVars
<1>4. tgt[c] \notin Ids /\ "drop" \notin Creations
  BY <1>3, TableTypes DEF Creations, CreatedIn
<1> QED BY <1>2, <1>3, <1>4 DEF Undisturbed, Standing, WritesHost

(* A rollback finds the row, the domains and the objects it needs.         *)
LEMMA SerialUndoes ==
  ASSUME TypeOK, Shapes, DomainsUnique, NEW c \in Clients, Undisturbed(c), Rollback(c)
  PROVE  DomainsUnique' /\ Undisturbed(c)'
<1>0. /\ RequestShape(c) /\ pc \in [Clients -> Labels]
      /\ second \in [Clients -> BOOLEAN] /\ old[c] \in MaybeRow
  BY DEF Shapes, TypeOK
<1>1. /\ pc[c] = "rollback" /\ ~second[c] /\ pc'[c] = "apply" /\ second'[c]
      /\ UNCHANGED <<kind, tgt, want, old, refs>>
  BY <1>0 DEF Rollback, Goto, Undisturbed
<1>2. CASE tgt[c] \in Ids
  <2>1. kind[c] \in Creations \cup {"update"}
    BY <1>0, <1>1, <1>2, TableTypes DEF RequestShape
  <2>2. Undoable(c)
    BY <1>1, <1>2, <2>1 DEF Undoable, Undisturbed, Standing
  <2>3. Store(c, [rows EXCEPT ![tgt[c]] = old[c]], {tgt[c]})
    BY <2>2 DEF Rollback, Undo
  <2>4. rows' = [rows EXCEPT ![tgt[c]] = old[c]] /\ rows'[tgt[c]] = old[c]
    BY <1>2, <2>3 DEF Store, TypeOK
  <2>5. owner'[tgt[c]] = c
    BY <1>2, <2>3 DEF Store, Credit
  <2>6. DomainsUnique'
    BY <1>0, <1>2, <2>4, StillUnique DEF Undisturbed
  <2>7. \A j \in HostIds \ {tgt[c]} : rows'[j] = rows[j]
    BY <2>4, TableTypes DEF TypeOK
  <2> QED BY <1>1, <2>4, <2>5, <2>6, <2>7 DEF Undisturbed, Standing, WritesHost, DomainTaken
<1>3. CASE tgt[c] \notin Ids
  <2>1. rows' = rows
    BY <1>3 DEF Rollback, Undo, Undoable
  <2> QED BY <1>1, <1>3, <2>1, QuietUnique
          DEF Undisturbed, Standing, WritesHost, DomainTaken
<1> QED BY <1>2, <1>3

(* Apply itself writes no table.                                           *)
LEMMA SerialApplies ==
  ASSUME TypeOK, Shapes, DomainsUnique, NEW c \in Clients, Undisturbed(c), ApplyStep(c)
  PROVE  DomainsUnique' /\ Undisturbed(c)'
<1>1. UNCHANGED <<rows, refs, owner, kind, tgt, want, old, second>>
  BY ApplyKeepsTables DEF storeVars, requestVars, writeVars
<1>2. DomainsUnique'
  BY <1>1, QuietUnique
<1>3. CASE Acquire(c) \/ ReadRoutes(c) \/ ReadLists(c) \/ Activate(c)
  <2>1. /\ pc[c] \in {"apply", "routes", "lists", "activate"}
        /\ pc'[c] \in {"routes", "lists", "activate", "signal"}
    BY <1>3, AcquireEffect, ReadRoutesEffect, ReadListsEffect, ActivateEffect
  <2> QED BY <1>1, <1>2, <2>1 DEF Undisturbed, Standing, WritesHost, DomainTaken
<1>4. CASE Returns(c)
  <2>1. /\ pc[c] \in {"activate", "signal"}
        /\ pc'[c] \in {"ok", "rollback", "failed"}
    BY <1>4, ReturnsEffect
  <2>2. second[c] => pc'[c] = "failed"
    BY <1>4 DEF Returns, Refuse, SignalReload, SignalFails, Finish, Returned, Goto, TypeOK
  <2> QED BY <1>1, <1>2, <2>1, <2>2 DEF Undisturbed, Standing, WritesHost, DomainTaken
<1> QED BY <1>3, <1>4, ApplyCases

LEMMA SerialStep ==
  ASSUME Inv, NEW c \in Clients, Clients = {c}, SerialInv, [Next]_vars
  PROVE  SerialInv'
<1>0. TypeOK /\ Shapes /\ ForeignKeys /\ DomainsUnique /\ Undisturbed(c)
  BY DEF Inv, SerialInv
<1> SUFFICES DomainsUnique' /\ Undisturbed(c)'
  BY DEF SerialInv
<1>1. CASE UNCHANGED vars \/ MasterReload
  <2>1. UNCHANGED <<storeVars, pc, requestVars, writeVars>>
    BY <1>1 DEF vars, MasterReload
  <2> QED BY <1>0, <2>1, QuietUnique
          DEF Undisturbed, Standing, WritesHost, DomainTaken, storeVars, requestVars, writeVars
<1>2. CASE EraseMaterial(c) \/ Respond(c)
  <2>1. UNCHANGED <<rows, refs, owner>> /\ pc[c] \notin {"readOld", "write"}
    BY <1>2 DEF EraseMaterial, Respond, storeVars, writeVars
  <2>2. CASE EraseMaterial(c)
    <3>1. pc'[c] = "ok" /\ UNCHANGED <<kind, tgt, want, old, second>> /\ pc[c] = "erase"
      BY <1>0, <2>2 DEF EraseMaterial, TypeOK, Goto, requestVars
    <3> QED BY <1>0, <2>1, <3>1, QuietUnique DEF Undisturbed, Standing, WritesHost, DomainTaken
  <2>3. CASE Respond(c)
    <3>1. /\ pc'[c] = "idle" /\ tgt'[c] = None /\ old'[c] = None /\ second'[c] = FALSE
          /\ kind'[c] = "none"
      BY <1>0, <2>3 DEF Respond, TypeOK, Goto
    <3> QED BY <1>0, <2>1, <3>1, QuietUnique
            DEF Undisturbed, Standing, WritesHost, Creations, CreatedIn
  <2> QED BY <1>2, <2>2, <2>3
<1>3. CASE Arrive(c)
  BY <1>0, <1>3, SerialArrives, QuietUnique
<1>4. CASE CheckDomains(c) \/ ReadOld(c) \/ CheckRefs(c) \/ Reread(c) \/ CheckRoutes(c)
  BY <1>0, <1>4, SerialReads, QuietUnique
<1>5. CASE Insert(c) \/ Update(c) \/ Delete(c)
  BY <1>0, <1>5, SerialWrites
<1>6. CASE DropRef(c)
  BY <1>0, <1>6, SerialDrops
<1>7. CASE Rollback(c)
  BY <1>0, <1>7, SerialUndoes
<1>8. CASE ApplyStep(c)
  BY <1>0, <1>8, SerialApplies
<1> QED BY <1>1, <1>2, <1>3, <1>4, <1>5, <1>6, <1>7, <1>8, StepsSplit
        DEF Next, Step, HandlerStep

LEMMA SerialInit == Init /\ InitialDomainsUnique => SerialInv
BY DEF Init, InitialDomainsUnique, SerialInv, DomainsUnique, Undisturbed, Standing, Creations,
   CreatedIn, WritesHost

(* One handler at a time: no two proxy hosts ever share a domain, whatever *)
(* activations fail and whatever is rolled back.                           *)
THEOREM DomainsUniqueAlone ==
  ASSUME NEW s, Clients = {s}, InitialDomainsUnique
  PROVE  Spec => []DomainsUnique
<1>1. Init => SerialInv
  BY SerialInit
<1>2. Inv /\ SerialInv /\ [Next]_vars => SerialInv'
  BY SerialStep
<1>3. SerialInv => DomainsUnique
  BY DEF SerialInv
<1> QED BY <1>1, <1>2, <1>3, Invariance, PTL DEF Spec

(* One handler at a time: a create or update that fails after its write    *)
(* leaves the row it found and, if its second Apply went through, that row *)
(* in nginx.conf.                                                          *)
THEOREM FailureUndone ==
  ASSUME NEW s, Clients = {s}, InitialDomainsUnique
  PROVE  Spec => []FailureLeavesNoTrace
<1>1. Init => SerialInv
  BY SerialInit
<1>2. Inv /\ SerialInv /\ [Next]_vars => SerialInv'
  BY SerialStep
<1>3. Inv /\ SettlingInv /\ SerialInv => FailureLeavesNoTrace
  <2> SUFFICES ASSUME Inv, SettlingInv, SerialInv, NEW c \in Clients,
                      pc[c] = "failed", second[c], tgt[c] \in Ids
               PROVE  /\ rows[tgt[c]] = old[c]
                      /\ lastOk => conf[tgt[c]] = Rendered(tgt[c], old[c], refs)
    BY DEF FailureLeavesNoTrace
  <2>1. rows[tgt[c]] = old[c] /\ owner[tgt[c]] = c
    BY DEF SerialInv, Undisturbed
  <2>2. ASSUME lastOk PROVE confVer[tgt[c]] = ver[tgt[c]]
    <3>1. c # None /\ \A d \in Clients : d = c
      BY TableTypes
    <3>2. Read(c) = {} /\ ~Owes(c, tgt[c])
      BY DEF Read, Owes
    <3> QED BY <2>1, <2>2, <3>1, <3>2 DEF SettlingInv, NothingForgotten, Owed
  <2> QED BY <2>1, <2>2 DEF Inv, ActivatedRowsAreCoherent
<1> QED BY <1>1, <1>2, <1>3, SettlingInvariance, PTL DEF Spec
=============================================================================
